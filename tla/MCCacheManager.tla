--------------------------- MODULE MCCacheManager ---------------------------
(* Instances of CacheManager and DiskCacheStore for TLC.                    *)
EXTENDS CacheManager

CONSTANTS k1, k2, k3, f1, f2, short, long, huge

\* k1 and k2 hash to the same file name.
MCFileOf == [k \in Key |-> IF k \in {k1, k2} THEN f1 ELSE f2]
\* The constructor passes over the files of k2.
MCKeyBytes == [k \in Key |-> IF k = k2 THEN 3 ELSE 2]
\* Two long entries fill the budget, a short one fits beside one of them;
\* the huge one is larger than the whole budget.
MCSize == [v \in Value |-> CASE v = short -> 0 [] v = long -> 2 [] v = huge -> 7]
=============================================================================
