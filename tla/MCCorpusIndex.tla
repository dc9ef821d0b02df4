--------------------------- MODULE MCCorpusIndex ----------------------------
(* Instances of CorpusIndex for TLC.                                        *)
EXTENDS CorpusIndex

\* Tokens 0 and 3 share a hash; 2 does not, and one stream continues it twice.
\* As a length, 0 ends a load.
MCKey(g) == IF g[1] = 2 THEN 1 ELSE 0
MCStream == {<<2, 0, 2, 3>>, <<2>>, <<3, 0>>}
=============================================================================
