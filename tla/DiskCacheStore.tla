--------------------------- MODULE DiskCacheStore ---------------------------
(***************************************************************************)
(* The LRU byte store on disk (src/cache/disk_cache_store.cpp): one file    *)
(* per entry, named by a hash of the key, and an index kept in memory and   *)
(* rebuilt from the files when the process starts.  Its users serialise     *)
(* their calls, so a call is one action; the process may die between calls  *)
(* or in the middle of put(), and a write may be cut short.                 *)
(*                                                                          *)
(* Abstractions: a payload is a value with a length, a key a name with a    *)
(* length, and a damaged file holds a prefix of header, key and payload;    *)
(* the recency counters of the entries are the order they put the keys in,  *)
(* and the files' modification times the order they were written in, both   *)
(* as sets of pairs <<older, newer>>.                                       *)
(***************************************************************************)
EXTENDS Integers, FiniteSets

CONSTANTS
  Key, Value, File,
  file_of,      \* key -> file name: hex64(checksum(key)), possibly colliding
  Size,         \* value -> payload bytes
  KeyBytes,     \* key -> bytes of its file before the payload
  MaxKeyBytes,  \* the longest of those the constructor reads: kHeaderLen + 4096
  max_bytes     \* cfg_.max_bytes, 0 = unlimited

ASSUME StoreAssumption ==
  /\ file_of \in [Key -> File]
  /\ Size \in [Value -> Nat]
  /\ KeyBytes \in [Key -> Nat \ {0}]
  /\ MaxKeyBytes \in Nat
  /\ max_bytes \in Nat

VARIABLES
  entries,      \* entries_: indexed key -> size
  order,        \* which indexed key was used before which
  total_bytes,
  disk,         \* the files
  written,      \* which file was written before which
  up,           \* the process runs; while it does not, the index is gone
  reply         \* what the last call returned, if it was a hit

vars == <<entries, order, total_bytes, disk, written, up, reply>>

\* A file is missing, ends after n bytes inside the header or the key, or
\* holds a key and len payload bytes.
NoFile == [kind |-> "none"]
Torn(n) == [kind |-> "torn", bytes |-> n]
Holds(k, v, len) == [kind |-> "entry", key |-> k, val |-> v, len |-> len]
Content == {NoFile} \cup [kind : {"torn"}, bytes : Nat] \cup
           [kind : {"entry"}, key : Key, val : Value, len : Nat]

NoReply == [op |-> "none"]
Hit(op, k, v, len) == [op |-> op, key |-> k, val |-> v, len |-> len]

entry_size(k, v) == KeyBytes[k] + Size[v]

\* get() can read the key of file f; the constructor passes over a file whose
\* key is too long for it, and never looks at it again.
Readable(f) == disk[f].kind = "entry"
Found(f) == Readable(f) /\ KeyBytes[disk[f].key] <= MaxKeyBytes

FileSize(f) ==
  CASE disk[f].kind = "none" -> 0
    [] disk[f].kind = "torn" -> disk[f].bytes
    [] disk[f].kind = "entry" -> KeyBytes[disk[f].key] + disk[f].len

Init ==
  /\ entries = [k \in {} |-> 0]
  /\ order = {}
  /\ total_bytes = 0
  /\ disk = [f \in File |-> NoFile]
  /\ written = {}
  /\ up = TRUE
  /\ reply = NoReply

-----------------------------------------------------------------------------
\* The sum of the sizes g of the members of S: how many bytes they have.
Sum(g, S) == Cardinality(UNION {{x} \X (1 .. g[x]) : x \in S})
Bytes(D) == Sum(entries, D)

\* A recency without the members of D, and one where x is the newest of S.
Without(r, D) == {p \in r : p[1] \notin D /\ p[2] \notin D}
Newest(r, x, S) == Without(r, {x}) \cup {<<y, x>> : y \in S \ {x}}

\* The index without the keys of D, and the disk without their files.
Index(D) ==
  /\ entries' = [k \in DOMAIN entries \ D |-> entries[k]]
  /\ order' = Without(order, D)
  /\ total_bytes' = total_bytes - Bytes(D)
\* Mutant: only the index forgets.
Unlinked_KeepsFiles(D) == disk
Unlinked(D) == [f \in File |-> IF \E k \in D : file_of[k] = f THEN NoFile
                               ELSE disk[f]]

\* remove() of every indexed key of D.
Drop(D) ==
  /\ Index(D)
  /\ disk' = Unlinked(D)
  /\ UNCHANGED <<written, up>>

remove(k) ==
  /\ up
  /\ Drop({k} \cap DOMAIN entries)
  /\ reply' = NoReply

clear ==
  /\ up
  /\ Drop(DOMAIN entries)
  /\ reply' = NoReply

-----------------------------------------------------------------------------
(* put()                                                                   *)

\* What put(k, v) has removed by the time j is the least recently used entry:
\* k, and all that were used before j.
Before(j, k) == {i \in DOMAIN entries : i = k \/ <<i, j>> \in order}
\* Mutant: the budget is compared before the new entry is added.
Fits_IgnoresIncoming(D, incoming) ==
  max_bytes = 0 \/ total_bytes - Bytes(D) <= max_bytes
Fits(D, incoming) ==
  max_bytes = 0 \/ total_bytes - Bytes(D) + incoming <= max_bytes
\* An entry goes if removing all those before it was not enough.
evict_until_fits(k, v) ==
  {j \in DOMAIN entries \ {k} : ~Fits(Before(j, k), entry_size(k, v))}
Evicted(k, v) == evict_until_fits(k, v) \cup ({k} \cap DOMAIN entries)

TooLarge(k, v) == max_bytes # 0 /\ entry_size(k, v) > max_bytes

\* The disk after k's file was truncated and rewritten with content c.
Written(D, k, c) ==
  /\ disk' = [Unlinked(D) EXCEPT ![file_of[k]] = c]
  /\ written' = Newest(written, file_of[k], File)

\* An entry larger than the whole budget: nothing happens.
PutRefused(k, v) ==
  /\ up
  /\ TooLarge(k, v)
  /\ reply' = NoReply
  /\ UNCHANGED <<entries, order, total_bytes, disk, written, up>>

\* The stream is good when it is tested, before it is flushed and closed, so
\* part of the bytes may still be missing from the file in the end.
PutDone(k, v, c) ==
  /\ up
  /\ ~TooLarge(k, v)
  /\ LET D == Evicted(k, v) IN
     /\ entries' = [j \in (DOMAIN entries \ D) \cup {k} |->
                      IF j = k THEN entry_size(k, v) ELSE entries[j]]
     /\ order' = Newest(Without(order, D), k, DOMAIN entries \ D)
     /\ total_bytes' = total_bytes - Bytes(D) + entry_size(k, v)
     /\ Written(D, k, c)
  /\ reply' = NoReply
  /\ UNCHANGED up

\* The stream failed: the file goes, and with it whatever entry it held.
PutFailed(k, v) ==
  /\ up
  /\ ~TooLarge(k, v)
  /\ LET D == Evicted(k, v) IN
     /\ Index(D)
     /\ disk' = [Unlinked(D) EXCEPT ![file_of[k]] = NoFile]
  /\ reply' = NoReply
  /\ UNCHANGED <<written, up>>

\* The process dies in put(): during the evictions, or while it writes.
PutCrash(k, v, c) ==
  /\ up
  /\ ~TooLarge(k, v)
  /\ \/ \E D \in {Before(j, k) : j \in evict_until_fits(k, v)} \cup {Evicted(k, v)} :
          Index(D) /\ disk' = Unlinked(D) /\ UNCHANGED written
     \/ Index(Evicted(k, v)) /\ Written(Evicted(k, v), k, c)
  /\ up' = FALSE
  /\ reply' = NoReply

\* What a write of v under k may leave in the file, up to the whole of it.
Partial(k, v) == {Torn(n) : n \in 0 .. KeyBytes[k] - 1} \cup
                 {Holds(k, v, n) : n \in 0 .. Size[v]}

put(k, v) ==
  \/ PutRefused(k, v)
  \/ \E c \in Partial(k, v) : PutDone(k, v, c) \/ PutCrash(k, v, c)
  \/ PutFailed(k, v)

-----------------------------------------------------------------------------
(* get()                                                                   *)

\* The file of indexed key k holds k and at least the payload the index says.
Intact(k) ==
  LET c == disk[file_of[k]] IN
  Readable(file_of[k]) /\ c.key = k /\ KeyBytes[k] + c.len >= entries[k]

\* Mutant: the entry is listed as recent without leaving its old place.
GetHit_ListedTwice(k, op) ==
  /\ up
  /\ k \in DOMAIN entries /\ Intact(k)
  /\ order' = order \cup {<<j, k>> : j \in DOMAIN entries \ {k}}
  /\ reply' = Hit(op, k, disk[file_of[k]].val, entries[k] - KeyBytes[k])
  /\ UNCHANGED <<entries, total_bytes, disk, written, up>>

\* A hit: the bytes the index promised, and k is now the most recently used.
GetHit(k, op) ==
  /\ up
  /\ k \in DOMAIN entries /\ Intact(k)
  /\ order' = Newest(order, k, DOMAIN entries)
  /\ reply' = Hit(op, k, disk[file_of[k]].val, entries[k] - KeyBytes[k])
  /\ UNCHANGED <<entries, total_bytes, disk, written, up>>

\* Missing, unreadable, another key's file, or too short: dropped.
GetMiss(k) ==
  /\ up
  /\ k \in DOMAIN entries => ~Intact(k)
  /\ Drop({k} \cap DOMAIN entries)
  /\ reply' = NoReply

get(k) == GetHit(k, "get") \/ GetMiss(k)

-----------------------------------------------------------------------------
(* The process ends, and the constructor rebuilds the index.               *)

Exit ==
  /\ up
  /\ up' = FALSE
  /\ reply' = NoReply
  /\ UNCHANGED <<entries, order, total_bytes, disk, written>>

Restart ==
  LET found == {f \in File : Found(f)}
      keys == {disk[f].key : f \in found}
  IN
  /\ ~up
  /\ up' = TRUE
  /\ entries' = [k \in keys |-> FileSize(file_of[k])]
  /\ order' = {p \in keys \X keys : <<file_of[p[1]], file_of[p[2]]>> \in written}
  /\ total_bytes' = Sum([f \in File |-> FileSize(f)], found)
  /\ reply' = NoReply
  /\ UNCHANGED <<disk, written>>

Next ==
  \/ \E k \in Key, v \in Value : put(k, v)
  \/ \E k \in Key : get(k) \/ remove(k)
  \/ clear
  \/ Exit
  \/ Restart

Spec == Init /\ [][Next]_vars

-----------------------------------------------------------------------------
(* Properties.                                                             *)

\* The files and the index have their types.
StoreTyped ==
  /\ DOMAIN entries \in SUBSET Key
  /\ \A k \in DOMAIN entries : entries[k] \in Nat
  /\ disk \in [File -> Content]

\* r puts the members of S in one line.
Ordered(r, S) ==
  /\ \A x, y \in S : x # y => (<<x, y>> \in r <=> <<y, x>> \notin r)
  /\ \A x \in S : <<x, x>> \notin r
  /\ \A x, y, z \in S : <<x, y>> \in r /\ <<y, z>> \in r => <<x, z>> \in r

\* Also, there is always exactly one least recently used entry.
TypeOK ==
  /\ StoreTyped
  /\ total_bytes \in Nat
  /\ up \in BOOLEAN
  /\ up => /\ order \subseteq (DOMAIN entries) \X (DOMAIN entries)
           /\ Ordered(order, DOMAIN entries)

\* The directory and the index agree on what there is: every readable file
\* lies where put() and remove() look for the key it holds, and never holds
\* more than the index says; every file a restart would find is indexed.
\* (The converse fails: an entry whose file was displaced or cut short is
\* found out by get().)
FilesIndexed ==
  \A f \in File : Readable(f) =>
    /\ file_of[disk[f].key] = f
    /\ disk[f].len <= Size[disk[f].val]
    /\ up /\ Found(f) => disk[f].key \in DOMAIN entries
    /\ up /\ disk[f].key \in DOMAIN entries => FileSize(f) <= entries[disk[f].key]

\* The bytes of the files of S, and of those a restart counts.
BytesOf(S) == Sum([f \in File |-> FileSize(f)], S)
FoundBytes == BytesOf({f \in File : Found(f)})

\* The byte count is exact and within the budget after any sequence of calls,
\* failures, crashes and restarts: whenever the process dies, the files the
\* next constructor finds and counts are within the budget too.  (Those it
\* passes over, torn or with a key that is too long, are in no count.)
BudgetHolds ==
  /\ up => /\ total_bytes = Bytes(DOMAIN entries)
           /\ max_bytes # 0 => total_bytes <= max_bytes
           /\ FoundBytes <= total_bytes
  /\ max_bytes # 0 => FoundBytes <= max_bytes
=============================================================================
