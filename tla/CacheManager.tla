---------------------------- MODULE CacheManager ----------------------------
(***************************************************************************)
(* Named KV snapshots (src/cache/cache_manager.cpp) on top of the store.    *)
(* store_state() wraps the serialised backend state in an envelope with a   *)
(* checksum and puts it; load_state() gets it, verifies the envelope and    *)
(* hands the state to the backend.  A value stands for envelope and blob;   *)
(* the checksum tells a whole value from a proper prefix of it.             *)
(* Other users of the store's operations (remove, clear, raw get) are kept  *)
(* in the next-state relation: the promise holds among them too.            *)
(***************************************************************************)
EXTENDS DiskCacheStore

CONSTANT Absent   \* the content of a key with nothing to restore
ASSUME AbsentAssumption == Absent \notin Value

\* The first len bytes of value v verify: magic, length and checksum.
ChecksumMatches(v, len) == len = Size[v]

\* Mutant: the envelope is not verified.
LoadHit_Unchecked(k) == GetHit(k, "load")

\* The snapshot is whole and the backend accepts it.
LoadHit(k) ==
  /\ GetHit(k, "load")
  /\ ChecksumMatches(disk[file_of[k]].val, entries[k] - KeyBytes[k])

\* get() found an entry, but the envelope does not verify, or the backend or
\* the decompression refuses the state: it is removed.
LoadReject(k) ==
  /\ up
  /\ k \in DOMAIN entries /\ Intact(k)
  /\ Drop({k})
  /\ reply' = NoReply

load_state(k) == LoadHit(k) \/ LoadReject(k) \/ GetMiss(k)
store_state(k, v) == put(k, v)

ManagerNext == Next \/ \E k \in Key : load_state(k)
ManagerSpec == Init /\ [][ManagerNext]_vars

-----------------------------------------------------------------------------
(* Properties.                                                             *)

\* What load_state(k) would restore: the value in k's file if it is whole.
Stored == [k \in Key |->
             LET f == file_of[k] IN
             IF /\ Readable(f) /\ disk[f].key = k
                /\ ChecksumMatches(disk[f].val, disk[f].len)
             THEN disk[f].val ELSE Absent]
Loaded == IF reply.op = "load" THEN <<reply.key, reply.val>> ELSE <<>>

\* Through evictions, colliding file names, short writes, crashes in put()
\* and restarts, a load restores exactly the state stored last under that
\* key or nothing at all.
Cache == INSTANCE LossyCache WITH map <- Stored, loaded <- Loaded
ImplementsLossyCache == Cache!Spec
=============================================================================
