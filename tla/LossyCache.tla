----------------------------- MODULE LossyCache -----------------------------
(***************************************************************************)
(* What the KV snapshot cache promises to the engine: a load either fails   *)
(* or restores exactly the state stored last under that key.  Entries may   *)
(* be lost at any moment (evicted, damaged by a crash, displaced by a       *)
(* colliding file name); none is ever wrong, and none comes back.           *)
(***************************************************************************)
CONSTANTS Key, Value, Absent

VARIABLES
  map,     \* the state a load of each key would restore, or Absent
  loaded   \* what the last operation restored: <<key, value>>, or <<>>

vars == <<map, loaded>>

Init == map = [k \in Key |-> Absent] /\ loaded = <<>>

\* Storing under k may cost other entries, and k itself if it fails.
Store(k, v) ==
  /\ \E lost \in SUBSET Key :
       map' = [j \in Key |-> IF j \in lost THEN Absent
                             ELSE IF j = k THEN v ELSE map[j]]
  /\ loaded' = <<>>

Lose ==
  /\ \E lost \in SUBSET Key :
       map' = [j \in Key |-> IF j \in lost THEN Absent ELSE map[j]]
  /\ loaded' = <<>>

Load(k) ==
  /\ map[k] # Absent
  /\ loaded' = <<k, map[k]>>
  /\ UNCHANGED map

Next == \/ \E k \in Key, v \in Value : Store(k, v)
        \/ Lose
        \/ \E k \in Key : Load(k)

Spec == Init /\ [][Next]_vars
=============================================================================
