-------------------------- MODULE RequestService ---------------------------
(***************************************************************************)
(* What the scheduler promises to the threads that submit requests, with    *)
(* no slots, batches or KV cache: requests start in submission order, at    *)
(* most n_parallel at a time, receive tokens only while running, and end    *)
(* once, with success or with an error.                                     *)
(***************************************************************************)
EXTENDS Integers, Sequences, FiniteSets

CONSTANTS Token, n_parallel, MaxRequests

Id == 1 .. MaxRequests

VARIABLES
  status,   \* life cycle of each request
  out       \* tokens delivered to its callback and kept in its history

vars == <<status, out>>

Running == {i \in Id : status[i] = "running"}

Init == /\ status = [i \in Id |-> "none"]
        /\ out = [i \in Id |-> <<>>]

Submit(i) ==
  /\ status[i] = "none"
  /\ \A j \in Id : j < i => status[j] # "none"
  /\ status' = [status EXCEPT ![i] = "queued"]
  /\ UNCHANGED out

Start(i) ==
  /\ status[i] = "queued"
  /\ \A j \in Id : j < i => status[j] \notin {"none", "queued"}
  /\ Cardinality(Running) < n_parallel
  /\ status' = [status EXCEPT ![i] = "running"]
  /\ UNCHANGED out

\* A token is delivered; it may be the last one.
Emit(i, t) ==
  /\ status[i] = "running"
  /\ out' = [out EXCEPT ![i] = Append(@, t)]
  /\ \E st \in {"running", "ok"} : status' = [status EXCEPT ![i] = st]

EndOfGeneration(i) ==
  /\ status[i] = "running"
  /\ status' = [status EXCEPT ![i] = "ok"]
  /\ UNCHANGED out

\* One request fails on its own, or a whole batch does.
Fail(F) ==
  /\ \A i \in F : status[i] = "running"
  /\ F = Running \/ \E i \in Id : F = {i}
  /\ status' = [i \in Id |-> IF i \in F THEN "error" ELSE status[i]]
  /\ UNCHANGED out

Next == \/ \E i \in Id : \/ Submit(i) \/ Start(i) \/ EndOfGeneration(i)
                         \/ \E t \in Token : Emit(i, t)
        \/ \E F \in SUBSET Id : Fail(F)

Spec == Init /\ [][Next]_vars
=============================================================================
