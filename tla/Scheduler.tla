----------------------------- MODULE Scheduler -----------------------------
(***************************************************************************)
(* The interleaved multi-request scheduler (src/core/scheduler.cpp) with    *)
(* the multi-sequence KV cache it drives (decode_seqs, copy_seq, clear_seq  *)
(* of the backend).                                                         *)
(*                                                                          *)
(* submit() takes the scheduler's mutex, step() holds it from its first to  *)
(* its last statement.  A step is a sequence of actions here, sequenced by  *)
(* pc, because finished() and error() take another mutex and see the        *)
(* requests complete one by one inside a step:                              *)
(*                                                                          *)
(*   idle --StepBegin--> admit --(AdmitPrefill | AdmitClone)*--> admit      *)
(*        --AdmitEnd--> decode --DecodeOk--> sample --(Sample..)*--> idle   *)
(*                             --DecodeFail--> idle                         *)
(*                                                                          *)
(* Requests are numbered by submit() and enter the deque `pending', and     *)
(* from there the vector `active', in that order, so the first element of   *)
(* the vector that satisfies a condition is the one with the least id: the  *)
(* vector is modelled as the set of its ids.                                *)
(***************************************************************************)
EXTENDS Integers, Sequences, FiniteSets, FiniteSetsExt, Functions

CONSTANTS
  Token,         \* token ids other than the end-of-generation ones
  Prompts,       \* the tokenized prompts callers submit
  MaxTokens,     \* the values of gen.max_tokens callers submit
  n_parallel,    \* cfg.n_parallel
  n_ctx,         \* backend.context_length(), in KV cells
  MaxRequests    \* bound: requests submitted in a behaviour

ASSUME SchedulerAssumption ==
  /\ Prompts \subseteq Seq(Token)
  /\ MaxTokens \subseteq Int
  /\ n_parallel \in Nat \ {0}     \* the constructor throws otherwise
  /\ n_ctx \in Nat \ {0}
  /\ MaxRequests \in Nat

Id == 1 .. MaxRequests
Slot == 0 .. n_parallel - 1
NoSlot == -1

\* What the map `done' holds for an id: nothing, a null error, an error.
Outcome == {"none", "ok", "error"}

VARIABLES
  pc,         \* where step() is; "idle" when no thread holds the mutex
  pending,    \* deque of submitted requests, as ids
  active,     \* requests that own a slot, as a set of ids
  todo,       \* active requests this step has still to sample
  req,        \* the fields of each Request
  slot_used,  \* seq_id occupancy
  done,       \* id -> error or null, once the request is finished
  next_id,
  kv          \* backend: for each sequence, a partial map position -> cell

vars == <<pc, pending, active, todo, req, slot_used, done, next_id, kv>>

-----------------------------------------------------------------------------
(* Requests.                                                               *)

Request == [history : Seq(Token), prompt_len : Nat, max_tokens : Int,
            emitted : Nat, seq_id : Slot \cup {NoSlot}, n_past : Nat,
            needs_prefill : BOOLEAN]

NewRequest(prompt, m) ==
  [history |-> prompt, prompt_len |-> Len(prompt), max_tokens |-> m,
   emitted |-> 0, seq_id |-> NoSlot, n_past |-> 0, needs_prefill |-> TRUE]

\* The slice of request r in the next batch: the whole history while its
\* prefill is due, otherwise the token sampled last.
SliceLen(r) == IF r.needs_prefill THEN Len(r.history) ELSE 1
PosStart(r) == IF r.needs_prefill THEN 0 ELSE r.n_past
SliceToken(r, k) == IF r.needs_prefill THEN r.history[k]
                    ELSE r.history[Len(r.history)]

-----------------------------------------------------------------------------
(* The KV cache of the backend.  One unified buffer of n_ctx cells serves   *)
(* all sequences; copying a sequence shares its cells, so a cell is known   *)
(* by its position and the request that computed it.  Positions count from  *)
(* 1 here, from 0 in the code.                                              *)

Cell == [tok : Token, by : Id]
NoCells == [p \in {} |-> 0]

\* Sequence s after positions pos+1..pos+n are (re)written by request i.
Decoded(cells, i) ==
  LET r   == req[i]
      new == (PosStart(r) + 1) .. (PosStart(r) + SliceLen(r))
  IN  [p \in DOMAIN cells \cup new |->
         IF p \in new THEN [tok |-> SliceToken(r, p - PosStart(r)), by |-> i]
         ELSE cells[p]]

\* copy_seq(src, dst, n): dst gains the first n positions of src.
copy_seq(src, dst, n) ==
  [p \in DOMAIN dst \cup {q \in DOMAIN src : q <= n} |->
     IF p \in DOMAIN src /\ p <= n THEN src[p] ELSE dst[p]]

\* decode_seqs over one slice per active request.
decode_seqs ==
  [s \in Slot |->
     IF \E i \in active : req[i].seq_id = s
     THEN Decoded(kv[s], CHOOSE i \in active : req[i].seq_id = s)
     ELSE kv[s]]

\* The cells of the unified buffer that a KV content occupies.
CellsOf(k) == UNION {{<<k[s][p].by, p>> : p \in DOMAIN k[s]} : s \in Slot}
BatchFits == Cardinality(CellsOf(decode_seqs)) <= n_ctx

-----------------------------------------------------------------------------
Init ==
  /\ pc = "idle"
  /\ pending = <<>>
  /\ active = {}
  /\ todo = {}
  /\ req = [i \in Id |-> NewRequest(<<>>, 0)]
  /\ slot_used = [s \in Slot |-> FALSE]
  /\ done = [i \in Id |-> "none"]
  /\ next_id = 1
  /\ kv = [s \in Slot |-> NoCells]

\* submit(): a prompt that is empty or longer than the context is refused
\* before the mutex is taken, and leaves no trace.
submit(prompt, m) ==
  /\ Len(prompt) \in 1 .. n_ctx
  /\ pc = "idle"
  /\ next_id \in Id
  /\ req' = [req EXCEPT ![next_id] = NewRequest(prompt, m)]
  /\ pending' = Append(pending, next_id)
  /\ next_id' = next_id + 1
  /\ UNCHANGED <<pc, active, todo, slot_used, done, kv>>

StepBegin ==
  /\ pc = "idle"
  /\ pc' = "admit"
  /\ UNCHANGED <<pending, active, todo, req, slot_used, done, next_id, kv>>

-----------------------------------------------------------------------------
(* admit()                                                                 *)

cells_used == MapThenSumSet(LAMBDA i : Len(req[i].history), active)

\* Active requests that find_donor() would accept for request i; the first
\* one in the vector is the donor.  One-token prompts never look for one.
Donors(i) ==
  {a \in active :
     /\ req[a].prompt_len = Len(req[i].history)
     /\ \A k \in 1 .. Len(req[i].history) :
          req[a].history[k] = req[i].history[k]}
find_donor(i, d) ==
  /\ Len(req[i].history) > 1
  /\ d \in Donors(i)
  /\ \A a \in Donors(i) : d <= a

\* Mutants of HasRoom: one request too many, and a budget that must stay
\* strictly below the context, which a full-length prompt never does.
HasRoom_ExtraSlot ==
  /\ pending # <<>>
  /\ Cardinality(active) <= n_parallel
  /\ cells_used + Len(req[Head(pending)].history) <= n_ctx
HasRoom_StrictBudget ==
  /\ pending # <<>>
  /\ Cardinality(active) < n_parallel
  /\ cells_used + Len(req[Head(pending)].history) < n_ctx

\* The loop's conditions for taking the front of the deque into a slot.
HasRoom ==
  /\ pending # <<>>
  /\ Cardinality(active) < n_parallel
  /\ cells_used + Len(req[Head(pending)].history) <= n_ctx

\* A donor in the middle of its prefill is waited for.
DonorReady(d) == req[d].n_past >= req[d].prompt_len

\* The slot the scan of slot_used assigns: the lowest free one, and seq_id
\* stays -1 if there is none.
FirstFree(s) ==
  IF s = NoSlot THEN \A t \in Slot : slot_used[t]
  ELSE ~slot_used[s] /\ \A t \in Slot : t < s => slot_used[t]

TakeSlot(i, s, past, prefill) ==
  /\ FirstFree(s)
  /\ pending' = Tail(pending)
  /\ active' = active \cup {i}
  /\ req' = [req EXCEPT ![i] = [@ EXCEPT !.seq_id = s, !.n_past = past,
                                         !.needs_prefill = prefill]]
  /\ slot_used' = IF s = NoSlot THEN slot_used
                  ELSE [slot_used EXCEPT ![s] = TRUE]
  /\ UNCHANGED <<pc, todo, done, next_id>>

AdmitPrefill ==
  /\ pc = "admit" /\ HasRoom
  /\ LET i == Head(pending) IN
     /\ \A d \in active : ~find_donor(i, d)
     /\ \E s \in Slot \cup {NoSlot} : TakeSlot(i, s, 0, TRUE)
  /\ UNCHANGED kv

\* Mutant: the clone also takes the last position of the prompt.
AdmitClone_WholePrompt ==
  /\ pc = "admit" /\ HasRoom
  /\ LET i == Head(pending)
         shared == req[i].prompt_len
     IN \E d \in active, s \in Slot \cup {NoSlot} :
          /\ find_donor(i, d) /\ DonorReady(d)
          /\ TakeSlot(i, s, shared, FALSE)
          /\ kv' = [kv EXCEPT ![s] = copy_seq(kv[req[d].seq_id], kv[s], shared)]

\* The clone shares the prompt's KV except its last position, which it will
\* decode itself to obtain the logits.
AdmitClone ==
  /\ pc = "admit" /\ HasRoom
  /\ LET i == Head(pending)
         shared == req[i].prompt_len - 1
     IN \E d \in active, s \in Slot \cup {NoSlot} :
          /\ find_donor(i, d) /\ DonorReady(d)
          /\ TakeSlot(i, s, shared, FALSE)
          /\ kv' = [kv EXCEPT ![s] = copy_seq(kv[req[d].seq_id], kv[s], shared)]

\* The loop ends: deque empty, slots or cells exhausted, or donor prefilling.
AdmitEnd ==
  /\ pc = "admit"
  /\ \/ ~HasRoom
     \/ /\ HasRoom
        /\ \E d \in active : find_donor(Head(pending), d) /\ ~DonorReady(d)
  /\ pc' = IF active = {} THEN "idle" ELSE "decode"
  /\ UNCHANGED <<pending, active, todo, req, slot_used, done, next_id, kv>>

-----------------------------------------------------------------------------
(* The batched forward pass, and finish().                                 *)

\* Mutants of finish(): the slot stays marked, the sequence is not cleared,
\* the request stays in the vector.
Finish_KeepsSlot(D, outcome) ==
  LET freed == {s \in Slot : \E i \in D : req[i].seq_id = s} IN
  /\ active' = active \ D
  /\ slot_used' = slot_used
  /\ kv' = [s \in Slot |-> IF s \in freed THEN NoCells ELSE kv[s]]
  /\ done' = [i \in Id |-> IF i \in D THEN outcome ELSE done[i]]
Finish_KeepsCells(D, outcome) ==
  LET freed == {s \in Slot : \E i \in D : req[i].seq_id = s} IN
  /\ active' = active \ D
  /\ slot_used' = [s \in Slot |-> IF s \in freed THEN FALSE ELSE slot_used[s]]
  /\ kv' = kv
  /\ done' = [i \in Id |-> IF i \in D THEN outcome ELSE done[i]]
Finish_StaysActive(D, outcome) ==
  /\ done' = [i \in Id |-> IF i \in D THEN outcome ELSE done[i]]
  /\ UNCHANGED <<active, slot_used, kv>>

\* finish() for every request of D.
Finish(D, outcome) ==
  LET freed == {s \in Slot : \E i \in D : req[i].seq_id = s} IN
  /\ active' = active \ D
  /\ slot_used' = [s \in Slot |-> IF s \in freed THEN FALSE ELSE slot_used[s]]
  /\ kv' = [s \in Slot |-> IF s \in freed THEN NoCells ELSE kv[s]]
  /\ done' = [i \in Id |-> IF i \in D THEN outcome ELSE done[i]]

\* A batch that does not fit the buffer is refused by the backend.
DecodeOk ==
  /\ pc = "decode"
  /\ BatchFits
  /\ kv' = decode_seqs
  /\ todo' = active
  /\ pc' = "sample"
  /\ UNCHANGED <<pending, active, req, slot_used, done, next_id>>

\* Mutant: the vector is cleared without finish().
DecodeFail_Forgets ==
  /\ pc = "decode"
  /\ active' = {}
  /\ pc' = "idle"
  /\ UNCHANGED <<pending, todo, req, slot_used, done, next_id, kv>>

\* decode_seqs threw: everything in flight fails.  Whatever part of the batch
\* reached the cache goes with the sequences that finish() clears.
DecodeFail ==
  /\ pc = "decode"
  /\ Finish(active, "error")
  /\ pc' = "idle"
  /\ UNCHANGED <<pending, todo, req, next_id>>

-----------------------------------------------------------------------------
(* Sampling: one iteration of the loop over `active'.                      *)

\* Mutant: the loop does not move on from a request it has sampled.
Sampling_Stays(i) ==
  /\ pc = "sample"
  /\ i \in todo /\ \A j \in todo : i <= j
  /\ UNCHANGED <<todo, pc, pending, next_id>>

Sampling(i) ==
  /\ pc = "sample"
  /\ i \in todo /\ \A j \in todo : i <= j
  /\ todo' = todo \ {i}
  /\ pc' = IF todo' = {} THEN "idle" ELSE "sample"
  /\ UNCHANGED <<pending, next_id>>

\* Request i after the batch: its slice is in the KV.
Advanced(r) == [r EXCEPT !.n_past = @ + SliceLen(r), !.needs_prefill = FALSE]

\* The sampled token ends the generation; it is not delivered.
SampleEog(i) ==
  /\ Sampling(i)
  /\ req' = [req EXCEPT ![i] = Advanced(@)]
  /\ Finish({i}, "ok")

\* The sampler or the callback threw: only this request fails.
SampleFault(i) ==
  /\ Sampling(i)
  /\ req' = [req EXCEPT ![i] = Advanced(@)]
  /\ Finish({i}, "error")

\* Token t is delivered to the callback, which answered keep_going.
SampleToken(i, t, keep_going) ==
  LET r == [Advanced(req[i]) EXCEPT !.history = Append(@, t),
                                    !.emitted = @ + 1]
  IN
  /\ Sampling(i)
  /\ req' = [req EXCEPT ![i] = r]
  /\ IF ~keep_going \/ r.emitted >= r.max_tokens \/ Len(r.history) >= n_ctx
     THEN Finish({i}, "ok")
     ELSE UNCHANGED <<active, slot_used, kv, done>>

Sample(i) ==
  \/ SampleEog(i)
  \/ SampleFault(i)
  \/ \E t \in Token, keep_going \in BOOLEAN : SampleToken(i, t, keep_going)

-----------------------------------------------------------------------------
Step == \/ StepBegin \/ AdmitPrefill \/ AdmitClone \/ AdmitEnd
        \/ DecodeOk \/ DecodeFail
        \/ \E i \in Id : Sample(i)

Next == \/ \E prompt \in Prompts, m \in MaxTokens : submit(prompt, m)
        \/ Step

\* The worker thread calls step() for as long as there is work.
Fairness == WF_vars(Step)

Spec == Init /\ [][Next]_vars
FairSpec == Spec /\ Fairness

\* The reads other threads make.
finished(i) == done[i] # "none"
idle == active = {} /\ pending = <<>>
-----------------------------------------------------------------------------
(* Properties.                                                             *)

TypeOK ==
  /\ pc \in {"idle", "admit", "decode", "sample"}
  /\ pending \in Seq(Id)
  /\ active \in SUBSET Id
  /\ todo \in SUBSET active
  /\ req \in [Id -> Request]
  /\ slot_used \in [Slot -> BOOLEAN]
  /\ done \in [Id -> Outcome]
  /\ next_id \in 1 .. MaxRequests + 1
  /\ DOMAIN kv = Slot

Queued == Range(pending)

\* No request is lost, served twice or overtaken: every id handed out by
\* submit() is in exactly one of the deque, the vector and the done map (an
\* id not handed out is in none), and the deque holds, in submission order,
\* exactly requests younger than every one already admitted.
NoRequestLost ==
  /\ active \cap Queued = {}
  /\ \A i \in active \cup Queued : i < next_id /\ done[i] = "none"
  /\ \A i \in Id : i < next_id => i \in active \cup Queued \/ done[i] # "none"
  /\ \A i \in Id : i >= next_id => done[i] = "none"
  /\ \A j, k \in DOMAIN pending : j < k => pending[j] < pending[k]
  /\ \A i \in Id \ Queued, j \in Queued : i < next_id => i < j

\* slot_used is exactly the set of sequences owned by active requests, no two
\* requests own the same one, and none is active without a sequence (the scan
\* in admit() never comes back empty-handed).
SlotsExclusive ==
  /\ \A i \in active : req[i].seq_id \in Slot
  /\ \A i, j \in active : req[i].seq_id = req[j].seq_id => i = j
  /\ \A s \in Slot : slot_used[s] <=> \E i \in active : req[i].seq_id = s

\* The positions of active request i that the backend holds: one slice ahead
\* of n_past between the batched decode and the sampling of i.
Filled(i) == req[i].n_past + (IF i \in todo THEN SliceLen(req[i]) ELSE 0)

\* Whoever a sequence belonged to before, and whether its prompt was decoded
\* or cloned from a donor, the KV of an active request is its own history and
\* nothing else, without gaps; a free sequence holds nothing.
KVMatchesHistory ==
  /\ \A i \in active :
       LET cells == kv[req[i].seq_id] IN
       /\ DOMAIN cells = 1 .. Filled(i)
       /\ \A p \in 1 .. Filled(i) : cells[p].tok = req[i].history[p]
  /\ \A s \in Slot : ~slot_used[s] => DOMAIN kv[s] = {}

\* Before each batch the KV of a request lacks exactly its whole prompt or
\* its newest token, so the logits it samples from follow its full history,
\* and the slice it contributes ends within the context.
SliceCompletesHistory ==
  \A i \in active :
    /\ PosStart(req[i]) = req[i].n_past
    /\ req[i].n_past + SliceLen(req[i]) = Len(req[i].history)
    /\ Len(req[i].history) <= n_ctx

\* The rest of the inductive invariant: todo is empty outside the sampling
\* loop, a queued request is as submit() left it, a prompt is never empty.
Bookkeeping ==
  /\ pc # "sample" => todo = {}
  /\ \A i \in Queued :
       /\ req[i].needs_prefill
       /\ req[i].n_past = 0
       /\ req[i].prompt_len = Len(req[i].history)
       /\ Len(req[i].history) \in 1 .. n_ctx
  /\ \A i \in active : req[i].prompt_len \in 1 .. Len(req[i].history)
  /\ \A i \in Id : i >= next_id => Len(req[i].history) = 0

SchedulerInv ==
  /\ TypeOK
  /\ NoRequestLost
  /\ SlotsExclusive
  /\ KVMatchesHistory
  /\ SliceCompletesHistory
  /\ Bookkeeping

\* What the waiting caller reads is final: a completed request never changes
\* its outcome, its history or comes back into the deque or the vector.
KeepsResults ==
  \A i \in Id : finished(i) =>
    done'[i] = done[i] /\ req'[i] = req[i] /\ i \notin active'
ResultsPermanent == [][KeepsResults]_vars

\* The scheduler implements the request life cycle of RequestService: a
\* request's status is where it is kept, its output what follows its prompt.
Status == [i \in Id |-> IF i \in active THEN "running"
                       ELSE IF i \in Queued THEN "queued" ELSE done[i]]
Output == [i \in Id |-> SubSeq(req[i].history, req[i].prompt_len + 1,
                              Len(req[i].history))]
Service == INSTANCE RequestService WITH status <- Status, out <- Output
ImplementsRequestService == Service!Spec

\* Every submitted request completes, whatever the others do, as long as the
\* worker keeps stepping.
EveryRequestFinishes ==
  \A i \in Id : i < next_id ~> finished(i)

\* README.md: context_length is the "total KV budget (shared across users
\* when parallel > 1)"; admit() takes requests in "while they fit the KV
\* budget" and leaves the others to "wait for space".  So the batch of the
\* admitted requests is never refused for want of cells.
AdmittedBatchFits == pc = "decode" => BatchFits
=============================================================================
