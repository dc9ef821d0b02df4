-------------------------- MODULE SchedulerProofs --------------------------
(***************************************************************************)
(* Proofs about Scheduler, for every number of slots, context length, set   *)
(* of prompts and number of requests.                                       *)
(***************************************************************************)
EXTENDS Scheduler, FiniteSetTheorems, TLAPS

USE SchedulerAssumption DEF Id, Slot, NoSlot

LEMMA AppendRange ==
  ASSUME NEW S, NEW s \in Seq(S), NEW x \in S
  PROVE  Range(Append(s, x)) = Range(s) \cup {x}
<1>1. Len(s) \in Nat /\ DOMAIN s = 1 .. Len(s)
  OBVIOUS
<1>2. DOMAIN Append(s, x) = 1 .. Len(s) + 1
  BY <1>1
<1>3. \A k \in 1 .. Len(s) : Append(s, x)[k] = s[k]
  BY <1>1
<1>4. Append(s, x)[Len(s) + 1] = x
  BY <1>1
<1>5. ASSUME NEW e \in Range(Append(s, x)) PROVE e \in Range(s) \cup {x}
  BY <1>1, <1>2, <1>3, <1>4, <1>5 DEF Range
<1>6. ASSUME NEW e \in Range(s) \cup {x} PROVE e \in Range(Append(s, x))
  BY <1>1, <1>2, <1>3, <1>4, <1>6 DEF Range
<1> QED
  BY <1>5, <1>6

LEMMA TailRange ==
  ASSUME NEW S, NEW s \in Seq(S), s # <<>>,
         \A j, k \in DOMAIN s : s[j] = s[k] => j = k
  PROVE  /\ Head(s) \in Range(s)
         /\ Range(Tail(s)) = Range(s) \ {Head(s)}
<1>1. Len(s) \in Nat \ {0} /\ DOMAIN s = 1 .. Len(s) /\ Head(s) = s[1]
  OBVIOUS
<1>2. /\ DOMAIN Tail(s) = 1 .. Len(s) - 1
      /\ \A k \in 1 .. Len(s) - 1 : Tail(s)[k] = s[k + 1]
  BY <1>1
<1>3. ASSUME NEW e \in Range(Tail(s)) PROVE e \in Range(s) \ {Head(s)}
  BY <1>1, <1>2, <1>3 DEF Range
<1>4. ASSUME NEW e \in Range(s) \ {Head(s)} PROVE e \in Range(Tail(s))
  <2>1. PICK k \in 1 .. Len(s) : e = s[k] /\ k # 1
    BY <1>1, <1>4 DEF Range
  <2>2. k - 1 \in 1 .. Len(s) - 1 /\ (k - 1) + 1 = k
    BY <1>1, <2>1
  <2> QED
    <3>1. Tail(s)[k - 1] = e /\ k - 1 \in DOMAIN Tail(s)
      BY <1>2, <2>1, <2>2
    <3> QED
      BY <3>1 DEF Range
<1>5. Head(s) \in Range(s)
  BY <1>1 DEF Range
<1> QED
  BY <1>3, <1>4, <1>5

LEMMA InitInv == Init => SchedulerInv
<1> SUFFICES ASSUME Init PROVE SchedulerInv
  OBVIOUS
<1> USE DEF Init, NewRequest, NoCells
<1>0. Queued = {}
  BY DEF Queued, Range
<1>1. TypeOK
  BY DEF TypeOK, Request, Outcome
<1>2. NoRequestLost
  BY <1>0 DEF NoRequestLost
<1>3. SlotsExclusive
  BY DEF SlotsExclusive
<1>4. KVMatchesHistory
  BY DEF KVMatchesHistory
<1>5. SliceCompletesHistory
  BY DEF SliceCompletesHistory
<1>6. Bookkeeping
  BY <1>0 DEF Bookkeeping
<1> QED
  BY <1>1, <1>2, <1>3, <1>4, <1>5, <1>6 DEF SchedulerInv

LEMMA SubmitInv ==
  ASSUME SchedulerInv, NEW prompt \in Prompts, NEW m \in MaxTokens,
         submit(prompt, m)
  PROVE  SchedulerInv'
<1> USE DEF submit, SchedulerInv
<1>1. prompt \in Seq(Token) /\ Len(prompt) \in Nat /\ m \in Int
  OBVIOUS
<1>2. NewRequest(prompt, m) \in Request
  BY <1>1 DEF NewRequest, Request
<1>3. /\ next_id \notin active /\ next_id \notin Queued
      /\ done[next_id] = "none"
  BY DEF NoRequestLost, TypeOK
<1>4. Queued' = Queued \cup {next_id}
  <2>1. pending \in Seq(Id) /\ next_id \in Id
    BY DEF TypeOK
  <2> HIDE DEF Id
  <2>2. Range(Append(pending, next_id)) = Range(pending) \cup {next_id}
    BY <2>1, AppendRange
  <2> QED
    BY <2>2 DEF Queued
<1>5. TypeOK'
  BY <1>2 DEF TypeOK
<1>6. \A i \in Id : i # next_id => req'[i] = req[i]
  BY DEF TypeOK
<1>7. \A i \in active : req'[i] = req[i] /\ i \in Id
  BY <1>3, <1>6 DEF TypeOK
<1>8. NoRequestLost'
  <2>1. \A j, k \in DOMAIN pending' : j < k => pending'[j] < pending'[k]
    BY SMTT(20) DEF NoRequestLost, TypeOK, Queued, Range
  <2>2. \A i \in Id \ Queued', j \in Queued' : i < next_id' => i < j
    BY <1>3, <1>4 DEF NoRequestLost, TypeOK
  <2>3. /\ active' \cap Queued' = {}
        /\ \A i \in active' \cup Queued' : i < next_id' /\ done'[i] = "none"
    <3>1. active \subseteq Int /\ Queued \subseteq Int
      BY DEF TypeOK, Queued, Range
    <3> QED
      BY <1>3, <1>4, <3>1 DEF NoRequestLost, TypeOK
  <2>4. ASSUME NEW i \in Id
        PROVE  /\ i < next_id' => i \in active' \cup Queued' \/ done'[i] # "none"
               /\ i >= next_id' => done'[i] = "none"
    BY <1>3, <1>4 DEF NoRequestLost, TypeOK
  <2> QED
    BY <2>1, <2>2, <2>3, <2>4 DEF NoRequestLost
<1>9. SlotsExclusive'
  BY <1>7, SMTT(20) DEF SlotsExclusive
<1>10. KVMatchesHistory'
  BY <1>7 DEF KVMatchesHistory, Filled
<1>11. SliceCompletesHistory'
  BY <1>7 DEF SliceCompletesHistory
<1>12. Bookkeeping'
  <2>1. req'[next_id] = NewRequest(prompt, m)
    BY DEF TypeOK
  <2>2. \A i \in Queued : i \in Id /\ i # next_id
    BY <1>3 DEF Queued, Range, TypeOK
  <2> QED
    BY <1>1, <1>4, <1>6, <1>7, <2>1, <2>2 DEF Bookkeeping, NewRequest, TypeOK
<1> QED
  BY <1>5, <1>8, <1>9, <1>10, <1>11, <1>12

LEMMA SamePlace ==
  ASSUME SchedulerInv, StepBegin \/ AdmitEnd
  PROVE  SchedulerInv'
<1> USE DEF StepBegin, AdmitEnd, SchedulerInv
<1>1. Queued' = Queued
  BY DEF Queued
<1>2. TypeOK'
  BY DEF TypeOK
<1>3. NoRequestLost'
  BY <1>1 DEF NoRequestLost
<1>4. SlotsExclusive'
  BY DEF SlotsExclusive
<1>5. KVMatchesHistory'
  BY DEF KVMatchesHistory, Filled
<1>6. SliceCompletesHistory'
  BY DEF SliceCompletesHistory
<1>7. Bookkeeping'
  BY <1>1 DEF Bookkeeping
<1> QED
  BY <1>2, <1>3, <1>4, <1>5, <1>6, <1>7

\* With fewer active requests than slots, the scan of admit() finds a slot.
LEMMA FreeSlotExists ==
  ASSUME TypeOK, SlotsExclusive, Cardinality(active) < n_parallel
  PROVE  \E s \in Slot : ~slot_used[s]
<1> SUFFICES ASSUME \A s \in Slot : slot_used[s] PROVE FALSE
  OBVIOUS
<1> DEFINE f == [s \in Slot |-> CHOOSE i \in active : req[i].seq_id = s]
<1>1. \A s \in Slot : f[s] \in active /\ req[f[s]].seq_id = s
  BY DEF SlotsExclusive
<1>2. f \in [Slot -> active]
  BY <1>1
<1>3. IsFiniteSet(Slot) /\ Cardinality(Slot) = n_parallel
  BY FS_Interval
<1>4. IsFiniteSet(active)
  <2>1. IsFiniteSet(Id) /\ active \in SUBSET Id
    BY FS_Interval DEF TypeOK
  <2> HIDE DEF Id
  <2> QED
    BY <2>1, FS_Subset
<1> HIDE DEF f
<1>5. PICK x, y \in Slot : x # y /\ f[x] = f[y]
  BY <1>2, <1>3, <1>4, FS_PigeonHole
<1> QED
  BY <1>1, <1>5

\* What popping the front of a non-empty deque does to the queued requests.
LEMMA PopFront ==
  ASSUME SchedulerInv, pending # <<>>, pending' = Tail(pending)
  PROVE  /\ Head(pending) \in Queued
         /\ Queued' = Queued \ {Head(pending)}
         /\ pending' \in Seq(Id)
         /\ Queued \subseteq Id
         /\ \A j \in Queued' : Head(pending) < j
         /\ \A j, k \in DOMAIN pending' : j < k => pending'[j] < pending'[k]
<1> USE DEF SchedulerInv
<1>1. /\ pending \in Seq(Id)
      /\ \A j, k \in DOMAIN pending : j < k => pending[j] < pending[k]
  BY DEF TypeOK, NoRequestLost
<1>2. ASSUME NEW j \in DOMAIN pending, NEW k \in DOMAIN pending, pending[j] = pending[k]
      PROVE  j = k
  <2>1. j \in Int /\ k \in Int /\ pending[j] \in Int
    BY <1>1
  <2>2. ~(j < k) /\ ~(k < j)
    BY <1>1, <1>2, <2>1
  <2> QED
    BY <2>1, <2>2
<1>3. /\ Head(pending) \in Range(pending)
      /\ Range(Tail(pending)) = Range(pending) \ {Head(pending)}
  <2> HIDE DEF Id
  <2> QED
    BY <1>1, <1>2, TailRange
<1>4. pending' \in Seq(Id) /\ Queued \subseteq Id
  BY <1>1 DEF Queued, Range
<1>5. \A j, k \in DOMAIN pending' : j < k => pending'[j] < pending'[k]
  BY <1>1, SMTT(20)
<1>6. \A j \in Queued' : Head(pending) < j
  <2>1. \A k \in DOMAIN pending' : Head(pending) < pending'[k]
    BY <1>1
  <2> QED
    BY <2>1 DEF Queued, Range
<1> QED
  BY <1>3, <1>4, <1>5, <1>6 DEF Queued

\* Admission keeps the invariant if the KV of the slot it takes holds the
\* first `past' positions of the request's prompt.
LEMMA TakeSlotInv ==
  ASSUME SchedulerInv, pc = "admit", HasRoom,
         NEW s \in Slot \cup {NoSlot}, NEW past \in Nat, NEW prefill \in BOOLEAN,
         TakeSlot(Head(pending), s, past, prefill),
         IF prefill THEN past = 0 ELSE past = Len(req[Head(pending)].history) - 1,
         DOMAIN kv' = Slot,
         \A t \in Slot : t # s => kv'[t] = kv[t],
         s \in Slot => /\ DOMAIN kv'[s] = 1 .. past
                       /\ \A p \in 1 .. past :
                            kv'[s][p].tok = req[Head(pending)].history[p]
  PROVE  SchedulerInv'
<1> USE DEF SchedulerInv
<1> DEFINE i == Head(pending)
<1>0. s \in Slot /\ ~slot_used[s]
  BY FreeSlotExists DEF HasRoom, TakeSlot, FirstFree
<1>1. /\ i \in Queued /\ i \in Id /\ Queued \subseteq Id
      /\ Queued' = Queued \ {i} /\ pending' \in Seq(Id)
      /\ \A j \in Queued' : i < j
      /\ \A j, k \in DOMAIN pending' : j < k => pending'[j] < pending'[k]
  BY PopFront DEF HasRoom, TakeSlot
<1> HIDE DEF i
<1>2. i \notin active /\ todo = {} /\ active' = active \cup {i} /\ active \subseteq Id
  BY <1>1 DEF NoRequestLost, Bookkeeping, TakeSlot, i, TypeOK
<1>3. /\ req' = [req EXCEPT ![i] = [@ EXCEPT !.seq_id = s, !.n_past = past,
                                            !.needs_prefill = prefill]]
      /\ slot_used' = [slot_used EXCEPT ![s] = TRUE]
      /\ UNCHANGED <<pc, todo, done, next_id>>
  BY <1>0 DEF TakeSlot, i
<1>4. req \in [Id -> Request]
  BY DEF TypeOK
<1>5. \A j \in active : j \in Id /\ j # i /\ req'[j] = req[j]
  BY <1>2, <1>3, <1>4
<1>6. /\ req'[i].seq_id = s /\ req'[i].n_past = past
      /\ req'[i].needs_prefill = prefill /\ req'[i].history = req[i].history
      /\ req'[i].prompt_len = req[i].prompt_len
      /\ req'[i] \in Request
  BY <1>0, <1>1, <1>3, <1>4, ZenonT(30) DEF Request
<1>7. /\ req[i].history \in Seq(Token) /\ Len(req[i].history) \in 1 .. n_ctx
      /\ req[i].prompt_len = Len(req[i].history)
  BY <1>1, <1>4 DEF Request, Bookkeeping
<1>8. IF prefill THEN past = 0 ELSE past = Len(req[i].history) - 1
  BY DEF i
<1>9. TypeOK'
  <2>1. req' \in [Id -> Request]
    BY <1>1, <1>3, <1>4, <1>6
  <2> QED
    BY <1>0, <1>1, <1>2, <1>3, <2>1 DEF TypeOK
<1>10. NoRequestLost'
  <2>1. /\ active' \cap Queued' = {}
        /\ \A j \in active' \cup Queued' : j < next_id' /\ done'[j] = "none"
    BY <1>1, <1>2, <1>3 DEF NoRequestLost
  <2>2. ASSUME NEW j \in Id
        PROVE  /\ j < next_id' => j \in active' \cup Queued' \/ done'[j] # "none"
               /\ j >= next_id' => done'[j] = "none"
    BY <1>1, <1>2, <1>3 DEF NoRequestLost
  <2>3. ASSUME NEW j \in Id \ Queued', NEW k \in Queued', j < next_id'
        PROVE  j < k
    BY <1>1, <1>3, <2>3 DEF NoRequestLost
  <2> QED
    BY <1>1, <2>1, <2>2, <2>3 DEF NoRequestLost
<1>11. SlotsExclusive'
  <2>1. \A j \in active : req[j].seq_id # s
    BY <1>0 DEF SlotsExclusive
  <2>2. ASSUME NEW t \in Slot
        PROVE  slot_used'[t] <=> \E j \in active' : req'[j].seq_id = t
    BY <1>0, <1>2, <1>3, <1>5, <1>6, SMTT(20) DEF SlotsExclusive, TypeOK
  <2>3. \A j \in active' : req'[j].seq_id \in Slot
    BY <1>0, <1>2, <1>5, <1>6 DEF SlotsExclusive
  <2>4. ASSUME NEW j \in active', NEW k \in active', req'[j].seq_id = req'[k].seq_id
        PROVE  j = k
    BY <1>2, <1>5, <1>6, <2>1, <2>4 DEF SlotsExclusive
  <2> QED
    BY <2>2, <2>3, <2>4 DEF SlotsExclusive
<1>12. KVMatchesHistory'
  <2>1. \A j \in active : req[j].seq_id # s /\ req[j].seq_id \in Slot
    BY <1>0 DEF SlotsExclusive
  <2>2. ASSUME NEW j \in active'
        PROVE  /\ DOMAIN kv'[req'[j].seq_id] = 1 .. Filled(j)'
               /\ \A p \in 1 .. Filled(j)' :
                     kv'[req'[j].seq_id][p].tok = req'[j].history[p]
    <3>1. CASE j = i
      <4>1. Filled(j)' = past
        BY <1>2, <1>3, <1>6, <3>1 DEF Filled
      <4> QED
        BY <1>0, <1>6, <3>1, <4>1 DEF i
    <3>2. CASE j # i
      <4>1. /\ j \in active /\ req'[j] = req[j]
            /\ kv'[req[j].seq_id] = kv[req[j].seq_id]
        BY <1>2, <1>5, <2>1, <3>2
      <4>2. Filled(j)' = Filled(j)
        BY <1>2, <1>3, <4>1 DEF Filled, SliceLen
      <4> QED
        BY <4>1, <4>2 DEF KVMatchesHistory
    <3> QED
      BY <3>1, <3>2
  <2>3. \A t \in Slot : ~slot_used'[t] => DOMAIN kv'[t] = {}
    BY <1>0, <1>3 DEF KVMatchesHistory, TypeOK
  <2> QED
    BY <2>2, <2>3 DEF KVMatchesHistory
<1>13. SliceCompletesHistory'
  <2>1. ASSUME NEW j \in active'
        PROVE  /\ PosStart(req'[j]) = req'[j].n_past
               /\ req'[j].n_past + SliceLen(req'[j]) = Len(req'[j].history)
               /\ Len(req'[j].history) <= n_ctx
    <3>1. CASE j = i
      BY <1>6, <1>7, <1>8, <3>1 DEF PosStart, SliceLen
    <3>2. CASE j # i
      BY <1>2, <1>5, <3>2 DEF SliceCompletesHistory
    <3> QED
      BY <3>1, <3>2
  <2> QED
    BY <2>1 DEF SliceCompletesHistory
<1>14. Bookkeeping'
  <2>1. \A j \in Id : j # i => req'[j] = req[j]
    BY <1>3, <1>4
  <2>2. i < next_id
    BY <1>1 DEF NoRequestLost
  <2>3. \A j \in Queued' : j \in Queued /\ req'[j] = req[j]
    BY <1>1, <2>1
  <2>4. \A j \in active' : req'[j].prompt_len \in 1 .. Len(req'[j].history)
    BY <1>2, <1>5, <1>6, <1>7 DEF Bookkeeping
  <2>5. \A j \in Id : j >= next_id' => Len(req'[j].history) = 0
    BY <1>1, <1>3, <2>1, <2>2 DEF Bookkeeping, TypeOK
  <2> QED
    BY <1>2, <1>3, <2>3, <2>4, <2>5, ZenonT(30) DEF Bookkeeping
<1> QED
  BY <1>9, <1>10, <1>11, <1>12, <1>13, <1>14

LEMMA AdmitPrefillInv == ASSUME SchedulerInv, AdmitPrefill PROVE SchedulerInv'
<1> USE DEF SchedulerInv
<1>1. PICK s \in Slot \cup {NoSlot} : TakeSlot(Head(pending), s, 0, TRUE)
  BY DEF AdmitPrefill
<1>2. HasRoom /\ pc = "admit" /\ kv' = kv /\ DOMAIN kv = Slot
  BY DEF AdmitPrefill, TypeOK
<1>3. s \in Slot => DOMAIN kv[s] = {}
  BY <1>1 DEF TakeSlot, FirstFree, KVMatchesHistory
<1>4. s \in Slot => /\ DOMAIN kv'[s] = 1 .. 0
                    /\ \A p \in 1 .. 0 : kv'[s][p].tok = req[Head(pending)].history[p]
  BY <1>2, <1>3
<1>5. IF TRUE THEN 0 = 0 ELSE 0 = Len(req[Head(pending)].history) - 1
  OBVIOUS
<1>6. DOMAIN kv' = Slot /\ \A t \in Slot : t # s => kv'[t] = kv[t]
  BY <1>2
<1>7. 0 \in Nat /\ TRUE \in BOOLEAN
  OBVIOUS
<1> HIDE DEF SchedulerInv
<1> QED
  BY <1>1, <1>2, <1>4, <1>5, <1>6, <1>7, TakeSlotInv

LEMMA AdmitCloneInv == ASSUME SchedulerInv, AdmitClone PROVE SchedulerInv'
<1> USE DEF SchedulerInv
<1> DEFINE i == Head(pending)
           shared == req[i].prompt_len - 1
<1>1. PICK d \in active, s \in Slot \cup {NoSlot} :
        /\ find_donor(i, d) /\ DonorReady(d)
        /\ TakeSlot(i, s, shared, FALSE)
        /\ kv' = [kv EXCEPT ![s] = copy_seq(kv[req[d].seq_id], kv[s], shared)]
  BY DEF AdmitClone
<1>2. HasRoom /\ pc = "admit" /\ DOMAIN kv = Slot /\ todo = {}
  BY DEF AdmitClone, TypeOK, Bookkeeping
<1>3. i \in Queued /\ i \in Id
  BY <1>1, <1>2, PopFront DEF HasRoom, TakeSlot
<1>4. /\ req[i] \in Request /\ req[d] \in Request
      /\ req[i].prompt_len = Len(req[i].history)
      /\ Len(req[i].history) \in 1 .. n_ctx
      /\ shared \in Nat
  <2>1. req[i] \in Request /\ req[d] \in Request
    BY <1>1, <1>3 DEF TypeOK
  <2>2. req[i].prompt_len = Len(req[i].history) /\ Len(req[i].history) \in 1 .. n_ctx
    BY <1>3 DEF Bookkeeping
  <2> QED
    BY <2>1, <2>2
<1>5. \A k \in 1 .. shared : req[d].history[k] = req[i].history[k]
  BY <1>1, <1>4 DEF find_donor, Donors
<1>6. /\ DOMAIN kv[req[d].seq_id] = 1 .. req[d].n_past
      /\ \A p \in 1 .. req[d].n_past :
           kv[req[d].seq_id][p].tok = req[d].history[p]
  <2>1. Filled(d) = req[d].n_past
    BY <1>2, <1>4 DEF Filled, Request
  <2>2. /\ DOMAIN kv[req[d].seq_id] = 1 .. Filled(d)
        /\ \A p \in 1 .. Filled(d) :
             kv[req[d].seq_id][p].tok = req[d].history[p]
    BY DEF KVMatchesHistory
  <2> QED
    BY <2>1, <2>2
<1>7. req[d].n_past >= req[d].prompt_len /\ req[d].prompt_len = Len(req[i].history)
      /\ req[d].n_past \in Nat
  BY <1>1, <1>4 DEF DonorReady, find_donor, Donors, Request
<1>8. s \in Slot => DOMAIN kv[s] = {}
  BY <1>1 DEF TakeSlot, FirstFree, KVMatchesHistory
<1>9. s \in Slot => /\ DOMAIN kv'[s] = 1 .. shared
                    /\ \A p \in 1 .. shared : kv'[s][p].tok = req[i].history[p]
  <2> SUFFICES ASSUME s \in Slot
               PROVE  /\ DOMAIN kv'[s] = 1 .. shared
                      /\ \A p \in 1 .. shared : kv'[s][p].tok = req[i].history[p]
    OBVIOUS
  <2>1. kv'[s] = copy_seq(kv[req[d].seq_id], kv[s], shared)
    BY <1>1, <1>2
  <2>2. DOMAIN kv'[s] = {q \in 1 .. req[d].n_past : q <= shared}
    BY <1>6, <1>8, <2>1 DEF copy_seq
  <2>3. {q \in 1 .. req[d].n_past : q <= shared} = 1 .. shared
    BY <1>4, <1>7
  <2>4. ASSUME NEW p \in 1 .. shared
        PROVE  kv'[s][p] = kv[req[d].seq_id][p] /\ p \in 1 .. req[d].n_past
    BY <1>4, <1>6, <1>7, <1>8, <2>1 DEF copy_seq
  <2> QED
    BY <1>5, <1>6, <2>2, <2>3, <2>4
<1>10. DOMAIN kv' = Slot /\ \A t \in Slot : t # s => kv'[t] = kv[t]
  BY <1>1, <1>2
<1>11. shared = Len(req[i].history) - 1
  BY <1>4
<1> HIDE DEF shared
<1> QED
  BY <1>1, <1>2, <1>4, <1>9, <1>10, <1>11, TakeSlotInv

LEMMA FinishInv ==
  ASSUME SchedulerInv, NEW D \in SUBSET active, NEW outcome \in {"ok", "error"},
         Finish(D, outcome),
         req' \in [Id -> Request],
         \A j \in Id \ D : req'[j] = req[j],
         UNCHANGED <<pending, next_id>>,
         todo' = todo \ D,
         pc' \in {"idle", "admit", "decode", "sample"},
         pc' # "sample" => todo' = {}
  PROVE  SchedulerInv'
<1> USE DEF SchedulerInv
<1>1. /\ active' = active \ D /\ active \subseteq Id /\ todo \subseteq active
      /\ Queued' = Queued /\ Queued \subseteq Id
  BY DEF Finish, TypeOK, Queued, Range
<1>2. \A j \in active' : j \in active /\ j \in Id /\ j \notin D /\ req'[j] = req[j]
  BY <1>1
<1>3. \A j \in Queued : j \in Id /\ j \notin D /\ req'[j] = req[j]
  BY <1>1 DEF NoRequestLost
<1>4. done' = [j \in Id |-> IF j \in D THEN outcome ELSE done[j]]
  BY DEF Finish
<1>5. \A t \in Slot :
        IF \E j \in D : req[j].seq_id = t
        THEN slot_used'[t] = FALSE /\ kv'[t] = NoCells
        ELSE slot_used'[t] = slot_used[t] /\ kv'[t] = kv[t]
  BY DEF Finish, TypeOK
<1>6. TypeOK'
  <2>1. done' \in [Id -> Outcome]
    BY <1>4 DEF TypeOK, Outcome
  <2>2. slot_used' \in [Slot -> BOOLEAN] /\ DOMAIN kv' = Slot
    BY DEF Finish, TypeOK
  <2> QED
    BY <1>1, <2>1, <2>2 DEF TypeOK
<1>7. NoRequestLost'
  <2>1. /\ active' \cap Queued' = {}
        /\ \A j \in active' \cup Queued' : j < next_id' /\ done'[j] = "none"
    BY <1>1, <1>2, <1>3, <1>4 DEF NoRequestLost
  <2>2. ASSUME NEW j \in Id
        PROVE  /\ j < next_id' => j \in active' \cup Queued' \/ done'[j] # "none"
               /\ j >= next_id' => done'[j] = "none"
    BY <1>1, <1>4 DEF NoRequestLost, TypeOK
  <2> QED
    BY <1>1, <2>1, <2>2 DEF NoRequestLost
<1>8. SlotsExclusive'
  <2>1. ASSUME NEW t \in Slot
        PROVE  slot_used'[t] <=> \E j \in active' : req'[j].seq_id = t
    <3>1. CASE \E j \in D : req[j].seq_id = t
      <4>1. slot_used'[t] = FALSE
        BY <1>5, <3>1
      <4>2. PICK k \in D : req[k].seq_id = t
        BY <3>1
      <4>3. ASSUME NEW j \in active', req'[j].seq_id = t PROVE FALSE
        <5>1. j \in active /\ k \in active /\ j # k /\ req[j].seq_id = req[k].seq_id
          BY <1>2, <4>2, <4>3
        <5> QED
          BY <5>1 DEF SlotsExclusive
      <4> QED
        BY <4>1, <4>3
    <3>2. CASE ~\E j \in D : req[j].seq_id = t
      <4>1. slot_used'[t] = slot_used[t]
        BY <1>5, <3>2
      <4>2. (\E j \in active : req[j].seq_id = t) <=> \E j \in active' : req'[j].seq_id = t
        BY <1>1, <1>2, <3>2
      <4> QED
        BY <4>1, <4>2 DEF SlotsExclusive
    <3> QED
      BY <3>1, <3>2
  <2> QED
    BY <1>2, <2>1 DEF SlotsExclusive
<1>9. KVMatchesHistory'
  <2>1. ASSUME NEW j \in active'
        PROVE  /\ DOMAIN kv'[req'[j].seq_id] = 1 .. Filled(j)'
               /\ \A p \in 1 .. Filled(j)' :
                     kv'[req'[j].seq_id][p].tok = req'[j].history[p]
    <3>1. req[j].seq_id \in Slot /\ ~\E k \in D : req[k].seq_id = req[j].seq_id
      BY <1>2 DEF SlotsExclusive
    <3>2. kv'[req'[j].seq_id] = kv[req[j].seq_id]
      BY <1>2, <1>5, <3>1
    <3>3. Filled(j)' = Filled(j)
      BY <1>2 DEF Filled, SliceLen
    <3> QED
      BY <1>2, <3>2, <3>3 DEF KVMatchesHistory
  <2>2. \A t \in Slot : ~slot_used'[t] => DOMAIN kv'[t] = {}
    BY <1>5 DEF KVMatchesHistory, NoCells
  <2> QED
    BY <2>1, <2>2 DEF KVMatchesHistory
<1>10. SliceCompletesHistory'
  BY <1>2 DEF SliceCompletesHistory
<1>11. Bookkeeping'
  <2>1. ASSUME NEW j \in Id, j >= next_id' PROVE Len(req'[j].history) = 0
    BY <1>1, <2>1 DEF Bookkeeping, NoRequestLost, TypeOK
  <2> QED
    BY <1>1, <1>2, <1>3, <2>1 DEF Bookkeeping
<1> QED
  BY <1>6, <1>7, <1>8, <1>9, <1>10, <1>11

LEMMA DecodeOkInv == ASSUME SchedulerInv, DecodeOk PROVE SchedulerInv'
<1> USE DEF SchedulerInv
<1>1. /\ kv' = decode_seqs /\ todo' = active /\ pc' = "sample" /\ todo = {}
      /\ UNCHANGED <<pending, active, req, slot_used, done, next_id>>
      /\ Queued' = Queued /\ active \subseteq Id
  BY DEF DecodeOk, Queued, Bookkeeping, TypeOK
<1>2. TypeOK'
  BY <1>1 DEF TypeOK, decode_seqs
<1>3. NoRequestLost'
  BY <1>1 DEF NoRequestLost
<1>4. SlotsExclusive'
  BY <1>1 DEF SlotsExclusive
<1>5. KVMatchesHistory'
  <2>1. ASSUME NEW i \in active
        PROVE  /\ DOMAIN kv'[req[i].seq_id] = 1 .. Filled(i)'
               /\ \A p \in 1 .. Filled(i)' :
                     kv'[req[i].seq_id][p].tok = req[i].history[p]
    <3> DEFINE r == req[i]
               s == r.seq_id
               new == (PosStart(r) + 1) .. (PosStart(r) + SliceLen(r))
    <3>1. s \in Slot /\ \A j \in active : req[j].seq_id = s <=> j = i
      BY DEF SlotsExclusive
    <3>2. i = CHOOSE j \in active : req[j].seq_id = s
      BY <3>1
    <3>3. kv'[s] = Decoded(kv[s], i)
      BY <1>1, <3>1, <3>2 DEF decode_seqs
    <3>4. r \in Request
      BY <1>1 DEF TypeOK
    <3>5. /\ r.history \in Seq(Token) /\ Len(r.history) \in Nat /\ r.n_past \in Nat
          /\ r.needs_prefill \in BOOLEAN /\ Len(r.history) > 0
      BY <3>4 DEF Request, Bookkeeping
    <3>6. /\ PosStart(r) = r.n_past
          /\ r.n_past + SliceLen(r) = Len(r.history)
          /\ SliceLen(r) \in Nat
      BY <3>5 DEF SliceCompletesHistory, SliceLen
    <3>7. /\ DOMAIN kv[s] = 1 .. r.n_past
          /\ \A p \in 1 .. r.n_past : kv[s][p].tok = r.history[p]
      BY <1>1, <3>5 DEF KVMatchesHistory, Filled
    <3>8. Filled(i)' = Len(r.history)
      BY <1>1, <3>6 DEF Filled, SliceLen
    <3> HIDE DEF r
    <3>9. kv'[s] = [p \in DOMAIN kv[s] \cup new |->
                      IF p \in new
                      THEN [tok |-> SliceToken(r, p - PosStart(r)), by |-> i]
                      ELSE kv[s][p]]
      BY <3>3 DEF Decoded, r
    <3>10. DOMAIN kv[s] \cup new = 1 .. Len(r.history)
      BY <3>5, <3>6, <3>7
    <3>11. ASSUME NEW p \in 1 .. Len(r.history)
           PROVE  kv'[s][p].tok = r.history[p]
      <4>1. CASE p \in new
        <5>1. kv'[s][p].tok = SliceToken(r, p - PosStart(r))
          BY <3>9, <3>10, <4>1
        <5>2. SliceToken(r, p - PosStart(r)) = r.history[p]
          BY <3>5, <3>6, <4>1 DEF SliceToken, PosStart, SliceLen
        <5> QED
          BY <5>1, <5>2
      <4>2. CASE p \notin new
        BY <3>7, <3>9, <3>10, <4>2
      <4> QED
        BY <4>1, <4>2
    <3> QED
      BY <3>8, <3>9, <3>10, <3>11 DEF r
  <2>2. ASSUME NEW t \in Slot, ~slot_used[t] PROVE DOMAIN kv'[t] = {}
    <3>1. ~\E i \in active : req[i].seq_id = t
      BY <2>2 DEF SlotsExclusive
    <3>2. kv'[t] = kv[t]
      BY <1>1, <3>1 DEF decode_seqs
    <3> QED
      BY <2>2, <3>2 DEF KVMatchesHistory
  <2> QED
    BY <1>1, <2>1, <2>2 DEF KVMatchesHistory
<1>6. SliceCompletesHistory'
  BY <1>1 DEF SliceCompletesHistory
<1>7. Bookkeeping'
  BY <1>1 DEF Bookkeeping
<1> QED
  BY <1>2, <1>3, <1>4, <1>5, <1>6, <1>7

LEMMA DecodeFailInv == ASSUME SchedulerInv, DecodeFail PROVE SchedulerInv'
<1>1. /\ Finish(active, "error") /\ pc' = "idle"
      /\ UNCHANGED <<pending, todo, req, next_id>>
  BY DEF DecodeFail
<1>2. todo = {} /\ req \in [Id -> Request]
  BY DEF DecodeFail, SchedulerInv, Bookkeeping, TypeOK
<1>3. todo' = todo \ active /\ active \in SUBSET active
  BY <1>1, <1>2
<1> QED
  BY <1>1, <1>2, <1>3, FinishInv

\* Facts about the request a sampling iteration works on.
LEMMA SamplingFacts ==
  ASSUME SchedulerInv, NEW i \in Id, Sampling(i)
  PROVE  /\ i \in active /\ i \in todo /\ req[i] \in Request
         /\ Advanced(req[i]) \in Request
         /\ Advanced(req[i]).n_past = Len(req[i].history)
         /\ Advanced(req[i]).needs_prefill = FALSE
         /\ Advanced(req[i]).history = req[i].history
         /\ Advanced(req[i]).prompt_len = req[i].prompt_len
         /\ Advanced(req[i]).seq_id = req[i].seq_id
         /\ todo' = todo \ {i}
         /\ pc' \in {"idle", "sample"} /\ (pc' # "sample" => todo' = {})
         /\ UNCHANGED <<pending, next_id>>
<1>1. i \in active /\ i \in todo /\ req[i] \in Request
  BY DEF Sampling, SchedulerInv, TypeOK
<1>2. req[i].n_past + SliceLen(req[i]) = Len(req[i].history)
  BY <1>1 DEF SchedulerInv, SliceCompletesHistory
<1>3. Len(req[i].history) \in Nat
  BY <1>1 DEF Request
<1> QED
  BY <1>1, <1>2, <1>3 DEF Sampling, Advanced, Request

LEMMA SampleEndInv ==
  ASSUME SchedulerInv, NEW i \in Id, SampleEog(i) \/ SampleFault(i)
  PROVE  SchedulerInv'
<1>1. PICK outcome \in {"ok", "error"} :
        Sampling(i) /\ Finish({i}, outcome) /\ req' = [req EXCEPT ![i] = Advanced(@)]
  BY DEF SampleEog, SampleFault
<1>2. req \in [Id -> Request]
  BY DEF SchedulerInv, TypeOK
<1>3. /\ req' \in [Id -> Request]
      /\ \A j \in Id \ {i} : req'[j] = req[j]
  BY <1>1, <1>2, SamplingFacts
<1> QED
  BY <1>1, <1>3, SamplingFacts, FinishInv

LEMMA SampleTokenInv ==
  ASSUME SchedulerInv, NEW i \in Id, NEW t \in Token, NEW keep_going \in BOOLEAN,
         SampleToken(i, t, keep_going)
  PROVE  SchedulerInv'
<1> DEFINE r == [Advanced(req[i]) EXCEPT !.history = Append(@, t), !.emitted = @ + 1]
<1>1. Sampling(i) /\ req' = [req EXCEPT ![i] = r]
  BY DEF SampleToken
<1>2. /\ req \in [Id -> Request]
      /\ req[i].history \in Seq(Token) /\ Len(req[i].history) \in Nat
  BY DEF SchedulerInv, TypeOK, Request
<1>3. /\ r \in Request
      /\ r.history = Append(req[i].history, t)
      /\ r.n_past = Len(req[i].history)
      /\ r.needs_prefill = FALSE
      /\ r.prompt_len = req[i].prompt_len
      /\ r.seq_id = req[i].seq_id
  <2> DEFINE adv == Advanced(req[i])
  <2>1. /\ adv \in Request
        /\ adv.history = req[i].history
        /\ adv.n_past = Len(req[i].history)
        /\ adv.needs_prefill = FALSE
        /\ adv.prompt_len = req[i].prompt_len
        /\ adv.seq_id = req[i].seq_id
    BY <1>1, SamplingFacts
  <2> HIDE DEF adv
  <2>2. Append(req[i].history, t) \in Seq(Token)
    BY <1>2
  <2>3. adv.emitted \in Nat
    BY <2>1 DEF Request
  <2>4. adv.emitted + 1 \in Nat
    BY <2>3
  <2>5. r = [adv EXCEPT !.history = Append(@, t), !.emitted = @ + 1]
    BY DEF adv
  <2> HIDE DEF r
  <2> QED
    BY <2>1, <2>2, <2>4, <2>5 DEF Request
<1>4. CASE Finish({i}, "ok")
  <2>1. /\ req' \in [Id -> Request]
        /\ \A j \in Id \ {i} : req'[j] = req[j]
    BY <1>1, <1>2, <1>3
  <2> QED
    BY <1>1, <1>4, <2>1, SamplingFacts, FinishInv
<1>5. CASE /\ ~(~keep_going \/ r.emitted >= r.max_tokens \/ Len(r.history) >= n_ctx)
           /\ UNCHANGED <<active, slot_used, kv, done>>
  <2> HIDE DEF r
  <2>1. /\ req'[i] = r /\ req' \in [Id -> Request]
        /\ \A j \in Id \ {i} : req'[j] = req[j]
    BY <1>1, <1>2, <1>3
  <2>2. /\ i \in active /\ i \in todo /\ todo' = todo \ {i}
        /\ pc' \in {"idle", "sample"} /\ (pc' # "sample" => todo' = {})
        /\ UNCHANGED <<pending, next_id>> /\ Queued' = Queued
    BY <1>1, SamplingFacts DEF Queued
  <2>3. Len(r.history) = Len(req[i].history) + 1
    BY <1>2, <1>3
  <2>4. \A j \in Queued : j # i /\ j \in Id
    BY <2>2 DEF SchedulerInv, NoRequestLost, Queued, Range, TypeOK
  <2>5. TypeOK'
    BY <1>5, <2>1, <2>2 DEF SchedulerInv, TypeOK
  <2>6. NoRequestLost'
    BY <1>5, <2>2 DEF SchedulerInv, NoRequestLost
  <2>7. \A j \in active : j \in Id /\ req'[j].seq_id = req[j].seq_id
    BY <1>3, <2>1 DEF SchedulerInv, TypeOK
  <2>8. SlotsExclusive'
    BY <1>5, <2>7 DEF SchedulerInv, SlotsExclusive
  <2>9. KVMatchesHistory'
    <3>1. ASSUME NEW j \in active
          PROVE  /\ DOMAIN kv'[req'[j].seq_id] = 1 .. Filled(j)'
                 /\ \A p \in 1 .. Filled(j)' :
                       kv'[req'[j].seq_id][p].tok = req'[j].history[p]
      <4>1. CASE j = i
        <5>1. Filled(i)' = Len(req[i].history)
          BY <1>2, <1>3, <2>1, <2>2 DEF Filled
        <5>2. Filled(i) = Len(req[i].history)
          BY <2>2 DEF Filled, SchedulerInv, SliceCompletesHistory
        <5>3. \A p \in 1 .. Len(req[i].history) : req'[i].history[p] = req[i].history[p]
          BY <1>2, <1>3, <2>1
        <5>4. kv'[req'[i].seq_id] = kv[req[i].seq_id]
          BY <1>5, <2>2, <2>7
        <5>5. /\ DOMAIN kv[req[i].seq_id] = 1 .. Filled(i)
              /\ \A p \in 1 .. Filled(i) : kv[req[i].seq_id][p].tok = req[i].history[p]
          BY <2>2 DEF SchedulerInv, KVMatchesHistory
        <5> QED
          BY <4>1, <5>1, <5>2, <5>3, <5>4, <5>5
      <4>2. CASE j # i
        <5>1. req'[j] = req[j] /\ j \in Id
          BY <2>1, <2>7, <4>2
        <5>2. Filled(j)' = Filled(j)
          BY <2>2, <4>2, <5>1 DEF Filled, SliceLen
        <5> QED
          BY <1>5, <5>1, <5>2 DEF SchedulerInv, KVMatchesHistory
      <4> QED
        BY <4>1, <4>2
    <3> QED
      BY <1>5, <3>1 DEF SchedulerInv, KVMatchesHistory
  <2>10. SliceCompletesHistory'
    <3>1. ASSUME NEW j \in active
          PROVE  /\ PosStart(req'[j]) = req'[j].n_past
                 /\ req'[j].n_past + SliceLen(req'[j]) = Len(req'[j].history)
                 /\ Len(req'[j].history) <= n_ctx
      <4>1. CASE j = i
        BY <1>2, <1>3, <1>5, <2>1, <2>3, <4>1 DEF PosStart, SliceLen
      <4>2. CASE j # i
        BY <2>1, <2>7, <4>2 DEF SchedulerInv, SliceCompletesHistory
      <4> QED
        BY <4>1, <4>2
    <3> QED
      BY <1>5, <3>1 DEF SliceCompletesHistory
  <2>11. Bookkeeping'
    <3>1. \A j \in active' : req'[j].prompt_len \in 1 .. Len(req'[j].history)
      <4>1. \A j \in active : j # i => req'[j] = req[j]
        BY <2>1, <2>7
      <4>2. req'[i].prompt_len \in 1 .. Len(req'[i].history)
        BY <1>2, <1>3, <2>1, <2>2, <2>3 DEF SchedulerInv, Bookkeeping
      <4> QED
        BY <1>5, <4>1, <4>2 DEF SchedulerInv, Bookkeeping
    <3>2. i < next_id
      BY <2>2 DEF SchedulerInv, NoRequestLost
    <3>3. ASSUME NEW j \in Id, j >= next_id' PROVE Len(req'[j].history) = 0
      BY <2>1, <2>2, <3>2, <3>3 DEF SchedulerInv, Bookkeeping, TypeOK
    <3>4. \A j \in Queued' : req'[j] = req[j] /\ j \in Queued
      BY <2>1, <2>2, <2>4
    <3> QED
      BY <2>2, <3>1, <3>3, <3>4 DEF SchedulerInv, Bookkeeping
  <2> QED
    BY <2>5, <2>6, <2>8, <2>9, <2>10, <2>11 DEF SchedulerInv
<1> QED
  BY <1>4, <1>5 DEF SampleToken

LEMMA NextInv == SchedulerInv /\ [Next]_vars => SchedulerInv'
<1> SUFFICES ASSUME SchedulerInv, [Next]_vars PROVE SchedulerInv'
  OBVIOUS
<1>1. CASE \E prompt \in Prompts, m \in MaxTokens : submit(prompt, m)
  BY <1>1, SubmitInv
<1>2. CASE StepBegin \/ AdmitEnd
  BY <1>2, SamePlace
<1>3. CASE AdmitPrefill
  BY <1>3, AdmitPrefillInv
<1>4. CASE AdmitClone
  BY <1>4, AdmitCloneInv
<1>5. CASE DecodeOk
  BY <1>5, DecodeOkInv
<1>6. CASE DecodeFail
  BY <1>6, DecodeFailInv
<1>7. CASE \E i \in Id : Sample(i)
  BY <1>7, SampleEndInv, SampleTokenInv DEF Sample
<1>8. CASE UNCHANGED vars
  <2>1. Queued' = Queued
    BY <1>8 DEF vars, Queued
  <2> QED
    BY <1>8, <2>1 DEF vars, SchedulerInv, TypeOK, NoRequestLost, SlotsExclusive,
       KVMatchesHistory, SliceCompletesHistory, Bookkeeping, Filled
<1> QED
  BY <1>1, <1>2, <1>3, <1>4, <1>5, <1>6, <1>7, <1>8 DEF Next, Step

\* The inductive invariant holds in every reachable state of submit() and
\* step(), for all constants.
THEOREM SchedulerInvariant == Spec => []SchedulerInv
  BY InitInv, NextInv, PTL DEF Spec

\* Type correctness of the scheduler's state.
THEOREM TypeCorrect == Spec => []TypeOK
  BY SchedulerInvariant, PTL DEF SchedulerInv

\* Requests are neither lost, nor served twice, nor overtaken between the
\* deque, the active vector and the done map.
THEOREM RequestsConserved == Spec => []NoRequestLost
  BY SchedulerInvariant, PTL DEF SchedulerInv

\* admit() always finds a slot, and no two active requests share a sequence.
THEOREM SlotsAreExclusive == Spec => []SlotsExclusive
  BY SchedulerInvariant, PTL DEF SchedulerInv

\* The KV of an active request is exactly its own history: prefill, clone,
\* slot reuse and batch failure included.
THEOREM KVCorrect == Spec => [](KVMatchesHistory /\ SliceCompletesHistory)
  BY SchedulerInvariant, PTL DEF SchedulerInv

\* What step() decodes for a request is exactly what its sequence lacks of its
\* history, for prefills, clones and running requests.
THEOREM SlicesComplete == Spec => []SliceCompletesHistory
  BY SchedulerInvariant, PTL DEF SchedulerInv

\* One step of submit() or step() leaves a completed request alone.
LEMMA StepKeepsResults ==
  ASSUME SchedulerInv, [Next]_vars, NEW i \in Id, finished(i)
  PROVE  done'[i] = done[i] /\ req'[i] = req[i] /\ i \notin active'
<1> USE DEF SchedulerInv
<1>1. /\ i \notin active /\ i \notin Queued /\ i < next_id
      /\ req \in [Id -> Request] /\ done \in [Id -> Outcome] /\ todo \subseteq active
  BY DEF finished, NoRequestLost, TypeOK
<1>2. CASE \E prompt \in Prompts, m \in MaxTokens : submit(prompt, m)
  BY <1>1, <1>2 DEF submit
<1>3. CASE StepBegin \/ AdmitEnd \/ DecodeOk
  BY <1>1, <1>3 DEF StepBegin, AdmitEnd, DecodeOk
<1>4. CASE AdmitPrefill \/ AdmitClone
  <2>1. PICK s, past, prefill : TakeSlot(Head(pending), s, past, prefill)
    BY <1>4 DEF AdmitPrefill, AdmitClone
  <2>2. Head(pending) # i
    BY <1>1, <1>4, <2>1, PopFront DEF AdmitPrefill, AdmitClone, HasRoom, TakeSlot
  <2> QED
    BY <1>1, <2>1, <2>2 DEF TakeSlot
<1>5. CASE DecodeFail
  BY <1>1, <1>5 DEF DecodeFail, Finish
<1>6. ASSUME NEW j \in Id, Sample(j)
      PROVE  done'[i] = done[i] /\ req'[i] = req[i] /\ i \notin active'
  <2>1. j # i
    BY <1>1, <1>6 DEF Sample, SampleEog, SampleFault, SampleToken, Sampling
  <2> QED
    BY <1>1, <1>6, <2>1 DEF Sample, SampleEog, SampleFault, SampleToken, Finish
<1>7. CASE UNCHANGED vars
  BY <1>1, <1>7 DEF vars
<1> QED
  BY <1>2, <1>3, <1>4, <1>5, <1>6, <1>7 DEF Next, Step

\* A completed request keeps its outcome and its history for ever.
THEOREM ResultsArePermanent == Spec => ResultsPermanent
<1>1. SchedulerInv /\ [Next]_vars => [KeepsResults]_vars
  BY StepKeepsResults DEF KeepsResults
<1> QED
  BY <1>1, SchedulerInvariant, PTL DEF Spec, ResultsPermanent

-----------------------------------------------------------------------------
(* The scheduler implements RequestService under the mapping (Status,       *)
(* Output) of module Scheduler.                                             *)

LEMMA SubSeqAppend ==
  ASSUME NEW S, NEW s \in Seq(S), NEW x \in S, NEW m \in 0 .. Len(s)
  PROVE  SubSeq(Append(s, x), m + 1, Len(s) + 1)
           = Append(SubSeq(s, m + 1, Len(s)), x)
<1> DEFINE lhs == SubSeq(Append(s, x), m + 1, Len(s) + 1)
           rhs == Append(SubSeq(s, m + 1, Len(s)), x)
<1>1. Len(s) \in Nat /\ Append(s, x) \in Seq(S) /\ Len(Append(s, x)) = Len(s) + 1
  OBVIOUS
<1>2. lhs \in Seq(S) /\ Len(lhs) = Len(s) + 1 - m
  BY <1>1
<1>3. rhs \in Seq(S) /\ Len(rhs) = Len(s) + 1 - m
  BY <1>1
<1>4. ASSUME NEW k \in 1 .. (Len(s) + 1 - m) PROVE lhs[k] = rhs[k]
  BY <1>1
<1> HIDE DEF lhs, rhs
<1>5. lhs = rhs
  BY <1>2, <1>3, <1>4
<1> QED
  BY <1>5 DEF lhs, rhs

LEMMA EmptySubSeq ==
  ASSUME NEW S, NEW s \in Seq(S), NEW m \in Nat, m >= Len(s)
  PROVE  SubSeq(s, m + 1, Len(s)) = << >>
  OBVIOUS

LEMMA InitRefines == Init => Service!Init
<1> SUFFICES ASSUME Init PROVE Service!Init
  OBVIOUS
<1>1. SchedulerInv
  BY InitInv
<1>2. Status = [i \in Id |-> "none"]
  BY DEF Init, Status, Queued, Range
<1>3. Output = [i \in Id |-> << >>]
  BY EmptySubSeq DEF Init, NewRequest, Output
<1> QED
  BY <1>2, <1>3 DEF Service!Init, Service!Id

LEMMA StatusFacts ==
  ASSUME SchedulerInv
  PROVE  /\ \A i \in Id : Status[i] = "running" <=> i \in active
         /\ \A i \in Id : Status[i] = "queued" <=> i \in Queued
         /\ \A i \in Id : Status[i] = "none" <=> i >= next_id
         /\ Service!Running = active
         /\ Service!Id = Id
<1> USE DEF SchedulerInv
<1>1. /\ active \subseteq Id /\ next_id \in Int /\ active \cap Queued = {}
      /\ \A i \in Id : done[i] \in {"none", "ok", "error"}
  BY DEF TypeOK, NoRequestLost, Outcome
<1>2. \A i \in Id : Status[i] = "running" <=> i \in active
  BY <1>1 DEF Status
<1>3. \A i \in Id : Status[i] = "queued" <=> i \in Queued
  BY <1>1 DEF Status
<1>4. ASSUME NEW i \in Id PROVE Status[i] = "none" <=> i >= next_id
  BY <1>1 DEF Status, NoRequestLost
<1>5. Service!Id = Id
  BY DEF Service!Id
<1>6. Service!Running = active
  BY <1>1, <1>2, <1>5 DEF Service!Running
<1> QED
  BY <1>2, <1>3, <1>4, <1>5, <1>6

\* A step that moves no request and touches no history is a stutter.
LEMMA Stutters ==
  ASSUME UNCHANGED <<pending, active, req, done>>
  PROVE  UNCHANGED Service!vars
  BY DEF Service!vars, Status, Output, Queued

LEMMA SubmitRefines ==
  ASSUME SchedulerInv, SchedulerInv', NEW prompt \in Prompts, NEW m \in MaxTokens,
         submit(prompt, m)
  PROVE  Service!Submit(next_id)
<1>1. /\ next_id \in Id /\ req \in [Id -> Request] /\ next_id \notin active
      /\ next_id \notin Queued
  BY DEF submit, SchedulerInv, TypeOK, NoRequestLost
<1>2. Queued' = Queued \cup {next_id}
  <2>1. pending \in Seq(Id)
    BY DEF SchedulerInv, TypeOK
  <2> HIDE DEF Id
  <2> QED
    BY <1>1, <2>1, AppendRange DEF submit, Queued
<1>3. Status' = [Status EXCEPT ![next_id] = "queued"]
  <2>1. active' = active /\ done' = done
    BY DEF submit
  <2> QED
    BY <1>1, <1>2, <2>1 DEF Status
<1>4. Output' = Output
  <2>1. ASSUME NEW i \in Id PROVE Output'[i] = Output[i]
    <3>1. CASE i = next_id
      <4>1. req'[i] = NewRequest(prompt, m) /\ prompt \in Seq(Token)
        BY <1>1, <3>1 DEF submit
      <4>2. Output'[i] = << >>
        BY <4>1, EmptySubSeq DEF Output, NewRequest
      <4>3. /\ req[i].history \in Seq(Token) /\ Len(req[i].history) = 0
            /\ req[i].prompt_len \in Nat
        BY <1>1, <3>1 DEF Request, SchedulerInv, Bookkeeping
      <4>4. Output[i] = << >>
        BY <4>3, EmptySubSeq DEF Output
      <4> QED
        BY <4>2, <4>4
    <3>2. CASE i # next_id
      BY <1>1, <3>2 DEF submit, Output
    <3> QED
      BY <3>1, <3>2
  <2> QED
    BY <2>1 DEF Output
<1>5. Status[next_id] = "none" /\ \A j \in Id : j < next_id => Status[j] # "none"
  BY <1>1, StatusFacts
<1> QED
  BY <1>3, <1>4, <1>5 DEF Service!Submit, Service!Id

LEMMA TakeSlotRefines ==
  ASSUME SchedulerInv, HasRoom, NEW s, NEW past, NEW prefill,
         TakeSlot(Head(pending), s, past, prefill)
  PROVE  Service!Start(Head(pending)) /\ Head(pending) \in Id
<1> DEFINE i == Head(pending)
<1>1. /\ i \in Queued /\ i \in Id /\ Queued' = Queued \ {i} /\ Queued \subseteq Id
      /\ \A j \in Queued' : i < j
  BY PopFront DEF HasRoom, TakeSlot
<1>2. i \notin active /\ req \in [Id -> Request] /\ i < next_id /\ next_id \in Int
  BY <1>1 DEF SchedulerInv, NoRequestLost, TypeOK
<1>3. /\ req' = [req EXCEPT ![i] = [@ EXCEPT !.seq_id = s, !.n_past = past,
                                            !.needs_prefill = prefill]]
      /\ active' = active \cup {i} /\ done' = done /\ Cardinality(active) < n_parallel
  BY DEF TakeSlot, HasRoom
<1> HIDE DEF i
<1>4. Status' = [Status EXCEPT ![i] = "running"]
  BY <1>1, <1>2, <1>3 DEF Status
<1>5. Output' = Output
  <2>1. ASSUME NEW j \in Id
        PROVE  req'[j].history = req[j].history /\ req'[j].prompt_len = req[j].prompt_len
    BY <1>1, <1>2, <1>3 DEF Request
  <2> QED
    BY <2>1 DEF Output
<1>6. Status[i] = "queued"
  BY <1>1, StatusFacts
<1>7. ASSUME NEW j \in Id, j < i PROVE Status[j] \notin {"none", "queued"}
  <2>1. j \notin Queued
    BY <1>1, <1>7
  <2>2. j < next_id
    BY <1>1, <1>2, <1>7
  <2>3. ~(j >= next_id)
    BY <1>2, <2>2
  <2> QED
    BY <2>1, <2>3, StatusFacts
<1>8. Service!Cardinality(Service!Running) < n_parallel
  <2>1. Service!Cardinality(active) = Cardinality(active)
    BY DEF Service!Cardinality, Cardinality, Service!IsFiniteSet, IsFiniteSet
  <2> QED
    BY <1>3, <2>1, StatusFacts
<1>9. \A j \in Service!Id : j < i => Status[j] \notin {"none", "queued"}
  BY <1>7 DEF Service!Id
<1>10. Service!Start(i)
  BY <1>4, <1>5, <1>6, <1>8, <1>9 DEF Service!Start
<1> QED
  BY <1>1, <1>10 DEF i

LEMMA DecodeFailRefines ==
  ASSUME SchedulerInv, DecodeFail
  PROVE  Service!Fail(active)
<1>1. /\ active \subseteq Id /\ active \cap Queued = {} /\ Queued' = Queued
      /\ active' = {} /\ req' = req
      /\ done' = [j \in Id |-> IF j \in active THEN "error" ELSE done[j]]
  BY DEF SchedulerInv, TypeOK, NoRequestLost, DecodeFail, Finish, Queued
<1>2. Status' = [j \in Id |-> IF j \in active THEN "error" ELSE Status[j]]
  BY <1>1 DEF Status
<1>3. Output' = Output
  BY <1>1 DEF Output
<1>4. Service!Running = active /\ \A j \in active : Status[j] = "running"
  BY <1>1, StatusFacts
<1> QED
  BY <1>2, <1>3, <1>4 DEF Service!Fail, Service!Id

\* The status map when a single active request finishes.
LEMMA FinishOne ==
  ASSUME SchedulerInv, NEW i \in active, NEW outcome, Finish({i}, outcome),
         pending' = pending
  PROVE  /\ Status' = [Status EXCEPT ![i] = outcome]
         /\ Status' = [j \in Id |-> IF j \in {i} THEN outcome ELSE Status[j]]
<1>1. /\ i \in Id /\ i \notin Queued /\ Queued' = Queued /\ active' = active \ {i}
      /\ done' = [j \in Id |-> IF j \in {i} THEN outcome ELSE done[j]]
  BY DEF SchedulerInv, TypeOK, NoRequestLost, Finish, Queued
<1> QED
  BY <1>1 DEF Status

LEMMA SampleRefines ==
  ASSUME SchedulerInv, NEW i \in Id, Sample(i)
  PROVE  \/ Service!EndOfGeneration(i)
         \/ Service!Fail({i})
         \/ \E t \in Token : Service!Emit(i, t)
<1>1. Sampling(i)
  BY DEF Sample, SampleEog, SampleFault, SampleToken
<1>2. /\ i \in active /\ pending' = pending /\ req \in [Id -> Request]
      /\ req[i] \in Request /\ Status[i] = "running"
      /\ Advanced(req[i]).history = req[i].history
      /\ Advanced(req[i]).prompt_len = req[i].prompt_len
  BY <1>1, SamplingFacts, StatusFacts DEF SchedulerInv, TypeOK
<1>3. ASSUME NEW outcome, Finish({i}, outcome), req' = [req EXCEPT ![i] = Advanced(@)]
      PROVE  Output' = Output
  <2>1. ASSUME NEW j \in Id
        PROVE  req'[j].history = req[j].history /\ req'[j].prompt_len = req[j].prompt_len
    BY <1>2, <1>3
  <2> QED
    BY <2>1 DEF Output
<1>4. CASE SampleEog(i)
  BY <1>2, <1>3, <1>4, FinishOne DEF SampleEog, Service!EndOfGeneration
<1>5. CASE SampleFault(i)
  <2>1. Output' = Output /\ Status' = [j \in Id |-> IF j \in {i} THEN "error" ELSE Status[j]]
    BY <1>2, <1>3, <1>5, FinishOne DEF SampleFault
  <2> QED
    BY <1>2, <2>1 DEF Service!Fail, Service!Id
<1>6. ASSUME NEW t \in Token, NEW keep_going \in BOOLEAN, SampleToken(i, t, keep_going)
      PROVE  Service!Emit(i, t)
  <2> DEFINE r == [Advanced(req[i]) EXCEPT !.history = Append(@, t), !.emitted = @ + 1]
  <2>1. req' = [req EXCEPT ![i] = r]
    BY <1>6 DEF SampleToken
  <2>2. /\ r.history = Append(req[i].history, t) /\ r.prompt_len = req[i].prompt_len
        /\ req[i].history \in Seq(Token) /\ Len(req[i].history) \in Nat
        /\ req[i].prompt_len \in 0 .. Len(req[i].history)
    <3>1. Advanced(req[i]) \in Request
      BY <1>1, SamplingFacts
    <3>2. req[i].prompt_len \in 1 .. Len(req[i].history) /\ req[i].history \in Seq(Token)
      BY <1>2 DEF SchedulerInv, Bookkeeping, Request
    <3>3. r.history = Append(req[i].history, t) /\ r.prompt_len = req[i].prompt_len
      BY <1>2, <3>1 DEF Request
    <3> HIDE DEF r
    <3> QED
      BY <3>2, <3>3
  <2> HIDE DEF r
  <2>3. Len(r.history) = Len(req[i].history) + 1
    BY <2>2
  <2>4. SubSeq(r.history, r.prompt_len + 1, Len(r.history)) = Append(Output[i], t)
    BY <2>2, <2>3, SubSeqAppend DEF Output
  <2>5. Output' = [Output EXCEPT ![i] = Append(@, t)]
    BY <1>2, <2>1, <2>4 DEF Output
  <2>6. \E st \in {"running", "ok"} : Status' = [Status EXCEPT ![i] = st]
    <3>1. CASE Finish({i}, "ok")
      BY <1>2, <3>1, FinishOne
    <3>2. CASE UNCHANGED <<active, slot_used, kv, done>>
      <4>1. Status' = Status
        BY <1>2, <3>2 DEF Status, Queued
      <4>2. Status = [Status EXCEPT ![i] = "running"]
        BY <1>2 DEF Status
      <4> QED
        BY <4>1, <4>2
    <3> QED
      BY <1>6, <3>1, <3>2 DEF SampleToken
  <2> QED
    BY <1>2, <2>5, <2>6 DEF Service!Emit
<1> QED
  BY <1>4, <1>5, <1>6 DEF Sample

LEMMA NextRefines ==
  SchedulerInv /\ SchedulerInv' /\ [Next]_vars => [Service!Next]_(Service!vars)
<1> SUFFICES ASSUME SchedulerInv, SchedulerInv', [Next]_vars
             PROVE  [Service!Next]_(Service!vars)
  OBVIOUS
<1>0. Service!Id = Id /\ active \in SUBSET Id
  BY DEF Service!Id, SchedulerInv, TypeOK
<1>1. ASSUME NEW prompt \in Prompts, NEW m \in MaxTokens, submit(prompt, m)
      PROVE  Service!Next
  <2>1. next_id \in Id
    BY <1>1 DEF submit
  <2> QED
    BY <1>0, <1>1, <2>1, SubmitRefines DEF Service!Next
<1>2. CASE StepBegin \/ AdmitEnd \/ DecodeOk
  BY <1>2, Stutters DEF StepBegin, AdmitEnd, DecodeOk
<1>3. CASE AdmitPrefill \/ AdmitClone
  <2>1. PICK s, past, prefill : HasRoom /\ TakeSlot(Head(pending), s, past, prefill)
    BY <1>3 DEF AdmitPrefill, AdmitClone
  <2> QED
    BY <1>0, <2>1, TakeSlotRefines DEF Service!Next
<1>4. CASE DecodeFail
  BY <1>0, <1>4, DecodeFailRefines DEF Service!Next
<1>5. ASSUME NEW i \in Id, Sample(i) PROVE Service!Next
  <2>1. {i} \in SUBSET Id
    OBVIOUS
  <2> QED
    BY <1>0, <1>5, <2>1, SampleRefines DEF Service!Next
<1>6. CASE UNCHANGED vars
  BY <1>6, Stutters DEF vars
<1> QED
  BY <1>1, <1>2, <1>3, <1>4, <1>5, <1>6 DEF Next, Step

\* The scheduler, with its slots, batches, clones and KV cache, implements
\* the request life cycle its callers rely on.
THEOREM SchedulerImplementsService == Spec => ImplementsRequestService
<1>1. Init => Service!Init
  BY InitRefines
<1>2. SchedulerInv /\ SchedulerInv' /\ [Next]_vars => [Service!Next]_(Service!vars)
  BY NextRefines
<1> QED
  BY <1>1, <1>2, SchedulerInvariant, PTL DEF Spec, Service!Spec, ImplementsRequestService
============================================================================
