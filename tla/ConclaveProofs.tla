--------------------------- MODULE ConclaveProofs ---------------------------
(***************************************************************************)
(* The response cache and the early verdict of the conclave, for any set of *)
(* requests, any cache_key() on them and any conclave size.                 *)
(***************************************************************************)
EXTENDS Conclave, FiniteSetTheorems, TLAPS

\* What a greedy generation of k may have left in the archive.
Greedy(k, v) == v \in Text /\ cache_key[v.of] = k /\ ~v.sampled
\* What attempt i may hand in.
Own(i, v) == /\ v \in Text /\ cache_key[v.of] = cache_key[request]
             /\ v.of = request \/ (greedy /\ i = 0)
             /\ v.sampled = ~(greedy /\ i = 0)

\* The connection carries the one command attempt 0 waits for, or its reply.
WireInv ==
  \/ sent = <<>> /\ replies = <<>>
  \/ /\ phase = "run" /\ at[0] = "hit?"
     /\ \/ sent = <<Get(cache_key[request])>> /\ replies = <<>>
        \/ /\ sent = <<>>
           /\ \E r : replies = <<r>> /\ (r = Nil \/ Greedy(cache_key[request], r))
  \/ /\ phase = "run" /\ at[0] = "ok?"
     /\ \/ sent = <<Set(cache_key[request], out[0])>> /\ replies = <<>>
        \/ sent = <<>> /\ replies = <<Ok>>

ArchiveInv ==
  /\ DOMAIN archive = Key
  /\ \A k \in Key : archive[k] = Nil \/ Greedy(k, archive[k])
  /\ \A c \in late : c.op = "SET" /\ c.key \in Key /\ Greedy(c.key, c.value)

AttemptInv ==
  /\ DOMAIN at = Attempt /\ DOMAIN out = Attempt /\ DOMAIN outs = Attempt
  /\ request \in Request /\ cache_key[request] \in Key
  /\ n \in Sizes /\ greedy \in BOOLEAN
  /\ \A i \in Attempt :
       /\ at[i] \in {"get", "hit?", "set", "ok?"} => greedy /\ i = 0
       /\ at[i] \in {"set", "ok?"} => Greedy(cache_key[request], out[i])
       /\ at[i] = "deposit" => Own(i, out[i])
       /\ at[i] = "done" /\ i \notin errs => Own(i, outs[i])

CacheInv == WireInv /\ ArchiveInv /\ AttemptInv

-----------------------------------------------------------------------------
\* Attempt 0 always takes part.
LEMMA FirstAttempt == ASSUME n \in Sizes PROVE 0 \in Candidates /\ 0 \in Attempt
<1>1. n \in Nat \ {0}
  BY ConclaveAssumption
<1> QED
  BY <1>1 DEF Candidates, Attempt

\* What the cache may hold for the request is what attempt 0 would hand in.
LEMMA GreedyIsOwn ==
  ASSUME greedy \in BOOLEAN, greedy, NEW v, Greedy(cache_key[request], v)
  PROVE  Own(0, v)
<1>1. v.sampled \in BOOLEAN /\ ~v.sampled
  BY DEF Greedy, Text
<1>2. v.sampled = ~(greedy /\ 0 = 0)
  BY <1>1
<1> QED
  BY <1>2 DEF Greedy, Own

\* The connection is idle unless attempt 0 waits for a reply.
LEMMA WireIdle ==
  ASSUME CacheInv, phase # "run" \/ at[0] \notin {"hit?", "ok?"}
  PROVE  sent = <<>> /\ replies = <<>>
  BY DEF CacheInv, WireInv

\* An attempt that does not talk to the archive keeps the wire and the
\* archive as they are.
LEMMA OffTheWire ==
  ASSUME CacheInv, NEW i \in Attempt, NEW from, NEW to, Goto(i, from, to),
         from \notin {"hit?", "ok?"}, UNCHANGED <<client_vars, request, phase>>,
         \A j \in Attempt \ {i} : out'[j] = out[j]
  PROVE  WireInv' /\ ArchiveInv'
<1>1. ArchiveInv'
  BY DEF CacheInv, ArchiveInv, client_vars, Greedy
<1>2. CASE sent = <<>> /\ replies = <<>>
  BY <1>1, <1>2 DEF WireInv, client_vars
<1>3. CASE ~(sent = <<>> /\ replies = <<>>)
  <2>1. at[0] \in {"hit?", "ok?"} /\ 0 \in Attempt
    BY <1>3, WireIdle, FirstAttempt DEF CacheInv, AttemptInv
  <2>2. at'[0] = at[0] /\ out'[0] = out[0]
    BY <2>1 DEF Goto, CacheInv, AttemptInv
  <2>3. UNCHANGED <<sent, replies, request, phase>>
    BY DEF client_vars
  <2> QED
    BY <1>1, <2>2, <2>3 DEF CacheInv, WireInv, Greedy, Get, Set
<1> QED
  BY <1>2, <1>3

-----------------------------------------------------------------------------
(* The steps of an attempt                                                 *)

\* An attempt starts: only the greedy attempt 0 asks the archive first.
LEMMA StartInv ==
  ASSUME CacheInv, NEW i \in Attempt, StartAttempt(i)
  PROVE  CacheInv'
<1>1. WireInv' /\ ArchiveInv'
  BY OffTheWire DEF StartAttempt, call_vars
<1>2. AttemptInv'
  BY DEF StartAttempt, call_vars, vote_vars, CacheInv, AttemptInv, Goto,
         cacheable, Greedy, Own
<1> QED
  BY <1>1, <1>2 DEF CacheInv

\* A command goes out on an idle connection.
LEMMA SendInv ==
  ASSUME CacheInv, NEW i \in Attempt, SendCommand(i)
  PROVE  CacheInv'
<1>1. i = 0 /\ greedy /\ phase = "run" /\ at[0] \in {"get", "set"}
  BY DEF SendCommand, Goto, CacheInv, AttemptInv
<1>2. sent = <<>> /\ replies = <<>>
  BY <1>1, WireIdle
<1>3. AttemptInv'
  BY <1>1 DEF SendCommand, call_vars, vote_vars, CacheInv, AttemptInv, Goto,
              Greedy, Own
<1>4. ArchiveInv'
  BY DEF SendCommand, Send, CacheInv, ArchiveInv, Greedy
<1>5. WireInv'
  <2>1. CASE Goto(i, "get", "hit?") /\ Send(Get(cache_key[request]))
    <3>1. sent' = <<Get(cache_key[request])>> /\ replies' = <<>> /\ request' = request
      BY <1>2, <2>1 DEF Send, SendCommand, call_vars
    <3>2. phase' = "run" /\ at'[0] = "hit?"
      BY <1>1, <2>1 DEF Goto, SendCommand, call_vars, CacheInv, AttemptInv
    <3> QED
      BY <3>1, <3>2 DEF WireInv, Get
  <2>2. CASE Goto(i, "set", "ok?") /\ Send(Set(cache_key[request], out[i]))
    <3>1. sent' = <<Set(cache_key[request], out[0])>> /\ replies' = <<>>
      BY <1>1, <1>2, <2>2 DEF Send
    <3>2. phase' = "run" /\ at'[0] = "ok?" /\ UNCHANGED <<request, out>>
      BY <1>1, <2>2 DEF Goto, SendCommand, call_vars, CacheInv, AttemptInv
    <3> QED
      BY <3>1, <3>2 DEF WireInv, Set
  <2> QED
    BY <2>1, <2>2 DEF SendCommand
<1> QED
  BY <1>3, <1>4, <1>5 DEF CacheInv

\* Dropping the connection leaves at most a greedy SET on its way.
LEMMA DropInv ==
  ASSUME CacheInv, Drop
  PROVE  WireInv' /\ ArchiveInv'
<1>1. WireInv'
  BY DEF Drop, WireInv
<1>2. PICK keep \in SUBSET {sent[j] : j \in DOMAIN sent} :
        (\A c \in keep : c.op = "SET") /\ late' = late \cup keep
  BY DEF Drop
<1>3. \A c \in keep : c.key \in Key /\ Greedy(c.key, c.value)
  <2>1. CASE sent = <<>>
    BY <1>2, <2>1
  <2>2. CASE sent = <<Get(cache_key[request])>>
    BY <1>2, <2>2 DEF Get
  <2>3. CASE sent = <<Set(cache_key[request], out[0])>> /\ at[0] = "ok?"
    <3>1. \A c \in keep : c = Set(cache_key[request], out[0])
      BY <1>2, <2>3
    <3>2. Greedy(cache_key[request], out[0]) /\ cache_key[request] \in Key
      BY <2>3, FirstAttempt DEF CacheInv, AttemptInv
    <3> QED
      BY <3>1, <3>2 DEF Set
  <2> QED
    BY <2>1, <2>2, <2>3 DEF CacheInv, WireInv
<1>4. ArchiveInv'
  BY <1>2, <1>3 DEF Drop, CacheInv, ArchiveInv, Greedy
<1> QED
  BY <1>1, <1>4

\* A failed send or read drops the connection, and the attempt goes on alone.
LEMMA FailInv ==
  ASSUME CacheInv, NEW i \in Attempt, SendFails(i) \/ ReadFails(i)
  PROVE  CacheInv'
<1>1. WireInv' /\ ArchiveInv'
  BY DropInv DEF SendFails, ReadFails
<1>2. i = 0 /\ greedy /\ (at[0] \in {"set", "ok?"} => Own(0, out[0]))
  BY GreedyIsOwn DEF SendFails, ReadFails, Goto, CacheInv, AttemptInv
<1>3. AttemptInv'
  BY <1>2, ZenonT(30) DEF SendFails, ReadFails, call_vars, vote_vars, CacheInv, AttemptInv,
              Goto, Greedy, Own
<1> QED
  BY <1>1, <1>3 DEF CacheInv

\* The reply read is the one to the command attempt 0 sent.
LEMMA ReadInv ==
  ASSUME CacheInv, NEW i \in Attempt, ReadReply(i)
  PROVE  CacheInv'
<1>1. i = 0 /\ greedy /\ phase = "run" /\ at[0] \in {"hit?", "ok?"}
  BY DEF ReadReply, Goto, CacheInv, AttemptInv
<1>2. PICK r : sent = <<>> /\ replies = <<r>> /\
               (at[0] = "hit?" => r = Nil \/ Greedy(cache_key[request], r))
  BY <1>1 DEF ReadReply, TakeReply, CacheInv, WireInv
<1>3. Head(replies) = r /\ replies' = <<>> /\ sent' = <<>>
  BY <1>2 DEF ReadReply, TakeReply
<1>4. WireInv' /\ ArchiveInv'
  BY <1>3 DEF WireInv, ReadReply, TakeReply, CacheInv, ArchiveInv, Greedy
<1>5. AttemptInv'
  <2>1. CASE Goto(i, "ok?", "deposit") /\ UNCHANGED out
    <3>1. Own(0, out[0])
      BY <1>1, <2>1, GreedyIsOwn DEF Goto, CacheInv, AttemptInv
    <3> QED
      BY <1>1, <2>1, <3>1
      DEF ReadReply, call_vars, vote_vars, CacheInv, AttemptInv, Goto, Greedy, Own
  <2>2. CASE at[i] = "hit?" /\ r = Nil
    <3>1. Goto(i, "hit?", "generate") /\ out' = [out EXCEPT ![i] = Empty]
      BY <1>3, <2>2 DEF ReadReply, Goto
    <3> QED
      BY <1>1, <3>1
      DEF ReadReply, call_vars, vote_vars, CacheInv, AttemptInv, Goto, Greedy, Own
  <2>3. CASE at[i] = "hit?" /\ r # Nil
    <3>1. Greedy(cache_key[request], r) /\ r # Ok
      BY <1>1, <1>2, <2>3, ConclaveAssumption DEF Greedy
    <3>2. Goto(i, "hit?", "deposit") /\ out' = [out EXCEPT ![i] = r]
      BY <1>3, <2>3, <3>1 DEF ReadReply, Goto
    <3>3. Own(0, r)
      BY <1>1, <3>1, GreedyIsOwn DEF CacheInv, AttemptInv
    <3> QED
      BY <1>1, <3>2, <3>3
      DEF ReadReply, call_vars, vote_vars, CacheInv, AttemptInv, Goto, Greedy, Own
  <2> QED
    BY <1>1, <2>1, <2>2, <2>3 DEF ReadReply, Goto
<1> QED
  BY <1>4, <1>5 DEF CacheInv

\* A generation gives a text of its own request and temperature.
LEMMA GenerateInv ==
  ASSUME CacheInv, NEW i \in Attempt, Generate(i)
  PROVE  CacheInv'
<1>1. PICK t : out' = [out EXCEPT ![i] = t] /\ Own(i, t)
  BY DEF Generate, Generated, Own
<1>3. WireInv' /\ ArchiveInv'
  BY <1>1, OffTheWire DEF Generate, call_vars, CacheInv, AttemptInv
<1>4. AttemptInv'
  BY <1>1
  DEF Generate, call_vars, vote_vars, CacheInv, AttemptInv, Goto, cacheable,
      Greedy, Own
<1> QED
  BY <1>3, <1>4 DEF CacheInv

\* An attempt that throws hands in nothing.
LEMMA ThrowInv ==
  ASSUME CacheInv, NEW i \in Attempt, GenerateThrows(i)
  PROVE  CacheInv'
<1>1. WireInv' /\ ArchiveInv'
  BY OffTheWire DEF GenerateThrows, call_vars
<1>2. AttemptInv'
  BY DEF GenerateThrows, call_vars, vote_vars, CacheInv, AttemptInv, Goto, Greedy,
         Own
<1> QED
  BY <1>1, <1>2 DEF CacheInv

\* Handing a text in keeps whose it is.
LEMMA DepositInv ==
  ASSUME CacheInv, NEW i \in Attempt, Deposit(i)
  PROVE  CacheInv'
<1>1. WireInv' /\ ArchiveInv'
  BY OffTheWire DEF Deposit, call_vars, CacheInv, AttemptInv
<1>2. AttemptInv'
  BY DEF Deposit, call_vars, CacheInv, AttemptInv, Goto, Greedy, Own
<1> QED
  BY <1>1, <1>2 DEF CacheInv

-----------------------------------------------------------------------------
(* The archive, the election, the next call                                *)

\* The archive answers the command it got, runs a late SET, or forgets.
LEMMA ArchiveStepInv ==
  ASSUME CacheInv, Archive
  PROVE  CacheInv'
<1>1. AttemptInv' /\ UNCHANGED <<phase, request, at, out>>
  BY DEF Archive, call_vars, vote_vars, CacheInv, AttemptInv, Greedy, Own
<1>2. CASE Dispatch
  <2>1. CASE sent = <<Get(cache_key[request])>> /\ replies = <<>> /\ phase = "run" /\ at[0] = "hit?"
    <3>1. /\ Head(sent) = Get(cache_key[request]) /\ Get(cache_key[request]).op = "GET"
          /\ Get(cache_key[request]).key = cache_key[request]
      BY <2>1 DEF Get
    <3>2. sent' = <<>> /\ replies' = <<archive[cache_key[request]]>> /\ UNCHANGED <<archive, late>>
      BY <1>2, <2>1, <3>1 DEF Dispatch
    <3>3. archive[cache_key[request]] = Nil \/ Greedy(cache_key[request], archive[cache_key[request]])
      BY DEF CacheInv, ArchiveInv, AttemptInv
    <3>4. WireInv'
      BY <1>1, <2>1, <3>2, <3>3 DEF WireInv, Greedy
    <3> QED
      BY <1>1, <3>2, <3>4 DEF CacheInv, ArchiveInv, Greedy
  <2>2. CASE /\ sent = <<Set(cache_key[request], out[0])>> /\ replies = <<>>
             /\ phase = "run" /\ at[0] = "ok?"
    <3>1. /\ Head(sent) = Set(cache_key[request], out[0]) /\ Set(cache_key[request], out[0]).op = "SET"
          /\ Set(cache_key[request], out[0]).key = cache_key[request]
          /\ Set(cache_key[request], out[0]).value = out[0]
      BY <2>2 DEF Set
    <3>2. /\ sent' = <<>> /\ replies' = <<Ok>> /\ UNCHANGED late
          /\ \/ archive' = [archive EXCEPT ![cache_key[request]] = out[0]]
             \/ UNCHANGED archive
      BY <1>2, <2>2, <3>1 DEF Dispatch
    <3>3. Greedy(cache_key[request], out[0])
      BY <2>2, FirstAttempt DEF CacheInv, AttemptInv
    <3>4. WireInv'
      BY <1>1, <2>2, <3>2 DEF WireInv
    <3>5. ArchiveInv'
      BY <3>2, <3>3 DEF CacheInv, ArchiveInv, Greedy
    <3> QED
      BY <1>1, <3>4, <3>5 DEF CacheInv
  <2>3. sent # <<>>
    BY <1>2 DEF Dispatch
  <2> QED
    BY <2>1, <2>2, <2>3 DEF CacheInv, WireInv
<1>3. CASE DispatchLate \/ Forget
  <2>1. WireInv'
    BY <1>1, <1>3 DEF DispatchLate, Forget, CacheInv, WireInv, Greedy, Get, Set
  <2>2. ArchiveInv'
    BY <1>3 DEF DispatchLate, Forget, CacheInv, ArchiveInv, Greedy
  <2> QED
    BY <1>1, <2>1, <2>2 DEF CacheInv
<1> QED
  BY <1>2, <1>3 DEF Archive, ArchiveStep

\* When the call ends, and when the next one begins, no command is
\* outstanding.
LEMMA CallInv ==
  ASSUME CacheInv, Call \/ Elect
  PROVE  CacheInv'
<1>1. sent = <<>> /\ replies = <<>> /\ UNCHANGED client_vars
  <2>1. CASE Call
    BY <2>1, WireIdle DEF Call
  <2>2. CASE Elect
    <3>1. at[0] \in {"wait", "done"}
      BY <2>2, FirstAttempt DEF Elect, AllEnded, CacheInv, AttemptInv
    <3> QED
      BY <2>2, <3>1, WireIdle DEF Elect
  <2> QED
    BY <2>1, <2>2
<1>2. WireInv' /\ ArchiveInv'
  BY <1>1 DEF client_vars, WireInv, CacheInv, ArchiveInv, Greedy
<1>3. AttemptInv'
  <2>1. CASE Call
    BY <2>1, ConclaveAssumption DEF Call, AttemptInv
  <2>2. CASE Elect
    BY <2>2 DEF Elect, CacheInv, AttemptInv, Greedy, Own
  <2> QED
    BY <2>1, <2>2
<1> QED
  BY <1>2, <1>3 DEF CacheInv

\* The invariant of the response cache holds in every behaviour.
LEMMA CacheInvariant == Spec => []CacheInv
<1>1. Init => CacheInv
  BY ConclaveAssumption DEF Init, ClientInit, CacheInv, WireInv, ArchiveInv, AttemptInv
<1>2. CacheInv /\ [Next]_vars => CacheInv'
  <2> SUFFICES ASSUME CacheInv, [Next]_vars PROVE CacheInv'
    OBVIOUS
  <2>1. CASE UNCHANGED vars
    BY <2>1 DEF vars, client_vars, call_vars, vote_vars, CacheInv, WireInv,
                ArchiveInv, AttemptInv, Greedy, Own, Get, Set
  <2>2. CASE Next
    BY <2>2, StartInv, SendInv, FailInv, ReadInv, GenerateInv, ThrowInv,
       DepositInv, ArchiveStepInv, CallInv
    DEF Next, AttemptStep
  <2> QED
    BY <2>1, <2>2
<1> QED
  BY <1>1, <1>2, PTL DEF Spec

\* The transparent cache (engine.cpp) over ArcaClient (client.cpp) replays
\* only greedy answers generated under the same key, and no sampled attempt
\* gets a text of another request, however the archive delays, drops or
\* reorders what it was sent, for any requests, any keys they share and any
\* conclave size.  Calls of the engine follow one another.
THEOREM CacheIsExact == Spec => []CachedAnswersExact
<1>1. CacheInv => CachedAnswersExact
  BY DEF CacheInv, ArchiveInv, AttemptInv, CachedAnswersExact, Greedy, Own, Text, cacheable
<1> QED
  BY <1>1, CacheInvariant, PTL

-----------------------------------------------------------------------------
(* The early verdict                                                       *)

Holding(o, m, x) == {i \in 0..(m - 1) : o[i].num = x}

\* Every vote in the tally is held by a candidate that has handed in, and
\* nobody hands in twice.
VoteInv ==
  /\ DOMAIN tally = Number
  /\ \A x \in Number : tally[x] \in Nat /\ tally[x] <= Cardinality(Holding(outs, n, x))
  /\ \A i \in Attempt : at[i] # "done" => outs[i].num = NoNumber
  /\ \A i \in Attempt : at[i] # "wait" => i \in Candidates
  /\ stop \in BOOLEAN
  /\ stop <=> winner # None
  /\ stop => /\ winner \in Candidates
             /\ outs[winner].num \in Number
             /\ Cardinality(Holding(outs, n, outs[winner].num)) * 2 > n
             /\ phase = "returned" => elected = winner

\* The candidates are finitely many attempts, so votes can be counted.
LEMMA HoldingFinite ==
  ASSUME n \in Sizes
  PROVE  /\ Candidates \subseteq Attempt /\ n \in Nat \ {0}
         /\ \A S \in SUBSET Candidates : IsFiniteSet(S) /\ Cardinality(S) \in Nat
<1>1. n \in Nat \ {0}
  BY ConclaveAssumption
<1>2. IsFiniteSet(Candidates)
  BY <1>1, FS_Interval DEF Candidates
<1> QED
  BY <1>1, <1>2, FS_Subset, FS_CardinalityType DEF Candidates, Attempt

\* A step that leaves the votes alone and takes nobody out of "done" keeps the
\* verdict.
LEMMA VoteQuiet ==
  ASSUME VoteInv, AttemptInv, NEW i \in Attempt, NEW from, NEW to,
         Goto(i, from, to), from # "done", from # "wait" \/ i \in Candidates,
         UNCHANGED <<vote_vars, phase, n>>
  PROVE  VoteInv'
<1>1. Candidates' = Candidates /\ UNCHANGED <<outs, n>>
  BY DEF Candidates, vote_vars
<1>2. \A j \in Attempt : at'[j] # "done" => outs'[j].num = NoNumber
  BY DEF VoteInv, AttemptInv, Goto, vote_vars
<1>3. \A j \in Attempt : at'[j] # "wait" => j \in Candidates'
  BY <1>1 DEF VoteInv, AttemptInv, Goto
<1> QED
  BY <1>1, <1>2, <1>3 DEF VoteInv, vote_vars

\* A candidate hands in: its number has one holder more, and only a number
\* held by more than half decides.
LEMMA DepositVote ==
  ASSUME VoteInv, CacheInv, NEW i \in Attempt, Deposit(i)
  PROVE  VoteInv'
<1> DEFINE x == out[i].num
<1>1. /\ DOMAIN at = Attempt /\ DOMAIN outs = Attempt /\ n \in Sizes
      /\ out[i] \in Text
  BY DEF CacheInv, AttemptInv, Deposit, Goto, Own
<1>2. /\ at[i] = "deposit" /\ at' = [at EXCEPT ![i] = "done"]
      /\ outs' = [outs EXCEPT ![i] = out[i]]
      /\ UNCHANGED <<n, phase, elected>> /\ phase = "run"
  BY DEF Deposit, Goto, call_vars
<1>3. i \in Candidates /\ outs[i].num = NoNumber /\ Candidates' = Candidates
  BY <1>2 DEF VoteInv, Candidates
<1>4. x \in Number \cup {NoNumber}
  BY <1>1 DEF Text
<1>5. \A y \in Number : Holding(outs', n', y) = IF y = x THEN Holding(outs, n, y) \cup {i} ELSE Holding(outs, n, y)
  BY <1>1, <1>2, <1>3, HoldingFinite, ConclaveAssumption DEF Holding, Candidates
<1>6. \A y \in Number : Cardinality(Holding(outs, n, y)) \in Nat /\ i \notin Holding(outs, n, y)
  BY <1>1, <1>3, HoldingFinite, ConclaveAssumption DEF Holding, Candidates
<1>7. \A y \in Number : Cardinality(Holding(outs', n', y)) =
                         IF y = x THEN Cardinality(Holding(outs, n, y)) + 1
                         ELSE Cardinality(Holding(outs, n, y))
  <2> SUFFICES ASSUME NEW y \in Number
               PROVE  Cardinality(Holding(outs', n', y)) = IF y = x THEN Cardinality(Holding(outs, n, y)) + 1
                                                 ELSE Cardinality(Holding(outs, n, y))
    OBVIOUS
  <2>1. IsFiniteSet(Holding(outs, n, y))
    BY <1>1, HoldingFinite DEF Holding, Candidates
  <2> QED
    BY <1>5, <1>6, <2>1, FS_AddElement, ZenonT(30)
<1>8. /\ \A j \in Attempt : at'[j] # "done" => outs'[j].num = NoNumber
      /\ \A j \in Attempt : at'[j] # "wait" => j \in Candidates'
  BY <1>1, <1>2, <1>3 DEF VoteInv
<1>9. CASE stop \/ x = NoNumber \/ n = 1
  <2>1. UNCHANGED <<tally, stop, winner>>
    BY <1>9 DEF Deposit, final_number
  <2>2. \A y \in Number : tally'[y] \in Nat /\ tally'[y] <= Cardinality(Holding(outs', n', y))
    BY <1>6, <1>7, <2>1 DEF VoteInv
  <2>3. stop => /\ outs'[winner] = outs[winner] /\ outs[winner].num \in Number
                /\ Cardinality(Holding(outs', n', outs[winner].num)) * 2 > n
    <3> SUFFICES ASSUME stop
                 PROVE  /\ outs'[winner] = outs[winner] /\ outs[winner].num \in Number
                        /\ Cardinality(Holding(outs', n', outs[winner].num)) * 2 > n
      OBVIOUS
    <3>1. outs[winner].num \in Number /\ winner \in Attempt /\ winner # i
      BY <1>1, <1>3, HoldingFinite, ConclaveAssumption DEF VoteInv
    <3>2. outs'[winner] = outs[winner]
      BY <1>1, <1>2, <3>1
    <3>3. PICK y \in Number : y = outs[winner].num
      BY <3>1
    <3>4. Cardinality(Holding(outs, n, y)) * 2 > n
      BY <3>3 DEF VoteInv
    <3>5. Cardinality(Holding(outs', n', y)) >= Cardinality(Holding(outs, n, y))
      BY <1>6, <1>7
    <3>6. Cardinality(Holding(outs', n', y)) * 2 > n
      BY <1>1, <1>6, <1>7, <3>4, <3>5, HoldingFinite
    <3> QED
      BY <3>1, <3>2, <3>3, <3>6
  <2> QED
    BY <1>2, <1>3, <1>8, <2>1, <2>2, <2>3 DEF VoteInv
<1>10. CASE ~(stop \/ x = NoNumber \/ n = 1)
  <2>1. x \in Number /\ ~stop
    BY <1>4, <1>10
  <2>2. /\ tally' = [tally EXCEPT ![x] = @ + 1]
        /\ IF Majority(tally[x] + 1) THEN winner' = i /\ stop' = TRUE
           ELSE UNCHANGED <<winner, stop>>
    BY <1>10 DEF Deposit, final_number
  <2>3. \A y \in Number : tally'[y] = IF y = x THEN tally[y] + 1 ELSE tally[y]
    BY <2>1, <2>2 DEF VoteInv
  <2>4. \A y \in Number : /\ tally'[y] \in Nat
                          /\ tally'[y] <= Cardinality(Holding(outs', n', y))
    BY <1>6, <1>7, <2>3 DEF VoteInv
  <2>5. DOMAIN tally' = Number
    BY <2>2 DEF VoteInv
  <2>6. CASE Majority(tally[x] + 1)
    <3>1. winner' = i /\ stop' = TRUE
      BY <2>2, <2>6
    <3>2. tally'[x] * 2 > n
      BY <2>1, <2>3, <2>6 DEF Majority
    <3>3. Cardinality(Holding(outs', n', x)) \in Nat
      BY <1>6, <1>7, <2>1
    <3>4. Cardinality(Holding(outs', n', x)) * 2 > n
      BY <1>1, <2>1, <2>4, <3>2, <3>3, HoldingFinite
    <3>5. outs'[i].num = x
      BY <1>1, <1>2
    <3>6. i # None
      BY <1>1, <1>3, HoldingFinite DEF Candidates, None
    <3> QED
      BY <1>2, <1>3, <1>8, <2>1, <2>4, <2>5, <3>1, <3>4, <3>5, <3>6 DEF VoteInv
  <2>7. CASE ~Majority(tally[x] + 1)
    BY <1>2, <1>3, <1>8, <2>1, <2>2, <2>4, <2>5, <2>7 DEF VoteInv
  <2> QED
    BY <2>6, <2>7
<1> QED
  BY <1>9, <1>10

\* The election returns the early winner if there is one; a new call starts
\* with an empty tally.
LEMMA CallVote ==
  ASSUME VoteInv, AttemptInv, Call \/ Elect
  PROVE  VoteInv'
<1>1. CASE Call
  <2>1. n' \in Sizes /\ n' \in Nat
    BY <1>1, ConclaveAssumption DEF Call
  <2>2. \A x : Cardinality(Holding(outs', n', x)) \in Nat
    <3> SUFFICES ASSUME NEW x PROVE Cardinality(Holding(outs', n', x)) \in Nat
      OBVIOUS
    <3>1. IsFiniteSet(0..(n' - 1))
      BY <2>1, FS_Interval
    <3> QED
      BY <3>1, FS_Subset, FS_CardinalityType DEF Holding
  <2>3. \A x \in Number : /\ tally'[x] \in Nat
                          /\ tally'[x] <= Cardinality(Holding(outs', n', x))
    BY <1>1, <2>2 DEF Call
  <2>4. \A i \in Attempt : outs'[i].num = NoNumber /\ at'[i] = "wait"
    BY <1>1 DEF Call, Empty
  <2>5. DOMAIN tally' = Number /\ stop' = FALSE /\ winner' = None
    BY <1>1 DEF Call
  <2> QED
    BY <2>3, <2>4, <2>5 DEF VoteInv
<1>2. CASE Elect
  BY <1>2 DEF Elect, VoteInv, Candidates
<1> QED
  BY <1>1, <1>2

\* The invariant of the tally holds in every behaviour.
LEMMA VoteInvariant == Spec => []VoteInv
<1>1. Init => VoteInv
  <2> SUFFICES ASSUME Init PROVE VoteInv
    OBVIOUS
  <2>1. \A x : Cardinality(Holding(outs, n, x)) \in Nat
    BY HoldingFinite DEF Init, Holding, Candidates
  <2>2. \A x \in Number : tally[x] \in Nat /\ tally[x] <= Cardinality(Holding(outs, n, x))
    BY <2>1 DEF Init
  <2>3. \A i \in Attempt : outs[i].num = NoNumber /\ at[i] = "wait"
    BY DEF Init, Empty
  <2>4. DOMAIN tally = Number /\ stop = FALSE /\ winner = None
    BY DEF Init
  <2> QED
    BY <2>2, <2>3, <2>4 DEF VoteInv
<1>2. VoteInv /\ CacheInv /\ [Next]_vars => VoteInv'
  <2> SUFFICES ASSUME VoteInv, CacheInv, [Next]_vars PROVE VoteInv'
    OBVIOUS
  <2>0. AttemptInv
    BY DEF CacheInv
  <2>1. CASE UNCHANGED <<vote_vars, at, phase, n>>
    BY <2>1 DEF vote_vars, VoteInv, Candidates
  <2>2. CASE Call \/ Elect
    BY <2>0, <2>2, CallVote
  <2>3. ASSUME NEW i \in Attempt, Deposit(i)
        PROVE  VoteInv'
    BY <2>3, DepositVote
  <2>4. ASSUME NEW i \in Attempt, StartAttempt(i)
        PROVE  VoteInv'
    <3>1. \E to : Goto(i, "wait", to)
      BY <2>4 DEF StartAttempt
    <3>2. i \in Candidates /\ UNCHANGED <<vote_vars, phase, n>>
      BY <2>4 DEF StartAttempt, call_vars
    <3> QED
      BY <2>0, <3>1, <3>2, VoteQuiet
  <2>5. ASSUME NEW i \in Attempt,
               \/ SendCommand(i) \/ SendFails(i) \/ ReadReply(i)
               \/ ReadFails(i) \/ Generate(i) \/ GenerateThrows(i)
        PROVE  VoteInv'
    <3>1. \E from \in {"get", "set", "hit?", "ok?", "generate"} : \E to : Goto(i, from, to)
      <4>1. CASE SendCommand(i) \/ SendFails(i) \/ ReadFails(i)
        BY <4>1 DEF SendCommand, SendFails, ReadFails
      <4>2. CASE ReadReply(i)
        BY <4>2 DEF ReadReply
      <4>3. CASE Generate(i) \/ GenerateThrows(i)
        BY <4>3 DEF Generate, GenerateThrows
      <4> QED
        BY <2>5, <4>1, <4>2, <4>3
    <3>2. UNCHANGED <<vote_vars, phase, n>>
      BY <2>5 DEF SendCommand, SendFails, ReadReply, ReadFails, Generate,
                  GenerateThrows, call_vars
    <3> QED
      BY <2>0, <3>1, <3>2, VoteQuiet
  <2> QED
    BY <2>1, <2>2, <2>3, <2>4, <2>5
    DEF Next, vars, call_vars, AttemptStep, Archive
<1> QED
  BY <1>1, <1>2, CacheInvariant, PTL DEF Spec

\* The early verdict of generate_best() (engine.cpp) cannot be overturned by
\* the candidates still running, for any conclave size and any interleaving.
THEOREM EarlyVerdictStands == Spec => []EarlyWinnerIsFinal
<1>1. VoteInv => EarlyWinnerIsFinal
  BY ConclaveAssumption
  DEF VoteInv, EarlyWinnerIsFinal, final_number, Sharing, Holding, Candidates
<1> QED
  BY <1>1, VoteInvariant, PTL

-----------------------------------------------------------------------------
(* The types                                                               *)

\* What ConclaveTypeOK says beyond the two invariants above.
ShapeInv ==
  /\ IsFiniteSet(late) /\ Cardinality(late) <= MaxLate
  /\ archive \in [Key -> Text \cup {Nil}]
  /\ outs \in [Attempt -> Text \cup {Empty}]
  /\ tally \in [Number -> Nat]
  /\ votes \in 1..n

\* A dropped connection leaves at most its one command behind, within MaxLate.
LEMMA DropShape ==
  ASSUME ShapeInv, WireInv, Drop, UNCHANGED <<outs, tally, votes, n>>
  PROVE  ShapeInv'
<1>1. PICK keep \in SUBSET {sent[j] : j \in DOMAIN sent} :
        late' = late \cup keep /\ Cardinality(late \cup keep) <= MaxLate
  BY DEF Drop
<1>2. sent = <<>> \/ \E c : sent = <<c>>
  BY DEF WireInv
<1>3. \E c : keep \subseteq {c}
  <2>1. CASE sent = <<>>
    BY <2>1
  <2>2. ASSUME NEW c, sent = <<c>> PROVE keep \subseteq {c}
    BY <2>2
  <2> QED
    BY <1>2, <2>1, <2>2
<1>4. IsFiniteSet(keep)
  BY <1>3, FS_Singleton, FS_Subset
<1>5. IsFiniteSet(late')
  BY <1>1, <1>4, FS_Union DEF ShapeInv
<1>6. archive' = archive
  BY DEF Drop
<1> QED
  BY <1>1, <1>5, <1>6 DEF ShapeInv

\* The archive stores texts and forgets them, and runs late commands once.
LEMMA ArchiveShape ==
  ASSUME ShapeInv, CacheInv, Archive
  PROVE  ShapeInv'
<1>1. UNCHANGED <<outs, tally, votes, n>>
  BY DEF Archive, vote_vars, call_vars
<1>2. ArchiveInv'
  BY ArchiveStepInv DEF CacheInv
<1>3. \A k \in Key : archive'[k] \in Text \cup {Nil}
  BY <1>2 DEF ArchiveInv, Greedy
<1>4. /\ \/ archive' = archive
         \/ \E k, v : archive' = [archive EXCEPT ![k] = v]
      /\ late' = late \/ \E c \in late : late' = late \ {c}
  BY DEF Archive, ArchiveStep, Dispatch, DispatchLate, Forget
<1>5. archive' \in [Key -> Text \cup {Nil}]
  BY <1>3, <1>4 DEF ShapeInv
<1>6. IsFiniteSet(late') /\ Cardinality(late') <= MaxLate
  <2>1. CASE late' = late
    BY <2>1 DEF ShapeInv
  <2>2. ASSUME NEW c \in late, late' = late \ {c}
        PROVE  IsFiniteSet(late') /\ Cardinality(late') <= MaxLate
    <3>1. /\ IsFiniteSet(late') /\ Cardinality(late') = Cardinality(late) - 1
          /\ Cardinality(late) \in Nat
      BY <2>2, FS_RemoveElement, FS_CardinalityType DEF ShapeInv
    <3> QED
      BY <3>1, ConclaveAssumption DEF ShapeInv
  <2> QED
    BY <1>4, <2>1, <2>2
<1> QED
  BY <1>1, <1>5, <1>6 DEF ShapeInv

\* What is handed in is a text, and a vote counts one.
LEMMA DepositShape ==
  ASSUME ShapeInv, CacheInv, NEW i \in Attempt, Deposit(i)
  PROVE  ShapeInv'
<1>1. out[i] \in Text
  BY DEF CacheInv, AttemptInv, Deposit, Goto, Own
<1>2. outs' = [outs EXCEPT ![i] = out[i]]
      /\ UNCHANGED <<late, archive, votes, n>>
  BY DEF Deposit, client_vars, call_vars
<1>3. tally' = tally \/ \E x : tally' = [tally EXCEPT ![x] = @ + 1]
  BY DEF Deposit
<1>4. tally' \in [Number -> Nat]
  BY <1>3 DEF ShapeInv
<1> QED
  BY <1>1, <1>2, <1>4 DEF ShapeInv

\* Whoever is elected is a candidate, and the consensus reported counts at
\* least its own text and at most all of them.
LEMMA ElectShape ==
  ASSUME ShapeInv, CacheInv, VoteInv, Elect
  PROVE  ShapeInv'
<1>1. n \in Sizes /\ UNCHANGED <<late, archive, outs, tally, n>>
  BY DEF Elect, CacheInv, AttemptInv, client_vars
<1>2. 1 \in 1..n
  BY <1>1, HoldingFinite
<1>3. CASE votes' = votes \/ votes' = 1
  BY <1>1, <1>2, <1>3 DEF ShapeInv
<1>4. CASE ~(votes' = votes \/ votes' = 1)
  <2>1. elected' \in IF winner # None THEN {winner} ELSE elect_numeric
    BY <1>4 DEF Elect
  <2>2. elect_numeric \subseteq Candidates
    BY <1>1, FirstAttempt DEF elect_numeric, elect, Numeric
  <2>3. elected' \in Candidates
    BY <2>1, <2>2 DEF VoteInv
  <2>4. votes' = Cardinality(Sharing(elected'))
    BY <1>4 DEF Elect, votes_for
  <2>5. Sharing(elected') \in SUBSET Candidates /\ elected' \in Sharing(elected')
    BY <2>3 DEF Sharing
  <2>6. IsFiniteSet(Candidates) /\ Cardinality(Candidates) = n
    BY <1>1, HoldingFinite, FS_Interval, SMTT(20) DEF Candidates
  <2>7. /\ IsFiniteSet(Sharing(elected')) /\ Cardinality(Sharing(elected')) \in Nat
        /\ Cardinality(Sharing(elected')) <= n
    BY <2>5, <2>6, FS_Subset, FS_CardinalityType
  <2>8. Cardinality(Sharing(elected')) # 0
    BY <2>5, <2>7, FS_EmptySet
  <2> QED
    BY <1>1, <2>4, <2>7, <2>8, HoldingFinite DEF ShapeInv
<1> QED
  BY <1>3, <1>4

\* Every step keeps the types.
LEMMA ShapeStep ==
  ASSUME ShapeInv, CacheInv, VoteInv, [Next]_vars
  PROVE  ShapeInv'
<1>1. CASE UNCHANGED <<late, archive, outs, tally, votes, n>>
  BY <1>1 DEF ShapeInv
<1>2. CASE Call
  <2>1. 1 \in 1..n'
    BY <1>2, ConclaveAssumption DEF Call
  <2> QED
    BY <1>2, <2>1 DEF Call, client_vars, ShapeInv
<1>3. CASE Elect
  BY <1>3, ElectShape
<1>4. CASE Archive
  BY <1>4, ArchiveShape
<1>5. CASE \E i \in Attempt : Deposit(i)
  BY <1>5, DepositShape
<1>6. CASE \E i \in Attempt : SendFails(i) \/ ReadFails(i)
  BY <1>6, DropShape DEF SendFails, ReadFails, vote_vars, call_vars, CacheInv
<1>7. CASE \E i \in Attempt : \/ StartAttempt(i) \/ SendCommand(i) \/ ReadReply(i)
                             \/ Generate(i) \/ GenerateThrows(i)
  BY <1>1, <1>7 DEF StartAttempt, SendCommand, Send, ReadReply, TakeReply, Generate,
                    GenerateThrows, vote_vars, call_vars, client_vars
<1>8. CASE UNCHANGED vars
  BY <1>1, <1>8 DEF vars, client_vars, call_vars, vote_vars
<1> QED
  BY <1>2, <1>3, <1>4, <1>5, <1>6, <1>7, <1>8 DEF Next, AttemptStep

\* The conclave's types, for any requests, numbers and conclave sizes: one
\* command outstanding at a time, no number with more votes than candidates,
\* and a reported consensus (engine.cpp, conclave.cpp) between 1 and n.
THEOREM ConclaveTypes == Spec => []ConclaveTypeOK
<1>1. Init => ShapeInv
  <2> SUFFICES ASSUME Init PROVE ShapeInv
    OBVIOUS
  <2>1. IsFiniteSet(late) /\ Cardinality(late) <= MaxLate
    BY FS_EmptySet, ConclaveAssumption DEF Init, ClientInit
  <2>2. votes \in 1..n
    BY ConclaveAssumption DEF Init
  <2> QED
    BY <2>1, <2>2 DEF Init, ClientInit, ShapeInv
<1>2. ShapeInv /\ CacheInv /\ VoteInv /\ [Next]_vars => ShapeInv'
  BY ShapeStep
<1>3. ShapeInv /\ CacheInv /\ VoteInv => ConclaveTypeOK
  <2> SUFFICES ASSUME ShapeInv, CacheInv, VoteInv PROVE ConclaveTypeOK
    OBVIOUS
  <2>1. OneOutstanding
    <3>1. \/ sent = <<>> /\ replies = <<>>
          \/ \E c : sent = <<c>> /\ replies = <<>>
          \/ \E r : sent = <<>> /\ replies = <<r>>
      BY DEF CacheInv, WireInv
    <3>2. CASE sent = <<>> /\ replies = <<>>
      BY <3>2 DEF OneOutstanding
    <3>3. ASSUME NEW c, sent = <<c>>, replies = <<>> PROVE OneOutstanding
      BY <3>3 DEF OneOutstanding
    <3>4. ASSUME NEW r, sent = <<>>, replies = <<r>> PROVE OneOutstanding
      BY <3>4 DEF OneOutstanding
    <3> QED
      BY <3>1, <3>2, <3>3, <3>4
  <2>2. winner \in {None} \cup Candidates
    BY DEF VoteInv
  <2>3. n \in Sizes
    BY DEF CacheInv, AttemptInv
  <2>4. ASSUME NEW x \in Number PROVE tally[x] \in 0..n
    <3>1. Holding(outs, n, x) \in SUBSET Candidates
      BY DEF Holding, Candidates
    <3>2. IsFiniteSet(Candidates) /\ Cardinality(Candidates) = n
      BY <2>3, HoldingFinite, FS_Interval, SMTT(20) DEF Candidates
    <3>3. /\ Cardinality(Holding(outs, n, x)) <= n
          /\ Cardinality(Holding(outs, n, x)) \in Nat
      BY <3>1, <3>2, FS_Subset, FS_CardinalityType
    <3> QED
      BY <2>3, <3>3, HoldingFinite DEF VoteInv
  <2> QED
    BY <2>1, <2>2, <2>4 DEF ShapeInv, ConclaveTypeOK
<1> QED
  BY <1>1, <1>2, <1>3, CacheInvariant, VoteInvariant, PTL DEF Spec
=============================================================================
