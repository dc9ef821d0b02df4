------------------------------ MODULE Conclave ------------------------------
(***************************************************************************)
(* ReameEngine::generate_best() and the transparent response cache of       *)
(* generate_stream() (src/core/engine.cpp), with the election of            *)
(* src/core/conclave.cpp.  A request is a prompt with its GenerationConfig; *)
(* an answer's text is abstracted to the request it was generated for, its  *)
(* final number, whether it was sampled and whether it is whole: a          *)
(* generation whose callback returned false is cut.  n = 1 is a plain call  *)
(* of generate_stream(), whose own caller may stop it at any token.         *)
(***************************************************************************)
EXTENDS ArcaClient

CONSTANTS
  Request,
  \* A hash of model, token budget and prompt: requests that differ in
  \* repeat_penalty or repeat_last_n only, or whose hashes collide, share a key.
  cache_key,
  Number, NoNumber,
  GreedyNumber,     \* Request -> final number of the greedy answer
  PrefixNumbers,    \* Request -> those its beginnings show
  Sizes             \* values of n (--best-of)

Text == [of : Request, num : Number \cup {NoNumber}, sampled : BOOLEAN,
         whole : BOOLEAN]

ASSUME ConclaveAssumption ==
  /\ NoNumber \notin Number /\ Nil # Ok /\ Ok \notin Text
  /\ cache_key \in [Request -> Key]
  /\ GreedyNumber \in [Request -> Number \cup {NoNumber}]
  /\ PrefixNumbers \in [Request -> (SUBSET (Number \cup {NoNumber})) \ {{}}]
  /\ Sizes \subseteq Nat \ {0} /\ MaxLate \in Nat

Attempt == UNION {0..(n - 1) : n \in Sizes}
None == -1
Empty == [of |-> Nil, num |-> NoNumber, sampled |-> FALSE, whole |-> FALSE]

VARIABLES
  parallel,     \* the engine has a scheduler: attempts are threads
  request, n, greedy, \* the call: what it asks, --best-of, temperature <= 0
  phase,        \* "idle", "run", "returned" or "threw"
  at,           \* where each attempt is
  out,          \* the text each attempt has collected
  outs,         \* the texts deposited
  tally, stop, winner, errs,
  elected, votes

call_vars == <<parallel, request, n, greedy, phase>>
vote_vars == <<outs, tally, stop, winner, elected, votes>>
vars == <<client_vars, call_vars, vote_vars, at, out, errs>>

Init ==
  /\ ClientInit
  /\ parallel \in BOOLEAN
  /\ request \in Request /\ n \in Sizes /\ greedy = FALSE /\ phase = "idle"
  /\ at = [i \in Attempt |-> "wait"]
  /\ out = [i \in Attempt |-> Empty] /\ outs = [i \in Attempt |-> Empty]
  /\ tally = [x \in Number |-> 0]
  /\ stop = FALSE /\ winner = None /\ errs = {} /\ elected = None /\ votes = 1

Candidates == 0..(n - 1)
Goto(i, from, to) ==
  phase = "run" /\ at[i] = from /\ at' = [at EXCEPT ![i] = to]

\* The engine is asked again, with everything the last call had on its stack
\* gone.  Calls follow one another: those of a parallel engine that overlap
\* would race on the client's socket.
Call ==
  /\ phase # "run"
  /\ phase' = "run" /\ request' \in Request /\ n' \in Sizes /\ greedy' \in BOOLEAN
  /\ at' = [i \in Attempt |-> "wait"]
  /\ out' = [i \in Attempt |-> Empty] /\ outs' = [i \in Attempt |-> Empty]
  /\ tally' = [x \in Number |-> 0]
  /\ stop' = FALSE /\ winner' = None /\ errs' = {} /\ elected' = None
  /\ votes' = 1
  /\ UNCHANGED <<client_vars, parallel>>

-----------------------------------------------------------------------------
(* generate_stream()                                                       *)

\* conclave_attempt(): only attempt 0 keeps the caller's temperature.
cacheable(i) == greedy /\ i = 0

\* One after the other until the verdict or an exception, or all at once on
\* their threads.
StartAttempt(i) ==
  /\ i \in Candidates
  /\ ~parallel => ~stop /\ errs = {} /\ \A j \in 0..(i - 1) : at[j] = "done"
  /\ Goto(i, "wait", IF cacheable(i) THEN "get" ELSE "generate")
  /\ UNCHANGED <<client_vars, call_vars, vote_vars, out, errs>>

\* ArcaClient::get() and set(), up to the reply.
SendCommand(i) ==
  /\ \/ Goto(i, "get", "hit?") /\ Send(Get(cache_key[request]))
     \/ Goto(i, "set", "ok?") /\ Send(Set(cache_key[request], out[i]))
  /\ UNCHANGED <<call_vars, vote_vars, out, errs>>

\* Refused, timed out or reset: where an attempt goes on without the archive.
SendFails(i) ==
  /\ Goto(i, "get", "generate") \/ Goto(i, "set", "deposit")
  /\ Drop
  /\ UNCHANGED <<call_vars, vote_vars, out, errs>>

\* A bulk reply is the answer, +OK reads as an empty one, nil is a miss.
ReadReply(i) ==
  /\ TakeReply
  /\ \/ Goto(i, "ok?", "deposit") /\ UNCHANGED out
     \/ /\ Goto(i, "hit?", IF Head(replies) = Nil THEN "generate" ELSE "deposit")
        /\ out' = [out EXCEPT ![i] = IF Head(replies) \in {Nil, Ok} THEN Empty
                                     ELSE Head(replies)]
  /\ UNCHANGED <<call_vars, vote_vars, errs>>

\* Mutant: a failed read is a miss that keeps the connection.
ReadFails_KeepsSocket(i) ==
  /\ Goto(i, "hit?", "generate") \/ Goto(i, "ok?", "deposit")
  /\ UNCHANGED <<client_vars, call_vars, vote_vars, out, errs>>

\* The archive reset or closed the connection, which is dropped.  SO_RCVTIMEO
\* ends no read: read_some() of a socket that async_connect() made
\* non-blocking meets EAGAIN with a poll that has no limit.
ReadFails(i) ==
  /\ Goto(i, "hit?", "generate") \/ Goto(i, "ok?", "deposit")
  /\ Drop
  /\ UNCHANGED <<call_vars, vote_vars, out, errs>>

Generated(i, whole) ==
  {t \in Text : /\ t.of = request /\ t.whole = whole
                /\ t.sampled = ~(greedy /\ i = 0)
                /\ (~t.sampled => t.num \in IF whole THEN {GreedyNumber[request]}
                                            ELSE PrefixNumbers[request])}

\* generate_stream_impl() came to its end, or the callback returned false:
\* in a conclave when it sees stop.  Either text is stored.
Generate(i) ==
  /\ Goto(i, "generate", IF cacheable(i) THEN "set" ELSE "deposit")
  /\ \E whole \in IF stop \/ n = 1 THEN BOOLEAN ELSE {TRUE} :
       \E t \in Generated(i, whole) : out' = [out EXCEPT ![i] = t]
  /\ UNCHANGED <<client_vars, call_vars, vote_vars, errs>>

\* The generation throws: out of generate_best(), or into errs.
GenerateThrows(i) ==
  /\ Goto(i, "generate", "done")
  /\ errs' = errs \cup {i}
  /\ UNCHANGED <<client_vars, call_vars, vote_vars, out>>

-----------------------------------------------------------------------------
(* The conclave                                                            *)

final_number(t) == t.num

\* Mutant: half the votes are enough.
Majority_Half(count) == count * 2 >= n
Majority(count) == count * 2 > n

\* Under tally_mutex: a text that comes after the verdict does not vote.
Deposit(i) ==
  /\ Goto(i, "deposit", "done")
  /\ outs' = [outs EXCEPT ![i] = out[i]] /\ out' = [out EXCEPT ![i] = Empty]
  /\ LET x == final_number(out[i]) IN
       IF stop \/ x = NoNumber \/ n = 1
       THEN UNCHANGED <<tally, stop, winner>>
       ELSE /\ tally' = [tally EXCEPT ![x] = @ + 1]
            /\ IF Majority(tally[x] + 1) THEN winner' = i /\ stop' = TRUE
               ELSE UNCHANGED <<winner, stop>>
  /\ UNCHANGED <<client_vars, call_vars, errs, elected, votes>>

Sharing(i) == {j \in Candidates : final_number(outs[j]) = final_number(outs[i])}

\* Mutant: only the others that agree are counted.
votes_for_Others(i) == Cardinality(Sharing(i) \ {i})
votes_for(i) == IF final_number(outs[i]) = NoNumber THEN 1
                ELSE Cardinality(Sharing(i))

Numeric == {i \in Candidates : final_number(outs[i]) # NoNumber}
Carried(i) == Cardinality(Sharing(i))

\* The medoid by word overlap: as far as the texts are known, any of them.
elect == Candidates

\* The first carrier of the number with the most votes, if at least half
\* concluded with a number and two agree; else the medoid of the texts.
elect_numeric ==
  LET best == {i \in Numeric : /\ Carried(i) >= 2
                               /\ \A j \in Numeric : Carried(i) >= Carried(j)}
  IN  IF n < 2 THEN {0}
      ELSE IF Cardinality(Numeric) * 2 >= n /\ best # {}
      THEN {i \in best : \A j \in best : i <= j}
      ELSE elect

\* Every thread has been joined, or the loop has ended.
AllEnded ==
  IF parallel THEN \A i \in Candidates : at[i] = "done"
  ELSE /\ \A i \in Candidates : at[i] \in {"wait", "done"}
       /\ stop \/ errs # {} \/ \A i \in Candidates : at[i] = "done"

\* Mutant: what threw is tried again, as often as it takes.
Elect_RetriesThrown ==
  /\ phase = "run" /\ AllEnded
  /\ IF errs # {} THEN /\ at' = [i \in Attempt |-> IF i \in errs THEN "wait" ELSE at[i]]
                       /\ errs' = {} /\ UNCHANGED <<phase, elected, votes>>
     ELSE /\ phase' = "returned" /\ UNCHANGED <<at, errs>>
          /\ elected' \in IF winner # None THEN {winner} ELSE elect_numeric
          /\ votes' = IF n = 1 THEN 1 ELSE votes_for(elected')
  /\ UNCHANGED <<client_vars, parallel, request, n, greedy, out, outs, tally, stop,
                 winner>>

Elect ==
  /\ phase = "run" /\ AllEnded
  /\ IF errs # {} THEN phase' = "threw" /\ UNCHANGED <<elected, votes>>
     ELSE /\ phase' = "returned"
          /\ elected' \in IF winner # None THEN {winner} ELSE elect_numeric
          /\ votes' = IF n = 1 THEN 1 ELSE votes_for(elected')
  /\ UNCHANGED <<client_vars, parallel, request, n, greedy, at, out, errs, outs,
                 tally, stop, winner>>

-----------------------------------------------------------------------------
AttemptStep(i) ==
  \/ StartAttempt(i) \/ SendCommand(i) \/ SendFails(i) \/ ReadReply(i)
  \/ ReadFails(i) \/ Generate(i) \/ GenerateThrows(i) \/ Deposit(i)

Archive == ArchiveStep /\ UNCHANGED <<call_vars, vote_vars, at, out, errs>>

Next == Call \/ Elect \/ Archive \/ \E i \in Attempt : AttemptStep(i)

Spec == Init /\ [][Next]_vars
\* A thread of the call that can run does; nothing is asked of the archive, of
\* the network or of a generation.
Fairness == WF_vars(Elect \/ \E i \in Attempt : StartAttempt(i) \/ Deposit(i))
FairSpec == Spec /\ Fairness

-----------------------------------------------------------------------------
(* Properties                                                              *)

\* Types; at most one command is outstanding, and the consensus reported is
\* between 1 and n.
ConclaveTypeOK ==
  /\ OneOutstanding /\ Cardinality(late) <= MaxLate
  /\ archive \in [Key -> Text \cup {Nil}]
  /\ outs \in [Attempt -> Text \cup {Empty}]
  /\ tally \in [Number -> 0..n] /\ winner \in {None} \cup Candidates
  /\ votes \in 1..n

\* "no straggler can overturn it": once stop is set, the winner's number is
\* that of more than half of all candidates, and it is the winner that is
\* returned, whatever the attempts still running deposit.
EarlyWinnerIsFinal ==
  /\ stop = (winner # None)
  /\ stop => /\ final_number(outs[winner]) # NoNumber
             /\ Cardinality(Sharing(winner)) * 2 > n
             /\ phase = "returned" => elected = winner

\* The cache replays only what a greedy generation under the same cache_key()
\* gave: no sampled text is stored, a reply is never taken for that to another
\* key, and what the cache does not answer is generated for the request
\* itself, whatever the archive delays, loses, or runs after the client has
\* given up on it.  (Calls that follow one another: see Call.)
CachedAnswersExact ==
  /\ \A k \in Key : archive[k] # Nil =>
       cache_key[archive[k].of] = k /\ ~archive[k].sampled
  /\ \A i \in Attempt : at[i] = "done" /\ i \notin errs =>
       /\ outs[i].of \in Request /\ cache_key[outs[i].of] = cache_key[request]
       /\ outs[i].of = request \/ cacheable(i)
       /\ outs[i].sampled = ~(greedy /\ i = 0)

\* A call whose generations end and whose commands the archive does not leave
\* waiting for ever comes back: no verdict, exception or thread that is still
\* to hand in leaves generate_best() waiting for what will not happen.
Waiting == {"get", "hit?", "set", "ok?", "generate"}
EveryCallComesBack ==
  (\A i \in Attempt : []<>(at[i] \notin Waiting))
    => (phase = "run" ~> phase \in {"returned", "threw"})

\* "A candidate cut off mid-flight (or arriving after the verdict) must not
\* vote: its text is truncated": the tally counts whole answers only.
OnlyWholeAnswersVote ==
  \A x \in Number :
    tally[x] <= Cardinality({i \in Candidates : outs[i].whole /\ outs[i].num = x})
=============================================================================
