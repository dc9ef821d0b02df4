------------------------ MODULE ClassicEngineProofs ------------------------
(***************************************************************************)
(* The KV cache of the classic engine and the snapshots of its prefixes,    *)
(* for every vocabulary, window, block size, set of prompts and budget.     *)
(***************************************************************************)
EXTENDS ClassicEngine, SequenceTheorems, WellFoundedInduction, TLAPS

USE BackendAssumption, ClassicAssumption

\* A sequence whose cells and counter are those of ts.
Exact(ts) == [kv |-> ts, n_past |-> Len(ts)]

-----------------------------------------------------------------------------
(* Sequences                                                               *)

\* A nonempty set of natural numbers has a least element.
LEMMA LeastNatural ==
  ASSUME NEW T \in SUBSET Nat, T # {}
  PROVE  \E b \in T : \A x \in T : b <= x
<1> DEFINE Less == {p \in Nat \X Nat : p[1] < p[2]}
<1>1. IsWellFoundedOn(Less, Nat)
  BY NatLessThanWellFounded, Zenon DEF OpToRel
<1>2. PICK b \in T : \A x \in T : ~(<<x, b>> \in Less)
  BY <1>1, WFMin, Zenon
<1>3. \A x \in T : ~(x < b)
  BY <1>2
<1> QED
  BY <1>3

\* A beginning of a sequence and what follows it.
LEMMA Segments ==
  ASSUME NEW s \in Seq(Token), NEW m \in 0..Len(s), NEW n \in m..Len(s)
  PROVE  /\ SubSeq(s, m + 1, n) \in Seq(Token)
         /\ Len(SubSeq(s, m + 1, n)) = n - m
         /\ PrefixOf(s, m) \o SubSeq(s, m + 1, n) = PrefixOf(s, n)
<1>1. Len(s) \in Nat /\ \A i \in 1..Len(s) : s[i] \in Token
  BY LenProperties, ElementOfSeq
<1>2. m + 1 \in Int /\ n \in Int /\ \A i \in (m + 1)..n : s[i] \in Token
  BY <1>1
<1>3. SubSeq(s, m + 1, n) \in Seq(Token) /\ Len(SubSeq(s, m + 1, n)) = n - m
  BY <1>1, <1>2, SubSeqProperties
<1>4. 1 \in 1..(Len(s) + 1) /\ m \in (1 - 1)..Len(s) /\ n \in m..Len(s)
  BY <1>1
<1>5. PrefixOf(s, m) \o SubSeq(s, m + 1, n) = PrefixOf(s, n)
  BY <1>4, ConcatAdjacentSubSeq DEF PrefixOf
<1> QED
  BY <1>3, <1>5

\* Beginnings of a sequence.
LEMMA Beginnings ==
  ASSUME NEW s \in Seq(Token)
  PROVE  /\ Len(s) \in Nat
         /\ PrefixOf(s, 0) = <<>>
         /\ PrefixOf(s, Len(s)) = s
         /\ \A n \in 0..Len(s) :
              PrefixOf(s, n) \in Seq(Token) /\ Len(PrefixOf(s, n)) = n
<1>1. Len(s) \in Nat
  BY LenProperties
<1>2. ASSUME NEW n \in 0..Len(s)
      PROVE  PrefixOf(s, n) \in Seq(Token) /\ Len(PrefixOf(s, n)) = n
  <2>1. 0 \in 0..Len(s) /\ n \in 0..Len(s) /\ 0 + 1 = 1 /\ n - 0 = n
    BY <1>1
  <2> QED
    BY <2>1, Segments DEF PrefixOf
<1>3. PrefixOf(s, Len(s)) = s
  BY SubSeqFull DEF PrefixOf
<1>4. PrefixOf(s, 0) = <<>>
  BY SubSeqEmpty DEF PrefixOf
<1> QED
  BY <1>1, <1>2, <1>3, <1>4

\* A decode continues the sequence, and one that throws leaves a backend.
LEMMA Decoding ==
  ASSUME NEW b \in Backend, NEW ts \in Seq(Token)
  PROVE  /\ Decoded(b, ts) \in Backend
         /\ DecodeFailures(b, ts) \subseteq Backend
         /\ \A s \in Seq(Token) :
              b = Exact(s) => /\ Decoded(b, ts) = Exact(s \o ts)
                              /\ s \o ts \in Seq(Token)
<1>1. b.kv \in Seq(Token) /\ b.n_past \in Nat /\ Len(ts) \in Nat
  BY LenProperties DEF Backend
<1>2. \A s \in Seq(Token) : /\ s \o ts \in Seq(Token)
                            /\ Len(s \o ts) = Len(s) + Len(ts)
  BY ConcatProperties
<1>3. Decoded(b, ts) \in Backend
  BY <1>1, <1>2 DEF Decoded, Backend
<1>4. \A i \in 0..Len(ts) : SubSeq(ts, 1, i) \in Seq(Token)
  BY Beginnings DEF PrefixOf
<1>5. ASSUME NEW i \in 0..Len(ts)
      PROVE  [kv |-> b.kv \o SubSeq(ts, 1, i), n_past |-> b.n_past] \in Backend
  BY <1>1, <1>4, <1>5, ConcatProperties DEF Backend
<1>6. DecodeFailures(b, ts) \subseteq Backend
  BY <1>3, <1>5 DEF DecodeFailures
<1>7. \A s \in Seq(Token) :
        b = Exact(s) => Decoded(b, ts) = Exact(s \o ts)
  BY <1>2 DEF Decoded, Exact
<1> QED
  BY <1>2, <1>3, <1>6, <1>7

LEMMA FreshBackend == Fresh \in Backend /\ Fresh = Exact(<<>>)
  BY EmptySeq DEF Fresh, Backend, Exact

-----------------------------------------------------------------------------
(* The inductive invariant                                                 *)

\* Where a call is, what it has in the KV: the blocks decoded or restored so
\* far, all but the last token, the whole text.
CallInv ==
  /\ pc # "idle" => tokens # <<>> /\ call \in {"generate", "warm"}
  /\ pc \in {"restore", "blocks"} => use_cache
  /\ pc = "blocks" => /\ pos \in 0..Len(Goal)
                      /\ backend = Exact(PrefixOf(Goal, pos))
  /\ pc = "tail" =>
       backend = Exact(IF use_cache THEN PrefixOf(tokens, Len(tokens) - 1)
                       ELSE <<>>)
  /\ LogitsFollowTokens

\* A saved context is as long as a context may be.
SessionInv == \A s \in DOMAIN sessions : Len(sessions[s]) <= n_ctx + 1

ClassicInv == ClassicTypeOK /\ SessionInv /\ PrefixSnapshotsExact /\ CallInv

\* What a call prefills is a beginning of its prompt.
LEMMA GoalType ==
  ASSUME tokens \in Seq(Token), tokens # <<>>
  PROVE  /\ Goal \in Seq(Token) /\ Len(Goal) \in Nat
         /\ Len(tokens) \in Nat \ {0}
         /\ call # "warm" => Goal = PrefixOf(tokens, Len(tokens) - 1)
<1>1. Len(tokens) \in Nat \ {0} /\ Len(tokens) - 1 \in 0..Len(tokens)
  BY EmptySeq, LenProperties
<1>2. Goal \in Seq(Token)
  BY <1>1, Beginnings DEF Goal
<1> QED
  BY <1>1, <1>2, LenProperties DEF Goal

\* As long as the prefill is not done there is a next block.
LEMMA NextBlock ==
  ASSUME Goal \in Seq(Token), pos \in 0..Len(Goal), pos # Len(Goal)
  PROVE  BlockEnd \in Boundaries(Len(Goal)) /\ BlockEnd > pos
<1> DEFINE T == {b \in Boundaries(Len(Goal)) : b > pos}
<1>0. Len(Goal) \in Nat
  BY LenProperties
<1>1. T \in SUBSET Nat /\ Len(Goal) \in T
  BY <1>0 DEF Boundaries
<1>2. PICK b \in T : \A x \in T : b <= x
  BY <1>1, LeastNatural
<1>3. \E c \in Boundaries(Len(Goal)) :
        c > pos /\ \A x \in Boundaries(Len(Goal)) : x > pos => c <= x
  BY <1>2
<1> QED
  BY <1>3 DEF BlockEnd

LEMMA BlockType ==
  ASSUME Goal \in Seq(Token), pos \in 0..Len(Goal), pos # Len(Goal)
  PROVE  /\ BlockEnd \in 1..Len(Goal) /\ BlockEnd > pos
         /\ Block \in Seq(Token)
         /\ PrefixOf(Goal, pos) \in Seq(Token)
         /\ PrefixOf(Goal, pos) \o Block = PrefixOf(Goal, BlockEnd)
         /\ PrefixOf(Goal, BlockEnd) \in Seq(Token)
         /\ Len(PrefixOf(Goal, BlockEnd)) = BlockEnd
<1>0. Len(Goal) \in Nat
  BY LenProperties
<1>1. BlockEnd \in 1..Len(Goal) /\ BlockEnd > pos
  BY <1>0, NextBlock DEF Boundaries
<1>2. BlockEnd \in pos..Len(Goal) /\ BlockEnd \in 0..Len(Goal)
  BY <1>0, <1>1
<1>3. /\ Block \in Seq(Token)
      /\ PrefixOf(Goal, pos) \o Block = PrefixOf(Goal, BlockEnd)
  BY <1>2, Segments DEF Block
<1>4. \A n \in 0..Len(Goal) :
        PrefixOf(Goal, n) \in Seq(Token) /\ Len(PrefixOf(Goal, n)) = n
  BY Beginnings, Zenon
<1> QED
  BY <1>1, <1>2, <1>3, <1>4, Zenon

-----------------------------------------------------------------------------
(* The cache                                                               *)

\* Losing entries disturbs nothing.
LEMMA LosingKeeps ==
  ASSUME ClassicInv, NEW lost
  PROVE  /\ \A k \in DOMAIN Without(snapshots, lost) :
              Without(snapshots, lost)[k] \in Backend
         /\ \A k \in DOMAIN Without(snapshots, lost) :
              k[1] = "prefix" =>
                Without(snapshots, lost)[k] = [kv |-> k[2], n_past |-> Len(k[2])]
  BY DEF ClassicInv, ClassicTypeOK, PrefixSnapshotsExact, Without

\* A store keeps the snapshots exact if what it stores is.
LEMMA StoringKeeps ==
  ASSUME ClassicInv, NEW k, NEW kv \in Seq(Token), NEW n \in Nat,
         StoreState(k, kv, n),
         k[1] = "prefix" => k[2] = kv /\ n = Len(kv)
  PROVE  /\ \A j \in DOMAIN snapshots' : snapshots'[j] \in Backend
         /\ PrefixSnapshotsExact'
<1>1. PICK lost \in SUBSET (DOMAIN snapshots \ {k}) :
        snapshots' = [j \in (DOMAIN snapshots \ (lost \cup {k})) \cup {k} |->
          IF j = k THEN [kv |-> kv, n_past |-> n] ELSE snapshots[j]]
  BY DEF StoreState
<1>2. [kv |-> kv, n_past |-> n] \in Backend
  BY DEF Backend
<1>3. \A j \in DOMAIN snapshots' : IF j = k
        THEN snapshots'[j] = [kv |-> kv, n_past |-> n]
        ELSE j \in DOMAIN snapshots /\ snapshots'[j] = snapshots[j]
  BY <1>1
<1>4. \A j \in DOMAIN snapshots' : snapshots'[j] \in Backend
  BY <1>2, <1>3 DEF ClassicInv, ClassicTypeOK
<1>5. ASSUME NEW j \in DOMAIN snapshots', j[1] = "prefix"
      PROVE  snapshots'[j] = [kv |-> j[2], n_past |-> Len(j[2])]
  <2>1. CASE j = k
    BY <1>3, <1>5, <2>1
  <2>2. CASE j # k
    BY <1>3, <1>5, <2>2 DEF ClassicInv, PrefixSnapshotsExact
  <2> QED
    BY <2>1, <2>2
<1> QED
  BY <1>4, <1>5 DEF PrefixSnapshotsExact

-----------------------------------------------------------------------------
(* Every step keeps it                                                     *)

\* A call that is over leaves nothing to keep.
LEMMA EndOfCall ==
  ASSUME ClassicInv, EndCall, UNCHANGED use_cache,
         backend' \in Backend,
         \A k \in DOMAIN snapshots' : snapshots'[k] \in Backend,
         PrefixSnapshotsExact',
         context_tokens' \in Seq(Token), Len(context_tokens') <= n_ctx + 1,
         UNCHANGED <<sessions, next_session_id>>
  PROVE  ClassicInv'
<1>1. <<>> \in Seq(Token) /\ Len(<<>>) = 0
  BY EmptySeq
<1>2. CallInv'
  BY DEF EndCall, CallInv, LogitsFollowTokens
<1>3. ClassicTypeOK'
  BY <1>1 DEF ClassicInv, ClassicTypeOK, EndCall
<1>4. SessionInv'
  BY DEF ClassicInv, SessionInv
<1> QED
  BY <1>2, <1>3, <1>4 DEF ClassicInv

\* A step of a session or of the cache leaves the call in progress alone.
LEMMA SameCall ==
  ASSUME ClassicInv, UNCHANGED <<use_cache, backend, pc, call_vars>>
  PROVE  CallInv'
<1>1. Goal' = Goal
  BY DEF Goal, call_vars
<1> QED
  BY <1>1 DEF ClassicInv, CallInv, LogitsFollowTokens, call_vars

LEMMA StepThrow ==
  ASSUME ClassicInv, NEW ts \in Seq(Token), Throw(ts)
  PROVE  ClassicInv'
<1>1. backend' \in Backend
  BY Decoding DEF Throw, ClassicInv, ClassicTypeOK
<1>2. UNCHANGED <<use_cache, snapshots, context_tokens, sessions, next_session_id>>
  BY DEF Throw, session_vars
<1>3. /\ \A k \in DOMAIN snapshots' : snapshots'[k] \in Backend
      /\ PrefixSnapshotsExact'
      /\ context_tokens' \in Seq(Token) /\ Len(context_tokens') <= n_ctx + 1
  BY <1>2 DEF ClassicInv, ClassicTypeOK, PrefixSnapshotsExact
<1> QED
  BY <1>1, <1>2, <1>3, EndOfCall DEF Throw

\* A prompt is nonempty and fits the window.
LEMMA PromptType ==
  ASSUME NEW p \in Prompt
  PROVE  p \in Seq(Token) /\ p # <<>> /\ Len(p) <= n_ctx /\ Len(p) \in Nat
<1>1. p \in Seq(Token) /\ Len(p) \in 1..n_ctx
  OBVIOUS
<1> QED
  BY <1>1, EmptySeq

LEMMA StepBegin ==
  ASSUME ClassicInv, NEW p \in Prompt,
         warm(p) \/ \E n \in 0..MaxNew : generate(p, n)
  PROVE  ClassicInv'
<1>1. /\ UNCHANGED <<use_cache, snapshots, context_tokens, sessions, next_session_id>>
      /\ tokens' = p /\ pos' = 0 /\ produced' = 0 /\ max_tokens' \in Nat
      /\ call' \in {"generate", "warm"}
      /\ \/ pc' = "restore" /\ use_cache /\ UNCHANGED backend
         \/ pc' = "tail" /\ ~use_cache /\ backend' = Fresh
  BY DEF warm, generate, Reset, session_vars, ClassicInv, ClassicTypeOK
<1>2. backend' \in Backend
  BY <1>1, FreshBackend DEF ClassicInv, ClassicTypeOK
<1>3. ClassicTypeOK'
  BY <1>1, <1>2, PromptType DEF ClassicInv, ClassicTypeOK
<1>4. CallInv'
  BY <1>1, FreshBackend, PromptType DEF CallInv, LogitsFollowTokens
<1> QED
  BY <1>1, <1>3, <1>4 DEF ClassicInv, SessionInv, PrefixSnapshotsExact

\* What prefill() restores is the beginning of the prompt it looked up.
LEMMA StepRestore ==
  ASSUME ClassicInv, Restore
  PROVE  ClassicInv'
<1>0. tokens \in Seq(Token) /\ tokens # <<>> /\ use_cache
  BY DEF ClassicInv, ClassicTypeOK, CallInv, Restore
<1>1. Goal \in Seq(Token) /\ Len(Goal) \in Nat /\ Goal' = Goal
  BY <1>0, GoalType DEF Restore, Goal
<1>2. PICK r \in Boundaries(Len(Goal)) \cup {0} :
        /\ IF r = 0 THEN Reset
           ELSE /\ PrefixKey(PrefixOf(Goal, r)) \in DOMAIN snapshots
                /\ LoadState(PrefixKey(PrefixOf(Goal, r)))
        /\ snapshots' = Without(snapshots,
             {PrefixKey(PrefixOf(Goal, b)) :
                b \in {x \in Boundaries(Len(Goal)) : x > r}})
        /\ pos' = r
  BY DEF Restore
<1>3. r \in 0..Len(Goal)
  BY <1>1, <1>2 DEF Boundaries
<1>4. PrefixOf(Goal, r) \in Seq(Token) /\ PrefixOf(Goal, 0) = <<>>
  BY <1>1, <1>3, Beginnings, Zenon
<1>5. backend' = Exact(PrefixOf(Goal, r)) /\ backend' \in Backend
  <2>1. CASE r = 0
    BY <1>2, <1>4, <2>1, FreshBackend DEF Reset
  <2>2. CASE r # 0
    BY <1>2, <2>2 DEF LoadState, PrefixKey, ClassicInv, ClassicTypeOK,
       PrefixSnapshotsExact, Exact
  <2> QED
    BY <2>1, <2>2
<1>6. PrefixSnapshotsExact' /\ \A k \in DOMAIN snapshots' : snapshots'[k] \in Backend
  BY <1>2, LosingKeeps DEF PrefixSnapshotsExact
<1>7. /\ pc' = "blocks" /\ pos' \in Nat
      /\ UNCHANGED <<use_cache, context_tokens, sessions, next_session_id,
                     call, tokens, produced, max_tokens>>
  BY <1>2, <1>3 DEF Restore, session_vars
<1>8. ClassicTypeOK'
  BY <1>5, <1>6, <1>7 DEF ClassicInv, ClassicTypeOK
<1>9. CallInv'
  BY <1>0, <1>1, <1>2, <1>3, <1>5, <1>7
     DEF ClassicInv, CallInv, LogitsFollowTokens, Restore
<1> QED
  BY <1>6, <1>7, <1>8, <1>9 DEF ClassicInv, SessionInv

\* What a call that is prefilling knows.
LEMMA Prefilling ==
  ASSUME ClassicInv, pc = "blocks"
  PROVE  /\ tokens \in Seq(Token) /\ tokens # <<>> /\ use_cache
         /\ call \in {"generate", "warm"}
         /\ Goal \in Seq(Token) /\ Len(Goal) \in Nat /\ pos \in 0..Len(Goal)
         /\ backend \in Backend /\ backend = Exact(PrefixOf(Goal, pos))
<1>1. tokens \in Seq(Token) /\ tokens # <<>> /\ use_cache
  BY DEF ClassicInv, ClassicTypeOK, CallInv
<1> QED
  BY <1>1, GoalType DEF ClassicInv, ClassicTypeOK, CallInv

LEMMA StepDecodeBlock ==
  ASSUME ClassicInv, DecodeBlock
  PROVE  ClassicInv'
<1> DEFINE start == PrefixOf(Goal, pos)
           done == PrefixOf(Goal, BlockEnd)
<1>1. /\ tokens # <<>> /\ use_cache /\ call \in {"generate", "warm"}
      /\ Goal \in Seq(Token) /\ pos \in 0..Len(Goal) /\ pos # Len(Goal)
      /\ backend \in Backend /\ backend = Exact(start)
  BY Prefilling DEF DecodeBlock
<1>2. /\ BlockEnd \in 1..Len(Goal) /\ BlockEnd \in Nat
      /\ Block \in Seq(Token) /\ start \in Seq(Token)
      /\ start \o Block = done /\ done \in Seq(Token) /\ Len(done) = BlockEnd
  BY <1>1, BlockType
<1>3. backend' = Exact(done) /\ backend' \in Backend
  <2>1. backend' = Decoded(backend, Block)
    BY DEF DecodeBlock
  <2> QED
    BY <1>1, <1>2, <2>1, Decoding
<1>4. PrefixSnapshotsExact' /\ \A k \in DOMAIN snapshots' : snapshots'[k] \in Backend
  <2>1. StoreState(PrefixKey(done), done, BlockEnd)
    BY <1>3 DEF DecodeBlock, Exact
  <2>2. PrefixKey(done)[1] = "prefix" /\ PrefixKey(done)[2] = done
    BY DEF PrefixKey
  <2> QED
    BY <1>2, <2>1, <2>2, StoringKeeps
<1>5. /\ pc' = "blocks" /\ pos' = BlockEnd
      /\ UNCHANGED <<use_cache, context_tokens, sessions, next_session_id,
                     call, tokens, produced, max_tokens>>
  BY DEF DecodeBlock, session_vars
<1>6. Goal' = Goal
  BY <1>5 DEF Goal
<1>7. ClassicTypeOK'
  BY <1>2, <1>3, <1>4, <1>5 DEF ClassicInv, ClassicTypeOK
<1>8. pos' \in 0..Len(Goal')
  BY <1>2, <1>5, <1>6
<1>9. CallInv'
  BY <1>1, <1>3, <1>5, <1>6, <1>8 DEF CallInv, LogitsFollowTokens
<1> QED
  BY <1>4, <1>5, <1>7, <1>9 DEF ClassicInv, SessionInv

LEMMA StepThrowInBlock ==
  ASSUME ClassicInv, ThrowInBlock
  PROVE  ClassicInv'
  BY Prefilling, BlockType, StepThrow DEF ThrowInBlock

LEMMA StepPrefillDone ==
  ASSUME ClassicInv, PrefillDone
  PROVE  ClassicInv'
<1>1. /\ UNCHANGED <<use_cache, backend, snapshots, context_tokens, sessions,
                     next_session_id>>
      /\ pc = "blocks" /\ pos = Len(Goal)
  BY DEF PrefillDone, session_vars
<1>2. /\ PrefixSnapshotsExact'
      /\ \A k \in DOMAIN snapshots' : snapshots'[k] \in Backend
      /\ backend' \in Backend
      /\ context_tokens' \in Seq(Token) /\ Len(context_tokens') <= n_ctx + 1
  BY <1>1 DEF ClassicInv, ClassicTypeOK, PrefixSnapshotsExact
<1>3. CASE EndCall
  BY <1>1, <1>2, <1>3, EndOfCall
<1>4. CASE call = "generate" /\ pc' = "tail" /\ UNCHANGED call_vars
  <2>1. PrefixOf(Goal, Len(Goal)) = Goal
    BY <1>1, Prefilling, Beginnings
  <2>2. backend' = Exact(PrefixOf(tokens, Len(tokens) - 1)) /\ use_cache /\ tokens # <<>>
    BY <1>1, <1>4, <2>1, Prefilling DEF Goal
  <2>3. CallInv'
    BY <1>1, <1>4, <2>2 DEF CallInv, LogitsFollowTokens, call_vars
  <2>4. ClassicTypeOK'
    BY <1>1, <1>2, <1>4 DEF ClassicInv, ClassicTypeOK, call_vars
  <2> QED
    BY <1>1, <1>2, <2>3, <2>4 DEF ClassicInv, SessionInv
<1> QED
  BY <1>3, <1>4 DEF PrefillDone

\* The tail is what the prefill left: the text is complete with it.
LEMMA StepDecodeTail ==
  ASSUME ClassicInv, DecodeTail
  PROVE  ClassicInv'
<1>1. /\ tokens \in Seq(Token) /\ tokens # <<>> /\ pc = "tail"
      /\ backend \in Backend /\ use_cache \in BOOLEAN
  BY DEF ClassicInv, ClassicTypeOK, CallInv, DecodeTail
<1>2. /\ Len(tokens) \in Nat \ {0} /\ Len(tokens) - 1 \in 0..Len(tokens)
      /\ Len(tokens) \in (Len(tokens) - 1)..Len(tokens)
      /\ Len(tokens) - 1 + 1 = Len(tokens)
  BY <1>1, EmptySeq, LenProperties
<1>3. LastTokens \in Seq(Token) /\ Decoded(backend, LastTokens) = Exact(tokens)
  <2>1. CASE use_cache
    <3>1. LastTokens = SubSeq(tokens, Len(tokens) - 1 + 1, Len(tokens))
      BY <1>2, <2>1 DEF LastTokens
    <3>2. /\ LastTokens \in Seq(Token)
          /\ PrefixOf(tokens, Len(tokens) - 1) \o LastTokens = tokens
      <4>1. /\ LastTokens \in Seq(Token)
            /\ PrefixOf(tokens, Len(tokens) - 1) \o LastTokens
                 = PrefixOf(tokens, Len(tokens))
        BY <1>1, <1>2, <3>1, Segments
      <4> QED
        BY <1>1, <4>1, Beginnings
    <3>3. PrefixOf(tokens, Len(tokens) - 1) \in Seq(Token)
      BY <1>1, <1>2, Beginnings
    <3>4. backend = Exact(PrefixOf(tokens, Len(tokens) - 1))
      BY <1>1, <2>1 DEF ClassicInv, CallInv
    <3>5. Decoded(backend, LastTokens)
            = Exact(PrefixOf(tokens, Len(tokens) - 1) \o LastTokens)
      BY <1>1, <3>2, <3>3, <3>4, Decoding, Zenon
    <3> QED
      BY <3>2, <3>5
  <2>2. CASE ~use_cache
    <3>1. LastTokens = tokens /\ backend = Exact(<<>>)
      BY <1>1, <2>2 DEF LastTokens, ClassicInv, CallInv
    <3>2. <<>> \in Seq(Token) /\ <<>> \o tokens = tokens
      BY <1>1, EmptySeq, ConcatEmptySeq
    <3> QED
      BY <1>1, <3>1, <3>2, Decoding
  <2> QED
    BY <2>1, <2>2
<1>4. CASE Throw(LastTokens)
  BY <1>3, <1>4, StepThrow
<1>5. CASE /\ backend' = Decoded(backend, LastTokens)
           /\ pc' = "sample" /\ UNCHANGED call_vars
           /\ UNCHANGED <<use_cache, snapshots, session_vars>>
  <2>1. backend' = Exact(tokens) /\ backend' \in Backend
    BY <1>1, <1>3, <1>5, Decoding
  <2>2. CallInv'
    BY <1>1, <1>5, <2>1 DEF ClassicInv, CallInv, LogitsFollowTokens, Exact, call_vars
  <2>3. ClassicTypeOK'
    BY <1>5, <2>1 DEF ClassicInv, ClassicTypeOK, call_vars, session_vars
  <2> QED
    BY <1>5, <2>2, <2>3
       DEF ClassicInv, SessionInv, PrefixSnapshotsExact, session_vars
<1> QED
  BY <1>4, <1>5 DEF DecodeTail

\* The text of a call that ends becomes the context.
LEMMA StepEndGeneration ==
  ASSUME ClassicInv, NEW ts \in Seq(Token), Len(ts) <= n_ctx + 1, EndGeneration(ts)
  PROVE  ClassicInv'
<1>1. /\ EndCall /\ context_tokens' = ts
      /\ UNCHANGED <<use_cache, backend, snapshots, sessions, next_session_id>>
  BY DEF EndGeneration
<1>2. /\ PrefixSnapshotsExact'
      /\ \A k \in DOMAIN snapshots' : snapshots'[k] \in Backend
      /\ backend' \in Backend
  BY <1>1 DEF ClassicInv, ClassicTypeOK, PrefixSnapshotsExact
<1> QED
  BY <1>1, <1>2, EndOfCall

LEMMA StepStopGeneration ==
  ASSUME ClassicInv, StopGeneration
  PROVE  ClassicInv'
<1>1. tokens \in Seq(Token) /\ Len(tokens) <= n_ctx + 1
  BY LenProperties DEF ClassicInv, ClassicTypeOK
<1> QED
  BY <1>1, StepEndGeneration DEF StopGeneration

LEMMA StepSampleToken ==
  ASSUME ClassicInv, NEW next \in Sampled, SampleToken(next)
  PROVE  ClassicInv'
<1> DEFINE ts == Append(tokens, next)
<1>1. /\ tokens \in Seq(Token) /\ tokens # <<>> /\ Len(tokens) <= n_ctx
      /\ backend \in Backend /\ backend = Exact(tokens) /\ next \in Token
      /\ pc = "sample" /\ {produced, max_tokens} \subseteq Nat
  BY DEF ClassicInv, ClassicTypeOK, CallInv, LogitsFollowTokens, SampleToken, Exact
<1>2. /\ ts \in Seq(Token) /\ Len(ts) = Len(tokens) + 1 /\ Len(tokens) \in Nat
      /\ <<next>> \in Seq(Token) /\ ts = tokens \o <<next>> /\ ts # <<>>
  BY <1>1, AppendProperties, AppendIsConcat, LenProperties
<1>3. CASE EndGeneration(ts)
  <2>1. Len(ts) <= n_ctx + 1
    BY <1>1, <1>2
  <2> QED
    BY <1>2, <1>3, <2>1, StepEndGeneration
<1>4. CASE Throw(<<next>>)
  BY <1>2, <1>4, StepThrow
<1>5. CASE /\ ~(Len(ts) >= n_ctx \/ produced + 1 >= max_tokens)
           /\ backend' = Decoded(backend, <<next>>)
           /\ tokens' = ts
           /\ produced' = produced + 1
           /\ UNCHANGED <<use_cache, snapshots, session_vars, pc, call, pos,
                          max_tokens>>
  <2>1. backend' = Exact(ts) /\ backend' \in Backend
    BY <1>1, <1>2, <1>5, Decoding
  <2>2. CallInv'
    BY <1>1, <1>2, <1>5, <2>1 DEF ClassicInv, CallInv, LogitsFollowTokens, Exact
  <2>3. tokens' \in Seq(Token) /\ Len(tokens') <= n_ctx /\ produced' \in Nat
    BY <1>1, <1>2, <1>5
  <2>4. ClassicTypeOK'
    BY <1>5, <2>1, <2>3 DEF ClassicInv, ClassicTypeOK, session_vars
  <2> QED
    BY <1>5, <2>2, <2>4
       DEF ClassicInv, SessionInv, PrefixSnapshotsExact, session_vars
<1> QED
  BY <1>3, <1>4, <1>5 DEF SampleToken

LEMMA StepCreateSession ==
  ASSUME ClassicInv, create_session
  PROVE  ClassicInv'
<1>1. /\ next_session_id \in Nat \ {0} /\ next_session_id' = next_session_id + 1
      /\ DOMAIN sessions \subseteq 1..(next_session_id - 1)
      /\ DOMAIN sessions' = DOMAIN sessions \cup {next_session_id}
      /\ \A i \in DOMAIN sessions' :
           sessions'[i] = IF i = next_session_id THEN <<>> ELSE sessions[i]
      /\ UNCHANGED <<use_cache, backend, snapshots, context_tokens, pc, call_vars>>
  BY DEF create_session, ClassicInv, ClassicTypeOK
<1>2. CallInv'
  BY <1>1, SameCall
<1>3. next_session_id' \in Nat \ {0} /\ DOMAIN sessions' \subseteq 1..(next_session_id' - 1)
  BY <1>1
<1>4. ASSUME NEW i \in DOMAIN sessions'
      PROVE  sessions'[i] \in Seq(Token) /\ Len(sessions'[i]) <= n_ctx + 1
  <2>1. CASE i = next_session_id
    <3>1. sessions'[i] = <<>> /\ <<>> \in Seq(Token) /\ Len(<<>>) = 0
      BY <1>1, <1>4, <2>1, EmptySeq
    <3> QED
      BY <3>1
  <2>2. CASE i # next_session_id
    BY <1>1, <1>4, <2>2 DEF ClassicInv, ClassicTypeOK, SessionInv
  <2> QED
    BY <2>1, <2>2
<1>5. ClassicTypeOK'
  BY <1>1, <1>3, <1>4 DEF ClassicInv, ClassicTypeOK, call_vars
<1> QED
  BY <1>1, <1>2, <1>4, <1>5 DEF ClassicInv, SessionInv, PrefixSnapshotsExact

\* A session's snapshot is filed apart from the prefixes', whatever it holds.
LEMMA StepSaveSession ==
  ASSUME ClassicInv, NEW s \in DOMAIN sessions, save_session(s)
  PROVE  ClassicInv'
<1>1. /\ UNCHANGED <<use_cache, backend, context_tokens, next_session_id, pc,
                     call_vars>>
      /\ sessions' = [sessions EXCEPT ![s] = context_tokens]
  BY DEF save_session
<1>2. CallInv'
  BY <1>1, SameCall
<1>3. PrefixSnapshotsExact' /\ \A k \in DOMAIN snapshots' : snapshots'[k] \in Backend
  <2>1. CASE StoreState(SessionKey(s, context_tokens), backend.kv,
                        Len(context_tokens))
    <3>1. backend.kv \in Seq(Token) /\ Len(context_tokens) \in Nat
      BY LenProperties DEF ClassicInv, ClassicTypeOK, Backend
    <3>2. SessionKey(s, context_tokens)[1] # "prefix"
      BY DEF SessionKey
    <3> QED
      BY <2>1, <3>1, <3>2, StoringKeeps
  <2>2. CASE UNCHANGED snapshots
    BY <2>2 DEF ClassicInv, ClassicTypeOK, PrefixSnapshotsExact
  <2> QED
    BY <2>1, <2>2 DEF save_session
<1>4. /\ DOMAIN sessions' = DOMAIN sessions
      /\ \A i \in DOMAIN sessions' :
           sessions'[i] \in Seq(Token) /\ Len(sessions'[i]) <= n_ctx + 1
  BY <1>1 DEF ClassicInv, ClassicTypeOK, SessionInv
<1>5. ClassicTypeOK'
  BY <1>1, <1>3, <1>4 DEF ClassicInv, ClassicTypeOK, call_vars
<1> QED
  BY <1>2, <1>3, <1>4, <1>5 DEF ClassicInv, SessionInv

\* Between calls the backend may hold anything.
LEMMA StepLoadSession ==
  ASSUME ClassicInv, NEW s \in DOMAIN sessions, load_session(s)
  PROVE  ClassicInv'
<1> DEFINE ts == sessions[s]
           k == SessionKey(s, ts)
<1>1. UNCHANGED <<use_cache, sessions, next_session_id, pc, call_vars>> /\ pc = "idle"
  BY DEF load_session
<1>2. ts \in Seq(Token) /\ Len(ts) <= n_ctx + 1
  BY DEF ClassicInv, ClassicTypeOK, SessionInv
<1>3. /\ Decoded(Fresh, ts) \in Backend
      /\ DecodeFailures(Fresh, ts) \subseteq Backend
  BY <1>2, FreshBackend, Decoding
<1>4. /\ backend' \in Backend
      /\ snapshots' = snapshots \/ snapshots' = Without(snapshots, {k})
      /\ context_tokens' \in {ts, context_tokens}
  BY <1>3 DEF load_session, LoadState, ClassicInv, ClassicTypeOK
<1>5. PrefixSnapshotsExact' /\ \A j \in DOMAIN snapshots' : snapshots'[j] \in Backend
  <2>1. CASE snapshots' = snapshots
    BY <2>1 DEF ClassicInv, ClassicTypeOK, PrefixSnapshotsExact
  <2>2. CASE snapshots' = Without(snapshots, {k})
    BY <2>2, LosingKeeps DEF PrefixSnapshotsExact
  <2> QED
    BY <1>4, <2>1, <2>2
<1>6. context_tokens' \in Seq(Token) /\ Len(context_tokens') <= n_ctx + 1
  BY <1>2, <1>4 DEF ClassicInv, ClassicTypeOK
<1>7. ClassicTypeOK'
  BY <1>1, <1>4, <1>5, <1>6 DEF ClassicInv, ClassicTypeOK, call_vars
<1>8. CallInv'
  BY <1>1 DEF CallInv, LogitsFollowTokens
<1> QED
  BY <1>1, <1>5, <1>7, <1>8 DEF ClassicInv, SessionInv

LEMMA StepDeleteSession ==
  ASSUME ClassicInv, NEW s \in DOMAIN sessions, delete_session(s)
  PROVE  ClassicInv'
<1>1. /\ UNCHANGED <<use_cache, backend, snapshots, context_tokens,
                     next_session_id, pc, call_vars>>
      /\ DOMAIN sessions' \subseteq DOMAIN sessions
      /\ \A i \in DOMAIN sessions' : sessions'[i] = sessions[i]
  BY DEF delete_session, Without
<1>2. CallInv'
  BY <1>1, SameCall
<1>3. ClassicTypeOK'
  BY <1>1 DEF ClassicInv, ClassicTypeOK, call_vars
<1> QED
  BY <1>1, <1>2, <1>3 DEF ClassicInv, SessionInv, PrefixSnapshotsExact

LEMMA StepLose ==
  ASSUME ClassicInv, NEW k, Lose(k)
  PROVE  ClassicInv'
<1>1. /\ UNCHANGED <<use_cache, backend, context_tokens, sessions, next_session_id,
                     pc, call_vars>>
      /\ snapshots' = Without(snapshots, {k})
  BY DEF Lose, session_vars
<1>2. CallInv'
  BY <1>1, SameCall
<1>3. PrefixSnapshotsExact' /\ \A j \in DOMAIN snapshots' : snapshots'[j] \in Backend
  BY <1>1, LosingKeeps DEF PrefixSnapshotsExact
<1>4. ClassicTypeOK'
  BY <1>1, <1>3 DEF ClassicInv, ClassicTypeOK, call_vars
<1> QED
  BY <1>1, <1>2, <1>3, <1>4 DEF ClassicInv, SessionInv

\* A new process finds the snapshots of the old one, and nothing else.
LEMMA StepRestart ==
  ASSUME ClassicInv, Restart
  PROVE  ClassicInv'
<1>1. <<>> \in Seq(Token) /\ Len(<<>>) = 0 /\ DOMAIN <<>> = {}
  BY EmptySeq
<1>2. ClassicTypeOK'
  BY <1>1, FreshBackend DEF ClassicInv, ClassicTypeOK, Restart, EndCall
<1>3. SessionInv' /\ CallInv'
  BY <1>1 DEF SessionInv, CallInv, LogitsFollowTokens, Restart, EndCall
<1> QED
  BY <1>2, <1>3 DEF ClassicInv, PrefixSnapshotsExact, Restart

-----------------------------------------------------------------------------
(* Theorems                                                                *)

LEMMA ClassicInitially == Init => ClassicInv
<1> SUFFICES ASSUME Init PROVE ClassicInv
  OBVIOUS
<1>1. <<>> \in Seq(Token) /\ Len(<<>>) = 0 /\ DOMAIN <<>> = {}
  BY EmptySeq
<1>2. ClassicTypeOK
  BY <1>1, FreshBackend DEF Init, NoCall, ClassicTypeOK
<1>3. SessionInv /\ PrefixSnapshotsExact
  BY <1>1 DEF Init, SessionInv, PrefixSnapshotsExact
<1>4. CallInv
  BY DEF Init, CallInv, LogitsFollowTokens
<1> QED
  BY <1>2, <1>3, <1>4 DEF ClassicInv

LEMMA ClassicStutters ==
  ASSUME ClassicInv, UNCHANGED vars
  PROVE  ClassicInv'
<1>1. CallInv'
  BY SameCall DEF vars
<1>2. ClassicTypeOK'
  BY DEF vars, call_vars, session_vars, ClassicInv, ClassicTypeOK
<1> QED
  BY <1>1, <1>2
     DEF vars, session_vars, ClassicInv, SessionInv, PrefixSnapshotsExact

\* Whatever calls, sessions, lost entries, decodes that throw and restarts
\* come together, the inductive invariant holds.
THEOREM ClassicInvariant == Spec => []ClassicInv
<1>1. ASSUME ClassicInv, [Next]_vars PROVE ClassicInv'
  <2>1. CASE \E p \in Prompt : warm(p) \/ \E n \in 0..MaxNew : generate(p, n)
    BY <1>1, <2>1, StepBegin
  <2>2. CASE Restore
    BY <1>1, <2>2, StepRestore
  <2>3. CASE DecodeBlock
    BY <1>1, <2>3, StepDecodeBlock
  <2>4. CASE ThrowInBlock
    BY <1>1, <2>4, StepThrowInBlock
  <2>5. CASE PrefillDone
    BY <1>1, <2>5, StepPrefillDone
  <2>6. CASE DecodeTail
    BY <1>1, <2>6, StepDecodeTail
  <2>7. CASE StopGeneration
    BY <1>1, <2>7, StepStopGeneration
  <2>8. CASE \E t \in Sampled : SampleToken(t)
    BY <1>1, <2>8, StepSampleToken
  <2>9. CASE create_session
    BY <1>1, <2>9, StepCreateSession
  <2>10. CASE \E s \in DOMAIN sessions :
                save_session(s) \/ load_session(s) \/ delete_session(s)
    BY <1>1, <2>10, StepSaveSession, StepLoadSession, StepDeleteSession
  <2>11. CASE \E k \in DOMAIN snapshots : Lose(k)
    BY <1>1, <2>11, StepLose
  <2>12. CASE Restart
    BY <1>1, <2>12, StepRestart
  <2>13. CASE UNCHANGED vars
    BY <1>1, <2>13, ClassicStutters
  <2> QED
    BY <1>1, <2>1, <2>2, <2>3, <2>4, <2>5, <2>6, <2>7, <2>8, <2>9, <2>10,
       <2>11, <2>12, <2>13, Zenon DEF Next
<1> QED
  BY <1>1, ClassicInitially, PTL DEF Spec

\* Types, the length of a context and the numbering of sessions, over every
\* history of calls (engine.cpp).
THEOREM ClassicTypes == Spec => []ClassicTypeOK
<1>1. ClassicInv => ClassicTypeOK
  BY DEF ClassicInv
<1> QED
  BY <1>1, ClassicInvariant, PTL

\* Every prefix snapshot on disk holds exactly the tokens it is filed under
\* (PrefixCache::prefill()), for every block size, prompt and loss.
THEOREM SnapshotsAreExact == Spec => []PrefixSnapshotsExact
<1>1. ClassicInv => PrefixSnapshotsExact
  BY DEF ClassicInv
<1> QED
  BY <1>1, ClassicInvariant, PTL

\* A token is only ever sampled from the logits of exactly the prompt and the
\* text so far (generate_stream_impl()), restored from a snapshot or not.
THEOREM LogitsAreExact == Spec => []LogitsFollowTokens
<1>1. ClassicInv => LogitsFollowTokens
  BY DEF ClassicInv, CallInv
<1> QED
  BY <1>1, ClassicInvariant, PTL
=============================================================================
