---------------------- MODULE SpeculativeDecoderProofs ----------------------
(***************************************************************************)
(* The two KV caches of the speculative decoder, and what it delivers, for  *)
(* every model, draft source, window and tuning.                            *)
(***************************************************************************)
EXTENDS SpeculativeDecoder, SequenceTheorems, WellFoundedInduction, TLAPS

\* A sequence whose cells and counter are those of ts.
Exact(ts) == [kv |-> ts, n_past |-> Len(ts)]

-----------------------------------------------------------------------------
(* Numbers and sequences                                                   *)

\* A nonempty bounded set of numbers has a greatest element.
LEMMA Greatest ==
  ASSUME NEW n \in Nat, NEW T \in SUBSET (0..n), T # {}
  PROVE  Max(T) \in T
<1> DEFINE Less == {p \in Nat \X Nat : p[1] < p[2]}
           Mirror == {y \in 0..n : n - y \in T}
<1>1. IsWellFoundedOn(Less, Nat)
  BY NatLessThanWellFounded, Zenon DEF OpToRel
<1>2. Mirror \subseteq Nat /\ \A x \in T : n - x \in Mirror /\ n - (n - x) = x
  OBVIOUS
<1>3. Mirror # {}
  BY <1>2
<1>4. PICK b \in Mirror : \A x \in Mirror : ~(<<x, b>> \in Less)
  BY <1>1, <1>2, <1>3, WFMin, Zenon
<1>5. \A x \in Mirror : ~(x < b)
  BY <1>2, <1>4
<1>6. n - b \in T /\ \A y \in T : n - b >= y
  BY <1>2, <1>4, <1>5
<1> QED
  BY <1>6 DEF Max

\* The smaller and the larger of two numbers.
LEMMA OfTwo ==
  ASSUME NEW x \in Int, NEW y \in Int
  PROVE  /\ Min({x, y}) = IF x <= y THEN x ELSE y
         /\ Max({x, y}) = IF x >= y THEN x ELSE y
  BY DEF Min, Max

LEMMA Singleton ==
  ASSUME NEW S, NEW t \in S
  PROVE  <<t>> \in Seq(S)
  OBVIOUS

\* A slice, and a beginning.
LEMMA Slice ==
  ASSUME NEW S, NEW s \in Seq(S), NEW m \in 0..Len(s), NEW n \in m..Len(s)
  PROVE  /\ SubSeq(s, m + 1, n) \in Seq(S)
         /\ Len(SubSeq(s, m + 1, n)) = n - m
         /\ \A i \in 1..(n - m) : SubSeq(s, m + 1, n)[i] = s[m + i]
<1>1. Len(s) \in Nat /\ \A i \in 1..Len(s) : s[i] \in S
  BY LenProperties, ElementOfSeq
<1>2. m + 1 \in Int /\ n \in Int /\ \A i \in (m + 1)..n : s[i] \in S
  BY <1>1
<1>3. SubSeq(s, m + 1, n) \in Seq(S) /\ Len(SubSeq(s, m + 1, n)) = n - m
  BY <1>1, <1>2, SubSeqProperties
<1>4. ASSUME NEW i \in 1..(n - m)
      PROVE  SubSeq(s, m + 1, n)[i] = s[m + i]
  BY <1>1
<1> QED
  BY <1>3, <1>4

LEMMA Beginning ==
  ASSUME NEW S, NEW s \in Seq(S), NEW n \in 0..Len(s)
  PROVE  /\ SubSeq(s, 1, n) \in Seq(S)
         /\ Len(SubSeq(s, 1, n)) = n
         /\ \A i \in 1..n : SubSeq(s, 1, n)[i] = s[i]
<1>1. 0 \in 0..Len(s) /\ n \in 0..Len(s) /\ 0 + 1 = 1 /\ n - 0 = n
  BY LenProperties
<1>2. SubSeq(s, 1, n) \in Seq(S) /\ Len(SubSeq(s, 1, n)) = n
  BY <1>1, Slice
<1>3. ASSUME NEW i \in 1..n
      PROVE  SubSeq(s, 1, n)[i] = s[i]
  BY <1>1
<1> QED
  BY <1>2, <1>3

\* A sequence, its last element and what comes before.
LEMMA Ends ==
  ASSUME NEW S, NEW s \in Seq(S), s # <<>>
  PROVE  /\ Len(s) \in Nat \ {0}
         /\ Front(s) \in Seq(S) /\ Len(Front(s)) = Len(s) - 1
         /\ Last(s) \in S /\ <<Last(s)>> \in Seq(S)
         /\ Front(s) \o <<Last(s)>> = s
         /\ \A i \in 1..(Len(s) - 1) : Front(s)[i] = s[i]
<1>1. Len(s) \in Nat \ {0} /\ \A i \in 1..Len(s) : s[i] \in S
  BY EmptySeq, ElementOfSeq
<1>2. Len(s) - 1 \in 0..Len(s)
  BY <1>1
<1>3. /\ Front(s) \in Seq(S) /\ Len(Front(s)) = Len(s) - 1
      /\ \A i \in 1..(Len(s) - 1) : Front(s)[i] = s[i]
  BY <1>2, Beginning DEF Front
<1>4. Last(s) \in S
  BY <1>1 DEF Last
<1>5. Front(s) \o <<Last(s)>> = s
  <2>1. 1 \in 1..Len(s) /\ Len(s) \in 1..Len(s)
    BY <1>1
  <2>2. SubSeq(s, 1, Len(s)) = SubSeq(s, 1, Len(s) - 1) \o <<s[Len(s)]>>
    BY <2>1, SubSeqRecursiveSecond
  <2> QED
    BY <2>2, SubSeqFull DEF Front, Last
<1> QED
  BY <1>1, <1>3, <1>4, <1>5

\* What comes before the end of a concatenation.
LEMMA FrontOfConcat ==
  ASSUME NEW S, NEW s \in Seq(S), NEW t \in Seq(S), t # <<>>
  PROVE  /\ Front(s \o t) = s \o Front(t)
         /\ Len(s \o t) = Len(s) + Len(t) /\ s \o t \in Seq(S)
         /\ Len(s \o Front(t)) = Len(s) + Len(t) - 1
<1>1. /\ Len(s) \in Nat /\ Len(t) \in Nat \ {0}
      /\ Front(t) \in Seq(S) /\ Len(Front(t)) = Len(t) - 1
      /\ \A i \in 1..(Len(t) - 1) : Front(t)[i] = t[i]
  BY Ends, LenProperties
<1>2. /\ s \o t \in Seq(S) /\ Len(s \o t) = Len(s) + Len(t)
      /\ s \o Front(t) \in Seq(S) /\ Len(s \o Front(t)) = Len(s) + Len(t) - 1
  BY <1>1, ConcatProperties
<1>3. s \o t # <<>>
  BY <1>1, <1>2
<1>4. /\ Front(s \o t) \in Seq(S) /\ Len(Front(s \o t)) = Len(s) + Len(t) - 1
      /\ \A i \in 1..(Len(s) + Len(t) - 1) : Front(s \o t)[i] = (s \o t)[i]
  <2>1. /\ Front(s \o t) \in Seq(S) /\ Len(Front(s \o t)) = Len(s \o t) - 1
        /\ \A i \in 1..(Len(s \o t) - 1) : Front(s \o t)[i] = (s \o t)[i]
    BY <1>2, <1>3, Ends, Zenon
  <2> QED
    BY <1>2, <2>1
<1>5. ASSUME NEW i \in 1..(Len(s) + Len(t) - 1)
      PROVE  (s \o t)[i] = (s \o Front(t))[i]
  BY <1>1, SMTT(20)
<1>6. Front(s \o t) = s \o Front(t)
  BY <1>2, <1>4, <1>5, SeqEqual
<1> QED
  BY <1>2, <1>6

\* What comes before an appended element.
LEMMA Appended ==
  ASSUME NEW S, NEW s \in Seq(S), NEW e \in S
  PROVE  /\ Append(s, e) \in Seq(S) /\ Append(s, e) # <<>>
         /\ Len(Append(s, e)) = Len(s) + 1
         /\ Front(Append(s, e)) = s /\ Last(Append(s, e)) = e
<1>1. /\ Append(s, e) \in Seq(S) /\ Append(s, e) # <<>>
      /\ Len(Append(s, e)) = Len(s) + 1 /\ Len(s) \in Nat
      /\ Append(s, e)[Len(s) + 1] = e
  BY AppendProperties, LenProperties
<1>2. <<e>> \in Seq(S) /\ <<e>> # <<>> /\ Front(<<e>>) = <<>>
  <2>1. Front(<<e>>) = SubSeq(<<e>>, 1, 0)
    BY DEF Front
  <2>2. SubSeq(<<e>>, 1, 0) = <<>>
    BY SubSeqEmpty
  <2> QED
    BY <2>1, <2>2
<1>3. Front(s \o <<e>>) = s
  <2>1. Front(s \o <<e>>) = s \o Front(<<e>>)
    BY <1>2, FrontOfConcat, Zenon
  <2>2. s \o <<>> = s
    BY ConcatEmptySeq
  <2> QED
    BY <1>2, <2>1, <2>2
<1> QED
  BY <1>1, <1>3, AppendIsConcat DEF Last

\* A beginning of a concatenation that reaches into its second part.
LEMMA CutConcat ==
  ASSUME NEW S, NEW s \in Seq(S), NEW t \in Seq(S), NEW n \in 0..Len(t)
  PROVE  SubSeq(s \o t, 1, Len(s) + n) = s \o SubSeq(t, 1, n)
<1>1. /\ Len(s) \in Nat /\ Len(t) \in Nat
      /\ s \o t \in Seq(S) /\ Len(s \o t) = Len(s) + Len(t)
  BY ConcatProperties, LenProperties
<1>2. /\ SubSeq(t, 1, n) \in Seq(S) /\ Len(SubSeq(t, 1, n)) = n
      /\ \A i \in 1..n : SubSeq(t, 1, n)[i] = t[i]
  BY Beginning
<1>3. Len(s) + n \in 0..Len(s \o t)
  BY <1>1
<1>4. /\ SubSeq(s \o t, 1, Len(s) + n) \in Seq(S)
      /\ Len(SubSeq(s \o t, 1, Len(s) + n)) = Len(s) + n
      /\ \A i \in 1..(Len(s) + n) : SubSeq(s \o t, 1, Len(s) + n)[i] = (s \o t)[i]
  BY <1>1, <1>3, Beginning
<1>5. /\ s \o SubSeq(t, 1, n) \in Seq(S)
      /\ Len(s \o SubSeq(t, 1, n)) = Len(s) + n
  BY <1>2, ConcatProperties
<1>6. ASSUME NEW i \in 1..(Len(s) + n)
      PROVE  (s \o t)[i] = (s \o SubSeq(t, 1, n))[i]
  BY <1>1, <1>2
<1> QED
  BY <1>4, <1>5, <1>6, SeqEqual

-----------------------------------------------------------------------------
(* The inductive invariant                                                 *)

\* Between calls there is no text; during one it is in the target's
\* vocabulary, unless a proposal has been outside it.
TextInv ==
  /\ {total_draft_tokens, total_accepted_tokens} \subseteq Nat
  /\ corpus \subseteq Seq(Token)
  /\ lookup_skip => mode = "lookup"
  /\ pc = "idle" => history = <<>> /\ emitted = 0 /\ max_tokens = 0
  /\ pc # "idle" => history # <<>> /\ (~overrun => history \in Seq(model.vocab))

\* A draft waits for its verdict: the target is where the loop left it, the
\* draft model is ahead by what it drafted.
VerifyInv ==
  pc = "verify" =>
    /\ emitted < max_tokens /\ Len(history) < n_ctx
    /\ target = Exact(Front(history)) /\ base = Len(history) - 1
    /\ draft # <<>> /\ Len(draft) <= n_ctx - Len(history)
    /\ mode = "model" =>
         /\ speculative_active
         /\ draft_model = Exact(Front(history) \o Batch(draft))

\* A verdict is being delivered: the KV caches are where the loop expects
\* them once all of it is, and each token of it may follow the one before.
EmitInv ==
  pc = "emit" =>
    /\ target = Exact(Front(history \o verdict))
    /\ base = Len(history) + Len(verdict) - 1
    /\ speculative_active /\ mode = "model" => draft_model = target
    /\ ~overrun => /\ verdict \in Seq(model.vocab)
                   /\ \A i \in 1..Len(verdict) : verdict[i] \in SupportAt(verdict, i)

DecoderInv ==
  SpeculativeTypeOK /\ TextInv /\ KvBehindByOne /\ VerifyInv /\ EmitInv

-----------------------------------------------------------------------------
(* The constants                                                           *)

LEMMA Tuning ==
  /\ n_ctx \in Nat \ {0} /\ corpus_ngram \in Nat \ {0}
  /\ lookup_min_ngram \in Nat /\ lookup_max_ngram \in Nat
  /\ min_draft_tokens \in Nat /\ draft_tokens \in Nat /\ max_draft_tokens \in Nat
  /\ 1 <= lookup_min_ngram /\ 1 <= min_draft_tokens
  /\ min_draft_tokens <= draft_tokens /\ draft_tokens <= max_draft_tokens
  /\ MaxNew \in Nat /\ DraftVocab \subseteq Token
  /\ form_draft \in [Token -> Seq(Token)]
  BY BackendAssumption, SpeculativeAssumption

LEMMA ModelType ==
  ASSUME NEW m \in Model
  PROVE  /\ m.vocab \subseteq Token
         /\ \A t \in m.vocab : m.support[t] \subseteq m.vocab
         /\ \A p \in Prompt : /\ p \in Seq(m.vocab) /\ p # <<>>
                              /\ Len(p) \in Nat /\ Len(p) <= n_ctx
<1>1. /\ m.vocab \subseteq Token
      /\ m.support \in [m.vocab -> (SUBSET m.vocab) \ {{}}]
      /\ Prompt \subseteq {p \in Seq(m.vocab) : Len(p) \in 1..n_ctx}
  BY SpeculativeAssumption
<1>2. \A t \in m.vocab : m.support[t] \subseteq m.vocab
  BY <1>1
<1>3. ASSUME NEW p \in Prompt
      PROVE  p \in Seq(m.vocab) /\ p # <<>> /\ Len(p) \in Nat /\ Len(p) <= n_ctx
  <2>1. p \in Seq(m.vocab) /\ Len(p) \in 1..n_ctx
    BY <1>1
  <2> QED
    BY <2>1, BackendAssumption
<1> QED
  BY <1>1, <1>2, <1>3

-----------------------------------------------------------------------------
(* The backends                                                            *)

\* A decode continues the sequence, and one that throws leaves a backend.
LEMMA Decoding ==
  ASSUME NEW b \in Backend, NEW ts \in Seq(Token)
  PROVE  /\ Decoded(b, ts) \in Backend
         /\ DecodeFailures(b, ts) \subseteq Backend
         /\ \A s \in Seq(Token) : b = Exact(s) => Decoded(b, ts) = Exact(s \o ts)
<1>1. b.kv \in Seq(Token) /\ b.n_past \in Nat /\ Len(ts) \in Nat
  BY LenProperties DEF Backend
<1>2. \A s \in Seq(Token) : /\ s \o ts \in Seq(Token)
                            /\ Len(s \o ts) = Len(s) + Len(ts)
  BY ConcatProperties
<1>3. Decoded(b, ts) \in Backend
  BY <1>1, <1>2 DEF Decoded, Backend
<1>4. ASSUME NEW i \in 0..Len(ts)
      PROVE  [kv |-> b.kv \o SubSeq(ts, 1, i), n_past |-> b.n_past] \in Backend
  <2>1. SubSeq(ts, 1, i) \in Seq(Token)
    BY Beginning
  <2> QED
    BY <1>1, <2>1, ConcatProperties DEF Backend
<1>5. DecodeFailures(b, ts) \subseteq Backend
  BY <1>3, <1>4 DEF DecodeFailures
<1>6. \A s \in Seq(Token) : b = Exact(s) => Decoded(b, ts) = Exact(s \o ts)
  BY <1>2 DEF Decoded, Exact
<1> QED
  BY <1>3, <1>5, <1>6

LEMMA ExactBackend ==
  ASSUME NEW ts \in Seq(Token)
  PROVE  Exact(ts) \in Backend
  BY LenProperties DEF Exact, Backend

LEMMA FreshBackend == Fresh \in Backend /\ Fresh = Exact(<<>>)
  BY EmptySeq DEF Fresh, Backend, Exact

\* The prefill leaves all but the last token in the KV.
LEMMA Prefills ==
  ASSUME NEW p \in Seq(Token), p # <<>>
  PROVE  /\ Prefilled(p) = Exact(Front(p)) /\ Prefilled(p) \in Backend
         /\ DecodeFailures(Fresh, Front(p)) \subseteq Backend
<1>1. Front(p) \in Seq(Token) /\ Len(p) \in Nat \ {0}
  BY Ends
<1>2. CASE Len(p) = 1
  <2>1. Front(p) = SubSeq(p, 1, 0)
    BY <1>2 DEF Front
  <2>2. SubSeq(p, 1, 0) = <<>>
    BY SubSeqEmpty
  <2> QED
    BY <1>1, <1>2, <2>1, <2>2, FreshBackend, Decoding DEF Prefilled
<1>3. CASE Len(p) # 1
  <2>1. Decoded(Fresh, Front(p)) = Exact(<<>> \o Front(p))
    BY <1>1, FreshBackend, EmptySeq, Decoding
  <2>2. <<>> \o Front(p) = Front(p)
    BY <1>1, ConcatEmptySeq
  <2> QED
    BY <1>1, <1>3, <2>1, <2>2, FreshBackend, Decoding DEF Prefilled
<1> QED
  BY <1>2, <1>3

\* A batch puts the newest token and the draft without its last one behind
\* what the KV holds.
LEMMA BatchType ==
  ASSUME history \in Seq(Token), history # <<>>,
         NEW d \in Seq(Token), d # <<>>
  PROVE  /\ Batch(d) \in Seq(Token) /\ Len(Batch(d)) = Len(d) /\ Batch(d) # <<>>
         /\ Front(history) \o Batch(d) = history \o Front(d)
<1>1. /\ Front(history) \in Seq(Token) /\ <<cur>> \in Seq(Token)
      /\ Front(history) \o <<cur>> = history
  BY Ends DEF cur
<1>2. /\ Front(d) \in Seq(Token) /\ Len(Front(d)) = Len(d) - 1
      /\ Len(d) \in Nat \ {0}
  BY Ends
<1>3. Batch(d) \in Seq(Token) /\ Len(Batch(d)) = Len(<<cur>>) + Len(Front(d))
  BY <1>1, <1>2, ConcatProperties DEF Batch
<1>4. Len(Batch(d)) = Len(d) /\ Batch(d) # <<>>
  BY <1>2, <1>3
<1>5. Front(history) \o (<<cur>> \o Front(d)) = (Front(history) \o <<cur>>) \o Front(d)
  <2>1. PICK f \in Seq(Token) : f = Front(history)
    BY <1>1
  <2>2. PICK t \in Seq(Token) : t = <<cur>>
    BY <1>1
  <2>3. PICK g \in Seq(Token) : g = Front(d)
    BY <1>2
  <2>4. (f \o t) \o g = f \o (t \o g)
    BY ConcatAssociative, SMTT(30)
  <2> QED
    BY <2>1, <2>2, <2>3, <2>4
<1> QED
  BY <1>1, <1>3, <1>4, <1>5 DEF Batch

-----------------------------------------------------------------------------
(* The draft sources                                                       *)

\* At most k tokens that follow position c of s.
LEMMA Continuation ==
  ASSUME NEW s \in Seq(Token), NEW c \in 0..Len(s), NEW k \in Nat
  PROVE  /\ SubSeq(s, c + 1, Min({Len(s), c + k})) \in Seq(Token)
         /\ Len(SubSeq(s, c + 1, Min({Len(s), c + k}))) <= k
<1>1. Len(s) \in Nat
  BY LenProperties
<1>2. PICK n \in c..Len(s) : n = Min({Len(s), c + k}) /\ n - c <= k
  BY <1>1, OfTwo
<1> QED
  BY <1>2, Slice

LEMMA FindDraftType ==
  ASSUME NEW h \in Seq(Token), NEW k \in Nat
  PROVE  find_draft(h, k) \in Seq(Token) /\ Len(find_draft(h, k)) <= k
<1> DEFINE ns == {n \in lookup_min_ngram..lookup_max_ngram :
                    n < Len(h) /\ Occurrences(h, n) # {}}
<1>1. Len(h) \in Nat
  BY LenProperties
<1>2. CASE ns = {}
  BY <1>2, EmptySeq DEF find_draft
<1>3. CASE ns # {}
  <2>1. ns \in SUBSET (0..lookup_max_ngram)
    BY Tuning
  <2>2. PICK n \in ns : n = Max(ns)
    BY <1>3, <2>1, Greatest, Tuning, Zenon
  <2>3. n \in Nat /\ n < Len(h) /\ Occurrences(h, n) # {}
    BY Tuning
  <2>4. /\ Len(h) - n - 1 \in Nat
        /\ Occurrences(h, n) \in SUBSET (0..(Len(h) - n - 1))
    BY <1>1, <2>3 DEF Occurrences
  <2>5. PICK o \in Occurrences(h, n) : o = Max(Occurrences(h, n))
    BY <2>3, <2>4, Greatest, Zenon
  <2>6. o + n \in 0..Len(h)
    BY <1>1, <2>3, <2>4
  <2>7. find_draft(h, k) = SubSeq(h, o + n + 1, Min({Len(h), o + n + k}))
    BY <1>3, <2>2, <2>5, Zenon DEF find_draft
  <2> QED
    BY <2>6, <2>7, Continuation
<1> QED
  BY <1>2, <1>3

LEMMA CorpusDraftType ==
  ASSUME corpus \subseteq Seq(Token), NEW h, NEW k \in Nat,
         NEW d \in CorpusDrafts(h, k)
  PROVE  d \in Seq(Token) /\ Len(d) <= k
<1>1. PICK s \in corpus : \E i \in corpus_ngram..(Len(s) - 1) :
        d = SubSeq(s, i + 1, Min({Len(s), i + k}))
  BY DEF CorpusDrafts
<1>2. PICK i \in corpus_ngram..(Len(s) - 1) :
        d = SubSeq(s, i + 1, Min({Len(s), i + k}))
  BY <1>1
<1>3. s \in Seq(Token) /\ i \in 0..Len(s)
  BY <1>2, Tuning, LenProperties
<1> QED
  BY <1>2, <1>3, Continuation

LEMMA FormDraftType ==
  ASSUME NEW h \in Seq(Token), h # <<>>, NEW k \in Nat
  PROVE  FormDraft(h, k) \in Seq(Token) /\ Len(FormDraft(h, k)) <= k
<1> DEFINE f == form_draft[Last(h)]
<1>1. f \in Seq(Token) /\ Len(f) \in Nat
  BY Ends, Tuning, LenProperties
<1>2. 0 \in 0..Len(f) /\ 0 + 1 = 1 /\ 0 + k = k
  BY <1>1
<1>3. /\ SubSeq(f, 0 + 1, Min({Len(f), 0 + k})) \in Seq(Token)
      /\ Len(SubSeq(f, 0 + 1, Min({Len(f), 0 + k}))) <= k
  BY <1>1, <1>2, Continuation, Zenon
<1> QED
  BY <1>2, <1>3 DEF FormDraft

-----------------------------------------------------------------------------
(* Verification                                                            *)

\* A verdict accepts the whole draft, or a beginning of it and corrects the
\* token after.
LEMMA VerdictForm ==
  ASSUME NEW d, NEW v \in Verdicts(d)
  PROVE  \E i \in 0..Len(d) :
           /\ Wild(d) \/ \A j \in 1..i : d[j] \in SupportAt(d, j)
           /\ IF i = Len(d) THEN v = SubSeq(d, 1, i) \o <<>>
              ELSE \E t \in Likely(d, i + 1) :
                     t # d[i + 1] /\ v = SubSeq(d, 1, i) \o <<t>>
<1>1. PICK i \in 0..Len(d) :
        /\ Wild(d) \/ \A j \in 1..i : d[j] \in SupportAt(d, j)
        /\ \E c \in IF i = Len(d) THEN {<<>>}
                    ELSE {<<t>> : t \in Likely(d, i + 1) \ {d[i + 1]}} :
             v = SubSeq(d, 1, i) \o c
  BY Zenon DEF Verdicts
<1> QED
  BY <1>1

\* Cutting a sequence back.
LEMMA Truncation ==
  ASSUME NEW s \in Seq(Token), NEW t \in Seq(Token), NEW n \in 0..Len(t)
  PROVE  Truncated(Exact(s \o t), Len(s) + n) = Exact(s \o SubSeq(t, 1, n))
<1>1. Len(s) \in Nat /\ Len(t) \in Nat /\ Len(s \o t) = Len(s) + Len(t)
  BY ConcatProperties, LenProperties
<1>2. SubSeq(t, 1, n) \in Seq(Token) /\ Len(SubSeq(t, 1, n)) = n
  BY Beginning
<1>3. Len(s \o SubSeq(t, 1, n)) = Len(s) + n
  BY <1>2, ConcatProperties
<1>4. CASE n = Len(t)
  <2>1. SubSeq(t, 1, n) = t
    BY <1>4, SubSeqFull
  <2>2. Len(s) + n >= Exact(s \o t).n_past
    BY <1>1, <1>4 DEF Exact
  <2> QED
    BY <2>1, <2>2, Zenon DEF Truncated
<1>5. CASE n # Len(t)
  <2>1. SubSeq(s \o t, 1, Len(s) + n) = s \o SubSeq(t, 1, n)
    BY CutConcat
  <2>2. ~(Len(s) + n >= Len(s \o t))
    BY <1>1, <1>5
  <2>3. /\ Exact(s \o t).kv = s \o t /\ Exact(s \o t).n_past = Len(s \o t)
        /\ Exact(s \o SubSeq(t, 1, n))
             = [kv |-> s \o SubSeq(t, 1, n), n_past |-> Len(s) + n]
    BY <1>3 DEF Exact
  <2> QED
    BY <2>1, <2>2, <2>3, Zenon DEF Truncated
<1> QED
  BY <1>4, <1>5

\* The beginnings of a draft are those of the draft without its last token.
LEMMA FrontBeginning ==
  ASSUME NEW S, NEW d \in Seq(S), d # <<>>, NEW n \in 0..(Len(d) - 1)
  PROVE  SubSeq(Front(d), 1, n) = SubSeq(d, 1, n)
<1>1. /\ Front(d) \in Seq(S) /\ Len(Front(d)) = Len(d) - 1 /\ Len(d) \in Nat \ {0}
      /\ \A i \in 1..(Len(d) - 1) : Front(d)[i] = d[i]
  BY Ends
<1>2. n \in 0..Len(d) /\ n \in 0..Len(Front(d))
  BY <1>1
<1>3. /\ SubSeq(d, 1, n) \in Seq(S) /\ Len(SubSeq(d, 1, n)) = n
      /\ \A i \in 1..n : SubSeq(d, 1, n)[i] = d[i]
  BY <1>2, Beginning
<1>4. /\ SubSeq(Front(d), 1, n) \in Seq(S) /\ Len(SubSeq(Front(d), 1, n)) = n
      /\ \A i \in 1..n : SubSeq(Front(d), 1, n)[i] = Front(d)[i]
  BY <1>1, <1>2, Beginning
<1>5. \A i \in 1..n : SubSeq(Front(d), 1, n)[i] = SubSeq(d, 1, n)[i]
  BY <1>1, <1>3, <1>4
<1> QED
  BY <1>3, <1>4, <1>5, SeqEqual

-----------------------------------------------------------------------------
(* Every step keeps the invariant                                          *)

\* What the invariant says of a call in progress.
LEMMA Running ==
  ASSUME DecoderInv, pc # "idle"
  PROVE  /\ history \in Seq(Token)
         /\ history # <<>> /\ Len(history) \in Nat \ {0}
         /\ ~overrun => history \in Seq(model.vocab) /\ cur \in model.vocab
         /\ model \in Model /\ cur \in Token /\ overrun \in BOOLEAN
         /\ <<cur>> \in Seq(Token) /\ Front(history) \in Seq(Token)
         /\ Len(Front(history)) = Len(history) - 1
         /\ target \in Backend /\ draft_model \in Backend
<1>1. /\ history \in Seq(Token) /\ history # <<>> /\ overrun \in BOOLEAN
      /\ ~overrun => history \in Seq(model.vocab)
      /\ model \in Model /\ target \in Backend /\ draft_model \in Backend
  BY DEF DecoderInv, SpeculativeTypeOK, TextInv
<1>2. ~overrun => cur \in model.vocab
  BY <1>1, Ends DEF cur
<1>3. cur \in Token /\ <<cur>> \in Seq(Token)
  BY <1>1, Ends DEF cur
<1> QED
  BY <1>1, <1>2, <1>3, Ends

\* A call that is over leaves backends, and its text in the archive.
LEMMA EndOfCall ==
  ASSUME DecoderInv, EndCall, target' \in Backend, draft_model' \in Backend,
         speculative_active' \in BOOLEAN, overrun' \in BOOLEAN,
         UNCHANGED <<current_draft_tokens, total_draft_tokens,
                     total_accepted_tokens>>
  PROVE  DecoderInv'
<1>1. <<>> \in Seq(Token) /\ Len(<<>>) = 0
  BY EmptySeq
<1>2. SpeculativeTypeOK'
  <2>1. /\ pc' = "idle" /\ history' = <<>> /\ draft' = <<>> /\ verdict' = <<>>
        /\ base' = 0 /\ emitted' = 0 /\ max_tokens' = 0 /\ accepted' = 0
        /\ lookup_skip' = FALSE /\ UNCHANGED <<mode, model>>
    BY DEF EndCall
  <2>2. Len(history') <= n_ctx
    BY <1>1, <2>1, Tuning
  <2>3. /\ (mode \in {"model", "lookup"} /\ model \in Model)'
        /\ (current_draft_tokens \in min_draft_tokens..max_draft_tokens)'
        /\ (total_accepted_tokens <= total_draft_tokens)'
    BY <2>1 DEF DecoderInv, SpeculativeTypeOK
  <2>4. ({base, emitted, max_tokens, accepted} \subseteq Nat)' /\ (emitted <= max_tokens)'
    BY <2>1
  <2>5. (lookup_skip \in BOOLEAN /\ overrun \in BOOLEAN)'
    BY <2>1
  <2> QED
    BY <1>1, <2>1, <2>2, <2>3, <2>4, <2>5 DEF SpeculativeTypeOK
<1>3. TextInv'
  <2>1. corpus \subseteq Seq(Token) /\ history \in Seq(Token)
    BY DEF DecoderInv, TextInv, SpeculativeTypeOK
  <2>2. corpus' \subseteq Seq(Token)
    BY <2>1 DEF EndCall
  <2> QED
    BY <2>2 DEF DecoderInv, TextInv, EndCall
<1>4. KvBehindByOne' /\ VerifyInv' /\ EmitInv'
  BY DEF KvBehindByOne, InLoop, VerifyInv, EmitInv, EndCall
<1> QED
  BY <1>2, <1>3, <1>4 DEF DecoderInv

LEMMA StepThrow ==
  ASSUME DecoderInv, NEW ts \in Seq(Token), Throw(ts), overrun' \in BOOLEAN
  PROVE  DecoderInv'
<1>1. target' \in Backend
  BY Decoding DEF Throw, DecoderInv, SpeculativeTypeOK
<1>2. EndCall /\ UNCHANGED <<draft_model, speculative_active, current_draft_tokens,
                             total_draft_tokens, total_accepted_tokens>>
  BY DEF Throw, decoder_vars
<1>3. draft_model' \in Backend /\ speculative_active' \in BOOLEAN
  BY <1>2 DEF DecoderInv, SpeculativeTypeOK
<1> QED
  BY <1>1, <1>2, <1>3, EndOfCall

\* The prefill puts both models one token behind the prompt.
LEMMA StepGenerate ==
  ASSUME DecoderInv, NEW p \in Prompt, NEW n \in 0..MaxNew, generate_stream(p, n)
  PROVE  DecoderInv'
<1>1. /\ model \in Model /\ p \in Seq(model.vocab) /\ p # <<>>
      /\ Len(p) <= n_ctx /\ model.vocab \subseteq Token
  BY ModelType DEF DecoderInv, SpeculativeTypeOK
<1>2. p \in Seq(Token) /\ Len(p) \in Nat \ {0} /\ n \in Nat
  BY <1>1, SeqMonotonic, EmptySeq, Tuning
<1>3. /\ Prefilled(p) = Exact(Front(p)) /\ Prefilled(p) \in Backend
      /\ DecodeFailures(Fresh, Front(p)) \subseteq Backend
      /\ Len(Front(p)) = Len(p) - 1
  BY <1>1, <1>2, Prefills, Ends
<1>4. /\ history' = p /\ base' = Len(p) - 1 /\ emitted' = 0 /\ max_tokens' = n
      /\ target' = Prefilled(p) /\ pc' = "head" /\ pc = "idle"
      /\ UNCHANGED <<mode, model, corpus, current_draft_tokens, total_draft_tokens,
                     total_accepted_tokens, lookup_skip, draft, verdict, accepted,
                     overrun>>
  BY DEF generate_stream
<1>5. /\ draft_model' \in Backend /\ speculative_active' \in BOOLEAN
      /\ speculative_active' /\ mode = "model" => draft_model' = Prefilled(p)
  BY <1>3 DEF generate_stream, PrefillDraft, DecoderInv, SpeculativeTypeOK
<1>6. SpeculativeTypeOK'
  BY <1>1, <1>2, <1>3, <1>4, <1>5, Tuning DEF DecoderInv, SpeculativeTypeOK
<1>7. TextInv'
  BY <1>1, <1>4 DEF DecoderInv, TextInv
<1>8. KvBehindByOne'
  BY <1>3, <1>4, <1>5 DEF KvBehindByOne, Exact
<1>9. VerifyInv' /\ EmitInv'
  BY <1>4 DEF VerifyInv, EmitInv
<1> QED
  BY <1>6, <1>7, <1>8, <1>9 DEF DecoderInv

LEMMA StepPrefillThrows ==
  ASSUME DecoderInv, NEW p \in Prompt, PrefillThrows(p)
  PROVE  DecoderInv'
<1>1. /\ model \in Model /\ p \in Seq(model.vocab) /\ p # <<>>
      /\ model.vocab \subseteq Token
  BY ModelType DEF DecoderInv, SpeculativeTypeOK
<1>2. p \in Seq(Token)
  BY <1>1, SeqMonotonic
<1>3. target' \in Backend
  BY <1>1, <1>2, Prefills DEF PrefillThrows
<1>4. /\ pc = "idle" /\ corpus' \subseteq corpus \cup {p}
      /\ UNCHANGED <<mode, model, draft_model, speculative_active,
                     current_draft_tokens, total_draft_tokens,
                     total_accepted_tokens, pc, history, base, emitted,
                     max_tokens, lookup_skip, draft, verdict, accepted, overrun>>
  BY DEF PrefillThrows, decoder_vars
<1>5. SpeculativeTypeOK'
  BY <1>3, <1>4 DEF DecoderInv, SpeculativeTypeOK
<1>6. TextInv'
  BY <1>2, <1>4 DEF DecoderInv, TextInv
<1>7. KvBehindByOne' /\ VerifyInv' /\ EmitInv'
  BY <1>4 DEF KvBehindByOne, InLoop, VerifyInv, EmitInv
<1> QED
  BY <1>5, <1>6, <1>7 DEF DecoderInv

LEMMA StepLoopEnd ==
  ASSUME DecoderInv, LoopEnd
  PROVE  DecoderInv'
<1>1. /\ EndCall
      /\ UNCHANGED <<target, draft_model, speculative_active, current_draft_tokens,
                     total_draft_tokens, total_accepted_tokens, overrun>>
  BY DEF LoopEnd, decoder_vars
<1> QED
  BY <1>1, EndOfCall DEF DecoderInv, SpeculativeTypeOK

\* A draft leaves room for itself.
LEMMA DraftRoom ==
  ASSUME DecoderInv, InLoop
  PROVE  n_draft \in Nat /\ n_draft <= n_ctx - Len(history)
<1>1. /\ Len(history) \in Nat /\ Len(history) < n_ctx
      /\ current_draft_tokens \in min_draft_tokens..max_draft_tokens
  BY LenProperties DEF InLoop, DecoderInv, SpeculativeTypeOK
<1>2. current_draft_tokens \in Nat /\ n_ctx - Len(history) \in Nat
  BY <1>1, Tuning
<1> QED
  BY <1>2, OfTwo DEF n_draft

\* A draft of a few tokens takes the loop to the verification.
LEMMA Drafted ==
  ASSUME DecoderInv, DraftStep, pc' = "verify",
         UNCHANGED <<speculative_active, lookup_skip>>,
         draft' \in Seq(Token), draft' # <<>>, Len(draft') <= n_draft,
         draft_model' \in Backend,
         mode = "model" => /\ speculative_active
                           /\ draft_model' = Exact(Front(history) \o Batch(draft'))
  PROVE  DecoderInv'
<1>1. /\ InLoop /\ pc = "head"
      /\ UNCHANGED <<mode, model, target, corpus, current_draft_tokens,
                     total_draft_tokens, total_accepted_tokens, history, base,
                     emitted, max_tokens, verdict, accepted, overrun>>
  BY DEF DraftStep, InLoop
<1>2. /\ Len(draft') <= n_ctx - Len(history) /\ Len(history) \in Nat
      /\ emitted < max_tokens /\ Len(history) < n_ctx
  <2>1. Len(draft') \in Nat /\ Len(history) \in Nat
    BY LenProperties DEF DecoderInv, SpeculativeTypeOK
  <2> QED
    BY <1>1, <2>1, DraftRoom, Tuning DEF InLoop
<1>3. target = Exact(Front(history)) /\ base = Len(history) - 1
  <2>1. Len(Front(history)) = Len(history) - 1
    BY <1>1, Running
  <2> QED
    BY <1>1, <2>1 DEF DecoderInv, KvBehindByOne, Exact
<1>4. SpeculativeTypeOK'
  BY <1>1 DEF DecoderInv, SpeculativeTypeOK
<1>5. TextInv'
  BY <1>1 DEF DecoderInv, TextInv
<1>6. Batch(draft)' = Batch(draft')
  BY <1>1 DEF Batch, cur
<1>7. VerifyInv'
  BY <1>1, <1>2, <1>3, <1>6 DEF VerifyInv
<1>8. KvBehindByOne' /\ EmitInv'
  BY <1>1 DEF KvBehindByOne, InLoop, EmitInv
<1> QED
  BY <1>4, <1>5, <1>7, <1>8 DEF DecoderInv

\* A bounded sequence is a sequence.
LEMMA SeqOfType ==
  ASSUME NEW S, NEW n \in Nat, NEW d \in SeqOf(S, n)
  PROVE  d \in Seq(S) /\ Len(d) <= n
<1>1. PICK m \in 0..n : d \in [1..m -> S]
  BY DEF SeqOf
<1>2. d \in Seq(S)
  BY <1>1, SeqDef
<1> QED
  BY <1>1, <1>2, LenProperties

LEMMA StepModelDraft ==
  ASSUME DecoderInv, ModelDraft
  PROVE  DecoderInv'
<1>1. /\ DraftStep /\ InLoop /\ pc = "head" /\ mode = "model" /\ speculative_active
      /\ pc' = "verify" /\ UNCHANGED <<speculative_active, lookup_skip>>
  BY DEF ModelDraft, DraftStep, InLoop, StillActive
<1>2. PICK d \in SeqOf(DraftVocab, n_draft) :
        d # <<>> /\ draft_model' = Decoded(draft_model, Batch(d)) /\ draft' = d
  BY DEF ModelDraft
<1>3. /\ history \in Seq(Token) /\ history # <<>> /\ model \in Model
      /\ Front(history) \in Seq(Token) /\ Len(Front(history)) = Len(history) - 1
      /\ draft_model \in Backend
  BY <1>1, Running
<1>4. d \in Seq(Token) /\ Len(d) <= n_draft
  <2>1. d \in Seq(DraftVocab) /\ Len(d) <= n_draft
    BY <1>1, DraftRoom, SeqOfType
  <2>2. DraftVocab \subseteq Token
    BY Tuning
  <2> QED
    BY <2>1, <2>2, SeqMonotonic
<1>5. Batch(d) \in Seq(Token)
  BY <1>2, <1>3, <1>4, BatchType
<1>6. draft_model = Exact(Front(history))
  BY <1>1, <1>3 DEF DecoderInv, KvBehindByOne, Exact
<1>7. draft_model' = Exact(Front(history) \o Batch(d)) /\ draft_model' \in Backend
  BY <1>2, <1>3, <1>5, <1>6, Decoding
<1> QED
  BY <1>1, <1>2, <1>4, <1>7, Drafted

\* What does not touch the text and only gives up a draft model stays in the
\* loop.
LEMMA StaysInLoop ==
  ASSUME DecoderInv, DraftStep, UNCHANGED <<pc, draft>>,
         draft_model' \in Backend, speculative_active' \in BOOLEAN,
         speculative_active' /\ mode = "model" =>
           speculative_active /\ draft_model' = draft_model,
         lookup_skip' \in BOOLEAN, lookup_skip' => mode = "lookup"
  PROVE  DecoderInv'
<1>1. /\ InLoop /\ pc = "head"
      /\ UNCHANGED <<mode, model, target, corpus, current_draft_tokens,
                     total_draft_tokens, total_accepted_tokens, history, base,
                     emitted, max_tokens, verdict, accepted, overrun>>
  BY DEF DraftStep, InLoop
<1>2. SpeculativeTypeOK'
  BY <1>1 DEF DecoderInv, SpeculativeTypeOK
<1>3. TextInv'
  BY <1>1 DEF DecoderInv, TextInv
<1>4. KvBehindByOne'
  BY <1>1 DEF DecoderInv, KvBehindByOne
<1>5. VerifyInv' /\ EmitInv'
  BY <1>1 DEF VerifyInv, EmitInv
<1> QED
  BY <1>2, <1>3, <1>4, <1>5 DEF DecoderInv

LEMMA StepModelDraftFails ==
  ASSUME DecoderInv, ModelDraftFails
  PROVE  DecoderInv'
<1>1. /\ DraftStep /\ InLoop /\ pc = "head" /\ speculative_active' = FALSE
      /\ UNCHANGED <<pc, draft, lookup_skip>>
  BY DEF ModelDraftFails, DraftStep, InLoop
<1>2. PICK d \in SeqOf(DraftVocab, n_draft) :
        draft_model' \in DecodeFailures(draft_model, <<cur>> \o d)
  BY DEF ModelDraftFails
<1>3. model \in Model /\ <<cur>> \in Seq(Token) /\ draft_model \in Backend
  BY <1>1, Running
<1>4. d \in Seq(Token)
  <2>1. d \in Seq(DraftVocab)
    BY <1>1, DraftRoom, SeqOfType
  <2>2. DraftVocab \subseteq Token
    BY Tuning
  <2> QED
    BY <2>1, <2>2, SeqMonotonic
<1>5. <<cur>> \o d \in Seq(Token)
  BY <1>3, <1>4, ConcatProperties
<1>6. draft_model' \in Backend
  BY <1>2, <1>3, <1>5, Decoding
<1>7. lookup_skip' \in BOOLEAN /\ (lookup_skip' => mode = "lookup")
  BY <1>1 DEF DecoderInv, SpeculativeTypeOK, TextInv
<1> QED
  BY <1>1, <1>6, <1>7, StaysInLoop

\* Every source proposes at most the room there is.
LEMMA StepLookupDraft ==
  ASSUME DecoderInv, LookupDraft
  PROVE  DecoderInv'
<1> DEFINE found == find_draft(history, n_draft)
           archived == CorpusDrafts(history, n_draft)
           form == FormDraft(history, n_draft)
<1>1. /\ DraftStep /\ InLoop /\ pc = "head" /\ mode = "lookup"
      /\ UNCHANGED <<draft_model, speculative_active>>
  BY DEF LookupDraft, DraftStep, InLoop
<1>2. PICK d :
        /\ d = found \/ d \in archived \/ d = form
        /\ IF d = <<>> THEN LookupMiss
           ELSE draft' = d /\ pc' = "verify" /\ UNCHANGED lookup_skip
  <2> HIDE DEF found, archived, form
  <2>1. \E d \in IF found # <<>> THEN {found} ELSE archived \cup {form} :
          IF d = <<>> THEN LookupMiss
          ELSE draft' = d /\ pc' = "verify" /\ UNCHANGED lookup_skip
    BY Zenon DEF LookupDraft, found, archived, form
  <2> QED
    BY <2>1
<1>3. /\ history \in Seq(Token) /\ history # <<>> /\ corpus \subseteq Seq(Token)
      /\ n_draft \in Nat /\ draft_model' \in Backend
      /\ speculative_active' \in BOOLEAN
  BY <1>1, Running, DraftRoom DEF DecoderInv, TextInv, SpeculativeTypeOK
<1>4. d \in Seq(Token) /\ Len(d) <= n_draft
  BY <1>2, <1>3, FindDraftType, CorpusDraftType, FormDraftType
<1>5. CASE d = <<>>
  <2>1. lookup_skip' = TRUE /\ UNCHANGED <<pc, draft>>
    BY <1>2, <1>5 DEF LookupMiss
  <2> QED
    BY <1>1, <1>3, <2>1, StaysInLoop
<1>6. CASE d # <<>>
  <2>1. draft' = d /\ pc' = "verify" /\ UNCHANGED lookup_skip
    BY <1>2, <1>6
  <2> QED
    BY <1>1, <1>3, <1>4, <1>6, <2>1, Drafted
<1> QED
  BY <1>5, <1>6

\* The plain path decodes the newest token and appends the next.
LEMMA StepPlainStep ==
  ASSUME DecoderInv, PlainStep
  PROVE  DecoderInv'
<1>1. /\ InLoop /\ pc = "head" /\ pc' = pc /\ lookup_skip' = FALSE
      /\ ~StillActive \/ lookup_skip
      /\ target' = Decoded(target, <<cur>>) /\ base' = base + 1
      /\ speculative_active' = StillActive /\ emitted' = emitted + 1
      /\ UNCHANGED <<mode, model, draft_model, corpus, current_draft_tokens,
                     total_draft_tokens, total_accepted_tokens, max_tokens,
                     draft, verdict, accepted, overrun>>
  BY DEF PlainStep, InLoop
<1>2. PICK t \in Sampled : history' = Append(history, t)
  BY DEF PlainStep
<1>3. /\ history \in Seq(Token) /\ history # <<>> /\ overrun \in BOOLEAN
      /\ ~overrun => history \in Seq(model.vocab) /\ cur \in model.vocab
      /\ model \in Model /\ <<cur>> \in Seq(Token)
      /\ Front(history) \in Seq(Token) /\ target \in Backend
      /\ Len(history) \in Nat \ {0} /\ Len(Front(history)) = Len(history) - 1
  BY <1>1, Running
<1>4. t \in model.vocab /\ t \in Token
  BY <1>2, <1>3, ModelType DEF Sampled
<1>5. /\ history' \in Seq(Token) /\ (~overrun => history' \in Seq(model.vocab))
      /\ history' # <<>> /\ Len(history') = Len(history) + 1
      /\ Front(history') = history
  BY <1>2, <1>3, <1>4, Appended
<1>6. target = Exact(Front(history)) /\ base = Len(history) - 1
  BY <1>1, <1>3 DEF DecoderInv, KvBehindByOne, Exact
<1>7. target' = Exact(history) /\ target' \in Backend
  <2>1. Front(history) \o <<cur>> = history
    BY <1>3, Ends DEF cur
  <2> QED
    BY <1>1, <1>3, <1>6, <2>1, Decoding
<1>8. speculative_active' \in BOOLEAN
  BY <1>1 DEF StillActive
<1>9. ~(speculative_active' /\ mode = "model")
  BY <1>1 DEF DecoderInv, TextInv
<1>10. /\ Len(history') <= n_ctx /\ emitted' \in Nat /\ base' \in Nat
       /\ emitted' <= max_tokens
  <2>1. /\ emitted \in Nat /\ base \in Nat /\ max_tokens \in Nat
        /\ emitted < max_tokens /\ Len(history) < n_ctx
    BY <1>1 DEF InLoop, DecoderInv, SpeculativeTypeOK
  <2> QED
    BY <1>1, <1>3, <1>5, <2>1, Tuning
<1>11. SpeculativeTypeOK'
  BY <1>1, <1>3, <1>5, <1>7, <1>8, <1>10 DEF DecoderInv, SpeculativeTypeOK
<1>12. TextInv'
  BY <1>1, <1>5 DEF DecoderInv, TextInv
<1>13. KvBehindByOne'
  BY <1>1, <1>3, <1>5, <1>6, <1>7, <1>9 DEF KvBehindByOne, Exact
<1>14. VerifyInv' /\ EmitInv'
  BY <1>1 DEF VerifyInv, EmitInv
<1> QED
  BY <1>11, <1>12, <1>13, <1>14 DEF DecoderInv

LEMMA StepPlainEnd ==
  ASSUME DecoderInv, PlainEnd
  PROVE  DecoderInv'
<1>1. /\ pc = "head" /\ EndCall /\ target' \in DecodeFailures(target, <<cur>>)
      /\ speculative_active' = StillActive
      /\ UNCHANGED <<draft_model, current_draft_tokens, total_draft_tokens,
                     total_accepted_tokens, overrun>>
  BY DEF PlainEnd, InLoop
<1>2. target' \in Backend /\ draft_model' \in Backend /\ overrun' \in BOOLEAN
  BY <1>1, Running, Decoding
<1>3. speculative_active' \in BOOLEAN
  BY <1>1 DEF StillActive
<1> QED
  BY <1>1, <1>2, <1>3, EndOfCall

\* What the verification starts from, and what the target holds once it has
\* seen the whole batch.
LEMMA Verifying ==
  ASSUME DecoderInv, pc = "verify"
  PROVE  /\ draft \in Seq(Token) /\ draft # <<>> /\ Len(draft) \in Nat \ {0}
         /\ base = Len(history) - 1
         /\ Batch(draft) \in Seq(Token) /\ CanDecode(target, Batch(draft))
         /\ Decoded(target, Batch(draft)) = Exact(history \o Front(draft))
         /\ mode = "model" => draft_model = Exact(history \o Front(draft))
<1>1. /\ history \in Seq(Token) /\ history # <<>> /\ Len(history) \in Nat \ {0}
      /\ Front(history) \in Seq(Token) /\ Len(Front(history)) = Len(history) - 1
      /\ target \in Backend
  BY Running
<1>2. /\ draft \in Seq(Token) /\ draft # <<>>
      /\ target = Exact(Front(history)) /\ base = Len(history) - 1
      /\ Len(draft) <= n_ctx - Len(history)
      /\ mode = "model" => draft_model = Exact(Front(history) \o Batch(draft))
  BY DEF DecoderInv, VerifyInv, SpeculativeTypeOK
<1>3. /\ Batch(draft) \in Seq(Token) /\ Len(Batch(draft)) = Len(draft)
      /\ Batch(draft) # <<>>
      /\ Front(history) \o Batch(draft) = history \o Front(draft)
  BY <1>1, <1>2, BatchType
<1>4. Len(draft) \in Nat \ {0}
  BY <1>2, EmptySeq
<1>5. CanDecode(target, Batch(draft))
  <2>1. target.n_past = Len(history) - 1 /\ Len(target.kv) = Len(history) - 1
    BY <1>1, <1>2 DEF Exact
  <2> QED
    BY <1>1, <1>2, <1>3, <1>4, <2>1, Tuning DEF CanDecode
<1>6. Decoded(target, Batch(draft)) = Exact(Front(history) \o Batch(draft))
  BY <1>1, <1>2, <1>3, Decoding
<1> QED
  BY <1>2, <1>3, <1>4, <1>5, <1>6

\* The token after i accepted ones may follow them.
LEMMA SupportInVocabulary ==
  ASSUME DecoderInv, pc # "idle", NEW d, NEW i \in 1..(Len(d) + 1),
         d \in Seq(model.vocab) => Len(d) \in Nat
  PROVE  Likely(d, i) \subseteq model.vocab
<1>1. CASE Wild(d)
  BY <1>1 DEF Likely
<1>2. CASE ~Wild(d)
  <2>1. d \in Seq(model.vocab) /\ model \in Model /\ cur \in model.vocab
    BY <1>2, Running DEF Wild
  <2>2. i # 1 => i - 1 \in 1..Len(d)
    BY <2>1
  <2>3. i # 1 => d[i - 1] \in model.vocab
    BY <2>1, <2>2, ElementOfSeq
  <2> QED
    BY <1>2, <2>1, <2>3, ModelType DEF Likely, SupportAt
<1> QED
  BY <1>1, <1>2

\* What a verdict leaves in the two KV caches: everything up to the token
\* before its last one.
LEMMA VerdictEffect ==
  ASSUME DecoderInv, pc = "verify", NEW v \in Verdicts(draft)
  PROVE  LET n == AcceptedBy(v, draft)
             after == Exact(history \o Front(draft)) IN
         /\ v \in Seq(Token) /\ n \in Nat /\ n <= Len(draft)
         /\ ~Wild(draft) => /\ v \in Seq(model.vocab)
                            /\ \A i \in 1..Len(v) : v[i] \in SupportAt(v, i)
         /\ v = draft => after = Exact(Front(history \o v))
         /\ v # draft => /\ Truncated(after, Keep(n)) = Exact(Front(history \o v))
                         /\ Keep(n) = Len(history) + Len(v) - 1
<1> DEFINE n == AcceptedBy(v, draft)
           after == Exact(history \o Front(draft))
<1>1. /\ history \in Seq(Token) /\ Len(history) \in Nat \ {0}
      /\ draft \in Seq(Token) /\ draft # <<>> /\ Len(draft) \in Nat \ {0}
      /\ base = Len(history) - 1 /\ Front(draft) \in Seq(Token)
      /\ Len(Front(draft)) = Len(draft) - 1
      /\ model \in Model /\ model.vocab \subseteq Token
  BY Running, Verifying, Ends, ModelType
<1>2. PICK i \in 0..Len(draft) :
        /\ Wild(draft) \/ \A j \in 1..i : draft[j] \in SupportAt(draft, j)
        /\ IF i = Len(draft) THEN v = SubSeq(draft, 1, i) \o <<>>
           ELSE \E t \in Likely(draft, i + 1) :
                  t # draft[i + 1] /\ v = SubSeq(draft, 1, i) \o <<t>>
  BY VerdictForm
<1>3. CASE i = Len(draft)
  <2>1. v = draft
    <3>1. SubSeq(draft, 1, Len(draft)) = draft
      BY <1>1, SubSeqFull
    <3>2. draft \o <<>> = draft
      BY <1>1, ConcatEmptySeq
    <3> QED
      BY <1>2, <1>3, <3>1, <3>2
  <2>2. Front(history \o v) = history \o Front(draft)
    BY <1>1, <2>1, FrontOfConcat
  <2>3. n = Len(draft)
    BY <2>1 DEF AcceptedBy
  <2>4. ~Wild(draft) => draft \in Seq(model.vocab)
    BY DEF Wild
  <2> QED
    BY <1>1, <1>2, <1>3, <2>1, <2>2, <2>3, <2>4
<1>4. CASE i # Len(draft)
  <2>1. PICK t \in Likely(draft, i + 1) :
          t # draft[i + 1] /\ v = SubSeq(draft, 1, i) \o <<t>>
    BY <1>2, <1>4
  <2>2. i \in 0..(Len(draft) - 1) /\ i + 1 \in 1..(Len(draft) + 1) /\ i \in Nat
    BY <1>1, <1>4
  <2>3. t \in model.vocab /\ t \in Token
    BY <1>1, <2>1, <2>2, SupportInVocabulary
  <2>4. /\ v \in Seq(Token) /\ Len(v) = i + 1 /\ v # <<>> /\ v # draft
        /\ Front(v) = SubSeq(draft, 1, i)
        /\ v[i + 1] = t /\ \A j \in 1..i : v[j] = draft[j]
    <3>1. PICK s \in Seq(Token) : s = SubSeq(draft, 1, i)
      BY <1>1, Beginning
    <3>2. Len(s) = i /\ \A j \in 1..i : s[j] = draft[j]
      BY <1>1, <3>1, Beginning
    <3>3. v = Append(s, t)
      BY <2>1, <2>3, <3>1, AppendIsConcat
    <3>4. /\ v \in Seq(Token) /\ v # <<>> /\ Len(v) = i + 1 /\ Front(v) = s
      BY <2>3, <3>2, <3>3, Appended
    <3>5. v[i + 1] = t /\ \A j \in 1..i : v[j] = draft[j]
      BY <2>2, <2>3, <3>2, <3>3, AppendProperties
    <3>6. v # draft
      BY <2>1, <3>5
    <3> QED
      BY <3>1, <3>4, <3>5, <3>6
  <2>5. n = i /\ n \in Nat /\ n <= Len(draft)
    BY <1>1, <2>2, <2>4 DEF AcceptedBy
  <2>6. ASSUME ~Wild(draft), NEW j \in 1..Len(v)
        PROVE  v[j] \in SupportAt(v, j)
    <3>1. j \in 1..i \/ j = i + 1
      BY <2>2, <2>4
    <3>2. j # 1 => j - 1 \in 1..i
      BY <2>2, <2>4
    <3>3. SupportAt(v, j) = SupportAt(draft, j)
      BY <2>4, <3>2 DEF SupportAt
    <3>4. v[j] \in SupportAt(draft, j)
      BY <1>2, <2>1, <2>4, <2>6, <3>1 DEF Likely
    <3> QED
      BY <3>3, <3>4
  <2>7. ASSUME ~Wild(draft)
        PROVE  v \in Seq(model.vocab)
    <3>1. draft \in Seq(model.vocab) /\ i \in 0..Len(draft)
      BY <2>7 DEF Wild
    <3>2. SubSeq(draft, 1, i) \in Seq(model.vocab)
      BY <3>1, Beginning
    <3>3. <<t>> \in Seq(model.vocab)
      BY <2>3, Singleton
    <3> QED
      BY <2>1, <3>2, <3>3, ConcatProperties
  <2>8. Front(history \o v) = history \o SubSeq(draft, 1, i)
    BY <1>1, <2>4, FrontOfConcat, ZenonT(30)
  <2>9. Keep(n) = Len(history) + i /\ Keep(n) = Len(history) + Len(v) - 1
    BY <1>1, <2>2, <2>4, <2>5 DEF Keep
  <2>10. Truncated(after, Len(history) + i) = Exact(history \o SubSeq(draft, 1, i))
    <3>1. SubSeq(Front(draft), 1, i) = SubSeq(draft, 1, i)
      BY <1>1, <2>2, FrontBeginning
    <3>2. Truncated(after, Len(history) + i)
            = Exact(history \o SubSeq(Front(draft), 1, i))
      <4>1. i \in 0..Len(Front(draft))
        BY <1>1, <2>2
      <4> QED
        BY <1>1, <4>1, Truncation
    <3> QED
      BY <3>1, <3>2
  <2> QED
    BY <2>4, <2>5, <2>6, <2>7, <2>8, <2>9, <2>10
<1> QED
  BY <1>3, <1>4

LEMMA StepVerify ==
  ASSUME DecoderInv, Verify
  PROVE  DecoderInv'
<1> DEFINE after == Exact(history \o Front(draft))
<1>1. /\ pc = "verify" /\ overrun' = Wild(draft) /\ pc' = "emit"
      /\ total_draft_tokens' = total_draft_tokens + Len(draft)
      /\ UNCHANGED <<mode, model, corpus, speculative_active,
                     current_draft_tokens, history, emitted, max_tokens,
                     lookup_skip, draft>>
  BY DEF Verify
<1>2. /\ draft \in Seq(Token) /\ Len(draft) \in Nat \ {0}
      /\ base = Len(history) - 1
      /\ Decoded(target, Batch(draft)) = after
      /\ mode = "model" => draft_model = after
  BY <1>1, Verifying
<1>3. PICK v \in Verdicts(draft) :
        LET n == AcceptedBy(v, draft) IN
        /\ verdict' = v /\ accepted' = n
        /\ IF v # draft
           THEN /\ target' = Truncated(Decoded(target, Batch(draft)), Keep(n))
                /\ draft_model' = IF mode = "model"
                                  THEN Truncated(draft_model, Keep(n))
                                  ELSE draft_model
                /\ base' = Keep(n)
           ELSE /\ target' = Decoded(target, Batch(draft))
                /\ base' = base + Len(draft)
                /\ UNCHANGED draft_model
        /\ total_accepted_tokens' = total_accepted_tokens + n
  BY Zenon DEF Verify
<1> DEFINE n == AcceptedBy(v, draft)
<1>4. /\ v \in Seq(Token) /\ n \in Nat /\ n <= Len(draft)
      /\ ~Wild(draft) => /\ v \in Seq(model.vocab)
                         /\ \A i \in 1..Len(v) : v[i] \in SupportAt(v, i)
      /\ v = draft => after = Exact(Front(history \o v))
      /\ v # draft => /\ Truncated(after, Keep(n)) = Exact(Front(history \o v))
                      /\ Keep(n) = Len(history) + Len(v) - 1
  BY <1>1, VerdictEffect
<1>5. /\ verdict' = v /\ accepted' = n
      /\ total_accepted_tokens' = total_accepted_tokens + n
  BY <1>3
<1>6. /\ history \in Seq(Token) /\ history # <<>> /\ Len(history) \in Nat \ {0}
      /\ ~Wild(draft) => history \in Seq(model.vocab)
      /\ model \in Model /\ model.vocab \subseteq Token
      /\ target \in Backend /\ draft_model \in Backend
      /\ Wild(draft) \in BOOLEAN
  BY <1>1, Running, ModelType DEF Wild
<1>7. target' = Exact(Front(history \o v)) /\ base' = Len(history) + Len(v) - 1
  <2>1. CASE v = draft
    <3>1. target' = after /\ base' = base + Len(draft)
      BY <1>2, <1>3, <2>1
    <3> QED
      BY <1>2, <1>4, <1>6, <2>1, <3>1
  <2>2. CASE v # draft
    <3>1. target' = Truncated(after, Keep(n)) /\ base' = Keep(n)
      BY <1>2, <1>3, <2>2
    <3> QED
      BY <1>4, <2>2, <3>1
  <2> QED
    BY <2>1, <2>2
<1>8. mode = "model" => draft_model' = target'
  <2>1. CASE v = draft
    BY <1>2, <1>3, <2>1
  <2>2. CASE v # draft
    BY <1>2, <1>3, <2>2
  <2> QED
    BY <2>1, <2>2
<1>9. /\ v \in Seq(Token) /\ Len(v) \in Nat
      /\ target' \in Backend /\ draft_model' \in Backend
  <2>1. v \in Seq(Token) /\ Len(v) \in Nat
    BY <1>4, LenProperties
  <2>2. history \o v \in Seq(Token) /\ Len(history \o v) = Len(history) + Len(v)
    BY <1>6, <2>1, ConcatProperties
  <2>3. history \o v # <<>>
    BY <1>6, <2>1, <2>2
  <2>4. target' \in Backend
    BY <1>7, <2>2, <2>3, Ends, ExactBackend
  <2>5. draft_model' \in Backend
    <3>1. CASE mode = "model"
      BY <1>8, <2>4, <3>1
    <3>2. CASE mode # "model"
      BY <1>3, <1>6, <3>2
    <3> QED
      BY <3>1, <3>2
  <2> QED
    BY <2>1, <2>4, <2>5
<1>10. /\ {total_draft_tokens', total_accepted_tokens'} \subseteq Nat
       /\ total_accepted_tokens' <= total_draft_tokens'
  <2>1. /\ total_draft_tokens \in Nat /\ total_accepted_tokens \in Nat
        /\ total_accepted_tokens <= total_draft_tokens
    BY DEF DecoderInv, SpeculativeTypeOK, TextInv
  <2> QED
    BY <1>1, <1>2, <1>4, <1>5, <2>1
<1>11. base' \in Nat
  BY <1>6, <1>7, <1>9
<1>12. SpeculativeTypeOK'
  BY <1>1, <1>4, <1>5, <1>6, <1>9, <1>10, <1>11 DEF DecoderInv, SpeculativeTypeOK
<1>13. TextInv'
  BY <1>1, <1>6, <1>10 DEF DecoderInv, TextInv
<1>14. EmitInv'
  <2>1. ~Wild(draft) =>
          (\A i \in 1..Len(verdict) : verdict[i] \in SupportAt(verdict, i))'
    BY <1>1, <1>4, <1>5 DEF SupportAt, cur
  <2> QED
    BY <1>1, <1>4, <1>5, <1>7, <1>8, <2>1 DEF EmitInv
<1>15. KvBehindByOne' /\ VerifyInv'
  BY <1>1 DEF KvBehindByOne, InLoop, VerifyInv
<1> QED
  BY <1>12, <1>13, <1>14, <1>15 DEF DecoderInv

LEMMA StepVerifyThrows ==
  ASSUME DecoderInv, VerifyThrows
  PROVE  DecoderInv'
<1>1. overrun' \in BOOLEAN
  BY Running DEF VerifyThrows, Wild
<1> QED
  BY <1>1, Verifying, StepThrow DEF VerifyThrows

\* A token delivered moves from the verdict to the text; the KV caches do not
\* notice.
LEMMA StepEmit ==
  ASSUME DecoderInv, Emit
  PROVE  DecoderInv'
<1>1. /\ pc = "emit" /\ pc' = pc /\ verdict # <<>>
      /\ emitted < max_tokens /\ Len(history) < n_ctx
      /\ history' = Append(history, Head(verdict)) /\ verdict' = Tail(verdict)
      /\ emitted' = emitted + 1
      /\ UNCHANGED <<mode, model, target, draft_model, corpus,
                     speculative_active, current_draft_tokens,
                     total_draft_tokens, total_accepted_tokens, base,
                     max_tokens, lookup_skip, draft, accepted, overrun>>
  BY DEF Emit, decoder_vars
<1>2. /\ history \in Seq(Token) /\ verdict \in Seq(Token)
      /\ Len(history) \in Nat \ {0} /\ Len(verdict) \in Nat \ {0}
      /\ ~overrun => history \in Seq(model.vocab) /\ verdict \in Seq(model.vocab)
  <2>1. /\ history \in Seq(Token) /\ Len(history) \in Nat \ {0}
        /\ ~overrun => history \in Seq(model.vocab)
    BY <1>1, Running
  <2>2. verdict \in Seq(Token) /\ (~overrun => verdict \in Seq(model.vocab))
    BY <1>1 DEF DecoderInv, EmitInv, SpeculativeTypeOK
  <2> QED
    BY <1>1, <2>1, <2>2, EmptySeq
<1>3. /\ Head(verdict) \in Token /\ Head(verdict) = verdict[1]
      /\ Tail(verdict) \in Seq(Token) /\ Len(Tail(verdict)) = Len(verdict) - 1
      /\ \A i \in 1..(Len(verdict) - 1) : Tail(verdict)[i] = verdict[i + 1]
  <2>1. /\ Head(verdict) \in Token /\ Tail(verdict) \in Seq(Token)
        /\ Len(Tail(verdict)) = Len(verdict) - 1
        /\ \A i \in 1..Len(Tail(verdict)) : Tail(verdict)[i] = verdict[i + 1]
    BY <1>1, <1>2, HeadTailProperties
  <2>2. Head(verdict) = verdict[1]
    BY <1>1, <1>2
  <2> QED
    BY <2>1, <2>2
<1>4. /\ history' \in Seq(Token) /\ history' # <<>>
      /\ Len(history') = Len(history) + 1 /\ cur' = Head(verdict)
  BY <1>1, <1>2, <1>3, Appended DEF cur
<1>5. /\ verdict' \in Seq(Token)
      /\ ~overrun => history' \in Seq(model.vocab) /\ verdict' \in Seq(model.vocab)
  <2>1. ASSUME ~overrun
        PROVE  history' \in Seq(model.vocab) /\ verdict' \in Seq(model.vocab)
    <3>1. Head(verdict) \in model.vocab /\ Tail(verdict) \in Seq(model.vocab)
      BY <1>1, <1>2, <2>1, HeadTailProperties
    <3> QED
      BY <1>1, <1>2, <2>1, <3>1, Appended
  <2> QED
    BY <1>1, <1>3, <2>1
<1>6. history' \o verdict' = history \o verdict
  <2>1. PICK h \in Seq(Token) : h = history
    BY <1>2
  <2>2. PICK u \in Seq(Token) : u = <<Head(verdict)>>
    BY <1>3, Singleton
  <2>3. PICK w \in Seq(Token) : w = Tail(verdict)
    BY <1>3
  <2>4. Append(history, Head(verdict)) = h \o u
    BY <1>2, <1>3, <2>1, <2>2, AppendIsConcat
  <2>5. verdict = u \o w
    <3>1. 1 \in 1..Len(verdict) /\ Len(verdict) \in 1..Len(verdict) /\ 1 + 1 = 2
      BY <1>2
    <3>2. SubSeq(verdict, 1, Len(verdict))
            = <<verdict[1]>> \o SubSeq(verdict, 1 + 1, Len(verdict))
      BY <1>2, <3>1, SubSeqRecursiveFirst
    <3>3. /\ SubSeq(verdict, 1, Len(verdict)) = verdict
          /\ Tail(verdict) = SubSeq(verdict, 2, Len(verdict))
      BY <1>1, <1>2, SubSeqFull, TailIsSubSeq
    <3> QED
      BY <1>3, <2>2, <2>3, <3>1, <3>2, <3>3
  <2>6. (h \o u) \o w = h \o (u \o w)
    BY ConcatAssociative
  <2> QED
    BY <1>1, <2>1, <2>3, <2>4, <2>5, <2>6
<1>7. Len(history') <= n_ctx /\ emitted' \in Nat /\ emitted' <= max_tokens
  <2>1. emitted \in Nat /\ max_tokens \in Nat
    BY DEF DecoderInv, SpeculativeTypeOK
  <2> QED
    BY <1>1, <1>2, <1>4, <2>1, Tuning
<1>8. SpeculativeTypeOK'
  BY <1>1, <1>4, <1>5, <1>7 DEF DecoderInv, SpeculativeTypeOK
<1>9. TextInv'
  BY <1>1, <1>4, <1>5 DEF DecoderInv, TextInv
<1>10. EmitInv'
  <2>1. /\ target = Exact(Front(history \o verdict))
        /\ base = Len(history) + Len(verdict) - 1
        /\ speculative_active /\ mode = "model" => draft_model = target
        /\ ~overrun => \A i \in 1..Len(verdict) : verdict[i] \in SupportAt(verdict, i)
    BY <1>1 DEF DecoderInv, EmitInv
  <2>2. base' = Len(history') + Len(verdict') - 1
    BY <1>1, <1>2, <1>3, <1>4, <2>1
  <2>3. target' = Exact(Front(history' \o verdict'))
    BY <1>1, <1>6, <2>1
  <2>4. ASSUME ~overrun, NEW i \in 1..Len(verdict')
        PROVE  verdict'[i] \in SupportAt(verdict, i)'
    <3>1. i + 1 \in 1..Len(verdict) /\ i + 1 # 1 /\ i + 1 - 1 = i
      BY <1>1, <1>2, <1>3
    <3>2. verdict'[i] = verdict[i + 1] /\ verdict[i + 1] \in model.support[verdict[i]]
      <4>1. verdict'[i] = verdict[i + 1]
        BY <1>1, <1>2, <1>3, <3>1
      <4>2. verdict[i + 1] \in SupportAt(verdict, i + 1)
        BY <2>1, <2>4, <3>1
      <4>3. SupportAt(verdict, i + 1) = model.support[verdict[i]]
        BY <3>1 DEF SupportAt
      <4> QED
        BY <4>1, <4>2, <4>3
    <3>3. SupportAt(verdict, i)' = model.support[verdict[i]]
      <4>1. CASE i = 1
        BY <1>1, <1>3, <1>4, <4>1 DEF SupportAt
      <4>2. CASE i # 1
        <5>1. i - 1 \in 1..(Len(verdict) - 1) /\ i - 1 + 1 = i
          BY <1>1, <1>2, <1>3, <4>2
        <5>2. Tail(verdict)[i - 1] = verdict[i]
          BY <1>3, <5>1
        <5> QED
          BY <1>1, <4>2, <5>2 DEF SupportAt
      <4> QED
        BY <4>1, <4>2
    <3> QED
      BY <3>2, <3>3
  <2> QED
    BY <1>1, <1>5, <2>1, <2>2, <2>3, <2>4 DEF EmitInv
<1>11. KvBehindByOne' /\ VerifyInv'
  BY <1>1 DEF KvBehindByOne, InLoop, VerifyInv
<1> QED
  BY <1>8, <1>9, <1>10, <1>11 DEF DecoderInv

LEMMA StepEmitEnd ==
  ASSUME DecoderInv, EmitEnd
  PROVE  DecoderInv'
<1>1. /\ EndCall
      /\ UNCHANGED <<target, draft_model, speculative_active, current_draft_tokens,
                     total_draft_tokens, total_accepted_tokens, overrun>>
  BY DEF EmitEnd, decoder_vars
<1> QED
  BY <1>1, EndOfCall DEF DecoderInv, SpeculativeTypeOK

\* The draft length stays in its range.
LEMMA AdaptedType ==
  ASSUME DecoderInv
  PROVE  Adapted \in min_draft_tokens..max_draft_tokens
<1>1. /\ current_draft_tokens \in Int /\ min_draft_tokens \in Nat
      /\ max_draft_tokens \in Nat /\ min_draft_tokens <= max_draft_tokens
      /\ min_draft_tokens <= current_draft_tokens
      /\ current_draft_tokens <= max_draft_tokens
  BY Tuning DEF DecoderInv, SpeculativeTypeOK
<1>2. Min({current_draft_tokens + 2, max_draft_tokens})
        \in min_draft_tokens..max_draft_tokens
  BY <1>1, OfTwo
<1>3. Max({current_draft_tokens - 2, min_draft_tokens})
        \in min_draft_tokens..max_draft_tokens
  BY <1>1, OfTwo
<1>4. current_draft_tokens \in min_draft_tokens..max_draft_tokens
  BY <1>1
<1> QED
  BY <1>2, <1>3, <1>4 DEF Adapted

\* The loop goes on only when the whole verdict was delivered: then both KV
\* caches are one token behind again.
LEMMA StepAdapt ==
  ASSUME DecoderInv, Adapt
  PROVE  DecoderInv'
<1>1. /\ pc = "emit" /\ pc' = "head"
      /\ verdict = <<>> \/ emitted >= max_tokens \/ Len(history) >= n_ctx
      /\ current_draft_tokens' = Adapted
      /\ speculative_active' = (speculative_active /\ ~AutoDisabled)
      /\ draft' = <<>> /\ verdict' = <<>> /\ accepted' = 0
      /\ UNCHANGED <<mode, model, target, draft_model, corpus,
                     total_draft_tokens, total_accepted_tokens, history, base,
                     emitted, max_tokens, lookup_skip, overrun>>
  BY DEF Adapt
<1>2. <<>> \in Seq(Token) /\ speculative_active' \in BOOLEAN
      /\ (speculative_active' => speculative_active)
      /\ current_draft_tokens' \in min_draft_tokens..max_draft_tokens
  BY <1>1, EmptySeq, AdaptedType DEF AutoDisabled
<1>3. SpeculativeTypeOK'
  BY <1>1, <1>2 DEF DecoderInv, SpeculativeTypeOK
<1>4. TextInv'
  BY <1>1 DEF DecoderInv, TextInv
<1>5. KvBehindByOne'
  <2> SUFFICES ASSUME emitted < max_tokens, Len(history) < n_ctx
               PROVE  /\ target = [kv |-> Front(history), n_past |-> Len(history) - 1]
                      /\ base = Len(history) - 1
                      /\ speculative_active /\ mode = "model" => draft_model = target
    BY <1>1, <1>2 DEF KvBehindByOne, InLoop
  <2>1. /\ history \in Seq(Token) /\ Len(history) \in Nat \ {0}
        /\ Len(Front(history)) = Len(history) - 1
    BY <1>1, Running
  <2>2. verdict = <<>>
    BY <1>1, <2>1, Tuning DEF DecoderInv, SpeculativeTypeOK
  <2>3. history \o <<>> = history /\ Len(<<>>) = 0
    BY <2>1, ConcatEmptySeq, EmptySeq
  <2>4. /\ target = Exact(Front(history \o verdict))
        /\ base = Len(history) + Len(verdict) - 1
        /\ speculative_active /\ mode = "model" => draft_model = target
    BY <1>1 DEF DecoderInv, EmitInv
  <2> QED
    BY <2>1, <2>2, <2>3, <2>4 DEF Exact
<1>6. VerifyInv' /\ EmitInv'
  BY <1>1 DEF VerifyInv, EmitInv
<1> QED
  BY <1>3, <1>4, <1>5, <1>6 DEF DecoderInv

LEMMA StepRestart ==
  ASSUME DecoderInv, NEW m \in Model, Restart(m)
  PROVE  DecoderInv'
<1>1. /\ pc' = "idle" /\ model' = m /\ target' = Fresh /\ draft_model' = Fresh
      /\ speculative_active' = TRUE /\ current_draft_tokens' = draft_tokens
      /\ total_draft_tokens' = 0 /\ total_accepted_tokens' = 0
      /\ history' = <<>> /\ draft' = <<>> /\ verdict' = <<>> /\ overrun' = FALSE
      /\ base' = 0 /\ emitted' = 0 /\ max_tokens' = 0 /\ accepted' = 0
      /\ lookup_skip' = FALSE /\ UNCHANGED <<mode, corpus>>
  BY DEF Restart
<1>2. /\ draft_tokens \in min_draft_tokens..max_draft_tokens
      /\ <<>> \in Seq(Token) /\ Len(<<>>) <= n_ctx
  BY Tuning, EmptySeq
<1>3. SpeculativeTypeOK'
  <2>1. /\ ({base, emitted, max_tokens, accepted} \subseteq Nat)'
        /\ (emitted <= max_tokens)' /\ (total_accepted_tokens <= total_draft_tokens)'
    BY <1>1
  <2>2. /\ (speculative_active \in BOOLEAN)' /\ (lookup_skip \in BOOLEAN)'
        /\ (overrun \in BOOLEAN)' /\ (pc \in {"idle", "head", "verify", "emit"})'
    BY <1>1
  <2> QED
    BY <1>1, <1>2, <2>1, <2>2, FreshBackend DEF DecoderInv, SpeculativeTypeOK
<1>4. TextInv'
  BY <1>1 DEF DecoderInv, TextInv
<1>5. KvBehindByOne' /\ VerifyInv' /\ EmitInv'
  BY <1>1 DEF KvBehindByOne, InLoop, VerifyInv, EmitInv
<1> QED
  BY <1>3, <1>4, <1>5 DEF DecoderInv

-----------------------------------------------------------------------------
(* Theorems                                                                *)

LEMMA DecoderInitially == Init => DecoderInv
<1> SUFFICES ASSUME Init PROVE DecoderInv
  OBVIOUS
<1>1. <<>> \in Seq(Token) /\ Len(<<>>) = 0
  BY EmptySeq
<1>2. draft_tokens \in min_draft_tokens..max_draft_tokens /\ 0 <= n_ctx
  BY Tuning
<1>3. SpeculativeTypeOK
  <2>1. /\ {base, emitted, max_tokens, accepted} \subseteq Nat
        /\ emitted <= max_tokens /\ total_accepted_tokens <= total_draft_tokens
    BY DEF Init, NewDecoder
  <2>2. /\ speculative_active \in BOOLEAN /\ lookup_skip \in BOOLEAN
        /\ overrun \in BOOLEAN /\ pc \in {"idle", "head", "verify", "emit"}
    BY DEF Init, NewDecoder
  <2> QED
    BY <1>1, <1>2, <2>1, <2>2, FreshBackend DEF Init, NewDecoder, SpeculativeTypeOK
<1>4. TextInv /\ KvBehindByOne /\ VerifyInv /\ EmitInv
  BY DEF Init, NewDecoder, TextInv, KvBehindByOne, InLoop, VerifyInv, EmitInv
<1> QED
  BY <1>3, <1>4 DEF DecoderInv

LEMMA DecoderStutters ==
  ASSUME DecoderInv, UNCHANGED vars
  PROVE  DecoderInv'
<1>1. SpeculativeTypeOK' /\ TextInv'
  BY DEF vars, decoder_vars, DecoderInv, SpeculativeTypeOK, TextInv
<1>2. KvBehindByOne'
  BY DEF vars, decoder_vars, DecoderInv, KvBehindByOne, InLoop
<1>3. VerifyInv' /\ EmitInv'
  BY DEF vars, decoder_vars, DecoderInv, VerifyInv, EmitInv, Batch, SupportAt, cur
<1> QED
  BY <1>1, <1>2, <1>3 DEF DecoderInv

LEMMA DecoderStep ==
  ASSUME DecoderInv, [Next]_vars
  PROVE  DecoderInv'
<1>1. CASE \E p \in Prompt : PrefillThrows(p)
                             \/ \E n \in 0..MaxNew : generate_stream(p, n)
  BY <1>1, StepPrefillThrows, StepGenerate
<1>2. CASE LoopEnd
  BY <1>2, StepLoopEnd
<1>3. CASE ModelDraft
  BY <1>3, StepModelDraft
<1>4. CASE ModelDraftFails
  BY <1>4, StepModelDraftFails
<1>5. CASE LookupDraft
  BY <1>5, StepLookupDraft
<1>6. CASE PlainStep
  BY <1>6, StepPlainStep
<1>7. CASE PlainEnd
  BY <1>7, StepPlainEnd
<1>8. CASE Verify
  BY <1>8, StepVerify
<1>9. CASE VerifyThrows
  BY <1>9, StepVerifyThrows
<1>10. CASE Emit
  BY <1>10, StepEmit
<1>11. CASE EmitEnd
  BY <1>11, StepEmitEnd
<1>12. CASE Adapt
  BY <1>12, StepAdapt
<1>13. CASE \E m \in Model : Restart(m)
  BY <1>13, StepRestart
<1>14. CASE UNCHANGED vars
  BY <1>14, DecoderStutters
<1> QED
  BY <1>1, <1>2, <1>3, <1>4, <1>5, <1>6, <1>7, <1>8, <1>9, <1>10, <1>11,
     <1>12, <1>13, <1>14, Zenon DEF Next, Step

\* Whatever is drafted, accepted, rejected, delivered or thrown, the
\* inductive invariant holds.
THEOREM DecoderInvariant == Spec => []DecoderInv
<1>1. DecoderInv /\ [Next]_vars => DecoderInv'
  BY DecoderStep
<1> QED
  BY <1>1, DecoderInitially, PTL DEF Spec

\* Types, and the adaptive draft length within its range
\* (adapt_draft_length()), for every tuning.
THEOREM DecoderTypes == Spec => []SpeculativeTypeOK
<1>1. DecoderInv => SpeculativeTypeOK
  BY DEF DecoderInv
<1> QED
  BY <1>1, DecoderInvariant, PTL

\* Whenever the loop goes on both models hold every token of the history but
\* the newest (generate_stream()), for every draft, verdict and fall-back.
THEOREM ModelsBehindByOne == Spec => []KvBehindByOne
<1>1. DecoderInv => KvBehindByOne
  BY DEF DecoderInv
<1> QED
  BY <1>1, DecoderInvariant, PTL

\* A verification batch always fits the target's window (verify_batch()).
THEOREM BatchesFit == Spec => []BatchFits
<1>1. DecoderInv => BatchFits
  BY Verifying DEF BatchFits
<1> QED
  BY <1>1, DecoderInvariant, PTL

-----------------------------------------------------------------------------
(* The decoder implements plain decoding                                   *)

\* A call begins with a prompt and the whole budget.
LEMMA RefinesBegin ==
  ASSUME DecoderInv, ~overrun, NEW p \in Prompt, NEW n \in 0..MaxNew,
         generate_stream(p, n)
  PROVE  Plain!Begin
<1>1. /\ pc = "idle" /\ history' = p /\ emitted' = 0 /\ max_tokens' = n
      /\ UNCHANGED <<model, overrun>>
  BY DEF generate_stream
<1>2. history = <<>> /\ p # <<>> /\ Len(p) <= n_ctx
  BY <1>1, ModelType DEF DecoderInv, TextInv, SpeculativeTypeOK
<1>3. max_tokens' - emitted' \in Nat
  BY <1>1, Tuning
<1> QED
  BY <1>1, <1>2, <1>3 DEF Plain!Begin

\* However a call ends, its text is gone, and so it is once a proposal has left
\* the vocabulary.
LEMMA RefinesEnd ==
  ASSUME DecoderInv, ~overrun, pc # "idle",
         overrun' \/ (history' = <<>> /\ emitted' = 0 /\ max_tokens' = 0)
  PROVE  Plain!End
<1>1. history # <<>>
  BY DEF DecoderInv, TextInv
<1>2. (IF overrun' THEN <<>> ELSE history') = <<>>
  OBVIOUS
<1>3. (IF overrun' THEN 0 ELSE max_tokens' - emitted') = 0
  OBVIOUS
<1> QED
  BY <1>1, <1>2, <1>3 DEF Plain!End

\* Nothing is promised from then on to the end of the process.
LEMMA RefinesNothing ==
  ASSUME DecoderInv, overrun \/ pc = "idle",
         overrun' \/ (history' = <<>> /\ emitted' = 0 /\ max_tokens' = 0)
  PROVE  Plain!NewModel
<1>1. overrun \/ (history = <<>> /\ emitted = 0 /\ max_tokens = 0)
  BY DEF DecoderInv, TextInv
<1>2. /\ (IF overrun THEN <<>> ELSE history) = <<>>
      /\ (IF overrun' THEN <<>> ELSE history') = <<>>
  BY <1>1
<1>3. /\ (IF overrun THEN 0 ELSE max_tokens - emitted) = 0
      /\ (IF overrun' THEN 0 ELSE max_tokens' - emitted') = 0
  BY <1>1
<1> QED
  BY <1>2, <1>3 DEF Plain!NewModel

\* One token the model may produce is appended.
LEMMA RefinesDeliver ==
  ASSUME DecoderInv, ~overrun, pc # "idle", emitted < max_tokens,
         Len(history) < n_ctx, NEW t \in model.support[cur] \ Eog,
         history' = Append(history, t), emitted' = emitted + 1,
         UNCHANGED <<model, max_tokens, overrun>>
  PROVE  Plain!Deliver
<1>1. history # <<>> /\ emitted \in Nat /\ max_tokens \in Nat
  BY DEF DecoderInv, TextInv, SpeculativeTypeOK
<1>2. max_tokens - emitted > 0 /\ max_tokens' - emitted' = max_tokens - emitted - 1
  BY <1>1
<1>3. model' = model
  OBVIOUS
<1>4. t \in model.support[history[Len(history)]] \ Eog
  BY DEF cur, Last
<1> QED
  BY <1>1, <1>2, <1>3, <1>4 DEF Plain!Deliver

\* Only a verification sets the mark, and only the end of the process clears it.
LEMMA OverrunChanges ==
  ASSUME [Next]_vars, ~(\E m \in Model : Restart(m))
  PROVE  overrun' = overrun \/ overrun' = Wild(draft)
<1>1. CASE Verify \/ VerifyThrows
  BY <1>1 DEF Verify, VerifyThrows
<1>2. CASE \E p \in Prompt : PrefillThrows(p)
                             \/ \E n \in 0..MaxNew : generate_stream(p, n)
  BY <1>2 DEF PrefillThrows, generate_stream
<1>3. CASE \/ LoopEnd \/ ModelDraft \/ ModelDraftFails \/ LookupDraft \/ PlainStep
           \/ PlainEnd \/ Emit \/ EmitEnd \/ Adapt \/ UNCHANGED vars
  BY <1>3 DEF LoopEnd, ModelDraft, ModelDraftFails, LookupDraft, DraftStep,
     PlainStep, PlainEnd, Emit, EmitEnd, Adapt, vars
<1> QED
  BY <1>1, <1>2, <1>3, Zenon DEF Next, Step

LEMMA StepRefines ==
  ASSUME DecoderInv, [Next]_vars
  PROVE  [Plain!Next]_(Plain!vars)
<1> USE DEF Plain!Next
<1>1. CASE overrun
  <2>1. CASE overrun'
    BY <1>1, <2>1, RefinesNothing
  <2>2. CASE ~overrun'
    <3>1. CASE \E m \in Model : Restart(m)
      BY <1>1, <3>1, RefinesNothing DEF Restart
    <3>2. CASE ~(\E m \in Model : Restart(m))
      <4>1. overrun' = overrun \/ overrun' = Wild(draft)
        BY <3>2, OverrunChanges
      <4> QED
        BY <1>1, <2>2, <4>1 DEF Wild
    <3> QED
      BY <3>1, <3>2
  <2> QED
    BY <2>1, <2>2
<1>2. CASE ~overrun
  <2>1. CASE \E p \in Prompt : \E n \in 0..MaxNew : generate_stream(p, n)
    BY <1>2, <2>1, RefinesBegin
  <2>2. CASE LoopEnd \/ PlainEnd \/ VerifyThrows \/ EmitEnd
    <3>1. pc # "idle" /\ EndCall
      BY <2>2 DEF LoopEnd, PlainEnd, VerifyThrows, EmitEnd, Throw, InLoop
    <3> QED
      BY <1>2, <3>1, RefinesEnd DEF EndCall
  <2>3. CASE PlainStep
    <3>1. /\ pc # "idle" /\ emitted < max_tokens /\ Len(history) < n_ctx
          /\ emitted' = emitted + 1 /\ UNCHANGED <<model, max_tokens, overrun>>
          /\ \E t \in model.support[cur] \ Eog : history' = Append(history, t)
      BY <1>2, <2>3 DEF PlainStep, InLoop, Sampled
    <3> QED
      BY <1>2, <3>1, RefinesDeliver
  <2>4. CASE Emit
    <3>1. /\ pc = "emit" /\ emitted < max_tokens /\ Len(history) < n_ctx
          /\ verdict # <<>> /\ Head(verdict) \notin Eog
          /\ emitted' = emitted + 1 /\ UNCHANGED <<model, max_tokens, overrun>>
          /\ history' = Append(history, Head(verdict))
      BY <2>4 DEF Emit, EndsText
    <3>2. Head(verdict) \in model.support[cur]
      <4>1. /\ verdict \in Seq(model.vocab)
            /\ \A i \in 1..Len(verdict) : verdict[i] \in SupportAt(verdict, i)
        BY <1>2, <3>1 DEF DecoderInv, EmitInv
      <4>2. 1 \in 1..Len(verdict) /\ Head(verdict) = verdict[1]
        BY <3>1, <4>1, EmptySeq
      <4> QED
        BY <4>1, <4>2 DEF SupportAt
    <3> QED
      BY <1>2, <3>1, <3>2, RefinesDeliver
  <2>5. CASE \E m \in Model : Restart(m)
    <3>1. history' = <<>> /\ emitted' = 0 /\ max_tokens' = 0
      BY <2>5 DEF Restart
    <3> QED
      BY <1>2, <3>1, RefinesEnd, RefinesNothing
  <2>6. CASE Verify
    <3>1. pc # "idle" /\ UNCHANGED <<history, emitted, max_tokens, model>>
      BY <2>6 DEF Verify
    <3>2. CASE overrun'
      BY <1>2, <3>1, <3>2, RefinesEnd
    <3>3. CASE ~overrun'
      BY <1>2, <3>1, <3>3 DEF Plain!vars
    <3> QED
      BY <3>2, <3>3
  <2>7. CASE \/ \E p \in Prompt : PrefillThrows(p)
             \/ ModelDraft \/ ModelDraftFails \/ LookupDraft \/ Adapt
             \/ UNCHANGED vars
    <3>1. UNCHANGED <<history, emitted, max_tokens, model, overrun>>
      BY <2>7 DEF PrefillThrows, ModelDraft, ModelDraftFails, LookupDraft,
         DraftStep, Adapt, vars
    <3> QED
      BY <3>1 DEF Plain!vars
  <2> QED
    BY <2>1, <2>2, <2>3, <2>4, <2>5, <2>6, <2>7, Zenon DEF Next, Step
<1> QED
  BY <1>1, <1>2

\* Speculative decoding delivers only what plain decoding of the target could
\* (generate_stream()), for every model, draft source and tuning: each token
\* may follow exactly the text before it, none ends the generation, and
\* budget and window hold, in every process until a proposal of that process
\* is outside the target's vocabulary.
THEOREM DecoderImplementsPlain == Spec => ImplementsPlainDecoding
<1>1. Init => Plain!Init
  BY DEF Init, Plain!Init
<1>2. DecoderInv /\ [Next]_vars => DecoderInv'
  BY DecoderStep
<1>3. DecoderInv /\ [Next]_vars => [Plain!Next]_(Plain!vars)
  BY StepRefines
<1> QED
  BY <1>1, <1>2, <1>3, DecoderInitially, PTL
     DEF Spec, ImplementsPlainDecoding, Plain!Spec
=============================================================================
