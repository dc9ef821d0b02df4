------------------------- MODULE CorpusIndexProofs --------------------------
(***************************************************************************)
(* The corpus: its boundaries and its budget, the index as it would be      *)
(* rebuilt from the log, what a draft continues, and the file as the frames *)
(* of what is flushed; for all words, streams, hashes, budgets and limits.  *)
(***************************************************************************)
EXTENDS CorpusIndex, FiniteSetTheorems, SequenceTheorems, TLAPS

LEMMA Limits ==
  /\ Word \subseteq Nat /\ MaxFrame \in Nat
  /\ ngram \in Nat \ {0} /\ max_sites_per_ngram \in Nat \ {0}
  BY CorpusAssumption

-----------------------------------------------------------------------------
(* Numbers and sequences                                                   *)

\* A nonempty set of numbers has a least one, and a bounded one a greatest.
LEMMA Least ==
  ASSUME NEW T \in SUBSET Nat, T # {}
  PROVE  Min(T) \in T /\ \A y \in T : Min(T) <= y
<1> DEFINE Less == {p \in Nat \X Nat : p[1] < p[2]}
<1>1. IsWellFoundedOn(Less, Nat)
  BY NatLessThanWellFounded, Zenon DEF OpToRel
<1>2. PICK x \in T : \A y \in T : ~(<<y, x>> \in Less)
  BY <1>1, WFMin, Zenon
<1>3. \A y \in T : ~(y < x)
  BY <1>2
<1>4. \A y \in T : x <= y
  BY <1>3
<1> QED
  BY <1>4 DEF Min

LEMMA Greatest ==
  ASSUME NEW n \in Nat, NEW T \in SUBSET (0..n), T # {}
  PROVE  Max(T) \in T /\ \A y \in T : y <= Max(T)
<1> DEFINE M == {y \in 0..n : n - y \in T}
<1>1. M \subseteq Nat /\ \A x \in T : n - x \in M /\ n - (n - x) = x
  OBVIOUS
<1>2. M # {}
  BY <1>1
<1>3. Min(M) \in M /\ \A z \in M : Min(M) <= z
  BY <1>1, <1>2, Least
<1>4. PICK b \in M : \A z \in M : b <= z
  BY <1>3
<1>5. n - b \in T /\ \A y \in T : n - b >= y
  BY <1>1, <1>4
<1> QED
  BY <1>5 DEF Max

\* The n-gram at an offset.
LEMMA Ngrams ==
  ASSUME NEW lg \in Seq(Word), NEW i \in Nat, i + ngram <= Len(lg)
  PROVE  /\ NgramAt(lg, i) \in [1..ngram -> Word]
         /\ NgramAt(lg, i) \in Seq(Word) /\ Len(NgramAt(lg, i)) = ngram
         /\ \A j \in 1..ngram : NgramAt(lg, i)[j] = lg[i + j]
<1>1. Len(lg) \in Nat /\ \A j \in 1..Len(lg) : lg[j] \in Word
  BY LenProperties, ElementOfSeq
<1>2. i + 1 \in Int /\ i + ngram \in Int /\ \A j \in (i + 1)..(i + ngram) : lg[j] \in Word
  BY <1>1, Limits
<1>3. NgramAt(lg, i) \in Seq(Word) /\ Len(NgramAt(lg, i)) = ngram
  BY <1>2, Limits, SubSeqProperties DEF NgramAt
<1>4. ASSUME NEW j \in 1..ngram PROVE NgramAt(lg, i)[j] = lg[i + j]
  BY <1>2, Limits DEF NgramAt
<1>5. NgramAt(lg, i) \in [1..ngram -> Word]
  BY <1>3, LenProperties
<1> QED
  BY <1>3, <1>4, <1>5

-----------------------------------------------------------------------------
(* Log and boundaries                                                      *)

\* Boundaries are ascending and end with the log; a stream is as long as a
\* frame may be.
Shape(lg, ends) ==
  /\ lg \in Seq(Word) /\ ends \in Seq(Nat)
  /\ \A s, t \in 1..Len(ends) : s < t => ends[s] < ends[t]
  /\ \A s \in 1..Len(ends) :
       /\ StreamStart(ends, s) < ends[s]
       /\ ends[s] - StreamStart(ends, s) \in Word
       /\ ends[s] - StreamStart(ends, s) <= MaxFrame
  /\ StreamStart(ends, Len(ends) + 1) = Len(lg)

LEMMA Boundaries ==
  ASSUME NEW lg, NEW ends, Shape(lg, ends)
  PROVE  /\ Len(ends) \in Nat /\ Len(lg) \in Nat
         /\ \A s \in 1..Len(ends) :
              /\ StreamStart(ends, s) \in Nat /\ ends[s] \in Nat
              /\ StreamStart(ends, s) < ends[s] /\ ends[s] <= Len(lg)
              /\ StreamStart(ends, s + 1) = ends[s]
         /\ \A s \in 1..(Len(ends) + 1) :
              StreamStart(ends, s) \in Nat /\ StreamStart(ends, s) <= Len(lg)
         /\ \A s, t \in 1..(Len(ends) + 1) :
              s < t => ends[s] <= StreamStart(ends, t)
<1>1. Len(ends) \in Nat /\ Len(lg) \in Nat /\ \A s \in 1..Len(ends) : ends[s] \in Nat
  BY LenProperties, ElementOfSeq DEF Shape
<1>2. \A s \in 1..Len(ends) : ends[s] <= Len(lg)
  BY <1>1 DEF Shape, StreamStart
<1>3. \A s \in 1..(Len(ends) + 1) :
        StreamStart(ends, s) \in Nat /\ StreamStart(ends, s) <= Len(lg)
  BY <1>1, <1>2 DEF StreamStart
<1>4. ASSUME NEW s \in 1..(Len(ends) + 1), NEW t \in 1..(Len(ends) + 1), s < t
      PROVE  ends[s] <= StreamStart(ends, t)
  <2>1. s \in 1..Len(ends) /\ t - 1 \in 1..Len(ends) /\ (s = t - 1 \/ s < t - 1) /\ t # 1
    BY <1>1, <1>4
  <2>2. ends[s] \in Nat /\ ends[t - 1] \in Nat
    BY <1>1, <2>1
  <2>3. s < t - 1 => ends[s] < ends[t - 1]
    BY <2>1 DEF Shape
  <2>4. ends[s] <= ends[t - 1]
    BY <2>1, <2>2, <2>3
  <2> QED
    BY <2>1, <2>4 DEF StreamStart
<1>5. \A s \in 1..Len(ends) :
        StreamStart(ends, s) < ends[s] /\ StreamStart(ends, s + 1) = ends[s]
  BY <1>1 DEF Shape, StreamStart
<1> QED
  BY <1>1, <1>2, <1>3, <1>4, <1>5

LEMMA ShapeEmpty == Shape(<<>>, <<>>)
  BY DEF Shape, StreamStart

\* One more stream.
LEMMA ShapeAppended ==
  ASSUME NEW lg, NEW ends, Shape(lg, ends), NEW s \in Seq(Word), s # <<>>,
         Len(s) \in Word, Len(s) <= MaxFrame
  PROVE  LET l == lg \o s
             e == Append(ends, Len(l))
         IN  /\ Shape(l, e)
             /\ Len(l) = Len(lg) + Len(s) /\ Len(e) = Len(ends) + 1
             /\ \A i \in 1..Len(lg) : l[i] = lg[i]
             /\ \A i \in 1..Len(s) : l[Len(lg) + i] = s[i]
             /\ \A t \in 1..Len(ends) : e[t] = ends[t]
             /\ e[Len(ends) + 1] = Len(l)
             /\ \A t \in 1..(Len(ends) + 1) : StreamStart(e, t) = StreamStart(ends, t)
<1> DEFINE l == lg \o s
           e == Append(ends, Len(l))
<1>1. /\ lg \in Seq(Word) /\ ends \in Seq(Nat) /\ Len(ends) \in Nat /\ Len(lg) \in Nat
      /\ Len(s) \in Nat \ {0}
  BY EmptySeq, LenProperties DEF Shape
<1>2. /\ l \in Seq(Word) /\ Len(l) = Len(lg) + Len(s)
      /\ \A i \in 1..Len(lg) : l[i] = lg[i]
      /\ \A i \in 1..Len(s) : l[Len(lg) + i] = s[i]
  BY <1>1
<1> HIDE DEF l
<1>3. /\ e \in Seq(Nat) /\ Len(e) = Len(ends) + 1
      /\ \A t \in 1..Len(ends) : e[t] = ends[t]
      /\ e[Len(ends) + 1] = Len(l)
  BY <1>1, <1>2
<1> HIDE DEF e
<1>4. ASSUME NEW t \in 1..(Len(ends) + 1) PROVE StreamStart(e, t) = StreamStart(ends, t)
  <2>1. t # 1 => t - 1 \in 1..Len(ends)
    BY <1>1
  <2> QED
    BY <1>3, <2>1 DEF StreamStart
<1>5. StreamStart(ends, Len(ends) + 1) = Len(lg)
  BY DEF Shape
<1>6. \A t \in 1..Len(ends) : ends[t] \in Nat /\ ends[t] <= Len(lg)
  BY Boundaries
<1>7. ASSUME NEW t \in 1..Len(e), NEW u \in 1..Len(e), t < u PROVE e[t] < e[u]
  <2>0. t \in 1..(Len(ends) + 1) /\ u \in 1..(Len(ends) + 1)
    BY <1>3
  <2>1. t \in 1..Len(ends) /\ (u \in 1..Len(ends) \/ u = Len(ends) + 1)
    <3>1. Len(ends) \in Nat
      BY <1>1
    <3> QED
      BY <1>7, <2>0, <3>1
  <2>2. e[t] = ends[t] /\ ends[t] \in Nat /\ ends[t] <= Len(lg)
    BY <1>3, <1>6, <2>1
  <2>3. CASE u \in 1..Len(ends)
    BY <1>3, <1>7, <2>1, <2>2, <2>3 DEF Shape
  <2>4. CASE u = Len(ends) + 1
    BY <1>1, <1>2, <1>3, <2>2, <2>4
  <2> QED
    BY <2>1, <2>3, <2>4
<1>8. ASSUME NEW t \in 1..Len(e)
      PROVE  /\ StreamStart(e, t) < e[t] /\ e[t] - StreamStart(e, t) \in Word
             /\ e[t] - StreamStart(e, t) <= MaxFrame
  <2>1. CASE t = Len(ends) + 1
    <3>1. e[t] = Len(lg) + Len(s) /\ StreamStart(e, t) = Len(lg)
      BY <1>1, <1>2, <1>3, <1>4, <1>5, <2>1
    <3>2. e[t] - StreamStart(e, t) = Len(s)
      BY <1>1, <3>1
    <3> QED
      BY <1>1, <3>1, <3>2
  <2>2. CASE t # Len(ends) + 1
    <3>1. t \in 1..Len(ends) /\ e[t] = ends[t] /\ StreamStart(e, t) = StreamStart(ends, t)
      BY <1>1, <1>3, <1>4, <2>2
    <3> QED
      BY <3>1 DEF Shape
  <2> QED
    BY <2>1, <2>2
<1>9. StreamStart(e, Len(e) + 1) = Len(l)
  BY <1>1, <1>3 DEF StreamStart
<1>10. Shape(l, e)
  BY <1>2, <1>3, <1>7, <1>8, <1>9 DEF Shape
<1> QED
  BY <1>2, <1>3, <1>4, <1>10 DEF l, e

\* The oldest d streams are gone.
LEMMA ShapeDropped ==
  ASSUME NEW lg, NEW ends, Shape(lg, ends), NEW d \in 0..Len(ends)
  PROVE  LET cut == StreamStart(ends, d + 1)
             l == SubSeq(lg, cut + 1, Len(lg))
             e == [s \in 1..(Len(ends) - d) |-> ends[s + d] - cut]
         IN  Shape(l, e) /\ Len(l) = Len(lg) - cut
<1> DEFINE cut == StreamStart(ends, d + 1)
           n == Len(ends) - d
           l == SubSeq(lg, cut + 1, Len(lg))
           e == [s \in 1..n |-> ends[s + d] - cut]
<1>1. /\ Len(ends) \in Nat /\ Len(lg) \in Nat /\ n \in Nat
      /\ cut \in Nat /\ cut <= Len(lg)
      /\ \A s \in 1..Len(ends) : ends[s] \in Nat /\ StreamStart(ends, s) < ends[s]
      /\ \A s, t \in 1..(Len(ends) + 1) : s < t => ends[s] <= StreamStart(ends, t)
      /\ \A s \in 1..(Len(ends) + 1) : StreamStart(ends, s) \in Nat
  BY Boundaries
<1>2. lg \in Seq(Word) /\ \A j \in 1..Len(lg) : lg[j] \in Word
  BY ElementOfSeq DEF Shape
<1>3. /\ cut + 1 \in Int /\ Len(lg) \in Int
      /\ \A j \in (cut + 1)..Len(lg) : lg[j] \in Word
  BY <1>1, <1>2
<1>4. l \in Seq(Word) /\ Len(l) = Len(lg) - cut
  <2>1. l \in Seq(Word) /\ Len(l) = IF cut + 1 <= Len(lg) THEN Len(lg) - (cut + 1) + 1 ELSE 0
    BY <1>3, SubSeqProperties
  <2> QED
    BY <1>1, <2>1
<1>5. \A s \in 1..n : /\ s + d \in 1..Len(ends) /\ ends[s + d] \in Nat
                      /\ ends[s + d] > cut
  <2> SUFFICES ASSUME NEW s \in 1..n
               PROVE  s + d \in 1..Len(ends) /\ ends[s + d] \in Nat /\ ends[s + d] > cut
    OBVIOUS
  <2>1. s + d \in 1..Len(ends)
    BY <1>1
  <2>2. CASE s = 1
    BY <1>1, <2>1, <2>2
  <2>3. CASE s # 1
    <3>1. d + 1 \in 1..Len(ends) /\ d + 1 < s + d
      BY <1>1, <2>1, <2>3
    <3>2. ends[d + 1] < ends[s + d] /\ cut < ends[d + 1]
      BY <1>1, <2>1, <3>1 DEF Shape
    <3> QED
      BY <1>1, <2>1, <3>1, <3>2
  <2> QED
    BY <2>2, <2>3
<1>0. n + d = Len(ends) /\ d \in Nat
  BY <1>1
<1>6. e \in Seq(Nat) /\ Len(e) = n /\ \A s \in 1..n : e[s] = ends[s + d] - cut
  <2> HIDE DEF n, cut
  <2>1. \A s \in 1..n : ends[s + d] - cut \in Nat
    BY <1>1, <1>5
  <2> QED
    BY <1>1, <2>1
<1> HIDE DEF e, l, n
<1>7. ASSUME NEW s \in 1..n, NEW t \in 1..n, s < t PROVE e[s] < e[t]
  <2>1. /\ s + d \in 1..Len(ends) /\ t + d \in 1..Len(ends) /\ s + d < t + d
        /\ ends[s + d] \in Nat /\ ends[t + d] \in Nat
    BY <1>0, <1>5, <1>7
  <2>2. ends[s + d] < ends[t + d]
    BY <2>1 DEF Shape
  <2>3. e[s] = ends[s + d] - cut /\ e[t] = ends[t + d] - cut /\ cut \in Nat
    BY <1>1, <1>6
  <2> HIDE DEF cut
  <2> QED
    BY <2>1, <2>2, <2>3
<1>8. \A s \in 1..n : StreamStart(e, s) = StreamStart(ends, s + d) - cut
  <2> SUFFICES ASSUME NEW s \in 1..n
               PROVE  StreamStart(e, s) = StreamStart(ends, s + d) - cut
    OBVIOUS
  <2>1. CASE s = 1
    BY <1>1, <2>1 DEF StreamStart
  <2>2. CASE s # 1
    <3>1. s - 1 \in 1..n /\ s + d # 1 /\ s + d - 1 = s - 1 + d
      BY <1>0, <1>1, <2>2
    <3>2. e[s - 1] = ends[s - 1 + d] - cut
      BY <1>6, <3>1
    <3>3. StreamStart(e, s) = e[s - 1] /\ StreamStart(ends, s + d) = ends[s + d - 1]
      BY <2>2, <3>1 DEF StreamStart
    <3> HIDE DEF cut
    <3> QED
      BY <3>1, <3>2, <3>3
  <2> QED
    BY <2>1, <2>2
<1>9. ASSUME NEW s \in 1..n
      PROVE  /\ StreamStart(e, s) < e[s] /\ e[s] - StreamStart(e, s) \in Word
             /\ e[s] - StreamStart(e, s) <= MaxFrame
  <2>1. /\ s + d \in 1..Len(ends) /\ e[s] = ends[s + d] - cut
        /\ StreamStart(e, s) = StreamStart(ends, s + d) - cut
    BY <1>5, <1>6, <1>8
  <2>2. /\ StreamStart(ends, s + d) \in Nat /\ ends[s + d] \in Nat
        /\ StreamStart(ends, s + d) < ends[s + d]
    BY <1>1, <2>1
  <2>3. /\ e[s] - StreamStart(e, s) = ends[s + d] - StreamStart(ends, s + d)
        /\ StreamStart(e, s) < e[s]
    <3> HIDE DEF cut
    <3> QED
      BY <1>1, <2>1, <2>2
  <2>4. /\ ends[s + d] - StreamStart(ends, s + d) \in Word
        /\ ends[s + d] - StreamStart(ends, s + d) <= MaxFrame
    BY <2>1 DEF Shape
  <2> QED
    BY <2>3, <2>4
<1>10. StreamStart(e, n + 1) = Len(l)
  <2>1. CASE n = 0
    BY <1>0, <1>1, <1>4, <2>1 DEF StreamStart, Shape
  <2>2. CASE n # 0
    <3>1. n + 1 # 1 /\ n \in 1..n /\ e[n] = ends[Len(ends)] - cut /\ Len(ends) + 1 # 1
      <4> HIDE DEF cut
      <4>1. n \in 1..n
        BY <1>1, <2>2
      <4>2. e[n] = ends[n + d] - cut
        BY <1>6, <4>1
      <4>3. n + d = Len(ends) /\ n + 1 # 1 /\ Len(ends) + 1 # 1
        BY <1>0, <1>1, <2>2
      <4> QED
        BY <4>1, <4>2, <4>3
    <3>2. ends[Len(ends)] = Len(lg)
      BY <1>1, <3>1 DEF Shape, StreamStart
    <3> QED
      BY <1>1, <1>4, <3>1, <3>2 DEF StreamStart
  <2> QED
    BY <2>1, <2>2
<1>11. Shape(l, e)
  BY <1>4, <1>6, <1>7, <1>9, <1>10 DEF Shape
<1> QED
  BY <1>4, <1>11 DEF l, e, n

\* evict_oldest() brings any log within the budget.
LEMMA EvictedShape ==
  ASSUME NEW lg, NEW ends, Shape(lg, ends), max_tokens \in Nat
  PROVE  /\ Shape(Evicted(lg, ends).log, Evicted(lg, ends).ends)
         /\ Len(Evicted(lg, ends).log) <= max_tokens
<1> DEFINE T == {d \in 0..Len(ends) : Len(lg) - StreamStart(ends, d + 1) <= max_tokens}
           d == DropStreams(lg, ends)
<1>1. Len(ends) \in T /\ T \in SUBSET Nat
  BY Boundaries DEF Shape
<1>2. d \in T
  BY <1>1, Least DEF DropStreams
<1>3. d \in 0..Len(ends) /\ Len(lg) - StreamStart(ends, d + 1) <= max_tokens
  BY <1>2
<1> HIDE DEF d, T
<1> QED
  BY <1>3, ShapeDropped DEF Evicted, d

-----------------------------------------------------------------------------
(* The index                                                               *)

LEMMA TrimEmpty == Trim({}) = {}
  BY DEF Trim

\* The newest of the sites is kept, and no more than the configured number.
LEMMA TrimKeepsNewest ==
  ASSUME NEW S, NEW p \in S, \A q \in S : ~(q > p)
  PROVE  p \in Trim(S)
<1>1. {q \in S : q > p} = {}
  OBVIOUS
<1>2. Cardinality({q \in S : q > p}) = 0
  BY <1>1, FS_EmptySet
<1> QED
  BY <1>2, Limits DEF Trim

LEMMA TrimBounded ==
  ASSUME NEW S \in SUBSET Nat, IsFiniteSet(S)
  PROVE  Cardinality(Trim(S)) <= max_sites_per_ngram
<1> DEFINE T == Trim(S)
<1>1. T \in SUBSET S
  BY DEF Trim
<1>2. IsFiniteSet(T) /\ Cardinality(T) \in Nat
  BY <1>1, FS_Subset, FS_CardinalityType
<1>3. CASE T = {}
  BY <1>3, FS_EmptySet, Limits
<1>4. CASE T # {}
  <2> DEFINE p == Min(T)
             above == {q \in S : q > p}
  <2>1. p \in T /\ \A y \in T : p <= y
    BY <1>1, <1>4, Least
  <2>2. Cardinality(above) < max_sites_per_ngram
    BY <2>1 DEF Trim
  <2>3. T \ {p} \in SUBSET above
    <3>1. p \in Nat /\ \A q \in T : q \in Nat /\ q \in S
      BY <1>1, <2>1
    <3>2. \A q \in T \ {p} : q \in S /\ q > p
      <4> HIDE DEF p, T
      <4> QED
        BY <2>1, <3>1
    <3> QED
      BY <3>2
  <2>4. above \in SUBSET S
    OBVIOUS
  <2>5. IsFiniteSet(above) /\ Cardinality(above) \in Nat
    BY <2>4, FS_Subset, FS_CardinalityType
  <2>6. Cardinality(T \ {p}) <= Cardinality(above)
    BY <2>3, <2>5, FS_Subset
  <2>7. Cardinality(T \ {p}) = Cardinality(T) - 1
    BY <1>2, <2>1, FS_RemoveElement
  <2> HIDE DEF T, p, above
  <2> QED
    BY <1>2, <2>2, <2>5, <2>6, <2>7, Limits DEF T
<1> QED
  BY <1>3, <1>4

\* Dropping sites as newer ones are pushed comes to the same as dropping them
\* in the end.
LEMMA TrimInSteps ==
  ASSUME NEW A \in SUBSET Nat, NEW B \in SUBSET Nat, IsFiniteSet(A), IsFiniteSet(B),
         \A p \in A, q \in B : p < q
  PROVE  Trim(Trim(A) \cup B) = Trim(A \cup B)
<1> DEFINE Above(S, p) == {q \in S : q > p}
           U == A \cup B
           V == Trim(A) \cup B
<1>1. Trim(A) \subseteq A
  BY DEF Trim
<1>2. IsFiniteSet(U)
  BY FS_Union
<1>3. ASSUME NEW p \in B PROVE Above(U, p) = Above(V, p)
  <2>1. \A q \in A : q < p /\ q \in Nat /\ p \in Nat
    OBVIOUS
  <2>2. \A q \in A : ~(q > p)
    BY <2>1
  <2> QED
    BY <1>1, <2>2
<1>4. ASSUME NEW p \in Trim(A) PROVE Above(U, p) = Above(V, p)
  <2>1. ASSUME NEW q \in A, q > p PROVE q \in Trim(A)
    <3>1. Above(A, q) \in SUBSET Above(A, p) /\ Above(A, p) \in SUBSET A
      <4>1. p \in Nat /\ q \in Nat /\ \A z \in A : z \in Nat
        BY <1>1
      <4>2. \A z \in A : z > q => z > p
        BY <2>1, <4>1
      <4> QED
        BY <4>2
    <3>2. IsFiniteSet(Above(A, p)) /\ Cardinality(Above(A, p)) \in Nat
      BY <3>1, FS_Subset, FS_CardinalityType
    <3>3. /\ IsFiniteSet(Above(A, q)) /\ Cardinality(Above(A, q)) \in Nat
          /\ Cardinality(Above(A, q)) <= Cardinality(Above(A, p))
      BY <3>1, <3>2, FS_Subset, FS_CardinalityType
    <3>4. Cardinality(Above(A, p)) < max_sites_per_ngram
      BY DEF Trim
    <3>5. Cardinality(Above(A, q)) < max_sites_per_ngram
      <4> HIDE DEF Above
      <4> QED
        BY <3>2, <3>3, <3>4, Limits
    <3> QED
      BY <2>1, <3>5 DEF Trim
  <2> QED
    BY <1>1, <2>1
<1>5. ASSUME NEW p \in A, p \notin Trim(A) PROVE p \notin Trim(U)
  <2>1. Above(A, p) \in SUBSET Above(U, p) /\ Above(U, p) \in SUBSET U
    OBVIOUS
  <2>2. IsFiniteSet(Above(U, p)) /\ Cardinality(Above(U, p)) \in Nat
    BY <1>2, <2>1, FS_Subset, FS_CardinalityType
  <2>3. /\ IsFiniteSet(Above(A, p)) /\ Cardinality(Above(A, p)) \in Nat
        /\ Cardinality(Above(A, p)) <= Cardinality(Above(U, p))
    BY <2>1, <2>2, FS_Subset, FS_CardinalityType
  <2>4. ~(Cardinality(Above(A, p)) < max_sites_per_ngram)
    BY <1>5 DEF Trim
  <2>5. ~(Cardinality(Above(U, p)) < max_sites_per_ngram)
    <3> HIDE DEF Above
    <3> QED
      BY <2>2, <2>3, <2>4, Limits
  <2> QED
    BY <2>5 DEF Trim
<1>6. ASSUME NEW p \in Trim(U) PROVE p \in Trim(V)
  <2>1. p \in U /\ Cardinality(Above(U, p)) < max_sites_per_ngram
    BY DEF Trim
  <2>2. p \in B \/ p \in Trim(A)
    BY <1>5, <2>1
  <2>3. Above(U, p) = Above(V, p) /\ p \in V
    BY <1>3, <1>4, <2>2
  <2> QED
    BY <2>1, <2>3 DEF Trim
<1>7. ASSUME NEW p \in Trim(V) PROVE p \in Trim(U)
  <2>1. p \in V /\ Cardinality(Above(V, p)) < max_sites_per_ngram
    BY DEF Trim
  <2>2. Above(U, p) = Above(V, p) /\ p \in U
    BY <1>1, <1>3, <1>4, <2>1
  <2> QED
    BY <2>1, <2>2 DEF Trim
<1> QED
  BY <1>6, <1>7

\* A site of a key follows an n-gram of that key, inside one stream.
LEMMA SiteInStream ==
  ASSUME NEW lg, NEW ends, Shape(lg, ends), NEW x
  PROVE  /\ \A p : p \in AllSites(lg, ends, x) <=>
                    /\ p \in Nat /\ p - ngram \in Nat
                    /\ ngram_key(NgramAt(lg, p - ngram)) = x
                    /\ \E s \in 1..Len(ends) : /\ StreamStart(ends, s) <= p - ngram
                                               /\ p < ends[s]
         /\ AllSites(lg, ends, x) \in SUBSET (0..Len(lg))
         /\ IsFiniteSet(AllSites(lg, ends, x))
<1>1. /\ Len(lg) \in Nat
      /\ \A s \in 1..Len(ends) :
           /\ StreamStart(ends, s) \in Nat /\ ends[s] \in Nat /\ ends[s] <= Len(lg)
  BY Boundaries
<1>2. ASSUME NEW p, NEW s \in 1..Len(ends)
      PROVE  p \in SitesOf(lg, StreamStart(ends, s), ends[s], x) <=>
               /\ p \in Nat /\ p - ngram \in Nat
               /\ ngram_key(NgramAt(lg, p - ngram)) = x
               /\ StreamStart(ends, s) <= p - ngram /\ p < ends[s]
  <2> DEFINE a == StreamStart(ends, s)
             b == ends[s]
  <2>1. a \in Nat /\ b \in Nat
    BY <1>1
  <2> HIDE DEF a, b
  <2>2. ASSUME p \in SitesOf(lg, a, b, x)
        PROVE  /\ p \in Nat /\ p - ngram \in Nat
               /\ ngram_key(NgramAt(lg, p - ngram)) = x
               /\ a <= p - ngram /\ p < b
    <3>1. PICK i \in a..(b - ngram - 1) : p = i + ngram /\ ngram_key(NgramAt(lg, i)) = x
      BY <2>2 DEF SitesOf
    <3>2. i = p - ngram /\ i \in Nat /\ p \in Nat /\ p < b /\ a <= i
      BY <2>1, <3>1, Limits
    <3> QED
      BY <3>1, <3>2
  <2>3. ASSUME p \in Nat, p - ngram \in Nat, a <= p - ngram, p < b,
               ngram_key(NgramAt(lg, p - ngram)) = x
        PROVE  p \in SitesOf(lg, a, b, x)
    <3>1. p - ngram \in a..(b - ngram - 1) /\ p = (p - ngram) + ngram
      BY <2>1, <2>3, Limits
    <3> QED
      BY <2>3, <3>1 DEF SitesOf
  <2> QED
    BY <2>2, <2>3 DEF a, b
<1>3. \A p : p \in AllSites(lg, ends, x) <=>
              /\ p \in Nat /\ p - ngram \in Nat
              /\ ngram_key(NgramAt(lg, p - ngram)) = x
              /\ \E s \in 1..Len(ends) : /\ StreamStart(ends, s) <= p - ngram
                                         /\ p < ends[s]
  BY <1>2 DEF AllSites
<1>4. AllSites(lg, ends, x) \in SUBSET (0..Len(lg))
  BY <1>1, <1>3
<1>5. IsFiniteSet(0..Len(lg))
  BY <1>1, FS_Interval
<1> QED
  BY <1>3, <1>4, <1>5, FS_Subset

\* index_stream() on an index that is as rebuilt leaves one that is.
LEMMA IndexAppended ==
  ASSUME NEW lg, NEW ends, Shape(lg, ends), NEW s \in Seq(Word), s # <<>>,
         Len(s) \in Word, Len(s) <= MaxFrame
  PROVE  IndexStream(Rebuilt(lg, ends), lg \o s, Len(lg), Len(lg \o s)) =
           Rebuilt(lg \o s, Append(ends, Len(lg \o s)))
<1> DEFINE l == lg \o s
           e == Append(ends, Len(l))
           n == Len(ends)
<1>1. /\ Shape(l, e)
      /\ Len(l) = Len(lg) + Len(s) /\ Len(e) = n + 1
      /\ \A i \in 1..Len(lg) : l[i] = lg[i]
      /\ \A t \in 1..n : e[t] = ends[t]
      /\ e[n + 1] = Len(l)
      /\ \A t \in 1..(n + 1) : StreamStart(e, t) = StreamStart(ends, t)
  BY ShapeAppended
<1>2. /\ n \in Nat /\ Len(lg) \in Nat /\ Len(l) \in Nat
      /\ \A t \in 1..n : /\ StreamStart(ends, t) \in Nat
                         /\ ends[t] \in Nat /\ ends[t] <= Len(lg)
      /\ StreamStart(ends, n + 1) = Len(lg)
      /\ lg \in Seq(Word) /\ l \in Seq(Word)
  <2>1. /\ Len(ends) \in Nat /\ Len(lg) \in Nat
        /\ \A t \in 1..Len(ends) :
             /\ StreamStart(ends, t) \in Nat
             /\ ends[t] \in Nat /\ ends[t] <= Len(lg)
    BY Boundaries
  <2>2. Len(l) \in Nat
    BY <1>1, Boundaries
  <2> QED
    BY <1>1, <2>1, <2>2 DEF Shape
<1> HIDE DEF l, e, n
<1>3. ASSUME NEW i \in Nat, i + ngram <= Len(lg)
      PROVE  NgramAt(l, i) = NgramAt(lg, i)
  <2>1. /\ NgramAt(lg, i) \in [1..ngram -> Word]
        /\ NgramAt(lg, i) \in Seq(Word) /\ Len(NgramAt(lg, i)) = ngram
        /\ \A j \in 1..ngram : NgramAt(lg, i)[j] = lg[i + j]
    BY <1>2, <1>3, Ngrams
  <2>2. i + ngram <= Len(l)
    BY <1>1, <1>2, <1>3, Limits, LenProperties
  <2>3. /\ NgramAt(l, i) \in [1..ngram -> Word]
        /\ NgramAt(l, i) \in Seq(Word) /\ Len(NgramAt(l, i)) = ngram
        /\ \A j \in 1..ngram : NgramAt(l, i)[j] = l[i + j]
    BY <1>2, <2>2, Ngrams
  <2>4. \A j \in 1..ngram : i + j \in 1..Len(lg)
    BY <1>2, <1>3, Limits
  <2>5. \A j \in 1..ngram : NgramAt(l, i)[j] = NgramAt(lg, i)[j]
    BY <1>1, <2>1, <2>3, <2>4
  <2> QED
    BY <2>1, <2>3, <2>5
<1>4. ASSUME NEW x
      PROVE  /\ AllSites(l, e, x) = AllSites(lg, ends, x) \cup SitesOf(l, Len(lg), Len(l), x)
             /\ \A p \in AllSites(lg, ends, x), q \in SitesOf(l, Len(lg), Len(l), x) : p < q
  <2>1. ASSUME NEW t \in 1..n
        PROVE  SitesOf(l, StreamStart(e, t), e[t], x) = SitesOf(lg, StreamStart(ends, t), ends[t], x)
    <3> DEFINE a == StreamStart(ends, t)
               b == ends[t]
    <3>1. StreamStart(e, t) = a /\ e[t] = b /\ a \in Nat /\ b \in Nat /\ b <= Len(lg)
      BY <1>1, <1>2
    <3> HIDE DEF a, b
    <3>2. \A j \in a..(b - ngram - 1) : j \in Nat /\ j + ngram <= Len(lg)
      BY <1>2, <3>1, Limits
    <3>3. \A j \in a..(b - ngram - 1) : NgramAt(l, j) = NgramAt(lg, j)
      BY <1>3, <3>2
    <3>4. SitesOf(l, a, b, x) = SitesOf(lg, a, b, x)
      BY <3>3 DEF SitesOf
    <3> QED
      BY <3>1, <3>4 DEF a, b
  <2>2. e[n + 1] = Len(l) /\ StreamStart(e, n + 1) = Len(lg)
    BY <1>1, <1>2
  <2>3. AllSites(l, e, x) =
          (UNION {SitesOf(l, StreamStart(e, t), e[t], x) : t \in 1..n})
            \cup SitesOf(l, StreamStart(e, n + 1), e[n + 1], x)
    <3>1. 1..Len(e) = (1..n) \cup {n + 1}
      BY <1>1, <1>2
    <3> QED
      BY <3>1 DEF AllSites
  <2>4. UNION {SitesOf(l, StreamStart(e, t), e[t], x) : t \in 1..n} = AllSites(lg, ends, x)
    BY <2>1 DEF AllSites, n
  <2>5. ASSUME NEW p \in AllSites(lg, ends, x), NEW q \in SitesOf(l, Len(lg), Len(l), x)
        PROVE  p < q
    <3>1. PICK t \in 1..n : p \in Nat /\ p < ends[t]
      BY SiteInStream DEF n
    <3>2. PICK i \in Len(lg)..(Len(l) - ngram - 1) : q = i + ngram
      BY DEF SitesOf
    <3>3. p < Len(lg) /\ Len(lg) <= i /\ i \in Nat
      BY <1>2, <3>1, <3>2, Limits
    <3> QED
      BY <1>2, <3>1, <3>2, <3>3, Limits
  <2> QED
    BY <2>2, <2>3, <2>4, <2>5
<1>5. ASSUME NEW x \in Bucket
      PROVE  Trim(Rebuilt(lg, ends)[x] \cup SitesOf(l, Len(lg), Len(l), x)) =
               Trim(AllSites(l, e, x))
  <2> DEFINE A == AllSites(lg, ends, x)
             B == SitesOf(l, Len(lg), Len(l), x)
  <2>1. A \in SUBSET (0..Len(lg)) /\ IsFiniteSet(A)
    BY SiteInStream
  <2>2. AllSites(l, e, x) \in SUBSET (0..Len(l)) /\ IsFiniteSet(AllSites(l, e, x))
    BY <1>1, SiteInStream
  <2>3. AllSites(l, e, x) = A \cup B /\ \A p \in A, q \in B : p < q
    BY <1>4
  <2>4. B \in SUBSET AllSites(l, e, x)
    BY <2>3
  <2>5. IsFiniteSet(B)
    BY <2>2, <2>4, FS_Subset
  <2>6. A \in SUBSET Nat /\ B \in SUBSET Nat
    BY <1>2, <2>1, <2>2, <2>4
  <2>7. Rebuilt(lg, ends)[x] = Trim(A)
    BY DEF Rebuilt
  <2> HIDE DEF A, B
  <2>8. Trim(Trim(A) \cup B) = Trim(A \cup B)
    BY <2>1, <2>3, <2>5, <2>6, TrimInSteps
  <2> QED
    BY <2>3, <2>7, <2>8 DEF B
<1>6. IndexStream(Rebuilt(lg, ends), l, Len(lg), Len(l)) = Rebuilt(l, e)
  BY <1>5 DEF IndexStream, Rebuilt
<1> QED
  BY <1>6 DEF l, e

-----------------------------------------------------------------------------
(* Drafts                                                                  *)

LEMMA OfTwo ==
  ASSUME NEW x \in Int, NEW y \in Int
  PROVE  Min({x, y}) = IF x <= y THEN x ELSE y
  BY DEF Min

\* A tail of n tokens is its own last n-gram.
LEMMA TailIsNgram ==
  ASSUME NEW g \in [1..ngram -> Word]
  PROVE  /\ g \in Seq(Word) /\ Len(g) = ngram /\ LastNgram(g) = g
         /\ ngram_key(g) \in Bucket
<1>1. g \in Seq(Word) /\ Len(g) = ngram
  BY Limits
<1>2. ngram - ngram + 1 = 1
  BY Limits
<1>3. SubSeq(g, 1, Len(g)) = g
  BY <1>1, SubSeqFull
<1> QED
  BY <1>1, <1>2, <1>3, CorpusAssumption DEF LastNgram

\* The stream of a site ends where stream_end_for() says.
LEMMA SiteEnd ==
  ASSUME Shape(log, stream_ends), NEW start \in Nat, start - ngram \in Nat,
         NEW s \in 1..Len(stream_ends), StreamStart(stream_ends, s) <= start - ngram,
         start < stream_ends[s]
  PROVE  stream_end_for(start - 1) = stream_ends[s]
<1> DEFINE later == {e \in {stream_ends[t] : t \in 1..Len(stream_ends)} : e > start - 1}
<1>1. /\ Len(stream_ends) \in Nat
      /\ \A t \in 1..Len(stream_ends) : stream_ends[t] \in Nat
      /\ StreamStart(stream_ends, s) \in Nat
      /\ \A t, u \in 1..(Len(stream_ends) + 1) :
           t < u => stream_ends[t] <= StreamStart(stream_ends, u)
  BY Boundaries
<1>2. stream_ends[s] \in later /\ later \in SUBSET Nat
  BY <1>1
<1>3. ASSUME NEW e \in later PROVE stream_ends[s] <= e
  <2>1. PICK t \in 1..Len(stream_ends) : e = stream_ends[t] /\ stream_ends[t] > start - 1
    OBVIOUS
  <2>2. ~(t < s)
    <3> SUFFICES ASSUME t < s PROVE FALSE
      OBVIOUS
    <3>1. stream_ends[t] <= StreamStart(stream_ends, s)
      BY <1>1
    <3> QED
      BY <1>1, <2>1, <3>1, Limits
  <2>3. s < t => stream_ends[s] < stream_ends[t]
    BY DEF Shape
  <2> QED
    BY <1>1, <2>1, <2>2, <2>3
<1>4. Min(later) \in later /\ \A y \in later : Min(later) <= y
  BY <1>2, Least
<1>5. Min(later) = stream_ends[s]
  <2>1. Min(later) <= stream_ends[s] /\ stream_ends[s] <= Min(later)
    BY <1>2, <1>3, <1>4
  <2>2. Min(later) \in Nat /\ stream_ends[s] \in Nat
    BY <1>2, <1>4
  <2> HIDE DEF later
  <2> QED
    BY <2>1, <2>2
<1> QED
  BY <1>2, <1>5 DEF stream_end_for

\* What draft() does with the site it takes.
LEMMA DraftAt ==
  ASSUME Shape(log, stream_ends), NEW g \in [1..ngram -> Word], NEW k \in Nat \ {0},
         NEW start \in Nat, start - ngram \in Nat, NgramAt(log, start - ngram) = g,
         NEW s \in 1..Len(stream_ends), StreamStart(stream_ends, s) <= start - ngram,
         start < stream_ends[s]
  PROVE  LET d == SubSeq(log, start + 1, Min({stream_end_for(start - 1), start + k}))
         IN  /\ Len(d) <= k
             /\ start - ngram \in StreamStart(stream_ends, s)..(stream_ends[s] - ngram - Len(d))
             /\ SubSeq(log, start - ngram + 1, start - ngram + ngram + Len(d)) = g \o d
             /\ k = 1 => d = <<log[start + 1]>>
<1> DEFINE end == stream_ends[s]
           last == Min({end, start + k})
           d == SubSeq(log, start + 1, last)
           o == start - ngram
<1>1. /\ end \in Nat /\ StreamStart(stream_ends, s) \in Nat /\ end <= Len(log)
      /\ Len(log) \in Nat /\ log \in Seq(Word)
  BY Boundaries DEF Shape
<1>2. stream_end_for(start - 1) = end
  BY SiteEnd
<1>3. last = IF end <= start + k THEN end ELSE start + k
  BY <1>1, OfTwo
<1> HIDE DEF last, end
<1>4. /\ last \in Nat /\ start < last /\ last <= end /\ last <= start + k
      /\ last <= Len(log) /\ (k = 1 => last = start + 1)
  BY <1>1, <1>3 DEF end
<1>5. d \in Seq(Word) /\ Len(d) = last - start
  <2>1. \A j \in 1..Len(log) : log[j] \in Word
    BY <1>1, ElementOfSeq
  <2>2. start + 1 \in Int /\ last \in Int /\ \A j \in (start + 1)..last : log[j] \in Word
    BY <1>1, <1>4, <2>1
  <2>3. d \in Seq(Word) /\ Len(d) = IF start + 1 <= last THEN last - (start + 1) + 1 ELSE 0
    BY <2>2, SubSeqProperties
  <2> QED
    BY <1>4, <2>3
<1>6. ASSUME k = 1 PROVE d = <<log[start + 1]>>
  <2>1. last = start + 1 /\ start + 1 \in Int /\ start + 1 <= Len(log)
    BY <1>1, <1>4, <1>6
  <2>2. Len(d) = 1 /\ d \in Seq(Word)
    BY <1>5, <2>1
  <2>3. d[1] = log[start + 1]
    <3>1. SubSeq(log, start + 1, start + 1)[1] = log[start + 1]
      BY <2>1
    <3> QED
      BY <2>1, <3>1
  <2> HIDE DEF d
  <2> QED
    BY <2>2, <2>3
<1> HIDE DEF d
<1>7. Len(d) <= k /\ o \in StreamStart(stream_ends, s)..(end - ngram - Len(d))
  BY <1>1, <1>4, <1>5, Limits DEF end
<1>8. /\ o + 1 \in 1..(Len(log) + 1) /\ start \in (o + 1 - 1)..Len(log)
      /\ last \in start..Len(log) /\ o + ngram = start /\ o + ngram + Len(d) = last
  <2>1. o + ngram = start /\ o \in Nat /\ ngram \in Nat \ {0}
    BY Limits
  <2> HIDE DEF o
  <2>2. o + ngram + Len(d) = last
    BY <1>4, <1>5, <2>1
  <2>3. o + 1 \in 1..(Len(log) + 1) /\ start \in (o + 1 - 1)..Len(log)
    BY <1>1, <1>4, <2>1
  <2>4. last \in start..Len(log)
    BY <1>1, <1>4
  <2> QED
    BY <2>1, <2>2, <2>3, <2>4
<1>9. SubSeq(log, o + 1, start) \o SubSeq(log, start + 1, last) = SubSeq(log, o + 1, last)
  <2> DEFINE first == o + 1
  <2>1. /\ first \in 1..(Len(log) + 1) /\ start \in (first - 1)..Len(log)
        /\ last \in start..Len(log) /\ log \in Seq(Word)
    BY <1>1, <1>8
  <2> HIDE DEF first
  <2>2. SubSeq(log, first, start) \o SubSeq(log, start + 1, last) = SubSeq(log, first, last)
    BY <2>1, ConcatAdjacentSubSeq
  <2> QED
    BY <2>2 DEF first
<1>10. SubSeq(log, o + 1, start) = g
  BY <1>8 DEF NgramAt
<1>11. SubSeq(log, o + 1, o + ngram + Len(d)) = g \o d
  BY <1>8, <1>9, <1>10 DEF d
<1> QED
  BY <1>2, <1>6, <1>7, <1>11 DEF d, last, end

\* A draft continues an occurrence of its n-gram inside one stream.
LEMMA DraftContinues ==
  ASSUME Shape(log, stream_ends), index = Rebuilt(log, stream_ends),
         NEW g \in [1..ngram -> Word], NEW k \in Nat \ {0}, draft(g, k) # <<>>
  PROVE  /\ Len(draft(g, k)) <= k
         /\ \E s \in 1..Len(stream_ends) :
              \E o \in StreamStart(stream_ends, s)..(stream_ends[s] - ngram - Len(draft(g, k))) :
                SubSeq(log, o + 1, o + ngram + Len(draft(g, k))) = g \o draft(g, k)
<1> DEFINE x == ngram_key(g)
           sites == {p \in index[x] : Usable(g, p)}
           start == Max(sites)
<1>1. Len(g) = ngram /\ LastNgram(g) = g /\ x \in Bucket
  BY TailIsNgram
<1>2. draft(g, k) = Continuation(sites, k) /\ sites # {}
  BY <1>1, Limits DEF draft, Continuation
<1>3. index[x] \subseteq AllSites(log, stream_ends, x)
  BY <1>1 DEF Rebuilt, Trim
<1>4. AllSites(log, stream_ends, x) \in SUBSET (0..Len(log)) /\ Len(log) \in Nat
  BY SiteInStream, Boundaries
<1>5. sites \in SUBSET (0..Len(log))
  BY <1>3, <1>4
<1>6. start \in sites
  <2> HIDE DEF sites
  <2> QED
    BY <1>2, <1>4, <1>5, Greatest
<1>7. start \in AllSites(log, stream_ends, x) /\ Usable(g, start)
  BY <1>3, <1>6
<1>8. draft(g, k) = SubSeq(log, start + 1, Min({stream_end_for(start - 1), start + k}))
  BY <1>2 DEF Continuation
<1> HIDE DEF start, sites
<1>9. start \in Nat /\ start - ngram \in Nat
  BY <1>7, SiteInStream
<1>10. PICK s \in 1..Len(stream_ends) :
         StreamStart(stream_ends, s) <= start - ngram /\ start < stream_ends[s]
  BY <1>7, SiteInStream
<1>11. NgramAt(log, start - ngram) = g
  BY <1>1, <1>7 DEF Usable
<1> DEFINE d == SubSeq(log, start + 1, Min({stream_end_for(start - 1), start + k}))
<1>12. /\ Len(d) <= k
       /\ start - ngram \in StreamStart(stream_ends, s)..(stream_ends[s] - ngram - Len(d))
       /\ SubSeq(log, start - ngram + 1, start - ngram + ngram + Len(d)) = g \o d
  BY <1>9, <1>10, <1>11, DraftAt
<1>13. draft(g, k) = d
  BY <1>8
<1> HIDE DEF d
<1> QED
  BY <1>12, <1>13

\* The newest occurrence is the one a draft continues.
LEMMA DraftNewest ==
  ASSUME Shape(log, stream_ends), index = Rebuilt(log, stream_ends),
         NEW g \in [1..ngram -> Word],
         NEW at, at = {o \in Continued : NgramAt(log, o) = g}, at # {},
         \A o \in Continued : ngram_key(NgramAt(log, o)) = ngram_key(g) => o \in at
  PROVE  draft(g, 1) = <<log[Max(at) + ngram + 1]>>
<1> DEFINE x == ngram_key(g)
           m == Max(at)
           start == m + ngram
           all == AllSites(log, stream_ends, x)
           sites == {p \in index[x] : Usable(g, p)}
<1>1. Len(g) = ngram /\ LastNgram(g) = g /\ x \in Bucket
  BY TailIsNgram
<1>2. Len(log) \in Nat /\ at \in SUBSET (0..Len(log))
  <2>1. Len(log) \in Nat
    BY Boundaries
  <2> QED
    BY <2>1, Limits DEF Continued
<1>3. m \in at /\ \A o \in at : o <= m
  BY <1>2, Greatest
<1> HIDE DEF m
<1>4. /\ m \in Nat /\ NgramAt(log, m) = g
      /\ \E s \in 1..Len(stream_ends) :
           StreamStart(stream_ends, s) <= m /\ m + ngram < stream_ends[s]
  <2>1. m \in Continued /\ NgramAt(log, m) = g
    BY <1>3
  <2>2. m \in Nat
    BY <1>2, <1>3
  <2> QED
    BY <2>1, <2>2 DEF Continued
<1>5. start \in Nat /\ start - ngram = m
  BY <1>4, Limits
<1>6. start \in all
  BY <1>4, <1>5, SiteInStream
<1>7. ASSUME NEW p \in all PROVE p \in Nat /\ ~(p > start)
  <2>1. /\ p \in Nat /\ p - ngram \in Nat /\ ngram_key(NgramAt(log, p - ngram)) = x
        /\ \E s \in 1..Len(stream_ends) :
             StreamStart(stream_ends, s) <= p - ngram /\ p < stream_ends[s]
    BY <1>7, SiteInStream
  <2>2. PICK s \in 1..Len(stream_ends) :
          StreamStart(stream_ends, s) <= p - ngram /\ p < stream_ends[s]
    BY <2>1
  <2>3. stream_ends[s] <= Len(log) /\ stream_ends[s] \in Nat
    BY Boundaries
  <2>4. p - ngram \in 0..(Len(log) - ngram - 1) /\ (p - ngram) + ngram = p
    BY <1>2, <2>1, <2>2, <2>3, Limits
  <2>5. p - ngram \in Continued
    BY <2>2, <2>4 DEF Continued
  <2>6. p - ngram <= m
    BY <1>3, <2>1, <2>5
  <2> QED
    BY <1>4, <2>1, <2>6, Limits
<1>8. start \in index[x]
  <2>1. start \in Trim(all)
    BY <1>6, <1>7, TrimKeepsNewest
  <2> QED
    BY <1>1, <2>1 DEF Rebuilt
<1>9. PICK s \in 1..Len(stream_ends) :
        StreamStart(stream_ends, s) <= start - ngram /\ start < stream_ends[s]
  BY <1>4, <1>5
<1>10. stream_end_for(start - 1) = stream_ends[s]
  BY <1>4, <1>5, <1>9, SiteEnd
<1>11. Usable(g, start)
  BY <1>1, <1>4, <1>5, <1>9, <1>10 DEF Usable
<1>12. start \in sites /\ sites \subseteq all
  BY <1>1, <1>8, <1>11 DEF Rebuilt, Trim
<1>13. Max(sites) = start
  <2>1. \A p \in sites : p \in Nat /\ start >= p
    <3>1. start \in Nat
      BY <1>5
    <3> QED
      BY <1>7, <1>12, <3>1
  <2> HIDE DEF sites, all, start
  <2>2. \E q \in sites : \A p \in sites : q >= p
    BY <1>12, <2>1
  <2>3. Max(sites) \in sites /\ \A p \in sites : Max(sites) >= p
    BY <2>2 DEF Max
  <2>4. Max(sites) >= start /\ start >= Max(sites) /\ Max(sites) \in Nat /\ start \in Nat
    BY <1>12, <2>1, <2>3
  <2> QED
    BY <2>4
<1>14. draft(g, 1) = SubSeq(log, start + 1, Min({stream_end_for(start - 1), start + 1}))
  <2>1. draft(g, 1) = Continuation(sites, 1)
    BY <1>1, Limits DEF draft
  <2>2. sites # {}
    BY <1>12
  <2> QED
    BY <1>13, <2>1, <2>2 DEF Continuation
<1> HIDE DEF start
<1>15. NgramAt(log, start - ngram) = g /\ start - ngram \in Nat /\ start \in Nat
  BY <1>4, <1>5
<1>16. SubSeq(log, start + 1, Min({stream_end_for(start - 1), start + 1})) = <<log[start + 1]>>
  <2> DEFINE d == SubSeq(log, start + 1, Min({stream_end_for(start - 1), start + 1}))
  <2>1. 1 \in Nat \ {0} /\ start \in Nat
    BY <1>15
  <2>2. /\ Len(d) <= 1
        /\ start - ngram \in StreamStart(stream_ends, s)..(stream_ends[s] - ngram - Len(d))
        /\ SubSeq(log, start - ngram + 1, start - ngram + ngram + Len(d)) = g \o d
        /\ 1 = 1 => d = <<log[start + 1]>>
    BY <1>9, <1>15, <2>1, DraftAt
  <2> QED
    BY <2>2
<1> QED
  BY <1>14, <1>16 DEF start, m

-----------------------------------------------------------------------------
(* The file                                                                *)

\* Frames end before the ones after them begin.
LEMMA FrameOrder ==
  ASSUME NEW lg, NEW ends, Shape(lg, ends)
  PROVE  /\ \A s \in 1..(Len(ends) + 1), t \in 1..(Len(ends) + 1) :
              s < t => ends[s] + s < StreamStart(ends, t) + t
         /\ \A n \in 0..Len(ends) : FrameWords(ends, n) \in Nat
         /\ \A n \in 0..Len(ends), s \in 1..Len(ends) :
              /\ s <= n => ends[s] + s <= FrameWords(ends, n)
              /\ n < s => FrameWords(ends, n) < StreamStart(ends, s) + s
         /\ FrameWords(ends, Len(ends)) = Len(lg) + Len(ends)
<1>1. /\ Len(ends) \in Nat /\ Len(lg) \in Nat
      /\ \A s \in 1..Len(ends) : ends[s] \in Nat /\ StreamStart(ends, s + 1) = ends[s]
      /\ \A s \in 1..(Len(ends) + 1) : StreamStart(ends, s) \in Nat
      /\ \A s, t \in 1..(Len(ends) + 1) : s < t => ends[s] <= StreamStart(ends, t)
  BY Boundaries
<1>2. ASSUME NEW s \in 1..(Len(ends) + 1), NEW t \in 1..(Len(ends) + 1), s < t
      PROVE  ends[s] + s < StreamStart(ends, t) + t
  <2>1. /\ s \in 1..Len(ends) /\ ends[s] \in Nat /\ StreamStart(ends, t) \in Nat
        /\ ends[s] <= StreamStart(ends, t)
    BY <1>1, <1>2
  <2> QED
    BY <1>2, <2>1
<1>3. ASSUME NEW n \in 0..Len(ends)
      PROVE  /\ FrameWords(ends, n) \in Nat /\ n + 1 \in 1..(Len(ends) + 1) /\ n \in Nat
             /\ StreamStart(ends, n + 1) \in Nat
  BY <1>1 DEF FrameWords
<1>4. ASSUME NEW n \in 0..Len(ends), NEW s \in 1..Len(ends), s <= n
      PROVE  ends[s] + s <= FrameWords(ends, n)
  <2>1. s < n + 1 /\ s \in 1..(Len(ends) + 1) /\ ends[s] \in Nat
    BY <1>1, <1>3, <1>4
  <2>2. ends[s] <= StreamStart(ends, n + 1)
    BY <1>1, <1>3, <2>1
  <2> DEFINE a == ends[s]
             b == StreamStart(ends, n + 1)
  <2>3. a \in Nat /\ b \in Nat /\ a <= b /\ s \in Nat /\ n \in Nat
    BY <1>1, <1>3, <2>1, <2>2
  <2> HIDE DEF a, b
  <2>4. a + s <= b + n
    BY <1>4, <2>3
  <2> QED
    BY <2>4 DEF a, b, FrameWords
<1>5. ASSUME NEW n \in 0..Len(ends), NEW s \in 1..Len(ends), n < s
      PROVE  FrameWords(ends, n) < StreamStart(ends, s) + s
  <2>1. s \in 1..(Len(ends) + 1) /\ StreamStart(ends, s) \in Nat
    BY <1>1
  <2>2. CASE n + 1 = s
    BY <1>3, <2>1, <2>2 DEF FrameWords
  <2>3. CASE n + 1 # s
    <3>1. n + 1 < s /\ n + 1 \in 1..Len(ends)
      BY <1>1, <1>3, <1>5, <2>3
    <3>2. /\ StreamStart(ends, n + 1) < ends[n + 1] /\ ends[n + 1] \in Nat
          /\ ends[n + 1] <= StreamStart(ends, s)
      BY <1>1, <1>3, <2>1, <3>1, Boundaries
    <3> DEFINE a == StreamStart(ends, n + 1)
               b == StreamStart(ends, s)
    <3>3. a \in Nat /\ b \in Nat /\ a < b /\ n \in Nat /\ s \in Nat
      BY <1>1, <1>3, <2>1, <3>2, SMTT(20)
    <3> HIDE DEF a, b
    <3>4. a + n < b + s
      BY <1>5, <3>3
    <3> QED
      BY <3>4 DEF a, b, FrameWords
  <2> QED
    BY <2>2, <2>3
<1>6. FrameWords(ends, Len(ends)) = Len(lg) + Len(ends)
  BY DEF FrameWords, Shape
<1> QED
  BY <1>2, <1>3, <1>4, <1>5, <1>6

\* Every word belongs to exactly one frame.
LEMMA FrameOf ==
  ASSUME NEW lg, NEW ends, Shape(lg, ends), NEW p
  PROVE  /\ p \in 1..(Len(lg) + Len(ends)) =>
              /\ FrameAt(ends, p) \in 1..Len(ends)
              /\ StreamStart(ends, FrameAt(ends, p)) + FrameAt(ends, p) <= p
              /\ p <= ends[FrameAt(ends, p)] + FrameAt(ends, p)
         /\ \A s \in 1..Len(ends) :
              p \in (StreamStart(ends, s) + s)..(ends[s] + s) => FrameAt(ends, p) = s
<1> DEFINE In(s) == StreamStart(ends, s) + s <= p /\ p <= ends[s] + s
           n == Len(ends)
<1>1. /\ n \in Nat /\ Len(lg) \in Nat
      /\ \A s \in 1..n : /\ ends[s] \in Nat /\ StreamStart(ends, s) \in Nat
                         /\ StreamStart(ends, s + 1) = ends[s]
  BY Boundaries
<1>2. /\ \A s \in 1..(n + 1), t \in 1..(n + 1) :
           s < t => ends[s] + s < StreamStart(ends, t) + t
      /\ FrameWords(ends, n) = Len(lg) + n
  BY FrameOrder
<1>3. ASSUME p \in 1..(Len(lg) + n) PROVE \E s \in 1..n : In(s)
  <2> DEFINE T == {s \in 1..n : p <= ends[s] + s}
             s == Min(T)
  <2>1. n # 0
    <3> SUFFICES ASSUME n = 0 PROVE FALSE
      OBVIOUS
    <3>1. Len(lg) = 0
      BY DEF Shape, StreamStart
    <3> QED
      BY <1>3, <3>1
  <2>2. n \in 1..n /\ ends[n] = Len(lg)
    BY <1>1, <2>1 DEF Shape, StreamStart
  <2>3. n \in T /\ T \in SUBSET Nat
    BY <1>3, <2>2
  <2>4. s \in T /\ \A y \in T : s <= y
    BY <2>3, Least
  <2>5. s \in 1..n /\ p <= ends[s] + s
    BY <2>4
  <2> HIDE DEF s
  <2>6. CASE s = 1
    BY <1>3, <2>5, <2>6 DEF StreamStart
  <2>7. CASE s # 1
    <3>1. s - 1 \in 1..n /\ s - 1 + 1 = s /\ ~(s <= s - 1)
      BY <1>1, <2>5, <2>7
    <3>2. ~(p <= ends[s - 1] + (s - 1))
      BY <2>4, <3>1
    <3>3. StreamStart(ends, s) = ends[s - 1] /\ ends[s - 1] \in Nat
      BY <1>1, <3>1
    <3>4. StreamStart(ends, s) + s <= p
      BY <1>1, <1>3, <2>5, <3>2, <3>3
    <3> QED
      BY <2>5, <3>4
  <2> QED
    BY <2>6, <2>7
<1>4. ASSUME NEW s \in 1..n, NEW t \in 1..n, p \in Int, In(s), In(t), s < t PROVE FALSE
  <2>1. s \in 1..(n + 1) /\ t \in 1..(n + 1)
    BY <1>1
  <2>2. ends[s] + s < StreamStart(ends, t) + t
    BY <1>2, <1>4, <2>1
  <2> QED
    BY <1>1, <1>4, <2>2
<1>5. ASSUME p \in 1..(Len(lg) + n) PROVE FrameAt(ends, p) \in 1..n /\ In(FrameAt(ends, p))
  BY <1>3, <1>5 DEF FrameAt
<1>6. ASSUME NEW s \in 1..n, p \in (StreamStart(ends, s) + s)..(ends[s] + s)
      PROVE  FrameAt(ends, p) = s
  <2>1. p \in Int /\ In(s)
    BY <1>1, <1>6
  <2>2. FrameAt(ends, p) \in 1..n /\ In(FrameAt(ends, p))
    BY <2>1 DEF FrameAt
  <2> DEFINE t == FrameAt(ends, p)
  <2> HIDE DEF t, In
  <2>3. ~(s < t) /\ ~(t < s)
    BY <1>4, <2>1, <2>2 DEF t
  <2> QED
    BY <1>1, <2>2, <2>3 DEF t
<1> QED
  BY <1>5, <1>6

\* What rewrite_file() writes are the frames of all streams.
LEMMA FramedFrames ==
  ASSUME NEW lg, NEW ends, Shape(lg, ends)
  PROVE  /\ Framed(lg, ends) \in Seq(Word) /\ Len(Framed(lg, ends)) = Len(lg) + Len(ends)
         /\ Frames(Framed(lg, ends), lg, ends, Len(ends))
<1> DEFINE n == Len(ends)
           w == Framed(lg, ends)
           last == Len(lg) + n
<1>1. /\ n \in Nat /\ Len(lg) \in Nat
      /\ \A s \in 1..n : /\ ends[s] \in Nat /\ StreamStart(ends, s) \in Nat
                         /\ StreamStart(ends, s) < ends[s] /\ ends[s] <= Len(lg)
  BY Boundaries
<1>2. \A i \in 1..Len(lg) : lg[i] \in Word
  BY ElementOfSeq DEF Shape
<1>3. \A s \in 1..n : ends[s] - StreamStart(ends, s) \in Word
  BY DEF Shape
<1>4. /\ w = [p \in 1..last |-> w[p]]
      /\ \A p \in 1..last : LET s == FrameAt(ends, p) IN
           w[p] = IF p = StreamStart(ends, s) + s THEN ends[s] - StreamStart(ends, s)
                  ELSE lg[p - s]
  BY DEF Framed
<1> HIDE DEF w
<1>5. ASSUME NEW p \in 1..last PROVE w[p] \in Word
  <2> DEFINE s == FrameAt(ends, p)
  <2>1. s \in 1..n /\ StreamStart(ends, s) + s <= p /\ p <= ends[s] + s
    BY FrameOf
  <2>2. w[p] = IF p = StreamStart(ends, s) + s THEN ends[s] - StreamStart(ends, s)
               ELSE lg[p - s]
    BY <1>4
  <2> HIDE DEF s
  <2>3. CASE p = StreamStart(ends, s) + s
    BY <1>3, <2>1, <2>2, <2>3
  <2>4. CASE p # StreamStart(ends, s) + s
    <3>1. p - s \in 1..Len(lg)
      BY <1>1, <2>1, <2>4
    <3> QED
      BY <1>2, <2>2, <2>4, <3>1
  <2> QED
    BY <2>3, <2>4
<1>6. w \in Seq(Word) /\ Len(w) = last
  <2>1. last \in Nat
    BY <1>1
  <2>2. w \in [1..last -> Word]
    BY <1>4, <1>5
  <2> HIDE DEF last
  <2> QED
    BY <2>1, <2>2
<1>7. FrameWords(ends, n) = last
  BY FrameOrder
<1>8. ASSUME NEW s \in 1..n
      PROVE  /\ w[StreamStart(ends, s) + s] = ends[s] - StreamStart(ends, s)
             /\ \A i \in (StreamStart(ends, s) + 1)..ends[s] : w[i + s] = lg[i]
  <2> DEFINE b == StreamStart(ends, s)
  <2>1. b \in Nat /\ ends[s] \in Nat /\ b < ends[s] /\ ends[s] <= Len(lg)
    BY <1>1
  <2>2. ASSUME NEW p \in (b + s)..(ends[s] + s)
        PROVE  p \in 1..last /\ FrameAt(ends, p) = s
    <3>1. FrameAt(ends, p) = s
      BY FrameOf
    <3>2. p \in 1..last
      BY <1>1, <2>1
    <3> QED
      BY <3>1, <3>2
  <2>3. ASSUME NEW p \in (b + s)..(ends[s] + s)
        PROVE  w[p] = IF p = b + s THEN ends[s] - b ELSE lg[p - s]
    BY <1>4, <2>2
  <2> HIDE DEF b
  <2>4. b + s \in (b + s)..(ends[s] + s)
    BY <1>1, <2>1
  <2>5. ASSUME NEW i \in (b + 1)..ends[s] PROVE w[i + s] = lg[i]
    <3>1. i + s \in (b + s)..(ends[s] + s) /\ i + s # b + s /\ (i + s) - s = i
      BY <1>1, <2>1
    <3> QED
      BY <2>3, <3>1
  <2> QED
    BY <2>3, <2>4, <2>5 DEF b
<1> QED
  BY <1>6, <1>7, <1>8 DEF Frames, w

\* Frames of streams that are the same.
LEMMA FramesAgree ==
  ASSUME NEW lg, NEW ends, Shape(lg, ends), NEW n \in 0..Len(ends),
         NEW words, Frames(words, lg, ends, n),
         NEW l, NEW e, \A s \in 1..n : e[s] = ends[s],
         \A i \in 1..StreamStart(ends, n + 1) : l[i] = lg[i]
  PROVE  Frames(words, l, e, n)
<1>1. /\ Len(ends) \in Nat /\ n \in Nat
      /\ \A s \in 1..Len(ends) : ends[s] \in Nat /\ StreamStart(ends, s) \in Nat
      /\ \A s, t \in 1..(Len(ends) + 1) : s < t => ends[s] <= StreamStart(ends, t)
      /\ \A s \in 1..(Len(ends) + 1) : StreamStart(ends, s) \in Nat
  BY Boundaries
<1>2. ASSUME NEW s \in 1..(n + 1) PROVE StreamStart(e, s) = StreamStart(ends, s)
  <2>1. s # 1 => s - 1 \in 1..n
    BY <1>1
  <2> QED
    BY <2>1 DEF StreamStart
<1>3. n + 1 \in 1..(n + 1)
  BY <1>1
<1>4. Len(words) = FrameWords(e, n)
  BY <1>2, <1>3 DEF Frames, FrameWords
<1>5. ASSUME NEW s \in 1..n
      PROVE  LET begin == StreamStart(e, s) IN
             /\ words[begin + s] = e[s] - begin
             /\ \A i \in (begin + 1)..e[s] : words[i + s] = l[i]
  <2> DEFINE b == StreamStart(ends, s)
  <2>1. s \in 1..(n + 1) /\ s \in 1..Len(ends) /\ s \in 1..(Len(ends) + 1)
        /\ s < n + 1 /\ n + 1 \in 1..(Len(ends) + 1)
    BY <1>1
  <2>2. StreamStart(e, s) = b /\ e[s] = ends[s]
    BY <1>2, <2>1
  <2>3. /\ words[b + s] = ends[s] - b
        /\ \A i \in (b + 1)..ends[s] : words[i + s] = lg[i]
    BY DEF Frames
  <2>4. ends[s] <= StreamStart(ends, n + 1) /\ b \in Nat /\ ends[s] \in Nat
    BY <1>1, <2>1
  <2>5. StreamStart(ends, n + 1) \in Nat
    BY <1>1, <2>1
  <2> HIDE DEF b
  <2>6. ASSUME NEW i \in (b + 1)..ends[s] PROVE l[i] = lg[i]
    <3>1. i \in 1..StreamStart(ends, n + 1)
      BY <2>4, <2>5
    <3> QED
      BY <3>1
  <2> QED
    BY <2>2, <2>3, <2>6
<1> QED
  BY <1>4, <1>5 DEF Frames

\* flush() completes a file of the first f streams.
LEMMA FlushedFrames ==
  ASSUME NEW lg, NEW ends, Shape(lg, ends), NEW f \in 0..Len(ends),
         NEW words \in Seq(Word), Frames(words, lg, ends, f)
  PROVE  Frames(words \o SubSeq(Framed(lg, ends), FrameWords(ends, f) + 1, Len(lg) + Len(ends)),
                lg, ends, Len(ends))
<1> DEFINE n == Len(ends)
           w == Framed(lg, ends)
           a == FrameWords(ends, f)
           last == Len(lg) + n
           v == SubSeq(w, a + 1, last)
           u == words \o v
<1>1. w \in Seq(Word) /\ Len(w) = last /\ Frames(w, lg, ends, n)
  BY FramedFrames
<1>2. /\ n \in Nat /\ Len(lg) \in Nat /\ f \in Nat
      /\ \A s \in 1..n : /\ ends[s] \in Nat /\ StreamStart(ends, s) \in Nat
                         /\ StreamStart(ends, s) < ends[s] /\ ends[s] <= Len(lg)
  BY Boundaries
<1>3. /\ a \in Nat /\ FrameWords(ends, n) = last
      /\ \A s \in 1..n : /\ s <= f => ends[s] + s <= a
                         /\ f < s => a < StreamStart(ends, s) + s
  BY FrameOrder
<1>4. a <= last
  <2>1. CASE f = n
    BY <1>2, <1>3, <2>1
  <2>2. CASE f # n
    <3>1. n \in 1..n /\ f < n
      BY <1>2, <2>2
    <3>2. a < StreamStart(ends, n) + n /\ StreamStart(ends, n) \in Nat
          /\ StreamStart(ends, n) <= Len(lg)
      <4>1. a < StreamStart(ends, n) + n
        BY <1>3, <3>1
      <4>2. /\ StreamStart(ends, n) \in Nat /\ ends[n] \in Nat
            /\ StreamStart(ends, n) < ends[n] /\ ends[n] <= Len(lg)
        BY <1>2, <3>1
      <4>3. StreamStart(ends, n) <= Len(lg)
        BY <1>2, <4>2
      <4> QED
        BY <4>1, <4>2, <4>3
    <3> HIDE DEF a, n
    <3> QED
      BY <1>2, <1>3, <3>2
  <2> QED
    BY <2>1, <2>2
<1>5. Len(words) = a
  BY DEF Frames
<1>6. last \in Nat
  BY <1>2
<1> HIDE DEF a, w, last
<1>7. v \in Seq(Word) /\ Len(v) = last - a /\ \A i \in 1..(last - a) : v[i] = w[a + i]
  <2>1. \A j \in 1..last : w[j] \in Word
    BY <1>1, ElementOfSeq
  <2>2. a + 1 \in Int /\ last \in Int /\ \A j \in (a + 1)..last : w[j] \in Word
    BY <1>3, <1>6, <2>1
  <2>3. v \in Seq(Word) /\ Len(v) = IF a + 1 <= last THEN last - (a + 1) + 1 ELSE 0
    BY <2>2, SubSeqProperties
  <2>4. Len(v) = last - a
    BY <1>3, <1>4, <1>6, <2>3
  <2>5. ASSUME NEW i \in 1..(last - a) PROVE v[i] = w[a + i]
    <3>1. a + 1 \in Nat /\ last \in Nat /\ i \in 1..(last + 1 - (a + 1))
      BY <1>3, <1>6
    <3>2. SubSeq(w, a + 1, last)[i] = w[a + 1 + i - 1] /\ a + 1 + i - 1 = a + i
      BY <1>3, <3>1
    <3> QED
      BY <3>2
  <2> QED
    BY <2>3, <2>4, <2>5
<1> HIDE DEF v
<1>8. /\ Len(u) = last
      /\ \A p \in 1..a : u[p] = words[p]
      /\ \A p \in (a + 1)..last : u[p] = w[p]
  <2>1. Len(u) = last /\ \A p \in 1..a : u[p] = words[p]
    <3>1. Len(u) = Len(words) + Len(v) /\ \A p \in 1..Len(words) : u[p] = words[p]
      BY <1>7
    <3>2. a + (last - a) = last
      BY <1>3, <1>6
    <3> QED
      BY <1>5, <1>7, <3>1, <3>2
  <2>2. ASSUME NEW p \in (a + 1)..last PROVE u[p] = w[p]
    <3>1. p - a \in 1..(last - a) /\ a + (p - a) = p /\ p \in (a + 1)..(a + (last - a))
      BY <1>3, <1>6
    <3>2. u[p] = v[p - a]
      BY <1>3, <1>5, <1>6, <1>7, <3>1
    <3> QED
      BY <1>7, <3>1, <3>2
  <2> QED
    BY <2>1, <2>2
<1> HIDE DEF u
<1>9. ASSUME NEW s \in 1..n
      PROVE  LET begin == StreamStart(ends, s) IN
             /\ u[begin + s] = ends[s] - begin
             /\ \A i \in (begin + 1)..ends[s] : u[i + s] = lg[i]
  <2> DEFINE b == StreamStart(ends, s)
  <2>1. b \in Nat /\ ends[s] \in Nat /\ b < ends[s] /\ ends[s] <= Len(lg) /\ s \in Nat \ {0}
    BY <1>2
  <2>2. CASE s <= f
    <3>1. s \in 1..f /\ ends[s] + s <= a
      BY <1>2, <1>3, <2>2
    <3>2. words[b + s] = ends[s] - b /\ \A i \in (b + 1)..ends[s] : words[i + s] = lg[i]
      BY <3>1 DEF Frames
    <3> HIDE DEF b
    <3>3. \A i \in b..ends[s] : i + s \in 1..a
      BY <1>3, <2>1, <3>1
    <3>4. b \in b..ends[s] /\ \A i \in (b + 1)..ends[s] : i \in b..ends[s]
      BY <2>1
    <3>5. u[b + s] = words[b + s] /\ \A i \in (b + 1)..ends[s] : u[i + s] = words[i + s]
      BY <1>8, <3>3, <3>4
    <3> QED
      BY <3>2, <3>5 DEF b
  <2>3. CASE ~(s <= f)
    <3>1. f < s
      BY <1>2, <2>1, <2>3
    <3>2. a < b + s
      BY <1>3, <3>1
    <3>3. w[b + s] = ends[s] - b /\ \A i \in (b + 1)..ends[s] : w[i + s] = lg[i]
      BY <1>1 DEF Frames
    <3> HIDE DEF b
    <3>4. \A i \in b..ends[s] : i + s \in (a + 1)..last
      BY <1>2, <1>3, <2>1, <3>2 DEF last
    <3>5. b \in b..ends[s] /\ \A i \in (b + 1)..ends[s] : i \in b..ends[s]
      BY <2>1
    <3>6. u[b + s] = w[b + s] /\ \A i \in (b + 1)..ends[s] : u[i + s] = w[i + s]
      BY <1>8, <3>4, <3>5
    <3> QED
      BY <3>3, <3>6 DEF b
  <2> QED
    BY <2>2, <2>3
<1> QED
  BY <1>3, <1>8, <1>9 DEF Frames, u, v, w, a, last

\* The frame load() reads at word p.
LEMMA FrameRead ==
  ASSUME NEW words \in Seq(Word), NEW p \in 1..Len(words), words[p] # 0,
         words[p] <= MaxFrame, p + words[p] <= Len(words)
  PROVE  LET s == SubSeq(words, p + 1, p + words[p]) IN
         /\ s \in Seq(Word) /\ s # <<>> /\ Len(s) = words[p]
         /\ Len(s) \in Word /\ Len(s) <= MaxFrame
         /\ \A i \in 1..words[p] : s[i] = words[p + i]
<1> DEFINE k == words[p]
           s == SubSeq(words, p + 1, p + k)
<1>1. /\ Len(words) \in Nat /\ \A j \in 1..Len(words) : words[j] \in Word
      /\ p \in Nat \ {0} /\ k \in Word /\ k \in Nat \ {0}
  <2>1. Len(words) \in Nat /\ \A j \in 1..Len(words) : words[j] \in Word
    BY LenProperties, ElementOfSeq
  <2>2. k \in Word /\ k # 0
    BY <2>1
  <2> HIDE DEF k
  <2>3. k \in Nat \ {0}
    BY <2>2, Limits
  <2>4. p \in Nat \ {0}
    BY <2>1
  <2> QED
    BY <2>1, <2>2, <2>3, <2>4
<1>2. k <= MaxFrame /\ p + k <= Len(words)
  OBVIOUS
<1> HIDE DEF k
<1>3. p + 1 \in Int /\ p + k \in Int /\ \A j \in (p + 1)..(p + k) : words[j] \in Word
  BY <1>1, <1>2
<1>4. s \in Seq(Word) /\ Len(s) = IF p + 1 <= p + k THEN (p + k) - (p + 1) + 1 ELSE 0
  BY <1>3, SubSeqProperties
<1>5. Len(s) = k
  BY <1>1, <1>4
<1>6. ASSUME NEW i \in 1..k PROVE s[i] = words[p + i]
  <2>1. i \in 1..(p + k + 1 - (p + 1)) /\ p + 1 + i - 1 = p + i
    BY <1>1
  <2>2. SubSeq(words, p + 1, p + k)[i] = words[p + 1 + i - 1]
    BY <1>1, <2>1
  <2> QED
    BY <2>1, <2>2
<1> HIDE DEF s
<1>7. s # <<>>
  BY <1>1, <1>5
<1> QED
  BY <1>1, <1>2, <1>4, <1>5, <1>6, <1>7 DEF s, k

\* What is read so far is what was written.
Agree(l, e, lg, ends, n) ==
  /\ Len(e) <= n
  /\ \A s \in 1..Len(e) : e[s] = ends[s]
  /\ \A i \in 1..Len(l) : l[i] = lg[i]

\* The next frame, or the end of the file.
LEMMA NextFrame ==
  ASSUME NEW l, NEW e, Shape(l, e), NEW lg, NEW ends, Shape(lg, ends),
         NEW n \in 0..Len(ends), NEW words, Frames(words, lg, ends, n),
         Agree(l, e, lg, ends, n)
  PROVE  LET p == Len(l) + Len(e) + 1
             s == Len(e) + 1
         IN  /\ Len(e) = n => p = Len(words) + 1 /\ Frames(words, l, e, n)
             /\ Len(e) < n =>
                  /\ s \in 1..n /\ p <= Len(words)
                  /\ words[p] = ends[s] - Len(l) /\ words[p] # 0 /\ words[p] <= MaxFrame
                  /\ p + words[p] <= Len(words)
                  /\ \A i \in 1..words[p] : words[p + i] = lg[Len(l) + i]
<1> DEFINE m == Len(e)
           p == Len(l) + m + 1
           s == m + 1
           b == Len(l)
<1>1. /\ m \in Nat /\ b \in Nat /\ n \in Nat /\ Len(ends) \in Nat /\ n <= Len(ends)
      /\ StreamStart(e, m + 1) = b
      /\ m <= n /\ \A t \in 1..m : e[t] = ends[t]
      /\ \A i \in 1..b : l[i] = lg[i]
  <2>1. Len(e) \in Nat /\ Len(l) \in Nat
    BY Boundaries
  <2>2. Len(ends) \in Nat
    BY Boundaries
  <2> QED
    BY <2>1, <2>2 DEF Shape, Agree
<1>2. StreamStart(ends, m + 1) = b
  <2>1. m # 0 => m \in 1..m
    BY <1>1
  <2> QED
    BY <1>1, <2>1 DEF StreamStart
<1>3. Len(words) = FrameWords(ends, n)
  BY DEF Frames
<1> HIDE DEF m, b
<1>4. ASSUME m = n PROVE p = Len(words) + 1 /\ Frames(words, l, e, n)
  <2>1. FrameWords(ends, n) = b + n
    BY <1>2, <1>4 DEF FrameWords
  <2>2. p = Len(words) + 1
    BY <1>1, <1>3, <1>4, <2>1 DEF b, m
  <2>3. /\ \A t \in 1..n : e[t] = ends[t]
        /\ \A i \in 1..StreamStart(ends, n + 1) : l[i] = lg[i]
    BY <1>1, <1>2, <1>4
  <2>4. Frames(words, l, e, n)
    BY <2>3, FramesAgree
  <2> QED
    BY <2>2, <2>4
<1>5. ASSUME m < n
      PROVE  /\ s \in 1..n /\ p <= Len(words)
             /\ words[p] = ends[s] - b /\ words[p] # 0 /\ words[p] <= MaxFrame
             /\ p + words[p] <= Len(words)
             /\ \A i \in 1..words[p] : words[p + i] = lg[b + i]
  <2>1. s \in 1..n /\ s \in 1..Len(ends) /\ s <= n
    BY <1>1, <1>5
  <2>2. b < ends[s] /\ ends[s] \in Nat
    BY <1>2, <2>1, Boundaries
  <2>3. ends[s] - b <= MaxFrame
    BY <1>2, <2>1 DEF Shape
  <2>4. /\ words[b + s] = ends[s] - b
        /\ \A i \in (b + 1)..ends[s] : words[i + s] = lg[i]
    BY <1>2, <2>1 DEF Frames
  <2>5. ends[s] + s <= Len(words) /\ Len(words) \in Nat
    BY <1>3, <2>1, FrameOrder
  <2> DEFINE k == ends[s] - b
  <2>6. p = b + s /\ k \in Nat \ {0} /\ p + k = ends[s] + s /\ p \in Nat
    <3> DEFINE end == ends[s]
    <3>1. p = b + s /\ b \in Nat /\ s \in Nat /\ end \in Nat /\ b < end /\ k = end - b
      BY <1>1, <2>2 DEF b
    <3> HIDE DEF end, k, p, s
    <3>2. p \in Nat /\ k \in Nat \ {0}
      BY <3>1
    <3>3. p + k = end + s
      BY <3>1
    <3> QED
      BY <3>1, <3>2, <3>3 DEF end
  <2>7. words[p] = k
    BY <2>4, <2>6
  <2>8. ASSUME NEW i \in 1..k PROVE words[p + i] = lg[b + i]
    <3>1. b + i \in (b + 1)..ends[s] /\ (b + i) + s = p + i
      <4> DEFINE end == ends[s]
      <4>1. k = end - b /\ end \in Nat /\ b \in Nat /\ s \in Nat /\ p = b + s
        BY <1>1, <2>2, <2>6
      <4> HIDE DEF end, k, p, s
      <4>2. i \in Nat \ {0} /\ i <= end - b
        BY <4>1
      <4> QED
        BY <4>1, <4>2 DEF end
    <3> QED
      BY <2>4, <3>1
  <2> HIDE DEF k, p, s
  <2>9. p <= Len(words) /\ p + k <= Len(words)
    BY <2>5, <2>6
  <2> QED
    BY <2>1, <2>3, <2>6, <2>7, <2>8, <2>9 DEF k
<1> QED
  BY <1>4, <1>5 DEF m, b

\* The file can be read on after log l with boundaries e.
Readable(words, l, e) ==
  \E lg \in Seq(Word), ends \in Seq(Nat) : \E n \in 0..Len(ends) :
    Shape(lg, ends) /\ Frames(words, lg, ends, n) /\ Agree(l, e, lg, ends, n)

\* A file of frames can be read from the start.
LEMMA ReadableFromStart ==
  ASSUME NEW lg, NEW ends, Shape(lg, ends), NEW n \in 0..Len(ends),
         NEW words, Frames(words, lg, ends, n)
  PROVE  Readable(words, <<>>, <<>>)
<1>1. lg \in Seq(Word) /\ ends \in Seq(Nat)
  BY DEF Shape
<1>2. Len(ends) \in Nat
  BY Boundaries
<1>3. Agree(<<>>, <<>>, lg, ends, n)
  BY <1>2 DEF Agree
<1> QED
  BY <1>1, <1>3 DEF Readable

\* One frame after the other: the one at word p has made log r of l.
OneMore(words, p, l, e, r, q) ==
  /\ p = Len(l) + Len(e) + 1 /\ p <= Len(words) /\ words[p] \in Nat
  /\ Len(r) = Len(l) + words[p] /\ Len(q) = Len(e) + 1
  /\ \A i \in 1..Len(l) : r[i] = l[i]
  /\ \A i \in 1..words[p] : r[Len(l) + i] = words[p + i]
  /\ \A t \in 1..Len(e) : q[t] = e[t]
  /\ q[Len(e) + 1] = Len(r)

LEMMA ReadableOn ==
  ASSUME NEW words, NEW l, NEW e, Shape(l, e), Readable(words, l, e),
         NEW p, NEW r, NEW q, OneMore(words, p, l, e, r, q)
  PROVE  Readable(words, r, q)
<1> USE DEF OneMore
<1> DEFINE m == Len(e)
           b == Len(l)
           k == words[p]
<1>1. PICK lg \in Seq(Word), ends \in Seq(Nat) : \E n \in 0..Len(ends) :
        Shape(lg, ends) /\ Frames(words, lg, ends, n) /\ Agree(l, e, lg, ends, n)
  BY DEF Readable
<1>2. PICK n \in 0..Len(ends) :
        Shape(lg, ends) /\ Frames(words, lg, ends, n) /\ Agree(l, e, lg, ends, n)
  BY <1>1
<1>3. m \in Nat /\ b \in Nat /\ Len(ends) \in Nat /\ n \in Nat /\ k \in Nat
  <2>1. Len(e) \in Nat /\ Len(l) \in Nat
    BY Boundaries
  <2>2. Len(ends) \in Nat
    BY <1>2, Boundaries
  <2> QED
    BY <2>1, <2>2
<1>4. /\ m = n => p = Len(words) + 1 /\ Frames(words, l, e, n)
      /\ m < n =>
           /\ m + 1 \in 1..n /\ p <= Len(words)
           /\ k = ends[m + 1] - b /\ k # 0 /\ k <= MaxFrame
           /\ p + k <= Len(words)
           /\ \A i \in 1..k : words[p + i] = lg[b + i]
  BY <1>2, NextFrame, SMTT(30)
<1>5. m < n
  <2>1. Len(words) \in Nat
    BY <1>2, FrameOrder DEF Frames
  <2>2. m <= n
    BY <1>2 DEF Agree
  <2> QED
    BY <1>3, <1>4, <2>1, <2>2
<1>6. ends[m + 1] \in Nat
  <2>1. m + 1 \in 1..Len(ends)
    BY <1>3, <1>4, <1>5
  <2> QED
    BY <1>2, <2>1, Boundaries
<1>7. /\ Len(r) = b + k /\ Len(q) = m + 1
      /\ \A i \in 1..b : r[i] = l[i]
      /\ \A i \in 1..k : r[b + i] = words[p + i]
      /\ \A t \in 1..m : q[t] = e[t]
      /\ q[m + 1] = Len(r)
  OBVIOUS
<1> HIDE DEF m, b, k
<1>8. ASSUME NEW i \in 1..Len(r) PROVE r[i] = lg[i]
  <2>1. CASE i <= b
    <3>1. i \in 1..b
      BY <1>3, <1>7, <2>1
    <3> QED
      BY <1>2, <1>7, <3>1 DEF Agree, b
  <2>2. CASE ~(i <= b)
    <3>0. Len(r) = b + k
      BY <1>7
    <3>1. i - b \in 1..k /\ b + (i - b) = i
      BY <1>3, <2>2, <3>0
    <3>2. r[b + (i - b)] = words[p + (i - b)]
      BY <1>7, <3>1
    <3>3. words[p + (i - b)] = lg[b + (i - b)]
      BY <1>4, <1>5, <3>1
    <3> QED
      BY <3>1, <3>2, <3>3
  <2> QED
    BY <2>1, <2>2
<1>9. ASSUME NEW t \in 1..Len(q) PROVE q[t] = ends[t]
  <2>1. CASE t = m + 1
    <3> DEFINE end == ends[m + 1]
    <3>1. Len(r) = b + (end - b) /\ end \in Nat
      BY <1>4, <1>5, <1>6, <1>7
    <3> HIDE DEF end
    <3>2. b + (end - b) = end
      BY <1>3, <3>1
    <3> QED
      BY <1>7, <2>1, <3>1, <3>2 DEF end
  <2>2. CASE t # m + 1
    <3>1. t \in 1..m
      BY <1>3, <1>7, <2>2
    <3> QED
      BY <1>2, <1>7, <3>1 DEF Agree, m
  <2> QED
    BY <2>1, <2>2
<1>10. Len(q) <= n
  BY <1>3, <1>5, <1>7
<1>11. Agree(r, q, lg, ends, n)
  BY <1>8, <1>9, <1>10 DEF Agree
<1> QED
  BY <1>2, <1>11 DEF Readable

\* load() stops at the end of such a file, and nowhere before.
LEMMA ReadableEnd ==
  ASSUME NEW words \in Seq(Word), NEW l, NEW e, Shape(l, e), Readable(words, l, e),
         NEW p, p = Len(l) + Len(e) + 1,
         ~(/\ p <= Len(words) /\ words[p] # 0
           /\ words[p] <= MaxFrame /\ p + words[p] <= Len(words))
  PROVE  Frames(words, l, e, Len(e))
<1>1. PICK lg \in Seq(Word), ends \in Seq(Nat) : \E n \in 0..Len(ends) :
        Shape(lg, ends) /\ Frames(words, lg, ends, n) /\ Agree(l, e, lg, ends, n)
  BY DEF Readable
<1>2. PICK n \in 0..Len(ends) :
        Shape(lg, ends) /\ Frames(words, lg, ends, n) /\ Agree(l, e, lg, ends, n)
  BY <1>1
<1>3. /\ Len(e) = n => p = Len(words) + 1 /\ Frames(words, l, e, n)
      /\ Len(e) < n =>
           /\ Len(e) + 1 \in 1..n /\ p <= Len(words)
           /\ words[p] = ends[Len(e) + 1] - Len(l) /\ words[p] # 0 /\ words[p] <= MaxFrame
           /\ p + words[p] <= Len(words)
           /\ \A i \in 1..words[p] : words[p + i] = lg[Len(l) + i]
  BY <1>2, NextFrame
<1>4. Len(e) \in Nat
  BY Boundaries
<1>5. Len(ends) \in Nat
  BY <1>2, Boundaries
<1>6. Len(e) = n
  <2>1. ~(Len(e) < n)
    BY <1>3
  <2>2. Len(e) <= n
    BY <1>2 DEF Agree
  <2> QED
    BY <1>4, <1>5, <2>1, <2>2
<1> QED
  BY <1>3, <1>6

-----------------------------------------------------------------------------
(* The invariant                                                           *)

\* Until a write was cut short, a file that is still to be read holds the
\* streams read so far and what follows them, and one that was read holds
\* exactly the streams that count as flushed.
FileInv ==
  /\ pc # "up" /\ ~torn => Readable(file, log, stream_ends)
  /\ FileMirrorsFlushed

\* The index is at every moment what rebuild_index() would make of the log.
CorpusInv ==
  /\ pc \in {"down", "loading", "up"} /\ torn \in BOOLEAN /\ max_tokens \in Nat
  /\ file \in Seq(Word)
  /\ Shape(log, stream_ends)
  /\ pc = "down" => log = <<>> /\ stream_ends = <<>>
  /\ pc # "loading" => Len(log) <= max_tokens
  /\ flushed_streams \in 0..Len(stream_ends)
  /\ index = Rebuilt(log, stream_ends)
  /\ FileInv

LEMMA EmptyRebuilt == Rebuilt(<<>>, <<>>) = EmptyIndex
<1>1. \A x : AllSites(<<>>, <<>>, x) = {}
  BY DEF AllSites
<1> QED
  BY <1>1, TrimEmpty DEF Rebuilt, EmptyIndex

LEMMA Slice ==
  ASSUME NEW w \in Seq(Word), NEW a \in Nat \ {0}, NEW b \in Int, b <= Len(w)
  PROVE  SubSeq(w, a, b) \in Seq(Word)
<1>1. Len(w) \in Nat /\ \A j \in 1..Len(w) : w[j] \in Word
  BY LenProperties, ElementOfSeq
<1>2. \A j \in a..b : w[j] \in Word
  BY <1>1
<1> QED
  BY <1>2, SubSeqProperties

LEMMA UnflushedWords ==
  ASSUME CorpusInv
  PROVE  Unflushed \in Seq(Word)
<1> DEFINE w == Framed(log, stream_ends)
           a == FrameWords(stream_ends, flushed_streams)
           b == Len(log) + Len(stream_ends)
<1>1. w \in Seq(Word) /\ Len(w) = b
  BY FramedFrames DEF CorpusInv
<1>2. a \in Nat
  BY FrameOrder DEF CorpusInv
<1>3. Len(w) \in Nat
  BY <1>1, LenProperties
<1> HIDE DEF a, b, w
<1>4. a + 1 \in Nat \ {0} /\ b \in Int /\ b <= Len(w)
  BY <1>1, <1>2, <1>3
<1>5. SubSeq(w, a + 1, b) \in Seq(Word)
  BY <1>1, <1>4, Slice
<1> QED
  BY <1>5 DEF Unflushed, a, b, w

LEMMA AfterClose ==
  ASSUME Close, file' \in Seq(Word), torn' \in BOOLEAN,
         ~torn' => Readable(file', <<>>, <<>>)
  PROVE  CorpusInv'
<1>1. Shape(<<>>, <<>>) /\ Rebuilt(<<>>, <<>>) = EmptyIndex
  BY ShapeEmpty, EmptyRebuilt
<1>2. /\ pc' = "down" /\ max_tokens' = 0 /\ log' = <<>> /\ stream_ends' = <<>>
      /\ index' = EmptyIndex /\ flushed_streams' = 0
  BY DEF Close
<1>3. FileInv'
  BY <1>2 DEF FileInv, FileMirrorsFlushed
<1>4. Len(<<>>) = 0
  OBVIOUS
<1> QED
  BY <1>1, <1>2, <1>3, <1>4 DEF CorpusInv

\* The first words of a sequence are words, and all of them are the sequence.
LEMMA Prefix ==
  ASSUME NEW words \in Seq(Word), NEW n \in 0..Len(words)
  PROVE  /\ SubSeq(words, 1, n) \in Seq(Word)
         /\ ~(n < Len(words)) => SubSeq(words, 1, n) = words
<1>1. Len(words) \in Nat
  BY LenProperties
<1>2. 1 \in Nat \ {0} /\ n \in Int /\ n <= Len(words)
  BY <1>1
<1>3. SubSeq(words, 1, n) \in Seq(Word)
  BY <1>2, Slice
<1>4. ASSUME ~(n < Len(words)) PROVE SubSeq(words, 1, n) = words
  <2>1. n = Len(words)
    BY <1>1, <1>4
  <2>2. SubSeq(words, 1, Len(words)) = words
    BY <1>1
  <2> QED
    BY <2>1, <2>2
<1> QED
  BY <1>3, <1>4

\* The file after rewrite_file(): words, and all of them unless some were lost.
LEMMA AfterRewritten ==
  ASSUME file \in Seq(Word), NEW words \in Seq(Word), Rewritten(words)
  PROVE  file' \in Seq(Word) /\ torn' \in BOOLEAN /\ (~torn' => file' = words)
<1>1. CASE file' = file /\ torn' = TRUE
  BY <1>1
<1>2. ASSUME NEW n \in 0..Len(words),
             file' = SubSeq(words, 1, n), torn' = (n < Len(words))
      PROVE  file' \in Seq(Word) /\ torn' \in BOOLEAN /\ (~torn' => file' = words)
  <2>1. /\ SubSeq(words, 1, n) \in Seq(Word)
        /\ ~(n < Len(words)) => SubSeq(words, 1, n) = words
    BY Prefix
  <2>2. (n < Len(words)) \in BOOLEAN
    OBVIOUS
  <2> QED
    BY <1>2, <2>1, <2>2, Zenon
<1> QED
  BY <1>1, <1>2 DEF Rewritten

LEMMA AfterEvict ==
  ASSUME NEW lg, NEW ends, Shape(lg, ends), max_tokens \in Nat, file \in Seq(Word),
         Evict(lg, ends),
         pc' = "up", max_tokens' = max_tokens
  PROVE  CorpusInv'
<1> DEFINE ev == Evicted(lg, ends)
<1>1. Shape(ev.log, ev.ends) /\ Len(ev.log) <= max_tokens
  BY EvictedShape
<1>2. /\ Framed(ev.log, ev.ends) \in Seq(Word)
      /\ Frames(Framed(ev.log, ev.ends), ev.log, ev.ends, Len(ev.ends))
  BY <1>1, FramedFrames
<1>3. Len(ev.ends) \in Nat
  BY <1>1, Boundaries
<1>4. /\ log' = ev.log /\ stream_ends' = ev.ends
      /\ index' = Rebuilt(ev.log, ev.ends) /\ Rewritten(Framed(ev.log, ev.ends))
      /\ flushed_streams' = Len(ev.ends)
  BY DEF Evict
<1> HIDE DEF ev
<1>5. /\ file' \in Seq(Word) /\ torn' \in BOOLEAN
      /\ ~torn' => file' = Framed(ev.log, ev.ends)
  BY <1>2, <1>4, AfterRewritten
<1>6. ~torn' => Frames(file', log', stream_ends', flushed_streams')
  BY <1>2, <1>4, <1>5, Zenon
<1>7. FileInv'
  BY <1>6 DEF FileInv, FileMirrorsFlushed
<1>8. Len(ev.ends) \in 0..Len(ev.ends)
  BY <1>3
<1> QED
  BY <1>1, <1>4, <1>7, <1>8, <1>5 DEF CorpusInv

\* What Remember() does to memory.
LEMMA AfterRemember ==
  ASSUME Shape(log, stream_ends), index = Rebuilt(log, stream_ends),
         NEW s \in Seq(Word), s # <<>>, Len(s) \in Word, Len(s) <= MaxFrame, Remember(s)
  PROVE  /\ Shape(log', stream_ends') /\ index' = Rebuilt(log', stream_ends')
         /\ log' = log \o s
         /\ Len(log') = Len(log) + Len(s) /\ Len(stream_ends') = Len(stream_ends) + 1
         /\ \A i \in 1..Len(log) : log'[i] = log[i]
         /\ \A i \in 1..Len(s) : log'[Len(log) + i] = s[i]
         /\ \A t \in 1..Len(stream_ends) : stream_ends'[t] = stream_ends[t]
         /\ stream_ends'[Len(stream_ends) + 1] = Len(log')
<1>1. /\ log' = log \o s /\ stream_ends' = Append(stream_ends, Len(log'))
      /\ index' = IndexStream(index, log', Len(log), Len(log'))
  BY DEF Remember
<1>2. index' = Rebuilt(log', stream_ends')
  <2>1. IndexStream(Rebuilt(log, stream_ends), log \o s, Len(log), Len(log \o s)) =
          Rebuilt(log \o s, Append(stream_ends, Len(log \o s)))
    BY IndexAppended
  <2> QED
    BY <1>1, <2>1, Zenon
<1>3. /\ Shape(log', Append(stream_ends, Len(log')))
      /\ Len(log') = Len(log) + Len(s)
      /\ Len(Append(stream_ends, Len(log'))) = Len(stream_ends) + 1
      /\ \A i \in 1..Len(log) : log'[i] = log[i]
      /\ \A i \in 1..Len(s) : log'[Len(log) + i] = s[i]
      /\ \A t \in 1..Len(stream_ends) : Append(stream_ends, Len(log'))[t] = stream_ends[t]
      /\ Append(stream_ends, Len(log'))[Len(stream_ends) + 1] = Len(log')
  <2> DEFINE r == log \o s
             e == Append(stream_ends, Len(r))
  <2>1. /\ Shape(r, e)
        /\ Len(r) = Len(log) + Len(s) /\ Len(e) = Len(stream_ends) + 1
        /\ \A i \in 1..Len(log) : r[i] = log[i]
        /\ \A i \in 1..Len(s) : r[Len(log) + i] = s[i]
        /\ \A t \in 1..Len(stream_ends) : e[t] = stream_ends[t]
        /\ e[Len(stream_ends) + 1] = Len(r)
        /\ \A t \in 1..(Len(stream_ends) + 1) : StreamStart(e, t) = StreamStart(stream_ends, t)
    BY ShapeAppended
  <2>2. log' = r
    BY <1>1
  <2> HIDE DEF r
  <2> QED
    BY <2>1, <2>2
<1> QED
  BY <1>1, <1>2, <1>3

-----------------------------------------------------------------------------
(* Steps                                                                   *)

LEMMA InvInit == Init => CorpusInv
<1> SUFFICES ASSUME Init PROVE CorpusInv
  OBVIOUS
<1>1. /\ pc = "down" /\ max_tokens = 0 /\ log = <<>> /\ stream_ends = <<>>
      /\ index = EmptyIndex /\ flushed_streams = 0 /\ file = <<>> /\ torn = FALSE
  BY DEF Init
<1>2. Shape(<<>>, <<>>) /\ Rebuilt(<<>>, <<>>) = EmptyIndex
  BY ShapeEmpty, EmptyRebuilt
<1>3. Frames(<<>>, <<>>, <<>>, 0)
  BY DEF Frames, FrameWords, StreamStart
<1>4. 0 \in 0..Len(<<>>) /\ Len(<<>>) = 0 /\ <<>> \in Seq(Word)
  OBVIOUS
<1>5. Readable(<<>>, <<>>, <<>>)
  BY <1>2, <1>3, <1>4, ReadableFromStart
<1>6. FileInv
  BY <1>1, <1>5 DEF FileInv, FileMirrorsFlushed
<1>7. Shape(log, stream_ends) /\ index = Rebuilt(log, stream_ends) /\ file \in Seq(Word)
  BY <1>1, <1>2, <1>4, Zenon
<1>8. /\ Len(log) <= max_tokens /\ flushed_streams \in 0..Len(stream_ends)
      /\ max_tokens \in Nat /\ torn \in BOOLEAN
  <2>1. Len(log) = 0 /\ Len(stream_ends) = 0
    BY <1>1, <1>4, Zenon
  <2>2. 0 <= 0 /\ 0 \in 0..0 /\ 0 \in Nat /\ FALSE \in BOOLEAN
    OBVIOUS
  <2> QED
    BY <1>1, <2>1, <2>2, Zenon
<1> QED
  BY <1>1, <1>6, <1>7, <1>8 DEF CorpusInv

LEMMA InvOpen ==
  ASSUME CorpusInv, NEW m \in Budgets, Open(m)
  PROVE  CorpusInv'
<1>1. /\ pc = "down" /\ pc' = "loading" /\ max_tokens' = m /\ m \in Nat
      /\ UNCHANGED <<log, stream_ends, index, flushed_streams, file, torn>>
  BY CorpusAssumption DEF Open
<1>2. FileInv'
  BY <1>1 DEF CorpusInv, FileInv, FileMirrorsFlushed
<1> QED
  BY <1>1, <1>2 DEF CorpusInv

LEMMA InvLoadFrame ==
  ASSUME CorpusInv, LoadFrame
  PROVE  CorpusInv'
<1> DEFINE p == NextWord
           s == SubSeq(file, p + 1, p + file[p])
<1>1. /\ pc = "loading" /\ Remember(s)
      /\ UNCHANGED <<pc, max_tokens, flushed_streams, file, torn>>
      /\ p = Len(log) + Len(stream_ends) + 1
      /\ p <= Len(file) /\ file[p] # 0 /\ file[p] <= MaxFrame
      /\ p + file[p] <= Len(file)
  BY DEF LoadFrame, FrameAhead, NextWord
<1>2. /\ Shape(log, stream_ends) /\ index = Rebuilt(log, stream_ends)
      /\ file \in Seq(Word)
  BY DEF CorpusInv
<1>3. Len(log) \in Nat /\ Len(stream_ends) \in Nat /\ Len(file) \in Nat
  BY <1>2, Boundaries, LenProperties
<1> HIDE DEF p
<1>4. p \in 1..Len(file)
  BY <1>1, <1>3
<1>5. /\ s \in Seq(Word) /\ s # <<>> /\ Len(s) = file[p]
      /\ Len(s) \in Word /\ Len(s) <= MaxFrame
      /\ \A i \in 1..file[p] : s[i] = file[p + i]
  BY <1>1, <1>2, <1>4, FrameRead
<1> HIDE DEF s
<1>6. /\ Shape(log', stream_ends') /\ index' = Rebuilt(log', stream_ends')
      /\ log' = log \o s
      /\ Len(log') = Len(log) + Len(s) /\ Len(stream_ends') = Len(stream_ends) + 1
      /\ \A i \in 1..Len(log) : log'[i] = log[i]
      /\ \A i \in 1..Len(s) : log'[Len(log) + i] = s[i]
      /\ \A t \in 1..Len(stream_ends) : stream_ends'[t] = stream_ends[t]
      /\ stream_ends'[Len(stream_ends) + 1] = Len(log')
  BY <1>1, <1>2, <1>5, AfterRemember
<1>7. file[p] \in Nat
  BY <1>5, Limits
<1>8. ASSUME Readable(file, log, stream_ends) PROVE Readable(file, log', stream_ends')
  <2>1. \A i \in 1..file[p] : log'[Len(log) + i] = file[p + i]
    BY <1>5, <1>6
  <2>2. Len(log') = Len(log) + file[p]
    BY <1>5, <1>6
  <2>3. /\ Len(stream_ends') = Len(stream_ends) + 1
        /\ \A i \in 1..Len(log) : log'[i] = log[i]
        /\ \A t \in 1..Len(stream_ends) : stream_ends'[t] = stream_ends[t]
        /\ stream_ends'[Len(stream_ends) + 1] = Len(log')
    BY <1>6
  <2>4. p = Len(log) + Len(stream_ends) + 1 /\ p <= Len(file)
    BY <1>1
  <2>5. OneMore(file, p, log, stream_ends, log', stream_ends')
    BY <1>7, <2>1, <2>2, <2>3, <2>4 DEF OneMore
  <2> QED
    BY <1>2, <1>8, <2>5, ReadableOn
<1>9. FileInv'
  <2>1. ~torn => Readable(file, log, stream_ends)
    BY <1>1 DEF CorpusInv, FileInv
  <2> QED
    BY <1>1, <1>8, <2>1 DEF FileInv, FileMirrorsFlushed
<1>10. flushed_streams' \in 0..Len(stream_ends')
  <2>1. flushed_streams \in 0..Len(stream_ends)
    BY DEF CorpusInv
  <2> QED
    BY <1>1, <1>3, <1>6, <2>1
<1>11. pc' = "loading" /\ torn' \in BOOLEAN /\ max_tokens' \in Nat /\ file' \in Seq(Word)
  BY <1>1 DEF CorpusInv
<1> QED
  BY <1>6, <1>9, <1>10, <1>11 DEF CorpusInv

LEMMA InvLoadEnd ==
  ASSUME CorpusInv, LoadEnd
  PROVE  CorpusInv'
<1>1. /\ pc = "loading" /\ ~FrameAhead /\ pc' = "up" /\ max_tokens' = max_tokens
  BY DEF LoadEnd
<1>2. /\ Shape(log, stream_ends) /\ max_tokens \in Nat /\ file \in Seq(Word)
      /\ torn \in BOOLEAN /\ index = Rebuilt(log, stream_ends)
  BY DEF CorpusInv
<1>3. Len(log) \in Nat /\ Len(stream_ends) \in Nat
  BY <1>2, Boundaries
<1>4. CASE Len(log) > max_tokens
  <2>1. Evict(log, stream_ends)
    BY <1>4 DEF LoadEnd
  <2> QED
    BY <1>1, <1>2, <2>1, AfterEvict
<1>5. CASE ~(Len(log) > max_tokens)
  <2>1. /\ flushed_streams' = Len(stream_ends)
        /\ UNCHANGED <<log, stream_ends, index, file, torn>>
    BY <1>5 DEF LoadEnd
  <2>2. ASSUME ~torn PROVE Frames(file, log, stream_ends, Len(stream_ends))
    <3>1. Readable(file, log, stream_ends)
      BY <1>1, <2>2 DEF CorpusInv, FileInv
    <3> DEFINE p == Len(log) + Len(stream_ends) + 1
    <3>2. ~(/\ p <= Len(file) /\ file[p] # 0
            /\ file[p] <= MaxFrame /\ p + file[p] <= Len(file))
      BY <1>1 DEF FrameAhead, NextWord
    <3> QED
      BY <1>2, <3>1, <3>2, ReadableEnd
  <2>3. FileInv'
    BY <1>1, <2>1, <2>2 DEF FileInv, FileMirrorsFlushed
  <2>4. Len(log) <= max_tokens /\ Len(stream_ends) \in 0..Len(stream_ends)
    BY <1>2, <1>3, <1>5
  <2> QED
    BY <1>1, <1>2, <2>1, <2>3, <2>4 DEF CorpusInv
<1> QED
  BY <1>4, <1>5

LEMMA InvObserve ==
  ASSUME CorpusInv, NEW s \in Stream, observe(s)
  PROVE  CorpusInv'
<1>1. pc = "up" /\ pc' = "up" /\ max_tokens' = max_tokens
  BY DEF observe
<1>2. /\ Shape(log, stream_ends) /\ max_tokens \in Nat /\ file \in Seq(Word)
      /\ torn \in BOOLEAN /\ index = Rebuilt(log, stream_ends)
      /\ flushed_streams \in 0..Len(stream_ends)
  BY DEF CorpusInv
<1>3. s \in Seq(Word) /\ s # <<>> /\ Len(s) \in Word /\ Len(s) <= MaxFrame
  BY CorpusAssumption
<1>4. CASE Len(log \o s) > max_tokens
  <2>1. Evict(log \o s, Append(stream_ends, Len(log \o s)))
    BY <1>4 DEF observe
  <2>2. Shape(log \o s, Append(stream_ends, Len(log \o s)))
    BY <1>2, <1>3, ShapeAppended
  <2> QED
    BY <1>1, <1>2, <2>1, <2>2, AfterEvict
<1>5. CASE ~(Len(log \o s) > max_tokens)
  <2>1. Remember(s) /\ UNCHANGED <<flushed_streams, file, torn>>
    BY <1>5 DEF observe
  <2>2. /\ Shape(log', stream_ends') /\ index' = Rebuilt(log', stream_ends')
        /\ log' = log \o s
        /\ Len(log') = Len(log) + Len(s) /\ Len(stream_ends') = Len(stream_ends) + 1
        /\ \A i \in 1..Len(log) : log'[i] = log[i]
        /\ \A i \in 1..Len(s) : log'[Len(log) + i] = s[i]
        /\ \A t \in 1..Len(stream_ends) : stream_ends'[t] = stream_ends[t]
        /\ stream_ends'[Len(stream_ends) + 1] = Len(log')
    BY <1>2, <1>3, <2>1, AfterRemember
  <2>3. Len(stream_ends) \in Nat /\ Len(log) \in Nat
    BY <1>2, Boundaries
  <2>4. Len(log') \in Nat
    BY <2>2, Boundaries
  <2>5. Len(log') <= max_tokens
    BY <1>2, <1>5, <2>2, <2>4
  <2>6. flushed_streams' \in 0..Len(stream_ends')
    BY <1>2, <2>1, <2>2, <2>3
  <2>7. ASSUME ~torn PROVE Frames(file, log', stream_ends', flushed_streams)
    <3> DEFINE f == flushed_streams
               reach == StreamStart(stream_ends, f + 1)
    <3>1. Frames(file, log, stream_ends, f)
      BY <1>1, <2>7 DEF CorpusInv, FileInv, FileMirrorsFlushed
    <3>2. \A t \in 1..f : stream_ends'[t] = stream_ends[t]
      BY <1>2, <2>2, <2>3
    <3>3. f + 1 \in 1..(Len(stream_ends) + 1)
      BY <1>2, <2>3
    <3>4. reach \in Nat /\ reach <= Len(log)
      BY <1>2, <3>3, Boundaries
    <3>5. \A i \in 1..reach : log'[i] = log[i]
      <4> HIDE DEF reach
      <4> QED
        BY <2>2, <2>3, <3>4
    <3> QED
      BY <1>2, <3>1, <3>2, <3>5, FramesAgree
  <2>8. FileInv'
    BY <1>1, <2>1, <2>7 DEF FileInv, FileMirrorsFlushed
  <2> QED
    BY <1>1, <1>2, <2>1, <2>2, <2>5, <2>6, <2>8 DEF CorpusInv
<1> QED
  BY <1>4, <1>5

\* What flush() leaves: words, and every frame unless one was lost.
LEMMA AfterFlushed ==
  ASSUME CorpusInv, pc = "up", Flushed
  PROVE  /\ file' \in Seq(Word) /\ torn' \in BOOLEAN
         /\ ~torn' => Frames(file', log, stream_ends, Len(stream_ends))
<1>1. file \in Seq(Word) /\ Unflushed \in Seq(Word) /\ torn \in BOOLEAN
  BY UnflushedWords DEF CorpusInv
<1>2. PICK n \in 0..Len(Unflushed) : /\ file' = file \o SubSeq(Unflushed, 1, n)
                                   /\ torn' = (torn \/ n < Len(Unflushed))
  BY DEF Flushed
<1>3. SubSeq(Unflushed, 1, n) \in Seq(Word)
  BY <1>1, Prefix
<1>4. file' \in Seq(Word)
  BY <1>1, <1>2, <1>3
<1>5. ASSUME ~torn' PROVE Frames(file', log, stream_ends, Len(stream_ends))
  <2>1. ~torn /\ ~(n < Len(Unflushed))
    BY <1>2, <1>5
  <2>2. SubSeq(Unflushed, 1, n) = Unflushed
    BY <1>1, <2>1, Prefix
  <2>3. /\ Frames(file, log, stream_ends, flushed_streams) /\ Shape(log, stream_ends)
        /\ flushed_streams \in 0..Len(stream_ends) /\ file \in Seq(Word)
    BY <2>1 DEF CorpusInv, FileInv, FileMirrorsFlushed
  <2>4. Frames(file \o SubSeq(Framed(log, stream_ends),
                              FrameWords(stream_ends, flushed_streams) + 1,
                              Len(log) + Len(stream_ends)),
               log, stream_ends, Len(stream_ends))
    BY <2>3, FlushedFrames
  <2>5. file' = file \o Unflushed
    BY <1>2, <2>2, Zenon
  <2> QED
    BY <2>4, <2>5, Zenon DEF Unflushed
<1>6. torn' \in BOOLEAN
  BY <1>2, Zenon
<1> QED
  BY <1>4, <1>5, <1>6

LEMMA InvFlush ==
  ASSUME CorpusInv, flush
  PROVE  CorpusInv'
<1>1. /\ pc = "up" /\ Flushed /\ flushed_streams' = Len(stream_ends)
      /\ UNCHANGED <<pc, max_tokens, log, stream_ends, index>>
  BY DEF flush
<1>2. /\ file' \in Seq(Word) /\ torn' \in BOOLEAN
      /\ ~torn' => Frames(file', log, stream_ends, Len(stream_ends))
  BY <1>1, AfterFlushed
<1>3. FileInv'
  BY <1>1, <1>2 DEF FileInv, FileMirrorsFlushed
<1>4. Len(stream_ends) \in Nat
  BY Boundaries DEF CorpusInv
<1>5. flushed_streams' \in 0..Len(stream_ends')
  BY <1>1, <1>4
<1> QED
  BY <1>1, <1>2, <1>3, <1>5 DEF CorpusInv

LEMMA InvDestroy ==
  ASSUME CorpusInv, Destroy
  PROVE  CorpusInv'
<1>1. pc = "up" /\ Flushed /\ Close
  BY DEF Destroy
<1>2. /\ file' \in Seq(Word) /\ torn' \in BOOLEAN
      /\ ~torn' => Frames(file', log, stream_ends, Len(stream_ends))
  BY <1>1, AfterFlushed
<1>3. Shape(log, stream_ends) /\ Len(stream_ends) \in Nat
  BY Boundaries DEF CorpusInv
<1>4. Len(stream_ends) \in 0..Len(stream_ends)
  BY <1>3
<1>5. ~torn' => Readable(file', <<>>, <<>>)
  BY <1>2, <1>3, <1>4, ReadableFromStart
<1> QED
  BY <1>1, <1>2, <1>3, <1>5, AfterClose

\* A file that is being read can be read again from the start.
LEMMA InvCrash ==
  ASSUME CorpusInv, Crash
  PROVE  CorpusInv'
<1>1. Close /\ file' = file /\ torn' = torn
  BY DEF Crash
<1>2. file \in Seq(Word) /\ torn \in BOOLEAN
  BY DEF CorpusInv
<1>3. ASSUME ~torn PROVE Readable(file, <<>>, <<>>)
  <2>1. CASE pc = "up"
    <3>1. /\ Frames(file, log, stream_ends, flushed_streams) /\ Shape(log, stream_ends)
          /\ flushed_streams \in 0..Len(stream_ends)
      BY <1>3, <2>1 DEF CorpusInv, FileInv, FileMirrorsFlushed
    <3> QED
      BY <3>1, ReadableFromStart
  <2>2. CASE pc # "up"
    <3>1. Readable(file, log, stream_ends)
      BY <1>3, <2>2 DEF CorpusInv, FileInv
    <3>2. PICK lg \in Seq(Word), ends \in Seq(Nat) : \E n \in 0..Len(ends) :
            Shape(lg, ends) /\ Frames(file, lg, ends, n)
      BY <3>1 DEF Readable
    <3>3. PICK n \in 0..Len(ends) : Shape(lg, ends) /\ Frames(file, lg, ends, n)
      BY <3>2
    <3> QED
      BY <3>3, ReadableFromStart
  <2> QED
    BY <2>1, <2>2
<1> QED
  BY <1>1, <1>2, <1>3, AfterClose

LEMMA InvNext == CorpusInv /\ [Next]_vars => CorpusInv'
<1> SUFFICES ASSUME CorpusInv, [Next]_vars PROVE CorpusInv'
  OBVIOUS
<1>1. ASSUME NEW m \in Budgets, Open(m) PROVE CorpusInv'
  BY <1>1, InvOpen
<1>2. CASE LoadFrame
  BY <1>2, InvLoadFrame
<1>3. CASE LoadEnd
  BY <1>3, InvLoadEnd
<1>4. ASSUME NEW s \in Stream, observe(s) PROVE CorpusInv'
  BY <1>4, InvObserve
<1>5. CASE flush
  BY <1>5, InvFlush
<1>6. CASE Destroy
  BY <1>6, InvDestroy
<1>7. CASE Crash
  BY <1>7, InvCrash
<1>8. CASE UNCHANGED vars
  BY <1>8 DEF vars, CorpusInv, FileInv, FileMirrorsFlushed
<1> QED
  BY <1>1, <1>2, <1>3, <1>4, <1>5, <1>6, <1>7, <1>8 DEF Next

LEMMA Corpus == Spec => []CorpusInv
  BY InvInit, InvNext, PTL DEF Spec

-----------------------------------------------------------------------------
(* Theorems                                                                *)

\* The log is within its budget and cut into streams, and no key of the index
\* has more sites than configured, through evictions, restarts, crashes and
\* files that are misread.
THEOREM CorpusTypes == Spec => []CorpusTypeOK
<1>1. CorpusInv => CorpusTypeOK
  <2> SUFFICES ASSUME CorpusInv PROVE CorpusTypeOK
    OBVIOUS
  <2>1. /\ Shape(log, stream_ends) /\ index = Rebuilt(log, stream_ends)
        /\ pc \in {"down", "loading", "up"} /\ torn \in BOOLEAN /\ file \in Seq(Word)
        /\ (pc # "loading" => Len(log) <= max_tokens)
        /\ flushed_streams \in 0..Len(stream_ends)
    BY DEF CorpusInv
  <2>2. log \in Seq(Word)
    BY <2>1 DEF Shape
  <2>3. \A s \in 1..Len(stream_ends) : StreamStart(stream_ends, s) < stream_ends[s]
    BY <2>1 DEF Shape
  <2>4. StreamStart(stream_ends, Len(stream_ends) + 1) = Len(log)
    BY <2>1 DEF Shape
  <2>5. ASSUME NEW x \in Bucket PROVE Cardinality(index[x]) <= max_sites_per_ngram
    <3>1. /\ AllSites(log, stream_ends, x) \in SUBSET (0..Len(log))
          /\ IsFiniteSet(AllSites(log, stream_ends, x))
      BY <2>1, SiteInStream
    <3>2. AllSites(log, stream_ends, x) \in SUBSET Nat
      BY <3>1
    <3>3. index[x] = Trim(AllSites(log, stream_ends, x))
      BY <2>1 DEF Rebuilt
    <3> QED
      BY <3>1, <3>2, <3>3, TrimBounded
  <2>6. {log, file} \subseteq Seq(Word)
    BY <2>1, <2>2
  <2> QED
    BY <2>1, <2>3, <2>4, <2>5, <2>6 DEF CorpusTypeOK
<1> QED
  BY <1>1, Corpus, PTL

\* Whatever the streams, the hash and its collisions, the budgets and the
\* crashes: a draft continues an occurrence of its n-gram inside one stream.
THEOREM DraftsAreContinuations == Spec => []DraftsContinueAStream
<1>1. CorpusInv => DraftsContinueAStream
  <2> SUFFICES ASSUME CorpusInv, NEW g \in [1..ngram -> Word], NEW k \in 1..MaxDraft,
                      draft(g, k) # <<>>
               PROVE  LET d == draft(g, k) IN
                      /\ Len(d) <= k
                      /\ \E s \in 1..Len(stream_ends) :
                           \E o \in StreamStart(stream_ends, s)..(stream_ends[s] - ngram - Len(d)) :
                             SubSeq(log, o + 1, o + ngram + Len(d)) = g \o d
    BY DEF DraftsContinueAStream
  <2>1. k \in Nat \ {0}
    OBVIOUS
  <2> QED
    BY <2>1, DraftContinues DEF CorpusInv
<1> QED
  BY <1>1, Corpus, PTL

\* An n-gram whose key no other n-gram shares is answered from its newest
\* occurrence that has a continuation, however many sites were dropped.
THEOREM NewestIsFound == Spec => []NewestOccurrenceFound
<1>1. CorpusInv => NewestOccurrenceFound
  <2> SUFFICES ASSUME CorpusInv, NEW g \in [1..ngram -> Word]
               PROVE  LET at == {o \in Continued : NgramAt(log, o) = g} IN
                      (/\ at # {}
                       /\ \A o \in Continued : ngram_key(NgramAt(log, o)) = ngram_key(g) => o \in at)
                        => draft(g, 1) = <<log[Max(at) + ngram + 1]>>
    BY DEF NewestOccurrenceFound
  <2> DEFINE at == {o \in Continued : NgramAt(log, o) = g}
  <2> SUFFICES ASSUME at # {},
                      \A o \in Continued : ngram_key(NgramAt(log, o)) = ngram_key(g) => o \in at
               PROVE  draft(g, 1) = <<log[Max(at) + ngram + 1]>>
    OBVIOUS
  <2>1. Shape(log, stream_ends) /\ index = Rebuilt(log, stream_ends)
    BY DEF CorpusInv
  <2> QED
    BY <2>1, DraftNewest
<1> QED
  BY <1>1, Corpus, PTL

\* Until a write is lost or cut short the file holds exactly the flushed streams: no
\* restart, eviction or flush repeats, skips or half-reads one.
THEOREM FileIsExact == Spec => []FileMirrorsFlushed
<1>1. CorpusInv => FileMirrorsFlushed
  BY DEF CorpusInv, FileInv
<1> QED
  BY <1>1, Corpus, PTL
=============================================================================
