------------------------- MODULE CacheManagerProofs -------------------------
(***************************************************************************)
(* The directory and the index agree, and the snapshot cache implements     *)
(* LossyCache, for all keys, values, file names (collisions included),      *)
(* sizes and budgets.                                                       *)
(***************************************************************************)
EXTENDS CacheManager, FiniteSetTheorems, TLAPS

-----------------------------------------------------------------------------
(* Sums of sizes                                                           *)

\* The bytes a sum counts.
Parts(g, S) == UNION {{x} \X (1 .. g[x]) : x \in S}

LEMMA SumOfParts == \A g, S : Sum(g, S) = Cardinality(Parts(g, S))
  BY DEF Sum, Parts

\* A byte belongs to one member.
LEMMA PartOf ==
  ASSUME NEW g, NEW S, \A x \in S : g[x] \in Nat
  PROVE  \A z : z \in Parts(g, S) <=>
                  \E x \in S : \E i \in 1 .. g[x] : z = <<x, i>>
  BY DEF Parts

\* One member.
LEMMA SumOne ==
  ASSUME NEW g, NEW x, g[x] \in Nat
  PROVE  IsFiniteSet(Parts(g, {x})) /\ Sum(g, {x}) = g[x]
<1>1. Parts(g, {x}) = {x} \X (1 .. g[x])
  BY DEF Parts
<1>2. IsFiniteSet({x}) /\ Cardinality({x}) = 1
  BY FS_Singleton
<1>3. IsFiniteSet(1 .. g[x]) /\ Cardinality(1 .. g[x]) = g[x]
  BY FS_Interval, SMTT(20)
<1>4. /\ IsFiniteSet({x} \X (1 .. g[x]))
      /\ Cardinality({x} \X (1 .. g[x])) = 1 * g[x]
  BY <1>2, <1>3, FS_Product, ZenonT(30)
<1>5. Sum(g, {x}) = Cardinality({x} \X (1 .. g[x]))
  BY <1>1, SumOfParts
<1>6. 1 * g[x] = g[x]
  OBVIOUS
<1> QED
  BY <1>1, <1>4, <1>5, <1>6, Zenon

\* Finitely many members have finitely many bytes.
LEMMA SumFinite ==
  ASSUME NEW g, NEW S, IsFiniteSet(S), \A x \in S : g[x] \in Nat
  PROVE  IsFiniteSet(Parts(g, S)) /\ Sum(g, S) \in Nat
<1> DEFINE T == {{x} \X (1 .. g[x]) : x \in S}
           f == [x \in S |-> {x} \X (1 .. g[x])]
<1>1. f \in Surjection(S, T)
  BY DEF Surjection
<1>2. IsFiniteSet(T)
  BY <1>1, FS_Surjection
<1>3. ASSUME NEW t \in T PROVE IsFiniteSet(t)
  <2>1. PICK x \in S : t = {x} \X (1 .. g[x])
    OBVIOUS
  <2>2. IsFiniteSet({x})
    BY FS_Singleton
  <2>3. IsFiniteSet(1 .. g[x])
    <3>1. g[x] \in Int
      OBVIOUS
    <3> QED
      BY <3>1, FS_Interval
  <2> QED
    BY <2>1, <2>2, <2>3, FS_Product
<1>4. IsFiniteSet(UNION T)
  BY <1>2, <1>3, FS_UNION
<1> QED
  BY <1>4, FS_CardinalityType, SumOfParts DEF Parts

\* The sum of a set is the sum of a part of it and of the rest.
LEMMA SumSplit ==
  ASSUME NEW g, NEW S, IsFiniteSet(S), \A x \in S : g[x] \in Nat,
         NEW D \in SUBSET S
  PROVE  /\ IsFiniteSet(D) /\ IsFiniteSet(S \ D)
         /\ Sum(g, D) \in Nat /\ Sum(g, S \ D) \in Nat
         /\ Sum(g, S) = Sum(g, D) + Sum(g, S \ D)
<1>1. IsFiniteSet(D) /\ IsFiniteSet(S \ D)
  BY FS_Subset, FS_Difference
<1>2. /\ IsFiniteSet(Parts(g, D)) /\ IsFiniteSet(Parts(g, S \ D))
      /\ Sum(g, D) \in Nat /\ Sum(g, S \ D) \in Nat
  BY <1>1, SumFinite
<1>3. Parts(g, S) = Parts(g, D) \cup Parts(g, S \ D)
  BY PartOf
<1>4. Parts(g, D) \cap Parts(g, S \ D) = {}
  BY PartOf
<1>5. Cardinality(Parts(g, D) \cap Parts(g, S \ D)) = 0
  BY <1>4, FS_EmptySet
<1>6. Cardinality(Parts(g, S)) =
        Cardinality(Parts(g, D)) + Cardinality(Parts(g, S \ D)) - 0
  BY <1>2, <1>3, <1>5, FS_Union
<1>7. /\ Sum(g, S) = Cardinality(Parts(g, S)) /\ Sum(g, D) = Cardinality(Parts(g, D))
      /\ Sum(g, S \ D) = Cardinality(Parts(g, S \ D))
  BY SumOfParts
<1> QED
  BY <1>1, <1>2, <1>6, <1>7

LEMMA SumLess ==
  ASSUME NEW g, NEW S, IsFiniteSet(S), \A x \in S : g[x] \in Nat,
         NEW D \in SUBSET S
  PROVE  Sum(g, D) <= Sum(g, S)
<1>1. /\ IsFiniteSet(D) /\ Sum(g, D) \in Nat /\ Sum(g, S \ D) \in Nat
      /\ Sum(g, S) = Sum(g, D) + Sum(g, S \ D)
  BY SumSplit
<1> QED
  BY <1>1

\* One more member.
LEMMA SumAdd ==
  ASSUME NEW g, NEW S, IsFiniteSet(S), NEW x, x \notin S, g[x] \in Nat,
         \A y \in S : g[y] \in Nat
  PROVE  Sum(g, S \cup {x}) = Sum(g, S) + g[x] /\ Sum(g, S) \in Nat
<1> DEFINE U == S \cup {x}
<1>1. IsFiniteSet(U)
  BY FS_AddElement
<1>2. \A y \in U : g[y] \in Nat
  OBVIOUS
<1>3. S \in SUBSET U /\ U \ S = {x}
  OBVIOUS
<1> HIDE DEF U
<1>4. /\ IsFiniteSet(S) /\ IsFiniteSet(U \ S)
      /\ Sum(g, S) \in Nat /\ Sum(g, U \ S) \in Nat
      /\ Sum(g, U) = Sum(g, S) + Sum(g, U \ S)
  BY <1>1, <1>2, <1>3, SumSplit
<1>5. Sum(g, {x}) = g[x]
  BY SumOne
<1> QED
  BY <1>3, <1>4, <1>5 DEF U

\* The sum of no members, and of members with the same sizes.
LEMMA SumNone == \A g : Sum(g, {}) = 0
<1>1. \A g : Parts(g, {}) = {}
  BY DEF Parts
<1> QED
  BY <1>1, FS_EmptySet, SumOfParts

LEMMA SumSame ==
  ASSUME NEW g, NEW h, NEW S, \A x \in S : g[x] = h[x]
  PROVE  Sum(g, S) = Sum(h, S)
<1>1. {{x} \X (1 .. g[x]) : x \in S} = {{x} \X (1 .. h[x]) : x \in S}
  OBVIOUS
<1> QED
  BY <1>1 DEF Sum

\* Members that are mapped to different and no smaller ones sum to no more.
LEMMA SumMapped ==
  ASSUME NEW g, NEW S, NEW h, NEW T, NEW m \in [S -> T], IsFiniteSet(T),
         \A x \in S : g[x] \in Nat, \A y \in T : h[y] \in Nat,
         \A x, y \in S : m[x] = m[y] => x = y,
         \A x \in S : g[x] <= h[m[x]]
  PROVE  Sum(g, S) <= Sum(h, T) /\ Sum(g, S) \in Nat
<1> DEFINE f == [z \in Parts(g, S) |-> <<m[z[1]], z[2]>>]
<1>1. ASSUME NEW z \in Parts(g, S)
      PROVE  /\ z[1] \in S /\ z[2] \in 1 .. g[z[1]] /\ z = <<z[1], z[2]>>
             /\ f[z] \in Parts(h, T)
  <2>1. PICK x \in S : \E i \in 1 .. g[x] : z = <<x, i>>
    BY PartOf
  <2>2. PICK i \in 1 .. g[x] : z = <<x, i>>
    BY <2>1
  <2>3. m[x] \in T /\ i \in 1 .. h[m[x]]
    BY <2>2
  <2> QED
    BY <2>2, <2>3, PartOf
<1>2. ASSUME NEW y \in Parts(g, S), NEW z \in Parts(g, S), f[y] = f[z]
      PROVE  y = z
  <2>1. m[y[1]] = m[z[1]] /\ y[2] = z[2]
    BY <1>2
  <2> QED
    BY <1>1, <2>1
<1>3. f \in Injection(Parts(g, S), Parts(h, T))
  BY <1>1, <1>2 DEF Injection, IsInjective
<1>4. IsFiniteSet(Parts(h, T)) /\ Sum(h, T) \in Nat
  BY SumFinite
<1>5. /\ IsFiniteSet(Parts(g, S))
      /\ Cardinality(Parts(g, S)) <= Cardinality(Parts(h, T))
  BY <1>3, <1>4, FS_Injection
<1> QED
  BY <1>5, FS_CardinalityType, SumOfParts

-----------------------------------------------------------------------------
(* The directory and the index                                             *)

USE StoreAssumption, AbsentAssumption

StoreInv == StoreTyped /\ FilesIndexed

LEMMA StoreInit == Init => StoreInv
  BY DEF Init, StoreInv, StoreTyped, FilesIndexed, Readable, Content, NoFile

\* An index without D and a directory where each file is as it was or gone.
LEMMA DropKeepsInv ==
  ASSUME StoreInv, NEW D, Index(D),
         \/ disk' = Unlinked(D)
         \/ \E k \in Key : disk' = [Unlinked(D) EXCEPT ![file_of[k]] = NoFile],
         up' => up
  PROVE  StoreInv'
<1> USE DEF StoreInv
<1>1. /\ \A f \in File : disk'[f] \in {disk[f], NoFile}
      /\ \A f \in File : disk'[f] # NoFile => ~\E k \in D : file_of[k] = f
      /\ disk' \in [File -> Content]
  BY DEF Unlinked, StoreTyped, Content
<1>2. /\ DOMAIN entries' = DOMAIN entries \ D
      /\ \A k \in DOMAIN entries \ D : entries'[k] = entries[k]
  BY DEF Index
<1>3. StoreTyped'
  BY <1>1, <1>2 DEF StoreTyped
<1>4. ASSUME NEW f \in File, Readable(f)'
      PROVE  /\ disk'[f] = disk[f] /\ Readable(f)
             /\ disk[f].key \notin D
  <2>1. disk'[f] # NoFile
    BY <1>4 DEF Readable, NoFile
  <2>2. disk'[f] = disk[f] /\ Readable(f)
    BY <1>1, <1>4, <2>1 DEF Readable
  <2> QED
    BY <1>1, <2>1, <2>2 DEF FilesIndexed
<1>5. FilesIndexed'
  BY <1>2, <1>4 DEF FilesIndexed, FileSize, Found, Readable
<1> QED
  BY <1>3, <1>5

\* The directory after k's file was rewritten with part of value v.
LEMMA WrittenFiles ==
  ASSUME StoreInv, NEW D, NEW k \in Key, NEW v \in Value, NEW c \in Partial(k, v),
         Written(D, k, c)
  PROVE  /\ disk' \in [File -> Content]
         /\ disk'[file_of[k]] = c
         /\ c.kind = "torn" \/ \E n \in 0 .. Size[v] : c = Holds(k, v, n)
         /\ \A f \in File \ {file_of[k]} :
              /\ disk'[f] \in {disk[f], NoFile}
              /\ disk'[f] # NoFile => ~\E j \in D : file_of[j] = f
<1>1. c \in Content
  BY DEF Partial, Content, Holds, Torn
<1> QED
  BY <1>1 DEF StoreInv, StoreTyped, Written, Unlinked, Partial, Content, Torn

\* put() with the new entry in the index, or without one but the process dead.
LEMMA WrittenKeepsInv ==
  ASSUME StoreInv, NEW D, NEW k \in Key, NEW v \in Value, NEW c \in Partial(k, v),
         Written(D, k, c),
         DOMAIN entries' \subseteq Key,
         \A j \in (DOMAIN entries' \cap DOMAIN entries) \ {k} : entries'[j] = entries[j],
         DOMAIN entries \ (D \cup {k}) \subseteq DOMAIN entries',
         DOMAIN entries' \subseteq DOMAIN entries \cup {k},
         k \in DOMAIN entries' => entries'[k] \in Nat,
         up' => up /\ k \in DOMAIN entries' /\ entries'[k] = entry_size(k, v)
  PROVE  StoreInv'
<1> USE DEF StoreInv
<1>1. /\ disk' \in [File -> Content]
      /\ disk'[file_of[k]] = c
      /\ c.kind = "torn" \/ \E n \in 0 .. Size[v] : c = Holds(k, v, n)
      /\ \A f \in File \ {file_of[k]} :
           /\ disk'[f] \in {disk[f], NoFile}
           /\ disk'[f] # NoFile => ~\E j \in D : file_of[j] = f
  BY WrittenFiles
<1>2. StoreTyped'
  BY <1>1 DEF StoreTyped
<1>3. ASSUME NEW f \in File, Readable(f)', f # file_of[k]
      PROVE  /\ file_of[disk'[f].key] = f
             /\ disk'[f].len <= Size[disk'[f].val]
             /\ up' /\ Found(f)' => disk'[f].key \in DOMAIN entries'
             /\ up' /\ disk'[f].key \in DOMAIN entries' =>
                  FileSize(f)' <= entries'[disk'[f].key]
  <2>1. disk'[f] # NoFile
    BY <1>3 DEF Readable, NoFile
  <2>2. disk'[f] = disk[f] /\ Readable(f)
    BY <1>1, <1>3, <2>1 DEF Readable
  <2>3. disk[f].key \notin D /\ disk[f].key # k
    BY <1>1, <1>3, <2>1, <2>2 DEF FilesIndexed
  <2> QED
    BY <1>3, <2>2, <2>3 DEF FilesIndexed, FileSize, Found, Readable
<1>4. ASSUME Readable(file_of[k])'
      PROVE  /\ disk'[file_of[k]].key = k
             /\ disk'[file_of[k]].len <= Size[disk'[file_of[k]].val]
             /\ up' => FileSize(file_of[k])' <= entries'[k]
  <2>1. PICK n \in 0 .. Size[v] : disk'[file_of[k]] = Holds(k, v, n)
    BY <1>1, <1>4 DEF Readable
  <2> QED
    BY <1>4, <2>1 DEF Holds, FileSize, Readable, entry_size
<1>5. FilesIndexed'
  BY <1>3, <1>4 DEF FilesIndexed
<1> QED
  BY <1>2, <1>5

LEMMA ManagerStepInv ==
  ASSUME StoreInv, [ManagerNext]_vars
  PROVE  StoreInv'
<1>1. ASSUME NEW k \in Key, NEW v \in Value, NEW c \in Partial(k, v), PutDone(k, v, c)
      PROVE  StoreInv'
  <2> DEFINE D == Evicted(k, v)
  <2>1. /\ entries' = [j \in (DOMAIN entries \ D) \cup {k} |->
                         IF j = k THEN entry_size(k, v) ELSE entries[j]]
        /\ Written(D, k, c) /\ up' = up /\ up
    BY <1>1 DEF PutDone
  <2>2. entry_size(k, v) \in Nat /\ DOMAIN entries \subseteq Key
    BY DEF entry_size, StoreInv, StoreTyped
  <2> HIDE DEF D
  <2> QED
    BY <2>1, <2>2, WrittenKeepsInv
<1>2. ASSUME NEW k \in Key, NEW v \in Value, NEW c \in Partial(k, v), PutCrash(k, v, c)
      PROVE  StoreInv'
  <2>1. CASE \E D : Index(D) /\ disk' = Unlinked(D)
    BY <1>2, <2>1, DropKeepsInv DEF PutCrash
  <2>2. CASE \E D : Index(D) /\ Written(D, k, c)
    <3>1. PICK D : Index(D) /\ Written(D, k, c)
      BY <2>2
    <3>2. /\ DOMAIN entries' = DOMAIN entries \ D
          /\ \A j \in DOMAIN entries \ D : entries'[j] = entries[j]
      BY <3>1 DEF Index
    <3>3. /\ DOMAIN entries \subseteq Key
          /\ \A j \in DOMAIN entries : entries[j] \in Nat
          /\ ~up'
      BY <1>2 DEF StoreInv, StoreTyped, PutCrash
    <3> QED
      BY <3>1, <3>2, <3>3, WrittenKeepsInv
  <2> QED
    BY <1>2, <2>1, <2>2 DEF PutCrash
<1>3. ASSUME NEW k \in Key, NEW v \in Value, PutFailed(k, v)
      PROVE  StoreInv'
  BY <1>3, DropKeepsInv DEF PutFailed
<1>4. ASSUME NEW D, Drop(D) PROVE StoreInv'
  BY <1>4, DropKeepsInv DEF Drop
<1>5. ASSUME UNCHANGED <<entries, disk>>, up' => up PROVE StoreInv'
  BY <1>5 DEF StoreInv, StoreTyped, FilesIndexed, FileSize, Found, Readable
<1>6. ASSUME Restart PROVE StoreInv'
  <2>1. /\ disk' = disk /\ up'
        /\ entries' = [k \in {disk[f].key : f \in {g \in File : Found(g)}} |->
                         FileSize(file_of[k])]
    BY <1>6 DEF Restart
  <2>2. \A f \in File : Readable(f) =>
          /\ disk[f].key \in Key /\ file_of[disk[f].key] = f
          /\ disk[f].len \in Nat
    BY DEF StoreInv, StoreTyped, FilesIndexed, Readable, Content, NoFile
  <2>3. /\ \A f \in File : Found(f) => disk[f].key \in DOMAIN entries'
        /\ \A f \in File : Readable(f) /\ disk[f].key \in DOMAIN entries' =>
             entries'[disk[f].key] = FileSize(f)
        /\ \A k \in DOMAIN entries' : k \in Key /\ entries'[k] = FileSize(file_of[k])
    BY <2>1, <2>2 DEF Found
  <2>4. \A f \in File : FileSize(f) \in Nat
    <3>1. \A f \in File : disk[f].kind \in {"none", "torn", "entry"}
      BY DEF StoreInv, StoreTyped, Content, NoFile
    <3>2. \A f \in File : disk[f].kind = "torn" => disk[f].bytes \in Nat
      BY DEF StoreInv, StoreTyped, Content, NoFile
    <3>3. \A f \in File : Readable(f) => FileSize(f) \in Nat
      BY <2>2 DEF FileSize, Readable
    <3>4. \A f \in File : disk[f].kind # "entry" => FileSize(f) \in Nat
      BY <3>1, <3>2 DEF FileSize
    <3> QED
      BY <3>3, <3>4 DEF Readable
  <2>5. StoreTyped'
    BY <2>1, <2>3, <2>4 DEF StoreInv, StoreTyped
  <2>6. FilesIndexed'
    <3>1. ASSUME NEW f \in File, Readable(f)
          PROVE  /\ file_of[disk[f].key] = f /\ disk[f].len <= Size[disk[f].val]
                 /\ Found(f) => disk[f].key \in DOMAIN entries'
                 /\ disk[f].key \in DOMAIN entries' => FileSize(f) <= entries'[disk[f].key]
      <4>1. file_of[disk[f].key] = f /\ disk[f].len <= Size[disk[f].val]
        BY <3>1 DEF StoreInv, FilesIndexed
      <4>2. /\ Found(f) => disk[f].key \in DOMAIN entries'
            /\ disk[f].key \in DOMAIN entries' => entries'[disk[f].key] = FileSize(f)
        BY <2>3, <3>1
      <4>3. FileSize(f) \in Nat
        BY <2>4
      <4> QED
        BY <4>1, <4>2, <4>3
    <3>2. \A f \in File : /\ Readable(f)' = Readable(f) /\ Found(f)' = Found(f)
                          /\ FileSize(f)' = FileSize(f)
      BY <2>1 DEF Readable, Found, FileSize
    <3> QED
      BY <2>1, <3>1, <3>2 DEF FilesIndexed
  <2> QED
    BY <2>5, <2>6 DEF StoreInv
<1>7. CASE \E k \in Key, v \in Value : put(k, v)
  BY <1>1, <1>2, <1>3, <1>5, <1>7 DEF put, PutRefused
<1>8. CASE \E k \in Key : get(k) \/ remove(k) \/ load_state(k)
  BY <1>4, <1>5, <1>8 DEF get, remove, load_state, GetHit, GetMiss, LoadHit, LoadReject
<1>9. CASE clear \/ Exit \/ Restart \/ UNCHANGED vars
  BY <1>4, <1>5, <1>6, <1>9 DEF clear, Exit, vars
<1> QED
  BY <1>7, <1>8, <1>9 DEF ManagerNext, Next

\* The directory and the index agree in every reachable state, through
\* collisions, failed and torn writes, crashes and restarts.
THEOREM StoreConsistent == ManagerSpec => []FilesIndexed
<1>1. StoreInv /\ [ManagerNext]_vars => StoreInv'
  BY ManagerStepInv
<1>2. StoreInv => FilesIndexed
  BY DEF StoreInv
<1> QED
  BY <1>1, <1>2, StoreInit, PTL DEF ManagerSpec

-----------------------------------------------------------------------------
(* The refinement.                                                         *)

\* Steps that only lose entries, and steps that store v under k.
LEMMA LosesOnly ==
  ASSUME \A f \in File : disk'[f] \in {disk[f], NoFile}, Loaded' = <<>>
  PROVE  Cache!Next
<1> DEFINE lost == {j \in Key : Stored'[j] = Absent}
<1>1. \A j \in Key : Stored'[j] \in {Stored[j], Absent}
  BY DEF Stored, Readable, NoFile
<1>2. Stored' = [j \in Key |-> IF j \in lost THEN Absent ELSE Stored[j]]
  BY <1>1 DEF Stored
<1> QED
  BY <1>2 DEF Cache!Next, Cache!Lose

LEMMA StoresOnly ==
  ASSUME StoreInv, NEW D, NEW k \in Key, NEW v \in Value, NEW c \in Partial(k, v),
         Written(D, k, c), Loaded' = <<>>
  PROVE  Cache!Next
<1> DEFINE lost == {j \in Key : Stored'[j] = Absent}
<1>1. /\ disk' \in [File -> Content]
      /\ disk'[file_of[k]] = c
      /\ c.kind = "torn" \/ \E n \in 0 .. Size[v] : c = Holds(k, v, n)
      /\ \A f \in File \ {file_of[k]} :
           /\ disk'[f] \in {disk[f], NoFile}
           /\ disk'[f] # NoFile => ~\E j \in D : file_of[j] = f
  BY WrittenFiles
<1>2. ASSUME NEW j \in Key, file_of[j] # file_of[k]
      PROVE  Stored'[j] \in {Stored[j], Absent}
  BY <1>1, <1>2 DEF Stored, Readable, NoFile
<1>3. ASSUME NEW j \in Key, j # k, file_of[j] = file_of[k]
      PROVE  Stored'[j] = Absent
  BY <1>1, <1>3 DEF Stored, Readable, Holds
<1>4. Stored'[k] \in {v, Absent}
  BY <1>1 DEF Stored, Readable, Holds
<1>5. Stored' = [j \in Key |-> IF j \in lost THEN Absent
                               ELSE IF j = k THEN v ELSE Stored[j]]
  BY <1>2, <1>3, <1>4 DEF Stored
<1>6. lost \in SUBSET Key
  OBVIOUS
<1> HIDE DEF lost
<1>7. Cache!Store(k, v)
  BY <1>5, <1>6 DEF Cache!Store
<1> QED
  BY <1>7 DEF Cache!Next

LEMMA Loads ==
  ASSUME StoreInv, NEW k \in Key, LoadHit(k)
  PROVE  Cache!Next
<1> DEFINE f == file_of[k]
<1>1. /\ k \in DOMAIN entries /\ Readable(f) /\ disk[f].key = k /\ disk' = disk
      /\ KeyBytes[disk[f].key] + disk[f].len >= entries[k]
      /\ entries[k] - KeyBytes[k] = Size[disk[f].val]
      /\ reply' = Hit("load", k, disk[f].val, entries[k] - KeyBytes[k])
  BY DEF LoadHit, GetHit, Intact, ChecksumMatches
<1>2. /\ disk[f].len <= Size[disk[f].val] /\ disk[f].len \in Nat
      /\ disk[f].val \in Value /\ entries[k] \in Nat
  BY <1>1 DEF StoreInv, StoreTyped, FilesIndexed, Readable, Content, NoFile
<1>3. disk[f].len = Size[disk[f].val]
  BY <1>1, <1>2
<1>4. Stored[k] = disk[f].val /\ Stored[k] # Absent
  BY <1>1, <1>2, <1>3 DEF Stored, ChecksumMatches
<1>5. Loaded' = <<k, disk[f].val>>
  BY <1>1 DEF Loaded, Hit
<1>6. Stored' = Stored
  BY <1>1 DEF Stored, Readable
<1> QED
  BY <1>4, <1>5, <1>6 DEF Cache!Next, Cache!Load

LEMMA ManagerStepRefines ==
  ASSUME StoreInv, [ManagerNext]_vars
  PROVE  [Cache!Next]_(Cache!vars)
<1>1. reply' = NoReply => Loaded' = <<>>
  BY DEF NoReply, Loaded
<1>2. ASSUME NEW k \in Key, NEW v \in Value, NEW c \in Partial(k, v), PutDone(k, v, c)
      PROVE  Cache!Next
  BY <1>1, <1>2, StoresOnly DEF PutDone
<1>3. ASSUME NEW D, disk' = Unlinked(D), reply' = NoReply PROVE Cache!Next
  BY <1>1, <1>3, LosesOnly DEF Unlinked
<1>4. ASSUME NEW k \in Key, NEW v \in Value, NEW c \in Partial(k, v), PutCrash(k, v, c)
      PROVE  Cache!Next
  BY <1>1, <1>3, <1>4, StoresOnly DEF PutCrash
<1>5. ASSUME NEW k \in Key, NEW v \in Value, PutFailed(k, v)
      PROVE  Cache!Next
  <2>1. PICK D : disk' = [Unlinked(D) EXCEPT ![file_of[k]] = NoFile]
    BY <1>5 DEF PutFailed
  <2>2. \A f \in File : disk'[f] \in {disk[f], NoFile}
    BY <2>1 DEF Unlinked
  <2> QED
    BY <1>1, <1>5, <2>2, LosesOnly DEF PutFailed
<1>6. ASSUME disk' = disk, Loaded' = <<>> PROVE Cache!Next
  BY <1>6, LosesOnly
<1>7. CASE \E k \in Key, v \in Value : put(k, v)
  BY <1>1, <1>2, <1>4, <1>5, <1>6, <1>7 DEF put, PutRefused
<1>8. ASSUME NEW k \in Key, GetHit(k, "get") PROVE Cache!Next
  BY <1>6, <1>8 DEF GetHit, Hit, Loaded
<1>9. CASE \E k \in Key : get(k) \/ remove(k) \/ load_state(k)
  BY <1>3, <1>8, <1>9, Loads DEF get, remove, load_state, GetMiss, LoadReject, Drop
<1>10. CASE clear \/ Exit \/ Restart
  BY <1>1, <1>3, <1>6, <1>10 DEF clear, Exit, Restart, Drop
<1>11. CASE UNCHANGED vars
  <2>1. Stored' = Stored /\ Loaded' = Loaded
    BY <1>11 DEF vars, Stored, Readable, Loaded
  <2> QED
    BY <2>1 DEF Cache!vars
<1> QED
  BY <1>7, <1>9, <1>10, <1>11 DEF ManagerNext, Next

\* A load restores exactly the state stored last under its key, or nothing,
\* whatever is evicted, displaced, cut short or interrupted by a crash.
THEOREM ManagerImplementsCache == ManagerSpec => ImplementsLossyCache
<1>1. Init => Cache!Init
  <2> SUFFICES ASSUME Init PROVE Cache!Init
    OBVIOUS
  <2>1. \A k \in Key : ~Readable(file_of[k])
    BY DEF Init, Readable, NoFile
  <2> QED
    BY <2>1 DEF Init, Cache!Init, Stored, Loaded, NoReply
<1>2. StoreInv /\ [ManagerNext]_vars => StoreInv'
  BY ManagerStepInv
<1>3. StoreInv /\ [ManagerNext]_vars => [Cache!Next]_(Cache!vars)
  BY ManagerStepRefines
<1> QED
  BY <1>1, <1>2, <1>3, StoreInit, PTL DEF ManagerSpec, ImplementsLossyCache, Cache!Spec
-----------------------------------------------------------------------------
(* Recency                                                                 *)

\* What is ordered stays so when members leave, and when one becomes the
\* newest.
LEMMA OrderedWithout ==
  ASSUME NEW r, NEW S, NEW D, NEW T, Ordered(r, S), T \subseteq S \ D
  PROVE  Ordered(Without(r, D), T)
  BY DEF Ordered, Without

LEMMA OrderedNewest ==
  ASSUME NEW r, NEW S, NEW x, NEW U, NEW T, Ordered(r, S), S \subseteq U,
         T \subseteq S \cup {x}
  PROVE  Ordered(Newest(r, x, U), T)
<1>1. \A y, z \in T : <<y, z>> \in Newest(r, x, U) <=>
                        \/ y # x /\ z # x /\ <<y, z>> \in r
                        \/ y # x /\ z = x
  BY DEF Newest, Without
<1> QED
  BY <1>1 DEF Ordered

\* The index is finite and ordered by use, the files by their age.
RecencyInv ==
  /\ up \in BOOLEAN
  /\ up => /\ IsFiniteSet(DOMAIN entries)
           /\ order \subseteq (DOMAIN entries) \X (DOMAIN entries)
           /\ Ordered(order, DOMAIN entries)
  /\ IsFiniteSet({f \in File : Readable(f)})
  /\ Ordered(written, {f \in File : Readable(f)})

\* Nothing is written: the readable files are among those of before.
LEMMA FilesLost ==
  ASSUME RecencyInv, written' = written,
         \A f \in File : disk'[f] \in {disk[f], NoFile}
  PROVE  /\ IsFiniteSet({f \in File : Readable(f)'})
         /\ Ordered(written', {f \in File : Readable(f)'})
<1>1. {f \in File : Readable(f)'} \in SUBSET {f \in File : Readable(f)}
  BY DEF Readable, NoFile
<1>2. IsFiniteSet({f \in File : Readable(f)'})
  BY <1>1, FS_Subset DEF RecencyInv
<1>3. Ordered(written', {f \in File : Readable(f)'})
  BY <1>1 DEF RecencyInv, Ordered
<1> QED
  BY <1>2, <1>3

\* One file is written: it is the newest.
LEMMA FileWritten ==
  ASSUME RecencyInv, StoreInv, NEW D, NEW k \in Key, NEW v \in Value,
         NEW c \in Partial(k, v), Written(D, k, c)
  PROVE  /\ IsFiniteSet({f \in File : Readable(f)'})
         /\ Ordered(written', {f \in File : Readable(f)'})
<1> DEFINE R == {f \in File : Readable(f)}
<1>1. \A f \in File \ {file_of[k]} : disk'[f] \in {disk[f], NoFile}
  BY WrittenFiles
<1>2. {f \in File : Readable(f)'} \in SUBSET (R \cup {file_of[k]})
  BY <1>1 DEF Readable, NoFile
<1>3. IsFiniteSet(R \cup {file_of[k]})
  BY FS_AddElement DEF RecencyInv
<1>4. IsFiniteSet({f \in File : Readable(f)'})
  BY <1>2, <1>3, FS_Subset
<1>5. Ordered(Newest(written, file_of[k], File), {f \in File : Readable(f)'})
  BY <1>2, OrderedNewest DEF RecencyInv
<1> QED
  BY <1>4, <1>5 DEF Written

\* An index that forgets D.
LEMMA IndexRecency ==
  ASSUME RecencyInv, up, NEW D, Index(D)
  PROVE  /\ IsFiniteSet(DOMAIN entries')
         /\ order' \subseteq (DOMAIN entries') \X (DOMAIN entries')
         /\ Ordered(order', DOMAIN entries')
<1>1. DOMAIN entries' = DOMAIN entries \ D /\ order' = Without(order, D)
  BY DEF Index
<1>2. IsFiniteSet(DOMAIN entries \ D)
  BY FS_Difference DEF RecencyInv
<1>3. order' \subseteq (DOMAIN entries') \X (DOMAIN entries')
  BY <1>1 DEF RecencyInv, Without
<1>4. Ordered(Without(order, D), DOMAIN entries \ D)
  BY OrderedWithout DEF RecencyInv
<1> QED
  BY <1>1, <1>2, <1>3, <1>4

\* Every step keeps the two orders.
LEMMA RecencyStep ==
  ASSUME RecencyInv, StoreInv, [ManagerNext]_vars
  PROVE  RecencyInv'
<1>1. ASSUME NEW k \in Key, NEW v \in Value, NEW c \in Partial(k, v), PutDone(k, v, c)
      PROVE  RecencyInv'
  <2> DEFINE D == Evicted(k, v)
             E == DOMAIN entries
  <2>1. /\ up /\ up' = up /\ Written(D, k, c)
        /\ DOMAIN entries' = (E \ D) \cup {k}
        /\ order' = Newest(Without(order, D), k, E \ D)
    BY <1>1 DEF PutDone
  <2> HIDE DEF D
  <2>2. IsFiniteSet(DOMAIN entries')
    <3>1. IsFiniteSet(E \ D)
      BY <2>1, FS_Difference DEF RecencyInv
    <3> QED
      BY <2>1, <3>1, FS_AddElement
  <2>3. order' \subseteq (DOMAIN entries') \X (DOMAIN entries')
    BY <2>1 DEF RecencyInv, Newest, Without
  <2>4. Ordered(Without(order, D), E \ D)
    BY <2>1, OrderedWithout DEF RecencyInv
  <2>5. Ordered(order', DOMAIN entries')
    BY <2>1, <2>4, OrderedNewest
  <2>6. /\ IsFiniteSet({f \in File : Readable(f)'})
        /\ Ordered(written', {f \in File : Readable(f)'})
    BY <2>1, FileWritten
  <2> QED
    BY <2>1, <2>2, <2>3, <2>5, <2>6 DEF RecencyInv
<1>2. ASSUME NEW k \in Key, NEW v \in Value, NEW c \in Partial(k, v), PutCrash(k, v, c)
      PROVE  RecencyInv'
  <2>1. CASE \E D : disk' = Unlinked(D) /\ UNCHANGED written
    <3>1. \A f \in File : disk'[f] \in {disk[f], NoFile}
      BY <2>1 DEF Unlinked
    <3> QED
      BY <1>2, <2>1, <3>1, FilesLost DEF PutCrash, RecencyInv
  <2>2. CASE \E D : Written(D, k, c)
    BY <1>2, <2>2, FileWritten DEF PutCrash, RecencyInv
  <2> QED
    BY <1>2, <2>1, <2>2 DEF PutCrash
<1>3. ASSUME NEW D, Index(D), up, up' = up, written' = written,
             \A f \in File : disk'[f] \in {disk[f], NoFile}
      PROVE  RecencyInv'
  BY <1>3, IndexRecency, FilesLost DEF RecencyInv
<1>4. ASSUME NEW k \in Key, NEW v \in Value, PutFailed(k, v)
      PROVE  RecencyInv'
  <2>1. PICK D : Index(D) /\ disk' = [Unlinked(D) EXCEPT ![file_of[k]] = NoFile]
    BY <1>4 DEF PutFailed
  <2>2. \A f \in File : disk'[f] \in {disk[f], NoFile}
    BY <2>1 DEF Unlinked
  <2> QED
    BY <1>3, <1>4, <2>1, <2>2 DEF PutFailed
<1>5. ASSUME NEW D, Drop(D), up PROVE RecencyInv'
  <2>1. \A f \in File : disk'[f] \in {disk[f], NoFile}
    BY <1>5 DEF Drop, Unlinked
  <2> QED
    BY <1>3, <1>5, <2>1 DEF Drop
<1>6. ASSUME NEW k \in Key, NEW op, GetHit(k, op) PROVE RecencyInv'
  <2>1. /\ up /\ UNCHANGED <<entries, disk, written, up>> /\ k \in DOMAIN entries
        /\ order' = Newest(order, k, DOMAIN entries)
    BY <1>6 DEF GetHit
  <2>2. Ordered(order', DOMAIN entries)
    BY <2>1, OrderedNewest DEF RecencyInv
  <2>3. order' \subseteq (DOMAIN entries) \X (DOMAIN entries)
    BY <2>1 DEF RecencyInv, Newest, Without
  <2> QED
    BY <2>1, <2>2, <2>3 DEF RecencyInv, Readable
<1>7. ASSUME Restart PROVE RecencyInv'
  <2> DEFINE found == {f \in File : Found(f)}
             keys == {disk[f].key : f \in found}
             m == [f \in found |-> disk[f].key]
  <2>1. /\ up' = TRUE /\ DOMAIN entries' = keys /\ UNCHANGED <<disk, written>>
        /\ order' = {p \in keys \X keys : <<file_of[p[1]], file_of[p[2]]>> \in written}
    BY <1>7 DEF Restart
  <2>0. found \in SUBSET {f \in File : Readable(f)} /\ IsFiniteSet(found)
    BY FS_Subset DEF RecencyInv, Found
  <2>2. \A k \in keys : file_of[k] \in found /\ disk[file_of[k]].key = k
    BY DEF StoreInv, FilesIndexed, Found
  <2>3. m \in Surjection(found, keys)
    BY DEF Surjection
  <2>4. IsFiniteSet(keys)
    BY <2>0, <2>3, FS_Surjection
  <2>5. \A j, k \in keys : <<j, k>> \in order' <=> <<file_of[j], file_of[k]>> \in written
    BY <2>1
  <2>6. \A j, k \in keys : file_of[j] = file_of[k] => j = k
    BY <2>2
  <2>7. Ordered(written, found)
    BY <2>0 DEF RecencyInv, Ordered
  <2> HIDE DEF keys, found
  <2>8. Ordered(order', keys)
    BY <2>2, <2>5, <2>6, <2>7 DEF Ordered
  <2>9. order' \subseteq keys \X keys
    BY <2>1
  <2>10. {f \in File : Readable(f)'} = {f \in File : Readable(f)}
    BY <2>1 DEF Readable
  <2> QED
    BY <2>1, <2>4, <2>8, <2>9, <2>10 DEF RecencyInv
<1>8. ASSUME NEW k \in Key, NEW v \in Value, PutRefused(k, v) PROVE RecencyInv'
  BY <1>8 DEF PutRefused, RecencyInv, Readable
<1>9. CASE \E k \in Key, v \in Value : put(k, v)
  BY <1>1, <1>2, <1>4, <1>8, <1>9 DEF put
<1>10. CASE \E k \in Key : get(k) \/ remove(k) \/ load_state(k)
  BY <1>5, <1>6, <1>10 DEF get, remove, load_state, GetMiss, LoadHit, LoadReject
<1>11. CASE clear
  BY <1>5, <1>11 DEF clear
<1>12. CASE Exit
  BY <1>12 DEF Exit, RecencyInv, Readable
<1>13. CASE UNCHANGED vars
  BY <1>13 DEF vars, RecencyInv, Readable
<1> QED
  BY <1>7, <1>9, <1>10, <1>11, <1>12, <1>13 DEF ManagerNext, Next

-----------------------------------------------------------------------------
(* The budget                                                              *)

\* A nonempty set of numbers has a least one.
LEMMA LeastNumber ==
  ASSUME NEW T \in SUBSET Nat, T # {}
  PROVE  \E x \in T : \A y \in T : x <= y
<1> DEFINE Less == {p \in Nat \X Nat : p[1] < p[2]}
<1>1. IsWellFoundedOn(Less, Nat)
  BY NatLessThanWellFounded, Zenon DEF OpToRel
<1>2. PICK x \in T : \A y \in T : ~(<<y, x>> \in Less)
  BY <1>1, WFMin, Zenon
<1>3. \A y \in T : ~(y < x)
  BY <1>2
<1> QED
  BY <1>3

\* What is indexed is counted exactly.
CountInv ==
  /\ total_bytes \in Nat
  /\ up => /\ total_bytes = Sum(entries, DOMAIN entries)
           /\ max_bytes # 0 => total_bytes <= max_bytes

\* Removing more frees more, and removing all frees the whole count.
LEMMA Freed ==
  ASSUME StoreInv, RecencyInv, CountInv, up, NEW D \in SUBSET (DOMAIN entries)
  PROVE  /\ Bytes(D) \in Nat /\ total_bytes \in Nat
         /\ total_bytes - Bytes(D) = Sum(entries, DOMAIN entries \ D)
         /\ total_bytes - Bytes(D) \in Nat
         /\ \A C \in SUBSET D : Bytes(C) <= Bytes(D)
<1>1. IsFiniteSet(DOMAIN entries) /\ \A k \in DOMAIN entries : entries[k] \in Nat
  BY DEF RecencyInv, StoreInv, StoreTyped
<1>2. /\ IsFiniteSet(D) /\ Sum(entries, D) \in Nat
      /\ Sum(entries, DOMAIN entries \ D) \in Nat
      /\ Sum(entries, DOMAIN entries) =
           Sum(entries, D) + Sum(entries, DOMAIN entries \ D)
  BY <1>1, SumSplit, SMTT(30)
<1>3. ASSUME NEW C \in SUBSET D PROVE Sum(entries, C) <= Sum(entries, D)
  <2>1. \A k \in D : entries[k] \in Nat
    BY <1>1
  <2> QED
    BY <1>2, <2>1, SumLess
<1> QED
  BY <1>2, <1>3 DEF Bytes, CountInv

\* evict_until_fits() makes room for the new entry: what it removes is all
\* there is, or exactly what is older than the oldest entry it keeps.
LEMMA EvictionFits ==
  ASSUME StoreInv, RecencyInv, CountInv, up, NEW k \in Key, NEW v \in Value,
         ~TooLarge(k, v)
  PROVE  Fits(Evicted(k, v), entry_size(k, v))
<1> DEFINE E == DOMAIN entries
           Kept == (E \ {k}) \ evict_until_fits(k, v)
<1>1. entry_size(k, v) \in Nat
  BY DEF entry_size
<1>2. CASE max_bytes = 0
  BY <1>2 DEF Fits
<1>3. CASE max_bytes # 0 /\ Kept = {}
  <2>1. Evicted(k, v) = E
    BY <1>3 DEF Evicted, evict_until_fits
  <2>2. total_bytes - Bytes(E) = 0
    <3>1. total_bytes - Bytes(E) = Sum(entries, E \ E)
      BY Freed
    <3>2. E \ E = {}
      OBVIOUS
    <3> QED
      BY <3>1, <3>2, SumNone
  <2> QED
    BY <1>1, <1>3, <2>1, <2>2 DEF Fits, TooLarge
<1>4. CASE max_bytes # 0 /\ Kept # {}
  <2>1. \A j \in E : /\ Before(j, k) \in SUBSET E /\ IsFiniteSet(Before(j, k))
                     /\ Cardinality(Before(j, k)) \in Nat
    BY FS_Subset, FS_CardinalityType DEF Before, RecencyInv
  <2>2. PICK j \in Kept : \A i \in Kept :
          Cardinality(Before(j, k)) <= Cardinality(Before(i, k))
    <3> DEFINE T == {Cardinality(Before(i, k)) : i \in Kept}
    <3>1. T \in SUBSET Nat /\ T # {}
      BY <1>4, <2>1
    <3>2. PICK x \in T : \A y \in T : x <= y
      BY <3>1, LeastNumber
    <3> QED
      BY <3>2
  <2>3. Ordered(order, E)
    BY DEF RecencyInv
  <2>4. ASSUME NEW i \in Kept, <<i, j>> \in order PROVE FALSE
    <3>1. Before(i, k) \subseteq Before(j, k)
      BY <2>3, <2>4 DEF Before, Ordered
    <3>2. i \in Before(j, k) /\ i \notin Before(i, k)
      BY <2>3, <2>4 DEF Before, Ordered
    <3>3. Cardinality(Before(i, k)) <= Cardinality(Before(j, k))
          /\ Cardinality(Before(i, k)) # Cardinality(Before(j, k))
      BY <2>1, <3>1, <3>2, FS_Subset
    <3> QED
      BY <2>1, <2>2, <3>3
  <2>5. Fits(Before(j, k), entry_size(k, v))
    BY DEF evict_until_fits
  <2>6. ASSUME NEW i \in E, <<j, i>> \in order PROVE Fits(Before(i, k), entry_size(k, v))
    <3>1. Before(j, k) \in SUBSET Before(i, k)
      BY <2>3, <2>6 DEF Before, Ordered
    <3>2. Bytes(Before(j, k)) <= Bytes(Before(i, k))
          /\ Bytes(Before(j, k)) \in Nat /\ Bytes(Before(i, k)) \in Nat
          /\ total_bytes \in Nat
      BY <2>1, <3>1, Freed
    <3> QED
      BY <1>1, <2>5, <3>2 DEF Fits
  <2>7. ASSUME NEW i \in Evicted(k, v) PROVE i \in Before(j, k)
    <3>1. CASE i = k
      BY <2>7, <3>1 DEF Evicted, evict_until_fits, Before
    <3>2. CASE i # k
      <4>1. i \in E \ {k} /\ i # j /\ ~Fits(Before(i, k), entry_size(k, v))
        BY <2>5, <2>7, <3>2 DEF Evicted, evict_until_fits
      <4>2. <<j, i>> \notin order
        BY <2>6, <4>1
      <4> QED
        BY <2>3, <4>1, <4>2 DEF Before, Ordered
    <3> QED
      BY <3>1, <3>2
  <2>8. ASSUME NEW i \in Before(j, k) PROVE i \in Evicted(k, v)
    BY <2>4, <2>8 DEF Before, Evicted, evict_until_fits
  <2>9. Evicted(k, v) = Before(j, k)
    BY <2>7, <2>8
  <2> QED
    BY <2>5, <2>9
<1> QED
  BY <1>2, <1>3, <1>4

\* The sizes of the files that can be read, and the files a restart finds, of
\* any directory d.
FileSizes(d) == [f \in File |-> IF d[f].kind = "entry" THEN KeyBytes[d[f].key] + d[f].len ELSE 0]
FoundIn(d) == {f \in File : d[f].kind = "entry" /\ KeyBytes[d[f].key] <= MaxKeyBytes}

LEMMA FoundOf ==
  /\ FoundBytes = Sum(FileSizes(disk), FoundIn(disk))
  /\ FoundBytes' = Sum(FileSizes(disk'), FoundIn(disk'))
<1> DEFINE F(d) == [f \in File |->
                      CASE d[f].kind = "none" -> 0
                        [] d[f].kind = "torn" -> d[f].bytes
                        [] d[f].kind = "entry" -> KeyBytes[d[f].key] + d[f].len]
<1>1. /\ FoundBytes = Sum(F(disk), FoundIn(disk))
      /\ FoundBytes' = Sum(F(disk'), FoundIn(disk'))
  BY DEF FoundBytes, BytesOf, FileSize, Found, Readable, FoundIn
<1>2. ASSUME NEW d, NEW f \in FoundIn(d) PROVE F(d)[f] = FileSizes(d)[f]
  BY <1>2 DEF FoundIn, FileSizes
<1> HIDE DEF F
<1>3. ASSUME NEW d PROVE Sum(F(d), FoundIn(d)) = Sum(FileSizes(d), FoundIn(d))
  BY <1>2, SumSame
<1> QED
  BY <1>1, <1>3

LEMMA SizesTyped ==
  ASSUME NEW d \in [File -> Content]
  PROVE  \A f \in File : FileSizes(d)[f] \in Nat
<1>1. \A f \in File : d[f].kind = "entry" => d[f].len \in Nat /\ d[f].key \in Key
  BY DEF Content, NoFile
<1> QED
  BY <1>1 DEF FileSizes

\* The files of a directory that e indexes are no larger than e says.
LEMMA FoundWithin ==
  ASSUME NEW d \in [File -> Content], NEW e, NEW E, IsFiniteSet(E),
         \A k \in E : e[k] \in Nat,
         \A f \in FoundIn(d) : /\ d[f].key \in E /\ file_of[d[f].key] = f
                                  /\ KeyBytes[d[f].key] + d[f].len <= e[d[f].key]
  PROVE  Sum(FileSizes(d), FoundIn(d)) <= Sum(e, E) /\ Sum(FileSizes(d), FoundIn(d)) \in Nat
<1> DEFINE R == FoundIn(d)
           g == FileSizes(d)
           m == [f \in R |-> d[f].key]
<1>1. m \in [R -> E] /\ \A x, y \in R : m[x] = m[y] => x = y
  OBVIOUS
<1>2. \A f \in R : g[f] \in Nat
  BY SizesTyped DEF FoundIn
<1>3. \A f \in R : g[f] <= e[m[f]]
  BY DEF FileSizes, FoundIn
<1> HIDE DEF R, g, m
<1>4. Sum(g, R) <= Sum(e, E) /\ Sum(g, R) \in Nat
  BY <1>1, <1>2, <1>3, SumMapped
<1> QED
  BY <1>4 DEF R, g

\* When files go, a restart finds less.
LEMMA FoundShrinks ==
  ASSUME NEW d \in [File -> Content], NEW c \in [File -> Content],
         IsFiniteSet(FoundIn(d)), \A f \in File : c[f] \in {d[f], NoFile}
  PROVE  /\ Sum(FileSizes(c), FoundIn(c)) <= Sum(FileSizes(d), FoundIn(d))
         /\ {Sum(FileSizes(c), FoundIn(c)), Sum(FileSizes(d), FoundIn(d))} \subseteq Nat
<1> DEFINE R == FoundIn(c)
           T == FoundIn(d)
           g == FileSizes(c)
           h == FileSizes(d)
           m == [f \in R |-> f]
<1>1. R \subseteq T /\ R \subseteq File /\ T \subseteq File
  BY DEF FoundIn, NoFile
<1>2. \A f \in R : g[f] <= h[f] /\ g[f] \in Nat
  <2>1. \A f \in File : g[f] \in Nat /\ h[f] \in Nat
    BY SizesTyped
  <2>2. \A f \in R : c[f] = d[f]
    BY DEF FoundIn, NoFile
  <2>3. \A f \in R : g[f] = h[f]
    BY <1>1, <2>2 DEF FileSizes
  <2> QED
    BY <1>1, <2>1, <2>3
<1>3. \A f \in T : h[f] \in Nat
  BY <1>1, SizesTyped
<1>4. m \in [R -> T] /\ \A x, y \in R : m[x] = m[y] => x = y
  BY <1>1
<1>6. \A f \in R : g[f] <= h[m[f]]
  BY <1>2
<1>7. IsFiniteSet(T) /\ \A f \in R : g[f] \in Nat
  BY <1>2
<1> HIDE DEF R, T, g, h, m
<1>8. Sum(g, R) <= Sum(h, T) /\ Sum(g, R) \in Nat
  BY <1>3, <1>4, <1>6, <1>7, SumMapped
<1>9. Sum(h, T) \in Nat
  BY <1>3, <1>7, SumFinite
<1> QED
  BY <1>8, <1>9 DEF R, T, g, h

\* The count is exact while the process runs, and it and the files a restart
\* would count are within the budget.
BudgetInv ==
  /\ StoreInv /\ RecencyInv /\ CountInv
  /\ max_bytes # 0 => FoundBytes <= max_bytes

\* Removing entries, or only their files.
LEMMA DropBudget ==
  ASSUME BudgetInv, StoreInv', RecencyInv', up, NEW D \in SUBSET (DOMAIN entries),
         Index(D), \A f \in File : disk'[f] \in {disk[f], NoFile}
  PROVE  BudgetInv'
<1>1. /\ total_bytes - Bytes(D) = Sum(entries, DOMAIN entries \ D)
      /\ Bytes(D) \in Nat /\ total_bytes \in Nat /\ total_bytes - Bytes(D) \in Nat
  BY Freed DEF BudgetInv
<1>2. /\ DOMAIN entries' = DOMAIN entries \ D
      /\ \A k \in DOMAIN entries \ D : entries'[k] = entries[k]
      /\ total_bytes' = total_bytes - Bytes(D)
  BY DEF Index
<1>3. total_bytes' = Sum(entries', DOMAIN entries')
  BY <1>1, <1>2, SumSame
<1>4. CountInv'
  BY <1>1, <1>2, <1>3 DEF CountInv, BudgetInv
<1>5. FoundBytes' <= FoundBytes /\ {FoundBytes, FoundBytes'} \subseteq Nat
  <2>1. disk \in [File -> Content] /\ disk' \in [File -> Content]
    BY DEF BudgetInv, StoreInv, StoreTyped
  <2>2. IsFiniteSet(FoundIn(disk))
    <3>1. FoundIn(disk) \in SUBSET {f \in File : Readable(f)}
      BY DEF FoundIn, Readable
    <3> QED
      BY <3>1, FS_Subset DEF BudgetInv, RecencyInv
  <2> QED
    BY <2>1, <2>2, FoundShrinks, FoundOf
<1> QED
  BY <1>4, <1>5 DEF BudgetInv

\* An entry is written: the new index would count what a restart finds.
LEMMA WrittenBudget ==
  ASSUME BudgetInv, StoreInv', up, NEW k \in Key, NEW v \in Value,
         NEW c \in Partial(k, v), ~TooLarge(k, v), Written(Evicted(k, v), k, c)
  PROVE  LET E == (DOMAIN entries \ Evicted(k, v)) \cup {k}
             e == [j \in E |-> IF j = k THEN entry_size(k, v) ELSE entries[j]]
             room == total_bytes - Bytes(Evicted(k, v)) + entry_size(k, v)
         IN  /\ Sum(e, E) = room
             /\ max_bytes # 0 => room <= max_bytes
             /\ FoundBytes' <= room /\ {room, FoundBytes'} \subseteq Nat
<1> DEFINE D == Evicted(k, v)
           E == (DOMAIN entries \ D) \cup {k}
           e == [j \in E |-> IF j = k THEN entry_size(k, v) ELSE entries[j]]
           room == total_bytes - Bytes(D) + entry_size(k, v)
<1>1. D \in SUBSET (DOMAIN entries) /\ k \notin DOMAIN entries \ D
  BY DEF Evicted, evict_until_fits
<1>2. entry_size(k, v) \in Nat
  BY DEF entry_size
<1>3. /\ total_bytes - Bytes(D) = Sum(entries, DOMAIN entries \ D)
      /\ total_bytes - Bytes(D) \in Nat
  BY <1>1, Freed DEF BudgetInv
<1>4. max_bytes # 0 => room <= max_bytes
  BY EvictionFits DEF BudgetInv, Fits
<1>5. IsFiniteSet(E) /\ \A j \in E : e[j] \in Nat
  <2>1. IsFiniteSet(DOMAIN entries \ D)
    BY FS_Difference DEF BudgetInv, RecencyInv
  <2>2. IsFiniteSet(E)
    BY <2>1, FS_AddElement
  <2> QED
    BY <1>2, <2>2 DEF BudgetInv, StoreInv, StoreTyped
<1> HIDE DEF D
<1>6. Sum(e, E) = room
  <2> DEFINE S == DOMAIN entries \ D
  <2>1. IsFiniteSet(S) /\ k \notin S /\ E = S \cup {k}
    BY <1>1, FS_Difference DEF BudgetInv, RecencyInv
  <2>2. e[k] = entry_size(k, v) /\ \A j \in S : e[j] = entries[j] /\ e[j] \in Nat
    BY <1>1, <1>5
  <2> HIDE DEF e, E, S
  <2>3. Sum(e, S \cup {k}) = Sum(e, S) + e[k] /\ Sum(e, S) \in Nat
    BY <1>2, <2>1, <2>2, SumAdd
  <2>4. Sum(e, S) = Sum(entries, S)
    BY <2>2, SumSame
  <2> QED
    BY <1>3, <2>1, <2>2, <2>3, <2>4 DEF S
<1>7. disk' \in [File -> Content]
  BY DEF StoreInv, StoreTyped
<1>8. ASSUME NEW f \in FoundIn(disk')
      PROVE  /\ disk'[f].key \in E /\ file_of[disk'[f].key] = f
             /\ KeyBytes[disk'[f].key] + disk'[f].len <= e[disk'[f].key]
  <2>0. StoreInv /\ Written(D, k, c)
    BY DEF BudgetInv, D
  <2>1. /\ disk' \in [File -> Content]
        /\ disk'[file_of[k]] = c
        /\ c.kind = "torn" \/ \E n \in 0 .. Size[v] : c = Holds(k, v, n)
        /\ \A g \in File \ {file_of[k]} :
             /\ disk'[g] \in {disk[g], NoFile}
             /\ disk'[g] # NoFile => ~\E j \in D : file_of[j] = g
    <3> HIDE DEF E, e, room
    <3> QED
      BY <2>0, WrittenFiles
  <2>2. f \in File /\ disk'[f].kind = "entry" /\ KeyBytes[disk'[f].key] <= MaxKeyBytes
    BY DEF FoundIn
  <2>3. CASE f = file_of[k]
    <3>1. PICK n \in 0 .. Size[v] : disk'[f] = Holds(k, v, n)
      BY <2>1, <2>2, <2>3
    <3> QED
      BY <2>3, <3>1 DEF Holds, entry_size
  <2>4. CASE f # file_of[k]
    <3>1. /\ disk'[f] = disk[f] /\ Readable(f)
          /\ ~\E j \in D : file_of[j] = f
      BY <2>1, <2>2, <2>4 DEF Readable, NoFile
    <3>2. /\ file_of[disk[f].key] = f /\ disk[f].key \in DOMAIN entries
          /\ KeyBytes[disk[f].key] + disk[f].len <= entries[disk[f].key]
      BY <2>2, <3>1 DEF BudgetInv, StoreInv, FilesIndexed, FileSize, Found
    <3>3. disk[f].key \in DOMAIN entries \ D /\ disk[f].key # k
      BY <2>4, <3>1, <3>2
    <3> QED
      BY <3>1, <3>2, <3>3
  <2> QED
    BY <2>3, <2>4
<1> HIDE DEF E, e
<1>9. Sum(FileSizes(disk'), FoundIn(disk')) <= Sum(e, E) /\ Sum(FileSizes(disk'), FoundIn(disk')) \in Nat
  BY <1>5, <1>7, <1>8, FoundWithin
<1>10. room \in Nat
  BY <1>2, <1>3
<1> QED
  BY <1>4, <1>6, <1>9, <1>10, FoundOf DEF D, E, e

\* The constructor counts the files it finds, one for each key.
LEMMA RestartBudget ==
  ASSUME BudgetInv, StoreInv', RecencyInv', Restart
  PROVE  BudgetInv'
<1> DEFINE R == FoundIn(disk)
           g == FileSizes(disk)
           K == DOMAIN entries'
           m == [k \in K |-> file_of[k]]
<1>1. /\ up' = TRUE /\ disk' = disk
      /\ entries' = [k \in {disk[f].key : f \in R} |-> FileSize(file_of[k])]
      /\ total_bytes' = Sum(g, R)
  <2>1. {f \in File : Found(f)} = R
    BY DEF FoundIn, Found, Readable
  <2>2. /\ up' = TRUE /\ disk' = disk
        /\ entries' = [k \in {disk[f].key : f \in R} |-> FileSize(file_of[k])]
        /\ total_bytes' = FoundBytes
    BY <2>1 DEF Restart, FoundBytes, BytesOf
  <2> QED
    BY <2>2, FoundOf
<1>2. disk \in [File -> Content] /\ IsFiniteSet(R) /\ R \subseteq File
  <2>1. R \in SUBSET {f \in File : Readable(f)}
    BY DEF FoundIn, Readable
  <2> QED
    BY <2>1, FS_Subset DEF BudgetInv, StoreInv, StoreTyped, RecencyInv
<1>3. \A f \in R : g[f] \in Nat /\ g[f] = FileSize(f)
  BY <1>2, SizesTyped DEF FoundIn, FileSizes, FileSize
<1>4. \A f \in R : /\ disk[f].key \in K /\ file_of[disk[f].key] = f
                   /\ entries'[disk[f].key] = g[f]
  <2>1. \A f \in R : disk[f].key \in K /\ file_of[disk[f].key] = f
    BY <1>1 DEF BudgetInv, StoreInv, FilesIndexed, FoundIn, Readable
  <2>2. \A k \in K : entries'[k] = FileSize(file_of[k])
    BY <1>1
  <2> QED
    BY <1>2, <1>3, <2>1, <2>2
<1>5. ASSUME NEW k \in K
      PROVE  file_of[k] \in R /\ disk[file_of[k]].key = k /\ entries'[k] = g[file_of[k]]
  <2>1. PICK f \in R : k = disk[f].key
    BY <1>1
  <2> QED
    BY <1>4, <2>1
<1>6. IsFiniteSet(K) /\ \A k \in K : entries'[k] \in Nat
  BY <1>1 DEF RecencyInv, StoreInv, StoreTyped
<1>8. Sum(g, R) <= Sum(entries', K) /\ Sum(g, R) \in Nat
  <2>1. \A f \in R : KeyBytes[disk[f].key] + disk[f].len <= entries'[disk[f].key]
    BY <1>2, <1>3, <1>4 DEF FileSizes, FoundIn
  <2> HIDE DEF K
  <2> QED
    BY <1>2, <1>4, <1>6, <2>1, FoundWithin
<1>9. Sum(entries', K) <= Sum(g, R) /\ Sum(entries', K) \in Nat
  <2>1. m \in [K -> R] /\ \A x, y \in K : m[x] = m[y] => x = y
    BY <1>5
  <2>2. \A k \in K : entries'[k] <= g[m[k]]
    BY <1>2, <1>3, <1>5
  <2>3. \A f \in R : g[f] \in Nat
    BY <1>2, <1>3
  <2> HIDE DEF R, g, K, m
  <2> QED
    BY <1>2, <1>6, <2>1, <2>2, <2>3, SumMapped
<1>10. total_bytes' = Sum(entries', K) /\ total_bytes' \in Nat
  BY <1>1, <1>8, <1>9
<1>11. FoundBytes' = FoundBytes /\ FoundBytes = total_bytes'
  BY <1>1, FoundOf
<1> QED
  BY <1>10, <1>11 DEF BudgetInv, CountInv

\* Every step keeps the budget.
LEMMA BudgetStep ==
  ASSUME BudgetInv, [ManagerNext]_vars
  PROVE  BudgetInv'
<1>1. StoreInv' /\ RecencyInv'
  BY ManagerStepInv, RecencyStep DEF BudgetInv
<1>2. ASSUME NEW k \in Key, NEW v \in Value
      PROVE  /\ Evicted(k, v) \in SUBSET (DOMAIN entries)
             /\ \A j : Before(j, k) \in SUBSET (DOMAIN entries)
  BY DEF Evicted, evict_until_fits, Before
<1>3. ASSUME NEW D \in SUBSET (DOMAIN entries), up, Index(D), disk' = Unlinked(D)
      PROVE  BudgetInv'
  <2>1. \A f \in File : disk'[f] \in {disk[f], NoFile}
    BY <1>3 DEF Unlinked
  <2> QED
    BY <1>1, <1>3, <2>1, DropBudget
<1>4. ASSUME NEW k \in Key, NEW v \in Value, NEW c \in Partial(k, v), PutDone(k, v, c)
      PROVE  BudgetInv'
  <2> DEFINE D == Evicted(k, v)
             E == (DOMAIN entries \ D) \cup {k}
             e == [j \in E |-> IF j = k THEN entry_size(k, v) ELSE entries[j]]
             room == total_bytes - Bytes(D) + entry_size(k, v)
  <2>1. /\ up /\ ~TooLarge(k, v) /\ Written(D, k, c) /\ entries' = e
        /\ total_bytes' = room
    BY <1>4 DEF PutDone
  <2>2. /\ Sum(e, E) = room
        /\ max_bytes # 0 => room <= max_bytes
        /\ FoundBytes' <= room /\ {room, FoundBytes'} \subseteq Nat
    BY <1>1, <2>1, WrittenBudget
  <2>3. DOMAIN entries' = E
    BY <2>1
  <2> HIDE DEF e, E, room
  <2> QED
    BY <1>1, <2>1, <2>2, <2>3 DEF BudgetInv, CountInv
<1>5. ASSUME NEW k \in Key, NEW v \in Value, NEW c \in Partial(k, v), PutCrash(k, v, c)
      PROVE  BudgetInv'
  <2>1. CASE \E D \in {Before(j, k) : j \in evict_until_fits(k, v)} \cup {Evicted(k, v)} :
               Index(D) /\ disk' = Unlinked(D)
    <3>1. PICK D \in SUBSET (DOMAIN entries) : Index(D) /\ disk' = Unlinked(D)
      BY <1>2, <2>1
    <3> QED
      BY <1>3, <1>5, <3>1 DEF PutCrash
  <2>2. CASE Index(Evicted(k, v)) /\ Written(Evicted(k, v), k, c)
    <3> DEFINE room == total_bytes - Bytes(Evicted(k, v)) + entry_size(k, v)
    <3>1. /\ max_bytes # 0 => room <= max_bytes
          /\ FoundBytes' <= room /\ {room, FoundBytes'} \subseteq Nat
      BY <1>1, <1>5, <2>2, WrittenBudget DEF PutCrash
    <3>2. total_bytes - Bytes(Evicted(k, v)) \in Nat
      BY <1>2, <1>5, Freed DEF BudgetInv, PutCrash
    <3>3. total_bytes' \in Nat /\ up' = FALSE
      BY <1>5, <2>2, <3>2 DEF Index, PutCrash
    <3> HIDE DEF room
    <3> QED
      BY <1>1, <3>1, <3>3 DEF BudgetInv, CountInv
  <2> QED
    BY <1>5, <2>1, <2>2 DEF PutCrash
<1>6. ASSUME NEW k \in Key, NEW v \in Value, PutFailed(k, v)
      PROVE  BudgetInv'
  <2>1. /\ up /\ Index(Evicted(k, v))
        /\ disk' = [Unlinked(Evicted(k, v)) EXCEPT ![file_of[k]] = NoFile]
    BY <1>6 DEF PutFailed
  <2>2. \A f \in File : disk'[f] \in {disk[f], NoFile}
    BY <2>1 DEF Unlinked
  <2> QED
    BY <1>1, <1>2, <2>1, <2>2, DropBudget
<1>7. ASSUME UNCHANGED <<entries, total_bytes, disk>>, up' => up PROVE BudgetInv'
  <2>1. FoundBytes' = FoundBytes
    BY <1>7, FoundOf
  <2> QED
    BY <1>1, <1>7, <2>1 DEF BudgetInv, CountInv
<1>8. ASSUME NEW D \in SUBSET (DOMAIN entries), up, Drop(D) PROVE BudgetInv'
  BY <1>3, <1>8 DEF Drop
<1>9. CASE \E k \in Key, v \in Value : put(k, v)
  BY <1>4, <1>5, <1>6, <1>7, <1>9 DEF put, PutRefused
<1>10. ASSUME NEW k \in Key, get(k) \/ remove(k) \/ load_state(k) PROVE BudgetInv'
  <2>1. CASE GetHit(k, "get") \/ GetHit(k, "load")
    BY <1>7, <2>1 DEF GetHit
  <2>2. CASE \E D \in SUBSET (DOMAIN entries) : up /\ Drop(D)
    BY <1>8, <2>2
  <2>3. {k} \cap DOMAIN entries \in SUBSET (DOMAIN entries)
    OBVIOUS
  <2>4. LoadReject(k) => {k} \in SUBSET (DOMAIN entries) /\ up /\ Drop({k})
    BY DEF LoadReject
  <2>5. remove(k) \/ GetMiss(k) => up /\ Drop({k} \cap DOMAIN entries)
    BY DEF remove, GetMiss
  <2> QED
    BY <1>10, <2>1, <2>2, <2>3, <2>4, <2>5 DEF get, load_state, LoadHit
<1>11. CASE clear
  BY <1>8, <1>11 DEF clear
<1>12. CASE Exit \/ UNCHANGED vars
  BY <1>7, <1>12 DEF Exit, vars
<1>13. CASE Restart
  BY <1>1, <1>13, RestartBudget
<1> QED
  BY <1>9, <1>10, <1>11, <1>12, <1>13 DEF ManagerNext, Next

LEMMA BudgetInit == Init => BudgetInv
<1> SUFFICES ASSUME Init PROVE BudgetInv
  OBVIOUS
<1>1. /\ entries = [k \in {} |-> 0] /\ order = {} /\ total_bytes = 0 /\ up = TRUE
      /\ disk = [f \in File |-> NoFile]
  BY DEF Init
<1>2. DOMAIN entries = {} /\ {f \in File : Readable(f)} = {} /\ FoundIn(disk) = {}
  BY <1>1 DEF Readable, FoundIn, NoFile
<1>3. IsFiniteSet({})
  BY FS_EmptySet
<1>4. RecencyInv
  BY <1>1, <1>2, <1>3 DEF RecencyInv, Ordered
<1>5. Sum(entries, DOMAIN entries) = 0
  BY <1>2, SumNone
<1>6. FoundBytes = 0
  <2>1. FoundBytes = Sum(FileSizes(disk), FoundIn(disk))
    BY FoundOf
  <2> QED
    BY <1>2, <2>1, SumNone
<1> QED
  BY <1>1, <1>4, <1>5, <1>6, StoreInit DEF BudgetInv, CountInv

\* A restart would count no more than the index does.
LEMMA FoundCounted ==
  ASSUME BudgetInv, up
  PROVE  FoundBytes <= total_bytes
<1>1. /\ disk \in [File -> Content] /\ IsFiniteSet(DOMAIN entries)
      /\ \A k \in DOMAIN entries : entries[k] \in Nat
  BY DEF BudgetInv, StoreInv, StoreTyped, RecencyInv
<1>2. \A f \in FoundIn(disk) :
        /\ disk[f].key \in DOMAIN entries /\ file_of[disk[f].key] = f
        /\ KeyBytes[disk[f].key] + disk[f].len <= entries[disk[f].key]
  BY DEF BudgetInv, StoreInv, FilesIndexed, FileSize, Found, Readable, FoundIn
<1>3. Sum(FileSizes(disk), FoundIn(disk)) <= Sum(entries, DOMAIN entries)
  BY <1>1, <1>2, FoundWithin
<1> QED
  BY <1>3, FoundOf DEF BudgetInv, CountInv

LEMMA BudgetInvariant == ManagerSpec => []BudgetInv
  BY BudgetInit, BudgetStep, PTL DEF ManagerSpec

\* The byte count put() evicts by is exact and within max_bytes after any
\* sequence of calls, failures, crashes and restarts, and so is what the
\* constructor would count if the process died here.  (Files it passes over,
\* with long keys or torn headers, are not counted by anyone.)
THEOREM BudgetIsKept == ManagerSpec => []BudgetHolds
<1>1. BudgetInv => BudgetHolds
  BY FoundCounted DEF BudgetInv, BudgetHolds, CountInv, Bytes
<1> QED
  BY <1>1, BudgetInvariant, PTL

\* The index has its shape, and the recency of its entries is one line at
\* any time, so that eviction always finds one least recently used entry:
\* the restart's sort by file age included.
THEOREM StoreTypes == ManagerSpec => []TypeOK
<1>1. BudgetInv => TypeOK
  BY DEF BudgetInv, TypeOK, CountInv, RecencyInv, StoreInv
<1> QED
  BY <1>1, BudgetInvariant, PTL
=============================================================================
