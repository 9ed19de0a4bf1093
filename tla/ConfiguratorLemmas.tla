------------------------- MODULE ConfiguratorLemmas -------------------------
(***************************************************************************)
(* Facts about the operators that Configurator is built from: the bounded  *)
(* map, the buckets in it, lists of pairs, and the values and lists that   *)
(* the handlers compute.                                                   *)
(***************************************************************************)
EXTENDS Configurator, FiniteSetTheorems, SequenceTheorems, WellFoundedInduction, TLAPS

----------------------------------------------------------------------------
\* What every operation of the bounded map preserves, for all maps.

\* The age queue of a coherent map is as long as the map has entries, so that
\* the size that Insert compares with mMaxSize is the length of the queue.
LEMMA CoherentSize ==
    ASSUME NEW K, NEW V, NEW m, IsMap(m, K, V), IsCoherent(m)
    PROVE  /\ Len(m.history) \in Nat
           /\ DOMAIN m.history = 1..Len(m.history)
           /\ Cardinality(DOMAIN m.items) = Len(m.history)
<1> DEFINE h == m.history
<1>1. h \in Seq(K) BY DEF IsMap
<1>2. Len(h) \in Nat /\ DOMAIN h = 1..Len(h) /\ h \in [1..Len(h) -> K]
  BY <1>1, LenProperties
<1>3. h \in Bijection(1..Len(h), DOMAIN m.items)
  BY <1>2 DEF IsCoherent, Range, IsInjective, Bijection, Injection, Surjection
<1>4. ExistsBijection(1..Len(h), DOMAIN m.items)
  BY <1>3 DEF ExistsBijection
<1>5. Cardinality(DOMAIN m.items) = Len(h)
  BY <1>2, <1>4, FS_CountingElements
<1> QED BY <1>2, <1>5

\* The entries of r are entries of m.
Keeps(r, m) ==
    /\ DOMAIN r.items \subseteq DOMAIN m.items
    /\ \A j \in DOMAIN r.items : r.items[j] = m.items[j]

\* AgeOut removes one entry, the oldest, from the entries and from the queue.
LEMMA AgeOutCoherent ==
    ASSUME NEW K, NEW V, NEW m, IsMap(m, K, V), IsCoherent(m), Len(m.history) # 0
    PROVE  /\ IsMap(AgeOut(m), K, V)
           /\ IsCoherent(AgeOut(m))
           /\ Len(AgeOut(m).history) = Len(m.history) - 1
           /\ Keeps(AgeOut(m), m)
<1> DEFINE h == m.history
           t == Tail(h)
           r == AgeOut(m)
<1>1. h \in Seq(K) /\ m.items \in [DOMAIN m.items -> V] /\ DOMAIN m.items \subseteq K
  BY DEF IsMap
<1>0. h # <<>> BY <1>1, EmptySeq
<1>2. /\ Len(h) \in Nat /\ DOMAIN h = 1..Len(h)
      /\ t \in Seq(K) /\ Len(t) = Len(h) - 1
      /\ \A i \in 1..Len(t) : t[i] = h[i + 1]
  BY <1>0, <1>1, HeadTailProperties, LenProperties
<1>3. Len(h) # 0 /\ Head(h) = h[1] /\ DOMAIN t = 1..Len(t)
  BY <1>1, <1>2, EmptySeq, LenProperties
<1>4. r = [items |-> Without(m.items, Head(h)), history |-> t]
  BY DEF AgeOut
<1>5. /\ DOMAIN r.items = DOMAIN m.items \ {h[1]}
      /\ \A j \in DOMAIN r.items : r.items[j] = m.items[j]
  BY <1>3, <1>4 DEF Without
<1>6. IsMap(r, K, V)
  <2>1. r.items \in [DOMAIN r.items -> V]
    BY <1>1, <1>3, <1>4, <1>5 DEF Without
  <2> QED BY <1>1, <1>2, <1>4, <1>5, <2>1 DEF IsMap
<1>7. IsInjective(t)
  BY <1>2, <1>3 DEF IsCoherent, IsInjective
<1>8. Range(t) = DOMAIN m.items \ {h[1]}
  <2>1. ASSUME NEW i \in 1..Len(t) PROVE t[i] \in DOMAIN m.items /\ t[i] # h[1]
    BY <1>2, <1>3 DEF IsCoherent, IsInjective, Range
  <2>2. ASSUME NEW x \in DOMAIN m.items, x # h[1] PROVE \E i \in 1..Len(t) : t[i] = x
    <3>1. PICK j \in 1..Len(h) : h[j] = x
      BY <1>2 DEF IsCoherent, Range
    <3>2. j - 1 \in 1..Len(t) /\ t[j - 1] = h[j]
      BY <1>2, <2>2, <3>1
    <3> QED BY <3>1, <3>2
  <2>3. Range(t) = {t[i] : i \in 1..Len(t)}
    BY <1>3 DEF Range
  <2> HIDE DEF t, h
  <2> QED BY <2>1, <2>2, <2>3
<1>9. IsCoherent(r)
  <2>1. r.history = t BY <1>4
  <2>2. Len(t) <= MaxSize BY <1>2, MaxSizeAssumption DEF IsCoherent
  <2> HIDE DEF t, r
  <2> QED BY <1>5, <1>7, <1>8, <2>1, <2>2 DEF IsCoherent
<1>10. Keeps(r, m) BY <1>5 DEF Keeps
<1> QED BY <1>2, <1>4, <1>6, <1>9, <1>10

\* Insert keeps the map coherent and within its bound, contains the key
\* afterwards and changes no other entry, except that the oldest may be gone.
LEMMA MapInsertCoherent ==
    ASSUME NEW K, NEW V, NEW m, IsMap(m, K, V), IsCoherent(m),
           NEW k \in K, NEW v \in V
    PROVE  LET r == MapInsert(m, k, v)
           IN  /\ IsMap(r, K, V)
               /\ IsCoherent(r)
               /\ k \in DOMAIN r.items
               /\ \A j \in DOMAIN r.items :
                     \/ j \in DOMAIN m.items /\ r.items[j] = m.items[j]
                     \/ j = k /\ k \notin DOMAIN m.items /\ r.items[j] = v
<1> DEFINE r == MapInsert(m, k, v)
<1>1. CASE Count(m, k)
  BY <1>1 DEF MapInsert, Count
<1>2. CASE ~Count(m, k)
  <2> DEFINE o == MakeRoom(m)
  <2>1. IsMap(o, K, V) /\ IsCoherent(o) /\ Keeps(o, m) /\ Len(o.history) < MaxSize
    <3>1. CASE Cardinality(DOMAIN m.items) >= MaxSize
      <4>1. Len(m.history) = MaxSize
        BY <3>1, CoherentSize, MaxSizeAssumption DEF IsCoherent
      <4>2. Len(m.history) # 0
        BY <4>1, MaxSizeAssumption
      <4>3. MakeRoom(m) = AgeOut(m)
        BY <3>1 DEF MakeRoom
      <4>4. Len(m.history) - 1 < MaxSize
        BY <4>1, MaxSizeAssumption
      <4>5. /\ IsMap(AgeOut(m), K, V) /\ IsCoherent(AgeOut(m)) /\ Keeps(AgeOut(m), m)
            /\ Len(AgeOut(m).history) = Len(m.history) - 1
        BY <4>2, AgeOutCoherent
      <4> HIDE DEF r
      <4> QED BY <4>3, <4>4, <4>5
    <3>2. CASE ~(Cardinality(DOMAIN m.items) >= MaxSize)
      BY <3>2, CoherentSize, MaxSizeAssumption DEF MakeRoom, Keeps
    <3> QED BY <3>1, <3>2
  <2> DEFINE h == o.history
             n == Append(h, k)
  <2>2. /\ r.items = [j \in DOMAIN o.items \cup {k} |-> IF j = k THEN v ELSE o.items[j]]
        /\ r.history = n
        /\ r = [items |-> r.items, history |-> r.history]
    BY <1>2 DEF MapInsert
  <2>3. k \notin DOMAIN o.items
    BY <1>2, <2>1 DEF Count, Keeps
  <2> HIDE DEF r, o
  <2>4. /\ h \in Seq(K) /\ Len(h) \in Nat /\ DOMAIN h = 1..Len(h)
        /\ o.items \in [DOMAIN o.items -> V] /\ DOMAIN o.items \subseteq K
    BY <2>1, LenProperties DEF IsMap
  <2>5. /\ n \in Seq(K) /\ Len(n) = Len(h) + 1 /\ DOMAIN n = 1..Len(h) + 1
        /\ \A i \in 1..Len(h) : n[i] = h[i]
        /\ n[Len(h) + 1] = k
    BY <2>4, AppendProperties, LenProperties
  <2>6. IsMap(r, K, V)
    <3>1. r.items \in [DOMAIN o.items \cup {k} -> V]
      BY <2>2, <2>4
    <3> QED BY <2>2, <2>4, <2>5, <3>1 DEF IsMap
  <2>7. \A i \in 1..Len(h) : h[i] \in DOMAIN o.items
    BY <2>1, <2>4 DEF IsCoherent, Range
  <2>8. IsInjective(n)
    <3> HIDE DEF n, h
    <3> SUFFICES ASSUME NEW a \in 1..Len(h) + 1, NEW b \in 1..Len(h) + 1, n[a] = n[b]
                 PROVE  a = b
      BY <2>5 DEF IsInjective
    <3>1. IsInjective(h) BY <2>1 DEF IsCoherent, h
    <3>2. CASE a \in 1..Len(h) /\ b \in 1..Len(h)
      BY <2>4, <2>5, <3>1, <3>2 DEF IsInjective
    <3>3. CASE a = Len(h) + 1 \/ b = Len(h) + 1
      BY <2>3, <2>4, <2>5, <2>7, <3>3
    <3> QED BY <2>4, <3>2, <3>3
  <2>9. Range(n) = DOMAIN o.items \cup {k}
    <3>1. Range(n) = {n[i] : i \in 1..Len(h) + 1}
      BY <2>5 DEF Range
    <3>2. ASSUME NEW x \in DOMAIN o.items PROVE \E i \in 1..Len(h) : h[i] = x
      BY <2>1, <2>4 DEF IsCoherent, Range
    <3> HIDE DEF n, h
    <3>3. Range(n) \subseteq DOMAIN o.items \cup {k}
      BY <2>4, <2>5, <2>7, <3>1
    <3>4. DOMAIN o.items \cup {k} \subseteq Range(n)
      BY <2>4, <2>5, <3>1, <3>2
    <3> QED BY <3>3, <3>4
  <2>10. IsCoherent(r)
    <3>1. Len(n) <= MaxSize BY <2>1, <2>4, <2>5, MaxSizeAssumption
    <3> HIDE DEF n, h
    <3> QED BY <2>2, <2>8, <2>9, <3>1 DEF IsCoherent
  <2>11. \A j \in DOMAIN r.items :
             \/ j \in DOMAIN m.items /\ r.items[j] = m.items[j]
             \/ j = k /\ k \notin DOMAIN m.items /\ r.items[j] = v
    BY <1>2, <2>1, <2>2 DEF Count, Keeps
  <2> QED BY <2>2, <2>6, <2>10, <2>11 DEF r
<1> QED BY <1>1, <1>2

\* A sequence without its i-th element.
LEMMA RemovedAtPosition ==
    ASSUME NEW K, NEW h \in Seq(K), NEW i \in 1..Len(h)
    PROVE  LET n == SubSeq(h, 1, i - 1) \o SubSeq(h, i + 1, Len(h))
           IN  /\ n \in Seq(K)
               /\ Len(n) = Len(h) - 1
               /\ DOMAIN n = 1..Len(h) - 1
               /\ \A j \in 1..Len(h) - 1 : j < i => n[j] = h[j]
               /\ \A j \in 1..Len(h) - 1 : i <= j => n[j] = h[j + 1]
<1> DEFINE a == SubSeq(h, 1, i - 1)
           b == SubSeq(h, i + 1, Len(h))
<1>1. Len(h) \in Nat /\ (\A j \in 1..Len(h) : h[j] \in K)
  BY LenProperties, ElementOfSeq
<1>2. /\ a \in Seq(K) /\ Len(a) = i - 1
      /\ \A j \in 1..i - 1 : a[j] = h[j]
  BY <1>1, SubSeqProperties
<1>3. /\ b \in Seq(K) /\ Len(b) = Len(h) - i
      /\ \A j \in 1..Len(h) - i : b[j] = h[i + j]
  BY <1>1, SubSeqProperties
<1> HIDE DEF a, b
<1> DEFINE n == a \o b
<1>4. /\ n \in Seq(K) /\ Len(n) = Len(a) + Len(b)
      /\ \A j \in 1..Len(a) + Len(b) : n[j] = IF j <= Len(a) THEN a[j] ELSE b[j - Len(a)]
  BY <1>2, <1>3, ConcatProperties
<1> HIDE DEF n
<1>5. Len(n) = Len(h) - 1
  BY <1>1, <1>2, <1>3, <1>4
<1>6. DOMAIN n = 1..Len(h) - 1
  BY <1>4, <1>5, LenProperties
<1>7. ASSUME NEW j \in 1..Len(h) - 1, j < i PROVE n[j] = h[j]
  <2>1. j \in 1..Len(a) + Len(b) /\ j <= Len(a) /\ j \in 1..i - 1
    BY <1>1, <1>2, <1>3, <1>7
  <2>2. n[j] = a[j] BY <1>4, <2>1
  <2> QED BY <1>2, <2>1, <2>2
<1>8. ASSUME NEW j \in 1..Len(h) - 1, i <= j PROVE n[j] = h[j + 1]
  <2>1. j \in 1..Len(a) + Len(b) /\ ~(j <= Len(a)) /\ j - Len(a) \in 1..Len(h) - i
    BY <1>1, <1>2, <1>3, <1>8
  <2>2. n[j] = b[j - Len(a)] BY <1>4, <2>1
  <2>3. b[j - Len(a)] = h[i + (j - Len(a))] BY <1>3, <2>1
  <2>4. i + (j - Len(a)) = j + 1 BY <1>1, <1>2
  <2> QED BY <2>2, <2>3, <2>4
<1> QED BY <1>4, <1>5, <1>6, <1>7, <1>8 DEF n, a, b

\* Erase of a key that the map contains removes it from the entries and from
\* the queue and leaves the rest as it is.
LEMMA MapEraseCoherent ==
    ASSUME NEW K, NEW V, NEW m, IsMap(m, K, V), IsCoherent(m),
           NEW k \in DOMAIN m.items
    PROVE  LET r == MapErase(m, k)
           IN  /\ IsMap(r, K, V)
               /\ IsCoherent(r)
               /\ r.items = Without(m.items, k)
<1> DEFINE h == m.history
           i == Lookup(m, k)
           n == SubSeq(h, 1, i - 1) \o SubSeq(h, i + 1, Len(h))
           r == MapErase(m, k)
<1>1. /\ h \in Seq(K) /\ Len(h) \in Nat /\ DOMAIN h = 1..Len(h)
      /\ m.items \in [DOMAIN m.items -> V] /\ DOMAIN m.items \subseteq K
  BY LenProperties DEF IsMap
<1>2. i \in 1..Len(h) /\ h[i] = k
  BY <1>1 DEF Lookup, IsCoherent, Range
<1>3. r.items = Without(m.items, k) /\ r.history = n
      /\ r = [items |-> r.items, history |-> r.history]
  BY DEF MapErase
<1>4. \A j \in 1..Len(h) : h[j] \in DOMAIN m.items
  BY <1>1 DEF IsCoherent, Range
<1>5. \A x \in DOMAIN m.items : \E j \in 1..Len(h) : h[j] = x
  BY <1>1 DEF IsCoherent, Range
<1>6. \A j, l \in 1..Len(h) : h[j] = h[l] => j = l
  BY <1>1 DEF IsCoherent, IsInjective
<1>7. Len(h) <= MaxSize BY DEF IsCoherent
<1> HIDE DEF i, r, h
<1>8. /\ n \in Seq(K) /\ Len(n) = Len(h) - 1 /\ DOMAIN n = 1..Len(h) - 1
      /\ \A j \in 1..Len(h) - 1 : j < i => n[j] = h[j]
      /\ \A j \in 1..Len(h) - 1 : i <= j => n[j] = h[j + 1]
  BY <1>1, <1>2, RemovedAtPosition
<1> HIDE DEF n
<1>9. DOMAIN r.items = DOMAIN m.items \ {k} /\ r.items \in [DOMAIN r.items -> V]
  BY <1>1, <1>3 DEF Without
<1>10. IsMap(r, K, V)
  BY <1>1, <1>3, <1>8, <1>9 DEF IsMap
<1>11. IsInjective(n)
  <2> SUFFICES ASSUME NEW j \in 1..Len(h) - 1, NEW l \in 1..Len(h) - 1, n[j] = n[l]
               PROVE  j = l
    BY <1>8 DEF IsInjective
  <2>1. /\ j \in 1..Len(h) /\ j + 1 \in 1..Len(h)
        /\ l \in 1..Len(h) /\ l + 1 \in 1..Len(h)
    BY <1>1
  <2>2. CASE j < i /\ l < i BY <1>6, <1>8, <2>1, <2>2
  <2>3. CASE j < i /\ i <= l
    <3>1. h[j] = h[l + 1] BY <1>8, <2>3
    <3>2. j = l + 1 BY <1>6, <2>1, <3>1
    <3> QED BY <1>1, <1>2, <2>3, <3>2
  <2>4. CASE i <= j /\ l < i
    <3>1. h[l] = h[j + 1] BY <1>8, <2>4
    <3>2. l = j + 1 BY <1>6, <2>1, <3>1
    <3> QED BY <1>1, <1>2, <2>4, <3>2
  <2>5. CASE i <= j /\ i <= l BY <1>6, <1>8, <2>1, <2>5
  <2> QED BY <1>1, <1>2, <2>2, <2>3, <2>4, <2>5
<1>12. Range(n) = DOMAIN m.items \ {k}
  <2>1. Range(n) = {n[j] : j \in 1..Len(h) - 1}
    BY <1>8 DEF Range
  <2>2. ASSUME NEW j \in 1..Len(h) - 1 PROVE n[j] \in DOMAIN m.items /\ n[j] # k
    <3>1. j \in 1..Len(h) /\ j + 1 \in 1..Len(h)
      BY <1>1
    <3>2. CASE j < i BY <1>2, <1>4, <1>6, <1>8, <3>1, <3>2
    <3>3. CASE i <= j BY <1>2, <1>4, <1>6, <1>8, <3>1, <3>3
    <3> QED BY <1>1, <1>2, <3>2, <3>3
  <2>3. ASSUME NEW x \in DOMAIN m.items, x # k PROVE \E j \in 1..Len(h) - 1 : n[j] = x
    <3>1. PICK j \in 1..Len(h) : h[j] = x
      BY <1>5
    <3>2. CASE j < i
      <4>1. j \in 1..Len(h) - 1 BY <1>1, <1>2, <3>2
      <4> QED BY <1>8, <3>1, <3>2, <4>1
    <3>3. CASE i < j
      <4>1. j - 1 \in 1..Len(h) - 1 /\ i <= j - 1 /\ (j - 1) + 1 = j
        BY <1>1, <1>2, <3>3
      <4>2. n[j - 1] = h[j] BY <1>8, <4>1
      <4> QED BY <3>1, <4>1, <4>2
    <3>4. j # i BY <1>2, <2>3, <3>1
    <3> QED BY <1>1, <1>2, <3>2, <3>3, <3>4
  <2> QED BY <2>1, <2>2, <2>3
<1>13. IsCoherent(r)
  <2>1. Len(n) <= MaxSize BY <1>1, <1>7, <1>8, MaxSizeAssumption
  <2> QED BY <1>3, <1>9, <1>11, <1>12, <2>1 DEF IsCoherent
<1> QED BY <1>3, <1>10, <1>13 DEF r

\* Replacing an entry leaves the queue alone.
LEMMA MapUpdateCoherent ==
    ASSUME NEW K, NEW V, NEW m, IsMap(m, K, V), IsCoherent(m),
           NEW k \in DOMAIN m.items, NEW v \in V
    PROVE  LET r == MapUpdate(m, k, v)
           IN  /\ IsMap(r, K, V)
               /\ IsCoherent(r)
               /\ r.items = [m.items EXCEPT ![k] = v]
<1> DEFINE r == MapUpdate(m, k, v)
<1>1. r.items = [m.items EXCEPT ![k] = v] /\ r.history = m.history
      /\ r = [items |-> r.items, history |-> r.history]
  BY DEF MapUpdate
<1> HIDE DEF r
<1>2. m.history \in Seq(K) /\ m.items \in [DOMAIN m.items -> V] /\ DOMAIN m.items \subseteq K
  BY DEF IsMap
<1>3. IsMap(r, K, V) BY <1>1, <1>2 DEF IsMap
<1>4. IsCoherent(r) BY <1>1, <1>2 DEF IsCoherent
<1> QED BY <1>1, <1>3, <1>4 DEF r

----------------------------------------------------------------------------
\* Sequences and lists of pairs.

\* A function on 1..n is a sequence.
LEMMA FunctionIsSeq ==
    ASSUME NEW S, NEW n \in Nat, NEW f \in [1..n -> S]
    PROVE  f \in Seq(S) /\ Len(f) = n
<1>1. f \in Seq(S) BY SeqDef
<1> QED BY <1>1, LenProperties

\* An enumeration of a finite set is a sequence over it.
LEMMA SetToSeqsType ==
    ASSUME NEW S, IsFiniteSet(S), NEW s \in SetToSeqs(S)
    PROVE  s \in Seq(S)
<1>1. Cardinality(S) \in Nat BY FS_CardinalityType
<1>2. s \in [1..Cardinality(S) -> S] BY DEF SetToSeqs
<1> QED BY <1>1, <1>2, FunctionIsSeq

\* An enumeration of a finite set meets every element exactly once.
LEMMA Enumeration ==
    ASSUME NEW S, IsFiniteSet(S), NEW s \in SetToSeqs(S)
    PROVE  /\ s \in Seq(S) /\ Len(s) = Cardinality(S) /\ Len(s) \in Nat
           /\ DOMAIN s = 1..Len(s)
           /\ \A x \in S : \E i \in DOMAIN s : s[i] = x
           /\ \A i, j \in DOMAIN s : s[i] = s[j] => i = j
<1> DEFINE n == Cardinality(S)
<1>1. n \in Nat
  BY FS_CardinalityType
<1>2. s \in [1..n -> S] /\ \A i, j \in 1..n : i # j => s[i] # s[j]
  BY DEF SetToSeqs
<1>3. IsFiniteSet(1..n) /\ Cardinality(1..n) = n
  BY <1>1, FS_Interval
<1>4. s \in Injection(1..n, S)
  BY <1>2 DEF Injection, IsInjective
<1>5. s \in Surjection(1..n, S)
  BY <1>3, <1>4, FS_Injection
<1>6. \A x \in S : \E i \in 1..n : s[i] = x
  BY <1>5 DEF Surjection
<1>7. s \in Seq(S) /\ Len(s) = n
  BY <1>1, <1>2, SeqDef, LenProperties
<1> QED BY <1>1, <1>2, <1>6, <1>7

\* Every non-empty set of naturals has a smallest element.
LEMMA SmallestExists ==
    ASSUME NEW T \in SUBSET Nat, T # {}
    PROVE  \E d \in T : \A e \in T : d <= e
<1> DEFINE R == {p \in Nat \X Nat : p[1] < p[2]}
<1>1. IsWellFoundedOn(R, Nat)
  BY NatLessThanWellFounded, Zenon DEF OpToRel
<1> HIDE DEF R
<1>2. PICK d \in T : \A e \in T : ~(<<e, d>> \in R)
  BY <1>1, WFMin
<1>3. ASSUME NEW e \in T PROVE d <= e
  <2>1. <<e, d>> \in Nat \X Nat /\ ~(<<e, d>> \in R) BY <1>2
  <2>2. ~(e < d) BY <2>1 DEF R
  <2> QED BY <2>2
<1> QED BY <1>2, <1>3

\* Every non-empty set of naturals up to n has a largest element.
LEMMA LargestExists ==
    ASSUME NEW n \in Nat, NEW S \in SUBSET (1..n), S # {}
    PROVE  \E i \in S : \A j \in S : j <= i
<1> DEFINE T == {d \in Nat : n - d \in S}
<1>1. T \in SUBSET Nat /\ T # {}
  <2>1. PICK i \in S : TRUE OBVIOUS
  <2>2. n - i \in Nat /\ n - (n - i) = i BY <2>1
  <2> QED BY <2>1, <2>2
<1> HIDE DEF T
<1>2. PICK d \in T : \A e \in T : d <= e BY <1>1, SmallestExists
<1> USE DEF T
<1>3. ASSUME NEW j \in S PROVE j <= n - d
  <2>1. n - j \in T BY <1>3
  <2> QED BY <1>2, <2>1
<1> QED BY <1>2, <1>3

\* A set of numbers up to n has an increasing enumeration.
LEMMA InOrderExists ==
    ASSUME NEW n \in Nat, NEW S \in SUBSET (1..n)
    PROVE  \E s : s \in InOrder(S)
<1> DEFINE Low(m) == S \cap 1..m
           T == {m \in 0..n : ~ \E s : s \in InOrder(Low(m))}
<1>1. Low(n) = S OBVIOUS
<1>2. ASSUME T # {} PROVE FALSE
  <2>1. T \in SUBSET Nat OBVIOUS
  <2>2. PICK m \in T : \A e \in T : m <= e
    <3> HIDE DEF T
    <3> QED BY <1>2, <2>1, SmallestExists
  <2>3. m \in 0..n /\ ~ \E s : s \in InOrder(Low(m)) BY <2>2
  <2>4. ASSUME NEW l \in 0..n PROVE IsFiniteSet(Low(l)) /\ Cardinality(Low(l)) \in Nat
    <3>1. IsFiniteSet(1..l) BY FS_Interval
    <3>2. IsFiniteSet(Low(l)) BY <3>1, FS_Subset
    <3> QED BY <3>2, FS_CardinalityType
  <2>5. CASE m = 0
    <3>1. Low(m) = {} BY <2>5
    <3>2. Cardinality({}) = 0 BY FS_EmptySet
    <3>3. <<>> \in [1..0 -> {}] /\ DOMAIN <<>> = {} BY EmptySeq
    <3>4. <<>> \in SetToSeqs({}) BY <3>2, <3>3 DEF SetToSeqs
    <3>5. <<>> \in InOrder({}) BY <3>3, <3>4 DEF InOrder
    <3> QED BY <2>3, <3>1, <3>5
  <2>6. CASE m # 0
    <3>1. m - 1 \in 0..n /\ m - 1 \notin T BY <2>2, <2>3, <2>6
    <3>2. PICK s : s \in InOrder(Low(m - 1)) BY <3>1
    <3> DEFINE L == Low(m - 1)
               c == Cardinality(L)
               t == [i \in 1..c + 1 |-> IF i <= c THEN s[i] ELSE m]
    <3>3. L \subseteq 1..m - 1 /\ IsFiniteSet(L) /\ c \in Nat BY <2>4, <3>1
    <3>4. CASE m \notin S
      <4>1. Low(m) = L BY <2>3, <3>4
      <4> QED BY <2>3, <3>2, <4>1
    <3>5. CASE m \in S
      <4>1. Low(m) = L \cup {m} /\ m \notin L BY <2>3, <3>5
      <4> HIDE DEF L
      <4>2. Cardinality(L \cup {m}) = c + 1 BY <3>3, <4>1, FS_AddElement
      <4>3. /\ s \in [1..c -> L] /\ \A i, j \in 1..c : i # j => s[i] # s[j]
            /\ \A i, j \in 1..c : i < j => s[i] < s[j]
        BY <3>2 DEF InOrder, SetToSeqs, L
      <4> HIDE DEF c
      <4>4. t \in [1..c + 1 -> L \cup {m}] BY <3>3, <4>3
      <4>5. ASSUME NEW i \in 1..c + 1, NEW j \in 1..c + 1, i < j
            PROVE  t[i] < t[j]
        <5>1. i <= c /\ i \in 1..c /\ t[i] = s[i] BY <3>3, <4>5
        <5>2. CASE j <= c
          <6>1. j \in 1..c /\ t[j] = s[j] BY <3>3, <5>2
          <6> QED BY <4>3, <4>5, <5>1, <6>1
        <5>3. CASE ~(j <= c)
          <6>1. t[j] = m BY <5>3
          <6>2. s[i] \in 1..m - 1 BY <3>3, <4>3, <5>1
          <6> QED BY <2>3, <5>1, <6>1, <6>2
        <5> QED BY <5>2, <5>3
      <4>6. \A i \in 1..c + 1 : t[i] \in Nat
        <5> HIDE DEF t
        <5>1. L \cup {m} \subseteq Nat BY <2>3, <3>3
        <5> QED BY <4>4, <5>1
      <4>7. \A i, j \in 1..c + 1 : i # j => t[i] # t[j]
        <5> SUFFICES ASSUME NEW i \in 1..c + 1, NEW j \in 1..c + 1, i # j
                     PROVE  t[i] # t[j]
          OBVIOUS
        <5> HIDE DEF t
        <5>1. i < j \/ j < i BY <3>3
        <5> QED BY <4>5, <4>6, <5>1
      <4>8. DOMAIN t = 1..c + 1 OBVIOUS
      <4> HIDE DEF t
      <4>9. t \in SetToSeqs(L \cup {m}) BY <4>2, <4>4, <4>7 DEF SetToSeqs, c
      <4>10. t \in InOrder(L \cup {m}) BY <4>5, <4>8, <4>9 DEF InOrder
      <4> QED BY <2>3, <4>1, <4>10
    <3> QED BY <3>4, <3>5
  <2> QED BY <2>5, <2>6
<1>3. n \notin T
  <2> HIDE DEF T
  <2> QED BY <1>2
<1>4. \E s : s \in InOrder(Low(n))
  <2>1. n \in 0..n OBVIOUS
  <2> HIDE DEF Low
  <2> QED BY <1>3, <2>1
<1> HIDE DEF Low, T
<1> QED BY <1>1, <1>4

\* A list that touches a key has a last pair for it, so that LastWrite is the
\* value of one of its pairs.
LEMMA LastWriteExists ==
    ASSUME NEW list \in Seq(Pair), NEW k, Touches(list, k)
    PROVE  \E i \in DOMAIN list : /\ IsLastWrite(list, k, i)
                                  /\ LastWrite(list, k) = list[i].value
<1> DEFINE S == {i \in DOMAIN list : list[i].key = k}
<1>1. Len(list) \in Nat /\ DOMAIN list = 1..Len(list)
  BY LenProperties
<1>2. S \in SUBSET (1..Len(list)) /\ S # {}
  BY <1>1 DEF Touches
<1>3. PICK i \in S : \A j \in S : j <= i
  BY <1>1, <1>2, LargestExists
<1>4. IsLastWrite(list, k, i)
  BY <1>3 DEF IsLastWrite
<1> QED BY <1>4 DEF LastWrite

----------------------------------------------------------------------------
\* The buckets.

IsGoodMap(m) == IsInFlightMap(m) /\ IsCoherent(m)

Locked(m) == {b \in DOMAIN m.items : m.items[b].locked}

\* The map of a daemon that has just started.
LEMMA EmptyMapGood == IsGoodMap(EmptyMap) /\ DOMAIN EmptyMap.items = {}
<1> DEFINE none == [k \in {} |-> 0]
<1>1. /\ EmptyMap = [items |-> none, history |-> <<>>]
      /\ DOMAIN none = {} /\ none \in [{} -> Bucket]
  BY DEF EmptyMap
<1> HIDE DEF none
<1>2. EmptyMap.items = none /\ EmptyMap.history = <<>> BY <1>1
<1>3. IsMap(EmptyMap, Id, Bucket) BY <1>1, <1>2, EmptySeq DEF IsMap
<1>4. IsCoherent(EmptyMap)
  BY <1>1, <1>2, MaxSizeAssumption DEF IsCoherent, Range, IsInjective
<1> QED BY <1>1, <1>2, <1>3, <1>4 DEF IsGoodMap, IsInFlightMap

\* The list of a bucket, absent ones included, is a list of pairs.
LEMMA GetBucketType ==
    ASSUME NEW m, IsGoodMap(m), NEW b
    PROVE  GetBucket(m, b) \in Seq(Pair)
<1>1. CASE Exists(m, b)
  <2>1. m.items[b] \in Bucket
    BY <1>1 DEF Exists, Count, IsGoodMap, IsInFlightMap, IsMap
  <2> QED BY <1>1, <2>1 DEF GetBucket, Bucket
<1>2. CASE ~Exists(m, b)
  BY <1>2, EmptySeq DEF GetBucket
<1> QED BY <1>1, <1>2

\* Staging pairs keeps the map coherent and locks no bucket, whatever is
\* evicted.
LEMMA InsertGood ==
    ASSUME NEW m, IsGoodMap(m), NEW b \in Id, NEW pairs \in Seq(Pair)
    PROVE  /\ IsGoodMap(Insert(m, b, pairs))
           /\ Locked(Insert(m, b, pairs)) \subseteq Locked(m)
<1>1. CASE pairs = <<>>
  BY <1>1 DEF Insert
<1>2. CASE pairs # <<>>
  <2> DEFINE new == [list |-> <<>>, locked |-> FALSE]
             r == MapInsert(m, b, new)
             v == [list |-> r.items[b].list \o pairs, locked |-> r.items[b].locked]
             q == MapUpdate(r, b, v)
  <2>1. new \in Bucket BY EmptySeq DEF Bucket
  <2>2. IsMap(m, Id, Bucket) /\ IsCoherent(m)
    BY DEF IsGoodMap, IsInFlightMap
  <2> HIDE DEF new
  <2>3. /\ IsMap(r, Id, Bucket) /\ IsCoherent(r) /\ b \in DOMAIN r.items
        /\ \A j \in DOMAIN r.items :
              \/ j \in DOMAIN m.items /\ r.items[j] = m.items[j]
              \/ j = b /\ b \notin DOMAIN m.items /\ r.items[j] = new
    BY <2>1, <2>2, MapInsertCoherent
  <2>4. Insert(m, b, pairs) = q
    BY <1>2 DEF Insert, new
  <2> HIDE DEF r
  <2>5. r.items[b] \in Bucket
    BY <2>3 DEF IsMap
  <2>6. v \in Bucket
    BY <2>5, ConcatProperties DEF Bucket
  <2>7. IsMap(q, Id, Bucket) /\ IsCoherent(q) /\ q.items = [r.items EXCEPT ![b] = v]
    <3> HIDE DEF v
    <3> QED BY <2>3, <2>6, MapUpdateCoherent
  <2> HIDE DEF q
  <2>8. Locked(q) \subseteq Locked(r)
    BY <2>5, <2>7 DEF Locked, Bucket
  <2>9. Locked(r) \subseteq Locked(m)
    BY <2>3 DEF Locked, new
  <2> QED BY <2>4, <2>7, <2>8, <2>9 DEF IsGoodMap, IsInFlightMap
<1> QED BY <1>1, <1>2

\* Staging pairs appends them to the bucket, creates it when it is absent, and
\* does not touch its lock.
LEMMA InsertedBucket ==
    ASSUME NEW m, IsGoodMap(m), NEW b \in Id, NEW pairs \in Seq(Pair), pairs # <<>>
    PROVE  /\ Exists(Insert(m, b, pairs), b)
           /\ GetBucket(Insert(m, b, pairs), b) = GetBucket(m, b) \o pairs
           /\ IsBucketLocked(Insert(m, b, pairs), b) <=> IsBucketLocked(m, b)
           /\ \A a : a # b /\ Exists(Insert(m, b, pairs), a) =>
                 /\ Exists(m, a)
                 /\ Insert(m, b, pairs).items[a] = m.items[a]
<1> DEFINE new == [list |-> <<>>, locked |-> FALSE]
           r == MapInsert(m, b, new)
           v == [list |-> r.items[b].list \o pairs, locked |-> r.items[b].locked]
           q == MapUpdate(r, b, v)
<1>1. new \in Bucket BY EmptySeq DEF Bucket
<1>2. IsMap(m, Id, Bucket) /\ IsCoherent(m)
  BY DEF IsGoodMap, IsInFlightMap
<1> HIDE DEF new
<1>3. /\ IsMap(r, Id, Bucket) /\ IsCoherent(r) /\ b \in DOMAIN r.items
      /\ \A j \in DOMAIN r.items :
            \/ j \in DOMAIN m.items /\ r.items[j] = m.items[j]
            \/ j = b /\ b \notin DOMAIN m.items /\ r.items[j] = new
  BY <1>1, <1>2, MapInsertCoherent
<1>4. Insert(m, b, pairs) = q
  BY DEF Insert, new
<1> HIDE DEF r
<1>5. r.items[b] \in Bucket /\ r.items \in [DOMAIN r.items -> Bucket]
  BY <1>3 DEF IsMap
<1>6. v \in Bucket /\ v.list = r.items[b].list \o pairs /\ v.locked = r.items[b].locked
  BY <1>5, ConcatProperties DEF Bucket
<1> HIDE DEF v
<1>7. q.items = [r.items EXCEPT ![b] = v]
  BY <1>3, <1>6, MapUpdateCoherent
<1> HIDE DEF q
<1>8. DOMAIN q.items = DOMAIN r.items /\ q.items[b] = v
  BY <1>3, <1>5, <1>7
<1>9. ASSUME NEW a, a # b, a \in DOMAIN q.items
      PROVE  a \in DOMAIN m.items /\ q.items[a] = m.items[a]
  BY <1>3, <1>5, <1>7, <1>8, <1>9
<1>10. CASE b \in DOMAIN m.items
  <2>1. r.items[b] = m.items[b] BY <1>3, <1>10
  <2>2. GetBucket(q, b) = GetBucket(m, b) \o pairs
    BY <1>3, <1>6, <1>8, <1>10, <2>1 DEF Exists, Count, GetBucket
  <2>3. IsBucketLocked(q, b) <=> IsBucketLocked(m, b)
    BY <1>3, <1>6, <1>8, <1>10, <2>1, Zenon DEF Exists, Count, IsBucketLocked
  <2> QED BY <1>3, <1>4, <1>8, <1>9, <2>2, <2>3 DEF Exists, Count
<1>11. CASE b \notin DOMAIN m.items
  <2>1. r.items[b].list = <<>> /\ ~r.items[b].locked BY <1>3, <1>11 DEF new
  <2>2. <<>> \o pairs = pairs BY ConcatEmptySeq
  <2>3. GetBucket(q, b) = GetBucket(m, b) \o pairs
    BY <1>3, <1>6, <1>8, <1>11, <2>1, <2>2 DEF Exists, Count, GetBucket
  <2>4. IsBucketLocked(q, b) <=> IsBucketLocked(m, b)
    BY <1>3, <1>6, <1>8, <1>11, <2>1, Zenon DEF Exists, Count, IsBucketLocked
  <2> QED BY <1>3, <1>4, <1>8, <1>9, <2>3, <2>4 DEF Exists, Count
<1> QED BY <1>10, <1>11

\* Dropping a bucket also drops its lock.
LEMMA DropGood ==
    ASSUME NEW m, IsGoodMap(m), NEW b
    PROVE  /\ IsGoodMap(Drop(m, b))
           /\ Locked(Drop(m, b)) \subseteq Locked(m) \ {b}
<1>1. CASE Exists(m, b)
  <2> DEFINE r == MapErase(m, b)
  <2>1. IsMap(m, Id, Bucket) /\ IsCoherent(m) /\ b \in DOMAIN m.items
    BY <1>1 DEF IsGoodMap, IsInFlightMap, Exists, Count
  <2>2. IsMap(r, Id, Bucket) /\ IsCoherent(r) /\ r.items = Without(m.items, b)
    BY <2>1, MapEraseCoherent
  <2>3. Drop(m, b) = r BY <1>1 DEF Drop
  <2> HIDE DEF r
  <2>4. Locked(r) \subseteq Locked(m) \ {b}
    BY <2>2 DEF Locked, Without
  <2> QED BY <2>2, <2>3, <2>4 DEF IsGoodMap, IsInFlightMap
<1>2. CASE ~Exists(m, b)
  BY <1>2 DEF Drop, Exists, Count, Locked
<1> QED BY <1>1, <1>2

\* Locking a bucket locks no other one.
LEMMA LockBucketGood ==
    ASSUME NEW m, IsGoodMap(m), NEW b, Exists(m, b)
    PROVE  /\ IsGoodMap(LockBucket(m, b))
           /\ Locked(LockBucket(m, b)) \subseteq Locked(m) \cup {b}
<1> DEFINE v == [list |-> m.items[b].list, locked |-> TRUE]
           r == LockBucket(m, b)
<1>1. IsMap(m, Id, Bucket) /\ IsCoherent(m) /\ b \in DOMAIN m.items
  BY DEF IsGoodMap, IsInFlightMap, Exists, Count
<1>2. m.items[b] \in Bucket BY <1>1 DEF IsMap
<1>3. v \in Bucket BY <1>2 DEF Bucket
<1>4. r = MapUpdate(m, b, v) BY DEF LockBucket
<1> HIDE DEF v, r
<1>5. IsMap(r, Id, Bucket) /\ IsCoherent(r) /\ r.items = [m.items EXCEPT ![b] = v]
  BY <1>1, <1>3, <1>4, MapUpdateCoherent
<1>6. Locked(r) \subseteq Locked(m) \cup {b}
  BY <1>5 DEF Locked
<1> QED BY <1>5, <1>6 DEF IsGoodMap, IsInFlightMap, r

----------------------------------------------------------------------------
\* The lists that the handlers stage.

\* Finiteness and the keys that KeyAssumption provides.
LEMMA KeyFacts ==
    /\ \A S : S \subseteq Key => IsFiniteSet(S)
    /\ \A k \in Key : ~IsReserved(k) => LastKey(k) \in Key
    /\ \A k \in Key : IsDefault(k) => Tail(k) \in Key
<1>1. ASSUME NEW S, S \subseteq Key PROVE IsFiniteSet(S)
  BY <1>1, KeyAssumption, FS_Subset
<1> QED BY <1>1, KeyAssumption

\* Erase stages pairs without a value.
LEMMA ErasePairsType ==
    ASSUME NEW p, p \in Target \/ p = <<"*">>, NEW pairs \in ErasePairs(p)
    PROVE  pairs \in Seq(Pair)
<1> DEFINE S == ErasedKeys(Stored, p)
<1>1. S \subseteq Key
  <2>1. CASE IsWildcard(p)
    BY <2>1 DEF ErasedKeys, Stored
  <2>2. CASE ~IsWildcard(p)
    <3>1. IsWildcard(<<"*">>) BY DEF IsWildcard
    <3>2. p \in Key BY <2>2, <3>1, TargetAssumption
    <3> QED BY <2>2, <3>2 DEF ErasedKeys
  <2> QED BY <2>1, <2>2
<1> HIDE DEF S
<1>2. IsFiniteSet(S) BY <1>1, KeyFacts
<1>3. PICK keys \in SetToSeqs(S) :
          pairs = [i \in DOMAIN keys |-> [key |-> keys[i], value |-> Empty]]
  BY DEF ErasePairs, S
<1>4. keys \in Seq(S) BY <1>2, SetToSeqsType
<1>5. Len(keys) \in Nat /\ DOMAIN keys = 1..Len(keys) /\ keys \in [1..Len(keys) -> S]
  BY <1>4, LenProperties
<1>6. pairs \in [1..Len(keys) -> Pair]
  BY <1>1, <1>3, <1>5 DEF Pair, MaybeValue
<1> QED BY <1>5, <1>6, FunctionIsSeq

\* The key of a copy is in the "last." namespace.
LEMMA LastKeyIsLast ==
    ASSUME NEW k \in Key
    PROVE  IsLast(LastKey(k))
<1>1. k \in Seq(STRING) /\ k # <<>> BY KeyAssumption
<1>2. Len(k) \in Nat /\ Len(k) # 0 BY <1>1, LenProperties, EmptySeq
<1> DEFINE S == STRING \cup {"last"}
<1>3. <<"last">> \in Seq(S) /\ Len(<<"last">>) = 1 OBVIOUS
<1>4. /\ LastKey(k) \in Seq(S) /\ LastKey(k)[1] = "last"
      /\ Len(LastKey(k)) = Len(k) + 1
  <2>1. k \in Seq(S) BY <1>1, SeqMonotonic
  <2> QED BY <1>2, <1>3, <2>1 DEF LastKey
<1> DEFINE p == <<"last", "*">>
<1>5. p[1] = "last" /\ p[2] = "*" /\ Len(p) = 2 /\ DOMAIN p = 1..2 OBVIOUS
<1> HIDE DEF p
<1>6. \A i \in 1..2 : i = 1 \/ i = 2 OBVIOUS
<1>7. SubkeyMatches(LastKey(k), p)
  BY <1>2, <1>4, <1>5, <1>6 DEF SubkeyMatches
<1> QED BY <1>7 DEF IsLast, p

\* SaveLastItems stages pairs for "last." keys, and for nothing else.
LEMMA LastItemsType ==
    ASSUME TypeOK, NEW list \in Seq(Pair), NEW lasts \in LastItems(list)
    PROVE  /\ lasts \in Seq(Pair)
           /\ \A i \in DOMAIN lasts : IsLast(lasts[i].key)
<1> DEFINE S == {i \in DOMAIN list : ~IsReserved(list[i].key)}
<1>1. Len(list) \in Nat /\ DOMAIN list = 1..Len(list) /\ list \in [1..Len(list) -> Pair]
  BY LenProperties
<1>2. IsFiniteSet(S)
  <2>1. IsFiniteSet(1..Len(list)) BY <1>1, FS_Interval
  <2> QED BY <1>1, <2>1, FS_Subset
<1>3. PICK order \in InOrder(S) :
          lasts = [j \in DOMAIN order |-> [key   |-> LastKey(list[order[j]].key),
                                          value |-> values[list[order[j]].key]]]
  BY DEF LastItems
<1> HIDE DEF S
<1>4. order \in Seq(S) BY <1>2, <1>3, SetToSeqsType DEF InOrder
<1>5. Len(order) \in Nat /\ DOMAIN order = 1..Len(order) /\ order \in [1..Len(order) -> S]
  BY <1>4, LenProperties
<1>6. ASSUME NEW j \in 1..Len(order)
      PROVE  lasts[j] \in Pair /\ lasts[j].key = LastKey(list[order[j]].key)
  <2>1. order[j] \in S BY <1>5
  <2>2. list[order[j]] \in Pair /\ ~IsReserved(list[order[j]].key)
    BY <1>1, <2>1 DEF S
  <2>3. list[order[j]].key \in Key BY <2>2 DEF Pair
  <2>4. LastKey(list[order[j]].key) \in Key BY <2>2, <2>3, KeyFacts
  <2>5. values[list[order[j]].key] \in MaybeValue BY <2>3 DEF TypeOK
  <2> QED BY <1>3, <1>5, <2>4, <2>5 DEF Pair
<1>7. lasts \in [1..Len(order) -> Pair]
  BY <1>3, <1>5, <1>6
<1>8. lasts \in Seq(Pair)
  BY <1>5, <1>7, FunctionIsSeq
<1>9. ASSUME NEW j \in DOMAIN lasts PROVE IsLast(lasts[j].key)
  <2>1. j \in 1..Len(order) BY <1>3, <1>5
  <2>2. list[order[j]] \in Pair BY <1>1, <1>5, <2>1 DEF S
  <2>3. list[order[j]].key \in Key BY <2>2 DEF Pair
  <2> QED BY <1>6, <2>1, <2>3, LastKeyIsLast
<1> QED BY <1>8, <1>9

\* A rollback stages the old values of keys of the commit.
LEMMA RollbackPairsType ==
    ASSUME NEW commit, IsCommit(commit), NEW pairs \in RollbackPairs(commit)
    PROVE  pairs \in Seq(Pair)
<1> DEFINE S == RestoredKeys(commit)
<1>1. S \subseteq Keys(commit) /\ Keys(commit) \subseteq Key
  BY DEF RestoredKeys, IsCommit
<1>2. PICK keys \in SetToSeqs(S) :
          pairs = [j \in DOMAIN keys |-> [key   |-> keys[j],
                                          value |-> commit.deltas[keys[j]].old]]
  BY DEF RollbackPairs
<1> HIDE DEF S
<1>3. IsFiniteSet(S) BY <1>1, KeyFacts
<1>4. keys \in Seq(S) BY <1>3, SetToSeqsType
<1>5. Len(keys) \in Nat /\ DOMAIN keys = 1..Len(keys) /\ keys \in [1..Len(keys) -> S]
  BY <1>4, LenProperties
<1>6. ASSUME NEW j \in 1..Len(keys) PROVE pairs[j] \in Pair
  <2>1. keys[j] \in Keys(commit) /\ keys[j] \in Key BY <1>1, <1>5
  <2>2. commit.deltas[keys[j]] \in Delta BY <2>1 DEF IsCommit, Keys
  <2>3. commit.deltas[keys[j]].old \in MaybeValue BY <2>2 DEF Delta
  <2> QED BY <1>2, <1>5, <2>1, <2>3 DEF Pair
<1>7. pairs \in [1..Len(keys) -> Pair] BY <1>2, <1>5, <1>6
<1> QED BY <1>5, <1>7, FunctionIsSeq

\* A reset stages values of stored "default." keys under the rest of the key.
LEMMA StagedDefaultsType ==
    ASSUME TypeOK, NEW keys \in Seq(StoredDefaults)
    PROVE  StagedDefaults(keys) \in Seq(Pair)
<1>1. Len(keys) \in Nat /\ DOMAIN keys = 1..Len(keys)
  BY LenProperties
<1>2. ASSUME NEW j \in 1..Len(keys)
      PROVE  [key |-> Tail(keys[j]), value |-> values[keys[j]]] \in Pair
  <2>1. keys[j] \in StoredDefaults BY <1>1
  <2>2. keys[j] \in Key /\ IsDefault(keys[j]) BY <2>1 DEF StoredDefaults, Stored
  <2>3. Tail(keys[j]) \in Key BY <2>2, KeyFacts
  <2>4. values[keys[j]] \in MaybeValue BY <2>2 DEF TypeOK
  <2> QED BY <2>3, <2>4 DEF Pair
<1>3. StagedDefaults(keys) \in [1..Len(keys) -> Pair]
  BY <1>1, <1>2 DEF StagedDefaults
<1> QED BY <1>1, <1>3, FunctionIsSeq

\* An order of the stored defaults.
LEMMA DefaultOrder ==
    ASSUME NEW keys \in SetToSeqs(StoredDefaults)
    PROVE  keys \in Seq(StoredDefaults)
<1>1. StoredDefaults \subseteq Key BY DEF StoredDefaults, Stored
<1>2. IsFiniteSet(StoredDefaults) BY <1>1, KeyFacts
<1> QED BY <1>2, SetToSeqsType

\* A reset stages the erasures and then the defaults.
LEMMA ResetPairsType ==
    ASSUME TypeOK, NEW pairs \in ResetPairs
    PROVE  pairs \in Seq(Pair)
<1>1. PICK erased \in ErasePairs(<<"*">>), defaults \in DefaultPairs :
          pairs = erased \o defaults
  BY DEF ResetPairs
<1>2. erased \in Seq(Pair) BY ErasePairsType
<1>3. PICK keys \in SetToSeqs(StoredDefaults) : defaults = StagedDefaults(keys)
  BY DEF DefaultPairs
<1>4. defaults \in Seq(Pair) BY <1>3, DefaultOrder, StagedDefaultsType
<1> QED BY <1>1, <1>2, <1>4, ConcatProperties

----------------------------------------------------------------------------
\* The values that a commit computes.

\* The merged value of a key is a value.
LEMMA LastWriteType ==
    ASSUME NEW list \in Seq(Pair), NEW k, Touches(list, k)
    PROVE  LastWrite(list, k) \in MaybeValue /\ k \in Key
<1>1. PICK i \in DOMAIN list : /\ IsLastWrite(list, k, i)
                               /\ LastWrite(list, k) = list[i].value
  BY LastWriteExists
<1>2. list[i] \in Pair BY <1>1, LenProperties
<1> QED BY <1>1, <1>2 DEF Pair, IsLastWrite

\* The store stays a store.
LEMMA UpdateItemsType ==
    ASSUME NEW old \in [Key -> MaybeValue], NEW list \in Seq(Pair)
    PROVE  UpdateItems(old, list) \in [Key -> MaybeValue]
<1>1. ASSUME NEW k \in Key
      PROVE  (IF Touches(list, k) THEN LastWrite(list, k) ELSE old[k]) \in MaybeValue
  BY LastWriteType
<1> QED BY <1>1 DEF UpdateItems

\* Pairs appended to a list do not count for a key that they do not touch.
LEMMA UntouchedByTail ==
    ASSUME NEW list \in Seq(Pair), NEW more \in Seq(Pair), NEW k, ~Touches(more, k)
    PROVE  /\ Touches(list \o more, k) <=> Touches(list, k)
           /\ Touches(list, k) => LastWrite(list \o more, k) = LastWrite(list, k)
<1> DEFINE both == list \o more
<1>1. /\ both \in Seq(Pair) /\ Len(both) = Len(list) + Len(more)
      /\ Len(list) \in Nat /\ Len(more) \in Nat
      /\ DOMAIN list = 1..Len(list) /\ DOMAIN more = 1..Len(more)
      /\ DOMAIN both = 1..Len(both)
      /\ \A i \in 1..Len(both) :
            both[i] = IF i <= Len(list) THEN list[i] ELSE more[i - Len(list)]
  BY ConcatProperties, LenProperties
<1> HIDE DEF both
<1>2. ASSUME NEW i \in DOMAIN both, both[i].key = k
      PROVE  i \in DOMAIN list /\ both[i] = list[i]
  <2>1. CASE i <= Len(list)
    BY <1>1, <2>1
  <2>2. CASE ~(i <= Len(list))
    <3>1. i - Len(list) \in DOMAIN more /\ both[i] = more[i - Len(list)]
      BY <1>1, <2>2
    <3> QED BY <1>2, <3>1 DEF Touches
  <2> QED BY <2>1, <2>2
<1>3. ASSUME NEW i \in DOMAIN list
      PROVE  i \in DOMAIN both /\ both[i] = list[i]
  BY <1>1
<1>4. Touches(both, k) <=> Touches(list, k)
  BY <1>2, <1>3 DEF Touches
<1>5. ASSUME Touches(list, k) PROVE LastWrite(both, k) = LastWrite(list, k)
  <2>1. PICK i \in DOMAIN list : /\ IsLastWrite(list, k, i)
                                 /\ LastWrite(list, k) = list[i].value
    BY <1>5, LastWriteExists
  <2>2. PICK j \in DOMAIN both : /\ IsLastWrite(both, k, j)
                                 /\ LastWrite(both, k) = both[j].value
    BY <1>1, <1>4, <1>5, LastWriteExists
  <2>3. j \in DOMAIN list /\ both[j] = list[j] /\ list[j].key = k
    BY <1>2, <2>2 DEF IsLastWrite
  <2>4. j <= i BY <2>1, <2>3 DEF IsLastWrite
  <2>5. i <= j BY <1>3, <2>1, <2>2 DEF IsLastWrite
  <2>6. i = j BY <1>1, <2>1, <2>3, <2>4, <2>5
  <2> QED BY <2>1, <2>2, <2>3, <2>6
<1> QED BY <1>4, <1>5 DEF both

\* A key outside "last." gets what the list says, whatever SaveLastItems adds.
LEMMA UpdatedValue ==
    ASSUME TypeOK, NEW list \in Seq(Pair), NEW lasts \in LastItems(list),
           NEW k \in Key, ~IsLast(k)
    PROVE  UpdateItems(values, list \o lasts)[k] =
               IF Touches(list, k) THEN LastWrite(list, k) ELSE values[k]
<1>1. lasts \in Seq(Pair) /\ ~Touches(lasts, k)
  BY LastItemsType DEF Touches
<1>2. /\ Touches(list \o lasts, k) <=> Touches(list, k)
      /\ Touches(list, k) => LastWrite(list \o lasts, k) = LastWrite(list, k)
  BY <1>1, UntouchedByTail
<1> QED BY <1>2 DEF UpdateItems

\* Pairs appended to a list decide the value of a key that they touch.
LEMMA TouchedByTail ==
    ASSUME NEW list \in Seq(Pair), NEW more \in Seq(Pair), NEW k, Touches(more, k)
    PROVE  /\ Touches(list \o more, k)
           /\ LastWrite(list \o more, k) = LastWrite(more, k)
<1> DEFINE both == list \o more
<1>1. /\ both \in Seq(Pair) /\ Len(both) = Len(list) + Len(more)
      /\ Len(list) \in Nat /\ Len(more) \in Nat
      /\ DOMAIN list = 1..Len(list) /\ DOMAIN more = 1..Len(more)
      /\ DOMAIN both = 1..Len(both)
      /\ \A i \in 1..Len(both) :
            both[i] = IF i <= Len(list) THEN list[i] ELSE more[i - Len(list)]
  BY ConcatProperties, LenProperties
<1> HIDE DEF both
<1>2. ASSUME NEW i \in DOMAIN more
      PROVE  i + Len(list) \in DOMAIN both /\ both[i + Len(list)] = more[i]
  <2>1. i + Len(list) \in 1..Len(both) /\ ~(i + Len(list) <= Len(list))
        /\ i + Len(list) - Len(list) = i
    BY <1>1
  <2> QED BY <1>1, <2>1
<1>3. Touches(both, k) BY <1>2 DEF Touches
<1>4. PICK i \in DOMAIN more : /\ IsLastWrite(more, k, i)
                               /\ LastWrite(more, k) = more[i].value
  BY LastWriteExists
<1>5. PICK j \in DOMAIN both : /\ IsLastWrite(both, k, j)
                               /\ LastWrite(both, k) = both[j].value
  BY <1>1, <1>3, LastWriteExists
<1>6. i + Len(list) <= j /\ both[j].key = k BY <1>2, <1>4, <1>5 DEF IsLastWrite
<1>7. j - Len(list) \in DOMAIN more /\ both[j] = more[j - Len(list)]
  BY <1>1, <1>4, <1>5, <1>6
<1>8. j - Len(list) <= i BY <1>4, <1>6, <1>7 DEF IsLastWrite
<1>9. j - Len(list) = i BY <1>1, <1>4, <1>5, <1>6, <1>8
<1> QED BY <1>3, <1>4, <1>5, <1>7, <1>9 DEF both

\* Two keys with the same copy are the same key.
LEMMA LastKeyInjective ==
    ASSUME NEW j \in Key, NEW k \in Key, LastKey(j) = LastKey(k)
    PROVE  j = k
<1> DEFINE S == STRING \cup {"last"}
<1>1. j \in Seq(S) /\ k \in Seq(S) BY KeyAssumption, SeqMonotonic
<1>2. <<"last">> \in Seq(S) /\ Len(<<"last">>) = 1 OBVIOUS
<1>3. ASSUME NEW x \in Seq(S)
      PROVE  /\ Len(LastKey(x)) = Len(x) + 1 /\ Len(x) \in Nat
             /\ \A i \in 1..Len(x) : x[i] = LastKey(x)[i + 1]
  BY <1>2 DEF LastKey
<1>4. Len(j) = Len(k) BY <1>1, <1>3
<1>5. \A i \in 1..Len(j) : j[i] = k[i] BY <1>1, <1>3, <1>4
<1> QED BY <1>1, <1>4, <1>5, SeqEqual

\* SaveLastItems stages the stored value of every touched key outside the
\* reserved namespaces, and no other pair.
LEMMA LastItemsContents ==
    ASSUME TypeOK, NEW list \in Seq(Pair), NEW lasts \in LastItems(list)
    PROVE  /\ \A i \in DOMAIN lasts : \E k \in Key :
                 /\ ~IsReserved(k) /\ Touches(list, k)
                 /\ lasts[i].key = LastKey(k) /\ lasts[i].value = values[k]
           /\ \A k \in Key : ~IsReserved(k) /\ Touches(list, k) =>
                 Touches(lasts, LastKey(k))
<1> DEFINE S == {i \in DOMAIN list : ~IsReserved(list[i].key)}
<1>1. Len(list) \in Nat /\ DOMAIN list = 1..Len(list) /\ list \in [1..Len(list) -> Pair]
  BY LenProperties
<1>2. IsFiniteSet(S)
  <2>1. IsFiniteSet(1..Len(list)) BY <1>1, FS_Interval
  <2> QED BY <1>1, <2>1, FS_Subset
<1>3. PICK order \in InOrder(S) :
          lasts = [j \in DOMAIN order |-> [key   |-> LastKey(list[order[j]].key),
                                          value |-> values[list[order[j]].key]]]
  BY DEF LastItems
<1> HIDE DEF S
<1>4. /\ order \in Seq(S) /\ DOMAIN order = 1..Len(order)
      /\ \A x \in S : \E i \in DOMAIN order : order[i] = x
  BY <1>2, <1>3, Enumeration DEF InOrder
<1>5. ASSUME NEW i \in DOMAIN lasts
      PROVE  \E k \in Key : /\ ~IsReserved(k) /\ Touches(list, k)
                            /\ lasts[i].key = LastKey(k) /\ lasts[i].value = values[k]
  <2>1. i \in DOMAIN order /\ order[i] \in S
    <3>1. i \in DOMAIN order BY <1>3
    <3> QED BY <1>4, <3>1
  <2> DEFINE k == list[order[i]].key
  <2>2. order[i] \in DOMAIN list /\ ~IsReserved(k) BY <2>1 DEF S
  <2>3. k \in Key BY <1>1, <2>2 DEF Pair
  <2>4. Touches(list, k) BY <2>2 DEF Touches
  <2>5. lasts[i].key = LastKey(k) /\ lasts[i].value = values[k] BY <1>3, <2>1
  <2> QED BY <2>2, <2>3, <2>4, <2>5
<1>6. ASSUME NEW k \in Key, ~IsReserved(k), Touches(list, k)
      PROVE  Touches(lasts, LastKey(k))
  <2>1. PICK n \in DOMAIN list : list[n].key = k BY <1>6 DEF Touches
  <2>2. n \in S BY <1>6, <2>1 DEF S
  <2>3. PICK i \in DOMAIN order : order[i] = n BY <1>4, <2>2
  <2>4. i \in DOMAIN lasts /\ lasts[i].key = LastKey(k) BY <1>3, <2>1, <2>3
  <2> QED BY <2>4 DEF Touches
<1> QED BY <1>5, <1>6

\* The copy of a key that a commit writes is the value before the commit,
\* whatever the list says about the copy.
LEMMA UpdatedCopy ==
    ASSUME TypeOK, NEW list \in Seq(Pair), NEW lasts \in LastItems(list),
           NEW k \in Key, ~IsReserved(k), Touches(list, k)
    PROVE  UpdateItems(values, list \o lasts)[LastKey(k)] = values[k]
<1>1. lasts \in Seq(Pair) /\ Touches(lasts, LastKey(k)) /\ LastKey(k) \in Key
  BY LastItemsType, LastItemsContents, KeyFacts
<1>2. ASSUME NEW i \in DOMAIN lasts, lasts[i].key = LastKey(k)
      PROVE  lasts[i].value = values[k]
  BY <1>2, LastItemsContents, LastKeyInjective
<1>3. LastWrite(lasts, LastKey(k)) = values[k]
  <2>1. PICK i \in DOMAIN lasts : /\ IsLastWrite(lasts, LastKey(k), i)
                                  /\ LastWrite(lasts, LastKey(k)) = lasts[i].value
    BY <1>1, LastWriteExists
  <2> QED BY <1>2, <2>1 DEF IsLastWrite
<1> QED BY <1>1, <1>3, TouchedByTail DEF UpdateItems

----------------------------------------------------------------------------
\* The history.

\* Dropping excessive commits forgets the d oldest ones and never all of them.
LEMMA DropExcessiveShape ==
    ASSUME NEW S, NEW h \in Seq(S)
    PROVE  \E d \in 0..Len(h) :
              /\ DropExcessiveCommits(h) \in Seq(S)
              /\ Len(DropExcessiveCommits(h)) = Len(h) - d
              /\ Len(DropExcessiveCommits(h)) <= MaxStorage
              /\ Len(h) > 0 => d < Len(h)
              /\ \A i \in 1..Len(h) - d : DropExcessiveCommits(h)[i] = h[i + d]
<1>1. Len(h) \in Nat /\ \A i \in 1..Len(h) : h[i] \in S OBVIOUS
<1>2. MaxStorage \in Nat /\ MaxStorage >= 1 BY MaxStorageAssumption
<1>3. CASE Len(h) <= MaxStorage
  <2>1. DropExcessiveCommits(h) = h BY <1>1, <1>2, <1>3 DEF DropExcessiveCommits
  <2>2. 0 \in 0..Len(h) /\ \A i \in 1..Len(h) - 0 : h[i] = h[i + 0] BY <1>1
  <2> QED BY <1>1, <1>3, <2>1, <2>2
<1>4. CASE Len(h) > MaxStorage
  <2> DEFINE d == Len(h) - MaxStorage
             q == SubSeq(h, d + 1, Len(h))
  <2>1. /\ d \in 0..Len(h) /\ d < Len(h) /\ d + 1 \in Int /\ Len(h) \in Int
        /\ d + 1 <= Len(h) /\ Len(h) - d = MaxStorage
    BY <1>1, <1>2, <1>4
  <2>2. DropExcessiveCommits(h) = q BY <1>1, <1>2, <1>4 DEF DropExcessiveCommits
  <2>3. \A i \in d + 1..Len(h) : h[i] \in S BY <1>1, <2>1
  <2> HIDE DEF d
  <2>4. /\ q \in Seq(S) /\ Len(q) = Len(h) - (d + 1) + 1
        /\ \A i \in 1..Len(h) - (d + 1) + 1 : q[i] = h[d + 1 + i - 1]
    BY <2>1, <2>3, SubSeqProperties
  <2> HIDE DEF q
  <2>5. Len(q) = Len(h) - d BY <1>1, <2>1, <2>4
  <2>6. ASSUME NEW i \in 1..Len(h) - d PROVE q[i] = h[i + d]
    <3>1. i \in 1..Len(h) - (d + 1) + 1 /\ d + 1 + i - 1 = i + d BY <1>1, <2>1
    <3> QED BY <2>4, <3>1
  <2> QED BY <1>2, <2>1, <2>2, <2>4, <2>5, <2>6
<1> QED BY <1>1, <1>2, <1>3, <1>4

\* Logging appends the commit and forgets the d oldest ones, so that no more
\* than MaxStorage are left.
LEMMA LogCommitShape ==
    ASSUME NEW S, NEW h \in Seq(S), NEW commit \in S
    PROVE  \E d \in 0..Len(h) :
              /\ LogCommit(h, commit) \in Seq(S)
              /\ Len(LogCommit(h, commit)) = Len(h) + 1 - d
              /\ Len(LogCommit(h, commit)) <= MaxStorage
              /\ \A i \in 1..Len(h) + 1 - d :
                    LogCommit(h, commit)[i] =
                        IF i + d <= Len(h) THEN h[i + d] ELSE commit
<1> DEFINE a == Append(h, commit)
<1>1. /\ a \in Seq(S) /\ Len(a) = Len(h) + 1 /\ Len(h) \in Nat
      /\ \A i \in 1..Len(h) : a[i] = h[i]
      /\ a[Len(h) + 1] = commit
  OBVIOUS
<1>2. LogCommit(h, commit) = DropExcessiveCommits(a) BY DEF LogCommit
<1> HIDE DEF a
<1>3. PICK d \in 0..Len(a) :
              /\ DropExcessiveCommits(a) \in Seq(S)
              /\ Len(DropExcessiveCommits(a)) = Len(a) - d
              /\ Len(DropExcessiveCommits(a)) <= MaxStorage
              /\ Len(a) > 0 => d < Len(a)
              /\ \A i \in 1..Len(a) - d : DropExcessiveCommits(a)[i] = a[i + d]
  <2>1. a \in Seq(S) BY <1>1
  <2> QED BY ONLY <2>1, DropExcessiveShape
<1>4. d \in 0..Len(h) BY <1>1, <1>3
<1>5. ASSUME NEW i \in 1..Len(h) + 1 - d
      PROVE  LogCommit(h, commit)[i] = IF i + d <= Len(h) THEN h[i + d] ELSE commit
  <2>1. LogCommit(h, commit)[i] = a[i + d] BY <1>1, <1>2, <1>3
  <2>2. CASE i + d <= Len(h)
    <3>1. i + d \in 1..Len(h) BY <1>1, <1>4, <2>2
    <3> QED BY <1>1, <2>1, <2>2, <3>1
  <2>3. CASE ~(i + d <= Len(h))
    <3>1. i + d = Len(h) + 1 BY <1>1, <1>4, <2>3
    <3> QED BY <1>1, <2>1, <2>3, <3>1
  <2> QED BY <2>2, <2>3
<1> QED BY <1>1, <1>2, <1>3, <1>4, <1>5

\* A sequence is a sequence over its own range.
LEMMA SeqOverRange ==
    ASSUME NEW S, NEW h \in Seq(S)
    PROVE  h \in Seq(Range(h)) /\ Range(h) \subseteq S
<1>1. Len(h) \in Nat /\ DOMAIN h = 1..Len(h) /\ h \in [1..Len(h) -> S]
  BY LenProperties
<1>2. h \in [1..Len(h) -> Range(h)] BY <1>1 DEF Range
<1> QED BY <1>1, <1>2, FunctionIsSeq DEF Range

============================================================================
