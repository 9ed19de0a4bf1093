------------------------- MODULE HookManagerProofs -------------------------
(***************************************************************************)
(* The hooks of a commit run in their order and none is left out, for      *)
(* every hook table, every number of parallel hooks and any number of runs *)
(* that overtake one another.                                              *)
(*                                                                         *)
(* First what the pipeline of a run looks like, then how a run goes on to  *)
(* its next stages, then the invariant of all the runs.                    *)
(***************************************************************************)
EXTENDS HookManager, FiniteSetTheorems, SequenceTheorems,
        WellFoundedInduction, TLAPS

----------------------------------------------------------------------------
(* Numbers, finite sets and enumerations *)

\* Every non-empty set of naturals has a smallest element.
LEMMA LeastExists ==
    ASSUME NEW T \in SUBSET Nat, T # {}
    PROVE  \E d \in T : \A e \in T : d <= e
<1> DEFINE R == {p \in Nat \X Nat : p[1] < p[2]}
<1>1. IsWellFoundedOn(R, Nat)
  BY NatLessThanWellFounded, Zenon DEF OpToRel
<1> HIDE DEF R
<1>2. PICK d \in T : \A e \in T : ~(<<e, d>> \in R)
  BY <1>1, WFMin
<1>3. ASSUME NEW e \in T PROVE d <= e
  <2>1. <<e, d>> \in Nat \X Nat /\ ~(<<e, d>> \in R) BY <1>2
  <2> QED BY <2>1 DEF R
<1> QED BY <1>2, <1>3

\* The values of a function on a finite set are finitely many.
LEMMA FiniteValues ==
    ASSUME NEW S, IsFiniteSet(S), NEW f
    PROVE  IsFiniteSet({f[x] : x \in S})
<1> DEFINE T == {f[x] : x \in S}
           g == [x \in S |-> f[x]]
<1>1. g \in Surjection(S, T)
  BY DEF Surjection
<1> QED BY <1>1, FS_Surjection

\* An enumeration of a finite set meets every element exactly once.
LEMMA Enumeration ==
    ASSUME NEW S, IsFiniteSet(S), NEW s \in SetToSeqs(S)
    PROVE  /\ s \in Seq(S) /\ Len(s) = Cardinality(S) /\ Len(s) \in Nat
           /\ DOMAIN s = 1..Len(s)
           /\ \A x \in S : \E i \in DOMAIN s : s[i] = x
           /\ \A i, j \in DOMAIN s : s[i] = s[j] => i = j
<1> DEFINE n == Cardinality(S)
<1>1. n \in Nat
  BY FS_CardinalityType
<1>2. s \in [1..n -> S] /\ \A i, j \in 1..n : i # j => s[i] # s[j]
  BY DEF SetToSeqs
<1>3. IsFiniteSet(1..n) /\ Cardinality(1..n) = n
  BY <1>1, FS_Interval
<1>4. s \in Injection(1..n, S)
  BY <1>2 DEF Injection, IsInjective
<1>5. s \in Surjection(1..n, S)
  BY <1>3, <1>4, FS_Injection
<1>6. \A x \in S : \E i \in 1..n : s[i] = x
  BY <1>5 DEF Surjection
<1>7. s \in Seq(S) /\ Len(s) = n
  BY <1>1, <1>2, SeqDef, LenProperties
<1> QED BY <1>1, <1>2, <1>6, <1>7

\* n things in groups of p: thing number m is in a group that exists, also
\* when the last one is not full.
LEMMA GroupExists ==
    ASSUME NEW p \in Nat \ {0}, NEW n \in Nat, NEW m \in 1..n
    PROVE  /\ (n \div p) + (n % p) \in Nat
           /\ ((m - 1) \div p) + 1 \in 1..(n \div p) + (n % p)
<1> DEFINE q == n \div p
           r == n % p
           k == (m - 1) \div p
           l == (m - 1) % p
<1>1. q \in Nat /\ r \in 0..p - 1 /\ n = p * q + r
  OBVIOUS
<1>2. k \in Nat /\ l \in 0..p - 1 /\ m - 1 = p * k + l
  OBVIOUS
<1> HIDE DEF q, r, k, l
<1>3. k + 1 <= q + r
  <2>1. CASE r = 0
    <3> SUFFICES ASSUME q <= k PROVE FALSE
      BY <1>1, <1>2, <2>1
    <3>1. p * q <= p * k BY <1>1, <1>2
    <3> QED BY <1>1, <1>2, <2>1, <3>1
  <2>2. CASE r # 0
    <3> SUFFICES ASSUME q + 1 <= k PROVE FALSE
      BY <1>1, <1>2, <2>2
    <3>1. p * (q + 1) <= p * k BY <1>1, <1>2
    <3>2. p * (q + 1) = p * q + p BY <1>1
    <3> QED BY <1>1, <1>2, <3>1, <3>2
  <2> QED BY <2>1, <2>2
<1> QED BY <1>1, <1>2, <1>3 DEF q, r, k

----------------------------------------------------------------------------
(* The chunks of one rank *)

\* SplitSubprocessesAcrossCores leaves no process out and takes none twice.
LEMMA SplitIsPartition ==
    ASSUME NEW S, IsFiniteSet(S), NEW order \in SetToSeqs(S)
    PROVE  LET chunks == SplitSubprocessesAcrossCores(order)
           IN  /\ \E n \in Nat : DOMAIN chunks = 1..n
               /\ \A i \in DOMAIN chunks : chunks[i] \subseteq S
               /\ \A x \in S : \E i \in DOMAIN chunks : x \in chunks[i]
               /\ \A i, j \in DOMAIN chunks : \A x :
                     x \in chunks[i] /\ x \in chunks[j] => i = j
<1> DEFINE n == Len(order)
           count == (n \div ParallelHooks) + (n % ParallelHooks)
           chunks == SplitSubprocessesAcrossCores(order)
<1>1. /\ order \in Seq(S) /\ n \in Nat /\ DOMAIN order = 1..n
      /\ \A x \in S : \E i \in DOMAIN order : order[i] = x
      /\ \A i, j \in DOMAIN order : order[i] = order[j] => i = j
  BY Enumeration
<1>2. ParallelHooks \in Nat \ {0}
  BY HookAssumption
<1>3. count \in Nat
  BY <1>1, <1>2
<1>4. chunks = [i \in 1..count |->
                  {order[j] : j \in {m \in DOMAIN order :
                                        (m - 1) \div ParallelHooks = i - 1}}]
  BY DEF SplitSubprocessesAcrossCores, Chunks
<1> HIDE DEF chunks, count, n
<1>5. \A i \in DOMAIN chunks : chunks[i] \subseteq S
  BY <1>1, <1>4
<1>6. ASSUME NEW x \in S PROVE \E i \in DOMAIN chunks : x \in chunks[i]
  <2>1. PICK m \in 1..n : order[m] = x BY <1>1
  <2> DEFINE i == ((m - 1) \div ParallelHooks) + 1
  <2>2. i \in 1..count
    BY <1>1, <1>2, <2>1, GroupExists DEF count
  <2>3. (m - 1) \div ParallelHooks = i - 1
    BY <1>1, <1>2, <2>1
  <2> HIDE DEF i
  <2> QED BY <1>1, <1>4, <2>1, <2>2, <2>3
<1>7. ASSUME NEW i \in DOMAIN chunks, NEW j \in DOMAIN chunks, NEW x,
             x \in chunks[i], x \in chunks[j]
      PROVE  i = j
  <2>1. PICK m \in DOMAIN order : order[m] = x /\ (m - 1) \div ParallelHooks = i - 1
    BY <1>4, <1>7
  <2>2. PICK k \in DOMAIN order : order[k] = x /\ (k - 1) \div ParallelHooks = j - 1
    BY <1>4, <1>7
  <2>3. m = k BY <1>1, <2>1, <2>2
  <2>4. i \in Int /\ j \in Int BY <1>3, <1>4
  <2>5. i - 1 = j - 1 BY <2>1, <2>2, <2>3
  <2> QED BY <2>4, <2>5
<1> QED BY <1>3, <1>4, <1>5, <1>6, <1>7 DEF chunks

----------------------------------------------------------------------------
(* The stages of a pipeline *)

\* Every hook of the pipeline is in exactly one stage, and in an earlier one
\* than the hooks of a higher rank.
WellStaged(hooks, stages) ==
    /\ hooks \in SUBSET Hook
    /\ stages \in Seq(SUBSET Hook)
    /\ \A h \in hooks : \E i \in DOMAIN stages : h \in stages[i]
    /\ \A i \in DOMAIN stages : stages[i] \subseteq hooks
    /\ \A i, j \in DOMAIN stages : \A h :
          h \in stages[i] /\ h \in stages[j] => i = j
    /\ \A i, j \in DOMAIN stages : \A g \in stages[i], h \in stages[j] :
          Rank(g) < Rank(h) => i < j

\* Ranks are natural numbers.
LEMMA RankType == \A h \in Hook : Rank(h) \in Nat
BY HookAssumption DEF Rank

HooksOfRank(hooks, r) == {h \in hooks : Rank(h) = r}

\* The orders of a set of hooks enumerate the hooks of each of their ranks.
LEMMA OrdersFacts ==
    ASSUME NEW hooks \in SUBSET Hook, NEW orders \in Orders(hooks)
    PROVE  /\ DOMAIN orders = {Rank(h) : h \in hooks}
           /\ DOMAIN orders \subseteq Nat
           /\ IsFiniteSet(DOMAIN orders)
           /\ \A r \in DOMAIN orders :
                 /\ IsFiniteSet(HooksOfRank(hooks, r))
                 /\ orders[r] \in SetToSeqs(HooksOfRank(hooks, r))
<1> DEFINE ranks == {Rank(h) : h \in hooks}
<1>1. DOMAIN orders = ranks
      /\ \A r \in ranks : orders[r] \in SetToSeqs({h \in hooks : Rank(h) = r})
  BY DEF Orders
<1>2. IsFiniteSet(hooks)
  BY HookAssumption, FS_Subset
<1>3. IsFiniteSet(ranks)
  <2> DEFINE f == [h \in hooks |-> Rank(h)]
  <2>1. IsFiniteSet({f[h] : h \in hooks}) BY <1>2, FiniteValues
  <2>2. {f[h] : h \in hooks} = ranks OBVIOUS
  <2> QED BY <2>1, <2>2
<1>4. ranks \subseteq Nat
  BY RankType
<1>5. \A r : IsFiniteSet(HooksOfRank(hooks, r))
  BY <1>2, FS_Subset DEF HooksOfRank
<1> QED BY <1>1, <1>3, <1>4, <1>5 DEF HooksOfRank

\* The slots are finitely many pairs of numbers.
LEMMA SlotsFacts ==
    ASSUME NEW hooks \in SUBSET Hook, NEW orders \in Orders(hooks)
    PROVE  /\ Slots(orders) \subseteq Nat \X Nat
           /\ IsFiniteSet(Slots(orders))
           /\ Cardinality(Slots(orders)) \in Nat
           /\ \A t \in Slots(orders) :
                 /\ t[1] \in DOMAIN orders
                 /\ t[2] \in DOMAIN SplitSubprocessesAcrossCores(orders[t[1]])
           /\ \A r \in DOMAIN orders :
                 \A i \in DOMAIN SplitSubprocessesAcrossCores(orders[r]) :
                     <<r, i>> \in Slots(orders)
<1> DEFINE D(r) == DOMAIN SplitSubprocessesAcrossCores(orders[r])
           f == [r \in DOMAIN orders |-> {r} \X D(r)]
<1>1. /\ DOMAIN orders \subseteq Nat /\ IsFiniteSet(DOMAIN orders)
      /\ \A r \in DOMAIN orders :
            /\ IsFiniteSet(HooksOfRank(hooks, r))
            /\ orders[r] \in SetToSeqs(HooksOfRank(hooks, r))
  BY OrdersFacts
<1>2. \A r \in DOMAIN orders : \E n \in Nat : D(r) = 1..n
  BY <1>1, SplitIsPartition
<1>3. Slots(orders) = UNION {{r} \X D(r) : r \in DOMAIN orders}
  BY DEF Slots
<1> HIDE DEF D
<1>4. \A r \in DOMAIN orders : IsFiniteSet(f[r])
  <2> TAKE r \in DOMAIN orders
  <2>1. PICK n \in Nat : D(r) = 1..n BY <1>2
  <2>2. IsFiniteSet(D(r)) BY <2>1, FS_Interval
  <2>3. IsFiniteSet({r}) BY FS_Singleton
  <2> QED BY <2>2, <2>3, FS_Product
<1>5. Slots(orders) = UNION {f[r] : r \in DOMAIN orders}
  BY <1>3
<1>6. IsFiniteSet({f[r] : r \in DOMAIN orders})
  <2> HIDE DEF f
  <2> QED BY <1>1, FiniteValues
<1>7. IsFiniteSet(Slots(orders))
  <2> HIDE DEF f
  <2>1. \A T \in {f[r] : r \in DOMAIN orders} : IsFiniteSet(T) BY <1>4
  <2> QED BY <1>5, <1>6, <2>1, FS_UNION
<1>8. ASSUME NEW t \in Slots(orders)
      PROVE  t \in Nat \X Nat /\ t[1] \in DOMAIN orders /\ t[2] \in D(t[1])
  <2>1. PICK r \in DOMAIN orders : t \in {r} \X D(r) BY <1>3
  <2>2. PICK n \in Nat : D(r) = 1..n BY <1>2
  <2>3. t = <<r, t[2]>> /\ t[1] = r /\ t[2] \in D(r) BY <2>1
  <2> QED BY <1>1, <2>2, <2>3
<1>9. \A r \in DOMAIN orders : \A i \in D(r) : <<r, i>> \in Slots(orders)
  BY <1>3
<1>10. Cardinality(Slots(orders)) \in Nat
  BY <1>7, FS_CardinalityType
<1> QED BY <1>7, <1>8, <1>9, <1>10 DEF D

\* The place of a slot is a position of the pipeline, and of two slots the one
\* that comes first has the smaller place.
LEMMA PlaceFacts ==
    ASSUME NEW hooks \in SUBSET Hook, NEW orders \in Orders(hooks)
    PROVE  /\ \A t \in Slots(orders) :
                 Place(orders, t) \in 1..Cardinality(Slots(orders))
           /\ \A s, t \in Slots(orders) :
                 s # t /\ AtOrBefore(s, t) => Place(orders, s) < Place(orders, t)
           /\ \A s, t \in Slots(orders) :
                 Place(orders, s) = Place(orders, t) => s = t
<1> DEFINE slots == Slots(orders)
           upTo(t) == {s \in slots : AtOrBefore(s, t)}
<1>1. slots \subseteq Nat \X Nat /\ IsFiniteSet(slots)
  BY SlotsFacts
<1>2. \A t \in slots : /\ IsFiniteSet(upTo(t))
                       /\ Cardinality(upTo(t)) \in Nat
                       /\ Cardinality(upTo(t)) <= Cardinality(slots)
  BY <1>1, FS_Subset, FS_CardinalityType
<1>3. \A t \in slots : t \in upTo(t) /\ Cardinality(upTo(t)) # 0
  <2> TAKE t \in slots
  <2>1. t \in upTo(t) BY <1>1 DEF AtOrBefore
  <2> QED BY <1>2, <2>1, FS_EmptySet
<1>4. \A t \in slots : Place(orders, t) = Cardinality(upTo(t))
  BY DEF Place
<1>5. Cardinality(slots) \in Nat
  BY <1>1, FS_CardinalityType
<1>6. ASSUME NEW s \in slots, NEW t \in slots, s # t, AtOrBefore(s, t)
      PROVE  Cardinality(upTo(s)) < Cardinality(upTo(t))
  <2>1. s \in Nat \X Nat /\ t \in Nat \X Nat BY <1>1
  <2>2. upTo(s) \subseteq upTo(t)
    BY <1>1, <1>6 DEF AtOrBefore
  <2>3. t \notin upTo(s)
    <3> SUFFICES ASSUME AtOrBefore(t, s) PROVE FALSE
      OBVIOUS
    <3>1. s[1] = t[1] /\ s[2] = t[2] BY <2>1, <1>6 DEF AtOrBefore
    <3> QED BY <2>1, <3>1, <1>6
  <2>4. upTo(s) # upTo(t) BY <1>3, <2>3
  <2>5. /\ Cardinality(upTo(s)) <= Cardinality(upTo(t))
        /\ Cardinality(upTo(s)) # Cardinality(upTo(t))
    BY <1>2, <2>2, <2>4, FS_Subset
  <2> QED BY <1>2, <2>5
<1>7. \A s, t \in slots : AtOrBefore(s, t) \/ AtOrBefore(t, s)
  BY <1>1 DEF AtOrBefore
<1> HIDE DEF upTo
<1>8. ASSUME NEW s \in slots, NEW t \in slots, Place(orders, s) = Place(orders, t)
      PROVE  s = t
  <2>1. Cardinality(upTo(s)) = Cardinality(upTo(t)) BY <1>4, <1>8
  <2>2. ~(Cardinality(upTo(s)) < Cardinality(upTo(t)))
        /\ ~(Cardinality(upTo(t)) < Cardinality(upTo(s)))
    BY <1>2, <2>1
  <2> QED BY <1>6, <1>7, <2>2
<1>9. \A t \in slots : Place(orders, t) \in 1..Cardinality(slots)
  BY <1>2, <1>3, <1>4, <1>5
<1> QED BY <1>4, <1>6, <1>8, <1>9

\* The pipelines that RunHooks takes are well staged.
LEMMA PipelinesAreWellStaged ==
    ASSUME NEW pipeline \in HookPipelines
    PROVE  WellStaged(pipeline.hooks, pipeline.stages)
<1>0. PICK hooks \in SUBSET Hook :
         pipeline \in {[hooks |-> hooks, stages |-> Pipeline(orders)] :
                          orders \in Orders(hooks)}
  BY DEF HookPipelines
<1>1. PICK orders \in Orders(hooks) :
         pipeline = [hooks |-> hooks, stages |-> Pipeline(orders)]
  BY <1>0
<1> DEFINE stages == Pipeline(orders)
           slots == Slots(orders)
           n == Cardinality(slots)
<1> SUFFICES WellStaged(hooks, stages)
  BY <1>1
<1>2. /\ DOMAIN orders = {Rank(h) : h \in hooks}
      /\ \A r \in DOMAIN orders :
            /\ IsFiniteSet(HooksOfRank(hooks, r))
            /\ orders[r] \in SetToSeqs(HooksOfRank(hooks, r))
  BY OrdersFacts
<1>3. /\ slots \subseteq Nat \X Nat /\ n \in Nat
      /\ \A t \in slots :
            /\ t[1] \in DOMAIN orders
            /\ t[2] \in DOMAIN SplitSubprocessesAcrossCores(orders[t[1]])
      /\ \A r \in DOMAIN orders :
            \A i \in DOMAIN SplitSubprocessesAcrossCores(orders[r]) :
                <<r, i>> \in slots
  BY SlotsFacts
<1>4. /\ \A t \in slots : Place(orders, t) \in 1..n
      /\ \A s, t \in slots :
            s # t /\ AtOrBefore(s, t) => Place(orders, s) < Place(orders, t)
      /\ \A s, t \in slots : Place(orders, s) = Place(orders, t) => s = t
  BY PlaceFacts
<1>5. stages = [m \in 1..n |->
                  UNION {Chunk(orders, t) : t \in {u \in slots :
                                                      Place(orders, u) = m}}]
  BY DEF Pipeline
<1>6. \A t \in slots : Chunk(orders, t) \subseteq HooksOfRank(hooks, t[1])
  <2> TAKE t \in slots
  <2> DEFINE r == t[1]
  <2>1. r \in DOMAIN orders
        /\ t[2] \in DOMAIN SplitSubprocessesAcrossCores(orders[r])
    BY <1>3
  <2> HIDE DEF r
  <2>2. SplitSubprocessesAcrossCores(orders[r])[t[2]] \subseteq HooksOfRank(hooks, r)
    BY <1>2, <2>1, SplitIsPartition
  <2> QED BY <2>2 DEF Chunk, r
<1>7. ASSUME NEW h \in hooks PROVE \E t \in slots : h \in Chunk(orders, t)
  <2> DEFINE r == Rank(h)
  <2>1. r \in DOMAIN orders /\ h \in HooksOfRank(hooks, r)
    BY <1>2 DEF HooksOfRank
  <2> HIDE DEF r
  <2>2. PICK i \in DOMAIN SplitSubprocessesAcrossCores(orders[r]) :
           h \in SplitSubprocessesAcrossCores(orders[r])[i]
    BY <1>2, <2>1, SplitIsPartition
  <2>3. <<r, i>> \in slots BY <1>3, <2>1
  <2>4. h \in Chunk(orders, <<r, i>>) BY <2>2 DEF Chunk
  <2> QED BY <2>3, <2>4
<1>8. ASSUME NEW s \in slots, NEW t \in slots, NEW h,
             h \in Chunk(orders, s), h \in Chunk(orders, t)
      PROVE  s = t
  <2> DEFINE r == s[1]
  <2>1. s[1] = Rank(h) /\ t[1] = Rank(h)
    BY <1>6, <1>8 DEF HooksOfRank
  <2>2. /\ r \in DOMAIN orders
        /\ s[2] \in DOMAIN SplitSubprocessesAcrossCores(orders[r])
        /\ t[2] \in DOMAIN SplitSubprocessesAcrossCores(orders[r])
        /\ h \in SplitSubprocessesAcrossCores(orders[r])[s[2]]
        /\ h \in SplitSubprocessesAcrossCores(orders[r])[t[2]]
    BY <1>3, <1>8, <2>1 DEF Chunk
  <2> HIDE DEF r
  <2>3. s[2] = t[2] BY <1>2, <2>2, SplitIsPartition
  <2>4. s \in Nat \X Nat /\ t \in Nat \X Nat BY <1>3
  <2> QED BY <2>1, <2>3, <2>4
<1> HIDE DEF stages, slots, n
<1>9. ASSUME NEW i \in DOMAIN stages, NEW h \in stages[i]
      PROVE  \E t \in slots : Place(orders, t) = i /\ h \in Chunk(orders, t)
  BY <1>5
<1>10. ASSUME NEW h \in hooks PROVE \E i \in DOMAIN stages : h \in stages[i]
  <2>1. PICK t \in slots : h \in Chunk(orders, t) BY <1>7
  <2>2. Place(orders, t) \in 1..n BY <1>4
  <2> QED BY <1>5, <2>1, <2>2
<1>11. \A i \in DOMAIN stages : stages[i] \subseteq hooks
  BY <1>6, <1>9 DEF HooksOfRank
<1>12. stages \in Seq(SUBSET Hook)
  <2>1. stages \in [1..n -> SUBSET Hook] BY <1>5, <1>11
  <2> QED BY <1>3, <2>1, SeqDef
<1>13. ASSUME NEW i \in DOMAIN stages, NEW j \in DOMAIN stages, NEW h,
              h \in stages[i], h \in stages[j]
       PROVE  i = j
  BY <1>8, <1>9, <1>13
<1>14. ASSUME NEW i \in DOMAIN stages, NEW j \in DOMAIN stages,
              NEW g \in stages[i], NEW h \in stages[j], Rank(g) < Rank(h)
       PROVE  i < j
  <2>1. PICK s \in slots : Place(orders, s) = i /\ g \in Chunk(orders, s)
    BY <1>9
  <2>2. PICK t \in slots : Place(orders, t) = j /\ h \in Chunk(orders, t)
    BY <1>9
  <2>3. s[1] = Rank(g) /\ t[1] = Rank(h)
    BY <1>6, <2>1, <2>2 DEF HooksOfRank
  <2>4. g \in Hook /\ h \in Hook BY <1>11
  <2>5. s # t /\ AtOrBefore(s, t)
    BY <1>14, <2>3, <2>4, RankType DEF AtOrBefore
  <2> QED BY <1>4, <2>1, <2>2, <2>5
<1> QED BY <1>10, <1>11, <1>12, <1>13, <1>14 DEF WellStaged

----------------------------------------------------------------------------
(* How a run goes on *)

\* What holds of every run: the stages before its position have succeeded, it
\* waits only for hooks of the stage at its position, and its status says
\* whether that stage can still come to its end.
IsGoodRun(run) ==
    /\ run \in Run
    /\ WellStaged(run.hooks, run.stages)
    /\ run.pos \in 1..Len(run.stages) + 1
    /\ \A i \in DOMAIN run.stages : i < run.pos => run.stages[i] \subseteq run.done
    /\ run.done \subseteq Reached(run)
    /\ \A h \in run.waiting :
          /\ run.pos \in DOMAIN run.stages
          /\ h \in run.stages[run.pos]
          /\ h \notin run.done
          /\ ~IsDetached(h)
    /\ run.status = "running" =>
          /\ run.pos \in DOMAIN run.stages
          /\ run.stages[run.pos] \subseteq run.waiting \cup run.done
          /\ run.waiting # {}
    /\ run.status = "ok" => run.pos = Len(run.stages) + 1

\* A run whose last stage has succeeded, or that has not begun.
IsResumable(run) ==
    /\ run \in Run
    /\ WellStaged(run.hooks, run.stages)
    /\ run.pos \in 0..Len(run.stages)
    /\ \A i \in DOMAIN run.stages : i <= run.pos => run.stages[i] \subseteq run.done
    /\ run.done \subseteq Reached(run)
    /\ run.waiting = {}
    /\ run.status = "running"

\* There is a next stage that does not end at once, or the pipeline ends.
LEMMA NextStopExists ==
    ASSUME NEW run, run.stages \in Seq(SUBSET Hook),
           run.pos \in 0..Len(run.stages), NEW stored
    PROVE  LET stop == NextStop(run, stored)
           IN  /\ stop \in run.pos + 1..Len(run.stages) + 1
               /\ \A j \in run.pos + 1..stop - 1 : EndsAtOnce(run.stages[j], stored)
               /\ stop \in DOMAIN run.stages => ~EndsAtOnce(run.stages[stop], stored)
<1> DEFINE n == Len(run.stages)
           T == {i \in run.pos + 1..n + 1 :
                    i \in DOMAIN run.stages => ~EndsAtOnce(run.stages[i], stored)}
<1>1. n \in Nat /\ DOMAIN run.stages = 1..n /\ run.pos \in 0..n
  BY LenProperties
<1>2. n + 1 \in T
  BY <1>1
<1>3. T \in SUBSET Nat
  BY <1>1
<1> HIDE DEF T
<1>4. PICK i \in T : \A e \in T : i <= e
  BY <1>2, <1>3, LeastExists
<1>5. i \in run.pos + 1..n + 1
      /\ (i \in DOMAIN run.stages => ~EndsAtOnce(run.stages[i], stored))
  BY <1>4 DEF T
<1>6. ASSUME NEW j \in run.pos + 1..i - 1
      PROVE  EndsAtOnce(run.stages[j], stored)
  <2>1. j \in Nat /\ j < i /\ j \in run.pos + 1..n + 1
    BY <1>1, <1>5
  <2>2. j \notin T BY <1>1, <1>4, <1>5, <2>1
  <2> QED BY <2>1, <2>2 DEF T
<1> HIDE DEF n
<1>7. \E k \in run.pos + 1..n + 1 :
         /\ \A j \in run.pos + 1..k - 1 : EndsAtOnce(run.stages[j], stored)
         /\ k \in DOMAIN run.stages => ~EndsAtOnce(run.stages[k], stored)
  BY <1>5, <1>6
<1> QED BY <1>7 DEF NextStop, n

\* What is launched are hooks of the run that it has not come to before; they
\* are detached, or the run now waits for them.
LEMMA ResumedFacts ==
    ASSUME NEW run, IsResumable(run), NEW stored
    PROVE  LET next == Resumed(run, stored)
               launched == Launched(run, stored)
           IN  /\ IsGoodRun(next)
               /\ launched \subseteq Hook
               /\ next.waiting = {h \in launched : ~IsDetached(h)}
<1> DEFINE stop == NextStop(run, stored)
           launched == Launched(run, stored)
           next == Resumed(run, stored)
           n == Len(run.stages)
           stage == IF stop \in DOMAIN run.stages THEN run.stages[stop] ELSE {}
<1>1. /\ run \in Run /\ WellStaged(run.hooks, run.stages)
      /\ run.stages \in Seq(SUBSET Hook) /\ run.hooks \in SUBSET Hook
      /\ n \in Nat /\ DOMAIN run.stages = 1..n /\ run.pos \in 0..n
  BY LenProperties DEF IsResumable, WellStaged
<1>2. /\ stop \in run.pos + 1..n + 1
      /\ \A j \in run.pos + 1..stop - 1 : EndsAtOnce(run.stages[j], stored)
      /\ stop \in DOMAIN run.stages => ~EndsAtOnce(run.stages[stop], stored)
  BY <1>1, NextStopExists
<1>3. launched = {h \in UNION {run.stages[i] : i \in DOMAIN run.stages
                                                 \cap run.pos + 1..stop} :
                     FulfillHooks(h, stored)}
  BY DEF Launched
<1>4. next = [run EXCEPT
                !.pos = stop,
                !.waiting = {h \in stage \cap launched : ~IsDetached(h)},
                !.done = @ \cup {h \in launched : IsDetached(h)},
                !.status = IF stop = n + 1 THEN "ok"
                           ELSE IF stage \subseteq launched THEN "running"
                           ELSE "failed"]
  BY DEF Resumed
<1> HIDE DEF stop, launched, next, n
<1>5. launched \subseteq Hook
  BY <1>1, <1>3
<1>6. stage \subseteq Hook
  BY <1>1
<1>7. /\ next.hooks = run.hooks /\ next.stages = run.stages
      /\ next.pos = stop
      /\ next.waiting = {h \in stage \cap launched : ~IsDetached(h)}
      /\ next.done = run.done \cup {h \in launched : IsDetached(h)}
      /\ next.status = IF stop = n + 1 THEN "ok"
                       ELSE IF stage \subseteq launched THEN "running"
                       ELSE "failed"
  BY <1>1, <1>4 DEF Run
<1>8. next \in Run
  <2>1. /\ stop \in Nat
        /\ {h \in stage \cap launched : ~IsDetached(h)} \in SUBSET Hook
        /\ run.done \cup {h \in launched : IsDetached(h)} \in SUBSET Hook
    BY <1>1, <1>2, <1>5 DEF Run
  <2>2. (IF stop = n + 1 THEN "ok"
         ELSE IF stage \subseteq launched THEN "running" ELSE "failed") \in Status
    BY DEF Status
  <2> HIDE DEF stage
  <2> QED BY <1>1, <1>4, <2>1, <2>2 DEF Run
\* The stages that were passed end at once, so that all their hooks are done.
<1>9. ASSUME NEW j \in 1..n, run.pos < j, j < stop
      PROVE  \A h \in run.stages[j] : h \in launched /\ IsDetached(h)
  <2>1. j \in run.pos + 1..stop - 1 /\ j \in DOMAIN run.stages \cap run.pos + 1..stop
    BY <1>1, <1>2, <1>9
  <2>2. \A h \in run.stages[j] : IsDetached(h) /\ FulfillHooks(h, stored)
    BY <1>2, <2>1 DEF EndsAtOnce
  <2> QED BY <1>3, <2>1, <2>2
<1>10. \A i \in DOMAIN next.stages : i < next.pos => next.stages[i] \subseteq next.done
  <2> SUFFICES ASSUME NEW i \in 1..n, i < stop
               PROVE  run.stages[i] \subseteq next.done
    BY <1>1, <1>7
  <2>1. CASE i <= run.pos
    BY <1>1, <1>7, <2>1 DEF IsResumable
  <2>2. CASE run.pos < i
    BY <1>7, <1>9, <2>2
  <2> QED BY <1>1, <2>1, <2>2
<1>11. ASSUME NEW h \in launched
       PROVE  \E i \in 1..n : run.pos < i /\ i <= stop /\ h \in run.stages[i]
  <2>1. PICK i \in DOMAIN run.stages \cap run.pos + 1..stop : h \in run.stages[i]
    BY <1>3
  <2> QED BY <1>1, <1>2, <2>1
<1>12. next.done \subseteq Reached(next)
  <2>1. Reached(run) \subseteq Reached(next)
    BY <1>1, <1>2, <1>7 DEF Reached
  <2>2. ASSUME NEW h \in launched PROVE h \in Reached(next)
    <3>1. PICK i \in 1..n : run.pos < i /\ i <= stop /\ h \in run.stages[i]
      BY <1>11
    <3>2. i \in DOMAIN next.stages \cap 1..next.pos
      BY <1>1, <1>2, <1>7, <3>1
    <3> QED BY <1>7, <3>1, <3>2 DEF Reached
  <2> QED BY <1>7, <2>1, <2>2 DEF IsResumable
\* No hook of a stage beyond the position of the run was done before.
<1>13. ASSUME NEW i \in 1..n, run.pos < i, NEW h \in run.stages[i]
       PROVE  h \notin run.done
  <2> SUFFICES ASSUME h \in run.done PROVE FALSE
    OBVIOUS
  <2>1. PICK j \in DOMAIN run.stages \cap 1..run.pos : h \in run.stages[j]
    BY DEF IsResumable, Reached
  <2>2. i = j BY <1>1, <1>13, <2>1 DEF WellStaged
  <2> QED BY <1>1, <1>13, <2>1, <2>2
<1>14. ASSUME NEW h \in next.waiting
       PROVE  /\ stop \in DOMAIN run.stages /\ h \in run.stages[stop]
              /\ h \notin next.done /\ ~IsDetached(h)
  <2>1. stop \in DOMAIN run.stages /\ h \in run.stages[stop] /\ ~IsDetached(h)
    BY <1>7, <1>14
  <2>2. h \notin run.done BY <1>1, <1>2, <1>13, <2>1
  <2> QED BY <1>7, <2>1, <2>2
<1>15. next.waiting = {h \in launched : ~IsDetached(h)}
  <2> SUFFICES ASSUME NEW h \in launched, ~IsDetached(h) PROVE h \in stage
    BY <1>7
  <2>1. PICK i \in 1..n : run.pos < i /\ i <= stop /\ h \in run.stages[i]
    BY <1>11
  <2>2. ~(i < stop) BY <1>9, <2>1
  <2>3. i = stop BY <1>1, <1>2, <2>1, <2>2
  <2> QED BY <1>1, <2>1, <2>3
<1>16. ASSUME next.status = "running"
       PROVE  /\ stop \in DOMAIN run.stages
              /\ run.stages[stop] \subseteq next.waiting \cup next.done
              /\ next.waiting # {}
  <2>1. stop # n + 1 /\ stage \subseteq launched
    BY <1>7, <1>16
  <2>2. stop \in DOMAIN run.stages
    BY <1>1, <1>2, <2>1
  <2>3. stage = run.stages[stop]
    BY <2>2
  <2>4. run.stages[stop] \subseteq next.waiting \cup next.done
    BY <1>7, <2>1, <2>3
  <2>5. PICK h \in run.stages[stop] : ~(IsDetached(h) /\ FulfillHooks(h, stored))
    BY <1>2, <2>2 DEF EndsAtOnce
  <2>6. h \in launched /\ FulfillHooks(h, stored)
    BY <1>3, <2>1, <2>3
  <2>7. h \in next.waiting
    BY <1>15, <2>5, <2>6
  <2> QED BY <2>2, <2>4, <2>7
<1>17. next.status = "ok" => next.pos = n + 1
  BY <1>7
<1>18. next.pos \in 1..n + 1
  BY <1>1, <1>2, <1>7
<1>19. IsGoodRun(next)
  BY <1>1, <1>7, <1>8, <1>10, <1>12, <1>14, <1>16, <1>17, <1>18 DEF IsGoodRun, n
<1> QED BY <1>5, <1>15, <1>19 DEF launched, next

\* A new run can be resumed.
LEMMA NewRunResumable ==
    ASSUME NEW hooks, NEW stages, WellStaged(hooks, stages)
    PROVE  IsResumable(NewRun(hooks, stages))
<1> DEFINE run == NewRun(hooks, stages)
<1>1. /\ run.hooks = hooks /\ run.stages = stages /\ run.pos = 0
      /\ run.waiting = {} /\ run.done = {} /\ run.status = "running"
      /\ run \in Run
  BY DEF NewRun, Run, Status, WellStaged
<1>2. Len(stages) \in Nat /\ DOMAIN stages = 1..Len(stages)
  BY LenProperties DEF WellStaged
<1> HIDE DEF run
<1> QED BY <1>1, <1>2 DEF IsResumable, run

\* A hook that ends well leaves its run good when the run goes on waiting or
\* is over already, and resumable when it was the last of its stage.
LEMMA EndedFacts ==
    ASSUME NEW run, IsGoodRun(run), NEW h \in run.waiting
    PROVE  LET next == Ended(run, h)
           IN  /\ next.status = run.status /\ next.pos = run.pos
               /\ next.waiting = run.waiting \ {h}
               /\ ~(next.status = "running" /\ next.waiting = {}) => IsGoodRun(next)
               /\ next.status = "running" /\ next.waiting = {} => IsResumable(next)
<1> DEFINE next == Ended(run, h)
<1>1. run \in Run /\ h \in Hook /\ run.stages \in Seq(SUBSET Hook)
  BY DEF IsGoodRun, Run
<1>2. Len(run.stages) \in Nat /\ DOMAIN run.stages = 1..Len(run.stages)
  BY <1>1, LenProperties
<1>3. /\ next \in Run
      /\ next.hooks = run.hooks /\ next.stages = run.stages /\ next.pos = run.pos
      /\ next.status = run.status
      /\ next.waiting = run.waiting \ {h} /\ next.done = run.done \cup {h}
  BY <1>1 DEF Ended, Run
<1> HIDE DEF next
<1>4. run.pos \in DOMAIN run.stages /\ h \in run.stages[run.pos]
  BY DEF IsGoodRun
<1>5. next.done \subseteq Reached(next)
  <2>1. Reached(next) = Reached(run) BY <1>3 DEF Reached
  <2>2. h \in Reached(run) BY <1>2, <1>4 DEF Reached
  <2> QED BY <1>3, <2>1, <2>2 DEF IsGoodRun
<1>6. ASSUME ~(next.status = "running" /\ next.waiting = {})
      PROVE  IsGoodRun(next)
  BY <1>3, <1>5, <1>6 DEF IsGoodRun
<1>7. ASSUME next.status = "running", next.waiting = {}
      PROVE  IsResumable(next)
  <2>1. run.stages[run.pos] \subseteq next.done
    BY <1>3, <1>7 DEF IsGoodRun
  <2>2. \A i \in DOMAIN run.stages : i <= run.pos => run.stages[i] \subseteq next.done
    <3> TAKE i \in DOMAIN run.stages
    <3>1. CASE i = run.pos BY <2>1, <3>1
    <3>2. CASE i < run.pos BY <1>3, <3>2 DEF IsGoodRun
    <3> QED BY <1>2, <1>4, <3>1, <3>2
  <2>3. run.pos \in 0..Len(run.stages) BY <1>2, <1>4
  <2> QED BY <1>3, <1>5, <1>7, <2>2, <2>3 DEF IsGoodRun, IsResumable
<1> QED BY <1>3, <1>6, <1>7 DEF next

\* A hook that fails ends its run, if it was not over already.
LEMMA FailedFacts ==
    ASSUME NEW run, IsGoodRun(run), NEW h \in run.waiting
    PROVE  LET next == Failed(run, h)
           IN  /\ IsGoodRun(next)
               /\ next.status # "running" /\ next.pos = run.pos
               /\ run.status # "running" => next.status = run.status
               /\ next.waiting = run.waiting \ {h}
<1> DEFINE next == Failed(run, h)
<1>1. run \in Run /\ run.status \in Status
  BY DEF IsGoodRun, Run
<1>2. next = [run EXCEPT !.waiting = run.waiting \ {h},
                         !.status = IF run.status = "running" THEN "failed"
                                    ELSE run.status]
  BY DEF Failed
<1>3. (IF run.status = "running" THEN "failed" ELSE run.status) \in Status \ {"running"}
  BY <1>1 DEF Status
<1> HIDE DEF next
<1>4. /\ next \in Run
      /\ next.hooks = run.hooks /\ next.stages = run.stages /\ next.pos = run.pos
      /\ next.status = IF run.status = "running" THEN "failed" ELSE run.status
      /\ next.waiting = run.waiting \ {h} /\ next.done = run.done
  BY <1>1, <1>2, <1>3 DEF Run
<1>5. next.done \subseteq Reached(next)
  BY <1>4 DEF IsGoodRun, Reached
<1>6. next.status # "running" /\ (run.status # "running" => next.status = run.status)
      /\ (next.status = "ok" => run.status = "ok")
  BY <1>3, <1>4
<1>7. IsGoodRun(next)
  BY <1>4, <1>5, <1>6 DEF IsGoodRun
<1> QED BY <1>4, <1>6, <1>7 DEF next

\* A run whose promise is broken is over.
LEMMA BrokenFacts ==
    ASSUME NEW run, IsGoodRun(run)
    PROVE  LET next == [run EXCEPT !.status = "broken"]
           IN  /\ IsGoodRun(next)
               /\ next.status = "broken" /\ next.waiting = run.waiting
<1> DEFINE next == [run EXCEPT !.status = "broken"]
<1>1. run \in Run
  BY DEF IsGoodRun
<1>2. /\ next \in Run
      /\ next.hooks = run.hooks /\ next.stages = run.stages /\ next.pos = run.pos
      /\ next.status = "broken"
      /\ next.waiting = run.waiting /\ next.done = run.done
  BY <1>1 DEF Run, Status
<1> HIDE DEF next
<1>3. next.done \subseteq Reached(next)
  BY <1>2 DEF IsGoodRun, Reached
<1>4. IsGoodRun(next)
  BY <1>2, <1>3 DEF IsGoodRun
<1> QED BY <1>2, <1>4 DEF next

----------------------------------------------------------------------------
(* All the runs *)

\* The process of a runner belongs to a run that waits for it.
HeldIsWaitedFor(rs, held) ==
    \A h \in Hook : held[h] # 0 => h \in rs[held[h]].waiting

\* A run that is not over waits only for processes that were started for it.
WaitsForItsOwn(rs, held, r) ==
    rs[r].status = "running" => \A h \in rs[r].waiting : held[h] = r

HooksInv ==
    /\ runs \in Seq(Run)
    /\ Len(runs) <= MaxRuns
    /\ subproc \in [Hook -> 0..Len(runs)]
    /\ \A r \in DOMAIN runs : IsGoodRun(runs[r])
    /\ HeldIsWaitedFor(runs, subproc)
    /\ \A r \in DOMAIN runs : WaitsForItsOwn(runs, subproc, r)

\* Resuming run r of rs: whatever it launches, the other runs stay good, and
\* those that lose a process are over.
LEMMA ResumeInv ==
    ASSUME NEW rs \in Seq(Run), Len(rs) <= MaxRuns,
           NEW r \in DOMAIN rs, NEW run, IsResumable(run), NEW stored,
           NEW held \in [Hook -> 0..Len(rs)],
           \A j \in DOMAIN rs : j # r => /\ IsGoodRun(rs[j])
                                         /\ WaitsForItsOwn(rs, held, j),
           \A h \in Hook : held[h] # r,
           HeldIsWaitedFor(rs, held),
           Resume(rs, r, run, held, stored)
    PROVE  /\ HooksInv'
           /\ Len(runs') = Len(rs)
           /\ \A j \in DOMAIN rs : j # r /\ rs[j].status # "running" =>
                 runs'[j] = rs[j]
<1> DEFINE launched == Launched(run, stored)
           next == Resumed(run, stored)
           n == Len(rs)
<1>1. n \in Nat /\ DOMAIN rs = 1..n /\ r \in 1..n
  BY LenProperties
<1>2. IsGoodRun(next) /\ launched \subseteq Hook
      /\ next.waiting = {h \in launched : ~IsDetached(h)}
  BY ResumedFacts
<1>3. /\ runs' = [BreakPromises(rs, launched) EXCEPT ![r] = next]
      /\ subproc' = [h \in Hook |-> IF h \notin launched THEN held[h]
                                    ELSE IF IsDetached(h) THEN 0 ELSE r]
  BY DEF Resume
<1> HIDE DEF launched, next, n
<1>4. /\ DOMAIN runs' = 1..n
      /\ runs'[r] = next
      /\ \A j \in 1..n : j # r =>
            runs'[j] = IF rs[j].status = "running" /\ rs[j].waiting \cap launched # {}
                       THEN [rs[j] EXCEPT !.status = "broken"]
                       ELSE rs[j]
  BY <1>1, <1>3 DEF BreakPromises
<1>5. ASSUME NEW j \in 1..n, j # r
      PROVE  /\ IsGoodRun(runs'[j])
             /\ runs'[j].waiting = rs[j].waiting
             /\ rs[j].status # "running" => runs'[j] = rs[j]
             /\ runs'[j].status = "running" =>
                   rs[j].status = "running" /\ rs[j].waiting \cap launched = {}
  <2>1. IsGoodRun(rs[j]) BY <1>1, <1>5
  <2>2. CASE rs[j].status = "running" /\ rs[j].waiting \cap launched # {}
    <3>1. runs'[j] = [rs[j] EXCEPT !.status = "broken"] BY <1>4, <1>5, <2>2
    <3>2. /\ IsGoodRun(runs'[j]) /\ runs'[j].status = "broken"
          /\ runs'[j].waiting = rs[j].waiting
      BY <2>1, <3>1, BrokenFacts
    <3> QED BY <2>2, <3>2
  <2>3. CASE ~(rs[j].status = "running" /\ rs[j].waiting \cap launched # {})
    BY <1>4, <1>5, <2>1, <2>3
  <2> QED BY <2>2, <2>3
<1>6. \A j \in 1..n : IsGoodRun(runs'[j]) /\ runs'[j] \in Run
  BY <1>2, <1>4, <1>5 DEF IsGoodRun
<1>7. runs' \in Seq(Run) /\ Len(runs') = n /\ Len(runs') <= MaxRuns
  <2>1. runs' \in [1..n -> Run]
    <3>1. runs' = [j \in 1..n |-> runs'[j]] BY <1>3, <1>4 DEF BreakPromises
    <3> QED BY <1>6, <3>1
  <2> QED BY <1>1, <2>1, SeqDef, LenProperties DEF n
<1>8. subproc' \in [Hook -> 0..n]
  BY <1>1, <1>3 DEF n
<1>9. HeldIsWaitedFor(runs', subproc')
  <2> SUFFICES ASSUME NEW h \in Hook, subproc'[h] # 0
               PROVE  h \in runs'[subproc'[h]].waiting
    BY DEF HeldIsWaitedFor
  <2>1. CASE h \in launched
    <3>1. subproc'[h] = r /\ ~IsDetached(h) BY <1>3, <2>1
    <3> QED BY <1>2, <1>4, <2>1, <3>1
  <2>2. CASE h \notin launched
    <3>1. subproc'[h] = held[h] BY <1>3, <2>2
    <3>2. held[h] \in 1..n /\ held[h] # r BY <1>1, <3>1 DEF n
    <3>3. h \in rs[held[h]].waiting BY <3>1 DEF HeldIsWaitedFor
    <3> QED BY <1>5, <3>1, <3>2, <3>3
  <2> QED BY <2>1, <2>2
<1>10. ASSUME NEW j \in 1..n, runs'[j].status = "running",
              NEW h \in runs'[j].waiting
       PROVE  subproc'[h] = j
  <2>1. h \in Hook BY <1>6 DEF Run
  <2>2. CASE j = r
    <3>1. h \in launched /\ ~IsDetached(h) BY <1>2, <1>4, <1>10, <2>2
    <3> QED BY <1>3, <2>1, <2>2, <3>1
  <2>3. CASE j # r
    <3>1. rs[j].status = "running" /\ h \in rs[j].waiting /\ h \notin launched
      BY <1>5, <1>10, <2>3
    <3>2. held[h] = j BY <1>1, <2>3, <3>1 DEF WaitsForItsOwn
    <3> QED BY <1>3, <2>1, <3>1, <3>2
  <2> QED BY <2>2, <2>3
<1>11. \A j \in DOMAIN runs' : WaitsForItsOwn(runs', subproc', j)
  BY <1>4, <1>10 DEF WaitsForItsOwn
<1>12. HooksInv'
  BY <1>4, <1>6, <1>7, <1>8, <1>9, <1>11 DEF HooksInv
<1> QED BY <1>1, <1>5, <1>7, <1>12 DEF n

\* What one step may do to the runs: the invariant holds again, and a run that
\* is over keeps its outcome and its position.
KeepsOver ==
    \A r \in DOMAIN runs : runs[r].status # "running" =>
        /\ runs'[r].status = runs[r].status
        /\ runs'[r].pos = runs[r].pos

\* The invariant of the hooks holds before any run.
LEMMA InitHooksInv == Init => HooksInv
<1> SUFFICES ASSUME Init PROVE HooksInv
  OBVIOUS
<1>1. runs = <<>> /\ subproc = [h \in Hook |-> 0]
  BY DEF Init
<1>2. runs \in Seq(Run) /\ Len(runs) = 0 /\ DOMAIN runs = {}
  BY <1>1, EmptySeq
<1> QED BY <1>1, <1>2, HookAssumption DEF HooksInv, HeldIsWaitedFor, WaitsForItsOwn

\* HandleCommit, FireHooks and TriggerHook.
LEMMA RunHooksInv ==
    ASSUME HooksInv, NEW hooks, NEW stored, RunHooks(hooks, stored)
    PROVE  HooksInv' /\ KeepsOver
<1>1. PICK pipeline \in HookPipelines :
         /\ pipeline.hooks = hooks
         /\ LET run == NewRun(hooks, pipeline.stages)
            IN  Resume(Append(runs, run), Len(runs) + 1, run, subproc, stored)
  BY DEF RunHooks
<1> DEFINE run == NewRun(hooks, pipeline.stages)
           rs == Append(runs, run)
           r == Len(runs) + 1
<1>2. IsResumable(run)
  BY <1>1, PipelinesAreWellStaged, NewRunResumable
<1>3. Resume(rs, r, run, subproc, stored)
  BY <1>1
<1> HIDE DEF run
<1>4. run \in Run BY <1>2 DEF IsResumable
<1>5. /\ runs \in Seq(Run) /\ Len(runs) \in Nat /\ DOMAIN runs = 1..Len(runs)
      /\ Len(runs) < MaxRuns
  BY LenProperties DEF HooksInv, RunHooks
<1>6. /\ rs \in Seq(Run) /\ Len(rs) = Len(runs) + 1 /\ DOMAIN rs = 1..Len(runs) + 1
      /\ rs[r] = run
      /\ \A j \in 1..Len(runs) : rs[j] = runs[j]
  BY <1>4, <1>5, AppendProperties, LenProperties
<1>7. Len(rs) <= MaxRuns /\ r \in DOMAIN rs
  BY <1>5, <1>6, HookAssumption
<1>8. subproc \in [Hook -> 0..Len(rs)] /\ \A h \in Hook : subproc[h] # r
  BY <1>5, <1>6 DEF HooksInv
<1> HIDE DEF rs
<1>9. ASSUME NEW j \in DOMAIN rs, j # r
      PROVE  IsGoodRun(rs[j]) /\ WaitsForItsOwn(rs, subproc, j)
  <2>1. j \in 1..Len(runs) /\ rs[j] = runs[j] BY <1>5, <1>6, <1>9
  <2> QED BY <1>5, <2>1 DEF HooksInv, WaitsForItsOwn
<1>10. HeldIsWaitedFor(rs, subproc)
  <2> SUFFICES ASSUME NEW h \in Hook, subproc[h] # 0
               PROVE  h \in rs[subproc[h]].waiting
    BY DEF HeldIsWaitedFor
  <2>1. subproc[h] \in 1..Len(runs) BY <1>5 DEF HooksInv
  <2>2. h \in runs[subproc[h]].waiting BY DEF HooksInv, HeldIsWaitedFor
  <2> QED BY <1>6, <2>1, <2>2
<1> HIDE DEF r
<1>11. /\ HooksInv'
       /\ \A j \in DOMAIN rs : j # r /\ rs[j].status # "running" =>
             runs'[j] = rs[j]
  BY <1>2, <1>3, <1>6, <1>7, <1>8, <1>9, <1>10, ResumeInv
<1>12. KeepsOver
  <2> SUFFICES ASSUME NEW j \in DOMAIN runs, runs[j].status # "running"
               PROVE  runs'[j] = runs[j]
    BY DEF KeepsOver
  <2>1. j \in DOMAIN rs /\ j # r /\ rs[j] = runs[j]
    BY <1>5, <1>6 DEF r
  <2> QED BY <1>11, <2>1
<1> QED BY <1>11, <1>12

\* A process that ended is no longer held, whatever its run does next.
LEMMA ReleasedFacts ==
    ASSUME HooksInv, NEW h \in Hook, subproc[h] # 0
    PROVE  /\ subproc[h] \in DOMAIN runs
           /\ IsGoodRun(runs[subproc[h]])
           /\ h \in runs[subproc[h]].waiting
           /\ Released(h) \in [Hook -> 0..Len(runs)]
           /\ \A g \in Hook : Released(h)[g] = IF g = h THEN 0 ELSE subproc[g]
<1>1. subproc \in [Hook -> 0..Len(runs)] /\ runs \in Seq(Run)
  BY DEF HooksInv
<1>2. Len(runs) \in Nat /\ DOMAIN runs = 1..Len(runs)
  BY <1>1, LenProperties
<1>3. subproc[h] \in DOMAIN runs
  BY <1>1, <1>2
<1> QED BY <1>1, <1>2, <1>3 DEF HooksInv, HeldIsWaitedFor, Released

\* The run of a process that ended goes on without being resumed.
LEMMA ReplaceRunInv ==
    ASSUME HooksInv, NEW h \in Hook, subproc[h] # 0, NEW next,
           IsGoodRun(next),
           next.waiting = runs[subproc[h]].waiting \ {h},
           next.pos = runs[subproc[h]].pos,
           next.status = "running" => runs[subproc[h]].status = "running",
           runs[subproc[h]].status # "running" =>
               next.status = runs[subproc[h]].status,
           runs' = [runs EXCEPT ![subproc[h]] = next],
           subproc' = Released(h)
    PROVE  HooksInv' /\ KeepsOver
<1> DEFINE r == subproc[h]
<1>1. /\ runs \in Seq(Run) /\ Len(runs) \in Nat /\ DOMAIN runs = 1..Len(runs)
      /\ Len(runs) <= MaxRuns
  BY LenProperties DEF HooksInv
<1>2. /\ r \in DOMAIN runs /\ IsGoodRun(runs[r])
      /\ Released(h) \in [Hook -> 0..Len(runs)]
      /\ \A g \in Hook : Released(h)[g] = IF g = h THEN 0 ELSE subproc[g]
  BY ReleasedFacts
<1>3. next \in Run BY DEF IsGoodRun
<1>4. /\ runs' \in Seq(Run) /\ Len(runs') = Len(runs) /\ DOMAIN runs' = 1..Len(runs)
      /\ runs'[r] = next /\ \A j \in DOMAIN runs : j # r => runs'[j] = runs[j]
  <2>1. runs' = [runs EXCEPT ![r] = next] OBVIOUS
  <2> HIDE DEF r
  <2>2. runs' \in Seq(Run) /\ Len(runs') = Len(runs)
    <3>1. r \in 1..Len(runs) BY <1>1, <1>2
    <3>2. /\ [runs EXCEPT ![r] = next] \in Seq(Run)
          /\ Len([runs EXCEPT ![r] = next]) = Len(runs)
      BY <1>1, <1>3, <3>1, ExceptSeq
    <3> QED BY <2>1, <3>2
  <2>3. DOMAIN runs' = 1..Len(runs)
    BY <2>2, LenProperties
  <2>4. runs'[r] = next /\ \A j \in DOMAIN runs : j # r => runs'[j] = runs[j]
    BY <1>1, <1>2, <2>1
  <2> QED BY <2>2, <2>3, <2>4
<1>5. \A j \in DOMAIN runs' : IsGoodRun(runs'[j])
  BY <1>1, <1>4 DEF HooksInv
<1>6. HeldIsWaitedFor(runs', subproc')
  <2> SUFFICES ASSUME NEW g \in Hook, subproc'[g] # 0
               PROVE  g \in runs'[subproc'[g]].waiting
    BY DEF HeldIsWaitedFor
  <2>1. g # h /\ subproc'[g] = subproc[g] BY <1>2
  <2>2. subproc[g] \in DOMAIN runs /\ g \in runs[subproc[g]].waiting
    BY <2>1, ReleasedFacts
  <2>3. CASE subproc[g] = r BY <1>4, <2>1, <2>2, <2>3
  <2>4. CASE subproc[g] # r BY <1>4, <2>1, <2>2, <2>4
  <2> QED BY <2>3, <2>4
<1>7. ASSUME NEW j \in DOMAIN runs' PROVE WaitsForItsOwn(runs', subproc', j)
  <2> SUFFICES ASSUME runs'[j].status = "running", NEW g \in runs'[j].waiting
               PROVE  subproc'[g] = j
    BY DEF WaitsForItsOwn
  <2>1. j \in DOMAIN runs BY <1>1, <1>4
  <2>2. runs[j].status = "running" /\ g \in runs[j].waiting /\ (j = r => g # h)
    <3>1. CASE j = r BY <1>4, <3>1
    <3>2. CASE j # r BY <1>4, <2>1, <3>2
    <3> QED BY <3>1, <3>2
  <2>3. subproc[g] = j /\ g \in Hook
    BY <2>1, <2>2 DEF HooksInv, WaitsForItsOwn, IsGoodRun, Run
  <2>4. g # h BY <2>2, <2>3
  <2> QED BY <1>2, <2>3, <2>4
<1>8. HooksInv'
  BY <1>1, <1>2, <1>4, <1>5, <1>6, <1>7 DEF HooksInv
<1>9. KeepsOver
  <2> SUFFICES ASSUME NEW j \in DOMAIN runs, runs[j].status # "running"
               PROVE  runs'[j].status = runs[j].status /\ runs'[j].pos = runs[j].pos
    BY DEF KeepsOver
  <2>1. CASE j = r BY <1>4, <2>1
  <2>2. CASE j # r BY <1>4, <2>2
  <2> QED BY <2>1, <2>2
<1> QED BY <1>8, <1>9

\* The end of a hook's process keeps the invariant, and no run that is over is taken up again.
LEMMA ProcessEndsInv ==
    ASSUME HooksInv, NEW h \in Hook, NEW exitedWell \in BOOLEAN, NEW stored,
           ProcessEnds(h, exitedWell, stored)
    PROVE  HooksInv' /\ KeepsOver
<1> DEFINE r == subproc[h]
           run == Ended(runs[r], h)
<1>1. r # 0
  BY DEF ProcessEnds
<1>2. /\ r \in DOMAIN runs /\ IsGoodRun(runs[r]) /\ h \in runs[r].waiting
      /\ Released(h) \in [Hook -> 0..Len(runs)]
      /\ \A g \in Hook : Released(h)[g] = IF g = h THEN 0 ELSE subproc[g]
  BY <1>1, ReleasedFacts
<1>3. CASE HookFails(h)
  <2>1. runs' = [runs EXCEPT ![r] = Failed(runs[r], h)] /\ subproc' = Released(h)
    BY <1>2, <1>3 DEF HookFails
  <2>2. /\ IsGoodRun(Failed(runs[r], h))
        /\ Failed(runs[r], h).status # "running"
        /\ Failed(runs[r], h).pos = runs[r].pos
        /\ runs[r].status # "running" =>
              Failed(runs[r], h).status = runs[r].status
        /\ Failed(runs[r], h).waiting = runs[r].waiting \ {h}
    BY <1>2, FailedFacts
  <2> QED BY <1>1, <2>1, <2>2, ReplaceRunInv
<1>4. CASE HookSucceeds(h, stored)
  <2>1. /\ run.status = runs[r].status /\ run.pos = runs[r].pos
        /\ run.waiting = runs[r].waiting \ {h}
        /\ ~(run.status = "running" /\ run.waiting = {}) => IsGoodRun(run)
        /\ run.status = "running" /\ run.waiting = {} => IsResumable(run)
    BY <1>2, EndedFacts
  <2>2. IF run.status = "running" /\ run.waiting = {}
        THEN Resume(runs, r, run, Released(h), stored)
        ELSE /\ runs' = [runs EXCEPT ![r] = run]
             /\ subproc' = Released(h)
    BY <1>4 DEF HookSucceeds
  <2> HIDE DEF run
  <2>3. CASE ~(run.status = "running" /\ run.waiting = {})
    BY <1>1, <2>1, <2>2, <2>3, ReplaceRunInv
  <2>4. CASE run.status = "running" /\ run.waiting = {}
    <3>1. IsResumable(run) /\ Resume(runs, r, run, Released(h), stored)
          /\ runs[r].status = "running" /\ runs[r].waiting \subseteq {h}
      BY <2>1, <2>2, <2>4
    <3>2. runs \in Seq(Run) /\ Len(runs) <= MaxRuns
      BY DEF HooksInv
    <3>3. \A g \in Hook : Released(h)[g] # r
      <4> SUFFICES ASSUME NEW g \in Hook, Released(h)[g] = r PROVE FALSE
        OBVIOUS
      <4>1. g # h /\ subproc[g] = r BY <1>1, <1>2
      <4>2. g \in runs[r].waiting
        BY <1>1, <4>1 DEF HooksInv, HeldIsWaitedFor
      <4> QED BY <3>1, <4>1, <4>2
    <3>4. HeldIsWaitedFor(runs, Released(h))
      <4> SUFFICES ASSUME NEW g \in Hook, Released(h)[g] # 0
                   PROVE  g \in runs[Released(h)[g]].waiting
        BY DEF HeldIsWaitedFor
      <4>1. Released(h)[g] = subproc[g] /\ subproc[g] # 0 BY <1>2
      <4>2. g \in runs[subproc[g]].waiting
        BY <4>1 DEF HooksInv, HeldIsWaitedFor
      <4> QED BY <4>1, <4>2
    <3>5. ASSUME NEW j \in DOMAIN runs, j # r
          PROVE  IsGoodRun(runs[j]) /\ WaitsForItsOwn(runs, Released(h), j)
      <4>1. IsGoodRun(runs[j]) BY DEF HooksInv
      <4> SUFFICES ASSUME runs[j].status = "running", NEW g \in runs[j].waiting
                   PROVE  Released(h)[g] = j
        BY <4>1 DEF WaitsForItsOwn
      <4>2. subproc[g] = j /\ g \in Hook
        BY <4>1 DEF HooksInv, WaitsForItsOwn, IsGoodRun, Run
      <4>3. g # h BY <3>5, <4>2
      <4> QED BY <1>2, <4>2, <4>3
    <3> HIDE DEF r
    <3>6. /\ HooksInv'
          /\ \A j \in DOMAIN runs : j # r /\ runs[j].status # "running" =>
                runs'[j] = runs[j]
      BY <1>2, <3>1, <3>2, <3>3, <3>4, <3>5, ResumeInv
    <3>7. KeepsOver
      BY <3>1, <3>6 DEF KeepsOver
    <3> QED BY <3>6, <3>7
  <2> QED BY <2>3, <2>4
<1> QED BY <1>3, <1>4 DEF ProcessEnds

\* One step of the hook manager.
LEMMA NextHooksInv ==
    ASSUME HooksInv, [Next]_vars
    PROVE  HooksInv' /\ (KeepsOver \/ UNCHANGED vars)
<1>1. CASE UNCHANGED vars
  BY <1>1 DEF vars, HooksInv, HeldIsWaitedFor, WaitsForItsOwn
<1>2. CASE Next
  <2>1. PICK stored \in SUBSET Key :
           \/ \E committed \in SUBSET Key, runServices \in BOOLEAN :
                 HandleCommit(committed, runServices, stored)
           \/ FireHooks(stored)
           \/ \E h \in Hook : TriggerHook(h, stored)
           \/ \E h \in Hook, exitedWell \in BOOLEAN :
                 ProcessEnds(h, exitedWell, stored)
    BY <1>2 DEF Next
  <2>2. ASSUME NEW committed \in SUBSET Key, NEW runServices \in BOOLEAN,
               HandleCommit(committed, runServices, stored)
        PROVE  HooksInv' /\ KeepsOver
    BY <2>2, RunHooksInv DEF HandleCommit
  <2>3. CASE FireHooks(stored)
    BY <2>3, RunHooksInv DEF FireHooks
  <2>4. ASSUME NEW h \in Hook, TriggerHook(h, stored)
        PROVE  HooksInv' /\ KeepsOver
    BY <2>4, RunHooksInv DEF TriggerHook
  <2>5. ASSUME NEW h \in Hook, NEW exitedWell \in BOOLEAN,
               ProcessEnds(h, exitedWell, stored)
        PROVE  HooksInv' /\ KeepsOver
    BY <2>5, ProcessEndsInv
  <2> QED BY <2>1, <2>2, <2>3, <2>4, <2>5
<1> QED BY <1>1, <1>2

----------------------------------------------------------------------------
(* The theorems *)

\* The inductive invariant holds in every reachable state.
THEOREM HooksInvariant == Spec => []HooksInv
<1>1. HooksInv /\ [Next]_vars => HooksInv'
  BY NextHooksInv
<1> QED BY <1>1, InitHooksInv, PTL DEF Spec

\* The runs and the runners have their types, and no hook of a run both counts
\* as ended and is waited for.
THEOREM HooksTyped == Spec => []HooksTypeOK
<1>1. HooksInv => HooksTypeOK
  <2> SUFFICES ASSUME HooksInv, NEW r \in DOMAIN runs
               PROVE  /\ runs[r].pos <= Len(runs[r].stages) + 1
                      /\ runs[r].waiting \cup runs[r].done \subseteq Reached(runs[r])
                      /\ runs[r].waiting \cap runs[r].done = {}
    BY DEF HooksInv, HooksTypeOK
  <2> DEFINE run == runs[r]
  <2>1. IsGoodRun(run)
    BY DEF HooksInv
  <2> HIDE DEF run
  <2>2. Len(run.stages) \in Nat /\ DOMAIN run.stages = 1..Len(run.stages)
    BY <2>1, LenProperties DEF IsGoodRun, WellStaged
  <2>3. run.waiting \subseteq Reached(run)
    BY <2>1, <2>2 DEF IsGoodRun, Reached
  <2>4. run.pos <= Len(run.stages) + 1
    BY <2>1, <2>2 DEF IsGoodRun
  <2> QED BY <2>1, <2>3, <2>4 DEF IsGoodRun, run
<1> QED BY <1>1, HooksInvariant, PTL

\* Templates come before services and low run levels before high ones, for
\* every hook table and every number of hooks at a time.
THEOREM HooksInOrder == Spec => []OrderRespected
<1>1. HooksInv => OrderRespected
  <2> SUFFICES ASSUME HooksInv, NEW r \in DOMAIN runs,
                      NEW h \in Reached(runs[r]), NEW g \in runs[r].hooks,
                      ComesBefore(g, h)
               PROVE  g \in runs[r].done
    BY DEF OrderRespected
  <2> DEFINE run == runs[r]
  <2>1. IsGoodRun(run) /\ WellStaged(run.hooks, run.stages)
    BY DEF HooksInv, IsGoodRun
  <2>2. g \in run.hooks /\ h \in Reached(run) OBVIOUS
  <2> HIDE DEF run
  <2>3. Len(run.stages) \in Nat /\ DOMAIN run.stages = 1..Len(run.stages)
    BY <2>1, LenProperties DEF WellStaged
  <2>4. PICK j \in DOMAIN run.stages : j <= run.pos /\ h \in run.stages[j]
    BY <2>2, <2>3 DEF Reached
  <2>5. PICK i \in DOMAIN run.stages : g \in run.stages[i]
    BY <2>1, <2>2 DEF WellStaged
  <2>6. g \in Hook /\ h \in Hook
    BY <2>1, <2>2, <2>4 DEF WellStaged
  <2>7. Rank(g) < Rank(h)
    BY <2>6, HookAssumption DEF ComesBefore, Rank
  <2>8. i < j
    BY <2>1, <2>4, <2>5, <2>7 DEF WellStaged
  <2>9. i < run.pos
    BY <2>1, <2>3, <2>4, <2>8 DEF IsGoodRun
  <2> QED BY <2>1, <2>5, <2>9 DEF IsGoodRun, run
<1> QED BY <1>1, HooksInvariant, PTL

\* A run that reports success has run all the hooks it was asked for.
THEOREM SuccessIsComplete == Spec => []SuccessRanEverything
<1>1. HooksInv => SuccessRanEverything
  <2> SUFFICES ASSUME HooksInv, NEW r \in DOMAIN runs, runs[r].status = "ok"
               PROVE  runs[r].done = runs[r].hooks
    BY DEF SuccessRanEverything
  <2> DEFINE run == runs[r]
  <2>1. IsGoodRun(run) /\ WellStaged(run.hooks, run.stages) /\ run.status = "ok"
    BY DEF HooksInv, IsGoodRun
  <2> HIDE DEF run
  <2>2. Len(run.stages) \in Nat /\ DOMAIN run.stages = 1..Len(run.stages)
    BY <2>1, LenProperties DEF WellStaged
  <2>3. \A i \in DOMAIN run.stages : run.stages[i] \subseteq run.done
    BY <2>1, <2>2 DEF IsGoodRun
  <2>4. run.hooks \subseteq run.done
    BY <2>1, <2>3 DEF WellStaged
  <2>5. run.done \subseteq run.hooks
    BY <2>1 DEF IsGoodRun, Reached, WellStaged
  <2> QED BY <2>4, <2>5 DEF run
<1> QED BY <1>1, HooksInvariant, PTL

\* A run that is not over waits for a process that its runner holds for it, so
\* that no run is left waiting for nothing.
THEOREM WaitsAreHeld == Spec => []NoLostWait
<1>1. HooksInv => NoLostWait
  BY DEF HooksInv, NoLostWait, IsGoodRun, WaitsForItsOwn
<1> QED BY <1>1, HooksInvariant, PTL

\* A run that is over keeps its outcome and its position in every step.
THEOREM OutcomesAreFinal == Spec => OverIsOver
<1>1. HooksInv /\ [Next]_vars => [KeepsOver]_vars
  BY NextHooksInv
<1>2. [KeepsOver]_vars =>
         [\A r \in DOMAIN runs : runs[r].status # "running" =>
             /\ runs'[r].status = runs[r].status
             /\ runs'[r].pos = runs[r].pos]_vars
  BY DEF KeepsOver
<1> QED BY <1>1, <1>2, HooksInvariant, PTL DEF Spec, OverIsOver

=============================================================================
