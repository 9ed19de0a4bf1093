---------------------------- MODULE DaemonProofs ----------------------------
(***************************************************************************)
(* Proofs about the specification of Daemon: what the commit files are     *)
(* worth when the daemon comes up again.                                   *)
(*                                                                         *)
(* The commit files always hold a chain of commits, also when a crash came *)
(* between two of the writes of a commit, unless the crash cut a commit     *)
(* file off; Sort finds the chain again.  Of the chain the proof carries   *)
(* along what ties it to the ids given out and to the values on disk.      *)
(***************************************************************************)
EXTENDS Daemon, ConfiguratorProofs

----------------------------------------------------------------------------
\* Chains of commits.

IsChain(h) ==
    /\ h \in Seq(Range(h))
    /\ \A i \in DOMAIN h :
          /\ IsCommit(h[i])
          /\ h[i].parent < h[i].id
          /\ Keys(h[i]) # {}
          /\ \A k \in Keys(h[i]) : ~IsLast(k)
          /\ i > 1 => h[i].parent = h[i - 1].id

\* A chain is indexed from 1 and its ids are numbers.
LEMMA ChainFacts ==
    ASSUME NEW h, IsChain(h)
    PROVE  /\ Len(h) \in Nat /\ DOMAIN h = 1..Len(h)
           /\ \A i \in DOMAIN h : h[i].id \in Nat /\ h[i].parent \in Nat
BY LenProperties DEF IsChain, IsCommit

\* Along a chain the ids grow.
LEMMA ChainIdsGrow ==
    ASSUME NEW h, IsChain(h), NEW i \in DOMAIN h, NEW j \in DOMAIN h, i < j
    PROVE  h[i].id < h[j].id
<1> DEFINE T == {b \in DOMAIN h : i < b /\ ~(h[i].id < h[b].id)}
<1>1. /\ Len(h) \in Nat /\ DOMAIN h = 1..Len(h)
      /\ \A b \in DOMAIN h : h[b].id \in Nat
  BY ChainFacts
<1>2. SUFFICES ASSUME T # {} PROVE FALSE
  OBVIOUS
<1>3. T \in SUBSET Nat BY <1>1
<1>4. PICK b \in T : \A e \in T : b <= e
  <2> HIDE DEF T
  <2> QED BY <1>2, <1>3, SmallestExists
<1>5. b \in DOMAIN h /\ i < b /\ ~(h[i].id < h[b].id) /\ b \in Nat
  BY <1>1, <1>4
<1>6. b - 1 \in DOMAIN h /\ b > 1 /\ i <= b - 1 BY <1>1, <1>5
<1>7. h[b - 1].id < h[b].id
  BY <1>5, <1>6 DEF IsChain
<1>8. CASE i = b - 1
  BY <1>5, <1>7, <1>8
<1>9. CASE i < b - 1
  <2>1. b - 1 \notin T BY <1>4, <1>5
  <2>2. h[i].id < h[b - 1].id BY <1>6, <1>9, <2>1
  <2> QED BY <1>1, <1>5, <1>6, <1>7, <2>2
<1> QED BY <1>1, <1>6, <1>8, <1>9

\* An id names one place of a chain.
LEMMA ChainIdsDiffer ==
    ASSUME NEW h, IsChain(h), NEW i \in DOMAIN h, NEW j \in DOMAIN h, h[i].id = h[j].id
    PROVE  i = j
<1>1. /\ Len(h) \in Nat /\ DOMAIN h = 1..Len(h)
      /\ \A b \in DOMAIN h : h[b].id \in Nat
  BY ChainFacts
<1>2. ~(i < j) BY <1>1, ChainIdsGrow
<1>3. ~(j < i) BY <1>1, ChainIdsGrow
<1> QED BY <1>1, <1>2, <1>3

\* The last commit of a chain is the only one that is nobody's parent.
LEMMA ChainMostRecent ==
    ASSUME NEW h, IsChain(h), h # <<>>
    PROVE  /\ Len(h) \in DOMAIN h
           /\ \A i \in DOMAIN h : h[i].id <= h[Len(h)].id /\ h[i].parent < h[Len(h)].id
           /\ FindMostRecentCommit(Range(h)) = {h[Len(h)]}
<1> DEFINE n == Len(h)
           childless == {c \in Range(h) : \A d \in Range(h) : d.parent # c.id}
<1>1. /\ n \in Nat /\ DOMAIN h = 1..n
      /\ \A i \in DOMAIN h : h[i].id \in Nat /\ h[i].parent \in Nat
  BY ChainFacts
<1>2. n \in DOMAIN h BY <1>1, EmptySeq DEF IsChain
<1>3. ASSUME NEW i \in DOMAIN h PROVE h[i].id <= h[n].id /\ h[i].parent < h[n].id
  <2>1. h[i].parent < h[i].id BY DEF IsChain
  <2>2. CASE i = n BY <1>1, <1>2, <2>1, <2>2
  <2>3. CASE i < n
    <3>1. h[i].id < h[n].id BY <1>2, <2>3, ChainIdsGrow
    <3> QED BY <1>1, <1>2, <2>1, <3>1
  <2> QED BY <1>1, <2>2, <2>3
<1>4. ASSUME NEW i \in DOMAIN h, i # n
      PROVE  i + 1 \in DOMAIN h /\ h[i + 1].parent = h[i].id
  <2>1. i + 1 \in DOMAIN h /\ i + 1 > 1 /\ i + 1 - 1 = i BY <1>1, <1>4
  <2> QED BY <2>1 DEF IsChain
<1>5. childless = {h[n]}
  <2>1. h[n] \in childless BY <1>1, <1>2, <1>3 DEF Range
  <2>2. ASSUME NEW c \in childless PROVE c = h[n]
    <3>1. PICK i \in DOMAIN h : c = h[i] BY DEF Range
    <3>2. CASE i # n
      <4>1. i + 1 \in DOMAIN h /\ h[i + 1].parent = c.id BY <1>4, <3>1, <3>2
      <4>2. h[i + 1] \in Range(h) BY <4>1 DEF Range
      <4> QED BY <2>2, <4>1, <4>2
    <3> QED BY <3>1, <3>2
  <2> HIDE DEF childless
  <2> QED BY <2>1, <2>2
<1>6. FindMostRecentCommit(Range(h)) = {c \in childless : \A d \in childless : d.id <= c.id}
  BY DEF FindMostRecentCommit
<1> HIDE DEF childless
<1>7. h[n].id <= h[n].id BY <1>1, <1>2
<1> QED BY <1>2, <1>3, <1>5, <1>6, <1>7

\* Sort loses no commit of a chain.
LEMMA ChainAncestry ==
    ASSUME NEW h, IsChain(h)
    PROVE  Ancestry(Range(h)) = Range(h)
<1>1. Len(h) \in Nat /\ DOMAIN h = 1..Len(h) BY ChainFacts
<1>2. SUFFICES ASSUME NEW S \in SUBSET Range(h),
                      FindMostRecentCommit(Range(h)) \subseteq S,
                      \A c \in S : {d \in Range(h) : d.id = c.parent} \subseteq S,
                      NEW i \in DOMAIN h
               PROVE  h[i] \in S
  BY DEF Ancestry, Range
<1> DEFINE T == {l \in 1..Len(h) : h[l] \notin S}
<1>3. SUFFICES ASSUME T # {} PROVE FALSE
  BY <1>1
<1>4. T \in SUBSET (1..Len(h)) OBVIOUS
<1>5. PICK b \in T : \A e \in T : e <= b
  <2> HIDE DEF T
  <2> QED BY <1>1, <1>3, <1>4, LargestExists
<1>6. b \in 1..Len(h) /\ h[b] \notin S BY <1>5
<1>7. h # <<>> BY <1>6, EmptySeq
<1>8. FindMostRecentCommit(Range(h)) = {h[Len(h)]} BY <1>7, ChainMostRecent
<1>9. CASE b = Len(h)
  BY <1>2, <1>6, <1>8, <1>9
<1>10. CASE b # Len(h)
  <2>1. b + 1 \in 1..Len(h) /\ b + 1 > 1 /\ b + 1 - 1 = b
    <3>1. Len(h) \in Nat /\ b \in 1..Len(h) /\ b # Len(h) BY <1>1, <1>6, <1>10
    <3> QED BY ONLY <3>1
  <2>2. b + 1 \notin T BY <1>5, <2>1
  <2>3. h[b + 1] \in S BY <2>1, <2>2
  <2>4. h[b + 1].parent = h[b].id BY <1>1, <2>1 DEF IsChain
  <2>5. h[b] \in Range(h) BY <1>1, <1>6 DEF Range
  <2> QED BY <1>2, <1>6, <2>3, <2>4, <2>5
<1> QED BY <1>9, <1>10

\* Sort puts a chain back in order, whatever the order of its files.
LEMMA SortFindsChain ==
    ASSUME NEW h, IsChain(h)
    PROVE  Sort(Range(h)) = h
<1> DEFINE n == Len(h)
           Linked(s) == \A i \in 1..Len(s) - 1 : s[i + 1].parent = s[i].id
           t == CHOOSE s \in SetToSeqs(Range(h)) : Linked(s)
<1>1. /\ n \in Nat /\ DOMAIN h = 1..n
      /\ \A i \in DOMAIN h : h[i].id \in Nat /\ h[i].parent \in Nat
  BY ChainFacts
<1>2. Sort(Range(h)) = t BY ChainAncestry DEF Sort
<1>3. IsFiniteSet(Range(h)) /\ Cardinality(Range(h)) = n /\ h \in SetToSeqs(Range(h))
  <2>1. h \in [1..n -> Range(h)] BY <1>1 DEF Range, IsChain
  <2>2. \A i, j \in 1..n : i # j => h[i] # h[j] BY <1>1, ChainIdsDiffer
  <2>3. h \in Bijection(1..n, Range(h))
    <3>1. h \in Injection(1..n, Range(h)) BY <2>1, <2>2 DEF Injection, IsInjective
    <3>2. h \in Surjection(1..n, Range(h)) BY <1>1, <2>1 DEF Surjection, Range
    <3> QED BY <3>1, <3>2 DEF Bijection
  <2>4. IsFiniteSet(1..n) /\ Cardinality(1..n) = n BY <1>1, FS_Interval
  <2>5. IsFiniteSet(Range(h)) /\ Cardinality(Range(h)) = n
    BY <2>3, <2>4, FS_Bijection DEF ExistsBijection
  <2> QED BY <2>1, <2>2, <2>5 DEF SetToSeqs
<1>4. Linked(h)
  <2>1. ASSUME NEW i \in 1..n - 1 PROVE h[i + 1].parent = h[i].id
    <3>1. i + 1 \in DOMAIN h /\ i + 1 > 1 /\ i + 1 - 1 = i BY <1>1
    <3> QED BY <3>1 DEF IsChain
  <2> QED BY <2>1
<1>5. t \in SetToSeqs(Range(h)) /\ Linked(t)
  <2> HIDE DEF Linked
  <2> QED BY <1>3, <1>4
<1> HIDE DEF t
<1>6. t \in Seq(Range(h)) /\ Len(t) = n /\ DOMAIN t = 1..n
  BY <1>3, <1>5, Enumeration
<1>7. \A i \in 1..n : \E p \in 1..n : t[i] = h[p]
  BY <1>1, <1>6 DEF Range
\* Neighbours of t are neighbours of the chain.
<1>8. ASSUME NEW i \in 1..n - 1, NEW p \in 1..n, t[i] = h[p]
      PROVE  p + 1 \in 1..n /\ t[i + 1] = h[p + 1]
  <2>1. i + 1 \in 1..n /\ t[i + 1].parent = t[i].id BY <1>1, <1>5, <1>6
  <2>2. PICK q \in 1..n : t[i + 1] = h[q] BY <1>7, <2>1
  <2>3. h[q].parent = h[p].id BY <1>8, <2>1, <2>2
  <2>4. CASE q = 1
    <3>1. 1 \in DOMAIN h /\ h[1].parent < h[1].id BY <1>1, <2>2, <2>4 DEF IsChain
    <3>2. h[1].id <= h[p].id
      <4>1. CASE p = 1 BY <1>1, <3>1, <4>1
      <4>2. CASE 1 < p
        <5>1. h[1].id < h[p].id BY <1>1, <3>1, <4>2, ChainIdsGrow
        <5> QED BY <1>1, <3>1, <5>1
      <4> QED BY <4>1, <4>2
    <3> QED BY <1>1, <2>3, <2>4, <3>1, <3>2
  <2>5. CASE q > 1
    <3>1. q - 1 \in 1..n /\ h[q].parent = h[q - 1].id
      BY <1>1, <2>5 DEF IsChain
    <3>2. q - 1 = p BY <1>1, <2>3, <3>1, ChainIdsDiffer
    <3>3. q = p + 1 BY <1>1, <3>2
    <3> QED BY <2>2, <3>3
  <2> QED BY <1>1, <2>4, <2>5
\* So t is the chain, shifted by some number of places, which can only be 0.
<1>9. CASE n = 0
  <2>1. t = <<>> /\ h = <<>> BY <1>1, <1>6, <1>9, EmptySeq DEF IsChain
  <2> QED BY <1>2, <2>1
<1>10. CASE n > 0
  <2>1. 1 \in 1..n /\ n \in 1..n BY <1>1, <1>10
  <2>2. PICK p \in 1..n : t[1] = h[p] BY <1>7, <2>1
  <2> DEFINE Shifted(i) == i + p - 1 \in 1..n /\ t[i] = h[i + p - 1]
             T == {i \in 1..n : ~Shifted(i)}
  <2>3. ASSUME T # {} PROVE FALSE
    <3>1. T \in SUBSET Nat BY <1>1
    <3>2. PICK b \in T : \A e \in T : b <= e
      <4> HIDE DEF T
      <4> QED BY <2>3, <3>1, SmallestExists
    <3>3. b \in 1..n /\ ~Shifted(b) BY <3>2
    <3>4. CASE b = 1
      <4>1. 1 + p - 1 = p BY <1>1
      <4> QED BY <2>2, <3>3, <3>4, <4>1
    <3>5. CASE b # 1
      <4>1. b - 1 \in 1..n /\ b - 1 \in 1..n - 1 /\ b - 1 + 1 = b /\ ~(b <= b - 1)
        <5> HIDE DEF T, Shifted
        <5> QED BY <1>1, <3>3, <3>5
      <4>2. Shifted(b - 1) BY <3>2, <4>1
      <4> DEFINE q == b - 1 + p - 1
      <4>3. q \in 1..n /\ t[b - 1] = h[q] BY <4>2
      <4>4. q + 1 = b + p - 1 BY <1>1, <3>3
      <4> HIDE DEF q, T
      <4>5. q + 1 \in 1..n /\ t[b] = h[q + 1] BY <1>8, <4>1, <4>3
      <4> QED BY <3>3, <4>4, <4>5
    <3> QED BY <3>4, <3>5
  <2>4. ASSUME NEW i \in 1..n PROVE Shifted(i)
    <3>1. i \notin T
      <4> HIDE DEF T
      <4> QED BY <2>3
    <3> QED BY <3>1
  <2>5. p = 1
    <3>1. n + p - 1 \in 1..n BY <2>1, <2>4
    <3> QED BY <1>1, <3>1
  <2>6. \A i \in 1..n : t[i] = h[i]
    <3>1. ASSUME NEW i \in 1..n PROVE t[i] = h[i]
      <4>1. i + p - 1 = i BY <1>1, <2>5
      <4> QED BY <2>4, <4>1
    <3> QED BY <3>1
  <2>7. t = h BY <1>6, <2>6, SeqEqual DEF IsChain
  <2> QED BY <1>2, <2>7
<1> QED BY <1>1, <1>9, <1>10

\* FindMaxCommitId finds the id of the last commit.
LEMMA ChainMaxId ==
    ASSUME NEW h, IsChain(h)
    PROVE  FindMaxCommitId(Range(h)) = MostRecentId(h) /\ MostRecentId(h) \in Nat
<1> DEFINE ids == {0} \cup {c.id : c \in Range(h)} \cup {c.parent : c \in Range(h)}
           top == MostRecentId(h)
<1>1. /\ Len(h) \in Nat /\ DOMAIN h = 1..Len(h)
      /\ \A i \in DOMAIN h : h[i].id \in Nat /\ h[i].parent \in Nat
  BY ChainFacts
<1>2. top \in ids /\ ids \subseteq Nat /\ \A x \in ids : top >= x
  <2>1. CASE h = <<>>
    <3>1. Range(h) = {} BY <2>1 DEF Range
    <3>2. ids = {0} /\ top = 0 BY <2>1, <3>1 DEF MostRecentId
    <3> QED BY <3>2
  <2>2. CASE h # <<>>
    <3>1. /\ Len(h) \in DOMAIN h
          /\ \A i \in DOMAIN h : h[i].id <= h[Len(h)].id /\ h[i].parent < h[Len(h)].id
      BY <2>2, ChainMostRecent
    <3>2. top = h[Len(h)].id /\ top \in Nat BY <1>1, <2>2, <3>1 DEF MostRecentId
    <3>3. h[Len(h)] \in Range(h) BY <3>1 DEF Range
    <3>4. top \in ids BY <3>2, <3>3
    <3>5. ASSUME NEW x \in ids PROVE x \in Nat /\ top >= x
      <4>1. CASE x = 0 BY <3>2, <4>1
      <4>2. CASE \E c \in Range(h) : x = c.id \/ x = c.parent
        <5>1. PICK i \in DOMAIN h : x = h[i].id \/ x = h[i].parent BY <4>2 DEF Range
        <5>2. h[i].id \in Nat /\ h[i].parent \in Nat BY <1>1
        <5>3. h[i].id <= top /\ h[i].parent < top BY <3>1, <3>2
        <5> QED BY <3>2, <5>1, <5>2, <5>3
      <4> QED BY <4>1, <4>2
    <3> QED BY <3>4, <3>5
  <2> QED BY <2>1, <2>2
<1>3. FindMaxCommitId(Range(h)) = CHOOSE x \in ids : \A y \in ids : x >= y
  BY DEF FindMaxCommitId, Max
<1> HIDE DEF ids, top
<1>4. PICK x \in ids : FindMaxCommitId(Range(h)) = x /\ \A y \in ids : x >= y
  BY <1>2, <1>3
<1>5. x = top BY <1>2, <1>4
<1> QED BY <1>2, <1>4, <1>5 DEF top

\* What is left of a chain when its d oldest commits are forgotten.
IsRest(g, h, d) ==
    /\ g \in Seq(Range(h))
    /\ Len(g) = Len(h) - d
    /\ \A i \in 1..Len(g) : g[i] = h[i + d]

\* The rest of a chain is a chain.
LEMMA RestIsChain ==
    ASSUME NEW h, IsChain(h), NEW d \in 0..Len(h), NEW g, IsRest(g, h, d)
    PROVE  IsChain(g) /\ Range(g) \subseteq Range(h)
<1>1. Len(h) \in Nat /\ DOMAIN h = 1..Len(h) BY ChainFacts
<1>2. /\ g \in Seq(Range(h)) /\ Len(g) = Len(h) - d /\ Len(g) \in Nat
      /\ DOMAIN g = 1..Len(g)
      /\ \A i \in 1..Len(g) : i + d \in DOMAIN h /\ g[i] = h[i + d]
  BY <1>1, LenProperties DEF IsRest
<1>3. g \in Seq(Range(g)) /\ Range(g) \subseteq Range(h) BY <1>2, SeqOverRange
<1>4. ASSUME NEW i \in DOMAIN g, i > 1 PROVE g[i].parent = g[i - 1].id
  <2>1. i \in 1..Len(g) /\ i - 1 \in 1..Len(g) /\ i + d > 1 /\ i + d - 1 = i - 1 + d
    BY <1>1, <1>2, <1>4
  <2> DEFINE j == i + d
  <2>2. j \in DOMAIN h /\ j > 1 /\ g[i] = h[j] /\ g[i - 1] = h[j - 1]
    BY <1>2, <2>1
  <2> HIDE DEF j
  <2> QED BY <2>2 DEF IsChain
<1>5. ASSUME NEW i \in DOMAIN g
      PROVE  /\ IsCommit(g[i]) /\ g[i].parent < g[i].id /\ Keys(g[i]) # {}
             /\ \A k \in Keys(g[i]) : ~IsLast(k)
  <2>1. PICK j \in DOMAIN h : g[i] = h[j] BY <1>2
  <2> QED BY <2>1 DEF IsChain
<1>6. IsChain(g) BY <1>3, <1>4, <1>5 DEF IsChain
<1> QED BY <1>3, <1>6

\* A commit that names the end of a chain as its parent prolongs the chain.
LEMMA ChainProlonged ==
    ASSUME NEW h, IsChain(h), NEW commit, IsCommit(commit),
           commit.parent = MostRecentId(h), commit.parent < commit.id,
           Keys(commit) # {}, \A k \in Keys(commit) : ~IsLast(k)
    PROVE  IsChain(Append(h, commit))
<1> DEFINE g == Append(h, commit)
           S == Range(h) \cup {commit}
<1>1. Len(h) \in Nat /\ DOMAIN h = 1..Len(h) BY ChainFacts
<1>2. h \in Seq(S) BY SeqMonotonic DEF IsChain
<1>3. /\ g \in Seq(S) /\ Len(g) = Len(h) + 1 /\ DOMAIN g = 1..Len(h) + 1
      /\ \A i \in 1..Len(h) : g[i] = h[i]
      /\ g[Len(h) + 1] = commit
  <2> HIDE DEF S
  <2>1. commit \in S BY DEF S
  <2> QED BY <1>1, <1>2, <2>1, AppendProperties
<1> HIDE DEF g, S
<1>4. g \in Seq(Range(g)) BY <1>3, SeqOverRange
<1>5. ASSUME NEW i \in DOMAIN g, i > 1 PROVE g[i].parent = g[i - 1].id
  <2>1. i - 1 \in 1..Len(h) /\ g[i - 1] = h[i - 1] BY <1>1, <1>3, <1>5
  <2>2. CASE i = Len(h) + 1
    <3>1. i - 1 = Len(h) /\ h # <<>> BY <1>1, <2>1, <2>2, EmptySeq
    <3> QED BY <1>3, <2>1, <2>2, <3>1 DEF MostRecentId
  <2>3. CASE i # Len(h) + 1
    <3>1. i \in DOMAIN h /\ g[i] = h[i] BY <1>1, <1>3, <2>3
    <3> QED BY <1>5, <2>1, <3>1 DEF IsChain
  <2> QED BY <2>2, <2>3
<1>6. ASSUME NEW i \in DOMAIN g
      PROVE  /\ IsCommit(g[i]) /\ g[i].parent < g[i].id /\ Keys(g[i]) # {}
             /\ \A k \in Keys(g[i]) : ~IsLast(k)
  <2>1. CASE i = Len(h) + 1 BY <1>3, <2>1
  <2>2. CASE i # Len(h) + 1
    <3>1. i \in DOMAIN h /\ g[i] = h[i] BY <1>1, <1>3, <2>2
    <3> QED BY <3>1 DEF IsChain
  <2> QED BY <2>1, <2>2
<1>7. IsChain(g) BY <1>4, <1>5, <1>6 DEF IsChain
<1> QED BY <1>7 DEF g

----------------------------------------------------------------------------
\* A chain and the values, for the keys in D: each key has the new or the old
\* value of the youngest commit that changed it.

IsYoungestIn(h, i, k) ==
    /\ k \in Keys(h[i])
    /\ \A j \in DOMAIN h : k \in Keys(h[j]) => j <= i

Accounts(h, vals, D) ==
    \A i \in DOMAIN h : \A k \in D :
        IsYoungestIn(h, i, k) =>
            \/ SameValue(h[i].deltas[k].new, vals[k])
            \/ SameValue(h[i].deltas[k].old, vals[k])

\* Forgetting old commits does not change which is the youngest.
LEMMA RestAccounts ==
    ASSUME NEW h, IsChain(h), NEW d \in 0..Len(h), NEW g, IsRest(g, h, d),
           NEW vals, NEW D, Accounts(h, vals, D)
    PROVE  Accounts(g, vals, D)
<1>1. Len(h) \in Nat /\ DOMAIN h = 1..Len(h) BY ChainFacts
<1>2. /\ g \in Seq(Range(h)) /\ Len(g) = Len(h) - d /\ Len(g) \in Nat
      /\ DOMAIN g = 1..Len(g)
      /\ \A i \in 1..Len(g) : i + d \in DOMAIN h /\ g[i] = h[i + d]
  BY <1>1, LenProperties DEF IsRest
<1> SUFFICES ASSUME NEW i \in DOMAIN g, NEW k \in D, IsYoungestIn(g, i, k)
             PROVE  \/ SameValue(g[i].deltas[k].new, vals[k])
                    \/ SameValue(g[i].deltas[k].old, vals[k])
  BY DEF Accounts
<1>3. i + d \in DOMAIN h /\ g[i] = h[i + d] BY <1>2
<1>4. ASSUME NEW j \in DOMAIN h, k \in Keys(h[j]) PROVE j <= i + d
  <2>1. CASE j <= d BY <1>1, <1>2, <2>1
  <2>2. CASE j > d
    <3>1. j - d \in DOMAIN g /\ j - d + d = j BY <1>1, <1>2, <2>2
    <3>2. g[j - d] = h[j] BY <1>2, <3>1
    <3>3. j - d <= i BY <1>4, <3>1, <3>2 DEF IsYoungestIn
    <3> QED BY <1>1, <1>2, <3>3
  <2> QED BY <1>1, <2>1, <2>2
<1>5. IsYoungestIn(h, i + d, k) BY <1>3, <1>4 DEF IsYoungestIn
<1> QED BY <1>3, <1>5 DEF Accounts

\* A new commit accounts for the keys it changed, and the older ones still do
\* for the keys whose value stayed the same.
LEMMA ProlongedAccounts ==
    ASSUME NEW h, IsChain(h), NEW commit, NEW vals, NEW new, NEW D,
           Accounts(h, vals, D),
           \A k \in D \cap Keys(commit) :
              \/ SameValue(commit.deltas[k].new, new[k])
              \/ SameValue(commit.deltas[k].old, new[k]),
           \A k \in D \ Keys(commit) : ~IsLast(k) => SameValue(vals[k], new[k])
    PROVE  Accounts(Append(h, commit), new, D)
<1> DEFINE g == Append(h, commit)
           S == Range(h) \cup {commit}
<1>1. Len(h) \in Nat /\ DOMAIN h = 1..Len(h) BY ChainFacts
<1>2. h \in Seq(S) BY SeqMonotonic DEF IsChain
<1>3. /\ g \in Seq(S) /\ Len(g) = Len(h) + 1 /\ DOMAIN g = 1..Len(h) + 1
      /\ \A i \in 1..Len(h) : g[i] = h[i]
      /\ g[Len(h) + 1] = commit
  <2> HIDE DEF S
  <2>1. commit \in S BY DEF S
  <2> QED BY <1>1, <1>2, <2>1, AppendProperties
<1> HIDE DEF g, S
<1>4. ASSUME NEW i \in DOMAIN g, NEW k \in D, IsYoungestIn(g, i, k)
      PROVE  \/ SameValue(g[i].deltas[k].new, new[k])
             \/ SameValue(g[i].deltas[k].old, new[k])
  <2>1. CASE i = Len(h) + 1
    BY <1>3, <1>4, <2>1 DEF IsYoungestIn
  <2>2. CASE i # Len(h) + 1
    <3>1. i \in DOMAIN h /\ g[i] = h[i] BY <1>1, <1>3, <2>2
    <3>2. k \notin Keys(commit)
      <4>1. Len(h) + 1 \in DOMAIN g /\ ~(Len(h) + 1 <= i) BY <1>1, <1>3, <3>1
      <4> QED BY <1>3, <1>4, <4>1 DEF IsYoungestIn
    <3>3. IsYoungestIn(h, i, k)
      BY <1>1, <1>3, <1>4, <3>1 DEF IsYoungestIn
    <3>4. ~IsLast(k) BY <3>1, <3>3 DEF IsChain, IsYoungestIn
    <3>5. SameValue(vals[k], new[k]) BY <3>2, <3>4
    <3>6. \/ SameValue(h[i].deltas[k].new, vals[k])
          \/ SameValue(h[i].deltas[k].old, vals[k])
      BY <3>1, <3>3 DEF Accounts
    <3> QED BY <3>1, <3>5, <3>6, SameValueTransitive
  <2> QED BY <2>1, <2>2
<1>5. Accounts(g, new, D) BY <1>4 DEF Accounts
<1> QED BY <1>5 DEF g

\* The same commits account for values that are equal to the old ones.
LEMMA EqualAccounts ==
    ASSUME NEW h, IsChain(h), NEW vals, NEW new, NEW D, Accounts(h, vals, D),
           \A k \in D : ~IsLast(k) => SameValue(vals[k], new[k])
    PROVE  Accounts(h, new, D)
<1> SUFFICES ASSUME NEW i \in DOMAIN h, NEW k \in D, IsYoungestIn(h, i, k)
             PROVE  \/ SameValue(h[i].deltas[k].new, new[k])
                    \/ SameValue(h[i].deltas[k].old, new[k])
  BY DEF Accounts
<1>1. ~IsLast(k) BY DEF IsChain, IsYoungestIn
<1>2. SameValue(vals[k], new[k]) BY <1>1
<1>3. \/ SameValue(h[i].deltas[k].new, vals[k])
      \/ SameValue(h[i].deltas[k].old, vals[k])
  BY DEF Accounts
<1> QED BY <1>2, <1>3, SameValueTransitive

\* DropExcessiveCommits leaves a chain with the same end, which accounts for the
\* same values.
LEMMA ChainCut ==
    ASSUME NEW h, IsChain(h)
    PROVE  /\ IsChain(DropExcessiveCommits(h))
           /\ Range(DropExcessiveCommits(h)) \subseteq Range(h)
           /\ Len(DropExcessiveCommits(h)) <= MaxStorage
           /\ MostRecentId(DropExcessiveCommits(h)) = MostRecentId(h)
           /\ \A vals, D : Accounts(h, vals, D) => Accounts(DropExcessiveCommits(h), vals, D)
<1> DEFINE g == DropExcessiveCommits(h)
<1>1. Len(h) \in Nat /\ DOMAIN h = 1..Len(h) BY ChainFacts
<1>2. PICK d \in 0..Len(h) :
         /\ g \in Seq(Range(h))
         /\ Len(g) = Len(h) - d
         /\ Len(g) <= MaxStorage
         /\ Len(h) > 0 => d < Len(h)
         /\ \A i \in 1..Len(h) - d : g[i] = h[i + d]
  BY DropExcessiveShape DEF IsChain
<1> HIDE DEF g
<1>3. IsRest(g, h, d) BY <1>2 DEF IsRest
<1>4. IsChain(g) /\ Range(g) \subseteq Range(h) BY <1>3, RestIsChain
<1>5. MostRecentId(g) = MostRecentId(h)
  <2>1. CASE h = <<>>
    <3>1. Len(h) = 0 BY <2>1
    <3>2. Len(g) = 0
      <4>1. Len(g) = Len(h) - d /\ d \in 0..Len(h) BY <1>2
      <4>2. d \in 0..0 BY <3>1, <4>1
      <4>3. d = 0 BY <4>2
      <4> QED BY <3>1, <4>1, <4>3
    <3>3. g = <<>> BY <1>2, <3>2, EmptySeq
    <3> QED BY <2>1, <3>3
  <2>2. CASE h # <<>>
    <3>1. Len(h) > 0 BY <1>1, <2>2, EmptySeq DEF IsChain
    <3>2. Len(g) \in 1..Len(h) - d /\ Len(g) + d = Len(h) BY <1>1, <1>2, <3>1
    <3>3. g # <<>> BY <1>1, <3>2
    <3>4. g[Len(g)] = h[Len(h)] BY <1>2, <3>2
    <3> QED BY <2>2, <3>3, <3>4 DEF MostRecentId
  <2> QED BY <2>1, <2>2
<1>6. \A vals, D : Accounts(h, vals, D) => Accounts(g, vals, D)
  BY <1>3, RestAccounts
<1> QED BY <1>2, <1>4, <1>5, <1>6 DEF g

\* The end and the members of a list with one more commit.
LEMMA ProlongedEnd ==
    ASSUME NEW h, IsChain(h), NEW commit
    PROVE  /\ MostRecentId(Append(h, commit)) = commit.id
           /\ Range(Append(h, commit)) = Range(h) \cup {commit}
<1> DEFINE g == Append(h, commit)
           S == Range(h) \cup {commit}
<1>1. Len(h) \in Nat /\ DOMAIN h = 1..Len(h) BY ChainFacts
<1>2. h \in Seq(S) BY SeqMonotonic DEF IsChain
<1>3. /\ g \in Seq(S) /\ Len(g) = Len(h) + 1 /\ DOMAIN g = 1..Len(h) + 1
      /\ \A i \in 1..Len(h) : g[i] = h[i]
      /\ g[Len(h) + 1] = commit
  <2> HIDE DEF S
  <2>1. commit \in S BY DEF S
  <2> QED BY <1>1, <1>2, <2>1, AppendProperties
<1> HIDE DEF g
<1>4. g # <<>> BY <1>1, <1>3
<1>5. MostRecentId(g) = commit.id BY <1>3, <1>4 DEF MostRecentId
<1>6. Range(g) = S
  <2>1. Range(g) \subseteq S BY <1>3, SeqOverRange
  <2>2. commit \in Range(g) BY <1>1, <1>3 DEF Range
  <2>3. Range(h) \subseteq Range(g) BY <1>1, <1>3 DEF Range
  <2> QED BY <2>1, <2>2, <2>3
<1> QED BY <1>5, <1>6 DEF g

----------------------------------------------------------------------------
\* The invariant that ties history, files and values together.

OnFiles(h) ==
    /\ IsChain(h)
    /\ Range(h) = files
    /\ maxId <= MostRecentId(h)
    /\ Accounts(h, GetAll(disk), Key \ drifted)

\* The keys whose values on disk are the ones in memory.
CacheAgrees == \A k \in Key \ drifted : GetAll(disk)[k] = values[k]

FilesInv ==
    /\ MapInv
    /\ HistoryIsAChain
    /\ up => OnFiles(history) /\ CacheAgrees
    /\ ~up /\ torn = {} => \E h : OnFiles(h)

\* The first start of the daemon finds no commit file.
LEMMA InitFilesInv == DaemonInit => FilesInv
<1> SUFFICES ASSUME DaemonInit PROVE FilesInv
  OBVIOUS
<1>1. MapInv /\ HistoryIsAChain BY InitIInv DEF DaemonInit, IInv
<1>2. history = <<>> /\ files = {} /\ up = TRUE /\ maxId = 0 BY DEF DaemonInit, Init
<1>3. Range(history) = {} /\ DOMAIN history = {} /\ MostRecentId(history) = 0
  BY <1>2 DEF Range, MostRecentId
<1>4. history \in Seq(Range(history)) BY <1>1 DEF MapInv, TypeOK
<1>5. IsChain(history) BY <1>3, <1>4 DEF IsChain
<1>6. Accounts(history, GetAll(disk), Key \ drifted) BY <1>3 DEF Accounts
<1>7. OnFiles(history) BY <1>2, <1>3, <1>5, <1>6 DEF OnFiles
<1>8. CacheAgrees
  <2>1. \A s \in Slots : disk[s] = Absent BY DEF DaemonInit
  <2>2. Absent \notin Value BY FileAssumption DEF MaybeValue
  <2>3. ASSUME NEW k \in Key PROVE GetAll(disk)[k] = Empty
    <3>1. {s \in Slots : SlotKey(s) = k /\ disk[s] \in Value} = {} BY <2>1, <2>2
    <3> QED BY <3>1 DEF GetAll
  <2>4. \A k \in Key : values[k] = Empty BY DEF DaemonInit, Init
  <2> QED BY <2>3, <2>4 DEF CacheAgrees
<1> QED BY <1>1, <1>2, <1>7, <1>8 DEF FilesInv

\* The list after a commit of the pairs in list.
HistoryAfter(list) ==
    IF ChangedKeys(list) # {} THEN LogCommit(history, TheCommit(list)) ELSE history

\* For each of the keys in D, new is the value before or the one after the
\* commit.
IsBetween(new, list, lasts, D) ==
    \A k \in D : ~IsLast(k) =>
        \/ new[k] = values[k]
        \/ new[k] = UpdateItems(values, list \o lasts)[k]

\* The commit before and after DropExcessiveCommits: a chain that accounts for
\* every value between the one before and the one after the commit.
LEMMA LoggedAccounts ==
    ASSUME FilesInv, up, NEW list \in Seq(Pair), NEW lasts \in LastItems(list),
           ChangedKeys(list) # {}
    PROVE  LET g == Append(history, TheCommit(list))
           IN  /\ IsChain(g)
               /\ Range(g) = files \cup {TheCommit(list)}
               /\ MostRecentId(g) = maxId + 1
               /\ \A new : \A D \in SUBSET (Key \ drifted) :
                     IsBetween(new, list, lasts, D) => Accounts(g, new, D)
<1> DEFINE commit == TheCommit(list)
           g == Append(history, commit)
<1>1. TypeOK /\ HistoryIsAChain /\ OnFiles(history) /\ CacheAgrees
  BY DEF FilesInv, MapInv
<1>2. maxId \in Nat BY <1>1 DEF TypeOK
<1>3. /\ IsCommit(commit) /\ commit.id = maxId + 1
      /\ commit.parent = MostRecentId(history) /\ commit.parent <= maxId
      /\ Keys(commit) = ChangedKeys(list)
      /\ \A k \in ChangedKeys(list) : commit.deltas[k].new = LastWrite(list, k)
  BY <1>1, TheCommitType
<1>4. \A k \in ChangedKeys(list) : commit.deltas[k].old = values[k]
  BY DEF TheCommit, NewCommit, Changed
<1>5. \A k \in ChangedKeys(list) : k \in Key /\ ~IsLast(k) /\ Touches(list, k)
  BY DEF ChangedKeys
<1> HIDE DEF commit
<1>6. IsChain(history) /\ Range(history) = files
  BY <1>1 DEF OnFiles
<1>7. IsChain(g)
  <2>1. commit.parent \in Nat BY <1>3 DEF IsCommit
  <2>2. commit.parent < commit.id BY <1>2, <1>3, <2>1
  <2> QED BY <1>3, <1>5, <1>6, <2>2, ChainProlonged
<1>8. MostRecentId(g) = maxId + 1 /\ Range(g) = files \cup {commit}
  BY <1>3, <1>6, ProlongedEnd
<1>9. ASSUME NEW new, NEW D \in SUBSET (Key \ drifted), IsBetween(new, list, lasts, D)
      PROVE  Accounts(g, new, D)
  <2>1. Accounts(history, GetAll(disk), D) BY <1>1 DEF OnFiles, Accounts
  <2>2. ASSUME NEW k \in D \cap Keys(commit)
        PROVE  \/ SameValue(commit.deltas[k].new, new[k])
               \/ SameValue(commit.deltas[k].old, new[k])
    <3>1. k \in ChangedKeys(list) BY <1>3
    <3>2. UpdateItems(values, list \o lasts)[k] = LastWrite(list, k)
      BY <1>1, <1>5, <3>1, UpdatedValue
    <3>3. new[k] = values[k] \/ new[k] = LastWrite(list, k)
      BY <1>5, <1>9, <3>1, <3>2 DEF IsBetween
    <3> QED BY <1>3, <1>4, <3>1, <3>3 DEF SameValue
  <2>3. ASSUME NEW k \in D \ Keys(commit), ~IsLast(k)
        PROVE  SameValue(GetAll(disk)[k], new[k])
    <3>1. GetAll(disk)[k] = values[k] BY <1>1 DEF CacheAgrees
    <3>2. k \in Key /\ k \notin ChangedKeys(list) BY <1>3
    <3>3. SameValue(values[k], UpdateItems(values, list \o lasts)[k])
      <4>1. UpdateItems(values, list \o lasts)[k] =
               IF Touches(list, k) THEN LastWrite(list, k) ELSE values[k]
        BY <1>1, <2>3, <3>2, UpdatedValue
      <4> QED BY <3>2, <4>1, <2>3 DEF ChangedKeys, SameValue
    <3> QED BY <1>9, <2>3, <3>1, <3>3 DEF IsBetween, SameValue
  <2> QED BY <1>6, <2>1, <2>2, <2>3, ProlongedAccounts
<1> QED BY <1>7, <1>8, <1>9 DEF commit

\* Every bucket has "last." pairs, and Batch picks one order of them.
LEMMA BatchShape ==
    ASSUME NEW m, NEW c, GetBucket(m, c) \in Seq(Pair)
    PROVE  \E lasts \in LastItems(GetBucket(m, c)) : Batch(m, c) = GetBucket(m, c) \o lasts
<1> DEFINE list == GetBucket(m, c)
           S == {i \in DOMAIN list : ~IsReserved(list[i].key)}
<1>1. list \in Seq(Pair) OBVIOUS
<1> HIDE DEF list
<1>2. Len(list) \in Nat /\ DOMAIN list = 1..Len(list) BY <1>1, LenProperties
<1>3. S \in SUBSET (1..Len(list)) BY <1>2
<1>4. \E order : order \in InOrder(S)
  <2> HIDE DEF S
  <2> QED BY <1>2, <1>3, InOrderExists
<1>5. LastItems(list) # {} BY <1>4 DEF LastItems
<1>6. (CHOOSE lasts \in LastItems(list) : TRUE) \in LastItems(list) BY <1>5
<1> QED BY <1>6 DEF Batch, list

\* What a commit, complete or cut off in GroupSet, leaves: the list that
\* HistoryAfter names, on the files and accounting for the values.
LEMMA HistoryAfterCommit ==
    ASSUME FilesInv, up, NEW list \in Seq(Pair), NEW lasts \in LastItems(list)
    PROVE  LET g == HistoryAfter(list)
           IN  /\ IsChain(g)
               /\ Len(g) <= MaxStorage
               /\ FilesAfter(g) = Range(g)
               /\ MostRecentId(g) = IF ChangedKeys(list) # {} THEN maxId + 1 ELSE maxId
               /\ \A new : \A D \in SUBSET (Key \ drifted) :
                     IsBetween(new, list, lasts, D) => Accounts(g, new, D)
<1> DEFINE g == HistoryAfter(list)
<1>1. TypeOK /\ HistoryIsAChain /\ OnFiles(history) /\ CacheAgrees
  BY DEF FilesInv, MapInv
<1>2. IsChain(history) /\ Range(history) = files /\ maxId <= MostRecentId(history)
  BY <1>1 DEF OnFiles
<1>3. FilesAfter(g) = Range(g) BY <1>2 DEF FilesAfter
<1>4. CASE ChangedKeys(list) # {}
  <2> DEFINE l == Append(history, TheCommit(list))
  <2>1. /\ IsChain(l)
        /\ MostRecentId(l) = maxId + 1
        /\ \A new : \A D \in SUBSET (Key \ drifted) :
              IsBetween(new, list, lasts, D) => Accounts(l, new, D)
    BY <1>4, LoggedAccounts
  <2> HIDE DEF l
  <2>2. /\ IsChain(DropExcessiveCommits(l))
        /\ Len(DropExcessiveCommits(l)) <= MaxStorage
        /\ MostRecentId(DropExcessiveCommits(l)) = MostRecentId(l)
        /\ \A vals, D : Accounts(l, vals, D) => Accounts(DropExcessiveCommits(l), vals, D)
    BY <2>1, ChainCut
  <2>3. g = DropExcessiveCommits(l) BY <1>4 DEF HistoryAfter, LogCommit, l
  <2> HIDE DEF g
  <2>4. MostRecentId(g) = maxId + 1 BY <2>1, <2>2, <2>3
  <2>5. \A new : \A D \in SUBSET (Key \ drifted) :
           IsBetween(new, list, lasts, D) => Accounts(g, new, D)
    BY <2>1, <2>2, <2>3
  <2>6. IsChain(g) /\ Len(g) <= MaxStorage BY <2>2, <2>3
  <2> QED BY <1>3, <1>4, <2>4, <2>5, <2>6 DEF g
<1>5. CASE ChangedKeys(list) = {}
  <2>1. g = history BY <1>5 DEF HistoryAfter
  <2>2. Len(history) <= MaxStorage BY <1>1 DEF HistoryIsAChain
  <2>3. MostRecentId(history) = maxId
    <3>1. MostRecentId(history) \in Nat /\ maxId \in Nat
      BY <1>1, <1>2, ChainMaxId DEF TypeOK
    <3>2. MostRecentId(history) <= maxId
      <4>1. CASE history = <<>> BY <1>1, <4>1 DEF MostRecentId, TypeOK
      <4>2. CASE history # <<>>
        <5>1. Len(history) \in DOMAIN history BY <1>2, <4>2, ChainMostRecent
        <5> QED BY <1>1, <4>2, <5>1 DEF MostRecentId, HistoryIsAChain
      <4> QED BY <4>1, <4>2
    <3> QED BY <1>2, <3>1, <3>2
  <2>4. ASSUME NEW new, NEW D \in SUBSET (Key \ drifted), IsBetween(new, list, lasts, D)
        PROVE  Accounts(history, new, D)
    <3>1. Accounts(history, GetAll(disk), D) BY <1>1 DEF OnFiles, Accounts
    <3>2. ASSUME NEW k \in D, ~IsLast(k)
          PROVE  SameValue(GetAll(disk)[k], new[k])
      <4>1. GetAll(disk)[k] = values[k] BY <1>1 DEF CacheAgrees
      <4>2. k \in Key /\ k \notin ChangedKeys(list) BY <1>5
      <4>3. UpdateItems(values, list \o lasts)[k] =
               IF Touches(list, k) THEN LastWrite(list, k) ELSE values[k]
        BY <1>1, <3>2, <4>2, UpdatedValue
      <4>4. SameValue(values[k], UpdateItems(values, list \o lasts)[k])
        BY <3>2, <4>2, <4>3 DEF ChangedKeys, SameValue
      <4> QED BY <2>4, <3>2, <4>1, <4>4 DEF IsBetween, SameValue
    <3> QED BY <1>2, <3>1, <3>2, EqualAccounts
  <2> QED BY <1>2, <1>3, <1>5, <2>1, <2>2, <2>3, <2>4
<1> QED BY <1>4, <1>5

----------------------------------------------------------------------------
\* The steps.

\* Staging and the ends of hooks change neither the history nor the values.
LEMMA QuietStep ==
    ASSUME FilesInv, Staging \/ Completion
    PROVE  FilesInv' /\ maxId' = maxId
<1>1. UNCHANGED <<values, history, maxId>> /\ UNCHANGED storage
  BY DEF Staging, Completion, SetRequest, EraseRequest, DropRequest, ResetRefused,
         HooksEnd, HooksSucceed, HooksFail, HooksDone, HooksBroken
<1>2. Next BY DEF Staging, Completion, Next, Request, ResetRequest
<1>3. IsGoodMap(inFlight') /\ running' \in SUBSET HookRun
  <2>1. MapInv /\ HistoryIsAChain BY DEF FilesInv
  <2>2. CASE StagingStep
    BY <2>1, <2>2 DEF StagingStep, IsStagingOf, MapInv, TypeOK
  <2>3. CASE \E list \in Seq(Pair) : \E lasts \in LastItems(list) : Commits(list, lasts)
    BY <2>3 DEF Commits, KeepsRuns
  <2>4. CASE HooksStep
    <3>1. PICK run \in running : HooksDone(run) \/ HooksBroken(run) BY <2>4 DEF HooksStep
    <3>2. IsGoodMap(inFlight)
      BY <2>1 DEF MapInv, TypeOK, AgeOrderMatchesBuckets, IsGoodMap
    <3>3. IsGoodMap(inFlight') BY <3>1, <3>2, DropGood DEF HooksDone, HooksBroken
    <3>4. running \in SUBSET HookRun BY <2>1 DEF MapInv, TypeOK
    <3>5. [run EXCEPT !.broken = TRUE] \in HookRun BY <3>4 DEF HookRun
    <3>6. running' \in SUBSET HookRun BY <3>1, <3>4, <3>5 DEF HooksDone, HooksBroken
    <3> QED BY <3>3, <3>6
  <2> QED BY <1>2, <2>1, <2>2, <2>3, <2>4, StepKinds, CommitShape
<1>4. MapInv'
  BY <1>1, <1>3 DEF FilesInv, MapInv, TypeOK, IsGoodMap, AgeOrderMatchesBuckets
<1>5. HistoryIsAChain' BY <1>1 DEF FilesInv, HistoryIsAChain
<1>6. /\ (up => OnFiles(history) /\ CacheAgrees)'
      /\ (~up /\ torn = {} => \E h : OnFiles(h))'
  BY <1>1 DEF FilesInv, OnFiles, CacheAgrees, storage
<1> QED BY <1>1, <1>4, <1>5, <1>6 DEF FilesInv

\* A commit that is stored completely.
LEMMA StoringStep ==
    ASSUME FilesInv, up, NEW m, NEW c \in Id, NEW config,
           IsStagingOf(m), CommitBucket(m, c, config), Store(m, c)
    PROVE  FilesInv' /\ (maxId' = maxId \/ maxId' = maxId + 1)
<1>1. MapInv /\ HistoryIsAChain /\ OnFiles(history) /\ CacheAgrees BY DEF FilesInv
<1>2. CASE ~(Exists(m, c) /\ ~IsBucketLocked(m, c))
  <2>1. inFlight' = m /\ UNCHANGED <<values, history, maxId, running>>
    BY <1>2 DEF CommitBucket
  <2>2. UNCHANGED storage BY <1>2 DEF Store
  <2>3. MapInv'
    BY <1>1, <2>1 DEF MapInv, TypeOK, IsStagingOf, IsGoodMap, AgeOrderMatchesBuckets
  <2>4. HistoryIsAChain' BY <1>1, <2>1 DEF HistoryIsAChain
  <2>5. /\ (up => OnFiles(history) /\ CacheAgrees)'
        /\ (~up /\ torn = {} => \E h : OnFiles(h))'
    BY <2>1, <2>2 DEF FilesInv, OnFiles, CacheAgrees, storage
  <2> QED BY <2>1, <2>3, <2>4, <2>5 DEF FilesInv
<1>3. CASE Exists(m, c) /\ ~IsBucketLocked(m, c)
  <2> DEFINE list == GetBucket(m, c)
             g == HistoryAfter(list)
             D == Key \ drifted'
  <2>1. list \in Seq(Pair) /\ \E lasts \in LastItems(list) : Commits(list, lasts)
    BY <1>1, <1>3, BucketCommit
  <2>2. PICK lasts \in LastItems(list) : Commits(list, lasts) BY <2>1
  <2> HIDE DEF list
  <2>3. /\ files' = FilesAfter(history')
        /\ drifted' = drifted \cup DifferOnDisk(values', disk')
        /\ UNCHANGED <<torn, up>>
    BY <1>3 DEF Store
  <2>4. /\ values' = UpdateItems(values, list \o lasts)
        /\ history' = g
        /\ maxId' = IF ChangedKeys(list) # {} THEN maxId + 1 ELSE maxId
        /\ IsGoodMap(inFlight')
        /\ running' \in SUBSET HookRun
    BY <2>2 DEF Commits, IsLogging, HistoryAfter, KeepsRuns
  <2>5. /\ IsChain(g)
        /\ Len(g) <= MaxStorage
        /\ FilesAfter(g) = Range(g)
        /\ MostRecentId(g) = IF ChangedKeys(list) # {} THEN maxId + 1 ELSE maxId
        /\ \A new : \A E \in SUBSET (Key \ drifted) :
              IsBetween(new, list, lasts, E) => Accounts(g, new, E)
    BY <2>1, HistoryAfterCommit
  <2> HIDE DEF g
  <2>6. maxId \in Nat BY <1>1 DEF MapInv, TypeOK
  <2>7. \A k \in D : GetAll(disk')[k] = values'[k] BY <2>3 DEF DifferOnDisk
  <2>8. Accounts(g, GetAll(disk'), D)
    <3>1. D \in SUBSET (Key \ drifted) BY <2>3
    <3>2. IsBetween(GetAll(disk'), list, lasts, D) BY <2>4, <2>7 DEF IsBetween
    <3> QED BY <2>5, <3>1, <3>2
  <2>9. OnFiles(history)' /\ CacheAgrees'
    <3>1. maxId' <= MostRecentId(g) BY <2>4, <2>5, <2>6
    <3> QED BY <2>3, <2>4, <2>5, <2>7, <2>8, <3>1 DEF OnFiles, CacheAgrees
  <2>10. MapInv'
    <3>1. values' \in [Key -> MaybeValue]
      <4>1. lasts \in Seq(Pair) BY <1>1, <2>1, LastItemsType DEF MapInv
      <4>2. list \o lasts \in Seq(Pair) BY <2>1, <4>1
      <4> QED BY <1>1, <2>4, <4>2, UpdateItemsType DEF MapInv, TypeOK
    <3>2. history' \in Seq(Range(history')) /\ \A i \in DOMAIN history' : IsCommit(history'[i])
      BY <2>4, <2>5 DEF IsChain
    <3>3. maxId' \in Nat BY <2>4, <2>6
    <3> QED BY <2>4, <3>1, <3>2, <3>3 DEF MapInv, TypeOK, IsGoodMap, AgeOrderMatchesBuckets
  <2>11. HistoryIsAChain'
    <3>1. ASSUME NEW i \in DOMAIN g PROVE g[i].id <= maxId'
      <4>1. g # <<>> BY <3>1
      <4>2. g[i].id <= g[Len(g)].id BY <2>5, <4>1, ChainMostRecent
      <4>3. MostRecentId(g) = g[Len(g)].id BY <4>1 DEF MostRecentId
      <4> QED BY <2>4, <2>5, <4>2, <4>3
    <3> QED BY <2>4, <2>5, <3>1 DEF HistoryIsAChain, IsChain
  <2>12. up' BY <2>3
  <2> QED BY <2>4, <2>9, <2>10, <2>11, <2>12 DEF FilesInv
<1> QED BY <1>2, <1>3

\* A crash leaves nothing in memory.
LEMMA StoppedInv ==
    ASSUME FilesInv, Stop
    PROVE  MapInv' /\ HistoryIsAChain' /\ ~up' /\ maxId' = maxId
<1>1. /\ inFlight' = EmptyMap /\ values' = [k \in Key |-> Empty] /\ history' = <<>>
      /\ running' = {} /\ up' = FALSE /\ maxId' = maxId
  BY DEF Stop
<1>2. MapInv'
  <2>1. IsInFlightMap(EmptyMap) /\ IsCoherent(EmptyMap)
    BY EmptyMapGood DEF IsGoodMap
  <2>2. history' \in Seq(Range(history')) /\ DOMAIN history' = {}
    BY <1>1 DEF Range
  <2>3. values' \in [Key -> MaybeValue] BY <1>1 DEF MaybeValue
  <2> QED BY <1>1, <2>1, <2>2, <2>3 DEF FilesInv, MapInv, TypeOK, AgeOrderMatchesBuckets
<1>3. HistoryIsAChain'
  <2>1. Len(history') = 0 /\ DOMAIN history' = {} BY <1>1
  <2> QED BY <2>1, MaxStorageAssumption DEF HistoryIsAChain
<1> QED BY <1>1, <1>2, <1>3

\* A crash keeps the invariant of the files.
LEMMA CrashStep ==
    ASSUME FilesInv, up, Crash
    PROVE  FilesInv' /\ maxId' = maxId
<1>1. Stop /\ UNCHANGED <<disk, files, torn, drifted>> BY DEF Crash
<1>2. MapInv' /\ HistoryIsAChain' /\ ~up' /\ maxId' = maxId BY <1>1, StoppedInv
<1>3. OnFiles(history) BY DEF FilesInv
<1>4. (\E h : OnFiles(h))'
  <2>1. IsChain(history) /\ Range(history) = files'
        /\ maxId' <= MostRecentId(history)
        /\ Accounts(history, GetAll(disk'), Key \ drifted')
    BY <1>1, <1>2, <1>3 DEF OnFiles
  <2> QED BY <2>1 DEF OnFiles
<1> QED BY <1>2, <1>4 DEF FilesInv

\* A commit that is cut off: unless it leaves a torn file, the files hold a
\* chain, with or without the new commit.
LEMMA CutOffStep ==
    ASSUME FilesInv, up, NEW m, NEW c \in Id, IsStagingOf(m), CrashInCommit(m, c)
    PROVE  FilesInv' /\ maxId' = maxId
<1> DEFINE list   == GetBucket(m, c)
           logs   == ChangedKeys(list) # {}
           commit == TheCommit(list)
           pairs  == GetBucket(Retained(m, c), c)
           new    == UpdateItems(values, Batch(m, c))
           g      == HistoryAfter(list)
<1>1. Stop BY DEF CrashInCommit
<1>2. MapInv' /\ HistoryIsAChain' /\ ~up' /\ maxId' = maxId BY <1>1, StoppedInv
<1>3. TypeOK /\ OnFiles(history) /\ CacheAgrees BY DEF FilesInv, MapInv
<1>4. IsChain(history) /\ Range(history) = files BY <1>3 DEF OnFiles
<1>5. list \in Seq(Pair) BY GetBucketType DEF IsStagingOf
<1>6. PICK lasts \in LastItems(list) : Batch(m, c) = list \o lasts BY <1>5, BatchShape
<1>7. \/ logs /\ CrashInStoreCommit(commit)
      \/ logs /\ CrashBeforeDropCommit(commit)
      \/ \E n \in 0..Len(FileOrder) : CrashInGroupSet(g, new, pairs, n)
  BY DEF CrashInCommit, TheCommit, HistoryAfter
<1> HIDE DEF list, commit, pairs, g
<1>8. maxId \in Nat BY <1>3 DEF TypeOK
<1>9. CASE logs /\ CrashInStoreCommit(commit)
  <2>1. torn' # {} BY <1>9 DEF CrashInStoreCommit
  <2> QED BY <1>2, <2>1 DEF FilesInv
<1>10. CASE logs /\ CrashBeforeDropCommit(commit)
  <2> DEFINE l == Append(history, commit)
  <2>1. /\ IsChain(l)
        /\ Range(l) = files \cup {commit}
        /\ MostRecentId(l) = maxId + 1
        /\ \A v : \A D \in SUBSET (Key \ drifted) :
              IsBetween(v, list, lasts, D) => Accounts(l, v, D)
    BY <1>5, <1>10, LoggedAccounts DEF commit
  <2> HIDE DEF l
  <2>2. files' = files \cup {commit} /\ UNCHANGED <<disk, torn, drifted>>
    BY <1>10 DEF CrashBeforeDropCommit
  <2>3. IsBetween(GetAll(disk), list, lasts, Key \ drifted)
    BY <1>3 DEF CacheAgrees, IsBetween
  <2>4. Accounts(l, GetAll(disk), Key \ drifted) BY <2>1, <2>3
  <2>5. /\ IsChain(l) /\ Range(l) = files' /\ maxId' <= MostRecentId(l)
        /\ Accounts(l, GetAll(disk'), Key \ drifted')
    BY <1>2, <1>8, <2>1, <2>2, <2>4
  <2> QED BY <1>2, <2>5 DEF FilesInv, OnFiles
<1>11. CASE \E n \in 0..Len(FileOrder) : CrashInGroupSet(g, new, pairs, n)
  <2> DEFINE D == Key \ drifted'
  <2>1. /\ files' = FilesAfter(g)
        /\ drifted' = drifted \cup (DifferOnDisk(values, disk') \cap DifferOnDisk(new, disk'))
    BY <1>11 DEF CrashInGroupSet
  <2>2. /\ IsChain(g)
        /\ FilesAfter(g) = Range(g)
        /\ MostRecentId(g) = IF logs THEN maxId + 1 ELSE maxId
        /\ \A v : \A E \in SUBSET (Key \ drifted) :
              IsBetween(v, list, lasts, E) => Accounts(g, v, E)
    BY <1>5, HistoryAfterCommit DEF g
  <2>3. D \in SUBSET (Key \ drifted) BY <2>1
  <2>4. IsBetween(GetAll(disk'), list, lasts, D)
    BY <1>6, <2>1 DEF DifferOnDisk, IsBetween
  <2>5. Accounts(g, GetAll(disk'), D) BY <2>2, <2>3, <2>4
  <2>6. maxId' <= MostRecentId(g) BY <1>2, <1>8, <2>2
  <2> QED BY <1>2, <2>1, <2>2, <2>5, <2>6 DEF FilesInv, OnFiles
<1> QED BY <1>7, <1>9, <1>10, <1>11

\* The value files hold values.
LEMMA GetAllType ==
    ASSUME NEW d
    PROVE  GetAll(d) \in [Key -> MaybeValue]
<1>1. ASSUME NEW k \in Key PROVE GetAll(d)[k] \in MaybeValue
  <2> DEFINE found == {s \in Slots : SlotKey(s) = k /\ d[s] \in Value}
  <2>1. GetAll(d)[k] = IF found = {} THEN Empty ELSE d[CHOOSE s \in found : TRUE]
    BY DEF GetAll
  <2>2. CASE found = {} BY <2>1, <2>2 DEF MaybeValue
  <2>3. CASE found # {}
    <3>1. (CHOOSE s \in found : TRUE) \in found
      <4> HIDE DEF found
      <4> QED BY <2>3
    <3>2. d[CHOOSE s \in found : TRUE] \in Value BY <3>1
    <3> HIDE DEF found
    <3> QED BY <2>1, <2>3, <3>2 DEF MaybeValue
  <2> QED BY <2>2, <2>3
<1> QED BY <1>1 DEF GetAll

\* The daemon comes up with the chain of the files.
LEMMA RestartStep ==
    ASSUME FilesInv, Restart
    PROVE  FilesInv' /\ maxId' >= maxId
<1>1. /\ ~up /\ torn = {} /\ up' = TRUE
      /\ values' = GetAll(disk)
      /\ history' = DropExcessiveCommits(Sort(files))
      /\ files' = files \ (Range(Sort(files)) \ Range(history'))
      /\ maxId' = FindMaxCommitId(files)
      /\ UNCHANGED <<inFlight, running, disk, torn, drifted>>
  BY DEF Restart
<1>2. PICK h : OnFiles(h) BY <1>1 DEF FilesInv
<1>3. /\ IsChain(h) /\ Range(h) = files /\ maxId <= MostRecentId(h)
      /\ Accounts(h, GetAll(disk), Key \ drifted)
  BY <1>2 DEF OnFiles
<1>4. Sort(files) = h BY <1>3, SortFindsChain
<1>5. maxId' = MostRecentId(h) /\ MostRecentId(h) \in Nat BY <1>1, <1>3, ChainMaxId
<1>6. /\ IsChain(history') /\ Range(history') \subseteq Range(h)
      /\ Len(history') <= MaxStorage
      /\ MostRecentId(history') = MostRecentId(h)
      /\ Accounts(history', GetAll(disk), Key \ drifted)
  BY <1>1, <1>3, <1>4, ChainCut
<1>7. files' = Range(history') BY <1>1, <1>3, <1>4, <1>6
<1>8. OnFiles(history)' /\ CacheAgrees'
  <2>1. maxId' <= MostRecentId(history') BY <1>5, <1>6
  <2> QED BY <1>1, <1>6, <1>7, <2>1 DEF OnFiles, CacheAgrees
<1>9. MapInv'
  <2>1. values' \in [Key -> MaybeValue] BY <1>1, GetAllType
  <2>2. history' \in Seq(Range(history')) /\ \A i \in DOMAIN history' : IsCommit(history'[i])
    BY <1>6 DEF IsChain
  <2> QED BY <1>1, <1>5, <2>1, <2>2 DEF FilesInv, MapInv, TypeOK, AgeOrderMatchesBuckets
<1>10. HistoryIsAChain'
  <2> DEFINE g == history'
  <2>1. ASSUME NEW i \in DOMAIN g PROVE g[i].id <= maxId'
    <3>1. g # <<>> BY <2>1
    <3>2. g[i].id <= g[Len(g)].id BY <1>6, <3>1, ChainMostRecent
    <3>3. MostRecentId(g) = g[Len(g)].id BY <3>1 DEF MostRecentId
    <3> QED BY <1>5, <1>6, <3>2, <3>3
  <2> QED BY <1>6, <2>1 DEF HistoryIsAChain, IsChain
<1>11. maxId' >= maxId
  <2>1. maxId \in Nat BY DEF FilesInv, MapInv, TypeOK
  <2> QED BY <1>3, <1>5, <2>1
<1> QED BY <1>1, <1>8, <1>9, <1>10, <1>11 DEF FilesInv

\* What Rollback and Reset stage before they commit.
LEMMA RollbackStages ==
    ASSUME MapInv, NEW i \in DOMAIN history, NEW pairs \in RollbackPairs(history[i])
    PROVE  IsStagingOf(Insert(inFlight, RollbackId, pairs)) /\ RollbackId \in Id
<1>1. IsGoodMap(inFlight) BY DEF MapInv, TypeOK, AgeOrderMatchesBuckets, IsGoodMap
<1>2. pairs \in Seq(Pair) BY RollbackPairsType DEF MapInv, TypeOK
<1>3. RollbackId \in Id BY DEF Id
<1> QED BY <1>1, <1>2, <1>3, InsertGood DEF IsStagingOf

\* A reset stages into the bucket of its client before it commits.
LEMMA ResetStages ==
    ASSUME MapInv, NEW c \in Client, NEW pairs \in ResetPairs
    PROVE  IsStagingOf(Insert(inFlight, c, pairs)) /\ c \in Id
<1>1. IsGoodMap(inFlight) BY DEF MapInv, TypeOK, AgeOrderMatchesBuckets, IsGoodMap
<1>2. pairs \in Seq(Pair) BY ResetPairsType DEF MapInv
<1>3. c \in Id BY DEF Id
<1> QED BY <1>1, <1>2, <1>3, InsertGood DEF IsStagingOf

\* A commit of what is in flight stages nothing more.
LEMMA NothingStaged ==
    ASSUME MapInv, NEW c \in Client
    PROVE  IsStagingOf(inFlight) /\ c \in Id
BY DEF MapInv, TypeOK, AgeOrderMatchesBuckets, IsGoodMap, IsStagingOf, Id

\* The kinds of steps of the daemon.
CompleteCommit ==
    /\ up
    /\ \E m : \E c \in Id : \E config :
          IsStagingOf(m) /\ CommitBucket(m, c, config) /\ Store(m, c)

CutOffCommit == up /\ \E m : \E c \in Id : IsStagingOf(m) /\ CrashInCommit(m, c)

\* Every step of the daemon is one of the kinds that the lemmas above are about.
LEMMA DaemonStepKinds ==
    ASSUME MapInv, DaemonNext
    PROVE  \/ up /\ (Staging \/ Completion)
           \/ CompleteCommit
           \/ up /\ Crash
           \/ CutOffCommit
           \/ Restart
<1>1. ASSUME up, NEW c \in Client, NEW config \in Config, Commit(c, config)
      PROVE  CompleteCommit
  BY <1>1, NothingStaged DEF Commit, CommitRequest, CompleteCommit
<1>2. ASSUME up, NEW i \in DOMAIN history, Rollback(i) PROVE CompleteCommit
  <2>1. PICK pairs \in RollbackPairs(history[i]) :
           /\ RollbackWith(i, pairs)
           /\ Store(Insert(inFlight, RollbackId, pairs), RollbackId)
    BY <1>2 DEF Rollback
  <2> QED BY <1>2, <2>1, RollbackStages DEF RollbackWith, CompleteCommit
<1>3. ASSUME up, NEW c \in Client, Reset(c) PROVE CompleteCommit
  <2>1. PICK pairs \in ResetPairs :
           ResetWith(c, pairs) /\ Store(Insert(inFlight, c, pairs), c)
    BY <1>3 DEF Reset
  <2> QED BY <1>3, <2>1, ResetStages DEF ResetWith, CompleteCommit
<1>4. ASSUME up, NEW c \in Client, CrashInCommit(inFlight, c) PROVE CutOffCommit
  BY <1>4, NothingStaged DEF CutOffCommit
<1>5. ASSUME up, NEW c \in Client, CrashInReset(c) PROVE CutOffCommit
  <2>1. PICK pairs \in ResetPairs : CrashInCommit(Insert(inFlight, c, pairs), c)
    BY <1>5 DEF CrashInReset
  <2> QED BY <1>5, <2>1, ResetStages DEF CutOffCommit
<1>6. ASSUME up, NEW i \in DOMAIN history, CrashInRollback(i) PROVE CutOffCommit
  <2>1. PICK pairs \in RollbackPairs(history[i]) :
           CrashInCommit(Insert(inFlight, RollbackId, pairs), RollbackId)
    BY <1>6 DEF CrashInRollback
  <2> QED BY <1>6, <2>1, RollbackStages DEF CutOffCommit
<1> QED BY <1>1, <1>2, <1>3, <1>4, <1>5, <1>6 DEF DaemonNext

\* Every step keeps the invariant of the files, and no commit id is reused.
LEMMA NextFilesInv == FilesInv /\ [DaemonNext]_allVars => FilesInv' /\ maxId' >= maxId
<1> SUFFICES ASSUME FilesInv, [DaemonNext]_allVars PROVE FilesInv' /\ maxId' >= maxId
  OBVIOUS
<1>1. maxId \in Nat /\ MapInv BY DEF FilesInv, MapInv, TypeOK
<1>2. CASE UNCHANGED allVars
  <2>1. UNCHANGED vars /\ UNCHANGED storage BY <1>2 DEF allVars
  <2>2. MapInv' BY <1>1, <2>1 DEF vars, MapInv, TypeOK, AgeOrderMatchesBuckets
  <2>3. HistoryIsAChain' BY <2>1 DEF vars, FilesInv, HistoryIsAChain
  <2>4. /\ (up => OnFiles(history) /\ CacheAgrees)'
        /\ (~up /\ torn = {} => \E h : OnFiles(h))'
    BY <2>1 DEF FilesInv, OnFiles, CacheAgrees, vars, storage
  <2>5. maxId' >= maxId BY <1>1, <2>1 DEF vars
  <2> QED BY <2>2, <2>3, <2>4, <2>5 DEF FilesInv
<1>3. CASE DaemonNext
  <2>1. CASE up /\ (Staging \/ Completion) BY <1>1, <2>1, QuietStep
  <2>2. CASE CompleteCommit BY <1>1, <2>2, StoringStep DEF CompleteCommit
  <2>3. CASE up /\ Crash BY <1>1, <2>3, CrashStep
  <2>4. CASE CutOffCommit BY <1>1, <2>4, CutOffStep DEF CutOffCommit
  <2>5. CASE Restart BY <2>5, RestartStep
  <2> QED BY <1>1, <1>3, <2>1, <2>2, <2>3, <2>4, <2>5, DaemonStepKinds
<1> QED BY <1>2, <1>3

\* The invariant of the files, for the whole specification.
LEMMA FilesInvariance == DaemonSpec => []FilesInv
<1>1. FilesInv /\ [DaemonNext]_allVars => FilesInv' BY NextFilesInv
<1> QED BY <1>1, InitFilesInv, PTL DEF DaemonSpec

\* Whatever crashes came before, a running daemon has exactly the commits of
\* its commit files in its history: StoreCommit and DropCommit leave no orphan
\* that Sort does not reach and DropExcessiveCommits no file that stays.
THEOREM HistoryIsOnFiles == DaemonSpec => []HistoryMatchesFiles
<1>1. FilesInv => HistoryMatchesFiles BY DEF FilesInv, OnFiles, HistoryMatchesFiles
<1> QED BY <1>1, FilesInvariance, PTL

\* FindMaxCommitId never falls behind the ids that were given out before a
\* crash: DropExcessiveCommits keeps the youngest commit, so that DropCommit
\* never removes the file that holds the largest id.
THEOREM IdsStayFresh == DaemonSpec => IdsAreNotReused
<1>1. FilesInv /\ [DaemonNext]_allVars => [maxId' >= maxId]_allVars BY NextFilesInv
<1> QED BY <1>1, FilesInvariance, PTL DEF DaemonSpec, IdsAreNotReused

\* LogCommit comes before the values are written: for a key without drift the
\* youngest commit in the history that changed it has the current value as its
\* new one, or as its old one.
THEOREM HistoryIsWrittenAhead == DaemonSpec => []HistoryIsAheadOfValues
<1>1. ASSUME FilesInv PROVE HistoryIsAheadOfValues
  <2> SUFFICES ASSUME up, NEW i \in DOMAIN history, NEW k \in Key \ drifted,
                      IsYoungestChange(i, k)
               PROVE  \/ SameValue(history[i].deltas[k].new, values[k])
                      \/ SameValue(history[i].deltas[k].old, values[k])
    BY DEF HistoryIsAheadOfValues
  <2>1. Accounts(history, GetAll(disk), Key \ drifted) /\ CacheAgrees
    BY <1>1 DEF FilesInv, OnFiles
  <2>2. GetAll(disk)[k] = values[k] BY <2>1 DEF CacheAgrees
  <2>3. IsYoungestIn(history, i, k) BY DEF IsYoungestChange, IsYoungestIn
  <2> QED BY <2>1, <2>2, <2>3 DEF Accounts
<1> QED BY <1>1, FilesInvariance, PTL

----------------------------------------------------------------------------
\* The daemon implements DurableHistory.

\* DropExcessiveCommits is the cut of the abstract log, and leaves a short list
\* alone.
LEMMA CutIsYoungest ==
    ASSUME NEW h
    PROVE  durable!Youngest(h) = DropExcessiveCommits(h)
BY DEF durable!Youngest, DropExcessiveCommits

\* A history that is within its bound loses no commit.
LEMMA ShortIsKept ==
    ASSUME NEW h, IsChain(h), Len(h) <= MaxStorage
    PROVE  DropExcessiveCommits(h) = h
<1>1. Len(h) \in Nat /\ MaxStorage \in Nat BY ChainFacts, MaxStorageAssumption
<1>2. ~(Len(h) > MaxStorage) BY <1>1
<1> QED BY <1>2 DEF DropExcessiveCommits

\* What a stopped daemon would show when its files hold a chain.
LEMMA ShownAfterCrash ==
    ASSUME NEW h, IsChain(h), ~up', files' = Range(h)
    PROVE  Shown' = DropExcessiveCommits(h)
<1>1. Sort(files') = h BY SortFindsChain
<1> QED BY <1>1 DEF Shown

\* The list after a commit ends with the commit.
LEMMA LoggedIsAdded ==
    ASSUME FilesInv, up, NEW list \in Seq(Pair), ChangedKeys(list) # {}
    PROVE  durable!Adds(LogCommit(history, TheCommit(list)))
<1> DEFINE commit == TheCommit(list)
           new == LogCommit(history, commit)
           S == Range(history) \cup {commit}
<1>1. TypeOK /\ HistoryIsAChain /\ IsChain(history) /\ maxId \in Nat
  BY DEF FilesInv, MapInv, OnFiles, TypeOK
<1>2. commit.id = maxId + 1 /\ commit.parent = MostRecentId(history) /\ commit.parent <= maxId
  BY <1>1, TheCommitType
<1>3. MostRecentId(history) \in Nat /\ Len(history) \in Nat
  BY <1>1, ChainMaxId, ChainFacts
<1>4. Shown = history BY DEF Shown
<1>5. durable!LastId = MostRecentId(history)
  BY <1>4 DEF durable!LastId, MostRecentId
<1> HIDE DEF commit, new
<1>6. history \in Seq(S) /\ commit \in S BY <1>1, SeqMonotonic DEF IsChain
<1> HIDE DEF S
<1>7. PICK d \in 0..Len(history) :
         /\ new \in Seq(S)
         /\ Len(new) = Len(history) + 1 - d
         /\ \A i \in 1..Len(history) + 1 - d :
               new[i] = IF i + d <= Len(history) THEN history[i + d] ELSE commit
  BY <1>6, LogCommitShape DEF new
<1>8. Len(new) \in 1..Len(history) + 1 - d /\ ~(Len(new) + d <= Len(history))
  BY <1>3, <1>7
<1>9. new[Len(new)] = commit BY <1>7, <1>8
<1>10. new # <<>> BY <1>8
<1>11. new = durable!Youngest(Append(Shown, commit))
  BY <1>4, CutIsYoungest DEF new, LogCommit
<1>12. commit.id > durable!LastId BY <1>1, <1>2, <1>3, <1>5
<1>13. durable!Adds(new)
  BY <1>2, <1>5, <1>9, <1>10, <1>11, <1>12 DEF durable!Adds
<1> QED BY <1>13 DEF new, commit

\* A commit that is stored completely is one step of the log, or none.
LEMMA StoringSurvives ==
    ASSUME FilesInv, up, NEW m, NEW c \in Id, NEW config,
           IsStagingOf(m), CommitBucket(m, c, config), Store(m, c)
    PROVE  [durable!Next]_(durable!vars)
<1>1. MapInv /\ HistoryIsAChain BY DEF FilesInv
<1>2. CASE ~(Exists(m, c) /\ ~IsBucketLocked(m, c))
  <2>1. UNCHANGED history BY <1>2 DEF CommitBucket
  <2>2. UNCHANGED <<up, torn>> BY <1>2 DEF Store, storage
  <2>3. Shown = history /\ Shown' = history' BY <2>2 DEF Shown
  <2> QED BY <2>1, <2>2, <2>3 DEF durable!vars
<1>3. CASE Exists(m, c) /\ ~IsBucketLocked(m, c)
  <2> DEFINE list == GetBucket(m, c)
  <2>1. list \in Seq(Pair) /\ \E lasts \in LastItems(list) : Commits(list, lasts)
    BY <1>1, <1>3, BucketCommit
  <2> HIDE DEF list
  <2>2. history' = HistoryAfter(list) BY <2>1 DEF Commits, IsLogging, HistoryAfter
  <2>3. UNCHANGED <<torn, up>> BY <1>3 DEF Store
  <2>4. Shown = history /\ Shown' = history' BY <2>3 DEF Shown
  <2>5. CASE ChangedKeys(list) # {}
    <3>1. durable!Adds(Shown')
      BY <2>1, <2>2, <2>4, <2>5, LoggedIsAdded DEF HistoryAfter
    <3>2. durable!Log BY <2>3, <3>1 DEF durable!Log
    <3> QED BY <3>2 DEF durable!Next
  <2>6. CASE ChangedKeys(list) = {}
    BY <2>2, <2>3, <2>4, <2>6 DEF HistoryAfter, durable!vars
  <2> QED BY <2>5, <2>6
<1> QED BY <1>2, <1>3

\* A commit that is cut off leaves the log as it was or adds the commit to it.
LEMMA CutOffSurvives ==
    ASSUME FilesInv, up, NEW m, NEW c \in Id, IsStagingOf(m), CrashInCommit(m, c)
    PROVE  durable!Crash
<1> DEFINE list   == GetBucket(m, c)
           logs   == ChangedKeys(list) # {}
           commit == TheCommit(list)
           pairs  == GetBucket(Retained(m, c), c)
           values2 == UpdateItems(values, Batch(m, c))
           g      == HistoryAfter(list)
<1>1. Stop /\ ~up' BY DEF CrashInCommit, Stop
<1>2. HistoryIsAChain /\ IsChain(history) /\ Range(history) = files
  BY DEF FilesInv, OnFiles
<1>3. Shown = history BY DEF Shown
<1>4. DropExcessiveCommits(history) = history
  BY <1>2, ShortIsKept DEF HistoryIsAChain
<1>5. list \in Seq(Pair) BY GetBucketType DEF IsStagingOf
<1>6. PICK lasts \in LastItems(list) : Batch(m, c) = list \o lasts BY <1>5, BatchShape
<1>7. \/ logs /\ CrashInStoreCommit(commit)
      \/ logs /\ CrashBeforeDropCommit(commit)
      \/ \E n \in 0..Len(FileOrder) : CrashInGroupSet(g, values2, pairs, n)
  BY DEF CrashInCommit, TheCommit, HistoryAfter
<1> HIDE DEF list, commit, pairs, g, values2
<1>8. logs => durable!Adds(LogCommit(history, commit))
  BY <1>5, LoggedIsAdded DEF commit
<1>9. CASE logs /\ CrashInStoreCommit(commit)
  <2>1. torn' # {} /\ files' = files BY <1>9 DEF CrashInStoreCommit
  <2>2. Shown' = Shown BY <1>1, <1>2, <1>3, <1>4, <2>1, ShownAfterCrash
  <2> QED BY <1>1, <2>1, <2>2 DEF durable!Crash
<1>10. CASE logs /\ CrashBeforeDropCommit(commit)
  <2> DEFINE l == Append(history, commit)
  <2>1. IsChain(l) /\ Range(l) = files \cup {commit}
    BY <1>5, <1>10, LoggedAccounts DEF commit
  <2> HIDE DEF l
  <2>2. files' = files \cup {commit} /\ torn' = torn
    BY <1>10 DEF CrashBeforeDropCommit
  <2>3. Shown' = DropExcessiveCommits(l) BY <1>1, <2>1, <2>2, ShownAfterCrash
  <2>4. durable!Adds(Shown') BY <1>8, <1>10, <2>3 DEF l, LogCommit
  <2> QED BY <1>1, <2>2, <2>4 DEF durable!Crash
<1>11. CASE \E n \in 0..Len(FileOrder) : CrashInGroupSet(g, values2, pairs, n)
  <2>1. files' = FilesAfter(g) /\ torn' = torn BY <1>11 DEF CrashInGroupSet
  <2>2. IsChain(g) /\ Len(g) <= MaxStorage /\ FilesAfter(g) = Range(g)
    BY <1>5, HistoryAfterCommit DEF g
  <2>3. Shown' = g BY <1>1, <2>1, <2>2, ShownAfterCrash, ShortIsKept
  <2>4. CASE logs
    <3>1. durable!Adds(Shown') BY <1>8, <2>3, <2>4 DEF g, HistoryAfter, commit
    <3> QED BY <1>1, <2>1, <3>1 DEF durable!Crash
  <2>5. CASE ~logs
    <3>1. Shown' = Shown BY <1>3, <2>3, <2>5 DEF g, HistoryAfter
    <3> QED BY <1>1, <2>1, <3>1 DEF durable!Crash
  <2> QED BY <2>4, <2>5
<1> QED BY <1>7, <1>9, <1>10, <1>11

\* Every step of the daemon is a step of the log or leaves it alone.
LEMMA StepSurvives == FilesInv /\ [DaemonNext]_allVars => [durable!Next]_(durable!vars)
<1> SUFFICES ASSUME FilesInv, [DaemonNext]_allVars
             PROVE  [durable!Next]_(durable!vars)
  OBVIOUS
<1>1. MapInv BY DEF FilesInv
<1>2. CASE UNCHANGED allVars
  BY <1>2 DEF allVars, vars, storage, durable!vars, Shown
<1>3. CASE up /\ (Staging \/ Completion)
  <2>1. UNCHANGED history /\ UNCHANGED storage
    BY <1>3 DEF Staging, Completion, SetRequest, EraseRequest, DropRequest, ResetRefused,
                HooksEnd, HooksSucceed, HooksFail, HooksDone, HooksBroken
  <2> QED BY <2>1 DEF storage, durable!vars, Shown
<1>4. CASE CompleteCommit BY <1>4, StoringSurvives DEF CompleteCommit
<1>5. CASE up /\ Crash
  <2>1. ~up' /\ files' = files /\ torn' = torn BY <1>5 DEF Crash, Stop
  <2>2. IsChain(history) /\ Range(history) = files /\ Len(history) <= MaxStorage
    BY <1>5 DEF FilesInv, OnFiles, HistoryIsAChain
  <2>3. Shown = history BY <1>5 DEF Shown
  <2>4. Shown' = Shown BY <2>1, <2>2, <2>3, ShownAfterCrash, ShortIsKept
  <2>5. durable!Crash BY <1>5, <2>1, <2>4 DEF durable!Crash
  <2> QED BY <2>5 DEF durable!Next
<1>6. CASE CutOffCommit
  <2>1. durable!Crash BY <1>6, CutOffSurvives DEF CutOffCommit
  <2> QED BY <2>1 DEF durable!Next
<1>7. CASE Restart
  <2>1. ~up /\ torn = {} /\ torn' = torn /\ up' /\ history' = DropExcessiveCommits(Sort(files))
    BY <1>7 DEF Restart
  <2>2. Shown' = Shown BY <2>1 DEF Shown
  <2>3. durable!Recover BY <2>1, <2>2 DEF durable!Recover
  <2> QED BY <2>3 DEF durable!Next
<1> QED BY <1>1, <1>2, <1>3, <1>4, <1>5, <1>6, <1>7, DaemonStepKinds

\* The daemon implements DurableHistory.  LogCommit stores the new commit file
\* before it drops old ones, and Sort follows the parents back from the youngest:
\* between any two writes the files therefore hold the history before or the one
\* after the commit, which is what comes up after the crash.
THEOREM CrashesAreAtomic == DaemonSpec => HistorySurvives
<1>1. DaemonInit => durable!Init
  BY DEF DaemonInit, Init, durable!Init, Shown
<1> QED BY <1>1, StepSurvives, FilesInvariance, PTL
        DEF DaemonSpec, HistorySurvives, durable!Spec

----------------------------------------------------------------------------
\* What GroupSet leaves in an entry.

\* The value that GetAll reads from an entry.
Read(entry) == IF entry \in Value THEN entry ELSE Empty

\* f lists the entry of slot s after each of the pairs.
IsEntryHistory(f, entry, pairs, s, n) ==
    f = [i \in 0..n |->
            IF i = 0 THEN entry
            ELSE IF Slot(pairs[i].key) = s
                 THEN WriteEntry(f[i - 1], pairs[i].value)
                 ELSE f[i - 1]]

\* What an entry is after each of the first n pairs can be listed.
LEMMA EntryHistoryExists ==
    ASSUME NEW entry, NEW pairs, NEW s, NEW n \in Nat
    PROVE  \E f : IsEntryHistory(f, entry, pairs, s, n)
<1> DEFINE Has(m) == \E f : IsEntryHistory(f, entry, pairs, s, m)
           T == {m \in Nat : ~Has(m)}
<1>1. SUFFICES ASSUME T # {} PROVE FALSE
  OBVIOUS
<1>2. PICK m \in T : \A e \in T : m <= e
  <2>1. T \in SUBSET Nat OBVIOUS
  <2> HIDE DEF T
  <2> QED BY <1>1, <2>1, SmallestExists
<1>3. m \in Nat /\ ~Has(m) BY <1>2
<1>4. CASE m = 0
  <2> DEFINE f == [i \in 0..0 |-> entry]
  <2>1. IsEntryHistory(f, entry, pairs, s, 0) BY DEF IsEntryHistory
  <2> QED BY <1>3, <1>4, <2>1
<1>5. CASE m # 0
  <2>1. m - 1 \in Nat /\ ~(m <= m - 1) BY <1>3, <1>5
  <2>2. Has(m - 1) BY <1>2, <2>1
  <2>3. PICK f : IsEntryHistory(f, entry, pairs, s, m - 1) BY <2>2
  <2> DEFINE next == IF Slot(pairs[m].key) = s
                     THEN WriteEntry(f[m - 1], pairs[m].value)
                     ELSE f[m - 1]
             g == [i \in 0..m |-> IF i = m THEN next ELSE f[i]]
  <2> HIDE DEF next
  <2>4. ASSUME NEW i \in 0..m
        PROVE  g[i] = IF i = 0 THEN entry
                      ELSE IF Slot(pairs[i].key) = s
                           THEN WriteEntry(g[i - 1], pairs[i].value)
                           ELSE g[i - 1]
    <3>1. CASE i = m
      <4>1. g[m] = next /\ g[m - 1] = f[m - 1] /\ m # 0 BY <1>3, <1>5, <2>1
      <4> QED BY <3>1, <4>1 DEF next
    <3>2. CASE i # m
      <4>1. i \in 0..m - 1 BY <1>3, <3>2
      <4>2. g[i] = f[i] BY <3>2
      <4>3. i # 0 => g[i - 1] = f[i - 1]
        <5>1. i # 0 => i - 1 \in 0..m /\ i - 1 # m BY <1>3, <4>1
        <5> QED BY <5>1
      <4>4. f[i] = IF i = 0 THEN entry
                   ELSE IF Slot(pairs[i].key) = s
                        THEN WriteEntry(f[i - 1], pairs[i].value)
                        ELSE f[i - 1]
        BY <2>3, <4>1 DEF IsEntryHistory
      <4> HIDE DEF g
      <4> QED BY <4>2, <4>3, <4>4
    <3> QED BY <3>1, <3>2
  <2>5. g = [i \in 0..m |-> g[i]] OBVIOUS
  <2> HIDE DEF g
  <2>6. IsEntryHistory(g, entry, pairs, s, m) BY <2>4, <2>5 DEF IsEntryHistory
  <2> QED BY <1>3, <2>6
<1> QED BY <1>4, <1>5

\* EntryAfter is the last of the entries in that list.
LEMMA EntryAfterHistory ==
    ASSUME NEW entry, NEW pairs, NEW s, Len(pairs) \in Nat
    PROVE  \E f : /\ IsEntryHistory(f, entry, pairs, s, Len(pairs))
                  /\ EntryAfter(entry, pairs, s) = f[Len(pairs)]
<1> DEFINE f == CHOOSE g : IsEntryHistory(g, entry, pairs, s, Len(pairs))
<1>1. IsEntryHistory(f, entry, pairs, s, Len(pairs)) BY EntryHistoryExists
<1>2. EntryAfter(entry, pairs, s) = f[Len(pairs)] BY Zenon DEF EntryAfter, IsEntryHistory
<1> QED BY <1>1, <1>2

\* A pair that GroupSet writes is read back, an empty one as no value.
LEMMA WrittenIsRead ==
    ASSUME NEW entry, NEW v \in MaybeValue
    PROVE  Read(WriteEntry(entry, v)) = v
<1>1. Absent \notin Value /\ Empty \notin Value
  BY FileAssumption, ValueAssumption DEF MaybeValue
<1>2. CASE v = Empty BY <1>1, <1>2 DEF Read, WriteEntry
<1>3. CASE v \in Value BY <1>1, <1>3 DEF Read, WriteEntry
<1> QED BY <1>2, <1>3 DEF MaybeValue

\* The entry of a key holds what the last pair for the key says.
LEMMA EntryReads ==
    ASSUME NoKeyAliases, NEW entry, NEW pairs \in Seq(Pair), NEW k \in Key
    PROVE  Read(EntryAfter(entry, pairs, Slot(k))) =
               IF Touches(pairs, k) THEN LastWrite(pairs, k) ELSE Read(entry)
<1> DEFINE n == Len(pairs)
<1>1. n \in Nat /\ DOMAIN pairs = 1..n BY LenProperties
<1>2. PICK f : /\ IsEntryHistory(f, entry, pairs, Slot(k), n)
               /\ EntryAfter(entry, pairs, Slot(k)) = f[n]
  BY <1>1, EntryAfterHistory
<1>3. f[0] = entry BY <1>1, <1>2 DEF IsEntryHistory
<1>4. ASSUME NEW i \in 1..n
      PROVE  Read(f[i]) = IF pairs[i].key = k THEN pairs[i].value ELSE Read(f[i - 1])
  <2>1. pairs[i] \in Pair BY <1>1, ElementOfSeq
  <2>2. pairs[i].key \in Key /\ pairs[i].value \in MaybeValue BY <2>1 DEF Pair
  <2>3. Slot(pairs[i].key) = Slot(k) <=> pairs[i].key = k BY <2>2 DEF NoKeyAliases
  <2>4. i \in 0..n /\ i # 0 BY <1>1
  <2>5. f[i] = IF Slot(pairs[i].key) = Slot(k)
               THEN WriteEntry(f[i - 1], pairs[i].value)
               ELSE f[i - 1]
    BY <1>2, <2>4 DEF IsEntryHistory
  <2>6. Read(WriteEntry(f[i - 1], pairs[i].value)) = pairs[i].value
    BY <2>2, WrittenIsRead
  <2> QED BY <2>3, <2>5, <2>6
\* After the last pair for the key nothing changes.
<1>5. ASSUME NEW b \in 0..n, \A i \in 1..n : i > b => pairs[i].key # k
      PROVE  Read(f[n]) = Read(f[b])
  <2> DEFINE T == {j \in b..n : Read(f[j]) # Read(f[b])}
  <2>1. ASSUME T # {} PROVE FALSE
    <3>1. T \in SUBSET Nat BY <1>1
    <3>2. PICK j \in T : \A e \in T : j <= e
      <4> HIDE DEF T
      <4> QED BY <2>1, <3>1, SmallestExists
    <3>3. j \in b..n /\ Read(f[j]) # Read(f[b]) BY <3>2
    <3>4. j # b BY <3>3
    <3>5. /\ j \in 1..n /\ j > b /\ j - 1 \in b..n /\ ~(j <= j - 1)
      <4> HIDE DEF T
      <4>1. n \in Nat /\ b \in 0..n /\ j \in b..n /\ j # b BY <1>1, <3>3, <3>4
      <4> QED BY ONLY <4>1
    <3>6. j - 1 \notin T BY <3>2, <3>5
    <3>7. Read(f[j - 1]) = Read(f[b]) BY <3>5, <3>6
    <3>8. Read(f[j]) = Read(f[j - 1]) BY <1>4, <1>5, <3>5
    <3> QED BY <3>3, <3>7, <3>8
  <2>2. n \in b..n BY <1>1
  <2> QED BY <2>1, <2>2
<1>6. CASE Touches(pairs, k)
  <2>1. PICK i \in DOMAIN pairs : IsLastWrite(pairs, k, i) /\ LastWrite(pairs, k) = pairs[i].value
    BY <1>6, LastWriteExists
  <2>2. i \in 1..n /\ i \in 0..n BY <1>1
  <2>3. \A j \in 1..n : j > i => pairs[j].key # k
    BY <1>1, <2>1, <2>2 DEF IsLastWrite
  <2>4. Read(f[n]) = Read(f[i]) BY <1>5, <2>2, <2>3
  <2>5. Read(f[i]) = pairs[i].value BY <1>4, <2>1, <2>2 DEF IsLastWrite
  <2> QED BY <1>2, <1>6, <2>1, <2>4, <2>5
<1>7. CASE ~Touches(pairs, k)
  <2>1. 0 \in 0..n /\ \A i \in 1..n : pairs[i].key # k BY <1>1, <1>7 DEF Touches
  <2>2. Read(f[n]) = Read(f[0]) BY <1>5, <2>1
  <2> QED BY <1>2, <1>3, <1>7, <2>2
<1> QED BY <1>6, <1>7

\* GetAll reads the entry of the key.
LEMMA GetAllReads ==
    ASSUME NoKeyAliases, NEW d, NEW k \in Key
    PROVE  GetAll(d)[k] = Read(d[Slot(k)])
<1> DEFINE found == {s \in Slots : SlotKey(s) = k /\ d[s] \in Value}
<1>1. GetAll(d)[k] = IF found = {} THEN Empty ELSE d[CHOOSE s \in found : TRUE]
  BY DEF GetAll
<1>2. Slot(k) \in Slots /\ SlotKey(Slot(k)) = k BY DEF Slots, NoKeyAliases
<1>3. ASSUME NEW s \in found PROVE s = Slot(k) /\ d[Slot(k)] \in Value
  <2>1. PICK j \in Key : s = Slot(j) BY DEF Slots
  <2>2. j = k BY <2>1 DEF NoKeyAliases
  <2> QED BY <2>1, <2>2
<1>4. CASE d[Slot(k)] \in Value
  <2>1. Slot(k) \in found BY <1>2, <1>4
  <2> HIDE DEF found
  <2>2. (CHOOSE s \in found : TRUE) \in found BY <2>1
  <2>3. (CHOOSE s \in found : TRUE) = Slot(k) BY <1>3, <2>2
  <2> QED BY <1>1, <1>4, <2>1, <2>3 DEF Read
<1>5. CASE d[Slot(k)] \notin Value
  <2>1. found = {} BY <1>3, <1>5
  <2> QED BY <1>1, <1>5, <2>1 DEF Read
<1> QED BY <1>4, <1>5

\* What GetAll returns after GroupSet: the last pair for a key wins, and a key
\* without a pair keeps its value.
LEMMA GroupSetReads ==
    ASSUME NoKeyAliases, NEW d, NEW pairs \in Seq(Pair), NEW k \in Key
    PROVE  GetAll(GroupSet(d, pairs))[k] =
               IF Touches(pairs, k) THEN LastWrite(pairs, k) ELSE GetAll(d)[k]
<1> DEFINE s == Slot(k)
           e == GroupSet(d, pairs)
<1>1. s \in Slots /\ s.file \in Range(FileOrder)
  BY FileAssumption DEF Slots
<1>2. e[s] = IF IsTouched(pairs, s.file) THEN EntryAfter(d[s], pairs, s) ELSE d[s]
  BY <1>1 DEF GroupSet, Rewrite
<1>3. Touches(pairs, k) => IsTouched(pairs, s.file) BY DEF Touches, IsTouched
<1>4. Read(EntryAfter(d[s], pairs, s)) =
         IF Touches(pairs, k) THEN LastWrite(pairs, k) ELSE Read(d[s])
  BY EntryReads
<1>5. GetAll(e)[k] = Read(e[s]) /\ GetAll(d)[k] = Read(d[s]) BY GetAllReads
<1> HIDE DEF s, e
<1>6. GetAll(e)[k] = IF Touches(pairs, k) THEN LastWrite(pairs, k) ELSE GetAll(d)[k]
  BY <1>2, <1>3, <1>4, <1>5
<1> QED BY <1>6 DEF e

----------------------------------------------------------------------------
\* What the files hold beyond the last commit: the pairs that yaml retains.

\* The pairs that yaml retains of an id end, for every key, in the value that
\* the id committed last.
RetainsLatest ==
    \A a \in DOMAIN yaml.items : \A k \in Key :
        Touches(yaml.items[a].list, k) => LastWrite(yaml.items[a].list, k) = latest[a][k]

ReplayInv ==
    /\ FilesInv
    /\ IsGoodMap(yaml)
    /\ latest \in [Id -> [Key -> MaybeValue \cup {Absent}]]
    /\ RetainsLatest
    /\ DiskIsCurrentOrReplayed

\* An insertion adds the pairs to one bucket and leaves the others, of which it
\* may age one out.
LEMMA InsertedPairs ==
    ASSUME NEW m, IsGoodMap(m), NEW b \in Id, NEW pairs \in Seq(Pair)
    PROVE  /\ IsGoodMap(Insert(m, b, pairs))
           /\ GetBucket(Insert(m, b, pairs), b) = GetBucket(m, b) \o pairs
           /\ \A a : a # b /\ Exists(Insert(m, b, pairs), a) =>
                 /\ Exists(m, a)
                 /\ Insert(m, b, pairs).items[a] = m.items[a]
<1>1. IsGoodMap(Insert(m, b, pairs)) BY InsertGood
<1>2. CASE pairs # <<>> BY <1>1, <1>2, InsertedBucket
<1>3. CASE pairs = <<>>
  <2>1. Insert(m, b, pairs) = m BY <1>3 DEF Insert
  <2>2. GetBucket(m, b) \in Seq(Pair) BY GetBucketType
  <2>3. GetBucket(m, b) \o pairs = GetBucket(m, b) BY <1>3, <2>2, ConcatEmptySeq
  <2> QED BY <1>1, <2>1, <2>3
<1> QED BY <1>2, <1>3

\* The "last." pairs of a bucket name the same keys in every order.
LEMMA LastItemsAgree ==
    ASSUME TypeOK, NEW list \in Seq(Pair), NEW l \in LastItems(list), NEW m \in LastItems(list),
           NEW k, Touches(list \o l, k)
    PROVE  Touches(list \o m, k)
<1>1. l \in Seq(Pair) /\ m \in Seq(Pair) BY LastItemsType
<1>2. CASE Touches(m, k) BY <1>1, <1>2, TouchedByTail
<1>3. CASE ~Touches(m, k)
  <2>1. ~Touches(l, k)
    <3>1. SUFFICES ASSUME NEW i \in DOMAIN l, l[i].key = k PROVE FALSE
      BY DEF Touches
    <3>2. PICK j \in Key : ~IsReserved(j) /\ Touches(list, j) /\ l[i].key = LastKey(j)
      BY LastItemsContents
    <3>3. Touches(m, LastKey(j)) BY <3>2, LastItemsContents
    <3> QED BY <1>3, <3>1, <3>2, <3>3
  <2>2. Touches(list, k) BY <1>1, <2>1, UntouchedByTail
  <2> QED BY <1>1, <1>3, <2>2, UntouchedByTail
<1> QED BY <1>2, <1>3

\* The invariant of the replay holds on the first start.
LEMMA InitReplayInv == DaemonInit => ReplayInv
<1> SUFFICES ASSUME DaemonInit PROVE ReplayInv
  OBVIOUS
<1>1. FilesInv BY InitFilesInv
<1>2. IsGoodMap(yaml) /\ DOMAIN yaml.items = {} BY EmptyMapGood DEF DaemonInit
<1>3. latest \in [Id -> [Key -> MaybeValue \cup {Absent}]]
  BY DEF DaemonInit, NothingCommitted
<1>4. DiskIsCurrentOrReplayed
  <2>1. drifted = {} /\ up = TRUE BY DEF DaemonInit
  <2> QED BY <1>1, <2>1 DEF FilesInv, CacheAgrees, DiskIsCurrentOrReplayed
<1> QED BY <1>1, <1>2, <1>3, <1>4 DEF ReplayInv, RetainsLatest

\* A commit writes what yaml retains of its id; every key of that ends in the
\* value that the id committed last, and the other keys stay as they are.
LEMMA StoringReplays ==
    ASSUME NoKeyAliases, ReplayInv, FilesInv', up, NEW m, NEW c \in Id, NEW config,
           IsStagingOf(m), CommitBucket(m, c, config), Store(m, c)
    PROVE  ReplayInv'
<1>1. MapInv /\ HistoryIsAChain /\ TypeOK BY DEF ReplayInv, FilesInv, MapInv
<1>2. CASE ~(Exists(m, c) /\ ~IsBucketLocked(m, c))
  <2>1. UNCHANGED values /\ UNCHANGED storage BY <1>2 DEF Store, CommitBucket
  <2>2. UNCHANGED <<yaml, disk, up, latest, values>> BY <2>1 DEF storage
  <2>3. DiskIsCurrentOrReplayed' BY <2>2 DEF ReplayInv, DiskIsCurrentOrReplayed, IsReplay
  <2>4. RetainsLatest' BY <2>2 DEF ReplayInv, RetainsLatest
  <2> QED BY <2>2, <2>3, <2>4 DEF ReplayInv
<1>3. CASE Exists(m, c) /\ ~IsBucketLocked(m, c)
  <2> DEFINE list  == GetBucket(m, c)
             batch == Batch(m, c)
             kept  == GetBucket(yaml, c)
             pairs == GetBucket(yaml', c)
  <2>1. list \in Seq(Pair) /\ \E lasts \in LastItems(list) : Commits(list, lasts)
    BY <1>1, <1>3, BucketCommit
  <2>2. PICK lasts \in LastItems(list) : Commits(list, lasts) BY <2>1
  <2>3. PICK copies \in LastItems(list) : batch = list \o copies BY <2>1, BatchShape
  <2>4. values' = UpdateItems(values, list \o lasts) BY <2>2 DEF Commits
  <2>5. /\ yaml' = Insert(yaml, c, batch)
        /\ disk' = GroupSet(disk, pairs)
        /\ latest' = [latest EXCEPT ![c] = UpdateItems(@, batch)]
        /\ up' = up
    BY <1>3 DEF Store, Retained
  <2>6. batch \in Seq(Pair)
    <3>1. copies \in Seq(Pair) BY <1>1, <2>1, LastItemsType
    <3> QED BY <2>1, <2>3, <3>1
  <2>7. kept \in Seq(Pair) BY GetBucketType DEF ReplayInv
  <2> HIDE DEF list, batch, kept, pairs
  <2>8. /\ IsGoodMap(yaml') /\ pairs = kept \o batch
        /\ \A a : a # c /\ Exists(yaml', a) => Exists(yaml, a) /\ yaml'.items[a] = yaml.items[a]
    BY <2>5, <2>6, InsertedPairs DEF ReplayInv, pairs, kept
  <2>9. pairs \in Seq(Pair) BY <2>6, <2>7, <2>8
  <2>10. latest \in [Id -> [Key -> MaybeValue \cup {Absent}]] BY DEF ReplayInv
  <2>11. /\ \A a \in Id : a # c => latest'[a] = latest[a]
         /\ latest'[c] = UpdateItems(latest[c], batch)
    BY <2>5, <2>10
  <2>12. \A k \in Key : latest'[c][k] = IF Touches(batch, k) THEN LastWrite(batch, k) ELSE latest[c][k]
    BY <2>11 DEF UpdateItems
  <2>13. latest' \in [Id -> [Key -> MaybeValue \cup {Absent}]]
    <3>1. UpdateItems(latest[c], batch) \in [Key -> MaybeValue \cup {Absent}]
      <4>1. \A k \in Key : Touches(batch, k) => LastWrite(batch, k) \in MaybeValue
        BY <2>6, LastWriteType
      <4>2. latest[c] \in [Key -> MaybeValue \cup {Absent}] BY <2>10
      <4> QED BY <4>1, <4>2 DEF UpdateItems
    <3> QED BY <2>5, <2>10, <3>1
  \* What the id retains ends in what it committed last.
  <2>14. ASSUME NEW k \in Key, Touches(pairs, k) PROVE LastWrite(pairs, k) = latest'[c][k]
    <3>1. CASE Touches(batch, k)
      BY <2>6, <2>7, <2>8, <2>12, <3>1, TouchedByTail
    <3>2. CASE ~Touches(batch, k)
      <4>1. Touches(kept, k) /\ LastWrite(pairs, k) = LastWrite(kept, k)
        BY <2>6, <2>7, <2>8, <2>14, <3>2, UntouchedByTail
      <4>2. Exists(yaml, c) /\ kept = yaml.items[c].list
        BY <4>1 DEF kept, GetBucket, Touches
      <4>3. LastWrite(kept, k) = latest[c][k]
        BY <4>1, <4>2 DEF ReplayInv, RetainsLatest, Exists, Count
      <4> QED BY <2>12, <3>2, <4>1, <4>3
    <3> QED BY <3>1, <3>2
  <2>15. RetainsLatest'
    <3> SUFFICES ASSUME NEW a \in DOMAIN yaml'.items, NEW k \in Key,
                        Touches(yaml'.items[a].list, k)
                 PROVE  LastWrite(yaml'.items[a].list, k) = latest'[a][k]
      BY DEF RetainsLatest
    <3>1. CASE a = c
      <4>1. pairs = yaml'.items[c].list BY <3>1 DEF pairs, GetBucket, Exists, Count
      <4> QED BY <2>14, <3>1, <4>1
    <3>2. CASE a # c
      <4>1. a \in DOMAIN yaml.items /\ yaml'.items[a] = yaml.items[a]
        BY <2>8, <3>2 DEF Exists, Count
      <4>2. a \in Id BY <4>1 DEF ReplayInv, IsGoodMap, IsInFlightMap, IsMap
      <4>3. latest'[a] = latest[a] BY <2>11, <3>2, <4>2
      <4> QED BY <4>1, <4>3 DEF ReplayInv, RetainsLatest
    <3> QED BY <3>1, <3>2
  <2>16. ASSUME NEW k \in Key
         PROVE  \/ GetAll(disk')[k] = values'[k]
                \/ \E a \in Id : latest'[a][k] = GetAll(disk')[k]
    <3>1. GetAll(disk')[k] = IF Touches(pairs, k) THEN LastWrite(pairs, k) ELSE GetAll(disk)[k]
      BY <2>5, <2>9, GroupSetReads
    <3>2. CASE Touches(pairs, k)
      <4>1. GetAll(disk')[k] = latest'[c][k] BY <2>14, <3>1, <3>2
      <4> QED BY <4>1
    <3>3. CASE ~Touches(pairs, k)
      <4>1. ~Touches(batch, k) BY <2>6, <2>7, <2>8, <3>3, TouchedByTail
      <4>2. ~Touches(list \o lasts, k)
        BY <1>1, <2>1, <2>3, <4>1, LastItemsAgree DEF list
      <4>3. values'[k] = values[k] BY <2>4, <4>2 DEF UpdateItems
      <4>4. GetAll(disk')[k] = GetAll(disk)[k] BY <3>1, <3>3
      <4>5. GetAll(disk)[k] = values[k] \/ IsReplay(k, GetAll(disk)[k])
        BY DEF ReplayInv, DiskIsCurrentOrReplayed
      <4>6. \A a \in Id : latest'[a][k] = latest[a][k] BY <2>11, <2>12, <4>1
      <4> QED BY <4>3, <4>4, <4>5, <4>6 DEF IsReplay
    <3> QED BY <3>2, <3>3
  <2>17. DiskIsCurrentOrReplayed' BY <2>16 DEF DiskIsCurrentOrReplayed, IsReplay
  <2> QED BY <2>8, <2>13, <2>15, <2>17 DEF ReplayInv
<1> QED BY <1>2, <1>3

\* Every step keeps the invariant of the replay.
LEMMA NextReplayInv ==
    ASSUME NoKeyAliases, ReplayInv, [DaemonNext]_allVars
    PROVE  ReplayInv'
<1>1. FilesInv' BY NextFilesInv DEF ReplayInv
<1>2. MapInv BY DEF ReplayInv, FilesInv
\* A step after which the memory is empty.
<1>3. ASSUME Stop PROVE ReplayInv'
  <2>1. yaml' = EmptyMap /\ latest' = NothingCommitted /\ up' = FALSE BY <1>3 DEF Stop
  <2>2. IsGoodMap(yaml') /\ DOMAIN yaml'.items = {} BY <2>1, EmptyMapGood
  <2>3. latest' \in [Id -> [Key -> MaybeValue \cup {Absent}]] BY <2>1 DEF NothingCommitted
  <2> QED BY <1>1, <2>1, <2>2, <2>3 DEF ReplayInv, RetainsLatest, DiskIsCurrentOrReplayed
\* A step that leaves the stores alone.
<1>4. ASSUME UNCHANGED <<yaml, disk, up, latest, values>> PROVE ReplayInv'
  <2>1. DiskIsCurrentOrReplayed' BY <1>4 DEF ReplayInv, DiskIsCurrentOrReplayed, IsReplay
  <2>2. RetainsLatest' BY <1>4 DEF ReplayInv, RetainsLatest
  <2> QED BY <1>1, <1>4, <2>1, <2>2 DEF ReplayInv
<1>5. CASE UNCHANGED allVars
  <2>1. UNCHANGED <<yaml, disk, up, latest, values>> BY <1>5 DEF allVars, vars, storage
  <2> QED BY <1>4, <2>1
<1>6. CASE up /\ (Staging \/ Completion)
  <2>1. UNCHANGED <<values>> /\ UNCHANGED storage
    BY <1>6 DEF Staging, Completion, SetRequest, EraseRequest, DropRequest, ResetRefused,
                HooksEnd, HooksSucceed, HooksFail, HooksDone, HooksBroken
  <2>2. UNCHANGED <<yaml, disk, up, latest, values>> BY <2>1 DEF storage
  <2> QED BY <1>4, <2>2
<1>7. CASE CompleteCommit BY <1>1, <1>7, StoringReplays DEF CompleteCommit
<1>8. CASE up /\ Crash BY <1>3, <1>8 DEF Crash
<1>9. CASE CutOffCommit BY <1>3, <1>9 DEF CutOffCommit, CrashInCommit
<1>10. CASE Restart
  <2>1. values' = GetAll(disk) /\ UNCHANGED <<yaml, disk, latest>> BY <1>10 DEF Restart
  <2>2. DiskIsCurrentOrReplayed' BY <2>1 DEF DiskIsCurrentOrReplayed
  <2>3. RetainsLatest' BY <2>1 DEF ReplayInv, RetainsLatest
  <2> QED BY <1>1, <2>1, <2>2, <2>3 DEF ReplayInv
<1> QED BY <1>2, <1>5, <1>6, <1>7, <1>8, <1>9, <1>10, DaemonStepKinds

\* When no two keys share an entry of a file, a value on disk that is not the
\* one in memory is the last one that some id committed for the key: that
\* LocalYAMLStorage::Commit keeps the pairs of an id, writes them all again with
\* the next commit of the id, and may age them out in between, puts no other
\* value on disk.
THEOREM DiskHoldsReplays ==
    ASSUME NoKeyAliases
    PROVE  DaemonSpec => []DiskIsCurrentOrReplayed
<1>1. ReplayInv /\ [DaemonNext]_allVars => ReplayInv' BY NextReplayInv
<1>2. ReplayInv => DiskIsCurrentOrReplayed BY DEF ReplayInv
<1> QED BY <1>1, <1>2, InitReplayInv, PTL DEF DaemonSpec

============================================================================
