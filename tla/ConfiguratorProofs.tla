------------------------- MODULE ConfiguratorProofs -------------------------
(***************************************************************************)
(* Proofs about the specification of Configurator.                         *)
(*                                                                         *)
(* Whatever request it models, a step is of one of three kinds: it stages  *)
(* or drops pairs, it commits a bucket, or it completes the hooks of a     *)
(* commit.  StepKinds shows that once, with one case per action, and each  *)
(* invariant is then shown to survive the three kinds.                     *)
(***************************************************************************)
EXTENDS ConfiguratorLemmas

\* Staging, on in-flight items m: no bucket becomes locked.
IsStagingOf(m) == IsGoodMap(m) /\ Locked(m) \subseteq Locked(inFlight)

StagingStep ==
    /\ IsStagingOf(inFlight')
    /\ UNCHANGED <<values, history, maxId, running>>

CommitStep ==
    \E m : \E c \in Id : \E config : IsStagingOf(m) /\ CommitBucket(m, c, config)

HooksStep == \E run \in running : HooksDone(run) \/ HooksBroken(run)

MapInv == TypeOK /\ AgeOrderMatchesBuckets

\* Every step of the specification is of one of the three kinds.
LEMMA StepKinds ==
    ASSUME MapInv, Next
    PROVE  StagingStep \/ CommitStep \/ HooksStep
<1>1. IsGoodMap(inFlight)
  BY DEF MapInv, TypeOK, AgeOrderMatchesBuckets, IsGoodMap
<1>2. ASSUME NEW c \in Id, NEW pairs \in Seq(Pair)
      PROVE  IsStagingOf(Insert(inFlight, c, pairs))
  BY <1>1, InsertGood DEF IsStagingOf
<1>3. Client \subseteq Id /\ RollbackId \in Id BY DEF Id
<1>4. ASSUME NEW c \in Client, NEW k \in Key, NEW v \in Value, SetRequest(c, k, v)
      PROVE  StagingStep
  <2>1. [key |-> k, value |-> v] \in Pair BY DEF Pair, MaybeValue
  <2>2. <<[key |-> k, value |-> v]>> \in Seq(Pair) BY <2>1
  <2> QED BY <1>2, <1>3, <1>4, <2>2 DEF SetRequest, StagingStep
<1>5. ASSUME NEW c \in Client, NEW p \in Target, EraseRequest(c, p)
      PROVE  StagingStep
  <2>1. PICK pairs \in ErasePairs(p) : inFlight' = Insert(inFlight, c, pairs)
    BY <1>5 DEF EraseRequest
  <2>2. pairs \in Seq(Pair) BY ErasePairsType
  <2> QED BY <1>2, <1>3, <1>5, <2>1, <2>2 DEF EraseRequest, StagingStep
<1>6. ASSUME NEW c \in Client, DropRequest(c)
      PROVE  StagingStep
  BY <1>1, <1>6, DropGood DEF DropRequest, StagingStep, IsStagingOf
<1>7. ASSUME NEW c \in Client, NEW config \in Config, CommitRequest(c, config)
      PROVE  CommitStep
  <2>1. IsStagingOf(inFlight) BY <1>1 DEF IsStagingOf
  <2> QED BY <1>3, <1>7, <2>1 DEF CommitRequest, CommitStep
<1>8. ASSUME NEW c \in Client, NEW pairs \in ResetPairs, ResetWith(c, pairs)
      PROVE  CommitStep
  <2>1. pairs \in Seq(Pair) BY ResetPairsType DEF MapInv
  <2>2. IsStagingOf(Insert(inFlight, c, pairs)) BY <1>2, <1>3, <2>1
  <2> QED BY <1>3, <1>8, <2>2 DEF ResetWith, CommitStep
<1>9. ASSUME NEW c \in Client, ResetRefused(c)
      PROVE  StagingStep
  <2>1. PICK keys \in SetToSeqs(StoredDefaults), erased \in ErasePairs(<<"*">>) :
        \E n \in DOMAIN keys :
          LET staged == IF IsStaged(DefaultStatus(c, keys[n])) THEN n ELSE n - 1
              defaults == StagedDefaults(SubSeq(keys, 1, staged))
          IN  inFlight' = Drop(Insert(inFlight, c, erased \o defaults), c)
    BY <1>9 DEF ResetRefused
  <2>2. keys \in Seq(StoredDefaults) BY DefaultOrder
  <2>3. Len(keys) \in Nat /\ DOMAIN keys = 1..Len(keys) BY <2>2, LenProperties
  <2>4. PICK staged \in 0..Len(keys) :
            inFlight' = Drop(Insert(inFlight, c,
                              erased \o StagedDefaults(SubSeq(keys, 1, staged))), c)
    BY <2>1, <2>3
  <2> DEFINE some == SubSeq(keys, 1, staged)
             pairs == erased \o StagedDefaults(some)
  <2>5. some \in Seq(StoredDefaults)
    <3>1. \A i \in 1..staged : keys[i] \in StoredDefaults BY <2>2, <2>3, <2>4
    <3> QED BY <2>3, <2>4, <3>1, SubSeqProperties
  <2> HIDE DEF some
  <2>6. pairs \in Seq(Pair)
    BY <2>5, StagedDefaultsType, ErasePairsType, ConcatProperties DEF MapInv
  <2>7. inFlight' = Drop(Insert(inFlight, c, pairs), c) BY <2>4 DEF some
  <2> HIDE DEF pairs
  <2>8. IsStagingOf(Insert(inFlight, c, pairs)) BY <1>2, <1>3, <2>6
  <2>9. IsStagingOf(inFlight') BY <2>7, <2>8, DropGood DEF IsStagingOf
  <2> QED BY <1>9, <2>9 DEF ResetRefused, StagingStep
<1>10. ASSUME NEW i \in DOMAIN history, RollbackRequest(i)
       PROVE  CommitStep
  <2>1. PICK pairs \in RollbackPairs(history[i]) : RollbackWith(i, pairs)
    BY <1>10 DEF RollbackRequest
  <2>2. pairs \in Seq(Pair) BY RollbackPairsType DEF MapInv, TypeOK
  <2>3. IsStagingOf(Insert(inFlight, RollbackId, pairs)) BY <1>2, <1>3, <2>2
  <2> QED BY <1>3, <2>1, <2>3 DEF RollbackWith, CommitStep
<1>11. ASSUME NEW run \in running, HooksEnd(run)
       PROVE  HooksStep
  BY <1>11 DEF HooksEnd, HooksSucceed, HooksFail, HooksStep
<1>12. CASE Request
  BY <1>4, <1>5, <1>6, <1>7, <1>8, <1>9, <1>10, <1>12 DEF Request, ResetRequest
<1> QED BY <1>11, <1>12 DEF Next

----------------------------------------------------------------------------
\* What a commit does to each part of the state, without its control flow.

TheCommit(list) == NewCommit(history, maxId, Changed(list), values)

IsLogging(list) ==
    IF ChangedKeys(list) = {}
    THEN UNCHANGED <<history, maxId>>
    ELSE history' = LogCommit(history, TheCommit(list)) /\ maxId' = maxId + 1

KeepsRuns ==
    /\ running \subseteq running'
    /\ running' \in SUBSET HookRun
    /\ \A b \in Locked(inFlight') :
          b \in Locked(inFlight) \/ \E run \in running' : run.client = b

Commits(list, lasts) ==
    /\ values' = UpdateItems(values, list \o lasts)
    /\ IsLogging(list)
    /\ IsGoodMap(inFlight')
    /\ KeepsRuns

\* The id of a new commit is the next one, and its deltas pair the values
\* before and after for the changed keys.
LEMMA TheCommitType ==
    ASSUME TypeOK, HistoryIsAChain, NEW list \in Seq(Pair)
    PROVE  /\ IsCommit(TheCommit(list))
           /\ TheCommit(list).id = maxId + 1
           /\ RaiseMaxId(maxId, TheCommit(list)) = maxId + 1
           /\ TheCommit(list).parent = MostRecentId(history)
           /\ TheCommit(list).parent <= maxId
           /\ Keys(TheCommit(list)) = ChangedKeys(list)
           /\ \A k \in ChangedKeys(list) :
                 TheCommit(list).deltas[k].new = LastWrite(list, k)
<1> DEFINE commit == TheCommit(list)
           D == ChangedKeys(list)
<1>1. /\ commit.id = maxId + 1 /\ commit.parent = MostRecentId(history)
      /\ commit.deltas = [k \in D |-> [old |-> values[k], new |-> LastWrite(list, k)]]
      /\ commit = [id |-> commit.id, parent |-> commit.parent, deltas |-> commit.deltas]
  BY DEF TheCommit, NewCommit, Changed
<1>2. MostRecentId(history) \in Nat /\ MostRecentId(history) <= maxId
  <2>1. CASE history = <<>> BY <2>1 DEF MostRecentId, TypeOK
  <2>2. CASE history # <<>>
    <3>1. Len(history) \in DOMAIN history
      BY <2>2, EmptySeq, LenProperties DEF TypeOK
    <3> QED BY <2>2, <3>1 DEF MostRecentId, TypeOK, IsCommit, HistoryIsAChain
  <2> QED BY <2>1, <2>2
<1>3. maxId \in Nat BY DEF TypeOK
<1>4. ASSUME NEW k \in D
      PROVE  [old |-> values[k], new |-> LastWrite(list, k)] \in Delta
  <2>1. k \in Key /\ Touches(list, k) BY DEF ChangedKeys
  <2> QED BY <2>1, LastWriteType DEF TypeOK, Delta
<1>5. D \subseteq Key BY DEF ChangedKeys
<1> HIDE DEF commit, D
<1>6. commit.deltas \in [D -> Delta] /\ Keys(commit) = D
  BY <1>1, <1>4 DEF Keys
<1>7. IsCommit(commit)
  BY <1>1, <1>2, <1>3, <1>5, <1>6 DEF IsCommit
<1>8. RaiseMaxId(maxId, commit) = maxId + 1
  BY <1>1, <1>2, <1>3 DEF RaiseMaxId
<1>9. \A k \in D : commit.deltas[k].new = LastWrite(list, k) BY <1>1
<1> QED BY <1>1, <1>2, <1>6, <1>7, <1>8, <1>9 DEF commit, D

\* A commit of a bucket that is there and not locked commits its list.
LEMMA BucketCommit ==
    ASSUME MapInv, HistoryIsAChain, NEW m, NEW c \in Id, NEW config,
           IsStagingOf(m), CommitBucket(m, c, config),
           Exists(m, c), ~IsBucketLocked(m, c)
    PROVE  /\ GetBucket(m, c) \in Seq(Pair)
           /\ \E lasts \in LastItems(GetBucket(m, c)) : Commits(GetBucket(m, c), lasts)
<1>0. IsGoodMap(m) /\ Locked(m) \subseteq Locked(inFlight)
  BY DEF IsStagingOf
<1> DEFINE list == GetBucket(m, c)
           logs == ChangedKeys(list) # {}
           hooks == logs /\ config # "NO_HOOKS"
           run == [client |-> c, id |-> TheCommit(list).id, broken |-> FALSE]
<1>1. PICK lasts \in LastItems(list) :
          /\ values' = UpdateItems(values, list \o lasts)
          /\ inFlight' = IF hooks THEN Insert(LockBucket(m, c), c, lasts)
                                  ELSE Drop(m, c)
  BY DEF CommitBucket
<1>2. /\ history' = IF logs THEN LogCommit(history, TheCommit(list)) ELSE history
      /\ maxId' = IF logs THEN RaiseMaxId(maxId, TheCommit(list)) ELSE maxId
      /\ running' = IF hooks THEN running \cup {run} ELSE running
  BY DEF CommitBucket, TheCommit
<1>3. list \in Seq(Pair) BY <1>0, GetBucketType
<1> HIDE DEF list
<1>4. lasts \in Seq(Pair) BY <1>1, <1>3, LastItemsType DEF MapInv
<1>5. TheCommit(list).id \in Nat /\ RaiseMaxId(maxId, TheCommit(list)) = maxId + 1
  BY <1>3, TheCommitType DEF MapInv, TypeOK
<1>6. IsLogging(list) BY <1>2, <1>5 DEF IsLogging
<1>7. run \in HookRun BY <1>5 DEF HookRun
<1>8. running \in SUBSET HookRun BY DEF MapInv, TypeOK
<1>9. ASSUME hooks PROVE Commits(list, lasts)
  <2>1. IsGoodMap(LockBucket(m, c)) /\ Locked(LockBucket(m, c)) \subseteq Locked(m) \cup {c}
    BY <1>0, LockBucketGood
  <2>2. IsGoodMap(inFlight') /\ Locked(inFlight') \subseteq Locked(m) \cup {c}
    BY <1>1, <1>4, <1>9, <2>1, InsertGood
  <2>3. running' = running \cup {run} /\ run.client = c BY <1>2, <1>9
  <2> HIDE DEF run
  <2>4. KeepsRuns BY <1>0, <1>7, <1>8, <2>2, <2>3 DEF KeepsRuns
  <2> QED BY <1>1, <1>3, <1>6, <2>2, <2>4 DEF Commits
<1>10. ASSUME ~hooks PROVE Commits(list, lasts)
  <2>1. IsGoodMap(inFlight') /\ Locked(inFlight') \subseteq Locked(m)
    BY <1>0, <1>1, <1>10, DropGood
  <2>2. KeepsRuns BY <1>0, <1>2, <1>8, <1>10, <2>1 DEF KeepsRuns
  <2> QED BY <1>1, <1>3, <1>6, <2>1, <2>2 DEF Commits
<1>11. Commits(list, lasts) BY <1>9, <1>10
<1> QED BY <1>1, <1>3, <1>11 DEF list

\* A commit of a bucket that is absent or locked changes no more than staging
\* does; any other one commits the list of the bucket.
LEMMA CommitShape ==
    ASSUME MapInv, HistoryIsAChain, CommitStep
    PROVE  \/ StagingStep
           \/ \E list \in Seq(Pair) : \E lasts \in LastItems(list) : Commits(list, lasts)
<1>1. PICK m : \E c \in Id : \E config : IsStagingOf(m) /\ CommitBucket(m, c, config)
  BY DEF CommitStep
<1>2. PICK c \in Id : \E config : IsStagingOf(m) /\ CommitBucket(m, c, config)
  BY <1>1
<1>3. PICK config : IsStagingOf(m) /\ CommitBucket(m, c, config)
  BY <1>2
<1>4. CASE ~(Exists(m, c) /\ ~IsBucketLocked(m, c))
  BY <1>3, <1>4 DEF CommitBucket, StagingStep
<1>5. CASE Exists(m, c) /\ ~IsBucketLocked(m, c)
  BY <1>3, <1>5, BucketCommit
<1> QED BY <1>4, <1>5

----------------------------------------------------------------------------
\* The inductive invariant.  HistoryIsAChain bounds the parent of the next
\* commit; NoLastLogged is what separates the copies that SaveLastItems makes
\* from the changes that the history explains.  HistoryIsContinuous is the
\* continuity of Blame without its enumeration: two neighbouring changes of a
\* key meet in the same value, because the older one was the youngest, with the
\* value of the store, when the younger one was logged.

NoLastLogged == \A i \in DOMAIN history : \A k \in Keys(history[i]) : ~IsLast(k)

AreNeighbours(i, j, k) ==
    /\ i < j
    /\ k \in Keys(history[i]) /\ k \in Keys(history[j])
    /\ \A l \in DOMAIN history : i < l /\ l < j => k \notin Keys(history[l])

HistoryIsContinuous ==
    \A i, j \in DOMAIN history : \A k \in Key :
        AreNeighbours(i, j, k) =>
            SameValue(history[j].deltas[k].old, history[i].deltas[k].new)

IInv ==
    /\ MapInv
    /\ LockedHasRun
    /\ HistoryIsAChain
    /\ NoLastLogged
    /\ HistoryExplainsValues
    /\ HistoryIsContinuous

\* A daemon that starts with nothing stored satisfies the invariant.
LEMMA InitIInv == Init => IInv
<1> SUFFICES ASSUME Init PROVE IInv OBVIOUS
<1> USE DEF Init
<1>1. IsInFlightMap(inFlight) /\ IsCoherent(inFlight) /\ DOMAIN inFlight.items = {}
  BY EmptyMapGood DEF IsGoodMap
<1>2. history \in Seq(Range(history)) /\ DOMAIN history = {} /\ Len(history) = 0
  BY EmptySeq
<1>3. TypeOK BY <1>1, <1>2 DEF TypeOK, MaybeValue
<1>4. LockedHasRun BY <1>1 DEF LockedHasRun
<1>5. HistoryIsAChain BY <1>2, MaxStorageAssumption DEF HistoryIsAChain
<1>6. NoLastLogged /\ HistoryExplainsValues /\ HistoryIsContinuous
  BY <1>2 DEF NoLastLogged, HistoryExplainsValues, HistoryIsContinuous
<1> QED BY <1>1, <1>3, <1>4, <1>5, <1>6 DEF IInv, MapInv, AgeOrderMatchesBuckets

\* Steps that leave the history and the values alone.
LEMMA HistoryUnchanged ==
    ASSUME IInv, IsGoodMap(inFlight'), running' \in SUBSET HookRun, LockedHasRun',
           UNCHANGED <<values, history, maxId>>
    PROVE  IInv'
<1> USE DEF IInv, MapInv
<1>1. TypeOK' BY DEF TypeOK, IsGoodMap
<1>2. AgeOrderMatchesBuckets' BY DEF AgeOrderMatchesBuckets, IsGoodMap
<1>3. HistoryIsAChain' BY DEF HistoryIsAChain
<1>4. NoLastLogged' BY DEF NoLastLogged
<1>5. HistoryExplainsValues' BY DEF HistoryExplainsValues, IsYoungestChange
<1>6. HistoryIsContinuous' BY DEF HistoryIsContinuous, AreNeighbours
<1> QED BY <1>1, <1>2, <1>3, <1>4, <1>5, <1>6

\* The equality of ConfigValue is transitive.
LEMMA SameValueTransitive ==
    ASSUME NEW u, NEW v, NEW w, SameValue(u, v), SameValue(v, w)
    PROVE  SameValue(u, w)
BY DEF SameValue

\* A key that a commit does not count as changed keeps its value, up to that
\* equality.
LEMMA UnchangedKeys ==
    ASSUME TypeOK, NEW list \in Seq(Pair), NEW lasts \in LastItems(list),
           values' = UpdateItems(values, list \o lasts),
           NEW k \in Key, ~IsLast(k), k \notin ChangedKeys(list)
    PROVE  SameValue(values[k], values'[k])
<1>1. values'[k] = IF Touches(list, k) THEN LastWrite(list, k) ELSE values[k]
  BY UpdatedValue
<1> QED BY <1>1 DEF ChangedKeys, SameValue

\* What the history is after a commit is logged: the youngest entry is the
\* new commit and the others are moved down by the d that were forgotten.
LEMMA LoggedHistory ==
    ASSUME TypeOK, HistoryIsAChain, NEW list \in Seq(Pair),
           history' = LogCommit(history, TheCommit(list))
    PROVE  \E d \in 0..Len(history) :
              /\ history' \in Seq(Range(history)')
              /\ Len(history) \in Nat /\ DOMAIN history = 1..Len(history)
              /\ Len(history') = Len(history) + 1 - d
              /\ DOMAIN history' = 1..Len(history')
              /\ Len(history') <= MaxStorage
              /\ \A i \in 1..Len(history) - d : history'[i] = history[i + d]
              /\ history'[Len(history')] = TheCommit(list)
<1> DEFINE S == Range(history) \cup {TheCommit(list)}
<1>1. history \in Seq(S)
  BY SeqMonotonic DEF TypeOK
<1>2. Len(history) \in Nat /\ DOMAIN history = 1..Len(history)
  BY <1>1, LenProperties
<1> DEFINE commit == TheCommit(list)
<1>3. commit \in S OBVIOUS
<1> HIDE DEF S, commit
<1>4. \E d \in 0..Len(history) :
              /\ LogCommit(history, commit) \in Seq(S)
              /\ Len(LogCommit(history, commit)) = Len(history) + 1 - d
              /\ Len(LogCommit(history, commit)) <= MaxStorage
              /\ \A i \in 1..Len(history) + 1 - d :
                    LogCommit(history, commit)[i] =
                        IF i + d <= Len(history) THEN history[i + d] ELSE commit
  BY <1>1, <1>3, LogCommitShape
<1>5. history' = LogCommit(history, commit) BY DEF commit
<1>6. PICK d \in 0..Len(history) :
              /\ history' \in Seq(S)
              /\ Len(history') = Len(history) + 1 - d
              /\ Len(history') <= MaxStorage
              /\ \A i \in 1..Len(history) + 1 - d :
                    history'[i] = IF i + d <= Len(history) THEN history[i + d] ELSE commit
  BY <1>4, <1>5
<1>7. history' \in Seq(Range(history)') /\ DOMAIN history' = 1..Len(history')
  <2>1. history' \in Seq(Range(history')) BY <1>6, SeqOverRange
  <2> QED BY <2>1, <1>6, LenProperties
<1>8. \A i \in 1..Len(history) - d : history'[i] = history[i + d]
  BY <1>2, <1>6
<1>9. history'[Len(history')] = TheCommit(list)
  BY <1>2, <1>6 DEF commit
<1> QED BY <1>2, <1>6, <1>7, <1>8, <1>9

\* A commit keeps the invariant.
LEMMA CommitsIInv ==
    ASSUME IInv, NEW list \in Seq(Pair), NEW lasts \in LastItems(list),
           Commits(list, lasts)
    PROVE  IInv'
<1>1. /\ TypeOK /\ HistoryIsAChain /\ NoLastLogged
      /\ HistoryExplainsValues /\ HistoryIsContinuous
  BY DEF IInv, MapInv
<1>2. values' = UpdateItems(values, list \o lasts) /\ values' \in [Key -> MaybeValue]
  <2>1. lasts \in Seq(Pair) BY <1>1, LastItemsType
  <2>2. list \o lasts \in Seq(Pair) BY <2>1, ConcatProperties
  <2> QED BY <1>1, <2>2, UpdateItemsType DEF Commits, TypeOK
<1>3. IsGoodMap(inFlight') /\ running' \in SUBSET HookRun
  BY DEF Commits, KeepsRuns
<1>4. LockedHasRun'
  <2>1. ASSUME NEW b \in Locked(inFlight') PROVE \E run \in running' : run.client = b
    BY <2>1 DEF Commits, KeepsRuns, IInv, LockedHasRun, Locked
  <2> QED BY <2>1 DEF LockedHasRun, Locked
<1>5. CASE ChangedKeys(list) = {}
  <2>1. UNCHANGED <<history, maxId>> BY <1>5 DEF Commits, IsLogging
  <2>2. TypeOK' BY <1>1, <1>2, <1>3, <2>1 DEF TypeOK, IsGoodMap
  <2>3. HistoryIsAChain' BY <1>1, <2>1 DEF HistoryIsAChain
  <2>4. NoLastLogged' BY <1>1, <2>1 DEF NoLastLogged
  <2>5. HistoryExplainsValues'
    <3> SUFFICES ASSUME NEW i \in DOMAIN history, NEW k \in Key, IsYoungestChange(i, k)
                 PROVE  SameValue(history[i].deltas[k].new, values'[k])
      BY <2>1 DEF HistoryExplainsValues, IsYoungestChange
    <3>1. SameValue(history[i].deltas[k].new, values[k])
      BY <1>1 DEF HistoryExplainsValues
    <3>2. ~IsLast(k) BY <1>1 DEF NoLastLogged, IsYoungestChange
    <3>3. SameValue(values[k], values'[k])
      BY <1>1, <1>2, <1>5, <3>2, UnchangedKeys
    <3> QED BY <3>1, <3>3, SameValueTransitive
  <2>6. HistoryIsContinuous'
    BY <1>1, <2>1 DEF HistoryIsContinuous, AreNeighbours
  <2> QED BY <1>3, <1>4, <2>2, <2>3, <2>4, <2>5, <2>6
          DEF IInv, MapInv, AgeOrderMatchesBuckets, IsGoodMap
<1>6. CASE ChangedKeys(list) # {}
  <2> DEFINE commit == TheCommit(list)
             n == Len(history')
  <2>1. history' = LogCommit(history, commit) /\ maxId' = maxId + 1
    BY <1>6 DEF Commits, IsLogging
  <2>2. PICK d \in 0..Len(history) :
              /\ history' \in Seq(Range(history)')
              /\ Len(history) \in Nat /\ DOMAIN history = 1..Len(history)
              /\ n = Len(history) + 1 - d
              /\ DOMAIN history' = 1..n
              /\ n <= MaxStorage
              /\ \A i \in 1..Len(history) - d : history'[i] = history[i + d]
              /\ history'[n] = commit
    BY <1>1, <2>1, LoggedHistory
  <2>3. /\ IsCommit(commit) /\ commit.id = maxId + 1
        /\ commit.parent = MostRecentId(history) /\ commit.parent <= maxId
        /\ Keys(commit) = ChangedKeys(list)
        /\ \A k \in ChangedKeys(list) : commit.deltas[k].new = LastWrite(list, k)
    BY <1>1, TheCommitType
  <2>4. ASSUME NEW i \in DOMAIN history'
        PROVE  \/ i = n /\ history'[i] = commit
               \/ i < n /\ i + d \in DOMAIN history /\ history'[i] = history[i + d]
    BY <2>2
  <2> HIDE DEF commit, n
  <2>5. TypeOK'
    <3>1. \A i \in DOMAIN history' : IsCommit(history'[i])
      BY <1>1, <2>3, <2>4 DEF TypeOK
    <3> QED BY <1>1, <1>2, <1>3, <2>1, <2>2, <3>1 DEF TypeOK, IsGoodMap
  <2>6. maxId \in Nat /\ n \in Nat /\ d \in Nat
    BY <1>1, <2>2 DEF TypeOK
  <2>7. HistoryIsAChain'
    <3>1. ASSUME NEW i \in DOMAIN history'
          PROVE  /\ history'[i].parent < history'[i].id
                 /\ history'[i].id <= maxId'
                 /\ Keys(history'[i]) # {}
      <4>1. CASE i = n /\ history'[i] = commit
        BY <1>6, <2>1, <2>3, <2>6, <4>1 DEF IsCommit
      <4>2. CASE i + d \in DOMAIN history /\ history'[i] = history[i + d]
        BY <1>1, <2>1, <2>6, <4>2 DEF HistoryIsAChain, TypeOK, IsCommit
      <4> QED BY <2>4, <4>1, <4>2
    <3>2. ASSUME NEW i \in DOMAIN history', i > 1
          PROVE  history'[i].parent = history'[i - 1].id
      <4>1. i - 1 \in DOMAIN history' /\ i - 1 < n
        BY <2>2, <2>6, <3>2
      <4>2. i - 1 + d \in DOMAIN history /\ history'[i - 1] = history[i - 1 + d]
        BY <2>4, <4>1
      <4>3. i \in Nat BY <2>2, <2>6
      <4>4. CASE i = n /\ history'[i] = commit
        <5>1. i - 1 + d = Len(history) BY <2>2, <2>6, <4>4, <4>3
        <5>2. history # <<>> BY <4>2, <2>2, EmptySeq
        <5> QED BY <2>3, <4>2, <4>4, <5>1, <5>2 DEF MostRecentId
      <4>5. CASE i + d \in DOMAIN history /\ history'[i] = history[i + d]
        <5>1. i + d > 1 /\ i + d - 1 = i - 1 + d
          BY <2>6, <3>2, <4>3
        <5>2. history[i + d].parent = history[i + d - 1].id
          <6> DEFINE j == i + d
          <6>1. j \in DOMAIN history /\ j > 1 BY <4>5, <5>1
          <6> HIDE DEF j
          <6>2. history[j].parent = history[j - 1].id
            BY <1>1, <6>1 DEF HistoryIsAChain
          <6> QED BY <2>6, <4>3, <6>2 DEF j
        <5> QED BY <4>2, <4>5, <5>1, <5>2
      <4> QED BY <2>4, <4>4, <4>5
    <3> QED BY <2>2, <3>1, <3>2 DEF HistoryIsAChain, n
  <2>8. NoLastLogged'
    <3>1. \A k \in Keys(commit) : ~IsLast(k) BY <2>3 DEF ChangedKeys
    <3> QED BY <1>1, <2>4, <3>1 DEF NoLastLogged
  <2>9. HistoryExplainsValues'
    <3> SUFFICES ASSUME NEW i \in DOMAIN history', NEW k \in Key,
                        k \in Keys(history'[i]),
                        \A j \in DOMAIN history' : k \in Keys(history'[j]) => j <= i
                 PROVE  SameValue(history'[i].deltas[k].new, values'[k])
      BY DEF HistoryExplainsValues, IsYoungestChange
    <3>1. ~IsLast(k) BY <2>8 DEF NoLastLogged
    <3>2. CASE i = n /\ history'[i] = commit
      <4>1. k \in ChangedKeys(list) BY <2>3, <3>2
      <4>2. values'[k] = LastWrite(list, k)
        BY <1>1, <1>2, <3>1, <4>1, UpdatedValue DEF ChangedKeys
      <4> QED BY <2>3, <3>2, <4>1, <4>2 DEF SameValue
    <3>3. CASE i < n /\ i + d \in DOMAIN history /\ history'[i] = history[i + d]
      <4>1. k \notin ChangedKeys(list)
        <5>1. n \in DOMAIN history' /\ ~(n <= i) BY <2>2, <2>6, <3>3
        <5> QED BY <2>2, <2>3, <5>1
      <4>2. ASSUME NEW j \in DOMAIN history, k \in Keys(history[j]) PROVE j <= i + d
        <5>1. CASE j <= d BY <2>2, <2>6, <5>1
        <5>2. CASE j > d
          <6>1. j - d \in 1..Len(history) - d /\ j - d + d = j BY <2>2, <2>6, <5>2
          <6>2. history'[j - d] = history[j] /\ j - d \in DOMAIN history'
            BY <2>2, <2>6, <6>1
          <6>3. j - d <= i BY <4>2, <6>2
          <6> QED BY <2>2, <2>6, <6>3
        <5> QED BY <2>2, <2>6, <5>1, <5>2
      <4>3. IsYoungestChange(i + d, k) BY <3>3, <4>2 DEF IsYoungestChange
      <4>4. SameValue(history'[i].deltas[k].new, values[k])
        BY <1>1, <3>3, <4>3 DEF HistoryExplainsValues
      <4>5. SameValue(values[k], values'[k])
        BY <1>1, <1>2, <3>1, <4>1, UnchangedKeys
      <4> QED BY <4>4, <4>5, SameValueTransitive
    <3> QED BY <2>4, <3>2, <3>3
  <2>10. HistoryIsContinuous'
    <3> SUFFICES ASSUME NEW i \in DOMAIN history', NEW j \in DOMAIN history',
                        NEW k \in Key, i < j,
                        k \in Keys(history'[i]), k \in Keys(history'[j]),
                        \A l \in DOMAIN history' : i < l /\ l < j => k \notin Keys(history'[l])
                 PROVE  SameValue(history'[j].deltas[k].old, history'[i].deltas[k].new)
      BY DEF HistoryIsContinuous, AreNeighbours
    <3>1. i < n /\ i + d \in DOMAIN history /\ history'[i] = history[i + d]
      BY <2>2, <2>4, <2>6
    <3>2. ASSUME NEW l \in DOMAIN history, i + d < l, k \in Keys(history[l])
          PROVE  j <= l - d
      <4>1. l - d \in 1..Len(history) - d /\ l - d + d = l BY <2>2, <2>6, <3>2
      <4>2. history'[l - d] = history[l] /\ l - d \in DOMAIN history' /\ i < l - d
        BY <2>2, <2>6, <3>2, <4>1
      <4>3. ~(l - d < j) BY <3>2, <4>2
      <4> QED BY <2>2, <2>6, <4>2, <4>3
    <3>3. CASE j = n /\ history'[j] = commit
      <4>1. k \in ChangedKeys(list) BY <2>3, <3>3
      <4>2. ASSUME NEW l \in DOMAIN history, k \in Keys(history[l]) PROVE l <= i + d
        <5>1. CASE i + d < l
          <6>1. n <= l - d BY <3>2, <3>3, <4>2, <5>1
          <6> QED BY <2>2, <2>6, <6>1
        <5> QED BY <2>2, <2>6, <5>1
      <4>3. IsYoungestChange(i + d, k) BY <3>1, <4>2 DEF IsYoungestChange
      <4>4. SameValue(history[i + d].deltas[k].new, values[k])
        BY <1>1, <3>1, <4>3 DEF HistoryExplainsValues
      <4>5. commit.deltas[k].old = values[k]
        BY <4>1 DEF commit, TheCommit, NewCommit, Changed
      <4> QED BY <3>1, <3>3, <4>4, <4>5 DEF SameValue
    <3>4. CASE j < n /\ j + d \in DOMAIN history /\ history'[j] = history[j + d]
      <4>1. i + d < j + d BY <2>2, <2>6
      <4>2. ASSUME NEW l \in DOMAIN history, i + d < l, l < j + d
            PROVE  k \notin Keys(history[l])
        BY <2>2, <2>6, <3>2, <4>2
      <4>3. AreNeighbours(i + d, j + d, k)
        BY <3>1, <3>4, <4>1, <4>2 DEF AreNeighbours
      <4>4. SameValue(history[j + d].deltas[k].old, history[i + d].deltas[k].new)
        BY <1>1, <3>1, <3>4, <4>3 DEF HistoryIsContinuous
      <4> QED BY <3>1, <3>4, <4>4
    <3> QED BY <2>4, <3>3, <3>4
  <2> QED BY <1>3, <1>4, <2>5, <2>7, <2>8, <2>9, <2>10
          DEF IInv, MapInv, AgeOrderMatchesBuckets, IsGoodMap
<1> QED BY <1>5, <1>6

\* Every step keeps the invariant.
LEMMA NextIInv == IInv /\ [Next]_vars => IInv'
<1> SUFFICES ASSUME IInv, [Next]_vars PROVE IInv' OBVIOUS
<1>1. MapInv /\ TypeOK /\ HistoryIsAChain /\ LockedHasRun BY DEF IInv, MapInv
<1>2. running \in SUBSET HookRun BY <1>1 DEF TypeOK
<1>3. IsGoodMap(inFlight)
  BY <1>1 DEF MapInv, TypeOK, AgeOrderMatchesBuckets, IsGoodMap
<1>4. CASE StagingStep
  <2>1. /\ IsGoodMap(inFlight') /\ Locked(inFlight') \subseteq Locked(inFlight)
        /\ UNCHANGED <<values, history, maxId, running>>
    BY <1>4 DEF StagingStep, IsStagingOf
  <2>2. LockedHasRun' BY <1>1, <2>1 DEF LockedHasRun, Locked
  <2> QED BY <1>2, <2>1, <2>2, HistoryUnchanged
<1>5. CASE CommitStep
  BY <1>1, <1>4, <1>5, CommitShape, CommitsIInv
<1>6. CASE HooksStep
  <2>1. PICK run \in running : HooksDone(run) \/ HooksBroken(run) BY <1>6 DEF HooksStep
  <2>2. CASE HooksDone(run)
    <3>1. /\ IsGoodMap(inFlight') /\ Locked(inFlight') \subseteq Locked(inFlight) \ {run.client}
          /\ running' = running \ {run} /\ UNCHANGED <<values, history, maxId>>
      BY <1>3, <2>2, DropGood DEF HooksDone
    <3>2. ASSUME NEW b \in Locked(inFlight') PROVE \E r \in running' : r.client = b
      BY <1>1, <3>1 DEF LockedHasRun, Locked
    <3>3. LockedHasRun' BY <3>2 DEF LockedHasRun, Locked
    <3> QED BY <1>2, <3>1, <3>3, HistoryUnchanged
  <2>3. CASE HooksBroken(run)
    <3> DEFINE over == [run EXCEPT !.broken = TRUE]
    <3>1. over \in HookRun /\ over.client = run.client BY <1>2 DEF HookRun
    <3>2. running' = (running \ {run}) \cup {over} /\ UNCHANGED <<inFlight, values, history, maxId>>
      BY <2>3 DEF HooksBroken
    <3> HIDE DEF over
    <3>3. running' \in SUBSET HookRun BY <1>2, <3>1, <3>2
    <3>4. ASSUME NEW b \in Locked(inFlight') PROVE \E r \in running' : r.client = b
      BY <1>1, <3>1, <3>2 DEF LockedHasRun, Locked
    <3>5. LockedHasRun' BY <3>4 DEF LockedHasRun, Locked
    <3> QED BY <1>3, <3>2, <3>3, <3>5, HistoryUnchanged
  <2> QED BY <2>1, <2>2, <2>3
<1>7. CASE UNCHANGED vars
  <2>1. UNCHANGED <<inFlight, values, history, maxId, running>> BY <1>7 DEF vars
  <2>2. LockedHasRun' BY <1>1, <2>1 DEF LockedHasRun
  <2> QED BY <1>2, <1>3, <2>1, <2>2, HistoryUnchanged
<1>8. CASE Next
  BY <1>1, <1>4, <1>5, <1>6, <1>8, StepKinds
<1> QED BY <1>7, <1>8

\* The invariant holds in every state that the daemon reaches.
LEMMA Invariance == Spec => []IInv
BY InitIInv, NextIInv, PTL DEF Spec

----------------------------------------------------------------------------

\* The in-flight items, the store, the history and the pending commits keep
\* their types: Erase never stages a wildcard, Reset and SaveLastItems only
\* build keys that exist, and no list of pairs is broken by an eviction.
THEOREM TypeCorrectness == Spec => []TypeOK
<1>1. IInv => TypeOK BY DEF IInv, MapInv
<1> QED BY <1>1, Invariance, PTL

\* SizeAgeBoundMap's mItems and mHistory agree in every state, for any number
\* of clients and any limit.
THEOREM AgeOrder == Spec => []AgeOrderMatchesBuckets
<1>1. IInv => AgeOrderMatchesBuckets BY DEF IInv, MapInv
<1> QED BY <1>1, Invariance, PTL

\* A lock is never left behind without cause: a locked bucket always has a
\* commit of its client whose hooks are still running, and whose continuation
\* drops the bucket unless the run is broken, or one whose run was broken.
THEOREM LocksHaveRuns == Spec => []LockedHasRun
<1>1. IInv => LockedHasRun BY DEF IInv
<1> QED BY <1>1, Invariance, PTL

\* The commits in memory are one chain of at most MaxStorage, with increasing
\* ids, whatever is dropped from its old end.
THEOREM HistoryChain == Spec => []HistoryIsAChain
<1>1. IInv => HistoryIsAChain BY DEF IInv
<1> QED BY <1>1, Invariance, PTL

\* The history never drifts from the store: the youngest commit that names a
\* key has the key's present value.
THEOREM HistoryIsFaithful == Spec => []HistoryExplainsValues
<1>1. IInv => HistoryExplainsValues BY DEF IInv
<1> QED BY <1>1, Invariance, PTL

\* Blame tells one story: the entries it lists for a key are the neighbouring
\* changes of the key, and each takes up the value that the next older one left.
THEOREM BlameTellsOneStory == Spec => []BlameIsContinuous
<1>1. IInv => BlameIsContinuous
  <2> SUFFICES ASSUME IInv, NEW k \in Key, NEW i \in 1..Len(Blame(history, k)) - 1
               PROVE  SameValue(Blame(history, k)[i].deltas[k].old,
                                Blame(history, k)[i + 1].deltas[k].new)
    BY DEF BlameIsContinuous
  <2>1. TypeOK /\ HistoryIsContinuous BY DEF IInv, MapInv
  <2>2. Len(history) \in Nat /\ DOMAIN history = 1..Len(history)
    BY <2>1, LenProperties DEF TypeOK
  <2> DEFINE S == {l \in DOMAIN history : k \in Keys(history[l])}
             order == CHOOSE s \in InOrder(S) : TRUE
             found == [l \in DOMAIN order |-> history[order[l]]]
             n == Len(order)
  <2>3. order \in InOrder(S)
    <3>1. S \in SUBSET (1..Len(history)) BY <2>2
    <3> HIDE DEF S
    <3>2. \E s : s \in InOrder(S) BY <2>2, <3>1, InOrderExists
    <3> QED BY <3>2
  <2>4. IsFiniteSet(S)
    <3>1. IsFiniteSet(1..Len(history)) BY <2>2, FS_Interval
    <3> QED BY <2>2, <3>1, FS_Subset
  <2>5. Blame(history, k) = Reverse(found) BY DEF Blame
  <2> HIDE DEF order, S
  <2>6. /\ order \in Seq(S) /\ n \in Nat /\ DOMAIN order = 1..n
        /\ \A x \in S : \E l \in DOMAIN order : order[l] = x
        /\ \A l, m \in DOMAIN order : l < m => order[l] < order[m]
    BY <2>3, <2>4, Enumeration DEF InOrder
  <2>7. found \in Seq(Range(found)) /\ Len(found) = n
    <3>1. found \in [1..n -> Range(found)] BY <2>6 DEF Range
    <3> HIDE DEF found
    <3> QED BY <2>6, <3>1, FunctionIsSeq
  <2> HIDE DEF n
  <2>8. /\ Len(Reverse(found)) = n
        /\ \A l \in 1..n : Reverse(found)[l] = history[order[n - l + 1]]
    <3>1. Reverse(found) \in [1..n -> Range(found)]
      <4> HIDE DEF found
      <4>1. \A l \in 1..n : n - l + 1 \in 1..n BY <2>6
      <4>2. \A l \in 1..n : found[l] \in Range(found) BY <2>6, <2>7
      <4> QED BY <2>7, <4>1, <4>2 DEF Reverse
    <3>2. Len(Reverse(found)) = n BY <2>6, <3>1, FunctionIsSeq
    <3>3. ASSUME NEW l \in 1..n PROVE Reverse(found)[l] = history[order[n - l + 1]]
      <4>1. n - l + 1 \in 1..n BY <2>6
      <4>2. Reverse(found)[l] = found[n - l + 1] BY <2>7 DEF Reverse
      <4> QED BY <2>6, <4>1, <4>2
    <3> QED BY <3>2, <3>3
  <2> HIDE DEF found
  <2> DEFINE old == order[n - i]
             young == order[n - i + 1]
  <2>9. i \in 1..n - 1 /\ i \in 1..n /\ i + 1 \in 1..n /\ n - (i + 1) + 1 = n - i
    BY <2>5, <2>6, <2>8
  <2>10. n - i \in 1..n /\ n - i + 1 \in 1..n /\ n - i < n - i + 1
    BY <2>6, <2>9
  <2>11. old \in S /\ young \in S /\ old < young
    BY <2>6, <2>10
  <2>12. ASSUME NEW l \in S, old < l, l < young PROVE FALSE
    <3>1. PICK m \in 1..n : order[m] = l BY <2>6
    <3>2. l \in Nat /\ old \in Nat /\ young \in Nat BY <2>2, <2>11 DEF S
    <3>3. ~(m <= n - i)
      <4>1. CASE m < n - i
        <5>1. order[m] < old BY <2>6, <2>10, <4>1
        <5> QED BY <2>12, <3>1, <3>2, <5>1
      <4>2. CASE m = n - i BY <2>12, <3>1, <3>2, <4>2
      <4> QED BY <2>6, <2>9, <4>1, <4>2
    <3>4. CASE m = n - i + 1 BY <2>12, <3>1, <3>2, <3>4
    <3>5. CASE n - i + 1 < m
      <4>1. young < order[m] BY <2>6, <2>10, <3>5
      <4> QED BY <2>12, <3>1, <3>2, <4>1
    <3> QED BY <2>6, <2>9, <3>3, <3>4, <3>5
  <2>13. AreNeighbours(old, young, k)
    <3> HIDE DEF old, young
    <3> QED BY <2>11, <2>12 DEF AreNeighbours, S
  <2>14. old \in DOMAIN history /\ young \in DOMAIN history BY <2>11 DEF S
  <2>15. SameValue(history[young].deltas[k].old, history[old].deltas[k].new)
    <3> HIDE DEF old, young
    <3> QED BY <2>1, <2>13, <2>14 DEF HistoryIsContinuous
  <2> QED BY <2>5, <2>8, <2>9, <2>15
<1> QED BY <1>1, Invariance, PTL

----------------------------------------------------------------------------
\* What CanRollback looks at.

\* Along the history the ids grow.
LEMMA IdsGrow ==
    ASSUME TypeOK, HistoryIsAChain,
           NEW i \in DOMAIN history, NEW j \in DOMAIN history, i < j
    PROVE  history[i].id < history[j].id
<1> DEFINE T == {b \in DOMAIN history : i < b /\ ~(history[i].id < history[b].id)}
<1>1. Len(history) \in Nat /\ DOMAIN history = 1..Len(history)
  BY LenProperties DEF TypeOK
<1>2. SUFFICES ASSUME T # {} PROVE FALSE
  OBVIOUS
<1>3. T \in SUBSET Nat BY <1>1
<1>4. PICK b \in T : \A e \in T : b <= e
  <2> HIDE DEF T
  <2> QED BY <1>2, <1>3, SmallestExists
<1>5. b \in DOMAIN history /\ i < b /\ ~(history[i].id < history[b].id) /\ b \in Nat
  BY <1>1, <1>4
<1>6. b - 1 \in DOMAIN history /\ b > 1 /\ i <= b - 1 BY <1>1, <1>5
<1>7. history[b - 1].id < history[b].id
  BY <1>5, <1>6 DEF HistoryIsAChain
<1>8. \A a \in DOMAIN history : history[a].id \in Nat BY DEF TypeOK, IsCommit
<1>9. CASE i = b - 1
  BY <1>5, <1>7, <1>9
<1>10. CASE i < b - 1
  <2>1. b - 1 \notin T BY <1>4, <1>5
  <2>2. history[i].id < history[b - 1].id BY <1>6, <1>10, <2>1
  <2> QED BY <1>5, <1>6, <1>7, <1>8, <2>2
<1> QED BY <1>1, <1>6, <1>9, <1>10

\* The child that GetChild finds for a commit is its successor in the list.
LEMMA ChildIsNext ==
    ASSUME TypeOK, HistoryIsAChain, NEW j \in DOMAIN history, j > 1
    PROVE  j \in GetChild(history, history[j - 1].id)
<1>1. Len(history) \in Nat /\ DOMAIN history = 1..Len(history)
  BY LenProperties DEF TypeOK
<1>2. j - 1 \in DOMAIN history /\ history[j].parent = history[j - 1].id
  BY <1>1 DEF HistoryIsAChain
<1>3. ASSUME NEW b \in DOMAIN history, history[b].parent = history[j - 1].id, b > j
      PROVE  FALSE
  <2>1. b - 1 \in DOMAIN history /\ b > 1 /\ j - 1 < b - 1 BY <1>1, <1>3
  <2>2. history[b].parent = history[b - 1].id BY <2>1 DEF HistoryIsAChain
  <2>3. history[j - 1].id < history[b - 1].id BY <1>2, <2>1, IdsGrow
  <2>4. history[b - 1].id \in Nat BY <2>1 DEF TypeOK, IsCommit
  <2> QED BY <1>3, <2>2, <2>3, <2>4
<1>4. \A b \in DOMAIN history : history[b].parent = history[j - 1].id => b <= j
  BY <1>1, <1>3
<1> QED BY <1>2, <1>4 DEF GetChild

\* CanRollback visits every commit that is younger than the given one.
LEMMA LaterCommitsAreAll ==
    ASSUME TypeOK, HistoryIsAChain,
           NEW i \in DOMAIN history, NEW j \in DOMAIN history, i < j
    PROVE  j \in LaterCommits(history, history[i].id)
<1>1. Len(history) \in Nat /\ DOMAIN history = 1..Len(history)
  BY LenProperties DEF TypeOK
<1>2. SUFFICES ASSUME NEW S \in SUBSET DOMAIN history,
                      IsClosedUnderGetChild(history, history[i].id, S)
               PROVE  j \in S
  BY DEF LaterCommits
<1> DEFINE T == {b \in DOMAIN history : i < b /\ b \notin S}
<1>3. SUFFICES ASSUME T # {} PROVE FALSE
  OBVIOUS
<1>4. T \in SUBSET Nat BY <1>1
<1>5. PICK b \in T : \A e \in T : b <= e
  <2> HIDE DEF T
  <2> QED BY <1>3, <1>4, SmallestExists
<1>6. b \in DOMAIN history /\ i < b /\ b \notin S /\ b \in Nat BY <1>1, <1>5
<1>7. b - 1 \in DOMAIN history /\ b > 1 /\ i <= b - 1 BY <1>1, <1>6
<1>8. b \in GetChild(history, history[b - 1].id) BY <1>6, <1>7, ChildIsNext
<1>9. CASE i = b - 1
  BY <1>2, <1>6, <1>8, <1>9 DEF IsClosedUnderGetChild
<1>10. CASE i < b - 1
  <2>1. b - 1 \notin T BY <1>5, <1>6
  <2>2. b - 1 \in S BY <1>7, <1>10, <2>1
  <2> QED BY <1>2, <1>6, <1>8, <2>2 DEF IsClosedUnderGetChild
<1> QED BY <1>1, <1>7, <1>9, <1>10

\* A commit that CanRollback accepts is the youngest change of each of its
\* keys, so a rollback replaces current values and no later change is lost.
THEOREM RollbackIsSafe == Spec => []RollbackUndoesNoLaterChange
<1>1. IInv => RollbackUndoesNoLaterChange
  <2> SUFFICES ASSUME IInv, NEW i \in DOMAIN history,
                      CanRollback(history, history[i]), NEW k \in Keys(history[i])
               PROVE  SameValue(values[k], history[i].deltas[k].new)
    BY DEF RollbackUndoesNoLaterChange
  <2>1. TypeOK /\ HistoryIsAChain /\ HistoryExplainsValues BY DEF IInv, MapInv
  <2>2. Len(history) \in Nat /\ DOMAIN history = 1..Len(history)
    BY <2>1, LenProperties DEF TypeOK
  <2>3. ASSUME NEW j \in DOMAIN history, k \in Keys(history[j]) PROVE j <= i
    <3>1. CASE i < j
      <4>1. j \in LaterCommits(history, history[i].id) BY <2>1, <3>1, LaterCommitsAreAll
      <4> QED BY <2>3, <4>1 DEF CanRollback
    <3> QED BY <2>2, <3>1
  <2>4. IsYoungestChange(i, k) BY <2>3 DEF IsYoungestChange
  <2>5. k \in Key BY <2>1 DEF TypeOK, IsCommit
  <2>6. SameValue(history[i].deltas[k].new, values[k])
    BY <2>1, <2>4, <2>5 DEF HistoryExplainsValues
  <2> QED BY <2>6 DEF SameValue
<1> QED BY <1>1, Invariance, PTL

\* No value outside "last." changes without a commit in the history that says
\* from what to what, save for an int32 0 that is erased.
THEOREM ChangesLogged == Spec => ChangesAreLogged
<1> DEFINE A == \A k \in Key : ~IsLast(k) /\ values[k] # values'[k] =>
                    IsLogged(k) \/ IsErasedZero(k)
<1>1. IInv /\ [Next]_vars => [A]_vars
  <2> SUFFICES ASSUME IInv, Next, NEW k \in Key, ~IsLast(k),
                      values[k] # values'[k], ~IsErasedZero(k)
               PROVE  IsLogged(k)
    OBVIOUS
  <2>1. TypeOK /\ HistoryIsAChain /\ MapInv BY DEF IInv, MapInv
  <2>2. ~StagingStep /\ ~HooksStep
    BY DEF StagingStep, HooksStep, HooksDone, HooksBroken
  <2>3. CommitStep BY <2>1, <2>2, StepKinds
  <2>4. PICK list \in Seq(Pair) : \E lasts \in LastItems(list) : Commits(list, lasts)
    BY <2>1, <2>2, <2>3, CommitShape
  <2>5. PICK lasts \in LastItems(list) : Commits(list, lasts) BY <2>4
  <2>6. values' = UpdateItems(values, list \o lasts) BY <2>5 DEF Commits
  <2>7. k \in ChangedKeys(list)
    <3>1. values'[k] = IF Touches(list, k) THEN LastWrite(list, k) ELSE values[k]
      BY <2>1, <2>6, UpdatedValue
    <3>2. CASE values[k] # Empty /\ SameValue(values[k], values'[k])
      BY <3>2 DEF SameValue, IsErasedZero
    <3> QED BY <3>1, <3>2 DEF ChangedKeys
  <2>8. history' = LogCommit(history, TheCommit(list)) /\ maxId' = maxId + 1
    BY <2>5, <2>7 DEF Commits, IsLogging
  <2>9. history'[Len(history')] = TheCommit(list) BY <2>1, <2>8, LoggedHistory
  <2>10. TheCommit(list).id = maxId + 1 /\ k \in Keys(TheCommit(list))
    BY <2>1, <2>7, TheCommitType
  <2>11. values'[k] = LastWrite(list, k)
    BY <2>1, <2>6, <2>7, UpdatedValue DEF ChangedKeys
  <2>12. TheCommit(list).deltas[k] = [old |-> values[k], new |-> LastWrite(list, k)]
    BY <2>7 DEF TheCommit, NewCommit, Changed
  <2> QED BY <2>8, <2>9, <2>10, <2>11, <2>12 DEF IsLogged
<1> QED BY <1>1, Invariance, PTL DEF Spec, ChangesAreLogged


\* The "last." copy of a key that changes is the value it had before.
THEOREM CopiesHoldPrevious == Spec => LastHoldsPrevious
<1> DEFINE A == \A k \in Key : ~IsReserved(k) /\ values[k] # values'[k] =>
                    values'[LastKey(k)] = values[k]
<1>1. IInv /\ [Next]_vars => [A]_vars
  <2> SUFFICES ASSUME IInv, Next, NEW k \in Key, ~IsReserved(k), values[k] # values'[k]
               PROVE  values'[LastKey(k)] = values[k]
    OBVIOUS
  <2>1. TypeOK /\ HistoryIsAChain /\ MapInv BY DEF IInv, MapInv
  <2>2. ~StagingStep /\ ~HooksStep
    BY DEF StagingStep, HooksStep, HooksDone, HooksBroken
  <2>3. CommitStep BY <2>1, <2>2, StepKinds
  <2>4. PICK list \in Seq(Pair) : \E lasts \in LastItems(list) : Commits(list, lasts)
    BY <2>1, <2>2, <2>3, CommitShape
  <2>5. PICK lasts \in LastItems(list) : Commits(list, lasts) BY <2>4
  <2>6. values' = UpdateItems(values, list \o lasts) BY <2>5 DEF Commits
  <2>7. ~IsLast(k) BY DEF IsReserved
  <2>8. Touches(list, k) BY <2>1, <2>5, <2>6, <2>7, UpdatedValue
  <2> QED BY <2>1, <2>5, <2>6, <2>8, UpdatedCopy
<1> QED BY <1>1, Invariance, PTL DEF Spec, LastHoldsPrevious

----------------------------------------------------------------------------
\* What a rollback and a reset store.

\* The pairs that a rollback stages for a key say its value before the commit.
LEMMA RollbackPairsContents ==
    ASSUME NEW commit, IsCommit(commit), NEW pairs \in RollbackPairs(commit),
           NEW k \in RestoredKeys(commit)
    PROVE  Touches(pairs, k) /\ LastWrite(pairs, k) = commit.deltas[k].old
<1> DEFINE S == RestoredKeys(commit)
<1>1. S \subseteq Keys(commit) /\ Keys(commit) \subseteq Key
  BY DEF RestoredKeys, IsCommit
<1>2. PICK keys \in SetToSeqs(S) :
          pairs = [j \in DOMAIN keys |-> [key   |-> keys[j],
                                          value |-> commit.deltas[keys[j]].old]]
  BY DEF RollbackPairs
<1>3. pairs \in Seq(Pair) BY RollbackPairsType
<1>4. k \in S OBVIOUS
<1> HIDE DEF S
<1>5. IsFiniteSet(S) BY <1>1, KeyFacts
<1>6. PICK j \in DOMAIN keys : keys[j] = k BY <1>4, <1>5, Enumeration
<1>7. Touches(pairs, k)
  <2>1. j \in DOMAIN pairs /\ pairs[j].key = k BY <1>2, <1>6
  <2> QED BY <2>1 DEF Touches
<1>8. PICK i \in DOMAIN pairs : /\ IsLastWrite(pairs, k, i)
                                /\ LastWrite(pairs, k) = pairs[i].value
  BY <1>3, <1>7, LastWriteExists
<1>9. pairs[i].key = k BY <1>8 DEF IsLastWrite
<1>10. i \in DOMAIN keys BY <1>2, <1>8
<1>11. keys[i] = k /\ pairs[i].value = commit.deltas[keys[i]].old BY <1>2, <1>9, <1>10
<1> QED BY <1>7, <1>8, <1>11

\* Whatever was left in the bucket of RollbackId, a rollback that is carried
\* out puts the old value of each key back.
THEOREM RollbacksRestore == Spec => RollbackRestores
<1> DEFINE Restores(i) == /\ RollbackRequest(i)
                          /\ ~IsBucketLocked(inFlight, RollbackId)
                          /\ RestoredKeys(history[i]) = Keys(history[i])
                          => \A k \in Keys(history[i]) :
                                values'[k] = history[i].deltas[k].old
<1>1. ASSUME IInv, NEW i \in DOMAIN history PROVE Restores(i)
  <2> SUFFICES ASSUME RollbackRequest(i), ~IsBucketLocked(inFlight, RollbackId),
                      RestoredKeys(history[i]) = Keys(history[i]),
                      NEW k \in Keys(history[i])
               PROVE  values'[k] = history[i].deltas[k].old
    OBVIOUS
  <2>1. /\ TypeOK /\ HistoryIsAChain /\ MapInv /\ NoLastLogged
        /\ IsGoodMap(inFlight)
    BY <1>1 DEF IInv, MapInv, TypeOK, AgeOrderMatchesBuckets, IsGoodMap
  <2>2. IsCommit(history[i]) /\ k \in Key /\ ~IsLast(k)
    BY <2>1 DEF TypeOK, IsCommit, NoLastLogged
  <2>3. PICK pairs \in RollbackPairs(history[i]) : RollbackWith(i, pairs)
    BY DEF RollbackRequest
  <2> DEFINE m == Insert(inFlight, RollbackId, pairs)
             list == GetBucket(m, RollbackId)
  <2>4. pairs \in Seq(Pair) BY <2>2, RollbackPairsType
  <2>5. Touches(pairs, k) /\ LastWrite(pairs, k) = history[i].deltas[k].old
    BY <2>2, RollbackPairsContents
  <2>6. pairs # <<>> BY <2>5, EmptySeq DEF Touches
  <2>7. RollbackId \in Id BY DEF Id
  <2>8. /\ Exists(m, RollbackId) /\ ~IsBucketLocked(m, RollbackId)
        /\ list = GetBucket(inFlight, RollbackId) \o pairs
    BY <2>1, <2>4, <2>6, <2>7, InsertedBucket
  <2>9. IsStagingOf(m) BY <2>1, <2>4, <2>7, InsertGood DEF IsStagingOf
  <2>10. CommitBucket(m, RollbackId, "DEFAULT") BY <2>3 DEF RollbackWith
  <2> HIDE DEF m
  <2>11. list \in Seq(Pair) /\ \E lasts \in LastItems(list) : Commits(list, lasts)
    BY <2>1, <2>7, <2>8, <2>9, <2>10, BucketCommit
  <2>12. GetBucket(inFlight, RollbackId) \in Seq(Pair) BY <2>1, GetBucketType
  <2> HIDE DEF list
  <2>13. Touches(list, k) /\ LastWrite(list, k) = history[i].deltas[k].old
    BY <2>4, <2>5, <2>8, <2>12, TouchedByTail
  <2>14. PICK lasts \in LastItems(list) : Commits(list, lasts) BY <2>11
  <2>15. values' = UpdateItems(values, list \o lasts) BY <2>14 DEF Commits
  <2> QED BY <2>1, <2>2, <2>11, <2>13, <2>14, <2>15, UpdatedValue
<1> HIDE DEF Restores
<1>2. IInv /\ [Next]_vars => [\A i \in DOMAIN history : Restores(i)]_vars BY <1>1
<1> USE DEF Restores
<1> QED BY <1>2, Invariance, PTL DEF Spec, RollbackRestores

\* A "default." key is the prefix and the key it is the default of.
LEMMA DefaultKeyShape ==
    ASSUME NEW d \in Key, IsDefault(d)
    PROVE  d = <<"default">> \o Tail(d)
<1> DEFINE S == STRING \cup {"default"}
           p == <<"default", "*">>
<1>1. d \in Seq(S) /\ d # <<>> /\ ~IsWildcard(d) BY KeyAssumption, SeqMonotonic
<1>2. Len(d) \in Nat /\ Len(d) >= 1 /\ DOMAIN d = 1..Len(d)
  BY <1>1, LenProperties, EmptySeq
<1>3. p[1] = "default" /\ DOMAIN p = 1..2 OBVIOUS
<1>4. SubkeyMatches(d, p) BY DEF IsDefault
<1> HIDE DEF p
<1>5. 1 \in DOMAIN d \cap DOMAIN p BY <1>2, <1>3
<1>6. d[1] = "default" BY <1>1, <1>3, <1>4, <1>5 DEF SubkeyMatches, IsWildcard
<1>7. Tail(d) \in Seq(S) /\ Len(Tail(d)) = Len(d) - 1
      /\ \A i \in 1..Len(d) - 1 : Tail(d)[i] = d[i + 1]
  BY <1>1, <1>2
<1>8. <<"default">> \in Seq(S) /\ Len(<<"default">>) = 1 /\ <<"default">>[1] = "default"
  OBVIOUS
<1> DEFINE one == <<"default">>
           both == one \o Tail(d)
<1>9. /\ both \in Seq(S) /\ Len(both) = Len(d)
      /\ \A i \in 1..Len(both) : both[i] = IF i <= 1 THEN one[i] ELSE Tail(d)[i - 1]
  <2> HIDE DEF one
  <2> QED BY <1>2, <1>7, <1>8, ConcatProperties DEF one
<1>10. ASSUME NEW i \in 1..Len(d) PROVE d[i] = both[i]
  <2>1. CASE i = 1 BY <1>2, <1>6, <1>8, <1>9, <2>1
  <2>2. CASE i # 1
    <3>1. i - 1 \in 1..Len(d) - 1 /\ ~(i <= 1) /\ i - 1 + 1 = i BY <1>2, <2>2
    <3> HIDE DEF both
    <3> QED BY <1>7, <1>9, <3>1
  <2> QED BY <2>1, <2>2
<1> HIDE DEF both
<1>11. d = both BY <1>1, <1>9, <1>10, SeqEqual
<1> QED BY <1>11 DEF both

\* Every key is below the wildcard that a reset erases.
LEMMA StarMatches ==
    ASSUME NEW k \in Key
    PROVE  SubkeyMatches(k, <<"*">>) /\ IsWildcard(<<"*">>)
<1> DEFINE p == <<"*">>
<1>1. p[1] = "*" /\ DOMAIN p = {1} /\ Len(p) = 1 OBVIOUS
<1>2. k \in Seq(STRING) /\ k # <<>> BY KeyAssumption
<1>3. Len(k) \in Nat /\ Len(k) # 0 BY <1>2, LenProperties, EmptySeq
<1> HIDE DEF p
<1>4. SubkeyMatches(k, p) BY <1>1, <1>3 DEF SubkeyMatches
<1>5. IsWildcard(p) BY <1>1 DEF IsWildcard
<1> QED BY <1>4, <1>5 DEF p

\* What a reset stages for a key outside the reserved namespaces: its default
\* if there is one, and an erasure if it is stored.
LEMMA ResetPairsContents ==
    ASSUME TypeOK, NEW pairs \in ResetPairs, NEW k \in Key, ~IsReserved(k)
    PROVE  IF <<"default">> \o k \in StoredDefaults
           THEN Touches(pairs, k) /\ LastWrite(pairs, k) = values[<<"default">> \o k]
           ELSE IF Touches(pairs, k) THEN LastWrite(pairs, k) = Empty ELSE values[k] = Empty
<1>1. PICK erased \in ErasePairs(<<"*">>), defaults \in DefaultPairs :
          pairs = erased \o defaults
  BY DEF ResetPairs
<1>2. erased \in Seq(Pair) BY ErasePairsType
<1>3. PICK order \in SetToSeqs(StoredDefaults) : defaults = StagedDefaults(order)
  BY DEF DefaultPairs
<1>4. defaults \in Seq(Pair) BY <1>3, DefaultOrder, StagedDefaultsType
<1>5. /\ StoredDefaults \subseteq Key /\ IsFiniteSet(StoredDefaults)
      /\ \A d \in StoredDefaults : IsDefault(d)
  BY KeyFacts DEF StoredDefaults, Stored
<1>6. /\ DOMAIN order = 1..Len(order) /\ order \in Seq(StoredDefaults)
      /\ \A x \in StoredDefaults : \E i \in DOMAIN order : order[i] = x
  BY <1>5, Enumeration
<1>7. /\ DOMAIN defaults = DOMAIN order
      /\ \A i \in DOMAIN order : /\ defaults[i].key = Tail(order[i])
                                 /\ defaults[i].value = values[order[i]]
  BY <1>3 DEF StagedDefaults
<1>8. ASSUME NEW i \in DOMAIN defaults, defaults[i].key = k
      PROVE  /\ <<"default">> \o k \in StoredDefaults
             /\ defaults[i].value = values[<<"default">> \o k]
  <2>1. order[i] \in StoredDefaults /\ Tail(order[i]) = k BY <1>6, <1>7, <1>8
  <2>2. order[i] = <<"default">> \o k BY <1>5, <2>1, DefaultKeyShape
  <2> QED BY <1>7, <2>1, <2>2
<1>9. CASE <<"default">> \o k \in StoredDefaults
  <2> DEFINE d == <<"default">> \o k
  <2>1. PICK j \in DOMAIN order : order[j] = d BY <1>6, <1>9
  <2>2. Tail(d) = k
    <3>1. k \in Seq(STRING) BY KeyAssumption
    <3> QED BY <3>1
  <2> HIDE DEF d
  <2>3. defaults[j].key = k /\ j \in DOMAIN defaults BY <1>7, <2>1, <2>2
  <2>4. Touches(defaults, k) BY <2>3 DEF Touches
  <2>5. PICK i \in DOMAIN defaults : /\ IsLastWrite(defaults, k, i)
                                     /\ LastWrite(defaults, k) = defaults[i].value
    BY <1>4, <2>4, LastWriteExists
  <2>6. LastWrite(defaults, k) = values[d] BY <1>8, <2>5 DEF IsLastWrite, d
  <2>7. Touches(pairs, k) /\ LastWrite(pairs, k) = LastWrite(defaults, k)
    BY <1>1, <1>2, <1>4, <2>4, TouchedByTail
  <2> QED BY <1>9, <2>6, <2>7 DEF d
<1>10. CASE <<"default">> \o k \notin StoredDefaults
  <2>1. ~Touches(defaults, k) BY <1>8, <1>10 DEF Touches
  <2>2. /\ Touches(pairs, k) <=> Touches(erased, k)
        /\ Touches(erased, k) => LastWrite(pairs, k) = LastWrite(erased, k)
    BY <1>1, <1>2, <1>4, <2>1, UntouchedByTail
  <2> DEFINE E == ErasedKeys(Stored, <<"*">>)
  <2>3. PICK keys \in SetToSeqs(E) :
            erased = [i \in DOMAIN keys |-> [key |-> keys[i], value |-> Empty]]
    BY DEF ErasePairs
  <2>4. E \subseteq Key /\ (values[k] # Empty => k \in E)
    BY StarMatches DEF ErasedKeys, Stored
  <2> HIDE DEF E
  <2>5. IsFiniteSet(E) BY <2>4, KeyFacts
  <2>6. ASSUME Touches(erased, k) PROVE LastWrite(erased, k) = Empty
    <3>1. PICK i \in DOMAIN erased : LastWrite(erased, k) = erased[i].value
      BY <1>2, <2>6, LastWriteExists
    <3> QED BY <2>3, <3>1
  <2>7. ASSUME values[k] # Empty PROVE Touches(erased, k)
    <3>1. PICK i \in DOMAIN keys : keys[i] = k BY <2>4, <2>5, <2>7, Enumeration
    <3>2. i \in DOMAIN erased /\ erased[i].key = k BY <2>3, <3>1
    <3> QED BY <3>2 DEF Touches
  <2> QED BY <1>10, <2>2, <2>6, <2>7
<1> QED BY <1>9, <1>10

\* A reset that finds nothing in flight and no default that Set refuses leaves
\* the defaults and nothing else outside the reserved namespaces.
THEOREM ResetsLeaveDefaults == Spec => ResetLeavesDefaults
<1> DEFINE Leaves(c) ==
               ResetRequest(c) /\ DefaultsFit(c) /\ ~Exists(inFlight, c) =>
                   \A k \in Key :
                       ~IsReserved(k) =>
                           values'[k] = IF <<"default">> \o k \in StoredDefaults
                                        THEN values[<<"default">> \o k]
                                        ELSE Empty
<1>1. ASSUME IInv, NEW c \in Client PROVE Leaves(c)
  <2> SUFFICES ASSUME ResetRequest(c), DefaultsFit(c), ~Exists(inFlight, c),
                      NEW k \in Key, ~IsReserved(k)
               PROVE  values'[k] = IF <<"default">> \o k \in StoredDefaults
                                   THEN values[<<"default">> \o k]
                                   ELSE Empty
    OBVIOUS
  <2>1. TypeOK /\ HistoryIsAChain /\ MapInv /\ IsGoodMap(inFlight) /\ c \in Id
    BY <1>1 DEF IInv, MapInv, TypeOK, AgeOrderMatchesBuckets, IsGoodMap, Id
  <2>2. ~ResetRefused(c)
    <3>1. ASSUME ResetRefused(c) PROVE FALSE
      <4>1. PICK keys \in SetToSeqs(StoredDefaults), erased \in ErasePairs(<<"*">>) :
                \E n \in DOMAIN keys : DefaultStatus(c, keys[n]) # "SUCCESS"
        BY <3>1 DEF ResetRefused
      <4>2. PICK n \in DOMAIN keys : DefaultStatus(c, keys[n]) # "SUCCESS" BY <4>1
      <4>3. keys \in Seq(StoredDefaults) BY DefaultOrder
      <4>4. keys[n] \in StoredDefaults BY <4>2, <4>3, LenProperties, ElementOfSeq
      <4> QED BY <4>2, <4>4 DEF DefaultsFit
    <3> QED BY <3>1
  <2>3. PICK pairs \in ResetPairs : ResetWith(c, pairs) BY <2>2 DEF ResetRequest
  <2>4. pairs \in Seq(Pair) BY <2>1, ResetPairsType
  <2>5. IF <<"default">> \o k \in StoredDefaults
        THEN Touches(pairs, k) /\ LastWrite(pairs, k) = values[<<"default">> \o k]
        ELSE IF Touches(pairs, k) THEN LastWrite(pairs, k) = Empty ELSE values[k] = Empty
    BY <2>1, ResetPairsContents
  <2> DEFINE m == Insert(inFlight, c, pairs)
             list == GetBucket(m, c)
  <2>6. CommitBucket(m, c, "DEFAULT") BY <2>3 DEF ResetWith
  <2>7. CASE pairs = <<>>
    <3>1. ~Touches(pairs, k) BY <2>7 DEF Touches
    <3>2. m = inFlight BY <2>7 DEF Insert
    <3>3. values' = values BY <2>6, <3>2 DEF CommitBucket
    <3> QED BY <2>5, <3>1, <3>3
  <2>8. CASE pairs # <<>>
    <3>1. /\ Exists(m, c) /\ ~IsBucketLocked(m, c)
          /\ list = GetBucket(inFlight, c) \o pairs
      BY <2>1, <2>4, <2>8, InsertedBucket DEF IsBucketLocked
    <3>2. list = pairs BY <2>4, <3>1, ConcatEmptySeq DEF GetBucket
    <3>3. IsStagingOf(m) BY <2>1, <2>4, InsertGood DEF IsStagingOf
    <3> HIDE DEF m
    <3>4. \E lasts \in LastItems(list) : Commits(list, lasts)
      BY <2>1, <2>6, <3>1, <3>3, BucketCommit
    <3> HIDE DEF list
    <3>5. PICK lasts \in LastItems(pairs) : Commits(pairs, lasts) BY <3>2, <3>4
    <3>6. values' = UpdateItems(values, pairs \o lasts) BY <3>5 DEF Commits
    <3>7. ~IsLast(k) BY DEF IsReserved
    <3>8. values'[k] = IF Touches(pairs, k) THEN LastWrite(pairs, k) ELSE values[k]
      BY <2>1, <2>4, <3>5, <3>6, <3>7, UpdatedValue
    <3> QED BY <2>5, <3>8
  <2> QED BY <2>7, <2>8
<1> HIDE DEF Leaves
<1>2. IInv /\ [Next]_vars => [\A c \in Client : Leaves(c)]_vars BY <1>1
<1> USE DEF Leaves
<1> QED BY <1>2, Invariance, PTL DEF Spec, ResetLeavesDefaults

============================================================================
