---------------------------- MODULE Configurator ----------------------------
(***************************************************************************)
(* The core of sysadmin: src/src/Configurator.cpp with the request handlers *)
(* of src/src/SysAdminController.cpp in front of it, over the in-memory    *)
(* store of src/src/MemoryCache.cpp and the commit history.                *)
(*                                                                         *)
(* sysadmin runs on one event loop, so a handler is one step.  The only    *)
(* thing that is spread over several steps is a commit whose hooks run in  *)
(* external processes: the handler stores the values, locks the bucket and *)
(* returns a future; the continuation of the future drops the bucket when  *)
(* the hooks are done, or does nothing when their promise was broken.  A   *)
(* commit whose hooks finish at once is a commit followed by HooksSucceed  *)
(* or HooksFail with no step in between.                                   *)
(*                                                                         *)
(* A request that is refused (INVALID_KEY, TYPE_MISMATCH, LOCKED_QUEUE,    *)
(* FAILED_ROLLBACK) or finds nothing to do leaves the state as it is and   *)
(* is a stuttering step.                                                   *)
(***************************************************************************)
EXTENDS LockedConfigPairMap, TransactionManager, SequencesExt

CONSTANTS
    Client,      \* the ids under which clients stage: connections and xids
    RollbackId,  \* TransactionManager::TRANSACTION_HISTORY_ID
    Target,      \* the keys and wildcards that clients erase
    Config,      \* the hook options that clients commit with
    MaxItems,    \* bound: requests add to a bucket of fewer pairs than this
    MaxCommitId  \* bound: commits are logged while ids are below this

ASSUME BoundAssumption == MaxItems \in Nat /\ MaxCommitId \in Nat

ASSUME TargetAssumption ==
    \A p \in Target : IF IsWildcard(p) THEN p \in Seq(STRING) ELSE p \in Key

Id == Client \cup {RollbackId}

CommitConfig == {"DEFAULT", "TEMPLATE_ONLY", "NO_HOOKS"}

ASSUME ConfigAssumption == Config \subseteq CommitConfig

VARIABLES
    inFlight,  \* Configurator::mInFlightItems
    values,    \* MemoryCache::mValues; Empty for a key that it does not hold
    history,   \* AllCommitHistories::mCommits
    maxId,     \* AllCommitHistories::mMaxCommitId
    running    \* the commits whose continuation has not dropped the bucket

vars == <<inFlight, values, history, maxId, running>>

\* A commit that waits for its hooks, or that did until their promise was
\* broken.  Only a commit that changed something runs hooks, and it has an id
\* of its own then.  What the hooks are given, the changed keys and whether
\* services run, is left to HookManager.
HookRun == [client : Id, id : Nat, broken : BOOLEAN]

IsInFlightMap(m) == IsMap(m, Id, Bucket)

TypeOK ==
    /\ IsInFlightMap(inFlight)
    /\ values \in [Key -> MaybeValue]
    /\ history \in Seq(Range(history))
    /\ \A i \in DOMAIN history : IsCommit(history[i])
    /\ maxId \in Nat
    /\ running \in SUBSET HookRun

Init ==
    /\ inFlight = EmptyMap
    /\ values = [k \in Key |-> Empty]
    /\ history = <<>>
    /\ maxId = 0
    /\ running = {}

----------------------------------------------------------------------------
\* What the handlers compute.

Stored == {k \in Key : values[k] # Empty}

\* Configurator::Set up to the point where it stages the pair.
SetStatus(inF, c, k, v) ==
    IF values[k] # Empty /\ ~TypeCheckValues(values[k], v) THEN "TYPE_MISMATCH"
    ELSE IF IsBucketLocked(inF, c) THEN "LOCKED_QUEUE"
    ELSE IF values[k] = Empty THEN "SUCCESS_NEW_KEY"
    ELSE "SUCCESS"

IsStaged(status) == status \in {"SUCCESS", "SUCCESS_NEW_KEY"}

\* Mutant of ChangedKeys: the staged value is compared with the "last." copy.
ChangedSinceLast(list) ==
    {k \in Key : /\ Touches(list, k)
                 /\ ~IsReserved(k)
                 /\ ~SameValue(values[LastKey(k)], LastWrite(list, k))}

\* Mutant of ChangedKeys: a key that is not stored yet counts as unchanged.
ChangedStoredKeys(list) ==
    {k \in Stored : /\ Touches(list, k)
                    /\ ~IsLast(k)
                    /\ ~SameValue(values[k], LastWrite(list, k))}

\* The keys of PruneUnchangedValues: the merged pairs that are not "last."
\* keys and that differ from the stored value.
ChangedKeys(list) ==
    {k \in Key : /\ Touches(list, k)
                 /\ ~IsLast(k)
                 /\ \/ values[k] = Empty
                    \/ ~SameValue(values[k], LastWrite(list, k))}

Changed(list) == [k \in ChangedKeys(list) |-> LastWrite(list, k)]

\* Mutant of LastItems: the copies are taken after the commit.
LastItemsTooLate(list) ==
    {[j \in DOMAIN order |-> [key   |-> LastKey(list[order[j]].key),
                              value |-> list[order[j]].value]] :
        order \in InOrder({i \in DOMAIN list : ~IsReserved(list[i].key)})}

\* SaveLastItems: one pair for every staged pair outside the reserved
\* namespaces, with the value stored before the commit.
LastItems(list) ==
    {[j \in DOMAIN order |-> [key   |-> LastKey(list[order[j]].key),
                              value |-> values[list[order[j]].key]]] :
        order \in InOrder({i \in DOMAIN list : ~IsReserved(list[i].key)})}

\* Mutant of UpdateItems: emplace without erase, so that the first pair wins.
UpdateItemsFirstWins(old, list) ==
    [k \in Key |-> IF Touches(list, k) THEN LastWrite(Reverse(list), k) ELSE old[k]]

\* MemoryCache::UpdateItems
UpdateItems(old, list) ==
    [k \in Key |-> IF Touches(list, k) THEN LastWrite(list, k) ELSE old[k]]

\* Configurator::Commit of the bucket c of inF, the in-flight items after the
\* staging that Rollback and Reset do first.
CommitBucket(inF, c, config) ==
    IF Exists(inF, c) /\ ~IsBucketLocked(inF, c)
    THEN LET list   == GetBucket(inF, c)
             logs   == ChangedKeys(list) # {}
             commit == NewCommit(history, maxId, Changed(list), values)
         IN  /\ logs => maxId < MaxCommitId
             /\ \E lasts \in LastItems(list) :
                   /\ values' = UpdateItems(values, list \o lasts)
                   /\ inFlight' = IF logs /\ config # "NO_HOOKS"
                                  THEN Insert(LockBucket(inF, c), c, lasts)
                                  ELSE Drop(inF, c)
             /\ history' = IF logs THEN LogCommit(history, commit) ELSE history
             /\ maxId' = IF logs THEN RaiseMaxId(maxId, commit) ELSE maxId
             /\ running' = IF logs /\ config # "NO_HOOKS"
                           THEN running \cup
                                {[client |-> c, id |-> commit.id, broken |-> FALSE]}
                           ELSE running
    ELSE /\ inFlight' = inF
         /\ UNCHANGED <<values, history, maxId, running>>

----------------------------------------------------------------------------
\* The requests.

HasRoom(c) == Len(GetBucket(inFlight, c)) < MaxItems

SetRequest(c, k, v) ==
    /\ HasRoom(c)
    /\ ~IsLast(k)
    /\ IsStaged(SetStatus(inFlight, c, k, v))
    /\ inFlight' = Insert(inFlight, c, <<[key |-> k, value |-> v]>>)
    /\ UNCHANGED <<values, history, maxId, running>>

\* The pairs that Erase stages; the order of the stored keys is arbitrary.
ErasePairs(p) ==
    {[i \in DOMAIN keys |-> [key |-> keys[i], value |-> Empty]] :
        keys \in SetToSeqs(ErasedKeys(Stored, p))}

EraseRequest(c, p) ==
    /\ HasRoom(c)
    /\ \E pairs \in ErasePairs(p) : inFlight' = Insert(inFlight, c, pairs)
    /\ UNCHANGED <<values, history, maxId, running>>

DropRequest(c) ==
    /\ Exists(inFlight, c)
    /\ inFlight' = Drop(inFlight, c)
    /\ UNCHANGED <<values, history, maxId, running>>

CommitRequest(c, config) ==
    /\ Exists(inFlight, c) /\ ~IsBucketLocked(inFlight, c)
    /\ CommitBucket(inFlight, c, config)

\* TransactionManager::Rollback stages the old values under RollbackId.  It
\* ignores the status of Set, so a pair that Set refuses is left out.
RestoredKeys(commit) ==
    {k \in Keys(commit) :
        LET old == commit.deltas[k].old
        IN  old = Empty \/ IsStaged(SetStatus(inFlight, RollbackId, k, old))}

RollbackPairs(commit) ==
    {[j \in DOMAIN keys |-> [key   |-> keys[j],
                             value |-> commit.deltas[keys[j]].old]] :
        keys \in SetToSeqs(RestoredKeys(commit))}

RollbackWith(i, pairs) ==
    /\ HasRoom(RollbackId)
    /\ CanRollback(history, history[i])
    /\ CommitBucket(Insert(inFlight, RollbackId, pairs), RollbackId, "DEFAULT")

RollbackRequest(i) == \E pairs \in RollbackPairs(history[i]) : RollbackWith(i, pairs)

\* ResetHandler: erase everything, stage the defaults, commit.  A default that
\* Set does not answer with plain SUCCESS drops the bucket instead.
StoredDefaults == {k \in Stored : IsDefault(k)}

DefaultStatus(c, k) == SetStatus(inFlight, c, Tail(k), values[k])

DefaultsFit(c) == \A k \in StoredDefaults : DefaultStatus(c, k) = "SUCCESS"

StagedDefaults(keys) ==
    [j \in DOMAIN keys |-> [key |-> Tail(keys[j]), value |-> values[keys[j]]]]

DefaultPairs == {StagedDefaults(keys) : keys \in SetToSeqs(StoredDefaults)}

\* Mutant of ResetPairs: the defaults are staged before the erasures.
ResetPairsDefaultsFirst ==
    {defaults \o erased : erased \in ErasePairs(<<"*">>), defaults \in DefaultPairs}

ResetPairs ==
    {erased \o defaults : erased \in ErasePairs(<<"*">>), defaults \in DefaultPairs}

ResetWith(c, pairs) ==
    /\ HasRoom(c)
    /\ DefaultsFit(c)
    /\ CommitBucket(Insert(inFlight, c, pairs), c, "DEFAULT")

\* The loop stops at the n-th default, the first that is not a plain SUCCESS; a
\* new key is one, and is staged all the same.  Staging may evict a bucket.
ResetRefused(c) ==
    /\ HasRoom(c)
    /\ \E keys \in SetToSeqs(StoredDefaults), erased \in ErasePairs(<<"*">>) :
       \E n \in DOMAIN keys :
          LET staged == IF IsStaged(DefaultStatus(c, keys[n])) THEN n ELSE n - 1
              defaults == StagedDefaults(SubSeq(keys, 1, staged))
          IN  /\ DefaultStatus(c, keys[n]) # "SUCCESS"
              /\ \A i \in 1..n - 1 : DefaultStatus(c, keys[i]) = "SUCCESS"
              /\ inFlight' = Drop(Insert(inFlight, c, erased \o defaults), c)
    /\ UNCHANGED <<values, history, maxId, running>>

ResetRequest(c) == (\E pairs \in ResetPairs : ResetWith(c, pairs)) \/ ResetRefused(c)

\* The continuations of Commit.  Both drop whatever bucket the client has by
\* then; the second, for an ExternalRunnerError, answers
\* EXTERNAL_PROCESS_ERROR.
HooksDone(run) ==
    /\ ~run.broken
    /\ inFlight' = Drop(inFlight, run.client)
    /\ running' = running \ {run}
    /\ UNCHANGED <<values, history, maxId>>

HooksSucceed(run) == HooksDone(run)

\* Mutant of HooksFail: the bucket of a failed commit is kept.
HooksFailKeepingBucket(run) ==
    /\ ~run.broken
    /\ running' = running \ {run}
    /\ UNCHANGED <<inFlight, values, history, maxId>>

HooksFail(run) == HooksDone(run)

\* The hooks end in any other exception, which no continuation handles.  A
\* later run of the same hook, of a commit or of a FireHooks or TriggerHook
\* request, replaces the process that this commit waits for and so breaks its
\* promise.  The bucket stays as it is, locked, and the commit is over.
HooksBroken(run) ==
    /\ ~run.broken
    /\ running' = (running \ {run}) \cup {[run EXCEPT !.broken = TRUE]}
    /\ UNCHANGED <<inFlight, values, history, maxId>>

HooksEnd(run) == HooksSucceed(run) \/ HooksFail(run) \/ HooksBroken(run)

----------------------------------------------------------------------------

Request ==
    \/ \E c \in Client :
          \/ \E k \in Key, v \in Value : SetRequest(c, k, v)
          \/ \E p \in Target : EraseRequest(c, p)
          \/ DropRequest(c)
          \/ \E config \in Config : CommitRequest(c, config)
          \/ ResetRequest(c)
    \/ \E i \in DOMAIN history : RollbackRequest(i)

Next == Request \/ \E run \in running : HooksEnd(run)

Spec == Init /\ [][Next]_vars

\* The hooks of a commit end, in one of the three ways: the external processes
\* terminate or are replaced, and the event loop completes the future.
Fairness == \A n \in 1..MaxCommitId :
    WF_vars(\E run \in running : run.id = n /\ HooksEnd(run))

FairSpec == Spec /\ Fairness

----------------------------------------------------------------------------
\* Properties.

\* The insertion order of the bounded map lists exactly the buckets that
\* exist, each once, and there are never more than MaxSize of them: an
\* eviction (SizeAgeBoundMap::AgeOut) or a Drop never leaves a stale entry.
AgeOrderMatchesBuckets == IsCoherent(inFlight)

\* A locked bucket, which refuses every Set with LOCKED_QUEUE, belongs to a
\* client with a commit whose hooks still run or whose run was broken.  So no
\* sequence of commits, drops, evictions, resets, rollbacks and completions
\* leaves a lock behind, except that a run that ends in an exception other
\* than ExternalRunnerError leaves its own, until somebody drops the bucket.
LockedHasRun ==
    \A c \in DOMAIN inFlight.items :
        inFlight.items[c].locked => \E run \in running : run.client = c

\* The history is one chain: every commit but the oldest has its predecessor
\* in the list as parent, ids grow along it and stay at or below maxId, it
\* holds at most MaxStorage commits and none without a change.
HistoryIsAChain ==
    /\ Len(history) <= MaxStorage
    /\ \A i \in DOMAIN history :
          /\ history[i].parent < history[i].id
          /\ history[i].id <= maxId
          /\ Keys(history[i]) # {}
          /\ i > 1 => history[i].parent = history[i - 1].id

\* The youngest commit in the history that changed a key has the key's current
\* value as its new value (up to the equality of ConfigValue): between them,
\* PruneUnchangedValues, LogCommit and MemoryCache::UpdateItems never let the
\* history and the store drift apart.
IsYoungestChange(i, k) ==
    /\ k \in Keys(history[i])
    /\ \A j \in DOMAIN history : k \in Keys(history[j]) => j <= i

HistoryExplainsValues ==
    \A i \in DOMAIN history : \A k \in Key :
        IsYoungestChange(i, k) =>
            SameValue(history[i].deltas[k].new, values[k])

\* What Blame lists for a key is one continuous story: the old value of each
\* entry is the new value of the next older one.
BlameIsContinuous ==
    \A k \in Key :
        LET entries == Blame(history, k)
        IN  \A i \in 1..Len(entries) - 1 :
                SameValue(entries[i].deltas[k].old, entries[i + 1].deltas[k].new)

\* CanRollback accepts a commit only when every value that the commit wrote is
\* still the current one, so that a rollback never undoes a later change.
RollbackUndoesNoLaterChange ==
    \A i \in DOMAIN history :
        CanRollback(history, history[i]) =>
            \A k \in Keys(history[i]) :
                SameValue(values[k], history[i].deltas[k].new)

\* A key outside "last." changes its value only in a step that logs a new
\* commit with the old and the new value of that key, with one exception: the
\* erasure of an int32 value 0 is not logged, because ConfigValue holds the two
\* for equal and PruneUnchangedValues leaves the pair out.
IsLogged(k) ==
    /\ maxId' = maxId + 1
    /\ history'[Len(history')].id = maxId'
    /\ k \in Keys(history'[Len(history')])
    /\ history'[Len(history')].deltas[k] = [old |-> values[k], new |-> values'[k]]

IsErasedZero(k) == values[k] = Zero /\ values'[k] = Empty

ChangesAreLogged ==
    [][\A k \in Key :
          ~IsLast(k) /\ values[k] # values'[k] =>
              IsLogged(k) \/ IsErasedZero(k)]_vars

\* When a key changes, its "last." copy takes the value it had before, also
\* when the same commit writes the key several times or erases the copy.
LastHoldsPrevious ==
    [][\A k \in Key :
          ~IsReserved(k) /\ values[k] # values'[k] =>
              values'[LastKey(k)] = values[k]]_vars

\* A rollback whose bucket is not locked, and whose old values all pass the
\* type check, puts back the value before the commit for every key of it,
\* whatever else the bucket of RollbackId holds.
RollbackRestores ==
    [][\A i \in DOMAIN history :
          /\ RollbackRequest(i)
          /\ ~IsBucketLocked(inFlight, RollbackId)
          /\ RestoredKeys(history[i]) = Keys(history[i])
          => \A k \in Keys(history[i]) :
                values'[k] = history[i].deltas[k].old]_vars

\* A reset by a client that has nothing in flight, when every default names a
\* stored key of its type, leaves exactly the defaults: each key that has one
\* takes it and every other key is gone.
ResetLeavesDefaults ==
    [][\A c \in Client :
          ResetRequest(c) /\ DefaultsFit(c) /\ ~Exists(inFlight, c) =>
              \A k \in Key :
                  ~IsReserved(k) =>
                      values'[k] = IF <<"default">> \o k \in StoredDefaults
                                   THEN values[<<"default">> \o k]
                                   ELSE Empty]_vars

\* A client whose bucket is locked while the hooks of a commit of it run gets
\* the bucket released, unless the run of that very commit is broken: broken
\* runs of other clients, or of older commits of this one, do no harm.
Waits(c, n, broken) ==
    \E run \in running : run.client = c /\ run.id = n /\ run.broken = broken

LockIsReleased ==
    \A c \in Id, n \in 1..MaxCommitId :
        IsBucketLocked(inFlight, c) /\ Waits(c, n, FALSE) ~>
            ~IsBucketLocked(inFlight, c) \/ Waits(c, n, TRUE)

============================================================================
