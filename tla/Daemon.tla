------------------------------- MODULE Daemon -------------------------------
(***************************************************************************)
(* The running daemon as src/src/sysadmin.cpp wires it: the Configurator    *)
(* over MemoryCache, the YAML files under the cache, the commit files of   *)
(* src/src/LocalHistoryStorage.cpp, and the crashes and restarts that only *)
(* the files survive.                                                      *)
(*                                                                         *)
(* MemoryCache::Commit passes the pairs on to LocalYAMLStorage under the    *)
(* id of the client and drops its own bucket, which is therefore empty     *)
(* between steps.  LocalYAMLStorage::Commit drops nothing: yaml keeps all   *)
(* the pairs that an id has ever committed, and writes them all again.     *)
(***************************************************************************)
EXTENDS Configurator, LocalYAMLStorage

CONSTANT MaxRetained  \* bound: an id commits while yaml has fewer pairs of it

ASSUME MaxRetainedAssumption == MaxRetained \in Nat

VARIABLES
    yaml,     \* LocalYAMLStorage::mInFlightItems
    disk,     \* the YAML files
    files,    \* the readable commit files
    torn,     \* the ids of commit files that were cut off by a crash
    up,       \* the daemon runs
    drifted,  \* keys that a replay or a crash ever left different on disk
    latest    \* for an id and a key the value that the id committed last since
              \* the daemon started, also when yaml has aged out the bucket

storage == <<yaml, disk, files, torn, up, drifted, latest>>

allVars == <<vars, storage>>

NothingCommitted == [c \in Id |-> [k \in Key |-> Absent]]

DaemonInit ==
    /\ Init
    /\ yaml = EmptyMap
    /\ disk = [s \in Slots |-> Absent]
    /\ files = {}
    /\ torn = {}
    /\ up = TRUE
    /\ drifted = {}
    /\ latest = NothingCommitted

----------------------------------------------------------------------------

\* The pairs that Configurator::Commit hands to the store.
Batch(inF, c) ==
    GetBucket(inF, c) \o (CHOOSE lasts \in LastItems(GetBucket(inF, c)) : TRUE)

\* All the pairs that LocalYAMLStorage::Commit then writes.
Retained(inF, c) == Insert(yaml, c, Batch(inF, c))

CanRetain(c) == Len(GetBucket(yaml, c)) < MaxRetained

\* Mutant of FilesAfter: commits that leave the list keep their files.
FilesAfterWithoutDrop(newHistory) == files \cup Range(newHistory)

\* LocalHistoryStorage after StoreCommit and the DropCommit of what the list
\* no longer holds.
FilesAfter(newHistory) ==
    LET logged == Range(newHistory) \ Range(history)
    IN  (files \cup logged) \ (Range(history) \ Range(newHistory))

DifferOnDisk(vals, d) == {k \in Key : GetAll(d)[k] # vals[k]}

\* The effect of CommitBucket(inF, c, _) on the files.
Store(inF, c) ==
    IF Exists(inF, c) /\ ~IsBucketLocked(inF, c)
    THEN /\ CanRetain(c)
         /\ yaml' = Retained(inF, c)
         /\ disk' = GroupSet(disk, GetBucket(Retained(inF, c), c))
         /\ files' = FilesAfter(history')
         /\ drifted' = drifted \cup DifferOnDisk(values', disk')
         /\ latest' = [latest EXCEPT ![c] = UpdateItems(@, Batch(inF, c))]
         /\ UNCHANGED <<torn, up>>
    ELSE UNCHANGED storage

Staging ==
    /\ \E c \in Client :
          \/ \E k \in Key, v \in Value : SetRequest(c, k, v)
          \/ \E p \in Target : EraseRequest(c, p)
          \/ DropRequest(c)
          \/ ResetRefused(c)
    /\ UNCHANGED storage

Commit(c, config) == CommitRequest(c, config) /\ Store(inFlight, c)

Rollback(i) ==
    \E pairs \in RollbackPairs(history[i]) :
        /\ RollbackWith(i, pairs)
        /\ Store(Insert(inFlight, RollbackId, pairs), RollbackId)

Reset(c) ==
    \E pairs \in ResetPairs :
        /\ ResetWith(c, pairs)
        /\ Store(Insert(inFlight, c, pairs), c)

Completion ==
    /\ \E run \in running : HooksEnd(run)
    /\ UNCHANGED storage

----------------------------------------------------------------------------
\* Crashes.

\* The process is gone and with it everything that is not in a file.  maxId
\* stays as a record of the ids given out; Restart computes it anew.
Stop ==
    /\ up' = FALSE
    /\ inFlight' = EmptyMap
    /\ values' = [k \in Key |-> Empty]
    /\ history' = <<>>
    /\ running' = {}
    /\ yaml' = EmptyMap
    /\ latest' = NothingCommitted
    /\ UNCHANGED maxId

Crash ==
    /\ Stop
    /\ UNCHANGED <<disk, files, torn, drifted>>

\* A commit is cut short: in StoreCommit between the open with O_TRUNC and the
\* write, before DropCommit, or with n of the YAML files written and possibly
\* the next one truncated.
CrashInStoreCommit(commit) ==
    /\ torn' = torn \cup {commit.id}
    /\ UNCHANGED <<disk, files, drifted>>

\* Mutant of CrashBeforeDropCommit: the old commits go before the new one comes.
CrashBeforeStoreCommit(commit) ==
    /\ files' = files \ (Range(history) \ Range(LogCommit(history, commit)))
    /\ UNCHANGED <<disk, torn, drifted>>

CrashBeforeDropCommit(commit) ==
    /\ files' = files \cup {commit}
    /\ UNCHANGED <<disk, torn, drifted>>

\* Mutant of CrashInGroupSet: the values are written before the commit is.
CrashInEarlyGroupSet(newHistory, newValues, pairs, n) ==
    /\ disk' = Rewrite(disk, pairs, {FileOrder[i] : i \in 1..n})
    /\ UNCHANGED <<files, torn, drifted>>

CrashInGroupSet(newHistory, newValues, pairs, n) ==
    LET written == Rewrite(disk, pairs, {FileOrder[i] : i \in 1..n})
    IN  /\ files' = FilesAfter(newHistory)
        /\ \/ disk' = written
           \/ /\ n < Len(FileOrder)
              /\ IsTouched(pairs, FileOrder[n + 1])
              /\ disk' = Truncate(written, FileOrder[n + 1])
        /\ drifted' = drifted \cup
               (DifferOnDisk(values, disk') \cap DifferOnDisk(newValues, disk'))
        /\ UNCHANGED torn

\* The process dies in the CommitBucket(inF, c, _) of any request.
CrashInCommit(inF, c) ==
    LET list    == GetBucket(inF, c)
        logs    == ChangedKeys(list) # {}
        commit  == NewCommit(history, maxId, Changed(list), values)
        pairs   == GetBucket(Retained(inF, c), c)
    IN  /\ Exists(inF, c) /\ ~IsBucketLocked(inF, c)
        /\ CanRetain(c)
        /\ logs => maxId < MaxCommitId
        /\ Stop
        /\ \/ logs /\ CrashInStoreCommit(commit)
           \/ logs /\ CrashBeforeDropCommit(commit)
           \/ \E n \in 0..Len(FileOrder) :
                 CrashInGroupSet(IF logs THEN LogCommit(history, commit) ELSE history,
                                 UpdateItems(values, Batch(inF, c)), pairs, n)

CrashInRollback(i) ==
    /\ HasRoom(RollbackId)
    /\ CanRollback(history, history[i])
    /\ \E pairs \in RollbackPairs(history[i]) :
          CrashInCommit(Insert(inFlight, RollbackId, pairs), RollbackId)

CrashInReset(c) ==
    /\ HasRoom(c)
    /\ DefaultsFit(c)
    /\ \E pairs \in ResetPairs : CrashInCommit(Insert(inFlight, c, pairs), c)

\* main: the cache loads every YAML file and the TransactionManager every
\* commit file.  A torn commit file makes YAMLDeserializer throw, and the
\* daemon does not come up.
Restart ==
    /\ ~up
    /\ torn = {}
    /\ up' = TRUE
    /\ values' = GetAll(disk)
    /\ history' = DropExcessiveCommits(Sort(files))
    /\ files' = files \ (Range(Sort(files)) \ Range(history'))
    /\ maxId' = FindMaxCommitId(files)
    /\ UNCHANGED <<inFlight, running, yaml, disk, torn, drifted, latest>>

----------------------------------------------------------------------------

DaemonNext ==
    \/ /\ up
       /\ \/ Staging
          \/ \E c \in Client, config \in Config : Commit(c, config)
          \/ \E i \in DOMAIN history : Rollback(i)
          \/ \E c \in Client : Reset(c)
          \/ Completion
          \/ Crash
          \/ \E c \in Client : CrashInCommit(inFlight, c) \/ CrashInReset(c)
          \/ \E i \in DOMAIN history : CrashInRollback(i)
    \/ Restart

DaemonSpec == DaemonInit /\ [][DaemonNext]_allVars

----------------------------------------------------------------------------
\* Properties.

\* While the daemon runs, its history is the set of the commit files: crashes
\* around StoreCommit and DropCommit leave no orphan that Sort cannot reach
\* and no commit that only memory knows.
HistoryMatchesFiles == up => Range(history) = files

\* A commit id is never given out twice, also across crashes and restarts.
IdsAreNotReused == [][maxId' >= maxId]_allVars

\* A value on disk that is not the current one was put there by a replay: it is
\* the last value that some id committed for the key since the daemon started.
IsReplay(k, v) == \E c \in Id : latest[c][k] = v

DiskIsCurrentOrReplayed ==
    up => \A k \in Key :
              GetAll(disk)[k] = values[k] \/ IsReplay(k, GetAll(disk)[k])

\* The history is written ahead of the values: for a key that no replay and no
\* truncated file ever left with a value that is neither the one before nor the
\* one after the commit, the stored value is the new value of the youngest
\* commit that changed the key, or its old value when a crash came between the
\* two.
HistoryIsAheadOfValues ==
    up => \A i \in DOMAIN history : \A k \in Key \ drifted :
              IsYoungestChange(i, k) =>
                  \/ SameValue(history[i].deltas[k].new, values[k])
                  \/ SameValue(history[i].deltas[k].old, values[k])

\* The history that the daemon shows, or would show after a restart.
Shown == IF up THEN history ELSE DropExcessiveCommits(Sort(files))

durable == INSTANCE DurableHistory WITH
               log     <- Shown,
               running <- up,
               lost    <- torn # {}

\* The daemon keeps the promise of DurableHistory: wherever in StoreCommit,
\* DropCommit or the writing of the values a commit is cut short, the history
\* that Sort and DropExcessiveCommits bring up is the one before the commit or
\* the one after it, and only a commit file that was cut off keeps the daemon
\* from coming up.
HistorySurvives == durable!Spec

\* What the test of MemoryCache says, "Sets go straight through to the backing
\* store": the files hold what the cache holds.
DiskMatchesCache == up => GetAll(disk) = values

============================================================================
