# A formal model of sysadmin

sysadmin is a typed key/value configuration daemon. Clients stage changes over
TCP, commit them, and the daemon stores the values, logs the commit so that it
can be rolled back, and runs hooks (templates, then service scripts) for the
keys that changed. This directory holds TLA+ modules that model the daemon's
core, TLC configurations that check them, and TLAPS proofs for every value of
the constants.

## The system

| part | state | operations |
|---|---|---|
| `SysAdminController` | none | one handler per request: get, set, commit, drop, erase, rollback, reset, fire/dump/trigger hooks, blame, in-flight |
| `Configurator` | the in-flight buckets, a `TransactionManager` | `Set`, `Erase`, `Drop`, `Commit`, `Rollback`, reads |
| `LockedConfigPairMap` over `SizeAgeBoundMap` | per client a list of staged pairs and a lock; at most 100 buckets, the oldest goes first | `Insert`, `Erase`, `Drop`, `LockBucket`, `GetBucket` |
| `TransactionManager` | the list of the last 100 commits, the largest id | `LogCommit`, `Rollback`, `CanRollback`, `Blame`, loading at startup |
| `MemoryCache` | all values | `Set`, `Commit`, `Get`, `GetAll`, `TypeCheck` |
| `LocalYAMLStorage` | one YAML file per parent key; buckets of its own | `GroupSet`, `Commit`, `GetAll` |
| `LocalHistoryStorage` | one file per commit | `StoreCommit`, `LoadAllCommits`, `DropCommit` |
| hooks: `HookManager`, `HookTable`, `HookUser`, `HookConfig` | which hook is registered for which key, by run level | `HandleCommit`, `RunHooks`, `TriggerHook` |
| hook processes: `ExternalRunner`, `FutureSubprocess`, `SubprocessHandler` | a child process, its pipes, a promise | `Run`, exit and end-of-file callbacks |
| messages: `decibel` framing, protobuf dispatch, TCP | bytes not yet parsed, connections | parse a frame, dispatch a oneof, answer |
| event loop: `decibel` `EventLoop`, timers, `LoopingTask`, `DnsResolver` | pending callbacks | run one callback at a time |
| Python client, with migrations | a connection, the id of the last request | one blocking request at a time |
| Rust client (`lib.rs`) | a stream, a timeout, an xid and an id | `connect`, `set_timeout`, `send`, and a `send_command` for each of twelve commands |
| generated messages (`sysadminctl.rs`) | 26 message types | accessors, `is_initialized`, `merge_from`, `compute_size`, `write_to_with_cached_sizes` |

How they interact: `sysadmin.cpp` wires the controller to the Configurator,
the Configurator to a `MemoryCache` that sits on a `LocalYAMLStorage`, and to a
`TransactionManager` on a `LocalHistoryStorage`. Everything runs on one libuv
loop, so a handler is atomic. The exception is a commit with hooks: it stores
its values, locks the client's bucket and returns a future; a continuation
drops the bucket when the child processes are done, any number of other
requests later.

What is hard here: requests that arrive while hooks run; several clients and
the rollback id sharing one bounded map; a list of pairs that is merged at
three places by the order of its elements; a history that is cut at one end
while rollbacks walk it; the order of the file writes when the process is
killed; and clients that keep a connection on which a call has timed out, with
half a frame or a late answer in it. `PROJECT.json` lists these as hazards, each at its line.

What makes each part correct:

* buckets: the map and its age order agree, and a bucket stays locked no longer
  than the hooks of its commit run, unless their promise is broken;
* history: one chain, which explains the stored values; a rollback undoes its
  commit and nothing later; every change is logged, but for the erasure of a 0;
* store: the `last.` copy of a key is its previous value; a reset leaves the
  defaults;
* files: what a restart loads is what was running, up to a commit in progress;
* hooks: templates come before services and low run levels before high ones, a
  run that succeeds has run every hook it was asked for, and every run is over
  at some time;
* hook processes: a call settles with the whole output and the exit status of
  its child;
* messages: every frame is handled once and in order, and an answer goes to the
  connection, and to the call, that it belongs to;
* Rust client: a command reaches its handler with the caller's arguments, the
  answer comes back whole, every call returns, and until one fails each returns
  its own answer.

## The modules

| module | models | remarks |
|---|---|---|
| `ConfigTypes` | `ConfigTypes.{h,cpp}` | a key is the sequence of its sub-keys; a value is an element of `Value` or `Empty`; `SameValue` is `operator==`, for which an empty value equals the int32 0 |
| `SizeAgeBoundMap` | `SizeAgeBoundMap.h` | a record of `mItems` and `mHistory`, operators for the methods |
| `LockedConfigPairMap` | `LockedConfigPairMap.cpp` | buckets in such a map; reading a list of pairs so that the last one wins |
| `TransactionManager` | `TransactionManager.cpp` | operators on a list of commits; the loops along parent ids are least sets closed under a step |
| `Configurator` | `Configurator.cpp`, the handlers of `SysAdminController.cpp`, `MemoryCache.cpp` | the state machine: one action per request that changes state, and `HooksSucceed`, `HooksFail` and `HooksBroken` for the end of the hooks |
| `LocalYAMLStorage` | `LocalYAMLStorage.cpp` | a disk is a function from (file, entry) to the entry |
| `Daemon` | `sysadmin.cpp`, the storages, crashes and restarts | composes `Configurator` and `LocalYAMLStorage`: each commit of the former is a `Store` in the same step, or a crash inside it |
| `DurableHistory` | what the commit files promise: a list of commits that changes by one commit at a time and survives the daemon | the abstract specification that `Daemon` implements |
| `Claims` | a comment's statement about rollbacks | refuted by a run |
| `HookManager` | `HookManager.cpp`, `HookTable.cpp`, `HookUser.cpp`, the runner's promise | a run is a pipeline of stages of hooks that run side by side; several runs share the runners. The place of a chunk in the pipeline is the number of chunks at or before it, by rank and then by position (`Place`) |
| `Subprocess` | `ExternalRunner.cpp`, `FutureSubprocess.cpp`, `SubprocessHandler.cpp` | one runner, its child and two pipes; callbacks in any order |
| `Framing` | `FramedBuffer.h`, `ProtobufProtocol.h` | bytes cut into reads anywhere; the loop of a read is a recursive function with a value for each pass |
| `Connections` | `TcpServer.cpp`, `ProtobufOneofProtocol.h`, `Protobuf.h`, the kinds of handlers, the blocking Python and Rust clients | several connections, whose protocol objects reuse addresses |
| `BlockingCalls` | what a client of one call at a time that compares no ids can promise | the abstract specification that `RustClient` implements |
| `RustClient` | `SysadminClient` of `lib.rs`: `connect`, the timeouts, `send` | a frame is a size and a body, which the network, a timeout or the end of the daemon may separate |
| `SysadminCtl` | `sysadminctl.rs` | a message type is the sequence of its fields, the generated methods are operators on it |
| `Bindings` | the commands and responses of `lib.rs` | `into_buf`, `set_payload` and the `From` conversions, panics included |
| `Handlers` | `ProtobufTranslator.cpp`, what the handlers of `SysAdminController.cpp` read and answer | |
| `RustCalls` | a call from `send_command` through bytes, dispatch and handler back to the response struct | composes `SysadminCtl`, `Bindings` and `Handlers` |
| `MCConfigurator`, `MCDaemon`, `MCHookManager`, `MCFraming`, `MCConnections`, `MCRustCalls` | constants for TLC | `Subprocess` and `RustClient` need none |
| `ConfiguratorLemmas`, `ConfiguratorProofs`, `DaemonProofs`, `HookManagerProofs`, `SubprocessProofs`, `FramingProofs`, `ConnectionsProofs`, `RustClientProofs` | proofs | each extends the module it is about; `ConfiguratorLemmas` is about the bounded map too, and `DaemonProofs` builds on `ConfiguratorProofs` |

State and code: `inFlight` is `mInFlightItems`, `values` is
`MemoryCache::mValues` (a key that is not in it maps to `Empty`), `history` and
`maxId` are `mCommits` and `mMaxCommitId`, `running` holds one record for each
commit whose continuation has not dropped the bucket: its future is not complete,
or it is complete with an exception that no continuation handles (`broken`). `MemoryCache`'s own
bucket is filled and dropped inside `MemoryCache::Commit`, so it is empty
between steps and has no variable. In `Daemon`, `yaml` is
`LocalYAMLStorage::mInFlightItems`, which is never emptied, `disk` the YAML
files, `files` and `torn` the readable and the cut-off commit files. Two more
variables only record what happened, for the properties. `drifted` holds the
keys that a replay or a truncated file ever left on disk with a value other than
the one in memory; when a commit is cut off, with a value that is neither the one
before nor the one after the commit. `latest` holds for each id and key the value
that the id committed last since the daemon started. `yaml` does not tell that:
it is a bounded map as well, and what it retained of an id is aged out by the
commits of others, after it was written over their values.

In `HookManager`, a record of `runs` is the chain of futures that one call of
`RunHooks` builds (`stages`), how far it has come (`pos`), and the futures that
`folly::collect` waits for (`waiting`); `subproc[h]` names the run for which
the `mSubproc` of hook `h`'s runner was started. A request starts a run; the
end of a process is `ProcessEnds`, which resumes the chain up to the next stage
that does not end at once. Which keys have a value (`stored`) is arbitrary at
every step, since any client may commit between two stages. In `Subprocess`,
`handler` is the `SubprocessHandler` (`mEofd`, `mProcessExited`, the exit
status, the buffers, whether reading is in effect and whether callbacks are
registered), `child` what the kernel knows of the process and its pipes, and
`calls` the futures that `Run` returned.

In `Framing`, `buffer` is the `mBuffer` of the receiving protocol and `wire`
what was written and not read; a read of `n` bytes is one `OnDataReceived`. In
`Connections`, a record of `conns` is a connection with its two streams of whole
messages; `alive` is the life of the protocol object and the flag `mValidThis`
that continuations share with it. `pending` holds the continuations of
`HandleMessage` that wait for hooks, `call` what each blocking client is doing.
`asked`, `lost` and `gaveUp` only record what happened, for the properties.
Handlers are told apart by how they answer: at once, when hooks end, or not at
all; what they do to the store is the subject of `Configurator`.

In `RustClient`, `phase` is the line of `send` that the calling thread has come
to. `up` and `back` are the two directions of the stream in units of a size or a
body; `arrived` of the units of `back` are in the client's socket, and
`buffered` of these in the `CodedInputStream`, which each call makes anew and
which is dropped with what it has read beyond the answer (`Abandon`,
`ReadBody`). A read that takes a body for a size waits for more bytes than will
come (`Swallow`, `GiveUp`). The daemon that is sent half a frame takes what follows
for the rest of it and goes on behind that, where a frame may begin (`Misread`);
what it parses of such bytes is taken to name no handler, so that it answers
nothing. `outcome`, `told` and `failed` only record what the caller has seen; they
are the variables of `BlockingCalls`. `Connections` has several clients and whole
answers, `RustClient` one client and cut ones.

In `RustCalls`, `wire` is the request or the answer as a sequence of items with
their sizes in bytes; strings are names with a length (`StrLen`), since the code
looks at nothing else of them. What the configurator and the hooks return to a
handler is any value of the handler's type (`Answers`); that they return the
right one is the subject of `Configurator` and `HookManager`. `SetHandler` answers
for the `RefusedKeys` itself, before it looks for a bucket (`Refuses`). A conversion that
panics has no result, and the call ends in phase `panicked`.

Abstractions: payloads are model values with a type; a request that is refused
is a stuttering step; a hook run is a future that completes once: successfully,
with `ExternalRunnerError`, or with another exception; the order in which an unordered container is
enumerated is arbitrary (`SetToSeqs`). A commit whose hooks complete at once
is the commit followed by the completion.

## What TLC checks

Every run also names a plausible bug for each property (`mutants`), an operator
next to the definition it replaces, under which TLC reports a violation.

| run | module, cfg | shows |
|---|---|---|
| `configurator_clients` | `MCConfigurator`, `Clients` | two clients and rollbacks over two buckets, so that the map is full and evicts: types, `AgeOrderMatchesBuckets`, `LockedHasRun`, and `LockIsReleased` under `FairSpec`, with a broken run as the one exception to the last two |
| `configurator_history` | `MCConfigurator`, `History` | a client that uses the rollback id, a key and its default of the right type, the wrong type or for an absent key, lists of two pairs for a key, a history of two out of three commits: `HistoryIsAChain`, `HistoryExplainsValues`, `BlameIsContinuous`, `RollbackUndoesNoLaterChange`, `ChangesAreLogged`, `LastHoldsPrevious`, `RollbackRestores`, `ResetLeavesDefaults` |
| `daemon_crash` | `MCDaemon`, `Crash` | a key and its copy in two files, two clients and rollbacks over a `yaml` of two buckets, so that what is retained of an id is written again and also aged out, and crashes at every point of a commit, rollback or reset: `HistoryMatchesFiles`, `IdsAreNotReused`, `HistoryIsAheadOfValues`, `DiskIsCurrentOrReplayed`, and the refinement `HistorySurvives` |
| `hooks_pipeline` | `MCHookManager`, `Hooks` | two overlapping runs of six hooks, three side by side: `OrderRespected`, `SuccessRanEverything`, `NoLostWait`, `OverIsOver`, and `RunsEnd` under `FairSpec` |
| `subprocess_outcome` | `Subprocess`, `Subprocess` | exit, output and end of file in every order, failed spawns and reads, a second call during the first: types, `PendingHasHandler`, `SettledTruthfully`, and `CallsSettle` under `FairSpec` |
| `framing` | `MCFraming`, `Framing` | reads cut at every place of three messages: `StreamIsConserved`, `AllDelivered` |
| `connections` | `MCConnections`, `Connections` | clients that wait, give up, close and connect again while hooks run, and a server that may close a connection at any time: types, `AnswersBelong`, `AcceptedIsOwn`, `InStep`, and `CallsReturn` under `FairSpec` |
| `rust_messages` | `MCRustCalls`, `RustMessages` | every command and every answer, with strings, numbers and lists around the sizes at which a length takes another byte, a key that `SetHandler` refuses and the empty one, on which it aborts: `PanicsOnlyOnErasedBlame`, `RequestArrives`, `AnswerSurvives` |
| `rust_client` | `RustClient`, `RustClient` | four calls with cut frames, late answers, read-ahead, timeouts, reconnections and the end of the daemon: `SocketHasTimeout`, `NothingLeftBehind`, the refinement `PromiseKept`, and `EveryCallReturns` |
| `claim_writes`, `claim_disk`, `claim_inflight` | | three statements of comments or tests that the code does not keep to; see `findings` |

Bounds, and why they are enough: `MaxItems` stops requests from adding to a
bucket that holds that many pairs (one is enough for one change per commit, two
are needed for a list that writes a key twice); `MaxCommitId` stops
commits at that id, one above `MaxStorage` where old commits must be dropped;
`MaxRetained` stops an id from committing when `yaml` holds that many of its
pairs, three leaving room for a second commit that replays the first; `MaxSize` is two buckets for
three ids, so that eviction happens. Values are two or three (one in `daemon_crash`,
where a key then has it or not, since there the theorems cover the rest; its two
clients are symmetric, which is sound as it checks no liveness and no action tells
them apart): two of one type,
one of them the 0 that equals `Empty` where that matters, and one of another
type where the type check matters. `MaxRuns` is two, since runs meet only in
pairs, at one runner; the hooks are four templates, a service whose result is
ignored and a detached one of a higher run level, with three side by side, so
that a rank is split, the split leaves empty stages and each run option occurs.
`MaxCalls` is two, a call and the one that replaces it; `MaxChunks` is two
reads of each pipe. `Framing` uses bytes of one bit and lengths of two bytes,
with an empty message, the longest and one too long; `MaxSent` is three, since
a read can then end in, at and behind the one in the middle. The length type of
the daemon has 32 bits and a read of libuv at most 64 KiB, so no length is
truncated on the way. `MaxConns` is two connections over two addresses, at the
same time or one after the other at the same address, and `MaxRequests` three.
In `RustClient`, `MaxCalls` is four: a call that fails, one that meets what it
left, one after the stream is out of step, and one after `connect`; the timeouts
are the default, another one, and the zero that a socket refuses. `MCRustCalls`
has strings of 0, 1, 3, 122, 128 and 16384 bytes, so that the lengths of strings
and of the messages around them fall on both sides of 127/128 and 16383/16384;
numbers are -1 (ten bytes), 0, 127, 128 and 16384, and lists have up to two
elements. A `u32` above 2^31 - 1 is beyond TLC's integers; it only has a fifth
byte more.
The bounds and a torn commit file (with which the daemon does not start) let a
behaviour stop, so deadlock is not checked.

Fairness, in `Configurator`: for each commit id, the end of that commit's hooks
(`HooksEnd`: well, badly or broken) is weakly fair. It comes when the child
processes have ended or are replaced; the loop runs every callback that is ready,
and hook scripts are expected to terminate. Which of the three ends it is, is
left open. In `HookManager`: every process that a runner holds
ends. In `Subprocess`: the loop delivers what is ready, the child exits, and
the writing end of its standard output is closed at some time. In `Connections`:
the loop reads what has arrived, hooks end (well, badly or broken), and a
blocking read returns when there is something to read, at its timeout, or when
the server has closed (`ReadEnds`); no client has to send, close or connect. In `RustClient`: only the thread inside
`send` has to go on (`WF_vars(InCall)`), since each of its system calls returns
by the socket's timeout; nothing is asked of the daemon or the network. That
callers may stop is why its deadlock is not checked; a call that is under way
cannot stop, by `EveryCallReturns`.

Where the code falls short, the models and the properties say so. A run that is
over may be `broken`: another run started one of its hooks, which destroyed the
promise it waits for, and the exception is handled nowhere. `RunsEnd` counts such
a run as over; its commit is never answered and its bucket stays locked until
somebody drops it or it is aged out. In `Configurator` this is `HooksBroken`, and
`LockedHasRun` and `LockIsReleased` have it as their exception: a lock outlives its
hooks only if the run of that very commit is broken. An int32 0 that is erased is
not logged, since `ConfigValue` holds it for equal to the empty value
(`IsErasedZero` in `ChangesAreLogged`, and `claim_writes`). A Set of the empty key
ends the daemon at the assertion of `SubkeyMatches`, and so does the commit of a
bucket in which it was erased; `RustCalls` has this as `Abort`, after which the
caller gets an error. The empty key is therefore no element of `Key` in
`Configurator`: such a commit is a crash of `Daemon` before anything is written. A hook
that leaves a process behind that holds its standard output delays the
completion until that process ends. A failed fork, or a failed read of the
output, leaves a call pending until the next one breaks it, which `CallsSettle`
excepts as `ReadingFailed`. The exit status of a child that is killed by a signal is
0, which counts as success. What arrives on standard error after the end of the
standard output may be cut off; only the latter is claimed to be complete. A
detached process that writes to its standard output ends the daemon at an
assertion (`aborted`), since `FutureSubprocess` registers no callbacks for it
and `RunProcess` reads its pipes all the same.

What the Rust client does not promise shows in `BlockingCalls`: after a call
fails, a later one may return the answer of another call until `connect`, since
the id of an answer is never compared and is the same for all calls; it may also
fail for as long as the stream is out of step. A client made with a timeout of
zero can neither connect nor set another one, because `set_timeout` wants a
stream first. The blame of a key that was erased makes the client panic, and
pairs in flight are never told (`claim_inflight`). A reset works on the bucket of
the connection, whatever xid the client sends.

## What is proved

For every set of keys, clients, targets and values and all limits, from the
named assumptions in the modules (`Key` is finite, its elements are not
wildcards and it has the `last.` key of every plain key and the plain key of
every `default.` key; the limits are naturals, positive where the code divides
or drops by them):

* `TypeCorrectness`: `Spec => []TypeOK`
* `AgeOrder`: `Spec => []AgeOrderMatchesBuckets`
* `LocksHaveRuns`: `Spec => []LockedHasRun`, a broken run included
* `HistoryChain`: `Spec => []HistoryIsAChain`
* `HistoryIsFaithful`: `Spec => []HistoryExplainsValues`
* `RollbackIsSafe`: `Spec => []RollbackUndoesNoLaterChange`
* `ChangesLogged`: `Spec => ChangesAreLogged`, with the erasure of a 0 as its exception
* `BlameTellsOneStory`: `Spec => []BlameIsContinuous`
* `CopiesHoldPrevious`, `RollbacksRestore`, `ResetsLeaveDefaults`: `Spec => P` for
  the action properties `LastHoldsPrevious`, `RollbackRestores`,
  `ResetLeavesDefaults`
* of `Daemon`, for any files and any number of crashes: `HistoryIsOnFiles`,
  `HistoryIsWrittenAhead` and `IdsStayFresh`, that is
  `DaemonSpec => []HistoryMatchesFiles`, `DaemonSpec => []HistoryIsAheadOfValues`
  and `DaemonSpec => IdsAreNotReused`; `CrashesAreAtomic`,
  `DaemonSpec => HistorySurvives`: the daemon implements `DurableHistory`; and
  `DiskHoldsReplays`, `DaemonSpec => []DiskIsCurrentOrReplayed` if `NoKeyAliases`
* of `HookManager`, for any hook table, any number of processes side by side and
  any number of runs: `HooksTyped`, `HooksInOrder`, `SuccessIsComplete` and
  `WaitsAreHeld`, that is `Spec => []P` for `HooksTypeOK`, `OrderRespected`,
  `SuccessRanEverything` and `NoLostWait`, and `OutcomesAreFinal`,
  `Spec => OverIsOver`
* of `Subprocess`, for any number of calls and reads: `SubprocessTypes`,
  `NoForgottenPromise` and `SettledCallsAreTrue`, that is `Spec => []P` for
  `SubprocessTypeOK`, `PendingHasHandler` and `SettledTruthfully`
* of `Framing`, for any width of the length, any messages and any reads:
  `StreamConserved` and `MessagesDelivered`, that is `Spec => []P` for
  `StreamIsConserved` and `AllDelivered`
* of `Connections`, for any clients and addresses: `ConnectionsTyped`,
  `AnswersStayHome`, `CallsGetTheirAnswer` and `RequestsInStep`, that is
  `Spec => []P` for `ConnectionsTypeOK`, `AnswersBelong`, `AcceptedIsOwn` and `InStep`
* of `RustClient`, for any timeouts and any number of calls: `ClientTypes`,
  `ClientSocket` and `ClientClean`, that is `Spec => []P` for `RustClientTypeOK`,
  `SocketHasTimeout` and `NothingLeftBehind`, and `ClientKeepsPromise`,
  `Spec => PromiseKept`: the client implements `BlockingCalls`

The argument. `ConfiguratorLemmas` shows that each operation of the bounded
map keeps it coherent and keeps the entries that survive (`MapInsertCoherent`); it
lifts this to buckets, shows that every list a handler stages is a list of
pairs, that a merged value exists and is a value, that the copies of
`SaveLastItems` only touch `last.` keys, and what `LogCommit` leaves of the
history. `ConfiguratorProofs!StepKinds` reduces the actions, one by one, to
three kinds of step (staging, a commit, a completion), and `IInv` is shown to
survive each kind. `IInv` is the conjunction of the first five properties with
`NoLastLogged` (no commit names a `last.` key) and `HistoryIsContinuous` (two
commits of a key with none between them agree on the value between them; Blame
lists exactly such neighbours). The properties need each other:
a commit's id exceeds its parent's only because the history's ids are at most
`maxId`, and the history explains the values only because the `last.` copies,
which change without being logged, are never in it. `RollbackIsSafe` follows
from the chain: the commits that `CanRollback` visits by parent ids are exactly
the younger ones, so the rolled-back commit is the youngest change of its keys.
The three last action properties follow from what a list of pairs ends in:
`UpdatedValue` and `UpdatedCopy` say what a commit makes of a key and of its copy,
`RollbackPairsContents` and `ResetPairsContents` what the two handlers stage for
each key, in whatever order.

`DaemonProofs` cannot use `IInv`: after a crash inside a commit the history is
ahead of the values, so `HistoryExplainsValues` is false in the daemon. Its
`FilesInv` says instead that the commit files hold a chain (`IsChain`) that ends at
`maxId` or later and accounts for the values on disk of all keys without drift,
by the new or the old value of the youngest commit (`Accounts`). While the daemon
runs, that chain is its history; while it is down and no file is torn, some chain
exists. The lemmas about chains carry the restart: `SortFindsChain` shows that
`Sort`, which follows parent ids through an unordered set of files, returns the
chain, and `ChainMaxId` that `FindMaxCommitId` returns its last id;
`ChainProlonged` and `ChainCut` show that a chain stays one when `StoreCommit` adds
a file to it and when `DropExcessiveCommits` cuts it, in the order in which
`LogCommit` does the two, and also between the two. A commit before, inside or
after its value files are written is `LoggedAccounts`. `ReplayInv` adds to this
that what `yaml` retains of an id ends, for every key, in what the id committed
last (`RetainsLatest`). With `GroupSetReads` (what `GroupSet` writes is what
`GetAll` reads) this bounds what a replay can put on disk. The hypothesis
`NoKeyAliases` is needed: a sub-key `global` makes two keys share an entry, and a
commit of one then changes the value of the other. It is not an assumption of the
modules, because the code accepts such keys; `MCDaemon` asserts it for the
instance that the run checks.

`CrashesAreAtomic` is the refinement. `Shown` maps the daemon's state to the list
of commits: while the daemon runs it is the history, while it is down it is what the
next start makes of the files that are there (`Sort`, then `DropExcessiveCommits`).
Inside a commit there may be one file too many, or the new one and not yet the cut;
`ShownAfterCrash` shows that the next start finds either the history before the
commit or the one after it, never a third; only a commit file that was cut off keeps
the daemon from starting (`torn`, in the abstract specification `lost`). It needs `FilesInv`, for `Sort` returns the
chain only when the files hold one.

`FramingProofs` is about a protocol whose reader knows nothing but bytes. Its
`FramingInvariant` says that the messages handled so far are the first n that were
sent, and that the bytes in the buffer and on the wire (`Pending`) are the rest of
the stream; `IsBuffer` says that between two reads the buffer either waits for bytes of a
length, or has the length and fewer bytes than it says. `StreamIsConserved` alone is not
inductive: a buffer with a wrong length conserves the bytes and cuts them at the
wrong place. `NextMessage` closes the circle: the pending bytes begin with the frame of
message n + 1, so the length that `AddData` decodes is the one that `Send` encoded.
That is `LengthIsReadBack`, which holds for all numbers up to `MaxLength`, and Send
writes no longer ones. The loop of `OnDataReceived` is followed pass by pass
(`PassFacts`, with `InRead` as its invariant); as each pass uses a byte at least, the
passes that `HandleData` takes are enough (`HandleDataFacts`). The recursive functions of
`EncodeLength`, `DecodeLength` and `HandleData`, and the library's `FlattenSeq`, are
shown to exist by `Recursion`, and facts about each of their values by `UpTo`: both
are inductions in terms of a set of numbers, which needs no operator as a parameter.

`HookManagerProofs` first shows what a pipeline is (`WellStaged`): its stages hold
exactly the hooks that were asked for, each in one place, and ranks do not decrease
along it. That every hook has a place needs that n / cores + n % cores chunks are
enough for n hooks, for all n and cores. `HooksInv` then says for each run how
far its stages have come (`IsGoodRun`): all before the present one are done, the
present one is done or waited for, a run that goes on waits only for hooks whose
runner holds a process of this run (`WaitsForItsOwn`), and a process that a runner
holds is one that its run waits for (`HeldIsWaitedFor`). Without the last two the end
of a process could be counted for a run that it was not started for.

`SubprocessProofs` needs for `SettledTruthfully` that the flags of the handler and
the state of the child agree (`SubprocessInv`): the end of a pipe is only seen when
all that was written to it has been read, the exit only when the child was reaped,
and what is buffered is what was read so far.

`ConnectionsProofs` has one lemma for each action; the steps of the server share
`ServerInv`. Its `IInv` adds to the types and `AcceptedIsOwn` that every message
and every pending answer was asked for on its connection and has its own id or
the one that Rust uses (`MessagesBelong`), that a client's connection is open and
its own (`CallsFit`), and that a connection on which nobody gave up has one
message at most, for which its client waits (`OneAtATime`). The last part is what
makes the answer read by a client that compares no ids the right one, and it
survives `Send` because a client that sends waits for nothing.

`RustClientProofs` has one lemma for each action as well. That no answer is
returned twice, and that the first answer read is the caller's own, needs to know
where each call is: its `IInv` says that a call is in one place at most, on the
way up, at the daemon, on the way back or told (`OnePlace`, `NotTold`), that
nothing exists of a call before it is made (`NotYet`), that a connection on which
nothing failed carries the current call only and as far as its phase says
(`InStep`), and that in the stream a body follows each size unless the end of
the daemon has cut it (`Aligned`). The refinement follows step by step: `Begin`, `ReadBody`, the two
ways to fail and `Connect` are steps of `BlockingCalls`, and all others stutter.

Only model-checked: liveness (`LockIsReleased`, `RunsEnd`, `CallsSettle`,
`CallsReturn`, `EveryCallReturns`), which is beyond the prover. `RustCalls` and what
it is made of: its operators on nested messages are recursive, and what they
compute for every message would need induction over the nesting of the messages.

The types of `HookManager` are only proved; the run leaves them to `HooksTyped`.

Two definitions were wrong until their proofs failed. That a value on disk which is
not current is one that `yaml` still retains is false when `yaml` ages out the
bucket after the replay, which takes three ids and a map of two;
`DiskIsCurrentOrReplayed` now refers to `latest`, and `daemon_crash` reaches that
case. And a crash in a `GroupSet` that replays can leave a key with a value that is
neither the one before nor the one after the commit; such keys are now `drifted`,
as those of a truncated file are.

## Not modelled

Logging, text formats (YAML, JSON, template rendering), command line and
configuration parsing, the RabbitMQ protocol (the daemon does not use it). Of the
hooks, their configuration (`HookConfig`) and the rendering of templates; of the
processes, writing to the standard input, which no hook uses. Of the generated
messages, unknown fields and packed lists (both ends are generated from one
file), reflection, descriptors and `Debug`. Of the Rust client's crate, the
example program, the build script and the error type, which keep no state. Of the
Python client, its own reading loop, which reads an answer whole in the model,
and the conversion of values. That the pairs staged under the address of a closed
connection pass to the next one there needs the composition of `Connections` and
`Configurator`. The event loop and the migrations are planned.

## Plan

1. `Connections` and `RustCalls` composed with `Configurator`: what an answer says
   of the store, and what happens to the pairs of a connection that is gone.
2. `HookManager` composed with `Configurator`: a commit's run instead of its
   future, so that which commit is broken follows from which hooks overlap.
3. `LoopingTask` and timers; the resolver.
4. `Migrations`: commits one step at a time with a crash between two.
5. An abstract store in which a commit replaces several values at once, and
   `Configurator` shown to implement it.
6. Proofs: the refinement of 5, and the round trip of `SysadminCtl` with a
   recursive function over the depth of a message instead of recursive operators.
