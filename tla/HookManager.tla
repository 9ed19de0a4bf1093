---------------------------- MODULE HookManager ----------------------------
(***************************************************************************)
(* Selecting and running the hooks of a commit (src/src/HookManager.cpp,   *)
(* HookTable.cpp, HookUser.cpp, ExternalRunner.cpp).                       *)
(*                                                                         *)
(* A run is one call of RunHooks: a pipeline of stages, each a set of      *)
(* hooks whose processes run side by side.  A stage starts when all hooks  *)
(* of the stage before have succeeded; the first failure ends the run,     *)
(* while the other processes of its stage go on.                           *)
(*                                                                         *)
(* Every hook has one runner, which holds one process.  Starting a hook    *)
(* again while it runs for another commit replaces the process object and  *)
(* breaks the promise that the other run waits for; nothing handles that   *)
(* exception and the run is never reported.                                *)
(***************************************************************************)
EXTENDS ConfigTypes, SequencesExt

CONSTANTS
    Hook,           \* the names in the hook table
    HookType,       \* "TEMPLATER" or "SERVICE"
    RunLevel,       \* the run level of a service
    HookKeys,       \* the patterns a hook is registered for
    RunOptions,     \* "DEFAULT", "DETACH" or "IGNORE"
    ParallelHooks,  \* mParallelHooks
    MaxRuns         \* bound on the runs of a behaviour

VARIABLES
    runs,     \* the runs started so far, with how far each has come
    subproc   \* the run for which the process of a hook's runner was started

vars == <<runs, subproc>>

ASSUME HookAssumption ==
    /\ IsFiniteSet(Hook)
    /\ HookType \in [Hook -> {"TEMPLATER", "SERVICE"}]
    /\ RunLevel \in [Hook -> Nat]
    /\ RunOptions \in [Hook -> {"DEFAULT", "DETACH", "IGNORE"}]
    /\ ParallelHooks \in Nat \ {0}
    /\ MaxRuns \in Nat

\* TemplaterRunner passes DEFAULT, so no template is detached or ignored.
ASSUME TemplaterAssumption ==
    \A h \in Hook : HookType[h] = "TEMPLATER" => RunOptions[h] = "DEFAULT"

----------------------------------------------------------------------------
(* Which hooks run *)

\* HookUser::HasHook
HasHook(h, k) ==
    \E p \in HookKeys[h] :
        k = p.key \/ (IsWildcard(p.key) /\ SubkeyMatches(k, p.key))

\* FulfillHooks: every plain key that is not optional has a value.
FulfillHooks(h, stored) ==
    \A p \in HookKeys[h] : IsWildcard(p.key) \/ p.optional \/ p.key \in stored

GetHooksToRun(committed, runServices) ==
    {h \in Hook : /\ \E k \in committed : HasHook(h, k)
                  /\ HookType[h] = "TEMPLATER" \/ runServices}

GetAllHooks == Hook

----------------------------------------------------------------------------
(* In which order *)

RankByRunLevel(h) == RunLevel[h]

\* Templates come first, then the services by run level.
Rank(h) == IF HookType[h] = "TEMPLATER" THEN 0 ELSE RunLevel[h] + 1

Chunks(subprocs, size, count) ==
    [i \in 1..count |->
        {subprocs[j] : j \in {m \in DOMAIN subprocs : (m - 1) \div size = i - 1}}]

SplitWithoutRemainder(subprocs) ==
    Chunks(subprocs, ParallelHooks, Len(subprocs) \div ParallelHooks)

\* ParallelHooks at a time, with empty stages at the end when the remainder is
\* more than one.
SplitSubprocessesAcrossCores(subprocs) ==
    Chunks(subprocs, ParallelHooks, (Len(subprocs) \div ParallelHooks)
                                        + (Len(subprocs) % ParallelHooks))

\* The orders in which the containers of each rank may enumerate its hooks.
Orders(hooks) ==
    LET ranks == {Rank(h) : h \in hooks}
        ordersOf(r) == SetToSeqs({h \in hooks : Rank(h) = r})
    IN  {orders \in [ranks -> UNION {ordersOf(r) : r \in ranks}] :
            \A r \in ranks : orders[r] \in ordersOf(r)}

\* The chunks of all ranks, each named by its rank and its number, and the
\* place of a chunk in the pipeline: the ranks follow one another.
Slots(orders) ==
    UNION {{r} \X DOMAIN SplitSubprocessesAcrossCores(orders[r]) :
              r \in DOMAIN orders}

AtOrBefore(s, t) == s[1] < t[1] \/ (s[1] = t[1] /\ s[2] <= t[2])

Place(orders, t) == Cardinality({s \in Slots(orders) : AtOrBefore(s, t)})

Chunk(orders, t) == SplitSubprocessesAcrossCores(orders[t[1]])[t[2]]

Pipeline(orders) ==
    [n \in 1..Cardinality(Slots(orders)) |->
        UNION {Chunk(orders, t) : t \in {u \in Slots(orders) :
                                             Place(orders, u) = n}}]

\* Every pipeline that RunHooks may be asked for, with its stages.
HookPipelines ==
    UNION {{[hooks |-> hooks, stages |-> Pipeline(orders)] :
               orders \in Orders(hooks)} : hooks \in SUBSET Hook}

----------------------------------------------------------------------------
(* The life of a run *)

Status == {"running", "ok", "failed", "broken"}

Run == [hooks : SUBSET Hook,         \* what was asked for
        stages : Seq(SUBSET Hook),
        pos : Nat,                   \* the last stage that was started
        waiting : SUBSET Hook,       \* its processes that have not ended
        done : SUBSET Hook,          \* the hooks that count as successful
        status : Status]

NewRun(hooks, stages) ==
    [hooks |-> hooks, stages |-> stages, pos |-> 0,
     waiting |-> {}, done |-> {}, status |-> "running"]

IsDetached(h) == RunOptions[h] = "DETACH"

EndsAtOnceIfAny(stage, stored) ==
    stage # {} /\ \A h \in stage : IsDetached(h) /\ FulfillHooks(h, stored)

\* The future of a detached hook is complete as soon as the process is started.
EndsAtOnce(stage, stored) ==
    \A h \in stage : IsDetached(h) /\ FulfillHooks(h, stored)

\* The next stage that does not end at once.
NextStop(run, stored) ==
    CHOOSE i \in run.pos + 1..Len(run.stages) + 1 :
        /\ \A j \in run.pos + 1..i - 1 : EndsAtOnce(run.stages[j], stored)
        /\ i \in DOMAIN run.stages => ~EndsAtOnce(run.stages[i], stored)

\* The hooks whose processes are started on the way to that stage, and in it.
Launched(run, stored) ==
    {h \in UNION {run.stages[i] : i \in DOMAIN run.stages
                                      \cap run.pos + 1..NextStop(run, stored)} :
        FulfillHooks(h, stored)}

\* The run when its futures have been resumed: a hook that lacks a key fails
\* it, but the other hooks of the stage have been started by then.
Resumed(run, stored) ==
    LET stop == NextStop(run, stored)
        launched == Launched(run, stored)
        stage == IF stop \in DOMAIN run.stages THEN run.stages[stop] ELSE {}
    IN  [run EXCEPT
            !.pos = stop,
            !.waiting = {h \in stage \cap launched : ~IsDetached(h)},
            !.done = @ \cup {h \in launched : IsDetached(h)},
            !.status = IF stop = Len(run.stages) + 1 THEN "ok"
                       ELSE IF stage \subseteq launched THEN "running"
                       ELSE "failed"]

\* The future of a hook has its value, or its exception; folly::collect passes
\* on the first exception.
Ended(run, h) == [run EXCEPT !.waiting = @ \ {h}, !.done = @ \cup {h}]

Failed(run, h) ==
    [run EXCEPT !.waiting = @ \ {h},
                !.status = IF @ = "running" THEN "failed" ELSE @]

KeepPromises(rs, launched) == rs

\* ExternalRunner::Run replaces mSubproc: a run that waits for the process that
\* was there ends with an exception that no handler expects.
BreakPromises(rs, launched) ==
    [i \in DOMAIN rs |->
        IF rs[i].status = "running" /\ rs[i].waiting \cap launched # {}
        THEN [rs[i] EXCEPT !.status = "broken"]
        ELSE rs[i]]

Released(h) == [subproc EXCEPT ![h] = 0]

\* Run number r of rs goes on to its next stages.
Resume(rs, r, run, held, stored) ==
    LET launched == Launched(run, stored)
    IN  /\ runs' = [BreakPromises(rs, launched) EXCEPT
                       ![r] = Resumed(run, stored)]
        /\ subproc' = [h \in Hook |->
                          IF h \notin launched THEN held[h]
                          ELSE IF IsDetached(h) THEN 0 ELSE r]

----------------------------------------------------------------------------

Init ==
    /\ runs = <<>>
    /\ subproc = [h \in Hook |-> 0]

RunHooks(hooks, stored) ==
    /\ Len(runs) < MaxRuns
    /\ \E pipeline \in HookPipelines :
          /\ pipeline.hooks = hooks
          /\ LET run == NewRun(hooks, pipeline.stages)
             IN  Resume(Append(runs, run), Len(runs) + 1, run, subproc, stored)

HandleCommit(committed, runServices, stored) ==
    RunHooks(GetHooksToRun(committed, runServices), stored)

FireHooks(stored) == RunHooks(GetAllHooks, stored)

TriggerHook(h, stored) == RunHooks({h}, stored)

HookFails(h) ==
    /\ runs' = [runs EXCEPT ![subproc[h]] = Failed(@, h)]
    /\ subproc' = Released(h)

HookSucceedsAfterFailure(h, stored) ==
    LET r == subproc[h]
        run == Ended(runs[r], h)
    IN  IF run.waiting = {}
        THEN Resume(runs, r, run, Released(h), stored)
        ELSE /\ runs' = [runs EXCEPT ![r] = run]
             /\ subproc' = Released(h)

\* The last success of a stage resumes the run.
HookSucceeds(h, stored) ==
    LET r == subproc[h]
        run == Ended(runs[r], h)
    IN  IF run.status = "running" /\ run.waiting = {}
        THEN Resume(runs, r, run, Released(h), stored)
        ELSE /\ runs' = [runs EXCEPT ![r] = run]
             /\ subproc' = Released(h)

\* The process that the runner of h holds has ended.
ProcessEnds(h, exitedWell, stored) ==
    /\ subproc[h] # 0
    /\ IF exitedWell \/ RunOptions[h] = "IGNORE"
       THEN HookSucceeds(h, stored)
       ELSE HookFails(h)

Next ==
    \E stored \in SUBSET Key :
        \/ \E committed \in SUBSET Key, runServices \in BOOLEAN :
              HandleCommit(committed, runServices, stored)
        \/ FireHooks(stored)
        \/ \E h \in Hook : TriggerHook(h, stored)
        \/ \E h \in Hook, exitedWell \in BOOLEAN :
              ProcessEnds(h, exitedWell, stored)

Spec == Init /\ [][Next]_vars

\* Every process that a runner holds ends.
Fairness ==
    \A h \in Hook :
        WF_vars(\E stored \in SUBSET Key, exitedWell \in BOOLEAN :
                    ProcessEnds(h, exitedWell, stored))

FairSpec == Spec /\ Fairness

----------------------------------------------------------------------------
(* Properties *)

\* The hooks that the run has come to, started or found lacking a key.
Reached(run) == UNION {run.stages[i] : i \in DOMAIN run.stages \cap 1..run.pos}

\* The variables have their types, and no hook of a run both counts as ended
\* and is waited for.
HooksTypeOK ==
    /\ runs \in Seq(Run)
    /\ Len(runs) <= MaxRuns
    /\ subproc \in [Hook -> 0..Len(runs)]
    /\ \A r \in DOMAIN runs :
          /\ runs[r].pos <= Len(runs[r].stages) + 1
          /\ runs[r].waiting \cup runs[r].done \subseteq Reached(runs[r])
          /\ runs[r].waiting \cap runs[r].done = {}

ComesBefore(g, h) ==
    /\ HookType[h] = "SERVICE"
    /\ HookType[g] = "TEMPLATER" \/ RunLevel[g] < RunLevel[h]

\* Templates come before services and low run levels before high ones: when the
\* futures of a run reach a hook, every hook of a lower rank has succeeded,
\* whatever was detached, ignored or split over several stages in between.
OrderRespected ==
    \A r \in DOMAIN runs : \A h \in Reached(runs[r]) : \A g \in runs[r].hooks :
        ComesBefore(g, h) => g \in runs[r].done

\* A run that reports success has run all the hooks it was asked for: no chunk
\* of SplitSubprocessesAcrossCores and no run level is left out.
SuccessRanEverything ==
    \A r \in DOMAIN runs : runs[r].status = "ok" => runs[r].done = runs[r].hooks

\* A run that is not over waits for a process, and each process it waits for is
\* held by its runner for this run, so that its end will resume the run.
NoLostWait ==
    \A r \in DOMAIN runs : runs[r].status = "running" =>
        /\ runs[r].waiting # {}
        /\ \A h \in runs[r].waiting : subproc[h] = r

\* A run that is over starts nothing more, also when processes of it end late:
\* its outcome and its position stay.
OverIsOver ==
    [][\A r \in DOMAIN runs : runs[r].status # "running" =>
          /\ runs'[r].status = runs[r].status
          /\ runs'[r].pos = runs[r].pos]_vars

\* Every run is over at some time, when the processes end.
RunsEnd ==
    \A r \in 1..MaxRuns :
        (r \in DOMAIN runs /\ runs[r].status = "running")
            ~> (r \in DOMAIN runs /\ runs[r].status # "running")

============================================================================
