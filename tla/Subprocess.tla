----------------------------- MODULE Subprocess -----------------------------
(***************************************************************************)
(* One runner and its child processes: ExternalRunner::Run, FutureSubprocess*)
(* and SubprocessHandler (src/decibel-cpp/.../niceuv).                     *)
(*                                                                         *)
(* Each call of Run replaces the handler, starts a child with two pipes    *)
(* and returns a future.  The exit of the child and what its pipes deliver *)
(* are callbacks of the event loop that come in any order.  A call settles *)
(* when the child has exited and its standard output has come to its end.  *)
(* Output is counted in chunks, one for each read.                         *)
(***************************************************************************)
EXTENDS Naturals, Sequences

CONSTANTS
    SpawnOutcomes,  \* what uv_spawn may do: "started", "noexec", "nofork"
    ReadMayFail,    \* whether reading from a pipe may fail
    MaxChunks,      \* bound on the chunks a child writes to each pipe
    MaxCalls        \* bound on the calls of Run

ASSUME SubprocessAssumption ==
    /\ SpawnOutcomes \subseteq {"started", "noexec", "nofork"}
    /\ ReadMayFail \in BOOLEAN
    /\ MaxChunks \in Nat
    /\ MaxCalls \in Nat

VARIABLES
    detach,   \* the run options of the hook say DETACH
    handler,  \* the flags and buffers of the SubprocessHandler
    child,    \* the child process and its pipes, as the kernel has them
    calls,    \* what became of the future of each call of Run
    aborted   \* the assertion in ReadCalled has failed

vars == <<detach, handler, child, calls, aborted>>

----------------------------------------------------------------------------

ExitStatus == {0, 1, 100}

Handler == [running : BOOLEAN, eofd : BOOLEAN, exited : BOOLEAN,
            status : ExitStatus,
            out : Nat, err : Nat,    \* mStdOutBuffer and mStdErrBuffer
            reading : BOOLEAN,       \* uv_read_start is in effect
            bound : BOOLEAN]         \* the callbacks are registered

NewHandler ==
    [running |-> FALSE, eofd |-> FALSE, exited |-> FALSE, status |-> 0,
     out |-> 0, err |-> 0, reading |-> FALSE, bound |-> FALSE]

\* A pipe has an end that the child, or a process it left behind, holds open.
Pipe == [wrote : Nat, read : Nat, open : BOOLEAN]

Child == [life : {"none", "alive", "dead", "reaped"}, code : ExitStatus,
          out : Pipe, err : Pipe]

ClosedPipe == [wrote |-> 0, read |-> 0, open |-> FALSE]

NoChild ==
    [life |-> "none", code |-> 0, out |-> ClosedPipe, err |-> ClosedPipe]

Call == [state : {"pending", "ok", "failed", "broken"}, out : Nat]

Pending == [state |-> "pending", out |-> 0]

Current == Len(calls)

Init ==
    /\ detach \in BOOLEAN
    /\ handler = NewHandler
    /\ child = NoChild
    /\ calls = <<>>
    /\ aborted = FALSE

----------------------------------------------------------------------------
(* Starting *)

KeepPromise(call) == call

\* Destroying the handler destroys the promises that its callbacks hold.
BreakPromise(call) ==
    IF call.state = "pending" THEN [call EXCEPT !.state = "broken"] ELSE call

\* A failed exec leaves pipes without a writer, a failed fork no pipes at all.
Spawned(outcome) ==
    LET pipe == [ClosedPipe EXCEPT !.open = (outcome = "started")]
    IN  [NoChild EXCEPT !.life = IF outcome = "started" THEN "alive" ELSE "reaped",
                        !.out = pipe, !.err = pipe]

\* RegisterAndSpawnSubprocess reports a failed spawn as an exit with 100.
RunProcess(outcome) ==
    [NewHandler EXCEPT !.running = TRUE,
                       !.bound = ~detach,
                       !.exited = (outcome # "started"),
                       !.status = IF outcome = "started" THEN 0 ELSE 100,
                       !.reading = (outcome # "nofork")]

\* The future of a detached process has its value before the process starts.
RunSubprocess ==
    IF detach THEN [state |-> "ok", out |-> 0] ELSE Pending

Run(outcome) ==
    /\ Current < MaxCalls
    /\ calls' = Append([c \in DOMAIN calls |-> BreakPromise(calls[c])],
                       RunSubprocess)
    /\ handler' = RunProcess(outcome)
    /\ child' = Spawned(outcome)
    /\ UNCHANGED <<detach, aborted>>

----------------------------------------------------------------------------
(* What the child does *)

Write(pipe) ==
    /\ child[pipe].open
    /\ child[pipe].wrote < MaxChunks
    /\ child' = [child EXCEPT ![pipe].wrote = @ + 1]
    /\ UNCHANGED <<detach, handler, calls, aborted>>

\* The last process that holds the writing end closes it or ends.
Close(pipe) ==
    /\ child[pipe].open
    /\ child' = [child EXCEPT ![pipe].open = FALSE]
    /\ UNCHANGED <<detach, handler, calls, aborted>>

\* A child that a signal kills has the exit status 0.
Exit(code) ==
    /\ child.life = "alive"
    /\ child' = [child EXCEPT !.life = "dead", !.code = code]
    /\ UNCHANGED <<detach, handler, calls, aborted>>

----------------------------------------------------------------------------
(* The callbacks *)

\* What the three callbacks together set the promise of the call to.
Outcome(h) ==
    [state |-> IF h.status = 0 THEN "ok" ELSE "failed", out |-> h.out]

\* TrueProcessExit: the buffers go to the callbacks and the handles are closed.
TrueProcessExit(h) ==
    /\ handler' = [h EXCEPT !.running = FALSE, !.out = 0, !.err = 0,
                            !.reading = FALSE]
    /\ calls' = IF h.bound THEN [calls EXCEPT ![Current] = Outcome(h)] ELSE calls

IsOverAtEither(h) == h.exited \/ h.eofd

IsOver(h) == h.exited /\ h.eofd

StopReading(h) == [h EXCEPT !.reading = FALSE]

\* ReadCalled with data: BufferedRead, or the assertion when nobody registered.
StdOutData ==
    /\ handler.reading
    /\ child.out.read < child.out.wrote
    /\ child' = [child EXCEPT !.out.read = @ + 1]
    /\ IF handler.bound
       THEN handler' = [handler EXCEPT !.out = @ + 1] /\ UNCHANGED aborted
       ELSE aborted' = TRUE /\ UNCHANGED handler
    /\ UNCHANGED <<detach, calls>>

\* ReadCalled with UV_EOF
StdOutEnd ==
    /\ handler.reading /\ ~handler.eofd
    /\ child.out.read = child.out.wrote /\ ~child.out.open
    /\ LET h == [handler EXCEPT !.eofd = TRUE]
       IN  IF IsOver(h) THEN TrueProcessExit(h)
           ELSE handler' = StopReading(h) /\ UNCHANGED calls
    /\ UNCHANGED <<detach, child, aborted>>

\* ReadCalled with an error
StdOutError ==
    /\ ReadMayFail
    /\ handler.reading
    /\ handler' = StopReading(handler)
    /\ UNCHANGED <<detach, child, calls, aborted>>

\* ErrCalled
StdErrData ==
    /\ handler.reading
    /\ child.err.read < child.err.wrote
    /\ child' = [child EXCEPT !.err.read = @ + 1]
    /\ handler' = [handler EXCEPT !.err = @ + 1]
    /\ UNCHANGED <<detach, calls, aborted>>

ProcessExitedUnchecked ==
    /\ child.life = "dead"
    /\ child' = [child EXCEPT !.life = "reaped"]
    /\ handler' = [handler EXCEPT !.exited = TRUE, !.status = child.code]
    /\ UNCHANGED <<detach, calls, aborted>>

ProcessExited ==
    /\ child.life = "dead"
    /\ child' = [child EXCEPT !.life = "reaped"]
    /\ LET h == [handler EXCEPT !.exited = TRUE, !.status = child.code]
       IN  IF IsOver(h) THEN TrueProcessExit(h)
           ELSE handler' = h /\ UNCHANGED calls
    /\ UNCHANGED <<detach, aborted>>

----------------------------------------------------------------------------

ChildStep ==
    \/ \E pipe \in {"out", "err"} : Write(pipe) \/ Close(pipe)
    \/ \E code \in {0, 1} : Exit(code)

Callback ==
    StdOutData \/ StdOutEnd \/ StdOutError \/ StdErrData \/ ProcessExited

Next ==
    /\ ~aborted
    /\ \/ \E outcome \in SpawnOutcomes : Run(outcome)
       \/ ChildStep
       \/ Callback

Spec == Init /\ [][Next]_vars

\* The event loop delivers what is ready, the child exits, and nobody holds
\* its standard output open for ever.
Fairness ==
    /\ WF_vars(StdOutData)
    /\ WF_vars(StdOutEnd)
    /\ WF_vars(ProcessExited)
    /\ WF_vars(\E code \in {0, 1} : Exit(code))
    /\ WF_vars(Close("out"))

FairSpec == Spec /\ Fairness

----------------------------------------------------------------------------
(* Properties *)

\* The variables have their types, and a handler that has both the exit and
\* the end of the output is no longer running.
SubprocessTypeOK ==
    /\ detach \in BOOLEAN
    /\ handler \in Handler
    /\ child \in Child
    /\ calls \in Seq(Call)
    /\ Current <= MaxCalls
    /\ aborted \in BOOLEAN
    /\ IsOver(handler) => ~handler.running

\* Only the newest call can be pending, and it is as long as its handler runs:
\* an older one was settled by TrueProcessExit or broken by its successor.
PendingHasHandler ==
    ~detach =>
        \A c \in DOMAIN calls :
            calls[c].state = "pending" <=> (c = Current /\ handler.running)

\* A call that settles tells the truth about its child, in whichever order the
\* last output, the end of the pipe and the exit were delivered: it has the
\* complete output, and it succeeds exactly if the child was started and exited
\* with 0.
SettledTruthfully ==
    ~detach /\ calls # <<>> /\ calls[Current].state \in {"ok", "failed"} =>
        /\ calls[Current].out = child.out.wrote
        /\ ~child.out.open
        /\ child.life = "reaped"
        /\ calls[Current].state = "ok" <=> handler.status = 0
        /\ calls[Current].state = "ok" => child.code = 0

\* The end of the output cannot come: the fork, or a read, has failed.
ReadingFailed == ~handler.reading /\ ~handler.eofd

\* Every call is settled, or broken by the next one, unless its output is no
\* longer read before it has come to its end.
CallsSettle ==
    \A c \in 1..MaxCalls :
        (c \in DOMAIN calls /\ calls[c].state = "pending")
            ~> (ReadingFailed \/ (c \in DOMAIN calls /\ calls[c].state # "pending"))

============================================================================
