-------------------------- MODULE SubprocessProofs --------------------------
(***************************************************************************)
(* What a call of Run reports is true of its child, for any number of      *)
(* calls and chunks and for every way in which the callbacks of the event  *)
(* loop may be ordered.                                                    *)
(***************************************************************************)
EXTENDS Subprocess, SequenceTheorems, TLAPS

----------------------------------------------------------------------------
(* The inductive invariant *)

\* Before the first call there is no child and nothing is read.
IdleAtFirst ==
    calls = <<>> => handler = NewHandler /\ child = NoChild

\* What the flags of the handler say about the child: the exit was delivered
\* exactly if the child is reaped, the end of the output was reached when all
\* of it was read and nobody can write more, and the handler runs until both
\* have come.
FlagsAreTrue ==
    calls # <<>> =>
        /\ handler.bound = ~detach
        /\ handler.running <=> ~IsOver(handler)
        /\ handler.exited <=> child.life = "reaped"
        /\ handler.exited /\ handler.status = 0 => child.code = 0
        /\ handler.eofd => /\ ~handler.reading
                           /\ child.out.read = child.out.wrote
                           /\ ~child.out.open

\* The buffer holds what was read, until it is given away.
BufferIsWhatWasRead ==
    ~detach /\ handler.running => handler.out = child.out.read

SubprocessInv ==
    /\ SubprocessTypeOK
    /\ IdleAtFirst
    /\ FlagsAreTrue
    /\ BufferIsWhatWasRead
    /\ PendingHasHandler
    /\ SettledTruthfully

----------------------------------------------------------------------------
(* Lemmas *)

\* The handler of an idle runner, and one that is over, reads nothing and its
\* child is not waiting to be reaped.
LEMMA CallbackNeedsCall ==
    ASSUME SubprocessInv, calls = <<>>
    PROVE  /\ ~handler.reading
           /\ child.life = "none"
           /\ ~child.out.open /\ ~child.err.open
BY DEF SubprocessInv, IdleAtFirst, NewHandler, NoChild, ClosedPipe

\* The initial state.
LEMMA InitInv == Init => SubprocessInv
<1> SUFFICES ASSUME Init PROVE SubprocessInv
  OBVIOUS
<1>1. handler = NewHandler /\ child = NoChild /\ calls = <<>> /\ aborted = FALSE
      /\ detach \in BOOLEAN
  BY DEF Init
<1>2. ClosedPipe \in Pipe
  BY DEF ClosedPipe, Pipe
<1>3. NewHandler \in Handler /\ NoChild \in Child
  BY <1>2 DEF NewHandler, Handler, ExitStatus, NoChild, Child
<1>4. calls \in Seq(Call) /\ Len(calls) = 0 /\ DOMAIN calls = {}
  BY <1>1, EmptySeq
<1>5. SubprocessTypeOK
  <2>1. Current <= MaxCalls
    BY <1>4, SubprocessAssumption DEF Current
  <2>2. ~IsOver(handler)
    BY <1>1 DEF IsOver, NewHandler
  <2> QED BY <1>1, <1>3, <1>4, <2>1, <2>2, Zenon DEF SubprocessTypeOK
<1>6. IdleAtFirst /\ FlagsAreTrue /\ SettledTruthfully
  BY <1>1 DEF IdleAtFirst, FlagsAreTrue, SettledTruthfully
<1>7. BufferIsWhatWasRead
  BY <1>1 DEF BufferIsWhatWasRead, NewHandler
<1>8. PendingHasHandler
  BY <1>4 DEF PendingHasHandler
<1> QED BY <1>5, <1>6, <1>7, <1>8 DEF SubprocessInv

\* A new call: the promise of the one before is broken and the flags start
\* anew.
LEMMA RunInv ==
    ASSUME SubprocessInv, NEW outcome \in SpawnOutcomes, Run(outcome)
    PROVE  SubprocessInv'
<1> DEFINE broken == [c \in DOMAIN calls |-> BreakPromise(calls[c])]
<1>1. /\ calls \in Seq(Call) /\ detach \in BOOLEAN /\ aborted \in BOOLEAN
      /\ Current \in Nat /\ Current < MaxCalls
      /\ DOMAIN calls = 1..Current
  BY LenProperties DEF SubprocessInv, SubprocessTypeOK, Run, Current
<1>2. \A c \in DOMAIN calls : broken[c] \in Call /\ broken[c].state # "pending"
  <2> SUFFICES ASSUME NEW c \in DOMAIN calls
               PROVE  broken[c] \in Call /\ broken[c].state # "pending"
    OBVIOUS
  <2>1. calls[c] \in Call /\ broken[c] = BreakPromise(calls[c])
    BY <1>1
  <2>2. CASE calls[c].state = "pending"
    BY <2>1, <2>2 DEF BreakPromise, Call
  <2>3. CASE calls[c].state # "pending"
    BY <2>1, <2>3 DEF BreakPromise
  <2> QED BY <2>2, <2>3
<1>3. broken \in Seq(Call) /\ Len(broken) = Current
  <2>1. broken \in [1..Current -> Call] BY <1>1, <1>2
  <2> QED BY <1>1, <2>1, SeqDef, LenProperties
<1>4. RunSubprocess \in Call
  BY DEF RunSubprocess, Call, Pending
<1>5. /\ calls' = Append(broken, RunSubprocess)
      /\ handler' = RunProcess(outcome)
      /\ child' = Spawned(outcome)
      /\ detach' = detach /\ aborted' = aborted
  BY DEF Run
<1> HIDE DEF broken
<1>6. /\ calls' \in Seq(Call)
      /\ Len(calls') = Current + 1
      /\ DOMAIN calls' = 1..Current + 1
      /\ \A c \in 1..Current : calls'[c] = broken[c]
      /\ calls'[Current + 1] = RunSubprocess
  BY <1>1, <1>3, <1>4, <1>5, AppendProperties, LenProperties
<1>7. Current' = Current + 1 /\ calls' # <<>>
  <2>1. Current' = Current + 1 BY <1>6 DEF Current
  <2>2. Len(calls') # 0 BY <1>1, <1>6
  <2> QED BY <2>1, <2>2, EmptySeq
<1>8. outcome \in {"started", "noexec", "nofork"}
  BY SubprocessAssumption
<1>9. /\ RunProcess(outcome) \in Handler
      /\ Spawned(outcome) \in Child
  <2>1. RunProcess(outcome) \in Handler
    BY <1>1, <1>8 DEF RunProcess, NewHandler, Handler, ExitStatus
  <2>2. [ClosedPipe EXCEPT !.open = (outcome = "started")] \in Pipe
    BY DEF ClosedPipe, Pipe
  <2> QED BY <2>1, <2>2 DEF Spawned, NoChild, Child, ExitStatus
<1>10. /\ RunProcess(outcome).running = TRUE
       /\ RunProcess(outcome).eofd = FALSE
       /\ RunProcess(outcome).out = 0
       /\ RunProcess(outcome).bound = ~detach
       /\ RunProcess(outcome).exited = (outcome # "started")
       /\ RunProcess(outcome).status = IF outcome = "started" THEN 0 ELSE 100
       /\ Spawned(outcome).life = IF outcome = "started" THEN "alive" ELSE "reaped"
       /\ Spawned(outcome).code = 0
       /\ Spawned(outcome).out.read = 0
  BY DEF RunProcess, NewHandler, Spawned, NoChild, ClosedPipe
<1>11. SubprocessTypeOK'
  <2>1. detach' \in BOOLEAN /\ aborted' \in BOOLEAN
    BY <1>1, <1>5, Zenon
  <2>2. Current' <= MaxCalls
    BY <1>1, <1>7, SubprocessAssumption
  <2>3. ~IsOver(handler)'
    BY <1>5, <1>10 DEF IsOver
  <2> QED BY <1>5, <1>6, <1>9, <2>1, <2>2, <2>3, Zenon DEF SubprocessTypeOK
<1>12. IdleAtFirst' /\ FlagsAreTrue' /\ BufferIsWhatWasRead'
  BY <1>5, <1>7, <1>8, <1>10 DEF IdleAtFirst, FlagsAreTrue, BufferIsWhatWasRead, IsOver
<1>13. PendingHasHandler'
  BY <1>1, <1>2, <1>5, <1>6, <1>7, <1>10
     DEF PendingHasHandler, RunSubprocess, Pending
<1>14. SettledTruthfully'
  BY <1>5, <1>6, <1>7 DEF SettledTruthfully, RunSubprocess, Pending
<1> QED BY <1>11, <1>12, <1>13, <1>14 DEF SubprocessInv

\* What the child does touches neither the handler nor the calls, and a pipe
\* that was closed stays closed.
LEMMA ChildStepInv ==
    ASSUME SubprocessInv, ChildStep
    PROVE  SubprocessInv'
<1>1. UNCHANGED <<detach, handler, calls, aborted>>
  BY DEF ChildStep, Write, Close, Exit
<1>2. child \in Child /\ child.out \in Pipe /\ child.err \in Pipe
  BY DEF SubprocessInv, SubprocessTypeOK, Child
<1>3. calls # <<>>
  BY CallbackNeedsCall DEF ChildStep, Write, Close, Exit
<1>4. /\ child' \in Child
      /\ child'.out.read = child.out.read
      /\ ~child.out.open => child'.out = child.out
      /\ \/ child'.life = child.life /\ child'.code = child.code
         \/ child.life = "alive" /\ child'.life = "dead"
  <2>1. ASSUME NEW pipe \in {"out", "err"}, Write(pipe) PROVE <1>4!:
    <3> DEFINE p == [child[pipe] EXCEPT !.wrote = @ + 1]
    <3>1. child[pipe] \in Pipe /\ child[pipe].open
      BY <1>2, <2>1 DEF Write
    <3>2. p \in Pipe /\ p.read = child[pipe].read
      BY <3>1 DEF Pipe
    <3>3. child' = [child EXCEPT ![pipe] = p]
      BY <2>1 DEF Write
    <3> HIDE DEF p
    <3>4. CASE pipe = "out"
      <4>1. child' = [child EXCEPT !.out = p] BY <3>3, <3>4, Zenon
      <4>2. child.out.open /\ p.read = child.out.read BY <3>1, <3>2, <3>4
      <4> QED BY <1>2, <3>2, <4>1, <4>2 DEF Child
    <3>5. CASE pipe = "err"
      <4>1. child' = [child EXCEPT !.err = p] BY <3>3, <3>5, Zenon
      <4> QED BY <1>2, <3>2, <4>1 DEF Child
    <3> QED BY <3>4, <3>5
  <2>2. ASSUME NEW pipe \in {"out", "err"}, Close(pipe) PROVE <1>4!:
    <3> DEFINE p == [child[pipe] EXCEPT !.open = FALSE]
    <3>1. child[pipe] \in Pipe /\ child[pipe].open
      BY <1>2, <2>2 DEF Close
    <3>2. p \in Pipe /\ p.read = child[pipe].read
      BY <3>1 DEF Pipe
    <3>3. child' = [child EXCEPT ![pipe] = p]
      BY <2>2 DEF Close
    <3> HIDE DEF p
    <3>4. CASE pipe = "out"
      <4>1. child' = [child EXCEPT !.out = p] BY <3>3, <3>4, Zenon
      <4>2. child.out.open /\ p.read = child.out.read BY <3>1, <3>2, <3>4
      <4> QED BY <1>2, <3>2, <4>1, <4>2 DEF Child
    <3>5. CASE pipe = "err"
      <4>1. child' = [child EXCEPT !.err = p] BY <3>3, <3>5, Zenon
      <4> QED BY <1>2, <3>2, <4>1 DEF Child
    <3> QED BY <3>4, <3>5
  <2>3. ASSUME NEW code \in {0, 1}, Exit(code) PROVE <1>4!:
    BY <1>2, <2>3 DEF Exit, Child, ExitStatus
  <2> QED BY <2>1, <2>2, <2>3 DEF ChildStep
<1>5. SubprocessTypeOK' /\ PendingHasHandler'
  BY <1>1, <1>4 DEF SubprocessInv, SubprocessTypeOK, PendingHasHandler, IsOver, Current
<1>6. IdleAtFirst' /\ FlagsAreTrue' /\ BufferIsWhatWasRead'
  BY <1>1, <1>3, <1>4
     DEF SubprocessInv, IdleAtFirst, FlagsAreTrue, BufferIsWhatWasRead, IsOver
<1>7. SettledTruthfully'
  BY <1>1, <1>3, <1>4
     DEF SubprocessInv, FlagsAreTrue, SettledTruthfully, IsOver, Current
<1> QED BY <1>5, <1>6, <1>7 DEF SubprocessInv

\* The exit and the end of the output have both come: the call is settled with
\* what the buffer holds.
LEMMA TrueProcessExitInv ==
    ASSUME SubprocessInv, calls # <<>>, NEW h \in Handler, TrueProcessExit(h),
           handler.running,
           IsOver(h),
           h.bound = ~detach,
           h.out = handler.out,
           h.status = 0 => child'.code = 0,
           child' \in Child, child'.life = "reaped",
           child'.out = child.out,
           child.out.read = child.out.wrote, ~child.out.open,
           UNCHANGED <<detach, aborted>>
    PROVE  SubprocessInv'
<1>1. /\ calls \in Seq(Call) /\ Current \in Nat \ {0} /\ Current <= MaxCalls
      /\ DOMAIN calls = 1..Current
      /\ detach \in BOOLEAN /\ aborted \in BOOLEAN
  BY LenProperties, EmptySeq DEF SubprocessInv, SubprocessTypeOK, Current
<1>2. handler' = [h EXCEPT !.running = FALSE, !.out = 0, !.err = 0,
                           !.reading = FALSE]
  BY DEF TrueProcessExit
<1>3. /\ handler' \in Handler
      /\ handler'.running = FALSE /\ handler'.reading = FALSE
      /\ handler'.exited = h.exited /\ handler'.eofd = h.eofd
      /\ handler'.bound = h.bound /\ handler'.status = h.status
  BY <1>2 DEF Handler
<1>4. Outcome(h) \in Call /\ Outcome(h).state \in {"ok", "failed"}
      /\ (Outcome(h).state = "ok" <=> h.status = 0)
      /\ Outcome(h).out = h.out
  BY DEF Outcome, Call, Handler
<1>5. /\ calls' \in Seq(Call) /\ Len(calls') = Len(calls)
      /\ DOMAIN calls' = 1..Current
      /\ \A c \in 1..Current : c # Current => calls'[c] = calls[c]
      /\ calls'[Current] = IF detach THEN calls[Current] ELSE Outcome(h)
  <2>1. CASE detach
    BY <1>1, <2>1, LenProperties DEF TrueProcessExit
  <2>2. CASE ~detach
    <3>1. calls' = [calls EXCEPT ![Current] = Outcome(h)]
      BY <2>2 DEF TrueProcessExit
    <3> QED BY <1>1, <1>4, <2>2, <3>1, ExceptSeq, LenProperties
  <2> QED BY <2>1, <2>2
<1>6. Current' = Current /\ calls' # <<>>
  <2>1. Len(calls') # 0 BY <1>1, <1>5 DEF Current
  <2> QED BY <1>5, <2>1, EmptySeq DEF Current
<1>7. SubprocessTypeOK'
  <2>1. detach' \in BOOLEAN /\ aborted' \in BOOLEAN
    BY <1>1, Zenon
  <2> QED BY <1>1, <1>3, <1>5, <1>6, <2>1, Zenon DEF SubprocessTypeOK
<1>8. IdleAtFirst' /\ BufferIsWhatWasRead'
  BY <1>3, <1>6 DEF IdleAtFirst, BufferIsWhatWasRead
<1>9. FlagsAreTrue'
  BY <1>3 DEF FlagsAreTrue, IsOver
<1>10. PendingHasHandler'
  BY <1>1, <1>3, <1>4, <1>5, <1>6 DEF SubprocessInv, PendingHasHandler
<1>11. SettledTruthfully'
  <2> SUFFICES ASSUME ~detach PROVE SettledTruthfully'
    BY DEF SettledTruthfully
  <2>1. handler.out = child.out.wrote
    BY DEF SubprocessInv, BufferIsWhatWasRead
  <2> QED BY <1>3, <1>4, <1>5, <1>6, <2>1 DEF SettledTruthfully
<1> QED BY <1>7, <1>8, <1>9, <1>10, <1>11 DEF SubprocessInv

\* A callback that settles nothing: the calls stay, and the flags and the
\* buffer keep their meaning.
LEMMA QuietCallbackInv ==
    ASSUME SubprocessInv, calls # <<>>,
           handler' \in Handler, child' \in Child, aborted' \in BOOLEAN,
           UNCHANGED <<detach, calls>>,
           handler'.running = handler.running,
           FlagsAreTrue', BufferIsWhatWasRead',
           SettledTruthfully'
    PROVE  SubprocessInv'
<1>1. SubprocessTypeOK'
  <2>1. detach' \in BOOLEAN /\ calls' \in Seq(Call) /\ Current' <= MaxCalls
    BY DEF SubprocessInv, SubprocessTypeOK, Current
  <2>2. IsOver(handler)' => ~handler'.running
    BY DEF FlagsAreTrue
  <2> QED BY <2>1, <2>2, Zenon DEF SubprocessTypeOK
<1>2. IdleAtFirst' /\ PendingHasHandler'
  BY DEF SubprocessInv, IdleAtFirst, PendingHasHandler, Current
<1> QED BY <1>1, <1>2 DEF SubprocessInv

\* A call is settled only when nothing can be read any more and the child is
\* reaped.
LEMMA SettledIsQuiet ==
    ASSUME SubprocessInv, calls # <<>>, handler.reading \/ child.life = "dead"
    PROVE  handler.running
BY DEF SubprocessInv, FlagsAreTrue, IsOver

\* A call that is not detached and whose handler runs is pending.
LEMMA RunningIsPending ==
    ASSUME SubprocessInv, calls # <<>>, ~detach, handler.running
    PROVE  calls[Current].state = "pending"
<1>1. Current \in DOMAIN calls
  BY LenProperties, EmptySeq DEF SubprocessInv, SubprocessTypeOK, Current
<1> QED BY <1>1 DEF SubprocessInv, PendingHasHandler

\* Every callback keeps the invariant of the processes.
LEMMA CallbackInv ==
    ASSUME SubprocessInv, Callback
    PROVE  SubprocessInv'
<1>1. calls # <<>>
  BY CallbackNeedsCall
     DEF Callback, StdOutData, StdOutEnd, StdOutError, StdErrData, ProcessExited
<1>2. handler.running
  BY <1>1, SettledIsQuiet
     DEF Callback, StdOutData, StdOutEnd, StdOutError, StdErrData, ProcessExited
<1>3. ~detach => calls[Current].state = "pending"
  BY <1>1, <1>2, RunningIsPending
<1>4. UNCHANGED <<detach, calls>> => SettledTruthfully'
  BY <1>3 DEF SettledTruthfully, Current
<1>5. /\ handler \in Handler /\ child \in Child
      /\ child.out \in Pipe /\ child.err \in Pipe
  BY DEF SubprocessInv, SubprocessTypeOK, Child
<1>6. aborted \in BOOLEAN
  BY DEF SubprocessInv, SubprocessTypeOK
<1>7. FlagsAreTrue /\ BufferIsWhatWasRead
  BY DEF SubprocessInv
<1>8. CASE StdOutData
  <2>1. /\ child' = [child EXCEPT !.out.read = @ + 1]
        /\ handler.reading /\ UNCHANGED <<detach, calls>>
    BY <1>8 DEF StdOutData
  <2>2. /\ child' \in Child /\ child'.life = child.life
        /\ child'.code = child.code /\ child'.out.read = child.out.read + 1
    BY <1>5, <2>1 DEF Child, Pipe
  <2>3. /\ handler' = IF handler.bound THEN [handler EXCEPT !.out = @ + 1]
                      ELSE handler
        /\ aborted' = IF handler.bound THEN aborted ELSE TRUE
    BY <1>8 DEF StdOutData
  <2>4. /\ handler' \in Handler
        /\ handler'.running = handler.running /\ handler'.eofd = handler.eofd
        /\ handler'.exited = handler.exited /\ handler'.bound = handler.bound
        /\ handler'.status = handler.status
        /\ handler.bound => handler'.out = handler.out + 1
    <3>1. CASE handler.bound
      <4>1. handler' = [handler EXCEPT !.out = handler.out + 1]
        BY <2>3, <3>1
      <4> QED BY <1>5, <4>1 DEF Handler
    <3>2. CASE ~handler.bound BY <1>5, <2>3, <3>2
    <3> QED BY <3>1, <3>2
  <2>5. aborted' \in BOOLEAN
    <3>1. CASE handler.bound BY <1>6, <2>3, <3>1, Zenon
    <3>2. CASE ~handler.bound BY <2>3, <3>2, Zenon
    <3> QED BY <3>1, <3>2
  <2>6. ~handler.eofd
    BY <1>1, <1>7, <2>1 DEF FlagsAreTrue
  <2>7. FlagsAreTrue' /\ BufferIsWhatWasRead'
    BY <1>1, <1>7, <2>1, <2>2, <2>4, <2>6
       DEF FlagsAreTrue, BufferIsWhatWasRead, IsOver
  <2> QED BY <1>1, <1>4, <2>1, <2>2, <2>4, <2>5, <2>7, QuietCallbackInv
<1>9. CASE StdOutEnd
  <2> DEFINE h == [handler EXCEPT !.eofd = TRUE]
  <2>1. /\ h \in Handler /\ h.eofd = TRUE
        /\ h.running = handler.running /\ h.exited = handler.exited
        /\ h.status = handler.status /\ h.bound = handler.bound
        /\ h.out = handler.out
    BY <1>5 DEF Handler
  <2>2. /\ child.out.read = child.out.wrote /\ ~child.out.open
        /\ UNCHANGED <<detach, child, aborted>>
        /\ IF IsOver(h) THEN TrueProcessExit(h)
           ELSE handler' = StopReading(h) /\ UNCHANGED calls
    BY <1>9 DEF StdOutEnd
  <2> HIDE DEF h
  <2>3. CASE IsOver(h)
    <3>1. child.life = "reaped" /\ (h.status = 0 => child.code = 0)
          /\ h.bound = ~detach
      BY <1>1, <1>7, <2>1, <2>3 DEF IsOver, FlagsAreTrue
    <3> QED
      BY <1>1, <1>2, <1>5, <2>1, <2>2, <2>3, <3>1, TrueProcessExitInv
  <2>4. CASE ~IsOver(h)
    <3>1. handler' = [h EXCEPT !.reading = FALSE] /\ UNCHANGED calls
      BY <2>2, <2>4 DEF StopReading
    <3>2. /\ handler' \in Handler
          /\ handler'.running = handler.running /\ handler'.eofd = TRUE
          /\ handler'.exited = handler.exited /\ handler'.bound = handler.bound
          /\ handler'.status = handler.status /\ handler'.out = handler.out
          /\ handler'.reading = FALSE
      BY <2>1, <3>1 DEF Handler
    <3>3. FlagsAreTrue' /\ BufferIsWhatWasRead'
      BY <1>1, <1>2, <1>7, <2>1, <2>2, <2>4, <3>1, <3>2
         DEF FlagsAreTrue, BufferIsWhatWasRead, IsOver
    <3> QED BY <1>1, <1>4, <1>5, <1>6, <2>2, <3>1, <3>2, <3>3, QuietCallbackInv
  <2> QED BY <2>3, <2>4
<1>10. CASE StdOutError
  <2>1. /\ handler' = [handler EXCEPT !.reading = FALSE]
        /\ UNCHANGED <<detach, child, calls, aborted>>
    BY <1>10 DEF StdOutError, StopReading
  <2>2. /\ handler' \in Handler
        /\ handler'.running = handler.running /\ handler'.eofd = handler.eofd
        /\ handler'.exited = handler.exited /\ handler'.bound = handler.bound
        /\ handler'.status = handler.status /\ handler'.out = handler.out
        /\ handler'.reading = FALSE
    BY <1>5, <2>1 DEF Handler
  <2>3. FlagsAreTrue' /\ BufferIsWhatWasRead'
    BY <1>1, <1>7, <2>1, <2>2 DEF FlagsAreTrue, BufferIsWhatWasRead, IsOver
  <2> QED BY <1>1, <1>4, <1>5, <1>6, <2>1, <2>2, <2>3, QuietCallbackInv
<1>11. CASE StdErrData
  <2>1. /\ child' = [child EXCEPT !.err.read = @ + 1]
        /\ handler' = [handler EXCEPT !.err = @ + 1]
        /\ UNCHANGED <<detach, calls, aborted>>
    BY <1>11 DEF StdErrData
  <2>2. /\ child' \in Child /\ child'.life = child.life
        /\ child'.code = child.code /\ child'.out = child.out
    BY <1>5, <2>1 DEF Child, Pipe
  <2>3. /\ handler' \in Handler
        /\ handler'.running = handler.running /\ handler'.eofd = handler.eofd
        /\ handler'.exited = handler.exited /\ handler'.bound = handler.bound
        /\ handler'.status = handler.status /\ handler'.out = handler.out
        /\ handler'.reading = handler.reading
    BY <1>5, <2>1 DEF Handler
  <2>4. FlagsAreTrue' /\ BufferIsWhatWasRead'
    BY <1>1, <1>7, <2>1, <2>2, <2>3 DEF FlagsAreTrue, BufferIsWhatWasRead, IsOver
  <2> QED BY <1>1, <1>4, <1>6, <2>1, <2>2, <2>3, <2>4, QuietCallbackInv
<1>12. CASE ProcessExited
  <2> DEFINE h == [handler EXCEPT !.exited = TRUE, !.status = child.code]
  <2>1. /\ h \in Handler /\ h.exited = TRUE /\ h.status = child.code
        /\ h.running = handler.running /\ h.eofd = handler.eofd
        /\ h.bound = handler.bound /\ h.out = handler.out
        /\ h.reading = handler.reading
    BY <1>5 DEF Handler, Child
  <2>2. /\ child.life = "dead" /\ child' = [child EXCEPT !.life = "reaped"]
        /\ UNCHANGED <<detach, aborted>>
        /\ IF IsOver(h) THEN TrueProcessExit(h)
           ELSE handler' = h /\ UNCHANGED calls
    BY <1>12 DEF ProcessExited
  <2> HIDE DEF h
  <2>3. /\ child' \in Child /\ child'.life = "reaped"
        /\ child'.code = child.code /\ child'.out = child.out
    BY <1>5, <2>2 DEF Child
  <2>4. CASE IsOver(h)
    <3>1. /\ child.out.read = child.out.wrote /\ ~child.out.open
          /\ h.bound = ~detach
      BY <1>1, <1>7, <2>1, <2>4 DEF IsOver, FlagsAreTrue
    <3> QED
      BY <1>1, <1>2, <2>1, <2>2, <2>3, <2>4, <3>1, TrueProcessExitInv
  <2>5. CASE ~IsOver(h)
    <3>1. FlagsAreTrue' /\ BufferIsWhatWasRead'
      BY <1>1, <1>2, <1>7, <2>1, <2>2, <2>3, <2>5
         DEF FlagsAreTrue, BufferIsWhatWasRead, IsOver
    <3> QED BY <1>1, <1>4, <1>6, <2>1, <2>2, <2>3, <2>5, <3>1, QuietCallbackInv
  <2> QED BY <2>4, <2>5
<1> QED BY <1>8, <1>9, <1>10, <1>11, <1>12 DEF Callback

----------------------------------------------------------------------------
(* The theorems *)

\* The inductive invariant holds in every reachable state.
THEOREM SubprocessInvariant == Spec => []SubprocessInv
<1>1. SubprocessInv /\ [Next]_vars => SubprocessInv'
  <2> SUFFICES ASSUME SubprocessInv, [Next]_vars PROVE SubprocessInv'
    OBVIOUS
  <2>1. CASE UNCHANGED vars
    BY <2>1 DEF vars, SubprocessInv, SubprocessTypeOK, IdleAtFirst, FlagsAreTrue,
       BufferIsWhatWasRead, PendingHasHandler, SettledTruthfully, Current, IsOver
  <2> QED BY <2>1, RunInv, ChildStepInv, CallbackInv DEF Next
<1> QED BY <1>1, InitInv, PTL DEF Spec

\* The variables of the runner have their types, and a handler that has both
\* the exit and the end of the output is no longer running.
THEOREM SubprocessTypes == Spec => []SubprocessTypeOK
BY SubprocessInvariant, PTL DEF SubprocessInv

\* Only the newest call of Run can be pending, and it is exactly as long as its
\* handler runs: no promise is forgotten by TrueProcessExit or by the call that
\* replaces the handler.
THEOREM NoForgottenPromise == Spec => []PendingHasHandler
BY SubprocessInvariant, PTL DEF SubprocessInv

\* A settled call has the whole output of its child and its true exit, in
\* whichever order ReadCalled and ProcessExited were called.
THEOREM SettledCallsAreTrue == Spec => []SettledTruthfully
BY SubprocessInvariant, PTL DEF SubprocessInv

=============================================================================
