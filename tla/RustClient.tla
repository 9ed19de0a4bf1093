----------------------------- MODULE RustClient -----------------------------
(***************************************************************************)
(* SysadminClient of src/clients/rust/src/lib.rs on its connection: one    *)
(* call at a time, with timeouts, cut frames, and late answers.            *)
(*                                                                         *)
(* A frame is two units, its size and its body, so that it can be cut      *)
(* anywhere that matters.  The call that send is making owns the socket;   *)
(* the daemon and the network take their steps in between.                 *)
(***************************************************************************)
EXTENDS Integers, Sequences

CONSTANTS
    Timeouts,          \* the durations that callers set, 0 among them
    DefaultTimeout,    \* DEFAULT_COMMAND_TIMEOUT
    MaxCalls           \* bounds the number of calls

ASSUME ClientAssumption ==
    /\ Timeouts \subseteq Nat
    /\ DefaultTimeout \in Timeouts \ {0}
    /\ MaxCalls \in Nat

VARIABLES
    timeout,     \* self.timeout
    stream,      \* self.stream is Some
    limit,       \* the read and write timeout of the socket; 0 would be none
    phase,       \* where send is; "idle" between calls
    calls,       \* how many calls have been made
    up,          \* the units on their way to the daemon
    open,        \* the daemon has not closed its end
    pending,     \* the calls that the daemon works on
    back,        \* the units from the daemon that send has not used yet:
    arrived,     \*   how many of them have reached the client's socket,
    buffered,    \*   and how many of these are in the CodedInputStream
    outcome,     \* of the last call: 0 (none), Failed, or the call that was answered
    told,        \* the calls whose answers have been returned
    failed       \* a call has failed since connect

vars == <<timeout, stream, limit, phase, calls, up, open, pending, back, arrived,
          buffered, outcome, told, failed>>

clientVars == <<timeout, stream, limit>>

historyVars == <<outcome, told, failed>>

\* The connection, as the daemon's steps change it.
channel == <<up, open, pending, back, arrived, buffered>>

Failed == -1

Size(n) == [call |-> n, part |-> "size"]

Body(n) == [call |-> n, part |-> "body"]

\* SysadminClient::new, and Default.
Init ==
    /\ timeout \in Timeouts
    /\ stream = FALSE
    /\ limit = 0
    /\ phase = "idle"
    /\ calls = 0
    /\ up = <<>>
    /\ open = FALSE
    /\ pending = {}
    /\ back = <<>>
    /\ arrived = 0
    /\ buffered = 0
    /\ outcome = 0
    /\ told = {}
    /\ failed = FALSE

----------------------------------------------------------------------------
(* Between calls *)

\* Mutant of Connect: a client that has a stream keeps it.
ConnectOnce ==
    /\ phase = "idle"
    /\ timeout # 0
    /\ stream' = TRUE
    /\ limit' = timeout
    /\ IF stream THEN UNCHANGED channel
       ELSE /\ open' = TRUE
            /\ UNCHANGED <<up, pending, back, arrived, buffered>>
    /\ outcome' = 0
    /\ failed' = FALSE
    /\ UNCHANGED <<timeout, phase, calls, told>>

\* connect: a timeout of zero is refused by the socket, and then, as after any
\* other error, the stream that was there stays.
Connect ==
    /\ phase = "idle"
    /\ timeout # 0
    /\ stream' = TRUE
    /\ limit' = timeout
    /\ up' = <<>>
    /\ open' = TRUE
    /\ pending' = {}
    /\ back' = <<>>
    /\ arrived' = 0
    /\ buffered' = 0
    /\ outcome' = 0
    /\ failed' = FALSE
    /\ UNCHANGED <<timeout, phase, calls, told>>

\* Mutant of SetTimeout: the socket keeps the timeout that it was connected with.
SetTimeoutLater(t) ==
    /\ phase = "idle"
    /\ stream
    /\ timeout' = t
    /\ UNCHANGED <<stream, limit, phase, calls, channel, historyVars>>

\* Mutant of SetTimeout: zero means that there is no timeout.
SetTimeoutUnchecked(t) ==
    /\ phase = "idle"
    /\ stream
    /\ timeout' = t
    /\ limit' = t
    /\ UNCHANGED <<stream, phase, calls, channel, historyVars>>

\* set_timeout: self.timeout is set before the socket refuses a zero.
SetTimeout(t) ==
    /\ phase = "idle"
    /\ stream
    /\ timeout' = t
    /\ limit' = IF t = 0 THEN limit ELSE t
    /\ UNCHANGED <<stream, phase, calls, channel, historyVars>>

\* reset_timeout_to_default
ResetTimeoutToDefault == SetTimeout(DefaultTimeout)

----------------------------------------------------------------------------
(* send *)

Begin ==
    /\ phase = "idle"
    /\ calls < MaxCalls
    /\ phase' = "begun"
    /\ calls' = calls + 1
    /\ outcome' = 0
    /\ UNCHANGED <<clientVars, channel, told, failed>>

\* How a call returns an error: the stream stays what it is, and what the
\* CodedInputStream has read from it is gone.
Abandon ==
    /\ phase' = "idle"
    /\ outcome' = Failed
    /\ failed' = TRUE
    /\ back' = SubSeq(back, buffered + 1, Len(back))
    /\ arrived' = arrived - buffered
    /\ buffered' = 0
    /\ UNCHANGED <<clientVars, calls, up, open, pending, told>>

\* There is no stream, or one of the two writes fails.
NotSent ==
    /\ phase \in {"begun", "sized"}
    /\ Abandon

WriteSize ==
    /\ phase = "begun"
    /\ stream
    /\ phase' = "sized"
    /\ up' = Append(up, Size(calls))
    /\ UNCHANGED <<clientVars, calls, open, pending, back, arrived, buffered, historyVars>>

WriteBody ==
    /\ phase = "sized"
    /\ phase' = "peeking"
    /\ up' = Append(up, Body(calls))
    /\ UNCHANGED <<clientVars, calls, open, pending, back, arrived, buffered, historyVars>>

\* There will be no more bytes from the daemon.
AtEnd == ~open /\ arrived = Len(back)

\* peek sees the first bytes of any answer, and the end of the stream as well.
Peek ==
    /\ phase = "peeking"
    /\ arrived > 0 \/ AtEnd
    /\ phase' = "reading size"
    /\ UNCHANGED <<clientVars, calls, channel, historyVars>>

\* The CodedInputStream has used up what it has and reads what is there: as
\* much as fits, be it of the next answers.
Fill ==
    /\ phase \in {"reading size", "reading body"}
    /\ buffered = 0
    /\ buffered' \in 1..arrived
    /\ UNCHANGED <<clientVars, phase, calls, up, open, pending, back, arrived, historyVars>>

\* The next four bytes are taken for a size.  Those of a body are far larger
\* than any answer, and the read of the body then takes all that arrives.
ReadSize ==
    /\ phase = "reading size"
    /\ buffered > 0
    /\ phase' = IF Head(back).part = "size" THEN "reading body" ELSE "lost"
    /\ back' = Tail(back)
    /\ arrived' = arrived - 1
    /\ buffered' = buffered - 1
    /\ UNCHANGED <<clientVars, calls, up, open, pending, historyVars>>

\* The answer is complete and is returned, whichever call it answers; the
\* CodedInputStream is dropped with what it has read beyond it.
ReadBody ==
    /\ phase = "reading body"
    /\ buffered > 0
    /\ phase' = "idle"
    /\ outcome' = Head(back).call
    /\ told' = told \cup {Head(back).call}
    /\ back' = SubSeq(back, buffered + 1, Len(back))
    /\ arrived' = arrived - buffered
    /\ buffered' = 0
    /\ UNCHANGED <<clientVars, calls, up, open, pending, failed>>

Swallow ==
    /\ phase = "lost"
    /\ arrived > 0
    /\ back' = SubSeq(back, arrived + 1, Len(back))
    /\ arrived' = 0
    /\ buffered' = 0
    /\ UNCHANGED <<clientVars, phase, calls, up, open, pending, historyVars>>

\* A peek or a read waits for bytes until the socket's timeout, if it has one,
\* or finds the end of the stream.
GiveUp ==
    /\ phase \in {"peeking", "reading size", "reading body", "lost"}
    /\ arrived = 0
    /\ limit # 0 \/ AtEnd
    /\ Abandon

----------------------------------------------------------------------------
(* The daemon and the network *)

\* The daemon has a whole frame.
Receive ==
    /\ open
    /\ Len(up) >= 2
    /\ up[1].part = "size"
    /\ up[2] = Body(up[1].call)
    /\ pending' = pending \cup {up[1].call}
    /\ up' = Tail(Tail(up))
    /\ UNCHANGED <<clientVars, phase, calls, open, back, arrived, buffered, historyVars>>

\* A frame that was cut takes the following bytes for its own, and what comes
\* after them is taken for a size, wherever it is.  Nothing is answered then, but
\* the daemon goes on, and may come to where a frame begins.
Misread ==
    /\ open
    /\ up # <<>>
    /\ \/ up[1].part = "body"
       \/ Len(up) >= 2 /\ up[2] # Body(up[1].call)
    /\ \E k \in 1..Len(up) : up' = SubSeq(up, k + 1, Len(up))
    /\ UNCHANGED <<clientVars, phase, calls, open, pending, back, arrived, buffered, historyVars>>

\* It answers in the order in which the handlers are done.
Answer(n) ==
    /\ open
    /\ n \in pending
    /\ pending' = pending \ {n}
    /\ back' = back \o <<Size(n), Body(n)>>
    /\ UNCHANGED <<clientVars, phase, calls, up, open, arrived, buffered, historyVars>>

Deliver ==
    /\ arrived < Len(back)
    /\ arrived' = arrived + 1
    /\ UNCHANGED <<clientVars, phase, calls, up, open, pending, back, buffered, historyVars>>

\* The daemon ends; what it has not answered it never will, and the last of
\* its answers may be cut.
Close ==
    /\ open
    /\ open' = FALSE
    /\ pending' = {}
    /\ \E k \in arrived..Len(back) : back' = SubSeq(back, 1, k)
    /\ UNCHANGED <<clientVars, phase, calls, up, arrived, buffered, historyVars>>

----------------------------------------------------------------------------

InCall ==
    \/ NotSent \/ WriteSize \/ WriteBody \/ Peek \/ Fill \/ ReadSize \/ ReadBody
    \/ Swallow \/ GiveUp

Next ==
    \/ Connect
    \/ \E t \in Timeouts : SetTimeout(t)
    \/ ResetTimeoutToDefault
    \/ Begin
    \/ InCall
    \/ Receive
    \/ Misread
    \/ \E n \in pending : Answer(n)
    \/ Deliver
    \/ Close

\* The thread that makes a call goes on with it; nothing is asked of the daemon
\* or of the network.
Spec == Init /\ [][Next]_vars /\ WF_vars(InCall)

----------------------------------------------------------------------------
(* Properties *)

Units == {Size(n) : n \in 1..MaxCalls} \cup {Body(n) : n \in 1..MaxCalls}

\* The types of the variables; less has reached the CodedInputStream than the
\* socket, and less the socket than was sent.
RustClientTypeOK ==
    /\ timeout \in Timeouts
    /\ stream \in BOOLEAN
    /\ limit \in Timeouts \cup {0}
    /\ phase \in {"idle", "begun", "sized", "peeking", "reading size", "reading body", "lost"}
    /\ calls \in 0..MaxCalls
    /\ up \in Seq(Units)
    /\ open \in BOOLEAN
    /\ pending \subseteq 1..calls
    /\ back \in Seq(Units)
    /\ arrived \in 0..Len(back)
    /\ buffered \in 0..arrived
    /\ outcome \in {0, Failed} \cup 1..MaxCalls
    /\ told \subseteq 1..calls
    /\ failed \in BOOLEAN

\* A socket that a call uses always has a timeout, and it is the client's unless
\* a caller asked for zero: no sequence of connect and set_timeout, failed ones
\* included, leaves a socket that waits for ever.
SocketHasTimeout ==
    stream => limit # 0 /\ (timeout # 0 => limit = timeout)

\* A connection on which no call has failed is clean between calls: no request,
\* and no part of an answer, is left on the way for a later call to meet.
NothingLeftBehind ==
    phase = "idle" /\ ~failed => up = <<>> /\ pending = {} /\ back = <<>>

\* The client keeps the promise of BlockingCalls: until a call fails, each one
\* returns its own answer; after that the answer of another call may be
\* returned, but none is returned twice, until connect.
Promise == INSTANCE BlockingCalls WITH
    busy <- phase # "idle", trusted <- ~failed

PromiseKept == Promise!Spec

\* Every call returns, be the daemon gone or silent.
EveryCallReturns == phase # "idle" ~> phase = "idle"

=============================================================================
