---------------------------- MODULE Connections ----------------------------
(***************************************************************************)
(* Requests and answers over connections that come and go: the server's    *)
(* protocol objects (TcpServer, ProtobufOneofProtocol, OneofDispatcher of  *)
(* src/decibel-cpp), the kinds of handlers of SysAdminController, and the  *)
(* blocking Python and Rust clients.                                       *)
(*                                                                         *)
(* A request is answered in the read that brings it, or when its hooks are *)
(* done, or never.  Meanwhile its client may give up, send another request *)
(* over the same connection, or close it; and a protocol object of another *)
(* connection may be put at the address of one that was destroyed.         *)
(***************************************************************************)
EXTENDS Naturals, Sequences

CONSTANTS
    Client,        \* the client objects
    ChecksId,      \* those that compare the id of an answer (Python)
    HasTimeout,    \* those whose sockets have a timeout
    Address,       \* where protocol objects may be allocated
    MaxConns,      \* bound on the connections of a behaviour
    MaxRequests    \* bound on the requests of a behaviour

ASSUME ConnectionsAssumption ==
    /\ ChecksId \subseteq Client
    /\ HasTimeout \subseteq Client
    /\ MaxConns \in Nat
    /\ MaxRequests \in Nat

VARIABLES
    conns,     \* the connections so far, with what is under way on each
    pending,   \* the futures that HandleMessage waits for
    call,      \* what each client is doing
    asked,     \* the connection over which each request was sent
    lost       \* the requests that will have no answer

vars == <<conns, pending, call, asked, lost>>

----------------------------------------------------------------------------

\* A request is known by its number n; id is what is written on the wire.
\* "reply" is answered at once and "hooks" when processes end; "error" has no
\* payload with a registered handler, or its handler throws.
Kind == {"reply", "hooks", "error"}

Request == [n : Nat, id : Nat, kind : Kind]

Answer == [n : Nat, id : Nat]

Conn == [addr : Address,
         up : Seq(Request), down : Seq(Answer),   \* written, and not read yet
         open : BOOLEAN,      \* the client's end
         alive : BOOLEAN,     \* the protocol object exists: *mValidThis
         gaveUp : BOOLEAN]    \* a call over it failed before its answer came

NewConn(addr) ==
    [addr |-> addr, up |-> <<>>, down |-> <<>>,
     open |-> TRUE, alive |-> TRUE, gaveUp |-> FALSE]

\* The connection of a client object, the request that it waits for or the
\* last one, and the request to which the returned answer belongs.
Call == [conn : Nat, state : {"idle", "waiting", "raised"}, n : Nat, got : Nat]

NoCall == [conn |-> 0, state |-> "idle", n |-> 0, got |-> 0]

\* A continuation of HandleMessage: it captures the protocol object and the
\* flag of that object.
Future == [conn : Nat, addr : Address, answer : Answer]

Init ==
    /\ conns = <<>>
    /\ pending = {}
    /\ call = [c \in Client |-> NoCall]
    /\ asked = <<>>
    /\ lost = {}

----------------------------------------------------------------------------
(* The clients *)

FreeWhenClosed ==
    Address \ {conns[i].addr : i \in {j \in DOMAIN conns : conns[j].open}}

\* An object is allocated where none of the living ones is.
Free == Address \ {conns[i].addr : i \in {j \in DOMAIN conns : conns[j].alive}}

Closed(i) ==
    [j \in DOMAIN conns |->
        IF j = i THEN [conns[j] EXCEPT !.open = FALSE, !.down = <<>>] ELSE conns[j]]

\* A client connects, for the first time or again, and the server constructs a
\* protocol object for the connection.
Connect(c, addr) ==
    /\ Len(conns) < MaxConns
    /\ call[c].state # "waiting"
    /\ addr \in Free
    /\ conns' = Append(Closed(call[c].conn), NewConn(addr))
    /\ call' = [call EXCEPT ![c] = [NoCall EXCEPT !.conn = Len(conns) + 1]]
    /\ UNCHANGED <<pending, asked, lost>>

\* The client is done, or its process ends in the middle of a call.
Close(c) ==
    /\ call[c].conn # 0
    /\ conns' = Closed(call[c].conn)
    /\ call' = [call EXCEPT ![c] = NoCall]
    /\ UNCHANGED <<pending, asked, lost>>

\* Python draws a random id for every request (taken to differ), Rust uses the
\* same id for all.
WireId(c, n) == IF c \in ChecksId THEN n ELSE 0

\* What is written to a connection that the server has closed is lost.
Send(c, kind) ==
    LET n == Len(asked) + 1
        i == call[c].conn
    IN  /\ n <= MaxRequests
        /\ i # 0 /\ call[c].state # "waiting"
        /\ conns' = [conns EXCEPT ![i].up =
                        IF conns[i].alive
                        THEN Append(@, [n |-> n, id |-> WireId(c, n), kind |-> kind])
                        ELSE @]
        /\ call' = [call EXCEPT ![c] =
                       [conn |-> i, state |-> "waiting", n |-> n, got |-> 0]]
        /\ asked' = Append(asked, i)
        /\ UNCHANGED <<pending, lost>>

ReturnedUnchecked(c, answer) ==
    [call[c] EXCEPT !.state = "idle", !.got = answer.n]

\* The call returns the answer that was read; Python asserts that it has the
\* id of the request.
Returned(c, answer) ==
    IF c \in ChecksId /\ answer.id # WireId(c, call[c].n)
    THEN [call[c] EXCEPT !.state = "raised"]
    ELSE [call[c] EXCEPT !.state = "idle", !.got = answer.n]

ReceivePeeking(c) ==
    LET i == call[c].conn
    IN  /\ call[c].state = "waiting"
        /\ conns[i].down # <<>>
        /\ call' = [call EXCEPT ![c] = Returned(c, Head(conns[i].down))]
        /\ UNCHANGED <<conns, pending, asked, lost>>

Receive(c) ==
    LET i == call[c].conn
    IN  /\ call[c].state = "waiting"
        /\ conns[i].down # <<>>
        /\ call' = [call EXCEPT ![c] = Returned(c, Head(conns[i].down))]
        /\ conns' = [conns EXCEPT ![i].down = Tail(@)]
        /\ UNCHANGED <<pending, asked, lost>>

\* The read times out; the connection stays as it is.
Timeout(c) ==
    /\ c \in HasTimeout
    /\ call[c].state = "waiting"
    /\ call' = [call EXCEPT ![c].state = "raised"]
    /\ conns' = [conns EXCEPT ![call[c].conn].gaveUp = TRUE]
    /\ UNCHANGED <<pending, asked, lost>>

\* The server has closed the connection: the read fails, and what was under way
\* may be gone with it.
ReadEnds(c) ==
    LET i == call[c].conn
    IN  /\ call[c].state = "waiting"
        /\ ~conns[i].alive
        /\ call' = [call EXCEPT ![c].state = "raised"]
        /\ conns' = [conns EXCEPT ![i].gaveUp = TRUE, ![i].down = <<>>]
        /\ UNCHANGED <<pending, asked, lost>>

----------------------------------------------------------------------------
(* The server *)

\* Writing to a connection that the client has closed has no effect.
Delivered(i, answer) ==
    [conns EXCEPT ![i].down = IF conns[i].open THEN Append(@, answer) ELSE @]

AnswerTo(request) == [n |-> request.n, id |-> request.id]

Dispatch(i, request, rest) ==
    \/ /\ request.kind = "reply"
       /\ conns' = [Delivered(i, AnswerTo(request)) EXCEPT ![i].up = rest]
       /\ UNCHANGED <<pending, lost>>
    \/ /\ request.kind = "hooks"
       /\ pending' = pending \cup {[conn |-> i, addr |-> conns[i].addr,
                                    answer |-> AnswerTo(request)]}
       /\ conns' = [conns EXCEPT ![i].up = rest]
       /\ UNCHANGED lost
    \/ /\ request.kind = "error"
       /\ lost' = lost \cup {request.n}
       /\ conns' = [conns EXCEPT ![i].up = rest]
       /\ UNCHANGED pending

HandleMessage(i) ==
    /\ conns[i].alive
    /\ conns[i].up # <<>>
    /\ Dispatch(i, Head(conns[i].up), Tail(conns[i].up))
    /\ UNCHANGED <<call, asked>>

\* The end of the stream, an error that discards what was not read, or a read
\* of nothing while the client still has its end open: the protocol object is
\* destroyed, and the connection closed.
ConnectionLost(i) ==
    /\ conns[i].alive
    /\ conns' = [conns EXCEPT ![i].alive = FALSE, ![i].up = <<>>]
    /\ UNCHANGED <<pending, call, asked, lost>>

\* The objects to which a continuation may write.
AnyoneThere(f) == {i \in DOMAIN conns : conns[i].alive /\ conns[i].addr = f.addr}

StillThere(f) == {f.conn} \cap {i \in DOMAIN conns : conns[i].alive}

HooksEndSilently(f) == UNCHANGED <<conns, lost>>

\* The handlers turn a failure of the hooks into an answer like a success.
HooksEnd(f) ==
    /\ \/ StillThere(f) = {} /\ UNCHANGED conns
       \/ \E i \in StillThere(f) : conns' = Delivered(i, f.answer)
    /\ UNCHANGED lost

\* Any other exception passes all handlers.
HooksBreak(f) ==
    /\ lost' = lost \cup {f.answer.n}
    /\ UNCHANGED conns

FutureCompletes(f) ==
    /\ pending' = pending \ {f}
    /\ HooksEnd(f) \/ HooksBreak(f)
    /\ UNCHANGED <<call, asked>>

----------------------------------------------------------------------------

ClientStep(c) ==
    \/ \E addr \in Address : Connect(c, addr)
    \/ Close(c)
    \/ \E kind \in Kind : Send(c, kind)
    \/ Receive(c)
    \/ Timeout(c)
    \/ ReadEnds(c)

ServerStep ==
    \/ \E i \in DOMAIN conns : HandleMessage(i) \/ ConnectionLost(i)
    \/ \E f \in pending : FutureCompletes(f)

Next == (\E c \in Client : ClientStep(c)) \/ ServerStep

Spec == Init /\ [][Next]_vars

\* The loop reads what has arrived and processes end; a blocking read returns
\* when there is something to read, at its timeout, or when the connection is
\* closed.
Fairness ==
    /\ \A i \in 1..MaxConns : WF_vars(i \in DOMAIN conns /\ HandleMessage(i))
    /\ \A n \in 1..MaxRequests :
          WF_vars(\E f \in pending : f.answer.n = n /\ FutureCompletes(f))
    /\ \A c \in Client : WF_vars(Receive(c)) /\ WF_vars(Timeout(c)) /\ WF_vars(ReadEnds(c))

FairSpec == Spec /\ Fairness

----------------------------------------------------------------------------
(* Properties *)

Numbers(s) == {s[k].n : k \in DOMAIN s}

\* The requests of a connection that are waiting to be read, handled or
\* returned.
Outstanding(i) ==
    Numbers(conns[i].up) \cup Numbers(conns[i].down)
        \cup {f.answer.n : f \in {g \in pending : g.conn = i}}

\* The variables have their types, and no two protocol objects that exist at
\* the same time are at the same address.
ConnectionsTypeOK ==
    /\ conns \in Seq(Conn) /\ Len(conns) <= MaxConns
    /\ pending \subseteq Future
    /\ call \in [Client -> Call]
    /\ asked \in Seq(DOMAIN conns) /\ Len(asked) <= MaxRequests
    /\ lost \subseteq DOMAIN asked
    /\ \A i, j \in DOMAIN conns :
          conns[i].alive /\ conns[j].alive /\ conns[i].addr = conns[j].addr => i = j

\* An answer is written to the connection that the request came from, however
\* late, and never to another one at the address of a destroyed protocol object.
AnswersBelong ==
    \A i \in DOMAIN conns : \A n \in Outstanding(i) : asked[n] = i

\* What a call returns is the answer to its own request, unless a client that
\* does not compare ids has given up on a request of this connection before.
AcceptedIsOwn ==
    \A c \in Client : call[c].got # 0 =>
        \/ call[c].got = call[c].n
        \/ c \notin ChecksId /\ conns[call[c].conn].gaveUp

\* As long as nobody gave up on a connection, requests and answers are in step:
\* nothing is outstanding but the request that its client waits for.
InStep ==
    \A i \in DOMAIN conns : conns[i].open /\ ~conns[i].gaveUp =>
        \A n \in Outstanding(i) :
            \E c \in Client : call[c].conn = i /\ call[c].state = "waiting"
                                 /\ call[c].n = n

\* A call returns, or raises an exception, unless its request has no answer and
\* its client has no timeout.
CallsReturn ==
    \A c \in Client :
        (call[c].state = "waiting")
            ~> \/ call[c].state # "waiting"
               \/ c \notin HasTimeout /\ call[c].n \in lost

============================================================================
