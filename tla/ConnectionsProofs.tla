------------------------- MODULE ConnectionsProofs -------------------------
(***************************************************************************)
(* Proofs about Connections, for any number of clients, connections,       *)
(* addresses and requests.                                                 *)
(***************************************************************************)
EXTENDS Connections, TLAPS

----------------------------------------------------------------------------
(* The inductive invariant *)

\* Message m of connection i was asked for on i, and carries its own id or the
\* one that Rust uses.
Mine(i, m) ==
    /\ m.n \in DOMAIN asked
    /\ asked[m.n] = i
    /\ m.id = 0 \/ m.id = m.n

MessagesBelong ==
    /\ \A i \in DOMAIN conns :
          /\ \A k \in DOMAIN conns[i].up : Mine(i, conns[i].up[k])
          /\ \A k \in DOMAIN conns[i].down : Mine(i, conns[i].down[k])
    /\ \A f \in pending : f.conn \in DOMAIN conns /\ Mine(f.conn, f.answer)

\* A client object has at most one connection, which is open and its own.
CallsFit ==
    /\ \A c \in Client :
          /\ call[c].conn # 0 =>
                call[c].conn \in DOMAIN conns /\ conns[call[c].conn].open
          /\ call[c].state = "waiting" => call[c].conn # 0 /\ call[c].n # 0
          /\ call[c].got # 0 => call[c].conn # 0
    /\ \A c, d \in Client : call[c].conn = call[d].conn /\ call[c].conn # 0 => c = d

\* Whether client c waits for request n of connection i
WaitsFor(c, i, n) ==
    call[c].conn = i /\ call[c].state = "waiting" /\ call[c].n = n

\* On a connection that nobody gave up on there is at most one message, and
\* its client waits for it.
AtMostOne(i) ==
    /\ Len(conns[i].up) + Len(conns[i].down) <= 1
    /\ \A f \in pending : f.conn = i => conns[i].up = <<>> /\ conns[i].down = <<>>
    /\ \A f, g \in pending : f.conn = i /\ g.conn = i => f = g
    /\ \A k \in DOMAIN conns[i].up : \E c \in Client : WaitsFor(c, i, conns[i].up[k].n)
    /\ \A k \in DOMAIN conns[i].down :
          \E c \in Client : WaitsFor(c, i, conns[i].down[k].n)
    /\ \A f \in pending :
          f.conn = i => \E c \in Client : WaitsFor(c, i, f.answer.n)

OneAtATime ==
    \A i \in DOMAIN conns : conns[i].open /\ ~conns[i].gaveUp => AtMostOne(i)

IInv ==
    /\ ConnectionsTypeOK
    /\ MessagesBelong
    /\ CallsFit
    /\ OneAtATime
    /\ AcceptedIsOwn

----------------------------------------------------------------------------
(* Sequences *)

\* The elements of a sequence after an element is added at its end.
LEMMA AppendElements ==
    ASSUME NEW S, NEW s \in Seq(S), NEW e \in S
    PROVE  /\ Append(s, e) \in Seq(S)
           /\ Len(Append(s, e)) = Len(s) + 1
           /\ \A k \in DOMAIN Append(s, e) :
                 Append(s, e)[k] = e \/ (k \in DOMAIN s /\ Append(s, e)[k] = s[k])
           /\ \A k \in DOMAIN s : k \in DOMAIN Append(s, e) /\ Append(s, e)[k] = s[k]
  OBVIOUS

\* The elements of a sequence after its first one is taken.
LEMMA TailElements ==
    ASSUME NEW S, NEW s \in Seq(S), s # <<>>
    PROVE  /\ Tail(s) \in Seq(S)
           /\ Head(s) \in S
           /\ 1 \in DOMAIN s /\ Head(s) = s[1]
           /\ Len(Tail(s)) = Len(s) - 1
           /\ Len(s) # 0
           /\ \A k \in DOMAIN Tail(s) : k + 1 \in DOMAIN s /\ Tail(s)[k] = s[k + 1]
  OBVIOUS

\* A sequence without indices is empty.
LEMMA NoElements ==
    ASSUME NEW S, NEW s \in Seq(S), DOMAIN s = {}
    PROVE  s = <<>> /\ Len(s) = 0
  <1>1. Len(s) \in Nat /\ DOMAIN s = 1..Len(s)
    OBVIOUS
  <1>2. Len(s) = 0
    BY <1>1
  <1> QED
    BY <1>2

\* Of two sequences with one element at most, one is empty, and the other one is
\* when its first element is taken.
LEMMA OnlyElement ==
    ASSUME NEW S, NEW s \in Seq(S), NEW T, NEW t \in Seq(T),
           Len(s) + Len(t) <= 1 \/ Len(t) + Len(s) <= 1, s # <<>>
    PROVE  t = <<>> /\ Tail(s) = <<>>
  <1>1. /\ Tail(s) \in Seq(S) /\ Len(Tail(s)) = Len(s) - 1
        /\ Len(s) # 0
    BY TailElements
  <1>2. Len(s) \in Nat /\ Len(t) \in Nat
    OBVIOUS
  <1> PICK a \in Nat, b \in Nat : a = Len(s) /\ b = Len(t)
    BY <1>2
  <1>3. a + b <= 1 \/ b + a <= 1
    OBVIOUS
  <1>4. a # 0
    BY <1>1
  <1>5. a = 1 /\ b = 0
    BY <1>3, <1>4
  <1>6. Len(t) = 0 /\ Len(Tail(s)) = 0
    BY <1>1, <1>5
  <1>7. DOMAIN t = {} /\ DOMAIN Tail(s) = {}
    BY <1>1, <1>6
  <1> QED
    BY <1>1, <1>7, NoElements

\* When there is one element at most, there is one at most in either sequence.
LEMMA FewInOne ==
    ASSUME NEW S, NEW s \in Seq(S), NEW T, NEW t \in Seq(T), Len(s) + Len(t) <= 1
    PROVE  Len(t) <= 1
  <1> PICK a \in Nat, b \in Nat : a = Len(s) /\ b = Len(t)
    OBVIOUS
  <1>1. a + b <= 1
    OBVIOUS
  <1>2. b <= 1
    BY <1>1
  <1> QED
    BY <1>2

\* In the initial state there is nothing.
LEMMA InitInv == Init => IInv
  <1>1. Init => ConnectionsTypeOK
    BY ConnectionsAssumption DEF Init, ConnectionsTypeOK, NoCall, Call
  <1>2. Init => MessagesBelong /\ CallsFit /\ OneAtATime /\ AcceptedIsOwn
    BY DEF Init, MessagesBelong, CallsFit, OneAtATime, AcceptedIsOwn, NoCall
  <1> QED
    BY <1>1, <1>2 DEF IInv

----------------------------------------------------------------------------
(* What an action does to one connection *)

\* The types of one connection, spelled out.
LEMMA ConnFields ==
    ASSUME ConnectionsTypeOK, NEW i \in DOMAIN conns
    PROVE  /\ conns[i] \in Conn
           /\ conns[i].addr \in Address
           /\ conns[i].up \in Seq(Request)
           /\ conns[i].down \in Seq(Answer)
           /\ conns[i].open \in BOOLEAN
           /\ conns[i].alive \in BOOLEAN
           /\ conns[i].gaveUp \in BOOLEAN
  <1>1. conns[i] \in Conn
    BY DEF ConnectionsTypeOK
  <1> QED
    BY <1>1 DEF Conn

\* Replacing one connection by another one at the same address that does not
\* come to life keeps the type of conns.
LEMMA UpdateType ==
    ASSUME ConnectionsTypeOK,
           NEW i \in DOMAIN conns, NEW conn \in Conn,
           conn.addr = conns[i].addr,
           conn.alive => conns[i].alive,
           conns' = [conns EXCEPT ![i] = conn]
    PROVE  /\ conns' \in Seq(Conn)
           /\ Len(conns') = Len(conns)
           /\ DOMAIN conns' = DOMAIN conns
           /\ conns'[i] = conn
           /\ \A j \in DOMAIN conns : j # i => conns'[j] = conns[j]
           /\ \A j, k \in DOMAIN conns' :
                 conns'[j].alive /\ conns'[k].alive /\ conns'[j].addr = conns'[k].addr
                     => j = k
  <1>1. conns \in Seq(Conn)
    BY DEF ConnectionsTypeOK
  <1>2. /\ conns' \in Seq(Conn)
        /\ Len(conns') = Len(conns)
        /\ DOMAIN conns' = DOMAIN conns
        /\ conns'[i] = conn
        /\ \A j \in DOMAIN conns : j # i => conns'[j] = conns[j]
    BY <1>1
  <1> QED
    BY <1>1, <1>2 DEF ConnectionsTypeOK

\* A call of a client that has one is on an open connection.
LEMMA OwnConn ==
    ASSUME IInv, NEW c \in Client, call[c].conn # 0
    PROVE  call[c].conn \in DOMAIN conns /\ conns[call[c].conn].open
  BY DEF IInv, CallsFit

\* CallsFit is about the connections of the calls, and does not mind when they
\* end: the waiting ones may return.
LEMMA CallsKept ==
    ASSUME CallsFit,
           DOMAIN conns' = DOMAIN conns,
           \A j \in DOMAIN conns : conns'[j].open = conns[j].open,
           \A d \in Client :
              /\ call'[d].conn = call[d].conn /\ call'[d].n = call[d].n
              /\ call'[d].state = "waiting" => call[d].state = "waiting"
              /\ call'[d].got # 0 => call[d].got # 0 \/ call[d].state = "waiting"
    PROVE  CallsFit'
  <1>1. ASSUME NEW d \in Client
        PROVE  /\ call'[d].conn # 0 =>
                     call'[d].conn \in DOMAIN conns' /\ conns'[call'[d].conn].open
               /\ call'[d].state = "waiting" => call'[d].conn # 0 /\ call'[d].n # 0
               /\ call'[d].got # 0 => call'[d].conn # 0
    BY <1>1 DEF CallsFit
  <1>2. \A d, e \in Client :
           call'[d].conn = call'[e].conn /\ call'[d].conn # 0 => d = e
    BY DEF CallsFit
  <1> QED
    BY <1>1, <1>2 DEF CallsFit

----------------------------------------------------------------------------
(* One lemma for each action *)

\* Giving up ends the call and marks its connection; the messages stay.
LEMMA TimeoutInv ==
    ASSUME IInv, NEW c \in Client, Timeout(c)
    PROVE  IInv'
  <1> DEFINE i == call[c].conn
             conn == [conns[i] EXCEPT !.gaveUp = TRUE]
  <1>1. i # 0 /\ i \in DOMAIN conns /\ conns[i].open
    BY OwnConn DEF IInv, CallsFit, Timeout
  <1>2. ConnectionsTypeOK
    BY DEF IInv
  <1>3. conn \in Conn /\ conns' = [conns EXCEPT ![i] = conn]
    BY <1>1, <1>2, ConnFields DEF Conn, Timeout
  <1>4. /\ conn.up = conns[i].up /\ conn.down = conns[i].down
        /\ conn.addr = conns[i].addr /\ conn.alive = conns[i].alive
        /\ conn.open = conns[i].open /\ conn.gaveUp
    BY <1>1, <1>2, ConnFields DEF Conn
  <1> HIDE DEF conn
  <1>5. /\ conns' \in Seq(Conn)
        /\ Len(conns') = Len(conns)
        /\ DOMAIN conns' = DOMAIN conns
        /\ conns'[i] = conn
        /\ \A j \in DOMAIN conns : j # i => conns'[j] = conns[j]
        /\ \A j, k \in DOMAIN conns' :
              conns'[j].alive /\ conns'[k].alive /\ conns'[j].addr = conns'[k].addr
                  => j = k
    BY <1>1, <1>2, <1>3, <1>4, UpdateType
  <1>6. /\ call' = [call EXCEPT ![c].state = "raised"]
        /\ call \in [Client -> Call]
        /\ UNCHANGED <<pending, asked, lost>>
    BY <1>2 DEF Timeout, ConnectionsTypeOK
  <1>7. ConnectionsTypeOK'
    BY <1>2, <1>5, <1>6 DEF ConnectionsTypeOK, Call
  <1>8. MessagesBelong'
    BY <1>4, <1>5, <1>6 DEF IInv, MessagesBelong, Mine
  <1>9. \A d \in Client : /\ call'[d].conn = call[d].conn
                          /\ call'[d].n = call[d].n /\ call'[d].got = call[d].got
                          /\ d # c => call'[d] = call[d]
                          /\ call'[c].state = "raised"
    BY <1>6 DEF Call
  <1>10. CallsFit'
    <2>1. \A j \in DOMAIN conns : conns'[j].open = conns[j].open
      BY <1>4, <1>5
    <2> QED
      BY <2>1, <1>5, <1>9, CallsKept DEF IInv
  <1>11. OneAtATime'
    <2> SUFFICES ASSUME NEW j \in DOMAIN conns', conns'[j].open, ~conns'[j].gaveUp
                 PROVE  AtMostOne(j)'
      BY DEF OneAtATime
    <2>1. j # i /\ conns'[j] = conns[j] /\ AtMostOne(j)
      BY <1>4, <1>5 DEF IInv, OneAtATime
    <2>2. \A d \in Client : \A n : WaitsFor(d, j, n) => WaitsFor(d, j, n)'
      BY <2>1, <1>9 DEF WaitsFor
    <2> QED
      BY <2>1, <2>2, <1>6 DEF AtMostOne
  <1>12. AcceptedIsOwn'
    BY <1>1, <1>4, <1>5, <1>9 DEF IInv, AcceptedIsOwn, CallsFit
  <1> QED
    BY <1>7, <1>8, <1>10, <1>11, <1>12 DEF IInv

\* A client whose read fails because the server has closed the connection has
\* given up on it.
LEMMA ReadEndsInv ==
    ASSUME IInv, NEW c \in Client, ReadEnds(c)
    PROVE  IInv'
  <1> DEFINE i == call[c].conn
             conn == [conns[i] EXCEPT !.gaveUp = TRUE, !.down = <<>>]
  <1>1. i # 0 /\ i \in DOMAIN conns /\ conns[i].open
    BY OwnConn DEF IInv, CallsFit, ReadEnds
  <1>2. ConnectionsTypeOK
    BY DEF IInv
  <1>3. conn \in Conn /\ conns' = [conns EXCEPT ![i] = conn]
    <2>1. conns[i] \in Conn /\ <<>> \in Seq(Answer)
      BY <1>1, <1>2, ConnFields
    <2>2. conn \in Conn
      BY <2>1 DEF Conn
    <2>3. conns' = [conns EXCEPT ![i] = conn]
      BY <1>1, <1>2 DEF ReadEnds, ConnectionsTypeOK
    <2> QED
      BY <2>2, <2>3
  <1>4. /\ conn.up = conns[i].up /\ conn.down = <<>>
        /\ conn.addr = conns[i].addr /\ conn.alive = conns[i].alive
        /\ conn.open = conns[i].open /\ conn.gaveUp
    BY <1>1, <1>2, ConnFields DEF Conn
  <1> HIDE DEF conn
  <1>5. /\ conns' \in Seq(Conn)
        /\ Len(conns') = Len(conns)
        /\ DOMAIN conns' = DOMAIN conns
        /\ conns'[i] = conn
        /\ \A j \in DOMAIN conns : j # i => conns'[j] = conns[j]
        /\ \A j, k \in DOMAIN conns' :
              conns'[j].alive /\ conns'[k].alive /\ conns'[j].addr = conns'[k].addr
                  => j = k
    BY <1>1, <1>2, <1>3, <1>4, UpdateType
  <1>6. /\ call' = [call EXCEPT ![c].state = "raised"]
        /\ call \in [Client -> Call]
        /\ UNCHANGED <<pending, asked, lost>>
    BY <1>2 DEF ReadEnds, ConnectionsTypeOK
  <1>7. ConnectionsTypeOK'
    BY <1>2, <1>5, <1>6 DEF ConnectionsTypeOK, Call
  <1>8. MessagesBelong'
    BY <1>4, <1>5, <1>6 DEF IInv, MessagesBelong, Mine
  <1>9. \A d \in Client : /\ call'[d].conn = call[d].conn
                          /\ call'[d].n = call[d].n /\ call'[d].got = call[d].got
                          /\ d # c => call'[d] = call[d]
                          /\ call'[c].state = "raised"
    BY <1>6 DEF Call
  <1>10. CallsFit'
    <2>1. \A j \in DOMAIN conns : conns'[j].open = conns[j].open
      BY <1>4, <1>5
    <2> QED
      BY <2>1, <1>5, <1>9, CallsKept DEF IInv
  <1>11. OneAtATime'
    <2> SUFFICES ASSUME NEW j \in DOMAIN conns', conns'[j].open, ~conns'[j].gaveUp
                 PROVE  AtMostOne(j)'
      BY DEF OneAtATime
    <2>1. j # i /\ conns'[j] = conns[j] /\ AtMostOne(j)
      BY <1>4, <1>5 DEF IInv, OneAtATime
    <2>2. \A d \in Client : \A n : WaitsFor(d, j, n) => WaitsFor(d, j, n)'
      BY <2>1, <1>9 DEF WaitsFor
    <2> QED
      BY <2>1, <2>2, <1>6 DEF AtMostOne
  <1>12. AcceptedIsOwn'
    BY <1>1, <1>4, <1>5, <1>9 DEF IInv, AcceptedIsOwn, CallsFit
  <1> QED
    BY <1>7, <1>8, <1>10, <1>11, <1>12 DEF IInv

\* A connection that loses its protocol object loses what was not read with it.
LEMMA ConnectionLostInv ==
    ASSUME IInv, NEW i \in DOMAIN conns, ConnectionLost(i)
    PROVE  IInv'
  <1> DEFINE conn == [conns[i] EXCEPT !.alive = FALSE, !.up = <<>>]
  <1>1. ConnectionsTypeOK
    BY DEF IInv
  <1>2. conn \in Conn /\ conns' = [conns EXCEPT ![i] = conn]
    <2>1. conns[i] \in Conn /\ <<>> \in Seq(Request)
      BY <1>1, ConnFields
    <2>2. conn \in Conn
      BY <2>1 DEF Conn
    <2>3. conns' = [conns EXCEPT ![i] = conn]
      BY <1>1 DEF ConnectionLost, ConnectionsTypeOK
    <2> QED
      BY <2>2, <2>3
  <1>3. /\ conn.up = <<>> /\ conn.down = conns[i].down
        /\ conn.addr = conns[i].addr /\ ~conn.alive
        /\ conn.open = conns[i].open /\ conn.gaveUp = conns[i].gaveUp
    BY <1>1, ConnFields DEF Conn
  <1> HIDE DEF conn
  <1>4. /\ conns' \in Seq(Conn)
        /\ Len(conns') = Len(conns)
        /\ DOMAIN conns' = DOMAIN conns
        /\ conns'[i] = conn
        /\ \A j \in DOMAIN conns : j # i => conns'[j] = conns[j]
        /\ \A j, k \in DOMAIN conns' :
              conns'[j].alive /\ conns'[k].alive /\ conns'[j].addr = conns'[k].addr
                  => j = k
    BY <1>1, <1>2, <1>3, UpdateType
  <1>5. UNCHANGED <<pending, call, asked, lost>>
    BY DEF ConnectionLost
  <1>6. ConnectionsTypeOK'
    BY <1>1, <1>4, <1>5 DEF ConnectionsTypeOK
  <1>7. MessagesBelong'
    BY <1>3, <1>4, <1>5 DEF IInv, MessagesBelong, Mine
  <1>8. CallsFit'
    <2>1. \A j \in DOMAIN conns : conns'[j].open = conns[j].open
      BY <1>3, <1>4
    <2> QED
      BY <2>1, <1>4, <1>5, CallsKept DEF IInv
  <1>9. OneAtATime'
    <2> SUFFICES ASSUME NEW j \in DOMAIN conns', conns'[j].open, ~conns'[j].gaveUp
                 PROVE  AtMostOne(j)'
      BY DEF OneAtATime
    <2>1. conns[j].open /\ ~conns[j].gaveUp /\ AtMostOne(j)
      BY <1>3, <1>4 DEF IInv, OneAtATime
    <2>2. \A d \in Client : \A n : WaitsFor(d, j, n) => WaitsFor(d, j, n)'
      BY <1>5 DEF WaitsFor
    <2>3. CASE j # i
      <3>1. conns'[j] = conns[j]
        BY <2>3, <1>4
      <3> QED
        BY <3>1, <2>1, <2>2, <1>5 DEF AtMostOne
    <2>4. CASE j = i
      <3>1. conns'[j].up = <<>> /\ conns'[j].down = conns[j].down
        BY <2>4, <1>3, <1>4
      <3>2. conns[j].up \in Seq(Request) /\ conns[j].down \in Seq(Answer)
        BY <1>1, <1>4, ConnFields
      <3> PICK s \in Seq(Request), t \in Seq(Answer) : s = conns[j].up /\ t = conns[j].down
        BY <3>2
      <3>3. Len(s) + Len(t) <= 1
        BY <2>1 DEF AtMostOne
      <3>4. Len(t) <= 1
        BY <3>3, FewInOne
      <3>5. Len(conns'[j].up) + Len(conns'[j].down) <= 1
        <4> PICK b \in Nat : b = Len(t)
          OBVIOUS
        <4>1. Len(conns'[j].up) = 0 /\ Len(conns'[j].down) = b
          BY <3>1
        <4>2. 0 + b <= 1
          BY <3>4
        <4> QED
          BY <4>1, <4>2
      <3>6. DOMAIN conns'[j].up = {}
        BY <3>1
      <3> QED
        BY <3>1, <3>5, <3>6, <2>1, <2>2, <1>5 DEF AtMostOne
    <2> QED
      BY <2>3, <2>4
  <1>10. AcceptedIsOwn'
    BY <1>3, <1>4, <1>5 DEF IInv, AcceptedIsOwn, CallsFit
  <1> QED
    BY <1>6, <1>7, <1>8, <1>9, <1>10 DEF IInv

\* What Closed leaves of the connections.
LEMMA ClosedConns ==
    ASSUME ConnectionsTypeOK, NEW i
    PROVE  /\ Closed(i) \in Seq(Conn)
           /\ Len(Closed(i)) = Len(conns)
           /\ DOMAIN Closed(i) = DOMAIN conns
           /\ \A j \in DOMAIN conns :
                 /\ j # i => Closed(i)[j] = conns[j]
                 /\ Closed(i)[j].addr = conns[j].addr
                 /\ Closed(i)[j].alive = conns[j].alive
                 /\ Closed(i)[j].up = conns[j].up
                 /\ Closed(i)[j].gaveUp = conns[j].gaveUp
           /\ i \in DOMAIN conns => ~Closed(i)[i].open /\ Closed(i)[i].down = <<>>
  <1>1. conns \in Seq(Conn) /\ DOMAIN conns = 1..Len(conns) /\ Len(conns) \in Nat
    BY DEF ConnectionsTypeOK
  <1>2. ASSUME NEW j \in DOMAIN conns
        PROVE  /\ Closed(i)[j] \in Conn
               /\ j # i => Closed(i)[j] = conns[j]
               /\ Closed(i)[j].addr = conns[j].addr
               /\ Closed(i)[j].alive = conns[j].alive
               /\ Closed(i)[j].up = conns[j].up
               /\ Closed(i)[j].gaveUp = conns[j].gaveUp
               /\ j = i => ~Closed(i)[j].open /\ Closed(i)[j].down = <<>>
    <2>1. conns[j] \in Conn
      BY <1>2, ConnFields
    <2>2. CASE j = i
      <3>1. Closed(i)[j] = [conns[j] EXCEPT !.open = FALSE, !.down = <<>>]
        BY <1>2, <2>2 DEF Closed
      <3>2. <<>> \in Seq(Answer)
        OBVIOUS
      <3> DEFINE conn == [conns[j] EXCEPT !.open = FALSE, !.down = <<>>]
      <3>3. /\ conn \in Conn
            /\ conn.addr = conns[j].addr /\ conn.alive = conns[j].alive
            /\ conn.up = conns[j].up /\ conn.gaveUp = conns[j].gaveUp
            /\ ~conn.open /\ conn.down = <<>>
        BY <2>1, <3>2 DEF Conn
      <3> QED
        BY <2>2, <3>1, <3>3
    <2>3. CASE j # i
      <3>1. Closed(i)[j] = conns[j]
        BY <1>2, <2>3 DEF Closed
      <3> QED
        BY <2>1, <2>3, <3>1
    <2> QED
      BY <2>2, <2>3
  <1>3. DOMAIN Closed(i) = DOMAIN conns
    BY DEF Closed
  <1>4. Closed(i) = [j \in 1..Len(conns) |-> Closed(i)[j]]
    BY <1>1 DEF Closed
  <1>5. Closed(i) \in Seq(Conn) /\ Len(Closed(i)) = Len(conns)
    BY <1>1, <1>2, <1>3, <1>4
  <1> QED
    BY <1>2, <1>3, <1>5

\* A client that closes its connection leaves it to nobody.
LEMMA CloseInv ==
    ASSUME IInv, NEW c \in Client, Close(c)
    PROVE  IInv'
  <1> DEFINE i == call[c].conn
  <1>1. ConnectionsTypeOK /\ i # 0 /\ i \in DOMAIN conns
    BY OwnConn DEF IInv, Close
  <1>2. /\ conns' = Closed(i)
        /\ call' = [call EXCEPT ![c] = NoCall]
        /\ UNCHANGED <<pending, asked, lost>>
    BY DEF Close
  <1>3. /\ conns' \in Seq(Conn)
        /\ Len(conns') = Len(conns)
        /\ DOMAIN conns' = DOMAIN conns
        /\ \A j \in DOMAIN conns :
              /\ j # i => conns'[j] = conns[j]
              /\ conns'[j].addr = conns[j].addr
              /\ conns'[j].alive = conns[j].alive
              /\ conns'[j].up = conns[j].up
        /\ ~conns'[i].open /\ conns'[i].down = <<>>
    BY <1>1, <1>2, ClosedConns
  <1>4. call'[c] = NoCall /\ \A d \in Client : d # c => call'[d] = call[d]
    BY <1>1, <1>2 DEF ConnectionsTypeOK
  <1>5. ConnectionsTypeOK'
    <2>1. call' \in [Client -> Call]
      BY <1>1, <1>2 DEF ConnectionsTypeOK, NoCall, Call
    <2> QED
      BY <2>1, <1>1, <1>2, <1>3 DEF ConnectionsTypeOK
  <1>6. MessagesBelong'
    BY <1>1, <1>2, <1>3 DEF IInv, MessagesBelong, Mine
  <1>7. \A d \in Client : d # c /\ call[d].conn # 0 => call[d].conn # i
    BY <1>1 DEF IInv, CallsFit
  <1>8. CallsFit'
    <2>1. ASSUME NEW d \in Client
          PROVE  /\ call'[d].conn # 0 =>
                       call'[d].conn \in DOMAIN conns' /\ conns'[call'[d].conn].open
                 /\ call'[d].state = "waiting" => call'[d].conn # 0 /\ call'[d].n # 0
                 /\ call'[d].got # 0 => call'[d].conn # 0
      BY <2>1, <1>3, <1>4, <1>7 DEF IInv, CallsFit, NoCall
    <2>2. \A d, e \in Client :
             call'[d].conn = call'[e].conn /\ call'[d].conn # 0 => d = e
      BY <1>4 DEF IInv, CallsFit, NoCall
    <2> QED
      BY <2>1, <2>2 DEF CallsFit
  <1>9. OneAtATime'
    <2> SUFFICES ASSUME NEW j \in DOMAIN conns', conns'[j].open, ~conns'[j].gaveUp
                 PROVE  AtMostOne(j)'
      BY DEF OneAtATime
    <2>1. j # i /\ conns'[j] = conns[j] /\ AtMostOne(j)
      BY <1>3 DEF IInv, OneAtATime
    <2>2. \A d \in Client : \A n : WaitsFor(d, j, n) => WaitsFor(d, j, n)'
      BY <2>1, <1>4 DEF WaitsFor
    <2> QED
      BY <2>1, <2>2, <1>2 DEF AtMostOne
  <1>10. AcceptedIsOwn'
    <2> SUFFICES ASSUME NEW d \in Client, call'[d].got # 0
                 PROVE  \/ call'[d].got = call'[d].n
                        \/ d \notin ChecksId /\ conns'[call'[d].conn].gaveUp
      BY DEF AcceptedIsOwn
    <2>1. d # c /\ call'[d] = call[d] /\ conns'[call[d].conn] = conns[call[d].conn]
      BY <1>3, <1>4, <1>7 DEF NoCall, IInv, CallsFit
    <2> QED
      BY <2>1 DEF IInv, AcceptedIsOwn
  <1> QED
    BY <1>5, <1>6, <1>8, <1>9, <1>10 DEF IInv

\* A new connection is empty, and nothing that is pending belongs to it.
LEMMA ConnectInv ==
    ASSUME IInv, NEW c \in Client, NEW addr \in Address, Connect(c, addr)
    PROVE  IInv'
  <1> PICK i, m : i = call[c].conn /\ m = Len(conns) + 1
    OBVIOUS
  <1>1. ConnectionsTypeOK
    BY DEF IInv
  <1>2. /\ conns' = Append(Closed(i), NewConn(addr))
        /\ call' = [call EXCEPT ![c] = [NoCall EXCEPT !.conn = m]]
        /\ UNCHANGED <<pending, asked, lost>>
        /\ addr \in Free /\ Len(conns) < MaxConns
    BY DEF Connect
  <1>3. /\ Closed(i) \in Seq(Conn)
        /\ Len(Closed(i)) = Len(conns)
        /\ DOMAIN Closed(i) = DOMAIN conns
        /\ \A j \in DOMAIN conns :
              /\ j # i => Closed(i)[j] = conns[j]
              /\ Closed(i)[j].addr = conns[j].addr
              /\ Closed(i)[j].alive = conns[j].alive
              /\ Closed(i)[j].up = conns[j].up
              /\ j = i => ~Closed(i)[j].open /\ Closed(i)[j].down = <<>>
    BY <1>1, ClosedConns
  <1>4. /\ NewConn(addr) \in Conn /\ NewConn(addr).addr = addr
        /\ NewConn(addr).up = <<>> /\ NewConn(addr).down = <<>>
        /\ NewConn(addr).open
    <2>1. <<>> \in Seq(Request) /\ <<>> \in Seq(Answer)
      OBVIOUS
    <2> QED
      BY <2>1 DEF NewConn, Conn
  <1>5. /\ conns' \in Seq(Conn)
        /\ Len(conns') = m
        /\ m \notin DOMAIN conns /\ m \in Nat /\ m # 0
        /\ DOMAIN conns' = DOMAIN conns \cup {m}
        /\ conns'[m] = NewConn(addr)
        /\ \A j \in DOMAIN conns : conns'[j] = Closed(i)[j]
    <2>1. conns \in Seq(Conn)
      BY <1>1 DEF ConnectionsTypeOK
    <2> QED
      BY <2>1, <1>2, <1>3, <1>4
  <1>6. \A d \in Client : d # c => call'[d] = call[d]
    BY <1>1, <1>2 DEF ConnectionsTypeOK
  <1>7. /\ call'[c].conn = m /\ call'[c].state = "idle"
        /\ call'[c].n = 0 /\ call'[c].got = 0
    BY <1>1, <1>2 DEF ConnectionsTypeOK, NoCall
  <1>8. ConnectionsTypeOK'
    <2>1. call' \in [Client -> Call]
      BY <1>1, <1>2, <1>5 DEF ConnectionsTypeOK, NoCall, Call
    <2>2. asked' \in Seq(DOMAIN conns')
      BY <1>1, <1>2, <1>5 DEF ConnectionsTypeOK
    <2>3. Len(conns') <= MaxConns
      BY <1>1, <1>2, <1>5, ConnectionsAssumption DEF ConnectionsTypeOK
    <2>4. ASSUME NEW j \in DOMAIN conns', NEW k \in DOMAIN conns',
                 conns'[j].alive, conns'[k].alive, conns'[j].addr = conns'[k].addr
          PROVE  j = k
      <3>1. \A l \in DOMAIN conns : conns[l].alive => conns[l].addr # addr
        BY <1>2 DEF Free
      <3>2. \A l \in DOMAIN conns :
               conns'[l].alive = conns[l].alive /\ conns'[l].addr = conns[l].addr
        BY <1>3, <1>5
      <3>3. conns'[m].addr = addr
        BY <1>4, <1>5
      <3> QED
        BY <2>4, <3>1, <3>2, <3>3, <1>1, <1>5 DEF ConnectionsTypeOK
    <2> QED
      BY <2>1, <2>2, <2>3, <2>4, <1>1, <1>2, <1>5 DEF ConnectionsTypeOK
  <1>9. MessagesBelong'
    <2>1. ASSUME NEW j \in DOMAIN conns'
          PROVE  /\ \A k \in DOMAIN conns'[j].up : Mine(j, conns'[j].up[k])
                 /\ \A k \in DOMAIN conns'[j].down : Mine(j, conns'[j].down[k])
      BY <2>1, <1>3, <1>4, <1>5 DEF IInv, MessagesBelong
    <2>2. \A f \in pending : f.conn \in DOMAIN conns' /\ Mine(f.conn, f.answer)
      BY <1>5 DEF IInv, MessagesBelong
    <2> QED
      BY <2>1, <2>2, <1>2 DEF MessagesBelong, Mine
  <1>10. \A d \in Client : d # c /\ call[d].conn # 0 =>
            /\ call[d].conn # i /\ call[d].conn # m
            /\ call[d].conn \in DOMAIN conns
            /\ conns'[call[d].conn] = conns[call[d].conn]
    BY <1>3, <1>5 DEF IInv, CallsFit
  <1>11. CallsFit'
    <2>1. ASSUME NEW d \in Client
          PROVE  /\ call'[d].conn # 0 =>
                       call'[d].conn \in DOMAIN conns' /\ conns'[call'[d].conn].open
                 /\ call'[d].state = "waiting" => call'[d].conn # 0 /\ call'[d].n # 0
                 /\ call'[d].got # 0 => call'[d].conn # 0
      <3>1. CASE d = c
        BY <3>1, <1>4, <1>5, <1>7
      <3>2. CASE d # c
        BY <2>1, <3>2, <1>5, <1>6, <1>10 DEF IInv, CallsFit
      <3> QED
        BY <3>1, <3>2
    <2>2. ASSUME NEW d \in Client, NEW e \in Client,
                 call'[d].conn = call'[e].conn, call'[d].conn # 0
          PROVE  d = e
      <3>1. CASE d # c /\ e # c
        BY <2>2, <3>1, <1>6 DEF IInv, CallsFit
      <3>2. CASE d = c \/ e = c
        BY <2>2, <3>2, <1>6, <1>7, <1>10
      <3> QED
        BY <3>1, <3>2
    <2> QED
      BY <2>1, <2>2 DEF CallsFit
  <1>12. OneAtATime'
    <2> SUFFICES ASSUME NEW j \in DOMAIN conns', conns'[j].open, ~conns'[j].gaveUp
                 PROVE  AtMostOne(j)'
      BY DEF OneAtATime
    <2>1. CASE j = m
      <3>1. \A f \in pending : f.conn # m
        BY <1>5 DEF IInv, MessagesBelong
      <3> QED
        <4>1. conns'[j].up = <<>> /\ conns'[j].down = <<>>
          BY <2>1, <1>4, <1>5
        <4>2. \A f \in pending' : f.conn # j
          BY <2>1, <3>1, <1>2
        <4> QED
          BY <4>1, <4>2 DEF AtMostOne
    <2>2. CASE j # m
      <3>1. j # i /\ conns'[j] = conns[j] /\ AtMostOne(j)
        BY <2>2, <1>3, <1>5 DEF IInv, OneAtATime
      <3>2. \A d \in Client : \A n : WaitsFor(d, j, n) => WaitsFor(d, j, n)'
        BY <3>1, <1>6 DEF WaitsFor
      <3> QED
        BY <3>1, <3>2, <1>2 DEF AtMostOne
    <2> QED
      BY <2>1, <2>2
  <1>13. AcceptedIsOwn'
    <2> SUFFICES ASSUME NEW d \in Client, call'[d].got # 0
                 PROVE  \/ call'[d].got = call'[d].n
                        \/ d \notin ChecksId /\ conns'[call'[d].conn].gaveUp
      BY DEF AcceptedIsOwn
    <2>1. d # c /\ call'[d] = call[d]
      BY <1>6, <1>7
    <2>2. call[d].conn # 0
      BY <2>1 DEF IInv, CallsFit
    <2>3. conns'[call[d].conn] = conns[call[d].conn]
      BY <2>1, <2>2, <1>10
    <2> QED
      BY <2>1, <2>3 DEF IInv, AcceptedIsOwn
  <1> QED
    BY <1>8, <1>9, <1>11, <1>12, <1>13 DEF IInv

\* A client that sends was not waiting, so nothing is outstanding on its
\* connection unless it gave up on a request.
LEMMA SendInv ==
    ASSUME IInv, NEW c \in Client, NEW kind \in Kind, Send(c, kind)
    PROVE  IInv'
  <1> PICK i, n : i = call[c].conn /\ n = Len(asked) + 1
    OBVIOUS
  <1> PICK request : request = [n |-> n, id |-> WireId(c, n), kind |-> kind]
    OBVIOUS
  <1> DEFINE up == IF conns[i].alive THEN Append(conns[i].up, request) ELSE conns[i].up
             conn == [conns[i] EXCEPT !.up = up]
  <1>1. ConnectionsTypeOK /\ i # 0 /\ i \in DOMAIN conns
    BY OwnConn DEF IInv, Send
  <1>2. /\ call[c].state # "waiting" /\ n <= MaxRequests
        /\ conns' = [conns EXCEPT ![i] = conn]
        /\ call' = [call EXCEPT ![c] =
                       [conn |-> i, state |-> "waiting", n |-> n, got |-> 0]]
        /\ asked' = Append(asked, i)
        /\ UNCHANGED <<pending, lost>>
    BY <1>1 DEF Send
  <1>3. /\ n \in Nat /\ n # 0 /\ n \notin DOMAIN asked
        /\ asked' \in Seq(DOMAIN conns) /\ Len(asked') = n
        /\ DOMAIN asked' = DOMAIN asked \cup {n}
        /\ asked'[n] = i
        /\ \A l \in DOMAIN asked : asked'[l] = asked[l]
    BY <1>1, <1>2 DEF ConnectionsTypeOK
  <1>4. request \in Request /\ request.n = n /\ (request.id = 0 \/ request.id = n)
    BY <1>3 DEF Request, WireId
  <1>5. /\ conns[i] \in Conn
        /\ conns[i].up \in Seq(Request)
        /\ up \in Seq(Request)
        /\ Len(up) = Len(conns[i].up) + 1 \/ Len(up) = Len(conns[i].up)
        /\ \A k \in DOMAIN up :
              up[k] = request \/ (k \in DOMAIN conns[i].up /\ up[k] = conns[i].up[k])
    BY <1>1, <1>4, ConnFields, AppendElements
  <1>6. /\ conn \in Conn
        /\ conn.up = up /\ conn.down = conns[i].down
        /\ conn.addr = conns[i].addr /\ conn.alive = conns[i].alive
        /\ conn.open = conns[i].open /\ conn.gaveUp = conns[i].gaveUp
    BY <1>5 DEF Conn
  <1> HIDE DEF conn, up
  <1>7. /\ conns' \in Seq(Conn)
        /\ Len(conns') = Len(conns)
        /\ DOMAIN conns' = DOMAIN conns
        /\ conns'[i] = conn
        /\ \A j \in DOMAIN conns : j # i => conns'[j] = conns[j]
        /\ \A j, k \in DOMAIN conns' :
              conns'[j].alive /\ conns'[k].alive /\ conns'[j].addr = conns'[k].addr
                  => j = k
    BY <1>1, <1>2, <1>6, UpdateType
  <1>8. /\ call'[c].conn = i /\ call'[c].state = "waiting"
        /\ call'[c].n = n /\ call'[c].got = 0
        /\ \A d \in Client : d # c => call'[d] = call[d]
    BY <1>1, <1>2 DEF ConnectionsTypeOK
  <1>9. ConnectionsTypeOK'
    <2>1. call' \in [Client -> Call]
      <3>1. i \in Nat
        BY <1>1 DEF ConnectionsTypeOK, Call
      <3> QED
        BY <3>1, <1>1, <1>2, <1>3 DEF ConnectionsTypeOK, Call
    <2> QED
      BY <2>1, <1>1, <1>2, <1>3, <1>7 DEF ConnectionsTypeOK
  <1>10. MessagesBelong'
    <2>1. \A j, msg : Mine(j, msg) => Mine(j, msg)'
      BY <1>3 DEF Mine
    <2>2. Mine(i, request)'
      BY <1>3, <1>4 DEF Mine
    <2>3. ASSUME NEW j \in DOMAIN conns'
          PROVE  /\ (\A k \in DOMAIN conns[j].up : Mine(j, conns[j].up[k]))'
                 /\ (\A k \in DOMAIN conns[j].down : Mine(j, conns[j].down[k]))'
      <3>1. /\ \A k \in DOMAIN conns[j].up : \A msg :
                  msg = conns[j].up[k] => Mine(j, msg)'
            /\ \A k \in DOMAIN conns[j].down : \A msg :
                  msg = conns[j].down[k] => Mine(j, msg)'
        BY <2>1, <2>3, <1>7 DEF IInv, MessagesBelong
      <3>2. CASE j = i
        <4>1. /\ conns'[j].up = up
              /\ conns'[j].down = conns[i].down
          BY <3>2, <1>6, <1>7
        <4>2. ASSUME NEW k \in DOMAIN conns'[j].up
              PROVE  Mine(j, conns[j].up[k])'
          <5>1. \/ conns'[j].up[k] = request
                \/ k \in DOMAIN conns[j].up /\ conns'[j].up[k] = conns[j].up[k]
            BY <3>2, <4>1, <4>2, <1>5
          <5> QED
            BY <5>1, <2>2, <3>1, <3>2 DEF Mine
        <4>3. ASSUME NEW k \in DOMAIN conns'[j].down
              PROVE  Mine(j, conns[j].down[k])'
          BY <3>1, <3>2, <4>1, <4>3 DEF Mine
        <4> QED
          BY <4>2, <4>3
      <3>3. CASE j # i
        BY <2>3, <3>1, <3>3, <1>7
      <3> QED
        BY <3>2, <3>3
    <2>4. \A f \in pending : f.conn \in DOMAIN conns' /\ Mine(f.conn, f.answer)'
      BY <2>1, <1>7 DEF IInv, MessagesBelong
    <2> QED
      BY <2>3, <2>4, <1>2 DEF MessagesBelong
  <1>11. CallsFit'
    <2>1. \A j \in DOMAIN conns : conns'[j].open = conns[j].open
      BY <1>6, <1>7
    <2>2. ASSUME NEW d \in Client
          PROVE  /\ call'[d].conn # 0 =>
                       call'[d].conn \in DOMAIN conns' /\ conns'[call'[d].conn].open
                 /\ call'[d].state = "waiting" => call'[d].conn # 0 /\ call'[d].n # 0
                 /\ call'[d].got # 0 => call'[d].conn # 0
      BY <2>1, <2>2, <1>1, <1>3, <1>7, <1>8 DEF IInv, CallsFit
    <2>3. \A d, e \in Client :
             call'[d].conn = call'[e].conn /\ call'[d].conn # 0 => d = e
      BY <1>8 DEF IInv, CallsFit
    <2> QED
      BY <2>2, <2>3 DEF CallsFit
  <1>12. OneAtATime'
    <2> SUFFICES ASSUME NEW j \in DOMAIN conns', conns'[j].open, ~conns'[j].gaveUp
                 PROVE  AtMostOne(j)'
      BY DEF OneAtATime
    <2>1. AtMostOne(j)
      BY <1>6, <1>7 DEF IInv, OneAtATime
    <2>2. CASE j = i
      <3>1. \A d \in Client : \A l : ~WaitsFor(d, i, l)
        BY <1>1, <1>2 DEF IInv, CallsFit, WaitsFor
      <3>2. \A f \in pending : f.conn # i
        BY <2>1, <2>2, <3>1 DEF AtMostOne
      <3>3. conns[i].up = <<>> /\ conns[i].down = <<>>
        <4>1. conns[i].down \in Seq(Answer) /\ conns[i].up \in Seq(Request)
          BY <1>1, ConnFields
        <4>2. DOMAIN conns[i].up = {} /\ DOMAIN conns[i].down = {}
          BY <2>1, <2>2, <3>1 DEF AtMostOne
        <4> QED
          BY <4>1, <4>2, NoElements
      <3>4. /\ conns'[i].up = up /\ conns'[i].down = <<>>
            /\ Len(up) \in {0, 1} /\ Len(conns'[i].down) = 0
            /\ \A k \in DOMAIN conns'[i].up : conns'[i].up[k] = request
        BY <3>3, <1>5, <1>6, <1>7
      <3>5. WaitsFor(c, i, n)'
        BY <1>8 DEF WaitsFor
      <3>6. Len(conns'[i].up) + Len(conns'[i].down) <= 1
        <4>1. CASE Len(conns'[i].up) = 0
          BY <3>4, <4>1
        <4>2. CASE Len(conns'[i].up) = 1
          BY <3>4, <4>2
        <4> QED
          BY <3>4, <4>1, <4>2
      <3>7. DOMAIN conns'[i].down = {}
        BY <3>4
      <3> QED
        BY <2>2, <3>2, <3>4, <3>5, <3>6, <3>7, <1>2, <1>4 DEF AtMostOne
    <2>3. CASE j # i
      <3>1. conns'[j] = conns[j]
        BY <2>3, <1>7
      <3>2. \A d \in Client : \A l : WaitsFor(d, j, l) => WaitsFor(d, j, l)'
        BY <2>3, <1>8 DEF WaitsFor
      <3> QED
        BY <2>1, <3>1, <3>2, <1>2 DEF AtMostOne
    <2> QED
      BY <2>2, <2>3
  <1>13. AcceptedIsOwn'
    <2> SUFFICES ASSUME NEW d \in Client, call'[d].got # 0
                 PROVE  \/ call'[d].got = call'[d].n
                        \/ d \notin ChecksId /\ conns'[call'[d].conn].gaveUp
      BY DEF AcceptedIsOwn
    <2>1. d # c /\ call'[d] = call[d]
      BY <1>8
    <2>2. call[d].conn \in DOMAIN conns
      BY <2>1 DEF IInv, CallsFit
    <2>3. conns'[call[d].conn].gaveUp = conns[call[d].conn].gaveUp
      BY <2>2, <1>6, <1>7
    <2> QED
      BY <2>1, <2>3 DEF IInv, AcceptedIsOwn
  <1> QED
    BY <1>9, <1>10, <1>11, <1>12, <1>13 DEF IInv

\* Nothing is left on a connection that was in step, and the answer is the one
\* that the client waits for; otherwise its id tells.
LEMMA ReceiveInv ==
    ASSUME IInv, NEW c \in Client, Receive(c)
    PROVE  IInv'
  <1> PICK i, answer : i = call[c].conn /\ answer = Head(conns[i].down)
    OBVIOUS
  <1> DEFINE conn == [conns[i] EXCEPT !.down = Tail(@)]
  <1>1. /\ ConnectionsTypeOK /\ i # 0 /\ i \in DOMAIN conns
        /\ conns[i].open /\ call[c].n # 0
    BY OwnConn DEF IInv, CallsFit, Receive
  <1>2. /\ call[c].state = "waiting" /\ conns[i].down # <<>>
        /\ conns' = [conns EXCEPT ![i] = conn]
        /\ call' = [call EXCEPT ![c] = Returned(c, answer)]
        /\ UNCHANGED <<pending, asked, lost>>
    BY <1>1 DEF Receive
  <1>3. /\ conns[i] \in Conn
        /\ conns[i].up \in Seq(Request) /\ conns[i].down \in Seq(Answer)
        /\ conns[i].gaveUp \in BOOLEAN
    BY <1>1, ConnFields
  <1>4. /\ Tail(conns[i].down) \in Seq(Answer)
        /\ answer \in Answer
        /\ 1 \in DOMAIN conns[i].down /\ answer = conns[i].down[1]
        /\ Len(Tail(conns[i].down)) = Len(conns[i].down) - 1
        /\ Len(conns[i].down) # 0
        /\ \A k \in DOMAIN Tail(conns[i].down) :
              /\ k + 1 \in DOMAIN conns[i].down
              /\ Tail(conns[i].down)[k] = conns[i].down[k + 1]
    BY <1>2, <1>3, TailElements
  <1>5. /\ conn \in Conn
        /\ conn.up = conns[i].up /\ conn.down = Tail(conns[i].down)
        /\ conn.addr = conns[i].addr /\ conn.alive = conns[i].alive
        /\ conn.open = conns[i].open /\ conn.gaveUp = conns[i].gaveUp
    BY <1>3, <1>4 DEF Conn
  <1> HIDE DEF conn
  <1>6. /\ conns' \in Seq(Conn)
        /\ Len(conns') = Len(conns)
        /\ DOMAIN conns' = DOMAIN conns
        /\ conns'[i] = conn
        /\ \A j \in DOMAIN conns : j # i => conns'[j] = conns[j]
        /\ \A j, k \in DOMAIN conns' :
              conns'[j].alive /\ conns'[k].alive /\ conns'[j].addr = conns'[k].addr
                  => j = k
    BY <1>1, <1>2, <1>5, UpdateType
  <1>7. /\ Returned(c, answer) \in Call
        /\ Returned(c, answer).conn = i /\ Returned(c, answer).n = call[c].n
        /\ Returned(c, answer).state # "waiting"
        /\ \/ Returned(c, answer).got = call[c].got
           \/ /\ Returned(c, answer).got = answer.n
              /\ c \in ChecksId => answer.id = WireId(c, call[c].n)
    <2>1. call[c] \in Call /\ answer.n \in Nat
      BY <1>1, <1>4 DEF ConnectionsTypeOK, Answer
    <2> QED
      BY <2>1 DEF Returned, Call
  <1>8. /\ call' \in [Client -> Call]
        /\ call'[c] = Returned(c, answer)
        /\ \A d \in Client : d # c => call'[d] = call[d]
    BY <1>1, <1>2, <1>7 DEF ConnectionsTypeOK
  <1>9. ConnectionsTypeOK'
    BY <1>1, <1>2, <1>6, <1>8 DEF ConnectionsTypeOK
  <1>10. MessagesBelong'
    <2>1. ASSUME NEW j \in DOMAIN conns'
          PROVE  /\ \A k \in DOMAIN conns'[j].up : Mine(j, conns'[j].up[k])
                 /\ \A k \in DOMAIN conns'[j].down : Mine(j, conns'[j].down[k])
      <3>1. CASE j = i
        <4>1. conns'[j].up = conns[i].up /\ conns'[j].down = Tail(conns[i].down)
          BY <3>1, <1>5, <1>6
        <4>2. /\ \A k \in DOMAIN conns[i].up : Mine(i, conns[i].up[k])
              /\ \A k \in DOMAIN conns[i].down : Mine(i, conns[i].down[k])
          BY <1>1 DEF IInv, MessagesBelong
        <4>3. \A k \in DOMAIN Tail(conns[i].down) : Mine(i, Tail(conns[i].down)[k])
          BY <4>2, <1>4
        <4> QED
          BY <3>1, <4>1, <4>2, <4>3
      <3>2. CASE j # i
        BY <2>1, <3>2, <1>6 DEF IInv, MessagesBelong
      <3> QED
        BY <3>1, <3>2
    <2>2. \A f \in pending : f.conn \in DOMAIN conns' /\ Mine(f.conn, f.answer)
      BY <1>6 DEF IInv, MessagesBelong
    <2> QED
      BY <2>1, <2>2, <1>2 DEF MessagesBelong, Mine
  <1>11. CallsFit'
    <2>1. \A j \in DOMAIN conns : conns'[j].open = conns[j].open
      BY <1>5, <1>6
    <2>2. ASSUME NEW d \in Client
          PROVE  /\ call'[d].conn = call[d].conn /\ call'[d].n = call[d].n
                 /\ call'[d].state = "waiting" => call[d].state = "waiting"
                 /\ call'[d].got # 0 => call[d].got # 0 \/ call[d].state = "waiting"
      BY <2>2, <1>2, <1>7, <1>8
    <2> QED
      BY <2>1, <2>2, <1>6, CallsKept DEF IInv
  <1>12. ~conns[i].gaveUp => AtMostOne(i)
    BY <1>1 DEF IInv, OneAtATime
  <1>13. OneAtATime'
    <2> SUFFICES ASSUME NEW j \in DOMAIN conns', conns'[j].open, ~conns'[j].gaveUp
                 PROVE  AtMostOne(j)'
      BY DEF OneAtATime
    <2>1. CASE j = i
      <3>1. AtMostOne(i)
        BY <2>1, <1>5, <1>6, <1>12
      <3>2. Len(conns[i].up) + Len(conns[i].down) <= 1
        BY <3>1 DEF AtMostOne
      <3>3. conns[i].up = <<>> /\ Tail(conns[i].down) = <<>>
        BY <3>2, <1>2, <1>3, OnlyElement
      <3>4. conns'[j].up = <<>> /\ conns'[j].down = <<>>
        BY <2>1, <3>3, <1>5, <1>6
      <3>5. \A f \in pending' : f.conn # j
        BY <2>1, <3>1, <1>2 DEF AtMostOne
      <3> QED
        BY <3>4, <3>5 DEF AtMostOne
    <2>2. CASE j # i
      <3>1. conns'[j] = conns[j] /\ AtMostOne(j)
        BY <2>2, <1>6 DEF IInv, OneAtATime
      <3>2. \A d \in Client : \A n : WaitsFor(d, j, n) => WaitsFor(d, j, n)'
        BY <2>2, <1>8 DEF WaitsFor
      <3> QED
        BY <3>1, <3>2, <1>2 DEF AtMostOne
    <2> QED
      BY <2>1, <2>2
  <1>14. AcceptedIsOwn'
    <2> SUFFICES ASSUME NEW d \in Client, call'[d].got # 0
                 PROVE  \/ call'[d].got = call'[d].n
                        \/ d \notin ChecksId /\ conns'[call'[d].conn].gaveUp
      BY DEF AcceptedIsOwn
    <2>1. call'[d].conn = call[d].conn /\ call'[d].n = call[d].n
      BY <1>7, <1>8
    <2>2. call[d].conn \in DOMAIN conns
      BY <1>1, <1>7, <1>8 DEF IInv, CallsFit
    <2>3. conns'[call[d].conn].gaveUp = conns[call[d].conn].gaveUp
      BY <2>2, <1>5, <1>6
    <2>4. CASE call'[d].got = call[d].got
      BY <2>1, <2>3, <2>4 DEF IInv, AcceptedIsOwn
    <2>5. CASE call'[d].got # call[d].got
      <3>1. /\ d = c /\ call'[d].got = answer.n
            /\ c \in ChecksId => answer.id = WireId(c, call[c].n)
        BY <2>5, <1>7, <1>8
      <3>2. Mine(i, answer)
        BY <1>1, <1>4 DEF IInv, MessagesBelong
      <3>3. CASE c \in ChecksId
        BY <3>1, <3>2, <3>3, <2>1, <1>1 DEF WireId, Mine
      <3>4. CASE c \notin ChecksId /\ ~conns[i].gaveUp
        <4>1. PICK e \in Client : WaitsFor(e, i, answer.n)
          BY <3>4, <1>4, <1>12 DEF AtMostOne
        <4>2. e = c /\ call[e].n = answer.n
          BY <4>1, <1>1 DEF IInv, CallsFit, WaitsFor
        <4> QED
          BY <4>2, <3>1, <2>1
      <3>5. CASE c \notin ChecksId /\ conns[i].gaveUp
        BY <3>1, <3>5, <2>1, <2>3
      <3> QED
        BY <3>3, <3>4, <3>5
    <2> QED
      BY <2>4, <2>5
  <1> QED
    BY <1>9, <1>10, <1>11, <1>13, <1>14 DEF IInv

\* A step of the server on connection i keeps the calls; it keeps the invariant
\* if the messages of this connection belong to it and stay in step.
LEMMA ServerInv ==
    ASSUME IInv, NEW i \in DOMAIN conns, NEW conn \in Conn,
           conns' = [conns EXCEPT ![i] = conn],
           conn.addr = conns[i].addr, conn.alive = conns[i].alive,
           conn.open = conns[i].open, conn.gaveUp = conns[i].gaveUp,
           UNCHANGED <<call, asked>>,
           lost' \subseteq DOMAIN asked,
           pending' \subseteq Future,
           \A k \in DOMAIN conn.up : Mine(i, conn.up[k]),
           \A k \in DOMAIN conn.down : Mine(i, conn.down[k]),
           \A f \in pending' : \/ f \in pending
                               \/ f.conn = i /\ Mine(i, f.answer),
           conns[i].open /\ ~conns[i].gaveUp => AtMostOne(i)'
    PROVE  IInv'
  <1>1. ConnectionsTypeOK
    BY DEF IInv
  <1>2. /\ conns' \in Seq(Conn)
        /\ Len(conns') = Len(conns)
        /\ DOMAIN conns' = DOMAIN conns
        /\ conns'[i] = conn
        /\ \A j \in DOMAIN conns : j # i => conns'[j] = conns[j]
        /\ \A j, k \in DOMAIN conns' :
              conns'[j].alive /\ conns'[k].alive /\ conns'[j].addr = conns'[k].addr
                  => j = k
    BY <1>1, UpdateType
  <1>3. ConnectionsTypeOK'
    BY <1>1, <1>2 DEF ConnectionsTypeOK
  <1>4. MessagesBelong'
    <2>1. ASSUME NEW j \in DOMAIN conns'
          PROVE  /\ \A k \in DOMAIN conns'[j].up : Mine(j, conns'[j].up[k])
                 /\ \A k \in DOMAIN conns'[j].down : Mine(j, conns'[j].down[k])
      BY <2>1, <1>2 DEF IInv, MessagesBelong
    <2>2. \A f \in pending' : f.conn \in DOMAIN conns' /\ Mine(f.conn, f.answer)
      BY <1>2 DEF IInv, MessagesBelong
    <2> QED
      BY <2>1, <2>2 DEF MessagesBelong, Mine
  <1>5. CallsFit'
    <2>1. \A j \in DOMAIN conns : conns'[j].open = conns[j].open
      BY <1>2
    <2> QED
      BY <2>1, <1>2, CallsKept DEF IInv
  <1>6. OneAtATime'
    <2> SUFFICES ASSUME NEW j \in DOMAIN conns', conns'[j].open, ~conns'[j].gaveUp
                 PROVE  AtMostOne(j)'
      BY DEF OneAtATime
    <2>1. CASE j = i
      BY <2>1, <1>2
    <2>2. CASE j # i
      <3>1. conns'[j] = conns[j] /\ AtMostOne(j)
        BY <2>2, <1>2 DEF IInv, OneAtATime
      <3>2. \A d \in Client : \A n : WaitsFor(d, j, n) => WaitsFor(d, j, n)'
        BY DEF WaitsFor
      <3>3. \A f \in pending' : f.conn = j => f \in pending
        BY <2>2
      <3> QED
        BY <3>1, <3>2, <3>3 DEF AtMostOne
    <2> QED
      BY <2>1, <2>2
  <1>7. AcceptedIsOwn'
    <2>1. \A d \in Client : call[d].got # 0 =>
             conns'[call[d].conn].gaveUp = conns[call[d].conn].gaveUp
      BY <1>2 DEF IInv, CallsFit
    <2> QED
      BY <2>1 DEF IInv, AcceptedIsOwn
  <1> QED
    BY <1>3, <1>4, <1>5, <1>6, <1>7 DEF IInv

\* The request that is taken from a connection in step was the only message;
\* its answer takes its place on the wire or in pending, or is lost.
LEMMA HandleMessageInv ==
    ASSUME IInv, NEW i \in DOMAIN conns, HandleMessage(i)
    PROVE  IInv'
  <1> PICK request, rest : request = Head(conns[i].up) /\ rest = Tail(conns[i].up)
    OBVIOUS
  <1> PICK answer : answer = AnswerTo(request)
    OBVIOUS
  <1>1. ConnectionsTypeOK
    BY DEF IInv
  <1>2. /\ conns[i] \in Conn /\ conns[i].addr \in Address
        /\ conns[i].up \in Seq(Request) /\ conns[i].down \in Seq(Answer)
        /\ i \in Nat
    <2>1. conns \in Seq(Conn)
      BY <1>1 DEF ConnectionsTypeOK
    <2>2. i \in Nat
      BY <2>1
    <2> QED
      BY <2>2, <1>1, ConnFields
  <1>3. /\ conns[i].up # <<>> /\ Dispatch(i, request, rest)
        /\ UNCHANGED <<call, asked>>
    BY DEF HandleMessage
  <1>4. /\ rest \in Seq(Request) /\ request \in Request
        /\ 1 \in DOMAIN conns[i].up /\ request = conns[i].up[1]
        /\ \A k \in DOMAIN rest : k + 1 \in DOMAIN conns[i].up
                                     /\ rest[k] = conns[i].up[k + 1]
    BY <1>2, <1>3, TailElements
  <1>5. /\ \A k \in DOMAIN conns[i].up : Mine(i, conns[i].up[k])
        /\ \A k \in DOMAIN conns[i].down : Mine(i, conns[i].down[k])
    BY DEF IInv, MessagesBelong
  <1>6. Mine(i, request) /\ \A k \in DOMAIN rest : Mine(i, rest[k])
    BY <1>4, <1>5
  <1>7. /\ answer \in Answer /\ answer.n = request.n
        /\ Mine(i, answer) /\ request.n \in DOMAIN asked
    BY <1>4, <1>6 DEF AnswerTo, Request, Answer, Mine
  <1>8. ASSUME conns[i].open, ~conns[i].gaveUp
        PROVE  /\ rest = <<>> /\ conns[i].down = <<>>
               /\ \A f \in pending : f.conn # i
               /\ \E c \in Client : WaitsFor(c, i, answer.n)
    <2>1. AtMostOne(i)
      BY <1>8 DEF IInv, OneAtATime
    <2>2. Len(conns[i].up) + Len(conns[i].down) <= 1
      BY <2>1 DEF AtMostOne
    <2>3. rest = <<>> /\ conns[i].down = <<>>
      BY <2>2, <1>2, <1>3, OnlyElement
    <2>4. /\ \A f \in pending : f.conn # i
          /\ \E c \in Client : WaitsFor(c, i, answer.n)
      BY <2>1, <1>3, <1>4, <1>7 DEF AtMostOne
    <2> QED
      BY <2>3, <2>4
  <1>9. \A c \in Client : \A n : WaitsFor(c, i, n) => WaitsFor(c, i, n)'
    BY <1>3 DEF WaitsFor
  <1>10. pending \subseteq Future /\ lost \subseteq DOMAIN asked
    BY <1>1 DEF ConnectionsTypeOK
  <1> DEFINE kept == [conns[i] EXCEPT !.up = rest]
  <1>11. /\ kept \in Conn
         /\ kept.up = rest /\ kept.down = conns[i].down
         /\ kept.addr = conns[i].addr /\ kept.alive = conns[i].alive
         /\ kept.open = conns[i].open /\ kept.gaveUp = conns[i].gaveUp
    BY <1>2, <1>4 DEF Conn
  <1>12. [conns EXCEPT ![i].up = rest] = [conns EXCEPT ![i] = kept]
    OBVIOUS
  <1>13. CASE request.kind = "reply"
    <2> DEFINE down == IF conns[i].open THEN Append(conns[i].down, answer)
                                        ELSE conns[i].down
               conn == [conns[i] EXCEPT !.up = rest, !.down = down]
    <2>1. /\ down \in Seq(Answer)
          /\ \A k \in DOMAIN down :
                \/ down[k] = answer
                \/ k \in DOMAIN conns[i].down /\ down[k] = conns[i].down[k]
      BY <1>2, <1>7, AppendElements
    <2>2. /\ conns' = [Delivered(i, answer) EXCEPT ![i].up = rest]
          /\ UNCHANGED <<pending, lost>>
      BY <1>3, <1>13 DEF Dispatch
    <2>3. conns' = [conns EXCEPT ![i] = conn]
      <3>1. Delivered(i, answer) = [conns EXCEPT ![i] = [conns[i] EXCEPT !.down = down]]
        BY DEF Delivered
      <3>2. [[conns[i] EXCEPT !.down = down] EXCEPT !.up = rest] = conn
        BY <1>2 DEF Conn
      <3> QED
        BY <2>2, <3>1, <3>2
    <2> HIDE DEF down
    <2>4. /\ conn \in Conn
          /\ conn.up = rest /\ conn.down = down
          /\ conn.addr = conns[i].addr /\ conn.alive = conns[i].alive
          /\ conn.open = conns[i].open /\ conn.gaveUp = conns[i].gaveUp
      BY <2>1, <1>2, <1>4 DEF Conn
    <2> HIDE DEF conn
    <2>5. \A k \in DOMAIN down : Mine(i, down[k])
      BY <2>1, <1>5, <1>7
    <2>6. ASSUME conns[i].open, ~conns[i].gaveUp
          PROVE  AtMostOne(i)'
      <3>1. conns'[i].up = <<>> /\ conns'[i].down = Append(<<>>, answer)
        <4>1. down = Append(<<>>, answer)
          BY <2>6, <1>8 DEF down
        <4> QED
          BY <4>1, <2>3, <2>4, <2>6, <1>8
      <3>2. \E c \in Client : WaitsFor(c, i, answer.n)'
        BY <2>6, <1>8, <1>9
      <3>3. \A f \in pending' : f.conn # i
        BY <2>2, <2>6, <1>8
      <3>4. /\ Len(conns'[i].up) + Len(conns'[i].down) <= 1
            /\ DOMAIN conns'[i].up = {}
            /\ \A k \in DOMAIN conns'[i].down : conns'[i].down[k] = answer
        BY <3>1
      <3> QED
        BY <3>2, <3>3, <3>4 DEF AtMostOne
    <2> QED
      BY <2>2, <2>3, <2>4, <2>5, <2>6, <1>3, <1>6, <1>10, ServerInv
  <1>14. CASE request.kind = "hooks"
    <2> PICK future : future = [conn |-> i, addr |-> conns[i].addr, answer |-> answer]
      OBVIOUS
    <2>1. future \in Future /\ future.conn = i /\ future.answer = answer
      BY <1>2, <1>7 DEF Future
    <2>2. /\ pending' = pending \cup {future}
          /\ conns' = [conns EXCEPT ![i] = kept]
          /\ lost' = lost
      BY <1>3, <1>12, <1>14 DEF Dispatch
    <2> HIDE DEF kept
    <2>3. ASSUME conns[i].open, ~conns[i].gaveUp
          PROVE  AtMostOne(i)'
      <3>1. conns'[i].up = <<>> /\ conns'[i].down = <<>>
        BY <2>2, <2>3, <1>8, <1>11
      <3>2. \E c \in Client : WaitsFor(c, i, answer.n)'
        BY <2>3, <1>8, <1>9
      <3>3. \A f \in pending' : f.conn = i => f = future
        BY <2>1, <2>2, <2>3, <1>8
      <3> QED
        BY <2>1, <3>1, <3>2, <3>3 DEF AtMostOne
    <2> QED
      BY <2>1, <2>2, <2>3, <1>3, <1>5, <1>6, <1>7, <1>10, <1>11, ServerInv
  <1>15. CASE request.kind = "error"
    <2>1. /\ lost' = lost \cup {request.n}
          /\ conns' = [conns EXCEPT ![i] = kept]
          /\ pending' = pending
      BY <1>3, <1>12, <1>15 DEF Dispatch
    <2> HIDE DEF kept
    <2>2. ASSUME conns[i].open, ~conns[i].gaveUp
          PROVE  AtMostOne(i)'
      <3>1. conns'[i].up = <<>> /\ conns'[i].down = <<>>
        BY <2>1, <2>2, <1>8, <1>11
      <3>2. \A f \in pending' : f.conn # i
        BY <2>1, <2>2, <1>8
      <3> QED
        BY <3>1, <3>2 DEF AtMostOne
    <2> QED
      BY <2>1, <2>2, <1>3, <1>5, <1>6, <1>7, <1>10, <1>11, ServerInv
  <1> QED
    BY <1>4, <1>13, <1>14, <1>15 DEF Request, Kind

\* The answer of hooks that end was all that was outstanding on a connection in
\* step; it goes there and nowhere else, or nowhere.
LEMMA FutureCompletesInv ==
    ASSUME IInv, NEW f \in pending, FutureCompletes(f)
    PROVE  IInv'
  <1> PICK i, answer : i = f.conn /\ answer = f.answer
    OBVIOUS
  <1>1. ConnectionsTypeOK /\ i \in DOMAIN conns /\ Mine(i, answer)
    BY DEF IInv, MessagesBelong
  <1>2. /\ pending' = pending \ {f} /\ UNCHANGED <<call, asked>>
        /\ HooksEnd(f) \/ HooksBreak(f)
    BY DEF FutureCompletes
  <1>3. /\ pending \subseteq Future /\ lost \subseteq DOMAIN asked
        /\ answer \in Answer /\ answer.n \in DOMAIN asked
    BY <1>1 DEF ConnectionsTypeOK, Future, Mine
  <1>4. /\ conns[i] \in Conn /\ conns[i].down \in Seq(Answer)
    BY <1>1, ConnFields
  <1>5. /\ \A k \in DOMAIN conns[i].up : Mine(i, conns[i].up[k])
        /\ \A k \in DOMAIN conns[i].down : Mine(i, conns[i].down[k])
    BY <1>1 DEF IInv, MessagesBelong
  <1>6. ASSUME conns[i].open, ~conns[i].gaveUp
        PROVE  /\ conns[i].up = <<>> /\ conns[i].down = <<>>
               /\ \A g \in pending' : g.conn # i
               /\ \E c \in Client : WaitsFor(c, i, answer.n)
    <2>1. AtMostOne(i)
      BY <1>1, <1>6 DEF IInv, OneAtATime
    <2> QED
      BY <2>1, <1>2 DEF AtMostOne
  <1>7. CASE conns' = conns /\ lost' \subseteq DOMAIN asked
    <2>1. conns' = [conns EXCEPT ![i] = conns[i]]
      BY <1>1, <1>7 DEF ConnectionsTypeOK
    <2>2. ASSUME conns[i].open, ~conns[i].gaveUp
          PROVE  AtMostOne(i)'
      <3>1. conns'[i].up = <<>> /\ conns'[i].down = <<>>
        BY <2>2, <1>6, <1>7
      <3> QED
        BY <2>2, <3>1, <1>6 DEF AtMostOne
    <2> QED
      BY <2>1, <2>2, <1>1, <1>2, <1>3, <1>4, <1>5, <1>7, ServerInv
  <1>8. CASE conns' = Delivered(i, answer) /\ lost' = lost
    <2> DEFINE down == IF conns[i].open THEN Append(conns[i].down, answer)
                                        ELSE conns[i].down
               conn == [conns[i] EXCEPT !.down = down]
    <2>1. /\ down \in Seq(Answer)
          /\ \A k \in DOMAIN down :
                \/ down[k] = answer
                \/ k \in DOMAIN conns[i].down /\ down[k] = conns[i].down[k]
      BY <1>3, <1>4, AppendElements
    <2>2. conns' = [conns EXCEPT ![i] = conn]
      BY <1>8 DEF Delivered
    <2> HIDE DEF down
    <2>3. /\ conn \in Conn
          /\ conn.up = conns[i].up /\ conn.down = down
          /\ conn.addr = conns[i].addr /\ conn.alive = conns[i].alive
          /\ conn.open = conns[i].open /\ conn.gaveUp = conns[i].gaveUp
      BY <2>1, <1>4 DEF Conn
    <2> HIDE DEF conn
    <2>4. \A k \in DOMAIN down : Mine(i, down[k])
      BY <2>1, <1>1, <1>5
    <2>5. ASSUME conns[i].open, ~conns[i].gaveUp
          PROVE  AtMostOne(i)'
      <3>1. down = Append(<<>>, answer)
        BY <2>5, <1>6 DEF down
      <3>2. conns'[i].up = <<>> /\ conns'[i].down = Append(<<>>, answer)
        BY <2>2, <2>3, <2>5, <3>1, <1>1, <1>6
      <3>3. /\ Len(conns'[i].up) + Len(conns'[i].down) <= 1
            /\ DOMAIN conns'[i].up = {}
            /\ \A k \in DOMAIN conns'[i].down : conns'[i].down[k] = answer
        BY <3>2
      <3>4. \E c \in Client : WaitsFor(c, i, answer.n)'
        BY <2>5, <1>2, <1>6 DEF WaitsFor
      <3> QED
        BY <2>5, <3>3, <3>4, <1>6 DEF AtMostOne
    <2> QED
      BY <2>2, <2>3, <2>4, <2>5, <1>1, <1>2, <1>3, <1>5, <1>8, ServerInv
  <1>9. CASE HooksEnd(f)
    <2>1. StillThere(f) \subseteq {i}
      BY DEF StillThere
    <2> QED
      BY <2>1, <1>3, <1>7, <1>8, <1>9 DEF HooksEnd
  <1>10. CASE HooksBreak(f)
    BY <1>3, <1>7, <1>10 DEF HooksBreak
  <1> QED
    BY <1>2, <1>9, <1>10

----------------------------------------------------------------------------
(* The theorems *)

\* Every step keeps the invariant.
LEMMA StepInv == IInv /\ [Next]_vars => IInv'
  <1> SUFFICES ASSUME IInv, [Next]_vars PROVE IInv'
    OBVIOUS
  <1>1. ASSUME NEW c \in Client, ClientStep(c) PROVE IInv'
    BY <1>1, ConnectInv, CloseInv, SendInv, ReceiveInv, TimeoutInv, ReadEndsInv
       DEF ClientStep
  <1>2. ASSUME ServerStep PROVE IInv'
    BY <1>2, HandleMessageInv, ConnectionLostInv, FutureCompletesInv DEF ServerStep
  <1>3. CASE UNCHANGED vars
    <2>1. ConnectionsTypeOK' /\ MessagesBelong' /\ CallsFit' /\ AcceptedIsOwn'
      BY <1>3 DEF vars, IInv, ConnectionsTypeOK, MessagesBelong, Mine, CallsFit,
                  AcceptedIsOwn
    <2>2. \A i : AtMostOne(i)' <=> AtMostOne(i)
      BY <1>3 DEF vars, AtMostOne, WaitsFor
    <2>3. OneAtATime'
      BY <1>3, <2>2 DEF vars, IInv, OneAtATime
    <2> QED
      BY <2>1, <2>3 DEF IInv
  <1> QED
    BY <1>1, <1>2, <1>3 DEF Next

\* The invariant holds in every state of every behaviour.
LEMMA Invariance == Spec => []IInv
  BY InitInv, StepInv, PTL DEF Spec

\* The variables keep their types, and no two living protocol objects share an
\* address (TcpServer's connections).
THEOREM ConnectionsTyped == Spec => []ConnectionsTypeOK
  <1>1. IInv => ConnectionsTypeOK
    BY DEF IInv
  <1> QED
    BY <1>1, Invariance, PTL

\* Whatever is under way on a connection, in a queue or in a continuation of
\* HandleMessage, was asked for on this connection: an answer never goes to the
\* client that got the address of a destroyed protocol object.
THEOREM AnswersStayHome == Spec => []AnswersBelong
  <1>1. IInv => AnswersBelong
    <2> SUFFICES ASSUME IInv, NEW i \in DOMAIN conns, NEW n \in Outstanding(i)
                 PROVE  asked[n] = i
      BY DEF AnswersBelong
    <2> QED
      BY DEF IInv, MessagesBelong, Mine, Outstanding, Numbers
  <1> QED
    BY <1>1, Invariance, PTL

\* A blocking call of the Python or Rust client returns the answer to its own
\* request, but for a Rust client on a connection on which it gave up.
THEOREM CallsGetTheirAnswer == Spec => []AcceptedIsOwn
  <1>1. IInv => AcceptedIsOwn
    BY DEF IInv
  <1> QED
    BY <1>1, Invariance, PTL

\* Without a timeout, requests and answers of a connection are in step: what is
\* outstanding is what its client waits for.
THEOREM RequestsInStep == Spec => []InStep
  <1>1. IInv => InStep
    <2> SUFFICES ASSUME IInv, NEW i \in DOMAIN conns,
                        conns[i].open, ~conns[i].gaveUp, NEW n \in Outstanding(i)
                 PROVE  \E c \in Client : call[c].conn = i
                           /\ call[c].state = "waiting" /\ call[c].n = n
      BY DEF InStep
    <2>1. AtMostOne(i)
      BY DEF IInv, OneAtATime
    <2>2. \E c \in Client : WaitsFor(c, i, n)
      BY <2>1 DEF AtMostOne, Outstanding, Numbers
    <2> QED
      BY <2>2 DEF WaitsFor
  <1> QED
    BY <1>1, Invariance, PTL

============================================================================
