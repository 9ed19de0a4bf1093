------------------------- MODULE RustClientProofs -------------------------
(***************************************************************************)
(* Proofs about RustClient, for any timeouts and any number of calls: its  *)
(* invariants, and that it implements BlockingCalls.                       *)
(***************************************************************************)
EXTENDS RustClient, SequenceTheorems, TLAPS

----------------------------------------------------------------------------
(* The inductive invariant *)

\* On a connection on which no call has failed there is exactly what the call
\* has come to.
InStep ==
    ~failed =>
        /\ phase # "lost"
        /\ phase \in {"idle", "begun"} => up = <<>> /\ pending = {} /\ back = <<>>
        /\ phase = "sized" => up = <<Size(calls)>> /\ pending = {} /\ back = <<>>
        /\ phase \in {"peeking", "reading size"} =>
              \/ up = <<Size(calls), Body(calls)>> /\ pending = {} /\ back = <<>>
              \/ up = <<>> /\ pending = {calls} /\ back = <<>>
              \/ /\ up = <<>> /\ pending = {}
                 /\ back \in {<<>>, <<Size(calls)>>, <<Size(calls), Body(calls)>>}
        /\ phase = "reading body" =>
              up = <<>> /\ pending = {} /\ back \in {<<>>, <<Body(calls)>>}

\* No unit is on its way twice.
Distinct(s) == \A i, j \in 1..Len(s) : s[i] = s[j] => i = j

\* Calls that have been made, and none of a set.
Apart(s, S) == \A i \in 1..Len(s) : s[i].call \in (1..calls) \ S

\* The calls of a sequence of units.
CallsOf(s) == {s[i].call : i \in 1..Len(s)}

\* A call is at one place: on its way up, pending, or on its way back.
OnePlace ==
    /\ Distinct(up)
    /\ Distinct(back)
    /\ Apart(up, pending \cup told \cup CallsOf(back))
    /\ Apart(back, pending)
    /\ pending \cap told = {}

\* An answer on its way back has not been returned.
NotTold == \A i \in 1..Len(back) : back[i].part = "body" => back[i].call \notin told

\* What is not written yet is nowhere.
NotYet ==
    /\ phase \in {"begun", "sized"} => calls \notin pending \cup told \cup CallsOf(back)
    /\ phase = "begun" => calls \notin CallsOf(up)
    /\ phase = "sized" => \A i \in 1..Len(up) : up[i] # Body(calls)
    /\ phase \in {"idle", "begun", "sized", "peeking"} => buffered = 0
    /\ phase # "idle" => calls >= 1

\* A body follows each size, unless the daemon's end has cut it.
Aligned ==
    /\ \A i \in 1..(Len(back) - 1) : back[i].part = "size" => back[i + 1].part = "body"
    /\ open /\ back # <<>> => back[Len(back)].part = "body"
    /\ phase = "reading body" /\ back # <<>> => back[1].part = "body"
    /\ phase = "reading body" /\ open => back # <<>>

IInv ==
    /\ RustClientTypeOK
    /\ SocketHasTimeout
    /\ InStep
    /\ OnePlace
    /\ NotTold
    /\ NotYet
    /\ Aligned

----------------------------------------------------------------------------
(* Sequences *)

\* What is left of a sequence of units without its first k.
LEMMA DropFacts ==
    ASSUME NEW S, NEW s \in Seq(S), NEW k \in 0..Len(s)
    PROVE  /\ SubSeq(s, k + 1, Len(s)) \in Seq(S)
           /\ Len(SubSeq(s, k + 1, Len(s))) = Len(s) - k
           /\ \A i \in 1..(Len(s) - k) : SubSeq(s, k + 1, Len(s))[i] = s[i + k]
BY SMTT(30)

\* Its first k units.
LEMMA CutFacts ==
    ASSUME NEW S, NEW s \in Seq(S), NEW k \in 0..Len(s)
    PROVE  /\ SubSeq(s, 1, k) \in Seq(S)
           /\ Len(SubSeq(s, 1, k)) = k
           /\ \A i \in 1..k : SubSeq(s, 1, k)[i] = s[i]
BY SMTT(30)

\* All but its first unit.
LEMMA TailFacts ==
    ASSUME NEW S, NEW s \in Seq(S), Len(s) >= 1
    PROVE  /\ Tail(s) \in Seq(S)
           /\ Len(Tail(s)) = Len(s) - 1
           /\ \A i \in 1..(Len(s) - 1) : Tail(s)[i] = s[i + 1]
           /\ Head(s) = s[1]
           /\ s[1] \in S
BY SMTT(30)

\* A sequence with an answer behind it.
LEMMA AnswerFacts ==
    ASSUME NEW S, NEW s \in Seq(S), NEW a \in S, NEW b \in S
    PROVE  /\ s \o <<a, b>> \in Seq(S)
           /\ Len(s \o <<a, b>>) = Len(s) + 2
           /\ \A i \in 1..Len(s) : (s \o <<a, b>>)[i] = s[i]
           /\ (s \o <<a, b>>)[Len(s) + 1] = a
           /\ (s \o <<a, b>>)[Len(s) + 2] = b
<1>1. <<a, b>> \in Seq(S) /\ Len(<<a, b>>) = 2
  OBVIOUS
<1> QED
  BY <1>1, SMTT(30)

\* A sequence with one more unit.
LEMMA AppendFacts ==
    ASSUME NEW S, NEW s \in Seq(S), NEW a \in S
    PROVE  /\ Append(s, a) \in Seq(S)
           /\ Len(Append(s, a)) = Len(s) + 1
           /\ \A i \in 1..Len(s) : Append(s, a)[i] = s[i]
           /\ Append(s, a)[Len(s) + 1] = a
BY SMTT(30)

\* The units of the calls.
LEMMA UnitFacts ==
    /\ \A n \in 1..MaxCalls : Size(n) \in Units /\ Body(n) \in Units
    /\ \A u \in Units :  /\ u.call \in 1..MaxCalls
                         /\ u.part \in {"size", "body"}
                         /\ u.part = "size" => u = Size(u.call)
                         /\ u.part = "body" => u = Body(u.call)
    /\ \A n : /\ Size(n).call = n /\ Size(n).part = "size"
              /\ Body(n).call = n /\ Body(n).part = "body"
<1>1. \A n \in 1..MaxCalls : Size(n) \in Units /\ Body(n) \in Units
  BY DEF Units
<1>2. \A n : /\ Size(n).call = n /\ Size(n).part = "size"
             /\ Body(n).call = n /\ Body(n).part = "body"
  BY DEF Size, Body
<1>3. ASSUME NEW u \in Units
      PROVE  /\ u.call \in 1..MaxCalls
             /\ u.part \in {"size", "body"}
             /\ u.part = "size" => u = Size(u.call)
             /\ u.part = "body" => u = Body(u.call)
  <2>1. CASE \E n \in 1..MaxCalls : u = Size(n)
    BY <1>2, <2>1
  <2>2. CASE \E n \in 1..MaxCalls : u = Body(n)
    BY <1>2, <2>2
  <2> QED
    BY <2>1, <2>2 DEF Units
<1> QED
  BY <1>1, <1>2, <1>3

\* A unit is the size or the body of its call.
LEMMA UnitShape ==
    ASSUME NEW u \in Units
    PROVE  /\ u.part = "size" => u = Size(u.call)
           /\ u.part = "body" => u = Body(u.call)
           /\ u.part \in {"size", "body"}
BY DEF Units, Size, Body

\* Every unit belongs to a call that is counted.
LEMMA UnitCalls == \A u \in Units : u.call \in 1..MaxCalls
BY DEF Units, Size, Body

\* Short sequences.
LEMMA ShortFacts ==
    ASSUME NEW a, NEW b
    PROVE  /\ Len(<<>>) = 0
           /\ Len(<<a>>) = 1 /\ Head(<<a>>) = a /\ Tail(<<a>>) = <<>>
           /\ Append(<<a>>, b) = <<a, b>>
           /\ Len(<<a, b>>) = 2 /\ Head(<<a, b>>) = a /\ Tail(<<a, b>>) = <<b>>
<1>1. Len(<<>>) = 0 /\ Len(<<a>>) = 1 /\ Len(<<a, b>>) = 2
  OBVIOUS
<1>2. Head(<<a>>) = a /\ Head(<<a, b>>) = a
  OBVIOUS
<1>3. Tail(<<a>>) = <<>>
  <2>1. <<a>> \in Seq({a}) /\ Len(<<a>>) = 1
    OBVIOUS
  <2>2. Tail(<<a>>) \in Seq({a}) /\ Len(Tail(<<a>>)) = 0
    BY <2>1, TailFacts
  <2> QED
    BY <2>2
<1>4. Append(<<a>>, b) = <<a, b>>
  <2> DEFINE S == {a, b}
  <2>1. <<a>> \in Seq(S) /\ Len(<<a>>) = 1 /\ <<a>>[1] = a
    OBVIOUS
  <2>2. /\ Append(<<a>>, b) \in Seq(S) /\ Len(Append(<<a>>, b)) = 2
        /\ Append(<<a>>, b)[1] = a /\ Append(<<a>>, b)[2] = b
    BY <2>1, AppendFacts
  <2>3. <<a, b>> \in Seq(S) /\ Len(<<a, b>>) = 2 /\ <<a, b>>[1] = a /\ <<a, b>>[2] = b
    OBVIOUS
  <2>4. \A i \in 1..2 : Append(<<a>>, b)[i] = <<a, b>>[i]
    BY <2>2, <2>3
  <2> QED
    BY <2>2, <2>3, <2>4, SeqEqual
<1>5. Tail(<<a, b>>) = <<b>>
  <2> DEFINE S == {a, b}
  <2>1. <<a, b>> \in Seq(S) /\ Len(<<a, b>>) >= 1 /\ <<a, b>>[2] = b
    OBVIOUS
  <2>2. Tail(<<a, b>>) \in Seq(S) /\ Len(Tail(<<a, b>>)) = 1 /\ Tail(<<a, b>>)[1] = b
    BY <2>1, TailFacts
  <2> QED
    BY <2>2
<1> QED
  BY <1>1, <1>2, <1>3, <1>4, <1>5

----------------------------------------------------------------------------
(* The steps, by what they do to the units from the daemon *)

\* How many units a step takes from the front of back.
Drops(k) ==
    /\ k \in 0..Len(back)
    /\ back' \in Seq(Units)
    /\ Len(back') = Len(back) - k
    /\ \A i \in 1..(Len(back) - k) : back'[i] = back[i + k]

\* How many units there are, have arrived and are buffered.
LEMMA Counts ==
    ASSUME RustClientTypeOK
    PROVE  /\ back \in Seq(Units) /\ Len(back) \in Nat
           /\ arrived \in Nat /\ arrived <= Len(back)
           /\ buffered \in Nat /\ buffered <= arrived
<1>1. back \in Seq(Units) /\ arrived \in 0..Len(back) /\ buffered \in 0..arrived
  BY DEF RustClientTypeOK
<1>2. Len(back) \in Nat
  BY <1>1
<1> QED
  BY <1>1, <1>2

\* A call that fails drops what the CodedInputStream has read, and no more.
LEMMA AbandonDrops ==
    ASSUME RustClientTypeOK, Abandon
    PROVE  Drops(buffered)
<1>1. buffered \in 0..Len(back) /\ back \in Seq(Units)
  BY Counts
<1>2. back' = SubSeq(back, buffered + 1, Len(back))
  BY DEF Abandon
<1> QED
  BY <1>1, <1>2, DropFacts DEF Drops

\* Reading a size uses up one unit.
LEMMA ReadSizeDrops ==
    ASSUME RustClientTypeOK, ReadSize
    PROVE  /\ Drops(1)
           /\ Len(back) >= 1
           /\ Head(back) = back[1]
           /\ back[1] \in Units
<1>1. buffered > 0 /\ back' = Tail(back)
  BY DEF ReadSize
<1>2. Len(back) >= 1 /\ back \in Seq(Units) /\ Len(back) \in Nat
  BY <1>1, Counts
<1>3. 1 \in 0..Len(back)
  BY <1>2
<1> QED
  BY <1>1, <1>2, <1>3, TailFacts DEF Drops

\* Reading a body uses up the unit and drops what was read beyond it.
LEMMA ReadBodyDrops ==
    ASSUME RustClientTypeOK, ReadBody
    PROVE  /\ Drops(buffered)
           /\ buffered >= 1
           /\ Len(back) >= 1
           /\ Head(back) = back[1]
           /\ back[1] \in Units
<1>1. buffered > 0 /\ back' = SubSeq(back, buffered + 1, Len(back))
  BY DEF ReadBody
<1>2. /\ buffered \in 0..Len(back) /\ buffered >= 1
      /\ back \in Seq(Units) /\ Len(back) >= 1
  BY <1>1, Counts
<1>3. Drops(buffered)
  BY <1>1, <1>2, DropFacts DEF Drops
<1>4. Head(back) = back[1] /\ back[1] \in Units
  BY <1>2, TailFacts
<1> QED
  BY <1>2, <1>3, <1>4

\* A call that has lost its step uses up all that has arrived.
LEMMA SwallowDrops ==
    ASSUME RustClientTypeOK, Swallow
    PROVE  Drops(arrived)
<1>1. arrived \in 0..Len(back) /\ back \in Seq(Units)
  BY Counts
<1>2. back' = SubSeq(back, arrived + 1, Len(back))
  BY DEF Swallow
<1> QED
  BY <1>1, <1>2, DropFacts DEF Drops

\* The daemon takes the first two units of up.
LEMMA ReceiveTakes ==
    ASSUME RustClientTypeOK, Receive
    PROVE  /\ Len(up') = Len(up) - 2
           /\ \A i \in 1..Len(up') : i + 2 \in 1..Len(up) /\ up'[i] = up[i + 2]
<1> DEFINE s == Tail(up)
<1>1. up \in Seq(Units) /\ Len(up) >= 2 /\ up' = Tail(s)
  BY Zenon DEF RustClientTypeOK, Receive
<1>2. Len(up) \in Nat /\ Len(up) >= 1
  BY <1>1
<1>3. s \in Seq(Units) /\ Len(s) = Len(up) - 1 /\ \A i \in 1..(Len(up) - 1) : s[i] = up[i + 1]
  BY <1>1, <1>2, TailFacts
<1> HIDE DEF s
<1>4. Len(s) >= 1
  BY <1>1, <1>2, <1>3
<1>5. Len(up') = Len(s) - 1 /\ \A i \in 1..(Len(s) - 1) : up'[i] = s[i + 1]
  BY <1>1, <1>3, <1>4, TailFacts
<1>6. Len(up') = Len(up) - 2
  BY <1>2, <1>3, <1>5
<1> SUFFICES ASSUME NEW i \in 1..Len(up')
             PROVE  i + 2 \in 1..Len(up) /\ up'[i] = up[i + 2]
  BY <1>6
<1>7. i \in 1..(Len(s) - 1) /\ i + 1 \in 1..(Len(up) - 1) /\ i \in Nat
  BY <1>2, <1>3, <1>5, <1>6
<1>8. up'[i] = s[i + 1] /\ s[i + 1] = up[(i + 1) + 1]
  BY <1>3, <1>5, <1>7, Zenon
<1> QED
  BY <1>2, <1>6, <1>7, <1>8

\* The daemon drops units of a frame that it misreads.
LEMMA MisreadDrops ==
    ASSUME RustClientTypeOK, Misread
    PROVE  \E k \in 1..Len(up) :
              /\ up' \in Seq(Units)
              /\ Len(up') = Len(up) - k
              /\ \A i \in 1..Len(up') : i + k \in 1..Len(up) /\ up'[i] = up[i + k]
<1>1. up \in Seq(Units) /\ Len(up) \in Nat
  <2>1. up \in Seq(Units)
    BY DEF RustClientTypeOK
  <2> QED
    BY <2>1
<1>2. PICK k \in 1..Len(up) : up' = SubSeq(up, k + 1, Len(up))
  BY DEF Misread
<1>3. k \in 0..Len(up)
  BY <1>1
<1>4. /\ up' \in Seq(Units) /\ Len(up') = Len(up) - k
      /\ \A i \in 1..(Len(up) - k) : up'[i] = up[i + k]
  BY <1>1, <1>2, <1>3, DropFacts
<1>5. \A i \in 1..Len(up') : i + k \in 1..Len(up) /\ up'[i] = up[i + k]
  BY <1>1, <1>3, <1>4
<1> QED
  BY <1>4, <1>5

----------------------------------------------------------------------------
(* Types *)

\* A call that fails leaves the types as they are.
LEMMA AbandonType ==
    ASSUME RustClientTypeOK, Abandon
    PROVE  RustClientTypeOK'
<1>1. Drops(buffered)
  BY AbandonDrops
<1>2. back' \in Seq(Units) /\ arrived' \in 0..Len(back') /\ buffered' \in 0..arrived'
  BY <1>1, Counts DEF Abandon, Drops
<1> QED
  BY <1>2 DEF RustClientTypeOK, Abandon, clientVars

\* Each step keeps the types.
LEMMA TypeStep ==
    ASSUME IInv, [Next]_vars
    PROVE  RustClientTypeOK'
<1> USE DEF clientVars, channel, historyVars
<1>0. RustClientTypeOK /\ OnePlace
  BY DEF IInv
<1>1. CASE Connect
  <2>1. /\ back' = <<>> /\ up' = <<>> /\ arrived' = 0 /\ buffered' = 0
        /\ timeout \in Timeouts /\ limit' = timeout
    BY <1>0, <1>1 DEF RustClientTypeOK, Connect
  <2>2. /\ back' \in Seq(Units) /\ up' \in Seq(Units) /\ limit' \in Timeouts \cup {0}
        /\ arrived' \in 0..Len(back') /\ buffered' \in 0..arrived'
    BY <2>1
  <2> QED
    BY <1>0, <1>1, <2>2, Zenon DEF RustClientTypeOK, Connect
<1>2. ASSUME NEW t \in Timeouts, SetTimeout(t)
      PROVE  RustClientTypeOK'
  BY <1>0, <1>2 DEF RustClientTypeOK, SetTimeout
<1>3. CASE Begin
  <2>1. calls' \in 0..MaxCalls /\ pending' \subseteq 1..calls' /\ told' \subseteq 1..calls'
    BY <1>0, <1>3, ClientAssumption DEF RustClientTypeOK, Begin
  <2> QED
    BY <1>0, <1>3, <2>1 DEF RustClientTypeOK, Begin
<1>4. CASE NotSent
  BY <1>0, <1>4, AbandonType DEF NotSent
<1>5. CASE WriteSize
  <2>1. calls \in 1..MaxCalls
    <3>1. calls \in 0..MaxCalls /\ calls >= 1
      BY <1>0, <1>5 DEF RustClientTypeOK, WriteSize, IInv, NotYet
    <3> QED
      BY <3>1, ClientAssumption
  <2>2. up' \in Seq(Units)
    BY <1>0, <1>5, <2>1, UnitFacts, AppendFacts DEF RustClientTypeOK, WriteSize
  <2> QED
    BY <1>0, <1>5, <2>2 DEF RustClientTypeOK, WriteSize
<1>6. CASE WriteBody
  <2>1. calls \in 1..MaxCalls
    <3>1. calls \in 0..MaxCalls /\ calls >= 1
      BY <1>0, <1>6 DEF RustClientTypeOK, WriteBody, IInv, NotYet
    <3> QED
      BY <3>1, ClientAssumption
  <2>2. up' \in Seq(Units)
    BY <1>0, <1>6, <2>1, UnitFacts, AppendFacts DEF RustClientTypeOK, WriteBody
  <2> QED
    BY <1>0, <1>6, <2>2 DEF RustClientTypeOK, WriteBody
<1>7. CASE Peek
  BY <1>0, <1>7 DEF RustClientTypeOK, Peek
<1>8. CASE Fill
  <2>1. buffered' \in 0..arrived
    <3>1. buffered' \in 1..arrived
      BY <1>8 DEF Fill
    <3> QED
      BY <1>0, <3>1, Counts
  <2> QED
    BY <1>0, <1>8, <2>1 DEF RustClientTypeOK, Fill
<1>9. CASE ReadSize
  <2>1. Drops(1)
    BY <1>0, <1>9, ReadSizeDrops
  <2>2. back' \in Seq(Units) /\ arrived' \in 0..Len(back') /\ buffered' \in 0..arrived'
    <3>1. buffered > 0 /\ arrived' = arrived - 1 /\ buffered' = buffered - 1
      BY <1>9 DEF ReadSize
    <3> QED
      BY <1>0, <2>1, <3>1, Counts DEF Drops
  <2> QED
    BY <1>0, <1>9, <2>2 DEF RustClientTypeOK, ReadSize
<1>10. CASE ReadBody
  <2>1. Drops(buffered) /\ Head(back) = back[1] /\ back[1] \in Units /\ Len(back) >= 1
    BY <1>0, <1>10, ReadBodyDrops
  <2>2. back' \in Seq(Units) /\ arrived' \in 0..Len(back') /\ buffered' \in 0..arrived'
    <3>1. arrived' = arrived - buffered /\ buffered' = 0
      BY <1>10 DEF ReadBody
    <3> QED
      BY <1>0, <2>1, <3>1, Counts DEF Drops
  <2>3. 1 \in 1..Len(back)
    BY <1>0, <2>1, Counts
  <2>4. Head(back).call \in 1..calls
    BY <1>0, <2>1, <2>3 DEF OnePlace, Apart
  <2>5. Head(back).call \in 1..MaxCalls
    BY <2>1, UnitCalls, Zenon
  <2>6. told' \subseteq 1..calls' /\ outcome' \in 1..MaxCalls
    BY <1>0, <1>10, <2>4, <2>5 DEF RustClientTypeOK, ReadBody
  <2> QED
    BY <1>0, <1>10, <2>2, <2>6 DEF RustClientTypeOK, ReadBody
<1>11. CASE Swallow
  <2>1. Drops(arrived)
    BY <1>0, <1>11, SwallowDrops
  <2>2. back' \in Seq(Units) /\ arrived' \in 0..Len(back') /\ buffered' \in 0..arrived'
    BY <1>0, <1>11, <2>1, Counts DEF Swallow, Drops
  <2> QED
    BY <1>0, <1>11, <2>2 DEF RustClientTypeOK, Swallow
<1>12. CASE GiveUp
  BY <1>0, <1>12, AbandonType DEF GiveUp
<1>13. CASE Receive
  <2>1. up \in Seq(Units) /\ Len(up) >= 2 /\ Len(up) \in Nat
    <3>1. up \in Seq(Units) /\ Len(up) >= 2
      BY <1>0, <1>13, Zenon DEF RustClientTypeOK, Receive
    <3> QED
      BY <3>1
  <2>2. Tail(up) \in Seq(Units) /\ Len(Tail(up)) >= 1
    BY <2>1, TailFacts
  <2>3. up' \in Seq(Units)
    BY <1>13, <2>2, TailFacts DEF Receive
  <2>4. 1 \in 1..Len(up)
    BY <2>1
  <2>5. up[1].call \in 1..calls
    BY <1>0, <2>4 DEF OnePlace, Apart
  <2> QED
    BY <1>0, <1>13, <2>3, <2>5 DEF RustClientTypeOK, Receive
<1>19. CASE Misread
  <2>1. up' \in Seq(Units)
    BY <1>0, <1>19, MisreadDrops
  <2> QED
    BY <1>0, <1>19, <2>1, Zenon DEF RustClientTypeOK, Misread
<1>14. ASSUME NEW n \in pending, Answer(n)
       PROVE  RustClientTypeOK'
  <2>1. n \in 1..MaxCalls
    <3>1. calls \in 0..MaxCalls /\ n \in 1..calls
      BY <1>0, <1>14, Zenon DEF RustClientTypeOK
    <3> QED
      BY <3>1, ClientAssumption
  <2>2. /\ back' \in Seq(Units) /\ Len(back') = Len(back) + 2
    BY <1>0, <1>14, <2>1, UnitFacts, AnswerFacts, Counts DEF Answer
  <2>3. arrived' \in 0..Len(back') /\ buffered' \in 0..arrived'
    BY <1>0, <1>14, <2>2, Counts DEF Answer
  <2> QED
    BY <1>0, <1>14, <2>2, <2>3 DEF RustClientTypeOK, Answer
<1>15. CASE Deliver
  <2>1. arrived' \in 0..Len(back) /\ buffered \in 0..arrived'
    BY <1>0, <1>15, Counts DEF Deliver
  <2> QED
    BY <1>0, <1>15, <2>1 DEF RustClientTypeOK, Deliver
<1>16. CASE Close
  <2>1. PICK k \in arrived..Len(back) : back' = SubSeq(back, 1, k)
    BY <1>16 DEF Close
  <2>2. k \in 0..Len(back)
    BY <1>0, <2>1, Counts
  <2>3. back' \in Seq(Units) /\ Len(back') = k
    BY <1>0, <2>1, <2>2, CutFacts, Counts
  <2>4. arrived' \in 0..Len(back') /\ buffered' \in 0..arrived'
    BY <1>0, <1>16, <2>1, <2>3, Counts DEF Close
  <2> QED
    BY <1>0, <1>16, <2>3, <2>4 DEF RustClientTypeOK, Close
<1>17. CASE UNCHANGED vars
  BY <1>0, <1>17 DEF RustClientTypeOK, vars
<1> QED
  BY <1>1, <1>2, <1>3, <1>4, <1>5, <1>6, <1>7, <1>8, <1>9, <1>10, <1>11, <1>12, <1>13,
     <1>14, <1>15, <1>16, <1>17, <1>19, ClientAssumption
     DEF Next, InCall, ResetTimeoutToDefault

----------------------------------------------------------------------------
(* The socket's timeout *)

\* Each step keeps a timeout on the socket.
LEMMA SocketStep ==
    ASSUME IInv, [Next]_vars
    PROVE  SocketHasTimeout'
<1> USE DEF clientVars, SocketHasTimeout
<1>0. SocketHasTimeout
  BY DEF IInv
<1>1. CASE Connect
  BY <1>1 DEF Connect
<1>2. ASSUME NEW t \in Timeouts, SetTimeout(t)
      PROVE  SocketHasTimeout'
  BY <1>0, <1>2 DEF SetTimeout
<1>3. CASE UNCHANGED clientVars
  BY <1>0, <1>3
<1>4. \/ Connect
      \/ \E t \in Timeouts : SetTimeout(t)
      \/ UNCHANGED clientVars
  BY ClientAssumption, Zenon
     DEF Next, InCall, vars, ResetTimeoutToDefault, Begin, NotSent, Abandon, WriteSize, WriteBody,
         Peek, Fill, ReadSize, ReadBody, Swallow, GiveUp, Receive, Misread, Answer, Deliver, Close
<1> QED
  BY <1>1, <1>2, <1>3, <1>4

----------------------------------------------------------------------------
(* Call and connection in step *)

\* Each step keeps the connection of a client without a failed call in step.
LEMMA InStepStep ==
    ASSUME IInv, [Next]_vars
    PROVE  InStep'
<1> USE DEF clientVars, channel, historyVars
<1>0. RustClientTypeOK /\ InStep /\ NotYet
  BY DEF IInv
<1>1. CASE Connect
  BY <1>1 DEF InStep, Connect
<1>2. ASSUME NEW t \in Timeouts, SetTimeout(t)
      PROVE  InStep'
  BY <1>0, <1>2, Zenon DEF InStep, SetTimeout
<1>3. CASE Begin
  BY <1>0, <1>3 DEF InStep, Begin
<1>4. CASE Abandon
  BY <1>4 DEF InStep, Abandon
<1>5. CASE WriteSize
  BY <1>0, <1>5 DEF InStep, WriteSize
<1>6. CASE WriteBody
  <2> SUFFICES ASSUME ~failed
               PROVE  InStep'
    BY <1>6 DEF InStep, WriteBody
  <2>1. up = <<Size(calls)>> /\ pending = {} /\ back = <<>>
    BY <1>0, <1>6 DEF InStep, WriteBody
  <2>2. up' = <<Size(calls), Body(calls)>>
    BY <1>6, <2>1, ShortFacts DEF WriteBody
  <2> QED
    BY <1>6, <2>1, <2>2 DEF InStep, WriteBody
<1>7. CASE Peek
  BY <1>0, <1>7 DEF InStep, Peek
<1>8. CASE Fill
  BY <1>0, <1>8 DEF InStep, Fill
<1>9. CASE ReadSize
  <2>1. Len(back) >= 1
    BY <1>0, <1>9, ReadSizeDrops
  <2> SUFFICES ASSUME ~failed
               PROVE  InStep'
    BY <1>9 DEF InStep, ReadSize
  <2>2. /\ up = <<>> /\ pending = {}
        /\ back \in {<<Size(calls)>>, <<Size(calls), Body(calls)>>}
    <3>1. back # <<>>
      BY <2>1, ShortFacts
    <3> QED
      BY <1>0, <1>9, <3>1, Zenon DEF InStep, ReadSize
  <2>3. Head(back) = Size(calls) /\ Tail(back) \in {<<>>, <<Body(calls)>>}
    BY <2>2, ShortFacts, Zenon
  <2>4. phase' = "reading body"
    BY <1>9, <2>3, UnitFacts DEF ReadSize
  <2> QED
    BY <1>9, <2>2, <2>3, <2>4 DEF InStep, ReadSize
<1>10. CASE ReadBody
  <2>1. Len(back) >= 1 /\ Drops(buffered) /\ buffered >= 1
    BY <1>0, <1>10, ReadBodyDrops
  <2> SUFFICES ASSUME ~failed
               PROVE  InStep'
    BY <1>10 DEF InStep, ReadBody
  <2>2. up = <<>> /\ pending = {} /\ back = <<Body(calls)>>
    <3>1. back # <<>>
      BY <2>1, ShortFacts
    <3> QED
      BY <1>0, <1>10, <3>1, Zenon DEF InStep, ReadBody
  <2>3. Len(back) = 1
    BY <2>2
  <2>4. back' = <<>>
    BY <1>0, <2>1, <2>3, Counts DEF Drops
  <2> QED
    BY <1>10, <2>2, <2>4 DEF InStep, ReadBody
<1>11. CASE Swallow
  BY <1>0, <1>11 DEF InStep, Swallow
<1>13. CASE Receive
  <2> SUFFICES ASSUME ~failed
               PROVE  InStep'
    BY <1>13 DEF InStep, Receive
  <2>1. Len(up) >= 2
    BY <1>13, Zenon DEF Receive
  <2>2. /\ phase \in {"peeking", "reading size"}
        /\ up = <<Size(calls), Body(calls)>> /\ pending = {} /\ back = <<>>
    <3>1. up # <<>> /\ up # <<Size(calls)>>
      BY <2>1, ShortFacts
    <3>2. phase \in {"idle", "begun", "sized", "peeking", "reading size", "reading body", "lost"}
      BY <1>0 DEF RustClientTypeOK
    <3> QED
      BY <1>0, <3>1, <3>2, Zenon DEF InStep
  <2>3. up[1].call = calls /\ Tail(Tail(up)) = <<>>
    <3>1. up[1] = Size(calls)
      BY <2>2
    <3>2. Size(calls).call = calls
      BY DEF Size
    <3>3. Tail(up) = <<Body(calls)>>
      BY <2>2, ShortFacts
    <3>4. Tail(<<Body(calls)>>) = <<>>
      BY ShortFacts
    <3> QED
      BY <3>1, <3>2, <3>3, <3>4, Zenon
  <2>4. up' = <<>> /\ pending' = {calls} /\ back' = <<>> /\ phase' = phase /\ calls' = calls
    BY <1>13, <2>2, <2>3 DEF Receive
  <2> QED
    BY <2>2, <2>4 DEF InStep
<1>19. CASE Misread
  <2> SUFFICES ASSUME ~failed
               PROVE  FALSE
    BY <1>19 DEF InStep, Misread
  <2>1. /\ up # <<>>
        /\ up[1].part = "body" \/ (Len(up) >= 2 /\ up[2] # Body(up[1].call))
    BY <1>19, Zenon DEF Misread
  <2>2. up = <<Size(calls)>> \/ up = <<Size(calls), Body(calls)>>
    <3>1. phase \in {"idle", "begun", "sized", "peeking", "reading size", "reading body", "lost"}
      BY <1>0 DEF RustClientTypeOK
    <3> QED
      BY <1>0, <2>1, <3>1, Zenon DEF InStep
  <2>3. up[1] = Size(calls) /\ (Len(up) >= 2 => up[2] = Body(calls))
    BY <2>2
  <2>4. Size(calls).part = "size" /\ Size(calls).call = calls
    BY DEF Size
  <2> QED
    BY <2>1, <2>3, <2>4, Zenon
<1>14. ASSUME NEW n \in pending, Answer(n)
       PROVE  InStep'
  <2> SUFFICES ASSUME ~failed
               PROVE  InStep'
    BY <1>14 DEF InStep, Answer
  <2>1. /\ phase \in {"peeking", "reading size"}
        /\ up = <<>> /\ pending = {calls} /\ back = <<>>
    BY <1>0 DEF InStep, RustClientTypeOK
  <2>2. back' = <<>> \o <<Size(calls), Body(calls)>>
    BY <1>14, <2>1 DEF Answer
  <2>3. back' = <<Size(calls), Body(calls)>>
    BY <2>2
  <2>4. up' = <<>> /\ pending' = {} /\ phase' = phase /\ calls' = calls
    BY <1>14, <2>1 DEF Answer
  <2> QED
    BY <2>1, <2>3, <2>4 DEF InStep
<1>15. CASE Deliver
  BY <1>0, <1>15 DEF InStep, Deliver
<1>16. CASE Close
  <2> SUFFICES ASSUME ~failed
               PROVE  InStep'
    BY <1>16 DEF InStep, Close
  <2>1. PICK k \in arrived..Len(back) : back' = SubSeq(back, 1, k)
    BY <1>16 DEF Close
  <2>2. k \in 0..Len(back)
    BY <1>0, <2>1, Counts
  <2>3. back' \in Seq(Units) /\ Len(back') = k /\ \A i \in 1..k : back'[i] = back[i]
    BY <1>0, <2>1, <2>2, CutFacts, Counts
  <2>4. back = <<>> => back' = <<>>
    BY <2>2, <2>3
  <2>5. back = <<Size(calls)>> => back' \in {<<>>, <<Size(calls)>>}
    BY <2>2, <2>3
  <2>6. back = <<Body(calls)>> => back' \in {<<>>, <<Body(calls)>>}
    BY <2>2, <2>3
  <2>7. back = <<Size(calls), Body(calls)>> =>
            back' \in {<<>>, <<Size(calls)>>, <<Size(calls), Body(calls)>>}
    BY <2>2, <2>3
  <2>8. pending' = {} /\ up' = up /\ phase' = phase /\ calls' = calls /\ failed' = failed
    BY <1>16 DEF Close
  <2> QED
    BY <1>0, <2>4, <2>5, <2>6, <2>7, <2>8 DEF InStep
<1>17. CASE UNCHANGED vars
  BY <1>0, <1>17, Zenon DEF InStep, vars
<1> QED
  BY <1>1, <1>2, <1>3, <1>4, <1>5, <1>6, <1>7, <1>8, <1>9, <1>10, <1>11, <1>13,
     <1>14, <1>15, <1>16, <1>17, <1>19, ClientAssumption
     DEF Next, InCall, ResetTimeoutToDefault, NotSent, GiveUp

----------------------------------------------------------------------------
(* Each call at one place *)

\* Dropping units from the front keeps them distinct and loses calls only.
LEMMA DropKeeps ==
    ASSUME NEW k, Drops(k), Len(back) \in Nat
    PROVE  /\ Distinct(back) => Distinct(back')
           /\ CallsOf(back') \subseteq CallsOf(back)
           /\ \A i \in 1..Len(back') : i + k \in 1..Len(back) /\ back'[i] = back[i + k]
<1>1. k \in Nat /\ Len(back') = Len(back) - k
  BY DEF Drops
<1>2. \A i \in 1..Len(back') : i + k \in 1..Len(back) /\ back'[i] = back[i + k]
  BY <1>1 DEF Drops
<1>3. Distinct(back) => Distinct(back')
  <2> SUFFICES ASSUME Distinct(back), NEW i \in 1..Len(back'), NEW j \in 1..Len(back'),
                      back'[i] = back'[j]
               PROVE  i = j
    BY DEF Distinct
  <2>1. i + k = j + k
    BY <1>2, Zenon DEF Distinct
  <2> QED
    BY <1>1, <2>1
<1>4. CallsOf(back') \subseteq CallsOf(back)
  BY <1>2 DEF CallsOf
<1> QED
  BY <1>2, <1>3, <1>4

\* A step that takes units from the front of back, and leaves the rest of the
\* connection, keeps every call at one place.
LEMMA DropOnePlace ==
    ASSUME OnePlace, NEW k, Drops(k), Len(back) \in Nat,
           UNCHANGED <<calls, up, pending>>,
           told' = told
    PROVE  OnePlace'
<1>1. /\ Distinct(back') /\ CallsOf(back') \subseteq CallsOf(back)
      /\ \A i \in 1..Len(back') : i + k \in 1..Len(back) /\ back'[i] = back[i + k]
  BY DropKeeps DEF OnePlace
<1>2. \A i \in 1..Len(back') : back'[i].call \in (1..calls) \ pending
  BY <1>1 DEF OnePlace, Apart
<1>3. \A i \in 1..Len(up) :
          up[i].call \in (1..calls) \ (pending \cup told \cup CallsOf(back'))
  BY <1>1 DEF OnePlace, Apart
<1> QED
  BY <1>1, <1>2, <1>3 DEF OnePlace, Apart, Distinct, CallsOf

\* Each step keeps every call at one place.
LEMMA OnePlaceStep ==
    ASSUME IInv, [Next]_vars
    PROVE  OnePlace'
<1> USE DEF clientVars, channel, historyVars
<1>0. RustClientTypeOK /\ OnePlace /\ NotTold /\ NotYet /\ Aligned
  BY DEF IInv
<1>a. calls \in Nat /\ up \in Seq(Units) /\ Len(up) \in Nat
  <2>1. calls \in 0..MaxCalls /\ up \in Seq(Units)
    BY <1>0 DEF RustClientTypeOK
  <2> QED
    BY <2>1, ClientAssumption
<1>1. CASE Connect
  <2>1. up' = <<>> /\ back' = <<>> /\ pending' = {}
    BY <1>1 DEF Connect
  <2>2. Len(up') = 0 /\ Len(back') = 0
    BY <2>1
  <2> QED
    BY <2>1, <2>2 DEF OnePlace, Distinct, Apart, CallsOf
<1>3. CASE Begin
  <2>1. 1..calls \subseteq 1..calls'
    BY <1>3, <1>a DEF Begin
  <2> QED
    BY <1>0, <1>3, <2>1 DEF Begin, OnePlace, Distinct, Apart, CallsOf
<1>4. CASE Abandon
  <2>1. Drops(buffered) /\ Len(back) \in Nat
    BY <1>0, <1>4, AbandonDrops, Counts
  <2> QED
    BY <1>0, <1>4, <2>1, DropOnePlace DEF Abandon
<1>5. CASE WriteSize
  <2>1. calls \in 1..MaxCalls /\ calls \notin pending \cup told \cup CallsOf(back)
    <3>1. calls \in 0..MaxCalls /\ calls >= 1
      BY <1>0, <1>5 DEF RustClientTypeOK, NotYet, WriteSize
    <3> QED
      BY <1>0, <1>5, <3>1, ClientAssumption DEF NotYet, WriteSize
  <2>2. calls \notin CallsOf(up)
    BY <1>0, <1>5 DEF NotYet, WriteSize
  <2>3. /\ Len(up') = Len(up) + 1
        /\ \A i \in 1..Len(up) : up'[i] = up[i]
        /\ up'[Len(up) + 1] = Size(calls)
    BY <1>5, <1>a, <2>1, UnitFacts, AppendFacts DEF WriteSize
  <2>4. \A i \in 1..Len(up) : up[i] # Size(calls)
    BY <2>2, UnitFacts DEF CallsOf
  <2>5. Distinct(up')
    BY <1>0, <1>a, <2>3, <2>4 DEF OnePlace, Distinct
  <2>6. \A i \in 1..Len(up') :
            up'[i].call \in (1..calls) \ (pending \cup told \cup CallsOf(back))
    <3>1. Size(calls).call = calls /\ calls \in 1..calls
      BY <1>a, <2>1, UnitFacts
    <3>2. \A i \in 1..Len(up') : i \in 1..Len(up) \/ i = Len(up) + 1
      BY <1>a, <2>3
    <3> QED
      BY <1>0, <2>1, <2>3, <3>1, <3>2 DEF OnePlace, Apart
  <2>7. UNCHANGED <<back, pending, told, calls>>
    BY <1>5 DEF WriteSize
  <2> QED
    BY <1>0, <2>5, <2>6, <2>7 DEF OnePlace, Apart, Distinct, CallsOf
<1>6. CASE WriteBody
  <2>1. calls \in 1..MaxCalls /\ calls \notin pending \cup told \cup CallsOf(back)
    <3>1. calls \in 0..MaxCalls /\ calls >= 1
      BY <1>0, <1>6 DEF RustClientTypeOK, NotYet, WriteBody
    <3> QED
      BY <1>0, <1>6, <3>1, ClientAssumption DEF NotYet, WriteBody
  <2>3. /\ Len(up') = Len(up) + 1
        /\ \A i \in 1..Len(up) : up'[i] = up[i]
        /\ up'[Len(up) + 1] = Body(calls)
    BY <1>6, <1>a, <2>1, UnitFacts, AppendFacts DEF WriteBody
  <2>4. \A i \in 1..Len(up) : up[i] # Body(calls)
    BY <1>0, <1>6 DEF NotYet, WriteBody
  <2>5. Distinct(up')
    BY <1>0, <1>a, <2>3, <2>4 DEF OnePlace, Distinct
  <2>6. \A i \in 1..Len(up') :
            up'[i].call \in (1..calls) \ (pending \cup told \cup CallsOf(back))
    <3>1. Body(calls).call = calls /\ calls \in 1..calls
      BY <1>a, <2>1, UnitFacts
    <3>2. \A i \in 1..Len(up') : i \in 1..Len(up) \/ i = Len(up) + 1
      BY <1>a, <2>3
    <3> QED
      BY <1>0, <2>1, <2>3, <3>1, <3>2 DEF OnePlace, Apart
  <2>7. UNCHANGED <<back, pending, told, calls>>
    BY <1>6 DEF WriteBody
  <2> QED
    BY <1>0, <2>5, <2>6, <2>7 DEF OnePlace, Apart, Distinct, CallsOf
<1>9. CASE ReadSize
  <2>1. Drops(1) /\ Len(back) \in Nat
    BY <1>0, <1>9, ReadSizeDrops, Counts
  <2> QED
    BY <1>0, <1>9, <2>1, DropOnePlace DEF ReadSize
<1>10. CASE ReadBody
  <2>1. /\ Drops(buffered) /\ Len(back) \in Nat /\ Len(back) >= 1
        /\ Head(back) = back[1] /\ 1 \in 1..Len(back)
    BY <1>0, <1>10, ReadBodyDrops, Counts
  <2>2. /\ Distinct(back') /\ CallsOf(back') \subseteq CallsOf(back)
        /\ \A i \in 1..Len(back') : i + buffered \in 1..Len(back) /\ back'[i] = back[i + buffered]
    BY <1>0, <2>1, DropKeeps DEF OnePlace
  <2>3. UNCHANGED <<up, pending, calls>> /\ told' = told \cup {back[1].call}
    BY <1>10, <2>1 DEF ReadBody
  <2>4. back[1].call \in CallsOf(back) /\ back[1].call \notin pending
    BY <1>0, <2>1 DEF CallsOf, OnePlace, Apart
  <2>5. \A i \in 1..Len(back') : back'[i].call \in (1..calls) \ pending
    BY <1>0, <2>2 DEF OnePlace, Apart
  <2>6. \A i \in 1..Len(up) :
            up[i].call \in (1..calls) \ (pending \cup told' \cup CallsOf(back'))
    BY <1>0, <2>2, <2>3, <2>4 DEF OnePlace, Apart
  <2>7. pending \cap told' = {}
    BY <1>0, <2>3, <2>4 DEF OnePlace
  <2> QED
    BY <1>0, <2>2, <2>3, <2>5, <2>6, <2>7 DEF OnePlace, Apart, Distinct, CallsOf
<1>11. CASE Swallow
  <2>1. Drops(arrived) /\ Len(back) \in Nat
    BY <1>0, <1>11, SwallowDrops, Counts
  <2> QED
    BY <1>0, <1>11, <2>1, DropOnePlace DEF Swallow
<1>13. CASE Receive
  <2>1. /\ Len(up) >= 2 /\ up[1].part = "size" /\ up[2] = Body(up[1].call)
        /\ pending' = pending \cup {up[1].call} /\ up' = Tail(Tail(up))
        /\ UNCHANGED <<calls, back, told>>
    BY <1>13, Zenon DEF Receive
  <2>3. /\ Len(up') = Len(up) - 2
        /\ \A i \in 1..Len(up') : i + 2 \in 1..Len(up) /\ up'[i] = up[i + 2]
    BY <1>0, <1>13, ReceiveTakes
  <2>4. 1 \in 1..Len(up) /\ 2 \in 1..Len(up)
    BY <1>a, <2>1
  <2>5. /\ up[1] \in Units /\ up[1] = Size(up[1].call)
        /\ up[1].call \in (1..calls) \ (pending \cup told \cup CallsOf(back))
    <3>1. up[1] \in Units
      BY <1>a, <2>4
    <3> QED
      BY <1>0, <2>1, <2>4, <3>1, UnitShape DEF OnePlace, Apart
  <2>6. \A i \in 1..Len(up') : up'[i].call # up[1].call
    <3> SUFFICES ASSUME NEW i \in 1..Len(up'), up'[i].call = up[1].call
                 PROVE  FALSE
      OBVIOUS
    <3>1. i + 2 \in 1..Len(up) /\ up'[i] = up[i + 2] /\ up[i + 2] \in Units
      BY <1>a, <2>3
    <3>2. up[i + 2] = up[1] \/ up[i + 2] = up[2]
      BY <2>1, <2>5, <3>1, UnitShape
    <3>3. i + 2 = 1 \/ i + 2 = 2
      BY <1>0, <2>4, <3>1, <3>2, Zenon DEF OnePlace, Distinct
    <3> QED
      BY <3>3
  <2>7. Distinct(up')
    <3> SUFFICES ASSUME NEW i \in 1..Len(up'), NEW j \in 1..Len(up'), up'[i] = up'[j]
                 PROVE  i = j
      BY DEF Distinct
    <3>1. i + 2 = j + 2
      <4>1. i + 2 \in 1..Len(up) /\ j + 2 \in 1..Len(up) /\ up[i + 2] = up[j + 2]
        BY <2>3, Zenon
      <4> QED
        BY <1>0, <4>1, Zenon DEF OnePlace, Distinct
    <3> QED
      BY <3>1
  <2>8. \A i \in 1..Len(up') :
            up'[i].call \in (1..calls) \ (pending' \cup told \cup CallsOf(back))
    BY <1>0, <2>1, <2>3, <2>6 DEF OnePlace, Apart
  <2>9. \A i \in 1..Len(back) : back[i].call \in (1..calls) \ pending'
    BY <1>0, <2>1, <2>5 DEF OnePlace, Apart, CallsOf
  <2>10. pending' \cap told = {}
    BY <1>0, <2>1, <2>5 DEF OnePlace
  <2>11. UNCHANGED <<calls, back, told>>
    BY <2>1
  <2> QED
    BY <1>0, <2>7, <2>8, <2>9, <2>10, <2>11 DEF OnePlace, Apart, Distinct, CallsOf
<1>19. CASE Misread
  <2>1. PICK k \in 1..Len(up) :
           /\ up' \in Seq(Units)
           /\ Len(up') = Len(up) - k
           /\ \A i \in 1..Len(up') : i + k \in 1..Len(up) /\ up'[i] = up[i + k]
    BY <1>0, <1>19, MisreadDrops
  <2>2. UNCHANGED <<calls, pending, back, told>>
    BY <1>19 DEF Misread
  <2>3. Distinct(up')
    <3> SUFFICES ASSUME NEW i \in 1..Len(up'), NEW j \in 1..Len(up'), up'[i] = up'[j]
                 PROVE  i = j
      BY DEF Distinct
    <3>1. i + k = j + k
      <4>1. i + k \in 1..Len(up) /\ j + k \in 1..Len(up) /\ up[i + k] = up[j + k]
        BY <2>1, Zenon
      <4> QED
        BY <1>0, <4>1, Zenon DEF OnePlace, Distinct
    <3> QED
      BY <1>a, <2>1, <3>1
  <2>4. \A i \in 1..Len(up') :
            up'[i].call \in (1..calls) \ (pending \cup told \cup CallsOf(back))
    BY <1>0, <2>1 DEF OnePlace, Apart
  <2> QED
    BY <1>0, <2>2, <2>3, <2>4 DEF OnePlace, Apart, Distinct, CallsOf
<1>14. ASSUME NEW n \in pending, Answer(n)
       PROVE  OnePlace'
  <2>0. n \in 1..MaxCalls /\ n \in 1..calls
    <3>1. calls \in 0..MaxCalls /\ n \in 1..calls
      BY <1>0, <1>14, Zenon DEF RustClientTypeOK
    <3> QED
      BY <3>1, ClientAssumption
  <2>1. /\ back' = back \o <<Size(n), Body(n)>> /\ pending' = pending \ {n}
        /\ UNCHANGED <<up, told, calls>>
    BY <1>14, Zenon DEF Answer
  <2>2. back \in Seq(Units) /\ Len(back) \in Nat
    BY <1>0, Counts
  <2>3. /\ Len(back') = Len(back) + 2
        /\ \A i \in 1..Len(back) : back'[i] = back[i]
        /\ back'[Len(back) + 1] = Size(n) /\ back'[Len(back) + 2] = Body(n)
    BY <2>0, <2>1, <2>2, UnitFacts, AnswerFacts
  <2>4. \A i \in 1..Len(back') :
            i \in 1..Len(back) \/ i = Len(back) + 1 \/ i = Len(back) + 2
    BY <2>2, <2>3
  <2>5. \A i \in 1..Len(back) : back[i] # Size(n) /\ back[i] # Body(n)
    BY <1>0, <1>14, UnitFacts DEF OnePlace, Apart
  <2>6. Size(n) # Body(n)
    BY DEF Size, Body
  <2>7. Distinct(back')
    BY <1>0, <2>2, <2>3, <2>4, <2>5, <2>6 DEF OnePlace, Distinct
  <2>8. \A i \in 1..Len(back') : back'[i].call = n \/ (i \in 1..Len(back) /\ back'[i] = back[i])
    BY <2>3, <2>4, UnitFacts
  <2>9. \A i \in 1..Len(back') : back'[i].call \in (1..calls) \ pending'
    BY <1>0, <2>0, <2>1, <2>8 DEF OnePlace, Apart
  <2>10. CallsOf(back') \subseteq CallsOf(back) \cup {n}
    BY <2>8 DEF CallsOf
  <2>11. \A i \in 1..Len(up) :
            up[i].call \in (1..calls) \ (pending' \cup told \cup CallsOf(back'))
    BY <1>0, <1>14, <2>1, <2>10 DEF OnePlace, Apart
  <2>12. pending' \cap told = {}
    BY <1>0, <2>1 DEF OnePlace
  <2> QED
    BY <1>0, <2>1, <2>7, <2>9, <2>11, <2>12 DEF OnePlace, Apart, Distinct, CallsOf
<1>16. CASE Close
  <2>1. PICK k \in arrived..Len(back) : back' = SubSeq(back, 1, k)
    BY <1>16 DEF Close
  <2>2. k \in 0..Len(back) /\ back \in Seq(Units) /\ Len(back) \in Nat
    BY <1>0, <2>1, Counts
  <2>3. Len(back') = k /\ \A i \in 1..k : back'[i] = back[i] /\ i \in 1..Len(back)
    BY <2>1, <2>2, CutFacts
  <2>4. pending' = {} /\ UNCHANGED <<up, told, calls>>
    BY <1>16 DEF Close
  <2>5. Distinct(back') /\ CallsOf(back') \subseteq CallsOf(back)
    BY <1>0, <2>3 DEF OnePlace, Distinct, CallsOf
  <2>6. \A i \in 1..Len(back') : back'[i].call \in 1..calls
    BY <1>0, <2>3 DEF OnePlace, Apart
  <2>7. \A i \in 1..Len(up) : up[i].call \in (1..calls) \ (told \cup CallsOf(back'))
    BY <1>0, <2>5 DEF OnePlace, Apart
  <2> QED
    BY <1>0, <2>4, <2>5, <2>6, <2>7 DEF OnePlace, Apart, Distinct, CallsOf
<1>17. CASE UNCHANGED <<up, pending, back, told, calls>>
  BY <1>0, <1>17 DEF OnePlace, Distinct, Apart, CallsOf
<1>18. \/ Connect \/ Begin \/ Abandon \/ WriteSize \/ WriteBody \/ ReadSize \/ ReadBody
       \/ Swallow \/ Receive \/ Misread \/ (\E n \in pending : Answer(n)) \/ Close
       \/ UNCHANGED <<up, pending, back, told, calls>>
  BY Zenon DEF Next, InCall, vars, ResetTimeoutToDefault, SetTimeout, NotSent, GiveUp,
               Peek, Fill, Deliver
<1> QED
  BY <1>1, <1>3, <1>4, <1>5, <1>6, <1>9, <1>10, <1>11, <1>13, <1>14, <1>16, <1>17, <1>18, <1>19

----------------------------------------------------------------------------
(* No answer twice *)

\* Each step keeps the answers on their way back untold.
LEMMA NotToldStep ==
    ASSUME IInv, [Next]_vars
    PROVE  NotTold'
<1> USE DEF clientVars, channel, historyVars
<1>0. RustClientTypeOK /\ OnePlace /\ NotTold /\ Aligned
  BY DEF IInv
<1>a. back \in Seq(Units) /\ Len(back) \in Nat
  BY <1>0, Counts
<1>1. CASE Connect
  <2>1. back' = <<>>
    BY <1>1 DEF Connect
  <2>2. Len(back') = 0
    BY <2>1
  <2> QED
    BY <2>2 DEF NotTold
<1>2. ASSUME NEW k, Drops(k), told' = told
      PROVE  NotTold'
  BY <1>0, <1>2, <1>a, DropKeeps DEF NotTold
<1>10. CASE ReadBody
  <2>1. /\ Drops(buffered) /\ buffered >= 1 /\ Len(back) >= 1
        /\ Head(back) = back[1] /\ back[1] \in Units /\ 1 \in 1..Len(back)
    BY <1>0, <1>10, <1>a, ReadBodyDrops
  <2>2. told' = told \cup {back[1].call}
    BY <1>10, <2>1 DEF ReadBody
  <2>3. back[1].part = "body"
    <3>1. back # <<>>
      BY <2>1, ShortFacts
    <3> QED
      BY <1>0, <1>10, <3>1 DEF Aligned, ReadBody
  <2> SUFFICES ASSUME NEW i \in 1..Len(back'), back'[i].part = "body"
               PROVE  back'[i].call \notin told'
    BY DEF NotTold
  <2>4. i + buffered \in 1..Len(back) /\ back'[i] = back[i + buffered]
    BY <1>a, <2>1, DropKeeps
  <2>5. back[i + buffered].call \notin told
    BY <1>0, <2>4 DEF NotTold
  <2>6. back[i + buffered] \in Units
    BY <1>a, <2>4
  <2>7. i + buffered # 1
    BY <1>0, <2>1, Counts
  <2>8. back[i + buffered] # back[1]
    BY <1>0, <2>1, <2>4, <2>7, Zenon DEF OnePlace, Distinct
  <2>9. back[i + buffered].call # back[1].call
    BY <2>1, <2>3, <2>4, <2>6, <2>8, UnitShape
  <2> QED
    BY <2>2, <2>4, <2>5, <2>9
<1>14. ASSUME NEW n \in pending, Answer(n)
       PROVE  NotTold'
  <2>0. n \in 1..MaxCalls
    <3>1. calls \in 0..MaxCalls /\ n \in 1..calls
      BY <1>0, <1>14, Zenon DEF RustClientTypeOK
    <3> QED
      BY <3>1, ClientAssumption
  <2>1. back' = back \o <<Size(n), Body(n)>> /\ told' = told
    BY <1>14, Zenon DEF Answer
  <2>2. /\ Len(back') = Len(back) + 2
        /\ \A i \in 1..Len(back) : back'[i] = back[i]
        /\ back'[Len(back) + 1] = Size(n) /\ back'[Len(back) + 2] = Body(n)
    BY <1>a, <2>0, <2>1, UnitFacts, AnswerFacts
  <2>3. \A i \in 1..Len(back') : back'[i].call = n \/ (i \in 1..Len(back) /\ back'[i] = back[i])
    BY <1>a, <2>2, UnitFacts
  <2>4. n \notin told
    BY <1>0, <1>14 DEF OnePlace
  <2> QED
    BY <1>0, <2>1, <2>3, <2>4 DEF NotTold
<1>16. CASE Close
  <2>1. PICK k \in arrived..Len(back) : back' = SubSeq(back, 1, k)
    BY <1>16 DEF Close
  <2>2. k \in 0..Len(back)
    BY <1>0, <2>1, Counts
  <2>3. Len(back') = k /\ \A i \in 1..k : back'[i] = back[i] /\ i \in 1..Len(back)
    BY <1>a, <2>1, <2>2, CutFacts
  <2>4. told' = told
    BY <1>16 DEF Close
  <2> QED
    BY <1>0, <2>3, <2>4 DEF NotTold
<1>17. CASE UNCHANGED <<back, told>>
  BY <1>0, <1>17 DEF NotTold
<1>18. \/ Connect \/ ReadBody \/ (\E n \in pending : Answer(n)) \/ Close
       \/ (Abandon \/ ReadSize \/ Swallow) /\ told' = told
       \/ UNCHANGED <<back, told>>
  BY Zenon DEF Next, InCall, vars, ResetTimeoutToDefault, SetTimeout, NotSent, GiveUp, Begin,
               WriteSize, WriteBody, Peek, Fill, Deliver, Receive, Misread, Abandon, ReadSize,
               Swallow
<1> QED
  BY <1>0, <1>1, <1>2, <1>10, <1>14, <1>16, <1>17, <1>18, AbandonDrops, ReadSizeDrops,
     SwallowDrops

----------------------------------------------------------------------------
(* What is not written yet *)

\* Each step keeps what is not written out of the connection.
LEMMA NotYetStep ==
    ASSUME IInv, [Next]_vars
    PROVE  NotYet'
<1> USE DEF clientVars, channel, historyVars
<1>0. RustClientTypeOK /\ OnePlace /\ NotYet
  BY DEF IInv
<1>a. back \in Seq(Units) /\ Len(back) \in Nat
  BY <1>0, Counts
<1>b. calls \in Nat /\ up \in Seq(Units) /\ Len(up) \in Nat /\ told \subseteq 1..calls
  <2>1. calls \in 0..MaxCalls /\ up \in Seq(Units) /\ told \subseteq 1..calls
    BY <1>0 DEF RustClientTypeOK
  <2> QED
    BY <2>1, ClientAssumption
<1>1. CASE phase' = "idle" /\ buffered' = 0
  BY <1>1 DEF NotYet
<1>2. CASE phase' \in {"reading size", "reading body", "lost"} /\ phase # "idle" /\ calls' = calls
  BY <1>0, <1>2 DEF NotYet
<1>3. CASE Begin
  <2>1. calls' = calls + 1 /\ phase' = "begun" /\ buffered = 0
        /\ UNCHANGED <<up, pending, back, told, buffered>>
    BY <1>0, <1>3 DEF Begin, NotYet
  <2>2. calls + 1 \notin 1..calls
    BY <1>b
  <2>3. pending \subseteq 1..calls
    BY <1>0 DEF RustClientTypeOK
  <2>4. CallsOf(back) \subseteq 1..calls /\ CallsOf(up) \subseteq 1..calls
    BY <1>0 DEF OnePlace, Apart, CallsOf
  <2>5. calls + 1 \notin pending \cup told \cup CallsOf(back) /\ calls + 1 \notin CallsOf(up)
    BY <1>b, <2>2, <2>3, <2>4
  <2>6. calls' >= 1
    BY <1>b, <2>1
  <2> QED
    BY <2>1, <2>5, <2>6 DEF NotYet, CallsOf
<1>5. CASE WriteSize
  <2>1. /\ up' = Append(up, Size(calls)) /\ phase' = "sized" /\ phase = "begun"
        /\ UNCHANGED <<calls, pending, back, told, buffered>>
    BY <1>5 DEF WriteSize
  <2>2. calls \in 1..MaxCalls
    <3>1. calls \in 0..MaxCalls /\ calls >= 1
      BY <1>0, <2>1 DEF RustClientTypeOK, NotYet
    <3> QED
      BY <3>1, ClientAssumption
  <2>3. /\ Len(up') = Len(up) + 1 /\ up'[Len(up) + 1] = Size(calls)
        /\ \A i \in 1..Len(up) : up'[i] = up[i]
    BY <1>b, <2>1, <2>2, UnitFacts, AppendFacts
  <2>4. \A i \in 1..Len(up) : up[i] # Body(calls)
    BY <1>0, <2>1, UnitFacts DEF NotYet, CallsOf
  <2>5. Size(calls) # Body(calls)
    BY DEF Size, Body
  <2>6. \A i \in 1..Len(up') : up'[i] # Body(calls)
    BY <1>b, <2>3, <2>4, <2>5
  <2> QED
    BY <1>0, <2>1, <2>6 DEF NotYet, CallsOf
<1>6. CASE WriteBody
  BY <1>0, <1>6 DEF WriteBody, NotYet
<1>13. CASE Receive
  <2>1. /\ Len(up) >= 2 /\ up[2] = Body(up[1].call)
        /\ pending' = pending \cup {up[1].call} /\ up' = Tail(Tail(up))
        /\ UNCHANGED <<calls, back, told, phase, buffered>>
    BY <1>13, Zenon DEF Receive
  <2>2. 1 \in 1..Len(up) /\ 2 \in 1..Len(up)
    BY <1>b, <2>1
  <2>3. phase \in {"begun", "sized"} => up[1].call # calls
    BY <1>0, <2>1, <2>2 DEF NotYet, CallsOf
  <2>4. \A i \in 1..Len(up') : i + 2 \in 1..Len(up) /\ up'[i] = up[i + 2]
    BY <1>0, <1>13, ReceiveTakes
  <2>5. phase = "begun" => \A i \in 1..Len(up') : up'[i].call # calls
    BY <1>0, <2>4 DEF NotYet, CallsOf
  <2>6. phase = "sized" => \A i \in 1..Len(up') : up'[i] # Body(calls)
    BY <1>0, <2>4 DEF NotYet
  <2>7. phase \in {"begun", "sized"} => calls \notin pending' \cup told \cup CallsOf(back)
    BY <1>0, <2>1, <2>3 DEF NotYet
  <2>8. UNCHANGED <<calls, back, told, phase, buffered>>
    BY <2>1
  <2> QED
    BY <1>0, <2>5, <2>6, <2>7, <2>8 DEF NotYet, CallsOf
<1>20. CASE Misread
  <2>1. PICK k \in 1..Len(up) :
           \A i \in 1..Len(up') : i + k \in 1..Len(up) /\ up'[i] = up[i + k]
    BY <1>0, <1>20, MisreadDrops
  <2>2. UNCHANGED <<calls, pending, back, told, phase, buffered>>
    BY <1>20 DEF Misread
  <2>3. phase = "begun" => \A i \in 1..Len(up') : up'[i].call # calls
    BY <1>0, <2>1 DEF NotYet, CallsOf
  <2>4. phase = "sized" => \A i \in 1..Len(up') : up'[i] # Body(calls)
    BY <1>0, <2>1 DEF NotYet
  <2> QED
    BY <1>0, <2>2, <2>3, <2>4 DEF NotYet, CallsOf
<1>14. ASSUME NEW n \in pending, Answer(n)
       PROVE  NotYet'
  <2>0. n \in 1..MaxCalls
    <3>1. calls \in 0..MaxCalls /\ n \in 1..calls
      BY <1>0, <1>14, Zenon DEF RustClientTypeOK
    <3> QED
      BY <3>1, ClientAssumption
  <2>1. /\ back' = back \o <<Size(n), Body(n)>> /\ pending' = pending \ {n}
        /\ UNCHANGED <<up, told, calls, phase, buffered>>
    BY <1>14, Zenon DEF Answer
  <2>2. /\ Len(back') = Len(back) + 2
        /\ \A i \in 1..Len(back) : back'[i] = back[i]
        /\ back'[Len(back) + 1] = Size(n) /\ back'[Len(back) + 2] = Body(n)
    BY <1>a, <2>0, <2>1, UnitFacts, AnswerFacts
  <2>3. \A i \in 1..Len(back') : back'[i].call = n \/ (i \in 1..Len(back) /\ back'[i] = back[i])
    BY <1>a, <2>2, UnitFacts
  <2>4. CallsOf(back') \subseteq CallsOf(back) \cup {n}
    BY <2>3 DEF CallsOf
  <2>5. phase \in {"begun", "sized"} => calls \notin pending' \cup told \cup CallsOf(back')
    BY <1>0, <1>14, <2>1, <2>4 DEF NotYet
  <2>6. UNCHANGED <<up, told, calls, phase, buffered>>
    BY <2>1
  <2> QED
    BY <1>0, <2>5, <2>6 DEF NotYet, CallsOf
<1>15. CASE Deliver \/ \E t \in Timeouts : SetTimeout(t)
  BY <1>0, <1>15 DEF NotYet, Deliver, SetTimeout, CallsOf
<1>16. CASE Close
  <2>1. PICK k \in arrived..Len(back) : back' = SubSeq(back, 1, k)
    BY <1>16 DEF Close
  <2>2. k \in 0..Len(back)
    BY <1>0, <2>1, Counts
  <2>3. Len(back') = k /\ \A i \in 1..k : back'[i] = back[i] /\ i \in 1..Len(back)
    BY <1>a, <2>1, <2>2, CutFacts
  <2>4. CallsOf(back') \subseteq CallsOf(back)
    BY <2>3 DEF CallsOf
  <2>5. pending' = {} /\ UNCHANGED <<up, told, calls, phase, buffered>>
    BY <1>16 DEF Close
  <2> QED
    BY <1>0, <2>4, <2>5 DEF NotYet, CallsOf
<1>17. CASE UNCHANGED vars
  BY <1>0, <1>17 DEF NotYet, CallsOf, vars
<1>18. Connect \/ Abandon \/ ReadBody => phase' = "idle" /\ buffered' = 0
  BY DEF Connect, Abandon, ReadBody
<1>19. Peek \/ Fill \/ ReadSize \/ Swallow =>
           phase' \in {"reading size", "reading body", "lost"} /\ phase # "idle" /\ calls' = calls
  BY DEF Peek, Fill, ReadSize, Swallow
<1> QED
  BY <1>1, <1>2, <1>3, <1>5, <1>6, <1>13, <1>14, <1>15, <1>16, <1>17, <1>18, <1>19,
     <1>20, ClientAssumption
     DEF Next, InCall, ResetTimeoutToDefault, NotSent, GiveUp

----------------------------------------------------------------------------
(* Bodies behind their sizes *)

\* Each step keeps a body behind each size.
LEMMA AlignedStep ==
    ASSUME IInv, [Next]_vars
    PROVE  Aligned'
<1> USE DEF clientVars, channel, historyVars
<1>0. RustClientTypeOK /\ Aligned
  BY DEF IInv
<1>a. back \in Seq(Units) /\ Len(back) \in Nat
  BY <1>0, Counts
<1>1. CASE Connect
  <2>1. back' = <<>>
    BY <1>1 DEF Connect
  <2>2. Len(back') = 0
    BY <2>1
  <2>3. \A i \in 1..(Len(back') - 1) : FALSE
    BY <2>2
  <2>4. phase' = "idle" /\ "idle" # "reading body"
    BY <1>1 DEF Connect
  <2> QED
    BY <2>1, <2>3, <2>4, Zenon DEF Aligned
<1>2. ASSUME NEW k, Drops(k), open' = open
      PROVE  /\ \A i \in 1..(Len(back') - 1) :
                    back'[i].part = "size" => back'[i + 1].part = "body"
             /\ open' /\ back' # <<>> => back'[Len(back')].part = "body"
  <2>1. k \in Nat /\ k <= Len(back) /\ Len(back') = Len(back) - k /\ back' \in Seq(Units)
    BY <1>2, <1>a DEF Drops
  <2>2. \A i \in 1..Len(back') : i + k \in 1..Len(back) /\ back'[i] = back[i + k]
    BY <1>2, <1>a, DropKeeps
  <2>3. ASSUME NEW i \in 1..(Len(back') - 1), back'[i].part = "size"
        PROVE  back'[i + 1].part = "body"
    <3>1. i \in 1..Len(back') /\ i + 1 \in 1..Len(back') /\ i + k \in 1..(Len(back) - 1)
      BY <1>a, <2>1
    <3>2. back'[i] = back[i + k] /\ back'[i + 1] = back[(i + 1) + k]
      BY <2>2, <3>1, Zenon
    <3>3. (i + 1) + k = (i + k) + 1
      BY <2>1, <3>1
    <3>4. back[i + k].part = "size" => back[(i + k) + 1].part = "body"
      BY <1>0, <3>1 DEF Aligned
    <3> QED
      BY <2>3, <3>2, <3>3, <3>4
  <2>4. ASSUME open, back' # <<>>
        PROVE  back'[Len(back')].part = "body"
    <3>1. Len(back') # 0
      BY <2>1, <2>4
    <3>2. Len(back') \in 1..Len(back') /\ Len(back') + k = Len(back)
      BY <1>a, <2>1, <3>1
    <3>3. back'[Len(back')] = back[Len(back)] /\ Len(back) >= 1
      BY <1>a, <2>1, <2>2, <3>2
    <3>4. back # <<>>
      BY <3>3, ShortFacts
    <3> QED
      BY <1>0, <2>4, <3>3, <3>4, Zenon DEF Aligned
  <2> QED
    BY <1>2, <2>3, <2>4, Zenon
<1>3. ASSUME NEW k, Drops(k), open' = open, phase' # "reading body"
      PROVE  Aligned'
  BY <1>2, <1>3, Zenon DEF Aligned
<1>9. CASE ReadSize
  <2>1. /\ Drops(1) /\ Len(back) >= 1 /\ Head(back) = back[1] /\ back[1] \in Units
    BY <1>0, <1>9, ReadSizeDrops
  <2>2. open' = open
    BY <1>9 DEF ReadSize
  <2>3. CASE back[1].part = "size"
    <3>1. back' \in Seq(Units) /\ Len(back') = Len(back) - 1
      BY <2>1 DEF Drops
    <3>2. ASSUME back' # <<>>
          PROVE  back'[1].part = "body"
      <4>1. Len(back') # 0
        BY <3>1, <3>2
      <4>2. 1 \in 1..Len(back') /\ 1 \in 1..(Len(back) - 1)
        BY <1>a, <2>1, <3>1, <4>1
      <4>3. back'[1] = back[1 + 1]
        BY <2>1, <4>2 DEF Drops
      <4> QED
        BY <1>0, <2>3, <4>2, <4>3 DEF Aligned
    <3>3. ASSUME open
          PROVE  back' # <<>>
      <4>1. back # <<>>
        BY <2>1, ShortFacts
      <4>2. back[Len(back)].part = "body"
        BY <1>0, <3>3, <4>1, Zenon DEF Aligned
      <4>3. "size" # "body"
        OBVIOUS
      <4>4. Len(back) # 1
        BY <2>3, <4>2, <4>3
      <4>5. Len(back') # 0
        BY <1>a, <2>1, <3>1, <4>4
      <4> QED
        BY <4>5, ShortFacts
    <3> QED
      BY <1>2, <2>1, <2>2, <3>2, <3>3, Zenon DEF Aligned
  <2>4. CASE back[1].part # "size"
    <3>1. phase' = "lost"
      BY <1>9, <2>1, <2>4 DEF ReadSize
    <3> QED
      BY <1>3, <2>1, <2>2, <3>1
  <2> QED
    BY <2>3, <2>4
<1>14. ASSUME NEW n \in pending, Answer(n)
       PROVE  Aligned'
  <2>0. n \in 1..MaxCalls
    <3>1. calls \in 0..MaxCalls /\ n \in 1..calls
      BY <1>0, <1>14, Zenon DEF RustClientTypeOK
    <3> QED
      BY <3>1, ClientAssumption
  <2>1. back' = back \o <<Size(n), Body(n)>> /\ phase' = phase /\ open
    BY <1>14, Zenon DEF Answer
  <2>2. /\ Len(back') = Len(back) + 2
        /\ \A i \in 1..Len(back) : back'[i] = back[i]
        /\ back'[Len(back) + 1] = Size(n) /\ back'[Len(back) + 2] = Body(n)
    BY <1>a, <2>0, <2>1, UnitFacts, AnswerFacts
  <2>3. Size(n).part = "size" /\ Body(n).part = "body"
    BY DEF Size, Body
  <2>4. Len(back) # 0 => back[Len(back)].part = "body"
    <3>1. Len(back) # 0 => back # <<>>
      BY ShortFacts
    <3> QED
      BY <1>0, <2>1, <3>1, Zenon DEF Aligned
  <2>5. ASSUME NEW i \in 1..(Len(back') - 1), back'[i].part = "size"
        PROVE  back'[i + 1].part = "body"
    <3>1. CASE i = Len(back) + 1
      <4>1. i + 1 = Len(back) + 2
        BY <1>a, <3>1
      <4> QED
        BY <2>2, <2>3, <4>1
    <3>2. CASE i = Len(back)
      <4>1. i \in 1..Len(back) /\ Len(back) # 0
        BY <1>a, <3>2
      <4>2. back'[i] = back[i]
        BY <2>2, <4>1, Zenon
      <4>3. back[Len(back)].part = "size"
        BY <2>5, <3>2, <4>2
      <4>4. "size" # "body"
        OBVIOUS
      <4> QED
        BY <2>4, <4>1, <4>3, <4>4
    <3>3. CASE i \in 1..(Len(back) - 1)
      <4>1. i \in 1..Len(back) /\ i + 1 \in 1..Len(back)
        BY <1>a, <3>3
      <4>2. back'[i] = back[i] /\ back'[i + 1] = back[i + 1]
        BY <2>2, <4>1, Zenon
      <4>3. back[i].part = "size" => back[i + 1].part = "body"
        BY <1>0, <3>3 DEF Aligned
      <4> QED
        BY <2>5, <4>2, <4>3
    <3> QED
      BY <1>a, <2>2, <3>1, <3>2, <3>3
  <2>6. back'[Len(back')].part = "body"
    BY <2>2, <2>3
  <2>7. phase = "reading body" => back'[1].part = "body"
    <3>1. CASE Len(back) = 0
      <4>1. back = <<>>
        BY <1>a, <3>1
      <4> QED
        BY <1>0, <2>1, <4>1, Zenon DEF Aligned
    <3>2. CASE Len(back) # 0
      <4>1. 1 \in 1..Len(back) /\ back # <<>>
        BY <1>a, <3>2, ShortFacts
      <4>2. back'[1] = back[1]
        BY <2>2, <4>1
      <4> QED
        BY <1>0, <4>1, <4>2 DEF Aligned
    <3> QED
      BY <3>1, <3>2
  <2>8. back' # <<>>
    BY <1>a, <2>2, ShortFacts
  <2> QED
    BY <2>1, <2>5, <2>6, <2>7, <2>8, Zenon DEF Aligned
<1>16. CASE Close
  <2>1. PICK k \in arrived..Len(back) : back' = SubSeq(back, 1, k)
    BY <1>16 DEF Close
  <2>2. k \in 0..Len(back)
    BY <1>0, <2>1, Counts
  <2>3. back' \in Seq(Units) /\ Len(back') = k /\ \A i \in 1..k : back'[i] = back[i]
    BY <1>a, <2>1, <2>2, CutFacts
  <2>4. open' = FALSE /\ phase' = phase
    BY <1>16 DEF Close
  <2>5. ASSUME NEW i \in 1..(Len(back') - 1), back'[i].part = "size"
        PROVE  back'[i + 1].part = "body"
    <3>1. i \in 1..k /\ i + 1 \in 1..k /\ i \in 1..(Len(back) - 1)
      BY <1>a, <2>2, <2>3
    <3>2. back'[i] = back[i] /\ back'[i + 1] = back[i + 1]
      BY <2>3, <3>1, Zenon
    <3>3. back[i].part = "size" => back[i + 1].part = "body"
      BY <1>0, <3>1 DEF Aligned
    <3> QED
      BY <2>5, <3>2, <3>3
  <2>6. ASSUME phase = "reading body", back' # <<>>
        PROVE  back'[1].part = "body"
    <3>1. k # 0
      <4>1. back' # <<>>
        BY <2>6
      <4> QED
        BY <2>3, <4>1
    <3>2. 1 \in 1..k /\ Len(back) >= 1
      BY <1>a, <2>2, <3>1
    <3>3. back'[1] = back[1] /\ back # <<>>
      BY <2>3, <3>2, ShortFacts
    <3> QED
      BY <1>0, <2>6, <3>3 DEF Aligned
  <2> QED
    BY <2>4, <2>5, <2>6, Zenon DEF Aligned
<1>17. CASE UNCHANGED <<back, open>> /\ (phase' = phase \/ phase' # "reading body")
  BY <1>0, <1>17, Zenon DEF Aligned
<1>18. \/ Connect \/ ReadSize \/ (\E n \in pending : Answer(n)) \/ Close
       \/ (Abandon \/ ReadBody \/ Swallow) /\ open' = open /\ phase' # "reading body"
       \/ UNCHANGED <<back, open>> /\ (phase' = phase \/ phase' # "reading body")
  BY DEF Next, InCall, vars, ResetTimeoutToDefault, SetTimeout, NotSent, GiveUp, Begin,
         WriteSize, WriteBody, Peek, Fill, Deliver, Receive, Misread, Abandon, ReadBody, Swallow
<1> QED
  BY <1>0, <1>1, <1>3, <1>9, <1>14, <1>16, <1>17, <1>18, AbandonDrops, ReadBodyDrops,
     SwallowDrops

----------------------------------------------------------------------------
(* The invariants *)

\* The inductive invariant holds of a new client.
LEMMA InitInv == Init => IInv
<1> SUFFICES ASSUME Init
             PROVE  IInv
  OBVIOUS
<1>1. /\ timeout \in Timeouts /\ stream = FALSE /\ limit = 0 /\ phase = "idle" /\ calls = 0
      /\ up = <<>> /\ open = FALSE /\ pending = {} /\ back = <<>> /\ arrived = 0
      /\ buffered = 0 /\ outcome = 0 /\ told = {} /\ failed = FALSE
  BY DEF Init
<1>2. Len(up) = 0 /\ Len(back) = 0 /\ up \in Seq(Units) /\ back \in Seq(Units)
  BY <1>1
<1>3. RustClientTypeOK
  <2>1. /\ arrived \in 0..Len(back) /\ buffered \in 0..arrived /\ calls \in 0..MaxCalls
        /\ limit \in Timeouts \cup {0} /\ outcome \in {0, Failed} \cup 1..MaxCalls
    BY <1>1, <1>2, ClientAssumption
  <2>2. stream \in BOOLEAN /\ open \in BOOLEAN /\ failed \in BOOLEAN
    BY <1>1
  <2> QED
    BY <1>1, <1>2, <2>1, <2>2, Zenon DEF RustClientTypeOK
<1>4. SocketHasTimeout /\ InStep
  BY <1>1 DEF SocketHasTimeout, InStep
<1>5. OnePlace /\ NotTold /\ NotYet /\ Aligned
  BY <1>1, <1>2 DEF OnePlace, NotTold, NotYet, Aligned, Distinct, Apart, CallsOf
<1> QED
  BY <1>3, <1>4, <1>5 DEF IInv

\* Every step of the client, the daemon and the network keeps the inductive invariant.
LEMMA StepInv == IInv /\ [Next]_vars => IInv'
BY TypeStep, SocketStep, InStepStep, OnePlaceStep, NotToldStep, NotYetStep, AlignedStep DEF IInv

\* The inductive invariant holds in every state.
LEMMA Invariance == Spec => []IInv
BY InitInv, StepInv, PTL DEF Spec

\* Every variable of the client and its connection keeps its type, whatever the
\* daemon and the network do.
THEOREM ClientTypes == Spec => []RustClientTypeOK
<1>1. IInv => RustClientTypeOK
  BY DEF IInv
<1> QED
  BY <1>1, Invariance, PTL

\* A connected client has a timeout on its socket, whatever was asked of connect
\* and set_timeout.
THEOREM ClientSocket == Spec => []SocketHasTimeout
<1>1. IInv => SocketHasTimeout
  BY DEF IInv
<1> QED
  BY <1>1, Invariance, PTL

\* Nothing is left on a connection between calls while none has failed.
THEOREM ClientClean == Spec => []NothingLeftBehind
<1>1. IInv => NothingLeftBehind
  BY DEF IInv, InStep, NothingLeftBehind
<1> QED
  BY <1>1, Invariance, PTL

----------------------------------------------------------------------------
(* The refinement *)

\* A new client is an initial state of BlockingCalls.
LEMMA InitPromise == Init => Promise!Init
BY DEF Init, Promise!Init

\* Each step is a step of BlockingCalls, or none.
LEMMA StepPromise == IInv /\ [Next]_vars => [Promise!Next]_(Promise!vars)
<1> SUFFICES ASSUME IInv, [Next]_vars
             PROVE  [Promise!Next]_(Promise!vars)
  OBVIOUS
<1> USE DEF clientVars, channel, historyVars
<1>0. RustClientTypeOK /\ InStep /\ OnePlace /\ NotTold /\ Aligned
  BY DEF IInv
<1>1. CASE Connect
  <2>1. Promise!Reconnect
    BY <1>1 DEF Connect, Promise!Reconnect
  <2> QED
    BY <2>1 DEF Promise!Next
<1>2. CASE Begin
  <2>1. Promise!Begin
    BY <1>2 DEF Begin, Promise!Begin
  <2> QED
    BY <2>1 DEF Promise!Next
<1>3. CASE Abandon /\ phase # "idle"
  <2>1. Promise!Fail
    BY <1>3 DEF Abandon, Promise!Fail, Failed, Promise!Failed
  <2> QED
    BY <2>1 DEF Promise!Next
<1>4. CASE ReadBody
  <2> DEFINE n == back[1].call
  <2>1. Len(back) >= 1 /\ Head(back) = back[1] /\ back[1] \in Units
    BY <1>0, <1>4, ReadBodyDrops
  <2>2. 1 \in 1..Len(back) /\ back # <<>>
    BY <1>0, <2>1, Counts, ShortFacts
  <2>3. n \in 1..calls
    BY <1>0, <2>2 DEF OnePlace, Apart
  <2>4. back[1].part = "body"
    BY <1>0, <1>4, <2>2 DEF Aligned, ReadBody
  <2>5. n \notin told
    BY <1>0, <2>2, <2>4 DEF NotTold
  <2>6. ~failed => n = calls
    <3>1. ~failed => back = <<Body(calls)>>
      BY <1>0, <1>4, <2>2, Zenon DEF InStep, ReadBody
    <3>2. Body(calls).call = calls
      BY DEF Body
    <3>3. <<Body(calls)>>[1] = Body(calls)
      OBVIOUS
    <3> QED
      BY <3>1, <3>2, <3>3
  <2>7. Promise!Answered(n)
    BY <1>4, <2>1, <2>3, <2>5, <2>6 DEF ReadBody, Promise!Answered
  <2> QED
    BY <2>3, <2>7 DEF Promise!Next
<1>5. CASE /\ UNCHANGED <<calls, outcome, told, failed>>
           /\ phase' = phase \/ (phase # "idle" /\ phase' # "idle")
  BY <1>5 DEF Promise!vars
<1>6. \/ Connect \/ Begin \/ (Abandon /\ phase # "idle") \/ ReadBody
      \/ /\ UNCHANGED <<calls, outcome, told, failed>>
         /\ phase' = phase \/ (phase # "idle" /\ phase' # "idle")
  BY DEF Next, InCall, vars, ResetTimeoutToDefault, SetTimeout, NotSent, GiveUp,
         WriteSize, WriteBody, Peek, Fill, ReadSize, Swallow, Deliver, Receive, Misread, Answer,
         Close
<1> QED
  BY <1>1, <1>2, <1>3, <1>4, <1>5, <1>6

\* The client implements BlockingCalls: until a call fails each returns its own
\* answer, and no answer is ever returned twice.
THEOREM ClientKeepsPromise == Spec => PromiseKept
BY InitPromise, StepPromise, Invariance, PTL DEF Spec, PromiseKept, Promise!Spec

=============================================================================
