--------------------------- MODULE FramingProofs ---------------------------
(***************************************************************************)
(* Proofs about the specification of Framing, for any width of the length, *)
(* any messages and any cutting of the stream into reads.                  *)
(*                                                                         *)
(* The bytes that the receiver holds or has still to read are what is left *)
(* of the stream after the messages that it has handled.  They begin with  *)
(* the frame of the next message, and therefore the length that AddData    *)
(* decodes is the length of that message.                                  *)
(***************************************************************************)
EXTENDS Framing, SequenceTheorems, WellFoundedInduction, TLAPS

----------------------------------------------------------------------------
\* Induction on the numbers up to n, and functions defined by recursion on them.

\* Every non-empty set of naturals has a smallest element.
LEMMA LeastNumber ==
    ASSUME NEW T \in SUBSET Nat, T # {}
    PROVE  \E d \in T : \A e \in T : d <= e
<1> DEFINE R == {p \in Nat \X Nat : p[1] < p[2]}
<1>1. IsWellFoundedOn(R, Nat)
  BY NatLessThanWellFounded, Zenon DEF OpToRel
<1> HIDE DEF R
<1>2. PICK d \in T : \A e \in T : ~(<<e, d>> \in R)
  BY <1>1, WFMin
<1>3. ASSUME NEW e \in T PROVE d <= e
  <2>1. <<e, d>> \in Nat \X Nat /\ ~(<<e, d>> \in R) BY <1>2
  <2>2. ~(e < d) BY <2>1 DEF R
  <2> QED BY <2>2
<1> QED BY <1>2, <1>3

\* A set of numbers that has 0 and with every number below n the next one has
\* all the numbers up to n.
LEMMA UpTo ==
    ASSUME NEW n \in Nat, NEW B, 0 \in B,
           \A i \in 1..n : i - 1 \in B => i \in B
    PROVE  0..n \subseteq B
<1> DEFINE T == (0..n) \ B
<1>1. SUFFICES ASSUME T # {} PROVE FALSE
  OBVIOUS
<1>2. PICK d \in T : \A e \in T : d <= e
  <2>1. T \in SUBSET Nat OBVIOUS
  <2> HIDE DEF T
  <2> QED BY <1>1, <2>1, LeastNumber
<1>3. d \in 1..n /\ d - 1 \in 0..n /\ ~(d <= d - 1) BY <1>2
<1>4. d - 1 \in B BY <1>2, <1>3
<1> QED BY <1>2, <1>3, <1>4

\* f lists the values that start with a and that g takes on one by one.
IsIteration(f, n, T, a, g) ==
    /\ f \in [0..n -> T]
    /\ f[0] = a
    /\ \A i \in 1..n : f[i] = g[i][f[i - 1]]

\* A function defined by recursion on the numbers up to n exists.
LEMMA Recursion ==
    ASSUME NEW n \in Nat, NEW T, NEW a \in T, NEW g \in [1..n -> [T -> T]]
    PROVE  \E f : IsIteration(f, n, T, a, g)
<1> DEFINE Is(f, m) == \A i \in 0..m : f[i] = IF i = 0 THEN a ELSE g[i][f[i - 1]]
           B == {m \in 0..n : \E f \in [0..m -> T] : Is(f, m)}
<1>1. 0 \in B
  <2> DEFINE f == [i \in 0..0 |-> a]
  <2>1. f \in [0..0 -> T] /\ Is(f, 0) OBVIOUS
  <2>2. 0 \in 0..n OBVIOUS
  <2> HIDE DEF f, Is
  <2> QED BY <2>1, <2>2
<1>2. ASSUME NEW m \in 1..n, m - 1 \in B PROVE m \in B
  <2>1. PICK f \in [0..m - 1 -> T] : Is(f, m - 1) BY <1>2
  <2> DEFINE h == [i \in 0..m |-> IF i = m THEN g[m][f[m - 1]] ELSE f[i]]
  <2>2. m - 1 \in 0..m - 1 /\ f[m - 1] \in T OBVIOUS
  <2>3. g[m][f[m - 1]] \in T BY <2>2
  <2>4. \A i \in 0..m : i # m => i \in 0..m - 1 OBVIOUS
  <2>5. h \in [0..m -> T] BY <2>3, <2>4
  <2>6. ASSUME NEW i \in 0..m PROVE h[i] = IF i = 0 THEN a ELSE g[i][h[i - 1]]
    <3>1. CASE i = m
      <4>1. m - 1 \in 0..m /\ m - 1 # m /\ m # 0 OBVIOUS
      <4>2. h[m] = g[m][f[m - 1]] /\ h[m - 1] = f[m - 1] BY <4>1
      <4> QED BY <3>1, <4>1, <4>2
    <3>2. CASE i # m
      <4>1. i \in 0..m - 1 /\ h[i] = f[i] BY <2>4, <3>2
      <4>2. i # 0 => h[i - 1] = f[i - 1]
        <5>1. i # 0 => i - 1 \in 0..m /\ i - 1 # m BY <4>1
        <5> QED BY <5>1
      <4>3. f[i] = IF i = 0 THEN a ELSE g[i][f[i - 1]] BY <2>1, <4>1
      <4> QED BY <4>1, <4>2, <4>3
    <3> QED BY <3>1, <3>2
  <2> HIDE DEF h
  <2>7. Is(h, m) BY <2>6
  <2> QED BY <2>5, <2>7
<1>3. n \in B
  <2> HIDE DEF B
  <2>1. 0..n \subseteq B BY <1>1, <1>2, UpTo
  <2> QED BY <2>1
<1>4. PICK f \in [0..n -> T] : Is(f, n) BY <1>3
<1>5. f[0] = a
  <2>1. 0 \in 0..n OBVIOUS
  <2>2. f[0] = IF 0 = 0 THEN a ELSE g[0][f[0 - 1]] BY <1>4, <2>1
  <2> QED BY <2>2
<1>6. ASSUME NEW i \in 1..n PROVE f[i] = g[i][f[i - 1]]
  <2>1. i \in 0..n /\ i # 0 OBVIOUS
  <2> QED BY <1>4, <2>1
<1> QED BY <1>5, <1>6 DEF IsIteration

----------------------------------------------------------------------------
\* The length of a message and its bytes.

\* A length has a byte at least, and a byte two values at least.
LEMMA Constants ==
    Width \in Nat /\ Width >= 1 /\ Base \in Nat /\ Base > 1
BY FramingAssumption

\* rest lists what is left of n when its lowest bytes are taken away.
IsRestOf(rest, n) ==
    rest = [i \in 0..Width |-> IF i = 0 THEN n ELSE rest[i - 1] \div Base]

\* EncodeLength takes the lowest byte of what the one before has left.
LEMMA EncodeRest ==
    ASSUME NEW n \in Nat
    PROVE  \E rest \in [0..Width -> Nat] :
              /\ rest[0] = n
              /\ \A i \in 1..Width : rest[i] = rest[i - 1] \div Base
              /\ EncodeLength(n) = [i \in 1..Width |-> rest[i - 1] % Base]
<1> DEFINE g == [i \in 1..Width |-> [x \in Nat |-> x \div Base]]
           rest == CHOOSE r : IsRestOf(r, n)
<1>0. Width \in Nat /\ Base \in Nat /\ Base > 1 BY Constants
<1>1. g \in [1..Width -> [Nat -> Nat]]
  <2>1. \A x \in Nat : x \div Base \in Nat BY <1>0
  <2> QED BY <2>1
<1>2. \A i \in 1..Width : \A x \in Nat : g[i][x] = x \div Base OBVIOUS
<1> HIDE DEF g
<1>3. PICK f : IsIteration(f, Width, Nat, n, g) BY <1>0, <1>1, Recursion
<1>4. \E r : IsRestOf(r, n)
  <2>1. ASSUME NEW i \in 0..Width, i # 0 PROVE f[i] = f[i - 1] \div Base
    <3>1. i \in 1..Width /\ i - 1 \in 0..Width BY <1>0, <2>1
    <3> QED BY <1>2, <1>3, <3>1 DEF IsIteration
  <2>2. f = [i \in 0..Width |-> f[i]] BY <1>3 DEF IsIteration
  <2>3. f = [i \in 0..Width |-> IF i = 0 THEN n ELSE f[i - 1] \div Base]
    BY <1>3, <2>1, <2>2 DEF IsIteration
  <2> QED BY <2>3 DEF IsRestOf
<1>5. IsRestOf(rest, n) BY <1>4
<1>6. EncodeLength(n) = [i \in 1..Width |-> rest[i - 1] % Base]
  BY Zenon DEF EncodeLength, IsRestOf
<1> HIDE DEF rest
<1>7. /\ DOMAIN rest = 0..Width
      /\ rest[0] = n
      /\ \A i \in 1..Width : rest[i] = rest[i - 1] \div Base
  BY <1>0, <1>5 DEF IsRestOf
<1>8. \A i \in 0..Width : rest[i] \in Nat
  <2> DEFINE B == {i \in 0..Width : rest[i] \in Nat}
  <2>1. 0 \in B BY <1>0, <1>7
  <2>2. ASSUME NEW i \in 1..Width, i - 1 \in B PROVE i \in B
    <3>1. rest[i - 1] \in Nat /\ i \in 0..Width BY <1>0, <2>2
    <3>2. rest[i] = rest[i - 1] \div Base BY <1>7
    <3>3. rest[i] \in Nat BY <1>0, <3>1, <3>2
    <3> QED BY <3>1, <3>3
  <2> HIDE DEF B
  <2>3. 0..Width \subseteq B BY <1>0, <2>1, <2>2, UpTo
  <2> QED BY <2>3 DEF B
<1>9. rest \in [0..Width -> Nat] BY <1>5, <1>7, <1>8 DEF IsRestOf
<1> QED BY <1>6, <1>7, <1>9

\* value lists the numbers that the highest bytes stand for.
IsValueOf(value, bytes) ==
    value = [i \in 0..Width |->
                IF i = 0 THEN 0 ELSE bytes[Width - i + 1] + Base * value[i - 1]]

\* DecodeLength puts each byte below the value of the higher ones.
LEMMA DecodeValue ==
    ASSUME NEW bytes \in [1..Width -> Nat]
    PROVE  \E value \in [0..Width -> Nat] :
              /\ value[0] = 0
              /\ \A i \in 1..Width : value[i] = bytes[Width - i + 1] + Base * value[i - 1]
              /\ DecodeLength(bytes) = value[Width]
<1> DEFINE g == [i \in 1..Width |-> [x \in Nat |-> bytes[Width - i + 1] + Base * x]]
           value == CHOOSE v : IsValueOf(v, bytes)
<1>0. Width \in Nat /\ Base \in Nat BY Constants
<1>1. ASSUME NEW i \in 1..Width, NEW x \in Nat
      PROVE  bytes[Width - i + 1] + Base * x \in Nat
  <2>1. Width - i + 1 \in 1..Width BY <1>0
  <2>2. bytes[Width - i + 1] \in Nat BY <2>1
  <2>3. Base * x \in Nat BY <1>0
  <2> QED BY <2>2, <2>3
<1>2. g \in [1..Width -> [Nat -> Nat]] BY <1>1
<1>3. \A i \in 1..Width : \A x \in Nat : g[i][x] = bytes[Width - i + 1] + Base * x
  OBVIOUS
<1> HIDE DEF g
<1>4. PICK f : IsIteration(f, Width, Nat, 0, g) BY <1>0, <1>2, Recursion
<1>5. \E v : IsValueOf(v, bytes)
  <2>1. ASSUME NEW i \in 0..Width, i # 0
        PROVE  f[i] = bytes[Width - i + 1] + Base * f[i - 1]
    <3>1. i \in 1..Width /\ i - 1 \in 0..Width BY <1>0, <2>1
    <3> QED BY <1>3, <1>4, <3>1 DEF IsIteration
  <2>2. f = [i \in 0..Width |-> f[i]] BY <1>4 DEF IsIteration
  <2>3. f = [i \in 0..Width |-> IF i = 0 THEN 0 ELSE bytes[Width - i + 1] + Base * f[i - 1]]
    BY <1>4, <2>1, <2>2 DEF IsIteration
  <2> QED BY <2>3 DEF IsValueOf
<1>6. IsValueOf(value, bytes) BY <1>5
<1>7. DecodeLength(bytes) = value[Width] BY Zenon DEF DecodeLength, IsValueOf
<1> HIDE DEF value
<1>8. /\ DOMAIN value = 0..Width
      /\ value[0] = 0
      /\ \A i \in 1..Width : value[i] = bytes[Width - i + 1] + Base * value[i - 1]
  BY <1>0, <1>6 DEF IsValueOf
<1>9. \A i \in 0..Width : value[i] \in Nat
  <2> DEFINE B == {i \in 0..Width : value[i] \in Nat}
  <2>1. 0 \in B BY <1>0, <1>8
  <2>2. ASSUME NEW i \in 1..Width, i - 1 \in B PROVE i \in B
    <3>1. value[i - 1] \in Nat /\ i \in 0..Width BY <1>0, <2>2
    <3>2. value[i] \in Nat BY <1>1, <1>8, <3>1
    <3> QED BY <3>1, <3>2
  <2> HIDE DEF B
  <2>3. 0..Width \subseteq B BY <1>0, <2>1, <2>2, UpTo
  <2> QED BY <2>3 DEF B
<1>10. value \in [0..Width -> Nat] BY <1>6, <1>8, <1>9 DEF IsValueOf
<1> QED BY <1>7, <1>8, <1>10

\* The bytes of a length are Width bytes, and any Width bytes are a length.
LEMMA EncodeType ==
    ASSUME NEW n \in Nat
    PROVE  EncodeLength(n) \in Seq(Byte) /\ Len(EncodeLength(n)) = Width
<1>0. Width \in Nat /\ Base \in Nat /\ Base > 1 BY Constants
<1>1. PICK rest \in [0..Width -> Nat] :
         EncodeLength(n) = [i \in 1..Width |-> rest[i - 1] % Base]
  BY EncodeRest
<1>2. ASSUME NEW i \in 1..Width PROVE rest[i - 1] % Base \in Byte
  <2>1. i - 1 \in 0..Width BY <1>0
  <2>2. rest[i - 1] \in Nat BY <2>1
  <2> QED BY <1>0, <2>2 DEF Byte
<1>3. EncodeLength(n) \in [1..Width -> Byte] BY <1>1, <1>2
<1>4. EncodeLength(n) \in Seq(Byte) BY <1>0, <1>3, SeqDef
<1> QED BY <1>0, <1>3, <1>4, LenProperties

\* Any Width bytes are read as a length.
LEMMA DecodeType ==
    ASSUME NEW bytes \in Seq(Byte), Len(bytes) = Width
    PROVE  DecodeLength(bytes) \in Nat
<1>0. Width \in Nat /\ Base \in Nat /\ Base > 1 BY Constants
<1>1. bytes \in [1..Width -> Byte] BY LenProperties
<1>2. Byte \subseteq Nat BY <1>0 DEF Byte
<1>3. bytes \in [1..Width -> Nat] BY <1>1, <1>2
<1>4. Width \in 0..Width BY <1>0
<1> QED BY <1>3, <1>4, DecodeValue

\* A number without its lowest byte, when it is at most M with a full byte.
LEMMA ShiftedBound ==
    ASSUME NEW B \in Nat, B > 1, NEW M \in Nat, NEW x \in Nat, x <= B - 1 + B * M
    PROVE  x \div B <= M
<1> DEFINE q == x \div B
<1>1. q \in Nat /\ B * q <= x OBVIOUS
<1> HIDE DEF q
<1>2. ASSUME q >= M + 1 PROVE FALSE
  <2>1. B * q >= B * (M + 1) BY <1>1, <1>2
  <2>2. B * (M + 1) = B * M + B OBVIOUS
  <2> DEFINE y == B * q
             z == B * M
  <2>3. y \in Nat /\ z \in Nat BY <1>1
  <2>4. y <= x /\ x <= B - 1 + z /\ y >= z + B BY <1>1, <2>1, <2>2
  <2> HIDE DEF y, z
  <2> QED BY <2>3, <2>4
<1> QED BY <1>1, <1>2 DEF q

\* MaxLength has all its bytes full.
LEMMA TopValue ==
    \E top \in [0..Width -> Nat] :
        /\ top[0] = 0
        /\ \A i \in 1..Width : top[i] = Base - 1 + Base * top[i - 1]
        /\ MaxLength = top[Width]
<1> DEFINE full == [i \in 1..Width |-> Base - 1]
<1>0. Width \in Nat /\ Base \in Nat /\ Base > 1 BY Constants
<1>1. full \in [1..Width -> Nat] BY <1>0
<1>2. \A i \in 1..Width : full[Width - i + 1] = Base - 1
  <2>1. \A i \in 1..Width : Width - i + 1 \in 1..Width BY <1>0
  <2> QED BY <2>1
<1>3. MaxLength = DecodeLength(full) BY DEF MaxLength
<1> HIDE DEF full
<1>4. PICK top \in [0..Width -> Nat] :
         /\ top[0] = 0
         /\ \A i \in 1..Width : top[i] = full[Width - i + 1] + Base * top[i - 1]
         /\ DecodeLength(full) = top[Width]
  BY <1>1, DecodeValue
<1> QED BY <1>2, <1>3, <1>4

\* A length that fits into Width bytes is read back as it was written.
LEMMA LengthIsReadBack ==
    ASSUME NEW n \in Nat, n <= MaxLength
    PROVE  DecodeLength(EncodeLength(n)) = n
<1>0. Width \in Nat /\ Base \in Nat /\ Base > 1 BY Constants
<1>1. PICK rest \in [0..Width -> Nat] :
         /\ rest[0] = n
         /\ \A i \in 1..Width : rest[i] = rest[i - 1] \div Base
         /\ EncodeLength(n) = [i \in 1..Width |-> rest[i - 1] % Base]
  BY EncodeRest
<1>2. PICK top \in [0..Width -> Nat] :
         /\ top[0] = 0
         /\ \A i \in 1..Width : top[i] = Base - 1 + Base * top[i - 1]
         /\ MaxLength = top[Width]
  BY TopValue
<1>3. rest[Width] = 0
  <2> DEFINE B == {i \in 0..Width : rest[i] <= top[Width - i]}
  <2>1. 0 \in B BY <1>0, <1>1, <1>2
  <2>2. ASSUME NEW i \in 1..Width, i - 1 \in B PROVE i \in B
    <3>1. /\ i - 1 \in 0..Width /\ Width - i \in 0..Width /\ Width - i + 1 \in 1..Width
          /\ Width - (i - 1) = Width - i + 1 /\ Width - i + 1 - 1 = Width - i
          /\ i \in 0..Width
      BY <1>0
    <3>2. rest[i - 1] \in Nat /\ top[Width - i] \in Nat BY <3>1
    <3>3. rest[i - 1] <= top[Width - i + 1] BY <2>2, <3>1
    <3>4. top[Width - i + 1] = Base - 1 + Base * top[Width - i] BY <1>2, <3>1
    <3>5. rest[i - 1] <= Base - 1 + Base * top[Width - i] BY <3>3, <3>4
    <3>6. rest[i - 1] \div Base <= top[Width - i] BY <1>0, <3>2, <3>5, ShiftedBound
    <3>7. rest[i] <= top[Width - i] BY <1>1, <3>6
    <3> QED BY <3>1, <3>7
  <2> HIDE DEF B
  <2>3. Width \in B
    <3>1. 0..Width \subseteq B BY <1>0, <2>1, <2>2, UpTo
    <3> QED BY <1>0, <3>1
  <2>4. rest[Width] <= top[0]
    <3>1. Width - Width = 0 BY <1>0
    <3> QED BY <2>3, <3>1 DEF B
  <2>5. rest[Width] \in Nat BY <1>0
  <2> QED BY <1>2, <2>4, <2>5
<1> DEFINE bytes == EncodeLength(n)
<1>4. ASSUME NEW i \in 1..Width
      PROVE  bytes[Width - i + 1] = rest[Width - i] % Base
  <2> DEFINE j == Width - i + 1
  <2>1. j \in 1..Width /\ j - 1 = Width - i BY <1>0
  <2> HIDE DEF j
  <2>2. bytes[j] = rest[j - 1] % Base BY <1>1, <2>1
  <2> QED BY <2>1, <2>2 DEF j
<1>5. bytes \in [1..Width -> Nat]
  <2>1. ASSUME NEW i \in 1..Width PROVE rest[i - 1] % Base \in Nat
    <3>1. i - 1 \in 0..Width BY <1>0
    <3>2. rest[i - 1] \in Nat BY <3>1
    <3> QED BY <1>0, <3>2
  <2> QED BY <1>1, <2>1
<1> HIDE DEF bytes
<1>6. PICK value \in [0..Width -> Nat] :
         /\ value[0] = 0
         /\ \A i \in 1..Width : value[i] = bytes[Width - i + 1] + Base * value[i - 1]
         /\ DecodeLength(bytes) = value[Width]
  BY <1>5, DecodeValue
<1>7. value[Width] = rest[0]
  <2> DEFINE B == {i \in 0..Width : value[i] = rest[Width - i]}
  <2>1. 0 \in B
    <3>1. Width - 0 = Width /\ 0 \in 0..Width BY <1>0
    <3> QED BY <1>3, <1>6, <3>1
  <2>2. ASSUME NEW i \in 1..Width, i - 1 \in B PROVE i \in B
    <3> DEFINE r == rest[Width - i]
    <3>1. /\ Width - i \in 0..Width /\ Width - (i - 1) = Width - i + 1
          /\ Width - i + 1 \in 1..Width /\ Width - i + 1 - 1 = Width - i /\ i \in 0..Width
      BY <1>0
    <3>2. r \in Nat BY <3>1
    <3>3. rest[Width - i + 1] = r \div Base BY <1>1, <3>1
    <3>4. value[i - 1] = r \div Base BY <2>2, <3>1, <3>3
    <3>5. value[i] = (r % Base) + Base * (r \div Base) BY <1>4, <1>6, <3>4
    <3> HIDE DEF r
    <3>6. (r % Base) + Base * (r \div Base) = r BY <1>0, <3>2
    <3> QED BY <3>1, <3>5, <3>6 DEF r
  <2> HIDE DEF B
  <2>3. Width \in B
    <3>1. 0..Width \subseteq B BY <1>0, <2>1, <2>2, UpTo
    <3> QED BY <1>0, <3>1
  <2>4. Width - Width = 0 BY <1>0
  <2> QED BY <2>3, <2>4 DEF B
<1> QED BY <1>1, <1>6, <1>7 DEF bytes

----------------------------------------------------------------------------
\* The stream of a sequence of messages.

\* The sequences of bytes that Send writes.
Fitting == {message \in Seq(Byte) : Len(message) <= MaxLength}

\* The longest length is a number.
LEMMA MaxLengthType == MaxLength \in Nat
<1>1. Width \in 0..Width BY Constants
<1> QED BY <1>1, TopValue

\* What a frame consists of, when the message fits.
LEMMA FrameFacts ==
    ASSUME NEW message \in Fitting
    PROVE  /\ message \in Seq(Byte) /\ Len(message) \in Nat
           /\ EncodeLength(Len(message)) \in Seq(Byte)
           /\ Len(EncodeLength(Len(message))) = Width
           /\ Frame(message) \in Seq(Byte)
           /\ Frame(message) = EncodeLength(Len(message)) \o message
           /\ DecodeLength(EncodeLength(Len(message))) = Len(message)
<1>1. message \in Seq(Byte) /\ Len(message) <= MaxLength BY DEF Fitting
<1>2. Len(message) \in Nat BY <1>1, LenProperties
<1>3. EncodeLength(Len(message)) \in Seq(Byte) /\ Len(EncodeLength(Len(message))) = Width
  BY <1>2, EncodeType
<1>4. Frame(message) = EncodeLength(Len(message)) \o message BY DEF Frame
<1>5. Frame(message) \in Seq(Byte) BY <1>1, <1>3, <1>4, ConcatProperties
<1>6. DecodeLength(EncodeLength(Len(message))) = Len(message)
  BY <1>1, <1>2, LengthIsReadBack
<1> QED BY <1>1, <1>2, <1>3, <1>4, <1>5, <1>6

\* f lists what is flattened of seqs after each of its elements.
IsFlatten(f, seqs) ==
    f = [i \in 1..Len(seqs) |-> IF i = 1 THEN seqs[i] ELSE f[i - 1] \o seqs[i]]

\* parts lists the same, from nothing on.
IsParts(parts, seqs) ==
    /\ parts \in [0..Len(seqs) -> Seq(Byte)]
    /\ parts[0] = <<>>
    /\ \A i \in 1..Len(seqs) : parts[i] = parts[i - 1] \o seqs[i]

\* The beginnings of a flattened sequence can be listed.
LEMMA PartsExist ==
    ASSUME NEW seqs \in Seq(Seq(Byte))
    PROVE  \E parts : IsParts(parts, seqs)
<1> DEFINE n == Len(seqs)
           S == Seq(Byte)
           g == [i \in 1..n |-> [x \in S |-> x \o seqs[i]]]
<1>1. n \in Nat /\ \A i \in 1..n : seqs[i] \in S BY LenProperties
<1>2. <<>> \in S OBVIOUS
<1>3. \A x, y \in S : x \o y \in S BY ConcatProperties
<1> HIDE DEF n, S
<1>4. g \in [1..n -> [S -> S]] BY <1>1, <1>3
<1>5. \A i \in 1..n : \A x \in S : g[i][x] = x \o seqs[i] OBVIOUS
<1> HIDE DEF g
<1>6. PICK f : IsIteration(f, n, S, <<>>, g) BY <1>1, <1>2, <1>4, Recursion
<1>7. ASSUME NEW i \in 1..n PROVE f[i] = f[i - 1] \o seqs[i]
  <2>1. i - 1 \in 0..n BY <1>1
  <2>2. f[i - 1] \in S BY <1>6, <2>1 DEF IsIteration
  <2> QED BY <1>5, <1>6, <2>2 DEF IsIteration
<1>8. f \in [0..n -> S] /\ f[0] = <<>> BY <1>6 DEF IsIteration
<1> QED BY <1>7, <1>8 DEF IsParts, n, S

Begins(more, seqs) ==
    Len(seqs) <= Len(more) /\ \A i \in 1..Len(seqs) : seqs[i] = more[i]

\* Parts are told by their sequences: where these agree, so do the parts.
LEMMA PartsAgree ==
    ASSUME NEW seqs \in Seq(Seq(Byte)), NEW more \in Seq(Seq(Byte)),
           Begins(more, seqs), NEW p, IsParts(p, seqs), NEW q, IsParts(q, more)
    PROVE  \A i \in 0..Len(seqs) : p[i] = q[i]
<1> DEFINE n == Len(seqs)
           B == {i \in 0..n : p[i] = q[i]}
<1>1. n \in Nat /\ Len(more) \in Nat BY LenProperties
<1>2. 0 \in B BY <1>1 DEF IsParts
<1>3. ASSUME NEW i \in 1..n, i - 1 \in B PROVE i \in B
  <2>1. i \in 0..n /\ i \in 1..Len(more) /\ seqs[i] = more[i] BY <1>1 DEF Begins
  <2>2. p[i] = p[i - 1] \o seqs[i] BY DEF IsParts
  <2>3. q[i] = q[i - 1] \o more[i] BY <2>1 DEF IsParts
  <2>4. p[i] = q[i] BY <1>3, <2>1, <2>2, <2>3
  <2> QED BY <2>1, <2>4
<1> HIDE DEF B
<1>4. 0..n \subseteq B BY <1>1, <1>2, <1>3, UpTo
<1> QED BY <1>4 DEF B

\* FlattenSeq is the last part.
LEMMA FlattenIsLastPart ==
    ASSUME NEW seqs \in Seq(Seq(Byte)), NEW p, IsParts(p, seqs)
    PROVE  FlattenSeq(seqs) = p[Len(seqs)]
<1> DEFINE n == Len(seqs)
<1>1. n \in Nat /\ \A i \in 1..n : seqs[i] \in Seq(Byte) BY LenProperties
<1>2. CASE n = 0
  <2>1. seqs = <<>> BY <1>2, EmptySeq
  <2>2. FlattenSeq(seqs) = seqs BY <1>2 DEF FlattenSeq
  <2> QED BY <1>2, <2>1, <2>2 DEF IsParts
<1>3. CASE n # 0
  <2> DEFINE q == [i \in 1..n |-> p[i]]
             f == CHOOSE h : IsFlatten(h, seqs)
  <2>1. ASSUME NEW i \in 1..n PROVE q[i] = IF i = 1 THEN seqs[i] ELSE q[i - 1] \o seqs[i]
    <3>1. p[i] = p[i - 1] \o seqs[i] BY DEF IsParts
    <3>2. CASE i = 1
      <4>1. p[i - 1] = <<>> BY <3>2 DEF IsParts
      <4>2. p[i] = seqs[i] BY <1>1, <3>1, <4>1, ConcatEmptySeq
      <4> QED BY <3>2, <4>2
    <3>3. CASE i # 1
      <4>1. i - 1 \in 1..n BY <1>1, <3>3
      <4> QED BY <3>1, <3>3, <4>1
    <3> QED BY <3>2, <3>3
  <2>2. q = [i \in 1..n |-> q[i]] OBVIOUS
  <2> HIDE DEF q
  <2>3. q = [i \in 1..n |-> IF i = 1 THEN seqs[i] ELSE q[i - 1] \o seqs[i]]
    BY <2>1, <2>2
  <2>4. IsFlatten(q, seqs) BY <2>3 DEF IsFlatten
  <2>5. IsFlatten(f, seqs) BY <2>4
  <2>6. FlattenSeq(seqs) = f[n]
    <3>1. Len(seqs) # 0 BY <1>3
    <3> QED BY <3>1, Zenon DEF FlattenSeq, IsFlatten
  <2> HIDE DEF f
  <2>7. \A i \in 1..n : f[i] = IF i = 1 THEN seqs[i] ELSE f[i - 1] \o seqs[i]
    BY <2>5 DEF IsFlatten
  <2> DEFINE B == {i \in 0..n : i = 0 \/ f[i] = p[i]}
  <2>8. 0 \in B BY <1>1
  <2>9. ASSUME NEW i \in 1..n, i - 1 \in B PROVE i \in B
    <3>1. i \in 0..n BY <1>1
    <3>2. p[i] = p[i - 1] \o seqs[i] BY DEF IsParts
    <3>3. CASE i = 1
      <4>1. p[i - 1] = <<>> BY <3>3 DEF IsParts
      <4>2. p[i] = seqs[i] BY <1>1, <3>2, <4>1, ConcatEmptySeq
      <4> QED BY <2>7, <3>1, <3>3, <4>2
    <3>4. CASE i # 1
      <4>1. i - 1 # 0 BY <3>4
      <4>2. f[i - 1] = p[i - 1] BY <2>9, <4>1
      <4> QED BY <2>7, <3>1, <3>2, <3>4, <4>2
    <3> QED BY <3>3, <3>4
  <2> HIDE DEF B
  <2>10. n \in B
    <3>1. 0..n \subseteq B BY <1>1, <2>8, <2>9, UpTo
    <3> QED BY <1>1, <3>1
  <2>11. f[n] = p[n] BY <1>3, <2>10 DEF B
  <2> QED BY <2>6, <2>11
<1> QED BY <1>2, <1>3

\* Flattening one more element puts it at the end.
LEMMA FlattenAppend ==
    ASSUME NEW seqs \in Seq(Seq(Byte)), NEW s \in Seq(Byte)
    PROVE  /\ FlattenSeq(seqs) \in Seq(Byte)
           /\ FlattenSeq(Append(seqs, s)) = FlattenSeq(seqs) \o s
<1> DEFINE S == Seq(Byte)
           more == Append(seqs, s)
           n == Len(seqs)
<1>1. n \in Nat BY LenProperties
<1>2. /\ more \in Seq(S) /\ Len(more) = n + 1
      /\ \A i \in 1..n : more[i] = seqs[i]
      /\ more[n + 1] = s
  <2> HIDE DEF S
  <2>1. seqs \in Seq(S) /\ s \in S BY DEF S
  <2> QED BY <2>1, AppendProperties
<1> HIDE DEF more
<1>3. PICK p : IsParts(p, seqs) BY PartsExist
<1>4. PICK q : IsParts(q, more) BY <1>2, PartsExist
<1>5. FlattenSeq(seqs) = p[n] BY <1>3, FlattenIsLastPart
<1>6. FlattenSeq(more) = q[n + 1] BY <1>2, <1>4, FlattenIsLastPart
<1>7. p[n] = q[n]
  <2>1. Begins(more, seqs) BY <1>1, <1>2 DEF Begins
  <2>2. \A i \in 0..Len(seqs) : p[i] = q[i] BY <1>2, <1>3, <1>4, <2>1, PartsAgree
  <2> QED BY <1>1, <2>2
<1>8. q[n + 1] = q[n] \o s
  <2> DEFINE j == n + 1
  <2>1. j \in 1..Len(more) /\ j - 1 = n /\ more[j] = s BY <1>1, <1>2
  <2> HIDE DEF j
  <2>2. q[j] = q[j - 1] \o more[j] BY <1>4, <2>1 DEF IsParts
  <2> QED BY <2>1, <2>2 DEF j
<1>9. p[n] \in Seq(Byte) BY <1>1, <1>3 DEF IsParts
<1> QED BY <1>5, <1>6, <1>7, <1>8, <1>9 DEF more

\* No messages are no bytes.
LEMMA StreamEmpty == Stream(<<>>) = <<>>
<1> DEFINE frames == [i \in DOMAIN <<>> |-> Frame(<<>>[i])]
<1>1. frames = <<>> /\ Len(<<>>) = 0 OBVIOUS
<1>2. Stream(<<>>) = FlattenSeq(<<>>) BY <1>1, Zenon DEF Stream
<1> QED BY <1>1, <1>2 DEF FlattenSeq

\* One more message puts its frame at the end of the stream.
LEMMA StreamAppend ==
    ASSUME NEW messages \in Seq(Fitting), NEW message \in Fitting
    PROVE  /\ Stream(messages) \in Seq(Byte)
           /\ Stream(Append(messages, message)) = Stream(messages) \o Frame(message)
<1> DEFINE S == Seq(Byte)
           n == Len(messages)
           more == Append(messages, message)
           frames == [i \in 1..n |-> Frame(messages[i])]
           moreFrames == [i \in 1..n + 1 |-> Frame(more[i])]
<1>1. n \in Nat /\ DOMAIN messages = 1..n /\ \A i \in 1..n : messages[i] \in Fitting
  BY LenProperties
<1>2. /\ more \in Seq(Fitting) /\ Len(more) = n + 1 /\ DOMAIN more = 1..n + 1
      /\ \A i \in 1..n : more[i] = messages[i]
      /\ more[n + 1] = message
  BY AppendProperties, LenProperties
<1> HIDE DEF more
<1>3. \A m \in Fitting : Frame(m) \in S BY FrameFacts
<1>4. Stream(messages) = FlattenSeq(frames) BY <1>1 DEF Stream
<1>5. Stream(more) = FlattenSeq(moreFrames) BY <1>2 DEF Stream
<1>6. frames \in Seq(S) /\ Len(frames) = n
  <2> HIDE DEF S, n
  <2>1. frames \in [1..n -> S] BY <1>1, <1>3
  <2>2. frames \in Seq(S) BY <1>1, <2>1, SeqDef
  <2> HIDE DEF frames
  <2> QED BY <1>1, <2>1, <2>2, LenProperties
<1>7. moreFrames \in Seq(S) /\ Len(moreFrames) = n + 1
  <2> HIDE DEF S, n
  <2>1. \A i \in 1..n + 1 : more[i] \in Fitting BY <1>2, LenProperties
  <2>2. moreFrames \in [1..n + 1 -> S] BY <1>3, <2>1
  <2>3. n + 1 \in Nat BY <1>1
  <2>4. moreFrames \in Seq(S) BY <2>2, <2>3, SeqDef
  <2> HIDE DEF moreFrames
  <2> QED BY <2>2, <2>3, <2>4, LenProperties
<1>8. moreFrames = Append(frames, Frame(message))
  <2> DEFINE longer == Append(frames, Frame(message))
  <2>1. \A i \in 1..n : frames[i] = Frame(messages[i]) OBVIOUS
  <2>2. \A i \in 1..n + 1 : moreFrames[i] = Frame(more[i]) OBVIOUS
  <2> HIDE DEF frames, moreFrames, S, n
  <2>3. /\ longer \in Seq(S) /\ Len(longer) = n + 1
        /\ \A i \in 1..n : longer[i] = frames[i]
        /\ longer[n + 1] = Frame(message)
    BY <1>3, <1>6, AppendProperties
  <2> HIDE DEF longer
  <2>4. ASSUME NEW i \in 1..n + 1 PROVE moreFrames[i] = longer[i]
    <3>1. CASE i = n + 1 BY <1>2, <2>2, <2>3, <3>1
    <3>2. CASE i # n + 1
      <4>1. i \in 1..n BY <1>1, <3>2
      <4> QED BY <1>2, <2>1, <2>2, <2>3, <4>1
    <3> QED BY <3>1, <3>2
  <2>5. moreFrames = longer BY <1>7, <2>3, <2>4, SeqEqual
  <2> QED BY <2>5 DEF longer
<1> HIDE DEF frames, moreFrames
<1>9. Frame(message) \in Seq(Byte) BY FrameFacts
<1>10. /\ FlattenSeq(frames) \in Seq(Byte)
       /\ FlattenSeq(Append(frames, Frame(message))) = FlattenSeq(frames) \o Frame(message)
  BY <1>6, <1>9, FlattenAppend
<1> QED BY <1>4, <1>5, <1>8, <1>10 DEF more

\* The beginning of a sequence, with one more element.
LEMMA SubSeqGrows ==
    ASSUME NEW S, NEW s \in Seq(S), NEW n \in 0..Len(s)
    PROVE  /\ SubSeq(s, 1, n) \in Seq(S)
           /\ Len(SubSeq(s, 1, n)) = n
           /\ n > 0 => SubSeq(s, 1, n) = Append(SubSeq(s, 1, n - 1), s[n]) /\ s[n] \in S
<1>1. Len(s) \in Nat /\ \A i \in 1..Len(s) : s[i] \in S BY LenProperties
<1>2. ASSUME NEW m \in 0..Len(s)
      PROVE  SubSeq(s, 1, m) \in Seq(S) /\ Len(SubSeq(s, 1, m)) = m
  <2>1. 1 \in Int /\ m \in Int /\ \A i \in 1..m : s[i] \in S BY <1>1
  <2>2. /\ SubSeq(s, 1, m) \in Seq(S)
        /\ Len(SubSeq(s, 1, m)) = IF 1 <= m THEN m - 1 + 1 ELSE 0
    BY <2>1, SubSeqProperties
  <2> QED BY <1>1, <2>2
<1>3. ASSUME n > 0 PROVE SubSeq(s, 1, n) = Append(SubSeq(s, 1, n - 1), s[n]) /\ s[n] \in S
  <2>1. 1 \in 1..Len(s) /\ n \in 1..Len(s) /\ n - 1 \in 0..Len(s) BY <1>1, <1>3
  <2>2. s[n] \in S BY <1>1, <2>1
  <2>3. SubSeq(s, 1, n) = SubSeq(s, 1, n - 1) \o <<s[n]>> BY <2>1, SubSeqRecursiveSecond
  <2>4. SubSeq(s, 1, n - 1) \in Seq(S) BY <1>2, <2>1
  <2>5. Append(SubSeq(s, 1, n - 1), s[n]) = SubSeq(s, 1, n - 1) \o <<s[n]>>
    BY <2>2, <2>4, AppendIsConcat
  <2> QED BY <2>2, <2>3, <2>5
<1> QED BY <1>2, <1>3

\* What follows the same beginning is the same.
LEMMA CancelLeft ==
    ASSUME NEW S, NEW s \in Seq(S), NEW t \in Seq(S), NEW v \in Seq(S), s \o t = s \o v
    PROVE  t = v
BY ConcatSimplifications

\* Concatenation is associative, for named parts.
LEMMA MoveBracket ==
    ASSUME NEW S, NEW s \in Seq(S), NEW t \in Seq(S), NEW u \in Seq(S),
           NEW x, x = s \o t, NEW y, y = x \o u
    PROVE  y = s \o (t \o u) /\ t \o u \in Seq(S)
BY ConcatAssociative, ConcatProperties

\* The stream of the first n messages begins the stream of all of them.
LEMMA StreamPrefix ==
    ASSUME NEW messages \in Seq(Fitting)
    PROVE  \A n \in 0..Len(messages) : \E t \in Seq(Byte) :
               Stream(messages) = Stream(SubSeq(messages, 1, n)) \o t
<1> DEFINE l == Len(messages)
           all == Stream(messages)
           first(n) == Stream(SubSeq(messages, 1, n))
           B == {d \in 0..l : \E t \in Seq(Byte) : all = first(l - d) \o t}
<1>1. l \in Nat BY LenProperties
<1>2. \A ms \in Seq(Fitting) : Stream(ms) \in Seq(Byte)
  <2>1. <<>> \in Fitting BY MaxLengthType DEF Fitting
  <2> QED BY <2>1, StreamAppend
<1>3. 0 \in B
  <2>1. 0 \in 0..l /\ l - 0 = l BY <1>1
  <2>2. first(l) = all BY SubSeqFull
  <2>3. all = all \o <<>> BY <1>2, ConcatEmptySeq
  <2>4. first(l - 0) = all BY <2>1, <2>2
  <2>5. <<>> \in Seq(Byte) /\ all = first(l - 0) \o <<>> BY <2>3, <2>4
  <2> HIDE DEF all, first
  <2> QED BY <2>1, <2>5
<1>4. ASSUME NEW d \in 1..l, d - 1 \in B PROVE d \in B
  <2> DEFINE n == l - (d - 1)
             before == SubSeq(messages, 1, n - 1)
             frame == Frame(messages[n])
  <2>1. n \in 0..l /\ n > 0 /\ n - 1 = l - d /\ n - 1 \in 0..l /\ d \in 0..l BY <1>1
  <2>2. PICK t \in Seq(Byte) : all = first(n) \o t BY <1>4
  <2> HIDE DEF n
  <2>3. /\ SubSeq(messages, 1, n) = Append(before, messages[n])
        /\ messages[n] \in Fitting /\ before \in Seq(Fitting)
    BY <2>1, SubSeqGrows
  <2>4. first(n) = Stream(before) \o frame BY <2>3, StreamAppend
  <2>5. Stream(before) \in Seq(Byte) /\ frame \in Seq(Byte) BY <1>2, <2>3, FrameFacts
  <2> HIDE DEF before, frame
  <2> DEFINE head == Stream(before)
  <2>6. head \in Seq(Byte) /\ first(n) = head \o frame BY <2>4, <2>5
  <2> HIDE DEF head, first, all
  <2>7. all = head \o (frame \o t) /\ frame \o t \in Seq(Byte)
    BY <2>2, <2>5, <2>6, MoveBracket
  <2>8. all = first(l - d) \o (frame \o t) BY <2>1, <2>7 DEF before, head, first
  <2> QED BY <2>1, <2>7, <2>8
<1>5. ASSUME NEW n \in 0..l PROVE \E t \in Seq(Byte) : all = first(n) \o t
  <2> HIDE DEF B
  <2>1. 0..l \subseteq B BY <1>1, <1>3, <1>4, UpTo
  <2>2. l - n \in B /\ l - (l - n) = n BY <1>1, <2>1
  <2> QED BY <2>2 DEF B
<1> QED BY <1>5

\* The stream of messages that fit consists of bytes.
LEMMA StreamType ==
    ASSUME NEW messages \in Seq(Fitting)
    PROVE  Stream(messages) \in Seq(Byte)
<1>1. <<>> \in Fitting BY MaxLengthType DEF Fitting
<1> QED BY <1>1, StreamAppend

\* After the stream of the first n messages comes the frame of the next one.
LEMMA StreamSplit ==
    ASSUME NEW messages \in Seq(Fitting), NEW n \in 0..Len(messages), n < Len(messages),
           NEW bytes \in Seq(Byte),
           Stream(messages) = Stream(SubSeq(messages, 1, n)) \o bytes
    PROVE  /\ messages[n + 1] \in Fitting
           /\ \E t \in Seq(Byte) : bytes = Frame(messages[n + 1]) \o t
<1> DEFINE before == SubSeq(messages, 1, n)
           frame == Frame(messages[n + 1])
<1>0. Len(messages) \in Nat /\ n \in Nat BY LenProperties
<1>1. n + 1 \in 0..Len(messages) /\ n + 1 > 0 /\ n + 1 - 1 = n BY <1>0
<1>2. PICK t \in Seq(Byte) : Stream(messages) = Stream(SubSeq(messages, 1, n + 1)) \o t
  BY <1>1, StreamPrefix
<1>3. /\ SubSeq(messages, 1, n + 1) = Append(before, messages[n + 1])
      /\ messages[n + 1] \in Fitting
  BY <1>1, SubSeqGrows
<1>4. before \in Seq(Fitting) BY SubSeqGrows
<1>5. Stream(SubSeq(messages, 1, n + 1)) = Stream(before) \o frame
  BY <1>3, <1>4, StreamAppend
<1>6. Stream(before) \in Seq(Byte) /\ frame \in Seq(Byte)
  BY <1>3, <1>4, StreamType, FrameFacts
<1> HIDE DEF before, frame
<1> DEFINE head == Stream(before)
           longer == Stream(SubSeq(messages, 1, n + 1))
           all == Stream(messages)
<1>7. /\ head \in Seq(Byte) /\ longer = head \o frame
      /\ all = head \o bytes /\ all = longer \o t
  BY <1>2, <1>5, <1>6 DEF before
<1> HIDE DEF head, longer, all
<1>8. all = head \o (frame \o t) /\ frame \o t \in Seq(Byte)
  <2>1. /\ head \in Seq(Byte) /\ frame \in Seq(Byte) /\ t \in Seq(Byte)
        /\ longer = head \o frame /\ all = longer \o t
    BY <1>6, <1>7
  <2> QED BY ONLY <2>1, MoveBracket
<1>9. bytes = frame \o t BY <1>7, <1>8, CancelLeft
<1> QED BY <1>3, <1>9 DEF frame

\* Two ways of cutting the same bytes, when the first parts are as long.
LEMMA EqualParts ==
    ASSUME NEW S, NEW a \in Seq(S), NEW b \in Seq(S), NEW c \in Seq(S), NEW d \in Seq(S),
           a \o b = c \o d, Len(a) = Len(c)
    PROVE  a = c /\ b = d
<1>1. /\ Len(a) \in Nat /\ Len(b) \in Nat /\ Len(d) \in Nat
      /\ Len(a \o b) = Len(a) + Len(b) /\ Len(c \o d) = Len(c) + Len(d)
  BY ConcatProperties, LenProperties
<1>2. ASSUME NEW i \in 1..Len(a) PROVE a[i] = c[i]
  <2>1. i \in 1..Len(a) + Len(b) /\ i \in 1..Len(c) + Len(d) /\ i <= Len(a) /\ i <= Len(c)
    BY <1>1
  <2>2. (a \o b)[i] = a[i] BY <2>1, ConcatProperties
  <2>3. (c \o d)[i] = c[i] BY <2>1, ConcatProperties
  <2> QED BY <2>2, <2>3
<1>3. a = c BY <1>2, SeqEqual
<1>4. b = d BY <1>3, CancelLeft
<1> QED BY <1>3, <1>4

----------------------------------------------------------------------------
\* The buffer of the receiver.

BufferType == [full : Nat, size : Seq(Byte), bytes : Seq(Byte)]

\* The state of a buffer between two reads: it waits for bytes of the length, or
\* knows the length and waits for bytes of the message.
IsBuffer(b) ==
    /\ b \in BufferType
    /\ \/ Len(b.size) < Width /\ b.bytes = <<>>
       \/ Len(b.size) = Width /\ b.full = DecodeLength(b.size) /\ Len(b.bytes) < b.full

\* A new FramedBuffer waits for the bytes of a length.
LEMMA EmptyIsBuffer == IsBuffer(EmptyBuffer)
<1>1. Len(<<>>) < Width BY Constants
<1>2. EmptyBuffer \in BufferType BY DEF EmptyBuffer, BufferType
<1> QED BY <1>1, <1>2 DEF IsBuffer, EmptyBuffer

\* The bytes of a read in three pieces.
LEMMA Pieces ==
    ASSUME NEW d \in Seq(Byte), NEW k \in 0..Len(d), NEW u \in k..Len(d)
    PROVE  LET P == SubSeq(d, 1, k)
               Q == SubSeq(d, k + 1, u)
               R == SubSeq(d, u + 1, Len(d))
           IN  /\ P \in Seq(Byte) /\ Len(P) = k
               /\ Q \in Seq(Byte) /\ Len(Q) = u - k
               /\ R \in Seq(Byte) /\ Len(R) = Len(d) - u
               /\ P \o (Q \o R) = d
<1> DEFINE P == SubSeq(d, 1, k)
           Q == SubSeq(d, k + 1, u)
           R == SubSeq(d, u + 1, Len(d))
<1>1. Len(d) \in Nat /\ \A i \in 1..Len(d) : d[i] \in Byte BY LenProperties
<1>2. ASSUME NEW m \in 1..Len(d) + 1, NEW n \in m - 1..Len(d)
      PROVE  SubSeq(d, m, n) \in Seq(Byte) /\ Len(SubSeq(d, m, n)) = n - m + 1
  <2>1. m \in Int /\ n \in Int /\ \A i \in m..n : d[i] \in Byte BY <1>1
  <2>2. /\ SubSeq(d, m, n) \in Seq(Byte)
        /\ Len(SubSeq(d, m, n)) = IF m <= n THEN n - m + 1 ELSE 0
    BY <2>1, SubSeqProperties
  <2> QED BY <1>1, <2>2
<1>3. P \in Seq(Byte) /\ Len(P) = k
  <2>1. 1 \in 1..Len(d) + 1 /\ k \in 1 - 1..Len(d) /\ k - 1 + 1 = k BY <1>1
  <2> QED BY <1>2, <2>1
<1>4. Q \in Seq(Byte) /\ Len(Q) = u - k
  <2>1. k + 1 \in 1..Len(d) + 1 /\ u \in k + 1 - 1..Len(d) /\ u - (k + 1) + 1 = u - k BY <1>1
  <2> QED BY <1>2, <2>1
<1>5. R \in Seq(Byte) /\ Len(R) = Len(d) - u
  <2> DEFINE m == u + 1
             l == Len(d)
  <2>1. m \in 1..l + 1 /\ l \in m - 1..l /\ l - m + 1 = l - u BY <1>1
  <2> HIDE DEF m
  <2>2. SubSeq(d, m, l) \in Seq(Byte) /\ Len(SubSeq(d, m, l)) = l - m + 1 BY <1>2, <2>1
  <2> QED BY <2>1, <2>2 DEF m
<1>6. Q \o R = SubSeq(d, k + 1, Len(d))
  <2> DEFINE m == k + 1
             l == Len(d)
  <2>1. m \in 1..l + 1 /\ u \in m - 1..l /\ l \in u..l BY <1>1
  <2> HIDE DEF m
  <2>2. SubSeq(d, m, u) \o SubSeq(d, u + 1, l) = SubSeq(d, m, l)
    BY <2>1, ConcatAdjacentSubSeq
  <2> QED BY <2>2 DEF m
<1>7. P \o SubSeq(d, k + 1, Len(d)) = SubSeq(d, 1, Len(d))
  <2> DEFINE m == 1
             l == Len(d)
  <2>1. m \in 1..l + 1 /\ k \in m - 1..l /\ l \in k..l BY <1>1
  <2> HIDE DEF m
  <2>2. SubSeq(d, m, k) \o SubSeq(d, k + 1, l) = SubSeq(d, m, l)
    BY <2>1, ConcatAdjacentSubSeq
  <2> QED BY <2>2 DEF m
<1>8. SubSeq(d, 1, Len(d)) = d BY SubSeqFull
<1> QED BY <1>3, <1>4, <1>5, <1>6, <1>7, <1>8

\* The concatenation of bytes, as an operator that the provers do not take apart.
Joined(s, t) == s \o t

\* Joined bytes are bytes, and their number is the sum.
LEMMA JoinedType ==
    ASSUME NEW s \in Seq(Byte), NEW t \in Seq(Byte)
    PROVE  Joined(s, t) \in Seq(Byte) /\ Len(Joined(s, t)) = Len(s) + Len(t)
BY ConcatProperties DEF Joined

\* No bytes change nothing.
LEMMA JoinedEmpty ==
    ASSUME NEW s \in Seq(Byte)
    PROVE  Joined(s, <<>>) = s /\ Joined(<<>>, s) = s
BY ConcatEmptySeq DEF Joined

\* It does not matter which bytes are joined first.
LEMMA JoinedAssociative ==
    ASSUME NEW s \in Seq(Byte), NEW t \in Seq(Byte), NEW u \in Seq(Byte)
    PROVE  Joined(Joined(s, t), u) = Joined(s, Joined(t, u))
<1> DEFINE x == s \o t
           y == x \o u
<1>1. x = s \o t /\ y = x \o u OBVIOUS
<1> HIDE DEF x, y
<1>2. y = s \o (t \o u) BY <1>1, MoveBracket
<1> QED BY <1>1, <1>2, Zenon DEF Joined

\* The same bytes, cut at the same place, have the same parts.
LEMMA JoinedParts ==
    ASSUME NEW a \in Seq(Byte), NEW b \in Seq(Byte), NEW c \in Seq(Byte), NEW d \in Seq(Byte),
           Joined(a, b) = Joined(c, d), Len(a) = Len(c)
    PROVE  a = c /\ b = d
BY EqualParts DEF Joined

\* The first piece of a read goes behind the length and the second behind the
\* message; no byte moves, as there is no piece for the length once the message
\* has begun.
LEMMA Regroup ==
    ASSUME NEW s \in Seq(Byte), NEW b \in Seq(Byte), NEW P \in Seq(Byte),
           NEW Q \in Seq(Byte), NEW R \in Seq(Byte), P = <<>> \/ b = <<>>
    PROVE  Joined(Joined(s, P), Joined(Joined(b, Q), R))
           = Joined(s, Joined(b, Joined(P, Joined(Q, R))))
<1> DEFINE t == Joined(Q, R)
<1>1. t \in Seq(Byte) /\ Joined(P, t) \in Seq(Byte) BY JoinedType
<1>2. CASE b = <<>>
  <2>1. Joined(b, Q) = Q /\ Joined(b, Joined(P, t)) = Joined(P, t)
    BY <1>1, <1>2, JoinedEmpty
  <2>2. Joined(Joined(s, P), t) = Joined(s, Joined(P, t)) BY <1>1, JoinedAssociative
  <2> QED BY <2>1, <2>2
<1>3. CASE P = <<>>
  <2>1. Joined(s, P) = s /\ Joined(P, t) = t BY <1>1, <1>3, JoinedEmpty
  <2>2. Joined(Joined(b, Q), R) = Joined(b, t) BY JoinedAssociative
  <2> QED BY <2>1, <2>2
<1> QED BY <1>2, <1>3

\* What AddData does to each member.
LEMMA AddDataMembers ==
    ASSUME NEW b, NEW d
    PROVE  LET k == SizeCount(b, d)
               u == BytesUsed(b, d)
               size == b.size \o SubSeq(d, 1, k)
               r == AddData(b, d)
           IN  /\ r = [full |-> r.full, size |-> r.size, bytes |-> r.bytes]
               /\ r.size = size
               /\ r.full = IF Len(size) = Width THEN DecodeLength(size) ELSE b.full
               /\ r.bytes = b.bytes \o SubSeq(d, k + 1, u)
               /\ u = k + (IF Len(size) < Width THEN 0
                           ELSE Least(Len(d) - k, r.full - Len(b.bytes)))
<1> DEFINE k == SizeCount(b, d)
           u == BytesUsed(b, d)
           size == b.size \o SubSeq(d, 1, k)
           sized == Sized(b, d)
           full == IF Len(size) = Width THEN DecodeLength(size) ELSE b.full
           r == AddData(b, d)
<1>1. sized = [full |-> full, size |-> size, bytes |-> b.bytes]
  BY DEF Sized, Prefix
<1>2. r = [sized EXCEPT !.bytes = @ \o SubSeq(d, k + 1, u)] BY DEF AddData
<1>3. u = k + ByteCount(b, d) BY DEF BytesUsed
<1>4. ByteCount(b, d) = IF Len(sized.size) < Width THEN 0
                        ELSE Least(Len(d) - k, sized.full - Len(b.bytes))
  BY DEF ByteCount
<1> HIDE DEF k, u, size, full, sized, r
<1>5. r = [full |-> full, size |-> size, bytes |-> b.bytes \o SubSeq(d, k + 1, u)]
  BY <1>1, <1>2
<1>6. sized.size = size /\ sized.full = full BY <1>1
<1>7. /\ r.full = full /\ r.size = size /\ r.bytes = b.bytes \o SubSeq(d, k + 1, u)
      /\ r = [full |-> r.full, size |-> r.size, bytes |-> r.bytes]
  BY <1>5
<1>8. u = k + (IF Len(size) < Width THEN 0 ELSE Least(Len(d) - k, r.full - Len(b.bytes)))
  BY <1>3, <1>4, <1>6, <1>7
<1> QED BY <1>7, <1>8 DEF k, u, size, full, r

\* Only the empty sequence has the length 0.
LEMMA EmptyWhenShort ==
    ASSUME NEW S, NEW s \in Seq(S)
    PROVE  Len(s) = 0 <=> s = <<>>
BY EmptySeq

\* AddData uses a byte at least, loses and moves none, and takes no more for the
\* message than the length says.
LEMMA AddDataFacts ==
    ASSUME NEW b, IsBuffer(b), NEW d \in Seq(Byte), d # <<>>
    PROVE  LET u == BytesUsed(b, d)
               r == AddData(b, d)
           IN  /\ u \in 1..Len(d)
               /\ r \in BufferType
               /\ Joined(r.size, Joined(r.bytes, SubSeq(d, u + 1, Len(d))))
                  = Joined(b.size, Joined(b.bytes, d))
               /\ \/ Len(r.size) < Width /\ r.bytes = <<>>
                  \/ /\ Len(r.size) = Width /\ r.full = DecodeLength(r.size)
                     /\ Len(r.bytes) <= r.full
<1> DEFINE u == BytesUsed(b, d)
           r == AddData(b, d)
           k == SizeCount(b, d)
           l == Len(d)
           w == Len(b.size)
           P == SubSeq(d, 1, k)
           Q == SubSeq(d, k + 1, u)
           R == SubSeq(d, u + 1, Len(d))
           size == b.size \o P
           held == Len(b.bytes)
<1>0. Width \in Nat /\ Width >= 1 BY Constants
<1>1. /\ b.full \in Nat /\ b.size \in Seq(Byte) /\ b.bytes \in Seq(Byte)
      /\ held = 0 => b.bytes = <<>>
  <2>1. b.full \in Nat /\ b.size \in Seq(Byte) /\ b.bytes \in Seq(Byte)
    BY DEF IsBuffer, BufferType
  <2> QED BY <2>1, EmptyWhenShort, Zenon
<1>2. l \in Nat /\ l >= 1 /\ w \in Nat /\ held \in Nat
  <2>1. l \in Nat /\ w \in Nat /\ held \in Nat BY <1>1, LenProperties
  <2>2. l # 0 BY EmptyWhenShort
  <2> QED BY <2>1, <2>2
<1>3. /\ r = [full |-> r.full, size |-> r.size, bytes |-> r.bytes]
      /\ r.size = size
      /\ r.full = IF Len(size) = Width THEN DecodeLength(size) ELSE b.full
      /\ r.bytes = b.bytes \o Q
      /\ u = k + (IF Len(size) < Width THEN 0 ELSE Least(l - k, r.full - held))
  BY AddDataMembers
<1>4. k = IF l < Width - w THEN l ELSE Width - w BY DEF SizeCount, Least
<1>5. \/ w < Width /\ held = 0
      \/ w = Width /\ b.full = DecodeLength(b.size) /\ held < b.full
  BY <1>1 DEF IsBuffer
<1> HIDE DEF u, k, r, w, held
<1>6. k \in 0..l /\ w + k <= Width BY <1>0, <1>2, <1>4, <1>5
<1>7. P \in Seq(Byte) /\ Len(P) = k
  BY <1>6, SubSeqGrows
<1>8. size \in Seq(Byte) /\ Len(size) = w + k
  BY <1>1, <1>7, ConcatProperties DEF w
<1>9. r.full \in Nat /\ (Len(size) = Width => r.full = DecodeLength(size))
  <2> HIDE DEF size
  <2>1. Len(size) = Width => DecodeLength(size) \in Nat BY <1>8, DecodeType
  <2> QED BY <1>1, <1>3, <2>1
<1> DEFINE long == Len(size)
           full == r.full
<1>10. /\ long = w + k /\ full \in Nat
       /\ u = k + (IF long < Width THEN 0
                   ELSE IF l - k < full - held THEN l - k ELSE full - held)
  BY <1>3, <1>8, <1>9 DEF Least
<1>11. w = Width => held < full /\ k = 0
  <2>1. SUFFICES ASSUME w = Width PROVE held < full /\ k = 0
    OBVIOUS
  <2>2. k = 0 BY <1>0, <1>2, <1>4, <2>1
  <2>3. size = b.size
    <3>1. P = <<>> BY <1>7, <2>2, EmptyWhenShort
    <3> HIDE DEF P
    <3> QED BY <1>1, <3>1, ConcatEmptySeq
  <2>4. Len(size) = Width BY <1>8, <1>2, <2>1, <2>2
  <2>5. r.full = DecodeLength(b.size) BY <1>9, <2>3, <2>4, Zenon
  <2> QED BY <1>2, <1>5, <2>1, <2>2, <2>5
<1>12. long = Width => held <= full
  BY <1>0, <1>2, <1>5, <1>10, <1>11
<1> HIDE DEF long, full
<1>13. u \in k..l /\ u \in 1..l
  <2>1. CASE w < Width
    <3>1. k >= 1 /\ held = 0 BY <1>0, <1>2, <1>4, <1>5, <2>1
    <3> QED BY <1>0, <1>2, <1>6, <1>10, <1>12, <3>1
  <2>2. CASE w = Width
    <3>1. k = 0 /\ held < full /\ long = Width BY <1>2, <1>10, <1>11, <2>2
    <3> QED BY <1>0, <1>2, <1>10, <3>1
  <2> QED BY <1>5, <2>1, <2>2
<1>14. long < Width => u = k /\ held = 0
  BY <1>0, <1>2, <1>5, <1>6, <1>10
<1>15. long >= Width => long = Width /\ held + (u - k) <= full
  BY <1>0, <1>2, <1>6, <1>10, <1>12, <1>13
<1>16. /\ Q \in Seq(Byte) /\ Len(Q) = u - k /\ R \in Seq(Byte)
       /\ P \o (Q \o R) = d
  BY <1>6, <1>13, Pieces
<1>17. r.bytes \in Seq(Byte) /\ Len(r.bytes) = held + (u - k)
  <2> DEFINE t == b.bytes
  <2>1. t \in Seq(Byte) /\ Q \in Seq(Byte) /\ r.bytes = t \o Q /\ Len(t) = held
    BY <1>1, <1>3, <1>16 DEF held
  <2> HIDE DEF Q, t
  <2>2. t \o Q \in Seq(Byte) /\ Len(t \o Q) = Len(t) + Len(Q) BY <2>1, ConcatProperties
  <2> QED BY <1>16, <2>1, <2>2
<1>18. r \in BufferType
  <2>1. r.full \in Nat /\ r.size \in Seq(Byte) /\ r.bytes \in Seq(Byte)
    BY <1>3, <1>8, <1>9, <1>17
  <2> QED BY <1>3, <2>1 DEF BufferType
<1>19. \/ Len(r.size) < Width /\ r.bytes = <<>>
       \/ /\ Len(r.size) = Width /\ r.full = DecodeLength(r.size)
          /\ Len(r.bytes) <= r.full
  <2>1. CASE long < Width
    <3>1. Len(r.bytes) = 0 BY <1>2, <1>6, <1>14, <1>17, <2>1
    <3>2. r.bytes = <<>> BY <1>17, <3>1, EmptyWhenShort
    <3> QED BY <1>3, <2>1, <3>2 DEF long
  <2>2. CASE long >= Width
    <3>1. Len(r.size) = Width BY <1>3, <1>15, <2>2 DEF long
    <3>2. Len(r.bytes) <= r.full BY <1>15, <1>17, <2>2 DEF full
    <3> QED BY <1>3, <3>1, <3>2
  <2>3. long \in Nat BY <1>2, <1>6, <1>10
  <2> QED BY <1>0, <2>1, <2>2, <2>3
<1>20. Joined(r.size, Joined(r.bytes, R)) = Joined(b.size, Joined(b.bytes, d))
  <2>1. P = <<>> \/ b.bytes = <<>>
    <3>1. CASE w < Width BY <1>0, <1>1, <1>2, <1>5, <3>1
    <3>2. CASE w = Width BY <1>7, <1>11, <3>2, EmptyWhenShort
    <3> QED BY <1>5, <3>1, <3>2
  <2>2. P \in Seq(Byte) /\ Q \in Seq(Byte) /\ R \in Seq(Byte) BY <1>7, <1>16
  <2>3. r.size = Joined(b.size, P) /\ r.bytes = Joined(b.bytes, Q) /\ d = Joined(P, Joined(Q, R))
    BY <1>3, <1>16, Zenon DEF Joined
  <2> HIDE DEF P, Q, R
  <2> DEFINE s == b.size
             t == b.bytes
  <2>4. s \in Seq(Byte) /\ t \in Seq(Byte) /\ (P = <<>> \/ t = <<>>) BY <1>1, <2>1
  <2> HIDE DEF s, t
  <2>5. Joined(Joined(s, P), Joined(Joined(t, Q), R))
        = Joined(s, Joined(t, Joined(P, Joined(Q, R))))
    BY <2>2, <2>4, Regroup
  <2> QED BY <2>3, <2>5 DEF s, t
<1> HIDE DEF R
<1> QED BY <1>13, <1>18, <1>19, <1>20 DEF u, r, R

----------------------------------------------------------------------------
\* The messages that are read from the stream.

\* A length and as many bytes as it says, behind the stream of the first n
\* messages, are the next message.
LEMMA NextMessage ==
    ASSUME NEW all \in Seq(Fitting), NEW n \in 0..Len(all),
           NEW size \in Seq(Byte), Len(size) = Width,
           NEW bytes \in Seq(Byte), Len(bytes) = DecodeLength(size),
           NEW tail \in Seq(Byte),
           Joined(Stream(SubSeq(all, 1, n)), Joined(size, Joined(bytes, tail))) = Stream(all)
    PROVE  /\ n < Len(all) /\ bytes \in Fitting
           /\ SubSeq(all, 1, n + 1) = Append(SubSeq(all, 1, n), bytes)
           /\ Joined(Stream(SubSeq(all, 1, n + 1)), tail) = Stream(all)
<1> DEFINE before == SubSeq(all, 1, n)
           head == Stream(before)
           found == Joined(size, Joined(bytes, tail))
           m == all[n + 1]
           length == EncodeLength(Len(m))
<1>0. Len(all) \in Nat /\ n \in Nat /\ Width \in Nat /\ Width >= 1
  BY Constants, LenProperties
<1>1. before \in Seq(Fitting) BY SubSeqGrows
<1>2. head \in Seq(Byte) /\ Stream(all) \in Seq(Byte) BY <1>1, StreamType
<1>3. found \in Seq(Byte) /\ Len(found) >= Width
  <2>1. Joined(bytes, tail) \in Seq(Byte) /\ Len(Joined(bytes, tail)) \in Nat
    BY JoinedType, LenProperties
  <2> QED BY <1>0, <2>1, JoinedType
<1>4. Joined(head, found) = Stream(all) OBVIOUS
<1>5. n < Len(all)
  <2>1. SUFFICES ASSUME n = Len(all) PROVE FALSE
    BY <1>0
  <2>2. head = Stream(all) BY <2>1, SubSeqFull
  <2>3. Len(Joined(head, found)) = Len(head) + Len(found) BY <1>2, <1>3, JoinedType
  <2>4. Len(head) \in Nat /\ Len(found) \in Nat BY <1>2, <1>3, LenProperties
  <2> HIDE DEF head, found
  <2> QED BY <1>0, <1>3, <1>4, <2>2, <2>3, <2>4
<1>6. /\ m \in Fitting
      /\ \E t \in Seq(Byte) : found = Frame(m) \o t
  <2>1. Stream(all) = Stream(SubSeq(all, 1, n)) \o found BY <1>4, Zenon DEF Joined
  <2> HIDE DEF found
  <2> QED BY <1>3, <1>5, <2>1, StreamSplit
<1>7. PICK t \in Seq(Byte) : found = Frame(m) \o t BY <1>6
<1> HIDE DEF m
<1>8. /\ m \in Seq(Byte) /\ Len(m) \in Nat /\ Len(m) <= MaxLength
      /\ length \in Seq(Byte) /\ Len(length) = Width
      /\ DecodeLength(length) = Len(m)
  <2>1. m \in Seq(Byte) /\ Len(m) <= MaxLength BY <1>6 DEF Fitting
  <2>2. Len(m) \in Nat BY <2>1, LenProperties
  <2> QED BY <2>1, <2>2, EncodeType, LengthIsReadBack
<1>9. Frame(m) = Joined(length, m) BY Zenon DEF Frame, Joined
<1>10. found = Joined(Frame(m), t) BY <1>7, Zenon DEF Joined
<1> HIDE DEF length
<1>11. found = Joined(length, Joined(m, t)) BY <1>8, <1>9, <1>10, JoinedAssociative
<1>12. Joined(bytes, tail) \in Seq(Byte) /\ Joined(m, t) \in Seq(Byte) BY <1>8, JoinedType
<1>13. size = length /\ Joined(bytes, tail) = Joined(m, t)
  BY <1>8, <1>11, <1>12, JoinedParts
<1>14. bytes = m /\ tail = t
  BY <1>8, <1>13, JoinedParts
<1>15. SubSeq(all, 1, n + 1) = Append(before, m)
  <2> DEFINE j == n + 1
  <2>1. j \in 0..Len(all) /\ j > 0 /\ j - 1 = n BY <1>0, <1>5
  <2> HIDE DEF j
  <2>2. SubSeq(all, 1, j) = Append(SubSeq(all, 1, j - 1), all[j]) BY <2>1, SubSeqGrows
  <2> QED BY <2>1, <2>2 DEF j, m
<1>16. Stream(Append(before, m)) = Joined(head, Frame(m))
  BY <1>1, <1>6, StreamAppend, Zenon DEF Joined
<1>17. Joined(Stream(Append(before, m)), t) = Stream(all)
  <2>1. Frame(m) \in Seq(Byte) BY <1>8, <1>9, JoinedType
  <2>2. Joined(Joined(head, Frame(m)), t) = Joined(head, found)
    BY <1>2, <1>10, <2>1, JoinedAssociative
  <2> QED BY <1>4, <1>16, <2>2
<1> QED BY <1>5, <1>6, <1>14, <1>15, <1>17

\* Bytes that come behind three parts come behind the last of them.
LEMMA JoinedBehind ==
    ASSUME NEW a \in Seq(Byte), NEW b \in Seq(Byte), NEW c \in Seq(Byte), NEW d \in Seq(Byte)
    PROVE  Joined(Joined(a, Joined(b, c)), d) = Joined(a, Joined(b, Joined(c, d)))
<1>1. Joined(b, c) \in Seq(Byte) BY JoinedType
<1>2. Joined(Joined(a, Joined(b, c)), d) = Joined(a, Joined(Joined(b, c), d))
  BY <1>1, JoinedAssociative
<1>3. Joined(Joined(b, c), d) = Joined(b, Joined(c, d)) BY JoinedAssociative
<1> QED BY <1>2, <1>3

\* The messages handled before a read and in it
Handled(before, messages) == before \o messages

\* One more message in a read is one more message handled.
LEMMA HandledAppend ==
    ASSUME NEW before \in Seq(Fitting), NEW messages \in Seq(Fitting), NEW m \in Fitting
    PROVE  Handled(before, Append(messages, m)) = Append(Handled(before, messages), m)
<1> DEFINE one == <<m>>
           x == before \o messages
           y == x \o one
<1>1. one \in Seq(Fitting) /\ x \in Seq(Fitting) BY ConcatProperties
<1>2. Append(messages, m) = messages \o one BY AppendIsConcat
<1>3. Append(x, m) = y BY <1>1, AppendIsConcat
<1>4. x = before \o messages /\ y = x \o one OBVIOUS
<1> HIDE DEF one, x, y
<1>5. y = before \o (messages \o one)
  <2>1. /\ before \in Seq(Fitting) /\ messages \in Seq(Fitting) /\ one \in Seq(Fitting)
        /\ x = before \o messages /\ y = x \o one
    BY <1>1, <1>4
  <2> QED BY ONLY <2>1, MoveBracket
<1> QED BY <1>2, <1>3, <1>4, <1>5, Zenon DEF Handled

LoopType == [buffer : BufferType, data : Seq(Byte), messages : Seq(Fitting)]

\* The bytes that are held or not used yet, in the loop of OnDataReceived
Open(at, rest) == Joined(at.buffer.size, Joined(at.buffer.bytes, Joined(at.data, rest)))

\* The first n messages have been handled, and the rest of the stream is open.
HandledFirst(n, at, before, all, rest) ==
    /\ Handled(before, at.messages) = SubSeq(all, 1, n)
    /\ Joined(Stream(SubSeq(all, 1, n)), Open(at, rest)) = Stream(all)

\* The loop of OnDataReceived when rest is still on the wire.
InRead(at, before, all, rest) ==
    /\ at \in LoopType
    /\ IsBuffer(at.buffer)
    /\ \E n \in 0..Len(all) : HandledFirst(n, at, before, all, rest)

\* A pass keeps the order of the messages and of the bytes, and uses a byte.
LEMMA PassFacts ==
    ASSUME NEW all \in Seq(Fitting), NEW before \in Seq(Fitting), NEW rest \in Seq(Byte),
           NEW at, InRead(at, before, all, rest)
    PROVE  /\ InRead(Pass(at), before, all, rest)
           /\ at.data = <<>> => Pass(at) = at
           /\ at.data # <<>> => Len(Pass(at).data) < Len(at.data)
<1> DEFINE b == at.buffer
           d == at.data
           r == AddData(b, d)
           u == BytesUsed(b, d)
           R == SubSeq(d, u + 1, Len(d))
           next == Pass(at)
<1>0. Width \in Nat BY Constants
<1>1. CASE d = <<>>
  <2>1. Pass(at) = at BY <1>1, Zenon DEF Pass
  <2> QED BY <1>1, <2>1
<1>2. CASE d # <<>>
  <2>1. /\ b \in BufferType /\ IsBuffer(b) /\ d \in Seq(Byte) /\ at.messages \in Seq(Fitting)
        /\ b.size \in Seq(Byte) /\ b.bytes \in Seq(Byte)
    BY DEF InRead, LoopType, BufferType
  <2>2. PICK n \in 0..Len(all) : HandledFirst(n, at, before, all, rest) BY DEF InRead
  <2>3. next = [buffer |-> IF Ready(r) THEN EmptyBuffer ELSE r, data |-> R,
                messages |-> IF Ready(r) THEN Append(at.messages, r.bytes) ELSE at.messages]
    BY <1>2, Zenon DEF Pass, Rest
  <2> HIDE DEF b, d
  <2>4. /\ u \in 1..Len(d)
        /\ r \in BufferType
        /\ Joined(r.size, Joined(r.bytes, R)) = Joined(b.size, Joined(b.bytes, d))
        /\ \/ Len(r.size) < Width /\ r.bytes = <<>>
           \/ /\ Len(r.size) = Width /\ r.full = DecodeLength(r.size)
              /\ Len(r.bytes) <= r.full
    BY <1>2, <2>1, AddDataFacts
  <2>5. R \in Seq(Byte) /\ Len(R) < Len(d)
    <3>1. Len(d) \in Nat BY <2>1, LenProperties
    <3> HIDE DEF u
    <3>2. u \in 0..Len(d) /\ u \in u..Len(d) /\ u >= 1 BY <2>4, <3>1
    <3>3. R \in Seq(Byte) /\ Len(R) = Len(d) - u BY <2>1, <3>2, Pieces
    <3> QED BY <3>1, <3>2, <3>3
  <2> HIDE DEF R, r, u, next
  <2>6. r.full \in Nat /\ r.size \in Seq(Byte) /\ r.bytes \in Seq(Byte)
    BY <2>4 DEF BufferType
  <2>7. next.data = R /\ at.data = d BY <2>3 DEF d
  <2> DEFINE open == Open(at, rest)
             left == Joined(R, rest)
  <2>8. left \in Seq(Byte) BY <2>5, JoinedType
  <2>9. open = Joined(r.size, Joined(r.bytes, left))
    <3> DEFINE s == b.size
               t == b.bytes
               x == r.size
               y == r.bytes
    <3>1. s \in Seq(Byte) /\ t \in Seq(Byte) /\ x \in Seq(Byte) /\ y \in Seq(Byte)
      BY <2>1, <2>6
    <3>2. Joined(x, Joined(y, R)) = Joined(s, Joined(t, d)) BY <2>4
    <3>3. open = Joined(s, Joined(t, Joined(d, rest))) BY Zenon DEF Open, b, d
    <3> HIDE DEF s, t, x, y, open
    <3>4. Joined(Joined(x, Joined(y, R)), rest) = Joined(x, Joined(y, Joined(R, rest)))
      BY <2>5, <3>1, JoinedBehind
    <3>5. Joined(Joined(s, Joined(t, d)), rest) = Joined(s, Joined(t, Joined(d, rest)))
      BY <2>1, <3>1, JoinedBehind
    <3> QED BY <3>2, <3>3, <3>4, <3>5 DEF x, y
  <2>10. /\ Handled(before, at.messages) = SubSeq(all, 1, n)
         /\ Joined(Stream(SubSeq(all, 1, n)), open) = Stream(all)
    BY <2>2 DEF HandledFirst
  <2> HIDE DEF open
  <2>11. CASE Ready(r)
    <3>1. next = [buffer |-> EmptyBuffer, data |-> R, messages |-> Append(at.messages, r.bytes)]
      BY <2>3, <2>11
    <3>2. Len(r.size) = Width /\ Len(r.bytes) = DecodeLength(r.size)
      BY <1>0, <2>4, <2>11 DEF Ready
    <3> DEFINE x == r.size
               y == r.bytes
    <3>3. /\ x \in Seq(Byte) /\ Len(x) = Width /\ y \in Seq(Byte) /\ Len(y) = DecodeLength(x)
          /\ Joined(Stream(SubSeq(all, 1, n)), Joined(x, Joined(y, left))) = Stream(all)
      BY <2>6, <2>9, <2>10, <3>2
    <3> HIDE DEF x, y, left
    <3>4. /\ n < Len(all) /\ y \in Fitting
          /\ SubSeq(all, 1, n + 1) = Append(SubSeq(all, 1, n), y)
          /\ Joined(Stream(SubSeq(all, 1, n + 1)), left) = Stream(all)
      BY <2>8, <3>3, NextMessage
    <3>5. Handled(before, Append(at.messages, y)) = SubSeq(all, 1, n + 1)
      BY <2>1, <2>10, <3>4, HandledAppend
    <3>6. Open(next, rest) = left
      <4>1. next.buffer.size = <<>> /\ next.buffer.bytes = <<>> /\ next.data = R
        BY <3>1 DEF EmptyBuffer
      <4>2. Open(next, rest) = Joined(<<>>, Joined(<<>>, left))
        BY <4>1, Zenon DEF Open, left
      <4> QED BY <2>8, <4>2, JoinedEmpty
    <3>7. next.messages = Append(at.messages, y) /\ next.buffer = EmptyBuffer
      BY <3>1 DEF y
    <3>8. HandledFirst(n + 1, next, before, all, rest)
      BY <3>4, <3>5, <3>6, <3>7 DEF HandledFirst
    <3>9. n + 1 \in 0..Len(all)
      <4>1. Len(all) \in Nat BY LenProperties
      <4> QED BY <3>4, <4>1
    <3>10. next \in LoopType
      <4>1. Append(at.messages, y) \in Seq(Fitting) BY <2>1, <3>4, AppendProperties
      <4>2. EmptyBuffer \in BufferType BY EmptyIsBuffer DEF IsBuffer
      <4>3. next = [buffer |-> EmptyBuffer, data |-> R, messages |-> Append(at.messages, y)]
        BY <3>1 DEF y
      <4> QED BY <2>5, <4>1, <4>2, <4>3 DEF LoopType
    <3>11. InRead(next, before, all, rest)
      BY <3>7, <3>8, <3>9, <3>10, EmptyIsBuffer DEF InRead
    <3> QED BY <1>2, <2>5, <2>7, <3>11 DEF next, d
  <2>12. CASE ~Ready(r)
    <3>1. next = [buffer |-> r, data |-> R, messages |-> at.messages] BY <2>3, <2>12
    <3>2. next.buffer = r /\ next.data = R /\ next.messages = at.messages BY <3>1
    <3>3. next \in LoopType BY <2>1, <2>4, <2>5, <3>1 DEF LoopType
    <3>4. IsBuffer(r)
      <4>1. CASE Len(r.size) < Width /\ r.bytes = <<>> BY <2>4, <4>1 DEF IsBuffer
      <4>2. CASE /\ Len(r.size) = Width /\ r.full = DecodeLength(r.size)
                 /\ Len(r.bytes) <= r.full
        <5>1. Len(r.bytes) \in Nat BY <2>6, LenProperties
        <5>2. r.full # Len(r.bytes) BY <2>12, <4>2 DEF Ready
        <5>3. Len(r.bytes) < r.full BY <2>6, <4>2, <5>1, <5>2
        <5> QED BY <2>4, <4>2, <5>3 DEF IsBuffer
      <4> QED BY <2>4, <4>1, <4>2
    <3>5. Open(next, rest) = open
      <4>1. Open(next, rest) = Joined(r.size, Joined(r.bytes, left))
        BY <3>2, Zenon DEF Open
      <4> QED BY <2>9, <4>1
    <3>6. HandledFirst(n, next, before, all, rest) BY <2>10, <3>2, <3>5 DEF HandledFirst
    <3>7. InRead(next, before, all, rest) BY <3>2, <3>3, <3>4, <3>6 DEF InRead
    <3> QED BY <1>2, <2>5, <2>7, <3>7 DEF next, d
  <2> QED BY <2>11, <2>12
<1> QED BY <1>1, <1>2

IsLoop(f, b, data) ==
    f = [i \in 0..Len(data) |->
            IF i = 0 THEN [buffer |-> b, data |-> data, messages |-> <<>>]
            ELSE Pass(f[i - 1])]

\* The loop ends with all the bytes of the read used.
LEMMA HandleDataFacts ==
    ASSUME NEW all \in Seq(Fitting), NEW before \in Seq(Fitting), NEW rest \in Seq(Byte),
           NEW b, NEW data \in Seq(Byte),
           InRead([buffer |-> b, data |-> data, messages |-> <<>>], before, all, rest)
    PROVE  /\ InRead(HandleData(b, data), before, all, rest)
           /\ HandleData(b, data).data = <<>>
<1> DEFINE n == Len(data)
           start == [buffer |-> b, data |-> data, messages |-> <<>>]
           T == {x \in LoopType : InRead(x, before, all, rest)}
           g == [i \in 1..n |-> [x \in T |-> Pass(x)]]
           c == CHOOSE f : IsLoop(f, b, data)
<1>0. n \in Nat /\ n \in 0..n /\ 0 \in 0..n BY LenProperties
<1>1. \A x \in T : Pass(x) \in T
  <2>1. ASSUME NEW x \in T PROVE Pass(x) \in T
    <3>1. InRead(Pass(x), before, all, rest) BY PassFacts
    <3> QED BY <3>1 DEF InRead
  <2> QED BY <2>1
<1>2. start \in T BY DEF InRead
<1>3. start.data = data OBVIOUS
<1> HIDE DEF n, start, T
<1>4. g \in [1..n -> [T -> T]] BY <1>1
<1>5. \A i \in 1..n : \A x \in T : g[i][x] = Pass(x) OBVIOUS
<1> HIDE DEF g
<1>6. PICK f : IsIteration(f, n, T, start, g) BY <1>0, <1>2, <1>4, Recursion
<1>7. \E h : IsLoop(h, b, data)
  <2>1. ASSUME NEW i \in 0..n, i # 0 PROVE f[i] = Pass(f[i - 1])
    <3>1. i \in 1..n /\ i - 1 \in 0..n BY <1>0, <2>1
    <3> QED BY <1>5, <1>6, <3>1 DEF IsIteration
  <2>2. f = [i \in 0..n |-> f[i]] BY <1>6 DEF IsIteration
  <2>3. f = [i \in 0..n |-> IF i = 0 THEN start ELSE Pass(f[i - 1])]
    BY <1>6, <2>1, <2>2 DEF IsIteration
  <2>4. IsLoop(f, b, data) BY <2>3, Zenon DEF IsLoop, start, n
  <2> QED BY <2>4
<1>8. IsLoop(c, b, data) BY <1>7
<1>9. HandleData(b, data) = c[n] BY Zenon DEF HandleData, IsLoop, n
<1> HIDE DEF c
<1>10. c = [i \in 0..n |-> IF i = 0 THEN start ELSE Pass(c[i - 1])]
  BY <1>8, Zenon DEF IsLoop, start, n
<1>11. c[0] = start /\ \A i \in 1..n : c[i] = Pass(c[i - 1]) BY <1>0, <1>10
<1> DEFINE B == {i \in 0..n : c[i] \in T /\ Len(c[i].data) <= n - i}
<1>12. 0 \in B BY <1>0, <1>2, <1>3, <1>11 DEF n
<1>13. ASSUME NEW i \in 1..n, i - 1 \in B PROVE i \in B
  <2> DEFINE x == c[i - 1]
  <2>1. /\ x \in T /\ Len(x.data) <= n - (i - 1) /\ c[i] = Pass(x)
        /\ i \in 0..n /\ n - i \in Nat /\ n - (i - 1) = n - i + 1
    BY <1>0, <1>11, <1>13
  <2>2. Pass(x) \in T BY <1>1, <2>1
  <2> HIDE DEF x
  <2>3. /\ x.data = <<>> => Pass(x) = x
        /\ x.data # <<>> => Len(Pass(x).data) < Len(x.data)
    BY <2>1, PassFacts DEF T
  <2>4. /\ x.data \in Seq(Byte) /\ Len(x.data) \in Nat
        /\ Pass(x).data \in Seq(Byte) /\ Len(Pass(x).data) \in Nat
    <3>1. x.data \in Seq(Byte) BY <2>1 DEF T, LoopType
    <3> DEFINE p == Pass(x)
    <3>2. p \in T BY <2>2
    <3> HIDE DEF p
    <3>3. p.data \in Seq(Byte) BY <3>2 DEF T, LoopType
    <3>4. Len(x.data) \in Nat /\ Len(p.data) \in Nat BY <3>1, <3>3, LenProperties
    <3> QED BY <3>1, <3>3, <3>4 DEF p
  <2>5. Len(Pass(x).data) <= n - i
    <3>1. CASE x.data = <<>>
      <4>1. Len(Pass(x).data) = 0 BY <2>3, <3>1
      <4> QED BY <2>1, <4>1
    <3>2. CASE x.data # <<>>
      <4> DEFINE p == Len(Pass(x).data)
                 q == Len(x.data)
      <4>1. p < q /\ q <= n - i + 1 /\ p \in Nat /\ q \in Nat
        BY <2>1, <2>3, <2>4, <3>2
      <4> HIDE DEF p, q
      <4>2. p <= n - i BY <2>1, <4>1
      <4> QED BY <4>2 DEF p
    <3> QED BY <3>1, <3>2
  <2> QED BY <2>1, <2>2, <2>5
<1>14. n \in B
  <2> HIDE DEF B
  <2>1. 0..n \subseteq B BY <1>0, <1>12, <1>13, UpTo
  <2> QED BY <1>0, <2>1
<1>15. c[n] \in T /\ Len(c[n].data) <= 0 BY <1>0, <1>14
<1> DEFINE z == c[n]
<1>16. z \in T /\ Len(z.data) <= 0 BY <1>15
<1> HIDE DEF z
<1>17. z.data \in Seq(Byte) BY <1>16 DEF T, LoopType
<1>18. z.data = <<>>
  <2>1. Len(z.data) \in Nat BY <1>17, LenProperties
  <2>2. Len(z.data) = 0 BY <1>16, <2>1
  <2> QED BY <1>17, <2>2, EmptyWhenShort
<1>19. InRead(z, before, all, rest) BY <1>16 DEF T
<1> QED BY <1>9, <1>18, <1>19 DEF z

----------------------------------------------------------------------------
\* The inductive invariant.

\* The bytes that were written and are not yet part of a message
Pending == Joined(buffer.size, Joined(buffer.bytes, wire))

\* The first n messages were handled, and the rest of the stream is pending.
ReceivedFirst(n) ==
    /\ received = SubSeq(sent, 1, n)
    /\ Joined(Stream(received), Pending) = Stream(sent)

FramingInvariant ==
    /\ sent \in Seq(Fitting)
    /\ received \in Seq(Fitting)
    /\ wire \in Seq(Byte)
    /\ IsBuffer(buffer)
    /\ \E n \in 0..Len(sent) : ReceivedFirst(n)

\* The invariant holds before anything is written.
LEMMA InitInvariant == Init => FramingInvariant
<1>1. SUFFICES ASSUME Init PROVE FramingInvariant
  OBVIOUS
<1>2. buffer = EmptyBuffer /\ wire = <<>> /\ sent = <<>> /\ received = <<>> BY <1>1 DEF Init
<1>3. <<>> \in Seq(Fitting) /\ <<>> \in Seq(Byte) /\ Len(<<>>) = 0 OBVIOUS
<1>4. received = SubSeq(sent, 1, 0)
  <2>1. 0 \in 0..Len(sent) BY <1>2, <1>3
  <2>2. SubSeq(sent, 1, 0) \in Seq(Fitting) /\ Len(SubSeq(sent, 1, 0)) = 0
    BY <1>2, <1>3, <2>1, SubSeqGrows
  <2> QED BY <1>2, <2>2, EmptyWhenShort
<1>5. Joined(<<>>, <<>>) = <<>> BY <1>3, JoinedEmpty
<1>6. Pending = <<>>
  <2>1. buffer.size = <<>> /\ buffer.bytes = <<>> BY <1>2 DEF EmptyBuffer
  <2>2. Pending = Joined(<<>>, Joined(<<>>, <<>>)) BY <1>2, <2>1, Zenon DEF Pending
  <2> QED BY <1>5, <2>2
<1>7. Joined(Stream(received), Pending) = Stream(sent)
  <2>1. Stream(received) = <<>> /\ Stream(sent) = <<>> BY <1>2, StreamEmpty, Zenon
  <2> QED BY <1>5, <1>6, <2>1
<1>8. ReceivedFirst(0) BY <1>4, <1>7 DEF ReceivedFirst
<1>9. IsBuffer(buffer) BY <1>2, EmptyIsBuffer
<1> QED BY <1>2, <1>3, <1>8, <1>9 DEF FramingInvariant

\* Send writes only messages whose length fits into Width bytes.
LEMMA WrittenFits ==
    ASSUME NEW message \in Message
    PROVE  Written(message) \in Fitting
<1>1. message \in Seq(Byte) /\ SizeError \in Seq(Byte) /\ Len(SizeError) <= MaxLength
  BY FramingAssumption
<1>2. Len(message) \in Nat /\ MaxLength \in Nat BY <1>1, LenProperties, MaxLengthType
<1> QED BY <1>1, <1>2 DEF Written, Fitting

\* The beginning of a sequence stays when an element is put at its end.
LEMMA BeginningStays ==
    ASSUME NEW S, NEW s \in Seq(S), NEW e \in S, NEW n \in 0..Len(s)
    PROVE  SubSeq(Append(s, e), 1, n) = SubSeq(s, 1, n)
<1> DEFINE t == Append(s, e)
<1>1. /\ Len(s) \in Nat /\ t \in Seq(S) /\ Len(t) = Len(s) + 1
      /\ \A i \in 1..Len(s) : t[i] = s[i]
  BY LenProperties, AppendProperties
<1> HIDE DEF t
<1>2. /\ SubSeq(s, 1, n) \in Seq(S) /\ Len(SubSeq(s, 1, n)) = n
      /\ SubSeq(t, 1, n) \in Seq(S) /\ Len(SubSeq(t, 1, n)) = n
  <2>1. n \in 0..Len(t) BY <1>1
  <2> QED BY <1>1, <2>1, SubSeqGrows
<1>3. ASSUME NEW i \in 1..n PROVE SubSeq(t, 1, n)[i] = SubSeq(s, 1, n)[i]
  <2>1. i \in 1..Len(s) BY <1>1
  <2> QED BY <1>1, <2>1
<1>4. SubSeq(t, 1, n) = SubSeq(s, 1, n) BY <1>2, <1>3, SeqEqual
<1> QED BY <1>4 DEF t

\* Send keeps the invariant: its frame is at the end of the stream and pending.
LEMMA SendInvariant ==
    ASSUME FramingInvariant, NEW message \in Message, Send(message)
    PROVE  FramingInvariant'
<1> DEFINE w == Written(message)
           F == Frame(w)
<1>1. w \in Fitting BY WrittenFits
<1>2. F \in Seq(Byte) BY <1>1, FrameFacts
<1>3. /\ wire' = Joined(wire, F) /\ sent' = Append(sent, w)
      /\ buffer' = buffer /\ received' = received
  BY Zenon DEF Send, Joined
<1> HIDE DEF w, F
<1>4. /\ sent \in Seq(Fitting) /\ received \in Seq(Fitting) /\ wire \in Seq(Byte)
      /\ IsBuffer(buffer)
  BY DEF FramingInvariant
<1>5. PICK n \in 0..Len(sent) : ReceivedFirst(n) BY DEF FramingInvariant
<1>6. buffer.size \in Seq(Byte) /\ buffer.bytes \in Seq(Byte)
  BY <1>4 DEF IsBuffer, BufferType
<1>7. sent' \in Seq(Fitting) /\ Len(sent') = Len(sent) + 1 /\ Len(sent) \in Nat
  BY <1>1, <1>3, <1>4, AppendProperties, LenProperties
<1>8. wire' \in Seq(Byte) BY <1>2, <1>3, <1>4, JoinedType
<1>9. received' = SubSeq(sent', 1, n)
  BY <1>1, <1>3, <1>4, <1>5, BeginningStays DEF ReceivedFirst
<1>10. Stream(sent') = Joined(Stream(sent), F)
  BY <1>1, <1>3, <1>4, StreamAppend, Zenon DEF F, Joined
<1>11. Joined(Stream(received'), Pending') = Stream(sent')
  <2> DEFINE s == buffer.size
             t == buffer.bytes
             head == Stream(received)
  <2>1. /\ s \in Seq(Byte) /\ t \in Seq(Byte) /\ head \in Seq(Byte)
        /\ Joined(t, wire) \in Seq(Byte) /\ Joined(s, Joined(t, wire)) \in Seq(Byte)
    <3>1. Joined(buffer.bytes, wire) \in Seq(Byte) BY <1>4, <1>6, JoinedType
    <3> QED BY <1>4, <1>6, <3>1, JoinedType, StreamType
  <2>2. Joined(head, Joined(s, Joined(t, wire))) = Stream(sent)
    BY <1>5 DEF ReceivedFirst, Pending
  <2>3. Pending' = Joined(s, Joined(t, Joined(wire, F))) /\ Stream(received') = head
    BY <1>3, Zenon DEF Pending
  <2> HIDE DEF s, t, head
  <2>4. Joined(Joined(s, Joined(t, wire)), F) = Joined(s, Joined(t, Joined(wire, F)))
    BY <1>2, <1>4, <2>1, JoinedBehind
  <2>5. Joined(Joined(head, Joined(s, Joined(t, wire))), F)
        = Joined(head, Joined(Joined(s, Joined(t, wire)), F))
    BY <1>2, <2>1, JoinedAssociative
  <2> QED BY <1>10, <2>2, <2>3, <2>4, <2>5
<1>12. ReceivedFirst(n)' BY <1>9, <1>11 DEF ReceivedFirst
<1>13. n \in 0..Len(sent') BY <1>7
<1>14. \E m \in 0..Len(sent') : ReceivedFirst(m)' BY <1>12, <1>13
<1> QED BY <1>3, <1>4, <1>7, <1>8, <1>14 DEF FramingInvariant

\* A read of any number of bytes keeps the invariant.
LEMMA ReadInvariant ==
    ASSUME FramingInvariant, NEW k \in 1..Len(wire), OnDataReceived(k)
    PROVE  FramingInvariant'
<1> DEFINE data == SubSeq(wire, 1, k)
           rest == SubSeq(wire, k + 1, Len(wire))
           start == [buffer |-> buffer, data |-> data, messages |-> <<>>]
           at == HandleData(buffer, data)
<1>1. /\ wire' = rest /\ buffer' = at.buffer /\ received' = Handled(received, at.messages)
      /\ sent' = sent
  BY Zenon DEF OnDataReceived, Prefix, Rest, Handled
<1>2. /\ sent \in Seq(Fitting) /\ received \in Seq(Fitting) /\ wire \in Seq(Byte)
      /\ IsBuffer(buffer)
  BY DEF FramingInvariant
<1>3. PICK n \in 0..Len(sent) : ReceivedFirst(n) BY DEF FramingInvariant
<1>4. data \in Seq(Byte) /\ rest \in Seq(Byte) /\ wire = Joined(data, rest)
  <2>1. Len(wire) \in Nat BY <1>2, LenProperties
  <2>2. k \in 0..Len(wire) /\ k \in k..Len(wire) /\ Len(wire) \in k..Len(wire) BY <2>1
  <2>3. data \in Seq(Byte) /\ rest \in Seq(Byte) BY <1>2, <2>2, Pieces
  <2>4. data \o rest = wire
    <3>1. data \o rest = SubSeq(wire, 1, Len(wire))
      <4> DEFINE m == 1
                 l == Len(wire)
      <4>1. m \in 1..l + 1 /\ k \in m - 1..l /\ l \in k..l BY <2>1
      <4> HIDE DEF m
      <4>2. SubSeq(wire, m, k) \o SubSeq(wire, k + 1, l) = SubSeq(wire, m, l)
        BY <1>2, <4>1, ConcatAdjacentSubSeq
      <4> QED BY <4>2 DEF m
    <3> QED BY <1>2, <3>1, SubSeqFull
  <2> QED BY <2>3, <2>4, Zenon DEF Joined
<1> HIDE DEF data, rest
<1>5. InRead(start, received, sent, rest)
  <2>1. /\ start.buffer = buffer /\ start.data = data /\ start.messages = <<>>
        /\ start \in LoopType
    BY <1>2, <1>4 DEF LoopType, IsBuffer
  <2> HIDE DEF start
  <2>2. Handled(received, start.messages) = received
    BY <1>2, <2>1, ConcatEmptySeq DEF Handled
  <2>3. Open(start, rest) = Pending BY <1>4, <2>1, Zenon DEF Open, Pending
  <2>4. HandledFirst(n, start, received, sent, rest)
    BY <1>3, <2>2, <2>3 DEF HandledFirst, ReceivedFirst
  <2> QED BY <1>2, <2>1, <2>4 DEF InRead
<1>6. InRead(at, received, sent, rest) /\ at.data = <<>>
  BY <1>2, <1>4, <1>5, HandleDataFacts
<1> HIDE DEF at, start
<1>7. PICK m \in 0..Len(sent) : HandledFirst(m, at, received, sent, rest)
  BY <1>6 DEF InRead
<1>8. received' = SubSeq(sent, 1, m) BY <1>1, <1>7 DEF HandledFirst
<1>9. received' \in Seq(Fitting) BY <1>2, <1>8, SubSeqGrows
<1>10. Pending' = Open(at, rest)
  <2>1. Joined(at.data, rest) = rest BY <1>4, <1>6, JoinedEmpty
  <2>2. Pending' = Joined(at.buffer.size, Joined(at.buffer.bytes, rest))
    BY <1>1, Zenon DEF Pending
  <2> QED BY <2>1, <2>2, Zenon DEF Open
<1>11. Joined(Stream(received'), Pending') = Stream(sent')
  <2>1. Joined(Stream(SubSeq(sent, 1, m)), Open(at, rest)) = Stream(sent)
    BY <1>7 DEF HandledFirst
  <2> QED BY <1>1, <1>8, <1>10, <2>1, Zenon
<1>12. ReceivedFirst(m)' BY <1>1, <1>8, <1>11 DEF ReceivedFirst
<1>13. \E i \in 0..Len(sent') : ReceivedFirst(i)' BY <1>1, <1>12
<1>14. IsBuffer(buffer') BY <1>1, <1>6 DEF InRead
<1> QED BY <1>1, <1>2, <1>4, <1>9, <1>13, <1>14 DEF FramingInvariant

\* The invariant of the framing, for the whole specification.
LEMMA InvariantHolds == Spec => []FramingInvariant
<1>1. FramingInvariant /\ [Next]_vars => FramingInvariant'
  <2>1. SUFFICES ASSUME FramingInvariant, [Next]_vars PROVE FramingInvariant'
    OBVIOUS
  <2>2. CASE UNCHANGED vars
    BY <2>1, <2>2 DEF FramingInvariant, ReceivedFirst, Pending, vars
  <2>3. CASE \E message \in Message : Send(message) BY <2>1, <2>3, SendInvariant
  <2>4. CASE \E n \in 1..Len(wire) : OnDataReceived(n) BY <2>1, <2>4, ReadInvariant
  <2> QED BY <2>1, <2>2, <2>3, <2>4 DEF Next
<1> QED BY InitInvariant, <1>1, PTL DEF Spec

----------------------------------------------------------------------------
\* What the receiver promises.

\* FramedBuffer::AddData and the loop of OnDataReceived lose, repeat and move no
\* byte, for every width of the length, every sequence of messages, a message
\* that Send replaces by MESSAGE_SIZE_ERROR included, and every cutting of the
\* stream into reads.
THEOREM StreamConserved == Spec => []StreamIsConserved
<1>1. FramingInvariant => StreamIsConserved
  <2>1. SUFFICES ASSUME FramingInvariant PROVE StreamIsConserved
    OBVIOUS
  <2> DEFINE head == Stream(received)
             s == buffer.size
             t == buffer.bytes
  <2>2. /\ head \in Seq(Byte) /\ s \in Seq(Byte) /\ t \in Seq(Byte) /\ wire \in Seq(Byte)
    BY <2>1, StreamType DEF FramingInvariant, IsBuffer, BufferType
  <2>3. Joined(head, Joined(s, Joined(t, wire))) = Stream(sent)
    BY <2>1 DEF FramingInvariant, ReceivedFirst, Pending
  <2>4. StreamIsConserved <=> Joined(Joined(Joined(head, s), t), wire) = Stream(sent)
    BY Zenon DEF StreamIsConserved, Joined
  <2> HIDE DEF head, s, t
  <2>5. Joined(head, s) \in Seq(Byte) /\ Joined(t, wire) \in Seq(Byte) BY <2>2, JoinedType
  <2>6. Joined(Joined(Joined(head, s), t), wire) = Joined(Joined(head, s), Joined(t, wire))
    BY <2>2, <2>5, JoinedAssociative
  <2>7. Joined(Joined(head, s), Joined(t, wire)) = Joined(head, Joined(s, Joined(t, wire)))
    BY <2>2, <2>5, JoinedAssociative
  <2> QED BY <2>3, <2>4, <2>6, <2>7
<1> QED BY <1>1, InvariantHolds, PTL

\* A buffer that waits does not hold a whole message.
LEMMA WaitingIsShort ==
    ASSUME NEW b, IsBuffer(b), NEW m \in Fitting, NEW t \in Seq(Byte)
    PROVE  Joined(b.size, b.bytes) # Frame(m) \o t
<1> DEFINE length == EncodeLength(Len(m))
           s == b.size
           y == b.bytes
           more == Joined(m, t)
<1>0. Width \in Nat BY Constants
<1>1. SUFFICES ASSUME Joined(s, y) = Frame(m) \o t PROVE FALSE
  OBVIOUS
<1>2. /\ m \in Seq(Byte) /\ Len(m) \in Nat /\ length \in Seq(Byte) /\ Len(length) = Width
      /\ DecodeLength(length) = Len(m) /\ Frame(m) = length \o m
  BY FrameFacts
<1>3. b.full \in Nat /\ s \in Seq(Byte) /\ y \in Seq(Byte) /\ Len(t) \in Nat
  BY LenProperties DEF IsBuffer, BufferType
<1>4. Joined(s, y) = Joined(Joined(length, m), t) BY <1>1, <1>2, Zenon DEF Joined
<1>5. \/ Len(s) < Width /\ y = <<>>
      \/ Len(s) = Width /\ b.full = DecodeLength(s) /\ Len(y) < b.full
  BY DEF IsBuffer
<1> HIDE DEF length, s, y
<1>6. Joined(s, y) = Joined(length, more) BY <1>2, <1>4, JoinedAssociative
<1>7. more \in Seq(Byte) /\ Len(more) = Len(m) + Len(t) BY <1>2, JoinedType
<1> HIDE DEF more
<1>8. CASE Len(s) < Width /\ y = <<>>
  <2>1. Len(Joined(s, y)) = Len(s) /\ Len(s) \in Nat
    BY <1>3, <1>8, JoinedEmpty, LenProperties
  <2>2. Len(Joined(length, more)) = Width + Len(more) /\ Len(more) \in Nat
    BY <1>2, <1>7, JoinedType, LenProperties
  <2> QED BY <1>0, <1>6, <1>8, <2>1, <2>2
<1>9. CASE Len(s) = Width /\ b.full = DecodeLength(s) /\ Len(y) < b.full
  <2>1. s = length /\ y = more BY <1>2, <1>3, <1>6, <1>7, <1>9, JoinedParts
  <2> QED BY <1>2, <1>3, <1>7, <1>9, <2>1
<1> QED BY <1>5, <1>8, <1>9

\* HandleMessage is called with the messages that were written, whole and in
\* their order, and OnDataReceived leaves none of them in the buffer when all
\* the bytes have been read.
THEOREM MessagesDelivered == Spec => []AllDelivered
<1>1. FramingInvariant => AllDelivered
  <2>1. SUFFICES ASSUME FramingInvariant PROVE AllDelivered
    OBVIOUS
  <2>2. /\ sent \in Seq(Fitting) /\ received \in Seq(Fitting) /\ wire \in Seq(Byte)
        /\ IsBuffer(buffer) /\ buffer.size \in Seq(Byte) /\ buffer.bytes \in Seq(Byte)
        /\ Len(sent) \in Nat
    BY <2>1, LenProperties DEF FramingInvariant, IsBuffer, BufferType
  <2>3. PICK n \in 0..Len(sent) :
           /\ received = SubSeq(sent, 1, n)
           /\ Joined(Stream(received), Pending) = Stream(sent)
    BY <2>1 DEF FramingInvariant, ReceivedFirst
  <2>4. Len(received) = n BY <2>2, <2>3, SubSeqGrows
  <2>5. IsPrefix(received, sent)
    <3>1. SubSeq(received, 1, Len(received)) = received BY <2>2, SubSeqFull
    <3> QED BY <2>2, <2>3, <2>4, <3>1 DEF IsPrefix
  <2>6. ASSUME wire = <<>> PROVE received = sent
    <3>1. Pending = Joined(buffer.size, buffer.bytes)
      <4>1. Joined(buffer.bytes, wire) = buffer.bytes BY <2>2, <2>6, JoinedEmpty
      <4> QED BY <4>1, Zenon DEF Pending
    <3>2. Pending \in Seq(Byte) BY <2>2, <3>1, JoinedType
    <3>3. ASSUME n < Len(sent) PROVE FALSE
      <4>1. Stream(sent) = Stream(SubSeq(sent, 1, n)) \o Pending
        BY <2>3, Zenon DEF Joined
      <4> DEFINE left == Pending
      <4>2. left \in Seq(Byte) /\ Stream(sent) = Stream(SubSeq(sent, 1, n)) \o left
        BY <3>2, <4>1
      <4> HIDE DEF left
      <4>3. /\ sent[n + 1] \in Fitting
            /\ \E t \in Seq(Byte) : left = Frame(sent[n + 1]) \o t
        BY <2>2, <3>3, <4>2, StreamSplit
      <4> DEFINE m == sent[n + 1]
      <4>4. m \in Fitting /\ \E t \in Seq(Byte) : left = Frame(m) \o t BY <4>3
      <4> HIDE DEF m
      <4>5. PICK t \in Seq(Byte) : left = Frame(m) \o t BY <4>4
      <4>6. Joined(buffer.size, buffer.bytes) = Frame(m) \o t BY <3>1, <4>5, Zenon DEF left
      <4> QED BY <2>2, <4>4, <4>6, WaitingIsShort
    <3>4. n = Len(sent) BY <2>2, <3>3
    <3> QED BY <2>2, <2>3, <3>4, SubSeqFull
  <2> QED BY <2>5, <2>6 DEF AllDelivered
<1> QED BY <1>1, InvariantHolds, PTL

============================================================================
