------------------------------ MODULE Framing ------------------------------
(***************************************************************************)
(* How one direction of a connection becomes messages again: FramedBuffer, *)
(* ProtobufProtocol::OnDataReceived and ::Send                             *)
(* (src/decibel-cpp/include/decibel/messaging).                            *)
(*                                                                         *)
(* A message is a sequence of bytes.  Send puts its length, little end     *)
(* first, in front of it; the network keeps the order of the bytes and     *)
(* delivers them in pieces of any size.  The width of the length and the   *)
(* number of values of a byte are parameters.                              *)
(***************************************************************************)
EXTENDS Naturals, SequencesExt

CONSTANTS
    Width,       \* sizeof(LengthT)
    Base,        \* the number of values of a byte
    Message,     \* the messages that are sent
    SizeError,   \* the answer MESSAGE_SIZE_ERROR
    MaxSent      \* bound on the number of messages

VARIABLES
    buffer,      \* the FramedBuffer of the receiving protocol
    wire,        \* the bytes that were written and not read yet
    sent,        \* the messages that were written
    received     \* the messages passed to HandleMessage

vars == <<buffer, wire, sent, received>>

Byte == 0..Base - 1

----------------------------------------------------------------------------
(* The length in front of a message *)

\* memcpy from the length: its bytes, the lowest first
EncodeLength(n) ==
    LET rest[i \in 0..Width] == IF i = 0 THEN n ELSE rest[i - 1] \div Base
    IN  [i \in 1..Width |-> rest[i - 1] % Base]

\* Mutant of DecodeLength: the highest byte is taken to come first.
DecodeBigEndian(bytes) ==
    FoldLeft(LAMBDA n, byte : byte + Base * n, 0, bytes)

\* memcpy into the length: the highest byte, which comes last, is taken first
DecodeLength(bytes) ==
    LET value[i \in 0..Width] ==
            IF i = 0 THEN 0 ELSE bytes[Width - i + 1] + Base * value[i - 1]
    IN  value[Width]

\* std::numeric_limits<LengthT>::max()
MaxLength == DecodeLength([i \in 1..Width |-> Base - 1])

ASSUME FramingAssumption ==
    /\ Width \in Nat \ {0}
    /\ Base \in Nat \ {0, 1}
    /\ Message \subseteq Seq(Byte)
    /\ SizeError \in Seq(Byte) /\ Len(SizeError) <= MaxLength
    /\ MaxSent \in Nat

----------------------------------------------------------------------------
(* Writing *)

Frame(message) == EncodeLength(Len(message)) \o message

\* A message that is too long is answered by the error callback instead.
Written(message) == IF Len(message) > MaxLength THEN SizeError ELSE message

Send(message) ==
    /\ Len(sent) < MaxSent
    /\ wire' = wire \o Frame(Written(message))
    /\ sent' = Append(sent, Written(message))
    /\ UNCHANGED <<buffer, received>>

----------------------------------------------------------------------------
(* Reading *)

\* mFullSize, mSizeBuffer and mBytes
EmptyBuffer == [full |-> 0, size |-> <<>>, bytes |-> <<>>]

Ready(b) == Len(b.size) = Width /\ b.full = Len(b.bytes)

Least(m, n) == IF m < n THEN m ELSE n

Prefix(s, n) == SubSeq(s, 1, n)

Rest(s, n) == SubSeq(s, n + 1, Len(s))

\* How many of the bytes go to the length, and how many to the message.
SizeCount(b, bytes) == Least(Len(bytes), Width - Len(b.size))

\* The buffer when the bytes of its length have been added
Sized(b, bytes) ==
    LET size == b.size \o Prefix(bytes, SizeCount(b, bytes))
    IN  [full |-> IF Len(size) = Width THEN DecodeLength(size) ELSE b.full,
         size |-> size,
         bytes |-> b.bytes]

ByteCount(b, bytes) ==
    LET left == Len(bytes) - SizeCount(b, bytes)
        sized == Sized(b, bytes)
    IN  IF Len(sized.size) < Width THEN 0
        ELSE Least(left, sized.full - Len(b.bytes))

BytesUsed(b, bytes) == SizeCount(b, bytes) + ByteCount(b, bytes)

AddData(b, bytes) ==
    [Sized(b, bytes) EXCEPT
        !.bytes = @ \o SubSeq(bytes, SizeCount(b, bytes) + 1, BytesUsed(b, bytes))]

\* One pass of the loop in OnDataReceived: data is what is left of the read.
Pass(at) ==
    LET b == AddData(at.buffer, at.data)
    IN  IF at.data = <<>> THEN at
        ELSE [buffer |-> IF Ready(b) THEN EmptyBuffer ELSE b,
              data |-> Rest(at.data, BytesUsed(at.buffer, at.data)),
              messages |-> IF Ready(b) THEN Append(at.messages, b.bytes)
                           ELSE at.messages]

\* Mutant of HandleData: what is left of a read after a message is dropped.
HandleOnce(b, data) ==
    Pass([buffer |-> b, data |-> data, messages |-> <<>>])

\* Each pass uses a byte at least, so that as many passes as bytes are enough.
HandleData(b, data) ==
    LET at[i \in 0..Len(data)] ==
            IF i = 0 THEN [buffer |-> b, data |-> data, messages |-> <<>>]
            ELSE Pass(at[i - 1])
    IN  at[Len(data)]

\* The next n bytes arrive in one read.
OnDataReceived(n) ==
    LET at == HandleData(buffer, Prefix(wire, n))
    IN  /\ wire' = Rest(wire, n)
        /\ buffer' = at.buffer
        /\ received' = received \o at.messages
        /\ UNCHANGED sent

----------------------------------------------------------------------------

Init ==
    /\ buffer = EmptyBuffer
    /\ wire = <<>>
    /\ sent = <<>>
    /\ received = <<>>

Next ==
    \/ \E message \in Message : Send(message)
    \/ \E n \in 1..Len(wire) : OnDataReceived(n)

Spec == Init /\ [][Next]_vars

----------------------------------------------------------------------------
(* Properties *)

\* The bytes of a sequence of messages
Stream(messages) == FlattenSeq([i \in DOMAIN messages |-> Frame(messages[i])])

\* No byte is lost, repeated or moved, wherever a read is cut: in a length,
\* between a length and its message, in a message or between two messages.
StreamIsConserved ==
    Stream(received) \o buffer.size \o buffer.bytes \o wire = Stream(sent)

\* The messages arrive whole, in order and at once: when everything that was
\* written has been read, everything that was sent has been handled, empty
\* messages and several messages of one read included.
AllDelivered ==
    /\ IsPrefix(received, sent)
    /\ wire = <<>> => received = sent

============================================================================
