---------------------------- MODULE BufferStream ----------------------------
(* SharedUtil.Buffer: a CBufferWriteStream lays items out in a byte array    *)
(* and a CBufferReadStream takes them out again, each in the order and with  *)
(* the types it was written for.  A byte has BYTE values, a ushort two bytes *)
(* and a uint four; lengths keep the width the code gives them.              *)
EXTENDS Integers, Sequences

CONSTANTS
    BYTE,       \* values of a byte (256)
    Items,      \* what may be written: records [kind, data], see Kinds
    MaxItems    \* bound of the number of items in a buffer

BufferAssumption == BYTE \in Nat \ {0, 1} /\ MaxItems \in Nat

\* A "sized" string is one with bDoesLengthIncludeLengthOfLength.
Kinds == {"string", "byteString", "sizedString", "sizedByteString", "buffer", "ushort"}
LengthSize(kind) == IF kind \in {"byteString", "sizedByteString"} THEN 1 ELSE 2
Sized(kind) == kind \in {"sizedString", "sizedByteString"}
USHORT == BYTE * BYTE
Marker == USHORT - 1   \* 65535

Byte == 0 .. BYTE - 1

\* Texts and buffers are as long as their lengths can say (an int for a buffer), and a text's
\* length does not count its own size.
ItemsFit ==
    \A item \in Items :
        /\ item = [kind |-> item.kind, data |-> item.data]
        /\ item.kind \in Kinds /\ ~Sized(item.kind) /\ item.data \in Seq(Byte)
        /\ item.kind = "string" => Len(item.data) < USHORT
        /\ item.kind = "byteString" => Len(item.data) < BYTE
        /\ item.kind = "buffer" => 2 * Len(item.data) < USHORT * USHORT
        /\ item.kind = "ushort" => Len(item.data) = 2

VARIABLES
    pBuffer,         \* the bytes
    bToFromNetwork,  \* of both streams: numbers go in network order
    unread,          \* ghost: the items written and not yet read
    m_iPos,          \* of the read stream
    lastRead,        \* result of the last read: [ok, item, data]
    cut              \* ghost: the buffer lost its tail on the way

streamVars == <<pBuffer, bToFromNetwork, unread, m_iPos, lastRead, cut>>

Nothing == [kind |-> "none", data |-> <<>>]

StreamInit ==
    /\ pBuffer = <<>> /\ unread = <<>> /\ m_iPos = 0 /\ cut = FALSE
    /\ bToFromNetwork \in BOOLEAN
    /\ lastRead = [ok |-> TRUE, item |-> Nothing, data |-> <<>>]

(* ------------------------------- the bytes -------------------------------- *)

\* What the bytes of a number in memory count (little endian).
Weight == <<1, BYTE, USHORT, USHORT * BYTE>>
AsBytes(size, n) == [i \in 1 .. size |-> (n \div Weight[i]) % BYTE]
Number(bytes) ==
    LET sum[i \in 0 .. Len(bytes)] == IF i = 0 THEN 0 ELSE sum[i - 1] + bytes[i] * Weight[i]
    IN  sum[Len(bytes)]

Reversed(s) == [i \in DOMAIN s |-> s[Len(s) + 1 - i]]
Ordered(s) == IF bToFromNetwork THEN Reversed(s) ELSE s

(* ------------------------------- writing ---------------------------------- *)

\* Mutant: the marker of the long form is also written as a length.
BufferLengthUpToMarker(n) ==
    IF n > Marker THEN Ordered(AsBytes(2, Marker)) \o Ordered(AsBytes(4, n))
    ELSE Ordered(AsBytes(2, n))

BufferLength(n) ==
    IF n > Marker - 1 THEN Ordered(AsBytes(2, Marker)) \o Ordered(AsBytes(4, n))
    ELSE Ordered(AsBytes(2, n))

\* WriteString: the length may count its own size, and that many bytes are taken
\* from the text: its terminating zero, and a byte from behind it.
StringLayout(item, beyond) ==
    LET size == LengthSize(item.kind)
        text == Len(item.data) % USHORT
        usLength == IF Sized(item.kind) /\ text # 0 THEN (text + size) % USHORT ELSE text
    IN  Ordered(AsBytes(size, usLength))
            \o SubSeq(item.data \o <<0, beyond>>, 1, usLength)

\* WriteString, WriteBuffer and Write: the bytes that are added.
Layout(item, beyond) ==
    CASE item.kind = "buffer" -> BufferLength(Len(item.data)) \o item.data
      [] item.kind = "ushort" -> Ordered(item.data)
      [] OTHER -> StringLayout(item, beyond)

\* The write stream stands at the end of the buffer.
WriteItem(item, beyond) ==
    /\ Len(unread) < MaxItems /\ m_iPos = 0 /\ ~cut /\ lastRead.item = Nothing
    /\ pBuffer' = pBuffer \o Layout(item, beyond)
    /\ unread' = Append(unread, item)
    /\ UNCHANGED <<bToFromNetwork, m_iPos, lastRead, cut>>

\* The buffer arrives short: SetSize to less than what was written.
CutShort(size) ==
    /\ unread # <<>> /\ m_iPos = 0 /\ ~cut /\ lastRead.item = Nothing
    /\ size < Len(pBuffer)
    /\ pBuffer' = SubSeq(pBuffer, 1, size) /\ cut' = TRUE
    /\ UNCHANGED <<bToFromNetwork, unread, m_iPos, lastRead>>

(* ------------------------------- reading ---------------------------------- *)

\* GetBytes: "Not enough data to get?"
Fits(at, length) == at + length <= Len(pBuffer)

Slice(at, length) == SubSeq(pBuffer, at + 1, at + length)

\* Each reader takes a position and says [ok, data, to]: where the stream then
\* stands.  A failed read has taken the length it could read, no more.
Fail(at) == [ok |-> FALSE, data |-> <<>>, to |-> at]

ReadBytes(at, length) ==
    IF Fits(at, length) THEN [ok |-> TRUE, data |-> Slice(at, length), to |-> at + length]
    ELSE Fail(at)

ReadData(at, length) == IF length = 0 THEN [ok |-> TRUE, data |-> <<>>, to |-> at]
                        ELSE ReadBytes(at, length)

\* The result of reading the length is not looked at: a length that is not there
\* is the 0 the variable was given.
ReadString(kind, at) ==
    LET size == LengthSize(kind)
        length == ReadBytes(at, size)
        usLength == IF length.ok THEN Number(Ordered(length.data)) ELSE 0
    IN  ReadData(length.to, IF Sized(kind) /\ usLength # 0 THEN (usLength - size) % USHORT
                            ELSE usLength)

ReadBuffer(at) ==
    LET short == ReadBytes(at, 2)
        long == ReadBytes(short.to, 4)
        read == IF short.ok /\ Number(Ordered(short.data)) = Marker THEN long ELSE short
    IN  IF read.ok THEN ReadData(read.to, Number(Ordered(read.data))) ELSE Fail(read.to)

ReadItem(kind, at) ==
    CASE kind = "buffer" -> ReadBuffer(at)
      [] kind = "ushort" -> LET word == ReadBytes(at, 2)
                            IN  [word EXCEPT !.data = Ordered(@)]
      [] OTHER -> ReadString(kind, at)

\* The reader asks for the items in the order they were written, until one fails.
ReadNext ==
    /\ unread # <<>> /\ lastRead.ok
    /\ LET read == ReadItem(Head(unread).kind, m_iPos)
       IN  /\ m_iPos' = read.to
           /\ lastRead' = [ok |-> read.ok, item |-> Head(unread), data |-> read.data]
    /\ unread' = Tail(unread)
    /\ UNCHANGED <<pBuffer, bToFromNetwork, cut>>

StreamNext ==
    \/ \E item \in Items, beyond \in Byte : WriteItem(item, beyond)
    \/ \E size \in 0 .. Len(pBuffer) : CutShort(size)
    \/ ReadNext

StreamSpec == StreamInit /\ [][StreamNext]_streamVars

(* ------------------------------- properties ------------------------------- *)

StreamTypeOK ==
    /\ \A i \in DOMAIN pBuffer : pBuffer[i] \in Byte
    /\ m_iPos \in 0 .. Len(pBuffer)
    /\ unread \in Seq(Items) /\ lastRead.item \in Items \cup {Nothing}

\* Without bDoesLengthIncludeLengthOfLength and with texts as long as their length
\* can say, what is read is what was written, item by item, in either byte order, whatever
\* stands before and after it in the buffer; the last item ends at its end.
ItemsReadBack ==
    ~cut => /\ lastRead.ok /\ lastRead.data = lastRead.item.data
            /\ (unread = <<>> => m_iPos = Len(pBuffer) \/ lastRead.item = Nothing)

\* From a buffer that lost its tail a read gives what was written or nothing: no
\* other text, number or part of one.
NothingInvented == lastRead.data \in {lastRead.item.data, <<>>}

\* What a CBufferReadStream reads is what was written, and from a buffer that lost its tail
\* nothing else either.
ReadsBack == StreamTypeOK /\ ItemsReadBack /\ NothingInvented
=============================================================================
