----------------------------- MODULE ByteStream -----------------------------
(* SNET/bstream.lua and SNET/utilities/bcoder.lua: the byte streams whose     *)
(* contents SNET packets carry.  A writer builds a stream, its bytes travel   *)
(* as a packet's data, and a reader reads the values one after the other.     *)
EXTENDS Integers, Sequences

CONSTANTS
    Base,           \* values of a byte, 256 in the code
    Sizes,          \* ffi.sizeof: the bytes of each type of numbers
    Signed,         \* the types with negative values
    MaxItems,       \* bound: values written to a stream
    MaxLength       \* bound: length of a string

Types == DOMAIN Sizes

ByteStreamAssumption ==
    /\ Base \in Nat \ {0, 1} /\ MaxItems \in Nat /\ MaxLength \in Nat
    /\ Sizes \in [Types -> Nat \ {0}]
    /\ "string" \notin Types
    /\ "bool" \in Types => Sizes["bool"] = 1
    /\ Signed \subseteq Types \ {"bool"}
ASSUME ByteStreamAssumed == ByteStreamAssumption

Bytes == 0 .. Base - 1

VARIABLES
    bytes, write_ptr,       \* the writer's stream
    received, read_ptr,     \* the reader's stream; NotSent before the packet came
    items,                  \* ghost: what was written, [type, val] each, a number as a sequence of one
    results                 \* ghost: what was read
bstreamVars == <<bytes, write_ptr, received, read_ptr, items, results>>

NotSent == <<-1>>

BytesInit ==
    /\ bytes = <<>> /\ write_ptr = 1 /\ received = NotSent /\ read_ptr = 1
    /\ items = <<>> /\ results = <<>>

(* --------------------------------- bcoder --------------------------------- *)

\* What the byte behind n others counts.
Weight(n) ==
    LET weight[k \in 0 .. n] == IF k = 0 THEN 1 ELSE Base * weight[k - 1]
    IN  weight[n]

\* Least significant byte first; a value out of range loses its high bytes.
encode(type, v) ==
    IF type = "bool" THEN <<v % 2>>
    ELSE [k \in 1 .. Sizes[type] |-> (v \div Weight(k - 1)) % Base]

\* Too few bytes: an only byte is repeated, two or more are filled up with zero, by the rules
\* for initializers of arrays.
Filled(type, s) ==
    IF Len(s) = 1 THEN [k \in 1 .. Sizes[type] |-> s[1]]
    ELSE [k \in 1 .. Sizes[type] |-> IF k <= Len(s) THEN s[k] ELSE 0]

Unsigned(s) ==
    LET sum[k \in 0 .. Len(s)] == IF k = 0 THEN 0 ELSE sum[k - 1] + s[k] * Weight(k - 1)
    IN  sum[Len(s)]

\* Mutant: the sign is forgotten.
decodeUnsigned(type, s) == Unsigned(Filled(type, s))

decode(type, s) ==
    LET u == Unsigned(Filled(type, s))
    IN  CASE type = "bool" -> IF u = 0 THEN 0 ELSE 1
          [] type \in Signed -> IF 2 * u < Weight(Sizes[type]) THEN u ELSE u - Weight(Sizes[type])
          [] OTHER -> u

(* --------------------------------- bstream -------------------------------- *)

Representable(type) ==
    LET values == Weight(Sizes[type])
    IN  CASE type = "bool" -> {0, 1}
          [] type \in Signed -> -(values \div 2) .. (values + 1) \div 2 - 1
          [] OTHER -> 0 .. values - 1

\* The bytes go in at write_ptr.
Inserted(s) == SubSeq(bytes, 1, write_ptr - 1) \o s \o SubSeq(bytes, write_ptr, Len(bytes))

Written(s, item) ==
    /\ bytes' = Inserted(s)
    /\ write_ptr' = write_ptr + Len(s)
    /\ items' = Append(items, item)
    /\ UNCHANGED <<received, read_ptr, results>>

write ==
    /\ received = NotSent /\ Len(items) < MaxItems
    /\ \/ \E type \in Types : \E v \in Representable(type) :
             Written(encode(type, v), [type |-> type, val |-> <<v>>])
       \/ \E len \in 0 .. MaxLength : \E v \in [1 .. len -> Bytes] :
             Written(v, [type |-> "string", val |-> v])

\* The packet's data becomes the reader's stream: bstream.new(data).
new ==
    /\ received = NotSent
    /\ received' = bytes
    /\ UNCHANGED <<bytes, write_ptr, read_ptr, items, results>>

Part(len) ==
    SubSeq(received, read_ptr, IF read_ptr + len - 1 < Len(received) THEN read_ptr + len - 1 ELSE Len(received))

Moved(len) == read_ptr + len

\* The program reads what it expects: the type of the next value, and a string's length.
read ==
    /\ received # NotSent /\ Len(results) < Len(items)
    /\ LET item == items[Len(results) + 1]
           len == IF item.type = "string" THEN Len(item.val) ELSE Sizes[item.type]
           value == IF item.type = "string" THEN Part(len) ELSE <<decode(item.type, Part(len))>>
       IN  /\ results' = Append(results, [type |-> item.type, val |-> value])
           /\ read_ptr' = Moved(len)
    /\ UNCHANGED <<bytes, write_ptr, received, items>>

\* A program that expects more than was written reads on behind the end.
readBehind ==
    /\ received # NotSent /\ Len(results) = Len(items)
    /\ \E type \in Types :
          /\ results' = Append(results, [type |-> type, val |-> <<decode(type, Part(Sizes[type]))>>])
          /\ read_ptr' = Moved(Sizes[type])
    /\ UNCHANGED <<bytes, write_ptr, received, items>>

BytesNext == write \/ new \/ read \/ readBehind
BytesSpec == BytesInit /\ [][BytesNext]_bstreamVars

(* ------------------------------- properties ------------------------------- *)

\* The writing position is the end of the stream, and the reading position stays in it as long
\* as only what was written is read.
BytesTypeOK ==
    /\ bytes \in Seq(Bytes) /\ write_ptr = Len(bytes) + 1
    /\ received = NotSent \/ received \in Seq(Bytes)
    /\ read_ptr \in Nat \ {0}
    /\ Len(results) <= Len(items) => read_ptr <= Len(bytes) + 1

\* Values of all types and strings of any length, empty ones too, come back one after the
\* other as they were written, negative ones included.
ItemsReadBack ==
    \A k \in DOMAIN results : k <= Len(items) => results[k] = items[k]

\* What is read behind the end is zero, not what stood elsewhere in the stream.
BehindIsZero ==
    \A k \in DOMAIN results : k > Len(items) => results[k].val = <<0>>

\* What is read of a packet is what was written to it, and zero behind its end.
PacketReadsBack == BytesTypeOK /\ ItemsReadBack /\ BehindIsZero
=============================================================================
