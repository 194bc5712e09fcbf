-------------------------------- MODULE Utf8 --------------------------------
(* UTF8.h: wide strings to UTF-8 and back, and UTF8Detect.cpp: how sure it   *)
(* is that bytes are UTF-8.  Bytes and characters are numbers.               *)
EXTENDS Integers, Sequences, FiniteSets, SequencesExt

CONSTANTS
    Windows,      \* wchar_t has 16 bits, else 32
    WideChars, Bytes,     \* characters and bytes that texts are made of
    MaxWide, MaxBytes,    \* bounds of the lengths
    BOM           \* <<0xEF, 0xBB, 0xBF>>

VARIABLES kind, text      \* "wide" or "bytes", and the string
vars == <<kind, text>>

RET_ILSEQ == 0
RET_TOOFEW == -1
Wide(v) == IF Windows THEN v % 65536 ELSE v

(* ------------------------------- encoding --------------------------------- *)

\* The least character that needs so many bytes; the first byte of those with none set;
\* the least second byte after that first byte.
Least(n) == <<0, 128, 2048, 65536, 2097152, 67108864>>[n]
Lead(n) == <<0, 192, 224, 240, 248, 252>>[n]
LeastSecond(n) == <<0, 128, 160, 144, 136, 132>>[n]

Count(wc) == CHOOSE n \in 1 .. 6 : Least(n) <= wc /\ (n = 6 \/ wc < Least(n + 1))

utf8_wctomb(wc) ==
    LET n == Count(wc)
        bits[k \in 1 .. n] == IF k = n THEN wc ELSE bits[k + 1] \div 64
    IN  [k \in 1 .. n |-> IF k = 1 THEN Lead(n) + bits[1] ELSE 128 + (bits[k] % 64)]

utf8_wcstombs(wide) == FlattenSeq([i \in DOMAIN wide |-> utf8_wctomb(wide[i])])

(* ------------------------------- decoding --------------------------------- *)

IsTrail(b) == b \in 128 .. 191

NotOverlong(n, c, second) == n < 3 \/ c > Lead(n) \/ second >= LeastSecond(n)

LengthOf(c) ==
    CASE c < 128 -> 1 [] c \in 194 .. 223 -> 2 [] c \in 224 .. 239 -> 3 [] c \in 240 .. 247 -> 4
      [] c \in 248 .. 251 -> 5 [] c \in 252 .. 253 -> 6 [] OTHER -> 0

\* The character at the start of the bytes and how many it takes, or an error.
utf8_mbtowc(src) ==
    LET n == LengthOf(src[1])
        value[k \in 1 .. n] == IF k = 1 THEN src[1] - Lead(n) ELSE value[k - 1] * 64 + src[k] - 128
    IN  IF n = 0 THEN [un |-> RET_ILSEQ, wc |-> 0]
        ELSE IF Len(src) < n THEN [un |-> RET_TOOFEW, wc |-> 0]
        ELSE IF \/ \E k \in 2 .. n : ~IsTrail(src[k])
                \/ n > 1 /\ ~NotOverlong(n, src[1], src[2]) THEN [un |-> RET_ILSEQ, wc |-> 0]
        ELSE [un |-> n, wc |-> Wide(value[n])]

\* The characters before the first byte that is 0 or in error.
utf8_mbstowcs(bytes) ==
    LET f[sn \in 0 .. Len(bytes)] ==
          IF sn = Len(bytes) \/ bytes[sn + 1] = 0 THEN <<>>
          ELSE LET one == utf8_mbtowc(SubSeq(bytes, sn + 1, Len(bytes)))
               IN  IF one.un > 0 THEN <<one.wc>> \o f[sn + one.un] ELSE <<>>
    IN  f[0]

(* ------------------------------- detecting -------------------------------- *)

\* The trail bytes a first byte asks for; -1 where it is none.
TrailBytes(b) ==
    CASE b \in 192 .. 223 -> 1 [] b \in 224 .. 239 -> 2 [] b \in 240 .. 247 -> 3 [] OTHER -> -1

\* Mutant: the byte that ends a sequence is looked at again.
AfterSequence(i) == i

\* The loop goes on behind the byte at which the trail bytes stopped.
NextByte(i) == i + 1

\* The inner loop from the byte before i: the position it stops at, whether the sequence
\* is complete, and whether a byte is not a trail byte.  With 0 trail bytes the count goes
\* below zero and every trail byte is passed over.
Trail(input, i, trailBytes) ==
    LET stops == {j \in i .. Len(input) : ~IsTrail(input[j]) \/ j - i + 1 = trailBytes}
    IN  IF stops = {} THEN [at |-> Len(input) + 1, valid |-> 0, invalid |-> 0]
        ELSE LET j == CHOOSE j \in stops : \A k \in stops : j <= k
             IN  [at |-> j, valid |-> IF IsTrail(input[j]) THEN 1 ELSE 0,
                  invalid |-> IF IsTrail(input[j]) THEN 0 ELSE 1]

\* Positions count from 1 here.
Counted(input) ==
    LET f[i \in 1 .. Len(input) + 2, valid \in 0 .. Len(input), invalid \in 0 .. 2 * Len(input)] ==
          IF i > Len(input) THEN [numValid |-> valid, numInvalid |-> invalid]
          ELSE IF input[i] < 128 THEN f[i + 1, valid, invalid]
          ELSE LET wrong == IF TrailBytes(input[i]) < 0 THEN 1 ELSE 0
                   trail == Trail(input, i + 1, TrailBytes(input[i]))
               IN  IF wrong = 1 /\ invalid + 1 > 5
                   THEN [numValid |-> valid, numInvalid |-> invalid + 1]
                   ELSE f[NextByte(trail.at), valid + trail.valid, invalid + wrong + trail.invalid]
    IN  f[1, 0, 0]

icu_getUTF8Confidence(input) ==
    LET hasBOM == IsPrefix(BOM, input)
        c == Counted(input)
    IN  CASE hasBOM /\ c.numInvalid = 0 -> 100
          [] hasBOM /\ c.numValid > c.numInvalid * 10 -> 80
          [] c.numValid > 3 /\ c.numInvalid = 0 -> 100
          [] ~hasBOM /\ c.numValid \in 1 .. 3 /\ c.numInvalid = 0 -> 80
          [] ~hasBOM /\ c.numValid = 0 /\ c.numInvalid = 0 -> 10
          [] ~hasBOM /\ c.numInvalid > 0 /\ c.numValid > c.numInvalid * 10 -> 25
          [] OTHER -> 0

(* ------------------------ a program with one text ------------------------- *)

Init == kind \in {"wide", "bytes"} /\ text = <<>>

WriteWide == \E c \in WideChars :
    kind = "wide" /\ Len(text) < MaxWide /\ text' = Append(text, c) /\ UNCHANGED kind
WriteByte == \E b \in Bytes :
    kind = "bytes" /\ Len(text) < MaxBytes /\ text' = Append(text, b) /\ UNCHANGED kind
Encode == kind = "wide" /\ kind' = "bytes" /\ text' = utf8_wcstombs(text)
Decode == kind = "bytes" /\ kind' = "wide" /\ text' = utf8_mbstowcs(text)

Next == WriteWide \/ WriteByte \/ Encode \/ Decode
Spec == Init /\ [][Next]_vars

(* ------------------------------- properties ------------------------------- *)

\* What is encoded is decoded again, up to a character 0 (utf8_wcstombs, utf8_mbstowcs).
RoundTrip == kind = "wide" => utf8_mbstowcs(utf8_wcstombs(text)) = text

\* What decodes encodes to the bytes it was decoded from: no other form of a character
\* is taken, whatever the bytes are.
Canonical == kind = "bytes" => IsPrefix(utf8_wcstombs(utf8_mbstowcs(text)), text)

\* A text that decodes as a whole is never taken for invalid by UTF8Detect, and for plain
\* ASCII only when it is.
DecodedIsDetected ==
    kind = "bytes" /\ 0 \notin ToSet(text)
        /\ utf8_wcstombs(utf8_mbstowcs(text)) = text /\ (\A b \in ToSet(text) : b < 248) =>
            icu_getUTF8Confidence(text) \in (IF \A b \in ToSet(text) : b < 128 THEN {10} ELSE {80, 100})

\* UTF8Detect finds nothing invalid in bytes whose sequences have the right number of
\* trail bytes, the last one perhaps cut short, and in no others.
RightTrails(input) ==
    LET f[i \in 1 .. Len(input) + 1] ==
          IF i = Len(input) + 1 THEN TRUE
          ELSE IF input[i] < 128 THEN f[i + 1]
          ELSE LET n == TrailBytes(input[i])
                   last == IF i + n > Len(input) THEN Len(input) ELSE i + n
               IN  n > 0 /\ (\A k \in i + 1 .. last : IsTrail(input[k])) /\ f[last + 1]
    IN  f[1]

InvalidFound == kind = "bytes" => (RightTrails(text) <=> Counted(text).numInvalid = 0)
=============================================================================
