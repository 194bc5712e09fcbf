---------------------------- MODULE MCUtilities -----------------------------
(* Small instances of the utilities of the SDK (SharedUtil, SString, UTF-8).  *)
(* They share no state, so one run checks them all: `part` is chosen at the   *)
(* start, and from then on only what belongs to that part changes.            *)
EXTENDS ThreadResultValue, TickCount, VehicleColor, MemAccess, BufferStream

VARIABLES
    part,
    str,                                                        \* SString
    kind, text                                                  \* UTF-8

Parts == {"value", "clock", "stream", "color", "memory", "string", "endings", "bmp", "ucs4"}

(* ------------------------------- instances -------------------------------- *)

\* The constants of the first five are those of the configuration.

\* CThreadResultValue: a growing count in two words, the low one with the values 0, 1 and 2;
\* the fourth value repeats the third.
CountValues == <<0, 1, 2, 2, 3, 4, 5, 6>>
GrowingCount == [i \in DOMAIN CountValues |-> <<CountValues[i] % 3, CountValues[i] \div 3>>]

\* CVehicleColor: a palette that leaves colours out, with ties between neighbours.
Palette == <<0, 2, 4>>

\* MemAccess: eight pages of three blocks, the first and the last outside the code; pages 2
\* and 3 each hold a block that is written often.

\* With two values of a byte a ushort goes to 3 and a uint to 15, so a buffer of three bytes
\* has the long form.
Item(k, data) == [kind |-> k, data |-> data]
StreamItems ==
    {Item("string", s) : s \in {<<>>, <<1>>, <<0, 1>>, <<1, 1, 0>>}}
    \cup {Item("byteString", s) : s \in {<<>>, <<1>>}}
    \cup {Item("buffer", s) : s \in {<<>>, <<1, 0>>, <<0, 1, 1>>, <<1, 0, 1, 1>>}}
    \cup {Item("ushort", s) : s \in {<<0, 1>>, <<1, 1>>}}

\* A letter in two cases and a dot; patterns of one and two characters, one overlapping
\* itself.
Letters == {"a", "A", "."}
String == INSTANCE SStrings
          WITH Chars <- Letters, UpperOf <- [c \in Letters |-> IF c = "a" THEN "A" ELSE c],
               Patterns <- {<<".">>, <<"a">>, <<"a", "a">>, <<"a", "A">>},
               Inserts <- {<<>>, <<"a">>, <<".", "a">>}, MaxLen <- 6, IntMax <- 31, Guess <- 4

LineEndings == {"a", "CR", "LF"}
Endings == INSTANCE SStrings
           WITH Chars <- LineEndings, UpperOf <- [c \in LineEndings |-> c],
                Patterns <- {<<"CR">>}, Inserts <- {<<>>}, MaxLen <- 6, IntMax <- 31, Guess <- 4

\* Characters and bytes at the boundaries of the encoding, of one to three bytes with a
\* 16-bit wchar_t, and of four to six with a 32-bit one.
ByteOrderMark == <<239, 187, 191>>
Bmp == INSTANCE Utf8
       WITH Windows <- TRUE, MaxWide <- 3, MaxBytes <- 4, BOM <- ByteOrderMark,
            WideChars <- {65, 127, 128, 2047, 2048, 55296, 65279, 65535},
            Bytes <- {65, 127, 128, 159, 160, 191, 193, 194, 223, 224, 225, 239, 187}
Ucs4 == INSTANCE Utf8
        WITH Windows <- FALSE, MaxWide <- 3, MaxBytes <- 4, BOM <- ByteOrderMark,
             WideChars <- {65, 128, 2048, 65535, 65536, 1114111, 2097151, 2097152, 67108863,
                           67108864, 2147483647},
             Bytes <- {65, 128, 143, 144, 191, 194, 224, 240, 241, 247, 248, 253, 255}

ASSUME Instances ==
    /\ ResultValueAssumption /\ MaxLead < BUFFER_SIZE /\ Growing
    /\ TickCountAssumption /\ TableAssumption /\ MemAccessAssumption /\ ~Mixed
    /\ BufferAssumption /\ ItemsFit
    /\ String!SStringsAssumption /\ Endings!SStringsAssumption

(* ------------------------------ behaviours -------------------------------- *)

textVars == <<str, kind, text>>
vars == <<part, valueVars, clockVars, streamVars, colorVars, memVars, textVars>>

\* What is open at the start is chosen for the part that is checked only.
Init ==
    /\ part \in Parts
    /\ ValueInit /\ ClockInit /\ StreamInit /\ ColorInit /\ MemInit /\ String!Init
    /\ Bmp!Init
    /\ part # "clock" => counter = 0
    /\ part # "stream" => ~bToFromNetwork
    /\ part \notin {"bmp", "ucs4"} => kind = "wide"

OfValue(step) ==
    /\ part = "value" /\ step
    /\ UNCHANGED <<part, clockVars, streamVars, colorVars, memVars, textVars>>

OfClock ==
    /\ part = "clock" /\ ClockNext
    /\ UNCHANGED <<part, valueVars, streamVars, colorVars, memVars, textVars>>

OfStream ==
    /\ part = "stream" /\ StreamNext
    /\ UNCHANGED <<part, valueVars, clockVars, colorVars, memVars, textVars>>

OfColor ==
    /\ part = "color" /\ ColorNext
    /\ UNCHANGED <<part, valueVars, clockVars, streamVars, memVars, textVars>>

OfMemory ==
    /\ part = "memory" /\ MemNext
    /\ UNCHANGED <<part, valueVars, clockVars, streamVars, colorVars, textVars>>

OfString ==
    /\ \/ part = "string" /\ String!Next
       \/ part = "endings" /\ Endings!Next
    /\ UNCHANGED <<part, valueVars, clockVars, streamVars, colorVars, memVars, kind, text>>

OfUtf8 ==
    /\ \/ part = "bmp" /\ Bmp!Next
       \/ part = "ucs4" /\ Ucs4!Next
    /\ UNCHANGED <<part, valueVars, clockVars, streamVars, colorVars, memVars, str>>

Next ==
    \/ OfValue(ValueNext) \/ OfClock \/ OfStream \/ OfColor \/ OfMemory
    \/ OfString \/ OfUtf8

\* Writer and reader of a value both run (ThreadResultValue).
Spec ==
    /\ Init /\ [][Next]_vars
    /\ WF_vars(OfValue(Write)) /\ \A r \in Readers : WF_vars(OfValue(Read(r)))

(* -------------------- properties, stated in the modules ------------------- *)

\* ValueCurrent, ReadsEnd, ClockExact, ColorsKept, CodeProtected and ReadsBack are those of the
\* modules that this one extends.

\* SString, TSplitString: the parts of a string joined again are the string, both classes
\* split alike, each occurrence is replaced once and nothing else, trimming and clipping take
\* off what is asked for and no more, a formatted text is whole but for one length, and line
\* endings of one kind become line feeds.  UTF8.h, UTF8Detect: what is encoded is decoded
\* again and no other form of a character is; the detector takes for UTF-8 what decodes, and
\* finds invalid what has wrong trail bytes and nothing else.
TextExact ==
    /\ part = "string" =>
           /\ String!SplitJoins /\ String!FastSplitAgrees /\ String!SplitTwoExact
           /\ String!ReplaceExact /\ String!TrimExact
           /\ String!SubStrClips /\ String!FormatsWhole
    /\ part = "endings" => Endings!EndingsOfOneKind
    /\ part = "bmp" => /\ Bmp!RoundTrip /\ Bmp!Canonical
                       /\ Bmp!DecodedIsDetected /\ Bmp!InvalidFound
    /\ part = "ucs4" => /\ Ucs4!RoundTrip /\ Ucs4!Canonical
                        /\ Ucs4!DecodedIsDetected /\ Ucs4!InvalidFound
=============================================================================
