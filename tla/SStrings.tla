------------------------------ MODULE SStrings ------------------------------
(* SString.hpp and SString.h: operations of the string class on positions,   *)
(* each found with find or rfind and advanced by a length.  Strings are      *)
(* sequences of characters; positions count from 0 as in the code.           *)
EXTENDS Integers, Sequences, FiniteSets, SequencesExt

CONSTANTS
    Chars,       \* characters; "CR" is 0x0D, "LF" is 0x0A
    UpperOf,     \* function from Chars: toupper
    Patterns,    \* what is searched for: delimiters and strings to replace, not empty
    Inserts,     \* replacements
    MaxLen,      \* bound of the length
    IntMax,      \* 0x7fffffff
    Guess        \* 220, first capacity of vFormat

SStringsAssumption ==
    <<>> \notin Patterns /\ MaxLen < IntMax /\ UpperOf \in [Chars -> Chars]

VARIABLE str
npos == -1

(* ----------------------- std::string and arithmetic ----------------------- *)

MinOf(S) == CHOOSE x \in S : \A y \in S : x <= y
MaxOf(S) == CHOOSE x \in S : \A y \in S : y <= x

substr(s, pos, n) == SubSeq(s, pos + 1, IF pos + n > Len(s) THEN Len(s) ELSE pos + n)
From(s, pos) == SubSeq(s, pos + 1, Len(s))
Occurs(s, sub) == {p \in 0 .. Len(s) - Len(sub) : substr(s, p, Len(sub)) = sub}
find(s, sub, from) ==
    LET P == {p \in Occurs(s, sub) : p >= from} IN IF P = {} THEN npos ELSE MinOf(P)
rfind(s, sub, from) ==
    LET P == {p \in Occurs(s, sub) : p <= from} IN IF P = {} THEN npos ELSE MaxOf(P)

\* An int wraps around.
AsInt(x) == ((x + IntMax + 1) % (2 * IntMax + 2)) - IntMax - 1

ToUpper(s) == [i \in DOMAIN s |-> UpperOf[s[i]]]

(* ------------------------------ splitting --------------------------------- *)

LimitReached(maxAmount, parts) == maxAmount > 0 /\ maxAmount <= parts + 1

Parts(s, delim, maxAmount) ==
    LET f[start \in 0 .. Len(s), parts \in 0 .. Len(s)] ==
          LET pos == find(s, delim, start)
          IN  IF pos = npos \/ LimitReached(maxAmount, parts) THEN <<From(s, start)>>
              ELSE <<substr(s, start, pos - start)>> \o f[pos + Len(delim), parts + 1]
    IN  f[0, 0]

Padded(parts, minAmount) ==
    parts \o [i \in 1 .. (IF minAmount > Len(parts) THEN minAmount - Len(parts) ELSE 0) |-> <<>>]

Split(s, delim, maxAmount, minAmount) == Padded(Parts(s, delim, maxAmount), minAmount)

ZeroAt(point, delim) == point - Len(delim)

\* TSplitString: a zero is written over the first character of each delimiter found, and
\* the parts are read up to the next zero of the buffer.
TSplit(s, delim, maxAmount, minAmount) ==
    LET starts[start \in 0 .. Len(s), parts \in 0 .. Len(s)] ==
          LET pos == find(s, delim, start)
          IN  IF pos = npos \/ LimitReached(maxAmount, parts) THEN <<start>>
              ELSE <<start>> \o starts[pos + Len(delim), parts + 1]
        points == starts[0, 0]
        zeros == {ZeroAt(points[k], delim) : k \in 2 .. Len(points)} \cup {Len(s)}
        CString(p) == substr(s, p, MinOf({z \in zeros : z >= p}) - p)
    IN  Padded([k \in DOMAIN points |-> CString(points[k])], minAmount)

\* The position of the index-th delimiter, from the start or from the end.
Forward(s, delim, index) ==
    LET f[i \in 0 .. index] ==
          IF i = 0 THEN 0
          ELSE IF f[i - 1] = npos THEN npos
               ELSE LET pos == f[i - 1] + (IF i > 1 THEN Len(delim) ELSE 0)
                    IN  IF pos < Len(s) THEN find(s, delim, pos) ELSE npos
    IN  f[index]

Backward(s, delim, index) ==
    LET f[i \in 0 .. index] ==
          IF i = 0 THEN Len(s)
          ELSE IF f[i - 1] = npos \/ f[i - 1] < Len(delim) THEN npos
               ELSE rfind(s, delim, f[i - 1] - Len(delim))
    IN  f[index]

\* Split in two; a negative index counts from the end.
SplitTwo(s, delim, index) ==
    LET pos == IF index > 0 THEN Forward(s, delim, index) ELSE Backward(s, delim, -index)
    IN  IF pos = npos
        THEN [found |-> FALSE, left |-> IF index < 0 THEN <<>> ELSE s,
              right |-> IF index < 0 THEN s ELSE <<>>]
        ELSE [found |-> TRUE, left |-> substr(s, 0, pos), right |-> From(s, pos + Len(delim))]

\* The limit of the parts is left out.
Join(delim, parts) ==
    FoldLeft(LAMBDA s, i : IF i = 1 THEN parts[i] ELSE s \o delim \o parts[i], <<>>,
             [i \in DOMAIN parts |-> i])

(* ------------------------ replacing and trimming -------------------------- *)

\* Mutant: what was put in is searched again.
NextSearchInside(idx, new) == idx

\* bSearchJustReplaced is false.
NextSearch(idx, new) == idx + Len(new)

Folded(s, anyCase) == IF anyCase THEN ToUpper(s) ELSE s

\* A replacement that would go on for ever is cut at MaxLen * MaxLen characters.
RECURSIVE ReplaceFrom(_, _, _, _, _)
ReplaceFrom(s, old, new, idx, anyCase) ==
    LET pos == find(Folded(s, anyCase), Folded(old, anyCase), idx)
    IN  IF pos = npos \/ Len(s) > MaxLen * MaxLen THEN s
        ELSE ReplaceFrom(substr(s, 0, pos) \o new \o From(s, pos + Len(old)), old, new,
                         NextSearch(pos, new), anyCase)

Replace(s, old, new) == ReplaceFrom(s, old, new, 0, FALSE)
ReplaceI(s, old, new) == ReplaceFrom(s, old, new, 0, TRUE)

RECURSIVE TrimStart(_, _)
TrimStart(s, old) ==
    IF substr(s, 0, Len(old)) = old THEN TrimStart(From(s, Len(old)), old) ELSE s

EndsWithOld(s, old) == Len(s) >= Len(old) /\ From(s, Len(s) - Len(old)) = old

RECURSIVE TrimEnd(_, _)
TrimEnd(s, old) ==
    IF s # <<>> /\ EndsWithOld(s, old) THEN TrimEnd(substr(s, 0, Len(s) - Len(old)), old) ELSE s

\* 'LF' alone where there is one, else each 'CR' becomes one.
ConformLineEndings(s) ==
    IF Contains(s, "LF") THEN Replace(s, <<"CR">>, <<>>) ELSE Replace(s, <<"CR">>, <<"LF">>)

(* ------------------------------- sub-strings ------------------------------ *)

throws == "out_of_range"

ClippedCount(iPos, iCount) ==
    LET count == IF iPos < 0 THEN AsInt(iCount + iPos) ELSE iCount IN IF count > 0 THEN count ELSE 0

SubStr(s, iPos, iCount) ==
    LET pos == IF iPos < 0 THEN 0 ELSE iPos
        clipped == ClippedCount(iPos, iCount)
        count == IF AsInt(pos + clipped) > Len(s) THEN Len(s) - pos ELSE clipped
    IN  IF count < 1 THEN <<>> ELSE IF pos > Len(s) THEN throws ELSE substr(s, pos, count)

LeftOf(s, iCount) == SubStr(s, 0, iCount)
RightOf(s, iCount) == SubStr(s, Len(s) - iCount, iCount)
BeginsWith(s, other) == LeftOf(s, Len(other)) = other
EndsWith(s, other) == RightOf(s, Len(other)) = other

\* vFormat where it is not Windows: vsnprintf with room for n characters writes n - 1 of
\* them and a zero, and returns the length it needs.
vFormat(s) ==
    LET vsnprintf(capacity) == substr(s, 0, capacity - 1)
    IN  IF Len(s) > Guess THEN vsnprintf(Len(s) + 1) ELSE vsnprintf(Guess)

(* ------------------------ a program with one string ----------------------- *)

Init == str = <<>>
Assign(s) == Len(s) <= MaxLen /\ str' = s

push_back == \E c \in Chars : Assign(Append(str, c))
Replacing == \E old \in Patterns, new \in Inserts :
    Assign(Replace(str, old, new)) \/ Assign(ReplaceI(str, old, new))
Trimming == \E old \in Patterns : Assign(TrimStart(str, old)) \/ Assign(TrimEnd(str, old))
Splitting == \E delim \in Patterns, index \in {-2, -1, 1, 2} :
    LET two == SplitTwo(str, delim, index) IN Assign(two.left) \/ Assign(two.right)
Conforming == Assign(ConformLineEndings(str))

Next == push_back \/ Replacing \/ Trimming \/ Splitting \/ Conforming
Spec == Init /\ [][Next]_str

(* ------------------------------- properties ------------------------------- *)

\* Joining the parts gives the string back, whatever the greatest number of parts, which
\* is kept to (SString::Split, SString::Join).
SplitJoins ==
    \A delim \in Patterns, maxAmount \in 0 .. 3 :
        LET parts == Split(str, delim, maxAmount, 0)
        IN  /\ Join(delim, parts) = str
            /\ maxAmount > 0 => Len(parts) <= maxAmount
            /\ maxAmount = 0 => \A k \in DOMAIN parts : Occurs(parts[k], delim) = {}

\* The split into pointers is a "faster type of SString::Split" (SString.h:154).
FastSplitAgrees ==
    \A delim \in Patterns, maxAmount \in 0 .. 2, minAmount \in {0, 3} :
        TSplit(str, delim, maxAmount, minAmount) = Split(str, delim, maxAmount, minAmount)

\* Split in two at the index-th delimiter is the list of parts cut there, and from the
\* end it is the same as from the start of the mirrored string (SString.hpp:193-198).
SplitTwoExact ==
    \A delim \in Patterns, index \in 1 .. 2 :
        LET parts == Split(str, delim, 0, 0)
            two == SplitTwo(str, delim, index)
            back == SplitTwo(str, delim, -index)
            mirrored == SplitTwo(Reverse(str), Reverse(delim), index)
        IN  /\ two.found = (Len(parts) > index)
            /\ two.left = Join(delim, SubSeq(parts, 1, MinOf({index, Len(parts)})))
            /\ two.right = Join(delim, SubSeq(parts, index + 1, Len(parts)))
            /\ back = [found |-> mirrored.found, left |-> Reverse(mirrored.right),
                       right |-> Reverse(mirrored.left)]

\* "Replace all occurrences of the string szOld with szNew" (SString.hpp:286): each
\* occurrence once and nothing else, with or without case.
ReplaceExact ==
    \A old \in Patterns, new \in Inserts :
        /\ Replace(str, old, new) = Join(new, Split(str, old, 0, 0))
        /\ ToUpper(ReplaceI(str, old, new)) = Replace(ToUpper(str), ToUpper(old), ToUpper(new))

\* "Remove szOlds from the start of the string", "from the end" (SString.hpp:335, 347):
\* what is left has none there, and the end is the start of the mirrored string.
TrimExact ==
    \A old \in Patterns :
        /\ ~BeginsWith(TrimStart(str, old), old) /\ ~EndsWith(TrimEnd(str, old), old)
        /\ TrimEnd(str, old) = Reverse(TrimStart(Reverse(str), Reverse(old)))

\* The characters of a position and a count that reach over the ends are those inside,
\* as long as no sum overflows.
SubStrClips ==
    \A iPos, iCount \in -MaxLen .. MaxLen :
        iPos + iCount \in -IntMax .. IntMax =>
            SubStr(str, iPos, iCount) =
                SubSeq(str, MaxOf({iPos, 0}) + 1, MinOf({iPos + iCount, Len(str)}))

\* Line endings of one kind, 'LF', 'CR LF' or 'CR', become 'LF', and no line is lost.
EndingsOfOneKind ==
    LET CRs == {i \in DOMAIN str : str[i] = "CR"}
        LFs == {i \in DOMAIN str : str[i] = "LF"}
    IN  CRs = {} \/ LFs = {} \/ LFs = {i + 1 : i \in CRs} =>
            ConformLineEndings(str) =
                Replace(Replace(str, <<"CR", "LF">>, <<"LF">>), <<"CR">>, <<"LF">>)

\* The buffer is made large enough for what is formatted (SString.hpp:95-97), except that a
\* text of exactly the guessed length loses its last character.
FormatsWhole == vFormat(str) = IF Len(str) = Guess THEN Front(str) ELSE str
=============================================================================
