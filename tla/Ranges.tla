------------------------------- MODULE Ranges -------------------------------
(* CRanges of SharedUtil.Misc: a set of numbers kept as a std::map from the *)
(* first to the last number of each range.                                  *)
EXTENDS Integers, FiniteSetsExt

CONSTANTS
    N,                \* uint has the values 0 .. N - 1 (2^32 in the code)
    CallsSharingStart \* TRUE: any call; FALSE: see Exposed

RangesAssumption == N \in Nat \ {0} /\ CallsSharingStart \in BOOLEAN

VARIABLES
    m_StartLastMap,
    numbers  \* ghost: the numbers set and not unset since

Numbers == 0 .. N - 1
uint(n) == n % N
LastNumber(start, length) == uint(start + length - 1)
Calls == {call \in Numbers \X (0 .. N) : call[1] + call[2] <= N}

(* Operations of std::map *)
MapInsert(m, start, last) ==
    [s \in DOMAIN m \cup {start} |-> IF s = start THEN last ELSE m[s]]
EraseAll(m, starts) == [s \in DOMAIN m \ starts |-> m[s]]
From(m, point) == {s \in DOMAIN m : s >= point}
Before(m, point) == {s \in DOMAIN m : s < point}

\* Erases from lower_bound(start) on, until a range reaches beyond last.
RemoveObscuredRanges(m, start, last) ==
    EraseAll(m, {s \in From(m, start) :
                    \A t \in From(m, start) : t <= s => m[t] <= last})

\* Starts of the range found to overlap the point: at most one, the one before
\* lower_bound(point).
GetRangeOverlappingPoint(m, point) ==
    {s \in Before(m, point) : s = Max(Before(m, point)) /\ m[s] >= point}

\* Mutant: a range that reaches beyond the hole loses its rest.
CutAtStartOnly(m, start, last) ==
    [s \in DOMAIN m |-> IF s \in GetRangeOverlappingPoint(m, start)
                        THEN uint(start - 1) ELSE m[s]]

\* First half of UnsetRange: the range that overlaps the start of the hole.
CutAtStart(m, start, last) ==
    LET found == GetRangeOverlappingPoint(m, start)
        s == CHOOSE x \in found : TRUE
        cut == [m EXCEPT ![s] = uint(start - 1)]
    IN  IF found = {} THEN m
        ELSE IF m[s] > last THEN MapInsert(cut, uint(last + 1), m[s]) ELSE cut

\* Second half: the range that overlaps its end.
CutAtEnd(m, last) ==
    LET found == GetRangeOverlappingPoint(m, last)
        s == CHOOSE x \in found : TRUE
    IN  IF found = {} THEN m
        ELSE MapInsert(EraseAll(m, {s}), uint(last + 1), m[s])

Hole(m, start, last) ==
    CutAtEnd(CutAtStart(RemoveObscuredRanges(m, start, last), start, last), last)

\* lower_bound(point) is taken to lie behind point, but it may begin at it: a
\* range that begins at the last number of the hole and goes on is not cut.
Exposed(start, length) ==
    /\ LastNumber(start, length) \in DOMAIN m_StartLastMap
    /\ m_StartLastMap[LastNumber(start, length)] > LastNumber(start, length)

Allowed(start, length) == CallsSharingStart \/ ~Exposed(start, length)

RangesInit == m_StartLastMap = <<>> /\ numbers = {}

SetRange(start, length) ==
    /\ length >= 1
    /\ LET last == LastNumber(start, length)
       IN  m_StartLastMap' = MapInsert(Hole(m_StartLastMap, start, last), start, last)
    /\ numbers' = numbers \cup (start .. LastNumber(start, length))

UnsetRange(start, length) ==
    /\ length >= 1
    /\ m_StartLastMap' = Hole(m_StartLastMap, start, LastNumber(start, length))
    /\ numbers' = numbers \ (start .. LastNumber(start, length))

IsRangeSet(start, length) ==
    /\ length >= 1
    /\ \/ \E s \in From(m_StartLastMap, start) : s <= LastNumber(start, length)
       \/ \E s \in Before(m_StartLastMap, start) :
             /\ s = Max(Before(m_StartLastMap, start))
             /\ m_StartLastMap[s] >= start

RangesNext == \E call \in Calls :
            /\ Allowed(call[1], call[2])
            /\ SetRange(call[1], call[2]) \/ UnsetRange(call[1], call[2])

RangesSpec == RangesInit /\ [][RangesNext]_<<m_StartLastMap, numbers>>

(* ------------------------------- properties ------------------------------- *)

\* The map holds exactly the numbers set and not unset since, whatever ranges
\* were set over each other and cut by holes.
NumbersHeld ==
    numbers = UNION {s .. m_StartLastMap[s] : s \in DOMAIN m_StartLastMap}

\* Ranges never overlap and none is empty: looking at one neighbour, as all
\* searches do, is enough.
RangesDisjoint ==
    \A s \in DOMAIN m_StartLastMap :
        /\ s <= m_StartLastMap[s]
        /\ \A t \in DOMAIN m_StartLastMap : s < t => m_StartLastMap[s] < t

\* "Returns true if any part of the range already exists in the map"
QueriesTruthful ==
    \A call \in Calls :
        IsRangeSet(call[1], call[2]) <=>
            \E n \in numbers : n >= call[1] /\ n < call[1] + call[2]

\* CRanges: the map holds exactly the numbers set and not unset, in ranges that never
\* overlap, and IsRangeSet tells whether any number of a range is set.
RangesExact == NumbersHeld /\ RangesDisjoint /\ QueriesTruthful
=============================================================================
