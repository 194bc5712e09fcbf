-------------------------- MODULE SharedUtilProofs --------------------------
(***************************************************************************)
(* Theorems about classes of SharedUtil: CRanges, memory access, the clock *)
(* and its timers, CVehicleColor, CThreadResultValue and buffer streams.   *)
(***************************************************************************)
EXTENDS Ranges, MemAccess, TickCount, VehicleColor, ThreadResultValue, BufferStream,
        FiniteSetTheorems, SequenceTheorems, WellFoundedInduction, TLAPS

(***************************************************************************)
(* CRanges, for any number of numbers.                                     *)
(***************************************************************************)
(* ------------------------------- good maps -------------------------------- *)

\* A map of ranges that are not empty and do not overlap.
Good(m) ==
  /\ DOMAIN m \subseteq Numbers
  /\ m \in [DOMAIN m -> Numbers]
  /\ \A s \in DOMAIN m :
       /\ s <= m[s]
       /\ \A t \in DOMAIN m : s < t => m[s] < t

Covers(m, n) == \E s \in DOMAIN m : s <= n /\ n <= m[s]

LEMMA NumbersAreNat == ASSUME RangesAssumption PROVE Numbers \subseteq Nat
BY DEF Numbers, RangesAssumption

\* std::map: an element is put in, elements are taken out.
LEMMA InsertGood ==
  ASSUME RangesAssumption, NEW m, Good(m), NEW start \in Numbers, NEW last \in Numbers,
         start <= last,
         \A s \in DOMAIN m \ {start} : m[s] < start \/ last < s
  PROVE  /\ Good(MapInsert(m, start, last))
         /\ start \notin DOMAIN m =>
              \A n \in Numbers : Covers(MapInsert(m, start, last), n)
                                   <=> (Covers(m, n) \/ (start <= n /\ n <= last))
<1> DEFINE i == MapInsert(m, start, last)
<1>1. /\ DOMAIN i = DOMAIN m \cup {start}
      /\ i[start] = last
      /\ \A s \in DOMAIN m \ {start} : i[s] = m[s]
  BY DEF MapInsert
<1>2. i \in [DOMAIN i -> Numbers] /\ DOMAIN i \subseteq Numbers
  BY DEF MapInsert, Good
<1> HIDE DEF i
<1>3. \A s \in DOMAIN i :
        /\ s <= i[s]
        /\ \A t \in DOMAIN i : s < t => i[s] < t
  <2> SUFFICES ASSUME NEW s \in DOMAIN i
               PROVE  /\ s <= i[s]
                      /\ \A t \in DOMAIN i : s < t => i[s] < t
    OBVIOUS
  <2>1. CASE s = start
    BY <1>1, <2>1, NumbersAreNat DEF Good
  <2>2. CASE s # start
    BY <1>1, <2>2, NumbersAreNat DEF Good
  <2> QED
    BY <2>1, <2>2
<1>4. ASSUME start \notin DOMAIN m, NEW n \in Numbers
      PROVE  Covers(i, n) <=> (Covers(m, n) \/ (start <= n /\ n <= last))
  BY <1>1, <1>4 DEF Covers
<1> QED
  BY <1>2, <1>3, <1>4 DEF Good, i

LEMMA EraseGood ==
  ASSUME NEW m, Good(m), NEW S
  PROVE  /\ Good(EraseAll(m, S))
         /\ DOMAIN EraseAll(m, S) = DOMAIN m \ S
         /\ \A s \in DOMAIN m \ S : EraseAll(m, S)[s] = m[s]
BY DEF Good, EraseAll

\* One range at most overlaps a point and begins before it, and the search finds it.
LEMMA Overlapping ==
  ASSUME RangesAssumption, NEW m, Good(m), NEW point \in Numbers
  PROVE  /\ GetRangeOverlappingPoint(m, point)
              = {s \in DOMAIN m : s < point /\ m[s] >= point}
         /\ \A s, t \in GetRangeOverlappingPoint(m, point) : s = t
<1> DEFINE over == {s \in DOMAIN m : s < point /\ m[s] >= point}
<1>1. \A s \in over : \A t \in Before(m, point) : s >= t
  BY NumbersAreNat DEF Good, Before
<1>2. \A s \in over : s = Max(Before(m, point))
  <2> SUFFICES ASSUME NEW s \in over PROVE s = Max(Before(m, point))
    OBVIOUS
  <2>1. s \in Before(m, point)
    BY DEF Before
  <2>2. /\ Max(Before(m, point)) \in Before(m, point)
        /\ \A t \in Before(m, point) : Max(Before(m, point)) >= t
    BY <1>1, <2>1 DEF Max
  <2>3. \A t \in Before(m, point) : t \in Nat
    BY NumbersAreNat DEF Good, Before
  <2> QED
    BY <1>1, <2>1, <2>2, <2>3
<1>3. GetRangeOverlappingPoint(m, point) = over
  BY <1>2 DEF GetRangeOverlappingPoint, Before
<1> QED
  BY <1>2, <1>3

(* -------------------------------- the hole -------------------------------- *)

\* RemoveObscuredRanges: the ranges that lie in the hole go, those that begin in it and
\* reach beyond stay.
LEMMA ObscuredRemoved ==
  ASSUME RangesAssumption, NEW m, Good(m), NEW start \in Numbers, NEW last \in Numbers,
         start <= last
  PROVE  LET r == RemoveObscuredRanges(m, start, last)
         IN  /\ Good(r)
             /\ \A s \in DOMAIN r : s \in DOMAIN m /\ r[s] = m[s]
             /\ \A s \in DOMAIN r : s < start \/ r[s] > last
             /\ \A s \in DOMAIN m \ DOMAIN r : s >= start /\ m[s] <= last
<1> DEFINE gone == {s \in From(m, start) : \A t \in From(m, start) : t <= s => m[t] <= last}
           r == RemoveObscuredRanges(m, start, last)
<1>1. /\ Good(r) /\ DOMAIN r = DOMAIN m \ gone
      /\ \A s \in DOMAIN m \ gone : r[s] = m[s]
  BY EraseGood DEF RemoveObscuredRanges
<1>2. \A s \in gone : s \in DOMAIN m /\ s >= start /\ m[s] <= last
  BY NumbersAreNat DEF From, Good
<1>3. ASSUME NEW s \in DOMAIN m, s \notin gone, s >= start
      PROVE  m[s] > last
  <2>1. PICK t \in DOMAIN m : t >= start /\ t <= s /\ ~(m[t] <= last)
    BY <1>3 DEF From
  <2> QED
    BY <2>1, <1>3, NumbersAreNat DEF Good
<1>4. \A s \in DOMAIN r : s < start \/ r[s] > last
  BY <1>1, <1>3, NumbersAreNat DEF Good
<1> QED
  BY <1>1, <1>2, <1>4

\* The range that overlaps the start of the hole is cut, also in two.
LEMMA CutAtStartGood ==
  ASSUME RangesAssumption, NEW m, Good(m), NEW start \in Numbers, NEW last \in Numbers,
         start <= last,
         \A s \in DOMAIN m : s < start \/ m[s] > last
  PROVE  LET c == CutAtStart(m, start, last)
         IN  /\ Good(c)
             /\ \A s \in DOMAIN c : IF s < start THEN c[s] < start ELSE c[s] > last
             /\ \A s \in DOMAIN c : s = last => s \in DOMAIN m /\ m[s] > last
             /\ \A n \in Numbers : n < start \/ last < n => (Covers(c, n) <=> Covers(m, n))
<1> DEFINE found == GetRangeOverlappingPoint(m, start)
           c == CutAtStart(m, start, last)
<1>1. /\ found = {s \in DOMAIN m : s < start /\ m[s] >= start}
      /\ \A s, t \in found : s = t
  BY Overlapping
<1>2. start \in Nat /\ last \in Nat /\ Numbers \subseteq Nat
  BY NumbersAreNat
<1>3. CASE found = {}
  <2>1. c = m
    BY <1>3 DEF CutAtStart
  <2>2. \A s \in DOMAIN m : s < start => m[s] < start
    BY <1>1, <1>2, <1>3 DEF Good
  <2> QED
    BY <1>2, <2>1, <2>2 DEF Good
<1>4. CASE found # {}
  <2> DEFINE s == CHOOSE x \in found : TRUE
             rest == [m EXCEPT ![s] = uint(start - 1)]
  <2>1. s \in DOMAIN m /\ s < start /\ m[s] >= start /\ \A x \in found : x = s
    BY <1>1, <1>4
  <2> HIDE DEF s
  <2>2. s \in Nat /\ m[s] \in Nat /\ m[s] < N /\ start < N /\ start > 0
    BY <1>2, <2>1 DEF Good, Numbers, RangesAssumption
  <2>3. uint(start - 1) = start - 1 /\ start - 1 \in Numbers
    BY <2>2, <1>2 DEF uint, Numbers, RangesAssumption
  <2>4. /\ DOMAIN rest = DOMAIN m /\ rest[s] = start - 1
        /\ \A x \in DOMAIN m \ {s} : rest[x] = m[x]
    BY <2>1, <2>3 DEF Good
  <2>5. rest \in [DOMAIN rest -> Numbers] /\ DOMAIN rest \subseteq Numbers
    BY <2>3 DEF Good
  <2> HIDE DEF rest
  <2>6. Good(rest)
    BY <1>2, <2>1, <2>2, <2>4, <2>5 DEF Good
  <2>7. \A x \in DOMAIN rest : IF x < start THEN rest[x] < start ELSE rest[x] > last
    BY <1>1, <1>2, <2>1, <2>2, <2>4 DEF Good
  <2>8. CASE m[s] > last
    <3>1. last + 1 \in Numbers /\ uint(last + 1) = last + 1
      BY <1>2, <2>2, <2>8 DEF uint, Numbers, RangesAssumption
    <3>2. c = MapInsert(rest, last + 1, m[s])
      BY <1>4, <2>8, <3>1 DEF CutAtStart, s, rest
    <3>3. \A x \in DOMAIN m : x # s => m[x] < s \/ m[s] < x
      BY <1>2, <2>1 DEF Good
    <3>4. last + 1 \notin DOMAIN rest
      BY <1>2, <2>1, <2>2, <2>4, <2>8, <3>3 DEF Good
    <3>5. \A x \in DOMAIN rest \ {last + 1} : rest[x] < last + 1 \/ m[s] < x
      BY <1>2, <2>1, <2>2, <2>4, <3>3 DEF Good
    <3>6. m[s] \in Numbers /\ last + 1 <= m[s]
      BY <1>2, <2>1, <2>2, <2>8 DEF Good
    <3>7. /\ Good(c)
          /\ \A n \in Numbers : Covers(c, n) <=> (Covers(rest, n) \/ (last + 1 <= n /\ n <= m[s]))
      BY <2>6, <3>1, <3>2, <3>4, <3>5, <3>6, InsertGood
    <3>8. /\ DOMAIN c = DOMAIN rest \cup {last + 1} /\ c[last + 1] = m[s]
          /\ \A x \in DOMAIN rest : c[x] = rest[x]
      BY <3>2, <3>4 DEF MapInsert
    <3>9. ASSUME NEW n \in Numbers, n < start \/ last < n
          PROVE  Covers(c, n) <=> Covers(m, n)
      BY <1>2, <2>1, <2>2, <2>4, <3>7, <3>9, SMTT(30) DEF Covers, Good
    <3>10. \A x \in DOMAIN c : IF x < start THEN c[x] < start ELSE c[x] > last
      BY <1>2, <2>7, <2>8, <3>8
    <3>11. \A x \in DOMAIN c : x = last => x \in DOMAIN m /\ m[x] > last
      BY <1>2, <2>1, <2>2, <2>4, <2>7, <3>8
    <3> QED
      BY <3>7, <3>9, <3>10, <3>11
  <2>9. CASE m[s] <= last
    <3>1. c = rest
      BY <1>2, <1>4, <2>2, <2>9 DEF CutAtStart, s, rest
    <3>2. ASSUME NEW n \in Numbers, n < start \/ last < n
          PROVE  Covers(rest, n) <=> Covers(m, n)
      BY <1>2, <2>1, <2>2, <2>4, <2>9, <3>2 DEF Covers, Good
    <3>3. \A x \in DOMAIN rest : x = last => x \in DOMAIN m /\ m[x] > last
      BY <1>2, <2>1, <2>2, <2>4, <2>7
    <3> QED
      BY <2>6, <2>7, <3>1, <3>2, <3>3
  <2> QED
    BY <1>2, <2>2, <2>8, <2>9
<1> QED
  BY <1>3, <1>4

\* The range that overlaps the end of the hole begins behind it afterwards.
LEMMA CutAtEndGood ==
  ASSUME RangesAssumption, NEW m, Good(m), NEW start \in Numbers, NEW last \in Numbers,
         start <= last, last \notin DOMAIN m,
         \A s \in DOMAIN m : IF s < start THEN m[s] < start ELSE m[s] > last
  PROVE  LET c == CutAtEnd(m, last)
         IN  /\ Good(c)
             /\ \A s \in DOMAIN c : s > last \/ c[s] < start
             /\ \A n \in Numbers : n < start \/ last < n => (Covers(c, n) <=> Covers(m, n))
<1> DEFINE found == GetRangeOverlappingPoint(m, last)
           c == CutAtEnd(m, last)
<1>1. /\ found = {s \in DOMAIN m : s < last /\ m[s] >= last}
      /\ \A s, t \in found : s = t
  BY Overlapping
<1>2. start \in Nat /\ last \in Nat /\ Numbers \subseteq Nat
  BY NumbersAreNat
<1>3. CASE found = {}
  <2>1. c = m
    BY <1>3 DEF CutAtEnd
  <2>2. \A s \in DOMAIN m : s > last \/ m[s] < start
    BY <1>1, <1>2, <1>3 DEF Good
  <2> QED
    BY <2>1, <2>2
<1>4. CASE found # {}
  <2> DEFINE s == CHOOSE x \in found : TRUE
             rest == EraseAll(m, {s})
  <2>1. s \in DOMAIN m /\ s < last /\ m[s] >= last /\ \A x \in found : x = s
    BY <1>1, <1>4
  <2> HIDE DEF s
  <2>2. s \in Nat /\ m[s] \in Numbers /\ m[s] \in Nat /\ m[s] < N
    BY <1>2, <2>1 DEF Good, Numbers, RangesAssumption
  <2>3. m[s] > last /\ s >= start
    BY <1>2, <2>1, <2>2
  <2>4. last + 1 \in Numbers /\ uint(last + 1) = last + 1
    BY <1>2, <2>2, <2>3 DEF uint, Numbers, RangesAssumption
  <2>5. c = MapInsert(rest, last + 1, m[s])
    BY <1>4, <2>4 DEF CutAtEnd, s
  <2>6. /\ Good(rest) /\ DOMAIN rest = DOMAIN m \ {s}
        /\ \A x \in DOMAIN m \ {s} : rest[x] = m[x]
    BY EraseGood
  <2> HIDE DEF rest
  <2>7. \A x \in DOMAIN m : x # s => m[x] < s \/ m[s] < x
    BY <1>2, <2>1 DEF Good
  <2>8. last + 1 \notin DOMAIN rest
    BY <1>2, <2>1, <2>2, <2>3, <2>6, <2>7 DEF Good
  <2>9. \A x \in DOMAIN rest \ {last + 1} : rest[x] < last + 1 \/ m[s] < x
    BY <1>2, <2>1, <2>2, <2>6, <2>7 DEF Good
  <2>10. last + 1 <= m[s]
    BY <1>2, <2>2, <2>3
  <2>11. /\ Good(c)
         /\ \A n \in Numbers : Covers(c, n) <=> (Covers(rest, n) \/ (last + 1 <= n /\ n <= m[s]))
    BY <2>2, <2>4, <2>5, <2>6, <2>8, <2>9, <2>10, InsertGood
  <2>12. /\ DOMAIN c = DOMAIN rest \cup {last + 1} /\ c[last + 1] = m[s]
         /\ \A x \in DOMAIN rest : c[x] = rest[x]
    BY <2>5, <2>8 DEF MapInsert
  <2>13. \A x \in DOMAIN rest : x > last \/ rest[x] < start
    <3> SUFFICES ASSUME NEW x \in DOMAIN rest, x <= last PROVE rest[x] < start
      BY <1>2, <2>6 DEF Good
    <3>1. x \in Nat /\ m[x] \in Nat /\ x # s /\ x \in DOMAIN m
      BY <1>2, <2>6 DEF Good
    <3>2. x < start
      BY <1>1, <1>2, <2>1, <3>1
    <3> QED
      BY <2>6, <3>1, <3>2
  <2>14. ASSUME NEW n \in Numbers, n < start \/ last < n
         PROVE  Covers(c, n) <=> Covers(m, n)
    BY <1>2, <2>1, <2>2, <2>3, <2>6, <2>11, <2>14 DEF Covers, Good
  <2> QED
    BY <1>2, <2>11, <2>12, <2>13, <2>14
<1> QED
  BY <1>3, <1>4

\* The map h is m with a hole from start to last.
Holed(m, h, start, last) ==
  /\ Good(h)
  /\ \A n \in Numbers : Covers(h, n) <=> (Covers(m, n) /\ ~(start <= n /\ n <= last))

LEMMA HoleExact ==
  ASSUME RangesAssumption, NEW m, Good(m), NEW start \in Numbers, NEW last \in Numbers,
         start <= last, ~(last \in DOMAIN m /\ m[last] > last)
  PROVE  Holed(m, Hole(m, start, last), start, last)
<1> DEFINE r == RemoveObscuredRanges(m, start, last)
           c == CutAtStart(r, start, last)
           h == CutAtEnd(c, last)
<1>1. /\ Good(r)
      /\ \A s \in DOMAIN r : s \in DOMAIN m /\ r[s] = m[s]
      /\ \A s \in DOMAIN r : s < start \/ r[s] > last
      /\ \A s \in DOMAIN m \ DOMAIN r : s >= start /\ m[s] <= last
  BY ObscuredRemoved
<1> HIDE DEF r
<1>2. /\ Good(c)
      /\ \A s \in DOMAIN c : IF s < start THEN c[s] < start ELSE c[s] > last
      /\ \A s \in DOMAIN c : s = last => s \in DOMAIN r /\ r[s] > last
      /\ \A n \in Numbers : n < start \/ last < n => (Covers(c, n) <=> Covers(r, n))
  BY <1>1, CutAtStartGood
<1>3. last \notin DOMAIN c
  BY <1>1, <1>2
<1> HIDE DEF c
<1>4. /\ Good(h)
      /\ \A s \in DOMAIN h : s > last \/ h[s] < start
      /\ \A n \in Numbers : n < start \/ last < n => (Covers(h, n) <=> Covers(c, n))
  BY <1>2, <1>3, CutAtEndGood
<1>5. h = Hole(m, start, last)
  BY DEF Hole, r, c
<1> HIDE DEF h
<1>6. start \in Nat /\ last \in Nat /\ Numbers \subseteq Nat
  BY NumbersAreNat
<1>7. ASSUME NEW n \in Numbers, n < start \/ last < n
      PROVE  Covers(r, n) <=> Covers(m, n)
  BY <1>1, <1>6, <1>7 DEF Covers, Good
<1>8. ASSUME NEW n \in Numbers, start <= n, n <= last
      PROVE  ~Covers(h, n)
  BY <1>4, <1>6, <1>8 DEF Covers, Good
<1> QED
  BY <1>2, <1>4, <1>5, <1>6, <1>7, <1>8 DEF Holed

\* No range of a map with a hole begins or ends in it.
LEMMA NothingInHole ==
  ASSUME RangesAssumption, NEW m, NEW h, NEW start \in Numbers, NEW last \in Numbers,
         start <= last, Holed(m, h, start, last)
  PROVE  /\ start \notin DOMAIN h
         /\ \A s \in DOMAIN h : h[s] < start \/ last < s
<1>1. start \in Nat /\ last \in Nat /\ Numbers \subseteq Nat
  BY NumbersAreNat
<1>2. ASSUME NEW s \in DOMAIN h, ~(h[s] < start \/ last < s)
      PROVE  FALSE
  <2>1. s \in Nat /\ h[s] \in Nat /\ s \in Numbers /\ s <= h[s]
    BY <1>1, <1>2 DEF Holed, Good
  <2>2. CASE s >= start
    <3>1. Covers(h, s)
      BY <2>1 DEF Covers
    <3> QED
      BY <1>1, <1>2, <2>1, <2>2, <3>1 DEF Holed
  <2>3. CASE s < start
    <3>1. Covers(h, start)
      BY <1>1, <1>2, <2>1, <2>3 DEF Covers
    <3> QED
      BY <1>1, <3>1 DEF Holed
  <2> QED
    BY <1>1, <2>1, <2>2, <2>3
<1> QED
  BY <1>1, <1>2 DEF Holed, Good

(* -------------------------------- theorems -------------------------------- *)

RangesInv ==
  /\ Good(m_StartLastMap)
  /\ numbers \subseteq Numbers
  /\ \A n \in Numbers : n \in numbers <=> Covers(m_StartLastMap, n)

LEMMA RangesInvInit == ASSUME RangesAssumption, RangesInit PROVE RangesInv
BY DEF RangesInit, RangesInv, Good, Covers

LEMMA LastOfCall ==
  ASSUME RangesAssumption, NEW call \in Calls, call[2] >= 1
  PROVE  /\ call[1] \in Numbers /\ LastNumber(call[1], call[2]) \in Numbers
         /\ LastNumber(call[1], call[2]) = call[1] + call[2] - 1
         /\ call[1] <= LastNumber(call[1], call[2])
<1>1. call[1] \in 0 .. N - 1 /\ call[2] \in 0 .. N /\ call[1] + call[2] <= N
  BY DEF Calls, Numbers
<1>2. call[1] + call[2] - 1 \in 0 .. N - 1 /\ call[1] <= call[1] + call[2] - 1
  BY <1>1 DEF RangesAssumption
<1>3. LastNumber(call[1], call[2]) = call[1] + call[2] - 1
  BY <1>2 DEF LastNumber, uint, RangesAssumption
<1> QED
  BY <1>1, <1>2, <1>3 DEF Numbers

LEMMA StepInv ==
  ASSUME RangesAssumption, ~CallsSharingStart, RangesInv,
         NEW call \in Calls, Allowed(call[1], call[2]),
         SetRange(call[1], call[2]) \/ UnsetRange(call[1], call[2])
  PROVE  RangesInv'
<1> DEFINE m == m_StartLastMap
           start == call[1]
           last == LastNumber(start, call[2])
           h == Hole(m, start, last)
<1>1. call[2] >= 1
  BY DEF SetRange, UnsetRange
<1>2. start \in Numbers /\ last \in Numbers /\ start <= last
  BY <1>1, LastOfCall
<1>3. ~(last \in DOMAIN m /\ m[last] > last)
  BY DEF Allowed, Exposed
<1>4. Holed(m, h, start, last)
  BY <1>2, <1>3, HoleExact DEF RangesInv
<1>5. start \notin DOMAIN h /\ \A s \in DOMAIN h : h[s] < start \/ last < s
  BY <1>2, <1>4, NothingInHole
<1>6. start .. last \subseteq Numbers /\ \A n \in Numbers : n \in start .. last <=> start <= n /\ n <= last
  BY <1>2 DEF Numbers, RangesAssumption
<1>7. CASE SetRange(call[1], call[2])
  <2>1. m' = MapInsert(h, start, last) /\ numbers' = numbers \cup (start .. last)
    BY <1>7 DEF SetRange
  <2>2. Good(h) /\ \A s \in DOMAIN h \ {start} : h[s] < start \/ last < s
    BY <1>4, <1>5 DEF Holed
  <2> HIDE DEF h, last, start
  <2>3. /\ Good(m')
        /\ \A n \in Numbers : Covers(m', n) <=> (Covers(h, n) \/ (start <= n /\ n <= last))
    BY <1>2, <1>5, <2>1, <2>2, InsertGood
  <2> QED
    BY <1>4, <1>6, <2>1, <2>3 DEF RangesInv, Holed
<1>8. CASE UnsetRange(call[1], call[2])
  <2>1. m' = h /\ numbers' = numbers \ (start .. last)
    BY <1>8 DEF UnsetRange
  <2> HIDE DEF h, last, start
  <2> QED
    BY <1>4, <1>6, <2>1 DEF RangesInv, Holed
<1> QED
  BY <1>7, <1>8

LEMMA RangesInvNext ==
  ASSUME RangesAssumption, ~CallsSharingStart, RangesInv, [RangesNext]_<<m_StartLastMap, numbers>>
  PROVE  RangesInv'
<1>1. CASE UNCHANGED <<m_StartLastMap, numbers>>
  BY <1>1 DEF RangesInv
<1>2. CASE RangesNext
  BY <1>2, StepInv DEF RangesNext
<1> QED
  BY <1>1, <1>2

\* The map holds the numbers set and not unset since, and no others, in ranges that do not
\* overlap, and IsRangeSet() tells whether one of a range is among them (SharedUtil.Misc.hpp).
THEOREM RangesStayExact ==
  ASSUME RangesAssumption, ~CallsSharingStart
  PROVE  RangesSpec => []RangesExact
<1>1. ASSUME RangesInv PROVE NumbersHeld
  <2>1. \A s \in DOMAIN m_StartLastMap : s .. m_StartLastMap[s] \subseteq Numbers
    BY <1>1 DEF RangesInv, Good, Numbers, RangesAssumption
  <2>2. ASSUME NEW n
        PROVE  n \in numbers <=>
                 \E s \in DOMAIN m_StartLastMap : n \in s .. m_StartLastMap[s]
    <3>1. CASE n \in Numbers
      BY <1>1, <3>1 DEF RangesInv, Good, Covers, Numbers, RangesAssumption
    <3>2. CASE n \notin Numbers
      BY <1>1, <2>1, <3>2 DEF RangesInv
    <3> QED
      BY <3>1, <3>2
  <2> QED
    BY <2>2 DEF NumbersHeld
<1>2. ASSUME RangesInv PROVE QueriesTruthful
  <2> SUFFICES ASSUME NEW call \in Calls
               PROVE  IsRangeSet(call[1], call[2]) <=>
                        \E n \in numbers : n >= call[1] /\ n < call[1] + call[2]
    BY DEF QueriesTruthful
  <2> DEFINE m == m_StartLastMap
             start == call[1]
             last == LastNumber(start, call[2])
  <2>1. CASE call[2] = 0
    BY <1>2, <2>1 DEF IsRangeSet, RangesInv, Calls, Numbers, RangesAssumption
  <2>2. CASE call[2] # 0
    <3>1. call[2] >= 1
      BY <2>2 DEF Calls
    <3>2. /\ start \in Numbers /\ last \in Numbers /\ start <= last
          /\ last = start + call[2] - 1
      BY <3>1, LastOfCall
    <3>3. IsRangeSet(start, call[2]) <=>
             \/ \E s \in DOMAIN m : s >= start /\ s <= last
             \/ GetRangeOverlappingPoint(m, start) # {}
      BY <3>1 DEF IsRangeSet, From, GetRangeOverlappingPoint
    <3>4. GetRangeOverlappingPoint(m, start) = {s \in DOMAIN m : s < start /\ m[s] >= start}
      BY <1>2, <3>2, Overlapping DEF RangesInv
    <3>5. (\E s \in DOMAIN m : s >= start /\ s <= last) \/ GetRangeOverlappingPoint(m, start) # {}
            <=> \E n \in Numbers : Covers(m, n) /\ start <= n /\ n <= last
      <4>1. ASSUME NEW s \in DOMAIN m, s >= start, s <= last
            PROVE  \E n \in Numbers : Covers(m, n) /\ start <= n /\ n <= last
        BY <1>2, <4>1 DEF RangesInv, Good, Covers, Numbers
      <4>2. ASSUME NEW s \in DOMAIN m, s < start, m[s] >= start
            PROVE  \E n \in Numbers : Covers(m, n) /\ start <= n /\ n <= last
        <5>1. Covers(m, start) /\ start <= start
          BY <1>2, <3>2, <4>2, NumbersAreNat DEF RangesInv, Good, Covers
        <5> QED
          BY <3>2, <5>1
      <4>3. ASSUME NEW n \in Numbers, Covers(m, n), start <= n, n <= last
            PROVE  \E s \in DOMAIN m : (s >= start /\ s <= last) \/ (s < start /\ m[s] >= start)
        BY <1>2, <3>2, <4>3, NumbersAreNat DEF RangesInv, Good, Covers
      <4> QED
        BY <3>4, <4>1, <4>2, <4>3
    <3>6. (\E n \in Numbers : Covers(m, n) /\ start <= n /\ n <= last)
            <=> \E n \in numbers : n >= start /\ n < start + call[2]
      BY <1>2, <3>2 DEF RangesInv, Calls, Numbers, RangesAssumption
    <3> QED
      BY <3>3, <3>5, <3>6
  <2> QED
    BY <2>1, <2>2
<1>3. ASSUME RangesInv PROVE RangesDisjoint
  BY <1>3 DEF RangesInv, Good, RangesDisjoint
<1>4. RangesInv => RangesExact
  BY <1>1, <1>2, <1>3 DEF RangesExact
<1> QED
  BY <1>4, RangesInvInit, RangesInvNext, PTL DEF RangesSpec

(***************************************************************************)
(* Memory access, for any number and size of pages and any choice of often *)
(* written places, of writes that do not cover a protected and an          *)
(* unprotected page.                                                       *)
(***************************************************************************)
(* ------------------------- blocks and their pages ------------------------- *)

LEMMA PageBounds ==
  ASSUME NEW k \in Nat \ {0}, NEW b \in Nat
  PROVE  /\ b \div k \in Nat
         /\ k * (b \div k) <= b
         /\ b < k * (b \div k) + k
OBVIOUS

LEMMA Larger ==
  ASSUME NEW k \in Nat \ {0}, NEW x \in Int, NEW y \in Int, x < y
  PROVE  k * x + k <= k * y
OBVIOUS

LEMMA PageOfBlock ==
  ASSUME MemAccessAssumption, NEW b \in Blocks
  PROVE  Page(b) \in Pages
<1>1. b \in Nat /\ b < NumPages * BlocksPerPage
  BY DEF MemAccessAssumption, Blocks
<1>2. /\ Page(b) \in Nat
      /\ BlocksPerPage * Page(b) <= b
  BY <1>1, PageBounds DEF MemAccessAssumption, Page
<1>3. Page(b) < NumPages
  <2>1. SUFFICES ASSUME NumPages <= Page(b) PROVE FALSE
    BY <1>2 DEF MemAccessAssumption
  <2>2. BlocksPerPage * NumPages <= BlocksPerPage * Page(b)
    BY <2>1, <1>2, Larger DEF MemAccessAssumption
  <2> QED
    BY <2>2, <1>1, <1>2 DEF MemAccessAssumption
<1> QED
  BY <1>2, <1>3 DEF Pages, MemAccessAssumption

LEMMA PageMonotone ==
  ASSUME MemAccessAssumption, NEW a \in Blocks, NEW b \in Blocks, a <= b
  PROVE  Page(a) <= Page(b)
<1>1. a \in Nat /\ b \in Nat /\ BlocksPerPage \in Nat \ {0}
  BY DEF MemAccessAssumption, Blocks
<1>2. /\ Page(a) \in Nat /\ Page(b) \in Nat
      /\ BlocksPerPage * Page(a) <= a
      /\ b < BlocksPerPage * Page(b) + BlocksPerPage
  BY <1>1, PageBounds DEF Page
<1>3. SUFFICES ASSUME Page(b) < Page(a) PROVE FALSE
  BY <1>2
<1>4. BlocksPerPage * Page(b) + BlocksPerPage <= BlocksPerPage * Page(a)
  BY <1>1, <1>2, <1>3, Larger
<1> QED
  BY <1>1, <1>2, <1>4

\* A block before the code, or behind the first block after it, is in no page of the code.
LEMMA OutsideCode ==
  ASSUME MemAccessAssumption, NEW b \in Blocks,
         ~(/\ FirstCodePage * BlocksPerPage <= b
           /\ b <= (LastCodePage + 1) * BlocksPerPage)
  PROVE  Page(b) \notin CodePages
<1>1. b \in Nat /\ BlocksPerPage \in Nat \ {0} /\ FirstCodePage \in Nat /\ LastCodePage \in Nat
  BY DEF MemAccessAssumption, Blocks, Pages
<1>2. /\ Page(b) \in Nat
      /\ BlocksPerPage * Page(b) <= b
      /\ b < BlocksPerPage * Page(b) + BlocksPerPage
  BY <1>1, PageBounds DEF Page
<1>3. CASE b < FirstCodePage * BlocksPerPage
  <2>1. SUFFICES ASSUME FirstCodePage <= Page(b) PROVE FALSE
    BY <1>1, <1>2 DEF CodePages
  <2>2. BlocksPerPage * FirstCodePage <= BlocksPerPage * Page(b)
    BY <1>1, <1>2, <2>1, Larger
  <2>3. BlocksPerPage * FirstCodePage = FirstCodePage * BlocksPerPage
    BY <1>1
  <2> QED
    BY <1>1, <1>2, <1>3, <2>2, <2>3
<1>4. CASE b > (LastCodePage + 1) * BlocksPerPage
  <2>1. SUFFICES ASSUME Page(b) <= LastCodePage PROVE FALSE
    BY <1>1, <1>2 DEF CodePages
  <2>2. BlocksPerPage * Page(b) + BlocksPerPage <= BlocksPerPage * (LastCodePage + 1)
    BY <1>1, <1>2, <2>1, Larger
  <2>3. BlocksPerPage * (LastCodePage + 1) = (LastCodePage + 1) * BlocksPerPage
    BY <1>1
  <2> QED
    BY <1>1, <1>2, <1>4, <2>2, <2>3
<1> QED
  BY <1>1, <1>3, <1>4

(* --------------------------- inductive invariant -------------------------- *)

\* What a page's protection is while no write is under way.
AtRest(p) == IF p \notin CodePages \/ (unprotected /\ p \in FastPages) THEN "rwx" ELSE "rx"

OpenPages == hMem.dwFirstPage .. hMem.dwFirstPage + hMem.pages - 1

Handles == [dwFirstPage : Pages, pages : Nat, oldProt : {"rx", "rwx"}]

\* Only the pages of the handle differ from what they are at rest, and the protection that
\* is kept is right for each of them; the blocks still to be written are writable.
MemInv ==
  /\ prot \in [Pages -> {"rx", "rwx"}] /\ unprotected \in BOOLEAN
  /\ hMem \in Handles \cup {Closed}
  /\ written = <<>> => hMem = Closed
  /\ hMem = Closed => \A p \in Pages : prot[p] = AtRest(p)
  /\ hMem # Closed =>
       /\ \A p \in Pages : IF p \in OpenPages THEN prot[p] = "rwx" /\ hMem.oldProt = AtRest(p)
                           ELSE prot[p] = AtRest(p)
       /\ hMem.dwFirstPage + hMem.pages = Page(written[2]) + 1
  /\ written # <<>> =>
       /\ written \in Nat \X Blocks
       /\ \A b \in written[1] .. written[2] : b \in Blocks /\ prot[Page(b)] = "rwx"

LEMMA ClosedIsNoHandle == Closed \notin Handles
BY DEF Closed, Handles

LEMMA MemInvInit == ASSUME MemAccessAssumption, MemInit PROVE MemInv
BY DEF MemInit, MemInv, AtRest

LEMMA UnprotectInv ==
  ASSUME MemAccessAssumption, MemInv, SetInitialVirtualProtect PROVE MemInv'
<1>1. hMem = Closed /\ hMem' = Closed /\ written' = <<>>
  BY DEF MemInv, SetInitialVirtualProtect
<1>2. \A p \in FastPages : p \in CodePages
  BY DEF FastPages, MemAccessAssumption
<1>3. \A p \in Pages : prot'[p] = AtRest(p)'
  BY <1>1, <1>2 DEF MemInv, SetInitialVirtualProtect, AtRest, VirtualProtect
<1> QED
  BY <1>1, <1>3 DEF MemInv, SetInitialVirtualProtect, VirtualProtect

\* The blocks of a range lie in the pages from its first to its last.
LEMMA PagesOfRange ==
  ASSUME MemAccessAssumption, NEW first \in Blocks, NEW last \in Blocks,
         NEW b \in first .. last
  PROVE  b \in Blocks /\ Page(b) \in Page(first) .. Page(last)
<1>1. b \in Blocks
  BY DEF Blocks, MemAccessAssumption
<1>2. Page(first) \in Nat /\ Page(b) \in Nat /\ Page(last) \in Nat
  BY <1>1, PageOfBlock DEF Pages
<1> QED
  BY <1>1, <1>2, PageMonotone DEF Blocks

\* The pages of a write are all open at rest or all protected (Covered).
LEMMA PagesOfOneKind ==
  ASSUME MemAccessAssumption, ~Mixed, unprotected,
         NEW first \in Blocks, NEW last \in Blocks, Covered(first, last),
         NEW p \in Page(first) .. Page(last), NEW q \in Page(first) .. Page(last)
  PROVE  AtRest(p) = AtRest(q)
BY DEF Covered, AtRest

LEMMA OpenInv ==
  ASSUME MemAccessAssumption, ~Mixed, MemInv,
         NEW first \in Blocks, NEW last \in Blocks, OpenMemWrite(first, last)
  PROVE  MemInv'
<1> DEFINE opened == Page(first) .. Page(last)
<1>1. /\ Page(first) \in Pages /\ Page(last) \in Pages
      /\ Page(first) <= Page(last)
  BY PageOfBlock, PageMonotone DEF OpenMemWrite
<1>2. Page(first) \in Nat /\ Page(last) \in Nat /\ Page(last) < NumPages
  BY <1>1 DEF Pages, MemAccessAssumption
<1>3. hMem = Closed /\ unprotected /\ unprotected' /\ \A p \in Pages : prot[p] = AtRest(p)
  BY DEF MemInv, OpenMemWrite
<1>4. Cardinality(opened) = Page(last) - Page(first) + 1
  BY <1>1, <1>2, FS_Interval
<1>5. /\ hMem' = [dwFirstPage |-> Page(first), pages |-> Page(last) - Page(first) + 1,
                  oldProt |-> prot[Page(first)]]
      /\ prot' = [q \in Pages |-> IF q \in opened THEN "rwx" ELSE prot[q]]
      /\ written' = <<first, last>>
  BY <1>4 DEF OpenMemWrite, LastPage, VirtualProtect
<1>6. hMem' \in Handles /\ OpenPages' = opened
  <2>1. Page(last) - Page(first) + 1 \in Nat /\ prot[Page(first)] \in {"rx", "rwx"}
    BY <1>1, <1>2 DEF MemInv
  <2> QED
    BY <1>1, <1>2, <1>5, <2>1 DEF Handles, OpenPages
<1>7. \A p \in opened : p \in Pages /\ prot[Page(first)] = AtRest(p)
  <2>1. Page(first) \in opened /\ \A p \in opened : p \in Pages
    BY <1>1, <1>2 DEF Pages, MemAccessAssumption
  <2>2. Covered(first, last)
    BY DEF OpenMemWrite
  <2>3. \A p \in opened : AtRest(Page(first)) = AtRest(p)
    BY <1>3, <2>1, <2>2, PagesOfOneKind
  <2> QED
    BY <1>1, <1>3, <2>1, <2>3
<1>8. \A p : AtRest(p)' = AtRest(p)
  BY <1>3 DEF AtRest
<1>9. \A b \in first .. last : b \in Blocks /\ prot'[Page(b)] = "rwx"
  BY <1>5, <1>7, PagesOfRange
<1>10. hMem' # Closed
  BY <1>6, ClosedIsNoHandle
<1>11. first \in Nat
  BY DEF Blocks
<1>12. hMem'.dwFirstPage + hMem'.pages = Page(written'[2]) + 1
  BY <1>2, <1>5
<1> QED
  BY <1>3, <1>5, <1>6, <1>7, <1>8, <1>9, <1>10, <1>11, <1>12 DEF MemInv

LEMMA OpenFastInv ==
  ASSUME MemAccessAssumption, ~Mixed, MemInv,
         NEW first \in Blocks, NEW last \in Blocks, OpenFastMem(first, last)
  PROVE  MemInv'
<1>1. /\ hMem = Closed /\ hMem' = Closed /\ unprotected /\ unprotected'
      /\ written' = <<first, last>> /\ prot' = prot
      /\ \A p \in Pages : prot[p] = AtRest(p) /\ AtRest(p)' = AtRest(p)
  BY DEF MemInv, OpenFastMem, AtRest
<1>2. PICK c \in first .. last : \/ c \in FastBlocks
                                 \/ ~(/\ FirstCodePage * BlocksPerPage <= c
                                      /\ c <= (LastCodePage + 1) * BlocksPerPage)
  BY DEF OpenFastMem, IsSlowMem
<1>3. c \in Blocks /\ Page(c) \in Page(first) .. Page(last)
  BY PagesOfRange
<1>4. AtRest(Page(c)) = "rwx"
  BY <1>1, <1>2, <1>3, OutsideCode DEF AtRest, FastPages
<1>5. \A b \in first .. last : b \in Blocks /\ prot'[Page(b)] = "rwx"
  BY <1>1, <1>3, <1>4, PagesOfRange, PagesOfOneKind, PageOfBlock DEF OpenFastMem
<1>6. first \in Nat
  BY DEF Blocks
<1> QED
  BY <1>1, <1>5, <1>6 DEF MemInv

LEMMA WriteInv == ASSUME MemAccessAssumption, MemInv, WriteSlow PROVE MemInv'
<1>1. written \in Nat \X Blocks /\ written' = <<written[1] + 1, written[2]>>
  BY DEF MemInv, WriteSlow
<1>2. written' \in Nat \X Blocks /\ written'[1] = written[1] + 1 /\ written'[2] = written[2]
  BY <1>1
<1>3. \A b \in written'[1] .. written'[2] : b \in written[1] .. written[2]
  BY <1>1, <1>2 DEF Blocks
<1>4. /\ UNCHANGED <<prot, unprotected, hMem>> /\ written # <<>>
      /\ \A p : AtRest(p)' = AtRest(p)
      /\ OpenPages' = OpenPages
  BY DEF WriteSlow, AtRest, OpenPages
<1> QED
  BY <1>2, <1>3, <1>4 DEF MemInv

LEMMA CloseInv == ASSUME MemAccessAssumption, MemInv, CloseMemWrite PROVE MemInv'
<1>1. hMem' = Closed /\ written' = <<>> /\ unprotected' = unprotected
  BY DEF CloseMemWrite
<1>2. \A p : AtRest(p)' = AtRest(p)
  BY <1>1 DEF AtRest
<1>3. prot' \in [Pages -> {"rx", "rwx"}] /\ \A p \in Pages : prot'[p] = AtRest(p)
  <2>1. CASE hMem = Closed
    BY <2>1 DEF CloseMemWrite, MemInv
  <2>2. CASE hMem # Closed
    BY <2>2 DEF CloseMemWrite, MemInv, Reprotected, VirtualProtect, OpenPages, Handles
  <2> QED
    BY <2>1, <2>2
<1> QED
  BY <1>1, <1>2, <1>3 DEF MemInv

LEMMA MemInvNext == ASSUME MemAccessAssumption, ~Mixed, MemInv, [MemNext]_memVars PROVE MemInv'
<1>1. CASE UNCHANGED memVars
  BY <1>1 DEF memVars, MemInv, AtRest, OpenPages
<1> QED
  BY <1>1, UnprotectInv, OpenInv, OpenFastInv, WriteInv, CloseInv DEF MemNext

(* -------------------------------- theorems -------------------------------- *)

\* The code is protected whenever no write is under way, but for the pages
\* SetInitialVirtualProtect() opened for good, whatever was written before; no write, with or
\* without a handle, meets a protected page; and the often written places stay writable
\* (SharedUtil.MemAccess.hpp:49, 120, 150).
THEOREM CodeStaysProtected ==
  ASSUME MemAccessAssumption, ~Mixed PROVE MemSpec => []CodeProtected
<1>1. ASSUME MemInv PROVE CodeProtectedAtRest
  <2>1. \A p \in CodePages : p \in Pages
    BY DEF CodePages, Pages, MemAccessAssumption
  <2> QED
    BY <1>1, <2>1 DEF MemInv, CodeProtectedAtRest, AtRest
<1>2. ASSUME MemInv PROVE SlowWritesSucceed
  BY <1>2 DEF MemInv, SlowWritesSucceed, Blocks
<1>3. ASSUME MemInv PROVE FastWritesSucceed
  <2>1. ASSUME NEW b \in FastBlocks, unprotected PROVE prot[Page(b)] = "rwx"
    <3>1. b \in Blocks /\ Page(b) \in Pages /\ AtRest(Page(b)) = "rwx"
      BY <2>1, PageOfBlock DEF MemAccessAssumption, AtRest, FastPages
    <3> QED
      BY <1>3, <3>1 DEF MemInv
  <2> QED
    BY <2>1 DEF FastWritesSucceed
<1>4. MemInv => MemTypeOK
  BY DEF MemInv, MemTypeOK, Handles
<1>5. MemInv => CodeProtected
  BY <1>1, <1>2, <1>3, <1>4 DEF CodeProtected
<1> QED
  BY <1>5, MemInvInit, MemInvNext, PTL DEF MemSpec

(***************************************************************************)
(* CVehicleColor, for any slots, any range of colours and any palette.     *)
(***************************************************************************)
\* A set of numbers has a least element.
LEMMA LeastIs == ASSUME NEW S \in SUBSET Nat, S # {} PROVE \E x \in S : \A y \in S : x <= y
<1>1. PICK x \in S : \A y \in S : ~ (<<y, x>> \in OpToRel(<, Nat))
  BY WFMin, NatLessThanWellFounded, Zenon
<1>2. \A y \in S : ~ (y < x)
  BY <1>1, Zenon DEF OpToRel
<1> QED
  BY <1>2

\* A colour has a first one of the nearest.
LEMMA NearestIs ==
  ASSUME TableAssumption, NEW color \in Colors
  PROVE  GetPaletteIndexFromRGB(color) \in Indices
<1> DEFINE Dist(i) == (Table[i + 1] - color) * (Table[i + 1] - color)
           D == {Dist(i) : i \in Indices}
<1>1. \A i \in Indices : i \in Nat /\ Table[i + 1] \in Int /\ color \in Int
  BY DEF TableAssumption, Indices, Colors
<1>2. \A x \in Int : x * x \in Nat
  OBVIOUS
<1>3. \A i \in Indices : Dist(i) \in Nat
  BY <1>1, <1>2
<1>4. 0 \in Indices
  BY DEF Indices, TableAssumption
<1> HIDE DEF Dist
<1>5. PICK d \in D : \A e \in D : d <= e
  <2>1. D \in SUBSET Nat /\ D # {}
    BY <1>3, <1>4
  <2> HIDE DEF D
  <2> QED
    BY <2>1, LeastIs
<1> DEFINE F == {i \in Indices : Dist(i) = d}
<1>6. F \in SUBSET Nat /\ F # {}
  BY <1>1, <1>5
<1>7. PICK f \in F : \A i \in F : f <= i
  <2> HIDE DEF F
  <2> QED
    BY <1>6, LeastIs
<1>8. f \in Indices /\ \A j \in Indices : Dist(f) <= Dist(j)
  BY <1>5, <1>7
<1>9. \A j \in 0 .. f - 1 : Dist(f) < Dist(j)
  <2> SUFFICES ASSUME NEW j \in 0 .. f - 1 PROVE Dist(f) < Dist(j)
    OBVIOUS
  <2>1. j \in Indices /\ j < f
    BY <1>1, <1>8 DEF Indices, TableAssumption
  <2>2. Dist(j) # d
    BY <1>7, <2>1, <1>1
  <2> QED
    BY <1>3, <1>8, <1>7, <2>1, <2>2
<1>10. GetPaletteIndexFromRGB(color)
         = CHOOSE i \in Indices : /\ \A j \in Indices : Dist(i) <= Dist(j)
                                  /\ \A j \in 0 .. i - 1 : Dist(i) < Dist(j)
  BY DEF GetPaletteIndexFromRGB, Dist
<1> QED
  BY <1>8, <1>9, <1>10

LEMMA PaletteColor ==
  ASSUME TableAssumption, NEW i \in Indices
  PROVE  GetRGBFromPaletteIndex(i) \in Colors
BY DEF TableAssumption, Indices, GetRGBFromPaletteIndex

ColorInv == ColorTypeOK /\ ViewsAgree

LEMMA ValidTypes ==
  ASSUME TableAssumption, ColorTypeOK
  PROVE  ValidRGB \in [Slots -> Colors] /\ ValidPalette \in [Slots -> Indices]
BY NearestIs, PaletteColor DEF ColorTypeOK, ValidRGB, ValidPalette

LEMMA ColorInvInit == ASSUME TableAssumption, ColorInit PROVE ColorInv
<1>1. 0 \in Indices /\ GetRGBFromPaletteIndex(0) = 0
  BY DEF TableAssumption, Indices, GetRGBFromPaletteIndex
<1>2. 0 \in Colors
  BY DEF TableAssumption, Colors
<1> QED
  BY <1>1, <1>2 DEF ColorInit, ColorInv, ColorTypeOK, ViewsAgree

LEMMA ColorInvNext ==
  ASSUME TableAssumption, ColorInv, [ColorNext]_colorVars PROVE ColorInv'
<1> USE DEF ColorInv, ColorTypeOK
<1>1. ValidRGB \in [Slots -> Colors] /\ ValidPalette \in [Slots -> Indices]
  BY ValidTypes
<1>2. ASSUME NEW colors \in [Slots -> Colors], SetRGBColors(colors) PROVE ColorInv'
  BY <1>2 DEF SetRGBColors, InvalidatePaletteColors, ViewsAgree
<1>3. ASSUME NEW indices \in [Slots -> Indices], SetPaletteColors(indices) PROVE ColorInv'
  BY <1>3 DEF SetPaletteColors, InvalidateRGBColors, ViewsAgree
<1>4. ASSUME NEW slot \in Slots, NEW color \in Colors, SetRGBColor(slot, color) PROVE ColorInv'
  <2>1. m_RGBColors' \in [Slots -> Colors]
    BY <1>1, <1>4 DEF SetRGBColor
  <2>2. CASE color = ValidRGB[slot]
    <3>1. m_RGBColors' = ValidRGB
      BY <1>1, <1>4, <2>2 DEF SetRGBColor
    <3> QED
      BY <1>4, <2>1, <2>2, <3>1 DEF SetRGBColor, ViewsAgree, ValidRGB
  <2>3. CASE color # ValidRGB[slot]
    BY <1>4, <2>1, <2>3 DEF SetRGBColor, ViewsAgree, InvalidatePaletteColors
  <2> QED
    BY <2>2, <2>3
<1>5. ASSUME NEW slot \in Slots, NEW index \in Indices, SetPaletteColor(slot, index)
      PROVE  ColorInv'
  <2>1. m_ucPaletteColors' \in [Slots -> Indices]
    BY <1>1, <1>5 DEF SetPaletteColor
  <2>2. CASE index = ValidPalette[slot]
    <3>1. m_ucPaletteColors' = ValidPalette
      BY <1>1, <1>5, <2>2 DEF SetPaletteColor
    <3> QED
      BY <1>5, <2>1, <2>2, <3>1 DEF SetPaletteColor, ViewsAgree, ValidPalette
  <2>3. CASE index # ValidPalette[slot]
    BY <1>5, <2>1, <2>3 DEF SetPaletteColor, ViewsAgree, InvalidateRGBColors
  <2> QED
    BY <2>2, <2>3
<1>6. CASE GetRGBColor
  BY <1>1, <1>6 DEF GetRGBColor, ViewsAgree, ValidRGB
<1>7. CASE GetPaletteColor
  BY <1>1, <1>7 DEF GetPaletteColor, ViewsAgree, ValidPalette
<1>8. CASE UNCHANGED colorVars
  BY <1>8 DEF colorVars, ViewsAgree
<1> QED
  BY <1>2, <1>3, <1>4, <1>5, <1>6, <1>7, <1>8 DEF ColorNext

\* Setting one slot leaves that representation valid.
LEMMA OneSlotStep ==
  /\ \A slot \in Slots, color \in Colors :
       SetRGBColor(slot, color) => ValidRGB' = [ValidRGB EXCEPT ![slot] = color]
  /\ \A slot \in Slots, index \in Indices :
       SetPaletteColor(slot, index) => ValidPalette' = [ValidPalette EXCEPT ![slot] = index]
<1>1. ASSUME NEW slot \in Slots, NEW color \in Colors, SetRGBColor(slot, color)
      PROVE  ValidRGB' = [ValidRGB EXCEPT ![slot] = color]
  <2>1. ~ m_bRGBColorsWrong' /\ m_RGBColors' = [ValidRGB EXCEPT ![slot] = color]
    BY <1>1 DEF SetRGBColor, InvalidatePaletteColors
  <2> QED
    BY <2>1 DEF ValidRGB
<1>2. ASSUME NEW slot \in Slots, NEW index \in Indices, SetPaletteColor(slot, index)
      PROVE  ValidPalette' = [ValidPalette EXCEPT ![slot] = index]
  <2>1. ~ m_bPaletteColorsWrong' /\ m_ucPaletteColors' = [ValidPalette EXCEPT ![slot] = index]
    BY <1>2 DEF SetPaletteColor, InvalidateRGBColors
  <2> QED
    BY <2>1 DEF ValidPalette
<1> QED
  BY <1>1, <1>2

\* Asking converts from the representation that is right.
LEMMA AskingStep ==
  ASSUME ColorTypeOK, GetRGBColor \/ GetPaletteColor
  PROVE  ValidRGB' = ValidRGB /\ ValidPalette' = ValidPalette
BY DEF ColorTypeOK, GetRGBColor, GetPaletteColor, ValidRGB, ValidPalette

(***************************************************************************)
(* The representation that is not marked wrong is right: where neither is, *)
(* one is the other one converted; setting one slot keeps the others, and  *)
(* asking for colours changes none (SharedUtil.Game.hpp, CVehicleColor).   *)
(***************************************************************************)
THEOREM ColorsStayRight == ASSUME TableAssumption PROVE ColorSpec => ColorsKept
<1>1. ColorInv /\ [ColorNext]_colorVars => ColorInv'
  BY ColorInvNext
<1>2. ColorInv => ColorTypeOK /\ ViewsAgree
  BY DEF ColorInv
<1> DEFINE OneSlot == /\ \A slot \in Slots, color \in Colors : SetRGBColor(slot, color) =>
                            ValidRGB' = [ValidRGB EXCEPT ![slot] = color]
                      /\ \A slot \in Slots, index \in Indices : SetPaletteColor(slot, index) =>
                            ValidPalette' = [ValidPalette EXCEPT ![slot] = index]
           Asking == GetRGBColor \/ GetPaletteColor
                       => ValidRGB' = ValidRGB /\ ValidPalette' = ValidPalette
<1>3. OneSlot
  BY OneSlotStep
<1>4. ColorInv => Asking
  BY AskingStep DEF ColorInv
<1>5. ColorSpec => []ColorInv
  BY <1>1, ColorInvInit, PTL DEF ColorSpec
<1>6. [][OneSlot]_colorVars
  BY <1>3, PTL
<1>7. []ColorInv => [][Asking]_colorVars
  BY <1>4, PTL
<1> QED
  BY <1>2, <1>5, <1>6, <1>7, PTL DEF ColorsKept, OneSlotSet, AskingChangesNothing


(***************************************************************************)
(* The clock, for any width of the system counter, any longest difference, *)
(* any timers and any steps of the system clock.                           *)
(***************************************************************************)
LEMMA ModIs ==
  ASSUME NEW w \in Nat \ {0}, NEW x \in Int
  PROVE  x % w \in 0 .. w - 1 /\ \E q \in Int : x = w * q + (x % w)
<1>1. x % w \in 0 .. w - 1 /\ x \div w \in Int
  OBVIOUS
<1>2. x = w * (x \div w) + (x % w)
  OBVIOUS
<1> QED
  BY <1>1, <1>2

\* A remainder is the only number of its kind.
LEMMA OneRemainder ==
  ASSUME NEW w \in Nat \ {0}, NEW p \in Int, NEW q \in Int, NEW a \in 0 .. w - 1,
         NEW b \in 0 .. w - 1, w * p + a = w * q + b
  PROVE  a = b
<1>1. CASE p < q
  BY <1>1, Larger
<1>2. CASE q < p
  BY <1>2, Larger
<1>3. CASE p = q
  BY <1>3
<1> QED
  BY <1>1, <1>2, <1>3

LEMMA RemainderIs ==
  ASSUME NEW w \in Nat \ {0}, NEW x \in Int, NEW q \in Int, NEW a \in 0 .. w - 1,
         x = w * q + a
  PROVE  x % w = a
<1>1. PICK p \in Int : x = w * p + (x % w)
  BY ModIs
<1>2. x % w \in 0 .. w - 1
  BY ModIs
<1> DEFINE r == x % w
<1> HIDE DEF r
<1> QED
  BY <1>1, <1>2, OneRemainder DEF r

\* The difference of two readings of a counter that wraps.
LEMMA WrappedDifference ==
  ASSUME NEW w \in Nat \ {0}, NEW x \in Int, NEW d \in Int
  PROVE  ((x % w) - ((x - d) % w)) % w = d % w
<1> DEFINE r == x % w
           s == (x - d) % w
           t == d % w
<1>1. PICK p \in Int : x = w * p + r
  BY ModIs
<1>2. PICK q \in Int : x - d = w * q + s
  <2>1. x - d \in Int
    OBVIOUS
  <2> DEFINE y == x - d
  <2> HIDE DEF y
  <2>2. y \in Int => \E q \in Int : y = w * q + (y % w)
    BY ModIs
  <2> QED
    BY <2>1, <2>2 DEF y
<1>3. PICK k \in Int : d = w * k + t
  BY ModIs
<1>4. r \in Int /\ s \in Int /\ t \in 0 .. w - 1
  OBVIOUS
<1> HIDE DEF r, s, t
<1>5. r - s = w * (k + q - p) + t
  <2>1. r - s = d - (w * p - w * q)
    BY <1>1, <1>2, <1>4
  <2>2. w * (k + q - p) = w * k + w * q - w * p
    OBVIOUS
  <2> QED
    BY <1>3, <1>4, <2>1, <2>2
<1>6. (r - s) % w = t
  <2>1. r - s \in Int /\ k + q - p \in Int
    BY <1>4
  <2> QED
    BY <1>4, <1>5, <2>1, RemainderIs
<1> QED
  BY <1>6 DEF r, s, t

LEMMA SmallRemainder ==
  ASSUME NEW w \in Nat \ {0}, NEW d \in Int
  PROVE  /\ d \in 0 .. w - 1 => d % w = d
         /\ d \in - w .. -1 => d % w = w + d
         /\ d >= 0 => d % w <= d
<1>1. ASSUME d \in 0 .. w - 1 PROVE d % w = d
  <2>1. d = w * 0 + d
    OBVIOUS
  <2> QED
    BY <1>1, <2>1, RemainderIs
<1>2. ASSUME d \in - w .. -1 PROVE d % w = w + d
  <2>1. d = w * (-1) + (w + d) /\ w + d \in 0 .. w - 1
    BY <1>2
  <2> QED
    BY <2>1, RemainderIs
<1>3. ASSUME d >= 0 PROVE d % w <= d
  <2>1. CASE d < w
    BY <1>1, <1>3, <2>1
  <2>2. CASE d >= w
    BY <2>2, ModIs
  <2> QED
    BY <2>1, <2>2
<1> QED
  BY <1>1, <1>2, <1>3

\* The clock has moved by d, which is negative after it was put back, since the last call.
Moved(d) ==
  /\ d \in Int /\ d <= gap /\ - (WRAP \div 4) <= d
  /\ uiWas = (counter - d) % WRAP

\* What a call adds is never more than the clock has moved, and just that when it was called
\* often enough.
LEMMA DeltaIs ==
  ASSUME TickCountAssumption, counter \in Nat, gap \in Nat, NEW d, Moved(d)
  PROVE  /\ Delta(counter % WRAP) \in Nat
         /\ Delta(counter % WRAP) <= gap
         /\ d \in 0 .. MAX_DELTA => Delta(counter % WRAP) = d
<1>1. /\ WRAP \in Nat \ {0} /\ MAX_DELTA \in Nat /\ MAX_DELTA <= WRAP \div 2 /\ WRAP % 2 = 0
      /\ d \in Int /\ d <= gap /\ - (WRAP \div 4) <= d
  BY DEF TickCountAssumption, Moved
<1>2. ((counter % WRAP) - uiWas) % WRAP = d % WRAP
  <2>1. uiWas = (counter - d) % WRAP
    BY DEF Moved
  <2>2. counter \in Int
    OBVIOUS
  <2> QED
    BY <1>1, <2>1, <2>2, WrappedDifference, Zenon
<1>3. WRAP \div 2 \in Nat /\ WRAP \div 2 < WRAP /\ WRAP \div 4 \in Nat
      /\ WRAP - (WRAP \div 4) > WRAP \div 2
  BY <1>1
<1> DEFINE m == d % WRAP
<1>4. /\ d \in 0 .. WRAP - 1 => m = d
      /\ d \in - WRAP .. -1 => m = WRAP + d
      /\ d >= 0 => m <= d
      /\ m \in 0 .. WRAP - 1
  BY <1>1, SmallRemainder, ModIs
<1>5. Delta(counter % WRAP)
        = IF m > WRAP \div 2 THEN 0 ELSE IF m > MAX_DELTA THEN MAX_DELTA ELSE m
  BY <1>2 DEF Delta
<1> HIDE DEF m
<1>6. d < 0 => m > WRAP \div 2
  BY <1>1, <1>3, <1>4
<1> QED
  BY <1>1, <1>3, <1>4, <1>5, <1>6

\* What the clock has lost: the time until the last call that the count does not have.
Lag == spent - gap - llCurrent

\* Not more than that was lost when a timer was read last, and nothing since its Reset as
\* long as the clock was called often enough.
TimerInv(t) ==
  /\ timer[t].m_ullElapsedTime <= real[t].spent
  /\ timer[t].m_llUpdateTime <= llCurrent
  /\ real[t].from + real[t].spent <= spent
  /\ real[t].from + real[t].spent - timer[t].m_llUpdateTime <= Lag
  /\ ~ real[t].slow => /\ timer[t].m_ullElapsedTime = real[t].spent
                       /\ real[t].from + real[t].spent - timer[t].m_llUpdateTime = Lag

\* The ghosts tell when the clock was put back or not read in time.
Drift(d) ==
  /\ Moved(d)
  /\ ~ putBack => d = gap
  /\ ~ slow => d = gap /\ gap <= MAX_DELTA
  /\ \A t \in Timers : ~ real[t].slow => d = gap /\ gap <= MAX_DELTA

ClockInv ==
  /\ ClockTypeOK /\ spent \in Nat /\ gap \in Nat /\ putBack \in BOOLEAN /\ slow \in BOOLEAN
  /\ real \in [Timers -> [from : Nat, spent : Nat, slow : BOOLEAN]]
  /\ \E d : Drift(d)
  /\ Lag >= 0
  /\ ~ slow => Lag = 0
  /\ \A t \in Timers : TimerInv(t)

LEMMA ClockInvInit == ASSUME TickCountAssumption, ClockInit PROVE ClockInv
<1>1. WRAP \in Nat \ {0} /\ counter \in Nat /\ counter \in 0 .. WRAP - 1 /\ MAX_DELTA \in Nat
      /\ WRAP \div 4 \in Nat
  BY DEF ClockInit, TickCountAssumption
<1>2. Moved(0)
  BY <1>1, SmallRemainder, SMTT(30) DEF ClockInit, Moved
<1>3. ClockTypeOK
  BY <1>1 DEF ClockInit, ClockTypeOK
<1> QED
  <2>1. spent = 0 /\ gap = 0 /\ llCurrent = 0 /\ Lag = 0
    BY DEF ClockInit, Lag
  <2>2. \A t \in Timers : TimerInv(t)
    BY <2>1 DEF ClockInit, TimerInv
  <2>3. 0 <= MAX_DELTA
    BY <1>1
  <2>4. real \in [Timers -> [from : Nat, spent : Nat, slow : BOOLEAN]]
    BY DEF ClockInit
  <2>5. Drift(0)
    BY <1>2, <2>1, <2>3, Zenon DEF Drift
  <2>6. \E d : Drift(d)
    BY <2>5, Zenon
  <2>7. /\ putBack \in BOOLEAN /\ slow \in BOOLEAN /\ Lag >= 0 /\ (~ slow => Lag = 0)
        /\ spent \in Nat /\ gap \in Nat
    <3>1. putBack \in BOOLEAN /\ slow \in BOOLEAN
      BY DEF ClockInit
    <3> QED
      BY <2>1, <3>1
  <2> QED
    BY <1>3, <2>2, <2>4, <2>6, <2>7, Zenon DEF ClockInv

\* A call: the count grows, what it has lost does not shrink, and it loses nothing when it is
\* called often enough.
LEMMA CallIs ==
  ASSUME TickCountAssumption, ClockInv, GetTickCount64_, AtCall
  PROVE  /\ llCurrent' \in Nat /\ llCurrent' >= llCurrent
         /\ uiWas' \in 0 .. WRAP - 1 /\ ms_llTickCountAdd' = 0 /\ counter' = counter
         /\ spent' \in Nat /\ spent' >= spent /\ gap' = 0 /\ slow' = slow /\ putBack' = putBack
         /\ Moved(0)'
         /\ Lag' >= Lag /\ Lag \in Nat /\ Lag' \in Nat
         /\ \A d : Drift(d) /\ d = gap /\ gap <= MAX_DELTA => Lag' = Lag
<1> DEFINE D == Delta(counter % WRAP)
<1>1. PICK d : Drift(d)
  BY DEF ClockInv
<1>2. /\ counter \in Nat /\ gap \in Nat /\ spent \in Nat /\ llCurrent \in Nat
      /\ ms_llTickCountAdd \in Nat /\ Lag >= 0 /\ WRAP \in Nat \ {0} /\ MAX_DELTA \in Nat
      /\ WRAP \div 4 \in Nat
  BY DEF ClockInv, ClockTypeOK, TickCountAssumption
<1>3. D \in Nat /\ D <= gap
  BY <1>1, <1>2, DeltaIs DEF Drift
<1>4. \A e : Drift(e) /\ e = gap /\ gap <= MAX_DELTA => D = gap
  BY <1>2, DeltaIs DEF Drift
<1>5. /\ llCurrent' = llCurrent + D + ms_llTickCountAdd /\ uiWas' = counter % WRAP
      /\ ms_llTickCountAdd' = 0 /\ spent' = spent + ms_llTickCountAdd /\ gap' = 0
      /\ counter' = counter /\ putBack' = putBack /\ slow' = slow
  BY DEF GetTickCount64_, AtCall
<1> HIDE DEF D
<1>6. uiWas' \in 0 .. WRAP - 1
  BY <1>2, <1>5, ModIs
<1>7. Moved(0)'
  BY <1>2, <1>5 DEF Moved
<1>8. Lag' = Lag + (gap - D) /\ Lag \in Nat
  BY <1>2, <1>3, <1>5 DEF Lag
<1> QED
  BY <1>2, <1>3, <1>4, <1>5, <1>6, <1>7, <1>8

\* After a call the clock has not moved, and a timer that was not read keeps what it shows.
LEMMA CallInv ==
  ASSUME TickCountAssumption, ClockInv, GetTickCount64_, AtCall,
         timer' \in [Timers -> [m_llUpdateTime : Nat, m_ullElapsedTime : Nat]],
         real' \in [Timers -> [from : Nat, spent : Nat, slow : BOOLEAN]],
         \A t \in Timers : TimerInv(t)'
  PROVE  ClockInv'
<1>1. /\ llCurrent' \in Nat /\ uiWas' \in 0 .. WRAP - 1 /\ ms_llTickCountAdd' = 0
      /\ counter' = counter /\ spent' \in Nat /\ gap' = 0 /\ slow' = slow /\ putBack' = putBack
      /\ Moved(0)' /\ Lag' \in Nat
      /\ \A d : Drift(d) /\ d = gap /\ gap <= MAX_DELTA => Lag' = Lag
  BY CallIs
<1>2. MAX_DELTA \in Nat
  BY DEF TickCountAssumption
<1>3. Drift(0)'
  BY <1>1, <1>2 DEF Drift
<1>4. ~ slow => Lag' = 0
  BY <1>1 DEF ClockInv, Drift
<1>5. ClockTypeOK'
  BY <1>1 DEF ClockInv, ClockTypeOK
<1> QED
  BY <1>1, <1>3, <1>4, <1>5 DEF ClockInv

\* A timer that is not read.
LEMMA OtherTimer ==
  ASSUME TickCountAssumption, ClockInv, GetTickCount64_, AtCall, NEW t \in Timers,
         timer'[t] = timer[t], real'[t] = real[t]
  PROVE  TimerInv(t)'
<1>1. /\ llCurrent' \in Nat /\ llCurrent' >= llCurrent /\ spent' \in Nat /\ spent' >= spent
      /\ Lag' >= Lag /\ Lag \in Nat /\ Lag' \in Nat
      /\ \A d : Drift(d) /\ d = gap /\ gap <= MAX_DELTA => Lag' = Lag
  BY CallIs
<1>2. /\ timer[t].m_llUpdateTime \in Nat /\ timer[t].m_ullElapsedTime \in Nat
      /\ real[t].from \in Nat /\ real[t].spent \in Nat /\ llCurrent \in Nat /\ spent \in Nat
      /\ TimerInv(t)
  BY DEF ClockInv, ClockTypeOK
<1>3. ~ real[t].slow => Lag' = Lag
  BY <1>1 DEF ClockInv, Drift
<1> QED
  BY <1>1, <1>2, <1>3 DEF TimerInv

LEMMA NowInv == ASSUME TickCountAssumption, ClockInv, Now PROVE ClockInv'
<1>1. GetTickCount64_ /\ AtCall /\ timer' = timer /\ real' = real
  BY DEF Now
<1>2. \A t \in Timers : TimerInv(t)'
  BY <1>1, OtherTimer
<1> QED
  BY <1>1, <1>2, CallInv DEF ClockInv, ClockTypeOK

LEMMA ResetInv ==
  ASSUME TickCountAssumption, ClockInv, NEW t \in Timers, Reset(t) PROVE ClockInv'
<1>1. /\ GetTickCount64_ /\ AtCall
      /\ timer' = [timer EXCEPT ![t] = [m_llUpdateTime |-> llCurrent', m_ullElapsedTime |-> 0]]
      /\ real' = [real EXCEPT ![t] = [from |-> spent', spent |-> 0, slow |-> FALSE]]
      /\ timer \in [Timers -> [m_llUpdateTime : Nat, m_ullElapsedTime : Nat]]
      /\ real \in [Timers -> [from : Nat, spent : Nat, slow : BOOLEAN]]
  BY DEF Reset, ClockInv, ClockTypeOK
<1>2. llCurrent' \in Nat /\ spent' \in Nat /\ gap' = 0
  BY <1>1, CallIs
<1>3. /\ timer' \in [Timers -> [m_llUpdateTime : Nat, m_ullElapsedTime : Nat]]
      /\ real' \in [Timers -> [from : Nat, spent : Nat, slow : BOOLEAN]]
  BY <1>1, <1>2
<1>4. TimerInv(t)'
  <2>1. /\ timer'[t].m_llUpdateTime = llCurrent' /\ timer'[t].m_ullElapsedTime = 0
        /\ real'[t].from = spent' /\ real'[t].spent = 0
    BY <1>1
  <2> QED
    BY <1>2, <2>1 DEF TimerInv, Lag
<1>5. ASSUME NEW u \in Timers, u # t PROVE TimerInv(u)'
  BY <1>1, <1>5, OtherTimer
<1> QED
  BY <1>1, <1>3, <1>4, <1>5, CallInv

\* A timer shows no more than what has gone by since its Reset.
LEMMA ShownAtMost ==
  ASSUME NEW shown \in Nat, NEW more \in Nat, NEW gone \in Nat, NEW start \in Nat,
         NEW up \in Nat, NEW now \in Nat, NEW all \in Nat, NEW lag \in Nat,
         shown <= gone, start + (gone - up) <= lag, lag <= all - now, more <= now - up
  PROVE  shown + more <= all - start
OBVIOUS

LEMMA ShownExactly ==
  ASSUME NEW shown \in Nat, NEW more \in Nat, NEW gone \in Nat, NEW start \in Nat,
         NEW up \in Nat, NEW now \in Nat, NEW all \in Nat, NEW lag \in Nat,
         shown = gone, start + (gone - up) = lag, lag = all - now, more = now - up
  PROVE  shown + more = all - start
OBVIOUS

LEMMA GetInv ==
  ASSUME TickCountAssumption, ClockInv, NEW t \in Timers, Get(t)
  PROVE  ClockInv' /\ timer'[t].m_ullElapsedTime >= timer[t].m_ullElapsedTime
                   /\ \A u \in Timers \ {t} : timer'[u] = timer[u]
<1> DEFINE passed == llCurrent' - timer[t].m_llUpdateTime
           more == Clamp(0, passed, MaxIncrement)
<1>1. /\ GetTickCount64_ /\ AtCall
      /\ timer' = [timer EXCEPT ![t] =
                     [m_llUpdateTime |-> llCurrent',
                      m_ullElapsedTime |-> timer[t].m_ullElapsedTime + more]]
      /\ real' = [real EXCEPT ![t].spent = spent' - real[t].from,
                              ![t].slow = @ \/ passed > MaxIncrement]
      /\ timer \in [Timers -> [m_llUpdateTime : Nat, m_ullElapsedTime : Nat]]
      /\ real \in [Timers -> [from : Nat, spent : Nat, slow : BOOLEAN]]
  BY DEF Get, Measured, ClockInv, ClockTypeOK
<1>2. /\ llCurrent' \in Nat /\ llCurrent' >= llCurrent /\ spent' \in Nat /\ spent' >= spent
      /\ gap' = 0 /\ Lag' >= Lag /\ Lag \in Nat /\ Lag' \in Nat
  BY <1>1, CallIs
<1>3. /\ timer[t].m_llUpdateTime \in Nat /\ timer[t].m_ullElapsedTime \in Nat
      /\ real[t].from \in Nat /\ real[t].spent \in Nat /\ llCurrent \in Nat /\ spent \in Nat
      /\ TimerInv(t) /\ MaxIncrement \in Nat
  BY DEF ClockInv, ClockTypeOK, TickCountAssumption
<1>4. ~ real[t].slow => Lag' = Lag
  BY <1>1, CallIs DEF ClockInv, Drift
<1>5. passed \in Nat
  BY <1>2, <1>3 DEF TimerInv
<1>6. more \in Nat /\ more <= passed /\ (passed <= MaxIncrement => more = passed)
  BY <1>3, <1>5 DEF Clamp
<1>7. /\ timer'[t].m_llUpdateTime = llCurrent'
      /\ timer'[t].m_ullElapsedTime = timer[t].m_ullElapsedTime + more
      /\ real'[t].from = real[t].from /\ real'[t].spent = spent' - real[t].from
      /\ real'[t].slow = (real[t].slow \/ passed > MaxIncrement)
      /\ \A u \in Timers \ {t} : timer'[u] = timer[u] /\ real'[u] = real[u]
  BY <1>1
<1>8. spent' - real[t].from \in Nat
  BY <1>2, <1>3 DEF TimerInv
<1>9. Lag' = spent' - llCurrent'
  BY <1>2 DEF Lag
<1>10. /\ timer' \in [Timers -> [m_llUpdateTime : Nat, m_ullElapsedTime : Nat]]
       /\ real' \in [Timers -> [from : Nat, spent : Nat, slow : BOOLEAN]]
  <2>1. [m_llUpdateTime |-> llCurrent', m_ullElapsedTime |-> timer[t].m_ullElapsedTime + more]
          \in [m_llUpdateTime : Nat, m_ullElapsedTime : Nat]
    BY <1>2, <1>3, <1>6
  <2> HIDE DEF passed, more
  <2> QED
    BY <1>1, <1>8, <2>1
<1> HIDE DEF more
<1>11. TimerInv(t)'
  <2>1. /\ timer[t].m_ullElapsedTime <= real[t].spent
        /\ real[t].from + real[t].spent <= spent
        /\ real[t].from + real[t].spent - timer[t].m_llUpdateTime <= Lag
        /\ ~ real[t].slow => /\ timer[t].m_ullElapsedTime = real[t].spent
                             /\ real[t].from + real[t].spent - timer[t].m_llUpdateTime = Lag
        /\ real[t].slow \in BOOLEAN
    BY <1>1, <1>3 DEF TimerInv
  <2>2. ~ real'[t].slow => ~ real[t].slow /\ passed <= MaxIncrement
    <3>1. ~ real'[t].slow => ~ real[t].slow /\ ~ (passed > MaxIncrement)
      BY <1>7, Zenon
    <3> HIDE DEF passed
    <3> QED
      BY <1>3, <1>5, <3>1
  <2>3. passed = llCurrent' - timer[t].m_llUpdateTime
    OBVIOUS
  <2>4. spent' - real[t].from \in Nat /\ real[t].from \in Nat /\ spent' \in Nat
    BY <1>2, <1>3, <1>8
  <2>5. real'[t].spent \in Nat /\ timer'[t].m_ullElapsedTime \in Nat
    BY <1>3, <1>6, <1>7, <1>8
  <2> HIDE DEF passed
  <2>6. timer'[t].m_ullElapsedTime <= real'[t].spent
    <3>1. /\ Lag \in Nat /\ timer[t].m_llUpdateTime \in Nat
          /\ timer[t].m_ullElapsedTime \in Nat /\ real[t].from \in Nat /\ real[t].spent \in Nat
          /\ llCurrent' \in Nat /\ spent' \in Nat /\ more \in Nat
      BY <1>2, <1>3, <1>6
    <3>2. more <= llCurrent' - timer[t].m_llUpdateTime /\ Lag <= spent' - llCurrent'
      BY <1>2, <1>6, <1>9, <2>3
    <3>3. timer[t].m_ullElapsedTime + more <= spent' - real[t].from
      BY <2>1, <3>1, <3>2, ShownAtMost
    <3> QED
      BY <1>7, <3>3, Zenon
  <2>7. ASSUME ~ real'[t].slow PROVE timer'[t].m_ullElapsedTime = real'[t].spent
    <3>1. more = passed /\ Lag' = Lag
      BY <1>4, <1>6, <2>2, <2>7
    <3>2. /\ timer[t].m_ullElapsedTime = real[t].spent
          /\ real[t].from + real[t].spent - timer[t].m_llUpdateTime = Lag
      BY <2>1, <2>2, <2>7
    <3>3. /\ Lag \in Nat /\ timer[t].m_llUpdateTime \in Nat
          /\ timer[t].m_ullElapsedTime \in Nat /\ real[t].from \in Nat /\ real[t].spent \in Nat
          /\ llCurrent' \in Nat /\ spent' \in Nat /\ more \in Nat
      BY <1>2, <1>3, <1>6
    <3>4. more = llCurrent' - timer[t].m_llUpdateTime /\ Lag = spent' - llCurrent'
      BY <1>9, <2>3, <3>1, Zenon
    <3>5. timer[t].m_ullElapsedTime + more = spent' - real[t].from
      BY <3>2, <3>3, <3>4, ShownExactly
    <3> QED
      BY <1>7, <3>5, Zenon
  <2>8. real'[t].from + real'[t].spent = spent'
    BY <1>7, <2>4
  <2>9. timer'[t].m_llUpdateTime = llCurrent'
    BY <1>7
  <2> QED
    <3>1. /\ timer'[t].m_llUpdateTime <= llCurrent'
          /\ real'[t].from + real'[t].spent <= spent'
          /\ real'[t].from + real'[t].spent - timer'[t].m_llUpdateTime = Lag'
          /\ real'[t].from + real'[t].spent - timer'[t].m_llUpdateTime <= Lag'
      <4>1. real'[t].from \in Nat
        BY <1>3, <1>7
      <4> QED
        BY <1>2, <1>3, <1>9, <2>4, <2>5, <2>8, <2>9, <4>1
    <3> QED
      BY <2>6, <2>7, <3>1, Zenon DEF TimerInv
<1> HIDE DEF passed
<1>12. ASSUME NEW u \in Timers, u # t PROVE TimerInv(u)'
  BY <1>1, <1>7, <1>12, OtherTimer
<1>13. ClockInv'
  BY <1>1, <1>10, <1>11, <1>12, CallInv
<1> QED
  BY <1>3, <1>6, <1>7, <1>13

LEMMA AddInv ==
  ASSUME TickCountAssumption, ClockInv, NEW add \in Adds, AddTickCount(add) PROVE ClockInv'
<1>1. /\ ms_llTickCountAdd' = add
      /\ UNCHANGED <<counter, llCurrent, uiWas, timer, spent, gap, putBack, slow, real>>
  BY DEF AddTickCount
<1>2. ClockTypeOK'
  BY <1>1 DEF ClockInv, ClockTypeOK
<1>3. \A d : Drift(d)' <=> Drift(d)
  BY <1>1 DEF Drift, Moved
<1>4. Lag' = Lag /\ \A t \in Timers : TimerInv(t)' <=> TimerInv(t)
  BY <1>1 DEF Lag, TimerInv
<1> QED
  BY <1>1, <1>2, <1>3, <1>4 DEF ClockInv

LEMMA TimeInv ==
  ASSUME TickCountAssumption, ClockInv, NEW d \in Advances, TimePasses(d) PROVE ClockInv'
<1>1. /\ counter' = counter + d /\ spent' = spent + d /\ gap' = gap + d
      /\ slow' = (slow \/ gap + d > MAX_DELTA)
      /\ real' = [t \in Timers |-> IF gap + d > MAX_DELTA THEN Lost(t) ELSE real[t]]
      /\ UNCHANGED <<llCurrent, uiWas, ms_llTickCountAdd, timer, putBack>>
  BY DEF TimePasses
<1>2. /\ d \in Nat /\ counter \in Nat /\ gap \in Nat /\ spent \in Nat /\ llCurrent \in Nat
      /\ MAX_DELTA \in Nat /\ WRAP \in Nat \ {0} /\ WRAP \div 4 \in Nat
  BY DEF ClockInv, ClockTypeOK, TickCountAssumption
<1>3. real \in [Timers -> [from : Nat, spent : Nat, slow : BOOLEAN]]
  BY DEF ClockInv
<1>4. /\ real' \in [Timers -> [from : Nat, spent : Nat, slow : BOOLEAN]]
      /\ \A t \in Timers : /\ real'[t].from = real[t].from /\ real'[t].spent = real[t].spent
                           /\ ~ real'[t].slow => ~ real[t].slow /\ gap' <= MAX_DELTA
  <2>1. CASE gap + d > MAX_DELTA
    <3>1. real' = [t \in Timers |-> Lost(t)]
      BY <1>1, <2>1
    <3> QED
      BY <1>3, <3>1 DEF Lost
  <2>2. CASE ~ (gap + d > MAX_DELTA)
    <3>1. real' = [t \in Timers |-> real[t]]
      BY <1>1, <2>2
    <3>2. gap' <= MAX_DELTA
      BY <1>1, <1>2, <2>2
    <3> QED
      BY <1>3, <3>1, <3>2
  <2> QED
    BY <2>1, <2>2
<1>5. PICK m : Drift(m)
  BY DEF ClockInv
<1>6. Moved(m + d)'
  <2>1. m \in Int /\ counter' - (m + d) = counter - m
    BY <1>1, <1>2, <1>5 DEF Drift, Moved
  <2>2. (counter' - (m + d)) % WRAP = (counter - m) % WRAP
    BY <2>1
  <2> QED
    BY <1>1, <1>2, <1>5, <2>1, <2>2 DEF Drift, Moved
<1>7. Drift(m + d)'
  <2>1. m \in Int
    BY <1>5 DEF Drift, Moved
  <2>2. ~ slow' => ~ slow /\ gap' <= MAX_DELTA
    <3>1. ~ slow' => ~ slow /\ ~ (gap + d > MAX_DELTA)
      BY <1>1, Zenon
    <3> QED
      BY <1>1, <1>2, <3>1
  <2>3. m = gap => m + d = gap'
    BY <1>1
  <2>4. \A t \in Timers : ~ real'[t].slow => m + d = gap' /\ gap' <= MAX_DELTA
    BY <1>4, <1>5, <2>3 DEF Drift
  <2>5. ~ putBack' => m + d = gap'
    BY <1>1, <1>5, <2>3 DEF Drift
  <2>6. ~ slow' => m + d = gap' /\ gap' <= MAX_DELTA
    BY <1>5, <2>2, <2>3 DEF Drift
  <2> QED
    BY <1>6, <2>4, <2>5, <2>6, Zenon DEF Drift
<1>8. Lag' = Lag
  BY <1>1, <1>2 DEF Lag
<1>9. ASSUME NEW t \in Timers PROVE TimerInv(t)'
  <2>1. /\ TimerInv(t) /\ real[t].from \in Nat /\ real[t].spent \in Nat
    BY DEF ClockInv
  <2> QED
    BY <1>1, <1>2, <1>4, <1>8, <2>1 DEF TimerInv
<1>10. ClockTypeOK'
  BY <1>1, <1>2 DEF ClockInv, ClockTypeOK
<1>11. slow' \in BOOLEAN /\ putBack' \in BOOLEAN /\ spent' \in Nat /\ gap' \in Nat
  BY <1>1, <1>2 DEF ClockInv
<1> QED
  BY <1>1, <1>4, <1>7, <1>8, <1>9, <1>10, <1>11 DEF ClockInv

LEMMA PutBackInv ==
  ASSUME TickCountAssumption, ClockInv, NEW b \in StepsBack, PutBack(b) PROVE ClockInv'
<1>1. /\ ~ putBack /\ b <= counter /\ counter' = counter - b /\ putBack' = TRUE /\ slow' = TRUE
      /\ real' = [t \in Timers |-> Lost(t)]
      /\ UNCHANGED <<llCurrent, uiWas, ms_llTickCountAdd, timer, spent, gap>>
  BY DEF PutBack
<1>2. /\ b \in Nat /\ b <= WRAP \div 4 /\ counter \in Nat /\ gap \in Nat /\ WRAP \div 4 \in Nat
  BY DEF ClockInv, ClockTypeOK, TickCountAssumption
<1>3. real \in [Timers -> [from : Nat, spent : Nat, slow : BOOLEAN]]
  BY DEF ClockInv
<1>4. /\ real' \in [Timers -> [from : Nat, spent : Nat, slow : BOOLEAN]]
      /\ \A t \in Timers : /\ real'[t].from = real[t].from /\ real'[t].spent = real[t].spent
                           /\ real'[t].slow
  BY <1>1, <1>3 DEF Lost
<1>5. Drift(gap)
  BY <1>1 DEF ClockInv, Drift
<1>6. Moved(gap - b)'
  <2>1. counter' - (gap - b) = counter - gap
    BY <1>1, <1>2
  <2>2. (counter' - (gap - b)) % WRAP = (counter - gap) % WRAP
    BY <2>1
  <2> QED
    BY <1>1, <1>2, <1>5, <2>2 DEF Drift, Moved
<1>7. Drift(gap - b)'
  BY <1>1, <1>4, <1>6 DEF Drift
<1>8. Lag' = Lag
  BY <1>1 DEF Lag
<1>9. ASSUME NEW t \in Timers PROVE TimerInv(t)'
  <2>1. TimerInv(t)
    BY DEF ClockInv
  <2> QED
    BY <1>1, <1>4, <1>8, <2>1 DEF TimerInv
<1>10. ClockTypeOK'
  BY <1>1, <1>2 DEF ClockInv, ClockTypeOK
<1> QED
  BY <1>1, <1>4, <1>7, <1>8, <1>9, <1>10 DEF ClockInv

LEMMA ClockInvNext ==
  ASSUME TickCountAssumption, ClockInv, [ClockNext]_clockVars PROVE ClockInv'
<1>1. CASE UNCHANGED clockVars
  <2>1. UNCHANGED <<counter, llCurrent, uiWas, ms_llTickCountAdd, timer, spent, gap, putBack,
                    slow, real>>
    BY <1>1 DEF clockVars
  <2>2. ClockTypeOK'
    BY <2>1 DEF ClockInv, ClockTypeOK
  <2>3. \A d : Drift(d)' <=> Drift(d)
    BY <2>1 DEF Drift, Moved
  <2>4. Lag' = Lag /\ \A t \in Timers : TimerInv(t)' <=> TimerInv(t)
    BY <2>1 DEF Lag, TimerInv
  <2> QED
    BY <2>1, <2>2, <2>3, <2>4 DEF ClockInv
<1> QED
  BY <1>1, AddInv, NowInv, ResetInv, GetInv, TimeInv, PutBackInv DEF ClockNext

\* Neither the count nor a timer goes back.
LEMMA NeverBackStep ==
  ASSUME TickCountAssumption, ClockInv, [ClockNext]_clockVars
  PROVE  /\ llCurrent' >= llCurrent
         /\ \A t \in Timers : \/ timer'[t].m_ullElapsedTime >= timer[t].m_ullElapsedTime
                              \/ real'[t].spent = 0
<1>1. /\ llCurrent \in Nat /\ timer \in [Timers -> [m_llUpdateTime : Nat, m_ullElapsedTime : Nat]]
      /\ real \in [Timers -> [from : Nat, spent : Nat, slow : BOOLEAN]]
  BY DEF ClockInv, ClockTypeOK
<1>2. \A t \in Timers : timer[t].m_ullElapsedTime \in Nat
  BY <1>1
<1>3. CASE llCurrent' = llCurrent /\ timer' = timer
  BY <1>1, <1>2, <1>3
<1>4. CASE Now
  BY <1>2, <1>4, CallIs DEF Now
<1>5. ASSUME NEW t \in Timers, Reset(t)
      PROVE  /\ llCurrent' >= llCurrent
             /\ \A u \in Timers : \/ timer'[u].m_ullElapsedTime >= timer[u].m_ullElapsedTime
                                  \/ real'[u].spent = 0
  <2>1. llCurrent' >= llCurrent
    BY <1>5, CallIs DEF Reset
  <2>2. real'[t].spent = 0 /\ \A u \in Timers \ {t} : timer'[u] = timer[u]
    BY <1>1, <1>5 DEF Reset
  <2> QED
    BY <1>2, <2>1, <2>2
<1>6. ASSUME NEW t \in Timers, Get(t)
      PROVE  /\ llCurrent' >= llCurrent
             /\ \A u \in Timers : timer'[u].m_ullElapsedTime >= timer[u].m_ullElapsedTime
  <2>1. llCurrent' >= llCurrent
    BY <1>6, CallIs DEF Get
  <2> QED
    BY <1>2, <1>6, <2>1, GetInv
<1> QED
  BY <1>3, <1>4, <1>5, <1>6 DEF ClockNext, clockVars, AddTickCount, TimePasses, PutBack

(***************************************************************************)
(* As long as it is called often enough GetTickCount64_ counts the time    *)
(* that went by, across every wrap of the system counter; however late it  *)
(* is called and however the wall clock is put back it is never ahead and  *)
(* never goes back; and a CElapsedTime shows no more than the time since   *)
(* its Reset (SharedUtil.Time.hpp).                                        *)
(***************************************************************************)
THEOREM ClockStaysExact == ASSUME TickCountAssumption PROVE ClockSpec => ClockExact
<1>1. ClockInv /\ [ClockNext]_clockVars => ClockInv'
  BY ClockInvNext
<1>2. ClockInv => ClockTypeOK /\ CountExact /\ NeverAhead /\ TimersExact
  <2> SUFFICES ASSUME ClockInv PROVE ClockTypeOK /\ CountExact /\ NeverAhead /\ TimersExact
    OBVIOUS
  <2>1. spent \in Nat /\ gap \in Nat /\ llCurrent \in Nat /\ ClockTypeOK
    BY DEF ClockInv, ClockTypeOK
  <2>2. CountExact
    BY <2>1 DEF ClockInv, CountExact, Lag
  <2>3. NeverAhead
    BY <2>1 DEF ClockInv, NeverAhead, Lag
  <2>4. ASSUME NEW t \in Timers
        PROVE  /\ timer[t].m_ullElapsedTime <= real[t].spent
               /\ ~ real[t].slow => timer[t].m_ullElapsedTime >= real[t].spent
    <3>1. TimerInv(t) /\ real[t].spent \in Nat
      BY DEF ClockInv
    <3> QED
      BY <3>1 DEF TimerInv
  <2> QED
    BY <2>1, <2>2, <2>3, <2>4 DEF TimersExact
<1> DEFINE Back == /\ llCurrent' >= llCurrent
                   /\ \A t \in Timers :
                        \/ timer'[t].m_ullElapsedTime >= timer[t].m_ullElapsedTime
                        \/ real'[t].spent = 0
<1>3. ClockInv /\ [ClockNext]_clockVars => Back
  BY NeverBackStep
<1>4. ClockSpec => []ClockInv
  BY <1>1, ClockInvInit, PTL DEF ClockSpec
<1>5. ClockSpec => [][Back]_clockVars
  BY <1>3, <1>4, PTL DEF ClockSpec
<1> QED
  BY <1>2, <1>4, <1>5, PTL DEF ClockExact, NeverBack

(***************************************************************************)
(* The value between threads, for any slots, readers and values, as long   *)
(* as the writer does not come round to the slot a reader copies.          *)
(***************************************************************************)

SlotAfter(i) == IF i = BUFFER_SIZE - 1 THEN 0 ELSE i + 1

\* How many slots ahead of i the last published one is.
Ahead(i) == IF i <= m_ucLastWrittenIndex THEN m_ucLastWrittenIndex - i
            ELSE (m_ucLastWrittenIndex - i) + BUFFER_SIZE

Busy == IF writer.step = "idle" THEN 0 ELSE 1

\* The value published last.
Latest == IF writer.step = "idle" THEN Values[writer.set] ELSE Values[writer.set - 1]

WriterSteps == {"idle", "A1", "A2", "B1", "B2", "publish"}
ReaderSteps == {"idle", "index", "A1", "A2", "B1", "B2", "compare", "return"}
Frames == [step : ReaderSteps, index : Buffers, a : AnyPair, b : AnyPair, result : Pairs]

ValueTyped ==
  /\ A \in [Buffers -> AnyPair] /\ B \in [Buffers -> AnyPair]
  /\ m_ucLastWrittenIndex \in Buffers
  /\ writer \in [step : WriterSteps, at : Buffers, set : DOMAIN Values]
  /\ reader \in [Readers -> Frames]
  /\ lead \in [Readers -> 0 .. MaxLead]
  /\ allowed \in [Readers -> SUBSET Pairs]

\* The slot published last holds the last value, the next one what was written so far.
WriterInv ==
  /\ A[m_ucLastWrittenIndex] = Latest /\ B[m_ucLastWrittenIndex] = Latest
  /\ writer.step # "idle" => writer.set > 1 /\ writer.at = SlotAfter(m_ucLastWrittenIndex)
  /\ writer.step \in {"A2", "B1", "B2", "publish"} => A[writer.at][1] = Setting[1]
  /\ writer.step \in {"B1", "B2", "publish"} => A[writer.at][2] = Setting[2]
  /\ writer.step \in {"B2", "publish"} => B[writer.at][1] = Setting[1]
  /\ writer.step = "publish" => B[writer.at][2] = Setting[2]

\* What a call may return is not older than what the calls before it returned.
AnswerInv(r) ==
  /\ Busy <= lead[r] /\ Latest \in allowed[r]
  /\ \A v \in allowed[r] : Position(v) <= Position(Latest)
  /\ reader[r].step = "return" => reader[r].result \in allowed[r]
  /\ reader[r].step # "return" =>
        \A v \in allowed[r] : Position(reader[r].result) <= Position(v)

\* The slot being copied is not written: the writer has not come round to it.
CopyInv(r) ==
  /\ Ahead(reader[r].index) + Busy <= lead[r]
  /\ A[reader[r].index] = B[reader[r].index] /\ A[reader[r].index] \in allowed[r]
  /\ reader[r].step # "A1" => reader[r].a[1] = A[reader[r].index][1]
  /\ reader[r].step \notin {"A1", "A2"} => reader[r].a[2] = A[reader[r].index][2]
  /\ reader[r].step \notin {"A1", "A2", "B1"} => reader[r].b[1] = B[reader[r].index][1]
  /\ reader[r].step = "compare" => reader[r].b[2] = B[reader[r].index][2]

Copying(r) == reader[r].step \in {"A1", "A2", "B1", "B2", "compare"}

ReaderInv(r) ==
  /\ Position(reader[r].result) <= Position(Latest)
  /\ Reading(r) => AnswerInv(r)
  /\ Copying(r) => CopyInv(r)

ValueInv == ValueTyped /\ WriterInv /\ \A r \in Readers : ReaderInv(r)

LEMMA SequenceFacts ==
  ASSUME ResultValueAssumption
  PROVE  /\ BUFFER_SIZE \in Nat /\ BUFFER_SIZE > 1 /\ MaxLead \in Nat /\ MaxLead > 0
         /\ Len(Values) \in Nat /\ DOMAIN Values = 1 .. Len(Values) /\ 1 \in DOMAIN Values
         /\ \A i \in DOMAIN Values : Values[i] \in Pairs
         /\ \A v \in Pairs : \E i \in DOMAIN Values : v = Values[i]
         /\ Pairs \subseteq AnyPair /\ Pairs \subseteq Int \X Int
<1>1. Values \in Seq(Int \X Int) /\ Values # <<>>
  BY DEF ResultValueAssumption
<1>2. Len(Values) \in Nat /\ DOMAIN Values = 1 .. Len(Values) /\ Len(Values) # 0
  BY <1>1
<1>3. \A i \in DOMAIN Values : Values[i] \in Int \X Int
  BY <1>1, <1>2
<1>4. Pairs \subseteq Int \X Int
  BY <1>3 DEF Pairs
<1>5. ASSUME NEW v \in Pairs PROVE v \in AnyPair
  <2>1. PICK x \in Int, y \in Int : v = <<x, y>>
    BY <1>4, <1>5
  <2> QED
    BY <2>1 DEF AnyPair
<1> QED
  BY <1>2, <1>4, <1>5 DEF Pairs, ResultValueAssumption

LEMMA WordSet ==
  ASSUME NEW p \in AnyPair, NEW v \in Pairs, NEW word \in Words, ResultValueAssumption
  PROVE  /\ [p EXCEPT ![word] = v[word]] \in AnyPair
         /\ [p EXCEPT ![word] = v[word]][word] = v[word]
         /\ \A other \in Words \ {word} : [p EXCEPT ![word] = v[word]][other] = p[other]
<1> DEFINE X == {q[1] : q \in Pairs}
           Y == {q[2] : q \in Pairs}
<1>1. v[1] \in X /\ v[2] \in Y
  OBVIOUS
<1>2. p \in X \X Y /\ AnyPair = X \X Y
  BY DEF AnyPair
<1> HIDE DEF X, Y
<1>3. PICK x \in X, y \in Y : p = <<x, y>>
  BY <1>2
<1>4. CASE word = 1
  <2>1. [p EXCEPT ![word] = v[word]] = <<v[1], y>>
    BY <1>3, <1>4
  <2> QED
    BY <1>1, <1>2, <1>3, <1>4, <2>1 DEF Words
<1>5. CASE word = 2
  <2>1. [p EXCEPT ![word] = v[word]] = <<x, v[2]>>
    BY <1>3, <1>5
  <2> QED
    BY <1>1, <1>2, <1>3, <1>5, <2>1 DEF Words
<1> QED
  BY <1>4, <1>5 DEF Words

LEMMA SamePair ==
  ASSUME NEW p \in AnyPair, NEW q \in AnyPair, p[1] = q[1], p[2] = q[2] PROVE p = q
<1> DEFINE X == {q1[1] : q1 \in Pairs}
           Y == {q1[2] : q1 \in Pairs}
<1>1. p \in X \X Y /\ q \in X \X Y
  BY DEF AnyPair
<1> HIDE DEF X, Y
<1> QED
  BY <1>1

\* The place of a value in a growing count.
LEMMA PositionIs ==
  ASSUME ResultValueAssumption, NEW v \in Pairs
  PROVE  Position(v) \in DOMAIN Values /\ Values[Position(v)] = v
<1>1. \E i \in DOMAIN Values : Values[i] = v
  BY SequenceFacts
<1> QED
  BY <1>1 DEF Position

LEMMA PositionsGrow ==
  ASSUME ResultValueAssumption, Growing, NEW i \in DOMAIN Values, NEW j \in DOMAIN Values, i <= j
  PROVE  Position(Values[i]) <= Position(Values[j])
<1>1. /\ DOMAIN Values = 1 .. Len(Values) /\ Len(Values) \in Nat
      /\ Values[i] \in Pairs /\ Values[j] \in Pairs
  BY SequenceFacts
<1> DEFINE p == Position(Values[i])
           q == Position(Values[j])
<1>2. p \in DOMAIN Values /\ Values[p] = Values[i] /\ q \in DOMAIN Values /\ Values[q] = Values[j]
  BY <1>1, PositionIs
<1>3. Values[i] = Values[j] => p = q
  OBVIOUS
<1> HIDE DEF p, q
<1>4. ASSUME p > q PROVE FALSE
  <2>1. CASE q <= i
    BY <1>1, <1>2, <1>3, <1>4, <2>1 DEF Growing
  <2>2. CASE q > i
    BY <1>1, <1>2, <1>3, <1>4, <2>2 DEF Growing
  <2> QED
    BY <1>1, <1>2, <2>1, <2>2
<1> QED
  BY <1>1, <1>2, <1>4 DEF p, q

LEMMA SlotIs ==
  ASSUME ResultValueAssumption, NEW i \in Buffers
  PROVE  (i + 1) % BUFFER_SIZE = SlotAfter(i) /\ SlotAfter(i) \in Buffers /\ SlotAfter(i) # i
<1>1. BUFFER_SIZE \in Nat /\ BUFFER_SIZE > 1 /\ i \in 0 .. BUFFER_SIZE - 1
  BY SequenceFacts DEF Buffers
<1>2. CASE i = BUFFER_SIZE - 1
  <2>1. BUFFER_SIZE % BUFFER_SIZE = 0
    BY <1>1
  <2> QED
    BY <1>1, <1>2, <2>1 DEF SlotAfter, Buffers
<1>3. CASE i # BUFFER_SIZE - 1
  BY <1>1, <1>3 DEF SlotAfter, Buffers
<1> QED
  BY <1>2, <1>3

LEMMA LatestIs ==
  ASSUME ResultValueAssumption, ValueTyped, WriterInv PROVE Latest \in Pairs /\ Setting \in Pairs
<1>1. writer.set \in DOMAIN Values
  BY DEF ValueTyped
<1>2. writer.step # "idle" => writer.set - 1 \in DOMAIN Values
  BY <1>1, SequenceFacts DEF WriterInv
<1> QED
  BY <1>1, <1>2, SequenceFacts DEF Latest, Setting


LEMMA ValueInvInit ==
  ASSUME ResultValueAssumption, ValueInit PROVE ValueInv
<1>1. /\ Start \in Pairs /\ Start \in AnyPair /\ 0 \in Buffers /\ 1 \in DOMAIN Values
      /\ 0 \in 0 .. MaxLead
  BY SequenceFacts DEF Start, Buffers
<1>2. Latest = Start /\ writer.step = "idle"
  BY DEF ValueInit, Latest, Start
<1>3. ValueTyped
  <2>1. writer \in [step : WriterSteps, at : Buffers, set : DOMAIN Values]
    BY <1>1 DEF ValueInit, WriterSteps
  <2>2. Idle \in Frames
    BY <1>1 DEF Idle, Frames, ReaderSteps
  <2> QED
    BY <1>1, <2>1, <2>2 DEF ValueInit, ValueTyped
<1>4. WriterInv
  BY <1>1, <1>2 DEF ValueInit, WriterInv
<1>5. ASSUME NEW r \in Readers PROVE ReaderInv(r)
  <2>1. reader[r] = Idle
    BY DEF ValueInit
  <2>2. reader[r].step = "idle" /\ reader[r].result = Start
    BY <2>1 DEF Idle
  <2>3. Position(Start) <= Position(Start)
    BY <1>1, PositionIs, SequenceFacts
  <2> QED
    BY <1>2, <2>2, <2>3 DEF ReaderInv, Reading, Copying
<1> QED
  BY <1>3, <1>4, <1>5 DEF ValueInv

\* A reader that copies a slot is never at the one the writer writes.
LEMMA NotOverwritten ==
  ASSUME ResultValueAssumption, MaxLead < BUFFER_SIZE, ValueInv, writer.step # "idle"
  PROVE  /\ writer.at \in Buffers /\ writer.at # m_ucLastWrittenIndex
         /\ \A r \in Readers : Copying(r) =>
              /\ reader[r].index # writer.at /\ reader[r].index \in Buffers
<1>1. /\ writer.at = SlotAfter(m_ucLastWrittenIndex) /\ m_ucLastWrittenIndex \in Buffers
      /\ Busy = 1 /\ writer.at \in Buffers
  BY DEF ValueInv, WriterInv, ValueTyped, Busy
<1>2. writer.at # m_ucLastWrittenIndex
  BY <1>1, SlotIs
<1>3. Ahead(writer.at) = BUFFER_SIZE - 1
  BY <1>1, SequenceFacts DEF Ahead, SlotAfter, Buffers
<1>4. ASSUME NEW r \in Readers, Copying(r)
      PROVE  reader[r].index # writer.at /\ reader[r].index \in Buffers
  <2>1. reader[r].index \in Buffers /\ lead[r] \in 0 .. MaxLead
    BY DEF ValueInv, ValueTyped, Frames
  <2>2. Ahead(reader[r].index) + 1 <= lead[r]
    BY <1>1, <1>4 DEF ValueInv, ReaderInv, CopyInv
  <2>3. ASSUME reader[r].index = writer.at PROVE FALSE
    BY <1>3, <2>1, <2>2, <2>3, SequenceFacts
  <2> QED
    BY <2>1, <2>3
<1> QED
  BY <1>1, <1>2, <1>4

\* A write to the slot after the last published one disturbs no reader.
LEMMA WriteKeepsReaders ==
  ASSUME ResultValueAssumption, MaxLead < BUFFER_SIZE, ValueInv, writer.step # "idle",
         Latest' = Latest, Busy' = Busy, m_ucLastWrittenIndex' = m_ucLastWrittenIndex,
         UNCHANGED <<reader, lead, allowed>>,
         \A i \in Buffers : i # writer.at => A'[i] = A[i] /\ B'[i] = B[i]
  PROVE  \A r \in Readers : ReaderInv(r)'
<1> SUFFICES ASSUME NEW r \in Readers PROVE ReaderInv(r)'
  OBVIOUS
<1>1. ReaderInv(r) /\ (Copying(r) => reader[r].index # writer.at /\ reader[r].index \in Buffers)
  BY NotOverwritten DEF ValueInv
<1>2. Position(reader'[r].result) <= Position(Latest')
  BY <1>1 DEF ReaderInv
<1>3. Reading(r)' => AnswerInv(r)'
  BY <1>1 DEF ReaderInv, Reading, AnswerInv
<1>4. Copying(r)' => CopyInv(r)'
  <2>1. Ahead(reader[r].index)' = Ahead(reader[r].index)
    BY DEF Ahead
  <2> QED
    BY <1>1, <2>1 DEF ReaderInv, Copying, CopyInv
<1> QED
  BY <1>2, <1>3, <1>4 DEF ReaderInv

\* A step of one reader is none of another's business.
LEMMA OtherReader ==
  ASSUME ValueInv, UNCHANGED <<A, B, m_ucLastWrittenIndex, writer>>, NEW r \in Readers,
         reader'[r] = reader[r], lead'[r] = lead[r], allowed'[r] = allowed[r]
  PROVE  ReaderInv(r)'
<1>1. Latest' = Latest /\ Busy' = Busy /\ Ahead(reader[r].index)' = Ahead(reader[r].index)
  BY DEF Latest, Busy, Ahead
<1>2. ReaderInv(r)
  BY DEF ValueInv
<1>3. Position(reader'[r].result) <= Position(Latest')
  BY <1>1, <1>2 DEF ReaderInv
<1>4. Reading(r)' => AnswerInv(r)'
  BY <1>1, <1>2 DEF ReaderInv, Reading, AnswerInv
<1>5. Copying(r)' => CopyInv(r)'
  BY <1>1, <1>2 DEF ReaderInv, Copying, CopyInv
<1> QED
  BY <1>3, <1>4, <1>5 DEF ReaderInv


LEMMA AheadIs ==
  ASSUME ResultValueAssumption, ValueTyped, NEW i \in Buffers
  PROVE  Ahead(i) \in Nat /\ Ahead(m_ucLastWrittenIndex) = 0
<1>1. m_ucLastWrittenIndex \in 0 .. BUFFER_SIZE - 1 /\ i \in 0 .. BUFFER_SIZE - 1 /\ BUFFER_SIZE \in Nat
  BY SequenceFacts DEF ValueTyped, Buffers
<1> QED
  BY <1>1 DEF Ahead

LEMMA SetInv == ASSUME ResultValueAssumption, ValueInv, SetValue PROVE ValueInv'
<1> DEFINE m == m_ucLastWrittenIndex
           next == Values[writer.set + 1]
<1>1. /\ writer.step = "idle" /\ writer.set < Len(Values)
      /\ \A r \in Readers : Reading(r) => lead[r] < MaxLead
      /\ IF next = A[m]
         THEN writer' = [writer EXCEPT !.set = @ + 1] /\ lead' = lead
         ELSE /\ writer' = [step |-> "A1", set |-> writer.set + 1, at |-> (m + 1) % BUFFER_SIZE]
              /\ lead' = [r \in Readers |-> IF Reading(r) THEN lead[r] + 1 ELSE lead[r]]
      /\ UNCHANGED <<A, B, m_ucLastWrittenIndex, reader, allowed>>
  BY DEF SetValue
<1>2. /\ m \in Buffers /\ (m + 1) % BUFFER_SIZE = SlotAfter(m) /\ SlotAfter(m) \in Buffers
      /\ writer \in [step : WriterSteps, at : Buffers, set : DOMAIN Values]
      /\ lead \in [Readers -> 0 .. MaxLead] /\ MaxLead \in Nat
      /\ writer.set \in 1 .. Len(Values) /\ Len(Values) \in Nat
      /\ writer.set + 1 \in DOMAIN Values /\ writer.set + 1 > 1 /\ writer.set + 1 - 1 = writer.set
  <2>1. /\ m \in Buffers /\ lead \in [Readers -> 0 .. MaxLead]
        /\ writer \in [step : WriterSteps, at : Buffers, set : DOMAIN Values]
    BY DEF ValueInv, ValueTyped
  <2>2. writer.set \in 1 .. Len(Values) /\ Len(Values) \in Nat /\ MaxLead \in Nat
    BY <2>1, SequenceFacts
  <2>3. writer.set + 1 \in DOMAIN Values
    BY <1>1, <2>2, SequenceFacts
  <2> QED
    BY <2>1, <2>2, <2>3, SlotIs
<1>3. A[m] = Values[writer.set] /\ B[m] = Values[writer.set] /\ Latest = Values[writer.set]
      /\ Busy = 0
  BY <1>1 DEF ValueInv, WriterInv, Latest, Busy
<1>4. CASE next = A[m]
  <2>1. /\ writer'.step = "idle" /\ writer'.at = writer.at /\ writer'.set = writer.set + 1
        /\ writer' \in [step : WriterSteps, at : Buffers, set : DOMAIN Values] /\ lead' = lead
    BY <1>1, <1>2, <1>4
  <2>2. Latest' = Latest /\ Busy' = Busy
    BY <1>3, <1>4, <2>1 DEF Latest, Busy
  <2>3. ValueTyped'
    BY <1>1, <2>1 DEF ValueInv, ValueTyped
  <2>4. WriterInv'
    BY <1>1, <1>3, <2>1, <2>2 DEF WriterInv
  <2>5. ASSUME NEW r \in Readers PROVE ReaderInv(r)'
    <3>1. ReaderInv(r) /\ Ahead(reader[r].index)' = Ahead(reader[r].index)
      BY <1>1 DEF ValueInv, Ahead
    <3>2. Position(reader'[r].result) <= Position(Latest')
      BY <1>1, <2>2, <3>1 DEF ReaderInv
    <3>3. Reading(r)' => AnswerInv(r)'
      BY <1>1, <2>1, <2>2, <3>1 DEF ReaderInv, Reading, AnswerInv
    <3>4. Copying(r)' => CopyInv(r)'
      BY <1>1, <2>1, <2>2, <3>1 DEF ReaderInv, Copying, CopyInv
    <3> QED
      BY <3>2, <3>3, <3>4 DEF ReaderInv
  <2> QED
    BY <2>3, <2>4, <2>5 DEF ValueInv
<1>5. CASE next # A[m]
  <2>1. /\ writer' = [step |-> "A1", set |-> writer.set + 1, at |-> SlotAfter(m)]
        /\ lead' = [r \in Readers |-> IF Reading(r) THEN lead[r] + 1 ELSE lead[r]]
    BY <1>1, <1>2, <1>5
  <2>2. /\ writer'.step = "A1" /\ writer'.at = SlotAfter(m) /\ writer'.set = writer.set + 1
        /\ writer' \in [step : WriterSteps, at : Buffers, set : DOMAIN Values]
    BY <1>2, <2>1 DEF WriterSteps
  <2>3. Latest' = Latest /\ Busy' = 1
    BY <1>2, <1>3, <2>2 DEF Latest, Busy
  <2>4. lead' \in [Readers -> 0 .. MaxLead]
    BY <1>1, <1>2, <2>1
  <2>5. ValueTyped'
    BY <1>1, <2>2, <2>4 DEF ValueInv, ValueTyped
  <2>6. WriterInv'
    BY <1>1, <1>2, <1>3, <2>2, <2>3 DEF WriterInv
  <2>7. ASSUME NEW r \in Readers PROVE ReaderInv(r)'
    <3>1. /\ ReaderInv(r) /\ Ahead(reader[r].index)' = Ahead(reader[r].index)
          /\ reader[r].index \in Buffers
      BY <1>1 DEF ValueInv, ValueTyped, Frames, Ahead
    <3>2. Ahead(reader[r].index) \in Int /\ lead[r] \in Nat
      BY <1>2, <3>1, AheadIs DEF ValueInv
    <3>3. Reading(r) => lead'[r] = lead[r] + 1
      BY <2>1
    <3>4. Copying(r) => Reading(r)
      BY DEF Copying, Reading
    <3>5. Position(reader'[r].result) <= Position(Latest')
      BY <1>1, <2>3, <3>1 DEF ReaderInv
    <3>6. Reading(r) => Busy' <= lead'[r]
      BY <2>3, <3>2, <3>3
    <3>7. Copying(r) => Ahead(reader[r].index)' + Busy' <= lead'[r]
      <4>1. Copying(r) => Ahead(reader[r].index) + 0 <= lead[r]
        BY <1>3, <3>1 DEF ReaderInv, CopyInv
      <4> QED
        BY <2>3, <3>1, <3>2, <3>3, <3>4, <4>1
    <3>8. Reading(r)' => AnswerInv(r)'
      BY <1>1, <2>3, <3>1, <3>6 DEF ReaderInv, Reading, AnswerInv
    <3>9. Copying(r)' => CopyInv(r)'
      BY <1>1, <2>3, <3>1, <3>7 DEF ReaderInv, Copying, CopyInv
    <3> QED
      BY <3>5, <3>8, <3>9 DEF ReaderInv
  <2> QED
    BY <2>5, <2>6, <2>7 DEF ValueInv
<1> QED
  BY <1>4, <1>5

LEMMA WriteAInv ==
  ASSUME ResultValueAssumption, MaxLead < BUFFER_SIZE, ValueInv, NEW word \in Words, WriteA(word)
  PROVE  ValueInv'
<1> DEFINE was == IF word = 1 THEN "A1" ELSE "A2"
           is == IF word = 1 THEN "A2" ELSE "B1"
           pair == [A[writer.at] EXCEPT ![word] = Setting[word]]
<1>1. /\ writer.step = was /\ writer' = [writer EXCEPT !.step = is]
      /\ A' = [A EXCEPT ![writer.at] = pair]
      /\ UNCHANGED <<B, m_ucLastWrittenIndex, reader, lead, allowed>>
  BY DEF WriteA, Writes
<1>2. /\ writer \in [step : WriterSteps, at : Buffers, set : DOMAIN Values]
      /\ A \in [Buffers -> AnyPair] /\ A[writer.at] \in AnyPair /\ writer.at \in Buffers
      /\ Setting \in Pairs /\ m_ucLastWrittenIndex \in Buffers
  BY LatestIs DEF ValueInv, ValueTyped
<1>3. /\ pair \in AnyPair /\ pair[word] = Setting[word]
      /\ \A other \in Words \ {word} : pair[other] = A[writer.at][other]
  BY <1>2, WordSet
<1> HIDE DEF pair
<1>4. /\ writer'.step = is /\ writer'.at = writer.at /\ writer'.set = writer.set
      /\ writer' \in [step : WriterSteps, at : Buffers, set : DOMAIN Values]
  BY <1>1, <1>2 DEF WriterSteps
<1>5. writer.step # "idle" /\ is # "idle"
  BY <1>1
<1>6. writer.at # m_ucLastWrittenIndex
  BY <1>5, NotOverwritten
<1>7. Latest' = Latest /\ Busy' = Busy /\ Setting' = Setting
  BY <1>4, <1>5 DEF Latest, Busy, Setting
<1>8. /\ A' \in [Buffers -> AnyPair] /\ A'[writer.at] = pair
      /\ \A i \in Buffers : i # writer.at => A'[i] = A[i]
  BY <1>1, <1>2, <1>3
<1>9. ValueTyped'
  BY <1>1, <1>4, <1>8 DEF ValueInv, ValueTyped
<1>10. WriterInv'
  <2>1. /\ A'[m_ucLastWrittenIndex] = Latest' /\ B'[m_ucLastWrittenIndex] = Latest'
        /\ writer.set > 1 /\ writer.at = SlotAfter(m_ucLastWrittenIndex)
    BY <1>1, <1>2, <1>5, <1>6, <1>7, <1>8 DEF ValueInv, WriterInv
  <2>2. CASE word = 1
    BY <1>1, <1>3, <1>4, <1>7, <1>8, <2>1, <2>2 DEF WriterInv
  <2>3. CASE word = 2
    <3>1. A[writer.at][1] = Setting[1]
      BY <1>1, <2>3 DEF ValueInv, WriterInv
    <3>2. pair[1] = Setting[1] /\ pair[2] = Setting[2]
      BY <1>3, <2>3, <3>1 DEF Words
    <3> QED
      BY <1>1, <1>4, <1>7, <1>8, <2>1, <2>3, <3>2 DEF WriterInv
  <2> QED
    BY <2>2, <2>3 DEF Words
<1>11. \A r \in Readers : ReaderInv(r)'
  BY <1>1, <1>5, <1>7, <1>8, WriteKeepsReaders
<1> QED
  BY <1>9, <1>10, <1>11 DEF ValueInv

LEMMA WriteBInv ==
  ASSUME ResultValueAssumption, MaxLead < BUFFER_SIZE, ValueInv, NEW word \in Words, WriteB(word)
  PROVE  ValueInv'
<1> DEFINE was == IF word = 1 THEN "B1" ELSE "B2"
           is == IF word = 1 THEN "B2" ELSE "publish"
           pair == [B[writer.at] EXCEPT ![word] = Setting[word]]
<1>1. /\ writer.step = was /\ writer' = [writer EXCEPT !.step = is]
      /\ B' = [B EXCEPT ![writer.at] = pair]
      /\ UNCHANGED <<A, m_ucLastWrittenIndex, reader, lead, allowed>>
  BY DEF WriteB, Writes
<1>2. /\ writer \in [step : WriterSteps, at : Buffers, set : DOMAIN Values]
      /\ B \in [Buffers -> AnyPair] /\ B[writer.at] \in AnyPair /\ writer.at \in Buffers
      /\ Setting \in Pairs /\ m_ucLastWrittenIndex \in Buffers
  BY LatestIs DEF ValueInv, ValueTyped
<1>3. /\ pair \in AnyPair /\ pair[word] = Setting[word]
      /\ \A other \in Words \ {word} : pair[other] = B[writer.at][other]
  BY <1>2, WordSet
<1> HIDE DEF pair
<1>4. /\ writer'.step = is /\ writer'.at = writer.at /\ writer'.set = writer.set
      /\ writer' \in [step : WriterSteps, at : Buffers, set : DOMAIN Values]
  BY <1>1, <1>2 DEF WriterSteps
<1>5. writer.step # "idle" /\ is # "idle"
  BY <1>1
<1>6. writer.at # m_ucLastWrittenIndex
  BY <1>5, NotOverwritten
<1>7. Latest' = Latest /\ Busy' = Busy /\ Setting' = Setting
  BY <1>4, <1>5 DEF Latest, Busy, Setting
<1>8. /\ B' \in [Buffers -> AnyPair] /\ B'[writer.at] = pair
      /\ \A i \in Buffers : i # writer.at => B'[i] = B[i]
  BY <1>1, <1>2, <1>3
<1>9. ValueTyped'
  BY <1>1, <1>4, <1>8 DEF ValueInv, ValueTyped
<1>10. WriterInv'
  <2>1. /\ A'[m_ucLastWrittenIndex] = Latest' /\ B'[m_ucLastWrittenIndex] = Latest'
        /\ writer.set > 1 /\ writer.at = SlotAfter(m_ucLastWrittenIndex)
        /\ A[writer.at][1] = Setting[1] /\ A[writer.at][2] = Setting[2]
    BY <1>1, <1>2, <1>5, <1>6, <1>7, <1>8 DEF ValueInv, WriterInv
  <2>2. CASE word = 1
    BY <1>1, <1>3, <1>4, <1>7, <1>8, <2>1, <2>2 DEF WriterInv
  <2>3. CASE word = 2
    <3>1. B[writer.at][1] = Setting[1]
      BY <1>1, <2>3 DEF ValueInv, WriterInv
    <3>2. pair[1] = Setting[1] /\ pair[2] = Setting[2]
      BY <1>3, <2>3, <3>1 DEF Words
    <3> QED
      BY <1>1, <1>4, <1>7, <1>8, <2>1, <2>3, <3>2 DEF WriterInv
  <2> QED
    BY <2>2, <2>3 DEF Words
<1>11. \A r \in Readers : ReaderInv(r)'
  BY <1>1, <1>5, <1>7, <1>8, WriteKeepsReaders
<1> QED
  BY <1>9, <1>10, <1>11 DEF ValueInv


LEMMA PublishInv ==
  ASSUME ResultValueAssumption, MaxLead < BUFFER_SIZE, Growing, ValueInv, Publish
  PROVE  ValueInv'
<1> DEFINE m == m_ucLastWrittenIndex
<1>1. /\ writer.step = "publish" /\ writer' = [writer EXCEPT !.step = "idle"]
      /\ m_ucLastWrittenIndex' = writer.at
      /\ allowed' = [r \in Readers |-> IF Reading(r) THEN allowed[r] \cup {Setting} ELSE allowed[r]]
      /\ UNCHANGED <<A, B, reader, lead>>
  BY DEF Publish, Writes
<1>2. /\ writer \in [step : WriterSteps, at : Buffers, set : DOMAIN Values]
      /\ Setting \in Pairs /\ Latest \in Pairs /\ m \in Buffers /\ writer.at \in Buffers
      /\ A \in [Buffers -> AnyPair] /\ B \in [Buffers -> AnyPair]
      /\ allowed \in [Readers -> SUBSET Pairs] /\ writer.set > 1 /\ writer.at = SlotAfter(m)
      /\ A[writer.at][1] = Setting[1] /\ A[writer.at][2] = Setting[2]
      /\ B[writer.at][1] = Setting[1] /\ B[writer.at][2] = Setting[2]
  <2>1. Setting \in Pairs /\ Latest \in Pairs
    BY LatestIs DEF ValueInv
  <2>2. /\ writer.set > 1 /\ writer.at = SlotAfter(m)
        /\ A[writer.at][1] = Setting[1] /\ A[writer.at][2] = Setting[2]
        /\ B[writer.at][1] = Setting[1] /\ B[writer.at][2] = Setting[2]
    BY <1>1 DEF ValueInv, WriterInv
  <2>3. writer \in [step : WriterSteps, at : Buffers, set : DOMAIN Values]
    BY DEF ValueInv, ValueTyped
  <2>4. /\ A \in [Buffers -> AnyPair] /\ B \in [Buffers -> AnyPair]
        /\ allowed \in [Readers -> SUBSET Pairs] /\ m \in Buffers
    BY DEF ValueInv, ValueTyped
  <2>5. writer.at \in Buffers
    BY <2>3
  <2> QED
    BY <2>1, <2>2, <2>3, <2>4, <2>5
<1>3. /\ writer'.step = "idle" /\ writer'.at = writer.at /\ writer'.set = writer.set
      /\ writer' \in [step : WriterSteps, at : Buffers, set : DOMAIN Values]
  BY <1>1, <1>2 DEF WriterSteps
<1>4. Latest = Values[writer.set - 1] /\ Latest' = Setting /\ Busy = 1 /\ Busy' = 0
  BY <1>1, <1>3 DEF Latest, Setting, Busy
<1>5. Position(Latest) <= Position(Setting)
  <2>1. writer.set - 1 \in DOMAIN Values /\ writer.set \in DOMAIN Values /\ writer.set - 1 <= writer.set
    BY <1>2, SequenceFacts, SMTT(30)
  <2> QED
    BY <1>4, <2>1, PositionsGrow DEF Setting
<1>6. A[writer.at] = Setting /\ B[writer.at] = Setting
  <2>1. A[writer.at] \in AnyPair /\ B[writer.at] \in AnyPair /\ Setting \in AnyPair
    BY <1>2, SequenceFacts
  <2> QED
    BY <1>2, <2>1, SamePair
<1>7. allowed' \in [Readers -> SUBSET Pairs]
  BY <1>1, <1>2
<1>8. ValueTyped'
  BY <1>1, <1>2, <1>3, <1>7 DEF ValueInv, ValueTyped
<1>9. WriterInv'
  BY <1>1, <1>3, <1>4, <1>6 DEF WriterInv
<1>10. ASSUME NEW r \in Readers PROVE ReaderInv(r)'
  <2>1. /\ ReaderInv(r) /\ lead[r] \in Nat /\ reader[r].index \in Buffers
        /\ reader[r].result \in Pairs /\ allowed[r] \subseteq Pairs
    BY DEF ValueInv, ValueTyped, Frames
  <2>2. \A v \in Pairs : Position(v) \in Int
    BY PositionIs, SequenceFacts
  <2>3. Position(reader[r].result) <= Position(Setting)
    BY <1>2, <1>5, <2>1, <2>2 DEF ReaderInv
  <2>4. reader'[r] = reader[r] /\ lead'[r] = lead[r]
    BY <1>1
  <2>5. ASSUME Reading(r) PROVE AnswerInv(r)'
    <3>1. allowed'[r] = allowed[r] \cup {Setting} /\ AnswerInv(r)
      BY <1>1, <2>1, <2>5 DEF ReaderInv
    <3>2. \A v \in allowed'[r] : Position(v) <= Position(Setting)
      <4>1. ASSUME NEW v \in allowed[r] PROVE Position(v) <= Position(Setting)
        <5>1. Position(v) <= Position(Latest)
          BY <3>1 DEF AnswerInv
        <5> QED
          BY <1>2, <1>5, <2>1, <2>2, <5>1
      <4>2. Position(Setting) <= Position(Setting)
        BY <1>2, <2>2
      <4> QED
        BY <3>1, <4>1, <4>2
    <3>3. reader[r].step = "return" => reader[r].result \in allowed'[r]
      BY <3>1 DEF AnswerInv
    <3>4. reader[r].step # "return" =>
             \A v \in allowed'[r] : Position(reader[r].result) <= Position(v)
      BY <2>3, <3>1 DEF AnswerInv
    <3> QED
      BY <1>4, <2>1, <2>4, <3>1, <3>2, <3>3, <3>4 DEF AnswerInv
  <2>6. ASSUME Copying(r) PROVE CopyInv(r)'
    <3>1. CopyInv(r) /\ Reading(r)
      BY <2>1, <2>6 DEF ReaderInv, Copying, Reading
    <3>2. reader[r].index # writer.at
      BY <1>1, <2>6, NotOverwritten
    <3>3. Ahead(reader[r].index)' = Ahead(reader[r].index) + 1
      <4>1. /\ m \in 0 .. BUFFER_SIZE - 1 /\ reader[r].index \in 0 .. BUFFER_SIZE - 1
            /\ BUFFER_SIZE \in Nat
        BY <1>2, <2>1, SequenceFacts DEF Buffers
      <4>2. m_ucLastWrittenIndex' = SlotAfter(m) /\ reader[r].index # SlotAfter(m)
        BY <1>1, <1>2, <3>2
      <4>3. reader'[r].index = reader[r].index
        BY <2>4
      <4> QED
        BY <4>1, <4>2, <4>3 DEF Ahead, SlotAfter
    <3>4. Ahead(reader[r].index)' + Busy' <= lead'[r]
      BY <1>4, <2>1, <2>4, <3>1, <3>3, AheadIs DEF CopyInv, ValueInv
    <3>5. allowed[r] \subseteq allowed'[r]
      BY <1>1, <3>1
    <3> QED
      BY <1>1, <2>4, <3>1, <3>4, <3>5 DEF CopyInv
  <2>7. (Reading(r)' => Reading(r)) /\ (Copying(r)' => Copying(r))
    BY <2>4 DEF Reading, Copying
  <2> QED
    BY <1>4, <2>3, <2>4, <2>5, <2>6, <2>7 DEF ReaderInv
<1> QED
  BY <1>8, <1>9, <1>10 DEF ValueInv

LEMMA WriterAlone ==
  ASSUME ValueInv, UNCHANGED <<A, B, m_ucLastWrittenIndex, writer>>,
         reader' \in [Readers -> Frames], lead' \in [Readers -> 0 .. MaxLead],
         allowed' \in [Readers -> SUBSET Pairs]
  PROVE  ValueTyped' /\ WriterInv' /\ Latest' = Latest /\ Busy' = Busy
<1>1. Latest' = Latest /\ Busy' = Busy
  BY DEF Latest, Busy
<1> QED
  BY <1>1 DEF ValueInv, ValueTyped, WriterInv, Setting

LEMMA GetValueInv ==
  ASSUME ResultValueAssumption, ValueInv, NEW r \in Readers, GetValue(r) PROVE ValueInv'
<1>1. /\ reader[r].step = "idle" /\ reader' = [reader EXCEPT ![r] = [reader[r] EXCEPT !.step = "index"]]
      /\ lead' = [lead EXCEPT ![r] = IF writer.step = "idle" THEN 0 ELSE 1]
      /\ allowed' = [allowed EXCEPT ![r] = {A[m_ucLastWrittenIndex]}]
      /\ UNCHANGED <<A, B, m_ucLastWrittenIndex, writer>>
  BY DEF GetValue, Goes, Only
<1>2. /\ reader \in [Readers -> Frames] /\ lead \in [Readers -> 0 .. MaxLead]
      /\ allowed \in [Readers -> SUBSET Pairs] /\ A[m_ucLastWrittenIndex] = Latest
      /\ Latest \in Pairs /\ ReaderInv(r) /\ reader[r] \in Frames
      /\ \A v \in Pairs : Position(v) \in Int
  BY LatestIs, PositionIs, SequenceFacts, SMTT(30) DEF ValueInv, ValueTyped, WriterInv
<1>3. /\ reader' \in [Readers -> Frames] /\ lead' \in [Readers -> 0 .. MaxLead]
      /\ allowed' \in [Readers -> SUBSET Pairs]
  <2>1. [reader[r] EXCEPT !.step = "index"] \in Frames
    BY <1>2 DEF Frames, ReaderSteps
  <2>2. (IF writer.step = "idle" THEN 0 ELSE 1) \in 0 .. MaxLead
    BY SequenceFacts
  <2> QED
    BY <1>1, <1>2, <2>1, <2>2
<1>4. /\ reader'[r].step = "index" /\ reader'[r].result = reader[r].result
      /\ lead'[r] = Busy /\ allowed'[r] = {Latest}
  BY <1>1, <1>2 DEF Busy, Frames
<1>5. ValueTyped' /\ WriterInv' /\ Latest' = Latest /\ Busy' = Busy
  BY <1>1, <1>3, WriterAlone
<1>6. ReaderInv(r)'
  <2>1. Busy <= Busy /\ Position(Latest) <= Position(Latest)
    BY <1>2 DEF Busy
  <2>2. AnswerInv(r)'
    BY <1>2, <1>4, <1>5, <2>1 DEF AnswerInv, ReaderInv
  <2> QED
    BY <1>2, <1>4, <1>5, <2>2 DEF ReaderInv, Copying
<1>7. ASSUME NEW q \in Readers, q # r PROVE ReaderInv(q)'
  BY <1>1, <1>2, <1>7, OtherReader
<1> QED
  BY <1>5, <1>6, <1>7 DEF ValueInv


\* A step of a call that reads: the other readers and the writer are not concerned.
LEMMA ReadStep ==
  ASSUME ResultValueAssumption, ValueInv, NEW r \in Readers, NEW frame \in Frames,
         reader' = [reader EXCEPT ![r] = frame],
         UNCHANGED <<A, B, m_ucLastWrittenIndex, writer, lead, allowed>>,
         frame.result = reader[r].result, reader[r].step \notin {"idle", "return"},
         frame.step \notin {"idle", "return"},
         (frame.step \in {"A1", "A2", "B1", "B2", "compare"}) => CopyInv(r)'
  PROVE  ValueInv'
<1>1. reader \in [Readers -> Frames]
  BY DEF ValueInv, ValueTyped
<1>2. reader' \in [Readers -> Frames] /\ reader'[r] = frame
  BY <1>1
<1>3. ValueTyped' /\ WriterInv' /\ Latest' = Latest /\ Busy' = Busy
  BY <1>2, WriterAlone DEF ValueInv, ValueTyped
<1>4. ReaderInv(r)'
  <2>1. ReaderInv(r) /\ Reading(r)
    BY DEF ValueInv, Reading
  <2>2. AnswerInv(r)'
    BY <1>2, <1>3, <2>1 DEF ReaderInv, AnswerInv
  <2>3. Copying(r)' => CopyInv(r)'
    BY <1>2 DEF Copying
  <2>4. Position(reader'[r].result) <= Position(Latest')
    BY <1>2, <1>3, <2>1 DEF ReaderInv
  <2> QED
    BY <2>2, <2>3, <2>4 DEF ReaderInv
<1>5. ASSUME NEW q \in Readers, q # r PROVE ReaderInv(q)'
  BY <1>1, <1>5, OtherReader
<1> QED
  BY <1>3, <1>4, <1>5 DEF ValueInv

LEMMA IndexInv ==
  ASSUME ResultValueAssumption, ValueInv, NEW r \in Readers, ReadIndex(r) PROVE ValueInv'
<1> DEFINE m == m_ucLastWrittenIndex
           frame == [reader[r] EXCEPT !.step = "A1", !.index = m]
<1>1. /\ reader[r].step = "index" /\ reader' = [reader EXCEPT ![r] = frame]
      /\ UNCHANGED <<A, B, m_ucLastWrittenIndex, writer, lead, allowed>>
  BY DEF ReadIndex, Goes, Only
<1>2. /\ reader \in [Readers -> Frames] /\ reader[r] \in Frames /\ m \in Buffers
      /\ lead[r] \in Nat /\ ReaderInv(r) /\ Reading(r)
      /\ A[m] = Latest /\ B[m] = Latest
  BY <1>1 DEF ValueInv, ValueTyped, WriterInv, Reading
<1>3. /\ frame \in Frames /\ frame.step = "A1" /\ frame.index = m
      /\ frame.result = reader[r].result
  BY <1>2 DEF Frames, ReaderSteps
<1> HIDE DEF frame
<1>4. reader'[r] = frame
  BY <1>1, <1>2
<1>5. CopyInv(r)'
  <2>1. Ahead(m) + Busy <= lead[r]
    BY <1>2, AheadIs DEF ReaderInv, AnswerInv, ValueInv, Busy
  <2>2. Latest \in allowed[r]
    BY <1>2 DEF ReaderInv, AnswerInv
  <2>3. (Ahead(reader[r].index) + Busy)' = Ahead(m) + Busy
    BY <1>1, <1>3, <1>4 DEF Ahead, Busy
  <2> QED
    BY <1>1, <1>2, <1>3, <1>4, <2>1, <2>2, <2>3 DEF CopyInv
<1> QED
  BY <1>1, <1>3, <1>5, ReadStep

LEMMA CopiedIs ==
  ASSUME ValueInv, NEW r \in Readers, Copying(r)
  PROVE  /\ reader[r] \in Frames /\ reader \in [Readers -> Frames] /\ CopyInv(r)
         /\ A[reader[r].index] \in Pairs /\ B[reader[r].index] = A[reader[r].index]
  BY DEF ValueInv, ValueTyped, ReaderInv, CopyInv

LEMMA ReadAInv ==
  ASSUME ResultValueAssumption, ValueInv, NEW r \in Readers, NEW word \in Words, ReadA(r, word)
  PROVE  ValueInv'
<1> DEFINE was == IF word = 1 THEN "A1" ELSE "A2"
           is == IF word = 1 THEN "A2" ELSE "B1"
           value == A[reader[r].index]
           pair == [reader[r].a EXCEPT ![word] = value[word]]
           frame == [reader[r] EXCEPT !.step = is, !.a = pair]
<1>1. /\ reader[r].step = was /\ reader' = [reader EXCEPT ![r] = frame]
      /\ UNCHANGED <<A, B, m_ucLastWrittenIndex, writer, lead, allowed>>
  BY DEF ReadA, Goes, Only
<1>2. Copying(r)
  BY <1>1 DEF Copying
<1>3. reader[r] \in Frames /\ reader \in [Readers -> Frames] /\ CopyInv(r) /\ value \in Pairs
  BY <1>2, CopiedIs
<1> HIDE DEF value
<1>4. /\ pair \in AnyPair /\ pair[word] = value[word]
      /\ \A other \in Words \ {word} : pair[other] = reader[r].a[other]
  <2>1. reader[r].a \in AnyPair
    BY <1>3 DEF Frames
  <2> QED
    BY <1>3, <2>1, WordSet
<1> HIDE DEF pair
<1>5. /\ frame \in Frames /\ frame.step = is /\ frame.index = reader[r].index
      /\ frame.result = reader[r].result /\ frame.a = pair /\ frame.b = reader[r].b
  BY <1>3, <1>4 DEF Frames, ReaderSteps
<1> HIDE DEF frame
<1>6. reader'[r] = frame
  BY <1>1, <1>3
<1>7. (Ahead(reader[r].index) + Busy)' = Ahead(reader[r].index) + Busy
  BY <1>1, <1>5, <1>6 DEF Ahead, Busy
<1>8. pair[1] = value[1] /\ (word = 2 => pair[2] = value[2])
  BY <1>1, <1>3, <1>4 DEF CopyInv, Words, value
<1>9. CopyInv(r)'
  BY <1>1, <1>3, <1>5, <1>6, <1>7, <1>8 DEF CopyInv, Words, value
<1> QED
  BY <1>1, <1>5, <1>9, ReadStep

LEMMA ReadBInv ==
  ASSUME ResultValueAssumption, ValueInv, NEW r \in Readers, NEW word \in Words, ReadB(r, word)
  PROVE  ValueInv'
<1> DEFINE was == IF word = 1 THEN "B1" ELSE "B2"
           is == IF word = 1 THEN "B2" ELSE "compare"
           value == B[reader[r].index]
           pair == [reader[r].b EXCEPT ![word] = value[word]]
           frame == [reader[r] EXCEPT !.step = is, !.b = pair]
<1>1. /\ reader[r].step = was /\ reader' = [reader EXCEPT ![r] = frame]
      /\ UNCHANGED <<A, B, m_ucLastWrittenIndex, writer, lead, allowed>>
  BY DEF ReadB, Goes, Only
<1>2. Copying(r)
  BY <1>1 DEF Copying
<1>3. reader[r] \in Frames /\ reader \in [Readers -> Frames] /\ CopyInv(r) /\ value \in Pairs
  BY <1>2, CopiedIs
<1> HIDE DEF value
<1>4. /\ pair \in AnyPair /\ pair[word] = value[word]
      /\ \A other \in Words \ {word} : pair[other] = reader[r].b[other]
  <2>1. reader[r].b \in AnyPair
    BY <1>3 DEF Frames
  <2> QED
    BY <1>3, <2>1, WordSet
<1> HIDE DEF pair
<1>5. /\ frame \in Frames /\ frame.step = is /\ frame.index = reader[r].index
      /\ frame.result = reader[r].result /\ frame.b = pair /\ frame.a = reader[r].a
  BY <1>3, <1>4 DEF Frames, ReaderSteps
<1> HIDE DEF frame
<1>6. reader'[r] = frame
  BY <1>1, <1>3
<1>7. (Ahead(reader[r].index) + Busy)' = Ahead(reader[r].index) + Busy
  BY <1>1, <1>5, <1>6 DEF Ahead, Busy
<1>8. pair[1] = value[1] /\ (word = 2 => pair[2] = value[2])
  BY <1>1, <1>3, <1>4 DEF CopyInv, Words, value
<1>9. CopyInv(r)'
  BY <1>1, <1>3, <1>5, <1>6, <1>7, <1>8 DEF CopyInv, Words, value
<1> QED
  BY <1>1, <1>5, <1>9, ReadStep

\* The two copies are always alike.
LEMMA CompareInv ==
  ASSUME ResultValueAssumption, ValueInv, NEW r \in Readers, Compare(r)
  PROVE  ValueInv' /\ reader[r].a \in allowed[r] /\ reader'[r].result = reader[r].a
<1>1. /\ reader[r].step = "compare"
      /\ reader' = [reader EXCEPT ![r] =
             IF reader[r].a = reader[r].b
             THEN [reader[r] EXCEPT !.step = "return", !.result = reader[r].a]
             ELSE [reader[r] EXCEPT !.step = "index"]]
      /\ UNCHANGED <<A, B, m_ucLastWrittenIndex, writer, lead, allowed>>
  BY DEF Compare, Goes, Only
<1>2. Copying(r) /\ Reading(r)
  BY <1>1 DEF Copying, Reading
<1>3. /\ reader[r] \in Frames /\ reader \in [Readers -> Frames] /\ CopyInv(r)
      /\ A[reader[r].index] \in Pairs /\ B[reader[r].index] = A[reader[r].index]
  BY <1>2, CopiedIs
<1>4. reader[r].a = A[reader[r].index] /\ reader[r].b = A[reader[r].index]
  <2>1. /\ reader[r].a \in AnyPair /\ reader[r].b \in AnyPair /\ A[reader[r].index] \in AnyPair
        /\ reader[r].a[1] = A[reader[r].index][1] /\ reader[r].a[2] = A[reader[r].index][2]
        /\ reader[r].b[1] = A[reader[r].index][1] /\ reader[r].b[2] = A[reader[r].index][2]
    BY <1>1, <1>3, SequenceFacts DEF CopyInv, Frames
  <2> QED
    BY <2>1, SamePair
<1> DEFINE frame == [reader[r] EXCEPT !.step = "return", !.result = reader[r].a]
<1>5. reader' = [reader EXCEPT ![r] = frame]
  BY <1>1, <1>4
<1>6. reader[r].a \in Pairs /\ reader[r].a \in allowed[r]
  BY <1>3, <1>4 DEF CopyInv
<1>7. frame \in Frames /\ frame.step = "return" /\ frame.result = reader[r].a
  BY <1>3, <1>6 DEF Frames, ReaderSteps
<1> HIDE DEF frame
<1>8. reader' \in [Readers -> Frames] /\ reader'[r] = frame
  BY <1>3, <1>5, <1>7
<1>9. ValueTyped' /\ WriterInv' /\ Latest' = Latest /\ Busy' = Busy
  BY <1>1, <1>8, WriterAlone DEF ValueInv, ValueTyped
<1>10. ReaderInv(r)'
  <2>1. AnswerInv(r)
    BY <1>2 DEF ValueInv, ReaderInv
  <2> QED
    BY <1>1, <1>6, <1>7, <1>8, <1>9, <2>1 DEF ReaderInv, AnswerInv, Copying
<1>11. ASSUME NEW q \in Readers, q # r PROVE ReaderInv(q)'
  BY <1>1, <1>3, <1>11, OtherReader
<1> QED
  BY <1>6, <1>7, <1>8, <1>9, <1>10, <1>11 DEF ValueInv

LEMMA ReturnInv ==
  ASSUME ResultValueAssumption, ValueInv, NEW r \in Readers, Return(r)
  PROVE  ValueInv' /\ reader'[r].result = reader[r].result
<1> DEFINE frame == [Idle EXCEPT !.result = reader[r].result]
<1>1. /\ reader[r].step = "return" /\ reader' = [reader EXCEPT ![r] = frame]
      /\ lead' = [lead EXCEPT ![r] = 0] /\ allowed' = [allowed EXCEPT ![r] = {}]
      /\ UNCHANGED <<A, B, m_ucLastWrittenIndex, writer>>
  BY DEF Return, Goes, Only
<1>2. /\ reader \in [Readers -> Frames] /\ reader[r] \in Frames /\ ReaderInv(r)
      /\ lead \in [Readers -> 0 .. MaxLead] /\ allowed \in [Readers -> SUBSET Pairs]
  BY DEF ValueInv, ValueTyped
<1>3. frame \in Frames /\ frame.step = "idle" /\ frame.result = reader[r].result
  <2>1. Start \in Pairs /\ Start \in AnyPair /\ 0 \in Buffers
    BY SequenceFacts DEF Start, Buffers
  <2> QED
    BY <1>2, <2>1 DEF Frames, ReaderSteps, Idle
<1> HIDE DEF frame
<1>4. /\ reader' \in [Readers -> Frames] /\ reader'[r] = frame
      /\ lead' \in [Readers -> 0 .. MaxLead] /\ allowed' \in [Readers -> SUBSET Pairs]
  BY <1>1, <1>2, <1>3, SequenceFacts
<1>5. ValueTyped' /\ WriterInv' /\ Latest' = Latest /\ Busy' = Busy
  BY <1>1, <1>4, WriterAlone
<1>6. ReaderInv(r)'
  BY <1>2, <1>3, <1>4, <1>5 DEF ReaderInv, Reading, Copying
<1>7. ASSUME NEW q \in Readers, q # r PROVE ReaderInv(q)'
  BY <1>1, <1>2, <1>7, OtherReader
<1> QED
  BY <1>3, <1>4, <1>5, <1>6, <1>7 DEF ValueInv

LEMMA ValueInvNext ==
  ASSUME ResultValueAssumption, MaxLead < BUFFER_SIZE, Growing, ValueInv, [ValueNext]_valueVars
  PROVE  ValueInv'
<1>1. CASE Write
  BY <1>1, SetInv, WriteAInv, WriteBInv, PublishInv DEF Write
<1>2. ASSUME NEW r \in Readers, GetValue(r) \/ Read(r) PROVE ValueInv'
  BY <1>2, GetValueInv, IndexInv, ReadAInv, ReadBInv, CompareInv, ReturnInv DEF Read
<1>3. CASE UNCHANGED valueVars
  <2>1. UNCHANGED <<A, B, m_ucLastWrittenIndex, writer, reader, lead, allowed>>
    BY <1>3 DEF valueVars
  <2>2. ValueTyped' /\ WriterInv'
    BY <2>1, WriterAlone DEF ValueInv, ValueTyped
  <2> QED
    BY <2>1, <2>2, OtherReader DEF ValueInv
<1> QED
  BY <1>1, <1>2, <1>3 DEF ValueNext

\* A result changes only when a copy was good, and then it is one of the call's values.
LEMMA NeverGoesBackStep ==
  ASSUME ResultValueAssumption, ValueInv, [ValueNext]_valueVars, NEW r \in Readers
  PROVE  Position(reader[r].result) <= Position(reader'[r].result)
<1>1. /\ reader[r].result \in Pairs /\ Position(reader[r].result) \in Int
      /\ reader \in [Readers -> Frames]
  BY PositionIs, SequenceFacts DEF ValueInv, ValueTyped, Frames
<1>2. ASSUME reader'[r].result = reader[r].result
      PROVE  Position(reader[r].result) <= Position(reader'[r].result)
  BY <1>1, <1>2
<1>3. CASE Compare(r)
  <2>1. reader[r].a \in allowed[r] /\ reader'[r].result = reader[r].a
    BY <1>3, CompareInv
  <2>2. reader[r].step = "compare"
    BY <1>3 DEF Compare, Goes
  <2>3. AnswerInv(r)
    BY <2>2 DEF ValueInv, ReaderInv, Reading
  <2> QED
    BY <2>1, <2>2, <2>3 DEF AnswerInv
<1>4. ASSUME NEW q \in Readers, GetValue(q) \/ Read(q), ~ Compare(r)
      PROVE  reader'[r].result = reader[r].result
  <2>1. CASE q = r
    <3>1. CASE GetValue(r)
      BY <1>1, <3>1 DEF GetValue, Goes, Frames
    <3>2. CASE ReadIndex(r)
      BY <1>1, <3>2 DEF ReadIndex, Goes, Frames
    <3>3. CASE Return(r)
      BY <3>3, ReturnInv
    <3>4. ASSUME NEW word \in Words, ReadA(r, word) \/ ReadB(r, word)
          PROVE  reader'[r].result = reader[r].result
      BY <1>1, <3>4 DEF ReadA, ReadB, Goes, Frames
    <3> QED
      BY <1>4, <2>1, <3>1, <3>2, <3>3, <3>4 DEF Read
  <2>2. CASE q # r
    <3>1. \E step, frame : Goes(q, step, frame)
      BY <1>4 DEF GetValue, Read, ReadIndex, ReadA, ReadB, Compare, Return
    <3> QED
      BY <1>1, <2>2, <3>1 DEF Goes
  <2> QED
    BY <2>1, <2>2
<1>5. CASE Write
  BY <1>2, <1>5 DEF Write, SetValue, WriteA, WriteB, Publish
<1>6. CASE UNCHANGED valueVars
  BY <1>2, <1>6 DEF valueVars
<1> QED
  BY <1>2, <1>3, <1>4, <1>5, <1>6 DEF ValueNext

\* CThreadResultValue: a reader gets a value that was current during its call, never one torn
\* between two, and of a count that grows never an earlier one than it has had, as long as fewer
\* values are set during a call than there are slots.
THEOREM ValueStaysCurrent ==
  ASSUME ResultValueAssumption, MaxLead < BUFFER_SIZE, Growing
  PROVE  ValueSpec => ValueCurrent
<1>1. ValueInit => ValueInv
  BY ValueInvInit
<1>2. ValueInv /\ [ValueNext]_valueVars => ValueInv'
  BY ValueInvNext
<1>3. ValueInv => ValueTypeOK /\ ReadsCurrent
  <2> SUFFICES ASSUME ValueInv PROVE ValueTypeOK /\ ReadsCurrent
    OBVIOUS
  <2>1. ValueTypeOK
    BY SequenceFacts DEF ValueInv, ValueTyped, Frames, ValueTypeOK
  <2>2. ReadsCurrent
    BY DEF ValueInv, ReaderInv, AnswerInv, Reading, ReadsCurrent
  <2> QED
    BY <2>1, <2>2
<1>4. ValueInv /\ [ValueNext]_valueVars
        => [\A r \in Readers : Position(reader[r].result) <= Position(reader'[r].result)]_valueVars
  BY NeverGoesBackStep
<1> QED
  BY <1>1, <1>2, <1>3, <1>4, PTL DEF ValueSpec, ValueCurrent, NeverGoesBack

(***************************************************************************)
(* Buffer streams, for any number of values of a byte and any items.       *)
(***************************************************************************)
(* --------------------------- numbers in bytes ----------------------------- *)

LEMMA ByteValues ==
  ASSUME BufferAssumption
  PROVE  /\ BYTE \in Nat \ {0, 1} /\ USHORT \in Nat \ {0} /\ USHORT >= 2 * BYTE /\ MaxItems \in Nat
         /\ BYTE <= Marker /\ Marker < USHORT /\ Marker \in Nat /\ USHORT * USHORT \in Nat
         /\ USHORT < USHORT * USHORT
<1>1. BYTE \in Nat \ {0, 1} /\ MaxItems \in Nat
  BY DEF BufferAssumption
<1>2. ASSUME NEW n \in Nat, n >= 2, NEW m \in Nat, m >= 2 PROVE n * m \in Nat /\ n * m >= 2 * m /\ n * m >= 4
  <2>1. (n - 2) \in Nat /\ (n - 2) * m \in Nat /\ (n - 2) * m = n * m - 2 * m
    BY <1>2
  <2> QED
    BY <1>2, <2>1
<1>3. BYTE * BYTE \in Nat /\ BYTE * BYTE >= 2 * BYTE /\ BYTE * BYTE >= 4
  BY <1>1, <1>2
<1>4. USHORT \in Nat /\ USHORT >= 2 * BYTE /\ USHORT >= 4
  BY <1>3 DEF USHORT
<1>5. USHORT * USHORT \in Nat /\ USHORT * USHORT >= 2 * USHORT
  BY <1>2, <1>4
<1> QED
  BY <1>1, <1>4, <1>5 DEF Marker

\* The bytes up to one, and the next one.
LEMMA RemainderNext ==
  ASSUME NEW w \in Nat \ {0}, NEW b \in Nat \ {0}, NEW v \in Int
  PROVE  v % (b * w) = (v % w) + ((v \div w) % b) * w
<1> DEFINE q == v \div w
           r == v % w
           p == q \div b
           d == q % b
<1>1. q \in Int /\ r \in 0 .. w - 1 /\ v = w * q + r
  OBVIOUS
<1> HIDE DEF q, r
<1>2. p \in Int /\ d \in 0 .. b - 1 /\ q = b * p + d
  BY <1>1
<1> HIDE DEF p, d
<1>3. v = (b * w) * p + (r + d * w)
  <2>1. w * q = w * (b * p) + w * d
    BY <1>1, <1>2
  <2>2. w * (b * p) = (b * w) * p /\ w * d = d * w
    BY <1>2
  <2> QED
    BY <1>1, <1>2, <2>1, <2>2
<1>4. b * w \in Nat \ {0}
  OBVIOUS
<1>5. r + d * w \in 0 .. b * w - 1
  <2>1. (b - 1 - d) \in Nat /\ (b - 1 - d) * w \in Nat /\ (b - 1 - d) * w = b * w - w - d * w
    BY <1>2
  <2>2. d * w \in Nat
    BY <1>2
  <2> QED
    BY <1>1, <2>1, <2>2, <1>4
<1>6. v % (b * w) = r + d * w
  <2> DEFINE m == b * w
             a == r + d * w
  <2>1. m \in Nat \ {0} /\ a \in 0 .. m - 1 /\ v = m * p + a
    BY <1>3, <1>4, <1>5
  <2> HIDE DEF m, a
  <2>2. v % m = a
    BY <1>2, <2>1, RemainderIs
  <2> QED
    BY <2>2 DEF m, a
<1> QED
  BY <1>6 DEF r, d, q

\* A number of up to four bytes.
LEMMA NumberIs ==
  ASSUME NEW s \in Seq(Nat), NEW t, t \in [0 .. Len(s) -> Nat], t[0] = 0,
         \A i \in 1 .. Len(s) : t[i] = t[i - 1] + s[i] * Weight[i],
         Len(s) \in 1 .. 4
  PROVE  Number(s) = t[Len(s)]
<1> DEFINE n == Len(s)
           Made(f) == f = [i \in 0 .. n |-> IF i = 0 THEN 0 ELSE f[i - 1] + s[i] * Weight[i]]
           f == CHOOSE x : Made(x)
<1>1. Made(t)
  <2>1. \A i \in 0 .. n : i # 0 => i \in 1 .. n
    OBVIOUS
  <2> QED
    BY <2>1
<1>2. Made(f)
  <2> HIDE DEF Made
  <2> QED
    BY <1>1, Zenon
<1>3. Number(s) = f[n]
  BY Zenon DEF Number
<1> HIDE DEF f
<1>4. f[0] = 0 /\ \A i \in 1 .. n : f[i] = f[i - 1] + s[i] * Weight[i]
  <2>1. 0 \in 0 .. n /\ \A i \in 1 .. n : i \in 0 .. n /\ i # 0
    OBVIOUS
  <2> QED
    BY <1>2, <2>1, Zenon
<1> HIDE DEF Made
<1>5. ASSUME NEW i \in 1 .. n, f[i - 1] = t[i - 1] PROVE f[i] = t[i]
  BY <1>4, <1>5
<1>6. f[0] = t[0] /\ n \in Nat /\ n >= 1 /\ n <= 4
  <2>1. n \in 1 .. 4
    OBVIOUS
  <2>2. f[0] = t[0]
    BY <1>4, Zenon
  <2> HIDE DEF n
  <2> QED
    BY <2>1, <2>2
<1>12. Number(s) = t[n] <=> f[n] = t[n]
  BY <1>3
<1> HIDE DEF n
<1>7. f[1] = t[1]
  <2>1. 1 \in 1 .. n /\ 1 - 1 = 0
    BY <1>6
  <2> QED
    BY <1>5, <1>6, <2>1
<1>8. ASSUME n >= 2 PROVE f[2] = t[2]
  <2>1. 2 \in 1 .. n /\ 2 - 1 = 1 /\ n >= 1
    BY <1>6, <1>8
  <2>2. f[2 - 1] = t[2 - 1]
    BY <1>7, <2>1
  <2> QED
    BY <1>5, <2>1, <2>2
<1>9. ASSUME n >= 3 PROVE f[3] = t[3]
  <2>1. 3 \in 1 .. n /\ 3 - 1 = 2 /\ n >= 2
    BY <1>6, <1>9
  <2>2. f[3 - 1] = t[3 - 1]
    BY <1>8, <2>1
  <2> QED
    BY <1>5, <2>1, <2>2
<1>10. ASSUME n >= 4 PROVE f[4] = t[4]
  <2>1. 4 \in 1 .. n /\ 4 - 1 = 3 /\ n >= 3
    BY <1>6, <1>10
  <2>2. f[4 - 1] = t[4 - 1]
    BY <1>9, <2>1
  <2> QED
    BY <1>5, <2>1, <2>2
<1>11. n = 1 \/ n = 2 \/ n = 3 \/ n = 4
  BY <1>6
<1>13. f[n] = t[n]
  <2>1. CASE n = 1
    BY <1>7, <2>1
  <2>2. CASE n = 2
    <3>1. f[2] = t[2]
      BY <1>8, <2>2
    <3> QED
      BY <2>2, <3>1
  <2>3. CASE n = 3
    <3>1. f[3] = t[3]
      BY <1>9, <2>3
    <3> QED
      BY <2>3, <3>1
  <2>4. CASE n = 4
    <3>1. f[4] = t[4]
      BY <1>10, <2>4
    <3> QED
      BY <2>4, <3>1
  <2> QED
    BY <1>11, <2>1, <2>2, <2>3, <2>4
<1> QED
  BY <1>12, <1>13 DEF n

\* What numbers of a size count up to.
ValuesOf(size) == IF size = 1 THEN BYTE ELSE IF size = 2 THEN USHORT ELSE USHORT * USHORT

LEMMA NumberBack ==
  ASSUME BufferAssumption, NEW size \in {1, 2, 4}, NEW v \in Nat, v < ValuesOf(size)
  PROVE  /\ AsBytes(size, v) \in Seq(Byte) /\ Len(AsBytes(size, v)) = size
         /\ Number(AsBytes(size, v)) = v
<1> DEFINE s == AsBytes(size, v)
           d(i) == (v \div Weight[i]) % BYTE
           t == [i \in 0 .. size |-> IF i = 0 THEN 0 ELSE v % (BYTE * Weight[i])]
<1>1. /\ BYTE \in Nat \ {0} /\ USHORT \in Nat \ {0}
      /\ Weight[1] = 1 /\ Weight[2] = BYTE /\ Weight[3] = USHORT /\ Weight[4] = USHORT * BYTE
      /\ \A i \in 1 .. 4 : Weight[i] \in Nat \ {0}
  <2>1. BYTE \in Nat \ {0} /\ USHORT \in Nat \ {0}
    BY ByteValues
  <2>2. Weight[1] = 1 /\ Weight[2] = BYTE /\ Weight[3] = USHORT /\ Weight[4] = USHORT * BYTE
    BY DEF Weight
  <2>3. USHORT * BYTE \in Nat \ {0}
    BY <2>1
  <2>4. ASSUME NEW i \in 1 .. 4 PROVE Weight[i] \in Nat \ {0}
    <3>1. i = 1 \/ i = 2 \/ i = 3 \/ i = 4
      OBVIOUS
    <3> QED
      BY <2>1, <2>2, <2>3, <3>1
  <2> QED
    BY <2>1, <2>2, <2>4
<1>2. /\ Weight[2] = BYTE * Weight[1] /\ Weight[3] = BYTE * Weight[2] /\ Weight[4] = BYTE * Weight[3]
      /\ USHORT * USHORT = BYTE * Weight[4]
  <2>1. BYTE * 1 = BYTE /\ USHORT * BYTE = BYTE * USHORT
    BY <1>1
  <2>2. USHORT = BYTE * BYTE
    BY DEF USHORT
  <2>3. USHORT * USHORT = BYTE * (USHORT * BYTE)
    <3>1. (BYTE * BYTE) * USHORT = BYTE * (BYTE * USHORT)
      BY <1>1
    <3> QED
      BY <2>1, <2>2, <3>1
    <2> QED
    BY <1>1, <2>1, <2>2, <2>3
<1>3. \A i \in 1 .. size : i \in 1 .. 4
  OBVIOUS
<1>4. s = [i \in 1 .. size |-> d(i)] /\ \A i \in 1 .. size : d(i) \in Byte
  <2>1. ASSUME NEW i \in 1 .. size PROVE d(i) \in Byte
    <3>1. Weight[i] \in Nat \ {0}
      BY <1>1, <1>3
    <3>2. v \div Weight[i] \in Int
      BY <3>1
    <3> QED
      BY <1>1, <3>2 DEF Byte
  <2> QED
    BY <2>1 DEF AsBytes
<1>5. s \in Seq(Byte) /\ Len(s) = size /\ \A i \in 1 .. size : s[i] = d(i)
  BY <1>4
<1>6. ASSUME NEW i \in 1 .. size PROVE t[i] = t[i - 1] + s[i] * Weight[i]
  <2>1. v % (BYTE * Weight[i]) = (v % Weight[i]) + d(i) * Weight[i]
    <3> DEFINE w == Weight[i]
    <3>1. w \in Nat \ {0} /\ v \in Int
      BY <1>1, <1>3
    <3> HIDE DEF w
    <3>2. v % (BYTE * w) = (v % w) + ((v \div w) % BYTE) * w
      BY <1>1, <3>1, RemainderNext
    <3> QED
      BY <3>2 DEF w
  <2>2. t[i] = v % (BYTE * Weight[i])
    OBVIOUS
  <2>3. t[i - 1] = v % Weight[i]
    <3>1. CASE i = 1
      <4>1. v % 1 = 0
        OBVIOUS
      <4> QED
        BY <1>1, <3>1, <4>1
    <3>2. CASE i # 1
      <4>1. i - 1 \in 0 .. size /\ i - 1 # 0
        BY <3>2
      <4>2. t[i - 1] = v % (BYTE * Weight[i - 1])
        BY <4>1
      <4>3. BYTE * Weight[i - 1] = Weight[i]
        <5>1. (i = 2 /\ i - 1 = 1) \/ (i = 3 /\ i - 1 = 2) \/ (i = 4 /\ i - 1 = 3)
          BY <1>3, <3>2
        <5> QED
          BY <1>2, <5>1
      <4> QED
        BY <4>2, <4>3
    <3> QED
      BY <3>1, <3>2
  <2> HIDE DEF t
  <2> QED
    BY <1>5, <2>1, <2>2, <2>3
<1>7. t \in [0 .. size -> Nat] /\ t[0] = 0
  <2>1. ASSUME NEW i \in 1 .. size PROVE v % (BYTE * Weight[i]) \in Nat
    <3>1. Weight[i] \in Nat \ {0}
      BY <1>1, <1>3
    <3>2. BYTE * Weight[i] \in Nat \ {0}
      BY <1>1, <3>1
    <3> QED
      BY <3>2
  <2> QED
    BY <2>1
<1>8. t[size] = v
  <2>1. size \in 1 .. size
    OBVIOUS
  <2>2. t[size] = v % (BYTE * Weight[size])
    BY <2>1
  <2>3. BYTE * Weight[size] = ValuesOf(size)
    <3>1. ValuesOf(1) = BYTE /\ ValuesOf(2) = USHORT /\ ValuesOf(4) = USHORT * USHORT
      BY DEF ValuesOf
    <3> QED
      BY <1>1, <1>2, <3>1
  <2>4. ValuesOf(size) \in Nat \ {0}
    BY <1>1 DEF ValuesOf
  <2> DEFINE m == ValuesOf(size)
  <2> HIDE DEF m, t
  <2>5. v % m = v
    <3>1. m \in Nat \ {0} /\ v \in 0 .. m - 1
      BY <2>4 DEF m
    <3> QED
      BY <3>1, SmallRemainder
  <2> QED
    BY <2>2, <2>3, <2>5 DEF m
<1> HIDE DEF s, t
<1>9. s \in Seq(Nat) /\ Len(s) \in 1 .. 4
  BY <1>1, <1>5 DEF Byte
<1>10. Number(s) = t[Len(s)]
  BY <1>5, <1>6, <1>7, <1>9, NumberIs
<1> QED
  BY <1>5, <1>8, <1>10 DEF s

(* ------------------------- byte order and layout -------------------------- *)

\* A value in the order of a stream.
Put(net, s) == IF net THEN Reversed(s) ELSE s

LEMMA PutIs ==
  ASSUME NEW net \in BOOLEAN, NEW s \in Seq(Byte)
  PROVE  /\ Put(net, s) \in Seq(Byte) /\ Len(Put(net, s)) = Len(s)
         /\ Put(net, Put(net, s)) = s
<1> DEFINE n == Len(s)
           r == [i \in DOMAIN s |-> s[n + 1 - i]]
           b == [i \in DOMAIN r |-> r[Len(r) + 1 - i]]
<1>1. n \in Nat /\ DOMAIN s = 1 .. n
  OBVIOUS
<1>2. \A i \in 1 .. n : n + 1 - i \in 1 .. n /\ n + 1 - (n + 1 - i) = i
  BY <1>1
<1>3. r \in Seq(Byte) /\ Len(r) = n /\ DOMAIN r = 1 .. n
  BY <1>1, <1>2
<1>4. b = s
  <2>1. \A i \in 1 .. n : r[n + 1 - i] = s[i]
    BY <1>1, <1>2
  <2>2. b = [i \in 1 .. n |-> s[i]]
    BY <1>3, <2>1
  <2> QED
    BY <1>1, <2>2
<1>5. Reversed(s) = r /\ Reversed(r) = b
  <2>1. Reversed(s) = r
    BY DEF Reversed
  <2>2. Reversed(r) = b
    BY DEF Reversed
  <2> QED
    BY <2>1, <2>2
<1> HIDE DEF r, b
<1>6. CASE net
  BY <1>3, <1>4, <1>5, <1>6 DEF Put
<1>7. CASE ~ net
  BY <1>7 DEF Put
<1> QED
  BY <1>6, <1>7

LEMMA OrderedIs == ASSUME NEW s PROVE Ordered(s) = Put(bToFromNetwork, s)
BY Zenon DEF Ordered, Put

\* The length of a text or a buffer, and what it stands before.
LengthCode(net, i) ==
  IF i.kind = "buffer"
    THEN IF Len(i.data) > Marker - 1
           THEN Put(net, AsBytes(2, Marker)) \o Put(net, AsBytes(4, Len(i.data)))
           ELSE Put(net, AsBytes(2, Len(i.data)))
    ELSE Put(net, AsBytes(LengthSize(i.kind), Len(i.data)))

Code(net, i) ==
  IF i.kind = "ushort" THEN Put(net, i.data) ELSE LengthCode(net, i) \o i.data

LEMMA ItemIs ==
  ASSUME BufferAssumption, ItemsFit, NEW i \in Items
  PROVE  /\ i = [kind |-> i.kind, data |-> i.data] /\ i.data \in Seq(Byte) /\ Len(i.data) \in Nat
         /\ i.kind \in {"string", "byteString", "buffer", "ushort"}
         /\ i.kind \in {"string", "byteString"} =>
              /\ LengthSize(i.kind) \in {1, 2} /\ ~ Sized(i.kind)
              /\ Len(i.data) < ValuesOf(LengthSize(i.kind)) /\ Len(i.data) < USHORT
         /\ i.kind = "buffer" => Len(i.data) < ValuesOf(4)
         /\ i.kind = "ushort" => Len(i.data) = 2
<1>1. /\ i = [kind |-> i.kind, data |-> i.data]
      /\ i.kind \in Kinds /\ ~Sized(i.kind) /\ i.data \in Seq(Byte)
  BY Zenon DEF ItemsFit
<1>2. /\ i.kind = "string" => Len(i.data) < USHORT
      /\ i.kind = "byteString" => Len(i.data) < BYTE
      /\ i.kind = "buffer" => 2 * Len(i.data) < USHORT * USHORT
      /\ i.kind = "ushort" => Len(i.data) = 2
  BY Zenon DEF ItemsFit
<1>3. Len(i.data) \in Nat
  BY <1>1
<1>4. i.kind \in {"string", "byteString", "buffer", "ushort"}
  BY <1>1 DEF Kinds, Sized
<1>5. ASSUME i.kind = "string"
      PROVE  LengthSize(i.kind) = 2 /\ Len(i.data) < ValuesOf(LengthSize(i.kind))
  <2>1. LengthSize(i.kind) = 2
    BY <1>5 DEF LengthSize
  <2> QED
    BY <1>2, <1>5, <2>1 DEF ValuesOf
<1>6. ASSUME i.kind = "byteString"
      PROVE  /\ LengthSize(i.kind) = 1 /\ Len(i.data) < ValuesOf(LengthSize(i.kind))
             /\ Len(i.data) < USHORT
  <2>1. LengthSize(i.kind) = 1
    BY <1>6 DEF LengthSize
  <2>2. Len(i.data) < USHORT
    BY <1>2, <1>3, <1>6, ByteValues
  <2> QED
    BY <1>2, <1>6, <2>1, <2>2 DEF ValuesOf
<1>7. ASSUME i.kind = "buffer" PROVE Len(i.data) < ValuesOf(4)
  <2>1. ValuesOf(4) = USHORT * USHORT
    BY DEF ValuesOf
  <2> DEFINE m == USHORT * USHORT
  <2>2. m \in Nat /\ 2 * Len(i.data) < m
    BY <1>2, <1>7, ByteValues
  <2> HIDE DEF m
  <2>3. Len(i.data) < m
    BY <1>3, <2>2
  <2> QED
    BY <2>1, <2>3 DEF m
<1> QED
  BY <1>1, <1>2, <1>3, <1>4, <1>5, <1>6, <1>7

LEMMA TwoBytes ==
  ASSUME BufferAssumption
  PROVE  /\ Marker < ValuesOf(2) /\ Marker \in Nat
         /\ \A n \in Nat : n <= Marker => n < ValuesOf(2)
BY ByteValues DEF ValuesOf

\* The length in the stream's order.
LEMMA PutNumber ==
  ASSUME BufferAssumption, NEW net \in BOOLEAN, NEW size \in {1, 2, 4}, NEW v \in Nat,
         v < ValuesOf(size)
  PROVE  /\ Put(net, AsBytes(size, v)) \in Seq(Byte) /\ Len(Put(net, AsBytes(size, v))) = size
         /\ Number(Put(net, Put(net, AsBytes(size, v)))) = v
<1> DEFINE s == AsBytes(size, v)
<1>1. s \in Seq(Byte) /\ Len(s) = size /\ Number(s) = v
  BY NumberBack
<1> HIDE DEF s
<1>2. /\ Put(net, s) \in Seq(Byte) /\ Len(Put(net, s)) = Len(s)
      /\ Put(net, Put(net, s)) = s
  BY <1>1, PutIs
<1>3. /\ Put(net, s) \in Seq(Byte) /\ Len(Put(net, s)) = size
      /\ Number(Put(net, Put(net, s))) = v
  BY <1>1, <1>2
<1> QED
  BY <1>3 DEF s

LEMMA CodeIs ==
  ASSUME BufferAssumption, ItemsFit, NEW net \in BOOLEAN, NEW i \in Items
  PROVE  /\ Code(net, i) \in Seq(Byte) /\ Len(Code(net, i)) \in Nat
         /\ i.kind # "ushort" => LengthCode(net, i) \in Seq(Byte)
<1>1. i.data \in Seq(Byte) /\ Len(i.data) \in Nat
  BY ItemIs
<1>2. CASE i.kind = "ushort"
  <2>1. Code(net, i) = Put(net, i.data)
    BY <1>2, Zenon DEF Code
  <2> QED
    BY <1>1, <1>2, <2>1, PutIs
<1>3. CASE i.kind # "ushort"
  <2>1. LengthCode(net, i) \in Seq(Byte)
    <3>1. CASE i.kind = "buffer" /\ Len(i.data) > Marker - 1
      <4> DEFINE a == Put(net, AsBytes(2, Marker))
                 b == Put(net, AsBytes(4, Len(i.data)))
      <4>1. a \in Seq(Byte) /\ b \in Seq(Byte)
        BY <1>1, <3>1, ItemIs, TwoBytes, PutNumber
      <4>2. LengthCode(net, i) = a \o b
        BY <3>1, Zenon DEF LengthCode
      <4> HIDE DEF a, b
      <4> QED
        BY <4>1, <4>2
    <3>2. CASE i.kind = "buffer" /\ ~ (Len(i.data) > Marker - 1)
      <4>1. Len(i.data) < ValuesOf(2)
        BY <1>1, <3>2, TwoBytes
      <4>2. LengthCode(net, i) = Put(net, AsBytes(2, Len(i.data)))
        BY <3>2, Zenon DEF LengthCode
      <4> QED
        BY <1>1, <4>1, <4>2, PutNumber
    <3>3. CASE i.kind # "buffer"
      <4>1. LengthCode(net, i) = Put(net, AsBytes(LengthSize(i.kind), Len(i.data)))
        BY <3>3, Zenon DEF LengthCode
      <4>2. LengthSize(i.kind) \in {1, 2, 4} /\ Len(i.data) < ValuesOf(LengthSize(i.kind))
        BY <1>3, <3>3, ItemIs
      <4> QED
        BY <1>1, <4>1, <4>2, PutNumber
    <3> QED
      BY <3>1, <3>2, <3>3
  <2>2. Code(net, i) = LengthCode(net, i) \o i.data
    BY <1>3, Zenon DEF Code
  <2> DEFINE l == LengthCode(net, i)
             d == i.data
  <2>3. l \in Seq(Byte) /\ d \in Seq(Byte)
    BY <1>1, <2>1
  <2> HIDE DEF l, d
  <2>4. l \o d \in Seq(Byte) /\ Len(l \o d) \in Nat
    BY <2>3
  <2> QED
    BY <2>1, <2>2, <2>4 DEF l, d
<1> QED
  BY <1>2, <1>3

\* What the code writes of an item.
LEMMA LayoutIs ==
  ASSUME BufferAssumption, ItemsFit, NEW i \in Items, NEW beyond \in Byte
  PROVE  Layout(i, beyond) = Code(bToFromNetwork, i)
<1> DEFINE net == bToFromNetwork
           d == i.data
           n == Len(d)
<1>1. d \in Seq(Byte) /\ n \in Nat /\ i.kind \in {"string", "byteString", "buffer", "ushort"}
  BY ItemIs
<1>2. CASE i.kind = "ushort"
  <2>1. Layout(i, beyond) = Ordered(i.data)
    BY <1>2 DEF Layout
  <2>2. Code(net, i) = Put(net, i.data)
    BY <1>2, Zenon DEF Code
  <2> QED
    BY <2>1, <2>2, OrderedIs
<1>3. CASE i.kind = "buffer"
  <2>1. Layout(i, beyond) = BufferLength(Len(i.data)) \o i.data
    BY <1>3 DEF Layout
  <2>2. BufferLength(Len(i.data)) = LengthCode(net, i)
    BY <1>3, OrderedIs, Zenon DEF BufferLength, LengthCode
  <2>3. Code(net, i) = LengthCode(net, i) \o i.data
    BY <1>3 DEF Code
  <2> QED
    BY <2>1, <2>2, <2>3
<1>4. CASE i.kind \in {"string", "byteString"}
  <2>1. Layout(i, beyond) = StringLayout(i, beyond)
    BY <1>4 DEF Layout
  <2> DEFINE size == LengthSize(i.kind)
             text == Len(i.data) % USHORT
  <2>2. text = n /\ ~ Sized(i.kind)
    <3>1. n < USHORT /\ USHORT \in Nat \ {0} /\ ~ Sized(i.kind)
      BY <1>4, ItemIs, ByteValues
    <3> DEFINE w == USHORT
    <3>3. w \in Nat \ {0} /\ n \in Int /\ n \in 0 .. w - 1
      BY <1>1, <3>1
    <3> HIDE DEF w, n
    <3>2. n % w = n
      BY <3>3, SmallRemainder
    <3> QED
      BY <3>1, <3>2 DEF w, n
  <2>3. StringLayout(i, beyond) = Ordered(AsBytes(size, text)) \o SubSeq(i.data \o <<0, beyond>>, 1, text)
    BY <2>2 DEF StringLayout
  <2>4. SubSeq(d \o <<0, beyond>>, 1, n) = d
    <3> DEFINE e == <<0, beyond>>
               l == SubSeq(d \o e, 1, n)
    <3>1. e \in Seq(Byte)
      BY ByteValues DEF Byte
    <3> HIDE DEF e
    <3>2. Len(d \o e) = n + Len(e) /\ Len(e) \in Nat /\ \A k \in 1 .. n : (d \o e)[k] = d[k]
      BY <1>1, <3>1
    <3>3. d \o e \in Seq(Byte)
      BY <1>1, <3>1
    <3>4. l \in Seq(Byte) /\ Len(l) = n /\ \A k \in 1 .. n : l[k] = d[k]
      <4> DEFINE j == d \o e
      <4>1. j \in Seq(Byte) /\ n <= Len(j) /\ Len(j) \in Nat /\ \A k \in 1 .. n : j[k] = d[k]
        BY <1>1, <3>2, <3>3
      <4> HIDE DEF j
      <4>2. /\ SubSeq(j, 1, n) \in Seq(Byte) /\ Len(SubSeq(j, 1, n)) = n
            /\ \A k \in 1 .. n : SubSeq(j, 1, n)[k] = j[k]
        BY <1>1, <4>1, SubSeqProperties
      <4> QED
        BY <4>1, <4>2 DEF j
    <3> HIDE DEF l
    <3>5. l = d
      BY <1>1, <3>4
    <3> QED
      BY <3>5 DEF l, e
  <2>5. LengthCode(net, i) = Put(net, AsBytes(size, n))
    BY <1>4 DEF LengthCode
  <2>6. Code(net, i) = LengthCode(net, i) \o i.data
    BY <1>4 DEF Code
  <2>7. StringLayout(i, beyond) = Ordered(AsBytes(size, n)) \o i.data
    <3> HIDE DEF size, text
    <3>1. StringLayout(i, beyond) = Ordered(AsBytes(size, n)) \o SubSeq(i.data \o <<0, beyond>>, 1, n)
      BY <2>2, <2>3, Zenon
    <3> QED
      BY <2>4, <3>1, Zenon
  <2> QED
    BY <2>1, <2>5, <2>6, <2>7, OrderedIs
<1> QED
  BY <1>1, <1>2, <1>3, <1>4

(* ------------------------------- reading ---------------------------------- *)

\* The bytes c stand behind place a, as far as there are any.
Holds(bs, a, c) == \A j \in 1 .. Len(c) : a + j <= Len(bs) => bs[a + j] = c[j]

LEMMA PartHeld ==
  ASSUME NEW bs \in Seq(Byte), NEW a \in Nat, NEW c \in Seq(Byte), Holds(bs, a, c),
         a + Len(c) <= Len(bs)
  PROVE  SubSeq(bs, a + 1, a + Len(c)) = c
<1> DEFINE n == Len(c)
           l == SubSeq(bs, a + 1, a + n)
<1>1. n \in Nat /\ a + n <= Len(bs) /\ Len(bs) \in Nat
  OBVIOUS
<1>2. l \in Seq(Byte) /\ Len(l) = n /\ \A k \in 1 .. n : l[k] = bs[a + k]
  BY <1>1, SubSeqProperties
<1>3. \A k \in 1 .. n : bs[a + k] = c[k]
  BY <1>1 DEF Holds
<1> HIDE DEF l
<1>4. l = c
  BY <1>2, <1>3
<1> QED
  BY <1>4 DEF l

LEMMA Joined ==
  ASSUME NEW c \in Seq(Byte), NEW d \in Seq(Byte)
  PROVE  c \o d \in Seq(Byte) /\ Len(c \o d) = Len(c) + Len(d) /\ Len(c) \in Nat /\ Len(d) \in Nat
OBVIOUS

LEMMA HeldParts ==
  ASSUME NEW bs \in Seq(Byte), NEW a \in Nat, NEW c \in Seq(Byte), NEW d \in Seq(Byte),
         Holds(bs, a, c \o d)
  PROVE  /\ Holds(bs, a, c) /\ Holds(bs, a + Len(c), d)
         /\ Len(c \o d) = Len(c) + Len(d) /\ c \o d \in Seq(Byte)
<1> DEFINE j == c \o d
           n == Len(c)
           m == Len(d)
<1>1. n \in Nat /\ m \in Nat /\ Len(j) = n + m
  OBVIOUS
<1>2. /\ \A k \in 1 .. n : j[k] = c[k]
      /\ \A k \in 1 .. m : j[n + k] = d[k]
  OBVIOUS
<1>3. \A k \in 1 .. n + m : a + k <= Len(bs) => bs[a + k] = j[k]
  BY <1>1 DEF Holds
<1>4. j \in Seq(Byte)
  OBVIOUS
<1> HIDE DEF j, n, m
<1>5. ASSUME NEW k \in 1 .. n, a + k <= Len(bs) PROVE bs[a + k] = c[k]
  <2>1. k \in 1 .. n + m
    BY <1>1
  <2> QED
    BY <1>2, <1>3, <1>5, <2>1
<1>6. ASSUME NEW k \in 1 .. m, a + n + k <= Len(bs) PROVE bs[a + n + k] = d[k]
  <2>1. n + k \in 1 .. n + m /\ a + (n + k) = a + n + k
    BY <1>1
  <2>2. bs[a + (n + k)] = j[n + k]
    BY <1>3, <1>6, <2>1
  <2> QED
    BY <1>2, <2>1, <2>2
<1> QED
  BY <1>1, <1>4, <1>5, <1>6 DEF Holds, j, n, m

\* A read of n bytes.
LEMMA BytesRead ==
  ASSUME pBuffer \in Seq(Byte), NEW a \in Nat, NEW n \in Nat
  PROVE  /\ a + n <= Len(pBuffer) =>
              ReadBytes(a, n) = [ok |-> TRUE, data |-> Slice(a, n), to |-> a + n]
         /\ ~ (a + n <= Len(pBuffer)) => ReadBytes(a, n) = Fail(a)
BY Zenon DEF ReadBytes, Fits

\* What is read of bytes that are there.
LEMMA WholeRead ==
  ASSUME pBuffer \in Seq(Byte), NEW a \in Nat, NEW c \in Seq(Byte), Holds(pBuffer, a, c),
         a + Len(c) <= Len(pBuffer)
  PROVE  /\ ReadBytes(a, Len(c)) = [ok |-> TRUE, data |-> c, to |-> a + Len(c)]
         /\ ReadData(a, Len(c)) = [ok |-> TRUE, data |-> c, to |-> a + Len(c)]
<1>1. Slice(a, Len(c)) = c
  BY PartHeld DEF Slice
<1>2. ReadBytes(a, Len(c)) = [ok |-> TRUE, data |-> c, to |-> a + Len(c)]
  <2> DEFINE n == Len(c)
  <2>1. n \in Nat /\ a + n <= Len(pBuffer) /\ Slice(a, n) = c
    BY <1>1
  <2> HIDE DEF n
  <2>2. ReadBytes(a, n) = [ok |-> TRUE, data |-> Slice(a, n), to |-> a + n]
    BY <2>1, BytesRead
  <2> QED
    BY <2>1, <2>2 DEF n
<1>3. CASE Len(c) = 0
  <2>1. c = <<>> /\ a + 0 = a
    BY <1>3
  <2>2. ReadData(a, 0) = [ok |-> TRUE, data |-> <<>>, to |-> a]
    BY Zenon DEF ReadData
  <2> QED
    BY <1>2, <1>3, <2>1, <2>2
<1>4. CASE Len(c) # 0
  BY <1>2, <1>4, Zenon DEF ReadData
<1> QED
  BY <1>3, <1>4

\* What is read of bytes that are not all there.
LEMMA NoneRead ==
  ASSUME pBuffer \in Seq(Byte), NEW a \in Nat, NEW n \in Nat, ~ (a + n <= Len(pBuffer)), a <= Len(pBuffer)
  PROVE  ReadBytes(a, n) = Fail(a) /\ ReadData(a, n) = Fail(a)
<1>1. n # 0
  OBVIOUS
<1>2. ReadBytes(a, n) = Fail(a)
  BY BytesRead
<1> QED
  BY <1>1, <1>2, Zenon DEF ReadData

\* A text: its length, if it is there, and what the length says.
LEMMA StringRead ==
  ASSUME BufferAssumption, pBuffer \in Seq(Byte), NEW a \in Nat, NEW kind \in {"string", "byteString"}
  PROVE  /\ a + LengthSize(kind) <= Len(pBuffer) =>
              ReadString(kind, a)
                = ReadData(a + LengthSize(kind), Number(Put(bToFromNetwork, Slice(a, LengthSize(kind)))))
         /\ ~ (a + LengthSize(kind) <= Len(pBuffer)) =>
              ReadString(kind, a) = [ok |-> TRUE, data |-> <<>>, to |-> a]
<1> DEFINE size == LengthSize(kind)
           length == ReadBytes(a, size)
           usLength == IF length.ok THEN Number(Ordered(length.data)) ELSE 0
<1>1. size \in Nat /\ ~ Sized(kind)
  BY DEF LengthSize, Sized
<1> HIDE DEF size
<1>2. ReadString(kind, a) = ReadData(length.to, usLength)
  BY <1>1, Zenon DEF ReadString, size
<1>3. CASE a + size <= Len(pBuffer)
  <2>1. length = [ok |-> TRUE, data |-> Slice(a, size), to |-> a + size]
    BY <1>1, <1>3, BytesRead
  <2> HIDE DEF length
  <2>2. length.ok = TRUE /\ length.data = Slice(a, size) /\ length.to = a + size
    BY <2>1
  <2>3. usLength = Number(Ordered(length.data))
    BY <2>2, Zenon
  <2> QED
    BY <1>2, <1>3, <2>2, <2>3, OrderedIs, Zenon DEF size
<1>4. CASE ~ (a + size <= Len(pBuffer))
  <2>1. length = [ok |-> FALSE, data |-> <<>>, to |-> a]
    BY <1>1, <1>4, BytesRead DEF Fail
  <2> HIDE DEF length
  <2>2. length.ok = FALSE /\ length.to = a
    BY <2>1
  <2>3. usLength = 0
    BY <2>2, Zenon
  <2>4. ReadData(a, 0) = [ok |-> TRUE, data |-> <<>>, to |-> a]
    BY Zenon DEF ReadData
  <2> QED
    BY <1>2, <1>4, <2>2, <2>3, <2>4, Zenon DEF size
<1> QED
  BY <1>3, <1>4, Zenon DEF size

\* A buffer: the short length, and the long one if the short one is the marker.
LEMMA BufferRead ==
  ASSUME BufferAssumption, pBuffer \in Seq(Byte), NEW a \in Nat, NEW n,
         n = Number(Put(bToFromNetwork, Slice(a, 2)))
  PROVE  /\ ~ (a + 2 <= Len(pBuffer)) => ReadBuffer(a) = Fail(a)
         /\ a + 2 <= Len(pBuffer) /\ n # Marker => ReadBuffer(a) = ReadData(a + 2, n)
         /\ a + 2 <= Len(pBuffer) /\ n = Marker /\ ~ (a + 2 + 4 <= Len(pBuffer)) =>
              ReadBuffer(a) = Fail(a + 2)
         /\ a + 2 + 4 <= Len(pBuffer) /\ n = Marker =>
              ReadBuffer(a) = ReadData(a + 2 + 4, Number(Put(bToFromNetwork, Slice(a + 2, 4))))
<1> DEFINE short == ReadBytes(a, 2)
           long == ReadBytes(short.to, 4)
           chosen == IF short.ok /\ Number(Ordered(short.data)) = Marker THEN long ELSE short
<1>1. ReadBuffer(a) = IF chosen.ok THEN ReadData(chosen.to, Number(Ordered(chosen.data))) ELSE Fail(chosen.to)
  BY Zenon DEF ReadBuffer
<1>2. CASE ~ (a + 2 <= Len(pBuffer))
  <2>1. short = Fail(a) /\ ~ (a + 2 + 4 <= Len(pBuffer))
    BY <1>2, BytesRead
  <2>2. Fail(a).ok = FALSE /\ Fail(a).to = a
    BY DEF Fail
  <2> HIDE DEF short
  <2>3. chosen = short
    BY <2>1, <2>2, Zenon
  <2> QED
    BY <1>1, <1>2, <2>1, <2>2, <2>3, Zenon
<1>3. CASE a + 2 <= Len(pBuffer)
  <2>1. short = [ok |-> TRUE, data |-> Slice(a, 2), to |-> a + 2]
    BY <1>3, BytesRead
  <2> HIDE DEF short
  <2>2. short.ok = TRUE /\ short.data = Slice(a, 2) /\ short.to = a + 2
    BY <2>1
  <2>3. Number(Ordered(short.data)) = n
    BY <2>2, OrderedIs, Zenon
  <2>4. CASE n # Marker
    <3>1. chosen = short
      BY <2>3, <2>4, Zenon
    <3> QED
      BY <1>1, <1>3, <2>2, <2>3, <2>4, <3>1, Zenon
  <2>5. CASE n = Marker
    <3>1. chosen = long /\ long = ReadBytes(a + 2, 4)
      BY <2>2, <2>3, <2>5, Zenon
    <3>2. CASE a + 2 + 4 <= Len(pBuffer)
      <4>1. long = [ok |-> TRUE, data |-> Slice(a + 2, 4), to |-> a + 2 + 4]
        <5> DEFINE b == a + 2
        <5>1. b \in Nat /\ b + 4 <= Len(pBuffer) /\ long = ReadBytes(b, 4)
          BY <3>1, <3>2
        <5> HIDE DEF b, long
        <5>2. long = [ok |-> TRUE, data |-> Slice(b, 4), to |-> b + 4]
          BY <5>1, BytesRead
        <5> QED
          BY <5>2 DEF b
      <4> HIDE DEF long
      <4>2. long.ok = TRUE /\ long.data = Slice(a + 2, 4) /\ long.to = a + 2 + 4
        BY <4>1
      <4>3. ReadBuffer(a) = ReadData(a + 2 + 4, Number(Put(bToFromNetwork, Slice(a + 2, 4))))
        BY <1>1, <3>1, <4>2, OrderedIs, Zenon
      <4> QED
        BY <1>3, <2>5, <3>2, <4>3, Zenon
    <3>3. CASE ~ (a + 2 + 4 <= Len(pBuffer))
      <4>1. long = Fail(a + 2)
        BY <3>1, <3>3, BytesRead
      <4>2. Fail(a + 2).ok = FALSE /\ Fail(a + 2).to = a + 2
        BY DEF Fail
      <4> HIDE DEF long
      <4>3. ReadBuffer(a) = Fail(a + 2)
        BY <1>1, <3>1, <4>1, <4>2, Zenon
      <4> QED
        BY <1>3, <2>5, <3>3, <4>3, Zenon
    <3> QED
      BY <3>2, <3>3
  <2> QED
    BY <2>4, <2>5
<1> QED
  BY <1>2, <1>3

\* What a read gives of an item that is not there, or not all of it: nothing, and it fails
\* unless it was a text whose length is missing.
Missing(r) ==
  /\ r.data = <<>> /\ r.ok \in BOOLEAN /\ r.to \in 0 .. Len(pBuffer)
  /\ r.ok => Len(pBuffer) - r.to <= 1

LEMMA FailMisses ==
  ASSUME pBuffer \in Seq(Byte), NEW a \in Nat, a <= Len(pBuffer)
  PROVE  Missing(Fail(a))
<1>1. Fail(a).data = <<>> /\ Fail(a).ok = FALSE /\ Fail(a).to = a
  BY DEF Fail
<1>2. a \in 0 .. Len(pBuffer)
  OBVIOUS
<1> QED
  BY <1>1, <1>2 DEF Missing

LEMMA EmptyMisses ==
  ASSUME pBuffer \in Seq(Byte), NEW a \in Nat, a <= Len(pBuffer), Len(pBuffer) - a <= 1
  PROVE  Missing([ok |-> TRUE, data |-> <<>>, to |-> a])
<1> DEFINE r == [ok |-> TRUE, data |-> <<>>, to |-> a]
<1>1. r.data = <<>> /\ r.ok = TRUE /\ r.to = a
  OBVIOUS
<1>2. a \in 0 .. Len(pBuffer)
  OBVIOUS
<1> HIDE DEF r
<1>3. Missing(r)
  BY <1>1, <1>2 DEF Missing
<1> QED
  BY <1>3 DEF r

\* A length of bytes that are there.
LEMMA LengthThere ==
  ASSUME BufferAssumption, pBuffer \in Seq(Byte), bToFromNetwork \in BOOLEAN,
         NEW a \in Nat, NEW size \in {1, 2, 4}, NEW v \in Nat, v < ValuesOf(size),
         Holds(pBuffer, a, Put(bToFromNetwork, AsBytes(size, v))), a + size <= Len(pBuffer)
  PROVE  Number(Put(bToFromNetwork, Slice(a, size))) = v
<1> DEFINE l == Put(bToFromNetwork, AsBytes(size, v))
<1>1. l \in Seq(Byte) /\ Len(l) = size /\ Number(Put(bToFromNetwork, l)) = v
  BY PutNumber
<1> HIDE DEF l
<1>2. Holds(pBuffer, a, l)
  BY DEF l
<1>3. SubSeq(pBuffer, a + 1, a + Len(l)) = l
  BY <1>1, <1>2, PartHeld
<1> QED
  BY <1>1, <1>3 DEF Slice

\* Data behind a length.
LEMMA DataRead ==
  ASSUME pBuffer \in Seq(Byte), NEW a \in Nat, NEW d \in Seq(Byte), Holds(pBuffer, a, d), a <= Len(pBuffer)
  PROVE  /\ a + Len(d) <= Len(pBuffer) =>
              ReadData(a, Len(d)) = [ok |-> TRUE, data |-> d, to |-> a + Len(d)]
         /\ ~ (a + Len(d) <= Len(pBuffer)) => Missing(ReadData(a, Len(d)))
<1>1. Len(d) \in Nat
  OBVIOUS
<1>2. CASE a + Len(d) <= Len(pBuffer)
  BY <1>2, WholeRead
<1>3. CASE ~ (a + Len(d) <= Len(pBuffer))
  <2> DEFINE n == Len(d)
  <2>1. n \in Nat /\ ~ (a + n <= Len(pBuffer))
    BY <1>1, <1>3
  <2> HIDE DEF n
  <2>2. ReadData(a, n) = Fail(a)
    BY <2>1, NoneRead
  <2>3. Missing(ReadData(a, n))
    BY <2>2, FailMisses
  <2> QED
    BY <1>3, <2>3 DEF n
<1> QED
  BY <1>2, <1>3

\* What reading an item gives if its bytes stand behind place a, as far as there are any.
Gives(r, i, a) ==
  /\ a + Len(Code(bToFromNetwork, i)) <= Len(pBuffer) =>
       r = [ok |-> TRUE, data |-> i.data, to |-> a + Len(Code(bToFromNetwork, i))]
  /\ ~ (a + Len(Code(bToFromNetwork, i)) <= Len(pBuffer)) => Missing(r)

LEMMA StringItem ==
  ASSUME BufferAssumption, ItemsFit, pBuffer \in Seq(Byte), bToFromNetwork \in BOOLEAN,
         NEW i \in Items, i.kind \in {"string", "byteString"},
         NEW a \in Nat, a <= Len(pBuffer), Holds(pBuffer, a, Code(bToFromNetwork, i))
  PROVE  Gives(ReadString(i.kind, a), i, a)
<1> DEFINE size == LengthSize(i.kind)
           d == i.data
           n == Len(d)
           l == Put(bToFromNetwork, AsBytes(size, n))
           c == Code(bToFromNetwork, i)
           b == a + size
<1>1. size \in {1, 2} /\ d \in Seq(Byte) /\ n \in Nat /\ n < ValuesOf(size)
  BY ItemIs
<1>2. c = l \o d
  <2>1. LengthCode(bToFromNetwork, i) = l
    BY DEF LengthCode
  <2>2. c = LengthCode(bToFromNetwork, i) \o d
    BY Zenon DEF Code
  <2> QED
    BY <2>1, <2>2
<1> HIDE DEF size, d
<1>3. l \in Seq(Byte) /\ Len(l) = size
  BY <1>1, PutNumber
<1> HIDE DEF c
<1>4. Holds(pBuffer, a, c)
  BY DEF c
<1> HIDE DEF l, n
<1>5. /\ Holds(pBuffer, a, l) /\ Holds(pBuffer, b, d)
      /\ Len(c) = size + n
  <2>1. /\ Holds(pBuffer, a, l) /\ Holds(pBuffer, a + Len(l), d)
        /\ Len(l \o d) = Len(l) + Len(d)
    BY <1>1, <1>2, <1>3, <1>4, HeldParts
  <2> QED
    BY <1>2, <1>3, <2>1 DEF n
<1> DEFINE r == ReadString(i.kind, a)
<1>6. CASE ~ (b <= Len(pBuffer))
  <2>1. r = [ok |-> TRUE, data |-> <<>>, to |-> a]
    BY <1>6, StringRead DEF size
  <2>2. Len(pBuffer) - a <= 1
    BY <1>1, <1>6
  <2>3. Missing(r)
    BY <2>1, <2>2, EmptyMisses
  <2>4. ~ (a + Len(c) <= Len(pBuffer))
    BY <1>1, <1>5, <1>6
  <2> QED
    BY <2>3, <2>4, Zenon DEF Gives, c
<1>7. CASE b <= Len(pBuffer)
  <2>1. Number(Put(bToFromNetwork, Slice(a, size))) = n
    <3>1. a + size <= Len(pBuffer) /\ Holds(pBuffer, a, Put(bToFromNetwork, AsBytes(size, n)))
      BY <1>5, <1>7 DEF l
    <3> QED
      BY <1>1, <3>1, LengthThere
  <2>2. r = ReadData(b, n)
    BY <1>7, <2>1, StringRead DEF size
  <2>3. b \in Nat /\ b + n = a + Len(c)
    BY <1>1, <1>5
  <2> HIDE DEF r, b
  <2>4. /\ b + Len(d) <= Len(pBuffer) => ReadData(b, Len(d)) = [ok |-> TRUE, data |-> d, to |-> b + Len(d)]
        /\ ~ (b + Len(d) <= Len(pBuffer)) => Missing(ReadData(b, Len(d)))
    BY <1>1, <1>5, <1>7, <2>3, DataRead
  <2>5. /\ a + Len(c) <= Len(pBuffer) => r = [ok |-> TRUE, data |-> d, to |-> a + Len(c)]
        /\ ~ (a + Len(c) <= Len(pBuffer)) => Missing(r)
    BY <2>2, <2>3, <2>4, Zenon DEF n
  <2> QED
    BY <2>5, Zenon DEF Gives, c, d, r
<1> QED
  BY <1>6, <1>7

LEMMA BufferItem ==
  ASSUME BufferAssumption, ItemsFit, pBuffer \in Seq(Byte), bToFromNetwork \in BOOLEAN,
         NEW i \in Items, i.kind = "buffer",
         NEW a \in Nat, a <= Len(pBuffer), Holds(pBuffer, a, Code(bToFromNetwork, i))
  PROVE  Gives(ReadBuffer(a), i, a)
<1> DEFINE d == i.data
           n == Len(d)
           c == Code(bToFromNetwork, i)
           b == a + 2
           e == a + 2 + 4
           r == ReadBuffer(a)
           m == Number(Put(bToFromNetwork, Slice(a, 2)))
<1>1. d \in Seq(Byte) /\ n \in Nat /\ n < ValuesOf(4)
  BY ItemIs
<1>2. c = LengthCode(bToFromNetwork, i) \o d
  BY Zenon DEF Code
<1>3. Holds(pBuffer, a, c)
  OBVIOUS
<1> HIDE DEF c, d, m
<1>4. CASE ~ (n > Marker - 1)
  <2> DEFINE l == Put(bToFromNetwork, AsBytes(2, n))
  <2>1. n < ValuesOf(2) /\ n # Marker
    BY <1>1, <1>4, TwoBytes
  <2>2. LengthCode(bToFromNetwork, i) = l
    BY <1>4, Zenon DEF LengthCode, d
  <2>3. l \in Seq(Byte) /\ Len(l) = 2
    BY <1>1, <2>1, PutNumber
  <2>4. Holds(pBuffer, a, l) /\ Holds(pBuffer, b, d) /\ Len(c) = 2 + n
    <3> HIDE DEF l
    <3>1. /\ Holds(pBuffer, a, l) /\ Holds(pBuffer, a + Len(l), d)
          /\ Len(l \o d) = Len(l) + Len(d)
      <4>1. Holds(pBuffer, a, l \o d)
        BY <1>2, <1>3, <2>2
      <4>2. d \in Seq(Byte) /\ l \in Seq(Byte)
        BY <1>1, <2>3
      <4> HIDE DEF n, b, e, r
      <4> QED
        BY <4>1, <4>2, HeldParts
    <3> QED
      BY <1>2, <2>2, <2>3, <3>1
  <2>5. CASE ~ (b <= Len(pBuffer))
    <3>1. r = Fail(a)
      BY <2>5, BufferRead
    <3>2. Missing(r) /\ ~ (a + Len(c) <= Len(pBuffer))
      BY <1>1, <2>4, <2>5, <3>1, FailMisses
    <3> QED
      BY <3>2, Zenon DEF Gives, c
  <2>6. CASE b <= Len(pBuffer)
    <3>1. m = n
      BY <1>1, <2>1, <2>4, <2>6, LengthThere DEF m
    <3>2. r = ReadData(b, n)
      BY <2>1, <2>6, <3>1, BufferRead DEF m
    <3>3. b \in Nat /\ b + n = a + Len(c)
      BY <1>1, <2>4
    <3> HIDE DEF r, b
    <3>4. /\ b + Len(d) <= Len(pBuffer) => ReadData(b, Len(d)) = [ok |-> TRUE, data |-> d, to |-> b + Len(d)]
          /\ ~ (b + Len(d) <= Len(pBuffer)) => Missing(ReadData(b, Len(d)))
      BY <1>1, <2>4, <2>6, <3>3, DataRead
    <3>5. /\ a + Len(c) <= Len(pBuffer) => r = [ok |-> TRUE, data |-> d, to |-> a + Len(c)]
          /\ ~ (a + Len(c) <= Len(pBuffer)) => Missing(r)
      BY <3>2, <3>3, <3>4, Zenon
    <3> QED
      BY <3>5, Zenon DEF Gives, c, d, r
  <2> QED
    BY <2>5, <2>6
<1>5. CASE n > Marker - 1
  <2> DEFINE k == Put(bToFromNetwork, AsBytes(2, Marker))
             l == Put(bToFromNetwork, AsBytes(4, n))
  <2>1. LengthCode(bToFromNetwork, i) = k \o l
    BY <1>5, Zenon DEF LengthCode, d
  <2>2. k \in Seq(Byte) /\ Len(k) = 2
    BY TwoBytes, PutNumber
  <2>3. l \in Seq(Byte) /\ Len(l) = 4
    BY <1>1, PutNumber
  <2>4. /\ Holds(pBuffer, a, k) /\ Holds(pBuffer, b, l) /\ Holds(pBuffer, e, d)
        /\ Len(c) = 6 + n
    <3> DEFINE h == k \o l
    <3> HIDE DEF k, l
    <3>1. h \in Seq(Byte) /\ Len(h) = 6
      <4>1. k \o l \in Seq(Byte) /\ Len(k \o l) = Len(k) + Len(l)
        BY <2>2, <2>3, Joined
      <4> QED
        BY <2>2, <2>3, <4>1
    <3> HIDE DEF h
    <3>2. /\ Holds(pBuffer, a, h) /\ Holds(pBuffer, a + Len(h), d)
          /\ Len(h \o d) = Len(h) + Len(d)
      <4>1. Holds(pBuffer, a, h \o d)
        BY <1>2, <1>3, <2>1 DEF h
      <4>2. d \in Seq(Byte)
        BY <1>1
      <4>3. h \in Seq(Byte)
        BY <3>1
      <4> HIDE DEF n, b, e, r
      <4> QED
        BY <4>1, <4>2, <4>3, HeldParts
    <3>3. Holds(pBuffer, a, k) /\ Holds(pBuffer, a + Len(k), l)
      BY <2>2, <2>3, <3>2, HeldParts DEF h
    <3>4. a + Len(h) = e
      BY <3>1
    <3>5. c = h \o d
      BY <1>2, <2>1 DEF h
    <3> HIDE DEF e
    <3> QED
      BY <2>2, <3>1, <3>2, <3>3, <3>4, <3>5
  <2> HIDE DEF k, l
  <2>5. CASE ~ (b <= Len(pBuffer))
    <3>1. r = Fail(a)
      BY <2>5, BufferRead
    <3>2. Missing(r) /\ ~ (a + Len(c) <= Len(pBuffer))
      BY <1>1, <2>4, <2>5, <3>1, FailMisses
    <3> QED
      BY <3>2, Zenon DEF Gives, c
  <2>6. CASE b <= Len(pBuffer)
    <3>1. m = Marker
      <4>1. Holds(pBuffer, a, Put(bToFromNetwork, AsBytes(2, Marker)))
        BY <2>4 DEF k
      <4> QED
        BY <2>6, <4>1, TwoBytes, LengthThere DEF m
    <3>2. CASE ~ (e <= Len(pBuffer))
      <4>1. r = Fail(b)
        BY <2>6, <3>1, <3>2, BufferRead DEF m
      <4>2. Missing(r)
        <5>1. b \in Nat
          OBVIOUS
        <5> HIDE DEF b, r
        <5> QED
          BY <2>6, <4>1, <5>1, FailMisses
      <4>3. ~ (a + Len(c) <= Len(pBuffer))
        BY <1>1, <2>4, <3>2
      <4> QED
        BY <4>2, <4>3, Zenon DEF Gives, c
    <3>3. CASE e <= Len(pBuffer)
      <4>1. r = ReadData(e, Number(Put(bToFromNetwork, Slice(b, 4))))
        BY <3>1, <3>3, BufferRead DEF m
      <4>2. Number(Put(bToFromNetwork, Slice(b, 4))) = n
        <5>1. b \in Nat /\ b + 4 <= Len(pBuffer)
          BY <3>3
        <5>2. Holds(pBuffer, b, Put(bToFromNetwork, AsBytes(4, n)))
          BY <2>4 DEF l
        <5> HIDE DEF b
        <5> QED
          BY <1>1, <5>1, <5>2, LengthThere
      <4>3. e \in Nat /\ e + n = a + Len(c)
        BY <1>1, <2>4
      <4> HIDE DEF r, e
      <4>4. /\ e + Len(d) <= Len(pBuffer) => ReadData(e, Len(d)) = [ok |-> TRUE, data |-> d, to |-> e + Len(d)]
            /\ ~ (e + Len(d) <= Len(pBuffer)) => Missing(ReadData(e, Len(d)))
        BY <1>1, <2>4, <3>3, <4>3, DataRead
      <4>5. /\ a + Len(c) <= Len(pBuffer) => r = [ok |-> TRUE, data |-> d, to |-> a + Len(c)]
            /\ ~ (a + Len(c) <= Len(pBuffer)) => Missing(r)
        BY <4>1, <4>2, <4>3, <4>4, Zenon
      <4> QED
        BY <4>5, Zenon DEF Gives, c, d, r
    <3> QED
      BY <3>2, <3>3
  <2> QED
    BY <2>5, <2>6
<1> QED
  BY <1>4, <1>5

\* A word whose bytes are not there.
LEMMA WordMissing ==
  ASSUME pBuffer \in Seq(Byte), bToFromNetwork \in BOOLEAN,
         NEW a \in Nat, a <= Len(pBuffer), ~ (a + 2 <= Len(pBuffer))
  PROVE  Missing(ReadItem("ushort", a))
<1> DEFINE w == ReadBytes(a, 2)
           r == [w EXCEPT !.data = Ordered(@)]
<1>1. w = [ok |-> FALSE, data |-> <<>>, to |-> a]
  BY BytesRead DEF Fail
<1>2. Ordered(<<>>) = <<>>
  <2>1. <<>> \in Seq(Byte) /\ Len(<<>>) = 0
    OBVIOUS
  <2>2. Put(bToFromNetwork, <<>>) \in Seq(Byte) /\ Len(Put(bToFromNetwork, <<>>)) = 0
    BY <2>1, PutIs
  <2>3. Put(bToFromNetwork, <<>>) = <<>>
    BY <2>2
  <2> QED
    BY <2>3, OrderedIs
<1>3. ReadItem("ushort", a) = r
  BY DEF ReadItem
<1> HIDE DEF w
<1>4. w.ok = FALSE /\ w.data = <<>> /\ w.to = a
  BY <1>1
<1>5. r = [ok |-> FALSE, data |-> <<>>, to |-> a]
  BY <1>1, <1>2, <1>4
<1> HIDE DEF r
<1>6. r.data = <<>> /\ r.ok = FALSE /\ r.to = a
  BY <1>5
<1>7. a \in 0 .. Len(pBuffer)
  OBVIOUS
<1> QED
  BY <1>3, <1>6, <1>7 DEF Missing

LEMMA WordItem ==
  ASSUME BufferAssumption, ItemsFit, pBuffer \in Seq(Byte), bToFromNetwork \in BOOLEAN,
         NEW i \in Items, i.kind = "ushort",
         NEW a \in Nat, a <= Len(pBuffer), Holds(pBuffer, a, Code(bToFromNetwork, i))
  PROVE  Gives(ReadItem("ushort", a), i, a)
<1> DEFINE d == i.data
           c == Code(bToFromNetwork, i)
           w == ReadBytes(a, 2)
           r == [w EXCEPT !.data = Ordered(@)]
<1>1. d \in Seq(Byte) /\ Len(d) = 2
  BY ItemIs
<1>2. c = Put(bToFromNetwork, d)
  BY Zenon DEF Code
<1>3. Holds(pBuffer, a, c)
  OBVIOUS
<1> HIDE DEF c, d
<1>4. c \in Seq(Byte) /\ Len(c) = 2 /\ Put(bToFromNetwork, c) = d
  BY <1>1, <1>2, PutIs
<1>5. CASE ~ (a + 2 <= Len(pBuffer))
  BY <1>4, <1>5, WordMissing DEF Gives, c
<1>6. CASE a + 2 <= Len(pBuffer)
  <2>1. w = [ok |-> TRUE, data |-> c, to |-> a + 2]
    <3>1. ReadBytes(a, Len(c)) = [ok |-> TRUE, data |-> c, to |-> a + Len(c)]
      <4>1. a + Len(c) <= Len(pBuffer)
        BY <1>4, <1>6
      <4>2. c \in Seq(Byte)
        BY <1>4
      <4> QED
        BY <1>3, <4>1, <4>2, WholeRead
    <3> QED
      BY <1>4, <3>1
  <2>2. ReadItem("ushort", a) = r
    BY DEF ReadItem
  <2> HIDE DEF w
  <2>3. w.ok = TRUE /\ w.data = c /\ w.to = a + 2
    BY <2>1
  <2>4. Ordered(c) = d
    BY <1>4, OrderedIs
  <2>5. r = [ok |-> TRUE, data |-> d, to |-> a + 2]
    <3>1. Ordered(w.data) = d
      BY <2>3, <2>4
    <3>2. r = [w EXCEPT !.data = d]
      BY <3>1
    <3> HIDE DEF r
    <3> QED
      BY <2>1, <3>2
  <2> HIDE DEF r
  <2>6. a + Len(c) = a + 2 /\ a + Len(c) <= Len(pBuffer)
    BY <1>4, <1>6
  <2>7. /\ a + Len(c) <= Len(pBuffer) => ReadItem("ushort", a) = [ok |-> TRUE, data |-> d, to |-> a + Len(c)]
        /\ ~ (a + Len(c) <= Len(pBuffer)) => Missing(ReadItem("ushort", a))
    BY <2>2, <2>5, <2>6
  <2> QED
    BY <2>7, Zenon DEF Gives, c, d
<1> QED
  BY <1>5, <1>6

\* Reading any item.
LEMMA ItemRead ==
  ASSUME BufferAssumption, ItemsFit, pBuffer \in Seq(Byte), bToFromNetwork \in BOOLEAN, NEW i \in Items,
         NEW a \in Nat, a <= Len(pBuffer), Holds(pBuffer, a, Code(bToFromNetwork, i))
  PROVE  Gives(ReadItem(i.kind, a), i, a)
<1>1. i.kind \in {"string", "byteString", "buffer", "ushort"}
  BY ItemIs
<1>2. CASE i.kind = "buffer"
  <2>1. ReadItem(i.kind, a) = ReadBuffer(a)
    BY <1>2 DEF ReadItem
  <2> QED
    BY <1>2, <2>1, BufferItem
<1>3. CASE i.kind = "ushort"
  BY <1>3, WordItem
<1>4. CASE i.kind \in {"string", "byteString"}
  <2>1. ReadItem(i.kind, a) = ReadString(i.kind, a)
    BY <1>4 DEF ReadItem
  <2> QED
    BY <1>4, <2>1, StringItem
<1> QED
  BY <1>1, <1>2, <1>3, <1>4

\* Nothing is made of the one byte that may be left when a length was missing.
LEMMA LostRead ==
  ASSUME BufferAssumption, ItemsFit, pBuffer \in Seq(Byte), bToFromNetwork \in BOOLEAN, NEW i \in Items,
         NEW a \in Nat, a <= Len(pBuffer), Len(pBuffer) - a <= 1
  PROVE  Missing(ReadItem(i.kind, a))
<1>1. i.kind \in {"string", "byteString", "buffer", "ushort"}
  BY ItemIs
<1>2. ~ (a + 2 <= Len(pBuffer))
  OBVIOUS
<1>3. CASE i.kind = "buffer"
  <2>1. ReadItem(i.kind, a) = ReadBuffer(a)
    BY <1>3 DEF ReadItem
  <2>2. ReadBuffer(a) = Fail(a)
    BY <1>2, BufferRead
  <2> QED
    BY <2>1, <2>2, FailMisses
<1>4. CASE i.kind = "ushort"
  BY <1>2, <1>4, WordMissing
<1>5. CASE i.kind \in {"string", "byteString"}
  <2> DEFINE size == LengthSize(i.kind)
             r == ReadString(i.kind, a)
  <2>1. ReadItem(i.kind, a) = r
    BY <1>5 DEF ReadItem
  <2>2. size \in {1, 2}
    BY <1>5, ItemIs
  <2>3. CASE ~ (a + size <= Len(pBuffer))
    <3>1. r = [ok |-> TRUE, data |-> <<>>, to |-> a]
      BY <1>5, <2>3, StringRead
    <3> QED
      BY <2>1, <3>1, EmptyMisses
  <2>4. CASE a + size <= Len(pBuffer)
    <3> DEFINE s == Slice(a, size)
               n == Number(Put(bToFromNetwork, s))
    <3>1. size = 1 /\ a + 1 = Len(pBuffer)
      BY <2>2, <2>4
    <3>2. r = ReadData(a + size, n)
      BY <1>5, <2>4, StringRead
    <3>3. s \in Seq(Byte) /\ Len(s) = 1
      <4>1. SubSeq(pBuffer, a + 1, a + 1) \in Seq(Byte) /\ Len(SubSeq(pBuffer, a + 1, a + 1)) = 1
        BY <3>1
      <4> QED
        BY <3>1, <4>1 DEF Slice
    <3>4. n \in Nat
      <4> DEFINE u == Put(bToFromNetwork, s)
                 t == [k \in 0 .. 1 |-> IF k = 0 THEN 0 ELSE u[1]]
      <4> HIDE DEF s
      <4>1. u \in Seq(Byte) /\ Len(u) = 1
        BY <3>3, PutIs
      <4> HIDE DEF u
      <4>2. u \in Seq(Nat) /\ u[1] \in Nat
        <5>1. BYTE \in Nat
          BY ByteValues
        <5>2. u \in Seq(Nat)
          BY <4>1, <5>1 DEF Byte
        <5>3. u[1] \in Byte
          BY <4>1
        <5> QED
          BY <5>1, <5>2, <5>3 DEF Byte
      <4>3. t \in [0 .. 1 -> Nat] /\ t[0] = 0 /\ t[1] = u[1]
        BY <4>2
      <4>4. Weight[1] = 1
        BY DEF Weight
      <4>5. \A k \in 1 .. 1 : t[k] = t[k - 1] + u[k] * Weight[k]
        BY <4>2, <4>3, <4>4
      <4> HIDE DEF t
      <4>6. Number(u) = t[1]
        <5>1. u \in Seq(Nat)
          BY <4>2
        <5>2. t \in [0 .. Len(u) -> Nat] /\ Len(u) \in 1 .. 4
          BY <4>1, <4>3
        <5>3. t[0] = 0 /\ \A k \in 1 .. Len(u) : t[k] = t[k - 1] + u[k] * Weight[k]
          BY <4>1, <4>3, <4>5
        <5>4. Number(u) = t[Len(u)]
          BY <5>1, <5>2, <5>3, NumberIs
        <5> QED
          BY <4>1, <5>4
      <4> QED
        BY <4>2, <4>3, <4>6 DEF u
    <3> DEFINE b == a + size
    <3>5. b \in Nat /\ b = Len(pBuffer)
      BY <3>1
    <3> HIDE DEF n, b
    <3>6. CASE n = 0
      <4>1. ReadData(b, n) = [ok |-> TRUE, data |-> <<>>, to |-> b]
        BY <3>6, Zenon DEF ReadData
      <4>2. Missing(ReadData(b, n))
        BY <3>5, <4>1, EmptyMisses
      <4> QED
        BY <2>1, <3>2, <4>2 DEF b
    <3>7. CASE n # 0
      <4>1. ~ (b + n <= Len(pBuffer)) /\ b <= Len(pBuffer)
        BY <3>4, <3>5, <3>7
      <4>2. ReadData(b, n) = Fail(b)
        BY <3>4, <3>5, <4>1, NoneRead
      <4>3. Missing(ReadData(b, n))
        BY <3>5, <4>2, FailMisses
      <4> QED
        BY <2>1, <3>2, <4>3 DEF b
    <3> QED
      BY <3>6, <3>7
  <2> QED
    BY <2>3, <2>4
<1> QED
  BY <1>1, <1>3, <1>4, <1>5

(* ------------------------------ the invariant ----------------------------- *)

\* Item k of those not yet read stands behind place at[k], as far as there are bytes.
LaidOut(at, is, bs, net) ==
  /\ at \in [1 .. Len(is) + 1 -> Nat]
  /\ \A k \in 1 .. Len(is) + 1 : at[k] <= at[Len(is) + 1]
  /\ \A k \in 1 .. Len(is) :
       /\ at[k + 1] = at[k] + Len(Code(net, is[k]))
       /\ Holds(bs, at[k], Code(net, is[k]))

\* The reader stands before the next item: of a whole buffer up to its end.
StandsBefore(at, is, bs, net, p, short) ==
  /\ LaidOut(at, is, bs, net) /\ at[1] = p
  /\ ~ short => at[Len(is) + 1] = Len(bs)

\* Or its buffer was cut and nothing can be read any more.
Stands(is, bs, net, p, short, going) ==
  \/ \E at : StandsBefore(at, is, bs, net, p, short)
  \/ short /\ Len(bs) - p <= 1
  \/ short /\ ~ going

Told(result, short) ==
  /\ result.item \in Items \cup {Nothing} /\ result.ok \in BOOLEAN
  /\ result.data \in {result.item.data, <<>>}
  /\ ~ short => result.ok /\ result.data = result.item.data

StreamInv ==
  /\ pBuffer \in Seq(Byte) /\ bToFromNetwork \in BOOLEAN /\ unread \in Seq(Items)
  /\ m_iPos \in 0 .. Len(pBuffer) /\ cut \in BOOLEAN
  /\ Told(lastRead, cut)
  /\ Stands(unread, pBuffer, bToFromNetwork, m_iPos, cut, lastRead.ok)

\* The invariant says what the property asks.
LEMMA StreamInvReadsBack == StreamInv => ReadsBack
<1> SUFFICES ASSUME StreamInv PROVE ReadsBack
  OBVIOUS
<1>1. /\ pBuffer \in Seq(Byte) /\ bToFromNetwork \in BOOLEAN /\ unread \in Seq(Items)
      /\ m_iPos \in 0 .. Len(pBuffer) /\ cut \in BOOLEAN /\ Told(lastRead, cut)
  BY DEF StreamInv
<1>2. StreamTypeOK
  BY <1>1 DEF StreamTypeOK, Told
<1>3. NothingInvented
  BY <1>1 DEF NothingInvented, Told
<1>4. ~ cut => lastRead.ok /\ lastRead.data = lastRead.item.data
  BY <1>1 DEF Told
<1>5. ASSUME ~ cut, unread = <<>> PROVE m_iPos = Len(pBuffer)
  <2>1. PICK at : StandsBefore(at, unread, pBuffer, bToFromNetwork, m_iPos, cut)
    BY <1>5 DEF StreamInv, Stands
  <2>2. Len(unread) = 0
    BY <1>5
  <2>3. at[1] = m_iPos /\ at[0 + 1] = Len(pBuffer)
    BY <1>5, <2>1, <2>2, Zenon DEF StandsBefore
  <2> QED
    BY <2>3
<1>6. ItemsReadBack
  BY <1>4, <1>5 DEF ItemsReadBack
<1> QED
  BY <1>2, <1>3, <1>6 DEF ReadsBack

LEMMA StreamInvInit == StreamInit => StreamInv
<1> SUFFICES ASSUME StreamInit PROVE StreamInv
  OBVIOUS
<1>1. /\ pBuffer = <<>> /\ unread = <<>> /\ m_iPos = 0 /\ cut = FALSE /\ bToFromNetwork \in BOOLEAN
      /\ lastRead = [ok |-> TRUE, item |-> Nothing, data |-> <<>>]
  BY DEF StreamInit
<1>2. <<>> \in Seq(Byte) /\ <<>> \in Seq(Items) /\ Len(<<>>) = 0 /\ 1 .. 0 = {}
  OBVIOUS
<1>3. lastRead.ok = TRUE /\ lastRead.item = Nothing /\ lastRead.data = <<>>
  BY <1>1
<1>4. Nothing.data = <<>>
  BY DEF Nothing
<1>5. Told(lastRead, cut)
  BY <1>3, <1>4 DEF Told
<1>6. StandsBefore([k \in 1 .. 1 |-> 0], <<>>, <<>>, bToFromNetwork, 0, FALSE)
  <2> DEFINE at == [k \in 1 .. 1 |-> 0]
  <2>1. at \in [1 .. 1 -> Nat] /\ at[1] = 0
    OBVIOUS
  <2> HIDE DEF at
  <2>2. LaidOut(at, <<>>, <<>>, bToFromNetwork)
    BY <1>2, <2>1 DEF LaidOut
  <2>3. StandsBefore(at, <<>>, <<>>, bToFromNetwork, 0, FALSE)
    BY <1>2, <2>1, <2>2 DEF StandsBefore
  <2> QED
    BY <2>3 DEF at
<1>7. Stands(unread, pBuffer, bToFromNetwork, m_iPos, cut, lastRead.ok)
  BY <1>1, <1>6 DEF Stands
<1>8. m_iPos \in 0 .. Len(pBuffer)
  BY <1>1, <1>2
<1> QED
  BY <1>1, <1>2, <1>5, <1>7, <1>8 DEF StreamInv

\* Bytes that are added stand behind those that were there.
LEMMA HeldStill ==
  ASSUME NEW bs \in Seq(Byte), NEW c \in Seq(Byte), NEW a \in Nat, NEW d \in Seq(Byte),
         Holds(bs, a, d), a + Len(d) <= Len(bs)
  PROVE  Holds(bs \o c, a, d)
<1> DEFINE j == bs \o c
<1>1. Len(j) = Len(bs) + Len(c) /\ Len(bs) \in Nat /\ \A k \in 1 .. Len(bs) : j[k] = bs[k]
  OBVIOUS
<1> HIDE DEF j
<1>2. ASSUME NEW k \in 1 .. Len(d) PROVE j[a + k] = d[k]
  <2>1. a + k \in 1 .. Len(bs) /\ a + k <= Len(bs)
    BY <1>1
  <2>2. bs[a + k] = d[k]
    BY <2>1 DEF Holds
  <2> QED
    BY <1>1, <2>1, <2>2
<1>3. Holds(j, a, d)
  BY <1>2 DEF Holds
<1> QED
  BY <1>3 DEF j

LEMMA HeldNew ==
  ASSUME NEW bs \in Seq(Byte), NEW c \in Seq(Byte)
  PROVE  Holds(bs \o c, Len(bs), c)
<1> DEFINE j == bs \o c
<1>1. \A k \in 1 .. Len(c) : j[Len(bs) + k] = c[k]
  OBVIOUS
<1> HIDE DEF j
<1>2. Holds(j, Len(bs), c)
  BY <1>1 DEF Holds
<1> QED
  BY <1>2 DEF j

\* The places with one more item behind the n before, which ends at e.
PlacesTo(u, at, n, e) ==
  /\ u \in [1 .. n + 2 -> Nat] /\ u[n + 2] = e
  /\ \A k \in 1 .. n + 1 : u[k] = at[k]

LEMMA LaidOutNext ==
  ASSUME BufferAssumption, ItemsFit, NEW net \in BOOLEAN, NEW is \in Seq(Items), NEW bs \in Seq(Byte),
         NEW at, LaidOut(at, is, bs, net), at[Len(is) + 1] = Len(bs), NEW i \in Items
  PROVE  \E u : /\ LaidOut(u, Append(is, i), bs \o Code(net, i), net) /\ u[1] = at[1]
                /\ u[Len(Append(is, i)) + 1] = Len(bs \o Code(net, i))
<1> DEFINE n == Len(is)
           c == Code(net, i)
           e == Len(bs) + Len(c)
           u == [k \in 1 .. n + 2 |-> IF k = n + 2 THEN e ELSE at[k]]
           js == Append(is, i)
           cs == bs \o c
<1>1. n \in Nat /\ c \in Seq(Byte) /\ Len(c) \in Nat /\ e \in Nat /\ Len(bs) \in Nat
  BY CodeIs
<1>2. /\ at \in [1 .. n + 1 -> Nat] /\ at[n + 1] = Len(bs)
      /\ \A k \in 1 .. n + 1 : at[k] <= at[n + 1]
      /\ \A k \in 1 .. n : at[k + 1] = at[k] + Len(Code(net, is[k])) /\ Holds(bs, at[k], Code(net, is[k]))
  BY DEF LaidOut
<1>3. PlacesTo(u, at, n, e)
  <2>1. ASSUME NEW k \in 1 .. n + 1 PROVE k \in 1 .. n + 2 /\ k # n + 2
    BY <1>1
  <2> QED
    BY <1>1, <1>2, <2>1 DEF PlacesTo
<1>4. /\ js \in Seq(Items) /\ Len(js) = n + 1 /\ js[n + 1] = i
      /\ \A k \in 1 .. n : js[k] = is[k] /\ is[k] \in Items
  OBVIOUS
<1>5. cs \in Seq(Byte) /\ Len(cs) = e
  BY <1>1, Joined
<1> HIDE DEF u, e, cs
<1>6. /\ u \in [1 .. n + 2 -> Nat] /\ u[n + 2] = e /\ \A k \in 1 .. n + 1 : u[k] = at[k]
  BY <1>3 DEF PlacesTo
<1>7. ASSUME NEW k \in 1 .. n
      PROVE  u[k + 1] = u[k] + Len(Code(net, js[k])) /\ Holds(cs, u[k], Code(net, js[k]))
  <2>1. k \in 1 .. n + 1 /\ k + 1 \in 1 .. n + 1
    BY <1>1
  <2>2. u[k] = at[k] /\ u[k + 1] = at[k + 1] /\ js[k] = is[k] /\ is[k] \in Items
    BY <1>4, <1>6, <2>1
  <2> DEFINE a == at[k]
             d == Code(net, is[k])
  <2>3. at[k + 1] = a + Len(d) /\ Holds(bs, a, d)
    BY <1>2
  <2>4. a \in Nat /\ d \in Seq(Byte) /\ at[k + 1] <= Len(bs)
    <3>1. a \in Nat /\ at[k + 1] <= at[n + 1]
      BY <1>2, <2>1
    <3> QED
      BY <1>2, <2>2, <3>1, CodeIs
  <2> HIDE DEF a, d
  <2>5. Holds(cs, a, d)
    BY <1>1, <2>3, <2>4, HeldStill DEF cs
  <2> QED
    BY <2>2, <2>3, <2>5 DEF a, d
<1>8. u[n + 1] = Len(bs)
  <2>1. n + 1 \in 1 .. n + 1
    BY <1>1
  <2> QED
    BY <1>2, <1>6, <2>1
<1>9. u[n + 2] = u[n + 1] + Len(Code(net, js[n + 1])) /\ Holds(cs, u[n + 1], Code(net, js[n + 1]))
  <2>1. Holds(cs, Len(bs), c)
    BY <1>1, HeldNew DEF cs
  <2> QED
    BY <1>4, <1>6, <1>8, <2>1 DEF e
<1> HIDE DEF js, n
<1>10. ASSUME NEW k \in 1 .. n + 1
       PROVE  u[k + 1] = u[k] + Len(Code(net, js[k])) /\ Holds(cs, u[k], Code(net, js[k]))
  <2>1. CASE k = n + 1
    <3>1. k + 1 = n + 2
      BY <1>1, <2>1
    <3> QED
      BY <1>9, <2>1, <3>1
  <2>2. CASE k \in 1 .. n
    BY <1>7, <2>2
  <2> QED
    BY <1>1, <2>1, <2>2
<1>11. ASSUME NEW k \in 1 .. n + 2 PROVE u[k] <= u[n + 2]
  <2>1. CASE k = n + 2
    BY <1>1, <1>6, <2>1
  <2>2. CASE k \in 1 .. n + 1
    <3>1. u[k] = at[k] /\ at[k] \in Nat /\ at[k] <= Len(bs)
      BY <1>2, <1>6, <2>2
    <3> QED
      BY <1>1, <1>6, <3>1 DEF e
  <2> QED
    BY <1>1, <2>1, <2>2
<1>12. u[1] = at[1]
  BY <1>1, <1>6
<1>13. Len(js) + 1 = n + 2
  BY <1>1, <1>4
<1>14. LaidOut(u, js, cs, net)
  BY <1>4, <1>6, <1>10, <1>11, <1>13 DEF LaidOut
<1>15. u[Len(js) + 1] = Len(cs)
  BY <1>5, <1>6, <1>13
<1> QED
  BY <1>12, <1>14, <1>15 DEF js, cs

LEMMA StreamInvWrite ==
  ASSUME BufferAssumption, ItemsFit, StreamInv, NEW i \in Items, NEW beyond \in Byte, WriteItem(i, beyond)
  PROVE  StreamInv'
<1> DEFINE net == bToFromNetwork
           c == Code(net, i)
<1>1. /\ pBuffer \in Seq(Byte) /\ net \in BOOLEAN /\ unread \in Seq(Items)
      /\ m_iPos \in 0 .. Len(pBuffer) /\ cut \in BOOLEAN /\ Told(lastRead, cut)
  BY DEF StreamInv
<1>2. ~ cut /\ pBuffer' = pBuffer \o Layout(i, beyond) /\ unread' = Append(unread, i)
  BY DEF WriteItem
<1>3. bToFromNetwork' = net /\ m_iPos' = m_iPos /\ lastRead' = lastRead /\ cut' = cut
  BY DEF WriteItem
<1>4. c \in Seq(Byte) /\ Len(c) \in Nat
  BY <1>1, CodeIs
<1>5. pBuffer' = pBuffer \o c
  BY <1>2, LayoutIs
<1>6. PICK at : StandsBefore(at, unread, pBuffer, net, m_iPos, cut)
  BY <1>2 DEF StreamInv, Stands
<1>7. LaidOut(at, unread, pBuffer, net) /\ at[1] = m_iPos /\ at[Len(unread) + 1] = Len(pBuffer)
  BY <1>2, <1>6 DEF StandsBefore
<1>8. PICK u : /\ LaidOut(u, Append(unread, i), pBuffer \o c, net) /\ u[1] = at[1]
               /\ u[Len(Append(unread, i)) + 1] = Len(pBuffer \o c)
  BY <1>1, <1>7, LaidOutNext
<1>9. StandsBefore(u, unread', pBuffer', net, m_iPos, cut)
  BY <1>2, <1>5, <1>7, <1>8 DEF StandsBefore
<1>10. Stands(unread', pBuffer', bToFromNetwork', m_iPos', cut', lastRead'.ok)
  BY <1>3, <1>9 DEF Stands
<1>11. pBuffer' \in Seq(Byte) /\ unread' \in Seq(Items) /\ m_iPos' \in 0 .. Len(pBuffer')
  <2> HIDE DEF c
  <2>1. pBuffer \o c \in Seq(Byte) /\ Len(pBuffer \o c) = Len(pBuffer) + Len(c)
    BY <1>1, <1>4
  <2>2. Append(unread, i) \in Seq(Items)
    BY <1>1
  <2> QED
    BY <1>1, <1>2, <1>3, <1>4, <1>5, <2>1, <2>2
<1>12. Told(lastRead', cut')
  BY <1>1, <1>3
<1> QED
  BY <1>1, <1>3, <1>10, <1>11, <1>12 DEF StreamInv

\* Of a buffer that lost its tail the bytes that are left stand where they stood.
LEMMA StreamInvCut ==
  ASSUME BufferAssumption, ItemsFit, StreamInv, NEW size \in 0 .. Len(pBuffer), CutShort(size)
  PROVE  StreamInv'
<1> DEFINE net == bToFromNetwork
           s == SubSeq(pBuffer, 1, size)
<1>1. /\ pBuffer \in Seq(Byte) /\ net \in BOOLEAN /\ unread \in Seq(Items)
      /\ m_iPos \in 0 .. Len(pBuffer) /\ cut \in BOOLEAN /\ Told(lastRead, cut)
  BY DEF StreamInv
<1>2. ~ cut /\ m_iPos = 0 /\ pBuffer' = s /\ cut' = TRUE
  BY DEF CutShort
<1>3. bToFromNetwork' = net /\ m_iPos' = m_iPos /\ lastRead' = lastRead /\ unread' = unread
  BY DEF CutShort
<1>4. /\ s \in Seq(Byte) /\ Len(s) = size /\ size <= Len(pBuffer)
      /\ \A k \in 1 .. size : s[k] = pBuffer[k]
  BY <1>1
<1> HIDE DEF s
<1>5. ASSUME NEW a \in Nat, NEW d \in Seq(Byte), Holds(pBuffer, a, d) PROVE Holds(s, a, d)
  <2>1. ASSUME NEW k \in 1 .. Len(d), a + k <= Len(s) PROVE s[a + k] = d[k]
    <3>1. a + k \in 1 .. size /\ a + k <= Len(pBuffer)
      BY <1>4, <2>1
    <3>2. pBuffer[a + k] = d[k]
      BY <1>5, <3>1 DEF Holds
    <3> QED
      BY <1>4, <3>1, <3>2
  <2> QED
    BY <2>1 DEF Holds
<1>6. PICK at : StandsBefore(at, unread, pBuffer, net, m_iPos, cut)
  BY <1>2 DEF StreamInv, Stands
<1>7. LaidOut(at, unread, pBuffer, net) /\ at[1] = m_iPos
  BY <1>6 DEF StandsBefore
<1>8. LaidOut(at, unread, s, net)
  <2>1. /\ at \in [1 .. Len(unread) + 1 -> Nat]
        /\ \A k \in 1 .. Len(unread) + 1 : at[k] <= at[Len(unread) + 1]
        /\ \A k \in 1 .. Len(unread) :
             at[k + 1] = at[k] + Len(Code(net, unread[k])) /\ Holds(pBuffer, at[k], Code(net, unread[k]))
    BY <1>7 DEF LaidOut
  <2>2. ASSUME NEW k \in 1 .. Len(unread) PROVE Holds(s, at[k], Code(net, unread[k]))
    <3>1. at[k] \in Nat /\ unread[k] \in Items
      BY <1>1, <2>1
    <3>2. Code(net, unread[k]) \in Seq(Byte)
      BY <1>1, <3>1, CodeIs
    <3> QED
      BY <1>5, <2>1, <3>1, <3>2
  <2> QED
    BY <2>1, <2>2 DEF LaidOut
<1>9. StandsBefore(at, unread, s, net, m_iPos, TRUE)
  BY <1>7, <1>8 DEF StandsBefore
<1>10. Stands(unread', pBuffer', bToFromNetwork', m_iPos', cut', lastRead'.ok)
  BY <1>2, <1>3, <1>9 DEF Stands
<1>11. Told(lastRead', cut')
  BY <1>1, <1>2, <1>3 DEF Told
<1>12. pBuffer' \in Seq(Byte) /\ m_iPos' \in 0 .. Len(pBuffer')
  BY <1>2, <1>3, <1>4
<1> QED
  BY <1>1, <1>2, <1>3, <1>10, <1>11, <1>12 DEF StreamInv

\* What a read of the next item leaves of the places, and what it tells.
LEMMA LaidOutTail ==
  ASSUME BufferAssumption, ItemsFit, NEW net \in BOOLEAN, NEW is \in Seq(Items), is # <<>>,
         NEW bs \in Seq(Byte), NEW at, LaidOut(at, is, bs, net)
  PROVE  \E u : /\ LaidOut(u, Tail(is), bs, net) /\ u[1] = at[1] + Len(Code(net, Head(is)))
                /\ u[1] <= at[Len(is) + 1] /\ u[Len(Tail(is)) + 1] = at[Len(is) + 1]
<1> DEFINE n == Len(is)
           js == Tail(is)
           u == [k \in 1 .. n |-> at[k + 1]]
<1>1. /\ n \in Nat /\ n >= 1 /\ js \in Seq(Items) /\ Len(js) = n - 1 /\ Head(is) = is[1]
      /\ \A k \in 1 .. n - 1 : js[k] = is[k + 1]
  OBVIOUS
<1>2. /\ at \in [1 .. n + 1 -> Nat] /\ \A k \in 1 .. n + 1 : at[k] <= at[n + 1]
      /\ \A k \in 1 .. n : at[k + 1] = at[k] + Len(Code(net, is[k])) /\ Holds(bs, at[k], Code(net, is[k]))
  BY DEF LaidOut
<1>3. u \in [1 .. n -> Nat] /\ \A k \in 1 .. n : u[k] = at[k + 1] /\ k + 1 \in 1 .. n + 1
  <2>1. \A k \in 1 .. n : k + 1 \in 1 .. n + 1
    BY <1>1
  <2> QED
    BY <1>2, <2>1
<1> HIDE DEF u, js, n
<1>4. Len(js) + 1 = n
  BY <1>1
<1>5. ASSUME NEW k \in 1 .. n PROVE u[k] <= u[n]
  <2>1. n \in 1 .. n
    BY <1>1
  <2>2. u[k] = at[k + 1] /\ at[k + 1] <= at[n + 1]
    BY <1>2, <1>3
  <2>3. u[n] = at[n + 1]
    BY <1>3, <2>1
  <2> QED
    BY <2>2, <2>3
<1>6. ASSUME NEW k \in 1 .. n - 1
      PROVE  u[k + 1] = u[k] + Len(Code(net, js[k])) /\ Holds(bs, u[k], Code(net, js[k]))
  <2>1. k \in 1 .. n /\ k + 1 \in 1 .. n
    BY <1>1
  <2>2. u[k] = at[k + 1] /\ u[k + 1] = at[(k + 1) + 1] /\ js[k] = is[k + 1]
    BY <1>1, <1>3, <2>1
  <2>3. at[(k + 1) + 1] = at[k + 1] + Len(Code(net, is[k + 1])) /\ Holds(bs, at[k + 1], Code(net, is[k + 1]))
    BY <1>2, <2>1
  <2> QED
    BY <2>2, <2>3
<1>7. Len(js) = n - 1
  BY <1>1
<1>8. LaidOut(u, js, bs, net)
  BY <1>3, <1>4, <1>5, <1>6, <1>7 DEF LaidOut
<1>9. u[1] = at[1] + Len(Code(net, Head(is))) /\ u[1] <= at[n + 1] /\ u[n] = at[n + 1]
  <2>1. 1 \in 1 .. n /\ n \in 1 .. n
    BY <1>1
  <2>2. u[1] = at[1 + 1] /\ u[n] = at[n + 1]
    BY <1>3, <2>1
  <2>3. at[1 + 1] = at[1] + Len(Code(net, is[1]))
    BY <1>2, <2>1
  <2> QED
    BY <1>1, <1>5, <2>1, <2>2, <2>3
<1> QED
  BY <1>4, <1>8, <1>9 DEF js, n

LEMMA MissingStands ==
  ASSUME NEW r, Missing(r), NEW i \in Items, NEW is, NEW net
  PROVE  /\ Stands(is, pBuffer, net, r.to, TRUE, r.ok)
         /\ Told([ok |-> r.ok, item |-> i, data |-> r.data], TRUE)
         /\ r.to \in 0 .. Len(pBuffer)
<1>1. r.data = <<>> /\ r.ok \in BOOLEAN /\ r.to \in 0 .. Len(pBuffer)
  BY DEF Missing
<1>2. r.ok => Len(pBuffer) - r.to <= 1
  BY Zenon DEF Missing
<1>3. Stands(is, pBuffer, net, r.to, TRUE, r.ok)
  BY <1>2, Zenon DEF Stands
<1> DEFINE l == [ok |-> r.ok, item |-> i, data |-> r.data]
<1>4. l.ok = r.ok /\ l.item = i /\ l.data = r.data
  BY Zenon
<1> HIDE DEF l
<1>5. l.ok \in BOOLEAN /\ l.item \in Items \cup {Nothing} /\ l.data \in {l.item.data, <<>>}
  BY <1>1, <1>4
<1>6. Told(l, TRUE)
  BY <1>5 DEF Told
<1> QED
  BY <1>1, <1>3, <1>6 DEF l

LEMMA StreamInvRead ==
  ASSUME BufferAssumption, ItemsFit, StreamInv, ReadNext
  PROVE  StreamInv'
<1> DEFINE net == bToFromNetwork
           i == Head(unread)
           r == ReadItem(i.kind, m_iPos)
<1>1. /\ pBuffer \in Seq(Byte) /\ net \in BOOLEAN /\ unread \in Seq(Items)
      /\ m_iPos \in 0 .. Len(pBuffer) /\ cut \in BOOLEAN /\ Told(lastRead, cut)
      /\ Stands(unread, pBuffer, net, m_iPos, cut, lastRead.ok)
  BY DEF StreamInv
<1>2. /\ unread # <<>> /\ lastRead.ok /\ unread' = Tail(unread) /\ m_iPos' = r.to
      /\ lastRead' = [ok |-> r.ok, item |-> i, data |-> r.data]
  BY Zenon DEF ReadNext
<1>3. pBuffer' = pBuffer /\ bToFromNetwork' = net /\ cut' = cut
  BY DEF ReadNext
<1>4. i \in Items /\ Tail(unread) \in Seq(Items) /\ m_iPos \in Nat /\ m_iPos <= Len(pBuffer) /\ Len(pBuffer) \in Nat
  BY <1>1, <1>2
<1> HIDE DEF i, r
<1>5. ASSUME Missing(r), cut PROVE StreamInv'
  <2>1. /\ Stands(Tail(unread), pBuffer, net, r.to, TRUE, r.ok)
        /\ Told([ok |-> r.ok, item |-> i, data |-> r.data], TRUE)
        /\ r.to \in 0 .. Len(pBuffer)
    BY <1>4, <1>5, MissingStands
  <2>2. lastRead'.ok = r.ok
    BY <1>2, Zenon
  <2>3. cut' = TRUE
    BY <1>1, <1>3, <1>5
  <2>4. Stands(unread', pBuffer', bToFromNetwork', m_iPos', cut', lastRead'.ok)
    BY <1>2, <1>3, <2>1, <2>2, <2>3, Zenon
  <2>5. Told(lastRead', cut')
    BY <1>2, <2>1, <2>3, Zenon
  <2>6. pBuffer' \in Seq(Byte) /\ unread' \in Seq(Items) /\ m_iPos' \in 0 .. Len(pBuffer')
    BY <1>1, <1>2, <1>3, <1>4, <2>1
  <2> QED
    BY <1>1, <1>3, <2>4, <2>5, <2>6 DEF StreamInv
<1>6. ASSUME NEW at, StandsBefore(at, unread, pBuffer, net, m_iPos, cut) PROVE StreamInv'
  <2> DEFINE c == Code(net, i)
             e == m_iPos + Len(c)
  <2>1. LaidOut(at, unread, pBuffer, net) /\ at[1] = m_iPos /\ (~ cut => at[Len(unread) + 1] = Len(pBuffer))
    BY <1>6 DEF StandsBefore
  <2>2. PICK u : /\ LaidOut(u, Tail(unread), pBuffer, net) /\ u[1] = e
                 /\ u[1] <= at[Len(unread) + 1] /\ u[Len(Tail(unread)) + 1] = at[Len(unread) + 1]
    BY <1>1, <1>2, <2>1, LaidOutTail DEF i
  <2>3. Holds(pBuffer, m_iPos, c)
    <3>1. 1 \in 1 .. Len(unread) /\ unread[1] = i
      BY <1>1, <1>2 DEF i
    <3> QED
      BY <2>1, <3>1 DEF LaidOut
  <2>4. Gives(r, i, m_iPos)
    BY <1>1, <1>4, <2>3, ItemRead DEF r
  <2>5. c \in Seq(Byte) /\ Len(c) \in Nat
    BY <1>1, <1>4, CodeIs
  <2>6. CASE e <= Len(pBuffer)
    <3>1. r = [ok |-> TRUE, data |-> i.data, to |-> e]
      BY <2>4, <2>6 DEF Gives
    <3>2. r.ok = TRUE /\ r.data = i.data /\ r.to = e
      BY <3>1
    <3>3. lastRead'.ok = TRUE /\ lastRead'.item = i /\ lastRead'.data = i.data
      BY <1>2, <3>2
    <3>4. Told(lastRead', cut')
      BY <1>4, <3>3 DEF Told
    <3>5. StandsBefore(u, Tail(unread), pBuffer, net, e, cut)
      BY <2>1, <2>2 DEF StandsBefore
    <3>6. Stands(Tail(unread), pBuffer, net, e, cut, TRUE)
      BY <3>5 DEF Stands
    <3>7. Stands(unread', pBuffer', bToFromNetwork', m_iPos', cut', lastRead'.ok)
      BY <1>2, <1>3, <3>2, <3>3, <3>6
    <3>8. e \in 0 .. Len(pBuffer)
      BY <1>4, <2>5, <2>6
    <3>9. pBuffer' \in Seq(Byte) /\ unread' \in Seq(Items) /\ m_iPos' \in 0 .. Len(pBuffer')
      BY <1>1, <1>2, <1>3, <1>4, <3>2, <3>8
    <3> QED
      BY <1>1, <1>3, <3>4, <3>7, <3>9 DEF StreamInv
  <2>7. CASE ~ (e <= Len(pBuffer))
    <3>1. cut
      BY <2>1, <2>2, <2>7
    <3>2. Missing(r)
      BY <2>4, <2>7 DEF Gives
    <3> QED
      BY <1>5, <3>1, <3>2
  <2> QED
    BY <2>6, <2>7
<1>7. ASSUME cut, Len(pBuffer) - m_iPos <= 1 PROVE StreamInv'
  <2>1. Missing(r)
    BY <1>1, <1>4, <1>7, LostRead DEF r
  <2> QED
    BY <1>5, <1>7, <2>1
<1>8. ~ (cut /\ ~ lastRead.ok)
  BY <1>2
<1> QED
  BY <1>1, <1>6, <1>7, <1>8 DEF Stands

LEMMA StreamInvNext ==
  ASSUME BufferAssumption, ItemsFit, StreamInv, [StreamNext]_streamVars
  PROVE  StreamInv'
<1>1. ASSUME NEW i \in Items, NEW beyond \in Byte, WriteItem(i, beyond) PROVE StreamInv'
  BY <1>1, StreamInvWrite
<1>2. ASSUME NEW size \in 0 .. Len(pBuffer), CutShort(size) PROVE StreamInv'
  BY <1>2, StreamInvCut
<1>3. ASSUME ReadNext PROVE StreamInv'
  BY <1>3, StreamInvRead
<1>4. ASSUME UNCHANGED streamVars PROVE StreamInv'
  BY <1>4 DEF streamVars, StreamInv
<1> QED
  BY <1>1, <1>2, <1>3, <1>4 DEF StreamNext

\* What a CBufferReadStream takes out of a buffer is what a CBufferWriteStream laid out in it,
\* item by item and up to its end, in either byte order; and of a buffer that lost its tail at
\* any byte, what was written or nothing.
THEOREM StreamReadsBack ==
  ASSUME BufferAssumption, ItemsFit
  PROVE  StreamSpec => []ReadsBack
<1>1. StreamInit => StreamInv
  BY StreamInvInit
<1>2. StreamInv /\ [StreamNext]_streamVars => StreamInv'
  BY StreamInvNext
<1>3. StreamInv => ReadsBack
  BY StreamInvReadsBack
<1> QED
  BY <1>1, <1>2, <1>3, PTL DEF StreamSpec
==============================================================================
