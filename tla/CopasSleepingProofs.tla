------------------------ MODULE CopasSleepingProofs ------------------------
(***************************************************************************)
(* What the operators on the list of sleeping threads do, for any set T of *)
(* threads: each keeps the list sound, and who sleeps afterwards.          *)
(***************************************************************************)
EXTENDS CopasSleeping, FiniteSetTheorems, SequenceTheorems, WellFoundedInduction, TLAPS


(***************************************************************************)
(* Induction over the natural numbers, and lists.                          *)
(***************************************************************************)
LEMMA NatInd ==
  ASSUME NEW S, 0 \in S, \A i \in Nat : i \in S => i + 1 \in S
  PROVE  Nat \subseteq S
<1>1. SUFFICES ASSUME {i \in Nat : i \notin S} # {} PROVE FALSE
  OBVIOUS
<1>2. PICK x \in {i \in Nat : i \notin S} :
        \A y \in {i \in Nat : i \notin S} : ~ (<<y, x>> \in OpToRel(<, Nat))
  BY <1>1, WFMin, NatLessThanWellFounded, Zenon
<1>3. \A y \in {i \in Nat : i \notin S} : ~ (y < x)
  BY <1>2, Zenon DEF OpToRel
<1> QED
  BY <1>3

Elements(s) == {s[i] : i \in DOMAIN s}

\* x is s with e at place p.
Inserted(x, s, p, e) ==
  /\ Len(x) = Len(s) + 1
  /\ \A j \in 1 .. Len(s) + 1 :
       x[j] = IF j < p THEN s[j] ELSE IF j = p THEN e ELSE s[j - 1]

LEMMA InsertAtIs ==
  ASSUME NEW S, NEW s \in Seq(S), NEW e \in S, NEW i \in 1 .. Len(s) + 1
  PROVE  InsertAt(s, i, e) \in Seq(S) /\ Inserted(InsertAt(s, i, e), s, i, e)
<1> DEFINE a == SubSeq(s, 1, i - 1)
           b == SubSeq(s, i, Len(s))
           c == a \o <<e>>
<1>1. /\ a \in Seq(S) /\ Len(a) = i - 1
      /\ \A j \in 1 .. i - 1 : a[j] = s[j]
  BY SubSeqProperties
<1>2. /\ b \in Seq(S) /\ Len(b) = Len(s) - i + 1
      /\ \A j \in 1 .. Len(s) - i + 1 : b[j] = s[i + j - 1]
  BY SubSeqProperties
<1>3. /\ c \in Seq(S) /\ Len(c) = i
      /\ \A j \in 1 .. i : c[j] = IF j < i THEN s[j] ELSE e
  BY <1>1, ConcatProperties
<1>4. InsertAt(s, i, e) = c \o b
  BY DEF InsertAt
<1> HIDE DEF a, b, c
<1>5. /\ c \o b \in Seq(S) /\ Len(c \o b) = Len(s) + 1
      /\ \A j \in 1 .. Len(s) + 1 : (c \o b)[j] = IF j <= i THEN c[j] ELSE b[j - i]
  <2>1. Len(c \o b) = Len(c) + Len(b) /\ c \o b \in Seq(S)
    BY <1>2, <1>3, ConcatProperties
  <2>2. \A j \in 1 .. Len(c) + Len(b) : (c \o b)[j] = IF j <= Len(c) THEN c[j] ELSE b[j - Len(c)]
    BY <1>2, <1>3, ConcatProperties, Zenon
  <2> QED
    BY <2>1, <2>2, <1>2, <1>3
<1>6. ASSUME NEW j \in 1 .. Len(s) + 1
      PROVE  (c \o b)[j] = IF j < i THEN s[j] ELSE IF j = i THEN e ELSE s[j - 1]
  <2>1. CASE j <= i
    BY <2>1, <1>3, <1>5
  <2>2. CASE ~ (j <= i)
    <3>1. j - i \in 1 .. Len(s) - i + 1 /\ i + (j - i) - 1 = j - 1
      BY <2>2
    <3>2. (c \o b)[j] = b[j - i]
      BY <2>2, <1>5
    <3>3. b[j - i] = s[j - 1]
      BY <3>1, <1>2
    <3> QED
      BY <2>2, <3>2, <3>3
  <2> QED
    BY <2>1, <2>2
<1> QED
  BY <1>4, <1>5, <1>6 DEF Inserted

LEMMA RemoveAtIs ==
  ASSUME NEW S, NEW s \in Seq(S), NEW i \in 1 .. Len(s)
  PROVE  /\ RemoveAt(s, i) \in Seq(S)
         /\ Len(RemoveAt(s, i)) = Len(s) - 1
         /\ \A j \in 1 .. Len(s) - 1 :
              RemoveAt(s, i)[j] = IF j < i THEN s[j] ELSE s[j + 1]
<1> DEFINE a == SubSeq(s, 1, i - 1)
           b == SubSeq(s, i + 1, Len(s))
<1>1. /\ a \in Seq(S) /\ Len(a) = i - 1
      /\ \A j \in 1 .. i - 1 : a[j] = s[j]
  BY SubSeqProperties
<1>2. /\ b \in Seq(S) /\ Len(b) = Len(s) - i
      /\ \A j \in 1 .. Len(s) - i : b[j] = s[i + j]
  BY SubSeqProperties
<1>4. RemoveAt(s, i) = a \o b
  BY DEF RemoveAt
<1> HIDE DEF a, b
<1>5. /\ a \o b \in Seq(S) /\ Len(a \o b) = Len(s) - 1
      /\ \A j \in 1 .. Len(s) - 1 : (a \o b)[j] = IF j < i THEN a[j] ELSE b[j - i + 1]
  <2>1. Len(a \o b) = Len(a) + Len(b) /\ a \o b \in Seq(S)
    BY <1>1, <1>2, ConcatProperties
  <2>2. \A j \in 1 .. Len(a) + Len(b) : (a \o b)[j] = IF j <= Len(a) THEN a[j] ELSE b[j - Len(a)]
    BY <1>1, <1>2, ConcatProperties, Zenon
  <2> QED
    BY <2>1, <2>2, <1>1, <1>2
<1>6. ASSUME NEW j \in 1 .. Len(s) - 1
      PROVE  (a \o b)[j] = IF j < i THEN s[j] ELSE s[j + 1]
  <2>1. CASE j < i
    BY <2>1, <1>1, <1>5
  <2>2. CASE ~ (j < i)
    <3>1. j - i + 1 \in 1 .. Len(s) - i /\ i + (j - i + 1) = j + 1
      BY <2>2
    <3> QED
      BY <2>2, <3>1, <1>2, <1>5
  <2> QED
    BY <2>1, <2>2
<1> QED
  BY <1>4, <1>5, <1>6

LEMMA OrderOfSet ==
  ASSUME NEW S, IsFiniteSet(S), NEW order \in SetToSeqs(S)
  PROVE  order \in Seq(S) /\ Elements(order) = S
<1> DEFINE D == 1 .. Cardinality(S)
<1>1. Cardinality(S) \in Nat
  BY FS_CardinalityType
<1>2. order \in [D -> S] /\ \A i, j \in D : i # j => order[i] # order[j]
  BY DEF SetToSeqs
<1>3. order \in Injection(D, S)
  BY <1>2 DEF Injection, IsInjective
<1>4. Cardinality(D) = Cardinality(S)
  BY <1>1, FS_Interval
<1>5. order \in Surjection(D, S)
  <2> HIDE DEF D
  <2> QED
    BY <1>3, <1>4, FS_Injection
<1>6. \A x \in S : \E i \in D : order[i] = x
  BY <1>5 DEF Surjection
<1> QED
  BY <1>1, <1>2, <1>6 DEF Elements

LEMMA DistinctCount ==
  ASSUME NEW S, NEW s \in Seq(S), \A i, j \in 1 .. Len(s) : i # j => s[i] # s[j]
  PROVE  IsFiniteSet(Elements(s)) /\ Cardinality(Elements(s)) = Len(s)
<1> DEFINE D == 1 .. Len(s)
<1>1. Len(s) \in Nat /\ DOMAIN s = D
  OBVIOUS
<1>2. IsFiniteSet(D) /\ Cardinality(D) = Len(s)
  BY <1>1, FS_Interval
<1>3. s \in [D -> Elements(s)]
  <2>1. s = [i \in D |-> s[i]]
    BY <1>1
  <2> QED
    BY <1>1, <2>1 DEF Elements
<1>4. s \in Injection(D, Elements(s))
  BY <1>3 DEF Injection, IsInjective
<1>5. s \in Surjection(D, Elements(s))
  BY <1>1, <1>3 DEF Surjection, Elements
<1> HIDE DEF D
<1> QED
  BY <1>2, <1>4, <1>5, FS_Surjection

(***************************************************************************)
(* The list of sleeping threads.                                           *)
(***************************************************************************)
Records(T) == [times : Seq(Nat), cos : Seq(T), lethargy : SUBSET T]

\* A list of threads of T as it may be found: typed and well formed.
Sound(T, s) == s \in Records(T) /\ WellFormed(s)

\* p is the place of d in times.
IsPlace(p, times, d) ==
  /\ p \in 1 .. Len(times) + 1
  /\ \A j \in 1 .. p - 1 : times[j] <= d
  /\ p <= Len(times) => times[p] > d

LEMMA PlaceIs ==
  ASSUME NEW times \in Seq(Nat), NEW left \in Nat
  PROVE  IsPlace(Place(times, left), times, left)
<1> DEFINE Is(i) == /\ \A j \in 1 .. i - 1 : times[j] <= left
                    /\ i <= Len(times) => times[i] > left
           Later_ == {i \in Nat : \A j \in 1 .. Len(times) : j <= i => times[j] <= left}
<1>1. SUFFICES \E i \in 1 .. Len(times) + 1 : Is(i)
  BY Zenon DEF Place, IsPlace
<1>2. SUFFICES ASSUME \A i \in 1 .. Len(times) + 1 : ~ Is(i) PROVE FALSE
  OBVIOUS
<1>3. 0 \in Later_
  OBVIOUS
<1>4. ASSUME NEW i \in Nat, i \in Later_ PROVE i + 1 \in Later_
  <2>1. CASE i + 1 <= Len(times) + 1
    <3>1. ~ Is(i + 1)
      BY <1>2, <2>1
    <3> QED
      BY <3>1, <1>4
  <2>2. CASE ~ (i + 1 <= Len(times) + 1)
    BY <1>4, <2>2
  <2> QED
    BY <2>1, <2>2
<1>5. Nat \subseteq Later_
  <2> HIDE DEF Later_
  <2> QED
    BY <1>3, <1>4, NatInd
<1>6. Len(times) \in Later_
  BY <1>5
<1>7. Is(Len(times) + 1)
  BY <1>6
<1> QED
  BY <1>2, <1>7

\* The lists belong together, the times are sorted, nobody is there twice.
InOrder(times, cos) ==
  /\ Len(times) = Len(cos)
  /\ \A i, j \in 1 .. Len(cos) : i < j => times[i] <= times[j] /\ cos[i] # cos[j]

Ordered(s) == InOrder(s.times, s.cos)

LEMMA SoundIs ==
  ASSUME NEW T, NEW s
  PROVE  Sound(T, s) <=> /\ s \in Records(T) /\ Ordered(s)
                      /\ Elements(s.cos) \cap s.lethargy = {}
BY SMTT(30) DEF Sound, Records, Ordered, InOrder, WellFormed, Elements

LEMMA InsertInOrder ==
  ASSUME NEW T, NEW times \in Seq(Nat), NEW cos \in Seq(T), InOrder(times, cos),
         NEW d \in Nat, NEW co \in T, co \notin Elements(cos),
         NEW p, IsPlace(p, times, d),
         NEW t \in Seq(Nat), Inserted(t, times, p, d),
         NEW c \in Seq(T), Inserted(c, cos, p, co)
  PROVE  InOrder(t, c) /\ Elements(c) = Elements(cos) \cup {co}
<1> DEFINE n == Len(cos)
<1>1. n \in Nat /\ Len(times) = n
  BY DEF InOrder
<1>2. /\ p \in 1 .. n + 1
      /\ \A j \in 1 .. p - 1 : times[j] <= d
      /\ p <= n => times[p] > d
  BY <1>1 DEF IsPlace
<1>3. /\ Len(t) = n + 1
      /\ \A j \in 1 .. n + 1 :
           t[j] = IF j < p THEN times[j] ELSE IF j = p THEN d ELSE times[j - 1]
  BY <1>1 DEF Inserted
<1>4. /\ Len(c) = n + 1
      /\ \A j \in 1 .. n + 1 :
           c[j] = IF j < p THEN cos[j] ELSE IF j = p THEN co ELSE cos[j - 1]
  BY <1>1 DEF Inserted
<1>5. /\ \A k \in 1 .. n : cos[k] # co /\ times[k] \in Nat
      /\ \A k, l \in 1 .. n : k < l => times[k] <= times[l] /\ cos[k] # cos[l]
  <2>1. \A k \in 1 .. n : cos[k] # co
    BY DEF Elements
  <2>2. \A k \in 1 .. n : times[k] \in Nat
    BY <1>1
  <2> QED
    BY <2>1, <2>2 DEF InOrder
<1>6. DOMAIN c = 1 .. n + 1 /\ DOMAIN cos = 1 .. n
  BY <1>4
<1>7. \A k \in 1 .. n : k >= p => d <= times[k]
  <2>1. ASSUME NEW k \in 1 .. n, k >= p PROVE d <= times[k]
    <3>1. p \in 1 .. n /\ times[p] > d /\ times[p] \in Nat /\ times[k] \in Nat
      BY <2>1, <1>1, <1>2, <1>5
    <3>2. times[p] <= times[k]
      BY <2>1, <3>1, <1>5
    <3> QED
      BY <3>1, <3>2
  <2> QED
    BY <2>1
<1>8. /\ \A k \in 1 .. p - 1 : k \in 1 .. n /\ t[k] = times[k] /\ c[k] = cos[k]
      /\ p \in 1 .. n + 1 /\ t[p] = d /\ c[p] = co
      /\ \A k \in p + 1 .. n + 1 :
           k - 1 \in 1 .. n /\ k - 1 >= p /\ t[k] = times[k - 1] /\ c[k] = cos[k - 1]
  BY <1>1, <1>2, <1>3, <1>4, SMTT(30)
<1> HIDE DEF n
<1>9. ASSUME NEW i \in 1 .. n + 1, NEW j \in 1 .. n + 1, i < j
      PROVE  t[i] <= t[j] /\ c[i] # c[j]
  <2>1. CASE i < p /\ j < p
    BY <1>1, <1>2, <1>5, <1>8, <1>9, <2>1
  <2>2. CASE i < p /\ j = p
    <3>1. i \in 1 .. n /\ i \in 1 .. p - 1
      BY <1>1, <1>2, <2>2
    <3>2. t[i] = times[i] /\ c[i] = cos[i] /\ t[j] = d /\ c[j] = co
      BY <2>2, <3>1, <1>8
    <3> QED
      BY <3>1, <3>2, <1>2, <1>5
  <2>3. CASE i < p /\ j > p
    BY <1>1, <1>2, <1>5, <1>8, <1>9, <2>3, SMTT(30)
  <2>4. CASE i = p /\ j > p
    <3>1. j \in p + 1 .. n + 1
      BY <1>1, <1>2, <2>4
    <3>2. t[i] = d /\ c[i] = co /\ t[j] = times[j - 1] /\ c[j] = cos[j - 1]
          /\ j - 1 \in 1 .. n /\ j - 1 >= p
      BY <2>4, <3>1, <1>8
    <3> QED
      BY <3>2, <1>5, <1>7
  <2>5. CASE i > p /\ j > p
    <3>1. i \in p + 1 .. n + 1 /\ j \in p + 1 .. n + 1
      BY <1>1, <1>2, <2>5
    <3>2. /\ t[i] = times[i - 1] /\ c[i] = cos[i - 1] /\ i - 1 \in 1 .. n
          /\ t[j] = times[j - 1] /\ c[j] = cos[j - 1] /\ j - 1 \in 1 .. n
      BY <3>1, <1>8
    <3>3. i - 1 < j - 1
      BY <3>1, <1>9
    <3> QED
      BY <3>2, <3>3, <1>5
  <2> QED
    BY <1>1, <1>2, <1>9, <2>1, <2>2, <2>3, <2>4, <2>5
<1>10. InOrder(t, c)
  BY <1>1, <1>3, <1>4, <1>9 DEF InOrder, n
<1>11. ASSUME NEW k \in 1 .. n + 1
       PROVE  c[k] = co \/ \E l \in 1 .. n : c[k] = cos[l]
  BY <1>1, <1>2, <1>8
<1>12. ASSUME NEW k \in 1 .. n PROVE \E l \in 1 .. n + 1 : c[l] = cos[k]
  <2>1. CASE k < p
    <3>1. k \in 1 .. n + 1 /\ c[k] = cos[k]
      BY <2>1, <1>1, <1>2, <1>8
    <3> QED
      BY <3>1
  <2>2. CASE ~ (k < p)
    <3>1. k + 1 \in 1 .. n + 1 /\ k + 1 \in p + 1 .. n + 1 /\ (k + 1) - 1 = k
      BY <2>2, <1>1, <1>2
    <3> QED
      BY <3>1, <1>8
  <2> QED
    BY <2>1, <2>2
<1>13. Elements(c) = Elements(cos) \cup {co}
  <2>1. Elements(c) \subseteq Elements(cos) \cup {co}
    BY <1>6, <1>11 DEF Elements
  <2>2. Elements(cos) \subseteq Elements(c)
    BY <1>6, <1>12 DEF Elements
  <2>3. co \in Elements(c)
    BY <1>6, <1>8 DEF Elements
  <2> QED
    BY <2>1, <2>2, <2>3
<1> QED
  BY <1>10, <1>13

LEMMA RemoveInOrder ==
  ASSUME NEW T, NEW times \in Seq(Nat), NEW cos \in Seq(T), InOrder(times, cos),
         NEW i \in 1 .. Len(cos),
         NEW t, t = RemoveAt(times, i), NEW c, c = RemoveAt(cos, i)
  PROVE  /\ t \in Seq(Nat) /\ c \in Seq(T) /\ InOrder(t, c)
         /\ Elements(c) = Elements(cos) \ {cos[i]}
<1> DEFINE n == Len(cos)
<1>1. n \in Nat /\ Len(times) = n /\ i \in 1 .. n
  BY DEF InOrder
<1>3. /\ t \in Seq(Nat) /\ Len(t) = n - 1
      /\ \A j \in 1 .. n - 1 : t[j] = IF j < i THEN times[j] ELSE times[j + 1]
  BY <1>1, RemoveAtIs, ZenonT(30)
<1>4. /\ c \in Seq(T) /\ Len(c) = n - 1
      /\ \A j \in 1 .. n - 1 : c[j] = IF j < i THEN cos[j] ELSE cos[j + 1]
  BY <1>1, RemoveAtIs, Zenon
<1>5. /\ \A k \in 1 .. n : times[k] \in Nat
      /\ \A k, l \in 1 .. n : k < l => times[k] <= times[l] /\ cos[k] # cos[l]
  BY <1>1 DEF InOrder
<1>6. DOMAIN c = 1 .. n - 1 /\ DOMAIN cos = 1 .. n
  BY <1>1, <1>4
<1> HIDE DEF n
<1>14. /\ \A k \in 1 .. i - 1 : k \in 1 .. n /\ (k \in 1 .. n - 1 => t[k] = times[k] /\ c[k] = cos[k])
       /\ \A k \in i .. n - 1 :
            k + 1 \in 1 .. n /\ k + 1 > i /\ t[k] = times[k + 1] /\ c[k] = cos[k + 1]
  BY <1>1, <1>3, <1>4, SMTT(30)
<1>7. ASSUME NEW k \in 1 .. n - 1, NEW l \in 1 .. n - 1, k < l
      PROVE  t[k] <= t[l] /\ c[k] # c[l]
  <2>1. CASE k < i /\ l < i
    BY <1>1, <1>5, <1>14, <1>7, <2>1
  <2>2. CASE k < i /\ ~ (l < i)
    BY <1>1, <1>5, <1>14, <1>7, <2>2
  <2>3. CASE ~ (k < i) /\ ~ (l < i)
    BY <1>1, <1>5, <1>14, <1>7, <2>3
  <2> QED
    BY <1>1, <1>7, <2>1, <2>2, <2>3
<1>8. InOrder(t, c)
  BY <1>1, <1>3, <1>4, <1>7 DEF InOrder
<1>9. ASSUME NEW k \in 1 .. n - 1
      PROVE  c[k] # cos[i] /\ \E l \in 1 .. n : c[k] = cos[l]
  <2>1. CASE k < i
    BY <1>1, <1>5, <1>14, <2>1
  <2>2. CASE ~ (k < i)
    BY <1>1, <1>5, <1>14, <2>2
  <2> QED
    BY <2>1, <2>2
<1>10. ASSUME NEW k \in 1 .. n, cos[k] # cos[i]
       PROVE  \E l \in 1 .. n - 1 : c[l] = cos[k]
  <2>1. CASE k < i
    BY <2>1, <1>1, <1>4
  <2>2. CASE ~ (k < i)
    <3>1. k - 1 \in 1 .. n - 1 /\ c[k - 1] = cos[k]
      BY <2>2, <1>1, <1>4, <1>10, SMTT(30)
    <3> QED
      BY <3>1
  <2> QED
    BY <2>1, <2>2
<1>11. Elements(c) = Elements(cos) \ {cos[i]}
  <2>1. Elements(c) \subseteq Elements(cos) \ {cos[i]}
    BY <1>6, <1>9 DEF Elements
  <2>2. Elements(cos) \ {cos[i]} \subseteq Elements(c)
    BY <1>6, <1>10 DEF Elements
  <2> QED
    BY <2>1, <2>2
<1> QED
  BY <1>3, <1>4, <1>8, <1>11

LEMMA PushIs ==
  ASSUME NEW T, NEW s \in Records(T), Ordered(s), NEW d \in Nat, NEW co \in T,
         co \notin Elements(s.cos)
  PROVE  /\ push(s, d, co) \in Records(T) /\ Ordered(push(s, d, co))
         /\ push(s, d, co).lethargy = s.lethargy
         /\ Elements(push(s, d, co).cos) = Elements(s.cos) \cup {co}
<1> DEFINE p == Place(s.times, d)
           t == InsertAt(s.times, p, d)
           c == InsertAt(s.cos, p, co)
<1>1. push(s, d, co) = [s EXCEPT !.times = t, !.cos = c]
  BY DEF push
<1>2. s.times \in Seq(Nat) /\ s.cos \in Seq(T) /\ s.lethargy \subseteq T
  BY DEF Records
<1>3. IsPlace(p, s.times, d)
  BY <1>2, PlaceIs, Zenon
<1>5. Len(s.times) = Len(s.cos)
  BY DEF Ordered, InOrder
<1> HIDE DEF p
<1>6. t \in Seq(Nat) /\ Inserted(t, s.times, p, d)
  BY <1>2, <1>3, InsertAtIs, Zenon DEF IsPlace
<1>7. c \in Seq(T) /\ Inserted(c, s.cos, p, co)
  BY <1>2, <1>3, <1>5, InsertAtIs, Zenon DEF IsPlace
<1> HIDE DEF t, c
<1>4. push(s, d, co) = [times |-> t, cos |-> c, lethargy |-> s.lethargy]
  BY <1>1 DEF Records
<1>8. InOrder(t, c) /\ Elements(c) = Elements(s.cos) \cup {co}
  <2> DEFINE times == s.times
             cos == s.cos
  <2>1. times \in Seq(Nat) /\ cos \in Seq(T) /\ InOrder(times, cos)
    BY <1>2 DEF Ordered
  <2>2. co \notin Elements(cos) /\ IsPlace(p, times, d)
    BY <1>3
  <2>3. /\ t \in Seq(Nat) /\ Inserted(t, times, p, d)
        /\ c \in Seq(T) /\ Inserted(c, cos, p, co)
    BY <1>6, <1>7
  <2>4. InOrder(t, c) /\ Elements(c) = Elements(cos) \cup {co}
    <3> HIDE DEF times, cos
    <3> QED
      <4>1. \A x \in Seq(Nat), y \in Seq(T) :
               Inserted(x, times, p, d) /\ Inserted(y, cos, p, co)
                 => InOrder(x, y) /\ Elements(y) = Elements(cos) \cup {co}
        BY <2>1, <2>2, InsertInOrder
      <4> QED
        BY <4>1, <2>3
  <2> QED
    BY <2>4
<1> QED
  BY <1>2, <1>4, <1>6, <1>7, <1>8 DEF Records, Ordered

\* A thread is taken out of the lists.
WithoutPlace(s, i) == [s EXCEPT !.times = RemoveAt(@, i), !.cos = RemoveAt(@, i)]

LEMMA TakenOut ==
  ASSUME NEW T, NEW s \in Records(T), Ordered(s), NEW i \in 1 .. Len(s.cos)
  PROVE  /\ WithoutPlace(s, i) \in Records(T) /\ Ordered(WithoutPlace(s, i))
         /\ WithoutPlace(s, i).lethargy = s.lethargy
         /\ Elements(WithoutPlace(s, i).cos) = Elements(s.cos) \ {s.cos[i]}
<1> DEFINE r == WithoutPlace(s, i)
           t == RemoveAt(s.times, i)
           c == RemoveAt(s.cos, i)
<1>1. s.times \in Seq(Nat) /\ s.cos \in Seq(T) /\ s.lethargy \subseteq T
  BY DEF Records
<1>2. /\ t \in Seq(Nat) /\ c \in Seq(T) /\ InOrder(t, c)
      /\ Elements(c) = Elements(s.cos) \ {s.cos[i]}
  <2> DEFINE times == s.times
             cos == s.cos
  <2>1. /\ times \in Seq(Nat) /\ cos \in Seq(T) /\ InOrder(times, cos)
        /\ i \in 1 .. Len(cos)
    BY <1>1 DEF Ordered
  <2>2. t = RemoveAt(times, i) /\ c = RemoveAt(cos, i)
    OBVIOUS
  <2> HIDE DEF times, cos, t, c
  <2>3. /\ t \in Seq(Nat) /\ c \in Seq(T) /\ InOrder(t, c)
        /\ Elements(c) = Elements(cos) \ {cos[i]}
    BY <2>1, <2>2, RemoveInOrder
  <2> QED
    BY <2>3 DEF cos
<1>3. r = [times |-> t, cos |-> c, lethargy |-> s.lethargy]
  <2>1. r = [s EXCEPT !.times = t, !.cos = c]
    BY DEF WithoutPlace
  <2> HIDE DEF r, t, c
  <2> QED
    BY <2>1 DEF Records
<1>4. r.times = t /\ r.cos = c /\ r.lethargy = s.lethargy
  BY <1>3
<1>5. [times |-> t, cos |-> c, lethargy |-> s.lethargy] \in Records(T)
  BY <1>1, <1>2 DEF Records
<1> HIDE DEF r, t, c
<1>6. Ordered(r) /\ Elements(r.cos) = Elements(s.cos) \ {s.cos[i]}
  BY <1>2, <1>4, Zenon DEF Ordered
<1> QED
  BY <1>3, <1>4, <1>5, <1>6 DEF r

\* wakeup: who sleeps without a time is in the list then; nobody else is lost.
LEMMA WakeupIs ==
  ASSUME NEW T, NEW s, Sound(T, s), NEW co \in T
  PROVE  /\ Sound(T, wakeup(s, co))
         /\ wakeup(s, co).lethargy = s.lethargy \ {co}
         /\ Elements(wakeup(s, co).cos) = Elements(s.cos) \cup (s.lethargy \cap {co})
<1>0. s \in Records(T) /\ Ordered(s) /\ Elements(s.cos) \cap s.lethargy = {}
  BY SoundIs
<1>1. CASE co \in s.lethargy
  <2> DEFINE p == push(s, 0, co)
  <2>1. /\ p \in Records(T) /\ Ordered(p) /\ p.lethargy = s.lethargy
        /\ Elements(p.cos) = Elements(s.cos) \cup {co}
    BY <1>0, <1>1, PushIs
  <2>2. wakeup(s, co) = [p EXCEPT !.lethargy = @ \ {co}]
    BY <1>1 DEF wakeup
  <2> HIDE DEF p
  <2>3. /\ wakeup(s, co) = [times |-> p.times, cos |-> p.cos, lethargy |-> p.lethargy \ {co}]
        /\ p.lethargy \subseteq T /\ p.times \in Seq(Nat) /\ p.cos \in Seq(T)
    BY <2>1, <2>2 DEF Records
  <2>4. wakeup(s, co) \in Records(T) /\ Ordered(wakeup(s, co))
    BY <2>1, <2>3 DEF Records, Ordered
  <2>5. Elements(wakeup(s, co).cos) \cap wakeup(s, co).lethargy = {}
    BY <1>0, <2>1, <2>3
  <2> QED
    BY <1>1, <2>1, <2>3, <2>4, <2>5, SoundIs
<1>2. CASE co \notin s.lethargy /\ \E i \in DOMAIN s.cos : s.cos[i] = co
  <2> DEFINE i == Position(s.cos, co)
             r == WithoutPlace(s, i)
  <2>1. i \in DOMAIN s.cos /\ s.cos[i] = co
    BY <1>2 DEF Position
  <2>2. i \in 1 .. Len(s.cos)
    BY <1>0, <2>1 DEF Records
  <2>3. wakeup(s, co) = push(r, 0, co)
    BY <1>2 DEF wakeup, WithoutPlace
  <2> HIDE DEF i
  <2>4. /\ r \in Records(T) /\ Ordered(r) /\ r.lethargy = s.lethargy
        /\ Elements(r.cos) = Elements(s.cos) \ {co}
    BY <1>0, <2>1, <2>2, TakenOut
  <2> HIDE DEF r
  <2>5. /\ push(r, 0, co) \in Records(T) /\ Ordered(push(r, 0, co))
        /\ push(r, 0, co).lethargy = s.lethargy
        /\ Elements(push(r, 0, co).cos) = Elements(r.cos) \cup {co}
    BY <2>4, PushIs
  <2>6. co \in Elements(s.cos)
    BY <2>1 DEF Elements
  <2> QED
    BY <1>0, <1>2, <2>3, <2>4, <2>5, <2>6, SoundIs
<1>3. CASE co \notin s.lethargy /\ ~ \E i \in DOMAIN s.cos : s.cos[i] = co
  <2>1. wakeup(s, co) = s
    BY <1>3 DEF wakeup
  <2> QED
    BY <1>3, <2>1
<1> QED
  BY <1>1, <1>2, <1>3

LEMMA SleepersAre ==
  ASSUME NEW s
  PROVE  Sleepers(s) = Elements(s.cos) \cup s.lethargy
BY DEF Sleepers, Elements

LEMMA PopIs ==
  ASSUME NEW T, NEW s, Sound(T, s), s.times # <<>>
  PROVE  /\ Sound(T, pop(s)) /\ pop(s).lethargy = s.lethargy
         /\ Head(s.cos) \in T
         /\ Head(s.cos) \in Elements(s.cos) /\ Head(s.cos) \notin Sleepers(pop(s))
         /\ Elements(pop(s).cos) = Elements(s.cos) \ {Head(s.cos)}
<1> DEFINE t == Tail(s.times)
           c == Tail(s.cos)
           n == Len(s.cos)
<1>1. /\ s.times \in Seq(Nat) /\ s.cos \in Seq(T) /\ s.lethargy \subseteq T
      /\ InOrder(s.times, s.cos) /\ Elements(s.cos) \cap s.lethargy = {} /\ s \in Records(T)
  BY SoundIs DEF Records, Ordered
<1>2. n \in Nat /\ n = Len(s.times) /\ n # 0 /\ s.cos # <<>>
  BY <1>1, EmptySeq DEF InOrder
<1>3. t \in Seq(Nat) /\ Len(t) = n - 1 /\ \A i \in 1 .. n - 1 : t[i] = s.times[i + 1]
  BY <1>1, <1>2, HeadTailProperties
<1>4. c \in Seq(T) /\ Len(c) = n - 1 /\ \A i \in 1 .. n - 1 : c[i] = s.cos[i + 1]
  BY <1>1, <1>2, HeadTailProperties
<1>5. Head(s.cos) = s.cos[1]
  BY <1>1, <1>2
<1>6. pop(s) = [times |-> t, cos |-> c, lethargy |-> s.lethargy]
  <2>1. pop(s) = [s EXCEPT !.times = t, !.cos = c]
    BY DEF pop
  <2> HIDE DEF t, c
  <2> QED
    BY <1>1, <2>1 DEF Records
<1>7. DOMAIN s.cos = 1 .. n /\ DOMAIN c = 1 .. n - 1
  BY <1>1, <1>2, <1>4
<1>8. \A i \in 1 .. n - 1 : c[i] = s.cos[i + 1] /\ i + 1 \in 1 .. n /\ 1 < i + 1 /\ 1 \in 1 .. n
  BY <1>2, <1>4
<1>9. \A i, j \in 1 .. n : i < j => s.times[i] <= s.times[j] /\ s.cos[i] # s.cos[j]
  BY <1>1 DEF InOrder
<1> HIDE DEF t, c, n
<1>10. Elements(c) \subseteq Elements(s.cos) /\ s.cos[1] \in Elements(s.cos)
  <2>1. 1 \in 1 .. n
    BY <1>2
  <2> QED
    BY <2>1, <1>7, <1>8 DEF Elements
<1>11. s.cos[1] \notin Elements(c)
  BY <1>7, <1>8, <1>9 DEF Elements
<1>17. Elements(c) = Elements(s.cos) \ {s.cos[1]}
  <2>1. ASSUME NEW x \in Elements(s.cos), x # s.cos[1] PROVE x \in Elements(c)
    <3>1. PICK i \in 1 .. n : x = s.cos[i]
      BY <1>7 DEF Elements
    <3>2. i # 1 /\ i - 1 \in 1 .. n - 1 /\ c[i - 1] = s.cos[(i - 1) + 1]
      BY <1>2, <1>8, <2>1, <3>1
    <3>3. (i - 1) + 1 = i
      BY <1>2
    <3> QED
      BY <1>7, <3>1, <3>2, <3>3 DEF Elements
  <2> QED
    BY <2>1, <1>10, <1>11
<1>12. InOrder(t, c)
  <2>1. ASSUME NEW i \in 1 .. n - 1, NEW j \in 1 .. n - 1, i < j
        PROVE  t[i] <= t[j] /\ c[i] # c[j]
    <3>1. i + 1 \in 1 .. n /\ j + 1 \in 1 .. n /\ i + 1 < j + 1
      BY <2>1, <1>2
    <3>2. s.times[i + 1] <= s.times[j + 1] /\ s.cos[i + 1] # s.cos[j + 1]
      BY <3>1, <1>9, ZenonT(30)
    <3>3. t[i] = s.times[i + 1] /\ t[j] = s.times[j + 1]
      BY <1>3, ZenonT(30)
    <3>4. c[i] = s.cos[i + 1] /\ c[j] = s.cos[j + 1]
      BY <1>4, ZenonT(30)
    <3> QED
      BY <3>2, <3>3, <3>4, ZenonT(30)
  <2> QED
    BY <2>1, <1>3, <1>4 DEF InOrder
<1>13. pop(s) \in Records(T) /\ Ordered(pop(s))
  BY <1>1, <1>3, <1>4, <1>6, <1>12 DEF Records, Ordered
<1>14. s.cos[1] \in T
  BY <1>1, <1>2
<1>15. Sound(T, pop(s))
  BY <1>1, <1>6, <1>10, <1>13, SoundIs
<1>16. s.cos[1] \notin Sleepers(pop(s))
  BY <1>1, <1>6, <1>10, <1>11, SleepersAre
<1> QED
  BY <1>5, <1>6, <1>10, <1>14, <1>15, <1>16, <1>17

LEMMA LaterIs ==
  ASSUME NEW T, NEW s, Sound(T, s), NEW d \in Nat
  PROVE  /\ Sound(T, Later(s, d)) /\ Later(s, d).lethargy = s.lethargy
         /\ Later(s, d).cos = s.cos
<1> DEFINE t == [i \in DOMAIN s.times |-> Minus(s.times[i], d)]
           n == Len(s.cos)
<1>1. /\ s.times \in Seq(Nat) /\ s.cos \in Seq(T) /\ s.lethargy \subseteq T
      /\ InOrder(s.times, s.cos) /\ Elements(s.cos) \cap s.lethargy = {} /\ s \in Records(T)
  BY SoundIs DEF Records, Ordered
<1>2. n \in Nat /\ n = Len(s.times) /\ DOMAIN s.times = 1 .. n
  BY <1>1 DEF InOrder
<1>3. Later(s, d) = [times |-> t, cos |-> s.cos, lethargy |-> s.lethargy]
  BY <1>1, SMTT(30) DEF Later, Records
<1>4. \A i \in 1 .. n : s.times[i] \in Nat /\ Minus(s.times[i], d) \in Nat
  BY <1>1, <1>2 DEF Minus
<1>5. t \in Seq(Nat) /\ Len(t) = n /\ \A i \in 1 .. n : t[i] = Minus(s.times[i], d)
  BY <1>2, <1>4
<1>6. \A i, j \in 1 .. n : i < j => s.times[i] <= s.times[j] /\ s.cos[i] # s.cos[j]
  BY <1>1 DEF InOrder
<1> HIDE DEF t, n
<1>7. ASSUME NEW i \in 1 .. n, NEW j \in 1 .. n, i < j
      PROVE  t[i] <= t[j] /\ s.cos[i] # s.cos[j]
  <2>1. s.times[i] \in Nat /\ s.times[j] \in Nat /\ s.times[i] <= s.times[j]
    BY <1>4, <1>6, <1>7
  <2> QED
    <3>1. Minus(s.times[i], d) <= Minus(s.times[j], d)
      BY <2>1 DEF Minus
    <3> QED
      BY <3>1, <1>5, <1>6, <1>7
<1>8. InOrder(t, s.cos)
  BY <1>5, <1>7 DEF InOrder, n
<1>9. Later(s, d) \in Records(T) /\ Ordered(Later(s, d))
  BY <1>1, <1>3, <1>5, <1>8 DEF Records, Ordered
<1> QED
  BY <1>1, <1>3, <1>9, SoundIs

\* A thread that does not sleep lies down, for ever or for some time.
LEMMA LieDown ==
  ASSUME NEW T, NEW s, Sound(T, s), NEW t \in T, t \notin Sleepers(s)
  PROVE  /\ Sound(T, push(s, -1, t))
         /\ push(s, -1, t).cos = s.cos /\ push(s, -1, t).lethargy = s.lethargy \cup {t}
         /\ \A d \in Nat :
              /\ Sound(T, push(s, d, t)) /\ push(s, d, t).lethargy = s.lethargy
              /\ Elements(push(s, d, t).cos) = Elements(s.cos) \cup {t}
<1>1. s \in Records(T) /\ Ordered(s) /\ Elements(s.cos) \cap s.lethargy = {}
  BY SoundIs
<1>2. t \notin Elements(s.cos) /\ t \notin s.lethargy
  BY SleepersAre
<1>3. push(s, -1, t) = [times |-> s.times, cos |-> s.cos, lethargy |-> s.lethargy \cup {t}]
  <2>1. -1 < 0
    OBVIOUS
  <2>2. push(s, -1, t) = [s EXCEPT !.lethargy = @ \cup {t}]
    BY <2>1, Zenon DEF push
  <2> QED
    BY <1>1, <2>2 DEF Records
<1>4. push(s, -1, t) \in Records(T) /\ Ordered(push(s, -1, t))
  BY <1>1, <1>3 DEF Records, Ordered
<1>5. Sound(T, push(s, -1, t))
  BY <1>1, <1>2, <1>3, <1>4, SoundIs
<1>6. ASSUME NEW d \in Nat
      PROVE  /\ Sound(T, push(s, d, t)) /\ push(s, d, t).lethargy = s.lethargy
             /\ Elements(push(s, d, t).cos) = Elements(s.cos) \cup {t}
  <2>1. /\ push(s, d, t) \in Records(T) /\ Ordered(push(s, d, t))
        /\ push(s, d, t).lethargy = s.lethargy
        /\ Elements(push(s, d, t).cos) = Elements(s.cos) \cup {t}
    BY <1>1, <1>2, PushIs
  <2> QED
    BY <1>1, <1>2, <2>1, SoundIs
<1> QED
  BY <1>3, <1>5, <1>6
=============================================================================
