--------------------------- MODULE ContainerProofs ---------------------------
(***************************************************************************)
(* The sparse table, for any group size, any values and any size: counts,  *)
(* packed values and bitmaps agree, to its user the table is an array with *)
(* holes, and a table read from a file with success is the one written     *)
(* last.  The mapped container, for any items: its map counts its list.    *)
(***************************************************************************)
EXTENDS SparseTableFile, MappedContainer, FiniteSetTheorems, SequenceTheorems,
        WellFoundedInduction, TLAPS

(***************************************************************************)
(* Numbers.                                                                *)
(***************************************************************************)
LEMMA NatInd ==
  ASSUME NEW S, 0 \in S, \A i \in Nat : i \in S => i + 1 \in S
  PROVE  Nat \subseteq S
<1>1. SUFFICES ASSUME {i \in Nat : i \notin S} # {} PROVE FALSE
  OBVIOUS
<1>2. PICK x \in {i \in Nat : i \notin S} :
        \A y \in {i \in Nat : i \notin S} : ~ (<<y, x>> \in OpToRel(<, Nat))
  BY <1>1, WFMin, NatLessThanWellFounded, Zenon
<1>3. \A y \in {i \in Nat : i \notin S} : ~ (y < x)
  BY <1>2, Zenon DEF OpToRel
<1> QED
  BY <1>3

LEMMA Constants ==
  /\ GROUP_SIZE \in Nat /\ GROUP_SIZE > 0 /\ CharBits \in Nat /\ CharBits > 0
  /\ Default \in Values /\ MaxSize \in Nat
BY SparseTableAssumed DEF SparseTableAssumption

\* The sum of a sequence is the last of its partial sums.
LEMMA SumIs ==
  ASSUME NEW s, Len(s) \in Nat, NEW t \in [0 .. Len(s) -> Nat], t[0] = 0,
         \A k \in 1 .. Len(s) : t[k] = t[k - 1] + s[k]
  PROVE  SumOf(s) = t[Len(s)]
<1> DEFINE n == Len(s)
           Sums(f) == f = [k \in 0 .. n |-> IF k = 0 THEN 0 ELSE f[k - 1] + s[k]]
           f == CHOOSE x : Sums(x)
<1>1. Sums(t)
  <2>1. \A k \in 0 .. n : k # 0 => k \in 1 .. n
    OBVIOUS
  <2> QED
    BY <2>1
<1>2. Sums(f)
  <2> HIDE DEF Sums
  <2> QED
    BY <1>1, Zenon
<1>3. SumOf(s) = f[n]
  BY Zenon DEF SumOf
<1> HIDE DEF f
<1>4. f[0] = 0 /\ \A k \in 1 .. n : f[k] = f[k - 1] + s[k]
  BY <1>2
<1> DEFINE S == {k \in Nat : k <= n => f[k] = t[k]}
<1>5. 0 \in S
  BY <1>4
<1>6. ASSUME NEW k \in Nat, k \in S PROVE k + 1 \in S
  <2> SUFFICES ASSUME k + 1 <= n PROVE f[k + 1] = t[k + 1]
    OBVIOUS
  <2>1. k + 1 \in 1 .. n /\ (k + 1) - 1 = k /\ k <= n
    OBVIOUS
  <2> QED
    BY <1>4, <1>6, <2>1
<1>7. n \in S
  <2> HIDE DEF S
  <2> QED
    BY <1>5, <1>6, NatInd
<1> QED
  BY <1>3, <1>7

(***************************************************************************)
(* Places in a packed group: the bits below an index.                      *)
(***************************************************************************)
UpTo(bm, n) == bm \in SUBSET (0 .. n - 1)
Below(bm, i) == {b \in bm : b < i}
Rank(bm, i) == Cardinality(Below(bm, i))

LEMMA RankIs ==
  ASSUME NEW n \in Nat, NEW bm, UpTo(bm, n), NEW i \in Nat
  PROVE  /\ IsFiniteSet(bm) /\ Cardinality(bm) \in Nat
         /\ IsFiniteSet(Below(bm, i)) /\ Rank(bm, i) \in Nat /\ Rank(bm, i) <= Cardinality(bm)
         /\ i >= n => Rank(bm, i) = Cardinality(bm)
         /\ i = 0 => Rank(bm, i) = 0
<1>1. IsFiniteSet(bm) /\ \A b \in bm : b \in Nat /\ b < n
  <2> USE DEF UpTo
  <2>1. IsFiniteSet(0 .. n - 1)
    BY FS_Interval
  <2>2. IsFiniteSet(bm)
    BY <2>1, FS_Subset, Zenon
  <2> QED
    BY <2>2
<1>2. Below(bm, i) \in SUBSET bm
  BY DEF Below
<1>3. ASSUME i >= n PROVE Rank(bm, i) = Cardinality(bm)
  <2>1. \A b \in bm : b < i
    BY <1>1, <1>3
  <2>2. Below(bm, i) = bm
    BY <2>1, Zenon DEF Below
  <2> QED
    BY <2>2 DEF Rank
<1>4. ASSUME i = 0 PROVE Rank(bm, i) = 0
  <2>1. \A b \in bm : ~ (b < i)
    BY <1>1, <1>4
  <2>2. Below(bm, i) = {}
    BY <2>1, Zenon DEF Below
  <2> QED
    BY <2>2, FS_EmptySet DEF Rank
<1> DEFINE A == Below(bm, i)
<1> HIDE DEF A
<1>5. IsFiniteSet(A) /\ Cardinality(A) \in Nat /\ Cardinality(A) <= Cardinality(bm) /\ Cardinality(bm) \in Nat
  BY <1>1, <1>2, FS_Subset, FS_CardinalityType DEF A
<1>6. Rank(bm, i) = Cardinality(A)
  BY DEF Rank, A
<1> QED
  BY <1>1, <1>3, <1>4, <1>5, <1>6 DEF A

LEMMA RankGrows ==
  ASSUME NEW n \in Nat, NEW bm, UpTo(bm, n), NEW i \in bm, NEW j \in Nat, i < j
  PROVE  Rank(bm, i) < Rank(bm, j)
<1> DEFINE A == Below(bm, i)
<1>1. i \in Nat /\ \A b \in bm : b \in Nat
  BY DEF UpTo
<1>2. IsFiniteSet(A) /\ IsFiniteSet(Below(bm, j)) /\ Cardinality(A) \in Nat /\ Rank(bm, j) \in Nat
  BY <1>1, RankIs DEF Rank
<1>3. i \notin A /\ A \cup {i} \in SUBSET Below(bm, j)
  <2>1. \A b \in bm : b < i => b < j
    BY <1>1
  <2>2. ~ (i < i)
    BY <1>1
  <2> QED
    BY <2>1, <2>2, Zenon DEF Below
<1> HIDE DEF A
<1>4. Cardinality(A \cup {i}) = Cardinality(A) + 1
  BY <1>2, <1>3, FS_AddElement
<1>5. Cardinality(A \cup {i}) <= Rank(bm, j)
  BY <1>2, <1>3, FS_Subset DEF Rank
<1>6. Rank(bm, i) = Cardinality(A)
  BY DEF Rank, A
<1> QED
  BY <1>2, <1>4, <1>5, <1>6

LEMMA RankInside ==
  ASSUME NEW n \in Nat, NEW bm, UpTo(bm, n), NEW i \in bm
  PROVE  Rank(bm, i) \in 0 .. Cardinality(bm) - 1
<1>1. i \in Nat /\ i < n
  BY DEF UpTo
<1>2. Rank(bm, i) < Rank(bm, n)
  BY <1>1, RankGrows
<1>3. Rank(bm, i) \in Nat /\ Rank(bm, n) <= Cardinality(bm) /\ Rank(bm, n) \in Nat /\ Cardinality(bm) \in Nat
  BY <1>1, RankIs
<1> QED
  BY <1>2, <1>3

\* c has one element more than bm.
OneMore(c, bm, x) == c = bm \cup {x} /\ x \notin bm

LEMMA RankAdded ==
  ASSUME NEW n \in Nat, NEW bm, UpTo(bm, n), NEW x \in Nat, NEW c, OneMore(c, bm, x), NEW j \in Nat
  PROVE  /\ x < j => Rank(c, j) = Rank(bm, j) + 1
         /\ ~ (x < j) => Rank(c, j) = Rank(bm, j)
<1>1. x < j => Below(c, j) = Below(bm, j) \cup {x}
  BY Zenon DEF Below, OneMore
<1>2. ~ (x < j) => Below(c, j) = Below(bm, j)
  BY Zenon DEF Below, OneMore
<1>3. x \notin Below(bm, j) /\ IsFiniteSet(Below(bm, j))
  BY RankIs DEF Below, OneMore
<1>4. Cardinality(Below(bm, j) \cup {x}) = Cardinality(Below(bm, j)) + 1
  BY <1>3, FS_AddElement
<1> QED
  BY <1>1, <1>2, <1>4 DEF Rank

Within(bm, a, k) == {b \in bm : b \in a .. a + k - 1}

LEMMA RankOver ==
  ASSUME NEW n \in Nat, NEW bm, UpTo(bm, n), NEW a \in Nat, NEW k \in Nat
  PROVE  /\ Rank(bm, a + k) = Rank(bm, a) + Cardinality(Within(bm, a, k))
         /\ Cardinality(Within(bm, a, k)) \in Nat
<1> DEFINE M == Within(bm, a, k)
<1>1. Below(bm, a + k) = Below(bm, a) \cup M /\ Below(bm, a) \cap M = {}
  <2>1. \A b \in bm : b \in Nat
    BY DEF UpTo
  <2>2. /\ \A b \in bm : b < a + k <=> b < a \/ b \in a .. a + k - 1
        /\ \A b \in bm : ~ (b < a /\ b \in a .. a + k - 1)
    BY <2>1
  <2> QED
    BY <2>2, Zenon DEF Below, Within
<1>2. IsFiniteSet(bm) /\ IsFiniteSet(Below(bm, a)) /\ Rank(bm, a) \in Nat
  BY RankIs
<1>3. IsFiniteSet(M) /\ Cardinality(M) \in Nat
  <2>1. M \in SUBSET bm
    BY DEF Within
  <2> HIDE DEF M
  <2> QED
    BY <1>2, <2>1, FS_Subset, FS_CardinalityType
<1> HIDE DEF M
<1>4. Cardinality(Below(bm, a) \cup M) = Cardinality(Below(bm, a)) + Cardinality(M) - 0
  BY <1>1, <1>2, <1>3, FS_Union, FS_EmptySet
<1>5. Rank(bm, a + k) = Cardinality(Below(bm, a) \cup M) /\ Rank(bm, a) = Cardinality(Below(bm, a))
  BY <1>1, Zenon DEF Rank
<1>6. Rank(bm, a + k) = Rank(bm, a) + Cardinality(M)
  BY <1>2, <1>3, <1>4, <1>5
<1> QED
  BY <1>3, <1>6 DEF M


LEMMA RankNext ==
  ASSUME NEW n \in Nat, NEW bm, UpTo(bm, n), NEW i \in Nat
  PROVE  Rank(bm, i + 1) = Rank(bm, i) + (IF i \in bm THEN 1 ELSE 0)
<1> DEFINE A == Below(bm, i)
           B == Below(bm, i + 1)
<1>1. IsFiniteSet(A) /\ Cardinality(A) \in Nat
  BY RankIs DEF Rank
<1>2. \A b \in bm : b \in Nat
  BY DEF UpTo
<1>3. \A b \in bm : b < i + 1 <=> b < i \/ b = i
  BY <1>2
<1>4. ~ (i < i)
  OBVIOUS
<1>5. CASE i \in bm
  <2>1. B = A \cup {i} /\ i \notin A
    BY <1>3, <1>4, <1>5, Zenon DEF Below
  <2> HIDE DEF A, B
  <2>2. Cardinality(B) = Cardinality(A) + 1
    BY <1>1, <2>1, FS_AddElement
  <2> QED
    BY <1>5, <2>2 DEF A, B, Rank
<1>6. CASE i \notin bm
  <2>1. B = A
    BY <1>3, <1>6, Zenon DEF Below
  <2> HIDE DEF A, B
  <2> QED
    BY <1>1, <1>6, <2>1 DEF A, B, Rank
<1> QED
  BY <1>5, <1>6

\* The stretch of bm from x on is a copy of cm.
CopyAt(bm, x, cm, g) == \A b \in 0 .. g - 1 : x + b \in bm <=> b \in cm

LEMMA RankShift ==
  ASSUME NEW n \in Nat, NEW bm, UpTo(bm, n), NEW m \in Nat, NEW cm, UpTo(cm, m),
         NEW x \in Nat, NEW g \in Nat, CopyAt(bm, x, cm, g),
         NEW c \in 0 .. g
  PROVE  Rank(bm, x + c) = Rank(bm, x) + Rank(cm, c)
<1> DEFINE S == {k \in Nat : k <= g => Rank(bm, x + k) = Rank(bm, x) + Rank(cm, k)}
<1>1. Rank(bm, x) \in Nat /\ \A k \in Nat : Rank(cm, k) \in Nat
  BY RankIs
<1>2. 0 \in S
  <2>1. Rank(cm, 0) = 0 /\ x + 0 = x
    BY RankIs
  <2> QED
    BY <1>1, <2>1
<1>3. ASSUME NEW k \in Nat, k \in S PROVE k + 1 \in S
  <2> SUFFICES ASSUME k + 1 <= g PROVE Rank(bm, x + (k + 1)) = Rank(bm, x) + Rank(cm, k + 1)
    OBVIOUS
  <2>1. x + k \in Nat /\ x + (k + 1) = (x + k) + 1 /\ k \in 0 .. g - 1
    OBVIOUS
  <2>2. Rank(bm, (x + k) + 1) = Rank(bm, x + k) + (IF x + k \in bm THEN 1 ELSE 0)
    BY <2>1, RankNext
  <2>3. Rank(cm, k + 1) = Rank(cm, k) + (IF k \in cm THEN 1 ELSE 0)
    BY RankNext
  <2>4. Rank(bm, x + k) = Rank(bm, x) + Rank(cm, k)
    BY <1>3, <2>1
  <2> QED
    BY <1>1, <2>1, <2>2, <2>3, <2>4 DEF CopyAt
<1> HIDE DEF S
<1>4. c \in S
  BY <1>2, <1>3, NatInd
<1> QED
  BY <1>4 DEF S

\* Below each of the counts of a set there is an element.
LEMMA RankReached ==
  ASSUME NEW n \in Nat, NEW bm, UpTo(bm, n), NEW k \in Nat, k < Cardinality(bm)
  PROVE  \E i \in bm : Rank(bm, i) = k
<1> DEFINE S == {i \in Nat : Rank(bm, i) <= k}
<1>1. \A i \in Nat : Rank(bm, i) \in Nat
  BY RankIs
<1>2. Rank(bm, n) = Cardinality(bm) /\ Cardinality(bm) \in Nat /\ Rank(bm, 0) = 0
  BY RankIs
<1>3. 0 \in S /\ n \notin S
  BY <1>1, <1>2
<1>4. PICK i \in Nat : i \in S /\ i + 1 \notin S
  <2> SUFFICES ASSUME \A i \in Nat : i \in S => i + 1 \in S PROVE FALSE
    OBVIOUS
  <2> HIDE DEF S
  <2>1. n \in S
    BY <1>3, NatInd
  <2> QED
    BY <1>3, <2>1
<1>5. Rank(bm, i + 1) = Rank(bm, i) + (IF i \in bm THEN 1 ELSE 0)
  BY RankNext
<1> QED
  BY <1>1, <1>4, <1>5

LEMMA DivIs ==
  ASSUME NEW a \in Nat, NEW d \in Nat, d > 0
  PROVE  /\ a \div d \in Nat /\ a % d \in 0 .. d - 1
         /\ a = (a \div d) * d + (a % d)
OBVIOUS

\* As many bits are set in whole elements of the bitmap and in the last one as below pos.
LEMMA PlaceIs ==
  ASSUME NEW bm \in SUBSET (0 .. GROUP_SIZE - 1), NEW pos \in Nat
  PROVE  pos_to_offset(bm, pos) = Rank(bm, pos)
<1> DEFINE whole == WholeElements(pos)
           inside == IF pos - whole * CharBits > CharBits THEN CharBits ELSE pos - whole * CharBits
           s == [e \in 1 .. whole |-> bits_in(bm, e - 1, CharBits)]
           t == [k \in 0 .. whole |-> Rank(bm, k * CharBits)]
<1>1. GROUP_SIZE \in Nat /\ CharBits \in Nat /\ CharBits > 0 /\ UpTo(bm, GROUP_SIZE)
  BY Constants DEF UpTo
<1>2. whole \in Nat /\ inside \in Nat /\ pos = whole * CharBits + inside
  <2>1. CASE pos > CharBits
    <3> DEFINE q == (pos - 1) \div CharBits
               m == (pos - 1) % CharBits
    <3>1. q \in Nat /\ m \in 0 .. CharBits - 1 /\ pos - 1 = q * CharBits + m
      BY <1>1, <2>1, DivIs
    <3>2. whole = q
      BY <2>1 DEF WholeElements
    <3> DEFINE p == q * CharBits
    <3>3. p \in Nat
      BY <1>1, <3>1
    <3> HIDE DEF q, m, whole, p
    <3>4. pos - p <= CharBits /\ pos - p \in Nat /\ pos = p + (pos - p)
      BY <1>1, <3>1, <3>3 DEF p
    <3>5. inside = pos - p
      BY <1>1, <3>2, <3>3, <3>4 DEF p
    <3> HIDE DEF inside
    <3> QED
      BY <3>1, <3>2, <3>4, <3>5 DEF p
  <2>2. CASE ~ (pos > CharBits)
    BY <1>1, <2>2 DEF WholeElements
  <2> QED
    BY <2>1, <2>2
<1>3. pos_to_offset(bm, pos) = SumOf(s) + bits_in(bm, whole, inside)
  BY Zenon DEF pos_to_offset
<1> HIDE DEF whole, inside
<1>4. ASSUME NEW e \in Nat, NEW k \in Nat
      PROVE  /\ bits_in(bm, e, k) \in Nat /\ Rank(bm, e * CharBits) \in Nat
             /\ Rank(bm, e * CharBits + k) = Rank(bm, e * CharBits) + bits_in(bm, e, k)
  <2> DEFINE a == e * CharBits
  <2>1. a \in Nat
    BY <1>1
  <2>2. bits_in(bm, e, k) = Cardinality(Within(bm, a, k))
    BY Zenon DEF bits_in, Within
  <2> HIDE DEF a
  <2>3. Rank(bm, a) \in Nat
    BY <1>1, <2>1, RankIs
  <2>4. /\ Rank(bm, a + k) = Rank(bm, a) + bits_in(bm, e, k)
        /\ bits_in(bm, e, k) \in Nat
    BY <1>1, <2>1, <2>2, RankOver
  <2> QED
    BY <2>3, <2>4 DEF a
<1>5. Len(s) = whole /\ Len(s) \in Nat
  BY <1>2
<1>6. t \in [0 .. whole -> Nat] /\ t[0] = 0
  <2>1. 0 * CharBits = 0 /\ 0 \in Nat
    BY <1>1
  <2>2. Rank(bm, 0) = 0
    BY <1>1, RankIs
  <2>3. \A k \in 0 .. whole : Rank(bm, k * CharBits) \in Nat
    BY <1>4
  <2> QED
    BY <1>2, <2>1, <2>2, <2>3
<1>7. ASSUME NEW k \in 1 .. whole PROVE t[k] = t[k - 1] + s[k]
  <2>1. k - 1 \in Nat /\ k - 1 \in 0 .. whole /\ k \in 0 .. whole /\ k * CharBits = (k - 1) * CharBits + CharBits
    BY <1>1, <1>2
  <2>2. Rank(bm, (k - 1) * CharBits + CharBits) = Rank(bm, (k - 1) * CharBits) + bits_in(bm, k - 1, CharBits)
    BY <1>1, <1>4, <2>1
  <2> QED
    BY <2>1, <2>2
<1> HIDE DEF s, t
<1>8. SumOf(s) = t[whole]
  BY <1>5, <1>6, <1>7, SumIs
<1>9. t[whole] = Rank(bm, whole * CharBits)
  BY <1>2 DEF t
<1> QED
  BY <1>2, <1>3, <1>4, <1>8, <1>9

\* x is s with e at place p.
Inserted(x, s, p, e) ==
  /\ Len(x) = Len(s) + 1
  /\ \A j \in 1 .. Len(s) + 1 :
       x[j] = IF j < p THEN s[j] ELSE IF j = p THEN e ELSE s[j - 1]

LEMMA InsertAtIs ==
  ASSUME NEW S, NEW s \in Seq(S), NEW e \in S, NEW i \in 1 .. Len(s) + 1
  PROVE  InsertAt(s, i, e) \in Seq(S) /\ Inserted(InsertAt(s, i, e), s, i, e)
<1> DEFINE a == SubSeq(s, 1, i - 1)
           b == SubSeq(s, i, Len(s))
           c == a \o <<e>>
<1>1. /\ a \in Seq(S) /\ Len(a) = i - 1
      /\ \A j \in 1 .. i - 1 : a[j] = s[j]
  BY SubSeqProperties
<1>2. /\ b \in Seq(S) /\ Len(b) = Len(s) - i + 1
      /\ \A j \in 1 .. Len(s) - i + 1 : b[j] = s[i + j - 1]
  BY SubSeqProperties
<1>3. /\ c \in Seq(S) /\ Len(c) = i
      /\ \A j \in 1 .. i : c[j] = IF j < i THEN s[j] ELSE e
  BY <1>1, ConcatProperties
<1>4. InsertAt(s, i, e) = c \o b
  BY DEF InsertAt
<1> HIDE DEF a, b, c
<1>5. /\ c \o b \in Seq(S) /\ Len(c \o b) = Len(s) + 1
      /\ \A j \in 1 .. Len(s) + 1 : (c \o b)[j] = IF j <= i THEN c[j] ELSE b[j - i]
  <2>1. Len(c \o b) = Len(c) + Len(b) /\ c \o b \in Seq(S)
    BY <1>2, <1>3, ConcatProperties
  <2>2. \A j \in 1 .. Len(c) + Len(b) : (c \o b)[j] = IF j <= Len(c) THEN c[j] ELSE b[j - Len(c)]
    BY <1>2, <1>3, ConcatProperties, Zenon
  <2> QED
    BY <2>1, <2>2, <1>2, <1>3
<1>6. ASSUME NEW j \in 1 .. Len(s) + 1
      PROVE  (c \o b)[j] = IF j < i THEN s[j] ELSE IF j = i THEN e ELSE s[j - 1]
  <2>1. CASE j <= i
    BY <2>1, <1>3, <1>5
  <2>2. CASE ~ (j <= i)
    <3>1. j - i \in 1 .. Len(s) - i + 1 /\ i + (j - i) - 1 = j - 1
      BY <2>2
    <3>2. (c \o b)[j] = b[j - i]
      BY <2>2, <1>5
    <3>3. b[j - i] = s[j - 1]
      BY <3>1, <1>2
    <3> QED
      BY <2>2, <3>2, <3>3
  <2> QED
    BY <2>1, <2>2
<1> QED
  BY <1>4, <1>5, <1>6 DEF Inserted

LEMMA RemoveAtIs ==
  ASSUME NEW S, NEW s \in Seq(S), NEW i \in 1 .. Len(s)
  PROVE  /\ RemoveAt(s, i) \in Seq(S)
         /\ Len(RemoveAt(s, i)) = Len(s) - 1
         /\ \A j \in 1 .. Len(s) - 1 :
              RemoveAt(s, i)[j] = IF j < i THEN s[j] ELSE s[j + 1]
<1> DEFINE a == SubSeq(s, 1, i - 1)
           b == SubSeq(s, i + 1, Len(s))
<1>1. /\ a \in Seq(S) /\ Len(a) = i - 1
      /\ \A j \in 1 .. i - 1 : a[j] = s[j]
  BY SubSeqProperties
<1>2. /\ b \in Seq(S) /\ Len(b) = Len(s) - i
      /\ \A j \in 1 .. Len(s) - i : b[j] = s[i + j]
  BY SubSeqProperties
<1>4. RemoveAt(s, i) = a \o b
  BY DEF RemoveAt
<1> HIDE DEF a, b
<1>5. /\ a \o b \in Seq(S) /\ Len(a \o b) = Len(s) - 1
      /\ \A j \in 1 .. Len(s) - 1 : (a \o b)[j] = IF j < i THEN a[j] ELSE b[j - i + 1]
  <2>1. Len(a \o b) = Len(a) + Len(b) /\ a \o b \in Seq(S)
    BY <1>1, <1>2, ConcatProperties
  <2>2. \A j \in 1 .. Len(a) + Len(b) : (a \o b)[j] = IF j <= Len(a) THEN a[j] ELSE b[j - Len(a)]
    BY <1>1, <1>2, ConcatProperties, Zenon
  <2> QED
    BY <2>1, <2>2, <1>1, <1>2
<1>6. ASSUME NEW j \in 1 .. Len(s) - 1
      PROVE  (a \o b)[j] = IF j < i THEN s[j] ELSE s[j + 1]
  <2>1. CASE j < i
    BY <2>1, <1>1, <1>5
  <2>2. CASE ~ (j < i)
    <3>1. j - i + 1 \in 1 .. Len(s) - i /\ i + (j - i + 1) = j + 1
      BY <2>2
    <3> QED
      BY <2>2, <3>1, <1>2, <1>5
  <2> QED
    BY <2>1, <2>2
<1> QED
  BY <1>4, <1>5, <1>6

(***************************************************************************)
(* One group: a packed sequence of values and a bitmap.                    *)
(***************************************************************************)
GroupType == [group : Seq(Values), bitmap : SUBSET (0 .. GROUP_SIZE - 1), num_buckets : Nat]
GoodGroup(g) ==
  /\ g \in GroupType /\ Len(g.group) = Cardinality(g.bitmap) /\ g.num_buckets = Len(g.group)

\* The value of index i of the group.
ValueAt(g, i) == g.group[Rank(g.bitmap, i) + 1]

LEMMA GoodIs ==
  ASSUME NEW s \in Seq(Values), NEW bm \in SUBSET (0 .. GROUP_SIZE - 1),
         Len(s) = Cardinality(bm), NEW n, n = Len(s)
  PROVE  GoodGroup([group |-> s, bitmap |-> bm, num_buckets |-> n])
BY DEF GoodGroup, GroupType

LEMMA EmptyGroupGood ==
  GoodGroup(EmptyGroup) /\ EmptyGroup.bitmap = {} /\ EmptyGroup.num_buckets = 0
BY FS_EmptySet DEF GoodGroup, GroupType, EmptyGroup

LEMMA GetIs ==
  ASSUME NEW g, GoodGroup(g), NEW i \in 0 .. GROUP_SIZE - 1, i \in g.bitmap
  PROVE  /\ Rank(g.bitmap, i) + 1 \in 1 .. Len(g.group)
         /\ get(g, i) = ValueAt(g, i) /\ ValueAt(g, i) \in Values
<1>1. GROUP_SIZE \in Nat /\ g.bitmap \in SUBSET (0 .. GROUP_SIZE - 1) /\ g.group \in Seq(Values)
      /\ Len(g.group) = Cardinality(g.bitmap) /\ UpTo(g.bitmap, GROUP_SIZE)
  BY Constants DEF GoodGroup, GroupType, UpTo
<1>2. pos_to_offset(g.bitmap, i) = Rank(g.bitmap, i)
  BY <1>1, PlaceIs
<1>3. Rank(g.bitmap, i) \in 0 .. Cardinality(g.bitmap) - 1 /\ Cardinality(g.bitmap) \in Nat
  BY <1>1, RankInside
<1>4. Rank(g.bitmap, i) + 1 \in 1 .. Len(g.group)
  BY <1>1, <1>3
<1>5. get(g, i) = ValueAt(g, i)
  BY <1>2 DEF get, bmtest, ValueAt
<1>6. ValueAt(g, i) \in Values
  BY <1>1, <1>4 DEF ValueAt
<1> QED
  BY <1>4, <1>5, <1>6

\* Assigning index i changes its own value only; the values behind it move up by one
\* when it was not assigned.
LEMMA SetIs ==
  ASSUME NEW g, GoodGroup(g), NEW i \in 0 .. GROUP_SIZE - 1, NEW v \in Values
  PROVE  LET h == set(g, i, v)
         IN  /\ GoodGroup(h) /\ h.bitmap = g.bitmap \cup {i}
             /\ h.num_buckets = g.num_buckets + (IF i \in g.bitmap THEN 0 ELSE 1)
             /\ \A j \in h.bitmap : ValueAt(h, j) = IF j = i THEN v ELSE ValueAt(g, j)
<1> DEFINE h == set(g, i, v)
           bm == g.bitmap
           s == g.group
           p == Rank(bm, i) + 1
           H == h.group
<1>1. /\ GROUP_SIZE \in Nat /\ bm \in SUBSET (0 .. GROUP_SIZE - 1) /\ s \in Seq(Values)
      /\ Len(s) = Cardinality(bm) /\ g.num_buckets = Len(s) /\ Len(s) \in Nat /\ i \in Nat
      /\ UpTo(bm, GROUP_SIZE)
  BY Constants DEF GoodGroup, GroupType, UpTo
<1>2. pos_to_offset(bm, i) = Rank(bm, i)
  BY <1>1, PlaceIs
<1>3. h = [group |-> IF i \in bm THEN [s EXCEPT ![p] = v] ELSE InsertAt(s, p, v),
           bitmap |-> bm \cup {i}, num_buckets |-> g.num_buckets + (IF i \in bm THEN 0 ELSE 1)]
  BY <1>2 DEF set, bmtest
<1>4. /\ H = IF i \in bm THEN [s EXCEPT ![p] = v] ELSE InsertAt(s, p, v)
      /\ h.bitmap = bm \cup {i} /\ h.num_buckets = g.num_buckets + (IF i \in bm THEN 0 ELSE 1)
      /\ h = [group |-> H, bitmap |-> h.bitmap, num_buckets |-> h.num_buckets]
  BY <1>3
<1>5. ASSUME NEW j \in bm PROVE j \in Nat /\ Rank(bm, j) \in 0 .. Cardinality(bm) - 1
  BY <1>1, RankInside
<1>6. ValueAt(g, i) = s[p] /\ \A j : ValueAt(h, j) = H[Rank(h.bitmap, j) + 1] /\ ValueAt(g, j) = s[Rank(bm, j) + 1]
  BY DEF ValueAt
<1>7. IsFiniteSet(bm) /\ Cardinality(bm) \in Nat /\ Rank(bm, i) \in 0 .. Cardinality(bm)
  BY <1>1, RankIs
<1> HIDE DEF h, H, s, p, bm
<1>8. CASE i \in bm
  <2>1. h.bitmap = bm /\ h.num_buckets = Len(s)
    BY <1>1, <1>4, <1>8
  <2>2. p \in 1 .. Len(s)
    BY <1>1, <1>5, <1>8 DEF p
  <2>3. /\ H \in Seq(Values) /\ Len(H) = Len(s)
        /\ \A k \in 1 .. Len(s) : H[k] = IF k = p THEN v ELSE s[k]
    BY <1>1, <1>4, <1>8, <2>2
  <2>4. GoodGroup(h)
    <3>1. h.bitmap \in SUBSET (0 .. GROUP_SIZE - 1) /\ h.num_buckets \in Nat /\ h.num_buckets = Len(H)
          /\ Len(H) = Cardinality(h.bitmap)
      BY <1>1, <2>1, <2>3
    <3>2. GoodGroup([group |-> H, bitmap |-> h.bitmap, num_buckets |-> h.num_buckets])
      BY <2>3, <3>1, GoodIs
    <3> QED
      BY <1>4, <3>2, Zenon
  <2>5. ASSUME NEW j \in bm PROVE ValueAt(h, j) = IF j = i THEN v ELSE ValueAt(g, j)
    <3>1. j # i => Rank(bm, j) # Rank(bm, i)
      <4>1. j < i => Rank(bm, j) < Rank(bm, i)
        BY <1>1, <1>5, RankGrows
      <4>2. i < j => Rank(bm, i) < Rank(bm, j)
        BY <1>1, <1>5, <1>8, RankGrows
      <4> QED
        BY <1>1, <1>5, <1>8, <4>1, <4>2
    <3>2. Rank(bm, j) + 1 \in 1 .. Len(s) /\ (j # i => Rank(bm, j) + 1 # p)
      BY <1>1, <1>5, <1>8, <3>1 DEF p
    <3>3. H[Rank(bm, j) + 1] = IF j = i THEN v ELSE s[Rank(bm, j) + 1]
      BY <2>3, <3>2 DEF p
    <3> QED
      BY <1>6, <2>1, <3>3
  <2> QED
    BY <1>4, <1>8, <2>1, <2>4, <2>5 DEF h, bm
<1>9. CASE i \notin bm
  <2>1. h.bitmap = bm \cup {i} /\ h.num_buckets = Len(s) + 1
    BY <1>1, <1>4, <1>9
  <2>2. p \in 1 .. Len(s) + 1
    BY <1>1, <1>7 DEF p
  <2>3. /\ H \in Seq(Values) /\ Len(H) = Len(s) + 1
        /\ \A k \in 1 .. Len(s) + 1 : H[k] = IF k < p THEN s[k] ELSE IF k = p THEN v ELSE s[k - 1]
    <3>1. H = InsertAt(s, p, v)
      BY <1>4, <1>9
    <3>2. InsertAt(s, p, v) \in Seq(Values) /\ Inserted(InsertAt(s, p, v), s, p, v)
      BY <1>1, <2>2, InsertAtIs
    <3> QED
      BY <3>1, <3>2, Zenon DEF Inserted
  <2>4. Cardinality(bm \cup {i}) = Cardinality(bm) + 1
    BY <1>7, <1>9, FS_AddElement
  <2>5. GoodGroup(h)
    <3>1. h.bitmap \in SUBSET (0 .. GROUP_SIZE - 1)
      BY <1>1, <2>1
    <3>2. h.num_buckets \in Nat /\ h.num_buckets = Len(H) /\ Len(H) = Cardinality(h.bitmap)
      BY <1>1, <2>1, <2>3, <2>4
    <3>3. GoodGroup([group |-> H, bitmap |-> h.bitmap, num_buckets |-> h.num_buckets])
      BY <2>3, <3>1, <3>2, GoodIs
    <3> QED
      BY <1>4, <3>3, Zenon
  <2>6. ASSUME NEW j \in Nat
        PROVE  /\ i < j => Rank(h.bitmap, j) = Rank(bm, j) + 1
               /\ ~ (i < j) => Rank(h.bitmap, j) = Rank(bm, j)
    <3> DEFINE c == h.bitmap
    <3>1. OneMore(c, bm, i)
      BY <1>9, <2>1, Zenon DEF OneMore
    <3> HIDE DEF c
    <3>2. /\ i < j => Rank(c, j) = Rank(bm, j) + 1
          /\ ~ (i < j) => Rank(c, j) = Rank(bm, j)
      BY <1>1, <3>1, RankAdded
    <3> QED
      BY <3>2 DEF c
  <2>7. ValueAt(h, i) = v
    <3>1. Rank(h.bitmap, i) + 1 = p
      BY <1>1, <2>6 DEF p
    <3> QED
      BY <1>6, <2>2, <2>3, <3>1
  <2>8. ASSUME NEW j \in bm PROVE j # i /\ ValueAt(h, j) = ValueAt(g, j)
    <3>1. j # i /\ j \in Nat /\ Rank(bm, j) \in 0 .. Len(s) - 1
      BY <1>1, <1>5, <1>9
    <3>2. CASE j < i
      <4>1. Rank(bm, j) < Rank(bm, i)
        BY <1>1, <3>2, RankGrows
      <4>2. Rank(h.bitmap, j) = Rank(bm, j)
        BY <1>1, <2>6, <3>1, <3>2
      <4>3. Rank(bm, j) + 1 \in 1 .. Len(s) + 1 /\ Rank(bm, j) + 1 < p
        BY <1>1, <1>7, <3>1, <4>1 DEF p
      <4>4. H[Rank(bm, j) + 1] = s[Rank(bm, j) + 1]
        BY <2>3, <4>3
      <4> QED
        BY <1>6, <3>1, <4>2, <4>4
    <3>3. CASE i < j
      <4>1. Rank(h.bitmap, j) = Rank(bm, j) + 1
        BY <1>1, <2>6, <3>1, <3>3
      <4>2. Rank(bm, i) <= Rank(bm, j)
        <5>1. Rank(bm, i) \in Nat /\ Rank(bm, j) \in Nat
          BY <1>1, <3>1, RankIs
        <5>2. Below(bm, i) \in SUBSET Below(bm, j)
          <6>1. \A b \in bm : b < i => b < j
            BY <1>1, <1>5, <3>1, <3>3
          <6> QED
            BY <6>1, Zenon DEF Below
        <5>3. IsFiniteSet(Below(bm, j))
          BY <1>1, <3>1, RankIs
        <5> QED
          BY <5>2, <5>3, FS_Subset DEF Rank
      <4>3. (Rank(bm, j) + 1) + 1 \in 1 .. Len(s) + 1 /\ ~ ((Rank(bm, j) + 1) + 1 <= p)
        BY <1>1, <1>7, <3>1, <4>2 DEF p
      <4>4. H[(Rank(bm, j) + 1) + 1] = s[Rank(bm, j) + 1]
        <5> DEFINE k == (Rank(bm, j) + 1) + 1
        <5>1. k \in 1 .. Len(s) + 1 /\ ~ (k < p) /\ k # p /\ k - 1 = Rank(bm, j) + 1
          BY <1>1, <2>2, <3>1, <4>3
        <5> HIDE DEF k
        <5>2. H[k] = s[k - 1]
          BY <2>3, <5>1
        <5> QED
          BY <5>1, <5>2 DEF k
      <4> QED
        BY <1>6, <3>1, <4>1, <4>4
    <3> QED
      BY <1>1, <3>1, <3>2, <3>3
  <2> QED
    BY <1>4, <1>9, <2>1, <2>5, <2>7, <2>8 DEF h, bm
<1> QED
  BY <1>8, <1>9

LEMMA EraseIs ==
  ASSUME NEW g, GoodGroup(g), NEW i \in 0 .. GROUP_SIZE - 1
  PROVE  LET h == erase(g, i)
         IN  /\ GoodGroup(h) /\ h.bitmap = g.bitmap \ {i}
             /\ h.num_buckets = g.num_buckets - (IF i \in g.bitmap THEN 1 ELSE 0)
             /\ \A j \in h.bitmap : ValueAt(h, j) = ValueAt(g, j)
<1> DEFINE h == erase(g, i)
           bm == g.bitmap
           s == g.group
           p == Rank(bm, i) + 1
           H == h.group
           c == h.bitmap
<1>1. /\ GROUP_SIZE \in Nat /\ bm \in SUBSET (0 .. GROUP_SIZE - 1) /\ s \in Seq(Values)
      /\ Len(s) = Cardinality(bm) /\ g.num_buckets = Len(s) /\ Len(s) \in Nat /\ i \in Nat
      /\ UpTo(bm, GROUP_SIZE)
  BY Constants DEF GoodGroup, GroupType, UpTo
<1>2. CASE i \notin bm
  <2>1. h = g
    BY <1>2 DEF erase, bmtest
  <2>2. g.num_buckets - 0 = g.num_buckets /\ bm \ {i} = bm
    BY <1>1, <1>2
  <2> HIDE DEF h
  <2> QED
    BY <1>2, <2>1, <2>2 DEF h
<1>3. CASE i \in bm
  <2>1. pos_to_offset(bm, i) = Rank(bm, i)
    BY <1>1, PlaceIs
  <2>2. h = [group |-> RemoveAt(s, p), bitmap |-> bm \ {i}, num_buckets |-> g.num_buckets - 1]
    BY <1>3, <2>1 DEF erase, bmtest
  <2>3. /\ H = RemoveAt(s, p) /\ c = bm \ {i} /\ h.num_buckets = Len(s) - 1
        /\ h = [group |-> H, bitmap |-> c, num_buckets |-> h.num_buckets]
    BY <1>1, <2>2
  <2>4. ASSUME NEW j \in bm PROVE j \in Nat /\ Rank(bm, j) \in 0 .. Len(s) - 1
    <3>1. j \in Nat
      BY <1>1
    <3> QED
      BY <1>1, <3>1, RankInside
  <2>5. \A j : ValueAt(h, j) = H[Rank(c, j) + 1] /\ ValueAt(g, j) = s[Rank(bm, j) + 1]
    BY DEF ValueAt
  <2> HIDE DEF h, H, s, p, bm, c
  <2>6. p \in 1 .. Len(s)
    BY <1>1, <1>3, <2>4 DEF p
  <2>7. /\ H \in Seq(Values) /\ Len(H) = Len(s) - 1
        /\ \A k \in 1 .. Len(s) - 1 : H[k] = IF k < p THEN s[k] ELSE s[k + 1]
    BY <1>1, <2>3, <2>6, RemoveAtIs
  <2>8. OneMore(bm, c, i) /\ UpTo(c, GROUP_SIZE) /\ c \in SUBSET (0 .. GROUP_SIZE - 1)
    <3>1. bm = c \cup {i} /\ i \notin c
      BY <1>3, <2>3
    <3> QED
      BY <1>1, <2>3, <3>1 DEF UpTo, OneMore
  <2>9. Cardinality(c) = Cardinality(bm) - 1
    <3>1. IsFiniteSet(bm)
      BY <1>1, RankIs
    <3> QED
      BY <1>3, <2>3, <3>1, FS_RemoveElement
  <2>10. GoodGroup(h)
    <3>1. Len(H) = Cardinality(c) /\ h.num_buckets = Len(H)
      BY <1>1, <2>3, <2>7, <2>9
    <3>2. GoodGroup([group |-> H, bitmap |-> c, num_buckets |-> h.num_buckets])
      BY <2>7, <2>8, <3>1, GoodIs
    <3> QED
      BY <2>3, <3>2, Zenon
  <2>11. ASSUME NEW j \in c PROVE ValueAt(h, j) = ValueAt(g, j)
    <3>1. j \in bm /\ j # i /\ j \in Nat /\ Rank(bm, j) \in 0 .. Len(s) - 1
      BY <2>3, <2>4
    <3>2. /\ i < j => Rank(bm, j) = Rank(c, j) + 1
          /\ ~ (i < j) => Rank(bm, j) = Rank(c, j)
      BY <1>1, <2>8, <3>1, RankAdded
    <3>3. Rank(c, j) \in Nat /\ Rank(bm, i) \in Nat
      BY <1>1, <2>8, <3>1, RankIs
    <3>4. CASE j < i
      <4>1. Rank(bm, j) < Rank(bm, i) /\ ~ (i < j)
        BY <1>1, <3>1, <3>4, RankGrows
      <4>2. Rank(c, j) = Rank(bm, j)
        BY <3>2, <4>1
      <4>3. Rank(bm, j) + 1 \in 1 .. Len(s) - 1 /\ Rank(bm, j) + 1 < p
        BY <1>1, <2>6, <3>1, <3>3, <4>1 DEF p
      <4>4. H[Rank(bm, j) + 1] = s[Rank(bm, j) + 1]
        BY <2>7, <4>3
      <4> QED
        BY <2>5, <4>2, <4>4
    <3>5. CASE i < j
      <4>1. Rank(bm, i) < Rank(bm, j)
        BY <1>1, <1>3, <3>1, <3>5, RankGrows
      <4>2. Rank(bm, j) = Rank(c, j) + 1
        BY <3>2, <3>5
      <4> DEFINE k == Rank(bm, j)
      <4>3. k \in 1 .. Len(s) - 1 /\ ~ (k < p)
        BY <1>1, <2>6, <3>1, <3>3, <4>1 DEF p
      <4>4. ValueAt(h, j) = H[k] /\ ValueAt(g, j) = s[k + 1]
        BY <2>5, <4>2
      <4> HIDE DEF k
      <4> QED
        BY <2>7, <4>3, <4>4
    <3> QED
      BY <1>1, <3>1, <3>4, <3>5
  <2>12. h.num_buckets = g.num_buckets - 1
    BY <1>1, <2>3
  <2> QED
    BY <1>3, <2>3, <2>10, <2>11, <2>12 DEF h, bm, c
<1> QED
  BY <1>2, <1>3

(***************************************************************************)
(* The table: index i is bit i % GROUP_SIZE of group i \div GROUP_SIZE.    *)
(***************************************************************************)
LEMMA Multiples ==
  ASSUME NEW a \in Nat, NEW b \in Nat
  PROVE  /\ a * GROUP_SIZE \in Nat /\ (a + 1) * GROUP_SIZE = a * GROUP_SIZE + GROUP_SIZE
         /\ a <= b => a * GROUP_SIZE <= b * GROUP_SIZE
         /\ a < b => a * GROUP_SIZE + GROUP_SIZE <= b * GROUP_SIZE
<1>1. GROUP_SIZE \in Nat
  BY Constants
<1>2. ASSUME NEW d \in Nat, NEW G \in Nat, b = a + d
      PROVE  b * G = a * G + d * G /\ a * G \in Nat /\ d * G \in Nat /\ (d > 0 => d * G >= G)
  <2>1. b * G = a * G + d * G /\ a * G \in Nat /\ d * G \in Nat
    BY <1>2
  <2>2. ASSUME d > 0 PROVE d * G >= G
    <3>1. (d - 1) * G \in Nat /\ d * G = (d - 1) * G + G
      BY <2>2
    <3> QED
      BY <3>1
  <2> QED
    BY <2>1, <2>2
<1>3. a <= b => a * GROUP_SIZE <= b * GROUP_SIZE
  <2> SUFFICES ASSUME a <= b PROVE a * GROUP_SIZE <= b * GROUP_SIZE
    OBVIOUS
  <2>1. b - a \in Nat /\ b = a + (b - a)
    OBVIOUS
  <2>2. b * GROUP_SIZE = a * GROUP_SIZE + (b - a) * GROUP_SIZE /\ a * GROUP_SIZE \in Nat
        /\ (b - a) * GROUP_SIZE \in Nat
    BY <1>1, <1>2, <2>1
  <2> QED
    BY <2>2
<1>4. a < b => a * GROUP_SIZE + GROUP_SIZE <= b * GROUP_SIZE
  <2> SUFFICES ASSUME a < b PROVE a * GROUP_SIZE + GROUP_SIZE <= b * GROUP_SIZE
    OBVIOUS
  <2>1. b - a \in Nat /\ b = a + (b - a) /\ b - a > 0
    OBVIOUS
  <2>2. b * GROUP_SIZE = a * GROUP_SIZE + (b - a) * GROUP_SIZE /\ a * GROUP_SIZE \in Nat
        /\ (b - a) * GROUP_SIZE \in Nat /\ (b - a) * GROUP_SIZE >= GROUP_SIZE
    BY <1>1, <1>2, <2>1
  <2> QED
    BY <1>1, <2>2
<1>5. a * GROUP_SIZE \in Nat /\ (a + 1) * GROUP_SIZE = a * GROUP_SIZE + GROUP_SIZE
  BY <1>1
<1> QED
  BY <1>3, <1>4, <1>5

\* Where index i is.
Row(i) == i \div GROUP_SIZE
Col(i) == i % GROUP_SIZE
Columns == 0 .. GROUP_SIZE - 1

LEMMA PlaceOf ==
  ASSUME NEW i \in Nat
  PROVE  Row(i) \in Nat /\ Col(i) \in Columns /\ i = Row(i) * GROUP_SIZE + Col(i)
         /\ Col(i) \in Nat /\ Col(i) < GROUP_SIZE
<1>1. GROUP_SIZE \in Nat /\ GROUP_SIZE > 0
  BY Constants
<1>2. /\ i \div GROUP_SIZE \in Nat /\ i % GROUP_SIZE \in 0 .. GROUP_SIZE - 1
      /\ i = (i \div GROUP_SIZE) * GROUP_SIZE + (i % GROUP_SIZE)
  BY <1>1, DivIs
<1> QED
  BY <1>1, <1>2 DEF Row, Col, Columns

LEMMA OnePlace ==
  ASSUME NEW q \in Nat, NEW r \in Columns, NEW i, i = q * GROUP_SIZE + r
  PROVE  i \in Nat /\ Row(i) = q /\ Col(i) = r
<1>1. GROUP_SIZE \in Nat /\ r \in Nat /\ r < GROUP_SIZE
  BY Constants DEF Columns
<1>2. q * GROUP_SIZE \in Nat
  BY Multiples
<1>3. i \in Nat
  BY <1>1, <1>2
<1> DEFINE p == Row(i)
           s == Col(i)
<1>4. p \in Nat /\ s \in Nat /\ s < GROUP_SIZE /\ i = p * GROUP_SIZE + s
  BY <1>3, PlaceOf
<1> HIDE DEF p, s
<1>5. p * GROUP_SIZE \in Nat
  BY <1>4, Multiples
<1>6. p < q => p * GROUP_SIZE + GROUP_SIZE <= q * GROUP_SIZE
  BY <1>4, Multiples
<1>7. q < p => q * GROUP_SIZE + GROUP_SIZE <= p * GROUP_SIZE
  BY <1>4, Multiples
<1>8. ~ (p < q) /\ ~ (q < p)
  BY <1>1, <1>2, <1>4, <1>5, <1>6, <1>7
<1>9. p = q
  BY <1>4, <1>8
<1>10. s = r
  BY <1>1, <1>2, <1>4, <1>9
<1> QED
  BY <1>3, <1>9, <1>10 DEF p, s

\* An index below the size is in one of the groups.
LEMMA RowInside ==
  ASSUME NEW L \in Nat, NEW n \in Nat, n <= L * GROUP_SIZE, NEW i \in 0 .. n - 1
  PROVE  Row(i) \in 0 .. L - 1 /\ Row(i) + 1 \in 1 .. L
<1>1. Row(i) \in Nat /\ Col(i) \in Nat /\ i = Row(i) * GROUP_SIZE + Col(i)
  BY PlaceOf
<1>2. L <= Row(i) => L * GROUP_SIZE <= Row(i) * GROUP_SIZE
  BY <1>1, Multiples
<1>3. Row(i) * GROUP_SIZE \in Nat /\ L * GROUP_SIZE \in Nat
  BY <1>1, Multiples
<1>4. ~ (L <= Row(i))
  BY <1>1, <1>2, <1>3
<1> QED
  BY <1>1, <1>4

\* gs are the groups of a table of size n: the set of its assigned indices and their values.
Bit(gs, i) == Col(i) \in gs[Row(i) + 1].bitmap
Assigned(gs, n) == {i \in 0 .. n - 1 : Bit(gs, i)}
ValueOf(gs, i) == ValueAt(gs[Row(i) + 1], Col(i))
Contents(gs, n) == [i \in Assigned(gs, n) |-> ValueOf(gs, i)]

\* The groups gs are right for a table of size n.
GoodGroups(gs, n) ==
  /\ gs \in Seq(GroupType) /\ \A k \in 1 .. Len(gs) : GoodGroup(gs[k])
  /\ n \in Nat /\ n <= Len(gs) * GROUP_SIZE /\ Len(gs) * GROUP_SIZE < n + GROUP_SIZE
  /\ n > 0 => \A b \in gs[Len(gs)].bitmap : (Len(gs) - 1) * GROUP_SIZE + b < n

LEMMA AssignedFinite ==
  ASSUME NEW gs, NEW n \in Nat
  PROVE  IsFiniteSet(Assigned(gs, n)) /\ Cardinality(Assigned(gs, n)) \in Nat
<1>1. IsFiniteSet(0 .. n - 1)
  BY FS_Interval
<1>2. Assigned(gs, n) \in SUBSET (0 .. n - 1)
  BY DEF Assigned
<1>3. IsFiniteSet(Assigned(gs, n))
  BY <1>1, <1>2, FS_Subset, Zenon
<1> QED
  BY <1>3, FS_CardinalityType

LEMMA GroupAt ==
  ASSUME NEW gs, NEW n, GoodGroups(gs, n), NEW i \in 0 .. n - 1
  PROVE  /\ Row(i) + 1 \in 1 .. Len(gs) /\ Len(gs) \in Nat
         /\ Row(i) \in Nat /\ Col(i) \in Columns /\ i = Row(i) * GROUP_SIZE + Col(i)
         /\ GoodGroup(gs[Row(i) + 1])
<1>1. Len(gs) \in Nat /\ n \in Nat /\ n <= Len(gs) * GROUP_SIZE
  BY DEF GoodGroups
<1>2. Row(i) + 1 \in 1 .. Len(gs)
  BY <1>1, RowInside
<1>3. Row(i) \in Nat /\ Col(i) \in Columns /\ i = Row(i) * GROUP_SIZE + Col(i)
  BY PlaceOf
<1>4. GoodGroup(gs[Row(i) + 1])
  BY <1>2 DEF GoodGroups
<1> QED
  BY <1>1, <1>2, <1>3, <1>4

\* h is g but for column r.
ButFor(h, g, r) ==
  \A b \in Columns : b # r =>
    /\ b \in h.bitmap <=> b \in g.bitmap
    /\ b \in h.bitmap => ValueAt(h, b) = ValueAt(g, b)

Replaced(u, s, p, e) == u = [s EXCEPT ![p] = e]

LEMMA ReplaceIs ==
  ASSUME NEW S, NEW s \in Seq(S), NEW p \in 1 .. Len(s), NEW e \in S,
         NEW u, Replaced(u, s, p, e)
  PROVE  /\ u \in Seq(S) /\ Len(u) = Len(s)
         /\ u[p] = e /\ \A k \in 1 .. Len(s) : k # p => u[k] = s[k]
BY DEF Replaced

LEMMA PutIs ==
  ASSUME NEW gs, NEW n, GoodGroups(gs, n), NEW i \in 0 .. n - 1,
         NEW h, GoodGroup(h), ButFor(h, gs[Row(i) + 1], Col(i)),
         NEW us, Replaced(us, gs, Row(i) + 1, h)
  PROVE  /\ GoodGroups(us, n) /\ Len(us) = Len(gs)
         /\ \A j \in 0 .. n - 1 : j # i =>
              (Bit(us, j) <=> Bit(gs, j)) /\ (Bit(us, j) => ValueOf(us, j) = ValueOf(gs, j))
         /\ Bit(us, i) <=> Col(i) \in h.bitmap
         /\ ValueOf(us, i) = ValueAt(h, Col(i))
<1> DEFINE q == Row(i)
           r == Col(i)
           L == Len(gs)
           g == gs[q + 1]
<1>1. /\ q + 1 \in 1 .. L /\ L \in Nat /\ q \in Nat /\ r \in Columns /\ i = q * GROUP_SIZE + r
      /\ GoodGroup(g)
  BY GroupAt
<1>2. /\ gs \in Seq(GroupType) /\ n \in Nat /\ DOMAIN gs = 1 .. L
  BY DEF GoodGroups
<1>3. ButFor(h, g, r) /\ Replaced(us, gs, q + 1, h)
  OBVIOUS
<1>4. /\ us \in Seq(GroupType) /\ Len(us) = L
      /\ us[q + 1] = h /\ \A k \in 1 .. L : k # q + 1 => us[k] = gs[k]
  <2>1. h \in GroupType
    BY DEF GoodGroup
  <2> DEFINE p == q + 1
  <2>2. p \in 1 .. Len(gs) /\ Replaced(us, gs, p, h)
    BY <1>1, <1>3
  <2> HIDE DEF p, q, L
  <2>3. /\ us \in Seq(GroupType) /\ Len(us) = Len(gs)
        /\ us[p] = h /\ \A k \in 1 .. Len(gs) : k # p => us[k] = gs[k]
    <3>1. gs \in Seq(GroupType)
      BY <1>2
    <3> QED
      BY ONLY <2>1, <2>2, <3>1, ReplaceIs, SMT
  <2> QED
    BY <2>3 DEF p, L
<1> HIDE DEF q, r, L, g
<1>5. ASSUME NEW j \in 0 .. n - 1, j # i
      PROVE  (Bit(us, j) <=> Bit(gs, j)) /\ (Bit(us, j) => ValueOf(us, j) = ValueOf(gs, j))
  <2>1. Row(j) + 1 \in 1 .. L /\ Col(j) \in Columns /\ j = Row(j) * GROUP_SIZE + Col(j) /\ Row(j) \in Nat
    BY GroupAt DEF L
  <2>2. CASE Row(j) = q
    <3>1. Col(j) # r
      BY <1>1, <1>5, <2>1, <2>2
    <3>2. us[Row(j) + 1] = h /\ gs[Row(j) + 1] = g
      BY <1>4, <2>2 DEF g
    <3>3. /\ Col(j) \in h.bitmap <=> Col(j) \in g.bitmap
          /\ Col(j) \in h.bitmap => ValueAt(h, Col(j)) = ValueAt(g, Col(j))
      BY <1>3, <2>1, <3>1, Zenon DEF ButFor
    <3> QED
      BY <3>2, <3>3, Zenon DEF Bit, ValueOf
  <2>3. CASE Row(j) # q
    <3>1. Row(j) + 1 # q + 1
      BY <1>1, <2>1, <2>3
    <3>2. us[Row(j) + 1] = gs[Row(j) + 1]
      BY <1>4, <2>1, <3>1
    <3> QED
      BY <3>2, Zenon DEF Bit, ValueOf
  <2> QED
    BY <2>2, <2>3
<1>6. (Bit(us, i) <=> Col(i) \in h.bitmap) /\ ValueOf(us, i) = ValueAt(h, Col(i))
  BY <1>4, Zenon DEF Bit, ValueOf, q
<1>7. GoodGroups(us, n)
  <2>1. \A k \in 1 .. L : GoodGroup(us[k])
    BY <1>2, <1>4 DEF GoodGroups, L
  <2>2. ASSUME n > 0, NEW b \in us[L].bitmap PROVE (L - 1) * GROUP_SIZE + b < n
    <3>1. L \in 1 .. L
      BY <1>1
    <3>2. b \in Columns
      BY <2>1, <2>2, <3>1 DEF GoodGroup, GroupType, Columns
    <3>3. ASSUME b \in gs[L].bitmap PROVE (L - 1) * GROUP_SIZE + b < n
      BY <2>2, <3>3 DEF GoodGroups, L
    <3>4. CASE q + 1 = L
      <4>1. us[L] = h /\ gs[L] = g /\ L - 1 = q
        BY <1>1, <1>4, <3>4 DEF g
      <4>2. b # r => b \in g.bitmap
        BY <1>3, <2>2, <3>2, <4>1, Zenon DEF ButFor
      <4>3. CASE b = r
        BY <1>1, <1>2, <4>1, <4>3
      <4> QED
        BY <3>3, <4>1, <4>2, <4>3
    <3>5. CASE q + 1 # L
      <4>1. us[L] = gs[L]
        BY <1>4, <3>1, <3>5
      <4> QED
        BY <2>2, <3>3, <4>1
    <3> QED
      BY <3>4, <3>5
  <2>3. n \in Nat /\ n <= L * GROUP_SIZE /\ L * GROUP_SIZE < n + GROUP_SIZE
    BY DEF GoodGroups, L
  <2> QED
    BY <1>4, <2>1, <2>2, <2>3 DEF GoodGroups
<1> QED
  BY <1>4, <1>5, <1>6, <1>7 DEF L

GoodTable(gs, n, c) == GoodGroups(gs, n) /\ c = Cardinality(Assigned(gs, n))

\* f is what is in gs with i assigned v; and without i; and below p only.
AssignedTo(f, gs, n, i, v) ==
  f = [j \in Assigned(gs, n) \cup {i} |-> IF j = i THEN v ELSE Contents(gs, n)[j]]
Dropped(f, gs, n, i) == f = [j \in Assigned(gs, n) \ {i} |-> Contents(gs, n)[j]]
KeptBelow(f, gs, n, p) == f = [j \in Assigned(gs, n) \cap (0 .. p - 1) |-> Contents(gs, n)[j]]

LEMMA SetStep ==
  ASSUME NEW gs, NEW n, NEW c, GoodTable(gs, n, c), NEW i \in 0 .. n - 1, NEW v \in Values,
         NEW h, h = set(gs[Row(i) + 1], Col(i), v), NEW us, Replaced(us, gs, Row(i) + 1, h)
  PROVE  /\ GoodTable(us, n, c + h.num_buckets - gs[Row(i) + 1].num_buckets)
         /\ AssignedTo(Contents(us, n), gs, n, i, v)
<1> DEFINE r == Col(i)
           g == gs[Row(i) + 1]
           A == Assigned(gs, n)
           B == Assigned(us, n)
<1>1. GoodGroups(gs, n) /\ n \in Nat /\ c = Cardinality(A)
  BY DEF GoodTable, GoodGroups
<1>2. r \in Columns /\ GoodGroup(g)
  BY <1>1, GroupAt
<1>3. /\ GoodGroup(h) /\ h.bitmap = g.bitmap \cup {r}
      /\ h.num_buckets = g.num_buckets + (IF r \in g.bitmap THEN 0 ELSE 1)
      /\ \A j \in h.bitmap : ValueAt(h, j) = IF j = r THEN v ELSE ValueAt(g, j)
  <2> HIDE DEF r, g
  <2>1. h = set(g, r, v) /\ r \in 0 .. GROUP_SIZE - 1
    BY <1>2 DEF r, g, Columns
  <2> QED
    BY <1>2, <2>1, SetIs
<1>4. ButFor(h, g, r)
  BY <1>3 DEF ButFor
<1>5. /\ GoodGroups(us, n)
      /\ \A j \in 0 .. n - 1 : j # i =>
           (Bit(us, j) <=> Bit(gs, j)) /\ (Bit(us, j) => ValueOf(us, j) = ValueOf(gs, j))
      /\ Bit(us, i) <=> r \in h.bitmap
      /\ ValueOf(us, i) = ValueAt(h, r)
  BY <1>1, <1>3, <1>4, PutIs
<1>6. Bit(us, i) /\ ValueOf(us, i) = v
  BY <1>3, <1>5
<1>7. Bit(gs, i) <=> r \in g.bitmap
  BY DEF Bit
<1>8. g.num_buckets \in Nat
  BY <1>2 DEF GoodGroup, GroupType
<1> HIDE DEF r, g
<1>9. B = A \cup {i}
  <2>1. \A j \in 0 .. n - 1 : Bit(us, j) <=> Bit(gs, j) \/ j = i
    BY <1>5, <1>6
  <2>2. i \in 0 .. n - 1
    OBVIOUS
  <2> QED
    BY <2>1, <2>2, Zenon DEF Assigned
<1>10. i \in A <=> r \in g.bitmap
  BY <1>7 DEF Assigned
<1>11. IsFiniteSet(A) /\ Cardinality(A) \in Nat
  BY <1>1, AssignedFinite
<1>12. \A j \in A : j \in 0 .. n - 1
  BY DEF Assigned
<1>13. Contents(us, n) = [j \in A \cup {i} |-> IF j = i THEN v ELSE Contents(gs, n)[j]]
  <2>1. \A j \in A : j # i => Contents(gs, n)[j] = ValueOf(us, j)
    <3>1. \A j \in A : Bit(gs, j) /\ j \in 0 .. n - 1 /\ Contents(gs, n)[j] = ValueOf(gs, j)
      BY DEF Contents, Assigned
    <3> QED
      BY <1>5, <3>1
  <2>2. Contents(us, n) = [j \in B |-> ValueOf(us, j)]
    BY Zenon DEF Contents
  <2> HIDE DEF A, B
  <2> QED
    BY <1>6, <1>9, <2>1, <2>2
<1>14. Cardinality(B) = c + h.num_buckets - g.num_buckets
  <2>1. Cardinality(A \cup {i}) = IF i \in A THEN Cardinality(A) ELSE Cardinality(A) + 1
    BY <1>11, FS_AddElement
  <2> HIDE DEF A, B
  <2>2. Cardinality(B) = IF i \in A THEN c ELSE c + 1
    BY <1>1, <1>9, <2>1
  <2>3. c \in Nat
    BY <1>1, <1>11
  <2> QED
    BY <1>3, <1>8, <1>10, <2>2, <2>3
<1>15. AssignedTo(Contents(us, n), gs, n, i, v)
  BY <1>13, Zenon DEF AssignedTo
<1> QED
  BY <1>5, <1>14, <1>15 DEF GoodTable, g

LEMMA EraseStep ==
  ASSUME NEW gs, NEW n, NEW c, GoodTable(gs, n, c), NEW i \in 0 .. n - 1,
         NEW h, h = erase(gs[Row(i) + 1], Col(i)), NEW us, Replaced(us, gs, Row(i) + 1, h)
  PROVE  /\ GoodTable(us, n, c + h.num_buckets - gs[Row(i) + 1].num_buckets)
         /\ Dropped(Contents(us, n), gs, n, i)
<1> DEFINE r == Col(i)
           g == gs[Row(i) + 1]
           A == Assigned(gs, n)
           B == Assigned(us, n)
<1>1. GoodGroups(gs, n) /\ n \in Nat /\ c = Cardinality(A)
  BY DEF GoodTable, GoodGroups
<1>2. r \in Columns /\ GoodGroup(g)
  BY <1>1, GroupAt
<1>3. /\ GoodGroup(h) /\ h.bitmap = g.bitmap \ {r}
      /\ h.num_buckets = g.num_buckets - (IF r \in g.bitmap THEN 1 ELSE 0)
      /\ \A j \in h.bitmap : ValueAt(h, j) = ValueAt(g, j)
  <2> HIDE DEF r, g
  <2>1. h = erase(g, r) /\ r \in 0 .. GROUP_SIZE - 1
    BY <1>2 DEF r, g, Columns
  <2> QED
    BY <1>2, <2>1, EraseIs
<1>4. ButFor(h, g, r)
  BY <1>3 DEF ButFor
<1>5. /\ GoodGroups(us, n)
      /\ \A j \in 0 .. n - 1 : j # i =>
           (Bit(us, j) <=> Bit(gs, j)) /\ (Bit(us, j) => ValueOf(us, j) = ValueOf(gs, j))
      /\ Bit(us, i) <=> r \in h.bitmap
  BY <1>1, <1>3, <1>4, PutIs
<1>6. ~ Bit(us, i)
  BY <1>3, <1>5
<1>7. Bit(gs, i) <=> r \in g.bitmap
  BY DEF Bit
<1>8. g.num_buckets \in Nat
  BY <1>2 DEF GoodGroup, GroupType
<1> HIDE DEF r, g
<1>9. B = A \ {i}
  <2>1. \A j \in 0 .. n - 1 : Bit(us, j) <=> Bit(gs, j) /\ j # i
    BY <1>5, <1>6
  <2> QED
    BY <2>1, Zenon DEF Assigned
<1>10. i \in A <=> r \in g.bitmap
  BY <1>7 DEF Assigned
<1>11. IsFiniteSet(A) /\ Cardinality(A) \in Nat
  BY <1>1, AssignedFinite
<1>13. Contents(us, n) = [j \in A \ {i} |-> Contents(gs, n)[j]]
  <2>1. \A j \in A \ {i} : Contents(gs, n)[j] = ValueOf(us, j)
    <3>1. \A j \in A : Bit(gs, j) /\ j \in 0 .. n - 1 /\ Contents(gs, n)[j] = ValueOf(gs, j)
      BY DEF Contents, Assigned
    <3> QED
      BY <1>5, <3>1
  <2>2. Contents(us, n) = [j \in B |-> ValueOf(us, j)]
    BY Zenon DEF Contents
  <2> HIDE DEF A, B
  <2> QED
    BY <1>9, <2>1, <2>2
<1>14. Cardinality(B) = c + h.num_buckets - g.num_buckets
  <2>1. Cardinality(A \ {i}) = IF i \in A THEN Cardinality(A) - 1 ELSE Cardinality(A)
    BY <1>11, FS_RemoveElement
  <2> HIDE DEF A, B
  <2>2. Cardinality(B) = IF i \in A THEN c - 1 ELSE c
    BY <1>1, <1>9, <2>1
  <2>3. c \in Nat
    BY <1>1, <1>11
  <2> QED
    BY <1>3, <1>8, <1>10, <2>2, <2>3
<1>15. Dropped(Contents(us, n), gs, n, i)
  BY <1>13, Zenon DEF Dropped
<1> QED
  BY <1>5, <1>14, <1>15 DEF GoodTable, g

(***************************************************************************)
(* Changing the size.                                                      *)
(***************************************************************************)
LEMMA NumGroups ==
  ASSUME NEW n \in Nat
  PROVE  LET m == num_groups(n)
         IN  /\ m \in Nat /\ n <= m * GROUP_SIZE /\ m * GROUP_SIZE < n + GROUP_SIZE
             /\ Col(n) = 0 => m = Row(n) /\ n = m * GROUP_SIZE
             /\ Col(n) # 0 => m = Row(n) + 1 /\ n = (m - 1) * GROUP_SIZE + Col(n)
<1> DEFINE m == num_groups(n)
<1>1. GROUP_SIZE \in Nat /\ GROUP_SIZE > 0
  BY Constants
<1>2. CASE n = 0
  <2>1. m = 0
    BY <1>2 DEF num_groups
  <2>2. 0 * GROUP_SIZE = 0 /\ 0 \in Columns /\ n = 0 * GROUP_SIZE + 0 /\ 0 \in Nat
    BY <1>1, <1>2 DEF Columns
  <2>3. Row(n) = 0 /\ Col(n) = 0
    BY <2>2, OnePlace
  <2> HIDE DEF m
  <2> QED
    BY <1>1, <1>2, <2>1, <2>2, <2>3 DEF m
<1>3. CASE n # 0
  <2> DEFINE q == Row(n - 1)
             r == Col(n - 1)
  <2>1. n - 1 \in Nat
    BY <1>3
  <2>2. m = q + 1
    BY <1>3 DEF num_groups, Row
  <2>3. q \in Nat /\ r \in Nat /\ r < GROUP_SIZE /\ n - 1 = q * GROUP_SIZE + r
    BY <2>1, PlaceOf
  <2> HIDE DEF q, r, m
  <2>4. q * GROUP_SIZE \in Nat /\ (q + 1) * GROUP_SIZE = q * GROUP_SIZE + GROUP_SIZE
    BY <2>3, Multiples
  <2>5. m \in Nat /\ m - 1 = q /\ m * GROUP_SIZE = q * GROUP_SIZE + GROUP_SIZE
    BY <2>2, <2>3, <2>4
  <2> DEFINE x == q * GROUP_SIZE
  <2>6. n = x + r + 1 /\ x \in Nat
    BY <2>3, <2>4
  <2>7. CASE r + 1 < GROUP_SIZE
    <3>1. r + 1 \in Columns /\ n = q * GROUP_SIZE + (r + 1)
      BY <1>1, <2>3, <2>6, <2>7 DEF Columns
    <3>2. Row(n) = q /\ Col(n) = r + 1
      BY <2>3, <3>1, OnePlace
    <3> HIDE DEF x
    <3> QED
      BY <1>1, <2>2, <2>3, <2>5, <2>6, <2>7, <3>2 DEF m, x
  <2>8. CASE ~ (r + 1 < GROUP_SIZE)
    <3>1. r + 1 = GROUP_SIZE
      BY <1>1, <2>3, <2>8
    <3>2. 0 \in Columns /\ n = (q + 1) * GROUP_SIZE + 0 /\ q + 1 \in Nat
      BY <1>1, <2>3, <2>4, <2>6, <3>1 DEF Columns
    <3>3. Row(n) = q + 1 /\ Col(n) = 0
      BY <3>2, OnePlace
    <3> HIDE DEF x
    <3> QED
      BY <1>1, <2>2, <2>3, <2>5, <2>6, <3>1, <3>3 DEF m, x
  <2> QED
    BY <2>7, <2>8
<1> QED
  BY <1>2, <1>3

\* The groups shortened or made longer to m of them.
SizedTo(gs, m) == [k \in 1 .. m |-> IF k \in DOMAIN gs THEN gs[k] ELSE EmptyGroup]

AllGood(gs) == gs \in Seq(GroupType) /\ \A k \in 1 .. Len(gs) : GoodGroup(gs[k])

LEMMA SizedIs ==
  ASSUME NEW gs, AllGood(gs), NEW m \in Nat,
         NEW us, us = SizedTo(gs, m)
  PROVE  /\ us \in Seq(GroupType) /\ Len(us) = m /\ DOMAIN us = 1 .. m
         /\ \A k \in 1 .. m : GoodGroup(us[k])
         /\ \A k \in 1 .. m : k <= Len(gs) => us[k] = gs[k]
         /\ \A k \in 1 .. m : k > Len(gs) => us[k] = EmptyGroup
<1>1. DOMAIN gs = 1 .. Len(gs) /\ Len(gs) \in Nat /\ gs \in Seq(GroupType)
      /\ \A k \in 1 .. Len(gs) : GoodGroup(gs[k])
  BY DEF AllGood
<1>2. EmptyGroup \in GroupType /\ GoodGroup(EmptyGroup)
  BY EmptyGroupGood DEF GoodGroup
<1>3. \A k \in 1 .. m : us[k] = IF k \in 1 .. Len(gs) THEN gs[k] ELSE EmptyGroup
  BY <1>1 DEF SizedTo
<1>4. \A k \in 1 .. m : us[k] \in GroupType
  BY <1>1, <1>2, <1>3
<1>5. DOMAIN us = 1 .. m /\ us = [k \in 1 .. m |-> us[k]]
  BY DEF SizedTo
<1>6. us \in Seq(GroupType) /\ Len(us) = m
  BY <1>4, <1>5
<1> QED
  BY <1>1, <1>2, <1>3, <1>5, <1>6

LEMMA GrowStep ==
  ASSUME NEW gs, NEW n, NEW c, GoodTable(gs, n, c), NEW p \in Nat, p >= n,
         NEW us, us = SizedTo(gs, num_groups(p))
  PROVE  GoodTable(us, p, c) /\ Contents(us, p) = Contents(gs, n)
<1> DEFINE L == Len(gs)
           m == num_groups(p)
<1>1. /\ gs \in Seq(GroupType) /\ L \in Nat /\ n \in Nat
      /\ \A k \in 1 .. Len(gs) : GoodGroup(gs[k])
      /\ n <= L * GROUP_SIZE /\ L * GROUP_SIZE < n + GROUP_SIZE
      /\ n > 0 => \A b \in gs[L].bitmap : (L - 1) * GROUP_SIZE + b < n
      /\ GROUP_SIZE \in Nat /\ GROUP_SIZE > 0
  BY Constants DEF GoodTable, GoodGroups
<1>2. m \in Nat /\ p <= m * GROUP_SIZE /\ m * GROUP_SIZE < p + GROUP_SIZE
  BY NumGroups
<1>3. us = SizedTo(gs, m)
  OBVIOUS
<1> HIDE DEF L, m
<1>4. /\ us \in Seq(GroupType) /\ Len(us) = m
      /\ \A k \in 1 .. m : GoodGroup(us[k])
      /\ \A k \in 1 .. m : k <= L => us[k] = gs[k]
      /\ \A k \in 1 .. m : k > L => us[k] = EmptyGroup
  <2>1. AllGood(gs)
    BY <1>1 DEF AllGood, L
  <2> QED
    BY <1>2, <1>3, <2>1, SizedIs DEF L
<1>5. L <= m
  <2>1. (m + 1) * GROUP_SIZE = m * GROUP_SIZE + GROUP_SIZE /\ m * GROUP_SIZE \in Nat
        /\ L * GROUP_SIZE \in Nat
    BY <1>1, <1>2, Multiples
  <2>2. m + 1 <= L => (m + 1) * GROUP_SIZE <= L * GROUP_SIZE
    BY <1>1, <1>2, Multiples
  <2> QED
    BY <1>1, <1>2, <2>1, <2>2
<1>6. ASSUME L >= 1
      PROVE  n > 0 /\ (L - 1) * GROUP_SIZE \in Nat /\ (L - 1) * GROUP_SIZE < n
             /\ L * GROUP_SIZE = (L - 1) * GROUP_SIZE + GROUP_SIZE
  <2>1. L - 1 \in Nat /\ (L - 1) + 1 = L
    BY <1>1, <1>6
  <2>2. ((L - 1) + 1) * GROUP_SIZE = (L - 1) * GROUP_SIZE + GROUP_SIZE
        /\ (L - 1) * GROUP_SIZE \in Nat
    BY <2>1, Multiples
  <2>3. L * GROUP_SIZE = (L - 1) * GROUP_SIZE + GROUP_SIZE
    BY <2>1, <2>2
  <2> QED
    BY <1>1, <2>2, <2>3
<1>7. ASSUME p > 0, NEW b \in us[m].bitmap PROVE (m - 1) * GROUP_SIZE + b < p
  <2>1. m \in 1 .. m
    <3>1. 0 * GROUP_SIZE = 0
      BY <1>1
    <3> QED
      BY <1>2, <1>7, <3>1
  <2>2. m <= L
    BY <1>1, <1>4, <1>7, <2>1, EmptyGroupGood
  <2>3. m = L /\ L >= 1
    BY <1>1, <1>2, <1>5, <2>1, <2>2
  <2>4. b \in gs[L].bitmap
    BY <1>4, <1>7, <2>1, <2>2, <2>3
  <2>5. b \in Nat
    BY <1>4, <1>7, <2>1 DEF GoodGroup, GroupType
  <2>6. (L - 1) * GROUP_SIZE + b < n
    BY <1>1, <1>6, <2>3, <2>4
  <2> QED
    BY <1>1, <1>6, <2>3, <2>5, <2>6
<1>8. GoodGroups(us, p)
  BY <1>2, <1>4, <1>7 DEF GoodGroups
<1>9. ASSUME NEW j \in 0 .. n - 1
      PROVE  j \in 0 .. p - 1 /\ (Bit(us, j) <=> Bit(gs, j)) /\ ValueOf(us, j) = ValueOf(gs, j)
  <2>1. Row(j) + 1 \in 1 .. L
    BY <1>1, RowInside
  <2>2. us[Row(j) + 1] = gs[Row(j) + 1]
    BY <1>1, <1>2, <1>4, <1>5, <2>1
  <2> QED
    BY <1>1, <2>2 DEF Bit, ValueOf
<1>10. ASSUME NEW j \in 0 .. p - 1, ~ (j < n) PROVE ~ Bit(us, j)
  <2> SUFFICES ASSUME Bit(us, j) PROVE FALSE
    OBVIOUS
  <2>1. Row(j) + 1 \in 1 .. m
    BY <1>2, RowInside
  <2>2. Row(j) \in Nat /\ Col(j) \in Nat /\ Col(j) < GROUP_SIZE /\ j = Row(j) * GROUP_SIZE + Col(j)
    BY PlaceOf
  <2>3. Row(j) + 1 <= L
    BY <1>1, <1>4, <2>1, <2>2, EmptyGroupGood DEF Bit
  <2>4. L >= 1 /\ Row(j) <= L - 1 /\ L - 1 \in Nat
    BY <1>1, <2>2, <2>3
  <2>5. CASE Row(j) = L - 1
    <3>1. Col(j) \in gs[L].bitmap
      <4>1. Row(j) + 1 = L
        BY <1>1, <2>2, <2>5
      <4>2. us[L] = gs[L]
        BY <1>4, <2>1, <2>3, <4>1
      <4> QED
        BY <4>1, <4>2 DEF Bit
    <3>2. (L - 1) * GROUP_SIZE + Col(j) < n
      BY <1>1, <1>6, <2>4, <3>1
    <3>3. j = (L - 1) * GROUP_SIZE + Col(j)
      BY <2>2, <2>5
    <3> QED
      BY <1>10, <3>2, <3>3
  <2>6. CASE Row(j) # L - 1
    <3>1. Row(j) < L - 1
      BY <2>2, <2>4, <2>6
    <3>2. Row(j) * GROUP_SIZE + GROUP_SIZE <= (L - 1) * GROUP_SIZE /\ Row(j) * GROUP_SIZE \in Nat
      BY <2>2, <2>4, <3>1, Multiples
    <3> QED
      BY <1>1, <1>6, <1>10, <2>2, <2>4, <3>2
  <2> QED
    BY <2>5, <2>6
<1>11. Assigned(us, p) = Assigned(gs, n)
  <2>1. \A j : j \in Assigned(us, p) <=> j \in Assigned(gs, n)
    <3>1. \A j \in 0 .. p - 1 : j < n => j \in 0 .. n - 1
      BY <1>1
    <3> QED
      BY <1>9, <1>10, <3>1 DEF Assigned
  <2> QED
    BY <2>1
<1>12. \A j \in Assigned(gs, n) : ValueOf(us, j) = ValueOf(gs, j)
  BY <1>9 DEF Assigned
<1>13. Contents(us, p) = Contents(gs, n)
  BY <1>11, <1>12, Zenon DEF Contents
<1>14. c = Cardinality(Assigned(us, p))
  BY <1>11 DEF GoodTable
<1> QED
  BY <1>8, <1>13, <1>14 DEF GoodTable

\* f erases the bits of g from a certain one up to n.
Erased(f, g, from, n) == f = [i \in from .. n |-> IF i = from THEN g ELSE erase(f[i - 1], i - 1)]

LEMMA ErasedExists ==
  ASSUME NEW g, NEW from \in Nat, NEW n \in Nat, from <= n
  PROVE  \E f : Erased(f, g, from, n)
<1> DEFINE S == {d \in Nat : \E f : Erased(f, g, from, from + d)}
<1>1. 0 \in S
  <2> DEFINE f == [i \in from .. from + 0 |-> g]
  <2>1. f = [i \in from .. from + 0 |-> IF i = from THEN g ELSE erase(f[i - 1], i - 1)]
    OBVIOUS
  <2>2. Erased(f, g, from, from + 0)
    BY <2>1, Zenon DEF Erased
  <2> QED
    BY <2>2
<1>2. ASSUME NEW d \in Nat, d \in S PROVE d + 1 \in S
  <2>1. PICK h : Erased(h, g, from, from + d)
    BY <1>2
  <2> DEFINE k == from + d
             m == from + (d + 1)
  <2>2. h = [i \in from .. k |-> IF i = from THEN g ELSE erase(h[i - 1], i - 1)]
    BY <2>1, Zenon DEF Erased
  <2>3. k \in Nat /\ m = k + 1 /\ from <= k
    OBVIOUS
  <2> HIDE DEF k, m
  <2> DEFINE f == [i \in from .. m |-> IF i = from THEN g ELSE erase(h[i - 1], i - 1)]
  <2>4. \A i \in from .. k : f[i] = h[i]
    BY <2>2, <2>3
  <2>5. \A i \in from .. m : i # from => i - 1 \in from .. k
    BY <2>3
  <2>6. f = [i \in from .. m |-> IF i = from THEN g ELSE erase(f[i - 1], i - 1)]
    BY <2>4, <2>5
  <2> HIDE DEF f
  <2>7. Erased(f, g, from, m)
    BY <2>6, Zenon DEF Erased
  <2> QED
    BY <2>7 DEF m
<1> HIDE DEF S
<1>3. n - from \in S
  BY <1>1, <1>2, NatInd
<1>4. from + (n - from) = n
  OBVIOUS
<1> QED
  BY <1>3, <1>4 DEF S

\* h has the bits of g below n, and their values.
CutAt(h, g, n) ==
  /\ \A b \in Columns : b \in h.bitmap <=> b \in g.bitmap /\ b < n
  /\ \A b \in Columns : b \in h.bitmap => ValueAt(h, b) = ValueAt(g, b)

\* h lacks the bits of g from a certain one up to n.
Lacking(h, g, from, n) ==
  /\ \A b \in Columns : b \in h.bitmap <=> b \in g.bitmap /\ ~ (from <= b /\ b < n)
  /\ \A b \in Columns : b \in h.bitmap => ValueAt(h, b) = ValueAt(g, b)

LEMMA ErasedIs ==
  ASSUME NEW g, GoodGroup(g), NEW from \in 0 .. GROUP_SIZE,
         NEW f, Erased(f, g, from, GROUP_SIZE)
  PROVE  GoodGroup(f[GROUP_SIZE]) /\ CutAt(f[GROUP_SIZE], g, from)
<1>1. GROUP_SIZE \in Nat /\ from \in Nat
  BY Constants
<1>2. /\ f[from] = g
      /\ \A i \in from .. GROUP_SIZE : i # from => f[i] = erase(f[i - 1], i - 1)
  BY <1>1 DEF Erased
<1> DEFINE Done(i) == GoodGroup(f[i]) /\ Lacking(f[i], g, from, i)
           S == {d \in Nat : from + d <= GROUP_SIZE => Done(from + d)}
<1>3. 0 \in S
  <2>1. \A b \in Columns : ~ (from <= b /\ b < from)
    BY <1>1 DEF Columns
  <2>2. Lacking(g, g, from, from)
    BY <2>1 DEF Lacking
  <2>3. from + 0 = from
    BY <1>1
  <2> QED
    BY <1>2, <2>2, <2>3
<1>4. ASSUME NEW d \in Nat, d \in S PROVE d + 1 \in S
  <2> SUFFICES ASSUME from + (d + 1) <= GROUP_SIZE PROVE Done(from + (d + 1))
    OBVIOUS
  <2> DEFINE k == from + d
             e == f[k]
             h == f[k + 1]
  <2>1. k \in Nat /\ from + (d + 1) = k + 1 /\ k + 1 <= GROUP_SIZE /\ k <= GROUP_SIZE /\ from <= k
    BY <1>1
  <2>2. Done(k)
    BY <1>4, <2>1
  <2>3. k + 1 \in from .. GROUP_SIZE /\ k + 1 # from /\ (k + 1) - 1 = k /\ k \in 0 .. GROUP_SIZE - 1
    BY <1>1, <2>1
  <2>4. h = erase(e, k)
    BY <1>2, <2>3
  <2>5. GoodGroup(e) /\ Lacking(e, g, from, k)
    BY <2>2
  <2> HIDE DEF k, e, h, Done
  <2>6. GoodGroup(h) /\ h.bitmap = e.bitmap \ {k} /\ \A j \in h.bitmap : ValueAt(h, j) = ValueAt(e, j)
    BY <2>3, <2>4, <2>5, EraseIs
  <2>7. \A b \in Columns : (from <= b /\ b < k + 1) <=> (from <= b /\ b < k) \/ b = k
    BY <1>1, <2>1 DEF Columns
  <2>8. \A b \in Columns : b \in h.bitmap <=> b \in g.bitmap /\ ~ (from <= b /\ b < k + 1)
    BY <2>5, <2>6, <2>7 DEF Lacking
  <2>9. \A b \in Columns : b \in h.bitmap => ValueAt(h, b) = ValueAt(g, b)
    BY <2>5, <2>6 DEF Lacking
  <2>10. Lacking(h, g, from, k + 1)
    BY <2>8, <2>9, Zenon DEF Lacking
  <2>11. GoodGroup(f[k + 1]) /\ Lacking(f[k + 1], g, from, k + 1)
    BY <2>6, <2>10, Zenon DEF h
  <2>12. Done(k + 1)
    BY <2>11, Zenon DEF Done
  <2> QED
    BY <2>1, <2>12
<1>5. Done(GROUP_SIZE)
  <2> HIDE DEF Done
  <2>1. \A i \in Nat : i \in S => i + 1 \in S
    BY <1>4
  <2> HIDE DEF S
  <2>2. GROUP_SIZE - from \in S
    BY <1>1, <1>3, <2>1, NatInd
  <2>3. from + (GROUP_SIZE - from) = GROUP_SIZE
    BY <1>1
  <2> QED
    BY <1>1, <2>2, <2>3 DEF S
<1>6. \A b \in Columns : ~ (from <= b /\ b < GROUP_SIZE) <=> b < from
  BY <1>1 DEF Columns
<1> QED
  BY <1>5, <1>6 DEF Lacking, CutAt

\* us are the groups of gs that hold an index below p, the last one cut at p.
LEMMA CutStep ==
  ASSUME NEW gs, NEW n, GoodGroups(gs, n), NEW p \in Nat, p < n,
         NEW m, m = num_groups(p), NEW us, AllGood(us), Len(us) = m,
         \A k \in 1 .. m : k < m \/ Col(p) = 0 => us[k] = gs[k],
         Col(p) # 0 => CutAt(us[m], gs[m], Col(p))
  PROVE  GoodGroups(us, p) /\ KeptBelow(Contents(us, p), gs, n, p)
<1> DEFINE L == Len(gs)
           r == Col(p)
<1>1. /\ L \in Nat /\ n \in Nat /\ n <= L * GROUP_SIZE /\ GROUP_SIZE \in Nat /\ GROUP_SIZE > 0
      /\ \A k \in 1 .. L : GoodGroup(gs[k])
      /\ us \in Seq(GroupType) /\ \A k \in 1 .. m : GoodGroup(us[k])
  BY Constants DEF GoodGroups, AllGood
<1>2. /\ m \in Nat /\ p <= m * GROUP_SIZE /\ m * GROUP_SIZE < p + GROUP_SIZE
      /\ r = 0 => m = Row(p) /\ p = m * GROUP_SIZE
      /\ r # 0 => m = Row(p) + 1 /\ p = (m - 1) * GROUP_SIZE + r
      /\ r \in Nat /\ r < GROUP_SIZE /\ Row(p) \in Nat
  BY NumGroups, PlaceOf
<1> HIDE DEF L, r
<1>3. ASSUME NEW k \in 1 .. m, NEW b \in Columns
      PROVE  /\ b \in us[k].bitmap <=> b \in gs[k].bitmap /\ (k - 1) * GROUP_SIZE + b < p
             /\ b \in us[k].bitmap => ValueAt(us[k], b) = ValueAt(gs[k], b)
  <2>1. b \in Nat /\ b < GROUP_SIZE /\ k \in Nat /\ k - 1 \in Nat /\ k <= m
    BY <1>1, <1>2 DEF Columns
  <2>2. CASE r # 0 /\ k = m
    <3>1. CutAt(us[m], gs[m], r)
      BY <2>2 DEF r
    <3>2. (k - 1) * GROUP_SIZE + b < p <=> b < r
      <4>1. (k - 1) * GROUP_SIZE \in Nat /\ p = (k - 1) * GROUP_SIZE + r
        BY <1>2, <2>1, <2>2, Multiples
      <4> QED
        BY <1>2, <2>1, <4>1
    <3> QED
      BY <2>2, <3>1, <3>2 DEF CutAt
  <2>3. CASE ~ (r # 0 /\ k = m)
    <3>1. us[k] = gs[k]
      BY <1>2, <2>1, <2>3 DEF r
    <3>2. (k - 1) * GROUP_SIZE + b < p
      <4> DEFINE x == (k - 1) * GROUP_SIZE
      <4>1. x \in Nat
        BY <2>1, Multiples
      <4>2. CASE r = 0
        <5>1. k - 1 < m /\ p = m * GROUP_SIZE
          BY <1>2, <2>1, <4>2
        <5>2. x + GROUP_SIZE <= m * GROUP_SIZE
          BY <1>2, <2>1, <5>1, Multiples
        <5> HIDE DEF x
        <5>3. x + b < p
          BY <1>1, <1>2, <2>1, <4>1, <5>1, <5>2
        <5> QED
          BY <5>3 DEF x
      <4>3. CASE r # 0
        <5>1. k - 1 < m - 1 /\ m - 1 \in Nat /\ p = (m - 1) * GROUP_SIZE + r
          BY <1>2, <2>1, <2>3, <4>3
        <5>2. x + GROUP_SIZE <= (m - 1) * GROUP_SIZE /\ (m - 1) * GROUP_SIZE \in Nat
          BY <2>1, <5>1, Multiples
        <5> DEFINE y == (m - 1) * GROUP_SIZE
        <5>4. y \in Nat /\ x + GROUP_SIZE <= y /\ p = y + r /\ r \in Nat
          BY <1>2, <5>1, <5>2
        <5> HIDE DEF x, y
        <5>3. x + b < p
          BY <1>1, <2>1, <4>1, <5>4
        <5> QED
          BY <5>3 DEF x
      <4> QED
        BY <4>2, <4>3
    <3> QED
      BY <3>1, <3>2
  <2> QED
    BY <2>2, <2>3
<1>4. ASSUME p > 0, NEW b \in us[m].bitmap PROVE (m - 1) * GROUP_SIZE + b < p
  <2>1. m \in 1 .. m
    <3>1. 0 * GROUP_SIZE = 0
      BY <1>1
    <3> QED
      BY <1>2, <1>4, <3>1
  <2>2. b \in Columns
    BY <1>1, <1>4, <2>1 DEF GoodGroup, GroupType, Columns
  <2> QED
    BY <1>3, <1>4, <2>1, <2>2
<1>5. GoodGroups(us, p)
  BY <1>1, <1>2, <1>4 DEF GoodGroups
<1>6. ASSUME NEW j \in 0 .. p - 1
      PROVE  /\ j \in 0 .. n - 1 /\ (Bit(us, j) <=> Bit(gs, j))
             /\ Bit(us, j) => ValueOf(us, j) = ValueOf(gs, j)
  <2>1. j \in 0 .. n - 1
    BY <1>1
  <2>2. Row(j) + 1 \in 1 .. m
    BY <1>2, RowInside
  <2>3. Row(j) \in Nat /\ Col(j) \in Columns /\ j = Row(j) * GROUP_SIZE + Col(j)
    BY PlaceOf
  <2> DEFINE k == Row(j) + 1
             b == Col(j)
  <2>4. k \in 1 .. m /\ b \in Columns /\ (k - 1) * GROUP_SIZE + b < p
    <3>1. (Row(j) + 1) - 1 = Row(j)
      BY <2>3
    <3> QED
      BY <2>2, <2>3, <3>1
  <2>5. Bit(us, j) = (b \in us[k].bitmap) /\ Bit(gs, j) = (b \in gs[k].bitmap)
    BY DEF Bit
  <2>6. ValueOf(us, j) = ValueAt(us[k], b) /\ ValueOf(gs, j) = ValueAt(gs[k], b)
    BY DEF ValueOf
  <2> HIDE DEF k, b
  <2> QED
    BY <1>3, <2>1, <2>4, <2>5, <2>6
<1>7. Assigned(us, p) = Assigned(gs, n) \cap (0 .. p - 1)
  <2>1. \A j : j \in Assigned(us, p) <=> j \in Assigned(gs, n) \cap (0 .. p - 1)
    BY <1>6 DEF Assigned
  <2> QED
    BY <2>1
<1>8. \A j \in Assigned(gs, n) \cap (0 .. p - 1) : Contents(gs, n)[j] = ValueOf(us, j)
  <2>1. \A j \in Assigned(gs, n) : Bit(gs, j) /\ Contents(gs, n)[j] = ValueOf(gs, j)
    BY DEF Contents, Assigned
  <2> QED
    BY <1>6, <2>1
<1>9. Contents(us, p) = [j \in Assigned(us, p) |-> ValueOf(us, j)]
  BY Zenon DEF Contents
<1>10. Contents(us, p) = [j \in Assigned(gs, n) \cap (0 .. p - 1) |-> Contents(gs, n)[j]]
  BY <1>7, <1>8, <1>9
<1> QED
  BY <1>5, <1>10, Zenon DEF KeptBelow

\* What is assigned, row by row.
LEMMA BitAt ==
  ASSUME NEW gs, NEW n, GoodGroups(gs, n), NEW k \in 1 .. Len(gs), NEW b \in Columns
  PROVE  (k - 1) * GROUP_SIZE + b \in Assigned(gs, n) <=> b \in gs[k].bitmap
<1> DEFINE L == Len(gs)
           x == (k - 1) * GROUP_SIZE
           y == (L - 1) * GROUP_SIZE
           i == x + b
<1>1. /\ L \in Nat /\ n \in Nat /\ L * GROUP_SIZE < n + GROUP_SIZE
      /\ n > 0 => \A c \in gs[L].bitmap : y + c < n
      /\ GROUP_SIZE \in Nat /\ b \in Nat /\ b < GROUP_SIZE
  BY Constants DEF GoodGroups, Columns
<1>2. k - 1 \in Nat /\ L - 1 \in Nat /\ (L - 1) + 1 = L /\ (k - 1) + 1 = k
  BY <1>1
<1>3. x \in Nat /\ y \in Nat /\ L * GROUP_SIZE = y + GROUP_SIZE
  <2>1. x \in Nat /\ y \in Nat /\ ((L - 1) + 1) * GROUP_SIZE = y + GROUP_SIZE
    BY <1>2, Multiples
  <2> QED
    BY <1>2, <2>1
<1>4. k # L => x + GROUP_SIZE <= y
  <2>1. k # L => k - 1 < L - 1
    BY <1>1
  <2> QED
    BY <1>2, <2>1, Multiples
<1>5. Row(i) = k - 1 /\ Col(i) = b
  <2>1. i = (k - 1) * GROUP_SIZE + b
    OBVIOUS
  <2> HIDE DEF i
  <2> QED
    BY <1>2, <2>1, OnePlace
<1>6. Bit(gs, i) <=> b \in gs[k].bitmap
  <2>1. Row(i) + 1 = k
    BY <1>2, <1>5
  <2> QED
    BY <1>5, <2>1 DEF Bit
<1> HIDE DEF L, y
<1>7. ASSUME b \in gs[k].bitmap PROVE i \in 0 .. n - 1
  <2> HIDE DEF x
  <2>1. CASE k = L
    <3>1. y + b < n
      BY <1>1, <1>3, <1>7, <2>1 DEF L
    <3>2. x = y
      BY <2>1 DEF x, y
    <3> QED
      BY <1>1, <1>3, <3>1, <3>2
  <2>2. CASE k # L
    BY <1>1, <1>3, <1>4, <2>2
  <2> QED
    BY <2>1, <2>2
<1> QED
  BY <1>6, <1>7 DEF Assigned

LEMMA AssignedUpTo ==
  ASSUME NEW gs, NEW n PROVE UpTo(Assigned(gs, n), n)
BY DEF Assigned, UpTo

\* Every group counts the indices assigned in it, so the sum of what they count is right.
LEMMA RowCount ==
  ASSUME NEW gs, NEW n, GoodGroups(gs, n), NEW k \in 1 .. Len(gs), NEW c \in 0 .. GROUP_SIZE,
         NEW A, A = Assigned(gs, n)
  PROVE  /\ Rank(A, (k - 1) * GROUP_SIZE + c) = Rank(A, (k - 1) * GROUP_SIZE) + Rank(gs[k].bitmap, c)
         /\ Rank(A, k * GROUP_SIZE) = Rank(A, (k - 1) * GROUP_SIZE) + gs[k].num_buckets
         /\ gs[k].num_buckets \in Nat /\ Rank(A, (k - 1) * GROUP_SIZE) \in Nat
<1> DEFINE x == (k - 1) * GROUP_SIZE
           bm == gs[k].bitmap
<1>1. /\ GROUP_SIZE \in Nat /\ GoodGroup(gs[k]) /\ k \in Nat /\ k - 1 \in Nat /\ n \in Nat
  BY Constants DEF GoodGroups
<1>2. UpTo(bm, GROUP_SIZE) /\ gs[k].num_buckets = Cardinality(bm) /\ gs[k].num_buckets \in Nat
  BY <1>1 DEF GoodGroup, GroupType, UpTo
<1>3. x \in Nat /\ k * GROUP_SIZE = x + GROUP_SIZE
  <2>1. (k - 1) + 1 = k
    BY <1>1
  <2>2. x \in Nat /\ ((k - 1) + 1) * GROUP_SIZE = x + GROUP_SIZE
    BY <1>1, Multiples
  <2> QED
    BY <2>1, <2>2
<1>4. UpTo(A, n)
  BY AssignedUpTo
<1>5. CopyAt(A, x, bm, GROUP_SIZE)
  BY BitAt DEF Columns, CopyAt
<1> HIDE DEF x, bm
<1>6. ASSUME NEW d \in 0 .. GROUP_SIZE PROVE Rank(A, x + d) = Rank(A, x) + Rank(bm, d)
  BY <1>1, <1>2, <1>3, <1>4, <1>5, RankShift
<1>7. Rank(bm, GROUP_SIZE) = Cardinality(bm) /\ Rank(A, x) \in Nat
  <2>1. GROUP_SIZE >= GROUP_SIZE
    BY <1>1
  <2> QED
    BY <1>1, <1>2, <1>3, <1>4, <2>1, RankIs
<1>8. Rank(A, x + GROUP_SIZE) = Rank(A, x) + Rank(bm, GROUP_SIZE)
  <2>1. GROUP_SIZE \in 0 .. GROUP_SIZE
    BY <1>1
  <2> QED
    BY <1>6, <2>1
<1> QED
  BY <1>2, <1>3, <1>6, <1>7, <1>8 DEF x, bm

\* All rows together hold what is assigned.
LEMMA AllRows ==
  ASSUME NEW gs, NEW n, GoodGroups(gs, n), NEW A, A = Assigned(gs, n)
  PROVE  /\ Rank(A, Len(gs) * GROUP_SIZE) = Cardinality(A) /\ Rank(A, 0 * GROUP_SIZE) = 0
         /\ Cardinality(A) \in Nat
<1>1. UpTo(A, n) /\ n \in Nat /\ Len(gs) * GROUP_SIZE \in Nat /\ Len(gs) * GROUP_SIZE >= n
      /\ 0 * GROUP_SIZE = 0
  BY AssignedUpTo, Constants, Multiples DEF GoodGroups
<1> QED
  BY <1>1, RankIs

LEMMA SumCounts ==
  ASSUME NEW gs, NEW n, GoodGroups(gs, n),
         NEW s, s = [k \in DOMAIN gs |-> gs[k].num_buckets]
  PROVE  SumOf(s) = Cardinality(Assigned(gs, n))
<1> DEFINE m == Len(gs)
           A == Assigned(gs, n)
           t == [k \in 0 .. m |-> Rank(A, k * GROUP_SIZE)]
<1>1. m \in Nat /\ DOMAIN gs = 1 .. m /\ GROUP_SIZE \in Nat /\ n \in Nat
  BY Constants DEF GoodGroups
<1>2. Len(s) = m /\ \A k \in 1 .. m : s[k] = gs[k].num_buckets
  BY <1>1
<1> HIDE DEF A
<1>3. t \in [0 .. m -> Nat]
  <2>1. UpTo(A, n)
    BY AssignedUpTo DEF A
  <2>2. \A k \in 0 .. m : Rank(A, k * GROUP_SIZE) \in Nat
    <3>1. \A k \in 0 .. m : k * GROUP_SIZE \in Nat
      BY <1>1, Multiples
    <3> QED
      BY <1>1, <2>1, <3>1, RankIs
  <2> QED
    BY <2>2
<1>4. t[0] = 0 /\ t[m] = Cardinality(A)
  BY <1>1, AllRows DEF A
<1>5. \A k \in 1 .. m : t[k] = t[k - 1] + s[k]
  <2> SUFFICES ASSUME NEW k \in 1 .. m PROVE t[k] = t[k - 1] + s[k]
    OBVIOUS
  <2>1. k \in 0 .. m /\ k - 1 \in 0 .. m /\ 0 \in 0 .. GROUP_SIZE
    BY <1>1
  <2>2. Rank(A, k * GROUP_SIZE) = Rank(A, (k - 1) * GROUP_SIZE) + gs[k].num_buckets
    BY <2>1, RowCount DEF A
  <2> QED
    BY <1>2, <2>1, <2>2
<1> HIDE DEF t, m
<1> QED
  BY <1>1, <1>2, <1>3, <1>4, <1>5, SumIs DEF A

(***************************************************************************)
(* The table's operations.                                                 *)
(***************************************************************************)
SparseInv == GoodTable(groups, table_size, num_buckets) /\ table_size <= MaxSize

\* The abstract array of the groups gs, as the definition of assigned writes it.
ArrayOf(gs, n) ==
  [i \in {j \in 0 .. n - 1 : bmtest(gs[(j \div GROUP_SIZE) + 1], j % GROUP_SIZE)} |->
     get(gs[(i \div GROUP_SIZE) + 1], i % GROUP_SIZE)]

LEMMA ArrayIs ==
  ASSUME NEW gs, NEW n, GoodGroups(gs, n)
  PROVE  ArrayOf(gs, n) = Contents(gs, n)
<1>1. \A j \in 0 .. n - 1 : bmtest(gs[(j \div GROUP_SIZE) + 1], j % GROUP_SIZE) <=> Bit(gs, j)
  BY DEF bmtest, Bit, Row, Col
<1>2. {j \in 0 .. n - 1 : bmtest(gs[(j \div GROUP_SIZE) + 1], j % GROUP_SIZE)} = Assigned(gs, n)
  BY <1>1, Zenon DEF Assigned
<1>3. ASSUME NEW i \in Assigned(gs, n)
      PROVE  get(gs[(i \div GROUP_SIZE) + 1], i % GROUP_SIZE) = ValueOf(gs, i)
  <2>1. i \in 0 .. n - 1 /\ Bit(gs, i)
    BY DEF Assigned
  <2> DEFINE g == gs[Row(i) + 1]
             r == Col(i)
  <2>2. GoodGroup(g) /\ r \in 0 .. GROUP_SIZE - 1 /\ r \in g.bitmap
    BY <2>1, GroupAt DEF Columns, Bit
  <2> HIDE DEF g, r
  <2>3. get(g, r) = ValueAt(g, r)
    BY <2>2, GetIs
  <2> QED
    BY <2>3 DEF g, r, Row, Col, ValueOf
<1> QED
  BY <1>2, <1>3, Zenon DEF ArrayOf, Contents

LEMMA AssignedIs == assigned = ArrayOf(groups, table_size)
BY Zenon DEF assigned, ArrayOf, Indices, test, Lookup, which_group, pos_in_group

LEMMA AssignedPrimed == assigned' = ArrayOf(groups', table_size')
BY Zenon DEF assigned, ArrayOf, Indices, test, Lookup, which_group, pos_in_group

LEMMA SparseInvInit == SparseInit => SparseInv /\ assigned = <<>>
<1> SUFFICES ASSUME SparseInit PROVE SparseInv /\ assigned = <<>>
  OBVIOUS
<1>1. groups = <<>> /\ table_size = 0 /\ num_buckets = 0
  BY DEF SparseInit
<1>2. /\ groups \in Seq(GroupType) /\ Len(groups) = 0
      /\ table_size \in Nat /\ table_size = 0 /\ 0 * GROUP_SIZE = 0 /\ 0 < 0 + GROUP_SIZE
  BY <1>1, Constants
<1>3. GoodGroups(groups, table_size)
  BY <1>2 DEF GoodGroups
<1>4. Assigned(groups, table_size) = {}
  BY <1>1 DEF Assigned
<1>5. SparseInv
  BY <1>1, <1>3, <1>4, FS_EmptySet, Constants DEF SparseInv, GoodTable
<1>6. Contents(groups, table_size) = <<>>
  BY <1>4 DEF Contents
<1> QED
  BY <1>3, <1>5, <1>6, ArrayIs, AssignedIs

\* What an operation does to the array.
ArrayStep == Array!Next \/ UNCHANGED Array!vars

LEMMA SetKeeps ==
  ASSUME SparseInv, NEW i \in Nat, NEW val \in Values, i < table_size,
         Changed(i, set(which_group(i), pos_in_group(i), val))
  PROVE  SparseInv' /\ Array!Assign(i, val)
<1> DEFINE g == groups[Row(i) + 1]
           h == set(g, Col(i), val)
           d == num_buckets + h.num_buckets - g.num_buckets
           us == groups'
<1>1. /\ table_size' = table_size
      /\ groups' = [groups EXCEPT ![Row(i) + 1] = h]
      /\ num_buckets' = d
  BY DEF Changed, which_group, pos_in_group, Row, Col
<1>2. Replaced(us, groups, Row(i) + 1, h)
  BY <1>1 DEF Replaced
<1>3. GoodTable(groups, table_size, num_buckets) /\ table_size <= MaxSize /\ i \in 0 .. table_size - 1
      /\ GoodGroups(groups, table_size)
  BY DEF SparseInv, GoodTable, GoodGroups
<1> HIDE DEF h
<1>4. h = set(groups[Row(i) + 1], Col(i), val)
  BY DEF h
<1> HIDE DEF us, g
<1>5. /\ GoodTable(us, table_size, num_buckets + h.num_buckets - groups[Row(i) + 1].num_buckets)
      /\ AssignedTo(Contents(us, table_size), groups, table_size, i, val)
  BY ONLY <1>2, <1>3, <1>4, val \in Values, SetStep, SMT
<1>6. GoodTable(groups', table_size', num_buckets')
  BY <1>1, <1>5 DEF us, g
<1>7. SparseInv'
  BY <1>1, <1>3, <1>6 DEF SparseInv
<1>8. assigned = Contents(groups, table_size)
  BY <1>3, ArrayIs, AssignedIs
<1>9. assigned' = Contents(us, table_size)
  BY <1>1, <1>6, ArrayIs, AssignedPrimed DEF GoodTable, us
<1>10. DOMAIN assigned = Assigned(groups, table_size)
  BY <1>8 DEF Contents
<1>11. assigned' = [j \in DOMAIN assigned \cup {i} |-> IF j = i THEN val ELSE assigned[j]]
  BY <1>5, <1>8, <1>9, <1>10, Zenon DEF AssignedTo
<1> QED
  BY <1>1, <1>7, <1>11 DEF Array!Assign

LEMMA EraseKeeps ==
  ASSUME SparseInv, NEW i \in Nat, table_erase(i)
  PROVE  SparseInv' /\ Array!Unassign(i)
<1> DEFINE g == groups[Row(i) + 1]
           h == erase(g, Col(i))
           us == groups'
<1>1. /\ i < table_size /\ table_size' = table_size
      /\ groups' = [groups EXCEPT ![Row(i) + 1] = h]
      /\ num_buckets' = num_buckets + h.num_buckets - g.num_buckets
  BY DEF table_erase, Changed, which_group, pos_in_group, Row, Col
<1>2. Replaced(us, groups, Row(i) + 1, h)
  BY <1>1 DEF Replaced
<1>3. GoodTable(groups, table_size, num_buckets) /\ table_size <= MaxSize /\ i \in 0 .. table_size - 1
      /\ GoodGroups(groups, table_size)
  BY <1>1 DEF SparseInv, GoodTable, GoodGroups
<1> HIDE DEF h
<1>4. h = erase(groups[Row(i) + 1], Col(i))
  BY DEF h
<1> HIDE DEF us, g
<1>5. /\ GoodTable(us, table_size, num_buckets + h.num_buckets - groups[Row(i) + 1].num_buckets)
      /\ Dropped(Contents(us, table_size), groups, table_size, i)
  BY ONLY <1>2, <1>3, <1>4, EraseStep, SMT
<1>6. GoodTable(groups', table_size', num_buckets')
  BY <1>1, <1>5 DEF us, g
<1>7. SparseInv'
  BY <1>1, <1>3, <1>6 DEF SparseInv
<1>8. assigned = Contents(groups, table_size)
  BY <1>3, ArrayIs, AssignedIs
<1>9. assigned' = Contents(us, table_size)
  BY <1>1, <1>6, ArrayIs, AssignedPrimed DEF GoodTable, us
<1>10. DOMAIN assigned = Assigned(groups, table_size)
  BY <1>8 DEF Contents
<1>11. assigned' = [j \in DOMAIN assigned \ {i} |-> assigned[j]]
  BY <1>5, <1>8, <1>9, <1>10, Zenon DEF Dropped
<1> QED
  BY <1>1, <1>7, <1>11 DEF Array!Unassign, Array!Restrict


LEMMA ClearKeeps ==
  ASSUME SparseInv, table_clear
  PROVE  SparseInv' /\ Array!UnassignAll
<1> DEFINE us == groups'
           n == table_size
           L == Len(groups)
<1>1. /\ us = [k \in DOMAIN groups |-> EmptyGroup] /\ num_buckets' = 0 /\ table_size' = n
  BY DEF table_clear
<1>2. /\ GoodGroups(groups, n) /\ n <= MaxSize /\ L \in Nat /\ DOMAIN groups = 1 .. L
      /\ n \in Nat /\ n <= L * GROUP_SIZE /\ L * GROUP_SIZE < n + GROUP_SIZE
      /\ GROUP_SIZE \in Nat
  BY Constants DEF SparseInv, GoodTable, GoodGroups
<1>3. EmptyGroup \in GroupType /\ GoodGroup(EmptyGroup) /\ EmptyGroup.bitmap = {}
  BY EmptyGroupGood DEF GoodGroup
<1> HIDE DEF us, L, n
<1>4. us \in Seq(GroupType) /\ Len(us) = L /\ \A k \in 1 .. L : us[k] = EmptyGroup
  BY <1>1, <1>2, <1>3
<1>5. ASSUME NEW b \in us[L].bitmap, n > 0 PROVE FALSE
  <2>1. L \in 1 .. L
    <3>1. 0 * GROUP_SIZE = 0
      BY <1>2
    <3> QED
      BY <1>2, <1>5, <3>1
  <2> QED
    BY <1>3, <1>4, <1>5, <2>1
<1>6. GoodGroups(us, n)
  BY <1>2, <1>3, <1>4, <1>5 DEF GoodGroups
<1>7. Assigned(us, n) = {}
  <2>1. ASSUME NEW i \in 0 .. n - 1 PROVE ~ Bit(us, i)
    BY <1>2, <1>3, <1>4, RowInside DEF Bit
  <2> QED
    BY <2>1 DEF Assigned
<1>8. GoodTable(us, n, 0)
  BY <1>6, <1>7, FS_EmptySet DEF GoodTable
<1>9. SparseInv'
  BY <1>1, <1>2, <1>8 DEF SparseInv, us
<1>10. Contents(us, n) = <<>>
  BY <1>7 DEF Contents
<1>11. assigned' = Contents(us, n)
  BY <1>1, <1>6, ArrayIs, AssignedPrimed DEF us
<1> QED
  BY <1>1, <1>9, <1>10, <1>11 DEF Array!UnassignAll, n

\* us are the groups sized to p, the last one cut there.
LEMMA CutGroups ==
  ASSUME SparseInv, NEW p \in Nat, p < table_size,
         NEW us, us = LastGroupCut(Sized(p), p)
  PROVE  GoodGroups(us, p) /\ KeptBelow(Contents(us, p), groups, table_size, p)
<1> DEFINE n == table_size
           m == num_groups(p)
           ss == Sized(p)
           r == Col(p)
<1>1. GoodGroups(groups, n) /\ AllGood(groups) /\ n \in Nat
  BY DEF SparseInv, GoodTable, GoodGroups, AllGood
<1>2. /\ m \in Nat /\ p <= m * GROUP_SIZE /\ m * GROUP_SIZE < p + GROUP_SIZE
      /\ r # 0 => m = Row(p) + 1
      /\ r \in Columns /\ Row(p) \in Nat
  BY NumGroups, PlaceOf
<1>3. ss = SizedTo(groups, m)
  BY Zenon DEF Sized, SizedTo
<1> HIDE DEF n, m, ss, r
<1>4. /\ ss \in Seq(GroupType) /\ Len(ss) = m /\ DOMAIN ss = 1 .. m
      /\ \A k \in 1 .. m : GoodGroup(ss[k])
      /\ \A k \in 1 .. m : k <= Len(groups) => ss[k] = groups[k]
  BY <1>1, <1>2, <1>3, SizedIs
<1>5. m <= Len(groups) /\ Len(groups) \in Nat
  <2> DEFINE L == Len(groups)
  <2>1. L \in Nat /\ n <= L * GROUP_SIZE /\ GROUP_SIZE \in Nat /\ p < n
    BY <1>1, Constants DEF GoodGroups, n
  <2>2. (L + 1) * GROUP_SIZE = L * GROUP_SIZE + GROUP_SIZE /\ L * GROUP_SIZE \in Nat
        /\ m * GROUP_SIZE \in Nat
    BY <1>2, <2>1, Multiples
  <2>3. L + 1 <= m => (L + 1) * GROUP_SIZE <= m * GROUP_SIZE
    BY <1>2, <2>1, Multiples
  <2> HIDE DEF L
  <2>4. ~ (L + 1 <= m)
    BY <1>1, <1>2, <2>1, <2>2, <2>3
  <2> QED
    BY <1>2, <2>1, <2>4 DEF L
<1>6. \A k \in 1 .. m : ss[k] = groups[k]
  BY <1>2, <1>4, <1>5
<1>7. CASE r = 0
  <2>1. us = ss
    BY <1>7, Zenon DEF LastGroupCut, pos_in_group, Col, r, ss
  <2>2. AllGood(us) /\ Len(us) = m /\ \A k \in 1 .. m : us[k] = groups[k]
    BY <1>4, <1>6, <2>1 DEF AllGood
  <2> QED
    BY <1>1, <1>7, <2>2, CutStep DEF n, m, r
<1>8. CASE r # 0
  <2> DEFINE e == CHOOSE x : Erased(x, Last(ss), r, GROUP_SIZE)
             h == e[GROUP_SIZE]
  <2>1. m \in 1 .. m /\ m - 1 \in Nat
    BY <1>2, <1>8
  <2>2. Last(ss) = groups[m] /\ GoodGroup(groups[m])
    BY <1>4, <1>6, <2>1 DEF Last
  <2>3. GROUP_SIZE \in Nat /\ r \in Nat /\ r <= GROUP_SIZE /\ r \in 0 .. GROUP_SIZE
    BY <1>2, Constants DEF Columns
  <2>4. Erased(e, Last(ss), r, GROUP_SIZE)
    BY <2>3, ErasedExists
  <2>5. us = [ss EXCEPT ![Len(ss)] = h]
    BY <1>8, Zenon DEF LastGroupCut, pos_in_group, Col, r, ss, Erased
  <2> HIDE DEF e
  <2>6. GoodGroup(h) /\ CutAt(h, groups[m], r)
    BY <2>2, <2>3, <2>4, ErasedIs
  <2> HIDE DEF h
  <2>7. h \in GroupType
    BY <2>6 DEF GoodGroup
  <2>8. AllGood(us) /\ Len(us) = m /\ us[m] = h /\ \A k \in 1 .. m : k # m => us[k] = groups[k]
    <3>1. us \in Seq(GroupType) /\ Len(us) = m /\ us[m] = h
          /\ \A k \in 1 .. m : k # m => us[k] = ss[k]
      BY <1>4, <2>1, <2>5, <2>7
    <3> QED
      BY <1>4, <1>6, <2>6, <3>1 DEF AllGood
  <2>9. /\ \A k \in 1 .. m : k < m \/ Col(p) = 0 => us[k] = groups[k]
        /\ Col(p) # 0 => CutAt(us[m], groups[m], Col(p))
    <3>1. \A k \in 1 .. m : k < m => k # m
      BY <1>2
    <3> QED
      BY <1>8, <2>6, <2>8, <3>1 DEF r
  <2> QED
    BY <1>1, <2>8, <2>9, CutStep DEF n, m
<1> QED
  BY <1>7, <1>8

LEMMA ResizeKeeps ==
  ASSUME SparseInv, NEW p \in 0 .. MaxSize, resize(p)
  PROVE  SparseInv' /\ Array!ChangeSize(p)
<1> DEFINE n == table_size
           us == groups'
<1>1. /\ GoodTable(groups, n, num_buckets) /\ n <= MaxSize /\ GoodGroups(groups, n) /\ n \in Nat
      /\ p \in Nat /\ p <= MaxSize /\ table_size' = p
  BY Constants DEF SparseInv, GoodTable, GoodGroups, resize
<1>2. assigned = Contents(groups, n) /\ DOMAIN assigned = Assigned(groups, n)
  BY <1>1, ArrayIs, AssignedIs DEF Contents
<1> HIDE DEF us
<1>3. CASE p < n
  <2>1. us = LastGroupCut(Sized(p), p)
    BY <1>3 DEF resize, us
  <2>2. GoodGroups(us, p) /\ KeptBelow(Contents(us, p), groups, n, p)
    BY <1>1, <1>3, <2>1, CutGroups
  <2>3. num_buckets' = SumOf([k \in DOMAIN us |-> us[k].num_buckets])
    BY <1>3, Zenon DEF resize, us
  <2>4. num_buckets' = Cardinality(Assigned(us, p))
    BY <2>2, <2>3, SumCounts
  <2>5. GoodTable(us, p, num_buckets')
    BY <2>2, <2>4 DEF GoodTable
  <2>6. SparseInv'
    BY <1>1, <2>5 DEF SparseInv, us
  <2>7. assigned' = Contents(us, p)
    BY <1>1, <2>2, ArrayIs, AssignedPrimed DEF us
  <2>8. assigned' = [j \in DOMAIN assigned \cap (0 .. p - 1) |-> assigned[j]]
    BY <1>2, <2>2, <2>7, Zenon DEF KeptBelow
  <2> QED
    BY <1>1, <2>6, <2>8, Zenon DEF Array!ChangeSize, Array!Restrict
<1>4. CASE ~ (p < n)
  <2>1. us = Sized(p) /\ num_buckets' = num_buckets
    BY <1>4 DEF resize, us
  <2>2. us = SizedTo(groups, num_groups(p))
    BY <2>1, Zenon DEF Sized, SizedTo
  <2>3. GoodTable(us, p, num_buckets) /\ Contents(us, p) = Contents(groups, n)
    BY <1>1, <1>4, <2>2, GrowStep
  <2>4. SparseInv'
    BY <1>1, <2>1, <2>3 DEF SparseInv, us
  <2>5. assigned' = assigned
    BY <1>1, <1>2, <2>3, ArrayIs, AssignedPrimed DEF us, GoodTable
  <2>6. DOMAIN assigned \cap (0 .. p - 1) = DOMAIN assigned
    <3>1. \A j \in Assigned(groups, n) : j \in 0 .. p - 1
      BY <1>1, <1>4 DEF Assigned
    <3> QED
      BY <1>2, <3>1
  <2>7. assigned = [j \in DOMAIN assigned |-> assigned[j]]
    BY <1>2 DEF Contents
  <2>8. assigned' = [j \in DOMAIN assigned \cap (0 .. p - 1) |-> assigned[j]]
    BY <2>5, <2>6, <2>7
  <2> QED
    BY <1>1, <2>4, <2>8, Zenon DEF Array!ChangeSize, Array!Restrict
<1> QED
  BY <1>3, <1>4

LEMMA SparseInvNext ==
  ASSUME SparseInv, [SparseNext]_sparseVars
  PROVE  SparseInv' /\ ArrayStep
<1>1. CASE UNCHANGED sparseVars
  <2>1. groups' = groups /\ table_size' = table_size /\ num_buckets' = num_buckets
    BY <1>1 DEF sparseVars
  <2>2. assigned' = assigned
    BY <2>1, AssignedIs, AssignedPrimed
  <2> QED
    BY <2>1, <2>2 DEF SparseInv, ArrayStep, Array!vars
<1>2. ASSUME NEW i \in 0 .. MaxSize - 1, mutating_get(i) PROVE SparseInv' /\ ArrayStep
  <2>1. CASE test(i)
    BY <1>1, <1>2, <2>1 DEF mutating_get
  <2>2. CASE ~ test(i)
    <3>1. i < table_size /\ Changed(i, set(which_group(i), pos_in_group(i), Default))
      BY <1>2, <2>2 DEF mutating_get
    <3>2. i \in Nat
      OBVIOUS
    <3>3. SparseInv' /\ Array!Assign(i, Default)
      BY <3>1, <3>2, Constants, SetKeeps
    <3> QED
      BY <3>3, Constants DEF ArrayStep, Array!Next
  <2> QED
    BY <2>1, <2>2
<1>3. ASSUME NEW i \in 0 .. MaxSize - 1, table_erase(i) PROVE SparseInv' /\ ArrayStep
  <2>1. SparseInv' /\ Array!Unassign(i)
    BY <1>3, EraseKeeps
  <2> QED
    BY <2>1 DEF ArrayStep, Array!Next
<1>4. ASSUME NEW i \in 0 .. MaxSize - 1, NEW val \in Values, table_set(i, val)
      PROVE  SparseInv' /\ ArrayStep
  <2>1. i < table_size /\ Changed(i, set(which_group(i), pos_in_group(i), val))
    BY <1>4 DEF table_set
  <2>2. SparseInv' /\ Array!Assign(i, val)
    BY <2>1, SetKeeps
  <2> QED
    BY <2>2 DEF ArrayStep, Array!Next
<1>5. ASSUME table_clear PROVE SparseInv' /\ ArrayStep
  BY <1>5, ClearKeeps DEF ArrayStep, Array!Next
<1>6. ASSUME NEW n \in 0 .. MaxSize, resize(n) PROVE SparseInv' /\ ArrayStep
  BY <1>6, ResizeKeeps DEF ArrayStep, Array!Next
<1> QED
  BY <1>1, <1>2, <1>3, <1>4, <1>5, <1>6 DEF SparseNext


LEMMA SparseInvMeans == SparseInv => SparseTypeOK /\ CountsAgree
<1> SUFFICES ASSUME SparseInv PROVE SparseTypeOK /\ CountsAgree
  OBVIOUS
<1> DEFINE n == table_size
           L == Len(groups)
<1>1. /\ groups \in Seq(GroupType) /\ \A k \in 1 .. L : GoodGroup(groups[k])
      /\ n \in Nat /\ n <= L * GROUP_SIZE /\ L * GROUP_SIZE < n + GROUP_SIZE
      /\ n > 0 => \A b \in groups[L].bitmap : (L - 1) * GROUP_SIZE + b < n
      /\ n <= MaxSize /\ num_buckets = Cardinality(Assigned(groups, n))
  BY DEF SparseInv, GoodTable, GoodGroups
<1>2. GROUP_SIZE \in Nat /\ MaxSize \in Nat /\ L \in Nat /\ DOMAIN groups = 1 .. L
  BY <1>1, Constants
<1>3. SparseTypeOK
  <2>1. L * GROUP_SIZE \in Nat
    BY <1>2, Multiples
  <2> QED
    BY <1>1, <1>2, <2>1 DEF SparseTypeOK, GroupType
<1>4. \A k \in DOMAIN groups : Len(groups[k].group) = Cardinality(groups[k].bitmap)
                               /\ groups[k].num_buckets = Len(groups[k].group)
  BY <1>1, <1>2 DEF GoodGroup
<1>5. AssignedIndices = Assigned(groups, n)
  BY DEF AssignedIndices, Indices, Assigned, Bit, test, bmtest, which_group, pos_in_group, Row, Col
<1>6. Last(groups) = groups[L]
  BY DEF Last
<1> QED
  BY <1>1, <1>3, <1>4, <1>5, <1>6 DEF CountsAgree

THEOREM SparseAlwaysInv == SparseSpec => []SparseInv
<1>1. SparseInit => SparseInv
  BY SparseInvInit
<1>2. SparseInv /\ [SparseNext]_sparseVars => SparseInv'
  BY SparseInvNext
<1> QED
  BY <1>1, <1>2, PTL DEF SparseSpec

\* To its user the table is an array with holes: set, erase, clear, resize and the get that
\* assigns the default do to what is read what google/sparsetable:33-46 says, for any size
\* of the groups and the table and any values.
THEOREM SparseImplementsArray == SparseSpec => ImplementsArray
<1>1. SparseInit => Array!Init
  <2>1. SparseInit => table_size = 0
    BY DEF SparseInit
  <2> QED
    BY <2>1, SparseInvInit DEF Array!Init
<1>2. SparseInv /\ [SparseNext]_sparseVars => [Array!Next]_(Array!vars)
  BY SparseInvNext DEF ArrayStep
<1> QED
  BY <1>1, <1>2, SparseAlwaysInv, PTL DEF SparseSpec, ImplementsArray, Array!Spec


(***************************************************************************)
(* Iterating.                                                              *)
(***************************************************************************)
Count(k) == groups[k].num_buckets
Total == Cardinality(Assigned(groups, table_size))

\* How many indices are assigned in the first q rows.
Before(q) == Rank(Assigned(groups, table_size), q * GROUP_SIZE)

\* it denotes the assigned index that has k of them before it, or the end.
Denotes(it, k) ==
  \/ \E q \in 0 .. Len(groups) - 1 : \E c \in 0 .. Count(q + 1) - 1 :
        it = <<q, c>> /\ k = Before(q) + c
  \/ it = <<Len(groups), 0>> /\ k = Total

LEMMA BeforeIs ==
  ASSUME SparseInv
  PROVE  /\ Before(0) = 0 /\ Before(Len(groups)) = Total
         /\ Len(groups) \in Nat /\ Total \in Nat
         /\ \A q \in 0 .. Len(groups) : Before(q) \in Nat
         /\ \A q \in 0 .. Len(groups) - 1 :
              Before(q + 1) = Before(q) + Count(q + 1) /\ Count(q + 1) \in Nat
<1> DEFINE A == Assigned(groups, table_size)
           L == Len(groups)
<1>1. GoodGroups(groups, table_size) /\ L \in Nat /\ table_size \in Nat /\ GROUP_SIZE \in Nat
  BY Constants DEF SparseInv, GoodTable, GoodGroups
<1>2. Before(0) = 0 /\ Before(L) = Total /\ Total \in Nat
  BY <1>1, AllRows DEF Before, Total
<1>3. ASSUME NEW q \in 0 .. L PROVE Before(q) \in Nat
  <2>1. q * GROUP_SIZE \in Nat /\ UpTo(A, table_size)
    BY <1>1, Multiples, AssignedUpTo
  <2> QED
    BY <1>1, <2>1, RankIs DEF Before
<1>4. ASSUME NEW q \in 0 .. L - 1
      PROVE  Before(q + 1) = Before(q) + Count(q + 1) /\ Count(q + 1) \in Nat
  <2> DEFINE k == q + 1
  <2>1. k \in 1 .. L /\ k - 1 = q /\ 0 \in 0 .. GROUP_SIZE
    BY <1>1
  <2> HIDE DEF k
  <2>2. Rank(A, k * GROUP_SIZE) = Rank(A, (k - 1) * GROUP_SIZE) + groups[k].num_buckets
        /\ groups[k].num_buckets \in Nat
    BY <1>1, <2>1, RowCount
  <2>3. Before(k) = Before(q) + Count(k) /\ Count(k) \in Nat
    BY <2>1, <2>2 DEF Before, Count
  <2> QED
    BY <2>3 DEF k
<1> QED
  BY <1>1, <1>2, <1>3, <1>4

\* Counts grow with the rows, and stay over empty ones.
LEMMA BeforeGrows ==
  ASSUME SparseInv, NEW a \in 0 .. Len(groups), NEW b \in 0 .. Len(groups), a <= b
  PROVE  /\ Before(a) <= Before(b)
         /\ (\A q \in a .. b - 1 : Count(q + 1) = 0) => Before(a) = Before(b)
<1> DEFINE L == Len(groups)
           Flat(c) == \A q \in a .. c - 1 : Count(q + 1) = 0
           Fine(c) == Before(a) <= Before(c) /\ (Flat(c) => Before(a) = Before(c))
           S == {d \in Nat : a + d <= L => Fine(a + d)}
<1>1. /\ L \in Nat /\ a \in Nat /\ b \in Nat /\ b <= L
      /\ \A q \in 0 .. L : Before(q) \in Nat
      /\ \A q \in 0 .. L - 1 :
           Before(q + 1) = Before(q) + Count(q + 1) /\ Count(q + 1) \in Nat
  BY BeforeIs
<1>2. 0 \in S
  <2>1. a + 0 = a /\ Before(a) \in Nat
    BY <1>1
  <2> QED
    BY <2>1
<1>3. ASSUME NEW d \in Nat, d \in S PROVE d + 1 \in S
  <2> SUFFICES ASSUME a + (d + 1) <= L PROVE Fine(a + (d + 1))
    OBVIOUS
  <2> DEFINE c == a + d
  <2>1. c \in 0 .. L - 1 /\ a + (d + 1) = c + 1 /\ a <= c /\ c \in 0 .. L /\ c + 1 \in 0 .. L
    BY <1>1
  <2>2. Fine(c)
    BY <1>3, <2>1
  <2>3. ASSUME Flat(c + 1) PROVE Flat(c) /\ Count(c + 1) = 0
    <3>1. c \in a .. (c + 1) - 1 /\ \A q \in a .. c - 1 : q \in a .. (c + 1) - 1
      BY <1>1, <2>1
    <3> HIDE DEF c
    <3> QED
      BY <2>3, <3>1
  <2>4. /\ Before(c + 1) = Before(c) + Count(c + 1) /\ Count(c + 1) \in Nat
        /\ Before(a) \in Nat /\ Before(c) \in Nat
    BY <1>1, <2>1
  <2> HIDE DEF c, Flat
  <2>5. Fine(c + 1)
    BY <2>2, <2>3, <2>4
  <2> HIDE DEF Fine
  <2> QED
    BY <2>1, <2>5
<1> HIDE DEF Fine
<1>4. b - a \in S
  <2> HIDE DEF S
  <2>1. b - a \in Nat
    BY <1>1
  <2> QED
    BY <1>2, <1>3, <2>1, NatInd
<1>5. a + (b - a) = b /\ b - a \in Nat
  BY <1>1
<1>6. Fine(b)
  BY <1>1, <1>4, <1>5
<1> QED
  BY <1>6 DEF Fine

\* No two places denote the same.
LEMMA DenotesOne ==
  ASSUME SparseInv, NEW k, NEW s, NEW t, Denotes(s, k), Denotes(t, k)
  PROVE  s = t
<1> DEFINE L == Len(groups)
<1>1. /\ L \in Nat /\ Before(L) = Total
      /\ \A q \in 0 .. L : Before(q) \in Nat
      /\ \A q \in 0 .. L - 1 :
           Before(q + 1) = Before(q) + Count(q + 1) /\ Count(q + 1) \in Nat
  BY BeforeIs
<1>2. ASSUME NEW q \in 0 .. L - 1, NEW c \in 0 .. Count(q + 1) - 1, NEW p \in 0 .. L, q < p
      PROVE  Before(q) + c < Before(p)
  <2>1. q + 1 \in 0 .. L /\ q + 1 <= p
    BY <1>1, <1>2
  <2>2. Before(q + 1) <= Before(p)
    BY <2>1, BeforeGrows
  <2>3. Before(q + 1) = Before(q) + Count(q + 1) /\ Count(q + 1) \in Nat
        /\ Before(q) \in Nat /\ Before(p) \in Nat
    BY <1>1
  <2> QED
    BY <2>2, <2>3
<1>3. ASSUME NEW q \in 0 .. L - 1, NEW c \in 0 .. Count(q + 1) - 1, s = <<q, c>>, k = Before(q) + c,
             NEW p \in 0 .. L - 1, NEW d \in 0 .. Count(p + 1) - 1, t = <<p, d>>, k = Before(p) + d
      PROVE  s = t
  <2>1. Before(q) \in Nat /\ Before(p) \in Nat /\ q \in 0 .. L /\ p \in 0 .. L
        /\ Count(q + 1) \in Nat /\ Count(p + 1) \in Nat
    <3>1. q \in 0 .. L /\ p \in 0 .. L /\ q \in 0 .. L - 1 /\ p \in 0 .. L - 1
      BY <1>1
    <3> HIDE DEF L
    <3> QED
      BY <1>1, <3>1, Zenon
  <2>2. q < p => Before(q) + c < Before(p)
    BY <1>2, <2>1
  <2>3. p < q => Before(p) + d < Before(q)
    BY <1>2, <2>1
  <2>4. ~ (q < p) /\ ~ (p < q)
    <3> DEFINE x == Before(q)
               y == Before(p)
    <3>1. x \in Nat /\ y \in Nat /\ c >= 0 /\ d >= 0 /\ x + c = y + d /\ c \in Int /\ d \in Int
      BY <1>3, <2>1
    <3>2. (q < p => x + c < y) /\ (p < q => y + d < x)
      BY <2>2, <2>3
    <3> HIDE DEF x, y
    <3> QED
      BY <3>1, <3>2
  <2>5. q = p
    BY <1>1, <2>4
  <2>6. c = d
    BY <1>3, <2>1, <2>5
  <2> QED
    BY <1>3, <2>5, <2>6
<1>4. ASSUME NEW q \in 0 .. L - 1, NEW c \in 0 .. Count(q + 1) - 1, k = Before(q) + c, k = Total
      PROVE  FALSE
  <2>1. L \in 0 .. L /\ q < L
    BY <1>1
  <2>2. Before(q) + c < Before(L)
    BY <1>2, <2>1
  <2>3. Before(q) \in Nat /\ Before(L) \in Nat /\ Count(q + 1) \in Nat
    BY <1>1, <2>1
  <2> QED
    BY <1>1, <1>4, <2>2, <2>3
<1> QED
  BY <1>3, <1>4 DEF Denotes


LEMMA LeastOf ==
  ASSUME NEW S \in SUBSET Nat, S # {}
  PROVE  \E x \in S : \A y \in S : x <= y
<1>1. PICK x \in S : \A y \in S : ~ (<<y, x>> \in OpToRel(<, Nat))
  BY WFMin, NatLessThanWellFounded, Zenon
<1>2. \A y \in S : ~ (y < x)
  BY <1>1, Zenon DEF OpToRel
<1> QED
  BY <1>2

LEMMA GreatestOf ==
  ASSUME NEW n \in Nat, NEW S \in SUBSET (0 .. n), S # {}
  PROVE  \E x \in S : \A y \in S : y <= x
<1> DEFINE T == {z \in 0 .. n : n - z \in S}
<1>1. \A y \in S : y \in 0 .. n /\ n - y \in T /\ n - (n - y) = y
  OBVIOUS
<1>2. T \in SUBSET Nat /\ T # {}
  <2>1. PICK y \in S : TRUE
    OBVIOUS
  <2>2. n - y \in T
    BY <1>1, <2>1
  <2>3. \A z \in T : z \in Nat
    OBVIOUS
  <2> QED
    BY <2>2, <2>3
<1>3. PICK z \in T : \A y \in T : z <= y
  BY <1>2, LeastOf
<1>4. n - z \in S /\ z \in 0 .. n
  OBVIOUS
<1>5. ASSUME NEW y \in S PROVE y <= n - z
  <2>1. n - y \in T /\ y \in 0 .. n
    BY <1>1
  <2> HIDE DEF T
  <2>2. z <= n - y
    BY <1>3, <2>1
  <2> QED
    BY <1>4, <2>1, <2>2
<1> QED
  BY <1>4, <1>5

LEMMA AdvanceIs ==
  ASSUME SparseInv, NEW q \in 0 .. Len(groups) - 1, NEW c \in 0 .. Count(q + 1)
  PROVE  Denotes(advance_past_end(q, c), Before(q) + c)
<1> DEFINE L == Len(groups)
           rows == {r \in q + 1 .. L - 1 : Count(r + 1) > 0}
<1>1. /\ L \in Nat /\ Before(L) = Total /\ Total \in Nat
      /\ \A p \in 0 .. L : Before(p) \in Nat
      /\ \A p \in 0 .. L - 1 :
           Before(p + 1) = Before(p) + Count(p + 1) /\ Count(p + 1) \in Nat
  BY BeforeIs
<1>2. q \in Nat /\ q < L /\ q \in 0 .. L - 1 /\ q \in 0 .. L /\ q + 1 \in 0 .. L /\ L \in 0 .. L
  BY <1>1
<1>3. Count(q + 1) \in Nat /\ Before(q) \in Nat /\ Before(q + 1) = Before(q) + Count(q + 1)
  BY <1>1, <1>2
<1>4. CASE c < Count(q + 1)
  <2>1. advance_past_end(q, c) = <<q, c>>
    BY <1>2, <1>4 DEF advance_past_end, Count
  <2>2. c \in 0 .. Count(q + 1) - 1
    BY <1>3, <1>4
  <2> QED
    BY <1>2, <2>1, <2>2 DEF Denotes
<1>5. CASE ~ (c < Count(q + 1))
  <2>1. Before(q) + c = Before(q + 1)
    BY <1>3, <1>5
  <2>2. advance_past_end(q, c)
          = <<IF rows = {} THEN L ELSE CHOOSE r \in rows : \A s \in rows : r <= s, 0>>
    BY <1>5 DEF advance_past_end, Count
  <2>3. CASE rows = {}
    <3>1. \A p \in q + 1 .. L - 1 : Count(p + 1) = 0
      <4> SUFFICES ASSUME NEW p \in q + 1 .. L - 1 PROVE Count(p + 1) = 0
        OBVIOUS
      <4>1. p \in 0 .. L - 1
        BY <1>1, <1>2
      <4>2. Count(p + 1) \in Nat
        BY <1>1, <4>1
      <4>3. ~ (Count(p + 1) > 0)
        BY <2>3
      <4> QED
        BY <4>2, <4>3
    <3>2. Before(q + 1) = Before(L)
      <4> DEFINE a == q + 1
      <4>1. a \in 0 .. L /\ a <= L /\ L \in 0 .. L /\ \A p \in a .. L - 1 : Count(p + 1) = 0
        BY <1>1, <1>2, <3>1
      <4> HIDE DEF a
      <4>2. (\A p \in a .. L - 1 : Count(p + 1) = 0) => Before(a) = Before(L)
        BY <4>1, BeforeGrows
      <4> QED
        BY <4>1, <4>2 DEF a
    <3>3. advance_past_end(q, c) = <<L, 0>>
      BY <2>2, <2>3
    <3> QED
      BY <1>1, <2>1, <3>2, <3>3 DEF Denotes
  <2>4. CASE rows # {}
    <3> DEFINE r == CHOOSE r \in rows : \A s \in rows : r <= s
    <3>1. rows \in SUBSET Nat
      BY <1>2
    <3>2. r \in rows /\ \A s \in rows : r <= s
      <4> HIDE DEF rows
      <4> QED
        BY <2>4, <3>1, LeastOf
    <3>3. advance_past_end(q, c) = <<r, 0>>
      BY <2>2, <2>4
    <3> HIDE DEF r
    <3>4. r \in q + 1 .. L - 1 /\ Count(r + 1) > 0
      BY <3>2
    <3>5. r \in 0 .. L - 1 /\ r \in 0 .. L /\ q + 1 <= r
      BY <1>1, <1>2, <3>4
    <3>6. \A p \in q + 1 .. r - 1 : Count(p + 1) = 0
      <4> SUFFICES ASSUME NEW p \in q + 1 .. r - 1 PROVE Count(p + 1) = 0
        OBVIOUS
      <4>1. p \in 0 .. L - 1 /\ p \in q + 1 .. L - 1 /\ ~ (r <= p)
        BY <1>1, <1>2, <3>5
      <4>2. Count(p + 1) \in Nat
        BY <1>1, <4>1
      <4>3. ~ (Count(p + 1) > 0)
        BY <3>2, <4>1
      <4> QED
        BY <4>2, <4>3
    <3>7. Before(q + 1) = Before(r)
      BY <1>2, <3>5, <3>6, BeforeGrows
    <3>8. Count(r + 1) \in Nat /\ Before(r) \in Nat
      BY <1>1, <3>5
    <3>9. 0 \in 0 .. Count(r + 1) - 1 /\ Before(r) = Before(r) + 0
      BY <3>4, <3>8
    <3> QED
      BY <2>1, <3>3, <3>5, <3>7, <3>9 DEF Denotes
  <2> QED
    BY <2>3, <2>4
<1> QED
  BY <1>4, <1>5

LEMMA BeginIs ==
  ASSUME SparseInv PROVE Denotes(nonempty_begin, 0)
<1> DEFINE L == Len(groups)
<1>1. /\ L \in Nat /\ Before(L) = Total /\ Before(0) = 0
      /\ \A q \in 0 .. L - 1 : Count(q + 1) \in Nat
  BY BeforeIs
<1>2. groups \in Seq(GroupType)
  BY DEF SparseInv, GoodTable, GoodGroups
<1>3. CASE groups = <<>>
  <2>1. L = 0
    BY <1>3
  <2>2. nonempty_begin = <<L, 0>> /\ Total = 0
    BY <1>1, <1>3, <2>1 DEF nonempty_begin
  <2> QED
    BY <2>2 DEF Denotes
<1>4. CASE groups # <<>>
  <2>1. L # 0
    BY <1>2, <1>4, EmptySeq
  <2>2. 0 \in 0 .. L - 1 /\ nonempty_begin = advance_past_end(0, 0)
    BY <1>1, <1>4, <2>1 DEF nonempty_begin
  <2>3. 0 \in 0 .. Count(0 + 1)
    BY <1>1, <2>2
  <2>4. Denotes(advance_past_end(0, 0), Before(0) + 0)
    BY <2>2, <2>3, AdvanceIs
  <2> QED
    BY <1>1, <2>2, <2>4
<1> QED
  BY <1>3, <1>4

LEMMA IncrementIs ==
  ASSUME SparseInv, NEW it, NEW k \in Nat, Denotes(it, k), k < Total
  PROVE  Denotes(Increment(it), k + 1)
<1>1. PICK q \in 0 .. Len(groups) - 1 : \E c \in 0 .. Count(q + 1) - 1 :
        it = <<q, c>> /\ k = Before(q) + c
  BY BeforeIs DEF Denotes
<1>2. PICK c \in 0 .. Count(q + 1) - 1 : it = <<q, c>> /\ k = Before(q) + c
  BY <1>1
<1>3. Count(q + 1) \in Nat /\ Before(q) \in Nat
  <2>1. Len(groups) \in Nat
    BY BeforeIs
  <2>2. q \in 0 .. Len(groups)
    BY <2>1
  <2> QED
    BY <2>2, BeforeIs
<1>4. c + 1 \in 0 .. Count(q + 1) /\ k + 1 = Before(q) + (c + 1)
  BY <1>2, <1>3
<1>5. Increment(it) = advance_past_end(q, c + 1)
  BY <1>2 DEF Increment
<1> QED
  BY <1>4, <1>5, AdvanceIs

LEMMA DecrementIs ==
  ASSUME SparseInv, NEW it, NEW k \in Nat, Denotes(it, k), k > 0
  PROVE  Denotes(Decrement(it), k - 1)
<1> DEFINE L == Len(groups)
<1>1. /\ L \in Nat /\ Before(0) = 0 /\ Before(L) = Total /\ Total \in Nat
      /\ \A p \in 0 .. L : Before(p) \in Nat
      /\ \A p \in 0 .. L - 1 :
           Before(p + 1) = Before(p) + Count(p + 1) /\ Count(p + 1) \in Nat
  BY BeforeIs
<1>2. ASSUME NEW q \in 0 .. L - 1, NEW c \in 0 .. Count(q + 1) - 1, c > 0,
             it = <<q, c>>, k = Before(q) + c
      PROVE  Denotes(Decrement(it), k - 1)
  <2>1. Count(q + 1) \in Nat /\ Before(q) \in Nat /\ q < L
    BY <1>1
  <2>2. Decrement(it) = <<q, c - 1>>
    BY <1>2, <2>1 DEF Decrement
  <2>3. c - 1 \in 0 .. Count(q + 1) - 1 /\ k - 1 = Before(q) + (c - 1)
    BY <1>2, <2>1
  <2> QED
    BY <2>2, <2>3 DEF Denotes
<1>3. ASSUME NEW q \in 0 .. L, it = <<q, 0>>, k = Before(q)
      PROVE  Denotes(Decrement(it), k - 1)
  <2> DEFINE rows == {r \in 0 .. q - 1 : Count(r + 1) > 0}
             r == CHOOSE r \in rows : \A s \in rows : s <= r
  <2>1. Decrement(it) = <<r, Count(r + 1) - 1>>
    <3>1. it[1] = q /\ it[2] = 0 /\ ~ (it[2] > 0)
      BY <1>3
    <3> QED
      BY <3>1, Zenon DEF Decrement, Count
  <2>2. rows # {}
    <3> SUFFICES ASSUME rows = {} PROVE FALSE
      OBVIOUS
    <3>1. \A p \in 0 .. q - 1 : Count(p + 1) = 0
      <4> SUFFICES ASSUME NEW p \in 0 .. q - 1 PROVE Count(p + 1) = 0
        OBVIOUS
      <4>1. p \in 0 .. L - 1
        BY <1>1
      <4>2. Count(p + 1) \in Nat
        BY <1>1, <4>1
      <4>3. ~ (Count(p + 1) > 0)
        OBVIOUS
      <4> QED
        BY <4>2, <4>3
    <3>2. Before(0) = Before(q)
      <4>1. 0 \in 0 .. L /\ 0 <= q
        BY <1>1
      <4> QED
        BY <3>1, <4>1, BeforeGrows
    <3> QED
      BY <1>1, <1>3, <3>2
  <2>3. rows \in SUBSET (0 .. L)
    BY <1>1
  <2>4. r \in rows /\ \A s \in rows : s <= r
    <3> HIDE DEF rows
    <3> QED
      BY <1>1, <2>2, <2>3, GreatestOf
  <2> HIDE DEF r
  <2>5. r \in 0 .. q - 1 /\ Count(r + 1) > 0
    BY <2>4
  <2>6. r \in 0 .. L - 1 /\ r + 1 \in 0 .. L /\ r + 1 <= q /\ r \in 0 .. L
    BY <1>1, <2>5
  <2>7. \A p \in r + 1 .. q - 1 : Count(p + 1) = 0
    <3> SUFFICES ASSUME NEW p \in r + 1 .. q - 1 PROVE Count(p + 1) = 0
      OBVIOUS
    <3>1. p \in 0 .. L - 1 /\ p \in 0 .. q - 1 /\ ~ (p <= r)
      BY <1>1, <2>6
    <3>2. Count(p + 1) \in Nat
      BY <1>1, <3>1
    <3>3. ~ (Count(p + 1) > 0)
      BY <2>4, <3>1
    <3> QED
      BY <3>2, <3>3
  <2>8. Before(r + 1) = Before(q)
    BY <2>6, <2>7, BeforeGrows
  <2>9. Before(r + 1) = Before(r) + Count(r + 1) /\ Count(r + 1) \in Nat /\ Before(r) \in Nat
    BY <1>1, <2>6
  <2>10. Count(r + 1) - 1 \in 0 .. Count(r + 1) - 1 /\ k - 1 = Before(r) + (Count(r + 1) - 1)
    BY <1>3, <2>5, <2>8, <2>9
  <2> QED
    BY <2>1, <2>6, <2>10 DEF Denotes
<1>4. CASE it = <<L, 0>> /\ k = Total
  <2>1. L \in 0 .. L
    BY <1>1
  <2> QED
    BY <1>1, <1>3, <1>4, <2>1
<1>5. CASE \E q \in 0 .. L - 1 : \E c \in 0 .. Count(q + 1) - 1 : it = <<q, c>> /\ k = Before(q) + c
  <2>1. PICK q \in 0 .. L - 1 : \E c \in 0 .. Count(q + 1) - 1 : it = <<q, c>> /\ k = Before(q) + c
    BY <1>5
  <2>2. PICK c \in 0 .. Count(q + 1) - 1 : it = <<q, c>> /\ k = Before(q) + c
    BY <2>1
  <2>3. q \in 0 .. L /\ Before(q) \in Nat
    BY <1>1
  <2>4. c = 0 => k = Before(q)
    BY <2>2, <2>3
  <2>5. c = 0 \/ c > 0
    OBVIOUS
  <2> QED
    BY <1>2, <1>3, <2>2, <2>3, <2>4, <2>5
<1> QED
  BY <1>4, <1>5 DEF Denotes


\* The iterator of an assigned index denotes what is assigned before it.
LEMMA GetIterIs ==
  ASSUME SparseInv, NEW i \in AssignedIndices
  PROVE  Denotes(get_iter(i), Rank(AssignedIndices, i)) /\ i \in Nat
<1> DEFINE n == table_size
           A == Assigned(groups, n)
           g == groups[Row(i) + 1]
           c == Rank(g.bitmap, Col(i))
<1>1. GoodGroups(groups, n)
  BY DEF SparseInv, GoodTable
<1>2. AssignedIndices = A
  BY DEF AssignedIndices, Indices, Assigned, Bit, test, bmtest, which_group, pos_in_group, Row, Col
<1>3. i \in 0 .. n - 1 /\ Bit(groups, i) /\ i \in Nat
  BY <1>2 DEF Assigned
<1>4. /\ Row(i) + 1 \in 1 .. Len(groups) /\ Len(groups) \in Nat
      /\ Row(i) \in Nat /\ Col(i) \in Columns /\ i = Row(i) * GROUP_SIZE + Col(i)
      /\ GoodGroup(g)
  BY <1>1, <1>3, GroupAt
<1>5. g.bitmap \in SUBSET (0 .. GROUP_SIZE - 1) /\ g.num_buckets = Cardinality(g.bitmap)
      /\ UpTo(g.bitmap, GROUP_SIZE) /\ GROUP_SIZE \in Nat
  BY <1>4, Constants DEF GoodGroup, GroupType, UpTo
<1>6. get_iter(i) = advance_past_end(Row(i), c)
  <2>1. pos_to_offset(g.bitmap, Col(i)) = c
    BY <1>4, <1>5, PlaceIs DEF Columns
  <2> QED
    BY <2>1 DEF get_iter, which_group, pos_in_group, Row, Col
<1>7. c \in 0 .. Count(Row(i) + 1)
  <2>1. Col(i) \in Nat
    BY <1>4 DEF Columns
  <2> QED
    BY <1>5, <2>1, RankIs DEF Count
<1>8. Row(i) \in 0 .. Len(groups) - 1
  BY <1>4
<1> HIDE DEF g, c, A, n
<1>9. Denotes(get_iter(i), Before(Row(i)) + c)
  BY <1>6, <1>7, <1>8, AdvanceIs
<1>10. Before(Row(i)) + c = Rank(A, i)
  <2> DEFINE k == Row(i) + 1
             d == Col(i)
  <2>1. k \in 1 .. Len(groups) /\ d \in 0 .. GROUP_SIZE /\ k - 1 = Row(i)
    <3>1. k \in 1 .. Len(groups) /\ k - 1 = Row(i)
      BY <1>4
    <3>2. d \in 0 .. GROUP_SIZE - 1 /\ GROUP_SIZE \in Nat
      BY <1>4, <1>5 DEF Columns
    <3> HIDE DEF k, d
    <3> QED
      BY <3>1, <3>2
  <2> HIDE DEF k, d
  <2>2. Rank(A, (k - 1) * GROUP_SIZE + d) = Rank(A, (k - 1) * GROUP_SIZE) + Rank(groups[k].bitmap, d)
    BY <1>1, <2>1, RowCount DEF A
  <2> QED
    BY <1>4, <2>1, <2>2 DEF k, d, c, g, Before, A, n
<1> QED
  BY <1>2, <1>3, <1>9, <1>10

\* The kth assigned index has k - 1 assigned ones before it.
LEMMA NthIs ==
  ASSUME SparseInv, NEW k \in 1 .. Total
  PROVE  Nth(k) \in AssignedIndices /\ Rank(AssignedIndices, Nth(k)) = k - 1
<1> DEFINE A == AssignedIndices
           Is(i) == Cardinality({j \in A : j <= i}) = k
<1>1. A = Assigned(groups, table_size)
  BY DEF AssignedIndices, Indices, Assigned, Bit, test, bmtest, which_group, pos_in_group, Row, Col
<1>2. table_size \in Nat /\ UpTo(A, table_size) /\ k - 1 \in Nat /\ k - 1 < Cardinality(A)
      /\ \A i \in A : i \in Nat
  <2>1. Total = Cardinality(A) /\ Total \in Nat
    BY <1>1, BeforeIs DEF Total
  <2>2. UpTo(A, table_size)
    BY <1>1, AssignedUpTo
  <2>3. table_size \in Nat
    BY DEF SparseInv, GoodTable, GoodGroups
  <2>4. \A i \in A : i \in Nat
    BY <2>2, <2>3 DEF UpTo
  <2> QED
    BY <2>1, <2>2, <2>3, <2>4
<1> HIDE DEF A
<1>3. ASSUME NEW i \in A PROVE Is(i) <=> Rank(A, i) = k - 1
  <2>1. Rank(A, i + 1) = Rank(A, i) + 1 /\ Rank(A, i) \in Nat
    BY <1>2, RankNext, RankIs
  <2>2. {j \in A : j <= i} = Below(A, i + 1)
    <3>1. \A j \in A : j <= i <=> j < i + 1
      BY <1>2
    <3> QED
      BY <3>1, Zenon DEF Below
  <2>3. Cardinality({j \in A : j <= i}) = Rank(A, i) + 1
    BY <2>1, <2>2 DEF Rank
  <2> QED
    BY <2>1, <2>3
<1>4. \E i \in A : Is(i)
  <2>1. \E i \in A : Rank(A, i) = k - 1
    BY <1>2, RankReached
  <2> QED
    BY <1>3, <2>1
<1>5. Nth(k) = CHOOSE i \in A : Is(i)
  BY Zenon DEF Nth, A
<1> HIDE DEF Is
<1>6. Nth(k) \in A /\ Is(Nth(k))
  BY <1>4, <1>5
<1> QED
  BY <1>3, <1>6 DEF A

\* f goes over the non-empty buckets.
Walk(f, n) == f = [k \in 0 .. n |-> IF k = 0 THEN nonempty_begin ELSE Increment(f[k - 1])]

LEMMA WalkExists ==
  ASSUME NEW n \in Nat PROVE \E f : Walk(f, n)
<1> DEFINE S == {d \in Nat : \E f : Walk(f, d)}
<1>1. 0 \in S
  <2> DEFINE f == [k \in 0 .. 0 |-> nonempty_begin]
  <2>1. f = [k \in 0 .. 0 |-> IF k = 0 THEN nonempty_begin ELSE Increment(f[k - 1])]
    OBVIOUS
  <2>2. Walk(f, 0)
    BY <2>1, Zenon DEF Walk
  <2> QED
    BY <2>2
<1>2. ASSUME NEW d \in Nat, d \in S PROVE d + 1 \in S
  <2>1. PICK h : Walk(h, d)
    BY <1>2
  <2>2. h = [k \in 0 .. d |-> IF k = 0 THEN nonempty_begin ELSE Increment(h[k - 1])]
    BY <2>1, Zenon DEF Walk
  <2> DEFINE f == [k \in 0 .. d + 1 |-> IF k = 0 THEN nonempty_begin ELSE Increment(h[k - 1])]
  <2>3. \A k \in 0 .. d : f[k] = h[k]
    BY <2>2
  <2>4. \A k \in 0 .. d + 1 : k # 0 => k - 1 \in 0 .. d
    OBVIOUS
  <2>5. f = [k \in 0 .. d + 1 |-> IF k = 0 THEN nonempty_begin ELSE Increment(f[k - 1])]
    BY <2>3, <2>4
  <2> HIDE DEF f
  <2>6. Walk(f, d + 1)
    BY <2>5, Zenon DEF Walk
  <2> QED
    BY <2>6
<1> HIDE DEF S
<1>3. n \in S
  BY <1>1, <1>2, NatInd
<1> QED
  BY <1>3 DEF S

LEMMA WalkIs ==
  ASSUME SparseInv, NEW f, Walk(f, Total), NEW k \in 0 .. Total
  PROVE  Denotes(f[k], k)
<1>1. Total \in Nat
  BY BeforeIs
<1>2. f[0] = nonempty_begin /\ \A j \in 0 .. Total : j # 0 => f[j] = Increment(f[j - 1])
  BY <1>1 DEF Walk
<1> DEFINE S == {j \in Nat : j <= Total => Denotes(f[j], j)}
<1>3. 0 \in S
  BY <1>2, BeginIs
<1>4. ASSUME NEW j \in Nat, j \in S PROVE j + 1 \in S
  <2> SUFFICES ASSUME j + 1 <= Total PROVE Denotes(f[j + 1], j + 1)
    OBVIOUS
  <2>1. j + 1 \in 0 .. Total /\ j + 1 # 0 /\ (j + 1) - 1 = j /\ j < Total /\ j <= Total
    BY <1>1
  <2>2. Denotes(f[j], j)
    BY <1>4, <2>1
  <2>3. f[j + 1] = Increment(f[j])
    BY <1>2, <2>1
  <2> QED
    BY <2>1, <2>2, <2>3, IncrementIs
<1> HIDE DEF S
<1>5. k \in S
  BY <1>1, <1>3, <1>4, NatInd
<1> QED
  BY <1>1, <1>5 DEF S

LEMMA SparseInvIterates == SparseInv => IterationExact
<1> SUFFICES ASSUME SparseInv PROVE IterationExact
  OBVIOUS
<1> DEFINE n == Cardinality(AssignedIndices)
           f == CHOOSE x : Walk(x, n)
<1>1. n = Total /\ n \in Nat
  <2>1. AssignedIndices = Assigned(groups, table_size)
    BY DEF AssignedIndices, Indices, Assigned, Bit, test, bmtest, which_group, pos_in_group, Row, Col
  <2> QED
    BY <2>1, BeforeIs DEF Total
<1>2. Walk(f, n)
  <2> HIDE DEF n
  <2> QED
    BY <1>1, WalkExists
<1> HIDE DEF n, f
<1>3. ASSUME NEW k \in 0 .. n PROVE Denotes(f[k], k)
  BY <1>1, <1>2, <1>3, WalkIs
<1>4. ASSUME NEW k \in 1 .. n PROVE get_iter(Nth(k)) = f[k - 1] /\ Decrement(f[k]) = f[k - 1]
  <2>1. k \in 0 .. n /\ k - 1 \in 0 .. n /\ k \in Nat /\ k > 0
    BY <1>1
  <2>2. Denotes(f[k], k) /\ Denotes(f[k - 1], k - 1)
    BY <1>3, <2>1
  <2>3. Denotes(get_iter(Nth(k)), k - 1)
    <3>1. Nth(k) \in AssignedIndices /\ Rank(AssignedIndices, Nth(k)) = k - 1
      BY <1>1, NthIs
    <3> DEFINE i == Nth(k)
    <3>2. i \in AssignedIndices /\ Rank(AssignedIndices, i) = k - 1
      BY <3>1
    <3> HIDE DEF i
    <3>3. Denotes(get_iter(i), k - 1)
      BY <3>2, GetIterIs
    <3> QED
      BY <3>3 DEF i
  <2>4. Denotes(Decrement(f[k]), k - 1)
    BY <2>1, <2>2, DecrementIs
  <2>5. get_iter(Nth(k)) = f[k - 1]
    BY <2>2, <2>3, DenotesOne
  <2>6. Decrement(f[k]) = f[k - 1]
    BY <2>2, <2>4, DenotesOne
  <2> QED
    BY <2>5, <2>6
<1>5. f[n] = nonempty_end
  <2>1. Denotes(f[n], n)
    BY <1>1, <1>3
  <2>2. Denotes(nonempty_end, n)
    BY <1>1 DEF Denotes, nonempty_end
  <2> QED
    BY <2>1, <2>2, DenotesOne
<1>6. IterationExact <=>
        /\ \A k \in 1 .. n : get_iter(Nth(k)) = f[k - 1]
        /\ f[n] = nonempty_end
        /\ \A k \in 1 .. n : Decrement(f[k]) = f[k - 1]
  BY Zenon DEF IterationExact, n, f, Walk
<1> QED
  BY <1>4, <1>5, <1>6

\* In every state the groups are well formed, their counts, packed values and bitmaps agree,
\* and iterating, forwards and backwards, meets each assigned index once and in order.
THEOREM SparseAlwaysExact == SparseSpec => []SparseExact
<1>1. SparseInv => SparseExact
  BY SparseInvMeans, SparseInvIterates DEF SparseExact
<1> QED
  BY <1>1, SparseAlwaysInv, PTL


(***************************************************************************)
(* The mapped container: how often an item is in a list.                   *)
(***************************************************************************)
Times(s, k, x) == Cardinality({j \in 1 .. k : s[j] = x})
Often(s, x) == Times(s, Len(s), x)

LEMMA TimesNext ==
  ASSUME NEW s, NEW x, NEW k \in Nat
  PROVE  /\ Times(s, k, x) \in Nat /\ Times(s, 0, x) = 0
         /\ Times(s, k + 1, x) = Times(s, k, x) + (IF s[k + 1] = x THEN 1 ELSE 0)
<1> DEFINE A == {j \in 1 .. k : s[j] = x}
           B == {j \in 1 .. k + 1 : s[j] = x}
<1>1. IsFiniteSet(A) /\ Cardinality(A) \in Nat
  <2>1. IsFiniteSet(1 .. k)
    BY FS_Interval
  <2>2. IsFiniteSet(A)
    BY <2>1, FS_Subset
  <2> QED
    BY <2>2, FS_CardinalityType
<1>2. Times(s, 0, x) = 0
  <2>1. {j \in 1 .. 0 : s[j] = x} = {}
    OBVIOUS
  <2> QED
    BY <2>1, FS_EmptySet DEF Times
<1>3. k + 1 \notin A /\ \A j : j \in 1 .. k + 1 <=> j \in 1 .. k \/ j = k + 1
  OBVIOUS
<1>4. CASE s[k + 1] = x
  <2>1. B = A \cup {k + 1}
    BY <1>3, <1>4, Zenon
  <2> HIDE DEF A, B
  <2>2. Cardinality(B) = Cardinality(A) + 1
    BY <1>1, <1>3, <2>1, FS_AddElement
  <2> QED
    BY <1>1, <1>2, <1>4, <2>2 DEF Times, A, B
<1>5. CASE s[k + 1] # x
  <2>1. B = A
    BY <1>3, <1>5, Zenon
  <2> HIDE DEF A, B
  <2> QED
    BY <1>1, <1>2, <1>5, <2>1 DEF Times, A, B
<1> QED
  BY <1>4, <1>5

\* An item is in the list when it is there at least once.
LEMMA OftenIs ==
  ASSUME NEW s, Len(s) \in Nat, NEW x
  PROVE  Often(s, x) \in Nat /\ (Often(s, x) > 0 <=> \E k \in 1 .. Len(s) : s[k] = x)
<1> DEFINE A == {j \in 1 .. Len(s) : s[j] = x}
<1>1. IsFiniteSet(A)
  <2>1. IsFiniteSet(1 .. Len(s))
    BY FS_Interval
  <2> QED
    BY <2>1, FS_Subset
<1>2. Often(s, x) = Cardinality(A)
  BY DEF Often, Times
<1>3. A = {} <=> ~ \E k \in 1 .. Len(s) : s[k] = x
  OBVIOUS
<1> HIDE DEF A
<1>4. Cardinality(A) \in Nat /\ (Cardinality(A) = 0 <=> A = {})
  BY <1>1, FS_CardinalityType, FS_EmptySet
<1> QED
  BY <1>2, <1>3, <1>4

\* One element more is counted once more, wherever it is.
LEMMA OftenInserted ==
  ASSUME NEW s, Len(s) \in Nat, NEW p \in 1 .. Len(s) + 1, NEW e, NEW t, Inserted(t, s, p, e), NEW x
  PROVE  Often(t, x) = Often(s, x) + (IF x = e THEN 1 ELSE 0)
<1> DEFINE d == IF x = e THEN 1 ELSE 0
           L == Len(s)
           Fine(j) == /\ j < p => Times(t, j, x) = Times(s, j, x)
                      /\ j >= p - 1 => Times(t, j + 1, x) = Times(s, j, x) + d
           S == {j \in Nat : j <= L => Fine(j)}
<1>1. /\ Len(t) = L + 1 /\ t[p] = e /\ L \in Nat /\ p \in Nat /\ p >= 1 /\ d \in Nat
      /\ \A j \in 1 .. L : j < p => t[j] = s[j]
      /\ \A j \in 1 .. L : j >= p => t[j + 1] = s[j]
  BY DEF Inserted
<1>2. d = IF t[p] = x THEN 1 ELSE 0
  BY <1>1
<1> HIDE DEF d, L
<1>3. \A j \in Nat : Times(s, j, x) \in Nat /\ Times(t, j, x) \in Nat
  BY TimesNext
<1>4. 0 \in S
  <2>1. Times(t, 0, x) = 0 /\ Times(s, 0, x) = 0
    BY TimesNext
  <2>2. Times(t, 0 + 1, x) = Times(t, 0, x) + (IF t[0 + 1] = x THEN 1 ELSE 0)
    BY TimesNext
  <2>3. 0 >= p - 1 => p = 0 + 1
    BY <1>1
  <2> QED
    BY <1>1, <1>2, <2>1, <2>2, <2>3
<1>5. ASSUME NEW j \in Nat, j \in S PROVE j + 1 \in S
  <2> SUFFICES ASSUME j + 1 <= L PROVE Fine(j + 1)
    OBVIOUS
  <2> DEFINE k == j + 1
  <2>1. k \in 1 .. L /\ k \in Nat /\ j <= L /\ k = j + 1
    BY <1>1
  <2>2. Fine(j)
    BY <1>5, <2>1
  <2>3. /\ Times(s, k, x) = Times(s, j, x) + (IF s[k] = x THEN 1 ELSE 0)
        /\ Times(t, k, x) = Times(t, j, x) + (IF t[k] = x THEN 1 ELSE 0)
    BY TimesNext
  <2>4. Times(t, k + 1, x) = Times(t, k, x) + (IF t[k + 1] = x THEN 1 ELSE 0)
    BY <2>1, TimesNext
  <2> HIDE DEF k
  <2>5. /\ Times(s, j, x) \in Nat /\ Times(t, j, x) \in Nat
        /\ Times(s, k, x) \in Nat /\ Times(t, k, x) \in Nat /\ Times(t, k + 1, x) \in Nat
    <3>1. k + 1 \in Nat
      BY <2>1
    <3> QED
      BY <1>3, <2>1, <3>1
  <2>6. CASE k < p
    <3>1. t[k] = s[k] /\ j < p
      BY <1>1, <2>1, <2>6
    <3>2. Times(t, k, x) = Times(s, k, x)
      BY <2>2, <2>3, <3>1
    <3>3. k >= p - 1 => p = k + 1
      BY <1>1, <2>1, <2>6
    <3>4. k >= p - 1 => Times(t, k + 1, x) = Times(s, k, x) + d
      BY <1>2, <2>4, <3>2, <3>3
    <3>5. Fine(k)
      BY <3>2, <3>4
    <3> QED
      BY <2>1, <3>5
  <2>7. CASE ~ (k < p)
    <3>1. t[k + 1] = s[k] /\ j >= p - 1
      BY <1>1, <2>1, <2>7
    <3>2. Times(t, k, x) = Times(s, j, x) + d
      BY <2>1, <2>2, <3>1
    <3>3. Times(t, k + 1, x) = Times(s, k, x) + d
      <4> DEFINE y == IF s[k] = x THEN 1 ELSE 0
      <4>1. y \in Nat /\ d \in Nat
        BY <1>1
      <4>2. Times(s, k, x) = Times(s, j, x) + y /\ Times(t, k + 1, x) = Times(t, k, x) + y
        BY <2>3, <2>4, <3>1
      <4> HIDE DEF y
      <4> QED
        BY <2>5, <3>2, <4>1, <4>2
    <3>4. Fine(k)
      BY <2>7, <3>3
    <3> QED
      BY <2>1, <3>4
  <2> QED
    BY <2>6, <2>7
<1>6. Fine(L)
  <2> HIDE DEF Fine
  <2>1. \A j \in Nat : j \in S => j + 1 \in S
    BY <1>5
  <2>2. L <= L
    BY <1>1
  <2> HIDE DEF S
  <2>3. L \in S
    BY <1>1, <1>4, <2>1, NatInd
  <2> QED
    BY <2>2, <2>3 DEF S
<1>7. L >= p - 1
  BY <1>1 DEF L
<1> QED
  BY <1>1, <1>6, <1>7 DEF Often, L, d

\* The map that counts s.
CountsOf(s) == [i \in {x \in Items : Often(s, x) > 0} |-> Often(s, i)]
MapInv == m_List \in Seq(Items) /\ m_Map = CountsOf(m_List)

LEMMA AddCounts ==
  ASSUME MapInv, NEW e \in Items, AddMapRef(e),
         NEW t \in Seq(Items), NEW p \in 1 .. Len(m_List) + 1, Inserted(t, m_List, p, e)
  PROVE  m_Map' = CountsOf(t)
<1> DEFINE s == m_List
           m == m_Map
<1>1. s \in Seq(Items) /\ Len(s) \in Nat /\ Len(t) \in Nat /\ m = CountsOf(s)
  BY DEF MapInv
<1>2. \A x : Often(s, x) \in Nat /\ Often(t, x) = Often(s, x) + (IF x = e THEN 1 ELSE 0)
  BY <1>1, OftenInserted, OftenIs
<1>3. m' = [i \in DOMAIN m \cup {e} |->
             IF i # e THEN m[i] ELSE IF e \in DOMAIN m THEN m[e] + 1 ELSE 1]
  BY Zenon DEF AddMapRef, IsMapped
<1>4. /\ DOMAIN m = {x \in Items : Often(s, x) > 0}
      /\ \A x \in DOMAIN m : m[x] = Often(s, x)
  BY <1>1 DEF CountsOf
<1> HIDE DEF s, m
<1>5. \A x : x \in DOMAIN m \cup {e} <=> x \in Items /\ Often(t, x) > 0
  BY <1>2, <1>4
<1>6. \A i \in DOMAIN m \cup {e} :
        (IF i # e THEN m[i] ELSE IF e \in DOMAIN m THEN m[e] + 1 ELSE 1) = Often(t, i)
  BY <1>2, <1>4
<1>7. DOMAIN m \cup {e} = {x \in Items : Often(t, x) > 0}
  BY <1>5
<1>8. m' = [i \in {x \in Items : Often(t, x) > 0} |-> Often(t, i)]
  BY <1>3, <1>6, <1>7
<1> QED
  BY <1>8, Zenon DEF CountsOf, m

LEMMA RemoveCounts ==
  ASSUME MapInv, NEW t \in Seq(Items), NEW p \in 1 .. Len(m_List), NEW e, e = m_List[p],
         RemoveMapRef(e), Inserted(m_List, t, p, e)
  PROVE  m_Map' = CountsOf(t)
<1> DEFINE s == m_List
           m == m_Map
<1>1. s \in Seq(Items) /\ Len(s) \in Nat /\ Len(t) \in Nat /\ m = CountsOf(s) /\ e \in Items
  BY DEF MapInv
<1>2. p \in 1 .. Len(t) + 1
  BY <1>1 DEF Inserted
<1>3. \A x : Often(t, x) \in Nat /\ Often(s, x) = Often(t, x) + (IF x = e THEN 1 ELSE 0)
  BY <1>1, <1>2, OftenInserted, OftenIs
<1>4. /\ DOMAIN m = {x \in Items : Often(s, x) > 0}
      /\ \A x \in DOMAIN m : m[x] = Often(s, x)
      /\ m = [x \in DOMAIN m |-> m[x]]
  BY <1>1 DEF CountsOf
<1>5. m' = IF e \notin DOMAIN m THEN m
           ELSE IF m[e] = 1 THEN [i \in DOMAIN m \ {e} |-> m[i]]
           ELSE [m EXCEPT ![e] = m[e] - 1]
  BY Zenon DEF RemoveMapRef, IsMapped, Lacks
<1> HIDE DEF s, m
<1>6. e \in DOMAIN m /\ m[e] = Often(t, e) + 1
  BY <1>1, <1>3, <1>4
<1>7. \A x \in DOMAIN m : x # e => m[x] = Often(t, x)
  BY <1>3, <1>4
<1>8. CASE m[e] = 1
  <2>1. m' = [i \in DOMAIN m \ {e} |-> m[i]]
    BY <1>5, <1>6, <1>8
  <2>2. \A x : x \in DOMAIN m \ {e} <=> x \in Items /\ Often(t, x) > 0
    BY <1>3, <1>4, <1>6, <1>8
  <2>3. DOMAIN m \ {e} = {x \in Items : Often(t, x) > 0}
    BY <2>2
  <2>4. m' = [i \in {x \in Items : Often(t, x) > 0} |-> Often(t, i)]
    BY <1>7, <2>1, <2>3
  <2> QED
    BY <2>4, Zenon DEF CountsOf, m
<1>9. CASE m[e] # 1
  <2>1. m' = [m EXCEPT ![e] = m[e] - 1]
    BY <1>5, <1>6, <1>9
  <2>2. \A x : x \in DOMAIN m <=> x \in Items /\ Often(t, x) > 0
    BY <1>3, <1>4, <1>6, <1>9
  <2>3. DOMAIN m = {x \in Items : Often(t, x) > 0}
    BY <2>2
  <2>4. m[e] - 1 = Often(t, e)
    BY <1>3, <1>6
  <2>5. m' = [i \in DOMAIN m |-> Often(t, i)]
    BY <1>4, <1>6, <1>7, <2>1, <2>4
  <2>6. m' = [i \in {x \in Items : Often(t, x) > 0} |-> Often(t, i)]
    BY <2>3, <2>5
  <2> QED
    BY <2>6, Zenon DEF CountsOf, m
<1> QED
  BY <1>8, <1>9


\* f[k] is the list of the first k elements of s that are not e.
Kept1(u, a, e) == IF a = e THEN u ELSE Append(u, a)
Kept(f, s, e, n) == f = [k \in 0 .. n |-> IF k = 0 THEN <<>> ELSE Kept1(f[k - 1], s[k], e)]

LEMMA KeptExists ==
  ASSUME NEW s, NEW e, NEW n \in Nat PROVE \E f : Kept(f, s, e, n)
<1> DEFINE S == {d \in Nat : \E f : Kept(f, s, e, d)}
<1>1. 0 \in S
  <2> DEFINE f == [k \in 0 .. 0 |-> <<>>]
  <2>1. f = [k \in 0 .. 0 |-> IF k = 0 THEN <<>> ELSE Kept1(f[k - 1], s[k], e)]
    OBVIOUS
  <2>2. Kept(f, s, e, 0)
    BY <2>1, Zenon DEF Kept
  <2> QED
    BY <2>2
<1>2. ASSUME NEW d \in Nat, d \in S PROVE d + 1 \in S
  <2>1. PICK h : Kept(h, s, e, d)
    BY <1>2
  <2>2. h = [k \in 0 .. d |-> IF k = 0 THEN <<>> ELSE Kept1(h[k - 1], s[k], e)]
    BY <2>1, Zenon DEF Kept
  <2> DEFINE f == [k \in 0 .. d + 1 |-> IF k = 0 THEN <<>> ELSE Kept1(h[k - 1], s[k], e)]
  <2>3. \A k \in 0 .. d : f[k] = h[k]
    BY <2>2
  <2>4. \A k \in 0 .. d + 1 : k # 0 => k - 1 \in 0 .. d
    OBVIOUS
  <2>5. f = [k \in 0 .. d + 1 |-> IF k = 0 THEN <<>> ELSE Kept1(f[k - 1], s[k], e)]
    BY <2>3, <2>4
  <2> HIDE DEF f
  <2>6. Kept(f, s, e, d + 1)
    BY <2>5, Zenon DEF Kept
  <2> QED
    BY <2>6
<1> HIDE DEF S
<1>3. n \in S
  BY <1>1, <1>2, NatInd
<1> QED
  BY <1>3 DEF S

LEMMA OftenAppended ==
  ASSUME NEW s \in Seq(Items), NEW e \in Items
  PROVE  /\ Append(s, e) \in Seq(Items) /\ Inserted(Append(s, e), s, Len(s) + 1, e)
         /\ \A x : Often(Append(s, e), x) = Often(s, x) + (IF x = e THEN 1 ELSE 0)
<1> DEFINE t == Append(s, e)
<1>1. t \in Seq(Items) /\ Len(s) \in Nat /\ Len(s) + 1 \in 1 .. Len(s) + 1
  OBVIOUS
<1>2. Inserted(t, s, Len(s) + 1, e)
  BY DEF Inserted
<1> HIDE DEF t
<1>3. ASSUME NEW x PROVE Often(t, x) = Often(s, x) + (IF x = e THEN 1 ELSE 0)
  BY <1>1, <1>2, OftenInserted
<1> QED
  BY <1>1, <1>2, <1>3 DEF t

LEMMA KeptIs ==
  ASSUME NEW s \in Seq(Items), NEW e, NEW f, Kept(f, s, e, Len(s))
  PROVE  LET t == f[Len(s)]
         IN  t \in Seq(Items) /\ \A x : Often(t, x) = IF x = e THEN 0 ELSE Often(s, x)
<1> DEFINE L == Len(s)
           Fine(k) == /\ f[k] \in Seq(Items)
                      /\ \A x : Often(f[k], x) = IF x = e THEN 0 ELSE Times(s, k, x)
           S == {k \in Nat : k <= L => Fine(k)}
<1>1. L \in Nat /\ \A k \in 1 .. L : s[k] \in Items
  OBVIOUS
<1> HIDE DEF L
<1>2. /\ f[0] = <<>>
      /\ \A k \in 0 .. L : k # 0 => f[k] = Kept1(f[k - 1], s[k], e)
  <2>1. f = [k \in 0 .. L |-> IF k = 0 THEN <<>> ELSE Kept1(f[k - 1], s[k], e)]
    BY Zenon DEF Kept, L
  <2>2. 0 \in 0 .. L
    BY <1>1
  <2> QED
    BY <2>1, <2>2, Zenon
<1>3. 0 \in S
  <2>1. \A x : Times(s, 0, x) = 0 /\ Times(<<>>, 0, x) = 0
    BY TimesNext
  <2>2. \A x : Often(<<>>, x) = 0
    BY <2>1 DEF Often
  <2>3. <<>> \in Seq(Items)
    OBVIOUS
  <2>4. Fine(0)
    BY <1>2, <2>1, <2>2, <2>3
  <2> HIDE DEF Fine
  <2> QED
    BY <2>4
<1>4. ASSUME NEW j \in Nat, j \in S PROVE j + 1 \in S
  <2> SUFFICES ASSUME j + 1 <= L PROVE Fine(j + 1)
    OBVIOUS
  <2>1. j + 1 \in 0 .. L /\ j + 1 # 0 /\ (j + 1) - 1 = j /\ j <= L /\ j + 1 \in 1 .. L
    BY <1>1
  <2> DEFINE u == f[j]
             a == s[j + 1]
  <2>2. u \in Seq(Items) /\ \A x : Often(u, x) = IF x = e THEN 0 ELSE Times(s, j, x)
    BY <1>4, <2>1
  <2>3. f[j + 1] = IF a = e THEN u ELSE Append(u, a)
    BY <1>2, <2>1 DEF Kept1
  <2>4. \A x : Times(s, j + 1, x) = Times(s, j, x) + (IF a = x THEN 1 ELSE 0) /\ Times(s, j, x) \in Nat
    BY TimesNext
  <2>5. a \in Items
    BY <1>1, <2>1
  <2> HIDE DEF u, a
  <2>6. /\ Append(u, a) \in Seq(Items)
        /\ \A x : Often(Append(u, a), x) = Often(u, x) + (IF x = a THEN 1 ELSE 0)
    BY <2>2, <2>5, OftenAppended
  <2> QED
    BY <2>2, <2>3, <2>4, <2>6
<1>5. Fine(L)
  <2>1. L <= L
    BY <1>1
  <2> HIDE DEF S
  <2>2. L \in S
    BY <1>1, <1>3, <1>4, NatInd
  <2> QED
    BY <2>1, <2>2 DEF S
<1> QED
  BY <1>5 DEF L, Often

LEMMA RemoveAllCounts ==
  ASSUME MapInv, NEW e \in Items, RemoveAll(e)
  PROVE  m_List' \in Seq(Items) /\ m_Map' = CountsOf(m_List')
<1> DEFINE s == m_List
           m == m_Map
           f == CHOOSE x : Kept(x, s, e, Len(s))
           t == f[Len(s)]
<1>1. s \in Seq(Items) /\ Len(s) \in Nat /\ m = CountsOf(s)
  BY DEF MapInv
<1>2. Kept(f, s, e, Len(s))
  <2> HIDE DEF s
  <2> QED
    BY <1>1, KeptExists
<1>3. m_List' = t
  BY Zenon DEF RemoveAll, Kept, Kept1
<1>4. m' = [i \in DOMAIN m \ {e} |-> m[i]]
  BY Zenon DEF RemoveAll, Lacks
<1> HIDE DEF f, s
<1>5. t \in Seq(Items) /\ \A x : Often(t, x) = IF x = e THEN 0 ELSE Often(s, x)
  BY <1>1, <1>2, KeptIs
<1>6. /\ DOMAIN m = {x \in Items : Often(s, x) > 0}
      /\ \A x \in DOMAIN m : m[x] = Often(s, x)
  BY <1>1 DEF CountsOf
<1> HIDE DEF t, m
<1>7. \A x : x \in DOMAIN m \ {e} <=> x \in Items /\ Often(t, x) > 0
  BY <1>5, <1>6
<1>8. DOMAIN m \ {e} = {x \in Items : Often(t, x) > 0}
  BY <1>7
<1>9. \A x \in DOMAIN m \ {e} : m[x] = Often(t, x)
  BY <1>5, <1>6
<1>10. m' = [i \in {x \in Items : Often(t, x) > 0} |-> Often(t, i)]
  BY <1>4, <1>8, <1>9
<1>11. m' = CountsOf(t)
  BY <1>10, Zenon DEF CountsOf
<1> QED
  BY <1>3, <1>5, <1>11 DEF m

LEMMA MapInvInit == MapInit => MapInv
<1> SUFFICES ASSUME MapInit PROVE MapInv
  OBVIOUS
<1>1. \A x : Often(<<>>, x) = 0
  BY TimesNext DEF Often
<1>2. {x \in Items : Often(<<>>, x) > 0} = {}
  BY <1>1
<1>3. CountsOf(<<>>) = [i \in {} |-> 0]
  BY <1>2 DEF CountsOf
<1> QED
  BY <1>3 DEF MapInit, MapInv

LEMMA MapInvNext ==
  ASSUME MapInv, [MapNext]_<<m_List, m_Map>>
  PROVE  MapInv'
<1> DEFINE s == m_List
           t == m_List'
           L == Len(s)
<1>1. s \in Seq(Items) /\ L \in Nat
  BY DEF MapInv
<1>2. ASSUME t \in Seq(Items), m_Map' = CountsOf(t) PROVE MapInv'
  <2>1. CountsOf(m_List)' = CountsOf(m_List')
    BY DEF CountsOf, Often, Times
  <2> QED
    BY <1>2, <2>1 DEF MapInv
<1>3. ASSUME UNCHANGED <<m_List, m_Map>> PROVE MapInv'
  BY <1>3 DEF MapInv, CountsOf, Often, Times
<1>4. ASSUME NEW item \in Items, PushBack(item) PROVE MapInv'
  <2>1. t = Append(s, item) /\ AddMapRef(item)
    BY <1>4 DEF PushBack
  <2> DEFINE p == L + 1
  <2>2. t \in Seq(Items) /\ Inserted(t, s, p, item) /\ p \in 1 .. L + 1
    BY <1>1, <2>1, OftenAppended
  <2> HIDE DEF p, t
  <2>3. m_Map' = CountsOf(t)
    BY <2>1, <2>2, AddCounts
  <2> QED
    BY <1>2, <2>2, <2>3
<1>5. ASSUME NEW item \in Items, PushFront(item) PROVE MapInv'
  <2>1. t = <<item>> \o s /\ AddMapRef(item)
    BY <1>5 DEF PushFront
  <2>2. t \in Seq(Items) /\ Len(t) = L + 1 /\ t[1] = item /\ \A j \in 2 .. L + 1 : t[j] = s[j - 1]
    BY <1>1, <2>1, ConcatProperties
  <2> DEFINE p == 1
  <2>3. Inserted(t, s, p, item) /\ p \in 1 .. L + 1
    BY <1>1, <2>2 DEF Inserted
  <2> HIDE DEF p, t
  <2>4. m_Map' = CountsOf(t)
    BY <2>1, <2>2, <2>3, AddCounts
  <2> QED
    BY <1>2, <2>2, <2>4
<1>6. ASSUME s # <<>> PROVE L > 0
  BY <1>1, <1>6, EmptySeq
<1>7. ASSUME NEW p \in 1 .. L, RemoveMapRef(s[p]), t \in Seq(Items), Inserted(s, t, p, s[p])
      PROVE  MapInv'
  <2> DEFINE e == s[p]
  <2>1. e = m_List[p] /\ RemoveMapRef(e) /\ Inserted(m_List, t, p, e) /\ t \in Seq(Items)
    BY <1>7
  <2> HIDE DEF e, t
  <2>2. m_Map' = CountsOf(t)
    BY <2>1, RemoveCounts
  <2> QED
    BY <1>2, <2>1, <2>2
<1>8. ASSUME PopBack PROVE MapInv'
  <2>1. L > 0 /\ RemoveMapRef(s[L]) /\ t = SubSeq(s, 1, L - 1)
    BY <1>6, <1>8 DEF PopBack
  <2>2. t \in Seq(Items) /\ Len(t) = L - 1 /\ \A j \in 1 .. L - 1 : t[j] = s[j]
    <3> DEFINE m == L - 1
    <3>1. m \in Nat /\ m <= L /\ t = SubSeq(s, 1, m) /\ \A j \in 1 .. m : j \in 1 .. L
      BY <1>1, <2>1
    <3> HIDE DEF m
    <3>2. t \in Seq(Items) /\ Len(t) = m /\ \A j \in 1 .. m : t[j] = s[j]
      BY <1>1, <3>1
    <3> QED
      BY <3>2 DEF m
  <2>3. Inserted(s, t, L, s[L]) /\ L \in 1 .. L
    BY <1>1, <2>1, <2>2 DEF Inserted
  <2> QED
    BY <1>7, <2>1, <2>2, <2>3
<1>9. ASSUME PopFront PROVE MapInv'
  <2>1. L > 0 /\ RemoveMapRef(s[1]) /\ t = Tail(s)
    BY <1>6, <1>9 DEF PopFront
  <2>2. t \in Seq(Items) /\ Len(t) = L - 1 /\ \A j \in 1 .. L - 1 : t[j] = s[j + 1]
    BY <1>1, <2>1
  <2> HIDE DEF t
  <2>3. Inserted(s, t, 1, s[1]) /\ 1 \in 1 .. L
    <3>1. Len(s) = Len(t) + 1
      BY <1>1, <2>2
    <3>2. ASSUME NEW j \in 1 .. Len(t) + 1
          PROVE  s[j] = IF j < 1 THEN t[j] ELSE IF j = 1 THEN s[1] ELSE t[j - 1]
      <4>1. j # 1 => j - 1 \in 1 .. L - 1 /\ (j - 1) + 1 = j
        BY <1>1, <3>1
      <4>2. j # 1 => t[j - 1] = s[j]
        BY <2>2, <4>1
      <4> QED
        BY <4>2
    <3> QED
      BY <1>1, <2>1, <3>1, <3>2 DEF Inserted
  <2> QED
    BY <1>7, <2>1, <2>2, <2>3
<1>10. ASSUME NEW k \in DOMAIN m_List, EraseAt(k) PROVE MapInv'
  <2>1. k \in 1 .. L /\ RemoveMapRef(s[k]) /\ t = RemoveAt(s, k)
    BY <1>1, <1>10 DEF EraseAt
  <2>2. t \in Seq(Items) /\ Len(t) = L - 1
        /\ \A j \in 1 .. L - 1 : t[j] = IF j < k THEN s[j] ELSE s[j + 1]
    BY <1>1, <2>1, RemoveAtIs
  <2>3. Inserted(s, t, k, s[k])
    <3>1. Len(s) = Len(t) + 1
      BY <1>1, <2>2
    <3>2. ASSUME NEW j \in 1 .. Len(t) + 1
          PROVE  s[j] = IF j < k THEN t[j] ELSE IF j = k THEN s[k] ELSE t[j - 1]
      BY <1>1, <2>1, <2>2, <3>1
    <3> QED
      BY <3>1, <3>2 DEF Inserted
  <2> QED
    BY <1>7, <2>1, <2>2, <2>3
<1>11. ASSUME MapClear PROVE MapInv'
  <2>1. t = <<>> /\ m_Map' = [i \in {} |-> 0]
    BY <1>11 DEF MapClear
  <2>2. \A x : Often(<<>>, x) = 0
    BY TimesNext DEF Often
  <2>3. {x \in Items : Often(<<>>, x) > 0} = {}
    BY <2>2
  <2>4. m_Map' = CountsOf(<<>>)
    BY <2>1, <2>3 DEF CountsOf
  <2> QED
    BY <1>2, <2>1, <2>4
<1>12. ASSUME NEW item \in Items, RemoveAll(item) PROVE MapInv'
  BY <1>2, <1>12, RemoveAllCounts
<1> QED
  BY <1>3, <1>4, <1>5, <1>8, <1>9, <1>10, <1>11, <1>12 DEF MapNext

LEMMA MapInvMeans == MapInv => MapCountsList
<1> SUFFICES ASSUME MapInv PROVE MapCountsList
  OBVIOUS
<1> DEFINE s == m_List
<1>1. s \in Seq(Items) /\ Len(s) \in Nat /\ DOMAIN s = 1 .. Len(s) /\ m_Map = CountsOf(s)
      /\ \A k \in 1 .. Len(s) : s[k] \in Items
  BY DEF MapInv
<1>2. \A x : Often(s, x) > 0 <=> \E k \in 1 .. Len(s) : s[k] = x
  BY <1>1, OftenIs
<1>3. \A x : x \in Range(s) <=> \E k \in 1 .. Len(s) : s[k] = x
  BY <1>1 DEF Range
<1>4. {x \in Items : Often(s, x) > 0} = Range(s)
  <2>1. \A x : x \in {y \in Items : Often(s, y) > 0} <=> x \in Range(s)
    <3> HIDE DEF s
    <3> QED
      BY <1>1, <1>2, <1>3
  <2> QED
    BY <2>1
<1>5. \A x : Often(s, x) = Cardinality(Occurrences(x))
  <2>1. \A x : {k \in 1 .. Len(s) : s[k] = x} = Occurrences(x)
    BY <1>1 DEF Occurrences
  <2> QED
    BY <2>1 DEF Often, Times
<1> QED
  BY <1>1, <1>4, <1>5 DEF MapCountsList, CountsOf

\* Contains() may trust the map: after any sequence of additions and removals, at both ends,
\* by position and by value, it holds exactly the items of the list and how often each is
\* there, for any items and any length of the list.
THEOREM MapAlwaysCounts == MapSpec => []MapCountsList
<1>1. MapInit => MapInv
  BY MapInvInit
<1>2. MapInv /\ [MapNext]_<<m_List, m_Map>> => MapInv'
  BY MapInvNext
<1>3. MapInv => MapCountsList
  BY MapInvMeans
<1> QED
  BY <1>1, <1>2, <1>3, PTL DEF MapSpec

(***************************************************************************)
(* The table and its file.                                                 *)
(***************************************************************************)
Steps(f, n, V, v, step) ==
  f \in [0 .. n -> V] /\ f[0] = v /\ \A k \in 1 .. n : f[k] = step[k][f[k - 1]]

\* A function that goes on from its value before exists.
LEMMA StepsExist ==
  ASSUME NEW n \in Nat, NEW V, NEW v \in V, NEW step \in [1 .. n -> [V -> V]]
  PROVE  \E f : Steps(f, n, V, v, step)
<1> DEFINE S == {j \in Nat : j <= n => \E f : Steps(f, j, V, v, step)}
<1>1. 0 \in S
  <2> DEFINE f == [k \in 0 .. 0 |-> v]
  <2>1. f \in [0 .. 0 -> V] /\ f[0] = v /\ 1 .. 0 = {}
    OBVIOUS
  <2> HIDE DEF f
  <2>2. Steps(f, 0, V, v, step)
    BY <2>1 DEF Steps
  <2> QED
    BY <2>2
<1>2. ASSUME NEW j \in Nat, j \in S PROVE j + 1 \in S
  <2> SUFFICES ASSUME j + 1 <= n PROVE \E f : Steps(f, j + 1, V, v, step)
    OBVIOUS
  <2>1. PICK f : Steps(f, j, V, v, step)
    BY <1>2
  <2> DEFINE g == [k \in 0 .. j + 1 |-> IF k = j + 1 THEN step[j + 1][f[j]] ELSE f[k]]
  <2>2. f \in [0 .. j -> V] /\ f[0] = v /\ \A k \in 1 .. j : f[k] = step[k][f[k - 1]]
    BY <2>1 DEF Steps
  <2>3. step[j + 1][f[j]] \in V
    <3>1. j + 1 \in 1 .. n /\ f[j] \in V
      BY <2>2
    <3>2. step[j + 1] \in [V -> V]
      BY <3>1
    <3> QED
      BY <3>1, <3>2
  <2>4. /\ g \in [0 .. j + 1 -> V] /\ g[j + 1] = step[j + 1][f[j]]
        /\ \A k \in 0 .. j : g[k] = f[k]
    BY <2>2, <2>3
  <2> HIDE DEF g
  <2>5. ASSUME NEW k \in 1 .. j + 1 PROVE g[k] = step[k][g[k - 1]]
    <3>1. k - 1 \in 0 .. j
      OBVIOUS
    <3>2. g[k - 1] = f[k - 1]
      BY <2>4, <3>1
    <3>3. CASE k = j + 1
      <4>1. k - 1 = j
        BY <3>3
      <4> QED
        BY <2>4, <3>2, <3>3, <4>1
    <3>4. CASE k \in 1 .. j
      <4>1. g[k] = f[k] /\ f[k] = step[k][f[k - 1]]
        BY <2>2, <2>4, <3>4
      <4> QED
        BY <3>2, <4>1
    <3> QED
      BY <3>3, <3>4
  <2>6. g[0] = v
    BY <2>2, <2>4
  <2>7. Steps(g, j + 1, V, v, step)
    BY <2>4, <2>5, <2>6 DEF Steps
  <2> QED
    BY <2>7
<1> HIDE DEF S
<1>3. n \in S
  BY <1>1, <1>2, NatInd
<1> QED
  BY <1>3 DEF S

\* f puts the parts one behind the other.
Joins(f, n, first, parts) == f[0] = first /\ \A k \in 1 .. n : f[k] = f[k - 1] \o parts[k]

LEMMA JoinsExist ==
  ASSUME NEW T, NEW n \in Nat, NEW first \in Seq(T), NEW parts \in [1 .. n -> Seq(T)]
  PROVE  \E f : f \in [0 .. n -> Seq(T)] /\ Joins(f, n, first, parts)
<1> DEFINE V == Seq(T)
           step == [k \in 1 .. n |-> [a \in V |-> a \o parts[k]]]
<1>1. step \in [1 .. n -> [V -> V]]
  <2>1. ASSUME NEW k \in 1 .. n, NEW a \in V PROVE a \o parts[k] \in V
    <3>1. parts[k] \in V
      OBVIOUS
    <3> QED
      BY <3>1, ConcatProperties
  <2> QED
    BY <2>1
<1>2. \A k \in 1 .. n, a \in V : step[k][a] = a \o parts[k]
  OBVIOUS
<1> HIDE DEF step, V
<1>3. PICK f : Steps(f, n, V, first, step)
  BY <1>1, StepsExist DEF V
<1>4. f \in [0 .. n -> V] /\ f[0] = first
  BY <1>3 DEF Steps
<1>5. ASSUME NEW k \in 1 .. n PROVE f[k] = f[k - 1] \o parts[k]
  <2>1. f[k - 1] \in V
    BY <1>4
  <2> QED
    BY <1>2, <1>3, <2>1 DEF Steps
<1> QED
  BY <1>4, <1>5 DEF Joins, V

\* Part k ends at place at[k] of the whole s.
Ends(at, n, first, parts) ==
  at \in [0 .. n -> Nat] /\ at[0] = Len(first) /\ \A k \in 1 .. n : at[k] = at[k - 1] + Len(parts[k])
Whole(s, T, n, first, parts, at) ==
  /\ s \in Seq(T) /\ Len(s) = at[n]
  /\ \A i \in 1 .. Len(first) : s[i] = first[i]
  /\ \A k \in 1 .. n : \A j \in 1 .. Len(parts[k]) :
       at[k - 1] + j \in 1 .. at[n] /\ s[at[k - 1] + j] = parts[k][j]

LEMMA JoinsAre ==
  ASSUME NEW T, NEW n \in Nat, NEW first \in Seq(T), NEW parts \in [1 .. n -> Seq(T)],
         NEW f, Joins(f, n, first, parts), NEW at, Ends(at, n, first, parts)
  PROVE  Whole(f[n], T, n, first, parts, at)
<1> DEFINE Fine(m) == /\ f[m] \in Seq(T) /\ Len(f[m]) = at[m]
                      /\ Len(first) <= at[m] /\ \A i \in 1 .. Len(first) : f[m][i] = first[i]
                      /\ \A k \in 1 .. m : \A j \in 1 .. Len(parts[k]) :
                           at[k - 1] + j \in 1 .. at[m] /\ f[m][at[k - 1] + j] = parts[k][j]
           S == {m \in Nat : m <= n => Fine(m)}
<1>1. /\ f[0] = first /\ \A k \in 1 .. n : f[k] = f[k - 1] \o parts[k]
      /\ at \in [0 .. n -> Nat] /\ at[0] = Len(first)
      /\ \A k \in 1 .. n : at[k] = at[k - 1] + Len(parts[k])
  BY DEF Joins, Ends
<1>2. Len(first) \in Nat /\ \A k \in 1 .. n : parts[k] \in Seq(T) /\ Len(parts[k]) \in Nat
  OBVIOUS
<1>3. 0 \in S
  BY <1>1, <1>2
<1> HIDE DEF Fine
<1>4. ASSUME NEW m \in Nat, m \in S PROVE m + 1 \in S
  <2> SUFFICES ASSUME m + 1 <= n PROVE Fine(m + 1)
    OBVIOUS
  <2> DEFINE a == f[m]
             b == parts[m + 1]
             c == f[m + 1]
             x == at[m]
             y == at[m + 1]
  <2>1. m + 1 \in 1 .. n /\ (m + 1) - 1 = m /\ m <= n /\ m \in 0 .. n /\ m + 1 \in 0 .. n
    OBVIOUS
  <2>2. Fine(m)
    BY <1>4, <2>1
  <2> USE DEF Fine
  <2>3. c = a \o b /\ b \in Seq(T) /\ Len(b) \in Nat /\ y = x + Len(b) /\ x \in Nat /\ y \in Nat
    BY <1>1, <1>2, <2>1
  <2>4. a \in Seq(T) /\ Len(a) = x /\ Len(first) <= x
        /\ \A i \in 1 .. Len(first) : a[i] = first[i]
    BY <2>2
  <2>5. \A k \in 1 .. m : \A j \in 1 .. Len(parts[k]) :
          at[k - 1] + j \in 1 .. x /\ a[at[k - 1] + j] = parts[k][j]
    BY <2>2
  <2> HIDE DEF a, b, c, x, y
  <2>6. /\ c \in Seq(T) /\ Len(c) = x + Len(b)
        /\ \A i \in 1 .. x : c[i] = a[i]
        /\ \A i \in 1 .. Len(b) : c[x + i] = b[i]
    <3>1. /\ a \o b \in Seq(T) /\ Len(a \o b) = Len(a) + Len(b)
          /\ \A i \in 1 .. Len(a) + Len(b) : (a \o b)[i] = IF i <= Len(a) THEN a[i] ELSE b[i - Len(a)]
      BY <2>3, <2>4, ConcatProperties
    <3>2. c \in Seq(T) /\ Len(c) = x + Len(b)
      BY <2>3, <2>4, <3>1
    <3>3. \A i \in 1 .. x + Len(b) : c[i] = IF i <= x THEN a[i] ELSE b[i - x]
      BY <2>3, <2>4, <3>1
    <3>4. ASSUME NEW i \in 1 .. x PROVE c[i] = a[i]
      <4>1. i \in 1 .. x + Len(b) /\ i <= x
        BY <2>3
      <4> QED
        BY <3>3, <4>1
    <3>5. ASSUME NEW i \in 1 .. Len(b) PROVE c[x + i] = b[i]
      <4>1. x + i \in 1 .. x + Len(b) /\ ~ (x + i <= x) /\ (x + i) - x = i
        BY <2>3
      <4> QED
        BY <3>3, <4>1
    <3> QED
      BY <3>2, <3>4, <3>5
  <2>7. Len(c) = y /\ Len(first) <= y /\ \A i \in 1 .. Len(first) : c[i] = first[i]
    BY <1>2, <2>3, <2>4, <2>6
  <2>8. ASSUME NEW k \in 1 .. m + 1, NEW j \in 1 .. Len(parts[k])
        PROVE  at[k - 1] + j \in 1 .. y /\ c[at[k - 1] + j] = parts[k][j]
    <3>1. CASE k \in 1 .. m
      <4>1. at[k - 1] + j \in 1 .. x /\ a[at[k - 1] + j] = parts[k][j]
        BY <2>5, <3>1
      <4> HIDE <3>1
      <4> QED
        BY <2>3, <2>6, <4>1
    <3>2. CASE k = m + 1
      <4>1. at[k - 1] = x /\ parts[k] = b
        BY <2>1, <3>2 DEF x, b
      <4>2. j \in 1 .. Len(b)
        BY <4>1
      <4>3. x + j \in 1 .. y
        BY <2>3, <4>2
      <4>4. c[x + j] = b[j]
        BY <2>6, <4>2
      <4> QED
        BY <4>1, <4>3, <4>4
    <3> QED
      BY <3>1, <3>2
  <2> QED
    BY <2>6, <2>7, <2>8 DEF c, y
<1>5. n \in S
  <2> HIDE DEF S
  <2> QED
    BY <1>3, <1>4, NatInd
<1>6. Fine(n)
  BY <1>5
<1> QED
  BY <1>6 DEF Fine, Whole

FileItems == {MAGIC} \cup Nat \cup (SUBSET Columns) \cup Values

\* How many values the first k groups hold.
Upto(gs, n, k) == Rank(Assigned(gs, n), k * GROUP_SIZE)

LEMMA UptoIs ==
  ASSUME NEW gs, NEW n, GoodGroups(gs, n)
  PROVE  /\ Upto(gs, n, 0) = 0 /\ Upto(gs, n, Len(gs)) = Cardinality(Assigned(gs, n))
         /\ \A k \in 0 .. Len(gs) : Upto(gs, n, k) \in Nat
                                    /\ Upto(gs, n, k) <= Cardinality(Assigned(gs, n))
         /\ \A k \in 1 .. Len(gs) : /\ gs[k].num_buckets \in Nat
                                    /\ Upto(gs, n, k) = Upto(gs, n, k - 1) + gs[k].num_buckets
<1> DEFINE L == Len(gs)
           A == Assigned(gs, n)
<1>1. L \in Nat /\ n \in Nat /\ UpTo(A, n) /\ 0 \in 0 .. GROUP_SIZE
  BY AssignedUpTo, Constants DEF GoodGroups
<1>2. Upto(gs, n, 0) = 0 /\ Upto(gs, n, L) = Cardinality(A)
  BY AllRows DEF Upto
<1>3. ASSUME NEW k \in 0 .. L PROVE Upto(gs, n, k) \in Nat /\ Upto(gs, n, k) <= Cardinality(A)
  <2>1. k * GROUP_SIZE \in Nat
    BY <1>1, Multiples
  <2> QED
    BY <1>1, <2>1, RankIs DEF Upto
<1>4. ASSUME NEW k \in 1 .. L
      PROVE  gs[k].num_buckets \in Nat /\ Upto(gs, n, k) = Upto(gs, n, k - 1) + gs[k].num_buckets
  BY <1>1, RowCount DEF Upto
<1> QED
  BY <1>2, <1>3, <1>4

LEMMA MetadataIs ==
  ASSUME GoodTable(groups, table_size, num_buckets)
  PROVE  LET L == Len(groups)
         IN  /\ Metadata \in Seq(FileItems) /\ Len(Metadata) = HeaderItems + 2 * L
             /\ Metadata[1] = MAGIC /\ Metadata[2] = table_size /\ Metadata[3] = num_buckets
             /\ \A k \in 1 .. L : /\ Metadata[CountAt(k)] = groups[k].num_buckets
                                  /\ Metadata[BitmapAt(k)] = groups[k].bitmap
<1> DEFINE L == Len(groups)
           first == <<MAGIC, table_size, num_buckets>>
           part(k) == <<groups[k].num_buckets, groups[k].bitmap>>
           parts == [k \in 1 .. L |-> part(k)]
           Made(f) == f = [k \in 0 .. L |-> IF k = 0 THEN first ELSE f[k - 1] \o part(k)]
           f == CHOOSE x : Made(x)
           at == [k \in 0 .. L |-> HeaderItems + 2 * k]
<1>1. Metadata = f[L]
  BY Zenon DEF Metadata
<1>2. /\ L \in Nat /\ table_size \in Nat /\ num_buckets \in Nat
      /\ \A k \in 1 .. L : groups[k].num_buckets \in Nat /\ groups[k].bitmap \in SUBSET Columns
  <2>1. GoodGroups(groups, table_size) /\ num_buckets = Cardinality(Assigned(groups, table_size))
    BY DEF GoodTable
  <2>2. num_buckets \in Nat
    BY <2>1, AssignedFinite DEF GoodGroups
  <2> QED
    BY <2>1, <2>2 DEF GoodGroups, GoodGroup, GroupType, Columns
<1>3. /\ first \in Seq(FileItems) /\ Len(first) = 3
      /\ first[1] = MAGIC /\ first[2] = table_size /\ first[3] = num_buckets
  BY <1>2 DEF FileItems
<1>4. ASSUME NEW k \in 1 .. L
      PROVE  /\ part(k) \in Seq(FileItems) /\ Len(part(k)) = 2
             /\ part(k)[1] = groups[k].num_buckets /\ part(k)[2] = groups[k].bitmap
  <2>1. groups[k].num_buckets \in FileItems /\ groups[k].bitmap \in FileItems
    BY <1>2 DEF FileItems
  <2> QED
    BY <2>1
<1> HIDE DEF first, part, L
<1>5. parts \in [1 .. L -> Seq(FileItems)] /\ \A k \in 1 .. L : parts[k] = part(k)
  BY <1>4
<1> HIDE DEF parts
<1>6. PICK g : g \in [0 .. L -> Seq(FileItems)] /\ Joins(g, L, first, parts)
  BY <1>2, <1>3, <1>5, JoinsExist
<1>7. g \in [0 .. L -> Seq(FileItems)] /\ g[0] = first
  BY <1>6 DEF Joins
<1>8. ASSUME NEW k \in 0 .. L, k # 0 PROVE g[k] = g[k - 1] \o part(k)
  <2>1. k \in 1 .. L
    BY <1>2, <1>8
  <2> QED
    BY <1>5, <1>6, <2>1 DEF Joins
<1>9. Made(g)
  BY <1>7, <1>8
<1>10. Made(f)
  <2> HIDE DEF Made
  <2> QED
    BY <1>9, Zenon
<1> HIDE DEF f
<1>11. f[0] = first /\ \A k \in 1 .. L : f[k] = f[k - 1] \o part(k)
  <2>1. 0 \in 0 .. L /\ \A k \in 1 .. L : k \in 0 .. L /\ k # 0
    BY <1>2
  <2> QED
    BY <1>10, <2>1, Zenon
<1>12. Joins(f, L, first, parts)
  BY <1>5, <1>11 DEF Joins
<1>13. /\ at \in [0 .. L -> Nat] /\ at[0] = 3 /\ at[L] = 3 + 2 * L
       /\ \A k \in 1 .. L : at[k] = 3 + 2 * k /\ at[k - 1] = 3 + 2 * (k - 1)
  BY <1>2 DEF HeaderItems
<1> HIDE DEF at, Made
<1>a. at[0] = Len(first)
  BY <1>3, <1>13
<1>b. \A k \in 1 .. L : at[k] = at[k - 1] + Len(parts[k])
  <2> SUFFICES ASSUME NEW k \in 1 .. L PROVE at[k] = at[k - 1] + Len(parts[k])
    OBVIOUS
  <2>1. Len(parts[k]) = 2
    BY <1>4, <1>5
  <2>2. at[k] = 3 + 2 * k /\ at[k - 1] = 3 + 2 * (k - 1)
    BY <1>13
  <2>3. k \in Nat
    BY <1>2
  <2> QED
    BY <2>1, <2>2, <2>3
<1>c. Ends(at, L, first, parts)
  BY <1>13, <1>a, <1>b DEF Ends
<1>d. Whole(f[L], FileItems, L, first, parts, at)
  BY <1>2, <1>3, <1>5, <1>12, <1>c, JoinsAre
<1>14. /\ f[L] \in Seq(FileItems) /\ Len(f[L]) = at[L]
       /\ \A i \in 1 .. Len(first) : f[L][i] = first[i]
       /\ \A k \in 1 .. L : \A j \in 1 .. Len(parts[k]) :
            at[k - 1] + j \in 1 .. at[L] /\ f[L][at[k - 1] + j] = parts[k][j]
  BY <1>d DEF Whole
<1>15. ASSUME NEW k \in 1 .. L
       PROVE  f[L][CountAt(k)] = groups[k].num_buckets /\ f[L][BitmapAt(k)] = groups[k].bitmap
  <2>1. 1 \in 1 .. Len(parts[k]) /\ 2 \in 1 .. Len(parts[k])
    BY <1>4, <1>5
  <2>2. f[L][at[k - 1] + 1] = parts[k][1] /\ f[L][at[k - 1] + 2] = parts[k][2]
    BY <1>14, <2>1
  <2>3. at[k - 1] = 3 + 2 * (k - 1) /\ k \in Nat
    BY <1>2, <1>13
  <2>4. at[k - 1] + 1 = CountAt(k) /\ at[k - 1] + 2 = BitmapAt(k)
    BY <2>3 DEF CountAt, BitmapAt, HeaderItems
  <2> QED
    BY <1>4, <1>5, <2>2, <2>4
<1>16. f[L][1] = MAGIC /\ f[L][2] = table_size /\ f[L][3] = num_buckets
  BY <1>3, <1>14
<1> QED
  BY <1>1, <1>13, <1>14, <1>15, <1>16 DEF L, HeaderItems

LEMMA DataIs ==
  ASSUME GoodTable(groups, table_size, num_buckets)
  PROVE  /\ Data \in Seq(FileItems) /\ Len(Data) = num_buckets
         /\ \A k \in 1 .. Len(groups) : \A j \in 1 .. groups[k].num_buckets :
              Data[Upto(groups, table_size, k - 1) + j] = groups[k].group[j]
<1> DEFINE L == Len(groups)
           parts == [k \in 1 .. L |-> groups[k].group]
           Made(f) == f = [k \in 0 .. L |-> IF k = 0 THEN <<>> ELSE f[k - 1] \o groups[k].group]
           f == CHOOSE x : Made(x)
           at == [k \in 0 .. L |-> Upto(groups, table_size, k)]
           first == <<>>
<1>1. Data = f[L]
  BY Zenon DEF Data
<1>2. /\ L \in Nat /\ num_buckets = Cardinality(Assigned(groups, table_size))
      /\ \A k \in 1 .. L : /\ groups[k].group \in Seq(FileItems)
                           /\ groups[k].num_buckets = Len(groups[k].group)
  <2>1. GoodGroups(groups, table_size) /\ num_buckets = Cardinality(Assigned(groups, table_size))
    BY DEF GoodTable
  <2>2. ASSUME NEW k \in 1 .. L
        PROVE  groups[k].group \in Seq(Values) /\ groups[k].num_buckets = Len(groups[k].group)
    BY <2>1 DEF GoodGroups, GoodGroup, GroupType
  <2>3. Values \subseteq FileItems
    BY DEF FileItems
  <2>4. ASSUME NEW s \in Seq(Values) PROVE s \in Seq(FileItems)
    BY <2>3
  <2> QED
    BY <2>1, <2>2, <2>4 DEF GoodGroups
<1> HIDE DEF L
<1>3. parts \in [1 .. L -> Seq(FileItems)] /\ \A k \in 1 .. L : parts[k] = groups[k].group
  BY <1>2
<1> HIDE DEF parts
<1>4. <<>> \in Seq(FileItems) /\ Len(<<>>) = 0
  OBVIOUS
<1>5. PICK g : g \in [0 .. L -> Seq(FileItems)] /\ Joins(g, L, <<>>, parts)
  BY <1>2, <1>3, <1>4, JoinsExist
<1>6. g \in [0 .. L -> Seq(FileItems)] /\ g[0] = <<>>
  BY <1>5 DEF Joins
<1>7. ASSUME NEW k \in 0 .. L, k # 0 PROVE g[k] = g[k - 1] \o groups[k].group
  <2>1. k \in 1 .. L
    BY <1>2, <1>7
  <2> QED
    BY <1>3, <1>5, <2>1 DEF Joins
<1>8. Made(g)
  BY <1>6, <1>7
<1>9. Made(f)
  <2> HIDE DEF Made
  <2> QED
    BY <1>8, Zenon
<1> HIDE DEF f
<1>10. f[0] = <<>> /\ \A k \in 1 .. L : f[k] = f[k - 1] \o groups[k].group
  <2>1. 0 \in 0 .. L /\ \A k \in 1 .. L : k \in 0 .. L /\ k # 0
    BY <1>2
  <2> QED
    BY <1>9, <2>1, Zenon
<1>11. Joins(f, L, first, parts)
  BY <1>3, <1>10 DEF Joins
<1>12. /\ at \in [0 .. L -> Nat] /\ at[0] = Len(<<>>) /\ at[L] = num_buckets
       /\ \A k \in 1 .. L : at[k] = at[k - 1] + Len(parts[k]) /\ at[k - 1] = Upto(groups, table_size, k - 1)
  <2>1. /\ Upto(groups, table_size, 0) = 0 /\ Upto(groups, table_size, L) = num_buckets
        /\ \A k \in 0 .. L : Upto(groups, table_size, k) \in Nat
        /\ \A k \in 1 .. L : Upto(groups, table_size, k)
                               = Upto(groups, table_size, k - 1) + groups[k].num_buckets
    BY <1>2, UptoIs DEF GoodTable, L
  <2>2. \A k \in 1 .. L : Len(parts[k]) = groups[k].num_buckets /\ k \in 0 .. L /\ k - 1 \in 0 .. L
    BY <1>2, <1>3
  <2>3. 0 \in 0 .. L /\ L \in 0 .. L
    BY <1>2
  <2> QED
    BY <1>4, <2>1, <2>2, <2>3
<1>a. at \in [0 .. L -> Nat] /\ at[0] = Len(first) /\ first \in Seq(FileItems)
  BY <1>4, <1>12
<1>b. \A k \in 1 .. L : at[k] = at[k - 1] + Len(parts[k])
  BY <1>12
<1> HIDE DEF at, first, Made
<1>c. Ends(at, L, first, parts)
  BY <1>a, <1>b DEF Ends
<1>d. Whole(f[L], FileItems, L, first, parts, at)
  BY <1>2, <1>3, <1>11, <1>a, <1>c, JoinsAre
<1>13. /\ f[L] \in Seq(FileItems) /\ Len(f[L]) = at[L]
       /\ \A k \in 1 .. L : \A j \in 1 .. Len(parts[k]) :
            at[k - 1] + j \in 1 .. at[L] /\ f[L][at[k - 1] + j] = parts[k][j]
  BY <1>d DEF Whole
<1>14. ASSUME NEW k \in 1 .. L, NEW j \in 1 .. groups[k].num_buckets
       PROVE  f[L][Upto(groups, table_size, k - 1) + j] = groups[k].group[j]
  <2>1. j \in 1 .. Len(parts[k]) /\ parts[k] = groups[k].group
    BY <1>2, <1>3
  <2> QED
    BY <1>12, <1>13, <2>1
<1> QED
  BY <1>1, <1>12, <1>13, <1>14 DEF L

\* The file f is the beginning of what is written of the table gs.
FileOf(f, gs, n, c) ==
  /\ f \in Seq(FileItems) /\ Len(f) <= 3 + 2 * Len(gs) + c
  /\ Len(f) >= 1 => f[1] = MAGIC
  /\ Len(f) >= 2 => f[2] = n
  /\ Len(f) >= 3 => f[3] = c
  /\ \A k \in 1 .. Len(gs) : /\ CountAt(k) <= Len(f) => f[CountAt(k)] = gs[k].num_buckets
                             /\ BitmapAt(k) <= Len(f) => f[BitmapAt(k)] = gs[k].bitmap
  /\ \A k \in 1 .. Len(gs) : \A j \in 1 .. gs[k].num_buckets :
       3 + 2 * Len(gs) + Upto(gs, n, k - 1) + j <= Len(f)
       => f[3 + 2 * Len(gs) + Upto(gs, n, k - 1) + j] = gs[k].group[j]

Begins(h, m, f) == h \in Seq(FileItems) /\ Len(h) = m /\ \A i \in 1 .. m : h[i] = f[i]

LEMMA BeginningIs ==
  ASSUME NEW f \in Seq(FileItems), NEW m \in 0 .. Len(f)
  PROVE  Begins(SubSeq(f, 1, m), m, f)
<1>1. m \in Int /\ 1 \in Int /\ m - 1 + 1 = m /\ (IF 1 <= m THEN m ELSE 0) = m
  OBVIOUS
<1>2. \A i \in 1 .. m : f[i] \in FileItems
  OBVIOUS
<1>3. /\ SubSeq(f, 1, m) \in Seq(FileItems)
      /\ Len(SubSeq(f, 1, m)) = IF 1 <= m THEN m - 1 + 1 ELSE 0
      /\ \A i \in 1 .. m - 1 + 1 : SubSeq(f, 1, m)[i] = f[1 + i - 1]
  BY <1>1, <1>2, SubSeqProperties
<1>4. ASSUME NEW i \in 1 .. m PROVE SubSeq(f, 1, m)[i] = f[i]
  <2>1. 1 + i - 1 = i
    OBVIOUS
  <2> QED
    BY <1>1, <1>3, <2>1
<1> QED
  BY <1>1, <1>3, <1>4 DEF Begins

LEMMA ShorterFile ==
  ASSUME NEW gs, NEW n, NEW c, GoodTable(gs, n, c), NEW f, FileOf(f, gs, n, c),
         NEW m \in 0 .. Len(f), NEW h, Begins(h, m, f)
  PROVE  FileOf(h, gs, n, c)
<1>1. /\ h \in Seq(FileItems) /\ Len(h) = m /\ \A i \in 1 .. m : h[i] = f[i]
      /\ Len(f) \in Nat /\ m \in Nat /\ m <= Len(f)
  BY DEF Begins, FileOf
<1>2. Len(gs) \in Nat /\ c \in Nat /\ Len(f) <= 3 + 2 * Len(gs) + c
  BY AssignedFinite DEF GoodTable, GoodGroups, FileOf
<1>3. /\ Len(h) >= 1 => h[1] = MAGIC
      /\ Len(h) >= 2 => h[2] = n
      /\ Len(h) >= 3 => h[3] = c
  BY <1>1 DEF FileOf
<1>4. ASSUME NEW k \in 1 .. Len(gs)
      PROVE  /\ CountAt(k) <= Len(h) => h[CountAt(k)] = gs[k].num_buckets
             /\ BitmapAt(k) <= Len(h) => h[BitmapAt(k)] = gs[k].bitmap
  <2>1. CountAt(k) \in Nat /\ CountAt(k) >= 1 /\ BitmapAt(k) \in Nat /\ BitmapAt(k) >= 1
    BY <1>2 DEF CountAt, BitmapAt, HeaderItems
  <2>2. /\ CountAt(k) <= Len(f) => f[CountAt(k)] = gs[k].num_buckets
        /\ BitmapAt(k) <= Len(f) => f[BitmapAt(k)] = gs[k].bitmap
    BY DEF FileOf
  <2> QED
    BY <1>1, <2>1, <2>2
<1>5. ASSUME NEW k \in 1 .. Len(gs), NEW j \in 1 .. gs[k].num_buckets
      PROVE  3 + 2 * Len(gs) + Upto(gs, n, k - 1) + j <= Len(h)
             => h[3 + 2 * Len(gs) + Upto(gs, n, k - 1) + j] = gs[k].group[j]
  <2> DEFINE u == Upto(gs, n, k - 1)
             p == 3 + 2 * Len(gs) + u + j
  <2>1. u \in Nat /\ j \in Nat /\ j >= 1
    <3>1. k - 1 \in 0 .. Len(gs) /\ GoodGroups(gs, n)
      BY <1>2 DEF GoodTable
    <3>2. gs[k].num_buckets \in Nat
      BY <3>1, UptoIs
    <3> QED
      BY <3>1, <3>2, UptoIs
  <2>2. p <= Len(f) => f[p] = gs[k].group[j]
    BY DEF FileOf
  <2> HIDE DEF u
  <2>3. p \in Nat /\ p >= 1
    BY <1>2, <2>1
  <2> HIDE DEF p
  <2>4. p <= Len(h) => h[p] = gs[k].group[j]
    BY <1>1, <2>2, <2>3
  <2> QED
    BY <2>4 DEF p, u
<1>6. Len(h) <= 3 + 2 * Len(gs) + c
  BY <1>1, <1>2
<1> QED
  BY <1>1, <1>3, <1>4, <1>5, <1>6 DEF FileOf

LEMMA WholeFile ==
  ASSUME GoodTable(groups, table_size, num_buckets)
  PROVE  /\ FileOf(Metadata \o Data, groups, table_size, num_buckets)
         /\ Len(Metadata \o Data) = 3 + 2 * Len(groups) + num_buckets
<1> DEFINE L == Len(groups)
           f == Metadata \o Data
           a == 3 + 2 * L
<1>1. L \in Nat /\ num_buckets \in Nat /\ table_size \in Nat /\ GoodGroups(groups, table_size)
      /\ a \in Nat /\ HeaderItems = 3
  BY AssignedFinite DEF GoodTable, GoodGroups, HeaderItems
<1>2. /\ Metadata \in Seq(FileItems) /\ Len(Metadata) = a
      /\ Metadata[1] = MAGIC /\ Metadata[2] = table_size /\ Metadata[3] = num_buckets
      /\ \A k \in 1 .. L : /\ Metadata[CountAt(k)] = groups[k].num_buckets
                           /\ Metadata[BitmapAt(k)] = groups[k].bitmap
  BY <1>1, MetadataIs
<1>3. /\ Data \in Seq(FileItems) /\ Len(Data) = num_buckets
      /\ \A k \in 1 .. L : \A j \in 1 .. groups[k].num_buckets :
           Data[Upto(groups, table_size, k - 1) + j] = groups[k].group[j]
  BY DataIs
<1>4. /\ f \in Seq(FileItems) /\ Len(f) = a + num_buckets
      /\ \A i \in 1 .. a + num_buckets : f[i] = IF i <= a THEN Metadata[i] ELSE Data[i - a]
  <2>1. /\ f \in Seq(FileItems) /\ Len(f) = Len(Metadata) + Len(Data)
        /\ \A i \in 1 .. Len(Metadata) + Len(Data) :
             f[i] = IF i <= Len(Metadata) THEN Metadata[i] ELSE Data[i - Len(Metadata)]
    BY <1>2, <1>3, ConcatProperties
  <2> QED
    BY <1>2, <1>3, <2>1
<1> HIDE DEF f
<1>5. ASSUME NEW i \in 1 .. a PROVE f[i] = Metadata[i]
  BY <1>1, <1>4
<1>6. a >= 3
  BY <1>1
<1>7. f[1] = MAGIC /\ f[2] = table_size /\ f[3] = num_buckets
  BY <1>1, <1>2, <1>5, <1>6
<1>8. ASSUME NEW k \in 1 .. L
      PROVE  f[CountAt(k)] = groups[k].num_buckets /\ f[BitmapAt(k)] = groups[k].bitmap
  <2>1. CountAt(k) \in 1 .. a /\ BitmapAt(k) \in 1 .. a
    BY <1>1 DEF CountAt, BitmapAt, HeaderItems
  <2> QED
    BY <1>2, <1>5, <2>1
<1>9. ASSUME NEW k \in 1 .. L, NEW j \in 1 .. groups[k].num_buckets
      PROVE  f[a + Upto(groups, table_size, k - 1) + j] = groups[k].group[j]
  <2> DEFINE u == Upto(groups, table_size, k - 1)
  <2>1. /\ u \in Nat /\ groups[k].num_buckets \in Nat
        /\ u + groups[k].num_buckets <= num_buckets
    <3>1. k - 1 \in 0 .. L /\ k \in 0 .. L
      BY <1>1
    <3>2. num_buckets = Cardinality(Assigned(groups, table_size))
      BY DEF GoodTable
    <3> QED
      BY <1>1, <3>1, <3>2, UptoIs
  <2>2. Data[u + j] = groups[k].group[j]
    BY <1>3
  <2> HIDE DEF u
  <2> DEFINE p == a + u + j
  <2>3. p \in 1 .. a + num_buckets /\ ~ (p <= a) /\ p - a = u + j
    BY <1>1, <2>1
  <2> HIDE DEF p, a
  <2>4. \A i \in 1 .. a + num_buckets : f[i] = IF i <= a THEN Metadata[i] ELSE Data[i - a]
    BY <1>4
  <2>5. f[p] = Data[p - a]
    BY <2>3, <2>4
  <2> QED
    BY <2>2, <2>3, <2>5 DEF u, p
<1>10. f \in Seq(FileItems) /\ Len(f) <= 3 + 2 * Len(groups) + num_buckets
  BY <1>1, <1>4
<1> HIDE DEF L
<1>11. FileOf(f, groups, table_size, num_buckets)
  BY <1>7, <1>8, <1>9, <1>10 DEF FileOf, L
<1> QED
  BY <1>4, <1>11 DEF f, L

\* As many groups as the size asks for.
LEMMA GroupsNumber ==
  ASSUME NEW gs, NEW n, GoodGroups(gs, n)
  PROVE  num_groups(n) = Len(gs)
<1> DEFINE m == num_groups(n)
           l == Len(gs)
           x == m * GROUP_SIZE
           y == l * GROUP_SIZE
<1>1. /\ n \in Nat /\ l \in Nat /\ n <= y /\ y < n + GROUP_SIZE
      /\ GROUP_SIZE \in Nat /\ GROUP_SIZE > 0
  BY Constants DEF GoodGroups
<1>2. m \in Nat /\ n <= x /\ x < n + GROUP_SIZE
  BY <1>1, NumGroups
<1> HIDE DEF m, l
<1>3. x \in Nat /\ y \in Nat
  BY <1>1, <1>2, Multiples
<1>4. m < l => x + GROUP_SIZE <= y
  BY <1>1, <1>2, Multiples
<1>5. l < m => y + GROUP_SIZE <= x
  BY <1>1, <1>2, Multiples
<1> HIDE DEF x, y
<1>6. m = l
  BY <1>1, <1>2, <1>3, <1>4, <1>5
<1> QED
  BY <1>6 DEF m, l

\* Where the value j of the group k is read from, and the group with its values.
ItemAt(list, k, j) ==
  HeaderItems + 2 * Len(list) + SumOf([i \in 1 .. k - 1 |-> Len(list[i].group)]) + j
FilledGroup(list, k) ==
  [list[k] EXCEPT !.group = [j \in DOMAIN @ |-> IF ItemAt(list, k, j) <= Len(file)
                                                THEN file[ItemAt(list, k, j)] ELSE @[j]]]

LEMMA FilledIs ==
  ASSUME NEW list
  PROVE  Filled(list) = [k \in DOMAIN list |-> FilledGroup(list, k)]
BY Zenon DEF Filled, ItemAt, FilledGroup

\* The groups as they are before their values are read.
Blank(m) == [j \in 1 .. m |-> raw]
BlankGroup(g) == [group |-> Blank(g.num_buckets), bitmap |-> g.bitmap, num_buckets |-> g.num_buckets]

LEMMA HeadersRead ==
  ASSUME NEW gs, NEW n, NEW c, GoodTable(gs, n, c), FileOf(file, gs, n, c),
         Len(file) >= 3 + 2 * Len(gs), NEW list, list = GroupsRead(Sized(n))
  PROVE  /\ DOMAIN list = 1 .. Len(gs) /\ Len(list) = Len(gs)
         /\ \A k \in 1 .. Len(gs) : list[k] = BlankGroup(gs[k])
<1> DEFINE L == Len(gs)
           us == Sized(n)
<1>1. L \in Nat /\ GoodGroups(gs, n) /\ Len(file) \in Nat /\ Len(file) >= 3 + 2 * L
  BY DEF GoodTable, GoodGroups, FileOf
<1>2. DOMAIN us = 1 .. L
  <2>1. num_groups(n) = L
    BY <1>1, GroupsNumber
  <2> QED
    BY <2>1 DEF Sized
<1> HIDE DEF us
<1>3. list = [k \in 1 .. L |-> IF Len(file) < (IF k = 1 THEN HeaderItems ELSE BitmapAt(k - 1))
                               THEN us[k] ELSE ReadGroup(us[k], k)]
  BY <1>2 DEF GroupsRead, us
<1>4. DOMAIN list = 1 .. L /\ Len(list) = L
  <2> DEFINE e(k) == IF Len(file) < (IF k = 1 THEN HeaderItems ELSE BitmapAt(k - 1))
                     THEN us[k] ELSE ReadGroup(us[k], k)
  <2>1. list = [k \in 1 .. L |-> e(k)]
    BY <1>3
  <2> HIDE DEF e
  <2> QED
    BY <1>1, <2>1
<1>5. ASSUME NEW k \in 1 .. L PROVE list[k] = BlankGroup(gs[k])
  <2>1. /\ ~ (Len(file) < (IF k = 1 THEN HeaderItems ELSE BitmapAt(k - 1)))
        /\ ~ (Len(file) < CountAt(k)) /\ Len(file) # CountAt(k)
        /\ CountAt(k) <= Len(file) /\ BitmapAt(k) <= Len(file)
    BY <1>1 DEF CountAt, BitmapAt, HeaderItems
  <2>2. list[k] = ReadGroup(us[k], k)
    BY <1>3, <2>1
  <2>3. file[CountAt(k)] = gs[k].num_buckets /\ file[BitmapAt(k)] = gs[k].bitmap
    BY <2>1 DEF FileOf
  <2>4. ReadGroup(us[k], k)
          = [group |-> Blank(file[CountAt(k)]), bitmap |-> file[BitmapAt(k)],
             num_buckets |-> file[CountAt(k)]]
    BY <2>1, Zenon DEF ReadGroup, Blank
  <2> QED
    BY <2>2, <2>3, <2>4 DEF BlankGroup
<1> QED
  BY <1>4, <1>5

LEMMA ReadBack ==
  ASSUME NEW gs, NEW n, NEW c, GoodTable(gs, n, c), FileOf(file, gs, n, c),
         Len(file) = 3 + 2 * Len(gs) + c, NEW list, list = GroupsRead(Sized(n))
  PROVE  Filled(list) = gs
<1> DEFINE L == Len(gs)
<1>1. /\ L \in Nat /\ GoodGroups(gs, n) /\ c \in Nat /\ c = Cardinality(Assigned(gs, n))
      /\ Len(file) = 3 + 2 * L + c /\ HeaderItems = 3
  BY AssignedFinite DEF GoodTable, GoodGroups, HeaderItems
<1>2. /\ DOMAIN list = 1 .. L /\ Len(list) = L
      /\ \A k \in 1 .. L : list[k] = BlankGroup(gs[k])
  BY <1>1, HeadersRead
<1>3. /\ gs \in Seq(GroupType) /\ DOMAIN gs = 1 .. L
      /\ \A k \in 1 .. L : /\ gs[k] \in GroupType /\ gs[k].num_buckets \in Nat
                           /\ gs[k].num_buckets = Len(gs[k].group)
  <2>1. gs \in Seq(GroupType) /\ \A k \in 1 .. L : GoodGroup(gs[k])
    BY <1>1 DEF GoodGroups
  <2>2. ASSUME NEW g, GoodGroup(g)
        PROVE  g \in GroupType /\ g.num_buckets \in Nat /\ g.num_buckets = Len(g.group)
    BY <2>2 DEF GoodGroup, GroupType
  <2>3. DOMAIN gs = 1 .. L
    BY <2>1
  <2> QED
    BY <2>1, <2>2, <2>3
<1>4. ASSUME NEW k \in 1 .. L
      PROVE  list[k].group = Blank(gs[k].num_buckets) /\ Len(list[k].group) = gs[k].num_buckets
             /\ DOMAIN list[k].group = 1 .. gs[k].num_buckets
  <2>1. list[k].group = Blank(gs[k].num_buckets)
    BY <1>2 DEF BlankGroup
  <2>2. gs[k].num_buckets \in Nat
    BY <1>3
  <2>3. ASSUME NEW m \in Nat PROVE Len(Blank(m)) = m /\ DOMAIN Blank(m) = 1 .. m
    BY DEF Blank
  <2> QED
    BY <2>1, <2>2, <2>3
<1>5. /\ Upto(gs, n, 0) = 0 /\ Upto(gs, n, L) = c
      /\ \A k \in 0 .. L : Upto(gs, n, k) \in Nat /\ Upto(gs, n, k) <= c
      /\ \A k \in 1 .. L : Upto(gs, n, k) = Upto(gs, n, k - 1) + gs[k].num_buckets
  BY <1>1, UptoIs
<1>6. ASSUME NEW k \in 1 .. L, NEW s, s = [i \in 1 .. k - 1 |-> Len(list[i].group)]
      PROVE  SumOf(s) = Upto(gs, n, k - 1)
  <2> DEFINE t == [i \in 0 .. k - 1 |-> Upto(gs, n, i)]
  <2>1. k - 1 \in Nat /\ (\A i \in 0 .. k - 1 : i \in 0 .. L) /\ (\A i \in 1 .. k - 1 : i \in 1 .. L)
        /\ 0 \in 0 .. k - 1 /\ k - 1 \in 0 .. k - 1
        /\ \A i \in 1 .. k - 1 : i \in 0 .. k - 1 /\ i - 1 \in 0 .. k - 1
    BY <1>1
  <2>2. Len(s) = k - 1 /\ \A i \in 1 .. k - 1 : s[i] = gs[i].num_buckets
    BY <1>4, <1>6, <2>1
  <2>3. t \in [0 .. k - 1 -> Nat] /\ t[0] = 0 /\ t[k - 1] = Upto(gs, n, k - 1)
    BY <1>5, <2>1
  <2>4. \A i \in 1 .. k - 1 : t[i] = t[i - 1] + s[i]
    BY <1>5, <2>1, <2>2
  <2> HIDE DEF t
  <2>5. SumOf(s) = t[Len(s)]
    <3>1. t \in [0 .. Len(s) -> Nat] /\ Len(s) \in Nat /\ \A i \in 1 .. Len(s) : t[i] = t[i - 1] + s[i]
      BY <2>1, <2>2, <2>3, <2>4
    <3> QED
      BY <2>3, <3>1, SumIs
  <2> QED
    BY <2>2, <2>3, <2>5
<1>7. ASSUME NEW k \in 1 .. L, NEW j \in 1 .. gs[k].num_buckets
      PROVE  ItemAt(list, k, j) <= Len(file) /\ file[ItemAt(list, k, j)] = gs[k].group[j]
  <2> DEFINE u == Upto(gs, n, k - 1)
             p == 3 + 2 * L + u + j
  <2>1. ItemAt(list, k, j) = p
    <3>1. SumOf([i \in 1 .. k - 1 |-> Len(list[i].group)]) = u
      BY <1>6
    <3> QED
      BY <1>1, <1>2, <3>1 DEF ItemAt
  <2>2. p <= Len(file) => file[p] = gs[k].group[j]
    BY DEF FileOf
  <2>3. u \in Nat /\ u + gs[k].num_buckets <= c
    <3>1. k - 1 \in 0 .. L /\ k \in 0 .. L
      BY <1>1
    <3> QED
      BY <1>5, <3>1
  <2> HIDE DEF u
  <2>4. p <= Len(file)
    BY <1>1, <1>3, <2>3
  <2> QED
    BY <2>1, <2>2, <2>4
<1>8. ASSUME NEW k \in 1 .. L PROVE FilledGroup(list, k) = gs[k]
  <2> DEFINE q == gs[k].num_buckets
             s == [j \in 1 .. q |-> IF ItemAt(list, k, j) <= Len(file)
                                    THEN file[ItemAt(list, k, j)] ELSE list[k].group[j]]
  <2>1. FilledGroup(list, k) = [list[k] EXCEPT !.group = s]
    BY <1>4 DEF FilledGroup
  <2>2. s = gs[k].group
    <3>1. \A j \in 1 .. q : s[j] = gs[k].group[j]
      BY <1>7
    <3>2. gs[k].group \in Seq(Values) /\ Len(gs[k].group) = q
      BY <1>3 DEF GroupType
    <3>3. s = [j \in 1 .. q |-> gs[k].group[j]]
      BY <3>1
    <3> HIDE DEF s
    <3> QED
      BY <3>2, <3>3
  <2> HIDE DEF s
  <2>3. list[k] = [group |-> Blank(q), bitmap |-> gs[k].bitmap, num_buckets |-> gs[k].num_buckets]
    BY <1>2 DEF BlankGroup
  <2>4. FilledGroup(list, k) = [group |-> s, bitmap |-> gs[k].bitmap, num_buckets |-> gs[k].num_buckets]
    BY <2>1, <2>3
  <2>5. gs[k] = [group |-> gs[k].group, bitmap |-> gs[k].bitmap, num_buckets |-> gs[k].num_buckets]
    BY <1>3 DEF GroupType
  <2> QED
    BY <2>2, <2>4, <2>5
<1>9. Filled(list) = [k \in 1 .. L |-> gs[k]]
  <2>1. Filled(list) = [k \in 1 .. L |-> FilledGroup(list, k)]
    BY <1>2, FilledIs
  <2> QED
    BY <1>8, <2>1
<1> QED
  BY <1>3, <1>9

\* The file was written from a table that was right, and if it is whole, w is the array.
FileFrom(f, gs, n, c, w) ==
  /\ GoodTable(gs, n, c) /\ n <= MaxSize /\ FileOf(f, gs, n, c)
  /\ Len(f) = 3 + 2 * Len(gs) + c => w = <<n, ArrayOf(gs, n)>>
GoodFile(f, w) == f = <<"other">> \/ \E gs, n, c : FileFrom(f, gs, n, c, w)
FileInv ==
  /\ ok => SparseInv
  /\ GoodFile(file, written)
  /\ fresh => <<table_size, assigned>> = written

LEMMA EmptyTable == GoodTable(<<>>, 0, 0) /\ 0 <= MaxSize
<1>1. <<>> \in Seq(GroupType) /\ Len(<<>>) = 0 /\ 0 * GROUP_SIZE = 0 /\ 0 < 0 + GROUP_SIZE
      /\ 0 <= MaxSize
  BY Constants
<1>2. GoodGroups(<<>>, 0)
  BY <1>1 DEF GoodGroups
<1>3. Assigned(<<>>, 0) = {}
  BY DEF Assigned
<1> QED
  BY <1>1, <1>2, <1>3, FS_EmptySet DEF GoodTable

LEMMA EmptyFile ==
  ASSUME NEW w PROVE GoodFile(<<>>, w)
<1> DEFINE e == <<>>
<1>1. e \in Seq(FileItems) /\ Len(e) = 0
  OBVIOUS
<1> HIDE DEF e
<1>2. FileOf(e, e, 0, 0)
  BY <1>1 DEF FileOf, CountAt, BitmapAt, HeaderItems
<1>3. GoodTable(e, 0, 0) /\ 0 <= MaxSize
  BY EmptyTable DEF e
<1>4. FileFrom(e, e, 0, 0, w)
  BY <1>1, <1>2, <1>3 DEF FileFrom
<1> QED
  BY <1>4 DEF GoodFile, e

LEMMA FileInvInit == FileInit => FileInv
<1> SUFFICES ASSUME FileInit PROVE FileInv
  OBVIOUS
<1>1. SparseInit /\ file = <<>> /\ fresh = FALSE
  BY DEF FileInit
<1>2. SparseInv
  BY <1>1, SparseInvInit
<1> QED
  BY <1>1, <1>2, EmptyFile DEF FileInv

LEMMA WriteKeeps ==
  ASSUME FileInv, Write PROVE FileInv'
<1> DEFINE f == Metadata \o Data
           L == Len(groups)
<1>1. PICK m \in 0 .. Len(f) :
        /\ file' = SubSeq(f, 1, m) /\ ok' = (m = Len(f))
        /\ written' = IF ok' THEN <<table_size, assigned>> ELSE written
  BY DEF Write
<1>2. ok /\ fresh' = FALSE /\ UNCHANGED sparseVars
  BY DEF Write
<1>3. SparseInv
  BY <1>2 DEF FileInv
<1>4. GoodTable(groups, table_size, num_buckets) /\ table_size <= MaxSize
  BY <1>3 DEF SparseInv
<1>5. FileOf(f, groups, table_size, num_buckets) /\ Len(f) = 3 + 2 * L + num_buckets
  BY <1>4, WholeFile
<1>6. SparseInv'
  BY <1>2, <1>3 DEF SparseInv, sparseVars
<1> HIDE DEF f
<1>7. f \in Seq(FileItems)
  BY <1>5 DEF FileOf
<1>8. Begins(file', m, f)
  BY <1>1, <1>7, BeginningIs
<1>9. FileOf(file', groups, table_size, num_buckets)
  BY <1>4, <1>5, <1>8, ShorterFile
<1>10. Len(file') = 3 + 2 * L + num_buckets => written' = <<table_size, ArrayOf(groups, table_size)>>
  <2> SUFFICES ASSUME Len(file') = 3 + 2 * L + num_buckets
               PROVE  written' = <<table_size, ArrayOf(groups, table_size)>>
    OBVIOUS
  <2>1. m = Len(f)
    BY <1>5, <1>8 DEF Begins
  <2>2. written' = <<table_size, assigned>>
    BY <1>1, <2>1
  <2> QED
    BY <2>2, AssignedIs
<1>11. FileFrom(file', groups, table_size, num_buckets, written')
  BY <1>4, <1>9, <1>10 DEF FileFrom
<1>12. GoodFile(file', written')
  BY <1>11 DEF GoodFile
<1> QED
  BY <1>2, <1>6, <1>12 DEF FileInv

LEMMA CutOffKeeps ==
  ASSUME FileInv, CutOff PROVE FileInv'
<1>1. file # <<>> /\ file' = Front(file) /\ fresh' = FALSE /\ written' = written /\ ok' = ok
      /\ UNCHANGED sparseVars
  BY DEF CutOff
<1>2. ok' => SparseInv'
  BY <1>1 DEF FileInv, SparseInv, sparseVars
<1>3. GoodFile(file', written')
  <2>1. CASE file = <<"other">>
    <3>1. file' = <<>>
      BY <1>1, <2>1 DEF Front
    <3> QED
      BY <3>1, EmptyFile
  <2>2. ASSUME NEW gs, NEW n, NEW c, FileFrom(file, gs, n, c, written)
        PROVE  GoodFile(file', written')
    <3> DEFINE m == Len(file) - 1
    <3>1. GoodTable(gs, n, c) /\ n <= MaxSize /\ FileOf(file, gs, n, c)
      BY <2>2 DEF FileFrom
    <3>2. file \in Seq(FileItems) /\ Len(file) <= 3 + 2 * Len(gs) + c
      BY <3>1 DEF FileOf
    <3>3. m \in 0 .. Len(file)
      BY <1>1, <3>2
    <3>4. file' = SubSeq(file, 1, m)
      BY <1>1 DEF Front
    <3>5. m < 3 + 2 * Len(gs) + c
      <4>1. Len(gs) \in Nat /\ c \in Nat /\ Len(file) \in Nat
        BY <3>1, <3>2, AssignedFinite DEF GoodTable, GoodGroups
      <4> QED
        BY <3>2, <4>1
    <3> HIDE DEF m
    <3>6. Begins(file', m, file)
      BY <3>2, <3>3, <3>4, BeginningIs
    <3>7. FileOf(file', gs, n, c)
      BY <3>1, <3>3, <3>6, ShorterFile
    <3>8. Len(file') # 3 + 2 * Len(gs) + c
      <4>1. Len(file') = m /\ m \in Nat
        BY <3>3, <3>6 DEF Begins
      <4>2. Len(gs) \in Nat /\ c \in Nat
        BY <3>1, AssignedFinite DEF GoodTable, GoodGroups
      <4> QED
        BY <3>5, <4>1, <4>2
    <3>9. FileFrom(file', gs, n, c, written')
      BY <3>1, <3>7, <3>8 DEF FileFrom
    <3> QED
      BY <3>9 DEF GoodFile
  <2> QED
    BY <2>1, <2>2 DEF FileInv, GoodFile
<1> QED
  BY <1>1, <1>2, <1>3 DEF FileInv

\* A reading that returns true has read the whole of what was written.
LEMMA ReadTableReads ==
  ASSUME FileInv, ReadTable, ok', file # <<"other">>
  PROVE  SparseInv' /\ <<table_size', assigned'>> = written
<1> DEFINE list == GroupsRead(Sized(file[2]))
<1>1. /\ Len(file) >= HeaderItems /\ table_size' = file[2] /\ num_buckets' = file[3]
      /\ groups' = IF Len(file) < HeaderItems + 2 * Len(list) THEN list ELSE Filled(list)
      /\ Len(file) = HeaderItems + 2 * Len(list) + file[3]
  BY DEF ReadTable
<1>2. PICK gs, n, c : FileFrom(file, gs, n, c, written)
  BY DEF FileInv, GoodFile
<1>3. GoodTable(gs, n, c) /\ n <= MaxSize /\ FileOf(file, gs, n, c)
  BY <1>2 DEF FileFrom
<1>4. GoodGroups(gs, n) /\ Len(gs) \in Nat /\ c \in Nat /\ Len(file) \in Nat /\ HeaderItems = 3
  BY <1>3, AssignedFinite DEF GoodTable, GoodGroups, FileOf, HeaderItems
<1>5. file[2] = n /\ file[3] = c
  BY <1>1, <1>3, <1>4 DEF FileOf
<1>6. Len(list) = Len(gs)
  <2>1. num_groups(n) = Len(gs)
    BY <1>4, GroupsNumber
  <2>2. DOMAIN Sized(n) = 1 .. Len(gs)
    BY <2>1 DEF Sized
  <2>3. DOMAIN list = 1 .. Len(gs)
    BY <1>5, <2>2 DEF GroupsRead
  <2>4. list = [k \in 1 .. Len(gs) |-> list[k]]
    BY <1>5, <2>2 DEF GroupsRead
  <2> HIDE DEF list
  <2> QED
    BY <1>4, <2>4
<1>7. Len(file) = 3 + 2 * Len(gs) + c
  BY <1>1, <1>4, <1>5, <1>6
<1>8. groups' = Filled(list)
  <2>1. ~ (Len(file) < HeaderItems + 2 * Len(list))
    BY <1>4, <1>6, <1>7
  <2> QED
    BY <1>1, <2>1
<1>9. Filled(list) = gs
  <2>1. list = GroupsRead(Sized(n))
    BY <1>5
  <2> HIDE DEF list
  <2> QED
    BY <1>3, <1>7, <2>1, ReadBack
<1> HIDE DEF list
<1>10. groups' = gs /\ table_size' = n /\ num_buckets' = c
  BY <1>1, <1>5, <1>8, <1>9
<1>11. SparseInv'
  BY <1>3, <1>10 DEF SparseInv
<1>12. assigned' = ArrayOf(gs, n)
  BY <1>10, AssignedPrimed
<1>13. written = <<n, ArrayOf(gs, n)>>
  BY <1>2, <1>7 DEF FileFrom
<1> QED
  BY <1>10, <1>11, <1>12, <1>13

LEMMA ReadKeeps ==
  ASSUME FileInv, Read PROVE FileInv'
<1>1. ok /\ fresh' = ok' /\ (ReadNothing \/ ReadOther \/ ReadSizeOnly \/ ReadTable)
  BY DEF Read
<1>2. file' = file /\ written' = written
  BY <1>1 DEF ReadNothing, ReadOther, ReadSizeOnly, ReadTable
<1>3. GoodFile(file', written')
  BY <1>2 DEF FileInv
<1>4. ASSUME ok' PROVE SparseInv' /\ <<table_size', assigned'>> = written'
  <2>1. ReadTable
    BY <1>1, <1>4 DEF ReadNothing, ReadOther, ReadSizeOnly
  <2>2. file # <<"other">>
    BY <2>1 DEF ReadTable, HeaderItems
  <2> QED
    BY <1>2, <1>4, <2>1, <2>2, ReadTableReads
<1> QED
  BY <1>1, <1>3, <1>4 DEF FileInv

LEMMA FileInvNext ==
  ASSUME FileInv, [FileNext]_fileVars PROVE FileInv'
<1>1. CASE TableStep
  <2>1. SparseNext /\ fresh' = FALSE /\ file' = file /\ written' = written /\ ok /\ ok' = ok
    BY <1>1 DEF TableStep
  <2>2. SparseInv'
    BY <2>1, SparseInvNext DEF FileInv
  <2> QED
    BY <2>1, <2>2 DEF FileInv
<1>2. CASE AnotherFile
  <2>1. file' = <<"other">> /\ fresh' = FALSE /\ ok' = ok /\ UNCHANGED sparseVars
    BY <1>2 DEF AnotherFile
  <2>2. ok' => SparseInv'
    BY <2>1 DEF FileInv, SparseInv, sparseVars
  <2> QED
    BY <2>1, <2>2 DEF FileInv, GoodFile
<1>3. CASE Discard
  <2>1. /\ groups' = <<>> /\ table_size' = 0 /\ num_buckets' = 0 /\ fresh' = FALSE
        /\ file' = file /\ written' = written
    BY <1>3 DEF Discard
  <2>2. SparseInv'
    BY <2>1, EmptyTable DEF SparseInv
  <2> QED
    BY <2>1, <2>2 DEF FileInv
<1>4. CASE UNCHANGED fileVars
  <2>1. /\ groups' = groups /\ table_size' = table_size /\ num_buckets' = num_buckets
        /\ file' = file /\ written' = written /\ ok' = ok /\ fresh' = fresh
    BY <1>4 DEF fileVars, sparseVars
  <2>2. assigned' = assigned
    BY <2>1, AssignedIs, AssignedPrimed
  <2>3. SparseInv => SparseInv'
    BY <2>1 DEF SparseInv
  <2> QED
    BY <2>1, <2>2, <2>3 DEF FileInv
<1> QED
  BY <1>1, <1>2, <1>3, <1>4, WriteKeeps, CutOffKeeps, ReadKeeps DEF FileNext

LEMMA FileInvMeans == FileInv => ReadIsWhole
<1> SUFFICES ASSUME FileInv PROVE ReadIsWhole
  OBVIOUS
<1>1. ASSUME ok
      PROVE  CountsAgree /\ \A k \in DOMAIN groups : ToSet(groups[k].group) \subseteq Values
  <2>1. SparseInv
    BY <1>1 DEF FileInv
  <2>2. ASSUME NEW k \in DOMAIN groups PROVE ToSet(groups[k].group) \subseteq Values
    <3>1. groups \in Seq(GroupType)
      BY <2>1 DEF SparseInv, GoodTable, GoodGroups
    <3>2. groups[k] \in GroupType
      BY <3>1
    <3>3. groups[k].group \in Seq(Values)
      BY <3>2 DEF GroupType
    <3> QED
      BY <3>3 DEF ToSet
  <2> QED
    BY <2>1, <2>2, SparseInvMeans
<1> QED
  BY <1>1 DEF FileInv, ReadIsWhole, TableWhole, ReadsWhatWasWritten

\* A table written to a file and read again, where the writing may stop, the file may lose
\* its end or be another one: reading that returns true leaves a table whose counts are right
\* and that holds what was written last, for any sizes and values (sparsetable's
\* read_metadata() and read_nopointer_data()).
THEOREM FileReadsWhole == FileSpec => []ReadIsWhole
<1>1. FileInit => FileInv
  BY FileInvInit
<1>2. FileInv /\ [FileNext]_fileVars => FileInv'
  BY FileInvNext
<1> QED
  BY <1>1, <1>2, FileInvMeans, PTL DEF FileSpec
==============================================================================
