--------------------------- MODULE DenseHashProofs ---------------------------
(***************************************************************************)
(* The dense hash table, for any keys, any hash function and any sizes:    *)
(* searches end and find what is stored, a loop may erase as it goes, and  *)
(* to its user the table is a set.                                         *)
(***************************************************************************)
EXTENDS DenseHashIteration, FiniteSetTheorems, WellFoundedInduction, TLAPS

(***************************************************************************)
(* Numbers.                                                                *)
(***************************************************************************)
LEMMA NatInd ==
  ASSUME NEW S, 0 \in S, \A i \in Nat : i \in S => i + 1 \in S
  PROVE  Nat \subseteq S
<1>1. SUFFICES ASSUME {i \in Nat : i \notin S} # {} PROVE FALSE
  OBVIOUS
<1>2. PICK x \in {i \in Nat : i \notin S} :
        \A y \in {i \in Nat : i \notin S} : ~ (<<y, x>> \in OpToRel(<, Nat))
  BY <1>1, WFMin, NatLessThanWellFounded, Zenon
<1>3. \A y \in {i \in Nat : i \notin S} : ~ (y < x)
  BY <1>2, Zenon DEF OpToRel
<1> QED
  BY <1>3

\* A set of numbers has a least element, and if it is bounded a greatest one.
LEMMA MinIs ==
  ASSUME NEW S \in SUBSET Nat, S # {}
  PROVE  Min(S) \in S /\ \A y \in S : Min(S) <= y
<1>1. PICK x \in S : \A y \in S : ~ (<<y, x>> \in OpToRel(<, Nat))
  BY WFMin, NatLessThanWellFounded, Zenon
<1>2. \A y \in S : ~ (y < x)
  BY <1>1, Zenon DEF OpToRel
<1>3. \E m \in S : \A y \in S : m =< y
  BY <1>2
<1> QED
  BY <1>3, Zenon DEF Min

LEMMA MaxIs ==
  ASSUME NEW S \in SUBSET Nat, S # {}, NEW m \in Nat, \A y \in S : y <= m
  PROVE  Max(S) \in S /\ \A y \in S : Max(S) >= y
<1> DEFINE D == {d \in Nat : \E y \in S : d = m - y}
<1>1. D \in SUBSET Nat /\ D # {}
  <2>1. PICK y \in S : TRUE
    OBVIOUS
  <2>2. m - y \in D
    BY <2>1
  <2> QED
    BY <2>2
<1>2. PICK d \in D : \A e \in D : d <= e
  BY <1>1, MinIs
<1>3. PICK x \in S : d = m - x
  BY <1>2
<1>4. ASSUME NEW y \in S PROVE x >= y
  <2>1. m - y \in D
    OBVIOUS
  <2> QED
    BY <2>1, <1>2, <1>3
<1>5. \E x_ \in S : \A y \in S : x_ >= y
  BY <1>4
<1> QED
  BY <1>5, Zenon DEF Max

LEMMA Cancel ==
  ASSUME NEW d \in Nat, d # 0, NEW x \in Int, NEW y \in Int, d * x = d * y
  PROVE  x = y
OBVIOUS

\* An odd factor does not help to be divisible by d.
OddFree(d) ==
  \A a, b, q \in Nat : a % 2 = 1 /\ a * b = d * q => \E r \in Nat : b = d * r

LEMMA OddFreeDouble ==
  ASSUME NEW d \in Nat, d # 0, OddFree(d)
  PROVE  OddFree(2 * d)
<1> DEFINE e == 2 * d
<1>1. ASSUME NEW a \in Nat, NEW b \in Nat, NEW q \in Nat, a % 2 = 1, a * b = e * q
      PROVE  \E r \in Nat : b = e * r
  <2>1. a * b = d * (2 * q) /\ 2 * q \in Nat
    BY <1>1
  <2>2. PICK r \in Nat : b = d * r
    <3>1. \A p \in Nat : a * b = d * p => \E r \in Nat : b = d * r
      BY <1>1, ZenonT(30) DEF OddFree
    <3> DEFINE p == 2 * q
    <3>2. p \in Nat /\ a * b = d * p
      BY <2>1
    <3> HIDE DEF p
    <3> QED
      BY <3>1, <3>2, Zenon
  <2>3. PICK c \in Nat : a = 2 * c + 1
    <3>1. a \div 2 \in Nat /\ a = 2 * (a \div 2) + 1
      BY <1>1
    <3> QED
      BY <3>1
  <2>4. d * (a * r) = d * (2 * q)
    <3>1. a * (d * r) = d * (a * r)
      OBVIOUS
    <3> QED
      BY <2>1, <2>2, <3>1
  <2>5. a * r = 2 * q
    <3>1. a * r \in Int /\ 2 * q \in Int
      OBVIOUS
    <3> QED
      BY <2>4, <3>1, Cancel
  <2>6. a * r = 2 * (c * r) + r
    BY <2>3
  <2> DEFINE f == c * r
  <2>7. f \in Nat /\ 2 * f + r = 2 * q
    BY <2>5, <2>6
  <2> HIDE DEF f
  <2>8. q - f \in Nat /\ r = 2 * (q - f)
    BY <2>7
  <2>9. b = (2 * d) * (q - f)
    BY <2>2, <2>8
  <2> QED
    BY <2>8, <2>9
<1> HIDE DEF e
<1>2. OddFree(e)
  BY <1>1 DEF OddFree
<1> QED
  BY <1>2 DEF e

LEMMA OddFactor ==
  ASSUME NEW d, OddFree(d), NEW a \in Nat, NEW b \in Nat, NEW q \in Nat,
         a % 2 = 1, a * b = d * q
  PROVE  \E r \in Nat : b = d * r
BY ZenonT(30) DEF OddFree

\* What is known of the constants.
LEMMA Constants ==
  /\ HashOf \in [Keys -> Nat]
  /\ Keys \cap Tombstones = {}
  /\ EMPTY \notin Keys \cup Tombstones
  /\ NoKey \notin Keys \cup Tombstones \cup {EMPTY}
  /\ MaxDoublings \in Nat
  /\ HT_DEFAULT_STARTING_BUCKETS \in Sizes
  /\ ExpectedItems \subseteq 0 .. MaxItems /\ ResizeArgs \subseteq 0 .. MaxItems
  /\ Ranges \subseteq Seq(Keys)
BY HashAssumed DEF HashAssumption

\* g doubles up to m.
Doubles(g, m) == g = [i \in 0 .. m |-> IF i = 0 THEN HT_MIN_BUCKETS ELSE 2 * g[i - 1]]

LEMMA DoubledIs ==
  /\ Doubled[0] = 4
  /\ \A i \in 0 .. MaxDoublings : i # 0 => Doubled[i] = 2 * Doubled[i - 1]
<1> DEFINE S == {k \in Nat : \E g : Doubles(g, k)}
<1>1. 0 \in S
  <2>1. Doubles([i \in 0 .. 0 |-> HT_MIN_BUCKETS], 0)
    BY DEF Doubles
  <2> QED
    BY <2>1
<1>2. ASSUME NEW k \in Nat, k \in S PROVE k + 1 \in S
  <2>1. PICK g : Doubles(g, k)
    BY <1>2
  <2> DEFINE f == [i \in 0 .. k + 1 |-> IF i = 0 THEN HT_MIN_BUCKETS ELSE 2 * g[i - 1]]
  <2>2. \A i \in 0 .. k : f[i] = g[i]
    BY <2>1 DEF Doubles
  <2>3. f = [i \in 0 .. k + 1 |-> IF i = 0 THEN HT_MIN_BUCKETS ELSE 2 * f[i - 1]]
    <3>1. \A i \in 0 .. k + 1 : i # 0 => i - 1 \in 0 .. k
      OBVIOUS
    <3> QED
      BY <2>2, <3>1
  <2>4. Doubles(f, k + 1)
    BY <2>3, Zenon DEF Doubles
  <2> QED
    BY <2>4
<1>3. MaxDoublings \in S
  <2> HIDE DEF S
  <2> QED
    BY <1>1, <1>2, NatInd, Constants
<1>4. Doubled = CHOOSE g : Doubles(g, MaxDoublings)
  BY Zenon DEF Doubled, Doubles
<1>5. Doubles(Doubled, MaxDoublings)
  BY <1>3, <1>4, Zenon
<1> QED
  BY <1>5, Constants DEF Doubles, HT_MIN_BUCKETS

\* A size is an even number, at least 4, and a power of two.
IsSize(n) == n \in Nat /\ n >= 4 /\ n % 2 = 0 /\ OddFree(n) /\ OddFree(2 * n)

LEMMA SizesAre ==
  /\ \A i \in 0 .. MaxDoublings : IsSize(Doubled[i])
  /\ \A i \in 0 .. MaxDoublings : Doubled[i] <= Doubled[MaxDoublings]
  /\ \A i \in 0 .. MaxDoublings : i # 0 => Doubled[i] >= 8
<1> DEFINE S == {k \in Nat : k <= MaxDoublings =>
                              /\ IsSize(Doubled[k])
                              /\ k # 0 => Doubled[k] >= 8
                              /\ \A i \in 0 .. k : Doubled[i] \in Nat /\ Doubled[i] <= Doubled[k]}
<1>1. OddFree(4) /\ OddFree(8)
  <2>1. OddFree(1)
    BY DEF OddFree
  <2>2. OddFree(2)
    BY <2>1, OddFreeDouble
  <2>3. OddFree(4)
    BY <2>2, OddFreeDouble
  <2> QED
    BY <2>3, OddFreeDouble
<1>2. 0 \in S
  BY <1>1, DoubledIs DEF IsSize
<1>3. ASSUME NEW k \in Nat, k \in S PROVE k + 1 \in S
  <2> SUFFICES ASSUME k + 1 <= MaxDoublings
               PROVE  /\ IsSize(Doubled[k + 1]) /\ Doubled[k + 1] >= 8
                      /\ \A i \in 0 .. k + 1 : Doubled[i] \in Nat /\ Doubled[i] <= Doubled[k + 1]
    OBVIOUS
  <2> DEFINE m == Doubled[k]
  <2>1. Doubled[k + 1] = 2 * m
    BY DoubledIs, Constants
  <2>2. IsSize(m) /\ \A i \in 0 .. k : Doubled[i] \in Nat /\ Doubled[i] <= m
    BY <1>3, Constants
  <2> HIDE DEF m
  <2>3. OddFree(2 * m) /\ OddFree(2 * (2 * m))
    BY <2>2, OddFreeDouble DEF IsSize
  <2>4. IsSize(2 * m) /\ 2 * m >= 8
    BY <2>2, <2>3 DEF IsSize
  <2>5. ASSUME NEW i \in 0 .. k + 1 PROVE Doubled[i] \in Nat /\ Doubled[i] <= 2 * m
    <3>1. CASE i \in 0 .. k
      BY <3>1, <2>2 DEF IsSize
    <3>2. CASE i = k + 1
      BY <3>2, <2>1, <2>4 DEF IsSize
    <3> QED
      BY <3>1, <3>2
  <2> QED
    BY <2>1, <2>4, <2>5
<1>4. Nat \subseteq S
  <2> HIDE DEF S
  <2> QED
    BY <1>2, <1>3, NatInd
<1>5. \A k \in 0 .. MaxDoublings :
        /\ IsSize(Doubled[k]) /\ (k # 0 => Doubled[k] >= 8)
        /\ \A i \in 0 .. k : Doubled[i] <= Doubled[k]
  BY <1>4, Constants
<1> QED
  BY <1>5, Constants

(***************************************************************************)
(* Probing.  The jumps add up to triangular numbers, so the first n probes *)
(* of a key meet all buckets if n is a power of two.                       *)
(***************************************************************************)
LEMMA Triangle ==
  ASSUME NEW i \in Nat
  PROVE  (i * (i + 1)) \div 2 \in Nat /\ 2 * ((i * (i + 1)) \div 2) = i * (i + 1)
<1>1. \E c \in Nat : i * (i + 1) = 2 * c
  <2>1. CASE i % 2 = 0
    <3>1. i \div 2 \in Nat /\ i = 2 * (i \div 2)
      BY <2>1
    <3>2. PICK c \in Nat : i = 2 * c
      BY <3>1
    <3>3. i * (i + 1) = 2 * (c * (i + 1)) /\ c * (i + 1) \in Nat
      BY <3>2
    <3> QED
      BY <3>3
  <2>2. CASE i % 2 # 0
    <3>1. i \div 2 \in Nat /\ i = 2 * (i \div 2) + 1
      BY <2>2
    <3>2. PICK c \in Nat : i = 2 * c + 1
      BY <3>1
    <3>3. i * (i + 1) = 2 * (i * (c + 1)) /\ i * (c + 1) \in Nat
      BY <3>2
    <3> QED
      BY <3>3
  <2> QED
    BY <2>1, <2>2
<1>2. PICK c \in Nat : i * (i + 1) = 2 * c
  BY <1>1
<1> DEFINE p == i * (i + 1)
<1>3. p = 2 * c
  BY <1>2
<1> HIDE DEF p
<1> QED
  BY <1>3 DEF p

LEMMA SameRest ==
  ASSUME NEW n \in Nat, n > 0, NEW x \in Nat, NEW y \in Nat, x <= y, x % n = y % n
  PROVE  \E q \in Nat : y - x = n * q
<1> DEFINE r == x % n
           u == x \div n
           v == y \div n
<1>1. /\ u \in Nat /\ v \in Nat /\ r \in 0 .. n - 1
      /\ x = n * u + r /\ y = n * v + r
  OBVIOUS
<1> HIDE DEF r, u, v
<1>2. u <= v
  <2> SUFFICES ASSUME v + 1 <= u PROVE FALSE
    BY <1>1
  <2>1. n * (v + 1) <= n * u
    BY <1>1
  <2> QED
    BY <2>1, <1>1
<1>3. v - u \in Nat /\ y - x = n * (v - u)
  BY <1>1, <1>2
<1> QED
  BY <1>3

LEMMA ProbeType ==
  ASSUME NEW key \in Keys, NEW i \in Nat, NEW n \in Nat, n > 0
  PROVE  Probe(key, i, n) \in 0 .. n - 1
<1>1. HashOf[key] \in Nat /\ (i * (i + 1)) \div 2 \in Nat
  BY Constants, Triangle
<1> QED
  BY <1>1 DEF Probe

LEMMA ProbesDiffer ==
  ASSUME NEW key \in Keys, NEW n, IsSize(n),
         NEW i \in 0 .. n - 1, NEW j \in 0 .. n - 1, i < j
  PROVE  Probe(key, i, n) # Probe(key, j, n)
<1> SUFFICES ASSUME Probe(key, i, n) = Probe(key, j, n) PROVE FALSE
  OBVIOUS
<1> DEFINE h == HashOf[key]
           ti == (i * (i + 1)) \div 2
           tj == (j * (j + 1)) \div 2
<1>1. h \in Nat /\ n \in Nat /\ n > 0 /\ i \in Nat /\ j \in Nat
  BY Constants DEF IsSize
<1>2. ti \in Nat /\ 2 * ti = i * (i + 1) /\ tj \in Nat /\ 2 * tj = j * (j + 1)
  BY <1>1, Triangle
<1>3. (h + ti) % n = (h + tj) % n
  BY DEF Probe
<1> HIDE DEF h, ti, tj
<1>4. 2 * tj - 2 * ti = (j - i) * (j + i + 1)
  BY <1>1, <1>2
<1>5. ti <= tj
  <2>1. (j - i) * (j + i + 1) >= 0
    BY <1>1
  <2> QED
    BY <2>1, <1>2, <1>4
<1>6. PICK q \in Nat : tj - ti = n * q
  <2> DEFINE x == h + ti
             y == h + tj
  <2>1. x \in Nat /\ y \in Nat /\ x <= y /\ x % n = y % n /\ y - x = tj - ti
    BY <1>1, <1>2, <1>3, <1>5
  <2>2. \E q \in Nat : y - x = n * q
    <3> HIDE DEF x, y
    <3> QED
      BY <2>1, <1>1, SameRest
  <2> QED
    BY <2>1, <2>2
<1>7. (j - i) * (j + i + 1) = (2 * n) * q
  BY <1>1, <1>2, <1>4, <1>6
<1> DEFINE a == j - i
           b == j + i + 1
           m == 2 * n
<1>8. /\ a \in Nat /\ b \in Nat /\ a > 0 /\ a < n /\ b > 0 /\ b < m /\ m \in Nat
      /\ a + b = 2 * j + 1
  BY <1>1
<1>9. a * b = m * q /\ b * a = m * q /\ OddFree(m)
  BY <1>7 DEF IsSize
<1>10. a < m
  BY <1>1, <1>8
<1> HIDE DEF a, b, m
<1>11. ASSUME NEW x \in Nat, NEW r \in Nat, x = m * r, x > 0, x < m PROVE FALSE
  <2>1. r # 0
    BY <1>8, <1>11
  <2>2. m * r >= m
    BY <1>8, <2>1
  <2> QED
    BY <2>2, <1>11, <1>8
<1>12. CASE a % 2 = 1
  <2>1. \E r \in Nat : b = m * r
    BY <1>8, <1>9, <1>12, OddFactor
  <2> QED
    BY <2>1, <1>8, <1>11
<1>13. CASE b % 2 = 1
  <2>1. \E r \in Nat : a = m * r
    BY <1>8, <1>9, <1>13, OddFactor
  <2> QED
    BY <2>1, <1>8, <1>10, <1>11
<1> QED
  BY <1>1, <1>8, <1>12, <1>13

LEMMA ProbesCover ==
  ASSUME NEW key \in Keys, NEW n, IsSize(n), NEW b \in 0 .. n - 1
  PROVE  \E i \in 0 .. n - 1 : Probe(key, i, n) = b
<1> DEFINE D == 0 .. n - 1
           f == [i \in D |-> Probe(key, i, n)]
<1>1. n \in Nat /\ n > 0
  BY DEF IsSize
<1>2. f \in [D -> D]
  BY <1>1, ProbeType
<1>3. \A i, j \in D : i # j => f[i] # f[j]
  <2> SUFFICES ASSUME NEW i \in D, NEW j \in D, i # j PROVE f[i] # f[j]
    OBVIOUS
  <2>1. CASE i < j
    BY <2>1, ProbesDiffer
  <2>2. CASE j < i
    BY <2>2, ProbesDiffer
  <2> QED
    BY <1>1, <2>1, <2>2
<1>4. IsFiniteSet(D)
  BY <1>1, FS_Interval
<1> HIDE DEF D
<1>5. f \in Injection(D, D)
  <2> HIDE DEF f
  <2> QED
    BY <1>2, <1>3 DEF Injection, IsInjective
<1>6. f \in Surjection(D, D)
  <2> HIDE DEF f
  <2> QED
    BY <1>4, <1>5, FS_Injection
<1>7. \E i \in D : f[i] = b
  <2>1. b \in D
    BY DEF D
  <2> HIDE DEF f
  <2> QED
    BY <1>6, <2>1 DEF Surjection
<1> QED
  BY <1>7 DEF D

(***************************************************************************)
(* Layouts.  A table t of n buckets: where a key is stored, a search for   *)
(* it arrives.                                                             *)
(***************************************************************************)
Values(mark) == Keys \cup {EMPTY} \cup ({mark} \cap Tombstones)

\* A search for key goes on at the first i probes.
Passed(t, n, key, i) ==
  \A j \in 0 .. i - 1 : t[Probe(key, j, n)] # EMPTY /\ t[Probe(key, j, n)] # key

\* The i-th probe of a search for key is made, and at bucket b.
Arrives(t, n, key, i, b) ==
  i \in 0 .. n - 1 /\ Probe(key, i, n) = b /\ Passed(t, n, key, i)

Layout(t, n, mark) ==
  /\ IsSize(n) /\ t \in [0 .. n - 1 -> Values(mark)]
  /\ \A b \in 0 .. n - 1 : t[b] \in Keys => \E i \in 0 .. n - 1 : Arrives(t, n, t[b], i, b)

Contents(t, n) == {t[b] : b \in {c \in 0 .. n - 1 : t[c] \in Keys}}
Ends(t, n, key) == {i \in 0 .. n - 1 : t[Probe(key, i, n)] \in {EMPTY, key}}

LEMMA PassedBefore ==
  ASSUME NEW t, NEW n, IsSize(n), NEW key \in Keys, NEW i, NEW b, Arrives(t, n, key, i, b),
         NEW j \in 0 .. i - 1
  PROVE  /\ t[Probe(key, j, n)] # EMPTY /\ t[Probe(key, j, n)] # key
         /\ Probe(key, j, n) \in 0 .. n - 1
<1>1. n \in Nat /\ n > 0 /\ i \in 0 .. n - 1 /\ j \in Nat
  BY DEF IsSize, Arrives
<1>2. Probe(key, j, n) \in 0 .. n - 1
  BY <1>1, ProbeType
<1> QED
  BY <1>2, Zenon DEF Arrives, Passed

\* A search arrives at its last probe, and if the key is stored, then there.
LEMMA SearchArrives ==
  ASSUME NEW t, NEW n, NEW mark, Layout(t, n, mark), NEW key \in Keys, Ends(t, n, key) # {}
  PROVE  LET m == Min(Ends(t, n, key))
             b == Probe(key, m, n)
         IN  /\ m \in 0 .. n - 1 /\ b \in 0 .. n - 1 /\ Arrives(t, n, key, m, b)
             /\ t[b] = key \/ t[b] = EMPTY
             /\ \A c \in 0 .. n - 1 : t[c] = key => c = b
<1> DEFINE m == Min(Ends(t, n, key))
           b == Probe(key, m, n)
<1>1. n \in Nat /\ n > 0
  BY DEF Layout, IsSize
<1>2. m \in Ends(t, n, key) /\ \A i \in Ends(t, n, key) : m <= i
  <2>1. Ends(t, n, key) \in SUBSET Nat
    BY <1>1 DEF Ends
  <2> QED
    BY <2>1, MinIs
<1>3. m \in 0 .. n - 1 /\ (t[b] = key \/ t[b] = EMPTY)
  BY <1>2 DEF Ends
<1> HIDE DEF m
<1>4. b \in 0 .. n - 1
  BY <1>1, <1>3, ProbeType
<1>5. Passed(t, n, key, m)
  <2>1. ASSUME NEW j \in 0 .. m - 1, t[Probe(key, j, n)] \in {EMPTY, key} PROVE FALSE
    <3>1. j \in Ends(t, n, key) /\ ~ (m <= j)
      BY <1>1, <1>3, <2>1 DEF Ends
    <3> QED
      BY <3>1, <1>2
  <2> QED
    BY <2>1, Zenon DEF Passed
<1>6. ASSUME NEW c \in 0 .. n - 1, t[c] = key PROVE c = b
  <2>1. PICK i \in 0 .. n - 1 : Arrives(t, n, key, i, c)
    BY <1>6 DEF Layout
  <2>2. i \in Ends(t, n, key)
    BY <1>6, <2>1 DEF Arrives, Ends
  <2>3. m <= i
    BY <1>2, <2>2
  <2>4. ~ (m < i)
    <3> SUFFICES ASSUME m \in 0 .. i - 1 PROVE FALSE
      BY <1>3
    <3> QED
      BY <1>3, <2>1 DEF Arrives, Passed
  <2>5. m = i
    BY <2>3, <2>4, <1>3
  <2> QED
    BY <2>1, <2>5 DEF Arrives
<1> QED
  BY <1>3, <1>4, <1>5, <1>6 DEF m, Arrives

\* No key is stored twice.
LEMMA KeyOnce ==
  ASSUME NEW t, NEW n, NEW mark, Layout(t, n, mark),
         NEW b \in 0 .. n - 1, NEW c \in 0 .. n - 1, t[b] \in Keys, t[b] = t[c]
  PROVE  b = c
<1>1. PICK i \in 0 .. n - 1 : Arrives(t, n, t[b], i, b)
  BY DEF Layout
<1>2. Ends(t, n, t[b]) # {}
  BY <1>1 DEF Arrives, Ends
<1> QED
  BY <1>2, SearchArrives

Put(t, at, key) == [t EXCEPT ![at] = key]
WithMarks(t, n, D, mark) == [b \in 0 .. n - 1 |-> IF b \in D THEN mark ELSE t[b]]

\* A key that is not stored may be put into any bucket without a key at which a
\* search for it arrives.
LEMMA PutIs ==
  ASSUME NEW t, NEW n, NEW mark, Layout(t, n, mark), NEW key \in Keys,
         key \notin Contents(t, n),
         NEW i, NEW at \in 0 .. n - 1, Arrives(t, n, key, i, at), t[at] \notin Keys
  PROVE  /\ Layout(Put(t, at, key), n, mark)
         /\ Contents(Put(t, at, key), n) = Contents(t, n) \cup {key}
<1> DEFINE u == Put(t, at, key)
<1>1. /\ n \in Nat /\ n > 0 /\ IsSize(n) /\ t \in [0 .. n - 1 -> Values(mark)]
      /\ key # EMPTY
  BY Constants DEF Layout, IsSize
<1>2. u \in [0 .. n - 1 -> Values(mark)]
  BY <1>1 DEF Values, Put
<1>3. u[at] = key /\ \A b \in 0 .. n - 1 : b # at => u[b] = t[b]
  BY <1>1 DEF Put
<1>4. \A b \in 0 .. n - 1 : t[b] # key
  BY DEF Contents
<1> HIDE DEF u
<1>5. ASSUME NEW b \in 0 .. n - 1, u[b] \in Keys
      PROVE  \E j \in 0 .. n - 1 : Arrives(u, n, u[b], j, b)
  <2>1. CASE b = at
    <3>1. i \in 0 .. n - 1 /\ \A j \in 0 .. i - 1 : j \in Nat /\ j \in 0 .. n - 1
      BY <1>1 DEF Arrives
    <3>2. ASSUME NEW j \in 0 .. i - 1
          PROVE  u[Probe(key, j, n)] # EMPTY /\ u[Probe(key, j, n)] # key
      <4>1. t[Probe(key, j, n)] # EMPTY /\ Probe(key, j, n) \in 0 .. n - 1
        BY <1>1, <3>1, ProbeType DEF Arrives, Passed
      <4>2. j < i
        BY <3>1
      <4>3. Probe(key, j, n) # at
        BY <3>1, <4>2, <1>1, ProbesDiffer DEF Arrives
      <4> QED
        BY <4>1, <4>3, <1>3, <1>4
    <3>3. Passed(u, n, key, i)
      BY <3>2 DEF Passed
    <3> QED
      BY <2>1, <3>1, <3>3, <1>3 DEF Arrives
  <2>2. CASE b # at
    <3> DEFINE k == t[b]
    <3>1. u[b] = k /\ k \in Keys /\ k # key
      BY <2>2, <1>3, <1>4, <1>5
    <3>2. PICK j \in 0 .. n - 1 : Arrives(t, n, k, j, b)
      BY <3>1 DEF Layout
    <3> HIDE DEF k
    <3>3. ASSUME NEW l \in 0 .. j - 1
          PROVE  u[Probe(k, l, n)] # EMPTY /\ u[Probe(k, l, n)] # k
      <4>1. /\ t[Probe(k, l, n)] # EMPTY /\ t[Probe(k, l, n)] # k
            /\ Probe(k, l, n) \in 0 .. n - 1
        BY <1>1, <3>1, <3>2, PassedBefore
      <4> QED
        BY <4>1, <1>1, <1>3, <3>1
    <3>4. Passed(u, n, k, j)
      BY <3>3 DEF Passed
    <3> QED
      BY <3>1, <3>2, <3>4 DEF Arrives
  <2> QED
    BY <2>1, <2>2
<1>6. Layout(u, n, mark)
  BY <1>1, <1>2, <1>5 DEF Layout
<1>7. Contents(u, n) = Contents(t, n) \cup {key}
  BY <1>3 DEF Contents
<1> QED
  BY <1>6, <1>7 DEF u

\* Keys that become the mark of deleted entries are still passed by searches.
LEMMA MarkIs ==
  ASSUME NEW t, NEW n, NEW mark \in Tombstones, Layout(t, n, mark),
         NEW D, \A b \in D : b \in 0 .. n - 1 /\ t[b] \in Keys
  PROVE  /\ Layout(WithMarks(t, n, D, mark), n, mark)
         /\ Contents(WithMarks(t, n, D, mark), n) = Contents(t, n) \ {t[b] : b \in D}
<1> DEFINE u == WithMarks(t, n, D, mark)
<1>1. /\ n \in Nat /\ n > 0 /\ IsSize(n) /\ t \in [0 .. n - 1 -> Values(mark)]
      /\ mark # EMPTY /\ mark \notin Keys
  BY Constants DEF Layout, IsSize
<1>2. u \in [0 .. n - 1 -> Values(mark)]
  BY <1>1 DEF Values, WithMarks
<1>3. \A b \in 0 .. n - 1 : u[b] = IF b \in D THEN mark ELSE t[b]
  BY DEF WithMarks
<1> HIDE DEF u
<1>4. ASSUME NEW b \in 0 .. n - 1, u[b] \in Keys
      PROVE  \E j \in 0 .. n - 1 : Arrives(u, n, u[b], j, b)
  <2> DEFINE k == u[b]
  <2>1. k \in Keys /\ k = t[b] /\ k # mark
    BY <1>1, <1>3, <1>4
  <2>2. PICK j \in 0 .. n - 1 : Arrives(t, n, k, j, b)
    BY <2>1 DEF Layout
  <2> HIDE DEF k
  <2>3. ASSUME NEW l \in 0 .. j - 1
        PROVE  u[Probe(k, l, n)] # EMPTY /\ u[Probe(k, l, n)] # k
    <3>1. /\ t[Probe(k, l, n)] # EMPTY /\ t[Probe(k, l, n)] # k
          /\ Probe(k, l, n) \in 0 .. n - 1
      BY <1>1, <2>1, <2>2, PassedBefore
    <3> QED
      BY <3>1, <1>1, <1>3, <2>1
  <2>4. Passed(u, n, k, j)
    BY <2>3 DEF Passed
  <2>5. Arrives(u, n, k, j, b)
    BY <2>2, <2>4 DEF Arrives
  <2> QED
    BY <2>5 DEF k
<1>5. Layout(u, n, mark)
  BY <1>1, <1>2, <1>4 DEF Layout
<1>6. ASSUME NEW b \in 0 .. n - 1, NEW c \in 0 .. n - 1, t[b] \in Keys, t[b] = t[c]
      PROVE  b = c
  BY <1>6, KeyOnce
<1>7. Contents(u, n) = Contents(t, n) \ {t[b] : b \in D}
  <2>1. ASSUME NEW k \in Contents(u, n) PROVE k \in Contents(t, n) \ {t[b] : b \in D}
    <3>1. PICK b \in 0 .. n - 1 : u[b] = k /\ k \in Keys
      BY DEF Contents
    <3>2. b \notin D /\ t[b] = k
      BY <3>1, <1>1, <1>3
    <3> QED
      BY <3>1, <3>2, <1>6 DEF Contents
  <2>2. ASSUME NEW k \in Contents(t, n), k \notin {t[b] : b \in D} PROVE k \in Contents(u, n)
    BY <2>2, <1>3 DEF Contents
  <2> QED
    BY <2>1, <2>2
<1> QED
  BY <1>5, <1>7 DEF u

(***************************************************************************)
(* Tables: layouts with their counters.                                    *)
(***************************************************************************)
Marks == Tombstones \cup {NoKey}
Used(t, n) == {b \in 0 .. n - 1 : t[b] # EMPTY}
Marked(t, n, mark) == {b \in 0 .. n - 1 : t[b] = mark}
WithKeys(t, n) == {b \in 0 .. n - 1 : t[b] \in Keys}

LEMMA BucketsFinite ==
  ASSUME NEW n \in Nat, NEW S \in SUBSET (0 .. n - 1)
  PROVE  IsFiniteSet(S) /\ Cardinality(S) \in Nat /\ Cardinality(S) <= n
<1>1. IsFiniteSet(0 .. n - 1) /\ Cardinality(0 .. n - 1) = n
  BY FS_Interval
<1> DEFINE D == 0 .. n - 1
<1> HIDE DEF D
<1>2. IsFiniteSet(S) /\ Cardinality(S) <= n
  <2>1. S \in SUBSET D /\ IsFiniteSet(D) /\ Cardinality(D) = n
    BY <1>1 DEF D
  <2> QED
    BY <2>1, FS_Subset
<1> QED
  BY <1>2, FS_CardinalityType

\* The values of a bucket exclude each other.
LEMMA ValuesDiffer ==
  ASSUME NEW mark \in Marks, NEW v \in Values(mark)
  PROVE  /\ mark # EMPTY /\ mark \notin Keys /\ EMPTY \notin Keys
         /\ v \in Keys \/ v = EMPTY \/ v = mark
         /\ mark = NoKey => v # mark
BY Constants DEF Marks, Values

LEMMA CountsAre ==
  ASSUME NEW n \in Nat, NEW mark \in Marks, NEW t \in [0 .. n - 1 -> Values(mark)]
  PROVE  /\ IsFiniteSet(Used(t, n)) /\ IsFiniteSet(Marked(t, n, mark)) /\ IsFiniteSet(WithKeys(t, n))
         /\ Cardinality(Used(t, n)) \in Nat /\ Cardinality(Used(t, n)) <= n
         /\ Cardinality(Marked(t, n, mark)) \in Nat /\ Cardinality(WithKeys(t, n)) \in Nat
         /\ Cardinality(Used(t, n)) = Cardinality(WithKeys(t, n)) + Cardinality(Marked(t, n, mark))
         /\ Cardinality(Marked(t, n, mark)) = 0 <=> \A b \in 0 .. n - 1 : t[b] # mark
<1> DEFINE U == Used(t, n)
           M == Marked(t, n, mark)
           K == WithKeys(t, n)
<1>1. U \in SUBSET (0 .. n - 1) /\ M \in SUBSET (0 .. n - 1) /\ K \in SUBSET (0 .. n - 1)
  BY DEF Used, Marked, WithKeys
<1>2. U = K \cup M /\ K \cap M = {}
  <2>1. ASSUME NEW b \in 0 .. n - 1
        PROVE  /\ t[b] # EMPTY <=> t[b] \in Keys \/ t[b] = mark
               /\ ~ (t[b] \in Keys /\ t[b] = mark)
    BY ValuesDiffer
  <2> QED
    BY <2>1 DEF Used, Marked, WithKeys
<1>3. M = {} <=> \A b \in 0 .. n - 1 : t[b] # mark
  BY DEF Marked
<1> HIDE DEF U, M, K
<1>4. /\ IsFiniteSet(U) /\ IsFiniteSet(M) /\ IsFiniteSet(K)
      /\ Cardinality(U) \in Nat /\ Cardinality(U) <= n
      /\ Cardinality(M) \in Nat /\ Cardinality(K) \in Nat
  BY <1>1, BucketsFinite
<1>5. Cardinality(U) = Cardinality(K) + Cardinality(M)
  <2>1. Cardinality(K \cup M) = Cardinality(K) + Cardinality(M) - Cardinality(K \cap M)
    BY <1>4, FS_Union
  <2>2. Cardinality(K \cap M) = 0
    BY <1>2, FS_EmptySet
  <2> QED
    BY <2>1, <2>2, <1>2, <1>4
<1>6. Cardinality(M) = 0 <=> M = {}
  BY <1>4, FS_EmptySet
<1> QED
  BY <1>3, <1>4, <1>5, <1>6 DEF U, M, K

IsRecord(h, n) ==
  h \in [table : [0 .. n - 1 -> Values(h.deleted_key)], num_elements : Nat, num_deleted : Nat,
         consider_shrink : BOOLEAN, deleted_key : Marks]

IsTable(h, n) ==
  /\ n \in Sizes /\ IsRecord(h, n) /\ Layout(h.table, n, h.deleted_key)
  /\ h.num_elements = Cardinality(Used(h.table, n))
  /\ h.num_deleted = Cardinality(Marked(h.table, n, h.deleted_key))

LEMMA SizeIs ==
  ASSUME NEW n \in Sizes
  PROVE  /\ IsSize(n) /\ n \in Nat /\ n >= 4 /\ n % 2 = 0
         /\ n <= Doubled[MaxDoublings] /\ Doubled[MaxDoublings] \in Sizes
         /\ Doubled[MaxDoublings] \in Nat /\ MaxItems \in Nat
         /\ 2 * (MaxItems + 1) = Doubled[MaxDoublings]
<1>1. PICK i \in 0 .. MaxDoublings : n = Doubled[i]
  BY DEF Sizes
<1>2. MaxDoublings \in 0 .. MaxDoublings
  BY Constants
<1> DEFINE d == Doubled[MaxDoublings]
<1>3. d \in Nat /\ d >= 4 /\ d % 2 = 0 /\ d \in Sizes
  BY <1>2, SizesAre DEF IsSize, Sizes
<1>4. IsSize(n) /\ n <= d
  BY <1>1, SizesAre
<1>5. MaxItems = d \div 2 - 1
  BY DEF MaxItems
<1> HIDE DEF d
<1>6. MaxItems \in Nat /\ 2 * (MaxItems + 1) = d
  BY <1>3, <1>5
<1> QED
  BY <1>3, <1>4, <1>6 DEF IsSize, d

LEMMA CountOfDomain ==
  ASSUME NEW n \in Nat, NEW h, DOMAIN h.table = 0 .. n - 1
  PROVE  bucket_count(h) = n
BY FS_Interval DEF bucket_count

LEMMA TableFacts ==
  ASSUME NEW n, NEW h, IsTable(h, n)
  PROVE  /\ IsSize(n) /\ n \in Nat /\ n >= 4
         /\ bucket_count(h) = n /\ DOMAIN h.table = 0 .. n - 1
         /\ h.table \in [0 .. n - 1 -> Values(h.deleted_key)] /\ h.deleted_key \in Marks
         /\ h.num_elements \in Nat /\ h.num_deleted \in Nat /\ h.num_elements <= n
         /\ size(h) \in Nat /\ size(h) <= h.num_elements
         /\ size(h) = Cardinality(WithKeys(h.table, n))
         /\ \A b \in 0 .. n - 1 : /\ test_deleted(h, b) <=> h.table[b] = h.deleted_key
                                  /\ IsLive(h, b) <=> h.table[b] \in Keys
         /\ LiveBuckets(h) = WithKeys(h.table, n)
         /\ size(h) = 0 <=> Contents(h.table, n) = {}
<1>1. IsSize(n) /\ n \in Nat /\ n >= 4
  BY SizeIs DEF IsTable
<1>2. /\ h.table \in [0 .. n - 1 -> Values(h.deleted_key)] /\ h.deleted_key \in Marks
      /\ h.num_elements \in Nat /\ h.num_deleted \in Nat /\ DOMAIN h.table = 0 .. n - 1
  BY DEF IsTable, IsRecord
<1>3. bucket_count(h) = n
  BY <1>1, <1>2, CountOfDomain
<1> DEFINE t == h.table
           mark == h.deleted_key
<1>4. /\ h.num_elements <= n
      /\ h.num_elements = Cardinality(WithKeys(t, n)) + h.num_deleted
      /\ Cardinality(WithKeys(t, n)) \in Nat
      /\ h.num_deleted = 0 <=> \A b \in 0 .. n - 1 : t[b] # mark
      /\ IsFiniteSet(WithKeys(t, n))
  BY <1>1, <1>2, CountsAre DEF IsTable
<1>5. /\ size(h) \in Nat /\ size(h) <= h.num_elements
      /\ size(h) = Cardinality(WithKeys(t, n))
  BY <1>2, <1>4 DEF size
<1>6. ASSUME NEW b \in 0 .. n - 1
      PROVE  /\ test_deleted(h, b) <=> h.table[b] = h.deleted_key
             /\ IsLive(h, b) <=> h.table[b] \in Keys
  <2>1. /\ mark # EMPTY /\ mark \notin Keys /\ EMPTY \notin Keys
        /\ t[b] \in Keys \/ t[b] = EMPTY \/ t[b] = mark
        /\ mark = NoKey => t[b] # mark
    BY <1>2, ValuesDiffer
  <2>2. t[b] = mark => h.num_deleted > 0
    BY <1>2, <1>4
  <2>3. test_deleted(h, b) <=> t[b] = mark
    BY <2>1, <2>2, <1>4 DEF test_deleted
  <2> QED
    BY <2>1, <2>3 DEF IsLive
<1>7. LiveBuckets(h) = WithKeys(h.table, n)
  BY <1>2, <1>6 DEF LiveBuckets, WithKeys
<1>8. size(h) = 0 <=> Contents(h.table, n) = {}
  <2>1. size(h) = 0 <=> WithKeys(t, n) = {}
    BY <1>4, <1>5, FS_EmptySet
  <2> QED
    BY <2>1 DEF Contents, WithKeys
<1> QED
  BY <1>1, <1>2, <1>3, <1>4, <1>5, <1>6, <1>7, <1>8

LEMMA SearchEnds ==
  ASSUME NEW n, NEW h, IsTable(h, n), h.num_elements < n, NEW key \in Keys
  PROVE  Ends(h.table, n, key) # {} /\ Stops(h, key) = Ends(h.table, n, key)
<1>1. IsSize(n) /\ n \in Nat /\ bucket_count(h) = n
  BY TableFacts
<1>2. \E b \in 0 .. n - 1 : h.table[b] = EMPTY
  <2> SUFFICES ASSUME \A b \in 0 .. n - 1 : h.table[b] # EMPTY PROVE FALSE
    OBVIOUS
  <2>1. Used(h.table, n) = 0 .. n - 1
    BY DEF Used
  <2>2. h.num_elements = n
    <3>1. Cardinality(0 .. n - 1) = n
      BY <1>1, FS_Interval
    <3>2. h.num_elements = Cardinality(Used(h.table, n))
      BY DEF IsTable
    <3> QED
      BY <2>1, <3>1, <3>2
  <2> QED
    BY <1>1, <2>2
<1>3. PICK b \in 0 .. n - 1 : h.table[b] = EMPTY
  BY <1>2
<1>4. PICK i \in 0 .. n - 1 : Probe(key, i, n) = b
  BY <1>1, ProbesCover
<1>5. i \in Ends(h.table, n, key)
  BY <1>3, <1>4 DEF Ends
<1> QED
  BY <1>1, <1>5 DEF Stops, Ends

\* What find_position returns.
IsPosition(spot, h, n, key) ==
  /\ spot.found \in BOOLEAN /\ spot.at \in 0 .. n - 1
  /\ spot.found <=> key \in Contents(h.table, n)
  /\ spot.found => h.table[spot.at] = key /\ \A b \in 0 .. n - 1 : h.table[b] = key => b = spot.at
  /\ ~ spot.found => /\ h.table[spot.at] \notin Keys
                    /\ \E i \in 0 .. n - 1 : Arrives(h.table, n, key, i, spot.at)

LEMMA FindPositionIs ==
  ASSUME NEW n, NEW h, IsTable(h, n), h.num_elements < n, NEW key \in Keys
  PROVE  IsPosition(find_position(h, key), h, n, key)
<1> DEFINE t == h.table
           m == Min(Ends(t, n, key))
           b == Probe(key, m, n)
           freed == {i \in 0 .. m : test_deleted(h, Probe(key, i, n))}
           f == IF freed = {} THEN m ELSE Min(freed)
           spot == find_position(h, key)
<1>1. /\ IsSize(n) /\ n \in Nat /\ bucket_count(h) = n /\ n > 0
      /\ t \in [0 .. n - 1 -> Values(h.deleted_key)] /\ h.deleted_key \in Marks
      /\ \A c \in 0 .. n - 1 : test_deleted(h, c) <=> t[c] = h.deleted_key
  BY TableFacts
<1>2. Stops(h, key) = Ends(t, n, key) /\ Ends(t, n, key) # {}
  BY SearchEnds
<1>3. spot = IF t[b] = key THEN [found |-> TRUE, at |-> b]
            ELSE [found |-> FALSE, at |-> Probe(key, f, n)]
  BY <1>1, <1>2, Zenon DEF find_position
<1>4. /\ m \in 0 .. n - 1 /\ b \in 0 .. n - 1 /\ Arrives(t, n, key, m, b)
      /\ t[b] = key \/ t[b] = EMPTY
      /\ \A c \in 0 .. n - 1 : t[c] = key => c = b
  <2>1. Layout(t, n, h.deleted_key)
    BY DEF IsTable
  <2> HIDE DEF t
  <2> QED
    BY <1>2, <2>1, SearchArrives
<1>5. key \in Contents(t, n) <=> t[b] = key
  BY <1>4 DEF Contents
<1> HIDE DEF m, t
<1>6. CASE t[b] = key
  BY <1>3, <1>4, <1>5, <1>6 DEF IsPosition, t
<1>7. CASE t[b] # key
  <2>1. f \in 0 .. m /\ f \in 0 .. n - 1 /\ t[Probe(key, f, n)] \notin Keys
    <3>1. CASE freed = {}
      <4>1. f = m
        BY <3>1
      <4>2. EMPTY \notin Keys
        BY Constants
      <4> QED
        BY <4>1, <4>2, <1>4, <1>7
    <3>2. CASE freed # {}
      <4>1. f \in freed
        <5>1. freed \in SUBSET Nat
          BY <1>4
        <5> HIDE DEF freed
        <5> QED
          BY <3>2, <5>1, MinIs
      <4>2. f \in 0 .. m /\ test_deleted(h, Probe(key, f, n))
        BY <4>1
      <4> HIDE DEF f
      <4>3. f \in 0 .. n - 1 /\ Probe(key, f, n) \in 0 .. n - 1
        BY <1>1, <1>4, <4>2, ProbeType
      <4>4. t[Probe(key, f, n)] = h.deleted_key
        BY <1>1, <4>2, <4>3
      <4> QED
        BY <1>1, <4>2, <4>3, <4>4, ValuesDiffer
    <3> QED
      BY <3>1, <3>2
  <2> HIDE DEF f
  <2>2. Probe(key, f, n) \in 0 .. n - 1
    BY <1>1, <2>1, ProbeType
  <2>3. Passed(t, n, key, f)
    <3>1. \A j \in 0 .. f - 1 : j \in 0 .. m - 1
      BY <2>1, <1>4
    <3> QED
      BY <3>1, <1>4, Zenon DEF Arrives, Passed
  <2>4. Arrives(t, n, key, f, Probe(key, f, n))
    BY <2>1, <2>3 DEF Arrives
  <2> QED
    BY <1>3, <1>5, <1>7, <2>1, <2>2, <2>4 DEF IsPosition, t
<1> QED
  BY <1>6, <1>7

\* find() tells whether a key is stored.
LEMMA FindIs ==
  ASSUME NEW n, NEW h, IsTable(h, n), h.num_elements < n, NEW key \in Keys
  PROVE  find(h, key) = (key \in Contents(h.table, n))
<1>1. find_position(h, key).found <=> key \in Contents(h.table, n)
  BY FindPositionIs DEF IsPosition
<1>2. size(h) = 0 => Contents(h.table, n) = {}
  BY TableFacts
<1>3. find(h, key) <=> key \in Contents(h.table, n)
  BY <1>1, <1>2 DEF find
<1>4. find(h, key) \in BOOLEAN
  BY DEF find
<1> QED
  BY <1>3, <1>4

(***************************************************************************)
(* What changes one entry.                                                 *)
(***************************************************************************)
LEMMA UsedAfterPut ==
  ASSUME NEW n \in Nat, NEW mark \in Marks, NEW t \in [0 .. n - 1 -> Values(mark)],
         NEW key \in Keys, NEW at \in 0 .. n - 1, t[at] \notin Keys
  PROVE  LET u == Put(t, at, key)
         IN  /\ t[at] = mark => /\ Cardinality(Used(u, n)) = Cardinality(Used(t, n))
                                /\ Cardinality(Marked(u, n, mark)) = Cardinality(Marked(t, n, mark)) - 1
             /\ t[at] # mark => /\ Cardinality(Used(u, n)) = Cardinality(Used(t, n)) + 1
                                /\ Cardinality(Marked(u, n, mark)) = Cardinality(Marked(t, n, mark))
<1> DEFINE u == Put(t, at, key)
<1>1. /\ mark # EMPTY /\ mark # key /\ key # EMPTY
      /\ t[at] # mark => t[at] = EMPTY
  BY ValuesDiffer, Constants
<1>2. u[at] = key /\ \A b \in 0 .. n - 1 : b # at => u[b] = t[b]
  BY DEF Put
<1>3. IsFiniteSet(Used(t, n)) /\ IsFiniteSet(Marked(t, n, mark))
  BY CountsAre
<1> HIDE DEF u
<1>4. CASE t[at] = mark
  <2>1. Used(u, n) = Used(t, n)
    BY <1>1, <1>2, <1>4 DEF Used
  <2>2. Marked(u, n, mark) = Marked(t, n, mark) \ {at} /\ at \in Marked(t, n, mark)
    BY <1>1, <1>2, <1>4 DEF Marked
  <2> QED
    BY <1>3, <1>4, <2>1, <2>2, FS_RemoveElement DEF u
<1>5. CASE t[at] # mark
  <2>1. Used(u, n) = Used(t, n) \cup {at} /\ at \notin Used(t, n)
    BY <1>1, <1>2, <1>5 DEF Used
  <2>2. Marked(u, n, mark) = Marked(t, n, mark)
    BY <1>1, <1>2, <1>5 DEF Marked
  <2> QED
    BY <1>3, <1>5, <2>1, <2>2, FS_AddElement DEF u
<1> QED
  BY <1>4, <1>5

LEMMA InsertIs ==
  ASSUME NEW n, NEW h, IsTable(h, n), h.num_elements < n, NEW key \in Keys
  PROVE  LET g == insert_noresize(h, key)
         IN  /\ IsTable(g, n) /\ g.deleted_key = h.deleted_key
             /\ Contents(g.table, n) = Contents(h.table, n) \cup {key}
             /\ g.num_elements <= h.num_elements + 1
<1> DEFINE spot == find_position(h, key)
           at == spot.at
           t == h.table
           mark == h.deleted_key
           u == Put(t, at, key)
           g == insert_noresize(h, key)
<1>1. /\ IsSize(n) /\ n \in Nat /\ t \in [0 .. n - 1 -> Values(mark)] /\ mark \in Marks
      /\ h.num_elements \in Nat /\ h.num_deleted \in Nat
      /\ \A b \in 0 .. n - 1 : test_deleted(h, b) <=> t[b] = mark
  BY TableFacts
<1>2. IsPosition(spot, h, n, key)
  BY FindPositionIs
<1>3. CASE spot.found
  <2>1. g = h
    BY <1>3 DEF insert_noresize
  <2>2. key \in Contents(t, n)
    BY <1>2, <1>3 DEF IsPosition
  <2> QED
    BY <1>1, <2>1, <2>2
<1>4. CASE ~ spot.found
  <2>1. /\ at \in 0 .. n - 1 /\ key \notin Contents(t, n) /\ t[at] \notin Keys
        /\ \E i \in 0 .. n - 1 : Arrives(t, n, key, i, at)
    BY <1>2, <1>4 DEF IsPosition
  <2>2. /\ Layout(t, n, mark) /\ IsRecord(h, n)
        /\ h.num_elements = Cardinality(Used(t, n))
        /\ h.num_deleted = Cardinality(Marked(t, n, mark)) /\ n \in Sizes
    BY DEF IsTable
  <2>3. g = IF t[at] = mark THEN [h EXCEPT !.table = u, !.num_deleted = @ - 1]
            ELSE [h EXCEPT !.table = u, !.num_elements = @ + 1]
    BY <1>1, <1>4, <2>1 DEF insert_noresize, Put
  <2> HIDE DEF spot
  <2>4. Layout(u, n, mark) /\ Contents(u, n) = Contents(t, n) \cup {key}
    <3>1. PICK i \in 0 .. n - 1 : Arrives(t, n, key, i, at)
      BY <2>1
    <3> HIDE DEF t, mark, at
    <3> QED
      BY <2>1, <2>2, <3>1, PutIs
  <2>5. /\ t[at] = mark => /\ Cardinality(Used(u, n)) = Cardinality(Used(t, n))
                           /\ Cardinality(Marked(u, n, mark)) = Cardinality(Marked(t, n, mark)) - 1
        /\ t[at] # mark => /\ Cardinality(Used(u, n)) = Cardinality(Used(t, n)) + 1
                           /\ Cardinality(Marked(u, n, mark)) = Cardinality(Marked(t, n, mark))
    <3> HIDE DEF t, mark
    <3> QED
      BY <1>1, <2>1, UsedAfterPut
  <2>6. u \in [0 .. n - 1 -> Values(mark)]
    BY <2>4 DEF Layout
  <2>7. t[at] = mark => h.num_deleted # 0
    BY <1>1, <2>1, <2>2, CountsAre
  <2> HIDE DEF u, g
  <2>8. ASSUME t[at] = mark PROVE IsTable(g, n)
    <3>1. g = [h EXCEPT !.table = u, !.num_deleted = @ - 1]
      BY <2>3, <2>8
    <3>2. h.num_deleted - 1 \in Nat
      BY <1>1, <2>7, <2>8
    <3>3. /\ g.table = u /\ g.num_elements = h.num_elements /\ g.num_deleted = h.num_deleted - 1
          /\ g.deleted_key = mark /\ IsRecord(g, n)
      BY <2>2, <2>6, <3>1, <3>2 DEF IsRecord
    <3> QED
      BY <2>2, <2>4, <2>5, <2>8, <3>3 DEF IsTable
  <2>9. ASSUME t[at] # mark PROVE IsTable(g, n)
    <3>1. g = [h EXCEPT !.table = u, !.num_elements = @ + 1]
      BY <2>3, <2>9
    <3>2. h.num_elements + 1 \in Nat
      BY <1>1
    <3>3. /\ g.table = u /\ g.num_elements = h.num_elements + 1 /\ g.num_deleted = h.num_deleted
          /\ g.deleted_key = mark /\ IsRecord(g, n)
      BY <2>2, <2>6, <3>1, <3>2 DEF IsRecord
    <3> QED
      BY <2>2, <2>4, <2>5, <2>9, <3>3 DEF IsTable
  <2>10. g.table = u /\ g.deleted_key = mark /\ g.num_elements <= h.num_elements + 1
    <3>1. CASE t[at] = mark
      <4>1. g = [h EXCEPT !.table = u, !.num_deleted = @ - 1]
        BY <2>3, <3>1
      <4> QED
        BY <1>1, <2>2, <4>1 DEF IsRecord
    <3>2. CASE t[at] # mark
      <4>1. g = [h EXCEPT !.table = u, !.num_elements = @ + 1]
        BY <2>3, <3>2
      <4> QED
        BY <1>1, <2>2, <4>1 DEF IsRecord
    <3> QED
      BY <3>1, <3>2
  <2> QED
    BY <2>4, <2>8, <2>9, <2>10 DEF g
<1> QED
  BY <1>3, <1>4

LEMMA EraseIs ==
  ASSUME NEW n, NEW h, IsTable(h, n), h.deleted_key # NoKey,
         NEW D \in SUBSET WithKeys(h.table, n)
  PROVE  LET g == set_deleted(h, D)
         IN  /\ IsTable(g, n) /\ g.num_elements = h.num_elements
             /\ g.deleted_key = h.deleted_key
             /\ Contents(g.table, n) = Contents(h.table, n) \ {h.table[b] : b \in D}
             /\ WithKeys(g.table, n) = WithKeys(h.table, n) \ D
             /\ \A b \in WithKeys(g.table, n) : g.table[b] = h.table[b]
<1> DEFINE t == h.table
           mark == h.deleted_key
           u == WithMarks(t, n, D, mark)
           g == set_deleted(h, D)
<1>1. /\ IsSize(n) /\ n \in Nat /\ t \in [0 .. n - 1 -> Values(mark)] /\ mark \in Tombstones
      /\ h.num_elements \in Nat /\ h.num_deleted \in Nat /\ DOMAIN t = 0 .. n - 1
      /\ LiveBuckets(h) = WithKeys(t, n) /\ mark \in Marks
  BY TableFacts DEF Marks
<1>2. /\ Layout(t, n, mark) /\ IsRecord(h, n) /\ n \in Sizes
      /\ h.num_elements = Cardinality(Used(t, n))
      /\ h.num_deleted = Cardinality(Marked(t, n, mark))
  BY DEF IsTable
<1>3. D \cap LiveBuckets(h) = D
  BY <1>1
<1>4. g = [h EXCEPT !.table = u, !.num_deleted = @ + Cardinality(D), !.consider_shrink = TRUE]
  BY <1>1, <1>3 DEF set_deleted, WithMarks
<1>5. \A b \in D : b \in 0 .. n - 1 /\ t[b] \in Keys
  BY DEF WithKeys
<1>6. D \in SUBSET (0 .. n - 1)
  BY <1>5
<1>7. /\ WithKeys(u, n) = WithKeys(t, n) \ D
       /\ \A b \in WithKeys(u, n) : u[b] = t[b]
  <2>1. mark \notin Keys
    BY <1>1, Constants
  <2>2. \A b \in 0 .. n - 1 : u[b] = IF b \in D THEN mark ELSE t[b]
    BY Zenon DEF WithMarks
  <2> HIDE DEF u, t, mark
  <2> QED
    BY <2>1, <2>2, <1>5 DEF WithKeys
<1>8. IsFiniteSet(D) /\ Cardinality(D) \in Nat
  BY <1>1, <1>6, BucketsFinite
<1> HIDE DEF t, mark
<1>9. Layout(u, n, mark) /\ Contents(u, n) = Contents(t, n) \ {t[b] : b \in D}
  BY <1>1, <1>2, <1>5, MarkIs
<1>10. u \in [0 .. n - 1 -> Values(mark)]
  BY <1>9 DEF Layout
<1>11. mark # EMPTY /\ mark \notin Keys /\ EMPTY \notin Keys
  BY Constants, <1>1
<1>12. Used(u, n) = Used(t, n) /\ Marked(u, n, mark) = Marked(t, n, mark) \cup D
  BY <1>5, <1>11 DEF Used, Marked, WithMarks
<1>13. Cardinality(Marked(u, n, mark)) = h.num_deleted + Cardinality(D)
  <2>1. Marked(t, n, mark) \cap D = {}
    BY <1>5, <1>11 DEF Marked
  <2>2. IsFiniteSet(Marked(t, n, mark))
    BY <1>1, CountsAre
  <2>3. Cardinality(Marked(t, n, mark) \cup D)
          = Cardinality(Marked(t, n, mark)) + Cardinality(D) - Cardinality(Marked(t, n, mark) \cap D)
    BY <1>8, <2>2, FS_Union
  <2>4. Cardinality(Marked(t, n, mark) \cap D) = 0
    BY <2>1, FS_EmptySet
  <2>5. h.num_deleted \in Nat /\ Cardinality(D) \in Nat
    BY <1>1, <1>8
  <2>6. Cardinality(Marked(u, n, mark)) = h.num_deleted + Cardinality(D) - 0
    BY <1>2, <1>12, <2>3, <2>4, Zenon
  <2> QED
    BY <2>5, <2>6
<1> HIDE DEF u
<1>14. h.num_deleted + Cardinality(D) \in Nat
  BY <1>1, <1>8
<1>15. /\ g.table = u /\ g.num_elements = h.num_elements
       /\ g.num_deleted = h.num_deleted + Cardinality(D)
       /\ g.deleted_key = mark /\ IsRecord(g, n)
  BY <1>2, <1>4, <1>10, <1>14 DEF IsRecord, mark
<1> HIDE DEF g
<1>16. IsTable(g, n)
  BY <1>2, <1>9, <1>12, <1>13, <1>15 DEF IsTable
<1> QED
  BY <1>9, <1>15, <1>16, <1>7 DEF g, t, mark

(***************************************************************************)
(* Rebuilding.                                                             *)
(***************************************************************************)
LEMMA MinSizeIs ==
  ASSUME NEW e \in Nat, e <= MaxItems, NEW w \in Nat, w <= Doubled[MaxDoublings]
  PROVE  /\ min_size(e, w) \in Sizes /\ min_size(e, w) >= w /\ 2 * e < min_size(e, w)
         /\ \A n \in Sizes : n >= w /\ 2 * e < n => min_size(e, w) <= n
<1> DEFINE S == {n \in Sizes : n >= w /\ 2 * e < n}
           d == Doubled[MaxDoublings]
<1>1. d \in Sizes /\ d \in Nat /\ MaxItems \in Nat /\ 2 * (MaxItems + 1) = d
  BY Constants, SizeIs
<1>2. d \in S
  <2> HIDE DEF d
  <2> QED
    BY <1>1 DEF d
<1>3. S \in SUBSET Nat
  BY SizeIs
<1>4. Min(S) \in S /\ \A y \in S : Min(S) <= y
  BY <1>2, <1>3, MinIs
<1> QED
  BY <1>4 DEF min_size

LEMMA BlankIs ==
  ASSUME NEW n \in Sizes, NEW mark \in Marks
  PROVE  /\ IsTable(Blank(n, mark), n) /\ Contents(Blank(n, mark).table, n) = {}
         /\ Blank(n, mark).num_elements = 0 /\ Blank(n, mark).deleted_key = mark
         /\ Layout(Blank(n, mark).table, n, NoKey) /\ Used(Blank(n, mark).table, n) = {}
<1> DEFINE t == [b \in 0 .. n - 1 |-> EMPTY]
           g == Blank(n, mark)
<1>1. IsSize(n) /\ EMPTY \notin Keys /\ mark # EMPTY
  BY SizeIs, Constants DEF Marks
<1>2. t \in [0 .. n - 1 -> Values(mark)] /\ t \in [0 .. n - 1 -> Values(NoKey)]
  BY DEF Values
<1>3. \A b \in 0 .. n - 1 : t[b] = EMPTY
  OBVIOUS
<1>4. /\ g.table = t /\ g.num_elements = 0 /\ g.num_deleted = 0 /\ g.deleted_key = mark
      /\ IsRecord(g, n)
  BY <1>2 DEF Blank, IsRecord
<1> HIDE DEF t, g
<1>5. Layout(t, n, mark) /\ Layout(t, n, NoKey)
  BY <1>1, <1>2, <1>3 DEF Layout
<1>6. Used(t, n) = {} /\ Marked(t, n, mark) = {} /\ Contents(t, n) = {}
  BY <1>1, <1>3 DEF Used, Marked, Contents
<1>7. IsTable(g, n)
  BY <1>4, <1>5, <1>6, FS_EmptySet DEF IsTable
<1> QED
  BY <1>4, <1>5, <1>6, <1>7 DEF g

LiveBelow(h, n, c) == {b \in 0 .. n - 1 : b < c /\ h.table[b] \in Keys}

\* t, of n buckets, holds what h, of m buckets, has below bucket c.
Copied(t, n, h, m, c) ==
  /\ Layout(t, n, NoKey)
  /\ Contents(t, n) = {h.table[b] : b \in LiveBelow(h, m, c)}
  /\ Cardinality(Used(t, n)) = Cardinality(LiveBelow(h, m, c))

LEMMA SlotArrives ==
  ASSUME NEW t, NEW n, Layout(t, n, NoKey), Cardinality(Used(t, n)) < n,
         NEW key \in Keys, key \notin Contents(t, n)
  PROVE  /\ Slot(t, key, n) \in 0 .. n - 1 /\ t[Slot(t, key, n)] = EMPTY
         /\ \E i \in 0 .. n - 1 : Arrives(t, n, key, i, Slot(t, key, n))
<1> DEFINE E == {i \in 0 .. n - 1 : t[Probe(key, i, n)] = EMPTY}
           m == Min(E)
<1>1. IsSize(n) /\ n \in Nat /\ n > 0
  BY DEF Layout, IsSize
<1>2. \E b \in 0 .. n - 1 : t[b] = EMPTY
  <2> SUFFICES ASSUME \A b \in 0 .. n - 1 : t[b] # EMPTY PROVE FALSE
    OBVIOUS
  <2>1. Used(t, n) = 0 .. n - 1
    BY DEF Used
  <2>2. Cardinality(Used(t, n)) = n
    BY <1>1, <2>1, FS_Interval
  <2> QED
    BY <1>1, <2>2
<1>3. E # {}
  <2>1. PICK b \in 0 .. n - 1 : t[b] = EMPTY
    BY <1>2
  <2>2. PICK i \in 0 .. n - 1 : Probe(key, i, n) = b
    BY <1>1, ProbesCover
  <2> QED
    BY <2>1, <2>2
<1>4. m \in E /\ \A i \in E : m <= i
  <2>1. E \in SUBSET Nat
    BY <1>1
  <2> HIDE DEF E
  <2> QED
    BY <1>3, <2>1, MinIs
<1>5. Slot(t, key, n) = Probe(key, m, n)
  BY Zenon DEF Slot
<1>6. m \in 0 .. n - 1 /\ t[Probe(key, m, n)] = EMPTY
  BY <1>4
<1> HIDE DEF m
<1>7. Probe(key, m, n) \in 0 .. n - 1
  BY <1>1, <1>6, ProbeType
<1>8. ASSUME NEW j \in 0 .. m - 1
      PROVE  t[Probe(key, j, n)] # EMPTY /\ t[Probe(key, j, n)] # key
  <2>1. j \in 0 .. n - 1 /\ ~ (m <= j)
    BY <1>1, <1>6
  <2>2. t[Probe(key, j, n)] # EMPTY
    BY <1>4, <2>1
  <2>3. Probe(key, j, n) \in 0 .. n - 1
    BY <1>1, <2>1, ProbeType
  <2> QED
    BY <2>2, <2>3 DEF Contents
<1>9. Arrives(t, n, key, m, Probe(key, m, n))
  BY <1>6, <1>8 DEF Arrives, Passed
<1> QED
  BY <1>5, <1>6, <1>7, <1>9

LEMMA CopyStep ==
  ASSUME NEW m, NEW h, IsTable(h, m), NEW c \in 0 .. m - 1,
         NEW n, 2 * size(h) < n, NEW t, Copied(t, n, h, m, c)
  PROVE  LET key == h.table[c]
         IN  /\ key \notin Keys => Copied(t, n, h, m, c + 1)
             /\ key \in Keys => Copied(Put(t, Slot(t, key, n), key), n, h, m, c + 1)
<1> DEFINE key == h.table[c]
           at == Slot(t, key, n)
           u == Put(t, at, key)
           L == LiveBelow(h, m, c)
           K == LiveBelow(h, m, c + 1)
<1>1. /\ m \in Nat /\ size(h) \in Nat /\ size(h) = Cardinality(WithKeys(h.table, m))
      /\ Layout(h.table, m, h.deleted_key)
  BY TableFacts DEF IsTable
<1>2. /\ IsSize(n) /\ n \in Nat /\ Layout(t, n, NoKey)
      /\ t \in [0 .. n - 1 -> Values(NoKey)] /\ NoKey \in Marks
  BY DEF Copied, Layout, IsSize, Marks
<1>3. CASE key \notin Keys
  <2>1. K = L
    BY <1>1, <1>3 DEF LiveBelow
  <2> QED
    BY <1>3, <2>1 DEF Copied
<1>4. CASE key \in Keys
  <2>1. K = L \cup {c} /\ c \notin L /\ L \subseteq WithKeys(h.table, m)
    BY <1>1, <1>4 DEF LiveBelow, WithKeys
  <2>2. key \notin Contents(t, n)
    <3> SUFFICES ASSUME key \in Contents(t, n) PROVE FALSE
      OBVIOUS
    <3>1. PICK b \in L : h.table[b] = key
      BY DEF Copied
    <3>2. b \in 0 .. m - 1 /\ b < c
      BY DEF LiveBelow
    <3>3. b = c
      BY <1>1, <1>4, <3>1, <3>2, KeyOnce
    <3> QED
      BY <1>1, <3>2, <3>3
  <2>3. IsFiniteSet(L) /\ Cardinality(L) \in Nat /\ Cardinality(L) <= size(h)
    <3>1. WithKeys(h.table, m) \in SUBSET (0 .. m - 1)
      BY DEF WithKeys
    <3>2. IsFiniteSet(WithKeys(h.table, m))
      BY <1>1, <3>1, BucketsFinite
    <3> HIDE DEF L
    <3> QED
      BY <1>1, <2>1, <3>2, FS_Subset, FS_CardinalityType
  <2>4. Cardinality(Used(t, n)) < n
    BY <1>1, <1>2, <2>3 DEF Copied
  <2>5. /\ at \in 0 .. n - 1 /\ t[at] = EMPTY
        /\ \E i \in 0 .. n - 1 : Arrives(t, n, key, i, at)
    BY <1>2, <1>4, <2>2, <2>4, SlotArrives
  <2>6. EMPTY \notin Keys /\ EMPTY # NoKey
    BY Constants
  <2> HIDE DEF at, key
  <2>7. Layout(u, n, NoKey) /\ Contents(u, n) = Contents(t, n) \cup {key}
    BY <1>2, <1>4, <2>2, <2>5, <2>6, PutIs
  <2>8. Cardinality(Used(u, n)) = Cardinality(Used(t, n)) + 1
    BY <1>2, <1>4, <2>5, <2>6, UsedAfterPut
  <2>9. Cardinality(K) = Cardinality(L) + 1
    <3> HIDE DEF L, K
    <3> QED
      BY <2>1, <2>3, FS_AddElement
  <2>10. {h.table[b] : b \in K} = {h.table[b] : b \in L} \cup {key}
    BY <2>1 DEF key
  <2>11. Copied(u, n, h, m, c + 1)
    <3> HIDE DEF u
    <3> QED
      BY <2>7, <2>8, <2>9, <2>10 DEF Copied
  <2> QED
    BY <1>4, <2>11 DEF at, key
<1> QED
  BY <1>3, <1>4

\* g is the function of copy_from, for n buckets, up to bucket m of h.
Copies(g, h, n, m) ==
  g = [b \in 0 .. m |->
         LET table == g[b - 1]
         IN  IF b = 0 THEN Blank(n, h.deleted_key).table
             ELSE IF IsLive(h, b - 1)
             THEN [table EXCEPT ![Slot(table, h.table[b - 1], n)] = h.table[b - 1]]
             ELSE table]

LEMMA CopiesExist ==
  ASSUME NEW h, NEW n, NEW m \in Nat
  PROVE  \E g : Copies(g, h, n, m)
<1> DEFINE S == {k \in Nat : \E g : Copies(g, h, n, k)}
           first == Blank(n, h.deleted_key).table
           next(table, b) ==
             IF IsLive(h, b - 1)
             THEN [table EXCEPT ![Slot(table, h.table[b - 1], n)] = h.table[b - 1]]
             ELSE table
<1>1. \A g, k : Copies(g, h, n, k)
                  <=> g = [b \in 0 .. k |-> IF b = 0 THEN first ELSE next(g[b - 1], b)]
  BY Zenon DEF Copies
<1> HIDE DEF first, next
<1>2. 0 \in S
  <2> DEFINE g == [b \in 0 .. 0 |-> first]
  <2>1. g = [b \in 0 .. 0 |-> IF b = 0 THEN first ELSE next(g[b - 1], b)]
    OBVIOUS
  <2>2. Copies(g, h, n, 0)
    BY <1>1, <2>1, Zenon
  <2> QED
    BY <2>2
<1>3. ASSUME NEW k \in Nat, k \in S PROVE k + 1 \in S
  <2>1. PICK g : Copies(g, h, n, k)
    BY <1>3
  <2>2. g = [b \in 0 .. k |-> IF b = 0 THEN first ELSE next(g[b - 1], b)]
    BY <1>1, <2>1, Zenon
  <2> DEFINE f == [b \in 0 .. k + 1 |-> IF b = 0 THEN first ELSE next(g[b - 1], b)]
  <2>3. \A b \in 0 .. k : f[b] = g[b]
    BY <2>2
  <2>4. f = [b \in 0 .. k + 1 |-> IF b = 0 THEN first ELSE next(f[b - 1], b)]
    <3>1. \A b \in 0 .. k + 1 : b # 0 => b - 1 \in 0 .. k
      OBVIOUS
    <3> QED
      BY <2>3, <3>1
  <2>5. Copies(f, h, n, k + 1)
    BY <1>1, <2>4, Zenon
  <2> QED
    BY <2>5
<1> HIDE DEF S
<1>4. m \in S
  BY <1>2, <1>3, NatInd
<1> QED
  BY <1>4 DEF S

\* A copy holds the same keys and no deleted entries.
LEMMA CopyIs ==
  ASSUME NEW m, NEW h, IsTable(h, m), h.num_elements <= MaxItems,
         NEW wanted \in Nat, wanted <= Doubled[MaxDoublings]
  PROVE  LET n == min_size(size(h), wanted)
             g == copy_from(h, wanted)
         IN  /\ n \in Sizes /\ n >= wanted /\ IsTable(g, n)
             /\ Contents(g.table, n) = Contents(h.table, m)
             /\ g.num_elements = size(h) /\ 2 * g.num_elements < n
             /\ g.num_deleted = 0 /\ g.deleted_key = h.deleted_key
<1> DEFINE n == min_size(size(h), wanted)
           mark == h.deleted_key
           blank == Blank(n, mark)
           f == CHOOSE x : Copies(x, h, n, m)
           g == copy_from(h, wanted)
<1>1. /\ m \in Nat /\ bucket_count(h) = m /\ size(h) \in Nat /\ size(h) <= h.num_elements
      /\ size(h) = Cardinality(WithKeys(h.table, m)) /\ LiveBuckets(h) = WithKeys(h.table, m)
      /\ \A b \in 0 .. m - 1 : IsLive(h, b) <=> h.table[b] \in Keys
      /\ mark \in Marks /\ h.num_elements \in Nat
  BY TableFacts
<1>2. n \in Sizes /\ n >= wanted /\ 2 * size(h) < n
  <2>1. size(h) <= MaxItems
    BY <1>1, SizeIs, Constants
  <2> QED
    BY <1>1, <2>1, MinSizeIs
<1>3. Copies(f, h, n, m)
  BY <1>1, CopiesExist, Zenon
<1>4. g = [blank EXCEPT !.table = f[m], !.num_elements = Cardinality(LiveBuckets(h))]
  BY <1>1, Zenon DEF copy_from, Copies
<1> HIDE DEF n, f, g
<1>5. /\ f[0] = blank.table
      /\ \A c \in 0 .. m - 1 :
           f[c + 1] = IF h.table[c] \in Keys THEN Put(f[c], Slot(f[c], h.table[c], n), h.table[c])
                      ELSE f[c]
  <2>1. f[0] = blank.table
    BY <1>1, <1>3 DEF Copies
  <2>2. ASSUME NEW c \in 0 .. m - 1
        PROVE  f[c + 1] = IF h.table[c] \in Keys THEN Put(f[c], Slot(f[c], h.table[c], n), h.table[c])
                          ELSE f[c]
    <3>1. c + 1 \in 0 .. m /\ c + 1 # 0 /\ (c + 1) - 1 = c
      BY <1>1
    <3>2. f[c + 1] = IF IsLive(h, c) THEN [f[c] EXCEPT ![Slot(f[c], h.table[c], n)] = h.table[c]]
                     ELSE f[c]
      BY <1>3, <3>1 DEF Copies
    <3> QED
      BY <1>1, <3>2 DEF Put
  <2> QED
    BY <2>1, <2>2
<1>6. Copied(f[0], n, h, m, 0)
  <2>1. LiveBelow(h, m, 0) = {}
    BY <1>1 DEF LiveBelow
  <2>2. /\ Layout(blank.table, n, NoKey) /\ Used(blank.table, n) = {}
        /\ Contents(blank.table, n) = {}
    BY <1>1, <1>2, BlankIs
  <2> HIDE DEF blank
  <2> QED
    BY <1>5, <2>1, <2>2, FS_EmptySet DEF Copied
<1> DEFINE S == {c \in Nat : c <= m => Copied(f[c], n, h, m, c)}
<1>7. 0 \in S
  BY <1>6
<1>8. ASSUME NEW c \in Nat, c \in S PROVE c + 1 \in S
  <2> SUFFICES ASSUME c + 1 <= m PROVE Copied(f[c + 1], n, h, m, c + 1)
    OBVIOUS
  <2>1. c \in 0 .. m - 1 /\ Copied(f[c], n, h, m, c)
    BY <1>1, <1>8
  <2>2. CASE h.table[c] \in Keys
    <3>1. f[c + 1] = Put(f[c], Slot(f[c], h.table[c], n), h.table[c])
      BY <1>5, <2>1, <2>2
    <3> QED
      BY <1>2, <2>1, <2>2, <3>1, CopyStep
  <2>3. CASE h.table[c] \notin Keys
    <3>1. f[c + 1] = f[c]
      BY <1>5, <2>1, <2>3
    <3> QED
      BY <1>2, <2>1, <2>3, <3>1, CopyStep
  <2> QED
    BY <2>2, <2>3
<1>9. Copied(f[m], n, h, m, m)
  <2>1. m \in S
    <3> HIDE DEF S
    <3> QED
      BY <1>1, <1>7, <1>8, NatInd
  <2> QED
    BY <1>1, <2>1
<1> DEFINE t == f[m]
<1> HIDE DEF t
<1>10. LiveBelow(h, m, m) = WithKeys(h.table, m)
  BY <1>1 DEF LiveBelow, WithKeys
<1>11. /\ Layout(t, n, NoKey) /\ Cardinality(Used(t, n)) = size(h)
       /\ Contents(t, n) = Contents(h.table, m)
  BY <1>1, <1>9, <1>10 DEF Copied, t, Contents, WithKeys
<1>12. t \in [0 .. n - 1 -> Keys \cup {EMPTY}] /\ IsSize(n)
  BY <1>11, Constants DEF Layout, Values
<1>13. t \in [0 .. n - 1 -> Values(mark)] /\ Layout(t, n, mark)
  BY <1>11, <1>12 DEF Layout, Values
<1>14. Marked(t, n, mark) = {}
  <2>1. mark \notin Keys \cup {EMPTY}
    BY <1>1, Constants DEF Marks
  <2> QED
    BY <1>12, <2>1 DEF Marked
<1>15. /\ g.table = t /\ g.num_elements = size(h) /\ g.num_deleted = 0 /\ g.deleted_key = mark
       /\ IsRecord(g, n)
  BY <1>1, <1>4, <1>13 DEF Blank, IsRecord, t
<1>16. IsTable(g, n)
  BY <1>2, <1>11, <1>13, <1>14, <1>15, FS_EmptySet DEF IsTable
<1> QED
  BY <1>2, <1>11, <1>15, <1>16 DEF g, n

\* g, of k buckets, holds what h holds, of m buckets, and has room for d more keys.
Rebuilt(g, k, h, m, d) ==
  /\ IsTable(g, k) /\ Contents(g.table, k) = Contents(h.table, m)
  /\ g.num_elements <= h.num_elements /\ 2 * (g.num_elements + d) <= k
  /\ g.deleted_key = h.deleted_key

Healthy(h, n) == IsTable(h, n) /\ h.num_elements <= MaxItems /\ 2 * h.num_elements <= n

LEMMA HealthyFacts ==
  ASSUME NEW n, NEW h, Healthy(h, n)
  PROVE  /\ IsTable(h, n) /\ n \in Nat /\ n >= 4 /\ h.num_elements \in Nat
         /\ h.num_elements < n /\ bucket_count(h) = n
         /\ size(h) \in Nat /\ size(h) <= h.num_elements
         /\ h.num_elements <= MaxItems /\ MaxItems \in Nat /\ 2 * h.num_elements <= n
BY TableFacts, SizeIs, Constants DEF Healthy

LEMMA ShrunkSizeIs ==
  ASSUME NEW m, NEW h, Healthy(h, m), m > HT_DEFAULT_STARTING_BUCKETS
  PROVE  ShrunkSize(h) \in Sizes
<1> DEFINE halves == {sz \in Sizes : 2 * sz <= m}
           S == {sz \in halves : \/ sz <= HT_DEFAULT_STARTING_BUCKETS
                                 \/ 5 * size(h) >= sz}
<1>1. bucket_count(h) = m /\ m \in Nat /\ m \in Sizes
  BY HealthyFacts DEF IsTable
<1>2. ShrunkSize(h) = Max(S)
  BY <1>1, Zenon DEF ShrunkSize
<1>3. HT_DEFAULT_STARTING_BUCKETS \in Nat /\ HT_DEFAULT_STARTING_BUCKETS >= 4
  BY Constants, SizeIs
<1>4. m >= 8
  <2>1. PICK i \in 0 .. MaxDoublings : m = Doubled[i]
    BY <1>1 DEF Sizes
  <2>2. CASE i = 0
    BY <1>3, <2>1, <2>2, DoubledIs
  <2>3. CASE i # 0
    BY <2>1, <2>3, SizesAre
  <2> QED
    BY <2>2, <2>3
<1>5. 4 \in Sizes
  <2>1. 0 \in 0 .. MaxDoublings /\ Doubled[0] = 4
    BY Constants, DoubledIs
  <2> QED
    BY <2>1 DEF Sizes
<1>6. 4 \in S
  BY <1>3, <1>4, <1>5
<1>7. S \in SUBSET Nat /\ \A sz \in S : sz <= m
  <2>1. ASSUME NEW sz \in S PROVE sz \in Nat /\ sz <= m
    <3>1. sz \in Sizes /\ 2 * sz <= m
      OBVIOUS
    <3>2. sz \in Nat
      BY <3>1, SizeIs
    <3> QED
      BY <1>1, <3>1, <3>2
  <2> QED
    BY <2>1, Zenon
<1>8. Max(S) \in S
  <2> HIDE DEF S
  <2> QED
    BY <1>1, <1>6, <1>7, MaxIs
<1> QED
  BY <1>2, <1>8

LEMMA ShrinkIs ==
  ASSUME NEW m, NEW h, Healthy(h, m)
  PROVE  \E k : Rebuilt(maybe_shrink(h), k, h, m, 0)
<1>1. /\ IsTable(h, m) /\ m \in Nat /\ h.num_elements \in Nat /\ bucket_count(h) = m
      /\ size(h) \in Nat /\ size(h) <= h.num_elements
      /\ h.num_elements <= MaxItems /\ 2 * h.num_elements <= m
  BY HealthyFacts
<1>2. CASE /\ shrink_threshold(h) > 0 /\ size(h) < shrink_threshold(h)
           /\ m > HT_DEFAULT_STARTING_BUCKETS
  <2> DEFINE w == ShrunkSize(h)
             n == min_size(size(h), w)
             g == copy_from(h, w)
  <2>1. w \in Nat /\ w <= Doubled[MaxDoublings]
    BY <1>2, ShrunkSizeIs, SizeIs
  <2>2. maybe_shrink(h) = g
    BY <1>1, <1>2 DEF maybe_shrink
  <2> HIDE DEF w
  <2>3. /\ n \in Sizes /\ IsTable(g, n) /\ Contents(g.table, n) = Contents(h.table, m)
        /\ g.num_elements = size(h) /\ 2 * g.num_elements < n /\ g.deleted_key = h.deleted_key
    BY <1>1, <2>1, CopyIs
  <2>4. n \in Nat
    BY <2>3, SizeIs
  <2> HIDE DEF n, g
  <2>5. Rebuilt(g, n, h, m, 0)
    BY <1>1, <2>3, <2>4 DEF Rebuilt
  <2> QED
    BY <2>2, <2>5
<1>3. CASE ~ (/\ shrink_threshold(h) > 0 /\ size(h) < shrink_threshold(h)
              /\ m > HT_DEFAULT_STARTING_BUCKETS)
  <2> DEFINE g == [h EXCEPT !.consider_shrink = FALSE]
  <2>1. maybe_shrink(h) = g
    BY <1>1, <1>3 DEF maybe_shrink
  <2>2. /\ g.table = h.table /\ g.num_elements = h.num_elements /\ g.num_deleted = h.num_deleted
        /\ g.deleted_key = h.deleted_key /\ IsRecord(g, m)
    BY <1>1 DEF IsTable, IsRecord
  <2> HIDE DEF g
  <2>3. IsTable(g, m)
    BY <1>1, <2>2 DEF IsTable
  <2>4. Rebuilt(g, m, h, m, 0)
    BY <1>1, <2>2, <2>3 DEF Rebuilt
  <2> QED
    BY <2>1, <2>4
<1> QED
  BY <1>2, <1>3

LEMMA RebuiltTwice ==
  ASSUME NEW f, NEW j, NEW g, NEW k, NEW h, NEW m, NEW d,
         Rebuilt(g, k, h, m, 0), Rebuilt(f, j, g, k, d), IsTable(h, m)
  PROVE  Rebuilt(f, j, h, m, d)
<1>1. h.num_elements \in Nat /\ g.num_elements \in Nat /\ f.num_elements \in Nat
  BY TableFacts DEF Rebuilt
<1> QED
  BY <1>1 DEF Rebuilt

LEMMA RebuiltHealthy ==
  ASSUME NEW g, NEW k, NEW h, NEW m, NEW d \in Nat, Rebuilt(g, k, h, m, d), Healthy(h, m)
  PROVE  Healthy(g, k)
<1>1. /\ h.num_elements \in Nat /\ g.num_elements \in Nat /\ MaxItems \in Nat /\ k \in Nat
      /\ h.num_elements <= MaxItems
  BY TableFacts, HealthyFacts DEF Rebuilt
<1> QED
  BY <1>1 DEF Rebuilt, Healthy

LEMMA UnchangedIsRebuilt ==
  ASSUME NEW h, NEW m, Healthy(h, m)
  PROVE  Rebuilt(h, m, h, m, 0)
BY HealthyFacts DEF Rebuilt

\* After resize_delta(d) there is room for d more keys.
LEMMA GrowIs ==
  ASSUME NEW m, NEW h, Healthy(h, m), NEW d \in Nat, h.num_elements + d <= MaxItems
  PROVE  \E k : Rebuilt(resize_delta(h, d), k, h, m, d)
<1> DEFINE g == Considered(h)
           e == g.num_elements + d
           roomy == bucket_count(g) > HT_MIN_BUCKETS /\ e <= enlarge_threshold(g)
           needed == min_size(e, 0)
           f == copy_from(g, min_size(size(g) + d, 0))
<1>1. resize_delta(h, d) = IF roomy \/ needed <= bucket_count(g) THEN g ELSE f
  BY Zenon DEF resize_delta
<1>2. PICK k : Rebuilt(g, k, h, m, 0)
  BY ShrinkIs, UnchangedIsRebuilt DEF Considered
<1> HIDE DEF g
<1>3. Healthy(g, k)
  BY <1>2, RebuiltHealthy
<1>4. /\ IsTable(g, k) /\ k \in Nat /\ g.num_elements \in Nat /\ bucket_count(g) = k
      /\ size(g) \in Nat /\ size(g) <= g.num_elements /\ g.num_elements <= MaxItems
      /\ h.num_elements \in Nat /\ MaxItems \in Nat /\ IsTable(h, m)
  BY <1>3, HealthyFacts
<1>5. e \in Nat /\ e <= MaxItems
  BY <1>2, <1>4 DEF Rebuilt
<1>6. Doubled[MaxDoublings] \in Nat
  BY SizeIs, Constants
<1>7. needed \in Sizes /\ needed \in Nat /\ 2 * e < needed
  BY <1>5, <1>6, MinSizeIs, SizeIs
<1>8. CASE roomy \/ needed <= bucket_count(g)
  <2>1. 2 * e <= k
    <3>1. CASE roomy
      <4>1. e <= k \div 2
        BY <1>4, <3>1 DEF enlarge_threshold
      <4> HIDE DEF e
      <4> QED
        BY <1>4, <1>5, <4>1
    <3>2. CASE needed <= k
      BY <1>4, <1>5, <1>7, <3>2
    <3> QED
      BY <1>4, <1>8, <3>1, <3>2
  <2>2. Rebuilt(g, k, h, m, d)
    BY <1>2, <2>1 DEF Rebuilt
  <2> QED
    BY <1>1, <1>8, <2>2
<1>9. CASE ~ (roomy \/ needed <= bucket_count(g))
  <2> DEFINE w == min_size(size(g) + d, 0)
             n == min_size(size(g), w)
  <2>1. size(g) + d \in Nat /\ size(g) + d <= MaxItems
    BY <1>4, <1>5
  <2>2. w \in Sizes /\ 2 * (size(g) + d) < w
    BY <1>6, <2>1, MinSizeIs
  <2>3. w \in Nat /\ w <= Doubled[MaxDoublings]
    BY <2>2, SizeIs
  <2> HIDE DEF w
  <2>4. /\ n \in Sizes /\ n >= w /\ IsTable(f, n) /\ Contents(f.table, n) = Contents(g.table, k)
        /\ f.num_elements = size(g) /\ f.deleted_key = g.deleted_key
    BY <1>4, <2>3, CopyIs DEF w
  <2>5. n \in Nat
    BY <2>4, SizeIs
  <2> HIDE DEF n, f
  <2>6. 2 * (f.num_elements + d) <= n
    BY <1>4, <2>2, <2>3, <2>4, <2>5
  <2>7. Rebuilt(f, n, g, k, d)
    BY <1>4, <2>4, <2>6 DEF Rebuilt
  <2>8. Rebuilt(f, n, h, m, d)
    BY <1>2, <1>4, <2>7, RebuiltTwice
  <2> QED
    BY <1>1, <1>9, <2>8
<1> QED
  BY <1>8, <1>9

\* After squash_deleted the deleted key may change.
LEMMA RemarkIs ==
  ASSUME NEW m, NEW h, Healthy(h, m), NEW mark \in Marks
  PROVE  LET g == [squash_deleted(h) EXCEPT !.deleted_key = mark]
         IN  \E k : Healthy(g, k) /\ Contents(g.table, k) = Contents(h.table, m)
<1> DEFINE f == squash_deleted(h)
           g == [f EXCEPT !.deleted_key = mark]
<1>1. /\ IsTable(h, m) /\ m \in Nat /\ h.num_elements \in Nat
      /\ size(h) \in Nat /\ size(h) <= h.num_elements
      /\ h.num_elements <= MaxItems /\ 2 * h.num_elements <= m /\ h.num_deleted \in Nat
  BY HealthyFacts, TableFacts
<1>2. PICK k : /\ IsTable(f, k) /\ f.num_deleted = 0 /\ k \in Nat
               /\ Contents(f.table, k) = Contents(h.table, m)
               /\ f.num_elements \in Nat /\ f.num_elements <= MaxItems /\ 2 * f.num_elements <= k
  <2>1. CASE h.num_deleted > 0
    <3> DEFINE w == HT_DEFAULT_STARTING_BUCKETS
               n == min_size(size(h), w)
    <3>1. f = copy_from(h, w)
      BY <2>1 DEF squash_deleted
    <3>2. w \in Nat /\ w <= Doubled[MaxDoublings]
      BY Constants, SizeIs
    <3> HIDE DEF f
    <3>3. /\ n \in Sizes /\ IsTable(f, n) /\ Contents(f.table, n) = Contents(h.table, m)
          /\ f.num_elements = size(h) /\ 2 * f.num_elements < n /\ f.num_deleted = 0
      BY <1>1, <3>1, <3>2, CopyIs
    <3>4. n \in Nat /\ MaxItems \in Nat
      BY <3>3, SizeIs
    <3> HIDE DEF n
    <3> QED
      BY <1>1, <3>3, <3>4
  <2>2. CASE ~ (h.num_deleted > 0)
    <3>1. f = h /\ h.num_deleted = 0
      BY <1>1, <2>2 DEF squash_deleted
    <3> QED
      BY <1>1, <3>1
  <2> QED
    BY <2>1, <2>2
<1> HIDE DEF f
<1> DEFINE t == f.table
           old == f.deleted_key
<1>3. /\ t \in [0 .. k - 1 -> Values(old)] /\ old \in Marks
      /\ Layout(t, k, old) /\ IsSize(k) /\ IsRecord(f, k)
      /\ f.num_elements = Cardinality(Used(t, k)) /\ k \in Sizes
      /\ Cardinality(Marked(t, k, old)) = 0
  BY <1>2, TableFacts DEF IsTable
<1> HIDE DEF t, old
<1>4. \A b \in 0 .. k - 1 : t[b] # old
  BY <1>2, <1>3, CountsAre
<1>5. t \in [0 .. k - 1 -> Keys \cup {EMPTY}]
  BY <1>3, <1>4, ValuesDiffer
<1>6. t \in [0 .. k - 1 -> Values(mark)] /\ Layout(t, k, mark)
  BY <1>3, <1>5 DEF Layout, Values
<1>7. Marked(t, k, mark) = {}
  BY <1>5, Constants DEF Marked, Marks
<1>8. /\ g.table = t /\ g.num_elements = f.num_elements /\ g.num_deleted = 0
      /\ g.deleted_key = mark /\ IsRecord(g, k)
  BY <1>2, <1>3, <1>6 DEF IsRecord, t
<1> HIDE DEF g
<1>9. IsTable(g, k)
  BY <1>3, <1>6, <1>7, <1>8, FS_EmptySet DEF IsTable
<1>10. Healthy(g, k) /\ Contents(g.table, k) = Contents(h.table, m)
  BY <1>2, <1>8, <1>9 DEF Healthy, t
<1>11. \E j : Healthy(g, j) /\ Contents(g.table, j) = Contents(h.table, m)
  BY <1>10, Zenon
<1> QED
  BY <1>11, Zenon DEF f, g

(***************************************************************************)
(* The operations.                                                         *)
(***************************************************************************)
\* g is the function of InsertRange, from a table h on, up to m.
Inserts(g, h, range, m) ==
  g = [i \in 0 .. m |-> IF i = 0 THEN h ELSE insert_noresize(g[i - 1], range[i])]

LEMMA InsertsExist ==
  ASSUME NEW h, NEW range, NEW m \in Nat
  PROVE  \E g : Inserts(g, h, range, m)
<1> DEFINE S == {k \in Nat : \E g : Inserts(g, h, range, k)}
<1>1. 0 \in S
  <2> DEFINE g == [i \in 0 .. 0 |-> h]
  <2>1. g = [i \in 0 .. 0 |-> IF i = 0 THEN h ELSE insert_noresize(g[i - 1], range[i])]
    OBVIOUS
  <2>2. Inserts(g, h, range, 0)
    BY <2>1, Zenon DEF Inserts
  <2> QED
    BY <2>2
<1>2. ASSUME NEW k \in Nat, k \in S PROVE k + 1 \in S
  <2>1. PICK g : Inserts(g, h, range, k)
    BY <1>2
  <2> DEFINE f == [i \in 0 .. k + 1 |-> IF i = 0 THEN h ELSE insert_noresize(g[i - 1], range[i])]
  <2>2. \A i \in 0 .. k : f[i] = g[i]
    BY <2>1 DEF Inserts
  <2>3. f = [i \in 0 .. k + 1 |-> IF i = 0 THEN h ELSE insert_noresize(f[i - 1], range[i])]
    <3>1. \A i \in 0 .. k + 1 : i # 0 => i - 1 \in 0 .. k
      OBVIOUS
    <3> QED
      BY <2>2, <3>1
  <2>4. Inserts(f, h, range, k + 1)
    BY <2>3, Zenon DEF Inserts
  <2> QED
    BY <2>4
<1> HIDE DEF S
<1>3. m \in S
  BY <1>1, <1>2, NatInd
<1> QED
  BY <1>3 DEF S

LEMMA InsertsAre ==
  ASSUME NEW n, NEW h, IsTable(h, n), NEW range \in Seq(Keys),
         2 * (h.num_elements + Len(range)) <= n,
         NEW f, Inserts(f, h, range, Len(range))
  PROVE  LET g == f[Len(range)]
         IN  /\ IsTable(g, n) /\ g.num_elements <= h.num_elements + Len(range)
             /\ Contents(g.table, n) = Contents(h.table, n) \cup {range[i] : i \in 1 .. Len(range)}
<1> DEFINE m == Len(range)
           Done(i) == /\ IsTable(f[i], n) /\ f[i].num_elements <= h.num_elements + i
                      /\ Contents(f[i].table, n) = Contents(h.table, n) \cup {range[j] : j \in 1 .. i}
           S == {i \in Nat : i <= m => Done(i)}
<1>1. m \in Nat /\ h.num_elements \in Nat /\ n \in Nat /\ n >= 4
  BY TableFacts
<1>2. /\ f[0] = h
      /\ \A i \in 0 .. m - 1 : f[i + 1] = insert_noresize(f[i], range[i + 1])
  <2>1. f[0] = h
    BY <1>1 DEF Inserts
  <2>2. ASSUME NEW i \in 0 .. m - 1 PROVE f[i + 1] = insert_noresize(f[i], range[i + 1])
    <3>1. i + 1 \in 0 .. m /\ i + 1 # 0 /\ (i + 1) - 1 = i
      BY <1>1
    <3> QED
      BY <3>1 DEF Inserts
  <2> QED
    BY <2>1, <2>2
<1>3. 0 \in S
  BY <1>1, <1>2
<1>4. ASSUME NEW i \in Nat, i \in S PROVE i + 1 \in S
  <2> SUFFICES ASSUME i + 1 <= m PROVE Done(i + 1)
    OBVIOUS
  <2> DEFINE key == range[i + 1]
             t == f[i]
             u == f[i + 1]
  <2>1. i \in 0 .. m - 1 /\ key \in Keys /\ Done(i)
    BY <1>1, <1>4
  <2>2. t.num_elements \in Nat /\ t.num_elements < n
    <3>1. t.num_elements \in Nat
      BY <2>1, TableFacts
    <3> QED
      BY <1>1, <2>1, <3>1, SMTT(30)
  <2>3. u = insert_noresize(t, key)
    BY <1>2, <2>1
  <2> HIDE DEF t, u, key
  <2>4. /\ IsTable(u, n) /\ Contents(u.table, n) = Contents(t.table, n) \cup {key}
        /\ u.num_elements <= t.num_elements + 1
    <3>1. IsTable(t, n)
      BY <2>1 DEF t
    <3> QED
      BY <2>1, <2>2, <2>3, <3>1, InsertIs
  <2>5. u.num_elements \in Nat
    BY <2>4, TableFacts
  <2>6. u.num_elements <= h.num_elements + (i + 1)
    <3>1. t.num_elements <= h.num_elements + i
      BY <2>1 DEF t
    <3> QED
      BY <1>1, <2>2, <2>4, <2>5, <3>1, SMTT(30)
  <2>7. {range[j] : j \in 1 .. i + 1} = {range[j] : j \in 1 .. i} \cup {key}
    BY DEF key
  <2>8. Contents(u.table, n) = Contents(h.table, n) \cup {range[j] : j \in 1 .. i + 1}
    BY <2>1, <2>4, <2>7 DEF t
  <2> QED
    BY <2>4, <2>6, <2>8 DEF u
<1>5. m \in S
  <2> HIDE DEF S
  <2> QED
    BY <1>1, <1>3, <1>4, NatInd
<1> QED
  BY <1>1, <1>5

\* The table holds the keys H.
Holds(h, H) == \E n : Healthy(h, n) /\ Contents(h.table, n) = H

Held == {ht.table[b] : b \in LiveBuckets(ht)}

LEMMA HeldIs ==
  ASSUME NEW n, NEW h, IsTable(h, n)
  PROVE  {h.table[b] : b \in LiveBuckets(h)} = Contents(h.table, n)
BY TableFacts DEF Contents, WithKeys

LEMMA HoldsIs ==
  ASSUME NEW h, NEW H, Holds(h, H)
  PROVE  /\ {h.table[b] : b \in LiveBuckets(h)} = H
         /\ \E n : Healthy(h, n) /\ Contents(h.table, n) = H /\ IsTable(h, n)
BY HeldIs, HealthyFacts DEF Holds

LEMMA RebuiltHolds ==
  ASSUME NEW g, NEW k, NEW h, NEW m, Rebuilt(g, k, h, m, 0), Healthy(h, m)
  PROVE  Holds(g, Contents(h.table, m))
BY RebuiltHealthy DEF Holds, Rebuilt

LEMMA InitHolds ==
  Init => Holds(ht, {})
<1> SUFFICES ASSUME NEW items \in ExpectedItems,
                    ht = Blank(IF items = 0 THEN HT_DEFAULT_STARTING_BUCKETS
                               ELSE min_size(items, 0), NoKey)
             PROVE  Holds(ht, {})
  BY DEF Init
<1> DEFINE n == IF items = 0 THEN HT_DEFAULT_STARTING_BUCKETS ELSE min_size(items, 0)
<1>1. n \in Sizes
  <2>1. items \in Nat /\ items <= MaxItems /\ Doubled[MaxDoublings] \in Nat
    BY Constants, SizeIs
  <2> QED
    BY <2>1, Constants, MinSizeIs
<1> HIDE DEF n
<1>2. /\ IsTable(Blank(n, NoKey), n) /\ Contents(Blank(n, NoKey).table, n) = {}
      /\ Blank(n, NoKey).num_elements = 0
  BY <1>1, BlankIs DEF Marks
<1>3. n \in Nat /\ n >= 0 /\ MaxItems \in Nat
  BY <1>1, SizeIs
<1>4. ht = Blank(n, NoKey)
  BY DEF n
<1>5. Healthy(ht, n) /\ Contents(ht.table, n) = {}
  BY <1>2, <1>3, <1>4 DEF Healthy
<1> QED
  BY <1>5 DEF Holds

LEMMA InsertHolds ==
  ASSUME NEW H, Holds(ht, H), NEW key \in Keys, Insert(key)
  PROVE  Holds(ht', H \cup {key}) /\ reply' = <<"insert", key, key \notin H>>
<1> DEFINE g == resize_delta(ht, 1)
<1>1. PICK n : Healthy(ht, n) /\ Contents(ht.table, n) = H
  BY DEF Holds
<1>2. ht.num_elements + 1 <= MaxItems
  BY DEF Insert
<1>3. PICK k : Rebuilt(g, k, ht, n, 1)
  BY <1>1, <1>2, GrowIs
<1>4. ht' = insert_noresize(g, key) /\ reply' = <<"insert", key, ~ find_position(g, key).found>>
  BY DEF Insert
<1> HIDE DEF g
<1>5. /\ IsTable(g, k) /\ Contents(g.table, k) = H /\ 2 * (g.num_elements + 1) <= k
      /\ g.num_elements <= ht.num_elements
  BY <1>1, <1>3 DEF Rebuilt
<1>6. g.num_elements \in Nat /\ k \in Nat /\ ht.num_elements \in Nat /\ MaxItems \in Nat
  BY <1>1, <1>5, TableFacts, HealthyFacts
<1>7. g.num_elements < k
  BY <1>5, <1>6
<1> DEFINE f == insert_noresize(g, key)
<1>8. /\ IsTable(f, k) /\ Contents(f.table, k) = H \cup {key}
      /\ f.num_elements <= g.num_elements + 1
  BY <1>5, <1>7, InsertIs
<1>9. find_position(g, key).found <=> key \in H
  BY <1>5, <1>7, FindPositionIs DEF IsPosition
<1> HIDE DEF f
<1>10. f.num_elements \in Nat
  BY <1>8, TableFacts
<1>11. Healthy(f, k)
  BY <1>2, <1>5, <1>6, <1>8, <1>10 DEF Healthy
<1>12. Holds(f, H \cup {key})
  BY <1>8, <1>11 DEF Holds
<1> QED
  BY <1>4, <1>9, <1>12 DEF f

LEMMA InsertRangeHolds ==
  ASSUME NEW H, Holds(ht, H), NEW range \in Ranges, InsertRange(range)
  PROVE  Holds(ht', H \cup {range[i] : i \in 1 .. Len(range)}) /\ reply' = <<"done">>
<1> DEFINE m == Len(range)
           g == resize_delta(ht, m)
           f == CHOOSE x : Inserts(x, g, range, m)
<1>0. range \in Seq(Keys) /\ m \in Nat
  BY Constants
<1>1. PICK n : Healthy(ht, n) /\ Contents(ht.table, n) = H
  BY DEF Holds
<1>2. ht.num_elements + m <= MaxItems
  BY DEF InsertRange
<1>3. PICK k : Rebuilt(g, k, ht, n, m)
  BY <1>0, <1>1, <1>2, GrowIs
<1>4. ht' = f[m] /\ reply' = <<"done">>
  BY Zenon DEF InsertRange, Inserts
<1> HIDE DEF g
<1>5. /\ IsTable(g, k) /\ Contents(g.table, k) = H /\ 2 * (g.num_elements + m) <= k
      /\ g.num_elements <= ht.num_elements
  BY <1>1, <1>3 DEF Rebuilt
<1>6. g.num_elements \in Nat /\ k \in Nat /\ ht.num_elements \in Nat /\ MaxItems \in Nat
  BY <1>1, <1>5, TableFacts, HealthyFacts
<1>7. Inserts(f, g, range, m)
  BY <1>0, InsertsExist, Zenon
<1> HIDE DEF f
<1> DEFINE r == f[m]
<1>8. /\ IsTable(r, k) /\ r.num_elements <= g.num_elements + m
      /\ Contents(r.table, k) = H \cup {range[i] : i \in 1 .. m}
  BY <1>0, <1>5, <1>7, InsertsAre
<1> HIDE DEF r, m
<1>9. r.num_elements \in Nat
  BY <1>8, TableFacts
<1>10. Healthy(r, k)
  BY <1>0, <1>2, <1>5, <1>6, <1>8, <1>9, SMTT(30) DEF Healthy
<1>11. Holds(r, H \cup {range[i] : i \in 1 .. m})
  BY <1>8, <1>10 DEF Holds
<1> QED
  BY <1>4, <1>11 DEF r, m


LEMMA EraseHolds ==
  ASSUME NEW H, Holds(ht, H), NEW key \in Keys, Erase(key)
  PROVE  Holds(ht', H \ {key}) /\ reply' = <<"erase", key, key \in H>>
<1> DEFINE spot == find_position(ht, key)
<1>1. PICK n : Healthy(ht, n) /\ Contents(ht.table, n) = H
  BY DEF Holds
<1>2. IsTable(ht, n) /\ n \in Nat /\ ht.num_elements < n /\ ht.num_elements <= MaxItems
      /\ 2 * ht.num_elements <= n
  BY <1>1, HealthyFacts
<1>3. find(ht, key) = (key \in H)
  BY <1>1, <1>2, FindIs
<1>4. /\ ht.deleted_key # NoKey /\ reply' = <<"erase", key, find(ht, key)>>
      /\ ht' = IF find(ht, key) THEN set_deleted(ht, {spot.at}) ELSE ht
  BY DEF Erase
<1>5. CASE key \notin H
  <2>1. ht' = ht /\ H \ {key} = H
    BY <1>3, <1>4, <1>5
  <2> QED
    BY <1>3, <1>4, <1>5, <2>1
<1>6. CASE key \in H
  <2>1. IsPosition(spot, ht, n, key)
    BY <1>2, FindPositionIs
  <2> HIDE DEF spot
  <2>2. spot.at \in 0 .. n - 1 /\ ht.table[spot.at] = key
    BY <1>1, <1>6, <2>1 DEF IsPosition
  <2> DEFINE D == {spot.at}
             g == set_deleted(ht, D)
  <2>3. D \in SUBSET WithKeys(ht.table, n) /\ {ht.table[b] : b \in D} = {key}
    BY <2>2 DEF WithKeys
  <2>4. /\ IsTable(g, n) /\ g.num_elements = ht.num_elements
        /\ Contents(g.table, n) = H \ {key}
    <3> HIDE DEF D
    <3> QED
      BY <1>1, <1>2, <1>4, <2>3, EraseIs
  <2>5. ht' = g
    BY <1>3, <1>4, <1>6
  <2> HIDE DEF g
  <2>6. Healthy(g, n)
    BY <1>2, <2>4 DEF Healthy
  <2> QED
    BY <1>3, <1>4, <1>6, <2>4, <2>5, <2>6 DEF Holds
<1> QED
  BY <1>5, <1>6

LEMMA EraseRangeHolds ==
  ASSUME NEW H, Holds(ht, H), NEW first, EraseRange(first)
  PROVE  \E S \in SUBSET H : Holds(ht', H \ S) /\ reply' = <<"erased", S>>
<1> DEFINE D == {b \in LiveBuckets(ht) : b >= first}
           S == {ht.table[b] : b \in D}
           g == set_deleted(ht, D)
<1>1. PICK n : Healthy(ht, n) /\ Contents(ht.table, n) = H
  BY DEF Holds
<1>2. IsTable(ht, n) /\ ht.num_elements <= MaxItems /\ 2 * ht.num_elements <= n
  BY <1>1, HealthyFacts
<1>3. D \in SUBSET WithKeys(ht.table, n)
  BY <1>2, TableFacts
<1>4. S \in SUBSET H
  BY <1>1, <1>3 DEF WithKeys, Contents
<1>5. ht.deleted_key # NoKey /\ ht' = g /\ reply' = <<"erased", S>>
  BY DEF EraseRange
<1> HIDE DEF D
<1>6. /\ IsTable(g, n) /\ g.num_elements = ht.num_elements
      /\ Contents(g.table, n) = H \ S
  BY <1>1, <1>2, <1>3, <1>5, EraseIs
<1> HIDE DEF g, S
<1>7. Healthy(g, n)
  BY <1>2, <1>6 DEF Healthy
<1>8. Holds(g, H \ S)
  BY <1>6, <1>7 DEF Holds
<1> QED
  BY <1>4, <1>5, <1>8

LEMMA FindHolds ==
  ASSUME NEW H, Holds(ht, H), NEW key \in Keys, Find(key)
  PROVE  Holds(ht', H) /\ reply' = <<"find", key, key \in H>>
<1>1. PICK n : Healthy(ht, n) /\ Contents(ht.table, n) = H
  BY DEF Holds
<1>2. find(ht, key) = (key \in H)
  <2>1. IsTable(ht, n) /\ ht.num_elements < n
    BY <1>1, HealthyFacts
  <2> QED
    BY <1>1, <2>1, FindIs
<1>3. ht' = ht /\ reply' = <<"find", key, find(ht, key)>>
  BY DEF Find
<1> QED
  BY <1>2, <1>3

LEMMA ResizeHolds ==
  ASSUME NEW H, Holds(ht, H), NEW elements \in ResizeArgs, Resize(elements)
  PROVE  Holds(ht', H) /\ reply' = <<"done">>
<1> DEFINE g == IF ht.consider_shrink \/ elements = 0 THEN maybe_shrink(ht) ELSE ht
           d == elements - g.num_elements
           f == IF elements > g.num_elements THEN resize_delta(g, d) ELSE g
<1>1. PICK n : Healthy(ht, n) /\ Contents(ht.table, n) = H
  BY DEF Holds
<1>2. \E k : Rebuilt(g, k, ht, n, 0)
  BY <1>1, ShrinkIs, UnchangedIsRebuilt
<1>3. ht' = f /\ reply' = <<"done">>
  BY DEF Resize, Reorganised
<1> HIDE DEF g
<1>4. PICK k : Rebuilt(g, k, ht, n, 0)
  BY <1>2
<1>5. Healthy(g, k) /\ Contents(g.table, k) = H
  BY <1>1, <1>4, RebuiltHealthy DEF Rebuilt
<1>6. elements \in Nat /\ elements <= MaxItems /\ g.num_elements \in Nat
  BY <1>5, Constants, HealthyFacts
<1>7. CASE elements > g.num_elements
  <2>1. d \in Nat /\ g.num_elements + d <= MaxItems
    BY <1>6, <1>7
  <2> HIDE DEF d
  <2>2. PICK j : Rebuilt(resize_delta(g, d), j, g, k, d)
    BY <1>5, <2>1, GrowIs
  <2>3. Healthy(resize_delta(g, d), j)
    BY <1>5, <2>1, <2>2, RebuiltHealthy
  <2>4. Contents(resize_delta(g, d).table, j) = H
    BY <1>5, <2>2 DEF Rebuilt
  <2>5. f = resize_delta(g, d)
    BY <1>7
  <2> QED
    BY <1>3, <2>3, <2>4, <2>5 DEF Holds
<1>8. CASE ~ (elements > g.num_elements)
  <2>1. f = g
    BY <1>8
  <2> QED
    BY <1>3, <1>5, <2>1 DEF Holds
<1> QED
  BY <1>7, <1>8

LEMMA RemarkHolds ==
  ASSUME NEW H, Holds(ht, H), NEW mark \in Marks,
         Reorganised([squash_deleted(ht) EXCEPT !.deleted_key = mark])
  PROVE  Holds(ht', H) /\ reply' = <<"done">>
<1> DEFINE g == [squash_deleted(ht) EXCEPT !.deleted_key = mark]
<1>1. PICK n : Healthy(ht, n) /\ Contents(ht.table, n) = H
  BY DEF Holds
<1>2. \E k : Healthy(g, k) /\ Contents(g.table, k) = H
  BY <1>1, RemarkIs
<1>3. ht' = g /\ reply' = <<"done">>
  BY DEF Reorganised
<1> HIDE DEF g
<1> QED
  BY <1>2, <1>3 DEF Holds

LEMMA CopyHolds ==
  ASSUME NEW H, NEW h, Holds(h, H), NEW wanted \in {HT_MIN_BUCKETS, HT_DEFAULT_STARTING_BUCKETS}
  PROVE  Holds(copy_from(h, wanted), H) /\ size(copy_from(h, wanted)) = size(h)
<1> DEFINE g == copy_from(h, wanted)
           k == min_size(size(h), wanted)
<1>1. PICK n : Healthy(h, n) /\ Contents(h.table, n) = H
  BY DEF Holds
<1>2. /\ IsTable(h, n) /\ h.num_elements <= MaxItems /\ size(h) \in Nat
      /\ size(h) <= h.num_elements /\ h.num_elements \in Nat /\ MaxItems \in Nat
  BY <1>1, HealthyFacts
<1>3. wanted \in Nat /\ wanted <= Doubled[MaxDoublings]
  <2>1. HT_DEFAULT_STARTING_BUCKETS \in Sizes
    BY Constants
  <2>2. /\ Doubled[MaxDoublings] \in Sizes /\ Doubled[MaxDoublings] \in Nat
        /\ HT_DEFAULT_STARTING_BUCKETS \in Nat
        /\ HT_DEFAULT_STARTING_BUCKETS <= Doubled[MaxDoublings]
    BY <2>1, SizeIs
  <2>3. Doubled[MaxDoublings] >= 4
    BY <2>2, SizeIs
  <2> QED
    BY <2>2, <2>3 DEF HT_MIN_BUCKETS
<1>4. /\ k \in Sizes /\ IsTable(g, k) /\ Contents(g.table, k) = H
      /\ g.num_elements = size(h) /\ 2 * g.num_elements < k /\ g.num_deleted = 0
  BY <1>1, <1>2, <1>3, CopyIs
<1>5. k \in Nat
  BY <1>4, SizeIs
<1> HIDE DEF g, k
<1>6. Healthy(g, k)
  BY <1>2, <1>4, <1>5 DEF Healthy
<1>7. size(g) = size(h)
  BY <1>2, <1>4 DEF size
<1>8. Holds(g, H)
  BY <1>4, <1>6 DEF Holds
<1> QED
  BY <1>7, <1>8 DEF g

LEMMA BlankHolds ==
  ASSUME NEW n \in Sizes, NEW mark \in Marks
  PROVE  Holds(Blank(n, mark), {})
<1> DEFINE g == Blank(n, mark)
<1>1. IsTable(g, n) /\ Contents(g.table, n) = {} /\ g.num_elements = 0
  BY BlankIs
<1>2. n \in Nat /\ MaxItems \in Nat
  BY SizeIs
<1> HIDE DEF g
<1>3. Healthy(g, n)
  BY <1>1, <1>2 DEF Healthy
<1> QED
  BY <1>1, <1>3 DEF Holds, g

LEMMA ClearHolds ==
  ASSUME NEW H, Holds(ht, H), Clear \/ ClearNoResize
  PROVE  Holds(ht', {}) /\ reply' = <<"cleared">>
<1>1. PICK n : Healthy(ht, n) /\ Contents(ht.table, n) = H
  BY DEF Holds
<1>2. /\ ht.deleted_key \in Marks /\ bucket_count(ht) = n /\ n \in Sizes
  BY <1>1, HealthyFacts, TableFacts DEF IsTable
<1>3. min_size(0, 0) \in Sizes
  <2>1. MaxItems \in Nat /\ Doubled[MaxDoublings] \in Nat
    BY <1>2, SizeIs
  <2> QED
    BY <2>1, MinSizeIs
<1>4. /\ reply' = <<"cleared">>
      /\ \/ ht' = Blank(min_size(0, 0), ht.deleted_key)
         \/ ht' = Blank(n, ht.deleted_key)
  BY <1>2, Zenon DEF Clear, ClearNoResize
<1> QED
  BY <1>2, <1>3, <1>4, BlankHolds


(***************************************************************************)
(* The invariant: there is a number of buckets for which the table is well *)
(* laid out and at most half in use.                                       *)
(***************************************************************************)
DenseInv == \E n : Healthy(ht, n)

\* How a call may change the keys H into J, and what it returns.
Tells(H, J, answer) ==
  \/ \E k \in Keys : \/ J = H \cup {k} /\ answer = <<"insert", k, k \notin H>>
                     \/ J = H \ {k} /\ answer = <<"erase", k, k \in H>>
                     \/ J = H /\ answer = <<"find", k, k \in H>>
  \/ \E S \in SUBSET Keys : \/ J = H \cup S /\ answer = <<"done">>
                            \/ J = H \ S /\ answer = <<"erased", S>>
  \/ J = {} /\ answer = <<"cleared">>
  \/ J = H /\ answer = <<"done">>

LEMMA NextTells ==
  ASSUME NEW H \in SUBSET Keys, Holds(ht, H), Next
  PROVE  \E J : Holds(ht', J) /\ Tells(H, J, reply')
<1>1. ASSUME NEW key \in Keys, Insert(key)
      PROVE  \E J : Holds(ht', J) /\ Tells(H, J, reply')
  BY <1>1, InsertHolds, Zenon DEF Tells
<1>2. ASSUME NEW key \in Keys, Erase(key)
      PROVE  \E J : Holds(ht', J) /\ Tells(H, J, reply')
  BY <1>2, EraseHolds, Zenon DEF Tells
<1>3. ASSUME NEW key \in Keys, Find(key)
      PROVE  \E J : Holds(ht', J) /\ Tells(H, J, reply')
  BY <1>3, FindHolds, Zenon DEF Tells
<1>4. ASSUME NEW range \in Ranges, InsertRange(range)
      PROVE  \E J : Holds(ht', J) /\ Tells(H, J, reply')
  <2> DEFINE S == {range[i] : i \in 1 .. Len(range)}
  <2>1. range \in Seq(Keys)
    BY Constants
  <2>2. S \in SUBSET Keys
    BY <2>1
  <2>3. Holds(ht', H \cup S) /\ reply' = <<"done">>
    BY <1>4, InsertRangeHolds
  <2> HIDE DEF S
  <2> QED
    BY <2>2, <2>3, Zenon DEF Tells
<1>5. ASSUME NEW first, EraseRange(first)
      PROVE  \E J : Holds(ht', J) /\ Tells(H, J, reply')
  <2>1. PICK S \in SUBSET H : Holds(ht', H \ S) /\ reply' = <<"erased", S>>
    BY <1>5, EraseRangeHolds
  <2>2. S \in SUBSET Keys
    OBVIOUS
  <2> QED
    BY <2>1, <2>2, Zenon DEF Tells
<1>6. ASSUME NEW elements \in ResizeArgs, Resize(elements)
      PROVE  \E J : Holds(ht', J) /\ Tells(H, J, reply')
  BY <1>6, ResizeHolds, Zenon DEF Tells
<1>7. ASSUME NEW mark \in Tombstones, SetDeletedKey(mark)
      PROVE  \E J : Holds(ht', J) /\ Tells(H, J, reply')
  <2>1. mark \in Marks
    BY DEF Marks
  <2>2. Holds(ht', H) /\ reply' = <<"done">>
    BY <1>7, <2>1, RemarkHolds DEF SetDeletedKey
  <2> QED
    BY <2>2, Zenon DEF Tells
<1>8. ASSUME ClearDeletedKey
      PROVE  \E J : Holds(ht', J) /\ Tells(H, J, reply')
  <2>1. NoKey \in Marks
    BY DEF Marks
  <2>2. Holds(ht', H) /\ reply' = <<"done">>
    BY <1>8, <2>1, RemarkHolds DEF ClearDeletedKey
  <2> QED
    BY <2>2, Zenon DEF Tells
<1>9. ASSUME CopyConstruct \/ Assign
      PROVE  \E J : Holds(ht', J) /\ Tells(H, J, reply')
  <2>1. \A wanted \in {HT_MIN_BUCKETS, HT_DEFAULT_STARTING_BUCKETS} :
           Holds(copy_from(ht, wanted), H)
    BY CopyHolds
  <2>2. Holds(ht', H) /\ reply' = <<"done">>
    BY <1>9, <2>1 DEF CopyConstruct, Assign, Reorganised
  <2> QED
    BY <2>2, Zenon DEF Tells
<1>10. ASSUME Clear \/ ClearNoResize
       PROVE  \E J : Holds(ht', J) /\ Tells(H, J, reply')
  BY <1>10, ClearHolds, Zenon DEF Tells
<1> QED
  BY <1>1, <1>2, <1>3, <1>4, <1>5, <1>6, <1>7, <1>8, <1>9, <1>10, Zenon DEF Next

\* A healthy table holds the keys in its buckets.
LEMMA HealthyHolds ==
  ASSUME NEW n, NEW h, Healthy(h, n)
  PROVE  /\ Holds(h, Contents(h.table, n)) /\ Contents(h.table, n) \in SUBSET Keys
         /\ {h.table[b] : b \in LiveBuckets(h)} = Contents(h.table, n)
<1>1. IsTable(h, n)
  BY HealthyFacts
<1>2. Contents(h.table, n) \in SUBSET Keys
  BY DEF Contents
<1> QED
  BY <1>1, <1>2, HeldIs DEF Holds

LEMMA DenseInitially ==
  Init => DenseInv /\ Held = {}
<1> SUFFICES ASSUME Init PROVE DenseInv /\ Held = {}
  OBVIOUS
<1>1. Holds(ht, {})
  BY InitHolds
<1>2. Held = {}
  BY <1>1, HoldsIs DEF Held
<1> QED
  BY <1>1, <1>2 DEF Holds, DenseInv

LEMMA DenseStep ==
  ASSUME DenseInv, [Next]_vars
  PROVE  DenseInv' /\ (UNCHANGED vars \/ Tells(Held, Held', reply'))
<1>1. PICK n : Healthy(ht, n)
  BY DEF DenseInv
<1>2. Held \in SUBSET Keys /\ Holds(ht, Held)
  <2>1. Held = Contents(ht.table, n)
    BY <1>1, HealthyHolds, Zenon DEF Held
  <2>2. Holds(ht, Contents(ht.table, n)) /\ Contents(ht.table, n) \in SUBSET Keys
    BY <1>1, HealthyHolds, Zenon
  <2> QED
    BY <2>1, <2>2, Zenon
<1>3. CASE UNCHANGED vars
  BY <1>3, <1>1 DEF vars, DenseInv
<1>4. CASE Next
  <2>1. PICK J : Holds(ht', J) /\ Tells(Held, J, reply')
    BY <1>2, <1>4, NextTells
  <2>2. Held' = J
    BY <2>1, HoldsIs DEF Held
  <2>3. DenseInv'
    BY <2>1 DEF Holds, DenseInv
  <2> QED
    BY <2>1, <2>2, <2>3
<1> QED
  BY <1>3, <1>4


(***************************************************************************)
(* What the invariant says of a state.                                     *)
(***************************************************************************)
LEMMA DenseTyped ==
  DenseInv => TypeOK /\ CountersAgree
<1> SUFFICES ASSUME NEW n, Healthy(ht, n) PROVE TypeOK /\ CountersAgree
  BY DEF DenseInv
<1>1. /\ n \in Sizes /\ IsRecord(ht, n) /\ IsTable(ht, n)
      /\ ht.num_elements = Cardinality(Used(ht.table, n))
      /\ ht.num_deleted = Cardinality(Marked(ht.table, n, ht.deleted_key))
  BY DEF Healthy, IsTable
<1>2. /\ bucket_count(ht) = n /\ n \in Nat /\ DOMAIN ht.table = 0 .. n - 1
      /\ ht.table \in [0 .. n - 1 -> Values(ht.deleted_key)] /\ ht.deleted_key \in Marks
      /\ ht.num_elements \in Nat /\ ht.num_deleted \in Nat /\ size(ht) \in Nat
      /\ LiveBuckets(ht) = WithKeys(ht.table, n)
  BY <1>1, TableFacts
<1>3. Values(ht.deleted_key) \subseteq Keys \cup Tombstones \cup {EMPTY}
  BY DEF Values
<1>4. TypeOK
  <2>1. ht.table \in [0 .. n - 1 -> Keys \cup Tombstones \cup {EMPTY}]
    BY <1>2, <1>3
  <2>2. ht.consider_shrink \in BOOLEAN
    BY <1>1 DEF IsRecord
  <2>3. ht.num_deleted \in 0 .. ht.num_elements
    BY <1>2 DEF size
  <2> QED
    BY <1>1, <1>2, <2>1, <2>2, <2>3 DEF TypeOK, Marks
<1>5. CountersAgree
  BY <1>1, <1>2 DEF CountersAgree, Used, Marked, WithKeys
<1> QED
  BY <1>4, <1>5

LEMMA DenseFindsKeys ==
  DenseInv => KeysFound
<1> SUFFICES ASSUME NEW n, Healthy(ht, n) PROVE KeysFound
  BY DEF DenseInv
<1> DEFINE H == Contents(ht.table, n)
<1>1. /\ IsTable(ht, n) /\ ht.num_elements < n /\ bucket_count(ht) = n
      /\ 2 * ht.num_elements <= n
  BY HealthyFacts
<1>2. /\ LiveBuckets(ht) = WithKeys(ht.table, n)
      /\ \A b \in LiveBuckets(ht) : b \in 0 .. n - 1 /\ ht.table[b] \in Keys /\ ht.table[b] \in H
  <2>1. LiveBuckets(ht) = WithKeys(ht.table, n)
    BY <1>1, TableFacts
  <2>2. \A b \in WithKeys(ht.table, n) :
           b \in 0 .. n - 1 /\ ht.table[b] \in Keys /\ ht.table[b] \in H
    BY DEF WithKeys, Contents
  <2> QED
    BY <2>1, <2>2, Zenon
<1>3. ProbesEnd
  BY <1>1, SearchEnds DEF ProbesEnd
<1>4. HalfEmpty
  BY <1>1 DEF HalfEmpty
<1>5. StoredOnceAndFound
  <2> SUFFICES ASSUME NEW b \in LiveBuckets(ht)
               PROVE  LET spot == find_position(ht, ht.table[b]) IN spot.found /\ spot.at = b
    BY Zenon DEF StoredOnceAndFound
  <2> DEFINE spot == find_position(ht, ht.table[b])
  <2>1. IsPosition(spot, ht, n, ht.table[b])
    BY <1>1, <1>2, FindPositionIs
  <2> HIDE DEF spot
  <2>2. spot.found /\ b = spot.at
    BY <1>2, <2>1 DEF IsPosition
  <2> QED
    BY <2>2 DEF spot
<1> HIDE DEF H
<1>6. CopiesEqual
  <2> SUFFICES ASSUME NEW wanted \in {HT_MIN_BUCKETS, HT_DEFAULT_STARTING_BUCKETS}
               PROVE  LET copy == copy_from(ht, wanted)
                      IN  SameContents(ht, copy) /\ SameContents(copy, ht)
    BY Zenon DEF CopiesEqual
  <2> DEFINE copy == copy_from(ht, wanted)
  <2>1. Holds(ht, H)
    BY HealthyHolds DEF H
  <2>2. Holds(copy, H) /\ size(copy) = size(ht)
    BY <2>1, CopyHolds
  <2> HIDE DEF copy
  <2>3. PICK k : Healthy(copy, k) /\ Contents(copy.table, k) = H
    BY <2>2 DEF Holds
  <2>4. IsTable(copy, k) /\ copy.num_elements < k
    BY <2>3, HealthyFacts
  <2>5. /\ LiveBuckets(copy) = WithKeys(copy.table, k)
        /\ \A b \in LiveBuckets(copy) : copy.table[b] \in Keys /\ copy.table[b] \in H
    <3>1. LiveBuckets(copy) = WithKeys(copy.table, k)
      BY <2>4, TableFacts
    <3>2. \A b \in WithKeys(copy.table, k) :
             copy.table[b] \in Keys /\ copy.table[b] \in Contents(copy.table, k)
      BY DEF WithKeys, Contents
    <3> QED
      BY <2>3, <3>1, <3>2, Zenon
  <2>6. \A b \in LiveBuckets(ht) : find(copy, ht.table[b])
    BY <1>2, <2>3, <2>4, FindIs
  <2>7. \A b \in LiveBuckets(copy) : find(ht, copy.table[b])
    BY <1>1, <2>5, FindIs DEF H
  <2>8. SameContents(ht, copy) /\ SameContents(copy, ht)
    BY <2>2, <2>6, <2>7 DEF SameContents
  <2> QED
    BY <2>8 DEF copy
<1> QED
  BY <1>3, <1>4, <1>5, <1>6 DEF KeysFound


(***************************************************************************)
(* The results.                                                            *)
(***************************************************************************)
\* Whatever the keys, the hash function and the history of inserts, deletions and
\* rebuilds: the record stays well formed, its counters agree with the buckets, every search of the
\* table ends, at most half of the buckets are in use, a stored key is found where it is and
\* nowhere else, and a copy equals its original.
THEOREM DenseTableSound == Spec => []TableSound
<1>1. Init => DenseInv
  BY DenseInitially
<1>2. DenseInv /\ [Next]_vars => DenseInv'
  BY DenseStep
<1>3. DenseInv => TableSound
  BY DenseTyped, DenseFindsKeys DEF TableSound
<1> QED
  BY <1>1, <1>2, <1>3, PTL DEF Spec

\* To its user the table is a set: no growing, shrinking, squashing or copying loses
\* or revives a key, and every insert, erase and find answers truthfully.
THEOREM DenseImplementsSet == Spec => ImplementsSet
<1>1. Init => DenseInv
  BY DenseInitially
<1>2. DenseInv /\ [Next]_vars => DenseInv'
  BY DenseStep
<1>3. Init => Set!Init
  BY DenseInitially DEF Init, Set!Init, Held
<1>4. DenseInv /\ [Next]_vars => [Set!Next]_(Set!vars)
  <2> SUFFICES ASSUME DenseInv, [Next]_vars PROVE [Set!Next]_(Set!vars)
    OBVIOUS
  <2>1. CASE UNCHANGED vars
    <3>1. ht' = ht /\ reply' = reply
      BY <2>1 DEF vars
    <3>2. Held' = Held
      BY <3>1, Zenon DEF Held, LiveBuckets, IsLive, test_deleted
    <3> QED
      BY <3>1, <3>2 DEF Set!vars, Held
  <2>2. CASE Tells(Held, Held', reply')
    <3>1. Set!Next
      BY <2>2, Zenon DEF Tells, Held, Set!Next, Set!Insert, Set!InsertAll, Set!Erase, Set!EraseSome,
                  Set!Find, Set!Clear, Set!Reorganise
    <3> QED
      BY <3>1
  <2> QED
    BY <2>1, <2>2, DenseStep
<1> QED
  BY <1>1, <1>2, <1>3, <1>4, PTL DEF Spec, ImplementsSet, Set!Spec


(***************************************************************************)
(* The loop that erases as it iterates.                                    *)
(***************************************************************************)
\* The keys an iterator at bucket p still has to visit.
From(h, n, p) == {h.table[b] : b \in {c \in WithKeys(h.table, n) : c >= p}}

\* The loop's iterator and the keys it has to visit, for a table of n buckets.
LoopAt(h, n, p, S) ==
  p # NoLoop => /\ p \in 0 .. n /\ S = From(h, n, p)
                /\ p # n => p \in WithKeys(h.table, n)

LEMMA AdvanceIs ==
  ASSUME NEW n, NEW h, IsTable(h, n), NEW b \in 0 .. n
  PROVE  /\ advance(h, b) \in b .. n
         /\ advance(h, b) # n => advance(h, b) \in WithKeys(h.table, n)
         /\ From(h, n, advance(h, b)) = From(h, n, b)
<1> DEFINE W == WithKeys(h.table, n)
           L == {c \in W : c >= b}
           p == advance(h, b)
<1>1. n \in Nat /\ bucket_count(h) = n /\ LiveBuckets(h) = W
  BY TableFacts
<1>2. W \in SUBSET (0 .. n - 1)
  BY DEF WithKeys
<1>3. p = IF \A c \in W : c < b THEN n ELSE Min(L)
  BY <1>1, Zenon DEF advance
<1>4. b \in Int /\ b <= n /\ \A c \in W : c \in Int /\ 0 <= c /\ c < n
  BY <1>1, <1>2
<1> HIDE DEF W, p
<1>5. CASE \A c \in W : c < b
  <2>1. p = n
    BY <1>3, <1>5
  <2>2. \A c \in W : ~ (c >= n) /\ ~ (c >= b)
    BY <1>1, <1>4, <1>5
  <2>3. From(h, n, n) = {} /\ From(h, n, b) = {}
    BY <2>2, Zenon DEF From, W
  <2> QED
    BY <1>1, <1>4, <2>1, <2>3 DEF p
<1>6. CASE ~ \A c \in W : c < b
  <2>1. L \in SUBSET Nat /\ L # {}
    BY <1>1, <1>4, <1>6
  <2>2. p = Min(L)
    BY <1>3, <1>6
  <2> HIDE DEF L
  <2>3. p \in L /\ \A c \in L : p <= c
    BY <2>1, <2>2, MinIs
  <2>4. p \in W /\ p >= b /\ \A c \in W : c >= b => p <= c
    BY <2>3 DEF L
  <2>5. \A c \in W : c >= p <=> c >= b
    BY <1>4, <2>4
  <2>6. From(h, n, p) = From(h, n, b)
    <3>1. {c \in W : c >= p} = {c \in W : c >= b}
      BY <2>5
    <3> QED
      BY <3>1, Zenon DEF From, W
  <2> QED
    BY <1>1, <1>4, <2>4, <2>6 DEF p, W
<1> QED
  BY <1>5, <1>6

LEMMA FromNext ==
  ASSUME NEW n, NEW h, IsTable(h, n), NEW p \in WithKeys(h.table, n)
  PROVE  From(h, n, p + 1) = From(h, n, p) \ {h.table[p]} /\ p \in 0 .. n - 1
<1> DEFINE t == h.table
<1>1. n \in Nat /\ p \in 0 .. n - 1 /\ Layout(t, n, h.deleted_key)
  BY TableFacts DEF WithKeys, IsTable
<1>2. \A b \in WithKeys(t, n) : b \in 0 .. n - 1 /\ t[b] \in Keys
  BY DEF WithKeys
<1>3. \A b \in WithKeys(t, n) : t[b] = t[p] => b = p
  BY <1>1, <1>2, KeyOnce
<1> HIDE DEF t
<1>4. \A b \in WithKeys(t, n) : b >= p + 1 <=> b >= p /\ t[b] # t[p]
  BY <1>1, <1>2, <1>3
<1>5. From(h, n, p + 1) \subseteq From(h, n, p) \ {t[p]}
  BY <1>4, Zenon DEF From, t
<1>6. From(h, n, p) \ {t[p]} \subseteq From(h, n, p + 1)
  BY <1>4, Zenon DEF From, t
<1> QED
  BY <1>1, <1>5, <1>6 DEF t

LEMMA FromErased ==
  ASSUME NEW n, NEW h, IsTable(h, n), h.deleted_key # NoKey,
         NEW at \in WithKeys(h.table, n), NEW p \in 0 .. n,
         NEW D, D = {at}
  PROVE  From(set_deleted(h, D), n, p) = From(h, n, p) \ {h.table[at]}
<1> DEFINE t == h.table
           g == set_deleted(h, D)
           u == g.table
<1>1. n \in Nat /\ at \in 0 .. n - 1 /\ Layout(t, n, h.deleted_key)
  BY TableFacts DEF WithKeys, IsTable
<1>2. \A b \in WithKeys(t, n) : b \in 0 .. n - 1 /\ t[b] \in Keys
  BY DEF WithKeys
<1>3. \A b \in WithKeys(t, n) : t[b] = t[at] => b = at
  BY <1>1, <1>2, KeyOnce
<1>4. /\ WithKeys(u, n) = WithKeys(t, n) \ {at}
      /\ \A b \in WithKeys(u, n) : u[b] = t[b]
  <2>1. D \in SUBSET WithKeys(h.table, n)
    OBVIOUS
  <2>2. /\ WithKeys(set_deleted(h, D).table, n) = WithKeys(h.table, n) \ D
        /\ \A b \in WithKeys(set_deleted(h, D).table, n) : set_deleted(h, D).table[b] = h.table[b]
    BY <2>1, EraseIs
  <2> QED
    BY <2>2
<1> HIDE DEF t, g
<1>5. From(g, n, p) \subseteq From(h, n, p) \ {t[at]}
  BY <1>3, <1>4, Zenon DEF From, t
<1>6. From(h, n, p) \ {t[at]} \subseteq From(g, n, p)
  <2>1. ASSUME NEW b \in WithKeys(t, n), b >= p, t[b] # t[at]
        PROVE  b \in WithKeys(u, n) /\ u[b] = t[b]
    BY <1>4, <2>1
  <2> QED
    BY <2>1, Zenon DEF From, t
<1> QED
  BY <1>5, <1>6 DEF t, g


LoopInv == \E n : Healthy(ht, n) /\ LoopAt(ht, n, pos, pending)

LEMMA LoopStep ==
  ASSUME LoopInv, [LoopNext]_<<vars, pos, pending>>
  PROVE  LoopInv'
<1>1. PICK n : Healthy(ht, n) /\ LoopAt(ht, n, pos, pending)
  BY DEF LoopInv
<1>2. /\ IsTable(ht, n) /\ n \in Nat /\ DOMAIN ht.table = 0 .. n - 1
      /\ ht.num_elements <= MaxItems /\ 2 * ht.num_elements <= n /\ ht.num_elements < n
      /\ LiveBuckets(ht) = WithKeys(ht.table, n)
  BY <1>1, HealthyFacts, TableFacts
<1>3. InLoop => /\ pos # NoLoop /\ pos \in WithKeys(ht.table, n) /\ pos \in 0 .. n - 1
                /\ pending = From(ht, n, pos) /\ pos + 1 \in 0 .. n
  BY <1>1, <1>2 DEF InLoop, LoopAt
<1>4. ASSUME ht.deleted_key # NoKey, NEW at \in WithKeys(ht.table, n)
      PROVE  /\ Healthy(set_deleted(ht, {at}), n)
             /\ WithKeys(set_deleted(ht, {at}).table, n) = WithKeys(ht.table, n) \ {at}
             /\ \A p \in 0 .. n : From(set_deleted(ht, {at}), n, p) = From(ht, n, p) \ {ht.table[at]}
  <2> DEFINE D == {at}
             g == set_deleted(ht, D)
  <2>1. D \in SUBSET WithKeys(ht.table, n)
    OBVIOUS
  <2> HIDE DEF D
  <2>2. /\ IsTable(g, n) /\ g.num_elements = ht.num_elements
        /\ WithKeys(g.table, n) = WithKeys(ht.table, n) \ D
    BY <1>2, <1>4, <2>1, EraseIs
  <2> HIDE DEF g
  <2>3. Healthy(g, n)
    BY <1>2, <2>2 DEF Healthy
  <2>4. D = {at}
    BY DEF D
  <2>5. \A p \in 0 .. n : From(g, n, p) = From(ht, n, p) \ {ht.table[at]}
    BY <1>2, <1>4, <2>4, FromErased DEF g
  <2> QED
    BY <2>2, <2>3, <2>5 DEF g, D
<1>5. CASE Begin
  <2>1. 0 \in 0 .. n
    BY <1>2
  <2>2. /\ advance(ht, 0) \in 0 .. n
        /\ advance(ht, 0) # n => advance(ht, 0) \in WithKeys(ht.table, n)
        /\ From(ht, n, advance(ht, 0)) = From(ht, n, 0)
    BY <1>2, <2>1, AdvanceIs
  <2>3. Stored(ht) = From(ht, n, 0)
    <3>1. \A b \in WithKeys(ht.table, n) : b >= 0
      BY <1>2 DEF WithKeys
    <3> QED
      BY <1>2, <3>1, Zenon DEF Stored, From
  <2>4. ht' = ht /\ pos' = advance(ht, 0) /\ pending' = Stored(ht)
    BY <1>5 DEF Begin, vars
  <2>5. LoopAt(ht, n, pos', pending')
    BY <2>2, <2>3, <2>4 DEF LoopAt
  <2> QED
    BY <1>1, <2>4, <2>5 DEF LoopInv
<1>6. ASSUME InLoop
      PROVE  LET p == advance(ht, pos + 1)
             IN  /\ p \in 0 .. n /\ (p # n => p \in WithKeys(ht.table, n)) /\ p # pos
                 /\ From(ht, n, p) = pending \ {ht.table[pos]}
                 /\ ht.table[pos] \notin From(ht, n, p)
  <2> DEFINE p == advance(ht, pos + 1)
  <2>1. /\ p \in pos + 1 .. n /\ (p # n => p \in WithKeys(ht.table, n))
        /\ From(ht, n, p) = From(ht, n, pos + 1)
    BY <1>2, <1>3, <1>6, AdvanceIs
  <2>2. From(ht, n, pos + 1) = From(ht, n, pos) \ {ht.table[pos]}
    BY <1>2, <1>3, <1>6, FromNext
  <2> HIDE DEF p
  <2>3. p \in 0 .. n /\ p # pos
    BY <1>2, <1>3, <1>6, <2>1
  <2> QED
    BY <1>3, <1>6, <2>1, <2>2, <2>3 DEF p
<1>7. CASE Visit
  <2> DEFINE p == advance(ht, pos + 1)
  <2>1. /\ p \in 0 .. n /\ (p # n => p \in WithKeys(ht.table, n))
        /\ From(ht, n, p) = pending \ {ht.table[pos]}
    BY <1>6, <1>7 DEF Visit
  <2>2. ht' = ht /\ pos' = p /\ pending' = pending \ {ht.table[pos]}
    BY <1>7 DEF Visit, vars
  <2> HIDE DEF p
  <2>3. LoopAt(ht, n, pos', pending')
    BY <2>1, <2>2 DEF LoopAt
  <2> QED
    BY <1>1, <2>2, <2>3 DEF LoopInv
<1>8. CASE VisitAndErase
  <2> DEFINE p == advance(ht, pos + 1)
             g == set_deleted(ht, {pos})
  <2>1. InLoop /\ ht.deleted_key # NoKey
    BY <1>8 DEF VisitAndErase
  <2>2. /\ p \in 0 .. n /\ (p # n => p \in WithKeys(ht.table, n)) /\ p # pos
        /\ From(ht, n, p) = pending \ {ht.table[pos]}
        /\ ht.table[pos] \notin From(ht, n, p)
    BY <1>6, <2>1
  <2>3. Healthy(g, n) /\ WithKeys(g.table, n) = WithKeys(ht.table, n) \ {pos}
    BY <1>3, <1>4, <2>1
  <2>4. From(g, n, p) = From(ht, n, p) \ {ht.table[pos]}
    BY <1>3, <1>4, <2>1, <2>2
  <2>5. ht' = g /\ pos' = p /\ pending' = pending \ {ht.table[pos]}
    BY <1>8 DEF VisitAndErase
  <2> HIDE DEF p, g
  <2>6. LoopAt(g, n, pos', pending')
    BY <2>2, <2>3, <2>4, <2>5 DEF LoopAt
  <2> QED
    BY <2>3, <2>5, <2>6 DEF LoopInv
<1>9. ASSUME NEW key \in Keys, EraseInLoop(key)
      PROVE  LoopInv'
  <2>1. /\ InLoop /\ key # ht.table[pos] /\ Erase(key)
        /\ pos' = pos /\ pending' = pending \ {key}
    BY <1>9 DEF EraseInLoop
  <2> DEFINE spot == find_position(ht, key)
  <2>2. find(ht, key) = (key \in Contents(ht.table, n))
    BY <1>2, FindIs
  <2>3. IsPosition(spot, ht, n, key)
    BY <1>2, FindPositionIs
  <2>4. /\ ht.deleted_key # NoKey
        /\ ht' = IF find(ht, key) THEN set_deleted(ht, {spot.at}) ELSE ht
    BY <2>1 DEF Erase
  <2> HIDE DEF spot
  <2>5. CASE key \notin Contents(ht.table, n)
    <3>1. ht' = ht
      BY <2>2, <2>4, <2>5
    <3>2. From(ht, n, pos) \subseteq Contents(ht.table, n)
      BY DEF From, Contents, WithKeys
    <3>3. pending' = pending
      BY <1>3, <2>1, <2>5, <3>2
    <3> QED
      BY <1>1, <2>1, <3>1, <3>3 DEF LoopInv
  <2>6. CASE key \in Contents(ht.table, n)
    <3> DEFINE g == set_deleted(ht, {spot.at})
    <3>1. spot.at \in WithKeys(ht.table, n) /\ ht.table[spot.at] = key
      BY <2>3, <2>6 DEF IsPosition, WithKeys
    <3>2. ht' = g
      BY <2>2, <2>4, <2>6
    <3>3. Healthy(g, n) /\ WithKeys(g.table, n) = WithKeys(ht.table, n) \ {spot.at}
      BY <1>4, <2>4, <3>1
    <3>4. pos \in 0 .. n
      BY <1>2, <1>3, <2>1
    <3>5. From(g, n, pos) = From(ht, n, pos) \ {key}
      BY <1>4, <2>4, <3>1, <3>4
    <3>6. pos # spot.at
      BY <2>1, <3>1
    <3> HIDE DEF g
    <3>7. LoopAt(g, n, pos', pending')
      BY <1>3, <2>1, <3>3, <3>4, <3>5, <3>6 DEF LoopAt
    <3> QED
      BY <3>2, <3>3, <3>7 DEF LoopInv
  <2> QED
    BY <2>5, <2>6
<1>10. CASE EndLoop \/ Between
  <2>1. pos' = NoLoop /\ (UNCHANGED vars \/ Next)
    BY <1>10 DEF EndLoop, Between
  <2>2. DenseInv
    BY <1>1 DEF DenseInv
  <2>3. DenseInv'
    BY <2>1, <2>2, DenseStep
  <2>4. PICK k : Healthy(ht', k)
    BY <2>3 DEF DenseInv
  <2>5. LoopAt(ht', k, pos', pending')
    BY <2>1 DEF LoopAt
  <2> QED
    BY <2>4, <2>5 DEF LoopInv
<1>11. CASE UNCHANGED <<vars, pos, pending>>
  BY <1>1, <1>11 DEF LoopInv, vars
<1> QED
  BY <1>5, <1>7, <1>8, <1>9, <1>10, <1>11 DEF LoopNext

\* A loop over the table that erases as it goes visits every key that was there when it
\* began and was not erased meanwhile, and none of them twice.
THEOREM LoopVisitsEveryKey == LoopSpec => []VisitsEveryKey
<1>1. LoopInit => LoopInv
  <2> SUFFICES ASSUME LoopInit PROVE LoopInv
    OBVIOUS
  <2>1. Init /\ pos = NoLoop
    BY DEF LoopInit
  <2>2. PICK n : Healthy(ht, n)
    BY <2>1, DenseInitially DEF DenseInv
  <2>3. LoopAt(ht, n, pos, pending)
    BY <2>1 DEF LoopAt
  <2> QED
    BY <2>2, <2>3 DEF LoopInv
<1>2. LoopInv /\ [LoopNext]_<<vars, pos, pending>> => LoopInv'
  BY LoopStep
<1>3. LoopInv => VisitsEveryKey
  <2> SUFFICES ASSUME NEW n, Healthy(ht, n), LoopAt(ht, n, pos, pending), pos # NoLoop
               PROVE  pending = {ht.table[b] : b \in {c \in LiveBuckets(ht) : c >= pos}}
    BY DEF LoopInv, VisitsEveryKey
  <2>1. LiveBuckets(ht) = WithKeys(ht.table, n)
    BY HealthyFacts, TableFacts
  <2>2. pending = From(ht, n, pos)
    BY DEF LoopAt
  <2> QED
    BY <2>1, <2>2, Zenon DEF From
<1> QED
  BY <1>1, <1>2, <1>3, PTL DEF LoopSpec
==============================================================================
