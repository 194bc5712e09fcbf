-------------------------- MODULE CopasLimitProofs --------------------------
(***************************************************************************)
(* The runner of copas/limit.lua is consistent, for any number of tasks    *)
(* and drivers, any maxt and any tasks that are removed.                   *)
(***************************************************************************)
EXTENDS CopasLimit, CopasSleepingProofs

\* r is s after the threads of W were woken up.
Woken(r, s, W) ==
  /\ Sound(Threads, r) /\ r.lethargy = s.lethargy \ W
  /\ Elements(r.cos) = Elements(s.cos) \cup (s.lethargy \cap W)

\* g is the function of WakeSeq, up to m.
Wakes(g, s, cos, m) ==
  g = [n \in 0 .. m |-> IF n = 0 THEN s ELSE wakeup(g[n - 1], cos[n])]

LEMMA WakesExists ==
  ASSUME NEW s, NEW cos, NEW m \in Nat
  PROVE  \E g : Wakes(g, s, cos, m)
<1> DEFINE S == {k \in Nat : \E g : Wakes(g, s, cos, k)}
<1>1. 0 \in S
  <2>1. Wakes([n \in 0 .. 0 |-> s], s, cos, 0)
    BY DEF Wakes
  <2> QED
    BY <2>1
<1>2. ASSUME NEW k \in Nat, k \in S PROVE k + 1 \in S
  <2>1. PICK g : Wakes(g, s, cos, k)
    BY <1>2
  <2> DEFINE h == [n \in 0 .. k + 1 |-> IF n = k + 1 THEN wakeup(g[k], cos[k + 1]) ELSE g[n]]
  <2>2. ASSUME NEW n \in 0 .. k + 1
        PROVE  h[n] = IF n = 0 THEN s ELSE wakeup(h[n - 1], cos[n])
    <3>1. CASE n = 0
      BY <2>1, <3>1 DEF Wakes
    <3>2. CASE n \in 1 .. k
      <4>1. n - 1 \in 0 .. k /\ n - 1 # k + 1 /\ n # k + 1 /\ n \in 0 .. k /\ n # 0
        BY <3>2
      <4>2. g[n] = wakeup(g[n - 1], cos[n])
        BY <2>1, <4>1 DEF Wakes
      <4>3. h[n] = g[n] /\ h[n - 1] = g[n - 1]
        BY <4>1
      <4> QED
        BY <4>1, <4>2, <4>3, Zenon
    <3>3. CASE n = k + 1
      <4>1. n - 1 \in 0 .. k + 1 /\ n - 1 = k /\ k # k + 1 /\ n # 0
        BY <3>3
      <4>2. h[n - 1] = g[k] /\ h[n] = wakeup(g[k], cos[k + 1])
        BY <3>3, <4>1
      <4> QED
        BY <3>3, <4>1, <4>2, Zenon
    <3> QED
      BY <3>1, <3>2, <3>3
  <2>3. DOMAIN h = 0 .. k + 1 /\ h = [n \in DOMAIN h |-> h[n]]
    OBVIOUS
  <2> HIDE DEF h
  <2>4. Wakes(h, s, cos, k + 1)
    BY <2>2, <2>3 DEF Wakes
  <2> QED
    BY <2>4
<1>3. Nat \subseteq S
  <2> HIDE DEF S
  <2> QED
    BY <1>1, <1>2, NatInd
<1> QED
  BY <1>3

LEMMA WakeSeqIs ==
  ASSUME NEW s, Sound(Threads, s), NEW cos \in Seq(Threads)
  PROVE  Woken(WakeSeq(s, cos), s, Elements(cos))
<1> DEFINE m == Len(cos)
           w == CHOOSE g : Wakes(g, s, cos, m)
           W(k) == {cos[i] : i \in 1 .. k}
           S == {k \in Nat : k <= m => Woken(w[k], s, W(k))}
<1>1. m \in Nat /\ DOMAIN cos = 1 .. m
  OBVIOUS
<1>2. WakeSeq(s, cos) = w[m]
  BY Zenon DEF WakeSeq, Wakes
<1>3. Wakes(w, s, cos, m)
  BY <1>1, WakesExists, Zenon
<1> HIDE DEF w
<1>4. 0 \in S
  <2>1. w[0] = s
    BY <1>1, <1>3 DEF Wakes
  <2>2. W(0) = {}
    OBVIOUS
  <2>3. Woken(s, s, {})
    BY DEF Woken
  <2> QED
    BY <2>1, <2>2, <2>3
<1>5. ASSUME NEW k \in Nat, k \in S PROVE k + 1 \in S
  <2> SUFFICES ASSUME k + 1 <= m PROVE Woken(w[k + 1], s, W(k + 1))
    OBVIOUS
  <2>1. Woken(w[k], s, W(k))
    BY <1>1, <1>5
  <2>2. w[k + 1] = wakeup(w[k], cos[k + 1])
    BY <1>1, <1>3 DEF Wakes
  <2>3. cos[k + 1] \in Threads /\ Sound(Threads, w[k])
    BY <1>1, <2>1 DEF Woken
  <2>4. /\ Sound(Threads, w[k + 1]) /\ w[k + 1].lethargy = w[k].lethargy \ {cos[k + 1]}
        /\ Elements(w[k + 1].cos) = Elements(w[k].cos) \cup (w[k].lethargy \cap {cos[k + 1]})
    <3> DEFINE c == cos[k + 1]
    <3>1. /\ Sound(Threads, wakeup(w[k], c)) /\ wakeup(w[k], c).lethargy = w[k].lethargy \ {c}
          /\ Elements(wakeup(w[k], c).cos) = Elements(w[k].cos) \cup (w[k].lethargy \cap {c})
      <4> HIDE DEF c
      <4> QED
        <5>1. \A x \in Threads :
                 /\ Sound(Threads, wakeup(w[k], x))
                 /\ wakeup(w[k], x).lethargy = w[k].lethargy \ {x}
                 /\ Elements(wakeup(w[k], x).cos) = Elements(w[k].cos) \cup (w[k].lethargy \cap {x})
          BY <2>3, WakeupIs, Zenon
        <5> QED
          BY <2>3, <5>1, Zenon DEF c
    <3> QED
      BY <2>2, <3>1
  <2>5. W(k + 1) = W(k) \cup {cos[k + 1]}
    <3>1. 1 .. k + 1 = (1 .. k) \cup {k + 1}
      OBVIOUS
    <3> QED
      BY <3>1
  <2> HIDE DEF W
  <2> QED
    BY <2>1, <2>4, <2>5 DEF Woken
<1>6. Nat \subseteq S
  <2> HIDE DEF S
  <2> QED
    BY <1>4, <1>5, NatInd
<1>7. Elements(cos) = W(m)
  BY <1>1 DEF Elements
<1>8. Woken(w[m], s, W(m))
  <2>1. m \in S
    BY <1>1, <1>6
  <2> QED
    BY <2>1
<1> QED
  BY <1>2, <1>7, <1>8

(***************************************************************************)
(* The inductive invariant.                                                *)
(***************************************************************************)
\* What "next" is given: a queue of tasks that sleep without a time, apart from the
\* tasks that run, which are counted.
Fits(q, r, n, s) ==
  /\ q \in Seq(Tasks) /\ \A i, j \in 1 .. Len(q) : i # j => q[i] # q[j]
  /\ r \subseteq Tasks /\ IsFiniteSet(r) /\ n = Cardinality(r) /\ n <= maxt
  /\ Sound(Threads, s)
  /\ Elements(q) \subseteq s.lethargy /\ Elements(q) \cap r = {}

\* Where the code of a thread stands and where the thread is.
Placed(where, c, r, s) ==
  /\ where \in [Threads -> {"none", "queued", "body", "wait", "dead"}]
  /\ c \in Threads \cup {none}
  /\ c # none => where[c] = "body" /\ c \notin Sleepers(s)
  /\ \A t \in Threads : where[t] \in {"none", "dead"} => t \notin Sleepers(s)
  /\ \A t \in Tasks : where[t] = "none" => t \notin r
  /\ \A t \in Tasks \ Removable : where[t] = "body" \/ t \in Elements(s.cos) => t \in r

LimitInv ==
  /\ Fits(queue, running, count, sleeping)
  /\ Placed(at, current, running, sleeping)
  /\ count < maxt => queue = <<>>
  /\ waiting \subseteq Drivers /\ IsFiniteSet(waiting) /\ WaitersAwaited

(***************************************************************************)
(* What "next" does.                                                       *)
(***************************************************************************)
\* What next(q, r, n, s) leaves.
Served(q, r, s) ==
  /\ Fits(queue', running', count', sleeping')
  /\ count' < maxt => queue' = <<>>
  /\ count' = 0 => waiting \cap sleeping'.lethargy = {}
  /\ Sleepers(sleeping') = Sleepers(s)
  /\ \E new \in SUBSET Elements(q) :
       /\ running' = r \cup new
       /\ Elements(sleeping'.cos) \subseteq Elements(s.cos) \cup new \cup waiting

LEMMA WokenSleepers ==
  ASSUME NEW r, NEW s, NEW W, Woken(r, s, W)
  PROVE  Sleepers(r) = Sleepers(s)
BY SleepersAre DEF Woken

LEMMA NextIs ==
  ASSUME NEW q, NEW r, NEW n, NEW s, Fits(q, r, n, s),
         waiting \subseteq Drivers, IsFiniteSet(waiting), next(q, r, n, s)
  PROVE  Served(q, r, s)
<1> DEFINE k == started(q, n)
           go == SubSeq(q, 1, k)
           rest == SubSeq(q, k + 1, Len(q))
           new == Elements(go)
           woken == WakeSeq(s, go)
<1>1. /\ q \in Seq(Tasks) /\ Len(q) \in Nat
      /\ \A i, j \in 1 .. Len(q) : i # j => q[i] # q[j]
      /\ maxt \in Nat /\ n \in Nat /\ n <= maxt
      /\ r \subseteq Tasks /\ IsFiniteSet(r) /\ n = Cardinality(r)
      /\ Sound(Threads, s) /\ Elements(q) \subseteq s.lethargy /\ Elements(q) \cap r = {}
  BY LimitAssumption, FS_CardinalityType DEF Fits
<1>2. k \in 0 .. Len(q) /\ n + k <= maxt /\ (n + k < maxt => k = Len(q))
  BY <1>1 DEF started
<1> HIDE DEF k
<1>3. /\ go \in Seq(Tasks) /\ Len(go) = k
      /\ \A i \in 1 .. k : go[i] = q[i]
  BY <1>1, <1>2, SubSeqProperties
<1>4. /\ rest \in Seq(Tasks) /\ Len(rest) = Len(q) - k
      /\ \A i \in 1 .. Len(q) - k : rest[i] = q[k + i]
  BY <1>1, <1>2, SubSeqProperties
<1>5. queue' = rest /\ running' = r \cup new /\ count' = n + k
  BY Zenon DEF next, k, Elements
<1>6. IF signal(n + k) THEN \E order \in SetToSeqs(waiting) : sleeping' = WakeSeq(woken, order)
                       ELSE sleeping' = woken
  BY Zenon DEF next, k
<1> HIDE DEF go, rest
<1>7. DOMAIN go = 1 .. k /\ DOMAIN rest = 1 .. Len(q) - k /\ DOMAIN q = 1 .. Len(q)
  BY <1>1, <1>2, <1>3, <1>4
<1>20. /\ \A i \in 1 .. k : go[i] = q[i] /\ i \in 1 .. Len(q)
       /\ \A i \in 1 .. Len(q) - k : rest[i] = q[k + i] /\ k + i \in 1 .. Len(q) /\ k + i > k
  BY <1>1, <1>2, <1>3, <1>4
<1>8. new \subseteq Elements(q) /\ Elements(rest) \subseteq Elements(q)
  BY <1>7, <1>20 DEF Elements
<1>9. new \cap Elements(rest) = {}
  <2>1. ASSUME NEW i \in 1 .. k, NEW j \in 1 .. Len(q) - k PROVE go[i] # rest[j]
    <3>1. i # k + j
      BY <1>2, <1>20
    <3> QED
      BY <3>1, <1>1, <1>20
  <2> QED
    BY <1>7, <2>1 DEF Elements
<1>10. IsFiniteSet(new) /\ Cardinality(new) = k
  <2>1. \A i, j \in 1 .. Len(go) : i # j => go[i] # go[j]
    BY <1>1, <1>2, <1>3
  <2> QED
    BY <1>3, <2>1, DistinctCount
<1> HIDE DEF new
<1>11. IsFiniteSet(running') /\ Cardinality(running') = n + k
  <2>1. r \cap new = {}
    BY <1>1, <1>8
  <2>2. Cardinality(r \cap new) = 0
    BY <2>1, FS_EmptySet
  <2> QED
    <3>1. /\ IsFiniteSet(r \cup new)
          /\ Cardinality(r \cup new) = Cardinality(r) + Cardinality(new) - Cardinality(r \cap new)
      BY <1>1, <1>10, FS_Union
    <3>2. Cardinality(r \cup new) = n + k
      BY <1>1, <1>2, <1>10, <2>2, <3>1
    <3> QED
      BY <1>5, <3>1, <3>2
<1>12. Woken(woken, s, new)
  <2>1. go \in Seq(Threads)
    BY <1>3 DEF Threads
  <2> QED
    BY <1>1, <2>1, WakeSeqIs DEF new
<1> HIDE DEF woken
<1>13. \/ Woken(sleeping', woken, waiting)
       \/ ~ signal(n + k) /\ sleeping' = woken
  <2>1. ASSUME NEW order \in SetToSeqs(waiting), sleeping' = WakeSeq(woken, order)
        PROVE  Woken(sleeping', woken, waiting)
    <3>1. order \in Seq(waiting) /\ Elements(order) = waiting
      BY OrderOfSet
    <3>2. order \in Seq(Threads)
      BY <3>1, SeqMonotonic DEF Threads
    <3>3. Sound(Threads, woken)
      BY <1>12 DEF Woken
    <3> QED
      BY <2>1, <3>1, <3>2, <3>3, WakeSeqIs
  <2> QED
    BY <1>6, <2>1
<1>14. /\ Sound(Threads, sleeping') /\ Sleepers(sleeping') = Sleepers(s)
       /\ s.lethargy \ (new \cup waiting) \subseteq sleeping'.lethargy
       /\ Elements(sleeping'.cos) \subseteq Elements(s.cos) \cup new \cup waiting
       /\ signal(n + k) => waiting \cap sleeping'.lethargy = {}
  <2>1. CASE Woken(sleeping', woken, waiting)
    <3>1. Sleepers(sleeping') = Sleepers(s)
      BY <1>12, <2>1, WokenSleepers
    <3> QED
      BY <1>12, <2>1, <3>1 DEF Woken
  <2>2. CASE ~ signal(n + k) /\ sleeping' = woken
    <3>1. Sleepers(sleeping') = Sleepers(s)
      BY <1>12, <2>2, WokenSleepers
    <3> QED
      BY <1>12, <2>2, <3>1 DEF Woken
  <2> QED
    BY <1>13, <2>1, <2>2
<1>15. \A i, j \in 1 .. Len(rest) : i # j => rest[i] # rest[j]
  <2>1. ASSUME NEW i \in 1 .. Len(rest), NEW j \in 1 .. Len(rest), i # j
        PROVE  rest[i] # rest[j]
    <3>1. /\ i \in 1 .. Len(q) - k /\ j \in 1 .. Len(q) - k
          /\ k + i \in 1 .. Len(q) /\ k + j \in 1 .. Len(q) /\ k + i # k + j
      BY <1>1, <1>2, <1>4, <2>1
    <3>2. q[k + i] # q[k + j]
      BY <1>1, <3>1, Zenon
    <3>3. rest[i] = q[k + i] /\ rest[j] = q[k + j]
      BY <1>4, <3>1
    <3> QED
      BY <3>2, <3>3
  <2> QED
    BY <2>1
<1>16. Elements(rest) \cap (new \cup waiting) = {} /\ Elements(rest) \subseteq s.lethargy
  <2>1. Elements(q) \subseteq Tasks
    BY <1>1, <1>7 DEF Elements
  <2> QED
    BY <1>1, <1>8, <1>9, <2>1, LimitAssumption
<1>17. Fits(queue', running', count', sleeping')
  <2>1. new \subseteq Tasks
    BY <1>3, <1>7 DEF new, Elements
  <2> QED
    BY <1>1, <1>2, <1>4, <1>5, <1>8, <1>9, <1>11, <1>14, <1>15, <1>16, <2>1 DEF Fits
<1>18. count' < maxt => queue' = <<>>
  BY <1>1, <1>2, <1>4, <1>5
<1>19. count' = 0 => waiting \cap sleeping'.lethargy = {}
  BY <1>5, <1>14 DEF signal
<1> QED
  BY <1>5, <1>8, <1>14, <1>17, <1>18, <1>19 DEF Served


(***************************************************************************)
(* Every step keeps the invariant.                                         *)
(***************************************************************************)
LEMMA ServedInv ==
  ASSUME LimitInv, NEW q, NEW r, NEW n, NEW s, Fits(q, r, n, s), next(q, r, n, s),
         Placed(at', current', r, s), waiting' = waiting
  PROVE  LimitInv'
<1>1. waiting \subseteq Drivers /\ IsFiniteSet(waiting)
  BY DEF LimitInv
<1>2. Served(q, r, s)
  BY <1>1, NextIs
<1>3. PICK new \in SUBSET Elements(q) :
        /\ running' = r \cup new
        /\ Elements(sleeping'.cos) \subseteq Elements(s.cos) \cup new \cup waiting
  BY <1>2 DEF Served
<1>4. /\ Fits(queue', running', count', sleeping')
      /\ count' < maxt => queue' = <<>>
      /\ count' = 0 => waiting \cap sleeping'.lethargy = {}
      /\ Sleepers(sleeping') = Sleepers(s)
  BY <1>2 DEF Served
<1>5. new \subseteq Sleepers(s)
  BY SleepersAre DEF Fits
<1>6. Placed(at', current', running', sleeping')
  <2>1. \A t \in Tasks : at'[t] = "none" => t \notin running'
    BY <1>3, <1>5 DEF Placed, Threads
  <2>2. \A t \in Tasks \ Removable : at'[t] = "body" \/ t \in Elements(sleeping'.cos) => t \in running'
    BY <1>1, <1>3, LimitAssumption DEF Placed
  <2> QED
    BY <1>4, <2>1, <2>2 DEF Placed
<1>7. count' \in Nat
  BY <1>4, FS_CardinalityType DEF Fits
<1>8. WaitersAwaited'
  BY <1>4, <1>7 DEF WaitersAwaited
<1> QED
  BY <1>1, <1>4, <1>6, <1>8 DEF LimitInv

LEMMA DequeuedIs ==
  ASSUME NEW r, NEW n, NEW s, Fits(queue, r, n, s), NEW t
  PROVE  Fits(Dequeued(queue, t), r, n, s)
<1>1. CASE \E i \in DOMAIN queue : queue[i] = t
  <2> DEFINE i == Position(queue, t)
             q == RemoveAt(queue, i)
             m == Len(queue)
  <2>1. i \in DOMAIN queue /\ Dequeued(queue, t) = q
    BY <1>1 DEF Position, Dequeued
  <2>2. queue \in Seq(Tasks) /\ DOMAIN queue = 1 .. m /\ m \in Nat
    BY DEF Fits
  <2> HIDE DEF i
  <2>3. /\ q \in Seq(Tasks) /\ Len(q) = m - 1
        /\ \A j \in 1 .. m - 1 : q[j] = IF j < i THEN queue[j] ELSE queue[j + 1]
    BY <2>1, <2>2, RemoveAtIs
  <2> HIDE DEF q
  <2>4. \A j, k \in 1 .. m : j # k => queue[j] # queue[k]
    BY DEF Fits
  <2>5. ASSUME NEW j \in 1 .. m - 1, NEW k \in 1 .. m - 1, j # k
        PROVE  q[j] # q[k]
    <3>1. /\ j < i => j \in 1 .. m /\ q[j] = queue[j]
          /\ ~ (j < i) => j + 1 \in 1 .. m /\ q[j] = queue[j + 1]
          /\ k < i => k \in 1 .. m /\ q[k] = queue[k]
          /\ ~ (k < i) => k + 1 \in 1 .. m /\ q[k] = queue[k + 1]
      BY <2>1, <2>2, <2>3
    <3> QED
      BY <2>1, <2>2, <2>4, <2>5, <3>1
  <2>6. \A j \in 1 .. m - 1 : \E k \in 1 .. m : q[j] = queue[k]
    BY <2>1, <2>2, <2>3
  <2>7. Elements(q) \subseteq Elements(queue)
    <3>1. DOMAIN q = 1 .. m - 1
      BY <2>2, <2>3
    <3> QED
      BY <3>1, <2>2, <2>6 DEF Elements
  <2> HIDE DEF m
  <2> QED
    BY <2>1, <2>3, <2>5, <2>7 DEF Fits
<1>2. CASE ~ \E i \in DOMAIN queue : queue[i] = t
  BY <1>2 DEF Dequeued
<1> QED
  BY <1>1, <1>2

LEMMA RemovingInv ==
  ASSUME LimitInv, NEW t \in Tasks, Removing(t), waiting' = waiting,
         Placed(at', current', IF t \in running THEN running \ {t} ELSE running, sleeping)
  PROVE  LimitInv'
<1>1. Fits(queue, running, count, sleeping)
  BY DEF LimitInv
<1>2. CASE t \in running
  <2>1. count \in Nat /\ IsFiniteSet(running \ {t}) /\ Cardinality(running \ {t}) = count - 1
    BY <1>1, <1>2, FS_RemoveElement, FS_CardinalityType DEF Fits
  <2>2. Fits(queue, running \ {t}, count - 1, sleeping)
    BY <1>1, <2>1, LimitAssumption DEF Fits
  <2>3. next(queue, running \ {t}, count - 1, sleeping)
    BY <1>2 DEF Removing
  <2>4. Placed(at', current', running \ {t}, sleeping)
    BY <1>2
  <2> QED
    BY <2>2, <2>3, <2>4, ServedInv
<1>3. CASE t \notin running
  <2>1. Fits(Dequeued(queue, t), running, count, sleeping)
    BY <1>1, DequeuedIs
  <2>2. next(Dequeued(queue, t), running, count, sleeping)
    BY <1>3 DEF Removing
  <2>3. Placed(at', current', running, sleeping)
    BY <1>3
  <2> QED
    BY <2>1, <2>2, <2>3, ServedInv
<1> QED
  BY <1>2, <1>3

LEMMA AddInv == ASSUME LimitInv, NEW t \in Tasks, add(t) PROVE LimitInv'
<1> DEFINE q == Append(queue, t)
           s == push(sleeping, -1, t)
           m == Len(queue)
<1>1. /\ Fits(queue, running, count, sleeping) /\ Placed(at, current, running, sleeping)
      /\ current # none /\ at[t] = "none" /\ at' = [at EXCEPT ![t] = "queued"]
      /\ next(q, running, count, s) /\ current' = current /\ waiting' = waiting
  BY DEF LimitInv, add
<1>2. t \in Threads /\ t \notin Sleepers(sleeping) /\ t \notin running /\ Sound(Threads, sleeping)
  BY <1>1 DEF Fits, Placed, Threads
<1>3. Sound(Threads, s) /\ s.cos = sleeping.cos /\ s.lethargy = sleeping.lethargy \cup {t}
  BY <1>2, LieDown
<1>4. Sleepers(s) = Sleepers(sleeping) \cup {t}
  BY <1>3, SleepersAre
<1> HIDE DEF s
<1>5. queue \in Seq(Tasks) /\ m \in Nat /\ DOMAIN queue = 1 .. m
  BY <1>1 DEF Fits
<1>6. /\ q \in Seq(Tasks) /\ Len(q) = m + 1 /\ DOMAIN q = 1 .. m + 1
      /\ q[m + 1] = t /\ \A i \in 1 .. m : q[i] = queue[i]
  BY <1>5
<1> HIDE DEF q
<1>7. Elements(q) = Elements(queue) \cup {t}
  <2>1. 1 .. m + 1 = (1 .. m) \cup {m + 1}
    BY <1>5
  <2> QED
    BY <1>5, <1>6, <2>1 DEF Elements
<1>8. t \notin Elements(queue)
  BY <1>1, <1>2, SleepersAre DEF Fits
<1>9. ASSUME NEW i \in 1 .. m + 1, NEW j \in 1 .. m + 1, i # j PROVE q[i] # q[j]
  <2>1. \A k \in 1 .. m : queue[k] # t
    BY <1>5, <1>8 DEF Elements
  <2>2. \A k, l \in 1 .. m : k # l => queue[k] # queue[l]
    BY <1>1 DEF Fits
  <2>3. (i \in 1 .. m \/ i = m + 1) /\ (j \in 1 .. m \/ j = m + 1)
    BY <1>5
  <2> QED
    BY <1>6, <1>9, <2>1, <2>2, <2>3
<1> HIDE DEF m
<1>10. Fits(q, running, count, s)
  BY <1>1, <1>2, <1>3, <1>6, <1>7, <1>9 DEF Fits
<1>11. Placed(at', current', running, s)
  <2>1. current # t
    BY <1>1 DEF Placed
  <2> QED
    BY <1>1, <1>2, <1>3, <1>4, <2>1 DEF Placed
<1> QED
  BY <1>1, <1>10, <1>11, ServedInv

LEMMA RemoveInv == ASSUME LimitInv, NEW t \in Tasks, remove(t) PROVE LimitInv'
<1>1. /\ Placed(at, current, running, sleeping) /\ t \in Removable
      /\ Removing(t) /\ at' = at /\ current' = current /\ waiting' = waiting
  BY DEF LimitInv, remove
<1>2. Placed(at', current', IF t \in running THEN running \ {t} ELSE running, sleeping)
  BY <1>1 DEF Placed
<1> QED
  BY <1>1, <1>2, RemovingInv

LEMMA FinishInv == ASSUME LimitInv, Finish PROVE LimitInv'
<1>1. /\ Placed(at, current, running, sleeping) /\ current \in Tasks
      /\ Removing(current) /\ at' = [at EXCEPT ![current] = "dead"] /\ current' = none
      /\ waiting' = waiting
  BY DEF LimitInv, Finish
<1>2. current # none /\ current \in Threads
  BY <1>1, LimitAssumption DEF Threads
<1>3. current \notin Elements(sleeping.cos)
  BY <1>1, <1>2, SleepersAre DEF Placed
<1>4. Placed(at', current', IF current \in running THEN running \ {current} ELSE running, sleeping)
  BY <1>1, <1>2, <1>3 DEF Placed
<1> QED
  BY <1>1, <1>4, RemovingInv

\* Steps that leave the runner alone.
LEMMA RestInv ==
  ASSUME LimitInv, UNCHANGED <<queue, running, count>>, Sound(Threads, sleeping'),
         Elements(queue) \subseteq sleeping'.lethargy,
         Placed(at', current', running, sleeping'),
         waiting' \subseteq Drivers, IsFiniteSet(waiting'), WaitersAwaited'
  PROVE  LimitInv'
BY DEF LimitInv, Fits

LEMMA SleepInv == ASSUME LimitInv, NEW d \in Naps, Sleep(d) PROVE LimitInv'
<1>1. /\ Fits(queue, running, count, sleeping) /\ Placed(at, current, running, sleeping)
      /\ current # none /\ current' = none /\ sleeping' = push(sleeping, d, current)
      /\ UNCHANGED <<queue, running, count, waiting, at>>
      /\ waiting \subseteq Drivers /\ IsFiniteSet(waiting) /\ WaitersAwaited
  BY DEF LimitInv, Sleep, runner
<1>2. /\ current \in Threads /\ current \notin Sleepers(sleeping) /\ at[current] = "body"
      /\ d \in Nat /\ Sound(Threads, sleeping)
  BY <1>1, LimitAssumption DEF Placed, Fits
<1>3. /\ Sound(Threads, sleeping') /\ sleeping'.lethargy = sleeping.lethargy
      /\ Elements(sleeping'.cos) = Elements(sleeping.cos) \cup {current}
  BY <1>1, <1>2, LieDown
<1>4. Sleepers(sleeping') = Sleepers(sleeping) \cup {current}
  BY <1>3, SleepersAre
<1>5. Placed(at', current', running, sleeping')
  BY <1>1, <1>2, <1>3, <1>4 DEF Placed
<1>6. WaitersAwaited'
  BY <1>1, <1>3 DEF WaitersAwaited
<1> QED
  BY <1>1, <1>3, <1>5, <1>6, RestInv DEF Fits

LEMMA WaitInv == ASSUME LimitInv, wait PROVE LimitInv'
<1>1. CASE count = 0
  BY <1>1 DEF wait, vars, LimitInv, Fits, Placed, WaitersAwaited
<1>2. CASE count # 0
  <2>1. /\ Fits(queue, running, count, sleeping) /\ Placed(at, current, running, sleeping)
        /\ current \in Drivers /\ current' = none /\ sleeping' = push(sleeping, -1, current)
        /\ at' = [at EXCEPT ![current] = "wait"] /\ waiting' = waiting \cup {current}
        /\ UNCHANGED <<queue, running, count>>
        /\ waiting \subseteq Drivers /\ IsFiniteSet(waiting) /\ WaitersAwaited
    BY <1>2 DEF LimitInv, wait
  <2>2. /\ current \in Threads /\ current # none /\ current \notin Tasks
        /\ current \notin Sleepers(sleeping) /\ Sound(Threads, sleeping)
    BY <2>1, LimitAssumption DEF Placed, Fits, Threads
  <2>3. /\ Sound(Threads, sleeping') /\ sleeping'.cos = sleeping.cos
        /\ sleeping'.lethargy = sleeping.lethargy \cup {current}
    BY <2>1, <2>2, LieDown
  <2>4. Sleepers(sleeping') = Sleepers(sleeping) \cup {current}
    BY <2>3, SleepersAre
  <2>5. Placed(at', current', running, sleeping')
    BY <2>1, <2>2, <2>3, <2>4 DEF Placed
  <2>6. count > 0
    BY <1>2, <2>1, FS_CardinalityType DEF Fits
  <2>7. WaitersAwaited'
    BY <2>1, <2>6 DEF WaitersAwaited
  <2>8. IsFiniteSet(waiting') /\ waiting' \subseteq Drivers
    BY <2>1, FS_AddElement
  <2> QED
    BY <2>1, <2>3, <2>5, <2>7, <2>8, RestInv DEF Fits
<1> QED
  BY <1>1, <1>2

LEMMA ExitInv == ASSUME LimitInv, Exit PROVE LimitInv'
<1>1. /\ Fits(queue, running, count, sleeping) /\ Placed(at, current, running, sleeping)
      /\ current \in Drivers /\ at' = [at EXCEPT ![current] = "dead"] /\ current' = none
      /\ UNCHANGED <<queue, running, count, waiting, sleeping>>
      /\ waiting \subseteq Drivers /\ IsFiniteSet(waiting) /\ WaitersAwaited
  BY DEF LimitInv, Exit, runner
<1>2. current \in Threads /\ current # none /\ current \notin Tasks
  BY <1>1, LimitAssumption DEF Threads
<1>3. Placed(at', current', running, sleeping')
  BY <1>1, <1>2 DEF Placed
<1>4. WaitersAwaited'
  BY <1>1 DEF WaitersAwaited
<1> QED
  BY <1>1, <1>3, <1>4, RestInv DEF Fits

LEMMA TickInv == ASSUME LimitInv, Tick PROVE LimitInv'
<1> DEFINE t == Head(sleeping.cos)
<1>1. /\ Fits(queue, running, count, sleeping) /\ Placed(at, current, running, sleeping)
      /\ sleeping.times # <<>> /\ current' = t /\ sleeping' = pop(sleeping)
      /\ at' = [at EXCEPT ![t] = "body"] /\ waiting' = waiting \ {t}
      /\ UNCHANGED <<queue, running, count>>
      /\ waiting \subseteq Drivers /\ IsFiniteSet(waiting) /\ WaitersAwaited
  BY DEF LimitInv, Tick, Due
<1>2. /\ Sound(Threads, sleeping') /\ sleeping'.lethargy = sleeping.lethargy
      /\ t \in Threads /\ t \in Elements(sleeping.cos) /\ t \notin Sleepers(sleeping')
      /\ Elements(sleeping'.cos) \subseteq Elements(sleeping.cos)
  <2>1. Sound(Threads, sleeping)
    BY <1>1 DEF Fits
  <2>2. /\ Sound(Threads, pop(sleeping)) /\ pop(sleeping).lethargy = sleeping.lethargy
        /\ t \in Threads /\ t \in Elements(sleeping.cos) /\ t \notin Sleepers(pop(sleeping))
        /\ Elements(pop(sleeping).cos) = Elements(sleeping.cos) \ {t}
    BY <1>1, <2>1, PopIs, Zenon
  <2> QED
    BY <1>1, <2>2
<1> HIDE DEF t
<1>3. Sleepers(sleeping') \subseteq Sleepers(sleeping)
  BY <1>2, SleepersAre
<1>4. Placed(at', current', running, sleeping')
  BY <1>1, <1>2, <1>3 DEF Placed
<1>5. IsFiniteSet(waiting') /\ waiting' \subseteq Drivers
  BY <1>1, FS_RemoveElement
<1>6. WaitersAwaited'
  BY <1>1, <1>2 DEF WaitersAwaited
<1> QED
  BY <1>1, <1>2, <1>4, <1>5, <1>6, RestInv DEF Fits

LEMMA IdleInv == ASSUME LimitInv, Idle PROVE LimitInv'
<1>1. /\ Fits(queue, running, count, sleeping) /\ Placed(at, current, running, sleeping)
      /\ sleeping.times # <<>> /\ sleeping' = Later(sleeping, getnext(sleeping))
      /\ UNCHANGED <<queue, running, count, waiting, at, current>>
      /\ waiting \subseteq Drivers /\ IsFiniteSet(waiting) /\ WaitersAwaited
  BY DEF LimitInv, Idle, runner
<1>2. sleeping.times \in Seq(Nat)
  BY <1>1 DEF Fits, Sound, Records
<1>3. getnext(sleeping) \in Nat
  BY <1>1, <1>2, HeadTailProperties DEF getnext
<1>4. /\ Sound(Threads, sleeping') /\ sleeping'.lethargy = sleeping.lethargy
      /\ sleeping'.cos = sleeping.cos
  BY <1>1, <1>3, LaterIs DEF Fits
<1>5. Sleepers(sleeping') = Sleepers(sleeping)
  BY <1>4, SleepersAre
<1>6. Placed(at', current', running, sleeping')
  BY <1>1, <1>4, <1>5 DEF Placed
<1>7. WaitersAwaited'
  BY <1>1, <1>4 DEF WaitersAwaited
<1> QED
  BY <1>1, <1>4, <1>6, <1>7, RestInv DEF Fits

LEMMA LimitInvInit == Init => LimitInv
<1> SUFFICES ASSUME Init PROVE LimitInv
  OBVIOUS
<1>1. PICK order \in SetToSeqs(Drivers) :
        sleeping = [Nobody EXCEPT !.cos = order, !.times = [i \in DOMAIN order |-> 0]]
  BY DEF Init
<1> DEFINE zeros == [i \in DOMAIN order |-> 0]
           n == Len(order)
<1>2. order \in Seq(Drivers) /\ Elements(order) = Drivers
  BY OrderOfSet, LimitAssumption
<1>3. \A i, j \in 1 .. n : i # j => order[i] # order[j]
  <2>1. n = Cardinality(Drivers)
    BY LimitAssumption, FS_CardinalityType DEF SetToSeqs
  <2> QED
    BY <2>1 DEF SetToSeqs
<1>4. n \in Nat /\ DOMAIN order = 1 .. n /\ order \in Seq(Threads)
  BY <1>2, SeqMonotonic DEF Threads
<1>5. zeros \in Seq(Nat) /\ Len(zeros) = n /\ \A i \in 1 .. n : zeros[i] = 0
  BY <1>4
<1>6. sleeping = [times |-> zeros, cos |-> order, lethargy |-> {}]
  BY <1>1 DEF Nobody
<1> HIDE DEF zeros, n
<1>7. sleeping \in Records(Threads)
  BY <1>4, <1>5, <1>6 DEF Records
<1>8. Ordered(sleeping)
  BY <1>3, <1>4, <1>5, <1>6 DEF Ordered, InOrder, n
<1>9. Sound(Threads, sleeping) /\ Sleepers(sleeping) = Drivers /\ Elements(sleeping.cos) = Drivers
  BY <1>2, <1>6, <1>7, <1>8, SoundIs, SleepersAre
<1>10. Fits(queue, running, count, sleeping)
  BY <1>9, LimitAssumption, FS_EmptySet DEF Init, Fits, Elements
<1>11. Placed(at, current, running, sleeping)
  BY <1>9, LimitAssumption DEF Init, Placed, Threads
<1> QED
  BY <1>10, <1>11, FS_EmptySet DEF Init, LimitInv, WaitersAwaited

LEMMA LimitInvNext == ASSUME LimitInv, [Next]_vars PROVE LimitInv'
<1>1. CASE UNCHANGED vars
  BY <1>1 DEF vars, LimitInv, Fits, Placed, WaitersAwaited
<1>2. CASE Next
  <2>1. CASE Finished
    BY <2>1, <1>1 DEF Finished
  <2> QED
    BY <1>2, <2>1, TickInv, IdleInv, FinishInv, WaitInv, ExitInv, SleepInv, AddInv, RemoveInv
    DEF Next
<1> QED
  BY <1>1, <1>2

LEMMA LimitInvConsistent == LimitInv => RunnerConsistent
<1> SUFFICES ASSUME LimitInv PROVE RunnerConsistent
  OBVIOUS
<1>1. /\ Fits(queue, running, count, sleeping) /\ Placed(at, current, running, sleeping)
      /\ count < maxt => queue = <<>>
      /\ waiting \subseteq Drivers /\ WaitersAwaited
  BY DEF LimitInv
<1>2. count \in 0 .. maxt
  BY <1>1, LimitAssumption, FS_CardinalityType DEF Fits
<1>3. Queued = Elements(queue)
  BY DEF Queued, Elements
<1>4. TypeOK
  BY <1>1, <1>2 DEF TypeOK, Fits, Placed, Sound
<1>5. CountAgrees /\ QueuedSleep
  BY <1>1, <1>3 DEF CountAgrees, QueuedSleep, Fits
<1>6. AtMostMaxt
  <2>1. {t \in Tasks \ Removable : at[t] = "body"} \in SUBSET running
    BY <1>1 DEF Placed
  <2> DEFINE begun == {t \in Tasks \ Removable : at[t] = "body"}
  <2>2. /\ IsFiniteSet(begun) /\ Cardinality(begun) <= Cardinality(running)
    BY <1>1, <2>1, FS_Subset DEF Fits
  <2>3. Cardinality(begun) \in Nat
    BY <2>2, FS_CardinalityType
  <2> QED
    BY <1>1, <1>2, <2>2, <2>3, LimitAssumption DEF AtMostMaxt, Fits
<1> QED
  BY <1>1, <1>4, <1>5, <1>6 DEF RunnerConsistent

(***************************************************************************)
(* For any tasks, drivers and maxt: count is the number of running tasks   *)
(* and at most maxt, nothing waits in the queue while there is room, what  *)
(* is queued can still be woken up, and no thread waits for nothing.       *)
(***************************************************************************)
THEOREM LimitRunnerConsistent == Spec => []RunnerConsistent
<1>1. Spec => []LimitInv
  BY LimitInvInit, LimitInvNext, PTL DEF Spec
<1> QED
  BY <1>1, LimitInvConsistent, PTL
=============================================================================
