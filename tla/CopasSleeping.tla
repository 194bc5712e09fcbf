--------------------------- MODULE CopasSleeping ---------------------------
(* The list of sleeping threads of copas.lua, as operators on a record       *)
(* [times, cos, lethargy].  A wake-up time is kept as what is left of it, 0  *)
(* when it has passed: only that is ever compared with the clock.            *)
EXTENDS Integers, Sequences, SequencesExt

Nobody == [times |-> <<>>, cos |-> <<>>, lethargy |-> {}]

\* Mutant: a thread goes in front of those with the same time.
PlaceBefore(times, left) ==
    CHOOSE i \in 1 .. Len(times) + 1 :
        (\A j \in 1 .. i - 1 : times[j] < left) /\ (i <= Len(times) => times[i] >= left)

\* Behind every thread that wakes up at the same time or before; times is sorted.
Place(times, left) ==
    CHOOSE i \in 1 .. Len(times) + 1 :
        (\A j \in 1 .. i - 1 : times[j] <= left) /\ (i <= Len(times) => times[i] > left)

push(s, sleeptime, co) ==
    IF sleeptime < 0 THEN [s EXCEPT !.lethargy = @ \cup {co}]
    ELSE LET i == Place(s.times, sleeptime)
         IN  [s EXCEPT !.times = InsertAt(@, i, sleeptime), !.cos = InsertAt(@, i, co)]

\* pop gives the thread whose time has come, if there is one.
Due(s) == s.times # <<>> /\ Head(s.times) = 0

pop(s) == [s EXCEPT !.times = Tail(@), !.cos = Tail(@)]

\* getnext: the delay until the next thread wakes up; NoDelay is nil.
NoDelay == -1
getnext(s) == IF s.times = <<>> THEN NoDelay ELSE Head(s.times)

\* Where a thread is in a list that has it once.
Position(list, co) == CHOOSE i \in DOMAIN list : list[i] = co

\* A thread that does not sleep is not woken up, and nothing is remembered.
wakeup(s, co) ==
    IF co \in s.lethargy THEN [push(s, 0, co) EXCEPT !.lethargy = @ \ {co}]
    ELSE IF \E i \in DOMAIN s.cos : s.cos[i] = co
    THEN LET i == Position(s.cos, co)
         IN  push([s EXCEPT !.times = RemoveAt(@, i), !.cos = RemoveAt(@, i)], 0, co)
    ELSE s

Minus(left, d) == IF left > d THEN left - d ELSE 0

\* What d of time leaves.
Later(s, d) == [s EXCEPT !.times = [i \in DOMAIN @ |-> Minus(@[i], d)]]

Sleepers(s) == {s.cos[i] : i \in DOMAIN s.cos} \cup s.lethargy
Sleeping(s, co) == co \in Sleepers(s)

\* The two lists belong together, the times are sorted, nobody sleeps twice.
WellFormed(s) ==
    /\ Len(s.times) = Len(s.cos)
    /\ \A i, j \in DOMAIN s.times : i < j => s.times[i] <= s.times[j] /\ s.cos[i] # s.cos[j]
    /\ \A i \in DOMAIN s.cos : s.cos[i] \notin s.lethargy
=============================================================================
