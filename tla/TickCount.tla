----------------------------- MODULE TickCount -----------------------------
(* The clock of SharedUtil.Time: GetTickCount64_ adds up the differences of  *)
(* a system counter that wraps, and CElapsedTime adds up the differences of  *)
(* that.  GetTickCount64_ and AddTickCount run under one critical section,   *)
(* so a call is one action; AtCall and the ghosts below tell what really     *)
(* went by.                                                                  *)
EXTENDS Integers

CONSTANTS
    WRAP,          \* the system counter has the values 0 .. WRAP - 1 (2^32)
    MAX_DELTA,     \* the most one call adds (600 seconds)
    Timers,        \* CElapsedTime objects
    MaxIncrement,  \* m_llMaxIncrement
    Advances,      \* how far the system clock may move between two steps
    StepsBack,     \* how far the wall clock behind it may be put back
    Adds,          \* what AddTickCount may be given
    MaxTime        \* bound of the real time

TickCountAssumption ==
    /\ WRAP \in Nat \ {0} /\ WRAP % 2 = 0 /\ MAX_DELTA \in 1 .. WRAP \div 2
    /\ Advances \subseteq Nat \ {0} /\ Adds \subseteq Nat /\ MaxTime \in Nat
    /\ \A b \in StepsBack : b \in 1 .. WRAP \div 4
    /\ MaxIncrement \in Nat

VARIABLES
    counter,            \* GetTickCountInternal(), before it is taken modulo WRAP
    llCurrent, uiWas,   \* statics of GetTickCount64_
    ms_llTickCountAdd,
    timer,              \* per timer [m_llUpdateTime, m_ullElapsedTime]
    spent,              \* ghost: how far the clock has moved forward in all, with
                        \* what AddTickCount has put into the count
    gap,                \* ghost: how far since the last call
    putBack,            \* ghost: the clock was put back
    slow,               \* ghost: a gap was longer than MAX_DELTA, or putBack
    real                \* ghost, per timer [from, spent, slow]: since its Reset

clockVars == <<counter, llCurrent, uiWas, ms_llTickCountAdd, timer,
          spent, gap, putBack, slow, real>>

\* The first call has been made, with the count at 0 for "a little bit".
ClockInit ==
    /\ counter \in {0, WRAP - 1} /\ uiWas = counter
    /\ llCurrent = 0 /\ ms_llTickCountAdd = 0
    /\ timer = [t \in Timers |-> [m_llUpdateTime |-> 0, m_ullElapsedTime |-> 0]]
    /\ spent = 0 /\ gap = 0 /\ putBack = FALSE /\ slow = FALSE
    /\ real = [t \in Timers |-> [from |-> 0, spent |-> 0, slow |-> FALSE]]

(* ---------------------------- GetTickCount64_ ----------------------------- *)

\* Mutant: a negative difference is not set to zero.
DeltaNegativeKept(now) ==
    LET uiDelta == (now - uiWas) % WRAP
    IN  IF uiDelta > MAX_DELTA THEN MAX_DELTA ELSE uiDelta

\* Unsigned subtraction, negative differences to 0, long ones cut.
Delta(now) ==
    LET uiDelta == (now - uiWas) % WRAP
    IN  IF uiDelta > WRAP \div 2 THEN 0
        ELSE IF uiDelta > MAX_DELTA THEN MAX_DELTA ELSE uiDelta

\* llCurrent' is the result of the call.
GetTickCount64_ ==
    LET uiNow == counter % WRAP
    IN  /\ llCurrent' = llCurrent + Delta(uiNow) + ms_llTickCountAdd
        /\ uiWas' = uiNow
        /\ ms_llTickCountAdd' = 0

\* What the ghosts note of a call.
AtCall ==
    /\ spent' = spent + ms_llTickCountAdd /\ gap' = 0
    /\ UNCHANGED <<counter, putBack, slow>>

(* --------------------------------- actions -------------------------------- *)

AddTickCount(add) ==
    /\ spent + add <= MaxTime
    /\ ms_llTickCountAdd' = add
    /\ UNCHANGED <<counter, llCurrent, uiWas, timer, spent, gap, putBack, slow, real>>

\* CTickCount::Now, GetTickCount32 and every other reader.
Now == GetTickCount64_ /\ AtCall /\ UNCHANGED <<timer, real>>

Reset(t) ==
    /\ GetTickCount64_ /\ AtCall
    /\ timer' = [timer EXCEPT ![t] = [m_llUpdateTime |-> llCurrent', m_ullElapsedTime |-> 0]]
    /\ real' = [real EXCEPT ![t] = [from |-> spent', spent |-> 0, slow |-> FALSE]]

Measured(t, passed) ==
    real' = [real EXCEPT ![t].spent = spent' - real[t].from,
                         ![t].slow = @ \/ passed > MaxIncrement]

Clamp(min, a, max) == IF a < min THEN min ELSE IF a > max THEN max ELSE a

Get(t) ==
    LET passed == llCurrent' - timer[t].m_llUpdateTime
    IN  /\ GetTickCount64_ /\ AtCall
        /\ timer' = [timer EXCEPT ![t] =
               [m_llUpdateTime |-> llCurrent',
                m_ullElapsedTime |-> @.m_ullElapsedTime + Clamp(0, passed, MaxIncrement)]]
        /\ Measured(t, passed)

(* ----------------------------- the system clock --------------------------- *)

Lost(t) == [real[t] EXCEPT !.slow = TRUE]

TimePasses(d) ==
    /\ counter + d <= MaxTime
    /\ counter' = counter + d /\ spent' = spent + d /\ gap' = gap + d
    /\ slow' = (slow \/ gap + d > MAX_DELTA)
    /\ real' = [t \in Timers |-> IF gap + d > MAX_DELTA THEN Lost(t) ELSE real[t]]
    /\ UNCHANGED <<llCurrent, uiWas, ms_llTickCountAdd, timer, putBack>>

\* The clock behind the counter may be a wall clock ("dangerous"): somebody puts
\* it back, once.
PutBack(d) ==
    /\ ~putBack /\ d <= counter
    /\ counter' = counter - d /\ putBack' = TRUE /\ slow' = TRUE
    /\ real' = [t \in Timers |-> Lost(t)]
    /\ UNCHANGED <<llCurrent, uiWas, ms_llTickCountAdd, timer, spent, gap>>

ClockNext ==
    \/ \E add \in Adds : AddTickCount(add)
    \/ Now
    \/ \E t \in Timers : Reset(t) \/ Get(t)
    \/ \E d \in Advances : TimePasses(d)
    \/ \E d \in StepsBack : PutBack(d)

ClockSpec == ClockInit /\ [][ClockNext]_clockVars

(* ------------------------------- properties ------------------------------- *)

ClockTypeOK ==
    /\ counter \in Nat /\ llCurrent \in Nat /\ uiWas \in 0 .. WRAP - 1
    /\ ms_llTickCountAdd \in Adds \cup {0}
    /\ timer \in [Timers -> [m_llUpdateTime : Nat, m_ullElapsedTime : Nat]]

\* As long as the clock is read at least every MAX_DELTA ms and not put back, the
\* count is the time that went by until the last call, with what was added for
\* debugging, across every wrap of the 32-bit counter.
CountExact == ~slow => llCurrent = spent - gap

\* However late the calls come and however the wall clock is put back, the count
\* is never ahead of the time the clock has moved forward.
NeverAhead == llCurrent <= spent - IF putBack THEN 0 ELSE gap

\* The count never goes back, nor does the time a timer shows, until its Reset.
NeverBack ==
    [][/\ llCurrent' >= llCurrent
       /\ \A t \in Timers : \/ timer'[t].m_ullElapsedTime >= timer[t].m_ullElapsedTime
                            \/ real'[t].spent = 0]_clockVars

\* A timer shows no more than the time between its Reset and its last Get, and no
\* less when the clock was read often enough and Get called within m_llMaxIncrement.
TimersExact ==
    \A t \in Timers : /\ timer[t].m_ullElapsedTime <= real[t].spent
                      /\ ~real[t].slow => timer[t].m_ullElapsedTime >= real[t].spent

\* GetTickCount64_: the count is exact unless a gap between calls was too long, never ahead
\* of the clock, and does not run back; CElapsedTime: the time shown is the time since Reset.
ClockExact == [](ClockTypeOK /\ CountExact /\ NeverAhead /\ TimersExact) /\ NeverBack
=============================================================================
