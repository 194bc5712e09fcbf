----------------------------- MODULE CopasLimit -----------------------------
(* copas/limit.lua: a runner that has at most maxt of its tasks run at once. *)
(* A task is a copas thread that sleeps until its turn; "wait" sleeps until  *)
(* nothing runs.  Threads are resumed by the dispatcher, one at a time, in   *)
(* the order of the sleeping list, and run until they sleep again.           *)
EXTENDS CopasSleeping, FiniteSets

CONSTANTS
    Tasks,     \* coroutines made by addthread
    Drivers,   \* other copas threads, which add, remove and wait
    maxt,
    Naps,      \* how long a running thread may sleep
    Removable  \* tasks that may be removed

Threads == Tasks \cup Drivers
none == "none"

ASSUME LimitAssumption ==
    /\ maxt \in Nat \ {0} /\ Naps \subseteq Nat /\ Removable \subseteq Tasks
    /\ Tasks \cap Drivers = {} /\ IsFiniteSet(Drivers) /\ none \notin Threads

VARIABLES
    sleeping,   \* _sleeping of copas
    current,    \* the thread that runs now, or none
    queue, running, count, waiting,   \* the fields of the runner
    at          \* per thread: where its code stands

vars == <<sleeping, current, queue, running, count, waiting, at>>
runner == <<queue, running, count, waiting>>


\* The drivers have been added to copas and sleep, each due at once.
Init ==
    /\ \E order \in SetToSeqs(Drivers) :
           sleeping = [Nobody EXCEPT !.cos = order, !.times = [i \in DOMAIN order |-> 0]]
    /\ current = none
    /\ queue = <<>> /\ running = {} /\ count = 0 /\ waiting = {}
    /\ at = [t \in Threads |-> IF t \in Tasks THEN "none" ELSE "body"]

(* --------------------------- the runner's "next" -------------------------- *)

\* The threads of cos are woken up one after another.
WakeSeq(s, cos) ==
    LET woken[n \in 0 .. Len(cos)] == IF n = 0 THEN s ELSE wakeup(woken[n - 1], cos[n])
    IN  woken[Len(cos)]

\* How many tasks of the queue are moved to running.
started(q, n) == IF maxt - n < Len(q) THEN maxt - n ELSE Len(q)

\* Mutant: the waiting threads are woken up when one task is left.
signalAtOne(n) == n = 1

\* When the waiting threads are woken up.
signal(n) == n = 0

\* Tasks move from the queue to running while there is room; when nothing runs,
\* the waiting threads are woken up, in the order of a Lua table: any.
next(q, r, n, s) ==
    LET k == started(q, n)
        go == SubSeq(q, 1, k)
        woken == WakeSeq(s, go)
    IN  /\ queue' = SubSeq(q, k + 1, Len(q))
        /\ running' = r \cup {go[i] : i \in DOMAIN go}
        /\ count' = n + k
        /\ IF signal(n + k)
           THEN \E order \in SetToSeqs(waiting) : sleeping' = WakeSeq(woken, order)
           ELSE sleeping' = woken

(* ------------------------ what a running thread does ---------------------- *)

\* addthread: the coroutine runs until its sleep(-1), then it is queued.
add(t) ==
    /\ current # none /\ at[t] = "none"
    /\ at' = [at EXCEPT ![t] = "queued"]
    /\ next(Append(queue, t), running, count, push(sleeping, -1, t))
    /\ UNCHANGED <<current, waiting>>

\* The queue without a task that may be in it.
Dequeued(q, t) ==
    IF \E i \in DOMAIN q : q[i] = t THEN RemoveAt(q, Position(q, t)) ELSE q

\* Mutant: count goes down for a task that had been removed before, too.
RemovingAgain(t) ==
    IF t \notin {queue[i] : i \in DOMAIN queue}
    THEN next(queue, running \ {t}, count - 1, sleeping)
    ELSE next(Dequeued(queue, t), running, count, sleeping)

Removing(t) ==
    IF t \in running THEN next(queue, running \ {t}, count - 1, sleeping)
    ELSE next(Dequeued(queue, t), running, count, sleeping)

\* removethread, called by another thread or by the task for itself.
remove(t) ==
    /\ current # none /\ t \in Removable /\ at[t] # "none"
    /\ Removing(t)
    /\ UNCHANGED <<current, waiting, at>>

\* A task that returns or raises an error dismisses itself and is dead.
Finish ==
    /\ current \in Tasks
    /\ at' = [at EXCEPT ![current] = "dead"]
    /\ current' = none
    /\ Removing(current)
    /\ UNCHANGED waiting

\* wait: returns at once when nothing runs.
wait ==
    /\ current \in Drivers
    /\ IF count = 0 THEN UNCHANGED vars
       ELSE /\ waiting' = waiting \cup {current}
            /\ sleeping' = push(sleeping, -1, current)
            /\ at' = [at EXCEPT ![current] = "wait"]
            /\ current' = none
            /\ UNCHANGED <<queue, running, count>>

Sleep(d) ==
    /\ current # none
    /\ sleeping' = push(sleeping, d, current) /\ current' = none
    /\ UNCHANGED <<runner, at>>

Exit ==
    /\ current \in Drivers
    /\ at' = [at EXCEPT ![current] = "dead"] /\ current' = none
    /\ UNCHANGED <<sleeping, runner>>

(* ------------------------------ the dispatcher ---------------------------- *)

\* A turn of copas.step: the first thread whose time has come is resumed.
Tick ==
    /\ current = none /\ Due(sleeping)
    /\ current' = Head(sleeping.cos) /\ sleeping' = pop(sleeping)
    /\ at' = [at EXCEPT ![current'] = "body"]
    /\ waiting' = waiting \ {current'}
    /\ UNCHANGED <<queue, running, count>>

\* Nobody is due: select waits for the first sleeper.
Idle ==
    /\ current = none /\ sleeping.times # <<>> /\ ~Due(sleeping)
    /\ sleeping' = Later(sleeping, getnext(sleeping))
    /\ UNCHANGED <<current, runner, at>>

\* copas.finished: the loop has ended.
Finished == current = none /\ sleeping.times = <<>> /\ UNCHANGED vars

Next ==
    \/ Tick \/ Idle \/ Finished
    \/ Finish \/ wait \/ Exit
    \/ \E d \in Naps : Sleep(d)
    \/ \E t \in Tasks : add(t) \/ remove(t)

\* The dispatcher goes on; a thread does not run for ever, nor sleep again and
\* again for ever.
Fairness ==
    /\ WF_vars(Tick \/ Idle)
    /\ \A t \in Tasks : SF_vars(Finish /\ current = t)
    /\ \A d \in Drivers : SF_vars(Exit /\ current = d)

Spec == Init /\ [][Next]_vars /\ Fairness

(* ------------------------------- properties ------------------------------- *)

Queued == {queue[i] : i \in DOMAIN queue}
TypeOK ==
    /\ current \in Threads \cup {none}
    /\ queue \in Seq(Tasks) /\ running \subseteq Tasks /\ waiting \subseteq Drivers
    /\ count \in 0 .. maxt
    /\ at \in [Threads -> {"none", "queued", "body", "wait", "dead"}]
    /\ WellFormed(sleeping)

\* count is the number of the tasks in running and the runner never has a task wait
\* while there is room for it, however tasks are added, end and are removed (twice,
\* while they run, before they started).
CountAgrees ==
    /\ count = Cardinality(running)
    /\ count < maxt => queue = <<>>
    /\ Queued \cap running = {}

\* A task in the queue sleeps without a time: "next" wakes it up, and a wake-up is
\* lost on a thread that does not sleep.
QueuedSleep == \A t \in Queued : t \in sleeping.lethargy /\ t \notin running

\* A thread in "wait" that no wake-up has reached: something still runs, so that one
\* will come.
WaitersAwaited == \A t \in waiting : t \in sleeping.lethargy => count > 0

\* "Tasks added will be run in parallel, with a maximum of simultaneous tasks"
\* (limit.lua:3-4): of the tasks that are not removed no more than maxt have begun and
\* not ended.  One that is removed while it runs frees its place and goes on.
AtMostMaxt == Cardinality({t \in Tasks \ Removable : at[t] = "body"}) <= maxt

\* The runner keeps its promise and can go on keeping it, in every state between two steps.
RunnerConsistent ==
    TypeOK /\ CountAgrees /\ QueuedSleep /\ WaitersAwaited /\ AtMostMaxt

\* Every task that is added and not removed runs to its end, whatever becomes of others;
\* who waits for the tasks goes on when they have ended.
TasksEnd ==
    /\ \A t \in Tasks \ Removable : at[t] = "queued" ~> at[t] = "dead"
    /\ \A t \in Drivers : at[t] = "wait" ~> at[t] # "wait"
=============================================================================
