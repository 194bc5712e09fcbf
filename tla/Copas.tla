------------------------------- MODULE Copas -------------------------------
(* The dispatcher of copas.lua.  Threads are coroutines: one runs at a time, *)
(* until it waits for a socket or sleeps (a yield to _doTick) or ends.  A    *)
(* thread that adds a thread resumes it at once, so resumes nest.  A turn of *)
(* the loop (copas.step) resumes a sleeper, selects, and resumes a thread    *)
(* for each socket that is ready or whose time is up.  Times are kept as     *)
(* what is left of them.                                                     *)
EXTENDS CopasSleeping, FiniteSets

CONSTANTS
    Threads,      \* coroutines: made by addthread, or by the server for a client
    Clients,      \* TCP sockets the server accepts
    Server,       \* the socket given to addserver
    LoopTimeout,  \* of copas.loop; NoDelay when it is called without
    Timeouts,     \* of receive, send and connect
    Naps,         \* of sleep; negative for ever
    Wants,        \* "wantread", "wantwrite" when the sockets are wrapped by LuaSec
    Shared,       \* a thread may use the socket of another, and as the other does
    WakeTimed,    \* threads wake up others that sleep for a time
    MaxNesting    \* bound of the resumes in one another

none == "none"

CopasAssumption ==
    /\ IsFiniteSet(Clients) /\ Server \notin Clients
    /\ none \notin Threads \cup Clients \cup {Server}
    /\ Timeouts \subseteq Nat /\ Naps \subseteq Int
    /\ LoopTimeout \in Nat \cup {NoDelay}
    /\ Wants \subseteq {"wantread", "wantwrite"}

ASSUME CopasAssumed == CopasAssumption

Sockets == Clients \cup {Server}

VARIABLES
    sleeping,                   \* _sleeping
    reading, writing,           \* newset(): [set, q], q a queue of threads per socket
    reading_log, writing_log,   \* what is left of the timer of a socket, or NoDelay
    servers,                    \* _servers: sockets with a handler
    phase,                      \* where copas.step is
    evs,                        \* events still to be handled: [kind, skt]
    stack,                      \* the resumes under way: [co, skt], the last one runs
    thread,                     \* per thread [state, op]
    socket,                     \* per socket "unused", "open" or "closed"
    client,                     \* ghost: the socket the thread was made for
    slept                       \* ghost: threads that have slept

vars == <<sleeping, reading, writing, reading_log, writing_log, servers, phase, evs, stack,
          thread, socket, client, slept>>
sets == <<reading, writing, reading_log, writing_log>>

NoOp == [kind |-> none, skt |-> none, left |-> 0, log |-> none, result |-> none]
Empty == [set |-> {}, q |-> [s \in Sockets |-> <<>>]]

\* The program has called addserver.
Init ==
    /\ sleeping = Nobody
    /\ reading = [Empty EXCEPT !.set = {Server}] /\ writing = Empty
    /\ reading_log = [s \in Sockets |-> NoDelay] /\ writing_log = reading_log
    /\ servers = {Server} /\ phase = "setup" /\ evs = <<>> /\ stack = <<>>
    /\ thread = [t \in Threads |-> [state |-> "new", op |-> NoOp]]
    /\ socket = [s \in Sockets |-> IF s = Server THEN "open" ELSE "unused"]
    /\ client = [t \in Threads |-> none] /\ slept = {}

Running == Last(stack).co
Runs == stack # <<>>
Idle == stack = <<>>
Op == thread[Running].op

(* --------------------------------- newset --------------------------------- *)

insert(s, skt) == [s EXCEPT !.set = @ \cup {skt}]
remove(s, skt) == [s EXCEPT !.set = @ \ {skt}]
pushq(s, skt, t) == [s EXCEPT !.q[skt] = Append(@, t)]
popq(s, skt) == [s EXCEPT !.q[skt] = IF @ = <<>> THEN @ ELSE Tail(@)]
first(s, skt) == IF s.q[skt] = <<>> THEN none ELSE Head(s.q[skt])

(* -------------------------------- _doTick --------------------------------- *)

\* A thread is resumed; nobody is when the queue was empty.
resume(t, skt) ==
    IF t = none THEN UNCHANGED <<stack, thread>>
    ELSE /\ stack' = Append(stack, [co |-> t, skt |-> skt])
         /\ thread' = [thread EXCEPT ![t].state = "running"]

\* The running thread yields: its resume returns.
yields(op) ==
    /\ stack' = Front(stack)
    /\ thread' = [thread EXCEPT ![Running] = [state |-> "suspended", op |-> op]]

\* Yield to one of the two queues, with the timer in its log.
YieldTo(log, op) ==
    /\ yields([op EXCEPT !.log = log])
    /\ IF log = "reading"
       THEN /\ reading' = pushq(insert(reading, op.skt), op.skt, Running)
            /\ reading_log' = [reading_log EXCEPT ![op.skt] = op.left]
            /\ UNCHANGED <<writing, writing_log>>
       ELSE /\ writing' = pushq(insert(writing, op.skt), op.skt, Running)
            /\ writing_log' = [writing_log EXCEPT ![op.skt] = op.left]
            /\ UNCHANGED <<reading, reading_log>>

\* Mutant: a thread that raised an error leaves its socket open.
autocloseUnlessFailed(skt, ok) ==
    socket' = IF skt # none /\ ok THEN [socket EXCEPT ![skt] = "closed"] ELSE socket

\* copas.autoclose: the socket passed to the last resume is closed.
autoclose(skt, ok) ==
    socket' = IF skt # none THEN [socket EXCEPT ![skt] = "closed"] ELSE socket

\* The thread returns or raises an error.
Ends(ok) ==
    /\ Runs /\ Op = NoOp
    /\ autoclose(Last(stack).skt, ok)
    /\ stack' = Front(stack)
    /\ thread' = [thread EXCEPT ![Running].state = "dead"]
    /\ UNCHANGED <<sleeping, sets, servers, phase, evs, client, slept>>

(* ------------------------ receive, send and connect ----------------------- *)

Direction(kind) == IF kind = "receive" THEN "reading" ELSE "writing"

\* Another thread is about to use the socket the same way.
Taken(kind, skt) ==
    \E t \in Threads \ {Running} :
        /\ thread[t].op.skt = skt
        /\ Wants # {} \/ Direction(thread[t].op.kind) = Direction(kind)

Begin(kind, skt, left) ==
    /\ Runs /\ Op = NoOp /\ socket[skt] = "open" /\ skt # Server
    /\ Shared \/ (client[Running] \in {none, skt} /\ ~Taken(kind, skt))
    /\ thread' = [thread EXCEPT ![Running].op =
           [kind |-> kind, skt |-> skt, left |-> left, log |-> Direction(kind), result |-> none]]
    /\ UNCHANGED <<sleeping, sets, servers, phase, evs, stack, socket, client, slept>>

\* What the socket answers; a closed one gives an error.
Answers(op) ==
    IF socket[op.skt] = "open" THEN {"done", "error", "timeout"} \cup Wants ELSE {"error"}
Retry == {"timeout", "wantread", "wantwrite"}

ReturnOp == thread' = [thread EXCEPT ![Running].op = NoOp]

\* Mutant: the timer that is taken out is always the reader's.
UnlogReading(op) ==
    reading_log' = [reading_log EXCEPT ![op.skt] = NoDelay] /\ UNCHANGED writing_log

\* The timer in the log that was used last is taken out.
Unlog(op) ==
    IF op.log = "reading"
    THEN reading_log' = [reading_log EXCEPT ![op.skt] = NoDelay] /\ UNCHANGED writing_log
    ELSE writing_log' = [writing_log EXCEPT ![op.skt] = NoDelay] /\ UNCHANGED reading_log

Log(op, answer) ==
    IF op.kind = "receive" THEN (IF answer = "wantwrite" THEN "writing" ELSE "reading")
    ELSE IF answer = "wantread" THEN "reading" ELSE "writing"

\* An answer is final, or the time is up, or the thread waits; connect returns
\* "timeout" without taking its timer out.
settle(op, answer) ==
    IF op.kind = "connect" /\ answer # "done" /\ op.left = 0
    THEN ReturnOp /\ UNCHANGED <<stack, sets>>
    ELSE IF answer \notin Retry \/ op.left = 0
    THEN Unlog(op) /\ ReturnOp /\ UNCHANGED <<stack, reading, writing>>
    ELSE YieldTo(Log(op, answer), [op EXCEPT !.result = none])

\* receive and connect try again when they are resumed.
Try ==
    /\ Runs /\ Op.kind \in {"receive", "connect"}
    /\ \E answer \in Answers(Op) \ (IF Op.kind = "connect" THEN Wants ELSE {}) :
           settle(Op, answer)
    /\ UNCHANGED <<sleeping, servers, phase, evs, socket, client, slept>>

\* send looks at the answer at once or, one time in ten, after a swap.
TrySend ==
    /\ Runs /\ Op.kind = "send" /\ Op.result = none
    /\ \E answer \in Answers(Op) :
          \/ settle(Op, answer)
          \/ YieldTo(Op.log, [Op EXCEPT !.result = answer])
    /\ UNCHANGED <<sleeping, servers, phase, evs, socket, client, slept>>

AfterSwap ==
    /\ Runs /\ Op.kind = "send" /\ Op.result # none
    /\ settle(Op, Op.result)
    /\ UNCHANGED <<sleeping, servers, phase, evs, socket, client, slept>>

(* ---------------------- sleep, wakeup, threads, servers ------------------- *)

Sleep(d) ==
    /\ Runs /\ Op = NoOp
    /\ yields(NoOp)
    /\ sleeping' = push(sleeping, d, Running)
    /\ slept' = slept \cup {Running}
    /\ UNCHANGED <<sets, servers, phase, evs, socket, client>>

Wakeup(t) ==
    /\ Runs /\ Op = NoOp
    /\ Sleeping(sleeping, t) /\ (WakeTimed \/ t \in sleeping.lethargy)
    /\ sleeping' = wakeup(sleeping, t)
    /\ UNCHANGED <<sets, servers, phase, evs, stack, thread, socket, client, slept>>

\* addthread, from the program or from a thread: it runs at once.
AddThread(t) ==
    /\ IF Runs THEN Op = NoOp ELSE phase = "setup"
    /\ thread[t].state = "new" /\ Len(stack) < MaxNesting
    /\ resume(t, none)
    /\ UNCHANGED <<sleeping, sets, servers, phase, evs, socket, client, slept>>

\* removeserver with the socket closed.
RemoveServer ==
    /\ Runs /\ Op = NoOp /\ Server \in servers
    /\ servers' = servers \ {Server} /\ reading' = remove(reading, Server)
    /\ socket' = [socket EXCEPT ![Server] = "closed"]
    /\ UNCHANGED <<sleeping, writing, reading_log, writing_log, phase, evs, stack, thread,
                   client, slept>>

(* ---------------------------- copas.loop, step ---------------------------- *)

finished == reading.set = {} /\ writing.set = {} /\ getnext(sleeping) = NoDelay

Loop ==
    /\ Idle /\ phase \in {"setup", "loop"}
    /\ phase' = IF finished THEN "stopped" ELSE "tick"
    /\ UNCHANGED <<sleeping, sets, servers, evs, stack, thread, socket, client, slept>>

\* One sleeper is resumed at most, without a socket.
Tick ==
    /\ Idle /\ phase = "tick"
    /\ phase' = "select"
    /\ IF Due(sleeping)
       THEN sleeping' = pop(sleeping) /\ resume(Head(sleeping.cos), none)
       ELSE UNCHANGED <<sleeping, stack, thread>>
    /\ UNCHANGED <<sets, servers, evs, socket, client, slept>>

\* How long select may wait; NoDelay is for ever.
Timeout ==
    LET next == getnext(sleeping)
    IN  IF next = NoDelay THEN LoopTimeout
        ELSE IF LoopTimeout # NoDelay /\ LoopTimeout < next THEN LoopTimeout ELSE next

After(log, d) == [s \in Sockets |-> IF log[s] = NoDelay THEN NoDelay ELSE Minus(log[s], d)]

\* "timedout while waiting to become readable": sockets with an expired timer.
expired(log, ready) == {s \in Sockets \ ready : log[s] = 0}

\* Time goes on by d, which a turn takes at least one of; select returns the
\* sockets that are ready, and those whose time is up come behind them.
Selected(d, r, w) ==
    LET rlog == After(reading_log, d)
        wlog == After(writing_log, d)
        rexp == expired(rlog, r)
        wexp == expired(wlog, w)
        Evs(kind, skts) == {[kind |-> kind, skt |-> s] : s \in skts}
    IN  /\ \E rs \in SetToSeqs(Evs("read", r)), re \in SetToSeqs(Evs("read", rexp)),
              ws \in SetToSeqs(Evs("write", w)), we \in SetToSeqs(Evs("write", wexp)) :
               \/ evs' = rs \o re \o ws \o we
               \/ evs' = ws \o we \o rs \o re
        /\ phase' = IF r \cup w \cup rexp \cup wexp = {} THEN "loop" ELSE "events"
        /\ reading_log' = [s \in Sockets |-> IF s \in rexp THEN NoDelay ELSE rlog[s]]
        /\ writing_log' = [s \in Sockets |-> IF s \in wexp THEN NoDelay ELSE wlog[s]]
        /\ sleeping' = Later(sleeping, d)
        /\ thread' = [t \in Threads |-> [thread[t] EXCEPT !.op.left = Minus(@, d)]]
        /\ UNCHANGED <<reading, writing, servers, stack, socket, client, slept>>

Selectable(s) == {skt \in s.set : socket[skt] = "open"}
AtLeast1(d) == IF d < 1 THEN 1 ELSE d

\* Nothing becomes ready before the timeout.
SelectTimeout ==
    /\ Idle /\ phase = "select" /\ ~(getnext(sleeping) = NoDelay /\ finished)
    /\ Timeout # NoDelay
    /\ Selected(AtLeast1(Timeout), {}, {})

\* Some sockets are ready.
SelectReady ==
    /\ Idle /\ phase = "select"
    /\ \E r \in SUBSET Selectable(reading), w \in SUBSET Selectable(writing) :
           r \cup w # {} /\ Selected(1, r, w)

\* step: nothing to wait for.
Nothing ==
    /\ Idle /\ phase = "select" /\ finished /\ phase' = "loop"
    /\ UNCHANGED <<sleeping, sets, servers, evs, stack, thread, socket, client, slept>>

(* ------------------------------- the events ------------------------------- *)

\* _accept: a new thread runs the handler with the client.
Accept(t, skt) ==
    /\ Idle /\ phase = "events" /\ evs # <<>> /\ Head(evs) = [kind |-> "read", skt |-> Server]
    /\ Server \in servers /\ thread[t].state = "new" /\ socket[skt] = "unused"
    /\ evs' = Tail(evs) /\ socket' = [socket EXCEPT ![skt] = "open"]
    /\ client' = [client EXCEPT ![t] = skt]
    /\ resume(t, skt)
    /\ UNCHANGED <<sleeping, sets, servers, phase, slept>>

\* The connection is gone when it is accepted.
AcceptNothing ==
    /\ Idle /\ phase = "events" /\ evs # <<>> /\ Head(evs) = [kind |-> "read", skt |-> Server]
    /\ Server \in servers
    /\ evs' = Tail(evs)
    /\ UNCHANGED <<sleeping, sets, servers, phase, stack, thread, socket, client, slept>>

\* Mutant: the thread stays in the queue of the socket.
HandleKept(ev) ==
    LET s == IF ev.kind = "read" THEN reading ELSE writing
    IN  /\ IF ev.kind = "read" THEN reading' = remove(reading, ev.skt) /\ UNCHANGED writing
           ELSE writing' = remove(writing, ev.skt) /\ UNCHANGED reading
        /\ resume(first(s, ev.skt), ev.skt)

\* tick: the socket leaves the set, and the first thread of its queue runs.
Handle(ev) ==
    LET s == IF ev.kind = "read" THEN reading ELSE writing
        t == first(s, ev.skt)
        after == popq(remove(s, ev.skt), ev.skt)
    IN  /\ IF ev.kind = "read" THEN reading' = after /\ UNCHANGED writing
           ELSE writing' = after /\ UNCHANGED reading
        /\ resume(t, ev.skt)

TickEvent ==
    /\ Idle /\ phase = "events" /\ evs # <<>>
    /\ ~(Head(evs).kind = "read" /\ Head(evs).skt \in servers)
    /\ evs' = Tail(evs)
    /\ Handle(Head(evs))
    /\ UNCHANGED <<sleeping, reading_log, writing_log, servers, phase, socket, client, slept>>

EventsDone ==
    /\ Idle /\ phase = "events" /\ evs = <<>> /\ phase' = "loop"
    /\ UNCHANGED <<sleeping, sets, servers, evs, stack, thread, socket, client, slept>>

Stopped == phase = "stopped" /\ UNCHANGED vars

\* A thread gives the loop its turn.
Leaves == (\E d \in Naps : Sleep(d)) \/ (\E ok \in BOOLEAN : Ends(ok))

Dispatch == Loop \/ Tick \/ SelectTimeout \/ Nothing \/ AcceptNothing \/ TickEvent \/ EventsDone

\* What a thread does about its socket when it runs.
Attempt == Try \/ TrySend \/ AfterSwap

Next ==
    \/ Dispatch \/ SelectReady \/ (\E t \in Threads, s \in Clients : Accept(t, s))
    \/ Attempt \/ RemoveServer \/ Stopped
    \/ Leaves
    \/ \E t \in Threads : Wakeup(t) \/ AddThread(t)
    \/ \E kind \in {"receive", "send", "connect"}, s \in Clients, left \in Timeouts :
           Begin(kind, s, left)

\* The loop goes on, an attempt is made when it is its turn, and a thread does not
\* run for ever: in the end it sleeps or ends.
Fairness == WF_vars(Dispatch) /\ WF_vars(Attempt) /\ SF_vars(Leaves)

Spec == Init /\ [][Next]_vars /\ Fairness

(* ------------------------------- properties ------------------------------- *)

InSeq(s, t) == \E i \in DOMAIN s : s[i] = t
Left == Nat \cup {NoDelay}
TypeOK ==
    /\ \A s \in {reading, writing} :
          s.set \subseteq Sockets /\ s.q \in [Sockets -> Seq(Threads)]
    /\ reading_log \in [Sockets -> Left] /\ writing_log \in [Sockets -> Left]
    /\ WellFormed(sleeping) /\ Sleepers(sleeping) \subseteq Threads
    /\ phase \in {"setup", "loop", "tick", "select", "events", "stopped"}
    /\ \A t \in Threads :
          thread[t].state = "running" <=> \E i \in DOMAIN stack : stack[i].co = t

\* A thread that waits stands in one queue of one socket or in the list of
\* sleepers, once; one that runs, has ended or has not begun stands nowhere: it is
\* never resumed twice, nor forgotten.
Queues(s, name, t) == {<<name, skt>> : skt \in {skt \in Sockets : InSeq(s.q[skt], t)}}
Places(t) == Queues(reading, "reading", t) \cup Queues(writing, "writing", t)
                 \cup (IF Sleeping(sleeping, t) THEN {<<"sleeping", none>>} ELSE {})
OnePlace ==
    /\ \A skt \in Sockets : IsInjective(reading.q[skt]) /\ IsInjective(writing.q[skt])
    /\ \A t \in Threads : IF thread[t].state = "suspended"
                          THEN \E p \in Places(t) : Places(t) = {p}
                          ELSE Places(t) = {}

\* "adds a FIFO queue for each value in the set" (copas.lua:76): select looks at
\* every socket that a thread stands in the queue of.
QueueInSet ==
  (Idle /\ phase = "select") =>
    \A skt \in Sockets : /\ reading.q[skt] # <<>> => skt \in reading.set
                         /\ writing.q[skt] # <<>> => skt \in writing.set

\* The timer of a thread that waits for a socket is watched, or an event for it is
\* on the way: it cannot wait beyond its time.
Pending(op) == \E i \in DOMAIN evs : /\ evs[i].skt = op.skt
                                      /\ evs[i].kind = IF op.log = "reading" THEN "read"
                                                       ELSE "write"
TimerWatched ==
    \A t \in Threads :
        LET op == thread[t].op
            log == IF op.log = "reading" THEN reading_log ELSE writing_log
        IN  (thread[t].state = "suspended" /\ op # NoOp)
                => log[op.skt] = op.left \/ Pending(op)

\* The loop ends when nobody is left but those who sleep until they are woken up.
StopsWhenDone ==
    phase = "stopped" =>
        \A t \in Threads : thread[t].state = "suspended" => t \in sleeping.lethargy

\* No thread is lost: it stands in one place, which the loop looks at before it waits or ends.
NobodyLost == TypeOK /\ OnePlace /\ QueueInSet /\ StopsWhenDone

\* The handler of a client that has never slept leaves the client closed.
ClosedAtEnd ==
    \A t \in Threads :
        (thread[t].state = "dead" /\ client[t] # none /\ t \notin slept)
            => socket[client[t]] = "closed"

\* A receive, send or connect with a timeout comes to an end although its socket
\* never becomes ready, when the loop has a timeout of its own.
IoEnds == \A t \in Threads : thread[t].op # NoOp ~> thread[t].op = NoOp

\* copas.sleep "yields the current coroutine and wakes it after 'sleeptime' seconds"
\* (copas.lua:718): whoever sleeps for a time is resumed, also when others sleep for
\* no time again and again.  Not true when others wake it up again and again.
SleepersWake == \A t \in Threads : InSeq(sleeping.cos, t) ~> ~InSeq(sleeping.cos, t)
=============================================================================
