----------------------------- MODULE CopasProofs -----------------------------
(***************************************************************************)
(* No thread of copas.lua is lost, its timers are watched and the handlers *)
(* close their sockets: for any number of threads and clients, any times   *)
(* and any depth of nested resumes, as long as no two threads use a socket *)
(* the same way at once (~Shared).                                         *)
(***************************************************************************)
EXTENDS Copas, CopasSleepingProofs

(***************************************************************************)
(* The inductive invariant.                                                *)
(***************************************************************************)
States == {"new", "running", "suspended", "dead"}
Logs == {"reading", "writing"}
Calls == [kind : {"receive", "send", "connect"}, skt : Clients, left : Nat, log : Logs,
          result : {none, "done", "error", "timeout"} \cup Wants]
Ops == Calls \cup {NoOp}
NewSets == [set : SUBSET Sockets, q : [Sockets -> Seq(Threads)]]
Resumes == [co : Threads, skt : Sockets \cup {none}]
Events == [kind : {"read", "write"}, skt : Sockets]

Coroutines == [state : States, op : Ops]

Typed ==
  /\ reading \in NewSets /\ writing \in NewSets
  /\ reading_log \in [Sockets -> Left] /\ writing_log \in [Sockets -> Left]
  /\ servers \subseteq {Server} /\ Sound(Threads, sleeping)
  /\ phase \in {"setup", "loop", "tick", "select", "events", "stopped"}
  /\ evs \in Seq(Events) /\ stack \in Seq(Resumes)
  /\ thread \in [Threads -> Coroutines]
  /\ socket \in [Sockets -> {"unused", "open", "closed"}]
  /\ client \in [Threads -> Clients \cup {none}]

\* The threads that run are those on the stack, once.
Distinct(st) == \A i, j \in 1 .. Len(st) : i # j => st[i].co # st[j].co
Cos(st) == {e.co : e \in Elements(st)}
Stacked(th, st) ==
  /\ Distinct(st)
  /\ \A t \in Threads : th[t].state = "running" <=> t \in Cos(st)

\* Those that are suspended outside a call sleep, and have slept.
Asleep(th, s, sl) ==
  /\ \A t \in Threads : t \in Sleepers(s) <=> th[t].state = "suspended" /\ th[t].op = NoOp
  /\ Sleepers(s) \subseteq sl

\* Those that are suspended in a call stand in its queue, alone, and the socket is in the set.
Waits(th, t, name, skt) ==
  th[t].state = "suspended" /\ th[t].op # NoOp /\ th[t].op.log = name /\ th[t].op.skt = skt
Standing(s, th, name) ==
  \A skt \in Sockets :
    /\ s.q[skt] = <<>> \/ \E t \in Threads : s.q[skt] = <<t>>
    /\ \A t \in Threads : s.q[skt] = <<t>> <=> Waits(th, t, name, skt)
    /\ s.q[skt] # <<>> => skt \in s.set

\* Two calls on one socket go different ways, and those wait in different queues.
Apart(th) ==
  /\ \A t, u \in Threads :
       t # u /\ th[t].op # NoOp /\ th[u].op # NoOp /\ th[t].op.skt = th[u].op.skt
         => Wants = {} /\ Direction(th[t].op.kind) # Direction(th[u].op.kind)
  /\ \A t \in Threads :
       th[t].op # NoOp /\ Wants = {} => th[t].op.log = Direction(th[t].op.kind)

\* The timer of a call that waits is in its log, or its event is on the way.
Watched(th, rlog, wlog, ev) ==
  \A t \in Threads :
    th[t].state = "suspended" /\ th[t].op # NoOp
      => IF th[t].op.log = "reading"
         THEN \/ rlog[th[t].op.skt] = th[t].op.left
              \/ [kind |-> "read", skt |-> th[t].op.skt] \in Elements(ev)
         ELSE \/ wlog[th[t].op.skt] = th[t].op.left
              \/ [kind |-> "write", skt |-> th[t].op.skt] \in Elements(ev)

\* A handler that has never slept was resumed with its client, and closed it at its end.
Handling(th, st, cl, sl, so) ==
  /\ \A t \in Threads : th[t].state = "new" => cl[t] = none /\ th[t].op = NoOp
  /\ \A e \in Elements(st) : cl[e.co] # none /\ e.co \notin sl => e.skt = cl[e.co]
  /\ \A t \in Threads : th[t].op # NoOp /\ cl[t] # none => th[t].op.skt = cl[t]
  /\ \A t \in Threads :
       th[t].state = "dead" /\ cl[t] # none /\ t \notin sl => so[cl[t]] = "closed"

Phased ==
  /\ evs # <<>> => phase = "events"
  /\ phase = "stopped" => stack = <<>>

CopasInv ==
  /\ Typed
  /\ Stacked(thread, stack)
  /\ Asleep(thread, sleeping, slept)
  /\ Standing(reading, thread, "reading") /\ Standing(writing, thread, "writing")
  /\ Apart(thread)
  /\ Watched(thread, reading_log, writing_log, evs)
  /\ Handling(thread, stack, client, slept, socket)
  /\ Phased /\ StopsWhenDone

(***************************************************************************)
(* Calls, queues of one, and the stack.                                    *)
(***************************************************************************)
LEMMA CallIs ==
  /\ \A op \in Calls : op # NoOp /\ op \in Ops
  /\ \A op \in Ops : op # NoOp => op \in Calls
  /\ NoOp \in Ops
<1>1. ASSUME NEW op \in Calls PROVE op # NoOp
  <2>1. op.kind # "none"
    BY DEF Calls
  <2> QED
    BY <2>1 DEF NoOp, none
<1> QED
  BY <1>1 DEF Ops

LEMMA OneIs ==
  ASSUME NEW t \in Threads
  PROVE  /\ <<t>> # <<>> /\ Append(<<>>, t) = <<t>> /\ Head(<<t>>) = t /\ Tail(<<t>>) = <<>>
         /\ <<t>> \in Seq(Threads) /\ IsInjective(<<t>>)
         /\ \A u \in Threads : (<<t>> = <<u>> <=> t = u) /\ (InSeq(<<t>>, u) <=> t = u)
<1>1. /\ <<t>> # <<>> /\ Append(<<>>, t) = <<t>> /\ Head(<<t>>) = t /\ Tail(<<t>>) = <<>>
      /\ <<t>> \in Seq(Threads)
  OBVIOUS
<1>2. IsInjective(<<t>>)
  BY DEF IsInjective
<1>3. \A u \in Threads : (<<t>> = <<u>> <=> t = u)
  OBVIOUS
<1>4. \A u \in Threads : (InSeq(<<t>>, u) <=> t = u)
  BY DEF InSeq
<1> QED
  BY <1>1, <1>2, <1>3, <1>4

LEMMA PushedIs ==
  ASSUME NEW st \in Seq(Resumes), Distinct(st), NEW e \in Resumes, e.co \notin Cos(st)
  PROVE  /\ Append(st, e) \in Seq(Resumes) /\ Distinct(Append(st, e))
         /\ Elements(Append(st, e)) = Elements(st) \cup {e}
         /\ Cos(Append(st, e)) = Cos(st) \cup {e.co}
<1> DEFINE n == Len(st)
           a == Append(st, e)
<1>1. /\ n \in Nat /\ DOMAIN st = 1 .. n /\ DOMAIN a = 1 .. n + 1
      /\ a \in Seq(Resumes) /\ Len(a) = n + 1
      /\ \A i \in 1 .. n : a[i] = st[i]
      /\ a[n + 1] = e
  OBVIOUS
<1> HIDE DEF n, a
<1>2. Elements(a) = Elements(st) \cup {e}
  <2>1. 1 .. n + 1 = (1 .. n) \cup {n + 1}
    BY <1>1
  <2> QED
    BY <1>1, <2>1 DEF Elements
<1>3. \A i \in 1 .. n : st[i].co # e.co
  BY <1>1 DEF Cos, Elements
<1>4. Distinct(a)
  <2>1. \A i \in 1 .. n + 1 : i \in 1 .. n \/ i = n + 1
    BY <1>1
  <2>2. \A i, j \in 1 .. n : i # j => st[i].co # st[j].co
    BY DEF Distinct, n
  <2> QED
    BY <1>1, <1>3, <2>1, <2>2 DEF Distinct
<1>5. Cos(a) = Cos(st) \cup {e.co}
  BY <1>2 DEF Cos
<1> QED
  BY <1>1, <1>2, <1>4, <1>5 DEF a

LEMMA PoppedIs ==
  ASSUME NEW st \in Seq(Resumes), Distinct(st), st # <<>>
  PROVE  /\ Front(st) \in Seq(Resumes) /\ Distinct(Front(st))
         /\ Elements(Front(st)) \subseteq Elements(st)
         /\ Last(st) \in Elements(st) /\ Last(st) \in Resumes
         /\ Cos(Front(st)) = Cos(st) \ {Last(st).co} /\ Last(st).co \in Cos(st)
<1> DEFINE n == Len(st)
           f == Front(st)
<1>1. n \in Nat /\ n # 0 /\ DOMAIN st = 1 .. n /\ Last(st) = st[n] /\ st[n] \in Resumes
  BY DEF Last
<1>2. /\ f \in Seq(Resumes) /\ Len(f) = n - 1 /\ \A i \in 1 .. n - 1 : f[i] = st[i]
  BY <1>1, SubSeqProperties DEF Front
<1>3. \A i, j \in 1 .. n : i # j => st[i].co # st[j].co
  BY DEF Distinct
<1> HIDE DEF n, f
<1>4. DOMAIN f = 1 .. n - 1 /\ \A i \in 1 .. n - 1 : i \in 1 .. n /\ i # n
  BY <1>1, <1>2
<1>5. Distinct(f)
  BY <1>2, <1>3, <1>4 DEF Distinct
<1>6. Elements(f) \subseteq Elements(st) /\ st[n] \in Elements(st)
  BY <1>1, <1>2, <1>4 DEF Elements
<1>7. ASSUME NEW e \in Elements(st), e.co # st[n].co PROVE e \in Elements(f)
  <2>1. PICK i \in 1 .. n : e = st[i]
    BY <1>1 DEF Elements
  <2>2. i \in 1 .. n - 1
    BY <1>1, <1>7, <2>1
  <2> QED
    BY <1>2, <1>4, <2>1, <2>2 DEF Elements
<1>8. ASSUME NEW e \in Elements(f) PROVE e.co # st[n].co
  <2>1. PICK i \in 1 .. n - 1 : e = st[i]
    BY <1>2, <1>4 DEF Elements
  <2>2. i \in 1 .. n /\ n \in 1 .. n /\ i # n
    BY <1>1, <1>4
  <2> QED
    BY <1>3, <2>1, <2>2
<1>9. Cos(f) = Cos(st) \ {st[n].co} /\ st[n].co \in Cos(st)
  BY <1>6, <1>7, <1>8 DEF Cos
<1> QED
  BY <1>1, <1>2, <1>5, <1>6, <1>9 DEF f

(***************************************************************************)
(* What a step does to one thread.                                         *)
(***************************************************************************)
Becomes(th2, th, t, state, op) ==
  /\ th2 \in [Threads -> Coroutines]
  /\ th2[t].state = state /\ th2[t].op = op
  /\ \A u \in Threads : u # t => th2[u] = th[u]

LEMMA ThreadSet ==
  ASSUME NEW th \in [Threads -> Coroutines], NEW t \in Threads
  PROVE  /\ \A x \in States : Becomes([th EXCEPT ![t].state = x], th, t, x, th[t].op)
         /\ \A op \in Ops : Becomes([th EXCEPT ![t].op = op], th, t, th[t].state, op)
         /\ \A x \in States, op \in Ops :
              Becomes([th EXCEPT ![t] = [state |-> x, op |-> op]], th, t, x, op)
BY DEF Becomes, Coroutines


LEMMA ApartKept ==
  ASSUME NEW th, NEW th2, NEW t \in Threads, NEW x, NEW op, Apart(th), Becomes(th2, th, t, x, op),
         \/ op = NoOp
         \/ /\ th[t].op # NoOp /\ op.skt = th[t].op.skt /\ op.kind = th[t].op.kind
            /\ Wants = {} => op.log = Direction(op.kind)
  PROVE  Apart(th2)
BY DEF Apart, Becomes

LEMMA WatchedKept ==
  ASSUME NEW th, NEW th2, NEW t \in Threads, NEW x, NEW op, NEW rlog, NEW wlog, NEW ev,
         Watched(th, rlog, wlog, ev), Becomes(th2, th, t, x, op), x # "suspended" \/ op = NoOp
  PROVE  Watched(th2, rlog, wlog, ev)
BY DEF Watched, Becomes

LEMMA StandingKept ==
  ASSUME NEW s, NEW name, NEW th, NEW th2, NEW t \in Threads, NEW x, NEW op,
         Standing(s, th, name), Becomes(th2, th, t, x, op),
         \A skt \in Sockets : ~ Waits(th, t, name, skt) /\ ~ Waits(th2, t, name, skt)
  PROVE  Standing(s, th2, name)
<1>1. \A u \in Threads, skt \in Sockets : Waits(th2, u, name, skt) <=> Waits(th, u, name, skt)
  BY DEF Waits, Becomes
<1> QED
  BY <1>1, Zenon DEF Standing

\* A thread that waits in another queue or not at all stands in no place of this one.
LEMMA WaitsNot ==
  ASSUME NEW th, NEW t, NEW name,
         th[t].state # "suspended" \/ th[t].op = NoOp \/ th[t].op.log # name
  PROVE  \A skt \in Sockets : ~ Waits(th, t, name, skt)
BY DEF Waits

\* What changes one field of a newset.
LEMMA NewSetIs ==
  ASSUME NEW A, NEW Q, NEW X, NEW skt, NEW s, s = [set |-> A, q |-> Q]
  PROVE  /\ [s EXCEPT !.set = X] = [set |-> X, q |-> Q]
         /\ [s EXCEPT !.q[skt] = X] = [set |-> A, q |-> [Q EXCEPT ![skt] = X]]
OBVIOUS

LEMMA QueueChanges ==
  ASSUME NEW s \in NewSets, NEW skt, NEW t
  PROVE  /\ pushq(insert(s, skt), skt, t)
               = [set |-> s.set \cup {skt}, q |-> [s.q EXCEPT ![skt] = Append(s.q[skt], t)]]
         /\ popq(remove(s, skt), skt)
               = [set |-> s.set \ {skt},
                  q |-> [s.q EXCEPT ![skt] = IF s.q[skt] = <<>> THEN s.q[skt] ELSE Tail(s.q[skt])]]
         /\ remove(s, skt) = [set |-> s.set \ {skt}, q |-> s.q]
<1> DEFINE A == s.set
           Q == s.q
           more == A \cup {skt}
           less == A \ {skt}
           i == insert(s, skt)
           r == remove(s, skt)
           longer == Append(Q[skt], t)
           shorter == IF Q[skt] = <<>> THEN Q[skt] ELSE Tail(Q[skt])
<1>1. s = [set |-> A, q |-> Q]
  BY DEF NewSets
<1>2. i = [s EXCEPT !.set = more] /\ r = [s EXCEPT !.set = less]
  BY DEF insert, remove
<1>3. i = [set |-> more, q |-> Q] /\ r = [set |-> less, q |-> Q]
  <2> HIDE DEF A, Q, more, less, i, r
  <2> QED
    BY <1>1, <1>2, NewSetIs
<1>4. pushq(i, skt, t) = [i EXCEPT !.q[skt] = longer] /\ popq(r, skt) = [r EXCEPT !.q[skt] = shorter]
  <2>1. i.q = Q /\ r.q = Q
    BY <1>3
  <2> QED
    BY <2>1, Zenon DEF pushq, popq
<1>5. /\ pushq(i, skt, t) = [set |-> more, q |-> [Q EXCEPT ![skt] = longer]]
      /\ popq(r, skt) = [set |-> less, q |-> [Q EXCEPT ![skt] = shorter]]
  <2> HIDE DEF A, Q, more, less, i, r, longer, shorter
  <2> QED
    BY <1>3, <1>4, NewSetIs
<1> QED
  BY <1>3, <1>5, Zenon

LEMMA StandingPushed ==
  ASSUME NEW s \in NewSets, NEW name, NEW th, NEW th2, NEW t \in Threads, NEW op \in Calls,
         Standing(s, th, name), Becomes(th2, th, t, "suspended", op), op.log = name,
         th[t].state # "suspended", Apart(th2), th2 \in [Threads -> Coroutines], name \in Logs
  PROVE  LET s2 == pushq(insert(s, op.skt), op.skt, t)
         IN  s2 \in NewSets /\ Standing(s2, th2, name)
<1> DEFINE at == op.skt
           s2 == pushq(insert(s, at), at, t)
<1>0. at \in Sockets /\ op # NoOp
  BY CallIs DEF Calls, Sockets
<1>1. ASSUME NEW u \in Threads, u # t PROVE ~ Waits(th2, u, name, at)
  <2> SUFFICES ASSUME Waits(th2, u, name, at) PROVE FALSE
    OBVIOUS
  <2>1. /\ th2[u].op # NoOp /\ th2[u].op.skt = op.skt /\ th2[u].op.log = name
        /\ th2[t].op = op
    BY DEF Waits, Becomes
  <2>2. Wants = {} /\ Direction(th2[u].op.kind) # Direction(op.kind)
    BY <1>0, <1>1, <2>1 DEF Apart
  <2>3. th2[u].op.log = Direction(th2[u].op.kind) /\ op.log = Direction(op.kind)
    BY <1>0, <2>1, <2>2 DEF Apart
  <2> QED
    BY <2>1, <2>2, <2>3
<1>2. Waits(th2, t, name, at) /\ \A skt \in Sockets : skt # at => ~ Waits(th2, t, name, skt)
  BY <1>0 DEF Waits, Becomes
<1>3. \A u \in Threads, skt \in Sockets :
        (u # t => (Waits(th2, u, name, skt) <=> Waits(th, u, name, skt))) /\ ~ Waits(th, t, name, skt)
  BY DEF Waits, Becomes
<1>4. s.q[at] = <<>>
  <2>1. \A u \in Threads : ~ Waits(th, u, name, at)
    BY <1>0, <1>1, <1>3
  <2> QED
    BY <1>0, <2>1 DEF Standing
<1>5. s2 = [set |-> s.set \cup {at}, q |-> [s.q EXCEPT ![at] = <<t>>]]
  <2>2. s2 = [set |-> s.set \cup {at}, q |-> [s.q EXCEPT ![at] = Append(s.q[at], t)]]
    <3> HIDE DEF at
    <3> QED
      BY QueueChanges
  <2> QED
    BY <1>4, <2>2, OneIs, Zenon
<1>6. s.q \in [Sockets -> Seq(Threads)] /\ s.set \subseteq Sockets
  BY DEF NewSets
<1> HIDE DEF s2, at
<1>7. /\ s2.q[at] = <<t>> /\ \A skt \in Sockets : skt # at => s2.q[skt] = s.q[skt]
      /\ s2.set = s.set \cup {at}
  BY <1>0, <1>5, <1>6
<1>8. s2 \in NewSets
  <2>1. [s.q EXCEPT ![at] = <<t>>] \in [Sockets -> Seq(Threads)]
    BY <1>6, OneIs
  <2> QED
    BY <1>0, <1>5, <1>6, <2>1 DEF NewSets
<1>9. ASSUME NEW skt \in Sockets
      PROVE  /\ s2.q[skt] = <<>> \/ \E u \in Threads : s2.q[skt] = <<u>>
             /\ \A u \in Threads : s2.q[skt] = <<u>> <=> Waits(th2, u, name, skt)
             /\ s2.q[skt] # <<>> => skt \in s2.set
  <2>1. CASE skt = at
    <3>1. s2.q[skt] = <<t>> /\ s2.q[skt] # <<>> /\ skt \in s2.set
      BY <1>7, <2>1, OneIs
    <3>2. ASSUME NEW u \in Threads PROVE s2.q[skt] = <<u>> <=> Waits(th2, u, name, skt)
      <4>1. s2.q[skt] = <<u>> <=> u = t
        BY <3>1, OneIs, Zenon
      <4>2. Waits(th2, u, name, skt) <=> u = t
        BY <1>1, <1>2, <2>1, Zenon
      <4> QED
        BY <4>1, <4>2
    <3> QED
      BY <3>1, <3>2, Zenon
  <2>2. CASE skt # at
    <3>1. s2.q[skt] = s.q[skt] /\ (skt \in s.set => skt \in s2.set)
      BY <1>7, <2>2
    <3>2. \A u \in Threads : Waits(th2, u, name, skt) <=> Waits(th, u, name, skt)
      BY <1>2, <1>3, <2>2
    <3> QED
      BY <3>1, <3>2, Zenon DEF Standing
  <2> QED
    BY <2>1, <2>2
<1> QED
  BY <1>8, <1>9 DEF Standing, s2, at

LEMMA StandingPopped ==
  ASSUME NEW s \in NewSets, NEW name, NEW th, NEW skt \in Sockets, Standing(s, th, name)
  PROVE  LET s2 == popq(remove(s, skt), skt)
         IN  /\ s2 \in NewSets
             /\ \/ first(s, skt) = none /\ Standing(s2, th, name)
                \/ /\ first(s, skt) \in Threads /\ Waits(th, first(s, skt), name, skt)
                   /\ \A th2 : Becomes(th2, th, first(s, skt), "running", th[first(s, skt)].op)
                                => Standing(s2, th2, name)
<1> DEFINE s2 == popq(remove(s, skt), skt)
           t == first(s, skt)
<1>1. s.q \in [Sockets -> Seq(Threads)] /\ s.set \subseteq Sockets
  BY DEF NewSets
<1>2. s.q[skt] = <<>> \/ \E u \in Threads : s.q[skt] = <<u>>
  BY DEF Standing
<1>4. s2 = [set |-> s.set \ {skt}, q |-> [s.q EXCEPT ![skt] = <<>>]]
  <2>1. s2 = [set |-> s.set \ {skt},
              q |-> [s.q EXCEPT ![skt] = IF s.q[skt] = <<>> THEN s.q[skt] ELSE Tail(s.q[skt])]]
    BY QueueChanges, Zenon
  <2>2. (IF s.q[skt] = <<>> THEN s.q[skt] ELSE Tail(s.q[skt])) = <<>>
    BY <1>2, OneIs
  <2> QED
    BY <2>1, <2>2, Zenon
<1> HIDE DEF s2, t
<1>5. /\ s2.q[skt] = <<>> /\ \A x \in Sockets : x # skt => s2.q[x] = s.q[x]
      /\ s2.set = s.set \ {skt}
  BY <1>1, <1>4
<1>6. s2 \in NewSets
  BY <1>1, <1>4 DEF NewSets
<1>7. CASE s.q[skt] = <<>>
  <2>1. t = none
    BY <1>7 DEF first, t
  <2>2. \A u \in Threads : ~ Waits(th, u, name, skt)
    BY <1>7, OneIs DEF Standing
  <2>3. ASSUME NEW x \in Sockets
        PROVE  /\ s2.q[x] = <<>> \/ \E u \in Threads : s2.q[x] = <<u>>
               /\ \A u \in Threads : s2.q[x] = <<u>> <=> Waits(th, u, name, x)
               /\ s2.q[x] # <<>> => x \in s2.set
    <3>1. CASE x = skt
      BY <1>5, <2>2, <3>1, OneIs
    <3>2. CASE x # skt
      <4>1. s2.q[x] = s.q[x] /\ (x \in s.set => x \in s2.set)
        BY <1>5, <3>2
      <4> QED
        BY <4>1, Zenon DEF Standing
    <3> QED
      BY <3>1, <3>2
  <2> QED
    BY <1>6, <2>1, <2>3 DEF Standing, t, s2
<1>8. CASE s.q[skt] # <<>>
  <2>1. PICK u0 \in Threads : s.q[skt] = <<u0>>
    BY <1>2, <1>8
  <2>2. t = u0 /\ t \in Threads /\ s.q[skt] = <<t>>
    BY <2>1, <1>8, OneIs DEF first, t
  <2>3. Waits(th, t, name, skt) /\ \A u \in Threads : Waits(th, u, name, skt) => u = t
    BY <2>2, OneIs DEF Standing
  <2>4. ASSUME NEW th2, Becomes(th2, th, t, "running", th[t].op), NEW x \in Sockets
        PROVE  /\ s2.q[x] = <<>> \/ \E u \in Threads : s2.q[x] = <<u>>
               /\ \A u \in Threads : s2.q[x] = <<u>> <=> Waits(th2, u, name, x)
               /\ s2.q[x] # <<>> => x \in s2.set
    <3>1. CASE x = skt
      <4>1. \A u \in Threads : ~ Waits(th2, u, name, skt)
        BY <2>3, <2>4 DEF Waits, Becomes
      <4> QED
        BY <1>5, <4>1, <3>1, OneIs
    <3>2. CASE x # skt
      <4>1. s2.q[x] = s.q[x] /\ (x \in s.set => x \in s2.set)
        BY <1>5, <3>2
      <4>2. \A u \in Threads : Waits(th2, u, name, x) <=> Waits(th, u, name, x)
        BY <2>3, <2>4, <3>2 DEF Waits, Becomes
      <4> QED
        BY <4>1, <4>2, Zenon DEF Standing
    <3> QED
      BY <3>1, <3>2
  <2>5. \A th2 : Becomes(th2, th, t, "running", th[t].op) => Standing(s2, th2, name)
    BY <2>4, Zenon DEF Standing
  <2> QED
    BY <1>6, <2>2, <2>3, <2>5 DEF t, s2
<1> QED
  BY <1>7, <1>8


(***************************************************************************)
(* What the dispatcher's operations do.                                    *)
(***************************************************************************)
LEMMA RunningIs ==
  ASSUME CopasInv, Runs
  PROVE  /\ Running \in Threads /\ thread[Running].state = "running"
         /\ thread[Running].op \in Ops
         /\ Last(stack) \in Elements(stack) /\ Last(stack) \in Resumes
         /\ phase # "stopped"
<1>1. stack \in Seq(Resumes) /\ Distinct(stack) /\ stack # <<>> /\ Stacked(thread, stack)
  BY DEF CopasInv, Typed, Stacked, Runs
<1>2. /\ Last(stack) \in Elements(stack) /\ Last(stack) \in Resumes
      /\ Last(stack).co \in Cos(stack)
  BY <1>1, PoppedIs
<1>3. Running \in Threads /\ thread[Running].state = "running"
  BY <1>1, <1>2 DEF Running, Resumes, Stacked
<1>4. thread[Running].op \in Ops
  BY <1>3 DEF CopasInv, Typed, Coroutines
<1>5. phase # "stopped"
  BY <1>1 DEF CopasInv, Phased
<1> QED
  BY <1>2, <1>3, <1>4, <1>5

LEMMA ResumeIs ==
  ASSUME CopasInv, NEW t \in Threads, thread[t].state # "running", NEW skt \in Sockets \cup {none},
         resume(t, skt)
  PROVE  /\ stack' \in Seq(Resumes) /\ Becomes(thread', thread, t, "running", thread[t].op)
         /\ Stacked(thread', stack') /\ Apart(thread')
         /\ Elements(stack') = Elements(stack) \cup {[co |-> t, skt |-> skt]}
<1> DEFINE e == [co |-> t, skt |-> skt]
<1>1. /\ stack' = Append(stack, e) /\ thread' = [thread EXCEPT ![t].state = "running"]
  BY CopasAssumed DEF resume, CopasAssumption
<1>2. /\ thread \in [Threads -> Coroutines] /\ stack \in Seq(Resumes)
      /\ Stacked(thread, stack) /\ Apart(thread)
  BY DEF CopasInv, Typed
<1>3. e \in Resumes /\ e.co = t /\ t \notin Cos(stack)
  BY <1>2 DEF Resumes, Stacked
<1> HIDE DEF e
<1>4. Distinct(stack)
  BY <1>2 DEF Stacked
<1>5. /\ stack' \in Seq(Resumes) /\ Distinct(stack') /\ Elements(stack') = Elements(stack) \cup {e}
      /\ Cos(stack') = Cos(stack) \cup {t}
  BY <1>1, <1>2, <1>3, <1>4, PushedIs
<1>6. Becomes(thread', thread, t, "running", thread[t].op)
  BY <1>1, <1>2, ThreadSet DEF States
<1>7. Stacked(thread', stack')
  BY <1>2, <1>5, <1>6 DEF Stacked, Becomes
<1>8. Apart(thread')
  <2>1. \/ thread[t].op = NoOp
        \/ /\ thread[t].op # NoOp
           /\ Wants = {} => thread[t].op.log = Direction(thread[t].op.kind)
    BY <1>2 DEF Apart
  <2> QED
    BY <1>2, <1>6, <2>1, ApartKept
<1> QED
  BY <1>5, <1>6, <1>7, <1>8 DEF e

LEMMA YieldIs ==
  ASSUME CopasInv, Runs, NEW op \in Ops, yields(op)
  PROVE  /\ stack' \in Seq(Resumes) /\ Becomes(thread', thread, Running, "suspended", op)
         /\ Stacked(thread', stack') /\ Elements(stack') \subseteq Elements(stack)
<1>1. stack' = Front(stack) /\ thread' = [thread EXCEPT ![Running] = [state |-> "suspended", op |-> op]]
  BY DEF yields
<1>2. /\ thread \in [Threads -> Coroutines] /\ stack \in Seq(Resumes)
      /\ Stacked(thread, stack) /\ Distinct(stack) /\ stack # <<>>
  BY DEF CopasInv, Typed, Stacked, Runs
<1>3. /\ stack' \in Seq(Resumes) /\ Distinct(stack') /\ Elements(stack') \subseteq Elements(stack)
      /\ Cos(stack') = Cos(stack) \ {Running}
  BY <1>1, <1>2, PoppedIs DEF Running
<1>4. Running \in Threads
  BY RunningIs
<1>5. Becomes(thread', thread, Running, "suspended", op)
  BY <1>1, <1>2, <1>4, ThreadSet DEF States
<1>6. Stacked(thread', stack')
  BY <1>2, <1>3, <1>4, <1>5 DEF Stacked, Becomes
<1> QED
  BY <1>3, <1>5, <1>6

LEMMA ReturnIs ==
  ASSUME CopasInv, Runs, ReturnOp
  PROVE  /\ Becomes(thread', thread, Running, "running", NoOp)
         /\ Stacked(thread', stack) /\ Apart(thread')
<1>1. thread' = [thread EXCEPT ![Running].op = NoOp]
  BY DEF ReturnOp
<1>2. /\ thread \in [Threads -> Coroutines] /\ Stacked(thread, stack) /\ Apart(thread)
      /\ Running \in Threads /\ thread[Running].state = "running"
  BY RunningIs DEF CopasInv, Typed
<1>3. Becomes(thread', thread, Running, "running", NoOp)
  BY <1>1, <1>2, CallIs, ThreadSet
<1>4. Stacked(thread', stack)
  BY <1>2, <1>3 DEF Stacked, Becomes
<1>5. Apart(thread')
  BY <1>2, <1>3, ApartKept
<1> QED
  BY <1>3, <1>4, <1>5

\* The sleepers are the same when nobody begins or ends to sleep.
LEMMA AsleepKept ==
  ASSUME NEW th, NEW th2, NEW t \in Threads, NEW x, NEW op, NEW s, NEW sl, Asleep(th, s, sl),
         Becomes(th2, th, t, x, op),
         th[t].state # "suspended" \/ th[t].op # NoOp, x # "suspended" \/ op # NoOp
  PROVE  Asleep(th2, s, sl)
BY DEF Asleep, Becomes

(***************************************************************************)
(* Every step of a thread keeps the invariant.                             *)
(***************************************************************************)
\* A call yields to the queue of a log.
LEMMA YieldInv ==
  ASSUME CopasInv, Runs, Op # NoOp, NEW log \in Logs, NEW op \in Calls,
         op.kind = Op.kind, op.skt = Op.skt, Wants = {} => log = Direction(op.kind),
         YieldTo(log, op), UNCHANGED <<sleeping, servers, phase, evs, socket, client, slept>>
  PROVE  CopasInv'
<1> DEFINE t == Running
           o == [op EXCEPT !.log = log]
<1>1. /\ o \in Calls /\ o.kind = Op.kind /\ o.skt = Op.skt /\ o.log = log /\ o.left = op.left
      /\ o.skt = op.skt
  BY DEF Calls
<1>2. o \in Ops /\ o # NoOp
  BY <1>1, CallIs
<1>3. yields(o)
  BY DEF YieldTo
<1> HIDE DEF o
<1>4. /\ stack' \in Seq(Resumes) /\ Becomes(thread', thread, t, "suspended", o)
      /\ Stacked(thread', stack') /\ Elements(stack') \subseteq Elements(stack)
  BY <1>2, <1>3, YieldIs
<1>5. t \in Threads /\ thread[t].state = "running" /\ phase # "stopped"
  BY RunningIs
<1>6. thread' \in [Threads -> Coroutines]
  BY <1>4 DEF Becomes
<1> HIDE DEF t
<1>7. Apart(thread')
  BY <1>1, <1>2, <1>4, <1>5, ApartKept DEF CopasInv, Op, t
<1>8. Asleep(thread', sleeping', slept')
  BY <1>2, <1>4, <1>5, AsleepKept DEF CopasInv
<1>9. Handling(thread', stack', client', slept', socket')
  BY <1>1, <1>2, <1>4, <1>5 DEF CopasInv, Handling, Becomes, Op, t
<1>10. o.skt \in Sockets /\ o.left \in Nat
  BY <1>1 DEF Calls, Sockets
<1>11. /\ reading' \in NewSets /\ writing' \in NewSets
       /\ Standing(reading', thread', "reading") /\ Standing(writing', thread', "writing")
       /\ reading_log' \in [Sockets -> Left] /\ writing_log' \in [Sockets -> Left]
       /\ Watched(thread', reading_log', writing_log', evs')
  <2>1. CASE log = "reading"
    <3>1. /\ reading' = pushq(insert(reading, o.skt), o.skt, t)
          /\ reading_log' = [reading_log EXCEPT ![o.skt] = o.left]
          /\ writing' = writing /\ writing_log' = writing_log /\ evs' = evs
      BY <1>1, <2>1 DEF YieldTo, t
    <3>2. reading' \in NewSets /\ Standing(reading', thread', "reading")
      BY <1>1, <1>4, <1>5, <1>6, <1>7, <2>1, <3>1, StandingPushed DEF CopasInv, Typed
    <3>3. Standing(writing', thread', "writing")
      <4>1. /\ \A skt \in Sockets : ~ Waits(thread, t, "writing", skt)
            /\ \A skt \in Sockets : ~ Waits(thread', t, "writing", skt)
        BY <1>1, <1>4, <1>5, <2>1 DEF Waits, Becomes
      <4> QED
        BY <1>4, <1>5, <3>1, <4>1, StandingKept DEF CopasInv
    <3>4. reading_log' \in [Sockets -> Left] /\ writing_log' \in [Sockets -> Left]
      BY <1>10, <3>1 DEF CopasInv, Typed, Left
    <3>5. Watched(thread', reading_log', writing_log', evs')
      <4>1. ASSUME NEW u \in Threads, u # t, thread[u].state = "suspended", thread[u].op # NoOp,
                   thread[u].op.log = "reading"
            PROVE  thread[u].op.skt # o.skt
        <5>1. ~ Waits(thread', u, "reading", o.skt)
          BY <1>1, <1>4, <1>5, <1>7, <1>2, <2>1, <4>1 DEF Waits, Becomes, Apart
        <5> QED
          BY <1>4, <4>1, <5>1 DEF Waits, Becomes
      <4>2. reading_log'[o.skt] = o.left /\ \A s \in Sockets : s # o.skt => reading_log'[s] = reading_log[s]
        BY <1>10, <3>1 DEF CopasInv, Typed
      <4>3. \A u \in Threads : thread[u].op # NoOp => thread[u].op.skt \in Sockets
        BY CallIs DEF CopasInv, Typed, Coroutines, Calls, Sockets
      <4>4. ASSUME NEW u \in Threads, u # t, thread[u].state = "suspended", thread[u].op # NoOp,
                   thread[u].op.log = "reading"
            PROVE  reading_log'[thread[u].op.skt] = reading_log[thread[u].op.skt]
        BY <4>1, <4>2, <4>3, <4>4
      <4>5. thread'[t].op = o /\ o.log = "reading" /\ \A u \in Threads : u # t => thread'[u] = thread[u]
        BY <1>1, <1>4, <2>1 DEF Becomes
      <4>6. Watched(thread, reading_log, writing_log, evs)
        BY DEF CopasInv
      <4> QED
        BY <3>1, <4>2, <4>4, <4>5, <4>6 DEF Watched
    <3> QED
      BY <3>1, <3>2, <3>3, <3>4, <3>5 DEF CopasInv, Typed
  <2>2. CASE log = "writing"
    <3>1. /\ writing' = pushq(insert(writing, o.skt), o.skt, t)
          /\ writing_log' = [writing_log EXCEPT ![o.skt] = o.left]
          /\ reading' = reading /\ reading_log' = reading_log /\ evs' = evs
      BY <1>1, <2>2 DEF YieldTo, t
    <3>2. writing' \in NewSets /\ Standing(writing', thread', "writing")
      BY <1>1, <1>4, <1>5, <1>6, <1>7, <2>2, <3>1, StandingPushed DEF CopasInv, Typed
    <3>3. Standing(reading', thread', "reading")
      <4>1. /\ \A skt \in Sockets : ~ Waits(thread, t, "reading", skt)
            /\ \A skt \in Sockets : ~ Waits(thread', t, "reading", skt)
        BY <1>1, <1>4, <1>5, <2>2 DEF Waits, Becomes
      <4> QED
        BY <1>4, <1>5, <3>1, <4>1, StandingKept DEF CopasInv
    <3>4. reading_log' \in [Sockets -> Left] /\ writing_log' \in [Sockets -> Left]
      BY <1>10, <3>1 DEF CopasInv, Typed, Left
    <3>5. Watched(thread', reading_log', writing_log', evs')
      <4>1. ASSUME NEW u \in Threads, u # t, thread[u].state = "suspended", thread[u].op # NoOp,
                   thread[u].op.log # "reading"
            PROVE  thread[u].op.skt # o.skt
        <5>1. thread[u].op.log = "writing"
          BY <4>1, CallIs DEF CopasInv, Typed, Coroutines, Calls, Logs
        <5>2. ~ Waits(thread', u, "writing", o.skt)
          BY <1>1, <1>4, <1>5, <1>7, <1>2, <2>2, <4>1, <5>1 DEF Waits, Becomes, Apart
        <5> QED
          BY <1>4, <4>1, <5>1, <5>2 DEF Waits, Becomes
      <4>2. writing_log'[o.skt] = o.left /\ \A s \in Sockets : s # o.skt => writing_log'[s] = writing_log[s]
        BY <1>10, <3>1 DEF CopasInv, Typed
      <4>3. \A u \in Threads : thread[u].op # NoOp => thread[u].op.skt \in Sockets
        BY CallIs DEF CopasInv, Typed, Coroutines, Calls, Sockets
      <4>4. ASSUME NEW u \in Threads, u # t, thread[u].state = "suspended", thread[u].op # NoOp,
                   thread[u].op.log # "reading"
            PROVE  writing_log'[thread[u].op.skt] = writing_log[thread[u].op.skt]
        BY <4>1, <4>2, <4>3, <4>4
      <4>5. thread'[t].op = o /\ o.log # "reading" /\ \A u \in Threads : u # t => thread'[u] = thread[u]
        BY <1>1, <1>4, <2>2 DEF Becomes
      <4>6. Watched(thread, reading_log, writing_log, evs)
        BY DEF CopasInv
      <4> QED
        BY <3>1, <4>2, <4>4, <4>5, <4>6 DEF Watched
    <3> QED
      BY <3>1, <3>2, <3>3, <3>4, <3>5 DEF CopasInv, Typed
  <2> QED
    BY <2>1, <2>2 DEF Logs
<1>12. Typed'
  BY <1>4, <1>6, <1>11 DEF CopasInv, Typed
<1>13. Phased' /\ StopsWhenDone'
  BY <1>5 DEF CopasInv, Phased, StopsWhenDone, Runs
<1> QED
  BY <1>4, <1>7, <1>8, <1>9, <1>11, <1>12, <1>13 DEF CopasInv


\* A call returns, and its timer is taken out or not.
LEMMA ReturnInv ==
  ASSUME CopasInv, Runs, Op # NoOp, ReturnOp, UNCHANGED <<stack, reading, writing>>,
         UNCHANGED <<reading_log, writing_log>> \/ Unlog(Op),
         UNCHANGED <<sleeping, servers, phase, evs, socket, client, slept>>
  PROVE  CopasInv'
<1> DEFINE t == Running
<1>1. /\ Becomes(thread', thread, t, "running", NoOp)
      /\ Stacked(thread', stack') /\ Apart(thread')
  BY ReturnIs
<1>2. t \in Threads /\ thread[t].state = "running" /\ phase # "stopped" /\ Op = thread[t].op
  BY RunningIs DEF Op
<1> HIDE DEF t
<1>3. /\ Asleep(thread', sleeping', slept')
      /\ Handling(thread', stack', client', slept', socket')
  <2>1. Asleep(thread', sleeping', slept')
    BY <1>1, <1>2, AsleepKept DEF CopasInv
  <2> QED
    BY <1>1, <1>2, <2>1 DEF CopasInv, Handling, Becomes
<1>4. Standing(reading', thread', "reading") /\ Standing(writing', thread', "writing")
  <2>1. \A name, skt : ~ Waits(thread, t, name, skt) /\ ~ Waits(thread', t, name, skt)
    BY <1>1, <1>2 DEF Waits, Becomes
  <2> QED
    BY <1>1, <1>2, <2>1, StandingKept DEF CopasInv
<1>5. Op \in Calls
  BY <1>2, CallIs DEF CopasInv, Typed, Coroutines
<1>6. Op.skt \in Sockets
  BY <1>5 DEF Calls, Sockets
<1>7. reading_log' \in [Sockets -> Left] /\ writing_log' \in [Sockets -> Left]
  BY <1>6 DEF CopasInv, Typed, Left, Unlog
<1>8. Watched(thread', reading_log', writing_log', evs')
  <2>1. CASE UNCHANGED <<reading_log, writing_log>>
    BY <1>1, <1>2, <2>1, WatchedKept DEF CopasInv
  <2>2. CASE Unlog(Op)
    <3>1. ASSUME NEW u \in Threads, thread'[u].state = "suspended", thread'[u].op # NoOp
          PROVE  /\ thread[u] = thread'[u] /\ thread[u].op \in Calls
                 /\ thread[u].op.skt # Op.skt \/ thread[u].op.log # Op.log
      <4>1. u # t /\ thread[u] = thread'[u]
        BY <1>1, <3>1 DEF Becomes
      <4>2. thread[u].op \in Calls
        BY <3>1, <4>1, CallIs DEF CopasInv, Typed, Coroutines
      <4>3. ~ (thread[u].op.skt = Op.skt /\ thread[u].op.log = Op.log)
        BY <1>2, <3>1, <4>1 DEF CopasInv, Apart
      <4> QED
        BY <4>1, <4>2, <4>3
    <3>2. \A u \in Threads : thread'[u].state = "suspended" /\ thread'[u].op # NoOp
                               => thread'[u].op.skt \in Sockets /\ thread'[u].op.log \in Logs
      BY <3>1 DEF Calls, Sockets
    <3>3. /\ evs' = evs
          /\ \A s \in Sockets : \/ s = Op.skt /\ Op.log = "reading"
                                \/ reading_log'[s] = reading_log[s]
          /\ \A s \in Sockets : \/ s = Op.skt /\ Op.log # "reading"
                                \/ writing_log'[s] = writing_log[s]
      BY <1>6, <2>2 DEF Unlog, CopasInv, Typed
    <3>4. Watched(thread, reading_log, writing_log, evs)
      BY DEF CopasInv
    <3>5. Op.log \in Logs
      BY <1>5 DEF Calls
    <3> QED
      BY <3>1, <3>2, <3>3, <3>4, <3>5 DEF Watched, Logs
  <2> QED
    BY <2>1, <2>2
<1>9. Typed'
  BY <1>1, <1>7 DEF CopasInv, Typed, Becomes
<1>10. Phased' /\ StopsWhenDone'
  BY <1>2 DEF CopasInv, Phased, StopsWhenDone, Runs
<1> QED
  BY <1>1, <1>3, <1>4, <1>8, <1>9, <1>10 DEF CopasInv

LEMMA SettleInv ==
  ASSUME CopasInv, Runs, Op # NoOp,
         NEW answer \in {none, "done", "error", "timeout"} \cup Wants, settle(Op, answer),
         UNCHANGED <<sleeping, servers, phase, evs, socket, client, slept>>
  PROVE  CopasInv'
<1>1. Op \in Calls
  BY RunningIs, CallIs DEF Op
<1>2. CASE ReturnOp /\ UNCHANGED <<stack, reading, writing>>
           /\ (UNCHANGED <<reading_log, writing_log>> \/ Unlog(Op))
  BY <1>2, ReturnInv
<1>3. CASE YieldTo(Log(Op, answer), [Op EXCEPT !.result = none]) /\ answer \in Retry
  <2> DEFINE o == [Op EXCEPT !.result = none]
             log == Log(Op, answer)
  <2>1. o \in Calls /\ o.kind = Op.kind /\ o.skt = Op.skt
    BY <1>1 DEF Calls
  <2>2. log \in Logs
    BY DEF Log, Logs
  <2>3. Wants = {} => log = Direction(o.kind)
    <3>1. Wants = {} => answer # "wantread" /\ answer # "wantwrite"
      BY DEF none
    <3> QED
      BY <2>1, <3>1 DEF Log, Direction
  <2> HIDE DEF o, log
  <2> QED
    BY <1>3, <2>1, <2>2, <2>3, YieldInv DEF o, log
<1> QED
  BY <1>2, <1>3 DEF settle, sets

LEMMA AttemptInv == ASSUME CopasInv, Attempt PROVE CopasInv'
<1>1. ASSUME Runs, Op # NoOp PROVE Op \in Calls
  BY <1>1, RunningIs, CallIs DEF Op
<1>2. Op.kind # none => Op # NoOp
  BY DEF NoOp
<1>3. CASE Try
  <2>1. Op # NoOp
    BY <1>2, <1>3 DEF Try, none
  <2>2. PICK answer \in Answers(Op) : settle(Op, answer)
    BY <1>3 DEF Try
  <2>3. answer \in {none, "done", "error", "timeout"} \cup Wants
    BY DEF Answers
  <2> QED
    BY <1>3, <2>1, <2>2, <2>3, SettleInv DEF Try
<1>4. CASE TrySend
  <2>1. Op # NoOp /\ Op.kind = "send" /\ Runs
    BY <1>2, <1>4 DEF TrySend, none
  <2>2. PICK answer \in Answers(Op) :
          settle(Op, answer) \/ YieldTo(Op.log, [Op EXCEPT !.result = answer])
    BY <1>4 DEF TrySend
  <2>3. answer \in {none, "done", "error", "timeout"} \cup Wants
    BY DEF Answers
  <2>4. CASE YieldTo(Op.log, [Op EXCEPT !.result = answer])
    <3> DEFINE o == [Op EXCEPT !.result = answer]
    <3>1. Op \in Calls
      BY <1>1, <2>1
    <3>2. o \in Calls /\ o.kind = Op.kind /\ o.skt = Op.skt /\ Op.log \in Logs
      BY <2>3, <3>1 DEF Calls
    <3>3. Wants = {} => Op.log = Direction(Op.kind)
      BY <2>1, RunningIs DEF CopasInv, Apart, Op
    <3> HIDE DEF o
    <3> QED
      BY <1>4, <2>1, <2>4, <3>2, <3>3, YieldInv DEF TrySend, o
  <2> QED
    BY <1>4, <2>1, <2>2, <2>3, <2>4, SettleInv DEF TrySend
<1>5. CASE AfterSwap
  <2>1. Op # NoOp /\ Runs
    BY <1>2, <1>5 DEF AfterSwap, none
  <2>2. Op.result \in {none, "done", "error", "timeout"} \cup Wants
    BY <1>1, <2>1 DEF Calls
  <2> QED
    BY <1>5, <2>1, <2>2, SettleInv DEF AfterSwap
<1> QED
  BY <1>3, <1>4, <1>5 DEF Attempt


\* Nobody begins or ends to wait for a socket.
LEMMA AsideIs ==
  ASSUME CopasInv, UNCHANGED <<sets, evs>>, NEW t \in Threads, NEW x, NEW op,
         Becomes(thread', thread, t, x, op),
         thread[t].state # "suspended" \/ thread[t].op = NoOp, x # "suspended" \/ op = NoOp
  PROVE  /\ Standing(reading', thread', "reading") /\ Standing(writing', thread', "writing")
         /\ Watched(thread', reading_log', writing_log', evs')
<1>1. \A name, skt : ~ Waits(thread, t, name, skt) /\ ~ Waits(thread', t, name, skt)
  BY DEF Waits, Becomes
<1>2. Standing(reading, thread', "reading") /\ Standing(writing, thread', "writing")
  BY <1>1, StandingKept DEF CopasInv
<1>3. Watched(thread', reading_log, writing_log, evs)
  BY WatchedKept DEF CopasInv
<1> QED
  BY <1>2, <1>3 DEF sets

LEMMA BeginInv ==
  ASSUME ~ Shared, CopasInv, NEW kind \in {"receive", "send", "connect"}, NEW skt \in Clients,
         NEW left \in Timeouts, Begin(kind, skt, left)
  PROVE  CopasInv'
<1> DEFINE t == Running
           op == [kind |-> kind, skt |-> skt, left |-> left, log |-> Direction(kind), result |-> none]
<1>1. /\ Runs /\ thread[t].op = NoOp /\ thread' = [thread EXCEPT ![t].op = op]
      /\ client[t] \in {none, skt} /\ ~ Taken(kind, skt)
      /\ UNCHANGED <<sleeping, sets, servers, phase, evs, stack, socket, client, slept>>
  BY DEF Begin, Op
<1>2. t \in Threads /\ thread[t].state = "running" /\ phase # "stopped"
  BY <1>1, RunningIs
<1>3. op \in Calls
  BY CopasAssumed DEF Calls, CopasAssumption, Direction, Logs
<1>4. op \in Ops /\ op # NoOp
  BY <1>3, CallIs
<1>5. op.kind = kind /\ op.skt = skt /\ op.log = Direction(kind)
  OBVIOUS
<1>6. ~ \E u \in Threads \ {t} :
           thread[u].op.skt = skt /\ (Wants # {} \/ Direction(thread[u].op.kind) = Direction(kind))
  BY <1>1 DEF Taken
<1> HIDE DEF op, t
<1>7. Becomes(thread', thread, t, "running", op)
  <2>1. thread \in [Threads -> Coroutines]
    BY DEF CopasInv, Typed
  <2>2. Becomes(thread', thread, t, thread[t].state, op)
    BY <1>1, <1>2, <1>4, <2>1, ThreadSet
  <2> QED
    BY <1>2, <2>2
<1>8. Standing(reading', thread', "reading") /\ Standing(writing', thread', "writing")
      /\ Watched(thread', reading_log', writing_log', evs')
  BY <1>1, <1>2, <1>7, AsideIs
<1>9. Asleep(thread', sleeping', slept')
  BY <1>1, <1>2, <1>7, AsleepKept DEF CopasInv
<1>10. Stacked(thread', stack')
  BY <1>1, <1>2, <1>7 DEF CopasInv, Stacked, Becomes
<1>11. Apart(thread')
  <2>1. \A u \in Threads : u # t =>
          /\ thread'[u] = thread[u]
          /\ thread[u].op.skt = skt => Wants = {} /\ Direction(thread[u].op.kind) # Direction(kind)
    BY <1>6, <1>7 DEF Becomes
  <2>2. thread'[t].op = op
    BY <1>7 DEF Becomes
  <2> QED
    BY <2>1, <2>2, <1>5 DEF CopasInv, Apart
<1>12. Handling(thread', stack', client', slept', socket')
  BY <1>1, <1>2, <1>5, <1>7 DEF CopasInv, Handling, Becomes
<1>13. Typed'
  BY <1>1, <1>7 DEF CopasInv, Typed, Becomes, sets
<1>14. Phased' /\ StopsWhenDone'
  BY <1>1, <1>2 DEF CopasInv, Phased, StopsWhenDone
<1> QED
  BY <1>8, <1>9, <1>10, <1>11, <1>12, <1>13, <1>14 DEF CopasInv

LEMMA SleepInv == ASSUME CopasInv, NEW d \in Naps, Sleep(d) PROVE CopasInv'
<1> DEFINE t == Running
<1>1. /\ Runs /\ thread[t].op = NoOp /\ yields(NoOp) /\ sleeping' = push(sleeping, d, t)
      /\ slept' = slept \cup {t} /\ UNCHANGED <<sets, servers, phase, evs, socket, client>>
  BY DEF Sleep, Op
<1>2. t \in Threads /\ thread[t].state = "running" /\ phase # "stopped"
  BY <1>1, RunningIs
<1>3. /\ stack' \in Seq(Resumes) /\ Becomes(thread', thread, t, "suspended", NoOp)
      /\ Stacked(thread', stack') /\ Elements(stack') \subseteq Elements(stack)
  BY <1>1, CallIs, YieldIs
<1> HIDE DEF t
<1>4. Sound(Threads, sleeping) /\ t \notin Sleepers(sleeping) /\ d \in Int
  BY <1>2, CopasAssumed DEF CopasInv, Typed, Asleep, CopasAssumption
<1>5. Sound(Threads, sleeping') /\ Sleepers(sleeping') = Sleepers(sleeping) \cup {t}
  <2>1. CASE d < 0
    <3>1. push(sleeping, d, t) = push(sleeping, -1, t)
      BY <2>1 DEF push
    <3>2. /\ Sound(Threads, sleeping') /\ sleeping'.cos = sleeping.cos
          /\ sleeping'.lethargy = sleeping.lethargy \cup {t}
      BY <1>1, <1>2, <1>4, <3>1, LieDown
    <3> QED
      BY <3>2, SleepersAre
  <2>2. CASE ~ (d < 0)
    <3>1. d \in Nat
      BY <1>4, <2>2
    <3>2. /\ Sound(Threads, sleeping') /\ sleeping'.lethargy = sleeping.lethargy
          /\ Elements(sleeping'.cos) = Elements(sleeping.cos) \cup {t}
      BY <1>1, <1>2, <1>4, <3>1, LieDown
    <3> QED
      BY <3>2, SleepersAre
  <2> QED
    BY <2>1, <2>2
<1>6. Standing(reading', thread', "reading") /\ Standing(writing', thread', "writing")
      /\ Watched(thread', reading_log', writing_log', evs')
  BY <1>1, <1>2, <1>3, AsideIs
<1>7. Asleep(thread', sleeping', slept')
  BY <1>1, <1>2, <1>3, <1>5 DEF CopasInv, Asleep, Becomes
<1>8. Apart(thread')
  BY <1>2, <1>3, ApartKept DEF CopasInv
<1>9. Handling(thread', stack', client', slept', socket')
  BY <1>1, <1>2, <1>3 DEF CopasInv, Handling, Becomes
<1>10. Typed'
  BY <1>1, <1>3, <1>5 DEF CopasInv, Typed, Becomes, sets
<1>11. Phased' /\ StopsWhenDone'
  BY <1>1, <1>2 DEF CopasInv, Phased, StopsWhenDone, Runs
<1> QED
  BY <1>3, <1>6, <1>7, <1>8, <1>9, <1>10, <1>11 DEF CopasInv

LEMMA EndsInv == ASSUME CopasInv, NEW ok \in BOOLEAN, Ends(ok) PROVE CopasInv'
<1> DEFINE t == Running
           skt == Last(stack).skt
<1>1. /\ Runs /\ thread[t].op = NoOp /\ stack' = Front(stack)
      /\ thread' = [thread EXCEPT ![t].state = "dead"]
      /\ socket' = IF skt # none THEN [socket EXCEPT ![skt] = "closed"] ELSE socket
      /\ UNCHANGED <<sleeping, sets, servers, phase, evs, client, slept>>
  BY DEF Ends, Op, autoclose
<1>2. /\ t \in Threads /\ thread[t].state = "running" /\ phase # "stopped"
      /\ Last(stack) \in Elements(stack) /\ Last(stack) \in Resumes /\ Last(stack).co = t
  BY <1>1, RunningIs DEF Running
<1>3. skt \in Sockets \cup {none}
  BY <1>2 DEF Resumes
<1> HIDE DEF t
<1>4. /\ thread \in [Threads -> Coroutines] /\ stack \in Seq(Resumes)
      /\ Stacked(thread, stack) /\ Distinct(stack) /\ stack # <<>>
  BY <1>1 DEF CopasInv, Typed, Stacked, Runs
<1>5. /\ stack' \in Seq(Resumes) /\ Distinct(stack') /\ Elements(stack') \subseteq Elements(stack)
      /\ Cos(stack') = Cos(stack) \ {t}
  BY <1>1, <1>2, <1>4, PoppedIs
<1>6. Becomes(thread', thread, t, "dead", NoOp)
  BY <1>1, <1>2, <1>4, ThreadSet DEF States
<1>7. Stacked(thread', stack')
  BY <1>4, <1>5, <1>6 DEF Stacked, Becomes
<1>8. Standing(reading', thread', "reading") /\ Standing(writing', thread', "writing")
      /\ Watched(thread', reading_log', writing_log', evs')
  BY <1>1, <1>2, <1>6, AsideIs
<1>9. Asleep(thread', sleeping', slept')
  BY <1>1, <1>2, <1>6, AsleepKept DEF CopasInv
<1>10. Apart(thread')
  BY <1>2, <1>6, ApartKept DEF CopasInv
<1>11. /\ socket' \in [Sockets -> {"unused", "open", "closed"}]
       /\ \A s \in Sockets : socket[s] = "closed" => socket'[s] = "closed"
       /\ skt # none => socket'[skt] = "closed"
  BY <1>1, <1>3 DEF CopasInv, Typed
<1>12. Handling(thread', stack', client', slept', socket')
  <2>1. /\ client \in [Threads -> Clients \cup {none}] /\ Clients \subseteq Sockets
        /\ Handling(thread, stack, client, slept, socket)
    BY DEF CopasInv, Typed, Sockets
  <2>2. client[t] # none /\ t \notin slept => skt = client[t]
    BY <1>2, <2>1 DEF Handling
  <2>3. ASSUME NEW u \in Threads, thread'[u].state = "dead", client[u] # none, u \notin slept
        PROVE  socket'[client[u]] = "closed"
    <3>1. CASE u = t
      BY <1>11, <2>2, <2>3, <3>1
    <3>2. CASE u # t
      <4>1. socket[client[u]] = "closed" /\ client[u] \in Sockets
        BY <1>6, <2>1, <2>3, <3>2 DEF Handling, Becomes
      <4> QED
        BY <1>11, <4>1
    <3> QED
      BY <3>1, <3>2
  <2> QED
    BY <1>1, <1>2, <1>5, <1>6, <2>1, <2>3 DEF Handling, Becomes
<1>13. Typed'
  BY <1>1, <1>5, <1>6, <1>11 DEF CopasInv, Typed, Becomes, sets
<1>14. Phased' /\ StopsWhenDone'
  BY <1>1, <1>2 DEF CopasInv, Phased, StopsWhenDone, Runs
<1> QED
  BY <1>7, <1>8, <1>9, <1>10, <1>12, <1>13, <1>14 DEF CopasInv

LEMMA WakeupInv == ASSUME CopasInv, NEW t \in Threads, Wakeup(t) PROVE CopasInv'
<1>1. /\ Runs /\ t \in Sleepers(sleeping) /\ sleeping' = wakeup(sleeping, t)
      /\ UNCHANGED <<sets, servers, phase, evs, stack, thread, socket, client, slept>>
  BY DEF Wakeup, Sleeping
<1>2. Sound(Threads, sleeping)
  BY DEF CopasInv, Typed
<1>3. /\ Sound(Threads, sleeping') /\ sleeping'.lethargy = sleeping.lethargy \ {t}
      /\ Elements(sleeping'.cos) = Elements(sleeping.cos) \cup (sleeping.lethargy \cap {t})
  BY <1>1, <1>2, WakeupIs
<1>4. Sleepers(sleeping') = Sleepers(sleeping)
  BY <1>3, SleepersAre
<1>5. phase # "stopped"
  BY <1>1, RunningIs
<1>6. Asleep(thread', sleeping', slept')
  BY <1>1, <1>4 DEF CopasInv, Asleep
<1>7. Typed'
  BY <1>1, <1>3 DEF CopasInv, Typed, sets
<1>8. Phased' /\ StopsWhenDone'
  BY <1>1, <1>5 DEF CopasInv, Phased, StopsWhenDone
<1> QED
  BY <1>1, <1>6, <1>7, <1>8 DEF CopasInv, sets

LEMMA AddThreadInv == ASSUME CopasInv, NEW t \in Threads, AddThread(t) PROVE CopasInv'
<1>1. /\ thread[t].state = "new" /\ resume(t, none) /\ phase # "stopped"
      /\ UNCHANGED <<sleeping, sets, servers, phase, evs, socket, client, slept>>
  BY RunningIs DEF AddThread
<1>2. /\ stack' \in Seq(Resumes) /\ Becomes(thread', thread, t, "running", thread[t].op)
      /\ Stacked(thread', stack') /\ Apart(thread')
      /\ Elements(stack') = Elements(stack) \cup {[co |-> t, skt |-> none]}
  BY <1>1, ResumeIs
<1>3. Standing(reading', thread', "reading") /\ Standing(writing', thread', "writing")
      /\ Watched(thread', reading_log', writing_log', evs')
  BY <1>1, <1>2, AsideIs
<1>4. Asleep(thread', sleeping', slept')
  BY <1>1, <1>2, AsleepKept DEF CopasInv
<1>5. Handling(thread', stack', client', slept', socket')
  BY <1>1, <1>2 DEF CopasInv, Handling, Becomes
<1>6. Typed'
  BY <1>1, <1>2 DEF CopasInv, Typed, Becomes, sets
<1>7. Phased' /\ StopsWhenDone'
  BY <1>1 DEF CopasInv, Phased, StopsWhenDone
<1> QED
  BY <1>2, <1>3, <1>4, <1>5, <1>6, <1>7 DEF CopasInv

LEMMA RemoveServerInv == ASSUME CopasInv, RemoveServer PROVE CopasInv'
<1>1. /\ Runs /\ servers' = servers \ {Server} /\ reading' = remove(reading, Server)
      /\ socket' = [socket EXCEPT ![Server] = "closed"]
      /\ UNCHANGED <<sleeping, writing, reading_log, writing_log, phase, evs, stack, thread,
                     client, slept>>
  BY DEF RemoveServer
<1>2. reading \in NewSets /\ Standing(reading, thread, "reading")
  BY DEF CopasInv, Typed
<1>3. reading' = [set |-> reading.set \ {Server}, q |-> reading.q]
  BY <1>1, <1>2, QueueChanges
<1>4. reading' \in NewSets /\ reading'.q = reading.q /\ reading'.set = reading.set \ {Server}
  BY <1>2, <1>3 DEF NewSets
<1>5. reading.q[Server] = <<>>
  <2>1. ASSUME NEW t \in Threads, thread[t].op # NoOp PROVE thread[t].op.skt # Server
    <3>1. thread[t].op \in Calls
      BY <2>1, CallIs DEF CopasInv, Typed, Coroutines
    <3> QED
      BY <3>1, CopasAssumed DEF Calls, CopasAssumption
  <2>2. \A t \in Threads : ~ Waits(thread, t, "reading", Server)
    BY <2>1 DEF Waits
  <2> QED
    BY <1>2, <2>2 DEF Standing, Sockets
<1>6. Standing(reading', thread', "reading")
  <2>1. Standing(reading', thread, "reading")
    BY <1>2, <1>4, <1>5 DEF Standing
  <2> QED
    BY <1>1, <2>1
<1>7. /\ socket' \in [Sockets -> {"unused", "open", "closed"}]
      /\ \A s \in Sockets : socket[s] = "closed" => socket'[s] = "closed"
  BY <1>1 DEF CopasInv, Typed
<1>8. Handling(thread', stack', client', slept', socket')
  <2>1. client \in [Threads -> Clients \cup {none}] /\ Clients \subseteq Sockets
    BY DEF CopasInv, Typed, Sockets
  <2> QED
    BY <1>1, <1>7, <2>1 DEF CopasInv, Handling
<1>9. Typed'
  BY <1>1, <1>4, <1>7 DEF CopasInv, Typed
<1>10. Phased' /\ StopsWhenDone'
  BY <1>1, RunningIs DEF CopasInv, Phased, StopsWhenDone
<1> QED
  BY <1>1, <1>6, <1>8, <1>9, <1>10 DEF CopasInv


(***************************************************************************)
(* Every step of the loop keeps the invariant.                             *)
(***************************************************************************)
\* Nothing but the phase and the events changes.
LEMMA PhaseInv ==
  ASSUME CopasInv, UNCHANGED <<sleeping, sets, servers, stack, thread, socket, client, slept>>,
         evs' \in Seq(Events), phase' \in {"setup", "loop", "tick", "select", "events", "stopped"},
         evs' # <<>> => phase' = "events", Watched(thread, reading_log, writing_log, evs'),
         Phased', StopsWhenDone'
  PROVE  CopasInv'
BY DEF CopasInv, Typed, sets

LEMMA LoopInv == ASSUME CopasInv, Loop PROVE CopasInv'
<1>1. /\ Idle /\ phase \in {"setup", "loop"} /\ phase' = IF finished THEN "stopped" ELSE "tick"
      /\ UNCHANGED <<sleeping, sets, servers, evs, stack, thread, socket, client, slept>>
  BY DEF Loop
<1>2. evs = <<>> /\ stack = <<>> /\ Watched(thread, reading_log, writing_log, evs) /\ evs \in Seq(Events)
  BY <1>1 DEF CopasInv, Phased, Idle, Typed
<1>3. ASSUME finished, NEW t \in Threads, thread[t].state = "suspended"
      PROVE  t \in sleeping.lethargy
  <2>1. reading.set = {} /\ writing.set = {} /\ sleeping.times = <<>>
    <3>1. sleeping.times \in Seq(Nat)
      BY DEF CopasInv, Typed, Sound, Records
    <3>2. sleeping.times # <<>> => Head(sleeping.times) \in Nat
      BY <3>1, HeadTailProperties
    <3> QED
      BY <1>3, <3>2 DEF finished, getnext, NoDelay
  <2>2. thread[t].op = NoOp
    <3> SUFFICES ASSUME thread[t].op # NoOp PROVE FALSE
      OBVIOUS
    <3>1. thread[t].op \in Calls
      BY CallIs DEF CopasInv, Typed, Coroutines
    <3>2. thread[t].op.skt \in Sockets /\ thread[t].op.log \in Logs
      BY <3>1 DEF Calls, Sockets
    <3>3. \/ Waits(thread, t, "reading", thread[t].op.skt)
          \/ Waits(thread, t, "writing", thread[t].op.skt)
      BY <1>3, <3>2 DEF Waits, Logs
    <3> QED
      BY <2>1, <3>2, <3>3, OneIs DEF CopasInv, Standing
  <2>3. t \in Sleepers(sleeping)
    BY <1>3, <2>2 DEF CopasInv, Asleep
  <2>4. Len(sleeping.cos) = 0 /\ sleeping.cos \in Seq(Threads)
    BY <2>1 DEF CopasInv, Typed, Sound, Records, WellFormed
  <2>5. Elements(sleeping.cos) = {}
    BY <2>4 DEF Elements
  <2> QED
    BY <2>3, <2>5, SleepersAre
<1>4. StopsWhenDone'
  BY <1>1, <1>3 DEF StopsWhenDone
<1>5. Phased'
  BY <1>1, <1>2 DEF Phased
<1>6. UNCHANGED <<sleeping, sets, servers, stack, thread, socket, client, slept>>
      /\ evs' \in Seq(Events) /\ evs' = <<>> /\ Watched(thread, reading_log, writing_log, evs')
  BY <1>1, <1>2
<1>7. phase' \in {"setup", "loop", "tick", "select", "events", "stopped"}
  BY <1>1
<1> QED
  BY <1>4, <1>5, <1>6, <1>7, PhaseInv

LEMMA RestInv == ASSUME CopasInv, Nothing \/ EventsDone PROVE CopasInv'
<1>1. /\ Idle /\ evs = <<>> /\ phase' = "loop"
      /\ UNCHANGED <<sleeping, sets, servers, evs, stack, thread, socket, client, slept>>
  BY DEF Nothing, EventsDone, CopasInv, Phased
<1>2. Watched(thread, reading_log, writing_log, evs) /\ evs \in Seq(Events)
  BY DEF CopasInv, Typed
<1>3. Phased' /\ StopsWhenDone'
  BY <1>1 DEF Phased, StopsWhenDone
<1> QED
  BY <1>1, <1>2, <1>3, PhaseInv

\* The event of the server leaves the others.
LEMMA EventGone ==
  ASSUME CopasInv, evs # <<>>, evs' = Tail(evs)
  PROVE  /\ evs' \in Seq(Events) /\ Head(evs) \in Events
         /\ Elements(evs) = Elements(evs') \cup {Head(evs)}
<1> DEFINE n == Len(evs)
<1>1. evs \in Seq(Events) /\ n \in Nat /\ n # 0 /\ DOMAIN evs = 1 .. n
  BY DEF CopasInv, Typed
<1>2. /\ evs' \in Seq(Events) /\ Len(evs') = n - 1 /\ \A i \in 1 .. n - 1 : evs'[i] = evs[i + 1]
  BY <1>1, HeadTailProperties
<1>3. Head(evs) = evs[1] /\ evs[1] \in Events
  BY <1>1
<1> HIDE DEF n
<1>4. DOMAIN evs' = 1 .. n - 1 /\ \A i \in 1 .. n - 1 : i + 1 \in 1 .. n
  BY <1>1, <1>2
<1>5. \A i \in 1 .. n : i = 1 \/ (i - 1 \in 1 .. n - 1 /\ evs[i] = evs'[i - 1])
  BY <1>1, <1>2
<1>6. Elements(evs') \subseteq Elements(evs)
  BY <1>1, <1>2, <1>4 DEF Elements
<1>7. ASSUME NEW e \in Elements(evs) PROVE e \in Elements(evs') \cup {evs[1]}
  <2>1. PICK i \in 1 .. n : e = evs[i]
    BY <1>1 DEF Elements
  <2>2. i = 1 \/ (i - 1 \in DOMAIN evs' /\ e = evs'[i - 1])
    BY <1>4, <1>5, <2>1
  <2> QED
    BY <2>1, <2>2 DEF Elements
<1>8. evs[1] \in Elements(evs)
  <2>1. 1 \in 1 .. n
    BY <1>1
  <2> QED
    BY <1>1, <2>1 DEF Elements
<1> QED
  BY <1>2, <1>3, <1>6, <1>7, <1>8

LEMMA ServerEvent ==
  ASSUME CopasInv, evs # <<>>, Head(evs) = [kind |-> "read", skt |-> Server], evs' = Tail(evs)
  PROVE  Watched(thread, reading_log, writing_log, evs')
<1>1. ASSUME NEW t \in Threads, thread[t].op # NoOp
      PROVE  [kind |-> "read", skt |-> thread[t].op.skt] # Head(evs)
             /\ [kind |-> "write", skt |-> thread[t].op.skt] # Head(evs)
  <2>1. thread[t].op \in Calls
    BY <1>1, CallIs DEF CopasInv, Typed, Coroutines
  <2>2. thread[t].op.skt # Server
    BY <2>1, CopasAssumed DEF Calls, CopasAssumption
  <2> QED
    BY <2>2
<1> QED
  BY <1>1, EventGone DEF CopasInv, Watched

LEMMA AcceptNothingInv == ASSUME CopasInv, AcceptNothing PROVE CopasInv'
<1>1. /\ Idle /\ evs # <<>> /\ Head(evs) = [kind |-> "read", skt |-> Server] /\ evs' = Tail(evs)
      /\ phase = "events" /\ phase' = phase
      /\ UNCHANGED <<sleeping, sets, servers, stack, thread, socket, client, slept>>
  BY DEF AcceptNothing
<1>2. evs' \in Seq(Events) /\ Watched(thread, reading_log, writing_log, evs')
  BY <1>1, EventGone, ServerEvent
<1>3. Phased' /\ StopsWhenDone'
  BY <1>1 DEF Phased, StopsWhenDone
<1> QED
  BY <1>1, <1>2, <1>3, PhaseInv

LEMMA AcceptInv ==
  ASSUME CopasInv, NEW t \in Threads, NEW skt \in Clients, Accept(t, skt) PROVE CopasInv'
<1>1. /\ evs # <<>> /\ Head(evs) = [kind |-> "read", skt |-> Server] /\ evs' = Tail(evs)
      /\ thread[t].state = "new" /\ socket[skt] = "unused"
      /\ socket' = [socket EXCEPT ![skt] = "open"] /\ client' = [client EXCEPT ![t] = skt]
      /\ resume(t, skt) /\ phase = "events"
      /\ UNCHANGED <<sleeping, sets, servers, phase, slept>>
  BY DEF Accept
<1>2. skt \in Sockets /\ evs' \in Seq(Events) /\ Watched(thread, reading_log, writing_log, evs')
  BY <1>1, EventGone, ServerEvent DEF Sockets
<1>3. /\ stack' \in Seq(Resumes) /\ Becomes(thread', thread, t, "running", thread[t].op)
      /\ Stacked(thread', stack') /\ Apart(thread')
      /\ Elements(stack') = Elements(stack) \cup {[co |-> t, skt |-> skt]}
  BY <1>1, <1>2, ResumeIs
<1>4. Standing(reading', thread', "reading") /\ Standing(writing', thread', "writing")
  <2>1. \A name, s : ~ Waits(thread, t, name, s) /\ ~ Waits(thread', t, name, s)
    BY <1>1, <1>3 DEF Waits, Becomes
  <2>2. Standing(reading, thread', "reading") /\ Standing(writing, thread', "writing")
    BY <1>3, <2>1, StandingKept DEF CopasInv
  <2> QED
    BY <1>1, <2>2 DEF sets
<1>5. Watched(thread', reading_log', writing_log', evs')
  <2>1. Watched(thread', reading_log, writing_log, evs')
    BY <1>2, <1>3, WatchedKept
  <2> QED
    BY <1>1, <2>1 DEF sets
<1>6. Asleep(thread', sleeping', slept')
  BY <1>1, <1>3, AsleepKept DEF CopasInv
<1>7. Handling(thread', stack', client', slept', socket')
  <2>1. /\ client \in [Threads -> Clients \cup {none}] /\ Clients \subseteq Sockets
        /\ Handling(thread, stack, client, slept, socket)
        /\ socket \in [Sockets -> {"unused", "open", "closed"}] /\ thread[t].op = NoOp
    BY <1>1 DEF CopasInv, Typed, Sockets, Handling
  <2>2. client'[t] = skt /\ \A u \in Threads : u # t => client'[u] = client[u]
    BY <1>1, <2>1
  <2>3. \A s \in Sockets : socket[s] = "closed" => socket'[s] = "closed"
    BY <1>1, <2>1
  <2>4. \A e \in Elements(stack) : e.co \in Threads /\ e.co # t
    <3>1. \A e \in Elements(stack) : e \in Resumes
      BY DEF CopasInv, Typed, Elements
    <3> QED
      BY <1>1, <3>1 DEF CopasInv, Stacked, Cos, Resumes
  <2>5. \A u \in Threads : u # t => thread'[u] = thread[u]
    BY <1>3 DEF Becomes
  <2>6. thread'[t].state = "running" /\ thread'[t].op = NoOp
    BY <1>3, <2>1 DEF Becomes
  <2>7. \A u \in Threads : thread'[u].state = "new" => client'[u] = none /\ thread'[u].op = NoOp
    BY <2>1, <2>2, <2>5, <2>6 DEF Handling
  <2>8. \A e \in Elements(stack') : client'[e.co] # none /\ e.co \notin slept' => e.skt = client'[e.co]
    BY <1>1, <1>3, <2>1, <2>2, <2>4 DEF Handling
  <2>9. \A u \in Threads : thread'[u].op # NoOp /\ client'[u] # none => thread'[u].op.skt = client'[u]
    BY <2>1, <2>2, <2>5, <2>6 DEF Handling
  <2>10. ASSUME NEW u \in Threads, thread'[u].state = "dead", client'[u] # none, u \notin slept'
         PROVE  socket'[client'[u]] = "closed"
    <3>1. u # t /\ thread'[u] = thread[u] /\ client'[u] = client[u]
      BY <2>2, <2>5, <2>6, <2>10
    <3>2. socket[client[u]] = "closed" /\ client[u] \in Sockets
      BY <1>1, <2>1, <2>10, <3>1 DEF Handling
    <3> QED
      BY <2>3, <3>1, <3>2
  <2> QED
    BY <2>7, <2>8, <2>9, <2>10 DEF Handling
<1>8. Typed'
  <2>1. socket' \in [Sockets -> {"unused", "open", "closed"}] /\ client' \in [Threads -> Clients \cup {none}]
    BY <1>1, <1>2 DEF CopasInv, Typed
  <2> QED
    BY <1>1, <1>2, <1>3, <2>1 DEF CopasInv, Typed, Becomes, sets
<1>9. Phased' /\ StopsWhenDone'
  BY <1>1 DEF CopasInv, Phased, StopsWhenDone
<1> QED
  BY <1>3, <1>4, <1>5, <1>6, <1>7, <1>8, <1>9 DEF CopasInv


LEMMA TickInv == ASSUME CopasInv, Tick PROVE CopasInv'
<1>1. CASE ~ Due(sleeping)
  <2>1. /\ Idle /\ phase = "tick" /\ phase' = "select" /\ evs = <<>> /\ evs \in Seq(Events)
        /\ UNCHANGED <<sleeping, sets, servers, evs, stack, thread, socket, client, slept>>
        /\ Watched(thread, reading_log, writing_log, evs)
    BY <1>1 DEF Tick, CopasInv, Phased, Typed
  <2>2. Phased' /\ StopsWhenDone'
    BY <2>1 DEF Phased, StopsWhenDone
  <2> QED
    BY <2>1, <2>2, PhaseInv
<1>2. CASE Due(sleeping)
  <2> DEFINE t == Head(sleeping.cos)
  <2>1. /\ phase = "tick" /\ phase' = "select" /\ sleeping.times # <<>>
        /\ sleeping' = pop(sleeping) /\ resume(t, none)
        /\ UNCHANGED <<sets, servers, evs, socket, client, slept>>
    BY <1>2 DEF Tick, Due
  <2>2. /\ Sound(Threads, sleeping') /\ sleeping'.lethargy = sleeping.lethargy
        /\ t \in Threads /\ t \in Elements(sleeping.cos) /\ t \notin Sleepers(sleeping')
        /\ Elements(sleeping'.cos) = Elements(sleeping.cos) \ {t}
    BY <2>1, PopIs DEF CopasInv, Typed
  <2> HIDE DEF t
  <2>3. Sleepers(sleeping') = Sleepers(sleeping) \ {t} /\ t \in Sleepers(sleeping)
    <3>1. Sleepers(sleeping') \subseteq Sleepers(sleeping) /\ t \in Sleepers(sleeping)
      BY <2>2, SleepersAre
    <3>2. Sleepers(sleeping) \subseteq Sleepers(sleeping') \cup {t}
      BY <2>2, SleepersAre
    <3> QED
      BY <2>2, <3>1, <3>2
  <2>4. thread[t].state = "suspended" /\ thread[t].op = NoOp /\ t \in slept
    BY <2>2, <2>3 DEF CopasInv, Asleep
  <2>5. /\ stack' \in Seq(Resumes) /\ Becomes(thread', thread, t, "running", thread[t].op)
        /\ Stacked(thread', stack') /\ Apart(thread')
        /\ Elements(stack') = Elements(stack) \cup {[co |-> t, skt |-> none]}
    BY <2>1, <2>2, <2>4, ResumeIs
  <2>6. Standing(reading', thread', "reading") /\ Standing(writing', thread', "writing")
        /\ Watched(thread', reading_log', writing_log', evs')
    BY <2>1, <2>2, <2>4, <2>5, AsideIs
  <2>7. Asleep(thread', sleeping', slept')
    BY <2>1, <2>2, <2>3, <2>5 DEF CopasInv, Asleep, Becomes
  <2>8. Handling(thread', stack', client', slept', socket')
    BY <2>1, <2>2, <2>4, <2>5 DEF CopasInv, Handling, Becomes
  <2>9. Typed'
    BY <2>1, <2>2, <2>5 DEF CopasInv, Typed, Becomes, sets
  <2>10. Phased' /\ StopsWhenDone'
    BY <2>1 DEF CopasInv, Phased, StopsWhenDone
  <2> QED
    BY <2>5, <2>6, <2>7, <2>8, <2>9, <2>10 DEF CopasInv
<1> QED
  BY <1>1, <1>2

\* What tick does with a newset: it changes s, of the queues of a log, and not o.
LEMMA HandledIs ==
  ASSUME CopasInv, NEW skt \in Sockets, NEW s \in NewSets, NEW o, NEW name, NEW other,
         Standing(s, thread, name), Standing(o, thread, other), name # other,
         resume(first(s, skt), skt)
  PROVE  LET s2 == popq(remove(s, skt), skt)
         IN  /\ s2 \in NewSets /\ Standing(s2, thread', name) /\ Standing(o, thread', other)
             /\ stack' \in Seq(Resumes) /\ thread' \in [Threads -> Coroutines]
             /\ Stacked(thread', stack') /\ Apart(thread')
             /\ Asleep(thread', sleeping, slept)
             /\ Handling(thread', stack', client, slept, socket)
             /\ \A t \in Threads :
                  thread'[t].state = "suspended" /\ thread'[t].op # NoOp
                    => thread'[t] = thread[t] /\ ~ Waits(thread, t, name, skt)
<1> DEFINE s2 == popq(remove(s, skt), skt)
           t == first(s, skt)
<1>1. /\ s2 \in NewSets
      /\ \/ t = none /\ Standing(s2, thread, name)
         \/ /\ t \in Threads /\ Waits(thread, t, name, skt)
            /\ \A th2 : Becomes(th2, thread, t, "running", thread[t].op) => Standing(s2, th2, name)
  BY StandingPopped
<1>2. none \notin Threads
  BY CopasAssumed DEF CopasAssumption
<1> HIDE DEF s2
<1>3. s.q[skt] = <<>> \/ \E u \in Threads : s.q[skt] = <<u>>
  BY DEF Standing
<1>4. /\ \A u \in Threads : Waits(thread, u, name, skt) => u = t
  BY <1>3, OneIs DEF Standing, first
<1> HIDE DEF t
<1>5. CASE t = none
  <2>1. stack' = stack /\ thread' = thread /\ Standing(s2, thread, name)
    BY <1>1, <1>2, <1>5 DEF resume, t
  <2>2. \A u \in Threads : ~ Waits(thread, u, name, skt)
    BY <1>2, <1>4, <1>5
  <2> QED
    BY <1>1, <2>1, <2>2 DEF CopasInv, Typed, s2
<1>6. CASE t \in Threads /\ Waits(thread, t, name, skt)
  <2>1. thread[t].state = "suspended" /\ thread[t].op # NoOp /\ thread[t].op.log = name
        /\ thread[t].op.skt = skt
    BY <1>6 DEF Waits
  <2>2. /\ stack' \in Seq(Resumes) /\ Becomes(thread', thread, t, "running", thread[t].op)
        /\ Stacked(thread', stack') /\ Apart(thread')
        /\ Elements(stack') = Elements(stack) \cup {[co |-> t, skt |-> skt]}
    BY <1>6, <2>1, ResumeIs DEF t
  <2>3. Standing(s2, thread', name)
    BY <1>1, <1>2, <1>6, <2>2
  <2>4. Standing(o, thread', other)
    <3>1. \A x : ~ Waits(thread, t, other, x) /\ ~ Waits(thread', t, other, x)
      BY <2>1, <2>2 DEF Waits, Becomes
    <3> QED
      BY <1>6, <2>2, <3>1, StandingKept
  <2>5. Asleep(thread', sleeping, slept)
    BY <1>6, <2>1, <2>2, AsleepKept DEF CopasInv
  <2>6. Handling(thread', stack', client, slept, socket)
    BY <1>6, <2>1, <2>2 DEF CopasInv, Handling, Becomes
  <2>7. \A u \in Threads :
          thread'[u].state = "suspended" /\ thread'[u].op # NoOp
            => thread'[u] = thread[u] /\ ~ Waits(thread, u, name, skt)
    BY <1>4, <2>2 DEF Becomes
  <2> QED
    BY <1>1, <2>2, <2>3, <2>4, <2>5, <2>6, <2>7 DEF Becomes, s2
<1> QED
  BY <1>1, <1>5, <1>6

LEMMA TickEventInv == ASSUME CopasInv, TickEvent PROVE CopasInv'
<1> DEFINE skt == Head(evs).skt
           read == Head(evs).kind = "read"
<1>1. /\ evs # <<>> /\ evs' = Tail(evs) /\ Handle(Head(evs)) /\ phase = "events"
      /\ UNCHANGED <<sleeping, reading_log, writing_log, servers, phase, socket, client, slept>>
  BY DEF TickEvent
<1>2. /\ evs' \in Seq(Events) /\ Head(evs) \in Events
      /\ Elements(evs) = Elements(evs') \cup {Head(evs)}
  BY <1>1, EventGone
<1>3. /\ skt \in Sockets /\ Head(evs).kind \in {"read", "write"}
      /\ Head(evs) = [kind |-> Head(evs).kind, skt |-> skt]
  BY <1>2 DEF Events
<1>4. /\ reading \in NewSets /\ writing \in NewSets
      /\ Standing(reading, thread, "reading") /\ Standing(writing, thread, "writing")
  BY DEF CopasInv, Typed
<1>5. /\ read => /\ reading' = popq(remove(reading, skt), skt) /\ writing' = writing
                 /\ resume(first(reading, skt), skt)
      /\ ~ read => /\ writing' = popq(remove(writing, skt), skt) /\ reading' = reading
                   /\ resume(first(writing, skt), skt)
  BY <1>1 DEF Handle
<1> HIDE DEF skt
<1>6. /\ reading' \in NewSets /\ writing' \in NewSets
      /\ Standing(reading', thread', "reading") /\ Standing(writing', thread', "writing")
      /\ stack' \in Seq(Resumes) /\ thread' \in [Threads -> Coroutines]
      /\ Stacked(thread', stack') /\ Apart(thread')
      /\ Asleep(thread', sleeping, slept)
      /\ Handling(thread', stack', client, slept, socket)
      /\ \A t \in Threads :
           thread'[t].state = "suspended" /\ thread'[t].op # NoOp
             => /\ thread'[t] = thread[t]
                /\ ~ Waits(thread, t, IF read THEN "reading" ELSE "writing", skt)
  <2>1. CASE read
    BY <1>3, <1>4, <1>5, <2>1, HandledIs
  <2>2. CASE ~ read
    BY <1>3, <1>4, <1>5, <2>2, HandledIs
  <2> QED
    BY <2>1, <2>2
<1>7. Watched(thread', reading_log', writing_log', evs')
  <2>1. ASSUME NEW t \in Threads, thread'[t].state = "suspended", thread'[t].op # NoOp
        PROVE  /\ thread'[t] = thread[t] /\ thread[t].op.log \in Logs
               /\ thread[t].op.log = "reading" => Head(evs) # [kind |-> "read", skt |-> thread[t].op.skt]
               /\ thread[t].op.log = "writing" => Head(evs) # [kind |-> "write", skt |-> thread[t].op.skt]
    <3>1. thread'[t] = thread[t] /\ thread[t].op \in Calls
      BY <1>6, <2>1, CallIs DEF CopasInv, Typed, Coroutines
    <3>2. ~ (thread[t].op.log = (IF read THEN "reading" ELSE "writing") /\ thread[t].op.skt = skt)
      BY <1>6, <2>1, <3>1 DEF Waits
    <3>3. thread[t].op.log \in Logs
      BY <3>1 DEF Calls
    <3>4. ASSUME thread[t].op.log = "reading", Head(evs) = [kind |-> "read", skt |-> thread[t].op.skt]
          PROVE  FALSE
      BY <3>2, <3>4 DEF skt
    <3>5. ASSUME thread[t].op.log = "writing", Head(evs) = [kind |-> "write", skt |-> thread[t].op.skt]
          PROVE  FALSE
      BY <3>2, <3>5 DEF skt
    <3> QED
      BY <3>1, <3>3, <3>4, <3>5
  <2>2. Watched(thread, reading_log, writing_log, evs)
    BY DEF CopasInv
  <2> HIDE DEF read
  <2> QED
    BY <1>1, <1>2, <2>1, <2>2 DEF Watched, Logs
<1>8. Typed'
  BY <1>1, <1>2, <1>6 DEF CopasInv, Typed
<1>9. Phased' /\ StopsWhenDone'
  BY <1>1 DEF CopasInv, Phased, StopsWhenDone
<1> QED
  BY <1>1, <1>6, <1>7, <1>8, <1>9 DEF CopasInv


(***************************************************************************)
(* Time goes on in select.                                                 *)
(***************************************************************************)
\* th2 is th after d of time.
Aged(th2, th, d) ==
  /\ th2 \in [Threads -> Coroutines]
  /\ \A t \in Threads :
       /\ th2[t].state = th[t].state
       /\ th[t].op = NoOp => th2[t].op = NoOp
       /\ th[t].op # NoOp =>
            /\ th2[t].op # NoOp /\ th2[t].op.kind = th[t].op.kind /\ th2[t].op.skt = th[t].op.skt
            /\ th2[t].op.log = th[t].op.log /\ th2[t].op.left = Minus(th[t].op.left, d)

LEMMA AgedIs ==
  ASSUME NEW th \in [Threads -> Coroutines], NEW d \in Nat
  PROVE  Aged([t \in Threads |-> [th[t] EXCEPT !.op.left = Minus(@, d)]], th, d)
<1> DEFINE th2 == [t \in Threads |-> [th[t] EXCEPT !.op.left = Minus(@, d)]]
<1>1. ASSUME NEW t \in Threads
      PROVE  /\ th2[t] \in Coroutines /\ th2[t].state = th[t].state
             /\ th[t].op = NoOp => th2[t].op = NoOp
             /\ th[t].op # NoOp =>
                  /\ th2[t].op # NoOp /\ th2[t].op.kind = th[t].op.kind /\ th2[t].op.skt = th[t].op.skt
                  /\ th2[t].op.log = th[t].op.log /\ th2[t].op.left = Minus(th[t].op.left, d)
  <2> DEFINE op == th[t].op
             o == [op EXCEPT !.left = Minus(@, d)]
  <2>1. th[t] \in Coroutines /\ op \in Ops /\ th[t].state \in States
    BY DEF Coroutines
  <2>2. th2[t] = [state |-> th[t].state, op |-> o]
    <3>1. th2[t] = [th[t] EXCEPT !.op.left = Minus(@, d)]
      OBVIOUS
    <3>2. th[t] = [state |-> th[t].state, op |-> op]
      BY <2>1 DEF Coroutines
    <3> HIDE DEF th2
    <3> QED
      BY <3>1, <3>2
  <2>3. ASSUME op = NoOp PROVE o = NoOp
    BY <2>3 DEF NoOp, Minus
  <2>4. ASSUME op \in Calls
        PROVE  /\ o \in Calls /\ o.kind = op.kind /\ o.skt = op.skt /\ o.log = op.log
               /\ o.left = Minus(op.left, d)
    <3>1. Minus(op.left, d) \in Nat
      BY <2>4 DEF Calls, Minus
    <3> QED
      BY <2>4, <3>1 DEF Calls
  <2> HIDE DEF th2, o
  <2>5. o \in Ops
    BY <2>1, <2>3, <2>4, CallIs DEF op
  <2>6. th2[t].state = th[t].state /\ th2[t].op = o /\ th2[t] \in Coroutines
    BY <2>1, <2>2, <2>5 DEF Coroutines
  <2> QED
    BY <2>1, <2>3, <2>4, <2>6, CallIs DEF op
<1>2. th2 \in [Threads -> Coroutines]
  BY <1>1
<1> HIDE DEF th2
<1>3. Aged(th2, th, d)
  BY <1>1, <1>2 DEF Aged
<1> QED
  BY <1>3 DEF th2

\* Who is where stays.
LEMMA AgedKeeps ==
  ASSUME NEW th, NEW th2, NEW d, Aged(th2, th, d), NEW st, NEW s, NEW s2, NEW sl, NEW cl, NEW so,
         NEW q, Sleepers(s2) = Sleepers(s)
  PROVE  /\ Stacked(th, st) => Stacked(th2, st)
         /\ Asleep(th, s, sl) => Asleep(th2, s2, sl)
         /\ Apart(th) => Apart(th2)
         /\ Handling(th, st, cl, sl, so) => Handling(th2, st, cl, sl, so)
         /\ \A name : Standing(q, th, name) => Standing(q, th2, name)
<1>1. Stacked(th, st) => Stacked(th2, st)
  BY DEF Stacked, Aged
<1>2. Asleep(th, s, sl) => Asleep(th2, s2, sl)
  BY DEF Asleep, Aged
<1>3. Apart(th) => Apart(th2)
  BY DEF Apart, Aged
<1>4. Handling(th, st, cl, sl, so) => Handling(th2, st, cl, sl, so)
  BY DEF Handling, Aged
<1>5. ASSUME NEW name, Standing(q, th, name) PROVE Standing(q, th2, name)
  <2>1. \A t \in Threads, skt \in Sockets : Waits(th2, t, name, skt) <=> Waits(th, t, name, skt)
    BY DEF Waits, Aged
  <2> QED
    BY <2>1, <1>5, Zenon DEF Standing
<1> QED
  BY <1>1, <1>2, <1>3, <1>4, <1>5

\* The events of a kind for sockets, as select puts them into an order.
EventsOf(kind, skts) == {[kind |-> kind, skt |-> s] : s \in skts}

LEMMA EventsIs ==
  ASSUME NEW kind \in {"read", "write"}, NEW skts \in SUBSET Sockets,
         NEW es \in SetToSeqs(EventsOf(kind, skts))
  PROVE  es \in Seq(Events) /\ Elements(es) = EventsOf(kind, skts)
<1>1. IsFiniteSet(skts)
  <2>1. IsFiniteSet(Sockets)
    BY CopasAssumed, FS_AddElement DEF CopasAssumption, Sockets
  <2> QED
    BY <2>1, FS_Subset
<1>2. IsFiniteSet(EventsOf(kind, skts))
  <2> DEFINE f == [s \in skts |-> [kind |-> kind, skt |-> s]]
             E == EventsOf(kind, skts)
  <2>1. f \in [skts -> E] /\ \A e \in E : \E s \in skts : f[s] = e
    BY DEF EventsOf
  <2> HIDE DEF f, E
  <2>2. f \in Surjection(skts, E)
    BY <2>1 DEF Surjection
  <2>3. IsFiniteSet(E)
    BY <1>1, <2>2, FS_Surjection
  <2> QED
    BY <2>3 DEF E
<1>3. es \in Seq(EventsOf(kind, skts)) /\ Elements(es) = EventsOf(kind, skts)
  BY <1>2, OrderOfSet
<1>4. EventsOf(kind, skts) \subseteq Events
  BY DEF EventsOf, Events
<1> QED
  BY <1>3, <1>4, SeqMonotonic

LEMMA ConcatElements ==
  ASSUME NEW S, NEW a \in Seq(S), NEW b \in Seq(S)
  PROVE  a \o b \in Seq(S) /\ Elements(a \o b) = Elements(a) \cup Elements(b)
<1> DEFINE m == Len(a)
           n == Len(b)
           c == a \o b
<1>1. m \in Nat /\ n \in Nat /\ DOMAIN a = 1 .. m /\ DOMAIN b = 1 .. n
  OBVIOUS
<1>2. c \in Seq(S) /\ Len(c) = m + n /\ \A i \in 1 .. m + n : c[i] = IF i <= m THEN a[i] ELSE b[i - m]
  BY ConcatProperties
<1> HIDE DEF m, n, c
<1>3. DOMAIN c = 1 .. m + n
  BY <1>1, <1>2
<1>4. ASSUME NEW x \in Elements(c) PROVE x \in Elements(a) \cup Elements(b)
  <2>1. PICK i \in 1 .. m + n : x = c[i]
    BY <1>3 DEF Elements
  <2>2. (i \in 1 .. m /\ x = a[i]) \/ (i - m \in 1 .. n /\ x = b[i - m])
    BY <1>1, <1>2, <2>1
  <2> QED
    BY <1>1, <2>2 DEF Elements
<1>5. ASSUME NEW x \in Elements(a) PROVE x \in Elements(c)
  <2>1. PICK i \in 1 .. m : x = a[i]
    BY <1>1 DEF Elements
  <2>2. i \in 1 .. m + n /\ c[i] = x
    BY <1>1, <1>2, <2>1
  <2> QED
    BY <1>3, <2>2 DEF Elements
<1>6. ASSUME NEW x \in Elements(b) PROVE x \in Elements(c)
  <2>1. PICK i \in 1 .. n : x = b[i]
    BY <1>1 DEF Elements
  <2>2. m + i \in 1 .. m + n /\ ~ (m + i <= m) /\ (m + i) - m = i
    BY <1>1
  <2>3. c[m + i] = x
    BY <1>2, <2>1, <2>2
  <2> QED
    BY <1>3, <2>2, <2>3 DEF Elements
<1> QED
  BY <1>2, <1>4, <1>5, <1>6 DEF c


\* What is left in a log after d of time and its expired timers.
Elapsed(log, d, ready) ==
  LET now == After(log, d)
  IN  [s \in Sockets |-> IF s \in expired(now, ready) THEN NoDelay ELSE now[s]]

LEMMA ElapsedIs ==
  ASSUME NEW log \in [Sockets -> Left], NEW d \in Nat, NEW ready
  PROVE  /\ Elapsed(log, d, ready) \in [Sockets -> Left]
         /\ expired(After(log, d), ready) \in SUBSET Sockets
         /\ \A s \in Sockets, left \in Nat :
              log[s] = left => \/ s \in expired(After(log, d), ready)
                               \/ Elapsed(log, d, ready)[s] = Minus(left, d)
<1> DEFINE now == After(log, d)
<1>1. \A s \in Sockets : now[s] = (IF log[s] = NoDelay THEN NoDelay ELSE Minus(log[s], d))
  BY DEF After
<1>2. \A s \in Sockets : log[s] \in Nat \cup {-1}
  BY DEF Left, NoDelay
<1>3. \A s \in Sockets : now[s] \in Left
  BY <1>1, <1>2 DEF Minus, Left, NoDelay
<1>4. \A s \in Sockets, left \in Nat : log[s] = left => now[s] = Minus(left, d)
  BY <1>1 DEF NoDelay
<1> HIDE DEF now
<1>5. expired(now, ready) \in SUBSET Sockets
  BY DEF expired
<1>6. Elapsed(log, d, ready) = [s \in Sockets |-> IF s \in expired(now, ready) THEN NoDelay ELSE now[s]]
  BY DEF Elapsed, now
<1>7. Elapsed(log, d, ready) \in [Sockets -> Left]
  BY <1>3, <1>6 DEF Left
<1>8. \A s \in Sockets : s \in expired(now, ready) \/ Elapsed(log, d, ready)[s] = now[s]
  BY <1>6
<1> QED
  BY <1>4, <1>5, <1>7, <1>8 DEF now

LEMMA SelectedInv ==
  ASSUME CopasInv, phase = "select", NEW d \in Nat,
         NEW r \in SUBSET Sockets, NEW w \in SUBSET Sockets, Selected(d, r, w)
  PROVE  CopasInv'
<1> DEFINE rexp == expired(After(reading_log, d), r)
           wexp == expired(After(writing_log, d), w)
<1>1. /\ \E rs \in SetToSeqs(EventsOf("read", r)), re \in SetToSeqs(EventsOf("read", rexp)),
            ws \in SetToSeqs(EventsOf("write", w)), we \in SetToSeqs(EventsOf("write", wexp)) :
            evs' = rs \o re \o ws \o we \/ evs' = ws \o we \o rs \o re
      /\ phase' = IF r \cup w \cup rexp \cup wexp = {} THEN "loop" ELSE "events"
      /\ reading_log' = Elapsed(reading_log, d, r) /\ writing_log' = Elapsed(writing_log, d, w)
      /\ sleeping' = Later(sleeping, d)
      /\ thread' = [t \in Threads |-> [thread[t] EXCEPT !.op.left = Minus(@, d)]]
      /\ UNCHANGED <<reading, writing, servers, stack, socket, client, slept>>
  BY Zenon DEF Selected, Elapsed, EventsOf
<1>2. /\ reading_log \in [Sockets -> Left] /\ writing_log \in [Sockets -> Left]
      /\ thread \in [Threads -> Coroutines] /\ Sound(Threads, sleeping)
  BY DEF CopasInv, Typed
<1>3. rexp \in SUBSET Sockets /\ wexp \in SUBSET Sockets
  BY <1>2, ElapsedIs
<1> HIDE DEF rexp, wexp
<1>4. /\ evs' \in Seq(Events)
      /\ Elements(evs') = EventsOf("read", r) \cup EventsOf("read", rexp)
                            \cup EventsOf("write", w) \cup EventsOf("write", wexp)
  <2>1. PICK rs \in SetToSeqs(EventsOf("read", r)), re \in SetToSeqs(EventsOf("read", rexp)),
             ws \in SetToSeqs(EventsOf("write", w)), we \in SetToSeqs(EventsOf("write", wexp)) :
          evs' = rs \o re \o ws \o we \/ evs' = ws \o we \o rs \o re
    BY <1>1
  <2>2. /\ rs \in Seq(Events) /\ Elements(rs) = EventsOf("read", r)
        /\ re \in Seq(Events) /\ Elements(re) = EventsOf("read", rexp)
        /\ ws \in Seq(Events) /\ Elements(ws) = EventsOf("write", w)
        /\ we \in Seq(Events) /\ Elements(we) = EventsOf("write", wexp)
    BY <1>3, EventsIs
  <2>3. ASSUME NEW a \in Seq(Events), NEW b \in Seq(Events), NEW c \in Seq(Events), NEW e \in Seq(Events)
        PROVE  /\ a \o b \o c \o e \in Seq(Events)
               /\ Elements(a \o b \o c \o e) = Elements(a) \cup Elements(b) \cup Elements(c) \cup Elements(e)
    <3>1. a \o b \in Seq(Events) /\ Elements(a \o b) = Elements(a) \cup Elements(b)
      BY ConcatElements
    <3> DEFINE ab == a \o b
               abc == ab \o c
    <3>2. abc \in Seq(Events) /\ Elements(abc) = Elements(ab) \cup Elements(c)
      <4>1. ab \in Seq(Events)
        BY <3>1
      <4> HIDE DEF ab
      <4> QED
        BY <4>1, ConcatElements
    <3>3. abc \o e \in Seq(Events) /\ Elements(abc \o e) = Elements(abc) \cup Elements(e)
      <4> HIDE DEF abc
      <4> QED
        BY <3>2, ConcatElements
    <3> QED
      BY <3>1, <3>2, <3>3
  <2>4. CASE evs' = rs \o re \o ws \o we
    BY <2>2, <2>3, <2>4
  <2>5. CASE evs' = ws \o we \o rs \o re
    <3>1. /\ evs' \in Seq(Events)
          /\ Elements(evs') = Elements(ws) \cup Elements(we) \cup Elements(rs) \cup Elements(re)
      BY <2>2, <2>3, <2>5
    <3> QED
      BY <2>2, <3>1
  <2> QED
    BY <2>1, <2>4, <2>5
<1>5. Phased' /\ StopsWhenDone'
  <2>1. phase' # "stopped"
    BY <1>1
  <2>2. ASSUME phase' # "events" PROVE evs' = <<>>
    <3>1. r = {} /\ w = {} /\ rexp = {} /\ wexp = {}
      BY <1>1, <2>2
    <3>2. Elements(evs') = {}
      BY <1>4, <3>1 DEF EventsOf
    <3>3. Len(evs') \in Nat /\ DOMAIN evs' = 1 .. Len(evs')
      BY <1>4
    <3>4. Len(evs') = 0
      <4>1. Len(evs') # 0 => 1 \in DOMAIN evs'
        BY <3>3
      <4> QED
        BY <3>2, <4>1 DEF Elements
    <3> QED
      BY <1>4, <3>4
  <2> QED
    BY <2>1, <2>2 DEF Phased, StopsWhenDone
<1>6. /\ Sound(Threads, sleeping') /\ sleeping'.lethargy = sleeping.lethargy
      /\ sleeping'.cos = sleeping.cos
  BY <1>1, <1>2, LaterIs
<1>7. Sleepers(sleeping') = Sleepers(sleeping)
  BY <1>6, SleepersAre
<1>8. Aged(thread', thread, d)
  BY <1>1, <1>2, AgedIs
<1>9. /\ Stacked(thread', stack') /\ Asleep(thread', sleeping', slept') /\ Apart(thread')
      /\ Handling(thread', stack', client', slept', socket')
      /\ Standing(reading', thread', "reading") /\ Standing(writing', thread', "writing")
  <2>1. /\ Stacked(thread', stack) /\ Asleep(thread', sleeping', slept) /\ Apart(thread')
        /\ Handling(thread', stack, client, slept, socket)
    BY <1>7, <1>8, AgedKeeps DEF CopasInv
  <2>2. Standing(reading, thread', "reading") /\ Standing(writing, thread', "writing")
    BY <1>7, <1>8, AgedKeeps DEF CopasInv
  <2> QED
    BY <1>1, <2>1, <2>2
<1>10. Watched(thread', reading_log', writing_log', evs')
  <2> SUFFICES ASSUME NEW t \in Threads, thread'[t].state = "suspended", thread'[t].op # NoOp
               PROVE  IF thread'[t].op.log = "reading"
                      THEN \/ reading_log'[thread'[t].op.skt] = thread'[t].op.left
                           \/ [kind |-> "read", skt |-> thread'[t].op.skt] \in Elements(evs')
                      ELSE \/ writing_log'[thread'[t].op.skt] = thread'[t].op.left
                           \/ [kind |-> "write", skt |-> thread'[t].op.skt] \in Elements(evs')
    BY DEF Watched
  <2> DEFINE op == thread[t].op
  <2>1. /\ thread[t].state = "suspended" /\ op # NoOp /\ thread'[t].op.skt = op.skt
        /\ thread'[t].op.log = op.log /\ thread'[t].op.left = Minus(op.left, d)
    BY <1>8 DEF Aged
  <2>2. op \in Calls
    BY <1>2, <2>1, CallIs DEF Coroutines
  <2>3. op.skt \in Sockets /\ op.left \in Nat
    BY <2>2 DEF Calls, Sockets
  <2>4. Elements(evs) = {}
    BY DEF CopasInv, Phased, Elements
  <2> HIDE DEF op
  <2>5. CASE op.log = "reading"
    <3>1. reading_log[op.skt] = op.left
      BY <2>1, <2>4, <2>5 DEF CopasInv, Watched, op
    <3>2. op.skt \in rexp \/ reading_log'[op.skt] = Minus(op.left, d)
      BY <1>1, <1>2, <2>3, <3>1, ElapsedIs DEF rexp
    <3>3. op.skt \in rexp => [kind |-> "read", skt |-> op.skt] \in Elements(evs')
      BY <1>4 DEF EventsOf
    <3> QED
      BY <2>1, <2>5, <3>2, <3>3
  <2>6. CASE op.log # "reading"
    <3>1. writing_log[op.skt] = op.left
      BY <2>1, <2>4, <2>6 DEF CopasInv, Watched, op
    <3>2. op.skt \in wexp \/ writing_log'[op.skt] = Minus(op.left, d)
      BY <1>1, <1>2, <2>3, <3>1, ElapsedIs DEF wexp
    <3>3. op.skt \in wexp => [kind |-> "write", skt |-> op.skt] \in Elements(evs')
      BY <1>4 DEF EventsOf
    <3> QED
      BY <2>1, <2>6, <3>2, <3>3
  <2> QED
    BY <2>5, <2>6
<1>11. Typed'
  <2>1. reading_log' \in [Sockets -> Left] /\ writing_log' \in [Sockets -> Left]
    BY <1>1, <1>2, ElapsedIs
  <2>2. phase' \in {"loop", "events"}
    BY <1>1
  <2>3. thread' \in [Threads -> Coroutines]
    BY <1>8 DEF Aged
  <2> QED
    BY <1>1, <1>4, <1>6, <2>1, <2>2, <2>3 DEF CopasInv, Typed
<1> QED
  BY <1>5, <1>9, <1>10, <1>11 DEF CopasInv

LEMMA SelectInv == ASSUME CopasInv, SelectTimeout \/ SelectReady PROVE CopasInv'
<1>1. CASE SelectTimeout
  <2>1. Timeout \in Nat
    <3>1. sleeping.times \in Seq(Nat)
      BY DEF CopasInv, Typed, Sound, Records
    <3>2. sleeping.times # <<>> => Head(sleeping.times) \in Nat
      BY <3>1, HeadTailProperties
    <3>3. getnext(sleeping) \in Nat \cup {NoDelay}
      BY <3>2 DEF getnext
    <3> QED
      BY <1>1, <3>3, CopasAssumed DEF SelectTimeout, Timeout, CopasAssumption
  <2>2. AtLeast1(Timeout) \in Nat
    BY <2>1 DEF AtLeast1
  <2> QED
    BY <1>1, <2>2, SelectedInv DEF SelectTimeout
<1>2. CASE SelectReady
  <2>1. PICK r \in SUBSET Selectable(reading), w \in SUBSET Selectable(writing) : Selected(1, r, w)
    BY <1>2 DEF SelectReady
  <2>2. r \in SUBSET Sockets /\ w \in SUBSET Sockets
    BY DEF Selectable, CopasInv, Typed, NewSets
  <2> QED
    BY <1>2, <2>1, <2>2, SelectedInv DEF SelectReady
<1> QED
  BY <1>1, <1>2

(***************************************************************************)
(* The theorems.                                                           *)
(***************************************************************************)
LEMMA CopasInvInit == Init => CopasInv
<1> SUFFICES ASSUME Init PROVE CopasInv
  OBVIOUS
<1>1. /\ sleeping = [times |-> <<>>, cos |-> <<>>, lethargy |-> {}]
      /\ reading = [set |-> {Server}, q |-> [s \in Sockets |-> <<>>]]
      /\ writing = [set |-> {}, q |-> [s \in Sockets |-> <<>>]]
      /\ reading_log = [s \in Sockets |-> NoDelay] /\ writing_log = reading_log
      /\ servers = {Server} /\ phase = "setup" /\ evs = <<>> /\ stack = <<>>
      /\ thread = [t \in Threads |-> [state |-> "new", op |-> NoOp]]
      /\ socket = [s \in Sockets |-> IF s = Server THEN "open" ELSE "unused"]
      /\ client = [t \in Threads |-> none] /\ slept = {}
  BY DEF Init, Nobody, Empty
<1>2. Elements(stack) = {} /\ Elements(evs) = {} /\ Elements(sleeping.cos) = {}
  BY <1>1 DEF Elements
<1>3. Sleepers(sleeping) = {}
  BY <1>1, <1>2, SleepersAre
<1>4. Sound(Threads, sleeping)
  <2>1. sleeping \in Records(Threads) /\ sleeping.times = <<>> /\ sleeping.cos = <<>>
    BY <1>1 DEF Records
  <2>2. Ordered(sleeping)
    BY <2>1 DEF Ordered, InOrder
  <2> QED
    BY <1>2, <2>1, <2>2, SoundIs
<1>5. \A t \in Threads : thread[t].state = "new" /\ thread[t].op = NoOp
  BY <1>1
<1>6. \A s \in Sockets : reading.q[s] = <<>> /\ writing.q[s] = <<>>
  BY <1>1
<1>7. Typed
  <2>1. reading \in NewSets /\ writing \in NewSets
    <3>1. [s \in Sockets |-> <<>>] \in [Sockets -> Seq(Threads)] /\ Server \in Sockets
      BY DEF Sockets
    <3> QED
      BY <1>1, <3>1 DEF NewSets
  <2>2. thread \in [Threads -> Coroutines]
    BY <1>1, CallIs DEF Coroutines, States
  <2>3. /\ reading_log \in [Sockets -> Left] /\ writing_log \in [Sockets -> Left]
        /\ socket \in [Sockets -> {"unused", "open", "closed"}]
        /\ client \in [Threads -> Clients \cup {none}]
    BY <1>1 DEF Left
  <2> QED
    BY <1>1, <1>4, <2>1, <2>2, <2>3 DEF Typed
<1>8. Stacked(thread, stack)
  BY <1>1, <1>2, <1>5 DEF Stacked, Distinct, Cos
<1>9. Asleep(thread, sleeping, slept)
  BY <1>3, <1>5 DEF Asleep
<1>10. Standing(reading, thread, "reading") /\ Standing(writing, thread, "writing")
  BY <1>5, <1>6, OneIs DEF Standing, Waits
<1>11. Apart(thread) /\ Watched(thread, reading_log, writing_log, evs)
  BY <1>5 DEF Apart, Watched
<1>12. Handling(thread, stack, client, slept, socket)
  BY <1>1, <1>2, <1>5 DEF Handling
<1>13. Phased /\ StopsWhenDone
  BY <1>1 DEF Phased, StopsWhenDone
<1> QED
  BY <1>7, <1>8, <1>9, <1>10, <1>11, <1>12, <1>13 DEF CopasInv

LEMMA CopasInvNext == ASSUME ~ Shared, CopasInv, [Next]_vars PROVE CopasInv'
<1>1. CASE UNCHANGED vars
  BY <1>1 DEF vars, CopasInv, Typed, Phased, StopsWhenDone
<1>2. CASE Next
  <2>1. CASE Dispatch
    BY <2>1, LoopInv, TickInv, SelectInv, RestInv, AcceptNothingInv, TickEventInv DEF Dispatch
  <2>2. CASE Leaves
    BY <2>2, SleepInv, EndsInv DEF Leaves
  <2>3. CASE Stopped
    BY <2>3, <1>1 DEF Stopped
  <2>4. CASE \E t \in Threads : Wakeup(t) \/ AddThread(t)
    BY <2>4, WakeupInv, AddThreadInv
  <2>5. CASE \E kind \in {"receive", "send", "connect"}, s \in Clients, left \in Timeouts :
               Begin(kind, s, left)
    BY <2>5, BeginInv
  <2>6. CASE \E t \in Threads, s \in Clients : Accept(t, s)
    BY <2>6, AcceptInv
  <2> QED
    BY <1>2, <2>1, <2>2, <2>3, <2>4, <2>5, <2>6, SelectInv, AttemptInv, RemoveServerInv DEF Next
<1> QED
  BY <1>1, <1>2


LEMMA InQueue ==
  ASSUME NEW s, NEW name, Standing(s, thread, name)
  PROVE  /\ \A skt \in Sockets : IsInjective(s.q[skt])
         /\ \A skt \in Sockets, t \in Threads : InSeq(s.q[skt], t) <=> Waits(thread, t, name, skt)
<1>1. ASSUME NEW skt \in Sockets
      PROVE  /\ IsInjective(s.q[skt])
             /\ \A t \in Threads : InSeq(s.q[skt], t) <=> Waits(thread, t, name, skt)
  <2>1. CASE s.q[skt] = <<>>
    <3>1. IsInjective(<<>>) /\ \A t : ~ InSeq(<<>>, t)
      BY DEF IsInjective, InSeq
    <3>2. \A t \in Threads : <<>> # <<t>>
      BY OneIs
    <3> QED
      BY <2>1, <3>1, <3>2 DEF Standing
  <2>2. ASSUME NEW u \in Threads, s.q[skt] = <<u>>
        PROVE  /\ IsInjective(s.q[skt])
               /\ \A t \in Threads : InSeq(s.q[skt], t) <=> Waits(thread, t, name, skt)
    <3>1. \A t \in Threads : <<u>> = <<t>> <=> Waits(thread, t, name, skt)
      BY <2>2 DEF Standing
    <3> QED
      <4>1. IsInjective(<<u>>) /\ \A t \in Threads : InSeq(<<u>>, t) <=> <<u>> = <<t>>
        BY OneIs
      <4> QED
        BY <2>2, <3>1, <4>1
  <2> QED
    BY <2>1, <2>2 DEF Standing
<1> QED
  BY <1>1

LEMMA InvNobodyLost == CopasInv => NobodyLost
<1> SUFFICES ASSUME CopasInv PROVE NobodyLost
  OBVIOUS
<1>1. /\ Standing(reading, thread, "reading") /\ Standing(writing, thread, "writing")
      /\ Asleep(thread, sleeping, slept) /\ Stacked(thread, stack) /\ Typed
  BY DEF CopasInv
<1>2. TypeOK
  <2>1. Sleepers(sleeping) \subseteq Threads /\ WellFormed(sleeping)
    <3>1. sleeping.cos \in Seq(Threads) /\ sleeping.lethargy \subseteq Threads /\ WellFormed(sleeping)
      BY <1>1 DEF Typed, Sound, Records
    <3>2. Elements(sleeping.cos) \subseteq Threads
      BY <3>1 DEF Elements
    <3> QED
      BY <3>1, <3>2, SleepersAre
  <2>2. \A t \in Threads : t \in Cos(stack) <=> \E i \in DOMAIN stack : stack[i].co = t
    BY DEF Cos, Elements
  <2>3. \A t \in Threads : thread[t].state = "running" <=> \E i \in DOMAIN stack : stack[i].co = t
    BY <1>1, <2>2 DEF Stacked
  <2>4. \A s \in {reading, writing} : s.set \subseteq Sockets /\ s.q \in [Sockets -> Seq(Threads)]
    BY <1>1 DEF Typed, NewSets
  <2> QED
    BY <1>1, <2>1, <2>3, <2>4 DEF TypeOK, Typed
<1>3. OnePlace
  <2>1. \A skt \in Sockets : IsInjective(reading.q[skt]) /\ IsInjective(writing.q[skt])
    BY <1>1, InQueue
  <2>2. ASSUME NEW t \in Threads
        PROVE  IF thread[t].state = "suspended" THEN \E p \in Places(t) : Places(t) = {p}
               ELSE Places(t) = {}
    <3> DEFINE op == thread[t].op
               here == <<op.log, op.skt>>
    <3>1. /\ Queues(reading, "reading", t)
                = {<<"reading", skt>> : skt \in {skt \in Sockets : Waits(thread, t, "reading", skt)}}
          /\ Queues(writing, "writing", t)
                = {<<"writing", skt>> : skt \in {skt \in Sockets : Waits(thread, t, "writing", skt)}}
      BY <1>1, InQueue DEF Queues
    <3>2. t \in Sleepers(sleeping) <=> thread[t].state = "suspended" /\ thread[t].op = NoOp
      BY <1>1 DEF Asleep
    <3>3. CASE thread[t].state # "suspended"
      <4>1. Queues(reading, "reading", t) = {} /\ Queues(writing, "writing", t) = {}
        BY <3>1, <3>3 DEF Waits
      <4> QED
        BY <3>2, <3>3, <4>1 DEF Places, Sleeping
    <3>4. CASE thread[t].state = "suspended" /\ thread[t].op = NoOp
      <4>1. Queues(reading, "reading", t) = {} /\ Queues(writing, "writing", t) = {}
        BY <3>1, <3>4 DEF Waits
      <4>2. Places(t) = {<<"sleeping", none>>}
        BY <3>2, <3>4, <4>1 DEF Places, Sleeping
      <4> QED
        BY <3>4, <4>2
    <3>5. CASE thread[t].state = "suspended" /\ thread[t].op # NoOp
      <4>1. op \in Calls
        BY <1>1, <3>5, CallIs DEF Typed, Coroutines
      <4>2. op.skt \in Sockets /\ op.log \in Logs
        BY <4>1 DEF Calls, Sockets
      <4>3. CASE op.log = "reading"
        <5>1. /\ \A skt \in Sockets : Waits(thread, t, "reading", skt) <=> skt = op.skt
              /\ \A skt \in Sockets : ~ Waits(thread, t, "writing", skt)
          BY <3>5, <4>3 DEF Waits
        <5>2. /\ {skt \in Sockets : Waits(thread, t, "reading", skt)} = {op.skt}
              /\ {skt \in Sockets : Waits(thread, t, "writing", skt)} = {}
          BY <4>2, <5>1
        <5>3. Queues(reading, "reading", t) = {here} /\ Queues(writing, "writing", t) = {}
          BY <3>1, <4>3, <5>2
        <5>4. Places(t) = {here}
          BY <3>2, <3>5, <5>3 DEF Places, Sleeping
        <5> QED
          BY <3>5, <5>4
      <4>4. CASE op.log = "writing"
        <5>1. /\ \A skt \in Sockets : Waits(thread, t, "writing", skt) <=> skt = op.skt
              /\ \A skt \in Sockets : ~ Waits(thread, t, "reading", skt)
          BY <3>5, <4>4 DEF Waits
        <5>2. /\ {skt \in Sockets : Waits(thread, t, "writing", skt)} = {op.skt}
              /\ {skt \in Sockets : Waits(thread, t, "reading", skt)} = {}
          BY <4>2, <5>1
        <5>3. Queues(writing, "writing", t) = {here} /\ Queues(reading, "reading", t) = {}
          BY <3>1, <4>4, <5>2
        <5>4. Places(t) = {here}
          BY <3>2, <3>5, <5>3 DEF Places, Sleeping
        <5> QED
          BY <3>5, <5>4
      <4> QED
        BY <4>2, <4>3, <4>4 DEF Logs
    <3> QED
      BY <3>3, <3>4, <3>5
  <2> QED
    BY <2>1, <2>2 DEF OnePlace
<1>4. QueueInSet
  BY <1>1 DEF QueueInSet, Standing
<1>5. StopsWhenDone
  BY DEF CopasInv
<1> QED
  BY <1>2, <1>3, <1>4, <1>5 DEF NobodyLost

LEMMA InvTimerWatched == CopasInv => TimerWatched
<1> SUFFICES ASSUME CopasInv, NEW t \in Threads, thread[t].state = "suspended", thread[t].op # NoOp
             PROVE  \/ (IF thread[t].op.log = "reading" THEN reading_log ELSE writing_log)[thread[t].op.skt]
                         = thread[t].op.left
                    \/ Pending(thread[t].op)
  BY DEF TimerWatched
<1> DEFINE op == thread[t].op
<1>1. ASSUME NEW kind \in {"read", "write"}, [kind |-> kind, skt |-> op.skt] \in Elements(evs)
      PROVE  \E i \in DOMAIN evs : evs[i].skt = op.skt /\ evs[i].kind = kind
  <2>1. PICK i \in DOMAIN evs : [kind |-> kind, skt |-> op.skt] = evs[i]
    BY <1>1 DEF Elements
  <2> QED
    BY <2>1
<1>2. IF op.log = "reading"
      THEN reading_log[op.skt] = op.left \/ [kind |-> "read", skt |-> op.skt] \in Elements(evs)
      ELSE writing_log[op.skt] = op.left \/ [kind |-> "write", skt |-> op.skt] \in Elements(evs)
  BY DEF CopasInv, Watched
<1> HIDE DEF op
<1>3. \/ (IF op.log = "reading" THEN reading_log ELSE writing_log)[op.skt] = op.left
      \/ Pending(op)
  BY <1>1, <1>2 DEF Pending
<1> QED
  BY <1>3 DEF op

LEMMA InvClosedAtEnd == CopasInv => ClosedAtEnd
BY DEF CopasInv, Handling, ClosedAtEnd

\* The invariant of any behaviour whose threads share no socket.
LEMMA CopasInvAlways == ASSUME ~ Shared PROVE Spec => []CopasInv
<1>1. CopasInv /\ [Next]_vars => CopasInv'
  BY CopasInvNext
<1> QED
  BY <1>1, CopasInvInit, PTL DEF Spec

(***************************************************************************)
(* No thread is lost: one that waits stands in one queue, alone, or sleeps *)
(* in the list, select looks at every socket it may stand at, and the loop *)
(* ends only when nobody is left but who sleeps for ever.                  *)
(***************************************************************************)
THEOREM CopasNobodyLost == ASSUME ~ Shared PROVE Spec => []NobodyLost
BY CopasInvAlways, InvNobodyLost, PTL

(***************************************************************************)
(* The timer of every thread that waits for a socket is watched, or its    *)
(* event is on the way.                                                    *)
(***************************************************************************)
THEOREM CopasTimerWatched == ASSUME ~ Shared PROVE Spec => []TimerWatched
BY CopasInvAlways, InvTimerWatched, PTL

(***************************************************************************)
(* A handler that has never slept leaves its client closed.                *)
(***************************************************************************)
THEOREM CopasClosedAtEnd == ASSUME ~ Shared PROVE Spec => []ClosedAtEnd
BY CopasInvAlways, InvClosedAtEnd, PTL
==============================================================================
