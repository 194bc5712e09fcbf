---------------------------- MODULE SnetProtocol ----------------------------
(***************************************************************************)
(* What the two ends of SNET (moonloader/lib/SNET) share: datagrams, the   *)
(* queue of packets that wait for a confirmation, the window of the ids    *)
(* received last, and the network between the ends.                        *)
(*                                                                         *)
(* Payloads are not modelled: a datagram carries its 9-byte header, and in *)
(* `body' the id a confirmation names.                                     *)
(***************************************************************************)
EXTENDS Integers, FiniteSets, Sequences, Functions

CONSTANTS
  Clients,        \* the clients, one per <<address, port>>
  Server,         \* the server
  ClientPriorities, ServerPriorities,
                  \* the priorities the two applications pass to send()
  HighTries,      \* resends of a HIGH packet before it is dropped (20)
  MediumTries,    \* ... of a MEDIUM packet (10)
  LowTries,       \* ... of a LOW packet (5)
  Window,         \* how many received ids an end remembers (10)
  IdSpace,        \* ids run from 0 to IdSpace - 1 (4294967295)
  MaxId,          \* BOUND: the ids an end may take are below MaxId
  History,        \* BOUND: how many ids the delivery histories keep
  MaxRestarts,    \* BOUND: how often the server program is restarted
  Duplication     \* may the network deliver a datagram more than once?

SNET_SYSTEM_PRIORITY == 4
SNET_HIGH_PRIORITY   == 3
SNET_MEDIUM_PRIORITY == 2
SNET_LOW_PRIORITY    == 1
SNET_BYPASS_PRIORITY == 0

ASSUME ClientsAssumption == Server \notin Clients
ASSUME TriesAssumption ==
  {HighTries, MediumTries, LowTries} \subseteq Nat \ {0}
ASSUME IdAssumption == IdSpace \in Nat \ {0} /\ MaxId \in Nat
ASSUME WindowAssumption == Window \in Nat \ {0} /\ History \in Nat \ {0}
ASSUME EnvironmentAssumption ==
  /\ ClientPriorities \cup ServerPriorities
       \subseteq SNET_BYPASS_PRIORITY..SNET_SYSTEM_PRIORITY
  /\ MaxRestarts \in Nat
  /\ Duplication \in BOOLEAN

Endpoints == Clients \cup {Server}
Ids == 0..(IdSpace - 1)
Lives == 0..MaxRestarts
PacketIds == {"data", "confirm", "block"}

\* Datagrams go from a client to the server or back.  `life' counts the
\* restarts of the sending program; it is not on the wire.
Datagram ==
  {d \in [from : Endpoints, to : Endpoints, id : Ids, life : Lives,
          pid : PacketIds, prio : 0..4, body : Ids] :
     d.from = Server <=> d.to \in Clients}
Message  == [from : Endpoints, to : Endpoints, id : Ids, life : Lives]
Packet   == [data : Datagram, times : Nat, due : BOOLEAN]

Msg(d) == [from |-> d.from, to |-> d.to, id |-> d.id, life |-> d.life]

-----------------------------------------------------------------------------
VARIABLES
  net,      \* the datagrams in flight
  handled,  \* history: the messages given to onReceivePacket handlers
  acked     \* history: the messages a confirmation removed from a queue

(***************************************************************************)
(* Ids and the window of received ids.                                     *)
(***************************************************************************)
\* Mutant: the wrap-around is forgotten.
NextIdWithoutWrap(id) == id + 1

NextId(id) == IF id + 1 >= IdSpace THEN 0 ELSE id + 1

MaySend(id) == id < MaxId

\* No id is used twice: the bound on sends is below the wrap-around.
NoWrap == MaxId < IdSpace

\* Append x, dropping the oldest element of a sequence that is full.
Pushed(s, x, capacity) ==
  Append(IF Len(s) >= capacity THEN Tail(s) ELSE s, x)

\* Mutant: the window is one id too short.
RememberOneLess(last, id) ==
  Append(IF Len(last) + 1 >= Window /\ last # <<>> THEN Tail(last) ELSE last, id)

Remember(last, id) == Pushed(last, id, Window)

Logged(log, id) == Pushed(log, id, History)

(***************************************************************************)
(* The queue of unconfirmed packets.  `due' says that the clock has moved  *)
(* since the packet was last sent; `times' counts its resends, and stays 0 *)
(* for SYSTEM packets, whose count the code never reads.                   *)
(***************************************************************************)
NewPacket(d) == [data |-> d, times |-> 0, due |-> FALSE]

\* BOUND: an id still in the queue is not taken again; in the code that takes
\* IdSpace sends while the packet is queued.
FreeId(queue, id) == \A p \in queue : p.data.id # id

Enqueued(queue, d) ==
  IF d.prio > SNET_BYPASS_PRIORITY THEN queue \cup {NewPacket(d)} ELSE queue

\* Mutant: confirmations are taken as cumulative.
ConfirmedUpTo(queue, id) == {p \in queue : p.data.id > id}

Confirmed(queue, id) == {p \in queue : p.data.id # id}

AllDue(queue) == {[p EXCEPT !.due = TRUE] : p \in queue}

Due(queue) == {p \in queue : p.due}

\* Mutant: resends are not counted.
ResentUncounted(p) == [data |-> p.data, times |-> p.times, due |-> FALSE]

Resent(p) ==
  [data  |-> p.data,
   times |-> IF p.data.prio = SNET_SYSTEM_PRIORITY THEN 0 ELSE p.times + 1,
   due   |-> FALSE]

\* Is packet p, just resent, dropped?  live: the peers believed to be there.
GivenUp(p, live) ==
  \/ p.data.prio = SNET_SYSTEM_PRIORITY /\ p.data.to \notin live
  \/ p.data.prio = SNET_HIGH_PRIORITY   /\ p.times >= HighTries
  \/ p.data.prio = SNET_MEDIUM_PRIORITY /\ p.times >= MediumTries
  \/ p.data.prio = SNET_LOW_PRIORITY    /\ p.times >= LowTries

AfterResend(queue, live) ==
  (queue \ Due(queue)) \cup
  {p \in {Resent(q) : q \in Due(queue)} : ~ GivenUp(p, live)}

Retransmissions(queue) == {p.data : p \in Due(queue)}

(***************************************************************************)
(* Receiving.  A datagram of priority above BYPASS is confirmed, whether   *)
(* it was seen before or not; the confirmation takes the next id.  An end  *)
(* that has used up its MaxId ids still receives: what it would send with  *)
(* a new id then counts as lost.                                           *)
(***************************************************************************)
\* Mutant: the confirmation is addressed to the end that sends it.
RepliesToItself(d, id, life) ==
  IF d.prio > SNET_BYPASS_PRIORITY /\ MaySend(id)
  THEN {[from |-> d.to, to |-> d.to, id |-> id, life |-> life,
         pid |-> "confirm", prio |-> SNET_BYPASS_PRIORITY, body |-> d.id]}
  ELSE {}

Replies(d, id, life) ==
  IF d.prio > SNET_BYPASS_PRIORITY /\ MaySend(id)
  THEN {[from |-> d.to, to |-> d.from, id |-> id, life |-> life,
         pid |-> "confirm", prio |-> SNET_BYPASS_PRIORITY, body |-> d.id]}
  ELSE {}

\* The next id once the datagrams `out' were given the present one.
IdAfter(out, id) == IF out = {} THEN id ELSE NextId(id)

\* The queue after the handlers have run on datagram d.
AfterConfirm(queue, d) ==
  IF d.pid = "confirm" THEN Confirmed(queue, d.body) ELSE queue

(***************************************************************************)
(* The network.  If it duplicates, a datagram stays there once sent, to be *)
(* received any number of times or never, so loss needs no step of its own.*)
(***************************************************************************)
\* The network once d was received
Without(d) == IF Duplication THEN net ELSE net \ {d}

Lose(d) ==
  /\ d \in net
  /\ net' = Without(d)
  /\ UNCHANGED <<handled, acked>>

ProtocolInit ==
  /\ net = {}
  /\ handled = {}
  /\ acked = {}
=============================================================================
