----------------------------- MODULE SnetProofs -----------------------------
(***************************************************************************)
(* Theorems about Snet, for every value of its constants that satisfies    *)
(* the assumptions of SnetProtocol and SnetServer.                         *)
(***************************************************************************)
EXTENDS Snet, TLAPS

(***************************************************************************)
(* Lemmas about the operators of SnetProtocol.                             *)
(***************************************************************************)
LEMMA NextIdType == ASSUME NEW id \in Ids PROVE NextId(id) \in Ids
BY IdAssumption DEF NextId, Ids

LEMMA PushedType ==
  ASSUME NEW S, NEW s \in Seq(S), NEW x \in S, NEW k \in Nat \ {0}
  PROVE  Pushed(s, x, k) \in Seq(S)
<1>1. CASE Len(s) >= k
  <2>1. s # <<>>
    BY <1>1
  <2>2. Tail(s) \in Seq(S)
    BY <2>1
  <2> QED
    BY <1>1, <2>2 DEF Pushed
<1>2. CASE ~ (Len(s) >= k)
  BY <1>2 DEF Pushed
<1> QED
  BY <1>1, <1>2

LEMMA ResentType == ASSUME NEW p \in Packet PROVE Resent(p) \in Packet
BY DEF Resent, Packet

LEMMA QueueType ==
  ASSUME NEW Q, Q \subseteq Packet, NEW live
  PROVE  /\ AfterResend(Q, live) \subseteq Packet
         /\ Retransmissions(Q) \subseteq Datagram
         /\ AllDue(Q) \subseteq Packet
<1>1. AfterResend(Q, live) \subseteq Packet
  BY ResentType DEF AfterResend, Due
<1>2. Retransmissions(Q) \subseteq Datagram
  BY DEF Retransmissions, Due, Packet
<1>3. AllDue(Q) \subseteq Packet
  BY DEF AllDue, Packet
<1> QED
  BY <1>1, <1>2, <1>3

LEMMA EnqueuedType ==
  ASSUME NEW Q, Q \subseteq Packet, NEW d \in Datagram
  PROVE  Enqueued(Q, d) \subseteq Packet
<1>1. NewPacket(d) \in Packet
  BY DEF NewPacket, Packet
<1> QED
  BY <1>1 DEF Enqueued

LEMMA AfterConfirmSubset ==
  ASSUME NEW Q, NEW d PROVE AfterConfirm(Q, d) \subseteq Q
BY DEF AfterConfirm, Confirmed

LEMMA RepliesType ==
  ASSUME NEW d \in Datagram, NEW id \in Ids, NEW life \in Lives
  PROVE  Replies(d, id, life) \subseteq Datagram
BY ClientsAssumption
   DEF Replies, Datagram, Endpoints, PacketIds, SNET_BYPASS_PRIORITY

LEMMA IdAfterType ==
  ASSUME NEW out, NEW id \in Ids PROVE IdAfter(out, id) \in Ids
BY NextIdType DEF IdAfter

LEMMA MsgType == ASSUME NEW d \in Datagram PROVE Msg(d) \in Message
BY DEF Msg, Datagram, Message

LEMMA WithoutSubset == ASSUME NEW d PROVE Without(d) \subseteq net
BY DEF Without

LEMMA ZeroTypes == 0 \in Ids /\ 0 \in Lives
BY IdAssumption, EnvironmentAssumption DEF Ids, Lives

-----------------------------------------------------------------------------
(***************************************************************************)
(* Type correctness, one lemma per action.                                 *)
(***************************************************************************)
LEMMA TypeInit == Init => TypeOK
BY ZeroTypes, TimeoutAssumption
   DEF Init, ProtocolInit, ClientInit, ServerInit, TypeOK, ClientTypeOK,
       ServerTypeOK

LEMMA TypeClientSend ==
  ASSUME TypeOK, NEW c \in Clients, NEW prio \in ClientPriorities,
         ClientSend(c, prio), UNCHANGED serverVars
  PROVE  TypeOK'
<1> DEFINE d == [from |-> c, to |-> Server, id |-> cUid[c], life |-> 0,
                 pid |-> "data", prio |-> prio, body |-> 0]
<1>1. d \in Datagram
  <2>1. prio \in 0..4
    BY EnvironmentAssumption DEF SNET_BYPASS_PRIORITY, SNET_SYSTEM_PRIORITY
  <2> QED
    BY <2>1, ZeroTypes, ClientsAssumption
       DEF Datagram, Endpoints, PacketIds, TypeOK, ClientTypeOK
<1>2. net' \subseteq Datagram
  BY <1>1 DEF ClientSend, TypeOK
<1>3. cUid' \in [Clients -> Ids]
  BY NextIdType DEF ClientSend, TypeOK, ClientTypeOK
<1>4. cPackets' \in [Clients -> SUBSET Packet]
  <2>1. Enqueued(cPackets[c], d) \subseteq Packet
    BY <1>1, EnqueuedType DEF TypeOK, ClientTypeOK
  <2> QED
    BY <2>1 DEF ClientSend, TypeOK, ClientTypeOK
<1> QED
  BY <1>2, <1>3, <1>4
     DEF ClientSend, serverVars, TypeOK, ClientTypeOK, ServerTypeOK

LEMMA TypeClientPoll ==
  ASSUME TypeOK, NEW c \in Clients, ClientPoll(c), UNCHANGED serverVars
  PROVE  TypeOK'
<1>1. cPackets[c] \subseteq Packet
  BY DEF TypeOK, ClientTypeOK
<1>2. net' \subseteq Datagram
  BY <1>1, QueueType DEF ClientPoll, ClientResend, TypeOK
<1>3. cPackets' \in [Clients -> SUBSET Packet]
  BY <1>1, QueueType DEF ClientPoll, ClientResend, TypeOK, ClientTypeOK
<1> QED
  BY <1>2, <1>3 DEF ClientPoll, serverVars, TypeOK, ClientTypeOK, ServerTypeOK

LEMMA TypeClientReceives ==
  ASSUME TypeOK, NEW c \in Clients, NEW d, ClientReceives(c, d)
  PROVE  /\ d \in Datagram
         /\ ClientReplies(c, d) \subseteq Datagram
         /\ cUid' \in [Clients -> Ids]
         /\ running' \subseteq Clients
<1>1. d \in Datagram /\ cUid[c] \in Ids
  BY DEF ClientReceives, TypeOK, ClientTypeOK
<1>2. ClientReplies(c, d) \subseteq Datagram
  BY <1>1, ZeroTypes, RepliesType DEF ClientReplies
<1>3. IdAfter(ClientReplies(c, d), cUid[c]) \in Ids
  BY <1>1, IdAfterType
<1> QED
  BY <1>1, <1>2, <1>3 DEF ClientReceives, TypeOK, ClientTypeOK

LEMMA TypeClientDuplicate ==
  ASSUME TypeOK, NEW c \in Clients, NEW d, ClientDuplicate(c, d),
         UNCHANGED serverVars
  PROVE  TypeOK'
<1>1. /\ d \in Datagram
      /\ ClientReplies(c, d) \subseteq Datagram
      /\ cUid' \in [Clients -> Ids]
      /\ running' \subseteq Clients
  BY TypeClientReceives DEF ClientDuplicate
<1>2. cPackets[c] \subseteq Packet
  BY DEF TypeOK, ClientTypeOK
<1>3. net' \subseteq Datagram
  BY <1>1, <1>2, QueueType, WithoutSubset
     DEF ClientDuplicate, ClientResend, TypeOK
<1>4. cPackets' \in [Clients -> SUBSET Packet]
  BY <1>2, QueueType DEF ClientDuplicate, ClientResend, TypeOK, ClientTypeOK
<1> QED
  BY <1>1, <1>3, <1>4
     DEF ClientDuplicate, serverVars, TypeOK, ClientTypeOK, ServerTypeOK

LEMMA TypeClientFresh ==
  ASSUME TypeOK, NEW c \in Clients, NEW d, ClientFresh(c, d),
         UNCHANGED serverVars
  PROVE  TypeOK'
<1> DEFINE queue == AfterConfirm(cPackets[c], d)
<1>1. /\ d \in Datagram
      /\ ClientReplies(c, d) \subseteq Datagram
      /\ cUid' \in [Clients -> Ids]
      /\ running' \subseteq Clients
  BY TypeClientReceives DEF ClientFresh
<1>2. cPackets[c] \subseteq Packet /\ queue \subseteq Packet
  BY AfterConfirmSubset DEF TypeOK, ClientTypeOK
<1>3. net' \subseteq Datagram
  BY <1>1, <1>2, QueueType, WithoutSubset
     DEF ClientFresh, ClientResend, TypeOK
<1>4. cPackets' \in [Clients -> SUBSET Packet]
  BY <1>2, QueueType DEF ClientFresh, ClientResend, TypeOK, ClientTypeOK
<1>5. /\ cLast' \in [Clients -> Seq(Ids)]
      /\ cLog' \in [Clients -> Seq(Ids)]
  <2>1. d.id \in Ids
    BY <1>1 DEF Datagram
  <2>2. /\ Remember(cLast[c], d.id) \in Seq(Ids)
        /\ Logged(cLog[c], d.id) \in Seq(Ids)
    BY <2>1, PushedType, WindowAssumption
       DEF Remember, Logged, TypeOK, ClientTypeOK
  <2> QED
    BY <2>2 DEF ClientFresh, TypeOK, ClientTypeOK
<1>6. handled' \subseteq Message /\ acked' \subseteq Message
  <2>1. \A p \in cPackets[c] : Msg(p.data) \in Message
    BY <1>2, MsgType DEF Packet
  <2> QED
    BY <1>1, <2>1, MsgType DEF ClientFresh, TypeOK
<1>7. cConnected' \in [Clients -> BOOLEAN]
  BY DEF ClientFresh, TypeOK, ClientTypeOK
<1> QED
  BY <1>1, <1>3, <1>4, <1>5, <1>6, <1>7
     DEF serverVars, TypeOK, ClientTypeOK, ServerTypeOK

LEMMA TypeClientTick ==
  ASSUME TypeOK, NEW c \in Clients, ClientTick(c), UNCHANGED serverVars
  PROVE  TypeOK'
<1>1. AllDue(cPackets[c]) \subseteq Packet
  BY QueueType DEF TypeOK, ClientTypeOK
<1> QED
  BY <1>1 DEF ClientTick, serverVars, TypeOK, ClientTypeOK, ServerTypeOK

LEMMA TypeClientStop ==
  ASSUME TypeOK, NEW c \in Clients, ClientStop(c), UNCHANGED serverVars
  PROVE  TypeOK'
BY DEF ClientStop, serverVars, TypeOK, ClientTypeOK, ServerTypeOK

LEMMA TypeClientStep ==
  ASSUME TypeOK, NEW c \in Clients, ClientStep(c), UNCHANGED serverVars
  PROVE  TypeOK'
BY TypeClientSend, TypeClientPoll, TypeClientDuplicate, TypeClientFresh,
   TypeClientTick, TypeClientStop
   DEF ClientStep, ClientProcess

LEMMA TypeServerSend ==
  ASSUME TypeOK, NEW c \in Clients, NEW prio \in ServerPriorities,
         ServerSend(c, prio), UNCHANGED clientVars
  PROVE  TypeOK'
<1> DEFINE d == [from |-> Server, to |-> c, id |-> sUid, life |-> sLife,
                 pid |-> "data", prio |-> prio, body |-> 0]
<1>1. d \in Datagram
  <2>1. prio \in 0..4
    BY EnvironmentAssumption DEF SNET_BYPASS_PRIORITY, SNET_SYSTEM_PRIORITY
  <2> QED
    BY <2>1, ZeroTypes DEF Datagram, Endpoints, PacketIds, TypeOK, ServerTypeOK
<1>2. net' \subseteq Datagram
  BY <1>1 DEF ServerSend, TypeOK
<1>3. sUid' \in Ids
  BY NextIdType DEF ServerSend, TypeOK, ServerTypeOK
<1>4. sPackets' \subseteq Packet
  BY <1>1, EnqueuedType DEF ServerSend, TypeOK, ServerTypeOK
<1> QED
  BY <1>2, <1>3, <1>4
     DEF ServerSend, clientVars, TypeOK, ClientTypeOK, ServerTypeOK

LEMMA TypeBlock ==
  ASSUME TypeOK, NEW a \in Blockable, BlockAddress(a) \/ UnblockAddress(a),
         UNCHANGED clientVars
  PROVE  TypeOK'
<1>1. CASE BlockAddress(a)
  BY <1>1 DEF BlockAddress, clientVars, TypeOK, ClientTypeOK, ServerTypeOK
<1>2. CASE UnblockAddress(a)
  BY <1>2, TimeoutAssumption
     DEF UnblockAddress, clientVars, TypeOK, ClientTypeOK, ServerTypeOK
<1> QED
  BY <1>1, <1>2

\* The variables housekeeping sets keep their types if its arguments have them.
HousekeepingTypeOK ==
  /\ net \subseteq Datagram
  /\ sLife \in Lives
  /\ sClients \subseteq Clients
  /\ sAge \in [Clients -> 0..Timeout]
  /\ sLast \in [Clients -> Seq(Ids)]
  /\ sPackets \subseteq Packet
  /\ sBlack \subseteq Blockable
  /\ sSession \in [Clients -> {"none", "connected", "timeout"}]
  /\ sLog \in [Clients -> Seq(Ids)]

LEMMA TypeHousekeeping ==
  ASSUME TypeOK, NEW known, NEW age, NEW last, NEW told, NEW log, NEW queue,
         NEW sending,
         known \subseteq Clients,
         age \in [Clients -> 0..Timeout],
         last \in [Clients -> Seq(Ids)],
         told \in [Clients -> {"none", "connected", "timeout"}],
         log \in [Clients -> Seq(Ids)],
         queue \subseteq Packet,
         sending \subseteq Datagram,
         ServerHousekeeping(known, age, last, told, log, queue, sending)
  PROVE  HousekeepingTypeOK'
<1>1. net' \subseteq Datagram /\ sPackets' \subseteq Packet
  BY QueueType DEF ServerHousekeeping
<1>2. sAge' \in [Clients -> 0..Timeout]
  BY TimeoutAssumption DEF ServerHousekeeping, Cleared
<1>3. /\ sLast' \in [Clients -> Seq(Ids)]
      /\ sLog' \in [Clients -> Seq(Ids)]
  <2>1. << >> \in Seq(Ids)
    OBVIOUS
  <2> QED
    BY <2>1 DEF ServerHousekeeping, Cleared
<1>4. sSession' \in [Clients -> {"none", "connected", "timeout"}]
  BY DEF ServerHousekeeping, Cleared
<1> QED
  BY <1>1, <1>2, <1>3, <1>4
     DEF ServerHousekeeping, HousekeepingTypeOK, TypeOK, ServerTypeOK

LEMMA TypeFromHousekeeping ==
  ASSUME TypeOK, UNCHANGED clientVars, HousekeepingTypeOK',
         sUid' \in Ids, sQuiet' \in [Blockable -> 0..BlockQuiet],
         handled' \subseteq Message, acked' \subseteq Message
  PROVE  TypeOK'
BY DEF HousekeepingTypeOK, clientVars, TypeOK, ClientTypeOK, ServerTypeOK

LEMMA TypeServerPoll ==
  ASSUME TypeOK, ServerPoll, UNCHANGED clientVars
  PROVE  TypeOK'
<1>1. HousekeepingTypeOK'
  BY TypeHousekeeping DEF ServerPoll, TypeOK, ServerTypeOK
<1> QED
  BY <1>1, TypeFromHousekeeping DEF ServerPoll, TypeOK, ServerTypeOK

LEMMA TypeServerRefuse ==
  ASSUME TypeOK, NEW d \in net, ServerRefuse(d), UNCHANGED clientVars
  PROVE  TypeOK'
<1>1. d \in Datagram /\ d.from \in Clients
  BY DEF Datagram, Endpoints, ServerRefuse, TypeOK
<1>2. BlockNotices(d) \subseteq Datagram
  BY <1>1, ZeroTypes
     DEF BlockNotices, Datagram, Endpoints, PacketIds, SNET_BYPASS_PRIORITY,
         TypeOK, ServerTypeOK
<1>3. HousekeepingTypeOK'
  <2>1. Without(d) \cup BlockNotices(d) \subseteq Datagram
    BY <1>2, WithoutSubset DEF TypeOK
  <2>2. ServerHousekeeping(sClients, sAge, sLast, sSession, sLog, sPackets,
                           Without(d) \cup BlockNotices(d))
    BY DEF ServerRefuse
  <2> QED
    BY <2>1, <2>2, TypeHousekeeping DEF TypeOK, ServerTypeOK
<1>4. sUid' \in Ids
  BY IdAfterType DEF ServerRefuse, TypeOK, ServerTypeOK
<1>5. sQuiet' \in [Blockable -> 0..BlockQuiet]
  BY TimeoutAssumption DEF ServerRefuse, TypeOK, ServerTypeOK
<1> QED
  BY <1>3, <1>4, <1>5, TypeFromHousekeeping
     DEF ServerRefuse, TypeOK, ServerTypeOK

LEMMA TypeServerReceives ==
  ASSUME TypeOK, NEW d, ServerReceives(d)
  PROVE  /\ d \in Datagram
         /\ d.from \in Clients
         /\ ServerReplies(d) \subseteq Datagram
         /\ sUid' \in Ids
         /\ sQuiet' \in [Blockable -> 0..BlockQuiet]
<1>1. d \in Datagram /\ d.to = Server
  BY DEF ServerReceives, TypeOK
<1>2. d.from \in Clients
  BY <1>1, ClientsAssumption DEF Datagram, Endpoints
<1>3. ServerReplies(d) \subseteq Datagram
  BY <1>1, RepliesType DEF ServerReplies, TypeOK, ServerTypeOK
<1>4. sUid' \in Ids
  BY IdAfterType DEF ServerReceives, TypeOK, ServerTypeOK
<1> QED
  BY <1>1, <1>2, <1>3, <1>4 DEF ServerReceives, TypeOK, ServerTypeOK

LEMMA TypeServerDuplicate ==
  ASSUME TypeOK, NEW d \in net, ServerDuplicate(d), UNCHANGED clientVars
  PROVE  TypeOK'
<1>1. /\ ServerReplies(d) \subseteq Datagram
      /\ sUid' \in Ids
      /\ sQuiet' \in [Blockable -> 0..BlockQuiet]
  BY TypeServerReceives DEF ServerDuplicate
<1>2. HousekeepingTypeOK'
  <2>1. Without(d) \cup ServerReplies(d) \subseteq Datagram
    BY <1>1, WithoutSubset DEF TypeOK
  <2>2. ServerHousekeeping(sClients, sAge, sLast, sSession, sLog, sPackets,
                           Without(d) \cup ServerReplies(d))
    BY DEF ServerDuplicate
  <2> QED
    BY <2>1, <2>2, TypeHousekeeping DEF TypeOK, ServerTypeOK
<1> QED
  BY <1>1, <1>2, TypeFromHousekeeping DEF ServerDuplicate, TypeOK, ServerTypeOK

LEMMA TypeServerFresh ==
  ASSUME TypeOK, NEW d \in net, ServerFresh(d), UNCHANGED clientVars
  PROVE  TypeOK'
<1> DEFINE c == d.from
           queue == AfterConfirm(sPackets, d)
           age == [sAge EXCEPT ![c] = 0]
           last == [sLast EXCEPT ![c] = Remember(@, d.id)]
           told == [sSession EXCEPT ![c] = "connected"]
           log == [sLog EXCEPT ![c] = Logged(@, d.id)]
           sending == Without(d) \cup ServerReplies(d)
<1>1. /\ d \in Datagram
      /\ c \in Clients
      /\ ServerReplies(d) \subseteq Datagram
      /\ sUid' \in Ids
      /\ sQuiet' \in [Blockable -> 0..BlockQuiet]
  BY TypeServerReceives DEF ServerFresh
<1>2. queue \subseteq Packet
  BY AfterConfirmSubset DEF TypeOK, ServerTypeOK
<1>3. age \in [Clients -> 0..Timeout]
  <2>1. 0 \in 0..Timeout /\ sAge \in [Clients -> 0..Timeout]
    BY TimeoutAssumption DEF TypeOK, ServerTypeOK
  <2> QED
    BY <1>1, <2>1
<1>4. last \in [Clients -> Seq(Ids)] /\ log \in [Clients -> Seq(Ids)]
  <2>1. d.id \in Ids
    BY <1>1 DEF Datagram
  <2>2. /\ Remember(sLast[c], d.id) \in Seq(Ids)
        /\ Logged(sLog[c], d.id) \in Seq(Ids)
    BY <1>1, <2>1, PushedType, WindowAssumption
       DEF Remember, Logged, TypeOK, ServerTypeOK
  <2> QED
    BY <2>2 DEF TypeOK, ServerTypeOK
<1>5. told \in [Clients -> {"none", "connected", "timeout"}]
  BY DEF TypeOK, ServerTypeOK
<1>6. sending \subseteq Datagram /\ sClients \cup {c} \subseteq Clients
  BY <1>1, WithoutSubset DEF TypeOK, ServerTypeOK
<1>7. ServerHousekeeping(sClients \cup {c}, age, last, told, log, queue, sending)
  BY DEF ServerFresh
<1>8. HousekeepingTypeOK'
  <2> HIDE DEF c, queue, age, last, told, log, sending
  <2> QED
    BY <1>2, <1>3, <1>4, <1>5, <1>6, <1>7, TypeHousekeeping
<1>9. handled' \subseteq Message /\ acked' \subseteq Message
  <2>1. \A p \in sPackets : Msg(p.data) \in Message
    BY MsgType DEF Packet, TypeOK, ServerTypeOK
  <2> QED
    BY <1>1, <2>1, MsgType DEF ServerFresh, TypeOK
<1> QED
  BY <1>1, <1>8, <1>9, TypeFromHousekeeping

LEMMA TypeServerTick ==
  ASSUME TypeOK, ServerTick, UNCHANGED clientVars
  PROVE  TypeOK'
<1>1. sPackets' \subseteq Packet
  BY QueueType DEF ServerTick, TypeOK, ServerTypeOK
<1>2. sAge' \in [Clients -> 0..Timeout]
  BY TimeoutAssumption DEF ServerTick, TypeOK, ServerTypeOK
<1>3. sQuiet' \in [Blockable -> 0..BlockQuiet]
  BY TimeoutAssumption DEF ServerTick, TypeOK, ServerTypeOK
<1> QED
  BY <1>1, <1>2, <1>3
     DEF ServerTick, clientVars, TypeOK, ClientTypeOK, ServerTypeOK

LEMMA TypeServerRestart ==
  ASSUME TypeOK, ServerRestart, UNCHANGED clientVars
  PROVE  TypeOK'
BY ZeroTypes, TimeoutAssumption, EnvironmentAssumption
   DEF ServerRestart, Lives, clientVars, TypeOK, ClientTypeOK, ServerTypeOK

LEMMA TypeServerStep ==
  ASSUME TypeOK, ServerStep, UNCHANGED clientVars
  PROVE  TypeOK'
BY TypeServerSend, TypeBlock, TypeServerPoll, TypeServerRefuse,
   TypeServerDuplicate, TypeServerFresh, TypeServerTick, TypeServerRestart
   DEF ServerStep, ServerProcess

LEMMA TypeNext == ASSUME TypeOK, [Next]_vars PROVE TypeOK'
<1>1. ASSUME NEW d \in net, Lose(d), UNCHANGED <<clientVars, serverVars>>
      PROVE  TypeOK'
  BY <1>1, WithoutSubset
     DEF Lose, clientVars, serverVars, TypeOK, ClientTypeOK, ServerTypeOK
<1>2. ASSUME UNCHANGED vars PROVE TypeOK'
  BY <1>2 DEF vars, clientVars, serverVars, TypeOK, ClientTypeOK, ServerTypeOK
<1> QED
  BY <1>1, <1>2, TypeClientStep, TypeServerStep DEF Next

\* SNET's state stays well typed: what each end keeps, what is in flight and
\* the histories (client.lua, server.lua: the fields of the objects).
THEOREM SnetTypeCorrect == Spec => []TypeOK
BY TypeInit, TypeNext, PTL DEF Spec

-----------------------------------------------------------------------------
(***************************************************************************)
(* The server's tables of clients agree, and the duplicate check holds up  *)
(* to the length of the window.                                            *)
(***************************************************************************)

(***************************************************************************)
(* A window beside the log of the ids given to the handlers.               *)
(***************************************************************************)
\* t is s with x pushed on: its elements, counted from the end.
Shifted(t, s, x, capacity) ==
  /\ t \in Seq(Ids)
  /\ Len(t) = IF Len(s) >= capacity THEN Len(s) ELSE Len(s) + 1
  /\ t[Len(t)] = x
  /\ \A k \in 1..(Len(t) - 1) :
       /\ Len(s) - (k - 1) \in 1..Len(s)
       /\ t[Len(t) - k] = s[Len(s) - (k - 1)]

LEMMA PushedElements ==
  ASSUME NEW s \in Seq(Ids), NEW x \in Ids, NEW capacity \in Nat \ {0}
  PROVE  Shifted(Pushed(s, x, capacity), s, x, capacity)
<1> DEFINE t == Pushed(s, x, capacity)
<1> SUFFICES Shifted(t, s, x, capacity)
  OBVIOUS
<1>1. CASE Len(s) >= capacity
  <2>1. s # <<>> /\ t = Append(Tail(s), x)
    BY <1>1 DEF Pushed
  <2>2. Tail(s) \in Seq(Ids) /\ Len(Tail(s)) = Len(s) - 1
    BY <2>1
  <2>3. \A i \in 1..(Len(s) - 1) : Tail(s)[i] = s[i + 1]
    BY <2>1
  <2> HIDE DEF t
  <2>4. Len(t) = Len(s) /\ t[Len(t)] = x
    BY <2>1, <2>2
  <2>5. \A i \in 1..(Len(s) - 1) : t[i] = Tail(s)[i]
    BY <2>1, <2>2
  <2>6. ASSUME NEW k \in 1..(Len(t) - 1)
        PROVE  /\ Len(s) - (k - 1) \in 1..Len(s)
               /\ t[Len(t) - k] = s[Len(s) - (k - 1)]
    <3>1. Len(s) - k \in 1..(Len(s) - 1)
      BY <2>4
    <3>2. t[Len(s) - k] = s[Len(s) - k + 1]
      BY <2>3, <2>5, <3>1
    <3> QED
      BY <2>4, <3>1, <3>2
  <2>7. t \in Seq(Ids)
    BY <2>1, <2>2
  <2> QED
    BY <1>1, <2>4, <2>6, <2>7 DEF Shifted
<1>2. CASE ~ (Len(s) >= capacity)
  <2>1. t = Append(s, x)
    BY <1>2 DEF Pushed
  <2> HIDE DEF t
  <2> QED
    BY <1>2, <2>1 DEF Shifted
<1> QED
  BY <1>1, <1>2

\* The window holds the youngest entries of the log, as many as it can.
Covers(last, log) ==
  \A i \in DOMAIN log :
    Len(log) - i < Window =>
      /\ Len(log) - i < Len(last)
      /\ last[Len(last) - (Len(log) - i)] = log[i]

\* The invariant: entries that the window no longer covers are far away.
Watched(last, log) == Covers(last, log) /\ Apart(log)

LEMMA WatchedEmpty == Watched(<<>>, <<>>)
BY DEF Watched, Covers, Apart

LEMMA WatchedPushed ==
  ASSUME NEW last \in Seq(Ids), NEW log \in Seq(Ids), NEW id \in Ids,
         Watched(last, log), id \notin Range(last)
  PROVE  Watched(Remember(last, id), Logged(log, id))
<1> DEFINE w == Remember(last, id)
           g == Logged(log, id)
<1>1. Shifted(w, last, id, Window) /\ Shifted(g, log, id, History)
  BY PushedElements, WindowAssumption DEF Remember, Logged
<1> HIDE DEF w, g
<1>2. /\ g \in Seq(Ids)
      /\ g[Len(g)] = id
      /\ \A k \in 1..(Len(g) - 1) :
           /\ Len(log) - (k - 1) \in 1..Len(log)
           /\ g[Len(g) - k] = log[Len(log) - (k - 1)]
  BY <1>1 DEF Shifted
<1>3. Window \in Nat \ {0}
  BY WindowAssumption
\* an entry of g but the last one was in the log, one place nearer to the end
<1>4. ASSUME NEW i \in DOMAIN g, i # Len(g)
      PROVE  /\ Len(log) - (Len(g) - i - 1) \in DOMAIN log
             /\ g[i] = log[Len(log) - (Len(g) - i - 1)]
  <2> DEFINE k == Len(g) - i
  <2>1. k \in 1..(Len(g) - 1) /\ i = Len(g) - k
    BY <1>2, <1>4
  <2> HIDE DEF k
  <2>2. /\ Len(log) - (k - 1) \in 1..Len(log)
        /\ g[Len(g) - k] = log[Len(log) - (k - 1)]
    BY <1>2, <2>1
  <2> QED
    BY <2>1, <2>2 DEF k
\* ... and in the window if it was near enough
<1>5. ASSUME NEW i \in DOMAIN g, i # Len(g), Len(g) - i <= Window
      PROVE  /\ Len(g) - i - 1 < Len(last)
             /\ last[Len(last) - (Len(g) - i - 1)] = g[i]
  <2> DEFINE k == Len(g) - i - 1
             j == Len(log) - k
  <2>1. j \in DOMAIN log /\ g[i] = log[j]
    BY <1>4, <1>5
  <2>2. k \in Nat /\ k < Window /\ Len(log) - j = k
    BY <1>2, <1>3, <1>5
  <2> HIDE DEF k, j
  <2>3. k < Len(last) /\ last[Len(last) - k] = log[j]
    BY <2>1, <2>2 DEF Watched, Covers
  <2> QED
    BY <2>1, <2>3 DEF k
<1>6. Covers(w, g)
  <2>1. SUFFICES ASSUME NEW i \in DOMAIN g, Len(g) - i < Window
                 PROVE  /\ Len(g) - i < Len(w)
                        /\ w[Len(w) - (Len(g) - i)] = g[i]
    BY DEF Covers
  <2>2. CASE i = Len(g)
    BY <1>1, <1>2, <1>3, <2>2 DEF Shifted
  <2>3. CASE i # Len(g)
    <3> DEFINE k == Len(g) - i
    <3>1. k \in Nat \ {0} /\ k < Window
      BY <1>2, <2>1, <2>3
    <3>2. k - 1 < Len(last) /\ last[Len(last) - (k - 1)] = g[i]
      BY <1>3, <1>5, <2>1, <2>3
    <3> HIDE DEF k
    <3>3. k \in 1..(Len(w) - 1)
      BY <1>1, <1>3, <3>1, <3>2 DEF Shifted
    <3>4. w[Len(w) - k] = g[i] /\ k < Len(w)
      BY <1>1, <3>1, <3>2, <3>3 DEF Shifted
    <3> QED
      BY <3>4 DEF k
  <2> QED
    BY <2>2, <2>3
<1>7. Apart(g)
  <2>1. SUFFICES ASSUME NEW i \in DOMAIN g, NEW j \in DOMAIN g,
                        i < j, g[i] = g[j]
                 PROVE  j - i > Window
    BY DEF Apart
  <2>2. i # Len(g)
    BY <1>2, <2>1
  <2>3. CASE j = Len(g)
    <3>1. SUFFICES ASSUME Len(g) - i <= Window PROVE FALSE
      BY <1>2, <1>3, <2>3
    <3> DEFINE k == Len(g) - i - 1
    <3>2. k \in Nat /\ k < Len(last) /\ last[Len(last) - k] = id
      BY <1>2, <1>5, <2>1, <2>2, <2>3, <3>1
    <3>3. Len(last) - k \in DOMAIN last
      BY <3>2
    <3> QED
      BY <3>2, <3>3 DEF Range
  <2>4. CASE j # Len(g)
    <3> DEFINE m == Len(log) - (Len(g) - i - 1)
               n == Len(log) - (Len(g) - j - 1)
    <3>1. m \in DOMAIN log /\ g[i] = log[m]
      BY <1>4, <2>2
    <3>2. n \in DOMAIN log /\ g[j] = log[n]
      BY <1>4, <2>4
    <3>3. m < n /\ n - m = j - i
      BY <1>2, <2>1
    <3>4. log[m] = log[n]
      BY <2>1, <3>1, <3>2
    <3> HIDE DEF m, n
    <3>5. n - m > Window
      BY <3>1, <3>2, <3>3, <3>4 DEF Watched, Apart
    <3> QED
      BY <3>3, <3>5
  <2> QED
    BY <2>3, <2>4
<1> QED
  BY <1>6, <1>7 DEF Watched, w, g

-----------------------------------------------------------------------------
(***************************************************************************)
(* Every step keeps both kinds of windows.  Only a fresh datagram changes  *)
(* them, and the end of process() may clear the server's.                  *)
(***************************************************************************)
ClientsWatched == \A c \in Clients : Watched(cLast[c], cLog[c])
ServerWatched  == \A c \in Clients : Watched(sLast[c], sLog[c])

LEMMA ClientFreshWatched ==
  ASSUME TypeOK, ClientsWatched, NEW c \in Clients, NEW d \in net,
         ClientFresh(c, d)
  PROVE  ClientsWatched'
<1>1. d.id \in Ids
  BY DEF TypeOK, Datagram
<1>2. Watched(Remember(cLast[c], d.id), Logged(cLog[c], d.id))
  <2>1. cLast[c] \in Seq(Ids) /\ cLog[c] \in Seq(Ids)
    BY DEF TypeOK, ClientTypeOK
  <2>2. Watched(cLast[c], cLog[c]) /\ d.id \notin Range(cLast[c])
    BY DEF ClientsWatched, ClientFresh
  <2> QED
    BY <1>1, <2>1, <2>2, WatchedPushed
<1>3. /\ cLast' = [cLast EXCEPT ![c] = Remember(cLast[c], d.id)]
      /\ cLog' = [cLog EXCEPT ![c] = Logged(cLog[c], d.id)]
  BY DEF ClientFresh
<1> QED
  BY <1>2, <1>3 DEF ClientsWatched, TypeOK, ClientTypeOK

LEMMA ClientStepWatched ==
  ASSUME TypeOK, ClientsWatched, NEW c \in Clients, ClientStep(c)
  PROVE  ClientsWatched'
<1>1. ASSUME NEW d \in net, ClientFresh(c, d) PROVE ClientsWatched'
  BY <1>1, ClientFreshWatched
<1>2. ASSUME UNCHANGED <<cLast, cLog>> PROVE ClientsWatched'
  BY <1>2 DEF ClientsWatched
<1> QED
  BY <1>1, <1>2
     DEF ClientStep, ClientSend, ClientProcess, ClientPoll, ClientDuplicate,
         ClientTick, ClientStop

LEMMA HousekeepingWatched ==
  ASSUME NEW known, NEW age, NEW last, NEW told, NEW log, NEW queue,
         NEW sending,
         \A c \in Clients : Watched(last[c], log[c]),
         ServerHousekeeping(known, age, last, told, log, queue, sending)
  PROVE  ServerWatched'
BY WatchedEmpty DEF ServerHousekeeping, Cleared, ServerWatched

LEMMA ServerFreshWatched ==
  ASSUME TypeOK, ServerWatched, NEW d \in net, ServerFresh(d)
  PROVE  ServerWatched'
<1> DEFINE c == d.from
           last == [sLast EXCEPT ![c] = Remember(sLast[c], d.id)]
           log == [sLog EXCEPT ![c] = Logged(sLog[c], d.id)]
<1>1. c \in Clients /\ d.id \in Ids
  BY TypeServerReceives DEF ServerFresh, TypeOK, Datagram
<1>2. Watched(Remember(sLast[c], d.id), Logged(sLog[c], d.id))
  <2>1. sLast[c] \in Seq(Ids) /\ sLog[c] \in Seq(Ids)
    BY <1>1 DEF TypeOK, ServerTypeOK
  <2>2. Watched(sLast[c], sLog[c]) /\ d.id \notin Range(sLast[c])
    BY <1>1 DEF ServerWatched, ServerFresh
  <2> QED
    BY <1>1, <2>1, <2>2, WatchedPushed
<1>3. \A e \in Clients : Watched(last[e], log[e])
  BY <1>1, <1>2 DEF ServerWatched, TypeOK, ServerTypeOK
<1>4. PICK known, age, told, queue, sending :
        ServerHousekeeping(known, age, last, told, log, queue, sending)
  BY DEF ServerFresh
<1> HIDE DEF last, log
<1> QED
  BY <1>3, <1>4, HousekeepingWatched

LEMMA ServerStepWatched ==
  ASSUME TypeOK, ServerWatched, ServerStep
  PROVE  ServerWatched'
<1>1. ASSUME NEW d \in net, ServerFresh(d) PROVE ServerWatched'
  BY <1>1, ServerFreshWatched
<1>2. ASSUME UNCHANGED <<sLast, sLog>> PROVE ServerWatched'
  BY <1>2 DEF ServerWatched
<1>3. ASSUME NEW known, NEW age, NEW told, NEW queue, NEW sending,
             ServerHousekeeping(known, age, sLast, told, sLog, queue, sending)
      PROVE  ServerWatched'
  BY <1>3, HousekeepingWatched DEF ServerWatched
<1>4. CASE ServerPoll
  BY <1>3, <1>4 DEF ServerPoll
<1>5. ASSUME NEW d, ServerRefuse(d) PROVE ServerWatched'
  BY <1>3, <1>5 DEF ServerRefuse
<1>6. ASSUME NEW d, ServerDuplicate(d) PROVE ServerWatched'
  BY <1>3, <1>6 DEF ServerDuplicate
<1>7. CASE ServerRestart
  BY <1>7, WatchedEmpty DEF ServerRestart, ServerWatched
<1> QED
  BY <1>1, <1>2, <1>4, <1>5, <1>6, <1>7
     DEF ServerStep, ServerSend, BlockAddress, UnblockAddress, ServerProcess,
         ServerTick

LEMMA WatchedInit == Init => ClientsWatched /\ ServerWatched
BY WatchedEmpty
   DEF Init, ClientInit, ServerInit, ClientsWatched, ServerWatched

LEMMA WatchedNext ==
  ASSUME TypeOK, ClientsWatched, ServerWatched, [Next]_vars
  PROVE  ClientsWatched' /\ ServerWatched'
<1>1. ASSUME UNCHANGED clientVars PROVE ClientsWatched'
  BY <1>1 DEF clientVars, ClientsWatched
<1>2. ASSUME UNCHANGED serverVars PROVE ServerWatched'
  BY <1>2 DEF serverVars, ServerWatched
<1> QED
  BY <1>1, <1>2, ClientStepWatched, ServerStepWatched DEF Next, vars

LEMMA WatchedApart == ClientsWatched /\ ServerWatched => NoNearDuplicate
BY DEF ClientsWatched, ServerWatched, Watched, NoNearDuplicate

\* Whatever is lost, duplicated or resent, no handler is given an id twice
\* within Window + 1 deliveries of a session (client.lua:42, server.lua:100).
THEOREM SnetNoNearDuplicate == Spec => []NoNearDuplicate
BY SnetTypeCorrect, WatchedInit, WatchedNext, WatchedApart, PTL DEF Spec

-----------------------------------------------------------------------------
(***************************************************************************)
(* The server's tables.  Agree states SessionsAgree of the tables that the *)
(* end of process() is about to work on.                                   *)
(***************************************************************************)
Agree(known, told, last) ==
  \A c \in Clients :
    /\ c \in known <=> told[c] = "connected"
    /\ c \in known <=> last[c] # <<>>

LEMMA HousekeepingAgrees ==
  ASSUME NEW known, NEW age, NEW last, NEW told, NEW log, NEW queue,
         NEW sending,
         Agree(known, told, last),
         ServerHousekeeping(known, age, last, told, log, queue, sending)
  PROVE  SessionsAgree'
BY DEF ServerHousekeeping, Cleared, Gone, Agree, SessionsAgree

LEMMA ServerFreshAgrees ==
  ASSUME TypeOK, SessionsAgree, NEW d \in net, ServerFresh(d)
  PROVE  SessionsAgree'
<1> DEFINE c == d.from
           known == sClients \cup {c}
           told == [sSession EXCEPT ![c] = "connected"]
           last == [sLast EXCEPT ![c] = Remember(sLast[c], d.id)]
<1>1. c \in Clients
  BY TypeServerReceives DEF ServerFresh
<1>2. Remember(sLast[c], d.id) # <<>>
  <2>1. sLast[c] \in Seq(Ids) /\ d.id \in Ids
    BY <1>1 DEF TypeOK, ServerTypeOK, Datagram
  <2> DEFINE w == Remember(sLast[c], d.id)
  <2>2. Shifted(w, sLast[c], d.id, Window)
    BY <2>1, PushedElements, WindowAssumption DEF Remember
  <2> HIDE DEF w
  <2>3. Len(w) # 0
    BY <2>1, <2>2, WindowAssumption DEF Shifted
  <2>4. w # <<>>
    BY <2>3
  <2> QED
    BY <2>4 DEF w
<1>3. Agree(known, told, last)
  BY <1>1, <1>2 DEF Agree, SessionsAgree, TypeOK, ServerTypeOK
<1>4. PICK age, log, queue, sending :
        ServerHousekeeping(known, age, last, told, log, queue, sending)
  BY DEF ServerFresh
<1> HIDE DEF known, told, last
<1> QED
  BY <1>3, <1>4, HousekeepingAgrees

LEMMA ServerStepAgrees ==
  ASSUME TypeOK, SessionsAgree, ServerStep
  PROVE  SessionsAgree'
<1>1. ASSUME NEW d \in net, ServerFresh(d) PROVE SessionsAgree'
  BY <1>1, ServerFreshAgrees
<1>2. ASSUME UNCHANGED <<sClients, sSession, sLast>> PROVE SessionsAgree'
  BY <1>2 DEF SessionsAgree
<1>3. ASSUME NEW age, NEW log, NEW queue, NEW sending,
             ServerHousekeeping(sClients, age, sLast, sSession, log, queue,
                                sending)
      PROVE  SessionsAgree'
  BY <1>3, HousekeepingAgrees DEF Agree, SessionsAgree
<1>4. CASE ServerPoll
  BY <1>3, <1>4 DEF ServerPoll
<1>5. ASSUME NEW d, ServerRefuse(d) PROVE SessionsAgree'
  BY <1>3, <1>5 DEF ServerRefuse
<1>6. ASSUME NEW d, ServerDuplicate(d) PROVE SessionsAgree'
  BY <1>3, <1>6 DEF ServerDuplicate
<1>7. CASE ServerRestart
  BY <1>7 DEF ServerRestart, SessionsAgree
<1> QED
  BY <1>1, <1>2, <1>4, <1>5, <1>6, <1>7
     DEF ServerStep, ServerSend, BlockAddress, UnblockAddress, ServerProcess,
         ServerTick

LEMMA AgreesNext == ASSUME TypeOK, SessionsAgree, [Next]_vars PROVE SessionsAgree'
<1>1. ASSUME UNCHANGED serverVars PROVE SessionsAgree'
  BY <1>1 DEF serverVars, SessionsAgree
<1> QED
  BY <1>1, ServerStepAgrees DEF Next, vars

LEMMA AgreesInit == Init => SessionsAgree
BY DEF Init, ServerInit, SessionsAgree

\* A client is known to the server exactly if it was last reported connected,
\* and exactly then a window is kept for it (server.lua:96, 109, 195).
THEOREM SnetSessionsAgree == Spec => []SessionsAgree
BY SnetTypeCorrect, AgreesInit, AgreesNext, PTL DEF Spec

-----------------------------------------------------------------------------
(***************************************************************************)
(* A confirmation removes only packets that the other end has handled.     *)
(* The invariants speak of every copy of a datagram that is left: in       *)
(* flight, or in a queue from where it may be sent again.                  *)
(***************************************************************************)

DataOf(queue) == {p.data : p \in queue}

Sent ==
  net \cup DataOf(sPackets) \cup UNION {DataOf(cPackets[c]) : c \in Clients}

\* The messages an end has sent and that have left a trace.
Known == handled \cup {Msg(d) : d \in Sent}

ClientMsg(c, id) == [from |-> c, to |-> Server, id |-> id, life |-> 0]
ServerMsg(c, id) == [from |-> Server, to |-> c, id |-> id, life |-> 0]

\* Queues hold what their owner sends.
OwnQueues ==
  /\ \A c \in Clients : \A d \in DataOf(cPackets[c]) : d.from = c
  /\ \A d \in DataOf(sPackets) : d.from = Server

\* What a window remembers or a confirmation names was handled, and so was
\* what clients took for confirmed.
ClientAcksInv ==
  /\ \A m \in Known : m.from \in Clients => m.life = 0
  /\ \A c \in Clients : \A id \in Range(sLast[c]) : ClientMsg(c, id) \in handled
  /\ \A d \in Sent : d.pid = "confirm" /\ d.to \in Clients =>
                       ClientMsg(d.to, d.body) \in handled
  /\ \A m \in acked : m.from \in Clients => m \in handled

\* The same for the first run of the server.  Its queue is searched by id
\* alone whichever client confirms, so its ids must name one message each.
ServerAcksInv ==
  /\ \A m \in Known : m.from = Server => m.life = 0 /\ m.id < sUid
  /\ \A m, n \in Known : m.from = Server /\ n.from = Server /\ m.id = n.id
                           => m = n
  /\ \A c \in Clients : \A id \in Range(cLast[c]) : ServerMsg(c, id) \in handled
  /\ \A d \in Sent : d.pid = "confirm" /\ d.to = Server =>
                       ServerMsg(d.from, d.body) \in handled
  /\ \A m \in acked : m.from = Server => m \in handled

FirstServerAcksInv == NoWrap /\ sLife = 0 => ServerAcksInv

LEMMA AcksFromInvariants ==
  ClientAcksInv /\ FirstServerAcksInv => ClientAcksSound /\ ServerAcksSound
BY DEF ClientAcksInv, FirstServerAcksInv, ServerAcksInv, ClientAcksSound,
       ServerAcksSound

-----------------------------------------------------------------------------
(***************************************************************************)
(* What a step may add to Sent.                                            *)
(***************************************************************************)
LEMMA QueueData ==
  ASSUME NEW queue, NEW live, NEW d
  PROVE  /\ DataOf(AfterResend(queue, live)) \subseteq DataOf(queue)
         /\ Retransmissions(queue) \subseteq DataOf(queue)
         /\ DataOf(AllDue(queue)) \subseteq DataOf(queue)
         /\ DataOf(AfterConfirm(queue, d)) \subseteq DataOf(queue)
         /\ DataOf(Enqueued(queue, d)) \subseteq DataOf(queue) \cup {d}
<1>1. \A p : Resent(p).data = p.data
  BY DEF Resent
<1>2. DataOf(AfterResend(queue, live)) \subseteq DataOf(queue)
  BY <1>1 DEF AfterResend, Due, DataOf
<1>3. Retransmissions(queue) \subseteq DataOf(queue)
  BY DEF Retransmissions, Due, DataOf
<1>4. DataOf(AllDue(queue)) \subseteq DataOf(queue)
  <2>1. \A p \in queue : [p EXCEPT !.due = TRUE].data = p.data
    OBVIOUS
  <2> QED
    BY <2>1 DEF AllDue, DataOf
<1>5. DataOf(AfterConfirm(queue, d)) \subseteq DataOf(queue)
  BY AfterConfirmSubset DEF DataOf
<1>6. DataOf(Enqueued(queue, d)) \subseteq DataOf(queue) \cup {d}
  BY DEF Enqueued, NewPacket, DataOf
<1> QED
  BY <1>2, <1>3, <1>4, <1>5, <1>6

\* Besides `new', client c sends and keeps nothing but what it had.
ClientAdds(c, new) ==
  /\ net' \subseteq net \cup DataOf(cPackets[c]) \cup new
  /\ \E queue : /\ cPackets' = [cPackets EXCEPT ![c] = queue]
                /\ DataOf(queue) \subseteq DataOf(cPackets[c]) \cup new
  /\ UNCHANGED serverVars

ServerAdds(new) ==
  /\ net' \subseteq net \cup DataOf(sPackets) \cup new
  /\ DataOf(sPackets') \subseteq DataOf(sPackets) \cup new
  /\ UNCHANGED clientVars

LEMMA ClientAddsSent ==
  ASSUME TypeOK, NEW c \in Clients, NEW new, ClientAdds(c, new)
  PROVE  Sent' \subseteq Sent \cup new
<1>1. \A e \in Clients : DataOf(cPackets'[e]) \subseteq DataOf(cPackets[e]) \cup new
  BY DEF ClientAdds, TypeOK, ClientTypeOK
<1>2. sPackets' = sPackets
  BY DEF ClientAdds, serverVars
<1> QED
  BY <1>1, <1>2 DEF ClientAdds, Sent

LEMMA ServerAddsSent ==
  ASSUME NEW new, ServerAdds(new) PROVE Sent' \subseteq Sent \cup new
BY DEF ServerAdds, Sent, clientVars

\* The datagram ClientSend and ServerSend make.
ClientData(c, prio) ==
  [from |-> c, to |-> Server, id |-> cUid[c], life |-> 0,
   pid |-> "data", prio |-> prio, body |-> 0]
ServerData(c, prio) ==
  [from |-> Server, to |-> c, id |-> sUid, life |-> sLife,
   pid |-> "data", prio |-> prio, body |-> 0]

LEMMA ClientResendAdds ==
  ASSUME NEW c \in Clients, NEW queue, NEW live, NEW sending, NEW new,
         ClientResend(c, queue, live, sending),
         DataOf(queue) \subseteq DataOf(cPackets[c]),
         sending \subseteq net \cup new,
         UNCHANGED serverVars
  PROVE  ClientAdds(c, new)
<1> DEFINE after == AfterResend(queue, live)
<1>1. DataOf(after) \subseteq DataOf(cPackets[c])
  BY QueueData
<1>2. Retransmissions(queue) \subseteq DataOf(cPackets[c])
  BY QueueData
<1>3. cPackets' = [cPackets EXCEPT ![c] = after]
  BY DEF ClientResend
<1>4. net' = sending \cup Retransmissions(queue)
  BY DEF ClientResend
<1> HIDE DEF after
<1> QED
  BY <1>1, <1>2, <1>3, <1>4 DEF ClientAdds

LEMMA ClientStepAdds ==
  ASSUME TypeOK, NEW c \in Clients, ClientStep(c), UNCHANGED serverVars
  PROVE  \/ \E d \in net : /\ ClientDuplicate(c, d) \/ ClientFresh(c, d)
                           /\ ClientAdds(c, ClientReplies(c, d))
         \/ \E prio \in ClientPriorities :
              ClientSend(c, prio) /\ ClientAdds(c, {ClientData(c, prio)})
         \/ ClientAdds(c, {}) /\ UNCHANGED <<cUid, cLast, handled, acked>>
<1>1. ASSUME NEW prio, ClientSend(c, prio)
      PROVE  ClientAdds(c, {ClientData(c, prio)})
  <2> DEFINE d == ClientData(c, prio)
             queue == Enqueued(cPackets[c], d)
  <2>1. /\ cPackets' = [cPackets EXCEPT ![c] = queue]
        /\ net' = net \cup {d}
    BY <1>1 DEF ClientSend, ClientData
  <2>2. DataOf(queue) \subseteq DataOf(cPackets[c]) \cup {d}
    BY QueueData
  <2> HIDE DEF d, queue
  <2>3. ClientAdds(c, {d})
    BY <2>1, <2>2 DEF ClientAdds
  <2> QED
    BY <2>1, <2>3 DEF d
<1>2. CASE ClientPoll(c)
  <2>1. ClientResend(c, cPackets[c], LivePeers(c), net)
    BY <1>2 DEF ClientPoll
  <2>2. ClientAdds(c, {})
    BY <2>1, ClientResendAdds
  <2> QED
    BY <1>2, <2>2 DEF ClientPoll
<1>3. ASSUME NEW d \in net, ClientDuplicate(c, d)
      PROVE  ClientAdds(c, ClientReplies(c, d))
  <2>1. ClientResend(c, cPackets[c], LivePeers(c),
                     Without(d) \cup ClientReplies(c, d))
    BY <1>3 DEF ClientDuplicate
  <2> QED
    BY <2>1, ClientResendAdds, WithoutSubset
<1>4. ASSUME NEW d \in net, ClientFresh(c, d)
      PROVE  ClientAdds(c, ClientReplies(c, d))
  <2> DEFINE queue == AfterConfirm(cPackets[c], d)
  <2>1. DataOf(queue) \subseteq DataOf(cPackets[c])
    BY QueueData
  <2>2. ClientResend(c, queue, {Server}, Without(d) \cup ClientReplies(c, d))
    BY <1>4 DEF ClientFresh
  <2> HIDE DEF queue
  <2> QED
    BY <2>1, <2>2, ClientResendAdds, WithoutSubset
<1>5. CASE ClientTick(c)
  BY <1>5, QueueData DEF ClientTick, ClientAdds
<1>6. CASE ClientStop(c)
  <2>1. cPackets' = [cPackets EXCEPT ![c] = cPackets[c]] /\ net' = net
    BY <1>6 DEF ClientStop, TypeOK, ClientTypeOK
  <2> QED
    BY <1>6, <2>1 DEF ClientStop, ClientAdds
<1> QED
  BY <1>1, <1>2, <1>3, <1>4, <1>5, <1>6 DEF ClientStep, ClientProcess

LEMMA HousekeepingAdds ==
  ASSUME NEW known, NEW age, NEW last, NEW told, NEW log, NEW queue,
         NEW new, NEW d, UNCHANGED clientVars,
         DataOf(queue) \subseteq DataOf(sPackets),
         ServerHousekeeping(known, age, last, told, log, queue,
                            Without(d) \cup new)
  PROVE  ServerAdds(new)
<1> DEFINE live == known \ Gone(known, age)
<1>1. DataOf(AfterResend(queue, live)) \subseteq DataOf(sPackets)
  <2> HIDE DEF live
  <2> QED
    BY QueueData
<1>2. Retransmissions(queue) \subseteq DataOf(sPackets)
  BY QueueData
<1>3. Without(d) \subseteq net
  BY WithoutSubset
<1>4. /\ sPackets' = AfterResend(queue, live)
      /\ net' = (Without(d) \cup new) \cup Retransmissions(queue)
  BY DEF ServerHousekeeping
<1> QED
  BY <1>1, <1>2, <1>3, <1>4 DEF ServerAdds

LEMMA ServerStepAdds ==
  ASSUME ServerStep, UNCHANGED clientVars
  PROVE  \/ \E d \in net : /\ ServerDuplicate(d) \/ ServerFresh(d)
                           /\ ServerAdds(ServerReplies(d))
         \/ \E d \in net : ServerRefuse(d) /\ ServerAdds(BlockNotices(d))
         \/ \E c \in Clients, prio \in ServerPriorities :
              ServerSend(c, prio) /\ ServerAdds({ServerData(c, prio)})
         \/ ServerRestart /\ ServerAdds({})
         \/ /\ ServerAdds({})
            /\ \/ sLast' = sLast
               \/ \E gone : sLast' = Cleared(sLast, gone, <<>>)
            /\ UNCHANGED <<sLife, sUid, handled, acked>>
<1>1. ASSUME NEW c \in Clients, NEW prio \in ServerPriorities,
             ServerSend(c, prio)
      PROVE  ServerAdds({ServerData(c, prio)})
  BY <1>1, QueueData DEF ServerSend, ServerAdds, ServerData
<1>2. CASE ServerPoll
  BY <1>2, QueueData DEF ServerPoll, ServerHousekeeping, ServerAdds
<1>3. ASSUME NEW d \in net, ServerRefuse(d) PROVE ServerAdds(BlockNotices(d))
  BY <1>3, HousekeepingAdds DEF ServerRefuse
<1>4. ASSUME NEW d \in net, ServerDuplicate(d) PROVE ServerAdds(ServerReplies(d))
  BY <1>4, HousekeepingAdds DEF ServerDuplicate
<1>5. ASSUME NEW d \in net, ServerFresh(d) PROVE ServerAdds(ServerReplies(d))
  <2>1. DataOf(AfterConfirm(sPackets, d)) \subseteq DataOf(sPackets)
    BY QueueData
  <2>2. PICK known, age, last, told, log :
          ServerHousekeeping(known, age, last, told, log,
                             AfterConfirm(sPackets, d),
                             Without(d) \cup ServerReplies(d))
    BY <1>5 DEF ServerFresh
  <2> QED
    BY <2>1, <2>2, HousekeepingAdds
<1>6. CASE ServerTick
  BY <1>6, QueueData DEF ServerTick, ServerAdds
<1>7. CASE ServerRestart
  BY <1>7 DEF ServerRestart, ServerAdds, DataOf
<1>8. CASE \E a \in Blockable : BlockAddress(a) \/ UnblockAddress(a)
  BY <1>8 DEF BlockAddress, UnblockAddress, ServerAdds
<1> QED
  BY <1>1, <1>2, <1>3, <1>4, <1>5, <1>6, <1>7, <1>8
     DEF ServerStep, ServerProcess, ServerPoll, ServerHousekeeping, ServerTick,
         BlockAddress, UnblockAddress

-----------------------------------------------------------------------------
(***************************************************************************)
(* The shape of what is added.                                             *)
(***************************************************************************)
LEMMA DatagramEnds ==
  ASSUME NEW d \in Datagram
  PROVE  /\ d.to = Server \/ d.to \in Clients
         /\ d.to = Server <=> d.from \in Clients
         /\ d.to \in Clients <=> d.from = Server
BY ClientsAssumption DEF Datagram, Endpoints

LEMMA SentType == ASSUME TypeOK PROVE Sent \subseteq Datagram
<1>1. DataOf(sPackets) \subseteq Datagram
  BY DEF TypeOK, ServerTypeOK, DataOf, Packet
<1>2. \A c \in Clients : DataOf(cPackets[c]) \subseteq Datagram
  BY DEF TypeOK, ClientTypeOK, DataOf, Packet
<1> QED
  BY <1>1, <1>2 DEF Sent, TypeOK

\* new: at most one datagram, with this sender and the present id.
Fresh(new, from, id, life) ==
  /\ \A r \in new : r.from = from /\ r.id = id /\ r.life = life /\ MaySend(id)
  /\ \A r, s \in new : r = s

LEMMA RepliesShape ==
  ASSUME NEW d, NEW id, NEW life
  PROVE  /\ Fresh(Replies(d, id, life), d.to, id, life)
         /\ \A r \in Replies(d, id, life) :
              r.to = d.from /\ r.pid = "confirm" /\ r.body = d.id
BY DEF Replies, Fresh

\* Message r is what the datagrams of id `id' between c and the server name.
LEMMA MsgIs ==
  ASSUME NEW r \in Datagram
  PROVE  /\ r.from \in Clients /\ r.life = 0 => Msg(r) = ClientMsg(r.from, r.id)
         /\ r.from = Server /\ r.life = 0 => Msg(r) = ServerMsg(r.to, r.id)
BY DatagramEnds DEF Msg, ClientMsg, ServerMsg

LEMMA KnownGrows ==
  ASSUME NEW new, Sent' \subseteq Sent \cup new,
         handled' \subseteq handled \cup {Msg(d) : d \in net}
  PROVE  Known' \subseteq Known \cup {Msg(d) : d \in new}
BY DEF Known, Sent

LEMMA ClientHandled ==
  ASSUME NEW c \in Clients, NEW d \in net,
         ClientDuplicate(c, d) \/ ClientFresh(c, d)
  PROVE  /\ handled' \subseteq handled \cup {Msg(e) : e \in net}
         /\ handled \subseteq handled'
BY DEF ClientDuplicate, ClientFresh

LEMMA ServerHandled ==
  ASSUME NEW d \in net, ServerDuplicate(d) \/ ServerFresh(d)
  PROVE  /\ handled' \subseteq handled \cup {Msg(e) : e \in net}
         /\ handled \subseteq handled'
BY DEF ServerDuplicate, ServerFresh

\* A confirmation takes from a queue the packets with the id it names.
LEMMA ConfirmedIds ==
  ASSUME NEW queue, NEW d, NEW p \in queue \ AfterConfirm(queue, d)
  PROVE  d.pid = "confirm" /\ p.data.id = d.body /\ p.data \in DataOf(queue)
BY DEF AfterConfirm, Confirmed, DataOf

\* A window remembers nothing but what was pushed on it.
LEMMA RememberRange ==
  ASSUME NEW last \in Seq(Ids), NEW id \in Ids
  PROVE  Range(Remember(last, id)) \subseteq Range(last) \cup {id}
<1>1. CASE Len(last) >= Window
  <2> DEFINE tail == Tail(last)
  <2>1. last # <<>> /\ Remember(last, id) = Append(tail, id)
    BY <1>1, WindowAssumption DEF Remember, Pushed
  <2>2. /\ tail \in Seq(Ids)
        /\ Len(tail) = Len(last) - 1
        /\ \A i \in 1..Len(tail) : tail[i] = last[i + 1]
    BY <2>1
  <2> HIDE DEF tail
  <2>3. Range(tail) \subseteq Range(last)
    BY <2>2 DEF Range
  <2>4. Range(Append(tail, id)) \subseteq Range(tail) \cup {id}
    BY <2>2 DEF Range
  <2> QED
    BY <2>1, <2>3, <2>4
<1>2. CASE ~ (Len(last) >= Window)
  BY <1>2 DEF Remember, Pushed, Range
<1> QED
  BY <1>1, <1>2

-----------------------------------------------------------------------------
(***************************************************************************)
(* OwnQueues.                                                              *)
(***************************************************************************)
LEMMA ClientStepOwn ==
  ASSUME TypeOK, OwnQueues, NEW c \in Clients, ClientStep(c),
         UNCHANGED serverVars
  PROVE  OwnQueues'
<1>1. ASSUME NEW new, \A d \in new : d.from = c, ClientAdds(c, new)
      PROVE  OwnQueues'
  BY <1>1 DEF ClientAdds, OwnQueues, serverVars, TypeOK, ClientTypeOK
<1>2. ASSUME NEW d \in net, ClientDuplicate(c, d) \/ ClientFresh(c, d)
      PROVE  \A r \in ClientReplies(c, d) : r.from = c
  BY <1>2, RepliesShape
     DEF ClientReplies, ClientDuplicate, ClientFresh, ClientReceives, Fresh
<1>3. \A prio : \A r \in {ClientData(c, prio)} : r.from = c
  BY DEF ClientData
<1>4. \A r \in {} : r.from = c
  OBVIOUS
<1> QED
  BY <1>1, <1>2, <1>3, <1>4, ClientStepAdds

LEMMA ServerStepSends ==
  ASSUME ServerStep, UNCHANGED clientVars
  PROVE  \E new : ServerAdds(new) /\ \A r \in new : r.from = Server
<1> DEFINE OK(new) == ServerAdds(new) /\ \A r \in new : r.from = Server
<1>1. ASSUME NEW d \in net, ServerDuplicate(d) \/ ServerFresh(d),
             ServerAdds(ServerReplies(d))
      PROVE  OK(ServerReplies(d))
  BY <1>1, RepliesShape
     DEF ServerReplies, ServerDuplicate, ServerFresh, ServerReceives, Fresh
<1>2. ASSUME NEW d, ServerAdds(BlockNotices(d)) PROVE OK(BlockNotices(d))
  BY <1>2 DEF BlockNotices
<1>3. ASSUME NEW c, NEW prio, ServerAdds({ServerData(c, prio)})
      PROVE  OK({ServerData(c, prio)})
  BY <1>3 DEF ServerData
<1>4. ASSUME ServerAdds({}) PROVE OK({})
  BY <1>4
<1> HIDE DEF OK
<1>5. \E new : OK(new)
  BY <1>1, <1>2, <1>3, <1>4, ServerStepAdds
<1> QED
  BY <1>5 DEF OK

LEMMA ServerStepOwn ==
  ASSUME OwnQueues, ServerStep, UNCHANGED clientVars
  PROVE  OwnQueues'
BY ServerStepSends DEF ServerAdds, OwnQueues, clientVars

-----------------------------------------------------------------------------
(***************************************************************************)
(* ClientAcksInv.                                                          *)
(***************************************************************************)
\* What a confirmation takes from a client's queue was handled.
LEMMA ClientFreshConfirms ==
  ASSUME TypeOK, OwnQueues, ClientAcksInv, NEW c \in Clients, NEW d \in net,
         ClientFresh(c, d), NEW p \in cPackets[c] \ AfterConfirm(cPackets[c], d)
  PROVE  Msg(p.data) = ClientMsg(c, d.body) /\ Msg(p.data) \in handled
<1>1. d.pid = "confirm" /\ p.data.id = d.body /\ p.data \in DataOf(cPackets[c])
  BY ConfirmedIds
<1>2. p.data \in Sent /\ p.data \in Datagram
  BY <1>1, SentType DEF Sent
<1>3. p.data.from = c /\ p.data.life = 0
  <2>1. p.data.from = c
    BY <1>1 DEF OwnQueues
  <2>2. Msg(p.data) \in Known
    BY <1>2 DEF Known
  <2> QED
    BY <2>1, <2>2 DEF ClientAcksInv, Msg
<1>4. Msg(p.data) = ClientMsg(c, d.body)
  BY <1>1, <1>2, <1>3, MsgIs
<1>5. ClientMsg(c, d.body) \in handled
  BY <1>1 DEF ClientAcksInv, Sent, ClientFresh, ClientReceives
<1> QED
  BY <1>4, <1>5

LEMMA ClientFreshAcks ==
  ASSUME TypeOK, OwnQueues, ClientAcksInv, NEW c \in Clients, NEW d \in net,
         ClientFresh(c, d)
  PROVE  \A m \in acked' : m.from \in Clients => m \in handled'
<1>1. \A p \in cPackets[c] \ AfterConfirm(cPackets[c], d) : Msg(p.data) \in handled
  BY ClientFreshConfirms
<1> QED
  BY <1>1 DEF ClientFresh, ClientAcksInv

LEMMA ClientStepClientAcks ==
  ASSUME TypeOK, OwnQueues, ClientAcksInv, NEW c \in Clients, ClientStep(c),
         UNCHANGED serverVars
  PROVE  ClientAcksInv'
\* what a client sends goes to the server and is of its only life
<1>1. ASSUME NEW new, ClientAdds(c, new),
             \A d \in new : d.from = c /\ d.life = 0 /\ d.to = Server,
             handled' \subseteq handled \cup {Msg(d) : d \in net},
             handled \subseteq handled',
             \A m \in acked' : m.from \in Clients => m \in handled'
      PROVE  ClientAcksInv'
  <2>1. Sent' \subseteq Sent \cup new
    BY <1>1, ClientAddsSent
  <2>2. Known' \subseteq Known \cup {Msg(d) : d \in new}
    BY <1>1, <2>1, KnownGrows
  <2>3. \A m \in Known' : m.from \in Clients => m.life = 0
    BY <1>1, <2>2 DEF ClientAcksInv, Msg
  <2>4. sLast' = sLast
    BY DEF serverVars
  <2> QED
    BY <1>1, <2>1, <2>3, <2>4, ClientsAssumption DEF ClientAcksInv
<1>2. ASSUME NEW d \in net, ClientDuplicate(c, d) \/ ClientFresh(c, d),
             ClientAdds(c, ClientReplies(c, d))
      PROVE  ClientAcksInv'
  <2>1. \A r \in ClientReplies(c, d) :
          r.from = c /\ r.life = 0 /\ r.to = Server
    <3>1. d.to = c /\ d.from = Server
      BY <1>2, DatagramEnds DEF ClientDuplicate, ClientFresh, ClientReceives, TypeOK
    <3> QED
      BY <3>1, RepliesShape DEF ClientReplies, Fresh
  <2>2. \A m \in acked' : m.from \in Clients => m \in handled'
    BY <1>2, ClientFreshAcks DEF ClientDuplicate, ClientAcksInv
  <2> QED
    BY <1>1, <1>2, <2>1, <2>2, ClientHandled
<1>3. ASSUME NEW new, ClientAdds(c, new),
             \A d \in new : d.from = c /\ d.life = 0 /\ d.to = Server,
             UNCHANGED <<handled, acked>>
      PROVE  ClientAcksInv'
  BY <1>1, <1>3 DEF ClientAcksInv
<1>4. ASSUME NEW prio, ClientSend(c, prio),
             ClientAdds(c, {ClientData(c, prio)})
      PROVE  ClientAcksInv'
  <2>1. \A d \in {ClientData(c, prio)} :
          d.from = c /\ d.life = 0 /\ d.to = Server
    BY DEF ClientData
  <2> QED
    BY <1>3, <1>4, <2>1 DEF ClientSend
<1>5. CASE ClientAdds(c, {}) /\ UNCHANGED <<cUid, cLast, handled, acked>>
  BY <1>3, <1>5
<1> QED
  BY <1>2, <1>4, <1>5, ClientStepAdds

\* What the server's windows remember after a step was handled.
LEMMA ServerWindows ==
  ASSUME TypeOK, ClientAcksInv, NEW d \in net,
         ServerDuplicate(d) \/ ServerFresh(d)
  PROVE  /\ \A c \in Clients : \A id \in Range(sLast'[c]) :
              ClientMsg(c, id) \in handled'
         /\ d.from \in Clients
         /\ ClientMsg(d.from, d.id) \in handled'
<1>1. ASSUME NEW last, NEW gone, sLast' = Cleared(last, gone, <<>>)
      PROVE  \A c \in Clients : Range(sLast'[c]) \subseteq Range(last[c])
  BY <1>1 DEF Cleared, Range
<1>2. d \in Datagram /\ d.from \in Clients /\ d.to = Server
  BY TypeServerReceives DEF ServerDuplicate, ServerFresh, ServerReceives
<1>3. CASE ServerDuplicate(d)
  <2>1. PICK gone : sLast' = Cleared(sLast, gone, <<>>)
    BY <1>3 DEF ServerDuplicate, ServerHousekeeping
  <2>2. d.id \in Range(sLast[d.from])
    BY <1>3 DEF ServerDuplicate
  <2> QED
    BY <1>1, <1>2, <1>3, <2>1, <2>2 DEF ServerDuplicate, ClientAcksInv
<1>4. CASE ServerFresh(d)
  <2> DEFINE c == d.from
             last == [sLast EXCEPT ![c] = Remember(sLast[c], d.id)]
  <2>1. PICK gone : sLast' = Cleared(last, gone, <<>>)
    BY <1>4 DEF ServerFresh, ServerHousekeeping
  <2>2. handled' = handled \cup {Msg(d)}
    BY <1>4 DEF ServerFresh
  <2>3. Msg(d) = ClientMsg(c, d.id)
    <3>1. d.life = 0
      <4>1. Msg(d) \in Known
        BY DEF Known, Sent
      <4> QED
        BY <1>2, <4>1 DEF ClientAcksInv, Msg
    <3> QED
      BY <1>2, <3>1, MsgIs
  <2>4. sLast[c] \in Seq(Ids) /\ d.id \in Ids /\ DOMAIN sLast = Clients
    BY <1>2 DEF TypeOK, ServerTypeOK, Datagram
  <2>5. last[c] = Remember(sLast[c], d.id)
    BY <1>2, <2>4
  <2>6. \A e \in Clients \ {c} : last[e] = sLast[e]
    BY <2>4
  <2> HIDE DEF c, last
  <2>7. Range(last[c]) \subseteq Range(sLast[c]) \cup {d.id}
    BY <2>4, <2>5, RememberRange
  <2>8. \A e \in Clients : \A id \in Range(last[e]) : ClientMsg(e, id) \in handled'
    BY <2>2, <2>3, <2>6, <2>7 DEF ClientAcksInv
  <2> QED
    BY <1>1, <1>2, <2>1, <2>2, <2>3, <2>8 DEF c
<1> QED
  BY <1>2, <1>3, <1>4

LEMMA ServerStepClientAcks ==
  ASSUME TypeOK, OwnQueues, ClientAcksInv, ServerStep, UNCHANGED clientVars
  PROVE  ClientAcksInv'
\* what the server sends matters if it is a confirmation
<1>1. ASSUME NEW new, ServerAdds(new),
             \A r \in new :
               /\ r.from = Server
               /\ r.pid = "confirm" => ClientMsg(r.to, r.body) \in handled',
             handled' \subseteq handled \cup {Msg(d) : d \in net},
             handled \subseteq handled',
             \A c \in Clients : \A id \in Range(sLast'[c]) :
               ClientMsg(c, id) \in handled',
             \A m \in acked' : m.from \in Clients => m \in handled'
      PROVE  ClientAcksInv'
  <2>1. Sent' \subseteq Sent \cup new
    BY <1>1, ServerAddsSent
  <2>2. Known' \subseteq Known \cup {Msg(d) : d \in new}
    BY <1>1, <2>1, KnownGrows
  <2>3. \A m \in Known' : m.from \in Clients => m.life = 0
    BY <1>1, <2>2, ClientsAssumption DEF ClientAcksInv, Msg
  <2> QED
    BY <1>1, <2>1, <2>3 DEF ClientAcksInv
<1>2. ASSUME NEW d \in net, ServerDuplicate(d) \/ ServerFresh(d),
             ServerAdds(ServerReplies(d))
      PROVE  ClientAcksInv'
  <2>1. /\ d.from \in Clients
        /\ d.to = Server
        /\ ClientMsg(d.from, d.id) \in handled'
    BY <1>2, ServerWindows DEF ServerDuplicate, ServerFresh, ServerReceives
  <2>2. \A r \in ServerReplies(d) :
          r.from = Server /\ ClientMsg(r.to, r.body) \in handled'
    BY <2>1, RepliesShape DEF ServerReplies, Fresh
  <2>3. \A m \in acked' : m.from \in Clients => m \in handled'
    <3>1. \A p \in sPackets : Msg(p.data).from = Server
      BY DEF OwnQueues, DataOf, Msg
    <3>2. acked' \subseteq acked \cup {Msg(p.data) : p \in sPackets}
      BY <1>2 DEF ServerDuplicate, ServerFresh
    <3> QED
      BY <1>2, <3>1, <3>2, ServerHandled, ClientsAssumption DEF ClientAcksInv
  <2> QED
    BY <1>1, <1>2, <2>2, <2>3, ServerHandled, ServerWindows
<1>3. ASSUME NEW new, ServerAdds(new),
             \A r \in new : r.from = Server /\ r.pid # "confirm",
             UNCHANGED <<handled, acked>>,
             \/ sLast' = sLast
             \/ \E gone : sLast' = Cleared(sLast, gone, <<>>)
      PROVE  ClientAcksInv'
  <2>1. \A c \in Clients : Range(sLast'[c]) \subseteq Range(sLast[c])
    BY <1>3 DEF Cleared, Range
  <2> QED
    BY <1>1, <1>3, <2>1 DEF ClientAcksInv
<1>4. ASSUME NEW d \in net, ServerRefuse(d), ServerAdds(BlockNotices(d))
      PROVE  ClientAcksInv'
  <2>1. \A r \in BlockNotices(d) : r.from = Server /\ r.pid # "confirm"
    BY DEF BlockNotices
  <2>2. \E gone : sLast' = Cleared(sLast, gone, <<>>)
    BY <1>4 DEF ServerRefuse, ServerHousekeeping
  <2> QED
    BY <1>3, <1>4, <2>1, <2>2 DEF ServerRefuse
<1>5. ASSUME NEW c, NEW prio, ServerSend(c, prio),
             ServerAdds({ServerData(c, prio)})
      PROVE  ClientAcksInv'
  <2>1. \A r \in {ServerData(c, prio)} : r.from = Server /\ r.pid # "confirm"
    BY DEF ServerData
  <2> QED
    BY <1>3, <1>5, <2>1 DEF ServerSend
<1>6. CASE ServerRestart /\ ServerAdds({})
  <2>1. sLast' = Cleared(sLast, Clients, <<>>)
    BY <1>6 DEF ServerRestart, Cleared
  <2> QED
    BY <1>3, <1>6, <2>1 DEF ServerRestart
<1>7. CASE /\ ServerAdds({})
           /\ \/ sLast' = sLast
              \/ \E gone : sLast' = Cleared(sLast, gone, <<>>)
           /\ UNCHANGED <<sLife, sUid, handled, acked>>
  BY <1>3, <1>7
<1> QED
  BY <1>2, <1>4, <1>5, <1>6, <1>7, ServerStepAdds

-----------------------------------------------------------------------------
(***************************************************************************)
(* ServerAcksInv.                                                          *)
(***************************************************************************)
\* What a confirmation takes from the server's queue was handled.
LEMMA ServerFreshConfirms ==
  ASSUME TypeOK, OwnQueues, ServerAcksInv, NEW d \in net, ServerFresh(d),
         NEW p \in sPackets \ AfterConfirm(sPackets, d)
  PROVE  /\ Msg(p.data) = ServerMsg(d.from, d.body)
         /\ Msg(p.data) \in handled
<1>1. d.pid = "confirm" /\ p.data.id = d.body /\ p.data \in DataOf(sPackets)
  BY ConfirmedIds
<1>2. Msg(p.data) \in Known /\ Msg(p.data).from = Server
  BY <1>1 DEF Known, Sent, OwnQueues, Msg
<1>3. ServerMsg(d.from, d.body) \in handled
  BY <1>1 DEF ServerAcksInv, Sent, ServerFresh, ServerReceives
<1>4. /\ ServerMsg(d.from, d.body) \in Known
      /\ ServerMsg(d.from, d.body).from = Server
      /\ ServerMsg(d.from, d.body).id = d.body
  BY <1>3 DEF Known, ServerMsg
<1>5. Msg(p.data).id = d.body
  BY <1>1 DEF Msg
<1> HIDE DEF Known
<1>6. Msg(p.data) = ServerMsg(d.from, d.body)
  BY <1>2, <1>4, <1>5 DEF ServerAcksInv
<1> QED
  BY <1>3, <1>6

LEMMA ServerFreshAcks ==
  ASSUME TypeOK, OwnQueues, ServerAcksInv, NEW d \in net, ServerFresh(d)
  PROVE  \A m \in acked' : m.from = Server => m \in handled'
<1>1. \A p \in sPackets \ AfterConfirm(sPackets, d) : Msg(p.data) \in handled
  BY ServerFreshConfirms
<1> QED
  BY <1>1 DEF ServerFresh, ServerAcksInv

\* The next id of the server is new.
LEMMA FreshKnown ==
  ASSUME TypeOK, NoWrap, sLife = 0, ServerAcksInv,
         NEW new, Fresh(new, Server, sUid, sLife),
         Known' \subseteq Known \cup {Msg(d) : d \in new},
         sUid' = IdAfter(new, sUid)
  PROVE  /\ \A m \in Known' : m.from = Server => m.life = 0 /\ m.id < sUid'
         /\ \A m, n \in Known' : m.from = Server /\ n.from = Server /\ m.id = n.id
                                   => m = n
<1> DEFINE Added == {Msg(d) : d \in new}
<1>1. \A m, n \in Added : m = n
  BY DEF Fresh
<1>2. \A m \in Added : m.from = Server /\ m.id = sUid /\ m.life = 0
  BY DEF Fresh, Msg
<1>3. /\ sUid \in Nat
      /\ sUid' = IF Added = {} THEN sUid ELSE sUid + 1
  <2>1. CASE new = {}
    BY <2>1 DEF IdAfter, TypeOK, ServerTypeOK, Ids
  <2>2. CASE new # {}
    <3>1. sUid' = NextId(sUid) /\ sUid < MaxId
      BY <2>2 DEF IdAfter, Fresh, MaySend
    <3>2. sUid \in Nat /\ MaxId \in Nat /\ IdSpace \in Nat /\ MaxId < IdSpace
      BY IdAssumption DEF TypeOK, ServerTypeOK, Ids, NoWrap
    <3>3. sUid' = sUid + 1
      BY <3>1, <3>2 DEF NextId
    <3> QED
      BY <2>2, <3>2, <3>3
  <2> QED
    BY <2>1, <2>2
<1>4. Known' \subseteq Known \cup Added
  OBVIOUS
<1>5. \A m \in Known : m.from = Server => m.life = 0 /\ m.id < sUid /\ m.id \in Nat
  <2>1. \A m \in Known : m.id \in Nat
    <3>1. \A d \in Sent : Msg(d).id \in Nat
      BY SentType DEF Msg, Datagram, Ids
    <3> QED
      BY <3>1 DEF Known, TypeOK, Message, Ids
  <2> QED
    BY <2>1 DEF ServerAcksInv
<1>6. \A m, n \in Known : m.from = Server /\ n.from = Server /\ m.id = n.id
                            => m = n
  BY DEF ServerAcksInv
<1> HIDE DEF Added
<1>7. \A m \in Known' : m.from = Server => m.life = 0 /\ m.id < sUid'
  BY <1>2, <1>3, <1>4, <1>5
<1>8. ASSUME NEW m \in Known', NEW n \in Known',
             m.from = Server, n.from = Server, m.id = n.id
      PROVE  m = n
  <2>1. CASE m \in Known /\ n \in Known
    BY <1>6, <1>8, <2>1
  <2>2. CASE m \in Added /\ n \in Added
    BY <1>1, <2>2
  <2>3. ~ (m \in Known /\ n \in Added) /\ ~ (m \in Added /\ n \in Known)
    BY <1>2, <1>3, <1>5, <1>8
  <2> QED
    BY <1>4, <2>1, <2>2, <2>3
<1> QED
  BY <1>7, <1>8

LEMMA ServerStepServerAcks ==
  ASSUME TypeOK, OwnQueues, FirstServerAcksInv, ServerStep,
         UNCHANGED clientVars
  PROVE  FirstServerAcksInv'
<1>1. SUFFICES ASSUME NoWrap, sLife' = 0 PROVE ServerAcksInv'
  BY DEF FirstServerAcksInv, NoWrap
<1>2. sLife = 0 /\ ~ ServerRestart
  <2>1. sLife \in Nat
    BY EnvironmentAssumption DEF TypeOK, ServerTypeOK, Lives
  <2>2. ASSUME NEW d, ServerRefuse(d) \/ ServerDuplicate(d) \/ ServerFresh(d)
        PROVE  sLife' = sLife
    <3>1. PICK known, age, last, told, log, queue, sending :
            ServerHousekeeping(known, age, last, told, log, queue, sending)
      BY <2>2 DEF ServerRefuse, ServerDuplicate, ServerFresh
    <3> QED
      BY <3>1 DEF ServerHousekeeping
  <2>3. sLife' = sLife \/ ServerRestart
    BY <2>2, ServerStepAdds DEF ServerSend
  <2>4. ServerRestart => sLife' = sLife + 1
    BY DEF ServerRestart
  <2> QED
    BY <1>1, <2>1, <2>3, <2>4
<1>3. ServerAcksInv
  BY <1>1, <1>2 DEF FirstServerAcksInv
<1>4. ASSUME NEW new, ServerAdds(new), Fresh(new, Server, sUid, sLife),
             sUid' = IdAfter(new, sUid),
             \A r \in new : r.to # Server,
             handled' \subseteq handled \cup {Msg(d) : d \in net},
             handled \subseteq handled',
             \A m \in acked' : m.from = Server => m \in handled'
      PROVE  ServerAcksInv'
  <2>1. Sent' \subseteq Sent \cup new
    BY <1>4, ServerAddsSent
  <2>2. Known' \subseteq Known \cup {Msg(d) : d \in new}
    BY <1>4, <2>1, KnownGrows
  <2>3. /\ \A m \in Known' : m.from = Server => m.life = 0 /\ m.id < sUid'
        /\ \A m, n \in Known' :
             m.from = Server /\ n.from = Server /\ m.id = n.id => m = n
    BY <1>1, <1>2, <1>3, <1>4, <2>2, FreshKnown
  <2>4. cLast' = cLast
    BY DEF clientVars
  <2>5. \A d \in Sent' : d.pid = "confirm" /\ d.to = Server =>
                           ServerMsg(d.from, d.body) \in handled'
    BY <1>3, <1>4, <2>1 DEF ServerAcksInv
  <2>6. \A c \in Clients : \A id \in Range(cLast'[c]) :
          ServerMsg(c, id) \in handled'
    BY <1>3, <1>4, <2>4 DEF ServerAcksInv
  <2> QED
    BY <1>4, <2>3, <2>5, <2>6 DEF ServerAcksInv
<1>5. ASSUME NEW d \in net, ServerDuplicate(d) \/ ServerFresh(d),
             ServerAdds(ServerReplies(d))
      PROVE  ServerAcksInv'
  <2>1. /\ d.from \in Clients
        /\ d.to = Server
        /\ sUid' = IdAfter(ServerReplies(d), sUid)
    BY <1>5, TypeServerReceives DEF ServerDuplicate, ServerFresh, ServerReceives
  <2>2. /\ Fresh(ServerReplies(d), Server, sUid, sLife)
        /\ \A r \in ServerReplies(d) : r.to # Server
    BY <2>1, RepliesShape, ClientsAssumption DEF ServerReplies
  <2>3. \A m \in acked' : m.from = Server => m \in handled'
    BY <1>3, <1>5, ServerFreshAcks DEF ServerDuplicate, ServerAcksInv
  <2> QED
    BY <1>4, <1>5, <2>1, <2>2, <2>3, ServerHandled
<1>6. ASSUME NEW new, ServerAdds(new), Fresh(new, Server, sUid, sLife),
             sUid' = IdAfter(new, sUid),
             \A r \in new : r.to # Server,
             UNCHANGED <<handled, acked>>
      PROVE  ServerAcksInv'
  <2>1. \A m \in acked' : m.from = Server => m \in handled'
    BY <1>3, <1>6 DEF ServerAcksInv
  <2> QED
    BY <1>4, <1>6, <2>1
<1>7. ASSUME NEW d \in net, ServerRefuse(d), ServerAdds(BlockNotices(d))
      PROVE  ServerAcksInv'
  <2>1. d.from \in Clients
    BY <1>7, DatagramEnds DEF ServerRefuse, TypeOK
  <2>2. /\ Fresh(BlockNotices(d), Server, sUid, sLife)
        /\ \A r \in BlockNotices(d) : r.to # Server
    BY <2>1, ClientsAssumption DEF BlockNotices, Fresh
  <2> QED
    BY <1>6, <1>7, <2>2 DEF ServerRefuse
<1>8. ASSUME NEW c \in Clients, NEW prio, ServerSend(c, prio),
             ServerAdds({ServerData(c, prio)})
      PROVE  ServerAcksInv'
  <2>1. /\ Fresh({ServerData(c, prio)}, Server, sUid, sLife)
        /\ \A r \in {ServerData(c, prio)} : r.to # Server
    BY <1>8, ClientsAssumption DEF ServerData, Fresh, ServerSend
  <2>2. sUid' = IdAfter({ServerData(c, prio)}, sUid)
    BY <1>8 DEF ServerSend, IdAfter
  <2> QED
    BY <1>6, <1>8, <2>1, <2>2 DEF ServerSend
<1>9. CASE ServerAdds({}) /\ UNCHANGED <<sLife, sUid, handled, acked>>
  <2>1. Fresh({}, Server, sUid, sLife) /\ sUid' = IdAfter({}, sUid)
    BY <1>9 DEF Fresh, IdAfter
  <2> QED
    BY <1>6, <1>9, <2>1
<1> QED
  BY <1>2, <1>5, <1>7, <1>8, <1>9, ServerStepAdds

\* What a client's window remembers after a step was handled.
LEMMA ClientWindows ==
  ASSUME TypeOK, sLife = 0, ServerAcksInv, NEW c \in Clients, NEW d \in net,
         ClientDuplicate(c, d) \/ ClientFresh(c, d)
  PROVE  /\ \A e \in Clients : \A id \in Range(cLast'[e]) :
              ServerMsg(e, id) \in handled'
         /\ ServerMsg(c, d.id) \in handled'
<1>1. d \in Datagram /\ d.from = Server /\ d.to = c
  BY DatagramEnds DEF ClientDuplicate, ClientFresh, ClientReceives, TypeOK
<1>2. CASE ClientDuplicate(c, d)
  BY <1>2 DEF ClientDuplicate, ServerAcksInv
<1>3. CASE ClientFresh(c, d)
  <2>1. handled' = handled \cup {Msg(d)}
    BY <1>3 DEF ClientFresh
  <2>2. Msg(d) = ServerMsg(c, d.id)
    <3>1. d.life = 0
      <4>1. Msg(d) \in Known
        BY DEF Known, Sent
      <4> QED
        BY <1>1, <4>1 DEF ServerAcksInv, Msg
    <3> QED
      BY <1>1, <3>1, MsgIs
  <2>3. cLast[c] \in Seq(Ids) /\ d.id \in Ids /\ DOMAIN cLast = Clients
    BY <1>1 DEF TypeOK, ClientTypeOK, Datagram
  <2>4. cLast' = [cLast EXCEPT ![c] = Remember(cLast[c], d.id)]
    BY <1>3 DEF ClientFresh
  <2>5. Range(cLast'[c]) \subseteq Range(cLast[c]) \cup {d.id}
    BY <2>3, <2>4, RememberRange
  <2>6. \A e \in Clients \ {c} : cLast'[e] = cLast[e]
    BY <2>3, <2>4
  <2> QED
    BY <2>1, <2>2, <2>5, <2>6 DEF ServerAcksInv
<1> QED
  BY <1>2, <1>3

LEMMA ClientStepServerAcks ==
  ASSUME TypeOK, OwnQueues, FirstServerAcksInv, NEW c \in Clients,
         ClientStep(c), UNCHANGED serverVars
  PROVE  FirstServerAcksInv'
<1>1. SUFFICES ASSUME NoWrap, sLife' = 0 PROVE ServerAcksInv'
  BY DEF FirstServerAcksInv, NoWrap
<1>2. sLife = 0 /\ sUid' = sUid
  BY <1>1 DEF serverVars
<1>3. ServerAcksInv
  BY <1>1, <1>2 DEF FirstServerAcksInv
<1>4. ASSUME NEW new, ClientAdds(c, new),
             \A r \in new :
               /\ r.from = c
               /\ r.pid = "confirm" => ServerMsg(c, r.body) \in handled',
             handled' \subseteq handled \cup {Msg(d) : d \in net},
             handled \subseteq handled',
             \A e \in Clients : \A id \in Range(cLast'[e]) :
               ServerMsg(e, id) \in handled',
             \A m \in acked' : m.from = Server => m \in handled'
      PROVE  ServerAcksInv'
  <2>1. Sent' \subseteq Sent \cup new
    BY <1>4, ClientAddsSent
  <2>2. Known' \subseteq Known \cup {Msg(d) : d \in new}
    BY <1>4, <2>1, KnownGrows
  <2>3. \A m \in Known' : m.from = Server => m \in Known
    BY <1>4, <2>2, ClientsAssumption DEF Msg
  <2>4. /\ \A m \in Known' : m.from = Server => m.life = 0 /\ m.id < sUid'
        /\ \A m, n \in Known' :
             m.from = Server /\ n.from = Server /\ m.id = n.id => m = n
    BY <1>2, <1>3, <2>3 DEF ServerAcksInv
  <2>5. \A d \in Sent' : d.pid = "confirm" /\ d.to = Server =>
                           ServerMsg(d.from, d.body) \in handled'
    BY <1>3, <1>4, <2>1 DEF ServerAcksInv
  <2> QED
    BY <1>4, <2>4, <2>5 DEF ServerAcksInv
<1>5. ASSUME NEW d \in net, ClientDuplicate(c, d) \/ ClientFresh(c, d),
             ClientAdds(c, ClientReplies(c, d))
      PROVE  ServerAcksInv'
  <2>1. d.to = c /\ d.from = Server
    BY <1>5, DatagramEnds DEF ClientDuplicate, ClientFresh, ClientReceives, TypeOK
  <2>2. ServerMsg(c, d.id) \in handled'
    BY <1>2, <1>3, <1>5, ClientWindows
  <2>3. \A r \in ClientReplies(c, d) :
          r.from = c /\ ServerMsg(c, r.body) \in handled'
    BY <2>1, <2>2, RepliesShape DEF ClientReplies, Fresh
  <2>4. \A m \in acked' : m.from = Server => m \in handled'
    <3>1. \A p \in cPackets[c] : Msg(p.data).from = c
      BY DEF OwnQueues, DataOf, Msg
    <3>2. acked' \subseteq acked \cup {Msg(p.data) : p \in cPackets[c]}
      BY <1>5 DEF ClientDuplicate, ClientFresh
    <3> QED
      BY <1>3, <1>5, <3>1, <3>2, ClientHandled, ClientsAssumption
         DEF ServerAcksInv
  <2>5. \A e \in Clients : \A id \in Range(cLast'[e]) :
          ServerMsg(e, id) \in handled'
    BY <1>2, <1>3, <1>5, ClientWindows
  <2> QED
    BY <1>4, <1>5, <2>3, <2>4, <2>5, ClientHandled
<1>6. ASSUME NEW new, ClientAdds(c, new),
             \A r \in new : r.from = c /\ r.pid # "confirm",
             UNCHANGED <<cLast, handled, acked>>
      PROVE  ServerAcksInv'
  <2>1. /\ \A e \in Clients : \A id \in Range(cLast'[e]) :
             ServerMsg(e, id) \in handled'
        /\ \A m \in acked' : m.from = Server => m \in handled'
    BY <1>3, <1>6 DEF ServerAcksInv
  <2> QED
    BY <1>4, <1>6, <2>1
<1>7. ASSUME NEW prio, ClientSend(c, prio),
             ClientAdds(c, {ClientData(c, prio)})
      PROVE  ServerAcksInv'
  <2>1. \A r \in {ClientData(c, prio)} : r.from = c /\ r.pid # "confirm"
    BY DEF ClientData
  <2> QED
    BY <1>6, <1>7, <2>1 DEF ClientSend
<1>8. CASE ClientAdds(c, {}) /\ UNCHANGED <<cUid, cLast, handled, acked>>
  BY <1>6, <1>8
<1> QED
  BY <1>5, <1>7, <1>8, ClientStepAdds

-----------------------------------------------------------------------------
(***************************************************************************)
(* The theorem.                                                            *)
(***************************************************************************)
AcksInv == TypeOK /\ OwnQueues /\ ClientAcksInv /\ FirstServerAcksInv

LEMMA AcksInit == Init => AcksInv
<1> SUFFICES ASSUME Init PROVE AcksInv
  OBVIOUS
<1>1. Sent = {} /\ Known = {}
  BY DEF Init, ProtocolInit, ClientInit, ServerInit, Sent, Known, DataOf
<1>2. \A c \in Clients : Range(cLast[c]) = {} /\ Range(sLast[c]) = {}
  BY DEF Init, ClientInit, ServerInit, Range
<1>3. OwnQueues
  BY DEF Init, ClientInit, ServerInit, OwnQueues, DataOf
<1> QED
  BY <1>1, <1>2, <1>3, TypeInit
     DEF Init, ProtocolInit, AcksInv, ClientAcksInv, FirstServerAcksInv,
         ServerAcksInv

\* The network may lose a datagram, and nothing else changes.
LEMMA LoseAcks ==
  ASSUME AcksInv, NEW d, Lose(d), UNCHANGED <<clientVars, serverVars>>
  PROVE  OwnQueues' /\ ClientAcksInv' /\ FirstServerAcksInv'
<1>1. Sent' \subseteq Sent
  BY WithoutSubset DEF Lose, Sent, clientVars, serverVars
<1>2. Known' \subseteq Known
  BY <1>1 DEF Lose, Known
<1>3. OwnQueues'
  BY DEF AcksInv, OwnQueues, clientVars, serverVars
<1>4. ClientAcksInv'
  BY <1>1, <1>2 DEF AcksInv, ClientAcksInv, Lose, serverVars
<1>5. ServerAcksInv => ServerAcksInv'
  BY <1>1, <1>2 DEF ServerAcksInv, Lose, clientVars, serverVars
<1> QED
  BY <1>3, <1>4, <1>5 DEF AcksInv, FirstServerAcksInv, serverVars, NoWrap

LEMMA AcksNext == ASSUME AcksInv, [Next]_vars PROVE AcksInv'
<1>1. TypeOK'
  BY TypeNext DEF AcksInv
<1>2. ASSUME NEW c \in Clients, ClientStep(c), UNCHANGED serverVars
      PROVE  OwnQueues' /\ ClientAcksInv' /\ FirstServerAcksInv'
  BY <1>2, ClientStepOwn, ClientStepClientAcks, ClientStepServerAcks DEF AcksInv
<1>3. ASSUME ServerStep, UNCHANGED clientVars
      PROVE  OwnQueues' /\ ClientAcksInv' /\ FirstServerAcksInv'
  BY <1>3, ServerStepOwn, ServerStepClientAcks, ServerStepServerAcks DEF AcksInv
<1>4. ASSUME UNCHANGED vars
      PROVE  OwnQueues' /\ ClientAcksInv' /\ FirstServerAcksInv'
  <2>1. Sent' = Sent
    BY <1>4 DEF vars, clientVars, serverVars, Sent
  <2>2. Known' = Known
    BY <1>4, <2>1 DEF vars, Known
  <2>3. OwnQueues'
    BY <1>4 DEF vars, clientVars, serverVars, AcksInv, OwnQueues
  <2>4. ClientAcksInv'
    BY <1>4, <2>1, <2>2 DEF vars, serverVars, AcksInv, ClientAcksInv
  <2>5. FirstServerAcksInv'
    BY <1>4, <2>1, <2>2
       DEF vars, clientVars, serverVars, AcksInv, FirstServerAcksInv,
           ServerAcksInv, NoWrap
  <2> QED
    BY <2>3, <2>4, <2>5
<1> QED
  BY <1>1, <1>2, <1>3, <1>4, LoseAcks DEF Next, AcksInv

\* A packet an end takes for confirmed was given to the other end's handlers: by
\* the server across any number of its restarts (client.lua:63, server.lua:90),
\* by a client until the server is restarted (server.lua:120, client.lua:37),
\* for any number of clients and any window.
THEOREM SnetAcksSound == Spec => []AcksSound
<1>1. AcksInv => AcksSound
  BY AcksFromInvariants DEF AcksInv, AcksSound
<1> QED
  BY <1>1, AcksInit, AcksNext, PTL DEF Spec

(***************************************************************************)
(* SNET implements the messenger, as long as no id is used twice: the ids  *)
(* do not wrap around and the server is not restarted.                     *)
(***************************************************************************)
\* The datagrams that wait for a confirmation.
Waiting == DataOf(sPackets) \cup UNION {DataOf(cPackets[c]) : c \in Clients}

LEMMA PendingIs == ASSUME TypeOK PROVE Pending = {Msg(d) : d \in Waiting}
<1>1. Range(cPackets) = {cPackets[c] : c \in Clients}
  BY DEF Range, TypeOK, ClientTypeOK
<1> QED
  BY <1>1 DEF Pending, Waiting, DataOf

LEMMA PendingIsPrime ==
  ASSUME TypeOK' PROVE Pending' = {Msg(d) : d \in Waiting'}
<1>1. Range(cPackets') = {cPackets'[c] : c \in Clients}
  BY DEF Range, TypeOK, ClientTypeOK
<1> QED
  BY <1>1 DEF Pending, Waiting, DataOf

(***************************************************************************)
(* A client's next id is new, as the server's is.                          *)
(***************************************************************************)
ClientIds == \A m \in Known : m.from \in Clients => m.id < cUid[m.from]

MessengerInv == AcksInv /\ (NoWrap => ClientIds)

LEMMA NextIdIs ==
  ASSUME NoWrap, NEW new, NEW from, NEW life, NEW id \in Ids,
         Fresh(new, from, id, life)
  PROVE  IdAfter(new, id) = IF new = {} THEN id ELSE id + 1
<1>1. CASE new = {}
  BY <1>1 DEF IdAfter
<1>2. CASE new # {}
  <2>1. IdAfter(new, id) = NextId(id) /\ id < MaxId
    BY <1>2 DEF IdAfter, Fresh, MaySend
  <2>2. id \in Nat /\ MaxId \in Nat /\ IdSpace \in Nat /\ MaxId < IdSpace
    BY IdAssumption DEF Ids, NoWrap
  <2> QED
    BY <1>2, <2>1, <2>2 DEF NextId
<1> QED
  BY <1>1, <1>2

LEMMA ClientIdsStep ==
  ASSUME TypeOK, NoWrap, ClientIds, NEW c \in Clients, NEW new,
         Fresh(new, c, cUid[c], 0),
         Known' \subseteq Known \cup {Msg(d) : d \in new},
         cUid' = [cUid EXCEPT ![c] = IdAfter(new, cUid[c])]
  PROVE  ClientIds'
<1>1. cUid \in [Clients -> Nat]
  BY DEF TypeOK, ClientTypeOK, Ids
<1>2. IdAfter(new, cUid[c]) = IF new = {} THEN cUid[c] ELSE cUid[c] + 1
  BY NextIdIs DEF TypeOK, ClientTypeOK
<1>3. SUFFICES ASSUME NEW m \in Known', m.from \in Clients
               PROVE  m.id < cUid'[m.from]
  BY DEF ClientIds
<1>4. CASE m \in Known
  <2>1. m.id < cUid[m.from] /\ m.id \in Nat
    <3>1. \A d \in Sent : Msg(d).id \in Nat
      BY SentType DEF Msg, Datagram, Ids
    <3> QED
      BY <1>3, <1>4, <3>1 DEF ClientIds, Known, TypeOK, Message, Ids
  <2>2. IdAfter(new, cUid[c]) \in Nat /\ IdAfter(new, cUid[c]) >= cUid[c]
    BY <1>1, <1>2
  <2> QED
    BY <1>1, <1>3, <2>1, <2>2
<1>5. CASE m \in {Msg(d) : d \in new}
  <2>1. m.from = c /\ m.id = cUid[c] /\ new # {}
    BY <1>5 DEF Fresh, Msg
  <2> QED
    BY <1>1, <1>2, <2>1
<1> QED
  BY <1>4, <1>5

LEMMA ClientStepIds ==
  ASSUME TypeOK, NoWrap, ClientIds, NEW c \in Clients, ClientStep(c),
         UNCHANGED serverVars
  PROVE  ClientIds'
<1>1. ASSUME NEW new, Fresh(new, c, cUid[c], 0), ClientAdds(c, new),
             handled' \subseteq handled \cup {Msg(d) : d \in net},
             cUid' = [cUid EXCEPT ![c] = IdAfter(new, cUid[c])]
      PROVE  ClientIds'
  <2>1. Known' \subseteq Known \cup {Msg(d) : d \in new}
    BY <1>1, ClientAddsSent, KnownGrows
  <2> QED
    BY <1>1, <2>1, ClientIdsStep
<1>2. ASSUME NEW d \in net, ClientDuplicate(c, d) \/ ClientFresh(c, d),
             ClientAdds(c, ClientReplies(c, d))
      PROVE  ClientIds'
  <2>1. /\ d.to = c
        /\ cUid' = [cUid EXCEPT ![c] = IdAfter(ClientReplies(c, d), cUid[c])]
    BY <1>2 DEF ClientDuplicate, ClientFresh, ClientReceives
  <2>2. Fresh(ClientReplies(c, d), c, cUid[c], 0)
    BY <2>1, RepliesShape DEF ClientReplies
  <2> QED
    BY <1>1, <1>2, <2>1, <2>2, ClientHandled
<1>3. ASSUME NEW prio \in ClientPriorities, ClientSend(c, prio),
             ClientAdds(c, {ClientData(c, prio)})
      PROVE  ClientIds'
  <2>1. Fresh({ClientData(c, prio)}, c, cUid[c], 0)
    BY <1>3 DEF Fresh, ClientData, ClientSend
  <2>2. /\ cUid' = [cUid EXCEPT ![c] = IdAfter({ClientData(c, prio)}, cUid[c])]
        /\ handled' = handled
    BY <1>3 DEF ClientSend, IdAfter
  <2> QED
    BY <1>1, <1>3, <2>1, <2>2
<1>4. CASE ClientAdds(c, {}) /\ UNCHANGED <<cUid, cLast, handled, acked>>
  <2>1. Known' \subseteq Known
    <3>1. Known' \subseteq Known \cup {Msg(d) : d \in {}}
      BY <1>4, ClientAddsSent, KnownGrows
    <3> QED
      BY <3>1
  <2> QED
    BY <1>4, <2>1 DEF ClientIds
<1> QED
  BY <1>2, <1>3, <1>4, ClientStepAdds

LEMMA ServerStepHandled ==
  ASSUME ServerStep, UNCHANGED clientVars
  PROVE  handled' \subseteq handled \cup {Msg(d) : d \in net}
<1>1. ASSUME NEW d \in net, ServerDuplicate(d) \/ ServerFresh(d)
      PROVE  handled' \subseteq handled \cup {Msg(e) : e \in net}
  BY <1>1, ServerHandled
<1> QED
  BY <1>1, ServerStepAdds DEF ServerRefuse, ServerSend, ServerRestart

LEMMA ServerStepIds ==
  ASSUME ClientIds, ServerStep, UNCHANGED clientVars
  PROVE  ClientIds'
<1>1. PICK new : ServerAdds(new) /\ \A r \in new : r.from = Server
  BY ServerStepSends
<1>2. Known' \subseteq Known \cup {Msg(d) : d \in new}
  BY <1>1, ServerAddsSent, ServerStepHandled, KnownGrows
<1>3. \A m \in Known' : m.from \in Clients => m \in Known
  BY <1>1, <1>2, ClientsAssumption DEF Msg
<1> QED
  BY <1>3 DEF ClientIds, clientVars

LEMMA MessengerInvInit == Init => MessengerInv
<1> SUFFICES ASSUME Init PROVE MessengerInv
  OBVIOUS
<1>1. Known = {}
  BY DEF Init, ProtocolInit, ClientInit, ServerInit, Sent, Known, DataOf
<1> QED
  BY <1>1, AcksInit DEF MessengerInv, ClientIds

LEMMA MessengerInvNext == ASSUME MessengerInv, [Next]_vars PROVE MessengerInv'
<1>1. AcksInv'
  BY AcksNext DEF MessengerInv
<1>2. SUFFICES ASSUME NoWrap PROVE ClientIds'
  BY <1>1 DEF MessengerInv, NoWrap
<1>3. TypeOK /\ ClientIds
  BY <1>2 DEF MessengerInv, AcksInv
<1>4. ASSUME NEW d, Lose(d), UNCHANGED <<clientVars, serverVars>>
      PROVE  ClientIds'
  <2>1. Known' \subseteq Known
    BY <1>4, WithoutSubset DEF Lose, Known, Sent, clientVars, serverVars
  <2> QED
    BY <1>3, <1>4, <2>1 DEF ClientIds, clientVars
<1>5. CASE UNCHANGED vars
  <2>1. Known' = Known
    BY <1>5 DEF vars, clientVars, serverVars, Known, Sent
  <2> QED
    BY <1>3, <1>5, <2>1 DEF ClientIds, vars, clientVars
<1> QED
  BY <1>2, <1>3, <1>4, <1>5, ClientStepIds, ServerStepIds DEF Next

-----------------------------------------------------------------------------
(***************************************************************************)
(* The steps of the messenger, told by what happens to Waiting.            *)
(***************************************************************************)
Labels(datagrams) == {Msg(d) : d \in datagrams}

LEMMA GiveUpStep ==
  ASSUME TypeOK, TypeOK', Waiting' \subseteq Waiting,
         UNCHANGED <<handled, acked>>
  PROVE  Messenger!Next
<1>1. Pending' \subseteq Pending
  BY PendingIs, PendingIsPrime
<1> QED
  BY <1>1 DEF Messenger!Next, Messenger!GiveUp

LEMMA SendStep ==
  ASSUME TypeOK, TypeOK', NEW d \in Datagram, Msg(d) \notin Known,
         acked \subseteq handled,
         \/ Waiting' = Waiting \cup {d}
         \/ Waiting' \subseteq Waiting,
         UNCHANGED <<handled, acked>>
  PROVE  Messenger!Next
<1>1. CASE Waiting' = Waiting \cup {d}
  <2>1. Pending' = Pending \cup {Msg(d)}
    BY <1>1, PendingIs, PendingIsPrime
  <2>2. Pending \subseteq Known
    BY PendingIs DEF Waiting, Known, Sent
  <2>3. Msg(d) \in Message /\ Msg(d) \notin Pending \cup handled \cup acked
    BY <2>2, MsgType DEF Known
  <2> QED
    BY <2>1, <2>3 DEF Messenger!Next, Messenger!Send
<1>2. CASE Waiting' \subseteq Waiting
  BY <1>2, GiveUpStep
<1> QED
  BY <1>1, <1>2

LEMMA HandleStep ==
  ASSUME TypeOK, TypeOK', NEW d \in Datagram, Waiting' \subseteq Waiting,
         handled' = handled \cup {Msg(d)}, acked' = acked
  PROVE  Messenger!Next
<1>1. Pending' \subseteq Pending /\ Msg(d) \in Message
  BY PendingIs, PendingIsPrime, MsgType
<1> QED
  BY <1>1 DEF Messenger!Next, Messenger!Handle

LEMMA AcknowledgeStep ==
  ASSUME TypeOK, TypeOK', NEW d \in Datagram, NEW m \in Labels(Waiting),
         Waiting' \subseteq Waiting, m \notin Labels(Waiting'), m \in handled,
         handled' = handled \cup {Msg(d)}, acked' = acked \cup {m}
  PROVE  Messenger!Next
<1>1. /\ Pending' \subseteq Pending \ {m}
      /\ m \in Pending \cap handled
  BY PendingIs, PendingIsPrime DEF Labels
<1>2. m \in Message /\ Msg(d) \in Message
  BY MsgType DEF TypeOK
<1> QED
  BY <1>1, <1>2 DEF Messenger!Next, Messenger!Acknowledge

-----------------------------------------------------------------------------
(***************************************************************************)
(* What the actions do to Waiting.                                         *)
(***************************************************************************)
LEMMA ClientQueueShrinks ==
  ASSUME TypeOK, NEW c \in Clients, NEW queue,
         cPackets' = [cPackets EXCEPT ![c] = queue],
         DataOf(queue) \subseteq DataOf(cPackets[c]), UNCHANGED serverVars
  PROVE  Waiting' \subseteq Waiting
<1>1. \A e \in Clients : DataOf(cPackets'[e]) \subseteq DataOf(cPackets[e])
  BY DEF TypeOK, ClientTypeOK
<1> QED
  BY <1>1 DEF Waiting, serverVars

LEMMA ClientResendShrinks ==
  ASSUME TypeOK, NEW c \in Clients, NEW queue, NEW live, NEW sending,
         ClientResend(c, queue, live, sending),
         DataOf(queue) \subseteq DataOf(cPackets[c]), UNCHANGED serverVars
  PROVE  Waiting' \subseteq Waiting
<1> DEFINE after == AfterResend(queue, live)
<1>1. DataOf(after) \subseteq DataOf(cPackets[c])
  BY QueueData
<1>2. cPackets' = [cPackets EXCEPT ![c] = after]
  BY DEF ClientResend
<1> HIDE DEF after
<1> QED
  BY <1>1, <1>2, ClientQueueShrinks

LEMMA HousekeepingShrinks ==
  ASSUME NEW known, NEW age, NEW last, NEW told, NEW log, NEW queue,
         NEW sending, UNCHANGED clientVars,
         DataOf(queue) \subseteq DataOf(sPackets),
         ServerHousekeeping(known, age, last, told, log, queue, sending)
  PROVE  Waiting' \subseteq Waiting /\ DataOf(sPackets') \subseteq DataOf(queue)
<1> DEFINE live == known \ Gone(known, age)
<1>1. DataOf(AfterResend(queue, live)) \subseteq DataOf(queue)
  <2> HIDE DEF live
  <2> QED
    BY QueueData
<1>2. sPackets' = AfterResend(queue, live)
  BY DEF ServerHousekeeping
<1> QED
  BY <1>1, <1>2 DEF Waiting, clientVars

\* Adding to a queue is adding to what waits, unless it is not to be kept.
LEMMA EnqueuedData ==
  ASSUME NEW queue, NEW d
  PROVE  \/ DataOf(Enqueued(queue, d)) = DataOf(queue) \cup {d}
         \/ Enqueued(queue, d) = queue
BY DEF Enqueued, NewPacket, DataOf

\* Nothing in the queue goes by the id that a confirmation named.
LEMMA ConfirmedGone ==
  ASSUME NEW queue, NEW d, d.pid = "confirm",
         NEW e \in DataOf(AfterConfirm(queue, d))
  PROVE  Msg(e).id # d.body
BY DEF AfterConfirm, Confirmed, DataOf, Msg

-----------------------------------------------------------------------------
(***************************************************************************)
(* Every step of SNET is a step of the messenger, or none.                 *)
(***************************************************************************)
FirstLife == NoWrap /\ MaxRestarts = 0

LEMMA FirstLifeInvs ==
  ASSUME FirstLife, MessengerInv
  PROVE  /\ TypeOK /\ OwnQueues /\ ClientAcksInv /\ ServerAcksInv /\ ClientIds
         /\ acked \subseteq handled
<1>1. TypeOK /\ OwnQueues /\ ClientAcksInv /\ FirstServerAcksInv /\ ClientIds
  BY DEF MessengerInv, AcksInv, FirstLife
<1>2. sLife = 0
  BY <1>1 DEF FirstLife, TypeOK, ServerTypeOK, Lives
<1>3. ServerAcksInv
  BY <1>1, <1>2 DEF FirstLife, FirstServerAcksInv
<1>4. acked \subseteq handled
  BY <1>1, <1>3
     DEF ClientAcksInv, ServerAcksInv, TypeOK, Message, Endpoints
<1> QED
  BY <1>1, <1>3, <1>4

LEMMA ClientSendImplements ==
  ASSUME FirstLife, MessengerInv, TypeOK', NEW c \in Clients,
         NEW prio \in ClientPriorities, ClientSend(c, prio),
         UNCHANGED serverVars
  PROVE  Messenger!Next
<1> DEFINE d == ClientData(c, prio)
<1>1. TypeOK /\ ClientIds /\ acked \subseteq handled
  BY FirstLifeInvs
<1>2. /\ cPackets' = [cPackets EXCEPT ![c] = Enqueued(cPackets[c], d)]
      /\ d \in net'
      /\ UNCHANGED <<handled, acked>>
  BY DEF ClientSend, ClientData
<1>3. d \in Datagram /\ d.from = c /\ d.id = cUid[c]
  BY <1>2 DEF TypeOK, ClientData
<1>4. Msg(d) \notin Known
  <2>1. Msg(d).from = c /\ Msg(d).id = cUid[c] /\ cUid[c] \in Nat
    BY <1>1, <1>3 DEF Msg, TypeOK, ClientTypeOK, Ids
  <2> QED
    BY <1>1, <2>1 DEF ClientIds
<1> HIDE DEF d
<1>5. Waiting' = Waiting \cup {d} \/ Waiting' \subseteq Waiting
  <2>1. CASE DataOf(Enqueued(cPackets[c], d)) = DataOf(cPackets[c]) \cup {d}
    <3>1. /\ DataOf(cPackets'[c]) = DataOf(cPackets[c]) \cup {d}
          /\ \A e \in Clients \ {c} : cPackets'[e] = cPackets[e]
      BY <1>1, <1>2, <2>1 DEF TypeOK, ClientTypeOK
    <3> QED
      BY <3>1 DEF Waiting, serverVars
  <2>2. CASE Enqueued(cPackets[c], d) = cPackets[c]
    BY <1>1, <1>2, <2>2, ClientQueueShrinks
  <2> QED
    BY <2>1, <2>2, EnqueuedData
<1> QED
  BY <1>1, <1>2, <1>3, <1>4, <1>5, SendStep

LEMMA ServerSendImplements ==
  ASSUME FirstLife, MessengerInv, TypeOK', NEW c \in Clients,
         NEW prio \in ServerPriorities, ServerSend(c, prio),
         UNCHANGED clientVars
  PROVE  Messenger!Next
<1> DEFINE d == ServerData(c, prio)
<1>1. TypeOK /\ ServerAcksInv /\ acked \subseteq handled
  BY FirstLifeInvs
<1>2. /\ sPackets' = Enqueued(sPackets, d)
      /\ d \in net'
      /\ UNCHANGED <<handled, acked>>
  BY DEF ServerSend, ServerData
<1>3. d \in Datagram /\ d.from = Server /\ d.id = sUid
  BY <1>2 DEF TypeOK, ServerData
<1>4. Msg(d) \notin Known
  <2>1. Msg(d).from = Server /\ Msg(d).id = sUid /\ sUid \in Nat
    BY <1>1, <1>3 DEF Msg, TypeOK, ServerTypeOK, Ids
  <2> QED
    BY <1>1, <2>1 DEF ServerAcksInv
<1> HIDE DEF d
<1>5. Waiting' = Waiting \cup {d} \/ Waiting' \subseteq Waiting
  BY <1>2, EnqueuedData DEF Waiting, clientVars
<1> QED
  BY <1>1, <1>2, <1>3, <1>4, <1>5, SendStep

LEMMA ClientFreshImplements ==
  ASSUME FirstLife, MessengerInv, TypeOK', NEW c \in Clients, NEW d \in net,
         ClientFresh(c, d), UNCHANGED serverVars
  PROVE  Messenger!Next
<1> DEFINE queue == AfterConfirm(cPackets[c], d)
<1>1. TypeOK /\ OwnQueues /\ ClientAcksInv
  BY FirstLifeInvs
<1>2. /\ handled' = handled \cup {Msg(d)}
      /\ acked' = acked \cup {Msg(p.data) : p \in cPackets[c] \ queue}
      /\ ClientResend(c, queue, {Server}, Without(d) \cup ClientReplies(c, d))
      /\ d \in Datagram
  BY <1>1 DEF ClientFresh, TypeOK
<1>3. DataOf(queue) \subseteq DataOf(cPackets[c])
  BY QueueData
<1>4. Waiting' \subseteq Waiting
  <2> HIDE DEF queue
  <2> QED
    BY <1>1, <1>2, <1>3, ClientResendShrinks
<1>5. CASE cPackets[c] \ queue = {}
  <2>1. acked' = acked
    BY <1>2, <1>5
  <2> QED
    BY <1>1, <1>2, <1>4, <2>1, HandleStep
<1>6. ASSUME NEW p \in cPackets[c] \ queue
      PROVE  Messenger!Next
  <2> DEFINE m == ClientMsg(c, d.body)
  <2>1. \A q \in cPackets[c] \ queue : Msg(q.data) = m /\ m \in handled
    BY <1>1, ClientFreshConfirms
  <2>2. acked' = acked \cup {m}
    BY <1>2, <1>6, <2>1
  <2>3. d.pid = "confirm"
    BY <1>6, ConfirmedIds
  <2>4. m \in Labels(Waiting)
    BY <1>6, <2>1 DEF Labels, Waiting, DataOf
  <2>5. m.from = c /\ m.id = d.body
    BY DEF ClientMsg
  <2>6. m \notin Labels(Waiting')
    <3>1. SUFFICES ASSUME NEW e \in Waiting' PROVE Msg(e) # m
      BY DEF Labels
    <3>2. CASE e \in DataOf(sPackets')
      <4>1. e.from = Server
        BY <1>1, <3>2 DEF serverVars, OwnQueues
      <4> QED
        BY <2>5, <4>1, ClientsAssumption DEF Msg
    <3>3. ASSUME NEW b \in Clients, b # c, e \in DataOf(cPackets'[b])
          PROVE  Msg(e) # m
      <4>1. cPackets'[b] = cPackets[b]
        BY <1>1, <1>2, <3>3 DEF ClientResend, TypeOK, ClientTypeOK
      <4>2. e.from = b
        BY <1>1, <3>3, <4>1 DEF OwnQueues
      <4> QED
        BY <2>5, <3>3, <4>2 DEF Msg
    <3>4. CASE e \in DataOf(cPackets'[c])
      <4>1. cPackets'[c] = AfterResend(queue, {Server})
        BY <1>1, <1>2 DEF ClientResend, TypeOK, ClientTypeOK
      <4>2. e \in DataOf(queue)
        <5> HIDE DEF queue
        <5> QED
          BY <3>4, <4>1, QueueData
      <4> QED
        BY <2>3, <2>5, <4>2, ConfirmedGone
    <3> QED
      BY <3>2, <3>3, <3>4 DEF Waiting
  <2> HIDE DEF m
  <2> QED
    BY <1>1, <1>2, <1>4, <1>6, <2>1, <2>2, <2>4, <2>6, AcknowledgeStep
<1> QED
  BY <1>5, <1>6

LEMMA ServerFreshImplements ==
  ASSUME FirstLife, MessengerInv, TypeOK', NEW d \in net, ServerFresh(d),
         UNCHANGED clientVars
  PROVE  Messenger!Next
<1> DEFINE queue == AfterConfirm(sPackets, d)
<1>1. TypeOK /\ OwnQueues /\ ServerAcksInv
  BY FirstLifeInvs
<1>2. /\ handled' = handled \cup {Msg(d)}
      /\ acked' = acked \cup {Msg(p.data) : p \in sPackets \ queue}
      /\ d \in Datagram
  BY <1>1 DEF ServerFresh, TypeOK
<1>3. DataOf(queue) \subseteq DataOf(sPackets)
  BY QueueData
<1>4. Waiting' \subseteq Waiting /\ DataOf(sPackets') \subseteq DataOf(queue)
  <2>1. PICK known, age, last, told, log, sending :
          ServerHousekeeping(known, age, last, told, log, queue, sending)
    BY DEF ServerFresh
  <2> HIDE DEF queue
  <2> QED
    BY <1>3, <2>1, HousekeepingShrinks
<1>5. CASE sPackets \ queue = {}
  <2>1. acked' = acked
    BY <1>2, <1>5
  <2> QED
    BY <1>1, <1>2, <1>4, <2>1, HandleStep
<1>6. ASSUME NEW p \in sPackets \ queue
      PROVE  Messenger!Next
  <2> DEFINE m == ServerMsg(d.from, d.body)
  <2>1. \A q \in sPackets \ queue : Msg(q.data) = m /\ m \in handled
    BY <1>1, ServerFreshConfirms
  <2>2. acked' = acked \cup {m}
    BY <1>2, <1>6, <2>1
  <2>3. d.pid = "confirm"
    BY <1>6, ConfirmedIds
  <2>4. m \in Labels(Waiting)
    BY <1>6, <2>1 DEF Labels, Waiting, DataOf
  <2>5. m.from = Server /\ m.id = d.body
    BY DEF ServerMsg
  <2>6. m \notin Labels(Waiting')
    <3>1. SUFFICES ASSUME NEW e \in Waiting' PROVE Msg(e) # m
      BY DEF Labels
    <3>2. CASE e \in DataOf(sPackets')
      BY <1>4, <2>3, <2>5, <3>2, ConfirmedGone
    <3>3. ASSUME NEW b \in Clients, e \in DataOf(cPackets'[b])
          PROVE  Msg(e) # m
      <4>1. e.from = b
        BY <1>1, <3>3 DEF OwnQueues, clientVars
      <4> QED
        BY <2>5, <4>1, ClientsAssumption DEF Msg
    <3> QED
      BY <3>2, <3>3 DEF Waiting
  <2> HIDE DEF m
  <2> QED
    BY <1>1, <1>2, <1>4, <1>6, <2>1, <2>2, <2>4, <2>6, AcknowledgeStep
<1> QED
  BY <1>5, <1>6

LEMMA ClientStepImplements ==
  ASSUME FirstLife, MessengerInv, TypeOK', NEW c \in Clients, ClientStep(c),
         UNCHANGED serverVars
  PROVE  Messenger!Next
<1>1. TypeOK
  BY FirstLifeInvs
<1>2. ASSUME NEW live, NEW sending,
             ClientResend(c, cPackets[c], live, sending),
             UNCHANGED <<handled, acked>>
      PROVE  Messenger!Next
  BY <1>1, <1>2, ClientResendShrinks, GiveUpStep
<1>3. CASE ClientPoll(c)
  BY <1>2, <1>3 DEF ClientPoll
<1>4. ASSUME NEW d, ClientDuplicate(c, d) PROVE Messenger!Next
  BY <1>2, <1>4 DEF ClientDuplicate
<1>5. CASE ClientTick(c)
  <2>1. DataOf(AllDue(cPackets[c])) \subseteq DataOf(cPackets[c])
    BY QueueData
  <2>2. Waiting' \subseteq Waiting
    BY <1>1, <1>5, <2>1, ClientQueueShrinks DEF ClientTick
  <2> QED
    BY <1>1, <1>5, <2>2, GiveUpStep DEF ClientTick
<1>6. CASE ClientStop(c)
  <2>1. Waiting' \subseteq Waiting
    BY <1>6 DEF ClientStop, Waiting, serverVars
  <2> QED
    BY <1>1, <1>6, <2>1, GiveUpStep DEF ClientStop
<1> QED
  BY <1>3, <1>4, <1>5, <1>6, ClientSendImplements, ClientFreshImplements
     DEF ClientStep, ClientProcess

LEMMA ServerStepImplements ==
  ASSUME FirstLife, MessengerInv, TypeOK', ServerStep, UNCHANGED clientVars
  PROVE  Messenger!Next
<1>1. TypeOK
  BY FirstLifeInvs
<1>2. ASSUME NEW known, NEW age, NEW last, NEW told, NEW log, NEW sending,
             ServerHousekeeping(known, age, last, told, log, sPackets, sending),
             UNCHANGED <<handled, acked>>
      PROVE  Messenger!Next
  BY <1>1, <1>2, HousekeepingShrinks, GiveUpStep
<1>3. CASE ServerPoll
  BY <1>2, <1>3 DEF ServerPoll
<1>4. ASSUME NEW d, ServerRefuse(d) PROVE Messenger!Next
  BY <1>2, <1>4 DEF ServerRefuse
<1>5. ASSUME NEW d, ServerDuplicate(d) PROVE Messenger!Next
  BY <1>2, <1>5 DEF ServerDuplicate
<1>6. ASSUME DataOf(sPackets') \subseteq DataOf(sPackets),
             UNCHANGED <<handled, acked>>
      PROVE  Messenger!Next
  <2>1. Waiting' \subseteq Waiting
    BY <1>6 DEF Waiting, clientVars
  <2> QED
    BY <1>1, <1>6, <2>1, GiveUpStep
<1>7. CASE ServerTick
  BY <1>6, <1>7, QueueData DEF ServerTick
<1>8. CASE ServerRestart
  BY <1>6, <1>8 DEF ServerRestart, DataOf
<1>9. CASE \E a \in Blockable : BlockAddress(a) \/ UnblockAddress(a)
  BY <1>6, <1>9 DEF BlockAddress, UnblockAddress
<1> QED
  BY <1>3, <1>4, <1>5, <1>7, <1>8, <1>9, ServerSendImplements,
     ServerFreshImplements
     DEF ServerStep, ServerProcess

LEMMA InitImplements == Init => Messenger!Init
<1> SUFFICES ASSUME Init PROVE Messenger!Init
  OBVIOUS
<1>1. TypeOK
  BY TypeInit
<1>2. Waiting = {}
  BY DEF Init, ClientInit, ServerInit, Waiting, DataOf
<1>3. Pending = {}
  BY <1>1, <1>2, PendingIs
<1> QED
  BY <1>3 DEF Init, ProtocolInit, Messenger!Init

LEMMA NextImplements ==
  ASSUME FirstLife, MessengerInv, [Next]_vars
  PROVE  [Messenger!Next]_(Messenger!messengerVars)
<1>1. TypeOK /\ TypeOK'
  BY FirstLifeInvs, TypeNext
<1>2. ASSUME NEW d, Lose(d), UNCHANGED <<clientVars, serverVars>>
      PROVE  Messenger!Next
  <2>1. Waiting' \subseteq Waiting
    BY <1>2 DEF Waiting, clientVars, serverVars
  <2> QED
    BY <1>1, <1>2, <2>1, GiveUpStep DEF Lose
<1>3. CASE UNCHANGED vars
  BY <1>3
     DEF vars, clientVars, serverVars, Pending, Messenger!messengerVars
<1> QED
  BY <1>1, <1>2, <1>3, ClientStepImplements, ServerStepImplements DEF Next

\* SNET implements the messenger, for any number of clients: a message is sent
\* once and is pending until it is given up or acknowledged, and none is
\* acknowledged that was not handled (client.lua:26-122, server.lua:80-189).
THEOREM SnetImplementsMessenger ==
  ASSUME NoWrap, MaxRestarts = 0 PROVE Spec => ImplementsMessenger
<1>1. FirstLife
  BY DEF FirstLife
<1>2. Init => MessengerInv /\ Messenger!Init
  BY MessengerInvInit, InitImplements
<1>3. MessengerInv /\ [Next]_vars
        => MessengerInv' /\ [Messenger!Next]_(Messenger!messengerVars)
  BY <1>1, MessengerInvNext, NextImplements
<1> QED
  BY <1>2, <1>3, PTL DEF Spec, ImplementsMessenger, Messenger!Spec
=============================================================================
