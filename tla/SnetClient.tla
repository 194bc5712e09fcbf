----------------------------- MODULE SnetClient -----------------------------
(***************************************************************************)
(* The client end of SNET (SNET/client.lua): objects made by snet.client,  *)
(* one per Lua state.  client:process() is one action: at most one         *)
(* datagram is received, then every packet that is due is resent.          *)
(*                                                                         *)
(* A handler may call client:send; since the new packet gets a fresh id    *)
(* and is not due, that is the same as a ClientSend right after the step.  *)
(***************************************************************************)
EXTENDS SnetProtocol

VARIABLES
  running,     \* the clients whose program still runs
  cUid,        \* client.unique_id
  cConnected,  \* is client.status SNET_CONNECTED?
  cLast,       \* client.last_ids
  cPackets,    \* client.packets
  cLog         \* history: the ids given to the client's handlers, in order

clientVars == <<running, cUid, cConnected, cLast, cPackets, cLog>>

ClientInit ==
  /\ running = Clients
  /\ cUid = [c \in Clients |-> 0]
  /\ cConnected = [c \in Clients |-> FALSE]
  /\ cLast = [c \in Clients |-> <<>>]
  /\ cPackets = [c \in Clients |-> {}]
  /\ cLog = [c \in Clients |-> <<>>]

\* Mutant: the status is never set.
NoLivePeers(c) == {}

\* The peers client c believes to be there.
LivePeers(c) == IF cConnected[c] THEN {Server} ELSE {}

\* client:send(packet_id, stream, priority)
ClientSend(c, prio) ==
  LET d == [from |-> c, to |-> Server, id |-> cUid[c], life |-> 0,
            pid |-> "data", prio |-> prio, body |-> 0]
  IN /\ c \in running
     /\ MaySend(cUid[c])
     /\ FreeId(cPackets[c], cUid[c])
     /\ cUid' = [cUid EXCEPT ![c] = NextId(@)]
     /\ net' = net \cup {d}
     /\ cPackets' = [cPackets EXCEPT ![c] = Enqueued(@, d)]
     /\ UNCHANGED <<running, cConnected, cLast, cLog, handled, acked>>

\* resend_packets on what is left of the queue, with what was sent before it.
ClientResend(c, queue, live, sending) ==
  /\ cPackets' = [cPackets EXCEPT ![c] = AfterResend(queue, live)]
  /\ net' = sending \cup Retransmissions(queue)

\* process() with nothing (or no SNET datagram) to receive
ClientPoll(c) ==
  /\ c \in running
  /\ ClientResend(c, cPackets[c], LivePeers(c), net)
  /\ UNCHANGED <<running, cUid, cConnected, cLast, cLog, handled, acked>>

ClientReplies(c, d) == Replies(d, cUid[c], 0)

ClientReceives(c, d) ==
  /\ c \in running
  /\ d \in net
  /\ d.to = c
  /\ cUid' = [cUid EXCEPT ![c] = IdAfter(ClientReplies(c, d), @)]
  /\ UNCHANGED running

\* process() with a datagram whose id is remembered
ClientDuplicate(c, d) ==
  /\ ClientReceives(c, d)
  /\ d.id \in Range(cLast[c])
  /\ ClientResend(c, cPackets[c], LivePeers(c),
                  Without(d) \cup ClientReplies(c, d))
  /\ UNCHANGED <<cConnected, cLast, cLog, handled, acked>>

\* process() with a datagram whose id is not remembered
ClientFresh(c, d) ==
  LET queue == AfterConfirm(cPackets[c], d)
  IN /\ ClientReceives(c, d)
     /\ d.id \notin Range(cLast[c])
     /\ cLast' = [cLast EXCEPT ![c] = Remember(@, d.id)]
     /\ cConnected' = [cConnected EXCEPT ![c] = TRUE]
     /\ cLog' = [cLog EXCEPT ![c] = Logged(@, d.id)]
     /\ handled' = handled \cup {Msg(d)}
     /\ acked' = acked \cup {Msg(p.data) : p \in cPackets[c] \ queue}
     /\ ClientResend(c, queue, {Server}, Without(d) \cup ClientReplies(c, d))

\* os.time() moves on at client c
ClientTick(c) ==
  /\ c \in running
  /\ cPackets' = [cPackets EXCEPT ![c] = AllDue(@)]
  /\ UNCHANGED <<running, cUid, cConnected, cLast, cLog, net, handled, acked>>

\* The client's program ends; it has no way to tell the server.
ClientStop(c) ==
  /\ c \in running
  /\ running' = running \ {c}
  /\ UNCHANGED <<cUid, cConnected, cLast, cPackets, cLog, net, handled, acked>>

ClientProcess(c) ==
  ClientPoll(c) \/ \E d \in net : ClientDuplicate(c, d) \/ ClientFresh(c, d)

ClientTypeOK ==
  /\ running \subseteq Clients
  /\ cUid \in [Clients -> Ids]
  /\ cConnected \in [Clients -> BOOLEAN]
  /\ cLast \in [Clients -> Seq(Ids)]
  /\ cPackets \in [Clients -> SUBSET Packet]
  /\ cLog \in [Clients -> Seq(Ids)]
=============================================================================
