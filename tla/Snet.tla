-------------------------------- MODULE Snet --------------------------------
(***************************************************************************)
(* SNET as a whole: one server and its clients over UDP, which loses,      *)
(* reorders and (if Duplication) duplicates datagrams.                     *)
(***************************************************************************)
EXTENDS SnetClient, SnetServer

vars == <<net, handled, acked, clientVars, serverVars>>

Init == ProtocolInit /\ ClientInit /\ ServerInit

ClientStep(c) ==
  \/ \E prio \in ClientPriorities : ClientSend(c, prio)
  \/ ClientProcess(c)
  \/ ClientTick(c)
  \/ ClientStop(c)

ServerStep ==
  \/ \E c \in Clients, prio \in ServerPriorities : ServerSend(c, prio)
  \/ \E a \in Blockable : BlockAddress(a) \/ UnblockAddress(a)
  \/ ServerProcess
  \/ ServerTick
  \/ ServerRestart

Next ==
  \/ \E c \in Clients : ClientStep(c) /\ UNCHANGED serverVars
  \/ ServerStep /\ UNCHANGED clientVars
  \/ \E d \in net : Lose(d) /\ UNCHANGED <<clientVars, serverVars>>

Spec == Init /\ [][Next]_vars

(***************************************************************************)
(* Fairness: programs call process() in a loop for as long as they run     *)
(* (examples/lua/client.lua:20, server.lua:21), and clocks advance.        *)
(***************************************************************************)
LoopFairness ==
  /\ \A c \in Clients : /\ WF_vars(ClientProcess(c) /\ UNCHANGED serverVars)
                        /\ WF_vars(ClientTick(c) /\ UNCHANGED serverVars)
  /\ WF_vars(ServerProcess /\ UNCHANGED clientVars)
  /\ WF_vars(ServerTick /\ UNCHANGED clientVars)

LoopSpec == Spec /\ LoopFairness

\* The server receives the client's data message with this id.
ServerTakes(c, id) ==
  /\ \E d \in net : /\ d.from = c /\ d.id = id
                    /\ ServerDuplicate(d) \/ ServerFresh(d)
  /\ UNCHANGED clientVars

\* ... and of a message sent again and again, the network delivers some copy.
FairNetworkSpec ==
  /\ LoopSpec
  /\ \A c \in Clients, id \in 0..(MaxId - 1) : SF_vars(ServerTakes(c, id))

-----------------------------------------------------------------------------
(***************************************************************************)
(* Safety.                                                                 *)
(***************************************************************************)
\* Every variable of the two ends and of the network stays in its domain
\* (server.lua, client.lua: the fields of the objects).
TypeOK ==
  /\ net \subseteq Datagram
  /\ handled \subseteq Message
  /\ acked \subseteq Message
  /\ ClientTypeOK
  /\ ServerTypeOK

\* A packet a client removes from its queue on a confirmation was given to the
\* server's handlers, by whichever run of the server program: although the
\* confirmation is sent before the duplicate check (server.lua:90) and matched
\* by id alone (client.lua:63), it is never for a packet nobody handled.
ClientAcksSound == NoWrap => \A m \in acked : m.from \in Clients => m \in handled

\* The same for the server's packets, as long as the server was not restarted:
\* a new server reuses the ids the clients still remember.
ServerAcksSound ==
  NoWrap /\ sLife = 0 => \A m \in acked : m.from = Server => m \in handled

\* No end, client or server, takes a packet for confirmed that the other did not handle.
AcksSound == ClientAcksSound /\ ServerAcksSound

\* No id is given to the handlers twice within Window + 1 deliveries of one
\* session: the duplicate check (client.lua:42, server.lua:100) holds up to the
\* length of the window, whatever is lost, duplicated or resent.
Apart(log) ==
  \A i, j \in DOMAIN log : i < j /\ log[i] = log[j] => j - i > Window

NoNearDuplicate ==
  /\ \A c \in Clients : Apart(cLog[c])
  /\ \A c \in Clients : Apart(sLog[c])

\* What onClientUpdate last told the application, the table of clients and the
\* windows agree: a client is known exactly if it was last reported connected,
\* and exactly then a window is kept for it (server.lua:96, 109, 195).
SessionsAgree ==
  \A c \in Clients :
    /\ c \in sClients <=> sSession[c] = "connected"
    /\ c \in sClients <=> sLast[c] # <<>>

\* SNET implements the messenger: messages are handled, acknowledged and given
\* up in the order it allows (client.lua:26-122, server.lua:80-189).
Pending == {Msg(p.data) : p \in sPackets \cup UNION Range(cPackets)}

Messenger == INSTANCE SnetMessenger WITH Messages <- Message, pending <- Pending

ImplementsMessenger == Messenger!Spec

-----------------------------------------------------------------------------
(***************************************************************************)
(* Liveness.                                                               *)
(***************************************************************************)
\* A HIGH, MEDIUM or LOW packet leaves the queue sooner or later, confirmed or
\* given up, even when the other end is gone (client.lua:115, server.lua:182).
BoundedPacketsLeave ==
  \A id \in 0..(MaxId - 1) :
    LET Waits(p) == p.data.id = id /\ p.data.prio # SNET_SYSTEM_PRIORITY
    IN /\ (\E p \in sPackets : Waits(p)) ~> (\A p \in sPackets : ~ Waits(p))
       /\ \A c \in Clients :
            (\E p \in cPackets[c] : Waits(p)) ~>
              (c \notin running \/ \A p \in cPackets[c] : ~ Waits(p))

\* The server forgets a client whose program ended, whatever is still in flight
\* (server.lua:194), and the SYSTEM packets for it leave the queue (line 181).
StoppedClientsForgotten ==
  \A c \in Clients : c \notin running ~> c \notin sClients

StoppedClientsNotServed ==
  \A c \in Clients : \A id \in 0..(MaxId - 1) :
    (\E p \in sPackets : p.data.to = c /\ p.data.id = id /\ c \notin running) ~>
      (\A p \in sPackets : p.data.to = c => p.data.id # id)

\* A client whose address stays blocked is forgotten, however often it sends
\* (server.lua:65-72: a refused datagram is no sign of life).
BlockedClientsForgotten ==
  \A c \in Clients :
    AddressOf[c] \in sBlack ~> (c \notin sClients \/ AddressOf[c] \notin sBlack)

\* A SYSTEM packet of a connected client reaches the server's handlers however
\* many datagrams are lost, unless the client ends or is blocked
\* (client.lua:114: such a packet is resent until it is confirmed).
SystemPacketsHandled ==
  \A c \in Clients : \A id \in 0..(MaxId - 1) :
    (/\ cConnected[c]
     /\ \E p \in cPackets[c] : /\ p.data.id = id
                               /\ p.data.prio = SNET_SYSTEM_PRIORITY) ~>
      (\/ [from |-> c, to |-> Server, id |-> id, life |-> 0] \in handled
       \/ c \notin running
       \/ AddressOf[c] \in sBlack)

-----------------------------------------------------------------------------
\* examples/lua/server.lua:7 says that after a timeout the server regards the
\* user as disconnected and stops sending it packets again.
NoResendAfterTimeout ==
  [][\A p \in sPackets, q \in sPackets' :
       /\ sSession[p.data.to] = "timeout"
       /\ sSession'[p.data.to] = "timeout"
       /\ p.data = q.data
       => q.times = p.times]_vars
=============================================================================
