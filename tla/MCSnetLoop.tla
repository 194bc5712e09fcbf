----------------------------- MODULE MCSnetLoop -----------------------------
(***************************************************************************)
(* Small instances of Snet that differ in their constants: what a server   *)
(* or a client does as its loop goes on, ids that wrap around, and two     *)
(* clients of one server.  `part' is chosen at the start.                  *)
(***************************************************************************)
EXTENDS Integers

VARIABLES
  part,
  net, handled, acked,
  running, cUid, cConnected, cLast, cPackets, cLog,
  sLife, sUid, sClients, sAge, sLast, sPackets, sBlack, sQuiet, sSession, sLog

(***************************************************************************)
(* The server sends; its client may end, and be blocked.                   *)
(***************************************************************************)
AtServer == INSTANCE Snet
  WITH Clients <- {"c1"}, Server <- "server", AddressOf <- [c \in {"c1"} |-> "a1"],
       Blockable <- {"a1"}, ClientPriorities <- {}, ServerPriorities <- {1, 4},
       HighTries <- 1, MediumTries <- 1, LowTries <- 1, Window <- 1, IdSpace <- 3,
       MaxId <- 2, History <- 1, MaxRestarts <- 0, Duplication <- FALSE,
       Timeout <- 1, BlockQuiet <- 1

(***************************************************************************)
(* The client sends, and a packet has two tries.                           *)
(***************************************************************************)
AtClient == INSTANCE Snet
  WITH Clients <- {"c1"}, Server <- "server", AddressOf <- [c \in {"c1"} |-> "a1"],
       Blockable <- {}, ClientPriorities <- {1}, ServerPriorities <- {},
       HighTries <- 1, MediumTries <- 1, LowTries <- 2, Window <- 1, IdSpace <- 3,
       MaxId <- 2, History <- 1, MaxRestarts <- 0, Duplication <- FALSE,
       Timeout <- 1, BlockQuiet <- 1

(***************************************************************************)
(* The ids are used again and again.                                       *)
(***************************************************************************)
Wraps == INSTANCE Snet
  WITH Clients <- {"c1"}, Server <- "server", AddressOf <- [c \in {"c1"} |-> "a1"],
       Blockable <- {}, ClientPriorities <- {0}, ServerPriorities <- {},
       HighTries <- 1, MediumTries <- 1, LowTries <- 1, Window <- 2, IdSpace <- 4,
       MaxId <- 4, History <- 3, MaxRestarts <- 0, Duplication <- TRUE,
       Timeout <- 1, BlockQuiet <- 1

(***************************************************************************)
(* Two clients behind one address, as behind a NAT.                        *)
(***************************************************************************)
Both == INSTANCE Snet
  WITH Clients <- {"c1", "c2"}, Server <- "server",
       AddressOf <- [c \in {"c1", "c2"} |-> "a1"],
       Blockable <- {}, ClientPriorities <- {}, ServerPriorities <- {4},
       HighTries <- 1, MediumTries <- 1, LowTries <- 1, Window <- 1, IdSpace <- 3,
       MaxId <- 2, History <- 1, MaxRestarts <- 0, Duplication <- TRUE,
       Timeout <- 1, BlockQuiet <- 1

-----------------------------------------------------------------------------
clientVars == <<running, cUid, cConnected, cLast, cPackets, cLog>>
serverVars ==
  <<sLife, sUid, sClients, sAge, sLast, sPackets, sBlack, sQuiet, sSession, sLog>>
vars == <<part, net, handled, acked, clientVars, serverVars>>

Init ==
  \/ part = "server" /\ AtServer!Init
  \/ part = "client" /\ AtClient!Init
  \/ part = "wraps" /\ Wraps!Init
  \/ part = "both" /\ Both!Init

Next ==
  /\ UNCHANGED part
  /\ \/ part = "server" /\ AtServer!Next
     \/ part = "client" /\ AtClient!Next
     \/ part = "wraps" /\ Wraps!Next
     \/ part = "both" /\ Both!Next

(***************************************************************************)
(* Of the instances `server' and `client' the programs call process() in a *)
(* loop, and their clocks advance (LoopFairness in Snet).                  *)
(***************************************************************************)
OfClient(server, client) ==
  /\ UNCHANGED <<part, serverVars>>
  /\ \/ part = "server" /\ server
     \/ part = "client" /\ client

OfServer(server, client) ==
  /\ UNCHANGED <<part, clientVars>>
  /\ \/ part = "server" /\ server
     \/ part = "client" /\ client

Spec ==
  /\ Init /\ [][Next]_vars
  /\ WF_vars(OfClient(AtServer!ClientProcess("c1"), AtClient!ClientProcess("c1")))
  /\ WF_vars(OfClient(AtServer!ClientTick("c1"), AtClient!ClientTick("c1")))
  /\ WF_vars(OfServer(AtServer!ServerProcess, AtClient!ServerProcess))
  /\ WF_vars(OfServer(AtServer!ServerTick, AtClient!ServerTick))

-----------------------------------------------------------------------------
(***************************************************************************)
(* Properties, stated in Snet.                                             *)
(***************************************************************************)
\* With ids that wrap around the state stays well typed and the duplicate check
\* holds up to the length of the window, although old ids come back; with two
\* clients a confirmation matched by id alone never removes a packet whose own
\* addressee has not handled it.
StaysSafe ==
  CASE part = "wraps" -> Wraps!TypeOK /\ Wraps!NoNearDuplicate /\ Wraps!SessionsAgree
    [] part = "both"  -> Both!TypeOK /\ Both!ServerAcksSound /\ Both!SessionsAgree
    [] OTHER -> TRUE

\* HIGH, MEDIUM and LOW packets of both ends leave the queue, and so do SYSTEM
\* packets of the server for a client that has ended.
PacketsLeave ==
  /\ part = "server" =>
       AtServer!BoundedPacketsLeave /\ AtServer!StoppedClientsNotServed
  /\ part = "client" => AtClient!BoundedPacketsLeave

\* The server forgets a client that has ended, and one whose address stays
\* blocked.
ClientsForgotten ==
  part = "server" =>
    AtServer!StoppedClientsForgotten /\ AtServer!BlockedClientsForgotten
=============================================================================
