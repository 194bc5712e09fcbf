----------------------------- MODULE SnetServer -----------------------------
(***************************************************************************)
(* The server end of SNET (SNET/server.lua).  server:process() is one      *)
(* action: at most one datagram is received, then silent clients are       *)
(* forgotten, then every packet that is due is resent.                     *)
(*                                                                         *)
(* What handlers may call (send, block_address, unblock_address) is the    *)
(* same right after the step: a packet they send has a fresh id and is not *)
(* due, and nothing after the handlers reads the blacklist.                *)
(***************************************************************************)
EXTENDS SnetProtocol

CONSTANTS
  AddressOf,   \* the IP address of each client; several may share one
  Blockable,   \* the addresses the application may block
  Timeout,     \* seconds of silence after which a client is forgotten (60)
  BlockQuiet   \* seconds between two BLOCK notices to an address (60)

ASSUME AddressAssumption == DOMAIN AddressOf = Clients
ASSUME TimeoutAssumption ==
  Timeout \in Nat \ {0} /\ BlockQuiet \in Nat \ {0}

VARIABLES
  sLife,     \* how often the server was restarted
  sUid,      \* server.unique_id
  sClients,  \* the keys of server.clients
  sAge,      \* os.time() - server.clients[k], capped at Timeout; else 0
  sLast,     \* server.last_ids, <<>> where the code has no entry
  sPackets,  \* server.packets
  sBlack,    \* the addresses in server.blacklist
  sQuiet,    \* seconds before the next BLOCK notice to an address is due
  sSession,  \* history: what onClientUpdate last said of each client
  sLog       \* history: ids given to the handlers since the client connected

serverVars ==
  <<sLife, sUid, sClients, sAge, sLast, sPackets, sBlack, sQuiet,
    sSession, sLog>>

ServerInit ==
  /\ sLife = 0
  /\ sUid = 0
  /\ sClients = {}
  /\ sAge = [c \in Clients |-> 0]
  /\ sLast = [c \in Clients |-> <<>>]
  /\ sPackets = {}
  /\ sBlack = {}
  /\ sQuiet = [a \in Blockable |-> 0]
  /\ sSession = [c \in Clients |-> "none"]
  /\ sLog = [c \in Clients |-> <<>>]

\* server:send(packet_id, stream, priority, address, port)
ServerSend(c, prio) ==
  LET d == [from |-> Server, to |-> c, id |-> sUid, life |-> sLife,
            pid |-> "data", prio |-> prio, body |-> 0]
  IN /\ MaySend(sUid)
     /\ FreeId(sPackets, sUid)
     /\ sUid' = NextId(sUid)
     /\ net' = net \cup {d}
     /\ sPackets' = Enqueued(sPackets, d)
     /\ UNCHANGED <<sLife, sClients, sAge, sLast, sBlack, sQuiet, sSession,
                    sLog, handled, acked>>

BlockAddress(a) ==
  /\ a \notin sBlack
  /\ sBlack' = sBlack \cup {a}
  /\ UNCHANGED <<sLife, sUid, sClients, sAge, sLast, sPackets, sQuiet,
                 sSession, sLog, net, handled, acked>>

UnblockAddress(a) ==
  /\ a \in sBlack
  /\ sBlack' = sBlack \ {a}
  /\ sQuiet' = [sQuiet EXCEPT ![a] = 0]
  /\ UNCHANGED <<sLife, sUid, sClients, sAge, sLast, sPackets, sSession,
                 sLog, net, handled, acked>>

(***************************************************************************)
(* The end of process(): the clients not heard of for Timeout seconds are  *)
(* forgotten with their window, then the due packets are resent.  The      *)
(* arguments are what receiving has made of the state.                     *)
(***************************************************************************)
Gone(known, age) == {c \in known : age[c] >= Timeout}

\* Mutant: the entries stay.
NotCleared(f, gone, value) == f

\* Table f without what it holds for the clients in gone.
Cleared(f, gone, value) ==
  [c \in Clients |-> IF c \in gone THEN value ELSE f[c]]

ServerHousekeeping(known, age, last, told, log, queue, sending) ==
  LET gone == Gone(known, age)
  IN /\ sClients' = known \ gone
     /\ sAge' = Cleared(age, gone, 0)
     /\ sLast' = Cleared(last, gone, <<>>)
     /\ sSession' = Cleared(told, gone, "timeout")
     /\ sLog' = Cleared(log, gone, <<>>)
     /\ sPackets' = AfterResend(queue, known \ gone)
     /\ net' = sending \cup Retransmissions(queue)
     /\ UNCHANGED <<sLife, sBlack>>

\* Mutant: silent clients are looked for only when a datagram came in.
ServerPollResendOnly ==
  /\ sPackets' = AfterResend(sPackets, sClients)
  /\ net' = net \cup Retransmissions(sPackets)
  /\ UNCHANGED <<sLife, sUid, sClients, sAge, sLast, sBlack, sQuiet, sSession,
                 sLog, handled, acked>>

\* process() with nothing (or no SNET datagram) to receive
ServerPoll ==
  /\ ServerHousekeeping(sClients, sAge, sLast, sSession, sLog, sPackets, net)
  /\ UNCHANGED <<sUid, sQuiet, handled, acked>>

BlockNotices(d) ==
  IF sQuiet[AddressOf[d.from]] = 0 /\ MaySend(sUid)
  THEN {[from |-> Server, to |-> d.from, id |-> sUid, life |-> sLife,
         pid |-> "block", prio |-> SNET_BYPASS_PRIORITY, body |-> 0]}
  ELSE {}

\* process() with a datagram from a blacklisted address: dropped, and answered
\* with a BLOCK notice if the last one is old enough
ServerRefuse(d) ==
  /\ d \in net
  /\ d.to = Server
  /\ AddressOf[d.from] \in sBlack
  /\ sUid' = IdAfter(BlockNotices(d), sUid)
  /\ sQuiet' = [sQuiet EXCEPT ![AddressOf[d.from]] =
                  IF @ = 0 THEN BlockQuiet ELSE @]
  /\ ServerHousekeeping(sClients, sAge, sLast, sSession, sLog, sPackets,
                        Without(d) \cup BlockNotices(d))
  /\ UNCHANGED <<handled, acked>>

ServerReplies(d) == Replies(d, sUid, sLife)

ServerReceives(d) ==
  /\ d \in net
  /\ d.to = Server
  /\ AddressOf[d.from] \notin sBlack
  /\ sUid' = IdAfter(ServerReplies(d), sUid)
  /\ UNCHANGED sQuiet

\* process() with a datagram whose id is remembered: it is confirmed again,
\* and does not count as a sign of life
ServerDuplicate(d) ==
  /\ ServerReceives(d)
  /\ d.id \in Range(sLast[d.from])
  /\ ServerHousekeeping(sClients, sAge, sLast, sSession, sLog, sPackets,
                        Without(d) \cup ServerReplies(d))
  /\ UNCHANGED <<handled, acked>>

\* process() with a datagram whose id is not remembered
ServerFresh(d) ==
  LET c == d.from
      queue == AfterConfirm(sPackets, d)
  IN /\ ServerReceives(d)
     /\ d.id \notin Range(sLast[c])
     /\ handled' = handled \cup {Msg(d)}
     /\ acked' = acked \cup {Msg(p.data) : p \in sPackets \ queue}
     /\ ServerHousekeeping(
          sClients \cup {c},
          [sAge EXCEPT ![c] = 0],
          [sLast EXCEPT ![c] = Remember(@, d.id)],
          [sSession EXCEPT ![c] = "connected"],
          [sLog EXCEPT ![c] = Logged(@, d.id)],
          queue,
          Without(d) \cup ServerReplies(d))

\* os.time() moves on at the server
ServerTick ==
  /\ sAge' = [c \in Clients |-> IF c \in sClients /\ sAge[c] < Timeout
                                THEN sAge[c] + 1 ELSE sAge[c]]
  /\ sQuiet' = [a \in Blockable |-> IF sQuiet[a] > 0
                                    THEN sQuiet[a] - 1 ELSE 0]
  /\ sPackets' = AllDue(sPackets)
  /\ UNCHANGED <<sLife, sUid, sClients, sLast, sBlack, sSession, sLog,
                 net, handled, acked>>

\* The server's program ends and is started again: nothing is persisted.
ServerRestart ==
  /\ sLife < MaxRestarts
  /\ sLife' = sLife + 1
  /\ sUid' = 0
  /\ sClients' = {}
  /\ sAge' = [c \in Clients |-> 0]
  /\ sLast' = [c \in Clients |-> <<>>]
  /\ sPackets' = {}
  /\ sBlack' = {}
  /\ sQuiet' = [a \in Blockable |-> 0]
  /\ sSession' = [c \in Clients |-> "none"]
  /\ sLog' = [c \in Clients |-> <<>>]
  /\ UNCHANGED <<net, handled, acked>>

ServerProcess ==
  \/ ServerPoll
  \/ \E d \in net :
       ServerRefuse(d) \/ ServerDuplicate(d) \/ ServerFresh(d)

ServerTypeOK ==
  /\ sLife \in Lives
  /\ sUid \in Ids
  /\ sClients \subseteq Clients
  /\ sAge \in [Clients -> 0..Timeout]
  /\ sLast \in [Clients -> Seq(Ids)]
  /\ sPackets \subseteq Packet
  /\ sBlack \subseteq Blockable
  /\ sQuiet \in [Blockable -> 0..BlockQuiet]
  /\ sSession \in [Clients -> {"none", "connected", "timeout"}]
  /\ sLog \in [Clients -> Seq(Ids)]
=============================================================================
