---------------------------- MODULE SnetMessenger ----------------------------
(***************************************************************************)
(* What SNET promises about one-way messages, seen from outside: a message *)
(* sent with a priority above BYPASS is pending until the sender gives it  *)
(* up or learns that it was handled, and it learns that of nothing but     *)
(* messages the other end's handlers were given.                           *)
(***************************************************************************)
CONSTANT Messages

VARIABLES
  pending,  \* sent, neither acknowledged nor given up
  handled,  \* given to the handlers of the receiver
  acked     \* known by the sender to be handled

messengerVars == <<pending, handled, acked>>

Init ==
  /\ pending = {}
  /\ handled = {}
  /\ acked = {}

\* Every message is sent once.
Send(m) ==
  /\ m \notin pending \cup handled \cup acked
  /\ pending' = pending \cup {m}
  /\ UNCHANGED <<handled, acked>>

\* The receiver's handlers get m (a second time, perhaps), and its sender may
\* give up messages meanwhile.
Handle(m) ==
  /\ handled' = handled \cup {m}
  /\ pending' \subseteq pending
  /\ UNCHANGED acked

\* The sender learns, from message n, that m was handled.
Acknowledge(m, n) ==
  /\ m \in pending \cap handled
  /\ acked' = acked \cup {m}
  /\ handled' = handled \cup {n}
  /\ pending' \subseteq pending \ {m}

GiveUp ==
  /\ pending' \subseteq pending
  /\ UNCHANGED <<handled, acked>>

Next ==
  \/ GiveUp
  \/ \E m \in Messages : Send(m) \/ Handle(m)
  \/ \E m, n \in Messages : Acknowledge(m, n)

Spec == Init /\ [][Next]_messengerVars
=============================================================================
