------------------------------- MODULE MCSnet -------------------------------
(***************************************************************************)
(* Instances of Snet for TLC.                                              *)
(***************************************************************************)
EXTENDS Snet

CONSTANTS c1, c2, a1

OneClient  == {c1}
TwoClients == {c1, c2}
OneAddress == {a1}
NoAddress  == {}

\* Both clients sit behind one address, as behind a NAT.
Shared == [c \in Clients |-> a1]

Silent == {}
Bypass == {SNET_BYPASS_PRIORITY}
Low    == {SNET_LOW_PRIORITY}
System == {SNET_SYSTEM_PRIORITY}
SystemAndLow == System \cup Low
Bounded == {SNET_HIGH_PRIORITY, SNET_MEDIUM_PRIORITY, SNET_LOW_PRIORITY}
=============================================================================
