---------------------------- MODULE SparseArray -----------------------------
(* What google/sparsetable promises (lines 33-46): an array in which each    *)
(* index is assigned a value or is not.                                      *)
EXTENDS Naturals, Functions

CONSTANTS Values, MaxSize
VARIABLES size, assigned    \* assigned: from the assigned indices to their values

Init == size = 0 /\ assigned = <<>>

Assign(i, v) ==
    /\ i < size
    /\ assigned' = [j \in DOMAIN assigned \cup {i} |-> IF j = i THEN v ELSE assigned[j]]
    /\ UNCHANGED size
Unassign(i) == i < size /\ assigned' = Restrict(assigned, DOMAIN assigned \ {i}) /\ UNCHANGED size
UnassignAll == assigned' = <<>> /\ UNCHANGED size
ChangeSize(n) == size' = n /\ assigned' = Restrict(assigned, DOMAIN assigned \cap (0 .. n - 1))

Next ==
    \/ \E i \in 0 .. MaxSize - 1 : Unassign(i) \/ \E v \in Values : Assign(i, v)
    \/ UnassignAll
    \/ \E n \in 0 .. MaxSize : ChangeSize(n)

vars == <<size, assigned>>
Spec == Init /\ [][Next]_vars
=============================================================================
