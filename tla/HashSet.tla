------------------------------ MODULE HashSet ------------------------------
(* What a hash set promises its user: a set of keys and truthful replies.   *)
(* Where a key is stored, when the table is rebuilt and what deleting       *)
(* leaves behind is not visible here.                                       *)
EXTENDS Integers, FiniteSets

CONSTANT Keys

VARIABLES contents, \* the keys in the set
          reply     \* what the last call returned

Init == contents = {} /\ reply = <<"none">>

Insert(k) == /\ reply' = <<"insert", k, k \notin contents>>
             /\ contents' = contents \cup {k}

InsertAll(S) == /\ reply' = <<"done">>
                /\ contents' = contents \cup S

Erase(k) == /\ reply' = <<"erase", k, k \in contents>>
            /\ contents' = contents \ {k}

EraseSome(S) == /\ reply' = <<"erased", S>>
                /\ contents' = contents \ S

Find(k) == /\ reply' = <<"find", k, k \in contents>>
           /\ UNCHANGED contents

Clear == reply' = <<"cleared">> /\ contents' = {}

Reorganise == reply' = <<"done">> /\ UNCHANGED contents

Next ==
    \/ \E k \in Keys : Insert(k) \/ Erase(k) \/ Find(k)
    \/ \E S \in SUBSET Keys : InsertAll(S) \/ EraseSome(S)
    \/ Clear
    \/ Reorganise

vars == <<contents, reply>>
Spec == Init /\ [][Next]_vars
=============================================================================
