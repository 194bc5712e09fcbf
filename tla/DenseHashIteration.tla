------------------------- MODULE DenseHashIteration -------------------------
(* A loop over the table that erases while it iterates: an iterator is a    *)
(* bucket number, and erase(iterator) is called between its increments, as  *)
(* MapRemove and the usual cleaning loops do.  Everything that may rebuild  *)
(* the table ends the loop, since its iterator must not be used after that. *)
EXTENDS DenseHashTable

CONSTANT NoLoop

VARIABLES pos,     \* the loop's iterator, NoLoop outside a loop
          pending  \* ghost: keys there when the loop began, not visited nor erased

\* The first live bucket from b on, bucket_count() at the end.
advance(h, b) ==
    IF \A c \in LiveBuckets(h) : c < b THEN bucket_count(h)
    ELSE Min({c \in LiveBuckets(h) : c >= b})

Stored(h) == {h.table[b] : b \in LiveBuckets(h)}

LoopInit == Init /\ pos = NoLoop /\ pending = {}

Begin ==
    /\ pos = NoLoop
    /\ pos' = advance(ht, 0)
    /\ pending' = Stored(ht)
    /\ UNCHANGED vars

InLoop == pos # NoLoop /\ pos \in DOMAIN ht.table

\* ++it
Visit ==
    /\ InLoop
    /\ pos' = advance(ht, pos + 1)
    /\ pending' = pending \ {ht.table[pos]}
    /\ UNCHANGED vars

\* erase(it++): the iterator moves on before the entry is overwritten.
VisitAndErase ==
    /\ InLoop /\ ht.deleted_key # NoKey
    /\ ht' = set_deleted(ht, {pos})
    /\ pos' = advance(ht, pos + 1)
    /\ pending' = pending \ {ht.table[pos]}
    /\ reply' = <<"erased", {ht.table[pos]}>>

\* Another entry is erased by key from within the loop's body, or looked up.
EraseInLoop(key) ==
    /\ InLoop
    /\ key # ht.table[pos]
    /\ Erase(key)
    /\ pending' = pending \ {key}
    /\ UNCHANGED pos

EndLoop ==
    /\ pos # NoLoop /\ pos \notin DOMAIN ht.table
    /\ pos' = NoLoop /\ pending' = {}
    /\ UNCHANGED vars

\* Outside a loop the table is used freely.
Between == pos = NoLoop /\ Next /\ UNCHANGED <<pos, pending>>

LoopNext ==
    \/ Begin \/ Visit \/ VisitAndErase \/ EndLoop
    \/ \E key \in Keys : EraseInLoop(key)
    \/ Between

LoopSpec == LoopInit /\ [][LoopNext]_<<vars, pos, pending>>

\* A loop that erases as it goes still visits every other key that was there
\* when it began, none of them twice: nothing is moved before the next insert
\* ("will think about shrink after next insert").
VisitsEveryKey ==
    pos # NoLoop => pending = {ht.table[b] : b \in {c \in LiveBuckets(ht) : c >= pos}}
=============================================================================
