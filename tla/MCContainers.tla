---------------------------- MODULE MCContainers ----------------------------
(* Small instances of the containers of the SDK.  They share no state, so    *)
(* one run checks them all: `part` is chosen at the start, and from then on  *)
(* only that container changes.                                              *)
EXTENDS DenseHashIteration, Ranges, SparseTable, MappedContainer, TLC

CONSTANTS k1, k2, k3, k4

VARIABLE part

Parts == {"dense", "sparse", "ranges", "mapped"}

(* ------------------------------- instances -------------------------------- *)

\* k1 and k2 share every bucket, k3 meets them in tables of 4 and 8 buckets, and k4 starts
\* where they probe next.
DenseHashOf == k1 :> 3 @@ k2 :> 3 @@ k3 :> 11 @@ k4 :> 4
DenseRanges == {<<k3, k1, k4>>, <<k2, k2>>}

ASSUME Instances ==
    /\ RangesAssumption /\ ~CallsSharingStart
    /\ MappedAssumption

(* ------------------------------ behaviours -------------------------------- *)

denseVars == <<vars, pos, pending>>
rangesVars == <<m_StartLastMap, numbers>>
mappedVars == <<m_List, m_Map>>
allVars == <<part, denseVars, sparseVars, rangesVars, mappedVars>>

MCInit ==
    /\ part \in Parts
    /\ LoopInit /\ (part # "dense" => ht = Blank(HT_DEFAULT_STARTING_BUCKETS, NoKey))
    /\ RangesInit
    /\ SparseInit
    /\ MapInit

DenseNext ==
    /\ part = "dense" /\ LoopNext
    /\ UNCHANGED <<part, sparseVars, rangesVars, mappedVars>>

SparseTableNext ==
    /\ part = "sparse" /\ SparseNext
    /\ UNCHANGED <<part, denseVars, rangesVars, mappedVars>>

NumbersNext ==
    /\ part = "ranges" /\ RangesNext
    /\ UNCHANGED <<part, denseVars, sparseVars, mappedVars>>

MappedNext ==
    /\ part = "mapped" /\ MapNext
    /\ UNCHANGED <<part, denseVars, sparseVars, rangesVars>>

MCNext == DenseNext \/ SparseTableNext \/ NumbersNext \/ MappedNext
MCSpec == MCInit /\ [][MCNext]_allVars

(* -------------------- properties, stated in the modules ------------------- *)

\* TableSound, ImplementsSet and VisitsEveryKey are those of DenseHashTable and its loops,
\* SparseExact and ImplementsArray those of SparseTable, RangesExact and MapCountsList those
\* of Ranges and MappedContainer.
=============================================================================
