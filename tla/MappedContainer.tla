-------------------------- MODULE MappedContainer --------------------------
(* CMappedArray of SharedUtil.Misc: a vector together with a map that       *)
(* counts how often each item is in it, for a fast Contains().              *)
EXTENDS Integers, SequencesExt

CONSTANTS
    Items,
    MaxLength    \* bound on the length of the list

MappedAssumption == MaxLength \in Nat

VARIABLES m_List, m_Map

MapInit == m_List = <<>> /\ m_Map = [i \in {} |-> 0]

\* Contains()
IsMapped(item) == item \in DOMAIN m_Map
Lacks(m, item) == [i \in DOMAIN m \ {item} |-> m[i]]

AddMapRef(item) ==
    m_Map' = [i \in DOMAIN m_Map \cup {item} |->
                 IF i # item THEN m_Map[i]
                 ELSE IF IsMapped(item) THEN m_Map[item] + 1 ELSE 1]

\* Mutant: an item whose last reference goes stays mapped.
RemoveMapRefKept(item) == m_Map' = IF IsMapped(item) THEN [m_Map EXCEPT ![item] = @ - 1] ELSE m_Map

RemoveMapRef(item) ==
    m_Map' = IF ~IsMapped(item) THEN m_Map
             ELSE IF m_Map[item] = 1 THEN Lacks(m_Map, item)
             ELSE [m_Map EXCEPT ![item] = @ - 1]

PushBack(item) == AddMapRef(item) /\ m_List' = Append(m_List, item)
PushFront(item) == AddMapRef(item) /\ m_List' = <<item>> \o m_List

PopBack ==
    /\ m_List # <<>>
    /\ RemoveMapRef(m_List[Len(m_List)])
    /\ m_List' = SubSeq(m_List, 1, Len(m_List) - 1)

PopFront ==
    /\ m_List # <<>>
    /\ RemoveMapRef(m_List[1])
    /\ m_List' = Tail(m_List)

EraseAt(k) == RemoveMapRef(m_List[k]) /\ m_List' = RemoveAt(m_List, k)

\* remove(item).  The item is not an element of the vector: erasing would move what the
\* reference denotes.
RemoveAll(item) ==
    /\ IsMapped(item)
    /\ m_Map' = Lacks(m_Map, item)
    /\ m_List' = LET kept[k \in 0 .. Len(m_List)] ==
                        IF k = 0 THEN <<>>
                        ELSE IF m_List[k] = item THEN kept[k - 1]
                        ELSE Append(kept[k - 1], m_List[k])
                 IN  kept[Len(m_List)]

MapClear == m_List' = <<>> /\ m_Map' = [i \in {} |-> 0]

MapNext ==
    \/ /\ Len(m_List) < MaxLength
       /\ \E item \in Items : PushBack(item) \/ PushFront(item)
    \/ PopBack \/ PopFront \/ MapClear
    \/ \E item \in Items : RemoveAll(item)
    \/ \E k \in DOMAIN m_List : EraseAt(k)

MapSpec == MapInit /\ [][MapNext]_<<m_List, m_Map>>

(* ------------------------------- properties ------------------------------- *)

Occurrences(item) == {k \in DOMAIN m_List : m_List[k] = item}

\* Contains() answers for the list without looking at it: the map counts every
\* item exactly, after items were added and removed at both ends, by position
\* and by value.
MapCountsList ==
    m_Map = [item \in Range(m_List) |-> Cardinality(Occurrences(item))]
=============================================================================
