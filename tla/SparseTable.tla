----------------------------- MODULE SparseTable -----------------------------
(* google/sparsetable: groups of GROUP_SIZE indices; each group keeps the     *)
(* assigned values packed and a bitmap, a value's place being the number of   *)
(* bits set before its index.                                                 *)
EXTENDS Integers, Sequences, FiniteSets, SequencesExt

CONSTANTS
    GROUP_SIZE,    \* 48
    CharBits,      \* bits of one element of the bitmap: 8
    Values, Default,
    MaxSize        \* bound of the size

SparseTableAssumption ==
    /\ GROUP_SIZE \in Nat \ {0} /\ CharBits \in Nat \ {0} /\ Default \in Values
    /\ MaxSize \in Nat
ASSUME SparseTableAssumed == SparseTableAssumption

VARIABLES
    groups,        \* sequence of [group, bitmap, num_buckets]; bitmap is the set of bits set
    table_size, num_buckets
sparseVars == <<groups, table_size, num_buckets>>

SumOf(s) ==
    LET sum[k \in 0 .. Len(s)] == IF k = 0 THEN 0 ELSE sum[k - 1] + s[k]
    IN  sum[Len(s)]

(* ------------------------------- one group -------------------------------- *)

EmptyGroup == [group |-> <<>>, bitmap |-> {}, num_buckets |-> 0]

\* Mutant: one element of the bitmap too few.
OneElementLess(pos) == IF pos > CharBits THEN (pos - 1) \div CharBits - 1 ELSE 0

\* The loop takes whole elements of the bitmap while pos > 8: how many.
WholeElements(pos) == IF pos > CharBits THEN (pos - 1) \div CharBits ELSE 0

bits_in(bm, element, below) ==
    Cardinality({b \in bm : b \in element * CharBits .. element * CharBits + below - 1})

pos_to_offset(bm, pos) ==
    LET whole == WholeElements(pos)
        inside == IF pos - whole * CharBits > CharBits THEN CharBits ELSE pos - whole * CharBits
    IN  SumOf([e \in 1 .. whole |-> bits_in(bm, e - 1, CharBits)]) + bits_in(bm, whole, inside)

bmtest(g, i) == i \in g.bitmap
get(g, i) == IF bmtest(g, i) THEN g.group[pos_to_offset(g.bitmap, i) + 1] ELSE Default

set(g, i, val) ==
    LET offset == pos_to_offset(g.bitmap, i)
    IN  [group |-> IF bmtest(g, i) THEN [g.group EXCEPT ![offset + 1] = val]
                   ELSE InsertAt(g.group, offset + 1, val),
         bitmap |-> g.bitmap \cup {i}, num_buckets |-> g.num_buckets + (IF bmtest(g, i) THEN 0 ELSE 1)]

erase(g, i) ==
    IF ~bmtest(g, i) THEN g
    ELSE [group |-> RemoveAt(g.group, pos_to_offset(g.bitmap, i) + 1),
          bitmap |-> g.bitmap \ {i}, num_buckets |-> g.num_buckets - 1]

(* ------------------------------- the table -------------------------------- *)

num_groups(num) == IF num = 0 THEN 0 ELSE ((num - 1) \div GROUP_SIZE) + 1
pos_in_group(i) == i % GROUP_SIZE
which_group(i) == groups[(i \div GROUP_SIZE) + 1]
test(i) == bmtest(which_group(i), pos_in_group(i))
Lookup(i) == get(which_group(i), pos_in_group(i))

SparseInit == groups = <<>> /\ table_size = 0 /\ num_buckets = 0

\* The group of index i becomes g.
Changed(i, g) ==
    /\ groups' = [groups EXCEPT ![(i \div GROUP_SIZE) + 1] = g]
    /\ num_buckets' = num_buckets + g.num_buckets - which_group(i).num_buckets
    /\ UNCHANGED table_size

table_set(i, val) == i < table_size /\ Changed(i, set(which_group(i), pos_in_group(i), val))
mutating_get(i) ==
    /\ i < table_size
    /\ IF test(i) THEN UNCHANGED sparseVars
       ELSE Changed(i, set(which_group(i), pos_in_group(i), Default))
table_erase(i) == i < table_size /\ Changed(i, erase(which_group(i), pos_in_group(i)))

table_clear ==
    /\ groups' = [k \in DOMAIN groups |-> EmptyGroup]
    /\ num_buckets' = 0
    /\ UNCHANGED table_size

\* The vector of groups, shortened or made longer with empty ones.
Sized(n) ==
    [k \in 1 .. num_groups(n) |-> IF k \in DOMAIN groups THEN groups[k] ELSE EmptyGroup]

\* The last group is erased behind the new size.
LastGroupCut(sized, n) ==
    LET from == pos_in_group(n)
        erased[i \in from .. GROUP_SIZE] == IF i = from THEN Last(sized) ELSE erase(erased[i - 1], i - 1)
    IN  IF from = 0 THEN sized ELSE [sized EXCEPT ![Len(sized)] = erased[GROUP_SIZE]]

resize(n) ==
    /\ groups' = IF n < table_size THEN LastGroupCut(Sized(n), n) ELSE Sized(n)
    /\ num_buckets' = IF n < table_size
                      THEN SumOf([k \in DOMAIN groups' |-> groups'[k].num_buckets])
                      ELSE num_buckets
    /\ table_size' = n

SparseNext ==
    \/ \E i \in 0 .. MaxSize - 1 :
          mutating_get(i) \/ table_erase(i) \/ \E val \in Values : table_set(i, val)
    \/ table_clear
    \/ \E n \in 0 .. MaxSize : resize(n)

SparseSpec == SparseInit /\ [][SparseNext]_sparseVars

(* ----------------------- iterating over the assigned ---------------------- *)

\* Mutant: the next row is taken although it may be empty.
AdvanceOneRow(row, col) ==
    IF row < Len(groups) /\ col < groups[row + 1].num_buckets THEN <<row, col>> ELSE <<row + 1, 0>>

\* From the end of a row to the beginning of the next one that is not empty.
advance_past_end(row, col) ==
    IF row < Len(groups) /\ col < groups[row + 1].num_buckets THEN <<row, col>>
    ELSE LET rows == {r \in row + 1 .. Len(groups) - 1 : groups[r + 1].num_buckets > 0}
         IN  <<IF rows = {} THEN Len(groups) ELSE CHOOSE r \in rows : \A s \in rows : r <= s, 0>>

nonempty_begin == IF groups = <<>> THEN <<0, 0>> ELSE advance_past_end(0, 0)
nonempty_end == <<Len(groups), 0>>
Increment(it) == advance_past_end(it[1], it[2] + 1)

\* Back to the end of the rows before while at the beginning of one, then one back.
Decrement(it) ==
    IF it[1] < Len(groups) /\ it[2] > 0 THEN <<it[1], it[2] - 1>>
    ELSE LET rows == {r \in 0 .. it[1] - 1 : groups[r + 1].num_buckets > 0}
             r == CHOOSE r \in rows : \A s \in rows : s <= r
         IN  <<r, groups[r + 1].num_buckets - 1>>

\* The iterator of an index; it must be assigned.
get_iter(i) ==
    advance_past_end(i \div GROUP_SIZE, pos_to_offset(which_group(i).bitmap, pos_in_group(i)))

(* ------------------------------- properties ------------------------------- *)

Indices == 0 .. table_size - 1
AssignedIndices == {i \in Indices : test(i)}
Nth(k) == CHOOSE i \in AssignedIndices : Cardinality({j \in AssignedIndices : j <= i}) = k

\* Groups are well formed and as many as the size asks for.
SparseTypeOK ==
    /\ table_size \in 0 .. MaxSize
    /\ groups \in Seq([group : Seq(Values), bitmap : SUBSET (0 .. GROUP_SIZE - 1), num_buckets : Nat])
    /\ Len(groups) * GROUP_SIZE \in table_size .. table_size + GROUP_SIZE - 1

\* Counts, packed values and bitmaps agree in every group and in the table, and no bit is
\* set behind the size, where a later resize() would bring its value back.
CountsAgree ==
    /\ \A k \in DOMAIN groups : Len(groups[k].group) = Cardinality(groups[k].bitmap)
                                 /\ groups[k].num_buckets = Len(groups[k].group)
    /\ num_buckets = Cardinality(AssignedIndices)
    /\ table_size > 0 => \A b \in Last(groups).bitmap : (Len(groups) - 1) * GROUP_SIZE + b < table_size

\* Going over the non-empty buckets visits the assigned indices in order, each once,
\* forwards and backwards, across groups that are empty (two_d_iterator).
IterationExact ==
    LET n == Cardinality(AssignedIndices)
        at[k \in 0 .. n] == IF k = 0 THEN nonempty_begin ELSE Increment(at[k - 1])
    IN  /\ \A k \in 1 .. n : get_iter(Nth(k)) = at[k - 1]
        /\ at[n] = nonempty_end
        /\ \A k \in 1 .. n : Decrement(at[k]) = at[k - 1]

\* The representation is well formed and iterators meet what is assigned.
SparseExact == SparseTypeOK /\ CountsAgree /\ IterationExact

\* The table is a sparse array: what is assigned reads as the value assigned last, the
\* rest as the default (google/sparsetable:33-46).
assigned == [i \in {j \in Indices : test(j)} |-> Lookup(i)]
Array == INSTANCE SparseArray WITH size <- table_size, assigned <- assigned
ImplementsArray == Array!Spec
=============================================================================
