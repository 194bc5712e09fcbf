--------------------------- MODULE DenseHashTable ---------------------------
(* The open-addressing table under CFastHashMap and CFastHashSet            *)
(* (google/sparsehash/densehashtable.h).  A bucket holds a key, EMPTY or    *)
(* the key that marks deleted entries; deleting leaves that mark behind and *)
(* only a rebuild removes it.  Values travel with their keys and are left   *)
(* out.  Occupancy is 0.5 and the shrink factor 0.2, so the products with   *)
(* a power of two are written as integer comparisons.                       *)
EXTENDS Integers, Sequences, FiniteSetsExt

CONSTANTS
    Keys,
    EMPTY,                       \* emptyval, set once by set_empty_key
    Tombstones,                  \* keys used to mark deleted entries
    NoKey,                       \* use_deleted is false
    HashOf,                      \* the hasher: HashOf[key]
    HT_DEFAULT_STARTING_BUCKETS,
    ExpectedItems,               \* arguments of the constructor
    ResizeArgs,                  \* arguments of resize()
    Ranges,                      \* sequences given to insert(f, l)
    MaxDoublings                 \* bound on the size of a table

HT_MIN_BUCKETS == 4
Doubled[i \in 0 .. MaxDoublings] == IF i = 0 THEN HT_MIN_BUCKETS ELSE 2 * Doubled[i - 1]
Sizes == {Doubled[i] : i \in 0 .. MaxDoublings}

\* Bound: calls that would need a larger table than the largest are left out.
MaxItems == Doubled[MaxDoublings] \div 2 - 1

\* Required of every instance.
HashAssumption ==
    /\ HashOf \in [Keys -> Nat]
    /\ Keys \cap Tombstones = {}
    /\ EMPTY \notin Keys \cup Tombstones
    /\ NoKey \notin Keys \cup Tombstones \cup {EMPTY}
    /\ MaxDoublings \in Nat
    /\ HT_DEFAULT_STARTING_BUCKETS \in Sizes
    /\ ExpectedItems \subseteq 0 .. MaxItems /\ ResizeArgs \subseteq 0 .. MaxItems
    /\ Ranges \subseteq Seq(Keys)

ASSUME HashAssumed == HashAssumption

VARIABLES ht, reply

(* ------------------------- sizes and thresholds ------------------------- *)

bucket_count(h) == Cardinality(DOMAIN h.table)
size(h) == h.num_elements - h.num_deleted
enlarge_threshold(h) == bucket_count(h) \div 2
shrink_threshold(h) == bucket_count(h) \div 5

min_size(elements, wanted) ==
    Min({sz \in Sizes : sz >= wanted /\ 2 * elements < sz})

Blank(n, mark) ==
    [table |-> [b \in 0 .. n - 1 |-> EMPTY], num_elements |-> 0,
     num_deleted |-> 0, consider_shrink |-> FALSE, deleted_key |-> mark]

(* -------------------------------- probing -------------------------------- *)

\* Bucket of the i-th probe: JUMP_ adds 1, then 2, then 3, ...
Probe(key, i, n) == (HashOf[key] + (i * (i + 1)) \div 2) % n

test_deleted(h, b) ==
    h.deleted_key # NoKey /\ h.num_deleted > 0 /\ h.table[b] = h.deleted_key

\* Mutant: a search gives up at the first deleted entry.
StopsAtDeleted(h, key) ==
    {i \in 0 .. bucket_count(h) - 1 :
        \/ h.table[Probe(key, i, bucket_count(h))] \in {EMPTY, key}
        \/ test_deleted(h, Probe(key, i, bucket_count(h)))}

\* The probes at which a search for key comes to an end.
Stops(h, key) ==
    {i \in 0 .. bucket_count(h) - 1 :
        h.table[Probe(key, i, bucket_count(h))] \in {EMPTY, key}}

find_position(h, key) ==
    LET bucket(i) == Probe(key, i, bucket_count(h))
        last == Min(Stops(h, key))
        freed == {i \in 0 .. last : test_deleted(h, bucket(i))}
    IN  IF h.table[bucket(last)] = key
        THEN [found |-> TRUE, at |-> bucket(last)]
        ELSE [found |-> FALSE,
              at |-> bucket(IF freed = {} THEN last ELSE Min(freed))]

find(h, key) == size(h) # 0 /\ find_position(h, key).found

(* ------------------------------- rebuilding ------------------------------- *)

IsLive(h, b) == h.table[b] # EMPTY /\ ~test_deleted(h, b)
LiveBuckets(h) == {b \in DOMAIN h.table : IsLive(h, b)}

\* The first empty bucket of a table without deleted entries.
Slot(table, key, n) ==
    Probe(key, Min({i \in 0 .. n - 1 : table[Probe(key, i, n)] = EMPTY}), n)

\* A copy with at least the wanted number of buckets: it takes the live entries in the
\* order an iterator meets them, and deleted ones stay behind.
copy_from(h, wanted) ==
    LET n == min_size(size(h), wanted)
        blank == Blank(n, h.deleted_key)
        copied[b \in 0 .. bucket_count(h)] ==
            LET table == copied[b - 1]
            IN  IF b = 0 THEN blank.table
                ELSE IF IsLive(h, b - 1)
                THEN [table EXCEPT ![Slot(table, h.table[b - 1], n)] = h.table[b - 1]]
                ELSE table
    IN  [blank EXCEPT !.table = copied[bucket_count(h)],
                      !.num_elements = Cardinality(LiveBuckets(h))]

\* Mutant: a deleted key changes its meaning without a rebuild.
NothingSquashed(h) == h

squash_deleted(h) ==
    IF h.num_deleted > 0 THEN copy_from(h, HT_DEFAULT_STARTING_BUCKETS) ELSE h

\* Halve until the default size or the shrink factor is met.
ShrunkSize(h) ==
    LET halves == {sz \in Sizes : 2 * sz <= bucket_count(h)}
    IN  Max({sz \in halves : \/ sz <= HT_DEFAULT_STARTING_BUCKETS
                             \/ 5 * size(h) >= sz})

maybe_shrink(h) ==
    IF /\ shrink_threshold(h) > 0
       /\ size(h) < shrink_threshold(h)
       /\ bucket_count(h) > HT_DEFAULT_STARTING_BUCKETS
    THEN copy_from(h, ShrunkSize(h))
    ELSE [h EXCEPT !.consider_shrink = FALSE]

Considered(h) == IF h.consider_shrink THEN maybe_shrink(h) ELSE h

resize_delta(h, delta) ==
    LET g == Considered(h)
        roomy == /\ bucket_count(g) > HT_MIN_BUCKETS
                 /\ g.num_elements + delta <= enlarge_threshold(g)
        needed == min_size(g.num_elements + delta, 0)
    IN  IF roomy \/ needed <= bucket_count(g) THEN g
        ELSE copy_from(g, min_size(size(g) + delta, 0))

(* --------------------------- changing one entry --------------------------- *)

insert_noresize(h, key) ==
    LET pos == find_position(h, key)
    IN  IF pos.found THEN h
        ELSE IF test_deleted(h, pos.at)
        THEN [h EXCEPT !.table[pos.at] = key, !.num_deleted = @ - 1]
        ELSE [h EXCEPT !.table[pos.at] = key, !.num_elements = @ + 1]

\* Mutant: erasing shrinks the table at once.
SetDeletedAndShrink(h, buckets) ==
    maybe_shrink(
        [h EXCEPT !.table = [b \in DOMAIN @ |-> IF b \in buckets
                                               THEN h.deleted_key ELSE @[b]],
                  !.num_deleted = @ + Cardinality(buckets \cap LiveBuckets(h))])

set_deleted(h, buckets) ==
    [h EXCEPT !.table = [b \in DOMAIN @ |-> IF b \in buckets THEN h.deleted_key
                                            ELSE @[b]],
              !.num_deleted = @ + Cardinality(buckets \cap LiveBuckets(h)),
              !.consider_shrink = TRUE]

(* ------------------------------- operations ------------------------------- *)

Init ==
    /\ \E items \in ExpectedItems :
          ht = Blank(IF items = 0 THEN HT_DEFAULT_STARTING_BUCKETS
                     ELSE min_size(items, 0), NoKey)
    /\ reply = <<"none">>

Insert(key) ==
    LET g == resize_delta(ht, 1)
    IN  /\ ht.num_elements + 1 <= MaxItems
        /\ ht' = insert_noresize(g, key)
        /\ reply' = <<"insert", key, ~find_position(g, key).found>>

InsertRange(range) ==
    LET inserted[i \in 0 .. Len(range)] ==
            IF i = 0 THEN resize_delta(ht, Len(range))
            ELSE insert_noresize(inserted[i - 1], range[i])
    IN  /\ ht.num_elements + Len(range) <= MaxItems
        /\ ht' = inserted[Len(range)]
        /\ reply' = <<"done">>

\* erase(key), and MapRemove, which finds the key and erases the iterator.
Erase(key) ==
    /\ ht.deleted_key # NoKey
    /\ ht' = IF find(ht, key)
             THEN set_deleted(ht, {find_position(ht, key).at}) ELSE ht
    /\ reply' = <<"erase", key, find(ht, key)>>

\* erase(f, l) with l the end of the table.
EraseRange(first) ==
    LET buckets == {b \in LiveBuckets(ht) : b >= first}
    IN  /\ ht.deleted_key # NoKey
        /\ ht' = set_deleted(ht, buckets)
        /\ reply' = <<"erased", {ht.table[b] : b \in buckets}>>

Find(key) == reply' = <<"find", key, find(ht, key)>> /\ UNCHANGED ht

Reorganised(h) == ht' = h /\ reply' = <<"done">>

Resize(elements) ==
    LET g == IF ht.consider_shrink \/ elements = 0 THEN maybe_shrink(ht) ELSE ht
    IN  Reorganised(IF elements > g.num_elements
                    THEN resize_delta(g, elements - g.num_elements) ELSE g)

SetDeletedKey(mark) ==
    Reorganised([squash_deleted(ht) EXCEPT !.deleted_key = mark])

ClearDeletedKey ==
    Reorganised([squash_deleted(ht) EXCEPT !.deleted_key = NoKey])

\* A copy, by constructor or by assignment, takes the table's place.
CopyConstruct == Reorganised(copy_from(ht, HT_DEFAULT_STARTING_BUCKETS))
Assign == Reorganised(copy_from(ht, HT_MIN_BUCKETS))

Clear ==
    ht' = Blank(min_size(0, 0), ht.deleted_key) /\ reply' = <<"cleared">>

ClearNoResize ==
    ht' = Blank(bucket_count(ht), ht.deleted_key) /\ reply' = <<"cleared">>

Next ==
    \/ \E key \in Keys : Insert(key) \/ Erase(key) \/ Find(key)
    \/ \E range \in Ranges : InsertRange(range)
    \/ \E first \in LiveBuckets(ht) : EraseRange(first)
    \/ \E elements \in ResizeArgs : Resize(elements)
    \/ \E mark \in Tombstones : SetDeletedKey(mark)
    \/ ClearDeletedKey
    \/ CopyConstruct \/ Assign
    \/ Clear \/ ClearNoResize

vars == <<ht, reply>>
Spec == Init /\ [][Next]_vars

(* operator== with another table *)
SameContents(h, g) ==
    /\ size(h) = size(g)
    /\ \A b \in LiveBuckets(h) : find(g, h.table[b])

(* ------------------------------- properties ------------------------------- *)

\* The table's representation is well formed.
TypeOK ==
    /\ bucket_count(ht) \in Sizes
    /\ ht.table \in [0 .. bucket_count(ht) - 1 -> Keys \cup Tombstones \cup {EMPTY}]
    /\ ht.num_elements \in Nat /\ ht.num_deleted \in 0 .. ht.num_elements
    /\ ht.consider_shrink \in BOOLEAN
    /\ ht.deleted_key \in Tombstones \cup {NoKey}

\* Every search ends: whatever was inserted, deleted and rebuilt before, the
\* probe sequence of every key meets the key or an empty bucket within
\* bucket_count() probes (assert(num_probes < bucket_count())).
ProbesEnd == \A key \in Keys : Stops(ht, key) # {}

\* At most half of the buckets are in use, deleted entries included, so that
\* searches stay short (HT_OCCUPANCY_FLT): although growing looks at
\* num_elements and the new size only at the live ones.
HalfEmpty == 2 * ht.num_elements <= bucket_count(ht)

\* The counters that find(), resizing and test_deleted() rely on agree with the
\* buckets; no mark of a former deleted key is left among them.
CountersAgree ==
    /\ ht.num_elements = Cardinality({b \in DOMAIN ht.table : ht.table[b] # EMPTY})
    /\ ht.num_deleted = Cardinality({b \in DOMAIN ht.table :
                                        ht.table[b] = ht.deleted_key})
    /\ \A b \in LiveBuckets(ht) : ht.table[b] \in Keys

\* A key is stored in one bucket only, and find() reaches it there past any
\* deleted entries.
StoredOnceAndFound ==
    \A b \in LiveBuckets(ht) :
        LET pos == find_position(ht, ht.table[b]) IN pos.found /\ pos.at = b

\* A copy equals its original, both ways, whatever the two tables' layouts.
CopiesEqual ==
    \A wanted \in {HT_MIN_BUCKETS, HT_DEFAULT_STARTING_BUCKETS} :
        LET copy == copy_from(ht, wanted)
        IN  SameContents(ht, copy) /\ SameContents(copy, ht)

\* Searches end and find what is stored, and only that.
KeysFound == ProbesEnd /\ HalfEmpty /\ StoredOnceAndFound /\ CopiesEqual

\* The representation is well formed, its counters are right and its keys are found.
TableSound == TypeOK /\ CountersAgree /\ KeysFound

\* To its user the table is a set: rebuilding never loses or revives a key and
\* every insert, erase and find answers truthfully.
Set == INSTANCE HashSet
       WITH contents <- {ht.table[b] : b \in LiveBuckets(ht)}
ImplementsSet == Set!Spec
=============================================================================
