--------------------------- MODULE SparseTableFile ---------------------------
(* google/sparsetable: a table written to a file with write_metadata() and    *)
(* write_nopointer_data() and read again.  The file may end early.            *)
EXTENDS SparseTable

VARIABLES
    file,       \* sequence of items
    written,    \* ghost: the sparse array of the last complete writing
    ok,         \* the last operation did not return false
    fresh       \* ghost: the last operation was a reading that returned true
fileVars == <<sparseVars, file, written, ok, fresh>>

MAGIC == "0x24687531"
raw == "raw"          \* memory that was allocated and not filled

(* ------------------------------- the format ------------------------------- *)

Metadata ==
    LET upTo[k \in 0 .. Len(groups)] ==
            IF k = 0 THEN <<MAGIC, table_size, num_buckets>>
            ELSE upTo[k - 1] \o <<groups[k].num_buckets, groups[k].bitmap>>
    IN  upTo[Len(groups)]

\* The packed values, one group after the other.
Data ==
    LET upTo[k \in 0 .. Len(groups)] == IF k = 0 THEN <<>> ELSE upTo[k - 1] \o groups[k].group
    IN  upTo[Len(groups)]

\* One item is four bytes, a count or a bitmap of a group, or a value.
HeaderItems == 3
CountAt(k) == HeaderItems + 2 * k - 1
BitmapAt(k) == HeaderItems + 2 * k

\* Mutant: the group is not cleared first.
ReadGroupOver(g, k) ==
    CASE Len(file) < CountAt(k) -> g
      [] Len(file) = CountAt(k) -> [g EXCEPT !.num_buckets = file[CountAt(k)]]
      [] OTHER -> [group |-> g.group \o [n \in 1 .. file[CountAt(k)] - Len(g.group) |-> raw],
                   bitmap |-> g.bitmap \cup file[BitmapAt(k)], num_buckets |-> file[CountAt(k)]]

\* read_metadata() of group k, and the false it may return.
ReadGroup(g, k) ==
    CASE Len(file) < CountAt(k) -> EmptyGroup
      [] Len(file) = CountAt(k) -> [EmptyGroup EXCEPT !.num_buckets = file[CountAt(k)]]
      [] OTHER -> [group |-> [n \in 1 .. file[CountAt(k)] |-> raw], bitmap |-> file[BitmapAt(k)],
                   num_buckets |-> file[CountAt(k)]]

\* The first group that cannot be read ends the reading; those behind it stay.
GroupsRead(sized) ==
    [k \in DOMAIN sized |-> IF Len(file) < (IF k = 1 THEN HeaderItems ELSE BitmapAt(k - 1)) THEN sized[k]
                            ELSE ReadGroup(sized[k], k)]

\* read_nopointer_data(): the packed values of every group.
Filled(list) ==
    LET before(k) == SumOf([i \in 1 .. k - 1 |-> Len(list[i].group)])
        from == HeaderItems + 2 * Len(list)
        item(k, n) == from + before(k) + n
    IN  [k \in DOMAIN list |->
            [list[k] EXCEPT !.group = [n \in DOMAIN @ |-> IF item(k, n) <= Len(file)
                                                          THEN file[item(k, n)] ELSE @[n]]]]

FileInit == SparseInit /\ file = <<>> /\ written = <<0, <<>>>> /\ ok = TRUE /\ fresh = FALSE

\* A table operation of a program that goes on only with a table that was read whole.
TableStep == ok /\ SparseNext /\ fresh' = FALSE /\ UNCHANGED <<file, written, ok>>

Write ==
    /\ ok
    /\ \E n \in 0 .. Len(Metadata \o Data) :
          /\ file' = SubSeq(Metadata \o Data, 1, n)
          /\ ok' = (n = Len(Metadata \o Data))
          /\ written' = IF ok' THEN <<table_size, assigned>> ELSE written
    /\ fresh' = FALSE /\ UNCHANGED sparseVars

\* The file turns out to be another one, or loses its end.
AnotherFile == file' = <<"other">> /\ fresh' = FALSE /\ UNCHANGED <<sparseVars, written, ok>>
CutOff == file # <<>> /\ file' = Front(file) /\ fresh' = FALSE /\ UNCHANGED <<sparseVars, written, ok>>

ReadNothing ==
    /\ Len(file) < 2 /\ file # <<"other">>
    /\ ok' = FALSE /\ UNCHANGED <<sparseVars, file, written>>

ReadOther == file = <<"other">> /\ table_clear /\ ok' = FALSE /\ UNCHANGED <<file, written>>

\* table_size is assigned before resize() is called, so the table is never "lower" than it.
ReadSizeOnly ==
    /\ Len(file) = 2
    /\ table_size' = file[2] /\ ok' = FALSE
    /\ UNCHANGED <<groups, num_buckets, file, written>>

ReadTable ==
    /\ Len(file) >= HeaderItems
    /\ table_size' = file[2] /\ num_buckets' = file[3]
    /\ LET list == GroupsRead(Sized(file[2]))
       IN  /\ groups' = IF Len(file) < HeaderItems + 2 * Len(list) THEN list ELSE Filled(list)
           /\ ok' = (Len(file) = HeaderItems + 2 * Len(list) + file[3])
    /\ UNCHANGED <<file, written>>

\* After an error the program goes on with a new table.
Discard ==
    /\ ~ok /\ ok' = TRUE /\ fresh' = FALSE
    /\ groups' = <<>> /\ table_size' = 0 /\ num_buckets' = 0
    /\ UNCHANGED <<file, written>>

Read == ok /\ (ReadNothing \/ ReadOther \/ ReadSizeOnly \/ ReadTable) /\ fresh' = ok'
FileNext == TableStep \/ Write \/ AnotherFile \/ CutOff \/ Read \/ Discard
FileSpec == FileInit /\ [][FileNext]_fileVars

(* ------------------------------- properties ------------------------------- *)

\* A table whose reading returned true has its counts right and holds no memory that was
\* never written, whatever it held before.
TableWhole ==
    ok => CountsAgree /\ \A k \in DOMAIN groups : ToSet(groups[k].group) \subseteq Values

\* What is read is what was written last, and reading a file that lost its end is never
\* taken for success.
ReadsWhatWasWritten == fresh => <<table_size, assigned>> = written

\* Reading that reports success leaves a consistent table, with what was written last.
ReadIsWhole == TableWhole /\ ReadsWhatWasWritten
=============================================================================
