----------------------------- MODULE MCPlugins ------------------------------
(* Small instances of the CLEO demo plugins, and of the sparse table with a   *)
(* file.  They share no state, so one run checks them all: `part` is chosen   *)
(* at the start, and from then on only what belongs to that part changes.     *)
EXTENDS FileSystemOperations, SparseTableFile, TLC

CONSTANTS v1, v2    \* values of the sparse table

VARIABLE part

Parts == {"trees", "table file"}

(* ------------------------------- instances -------------------------------- *)

Dir == [dir |-> TRUE]
File(d, r) == [dir |-> FALSE, data |-> d, readonly |-> r]

\* a holds a read-only file and a directory with another file; the plugin has it to itself.
Tree == <<"a">> :> Dir @@ <<"a", "a">> :> File(1, TRUE)
        @@ <<"a", "b">> :> Dir @@ <<"a", "b", "a">> :> File(2, FALSE)

\* Other programs change a smaller tree meanwhile, twice.
SmallTree == <<"a">> :> Dir @@ <<"a", "a">> :> Dir @@ <<"a", "b">> :> File(1, TRUE)

Trees == Tree :> 0 @@ SmallTree :> 2

\* The directory and the one in it, copied beside the first one or into the second one.
CopiedFrom == {<<"a">>, <<"a", "b">>}
CopiedTo == {<<"b">>, <<"a", "b", "b">>}

(* ------------------------------ behaviours -------------------------------- *)

vars == <<part, treeVars, fileVars>>

Init ==
    /\ part \in Parts
    /\ TreesInit /\ FileInit
    /\ part # "trees" => fs = Tree

TreesPart == part = "trees" /\ TreesNext /\ UNCHANGED <<part, fileVars>>
TablePart == part = "table file" /\ FileNext /\ UNCHANGED <<part, treeVars>>

Next == TreesPart \/ TablePart

\* The plugin runs until its opcode is done (FileSystemOperations).
Working == part = "trees" /\ Work /\ UNCHANGED <<part, fileVars>>
Spec == Init /\ [][Next]_vars /\ WF_vars(Working)

(* -------------------- properties, stated in the modules ------------------- *)

\* ReadIsWhole is that of SparseTableFile, TreesExact and OpcodesEnd are those of
\* FileSystemOperations, whose constants are those of the configuration.
=============================================================================
