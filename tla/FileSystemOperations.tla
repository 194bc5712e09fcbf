------------------------ MODULE FileSystemOperations ------------------------
(* The CLEO plugin FileSystemOperations.cpp: opcodes 0B00 .. 0B05.  Deleting *)
(* and copying a directory recurse while a search is open at every level,    *)
(* and the file system may be changed by other programs between any two of   *)
(* their calls.  One action per Win32 call that matters; levels is the        *)
(* recursion, innermost call last.                                           *)
EXTENDS Integers, Sequences, FiniteSets, SequencesExt

CONSTANTS
    Names,         \* names of files and directories
    Contents,      \* contents of files
    MaxPath,       \* longest path CreateDirectory and CopyFile accept
    InitialTrees,  \* file systems to begin with: how often others change each, a bound
    Sources,       \* first arguments of the opcodes
    Targets        \* second arguments

(* ------------------------ the Win32 file functions ------------------------ *)

\* External: only what the calls of the plugin rely on, as operators on a file system, a
\* function from existing paths to nodes.  A path is a sequence of names.
Directory == [dir |-> TRUE]
Nodes == {Directory} \cup [dir : {FALSE}, data : Contents, readonly : BOOLEAN]

Parent(p) == SubSeq(p, 1, Len(p) - 1)

Exists(fs, p) == p \in DOMAIN fs
IsDir(fs, p) == p = <<>> \/ (Exists(fs, p) /\ fs[p].dir)
IsFile(fs, p) == Exists(fs, p) /\ ~fs[p].dir
Children(fs, p) == {q \in DOMAIN fs : Len(q) = Len(p) + 1 /\ IsPrefix(p, q)}

Holds(fs, p, node) ==
    [q \in DOMAIN fs \cup {p} |-> IF q = p THEN node ELSE fs[q]]
Lacks(fs, p) == [q \in DOMAIN fs \ {p} |-> fs[q]]
Place(fs, p) == p # <<>> /\ IsDir(fs, Parent(p)) /\ Len(p) <= MaxPath

\* Every path is in a directory that exists, or at the top.
IsTree(fs) ==
    /\ fs \in [DOMAIN fs -> Nodes]
    /\ \A p \in DOMAIN fs : p \in Seq(Names) /\ p # <<>> /\ IsDir(fs, Parent(p))

\* Each operation X has a condition CanX for its success; a failed call
\* changes nothing.  A file another process holds open is in busy.
CanDeleteFile(fs, busy, p) == IsFile(fs, p) /\ ~fs[p].readonly /\ p \notin busy
CanRemoveDirectory(fs, p) ==
    p # <<>> /\ Exists(fs, p) /\ IsDir(fs, p) /\ Children(fs, p) = {}
CanCreateDirectory(fs, p) == Place(fs, p) /\ ~Exists(fs, p)
CanCopyFile(fs, busy, p, q) ==
    /\ IsFile(fs, p) /\ p \notin busy /\ Place(fs, q)
    /\ Exists(fs, q) => IsFile(fs, q) /\ ~fs[q].readonly /\ q \notin busy

WithoutReadonly(fs, p) ==
    IF IsFile(fs, p) THEN [fs EXCEPT ![p].readonly = FALSE] ELSE fs

\* MoveFile takes a directory with everything in it.
CanMove(fs, busy, p, q) ==
    /\ Exists(fs, p) /\ Place(fs, q) /\ ~Exists(fs, q) /\ ~IsPrefix(p, q)
    /\ \A b \in busy : ~IsPrefix(p, b)
TreeMoved(fs, p, q) ==
    LET stay == {r \in DOMAIN fs : ~IsPrefix(p, r)}
        tail(r) == SubSeq(r, Len(p) + 1, Len(r))
        new == {q \o tail(r) : r \in DOMAIN fs \ stay}
    IN  [r \in stay \cup new |->
            IF r \in stay THEN fs[r] ELSE fs[p \o SubSeq(r, Len(q) + 1, Len(r))]]

FileSystemAssumption ==
    /\ Sources \subseteq Seq(Names) /\ Targets \subseteq Seq(Names)
    /\ \A t \in DOMAIN InitialTrees : IsTree(t) /\ InitialTrees[t] \in Nat
ASSUME FileSystemAssumed == FileSystemAssumption

(* ------------------------------- the plugin -------------------------------- *)

NoCall == [op |-> "none", path |-> <<>>, newPath |-> <<>>]

VARIABLES
    fs,
    busy,     \* files other programs hold open
    levels,   \* frames of DeleteDir or CopyDir
    call,     \* the opcode being executed or executed last
    before,   \* ghost: the file system when it began
    reply,    \* condition result of the last opcode that ended
    searches, \* search handles this opcode has opened and not closed
    meddled   \* ghost: how often others may still change things, and if they did in this call

treeVars == <<fs, busy, levels, call, before, reply, searches, meddled>>

Idle == levels = <<>>
Level == levels[Len(levels)]
SetTop(frame) == levels' = [levels EXCEPT ![Len(levels)] = frame]

TreesInit ==
    /\ fs \in DOMAIN InitialTrees
    /\ before = fs
    /\ busy = {} /\ levels = <<>> /\ searches = 0
    /\ call = NoCall /\ reply = TRUE
    /\ meddled = [left |-> InitialTrees[fs], now |-> FALSE]

Begins(op, p, q) ==
    /\ Idle
    /\ call' = [op |-> op, path |-> p, newPath |-> q]
    /\ before' = fs
    /\ meddled' = [meddled EXCEPT !.now = FALSE]
    /\ searches' = 0
    /\ UNCHANGED busy

\* An opcode that is a single Win32 call.
Single(op, p, q, ok, after) ==
    /\ Begins(op, p, q)
    /\ fs' = IF ok THEN after ELSE fs
    /\ reply' = ok
    /\ UNCHANGED levels

Script_FS_DeleteFile(p) ==
    Single("delete_file", p, p, CanDeleteFile(fs, busy, p), Lacks(fs, p))

Script_FS_RemoveDirectory(p) ==
    Single("remove_directory", p, p, CanRemoveDirectory(fs, p), Lacks(fs, p))

\* GetFileAttributes of a missing file has every bit set, FILE_ATTRIBUTE_DIRECTORY too.
DirectoryBit(p) == ~Exists(fs, p) \/ IsDir(fs, p)

\* The tested bit itself is the result when the file is not moved.
Script_FS_MoveFile(p, q) ==
    /\ Begins("move_file", p, q)
    /\ LET moves == ~DirectoryBit(p) /\ CanMove(fs, busy, p, q)
       IN  /\ fs' = IF moves THEN TreeMoved(fs, p, q) ELSE fs
           /\ reply' = (DirectoryBit(p) \/ moves)
    /\ UNCHANGED levels

Script_FS_MoveDir(p, q) ==
    Single("move_directory", p, q, DirectoryBit(p) /\ CanMove(fs, busy, p, q),
           TreeMoved(fs, p, q))

\* The attributes are those CopyFile has copied already.
Script_FS_CopyFile(p, q) ==
    Single("copy_file", p, q, CanCopyFile(fs, busy, p, q), Holds(fs, q, fs[p]))

(* ------------------------ the recursive operations ------------------------ *)

\* A call of DeleteDir or CopyDir before its first Win32 call.
Frame(p, q) == [path |-> p, newPath |-> q, step |-> "enter",
                listed |-> {}, seen |-> {}, entry |-> <<>>, isDir |-> FALSE]

Recursive(op, p, q) ==
    /\ Begins(op, p, q)
    /\ levels' = <<Frame(p, q)>>
    /\ UNCHANGED <<fs, reply>>

Script_FS_DeleteDirectory(p) == Recursive("delete_directory", p, p)
Script_FS_CopyDir(p, q) == Recursive("copy_directory", p, q)

InDelete == ~Idle /\ call.op = "delete_directory"
InCopy == ~Idle /\ call.op = "copy_directory"
SameCall == UNCHANGED <<busy, call, before, meddled>>

\* return FALSE passes through every level, and none closes its search.
Fail == levels' = <<>> /\ reply' = FALSE

\* return TRUE: the calling level goes on with its search.
ReturnTrue ==
    /\ levels' = SubSeq(levels, 1, Len(levels) - 1)
    /\ reply' = IF Len(levels) = 1 THEN TRUE ELSE reply

\* FindFirstFile with mask "path\*"; INVALID_HANDLE_VALUE when path is no directory.
OpenSearch ==
    IF IsDir(fs', Level.path)
    THEN /\ SetTop([Level EXCEPT !.step = "search",
                                 !.listed = Children(fs', Level.path)])
         /\ searches' = searches + 1
    ELSE SetTop([Level EXCEPT !.step = "leave"]) /\ UNCHANGED searches

DeleteEnter ==
    /\ InDelete /\ Level.step = "enter"
    /\ UNCHANGED <<fs, reply>>
    /\ OpenSearch
    /\ SameCall

CopyEnter ==
    /\ InCopy /\ Level.step = "enter"
    /\ IF CanCreateDirectory(fs, Level.newPath)
       THEN /\ fs' = Holds(fs, Level.newPath, Directory)
            /\ OpenSearch
            /\ UNCHANGED reply
       ELSE Fail /\ UNCHANGED <<fs, searches>>
    /\ SameCall

\* FindNextFile: entries there when the search was opened are returned once
\* unless they have gone; newer ones, and ones that have gone, may be returned.
Unseen == Level.listed \ Level.seen
\* Mutant: the search starts again at every entry.
SearchFromStart ==
    /\ ~Idle /\ Level.step = "search"
    /\ \E e \in Level.listed \cup Children(fs, Level.path) :
          SetTop([Level EXCEPT !.step = "entry", !.entry = e, !.isDir = IsDir(fs, e)])
    /\ UNCHANGED <<fs, reply, searches>> /\ SameCall

SearchNext ==
    /\ ~Idle /\ Level.step = "search"
    /\ \E e \in Unseen \cup (Children(fs, Level.path) \ Level.seen) :
          SetTop([Level EXCEPT !.step = "entry", !.seen = @ \cup {e}, !.entry = e,
                             !.isDir = IsDir(fs, e)])
    /\ UNCHANGED <<fs, reply, searches>> /\ SameCall

\* FindNextFile returns FALSE, FindClose
SearchEnds ==
    /\ ~Idle /\ Level.step = "search"
    /\ Unseen \cap DOMAIN fs = {}
    /\ SetTop([Level EXCEPT !.step = "leave"])
    /\ searches' = searches - 1
    /\ UNCHANGED <<fs, reply>> /\ SameCall

Continue == SetTop([Level EXCEPT !.step = "search"]) /\ UNCHANGED reply

\* The level goes on when the new call returns.
Descend(p, q) ==
    /\ levels' = Append([levels EXCEPT ![Len(levels)].step = "search"], Frame(p, q))
    /\ UNCHANGED <<fs, reply>>

DeleteEntry ==
    /\ InDelete /\ Level.step = "entry"
    /\ IF Level.isDir THEN Descend(Level.entry, Level.entry)
       ELSE LET g == WithoutReadonly(fs, Level.entry)
            IN  IF CanDeleteFile(g, busy, Level.entry)
                THEN fs' = Lacks(g, Level.entry) /\ Continue
                ELSE fs' = g /\ Fail
    /\ UNCHANGED searches /\ SameCall

\* Mutant: the separator between path and name is missing.
NewSubPathBeside == Append(Parent(Level.newPath), Level.entry[Len(Level.entry)])

NewSubPath == Append(Level.newPath, Level.entry[Len(Level.entry)])

CopyEntry ==
    /\ InCopy /\ Level.step = "entry"
    /\ IF Level.isDir THEN Descend(Level.entry, NewSubPath)
       ELSE IF CanCopyFile(fs, busy, Level.entry, NewSubPath)
       THEN fs' = Holds(fs, NewSubPath, fs[Level.entry]) /\ Continue
       ELSE Fail /\ UNCHANGED fs
    /\ UNCHANGED searches /\ SameCall

\* return RemoveDirectory(path)
DeleteLeave ==
    /\ InDelete /\ Level.step = "leave"
    /\ IF CanRemoveDirectory(fs, Level.path)
       THEN fs' = Lacks(fs, Level.path) /\ ReturnTrue
       ELSE Fail /\ UNCHANGED fs
    /\ UNCHANGED searches /\ SameCall

CopyLeave ==
    /\ InCopy /\ Level.step = "leave"
    /\ ReturnTrue
    /\ UNCHANGED <<fs, searches>> /\ SameCall

(* ------------------------------ other programs ------------------------------ *)

Meddles == /\ meddled.left > 0
           /\ meddled' = [left |-> meddled.left - 1, now |-> TRUE]
           /\ UNCHANGED <<levels, call, before, reply, searches>>

OtherOpens(p) == Meddles /\ IsFile(fs, p) /\ busy' = busy \cup {p} /\ UNCHANGED fs
OtherCloses(p) == Meddles /\ p \in busy /\ busy' = busy \ {p} /\ UNCHANGED fs
OtherDeletes(p) ==
    /\ Meddles /\ CanDeleteFile(fs, busy, p)
    /\ fs' = Lacks(fs, p) /\ UNCHANGED busy
OtherCreates(p) ==
    /\ Meddles /\ Place(fs, p) /\ ~Exists(fs, p)
    /\ \E d \in Contents : fs' = Holds(fs, p, [dir |-> FALSE, data |-> d, readonly |-> FALSE])
    /\ UNCHANGED busy
Others == \/ \E p \in DOMAIN fs : OtherOpens(p) \/ OtherCloses(p) \/ OtherDeletes(p)
          \/ \E d \in DOMAIN fs, n \in Names : OtherCreates(Append(d, n))

Opcode ==
    \/ \E p \in Sources : \/ Script_FS_DeleteFile(p) \/ Script_FS_RemoveDirectory(p)
                          \/ Script_FS_DeleteDirectory(p)
    \/ \E p \in Sources, q \in Targets :
          \/ Script_FS_MoveFile(p, q) \/ Script_FS_MoveDir(p, q)
          \/ Script_FS_CopyFile(p, q) \/ Script_FS_CopyDir(p, q)

Work == \/ DeleteEnter \/ CopyEnter \/ SearchNext \/ SearchEnds
        \/ DeleteEntry \/ CopyEntry \/ DeleteLeave \/ CopyLeave

TreesNext == Opcode \/ Work \/ Others

\* The plugin runs until its opcode is done.
TreesSpec == TreesInit /\ [][TreesNext]_treeVars /\ WF_treeVars(Work)

(* ------------------------------- properties ------------------------------- *)

TreesTyped ==
    /\ IsTree(fs) /\ busy \subseteq DOMAIN fs
    /\ reply \in BOOLEAN
    /\ searches \in Nat

Ended(op) == call.op = op /\ Idle /\ ~meddled.now
Outside(f, p) == [q \in {r \in DOMAIN f : ~IsPrefix(p, r)} |-> f[q]]

\* delete_directory, left alone by other programs, removes the whole tree, its
\* read-only files too, and nothing else; it fails only when the directory was
\* missing or a file in it is held open.
DeleteIsExact ==
    Ended("delete_directory") =>
        IF reply THEN fs = Outside(before, call.path)
        ELSE \/ ~(Exists(before, call.path) /\ IsDir(before, call.path))
             \/ \E p \in busy : IsStrictPrefix(call.path, p)

\* A file system with a copy of the directory p at q, which did not exist.
TreeCopied(f, p, q) ==
    [r \in DOMAIN f \cup {q \o SubSeq(s, Len(p) + 1, Len(s)) :
                              s \in {t \in DOMAIN f : IsPrefix(p, t)}} |->
        IF r \in DOMAIN f THEN f[r] ELSE f[p \o SubSeq(r, Len(q) + 1, Len(r))]]

\* When copy_directory succeeds, and other programs left it alone, the new
\* directory holds what the old one did, attributes of files included, and
\* nothing else has changed.
CopyIsExact ==
    (Ended("copy_directory") /\ reply /\ IsDir(before, call.path)) =>
        fs = TreeCopied(before, call.path, call.newPath)

\* An opcode that succeeds has closed every search it opened, at every level.
SearchesClosed == (Idle /\ reply) => searches = 0

\* Deletions and copies that are left alone are exact, searches are closed, and whatever others
\* do, the plugin changes nothing outside the directory that is deleted or created.
TreesExact ==
    /\ [](TreesTyped /\ DeleteIsExact /\ CopyIsExact /\ SearchesClosed)
    /\ [][Work => Outside(fs', call.newPath) = Outside(fs, call.newPath)]_treeVars

\* The recursion comes to an end, also when a directory is copied into itself.
OpcodesEnd == ~Idle ~> Idle
=============================================================================
