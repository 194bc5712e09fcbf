----------------------------- MODULE AutoReboot -----------------------------
(* moonloader/AutoReboot.lua: the script that looks every half second whether *)
(* the files of the loaded scripts were written, and reloads those that were. *)
EXTENDS Integers, FiniteSets

CONSTANTS
    Paths,          \* the files of scripts; AutoReboot itself is not among them
    MaxTime         \* bound: the latest time a file is written

AutoRebootAssumption == MaxTime \in Nat

None == -1          \* no file

VARIABLES
    disk,       \* path -> time of the last writing of the file, or None when it is deleted
    running,    \* the paths of the scripts that run
    content,    \* path -> time of the writing that was loaded last, or None
    files,      \* path -> the saved time; its domain are the scripts of init()
    todo,       \* paths the pass under way has still to look at
    seen,       \* the path with a new time and that time, or Nothing
    phase,      \* "start", "waiting", "looking", "loading" or "storing"
    clock       \* time of the last writing of any file
rebootVars == <<disk, running, content, files, todo, seen, phase, clock>>

Nothing == [path |-> "none", time |-> None]

\* MoonLoader has loaded the scripts, and AutoReboot has not yet stored their times.
RebootInit ==
    /\ running \in SUBSET Paths
    /\ disk = [p \in Paths |-> IF p \in running THEN 0 ELSE None] /\ content = disk
    /\ files = <<>> /\ todo = {} /\ seen = Nothing /\ phase = "start" /\ clock = 0

(* ------------------------------ the environment --------------------------- *)

\* Somebody writes the file of a script.  Nothing is written before init().
Write(p) ==
    /\ phase # "start" /\ clock < MaxTime
    /\ clock' = clock + 1 /\ disk' = [disk EXCEPT ![p] = clock + 1]
    /\ UNCHANGED <<running, content, files, todo, seen, phase>>

Delete(p) ==
    /\ phase # "start"
    /\ disk[p] # None /\ disk' = [disk EXCEPT ![p] = None]
    /\ UNCHANGED <<running, content, files, todo, seen, phase, clock>>

\* Another script, the user or an error ends a script.
End(p) ==
    /\ p \in running /\ running' = running \ {p}
    /\ UNCHANGED <<disk, content, files, todo, seen, phase, clock>>

\* Another script or the user loads one.
LoadElsewhere(p) ==
    /\ phase # "start" /\ p \notin running /\ disk[p] # None
    /\ running' = running \cup {p} /\ content' = [content EXCEPT ![p] = disk[p]]
    /\ UNCHANGED <<disk, files, todo, seen, phase, clock>>

(* -------------------------------- AutoReboot ------------------------------ *)

init ==
    /\ phase = "start" /\ phase' = "waiting"
    /\ files' = [p \in {q \in running : disk[q] # None} |-> disk[p]]
    /\ UNCHANGED <<disk, running, content, todo, seen, clock>>

\* wait(autoreloadDelay) has passed.
BeginPass ==
    /\ phase = "waiting" /\ phase' = "looking"
    /\ todo' = DOMAIN files
    /\ UNCHANGED <<disk, running, content, files, seen, clock>>

\* get_file_modify_time(fpath) of the next path, in any order.
Look(p) ==
    /\ phase = "looking" /\ p \in todo /\ todo' = todo \ {p}
    /\ IF disk[p] = None \/ disk[p] = files[p]
       THEN UNCHANGED <<seen, phase>>
       ELSE seen' = [path |-> p, time |-> disk[p]] /\ phase' = "loading"
    /\ UNCHANGED <<disk, running, content, files, clock>>

\* scr:reload() ends the script first; script.load(fpath) finds none.  Either loads what the
\* file holds by now, and nothing if it is gone.
Load ==
    /\ phase = "loading" /\ phase' = "storing"
    /\ LET p == seen.path
       IN  IF disk[p] = None THEN running' = running \ {p} /\ UNCHANGED content
           ELSE running' = running \cup {p} /\ content' = [content EXCEPT ![p] = disk[p]]
    /\ UNCHANGED <<disk, files, todo, seen, clock>>

\* Mutant: the time is read again when it is stored.
TimeByNow == disk[seen.path]

TimeStored == seen.time

Store ==
    /\ phase = "storing" /\ phase' = "looking"
    /\ files' = [files EXCEPT ![seen.path] = TimeStored] /\ seen' = Nothing
    /\ UNCHANGED <<disk, running, content, todo, clock>>

EndPass ==
    /\ phase = "looking" /\ todo = {} /\ phase' = "waiting"
    /\ UNCHANGED <<disk, running, content, files, todo, seen, clock>>

RebootStep == init \/ BeginPass \/ (\E p \in Paths : Look(p)) \/ Load \/ Store \/ EndPass
RebootNext == RebootStep \/ \E p \in Paths : Write(p) \/ Delete(p) \/ End(p) \/ LoadElsewhere(p)
RebootSpec == RebootInit /\ [][RebootNext]_rebootVars

\* The script goes on while the game runs; files are written or not.
FairRebootSpec == RebootSpec /\ WF_rebootVars(RebootStep)

(* ------------------------------- properties ------------------------------- *)

\* Only stored scripts are looked at, and a time is stored only while it is one the file had.
RebootTypeOK ==
    /\ running \subseteq Paths /\ todo \subseteq DOMAIN files
    /\ disk \in [Paths -> None .. MaxTime] /\ content \in [Paths -> None .. MaxTime]
    /\ \A p \in DOMAIN files : files[p] \in 0 .. clock
    /\ seen = Nothing <=> phase \notin {"loading", "storing"}

\* A file whose time is the stored one was loaded as it is: a file written while it was being
\* loaded is never taken for loaded when it is not.
StoredIsLoaded == \A p \in DOMAIN files : disk[p] = files[p] => content[p] = disk[p]

\* The last writing of a script that AutoReboot knows is loaded, unless the file is written
\* or deleted again.
Reloaded ==
    \A p \in Paths : \A t \in 1 .. MaxTime :
        (p \in DOMAIN files /\ disk[p] = t) ~> (content[p] = t \/ disk[p] # t)
=============================================================================
