----------------------------- MODULE MemAccess ------------------------------
(* SharedUtil.MemAccess.hpp: writing to the game's code.  The pages that hold *)
(* an often written place are made writable once and for all; every other     *)
(* write opens its pages, writes and closes them again.  Places are blocks of *)
(* 0x100 bytes, BlocksPerPage (16 in the code) to a page.                     *)
EXTENDS Integers, FiniteSets

CONSTANTS
    NumPages,       \* pages of the process, the code and what surrounds it
    BlocksPerPage,
    FirstCodePage, LastCodePage,    \* the game's code: 0x401 and 0x8A3
    FastBlocks,     \* the blocks SetInitialVirtualProtect() unprotects a page for
    Mixed           \* whether a write may cover a protected and an unprotected page

Blocks == 0 .. NumPages * BlocksPerPage - 1
Pages == 0 .. NumPages - 1
Page(b) == b \div BlocksPerPage
CodePages == FirstCodePage .. LastCodePage

MemAccessAssumption ==
    /\ NumPages \in Nat \ {0} /\ BlocksPerPage \in Nat \ {0}
    /\ FirstCodePage \in Pages /\ LastCodePage \in Pages /\ LastCodePage + 1 \in Pages
    /\ FastBlocks \subseteq {b \in Blocks : Page(b) \in CodePages}
    /\ Mixed \in BOOLEAN

FastPages == {Page(b) : b \in FastBlocks}

VARIABLES
    prot,       \* protection of each page: "rx" or "rwx"
    unprotected,\* SetInitialVirtualProtect() was called
    hMem,       \* the handle of the write under way, or Closed
    written     \* blocks the write under way has still to write: <<first, last>>
memVars == <<prot, unprotected, hMem, written>>

Closed == [dwFirstPage |-> -1, pages |-> 0, oldProt |-> "none"]

MemInit ==
    /\ prot = [p \in Pages |-> IF p \in CodePages THEN "rx" ELSE "rwx"]
    /\ unprotected = FALSE /\ hMem = Closed /\ written = <<>>

VirtualProtect(table, pages, p) == [q \in Pages |-> IF q \in pages THEN p ELSE table[q]]

SetInitialVirtualProtect ==
    /\ ~unprotected /\ written = <<>>
    /\ unprotected' = TRUE
    /\ prot' = VirtualProtect(prot, FastPages, "rwx")
    /\ UNCHANGED <<hMem, written>>

\* No block from first to last is a fast one or outside the code.  The first block behind
\* the code (0x8A40) counts as code here, its page does not (IsProtectedSlowMem).
IsSlowMem(first, last) ==
    \A b \in first .. last :
        /\ FirstCodePage * BlocksPerPage <= b /\ b <= (LastCodePage + 1) * BlocksPerPage
        /\ b \notin FastBlocks

LastPage(first, last) == Page(last)

\* What a write covers: pages of one kind, unless Mixed.
Covered(first, last) ==
    LET open == {p \in Page(first) .. Page(last) : p \notin CodePages \/ p \in FastPages}
    IN  Mixed \/ open = {} \/ open = Page(first) .. Page(last)

\* The old protection that is kept is that of the first page.
OpenMemWrite(first, last) ==
    /\ written = <<>> /\ first <= last
    /\ unprotected /\ IsSlowMem(first, last) /\ Covered(first, last)
    /\ LET opened == Page(first) .. LastPage(first, last)
       IN  /\ hMem' = [dwFirstPage |-> Page(first), pages |-> Cardinality(opened), oldProt |-> prot[Page(first)]]
           /\ prot' = VirtualProtect(prot, opened, "rwx")
    /\ written' = <<first, last>>
    /\ UNCHANGED unprotected

\* "Should use Mem*Fast function": the handle stays empty and the caller writes all the same.
OpenFastMem(first, last) ==
    /\ written = <<>> /\ first <= last
    /\ unprotected /\ ~IsSlowMem(first, last) /\ Covered(first, last)
    /\ written' = <<first, last>>
    /\ UNCHANGED <<prot, unprotected, hMem>>

\* The next block of the range is written.
WriteSlow ==
    /\ written # <<>> /\ written[1] <= written[2]
    /\ written' = <<written[1] + 1, written[2]>>
    /\ UNCHANGED <<prot, unprotected, hMem>>

\* Mutant: only the first page is protected again.
CloseFirstPage == VirtualProtect(prot, {hMem.dwFirstPage}, hMem.oldProt)

Reprotected ==
    VirtualProtect(prot, hMem.dwFirstPage .. hMem.dwFirstPage + hMem.pages - 1, hMem.oldProt)

CloseMemWrite ==
    /\ written # <<>> /\ written[1] > written[2]
    /\ prot' = IF hMem = Closed THEN prot ELSE Reprotected
    /\ hMem' = Closed /\ written' = <<>>
    /\ UNCHANGED unprotected

MemNext ==
    \/ SetInitialVirtualProtect
    \/ \E first, last \in Blocks : OpenMemWrite(first, last) \/ OpenFastMem(first, last)
    \/ WriteSlow
    \/ CloseMemWrite
MemSpec == MemInit /\ [][MemNext]_memVars

(* ------------------------------- properties ------------------------------- *)

\* Protections are known ones and a handle reaches exactly to the page of its last byte.
MemTypeOK ==
    /\ prot \in [Pages -> {"rx", "rwx"}] /\ unprotected \in BOOLEAN
    /\ hMem = Closed \/ (hMem.dwFirstPage \in Pages /\ hMem.oldProt \in {"rx", "rwx"}
                            /\ hMem.dwFirstPage + hMem.pages = Page(written[2]) + 1)

\* A write between opening and closing never meets a protected page.
SlowWritesSucceed ==
    (written # <<>> /\ written[1] <= written[2]) => prot[Page(written[1])] = "rwx"

\* Between two writes the code is protected except for the pages unprotected for good:
\* however the earlier writes were placed, none left a page open.
CodeProtectedAtRest ==
    written = <<>> => \A p \in CodePages :
        prot[p] = "rwx" <=> (unprotected /\ p \in FastPages)

\* The often written places stay writable without a handle, also after other writes to
\* their pages.
FastWritesSucceed ==
    unprotected => \A b \in FastBlocks : prot[Page(b)] = "rwx"

\* SharedUtil.MemAccess: no write meets a protected page, the often written places stay
\* writable, and between writes the code is protected.
CodeProtected == MemTypeOK /\ CodeProtectedAtRest /\ SlowWritesSucceed /\ FastWritesSucceed
=============================================================================
