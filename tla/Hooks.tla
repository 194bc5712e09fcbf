------------------------------- MODULE Hooks --------------------------------
(* moonloader/lib/hooks.lua: jmp hooks (with and without a trampoline), call  *)
(* hooks and vmt hooks of one script.  A place is the start of a function of  *)
(* the game, a call instruction or a slot of a virtual table; what stands     *)
(* there is the game's own content or a jump to the callback of a hook.       *)
EXTENDS Integers, Sequences, FiniteSets

CONSTANTS
    Kinds,          \* the kinds of hook each place can carry
    MaxHooks, MaxDepth, \* bounds: hooks created, calls under way
    Shared,         \* whether a place may carry several hooks
    TrampolineOnTop,\* whether a hook with a trampoline may be put on another hook
    MayStop         \* whether stop() and start() are called, between calls of the game

HookKinds == {"jmp", "tramp", "call", "vmt"}

\* A place is the start of a function, a call instruction (call.new looks for it) or a slot.
OneSort(kinds) == kinds \subseteq {"jmp", "tramp"} \/ kinds \subseteq {"call"} \/ kinds \subseteq {"vmt"}

HooksAssumption ==
    /\ \A p \in DOMAIN Kinds : Kinds[p] \subseteq HookKinds /\ OneSort(Kinds[p])
    /\ MaxHooks \in Nat /\ MaxDepth \in Nat
    /\ Shared \in BOOLEAN /\ TrampolineOnTop \in BOOLEAN /\ MayStop \in BOOLEAN

Places == DOMAIN Kinds
Original == 0           \* the game's own bytes; n > 0 is a jump to callback n
Lost == -1              \* an address that was never meant

VARIABLES
    mem,        \* content of each place
    hooks,      \* the hooks, in the order of their creation
    stack,      \* calls under way: what runs, the hook to start() when it returns, and
                \* whether the game made the call or a callback by way of its hook
    asked,      \* ghost: whether each hook was last asked to be on
    loaded      \* the script is
hooksVars == <<mem, hooks, stack, asked, loaded>>

HooksInit ==
    /\ mem = [p \in Places |-> Original]
    /\ hooks = <<>> /\ stack = <<>> /\ asked = <<>> /\ loaded = TRUE

On(p) == {i \in DOMAIN hooks : hooks[i].place = p}
Top == stack[Len(stack)]

\* A place without a call instruction gets no call hook (Kinds).
MayHook(p, kind) ==
    /\ loaded /\ stack = <<>> /\ Len(hooks) < MaxHooks
    /\ kind \in Kinds[p] /\ (Shared \/ On(p) = {})
    /\ (kind = "tramp" /\ ~TrampolineOnTop) => mem[p] = Original

\* Mutant: the game's own content is remembered, whatever stood there.
NewRememberedOriginal(p, kind) ==
    /\ MayHook(p, kind)
    /\ hooks' = Append(hooks, [place |-> p, kind |-> kind, org |-> Original, status |-> TRUE])
    /\ mem' = [mem EXCEPT ![p] = Len(hooks')]
    /\ asked' = Append(asked, TRUE)
    /\ UNCHANGED <<stack, loaded>>

\* vmt.hookMethod, jmp.new and call.new: the content that is replaced is remembered.
New(p, kind) ==
    /\ MayHook(p, kind)
    /\ hooks' = Append(hooks, [place |-> p, kind |-> kind, org |-> mem[p], status |-> TRUE])
    /\ mem' = [mem EXCEPT ![p] = Len(hooks')]
    /\ asked' = Append(asked, TRUE)
    /\ UNCHANGED <<stack, loaded>>

set_status(i, on) ==
    /\ hooks' = [hooks EXCEPT ![i].status = on]
    /\ mem' = [mem EXCEPT ![hooks[i].place] = IF on THEN i ELSE hooks[i].org]

\* unHookMethod of a vmt hook leads the slot through a new trampoline to what it held before.
\* It can be done once and not undone.
MayChange(i) ==
    /\ MayStop /\ loaded /\ stack = <<>> /\ i \in DOMAIN hooks
    /\ hooks[i].kind = "vmt" => hooks[i].status

stop(i) == MayChange(i) /\ set_status(i, FALSE) /\ asked' = [asked EXCEPT ![i] = FALSE] /\ UNCHANGED <<stack, loaded>>
start(i) ==
    /\ MayChange(i) /\ hooks[i].kind # "vmt" /\ set_status(i, TRUE)
    /\ asked' = [asked EXCEPT ![i] = TRUE] /\ UNCHANGED <<stack, loaded>>

Enter(content, restart, by) == stack' = Append(stack, [run |-> content, restart |-> restart, by |-> by])

\* The game, or what runs already, calls what stands at a place.
GameCalls(p) ==
    /\ loaded /\ Len(stack) < MaxDepth
    /\ Enter(mem[p], 0, "game")
    /\ UNCHANGED <<mem, hooks, asked, loaded>>

Running(kinds) == stack # <<>> /\ Len(stack) < MaxDepth /\ Top.run > 0 /\ hooks[Top.run].kind \in kinds

\* A callback calls its hook: without a trampoline the hook is stopped, the place is called,
\* and the hook is started again when that returns.
CallUnhooked ==
    /\ Running({"jmp"})
    /\ set_status(Top.run, FALSE)
    /\ Enter(mem'[hooks[Top.run].place], Top.run, "hook")
    /\ UNCHANGED <<asked, loaded>>

\* The target of a call instruction and the slot of a table are called directly.
CallTarget ==
    /\ Running({"call", "vmt"})
    /\ Enter(hooks[Top.run].org, 0, "hook")
    /\ UNCHANGED <<mem, hooks, asked, loaded>>

\* A trampoline holds a copy of the old bytes.  A relative jump among them leads, from its
\* new address, to no place that was meant.
CallTrampoline ==
    /\ Running({"tramp"})
    /\ Enter(IF hooks[Top.run].org = Original THEN Original ELSE Lost, 0, "hook")
    /\ UNCHANGED <<mem, hooks, asked, loaded>>

Return ==
    /\ stack # <<>> /\ Top.run # Lost
    /\ stack' = SubSeq(stack, 1, Len(stack) - 1)
    /\ IF Top.restart = 0 THEN UNCHANGED <<mem, hooks>> ELSE set_status(Top.restart, TRUE)
    /\ UNCHANGED <<asked, loaded>>

Stopped(i) == hooks[i].status

\* onScriptTerminate: the hooks that are on are stopped, jmp hooks, call hooks, vmt hooks,
\* each kind in the order of creation.  At one place all are of the same kind or jmp hooks.
onScriptTerminate ==
    /\ loaded /\ stack = <<>> /\ loaded' = FALSE
    /\ mem' = [p \in Places |->
                  LET off == {i \in On(p) : Stopped(i)}
                  IN  IF off = {} THEN mem[p] ELSE hooks[CHOOSE i \in off : \A j \in off : j <= i].org]
    /\ hooks' = [i \in DOMAIN hooks |-> [hooks[i] EXCEPT !.status = FALSE]]
    /\ UNCHANGED <<stack, asked>>

HooksNext ==
    \/ \E p \in Places : \E kind \in HookKinds : New(p, kind)
    \/ \E p \in Places : GameCalls(p)
    \/ \E i \in 1 .. MaxHooks : stop(i) \/ start(i)
    \/ CallUnhooked \/ CallTarget \/ CallTrampoline \/ Return
    \/ onScriptTerminate
HooksSpec == HooksInit /\ [][HooksNext]_hooksVars

(* ------------------------------- properties ------------------------------- *)

\* Places and calls name hooks that exist, and what a hook replaced is older than the hook.
HooksTypeOK ==
    /\ mem \in [Places -> 0 .. Len(hooks)]
    /\ \A i \in DOMAIN hooks : hooks[i].org \in 0 .. i - 1
    /\ \A n \in DOMAIN stack : stack[n].run \in Lost .. Len(hooks) /\ stack[n].restart \in 0 .. Len(hooks)

\* Between calls a place holds the newest of the hooks that were last asked to be on, however
\* deep the calls before went.
AtRest ==
    (loaded /\ stack = <<>>) => \A p \in Places :
        LET on == {i \in On(p) : asked[i]}
        IN  mem[p] = IF on = {} THEN Original ELSE CHOOSE i \in on : \A j \in on : j <= i

\* A call of the game that reached the original content by way of callbacks passed through
\* every hook of the place, each once and the newest first.
ChainExact ==
    \A n \in DOMAIN stack :
        (/\ stack[n].run = Original /\ stack[1].run > 0
         /\ \A k \in 2 .. n : stack[k].by = "hook")
        => LET chain == On(hooks[stack[1].run].place)
           IN  /\ {stack[k].run : k \in 1 .. n - 1} = chain
               /\ \A k \in 2 .. n : stack[k].run < stack[k - 1].run

\* What runs is the game or a callback, never a jump that was copied elsewhere: the warning
\* calls a hook put on another one with a trampoline a hook that was rewritten and "disabled,
\* through trampoline" (hooks.lua:114).
NeverLost == \A n \in DOMAIN stack : stack[n].run # Lost

\* "DELETE HOOKS" (hooks.lua:153): a script that ended leaves no jump to its callbacks at a
\* place that carried one hook.
HooksDeleted ==
    ~loaded => \A p \in Places : (\A i, j \in On(p) : i = j) => mem[p] = Original

\* Between calls a place holds the newest of its hooks that are on; a call that reaches the
\* original passed every hook of the place, newest first, and none goes where it was never
\* meant to; a script that ended leaves no jump behind.
HooksExact == HooksTypeOK /\ AtRest /\ ChainExact /\ NeverLost /\ HooksDeleted
=============================================================================
