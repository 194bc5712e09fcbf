----------------------------- MODULE MCScripts ------------------------------
(* Small instances of the Lua libraries and scripts that run by themselves:   *)
(* hotkeys, hooks, AutoReboot, ltn12 and SNET's byte streams.  They share no  *)
(* state, so one run checks them all: `part` is chosen at the start, and from *)
(* then on only what belongs to that part changes.                            *)
EXTENDS Hooks, ByteStream, Rkeys

VARIABLES
    part,
    List, ActiveKeys, HotKeyIsEdit, ReturnHotKeys,              \* mimgui_hotkeys
    held, focused, lost, firedName, before, crashed,
    disk, running, content, files, todo, seen, phase, clock,    \* AutoReboot
    filters, driver, state, last_in, fed, out, told, errors,    \* ltn12
    inLoop, chunk, retry, index, top, ctx

Parts == {"keys", "dialogue", "careless dialogue", "hooks", "chain",
          "reboot", "filters", "bytes"}

(* ------------------------------- instances -------------------------------- *)

\* A key alone, with a modifier, and with a mouse button in either order.
KeyCombos == {<<"A">>, <<"VK_CONTROL", "A">>, <<"A", "M">>, <<"M", "A">>}

\* Two hotkeys, two special keys; backspace removes the keys.
Dialogue == INSTANCE MimguiHotkeys
            WITH Names <- {"a", "b"}, specialKeys <- {16, 17}, Plain <- {65},
                 CancelKey <- 46, RemoveKey <- 8, Assigned <- {<<>>, <<65>>, <<17, 65>>},
                 Careless <- FALSE, fired <- firedName

\* Buttons are clicked, and the program sets and removes hotkeys, while one is edited.
Careless == INSTANCE MimguiHotkeys
            WITH Names <- {"a", "b"}, specialKeys <- {17}, Plain <- {65},
                 CancelKey <- 46, RemoveKey <- 8, Assigned <- {<<65>>, <<17, 65>>},
                 Careless <- TRUE, fired <- firedName

\* A function, a call instruction and a slot of a virtual table, with one hook on each by the
\* constants of the configuration, or several hooks on one place.
HookedPlaces == [f |-> {"jmp", "tramp"}, c |-> {"call"}, v |-> {"vmt"}]
Chain == INSTANCE Hooks
         WITH Kinds <- [f |-> {"jmp"}, c |-> {"call"}, v |-> {}],
              MaxHooks <- 3, MaxDepth <- 6, Shared <- TRUE, TrampolineOnTop <- FALSE,
              MayStop <- FALSE

Reboot == INSTANCE AutoReboot WITH Paths <- {"a", "b"}, MaxTime <- 3

\* Up to three filters that pass on or double, and give one, two or three symbols at a call:
\* those with small blocks need several calls for one chunk, those with large ones hold back.
FilterKinds == [factor : {1, 2}, block : 1 .. 3]
Filter == INSTANCE Ltn12
          WITH Input <- <<1, 2, 3, 4>>, MaxChunk <- 3,
               Chains <- UNION {[1 .. k -> FilterKinds] : k \in 1 .. 3}, running <- inLoop

\* With three values of a byte, by the configuration, a signed one has its three kinds of values.
ByteSizes == [int8_t |-> 1, uint8_t |-> 1, uint16_t |-> 2, bool |-> 1]

ASSUME Instances ==
    /\ Dialogue!MimguiHotkeysAssumption /\ Careless!MimguiHotkeysAssumption
    /\ RkeysAssumption /\ OneOfEachModifier
    /\ HooksAssumption /\ Chain!HooksAssumption
    /\ Reboot!AutoRebootAssumption /\ Filter!Ltn12Assumption

(* ------------------------------ behaviours -------------------------------- *)

dialogueVars == <<List, ActiveKeys, HotKeyIsEdit, ReturnHotKeys, held, focused, lost,
                  firedName, before, crashed>>
rebootVars == <<disk, running, content, files, todo, seen, phase, clock>>
filterVars == <<filters, driver, state, last_in, fed, out, told, errors, inLoop, chunk, retry,
                index, top, ctx>>
vars == <<part, keysVars, dialogueVars, hooksVars, rebootVars, filterVars, bstreamVars>>

\* What is open at the start is chosen for the part that is checked only.
Init ==
    /\ part \in Parts
    /\ KeysInit /\ Dialogue!Init /\ Reboot!RebootInit /\ Filter!Init /\ BytesInit
    /\ HooksInit
    /\ part # "reboot" => running = {}
    /\ part # "filters" => filters = <<[factor |-> 1, block |-> 1]>> /\ driver = "source"

OfKeys ==
    /\ part = "keys" /\ KeysNext
    /\ UNCHANGED <<part, dialogueVars, hooksVars, rebootVars, filterVars, bstreamVars>>

DialogueNext ==
    /\ \/ part = "dialogue" /\ Dialogue!Next
       \/ part = "careless dialogue" /\ Careless!Next
    /\ UNCHANGED <<part, keysVars, hooksVars, rebootVars, filterVars, bstreamVars>>

OfHooks ==
    /\ \/ part = "hooks" /\ HooksNext
       \/ part = "chain" /\ Chain!HooksNext
    /\ UNCHANGED <<part, keysVars, dialogueVars, rebootVars, filterVars, bstreamVars>>

RebootNext(step) ==
    /\ part = "reboot" /\ step
    /\ UNCHANGED <<part, keysVars, dialogueVars, hooksVars, filterVars, bstreamVars>>

FilterNext ==
    /\ part = "filters" /\ Filter!Next
    /\ UNCHANGED <<part, keysVars, dialogueVars, hooksVars, rebootVars, bstreamVars>>

ByteNext ==
    /\ part = "bytes" /\ BytesNext
    /\ UNCHANGED <<part, keysVars, dialogueVars, hooksVars, rebootVars, filterVars>>

Next ==
    \/ OfKeys \/ DialogueNext \/ OfHooks \/ RebootNext(Reboot!RebootNext) \/ FilterNext
    \/ ByteNext

\* AutoReboot goes on while the game runs, and the loops of ltn12 do.
Spec ==
    /\ Init /\ [][Next]_vars
    /\ WF_vars(RebootNext(Reboot!RebootStep)) /\ WF_vars(FilterNext)

(* -------------------- properties, stated in the modules ------------------- *)

\* mimgui_hotkeys: the special keys taken for held are down, and a callback runs only while
\* all keys of its hotkey are, whatever dialogues were open and whatever was done to the
\* hotkey meanwhile, but for special keys that went up behind another window and that neither
\* came down again nor met a dialogue since.  With a program that leaves the edited hotkey
\* alone a dialogue never ends with special keys alone nor gives a key too many to a hotkey
\* made for one, and cancelling it gives back the keys from before.
DialoguesSound ==
    /\ [](IF part = "careless dialogue" THEN Careless!NoStuckKey /\ Careless!FiresWhileDown
          ELSE /\ Dialogue!TypeOK /\ Dialogue!NoStuckKey /\ Dialogue!FiresWhileDown
               /\ Dialogue!SoloHasOneKey /\ Dialogue!OnePlainKey)
    /\ [][part = "dialogue" => Dialogue!Restores]_vars

\* KeysHeld and FiresOnce are those of Rkeys, HooksExact is that of Hooks, for both parts, and
\* PacketReadsBack that of ByteStream.

\* AutoReboot: a file whose time is stored was loaded as it is, and the last writing of a
\* script it knows is loaded in the end.
Reloaded ==
    /\ [](Reboot!RebootTypeOK /\ Reboot!StoredIsLoaded)
    /\ part = "reboot" => Reboot!Reloaded

\* ltn12: what comes out is what the filters make of the input, in order, and at the end,
\* which comes, all of it; a filter that has ended holds nothing, and a new chunk comes only
\* when what the filters had ready was delivered.
OutputExact ==
    /\ [](/\ Filter!TypeOK /\ Filter!OutputInOrder /\ Filter!OutputComplete
          /\ Filter!EndedAreEmpty
          /\ part = "filters" => Filter!FedWhenDrained)
    /\ part = "filters" => Filter!Ends

\* ltn12: the pump reports every error of the source and the sink, and tells the sink the end
\* once unless the sink gave an error; what was taken before an error of the source still
\* reaches a filtered sink.
PumpTells == Filter!PumpTells

=============================================================================
