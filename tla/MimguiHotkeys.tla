--------------------------- MODULE MimguiHotkeys ----------------------------
(* moonloader/lib/mimgui_hotkeys.lua: named hotkeys, the dialogue that        *)
(* changes one and the handler of window messages.  The keyboard and the      *)
(* focus of the window are part of the model: a key that goes down or up      *)
(* while another window has the focus sends no message, and the library       *)
(* does not look at WM_KILLFOCUS.                                             *)
EXTENDS Integers, Sequences, FiniteSets, SequencesExt

CONSTANTS
    Names,
    specialKeys,    \* the codes of shift, control and alt
    Plain,          \* other keys a hotkey may have
    CancelKey, RemoveKey,
    Assigned,       \* key lists a program registers or sets
    Careless        \* whether, while a hotkey is edited, a button is clicked and the program
                    \* sets the keys of that hotkey, removes it and registers it again

Escape == 27
Backspace == 8
MimguiHotkeysAssumption ==
    /\ specialKeys \cap Plain = {} /\ {Escape, Backspace, CancelKey, RemoveKey} \cap (specialKeys \cup Plain) = {}
    /\ Careless \in BOOLEAN
KeysOfHotKeys == specialKeys \cup Plain
Keys == specialKeys \cup Plain \cup {Escape, Backspace, CancelKey, RemoveKey}

NoName == "none"
NotEdited == [name |-> NoName, backup |-> <<>>, active |-> <<>>, shared |-> FALSE]

VARIABLES
    List,       \* function from the registered names to [soloKey, keys]
    ActiveKeys, \* special keys the handler takes for held
    HotKeyIsEdit,   \* the dialogue, or NotEdited.  shared: List's keys and active are one table
    ReturnHotKeys,  \* the name whose dialogue ended, until it is shown, or NoName
    held,       \* environment: the keys of hotkeys that are down
    focused,    \* environment: the window gets the messages of the keyboard
    lost,       \* ghost: special keys that went up without a message, since the handler's
                \* list was last emptied
    fired,      \* ghost: the hotkey the last message fired, or NoName
    before,     \* ghost: keys the edited hotkey had when its dialogue began
    crashed     \* an error ended the script
vars == <<List, ActiveKeys, HotKeyIsEdit, ReturnHotKeys, held, focused, lost, fired, before, crashed>>

Init ==
    /\ List = <<>> /\ ActiveKeys = <<>> /\ HotKeyIsEdit = NotEdited /\ ReturnHotKeys = NoName
    /\ held = {} /\ focused = TRUE /\ lost = {} /\ fired = NoName /\ before = <<>> /\ crashed = FALSE

Ascending(s) == SortSeq(s, LAMBDA a, b : a < b)
WithKeys(name, keys) == [List EXCEPT ![name].keys = keys]
Edited == HotKeyIsEdit.name
keyboard == <<held, focused>>

\* The hotkey is given a table of the program's: the dialogue has it no longer.
Unshared(name) == [HotKeyIsEdit EXCEPT !.shared = @ /\ name # Edited]

(* ---------------------------- calls of programs --------------------------- *)

RegisterHotKey(name, soloKey, keys) ==
    /\ name \notin DOMAIN List
    /\ List' = [n \in DOMAIN List \cup {name} |->
                   IF n = name THEN [soloKey |-> soloKey, keys |-> keys] ELSE List[n]]
    /\ HotKeyIsEdit' = Unshared(name) /\ fired' = NoName
    /\ UNCHANGED <<ActiveKeys, ReturnHotKeys, keyboard, lost, before, crashed>>

EditHotKey(name, keys) ==
    /\ Careless \/ name # Edited
    /\ name \in DOMAIN List
    /\ List' = WithKeys(name, keys) /\ HotKeyIsEdit' = Unshared(name) /\ fired' = NoName
    /\ UNCHANGED <<ActiveKeys, ReturnHotKeys, keyboard, lost, before, crashed>>

RemoveHotKey(name) ==
    /\ Careless \/ name # Edited
    /\ name \in DOMAIN List
    /\ List' = [n \in DOMAIN List \ {name} |-> List[n]] /\ fired' = NoName
    /\ UNCHANGED <<ActiveKeys, HotKeyIsEdit, ReturnHotKeys, keyboard, lost, before, crashed>>

Opened(name) == [keys |-> <<>>, edit |-> [NotEdited EXCEPT !.name = name, !.backup = List[name].keys]]

\* The button is clicked: the dialogue begins.
Click(name) ==
    /\ name \in DOMAIN List /\ (Careless \/ HotKeyIsEdit = NotEdited)
    /\ HotKeyIsEdit' = Opened(name).edit /\ ActiveKeys' = Opened(name).keys
    /\ List' = WithKeys(name, <<>>)
    /\ before' = List[name].keys /\ lost' = {} /\ fired' = NoName
    /\ ReturnHotKeys' = IF ReturnHotKeys = name THEN NoName ELSE ReturnHotKeys
    /\ UNCHANGED <<keyboard, crashed>>

\* ShowHotKey without a click reports the end of the dialogue once.
ShowHotKey(name) ==
    /\ name \in DOMAIN List /\ ReturnHotKeys = name
    /\ ReturnHotKeys' = NoName /\ fired' = NoName
    /\ UNCHANGED <<List, ActiveKeys, HotKeyIsEdit, keyboard, lost, before, crashed>>

(* ----------------------------- window messages ---------------------------- *)

Matching(keys) ==
    {n \in DOMAIN List : List[n].keys # <<>> /\ Ascending(List[n].keys) = Ascending(keys)}

\* Nobody edits: special keys are collected, another key is looked up and taken out again.
PressKey(key) ==
    /\ IF key \in {CancelKey, RemoveKey, Escape, Backspace} \/ List = <<>> \/ Contains(ActiveKeys, key)
       THEN ActiveKeys' = ActiveKeys /\ fired' = NoName
       ELSE IF key \in specialKeys
            THEN ActiveKeys' = Ascending(Append(ActiveKeys, key)) /\ fired' = NoName
            ELSE /\ ActiveKeys' = ActiveKeys
                 /\ LET found == Matching(Append(ActiveKeys, key))
                    IN  fired' \in IF found = {} THEN {NoName} ELSE found
    /\ UNCHANGED <<List, HotKeyIsEdit, ReturnHotKeys, before, crashed>>

Cancelled == HotKeyIsEdit.backup

CancelEdit ==
    /\ List' = WithKeys(Edited, Cancelled) /\ HotKeyIsEdit' = NotEdited
    /\ UNCHANGED ReturnHotKeys

\* Mutant: the keys collected so far stay.
RemoveKeysKept ==
    /\ List' = List
    /\ ReturnHotKeys' = Edited /\ HotKeyIsEdit' = NotEdited

RemoveKeys ==
    /\ List' = WithKeys(Edited, <<>>)
    /\ ReturnHotKeys' = Edited /\ HotKeyIsEdit' = NotEdited

\* A key the dialogue ignores: one it holds already, or Escape and Backspace without a role.
Ignored(key) == key \in {Escape, Backspace} \/ Contains(HotKeyIsEdit.active, key)

Collects(soloKey) == ~soloKey

\* The list of special keys becomes the hotkey's list, not a copy of it.
EditSpecial(key) ==
    /\ IF Collects(List[Edited].soloKey)
       THEN LET active == Ascending(Append(HotKeyIsEdit.active, key))
            IN  /\ HotKeyIsEdit' = [HotKeyIsEdit EXCEPT !.active = active, !.shared = TRUE]
                /\ List' = WithKeys(Edited, active)
       ELSE UNCHANGED <<HotKeyIsEdit, List>>
    /\ UNCHANGED ReturnHotKeys

EditPlain(key) ==
    /\ List' = WithKeys(Edited, Append(List[Edited].keys, key))
    /\ ReturnHotKeys' = Edited /\ HotKeyIsEdit' = NotEdited

EditPress(key) ==
    /\ IF key # CancelKey /\ key # RemoveKey /\ Ignored(key)
       THEN UNCHANGED <<List, HotKeyIsEdit, ReturnHotKeys, crashed>>
       ELSE IF Edited \notin DOMAIN List
       THEN crashed' = TRUE /\ UNCHANGED <<List, HotKeyIsEdit, ReturnHotKeys>>
       ELSE /\ \/ key = CancelKey /\ CancelEdit
               \/ key # CancelKey /\ key = RemoveKey /\ RemoveKeys
               \/ key \in specialKeys /\ EditSpecial(key)
               \/ key \in Plain /\ EditPlain(key)
            /\ UNCHANGED crashed
    /\ fired' = NoName
    /\ UNCHANGED <<ActiveKeys, before>>

\* A key goes down, or repeats while it is down.
KeyDown(key) ==
    /\ focused
    /\ held' = held \cup ({key} \cap KeysOfHotKeys)
    /\ IF HotKeyIsEdit = NotEdited THEN PressKey(key) ELSE EditPress(key)
    /\ lost' = IF HotKeyIsEdit # NotEdited /\ HotKeyIsEdit' = NotEdited THEN {} ELSE lost \ {key}
    /\ UNCHANGED focused

Released(list, edited, key) == IF Contains(list, key) THEN RemoveFirst(list, key) ELSE list

\* A special key that goes up leaves the list it is in, and with it the hotkey whose list
\* that is.
KeyUp(key) ==
    /\ focused
    /\ held' = held \ {key}
    /\ IF key \notin specialKeys THEN UNCHANGED <<List, ActiveKeys, HotKeyIsEdit>>
       ELSE IF HotKeyIsEdit = NotEdited
       THEN ActiveKeys' = Released(ActiveKeys, FALSE, key) /\ UNCHANGED <<List, HotKeyIsEdit>>
       ELSE LET active == Released(HotKeyIsEdit.active, TRUE, key)
            IN  /\ HotKeyIsEdit' = [HotKeyIsEdit EXCEPT !.active = active]
                /\ List' = IF HotKeyIsEdit.shared /\ Edited \in DOMAIN List THEN WithKeys(Edited, active) ELSE List
                /\ UNCHANGED ActiveKeys
    /\ fired' = NoName
    /\ UNCHANGED <<ReturnHotKeys, before, crashed, focused, lost>>

(* ----------------------- behind another window ---------------------------- *)

Unnoticed == fired' = NoName /\ UNCHANGED <<List, ActiveKeys, HotKeyIsEdit, ReturnHotKeys, before, crashed>>

FocusMoves == focused' = ~focused /\ Unnoticed /\ UNCHANGED <<held, lost>>

KeyDownElsewhere(key) ==
    /\ ~focused /\ key \notin held
    /\ held' = held \cup {key} /\ lost' = lost \ {key} /\ Unnoticed /\ UNCHANGED focused

KeyUpElsewhere(key) ==
    /\ ~focused
    /\ held' = held \ {key} /\ lost' = lost \cup ({key} \cap specialKeys) /\ Unnoticed
    /\ UNCHANGED focused

Next ==
    /\ ~crashed
    /\ \/ \E name \in Names :
             \/ \E soloKey \in BOOLEAN, keys \in Assigned :
                   (soloKey => Len(keys) <= 1) /\ RegisterHotKey(name, soloKey, keys)
             \/ \E keys \in Assigned :
                   name \in DOMAIN List /\ (List[name].soloKey => Len(keys) <= 1) /\ EditHotKey(name, keys)
             \/ RemoveHotKey(name) \/ Click(name) \/ ShowHotKey(name)
       \/ \E key \in Keys : KeyDown(key)
       \/ \E key \in held : KeyUp(key) \/ KeyUpElsewhere(key)
       \/ \E key \in KeysOfHotKeys : KeyDownElsewhere(key)
       \/ FocusMoves
Spec == Init /\ [][Next]_vars

(* ------------------------------- properties ------------------------------- *)

\* Lists hold keys once each, and the dialogue's special keys are in order.
TypeOK ==
    /\ DOMAIN List \subseteq Names
    /\ \A n \in DOMAIN List : IsInjective(List[n].keys) /\ ToSet(List[n].keys) \subseteq specialKeys \cup Plain
    /\ ActiveKeys = Ascending(ActiveKeys) /\ IsInjective(ActiveKeys) /\ ToSet(ActiveKeys) \subseteq specialKeys
    /\ HotKeyIsEdit.name \in Names \cup {NoName} /\ ReturnHotKeys \in Names \cup {NoName}
    /\ held \subseteq KeysOfHotKeys /\ lost \subseteq specialKeys \ held /\ fired \in DOMAIN List \cup {NoName}

\* The special keys the handler takes for held are held, or went up behind another window,
\* where it could not see it: dialogues that begin and end while keys are down leave none
\* behind, and no key stays for longer than its next press and release, or the next dialogue.
NoStuckKey ==
    ToSet(ActiveKeys) \cup ToSet(HotKeyIsEdit.active) \subseteq held \cup lost

\* A callback runs only while all keys of its hotkey are down, but for special keys that went
\* up behind another window.
FiresWhileDown == fired # NoName => ToSet(List[fired].keys) \subseteq held \cup lost

\* A hotkey made for one key never has more, whatever is held in its dialogue.
SoloHasOneKey == \A n \in DOMAIN List : List[n].soloKey => Len(List[n].keys) <= 1

\* Outside its dialogue a hotkey has no key or exactly one that is not special: a dialogue
\* never ends with special keys alone.
OnePlainKey ==
    \A n \in DOMAIN List \ {Edited} :
        List[n].keys # <<>> => Cardinality(ToSet(List[n].keys) \ specialKeys) = 1

\* Cancelling gives the hotkey the keys it had when its dialogue began.
Restores ==
    ( /\ HotKeyIsEdit # NotEdited /\ HotKeyIsEdit' = NotEdited
      /\ ReturnHotKeys' = ReturnHotKeys /\ Edited \in DOMAIN List' )
    => List'[Edited].keys = before
=============================================================================
