------------------------------- MODULE Rkeys -------------------------------
(* moonloader/lib/rkeys.lua: hotkeys on combinations of keys.  The handler   *)
(* of window messages keeps the list of pressed keys and fires the hotkeys   *)
(* whose keys are in it, in order.  The keyboard itself and the focus of the *)
(* window are part of the model: they decide which messages arrive.          *)
EXTENDS Integers, Sequences, FiniteSets, SequencesExt

CONSTANTS
    PlainKeys,    \* keyboard keys without modifiers
    Buttons,      \* mouse buttons: bit 30 of lparam is a coordinate, taken as 0
    CtrlKeys,     \* "VK_LCONTROL", "VK_RCONTROL" or one of them
    Combos,       \* what hotkeys may be registered for
    ATypes,       \* aType: 1, 2 or 3
    Blocks,       \* isBlock
    MaxHotKeys    \* bound of the number of registrations

VK_CONTROL == "VK_CONTROL"
Physical == PlainKeys \cup Buttons \cup CtrlKeys
tModKeysList == {VK_CONTROL} \cup CtrlKeys
none == "none"

RkeysAssumption ==
    /\ PlainKeys \cap (Buttons \cup tModKeysList) = {} /\ Buttons \cap tModKeysList = {}
    /\ VK_CONTROL \notin CtrlKeys /\ none \notin Physical
    /\ Combos \subseteq Seq(Physical \cup {VK_CONTROL})

\* With the left and the right key of a modifier, the release of one takes both out of the list.
OneOfEachModifier == \A k, l \in CtrlKeys : k = l

VARIABLES
    tCurKeys,    \* list of pressed keys
    tHotKeys,    \* list of [id, keys, aType, isBlock]
    tActKeys,    \* ids of the hotkeys that have fired and are still held
    hkId,
    down,        \* keys that are down
    focus,       \* the window gets the messages of the keyboard
    fired,       \* ids of the hotkeys the last message fired
    consumed,    \* the last message was consumed
    pressed,     \* the key of the last message, if it was a press
    unseen,      \* ghost: keys that are down but were not always while the window had the focus
    stale,       \* ghost: ids that were active when their keys changed or the focus was lost
    holding      \* ghost: ids of type 1 that fired and whose keys have been held since

keysVars == <<tCurKeys, tHotKeys, tActKeys, hkId, down, focus, fired, consumed, pressed, unseen,
              stale, holding>>

KeysInit ==
    /\ tCurKeys = <<>> /\ tHotKeys = <<>> /\ tActKeys = {} /\ hkId = 0
    /\ down = {} /\ focus = TRUE
    /\ fired = {} /\ consumed = FALSE /\ pressed = none
    /\ unseen = {} /\ stale = {} /\ holding = {}

(* ---------------------------- lists of keys ------------------------------- *)

isKeyExist(key, list) == Contains(list, key)

\* The keys of the combination stand in the list in this order.
isKeyComboExist(combo, list) ==
    LET matched[k \in 0 .. Len(list)] ==
            IF k = 0 THEN 0
            ELSE IF matched[k - 1] < Len(combo) /\ combo[matched[k - 1] + 1] = list[k]
                 THEN matched[k - 1] + 1
                 ELSE matched[k - 1]
    IN  combo # <<>> /\ matched[Len(list)] = Len(combo)

\* Equal as far as the first one goes.
compareKeys(combo, two) == Len(two) >= Len(combo) /\ \A k \in DOMAIN combo : combo[k] = two[k]

HasMod(list) == \E k \in tModKeysList : Contains(list, k)

getKeyPosition(key, list) ==
    CHOOSE k \in DOMAIN list : list[k] = key /\ \A i \in 1 .. k - 1 : list[i] # key

\* table.remove(t, getKeyPosition(key)): with no position the last key goes.
removeKey(list, key) ==
    IF isKeyExist(key, list) THEN RemoveAt(list, getKeyPosition(key, list))
    ELSE IF list = <<>> THEN list ELSE Front(list)

\* The key a message is about, and the extended key that goes with it.
wparam(key) == IF key \in CtrlKeys THEN VK_CONTROL ELSE key
exKey(key) == IF key \in CtrlKeys THEN <<key>> ELSE <<>>

(* ------------------------------ the handler ------------------------------- *)

HotKeys == ToSet(tHotKeys)
IdsOf(hotkeys) == {v.id : v \in hotkeys}

\* Mutant: a hotkey that is held fires again.
FiresAgain(v, keystate, list) ==
    /\ v.aType # 3
    /\ (v.aType = 1 /\ keystate = 0) \/ v.aType = 2
    /\ isKeyComboExist(v.keys, list)
    /\ HasMod(v.keys) \/ ~HasMod(list)

\* Mutant: none fires while a modifier is down, its own neither.
FiresWithoutModifiers(v, keystate, list) ==
    /\ v.aType # 3
    /\ v.id \notin tActKeys \/ v.aType = 2
    /\ (v.aType = 1 /\ keystate = 0) \/ v.aType = 2
    /\ isKeyComboExist(v.keys, list)
    /\ ~HasMod(list)

\* A hotkey of type 1 fires once until its keys are let go, one of type 2 with
\* every message; one without a modifier does not while a modifier is down.
Fires(v, keystate, list) ==
    /\ v.aType # 3
    /\ v.id \notin tActKeys \/ v.aType = 2
    /\ (v.aType = 1 /\ keystate = 0) \/ v.aType = 2
    /\ isKeyComboExist(v.keys, list)
    /\ HasMod(v.keys) \/ ~HasMod(list)

\* What is left of the active ones at the end of a message.
StillActive(act, list) ==
    act \ IdsOf({v \in HotKeys : v.aType = 2 \/ ~isKeyComboExist(v.keys, list)})

AfterDown(key, keystate) ==
    IF isKeyExist(wparam(key), tCurKeys) \/ keystate = 1 THEN tCurKeys
    ELSE tCurKeys \o <<wparam(key)>> \o exKey(key)

AfterUp(key) ==
    IF ~isKeyExist(wparam(key), tCurKeys) THEN tCurKeys
    ELSE IF key \in CtrlKeys THEN removeKey(removeKey(tCurKeys, wparam(key)), key)
    ELSE removeKey(tCurKeys, wparam(key))

StillHolding(ids, list) == ids \ IdsOf({v \in HotKeys : ~isKeyComboExist(v.keys, list)})

\* WM_KEYDOWN and the presses of mouse buttons.
DownMessage(key, keystate) ==
    LET list == AfterDown(key, keystate)
        fires == IdsOf({v \in HotKeys : Fires(v, keystate, list)})
        act == tActKeys \cup fires
    IN  /\ tCurKeys' = list
        /\ fired' = fires
        /\ tActKeys' = StillActive(act, list)
        /\ consumed' = (\E v \in HotKeys : v.isBlock /\ (v.id \in act \/ v.aType = 2))
        /\ pressed' = key /\ stale' = {}
        /\ LET first == IdsOf({v \in HotKeys : v.id \in fires /\ v.aType = 1})
           IN  holding' = StillHolding(holding \cup first, list)
        /\ UNCHANGED <<tHotKeys, hkId, focus>>

\* WM_KEYUP and the releases of mouse buttons: type 3 fires before the key is
\* taken out of the list.
UpMessage(key, keystate) ==
    LET list == AfterUp(key)
    IN  /\ tCurKeys' = list
        /\ fired' = IdsOf({v \in HotKeys : /\ v.aType = 3 /\ keystate = 1
                                           /\ isKeyComboExist(v.keys, tCurKeys)})
        /\ tActKeys' = StillActive(tActKeys, list)
        /\ consumed' = FALSE /\ pressed' = none /\ stale' = {}
        /\ holding' = StillHolding(holding, list)
        /\ UNCHANGED <<tHotKeys, hkId, focus>>

NoMessage == fired' = {} /\ consumed' = FALSE /\ pressed' = none

(* ---------------------------- keyboard and focus -------------------------- *)

Bit30(key) == IF key \in Buttons THEN 0 ELSE 1

\* The window gets the message of a key, or it does not notice.
Unnoticed == NoMessage /\ UNCHANGED <<tCurKeys, tHotKeys, tActKeys, hkId, focus, stale, holding>>

Press(key) ==
    /\ key \notin down /\ down' = down \cup {key}
    /\ \/ focus /\ DownMessage(key, 0) /\ UNCHANGED unseen
       \/ ~focus /\ Unnoticed /\ unseen' = unseen \cup {key}

\* A key that is held repeats its message.
Repeat(key) ==
    key \in down \ Buttons /\ focus /\ DownMessage(key, 1) /\ UNCHANGED <<down, unseen>>

Release(key) ==
    /\ key \in down /\ down' = down \ {key} /\ unseen' = unseen \ {key}
    /\ \/ focus /\ UpMessage(key, Bit30(key))
       \/ ~focus /\ Unnoticed

\* Mutant: the list of pressed keys is kept.
KillFocusKeepingKeys ==
    /\ focus /\ focus' = FALSE
    /\ unseen' = down /\ stale' = tActKeys /\ holding' = {} /\ NoMessage
    /\ UNCHANGED <<tCurKeys, tHotKeys, tActKeys, hkId, down>>

KillFocus ==
    /\ focus /\ focus' = FALSE /\ tCurKeys' = <<>>
    /\ unseen' = down /\ stale' = tActKeys /\ holding' = {} /\ NoMessage
    /\ UNCHANGED <<tHotKeys, tActKeys, hkId, down>>

SetFocus ==
    /\ ~focus /\ focus' = TRUE /\ NoMessage
    /\ UNCHANGED <<tCurKeys, tHotKeys, tActKeys, hkId, down, unseen, stale, holding>>

(* ------------------------------- the registry ----------------------------- *)

registerHotKey(keys, aType, isBlock) ==
    /\ hkId < MaxHotKeys
    /\ tHotKeys' = Append(tHotKeys, [id |-> hkId + 1, keys |-> keys, aType |-> aType,
                                     isBlock |-> isBlock])
    /\ hkId' = hkId + 1 /\ NoMessage
    /\ UNCHANGED <<tCurKeys, tActKeys, down, focus, unseen, stale, holding>>

changeHotKey(id, keys) ==
    /\ \E v \in HotKeys : v.id = id
    /\ tHotKeys' = [i \in DOMAIN tHotKeys |-> IF tHotKeys[i].id = id
                                              THEN [tHotKeys[i] EXCEPT !.keys = keys]
                                              ELSE tHotKeys[i]]
    /\ stale' = stale \cup ({id} \cap tActKeys) /\ NoMessage
    /\ UNCHANGED <<tCurKeys, tActKeys, hkId, down, focus, unseen, holding>>

idsToRemove(hotkeys) ==
    LET found[k \in 0 .. Len(tHotKeys)] ==
            IF k = 0 THEN <<>>
            ELSE IF tHotKeys[k] \in hotkeys THEN Append(found[k - 1], k) ELSE found[k - 1]
    IN  found[Len(tHotKeys)]

\* The positions are collected, then removed one after the other: a position is
\* that of another hotkey when one before it is gone; beyond the end it is none.
RemovePositions(list, positions) ==
    LET left[k \in 0 .. Len(positions)] ==
            IF k = 0 THEN list
            ELSE IF positions[k] \in DOMAIN left[k - 1]
                 THEN RemoveAt(left[k - 1], positions[k])
                 ELSE left[k - 1]
    IN  left[Len(positions)]

unRegister(hotkeys) ==
    /\ tHotKeys # <<>>
    /\ tHotKeys' = RemovePositions(tHotKeys, idsToRemove(hotkeys))
    /\ NoMessage
    /\ UNCHANGED <<tCurKeys, tActKeys, hkId, down, focus, unseen, stale, holding>>

unRegisterHotKey(id) == unRegister({v \in HotKeys : v.id = id})
unRegisterCombo(combo) == unRegister({v \in HotKeys : compareKeys(v.keys, combo)})

KeysNext ==
    \/ \E key \in Physical : Press(key) \/ Repeat(key) \/ Release(key)
    \/ KillFocus \/ SetFocus
    \/ \E keys \in Combos, aType \in ATypes, isBlock \in Blocks :
          registerHotKey(keys, aType, isBlock)
    \/ \E id \in 1 .. hkId : unRegisterHotKey(id) \/ (\E keys \in Combos : changeHotKey(id, keys))
    \/ \E keys \in Combos : unRegisterCombo(keys)

KeysSpec == KeysInit /\ [][KeysNext]_keysVars

(* ------------------------------- properties ------------------------------- *)

KeysTypeOK ==
    /\ \A v \in HotKeys : v.id \in 1 .. hkId /\ v.keys \in Combos
    /\ tActKeys \subseteq 1 .. hkId /\ down \subseteq Physical

\* The list that getKeys returns is one "of the keys now pressed" (rkeys.lua:30): just those
\* that went down under the eyes of the window and have not come up since, each once,
\* whatever the focus did; a key with its modifier.
PressedListed ==
    LET watched == down \ unseen
    IN  /\ \A i, j \in DOMAIN tCurKeys : tCurKeys[i] = tCurKeys[j] => i = j
        /\ ToSet(tCurKeys) = watched \cup {wparam(key) : key \in watched}

\* A hotkey is active only while its keys are held, from one message to the next.
ActiveHeld ==
    \A v \in HotKeys : v.id \in tActKeys \ stale => isKeyComboExist(v.keys, tCurKeys)

\* The keys that rkeys takes for pressed, and the hotkeys it takes for held, are.
KeysHeld == KeysTypeOK /\ PressedListed /\ ActiveHeld

\* A hotkey of type 1 fires once while its keys are held, however they repeat and
\* whatever else is pressed and let go meanwhile.
FiresAtMostOnce == \A v \in HotKeys : v.aType = 1 /\ v.id \in fired' => v.id \notin holding

\* Type 1 "fires when the key is pressed" (rkeys.lua:35): when the press of its last key
\* completes the combination, with or without modifiers in it.  Two exceptions: one without a
\* modifier does not fire while a modifier is down (173), and one that is active for keys it
\* had before, or from before the focus was lost, is taken for one that has fired.
FiresOnPress ==
    \A v \in HotKeys :
        ( /\ v.aType = 1 /\ pressed' \notin down /\ Last(v.keys) \in {pressed', wparam(pressed')}
          /\ isKeyComboExist(v.keys, tCurKeys')
          /\ HasMod(v.keys) \/ ~HasMod(tCurKeys')
          /\ v.id \notin stale )
        => v.id \in fired'

\* A hotkey of type 1 fires when its keys are pressed, unless it has no modifier and one is
\* down, and not again while they are held.
FiresOnce == [][FiresAtMostOnce /\ FiresOnPress]_keysVars
=============================================================================
