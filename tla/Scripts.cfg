SPECIFICATION Spec
CHECK_DEADLOCK FALSE
CONSTANTS
    Kinds <- HookedPlaces
    MaxHooks = 3
    MaxDepth = 4
    Shared = FALSE
    TrampolineOnTop = FALSE
    MayStop = TRUE
    Base = 3
    Sizes <- ByteSizes
    Signed = {"int8_t"}
    MaxItems = 3
    MaxLength = 2
    PlainKeys = {"A"}
    Buttons = {"M"}
    CtrlKeys = {"VK_LCONTROL"}
    Combos <- KeyCombos
    ATypes = {1, 2, 3}
    Blocks = {TRUE}
    MaxHotKeys = 2
INVARIANTS
    KeysHeld
    HooksExact
    PacketReadsBack
    PumpTells
PROPERTIES
    FiresOnce
    DialoguesSound
    Reloaded
    OutputExact
