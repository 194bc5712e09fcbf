SPECIFICATION Spec
CHECK_DEADLOCK FALSE
CONSTANTS
    Readers = {"r1"}
    BUFFER_SIZE = 4
    Values <- GrowingCount
    MaxLead = 3
    WRAP = 8
    MAX_DELTA = 3
    Timers = {"t1"}
    MaxIncrement = 2
    Advances = {1, 3, 5}
    StepsBack = {2}
    Adds = {2}
    MaxTime = 9
    Slots = {0, 1}
    MaxColor = 4
    Table <- Palette
    NumPages = 8
    BlocksPerPage = 3
    FirstCodePage = 1
    LastCodePage = 6
    FastBlocks = {7, 11}
    Mixed = FALSE
    BYTE = 2
    Items <- StreamItems
    MaxItems = 3
INVARIANTS
    CodeProtected
    ReadsBack
    TextExact
PROPERTIES
    ValueCurrent
    ReadsEnd
    ClockExact
    ColorsKept
