SPECIFICATION MCSpec
CONSTANTS
    k1 = k1
    k2 = k2
    k3 = k3
    k4 = k4
    Keys = {k1, k2, k3, k4}
    Tombstones = {d1, d2}
    HashOf <- DenseHashOf
    Ranges <- DenseRanges
    HT_DEFAULT_STARTING_BUCKETS = 4
    ExpectedItems = {0, 2}
    ResizeArgs = {0, 5}
    MaxDoublings = 4
    EMPTY = EMPTY
    NoKey = NoKey
    NoLoop = NoLoop
    N = 7
    CallsSharingStart = FALSE
    GROUP_SIZE = 3
    CharBits = 1
    Values = {0, 1}
    Default = 0
    MaxSize = 7
    Items = {"i1", "i2", "i3"}
    MaxLength = 5
INVARIANTS
    TableSound
    VisitsEveryKey
    SparseExact
    MapCountsList
    RangesExact
PROPERTIES
    ImplementsSet
    ImplementsArray
