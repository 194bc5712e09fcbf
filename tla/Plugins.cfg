SPECIFICATION Spec
CONSTANTS
    Names = {"a", "b"}
    Contents = {1, 2}
    MaxPath = 4
    InitialTrees <- Trees
    Sources <- CopiedFrom
    Targets <- CopiedTo
    v1 = v1
    v2 = v2
    GROUP_SIZE = 2
    CharBits = 1
    Values = {v1, v2}
    Default = v1
    MaxSize = 3
INVARIANTS
    ReadIsWhole
PROPERTIES
    TreesExact
    OpcodesEnd
