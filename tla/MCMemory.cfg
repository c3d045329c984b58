SPECIFICATION MemorySpec
CONSTANTS
    HeapElements = {1, 2, 3, 4, 5, 6, 7}
    HeapKeys = {1, 2, 3}
    HeapNull = null
    Fresh = TRUE
    Null = Null
    AvlElements <- MCElements
    Key <- MCKey
    Values <- MCValues
    Less <- MCLess
    EraseInwardRoot = FALSE
    NoMapping = NoMapping
    Mappings = {1, 2, 3, 4, 5}
    TopPage = 5
    Lengths = {1, 2}
    VmoWidth = 64
    VmoPage = 4
    PtCores = {c1, c2}
    PtSpaces = {s1, s2}
    PtBoot = s1
    Absent = Absent
    Fan = 2
    Entries = 3
    Lower = 1
    PtBases <- MCBases
    PtWatched <- MCWatched
    PtBatch = 2
    PtMaxCalls = 2
INVARIANTS
    CompleteHeap TreeSound MappingsSound VmoSound
     KernelShared CallsTakeEffect
PROPERTIES
    ImplementsPriorityQueue ImplementsOrderedSet
\* The kernel may panic, and the bounds end every behaviour.
CHECK_DEADLOCK FALSE
