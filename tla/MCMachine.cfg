SPECIFICATION MCSpec
CONSTANTS
    PmmCores = {c1, c2}
    PmmNobody = nobody
    PmmFrames <- MCFrames
    PmmMaxCalls = 3
    IpiCores <- MCCores
    IpiNull = null
    IpiMaxCalls = 3
    VlCores <- MCVasCores
    VlOwn = "own"
    VlNone = VlNone
    VlMappings <- MCMappings
    VlHolder <- MCHolder
    VlMaxPointers = 2
    VlMaxCalls = 3
    LapicMax = 3
    LapicMaxDivisor = 4
    HpetPeriod = 3
    ClockDurations = {1, 6, 15}
    ClockMaxEvents = 2
    ClockLatency = 1
    ClockRequests = 6
    ClockEnd = 45
    UserThreads = {u1}
    KernelThreads = {k1}
    CtxNone = CtxNone
INVARIANTS
    MappingsKept FrameInOneHand RunsForItsCaller
PROPERTIES
    CallsEnd EventsRunInTime GoesOnAsItStopped
\* The kernel may panic, and the bounds end every behaviour.
CHECK_DEADLOCK FALSE
