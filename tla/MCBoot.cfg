SPECIFICATION MCSpec
CONSTANTS
    ThornNone = ThornNone
    ThornFiles <- MCThornFiles
    ThornCutFiles <- MCThornCutFiles
    CpioNames <- MCNames
    CpioLookups <- MCLookups
    CpioSizes <- MCSizes
    CpioBlocks <- MCBlocks
    CpioMaxEntries = 2
    ElfImages <- MCImages
    LoadFiles <- MCFiles
    LoadGraphs <- MCGraphs
    LoadFaults <- MCFaults
    LoadRelocs <- MCRelocs
    LoadDefiners <- MCDefiners
    LoadSegments <- MCSegments
    LoadPage = 4
    LpFan = 2
    LpLevels = 3
    LpCalls <- MCCalls
    LpMaxCalls = 2
    MapMaxEntries = 3
    MapMaxPages = 3
    MapStarts <- MCStarts
    StackPages = 2
    LowPages = 2
    AcpiMachines <- MCMachines
    AcpiMaxCores = 3
    ApCount = 4
    ApBsp = 1
    ApBatch = 2
    Procs <- BootProcs
    Boxes <- BootBoxes
    Handles <- BootHandles
    Data <- BootData
    None = None
    InitArrays = 2
    FiniArrays = 0
INVARIANTS
    FilesUnderstood OutputFits ReadsArchive ParsesImages ImagesApart ImagesLinked
    LoaderMapsExactly FramesSound CoresFound  UserSpaceStarts
PROPERTIES
    StartCompletes
\* Every component ends, or stops for good with a panic.
CHECK_DEADLOCK FALSE
