SPECIFICATION ServicesSpec
CONSTANTS
    Align = 11
    HeapLow = 11
    HeapHigh = 55
    MaxBlocks = 3
    HeapSizes = {11}
    PieceSizes = {1}
    RawSizes = {12}
    MaxHeaps = 1
    Preempted = FALSE

    NumRecords = 4
    Client = {"c1", "c2"}
    ClientPriority = {1, 200}
    Sleeper = {"s1"}
    NoRecord = NoRecord

    IntcCause = {2}
    DmacChannel = {20}
    PoolRecord = {0, 1, 2}
    MaxId = 4
    MaxNest = 2
    Empty = Empty

    PlainLine = {0}
    Bank1 = {32}
    Bank2 = {40}

    Image = {"first", "second", "third", "client", "oneshot"}
    Exported <- MCExported
    Imported <- MCImported
    OneShot = {"oneshot"}
    Calls = {"second"}
    BootList <- MCBootList
    CommandLine = {"nothing", "third"}
    Slots = 6
    Loader = {"boot", "t1"}
    LoadedMax = 1
    Callbacks = 1
    MaxLoads = 2

    Half = 8
    Bases = {0, 4, 8, 12, 16, 20, 28, 32, 60}
    Targets = {0, 3, 4, 5, 8, 12, 28, 31, 36, 63}
    Layouts <- MCLayouts
INVARIANTS
    MemoryHasOneOwner
    EdgeReachesAll
    EveryHandlerCalled
    NoTransferStranded
    ClientsAreImports CallersReachNewest
    RelocatedRight
CHECK_DEADLOCK FALSE
