SPECIFICATION DevicesSpec
CONSTANTS
    Alarm = {a1, a2}
    Permanent = permanent
    Period = 14
    Epochs = 4
    Granularity = 1
    Seed = 3
    Deltas = {0, 7}
    MaxLag = 1
    LateWrite = FALSE
    MaxTime = 29

    PadClient = {"padman"}
    McClient = {"mcman"}
    Retries = 2
    Driver = "padman"

    FileThread = {"f1", "f2"}
    Searcher = "search"
    Issuer = {"i1"}
    Turns = TRUE
    Pvd = 1
    Dir = 2
    FileLba = 3
    FileSize = 3
    ReadSizes = {1, 3}
    SectorSize = 2
    Handles = 1
    Attempts = 2
    ConfigMax = 2
    Counts = {1, 3}

    FileName = {"a", "b"}
    LengthOf <- MCLengthOf
    Missing = "none"
    FdCount = 2
    RomHandles = 2
    Block = 4
    Bounce = 4
    Dests = {4, 6}
    Lengths = {3, 11}
    EETop = 21
SYMMETRY AlarmSymmetry
INVARIANTS
    ClockIsTrue QueueSorted AlarmWillRing
    BusHasOneOwner ConfigModeOnlyGivenUp
    SectorsAreTrue ConfigFits
    ReadArrives
CHECK_DEADLOCK FALSE
