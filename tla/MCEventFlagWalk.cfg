SPECIFICATION Spec
CONSTANTS
    NumThreads = 4
    IdlePriority = 3
    e1 = e1
    b1 = b1
    b2 = b2
    Object <- Flags
    Bit <- Bits
    Needs <- SomeNeeds
    BootPriority = 1
    BootInitial = 2
    CallPriority = {1, 2}
    MaxWakeups = 0
    Calls = {"Create"}
    Unsafe = {"SetOverBetterWaiter"}
INVARIANT
    WalkMeetsWaiters
