SPECIFICATION FairSpec
CONSTANTS
    NumThreads = 4
    IdlePriority = 3
    s1 = s1
    Object = {s1}
    BootPriority = 1
    BootInitial = 2
    CallPriority = {1, 2}
    MaxWakeups = 0
    Calls = {"Create", "Terminate", "ReleaseWait"}
    Unsafe = {}
    MaxCount = 1
INVARIANTS
    Linked NoWaitWithCount
PROPERTIES
    PreemptedKeepsTurn ImplementsSemaphore FirstComeIsServed
