SPECIFICATION EESpec
CONSTANTS
    NumThreads = 3
    IdlePriority = 4
    Object = {s1}
    CallPriority = {1, 2}
    MaxWakeups = 1
    MaxCount = 2
    MaxDepth = 2
    Slots = {"Create", "ExitDelete", "Terminate", "ChangePriority", "Rotate", "ReleaseWait", "Sleep", "Suspend", "Load", "DeleteSema"}
    Unsafe = {}
INVARIANTS
    QueuesHoldThreads PickMissesNone BetterThreadRuns LiveFramesKept NoWaitWithCount
