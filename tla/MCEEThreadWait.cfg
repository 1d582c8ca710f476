SPECIFICATION EESpec
CONSTANTS
    NumThreads = 4
    IdlePriority = 3
    Object = {s1}
    CallPriority = {1}
    MaxWakeups = 0
    MaxCount = 1
    MaxDepth = 1
    Slots = {"Create"}
    Unsafe = {"WaitSemaInCrowd"}
INVARIANTS
    QueuesHoldThreads
