SPECIFICATION SchedSpec
CONSTANTS
    NumThreads = 4
    IdlePriority = 3
    Object = {}
    BootPriority = 1
    BootInitial = 2
    CallPriority = {1, 2}
    MaxWakeups = 1
    Calls = {"Create", "Delete", "Exit", "Terminate", "ChangePriority", "Rotate", "ReleaseWait", "Sleep", "Delay"}
    Unsafe = {}
INVARIANTS
    TypeOK QueuesMatchStates RunningIsBest OneRuns NoLostWakeup DelayHasAlarm
