SPECIFICATION Spec
CONSTANTS
    NumThreads = 3
    IdlePriority = 3
    box = box
    m1 = m1
    m2 = m2
    m3 = m3
    Object <- Boxes
    Message <- ThreeMessages
    Urgency <- Urgencies
    BootPriority = 1
    BootInitial = 2
    CallPriority = {1, 2}
    MaxWakeups = 0
    Calls = {"Create", "ChangePriority", "ReleaseWait"}
    Unsafe = {}
INVARIANTS
    CircleCloses WaitersOrMessages
PROPERTIES
    ImplementsMailbox
