SPECIFICATION Spec
CONSTANTS
    Alarm = {a1, a2}
    Permanent = permanent
    Period = 18
    Epochs = 4
    Granularity = 3
    Seed = 4
    Deltas = {0, 8}
    MaxLag = 2
    LateWrite = TRUE
    MaxTime = 38
INVARIANTS
    ClockIsTrue
CHECK_DEADLOCK FALSE
