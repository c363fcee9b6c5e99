CONSTANTS
    r1 = r1  r2 = r2  f1 = f1
    Requests = {r1, r2}
    Forgets = {f1}
    Capacity = 2
    BatchSize = 2
    MaxGen = 2
    Modes <- AllModes
SPECIFICATION LiveSpec
INVARIANTS WaitersServed ForgetsOnce
PROPERTIES HealthyKept AllAnswered
CHECK_DEADLOCK FALSE
