SPECIFICATION FairSpec
CONSTANTS
    s1 = s1
    s2 = s2
    Sessions = {s1}
    MaxAttempts = 2
    MaxCreates = 2
    MaxWork = 1
    MaxFaults = 1
    Dispositions = {"Resume", "LeavePaused"}
INVARIANTS NoFalseAbort OneInstant SourceRestored RunsAsReported
PROPERTY SessionsEnd
CHECK_DEADLOCK FALSE
