SPECIFICATION Spec
CONSTANTS
    c1 = c1
    c2 = c2
    pg1 = pg1
    pg2 = pg2
    Vms = {v}
    Clis = {c1}
    NameCount = 3
    PreKey = 1
    StartKey = 2
    Pages = {pg1, pg2}
    MaxWrites = 2
    MaxCreates = 1
    RetryLimit = 2
    Features = {"owner"}
INVARIANT PublishedIsGuest
CHECK_DEADLOCK FALSE
