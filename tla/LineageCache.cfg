SPECIFICATION Spec
CONSTANTS
    c1 = c1
    c2 = c2
    pg1 = pg1
    pg2 = pg2
    Vms = {v, w}
    Clis = {}
    NameCount = 2
    PreKey = 1
    StartKey = 2
    Pages = {pg1, pg2}
    MaxWrites = 2
    MaxCreates = 0
    RetryLimit = 1
    Features = {"owner", "restore", "reboot", "fail"}
INVARIANT PublishedIsGuest
CHECK_DEADLOCK FALSE
