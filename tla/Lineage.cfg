SPECIFICATION Spec
CONSTANTS
    c1 = c1
    c2 = c2
    pg1 = pg1
    pg2 = pg2
    Vms = {v}
    Clis = {c1, c2}
    NameCount = 2
    PreKey = 0
    StartKey = 0
    Pages = {pg1, pg2}
    MaxWrites = 2
    MaxCreates = 4
    RetryLimit = 2
    Features = {"reuse", "delete", "disk_only", "fail"}
SYMMETRY Symmetry
INVARIANTS PublishedIsGuest ParentReproduces SomeCreatorMoves
CHECK_DEADLOCK FALSE
