SPECIFICATION Spec
CONSTANTS
    c1 = c1
    c2 = c2
    i1 = i1
    i2 = i2
    i3 = i3
    i4 = i4
    i5 = i5
    Procs = {own, hm, c1}
    Owner = own
    Monitors = {hm}
    Inodes = {i1, i2, i3, i4}
    NoInode = NoInode
    NoState = NoState
    Torn = Torn
    MaxUpdates = 1
    BudgetMayExpire = TRUE
INVARIANT NeverResurrected
CHECK_DEADLOCK FALSE
