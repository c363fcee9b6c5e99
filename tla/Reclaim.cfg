SPECIFICATION FairSpec
CONSTANTS
    v1 = v1
    v2 = v2
    b1 = b1
    b2 = b2
    Vms = {v1, v2}
    Bases = {b1, b2}
    Inodes = {1, 2, 3}
    Nobody = Nobody
    NoInode = NoInode
    NoRecord = NoRecord
    MaxFailures = 2
INVARIANTS OneActor RunningIntact DirsKept
PROPERTIES AbandonedIsReclaimed LaunchesEnd
CHECK_DEADLOCK FALSE
