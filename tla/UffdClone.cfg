SPECIFICATION FairSpec
CONSTANTS
    Vcpus = {v1}
    LastPage = 2
    FaultWorkers = {f1}
    ReplayWorkers = {r1}
    RunsPerJob = 1
    QueueCap = 1
    MaxRemoves = 1
INVARIANTS PagesRight EndsClean
PROPERTIES FaultsAnswered ServiceStops
