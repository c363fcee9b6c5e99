CONSTANTS
    v1 = v1  v2 = v2  p1 = p1  p2 = p2  c1 = c1
    Vms = {v1, v2}
    Procs = {p1, p2}
    Clients = {c1}
    IpCount = 1
    SoughtPid = 1
    Plans <- AllPlans
SPECIFICATION Spec
INVARIANTS ClaimsUnique InstalledStays ListingsRight HoldersGoOn
