SPECIFICATION FairSpec
CONSTANTS
    Users = {u1}
    Procs = {p1, p2}
    Devices = {d1}
    Payloads = {x1, x2}
    None = None
    InitPayload = x1
    JwtTtl = 2
    RefreshTtl = 2
    RecentWindow = 1
    MaxNow = 0
    MaxFaults = 1
PROPERTIES
    LineageSpec
    DeletionBarrier
    DeletionSettles
