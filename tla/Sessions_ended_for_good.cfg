SPECIFICATION Spec
CONSTANTS
    Users = {u1}
    Procs = {p1, p2}
    Devices = {d1}
    Payloads = {x1}
    None = None
    InitPayload = x1
    JwtTtl = 3
    RefreshTtl = 3
    RecentWindow = 0
    MaxNow = 2
    MaxFaults = 0
SYMMETRY ProcSymmetry
INVARIANTS
    EndedForGood
