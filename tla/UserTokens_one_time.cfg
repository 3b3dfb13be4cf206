SPECIFICATION Spec
CONSTANTS
    Users = {u1}
    Procs = {p1, p2}
    Chosen = {w1, w2}
    None = None
    Ttl = 1
    AdminTtl = 2
    MaxIds = 1
    MaxNow = 0
    MaxFaults = 0
CHECK_DEADLOCK FALSE
SYMMETRY ProcSymmetry
INVARIANTS
    OneTime
