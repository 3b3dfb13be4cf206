SPECIFICATION FairSpec
CONSTANTS
    Users = {u1, u2}
    Procs = {p1, p2}
    Chosen = {w1}
    None = None
    Ttl = 0
    AdminTtl = 1
    MaxIds = 2
    MaxNow = 1
    MaxFaults = 1
CHECK_DEADLOCK FALSE
INVARIANTS
    TypeOK
    
PROPERTIES
    SpentIsFinal
    DeletionFreezes
    TemporaryIsMailed
