SPECIFICATION Spec
CONSTANTS
    u1 = u1
    u2 = u2
    t1 = t1
    Sockets = {c1, c2, c3}
    Users = {u1, u2}
    TenantOf <- MCTenantOf
    Tenants = {t1}
    Teams = {g1}
    Sessions = {s1}
    Codes = {k1}
    Ttl = 0
    MaxNow = 1
    None = None
CHECK_DEADLOCK FALSE
INVARIANTS
    ConnectedIsOpen
