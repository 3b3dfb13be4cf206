SPECIFICATION Spec
CONSTANTS
    Plans = {i1, i2}
    FirstPlans = {i1}
    Names = {n1, n2}
    Subs = {s1, s2}
    Tenants = {t1}
    Invoices = {v1}
    Procs = {p1, p2}
    SeedName = n1
    SeedTenant = t1
    None = None
    Trials = {1}
    MaxNow = 1
CHECK_DEADLOCK FALSE
SYMMETRY BillingSymmetry
INVARIANTS
    TypeOK
    KeysUnique
    StatusExplained
PROPERTIES
    PaymentDateKept
    LedgerSpec
