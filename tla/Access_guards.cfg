SPECIFICATION FairSpec
CONSTANTS
    alice = alice
    root = root
    t1 = t1
    r1 = r1
    Users = {alice, root}
    TenantOf <- MCTenantOf
    ProfileOf <- MCProfileOf
    Profiles = {r1}
    SeedProfile = r1
    Tenants = {t1}
    SeedTenant = t1
    Procs = {p1, p2}
    None = None
    MaxNow = 1
INVARIANTS
    TypeOK
    
    
PROPERTIES
    DeletionShutsOut
