SPECIFICATION Spec
CONSTANTS
    Users = {u1, u2, u3}
    Roots = {u1, u2}
    Emails = {e1, e2, e3}
    Tenants = {t1, t2}
    Procs = {p1, p2}
    None = None
CHECK_DEADLOCK FALSE
SYMMETRY AccountsSymmetry
INVARIANTS
    TypeOK
    AliasNamesDeleted
PROPERTIES
    MasterStaysHome
    NotLastAlone
    DirectorySpec
