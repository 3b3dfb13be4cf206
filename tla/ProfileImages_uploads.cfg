SPECIFICATION Spec
CONSTANTS
    Users = {u1, u2}
    Exts = {jpg, png}
    Procs = {p1, p2, p3}
    None = None
CHECK_DEADLOCK FALSE
SYMMETRY ImagesSymmetry
INVARIANTS
    TypeOK
    ImageResolves
    
