SPECIFICATION Spec
CONSTANTS
    F1 = F1
    F2 = F2
    F3 = F3
    F4 = F4
    F5 = F5
    Files = {F1, F2, F3, F4, F5}
    Absent = Absent
    Procs <- MCProcs
    Ops <- MCOps
    ProdDBSrc = TRUE
    Faults = {"killed", "power", "error"}
SYMMETRY FileSymmetry
INVARIANTS
    TypeOK
    NeverHalfWritten
    NeverMixed
PROPERTIES
    SnapshotIsWhole
