SPECIFICATION Spec
CONSTANTS
    p1 = p1
    p2 = p2
    b1 = b1
    b2 = b2
    r1 = r1
    NoBuf = NoBuf
    Procs = {p1, p2}
    Replicas = {r1}
    InitApply = 1
    Buffers = {b1}
    Ungated = {}
    Partition <- OnePartition
    NCopy = 1
    WithHints = FALSE
    WithChurn = FALSE
    MaxLsn = 4
    MaxCrash = 1
SYMMETRY ProcSymmetry
INVARIANTS
    RedoPointSafe
    NoLostUpdate
    RedoNeverFallsBack
PROPERTY
    DiskKeepsChanges
