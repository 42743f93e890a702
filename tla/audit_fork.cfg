\* Two writers that share the flock and a disk that may be full.
SPECIFICATION Spec
CONSTANTS
    w1 = w1
    w2 = w2
    Writer = {w1, w2}
    NoWriter = NoWriter
    MaxRecords = 1
    Flock = TRUE
    IoFaults = TRUE
    PowerLoss = FALSE
SYMMETRY Symmetry
INVARIANTS ChainIntact
CHECK_DEADLOCK FALSE
