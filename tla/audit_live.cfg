\* Two writers that share the flock, crashes and a failing disk.
SPECIFICATION FairSpec
CONSTANTS
    w1 = w1
    w2 = w2
    Writer = {w1, w2}
    NoWriter = NoWriter
    MaxRecords = 2
    Flock = TRUE
    IoFaults = TRUE
    PowerLoss = FALSE
INVARIANTS ProgramOrder
PROPERTIES RecordTerminates
CHECK_DEADLOCK FALSE
