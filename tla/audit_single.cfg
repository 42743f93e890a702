\* One writer per file, without fcntl, on a disk that fails, and two runs of
\* audit checkpoint that choose between a local file and an S3 object.
SPECIFICATION CheckpointSpec
CONSTANTS
    w1 = w1
    s1 = s1
    s2 = s2
    file = file
    object = object
    Writer = {w1}
    NoWriter = NoWriter
    MaxRecords = 2
    Flock = FALSE
    IoFaults = TRUE
    PowerLoss = TRUE
    Saver = {s1, s2}
    LocalFile = {file}
    Object = {object}
    MaxAttempts = 2
    Absent = Absent
    Torn = Torn
SYMMETRY Symmetry
INVARIANTS ChainIntact CheckpointTypeOK SavedIsKept VerifiedLogIsTheSaved
PROPERTIES ImplementsTrail NeverOverwritten LogKeepsExtending
CHECK_DEADLOCK FALSE
