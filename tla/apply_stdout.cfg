\* One run, with stdout redirected to a file or a pipe.
SPECIFICATION Spec
CONSTANTS
    r1 = r1
    r2 = r2
    good = good
    weak = weak
    bad = bad
    Run = {r1}
    Version = {good, weak, bad}
    NoVersion = NoVersion
    Rows <- MCRows
    Malformed = {bad}
    LowCardinality = {weak}
    MaxUpdates = 0
INVARIANTS CompletedMeansWritten
CHECK_DEADLOCK FALSE
