\* Two runs, to the same file or to stdout, over an input that changes.
SPECIFICATION Spec
CONSTANTS
    r1 = r1
    r2 = r2
    good = good
    weak = weak
    bad = bad
    Run = {r1, r2}
    Version = {good, weak, bad}
    NoVersion = NoVersion
    Rows <- MCRows
    Malformed = {bad}
    LowCardinality = {weak}
    MaxUpdates = 1
SYMMETRY Symmetry
INVARIANTS ApplyTypeOK NothingBeforeAllowed LogTellsTheOutput OutcomesInOrder NoTempLeft
CHECK_DEADLOCK FALSE
