\* Two reviewers who decide different columns of the same catalog.
SPECIFICATION Spec
CONSTANTS
    s1 = s1
    s2 = s2
    c1 = c1
    c2 = c2
    pii = pii
    Session = {s1, s2}
    Column = {c1, c2}
    Label = {pii}
    Pending = Pending
    MaxSessions = 2
    PowerLoss = FALSE
INVARIANTS NothingLost
CHECK_DEADLOCK FALSE
