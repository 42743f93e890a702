\* Two sessions at a time, three in all, with failures, kills and power cuts.
SPECIFICATION Spec
CONSTANTS
    s1 = s1
    s2 = s2
    c1 = c1
    c2 = c2
    pii = pii
    Session = {s1, s2}
    Column = {c1, c2}
    Label = {pii}
    Pending = Pending
    MaxSessions = 3
    PowerLoss = TRUE
INVARIANTS TypeOK CatalogWhole TempsCleaned
PROPERTIES KeepsWhatItKnew
CHECK_DEADLOCK FALSE
