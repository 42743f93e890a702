\* Two writers that crash anywhere, power cuts, healthy disk.
SPECIFICATION Spec
CONSTANTS
    w1 = w1
    w2 = w2
    Writer = {w1, w2}
    NoWriter = NoWriter
    MaxRecords = 2
    Flock = TRUE
    IoFaults = FALSE
    PowerLoss = TRUE
SYMMETRY Symmetry
INVARIANTS TypeOK ChainIntact AckedDurable
PROPERTIES DamageIsFrozen RecordRefusesOnlyDamage ImplementsTrail
CHECK_DEADLOCK FALSE
