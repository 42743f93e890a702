\* Two overlapping sessions at a time, three in all, two old keys, and a key id used twice.
SPECIFICATION Spec
CONSTANTS
    k1 = k1
    k2 = k2
    k3 = k3
    a = a
    b = b
    v1 = v1
    v2 = v2
    email = email
    contact = contact
    s1 = s1
    s2 = s2
    Value = {v1, v2}
    Null = Null
    Key = {k1, k2, k3}
    KeyId = {a, b}
    IdOf <- MCIdOf
    StrayId = StrayId
    NoHead = NoHead
    Domain = {email, contact}
    NoKey = NoKey
    InvalidToken = InvalidToken
    Session = {s1, s2}
    FirstKey = k1
    FirstDomain = email
    FirstColumns <- MCFirstColumns
    RawColumns <- MCRawColumns
    Limits <- MCLimits
    NoLimits = NoLimits
    MaxSessions = 3
    MaxOldKeys = 2
SYMMETRY Symmetry
INVARIANTS RotationTypeOK CleanPreviewNeedsOnlyPrimary DropLosesNothing MigratedTokensJoin TokensMeetLimits ChecksAgree
CHECK_DEADLOCK FALSE
