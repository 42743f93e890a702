\* Two roles, two columns, two labels, one token domain.
SPECIFICATION MCSpec
CONSTANTS
    r1 = r1
    r2 = r2
    c1 = c1
    c2 = c2
    tok = tok
    pii = pii
    public = public
    d1 = d1
    Role = {r1, r2}
    Key = {c1, c2}
    Label = {pii, public}
    Public = public
    Domain = {d1}
    Grants <- MCGrants
    Schema = {}
    MaxEdits = 2
INVARIANTS GateTypeOK RightsNeverExceedBaseline CheckAgreesWithViews GeneratedViewsAgree
PROPERTIES RemovalNeverExpands
