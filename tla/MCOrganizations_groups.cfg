SPECIFICATION Spec
\* The supply of policy ids ends.
CHECK_DEADLOCK FALSE
CONSTANTS
    Orgs = {o1, o2}
    UnitIds = {default, fauna}
    Default = default
    Procs = {p1}
    AdminSite = TRUE
    MaxPolicies = 9
    MaxStops = 0
SYMMETRY MCSymmetry
INVARIANTS DeletedFromCognito
