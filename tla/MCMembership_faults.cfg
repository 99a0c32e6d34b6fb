SPECIFICATION Spec
CONSTANTS
    o1 = o1
    o2 = o2
    default = default
    fauna = fauna
    Orgs <- MCOrgs
    UnitIds <- MCUnitIds
    Units <- MCUnits
    NoOrg = NoOrg
    NoUnit = NoUnit
    Procs = {p1}
    Users = {u1}
    Roles = {dataset_admin}
    Requests = {r1, r2}
    Failures = TRUE
    AdminSite = TRUE
INVARIANTS TypeOK UnitOfOwnOrganization CognitoInSync
PROPERTIES CognitoIsToldFirst AccessIsAtomic
