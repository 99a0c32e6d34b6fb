SPECIFICATION Spec
\* The supply of app client ids ends: the system stops when all are used up.
CHECK_DEADLOCK FALSE
CONSTANTS
    Clients = {c1, c2}
    Names = {n1, n2}
    Procs = {p1, p2}
    MaxAudience = 2
    Raises = FALSE
    Crashes = FALSE
    NoClient = NoClient
SYMMETRY MCSymmetry
INVARIANTS AudienceIsOfUsers
