SPECIFICATION Spec
\* The supply of app client ids ends: the system stops when all are used up.
CHECK_DEADLOCK FALSE
CONSTANTS
    Clients = {c1, c2, c3, c4}
    Names = {n1, n2, n3}
    Procs = {p1}
    MaxAudience = 2
    Raises = TRUE
    Crashes = TRUE
    NoClient = NoClient
SYMMETRY MCSymmetry
INVARIANTS TypeOK AllPlacesAgree  AudienceHasUser
PROPERTIES LeavesNoTrace 
