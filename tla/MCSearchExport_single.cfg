SPECIFICATION Spec
\* The clock ends: no export starts after MaxTime.
CHECK_DEADLOCK FALSE
CONSTANTS
    Aliases = {catalog, distributions}
    Procs = {p1}
    MaxTime = 2
    Keeps = {0, 1}
    MaxStops = 1
    Admin = TRUE
SYMMETRY MCSymmetry
INVARIANTS TypeOK OneGeneration   NothingLeftBlocked
PROPERTIES  NeverMixes RenameCarriesOver
