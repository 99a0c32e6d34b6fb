SPECIFICATION Spec
\* The clock ends: no export starts after MaxTime.
CHECK_DEADLOCK FALSE
CONSTANTS
    Aliases = {catalog}
    Procs = {p1}
    MaxTime = 4
    Keeps = {2}
    MaxStops = 2
    Admin = FALSE
SYMMETRY MCSymmetry
INVARIANTS PreviousIsKept
