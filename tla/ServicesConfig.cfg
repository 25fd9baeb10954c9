CONSTANTS
    Services = {s}
    Runlevels = {q, r}
    Cells = {c1, c2, c3}
    Priorities = {0, 10, 100}
    MaxChanges = 2
    Null = Null
SPECIFICATION Spec
INVARIANTS TypeOK RunlevelsCurrent
PROPERTY ConfigKept
SYMMETRY CellSymmetry
CHECK_DEADLOCK FALSE
