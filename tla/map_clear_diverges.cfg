SPECIFICATION Spec
CONSTANTS
    Absent = Absent
    Undefined = Undefined
    c1 = c1
    c2 = c2
    x = x
    y = y
    u = u
    v = v
    Clients = {c1, c2}
    Keys = {x, y}
    Values = {u, v}
    Applications = {{"set", "clear"}}
    MaxEdits = 4
    MaxDisconnects = 1
SYMMETRY MapSymmetry
INVARIANT Converged
CHECK_DEADLOCK FALSE
