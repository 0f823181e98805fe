SPECIFICATION FairSpec
CONSTANTS
    Absent = Absent
    Undefined = Undefined
    c1 = c1
    c2 = c2
    x = x
    y = y
    u = u
    v = v
    Clients = {c1, c2}
    Keys = {x, y}
    Values = {u, v}
    Applications = {{"set", "delete"}, {"set", "listenerSet", "clear"}, {"set", "delete", "clear"}}
    MaxEdits = 3
    MaxDisconnects = 1
INVARIANT LocalView
INVARIANT PendingUnacked
PROPERTY EventuallyConsistent
CHECK_DEADLOCK FALSE
