SPECIFICATION Spec
CONSTANTS
    Users = {u1, u2}
    Applications <- Leading
    MaxFaults = 2
SYMMETRY Symmetry
CHECK_DEADLOCK FALSE
INVARIANT SingleLeader
