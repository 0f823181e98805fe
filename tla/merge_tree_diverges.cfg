SPECIFICATION Spec
CONSTANTS
    u1 = u1
    u2 = u2
    Users = {u1, u2}
    Reader = Reader
    Nobody = Nobody
    Kinds = {"insert", "remove"}
    InitialLength = 2
    MaxEdits = 3
    MaxDisconnects = 0
SYMMETRY MergeSymmetry
INVARIANT TextConverges
CHECK_DEADLOCK FALSE
