SPECIFICATION Spec
CONSTANTS
    u1 = u1
    u2 = u2
    Users = {u1, u2}
    Reader = Reader
    Nobody = Nobody
    Kinds = {"insert", "annotate", "remove", "replace"}
    InitialLength = 1
    MaxEdits = 3
    MaxDisconnects = 1
SYMMETRY MergeSymmetry
INVARIANT NeverFails
INVARIANT ConvergesUnlessPassed
INVARIANT ValuesConverge
INVARIANT NothingLostOrRevived
CHECK_DEADLOCK FALSE
