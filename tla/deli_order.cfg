SPECIFICATION Spec
CONSTANTS
    None = None
    Cleared = Cleared
    c1 = c1
    c2 = c2
    Clients = {c1, c2}
    Summarizers = {}
    ClientOps = {"Operation","Summarize"}
    ClearCacheAfterServiceSummary = TRUE
    DirectOps = TRUE
    IdleEviction = TRUE
    MaxRaw = 4
    MaxIdle = 2
    MaxBoxcar = 1
    MaxBacklog = 0
    MaxPending = 0
    Repeatable = {"Operation","ClientLeave"}
    MaxRestarts = 0
    MaxLost = 1
    MaxRepeated = 1
SYMMETRY ClientSymmetry
INVARIANT CollaborationWindow
INVARIANT NackedForGood
INVARIANT ClientOrder
INVARIANT SuccessorsAccepted
INVARIANT OperationsOfMembers
INVARIANT SummaryIsQuiescent
CHECK_DEADLOCK FALSE
