SPECIFICATION RestartSpec
CONSTANTS
    None = None
    Cleared = Cleared
    c1 = c1
    c2 = c2
    Clients = {c1, c2}
    Summarizers = {}
    ClientOps = {"Operation","NoOp","NoOpImmediate"}
    ClearCacheAfterServiceSummary = FALSE
    DirectOps = FALSE
    IdleEviction = FALSE
    MaxRaw = 3
    MaxIdle = 0
    MaxBoxcar = 2
    MaxBacklog = 1
    MaxPending = 1
    Repeatable = {}
    MaxRestarts = 1
    MaxLost = 0
    MaxRepeated = 0
INVARIANT NothingLost
INVARIANT CommitFollowsRecord
INVARIANT RecordMatchesLog
PROPERTY ImplementsTotalOrder
PROPERTY EveryBoxcarCheckpointed
PROPERTY NoOpsConsolidated
PROPERTY EmptyDocumentAnnounced
ACTION_CONSTRAINT RestartsApart
CHECK_DEADLOCK FALSE
