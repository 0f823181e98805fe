SPECIFICATION FairSpec
CONSTANTS
    d1 = d1
    d2 = d2
    Documents = {d1, d2}
    NoDocument = NoDocument
    SlowUpdates = TRUE
    MaxMessages = 3
    MaxRestarts = 1
ACTION_CONSTRAINT D1First
INVARIANT AtLeastOnce
INVARIANT NothingForgotten
INVARIANT ReportsInRange
PROPERTY CheckpointsIncrease
PROPERTY EverythingCommitted
CHECK_DEADLOCK FALSE
