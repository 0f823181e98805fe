SPECIFICATION Spec
CONSTANTS
    MaxMessages = 4
    MaxBoxcar = 2
    MaxRestarts = 2
CHECK_DEADLOCK FALSE
INVARIANT OnlySummarizedMissing
INVARIANT LogTailComplete
INVARIANT AnsweredOnce
