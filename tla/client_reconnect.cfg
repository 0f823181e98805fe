SPECIFICATION Spec
CONSTANTS
    MaxBatchDeltas = 2
    InitialMessages = 1
    FlushModes = {"Automatic", "Manual"}
    MaxMessages = 2
    MaxFaults = 1
INVARIANT AssertionsHold
INVARIANT OperationsOnce
INVARIANT PendingExactly
INVARIANT NothingOutstanding
INVARIANT InboundInOrder
INVARIANT Settled
CHECK_DEADLOCK FALSE
