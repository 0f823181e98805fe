SPECIFICATION Spec
CONSTANTS
    MaxMessages = 3
    MaxBoxcar = 1
    MaxRestarts = 2
CHECK_DEADLOCK FALSE
INVARIANT NothingMissed
