CONSTANTS
    MaxTransfers = 3
    MaxSessions = 2
    MaxQueued = 1
SPECIFICATION Spec
INVARIANTS OnlyOvertakenStray ReconnectIsolates FileClosedBehindThread
PROPERTY LeftBlocksHandled
CHECK_DEADLOCK FALSE
