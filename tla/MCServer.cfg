CONSTANTS
    block_size = 2
    MAX_BLOCK_SIZE = 4
    file_size = 5
    UINT = 64
    SIZE_OF_RETRANSMISSION_T = 3
    HEARTBEAT_LIMIT = 1
    Inherited = {0, 1}
    Requests <- MCRequests
    MaxRequests = 3
SPECIFICATION Spec
INVARIANTS RequestsInOrder RoundComplete
PROPERTY RequestsHandled
CHECK_DEADLOCK FALSE
