CONSTANTS
    block_size = 2
    MAX_BLOCK_SIZE = 4
    file_size = 5
    UINT = 64
    SIZE_OF_RETRANSMISSION_T = 3
    HEARTBEAT_LIMIT = 2048
    Inherited = {0}
    Requests <- MCRequests
    MaxRequests = 1
SPECIFICATION Spec
PROPERTY DeadClientDisconnected
CHECK_DEADLOCK FALSE
