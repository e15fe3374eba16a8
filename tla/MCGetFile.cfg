CONSTANTS
    MAX_BLOCKS_QUEUED = 5
    DatagramSize = 7
    FileBlocks = 16
    WRAP_BLOCKS = 32
    Datagram <- MCDatagram
    Zeroed <- MCZeroed
    blockCount = 3
    Modes = {"lossless", "lossy"}
    Stale = {4, 16}
    UINT = 32
    onWireEstimate = 1
    MAX_RETRANSMISSION_BUFFER = 2
    DEFAULT_TABLE_SIZE = 2
    TABLE_LIMIT = 4
SPECIFICATION Spec
INVARIANTS RingCallsSucceed FileOpenForDisk RequestsMakeSense
PROPERTY FlushEnds
CHECK_DEADLOCK FALSE
