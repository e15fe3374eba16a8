CONSTANTS
    MAX_BLOCKS_QUEUED = 3
    DatagramSize = 7
    FileBlocks = 2
    WRAP_BLOCKS = 8
    Datagram <- MCDatagram
    Zeroed <- MCZeroed
SPECIFICATION DiskSpec
INVARIANT FileHoldsBlocks
CHECK_DEADLOCK FALSE
