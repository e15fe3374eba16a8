CONSTANTS
    MAX_BLOCKS_QUEUED = 3
    DatagramSize = 7
    FileBlocks = 2
    WRAP_BLOCKS = 8
    Datagram <- MCDatagram
    Zeroed <- MCZeroed
SPECIFICATION DiskSpec
INVARIANTS HeadStaysUntilPop
PROPERTIES SleeperWakes FifoSpec
CHECK_DEADLOCK FALSE
