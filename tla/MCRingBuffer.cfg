CONSTANTS
    MAX_BLOCKS_QUEUED = 4
    DatagramSize = 7
    Datagram = {d1}
    Zeroed = zeroed
SPECIFICATION RingSpec
INVARIANTS FlagsAgree ReservedSlotIsFree SlotComputedStaysRight NoLostDataWakeup
CHECK_DEADLOCK FALSE
