CONSTANTS
    blockCount = 3
    UINT = 8
    Modes = {"lossless", "lossy", "semilossy"}
    onWireEstimate = 1
    MAX_RETRANSMISSION_BUFFER = 2
    DEFAULT_TABLE_SIZE = 2
    TABLE_LIMIT = 4
SPECIFICATION RetxSpec
INVARIANTS TransferTypeOK GaplessHasNoGap OnlyMissingRequested NoRequestForgotten RestartInFile
