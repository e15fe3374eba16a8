CONSTANTS
    Clients = {"a", "b"}
    RateWords <- MCRateWords
    SizeWords <- MCSizeWords
    Phrases = {"", "Kitten"}
    Lowered <- MCLowered
    DEFAULT_SECRET = "kitten"
    Secrets = {"kitten", "Kitten"}
    Achieved = {0, 3}
    MEGA = 2
    GIGA = 3
    UINT = 8
    ADJUST = 3
    MaxSets = 2
    MaxConnections = 2
SPECIFICATION Spec
INVARIANTS HandlersApart ConnectionsAccounted StrandedByZeroRate
PROPERTY CommandsReturn
CHECK_DEADLOCK FALSE
