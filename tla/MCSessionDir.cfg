CONSTANTS
    Files = {"there"}
    Missing = {"missing"}
    Allhook = TRUE
    MaxUnread = 2
SPECIFICATION Spec
INVARIANT ServerAwaitsNameAfterList
CHECK_DEADLOCK FALSE
