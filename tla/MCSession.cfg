CONSTANTS
    Files = {"there"}
    Missing = {"missing"}
    Allhook = TRUE
    MaxUnread = 3
SPECIFICATION Spec
INVARIANTS SecretIsShared ServerAwaitsName TransferAsAgreed
 
CHECK_DEADLOCK FALSE
