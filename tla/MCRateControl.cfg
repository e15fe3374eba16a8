CONSTANTS
    Params <- MCParams
    SECOND = 1
    MAX_IPD = 4
    FULL = 4
    UINT = 8
    END_WAIT = 2
    Requested = {0, 3}
    Blocks = {0, 2}
    MaxWait = 2
    MaxBehind = 1
    MaxAhead = 1
    MaxReports = 2
    MaxErrorRate = 9
SPECIFICATION Spec
INVARIANTS DelayInRange ReportsInRange NeverAheadOfSchedule
PROPERTY FeedbackDirection
CHECK_DEADLOCK FALSE
