CONSTANTS
    N = 2
    THRESHOLD = 1
    SockCap = 1
    Junk = Junk
    MaxReports <- Unlimited
SPECIFICATION EndSpec
PROPERTY BothEnd
CHECK_DEADLOCK FALSE
