CONSTANTS
    N = 4
    THRESHOLD = 1
    SockCap = 1
    Junk = Junk
    MaxReports <- OneTwo
SPECIFICATION FairSpec
PROPERTY JobsFinish
CHECK_DEADLOCK FALSE
