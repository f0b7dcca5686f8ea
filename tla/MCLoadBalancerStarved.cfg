CONSTANTS
    N = 4
    THRESHOLD = 1
    SockCap = 1
    Junk = Junk
    MaxReports <- OneTwo
SPECIFICATION FairSpec
PROPERTY AllJobsFinish
CHECK_DEADLOCK FALSE
