CONSTANTS
    t1 = t1
    RMMOD = RMMOD
    Task <- MCTask
    Words = 6
    Width = 2
    BUFD_MAX = 4
SPECIFICATION MonitorFairSpec
INVARIANTS PrintedOnce PrintedAll LinesWhole
PROPERTIES MonitorEnds
CHECK_DEADLOCK FALSE
