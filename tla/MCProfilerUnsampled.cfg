CONSTANTS
    t1 = t1 t2 = t2
    RMMOD = RMMOD
    Task <- MCTask
    Words = 4
    Width = 2
SPECIFICATION FairSpec
PROPERTY AlwaysSampled
CHECK_DEADLOCK FALSE
