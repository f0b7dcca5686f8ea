CONSTANTS
    t1 = t1 t2 = t2
    RMMOD = RMMOD
    Task <- MCTask
    Words = 8
    Width = 2
SPECIFICATION FairSpec
INVARIANTS TypeOK WorkAlive WorkStops
PROPERTIES KeepsSampling UnregistrationReturns
CHECK_DEADLOCK FALSE
