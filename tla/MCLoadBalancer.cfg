CONSTANTS
    N = 4
    THRESHOLD = 1
    SockCap = 1
    Junk = Junk
    MaxReports <- TwoEach
SPECIFICATION Spec
INVARIANTS TypeOK JobConserved NoArrayRace PushNeverBlocks GoodbyeSafe ResultOK StrayUnlockLate
CHECK_DEADLOCK FALSE
