CONSTANTS
    p1 = p1 p2 = p2
    n1 = n1 n2 = n2
    NULL = NULL
    Process <- MCProcess
    Node <- MCNode
SPECIFICATION FairSpec
INVARIANTS TypeOK TimerAlive SelfReported ExitStops
PROPERTIES Refreshed GoneUnlinked
CHECK_DEADLOCK FALSE
