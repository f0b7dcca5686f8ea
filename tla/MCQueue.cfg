CONSTANTS
    t1 = t1 t2 = t2 t3 = t3
    n1 = n1 n2 = n2 n3 = n3 n4 = n4
    d1 = d1 d2 = d2
    NULL = NULL
    Thread <- MCThread
    Node <- MCNode
    Data <- MCData
    maxSize = 2
SPECIFICATION FairSpec
INVARIANTS TypeOK ListOK CapacityOK NoLostWakeup NoLeak
PROPERTIES ImplementsFifo PullProgress PushProgress
