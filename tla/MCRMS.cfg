CONSTANTS
    a1 = a1 a2 = a2 a3 = a3
    NULL = NULL
    App <- MCApp
    period <- MCPeriod
    processing_time <- MCTime
    INT_MAX = 255
    SCALE = 100
    LIMIT = 75
    Punctual = TRUE
    Serial = TRUE
SPECIFICATION Spec
INVARIANTS TypeOK RunningRegistered TimersRegistered NoTaskForgotten NoOrphan WakeupsHeard AdmissionOK
CHECK_DEADLOCK FALSE
