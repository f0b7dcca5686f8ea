CONSTANTS
    a1 = a1 a2 = a2 a3 = a3
    NULL = NULL
    App <- MCTwo
    period <- MCPeriod
    processing_time <- ShortTime
    INT_MAX = 255
    SCALE = 100
    LIMIT = 75
    Punctual = FALSE
    Serial = TRUE
SPECIFICATION Spec
INVARIANT NoTaskForgotten
CHECK_DEADLOCK FALSE
