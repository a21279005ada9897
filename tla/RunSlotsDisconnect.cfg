SPECIFICATION Spec
CONSTANTS
    Attempts = {a, b, c}
    Sessions = {s}
    Limit = 1
    NoOne = NoOne
    VisionFallback = TRUE
    MayAbort = FALSE
SYMMETRY Symmetric
PROPERTY DisconnectKeepsLock
CHECK_DEADLOCK FALSE
