SPECIFICATION Spec
CONSTANTS
    Attempts = {a, b, c}
    Sessions = {s}
    Limit = 1
    NoOne = NoOne
    VisionFallback = FALSE
    MayAbort = TRUE
SYMMETRY Symmetric
PROPERTY AbortedInitNeverRuns
CHECK_DEADLOCK FALSE
