SPECIFICATION LiveSpec
CONSTANTS
    Attempts = {a, b, c}
    Sessions = {s}
    Limit = 1
    NoOne = NoOne
    VisionFallback = TRUE
    MayAbort = TRUE
PROPERTIES ZombieStops OrphanIsClosed SlotComesBack
CONSTRAINT LoneAbort
CHECK_DEADLOCK FALSE
