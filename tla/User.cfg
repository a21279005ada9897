SPECIFICATION UserSpec
CONSTANTS
    Attempts = {z1, z2, z3}
    Sessions = {x1, x2}
    Limit = 2
    NoOne = NoOne
    VisionFallback = TRUE
    MayAbort = TRUE
    Uploaders = {x1, x2}
    Claimers = {k1}
    Cleaners = {y1, y2}
    NoCleaner = NoCleaner
    MaxGenerations = 3
    MaxLapses = 1
    Processes = {y1, y2}
    Callers = {x1, x2}
    NoCaller = NoCaller
    Needs = {"run", "file", "exact"}
    Boxes = {z1, z2, z3}
    NoBox = NoBox
SYMMETRY UserSymmetry
CONSTRAINTS OneMatter FewLateClaims CalmSandbox
INVARIANTS 
    SlotsAreExclusive
    FilesFollowRows
    CandidatesStayHidden
PROPERTIES
    RecoverySparesTheLiving
    FreshLockIsKept
    AbortedInitNeverRuns
    ReplacedForCause
CHECK_DEADLOCK FALSE
