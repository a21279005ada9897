SPECIFICATION ChatSpec
CONSTANTS
    Workers = {x1, x2}
    Interactions = {y1, y2}
    NoWorker = NoWorker
    NoJob = NoJob
    Mutations = {z1, z2, z3}
    Reconcilers = {x1, x2}
    Files = {e1}
    Folder = f
    Names = {a}
    Dirs = {y1, y2}
    Top = Top
    Nothing = Nothing
    Places = {{z1, z2}}
    Unmergeable = {z3}
    Quota = 2
    MaxFaults = 2
SYMMETRY ChatSymmetry
CONSTRAINT OneMatter
INVARIANTS 
    EffectOnce
    HonestAbort
    OneDriver
    ClosedOnce
    FilesAgree
    BaseIsKept
    QuotaIsKept
    DrainIsQuiet
    OneEffectPerKey
PROPERTIES
    StartedIsNeverReclaimed
    StaleWorkerWritesNothing
    KeepsContract
    NoLateWrite
    
CHECK_DEADLOCK FALSE
