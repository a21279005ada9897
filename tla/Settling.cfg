SPECIFICATION SettlingSpec
CONSTANTS
    Workers = {w1, w2}
    Interactions = {i1}
    NoWorker = NoWorker
    NoJob = NoJob
    Mutations = {m1}
    Reconcilers = {r1, r2}
    Files = {e1}
    Folder = f
    Names = {a}
    Dirs = {d}
    Top = Top
    Nothing = Nothing
    Places = {}
    Unmergeable = {}
    Quota = 2
    MaxFaults = 2
    Runs = {r}
    Tasks = {t1, t2}
    Sandboxes = {b1}
    NoTask = NoTask
    NoRun = NoRun
    NoSandbox = NoSandbox
    Saves = {s1, s2}
    Collectors = {g1, g2}
    Nobody = Nobody
    NoVersion = NoVersion
    Windowed = FALSE
    Stalls = FALSE
    MaxDeaths = 1
    Uploaders = {u1}
    Claimers = {k1}
    Cleaners = {q1}
    NoCleaner = NoCleaner
    MaxGenerations = 2
    MaxLapses = 1
PROPERTIES StartedWorkSettles PreparedIsResolved EveryRunSettles PruningEnds RemovedIsCleaned
CHECK_DEADLOCK FALSE
