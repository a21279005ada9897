SPECIFICATION ServicesSpec
CONSTANTS
    Clients = {c1}
    Sender = c1
    Segments = {a, b}
    TextSegments = {b}
    MaxChunks = 2
    RollingStart = TRUE
    Runs = {r}
    Tasks = {t1, t2, t3}
    Sandboxes = {x, y}
    NoTask = NoTask
    NoRun = NoRun
    NoSandbox = NoSandbox
    SharedQueue = FALSE
    SlowCommits = FALSE
    Saves = {s1, s2, s3}
    Collectors = {g1, g2}
    Nobody = Nobody
    NoVersion = NoVersion
    Windowed = FALSE
    Stalls = FALSE
    MaxDeaths = 1
INVARIANTS ContentIsExact YieldsInOrder TerminalIsLast
    AgentStartsOnce OutcomeIsKnown RunsInItsSandbox ContentIsKept
PROPERTIES CleanEof OutcomeStays
CONSTRAINT OneLong
CHECK_DEADLOCK FALSE
