SPECIFICATION Spec
CONSTANTS
    Runs = {r}
    Tasks = {a, b, c}
    Sandboxes = {x, y}
    NoTask = NoTask
    NoRun = NoRun
    NoSandbox = NoSandbox
    SharedQueue = TRUE
    SlowCommits = FALSE
INVARIANT AgentStartsOnce
CHECK_DEADLOCK FALSE
