SPECIFICATION BusLiveSpec
CONSTANTS
    Clients = {c1}
    Sender = c1
    Segments = {a, b}
    TextSegments = {b}
    MaxChunks = 1
    RollingStart = FALSE
PROPERTIES RowsArrive TerminalWakes
CHECK_DEADLOCK FALSE
