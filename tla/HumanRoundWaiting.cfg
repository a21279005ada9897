SPECIFICATION Spec
CONSTANTS
    Workers = {w1, w2}
    Interactions = {i1}
    NoWorker = NoWorker
    NoJob = NoJob
SYMMETRY MCSymmetry
PROPERTIES
    WaitingIsKept
CHECK_DEADLOCK FALSE
