SPECIFICATION SandboxSpec
CONSTANTS
    Processes = {p1, p2}
    Callers = {c1, c2}
    NoCaller = NoCaller
    Needs = {"run", "panel"}
    Boxes = {b1, b2, b3}
    NoBox = NoBox
PROPERTIES ReplacedForCause
CHECK_DEADLOCK FALSE
