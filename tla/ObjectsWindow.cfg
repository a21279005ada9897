SPECIFICATION ObjectsSpec
CONSTANTS
    Saves = {s1, s2}
    Collectors = {g1, g2}
    Nobody = Nobody
    NoVersion = NoVersion
    Windowed = TRUE
    Stalls = FALSE
    MaxDeaths = 0
INVARIANT HeadsHaveContent
CHECK_DEADLOCK FALSE
