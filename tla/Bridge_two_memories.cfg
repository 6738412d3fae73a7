SPECIFICATION BridgeSpec
CONSTANTS
    Bots = {b1, b2}
    Errands = {t1}
    NoErrand = NoErrand
    Verbs = {"errand.complete"}
    Ttl = 2
    MaxNow = 1
    MaxDispatch = 1
    MaxMemories = 2
    MaxMishaps = 1
INVARIANT OneMemoryPerErrand
SYMMETRY Symmetry
CHECK_DEADLOCK FALSE
