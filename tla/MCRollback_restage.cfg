CONSTANTS
    Clients = {c1}
    Root = root
    Returns = {r1, r2}
    Discards = {d1, d2}
    Snaps = {s1}
    MaxPlans = 2
    MaxBoots = 0
    MaxFaults = 0
    MaxCrashes = 0
SPECIFICATION SerialSpec
SYMMETRY Symmetry
INVARIANT StagedRootIsNext
CHECK_DEADLOCK FALSE
