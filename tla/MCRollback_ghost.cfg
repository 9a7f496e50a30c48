CONSTANTS
    Clients = {c1}
    Root = root
    Returns = {r1, r2}
    Discards = {d1, d2}
    Snaps = {s1}
    MaxPlans = 1
    MaxBoots = 0
    MaxFaults = 1
    MaxCrashes = 0
SPECIFICATION SerialSpec
SYMMETRY Symmetry
INVARIANT PendingWasStaged
CHECK_DEADLOCK FALSE
