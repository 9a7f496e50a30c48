CONSTANTS
    Clients = {c1}
    Root = root
    Returns = {r1, r2}
    Discards = {d1, d2}
    Snaps = {s1}
    MaxPlans = 2
    MaxBoots = 2
    MaxFaults = 1
    MaxCrashes = 1
SPECIFICATION SerialSpec
SYMMETRY Symmetry
INVARIANTS
    TypeOK
    NoRootLost
    BootableAfterOneFault
    FileNotAheadOfDb
PROPERTY KeepsRoots
CHECK_DEADLOCK FALSE
