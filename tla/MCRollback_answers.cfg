CONSTANTS
    Clients = {c1, c2}
    Root = root
    Returns = {r1, r2}
    Discards = {d1, d2}
    Snaps = {s1}
    MaxPlans = 2
    MaxBoots = 1
    MaxFaults = 1
    MaxCrashes = 1
SPECIFICATION AnswersSpec
SYMMETRY Symmetry
INVARIANTS
    BootableUndisturbed
    StagedRootIsNext
    KeepOfferedOnStagedRoot
PROPERTY RevertRestoresOriginal
CHECK_DEADLOCK FALSE
