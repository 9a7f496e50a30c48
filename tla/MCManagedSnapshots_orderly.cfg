CONSTANTS
    Clients = {c1, c2}
    Names = {n1, n2}
    Anchors = {a1}
    Top = top
    MaxIds = 2
    MaxGone = 1
    MaxFaults = 1
    MaxCrashes = 1
SPECIFICATION OrderlySpec
SYMMETRY Symmetry
INVARIANTS
    TypeOK
    NoOrphans
    LockTruthful
PROPERTIES
    AnchorsStay
    PruneOnlyDeleted
    ListReconciles
CHECK_DEADLOCK FALSE
