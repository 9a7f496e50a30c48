CONSTANTS
    Clients = {c1, c2}
    Names = {n1, n2}
    Anchors = {a1, a2}
    Top = top
    MaxIds = 2
    MaxGone = 0
    MaxFaults = 0
    MaxCrashes = 0
SPECIFICATION Spec
SYMMETRY Symmetry
PROPERTY PruneOnlyDeleted
CHECK_DEADLOCK FALSE
