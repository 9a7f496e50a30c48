CONSTANTS
    timer = timer
    gui = gui
    Clients = {timer, gui}
    Paths <- MCPaths
    MaxTime = 8
    Past = 3
    Name <- MCName
    Bucket <- MCBucket
    Limit <- MCLimit
    MaxTrouble = 2
SPECIFICATION Spec
INVARIANTS
    TypeOK
    BucketsKept
    NothingLeftUnsaid
    DeletionsLogged
PROPERTY OnlyPreRunDeleted
SYMMETRY Symmetry
CHECK_DEADLOCK FALSE
