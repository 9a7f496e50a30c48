CONSTANTS
    timer = timer
    gui = gui
    Clients = {timer}
    Paths = {1, 2, 3, 4}
    MaxTime = 8
    Past = 4
    Name <- RepeatedName
    Bucket <- MCBucket
    Limit <- MCLimit
    MaxTrouble = 1
SPECIFICATION Spec
PROPERTY OnlyPreRunDeleted
CHECK_DEADLOCK FALSE
