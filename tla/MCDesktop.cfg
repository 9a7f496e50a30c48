CONSTANTS
    a = a
    e = e
    Snaps = {s1, s2}
    Tasks = {main, t1, t2}
    Main = main
    Windows = {w1, w2}
    MaxDepth = 2
    MaxTrouble = 2
    Filesystems = {f1, f2}
    Root = f1
    Bare = {f2}
    Paths = {a, e}
    External = {e}
    Searches <- Views
    Filters <- Views
    Futures = {u1, u2}
    FirstFuture = u1
    ListTrouble = 1
    Policies = {p, q}
    Runs = {1, 2}
    Limit = 1
    Hour = 3
    MaxTime = 6
    LogFaults = 1
    LastRelease = 2
    UpdateFaults = 2
    Requests = {r1, r2}
    TopFaults = 2
SPECIFICATION DesktopSpec
INVARIANTS
    DesktopTypeOK
    RemembersMounts
    CloseLeavesNothing
    TopLevelStays
    SelectedIsVisible
    ShownIsCurrent
    ToldOnce
    StoreReady
    UpdatesAreSound
PROPERTIES
    LaunchRecovers
    BulkDeleteWasShown
SYMMETRY Symmetry
CHECK_DEADLOCK FALSE
