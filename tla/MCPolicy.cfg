CONSTANTS
    home = home
    hourly = hourly
    daily = daily
    small = small
    none = none
    NoPolicy = NoPolicy
    NoFile = NoFile
    Torn = Torn
    Clients = {"gui", "cli"}
    Gui = "gui"
    Policies = {1, 2}
    Subvols = {home}
    Schedules = {hourly, daily}
    Plans = {small, none}
    Invalid = {none}
    Default <- MCDefault
    Given <- MCGiven
    MaxTrouble = 2
SPECIFICATION DialogSpec
INVARIANTS
    DialogTypeOK
    SuccessIsScheduled
    TimerFollowsRow
    OnePerSubvolume
PROPERTIES
    SavedWasPreviewed
    DialogAnswers
CHECK_DEADLOCK FALSE
