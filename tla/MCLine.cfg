SPECIFICATION MCSpec
CONSTANTS
    Platforms = {"dos", "os2"}
    OSize = 2
    ISize = 1
    WLens = {1, 2}
    RLens = {1}
    Timeouts = {0, 1}
    MAXSPIN = 1
    Checks = {FALSE}
    Systems <- mcSystems
    Modems <- mcModems
    InModem = "slow"
    MaxTry = 2
    MIN_IDLE = 5
    MaxLogins = 2
    Modes = {"master", "slave"}
    MaxFaults = 1
    MaxRings = 2
INVARIANTS NextCallClean DialsRight
PROPERTIES NoFalseLoss StuckGivesWay LineLive RunEnds
\* A run of dcpmain is over.
CHECK_DEADLOCK FALSE
