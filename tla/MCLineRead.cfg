SPECIFICATION LineSpec
CONSTANTS
    Platforms = {"os2"}
    OSize = 2
    ISize = 2
    WLens = {1, 2}
    RLens = {1, 2}
    Timeouts = {0, 1}
    MAXSPIN = 1
    Checks = {FALSE}

PROPERTY SreadSpec
CHECK_DEADLOCK FALSE
