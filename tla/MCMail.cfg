CONSTANTS
    Null = Null
    E_nodename <- us
    E_domain <- our
    E_localdomain <- net
    E_mailserv <- srv
    Cases <- MCCases
    Postmaster = "postmaster"
    MAXHOPS = 3
    LISTSIZ = 2
    MaxMishaps = 1
    Lengths <- MCLengths
    Nested = {2}
    EmptyFirst = {1}
    CtrlZ <- MCCtrlZ
    Batches <- MCBatches
    MaxRefused = 1
    TempKept = FALSE
SPECIFICATION MCSpec
INVARIANTS Told OnePath EveryMention BatchSafe
CHECK_DEADLOCK FALSE
