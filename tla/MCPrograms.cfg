CONSTANTS
    Callers <- TwoCallers
    Resetters <- OneResetter
    Systems <- OneSystem
    StatusFile = StatusFile
    Retries = 2
    MaxTime = 1
    MaxCalls = 2
    c1 = c1
    c2 = c2
    r1 = r1
    s1 = s1
    Hosts <- mcHosts
    Jobs <- mcJobs
    HostOf <- mcHostOf
    UserOf <- mcUserOf
    KindOf <- mcKindOf
    StartsWith <- mcStartsWith
    ValidName = {"kre", "kremvax"}
    Me = "me"
    Queues <- mcQueues
    Commands <- mcCommands
    MaxFaults = 1
    All = "All"  Absent = "Absent"
    None = "None"
    UsFaults = 1
    HostLen = 7  NameLen = 8  ExtLen = 3  MaxDigits = 20
    UnixStart = 35  UnixEnd = 122
    DosChars <- mcDos
    Nodes <- mcNodes
    Remotes <- mcRemotes
    Tails <- mcTails
    Starts <- mcStarts
    Letters <- mcLetters
    MaxMore = 6  MaxMade = 2
    vmodem = FALSE
    Data <- mcData
    Asks <- mcAsks
    MaxSaid = 3  MaxAsked = 2
SPECIFICATION MCSpec
SYMMETRY SameCallers
INVARIANTS HostExclusive LoadsWholeFile NoPanic KilledWhole KillsAllOrRaces NamesSafe TelnetClear
PROPERTIES NewestKept NothingAfterKill
\* The programs come to their end, and the bounds are reached.
CHECK_DEADLOCK FALSE
