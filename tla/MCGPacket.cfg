CONSTANTS
    Caller = Caller
    Answerer = Answerer
    MAXSEQ = 3
    CallerWindow = 2
    AnswererWindow = 2
    MAXWINDOW <- Windows
    MaxErr = 5
    MaxTry = 1
    LineCap = 3
    CallerPkts = 4
    AnswererPkts = 1
    MaxPkts <- Packets
    MaxNoise <- OneOfEach
    Faults = {"header", "checksum", "slow", "carrier", "abort"}
SPECIFICATION FairSpec
INVARIANTS AckedWasReceived NothingSkipped Completes
PROPERTIES LinkSpec Terminates
