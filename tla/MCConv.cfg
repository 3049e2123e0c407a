CONSTANTS
    Caller = Caller
    Answerer = Answerer
    CallerWindow = 7
    AnswererWindow = 3
    CallerSize = 4
    AnswererSize = 2
    MAXWINDOW <- Windows
    local_pktsize <- LocalSizes
    remote_pktsize <- RemoteSizes
    force <- Forced
    MaxErr = 4
    LineCap = 14
    Faults = {"lose", "slow", "carrier"}
    MaxNoise <- Noise
    Lost = 2
    Slow = 3
    Machines = {"a", "b", "c"}
    Wires <- mcWires
    Reached <- mcReached
    Known <- mcKnown
    Protocols = {"g", "G", "t"}
    proto <- mcProto
    Protolst <- mcProtolst
    Restarts = {"a"}
    MaxCalls = 2
    Sender = Sender
    Receiver = Receiver
    Os2 = {Receiver}
    PktSize = 2
    MaxBlocks = 2
    MaxPackets = 2
SPECIFICATION MCSpec
INVARIANTS WindowAgreed SessionsAgree GoodCall TLink
PROPERTY HandshakeOpens
CHECK_DEADLOCK FALSE
