SPECIFICATION TPacketSpec
CONSTANTS
    Sender = Sender  Receiver = Receiver
    Os2 = {}
    PktSize = 2
    MaxBlocks = 2
    MaxPackets = 2
INVARIANT Confirmed
\* The session ends.
CHECK_DEADLOCK FALSE
