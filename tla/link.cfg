SPECIFICATION FairSpec
CONSTANTS
    m1 = m1
    m2 = m2
    Mac <- MCMac
    NullMac = NullMac
    Broadcast = Broadcast
    DeviceCounts <- MCDeviceCounts
    MAX_PACKETS_SIZE = 2
    MaxData = 3
INVARIANTS
    TypeOK
    HelloStillUnconnected
    HandshakeWithinConnect
    NoLeakedWorker
    NoAddressRace
    NoLostWakeup
    HandshakeIsComplete
    QueueIsWindow
    OnlyOverflowLoses
PROPERTIES
    QuietCallsReturn
    DisconnectReturns
    ReadsInOrder
    ImplementsFrameWindow
CHECK_DEADLOCK FALSE
