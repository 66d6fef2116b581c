SPECIFICATION FairSpec
CONSTANTS
    m1 = m1
    m2 = m2
    Mac <- MCMac
    NullMac = NullMac
    Broadcast = Broadcast
    DeviceCounts <- MCDeviceCounts
    MAX_PACKETS_SIZE = 2
    MaxData = 1
PROPERTIES
    GivenUpConnectReturns
CHECK_DEADLOCK FALSE
