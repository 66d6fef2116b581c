SPECIFICATION Spec
CONSTANTS
    m1 = m1
    m2 = m2
    Mac <- MCMac
    NullMac = NullMac
    Broadcast = Broadcast
    DeviceCounts <- MCDeviceCounts
    MAX_PACKETS_SIZE = 2
    MaxData = 4
INVARIANTS
    CallsAreLegalInAnyOrder
CHECK_DEADLOCK FALSE
