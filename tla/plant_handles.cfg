SPECIFICATION PlantSpec
CONSTANTS
    m1 = m1
    Mac <- MCMac
    NullMac = NullMac
    Broadcast = Broadcast
    DeviceCounts = {0, 1}
    MAX_PACKETS_SIZE = 2
    MaxData = 1
    MaxConnects = 2
INVARIANTS
    ConnectionOutlivesWorker
    NoSocketLeak
CHECK_DEADLOCK FALSE
