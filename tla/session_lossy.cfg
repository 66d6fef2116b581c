SPECIFICATION FairSpec
CONSTANTS
    s1 = s1
    s2 = s2
    s3 = s3
    Serial <- MCPair
    Records = {"ac"}
    Status = "status"
    Archive = {"day"}
    NUM_RETRIES = 0
    CNTR_START = 5
    CNTR_MAX = 6
    DeviceNums <- MCDeviceNums
    Timely = FALSE
    MailboxSize = 1
    MaxOwed = 1
    MaxFragments = 1
    MaxSessions = 1
    RequestsGoOn = TRUE
INVARIANTS
    TypeOK
    TransactionsDoNotNest
    TransactionsEnd
    FreshCounter
PROPERTIES
    CallsReturn
CHECK_DEADLOCK FALSE
