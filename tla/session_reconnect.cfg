SPECIFICATION Spec
CONSTANTS
    s1 = s1
    s2 = s2
    s3 = s3
    Serial <- MCPair
    Records = {"ac", "dc"}
    Status = "status"
    Archive = {"day"}
    NUM_RETRIES = 3
    CNTR_START = 5
    CNTR_MAX = 7
    DeviceNums = {2}
    Timely = TRUE
    MailboxSize = 6
    MaxOwed = 3
    MaxFragments = 3
    MaxSessions = 2
    RequestsGoOn = TRUE
INVARIANTS
    NoDuplicateDevices
CHECK_DEADLOCK FALSE
