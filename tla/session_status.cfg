SPECIFICATION Spec
CONSTANTS
    s1 = s1
    s2 = s2
    s3 = s3
    Serial <- MCPair
    Records = {"ac"}
    Status = "status"
    Archive = {"day"}
    NUM_RETRIES = 3
    CNTR_START = 5
    CNTR_MAX = 6
    DeviceNums = {2}
    Timely = TRUE
    MailboxSize = 2
    MaxOwed = 2
    MaxFragments = 1
    MaxSessions = 1
    RequestsGoOn = TRUE
INVARIANTS
    StatusIsOfInverter
CHECK_DEADLOCK FALSE
