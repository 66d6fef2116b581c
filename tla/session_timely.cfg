SPECIFICATION ReadFairSpec
CONSTANTS
    s1 = s1
    s2 = s2
    s3 = s3
    Serial <- MCPlant
    Records = {"ac", "dc", "stats", "info"}
    Status = "status"
    Archive = {"day", "events"}
    NUM_RETRIES = 3
    CNTR_START = 5
    CNTR_MAX = 6
    DeviceNums = {3}
    Timely = TRUE
    MailboxSize = 6
    MaxOwed = 3
    MaxFragments = 3
    MaxSessions = 1
    RequestsGoOn = FALSE
    Invalid = Invalid
    NoReading = NoReading
    Trackers = 2
    MaxRecords <- MCMaxRecords
    BUF_LEN = 512
    Ranges <- MCRanges
    Contents <- MCContents
    Chunks <- MCChunks
INVARIANTS
    PlantComplete
    NeverCrashes
    AnswersAreAsked
    ArchiveComplete
    SpotValuesAreLatest
    TotalPowerIsSum
    AttributesAreSelected
    YieldsAreDaily
    ArchiveIsWhole
    ArchiveInOrder
PROPERTIES
    ConnectSucceeds
CHECK_DEADLOCK FALSE
