SPECIFICATION Spec
CONSTANTS
    Fcs <- MCPlainFcs
    BUF_SIZE = 7
    FRAME_SIZE = 8
    MinFragment = 1
    MaxFragment = 6
    MaxSent = 1
    MaxDamages = 0
    LinkFails = TRUE
INVARIANTS
    FailureIsReported
CHECK_DEADLOCK FALSE
