SPECIFICATION Spec
CONSTANTS
    Fcs <- MCFcs
    BUF_SIZE = 5
    FRAME_SIZE = 6
    MinFragment = 2
    MaxFragment = 5
    MaxSent = 3
    MaxDamages = 1
    LinkFails = TRUE
INVARIANTS
    TypeOK
    WithinBuffers
    NothingTwice
    LossIsLocal
    EscapeIsPaired
CHECK_DEADLOCK FALSE
