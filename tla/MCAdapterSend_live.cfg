SPECIFICATION LiveSpec
CONSTANTS
    Writers = {w1}
    Resender = resender
    ChunkSizes = {1}
    Window = 1
    MaxScan = 1
    MaxResend = 1
    ResumeEnabled = TRUE
    UseDeadline = FALSE
    MaxFrames = 2
    MaxDrops = 1
    MaxPauses = 1
INVARIANTS
    TypeOK
    ResendLoopRunsUntilClose
    NoSequenceHole
PROPERTIES
    WriteReturns
    PauseBounded
    AcceptedDelivered
CHECK_DEADLOCK FALSE
