SPECIFICATION Spec
CONSTANTS
    Writers = {w1, w2}
    Resender = resender
    ChunkSizes = {1, 2}
    Window = 2
    MaxScan = 1
    MaxResend = 1
    ResumeEnabled = FALSE
    UseDeadline = TRUE
    MaxFrames = 3
    MaxDrops = 0
    MaxPauses = 0
SYMMETRY WriterSymmetry
INVARIANTS
    OldestIsMinimum
    WindowAccounted
    AcceptedNotLost
PROPERTY WindowImplemented
CHECK_DEADLOCK FALSE
