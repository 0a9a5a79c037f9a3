SPECIFICATION LiveSpec
CONSTANTS
    Control = {3}
    DropInHandshake = FALSE
    MaxMessages = 5
    MaxDrops = 1
INVARIANTS
    TypeOK
    AckedIsHeld
PROPERTIES
    NeverBack
    StreamImplemented
    ProcessedUnlessOvertaken
CHECK_DEADLOCK FALSE
