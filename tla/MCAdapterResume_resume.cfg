SPECIFICATION LiveSpec
CONSTANTS
    Writers = {w1}
    MaxGen = 2
    MaxLoops = 2
    MaxDrops = 2
INVARIANTS
    TypeOK
    GateUsable
    OneReconnectLoop
    WaitersHaveOpener
PROPERTIES
    FailureHandled
    WritersReturn
CHECK_DEADLOCK FALSE
