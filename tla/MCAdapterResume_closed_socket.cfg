SPECIFICATION Spec
CONSTANTS
    Writers = {w1}
    MaxGen = 2
    MaxLoops = 4
    MaxDrops = 1
PROPERTY ClosedGetsNoSocket
CHECK_DEADLOCK FALSE
