SPECIFICATION Spec
CONSTANTS
    Dialers = {d1, d2}
    Conns = {c1, c2}
    NoConn = none
    MaxChannels = 1
    MaxPool = 2
    ScaleParallelism = 1
    Headroom = 0
    TimeoutLimit = 1
    MaxDials = 2
    MaxChanges = 1
SYMMETRY DialSymmetry
INVARIANTS
    TypeOK
    SlotsAccounted
    PendingExact
    ChannelsOwned
    WakeupComing
CHECK_DEADLOCK FALSE
