SPECIFICATION Spec
CONSTANTS
    Clients = {c1}
    MaxConns = 1
    Files <- ProxyFiles
    StartFile <- First
    MaxWrites = 0
    Destinations <- ProxyDestinations
    Settings = "given"
INVARIANT RelayWithoutDeadline
CHECK_DEADLOCK FALSE
