SPECIFICATION LiveSpec
CONSTANTS
    Clients = {c1}
    MaxConns = 0
    Files <- ProxyFiles
    StartFile <- First
    MaxWrites = 2
    Destinations <- ReloadDestinations
    Settings = "given"
INVARIANT RoutesResolvable
PROPERTY RouterConverges
CHECK_DEADLOCK FALSE
