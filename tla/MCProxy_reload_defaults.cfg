SPECIFICATION LiveSpec
CONSTANTS
    Clients = {c1}
    MaxConns = 1
    Files <- ProxyFiles
    StartFile <- First
    MaxWrites = 1
    Destinations <- ProxyDestinations
    Settings = "omitted"
PROPERTY RouterConverges
CHECK_DEADLOCK FALSE
