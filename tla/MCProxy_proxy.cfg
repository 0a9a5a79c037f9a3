SPECIFICATION LiveSpec
CONSTANTS
    Clients = {c1, c2}
    MaxConns = 1
    Files <- ProxyFiles
    StartFile <- Rerouted
    MaxWrites = 0
    Destinations <- ProxyDestinations
    Settings = "given"
INVARIANTS
    TypeOK
    TokensHeld
    OneReader
PROPERTIES
    DisconnectEndsDial
    BufferedRelayed
    DirectRelayEnds
CHECK_DEADLOCK FALSE
