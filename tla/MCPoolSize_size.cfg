SPECIFICATION LiveSpec
CONSTANTS
    Conns = {c1, c2, c3}
    NoConn = none
    Workers = {g1, g2}
    Instances = 2
    DeadInstances = {0}
    Target = 1
    MaxPool = 1
    ScaleParallelism = 1
    ReplenishParallelism = 1
    MaxFailures = 1
    MaxDeaths = 1
    MaxWakes = 1
    MaxScales = 1
INVARIANTS
    TypeOK
    AttemptsCounted
    GrowthBounded
    OpenIsPooled
PROPERTIES
    PoolRefills
    CloseEnds
CHECK_DEADLOCK FALSE
