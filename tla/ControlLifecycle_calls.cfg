CONSTANTS
    Servers = {1, 2, 3}
    Operators = {c1}
    Editors = {c2}
    Handlers = 2
    Databases = {d1, d2}
    Ports = {p1, p2}
    Names = {n1}
    Configs <- MCConfigs
    Entries <- MCEntries
    Nobody = Nobody
    c1 = c1
    c2 = c2
    d1 = d1
    d2 = d2
    p1 = p1
    p2 = p2
    n1 = n1
SPECIFICATION FairSpec
INVARIANTS
    TypeOK
    NothingLeaks
    RunningMeansServing
    AtMostOneLateHandler
    OverridesKept
PROPERTIES
    StopReturns
    LoopEnds
    ImplementsDnsServer
