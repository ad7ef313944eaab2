CONSTANTS
    Callers = {c1, c2}
    Configs = {short, long}
    Long = {long}
    Faults = {"open", "write"}
    Lost = Lost
    Checkers = {h1, h2}
    DirectServers <- MCDirect
    ProxyServers <- MCProxied
    Proxy <- MCProxy
    Unparsable = {p2}
    NoProxy = NoProxy
    c1 = c1
    c2 = c2
    h1 = h1
    h2 = h2
    short = short
    long = long
    s1 = s1
    s2 = s2
    p1 = p1
    p2 = p2
SPECIFICATION HealthSpec
SYMMETRY MCSymmetry
INVARIANTS
    TypeOK
    SettledIsStored
    ProbedAsAsked
    ConfiguredStayWarm
