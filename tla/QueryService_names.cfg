CONSTANTS
    Handlers = {h1, h2}
    NoHandler = NoHandler
    h1 = h1
    h2 = h2
    Domains = {"site", "Site"}
    QTypes = {"A", "MX"}
    AddrTypes = {"A"}
    Lower <- MCLower
    BootstrapHosts = {"site"}
    NonExistent = {}
SPECIFICATION Spec
SYMMETRY MCHandlers
INVARIANTS
    SingleFlight
