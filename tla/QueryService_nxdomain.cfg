CONSTANTS
    Handlers = {h1, h2}
    NoHandler = NoHandler
    h1 = h1
    h2 = h2
    Domains = {"gone"}
    QTypes = {"A"}
    AddrTypes = {"A"}
    Lower <- MCLower
    BootstrapHosts = {}
    NonExistent = {"gone"}
SPECIFICATION Spec
INVARIANT NXDomainReported
