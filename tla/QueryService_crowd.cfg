CONSTANTS
    Handlers = {h1, h2, h3}
    NoHandler = NoHandler
    h1 = h1
    h2 = h2
    h3 = h3
    Domains = {"site"}
    QTypes = {"A"}
    AddrTypes = {"A"}
    Lower <- MCLower
    BootstrapHosts = {}
    NonExistent = {}
SPECIFICATION FairSpec
INVARIANTS
    NoOrphanWaiter
    DuplicateOnlyAfterFailure
    CountersAgree
PROPERTIES
    ServeStale
    EveryQueryAnswered
    ImplementsService
