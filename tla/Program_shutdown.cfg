CONSTANTS
    Requests = {r1, r2}
    r1 = r1
    r2 = r2
SPECIFICATION FairSpec
CHECK_DEADLOCK FALSE
INVARIANT OrderlyExit
PROPERTY SignalEndsProgram
