CONSTANTS
    Resolvers = {r1, r2, r3}
    Ids = {"a", "b"}
    Replies <- MCReplies
    Failed = Failed
    MinimumTTL = 300
    NoTTL = 600
    Nil = Nil
    r1 = r1
    r2 = r2
    r3 = r3
SPECIFICATION FairSpec
CHECK_DEADLOCK FALSE
INVARIANTS
    TypeOK
    AnswerIsMerge
    AnswerBeatsErrors
PROPERTIES
    SendersEnd
    Returns
