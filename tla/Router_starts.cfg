CONSTANTS
    Lists <- MCLists
    Lower <- MCLower
    Domains <- MCDomains
    Modes = {"direct", "rules"}
SPECIFICATION Spec
INVARIANTS
    RoutedAsListed
    RulesSurvive
