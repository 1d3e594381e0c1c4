CONSTANTS
    Tokens = 2
    Minute = 2
    PriceUnit = 2
    Slack = 1
    DefaultTokens = 2
    None = None
    Slots = {s1, s2}
    Keys = {k1}
    Rotations = 1
    Expiries = {None, 2}
    Budgets = {2}
    Limit = 2
    Window = 2
    MaxNow = 2
    Routes = {1, 2, 3, 4}
    Catalog <- MCCatalog
    Rules <- MCRules
    Asks <- MCAsks
    Answers <- MCAnswers
SPECIFICATION Spec
SYMMETRY Symmetry
INVARIANTS
    TypeOK
    TwoWindowsAtMost
    OverBudgetByThoseUnderWay
    ReservationCovers
PROPERTIES
    DeadSecretsDrain
CHECK_DEADLOCK FALSE
