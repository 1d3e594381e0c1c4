CONSTANTS
    Requests = {r1, r2}
    Conversational = {r1}
    Generating = {r2}
    Charges = {0, 1, 3}
    InitPaid = 2
    InitPromo = 2
    Faults = {}
    None = None
SPECIFICATION FairSpec
INVARIANTS
    TypeOK
    SettledExactly
    AnswerMatchesCharge
PROPERTIES
    PromotionalFirst
    HoldsAreSettled
    ImplementsAccount
CHECK_DEADLOCK FALSE
