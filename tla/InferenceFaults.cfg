CONSTANTS
    Requests = {r1, r2}
    Conversational = {r1, r2}
    Generating = {}
    Charges = {0, 1, 2, 3}
    InitPaid = 2
    InitPromo = 2
    Faults = {"ack", "release", "crash"}
    None = None
SPECIFICATION Spec
SYMMETRY Symmetry
INVARIANTS
    NoOverspend
    LedgerExplainsWallet
    NothingPartial
CHECK_DEADLOCK FALSE
