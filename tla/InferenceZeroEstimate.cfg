CONSTANTS
    Requests = {r1}
    Conversational = {}
    Generating = {}
    Charges = {0, 1, 3}
    InitPaid = 2
    InitPromo = 2
    Faults = {}
    None = None
SPECIFICATION Spec
INVARIANT AffordableIsCapturable
CHECK_DEADLOCK FALSE
