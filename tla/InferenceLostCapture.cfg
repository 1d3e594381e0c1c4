CONSTANTS
    Requests = {r1}
    Conversational = {}
    Generating = {}
    Charges = {1, 3}
    InitPaid = 2
    InitPromo = 2
    Faults = {"ack"}
    None = None
SPECIFICATION Spec
INVARIANT NoRequestMintsCredits
CHECK_DEADLOCK FALSE
