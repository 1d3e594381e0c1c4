CONSTANTS
    Requests = {r1}
    Conversational = {}
    Generating = {}
    Charges = {1, 3}
    InitPaid = 0
    InitPromo = 2
    Faults = {}
    None = None
    Purchases = {p1}
    Stripe = {p1}
    Amounts = {200}
    RefundCents = {150}
    Ratios = {1}
    RoundedLow = {}
    Deliveries = {d1}
    Refunders = {f1, f2}
    Conns = 2
SPECIFICATION TrafficFairSpec
INVARIANTS
    WholeLedgerExplainsWallet
PROPERTIES
    InferenceIsSpending
    PaidIsCredited
    RefundsEnd
CHECK_DEADLOCK FALSE
