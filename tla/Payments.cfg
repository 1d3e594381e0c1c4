CONSTANTS
    Purchases = {p1, p2}
    Stripe = {p1}
    Amounts = {29}
    RefundCents = {14, 15}
    Ratios = {50, 100}
    RoundedLow <- LowAtHundred
    Spends <- OnePurchase
    Deliveries = {d1, d2}
    Refunders = {f1, f2}
    Conns = 3
    InitPaid = 0
    InitPromo = 0
    None = None
SPECIFICATION Spec
SYMMETRY Symmetry
INVARIANTS
    TypeOK
    GrantedOncePaid
    LedgerExplainsPaid
    RefundsAddUp
    NeverAheadOfStripe
    ReversedWithinWorth
PROPERTIES
    OutcomesStand
CHECK_DEADLOCK FALSE
