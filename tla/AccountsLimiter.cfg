CONSTANTS
    Logins = {l1, l2}
    Changes = {c1, c2, c3}
    Resets = {}
    Suspensions = {}
    Exchanges = {}
    Codes = {}
    Passwords = {p1}
    Long = {}
    LockAfter = 2
    Window = 2
    MaxNow = 3
    None = None
SPECIFICATION Spec
SYMMETRY Symmetry
INVARIANTS
    FailuresBounded
PROPERTIES
    LockOutlastsNewAttempts
CHECK_DEADLOCK FALSE
