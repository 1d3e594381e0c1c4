CONSTANTS
    Logins = {l1, l2}
    Changes = {}
    Resets = {s1}
    Suspensions = {a1}
    Exchanges = {e1, e2}
    Codes = {k1}
    Passwords = {p1, p2}
    Long = {p2}
    LockAfter = 2
    Window = 2
    MaxNow = 0
    None = None
SPECIFICATION Spec
SYMMETRY Symmetry
INVARIANTS
    TypeOK
    OneSessionPerCode
PROPERTIES
    SuspensionDrains
    OldPasswordDrains
CHECK_DEADLOCK FALSE
