CONSTANTS
    Logins = {l1}
    Changes = {c1}
    Resets = {}
    Suspensions = {}
    Exchanges = {}
    Codes = {}
    Passwords = {p1, p2}
    Long = {p2}
    LockAfter = 2
    Window = 2
    MaxNow = 0
    None = None
SPECIFICATION Spec
CHECK_DEADLOCK FALSE
PROPERTIES
    ReplacedKnowingly
