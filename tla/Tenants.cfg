\* Two requests at a time on two spellings of one address and two identities.
SPECIFICATION Spec
CONSTANTS
    Slots = {s1, s2}
    Emails = {"ann", "Ann"}
    Lower <- LowerCase
    Identities = {"google", "github"}
    Claims <- OneAddress
    Seeded = {demo}
    Demo = demo
    MaxUsers = 2
    MaxInvites = 1
    None = None
SYMMETRY Symmetry
INVARIANTS
    TypeOK
    RegistrationIsWhole
    InvitationsAdmitOnce
    NoCircleOfWaits
CHECK_DEADLOCK FALSE
