\* Two requests or jobs on one project.
SPECIFICATION Spec
CONSTANTS
    Slots = {s1, s2}
    Convs = {c1}
    MaxBranches = 2
    MaxMessages = 3
    MaxAssets = 1
    MaxArtifacts = 1
    None = None
SYMMETRY Symmetry
INVARIANTS
    TypeOK
    GeneratedAreStored
    CopiesArePrefixes
    NothingOutlivesItsConversation
CHECK_DEADLOCK FALSE
