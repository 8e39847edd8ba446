CONSTANTS
    Items = {i1, i2}
    Workers = {w1}
    NoTry = NoTry
    Target = 1
    Covered = TRUE
    SponsorCloses = TRUE
    MaxRevisions = 1
    MaxAttempt = 1
    MaxDisputes = 0
    MaxAborts = 0
SPECIFICATION Spec
SYMMETRY ItemSymmetry
CHECK_DEADLOCK FALSE
INVARIANTS TargetHeld
