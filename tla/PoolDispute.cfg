CONSTANTS
    Items = {i1, i2}
    Workers = {w1}
    NoTry = NoTry
    Target = 1
    Covered = FALSE
    SponsorCloses = FALSE
    MaxRevisions = 1
    MaxAttempt = 0
    MaxDisputes = 1
    MaxAborts = 1
SPECIFICATION Spec
SYMMETRY ItemSymmetry
CHECK_DEADLOCK FALSE
INVARIANTS CounterCovers
PROPERTIES OnlyHumansAccept DriftHasACause
