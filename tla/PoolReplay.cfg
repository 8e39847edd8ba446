CONSTANTS
    Items = {i1}
    Workers = {w1}
    NoTry = NoTry
    Target = 1
    Covered = TRUE
    SponsorCloses = FALSE
    MaxRevisions = 1
    MaxAttempt = 0
    MaxDisputes = 0
    MaxAborts = 1
SPECIFICATION Spec
CHECK_DEADLOCK FALSE
PROPERTIES VerdictStands
