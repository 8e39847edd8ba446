CONSTANTS
    Items = {i1}
    Workers = {w1}
    NoTry = NoTry
    Target = 1
    Covered = TRUE
    SponsorCloses = FALSE
    MaxRevisions = 1
    MaxAttempt = 1
    MaxDisputes = 0
    MaxAborts = 1
SPECIFICATION FairSpec
CHECK_DEADLOCK FALSE
PROPERTIES JobsDecide ClosedSettles
