\* Two sweeps, an acceptance in flight, an item per way of acceptance.
SPECIFICATION FairSpec
CONSTANTS
    Items = {a, b}
    SponsorReviewed = {a}
    Requests = {r1}
    Sweepers = {s1, s2}
    Window = 1
    Limit = 1
    MaxNow = 3
    MaxDisputes = 1
    MaxCloses = 1
    MaxCrashes = 1
INVARIANTS PaidOnce AwardNotLost
PROPERTIES NotBeforeWindow HeldIsReleased
CHECK_DEADLOCK FALSE
