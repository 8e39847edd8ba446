\* Two sweeps over the claims of one window, under fair clocks and sweeps.
SPECIFICATION FairSpec
CONSTANTS
    v1 = v1
    v2 = v2
    w1 = w1
    w2 = w2
    a = a
    b = b
    c = c
    Validators = {v1, v2}
    Windows = {w1}
    Items = {a, b}
    Requests = {r1, r2}
    Sweepers = {s1, s2}
    WindowOf <- MCWindowOf
    Conflicted <- MCConflicted
    MaxConcurrent = 1
    MaxClaims <- MCMaxClaims
    MaxDisputes = 1
    None = None
INVARIANTS MissedOnce
PROPERTIES AbandonedReturns
CHECK_DEADLOCK FALSE
