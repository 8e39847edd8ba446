\* Two validators and two requests in flight on two windows, with a dispute.
SPECIFICATION Spec
CONSTANTS
    v1 = v1
    v2 = v2
    w1 = w1
    w2 = w2
    a = a
    b = b
    c = c
    Validators = {v1, v2}
    Windows = {w1, w2}
    Items = {a, b, c}
    Requests = {r1, r2}
    Sweepers = {s1}
    WindowOf <- MCWindowOf
    Conflicted <- MCConflicted
    MaxConcurrent = 1
    MaxClaims <- MCMaxClaims
    MaxDisputes = 1
    None = None
INVARIANTS CapacityHeld NoSilentHold RecordAgrees DecidedIsSettled
PROPERTIES DecisionStands
CHECK_DEADLOCK FALSE
SYMMETRY Symmetric
