\* Two dispatchers, two channels, two notifications, one fault.  The
\* dispatchers are alike, so the one that meets the fault may be fixed.
SPECIFICATION FairSpec
CONSTANTS
    email = email
    slack = slack
    d1 = d1
    d2 = d2
    LastNote = 2
    Channels = {email, slack}
    Unreliable = {slack}
    Dispatchers = {d1, d2}
    Mortal = {d1}
    MaxAttempts = 2
    MaxFaults = 1
INVARIANTS OneSender SentOnce DoneIsSettled
PROPERTIES InOrder IntentsSettle
CHECK_DEADLOCK FALSE
