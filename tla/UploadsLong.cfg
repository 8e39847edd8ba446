\* A source of more rows than one run of the parse may store.
SPECIFICATION FairSpec
CONSTANTS
    LastRow = 2
    BadRows <- NoBadRow
    ChunkSize = 1
    RowsPerRun = 1
    MaxAttempts = 2
    Requests = {q1}
    MaxRequests = 3
    MaxDeaths = 0
PROPERTIES SourceIsParsed
CHECK_DEADLOCK FALSE
