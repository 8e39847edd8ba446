\* Two requests in flight, a source of three rows with a bad one.
SPECIFICATION FairSpec
CONSTANTS
    LastRow = 3
    BadRows <- SecondRow
    ChunkSize = 1
    RowsPerRun = 2
    MaxAttempts = 2
    Requests = {q1, q2}
    MaxRequests = 3
    MaxDeaths = 1
INVARIANTS IngestAgrees HonestEnd ReviewIsWhole
PROPERTIES RevokedIsFrozen SourceIsStored IngestEnds
CHECK_DEADLOCK FALSE
