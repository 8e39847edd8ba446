\* Two jobs of different claim-plan entries, two workers, two producers.
SPECIFICATION FairSpec
CONSTANTS
    j1 = j1
    j2 = j2
    Jobs = {j1, j2}
    Workers = {w1, w2}
    Producers = {p1, p2}
    NoJob = NoJob
    MaxAttempts = 2
    Plans = 2
    LeaseClass <- TwoClasses
    MaxLapses = 1
INVARIANTS OneHolder ArmKept
PROPERTIES DeadOnlyWhenSpent ImplementsBoard EveryJobSettles EveryArmRuns
