SPECIFICATION FairSpec
CONSTANTS
    Jobs = {j1, j2}
    Workers = {w1, w2}
    MaxAttempts = 3
    AttemptCap = 3
    StaleAfter = 5
    Minute = 1
    BatchSize = 2
    MaxDuration = 1
    MaxFaults = 2
    NoJob = NoJob
INVARIANTS
    TypeOK
    Exclusive
    HolderOwnsRow
    SettledOnEvidence
PROPERTIES
    SettledStays
    ImplementsLeaseQueue
    Settles
