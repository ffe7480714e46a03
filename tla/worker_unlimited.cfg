\* scripts/ingest5.ts: no platform ends the invocation
SPECIFICATION Spec
CONSTANTS
    Jobs = {j1, j2}
    Workers = {w1, w2}
    MaxAttempts = 3
    AttemptCap = 3
    StaleAfter = 5
    Minute = 1
    BatchSize = 2
    MaxDuration = 7
    MaxFaults = 0
    NoJob = NoJob
SYMMETRY JobsAndWorkers
INVARIANT NeverProcessedTwice
