SPECIFICATION Spec
CONSTANTS
    c1 = c1
    c2 = c2
    c3 = c3
    i1 = i1
    i2 = i2
    Calls = {c1, c2, c3}
    Instances = {i1, i2}
    Home <- TwoInstances
    Providers = {"nvidia_key_2", "dataforseo"}
    Quota = 3
    WarnAt = 2
    HardStop = 5
    CacheTtl = 1
    Attempts = 2
    Threshold = 2
    Cooldown = 1
    MaxFaults = 1
    SentCap = 8
INVARIANTS
    TypeOK
    SpendBound
    QuotaBound
    SentAccounted
    ClosedBelowThreshold
