SPECIFICATION Spec
CONSTANTS
    Queries = {q1, q2, q3}
    MaxEntries = 2
    Ttl = 1
    Clients = {c1, c2}
    Window = 2
    MaxRequests = 2
    MaxTracked = 1
    Requests = {r1, r2}
    CallTimeout = 1
    RoundTrip = 1
    MaxDuration = 2
INVARIANTS
    TypeOK
    CacheKeepsItsLimit
    AnswersAreFresh
PROPERTIES
    LimiterIsExact
SYMMETRY Symmetry
