SPECIFICATION Spec
CONSTANTS
    Queries = {q1, q2, q3}
    MaxEntries = 2
    Ttl = 2
    Clients = {c1, c2}
    Window = 2
    MaxRequests = 2
    MaxTracked = 1
    Requests = {r1, r2}
    CallTimeout = 3
    RoundTrip = 0
    MaxDuration = 5
INVARIANT
    SearchAlwaysProceeds
SYMMETRY Symmetry
