SPECIFICATION Spec
CONSTANTS
    h1 = h1
    h2 = h2
    Jobs = {h1, h2}
    Pages <- TwoPages
    Runs = {r1, r2}
    Callers = {c1, c2}
    MaxRequested = 1
    MaxDuplicates = 0
    MaxFaults = 0
    NoRun = NoRun
INVARIANT OneActiveRun
