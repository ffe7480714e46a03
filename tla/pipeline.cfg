SPECIFICATION FairSpec
CONSTANTS
    h1 = h1
    h2 = h2
    Jobs = {h1, h2}
    Pages <- TwoPages
    Runs = {r1}
    Callers = {c1, c2}
    MaxRequested = 2
    MaxDuplicates = 1
    MaxFaults = 1
    NoRun = NoRun
INVARIANTS
    TypeOK
    RowsAddUp
    WorkBound
    SuccessesAreReal
    SummaryIsTrue
PROPERTIES
    RunAdvances
    RunEnds
