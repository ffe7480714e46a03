SPECIFICATION FairSpec
CONSTANTS
    Tabs = {t1, t2}
    Runs = {1, 2}
    Slots = {1, 2}
    NoTab = NoTab
    NoRun = NoRun
    Free = Free
INVARIANTS
    TypeOK
    ButtonTellsLoop
    OnlyLateStepsOverlap
PROPERTIES
    ImplementsRunDriver
    SignedOutStops
