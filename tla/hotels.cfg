SPECIFICATION Spec
CONSTANTS
    Null = Null
    Paris = Paris
    Rome = Rome
    Patterns <- Facility
    Records <- Namesakes
    Workers = {w1, w2}
    Evidence <- Results
    Schemas <- AnyTable
    MaxRows = 2
INVARIANTS
    TypeOK
    OneRowPerHotel
    DoneHotelsAreStored
    SummaryFitsFacts
    FactsAreEvidenced
    RankedByEvidence
PROPERTIES
    DoneRowsStay
SYMMETRY AnyWorker
