SPECIFICATION Spec
CONSTANTS
    Null = Null
    Paris = Paris
    Rome = Rome
    Patterns <- Facility
    Records <- Roadside
    Workers = {w1}
    Evidence <- Results
    Schemas <- Fresh
    MaxRows = 3
INVARIANT
    UpsertIdentity
