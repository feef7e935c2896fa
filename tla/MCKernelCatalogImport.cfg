CONSTANTS
    Resources = {"r1", "r2"}
    Entries = {"e1", "e404"}
    Refusals <- MCRefusals
    Staleness = {TRUE, FALSE}
    IdsWith404 = {"e404"}
    MaxFaults = 1
    MaxDrift = 1
    MaxEdits = 1
SPECIFICATION FairSpec
INVARIANTS TypeOK KernelsAccounted FailureIsReal
PROPERTIES CatalogConverges
CHECK_DEADLOCK FALSE
