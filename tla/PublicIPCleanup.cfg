CONSTANTS
    Pools = {"dmz", "edge"}
    Privates = {"10.0.0.1", "10.0.0.2"}
    Descs = {"web"}
    IdsWith404 = {2}
    MisleadingErrors = TRUE
    MaxId = 6
    MaxFaults = 1
    MaxDrift = 0
    MaxEdits = 0
SPECIFICATION Spec
INVARIANTS FailedNatCleansUp
CHECK_DEADLOCK FALSE
