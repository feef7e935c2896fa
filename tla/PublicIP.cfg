CONSTANTS
    Pools = {"dmz", "edge"}
    Privates = {"10.0.0.1", "10.0.0.2"}
    Descs = {"web"}
    IdsWith404 = {2}
    MisleadingErrors = TRUE
    MaxId = 6
    MaxFaults = 2
    MaxDrift = 1
    MaxEdits = 2
SPECIFICATION FairSpec
INVARIANTS TypeOK SuccessMapsNat
PROPERTIES ImplementsManagedObject NatKept NatConverges
CHECK_DEADLOCK FALSE
