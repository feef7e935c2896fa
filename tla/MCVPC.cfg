CONSTANTS
    CIDRs = {"10.0", "10.1"}
    Names = {"blue", "green"}
    Matches = {"ssh", "web"}
    Wants <- MCWants
    MisleadingErrors = TRUE
    MaxItemId = 16
    MaxVPCId = 6
    MaxFaults = 1
    MaxDrift = 1
    MaxEdits = 2
SPECIFICATION FairSpec
INVARIANTS TypeOK TailEditsRealised
PROPERTIES ImplementsManagedObject OnlySavedTailRemoved SizesConverge
CHECK_DEADLOCK FALSE
