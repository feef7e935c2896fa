CONSTANTS
    CIDRs = {"10.0"}
    Names = {"blue"}
    Matches = {"ssh", "web", "dns"}
    Wants <- MCMiddleOut
    MisleadingErrors = FALSE
    MaxItemId = 6
    MaxVPCId = 1
    MaxFaults = 0
    MaxDrift = 0
    MaxEdits = 1
SPECIFICATION Spec
INVARIANTS UpdateRemovesWhatThePlanDropped
CHECK_DEADLOCK FALSE
