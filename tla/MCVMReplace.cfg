CONSTANTS
    Groups = {"sg", "affinity"}
    Images = {"debian", "alpine"}
    Wants <- MCWants
    MisleadingErrors = FALSE
    MissingVM = {"error", "empty"}
    MaxVMId = 4
    MaxFaults = 0
    MaxDrift = 0
    MaxEdits = 1
SPECIFICATION Spec
PROPERTIES DeletedOnlyWhenForced
CHECK_DEADLOCK FALSE
