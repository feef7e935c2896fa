CONSTANTS
    Groups = {"sg", "affinity"}
    Images = {"debian", "alpine"}
    Wants <- MCWants
    MisleadingErrors = TRUE
    MissingVM = {"error", "empty"}
    MaxVMId = 7
    MaxFaults = 1
    MaxDrift = 1
    MaxEdits = 2
SPECIFICATION FairSpec
INVARIANTS TypeOK SuccessHasStatus
PROPERTIES ImplementsManagedObject DetachedBeforeDestroyed VMConverges
CHECK_DEADLOCK FALSE
