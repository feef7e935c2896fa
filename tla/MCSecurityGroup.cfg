CONSTANTS
    Matches = {"ssh", "web"}
    Attrs = {"old", "new"}
    Configs <- MCConfigs
    IdsWith404 = {2}
    MisleadingErrors = TRUE
    MaxRuleId = 9
    MaxGroupId = 4
    MaxFaults = 1
    MaxDrift = 1
    MaxEdits = 2
SPECIFICATION FairSpec
INVARIANTS TypeOK SuccessMeansRealised
PROPERTIES ImplementsManagedObject KeptRulesStayUp ApplyConverges
CHECK_DEADLOCK FALSE
