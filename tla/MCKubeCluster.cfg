CONSTANTS
    ControlPlanes = {1, 3}
    Workers = {1, 2}
    Versions = {"r1", "r2"}
    Configurations <- MCConfigurations
    Upgrades <- MCUpgrades
    Controllers <- MCControllers
    Decodings = {TRUE, FALSE}
    MisleadingErrors = TRUE
    MaxImageId = 5
    MaxClusterId = 5
    MaxFaults = 1
    MaxBreaks = 1
    MaxDrift = 1
    MaxEdits = 2
SPECIFICATION FairSpec
INVARIANTS TypeOK SuccessIsDone
PROPERTIES ImplementsManagedObject NodeImagesKept KubeConverges
CHECK_DEADLOCK FALSE
