CONSTANTS
    ControlPlanes = {1, 3}
    Workers = {1, 2}
    Versions = {"r1", "r2"}
    Configurations <- MCConfigurations
    Upgrades <- MCUpgrades
    Controllers <- MCControllers
    Decodings = {FALSE}
    MisleadingErrors = TRUE
    MaxImageId = 5
    MaxClusterId = 5
    MaxFaults = 1
    MaxBreaks = 1
    MaxDrift = 1
    MaxEdits = 2
SPECIFICATION Spec
INVARIANTS ErrorHasCause
CHECK_DEADLOCK FALSE
