CONSTANTS
    Resources = {"pinned", "any"}
    Arch <- MCArch
    Version <- MCVersion
    Publications <- MCPublications
    Preexisting <- MCPreexisting
    IdsWith404 = {3}
    MaxId = 7
    MaxFaults = 1
    MaxDrift = 1
    MaxEdits = 2
SPECIFICATION FairSpec
INVARIANTS TypeOK SavedServes OwnersDownloaded DownloadsAccounted
PROPERTIES OthersKernelsSurvive KernelsConverge
CHECK_DEADLOCK FALSE
