SPECIFICATION FairSpec
CONSTANTS
    Kinds = {"affinity_group", "ipam_lease", "ipam_pool", "lb_certificate",
             "vpc_load_balancer", "public_ip_pool", "storage_backend", "storage_volume"}
    Wants <- AllWants
    HalfRange = 4
    Shrinking = {TRUE, FALSE}
    Omitting = {TRUE, FALSE}
    Decodings = {TRUE, FALSE}
    IdsWith404 = {1}
    MisleadingErrors = TRUE
    MaxId = 3
    MaxFaults = 2
    MaxDrift = 1
    MaxEdits = 1
INVARIANTS
    TypeOK
    SuccessRealised
PROPERTIES
    VolumeNeverShrunk
    ImplementsManagedObject
    ResourceConverges
