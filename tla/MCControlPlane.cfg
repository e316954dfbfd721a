SPECIFICATION ControlSpec
CONSTANTS
    Submitted <- MCSubmitted
    Attached <- MCAttached
    OtherSidecar <- MCOther
    Decoy = "decoy"
    Volume = {"x"}
    hasWorkloadClaimsEndpoint = TRUE
    None = None
    Slot = {s1, s2, s3}
    Owned = {s1}
    Excluded = {s3}
    LeafTTL = 3
    MaxFailures = 2
    NoConfig = NoConfig
    Workload = {w1, w2}
    WorkloadId = {i1, i2}
    Unnamable = Unnamable
    PortSet = {p1, p2}
    User = User
    MaxEdits = 2
    Nothing = Nothing
    HostNode = {n1, n2}
    PlatformPods <- MCPlatform
    ComponentDigest = "c"
    InstallLines <- MCInstallLines
    UninstallLines <- MCUninstallLines
    ClusterFacts <- MCFacts
    MaxCommands = 2
    MaxDrift = 1
    Tidy = TRUE
    Unset = Unset
   
PROPERTY ControllersConverge
CHECK_DEADLOCK FALSE
