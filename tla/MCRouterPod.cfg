SPECIFICATION FairSpec
CONSTANTS
    Keys = {1, 2}
    MaxCds = 2
    MaxGetCertCrashes = 2
    LeafLife = 4
    RenewInterval = 3
    CAWatch = TRUE
    Absent = Absent
    MaxAcmeCrashes = 2
INVARIANTS
    OutputsInOrder

    
