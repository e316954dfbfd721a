SPECIFICATION DoorSpec
CONSTANTS
    Keys = {1, 2}
    MaxCds = 2
    MaxGetCertCrashes = 1
    LeafLife = 3
    RenewInterval = 2
    CAWatch = TRUE
    Absent = Absent
    Recheck = 1
    Desks = {"attest-pq", "attest-lb", "upstream"}
    Client = {1, 2, 3}
    Session = {1, 2, 3, 4}
    maxSessions = 3
    maxSessionsPerClient = 3
    minShare = 2
    SessionTTL = 1
    SessionMaxAge = 2
    replayWindow = 2
    Thread = {t1, t2}
    MaxAsks = 2
    MaxSeq = 4
    MaxOdd = 2
    Guests <- MCGuests
    KcConfigs <- MCKcConfigs
    WorkloadImage = {"w"}
    Stray <- MCStray
    MaxGuests = 2
    MaxFresh = 4
    None = None
INVARIANTS
    
    TunnelOnce
    
    KubeconfigEarned

    
