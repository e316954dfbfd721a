CONSTANTS
    Challenge = {c1, c2, c3, c4, c5, c6}
    MaxChallenges = 2
    ChallengeTTL = 2
    Sandbox = {s1, s2, s3}
    Host = {h1, h2}
    NoHost = NoHost
    BindingTTL = 2
    MaxBindings = 2
    Path = {p1, p2, p3, p4}
    Value = {v1, v2, big}
    Oversized = {big}
    Workload = {w1, w2}
    Operator = Operator
    MaxPaths = 3
    MaxPerHolder = 2
    MaxTime = 4
    Invalid = Invalid  NoEvidence = NoEvidence  NoValues = NoValues  NoSource = NoSource
    NoGrant = NoGrant  NoName = NoName  Digest = Digest
    x = x  y = y  dest = dest  data = data  hostPath = hostPath  name = name
    Injected <- MCInjected
    DataDestination <- MCData
    Argvs <- MCArgvs
    RawArgvPolicies <- MCArgvPolicies
    RawMountPolicies <- MCMountPolicies
    RawEnvPolicies <- MCEnvPolicies
    MountLists <- MCMountLists
    EnvLists <- MCEnvLists
    n1 = n1  e1 = e1  e2 = e2
    NoDoc = NoDoc
    Name <- MCName
    Entry <- MCEntry
    Digests <- MCDigests
    Seed <- MCSeed
    Request = {r1, r2}
    Node = {a}
    MaxVersion = 4
    MaxRetries = 2
    MaxRestarts = 1
SPECIFICATION FairSpec
INVARIANTS TypeOK StoresBounded PromiseKept Accounting LaunchIsPinned
    IndexMatchesEntries NeverStale EnforcesCommitted
PROPERTIES ImplementsNonceStore ImplementsLease FirstWriteWins NeverRollsBack Converges
