SPECIFICATION MeshSpec
CONSTANTS
    x = x
    y = y
    IP = {x, y}
    Pods <- MCPods
    Limits = {1, 2}
    Scenes <- MCScenes
    Absent = Absent
    Conn = {c1, c2, c3}
    Source = {s1, s2}
    MaxConns = 2
    MaxConnsPerSrc = 1
    NoConn = NoConn
    Pod = {p, q}
    Address = {x, y}
    LocalAddress = {x}
    MaxQueue = 2
    NoEntry = NoEntry
    BundleOptions <- MCBundles
    AgentName = {"a2"}
    MaxBundles = 1
    MaxFaults = 1
    NoDoc = NoDoc
INVARIANTS NoGrandfathered SlotsBalanced DrainsAll RoutesCurrent RoleIsStaged
PROPERTIES GuardHeals
CHECK_DEADLOCK FALSE
