CONSTANTS
    a = a  b = b  api = api  db = db  w = w  x = x
    Replica = {a, b}
    Path = {api, db}
    Workload = {w, x}
    Operator = Operator
    MaxPaths = 2
    MaxPerHolder = 1
    Docs <- MCDocs
    Scenes <- MCScenes
    Rid = {1, 2}
    None = None
    Nil = Nil
    MaxMinted = 6
    MaxFaults = 1
SPECIFICATION Spec
INVARIANT NothingMissing
CHECK_DEADLOCK FALSE
