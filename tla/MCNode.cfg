CONSTANTS
    a = a  i = i  k = k  j = j  p = p  q = q  img = img  aux = aux  w = w  c8s = c8s
    n1 = n1  n2 = n2  n3 = n3  r1 = r1  r2 = r2  r3 = r3
    Ctr = {a, i, k, j}
    Sandbox = {p, q}
    SandboxOf <- MCSandboxOf
    Tagged = {i}
    Privileged = {j}
    Docs <- MCDocs
    Configs <- MCConfigs
    ImageOf <- MCImageOf
    Injected = {k, j}
    Requester = {k, j}
    Nonce = {n1, n2, n3}
    Req = {r1, r2, r3}
    None = None
    Scenes <- MCScenes
SPECIFICATION NodeSpec
INVARIANTS MarkerMeansClean LeafNamesItsPod StampTruthful
PROPERTIES AnswersComplete
CHECK_DEADLOCK FALSE
