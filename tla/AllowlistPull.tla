---------------------------- MODULE AllowlistPull -----------------------------
(***************************************************************************)
(* How a written allowlist reaches the enforcers: the policy store and the *)
(* pull of the NRI plugin on every node (internal/cmds/nri-image-policy:   *)
(* policyStore in plugin.go, pullInitial and runPullLoop in main.go)       *)
(* against GET /allowlist of CDS (internal/allowlist/handler.go), which    *)
(* answers If-None-Match from one store read and loads the document in a   *)
(* second.  Responses may be lost; CDS and the plugins restart; a CDS Pod  *)
(* without a persistent volume comes back with a new database.             *)
(***************************************************************************)
EXTENDS AllowlistStore

CONSTANTS Node,
          MaxRetries,      \* allowlistApiMaxRetries
          MaxRestarts      \* bound on restarts of CDS and of each plugin

ASSUME PullAssumption ==
    /\ MaxRetries \in Nat \ {0}
    /\ MaxRestarts \in Nat

VARIABLES served,          \* node -> policySnapshot: [doc, version]
          etag,            \* node -> version of the last ETag applied; 0 is ""
          attempts,        \* node -> failed attempts of pullInitial
          ready,           \* node -> past pullInitial, in runPullLoop
          conn,            \* node -> the one request it has in flight
          restarts,        \* CDS and node restarts so far
          persistent       \* cds.persistence.enabled, fixed at the installation

nodeVars == <<served, etag, attempts, ready, persistent>>
pullVars == <<storeVars, nodeVars, conn, restarts>>

NoConn == [at |-> "idle"]
EmptyDoc == <<>>
Boot == [doc |-> EmptyDoc, version |-> 0]     \* newPolicyStore

PullInit ==
    /\ StoreInit
    /\ served = [n \in Node |-> Boot]
    /\ etag = [n \in Node |-> 0]
    /\ attempts = [n \in Node |-> 0]
    /\ ready = [n \in Node |-> FALSE]
    /\ conn = [n \in Node |-> NoConn]
    /\ persistent \in BOOLEAN
    /\ restarts = [cds |-> 0, node |-> [n \in Node |-> 0]]

SetConn(n, c) == conn' = [conn EXCEPT ![n] = c]

(* Fetch: pullInitial sends no If-None-Match, runPullLoop the last ETag.     *)
Ask(n) ==
    /\ conn[n] = NoConn
    /\ SetConn(n, [at |-> "asked", match |-> IF ready[n] THEN etag[n] ELSE 0])
    /\ UNCHANGED <<storeVars, nodeVars, restarts>>

(* Mutant: any If-None-Match is answered 304. *)
HandleListAlways304(n) ==
    /\ conn[n].at = "asked"
    /\ SetConn(n, IF conn[n].match # 0 THEN [at |-> "304"] ELSE [at |-> "loading"])
    /\ UNCHANGED <<storeVars, nodeVars, restarts>>

(* HandleList, first store read: 304 on a matching version.                  *)
HandleListChecks(n) ==
    /\ conn[n].at = "asked"
    /\ SetConn(n, IF conn[n].match # 0 /\ conn[n].match = version
                  THEN [at |-> "304"] ELSE [at |-> "loading"])
    /\ UNCHANGED <<storeVars, nodeVars, restarts>>

(* HandleList, second store read: the document and its version together.     *)
HandleListLoads(n) ==
    /\ conn[n].at = "loading"
    /\ SetConn(n, [at |-> "200", doc |-> entries, version |-> version])
    /\ UNCHANGED <<storeVars, nodeVars, restarts>>

(* Mutant: a rolled-back document is applied. *)
appliesAny(n, v) == TRUE

(* policyStore.apply refuses a version below the applied one.                *)
applies(n, v) == v >= served[n].version

(* 304 leaves everything; a refused document leaves the ETag too, so the     *)
(* next poll fetches again.                                                  *)
Receive(n) ==
    /\ SetConn(n, NoConn)
    /\ \/ /\ conn[n].at = "304"
          /\ UNCHANGED nodeVars
       \/ /\ conn[n].at = "200"
          /\ ready' = [ready EXCEPT ![n] = TRUE]
          /\ UNCHANGED <<attempts, persistent>>
          /\ IF applies(n, conn[n].version)
             THEN /\ served' = [served EXCEPT ![n] = [doc |-> conn[n].doc, version |-> conn[n].version]]
                  /\ etag' = [etag EXCEPT ![n] = conn[n].version]
             ELSE UNCHANGED <<served, etag>>
    /\ UNCHANGED <<storeVars, restarts>>

(* A lost or late response.  pullInitial gives up after MaxRetries and the   *)
(* plugin serves the base allowlist, retrying in the loop with no ETag.      *)
Fail(n) ==
    /\ conn[n] # NoConn
    /\ SetConn(n, NoConn)
    /\ attempts' = [attempts EXCEPT ![n] = IF ready[n] THEN @ ELSE @ + 1]
    /\ ready' = [ready EXCEPT ![n] = (@ \/ attempts[n] + 1 >= MaxRetries)]
    /\ UNCHANGED <<storeVars, served, etag, persistent, restarts>>

(* The snapshot, the ETag and the high-water mark are process-local.         *)
NodeRestart(n) ==
    /\ restarts.node[n] < MaxRestarts
    /\ restarts' = [restarts EXCEPT !.node[n] = @ + 1]
    /\ served' = [served EXCEPT ![n] = Boot]
    /\ etag' = [etag EXCEPT ![n] = 0]
    /\ attempts' = [attempts EXCEPT ![n] = 0]
    /\ ready' = [ready EXCEPT ![n] = FALSE]
    /\ SetConn(n, NoConn)
    /\ UNCHANGED <<storeVars, persistent>>

(* Requests the old process had not answered fail with its connections.      *)
CdsRestart ==
    /\ restarts.cds < MaxRestarts
    /\ restarts' = [restarts EXCEPT !.cds = @ + 1]
    /\ (version < MaxVersion /\ Reopen) \/ (~persistent /\ Recreate)
    /\ conn' = [n \in Node |-> IF conn[n].at \in {"asked", "loading"}
                               THEN [at |-> "broken"] ELSE conn[n]]
    /\ UNCHANGED nodeVars

PullWrite == Write /\ UNCHANGED <<nodeVars, conn, restarts>>

PullNext ==
    \/ PullWrite \/ CdsRestart
    \/ \E n \in Node :
          \/ Ask(n) \/ HandleListChecks(n) \/ HandleListLoads(n)
          \/ Receive(n) \/ Fail(n) \/ NodeRestart(n)

PullSpec == PullInit /\ [][PullNext]_pullVars

-------------------------------------------------------------------------------
(* plugin.go:88: within one plugin process the enforced version never goes   *)
(* back, even when CDS returns with a younger database.                      *)
NeverRollsBack ==
    [][\A n \in Node : restarts'.node[n] = restarts.node[n] =>
          served'[n].version >= served[n].version]_pullVars

(* policyStore, handler.go:36: with a persistent database a node that has    *)
(* applied version v enforces exactly the document CDS committed as v, and   *)
(* a 304 is answered only to a node that holds the current document.         *)
EnforcesCommitted ==
    persistent => \A n \in Node :
        /\ served[n].version <= version
        /\ served[n].version = version => served[n].doc = entries
        /\ conn[n].at = "304" => etag[n] > 0
===============================================================================
