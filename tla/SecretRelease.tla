----------------------------- MODULE SecretRelease -----------------------------
(***************************************************************************)
(* Secret release: the workload handler of internal/secrets, the sidecar   *)
(* client and get-secret's fetch loop, over the SecretStore.  Replicas of  *)
(* a workload race to create their secrets while the operator edits grants *)
(* and values, CDS restarts, replies are late or cut short, and pods turn  *)
(* into something their allowlist entry no longer describes.               *)
(*                                                                         *)
(* Challenges, tokens and their checks are CdsAttest's; here a request is  *)
(* its sandbox's.  A pass that fails is started again, by sidecar.Retry or *)
(* by the kubelet once Retry has given up.                                 *)
(***************************************************************************)
EXTENDS Integers, Sequences, FiniteSets

CONSTANTS Replica,                   \* a pod
          Path, Workload, Operator, MaxPaths, MaxPerHolder,
          Docs,                      \* entry -> [read, write], for entries with a grant
          Rid,                       \* numbers for the requests CDS serves at a time
          None, Nil,                 \* Nil: the value of a body that was cut short
          MaxMinted, MaxFaults,      \* bounds
          Scenes                     \* the situations to look at: see scene

(* A request in the handler, by stage; from "loaded" on it holds a policy.   *)
PodState == {"starting", "described", "foreign"}

Request ==
    [rep : Replica, op : {"read", "write"}, path : Path, stage : {"arrived"}, since : Nat, was : PodState] \union
    [rep : Replica, op : {"read", "write"}, path : Path, stage : {"loaded", "granted"}, since : Nat, was : PodState,
     doc : Docs]

(* get-secret refuses to start without a secret to fetch.                    *)
ASSUME ReleaseAssumption ==
    /\ None \notin Rid /\ None \notin Request
    /\ \A sc \in Scenes : sc.wanted \in [Replica -> Seq(Path) \ {<<>>}]

VARIABLES values, holders,           \* SecretStore
          minted,                    \* values generated or supplied so far
          docs,                      \* allowlists by version; the last is current
          pod,                       \* replica -> what the inventory's record amounts to
          bound,                     \* replicas whose sandbox has a ledger binding
          rep,                       \* replica -> get-secret's state
          req,                       \* request -> its state in the handler
          process,                   \* CDS processes so far
          replaced,                  \* history: paths the operator wrote in this process
          released,                  \* history: values released
          faults,
          scene                      \* who wants what, fixed

Store == INSTANCE SecretStore WITH Value <- 1 .. MaxMinted, Oversized <- {}

store == <<values, holders>>
cds == <<store, minted, process, replaced, released>>
vars == <<cds, docs, pod, bound, rep, req, faults, scene>>

EntryOf == scene.entryOf             \* replica -> the entry its containers match
Wanted == scene.wanted               \* replica -> sequence of paths

Doc == docs[Len(docs)]

Fresh == [pc |-> "get", got |-> <<>>, rid |-> None]

Init ==
    /\ scene \in Scenes
    /\ Store!SecretInit
    /\ minted = 0
    /\ \E d \in Docs : docs = <<d>>
    /\ pod = [r \in Replica |-> "starting"]
    /\ bound = {}
    /\ rep = [r \in Replica |-> Fresh]
    /\ req = [i \in Rid |-> None]
    /\ process = 0 /\ replaced = {} /\ released = {} /\ faults = 0

Fault == faults < MaxFaults /\ faults' = faults + 1

-------------------------------------------------------------------------------
(* get-secret. *)
PathOf(r) == Wanted[r][Len(rep[r].got) + 1]

Got(k, r, v) ==
    LET got == Append(k.got, [value |-> v, process |-> process])
    IN  [pc |-> IF Len(got) = Len(Wanted[r]) THEN "done" ELSE "get", got |-> got, rid |-> None]

(* Mutant: an empty path is never created. *)
fetchOneNeverCreates(k, r, status, v) ==
    CASE k.pc = "get" /\ status = 200 /\ v # Nil -> Got(k, r, v)
      [] k.pc = "post" /\ status = 201 -> Got(k, r, v)
      [] k.pc = "post" /\ status = 409 -> [k EXCEPT !.pc = "reget", !.rid = None]
      [] k.pc = "reget" /\ status = 200 -> Got(k, r, v)
      [] OTHER -> Fresh

(* What an answer does to fetchOne; any failure starts the whole set again.  *)
fetchOne(k, r, status, v) ==
    CASE k.pc = "get" /\ status = 200 /\ v # Nil -> Got(k, r, v)
      [] k.pc = "get" /\ status = 404 -> [k EXCEPT !.pc = "post", !.rid = None]
      [] k.pc = "post" /\ status = 201 -> Got(k, r, v)
      [] k.pc = "post" /\ status = 409 -> [k EXCEPT !.pc = "reget", !.rid = None]
      [] k.pc = "reget" /\ status = 200 -> Got(k, r, v)
      [] OTHER -> Fresh

Do(r) == \E i \in Rid :
    /\ rep[r].pc # "done" /\ rep[r].rid = None
    /\ req[i] = None /\ \A j \in Rid : j < i => req[j] # None
    /\ rep' = [rep EXCEPT ![r].rid = i]
    /\ req' = [req EXCEPT ![i] = [rep |-> r, op |-> IF rep[r].pc = "post" THEN "write" ELSE "read",
                                  path |-> PathOf(r), stage |-> "arrived",
                                  since |-> Len(docs), was |-> pod[r]]]
    /\ UNCHANGED <<cds, docs, pod, bound, faults>>

(* The client gives up on a request CDS goes on serving.                     *)
Timeout(r) ==
    /\ rep[r].rid # None /\ Fault
    /\ rep' = [rep EXCEPT ![r] = Fresh]
    /\ UNCHANGED <<cds, docs, pod, bound, req>>

-------------------------------------------------------------------------------
(* The handler.  Answer delivers to the client if it still waits.            *)
Answer(i, status, v) ==
    LET r == req[i].rep
    IN  /\ req' = [req EXCEPT ![i] = None]
        /\ rep' = IF rep[r].rid = i THEN [rep EXCEPT ![r] = fetchOne(@, r, status, v)] ELSE rep

(* authorize up to the policy: the binding, the token, then the allowlist.   *)
authorize(i) ==
    /\ req[i] # None /\ req[i].stage = "arrived"
    /\ IF req[i].rep \in bound
       THEN /\ req' = [req EXCEPT ![i] = [rep |-> @.rep, op |-> @.op, path |-> @.path, stage |-> "loaded",
                                          since |-> @.since, was |-> @.was, doc |-> Doc]]
            /\ UNCHANGED rep
       ELSE Answer(i, 403, Nil)
    /\ UNCHANGED <<cds, docs, pod, bound, faults>>

(* Mutant: a pod that also ran something foreign still matches. *)
MatchWorkloadForeign(r, doc) == pod[r] # "starting" /\ EntryOf[r] \in DOMAIN doc

MatchWorkload(r, doc) == pod[r] = "described" /\ EntryOf[r] \in DOMAIN doc

(* ... then the inventory, and the entry it matches in that allowlist.       *)
workloadContainers(i) ==
    /\ req[i] # None /\ req[i].stage = "loaded"
    /\ IF MatchWorkload(req[i].rep, req[i].doc)
       THEN req' = [req EXCEPT ![i].stage = "granted"] /\ UNCHANGED rep
       ELSE Answer(i, 403, Nil)
    /\ UNCHANGED <<cds, docs, pod, bound, faults>>

Grant(i) == req[i].doc[EntryOf[req[i].rep]]

Allows(i) == req[i].path \in IF req[i].op = "read" THEN Grant(i).read ELSE Grant(i).write

(* The value leaves CDS; its body may be cut short on the way.               *)
writeValue(i, status, v) ==
    /\ released' = released \union
          {[rep |-> req[i].rep, op |-> req[i].op, path |-> req[i].path, value |-> v,
            since |-> req[i].since, until |-> Len(docs), was |-> req[i].was]}
    /\ \/ Answer(i, status, v) /\ UNCHANGED faults
       \/ Answer(i, status, Nil) /\ Fault

serveGet(i) ==
    /\ req[i] # None /\ req[i].stage = "granted" /\ req[i].op = "read"
    /\ IF Allows(i) /\ Store!Held(req[i].path)
       THEN writeValue(i, 200, values[req[i].path].value)
       ELSE Answer(i, 404, Nil) /\ UNCHANGED <<released, faults>>
    /\ UNCHANGED <<store, minted, process, replaced, docs, pod, bound>>

Conflict(i) == Answer(i, 409, Nil) /\ UNCHANGED <<released, faults>>

(* Mutant: the result of PutIfAbsent is not looked at. *)
ExistsIgnored(i) == FALSE

Exists(i) == Store!Held(req[i].path)

servePost(i) ==
    /\ req[i] # None /\ req[i].stage = "granted" /\ req[i].op = "write"
    /\ LET p == req[i].path
           h == EntryOf[req[i].rep]
           v == minted + 1
       IN  \/ /\ ~Allows(i)
              /\ Answer(i, 404, Nil) /\ UNCHANGED <<store, minted, released, faults>>
           \/ /\ Allows(i) /\ Exists(i)
              /\ Conflict(i) /\ UNCHANGED <<store, minted>>
           \/ /\ Allows(i) /\ ~Exists(i) /\ ~Store!checkRoom(h)
              /\ Answer(i, 507, Nil) /\ UNCHANGED <<store, minted, released, faults>>
           \/ /\ Allows(i) /\ ~Exists(i) /\ Store!checkRoom(h) /\ v <= MaxMinted
              /\ Store!PutIfAbsent(p, v, h) /\ minted' = v
              /\ writeValue(i, 201, v)
    /\ UNCHANGED <<process, replaced, docs, pod, bound>>

-------------------------------------------------------------------------------
(* Everybody else. *)
create(p) ==
    /\ minted < MaxMinted /\ Fault
    /\ Store!PutIfAbsent(p, minted + 1, Operator)
    /\ minted' = minted + 1
    /\ UNCHANGED <<process, replaced, released, docs, pod, bound, rep, req>>

replace(p) ==
    /\ minted < MaxMinted /\ Fault
    /\ Store!Put(p, minted + 1)
    /\ minted' = minted + 1
    /\ replaced' = replaced \union {p}
    /\ UNCHANGED <<process, released, docs, pod, bound, rep, req>>

Edit(d) ==
    /\ Fault
    /\ docs' = Append(docs, d)
    /\ UNCHANGED <<cds, pod, bound, rep, req>>

(* The main containers come up; later the pod may admit something foreign,   *)
(* which its record then keeps.                                              *)
PodChanges(r) ==
    /\ \/ pod[r] = "starting" /\ pod' = [pod EXCEPT ![r] = "described"] /\ UNCHANGED faults
       \/ pod[r] = "described" /\ pod' = [pod EXCEPT ![r] = "foreign"] /\ Fault
    /\ UNCHANGED <<cds, docs, bound, rep, req>>

(* get-cert obtains or renews a certificate of the running CDS.              *)
Renew(r) ==
    /\ r \notin bound
    /\ bound' = bound \union {r}
    /\ UNCHANGED <<cds, docs, pod, rep, req, faults>>

CdsRestart ==
    /\ Fault
    /\ Store!SecretRestart
    /\ process' = process + 1 /\ replaced' = {} /\ bound' = {}
    /\ req' = [i \in Rid |-> None]
    /\ rep' = [r \in Replica |-> IF rep[r].rid = None THEN rep[r] ELSE Fresh]
    /\ UNCHANGED <<minted, released, docs, pod>>

Handler(i) == authorize(i) \/ workloadContainers(i) \/ serveGet(i) \/ servePost(i)

Next ==
    /\ \/ \E r \in Replica : Do(r) \/ Timeout(r) \/ PodChanges(r) \/ Renew(r)
       \/ \E i \in Rid : authorize(i) \/ workloadContainers(i) \/ serveGet(i) \/ servePost(i)
       \/ \E p \in Path : create(p) \/ replace(p)
       \/ \E d \in Docs : Edit(d)
       \/ CdsRestart
    /\ UNCHANGED scene

(* The server answers, the sidecar goes on, the certificate sidecar renews.  *)
Fairness ==
    /\ \A i \in Rid : WF_vars(Handler(i) /\ UNCHANGED scene)
    /\ \A r \in Replica : WF_vars(Do(r) /\ UNCHANGED scene) /\ WF_vars(Renew(r) /\ UNCHANGED scene)

ReleaseSpec == Init /\ [][Next]_vars

Spec == ReleaseSpec /\ Fairness

-------------------------------------------------------------------------------
(* internal/cmds/getsecret/run.go:133: replicas agree.  Whatever a replica   *)
(* holds for a path, however its create raced with others' and its own late  *)
(* ones, is what the store holds there, until CDS restarts or the operator   *)
(* replaces it.                                                              *)
HoldsTheStored ==
    \A r \in Replica : \A n \in DOMAIN rep[r].got :
        LET g == rep[r].got[n]
            p == Wanted[r][n]
        IN  g.value # Nil /\ g.process = process /\ p \notin replaced
                => Store!Held(p) /\ values[p].value = g.value

(* handler.go:312: a value leaves CDS only to a pod whose entry granted that *)
(* operation on that path at some moment of the request, and never to a pod  *)
(* that had already run something foreign when it asked.  A create hands out *)
(* only what it minted (handler.go:243), so nothing that was there before is *)
(* ever learnt through a write grant.                                        *)
ReleaseIsGranted ==
    /\ \A x \in released :
          /\ x.was # "foreign"
          /\ \E n \in x.since .. x.until :
                /\ EntryOf[x.rep] \in DOMAIN docs[n]
                /\ LET g == docs[n][EntryOf[x.rep]]
                   IN  x.path \in IF x.op = "read" THEN g.read ELSE g.write
    /\ \A x, y \in released :
          x.op = "write" /\ y.op = "write" /\ x.value = y.value => x = y

(* handler.go and run.go: what reaches a replica was granted to it, and is   *)
(* what every other replica gets: HoldsTheStored and ReleaseIsGranted.       *)
SecretsAgree == HoldsTheStored /\ ReleaseIsGranted

(* sidecar.go:109: once the grant, the pod and the store stay as they should *)
(* be, every replica gets its whole set, through lost races, late replies    *)
(* and restarts.                                                             *)
Servable(r) ==
    /\ pod[r] = "described" /\ EntryOf[r] \in DOMAIN Doc
    /\ \A n \in DOMAIN Wanted[r] : LET p == Wanted[r][n] IN
          /\ p \in Doc[EntryOf[r]].read \intersect Doc[EntryOf[r]].write
          /\ Store!Held(p) \/ Store!checkRoom(EntryOf[r])

EventuallyFetched == \A r \in Replica : <>[]Servable(r) => <>(rep[r].pc = "done")

(* run.go:109 "All-or-nothing: a partial set is not written": every value of *)
(* a complete set is one CDS released.                                       *)
NothingMissing ==
    \A r \in Replica : rep[r].pc = "done" => \A n \in DOMAIN rep[r].got : rep[r].got[n].value # Nil
===============================================================================
