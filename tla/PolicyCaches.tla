----------------------------- MODULE PolicyCaches -----------------------------
(***************************************************************************)
(* The two in-process caches in front of the allowlist store:              *)
(*   - policySnapshotCache (internal/cmds/cds/policysnapshot.go), read by  *)
(*     /attest, tagged with the store's generation, its lock held from the *)
(*     generation read to the publication;                                 *)
(*   - CachedPolicy (internal/secrets/policy.go), read by /secrets, tagged *)
(*     with the store's version, which is read before its lock is taken.   *)
(* Operator writes land between any two store reads of a request.          *)
(***************************************************************************)
EXTENDS AllowlistStore

CONSTANTS Request,         \* the goroutines serving requests
          NoDoc            \* a nil snapshot

VARIABLES snap,            \* policySnapshotCache: [doc, version, gen]
          lock,            \* holder of policySnapshotCache.mu
          pol,             \* CachedPolicy: [doc, version]
          req              \* request -> where it is, what it read, what it got

cacheVars == <<snap, lock, pol, req>>
cachesVars == <<storeVars, cacheVars>>

NoLock == "free"

ASSUME RequestAssumption == NoLock \notin Request

(* began is a history variable: the store version when the request started. *)
Idle == [at |-> "idle", read |-> 0, began |-> 0, doc |-> NoDoc, version |-> 0]

CachesInit ==
    /\ StoreInit
    /\ snap = [doc |-> NoDoc, version |-> 0, gen |-> 0]
    /\ lock = NoLock
    /\ pol = [doc |-> NoDoc, version |-> 0]
    /\ req = [r \in Request |-> Idle]

At(r, where) == req[r].at = where

Answer(r, doc, v) ==
    req' = [req EXCEPT ![r] = [@ EXCEPT !.at = "done", !.doc = doc, !.version = v]]

Forget(r) == At(r, "done") /\ req' = [req EXCEPT ![r] = Idle]
             /\ UNCHANGED <<storeVars, snap, lock, pol>>

-------------------------------------------------------------------------------
(* policySnapshotCache.snapshot: take the lock and read the generation ...   *)
SnapshotReadsGeneration(r) ==
    /\ At(r, "idle") /\ lock = NoLock
    /\ lock' = r
    /\ req' = [req EXCEPT ![r] = [Idle EXCEPT !.at = "snap", !.read = gen, !.began = version]]
    /\ UNCHANGED <<storeVars, snap, pol>>

(* ... then reuse the memo or load the document and its version in one read, *)
(* publish it under the generation read BEFORE the load, and unlock.         *)
(* LoadAll may fail, which publishes nothing.                                *)
SnapshotLoads(r) ==
    /\ At(r, "snap") /\ lock = r
    /\ lock' = NoLock
    /\ \/ /\ snap.doc # NoDoc /\ snap.gen = req[r].read
          /\ Answer(r, snap.doc, snap.version)
          /\ UNCHANGED snap
       \/ /\ ~(snap.doc # NoDoc /\ snap.gen = req[r].read)
          /\ \/ /\ snap' = [doc |-> entries, version |-> version, gen |-> req[r].read]
                /\ Answer(r, entries, version)
             \/ /\ req' = [req EXCEPT ![r] = Idle]
                /\ UNCHANGED snap
    /\ UNCHANGED <<storeVars, pol>>

-------------------------------------------------------------------------------
(* CachedPolicy.Allowlist: read the version without the lock ...             *)
AllowlistReadsVersion(r) ==
    /\ At(r, "idle")
    /\ req' = [req EXCEPT ![r] = [Idle EXCEPT !.at = "pol", !.read = version, !.began = version]]
    /\ UNCHANGED <<storeVars, snap, lock, pol>>

(* Mutant: any cached document is reused. *)
HitAny(r) == pol.doc # NoDoc

(* ... then, under the lock, reuse the cached document or load and cache it  *)
(* under the version it was loaded with.  The comparison reads nothing that  *)
(* another goroutine may change, so it is one step with the load.            *)
Hit(r) == pol.doc # NoDoc /\ pol.version = req[r].read

AllowlistLoads(r) ==
    /\ At(r, "pol")
    /\ \/ Hit(r) /\ Answer(r, pol.doc, pol.version) /\ UNCHANGED pol
       \/ /\ ~Hit(r)
          /\ \/ pol' = [doc |-> entries, version |-> version] /\ Answer(r, entries, version)
             \/ req' = [req EXCEPT ![r] = Idle] /\ UNCHANGED pol
    /\ UNCHANGED <<storeVars, snap, lock>>

-------------------------------------------------------------------------------
CachesWrite == Write /\ UNCHANGED cacheVars

(* A new process, on the same database or a new one, starts with empty caches. *)
CachesRestart ==
    /\ (version < MaxVersion /\ Reopen) \/ Recreate
    /\ snap' = [doc |-> NoDoc, version |-> 0, gen |-> 0]
    /\ lock' = NoLock
    /\ pol' = [doc |-> NoDoc, version |-> 0]
    /\ req' = [r \in Request |-> Idle]

CachesNext ==
    \/ CachesWrite \/ CachesRestart
    \/ \E r \in Request :
          \/ SnapshotReadsGeneration(r) \/ SnapshotLoads(r)
          \/ AllowlistReadsVersion(r) \/ AllowlistLoads(r)
          \/ Forget(r)

CachesSpec == CachesInit /\ [][CachesNext]_cachesVars

-------------------------------------------------------------------------------
(* policysnapshot.go:91 "the cache can waste a load, never serve a stale     *)
(* one", and the same of CachedPolicy: a request is answered with a document *)
(* at least as new as the one the store held when the request began, and     *)
(* under the version it was stored with, so that no stamp or release mixes   *)
(* two documents, whatever writes and other requests ran in between.         *)
NeverStale ==
    \A r \in Request : At(r, "done") =>
        /\ req[r].version >= req[r].began
        /\ req[r].version = version => req[r].doc = entries
===============================================================================
