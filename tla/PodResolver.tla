------------------------------ MODULE PodResolver ------------------------------
(***************************************************************************)
(* internal/cmds/ratlsmesh/resolver_k8s.go: the proxy's map from pod       *)
(* addresses to nodes, fed by a pod informer.  Events of one watch arrive  *)
(* in order; when the watch breaks, changes go unseen until the informer   *)
(* lists again, first what is there, then what is gone.  An address is     *)
(* given to a new pod once no running pod has it, which may be long before *)
(* the old pod's object is deleted.  A sandbox that is made anew may give  *)
(* a running pod another address.                                          *)
(***************************************************************************)
EXTENDS Integers, Sequences, FiniteSets

CONSTANTS Pod,              \* pod UIDs, none of them on the host network
          Address,
          LocalAddress,     \* the addresses of this node's pod network
          MaxQueue,         \* changes the informer has yet to deliver
          NoEntry

(* An entry of the map, and what is none. *)
MapEntry == [node : {"here", "there"}, uid : Pod]

ASSUME ResolverAssumption == IsFiniteSet(Pod) /\ NoEntry \notin MapEntry

VARIABLES obj,              \* the API server's pods
          watching,         \* the watch is up
          told,             \* the informer's store, once the queue is drained
          queue,            \* objects the informer has yet to hand over
          podMap,           \* address -> NoEntry or [node, uid]
          localCIDRs        \* addresses in the CIDRs discovered on this host

resolverVars == <<obj, watching, told, queue, podMap, localCIDRs>>

NoPod == [phase |-> "none", ip |-> NoEntry]

Home(a) == IF a \in LocalAddress THEN "here" ELSE "there"

Free(a) == \A u \in Pod : ~(obj[u].phase = "running" /\ obj[u].ip = a)

ResolverInit ==
    /\ obj = [u \in Pod |-> NoPod]
    /\ watching = TRUE
    /\ told = obj
    /\ queue = <<>>
    /\ podMap = [a \in Address |-> NoEntry]
    /\ localCIDRs = {}

-------------------------------------------------------------------------------
(* Mutant: an entry goes with its address, whichever pod it is of. *)
DeleteByAddress(u, o) ==
    podMap' = [a \in Address |-> IF a = o.ip THEN NoEntry ELSE podMap[a]]

deletePodLocked(u, o) ==
    podMap' = [a \in Address |-> IF a = o.ip /\ podMap[a] # NoEntry /\ podMap[a].uid = u
                                 THEN NoEntry ELSE podMap[a]]

(* A pod without an address is skipped, one that has ended is dropped. *)
applyPod(u, o) ==
    CASE o.phase = "ended"   -> deletePodLocked(u, o)
      [] o.phase = "pending" -> UNCHANGED podMap
      [] o.phase = "running" -> podMap' = [podMap EXCEPT ![o.ip] = [node |-> Home(o.ip), uid |-> u]]

(* onPod, onDeletePod: a deletion carries the last object known. *)
Deliver ==
    /\ queue # <<>>
    /\ queue' = Tail(queue)
    /\ LET u == Head(queue)[1]
           o == Head(queue)[2]
       IN  IF o.phase = "gone" THEN deletePodLocked(u, o) ELSE applyPod(u, o)
    /\ UNCHANGED <<obj, watching, told, localCIDRs>>

(* reconcileLocalCIDRs: what the kernel shows, or nothing when it cannot be   *)
(* read or the bridge is not up yet.                                          *)
reconcileLocalCIDRs ==
    /\ localCIDRs' \in {{}, LocalAddress}
    /\ localCIDRs' # localCIDRs
    /\ UNCHANGED <<obj, watching, told, queue, podMap>>

ValidateOutboundDest(a) == podMap[a] # NoEntry

(* Resolve, for an address that was found: the node to dial. *)
Resolve(a) == podMap[a].node

(* An address in a discovered CIDR is reached over the interface of that CIDR, *)
(* so the route check that follows agrees with the CIDR check.                 *)
ValidateLocalDest(a) ==
    /\ podMap[a] # NoEntry
    /\ podMap[a].node = "here"
    /\ localCIDRs = {} \/ a \in localCIDRs

-------------------------------------------------------------------------------
(* The cluster.  A change is queued while the watch is up. *)
Change(u, o) ==
    /\ Len(queue) < MaxQueue
    /\ obj' = [obj EXCEPT ![u] = o]
    /\ IF watching
       THEN told' = [told EXCEPT ![u] = o] /\ queue' = Append(queue, <<u, o>>)
       ELSE UNCHANGED <<told, queue>>
    /\ UNCHANGED <<watching, podMap, localCIDRs>>

Create(u) == obj[u].phase = "none" /\ Change(u, [phase |-> "pending", ip |-> NoEntry])

GetAddress(u, a) ==
    /\ obj[u].phase \in {"pending", "running"}
    /\ Free(a)
    /\ Change(u, [phase |-> "running", ip |-> a])

(* An update that leaves the address alone, such as a label. *)
Touch(u) == obj[u].phase = "running" /\ Change(u, obj[u])

End(u) == obj[u].phase = "running" /\ Change(u, [obj[u] EXCEPT !.phase = "ended"])

Delete(u) == obj[u].phase \in {"pending", "running", "ended"} /\ Change(u, [obj[u] EXCEPT !.phase = "gone"])

WatchBreaks ==
    /\ watching
    /\ watching' = FALSE
    /\ UNCHANGED <<obj, told, queue, podMap, localCIDRs>>

(* The orders in which the elements of a finite set can come. *)
Orders(S) ==
    {f \in [1 .. Cardinality(S) -> S] : \A i, j \in 1 .. Cardinality(S) : f[i] = f[j] => i = j}

(* The informer lists: every pod there is, in any order, then a deletion with *)
(* the last known object for every pod that went unseen.                      *)
Relist ==
    /\ ~watching
    /\ Len(queue) < MaxQueue
    /\ watching' = TRUE
    /\ told' = obj
    /\ LET there == {u \in Pod : obj[u].phase \notin {"none", "gone"}}
           lost == {u \in Pod : told[u].phase \notin {"none", "gone"} /\ obj[u].phase = "gone"}
       IN  \E first \in Orders(there), then \in Orders(lost) :
              queue' = queue \o [i \in DOMAIN first |-> <<first[i], obj[first[i]]>>]
                             \o [i \in DOMAIN then |-> <<then[i], [told[then[i]] EXCEPT !.phase = "gone"]>>]
    /\ UNCHANGED <<obj, podMap, localCIDRs>>

ResolverNext ==
    \/ Deliver \/ reconcileLocalCIDRs
    \/ \E u \in Pod : Create(u) \/ Touch(u) \/ End(u) \/ Delete(u) \/ \E a \in Address : GetAddress(u, a)
    \/ WatchBreaks \/ Relist

ResolverSpec == ResolverInit /\ [][ResolverNext]_resolverVars

-------------------------------------------------------------------------------
(* resolver_k8s.go:199 "A late delete event must not remove a newer pod's      *)
(* entry after IP reuse".  Once the informer has handed over what it knows,    *)
(* every running pod can be dialled, its address leads to its own node and is  *)
(* accepted there and nowhere else, whatever the order in which pods ended,    *)
(* were deleted, moved to other addresses and took over those of others, and   *)
(* whatever part of that was missed while the watch was down.                  *)
RoutesCurrent ==
    watching /\ queue = <<>> =>
        \A u \in Pod : obj[u].phase = "running" =>
            LET a == obj[u].ip
            IN  /\ ValidateOutboundDest(a)
                /\ Resolve(a) = Home(a)
                /\ ValidateLocalDest(a) <=> a \in LocalAddress
===============================================================================
