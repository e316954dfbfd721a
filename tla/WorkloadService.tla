----------------------------- MODULE WorkloadService -----------------------------
(***************************************************************************)
(* The reconcilers that keep one headless Service per annotated workload,  *)
(* one reconciler for each kind.  They list and get Services through a     *)
(* cache that holds the managed ones only and lags behind the API server.  *)
(* Users edit and delete workloads and own Services of their own, some     *)
(* under a name a workload wants.                                          *)
(***************************************************************************)
EXTENDS Naturals, Sequences

CONSTANTS
    Workload,                \* each of a kind of its own
    WorkloadId,              \* the ids that name a Service, which is called by its id here
    Unnamable,               \* an id that cannot name one
    PortSet,                 \* what servicePorts makes of a template's container ports
    User,                    \* the owner of a foreign Service
    MaxEdits,                \* what users change, and API calls that fail
    Nothing                  \* no workload, no id, no Service

VARIABLES
    template,                \* each workload's pod template, Nothing once it is deleted
    services,                \* the Service of each name at the API server: owner and ports
    events,                  \* the watch: for each name the managed Services to come
    cache,                   \* the managed Service of each name, as the cache has it
    queue,                   \* workloads to reconcile
    later,                   \* workloads whose reconcile is due again after a collision
    stale,                   \* Services a running reconcile still has to delete, for each workload
    desired,                 \* the name it then ensures; Nothing when it is not running
    edits

serviceVars == <<template, services, events, cache, queue, later, stale, desired, edits>>

Template == [id : WorkloadId \union {Unnamable}, ports : PortSet]

UserService == [owner |-> User, ports |-> CHOOSE p \in PortSet : TRUE]

ServiceInit ==
    /\ template \in [Workload -> Template]
    /\ services \in [WorkloadId -> {Nothing, UserService}]
    /\ events = [n \in WorkloadId |-> <<>>]
    /\ cache = [n \in WorkloadId |-> Nothing]
    /\ queue = Workload /\ later = {}
    /\ stale = [w \in Workload |-> {}]
    /\ desired = [w \in Workload |-> Nothing]
    /\ edits = 0

(* No reconcile of w is running. *)
Idle(w) == desired[w] = Nothing /\ stale[w] = {}

WorkloadServiceName(id) == IF id \in WorkloadId THEN id ELSE Nothing

ControlledBy(service, w) == service # Nothing /\ service.owner = w

(* Every change of a managed Service is an event of its watch; the selector  *)
(* of the watch leaves foreign ones out.                                     *)
Write(n, service) ==
    LET managed(s) == s # Nothing /\ s.owner # User IN
    /\ services' = [services EXCEPT ![n] = service]
    /\ events' = IF managed(services[n]) \/ managed(service)
                 THEN [events EXCEPT ![n] = Append(@, service)] ELSE events

---------------------------------------------------------------------------
(* A reconcile: delete the stale, then create or update the desired *)

(* The workload is read and its Services are listed, from the cache. *)
Reconcile(w) ==
    /\ w \in queue /\ Idle(w)
    /\ queue' = queue \ {w}
    /\ IF template[w] = Nothing THEN UNCHANGED <<stale, desired>>
       ELSE LET name == WorkloadServiceName(template[w].id) IN
            /\ desired' = [desired EXCEPT ![w] = IF name = Nothing THEN Nothing ELSE template[w]]
            /\ stale' = [stale EXCEPT ![w] =
                            {n \in WorkloadId \ {name} : ControlledBy(cache[n], w)}]
    /\ UNCHANGED <<template, services, events, cache, later, edits>>

(* An error of the API server ends the reconcile and queues the workload. *)
Retry(w) ==
    /\ ~Idle(w) /\ edits < MaxEdits
    /\ edits' = edits + 1
    /\ queue' = queue \union {w}
    /\ stale' = [stale EXCEPT ![w] = {}]
    /\ desired' = [desired EXCEPT ![w] = Nothing]
    /\ UNCHANGED <<template, services, events, cache, later>>

(* By name: NotFound is fine. *)
deleteStaleServices(w) ==
    /\ \E n \in stale[w] :
        /\ stale' = [stale EXCEPT ![w] = @ \ {n}]
        /\ IF services[n] = Nothing THEN UNCHANGED <<services, events>> ELSE Write(n, Nothing)
    /\ UNCHANGED <<template, cache, queue, later, desired, edits>>

(* A collision without the timer: the foreign Service sends no event. *)
CollideAndForget(w) == UNCHANGED <<services, events, queue, later>>

Collide(w) ==
    /\ later' = later \union {w}
    /\ UNCHANGED <<services, events, queue>>

(* A Service in the cache is another's, or as it should be, or is updated in *)
(* place if the cache is current and fails with a conflict if not; one that  *)
(* is not in the cache is created, unless the API server has the name.       *)
CreateOrUpdate(w) ==
    LET n == desired[w].id
        want == [owner |-> w, ports |-> desired[w].ports]
    IN
    /\ desired[w] # Nothing /\ stale[w] = {}
    /\ desired' = [desired EXCEPT ![w] = Nothing]
    /\ \/ /\ IF cache[n] = Nothing THEN services[n] # Nothing ELSE cache[n].owner # w
          /\ Collide(w)
       \/ /\ cache[n] = want
          /\ UNCHANGED <<services, events, queue, later>>
       \/ /\ IF cache[n] = Nothing THEN services[n] = Nothing
             ELSE cache[n].owner = w /\ cache[n] # want /\ cache[n] = services[n]
          /\ Write(n, want)
          /\ UNCHANGED <<queue, later>>
       \/ /\ ControlledBy(cache[n], w) /\ cache[n] # want /\ cache[n] # services[n]
          /\ queue' = queue \union {w}
          /\ UNCHANGED <<services, events, later>>
    /\ UNCHANGED <<template, cache, stale, edits>>

(* The collision interval is over. *)
Requeue(w) ==
    /\ w \in later
    /\ later' = later \ {w}
    /\ queue' = queue \union {w}
    /\ UNCHANGED <<template, services, events, cache, stale, desired, edits>>

---------------------------------------------------------------------------
(* An event of the watch reaches the cache and queues the owner. *)
Sync(n) ==
    LET owners == {s.owner : s \in {cache[n], Head(events[n])} \ {Nothing}} IN
    /\ events[n] # <<>>
    /\ cache' = [cache EXCEPT ![n] = Head(events[n])]
    /\ events' = [events EXCEPT ![n] = Tail(@)]
    /\ queue' = queue \union owners
    /\ UNCHANGED <<template, services, later, stale, desired, edits>>

(* Garbage collection of what a deleted workload owned. *)
Collect(n) ==
    /\ \E w \in Workload : ControlledBy(services[n], w) /\ template[w] = Nothing
    /\ Write(n, Nothing)
    /\ UNCHANGED <<template, cache, queue, later, stale, desired, edits>>

(* Users: an edit of the template changes the generation, which is an event. *)
EditTemplate(w) ==
    /\ edits < MaxEdits /\ template[w] # Nothing
    /\ \E t \in (Template \union {Nothing}) \ {template[w]} :
        template' = [template EXCEPT ![w] = t]
    /\ edits' = edits + 1
    /\ queue' = queue \union {w}
    /\ UNCHANGED <<services, events, cache, later, stale, desired>>

(* A user creates a Service, or changes or deletes one, a managed one too. *)
EditService(n) ==
    /\ edits < MaxEdits
    /\ IF services[n] = Nothing THEN Write(n, UserService)
       ELSE \/ Write(n, Nothing)
            \/ \E p \in PortSet \ {services[n].ports} : Write(n, [services[n] EXCEPT !.ports = p])
    /\ edits' = edits + 1
    /\ UNCHANGED <<template, cache, queue, later, stale, desired>>

ReconcileStep(w) == Reconcile(w) \/ deleteStaleServices(w) \/ CreateOrUpdate(w)

ServiceNext ==
    \/ \E w \in Workload : ReconcileStep(w) \/ Retry(w) \/ Requeue(w) \/ EditTemplate(w)
    \/ \E n \in WorkloadId : Sync(n) \/ Collect(n) \/ EditService(n)

(* When the users have stopped, every name is held as it should be, whatever *)
(* the order of events, the age of the cache and the errors were: by a       *)
(* foreign Service that was there first, by a workload that wants it and     *)
(* with that workload's ports, or by nobody because nobody wants it.         *)
ServicesConverge ==
    <>[](\A n \in WorkloadId :
            IF services[n] = Nothing THEN \A w \in Workload : template[w] = Nothing \/ template[w].id # n
            ELSE services[n].owner \in Workload =>
                    template[services[n].owner] = [id |-> n, ports |-> services[n].ports])
===================================================================================
