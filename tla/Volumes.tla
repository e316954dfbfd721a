-------------------------------- MODULE Volumes --------------------------------
(***************************************************************************)
(* Encrypted volumes on one node: the volumed daemon                       *)
(* (internal/cmds/volumed: Opener, Server, Reaper) between the get-volume  *)
(* sidecars that ask it (internal/cmds/getvolume) and device-mapper.  A    *)
(* volume's name is its device's serial, so a volume and its device are    *)
(* one here; a mapping and a mount belong to a pod and a volume.  An open  *)
(* takes the opener's lock twice and runs device tools in between; closes, *)
(* other opens, cancellations and the reaper run meanwhile.                *)
(***************************************************************************)
EXTENDS Integers, FiniteSets

CONSTANTS Pod, Volume,
          Blob,            \* keys with their mode, as held at the store's paths
          Mutable(_),      \* Blob.Mutable
          Handler,         \* goroutines serving the socket
          Reaper,          \* the reaper's goroutine
          MaxInFlight,     \* maxInFlightPerPod
          Scenes           \* the situations to look at: see scene

ASSUME VolumesAssumption ==
    /\ MaxInFlight \in Nat \ {0} /\ \A s \in Scenes : s.confirmGone \in Nat \ {0}
    /\ \A b \in Blob : Mutable(b) \in BOOLEAN
    /\ Reaper \notin Handler

VARIABLES scene,           \* fixed: --max-mounts, Reaper.ConfirmGone, the volumes the
                           \* sidecars list, each pod's blobs, a bound on restarts
          crypt,           \* kernel: (pod, volume) -> blob of the dm-crypt mapping
          verity,          \* kernel: (pod, volume) with a dm-verity mapping
          mounted,         \* kernel: (pod, volume) mounted in the pod's directory
          mounts,          \* Opener.mounts: (pod, volume) -> commitment
          opening,         \* Opener.opening: volume -> mode, for opens in flight
          task,            \* goroutine -> what it is doing
          sweep,           \* Reaper.Sweep: running, pods to read, counts, Reaper.gone
          pod,             \* pod -> live, terminating or gone
          sidecar,         \* pod -> where its get-volume is
          left,            \* pod -> volumes left in get-volume's pass
          blips,           \* pod -> sweeps in a row that found it empty though alive
          restarts

kernelVars == <<crypt, verity, mounted>>
openerVars == <<mounts, opening>>
podVars == <<pod, sidecar, left, blips>>
vars == <<scene, kernelVars, openerVars, task, sweep, podVars, restarts>>

Without(f, S) == [x \in DOMAIN f \ S |-> f[x]]

With(f, x, y) == [z \in DOMAIN f \union {x} |-> IF z = x THEN y ELSE f[z]]

Idle == [at |-> "idle"]

NoSweep == [on |-> FALSE, todo |-> {}, seen |-> <<>>, gone |-> <<>>]

Init ==
    /\ scene \in Scenes
    /\ crypt = <<>> /\ verity = {} /\ mounted = {}
    /\ mounts = <<>> /\ opening = <<>>
    /\ task = [t \in Handler \union {Reaper} |-> Idle]
    /\ sweep = NoSweep
    /\ pod = [p \in Pod |-> IF scene.blobs[p] = {} THEN "gone" ELSE "live"]
    /\ sidecar = [p \in Pod |-> "opening"]
    /\ left = [p \in Pod |-> scene.volumes]
    /\ blips = [p \in Pod |-> 0]
    /\ restarts = 0

At(t, where) == task[t].at = where

Key(t) == <<task[t].pod, task[t].vol>>

(* A goroutine for a new request: which makes no difference. *)
Free == LET idle == {h \in Handler : At(h, "idle")}
        IN  IF idle = {} THEN {} ELSE {CHOOSE h \in idle : TRUE}

(* acquire: the requests of a pod in flight, opens and closes alike. *)
InFlight(p) == Cardinality({h \in Handler : ~At(h, "idle") /\ task[h].pod = p})

-------------------------------------------------------------------------------
(* Opener.Open, under the lock: what is open, the cap, the device's users.   *)

deviceConflict(v, mutable) ==
    \/ v \in DOMAIN opening /\ (opening[v] \/ mutable)
    \/ \E k \in DOMAIN mounts : k[2] = v /\ (Mutable(mounts[k]) \/ mutable)

(* getvolume's openAllWith: a pass asks for one volume after another, and    *)
(* sidecar.Retry starts over with the first after a failure.                 *)
Answered(p, v, ok) ==
    LET rest == IF ok THEN left[p] \ {v} ELSE scene.volumes
    IN  /\ left' = [left EXCEPT ![p] = rest]
        /\ sidecar' = [sidecar EXCEPT ![p] = IF rest = {} THEN "opened" ELSE "opening"]
        /\ UNCHANGED <<pod, blips>>

(* A sidecar that has ended reads no reply. *)
Reply(p, v, ok) ==
    IF sidecar[p] = "asked" THEN Answered(p, v, ok) ELSE UNCHANGED podVars

(* A request answered from the daemon's records or refused by them, or one   *)
(* that fails earlier: no key released, caller unresolved, no such device.   *)
AnsweredAtOnce(p, v, b) ==
    LET known == <<p, v>> \in DOMAIN mounts
    IN  /\ \/ /\ \/ InFlight(p) >= MaxInFlight
                 \/ known
                 \/ Cardinality(DOMAIN mounts) >= scene.maxMounts
                 \/ deviceConflict(v, Mutable(b))
              /\ Answered(p, v, InFlight(p) < MaxInFlight /\ known /\ mounts[<<p, v>>] = b)
           \/ Answered(p, v, FALSE)
        /\ UNCHANGED <<scene, kernelVars, openerVars, task, sweep, restarts>>

Reserve(h, p, v, b) ==
    /\ InFlight(p) < MaxInFlight
    /\ <<p, v>> \notin DOMAIN mounts
    /\ Cardinality(DOMAIN mounts) < scene.maxMounts
    /\ ~deviceConflict(v, Mutable(b))
    /\ opening' = With(opening, v, Mutable(b))
    /\ task' = [task EXCEPT ![h] = [at |-> "crypt", pod |-> p, vol |-> v, blob |-> b,
                                     cancelled |-> FALSE]]
    /\ sidecar' = [sidecar EXCEPT ![p] = "asked"]
    /\ UNCHANGED <<scene, kernelVars, mounts, sweep, pod, left, blips, restarts>>

handleOpen(p, v, b) ==
    /\ pod[p] = "live" /\ sidecar[p] = "opening" /\ v \in left[p] /\ b \in scene.blobs[p]
    /\ AnsweredAtOnce(p, v, b) \/ (\E h \in Free : Reserve(h, p, v, b))

(* The deferred delete of the reservation, and the reply if anyone waits.    *)
End(h, ok) ==
    /\ opening' = Without(opening, {task[h].vol})
    /\ task' = [task EXCEPT ![h] = Idle]
    /\ IF task[h].cancelled THEN UNCHANGED podVars
                            ELSE Reply(task[h].pod, task[h].vol, ok)

Goto(h, where) == task' = [task EXCEPT ![h].at = where]

-------------------------------------------------------------------------------
(* Opener.open and volumeMode.open: the privileged steps, outside the lock.  *)
(* Any of them may fail, and a tool is not even started on a cancelled       *)
(* request; a mapping whose name exists is refused by the kernel.            *)
CryptOpen(h) ==
    /\ At(h, "crypt")
    /\ \/ /\ Key(h) \notin DOMAIN crypt /\ ~task[h].cancelled
          /\ crypt' = With(crypt, Key(h), task[h].blob)
          /\ Goto(h, IF Mutable(task[h].blob) THEN "mount" ELSE "verity")
          /\ UNCHANGED <<mounts, opening, podVars>>
       \/ End(h, FALSE) /\ UNCHANGED <<crypt, mounts>>
    /\ UNCHANGED <<scene, verity, mounted, sweep, restarts>>

VerityOpen(h) ==
    /\ At(h, "verity")
    /\ \/ /\ ~task[h].cancelled
          /\ verity' = verity \union {Key(h)}
          /\ Goto(h, "mount")
       \/ Goto(h, "undo") /\ UNCHANGED verity
    /\ UNCHANGED <<scene, crypt, mounted, openerVars, sweep, podVars, restarts>>

(* mount(2) is a system call and ignores the cancellation.  When it fails,   *)
(* VerityClose is called with the request's own context.                     *)
Mount(h) ==
    /\ At(h, "mount")
    /\ \/ mounted' = mounted \union {Key(h)} /\ Goto(h, "land") /\ UNCHANGED verity
       \/ /\ verity' = IF task[h].cancelled THEN verity ELSE verity \ {Key(h)}
          /\ Goto(h, "undo")
          /\ UNCHANGED mounted
    /\ UNCHANGED <<scene, crypt, openerVars, sweep, podVars, restarts>>

(* fail: close the dm-crypt mapping; the kernel refuses under a dm-verity.   *)
Undo(h) ==
    /\ At(h, "undo")
    /\ crypt' = IF Key(h) \in verity THEN crypt ELSE Without(crypt, {Key(h)})
    /\ End(h, FALSE)
    /\ UNCHANGED <<scene, verity, mounted, mounts, sweep, restarts>>

(* Open's end: a cancelled request is torn down, and so is one that finds    *)
(* its key recorded meanwhile.                                               *)
Land(h) ==
    /\ At(h, "land")
    /\ \/ /\ task[h].cancelled \/ Key(h) \in DOMAIN mounts
          /\ Goto(h, "unmount")
          /\ UNCHANGED <<openerVars, podVars>>
       \/ /\ ~task[h].cancelled /\ Key(h) \notin DOMAIN mounts
          /\ mounts' = With(mounts, Key(h), task[h].blob)
          /\ End(h, TRUE)
    /\ UNCHANGED <<scene, kernelVars, sweep, restarts>>

-------------------------------------------------------------------------------
(* teardown: unmount lazily, then close the mappings; a mapping still in use *)
(* refuses.  A task that closes recorded volumes carries them as doomed.     *)
Unmount(t) ==
    /\ At(t, "unmount")
    /\ mounted' = mounted \ {Key(t)}
    /\ Goto(t, "unstack")
    /\ UNCHANGED <<scene, crypt, verity, openerVars, sweep, podVars, restarts>>

Closes(t) == "doomed" \in DOMAIN task[t]

(* ClosePod's loop: the next doomed volume, or the end of the request.       *)
NextDoomed(t, p, doomed) ==
    task' = [task EXCEPT ![t] =
               IF doomed = <<>> THEN Idle
               ELSE LET v == CHOOSE w \in DOMAIN doomed : TRUE
                    IN  [at |-> "unmount", pod |-> p, vol |-> v, blob |-> doomed[v],
                         doomed |-> Without(doomed, {v})]]

CloseMappings(t) ==
    /\ crypt' = Without(crypt, {Key(t)})
    /\ verity' = verity \ {Key(t)}

(* Open tears down what it never recorded, and keeps no record of a refusal. *)
UnstackOpen(h) ==
    /\ At(h, "unstack") /\ ~Closes(h)
    /\ CloseMappings(h) \/ UNCHANGED <<crypt, verity>>
    /\ LET lost == ~task[h].cancelled /\ Key(h) \in DOMAIN mounts
       IN  End(h, lost /\ mounts[Key(h)] = task[h].blob)
    /\ UNCHANGED <<scene, mounted, mounts, sweep, restarts>>

Closed(t) ==
    /\ CloseMappings(t)
    /\ UNCHANGED mounts

(* closeMount puts the record back, unless the key has been taken.           *)
Refused(t) ==
    /\ mounts' = IF Key(t) \in DOMAIN mounts THEN mounts
                 ELSE With(mounts, Key(t), task[t].blob)
    /\ verity' \in {verity, verity \ {Key(t)}}
    /\ UNCHANGED crypt

UnstackClose(t) ==
    /\ At(t, "unstack") /\ Closes(t)
    /\ Closed(t) \/ Refused(t)
    /\ NextDoomed(t, task[t].pod, task[t].doomed)
    /\ UNCHANGED <<scene, mounted, opening, sweep, podVars, restarts>>

(* Mutant: the records stay until the reaper finds them again. *)
ClosePodKeepsRecords(t, p) ==
    LET mine == {k \in DOMAIN mounts : k[1] = p}
    IN  /\ NextDoomed(t, p, [v \in {k[2] : k \in mine} |-> mounts[<<p, v>>]])
        /\ UNCHANGED mounts

(* ClosePod takes every record of the pod, then tears them down one by one.  *)
ClosePod(t, p) ==
    LET mine == {k \in DOMAIN mounts : k[1] = p}
    IN  /\ mounts' = Without(mounts, mine)
        /\ NextDoomed(t, p, [v \in {k[2] : k \in mine} |-> mounts[<<p, v>>]])

-------------------------------------------------------------------------------
(* The sidecar gives up on a request: its deadline, or its end.              *)
Cancel(h) ==
    /\ h \in Handler /\ ~At(h, "idle") /\ ~Closes(h) /\ ~task[h].cancelled
    /\ task' = [task EXCEPT ![h].cancelled = TRUE]
    /\ Reply(task[h].pod, task[h].vol, FALSE)
    /\ UNCHANGED <<scene, kernelVars, openerVars, sweep, restarts>>

(* A sidecar that died is started again by kubelet, and runs another pass.   *)
SidecarRestart(p) ==
    /\ pod[p] = "live" /\ sidecar[p] = "opened"
    /\ sidecar' = [sidecar EXCEPT ![p] = "opening"]
    /\ left' = [left EXCEPT ![p] = scene.volumes]
    /\ UNCHANGED <<scene, kernelVars, openerVars, task, sweep, pod, blips, restarts>>

(* SIGTERM at the pod's end: getvolume's run cancels its request, which the  *)
(* daemon notices in its own time, and posts the close, which may fail.      *)
Terminate(p) ==
    /\ pod[p] = "live"
    /\ pod' = [pod EXCEPT ![p] = "terminating"]
    /\ sidecar' = [sidecar EXCEPT ![p] = "ended"]
    /\ UNCHANGED <<scene, kernelVars, openerVars, task, sweep, left, blips, restarts>>

handleClose(p) ==
    /\ pod[p] = "terminating" /\ InFlight(p) < MaxInFlight
    /\ \E h \in Free : ClosePod(h, p)
    /\ pod' = [pod EXCEPT ![p] = "gone"]
    /\ UNCHANGED <<scene, kernelVars, opening, sweep, sidecar, left, blips, restarts>>

(* The pod ends without a close: a crash, a force delete, a lost request.    *)
Gone(p) ==
    /\ pod[p] # "gone"
    /\ pod' = [pod EXCEPT ![p] = "gone"]
    /\ sidecar' = [sidecar EXCEPT ![p] = "ended"]
    /\ UNCHANGED <<scene, kernelVars, openerVars, task, sweep, left, blips, restarts>>

-------------------------------------------------------------------------------
(* Reaper.Sweep: the pods with a record, one liveness reading each.          *)
Pods == {k[1] : k \in DOMAIN mounts}

SweepStarts ==
    /\ ~sweep.on /\ (Pods # {} \/ sweep.gone # <<>>)
    /\ sweep' = [sweep EXCEPT !.on = TRUE, !.todo = Pods]
    /\ UNCHANGED <<scene, kernelVars, openerVars, task, podVars, restarts>>

Count(p) == IF p \in DOMAIN sweep.gone THEN sweep.gone[p] ELSE 0

(* Mutants: a reading that failed counts as one that found the pod gone; it  *)
(* forgets what earlier sweeps found.                                        *)
SeenAfterErrCounts(p) == With(sweep.seen, p, Count(p) + 1)

SeenAfterErrForgets(p) == sweep.seen

SeenAfterErr(p) == With(sweep.seen, p, Count(p))

Confirmed(p) == Count(p) + 1 >= scene.confirmGone

(* An error: the count is carried.                                           *)
LiveUnknown(p) ==
    /\ sweep' = [sweep EXCEPT !.todo = @ \ {p}, !.seen = SeenAfterErr(p)]
    /\ UNCHANGED <<mounts, task, blips>>

LiveYes(p) ==
    /\ pod[p] # "gone"
    /\ sweep' = [sweep EXCEPT !.todo = @ \ {p}]
    /\ blips' = [blips EXCEPT ![p] = 0]
    /\ UNCHANGED <<mounts, task>>

(* The cgroup is empty: the pod is gone, or all its containers are just      *)
(* restarting, which is taken to last less than confirmGone sweeps.          *)
LiveNo(p) ==
    /\ pod[p] = "gone" \/ blips[p] + 1 < scene.confirmGone
    /\ blips' = [blips EXCEPT ![p] = IF pod[p] = "gone" THEN @ ELSE @ + 1]
    /\ \/ /\ ~Confirmed(p)
          /\ sweep' = [sweep EXCEPT !.todo = @ \ {p}, !.seen = With(@, p, Count(p) + 1)]
          /\ UNCHANGED <<mounts, task>>
       \/ /\ Confirmed(p)
          /\ sweep' = [sweep EXCEPT !.todo = @ \ {p}]
          /\ ClosePod(Reaper, p)

Reading(p) ==
    /\ p \in sweep.todo /\ At(Reaper, "idle")
    /\ LiveUnknown(p) \/ LiveYes(p) \/ LiveNo(p)
    /\ UNCHANGED <<scene, kernelVars, opening, pod, sidecar, left, restarts>>

SweepEnds ==
    /\ sweep.on /\ sweep.todo = {} /\ At(Reaper, "idle")
    /\ sweep' = [NoSweep EXCEPT !.gone = sweep.seen]
    /\ UNCHANGED <<scene, kernelVars, openerVars, task, podVars, restarts>>

-------------------------------------------------------------------------------
(* A new volumed: no records, and SweepStale closes what the kernel lets go, *)
(* which is nothing mounted, nor what a pod still reaches.                   *)
Restart ==
    /\ restarts < scene.restarts
    /\ restarts' = restarts + 1
    /\ \E stuck \in SUBSET {k \in DOMAIN crypt : k \in mounted \/ pod[k[1]] # "gone"} :
          /\ mounted \subseteq stuck
          /\ crypt' = Without(crypt, DOMAIN crypt \ stuck)
          /\ verity' = verity \cap stuck
    /\ mounts' = <<>> /\ opening' = <<>>
    /\ task' = [t \in Handler \union {Reaper} |-> Idle]
    /\ sweep' = NoSweep
    /\ sidecar' = [p \in Pod |-> IF sidecar[p] = "asked" THEN "opening" ELSE sidecar[p]]
    /\ left' = [p \in Pod |-> IF sidecar[p] = "asked" THEN scene.volumes ELSE left[p]]
    /\ UNCHANGED <<scene, mounted, pod, blips>>

Teardown(t) == Unmount(t) \/ UnstackClose(t)

Serve(h) ==
    \/ CryptOpen(h) \/ VerityOpen(h) \/ Mount(h) \/ Undo(h) \/ Land(h) \/ UnstackOpen(h)
    \/ Teardown(h)

Sweep == SweepStarts \/ (\E p \in Pod : Reading(p)) \/ Teardown(Reaper) \/ SweepEnds

Next ==
    \/ \E p \in Pod :
          \/ \E v \in Volume, b \in Blob : handleOpen(p, v, b)
          \/ handleClose(p) \/ SidecarRestart(p) \/ Terminate(p) \/ Gone(p)
    \/ \E h \in Handler : Serve(h) \/ Cancel(h)
    \/ Sweep
    \/ Restart

Spec == Init /\ [][Next]_vars

(* Goroutines run and the reaper's ticker keeps firing; the cgroup of a pod  *)
(* that is gone can be read now and then, and its mappings do not refuse for *)
(* ever.                                                                     *)
Fairness ==
    /\ \A h \in Handler : WF_vars(Serve(h)) /\ SF_vars(UnstackClose(h) /\ Closed(h))
    /\ WF_vars(Sweep) /\ SF_vars(UnstackClose(Reaper) /\ Closed(Reaper))
    /\ \A p \in Pod : SF_vars(pod[p] = "gone" /\ Reading(p) /\ LiveNo(p))

FairSpec == Spec /\ Fairness

-------------------------------------------------------------------------------
(* open.go:78, 113: a record stands for a mapping under the key and mode it  *)
(* names, whatever opens, closes, refusals and cancellations run beside each *)
(* other; so the commitment a second caller must reproduce is that of the    *)
(* device it would be handed.                                                *)
RecordBacked ==
    \A k \in DOMAIN mounts : k \in DOMAIN crypt /\ crypt[k] = mounts[k]

(* reaper.go:43 "A volume torn down under a live pod does not come back":    *)
(* while the pod lives, the volumes its sidecar was told are open stay       *)
(* mounted, through the sidecar's restarts and the daemon's, through sweeps  *)
(* that fail to read the pod or find its containers restarting.              *)
OpenedStaysMounted ==
    \A p \in Pod : pod[p] = "live" /\ sidecar[p] = "opened" =>
        \A v \in scene.volumes : <<p, v>> \in mounted

(* volumed, open.go and reaper.go: both at once: what the daemon has on      *)
(* record is what it keeps mapped, and what a live pod was told is open is   *)
(* what it keeps mounted.                                                    *)
VolumesHeld == RecordBacked /\ OpenedStaysMounted

(* reaper.go:31: whatever way a pod ends, the volumes the daemon has open    *)
(* for it are collected in the end.                                          *)
EventuallyReaped ==
    \A p \in Pod : <>[](pod[p] = "gone" => \A k \in DOMAIN mounts : k[1] # p)

(* Observed not to hold while ClosePod has dropped a record and has not yet  *)
(* unmounted.  docs/volumes.md:371 "the daemon refuses to open a device that *)
(* already has a mutable mount (or to open mutable one that has any mount)": *)
(* no open has passed Opener.Open's checks while a conflicting mount is in   *)
(* place.                                                                    *)
OneWriter ==
    \A h \in Handler : At(h, "crypt") =>
        ~ \E k \in mounted : /\ k[2] = task[h].vol
                             /\ Mutable(crypt[k]) \/ Mutable(task[h].blob)

(* open.go:23 "every device-mapper target this daemon creates is either      *)
(* owned by a live mount or removed": while the daemon runs, a mapping has a *)
(* record, or a goroutine that is building or removing it.                   *)
MappingsOwned ==
    restarts = 0 => \A k \in DOMAIN crypt :
        k \in DOMAIN mounts \/ \E t \in Handler \union {Reaper} : ~At(t, "idle") /\ Key(t) = k
================================================================================
