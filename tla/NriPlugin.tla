------------------------------- MODULE NriPlugin -------------------------------
(***************************************************************************)
(* internal/cmds/nri-image-policy: the node's image-policy plugin over its *)
(* lifetimes.  Three activities interleave: the main goroutine (pull, set  *)
(* ready, deferred check, pull loop), the NRI Synchronize call made when   *)
(* the plugin registers, and the container and pod events containerd sends *)
(* once Synchronize has returned.  The plugin may crash and the node       *)
(* reboot at any step.                                                     *)
(*                                                                         *)
(* containerd is external: it lists created and running containers at      *)
(* Synchronize, sends events to a registered plugin only, and creates no   *)
(* container without it (required_plugins); a start it only notifies.      *)
(***************************************************************************)
EXTENDS Integers, FiniteSets, AdmissionInventory

CONSTANTS Tagged,          \* containers whose image reference carries no digest
          Privileged,      \* containers that hold host privilege
          Docs,            \* served documents: sets of containers they admit
          Configs          \* the nodes to look at: see config

ASSUME ConfigsAreNodes == \A g \in Configs : g.ctrs \subseteq Ctr

VARIABLES life,            \* container -> none, created, running, exited, gone
          pods,            \* sandbox -> none, live, gone
          main,            \* main goroutine: down, init, pulled, ready, done
          sync,            \* Synchronize: waiting, deferring, checking, done
          ready, policy,   \* plugin.ready; policyStore.snap: [doc, version]
          listed,          \* Synchronize's arguments
          deferred,        \* deferredCtrs
          checking,        \* containers checkExisting has still to visit
          exempt, exemptFile, marker, bootRestart, node,
          cleared,         \* history: created through the plugin since boot
          crashes,
          config           \* the plugin's configuration and its node, fixed

runtime == <<life, pods, cleared>>
process == <<main, sync, ready, policy, listed, deferred, checking>>
disk == <<exempt, exemptFile, marker, bootRestart, node>>
pluginVars == <<inventory, runtime, process, disk, crashes, config>>

Audit == config.audit
EnforceExisting == config.enforceExisting
FatalExisting == config.fatalExisting
PullEnabled == config.pull
Base == config.base            \* containers the base allowlist admits
Exempt == config.exempt        \* containers in exempt namespaces
Early == config.early          \* containers that may run before the plugin registers
MaxPulls == config.maxPulls    \* bounds
MaxCrashes == config.maxCrashes

NodePods == {SandboxOf[c] : c \in config.ctrs}

Registered == main # "down" /\ sync = "done"
InSynchronize == sync \in {"deferring", "checking"}

-------------------------------------------------------------------------------
(* Verdicts.  resolved: extractDigest, or containerd's Resolve, answered.    *)
Resolves(c) == IF c \in Tagged THEN BOOLEAN ELSE {TRUE}

checkImage(c, resolved) == resolved /\ (c \in Base \/ c \in policy.doc)

exemptNamespace(c, resolved) == c \in Exempt /\ resolved /\ c \in exempt

(* Creation runs the checks on the adjusted container, without the host      *)
(* privilege policy; a start and the startup check run that too.             *)
checkContainer(c, phase, resolved) ==
    /\ checkImage(c, resolved) \/ exemptNamespace(c, resolved)
    /\ phase = "final" /\ c \in Privileged => c \in Base

-------------------------------------------------------------------------------
(* A process starts with empty memory.                                       *)
Fresh ==
    /\ Emptied
    /\ sync' = "waiting" /\ ready' = FALSE
    /\ policy' = [doc |-> {}, version |-> 0]
    /\ listed' = {} /\ deferred' = {} /\ checking' = {}
    /\ exempt' = {} /\ bootRestart' = FALSE

PluginInit ==
    /\ config \in Configs
    /\ newAdmissionInventory
    /\ \E early \in SUBSET Early :
          /\ life = [c \in config.ctrs |-> IF c \in early THEN "running" ELSE "none"]
          /\ pods = [s \in NodePods |-> IF \E c \in early : SandboxOf[c] = s THEN "live" ELSE "none"]
    /\ main = "down" /\ sync = "waiting" /\ ready = FALSE
    /\ policy = [doc |-> {}, version |-> 0]
    /\ listed = {} /\ deferred = {} /\ checking = {}
    /\ exempt = {} /\ exemptFile = {} /\ marker = FALSE /\ bootRestart = FALSE /\ node = "on"
    /\ cleared = {} /\ crashes = 0

Start ==
    /\ node = "on" /\ main = "down"
    /\ main' = "init"
    /\ UNCHANGED <<inventory, runtime, sync, ready, policy, listed, deferred, checking, disk, crashes>>

pullInitial ==
    /\ main = "init"
    /\ main' = "pulled"
    /\ \/ PullEnabled /\ \E d \in Docs : policy' = [doc |-> d, version |-> 1]
       \/ UNCHANGED policy
    /\ UNCHANGED <<inventory, runtime, sync, ready, listed, deferred, checking, disk, crashes>>

SetReady ==
    /\ main = "pulled"
    /\ main' = "ready" /\ ready' = TRUE
    /\ UNCHANGED <<inventory, runtime, sync, policy, listed, deferred, checking, disk, crashes>>

RunDeferredCheck ==
    /\ main = "ready"
    /\ main' = "done"
    /\ checking' = checking \union deferred
    /\ deferred' = {}
    /\ UNCHANGED <<inventory, runtime, sync, ready, policy, listed, disk, crashes>>

runPullLoop ==
    /\ ready /\ PullEnabled /\ policy.version < MaxPulls
    /\ \E d \in Docs : policy' = [doc |-> d, version |-> policy.version + 1]
    /\ UNCHANGED <<inventory, runtime, main, sync, ready, listed, deferred, checking, disk, crashes>>

-------------------------------------------------------------------------------
(* fatal: the node powers off, or, when that is refused, the plugin exits.   *)
fatal ==
    /\ \/ /\ node' = "off"
          /\ life' = [c \in config.ctrs |-> "gone"] /\ pods' = [s \in NodePods |-> "gone"]
       \/ UNCHANGED <<node, life, pods>>
    /\ main' = "down"
    /\ Fresh
    /\ UNCHANGED <<cleared, exemptFile, marker, crashes>>

(* initExempt: a frozen file wins (an unreadable one admits nothing);        *)
(* otherwise capture what runs and resolves, and write it, which may fail.   *)
initExempt(running) ==
    \/ exemptFile # {} /\ exempt' \in {exemptFile, {}} /\ UNCHANGED exemptFile
    \/ /\ exemptFile = {}
       /\ \E unread \in SUBSET (running \intersect Tagged) :
             LET captured == (running \intersect Exempt) \ unread
             IN  /\ exempt' = captured
                 /\ exemptFile' = captured \/ UNCHANGED exemptFile

(* Mutant: the marker is claimed before the containers are looked at.        *)
bootCheckClaimsFirst(running) ==
    /\ marker' = TRUE
    /\ bootRestart' = (marker \/ running # {})

(* bootGate.check when it returns: a restart, or a first registration on a   *)
(* node without containers, whose marker is then written.                    *)
bootCheck(running) ==
    IF ~FatalExisting THEN UNCHANGED <<marker, bootRestart>>
    ELSE /\ marker \/ running = {}
         /\ marker' = TRUE
         /\ bootRestart' = marker

(* Synchronize up to its reading of Ready.                                   *)
Synchronize ==
    /\ main # "down" /\ sync = "waiting"
    /\ LET running == {c \in config.ctrs : life[c] \in {"created", "running"}}
       IN  /\ bootCheck(running)
           /\ initExempt(running)
           /\ listed' = running
           /\ \/ ready /\ sync' = "checking" /\ checking' = running
              \/ ~ready /\ sync' = "deferring" /\ UNCHANGED checking
    /\ sandboxes' = sandboxes \union {s \in NodePods : pods[s] = "live"}
    /\ UNCHANGED <<tracked, recorded, unresolved, runtime, main, ready, policy, deferred, node, crashes>>

(* Synchronize that ends the node: containers at a first registration, or a  *)
(* marker that cannot be read or written.                                    *)
SynchronizeFatal ==
    /\ main # "down" /\ sync = "waiting"
    /\ FatalExisting
    /\ fatal

(* ... having read false, it stores the list under deferredMu.               *)
Defer ==
    /\ sync = "deferring"
    /\ sync' = "done" /\ deferred' = listed
    /\ UNCHANGED <<inventory, runtime, main, ready, policy, listed, checking, disk, crashes>>

SynchronizeReturns ==
    /\ sync = "checking" /\ checking = {}
    /\ sync' = "done"
    /\ UNCHANGED <<inventory, runtime, main, ready, policy, listed, deferred, checking, disk, crashes>>

-------------------------------------------------------------------------------
escalateOnRestart == FatalExisting /\ bootRestart /\ ~PullEnabled /\ policy.version > 0

StopContainer(c) ==
    \/ life' = [life EXCEPT ![c] = IF @ = "running" THEN "exited" ELSE @]
    \/ UNCHANGED life

(* One turn of checkExisting's loop: record the container, then check it.    *)
checkExisting(c) ==
    /\ c \in checking
    /\ \E resolved, again \in Resolves(c) :
          LET kills == /\ ~checkContainer(c, "final", resolved) /\ c \notin Exempt
                       /\ ~Audit /\ EnforceExisting
          IN  IF kills /\ escalateOnRestart THEN fatal
              ELSE /\ recordObserved(c, again)
                   /\ checking' = checking \ {c}
                   /\ IF kills THEN StopContainer(c) ELSE UNCHANGED life
                   /\ UNCHANGED <<pods, cleared, main, sync, ready, policy, listed, deferred, disk, crashes>>

-------------------------------------------------------------------------------
(* Events. *)
RunPodSandbox(s) ==
    /\ pods[s] = "none" /\ ~InSynchronize
    /\ pods' = [pods EXCEPT ![s] = "live"]
    /\ IF Registered THEN recordSandbox(s) ELSE UNCHANGED inventory
    /\ UNCHANGED <<life, cleared, process, disk, crashes>>

(* CreateContainer, then ValidateContainerAdjustment. *)
CreateContainer(c) ==
    /\ Registered /\ life[c] = "none" /\ pods[SandboxOf[c]] = "live"
    /\ Audit \/ checkContainer(c, "create", TRUE)
    /\ life' = [life EXCEPT ![c] = "created"]
    /\ cleared' = cleared \union {c}
    /\ UNCHANGED <<inventory, pods, process, disk, crashes>>

(* The check of the persisted OCI spec; before Ready the digest is recorded  *)
(* from the reference alone.                                                 *)
StartContainer(c) ==
    /\ Registered /\ life[c] = "created"
    /\ Audit \/ checkContainer(c, "final", TRUE)
    /\ \E resolved \in Resolves(c) : recordObserved(c, IF ready THEN resolved ELSE c \notin Tagged)
    /\ life' = [life EXCEPT ![c] = "running"]
    /\ UNCHANGED <<pods, cleared, process, disk, crashes>>

(* A container created before the plugin went away starts unseen.            *)
StartUnseen(c) ==
    /\ ~Registered /\ ~InSynchronize /\ life[c] = "created"
    /\ life' = [life EXCEPT ![c] = "running"]
    /\ UNCHANGED <<inventory, pods, cleared, process, disk, crashes>>

Exit(c) ==
    /\ life[c] = "running"
    /\ life' = [life EXCEPT ![c] = "exited"]
    /\ UNCHANGED <<inventory, pods, cleared, process, disk, crashes>>

RemoveContainer(c) ==
    /\ life[c] \in {"created", "exited"} /\ ~InSynchronize
    /\ life' = [life EXCEPT ![c] = "gone"]
    /\ IF Registered THEN remove(c) ELSE UNCHANGED inventory
    /\ UNCHANGED <<pods, cleared, process, disk, crashes>>

RemovePodSandbox(s) ==
    /\ pods[s] = "live" /\ ~InSynchronize
    /\ \A c \in config.ctrs : SandboxOf[c] = s => life[c] \in {"none", "exited", "gone"}
    /\ pods' = [pods EXCEPT ![s] = "gone"]
    /\ life' = [c \in config.ctrs |-> IF SandboxOf[c] = s THEN "gone" ELSE life[c]]
    /\ IF Registered THEN removeSandbox(s) ELSE UNCHANGED inventory
    /\ UNCHANGED <<cleared, process, disk, crashes>>

-------------------------------------------------------------------------------
Crash ==
    /\ main # "down" /\ crashes < MaxCrashes
    /\ main' = "down" /\ crashes' = crashes + 1
    /\ Fresh
    /\ UNCHANGED <<runtime, exemptFile, marker, node>>

(* The boot config is rewritten: the installer deletes the snapshot and      *)
(* restarts containerd, and the plugin with it.                              *)
InstallerRewrites ==
    /\ exemptFile # {} /\ crashes < MaxCrashes
    /\ exemptFile' = {} /\ main' = "down" /\ crashes' = crashes + 1
    /\ Fresh
    /\ UNCHANGED <<runtime, marker, node>>

(* /run is tmpfs: the marker goes, the exempt snapshot stays.                *)
Reboot ==
    /\ crashes < MaxCrashes
    /\ crashes' = crashes + 1
    /\ node' = "on" /\ main' = "down" /\ marker' = FALSE /\ cleared' = {}
    /\ Fresh
    /\ \E early \in SUBSET Early :
          /\ life' = [c \in config.ctrs |-> IF c \in early THEN "running" ELSE "none"]
          /\ pods' = [s \in NodePods |-> IF \E c \in early : SandboxOf[c] = s THEN "live" ELSE "none"]
    /\ UNCHANGED exemptFile

Main == Start \/ pullInitial \/ SetReady \/ RunDeferredCheck \/ runPullLoop

PluginNext ==
    /\ \/ Main
       \/ Synchronize \/ SynchronizeFatal \/ Defer \/ SynchronizeReturns
       \/ \E c \in config.ctrs : \/ checkExisting(c) \/ CreateContainer(c) \/ StartContainer(c)
                         \/ StartUnseen(c) \/ Exit(c) \/ RemoveContainer(c)
       \/ \E s \in NodePods : RunPodSandbox(s) \/ RemovePodSandbox(s)
       \/ Crash \/ InstallerRewrites \/ Reboot
    /\ UNCHANGED config

PluginSpec == PluginInit /\ [][PluginNext]_pluginVars

-------------------------------------------------------------------------------
(* inventory.go:162: once the startup check has nothing left to visit, an    *)
(* answer about a sandbox never leaves out a container running in it,        *)
(* whenever that container started and whether or not its digest resolved.   *)
CoversRunning ==
    Registered /\ main = "done" /\ deferred = {} /\ checking = {} =>
        \A s \in NodePods : Answers(s) =>
            {c \in config.ctrs : life[c] = "running" /\ SandboxOf[c] = s} \subseteq recorded[s]

(* inventory.go:71: within a process, what a sandbox was admitted to run     *)
(* stays in its record until the sandbox is torn down.                       *)
RecordGrows ==
    \A s \in NodePods : main' # "down" /\ pods'[s] = pods[s] => recorded[s] \subseteq recorded'[s]

(* inventory.go:71, 162: what CDS is told of a sandbox is complete: every    *)
(* step leads to a state where CoversRunning holds, as it does at the start, *)
(* where the plugin is not registered, and no step breaks RecordGrows.       *)
AnswersComplete == [][CoversRunning' /\ RecordGrows]_pluginVars

(* bootgate.go:65: the marker is written last, so on a node whose marker is  *)
(* present every running container was admitted by the plugin since boot,    *)
(* whatever crashed in between and even when a power-off was refused.        *)
MarkerMeansClean == FatalExisting /\ marker => \A c \in config.ctrs : life[c] = "running" => c \in cleared

(* The last three are observed not to hold.                                  *)
(* plugin.go:143: what Synchronize saw before the plugin was ready is        *)
(* "replayed once the cache has a allowlist".  The list may be stored after  *)
(* the deferred check has run.                                               *)
DeferredIsReplayed == main = "done" /\ sync = "done" => deferred = {}

(* inventory.go:92: "a torn-down pod's digests cannot linger in /digests     *)
(* answers".  The deferred check records pods that are gone by then.         *)
TornDownIsUnknown == Registered => \A s \in NodePods : pods[s] = "gone" => s \notin sandboxes

(* docs/secrets.md:448: the views "describe every container ever admitted in *)
(* the sandbox", until the sandbox itself is torn down.  The record is in    *)
(* memory, so what exited before a restart of the plugin is not in it.       *)
HighWaterMark ==
    Registered /\ main = "done" /\ deferred = {} /\ checking = {} =>
        \A c \in config.ctrs : life[c] \in {"running", "exited"} /\ Answers(SandboxOf[c]) =>
            c \in recorded[SandboxOf[c]]
===============================================================================
