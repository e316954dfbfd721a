------------------------------- MODULE Installer -------------------------------
(***************************************************************************)
(* c8s install and c8s uninstall against a cluster other people use: the   *)
(* preflights that read it, the helm release with its values, the script   *)
(* that puts the fail-closed image-policy plugin on every node, the        *)
(* adoption of running workloads, and the sweep that takes everything off  *)
(* the hosts again.                                                        *)
(***************************************************************************)
EXTENDS Naturals, Sequences

CONSTANTS
    HostNode,
    PlatformPods,    \* [namespace, digest]: the static and DaemonSet pods a node may run
    ComponentDigest, \* the digest of the components' images
    InstallLines,    \* command lines of c8s install, with the values files they name
    UninstallLines,  \* command lines of c8s uninstall
    ClusterFacts,    \* what preflights find: records of booleans
    MaxCommands, MaxDrift,
    Tidy,            \* whether a failed sweep is removed, as its error says, before an install
    Unset            \* a value no layer sets, no release, no policy

VARIABLES
    command,         \* the command line being run
    step,            \* where it is; "done" and "error" when it returned
    found,           \* what it has read: distro, vetted pods, sweep configuration
    facts,           \* the cluster as preflights see it
    release,         \* the helm release: its values, and how it was vetted; Unset when there is none
    running,         \* [HostNode -> platform pods up]
    lost,            \* platform pods the restart of containerd did not bring back
    host,            \* [HostNode -> what is on the host's disk]
    mesh,            \* [HostNode -> "gone" | "running" | "terminating"], the mesh pod
    jumps,           \* [HostNode -> BOOLEAN], the mesh's netfilter state
    daemonSet,       \* the configuration the sweep's DaemonSet was applied with, or Unset
    sweep,           \* [HostNode -> phase of its pod]
    adopted,         \* "no", or how the adopted workload was rolled: "injected", "plain"
    commands, drift

installerVars == <<command, step, found, facts, release, running, lost, host, mesh, jumps,
                   daemonSet, sweep, adopted, commands, drift>>

KubeSystem == "kube-system"

(* Nothing of the release on the host. *)
Clean == [policy |-> Unset, captured |-> {}, registered |-> Unset, binaries |-> {}]

InstallerInit ==
    /\ command = Unset /\ step = "done" /\ found = Unset
    /\ facts \in ClusterFacts
    /\ release = Unset
    /\ running \in {[n \in HostNode |-> P] : P \in SUBSET PlatformPods}
    /\ lost = {}
    /\ host = [n \in HostNode |-> Clean]
    /\ mesh = [n \in HostNode |-> "gone"] /\ jumps = [n \in HostNode |-> FALSE]
    /\ daemonSet = Unset /\ sweep = [n \in HostNode |-> "pending"]
    /\ adopted = "no" /\ commands = 0 /\ drift = 0

clusterVars == <<facts, running, lost, host, mesh, jumps, daemonSet, sweep, drift>>

---------------------------------------------------------------------------
(* Values: the chart's defaults under the files under what the flags compute *)

ChartDefaults == [distro |-> "k8s", exempt |-> {}, mode |-> "fail-closed", baked |-> FALSE,
                  admits |-> {}, volumed |-> FALSE, paths |-> "default", argv |-> Unset]

(* helmchart.MergeValues: the upper layer wins on the keys it sets. *)
MergeValues(lower, upper) ==
    [k \in DOMAIN lower |-> IF upper[k] = Unset THEN lower[k] ELSE upper[k]]

(* The platform's namespace on a hosted cluster, unless a file sets its own. *)
appendExemptNamespacesInstallArgs(c) ==
    IF c.hosted /\ c.file.exempt = Unset THEN {KubeSystem} ELSE Unset

(* On nodes of the vendor's image the plugin is in the image. *)
appendCvmModeInstallArgs(c) == IF c.hosted THEN Unset ELSE TRUE

appendVolumedInstallArgs(c) == IF c.volumes THEN TRUE ELSE Unset

(* A file that sets the distro owns it.  The chart, and the argv it pins for  *)
(* the sweep, come with the command's version.                               *)
buildValueArgs(c, detected) ==
    [distro |-> detected,
     exempt |-> appendExemptNamespacesInstallArgs(c),
     mode |-> Unset,
     baked |-> appendCvmModeInstallArgs(c),
     admits |-> Unset,
     volumed |-> appendVolumedInstallArgs(c),
     paths |-> Unset,
     argv |-> c.argv]

effectiveValues(c, detected) ==
    MergeValues(MergeValues(ChartDefaults, c.file), buildValueArgs(c, detected))

(* helm merges the files it is given: the operator's, then the computed one. *)
buildInstallHelmArgs(c, detected) ==
    MergeValues(ChartDefaults, MergeValues(c.file, buildValueArgs(c, detected)))

(* The digests the rendered allowlist admits. *)
admissibleDigests(values) == values.admits \union {ComponentDigest}

Admits(policy, captured, p) ==
    \/ policy = Unset \/ policy.mode # "fail-closed"
    \/ p.digest \in admissibleDigests(policy)
    \/ p.namespace \in policy.exempt /\ p \in captured

(* What the preflight would refuse: an exempt namespace is captured later. *)
deniedPlatformImages(values) ==
    {p \in UNION {running[n] : n \in HostNode} :
        p.namespace \notin values.exempt /\ p.digest \notin admissibleDigests(values)}

(* A check of the default path only, as the checks of labels and ports are. *)
DefaultPathOnly(c, values) == c.files \/ deniedPlatformImages(values) = {}

preflightImagePolicy(c, values) ==
    \/ values.baked \/ values.mode # "fail-closed"
    \/ deniedPlatformImages(values) = {}
    \/ c.force

---------------------------------------------------------------------------
(* c8s install *)

(* An adoption whatever the wait. *)
AdoptsAnyway(c) == c.adopt => ~c.inReleaseNamespace

(* An adoption needs --wait: the webhook must be up before the roll. *)
validateWorkloadAdoptionFlags(c) == c.adopt => c.wait /\ ~c.inReleaseNamespace

operatorKeysPreflight(c) == c.keys \/ c.files \/ c.force

(* The preflights, in order; several stand aside for a values file. *)
preflightNotBakedNode(c) == ~facts.baked
adoptedWorkloadImages(c) == c.adopt => facts.target
detectDistro(c) == c.file.distro # Unset \/ ~facts.mixed
resolveInventoryCIDRs(c) == c.cidr \/ facts.addresses
appendResolvedDigestArgs(c) == c.resolve => facts.published
preflightCDSNode(c) == c.files \/ c.singleNode \/ facts.labelled
preflightRouterHostPort(c) == c.files \/ facts.portFree
preflightOperatorImage(c) == c.resolve \/ c.files \/ facts.published
preflightImagePullSecret(c) == c.pullSecret => facts.secret

Checks == <<"baked", "target", "distro", "addresses", "values", "label", "port", "image",
            "secret", "policy">>

Passes(check, c) ==
    CASE check = "baked" -> preflightNotBakedNode(c)
      [] check = "target" -> adoptedWorkloadImages(c)
      [] check = "distro" -> detectDistro(c)
      [] check = "addresses" -> resolveInventoryCIDRs(c)
      [] check = "values" -> appendResolvedDigestArgs(c)
      [] check = "label" -> preflightCDSNode(c)
      [] check = "port" -> preflightRouterHostPort(c)
      [] check = "image" -> preflightOperatorImage(c)
      [] check = "secret" -> preflightImagePullSecret(c)
      [] check = "policy" -> preflightImagePolicy(c, effectiveValues(c, found.distro))

Install ==
    /\ step \in {"done", "error"} /\ commands < MaxCommands
    /\ Tidy => daemonSet = Unset
    /\ \E c \in InstallLines :
        /\ command' = c
        /\ step' = IF validateWorkloadAdoptionFlags(c) /\ operatorKeysPreflight(c) THEN Checks[1] ELSE "error"
    /\ found' = [distro |-> Unset, vetted |-> {}]
    /\ commands' = commands + 1
    /\ UNCHANGED <<clusterVars, release, adopted>>

(* The next read-only check; what it learns is kept for the steps after it. *)
Preflight ==
    \E i \in 1..Len(Checks) :
        /\ step = Checks[i]
        /\ step' = IF ~Passes(step, command) THEN "error"
                   ELSE IF i = Len(Checks) THEN "namespace" ELSE Checks[i + 1]
        /\ found' = CASE step = "distro" /\ command.file.distro = Unset ->
                            [found EXCEPT !.distro = facts.distro]
                      [] step = "policy" ->
                            [found EXCEPT !.vetted = UNION {running[n] : n \in HostNode}]
                      [] OTHER -> found
        /\ UNCHANGED <<clusterVars, command, release, adopted, commands>>

(* applyNamespace, an error of kubectl included. *)
applyNamespace ==
    /\ step = "namespace"
    /\ step' \in {"helm", "error"}
    /\ UNCHANGED <<clusterVars, command, found, release, adopted, commands>>

(* helm upgrade --install.  It may fail before there is a release, or after,  *)
(* when --wait runs out; without --wait it returns before anything is up.     *)
HelmInstall ==
    /\ step = "helm"
    /\ \/ /\ step' = "error" /\ UNCHANGED <<release, mesh>>
       \/ /\ step' = "waiting"
          /\ release' = [values |-> buildInstallHelmArgs(command, found.distro),
                         vetted |-> found.vetted, forced |-> command.force, webhook |-> FALSE]
          /\ mesh' = [n \in HostNode |-> "running"]
    /\ UNCHANGED <<command, found, facts, running, lost, host, jumps, daemonSet, sweep, adopted, commands, drift>>

PolicyOf(r) == IF r.values.baked THEN Unset ELSE r.values

(* Everything --wait waits for: the webhook serves, the installer is done. *)
Ready == release.webhook /\ \A n \in HostNode : host[n].policy = PolicyOf(release)

HelmReturns ==
    /\ step = "waiting"
    /\ \/ step' = "error"
       \/ step' = "patch" /\ (command.wait => Ready)
    /\ UNCHANGED <<clusterVars, command, found, release, adopted, commands>>

(* The pods the roll makes pass the webhook if it serves. *)
patchAdoptedWorkload ==
    /\ step = "patch"
    /\ IF ~command.adopt THEN step' = "done" /\ UNCHANGED adopted
       ELSE IF facts.target
       THEN step' = "done" /\ adopted' = IF release.webhook THEN "injected" ELSE "plain"
       ELSE step' = "error" /\ UNCHANGED adopted
    /\ UNCHANGED <<clusterVars, command, found, release, commands>>

(* The operator comes up. *)
WebhookServes ==
    /\ release # Unset /\ ~release.webhook
    /\ release' = [release EXCEPT !.webhook = TRUE]
    /\ UNCHANGED <<clusterVars, command, step, found, adopted, commands>>

(* The installer on a node: policy, binary and registration are written, a   *)
(* new policy drops the capture, and containerd restarts if anything         *)
(* changed: the plugin connects to what runs, captures what is exempt, and   *)
(* the platform's containers are created again under the policy.             *)
installScript(n) ==
    LET policy == PolicyOf(release)
        captured == IF policy = host[n].policy THEN host[n].captured
                    ELSE {p \in running[n] : p.namespace \in policy.exempt}
        denied == {p \in running[n] : ~Admits(policy, captured, p)}
    IN
    /\ release # Unset /\ policy # Unset
    /\ host' = [host EXCEPT ![n] = [policy |-> policy, captured |-> captured,
                                    registered |-> policy.paths,
                                    binaries |-> @.binaries \union {policy.paths}]]
    /\ host' # host
    /\ running' = [running EXCEPT ![n] = @ \ denied]
    /\ lost' = lost \union {[pod |-> p, vetted |-> p \in release.vetted,
                             forced |-> release.forced] : p \in denied}
    /\ UNCHANGED <<command, step, found, facts, release, mesh, jumps, daemonSet, sweep, adopted, commands, drift>>

---------------------------------------------------------------------------
(* Everybody else: the provider rolls a platform pod, facts change, the      *)
(* mesh's watchdog asserts its jumps as long as its pod lives.               *)

RollPlatform(n) ==
    /\ drift < MaxDrift /\ drift' = drift + 1
    /\ \E p \in running[n], q \in PlatformPods \ running[n] :
        /\ p.namespace = q.namespace
        /\ running' = [running EXCEPT ![n] = (@ \ {p}) \union
                            {r \in {q} : Admits(host[n].policy, host[n].captured, r)}]
    /\ UNCHANGED <<command, step, found, facts, release, lost, host, mesh, jumps, daemonSet, sweep, adopted, commands>>

FactsChange ==
    /\ drift < MaxDrift /\ drift' = drift + 1
    /\ facts' \in ClusterFacts \ {facts}
    /\ UNCHANGED <<command, step, found, release, running, lost, host, mesh, jumps, daemonSet, sweep, adopted, commands>>

Watchdog(n) ==
    /\ mesh[n] # "gone" /\ ~jumps[n]
    /\ jumps' = [jumps EXCEPT ![n] = TRUE]
    /\ UNCHANGED <<command, step, found, facts, release, running, lost, host, mesh, daemonSet, sweep, adopted, commands, drift>>

(* The pod stops; its preStop may be cut off before it strips anything. *)
MeshStops(n) ==
    /\ mesh[n] = "terminating"
    /\ mesh' = [mesh EXCEPT ![n] = "gone"]
    /\ jumps' \in {jumps, [jumps EXCEPT ![n] = FALSE]}
    /\ UNCHANGED <<command, step, found, facts, release, running, lost, host, daemonSet, sweep, adopted, commands, drift>>
---------------------------------------------------------------------------
(* c8s uninstall *)

(* The values are read before the release goes: the paths, and the argv of   *)
(* the sweep its allowlist pins, or on any miss the one this command carries.*)
resolveSweepArgvs(c) == {release.values.argv, c.argv}

hostConfigFromValues(c) ==
    {[paths |-> release.values.paths, argv |-> a] : a \in resolveSweepArgvs(c)}

(* A release that is gone leaves the defaults. *)
chartDefaultHostConfig(c) == {[paths |-> ChartDefaults.paths, argv |-> c.argv]}

validateUninstallFlags(c) == c.sweepOnly => c.hostSweep

Uninstall ==
    /\ step \in {"done", "error"} /\ commands < MaxCommands
    /\ \E c \in UninstallLines :
        /\ command' = c
        /\ step' = IF /\ validateUninstallFlags(c)
                      /\ release = Unset => c.sweepOnly /\ ~facts.mixed
                   THEN "guard" ELSE "error"
        /\ found' \in IF release = Unset THEN chartDefaultHostConfig(c) ELSE hostConfigFromValues(c)
    /\ commands' = commands + 1
    /\ UNCHANGED <<clusterVars, release, adopted>>

(* Without volumed, the mappings of these pods could not be closed. *)
VolumeGuard ==
    /\ step = "guard"
    /\ step' = IF release # Unset /\ release.values.volumed /\ facts.volumePods /\ ~command.force
               THEN "error"
               ELSE IF command.sweepOnly THEN "gone" ELSE "delete"
    /\ UNCHANGED <<clusterVars, command, found, release, adopted, commands>>

(* helm uninstall: a hook that fails keeps the release; the hook that takes  *)
(* the plugin off a host may not have reached it.  With --wait the pods are  *)
(* gone when it returns.                                                     *)
HelmUninstall ==
    /\ step = "delete"
    /\ \/ /\ step' = "error" /\ UNCHANGED <<release, host, mesh>>
       \/ /\ release' = Unset
          /\ mesh' = [n \in HostNode |-> IF mesh[n] = "gone" THEN "gone" ELSE "terminating"]
          /\ \E reached \in SUBSET HostNode :
                host' = [n \in HostNode |->
                    IF n \in reached THEN [Clean EXCEPT !.binaries = host[n].binaries \ {found.paths}]
                    ELSE host[n]]
          /\ step' = IF command.wait THEN "deleting"
                     ELSE IF command.hostSweep THEN "gone" ELSE "done"
    /\ UNCHANGED <<command, found, facts, running, lost, jumps, daemonSet, sweep, adopted, commands, drift>>

HelmDeleted ==
    /\ step = "deleting"
    /\ \/ step' = "error"
       \/ /\ \A n \in HostNode : mesh[n] = "gone"
          /\ step' = IF command.hostSweep THEN "gone" ELSE "done"
    /\ UNCHANGED <<clusterVars, command, found, release, adopted, commands>>

(* The wait that is left out: the watchdog still runs. *)
SweepAtOnce ==
    /\ step = "gone" /\ step' = "apply"
    /\ UNCHANGED <<clusterVars, command, found, release, adopted, commands>>

(* A pod that terminates still lists. *)
waitPodsGone ==
    /\ step = "gone"
    /\ \/ step' = "error"
       \/ step' = "apply" /\ \A n \in HostNode : mesh[n] = "gone"
    /\ UNCHANGED <<clusterVars, command, found, release, adopted, commands>>

(* The namespace again, then the DaemonSet: one that is still there with the *)
(* same template is left as it is.                                           *)
ApplySweep ==
    /\ step = "apply"
    /\ \/ step' = "error" /\ UNCHANGED <<daemonSet, sweep>>
       \/ /\ step' = "rollout"
          /\ daemonSet' = found
          /\ sweep' = IF daemonSet = found THEN sweep ELSE [n \in HostNode |-> "pending"]
    /\ UNCHANGED <<command, found, facts, release, running, lost, host, mesh, jumps, adopted, commands, drift>>

(* A live plugin admits the pod only with the argv its policy pins. *)
SweepAdmitted(n) ==
    host[n].policy # Unset /\ host[n].policy.mode = "fail-closed" =>
        host[n].policy.argv = daemonSet.argv

Unregistered(n) == [host EXCEPT ![n].registered = Unset, ![n].policy = Unset]
Removed(n) == [host EXCEPT ![n].binaries = @ \ {daemonSet.paths}, ![n].captured = {}]

(* Artifacts before the registration: a kill in between leaves no binary. *)
ArtifactsFirst(n) ==
    \/ sweep[n] = "config" /\ host' = Removed(n) /\ UNCHANGED jumps
    \/ sweep[n] = "artifacts" /\ host' = Unregistered(n) /\ UNCHANGED jumps
    \/ sweep[n] = "netfilter" /\ jumps' = [jumps EXCEPT ![n] = FALSE] /\ UNCHANGED host

(* host-sweep.sh: the registration and the restart it needs, the artifacts,  *)
(* the netfilter state.                                                      *)
SweepPhase(n) ==
    \/ sweep[n] = "config" /\ host' = Unregistered(n) /\ UNCHANGED jumps
    \/ sweep[n] = "artifacts" /\ host' = Removed(n) /\ UNCHANGED jumps
    \/ sweep[n] = "netfilter" /\ jumps' = [jumps EXCEPT ![n] = FALSE] /\ UNCHANGED host

hostSweep(n) ==
    /\ daemonSet # Unset
    /\ \/ /\ sweep[n] = "pending" /\ SweepAdmitted(n)
          /\ sweep' = [sweep EXCEPT ![n] = "config"]
          /\ UNCHANGED <<host, jumps>>
       \/ /\ SweepPhase(n)
          /\ sweep' = [sweep EXCEPT ![n] = CASE @ = "config" -> "artifacts"
                                             [] @ = "artifacts" -> "netfilter" [] OTHER -> "swept"]
    /\ UNCHANGED <<command, step, found, facts, release, running, lost, mesh, daemonSet, adopted,
                   commands, drift>>

(* The restart it asked for kills it: it starts over. *)
SweepKilled(n) ==
    /\ daemonSet # Unset /\ sweep[n] \in {"artifacts", "netfilter"}
    /\ drift < MaxDrift /\ drift' = drift + 1
    /\ sweep' = [sweep EXCEPT ![n] = "config"]
    /\ UNCHANGED <<command, step, found, facts, release, running, lost, host, mesh, jumps, daemonSet,
                   adopted, commands>>

(* rollout status waits for every node; on an error the DaemonSet stays for  *)
(* its logs, and the user is told to delete it.                              *)
SweepRollout ==
    /\ step = "rollout"
    /\ \/ /\ step' = "error" /\ UNCHANGED <<daemonSet, sweep>>
       \/ /\ \A n \in HostNode : sweep[n] = "swept"
          /\ step' = "done" /\ daemonSet' = Unset /\ sweep' = [n \in HostNode |-> "pending"]
    /\ UNCHANGED <<command, found, facts, release, running, lost, host, mesh, jumps, adopted, commands, drift>>

RemoveSweep ==
    /\ step = "error" /\ daemonSet # Unset
    /\ daemonSet' = Unset /\ sweep' = [n \in HostNode |-> "pending"]
    /\ UNCHANGED <<command, step, found, facts, release, running, lost, host, mesh, jumps, adopted,
                   commands, drift>>

CommandStep ==
    \/ Install \/ Preflight \/ applyNamespace \/ HelmInstall \/ HelmReturns \/ patchAdoptedWorkload
    \/ Uninstall \/ VolumeGuard \/ HelmUninstall \/ HelmDeleted \/ waitPodsGone \/ ApplySweep \/ SweepRollout

InstallerNext ==
    \/ CommandStep \/ WebhookServes \/ FactsChange \/ RemoveSweep
    \/ \E n \in HostNode :
        \/ installScript(n) \/ RollPlatform(n) \/ Watchdog(n) \/ MeshStops(n)
        \/ hostSweep(n) \/ SweepKilled(n)

---------------------------------------------------------------------------
(* Properties *)

(* An install that was not forced harms nothing that runs.  Whatever files    *)
(* and flags make of the policy, and whatever is rolled while the plugin     *)
(* reaches the nodes one by one, a platform pod that preflightImagePolicy     *)
(* vetted survives the restart of containerd; and an adopted workload is     *)
(* rolled only when its pods meet the webhook.                               *)
InstallSpares ==
    /\ \A l \in lost : l.vetted => l.forced
    /\ adopted # "plain"

(* An uninstall that swept and returned no error left nothing: no jump the   *)
(* terminating mesh set again, no registration, no binary where the release  *)
(* had put it.  And at whatever point a sweep is killed or gives up,         *)
(* containerd does not require a plugin whose binary is gone: nothing could  *)
(* start on that host (host-sweep.sh:67, uninstall.go:610).                  *)
SweptWhole ==
    /\ (step = "done" /\ command \in UninstallLines /\ command.hostSweep) =>
          \A n \in HostNode : /\ ~jumps[n]
                              /\ host[n].registered = Unset
                              /\ found.paths \notin host[n].binaries
    /\ \A n \in HostNode : host[n].registered # Unset => host[n].registered \in host[n].binaries
===================================================================================
