----------------------------- MODULE MCControlPlane -----------------------------
(***************************************************************************)
(* What runs against the Kubernetes API: the admission webhook, the        *)
(* operator process around it, the reconcilers of the workloads' Services, *)
(* and the commands that install and remove it all.  They meet only in the *)
(* API server, at objects of different kinds, so each behaviour follows    *)
(* one of them and leaves the others in a fixed initial state.             *)
(***************************************************************************)
EXTENDS PodMutator, Operator, WorkloadService, Installer

VARIABLE part                \* the part this behaviour follows

controlVars == <<part, mutatorVars, operatorVars, serviceVars, installerVars>>

ControlInit ==
    /\ part \in {"webhook", "operator", "services", "installer"}
    /\ MutatorInit
    /\ OperatorInit
    /\ ServiceInit
    /\ \A w \in Workload : template[w].id # Unnamable /\ template[w].ports = UserService.ports
    /\ \A n \in WorkloadId \ {CHOOSE i \in WorkloadId : TRUE} : services[n] = Nothing
    /\ InstallerInit
    /\ \A n \in HostNode : (CHOOSE p \in PlatformPods : p.namespace = KubeSystem) \in running[n]
    /\ part # "services" =>
        /\ \A w \in Workload : template[w].id = CHOOSE i \in WorkloadId : TRUE
        /\ services = [n \in WorkloadId |-> Nothing]
    /\ part # "installer" =>
        /\ facts = CHOOSE f \in ClusterFacts : TRUE
        /\ \A n \in HostNode : running[n] = PlatformPods

notWebhook == <<part, operatorVars, serviceVars, installerVars>>
notOperator == <<part, mutatorVars, serviceVars, installerVars>>
notServices == <<part, mutatorVars, operatorVars, installerVars>>
notInstaller == <<part, mutatorVars, operatorVars, serviceVars>>

ControlNext ==
    \/ part = "webhook" /\ MutatorNext /\ UNCHANGED notWebhook
    \/ part = "operator" /\ OperatorNext /\ UNCHANGED notOperator
    \/ part = "services" /\ ServiceNext /\ UNCHANGED notServices
    \/ part = "installer" /\ InstallerNext /\ UNCHANGED notInstaller

(* The operator's goroutines run and its process is restarted; helm creates   *)
(* the configuration; owners create their pods again; the kubelet ends        *)
(* deleted ones.  Work queues, timers, watches and the garbage collector      *)
(* make progress.                                                             *)
ControlFairness ==
    /\ WF_operatorVars(part = "operator" /\ OperatorProcess)
    /\ WF_operatorVars(part = "operator" /\ webhookCertRotator)
    /\ WF_operatorVars(part = "operator" /\ MirrorRead)
    /\ WF_operatorVars(part = "operator" /\ MirrorWrite)
    /\ WF_operatorVars(part = "operator" /\ CreateConfig)
    /\ WF_operatorVars(part = "operator" /\ (\E s \in Slot : CreatePod(s) \/ PodGone(s)))
    /\ \A w \in Workload :
        WF_serviceVars(part = "services" /\ (ReconcileStep(w) \/ Requeue(w)))
    /\ WF_serviceVars(part = "services" /\ (\E n \in WorkloadId : Sync(n) \/ Collect(n)))

ControlSpec == ControlInit /\ [][ControlNext]_controlVars /\ ControlFairness

(* The controllers catch up with whatever happened while they were behind:    *)
(* the sweep with pods admitted before the webhook, the mirror with the pods, *)
(* the Service reconcilers with edits, collisions and a stale cache.          *)
ControllersConverge ==
    /\ part = "operator" => OperatorHeals
    /\ part = "services" => ServicesConverge

---------------------------------------------------------------------------
(* The webhook's instance: annotations, volumes and mounts of every kind the *)
(* handler tells apart, crossed with names it reserves.                      *)

Entry(n) == [name |-> n, nameOk |-> TRUE, pathOk |-> TRUE]

PlainAnnotations ==
    [cw |-> "w", idOk |-> TRUE, sanOk |-> TRUE, certVolume |-> None, secrets |-> <<>>, volumes |-> <<>>,
     reload |-> [paths |-> FALSE, volume |-> None, mount |-> FALSE],
     discovery |-> [set |-> {}, volume |-> None, modeOk |-> FALSE]]

MCAnnotations ==
    {[PlainAnnotations EXCEPT !.cw = c, !.certVolume = v, !.secrets = s, !.volumes = w] :
        c \in {None, "w"}, v \in {None, "own"},
        s \in {<<>>, <<Entry("a")>>, <<Entry("a"), Entry("a")>>}, w \in {<<>>, <<Entry("x")>>}}
    \union {[PlainAnnotations EXCEPT !.reload = [paths |-> p, volume |-> v, mount |-> m],
                                     !.discovery = [set |-> d, volume |-> "disc", modeOk |-> TRUE]] :
                p \in BOOLEAN, v \in {None, "watch"}, m \in BOOLEAN, d \in {{"volume"}, DiscoveryFields}}
    \union {[PlainAnnotations EXCEPT !.idOk = FALSE], [PlainAnnotations EXCEPT !.sanOk = FALSE]}

MCVolumeNames == {"own", DefaultCertVolume, SecretsVolume, KubeVolumeName("x")}
MCMounts == {<<>>} \union {v :> "rw" : v \in MCVolumeNames}

MCSubmitted ==
    {[ann |-> a, label |-> l, hostNetwork |-> h, volumes |-> v, containers |-> "app" :> m,
      init |-> i, ephemeral |-> <<>>, injected |-> FALSE] :
        a \in MCAnnotations, l \in {None, "w"}, h \in {FALSE}, m \in MCMounts,
        v \in {<<>>} \union {n :> medium : n \in MCVolumeNames, medium \in {"memory", "disk", "host"}},
        i \in {<<>>, <<[name |-> CertContainer, mounts |-> <<>>]>>,
               <<[name |-> "setup", mounts |-> SecretsVolume :> "rw"]>>}}

MCAttached ==
    {[name |-> "dbg", mounts |-> m] : m \in MCMounts} \union {[name |-> CertContainer, mounts |-> <<>>]}

MCOther == [name |-> "proxy", mounts |-> DefaultCertVolume :> "rw"]

---------------------------------------------------------------------------
(* The commands' instance. *)

MCPlatform == {[namespace |-> KubeSystem, digest |-> "d1"], [namespace |-> KubeSystem, digest |-> "d2"],
               [namespace |-> "cni", digest |-> "d1"]}

NoFile == [distro |-> Unset, exempt |-> Unset, mode |-> Unset, baked |-> Unset, admits |-> Unset,
           volumed |-> Unset, paths |-> Unset, argv |-> Unset]

Plain == [hosted |-> TRUE, keys |-> TRUE, force |-> FALSE, files |-> FALSE, file |-> NoFile,
          singleNode |-> FALSE, resolve |-> TRUE, pullSecret |-> FALSE, cidr |-> FALSE, adopt |-> FALSE,
          inReleaseNamespace |-> FALSE, wait |-> TRUE, volumes |-> FALSE, argv |-> "new"]

MCInstallLines ==
    {[Plain EXCEPT !.adopt = TRUE, !.volumes = TRUE],
     [Plain EXCEPT !.adopt = TRUE, !.wait = FALSE],
     [Plain EXCEPT !.force = TRUE, !.wait = FALSE, !.argv = "old"],
     [Plain EXCEPT !.files = TRUE, !.file = [NoFile EXCEPT !.paths = "custom", !.admits = {"d1"}],
                   !.argv = "old"],
     [Plain EXCEPT !.files = TRUE, !.file = [NoFile EXCEPT !.exempt = {}], !.keys = FALSE]}

Sweeping == [hostSweep |-> TRUE, sweepOnly |-> FALSE, wait |-> TRUE, force |-> FALSE, argv |-> "new"]

MCUninstallLines ==
    {Sweeping, [Sweeping EXCEPT !.wait = FALSE, !.force = TRUE], [Sweeping EXCEPT !.sweepOnly = TRUE]}

AllWell == [baked |-> FALSE, target |-> TRUE, mixed |-> FALSE, distro |-> "k8s", addresses |-> TRUE,
            published |-> TRUE, labelled |-> TRUE, portFree |-> TRUE, secret |-> TRUE, volumePods |-> FALSE]

MCFacts == {AllWell, [AllWell EXCEPT !.target = FALSE, !.volumePods = TRUE, !.distro = "rke2"]}
=================================================================================
