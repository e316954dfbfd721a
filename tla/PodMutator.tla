------------------------------- MODULE PodMutator -------------------------------
(***************************************************************************)
(* The admission webhook: what it refuses, what it adds to a pod that opts *)
(* in, and what it refuses to an ephemeral container attached later.       *)
(*                                                                         *)
(* A pod is submitted by a client, passes the webhook, may be changed by   *)
(* another webhook and come back, is stored, and afterwards may have its   *)
(* annotations edited and ephemeral containers attached.  A container      *)
(* mounts a volume at most once, "rw" or "ro"; paths are left out.         *)
(***************************************************************************)
EXTENDS Naturals, FiniteSets, Sequences, TLC

CONSTANTS
    Submitted,               \* the pods clients submit, as they submit them
    Attached,                \* the ephemeral containers clients attach
    OtherSidecar,            \* what another mutating webhook adds
    Decoy,                   \* the volume an annotation is edited to name
    Volume,                  \* the names of encrypted volumes
    hasWorkloadClaimsEndpoint,
    None

VARIABLES
    pod,                     \* the pod object, None before it is submitted
    stage                    \* "none", "submitted", "mutated", "admitted", "edited", "refused"

mutatorVars == <<pod, stage>>

CertContainer == "c8s-cert"
CertWaitContainer == "c8s-cert-wait"
SecretContainer == "c8s-secret"
VolumeContainer == "c8s-volume"
InjectedNames == {CertContainer, CertWaitContainer, SecretContainer, VolumeContainer}

SecretsVolume == "c8s-secrets"
DefaultCertVolume == "c8s-certs"

(* The Kubernetes volume of encrypted volume n, under the reserved prefix. *)
KubeVolumeName(n) == "c8s-vol-" \o n
HasVolumePrefix(v) == \E n \in Volume : v = KubeVolumeName(n)

---------------------------------------------------------------------------
(* Reading the annotations *)

(* A list of NAME=/store/path: every entry well formed, no name twice. *)
SpecsValid(specs) ==
    /\ \A i \in DOMAIN specs : specs[i].nameOk /\ specs[i].pathOk
    /\ \A i, j \in DOMAIN specs : specs[i].name = specs[j].name => i = j

ReloadValid(r) == IF r.paths THEN r.volume # None /\ r.mount ELSE r.volume = None /\ ~r.mount

DiscoveryFields == {"volume", "mountPath", "out", "cdsCertURL", "mode"}

DiscoveryValid(d) == d.set # {} => DiscoveryFields \subseteq d.set /\ d.modeOk

Valid(a) ==
    /\ a.idOk
    /\ a.sanOk
    /\ ReloadValid(a.reload)
    /\ DiscoveryValid(a.discovery)
    /\ SpecsValid(a.secrets)
    /\ SpecsValid(a.volumes)

hasInjectionDetailAnnotations(a) ==
    \/ a.certVolume # None
    \/ a.secrets # <<>>
    \/ a.volumes # <<>>
    \/ a.reload.paths \/ a.reload.volume # None \/ a.reload.mount
    \/ a.discovery.set # {}

CertVolume(a) == IF a.certVolume = None THEN DefaultCertVolume ELSE a.certVolume

---------------------------------------------------------------------------
(* What is refused *)

parseAnnotations(a) == IF a.cw = None THEN ~hasInjectionDetailAnnotations(a) ELSE Valid(a)

validateWorkloadLabel(p) == p.label # None => p.label = p.ann.cw

rejectReservedCertContainer(p) == DOMAIN p.containers \cap InjectedNames # {}

(* A volume declared under a reserved name without the medium c8s gives it. *)
Declares(p, v, medium) == v \in DOMAIN p.volumes /\ p.volumes[v] # medium

rejectReservedCertVolume(p) == Declares(p, CertVolume(p.ann), "memory")
rejectReservedSecretsVolume(p) == Declares(p, SecretsVolume, "memory")
rejectReservedVolumeVolume(p) == \E n \in Volume : Declares(p, KubeVolumeName(n), "disk")

Accepts(p) ==
    /\ validateWorkloadLabel(p)
    /\ parseAnnotations(p.ann)
    /\ p.ann.cw # None =>
        /\ ~p.hostNetwork
        /\ p.ann.secrets # <<>> \/ p.ann.volumes # <<>> => hasWorkloadClaimsEndpoint
        /\ ~rejectReservedCertContainer(p)
        /\ ~rejectReservedCertVolume(p)
        /\ ~rejectReservedSecretsVolume(p)
        /\ ~rejectReservedVolumeVolume(p)

(* The reserved volumes as the annotations now name them. *)
AnnotatedVolumes(p) == {SecretsVolume, CertVolume(p.ann)}

(* What the injected containers mount is reserved on a stored pod, whatever  *)
(* its annotations have become.                                              *)
reservedVolumeNames(p) ==
    AnnotatedVolumes(p) \union
    UNION {DOMAIN p.init[i].mounts : i \in {j \in DOMAIN p.init : p.init[j].name \in InjectedNames}}

rejectEphemeralReservedMounts(p, c) ==
    \/ c.name \in InjectedNames
    \/ \E v \in DOMAIN c.mounts : v \in reservedVolumeNames(p) \/ HasVolumePrefix(v)

---------------------------------------------------------------------------
(* What is injected *)

(* The volumes every container of the pod is given, the opened ones with     *)
(* propagation; a mount the container declared itself is overwritten.        *)
mountAll(a) ==
    [v \in {CertVolume(a)} \union (IF a.secrets = <<>> THEN {} ELSE {SecretsVolume}) |-> "ro"]

remountAll(a) == [v \in {KubeVolumeName(a.volumes[i].name) : i \in DOMAIN a.volumes} |-> "propagated"]

getCertVolumeMounts(a, includeReloadWatch) ==
    [v \in {CertVolume(a)} |-> "rw"]
    @@ [v \in {a.discovery.volume : x \in a.discovery.set \cap {"volume"}} |-> "rw"]
    @@ [v \in IF includeReloadWatch /\ a.reload.paths THEN {a.reload.volume} ELSE {} |-> "ro"]

certContainer(a) == [name |-> CertContainer, mounts |-> getCertVolumeMounts(a, TRUE)]

certWaitContainer(a) == [name |-> CertWaitContainer, mounts |-> getCertVolumeMounts(a, FALSE)]

secretContainer(a) ==
    [name |-> SecretContainer,
     mounts |-> getCertVolumeMounts(a, FALSE) @@ (SecretsVolume :> "rw")]

volumeContainer(a) == [name |-> VolumeContainer, mounts |-> getCertVolumeMounts(a, FALSE)]

Injected(a) ==
    <<certContainer(a), certWaitContainer(a)>>
    \o (IF a.secrets = <<>> THEN <<>> ELSE <<secretContainer(a)>>)
    \o (IF a.volumes = <<>> THEN <<>> ELSE <<volumeContainer(a)>>)

(* The injected containers lead; a declared one of the same name is dropped. *)
injectInitContainers(existing, injected) ==
    injected \o SelectSeq(existing, LAMBDA c : \A i \in DOMAIN injected : injected[i].name # c.name)

(* Opened volumes replace what is declared; memory volumes are added where   *)
(* there is none of that name.                                               *)
replaceVolume(a, declared) == [v \in DOMAIN remountAll(a) |-> "disk"] @@ declared
ensureVolume(a, declared) == declared @@ [v \in DOMAIN mountAll(a) |-> "memory"]

mutatePod(p) ==
    LET shared == mountAll(p.ann) @@ remountAll(p.ann) IN
    [p EXCEPT
        !.volumes = ensureVolume(p.ann, replaceVolume(p.ann, @)),
        !.containers = [c \in DOMAIN @ |-> shared @@ @[c]],
        !.init = injectInitContainers([i \in DOMAIN @ |-> [@[i] EXCEPT !.mounts = shared @@ @]],
                                      Injected(p.ann)),
        !.injected = TRUE,
        !.label = p.ann.cw]

---------------------------------------------------------------------------
(* A pod's way through admission *)

MutatorInit == pod = None /\ stage = "none"

Submit ==
    /\ stage = "none"
    /\ pod' \in Submitted
    /\ stage' = "submitted"

(* One call of the handler for a pod CREATE. *)
Handle ==
    /\ stage = "submitted"
    /\ IF ~Accepts(pod) THEN stage' = "refused" /\ UNCHANGED pod
       ELSE /\ stage' = "mutated"
            /\ pod' = IF pod.ann.cw = None THEN pod ELSE mutatePod(pod)

(* Another mutating webhook runs after this one, which makes the API server  *)
(* call this one again on the result.                                        *)
OtherWebhook ==
    /\ stage = "mutated"
    /\ OtherSidecar.name \notin DOMAIN pod.containers
    /\ pod' = [pod EXCEPT !.containers = @ @@ (OtherSidecar.name :> OtherSidecar.mounts)]
    /\ stage' = "submitted"

Store ==
    /\ stage = "mutated"
    /\ stage' = "admitted"
    /\ UNCHANGED pod

(* A plain pod UPDATE, which the webhook does not see: annotations other     *)
(* than the workload id may change, the containers and volumes may not.      *)
EditAnnotations ==
    /\ stage \in {"admitted", "edited"}
    /\ \E v \in {None, Decoy} : pod' = [pod EXCEPT !.ann.certVolume = v, !.ann.secrets = <<>>]
    /\ stage' = "edited"

(* The handler's other entry: pods/ephemeralcontainers. *)
AttachEphemeral ==
    /\ stage \in {"admitted", "edited"}
    /\ \E c \in Attached :
        /\ c.name \notin DOMAIN pod.ephemeral
        /\ ~rejectEphemeralReservedMounts(pod, c)
        /\ pod' = [pod EXCEPT !.ephemeral = @ @@ (c.name :> c.mounts)]
    /\ UNCHANGED stage

MutatorNext == Submit \/ Handle \/ OtherWebhook \/ Store \/ EditAnnotations \/ AttachEphemeral

---------------------------------------------------------------------------
(* Properties *)

Stored == stage \in {"admitted", "edited"}

(* The names of the init containers, in order. *)
InitNames(p) == [i \in DOMAIN p.init |-> p.init[i].name]

(* The volumes the injected containers write: the key's and the secrets'. *)
Material(p) ==
    UNION {{v \in DOMAIN p.init[i].mounts : p.init[i].mounts[v] = "rw"} :
              i \in {j \in DOMAIN p.init : p.init[j].name \in InjectedNames}}
    \ {p.ann.discovery.volume}

(* The pod's own containers, by their mounts. *)
OwnMounts(p) ==
    {p.containers[c] : c \in DOMAIN p.containers}
    \union {p.init[i].mounts : i \in {j \in DOMAIN p.init : p.init[j].name \notin InjectedNames}}

(* On a pod that opted in, whatever its author declared, another webhook     *)
(* added, or was edited and attached since: the sidecar leads and its gate   *)
(* follows, each once; the key and the secrets lie in memory-backed volumes; *)
(* no container of the pod writes there, and one attached later mounts none  *)
(* of them.  A call on the handler's own result changes nothing, so it does  *)
(* not matter how often the API server calls it.                             *)
MaterialGuarded ==
    Stored /\ pod.ann.cw # None =>
        /\ ~pod.hostNetwork /\ pod.label = pod.ann.cw
        /\ SubSeq(InitNames(pod), 1, 2) = <<CertContainer, CertWaitContainer>>
        /\ \A n \in InjectedNames : Cardinality({i \in DOMAIN pod.init : pod.init[i].name = n}) <= 1
        /\ \A v \in Material(pod) :
            /\ pod.volumes[v] = "memory"
            /\ \A m \in OwnMounts(pod) : v \in DOMAIN m => m[v] = "ro"
            /\ \A c \in DOMAIN pod.ephemeral : v \notin DOMAIN pod.ephemeral[c]
        /\ stage = "admitted" => Accepts(pod) /\ mutatePod(pod) = pod
=================================================================================
