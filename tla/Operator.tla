-------------------------------- MODULE Operator --------------------------------
(***************************************************************************)
(* The c8s operator process: it makes itself a CA and a serving leaf,      *)
(* patches the CA onto the webhook configuration, serves the webhook,      *)
(* sweeps the pods that were admitted without it, rotates the leaf, and    *)
(* mirrors the pods of a ConfidentialWorkload into its status.             *)
(*                                                                         *)
(* Helm creates the operator's Deployment before the configuration, so the *)
(* process may start first.  Admission is fail-closed from the moment the  *)
(* configuration exists.                                                   *)
(***************************************************************************)
EXTENDS Naturals, FiniteSets

CONSTANTS
    Slot,                    \* the pods of the cluster, by name
    Owned,                   \* those with a controller owner, which recreates them
    Excluded,                \* those in a namespace the webhook does not cover
    LeafTTL,                 \* ticks a serving leaf lives
    MaxFailures,             \* crashes, failed API calls and failed leaf issues
    NoConfig

VARIABLES
    run,                     \* the process: "down", "minted", "patched", "sweeping", "serving"
    ca,                      \* the CA this process minted, told apart from the bundle's
    leafAge,                 \* age of the serving leaf
    bundle,                  \* the CA on the configuration, NoConfig before helm creates it
    pods,                    \* [Slot -> {"none", "plain", "injected", "leaving"}]
    listed,                  \* the pods of the sweep's list still to be looked at
    status,                  \* the mirrored summary
    read,                    \* the summary a reconcile computed and has not written
    failures

operatorVars == <<run, ca, leafAge, bundle, pods, listed, status, read, failures>>

OperatorInit ==
    /\ run = "down" /\ ca = 0 /\ leafAge = 0
    /\ bundle = NoConfig
    /\ pods = [s \in Slot |-> "none"]
    /\ listed = {}
    /\ status = [total |-> 0, attested |-> 0]
    /\ read = status
    /\ failures = 0

Fail == failures < MaxFailures /\ failures' = failures + 1

---------------------------------------------------------------------------
(* The API server: admission of a pod that carries the workload annotation *)

WebhookAnswers == run \in {"sweeping", "serving"} /\ bundle = ca /\ leafAge < LeafTTL

CreatePod(s) ==
    /\ pods[s] = "none"
    /\ \/ (bundle = NoConfig \/ s \in Excluded) /\ pods' = [pods EXCEPT ![s] = "plain"]
       \/ bundle # NoConfig /\ s \notin Excluded /\ WebhookAnswers
          /\ pods' = [pods EXCEPT ![s] = "injected"]
    /\ UNCHANGED <<run, ca, leafAge, bundle, listed, status, read, failures>>

(* The kubelet ends a deleted pod. *)
PodGone(s) ==
    /\ pods[s] = "leaving"
    /\ pods' = [pods EXCEPT ![s] = "none"]
    /\ UNCHANGED <<run, ca, leafAge, bundle, listed, status, read, failures>>

(* Helm. *)
CreateConfig ==
    /\ bundle = NoConfig
    /\ bundle' = 0
    /\ UNCHANGED <<run, ca, leafAge, pods, listed, status, read, failures>>

---------------------------------------------------------------------------
(* Startup: bootstrapWebhookPKI, then the manager *)

(* A fresh CA, its leaf and key written to the serving directory. *)
BootstrapServingCert ==
    /\ run = "down"
    /\ run' = "minted"
    /\ ca' = CHOOSE c \in 1..2 : c # bundle
    /\ leafAge' = 0
    /\ UNCHANGED <<bundle, pods, listed, status, read, failures>>

(* A start that does without the configuration. *)
PatchIfThere ==
    /\ run = "minted"
    /\ bundle' = IF bundle = NoConfig THEN bundle ELSE ca
    /\ run' = "patched"
    /\ UNCHANGED <<ca, leafAge, pods, listed, status, read, failures>>

(* Without the configuration the process exits and is restarted. *)
PatchCABundle ==
    /\ run = "minted"
    /\ \/ bundle = NoConfig /\ run' = "down" /\ UNCHANGED <<bundle, failures>>
       \/ bundle # NoConfig /\ bundle' = ca /\ run' = "patched" /\ UNCHANGED failures
       \/ Fail /\ run' = "down" /\ UNCHANGED bundle
    /\ UNCHANGED <<ca, leafAge, pods, listed, status, read>>

needsReinject(s) == pods[s] = "plain" /\ s \notin Excluded

(* The manager starts: the webhook serves and the sweep lists the pods. *)
Serve ==
    /\ run = "patched"
    /\ run' = "sweeping"
    /\ listed' = {s \in Slot : needsReinject(s)}
    /\ UNCHANGED <<ca, leafAge, bundle, pods, status, read, failures>>

(* One pod of the list.  A pod without a controller owner is left; one that  *)
(* is gone is skipped; an API error ends the process.  The delete is by      *)
(* name: a pod that was replaced since the list is deleted in its stead.     *)
SweepPod(s) ==
    /\ run = "sweeping" /\ s \in listed
    /\ \/ /\ listed' = listed \ {s}
          /\ pods' = IF s \in Owned /\ pods[s] # "none" THEN [pods EXCEPT ![s] = "leaving"] ELSE pods
          /\ UNCHANGED <<run, failures>>
       \/ /\ Fail
          /\ run' = "down" /\ listed' = {}
          /\ UNCHANGED pods
    /\ UNCHANGED <<ca, leafAge, bundle, status, read>>

SweepDone ==
    /\ run = "sweeping" /\ listed = {}
    /\ run' = "serving"
    /\ UNCHANGED <<ca, leafAge, bundle, pods, listed, status, read, failures>>

reinjectSweep == SweepDone \/ \E s \in Slot : SweepPod(s)

Crash ==
    /\ run # "down" /\ Fail
    /\ run' = "down" /\ listed' = {}
    /\ read' = status
    /\ UNCHANGED <<ca, leafAge, bundle, pods, status>>

---------------------------------------------------------------------------
(* The rotator: re-issues the leaf when two thirds of its life are over and  *)
(* tries again soon after a failure, so at least once more before it lapses. *)

Tick ==
    /\ run \in {"sweeping", "serving"}
    /\ leafAge < LeafTTL
    /\ 3 * leafAge < 2 * LeafTTL
    /\ leafAge' = leafAge + 1
    /\ UNCHANGED <<run, ca, bundle, pods, listed, status, read, failures>>

webhookCertRotator ==
    /\ run \in {"sweeping", "serving"}
    /\ 3 * leafAge >= 2 * LeafTTL
    /\ \/ leafAge' = 0 /\ UNCHANGED failures
       \/ Fail /\ leafAge' = IF leafAge < LeafTTL THEN leafAge + 1 ELSE leafAge
    /\ UNCHANGED <<run, ca, bundle, pods, listed, status, read>>

---------------------------------------------------------------------------
(* The status mirror: one reconcile reads the pods and later writes what it  *)
(* saw; it is queued again whatever the outcome.                             *)

Serving == run \in {"sweeping", "serving"}

(* A pod counts as attested when the kubelet reports it ready. *)
isPodReady(s) == pods[s] \in {"plain", "injected"}

summarizeWorkloadAttestation ==
    [total |-> Cardinality({s \in Slot : pods[s] # "none"}),
     attested |-> Cardinality({s \in Slot : isPodReady(s)})]

MirrorRead ==
    /\ Serving
    /\ read' = summarizeWorkloadAttestation
    /\ UNCHANGED <<run, ca, leafAge, bundle, pods, listed, status, failures>>

MirrorWrite ==
    /\ Serving
    /\ status' = read
    /\ UNCHANGED <<run, ca, leafAge, bundle, pods, listed, read, failures>>

---------------------------------------------------------------------------

OperatorProcess == BootstrapServingCert \/ PatchCABundle \/ Serve \/ reinjectSweep

OperatorNext ==
    \/ OperatorProcess
    \/ Crash \/ Tick \/ webhookCertRotator \/ MirrorRead \/ MirrorWrite
    \/ CreateConfig
    \/ \E s \in Slot : CreatePod(s) \/ PodGone(s)

(* The annotated pods that have an owner end up injected, whether they were  *)
(* admitted before the configuration existed or while the process was down,  *)
(* and whatever fails on the way; and the mirrored status ends up that of    *)
(* the pods.                                                                 *)
OperatorHeals ==
    <>[](/\ \A s \in Owned \ Excluded : pods[s] = "injected"
         /\ status = summarizeWorkloadAttestation)
=================================================================================
