------------------------------ MODULE NodeProofs ------------------------------
(***************************************************************************)
(* Theorems about two that live in a node's pods, for any constants: the   *)
(* image-policy plugin (NriPlugin), which answers for every container of   *)
(* its node whatever it crashed between, and the front door of the router  *)
(* (FrontDoor) with get-cert beside it, whose files keep an order every    *)
(* reader can use.                                                         *)
(***************************************************************************)
EXTENDS NriPlugin, FrontDoor, TLAPS

-------------------------------------------------------------------------------
(* The inventory.  A container is accounted for when its sandbox's record    *)
(* names it or cannot be answered because of it.                             *)
Accounted(c) == c \in recorded[SandboxOf[c]] \/ c \in unresolved[SandboxOf[c]]

InventoryType ==
    /\ recorded \in [Sandbox -> SUBSET Ctr]
    /\ unresolved \in [Sandbox -> SUBSET Ctr]

(* History.Record: recording keeps what the record has, accounts for its     *)
(* container, and un-accounts none.                                          *)
LEMMA RecordAccounts ==
    ASSUME NEW c \in Ctr, NEW known, recordObserved(c, known), InventoryType
    PROVE  /\ InventoryType'
           /\ \A s \in Sandbox : recorded[s] \subseteq recorded'[s]
           /\ Accounted(c)'
           /\ \A d \in Ctr : Accounted(d) => Accounted(d)'
<1> SandboxOf[c] \in Sandbox /\ \A d \in Ctr : SandboxOf[d] \in Sandbox
  BY SandboxOfMaps
<1> QED
  BY DEF recordObserved, InventoryType, Accounted

-------------------------------------------------------------------------------
(* The plugin.  What Synchronize listed is either still to be stored, stored *)
(* or being visited, and a running container outside that is accounted for;  *)
(* a created container came through the plugin, whatever crashed since.      *)
Pending(c) == c \in checking \/ c \in deferred \/ (sync = "deferring" /\ c \in listed)

PluginInv ==
    /\ InventoryType
    /\ config \in Configs
    /\ life \in [config.ctrs -> {"none", "created", "running", "exited", "gone"}]
    /\ pods \in [NodePods -> {"none", "live", "gone"}]
    /\ sync \in {"waiting", "deferring", "checking", "done"}
    /\ main = "down" => sync = "waiting"
    /\ sync # "done" => deferred = {}
    /\ sync # "waiting" => \A c \in config.ctrs : life[c] = "running" => Accounted(c) \/ Pending(c)
    /\ \A c \in config.ctrs : life[c] = "created" => c \in cleared
    /\ FatalExisting /\ marker => \A c \in config.ctrs : life[c] = "running" => c \in cleared

(* A node that boots has no container and no marker. *)
LEMMA PluginInitInv == PluginInit => PluginInv
<1> SUFFICES ASSUME PluginInit PROVE PluginInv
  BY SMTT(40)
<1> QED
  BY DEF PluginInit, PluginInv, newAdmissionInventory, Empty, InventoryType

(* The pods of the node are sandboxes of its containers. *)
LEMMA NodePodsAreSandboxes == ASSUME PluginInv PROVE NodePods \subseteq Sandbox /\ config.ctrs \subseteq Ctr
  BY SMTT(40), ConfigsAreNodes, SandboxOfMaps DEF PluginInv, NodePods

(* Each step of the plugin keeps PluginInv; a recorded container stays       *)
(* recorded unless its pod goes or the process ends.                         *)
LEMMA PluginNextInv ==
    ASSUME PluginInv, PluginNext
    PROVE  PluginInv' /\ RecordGrows
<1> USE DEF PluginInv, RecordGrows
<1>t. /\ \A s \in NodePods : s \in Sandbox
      /\ \A c \in config.ctrs : c \in Ctr /\ SandboxOf[c] \in NodePods
  BY SMTT(40), NodePodsAreSandboxes DEF NodePods
<1>c. config' = config /\ NodePods' = NodePods /\ FatalExisting' = FatalExisting
  BY DEF PluginNext, NodePods, FatalExisting
<1>1. ASSUME Start \/ pullInitial \/ SetReady \/ runPullLoop
      PROVE  PluginInv' /\ RecordGrows
  BY <1>1, <1>t, <1>c DEF Start, pullInitial, SetReady, runPullLoop, inventory, runtime, disk,
     InventoryType, Accounted, Pending
<1>2. CASE RunDeferredCheck
  BY SMTT(40), <1>2, <1>t, <1>c DEF RunDeferredCheck, inventory, runtime, disk, InventoryType, Accounted, Pending
<1>3. CASE Synchronize
  <2>1. ASSUME NEW c \in config.ctrs, life'[c] = "running"
        PROVE  Pending(c)'
    BY <1>3, <2>1 DEF Synchronize, runtime, Pending
  <2>2. FatalExisting /\ marker' => \A c \in config.ctrs : life'[c] = "running" => c \in cleared
    BY SMTT(40), <1>3 DEF Synchronize, bootCheck, runtime
  <2> QED
    BY <1>3, <1>t, <1>c, <2>1, <2>2 DEF Synchronize, runtime, InventoryType
<1>f. ASSUME fatal PROVE PluginInv' /\ RecordGrows
  BY SMTT(40), <1>f, <1>t, <1>c DEF fatal, Fresh, Emptied, Empty, InventoryType
<1>4. CASE SynchronizeFatal
  BY <1>4, <1>f DEF SynchronizeFatal
<1>5. CASE Defer
  BY SMTT(40), <1>5, <1>t, <1>c DEF Defer, inventory, runtime, disk, InventoryType, Accounted, Pending
<1>6. CASE SynchronizeReturns
  BY <1>6, <1>t, <1>c DEF SynchronizeReturns, inventory, runtime, disk, InventoryType, Accounted, Pending
<1>7. ASSUME NEW c \in config.ctrs, checkExisting(c)
      PROVE  PluginInv' /\ RecordGrows
  <2>1. CASE fatal
    BY SMTT(40), <2>1, <1>f
  <2>2. CASE ~fatal
    <3>1. PICK again \in Resolves(c) : recordObserved(c, again)
      BY <1>7, <2>2 DEF checkExisting
    <3>2. /\ checking' = checking \ {c}
          /\ life' = life \/ life' = [life EXCEPT ![c] = IF @ = "running" THEN "exited" ELSE @]
          /\ UNCHANGED <<pods, cleared, main, sync, ready, policy, listed, deferred, disk, crashes>>
      BY SMTT(40), <1>7, <2>2 DEF checkExisting, StopContainer
    <3>3. /\ InventoryType'
          /\ \A s \in Sandbox : recorded[s] \subseteq recorded'[s]
          /\ Accounted(c)'
          /\ \A d \in Ctr : Accounted(d) => Accounted(d)'
      BY SMTT(40), <3>1, <1>t, RecordAccounts
    <3> QED
      BY SMTT(40), <3>2, <3>3, <1>t, <1>c DEF disk, Pending
  <2> QED
    BY <2>1, <2>2
<1>8. ASSUME NEW c \in config.ctrs, CreateContainer(c) \/ StartUnseen(c) \/ Exit(c)
      PROVE  PluginInv' /\ RecordGrows
  <2> USE DEF inventory, process, disk, InventoryType, Accounted, Pending
  <2>1. CASE CreateContainer(c)
    BY SMTT(40), <2>1, <1>t, <1>c DEF CreateContainer
  <2>2. CASE StartUnseen(c)
    BY SMTT(40), <2>2, <1>t, <1>c DEF StartUnseen, Registered, InSynchronize
  <2>3. CASE Exit(c)
    BY SMTT(40), <2>3, <1>t, <1>c DEF Exit
  <2> QED
    BY SMTT(40), <1>8, <2>1, <2>2, <2>3
<1>9. ASSUME NEW c \in config.ctrs, StartContainer(c)
      PROVE  PluginInv' /\ RecordGrows
  <2>1. PICK known : recordObserved(c, known)
    BY SMTT(40), <1>9 DEF StartContainer
  <2>2. /\ InventoryType'
        /\ \A s \in Sandbox : recorded[s] \subseteq recorded'[s]
        /\ Accounted(c)'
        /\ \A d \in Ctr : Accounted(d) => Accounted(d)'
    BY SMTT(40), <2>1, <1>t, RecordAccounts
  <2> QED
    BY SMTT(40), <1>9, <2>2, <1>t, <1>c DEF StartContainer, process, disk, Pending
<1>10. ASSUME NEW c \in config.ctrs, RemoveContainer(c)
       PROVE  PluginInv' /\ RecordGrows
  BY SMTT(40), <1>10, <1>t, <1>c DEF RemoveContainer, remove, inventory, process, disk, InventoryType, Accounted, Pending
<1>11. ASSUME NEW s \in NodePods, RunPodSandbox(s)
       PROVE  PluginInv' /\ RecordGrows
  BY SMTT(40), <1>11, <1>t, <1>c DEF RunPodSandbox, recordSandbox, inventory, process, disk, InventoryType, Accounted, Pending
<1>12. ASSUME NEW s \in NodePods, RemovePodSandbox(s)
       PROVE  PluginInv' /\ RecordGrows
  BY SMTT(40), <1>12, <1>t, <1>c DEF RemovePodSandbox, removeSandbox, inventory, process, disk, InventoryType, Accounted, Pending
<1>13. CASE Crash \/ InstallerRewrites
  BY SMTT(40), <1>13, <1>t, <1>c DEF Crash, InstallerRewrites, Fresh, Emptied, Empty, runtime, InventoryType
<1>14. CASE Reboot
  BY SMTT(40), <1>14, <1>t, <1>c DEF Reboot, Fresh, Emptied, Empty, InventoryType
<1> QED
  BY ZenonT(40), <1>1, <1>2, <1>3, <1>4, <1>5, <1>6, <1>7, <1>8, <1>9, <1>10, <1>11, <1>12, <1>13, <1>14 DEF PluginNext, Main

(* The invariant is about pluginVars only. *)
LEMMA PluginStutterInv == ASSUME PluginInv, UNCHANGED pluginVars PROVE PluginInv'
  BY DEF PluginInv, pluginVars, inventory, runtime, process, disk, InventoryType, Accounted, Pending, NodePods,
     FatalExisting

(* The inductive invariant holds in every state of the node. *)
LEMMA PluginInvariance == PluginSpec => []PluginInv
  BY PluginInitInv, PluginNextInv, PluginStutterInv, PTL DEF PluginSpec

(* bootgate.go:65: for every configuration, set of containers and number of  *)
(* crashes: on a node whose marker is present, every running container was   *)
(* admitted by the plugin since boot.                                        *)
THEOREM MarkerHolds == PluginSpec => []MarkerMeansClean
<1>1. PluginInv => MarkerMeansClean
  BY SMTT(40) DEF PluginInv, MarkerMeansClean
<1> QED
  BY <1>1, PluginInvariance, PTL

(* inventory.go:71, 162: once the startup check has nothing left to visit,   *)
(* an answer leaves out no running container, and within a process a record  *)
(* only grows until its sandbox goes.                                        *)
THEOREM AnswersAreComplete == PluginSpec => AnswersComplete
<1>1. PluginInv => CoversRunning
  BY NodePodsAreSandboxes DEF PluginInv, CoversRunning, Registered, Answers, Accounted, Pending
<1>2. PluginInv /\ [PluginNext]_pluginVars => [CoversRunning' /\ RecordGrows]_pluginVars
  <2> SUFFICES ASSUME PluginInv, PluginNext PROVE CoversRunning' /\ RecordGrows
    OBVIOUS
  <2>1. PluginInv' /\ RecordGrows
    BY PluginNextInv
  <2>2. ASSUME NEW s \in NodePods', NEW c \in config'.ctrs PROVE s \in Sandbox /\ c \in Ctr
    BY <2>1, ConfigsAreNodes, SandboxOfMaps DEF PluginInv, NodePods
  <2> QED
    BY <2>1, <2>2 DEF PluginInv, CoversRunning, Registered, Answers, Accounted, Pending
<1> QED
  BY <1>2, PluginInvariance, PTL DEF PluginSpec, AnswersComplete



-------------------------------------------------------------------------------
(* get-cert.  The key on disk, once there, is the key of every request; from  *)
(* the reply on, what is still to be written is at least as new as the files. *)
Phases == {"stopped", "absent", "waiting"} \cup Busy

Reply == [key : Keys, ca : Nat, left : Nat]

GetCertType ==
    /\ cds \in Nat
    /\ keyFile \in Keys \cup {Absent}
    /\ caFile \in Nat \cup {Absent}
    /\ getcert.at \in Phases
    /\ DOMAIN getcert = {"at", "key", "reply", "leaf", "haveCert", "failures", "timer"}

GetCertInv ==
    /\ GetCertType
    /\ caFile # Absent => caFile <= cds
    /\ getcert.at \in Busy => getcert.key \in Keys /\ keyFile \in {Absent, getcert.key}
    /\ getcert.at \in {"ca", "cert", "doc"} => keyFile = getcert.key
    /\ getcert.at \in {"key", "ca", "cert", "doc"} =>
          /\ getcert.reply \in Reply
          /\ getcert.reply.key = getcert.key /\ getcert.reply.ca <= cds
          /\ caFile # Absent => caFile <= getcert.reply.ca
    /\ getcert.at \in {"cert", "doc"} => caFile = getcert.reply.ca
    /\ certFile # Absent =>
          /\ certFile \in Reply
          /\ keyFile = certFile.key /\ caFile # Absent /\ caFile >= certFile.ca

(* run.go:925 writeOutputs: for any keys, any number of restarts of the      *)
(* sidecar and of CDS and any failures: once the certificate is on disk, its *)
(* key is beside it and the CA bundle is there and not older.                *)
THEOREM OutputsAreInOrder == GetCertSpec => []OutputsInOrder
<1> USE GetCertAssumption
<1>1. GetCertInit => GetCertInv
  BY SMTT(40) DEF GetCertInit, GetCertInv, GetCertType, Stopped, Phases, Busy
<1>2. GetCertInv /\ [GetCertWork \/ TimePasses]_getcertVars => GetCertInv'
  <2> SUFFICES ASSUME GetCertInv, [GetCertWork \/ TimePasses]_getcertVars
               PROVE  GetCertInv'
    OBVIOUS
  <2> USE DEF GetCertInv, GetCertType, Phases, Busy, files
  <2>1. CASE StartRun
    BY <2>1 DEF StartRun, loadOrGenerateKey, Stopped
  <2>2. CASE Renew
    BY <2>2 DEF Renew, loadOrGenerateKey
  <2>3. CASE Obtain
    <3>1. /\ getcert'.at = "key" /\ getcert'.key = getcert.key /\ DOMAIN getcert' = DOMAIN getcert
          /\ getcert'.reply = [key |-> getcert.key, ca |-> cds, left |-> LeafLife]
      BY <2>3 DEF Obtain
    <3> QED
      BY <2>3, <3>1 DEF Obtain, Reply
  <2>4. CASE WriteKey
    <3>1. /\ getcert'.at = "ca" /\ getcert'.key = getcert.key /\ getcert'.reply = getcert.reply
          /\ DOMAIN getcert' = DOMAIN getcert
      BY <2>4 DEF WriteKey
    <3> QED
      BY <2>4, <3>1 DEF WriteKey, Reply
  <2>5. CASE WriteCA
    <3>1. /\ getcert'.at = "cert" /\ getcert'.key = getcert.key /\ getcert'.reply = getcert.reply
          /\ DOMAIN getcert' = DOMAIN getcert
      BY <2>5 DEF WriteCA
    <3> QED
      BY <2>5, <3>1 DEF WriteCA, Reply
  <2>6. CASE WriteCert
    <3>1. /\ getcert'.at = "doc" /\ getcert'.key = getcert.key /\ getcert'.reply = getcert.reply
          /\ DOMAIN getcert' = DOMAIN getcert
      BY <2>6 DEF WriteCert
    <3> QED
      BY <2>6, <3>1 DEF WriteCert, Reply
  <2>7. CASE Finish
    <3>1. getcert'.at = "waiting" /\ DOMAIN getcert' = DOMAIN getcert
      BY <2>7 DEF Finish, Stopped
    <3> QED
      BY <2>7, <3>1 DEF Finish
  <2>8. ASSUME UNCHANGED <<cds, files>>, getcert'.at \in {"waiting", "stopped"}, DOMAIN getcert' = DOMAIN getcert
        PROVE  GetCertInv'
    BY SMTT(40), <2>8
  <2>9. CASE FirstFails \/ RenewalFails \/ GetCertCrash
    <3>1. UNCHANGED <<cds, files>>
      BY ZenonT(40), <2>9 DEF FirstFails, RenewalFails, GetCertCrash, ObtainFails
    <3>2. DOMAIN Stopped = DOMAIN getcert /\ Stopped.at = "stopped"
      BY DEF Stopped
    <3>3. CASE getcert' = Stopped
      BY <2>8, <3>1, <3>2, <3>3
    <3>4. CASE getcert' = [Stopped EXCEPT !.at = "waiting", !.timer = 1]
      BY <2>8, <3>1, <3>2, <3>4
    <3>5. ASSUME NEW d, getcert' = [getcert EXCEPT !.at = "waiting", !.key = Absent, !.reply = Absent,
                                        !.failures = Least(@ + 1, expiredExitFailures), !.timer = d]
          PROVE  GetCertInv'
      <4>1. getcert'.at = "waiting" /\ DOMAIN getcert' = DOMAIN getcert
        BY <3>5
      <4> QED
        BY <2>8, <3>1, <4>1
    <3> QED
      BY ZenonT(40), <2>9, <3>3, <3>4, <3>5 DEF FirstFails, RenewalFails, GetCertCrash
  <2>10. CASE servedCAStale
    BY <2>10 DEF servedCAStale
  <2>11. CASE CdsRestarts
    BY <2>11 DEF CdsRestarts, Reply
  <2>12. CASE TimePasses
    BY <2>12 DEF TimePasses, Older, Lower, Reply
  <2>13. CASE UNCHANGED getcertVars
    BY <2>13 DEF getcertVars
  <2> QED
    BY ZenonT(40), <2>1, <2>2, <2>3, <2>4, <2>5, <2>6, <2>7, <2>8, <2>9, <2>10, <2>11, <2>12, <2>13 DEF GetCertWork
<1>3. GetCertInv => OutputsInOrder
  BY SMTT(40) DEF GetCertInv, OutputsInOrder
<1> QED
  BY <1>1, <1>2, <1>3, PTL DEF GetCertSpec

-------------------------------------------------------------------------------
(* The sidecar.  What it has answered is what the client that waits accepts,  *)
(* and an earlier answer bears another nonce.                                 *)
FrontDoorInv ==
    /\ DOMAIN request = {"at", "nonce", "serving", "cert", "key"}
    /\ request.at \in {"away", "cert", "key", "ca", "answered"}
    /\ request.at # "away" => desk \in {"attest-pq", "attest-lb"} /\ request.nonce \in {1, 2}
    /\ bundle # Absent => bundle.nonce \in {1, 2}
    /\ request.at \in {"cert", "key", "ca"} /\ bundle # Absent => bundle.nonce # request.nonce
    /\ request.at = "answered" => gatherFromEndpoint(bundle, request.nonce)
    /\ loader.recheck \in Nat
    /\ DoorIsUsable

(* identity.go:28-33: a bundle made of three files that fit is one the client *)
(* accepts, whichever endpoint was asked.                                     *)
LEMMA BundleAccepted ==
    ASSUME desk \in {"attest-pq", "attest-lb"}, NEW key, NEW ca, NEW leaf, parseMeshIdentity(leaf, key, ca)
    PROVE  /\ gatherFromEndpoint(Bundle(leaf, key, ca), request.nonce)
           /\ Bundle(leaf, key, ca).nonce = request.nonce
  BY ZenonT(40) DEF gatherFromEndpoint, Bundle, parseMeshIdentity, evidenceFromEndpointJSON, AcceptsServingLeaf, bind,
     bindServingLeaf, prove, IdentityTranscriptHash, LBTranscriptHash, Raw, committedMeshChain,
     verifyIdentityProof, verifyCommittedChain

(* Neither endpoint's client accepts an answer to another nonce. *)
LEMMA OldBundleRefused ==
    ASSUME desk \in {"attest-pq", "attest-lb"}, NEW b, NEW nonce, b.nonce # nonce
    PROVE  ~gatherFromEndpoint(b, nonce)
  BY DEF gatherFromEndpoint, evidenceFromEndpointJSON, AcceptsServingLeaf

(* identity.go:28-33, backend.go:183: whatever get-cert writes between two    *)
(* reads and whenever a certificate expires: no answer is refused by the      *)
(* client that asked for it or taken by another, the upstream is shown no     *)
(* expired certificate, and a handshake fails only when the files are no use. *)
THEOREM DoorStaysUsable == FrontDoorSpec => []DoorIsUsable
<1> USE GetCertAssumption, RecheckAssumption
<1>1. GetCertInit /\ FrontDoorInit => FrontDoorInv
  BY SMTT(40) DEF FrontDoorInit, FrontDoorInv, Away, NoLoader, DoorIsUsable
<1>2. FrontDoorInv /\ [BesideGetCert]_<<getcertVars, frontDoorVars>> => FrontDoorInv'
  <2> SUFFICES ASSUME FrontDoorInv, [BesideGetCert]_<<getcertVars, frontDoorVars>>
               PROVE  FrontDoorInv'
    BY SMTT(40)
  <2> USE DEF FrontDoorInv
  <2>u. ASSUME UNCHANGED <<certFile, keyFile, loader, hop>>, outcome' \notin {"refused", "deceived"}
        PROVE  DoorIsUsable' /\ loader'.recheck \in Nat
    BY SMTT(40), <2>u DEF DoorIsUsable, CheckValidity, read
  <2>g. ASSUME UNCHANGED <<desk, bundle, request>>
        PROVE  request'.at = "answered" => gatherFromEndpoint(bundle, request.nonce)'
    BY SMTT(40), <2>g DEF gatherFromEndpoint, evidenceFromEndpointJSON, AcceptsServingLeaf
  <2>1. CASE GetCertWork /\ FilesChange
    BY SMTT(40), <2>1, <2>g DEF FilesChange, DoorIsUsable
  <2>2. CASE TimePasses /\ DoorAges
    BY <2>2, <2>g DEF DoorAges, DoorIsUsable, Lower
  <2>3. ASSUME StartAttestPQ \/ StartAttestLB, UNCHANGED getcertVars
        PROVE  FrontDoorInv'
    <3>1. /\ UNCHANGED <<desk, bundle, loader, hop, certFile, keyFile>> /\ outcome' = "none"
          /\ desk \in {"attest-pq", "attest-lb"}
      BY <2>3 DEF StartAttestPQ, StartAttestLB, getcertVars
    <3>2. /\ DOMAIN request' = {"at", "nonce", "serving", "cert", "key"} /\ request'.at = "cert"
          /\ request'.nonce = IF bundle = Absent THEN 1 ELSE 3 - bundle.nonce
      BY ZenonT(40), <2>3 DEF StartAttestPQ, StartAttestLB, Away
    <3> QED
      BY <2>u, <3>1, <3>2
  <2>4. ASSUME ReadCertificate \/ ReadKey, UNCHANGED getcertVars
        PROVE  FrontDoorInv'
    <3>1. UNCHANGED <<desk, bundle, outcome, loader, hop, certFile, keyFile>> /\ request.at \in {"cert", "key"}
      BY <2>4 DEF ReadCertificate, ReadKey, getcertVars
    <3>2. /\ DOMAIN request' = {"at", "nonce", "serving", "cert", "key"}
          /\ request'.at \in {"away", "key", "ca"}
          /\ request'.at # "away" => request'.nonce = request.nonce
      <4>1. CASE request' = Away
        BY <4>1 DEF Away
      <4>2. CASE request' = [request EXCEPT !.at = "key", !.cert = certFile]
        BY <4>2
      <4>3. CASE request' = [request EXCEPT !.at = "ca", !.key = keyFile]
        BY <4>3
      <4> QED
        BY <2>4, <4>1, <4>2, <4>3 DEF ReadCertificate, ReadKey
    <3> QED
      BY <2>u, <3>1, <3>2 DEF DoorIsUsable
  <2>5. ASSUME ReadCAAndAnswer, UNCHANGED getcertVars
        PROVE  FrontDoorInv'
    <3>1. UNCHANGED <<desk, outcome, mode, loader, hop, certFile, keyFile>> /\ request.at = "ca"
      BY SMTT(40), <2>5 DEF ReadCAAndAnswer, getcertVars
    <3>2. CASE request' = Away /\ UNCHANGED bundle
      BY SMTT(40), <2>u, <3>1, <3>2 DEF Away, DoorIsUsable
    <3>3. CASE /\ parseMeshIdentity(request.cert, request.key, caFile)
               /\ bundle' = Bundle(request.cert, request.key, caFile)
               /\ request' = [request EXCEPT !.at = "answered"]
      <4>1. gatherFromEndpoint(bundle', request.nonce) /\ bundle'.nonce = request.nonce
        BY <3>1, <3>3, BundleAccepted
      <4>2. /\ DOMAIN request' = DOMAIN request /\ request'.at = "answered" /\ request'.nonce = request.nonce
            /\ request'.serving = request.serving
        BY SMTT(40), <3>3
      <4>3. gatherFromEndpoint(bundle, request.nonce)'
        BY ZenonT(40), <3>1, <4>1, <4>2 DEF gatherFromEndpoint, evidenceFromEndpointJSON, AcceptsServingLeaf
      <4> QED
        BY <2>u, <3>1, <4>1, <4>2, <4>3 DEF DoorIsUsable
    <3> QED
      BY <2>5, <3>2, <3>3 DEF ReadCAAndAnswer
  <2>6. ASSUME ClientTakes \/ ClientTakesOld, UNCHANGED getcertVars
        PROVE  FrontDoorInv'
    <3>1. UNCHANGED <<desk, bundle, loader, hop, certFile, keyFile>> /\ request' = Away
      BY ZenonT(40), <2>6 DEF ClientTakes, ClientTakesOld, getcertVars
    <3>2. outcome' \notin {"refused", "deceived"}
      BY ZenonT(40), <2>6, OldBundleRefused DEF ClientTakes, ClientTakesOld
    <3> QED
      BY SMTT(40), <2>u, <3>1, <3>2 DEF Away
  <2>7. ASSUME newUpstreamCertLoader \/ getClientCertificate, UNCHANGED getcertVars
        PROVE  FrontDoorInv'
    <3>1. UNCHANGED <<desk, bundle, outcome, request, certFile, keyFile>>
      BY SMTT(40), <2>7 DEF newUpstreamCertLoader, getClientCertificate, getcertVars
    <3>2. CASE getClientCertificate
      <4>1. loader'.recheck \in Nat /\ read' = read
        BY SMTT(40), <3>1, <3>2 DEF getClientCertificate, read
      <4>2. DoorIsUsable'
        BY SMTT(40), <3>1, <3>2, <4>1 DEF getClientCertificate, canReuseCachedCertificate, CheckValidity, DoorIsUsable
      <4> QED
        BY ZenonT(40), <2>g, <3>1, <4>1, <4>2
    <3>3. CASE newUpstreamCertLoader
      BY ZenonT(40), <2>g, <3>1, <3>3 DEF newUpstreamCertLoader, NoLoader, CheckValidity, read, DoorIsUsable
    <3> QED
      BY SMTT(40), <2>7, <3>2, <3>3
  <2>8. CASE UNCHANGED <<getcertVars, frontDoorVars>>
    BY ZenonT(40), <2>8, <2>u, <2>g DEF getcertVars, frontDoorVars, DoorIsUsable
  <2> QED
    BY ZenonT(40), <2>1, <2>2, <2>3, <2>4, <2>5, <2>6, <2>7, <2>8 DEF BesideGetCert, FrontDoorNext
<1>3. FrontDoorInv => DoorIsUsable
  BY DEF FrontDoorInv
<1> QED
  BY <1>1, <1>2, <1>3, PTL DEF FrontDoorSpec
===============================================================================
