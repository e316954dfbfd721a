-------------------------------- MODULE NodeBoot --------------------------------
(***************************************************************************)
(* internal/cmds/launchconfig and nodeservices: how a node of the measured *)
(* image gets its role.  The operator's workstation makes a bundle of one  *)
(* signed document per node; the guest, launched with one of them on a     *)
(* disk and its key in the launch measurement, stages the document and     *)
(* prepares the inputs of its services, in the unit rke2-role.  A file     *)
(* holds the document it was made from; a key or join token is the number  *)
(* of its bundle and what it is for.                                       *)
(***************************************************************************)
EXTENDS Naturals, Sequences, FiniteSets

CONSTANTS BundleOptions,     \* command lines of `launch-config new`
          AgentName,         \* names for `launch-config add-agent`
          MaxBundles,        \* bound on bundles made
          MaxFaults,         \* bound on failed writes and killed processes
          NoDoc

VARIABLES bundle,            \* the bundle directory, or NoDoc
          made,              \* bundle number -> its server's document
          vm,                \* the guest: measured key and image, disk, address
          files,             \* the guest's files -> the document each is made from
          unit,              \* rke2-role: at, the verified document, what is left to do
          bootFaults

bootVars == <<bundle, made, vm, files, unit, bootFaults>>

(* Files of Stage, in the order of writing, but for the markers.             *)
stagedNames == <<"peers.json", "cds.json", "operator-pubkey", "config.json", "agent-token",
                 "fragment", "workloads.json", "server-token">>

marker(role) == "role-" \o role

Markers == {marker("server"), marker("agent")}

Staged == Markers \cup {stagedNames[i] : i \in DOMAIN stagedNames}

serverOutputNames == {"pub/operator-pubkey", "pub/allowlist-seed", "pub/tls-san"}

Published == {"pub/peers.json", "pub/cds.json"} \cup serverOutputNames

imagePolicy == "image-policy.yaml"

NoFiles == [f \in Staged \cup Published \cup {imagePolicy} |-> NoDoc]

BootInit ==
    /\ bundle = NoDoc /\ made = <<>> /\ bootFaults = 0
    /\ vm = NoDoc /\ files = NoFiles
    /\ unit = [at |-> "off", doc |-> NoDoc, todo |-> <<>>, left |-> {}, ip |-> ""]

Fault == bootFaults < MaxFaults /\ bootFaults' = bootFaults + 1

---------------------------------------------------------------------------
(* The operator's workstation. *)

Routable(address) == address \notin {"", "loopback"}

(* An SNP digest covers one vCPU count, which the flag names; TDX has one.    *)
imageFromManifest(m, vcpus) ==
    IF m.family = "tdx" THEN {[platform |-> "tdx", variant |-> v] : v \in {u \in m.variants : vcpus = 0}}
    ELSE {[platform |-> "snp", variant |-> v] :
            v \in {u \in m.variants : IF vcpus = 0 THEN Cardinality(m.variants) = 1 ELSE u = vcpus}}

(* The rules the guest applies too; tokens are the ones the document carries. *)
validate(d) ==
    /\ d.role = "agent" \/ d.address # "" => Routable(d.address)
    /\ d.tokens = IF d.role = "server" THEN {"server", "agent"} ELSE {"agent"}
    /\ d.workloads # "malformed"

(* A node's directory: public key, document and signature, in this order.     *)
writeSignedDocument(d, written) ==
    [doc |-> d, key |-> [n |-> d.n, role |-> d.role], files |-> IF written > 3 THEN 3 ELSE written]

agentDocument(server, name, address) ==
    [server EXCEPT !.role = "agent", !.name = name, !.tokens = {"agent"}, !.address = address]

(* Two keys, the server's directory, the client policy, and each agent's       *)
(* directory.  A failed command removes what it made; a killed one leaves the  *)
(* files written so far.                                                       *)
NewBundle ==
    /\ bundle = NoDoc /\ Len(made) < MaxBundles
    /\ \E o \in BundleOptions : \E image \in imageFromManifest(o.manifest, o.vcpus) :
        LET server == [n |-> Len(made) + 1, role |-> "server", name |-> "s", image |-> image,
                       address |-> o.address, ip |-> "", workloads |-> o.workloads,
                       tokens |-> {"server", "agent"}]
            all == 6 + 3 * Len(o.agents)
        IN  /\ o.agents # <<>> => o.address # ""
            /\ validate(server)
            /\ \E written \in 0 .. all :
                  /\ IF written = all THEN UNCHANGED bootFaults ELSE Fault
                  /\ made' = Append(made, server)
                  /\ bundle' = [agentKey |-> written >= 2,
                        dirs |-> [name \in (IF written >= 2 THEN {"server"} ELSE {})
                                           \cup {o.agents[i] : i \in {j \in DOMAIN o.agents : written >= 3 + 3 * j}} |->
                            IF name = "server" THEN writeSignedDocument(server, written - 2)
                            ELSE LET i == CHOOSE j \in DOMAIN o.agents : o.agents[j] = name
                                 IN  writeSignedDocument(agentDocument(server, name, o.address), written - 3 - 3 * i)]]
    /\ UNCHANGED <<vm, files, unit>>

(* The flag overrides the server document's address. *)
AddAgent(name, address) ==
    /\ bundle # NoDoc /\ bundle.agentKey
    /\ name \notin DOMAIN bundle.dirs /\ "server" \in DOMAIN bundle.dirs
    /\ bundle.dirs["server"].files >= 2
    /\ LET server == bundle.dirs["server"].doc
           agent == agentDocument(server, name, IF address = "" THEN server.address ELSE address)
       IN  /\ name # server.name /\ validate(agent)
           /\ \E written \in 0 .. 3 :
                 /\ IF written = 3 THEN UNCHANGED bootFaults ELSE Fault
                 /\ bundle' = [bundle EXCEPT !.dirs =
                        [d \in DOMAIN bundle.dirs \cup {name} |->
                            IF d = name THEN writeSignedDocument(agent, written) ELSE bundle.dirs[d]]]
    /\ UNCHANGED <<made, vm, files, unit>>

(* The commands refuse a directory that exists: the operator removes it.      *)
RemoveBundle ==
    /\ bundle # NoDoc
    /\ bundle' = NoDoc
    /\ UNCHANGED <<made, vm, files, unit, bootFaults>>

Disks == IF bundle = NoDoc THEN {} ELSE {d \in {bundle.dirs[n] : n \in DOMAIN bundle.dirs} : d.files >= 1}

---------------------------------------------------------------------------
(* The guest.  The launcher measures the key of the disk it attaches and the  *)
(* image it boots, which need not be the one the document pins.               *)
Launch ==
    /\ vm = NoDoc
    /\ \E disk \in Disks, ip \in {"10.0.0.1", ""} :
          \E image \in {disk.doc.image, [platform |-> "snp", variant |-> 9]} :
             vm' = [key |-> disk.key, image |-> image, disk |-> disk, ip |-> ip]
    /\ UNCHANGED <<bundle, made, files, unit, bootFaults>>

Settled == {"off", "stuck", "failed", "killed", "done"}

(* Between runs another disk is attached, or the address changes.             *)
AttachDisk ==
    /\ vm # NoDoc /\ unit.at \in Settled
    /\ \E disk \in Disks : vm' = [vm EXCEPT !.disk = disk]
    /\ UNCHANGED <<bundle, made, files, unit, bootFaults>>

PrimaryIPv4 ==
    /\ vm # NoDoc /\ unit.at \in Settled
    /\ vm' = [vm EXCEPT !.ip = IF @ = "10.0.0.1" THEN "10.0.0.2" ELSE "10.0.0.1"]
    /\ UNCHANGED <<bundle, made, files, unit, bootFaults>>

ToAt(at) == [unit EXCEPT !.at = at, !.doc = NoDoc, !.todo = <<>>, !.left = {}]

(* rke2-role.sh: unless both commands succeeded, the trap drops the markers.  *)
Fail == /\ unit' = ToAt("failed")
        /\ files' = [f \in DOMAIN files |-> IF f \in Markers THEN NoDoc ELSE files[f]]

(* A killed script runs no trap.                                              *)
KillUnit ==
    /\ unit.at \notin Settled \cup {"clear"}
    /\ Fault /\ unit' = ToAt("killed")
    /\ UNCHANGED <<bundle, made, vm, files>>

StartUnit ==
    /\ vm # NoDoc /\ unit.at \in Settled
    /\ unit' = [at |-> "clear", doc |-> NoDoc, todo |-> <<>>, left |-> {}, ip |-> ""]
    /\ UNCHANGED <<bundle, made, vm, files, bootFaults>>

(* Mutant: the markers are left to the trap.                                  *)
clearOutputsNotMarkers(kept) ==
    [f \in DOMAIN files |-> IF f \in Staged \ (kept \cup Markers) THEN NoDoc ELSE files[f]]

(* Every output is removed but those whose removal fails.                     *)
clearOutputs(kept) == [f \in DOMAIN files |-> IF f \in Staged \ kept THEN NoDoc ELSE files[f]]

(* clearOutputs, markers first, up to the verification; when a removal fails, *)
(* Stage stops, and the trap cannot remove that file either.                  *)
StageClears ==
    /\ unit.at = "clear"
    /\ \/ files' = clearOutputs({}) /\ unit' = ToAt("verify") /\ UNCHANGED bootFaults
       \/ /\ Fault /\ unit' = ToAt("stuck")
          /\ \E kept \in Staged : files[kept] # NoDoc /\ files' = clearOutputs({kept})
       \/ Fault /\ unit' = ToAt("killed") /\ files' = clearOutputs(Staged \ Markers)
    /\ UNCHANGED <<bundle, made, vm>>

authorizeKey(d, key) ==
    LET server == [n |-> d.n, role |-> "server"]
        agents == {[n |-> d.n, role |-> "agent"]}
    IN  IF d.role = "server" THEN key = server ELSE key # server /\ key \in agents

(* The signature before the contents, then the image, then the role.          *)
Verify ==
    /\ vm.disk.files = 3
    /\ vm.disk.key = vm.key
    /\ validate(vm.disk.doc)
    /\ vm.disk.doc.image = vm.image
    /\ authorizeKey(vm.disk.doc, vm.key)

(* A server without an address takes its own, for good.                       *)
resolveAddress(d) ==
    IF d.role = "server" /\ d.address = "" THEN [d EXCEPT !.address = vm.ip, !.ip = vm.ip] ELSE d

Outputs(d) ==
    SelectSeq(stagedNames, LAMBDA f : /\ f = "workloads.json" => d.workloads # "none"
                                      /\ f = "server-token" => d.role = "server")

(* Verify, and what stageVerified does before its first write; the local      *)
(* attestation may fail too.                                                  *)
StageVerifies ==
    /\ unit.at = "verify"
    /\ \/ /\ Verify
          /\ LET d == resolveAddress(vm.disk.doc)
             IN  /\ Routable(d.address)
                 /\ unit' = [unit EXCEPT !.at = "write", !.doc = d, !.todo = Append(Outputs(d), marker(d.role))]
          /\ UNCHANGED <<files, bootFaults>>
       \/ (~Verify \/ ~Routable(resolveAddress(vm.disk.doc).address)) /\ Fail /\ UNCHANGED bootFaults
       \/ Fault /\ Fail
    /\ UNCHANGED <<bundle, made, vm>>

(* One WriteAtomic, of the outputs and last of the marker. *)
StageWrites ==
    /\ unit.at = "write"
    /\ \/ /\ files' = [files EXCEPT ![Head(unit.todo)] = unit.doc]
          /\ unit' = IF Len(unit.todo) = 1 THEN ToAt("prepare") ELSE [unit EXCEPT !.todo = Tail(@)]
          /\ UNCHANGED bootFaults
       \/ Fault /\ Fail
    /\ UNCHANGED <<bundle, made, vm>>

---------------------------------------------------------------------------
(* node-services. *)

LoadStaged == files["config.json"]

(* Pins of the booted family in both policies, one image in the server's.     *)
readPolicy(f) == files[f] # NoDoc /\ files[f].image.platform = vm.image.platform

(* Launch workloads may not replace a baked component.                        *)
mergeWorkloads(d) == d.workloads # "replaces-component"

serverOutputs(d) == d.role = "server" => mergeWorkloads(d)

(* Prepare up to its first write; an agent drops what a server published.     *)
PrepareValidates ==
    /\ unit.at = "prepare"
    /\ LET d == LoadStaged
       IN  IF d = NoDoc \/ ~readPolicy("peers.json") \/ ~readPolicy("cds.json") \/ ~serverOutputs(d)
           THEN Fail
           ELSE /\ unit' = [unit EXCEPT !.at = "publish", !.doc = d,
                    !.left = {f \in Published : d.role = "server" \/ f \notin serverOutputNames}]
                /\ files' = IF d.role = "server" THEN files
                            ELSE [f \in DOMAIN files |-> IF f \in serverOutputNames THEN NoDoc ELSE files[f]]
    /\ UNCHANGED <<bundle, made, vm, bootFaults>>

(* The map of outputs in any order, and last the image policy. *)
PrepareWrites ==
    /\ unit.at = "publish"
    /\ \/ /\ \E f \in unit.left :
                /\ files' = [files EXCEPT ![f] = unit.doc]
                /\ unit' = [unit EXCEPT !.left = @ \ {f}]
          /\ UNCHANGED bootFaults
       \/ /\ unit.left = {}
          /\ files' = [files EXCEPT ![imagePolicy] = unit.doc]
          /\ unit' = ToAt("done")
          /\ UNCHANGED bootFaults
       \/ Fault /\ Fail
    /\ UNCHANGED <<bundle, made, vm>>

(* nri-node-ip, which requires the unit: the document's address, or its own.  *)
PublishNodeIP ==
    /\ unit.at = "done"
    /\ LET address == IF LoadStaged.ip # "" THEN LoadStaged.ip ELSE vm.ip
       IN  Routable(address) /\ unit' = [unit EXCEPT !.ip = address]
    /\ UNCHANGED <<bundle, made, vm, files, bootFaults>>

(* The workstation and the unit meet at the disk, which is a copy, so the one *)
(* is looked at while the other rests.                                        *)
Workstation ==
    /\ unit.at \in Settled
    /\ \/ NewBundle \/ RemoveBundle
       \/ \E name \in AgentName, address \in {"", "10.0.0.1"} : AddAgent(name, address)

BootNext ==
    \/ Workstation
    \/ Launch \/ AttachDisk \/ PrimaryIPv4
    \/ StartUnit \/ KillUnit \/ StageClears \/ StageVerifies \/ StageWrites
    \/ PrepareValidates \/ PrepareWrites \/ PublishNodeIP

---------------------------------------------------------------------------
(* launchconfig/stage.go:27: a role marker stands only beside the complete    *)
(* outputs of one document, signed with the key and pinning the image this    *)
(* guest was launched with, whatever was killed, failed or attached before;   *)
(* only a marker whose removal failed is beyond that, and then the unit has   *)
(* failed.  nodeservices/prepare.go:92: where the unit succeeded, the         *)
(* services' inputs are all of that document, an agent has nothing a server   *)
(* would publish, it belongs to the image of its bundle's server, and a       *)
(* server that chose its own address publishes the one its agents dial.       *)
RoleIsStaged ==
    /\ \A m \in Markers : files[m] # NoDoc /\ unit.at \notin {"stuck", "clear"} =>
          LET d == files[m]
              wanted == {marker(d.role)} \cup {Outputs(d)[i] : i \in DOMAIN Outputs(d)}
          IN  /\ \A f \in Staged : files[f] = IF f \in wanted THEN d ELSE NoDoc
              /\ authorizeKey(d, vm.key) /\ d.image = vm.image
    /\ unit.at = "done" =>
          LET d == LoadStaged
          IN  /\ files[marker(d.role)] = d /\ files[imagePolicy] = d
              /\ \A f \in Published :
                    files[f] = IF d.role = "server" \/ f \notin serverOutputNames THEN d ELSE NoDoc
              /\ d.image = made[d.n].image
              /\ d.role = "agent" => "server" \notin d.tokens
              /\ d.role = "server" /\ made[d.n].address = "" => unit.ip \in {"", d.address}
=================================================================================
