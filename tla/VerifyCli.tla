------------------------------- MODULE VerifyCli -------------------------------
(***************************************************************************)
(* internal/cmds/verify: `c8s verify` obtains evidence from a component in *)
(* one of four ways, checks it, fetches what the component says it         *)
(* enforces, and exits with a verdict.  Every connection may reach another *)
(* replica, with a certificate of its own.  Of every value a flag pins, a  *)
(* target has the pinned one ("mine"), another one, none or a malformed    *)
(* one; certificates are the replica's number, 0 for none.                 *)
(***************************************************************************)
EXTENDS Integers, FiniteSets

CONSTANT MaxOdd            \* bound on the properties a target departs in

VARIABLES cli,             \* the process: at, cfg, ev, keys, served, exit
          target           \* what it talks to

verifyVars == <<cli, target>>

Modes == {"auto", "ratls-cert", "discovery", "attest-pq", "attestation-endpoint"}

Files == {"no", "cert", "bundle", "bare"}

rtmr3Spellings == {"rtmr-3", "expected-rtmr3", "operator-pkey"}

manifests == {"image-manifest", "snp-manifest"}

policyFiles == {"image-policy", "weak-image-policy", "snp-image-policy"}

(* The flags that can go with any platform, and those that depend on it.       *)
Common == {"init-data", "sandbox-id", "workload", "allowlist", "operator-keys"}

Pin == Common \cup rtmr3Spellings \cup manifests \cup policyFiles
              \cup {"measurements", "rtmr", "min-tcb"}

(* At most two flags, or all that go together but for one.                           *)
PinSets ==
    LET long == {Common \cup {"min-tcb", "measurements"}, Common \cup {"min-tcb", "snp-image-policy"},
                 Common \cup {"image-manifest", "rtmr-3"}, Common \cup {"image-policy"}}
        once(S, alternatives) == Cardinality(S \cap alternatives) <= 1
    IN  {{}} \cup {S \in {{p, q} : p, q \in Pin} : once(S, policyFiles) /\ once(S, manifests)}
        \cup {S \ {p} : S \in long, p \in Common}

Config == [mode : Modes, kind : {"auto", "cds", "lb"}, file : Files,
           meshCA : BOOLEAN, pins : PinSets]

NoEv == [leaf |-> FALSE, cert |-> 0, door |-> "none", derived |-> FALSE]

(* A component as it should be, and the ways it may differ.                    *)
Sound == [tls |-> "yes", doc |-> "served", shows |-> "attested", replicas |-> "one",
          echo |-> "yes", body |-> "ca", signer |-> "mine", collateral |-> "yes",
          genuine |-> "yes", platform |-> "snp", launch |-> "mine", regs |-> "mine",
          reg3 |-> "mine", tcb |-> "met", initdata |-> "mine", sandbox |-> "mine",
          workload |-> "mine", digest |-> "mine", resolves |-> "yes", keys |-> "mine",
          enforces |-> "mine"]

Odd == [tls |-> {"no"}, doc |-> {"absent", "odd"}, shows |-> {"other"}, replicas |-> {"two"},
        echo |-> {"no"}, body |-> {"self"}, signer |-> {"other"}, collateral |-> {"no"},
        genuine |-> {"no"}, platform |-> {}, launch |-> {"other", "none"},
        regs |-> {"other", "none"}, reg3 |-> {"other"}, tcb |-> {"below", "none"},
        initdata |-> {"other"}, sandbox |-> {"none", "other", "bad"},
        workload |-> {"none", "other", "bad"}, digest |-> {"other"}, resolves |-> {"no"},
        keys |-> {"other", "none", "error"}, enforces |-> {"other", "none", "error"}]

Departures == UNION {{[of |-> f, is |-> v] : v \in Odd[f]} : f \in DOMAIN Odd}

Departing(D, p) ==
    [f \in DOMAIN Sound |->
        IF f = "platform" THEN p
        ELSE IF \E d \in D : d.of = f THEN (CHOOSE d \in D : d.of = f).is
        ELSE Sound[f]]

Single == {{}} \cup {{d} : d \in Departures}

Pairs == {{d, e} : d \in Departures, e \in Departures}

TargetsOf == [p \in {"snp", "tdx"} |->
                 [single |-> {Departing(D, p) : D \in Single}, paired |-> {Departing(D, p) : D \in Pairs}]]

(* One departure on either platform; for the long lists of flags up to MaxOdd  *)
(* of them, the wrong platform being one.                                      *)
Targets(cfg) ==
    LET suited == IF cfg.pins \cap {"image-manifest", "image-policy"} # {} THEN "tdx" ELSE "snp"
    IN  TargetsOf["snp"].single \cup TargetsOf["tdx"].single
        \cup (IF MaxOdd > 1 /\ Cardinality(cfg.pins) > 2 THEN TargetsOf[suited].paired ELSE {})

Process(cfg) == [at |-> "start", cfg |-> cfg, ev |-> NoEv, keys |-> "unasked",
                 served |-> "unasked", exit |-> 0]

NotRun == [at |-> "not run"]

VerifyIdle == cli = NotRun /\ target = Sound

VerifyInit ==
    /\ \E cfg \in Config :
          /\ cfg.kind = "lb" => cfg.mode = "auto"
          /\ cfg.file # "no" => cfg.mode = "auto" /\ cfg.kind = "auto"
          /\ cfg.mode = "attestation-endpoint" => cfg.pins = {} /\ cfg.kind = "auto"
          /\ cli = Process(cfg)
    /\ target = Sound

Exits(code) == cli' = [cli EXCEPT !.at = "done", !.exit = code]

-------------------------------------------------------------------------------
(* buildPolicy: flags that contradict each other, or prove nothing alone, are  *)
(* usage errors.                                                               *)

resolveRTMRPins(pins) ==
    /\ Cardinality(pins \cap rtmr3Spellings) <= 1
    /\ "snp-manifest" \notin pins
    /\ ~("rtmr" \in pins /\ "image-manifest" \in pins)
    /\ pins \cap rtmr3Spellings # {} => "image-manifest" \in pins

buildPolicy(cfg) ==
    /\ ~(cfg.pins \cap policyFiles # {} /\ cfg.pins \cap manifests # {})
    /\ ~("measurements" \in cfg.pins /\ cfg.pins \cap (manifests \cup policyFiles) # {})
    /\ resolveRTMRPins(cfg.pins)
    /\ cfg.pins \cap {"sandbox-id", "workload", "allowlist"} # {} => cfg.meshCA

(* It may be run again with the flags it had.                                  *)
Rerun ==
    /\ cli.at = "done"
    /\ cli' = Process(cli.cfg)
    /\ target' = Sound

(* run, up to the first connection.                                            *)
Start ==
    /\ cli.at = "start"
    /\ \/ /\ cli.cfg.mode = "attestation-endpoint" \/ ~buildPolicy(cli.cfg)
          /\ Exits(1)
          /\ UNCHANGED target
       \/ /\ cli.cfg.mode # "attestation-endpoint" /\ buildPolicy(cli.cfg)
          /\ cli' = [cli EXCEPT !.at = "gather"]
          /\ target' \in Targets(cli.cfg)

-------------------------------------------------------------------------------
(* The evidence of each source: an error, "security" when the target answered  *)
(* and a check of the answer failed, or what later checks need of it.          *)

ChainsToMeshCA == target.body = "ca" /\ target.signer = "mine"

Err(kind) == [err |-> kind, ev |-> NoEv]

(* A self-signed leaf signs its own body.                                      *)
authenticateLeafBody == target.body = "self"

(* A CA-issued body needs a verified chain or a live proof of the key.         *)
authorizeLeafBody(keyProven) ==
    authenticateLeafBody \/ keyProven \/ (cli.cfg.meshCA /\ ChainsToMeshCA)

(* A WebPKI certificate carries no attestation.                                *)
CertEnvelope == target.shows = "attested"

evidenceFromCert(cert, keyProven) ==
    IF ~CertEnvelope THEN Err("other")
    ELSE IF ~authorizeLeafBody(keyProven) THEN Err("security")
    ELSE [err |-> "none", ev |-> [NoEv EXCEPT !.leaf = TRUE, !.cert = cert]]

gatherFromRATLSCert(cert) ==
    IF target.tls = "no" THEN Err("other") ELSE evidenceFromCert(cert, TRUE)

(* The door's handshake is compared with the certificate of the document that  *)
(* came over the same connection.                                              *)
evidenceFromDiscovery(cert) ==
    LET door == IF target.tls = "no" THEN "unobserved"
                ELSE IF target.shows = "attested" THEN "attested" ELSE "other"
    IN  IF target.doc = "odd" \/ ~authorizeLeafBody(door = "attested" /\ ~cli.cfg.meshCA)
        THEN Err("security")
        ELSE [err |-> "none", ev |-> [leaf |-> TRUE, cert |-> cert, door |-> door, derived |-> FALSE]]

gatherFromDiscovery(cert) ==
    IF target.doc = "absent" THEN Err("other") ELSE evidenceFromDiscovery(cert)

(* An attest-pq answer, live or saved: its chain is anchored in the CA it names.*)
attestPQ(live) ==
    IF live /\ target.echo = "no" THEN Err("security")
    ELSE [err |-> "none", ev |-> [NoEv EXCEPT !.leaf = TRUE, !.derived = TRUE]]

gatherFromFile ==
    CASE cli.cfg.file = "cert" -> evidenceFromCert(1, FALSE)
      [] cli.cfg.file = "bundle" -> attestPQ(FALSE)
      [] cli.cfg.file = "bare" -> [err |-> "none", ev |-> NoEv]

resolveMode ==
    CASE cli.cfg.mode # "auto" -> cli.cfg.mode
      [] cli.cfg.mode = "auto" /\ cli.cfg.kind = "lb" -> "discovery"
      [] cli.cfg.mode = "auto" /\ cli.cfg.kind = "cds" -> "ratls-cert"
      [] OTHER -> "auto"

(* auto falls back to the serving certificate, on a second connection, unless  *)
(* the document failed a check.                                                *)
gatherEvidence(cert, second) ==
    IF cli.cfg.file # "no" THEN gatherFromFile
    ELSE CASE resolveMode = "ratls-cert" -> gatherFromRATLSCert(cert)
           [] resolveMode = "discovery" -> gatherFromDiscovery(cert)
           [] resolveMode = "attest-pq" -> attestPQ(TRUE)
           [] OTHER -> IF gatherFromDiscovery(cert).err = "other"
                       THEN gatherFromRATLSCert(second) ELSE gatherFromDiscovery(cert)

(* The replicas agree but for what they enforce: the second has it right.      *)
Answer(cert, answer) == IF cert = 2 THEN "mine" ELSE answer

Replica == IF target.replicas = "two" THEN {1, 2} ELSE {1}

Gather ==
    /\ cli.at = "gather"
    /\ \E cert, second \in Replica :
          LET got == gatherEvidence(cert, second)
          IN  \/ got.err = "security" /\ Exits(2)
              \/ got.err = "other" /\ Exits(3)
              \/ got.err = "none" /\ cli' = [cli EXCEPT !.at = "keys", !.ev = got.ev]
    /\ UNCHANGED target

-------------------------------------------------------------------------------
(* What the target says it enforces, over connections of their own: an answer, *)
(* "error", or "note" when it was never asked.                                 *)

(* Mutant: any replica's answer is taken. *)
fetchAttestedFromAny(cert, answer) ==
    IF target.tls = "no" \/ target.shows = "other" THEN "error" ELSE Answer(cert, answer)

(* Only the replica whose certificate was attested is listened to.             *)
fetchAttested(cert, answer) ==
    IF target.tls = "no" \/ cert # cli.ev.cert \/ target.shows = "other"
    THEN "error" ELSE Answer(cert, answer)

Askable == cli.cfg.kind = "cds" /\ cli.cfg.file = "no" /\ cli.ev.cert # 0

(* fetchOperatorKeyFingerprints reads a 404 as the empty set.                  *)
gatherOperatorKeys ==
    /\ cli.at = "keys"
    /\ \E cert \in Replica :
          cli' = [cli EXCEPT !.at = "measurements",
                             !.keys = IF Askable THEN fetchAttested(cert, target.keys) ELSE "note"]
    /\ UNCHANGED target

gatherMeasurements ==
    /\ cli.at = "measurements"
    /\ \E cert \in Replica :
          cli' = [cli EXCEPT !.at = "verify",
                             !.served = IF Askable /\ cli.cfg.pins \cap policyFiles # {}
                                        THEN fetchAttested(cert, target.enforces) ELSE "note"]
    /\ UNCHANGED target

-------------------------------------------------------------------------------
(* The verdict.  An outcome is "verified", "partial" or "failed".              *)

Pinned(p) == p \in cli.cfg.pins

isTDX == target.platform = "tdx"

(* The engine rejects; it drops a TCB floor on TDX evidence.                   *)
VerifyEnvelope ==
    IF target.collateral = "no" THEN "connect"
    ELSE IF target.genuine = "no" \/ (Pinned("min-tcb") /\ ~isTDX /\ target.tcb = "below")
         THEN "rejected" ELSE "ok"

enforceResult == Pinned("init-data") => target.initdata = "mine"

verifyInProcess ==
    IF VerifyEnvelope = "ok" /\ ~enforceResult THEN "rejected" ELSE VerifyEnvelope

enforceMinTCB == Pinned("min-tcb") => ~isTDX /\ target.tcb = "met"

(* A policy file is for one family; the weak one pins no kernel or rootfs.     *)
EnforceImages ==
    /\ cli.cfg.pins \cap {"image-policy", "weak-image-policy"} # {} => isTDX /\ target.launch = "mine"
    /\ Pinned("image-policy") => target.regs = "mine"
    /\ Pinned("snp-image-policy") => ~isTDX /\ target.launch = "mine"

rtmrPinned == cli.cfg.pins \cap (rtmr3Spellings \cup {"image-manifest", "rtmr"}) # {}

applyRTMRPins ==
    /\ Pinned("image-manifest") \/ Pinned("rtmr") => target.regs = "mine"
    /\ cli.cfg.pins \cap rtmr3Spellings # {} => target.reg3 = "mine"

(* MRTD alone measures only the firmware: it suffices next to a pinned CA.     *)
launchPinned ==
    LET pinned == cli.cfg.pins \cap ({"image-manifest", "measurements"} \cup policyFiles) # {}
        fullImagePinned == Pinned("image-manifest") \/ Pinned("image-policy")
    IN  pinned => /\ target.launch # "none"
                  /\ Pinned("image-manifest") \/ Pinned("measurements") => target.launch = "mine"
                  /\ isTDX /\ ~fullImagePinned => cli.cfg.meshCA

newOutcome ==
    IF \/ verifyInProcess = "rejected"
       \/ rtmrPinned /\ ~isTDX
       \/ ~enforceMinTCB \/ ~EnforceImages \/ ~launchPinned \/ ~applyRTMRPins
    THEN "failed" ELSE "verified"

checkServedMeasurements == cli.cfg.pins \cap policyFiles # {} => cli.served = "mine"

expectedOperatorKeys == Pinned("operator-keys") => cli.keys = "mine"

(* The chain is checked before the ID a leaf carries is compared.              *)
applySandboxPolicy(oc) ==
    IF cli.ev.leaf /\ target.sandbox = "bad" THEN "failed"
    ELSE IF cli.cfg.meshCA /\ ~(cli.ev.leaf /\ ChainsToMeshCA) THEN "failed"
    ELSE IF Pinned("sandbox-id") /\ ~(cli.ev.leaf /\ target.sandbox = "mine") THEN "failed"
    ELSE IF ~checkServedMeasurements \/ ~expectedOperatorKeys THEN "failed"
    ELSE oc

applyWorkloadPolicy(oc) ==
    IF cli.ev.leaf /\ target.workload = "bad" THEN "failed"
    ELSE IF ~Pinned("workload") /\ ~Pinned("allowlist") THEN oc
    ELSE IF ~cli.ev.leaf \/ target.workload = "none" THEN "failed"
    ELSE IF Pinned("workload") /\ target.workload # "mine" THEN "failed"
    ELSE IF Pinned("allowlist") /\ (target.digest # "mine" \/ target.resolves = "no") THEN "failed"
    ELSE oc

demoteToPartial(oc) == IF oc = "verified" THEN "partial" ELSE oc

applyFrontDoorPolicy(oc) ==
    IF cli.ev.door \in {"other", "unobserved"} THEN demoteToPartial(oc) ELSE oc

applyChainAnchorPolicy(oc) ==
    IF cli.ev.derived /\ ~cli.cfg.meshCA THEN demoteToPartial(oc) ELSE oc

applyVerdictPolicies(oc) ==
    applyChainAnchorPolicy(applyFrontDoorPolicy(applyWorkloadPolicy(applySandboxPolicy(oc))))

verdictExitCode(oc) == CASE oc = "verified" -> 0 [] oc = "partial" -> 4 [] OTHER -> 2

verifyEvidence ==
    /\ cli.at = "verify"
    /\ IF verifyInProcess = "connect" THEN Exits(3)
       ELSE Exits(verdictExitCode(applyVerdictPolicies(newOutcome)))
    /\ UNCHANGED target

VerifyNext == Rerun \/ Start \/ Gather \/ gatherOperatorKeys \/ gatherMeasurements \/ verifyEvidence

VerifySpec == VerifyInit /\ [][VerifyNext]_verifyVars

-------------------------------------------------------------------------------
(* What each flag asks of the component, whatever way it was reached.          *)
Met(p) ==
    CASE p = "measurements" -> target.launch = "mine" /\ (isTDX => cli.cfg.meshCA)
      [] p = "image-manifest" -> isTDX /\ target.launch = "mine" /\ target.regs = "mine"
      [] p = "image-policy" -> isTDX /\ target.launch = "mine" /\ target.regs = "mine" /\ Answer(cli.ev.cert, target.enforces) = "mine"
      [] p = "weak-image-policy" -> isTDX /\ target.launch = "mine" /\ cli.cfg.meshCA /\ Answer(cli.ev.cert, target.enforces) = "mine"
      [] p = "snp-image-policy" -> ~isTDX /\ target.launch = "mine" /\ Answer(cli.ev.cert, target.enforces) = "mine"
      [] p = "rtmr" -> isTDX /\ target.regs = "mine"
      [] p \in rtmr3Spellings -> isTDX /\ target.reg3 = "mine"
      [] p = "min-tcb" -> ~isTDX /\ target.tcb = "met"
      [] p = "init-data" -> target.initdata = "mine"
      [] p = "sandbox-id" -> ChainsToMeshCA /\ target.sandbox = "mine"
      [] p = "workload" -> ChainsToMeshCA /\ target.workload = "mine"
      [] p = "allowlist" -> ChainsToMeshCA /\ target.workload # "none" /\ target.digest = "mine"
                            /\ target.resolves = "yes"
      [] p = "operator-keys" -> Answer(cli.ev.cert, target.keys) = "mine"

(* The component itself is tied to the evidence: its own handshake showed the  *)
(* attested certificate or, where the answer names its CA, the operator's CA   *)
(* did.  A file asks about no live component.                                  *)
Tied ==
    IF cli.cfg.mode = "attest-pq" \/ cli.cfg.file = "bundle" THEN cli.cfg.meshCA
    ELSE cli.cfg.file # "no" \/ (target.tls = "yes" /\ target.shows = "attested")

(* Someone stands behind the body of the leaf: the operator's CA, its own      *)
(* signature, the CA an attest-pq answer is bound to, or a live handshake.     *)
Vouched ==
    IF cli.cfg.meshCA THEN ChainsToMeshCA /\ cli.cfg.file # "bare"
    ELSE \/ target.body = "self" \/ cli.cfg.file \in {"bare", "bundle"}
         \/ cli.cfg.mode = "attest-pq"
         \/ cli.cfg.file = "no" /\ target.tls = "yes" /\ target.shows = "attested"

(* Every check the command line asks for succeeds on this component.           *)
Deserved ==
    /\ target.genuine = "yes" /\ Vouched
    /\ \A p \in cli.cfg.pins : Met(p)
    /\ cli.cfg.file # "bare" => target.sandbox # "bad" /\ target.workload # "bad"
    /\ cli.cfg.mode = "attest-pq" => target.echo = "yes"
    /\ cli.cfg.file = "no" /\ resolveMode \in {"auto", "discovery"} => target.doc # "odd"

Unanswered(p) == \/ p = "operator-keys" /\ cli.keys \in {"error", "note"}
                 \/ p \in policyFiles /\ cli.served \in {"error", "note"}

(***************************************************************************)
(* A green exit of `c8s verify` means that every check asked for succeeds  *)
(* on the component it reached, what it enforces having been read from the *)
(* very replica that was attested, and that the component is tied to the   *)
(* evidence; exit 4 gives up the tie and nothing else.  Exit 2 is for a    *)
(* component that fails a check or leaves one unanswered, never for one    *)
(* that cannot be reached; that is exit 3, the one a caller may retry, and *)
(* no failed check ends there.                                             *)
(***************************************************************************)
VerdictHonest ==
    cli.at = "done" =>
        /\ cli.exit \in {0, 4} => Deserved
        /\ cli.exit = 0 => Tied
        /\ cli.exit = 4 => ~Tied
        /\ cli.exit = 2 => ~Deserved \/ \E p \in cli.cfg.pins : Unanswered(p)
        /\ cli.exit = 3 => "no" \in {target.tls, target.collateral} \/ target.shows = "other" \/ target.doc = "absent"
===============================================================================
