------------------------------ MODULE AcmeManager ------------------------------
(***************************************************************************)
(* internal/cmds/acme: the sidecar that keeps the router's public          *)
(* certificate, and nginx beside it, whose configuration names both files  *)
(* and which must be up before a certificate can be ordered.  The          *)
(* directory is a memory volume that outlives the containers but not the   *)
(* pod.  Of the files it matters whether they are there, what the          *)
(* certificate is worth, and whether they are of the same pair.            *)
(*                                                                         *)
(* At the end, the router pod: this sidecar and get-cert (GetCert), which  *)
(* keeps the mesh certificate.  They share no file, so each is looked at   *)
(* in a pod without the other.                                             *)
(***************************************************************************)
EXTENDS GetCert

CONSTANTS MaxAcmeCrashes   \* bound on restarts of the two containers

VARIABLES acme,            \* where manager.run is; "absent" in a pod without it
          token,           \* tokens holds the challenge of the open authorization
          hasKey,          \* key.pem exists
          cert,            \* cert.pem: "none", "placeholder", "fresh" or "due"
          pair,            \* "same", or "key" when the key is ahead of its certificate
          nginx,           \* "up" or "down"
          acmeCrashes

acmeVars == <<acme, token, hasKey, cert, pair, nginx, acmeCrashes>>

disk == <<hasKey, cert, pair>>

AcmeInit ==
    /\ acme \in {"down", "absent"} /\ token = FALSE
    /\ hasKey = FALSE /\ cert = "none" /\ pair = "same"
    /\ nginx = "down"
    /\ acmeCrashes = 0

(* diskLeaf: the certificate parses and a key file exists. *)
diskLeaf == cert # "none" /\ hasKey

(* The domains are the container's arguments and stay what they are.           *)
needsIssue == ~diskLeaf \/ cert \in {"placeholder", "due"}

GoTo(from, to) == acme = from /\ acme' = to

PutKey ==
    /\ hasKey' = TRUE
    /\ pair' = IF cert = "none" THEN "same" ELSE "key"
    /\ UNCHANGED cert

PutCert(c) ==
    /\ cert' = c
    /\ pair' = "same"
    /\ UNCHANGED hasKey

(* bootstrap: a placeholder when no certificate parses from disk. *)
Boot ==
    /\ \/ ~diskLeaf /\ GoTo("down", "placeholder") /\ PutKey
       \/ diskLeaf /\ GoTo("down", "loop") /\ UNCHANGED disk
    /\ UNCHANGED <<token, nginx, acmeCrashes>>

BootCert ==
    /\ GoTo("placeholder", "loop")
    /\ PutCert("placeholder")
    /\ UNCHANGED <<token, nginx, acmeCrashes>>

(* ensure, once in every round of the loop. *)
ensure ==
    /\ needsIssue
    /\ GoTo("loop", "probing")
    /\ UNCHANGED <<token, disk, nginx, acmeCrashes>>

(* nginx answers the probe; only then is the ACME service contacted. *)
frontDoorReady ==
    /\ nginx = "up"
    /\ GoTo("probing", "account")
    /\ UNCHANGED <<token, disk, nginx, acmeCrashes>>

(* The account is there or is registered, and the order is opened. *)
Order ==
    /\ GoTo("account", "ordering")
    /\ UNCHANGED <<token, disk, nginx, acmeCrashes>>

(* fulfillAuthorization: the token is served before the CA is told to look. *)
Accept ==
    /\ GoTo("ordering", "validating")
    /\ token' = TRUE
    /\ UNCHANGED <<disk, nginx, acmeCrashes>>

(* The CA asks nginx, which asks the handler. *)
Validated ==
    /\ nginx = "up" /\ token
    /\ GoTo("validating", "issued")
    /\ token' = FALSE
    /\ UNCHANGED <<disk, nginx, acmeCrashes>>

(* The order is final: the new key is written, then its certificate.  nginx,   *)
(* told to reload, keeps what it has loaded when the files do not fit.         *)
WriteAcmeKey ==
    /\ GoTo("issued", "keyWritten")
    /\ PutKey
    /\ UNCHANGED <<token, nginx, acmeCrashes>>

WriteAcmeCert ==
    /\ GoTo("keyWritten", "loop")
    /\ PutCert("fresh")
    /\ UNCHANGED <<token, nginx, acmeCrashes>>

(* A step of issue fails, or its five minutes are over. *)
IssueFails ==
    /\ acme \in {"probing", "account", "ordering", "validating", "issued", "keyWritten"}
    /\ acme' = "loop"
    /\ token' = FALSE
    /\ UNCHANGED <<disk, nginx, acmeCrashes>>

(* Two thirds of the certificate's lifetime are over. *)
Ages ==
    /\ cert = "fresh"
    /\ cert' = "due"
    /\ UNCHANGED <<acme, token, hasKey, pair, nginx, acmeCrashes>>

(* nginx loads both files when it starts and exits if they do not fit.  The    *)
(* kubelet holds it back until readyHandler has seen both.                     *)
NginxStarts ==
    /\ nginx = "down"
    /\ diskLeaf /\ pair = "same"
    /\ nginx' = "up"
    /\ UNCHANGED <<acme, token, disk, acmeCrashes>>

AcmeCrash ==
    /\ acmeCrashes < MaxAcmeCrashes
    /\ acmeCrashes' = acmeCrashes + 1
    /\ \/ /\ acme \notin {"down", "absent"}
          /\ acme' = "down" /\ token' = FALSE
          /\ UNCHANGED nginx
       \/ nginx = "up" /\ nginx' = "down" /\ UNCHANGED <<acme, token>>
    /\ UNCHANGED disk

AcmeNext ==
    \/ Boot \/ BootCert \/ ensure
    \/ frontDoorReady \/ Order \/ Accept \/ Validated
    \/ WriteAcmeKey \/ WriteAcmeCert \/ IssueFails
    \/ Ages \/ NginxStarts \/ AcmeCrash

AcmeSpec == AcmeInit /\ [][AcmeNext]_acmeVars

(* The sidecar and the kubelet run; the ACME service, asked again and again,   *)
(* serves an order once.                                                       *)
AcmeFairness ==
    /\ WF_acmeVars(Boot \/ BootCert \/ ensure \/ WriteAcmeKey \/ WriteAcmeCert \/ IssueFails)
    /\ SF_acmeVars(frontDoorReady) /\ SF_acmeVars(Order) /\ SF_acmeVars(Accept)
    /\ SF_acmeVars(Validated) /\ SF_acmeVars(WriteAcmeKey) /\ SF_acmeVars(WriteAcmeCert)
    /\ WF_acmeVars(NginxStarts)

-------------------------------------------------------------------------------
(* manager.go:110 run: through failed orders and restarts of both containers   *)
(* the router gets a fresh public certificate again and again, unless nginx    *)
(* went down while the key was ahead, which is the case FrontDoorReopens is    *)
(* about.                                                                      *)
PublicCertRenews ==
    acme # "absent" => []<>(cert = "fresh" \/ (pair = "key" /\ nginx = "down"))

(* manager.go:156 and cmd.go:182: after the containers stop crashing, nginx    *)
(* comes up again with the files that are on disk.                             *)
FrontDoorReopens == acme # "absent" => []((nginx = "down") => <>(nginx = "up"))

-------------------------------------------------------------------------------
(* The router pod. *)
routerVars == <<getcertVars, acmeVars>>

RouterInit ==
    /\ GetCertInit /\ AcmeInit
    /\ (getcert.at = "absent") <=> (acme # "absent")

RouterNext ==
    \/ GetCertWork /\ UNCHANGED acmeVars
    \/ TimePasses /\ UNCHANGED acmeVars
    \/ AcmeNext /\ UNCHANGED getcertVars

RouterSpec == RouterInit /\ [][RouterNext]_routerVars

FairSpec == RouterSpec /\ GetCertFairness /\ AcmeFairness

(* getcert/run.go:282 and acme/manager.go:110: neither loop ever stops        *)
(* renewing, whatever requests fail and whichever container is restarted.     *)
RenewsForever == MeshCertRenews /\ PublicCertRenews
================================================================================
