------------------------------- MODULE FrontDoor -------------------------------
(***************************************************************************)
(* The credentials of the router pod's attestation sidecar,                *)
(* internal/cmds/cdsattest (server.go, identity.go, backend.go), read from *)
(* the files get-cert is writing, and the client that asks it for          *)
(* evidence, internal/cmds/verify/evidence.go.  A request is short against *)
(* a tick, but get-cert may write any file between two of its reads.  A    *)
(* leaf is the key it certifies and the CA that signed it; a hash is the   *)
(* record of what went into it.                                            *)
(***************************************************************************)
EXTENDS GetCert

CONSTANTS Recheck,         \* upstreamCertRecheckInterval, in ticks
          Desks            \* what is looked at: "attest-pq", "attest-lb", "upstream"

ASSUME RecheckAssumption == Recheck \in Nat

VARIABLES desk,            \* one of Desks, "closed" when the sidecar is not looked at
          mode,            \* --front-door-mode
          request,         \* the request being handled: at, nonce, and what it has read
          bundle,          \* the last bundle answered
          outcome,         \* what the last client made of the answer it got
          loader,          \* upstreamCertLoader: cached, recheck
          hop              \* what the last upstream handshake got, until a file changes

frontDoorVars == <<desk, mode, request, bundle, outcome, loader, hop>>

FrontDoorMode == {"cds", "webpki", "acme"}

Away == [at |-> "away", nonce |-> 0, serving |-> Absent, cert |-> Absent, key |-> Absent]

NoLoader == [cached |-> Absent, recheck |-> 0]

FrontDoorInit ==
    /\ desk \in Desks \cup {"closed"}
    /\ mode \in IF desk = "attest-lb" THEN FrontDoorMode ELSE {"cds"}
    /\ request = Away
    /\ bundle = Absent
    /\ outcome = "none"
    /\ loader = NoLoader
    /\ hop = "none"

-------------------------------------------------------------------------------
(* A certificate as it is hashed: its age is not part of it.                   *)
Raw(leaf) == [key |-> leaf.key, ca |-> leaf.ca]

IdentityTranscriptHash(m, ek, session, nonce, leaf, ca) ==
    [tag |-> "attest-pq", mode |-> m, ek |-> ek, session |-> session, nonce |-> nonce,
     leaf |-> leaf, ca |-> ca]

LBTranscriptHash(m, nonce, serving, leaf, ca) ==
    [tag |-> "attest-lb", mode |-> m, nonce |-> nonce, serving |-> serving,
     leaf |-> leaf, ca |-> ca]

(* Mutant: the leaf's validity is left to the client. *)
parseWithoutValidity(cert, key, ca) == cert.key = key /\ cert.ca = ca

(* One credential generation: the key fits the leaf, the leaf is valid, and a  *)
(* CA of the bundle signed it.                                                 *)
parseMeshIdentity(cert, key, ca) ==
    /\ cert.key = key
    /\ cert.left > 0
    /\ cert.ca = ca

(* The signature of the leaf's key over a transcript.                          *)
prove(key, leaf, ca, transcript) == [leaf |-> leaf, ca |-> ca, by |-> key, over |-> transcript]

bind(m, key, leaf, ca, nonce) ==
    LET hash == IdentityTranscriptHash(m, nonce, nonce, nonce, leaf, ca)
    IN  [report |-> hash, proof |-> prove(key, leaf, ca, hash)]

bindServingLeaf(m, key, leaf, ca, serving, nonce) ==
    LET hash == LBTranscriptHash(m, nonce, serving, leaf, ca)
    IN  [report |-> hash, proof |-> prove(key, leaf, ca, hash)]

-------------------------------------------------------------------------------
(* A client sends a nonce it never used, and with attest-pq a key of its own   *)
(* (told apart by the nonce).  attest-lb is refused where the host holds the   *)
(* serving key, and reads the leaf nginx serves.                               *)
StartAttestPQ ==
    /\ desk = "attest-pq"
    /\ request.at = "away"
    /\ request' = [Away EXCEPT !.at = "cert", !.nonce = IF bundle = Absent THEN 1 ELSE 3 - bundle.nonce]
    /\ outcome' = "none"
    /\ UNCHANGED <<desk, mode, bundle, loader, hop>>

(* The certificate nginx serves: get-cert's own, or the public one.            *)
servingLeafDER == IF mode = "cds" THEN certFile ELSE [key |-> 0, ca |-> 0, left |-> 1]

StartAttestLB ==
    /\ desk = "attest-lb"
    /\ request.at = "away"
    /\ mode \in {"cds", "acme"}
    /\ servingLeafDER # Absent
    /\ request' = [Away EXCEPT !.at = "cert", !.serving = Raw(servingLeafDER),
                      !.nonce = IF bundle = Absent THEN 1 ELSE 3 - bundle.nonce]
    /\ outcome' = "none"
    /\ UNCHANGED <<desk, mode, bundle, loader, hop>>

(* loadMeshIdentity reads the certificate, then the key, then the CA; a file   *)
(* that is not there yet fails the request.                                    *)
ReadCertificate ==
    /\ request.at = "cert"
    /\ request' = IF certFile = Absent THEN Away
                  ELSE [request EXCEPT !.at = "key", !.cert = certFile]
    /\ UNCHANGED <<desk, mode, bundle, outcome, loader, hop>>

ReadKey ==
    /\ request.at = "key"
    /\ request' = IF keyFile = Absent THEN Away
                  ELSE [request EXCEPT !.at = "ca", !.key = keyFile]
    /\ UNCHANGED <<desk, mode, bundle, outcome, loader, hop>>

(* The bundle of either endpoint.                                              *)
Bundle(cert, key, ca) ==
    LET leaf == Raw(cert)
        bound == IF desk = "attest-pq" THEN bind(mode, key, leaf, ca, request.nonce)
                 ELSE bindServingLeaf(mode, key, leaf, ca, request.serving, request.nonce)
    IN  [version |-> desk, nonce |-> request.nonce, ek |-> request.nonce, mode |-> mode,
         session |-> request.nonce, leaf |-> leaf, left |-> cert.left, ca |-> ca,
         serving |-> request.serving, proof |-> bound.proof, evidence |-> bound.report]

(* The CA, the check of the three, and the answer; a set that does not fit and *)
(* a failing evidence provider answer with an error.                           *)
ReadCAAndAnswer ==
    /\ request.at = "ca"
    /\ \/ /\ caFile # Absent
          /\ parseMeshIdentity(request.cert, request.key, caFile)
          /\ bundle' = Bundle(request.cert, request.key, caFile)
          /\ request' = [request EXCEPT !.at = "answered"]
       \/ request' = Away /\ UNCHANGED bundle
    /\ UNCHANGED <<desk, mode, outcome, loader, hop>>

-------------------------------------------------------------------------------
(* verify/evidence.go: what the client takes the answer for.                   *)

committedMeshChain(b) == b.ca = b.proof.ca

verifyIdentityProof(b, transcript) ==
    b.proof.leaf = b.leaf /\ b.proof.by = b.leaf.key /\ b.proof.over = transcript

verifyCommittedChain(b) == b.leaf.ca = b.ca /\ b.left > 0

(* The attest-pq answer to the nonce and key that were sent; the evidence must *)
(* carry the transcript computed from the answer.                              *)
evidenceFromEndpointJSON(b, nonce) ==
    LET erd == IdentityTranscriptHash(b.mode, b.ek, b.session, b.nonce, b.leaf, b.ca)
    IN  /\ b.version = "attest-pq"
        /\ b.nonce = nonce /\ b.ek = nonce
        /\ committedMeshChain(b)
        /\ verifyIdentityProof(b, erd)
        /\ verifyCommittedChain(b)
        /\ b.evidence = erd

(* What a browser client of attest-lb compares: the leaf of its own connection,*)
(* one nginx made with the file the sidecar read.                              *)
AcceptsServingLeaf(b, nonce, observed) ==
    LET erd == LBTranscriptHash(b.mode, nonce, observed, b.leaf, b.ca)
    IN  /\ b.version = "attest-lb" /\ b.nonce = nonce
        /\ verifyIdentityProof(b, erd) /\ verifyCommittedChain(b) /\ b.evidence = erd

gatherFromEndpoint(b, nonce) ==
    IF desk = "attest-pq" THEN evidenceFromEndpointJSON(b, nonce)
    ELSE AcceptsServingLeaf(b, nonce, request.serving)

(* The answer arrives.                                                         *)
ClientTakes ==
    /\ request.at = "answered"
    /\ outcome' = IF gatherFromEndpoint(bundle, request.nonce) THEN "accepted" ELSE "refused"
    /\ request' = Away
    /\ UNCHANGED <<desk, mode, bundle, loader, hop>>

(* The last answer given arrives in place of the one to come.                  *)
ClientTakesOld ==
    /\ request.at \in {"cert", "key", "ca"}
    /\ bundle # Absent
    /\ outcome' = IF gatherFromEndpoint(bundle, request.nonce) THEN "deceived" ELSE "refused old"
    /\ request' = Away
    /\ UNCHANGED <<desk, mode, bundle, loader, hop>>

-------------------------------------------------------------------------------
(* backend.go: the certificate of the hop to the upstream.                     *)

CheckValidity(leaf) == leaf # Absent /\ leaf.left > 0

(* The pair on disk, when it is one.                                           *)
read == IF certFile # Absent /\ keyFile # Absent /\ certFile.key = keyFile THEN certFile ELSE Absent

(* The sidecar starts once the pair reads, valid or not.                       *)
newUpstreamCertLoader ==
    /\ desk = "upstream"
    /\ loader = NoLoader
    /\ read # Absent
    /\ loader' = [cached |-> read, recheck |-> Recheck]
    /\ UNCHANGED <<desk, mode, request, bundle, outcome, hop>>

(* Mutant: a cached certificate is handed out until the next look at the disk. *)
reuseUnchecked == loader.recheck > 0

canReuseCachedCertificate == loader.recheck > 0 /\ CheckValidity(loader.cached)

(* A handshake: the cached certificate, or the one on disk when that is valid, *)
(* or the cached one again while it is.                                        *)
getClientCertificate ==
    /\ loader # NoLoader
    /\ hop = "none"
    /\ \/ /\ canReuseCachedCertificate
          /\ hop' = "cached" /\ UNCHANGED loader
       \/ /\ ~canReuseCachedCertificate
          /\ CheckValidity(read)
          /\ hop' = "disk" /\ loader' = [cached |-> read, recheck |-> Recheck]
       \/ /\ ~canReuseCachedCertificate
          /\ ~CheckValidity(read)
          /\ hop' = IF CheckValidity(loader.cached) THEN "cached" ELSE "error"
          /\ UNCHANGED loader
    /\ UNCHANGED <<desk, mode, request, bundle, outcome>>

(* What get-cert's writes and the clock do to the sidecar.                     *)
FilesChange == hop' = "none" /\ UNCHANGED <<desk, mode, request, bundle, outcome, loader>>

DoorAges ==
    /\ request.at = "away"
    /\ hop' = "none"
    /\ loader' = [cached |-> Older(loader.cached), recheck |-> Lower(loader.recheck)]
    /\ UNCHANGED <<desk, mode, request, bundle, outcome>>

FrontDoorNext ==
    \/ StartAttestPQ \/ StartAttestLB
    \/ ReadCertificate \/ ReadKey \/ ReadCAAndAnswer
    \/ ClientTakes \/ ClientTakesOld
    \/ newUpstreamCertLoader \/ getClientCertificate

(* The sidecar beside get-cert. *)
BesideGetCert ==
    \/ GetCertWork /\ FilesChange
    \/ TimePasses /\ DoorAges
    \/ FrontDoorNext /\ UNCHANGED getcertVars

FrontDoorSpec == GetCertInit /\ FrontDoorInit /\ [][BesideGetCert]_<<getcertVars, frontDoorVars>>

-------------------------------------------------------------------------------
(* identity.go:28-33, evidence.go:341: three files are read one by one while    *)
(* get-cert replaces them, and still every bundle the sidecar answers with is   *)
(* one the client that asked for it accepts, and no client accepts the answer   *)
(* to another request.  backend.go:183: the upstream is never shown an expired  *)
(* certificate, nor an old one for longer than the recheck interval while the   *)
(* files hold a valid pair, and a handshake fails only when they hold none.     *)
DoorIsUsable ==
    /\ outcome \notin {"refused", "deceived"}
    /\ hop = "cached" => /\ CheckValidity(loader.cached)
                         /\ loader.recheck = 0 => ~CheckValidity(read)
    /\ hop = "error" => ~CheckValidity(read)
================================================================================
