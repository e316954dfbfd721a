------------------------------- MODULE CredRelease -------------------------------
(***************************************************************************)
(* internal/cmds/credrelease and getkubeconfig: an operator's run of       *)
(* `c8s get-kubeconfig` against the credential service of the guest at an  *)
(* address.  The guest there may be replaced, its service restarted and    *)
(* its measured chain extended between any two steps of the run.  Random   *)
(* values (nonces, TLS and client keys, service incarnations) are numbers  *)
(* of one counter, which dates them too.                                   *)
(***************************************************************************)
EXTENDS Integers, Sequences

CONSTANTS Guests,          \* guests that may be launched: platform, digest, bound and staged key
          KcConfigs,       \* command lines: key, platform, digests, workloads, role, legacy, ahead
          WorkloadImage,   \* images a measurer may extend
          Stray,           \* tokens of other tooling: key, iat, exp
          MaxGuests,       \* bound on guests at the address
          MaxFresh,        \* bound on random values
          None

VARIABLES guest,           \* the guest at the address, its service included
          launched,        \* every guest so far, by its number
          fresh,           \* the last random value drawn
          kc,              \* the operator's process
          kubeconfig,      \* the file it writes
          released,        \* every certificate signed, and the key that asked
          oldReport        \* the last evidence the legacy endpoint gave

credVars == <<guest, launched, fresh, kc, kubeconfig, released, oldReport>>

KcIdle == [at |-> "idle"]

KcShut == [at |-> "shut"]

CredIdle ==
    /\ guest = None /\ launched = <<>> /\ fresh = 0
    /\ kc = KcShut /\ kubeconfig = None /\ released = {} /\ oldReport = None

CredInit ==
    /\ guest = None /\ launched = <<>> /\ fresh = 0
    /\ kc = KcIdle /\ kubeconfig = None /\ released = {} /\ oldReport = None

Draw == fresh < MaxFresh /\ fresh' = fresh + 1

-------------------------------------------------------------------------------
(* The guest. *)

Up == guest # None /\ guest.at = "up"

LaunchGuest ==
    /\ Len(launched) < MaxGuests
    /\ \E g \in Guests :
          /\ launched' = Append(launched, g)
          /\ guest' = [n |-> Len(launched) + 1, of |-> g, chain |-> <<>>, at |-> "boot",
                       operator |-> None, quote |-> None, inc |-> 0]
    /\ UNCHANGED <<fresh, kc, kubeconfig, released, oldReport>>

(* The measurer of a TDX node extends an image once.                           *)
ExtendChain ==
    /\ guest # None /\ guest.of.platform = "tdx"
    /\ \E w \in WorkloadImage :
          /\ \A i \in DOMAIN guest.chain : guest.chain[i] # w
          /\ guest' = [guest EXCEPT !.chain = Append(@, w)]
    /\ UNCHANGED <<launched, fresh, kc, kubeconfig, released, oldReport>>

(* runtimemeasure.VerifyBinding over the guest's own verified report.          *)
VerifyBinding(key, chain) == guest.of.key = key /\ guest.chain = chain

(* A guest without a key, with another key staged, or already extended: the    *)
(* service exits and is started again.                                         *)
LoadMeasuredOperatorKey ==
    /\ guest # None /\ guest.at = "boot"
    /\ guest.of.staged # None /\ VerifyBinding(guest.of.staged, <<>>)
    /\ guest' = [guest EXCEPT !.at = "loaded", !.operator = guest.of.staged]
    /\ UNCHANGED <<launched, fresh, kc, kubeconfig, released, oldReport>>

Quote == [tls |-> fresh + 1, of |-> guest.of, chain |-> guest.chain]

(* Run: the cluster CA, which RKE2 may not have made yet, the warm-up of the   *)
(* serving certificate, then the listener.                                     *)
ServeRelease ==
    /\ guest # None /\ guest.at = "loaded"
    /\ \/ Draw /\ guest' = [guest EXCEPT !.at = "up", !.quote = Quote, !.inc = fresh + 1]
       \/ guest' = [guest EXCEPT !.at = "boot"] /\ UNCHANGED fresh
    /\ UNCHANGED <<launched, kc, kubeconfig, released, oldReport>>

(* The certificate manager replaces the serving certificate before it expires. *)
Requote ==
    /\ Up /\ Draw
    /\ guest' = [guest EXCEPT !.quote = Quote]
    /\ UNCHANGED <<launched, kc, kubeconfig, released, oldReport>>

StopRelease ==
    /\ guest # None /\ guest.at \in {"loaded", "up"}
    /\ guest' = [guest EXCEPT !.at = "boot"]
    /\ UNCHANGED <<launched, fresh, kc, kubeconfig, released, oldReport>>

ClockSkew == 60

MaxTokenValidity == 300

(* Verifier.Authorize at the guest's time 0, for a token bound to this path    *)
(* and body.                                                                   *)
Authorize(t) ==
    /\ t.key = guest.operator
    /\ t.iat <= ClockSkew /\ t.exp > -ClockSkew
    /\ t.exp - t.iat > 0 /\ t.exp - t.iat <= MaxTokenValidity

(* Signer.Authorization, by a clock that is ahead by so much.                  *)
Authorization(cfg) == [key |-> cfg.key, iat |-> cfg.ahead, exp |-> cfg.ahead + 60]

ParseRole(name) ==
    CASE name = "" -> "operator" [] name \in {"operator", "log-reader"} -> name [] OTHER -> None

signOperatorCert(csr, role) == [csr |-> csr, role |-> role, by |-> guest.n]

(* A release asked for by other tooling with a key of its own.                 *)
StrayRelease ==
    /\ Up
    /\ \E t \in Stray : /\ Authorize(t)
                        /\ released' = released \cup {[cert |-> signOperatorCert(0, "operator"), key |-> t.key]}
    /\ UNCHANGED <<guest, launched, fresh, kc, kubeconfig, oldReport>>

-------------------------------------------------------------------------------
(* The operator's process. *)

workloadChain(cfg) ==
    /\ cfg.workloads # <<>> => cfg.platform = "tdx"
    /\ \A i, j \in DOMAIN cfg.workloads : cfg.workloads[i] = cfg.workloads[j] => i = j

KcFails == kc' = [at |-> "failed"]

KcStart ==
    /\ kc.at = "idle"
    /\ \E cfg \in KcConfigs :
          IF ParseRole(cfg.role) # None /\ workloadChain(cfg)
          THEN kc' = [at |-> "attest", cfg |-> cfg, since |-> fresh, conn |-> None,
                      nonce |-> 0, answer |-> None, report |-> None, csr |-> 0]
          ELSE KcFails
    /\ UNCHANGED <<guest, launched, fresh, kubeconfig, released, oldReport>>

(* The image tuple, and the binding of the operator's key and the chain.       *)
checkIdentity(cfg, q) ==
    q.of.digest \in cfg.digests /\ q.of.key = cfg.key /\ q.chain = cfg.workloads

(* Mutant: any report of the identity will do.                                 *)
verifyEvidenceOfAnyNonce(cfg, q, data, expected) ==
    q.of.platform = cfg.platform /\ checkIdentity(cfg, q)

(* The bare-metal platform of the manifest, what the report is bound to, and   *)
(* the identity: the one funnel of both gates.                                 *)
verifyMeasured(cfg, q, data, expected) ==
    q.of.platform = cfg.platform /\ data = expected /\ checkIdentity(cfg, q)

verifyServerCert(cfg, q) == verifyMeasured(cfg, q, q.tls, q.tls)

Alive == kc.conn # None /\ Up /\ kc.conn = <<guest.n, guest.inc>>

Asking == kc.at \in {"attest", "release"} /\ ~(kc.at = "attest" /\ kc.cfg.legacy)

(* RetryConnectionRefused: a refused dial is tried again until the deadline;   *)
(* everything else is final.                                                   *)
DialRefused ==
    /\ Asking /\ kc.conn = None
    /\ ~Up
    /\ KcFails
    /\ UNCHANGED <<guest, launched, fresh, kubeconfig, released, oldReport>>

KcDial ==
    /\ Asking /\ kc.conn = None
    /\ Up
    /\ IF verifyServerCert(kc.cfg, guest.quote) THEN kc' = [kc EXCEPT !.conn = <<guest.n, guest.inc>>]
       ELSE KcFails
    /\ UNCHANGED <<guest, launched, fresh, kubeconfig, released, oldReport>>

(* An idle connection the server closed is dialled anew when nothing was       *)
(* written to it yet; a request or an answer that is lost or overdue is an     *)
(* error.                                                                      *)
ConnLost ==
    /\ \/ Asking /\ kc.conn # None /\ kc' = [kc EXCEPT !.conn = None]
       \/ /\ kc.at \in {"attest", "release", "attest-sent", "release-sent", "release-answered"}
          /\ kc.conn # None /\ KcFails
    /\ UNCHANGED <<guest, launched, fresh, kubeconfig, released, oldReport>>

KcSend ==
    /\ Asking /\ Alive
    /\ IF kc.at = "attest" THEN Draw /\ kc' = [kc EXCEPT !.at = "attest-sent", !.nonce = fresh + 1]
       ELSE kc' = [kc EXCEPT !.at = "release-sent"] /\ UNCHANGED fresh
    /\ UNCHANGED <<guest, launched, kubeconfig, released, oldReport>>

Evidence(nonce, when) == [of |-> guest.of, chain |-> guest.chain, nonce |-> nonce, made |-> when]

(* ServeHTTP for /attest; the local attestation-api may be unavailable.        *)
serveAttest ==
    /\ kc.at = "attest-sent" /\ Alive
    /\ \/ /\ Authorize(Authorization(kc.cfg))
          /\ kc' = [kc EXCEPT !.at = "attest-answered", !.answer = Evidence(kc.nonce, fresh)]
       \/ KcFails
    /\ UNCHANGED <<guest, launched, fresh, kubeconfig, released, oldReport>>

(* attestAndVerify's request to --attest-url: no channel, no authorization,    *)
(* and in front of the guest something that may answer again what it had.      *)
postAttest ==
    /\ kc.at = "attest" /\ kc.cfg.legacy
    /\ \/ /\ guest # None /\ Draw
          /\ \E e \in {Evidence(fresh + 1, fresh + 1), oldReport} \ {None} :
                /\ kc' = [kc EXCEPT !.at = "attest-answered", !.nonce = fresh + 1, !.answer = e]
                /\ oldReport' = e
       \/ KcFails /\ UNCHANGED <<fresh, oldReport>>
    /\ UNCHANGED <<guest, launched, kubeconfig, released>>

KcVerifies ==
    /\ kc.at = "attest-answered"
    /\ IF verifyMeasured(kc.cfg, kc.answer, kc.answer.nonce, kc.nonce)
       THEN kc' = [kc EXCEPT !.at = "identity", !.report = kc.answer, !.answer = None]
       ELSE KcFails
    /\ UNCHANGED <<guest, launched, fresh, kubeconfig, released, oldReport>>

newClientIdentity ==
    /\ kc.at = "identity"
    /\ \/ Draw /\ kc' = [kc EXCEPT !.at = "release", !.csr = fresh + 1]
       \/ KcFails /\ UNCHANGED fresh
    /\ UNCHANGED <<guest, launched, kubeconfig, released, oldReport>>

(* ServeHTTP for /release-credential, on the connection that is up.            *)
serveRelease ==
    /\ kc.at = "release-sent" /\ Alive
    /\ IF Authorize(Authorization(kc.cfg))
       THEN LET cert == signOperatorCert(kc.csr, ParseRole(kc.cfg.role))
            IN  /\ released' = released \cup {[cert |-> cert, key |-> kc.cfg.key]}
                /\ kc' = [kc EXCEPT !.at = "release-answered", !.answer = cert]
       ELSE KcFails /\ UNCHANGED released
    /\ UNCHANGED <<guest, launched, fresh, kubeconfig, oldReport>>

(* os.WriteFile truncates first: a failed write leaves no kubeconfig.          *)
WriteKubeconfig ==
    /\ kc.at = "release-answered"
    /\ \/ /\ kubeconfig' = [cert |-> kc.answer, key |-> kc.csr, cfg |-> kc.cfg,
                            report |-> kc.report, since |-> kc.since]
          /\ kc' = [at |-> "done"]
       \/ kubeconfig' = None /\ KcFails
    /\ UNCHANGED <<guest, launched, fresh, released, oldReport>>

KcRerun ==
    /\ kc.at \in {"done", "failed"}
    /\ kc' = KcIdle
    /\ UNCHANGED <<guest, launched, fresh, kubeconfig, released, oldReport>>

CredNext ==
    \/ LaunchGuest \/ ExtendChain \/ LoadMeasuredOperatorKey \/ ServeRelease \/ Requote \/ StopRelease
    \/ StrayRelease
    \/ KcStart \/ DialRefused \/ KcDial \/ ConnLost \/ KcSend \/ serveAttest \/ postAttest
    \/ KcVerifies \/ newClientIdentity \/ serveRelease \/ WriteKubeconfig \/ KcRerun

CredSpec == CredInit /\ [][CredNext]_credVars

-------------------------------------------------------------------------------
(* getkubeconfig/run.go:62, credrelease/handler.go:110: a kubeconfig on disk   *)
(* holds a certificate for the key beside it and the role asked for, signed by *)
(* a guest of the manifest's image that was launched for this operator's key,  *)
(* and a guest of that image and key showed exactly the expected workloads     *)
(* while this run was under way, whatever was replaced, restarted, extended or *)
(* answered late meanwhile; and no guest ever signs for anybody but the holder *)
(* of the key it was launched for.                                             *)
KubeconfigEarned ==
    /\ \A r \in released : r.key = launched[r.cert.by].key
    /\ kubeconfig # None =>
          LET cfg == kubeconfig.cfg
              Mine(g) == g.platform = cfg.platform /\ g.digest \in cfg.digests /\ g.key = cfg.key
          IN  /\ kubeconfig.cert.csr = kubeconfig.key
              /\ kubeconfig.cert.role = ParseRole(cfg.role)
              /\ Mine(launched[kubeconfig.cert.by])
              /\ Mine(kubeconfig.report.of)
              /\ kubeconfig.report.chain = cfg.workloads
              /\ kubeconfig.report.made > kubeconfig.since
==================================================================================
