------------------------------ MODULE CertManager ------------------------------
(***************************************************************************)
(* The two certificate managers of a ratls-mesh proxy (pkg/ratls tls.go    *)
(* and rotation.go), the goroutine that moves them from self-signed to     *)
(* CDS-issued certificates (cds_upgrade.go) and the one that polls /ca     *)
(* (ca_refresh.go).                                                        *)
(*                                                                         *)
(* A manager's certificate can be replaced from three places at once: the  *)
(* rotation worker, a handshake that found nothing usable, and             *)
(* SwapProvider.  Each call of Provision is a job.  A job holds the        *)
(* provider and the revision it read before the round trip; `current`      *)
(* stands for "that revision is still the manager's".  Times are           *)
(* countdowns that Tick lowers.                                            *)
(*                                                                         *)
(* First pkg/ratls/cdsclient: which mesh CAs a client of CDS trusts.  CDS  *)
(* makes its CA in memory when it starts, so a new process publishes a CA  *)
(* unrelated to the last one unless a rotation links the two.  A client    *)
(* learns CAs in two ways: with a leaf, from an attested exchange, and     *)
(* from polling /ca, which is not authenticated and so must connect to     *)
(* what is already trusted.                                                *)
(***************************************************************************)
EXTENDS Integers, FiniteSets, Sequences, SequencesExt

CONSTANTS CA,
          Signed,          \* <<parent, child>>: parent has signed child
          Histories        \* what successive CDS processes publish: sequences
                           \* of bundles, the CA that signs leaves first

VARIABLES history,         \* the one of Histories that happens
          process,         \* the CDS process now running, an index of history
          trusted,         \* Client.trustedCABundle
          seeds            \* CAs whose leaves this client has verified

caVars == <<history, process, trusted, seeds>>

ASSUME HistoriesAssumption ==
    /\ Signed \subseteq CA \X CA
    /\ \A h \in Histories : \A k \in DOMAIN h : h[k] # <<>> /\ ToSet(h[k]) \subseteq CA

published == history[process]

(* The links a bundle may grow along, as pairs <<cert, other>>. *)
certSignsOther == Signed

certSignedByOther == {<<p[2], p[1]>> : p \in Signed}

(* Adds candidates with a link to an accepted CA or an anchor until none is   *)
(* added: at most one round for each candidate.                               *)
growAcceptedByLink(accepted, candidates, anchors, links) ==
    LET rounds == Cardinality(candidates)
        grown[n \in 0..rounds] ==
            IF n = 0 THEN accepted
            ELSE grown[n - 1] \union
                 {c \in candidates : \E o \in (anchors \union grown[n - 1]) \ {c} : <<c, o>> \in links}
    IN  grown[rounds]

verifiedInitialCABundle(bundle) ==
    growAcceptedByLink({Head(bundle)}, ToSet(Tail(bundle)), {}, certSignsOther)

continuityCABundle(bundle) ==
    growAcceptedByLink(ToSet(bundle) \intersect trusted, ToSet(bundle), trusted, certSignedByOther)

(* A leaf came with this bundle.  Overlap with the old trust is kept, and so  *)
(* nothing of it when CDS was restarted with a CA of its own.                 *)
rememberVerifiedCABundle(bundle) ==
    /\ trusted' = verifiedInitialCABundle(bundle) \union (ToSet(bundle) \intersect trusted)
    /\ seeds' = seeds \union {Head(bundle)}

(* Mutant: whatever /ca answers is taken. *)
AcceptAnyBundle(bundle) ==
    /\ trusted # {}
    /\ trusted' = ToSet(bundle)
    /\ UNCHANGED seeds

acceptCABundle(bundle) ==
    /\ trusted # {}
    /\ continuityCABundle(bundle) # {}
    /\ trusted' = continuityCABundle(bundle)
    /\ UNCHANGED seeds

CAInit == history \in Histories /\ process = 1

NoTrust == trusted = {} /\ seeds = {}

(* CDS is started again, or its CA rotates. *)
CdsRestart ==
    /\ process < Len(history)
    /\ process' = process + 1
    /\ UNCHANGED <<history, trusted, seeds>>

CATypeOK ==
    /\ history \in Histories
    /\ process \in DOMAIN history
    /\ trusted \subseteq CA
    /\ seeds \subseteq CA

(* CAs with a chain of signatures, in either direction, to one of S. *)
Connected(S) ==
    growAcceptedByLink(S, CA, {}, certSignsOther \union certSignedByOther)

-------------------------------------------------------------------------------
(* client.go:175 "This keeps unauthenticated CA bundle refreshes from         *)
(* expanding trust without signature continuity": whatever order leaves,      *)
(* refreshes and CDS restarts come in, a trusted CA has signed a leaf the     *)
(* client verified or is linked by signatures to one that has.                *)
TrustIsSeeded == trusted \subseteq Connected(seeds)

-------------------------------------------------------------------------------
(* The certificate managers. *)
CONSTANTS Manager,         \* "server" and "client"
          Scenes,          \* [managers, upgraded, handshakes, history]: a proxy as it
                           \* starts or after its upgrade, and the CDS processes
          Life,            \* lifetime of a leaf
          Retry,           \* rotation backoff and negative cache of handshakes
          None

VARIABLES scene,           \* the one of Scenes that happens
          manager,         \* per manager: provider, cert, rotateAt, retryAt, cooldown
          job,             \* <<manager, kind>> -> Provision call in flight
          worker,          \* RunRotation has been started
          upgrade,         \* cdsUpgrade.run: the manager it is at, or "done"
          answer,          \* the bundle /ca has answered to the poller
          pool             \* sharedCACerts of both managers

managerVars == <<scene, manager, job, worker, upgrade, answer, pool>>

Kind == {"rotation", "sync", "swap"}

Down(n) == IF n = 0 THEN 0 ELSE n - 1

Usable(m) == manager[m].cert # None /\ manager[m].cert.left > 0

Aged(cert) == IF cert = None THEN None ELSE [cert EXCEPT !.left = Down(@)]

NoCert == [provider |-> "self", cert |-> None, rotateAt |-> 0, retryAt |-> 0, cooldown |-> 0]

FirstCert == [provider |-> "cds", cert |-> [left |-> Life, bundle |-> published],
              rotateAt |-> Life \div 2, retryAt |-> 0, cooldown |-> 0]

ManagerInit ==
    /\ CAInit
    /\ scene \in Scenes
    /\ history = scene.history
    /\ manager = [m \in scene.managers |-> IF scene.upgraded THEN FirstCert ELSE NoCert]
    /\ job = [j \in scene.managers \X Kind |-> None]
    /\ IF scene.upgraded
       THEN /\ upgrade = "done"
            /\ trusted = verifiedInitialCABundle(published)
            /\ seeds = {Head(published)}
       ELSE /\ upgrade = "server"
            /\ NoTrust
    /\ worker = scene.upgraded
    /\ answer = None
    /\ pool = {}

Start(m, kind, provider) ==
    /\ job[<<m, kind>>] = None
    /\ job' = [job EXCEPT ![<<m, kind>>] = [provider |-> provider, current |-> TRUE,
                                                   cert |-> None, late |-> FALSE]]

(* getOrProvision, and WarmUp with it.  A usable certificate is served, and a  *)
(* rotation that is due is asked for unless a worker looks after it.           *)
ServeCached(m) ==
    /\ scene.handshakes
    /\ Usable(m)
    /\ ~worker
    /\ manager[m].rotateAt = 0 /\ manager[m].retryAt = 0
    /\ Start(m, "rotation", manager[m].provider)
    /\ UNCHANGED <<scene, manager, worker, upgrade, answer, pool>>

(* syncProvision: a handshake that finds no attempt in progress and no cached  *)
(* failure leads one; the others wait for it or fail without an effect.        *)
syncProvision(m) ==
    /\ scene.handshakes
    /\ ~Usable(m)
    /\ manager[m].cooldown = 0
    /\ Start(m, "sync", manager[m].provider)
    /\ UNCHANGED <<scene, manager, worker, upgrade, answer, pool>>

RunRotation ==
    /\ ~worker
    /\ worker' = TRUE
    /\ UNCHANGED <<scene, manager, job, upgrade, answer, pool>>

(* A deadline of the zero time is due: a failed warm-up is tried again.        *)
rotateIfDue(m) ==
    /\ worker
    /\ manager[m].rotateAt = 0 \/ ~Usable(m)
    /\ manager[m].retryAt = 0
    /\ Start(m, "rotation", manager[m].provider)
    /\ UNCHANGED <<scene, manager, worker, upgrade, answer, pool>>

(* cdsUpgrade.run: SwapProvider on the server's manager, then on the client's. *)
SwapProvider(m) ==
    /\ upgrade = m
    /\ Start(m, "swap", "cds")
    /\ UNCHANGED <<scene, manager, worker, upgrade, answer, pool>>

(* The provider signs: CDS with the CA of its running process.                 *)
Issue(j) ==
    /\ job[j] # None
    /\ job[j].cert = None
    /\ job' = [job EXCEPT ![j].cert =
                  [left |-> Life, bundle |-> IF job[j].provider = "cds" THEN published ELSE None]]
    /\ UNCHANGED <<scene, manager, worker, upgrade, answer, pool>>

(* certificateInstalledLocked: a new revision, under which the other jobs of   *)
(* the manager are out of date.  The negative cache is cleared after it.       *)
Install(m, kind, provider, cert) ==
    /\ manager' = [manager EXCEPT ![m] = [provider |-> provider, cert |-> cert,
                      rotateAt |-> cert.left \div 2, retryAt |-> 0, cooldown |-> 0]]
    /\ job' = [j \in DOMAIN job |->
                  IF j = <<m, kind>> \/ job[j] = None THEN None
                  ELSE IF j[1] = m THEN [job[j] EXCEPT !.current = FALSE] ELSE job[j]]

End(m, kind) == job' = [job EXCEPT ![<<m, kind>>] = None]

(* provisionNow and backgroundProvision install only what was asked for under  *)
(* the present revision; SwapProvider always installs.                         *)
(* Mutant: a renewal installs whatever the revision.                           *)
InstallAlways(m, kind) ==
    LET j == job[<<m, kind>>]
    IN  Install(m, kind, IF kind = "swap" THEN j.provider ELSE manager[m].provider, j.cert)

InstallCurrent(m, kind) ==
    LET j == job[<<m, kind>>]
    IN  \/ /\ kind = "swap" \/ j.current
           /\ Install(m, kind, j.provider, j.cert)
        \/ /\ kind # "swap" /\ ~j.current
           /\ End(m, kind)
           /\ UNCHANGED manager

NextUpgrade(m) == IF m = "server" /\ "client" \in scene.managers THEN "client" ELSE "done"

(* Provision returns a certificate: the client's trust is seeded, then the     *)
(* manager decides.                                                            *)
Provisioned(m, kind) ==
    LET j == job[<<m, kind>>]
    IN  /\ j # None
        /\ j.cert # None /\ j.cert.left > 0
        /\ IF j.provider = "cds" THEN rememberVerifiedCABundle(j.cert.bundle)
                                 ELSE UNCHANGED <<trusted, seeds>>
        /\ InstallCurrent(m, kind)
        /\ upgrade' = IF kind = "swap" THEN NextUpgrade(m) ELSE upgrade
        /\ UNCHANGED <<history, process, scene, worker, answer, pool>>

(* It fails, times out, or returns an expired leaf.  The server's upgrade is   *)
(* tried again, the client's only once.  A rotation backs off unless another   *)
(* certificate was installed meanwhile.                                        *)
ProvisionFails(m, kind) ==
    LET j == job[<<m, kind>>]
    IN  /\ j # None
        /\ End(m, kind)
        /\ manager' = [manager EXCEPT
               ![m].retryAt = IF kind = "rotation" /\ j.current THEN Retry ELSE @,
               ![m].cooldown = IF kind = "sync" THEN Retry ELSE @]
        /\ upgrade' = IF kind = "swap" /\ m = "client" THEN "done" ELSE upgrade
        /\ UNCHANGED <<scene, worker, answer, pool>>

(* The handshake that leads a synchronous attempt goes away: no failure is     *)
(* cached.                                                                     *)
LeaderLeaves(m) ==
    /\ job[<<m, "sync">>] # None
    /\ End(m, "sync")
    /\ UNCHANGED <<scene, manager, worker, upgrade, answer, pool>>

(* caBundleRefresh.run: fetch, then accept and hand to both managers.          *)
FetchCA ==
    /\ answer = None
    /\ answer' = published
    /\ UNCHANGED <<scene, manager, job, worker, upgrade, pool>>

(* Mutant: what was accepted is not handed to the managers. *)
RefreshKeepsPool ==
    /\ answer # None
    /\ \/ acceptCABundle(answer)
       \/ /\ trusted = {} \/ continuityCABundle(answer) = {}
          /\ UNCHANGED <<trusted, seeds>>
    /\ answer' = None
    /\ UNCHANGED <<history, process, scene, manager, job, worker, upgrade, pool>>

refreshCABundle ==
    /\ answer # None
    /\ \/ /\ acceptCABundle(answer)
          /\ pool' = trusted'
       \/ /\ trusted = {} \/ continuityCABundle(answer) = {}
          /\ UNCHANGED <<trusted, seeds, pool>>
    /\ answer' = None
    /\ UNCHANGED <<history, process, scene, manager, job, worker, upgrade>>

Tick ==
    /\ \A j \in DOMAIN job : job[j] # None => ~job[j].late
    /\ manager' = [m \in DOMAIN manager |-> [manager[m] EXCEPT !.cert = Aged(@), !.rotateAt = Down(@),
                                          !.retryAt = Down(@), !.cooldown = Down(@)]]
    /\ job' = [j \in DOMAIN job |->
                  IF job[j] = None THEN None ELSE [job[j] EXCEPT !.cert = Aged(@), !.late = TRUE]]
    /\ UNCHANGED <<scene, worker, upgrade, answer, pool>>

(* Steps that leave the CDS processes and the client's trust alone. *)
ManagerStep ==
    \/ \E m \in DOMAIN manager :
          \/ ServeCached(m) \/ syncProvision(m) \/ rotateIfDue(m)
          \/ SwapProvider(m) \/ LeaderLeaves(m)
          \/ \E kind \in Kind : Issue(<<m, kind>>) \/ ProvisionFails(m, kind)
    \/ RunRotation
    \/ FetchCA
    \/ Tick

ManagerNext ==
    \/ ManagerStep /\ UNCHANGED caVars
    \/ \E m \in DOMAIN manager, kind \in Kind : Provisioned(m, kind)
    \/ refreshCABundle
    \/ CdsRestart /\ UNCHANGED managerVars

ManagerSpec == ManagerInit /\ [][ManagerNext]_<<caVars, managerVars>>

(* Steps of the goroutine behind a job. *)
Work(m, kind) ==
    \/ /\ \/ kind = "rotation" /\ rotateIfDue(m)
          \/ kind = "swap" /\ SwapProvider(m)
          \/ Issue(<<m, kind>>)
          \/ ProvisionFails(m, kind)
       /\ UNCHANGED caVars
    \/ Provisioned(m, kind)

(* Every goroutine runs; a source that is asked again and again answers once.  *)
ManagerFairness ==
    LET vars == <<caVars, managerVars>>
    IN  /\ WF_vars(Tick /\ UNCHANGED caVars)
        /\ WF_vars(RunRotation /\ UNCHANGED caVars)
        /\ WF_vars((FetchCA /\ UNCHANGED caVars) \/ refreshCABundle)
        /\ \A m \in Manager, kind \in Kind : WF_vars(m \in scene.managers /\ Work(m, kind))
        /\ \A kind \in {"rotation", "swap"} :
              /\ SF_vars(Issue(<<"server", kind>>) /\ UNCHANGED caVars)
              /\ SF_vars(Provisioned("server", kind))

Cert == [left : 0..Life, bundle : {None} \union UNION {ToSet(h) : h \in Histories}]

ManagerTypeOK ==
    /\ manager \in [scene.managers -> [provider : {"self", "cds"}, cert : Cert \union {None},
                                rotateAt : 0..Life, retryAt : 0..Retry, cooldown : 0..Retry]]
    /\ \A j \in scene.managers \X Kind :
          job[j] = None \/ job[j] \in [provider : {"self", "cds"}, current : BOOLEAN,
                                       cert : Cert \union {None}, late : BOOLEAN]
    /\ worker \in BOOLEAN
    /\ upgrade \in Manager \union {"done"}
    /\ answer = None \/ \E h \in Histories : answer \in ToSet(h)
    /\ pool \subseteq CA

-------------------------------------------------------------------------------
(* tls.go:555: the upgrade to CDS-issued certificates is final.  A renewal    *)
(* that was asked of the self-signed provider before SwapProvider, and comes   *)
(* back after it, never replaces the certificate SwapProvider installed.       *)
UpgradeSticks ==
    \A m \in DOMAIN manager :
        manager[m].provider = "cds" => manager[m].cert # None /\ manager[m].cert.bundle # None

(* Neither an upgrade nor trust is lost or gained by a late answer:            *)
(* UpgradeSticks, and TrustIsSeeded.                                  *)
LateAnswersHarmless == UpgradeSticks /\ TrustIsSeeded

(* ca_refresh.go and provider.go: once CDS stops being restarted, the proxy    *)
(* comes to trust the CA of the CDS that runs, in the client and in the pool   *)
(* handshakes verify peers against, and stays there, also when a restart left  *)
(* nothing that /ca polling could connect to.                                  *)
TrustConverges ==
    <>[](process = Len(history)) => <>[](Head(published) \in trusted /\ pool = trusted)
================================================================================
