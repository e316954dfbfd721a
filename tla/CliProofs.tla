-------------------------------- MODULE CliProofs --------------------------------
(***************************************************************************)
(* The operator's two commands, for any command lines, targets, guests and *)
(* tokens: the exit code of `c8s verify` is honest, and every kubeconfig   *)
(* on disk was earned.                                                     *)
(***************************************************************************)
EXTENDS VerifyCli, CredRelease, FiniteSetTheorems, TLAPS

(* The guest a command line expects, its chain aside. *)
Expected(cfg, g) == g.platform = cfg.platform /\ g.digest \in cfg.digests /\ g.key = cfg.key

Known(log, n) == n \in 1..Len(log)

(* The service of the guest at the address releases to the key the guest was *)
(* launched for, and its serving certificate is the guest's own.             *)
GuestKept ==
    guest # None =>
        /\ DOMAIN guest = {"n", "of", "chain", "at", "operator", "quote", "inc"}
        /\ Known(launched, guest.n) /\ guest.of = launched[guest.n]
        /\ guest.at \in {"loaded", "up"} => guest.operator = guest.of.key
        /\ guest.at = "up" => guest.quote.of = guest.of

(* Evidence is made once its nonce is known. *)
Dated(e) == e.nonce \in Nat /\ e.made \in Nat /\ e.nonce <= e.made

Shown(cfg, since, report) ==
    Expected(cfg, report.of) /\ report.chain = cfg.workloads /\ report.made > since

Signed(log, cfg, csr, cert) ==
    /\ cert.csr = csr /\ cert.role = ParseRole(cfg.role)
    /\ Known(log, cert.by) /\ Expected(cfg, log[cert.by])

Running == {"attest", "attest-sent", "attest-answered", "identity", "release", "release-sent",
            "release-answered"}

(* The operator's process: its connection ends at an expected guest, its nonce *)
(* is younger than the run, and what it has verified stays verified.           *)
KcKept ==
    /\ kc.at \in Running \cup {"idle", "failed", "done"}
    /\ kc.at \in Running =>
          /\ DOMAIN kc = {"at", "cfg", "since", "conn", "nonce", "answer", "report", "csr"}
          /\ kc.since \in Nat /\ kc.since <= fresh
          /\ kc.conn # None => Known(launched, kc.conn[1]) /\ Expected(kc.cfg, launched[kc.conn[1]])
    /\ kc.at \in {"attest-sent", "attest-answered"} =>
          kc.nonce \in Nat /\ kc.since < kc.nonce /\ kc.nonce <= fresh
    /\ kc.at = "attest-answered" => Dated(kc.answer)
    /\ kc.at \in {"identity", "release", "release-sent", "release-answered"} =>
          Shown(kc.cfg, kc.since, kc.report)
    /\ kc.at = "release-answered" => Signed(launched, kc.cfg, kc.csr, kc.answer)

FilesKept ==
    /\ oldReport # None => Dated(oldReport)
    /\ \A r \in released : Known(launched, r.cert.by) /\ r.key = launched[r.cert.by].key
    /\ kubeconfig # None => /\ Signed(launched, kubeconfig.cfg, kubeconfig.key, kubeconfig.cert)
                            /\ Shown(kubeconfig.cfg, kubeconfig.since, kubeconfig.report)

CredInv == launched \in Seq(Guests) /\ fresh \in Nat /\ GuestKept /\ KcKept /\ FilesKept

(* What is known of a guest outlives its replacement at the address. *)
LEMMA LaunchKeeps ==
    ASSUME NEW g \in Guests, launched \in Seq(Guests), launched' = Append(launched, g)
    PROVE  /\ launched' \in Seq(Guests) /\ Len(launched') = Len(launched) + 1
           /\ launched'[Len(launched) + 1] = g
           /\ \A n : Known(launched, n) => Known(launched', n) /\ launched'[n] = launched[n]
           /\ \A cfg, csr, cert : Signed(launched, cfg, csr, cert) => Signed(launched', cfg, csr, cert)
  <1>1. /\ launched' \in Seq(Guests) /\ Len(launched') = Len(launched) + 1
        /\ launched'[Len(launched) + 1] = g
    OBVIOUS
  <1>2. \A n : Known(launched, n) => Known(launched', n) /\ launched'[n] = launched[n]
    BY DEF Known
  <1> QED
    BY ZenonT(40), <1>1, <1>2 DEF Signed

(* getkubeconfig/run.go:62, credrelease/handler.go:110: whatever guests come to *)
(* the address and whatever is replaced, restarted, extended or answered late,  *)
(* a kubeconfig on disk was earned.                                             *)
THEOREM KubeconfigsAreEarned == CredSpec => []KubeconfigEarned
  <1>1. CredInit => CredInv
    BY SMTT(40) DEF CredInit, CredInv, GuestKept, KcKept, FilesKept, KcIdle, Running
  <1>2. CredInv /\ [CredNext]_credVars => CredInv'
    <2> SUFFICES ASSUME CredInv, [CredNext]_credVars
                 PROVE  CredInv'
      OBVIOUS
    <2> USE DEF CredInv
    <2>1. CASE LaunchGuest
      <3>1. PICK g \in Guests :
               /\ launched' = Append(launched, g)
               /\ guest' = [n |-> Len(launched) + 1, of |-> g, chain |-> <<>>, at |-> "boot",
                            operator |-> None, quote |-> None, inc |-> 0]
        BY <2>1 DEF LaunchGuest
      <3>2. UNCHANGED <<fresh, kc, kubeconfig, released, oldReport>>
        BY <2>1 DEF LaunchGuest
      <3> HIDE DEF CredInv
      <3>l. launched \in Seq(Guests)
        BY DEF CredInv
      <3>k. /\ launched' \in Seq(Guests) /\ Known(launched', Len(launched) + 1)
            /\ launched'[Len(launched) + 1] = g
            /\ \A n : Known(launched, n) => Known(launched', n) /\ launched'[n] = launched[n]
            /\ \A cfg, csr, cert : Signed(launched, cfg, csr, cert) => Signed(launched', cfg, csr, cert)
        BY <3>1, <3>l, LaunchKeeps DEF Known
      <3>3. GuestKept'
        BY SMTT(40), <3>1, <3>k DEF GuestKept
      <3>4. KcKept'
        BY <3>2, <3>k DEF CredInv, KcKept
      <3>5. FilesKept'
        BY <3>2, <3>k DEF CredInv, FilesKept
      <3> QED
        BY <3>2, <3>3, <3>4, <3>5, <3>k DEF CredInv
    <2>2. CASE ExtendChain \/ LoadMeasuredOperatorKey \/ StopRelease
      <3>1. UNCHANGED <<launched, fresh, kc, kubeconfig, released, oldReport>>
        BY <2>2 DEF ExtendChain, LoadMeasuredOperatorKey, StopRelease
      <3>2. GuestKept'
        <4>1. CASE ExtendChain
          BY SMTT(40), <3>1, <4>1 DEF ExtendChain, GuestKept
        <4>2. CASE LoadMeasuredOperatorKey
          BY <3>1, <4>2 DEF LoadMeasuredOperatorKey, VerifyBinding, GuestKept
        <4>3. CASE StopRelease
          BY <3>1, <4>3 DEF StopRelease, GuestKept
        <4> QED
          BY <2>2, <4>1, <4>2, <4>3
      <3> QED
        BY <3>1, <3>2 DEF KcKept, FilesKept
    <2>3. CASE ServeRelease \/ Requote
      <3>1. /\ UNCHANGED <<launched, kc, kubeconfig, released, oldReport>>
            /\ fresh' \in Nat /\ fresh' >= fresh
        BY <2>3 DEF ServeRelease, Requote, Draw
      <3>2. GuestKept'
        <4>1. CASE ServeRelease
          <5>1. CASE guest' = [guest EXCEPT !.at = "up", !.quote = Quote, !.inc = fresh + 1]
            <6>1. Quote.of = guest.of
              BY DEF Quote
            <6> QED
              BY <3>1, <4>1, <5>1, <6>1 DEF ServeRelease, GuestKept
          <5>2. CASE guest' = [guest EXCEPT !.at = "boot"]
            BY SMTT(40), <3>1, <4>1, <5>2 DEF ServeRelease, GuestKept
          <5> QED
            BY <4>1, <5>1, <5>2 DEF ServeRelease
        <4>2. CASE Requote
          BY <3>1, <4>2 DEF Requote, Up, Quote, GuestKept
        <4> QED
          BY <2>3, <4>1, <4>2
      <3> QED
        BY <3>1, <3>2 DEF KcKept, FilesKept, Running
    <2>4. CASE StrayRelease
      <3>1. Up /\ UNCHANGED <<guest, launched, fresh, kc, kubeconfig, oldReport>>
        BY SMTT(40), <2>4 DEF StrayRelease
      <3>2. PICK t \in Stray :
               /\ Authorize(t)
               /\ released' = released \cup {[cert |-> signOperatorCert(0, "operator"), key |-> t.key]}
        BY SMTT(40), <2>4 DEF StrayRelease
      <3>3. FilesKept'
        BY <3>1, <3>2 DEF FilesKept, GuestKept, Up, Authorize, signOperatorCert

      <3> QED
        BY <3>1, <3>3 DEF GuestKept, KcKept
    <2>5. ASSUME UNCHANGED <<guest, launched, kubeconfig, released, oldReport>>,
                 fresh' \in Nat, fresh' >= fresh, KcKept'
          PROVE  CredInv'
      BY SMTT(40), <2>5 DEF GuestKept, FilesKept
    <2>6. KcFails => KcKept'
      BY SMTT(40) DEF KcFails, KcKept, Running
    <2>7. CASE KcStart
      <3>1. KcKept'
        BY SMTT(40), <2>6, <2>7 DEF KcStart, KcKept, Running
      <3> QED
        BY <2>5, <2>7, <3>1 DEF KcStart
    <2>8. CASE DialRefused \/ KcRerun
      BY <2>5, <2>6, <2>8 DEF DialRefused, KcRerun, KcIdle, KcKept, Running
    <2>9. CASE KcDial
      <3>1. KcKept'
        <4>1. CASE kc' = [kc EXCEPT !.conn = <<guest.n, guest.inc>>] /\ verifyServerCert(kc.cfg, guest.quote)
          <5>1. Known(launched, guest.n) /\ Expected(kc.cfg, launched[guest.n])
            BY <2>9, <4>1 DEF KcDial, Up, GuestKept, verifyServerCert, verifyMeasured, checkIdentity, Expected
          <5> QED
            BY <2>9, <4>1, <5>1
               DEF KcDial, Asking, KcKept, Running
        <4> QED
          BY SMTT(40), <2>6, <2>9, <4>1 DEF KcDial
      <3> QED
        BY <2>5, <2>9, <3>1 DEF KcDial
    <2>10. CASE ConnLost
      <3>1. KcKept'
        <4>1. CASE Asking /\ kc' = [kc EXCEPT !.conn = None]
          BY <2>10, <4>1
             DEF ConnLost, Asking, KcKept, Running
        <4> QED
          BY <2>6, <2>10, <4>1 DEF ConnLost
      <3> QED
        BY <2>5, <2>10, <3>1 DEF ConnLost
    <2>11. CASE KcSend
      <3>1. KcKept'
        <4>1. CASE kc.at = "attest"
          <5>1. /\ fresh' = fresh + 1 /\ launched' = launched
                /\ kc' = [kc EXCEPT !.at = "attest-sent", !.nonce = fresh + 1]
            BY <2>11, <4>1 DEF KcSend, Draw
          <5> QED
            BY <4>1, <5>1 DEF KcKept, Running
        <4>2. CASE kc.at = "release"
          <5>1. UNCHANGED <<fresh, launched>> /\ kc' = [kc EXCEPT !.at = "release-sent"]
            BY <2>11, <4>2 DEF KcSend
          <5> QED
            BY <4>2, <5>1 DEF KcKept, Running
        <4> QED
          BY <2>11, <4>1, <4>2 DEF KcSend, Asking
      <3> QED
        BY <2>5, <2>11, <3>1 DEF KcSend, Draw
    <2>12. CASE serveAttest
      <3>1. KcKept'
        <4>1. CASE kc' = [kc EXCEPT !.at = "attest-answered", !.answer = Evidence(kc.nonce, fresh)]
          BY SMTT(40), <2>12, <4>1 DEF serveAttest, Evidence, KcKept, Running, Known, Expected, Dated
        <4> QED
          BY SMTT(40), <2>6, <2>12, <4>1 DEF serveAttest
      <3> QED
        BY SMTT(40), <2>5, <2>12, <3>1 DEF serveAttest
    <2>13. CASE postAttest
      <3>1. CASE KcFails /\ UNCHANGED <<fresh, oldReport>>
        BY <2>5, <2>6, <2>13, <3>1 DEF postAttest
      <3>2. ASSUME Draw, NEW e \in {Evidence(fresh + 1, fresh + 1), oldReport} \ {None},
                   kc' = [kc EXCEPT !.at = "attest-answered", !.nonce = fresh + 1, !.answer = e],
                   oldReport' = e
            PROVE  CredInv'
        <4>1. Dated(e)
          BY SMTT(40), <3>2 DEF Evidence, Dated, FilesKept
        <4>2. KcKept'
          <5>1. kc.at = "attest" /\ fresh' = fresh + 1 /\ launched' = launched
            BY ZenonT(40), <2>13, <3>2 DEF postAttest, Draw
          <5>2. kc.at \in Running
            BY SMTT(40), <5>1 DEF Running
          <5>3. /\ kc'.at = "attest-answered" /\ kc'.nonce = fresh + 1 /\ kc'.answer = e
                /\ DOMAIN kc' = DOMAIN kc
                /\ kc'.cfg = kc.cfg /\ kc'.since = kc.since /\ kc'.conn = kc.conn
            BY SMTT(40), <3>2, <5>2 DEF KcKept
          <5> QED
            BY SMTT(40), <4>1, <5>1, <5>2, <5>3 DEF KcKept, Running
        <4>3. UNCHANGED <<guest, launched, kubeconfig, released>>
          BY ZenonT(40), <2>13 DEF postAttest
        <4> QED
          BY <3>2, <4>1, <4>2, <4>3
             DEF Draw, GuestKept, FilesKept
      <3> QED
        BY ZenonT(40), <2>13, <3>1, <3>2 DEF postAttest
    <2>14. CASE KcVerifies
      <3>1. KcKept'
        <4>1. CASE /\ verifyMeasured(kc.cfg, kc.answer, kc.answer.nonce, kc.nonce)
                   /\ kc' = [kc EXCEPT !.at = "identity", !.report = kc.answer, !.answer = None]
          BY SMTT(40), <2>14, <4>1 DEF KcVerifies, verifyMeasured, checkIdentity, KcKept, Running, Known,
                             Expected, Shown, Dated
        <4> QED
          BY <2>6, <2>14, <4>1 DEF KcVerifies
      <3> QED
        BY <2>5, <2>14, <3>1 DEF KcVerifies
    <2>15. CASE newClientIdentity
      <3>1. KcKept'
        <4>1. CASE Draw /\ kc' = [kc EXCEPT !.at = "release", !.csr = fresh + 1]
          BY SMTT(40), <2>15, <4>1 DEF newClientIdentity, Draw, KcKept, Running
        <4> QED
          BY <2>6, <2>15, <4>1 DEF newClientIdentity
      <3> QED
        BY <2>5, <2>15, <3>1 DEF newClientIdentity, Draw
    <2>16. CASE serveRelease
      <3>1. CASE KcFails /\ UNCHANGED released
        BY <2>5, <2>6, <2>16, <3>1 DEF serveRelease
      <3>2. ASSUME NEW cert, cert = signOperatorCert(kc.csr, ParseRole(kc.cfg.role)),
                   Authorize(Authorization(kc.cfg)),
                   released' = released \cup {[cert |-> cert, key |-> kc.cfg.key]},
                   kc' = [kc EXCEPT !.at = "release-answered", !.answer = cert]
            PROVE  CredInv'
        <4>1. UNCHANGED <<guest, launched, fresh, kubeconfig, oldReport>> /\ kc.at = "release-sent"
          BY SMTT(40), <2>16 DEF serveRelease
        <4>2. Known(launched, guest.n) /\ guest.of = launched[guest.n] /\ guest.n = kc.conn[1]
              /\ kc.conn # None /\ guest.operator = guest.of.key
          BY <2>16 DEF serveRelease, Alive, Up, GuestKept
        <4>3. Signed(launched, kc.cfg, kc.csr, cert) /\ cert.by = guest.n /\ kc.cfg.key = launched[cert.by].key
          BY <3>2, <4>1, <4>2 DEF signOperatorCert, Authorize, Authorization, Signed, KcKept, Running
        <4>4. KcKept'
          BY SMTT(40), <3>2, <4>1, <4>3 DEF KcKept, Running
        <4>5. FilesKept'
          BY <3>2, <4>1, <4>2, <4>3 DEF FilesKept
        <4> QED
          BY <4>1, <4>4, <4>5 DEF GuestKept
      <3> QED
        BY ZenonT(40), <2>16, <3>1, <3>2 DEF serveRelease
    <2>17. CASE WriteKubeconfig
      <3>1. UNCHANGED <<guest, launched, fresh, released, oldReport>> /\ kc.at = "release-answered"
        BY SMTT(40), <2>17 DEF WriteKubeconfig
      <3>2. KcKept'
        BY SMTT(40), <2>6, <2>17 DEF WriteKubeconfig, KcKept, Running
      <3>3. FilesKept'
        BY SMTT(40), <2>17, <3>1 DEF WriteKubeconfig, FilesKept, KcKept
      <3> QED
        BY SMTT(40), <3>1, <3>2, <3>3 DEF GuestKept
    <2>18. CASE UNCHANGED credVars
      BY <2>18 DEF credVars, GuestKept, KcKept, FilesKept
    <2> QED
      BY <2>1, <2>2, <2>3, <2>4, <2>7, <2>8, <2>9, <2>10, <2>11, <2>12, <2>13, <2>14, <2>15,
         <2>16, <2>17, <2>18 DEF CredNext
  <1>3. CredInv => KubeconfigEarned
    BY DEF CredInv, FilesKept, KubeconfigEarned, Signed, Shown, Expected
  <1> QED
    BY <1>1, <1>2, <1>3, PTL DEF CredSpec


-------------------------------------------------------------------------------

CliFields == {"at", "cfg", "ev", "keys", "served", "exit"}

(* The command lines the program is started with.                             *)
Usable(cfg) ==
    /\ cfg.mode \in Modes /\ cfg.kind \in {"auto", "cds", "lb"} /\ cfg.file \in Files
    /\ cfg.meshCA \in BOOLEAN /\ cfg.pins \subseteq Pin
    /\ \A p, q \in cfg.pins \cap policyFiles : p = q
    /\ cfg.kind = "lb" => cfg.mode = "auto"
    /\ cfg.file # "no" => cfg.mode = "auto" /\ cfg.kind = "auto"

(* What the target shows of each kind is one of the answers the program tells *)
(* apart.                                                                     *)
Answers(t) == /\ DOMAIN t = DOMAIN Sound
              /\ t.platform \in {"snp", "tdx"}
              /\ \A f \in DOMAIN Sound \ {"platform"} : t[f] \in {Sound[f]} \cup Odd[f]

(* A target is sound but for its departures, each of which is one of Odd.     *)
LEMMA TargetAnswers ==
    ASSUME NEW cfg, NEW t \in Targets(cfg)
    PROVE  Answers(t)
<1>1. PICK D \in SUBSET Departures, p \in {"snp", "tdx"} : t = Departing(D, p)
  <2>1. Single \subseteq SUBSET Departures /\ Pairs \subseteq SUBSET Departures
    BY DEF Single, Pairs
  <2>2. \A p \in {"snp", "tdx"} : /\ TargetsOf[p].single = {Departing(D, p) : D \in Single}
                                  /\ TargetsOf[p].paired = {Departing(D, p) : D \in Pairs}
    BY DEF TargetsOf
  <2> QED
    BY <2>1, <2>2 DEF Targets
<1>2. DOMAIN Sound = DOMAIN Odd
  BY DEF Sound, Odd
<1>3. ASSUME NEW f \in DOMAIN Sound \ {"platform"}  PROVE t[f] \in {Sound[f]} \cup Odd[f]
  <2>1. t[f] = IF \E d \in D : d.of = f THEN (CHOOSE d \in D : d.of = f).is ELSE Sound[f]
    BY <1>1, <1>3 DEF Departing
  <2>2. CASE \E d \in D : d.of = f
    <3>1. PICK d \in D : d.of = f /\ t[f] = d.is
      BY ZenonT(40), <2>1, <2>2
    <3>2. PICK g \in DOMAIN Odd : \E v \in Odd[g] : d = [of |-> g, is |-> v]
      BY <3>1 DEF Departures
    <3> QED
      BY <3>1, <3>2
  <2> QED
    BY <2>1, <2>2
<1>4. DOMAIN t = DOMAIN Sound /\ t.platform \in {"snp", "tdx"}
  BY <1>1 DEF Departing, Sound
<1> QED
  BY <1>3, <1>4 DEF Answers

(* The answers, one by one.                                                   *)
LEMMA AnswersListed ==
    ASSUME NEW t, Answers(t)
    PROVE  /\ t.tls \in {"yes", "no"} /\ t.doc \in {"served", "absent", "odd"}
           /\ t.shows \in {"attested", "other"} /\ t.replicas \in {"one", "two"}
           /\ t.echo \in {"yes", "no"} /\ t.body \in {"ca", "self"} /\ t.signer \in {"mine", "other"}
           /\ t.collateral \in {"yes", "no"} /\ t.genuine \in {"yes", "no"}
           /\ t.platform \in {"snp", "tdx"} /\ t.resolves \in {"yes", "no"}
           /\ t.tcb \in {"met", "below", "none"} /\ t.launch \in {"mine", "other", "none"}
           /\ t.keys \in {"mine", "other", "none", "error"}
           /\ t.enforces \in {"mine", "other", "none", "error"}
<1>1. ASSUME NEW f \in DOMAIN Sound \ {"platform"}  PROVE t[f] \in {Sound[f]} \cup Odd[f]
  BY DEF Answers
<1>2. t.tls \in {"yes", "no"} /\ t.doc \in {"served", "absent", "odd"} /\ t.shows \in {"attested", "other"}
  BY <1>1 DEF Sound, Odd
<1>3. t.replicas \in {"one", "two"} /\ t.echo \in {"yes", "no"} /\ t.body \in {"ca", "self"}
  BY <1>1 DEF Sound, Odd
<1>4. t.signer \in {"mine", "other"} /\ t.collateral \in {"yes", "no"} /\ t.genuine \in {"yes", "no"}
  BY <1>1 DEF Sound, Odd
<1>5. t.resolves \in {"yes", "no"} /\ t.tcb \in {"met", "below", "none"} /\ t.launch \in {"mine", "other", "none"}
  BY <1>1 DEF Sound, Odd
<1>6. t.keys \in {"mine", "other", "none", "error"} /\ t.enforces \in {"mine", "other", "none", "error"}
  BY <1>1 DEF Sound, Odd
<1> QED
  BY <1>2, <1>3, <1>4, <1>5, <1>6 DEF Answers

(* verify.go: what the evidence stands for, whichever way it was gathered.    *)
EvidenceMeans(ev) ==
    /\ IF cli.cfg.file = "bare" THEN ev.leaf = FALSE ELSE ev.leaf = TRUE
    /\ IF cli.cfg.mode = "attest-pq" \/ cli.cfg.file = "bundle" THEN ev.derived = TRUE ELSE ev.derived = FALSE
    /\ ev.cert # 0 => cli.cfg.file # "no" \/ ev.cert \in Replica
    /\ ev.door \in {"other", "unobserved"} => ~Tied /\ ~ev.derived
    /\ ~ev.derived /\ ev.door \notin {"other", "unobserved"} => Tied
    /\ ~cli.cfg.meshCA => Vouched
    /\ cli.cfg.mode = "attest-pq" => target.echo = "yes"
    /\ cli.cfg.file = "no" /\ resolveMode \in {"auto", "discovery"} => target.doc # "odd"

(* The evidence of a certificate alone.                                       *)
CertAlone(ev, cert) ==
    ev.leaf = TRUE /\ ev.cert = cert /\ ev.derived = FALSE /\ ev.door = "none"

(* The evidence of a front door's document.                                   *)
DocumentSeen(ev, cert) ==
    /\ ev.leaf = TRUE /\ ev.cert = cert /\ ev.derived = FALSE
    /\ ev.door \in {"attested", "other", "unobserved"}
    /\ ev.door = "attested" <=> target.tls # "no" /\ target.shows = "attested"

(* What a serving certificate yields, its key proven by a live handshake.     *)
LEMMA LiveCertEvidence ==
    ASSUME NEW cert
    PROVE  LET got == gatherFromRATLSCert(cert) IN
           IF target.tls = "no" \/ target.shows # "attested" THEN got.err = "other"
           ELSE got.err = "none" /\ CertAlone(got.ev, cert)
<1> DEFINE ev == [NoEv EXCEPT !.leaf = TRUE, !.cert = cert]
<1>1. CertAlone(ev, cert)
  BY DEF NoEv, CertAlone
<1>2. gatherFromRATLSCert(cert) = IF target.tls = "no" \/ target.shows # "attested" THEN Err("other")
                                  ELSE [err |-> "none", ev |-> ev]
  BY DEF gatherFromRATLSCert, evidenceFromCert, CertEnvelope, authorizeLeafBody
<1> HIDE DEF ev
<1> QED
  BY <1>1, <1>2 DEF Err

(* What a saved certificate yields: its body is authorized or refused.        *)
LEMMA SavedCertEvidence ==
    ASSUME cli.cfg.file = "cert"
    PROVE  LET authorized == target.body = "self" \/ (cli.cfg.meshCA /\ ChainsToMeshCA)
               got == gatherFromFile
           IN  IF target.shows # "attested" THEN got.err = "other"
               ELSE IF ~authorized THEN got.err = "security"
               ELSE got.err = "none" /\ CertAlone(got.ev, 1)
<1> DEFINE ev == [NoEv EXCEPT !.leaf = TRUE, !.cert = 1]
           authorized == target.body = "self" \/ (cli.cfg.meshCA /\ ChainsToMeshCA)
<1>1. CertAlone(ev, 1)
  BY DEF NoEv, CertAlone
<1>2. gatherFromFile = IF target.shows # "attested" THEN Err("other")
                       ELSE IF ~authorized THEN Err("security")
                       ELSE [err |-> "none", ev |-> ev]
  BY DEF gatherFromFile, evidenceFromCert, CertEnvelope, authorizeLeafBody, authenticateLeafBody
<1> HIDE DEF ev
<1> QED
  BY <1>1, <1>2 DEF Err

(* The document of the front door, when there is one, passed its checks.      *)
LEMMA DiscoveryEvidence ==
    ASSUME NEW cert
    PROVE  LET got == gatherFromDiscovery(cert)
               attested == target.tls # "no" /\ target.shows = "attested"
           IN
           /\ got.err \in {"none", "other", "security"}
           /\ got.err = "other" <=> target.doc = "absent"
           /\ got.err = "security" =>
                \/ target.doc = "odd"
                \/ target.body # "self" /\ (IF cli.cfg.meshCA THEN ~ChainsToMeshCA ELSE ~attested)
           /\ got.err = "none" =>
                /\ target.doc \notin {"odd", "absent"}
                /\ target.body = "self" \/ (IF cli.cfg.meshCA THEN ChainsToMeshCA ELSE attested)
                /\ DocumentSeen(got.ev, cert)
  BY DEF gatherFromDiscovery, evidenceFromDiscovery, Err, DocumentSeen, authorizeLeafBody, authenticateLeafBody

(* gatherEvidence: evidence comes with its meaning; a failed check is one the *)
(* command line asks for; what is left is a target that cannot be reached.    *)
LEMMA GatheredEvidence ==
    ASSUME Usable(cli.cfg), cli.cfg.mode # "attestation-endpoint", Answers(target),
           NEW cert \in Replica, NEW second \in Replica
    PROVE  LET got == gatherEvidence(cert, second) IN
           /\ got.err = "none" => EvidenceMeans(got.ev)
           /\ got.err = "security" => ~Deserved
           /\ got.err = "other" => target.tls = "no" \/ target.shows = "other" \/ target.doc = "absent"
<1> DEFINE got == gatherEvidence(cert, second)
           Good == /\ got.err = "none" => EvidenceMeans(got.ev)
                   /\ got.err = "security" => ~Deserved
                   /\ got.err = "other" => target.tls = "no" \/ target.shows = "other" \/ target.doc = "absent"
<1> SUFFICES Good
  OBVIOUS
<1>0. /\ target.tls \in {"yes", "no"} /\ target.shows \in {"attested", "other"}
      /\ target.doc \in {"served", "absent", "odd"} /\ target.body \in {"ca", "self"}
      /\ target.echo \in {"yes", "no"}
  BY AnswersListed
<1>1. CASE cli.cfg.file = "cert"
  <2>1. got = gatherFromFile /\ cli.cfg.mode = "auto"
    BY <1>1 DEF gatherEvidence, Usable
  <2>2. got.err = "security" => ~Vouched
    BY <1>1, <2>1, SavedCertEvidence DEF Vouched
  <2>3. got.err = "none" => EvidenceMeans(got.ev)
    BY ZenonT(40), <1>0, <1>1, <2>1, SavedCertEvidence DEF CertAlone, EvidenceMeans, Vouched, Tied
  <2> QED
    BY <1>0, <1>1, <2>1, <2>2, <2>3, SavedCertEvidence DEF Deserved
<1>2. CASE cli.cfg.file \in {"bundle", "bare"}
  <2>1. /\ got.err = "none" /\ cli.cfg.mode = "auto" /\ got.ev.door = "none" /\ got.ev.cert = 0
        /\ got.ev.leaf = (cli.cfg.file = "bundle") /\ got.ev.derived = (cli.cfg.file = "bundle")
    BY ZenonT(40), <1>2 DEF gatherEvidence, gatherFromFile, attestPQ, NoEv, Usable
  <2> QED
    BY ZenonT(40), <1>2, <2>1 DEF EvidenceMeans, Vouched, Tied
<1>3. CASE cli.cfg.file = "no"
  <2>1. CASE resolveMode = "attest-pq"
    <3>1. cli.cfg.mode = "attest-pq" /\ got = attestPQ(TRUE)
      BY <1>3, <2>1 DEF gatherEvidence, resolveMode, Usable, Modes
    <3>2. /\ target.echo = "no" => got.err = "security"
          /\ target.echo # "no" => /\ got.err = "none" /\ got.ev.door = "none" /\ got.ev.cert = 0
                                   /\ got.ev.leaf = TRUE /\ got.ev.derived = TRUE
      BY <3>1 DEF attestPQ, NoEv, Err
    <3> QED
      BY ZenonT(40), <1>0, <1>3, <2>1, <3>1, <3>2 DEF EvidenceMeans, Vouched, Tied, Deserved
  <2>2. CASE resolveMode = "ratls-cert"
    <3>1. cli.cfg.mode # "attest-pq" /\ got = gatherFromRATLSCert(cert)
      BY ZenonT(40), <1>3, <2>2 DEF gatherEvidence, resolveMode, Usable, Modes
    <3>2. CASE target.tls = "no" \/ target.shows # "attested"
      BY <1>0, <3>1, <3>2, LiveCertEvidence
    <3>3. CASE target.tls = "yes" /\ target.shows = "attested"
      <4>1. Tied /\ (cli.cfg.meshCA \/ Vouched)
        BY <1>3, <3>1, <3>3 DEF Vouched, Tied
      <4>2. got.err = "none" /\ CertAlone(got.ev, cert)
        BY <3>1, <3>3, LiveCertEvidence
      <4> QED
        BY <1>3, <2>2, <3>1, <4>1, <4>2 DEF EvidenceMeans, CertAlone
    <3> QED
      BY <1>0, <3>2, <3>3
  <2>3. CASE resolveMode \in {"discovery", "auto"}
    <3>1. cli.cfg.mode # "attest-pq"
      BY <1>3, <2>3 DEF resolveMode, Usable, Modes
    <3>2. gatherFromDiscovery(cert).err = "security" => ~Deserved
      BY SMTT(40), <1>0, <1>3, <2>3, <3>1, DiscoveryEvidence DEF Deserved, Vouched
    <3>3. ASSUME NEW get, get = gatherFromDiscovery(cert), get.err = "none"
          PROVE  EvidenceMeans(get.ev)
      <4>1. DocumentSeen(get.ev, cert) /\ target.doc # "odd"
        BY <3>3, DiscoveryEvidence
      <4>2. cli.cfg.meshCA \/ Vouched
        BY SMTT(40), <1>0, <1>3, <3>1, <3>3, DiscoveryEvidence DEF Vouched
      <4> QED
        BY <1>0, <1>3, <3>1, <4>1, <4>2 DEF EvidenceMeans, DocumentSeen, Tied
    <3>4. CASE got = gatherFromDiscovery(cert)
      BY SMTT(40), <3>2, <3>3, <3>4, DiscoveryEvidence
    <3>5. CASE gatherFromDiscovery(cert).err = "other" /\ got = gatherFromRATLSCert(second)
      <4>1. target.doc = "absent"
        BY <3>5, DiscoveryEvidence
      <4>2. CASE target.tls = "no" \/ target.shows # "attested"
        BY <3>5, <4>1, <4>2, LiveCertEvidence
      <4>3. CASE target.tls = "yes" /\ target.shows = "attested"
        <5>1. Tied /\ (cli.cfg.meshCA \/ Vouched)
          BY <1>3, <3>1, <4>3 DEF Vouched, Tied
        <5>2. got.err = "none" /\ CertAlone(got.ev, second)
          BY <3>5, <4>3, LiveCertEvidence
        <5> QED
          BY <1>3, <3>1, <4>1, <5>1, <5>2 DEF EvidenceMeans, CertAlone
      <4> QED
        BY <1>0, <4>2, <4>3
    <3> QED
      BY ZenonT(40), <1>3, <2>3, <3>4, <3>5 DEF gatherEvidence
  <2> QED
    BY <1>3, <2>1, <2>2, <2>3 DEF resolveMode, Usable, Modes
<1> QED
  BY <1>1, <1>2, <1>3 DEF Usable, Files

-------------------------------------------------------------------------------
(* What the later connections said is what the attested replica enforces, or  *)
(* nothing was learnt.                                                        *)
KeysMean == cli.keys \in {"error", "note"} \/ cli.keys = Answer(cli.ev.cert, target.keys)

ServedMean ==
    cli.cfg.pins \cap policyFiles # {} =>
        cli.served \in {"error", "note"} \/ cli.served = Answer(cli.ev.cert, target.enforces)

(* Every check of the verdict passes, the demotions left out.                 *)
Passed == /\ newOutcome = "verified"
          /\ applySandboxPolicy("verified") = "verified"
          /\ applyWorkloadPolicy("verified") = "verified"

(* verify.go verdict: what the checks let through is what the flags ask for.   *)
LEMMA PassedIsDeserved ==
    ASSUME Usable(cli.cfg), buildPolicy(cli.cfg), Answers(target), EvidenceMeans(cli.ev), KeysMean, ServedMean,
           verifyInProcess # "connect", Passed
    PROVE  Deserved
<1>0. /\ target.genuine \in {"yes", "no"} /\ target.resolves \in {"yes", "no"}
      /\ target.collateral \in {"yes", "no"} /\ target.platform \in {"snp", "tdx"}
  BY AnswersListed
<1>1. /\ verifyInProcess = "ok" /\ enforceMinTCB /\ EnforceImages /\ launchPinned /\ applyRTMRPins
      /\ rtmrPinned => isTDX
  BY DEF Passed, newOutcome, verifyInProcess, VerifyEnvelope
<1>2. target.genuine = "yes" /\ (Pinned("init-data") => target.initdata = "mine")
  BY <1>0, <1>1 DEF verifyInProcess, VerifyEnvelope, enforceResult
<1>3. /\ ~(cli.ev.leaf /\ target.sandbox = "bad")
      /\ cli.cfg.meshCA => cli.ev.leaf /\ ChainsToMeshCA
      /\ Pinned("sandbox-id") => cli.ev.leaf /\ target.sandbox = "mine"
      /\ checkServedMeasurements /\ expectedOperatorKeys
  BY DEF Passed, applySandboxPolicy
<1>4. /\ ~(cli.ev.leaf /\ target.workload = "bad")
      /\ Pinned("workload") => target.workload = "mine"
      /\ Pinned("allowlist") => target.workload # "none" /\ target.digest = "mine" /\ target.resolves # "no"
  BY DEF Passed, applyWorkloadPolicy
<1>5. Vouched
  BY <1>3 DEF EvidenceMeans, Vouched
<1>6. ASSUME NEW p \in cli.cfg.pins  PROVE Met(p)
  <2>0. p \in Pin /\ Pinned(p) /\ p # "snp-manifest"
    BY DEF Usable, Pinned, buildPolicy, resolveRTMRPins
  <2>1. CASE p = "measurements"
    <3>1. ~Pinned("image-manifest") /\ ~Pinned("image-policy")
      BY <2>1 DEF buildPolicy, policyFiles, manifests, Pinned
    <3>2. target.launch = "mine" /\ (isTDX => cli.cfg.meshCA)
      BY <1>1, <2>0, <2>1, <3>1 DEF launchPinned, Pinned
    <3> QED
      BY <2>1, <3>2 DEF Met, rtmr3Spellings
  <2>2. CASE p = "image-manifest"
    <3>1. isTDX /\ target.launch = "mine" /\ target.regs = "mine"
      BY <1>1, <2>0, <2>2 DEF launchPinned, applyRTMRPins, rtmrPinned, Pinned
    <3> QED
      BY <2>2, <3>1 DEF Met, rtmr3Spellings
  <2>3. CASE p \in policyFiles
    <3>1. Answer(cli.ev.cert, target.enforces) = "mine"
      BY <1>3, <2>3 DEF checkServedMeasurements, ServedMean
    <3>2. CASE p = "image-policy"
      <4>1. isTDX /\ target.launch = "mine" /\ target.regs = "mine"
        BY <1>1, <2>0, <3>2 DEF EnforceImages, Pinned
      <4> QED
        BY <3>1, <3>2, <4>1 DEF Met, rtmr3Spellings
    <3>3. CASE p = "weak-image-policy"
      <4>1. ~Pinned("image-manifest") /\ ~Pinned("image-policy")
        BY <3>3 DEF buildPolicy, Usable, policyFiles, manifests, Pinned
      <4>2. isTDX /\ target.launch = "mine"
        BY <1>1, <3>3 DEF EnforceImages
      <4>3. cli.cfg.meshCA
        BY <1>1, <3>3, <4>1, <4>2 DEF launchPinned, policyFiles
      <4> QED
        BY <3>1, <3>3, <4>2, <4>3 DEF Met, rtmr3Spellings
    <3>4. CASE p = "snp-image-policy"
      <4>1. ~isTDX /\ target.launch = "mine"
        BY <1>1, <2>0, <3>4 DEF EnforceImages
      <4> QED
        BY <3>1, <3>4, <4>1 DEF Met, rtmr3Spellings
    <3> QED
      BY <2>3, <3>2, <3>3, <3>4 DEF policyFiles
  <2>4. CASE p = "rtmr"
    BY ZenonT(40), <1>1, <2>0, <2>4 DEF Met, applyRTMRPins, rtmrPinned, Pinned
  <2>5. CASE p \in rtmr3Spellings
    BY ZenonT(40), <1>1, <2>0, <2>5 DEF Met, applyRTMRPins, rtmrPinned, rtmr3Spellings
  <2>6. CASE p = "min-tcb"
    BY <1>1, <2>0, <2>6 DEF Met, enforceMinTCB
  <2>7. CASE p = "init-data"
    BY <1>2, <2>0, <2>7 DEF Met, rtmr3Spellings
  <2>8. CASE p \in {"sandbox-id", "workload", "allowlist"}
    <3>1. cli.cfg.meshCA /\ ChainsToMeshCA
      BY <1>3, <2>8 DEF buildPolicy
    <3>2. CASE p = "sandbox-id"
      BY <1>3, <2>0, <3>1, <3>2 DEF Met, rtmr3Spellings
    <3>3. CASE p = "workload"
      BY <1>4, <2>0, <3>1, <3>3 DEF Met, rtmr3Spellings
    <3>4. CASE p = "allowlist"
      BY <1>0, <1>4, <2>0, <3>1, <3>4 DEF Met, rtmr3Spellings
    <3> QED
      BY <2>8, <3>2, <3>3, <3>4
  <2>9. CASE p = "operator-keys"
    BY <1>3, <2>0, <2>9 DEF Met, expectedOperatorKeys, KeysMean
  <2> QED
    BY SMTT(40), <2>0, <2>1, <2>2, <2>3, <2>4, <2>5, <2>6, <2>7, <2>8, <2>9 DEF Pin, Common, manifests
<1> QED
  BY <1>2, <1>3, <1>4, <1>5, <1>6 DEF Deserved, EvidenceMeans

(* And what the flags ask for is let through, once every question is answered. *)
LEMMA DeservedPasses ==
    ASSUME Usable(cli.cfg), buildPolicy(cli.cfg), Answers(target), EvidenceMeans(cli.ev), KeysMean, ServedMean,
           verifyInProcess # "connect", Deserved, \A p \in cli.cfg.pins : ~Unanswered(p)
    PROVE  Passed
<1> DEFINE M(p) == Pinned(p) => Met(p)
<1>0. \A p : M(p)
  BY DEF Deserved, Pinned
<1> HIDE DEF M
<1>1. Pinned("measurements") => target.launch = "mine" /\ (isTDX => cli.cfg.meshCA)
  <2>1. M("measurements")
    BY <1>0
  <2> QED
    BY <2>1 DEF M, Met, rtmr3Spellings
<1>2. Pinned("image-manifest") => isTDX /\ target.launch = "mine" /\ target.regs = "mine"
  <2>1. M("image-manifest")
    BY <1>0
  <2> QED
    BY <2>1 DEF M, Met, rtmr3Spellings
<1>3. Pinned("image-policy") => isTDX /\ target.launch = "mine" /\ target.regs = "mine"
  <2>1. M("image-policy")
    BY <1>0
  <2> QED
    BY <2>1 DEF M, Met, rtmr3Spellings
<1>4. Pinned("weak-image-policy") => isTDX /\ target.launch = "mine" /\ cli.cfg.meshCA
  <2>1. M("weak-image-policy")
    BY <1>0
  <2> QED
    BY <2>1 DEF M, Met, rtmr3Spellings
<1>5. Pinned("snp-image-policy") => ~isTDX /\ target.launch = "mine"
  <2>1. M("snp-image-policy")
    BY <1>0
  <2> QED
    BY <2>1 DEF M, Met, rtmr3Spellings
<1>6. /\ Pinned("rtmr") => isTDX /\ target.regs = "mine"
      /\ Pinned("min-tcb") => ~isTDX /\ target.tcb = "met"
      /\ Pinned("init-data") => target.initdata = "mine"
  <2>1. M("rtmr") /\ M("min-tcb") /\ M("init-data")
    BY <1>0
  <2> QED
    BY <2>1 DEF M, Met, rtmr3Spellings
<1>7. cli.cfg.pins \cap rtmr3Spellings # {} => isTDX /\ target.reg3 = "mine"
  <2> SUFFICES ASSUME NEW p \in cli.cfg.pins \cap rtmr3Spellings
               PROVE  isTDX /\ target.reg3 = "mine"
    OBVIOUS
  <2>1. M(p)
    BY <1>0
  <2> QED
    BY ZenonT(40), <2>1 DEF M, Met, rtmr3Spellings, Pinned
<1>8. /\ Pinned("sandbox-id") => target.sandbox = "mine"
      /\ Pinned("workload") => target.workload = "mine"
      /\ Pinned("allowlist") => target.workload # "none" /\ target.digest = "mine" /\ target.resolves = "yes"
  <2>1. M("sandbox-id") /\ M("workload") /\ M("allowlist")
    BY <1>0
  <2> QED
    BY <2>1 DEF M, Met, rtmr3Spellings
<1>9. expectedOperatorKeys
  <2>1. M("operator-keys")
    BY <1>0
  <2> QED
    BY <2>1 DEF M, Met, rtmr3Spellings, expectedOperatorKeys, KeysMean, Unanswered, Pinned
<1>10. checkServedMeasurements
  <2> SUFFICES ASSUME NEW p \in cli.cfg.pins \cap policyFiles  PROVE cli.served = "mine"
    BY DEF checkServedMeasurements
  <2>1. M(p) /\ ~Unanswered(p)
    BY <1>0
  <2>2. Answer(cli.ev.cert, target.enforces) = "mine"
    BY ZenonT(40), <2>1 DEF M, Met, rtmr3Spellings, policyFiles, Pinned
  <2> QED
    BY <2>1, <2>2 DEF ServedMean, Unanswered
<1>11. newOutcome = "verified"
  <2>1. verifyInProcess # "rejected"
    BY <1>6 DEF verifyInProcess, VerifyEnvelope, enforceResult, Deserved
  <2>2. rtmrPinned => isTDX
    BY <1>2, <1>6, <1>7 DEF rtmrPinned, Pinned
  <2>3. enforceMinTCB /\ EnforceImages /\ applyRTMRPins
    BY SMTT(40), <1>2, <1>3, <1>4, <1>5, <1>6, <1>7 DEF enforceMinTCB, EnforceImages, applyRTMRPins, Pinned
  <2>4. launchPinned
    BY SMTT(40), <1>1, <1>2, <1>3, <1>4, <1>5 DEF launchPinned, Pinned, policyFiles
  <2> QED
    BY <2>1, <2>2, <2>3, <2>4 DEF newOutcome
<1>12. Vouched /\ (cli.cfg.meshCA => ChainsToMeshCA /\ cli.ev.leaf)
  BY DEF Deserved, Vouched, EvidenceMeans
<1>13. cli.cfg.pins \cap {"sandbox-id", "workload", "allowlist"} # {} => cli.ev.leaf
  BY <1>12 DEF buildPolicy
<1>14. cli.ev.leaf => target.sandbox # "bad" /\ target.workload # "bad"
  BY DEF Deserved, EvidenceMeans
<1>15. applySandboxPolicy("verified") = "verified"
  BY SMTT(40), <1>8, <1>9, <1>10, <1>12, <1>13, <1>14 DEF applySandboxPolicy, Pinned
<1>16. applyWorkloadPolicy("verified") = "verified"
  BY <1>8, <1>13, <1>14 DEF applyWorkloadPolicy, Pinned
<1> QED
  BY <1>11, <1>15, <1>16 DEF Passed

(* The exit code says whether the checks passed and the component is tied to  *)
(* the evidence.                                                              *)
LEMMA VerdictCode ==
    ASSUME EvidenceMeans(cli.ev)
    PROVE  verdictExitCode(applyVerdictPolicies(newOutcome)) =
               IF ~Passed THEN 2 ELSE IF Tied THEN 0 ELSE 4
<1> DEFINE sandboxed == applySandboxPolicy(newOutcome)
           worked == applyWorkloadPolicy(sandboxed)
<1>1. newOutcome \in {"verified", "failed"}
  BY DEF newOutcome
<1>2. sandboxed = IF applySandboxPolicy("verified") = "verified" THEN newOutcome ELSE "failed"
  BY DEF applySandboxPolicy
<1>3. worked = IF applyWorkloadPolicy("verified") = "verified" THEN sandboxed ELSE "failed"
  BY DEF applyWorkloadPolicy
<1>4. worked = IF Passed THEN "verified" ELSE "failed"
  BY <1>1, <1>2, <1>3 DEF Passed
<1>5. Tied <=> ~(cli.ev.door \in {"other", "unobserved"} \/ (cli.ev.derived /\ ~cli.cfg.meshCA))
  BY DEF EvidenceMeans, Tied
<1> HIDE DEF worked
<1>6. applyVerdictPolicies(newOutcome) = IF ~Passed THEN "failed" ELSE IF Tied THEN "verified" ELSE "partial"
  <2>1. applyVerdictPolicies(newOutcome) = applyChainAnchorPolicy(applyFrontDoorPolicy(worked))
    BY DEF applyVerdictPolicies, worked
  <2> QED
    BY <1>4, <1>5, <2>1 DEF applyChainAnchorPolicy, applyFrontDoorPolicy, demoteToPartial
<1> QED
  BY <1>6 DEF verdictExitCode

(* The flags of a command line name at most one policy file.                  *)
LEMMA OnePolicyFile ==
    ASSUME NEW S \in PinSets
    PROVE  S \subseteq Pin /\ \A p, q \in S \cap policyFiles : p = q
<1> DEFINE long == {Common \cup {"min-tcb", "measurements"}, Common \cup {"min-tcb", "snp-image-policy"},
                    Common \cup {"image-manifest", "rtmr-3"}, Common \cup {"image-policy"}}
<1>1. CASE S = {}
  BY <1>1
<1>2. CASE \E a, b \in Pin : S = {a, b} /\ Cardinality(S \cap policyFiles) <= 1
  <2>1. PICK a \in Pin, b \in Pin : S = {a, b} /\ Cardinality(S \cap policyFiles) <= 1
    BY <1>2
  <2>2. ASSUME NEW p \in S \cap policyFiles, NEW q \in S \cap policyFiles, p # q  PROVE FALSE
    <3>1. S \cap policyFiles = {p} \cup {q}
      BY <2>1, <2>2
    <3>2. IsFiniteSet({p}) /\ Cardinality({p}) = 1
      BY FS_Singleton
    <3>3. Cardinality({p} \cup {q}) = IF q \in {p} THEN Cardinality({p}) ELSE Cardinality({p}) + 1
      BY ZenonT(40), <3>2, FS_AddElement
    <3> QED
      BY <2>1, <2>2, <3>1, <3>2, <3>3
  <2> QED
    BY <2>1, <2>2
<1>3. CASE \E T \in long : S \subseteq T
  BY SMTT(40), <1>3 DEF Pin, Common, rtmr3Spellings, manifests, policyFiles
<1> QED
  <2>1. \/ S = {}
        \/ S \in {U \in {{p, q} : p, q \in Pin} :
                     Cardinality(U \cap policyFiles) <= 1 /\ Cardinality(U \cap manifests) <= 1}
        \/ S \in {T \ {p} : T \in long, p \in Common}
    BY DEF PinSets
  <2> QED
    BY <2>1, <1>1, <1>2, <1>3

(* A verdict depends on the command line, the target and what was read, never *)
(* on where the process is.                                                   *)
LEMMA SameVerdict ==
    ASSUME cli'.cfg = cli.cfg, cli'.ev = cli.ev, cli'.keys = cli.keys, cli'.served = cli.served,
           UNCHANGED target
    PROVE  /\ Deserved' <=> Deserved
           /\ Tied' <=> Tied
           /\ \A p : Unanswered(p)' <=> Unanswered(p)
<1>1. isTDX' <=> isTDX
  BY DEF isTDX
<1>2. ChainsToMeshCA' <=> ChainsToMeshCA
  BY DEF ChainsToMeshCA
<1>3. \A p : Met(p)' <=> Met(p)
  BY ZenonT(40), <1>1, <1>2 DEF Met
<1>4. resolveMode' = resolveMode
  BY DEF resolveMode
<1>5. Vouched' <=> Vouched
  BY <1>2 DEF Vouched
<1> QED
  BY <1>3, <1>4, <1>5 DEF Deserved, Tied, Unanswered

(* What the evidence means does not depend on where the process is either.    *)
LEMMA SameMeaning ==
    ASSUME cli'.cfg = cli.cfg, UNCHANGED target, NEW ev, EvidenceMeans(ev), cli'.ev = ev
    PROVE  EvidenceMeans(cli.ev)'
<1>1. (ChainsToMeshCA' <=> ChainsToMeshCA) /\ resolveMode' = resolveMode /\ Replica' = Replica
  BY DEF ChainsToMeshCA, resolveMode, Replica
<1>2. (Vouched' <=> Vouched) /\ (Tied' <=> Tied)
  BY SMTT(40), <1>1 DEF Vouched, Tied
<1> QED
  BY <1>1, <1>2 DEF EvidenceMeans

(* Between the start and the verdict: the evidence has its meaning, and each  *)
(* answer comes from the attested replica.                                    *)
VerifyInv ==
    /\ DOMAIN cli = CliFields /\ Usable(cli.cfg) /\ Answers(target)
    /\ cli.at \in {"start", "gather", "keys", "measurements", "verify", "done"}
    /\ cli.at \in {"gather", "keys", "measurements", "verify"} =>
          cli.cfg.mode # "attestation-endpoint" /\ buildPolicy(cli.cfg)
    /\ cli.at \in {"keys", "measurements", "verify"} => EvidenceMeans(cli.ev)
    /\ cli.at \in {"measurements", "verify"} => KeysMean
    /\ cli.at = "verify" => ServedMean
    /\ VerdictHonest

(* run.go and verify.go: for any flags and any target, whatever replica each  *)
(* connection reaches, the exit code of `c8s verify` is honest.               *)
THEOREM VerdictsAreHonest == VerifySpec => []VerdictHonest
<1>0. Answers(Sound)
  BY SMTT(40) DEF Answers, Sound, Odd
<1>1. VerifyInit => VerifyInv
  <2> SUFFICES ASSUME VerifyInit PROVE VerifyInv
    OBVIOUS
  <2>1. PICK cfg \in Config : /\ cfg.kind = "lb" => cfg.mode = "auto"
                              /\ cfg.file # "no" => cfg.mode = "auto" /\ cfg.kind = "auto"
                              /\ cli = Process(cfg)
    BY DEF VerifyInit
  <2>2. Usable(cfg)
    BY <2>1, OnePolicyFile DEF Config, Usable
  <2>3. DOMAIN cli = CliFields /\ cli.cfg = cfg /\ cli.at = "start"
    BY <2>1 DEF Process, CliFields
  <2> QED
    BY <1>0, <2>2, <2>3 DEF VerifyInit, VerifyInv, VerdictHonest
<1>2. VerifyInv /\ [VerifyNext]_verifyVars => VerifyInv'
  <2> SUFFICES ASSUME VerifyInv, [VerifyNext]_verifyVars PROVE VerifyInv'
    OBVIOUS
  <2>1. CASE Rerun
    <3>1. DOMAIN cli' = CliFields /\ cli'.cfg = cli.cfg /\ cli'.at = "start"
      BY <2>1 DEF Rerun, Process, CliFields
    <3> QED
      BY <1>0, <2>1, <3>1 DEF Rerun, VerifyInv, VerdictHonest
  <2>2. CASE Start
    <3>1. CASE Exits(1) /\ UNCHANGED target
      <4>1. DOMAIN cli' = CliFields /\ cli'.cfg = cli.cfg /\ cli'.at = "done" /\ cli'.exit = 1
        BY <3>1 DEF Exits, VerifyInv, CliFields
      <4> QED
        BY <3>1, <4>1 DEF VerifyInv, VerdictHonest
    <3>2. CASE /\ cli.cfg.mode # "attestation-endpoint" /\ buildPolicy(cli.cfg)
               /\ cli' = [cli EXCEPT !.at = "gather"] /\ target' \in Targets(cli.cfg)
      <4>1. DOMAIN cli' = CliFields /\ cli'.cfg = cli.cfg /\ cli'.at = "gather"
        BY <3>2 DEF VerifyInv, CliFields
      <4>2. Answers(target')
        BY <3>2, TargetAnswers
      <4> QED
        BY <3>2, <4>1, <4>2 DEF VerifyInv, VerdictHonest
    <3> QED
      BY SMTT(40), <2>2, <3>1, <3>2 DEF Start
  <2>3. CASE Gather
    <3>1. PICK cert \in Replica, second \in Replica :
              LET got == gatherEvidence(cert, second)
              IN  \/ got.err = "security" /\ Exits(2)
                  \/ got.err = "other" /\ Exits(3)
                  \/ got.err = "none" /\ cli' = [cli EXCEPT !.at = "keys", !.ev = got.ev]
      BY ZenonT(40), <2>3 DEF Gather
    <3> DEFINE got == gatherEvidence(cert, second)
    <3>2. /\ cli.at = "gather" /\ UNCHANGED target
          /\ got.err = "none" => EvidenceMeans(got.ev)
          /\ got.err = "security" => ~Deserved
          /\ got.err = "other" => target.tls = "no" \/ target.shows = "other" \/ target.doc = "absent"
      BY SMTT(40), <2>3, GatheredEvidence DEF Gather, VerifyInv
    <3> HIDE DEF got
    <3>3. CASE got.err = "security" /\ Exits(2)
      <4>1. /\ DOMAIN cli' = CliFields /\ cli'.cfg = cli.cfg /\ cli'.at = "done" /\ cli'.exit = 2
            /\ cli'.ev = cli.ev /\ cli'.keys = cli.keys /\ cli'.served = cli.served
        BY <3>3 DEF Exits, VerifyInv, CliFields
      <4>2. ~Deserved'
        BY SMTT(40), <3>2, <3>3, <4>1, SameVerdict
      <4> QED
        BY <3>2, <4>1, <4>2 DEF VerifyInv, VerdictHonest
    <3>4. CASE got.err = "other" /\ Exits(3)
      <4>1. /\ DOMAIN cli' = CliFields /\ cli'.cfg = cli.cfg /\ cli'.at = "done" /\ cli'.exit = 3
        BY SMTT(40), <3>4 DEF Exits, VerifyInv, CliFields
      <4> QED
        BY <3>2, <3>4, <4>1 DEF VerifyInv, VerdictHonest
    <3>5. CASE got.err = "none" /\ cli' = [cli EXCEPT !.at = "keys", !.ev = got.ev]
      <4>1. /\ DOMAIN cli' = CliFields /\ cli'.cfg = cli.cfg /\ cli'.at = "keys" /\ cli'.ev = got.ev
        BY <3>5 DEF VerifyInv, CliFields
      <4>2. EvidenceMeans(cli.ev)'
        BY SMTT(40), <3>2, <3>5, <4>1, SameMeaning
      <4> QED
        BY <3>2, <4>1, <4>2 DEF VerifyInv, VerdictHonest
    <3> QED
      BY SMTT(40), <3>1, <3>3, <3>4, <3>5 DEF got
  <2>4. CASE gatherOperatorKeys
    <3>1. PICK cert \in Replica :
              cli' = [cli EXCEPT !.at = "measurements",
                                 !.keys = IF Askable THEN fetchAttested(cert, target.keys) ELSE "note"]
      BY ZenonT(40), <2>4 DEF gatherOperatorKeys
    <3>2. /\ cli.at = "keys" /\ UNCHANGED target
          /\ DOMAIN cli' = CliFields /\ cli'.cfg = cli.cfg /\ cli'.ev = cli.ev /\ cli'.at = "measurements"
          /\ cli'.keys = IF Askable THEN fetchAttested(cert, target.keys) ELSE "note"
      BY ZenonT(40), <2>4, <3>1 DEF gatherOperatorKeys, VerifyInv, CliFields
    <3>3. KeysMean'
      BY <3>2 DEF KeysMean, fetchAttested, Answer
    <3>4. EvidenceMeans(cli.ev)'
      <4>1. EvidenceMeans(cli.ev)
        BY SMTT(40), <3>2 DEF VerifyInv
      <4> QED
        BY SMTT(40), <3>2, <4>1, SameMeaning
    <3>5. VerdictHonest'
      BY <3>2 DEF VerdictHonest
    <3> QED
      BY SMTT(40), <3>2, <3>3, <3>4, <3>5 DEF VerifyInv
  <2>5. CASE gatherMeasurements
    <3>1. PICK cert \in Replica :
              cli' = [cli EXCEPT !.at = "verify",
                                 !.served = IF Askable /\ cli.cfg.pins \cap policyFiles # {}
                                            THEN fetchAttested(cert, target.enforces) ELSE "note"]
      BY ZenonT(40), <2>5 DEF gatherMeasurements
    <3>2. /\ cli.at = "measurements" /\ UNCHANGED target
          /\ DOMAIN cli' = CliFields /\ cli'.cfg = cli.cfg /\ cli'.ev = cli.ev /\ cli'.at = "verify"
          /\ cli'.keys = cli.keys
          /\ cli'.served = IF Askable /\ cli.cfg.pins \cap policyFiles # {}
                           THEN fetchAttested(cert, target.enforces) ELSE "note"
      BY ZenonT(40), <2>5, <3>1 DEF gatherMeasurements, VerifyInv, CliFields
    <3>3. ServedMean'
      BY <3>2 DEF ServedMean, fetchAttested, Answer
    <3>4. EvidenceMeans(cli.ev)' /\ KeysMean'
      <4>1. EvidenceMeans(cli.ev) /\ KeysMean
        BY <3>2 DEF VerifyInv
      <4> QED
        BY <3>2, <4>1, SameMeaning DEF KeysMean, Answer
    <3>5. VerdictHonest'
      BY <3>2 DEF VerdictHonest
    <3> QED
      BY SMTT(40), <3>2, <3>3, <3>4, <3>5 DEF VerifyInv
  <2>6. CASE verifyEvidence
    <3>1. /\ cli.at = "verify" /\ UNCHANGED target
          /\ Usable(cli.cfg) /\ buildPolicy(cli.cfg) /\ Answers(target)
          /\ EvidenceMeans(cli.ev) /\ KeysMean /\ ServedMean
      BY SMTT(40), <2>6 DEF verifyEvidence, VerifyInv
    <3>2. CASE verifyInProcess = "connect"
      <4>1. DOMAIN cli' = CliFields /\ cli'.cfg = cli.cfg /\ cli'.at = "done" /\ cli'.exit = 3
        BY ZenonT(40), <2>6, <3>2 DEF verifyEvidence, Exits, VerifyInv, CliFields
      <4>2. target.collateral = "no"
        BY SMTT(40), <3>2 DEF verifyInProcess, VerifyEnvelope
      <4> QED
        BY <3>1, <4>1, <4>2 DEF VerifyInv, VerdictHonest
    <3>3. CASE verifyInProcess # "connect"
      <4> DEFINE code == verdictExitCode(applyVerdictPolicies(newOutcome))
      <4>1. Exits(code)
        BY <2>6, <3>3 DEF verifyEvidence
      <4>2. code = IF ~Passed THEN 2 ELSE IF Tied THEN 0 ELSE 4
        BY <3>1, VerdictCode
      <4> HIDE DEF code
      <4>3. /\ DOMAIN cli' = CliFields /\ cli'.cfg = cli.cfg /\ cli'.at = "done" /\ cli'.exit = code
            /\ cli'.ev = cli.ev /\ cli'.keys = cli.keys /\ cli'.served = cli.served
        BY <4>1 DEF Exits, VerifyInv, CliFields
      <4>4. Passed => Deserved
        BY <3>1, <3>3, PassedIsDeserved
      <4>5. ~Passed => ~Deserved \/ \E p \in cli.cfg.pins : Unanswered(p)
        BY <3>1, <3>3, DeservedPasses
      <4>6. /\ Deserved' <=> Deserved
            /\ Tied' <=> Tied
            /\ \A p : Unanswered(p)' <=> Unanswered(p)
        BY <3>1, <4>3, SameVerdict
      <4>7. VerdictHonest'
        BY SMTT(40), <4>2, <4>3, <4>4, <4>5, <4>6 DEF VerdictHonest
      <4> QED
        BY <3>1, <4>3, <4>7 DEF VerifyInv
    <3> QED
      BY <3>2, <3>3
  <2>7. CASE UNCHANGED verifyVars
    <3>1. UNCHANGED <<cli, target>>
      BY <2>7 DEF verifyVars
    <3>2. /\ Deserved' <=> Deserved
          /\ Tied' <=> Tied
          /\ \A p : Unanswered(p)' <=> Unanswered(p)
      BY <3>1, SameVerdict
    <3>3. EvidenceMeans(cli.ev) => EvidenceMeans(cli.ev)'
      BY <3>1, SameMeaning
    <3>4. (KeysMean' <=> KeysMean) /\ (ServedMean' <=> ServedMean)
      BY <3>1 DEF KeysMean, ServedMean, Answer
    <3> QED
      BY <3>1, <3>2, <3>3, <3>4 DEF VerifyInv, VerdictHonest
  <2> QED
    BY SMTT(40), <2>1, <2>2, <2>3, <2>4, <2>5, <2>6, <2>7 DEF VerifyNext
<1>3. VerifyInv => VerdictHonest
  BY DEF VerifyInv
<1> QED
  BY <1>1, <1>2, <1>3, PTL DEF VerifySpec

================================================================================
