------------------------------- MODULE CdsAttest -------------------------------
(***************************************************************************)
(* Certificate issuance: POST /attest (internal/cmds/cds/attest.go) with   *)
(* the sandbox token of the caller's node (pkg/workloadclaims) and that    *)
(* node's admission inventory, while containers start and stop, the        *)
(* operator edits the allowlist, and the plugin and CDS restart.           *)
(*                                                                         *)
(* A requester is a get-cert sidecar with a key of its own.  Its requests  *)
(* may carry any challenge and any token it was ever handed, and several   *)
(* may be in flight: a client that gave up starts again while the server   *)
(* still works on the old one.  Signatures and evidence are external: a    *)
(* token verifies under the key of the process that signed it, evidence    *)
(* verifies or not.                                                        *)
(***************************************************************************)
EXTENDS Integers, Sequences, FiniteSets, AdmissionInventory

CONSTANTS Requester,                 \* the containers that ask for certificates
          Nonce, Req,                \* challenges; requests CDS serves
          ImageOf,                   \* container -> image; a container is a launch
          Injected,                  \* launches of c8s sidecars, under any argv
          None,
          Scenes                     \* the situations to look at: see scene

(* An allowlist document has finitely many entries.                          *)
ASSUME ScenesAreFinite ==
    \A sc \in Scenes : /\ sc.ctrs \subseteq Ctr /\ sc.reqs \subseteq Req
                       /\ \A d \in sc.docs : IsFiniteSet(DOMAIN d)

VARIABLES running,                   \* containers on the node
          epoch,                     \* plugin processes so far: the signing key
          challenges,                \* ChallengeStore: outstanding challenges
          issued,                    \* challenges ever handed out: they are random
          tokens,                    \* sandbox tokens handed out
          docs,                      \* documents by version; the last is current
          req,                       \* request -> its state in HandleAttest
          bound,                     \* sandboxes with a ledger binding
          leaves,                    \* certificates returned
          restarts,
          scene,                     \* who takes part, fixed: containers, nonces, requests,
                                     \* allowlists (name -> [main, init], sets of launches)
                                     \* and the bounds on allowlist versions, tokens and
                                     \* restarts
          vouched                    \* history: sandboxes that passed every gate

nodeVars == <<inventory, running, epoch>>
cds == <<challenges, docs, req, bound, leaves, vouched>>
attestVars == <<nodeVars, cds, issued, tokens, restarts, scene>>

Idle == [pc |-> "idle"]

AttestInit ==
    /\ newAdmissionInventory
    /\ running = {} /\ epoch = 0
    /\ challenges = {} /\ issued = {} /\ tokens = {}
    /\ scene \in Scenes
    /\ \E d \in scene.docs : docs = <<d>>
    /\ req = [q \in Req |-> Idle]
    /\ bound = {} /\ leaves = {} /\ restarts = 0 /\ vouched = {}

-------------------------------------------------------------------------------
(* The node. *)
Launch(c) ==
    /\ c \notin running
    /\ running' = running \union {c}
    /\ recordObserved(c, TRUE)
    /\ UNCHANGED <<epoch, cds, issued, tokens, restarts>>

Stop(c) ==
    /\ c \in running
    /\ running' = running \ {c}
    /\ remove(c)
    /\ UNCHANGED <<epoch, cds, issued, tokens, restarts>>

PluginRestart ==
    /\ restarts < scene.restarts
    /\ restarts' = restarts + 1
    /\ epoch' = epoch + 1
    /\ Emptied
    /\ UNCHANGED <<running, cds, issued, tokens>>

(* checkExisting refills the inventory one container at a time. *)
Resync(c) ==
    /\ c \in running \ tracked
    /\ recordObserved(c, TRUE)
    /\ UNCHANGED <<running, epoch, cds, issued, tokens, restarts>>

-------------------------------------------------------------------------------
(* The requester. *)
GetChallenge(n) ==
    /\ n \notin issued
    /\ issued' = issued \union {n}
    /\ challenges' = challenges \union {n}
    /\ UNCHANGED <<nodeVars, docs, req, bound, leaves, vouched, tokens, restarts>>

(* ServeTokens binds the caller by its kernel credentials and signs the      *)
(* challenge it is given.                                                    *)
GetToken(r, n) ==
    /\ r \in running /\ Cardinality(tokens) < scene.tokens
    /\ \E s \in SandboxForPeer(r) :
          tokens' = tokens \union {[sandbox |-> s, key |-> r, nonce |-> n, signer |-> epoch]}
    /\ UNCHANGED <<nodeVars, cds, issued, restarts>>

-------------------------------------------------------------------------------
(* The handler. *)
Reply(q) == req' = [req EXCEPT ![q] = [pc |-> "done"]]

RunningIn(t) == {c \in running : t # None /\ SandboxOf[c] = t.sandbox}

(* Mutant: a challenge stays good after its first use. *)
HandleAttestKeepsChallenge(q, r, n, t) ==
    /\ req[q].pc = "idle" /\ n \in issued
    /\ UNCHANGED challenges
    /\ IF n \in challenges
       THEN req' = [req EXCEPT ![q] = [pc |-> "token", key |-> r, nonce |-> n, token |-> t, ran |-> RunningIn(t)]]
       ELSE Reply(q)
    /\ UNCHANGED <<nodeVars, docs, bound, leaves, vouched, issued, tokens, restarts>>

(* HandleAttest takes a request and consumes its challenge. *)
HandleAttest(q, r, n, t) ==
    /\ req[q].pc = "idle" /\ n \in issued
    /\ challenges' = challenges \ {n}
    /\ IF n \in challenges
       THEN req' = [req EXCEPT ![q] = [pc |-> "token", key |-> r, nonce |-> n, token |-> t,
                                            ran |-> RunningIn(t)]]
       ELSE Reply(q)
    /\ UNCHANGED <<nodeVars, docs, bound, leaves, vouched, issued, tokens, restarts>>

(* Mutant: the key digest is not compared. *)
VerifyIgnoresKey(t, key, nonce) == t.signer = epoch /\ t.nonce = nonce

Verify(t, key, nonce) == t.signer = epoch /\ t.nonce = nonce /\ t.key = key

(* The bindings after Record, which may refuse (SandboxLedger).              *)
recordSandboxBinding(t) == IF t = None THEN {bound} ELSE {bound, bound \union {t.sandbox}}

(* Mutant: the binding is recorded as soon as the token verifies. *)
verifySandboxTokenBinds(q) ==
    /\ req[q].pc = "token"
    /\ IF req[q].token = None \/ Verify(req[q].token, req[q].key, req[q].nonce)
       THEN /\ req' = [req EXCEPT ![q].pc = "evidence"]
            /\ bound' \in recordSandboxBinding(req[q].token)
       ELSE Reply(q) /\ UNCHANGED bound
    /\ UNCHANGED <<nodeVars, challenges, docs, leaves, vouched, issued, tokens, restarts>>

(* The key is fetched from the inventory's endpoint for every request.       *)
verifySandboxToken(q) ==
    /\ req[q].pc = "token"
    /\ IF req[q].token = None \/ Verify(req[q].token, req[q].key, req[q].nonce)
       THEN req' = [req EXCEPT ![q].pc = "evidence"]
       ELSE Reply(q)
    /\ UNCHANGED <<nodeVars, challenges, docs, bound, leaves, vouched, issued, tokens, restarts>>

(* VerifyEnforced, the measurement gates and ValidateCSR.                    *)
VerifyEnforced(q) ==
    /\ req[q].pc = "evidence"
    /\ req' = [req EXCEPT ![q].pc = "workload"] \/ Reply(q)
    /\ UNCHANGED <<nodeVars, challenges, docs, bound, leaves, vouched, issued, tokens, restarts>>

(* FetchSandbox: an unknown sandbox, an incomplete or an empty answer is     *)
(* refused; without a token there is nothing to ask.                         *)
FetchSandbox(q) ==
    /\ req[q].pc = "workload"
    /\ LET t == req[q].token
           answer == IF t = None THEN {} ELSE DigestsForSandbox(t.sandbox)
       IN  req' = [req EXCEPT ![q] = IF t # None /\ answer = {} THEN [pc |-> "done"]
                       ELSE [pc |-> "sign", key |-> @.key, nonce |-> @.nonce, token |-> t,
                             ran |-> @.ran, live |-> RunningIn(t), answer |-> answer, signer |-> epoch]]
    /\ UNCHANGED <<nodeVars, challenges, docs, bound, leaves, vouched, issued, tokens, restarts>>

Declares(w, c) == c \in w.main \union w.init

Contains(doc, image) == \E m \in DOMAIN doc, c \in Ctr : Declares(doc[m], c) /\ ImageOf[c] = image

isInjected(doc, c) == c \in Injected /\ Contains(doc, ImageOf[c])

WorkloadContainers(doc, answer) == {c \in answer : ~isInjected(doc, c)}

(* Mutant: a set that lacks a main container is described. *)
describesSubset(w, ran) == \A c \in ran : Declares(w, c)

(* Nothing foreign, every main container present. *)
describes(w, ran) == (\A c \in ran : Declares(w, c)) /\ w.main \subseteq ran

matchWorkload(doc, answer) ==
    LET ran == WorkloadContainers(doc, answer)
        names == {m \in DOMAIN doc : describes(doc[m], ran)}
    IN  IF ran # {} /\ Cardinality(names) = 1 THEN CHOOSE m \in names : TRUE ELSE None

Membership(doc, answer) == \A c \in answer : Contains(doc, ImageOf[c])

(* The policy snapshot is loaded after the fetch; then membership, the name, *)
(* the request timeout, the ledger and the signature, which may fail.        *)
SignCSR(q) ==
    /\ req[q].pc = "sign"
    /\ Reply(q)
    /\ LET t == req[q].token
           doc == docs[Len(docs)]
           s == IF t = None THEN None ELSE t.sandbox
           leaf == [req |-> q, key |-> req[q].key, nonce |-> req[q].nonce, sandbox |-> s,
                    name |-> IF t = None THEN None ELSE matchWorkload(doc, req[q].answer),
                    version |-> Len(docs), answer |-> req[q].answer, ran |-> req[q].ran,
                    live |-> req[q].live, signer |-> req[q].signer]
       IN  \/ UNCHANGED <<bound, leaves, vouched>>          \* refused, or timed out
           \/ /\ Membership(doc, req[q].answer)
              /\ bound' \in recordSandboxBinding(t)
              /\ vouched' = IF t = None THEN vouched ELSE vouched \union {s}
              /\ leaves' \in {leaves, leaves \union {leaf}}
    /\ UNCHANGED <<nodeVars, challenges, docs, issued, tokens, restarts>>

-------------------------------------------------------------------------------
Edit(d) ==
    /\ Len(docs) < scene.versions
    /\ docs' = Append(docs, d)
    /\ UNCHANGED <<nodeVars, challenges, req, bound, leaves, vouched, issued, tokens, restarts>>

(* Challenges, requests and the ledger are process memory.                   *)
CdsRestart ==
    /\ restarts < scene.restarts
    /\ restarts' = restarts + 1
    /\ challenges' = {} /\ bound' = {}
    /\ req' = [q \in Req |-> IF req[q].pc = "idle" THEN Idle ELSE [pc |-> "done"]]
    /\ UNCHANGED <<nodeVars, docs, leaves, vouched, issued, tokens>>

Asking == Requester \intersect scene.ctrs

AttestNext ==
    /\ \/ \E c \in scene.ctrs : Launch(c) \/ Stop(c) \/ Resync(c)
       \/ PluginRestart \/ CdsRestart
       \/ \E n \in scene.nonces : GetChallenge(n) \/ \E r \in Asking : GetToken(r, n)
       \/ \E q \in scene.reqs :
             \/ \E r \in Asking, n \in Nonce, t \in tokens \union {None} : HandleAttest(q, r, n, t)
             \/ verifySandboxToken(q) \/ VerifyEnforced(q) \/ FetchSandbox(q) \/ SignCSR(q)
       \/ \E d \in scene.docs : Edit(d)
    /\ UNCHANGED scene

AttestSpec == AttestInit /\ [][AttestNext]_attestVars

-------------------------------------------------------------------------------
(* attest.go:262,353: the sandbox on a certificate is the one its key holder *)
(* runs in, its token was signed for the challenge of that request, and a    *)
(* sandbox is bound to its inventory only once a request about it has passed *)
(* every gate, across concurrent requests, mixed-up tokens and signing key   *)
(* changes.  attest.go:148: a challenge buys at most one certificate,        *)
(* whatever the client resends and wherever CDS restarts.                    *)
LeafNamesItsPod ==
    /\ \A l, m \in leaves : l.nonce = m.nonce => l = m
    /\ bound \subseteq vouched
    /\ \A l \in leaves : l.sandbox # None =>
          /\ l.sandbox = SandboxOf[l.key]
          /\ \E t \in tokens : t.sandbox = l.sandbox /\ t.key = l.key /\ t.nonce = l.nonce

(* attest.go:414: every image of the answer was allowlisted by the document  *)
(* whose version the certificate carries, and a name on it is the only entry *)
(* of that same document that accounts for every container c8s did not       *)
(* inject, though the operator edits the allowlist during the request.       *)
(* docs/secrets.md:448: the certificate speaks for the whole pod: while the  *)
(* plugin process that saw the pod start answers, nothing that ran in the    *)
(* sandbox when the request came in, or when CDS asked, is missing from the  *)
(* answer the gates looked at, though containers stop in between.            *)
StampTruthful ==
    \A l \in leaves :
        /\ l.signer = 0 => l.ran \union l.live \subseteq l.answer
        /\ l.sandbox # None =>
              LET doc == docs[l.version]
                  own == {c \in l.answer : c \notin Injected}
              IN  /\ \A c \in l.answer : \E m \in DOMAIN doc :
                        ImageOf[c] \in {ImageOf[d] : d \in doc[m].main \union doc[m].init}
                  /\ l.name # None =>
                        {m \in DOMAIN doc : doc[m].main \subseteq own /\ own \subseteq doc[m].main \union doc[m].init}
                            = {l.name}

(* Observed not to hold.  docs/getcert-workload-binding.md:336: until the    *)
(* startup check completes "a callback landing in between gets a 404         *)
(* (unknown sandbox) or a short set, and CDS refuses"; a short set that      *)
(* still matches an entry is accepted.                                       *)
ShortSetRefused == \A l \in leaves : l.live \subseteq l.answer
===============================================================================
