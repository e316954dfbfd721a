------------------------------ MODULE AttestProofs ------------------------------
(***************************************************************************)
(* Theorems about the certificates CDS issues from the node's inventory    *)
(* (CdsAttest), for every set of containers, documents, challenges and     *)
(* requests.                                                               *)
(***************************************************************************)
EXTENDS CdsAttest, FiniteSetTheorems, TLAPS

-------------------------------------------------------------------------------
(* The attestation handler.  The requests in hand as data: what each of them *)
(* may look like once the tokens toks are handed out.                        *)
Early == {"token", "evidence", "workload"}

InventoryType ==
    /\ recorded \in [Sandbox -> SUBSET Ctr]
    /\ unresolved \in [Sandbox -> SUBSET Ctr]

Waiting(toks) == [pc : Early, key : Ctr, nonce : Nonce, token : toks \union {None}, ran : SUBSET Ctr]

Signing(toks) == [pc : {"sign"}, key : Ctr, nonce : Nonce, token : toks \union {None}, ran : SUBSET Ctr,
                  live : SUBSET Ctr, answer : SUBSET Ctr, signer : Nat]

Requests(toks) == [pc : {"idle", "done"}] \union Waiting(toks) \union Signing(toks)

InFlight(r) == r.pc \in Early \union {"sign"}

(* Past the token check, the token is the caller's, for this challenge.      *)
Checked(r) == r.pc \in {"evidence", "workload", "sign"} /\ r.token # None =>
                  r.token.nonce = r.nonce /\ r.token.key = r.key

(* While the first plugin process answers, its record rec covers what ran    *)
(* when the request came in, and the answer taken from it.                   *)
Saw(r, ep, rec) ==
    /\ r.pc \in Early => IF r.token = None THEN r.ran = {} ELSE ep = 0 => r.ran \subseteq rec[r.token.sandbox]
    /\ r.pc = "sign" /\ r.signer = 0 => r.ran \union r.live \subseteq r.answer

Kept(r, toks, ep, rec) == r \in Requests(toks) /\ Checked(r) /\ Saw(r, ep, rec)

RequestsKept(rq, toks, ep, rec) == DOMAIN rq = Req /\ \A q \in Req : Kept(rq[q], toks, ep, rec)

(* A request in flight owns its challenge: nobody else holds it and no       *)
(* certificate was issued for it.                                            *)
Owned(rq, certs, given, open) ==
    /\ \A q \in Req : InFlight(rq[q]) => rq[q].nonce \in given \ open
    /\ \A q, r \in Req : InFlight(rq[q]) /\ InFlight(rq[r]) /\ rq[q].nonce = rq[r].nonce => q = r
    /\ \A l \in certs : l.nonce \in given \ open
    /\ \A q \in Req, l \in certs : InFlight(rq[q]) => l.nonce # rq[q].nonce

NodeKept ==
    /\ InventoryType /\ tracked \subseteq Ctr /\ running \subseteq Ctr /\ epoch \in Nat
    /\ epoch = 0 => \A c \in running : c \in recorded[SandboxOf[c]]

DocsTyped == scene \in Scenes /\ docs \in Seq(scene.docs) /\ Len(docs) > 0

TokenKept(t) == t.key \in Ctr /\ t.sandbox = SandboxOf[t.key]

Certified == (\A l \in leaves : l.version \in 1..Len(docs)) /\ LeafNamesItsPod /\ StampTruthful

AttestInv ==
    /\ NodeKept /\ DocsTyped /\ Certified
    /\ challenges \subseteq issued
    /\ \A t \in tokens : TokenKept(t)
    /\ RequestsKept(req, tokens, epoch, recorded)
    /\ Owned(req, leaves, issued, challenges)

(* A request past its arrival and before its signature is a waiting one, and *)
(* one before its signature carries what it was given.                       *)
LEMMA RequestShapes ==
    ASSUME NEW toks, NEW r \in Requests(toks)
    PROVE  /\ r.pc \in Early => r \in Waiting(toks)
           /\ r.pc = "sign" => r \in Signing(toks)
  BY DEF Requests, Waiting, Signing, Early

(* An answered request is over. *)
LEMMA AnsweredKept ==
    ASSUME NEW toks, NEW ep, NEW rec
    PROVE  Kept([pc |-> "done"], toks, ep, rec) /\ ~InFlight([pc |-> "done"])
  BY DEF Kept, Requests, Checked, Saw, InFlight, Early

(* The entries of a document that account for the containers c8s did not
   inject: they run all of its main containers, and nothing it does not list. *)
Matching(doc, answer) ==
    LET own == {c \in answer : c \notin Injected}
    IN  {m \in DOMAIN doc : doc[m].main \subseteq own /\ own \subseteq doc[m].main \union doc[m].init}

(* workloadmatch: a name that matchWorkload returns is the only entry that   *)
(* accounts for the containers c8s did not inject.                           *)
LEMMA MatchIsUnique ==
    ASSUME NEW doc, IsFiniteSet(DOMAIN doc), NEW answer, Membership(doc, answer), matchWorkload(doc, answer) # None
    PROVE  Matching(doc, answer) = {matchWorkload(doc, answer)}
<1> DEFINE own == {c \in answer : c \notin Injected}
           names == {m \in DOMAIN doc : describes(doc[m], own)}
<1>1. WorkloadContainers(doc, answer) = own
  BY DEF WorkloadContainers, isInjected, Membership
<1>2. Cardinality(names) = 1 /\ matchWorkload(doc, answer) = CHOOSE m \in names : TRUE
  BY <1>1 DEF matchWorkload
<1>3. IsFiniteSet(names)
  BY ZenonT(40), FS_Subset
<1>4. PICK x : names = {x}
  <2> HIDE DEF names
  <2> QED
    BY SMTT(40), <1>2, <1>3, FS_Singleton
<1>5. names = {m \in DOMAIN doc : doc[m].main \subseteq own /\ own \subseteq doc[m].main \union doc[m].init}
  BY DEF describes, Declares
<1> HIDE DEF names, own
<1>6. names = {matchWorkload(doc, answer)}
  BY SMTT(40), <1>2, <1>4
<1> QED
  BY SMTT(40), <1>5, <1>6 DEF own, Matching

(* StampTruthful for one certificate. *)
Truthful(l, doc) ==
    /\ l.signer = 0 => l.ran \union l.live \subseteq l.answer
    /\ l.sandbox # None =>
          /\ \A c \in l.answer : \E m \in DOMAIN doc :
                ImageOf[c] \in {ImageOf[d] : d \in doc[m].main \union doc[m].init}
          /\ l.name # None => Matching(doc, l.answer) = {l.name}

(* StampTruthful is a property of each certificate and its document. *)
LEMMA StampsOneByOne == StampTruthful <=> \A l \in leaves : Truthful(l, docs[l.version])
  BY SMTT(40) DEF StampTruthful, Truthful, Matching

(* LeafNamesItsPod for one certificate. *)
Named(l, toks) == l.sandbox # None => /\ l.sandbox = SandboxOf[l.key]
                                      /\ \E t \in toks : t.sandbox = l.sandbox /\ t.key = l.key /\ t.nonce = l.nonce

(* Membership: every container reported runs an image some entry declares.   *)
LEMMA MembersDeclared ==
    ASSUME NEW doc, NEW answer, Membership(doc, answer), NEW c \in answer
    PROVE  \E m \in DOMAIN doc : ImageOf[c] \in {ImageOf[d] : d \in doc[m].main \union doc[m].init}
  BY SMTT(40) DEF Membership, Contains, Declares

(* What SignCSR puts on a certificate holds of the request it signs.         *)
LEMMA LeafIsTrue ==
    ASSUME NEW r, Kept(r, tokens, epoch, recorded), r.pc = "sign", \A t \in tokens : TokenKept(t),
           NEW doc, IsFiniteSet(DOMAIN doc), Membership(doc, r.answer),
           NEW l, l.key = r.key, l.nonce = r.nonce, l.sandbox = (IF r.token = None THEN None ELSE r.token.sandbox),
           l.name = (IF r.token = None THEN None ELSE matchWorkload(doc, r.answer)),
           l.answer = r.answer, l.ran = r.ran, l.live = r.live, l.signer = r.signer
    PROVE  Named(l, tokens) /\ Truthful(l, doc)
<1>1. r \in Signing(tokens)
  BY SMTT(40), RequestShapes DEF Kept
<1>2. Named(l, tokens)
  BY SMTT(40), <1>1 DEF Kept, Checked, TokenKept, Named, Signing
<1>3. l.signer = 0 => l.ran \union l.live \subseteq l.answer
  BY SMTT(40) DEF Kept, Saw
<1>4. \A c \in l.answer : \E m \in DOMAIN doc :
         ImageOf[c] \in {ImageOf[d] : d \in doc[m].main \union doc[m].init}
  BY SMTT(40), MembersDeclared
<1>5. l.name # None => Matching(doc, l.answer) = {l.name}
  BY SMTT(40), MatchIsUnique
<1> QED
  BY SMTT(40), <1>2, <1>3, <1>4, <1>5 DEF Truthful

(* A step of one request leaves the others as they are. *)
LEMMA StepKept ==
    ASSUME NEW toks, NEW ep, NEW rec, NEW rq, RequestsKept(rq, toks, ep, rec),
           NEW q \in Req, NEW r, Kept(r, toks, ep, rec)
    PROVE  RequestsKept([rq EXCEPT ![q] = r], toks, ep, rec)
<1> DEFINE next == [rq EXCEPT ![q] = r]
<1>1. DOMAIN next = Req /\ \A p \in Req : next[p] = IF p = q THEN r ELSE rq[p]
  BY DEF RequestsKept
<1> HIDE DEF next
<1>2. RequestsKept(next, toks, ep, rec)
  BY <1>1 DEF RequestsKept
<1> QED
  BY <1>2 DEF next

(* A step of one request keeps the challenges apart if it ends the request   *)
(* or goes on with the same challenge.                                       *)
LEMMA StepOwned ==
    ASSUME NEW rq, NEW certs, NEW given, NEW open, Owned(rq, certs, given, open), DOMAIN rq = Req,
           NEW q \in Req, NEW r, InFlight(r) => InFlight(rq[q]) /\ r.nonce = rq[q].nonce
    PROVE  Owned([rq EXCEPT ![q] = r], certs, given, open)
<1> DEFINE next == [rq EXCEPT ![q] = r]
<1>1. \A p \in Req : next[p] = IF p = q THEN r ELSE rq[p]
  OBVIOUS
<1> HIDE DEF next
<1>2. \A p \in Req : InFlight(next[p]) => InFlight(rq[p]) /\ next[p].nonce = rq[p].nonce
  BY <1>1
<1>3. Owned(next, certs, given, open)
  BY <1>2 DEF Owned
<1> QED
  BY <1>3 DEF next

(* The certificate of a request takes the challenge over from it.            *)
LEMMA ChallengeSpent ==
    ASSUME NEW rq, NEW certs, NEW given, NEW open, Owned(rq, certs, given, open), DOMAIN rq = Req,
           NEW q \in Req, InFlight(rq[q]), NEW r, ~InFlight(r), NEW l, l.nonce = rq[q].nonce
    PROVE  Owned([rq EXCEPT ![q] = r], certs \union {l}, given, open)
<1> DEFINE next == [rq EXCEPT ![q] = r]
<1>1. \A p \in Req : next[p] = IF p = q THEN r ELSE rq[p]
  OBVIOUS
<1> HIDE DEF next
<1>2. ~InFlight(next[q]) /\ \A p \in Req \ {q} : next[p] = rq[p]
  BY <1>1
<1>3. Owned(next, certs \union {l}, given, open)
  BY <1>2 DEF Owned
<1> QED
  BY <1>3 DEF next

-------------------------------------------------------------------------------
(* What a step leaves alone keeps its part of the invariant. *)
LEMMA SameNode ==
    ASSUME UNCHANGED <<tracked, recorded, unresolved, running, epoch>>
    PROVE  NodeKept' <=> NodeKept
  BY DEF NodeKept, InventoryType

(* A step that leaves the allowlist alone keeps its part of the invariant. *)
LEMMA SameDocs == ASSUME UNCHANGED <<scene, docs>> PROVE DocsTyped' <=> DocsTyped
  BY DEF DocsTyped

(* A step that issues no certificate keeps what is known of those issued. *)
LEMMA SameLeaves ==
    ASSUME UNCHANGED <<leaves, docs, bound, vouched, tokens>>
    PROVE  Certified' <=> Certified
<1>1. LeafNamesItsPod' <=> LeafNamesItsPod
  BY DEF LeafNamesItsPod
<1>2. StampTruthful' <=> StampTruthful
  BY DEF StampTruthful
<1> QED
  BY <1>1, <1>2 DEF Certified

-------------------------------------------------------------------------------
(* The steps of the handler, which leave the node, its tokens and the        *)
(* challenges ever issued alone.                                             *)
Aside == <<tracked, recorded, unresolved, running, epoch, issued, tokens, scene, docs>>

(* What a step of the handler has to show of the requests, the challenges    *)
(* and the certificates for the invariant to hold after it.                  *)
LEMMA AsideInv ==
    ASSUME AttestInv, UNCHANGED Aside, Certified', challenges' \subseteq challenges,
           RequestsKept(req', tokens, epoch, recorded), Owned(req', leaves', issued, challenges')
    PROVE  AttestInv'
<1>1. UNCHANGED <<tracked, recorded, unresolved, running, epoch>> /\ UNCHANGED <<scene, docs>>
      /\ issued' = issued /\ tokens' = tokens /\ epoch' = epoch /\ recorded' = recorded
  BY DEF Aside
<1>2. NodeKept' /\ DocsTyped'
  BY <1>1, SameNode, SameDocs DEF AttestInv
<1>3. challenges \subseteq issued /\ \A t \in tokens : TokenKept(t)
  BY DEF AttestInv
<1> QED
  BY <1>1, <1>2, <1>3 DEF AttestInv

(* A request that is answered, or that takes its next step and keeps its     *)
(* challenge.                                                                *)
LEMMA AdvanceInv ==
    ASSUME AttestInv, UNCHANGED Aside, UNCHANGED <<bound, leaves, vouched>>, challenges' \subseteq challenges,
           NEW q \in Req, NEW r, req' = [req EXCEPT ![q] = r], Kept(r, tokens, epoch, recorded),
           InFlight(r) => InFlight(req[q]) /\ r.nonce = req[q].nonce
    PROVE  AttestInv'
<1>1. Certified'
  BY SameLeaves DEF AttestInv, Aside
<1>2. /\ RequestsKept(req, tokens, epoch, recorded) /\ Owned(req, leaves, issued, challenges)
      /\ DOMAIN req = Req
  BY SMTT(40) DEF AttestInv, RequestsKept
<1>3. RequestsKept(req', tokens, epoch, recorded)
  BY ZenonT(40), <1>2, StepKept
<1>4. Owned(req', leaves, issued, challenges)
  BY ZenonT(40), <1>2, StepOwned
<1>5. Owned(req', leaves', issued, challenges')
  BY <1>4 DEF Owned
<1> QED
  BY <1>1, <1>3, <1>5, AsideInv

(* SignCSR (attest.go:353): the certificate, if one is issued, takes over    *)
(* its challenge and is true of the request.                                 *)
LEMMA SignCSRInv ==
    ASSUME NEW q \in Req, AttestInv, SignCSR(q), UNCHANGED scene
    PROVE  AttestInv'
<1> DEFINE r == req[q]
           doc == docs[Len(docs)]
           s == IF r.token = None THEN None ELSE r.token.sandbox
           leaf == [req |-> q, key |-> r.key, nonce |-> r.nonce, sandbox |-> s,
                    name |-> IF r.token = None THEN None ELSE matchWorkload(doc, r.answer),
                    version |-> Len(docs), answer |-> r.answer, ran |-> r.ran,
                    live |-> r.live, signer |-> r.signer]
<1>1. /\ UNCHANGED Aside /\ challenges' = challenges
      /\ r.pc = "sign" /\ req' = [req EXCEPT ![q] = [pc |-> "done"]]
  BY SMTT(40) DEF SignCSR, Reply, Aside, nodeVars, inventory
<1>2. \/ UNCHANGED <<bound, leaves, vouched>>
      \/ /\ Membership(doc, r.answer)
         /\ bound' \in recordSandboxBinding(r.token)
         /\ vouched' = IF r.token = None THEN vouched ELSE vouched \union {s}
         /\ leaves' \in {leaves, leaves \union {leaf}}
  BY SMTT(40) DEF SignCSR
<1>3. /\ leaf.key = r.key /\ leaf.nonce = r.nonce /\ leaf.sandbox = s /\ leaf.version = Len(docs)
      /\ leaf.name = (IF r.token = None THEN None ELSE matchWorkload(doc, r.answer))
      /\ leaf.answer = r.answer /\ leaf.ran = r.ran /\ leaf.live = r.live /\ leaf.signer = r.signer
  BY ZenonT(40)
<1> HIDE DEF leaf
<1>4. CASE UNCHANGED <<bound, leaves, vouched>>
  BY ZenonT(40), <1>1, <1>4, AnsweredKept, AdvanceInv
<1>5. CASE /\ Membership(doc, r.answer)
           /\ bound' \in recordSandboxBinding(r.token)
           /\ vouched' = IF r.token = None THEN vouched ELSE vouched \union {s}
           /\ leaves' \in {leaves, leaves \union {leaf}}
  <2>1. /\ RequestsKept(req, tokens, epoch, recorded) /\ Kept(r, tokens, epoch, recorded)
        /\ DOMAIN req = Req /\ Owned(req, leaves, issued, challenges) /\ \A t \in tokens : TokenKept(t)
    BY SMTT(40) DEF AttestInv, RequestsKept
  <2>2. doc \in scene.docs /\ IsFiniteSet(DOMAIN doc)
    <3>1. scene \in Scenes /\ docs \in Seq(scene.docs) /\ Len(docs) > 0
      BY SMTT(40) DEF AttestInv, DocsTyped
    <3>2. doc \in scene.docs
      BY SMTT(40), <3>1
    <3> HIDE DEF doc
    <3> QED
      BY ZenonT(40), <3>1, <3>2, ScenesAreFinite
  <2> HIDE DEF doc
  <2>3. Named(leaf, tokens) /\ Truthful(leaf, doc)
    BY ZenonT(40), <1>1, <1>3, <1>5, <2>1, <2>2, LeafIsTrue
  <2>4. InFlight(r) /\ ~InFlight([pc |-> "done"])
    BY SMTT(40), <1>1 DEF InFlight, Early
  <2>5. RequestsKept(req', tokens, epoch, recorded)
    BY ZenonT(40), <1>1, <2>1, AnsweredKept, StepKept
  <2>6. Owned(req', leaves', issued, challenges)
    <3>1. Owned(req', leaves \union {leaf}, issued, challenges)
      BY ZenonT(40), <1>1, <1>3, <2>1, <2>4, ChallengeSpent
    <3> QED
      BY SMTT(40), <1>5, <3>1 DEF Owned
  <2>7. \A l \in leaves : l.nonce # leaf.nonce
    BY SMTT(40), <1>3, <2>1, <2>4 DEF Owned
  <2>8. /\ docs' = docs /\ tokens' = tokens /\ Len(docs) \in Nat /\ Len(docs) > 0
        /\ \A l \in leaves : l.version \in 1..Len(docs)
        /\ LeafNamesItsPod /\ StampTruthful
    BY SMTT(40), <1>1 DEF AttestInv, DocsTyped, Certified, Aside
  <2>9. LeafNamesItsPod'
    <3>1. \A l, m \in leaves' : l.nonce = m.nonce => l = m
      BY SMTT(40), <1>5, <2>7, <2>8 DEF LeafNamesItsPod
    <3>2. bound' \subseteq vouched'
      BY SMTT(40), <1>5, <2>8 DEF recordSandboxBinding, LeafNamesItsPod
    <3>3. \A l \in leaves' : Named(l, tokens)
      BY SMTT(40), <1>5, <2>3, <2>8 DEF LeafNamesItsPod, Named
    <3> QED
      BY SMTT(40), <2>8, <3>1, <3>2, <3>3 DEF LeafNamesItsPod, Named
  <2>10. StampTruthful'
    <3>1. \A l \in leaves : Truthful(l, docs[l.version])
      BY SMTT(40), <2>8, StampsOneByOne
    <3>2. Truthful(leaf, docs[leaf.version])
      BY SMTT(40), <1>3, <2>3 DEF doc
    <3>3. \A l \in leaves' : Truthful(l, docs'[l.version])
      BY SMTT(40), <1>5, <2>8, <3>1, <3>2
    <3> QED
      BY ZenonT(40), <3>3 DEF StampTruthful, Truthful, Matching
  <2>11. Certified'
    BY SMTT(40), <1>3, <1>5, <2>8, <2>9, <2>10 DEF Certified
  <2> QED
    BY SMTT(40), <1>1, <2>5, <2>6, <2>11, AsideInv
<1> QED
  BY SMTT(40), <1>2, <1>4, <1>5

(* FetchSandbox: the plugin's answer covers what runs in the pod, as long as *)
(* no restart emptied its records.                                           *)
LEMMA FetchSandboxInv ==
    ASSUME NEW q \in Req, AttestInv, FetchSandbox(q), UNCHANGED scene
    PROVE  AttestInv'
<1> DEFINE r == req[q]
           t == r.token
           answer == IF t = None THEN {} ELSE DigestsForSandbox(t.sandbox)
           fetched == [pc |-> "sign", key |-> r.key, nonce |-> r.nonce, token |-> t, ran |-> r.ran,
                       live |-> RunningIn(t), answer |-> answer, signer |-> epoch]
<1>1. DOMAIN req = Req /\ Kept(r, tokens, epoch, recorded) /\ NodeKept /\ \A u \in tokens : TokenKept(u)
  BY SMTT(40) DEF AttestInv, RequestsKept
<1>2. /\ UNCHANGED Aside /\ UNCHANGED <<bound, leaves, vouched>> /\ challenges' = challenges
      /\ r.pc = "workload"
      /\ req' = [req EXCEPT ![q] = IF t # None /\ answer = {} THEN [pc |-> "done"] ELSE fetched]
  BY SMTT(40), <1>1 DEF FetchSandbox, Aside, nodeVars, inventory
<1> HIDE DEF r
<1>3. CASE t # None /\ answer = {}
  <2>1. req' = [req EXCEPT ![q] = [pc |-> "done"]]
    BY SMTT(40), <1>2, <1>3
  <2> QED
    BY SMTT(40), <1>2, <2>1, AnsweredKept, AdvanceInv
<1>4. CASE ~(t # None /\ answer = {})
  <2>1. r \in Waiting(tokens)
    BY SMTT(40), <1>1, <1>2, RequestShapes DEF Kept, Early
  <2>2. t # None => t \in tokens /\ t.sandbox \in Sandbox
    BY <1>1, <2>1, SandboxOfMaps DEF Waiting, TokenKept
  <2>3. t # None => answer = recorded[t.sandbox]
    BY SMTT(40), <1>4 DEF DigestsForSandbox
  <2>4. answer \subseteq Ctr
    BY SMTT(40), <1>1, <2>2, <2>3 DEF NodeKept, InventoryType
  <2>5. RunningIn(t) \subseteq Ctr
    BY SMTT(40), <1>1 DEF NodeKept, RunningIn
  <2>6. epoch = 0 => r.ran \union RunningIn(t) \subseteq answer
    <3>1. CASE t = None
      BY SMTT(40), <1>1, <1>2, <3>1 DEF Kept, Saw, Early, RunningIn
    <3>2. CASE t # None
      BY SMTT(40), <1>1, <1>2, <2>2, <2>3, <3>2 DEF Kept, Saw, Early, RunningIn, NodeKept
    <3> QED
      BY SMTT(40), <3>1, <3>2
  <2>7. req' = [req EXCEPT ![q] = fetched]
    BY ZenonT(40), <1>2, <1>4
  <2> HIDE DEF answer
  <2>8. epoch \in Nat
    BY SMTT(40), <1>1 DEF NodeKept
  <2>9. fetched \in Signing(tokens)
    BY SMTT(40), <2>1, <2>4, <2>5, <2>8 DEF Waiting, Signing
  <2>10. Checked(fetched) /\ Saw(fetched, epoch, recorded)
    BY SMTT(40), <1>1, <1>2, <2>6 DEF Kept, Checked, Saw, Early
  <2>11. fetched.nonce = r.nonce /\ InFlight(r)
    BY ZenonT(40), <1>2 DEF InFlight, Early
  <2> HIDE DEF fetched
  <2>12. Kept(fetched, tokens, epoch, recorded)
    BY SMTT(40), <2>9, <2>10 DEF Kept, Requests
  <2> QED
    BY SMTT(40), <1>2, <2>7, <2>11, <2>12, AdvanceInv DEF r
<1> QED
  BY <1>3, <1>4

(* A request moved on past a check: only pc changes. *)
LEMMA MovedOn ==
    ASSUME NEW r, Kept(r, tokens, epoch, recorded), NEW next \in {"evidence", "workload"},
           r.pc \in {"token", "evidence"}, r.token # None => r.token.nonce = r.nonce /\ r.token.key = r.key
    PROVE  LET s == [r EXCEPT !.pc = next]
           IN  Kept(s, tokens, epoch, recorded) /\ InFlight(r) /\ s.nonce = r.nonce
<1>1. r \in Waiting(tokens)
  BY RequestShapes DEF Kept, Early
<1> DEFINE s == [r EXCEPT !.pc = next]
<1>2. /\ s.pc = next /\ s.key = r.key /\ s.nonce = r.nonce /\ s.token = r.token /\ s.ran = r.ran
      /\ s \in Waiting(tokens)
  BY SMTT(40), <1>1 DEF Waiting, Early
<1> HIDE DEF s
<1>3. s \in Requests(tokens) /\ Checked(s)
  BY <1>2 DEF Requests, Checked
<1>4. Saw(s, epoch, recorded)
  BY <1>2 DEF Kept, Saw, Early
<1>5. InFlight(r)
  BY DEF InFlight, Early
<1> QED
  BY <1>2, <1>3, <1>4, <1>5 DEF Kept, s

(* verifySandboxToken and VerifyEnforced: a request goes on only with a      *)
(* token of its own key and challenge.                                       *)
LEMMA VerifyInv ==
    ASSUME NEW q \in Req, AttestInv, verifySandboxToken(q) \/ VerifyEnforced(q), UNCHANGED scene
    PROVE  AttestInv'
<1>1. /\ UNCHANGED Aside /\ UNCHANGED <<bound, leaves, vouched>> /\ challenges' = challenges
      /\ req[q].pc \in {"token", "evidence"}
  BY DEF verifySandboxToken, VerifyEnforced, Aside, nodeVars, inventory
<1>2. Kept(req[q], tokens, epoch, recorded) /\ DOMAIN req = Req
  BY DEF AttestInv, RequestsKept
<1>3. \/ req' = [req EXCEPT ![q] = [pc |-> "done"]]
      \/ /\ \E next \in {"evidence", "workload"} : req' = [req EXCEPT ![q] = [req[q] EXCEPT !.pc = next]]
         /\ req[q].token # None => req[q].token.nonce = req[q].nonce /\ req[q].token.key = req[q].key
  <2>1. CASE verifySandboxToken(q)
    BY <1>2, <2>1 DEF verifySandboxToken, Verify, Reply
  <2>2. CASE VerifyEnforced(q)
    BY <1>2, <2>2 DEF VerifyEnforced, Reply, Kept, Checked
  <2> QED
    BY SMTT(40), <2>1, <2>2
<1>4. CASE req' = [req EXCEPT ![q] = [pc |-> "done"]]
  BY ZenonT(40), <1>1, <1>4, AnsweredKept, AdvanceInv
<1>5. ASSUME NEW next \in {"evidence", "workload"}, req' = [req EXCEPT ![q] = [req[q] EXCEPT !.pc = next]],
             req[q].token # None => req[q].token.nonce = req[q].nonce /\ req[q].token.key = req[q].key
      PROVE  AttestInv'
  <2> DEFINE s == [req[q] EXCEPT !.pc = next]
  <2>1. Kept(s, tokens, epoch, recorded) /\ InFlight(req[q]) /\ s.nonce = req[q].nonce
    BY ZenonT(40), <1>1, <1>2, <1>5, MovedOn
  <2>2. req' = [req EXCEPT ![q] = s]
    BY <1>5
  <2> HIDE DEF s
  <2> QED
    BY ZenonT(40), <1>1, <2>1, <2>2, AdvanceInv
<1> QED
  BY <1>3, <1>4, <1>5

(* HandleAttest: a challenge that is open is nobody's, and is taken once.    *)
LEMMA ChallengeTaken ==
    ASSUME NEW rq, NEW certs, NEW given, NEW open, Owned(rq, certs, given, open), DOMAIN rq = Req,
           open \subseteq given, NEW q \in Req, ~InFlight(rq[q]), NEW n, NEW r, r.nonce = n, n \in open
    PROVE  Owned([rq EXCEPT ![q] = r], certs, given, open \ {n})
<1> DEFINE next == [rq EXCEPT ![q] = r]
<1>1. \A p \in Req : next[p] = IF p = q THEN r ELSE rq[p]
  OBVIOUS
<1> HIDE DEF next
<1>2. \A p \in Req \ {q} : next[p] = rq[p]
  BY <1>1
<1>3. next[q].nonce = n
  BY <1>1
<1>4. Owned(next, certs, given, open \ {n})
  BY <1>2, <1>3 DEF Owned
<1> QED
  BY <1>4 DEF next

(* HandleAttest (attest.go:148): the challenge is taken out of the store     *)
(* before anything else, and so is nobody else's.                            *)
LEMMA HandleAttestInv ==
    ASSUME NEW q \in Req, NEW r \in Ctr, NEW n \in Nonce, NEW t \in tokens \union {None},
           AttestInv, HandleAttest(q, r, n, t), UNCHANGED scene
    PROVE  AttestInv'
<1> DEFINE taken == [pc |-> "token", key |-> r, nonce |-> n, token |-> t, ran |-> RunningIn(t)]
<1>1. /\ UNCHANGED Aside /\ UNCHANGED <<bound, leaves, vouched>> /\ challenges' = challenges \ {n}
      /\ req[q].pc = "idle"
      /\ req' = [req EXCEPT ![q] = IF n \in challenges THEN taken ELSE [pc |-> "done"]]
  BY DEF HandleAttest, Reply, Aside, nodeVars, inventory
<1>2. CASE n \notin challenges
  <2>1. req' = [req EXCEPT ![q] = [pc |-> "done"]]
    BY SMTT(40), <1>1, <1>2
  <2> QED
    BY ZenonT(40), <1>1, <2>1, AnsweredKept, AdvanceInv
<1>3. CASE n \in challenges
  <2>1. RunningIn(t) \subseteq Ctr /\ (t = None => RunningIn(t) = {})
    BY SMTT(40) DEF RunningIn, AttestInv, NodeKept
  <2>2. taken \in Requests(tokens) /\ Checked(taken)
    BY SMTT(40), <2>1 DEF Requests, Waiting, Early, Checked
  <2>3. Saw(taken, epoch, recorded)
    BY <2>1 DEF Saw, Early, RunningIn, AttestInv, NodeKept
  <2>4. taken.nonce = n
    OBVIOUS
  <2> HIDE DEF taken
  <2>5. req' = [req EXCEPT ![q] = taken] /\ ~InFlight(req[q])
    BY <1>1, <1>3 DEF InFlight, Early
  <2>6. /\ RequestsKept(req, tokens, epoch, recorded) /\ Owned(req, leaves, issued, challenges)
        /\ DOMAIN req = Req /\ challenges \subseteq issued
    BY SMTT(40) DEF AttestInv, RequestsKept
  <2>7. RequestsKept(req', tokens, epoch, recorded)
    BY ZenonT(40), <2>2, <2>3, <2>5, <2>6, StepKept DEF Kept
  <2>8. Owned(req', leaves, issued, challenges \ {n})
    BY ZenonT(40), <1>3, <2>4, <2>5, <2>6, ChallengeTaken
  <2>9. Certified'
    BY <1>1, SameLeaves DEF AttestInv, Aside
  <2> QED
    BY SMTT(40), <1>1, <2>7, <2>8, <2>9, AsideInv
<1> QED
  BY <1>2, <1>3

(* An edit appends a version; the certificates refer to versions that stay. *)
LEMMA EditInv ==
    ASSUME NEW d \in scene.docs, AttestInv, Edit(d), UNCHANGED scene
    PROVE  AttestInv'
<1>1. /\ docs' = Append(docs, d)
      /\ UNCHANGED <<tracked, recorded, unresolved, running, epoch, challenges, req, bound, leaves, vouched,
                     issued, tokens, scene>>
  BY SMTT(40) DEF Edit, nodeVars, inventory
<1>2. docs \in Seq(scene.docs) /\ scene \in Scenes /\ Certified
  BY SMTT(40) DEF AttestInv, DocsTyped
<1>3. docs' \in Seq(scene.docs) /\ Len(docs') = Len(docs) + 1 /\ \A v \in 1..Len(docs) : docs'[v] = docs[v]
  BY SMTT(40), <1>1, <1>2
<1>4. LeafNamesItsPod'
  BY SMTT(40), <1>1, <1>2 DEF Certified, LeafNamesItsPod
<1>5. StampTruthful'
  <2>1. \A l \in leaves : Truthful(l, docs[l.version]) /\ l.version \in 1..Len(docs)
    BY SMTT(40), <1>2, StampsOneByOne DEF Certified
  <2>2. \A l \in leaves' : Truthful(l, docs'[l.version])
    BY SMTT(40), <1>1, <1>3, <2>1
  <2> QED
    BY SMTT(40), <2>2 DEF StampTruthful, Truthful, Matching
<1>6. Certified' /\ DocsTyped'
  BY SMTT(40), <1>1, <1>2, <1>3, <1>4, <1>5 DEF Certified, DocsTyped
<1>7. NodeKept'
  BY SMTT(40), <1>1, SameNode DEF AttestInv
<1> QED
  BY SMTT(40), <1>1, <1>6, <1>7 DEF AttestInv

(* A restart of CDS drops the challenges and every request in flight. *)
LEMMA CdsRestartInv ==
    ASSUME AttestInv, CdsRestart, UNCHANGED scene
    PROVE  AttestInv'
<1>1. /\ challenges' = {} /\ bound' = {} /\ UNCHANGED Aside /\ UNCHANGED <<leaves, vouched>>
      /\ DOMAIN req' = Req /\ \A q \in Req : req'[q] \in {Idle, [pc |-> "done"]}
  BY SMTT(40) DEF CdsRestart, Aside, nodeVars, inventory
<1>2. /\ \A r \in {Idle, [pc |-> "done"]} : Kept(r, tokens, epoch, recorded) /\ ~InFlight(r)
  BY SMTT(40) DEF Kept, Requests, Checked, Saw, InFlight, Early, Idle
<1>3. RequestsKept(req', tokens, epoch, recorded)
  BY SMTT(40), <1>1, <1>2 DEF RequestsKept
<1>4. \A q \in Req : ~InFlight(req'[q])
  BY SMTT(40), <1>1, <1>2
<1>5. Owned(req', leaves', issued, challenges')
  BY SMTT(40), <1>1, <1>4 DEF AttestInv, Owned
<1>6. Certified'
  <2>1. UNCHANGED <<leaves, docs, tokens, vouched>> /\ bound' = {} /\ Certified
    BY ZenonT(40), <1>1 DEF Aside, AttestInv
  <2>2. LeafNamesItsPod'
    BY SMTT(40), <2>1 DEF Certified, LeafNamesItsPod
  <2>3. StampTruthful'
    BY SMTT(40), <2>1 DEF Certified, StampTruthful
  <2> QED
    BY SMTT(40), <2>1, <2>2, <2>3 DEF Certified
<1> QED
  BY SMTT(40), <1>1, <1>3, <1>5, <1>6, AsideInv

(* A sequence of one. *)
LEMMA OneElement == ASSUME NEW S, NEW x \in S PROVE <<x>> \in Seq(S) /\ Len(<<x>>) = 1
  OBVIOUS

(* A container is accounted for when its sandbox's record    *)
(* names it or cannot be answered because of it.                             *)
Accounted(c) == c \in recorded[SandboxOf[c]] \/ c \in unresolved[SandboxOf[c]]

(* History.Record: recording keeps what the record has, accounts for its     *)
(* container, and un-accounts none.                                          *)
LEMMA RecordAccounts ==
    ASSUME NEW c \in Ctr, NEW known, recordObserved(c, known), InventoryType
    PROVE  /\ InventoryType'
           /\ \A s \in Sandbox : recorded[s] \subseteq recorded'[s]
           /\ Accounted(c)'
           /\ \A d \in Ctr : Accounted(d) => Accounted(d)'
<1> SandboxOf[c] \in Sandbox /\ \A d \in Ctr : SandboxOf[d] \in Sandbox
  BY SandboxOfMaps
<1> QED
  BY DEF recordObserved, InventoryType, Accounted

(* A token more, for somebody, changes no request.                           *)
LEMMA MoreTokens ==
    ASSUME NEW toks, NEW more, toks \subseteq more, NEW rq, NEW ep, NEW rec, RequestsKept(rq, toks, ep, rec)
    PROVE  RequestsKept(rq, more, ep, rec)
<1>1. Waiting(toks) \subseteq Waiting(more) /\ Signing(toks) \subseteq Signing(more)
  BY DEF Waiting, Signing
<1>2. Requests(toks) \subseteq Requests(more)
  BY <1>1 DEF Requests
<1> QED
  BY <1>2 DEF RequestsKept, Kept

(* The steps of the node, which leave the handler's requests, certificates   *)
(* and documents alone, and forget nothing while the process runs.           *)
LEMMA NodeStepInv ==
    ASSUME AttestInv, UNCHANGED <<challenges, docs, req, bound, leaves, vouched, issued, tokens, scene>>,
           NodeKept', epoch' # epoch => epoch' # 0,
           epoch' = epoch => \A s \in Sandbox : recorded[s] \subseteq recorded'[s]
    PROVE  AttestInv'
<1>1. Certified' /\ DocsTyped'
  BY SameLeaves, SameDocs DEF AttestInv
<1>2. ASSUME NEW r, Kept(r, tokens, epoch, recorded)
      PROVE  Kept(r, tokens, epoch', recorded')
  <2>1. r \in Requests(tokens) /\ Checked(r)
    BY <1>2 DEF Kept
  <2>2. r.pc \in Early /\ r.token # None => r.token.sandbox \in Sandbox
    <3> SUFFICES ASSUME r.pc \in Early, r.token # None PROVE r.token.sandbox \in Sandbox
      BY SMTT(40)
    <3>1. r \in Waiting(tokens)
      BY <2>1, RequestShapes
    <3>2. r.token \in tokens
      BY <3>1 DEF Waiting
    <3> QED
      BY <3>2, SandboxOfMaps DEF AttestInv, TokenKept
  <2>3. Saw(r, epoch', recorded')
    BY <1>2, <2>2 DEF Kept, Saw
  <2> QED
    BY SMTT(40), <2>1, <2>3 DEF Kept
<1>3. RequestsKept(req, tokens, epoch', recorded')
  BY <1>2 DEF AttestInv, RequestsKept
<1>4. /\ challenges' = challenges /\ issued' = issued /\ tokens' = tokens /\ req' = req /\ leaves' = leaves
      /\ challenges \subseteq issued /\ \A t \in tokens : TokenKept(t)
      /\ Owned(req, leaves, issued, challenges)
  BY DEF AttestInv
<1> QED
  BY <1>1, <1>3, <1>4 DEF AttestInv

(* A container that starts, or is found again, is recorded with its pod. *)
LEMMA LaunchInv ==
    ASSUME NEW c \in Ctr, AttestInv, Launch(c) \/ Resync(c), UNCHANGED scene
    PROVE  AttestInv'
<1>1. /\ recordObserved(c, TRUE) /\ running' \in {running, running \union {c}} /\ epoch' = epoch
      /\ UNCHANGED <<challenges, docs, req, bound, leaves, vouched, issued, tokens>>
  BY ZenonT(40) DEF Launch, Resync, cds
<1>2. NodeKept /\ InventoryType
  BY DEF AttestInv, NodeKept
<1>3. InventoryType' /\ \A s \in Sandbox : recorded[s] \subseteq recorded'[s]
  BY ZenonT(40), <1>1, <1>2, RecordAccounts
<1>4. c \in recorded'[SandboxOf[c]] /\ tracked' = tracked \union {c}
  BY <1>1, <1>2, SandboxOfMaps DEF recordObserved, InventoryType
<1>5. NodeKept'
  BY <1>1, <1>2, <1>3, <1>4, SandboxOfMaps DEF NodeKept
<1> QED
  BY <1>1, <1>3, <1>5, NodeStepInv

(* A container that stops is no longer tracked; the record of its pod stays. *)
LEMMA StopInv ==
    ASSUME NEW c \in Ctr, AttestInv, Stop(c), UNCHANGED scene
    PROVE  AttestInv'
<1>1. /\ running' = running \ {c} /\ tracked' = tracked \ {c} /\ UNCHANGED <<recorded, unresolved, epoch>>
      /\ UNCHANGED <<challenges, docs, req, bound, leaves, vouched, issued, tokens>>
  BY DEF Stop, remove, cds
<1>2. NodeKept'
  BY <1>1 DEF AttestInv, NodeKept, InventoryType
<1> QED
  BY <1>1, <1>2, NodeStepInv

(* A plugin that starts again has an empty record and another identity. *)
LEMMA PluginRestartInv ==
    ASSUME AttestInv, PluginRestart, UNCHANGED scene
    PROVE  AttestInv'
<1>1. epoch' = epoch + 1 /\ UNCHANGED <<running, challenges, docs, req, bound, leaves, vouched, issued, tokens>>
  BY DEF PluginRestart, cds
<1>2. NodeKept' /\ epoch' # epoch /\ epoch' # 0
  BY <1>1 DEF PluginRestart, Emptied, Empty, AttestInv, NodeKept, InventoryType
<1> QED
  BY <1>1, <1>2, NodeStepInv

(* A new challenge is nobody's yet. *)
LEMMA GetChallengeInv ==
    ASSUME NEW n, AttestInv, GetChallenge(n), UNCHANGED scene
    PROVE  AttestInv'
<1>1. /\ n \notin issued /\ issued' = issued \union {n} /\ challenges' = challenges \union {n}
      /\ UNCHANGED <<tracked, recorded, unresolved, running, epoch, docs, req, bound, leaves, vouched, tokens>>
  BY SMTT(40) DEF GetChallenge, nodeVars, inventory
<1>2. NodeKept' /\ DocsTyped' /\ Certified'
  BY SMTT(40), <1>1, SameNode, SameDocs, SameLeaves DEF AttestInv
<1>3. Owned(req, leaves, issued', challenges')
  BY <1>1 DEF AttestInv, Owned
<1> QED
  BY SMTT(40), <1>1, <1>2, <1>3 DEF AttestInv

(* A token names the pod of the key it was asked with. *)
LEMMA GetTokenInv ==
    ASSUME NEW r \in Ctr, NEW n, AttestInv, GetToken(r, n), UNCHANGED scene
    PROVE  AttestInv'
<1> DEFINE t == [sandbox |-> SandboxOf[r], key |-> r, nonce |-> n, signer |-> epoch]
<1>1. /\ tokens' = tokens \union {t}
      /\ UNCHANGED <<tracked, recorded, unresolved, running, epoch, challenges, docs, req, bound, leaves,
                     vouched, issued>>
  BY DEF GetToken, SandboxForPeer, nodeVars, inventory, cds
<1>2. TokenKept(t)
  BY SMTT(40) DEF TokenKept
<1> HIDE DEF t
<1>3. NodeKept' /\ DocsTyped'
  BY SMTT(40), <1>1, SameNode, SameDocs DEF AttestInv
<1>4. Certified'
  <2>1. LeafNamesItsPod'
    BY SMTT(40), <1>1 DEF AttestInv, Certified, LeafNamesItsPod
  <2>2. StampTruthful'
    BY <1>1 DEF AttestInv, Certified, StampTruthful
  <2> QED
    BY SMTT(40), <1>1, <2>1, <2>2 DEF AttestInv, Certified
<1>5. RequestsKept(req, tokens', epoch, recorded)
  BY <1>1, MoreTokens DEF AttestInv
<1> QED
  BY <1>1, <1>2, <1>3, <1>4, <1>5 DEF AttestInv

(* A node before any request. *)
LEMMA AttestInitInv == AttestInit => AttestInv
<1> SUFFICES ASSUME AttestInit PROVE AttestInv
  OBVIOUS
<1>1. PICK d \in scene.docs : docs = <<d>>
  BY DEF AttestInit
<1>2. DocsTyped
  <2>1. docs \in Seq(scene.docs) /\ Len(docs) = 1
    BY ZenonT(40), <1>1, OneElement
  <2> QED
    BY <2>1 DEF DocsTyped, AttestInit
<1>3. NodeKept
  BY DEF AttestInit, newAdmissionInventory, Empty, InventoryType, NodeKept
<1>4. Certified
  BY DEF AttestInit, Certified, LeafNamesItsPod, StampTruthful
<1>5. Kept(Idle, tokens, epoch, recorded) /\ ~InFlight(Idle)
  BY DEF Kept, Requests, Checked, Saw, InFlight, Early, Idle
<1>6. DOMAIN req = Req /\ \A q \in Req : req[q] = Idle
  BY DEF AttestInit
<1>7. RequestsKept(req, tokens, epoch, recorded)
  BY <1>5, <1>6 DEF RequestsKept
<1>8. Owned(req, leaves, issued, challenges)
  BY SMTT(40), <1>5, <1>6 DEF Owned, AttestInit
<1> QED
  BY <1>2, <1>3, <1>4, <1>7, <1>8 DEF AttestInv, AttestInit

(* Every step of the handler, of the node and of the operator keeps the      *)
(* invariant.                                                                *)
LEMMA AttestNextInv == ASSUME AttestInv, AttestNext PROVE AttestInv'
<1>1. scene.ctrs \subseteq Ctr /\ Asking \subseteq Ctr /\ scene.reqs \subseteq Req /\ UNCHANGED scene
  BY ZenonT(40), ScenesAreFinite DEF AttestNext, AttestInv, DocsTyped, Asking
<1>2. ASSUME NEW c \in scene.ctrs, Launch(c) \/ Stop(c) \/ Resync(c) PROVE AttestInv'
  BY <1>1, <1>2, LaunchInv, StopInv
<1>3. ASSUME PluginRestart \/ CdsRestart PROVE AttestInv'
  BY SMTT(40), <1>1, <1>3, PluginRestartInv, CdsRestartInv
<1>4. ASSUME NEW n, GetChallenge(n) \/ \E r \in Asking : GetToken(r, n) PROVE AttestInv'
  BY SMTT(40), <1>1, <1>4, GetChallengeInv, GetTokenInv
<1>5. ASSUME NEW q \in scene.reqs, \E r \in Asking, n \in Nonce, t \in tokens \union {None} : HandleAttest(q, r, n, t)
      PROVE  AttestInv'
  BY SMTT(40), <1>1, <1>5, HandleAttestInv
<1>6. ASSUME NEW q \in scene.reqs, verifySandboxToken(q) \/ VerifyEnforced(q) \/ FetchSandbox(q) \/ SignCSR(q)
      PROVE  AttestInv'
  BY SMTT(40), <1>1, <1>6, VerifyInv, FetchSandboxInv, SignCSRInv
<1>7. ASSUME NEW d \in scene.docs, Edit(d) PROVE AttestInv'
  BY SMTT(40), <1>1, <1>7, EditInv
<1> QED
  BY SMTT(40), <1>2, <1>3, <1>4, <1>5, <1>6, <1>7 DEF AttestNext

(* The invariant is about attestVars only. *)
LEMMA AttestStutterInv == ASSUME AttestInv, UNCHANGED attestVars PROVE AttestInv'
<1>1. /\ UNCHANGED <<tracked, recorded, unresolved, running, epoch>>
      /\ UNCHANGED <<leaves, docs, bound, vouched, tokens>>
      /\ UNCHANGED <<scene, docs>> /\ UNCHANGED <<req, issued, challenges>>
  BY SMTT(40) DEF attestVars, nodeVars, inventory, cds
<1> QED
  BY SMTT(40), <1>1, SameNode, SameDocs, SameLeaves DEF AttestInv

(* The inductive invariant holds in every state of CDS and its node. *)
LEMMA AttestInvariance == AttestSpec => []AttestInv
  BY AttestInitInv, AttestNextInv, AttestStutterInv, PTL DEF AttestSpec

(* attest.go:148, 262, 353: for any number of requesters, challenges and     *)
(* requests in flight: a challenge buys at most one certificate, a sandbox   *)
(* on it is its key holder's, and no sandbox is bound before it is vouched.  *)
THEOREM LeavesNameTheirPods == AttestSpec => []LeafNamesItsPod
<1>1. AttestInv => LeafNamesItsPod
  BY DEF AttestInv, Certified
<1> QED
  BY <1>1, AttestInvariance, PTL

(* attest.go:414, docs/secrets.md:448: for every allowlist and every order   *)
(* of edits, starts and stops: a certificate's name is the only entry of the *)
(* document it carries that accounts for the pod, and the answer it rests on *)
(* leaves out nothing that ran under the first plugin process.               *)
THEOREM StampsAreTruthful == AttestSpec => []StampTruthful
<1>1. AttestInv => StampTruthful
  BY DEF AttestInv, Certified
<1> QED
  BY <1>1, AttestInvariance, PTL

===============================================================================
