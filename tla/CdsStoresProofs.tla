----------------------------- MODULE CdsStoresProofs -----------------------------
(***************************************************************************)
(* The stores CDS keeps in memory, for any sizes, limits and lifetimes: a  *)
(* challenge is redeemed once, a sandbox is believed of one host, and a    *)
(* path keeps its first secret and is charged to its holder.               *)
(***************************************************************************)
EXTENDS ChallengeStore, SandboxLedger, SecretStore, FiniteSetTheorems, TLAPS

(* The challenge store.  The inductive invariant says that a challenge that   *)
(* Consume has accepted was minted, is out of the map and was accepted once.  *)
(* Nothing about the queue is needed, because each way of making room only    *)
(* ever takes keys out of the map (MakeRoomShrinks).                          *)
ChallengeInv ==
    /\ now \in Int
    /\ accepted \in [Challenge -> Nat]
    /\ minted \subseteq Challenge
    /\ Live \subseteq minted
    /\ \A c \in Live : challenges[c] \in Int
    /\ \A c \in Challenge : accepted[c] > 0 => /\ c \in minted \ Live
                                               /\ accepted[c] = 1

-------------------------------------------------------------------------------
(* challenge.go:64: dropExpired leaves a sub-map. *)
LEMMA DropExpiredShrinks ==
    ASSUME NEW st
    PROVE  /\ DOMAIN dropExpired(st).map \subseteq DOMAIN st.map
           /\ \A c \in DOMAIN dropExpired(st).map : dropExpired(st).map[c] = st.map[c]
  BY DEF dropExpired, Without

(* challenge.go:79: compact leaves a sub-map. *)
LEMMA CompactShrinks ==
    ASSUME NEW st
    PROVE  /\ DOMAIN compact(st).map \subseteq DOMAIN st.map
           /\ \A c \in DOMAIN compact(st).map : compact(st).map[c] = st.map[c]
  BY DEF compact, Without

(* challenge.go:96: dropOldest leaves a sub-map. *)
LEMMA DropOldestShrinks ==
    ASSUME NEW st
    PROVE  /\ DOMAIN dropOldest(st).map \subseteq DOMAIN st.map
           /\ \A c \in DOMAIN dropOldest(st).map : dropOldest(st).map[c] = st.map[c]
  BY DEF dropOldest, Without

(* challenge.go:39: whatever Create drops to make room, the map it inserts   *)
(* into is a sub-map of the one it found.                                    *)
LEMMA MakeRoomShrinks ==
    /\ DOMAIN MakeRoom.map \subseteq Live
    /\ \A c \in DOMAIN MakeRoom.map : MakeRoom.map[c] = challenges[c]
  <1> DEFINE s == [map |-> challenges, queue |-> issued]
             a == dropExpired(s)
             b == IF Len(a.queue) >= 2 * MaxChallenges THEN compact(a) ELSE a
             r == IF Cardinality(DOMAIN b.map) >= MaxChallenges THEN dropOldest(b) ELSE b
  <1>1. MakeRoom = r
    BY DEF MakeRoom
  <1>2. s.map = challenges
    OBVIOUS
  <1> HIDE DEF s
  <1>3. DOMAIN a.map \subseteq Live /\ \A c \in DOMAIN a.map : a.map[c] = challenges[c]
    BY <1>2, DropExpiredShrinks DEF Live
  <1> HIDE DEF a
  <1>4. DOMAIN b.map \subseteq Live /\ \A c \in DOMAIN b.map : b.map[c] = challenges[c]
    BY <1>3, CompactShrinks
  <1> HIDE DEF b
  <1>5. DOMAIN r.map \subseteq Live /\ \A c \in DOMAIN r.map : r.map[c] = challenges[c]
    BY <1>4, DropOldestShrinks
  <1> QED
    BY <1>1, <1>5

-------------------------------------------------------------------------------
(* The initial store satisfies the invariant. *)
LEMMA ChallengeInitInv == ChallengeInit => ChallengeInv
  BY DEF ClockInit, ChallengeInit, ChallengeInv, Live

(* Create adds one challenge never minted before to a sub-map. *)
LEMMA CreateInv ==
    ASSUME ChallengeInv, NEW c \in Challenge, Create(c)
    PROVE  ChallengeInv'
  <1>1. /\ DOMAIN challenges' = DOMAIN MakeRoom.map \union {c}
        /\ \A d \in DOMAIN challenges' : d # c => challenges'[d] = MakeRoom.map[d]
        /\ challenges'[c] = now
    BY DEF Create
  <1>2. c \notin minted /\ minted' = minted \union {c} /\ UNCHANGED <<now, accepted>>
    BY DEF Create
  <1>3. DOMAIN challenges' \subseteq Live \union {c}
    BY <1>1, MakeRoomShrinks
  <1>4. \A d \in DOMAIN challenges' : challenges'[d] \in Int
    BY <1>1, MakeRoomShrinks DEF ChallengeInv
  <1> QED
    BY <1>2, <1>3, <1>4 DEF ChallengeInv, Live

(* Consume takes the challenge out of the map whatever it answers. *)
LEMMA ConsumeInv ==
    ASSUME ChallengeInv, NEW c \in Challenge, Consume(c)
    PROVE  ChallengeInv'
  <1>1. /\ DOMAIN challenges' = Live \ {c}
        /\ \A d \in DOMAIN challenges' : challenges'[d] = challenges[d]
    BY DEF Consume, Without, Live
  <1>2. accepted' = [accepted EXCEPT ![c] = @ + (IF Fresh(c) THEN 1 ELSE 0)]
    BY DEF Consume
  <1>3. CASE Fresh(c)
    <2>1. accepted[c] = 0
      BY <1>3 DEF ChallengeInv, Fresh
    <2>2. accepted' = [accepted EXCEPT ![c] = 1] /\ c \in Live
      BY <1>2, <1>3, <2>1 DEF ChallengeInv, Fresh
    <2>3. accepted' \in [Challenge -> Nat] /\ UNCHANGED <<now, minted>>
      BY <2>2 DEF ChallengeInv, Consume
    <2>4. \A d \in Challenge : accepted'[d] > 0 => d \in minted \ Live' /\ accepted'[d] = 1
      BY <1>1, <2>2 DEF ChallengeInv, Live
    <2> QED
      BY <1>1, <2>3, <2>4 DEF ChallengeInv, Live
  <1>4. CASE ~Fresh(c)
    <2>1. accepted' = accepted
      BY <1>2, <1>4 DEF ChallengeInv
    <2> QED
      BY ZenonT(40), <1>1, <2>1 DEF ChallengeInv, Live, Consume
  <1> QED
    BY <1>3, <1>4

(* Every step keeps the invariant. *)
LEMMA ChallengeNextInv ==
    ASSUME ChallengeInv, [ChallengeNext]_challengeVars
    PROVE  ChallengeInv'
  <1>1. CASE ChallengeTick
    BY <1>1 DEF Advance, ChallengeTick, ChallengeInv, Live
  <1>2. CASE ChallengeRestart
    BY <1>2 DEF ChallengeRestart, ChallengeInv, Live
  <1>3. CASE \E c \in Challenge : Create(c) \/ Consume(c)
    BY <1>3, CreateInv, ConsumeInv
  <1>4. CASE UNCHANGED challengeVars
    BY <1>4 DEF challengeVars, ChallengeInv, Live
  <1> QED
    BY <1>1, <1>2, <1>3, <1>4 DEF ChallengeNext

(* The invariant holds in every reachable state. *)
THEOREM ChallengesInvariant == ChallengeSpec => []ChallengeInv
  BY ChallengeInitInv, ChallengeNextInv, PTL DEF ChallengeSpec

(* challenge.go:9: no sequence of creations, evictions, compactions and      *)
(* restarts lets Consume accept a challenge twice.                           *)
THEOREM ConsumeOnce == ChallengeSpec => []SingleUse
  <1>1. ChallengeInv => SingleUse
    BY DEF ChallengeInv, SingleUse
  <1> QED
    BY <1>1, ChallengesInvariant, PTL

-------------------------------------------------------------------------------
(* ChallengesAreNonces.  The nonces that Consume would accept now are the live        *)
(* unexpired challenges; the spent ones are those it accepted.               *)
Outstanding == {c \in Live : Fresh(c)}
Spent == {c \in Challenge : accepted[c] > 0}

(* The clock and a restart only ever forget challenges. *)
LEMMA TickForgets ==
    ASSUME ChallengeInv, ChallengeTick \/ ChallengeRestart
    PROVE  Outstanding' \subseteq Outstanding /\ UNCHANGED Spent
  <1>1. CASE ChallengeTick
    <2>1. /\ now' = now + 1 /\ challenges' = challenges /\ accepted' = accepted
      BY <1>1 DEF Advance, ChallengeTick
    <2>2. \A c \in Live : Fresh(c)' => Fresh(c)
      BY <2>1, ChallengeAssumption DEF Fresh, Live, ChallengeInv
    <2> QED
      BY <2>1, <2>2 DEF Outstanding, Spent, Live
  <1>2. CASE ChallengeRestart
    BY <1>2 DEF ChallengeRestart, Outstanding, Spent, Live
  <1> QED
    BY <1>1, <1>2

(* Create issues a nonce neither outstanding nor spent and may forget others. *)
LEMMA CreateIssues ==
    ASSUME ChallengeInv, NEW c \in Challenge, Create(c)
    PROVE  N!Issue(c)
  <1>1. /\ DOMAIN challenges' = DOMAIN MakeRoom.map \union {c}
        /\ \A d \in DOMAIN challenges' : d # c => challenges'[d] = MakeRoom.map[d]
        /\ challenges'[c] = now
    BY DEF Create
  <1>2. c \notin minted /\ UNCHANGED <<now, accepted>>
    BY DEF Create
  <1>3. c \notin Outstanding \union Spent
    BY <1>2 DEF ChallengeInv, Outstanding, Spent
  <1>4. now - now < ChallengeTTL
    BY ChallengeAssumption DEF ChallengeInv
  <1>5. c \in Outstanding'
    BY <1>1, <1>2, <1>4 DEF Outstanding, Fresh, Live
  <1>6. ASSUME NEW d \in Outstanding', d # c
        PROVE  d \in Outstanding
    BY <1>1, <1>2, <1>6, MakeRoomShrinks DEF Outstanding, Fresh, Live
  <1>7. Outstanding' \ {c} \in SUBSET Outstanding /\ Outstanding' = (Outstanding' \ {c}) \union {c}
    BY <1>5, <1>6
  <1>8. UNCHANGED Spent
    BY <1>2 DEF Spent
  <1> QED
    BY ZenonT(40), <1>3, <1>7, <1>8 DEF N!Issue, Outstanding, Spent

(* Consume redeems an outstanding nonce or forgets an expired one. *)
LEMMA ConsumeRedeems ==
    ASSUME ChallengeInv, NEW c \in Challenge, Consume(c)
    PROVE  N!Redeem(c) \/ N!Forget
  <1>1. /\ DOMAIN challenges' = Live \ {c}
        /\ \A d \in DOMAIN challenges' : challenges'[d] = challenges[d]
        /\ now' = now
    BY DEF Consume, Without, Live
  <1>2. accepted' = [accepted EXCEPT ![c] = @ + (IF Fresh(c) THEN 1 ELSE 0)]
    BY DEF Consume
  <1>3. Outstanding' = Outstanding \ {c}
    BY <1>1 DEF Outstanding, Fresh, Live
  <1>4. CASE Fresh(c)
    <2>1. c \in Outstanding
      BY <1>4 DEF Outstanding, Fresh
    <2>2. \A d \in Challenge : accepted'[d] > 0 <=> d = c \/ accepted[d] > 0
      BY <1>2, <1>4 DEF ChallengeInv
    <2>3. Spent' = Spent \union {c}
      BY <2>2 DEF Spent
    <2> QED
      BY <1>3, <2>1, <2>3 DEF N!Redeem, Outstanding, Spent
  <1>5. CASE ~Fresh(c)
    <2>1. accepted' = accepted
      BY <1>2, <1>5 DEF ChallengeInv
    <2>2. UNCHANGED Spent
      BY <2>1 DEF Spent
    <2> QED
      BY <1>3, <2>2 DEF N!Forget, Outstanding, Spent
  <1> QED
    BY <1>4, <1>5

(* challenge.go: for the handlers the store is a NonceStore; the map, the    *)
(* queue, the cap and the clock only decide which nonces are forgotten.      *)
THEOREM ChallengesAreNonces == ChallengeSpec => ImplementsNonceStore
  <1>1. ChallengeInit => N!Init
    BY DEF ChallengeInit, N!Init, Live
  <1>2. ASSUME ChallengeInv, [ChallengeNext]_challengeVars
        PROVE  [N!Next]_(N!vars)
    <2>1. CASE ChallengeTick \/ ChallengeRestart
      BY <1>2, <2>1, TickForgets DEF N!Next, N!Forget, Outstanding, Spent
    <2>2. CASE \E c \in Challenge : Create(c) \/ Consume(c)
      BY <1>2, <2>2, CreateIssues, ConsumeRedeems DEF N!Next
    <2>3. CASE UNCHANGED challengeVars
      BY <2>3 DEF challengeVars, N!vars, Live, Fresh
    <2> QED
      BY <1>2, <2>1, <2>2, <2>3 DEF ChallengeNext
  <1> QED
    BY <1>1, <1>2, ChallengesInvariant, PTL DEF ChallengeSpec, ImplementsNonceStore, N!Spec

-------------------------------------------------------------------------------
(* The sandbox ledger.  PromiseKept speaks of what Lookup answers, which      *)
(* eviction could change; its inductive form (Kept) says that an unexpired    *)
(* promise is literally still in the map.                                     *)
Typed ==
    /\ now \in Nat
    /\ DOMAIN bindings \subseteq Sandbox
    /\ \A s \in DOMAIN bindings : bindings[s].host \in Host /\ bindings[s].expires \in Int
    /\ DOMAIN promised = Sandbox
    /\ \A s \in Sandbox : promised[s].expires \in Int

Kept == \A s \in Sandbox :
            now < promised[s].expires => s \in DOMAIN bindings /\ bindings[s] = promised[s]

FiniteCapped == IsFiniteSet(DOMAIN bindings) /\ Cardinality(DOMAIN bindings) <= MaxBindings

LedgerInv == Typed /\ Kept /\ FiniteCapped

-------------------------------------------------------------------------------
(* ledger.go:113: eviction keeps exactly the unexpired bindings. *)
LEMMA EvictionKeeps ==
    /\ DOMAIN evictExpired = {s \in DOMAIN bindings : Unexpired(s)}
    /\ \A s \in DOMAIN evictExpired : evictExpired[s] = bindings[s]
  BY DEF evictExpired

(* ledger.go:81: the map Record writes into is a sub-map that still holds    *)
(* every unexpired binding.                                                  *)
LEMMA SweptKeeps ==
    ASSUME NEW s
    PROVE  /\ DOMAIN Swept(s) \subseteq DOMAIN bindings
           /\ \A t \in DOMAIN Swept(s) : Swept(s)[t] = bindings[t]
           /\ \A t \in DOMAIN bindings : Unexpired(t) => t \in DOMAIN Swept(s)
  BY EvictionKeeps DEF Swept

(* A sub-map with every unexpired binding keeps the promises and the cap. *)
LEMMA SubmapInv ==
    ASSUME LedgerInv, UNCHANGED <<now, promised>>,
           DOMAIN bindings' \subseteq DOMAIN bindings,
           \A t \in DOMAIN bindings' : bindings'[t] = bindings[t],
           \A t \in DOMAIN bindings : Unexpired(t) => t \in DOMAIN bindings'
    PROVE  LedgerInv'
  <1>1. Typed'
    BY DEF LedgerInv, Typed
  <1>2. Kept'
    <2> SUFFICES ASSUME NEW s \in Sandbox, now < promised[s].expires
                 PROVE  s \in DOMAIN bindings' /\ bindings'[s] = promised[s]
      BY DEF Kept
    <2>1. s \in DOMAIN bindings /\ bindings[s] = promised[s]
      BY DEF LedgerInv, Kept
    <2>2. Unexpired(s)
      BY <2>1 DEF Unexpired, Bound
    <2> QED
      BY <2>1, <2>2
  <1>3. FiniteCapped'
    <2>1. /\ IsFiniteSet(DOMAIN bindings')
          /\ Cardinality(DOMAIN bindings') <= Cardinality(DOMAIN bindings)
      BY FS_Subset DEF LedgerInv, FiniteCapped
    <2>2. Cardinality(DOMAIN bindings') \in Nat /\ Cardinality(DOMAIN bindings) \in Nat
      BY <2>1, FS_CardinalityType DEF LedgerInv, FiniteCapped
    <2> QED
      BY <2>1, <2>2, LedgerAssumption DEF LedgerInv, FiniteCapped
  <1> QED
    BY <1>1, <1>2, <1>3 DEF LedgerInv

(* ledger.go:68: a successful Record.  The binding it writes is the one it   *)
(* promises, and it is new only if the swept map had room.                   *)
LEMMA BindInv ==
    ASSUME LedgerInv, NEW s \in Sandbox, NEW h \in Host, UNCHANGED now, ~Full(s),
           bindings' = Bind(Swept(s), s, h),
           promised' = [promised EXCEPT ![s] = [host |-> h, expires |-> now + BindingTTL]]
    PROVE  LedgerInv'
  <1>1. /\ DOMAIN bindings' = DOMAIN Swept(s) \union {s}
        /\ bindings'[s] = [host |-> h, expires |-> now + BindingTTL]
        /\ \A t \in DOMAIN Swept(s) : t # s => bindings'[t] = bindings[t]
    BY SweptKeeps DEF Bind
  <1>2. /\ promised'[s] = [host |-> h, expires |-> now + BindingTTL]
        /\ \A t \in Sandbox : t # s => promised'[t] = promised[t]
        /\ DOMAIN promised' = Sandbox
    BY DEF LedgerInv, Typed
  <1>3. Typed'
    <2>1. now + BindingTTL \in Int
      BY LedgerAssumption DEF LedgerInv, Typed
    <2> QED
      BY <1>1, <1>2, <2>1, SweptKeeps DEF LedgerInv, Typed
  <1>4. Kept'
    <2> SUFFICES ASSUME NEW t \in Sandbox, now < promised'[t].expires, t # s
                 PROVE  t \in DOMAIN bindings' /\ bindings'[t] = promised'[t]
      BY <1>1, <1>2 DEF Kept
    <2>1. t \in DOMAIN bindings /\ bindings[t] = promised[t]
      BY <1>2 DEF LedgerInv, Kept
    <2>2. Unexpired(t)
      BY <1>2, <2>1 DEF Unexpired, Bound
    <2> QED
      BY <1>1, <1>2, <2>1, <2>2, SweptKeeps
  <1>5. FiniteCapped'
    <2>1. IsFiniteSet(DOMAIN Swept(s)) /\ Cardinality(DOMAIN Swept(s)) <= Cardinality(DOMAIN bindings)
      BY SweptKeeps, FS_Subset DEF LedgerInv, FiniteCapped
    <2>2. Cardinality(DOMAIN Swept(s)) \in Nat /\ Cardinality(DOMAIN bindings) \in Nat
      BY <2>1, FS_CardinalityType DEF LedgerInv, FiniteCapped
    <2>3. /\ IsFiniteSet(DOMAIN bindings')
          /\ Cardinality(DOMAIN bindings') = IF s \in DOMAIN Swept(s) THEN Cardinality(DOMAIN Swept(s))
                                             ELSE Cardinality(DOMAIN Swept(s)) + 1
      BY <1>1, <2>1, FS_AddElement
    <2>4. CASE s \in DOMAIN bindings
      <3>1. DOMAIN Swept(s) = DOMAIN bindings
        BY <2>4 DEF Swept, Bound
      <3> QED
        BY <2>3, <2>4, <3>1 DEF LedgerInv, FiniteCapped
    <2>5. CASE s \notin DOMAIN bindings
      <3>1. Cardinality(DOMAIN Swept(s)) < MaxBindings
        BY <2>2, <2>5, LedgerAssumption DEF Full, Bound
      <3> QED
        BY <2>2, <2>3, <3>1, LedgerAssumption DEF FiniteCapped
    <2> QED
      BY <2>4, <2>5
  <1> QED
    BY <1>3, <1>4, <1>5 DEF LedgerInv

(* The empty ledger satisfies the invariant. *)
LEMMA LedgerInitInv == LedgerInit => LedgerInv
  <1> SUFFICES ASSUME LedgerInit PROVE LedgerInv
    OBVIOUS
  <1>1. DOMAIN bindings = {} /\ now = 0 /\ promised = [s \in Sandbox |-> NoBinding]
    BY DEF ClockInit, LedgerInit
  <1>2. IsFiniteSet({}) /\ Cardinality({}) = 0
    BY FS_EmptySet
  <1>3. Typed /\ Kept
    BY <1>1 DEF Typed, Kept, NoBinding
  <1> QED
    BY <1>1, <1>2, <1>3, LedgerAssumption DEF LedgerInv, FiniteCapped

(* A restart is the initial state but for the clock. *)
LEMMA RestartInv ==
    ASSUME LedgerInv, LedgerRestart, UNCHANGED now
    PROVE  LedgerInv'
  <1>1. DOMAIN bindings' = {} /\ promised' = [s \in Sandbox |-> NoBinding] /\ now' = now
    BY DEF LedgerRestart
  <1>2. IsFiniteSet({}) /\ Cardinality({}) = 0
    BY FS_EmptySet
  <1>3. Typed'
    BY <1>1 DEF LedgerInv, Typed, NoBinding
  <1>4. Kept'
    BY <1>1 DEF LedgerInv, Typed, Kept, NoBinding
  <1>5. FiniteCapped'
    BY <1>1, <1>2, LedgerAssumption DEF FiniteCapped
  <1> QED
    BY <1>3, <1>4, <1>5 DEF LedgerInv

(* Record: refused by a conflict, refused by a full map, or successful. *)
LEMMA RecordInv ==
    ASSUME LedgerInv, NEW s \in Sandbox, NEW h \in Host, Record(s, h), UNCHANGED now
    PROVE  LedgerInv'
  <1>1. CASE UNCHANGED <<bindings, promised>>
    BY <1>1, SubmapInv
  <1>2. CASE bindings' = Swept(s) /\ UNCHANGED promised
    BY <1>2, SweptKeeps, SubmapInv
  <1>3. CASE /\ ~Full(s) /\ bindings' = Bind(Swept(s), s, h)
             /\ promised' = [promised EXCEPT ![s] = [host |-> h, expires |-> now + BindingTTL]]
    BY ZenonT(40), <1>3, BindInv
  <1> QED
    BY <1>1, <1>2, <1>3 DEF Record

(* Every step keeps the invariant. *)
LEMMA LedgerNextInv ==
    ASSUME LedgerInv, [LedgerNext]_ledgerVars
    PROVE  LedgerInv'
  <1>1. CASE LedgerTick
    <2>1. now' = now + 1 /\ UNCHANGED <<bindings, promised>>
      BY <1>1 DEF Advance, LedgerTick
    <2>2. Typed' /\ Kept'
      BY <2>1 DEF LedgerInv, Typed, Kept
    <2> QED
      BY <2>1, <2>2 DEF LedgerInv, FiniteCapped
  <1>2. CASE (\E s \in Sandbox, h \in Host : Record(s, h)) /\ UNCHANGED now
    BY <1>2, RecordInv
  <1>3. CASE EvictionLoop /\ UNCHANGED now
    BY <1>3, EvictionKeeps, SubmapInv DEF EvictionLoop
  <1>4. CASE LedgerRestart /\ UNCHANGED now
    BY <1>4, RestartInv
  <1>5. CASE UNCHANGED ledgerVars
    BY <1>5, SubmapInv DEF ledgerVars
  <1> QED
    BY <1>1, <1>2, <1>3, <1>4, <1>5 DEF LedgerNext

(* The invariant holds in every reachable state. *)
THEOREM LedgerInvariant == LedgerSpec => []LedgerInv
  BY LedgerInitInv, LedgerNextInv, PTL DEF LedgerSpec

(* ledger.go:36: the map never outgrows its cap. *)
THEOREM CapHolds == LedgerSpec => []Capped
  <1>1. LedgerInv => Capped
    BY DEF LedgerInv, FiniteCapped, Capped
  <1> QED
    BY <1>1, LedgerInvariant, PTL

(* ledger.go:57: no other Record, refusal or eviction takes back a binding   *)
(* Record reported, before its TTL ends.                                     *)
THEOREM PromiseHolds == LedgerSpec => []PromiseKept
  <1>1. LedgerInv => PromiseKept
    BY DEF LedgerInv, Kept, PromiseKept, Lookup, Unexpired, Bound
  <1> QED
    BY <1>1, LedgerInvariant, PTL

-------------------------------------------------------------------------------
(* BindingsAreLeases: steps that leave every unexpired binding in place leave the   *)
(* belief about every sandbox alone.                                         *)
LEMMA SubmapSameBelief ==
    ASSUME now' = now,
           DOMAIN bindings' \subseteq DOMAIN bindings,
           \A t \in DOMAIN bindings' : bindings'[t] = bindings[t],
           \A t \in DOMAIN bindings : Unexpired(t) => t \in DOMAIN bindings',
           NEW s
    PROVE  Lookup(s)' = Lookup(s)
  <1>1. Unexpired(s)' <=> Unexpired(s)
    BY DEF Unexpired, Bound
  <1>2. Unexpired(s) => bindings'[s] = bindings[s]
    BY <1>1 DEF Unexpired, Bound
  <1> QED
    BY <1>1, <1>2 DEF Lookup

(* A successful Record grants the sandbox to a host that either already had  *)
(* it or finds nobody believed about it.                                     *)
LEMMA BindGrants ==
    ASSUME LedgerInv, NEW s \in Sandbox, NEW h \in Host, UNCHANGED now,
           ~Conflict(s, h), bindings' = Bind(Swept(s), s, h)
    PROVE  Lease!Grant(s, h)
  <1>1. /\ DOMAIN bindings' = DOMAIN Swept(s) \union {s}
        /\ bindings'[s] = [host |-> h, expires |-> now + BindingTTL]
        /\ \A t \in DOMAIN Swept(s) : t # s => bindings'[t] = bindings[t]
    BY SweptKeeps DEF Bind
  <1>2. Lookup(s) \in {NoHost, h}
    BY DEF Conflict, Lookup
  <1>3. now < now + BindingTTL
    BY LedgerAssumption DEF LedgerInv, Typed
  <1>4. Lookup(s)' = h
    BY <1>1, <1>3 DEF Lookup, Unexpired, Bound
  <1>5. ASSUME NEW t \in Sandbox, t # s
        PROVE  Lookup(t)' = Lookup(t)
    <2>1. Unexpired(t)' <=> Unexpired(t)
      BY <1>1, <1>5, SweptKeeps DEF Unexpired, Bound
    <2>2. Unexpired(t) => bindings'[t] = bindings[t]
      BY <1>1, <1>5, SweptKeeps DEF Unexpired, Bound
    <2> QED
      BY <2>1, <2>2 DEF Lookup
  <1>6. [t \in Sandbox |-> Lookup(t)]' = [[t \in Sandbox |-> Lookup(t)] EXCEPT ![s] = h]
    BY ZenonT(40), <1>4, <1>5
  <1> QED
    BY <1>2, <1>6 DEF Lease!Grant

(* The passage of time and a restart only end beliefs. *)
LEMMA TickLapses ==
    ASSUME LedgerInv, LedgerTick \/ (LedgerRestart /\ UNCHANGED now)
    PROVE  \E S \in SUBSET Sandbox : Lease!Lapse(S)
  <1> DEFINE S == {s \in Sandbox : Lookup(s)' = NoHost}
  <1>1. ASSUME NEW s \in Sandbox, s \notin S
        PROVE  Lookup(s)' = Lookup(s)
    <2>1. CASE LedgerTick
      <3>1. bindings' = bindings /\ now' = now + 1
        BY <2>1 DEF Advance, LedgerTick
      <3>2. Unexpired(s)'
        BY <1>1 DEF Lookup
      <3>3. Unexpired(s)
        BY <3>1, <3>2 DEF Unexpired, Bound, LedgerInv, Typed
      <3> QED
        BY <3>1, <3>2, <3>3 DEF Lookup
    <2>2. CASE LedgerRestart
      BY <1>1, <2>2 DEF LedgerRestart, Lookup, Unexpired, Bound
    <2> QED
      BY <2>1, <2>2
  <1>2. [s \in Sandbox |-> Lookup(s)]' =
            [s \in Sandbox |-> IF s \in S THEN NoHost ELSE [t \in Sandbox |-> Lookup(t)][s]]
    BY <1>1
  <1>3. Lease!Lapse(S)
    BY <1>2 DEF Lease!Lapse
  <1> QED
    BY <1>3

(* ledger.go:76: belief about a sandbox never passes directly from one host  *)
(* to another.                                                               *)
THEOREM BindingsAreLeases == LedgerSpec => ImplementsLease
  <1>1. LedgerInit => Lease!Init
    BY DEF LedgerInit, Lease!Init, Lookup, Unexpired, Bound
  <1>2. ASSUME LedgerInv, [LedgerNext]_ledgerVars
        PROVE  [Lease!Next]_([s \in Sandbox |-> Lookup(s)])
    <2>1. CASE LedgerTick \/ (LedgerRestart /\ UNCHANGED now)
      BY <1>2, <2>1, TickLapses DEF Lease!Next
    <2>2. ASSUME NEW s \in Sandbox, NEW h \in Host, Record(s, h), UNCHANGED now
          PROVE  [Lease!Next]_([t \in Sandbox |-> Lookup(t)])
      <3>1. CASE UNCHANGED bindings
        BY <2>2, <3>1 DEF Lookup, Unexpired, Bound
      <3>2. CASE bindings' = Swept(s)
        BY <2>2, <3>2, SweptKeeps, SubmapSameBelief
      <3>3. CASE ~Conflict(s, h) /\ bindings' = Bind(Swept(s), s, h)
        BY <1>2, <2>2, <3>3, BindGrants DEF Lease!Next
      <3> QED
        BY <2>2, <3>1, <3>2, <3>3 DEF Record
    <2>3. CASE EvictionLoop /\ UNCHANGED now
      BY <2>3, EvictionKeeps, SubmapSameBelief DEF EvictionLoop
    <2>4. CASE UNCHANGED ledgerVars
      BY <2>4 DEF ledgerVars, Lookup, Unexpired, Bound
    <2> QED
      BY <1>2, <2>1, <2>2, <2>3, <2>4 DEF LedgerNext
  <1> QED
    BY <1>1, <1>2, LedgerInvariant, PTL DEF LedgerSpec, ImplementsLease, Lease!Spec

-------------------------------------------------------------------------------
(* The secret store.  The inductive invariant is the conjunction of the type  *)
(* invariant, the accounting and the bounds: the quota is decided on the      *)
(* counts, so the bounds hold only because the counts are right, and the      *)
(* counts stay right only because Put discharges the prior holder of the path *)
(* it overwrites.                                                             *)
SecretInv == SecretTypeOK /\ Accounting /\ WithinBounds

(* A table of positive counts, and what it says of one holder. *)
IsTable(m) == DOMAIN m \subseteq Holder /\ \A g \in DOMAIN m : m[g] \in Nat \ {0}
Count(m, h) == IF h \in DOMAIN m THEN m[h] ELSE 0

-------------------------------------------------------------------------------
(* store.go:211: charging a holder adds one to its count and to no other. *)
LEMMA ChargeCounts ==
    ASSUME NEW m, IsTable(m), NEW h \in Holder
    PROVE  /\ IsTable(Charge(m, h))
           /\ \A g \in Holder : Count(Charge(m, h), g) = Count(m, g) + (IF g = h THEN 1 ELSE 0)
  BY DEF IsTable, Charge, Count

(* store.go:204: discharging takes one off, and drops the holder at zero. *)
LEMMA DischargeCounts ==
    ASSUME IsTable(holders), NEW h \in DOMAIN holders
    PROVE  /\ IsTable(Discharge(h))
           /\ \A g \in Holder : Count(Discharge(h), g) = Paths(g) - (IF g = h THEN 1 ELSE 0)
  BY DEF IsTable, Discharge, Count, Paths

(* The set charged to a holder is finite, and so is its count a number. *)
LEMMA ChargedFinite ==
    ASSUME SecretTypeOK, NEW h
    PROVE  IsFiniteSet(Charged(h)) /\ Cardinality(Charged(h)) \in Nat
  BY FS_Subset, FS_CardinalityType DEF SecretTypeOK, Charged

(* store.go:202: storing a path that is free.  Its holder gains one path. *)
LEMMA StoreNew ==
    ASSUME SecretInv, NEW p \in Path, NEW v \in Value \ Oversized, NEW h \in Holder,
           ~Held(p), store(p, v, h)
    PROVE  /\ SecretTypeOK' /\ Accounting'
           /\ Cardinality(DOMAIN values') = Cardinality(DOMAIN values) + 1
           /\ \A g \in Holder : Paths(g)' = Paths(g) + (IF g = h THEN 1 ELSE 0)
  <1>1. /\ DOMAIN values' = DOMAIN values \union {p}
        /\ values'[p] = [value |-> v, holder |-> h]
        /\ \A q \in DOMAIN values : values'[q] = values[q]
    BY DEF store, Held
  <1>2. holders' = Charge(holders, h)
    BY DEF store
  <1>3. IsTable(holders)
    BY DEF SecretInv, SecretTypeOK, IsTable
  <1>4. IsTable(holders') /\ \A g \in Holder : Paths(g)' = Paths(g) + (IF g = h THEN 1 ELSE 0)
    BY <1>2, <1>3, ChargeCounts DEF Paths, Count
  <1>5. /\ IsFiniteSet(DOMAIN values')
        /\ Cardinality(DOMAIN values') = Cardinality(DOMAIN values) + 1
    BY SMTT(40), <1>1, FS_AddElement DEF SecretInv, SecretTypeOK, Held
  <1>6. SecretTypeOK'
    BY <1>1, <1>4, <1>5 DEF SecretInv, SecretTypeOK, SecretEntry, IsTable
  <1>7. ASSUME NEW g \in Holder
        PROVE  Paths(g)' = Cardinality(Charged(g)')
    <2>1. CASE g = h
      <3>1. Charged(g)' = Charged(g) \union {p} /\ p \notin Charged(g)
        BY <1>1, <2>1 DEF Charged, Held
      <3>2. Cardinality(Charged(g)') = Cardinality(Charged(g)) + 1
        BY SMTT(40), <3>1, ChargedFinite, FS_AddElement DEF SecretInv
      <3> QED
        BY <1>4, <2>1, <3>2 DEF SecretInv, Accounting
    <2>2. CASE g # h
      <3>1. Charged(g)' = Charged(g)
        BY <1>1, <2>2 DEF Charged, Held
      <3>2. Paths(g) \in Nat
        BY ChargedFinite DEF SecretInv, Accounting
      <3> QED
        BY <1>4, <2>2, <3>1, <3>2 DEF SecretInv, Accounting
    <2> QED
      BY <2>1, <2>2
  <1> QED
    BY <1>4, <1>5, <1>6, <1>7 DEF Accounting

(* store.go:202: storing over a held path.  Its prior holder loses it, and   *)
(* the number of paths is unchanged.                                         *)
LEMMA StoreOver ==
    ASSUME SecretInv, NEW p \in Path, NEW v \in Value \ Oversized, NEW h \in Holder,
           Held(p), store(p, v, h)
    PROVE  /\ SecretTypeOK' /\ Accounting'
           /\ DOMAIN values' = DOMAIN values
           /\ \A g \in Holder : g # h => Charged(g)' \subseteq Charged(g)
  <1> DEFINE o == values[p].holder
  <1>1. /\ DOMAIN values' = DOMAIN values
        /\ values'[p] = [value |-> v, holder |-> h]
        /\ \A q \in DOMAIN values : q # p => values'[q] = values[q]
    BY SMTT(40) DEF store, Held
  <1>2. holders' = Charge(Discharge(o), h)
    BY DEF store
  <1>3. o \in Holder /\ p \in Charged(o) /\ IsTable(holders)
    BY DEF SecretInv, SecretTypeOK, IsTable, Held, SecretEntry, Charged
  <1>4. Cardinality(Charged(o)) # 0
    BY <1>3, ChargedFinite, FS_EmptySet DEF SecretInv
  <1>5. o \in DOMAIN holders
    BY <1>3, <1>4 DEF SecretInv, Accounting, Paths
  <1>6. /\ IsTable(Discharge(o))
        /\ \A g \in Holder : Count(Discharge(o), g) = Paths(g) - (IF g = o THEN 1 ELSE 0)
    BY SMTT(40), <1>3, <1>5, DischargeCounts
  <1>7. /\ IsTable(holders')
        /\ \A g \in Holder : Paths(g)' = Paths(g) - (IF g = o THEN 1 ELSE 0) + (IF g = h THEN 1 ELSE 0)
    BY SMTT(40), <1>2, <1>6, ChargeCounts DEF Paths, Count
  <1>8. SecretTypeOK'
    BY <1>1, <1>7 DEF SecretInv, SecretTypeOK, SecretEntry, IsTable
  <1>9. ASSUME NEW g \in Holder
        PROVE  Paths(g)' = Cardinality(Charged(g)')
    <2>1. Paths(g) = Cardinality(Charged(g)) /\ Cardinality(Charged(g)) \in Nat /\ IsFiniteSet(Charged(g))
      BY ChargedFinite DEF SecretInv, Accounting
    <2>2. CASE g = o /\ g = h
      <3>1. Charged(g)' = Charged(g)
        BY <1>1, <1>3, <2>2 DEF Charged
      <3> QED
        BY SMTT(40), <1>7, <2>1, <2>2, <3>1
    <2>3. CASE g = o /\ g # h
      <3>1. Charged(g)' = Charged(g) \ {p}
        BY SMTT(40), <1>1, <1>3, <2>3 DEF Charged
      <3>2. Cardinality(Charged(g)') = Cardinality(Charged(g)) - 1
        BY ZenonT(40), <1>3, <2>1, <2>3, <3>1, FS_RemoveElement
      <3> QED
        BY <1>7, <2>1, <2>3, <3>2
    <2>4. CASE g # o /\ g = h
      <3>1. Charged(g)' = Charged(g) \union {p} /\ p \notin Charged(g)
        BY <1>1, <2>4 DEF Charged, Held
      <3>2. Cardinality(Charged(g)') = Cardinality(Charged(g)) + 1
        BY SMTT(40), <2>1, <3>1, FS_AddElement
      <3> QED
        BY <1>7, <2>1, <2>4, <3>2
    <2>5. CASE g # o /\ g # h
      <3>1. Charged(g)' = Charged(g)
        BY <1>1, <2>5 DEF Charged, Held
      <3> QED
        BY <1>7, <2>1, <2>5, <3>1
    <2> QED
      BY <2>2, <2>3, <2>4, <2>5
  <1>10. \A g \in Holder : g # h => Charged(g)' \subseteq Charged(g)
    BY <1>1 DEF Charged
  <1> QED
    BY <1>1, <1>8, <1>9, <1>10 DEF Accounting

-------------------------------------------------------------------------------
(* A new path within checkRoom keeps the bounds. *)
LEMMA NewPathInv ==
    ASSUME SecretInv, NEW p \in Path, NEW v \in Value \ Oversized, NEW h \in Holder,
           ~Held(p), checkRoom(h), store(p, v, h)
    PROVE  SecretInv'
  <1>1. SecretTypeOK' /\ Accounting'
    BY StoreNew
  <1>2. Cardinality(DOMAIN values') <= MaxPaths
    <2>1. Cardinality(DOMAIN values) \in Nat
      BY FS_CardinalityType DEF SecretInv, SecretTypeOK
    <2> QED
      BY <2>1, StoreNew, StoreAssumption DEF checkRoom
  <1>3. ASSUME NEW w \in Workload
        PROVE  Cardinality(Charged(w)') <= MaxPerHolder
    <2>1. w \in Holder /\ w # Operator
      BY StoreAssumption DEF Holder
    <2>2. Paths(w) = Cardinality(Charged(w)) /\ Paths(w) \in Nat /\ Paths(w) <= MaxPerHolder
      BY <2>1, ChargedFinite DEF SecretInv, Accounting, WithinBounds
    <2>3. Cardinality(Charged(w)') = Paths(w) + (IF w = h THEN 1 ELSE 0)
      BY <1>1, <2>1, StoreNew DEF Accounting
    <2> QED
      BY <2>1, <2>2, <2>3, StoreAssumption DEF checkRoom
  <1> QED
    BY <1>1, <1>2, <1>3 DEF SecretInv, WithinBounds

(* The operator's overwrite only takes paths away from workloads. *)
LEMMA OverwriteInv ==
    ASSUME SecretInv, NEW p \in Path, NEW v \in Value \ Oversized,
           Held(p), store(p, v, Operator)
    PROVE  SecretInv'
  <1>1. SecretTypeOK' /\ Accounting' /\ DOMAIN values' = DOMAIN values
    BY StoreOver DEF Holder
  <1>2. ASSUME NEW w \in Workload
        PROVE  Cardinality(Charged(w)') <= MaxPerHolder
    <2>1. Charged(w)' \subseteq Charged(w)
      BY StoreOver, StoreAssumption DEF Holder
    <2>2. Cardinality(Charged(w)') <= Cardinality(Charged(w)) /\ Cardinality(Charged(w)') \in Nat
      BY <2>1, ChargedFinite, FS_Subset, FS_CardinalityType DEF SecretInv
    <2> QED
      BY <2>2, ChargedFinite, StoreAssumption DEF SecretInv, WithinBounds
  <1> QED
    BY <1>1, <1>2 DEF SecretInv, WithinBounds

(* The empty store satisfies the invariant. *)
LEMMA SecretInitInv == SecretInit => SecretInv
  <1> SUFFICES ASSUME SecretInit PROVE SecretInv
    OBVIOUS
  <1>1. DOMAIN values = {} /\ DOMAIN holders = {}
    BY DEF SecretInit
  <1>2. ASSUME NEW h PROVE Charged(h) = {}
    BY <1>1 DEF Charged
  <1>3. IsFiniteSet({}) /\ Cardinality({}) = 0
    BY FS_EmptySet
  <1>4. SecretTypeOK
    BY <1>1, <1>3 DEF SecretTypeOK
  <1>5. Accounting
    BY <1>1, <1>2, <1>3 DEF Accounting, Paths
  <1>6. WithinBounds
    BY SMTT(40), <1>1, <1>2, <1>3, StoreAssumption DEF WithinBounds
  <1> QED
    BY <1>4, <1>5, <1>6 DEF SecretInv

(* Every step keeps the invariant. *)
LEMMA SecretNextInv ==
    ASSUME SecretInv, [SecretNext]_secretVars
    PROVE  SecretInv'
  <1>1. ASSUME NEW p \in Path, NEW v \in Value, Put(p, v)
        PROVE  SecretInv'
    <2>1. CASE UNCHANGED secretVars
      BY <2>1 DEF secretVars, SecretInv, SecretTypeOK, Accounting, WithinBounds, Paths, Charged
    <2>2. CASE v \notin Oversized /\ Held(p) /\ store(p, v, Operator)
      BY <2>2, OverwriteInv
    <2>3. CASE v \notin Oversized /\ ~Held(p) /\ checkRoom(Operator) /\ store(p, v, Operator)
      BY <2>3, NewPathInv DEF Holder
    <2> QED
      BY SMTT(40), <1>1, <2>1, <2>2, <2>3 DEF Put
  <1>2. ASSUME NEW p \in Path, NEW v \in Value, NEW h \in Holder, PutIfAbsent(p, v, h)
        PROVE  SecretInv'
    <2>1. CASE UNCHANGED secretVars
      BY <2>1 DEF secretVars, SecretInv, SecretTypeOK, Accounting, WithinBounds, Paths, Charged
    <2>2. CASE v \notin Oversized /\ ~Held(p) /\ checkRoom(h) /\ store(p, v, h)
      BY <2>2, NewPathInv
    <2> QED
      BY <1>2, <2>1, <2>2 DEF PutIfAbsent
  <1>3. CASE SecretRestart
    <2>1. SecretInit'
      BY <1>3 DEF SecretRestart, SecretInit
    <2>2. SecretInit' => SecretInv'
      BY SecretInitInv, PTL
    <2> QED
      BY <2>1, <2>2
  <1>4. CASE UNCHANGED secretVars
    BY <1>4 DEF secretVars, SecretInv, SecretTypeOK, Accounting, WithinBounds, Paths, Charged
  <1> QED
    BY <1>1, <1>2, <1>3, <1>4 DEF SecretNext

(* The invariant holds in every reachable state. *)
THEOREM SecretsInvariant == SecretSpec => []SecretInv
  BY SecretInitInv, SecretNextInv, PTL DEF SecretSpec

(* store.go:119: through every overwrite and restart the count that decides  *)
(* a holder's quota is the number of paths it holds.                         *)
THEOREM CountsAreRight == SecretSpec => []Accounting
  <1>1. SecretInv => Accounting
    BY DEF SecretInv
  <1> QED
    BY <1>1, SecretsInvariant, PTL

(* store.go:133: the store never holds more than maxPaths paths, nor more    *)
(* than maxPerHolder of one workload.                                        *)
THEOREM BoundsHold == SecretSpec => []WithinBounds
  <1>1. SecretInv => WithinBounds
    BY DEF SecretInv
  <1> QED
    BY <1>1, SecretsInvariant, PTL

(* store.go:83: a value a workload found stays until the operator replaces   *)
(* it or the process ends.                                                   *)
THEOREM FirstWriteStays == SecretSpec => FirstWriteWins
  <1> DEFINE Stays == \A p \in DOMAIN values :
          \/ values' = <<>>
          \/ p \in DOMAIN values' /\ (values'[p] = values[p] \/ values'[p].holder = Operator)
  <1>1. ASSUME [SecretNext]_secretVars
        PROVE  [Stays]_secretVars
    <2>1. ASSUME NEW p \in Path, NEW v \in Value, Put(p, v)
          PROVE  Stays \/ UNCHANGED secretVars
      BY <2>1 DEF Put, store
    <2>2. ASSUME NEW p \in Path, NEW v \in Value, NEW h \in Holder, PutIfAbsent(p, v, h)
          PROVE  Stays \/ UNCHANGED secretVars
      BY <2>2 DEF PutIfAbsent, store, Held
    <2>3. CASE SecretRestart
      BY <2>3 DEF SecretRestart
    <2> QED
      BY SMTT(40), <1>1, <2>1, <2>2, <2>3 DEF SecretNext
  <1> QED
    BY <1>1, PTL DEF SecretSpec, FirstWriteWins
================================================================================
