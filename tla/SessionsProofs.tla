----------------------------- MODULE SessionsProofs -----------------------------
(***************************************************************************)
(* The sessions of the attestation sidecar, for any clients, sessions,     *)
(* threads and limits and a replay window of any width: the store stays    *)
(* shared out between its clients, and a sealed request reaches the        *)
(* backend at most once.                                                   *)
(***************************************************************************)
EXTENDS AttestSessions, FiniteSetTheorems, WellFoundedInduction, TLAPS

(* What a channel has taken: the numbers its mask shows, and everything that  *)
(* has left the window.                                                       *)
Taken(ch, n) ==
    /\ n <= ch.seqHigh
    /\ ch.seqHigh - n >= replayWindow \/ ch.seqHigh - n \in ch.seqMask

Channels == [next : Nat, seqHigh : Nat, seqMask : SUBSET Nat]

(* overenc.go:314-377: acceptSeq takes a number it has not taken, remembers it *)
(* and forgets none, for a window of any width and jumps of any size.          *)
LEMMA AcceptTakesOnce ==
    ASSUME NEW ch \in Channels, NEW seq \in Nat
    PROVE  LET took == acceptSeq(ch, seq) IN
           /\ took.ch \in Channels /\ took.ch.next = ch.next
           /\ took.ok \in BOOLEAN
           /\ took.ok => ~Taken(ch, seq) /\ Taken(took.ch, seq)
           /\ \A n \in Nat : Taken(ch, n) => Taken(took.ch, n)
  <1> DEFINE back == ch.seqHigh - seq
  <1> SUFFICES ASSUME NEW took, took = acceptSeq(ch, seq)
               PROVE  /\ took.ch \in Channels /\ took.ch.next = ch.next
                      /\ took.ok \in BOOLEAN
                      /\ took.ok => ~Taken(ch, seq) /\ Taken(took.ch, seq)
                      /\ \A n \in Nat : Taken(ch, n) => Taken(took.ch, n)
    OBVIOUS
  <1>1. CASE seq > ch.seqHigh
    <2> DEFINE mask == Shift(ch.seqMask, seq - ch.seqHigh) \cup {0}
    <2>0. mask \in SUBSET Nat
      BY SessionsAssumption DEF Shift
    <2>1. took.ok = TRUE /\ took.ch = [ch EXCEPT !.seqHigh = seq, !.seqMask = mask]
      BY <1>1 DEF acceptSeq, Channels
    <2> HIDE DEF mask
    <2>2. took.ch \in Channels /\ took.ch.next = ch.next
          /\ took.ch.seqHigh = seq /\ took.ch.seqMask = mask
      BY ZenonT(40), <2>0, <2>1 DEF Channels
    <2> USE DEF mask
    <2>3. ~Taken(ch, seq) /\ Taken(took.ch, seq)
      BY <1>1, <2>2 DEF Taken, Channels
    <2>4. ASSUME NEW n \in Nat, Taken(ch, n)  PROVE Taken(took.ch, n)
      <3>1. seq - n = (ch.seqHigh - n) + (seq - ch.seqHigh)
        BY DEF Channels
      <3>2. CASE seq - n >= replayWindow
        BY <1>1, <2>2, <2>4, <3>2 DEF Taken, Channels
      <3>3. CASE seq - n < replayWindow
        <4>1. ch.seqHigh - n \in ch.seqMask
          BY <1>1, <2>4, <3>1, <3>3, SessionsAssumption DEF Taken, Channels
        <4>2. seq - n \in 0..(replayWindow - 1) /\ (seq - n) - (seq - ch.seqHigh) = ch.seqHigh - n
          BY <1>1, <2>4, <3>3, SessionsAssumption DEF Taken, Channels
        <4> QED
          BY <1>1, <2>2, <2>4, <4>1, <4>2 DEF Taken, Channels, Shift
      <3> QED
        BY <3>2, <3>3, SessionsAssumption DEF Channels
    <2> QED
      BY ZenonT(40), <2>1, <2>2, <2>3, <2>4
  <1>2. CASE seq <= ch.seqHigh /\ (back >= replayWindow \/ back \in ch.seqMask)
    <2>1. took.ok = FALSE /\ took.ch = ch
      BY <1>2 DEF acceptSeq, Channels
    <2> QED
      BY ZenonT(40), <2>1
  <1>3. CASE seq <= ch.seqHigh /\ ~(back >= replayWindow \/ back \in ch.seqMask)
    <2>1. took.ok = TRUE /\ took.ch = [ch EXCEPT !.seqMask = ch.seqMask \cup {back}]
      BY <1>3 DEF acceptSeq, Channels
    <2>2. took.ch \in Channels /\ took.ch.next = ch.next
          /\ took.ch.seqHigh = ch.seqHigh /\ took.ch.seqMask = ch.seqMask \cup {back}
      BY <1>3, <2>1 DEF Channels
    <2>3. ~Taken(ch, seq) /\ Taken(took.ch, seq)
      BY <1>3, <2>2 DEF Taken, Channels
    <2>4. \A n \in Nat : Taken(ch, n) => Taken(took.ch, n)
      BY <2>2 DEF Taken
    <2> QED
      BY ZenonT(40), <2>1, <2>2, <2>3, <2>4
  <1> QED
    BY <1>1, <1>2, <1>3 DEF Channels

-------------------------------------------------------------------------------
(* A request was forwarded for every number the channel has taken and for no *)
(* other; a session that was ever used is never given to another client,     *)
(* because its client has sealed something.                                  *)
ForwardsKept(id) ==
    /\ channel[id] \in Channels
    /\ \A n \in DOMAIN forwards[id] :
          /\ forwards[id][n] \in {0, 1}
          /\ forwards[id][n] = 1 => n \in Nat /\ Taken(channel[id], n)

HandlingKept(t) ==
    LET h == handling[t] IN
    /\ h.at \in {"idle", "open", "seal"}
    /\ h.at # "idle" => h.session \in Session /\ h.seq \in 1..channel[h.session].next
    /\ h.at = "seal" /\ h.seq \in DOMAIN forwards[h.session] => forwards[h.session][h.seq] = 1

ReplyKept(r) ==
    /\ r.session \in Session /\ r.of = r.seq
    /\ channel[r.session].next > 0
    /\ r.seq \in DOMAIN forwards[r.session] => forwards[r.session][r.seq] = 1

TunnelInv ==
    /\ door.ids \subseteq Session
    /\ DOMAIN channel = Session /\ DOMAIN forwards = Session /\ DOMAIN handling = Thread
    /\ \A id \in Session : ForwardsKept(id)
    /\ \A t \in Thread : DOMAIN handling[t] = {"session", "seq", "at"} /\ HandlingKept(t)
    /\ \A r \in replies : ReplyKept(r)

(* overenc.go:314-377: however records are repeated, delayed past the window   *)
(* and raced by any number of threads, while sessions come, go and are evicted,*)
(* no request reaches the backend twice and no response answers another.       *)
THEOREM TunnelForwardsOnce == SessionsSpec => []TunnelOnce
  <1>1. SessionsInit => TunnelInv
    <2> SUFFICES ASSUME SessionsInit  PROVE TunnelInv
      OBVIOUS
    <2>1. newChannel \in Channels
      BY DEF newChannel, Channels
    <2>2. \A id \in Session : DOMAIN forwards[id] = {}
      BY DEF SessionsInit
    <2>3. door.ids \subseteq Session
      BY SessionsAssumption DEF SessionsInit, Doors, Shut
    <2> QED
      BY <2>1, <2>2, <2>3 DEF SessionsInit, TunnelInv, ForwardsKept, HandlingKept, Idle
  <1>2. TunnelInv /\ [SessionsNext]_sessionVars => TunnelInv'
    <2> SUFFICES ASSUME TunnelInv, [SessionsNext]_sessionVars
                 PROVE  TunnelInv'
      OBVIOUS
    <2> USE DEF TunnelInv
    <2>1. CASE UNCHANGED <<door, channel, handling, forwards, replies>>
      BY <2>1 DEF ForwardsKept, HandlingKept, ReplyKept, Taken
    <2>2. ASSUME NEW c \in Client, Establish(c)  PROVE TunnelInv'
      <3>1. PICK id \in Unused :
               /\ channel' = [channel EXCEPT ![id] = newChannel]
               /\ forwards' = [forwards EXCEPT ![id] = [n \in 1..door.seqs |-> 0]]
        BY ZenonT(40), <2>2 DEF Establish
      <3>2. id \in Session /\ channel[id].next = 0
            /\ \A t \in Thread : handling[t].session # id
        <4>1. id \in Session
          BY DEF Unused
        <4> QED
          BY <4>1 DEF Unused
      <3>3. handling' = handling /\ replies' = replies
        BY <2>2 DEF Establish
      <3>4. newChannel \in Channels
        BY DEF newChannel, Channels
      <3>5. ASSUME NEW i \in Session  PROVE ForwardsKept(i)'
        BY <3>1, <3>2, <3>4 DEF ForwardsKept, Taken
      <3>6. ASSUME NEW t \in Thread  PROVE HandlingKept(t)'
        BY <3>1, <3>2, <3>3 DEF HandlingKept
      <3>7. ASSUME NEW r \in replies  PROVE ReplyKept(r)'
        BY <3>1, <3>2, <3>3 DEF ReplyKept
      <3> QED
        BY <2>2, <3>1, <3>3, <3>5, <3>6, <3>7 DEF Establish
    <2>3. ASSUME NEW id \in Session, SealRequest(id)  PROVE TunnelInv'
      <3>1. channel' = [channel EXCEPT ![id].next = @ + 1] /\ UNCHANGED <<door, handling, forwards, replies>>
        BY <2>3 DEF SealRequest
      <3>2. ASSUME NEW i \in Session
            PROVE  /\ channel'[i] \in Channels /\ channel'[i].next >= channel[i].next
                   /\ \A n : Taken(channel[i], n) => Taken(channel'[i], n)
        <4>1. channel[i] \in Channels
          BY DEF ForwardsKept
        <4>2. CASE i # id
          BY <3>1, <4>1, <4>2 DEF Channels
        <4>3. CASE i = id
          <5>1. channel'[i] = [channel[i] EXCEPT !.next = channel[i].next + 1]
            BY <3>1, <4>3
          <5> QED
            BY <4>1, <5>1 DEF Channels, Taken
        <4> QED
          BY <4>2, <4>3
      <3> QED
        BY <3>1, <3>2 DEF ForwardsKept, HandlingKept, ReplyKept, Channels
    <2>4. ASSUME NEW t \in Thread, NEW id \in Session, NEW by \in Session, NEW n \in 1..door.seqs,
                 HandleTunnel(t, id, [session |-> by, seq |-> n])
          PROVE  TunnelInv'
      <3>1. UNCHANGED <<door, channel, forwards, replies>>
        BY <2>4 DEF HandleTunnel
      <3>2. \/ handling' = handling
            \/ /\ handling' = [handling EXCEPT ![t] = [session |-> id, seq |-> n, at |-> "open"]]
               /\ n \in 1..channel[id].next
        BY <2>4 DEF HandleTunnel, Openable
      <3> QED
        BY <3>1, <3>2 DEF ForwardsKept, HandlingKept, ReplyKept, Taken
    <2>6. ASSUME NEW t \in Thread, SealResponse(t)  PROVE TunnelInv'
      BY <2>6 DEF SealResponse, ForwardsKept, HandlingKept, ReplyKept, Taken, Idle, Channels
    <2>5. ASSUME NEW t \in Thread, OpenRequest(t)  PROVE TunnelInv'
      <3> DEFINE id == handling[t].session
                 seq == handling[t].seq
      <3>1. PICK took : took = acceptSeq(channel[id], seq)
        OBVIOUS
      <3>2. /\ id \in Session /\ seq \in Nat \ {0} /\ channel[id] \in Channels
            /\ seq \in 1..channel[id].next
        BY SMTT(40), <2>5 DEF OpenRequest, HandlingKept, ForwardsKept, Channels
      <3>3. /\ took.ch \in Channels /\ took.ch.next = channel[id].next
            /\ took.ok => ~Taken(channel[id], seq) /\ Taken(took.ch, seq)
            /\ \A n \in Nat : Taken(channel[id], n) => Taken(took.ch, n)
        BY <3>1, <3>2, AcceptTakesOnce
      <3>4. /\ channel' = [channel EXCEPT ![id] = took.ch]
            /\ forwards' = IF took.ok THEN [forwards EXCEPT ![id][seq] = @ + 1] ELSE forwards
            /\ handling' = [handling EXCEPT ![t] = IF took.ok THEN [@ EXCEPT !.at = "seal"] ELSE Idle]
            /\ UNCHANGED <<door, replies>>
        BY <2>5, <3>1 DEF OpenRequest
      <3>5. ASSUME NEW i \in Session, NEW n \in DOMAIN forwards[i]
            PROVE  /\ DOMAIN forwards'[i] = DOMAIN forwards[i]
                   /\ forwards'[i][n] = IF took.ok /\ i = id /\ n = seq THEN 1 ELSE forwards[i][n]
        BY <3>2, <3>3, <3>4 DEF ForwardsKept
      <3>6. \A i \in Session : DOMAIN forwards'[i] = DOMAIN forwards[i]
        BY SMTT(40), <3>4
      <3>7. ASSUME NEW i \in Session  PROVE ForwardsKept(i)'
        BY SMTT(40), <3>2, <3>3, <3>4, <3>5, <3>6 DEF ForwardsKept
      <3>8. ASSUME NEW u \in Thread  PROVE DOMAIN handling'[u] = {"session", "seq", "at"} /\ HandlingKept(u)'
        BY SMTT(40), <3>2, <3>3, <3>4, <3>5, <3>6 DEF HandlingKept, Idle
      <3>9. ASSUME NEW r \in replies  PROVE ReplyKept(r)'
        BY <3>2, <3>3, <3>4, <3>5, <3>6 DEF ReplyKept
      <3> QED
        BY <3>4, <3>7, <3>8, <3>9
    <2> QED
      BY ZenonT(40), <2>1, <2>2, <2>3, <2>4, <2>5, <2>6
         DEF SessionsNext, AttestPQ, AttestPQFails, sweep, DoorTick, TunnelGarbage, sessionVars
  <1>3. TunnelInv => TunnelOnce
    BY DEF TunnelInv, TunnelOnce, ForwardsKept, ReplyKept, OpenResponse
  <1> QED
    BY <1>1, <1>2, <1>3, PTL DEF SessionsSpec

-------------------------------------------------------------------------------
(* A set of subsets of a finite set has a smallest member: what induction     *)
(* over finite sets rests on here.                                            *)
LEMMA SmallestMember ==
    ASSUME NEW S, IsFiniteSet(S), NEW B \in SUBSET SUBSET S, B # {}
    PROVE  \E X \in B : \A Y \in B : Y \subseteq X => Y = X
<1>1. \A X \in SUBSET S : IsFiniteSet(X)
  BY FS_Subset
<1>2. B \subseteq FiniteSubsetsOf(S)
  BY <1>1 DEF FiniteSubsetsOf
<1>3. PICK X \in B : \A Y \in B : ~(<<Y, X>> \in StrictSubsetOrdering(S))
  BY <1>2, FS_StrictSubsetOrderingWellFounded, WFMin
<1>4. ASSUME NEW Y \in B, Y \subseteq X, Y # X  PROVE FALSE
  <2>1. <<Y, X>> \in StrictSubsetOrdering(S)
    BY <1>4 DEF StrictSubsetOrdering
  <2> QED
    BY <1>3, <2>1
<1> QED
  BY <1>4

(* Integer division rounds down.                                              *)
LEMMA DivBound ==
    ASSUME NEW a \in Nat, NEW b \in Nat \ {0}
    PROVE  a \div b \in Nat /\ (a \div b) * b <= a
  OBVIOUS

-------------------------------------------------------------------------------
(* holders.go and server.go: a store with its index in order.                 *)
Sizes == 1..maxSessionsPerClient

Stores == [sessions : [Session -> {Gone} \cup [client : Client, age : Nat, idle : Nat]],
           byClient : [Client -> SUBSET Session],
           bySize : [Sizes -> SUBSET Client],
           max : 0..maxSessionsPerClient]

(* The clients by size, and the largest size some client has.                 *)
Indexed(st) ==
    /\ \A n \in Sizes : st.bySize[n] = {c \in Client : count(st, c) = n}
    /\ \A c \in Client : count(st, c) <= st.max
    /\ st.max = 0 \/ st.bySize[st.max] # {}

(* The holders are those of the sessions.                                     *)
Matched(st) ==
    \A c \in Client : st.byClient[c] = {id \in Live(st) : st.sessions[id].client = c}

InOrder(st) == st \in Stores /\ Indexed(st) /\ Matched(st)

(* What a client holds is finite.                                             *)
LEMMA CountIsNat ==
    ASSUME NEW st \in Stores, NEW c \in Client
    PROVE  IsFiniteSet(st.byClient[c]) /\ count(st, c) \in Nat
<1>1. st.byClient[c] \in SUBSET Session
  BY DEF Stores
<1> QED
  BY <1>1, FS_Subset, FS_CardinalityType, SessionsAssumption DEF count

(* holders.go:21-71: one session more or less leaves the index in order.       *)
LEMMA ResizeKeepsIndex ==
    ASSUME NEW st \in Stores, Indexed(st), NEW c \in Client, NEW held \in SUBSET Session,
           NEW was, was = count(st, c), NEW size, size = Cardinality(held),
           \/ size = was + 1 /\ was < maxSessionsPerClient
           \/ size = was - 1 /\ was > 0
    PROVE  LET after == resize([st EXCEPT !.byClient[c] = held], c, was, size) IN
           /\ after \in Stores /\ Indexed(after)
           /\ after.sessions = st.sessions
           /\ after.byClient = [st.byClient EXCEPT ![c] = held]
<1> USE SessionsAssumption
<1> DEFINE g == [st EXCEPT !.byClient[c] = held]
           sizes == [n \in Sizes |-> (st.bySize[n] \ (IF n = was THEN {c} ELSE {}))
                                          \cup (IF n = size THEN {c} ELSE {})]
           tops == {n \in Sizes : sizes[n] # {} /\ (n <= st.max \/ n = size)}
           top == IF tops = {} THEN 0 ELSE CHOOSE n \in tops : \A m \in tops : m <= n
           after == resize(g, c, was, size)
<1>1. /\ g.sessions = st.sessions /\ g.bySize = st.bySize /\ g.max = st.max
      /\ g.byClient = [st.byClient EXCEPT ![c] = held] /\ DOMAIN g = DOMAIN st
  BY DEF Stores
<1>2. DOMAIN g.bySize = Sizes
  BY <1>1 DEF Stores
<1> HIDE DEF g
<1>3. after = [g EXCEPT !.bySize = sizes, !.max = top]
  <2> DEFINE gsizes == [n \in DOMAIN g.bySize |-> (g.bySize[n] \ (IF n = was THEN {c} ELSE {}))
                                                    \cup (IF n = size THEN {c} ELSE {})]
             gtops == {n \in DOMAIN gsizes : gsizes[n] # {} /\ (n <= g.max \/ n = size)}
             gtop == IF gtops = {} THEN 0 ELSE CHOOSE n \in gtops : \A m \in gtops : m <= n
  <2>1. gsizes = sizes
    BY <1>1, <1>2
  <2>2. after = [g EXCEPT !.bySize = gsizes, !.max = gtop]
    BY DEF resize
  <2>3. DOMAIN sizes = Sizes
    OBVIOUS
  <2> HIDE DEF gsizes, sizes
  <2>4. gtops = tops
    BY <1>1, <2>1, <2>3
  <2> HIDE DEF gtops, tops
  <2> QED
    BY <2>1, <2>2, <2>4
<1>4. /\ after.sessions = st.sessions /\ after.byClient = [st.byClient EXCEPT ![c] = held]
      /\ after.bySize = sizes /\ after.max = top
      /\ DOMAIN after = {"sessions", "byClient", "bySize", "max"}
  <2> HIDE DEF sizes, top
  <2>1. DOMAIN g = {"sessions", "byClient", "bySize", "max"}
    BY <1>1 DEF Stores
  <2> QED
    BY <1>1, <1>3, <2>1
<1> HIDE DEF after
<1>5. was \in Nat /\ size \in Nat /\ was <= st.max /\ st.max \in 0..maxSessionsPerClient
  BY CountIsNat DEF Indexed, Stores
<1>6. size \in 0..maxSessionsPerClient
  BY <1>5
<1>7. ASSUME NEW d \in Client  PROVE count(after, d) = IF d = c THEN size ELSE count(st, d)
  BY <1>4 DEF count, Stores
<1>8. ASSUME NEW n \in Sizes  PROVE sizes[n] = {d \in Client : count(after, d) = n}
  <2>1. st.bySize[n] = {d \in Client : count(st, d) = n}
    BY DEF Indexed
  <2>2. sizes[n] = (st.bySize[n] \ (IF n = was THEN {c} ELSE {})) \cup (IF n = size THEN {c} ELSE {})
    OBVIOUS
  <2> HIDE DEF sizes
  <2> QED
    BY <1>5, <1>7, <2>1, <2>2
<1>9. \E k \in 0..maxSessionsPerClient :
          /\ \A m \in tops : m <= k
          /\ k # 0 => k \in tops
          /\ \A d \in Client : count(after, d) <= k
  <2> DEFINE IsTop(k) == /\ k \in 0..maxSessionsPerClient
                         /\ \A m \in tops : m <= k
                         /\ k # 0 => k \in tops
                         /\ \A d \in Client : count(after, d) <= k
  <2>1. \A d \in Client : count(st, d) \in Nat /\ count(st, d) <= st.max
    BY CountIsNat DEF Indexed
  <2>2. st.max # 0 => st.bySize[st.max] # {} /\ st.max \in Sizes
    BY <1>5 DEF Indexed, Sizes
  <2>3. \A n \in Sizes : sizes[n] = (st.bySize[n] \ (IF n = was THEN {c} ELSE {}))
                                        \cup (IF n = size THEN {c} ELSE {})
    OBVIOUS
  <2>4. size # 0 => size \in Sizes /\ size \in tops
    BY <1>6, <2>3 DEF Sizes
  <2>5. tops \subseteq Sizes /\ \A m \in tops : m <= st.max \/ m = size
    OBVIOUS
  <2>6. ASSUME st.max \in Sizes, sizes[st.max] # {}  PROVE st.max \in tops
    <3> HIDE DEF sizes
    <3>1. st.max <= st.max
      BY <1>5
    <3> QED
      BY <2>6, <3>1
  <2>7. ASSUME st.max \in tops  PROVE sizes[st.max] # {}
    BY ZenonT(40), <2>7
  <2> HIDE DEF tops, sizes
  <2>8. CASE size = was + 1 /\ size > st.max
    <3>1. IsTop(size)
      BY <1>5, <1>6, <1>7, <2>1, <2>4, <2>5, <2>8 DEF Sizes
    <3> QED
      BY <3>1
  <2>9. CASE size = was + 1 /\ size <= st.max
    <3>1. st.max \in tops
      BY <1>5, <2>2, <2>3, <2>6, <2>9
    <3>2. IsTop(st.max)
      BY <1>5, <1>7, <2>1, <2>5, <2>9, <3>1 DEF Sizes
    <3> QED
      BY <3>2
  <2>10. CASE size = was - 1 /\ was > 0 /\ sizes[st.max] # {}
    <3>1. st.max \in tops
      BY <1>5, <2>2, <2>6, <2>10
    <3>2. IsTop(st.max)
      BY <1>5, <1>7, <2>1, <2>5, <2>10, <3>1 DEF Sizes
    <3> QED
      BY <3>2
  <2>11. CASE size = was - 1 /\ was > 0 /\ sizes[st.max] = {}
    <3>1. st.max \in Sizes /\ was = st.max
      BY <1>5, <2>2, <2>3, <2>11
    <3>2. \A d \in Client : count(after, d) # st.max
      BY <1>8, <2>11, <3>1
    <3>3. \A d \in Client : count(after, d) <= size
      BY <1>5, <1>7, <2>1, <2>11, <3>1, <3>2
    <3>4. st.max \notin tops
      BY <2>7, <2>11
    <3>5. IsTop(size)
      BY <1>5, <1>6, <2>4, <2>5, <2>11, <3>1, <3>3, <3>4 DEF Sizes
    <3> QED
      BY <3>5
  <2> QED
    BY <1>5, <2>8, <2>9, <2>10, <2>11
<1>10. PICK k \in 0..maxSessionsPerClient :
          /\ \A m \in tops : m <= k
          /\ k # 0 => k \in tops
          /\ \A d \in Client : count(after, d) <= k
  BY ZenonT(40), <1>9
<1>11. tops \subseteq Sizes /\ (\A m \in tops : sizes[m] # {})
  OBVIOUS
<1>12. top = k
  <2> HIDE DEF tops
  <2>1. CASE tops = {}
    BY <1>10, <2>1
  <2>2. CASE tops # {}
    <3>0. PICK n \in tops : TRUE
      BY <2>2
    <3>1. n \in Nat \ {0} /\ n <= k /\ k \in tops
      BY <1>10, <1>11 DEF Sizes
    <3>2. top \in tops /\ \A m \in tops : m <= top
      BY ZenonT(40), <1>10, <2>2, <3>1
    <3>3. top <= k /\ k <= top /\ top \in Int
      <4> HIDE DEF top
      <4> QED
        BY <1>10, <1>11, <3>1, <3>2 DEF Sizes
    <3> HIDE DEF top
    <3> QED
      BY <1>10, <3>3
  <2> QED
    BY <2>1, <2>2
<1>13. sizes \in [Sizes -> SUBSET Client]
  BY DEF Stores
<1> HIDE DEF sizes, tops, top
<1>14. after \in Stores
  <2>1. after.sessions \in [Session -> {Gone} \cup [client : Client, age : Nat, idle : Nat]]
    BY <1>4 DEF Stores
  <2>2. after.byClient \in [Client -> SUBSET Session]
    BY <1>4 DEF Stores
  <2>3. after.bySize \in [Sizes -> SUBSET Client] /\ after.max \in 0..maxSessionsPerClient
    BY <1>4, <1>12, <1>13
  <2>4. after = [sessions |-> after.sessions, byClient |-> after.byClient,
                 bySize |-> after.bySize, max |-> after.max]
    BY ZenonT(40), <1>3, <1>4
  <2> QED
    BY <2>1, <2>2, <2>3, <2>4 DEF Stores
<1>15. Indexed(after)
  BY <1>4, <1>8, <1>10, <1>11, <1>12 DEF Indexed
<1> QED
  BY <1>4, <1>14, <1>15 DEF after, g

(* The index is about who holds what, whatever the sessions are.              *)
LEMMA IndexIgnoresSessions ==
    ASSUME NEW st \in Stores, Indexed(st),
           NEW sessions \in [Session -> {Gone} \cup [client : Client, age : Nat, idle : Nat]]
    PROVE  LET h == [st EXCEPT !.sessions = sessions] IN
           /\ h \in Stores /\ Indexed(h)
           /\ h.sessions = sessions /\ h.byClient = st.byClient
           /\ \A c \in Client : count(h, c) = count(st, c)
<1> DEFINE h == [st EXCEPT !.sessions = sessions]
<1>1. h \in Stores
  BY DEF Stores
<1>2. h.sessions = sessions /\ h.byClient = st.byClient /\ h.bySize = st.bySize /\ h.max = st.max
  BY DEF Stores
<1> HIDE DEF h
<1>3. \A c \in Client : count(h, c) = count(st, c)
  BY <1>2 DEF count
<1>4. Indexed(h)
  BY <1>2, <1>3 DEF Indexed
<1> QED
  BY <1>1, <1>2, <1>3, <1>4 DEF h

(* server.go:820-827 dropSession: the session goes, the index follows.         *)
LEMMA DropKeepsOrder ==
    ASSUME NEW st, InOrder(st), NEW id \in Live(st)
    PROVE  LET after == dropSession(st, id) IN
           InOrder(after) /\ after.sessions = [st.sessions EXCEPT ![id] = Gone]
<1> DEFINE c == st.sessions[id].client
           sessions == [st.sessions EXCEPT ![id] = Gone]
           h == [st EXCEPT !.sessions = sessions]
           held == st.byClient[c] \ {id}
           after == dropSession(st, id)
<1>1. st \in Stores /\ Indexed(st) /\ Matched(st) /\ id \in Session /\ st.sessions[id] # Gone
  BY DEF InOrder, Live
<1>2. c \in Client /\ id \in st.byClient[c]
  <2>1. st.sessions[id] \in [client : Client, age : Nat, idle : Nat]
    BY <1>1 DEF Stores
  <2>2. c \in Client
    BY <2>1
  <2> QED
    BY <1>1, <2>2 DEF Matched
<1>3. sessions \in [Session -> {Gone} \cup [client : Client, age : Nat, idle : Nat]]
  BY <1>1 DEF Stores
<1> HIDE DEF sessions, c
<1>4. /\ h \in Stores /\ Indexed(h) /\ h.sessions = sessions /\ h.byClient = st.byClient
      /\ count(h, c) = count(st, c)
  BY <1>1, <1>2, <1>3, IndexIgnoresSessions
<1>5. [st EXCEPT !.sessions[id] = Gone] = h
  BY DEF sessions
<1> HIDE DEF h
<1>6. after = resize([h EXCEPT !.byClient[c] = held], c, count(h, c), count(h, c) - 1)
  <2>1. after = remove(h, c, id)
    BY <1>5 DEF dropSession, c
  <2>2. remove(h, c, id) = resize([h EXCEPT !.byClient[c] = h.byClient[c] \ {id}], c, count(h, c), count(h, c) - 1)
    BY <1>2, <1>4 DEF remove
  <2> QED
    BY <1>4, <2>1, <2>2
<1>7. /\ held \in SUBSET Session /\ Cardinality(held) = count(h, c) - 1
      /\ count(h, c) \in Nat /\ count(h, c) > 0
  <2>1. IsFiniteSet(st.byClient[c]) /\ count(st, c) \in Nat
    BY <1>1, <1>2, CountIsNat
  <2>2. Cardinality(held) = Cardinality(st.byClient[c]) - 1 /\ Cardinality(held) \in Nat
    BY <1>2, <2>1, FS_RemoveElement, FS_CardinalityType
  <2>3. held \in SUBSET Session
    BY <1>1, <1>2 DEF Stores
  <2> QED
    BY <1>4, <2>1, <2>2, <2>3 DEF count
<1> HIDE DEF held
<1>8. /\ after \in Stores /\ Indexed(after) /\ after.sessions = h.sessions
      /\ after.byClient = [h.byClient EXCEPT ![c] = held]
  BY SMTT(40), <1>2, <1>4, <1>6, <1>7, ResizeKeepsIndex
<1> HIDE DEF after
<1>9. Matched(after)
  <2> SUFFICES ASSUME NEW d \in Client
               PROVE  after.byClient[d] = {i \in Live(after) : after.sessions[i].client = d}
    BY DEF Matched
  <2>1. st.byClient[d] = {i \in Live(st) : st.sessions[i].client = d}
    BY <1>1 DEF Matched
  <2>2. after.byClient[d] = IF d = c THEN st.byClient[c] \ {id} ELSE st.byClient[d]
    BY <1>1, <1>4, <1>8 DEF held, Stores
  <2>3. Live(after) = Live(st) \ {id}
    BY <1>1, <1>4, <1>8 DEF Live, sessions, Stores
  <2>4. \A i \in Live(after) : after.sessions[i] = st.sessions[i]
    BY <1>1, <1>4, <1>8, <2>3 DEF Live, sessions, Stores
  <2> QED
    BY <2>1, <2>2, <2>3, <2>4 DEF c
<1> QED
  BY <1>4, <1>8, <1>9 DEF InOrder, after, sessions

(* server.go:793-799: a session is stored for a client below its limit.        *)
LEMMA InsertKeepsOrder ==
    ASSUME NEW st, InOrder(st), NEW id \in Session \ Live(st), NEW c \in Client,
           count(st, c) < maxSessionsPerClient
    PROVE  LET new == [client |-> c, age |-> 0, idle |-> 0]
               after == add([st EXCEPT !.sessions[id] = new], c, id)
           IN  InOrder(after) /\ after.sessions = [st.sessions EXCEPT ![id] = new]
<1> USE SessionsAssumption
<1> DEFINE new == [client |-> c, age |-> 0, idle |-> 0]
           sessions == [st.sessions EXCEPT ![id] = new]
           h == [st EXCEPT !.sessions = sessions]
           held == st.byClient[c] \cup {id}
           after == add([st EXCEPT !.sessions[id] = new], c, id)
<1>1. st \in Stores /\ Indexed(st) /\ Matched(st) /\ id \in Session /\ st.sessions[id] = Gone
  BY DEF InOrder, Live
<1>2. id \notin st.byClient[c]
  BY <1>1 DEF Matched, Live
<1>3. new \in [client : Client, age : Nat, idle : Nat] /\ new # Gone /\ new.client = c
  BY DEF Gone
<1> HIDE DEF new
<1>4. sessions \in [Session -> {Gone} \cup [client : Client, age : Nat, idle : Nat]]
  BY <1>1, <1>3 DEF Stores
<1> HIDE DEF sessions
<1>5. /\ h \in Stores /\ Indexed(h) /\ h.sessions = sessions /\ h.byClient = st.byClient
      /\ count(h, c) = count(st, c)
  BY <1>1, <1>4, IndexIgnoresSessions
<1>6. [st EXCEPT !.sessions[id] = new] = h
  BY DEF sessions
<1> HIDE DEF h
<1>7. after = resize([h EXCEPT !.byClient[c] = held], c, count(h, c), count(h, c) + 1)
  <2>1. after = add(h, c, id)
    BY <1>6
  <2>2. add(h, c, id) = resize([h EXCEPT !.byClient[c] = h.byClient[c] \cup {id}], c, count(h, c), count(h, c) + 1)
    BY <1>2, <1>5 DEF add
  <2> QED
    BY <1>5, <2>1, <2>2
<1>8. /\ held \in SUBSET Session /\ Cardinality(held) = count(h, c) + 1 /\ count(h, c) \in Nat
  <2>1. IsFiniteSet(st.byClient[c]) /\ count(st, c) \in Nat
    BY <1>1, CountIsNat
  <2>2. Cardinality(held) = Cardinality(st.byClient[c]) + 1
    BY ZenonT(40), <1>2, <2>1, FS_AddElement
  <2>3. held \in SUBSET Session
    BY <1>1 DEF Stores
  <2> QED
    BY <1>5, <2>1, <2>2, <2>3 DEF count
<1> HIDE DEF held
<1>9. /\ after \in Stores /\ Indexed(after) /\ after.sessions = h.sessions
      /\ after.byClient = [h.byClient EXCEPT ![c] = held]
  BY <1>5, <1>7, <1>8, ResizeKeepsIndex
<1> HIDE DEF after
<1>10. Matched(after)
  <2> SUFFICES ASSUME NEW d \in Client
               PROVE  after.byClient[d] = {i \in Live(after) : after.sessions[i].client = d}
    BY DEF Matched
  <2>1. st.byClient[d] = {i \in Live(st) : st.sessions[i].client = d}
    BY <1>1 DEF Matched
  <2>2. after.byClient[d] = IF d = c THEN st.byClient[c] \cup {id} ELSE st.byClient[d]
    BY <1>1, <1>5, <1>9 DEF held, Stores
  <2>3. Live(after) = Live(st) \cup {id}
    BY <1>1, <1>3, <1>5, <1>9 DEF Live, sessions, Stores
  <2>4. \A i \in Session : after.sessions[i] = IF i = id THEN new ELSE st.sessions[i]
    BY <1>1, <1>5, <1>9 DEF sessions, Stores
  <2>5. id \notin Live(st) /\ Live(st) \subseteq Session
    BY DEF Live
  <2> QED
    BY <1>3, <2>1, <2>2, <2>3, <2>4, <2>5
<1> QED
  BY <1>5, <1>9, <1>10 DEF InOrder, after, sessions, new

-------------------------------------------------------------------------------
(* The sessions of a set are dropped one by one, each the one CHOOSE picks.   *)
First(D) == CHOOSE id \in D : TRUE

Rest(D) == D \ {First(D)}

Drops(st, D, drop) ==
    drop = [X \in SUBSET D |-> IF X = {} THEN st ELSE dropSession(drop[Rest(X)], First(X))]

(* What is left to drop is less.                                              *)
LEMMA RestIsLess ==
    ASSUME NEW X, X # {}
    PROVE  First(X) \in X /\ Rest(X) \subseteq X /\ Rest(X) # X /\ First(X) \notin Rest(X)
  BY DEF First, Rest

(* Two ways to drop agree on every set they both reach.                       *)
LEMMA DropsAgree ==
    ASSUME NEW st, NEW D, NEW E, IsFiniteSet(D), NEW f, Drops(st, D, f), NEW g, Drops(st, E, g),
           NEW X \in SUBSET D, X \subseteq E
    PROVE  f[X] = g[X]
<1> DEFINE Bad == {Y \in SUBSET (D \cap E) : f[Y] # g[Y]}
<1>1. ASSUME Bad # {}  PROVE FALSE
  <2>1. Bad \in SUBSET SUBSET D
    OBVIOUS
  <2>2. PICK Y \in Bad : \A Z \in Bad : Z \subseteq Y => Z = Y
    <3> HIDE DEF Bad
    <3> QED
      BY <1>1, <2>1, SmallestMember
  <2>3. /\ f[Y] = IF Y = {} THEN st ELSE dropSession(f[Rest(Y)], First(Y))
        /\ g[Y] = IF Y = {} THEN st ELSE dropSession(g[Rest(Y)], First(Y))
    BY <2>2 DEF Drops
  <2>4. Y # {} => f[Rest(Y)] = g[Rest(Y)]
    BY <2>2, RestIsLess
  <2> QED
    BY <2>2, <2>3, <2>4
<1> QED
  BY <1>1

(* Dropping is defined on every finite set.                                   *)
LEMMA DropsExist ==
    ASSUME NEW st, NEW D, IsFiniteSet(D)
    PROVE  \E f : Drops(st, D, f)
<1> DEFINE Bad == {X \in SUBSET D : ~\E f : Drops(st, X, f)}
<1>1. ASSUME Bad # {}  PROVE FALSE
  <2>0. Bad \in SUBSET SUBSET D
    OBVIOUS
  <2>1. PICK X \in Bad : \A Z \in Bad : Z \subseteq X => Z = X
    <3> HIDE DEF Bad
    <3> QED
      BY <1>1, <2>0, SmallestMember
  <2> DEFINE F(Y) == CHOOSE f : Drops(st, Y, f)
             value(Y) == IF Y = {} THEN st ELSE dropSession(F(Rest(Y))[Rest(Y)], First(Y))
             g == [Y \in SUBSET X |-> value(Y)]
  <2>2. ASSUME NEW Y \in SUBSET X, Y # X  PROVE Drops(st, Y, F(Y))
    <3>1. \E f : Drops(st, Y, f)
      BY <2>1, <2>2
    <3> QED
      BY <3>1
  <2>3. \A Y \in SUBSET X : IsFiniteSet(Y)
    BY FS_Subset
  <2> HIDE DEF F
  <2>4. ASSUME NEW Y \in SUBSET X, Y # X  PROVE value(Y) = F(Y)[Y]
    <3>1. F(Y)[Y] = IF Y = {} THEN st ELSE dropSession(F(Y)[Rest(Y)], First(Y))
      BY ZenonT(40), <2>2, <2>4 DEF Drops
    <3>2. ASSUME Y # {}  PROVE F(Y)[Rest(Y)] = F(Rest(Y))[Rest(Y)]
      <4>1. Rest(Y) \in SUBSET X /\ Rest(Y) # X /\ Rest(Y) \subseteq Y
        BY <2>4, <3>2, RestIsLess
      <4> QED
        BY <2>2, <2>3, <2>4, <4>1, DropsAgree
    <3> QED
      BY <3>1, <3>2
  <2>5. ASSUME NEW Y \in SUBSET X, Y # {}  PROVE g[Rest(Y)] = F(Rest(Y))[Rest(Y)]
    <3>1. Rest(Y) \in SUBSET X /\ Rest(Y) # X
      BY <2>5, RestIsLess
    <3> HIDE DEF value
    <3> QED
      BY <2>4, <3>1
  <2>6. ASSUME NEW Y \in SUBSET X
        PROVE  g[Y] = IF Y = {} THEN st ELSE dropSession(g[Rest(Y)], First(Y))
    <3>1. g[Y] = value(Y)
      OBVIOUS
    <3> HIDE DEF g
    <3> QED
      BY <2>5, <3>1
  <2>7. g = [Y \in SUBSET X |-> g[Y]]
    OBVIOUS
  <2> HIDE DEF g
  <2>8. Drops(st, X, g)
    BY ZenonT(40), <2>6, <2>7 DEF Drops
  <2> QED
    BY <2>1, <2>8
<1> QED
  BY <1>1

(* dropEach is the last step of such a way to drop.                           *)
LEMMA DropEachIsLast ==
    ASSUME NEW st, NEW D, IsFiniteSet(D)
    PROVE  \E f : Drops(st, D, f) /\ dropEach(st, D) = f[D]
<1> DEFINE f == CHOOSE f : Drops(st, D, f)
<1>1. Drops(st, D, f)
  BY DropsExist
<1>2. dropEach(st, D) = f[D]
  BY DEF dropEach, Drops, First, Rest
<1> QED
  BY ZenonT(40), <1>1, <1>2

(* server.go:747-756: a sweep takes the sessions it was given and no other, and *)
(* leaves the index in order, however many there are.                          *)
LEMMA SweepKeepsOrder ==
    ASSUME NEW st, InOrder(st), NEW D \in SUBSET Live(st)
    PROVE  /\ InOrder(dropEach(st, D))
           /\ Live(dropEach(st, D)) = Live(st) \ D
<1>0. IsFiniteSet(D) /\ D \subseteq Session
  BY FS_Subset, SessionsAssumption DEF Live
<1>1. PICK f : Drops(st, D, f) /\ dropEach(st, D) = f[D]
  BY <1>0, DropEachIsLast
<1> DEFINE Done(X) == InOrder(f[X]) /\ Live(f[X]) = Live(st) \ X
           Bad == {X \in SUBSET D : ~Done(X)}
<1>2. ASSUME Bad # {}  PROVE FALSE
  <2>1. Bad \in SUBSET SUBSET D
    OBVIOUS
  <2>2. PICK X \in Bad : \A Z \in Bad : Z \subseteq X => Z = X
    <3> HIDE DEF Bad
    <3> QED
      BY <1>0, <1>2, <2>1, SmallestMember
  <2>3. X \in SUBSET D /\ ~Done(X)
    BY <2>2
  <2>4. f[X] = IF X = {} THEN st ELSE dropSession(f[Rest(X)], First(X))
    BY <1>1, <2>3 DEF Drops
  <2>5. X # {}
    BY <2>3, <2>4
  <2>6. /\ First(X) \in X /\ Rest(X) \subseteq X /\ Rest(X) # X /\ First(X) \notin Rest(X)
        /\ X = Rest(X) \cup {First(X)}
    BY <2>5, RestIsLess DEF Rest
  <2>7. Done(Rest(X))
    BY SMTT(40), <2>2, <2>3, <2>6
  <2> DEFINE r == f[Rest(X)]
             id == First(X)
  <2>8. InOrder(r) /\ Live(r) = Live(st) \ Rest(X) /\ id \in Live(r) /\ f[X] = dropSession(r, id)
    BY <2>3, <2>4, <2>5, <2>6, <2>7
  <2> HIDE DEF r, id
  <2>9. InOrder(f[X]) /\ f[X].sessions = [r.sessions EXCEPT ![id] = Gone]
    BY SMTT(40), <2>8, DropKeepsOrder
  <2>10. Live(f[X]) = Live(r) \ {id}
    BY <2>8, <2>9 DEF Live, InOrder, Stores
  <2> QED
    BY <2>3, <2>6, <2>8, <2>9, <2>10 DEF id
<1>3. Done(D)
  BY <1>2
<1> QED
  BY <1>1, <1>3

-------------------------------------------------------------------------------
(* The numbers up to n.                                                        *)
LEMMA FirstNumbers ==
    ASSUME NEW n \in Nat
    PROVE  IsFiniteSet(1..n) /\ Cardinality(1..n) = n
<1>1. IsFiniteSet(1..n) /\ Cardinality(1..n) = IF 1 > n THEN 0 ELSE n - 1 + 1
  BY FS_Interval
<1> QED
  BY <1>1

Holders(st) == {c \in Client : st.byClient[c] # {}}

(* No more sessions live than there are holders, each with the most anyone    *)
(* holds.                                                                     *)
LEMMA LiveBound ==
    ASSUME NEW st, InOrder(st)
    PROVE  /\ IsFiniteSet(Live(st)) /\ Cardinality(Live(st)) \in Nat
           /\ clients(st) \in Nat /\ st.max \in Nat
           /\ Cardinality(Live(st)) <= clients(st) * st.max
<1> USE SessionsAssumption
<1>1. st \in Stores /\ Indexed(st) /\ Matched(st)
  BY DEF InOrder
<1>2. IsFiniteSet(Live(st)) /\ Cardinality(Live(st)) \in Nat
  BY FS_Subset, FS_CardinalityType DEF Live
<1>3. IsFiniteSet(Holders(st)) /\ clients(st) = Cardinality(Holders(st)) /\ clients(st) \in Nat
  BY FS_Subset, FS_CardinalityType DEF Holders, clients
<1>4. st.max \in Nat
  BY <1>1 DEF Stores
<1> DEFINE S(c) == st.byClient[c]
           nth(c) == CHOOSE f : f \in Bijection(1..Cardinality(S(c)), S(c))
           num(c, id) == CHOOSE n \in 1..Cardinality(S(c)) : nth(c)[n] = id
           place == [id \in Live(st) |-> <<st.sessions[id].client, num(st.sessions[id].client, id)>>]
<1>5. ASSUME NEW c \in Client  PROVE nth(c) \in Bijection(1..Cardinality(S(c)), S(c))
  <2>1. IsFiniteSet(S(c))
    BY <1>1, CountIsNat
  <2>2. ExistsBijection(1..Cardinality(S(c)), S(c))
    BY SMTT(40), <2>1, FS_CardinalityType
  <2> QED
    BY <2>2 DEF ExistsBijection
<1> HIDE DEF nth
<1>6. ASSUME NEW id \in Live(st)
      PROVE  LET c == st.sessions[id].client IN
             /\ c \in Client /\ c \in Holders(st) /\ num(c, id) \in 1..st.max /\ nth(c)[num(c, id)] = id
  <2> DEFINE c == st.sessions[id].client
  <2>1. c \in Client
    <3>1. st.sessions[id] \in [client : Client, age : Nat, idle : Nat]
      BY <1>1 DEF Stores, Live
    <3> QED
      BY <3>1
  <2>2. id \in S(c)
    BY <1>1, <2>1 DEF Matched
  <2>3. \E n \in 1..Cardinality(S(c)) : nth(c)[n] = id
    BY SMTT(40), <1>5, <2>1, <2>2 DEF Bijection, Surjection
  <2>4. num(c, id) \in 1..Cardinality(S(c)) /\ nth(c)[num(c, id)] = id
    BY SMTT(40), <2>3
  <2>5. Cardinality(S(c)) <= st.max /\ Cardinality(S(c)) \in Nat
    BY SMTT(40), <1>1, <2>1, CountIsNat DEF Indexed, count
  <2> HIDE DEF num
  <2>6. num(c, id) \in 1..st.max
    BY <1>4, <2>4, <2>5
  <2> QED
    BY <2>1, <2>2, <2>4, <2>6 DEF Holders
<1> HIDE DEF num
<1>7. place \in Injection(Live(st), Holders(st) \X (1..st.max))
  <2>1. place \in [Live(st) -> Holders(st) \X (1..st.max)]
    BY <1>6
  <2>2. ASSUME NEW a \in Live(st), NEW b \in Live(st), place[a] = place[b]  PROVE a = b
    <3>1. st.sessions[a].client = st.sessions[b].client
      BY <2>2
    <3>2. num(st.sessions[a].client, a) = num(st.sessions[b].client, b)
      BY <2>2
    <3> QED
      BY <1>6, <3>1, <3>2
  <2> HIDE DEF place
  <2> QED
    BY SMTT(40), <2>1, <2>2 DEF Injection, IsInjective
<1>8. IsFiniteSet(1..st.max) /\ Cardinality(1..st.max) = st.max
  BY <1>4, FirstNumbers
<1>9. /\ IsFiniteSet(Holders(st) \X (1..st.max))
      /\ Cardinality(Holders(st) \X (1..st.max)) = clients(st) * st.max
  <2>1. /\ IsFiniteSet(Holders(st) \X (1..st.max))
        /\ Cardinality(Holders(st) \X (1..st.max)) = Cardinality(Holders(st)) * Cardinality(1..st.max)
    BY ZenonT(40), <1>3, <1>8, FS_Product
  <2> QED
    BY <1>3, <1>8, <2>1
<1> HIDE DEF place
<1>10. Cardinality(Live(st)) <= Cardinality(Holders(st) \X (1..st.max))
  BY <1>7, <1>9, FS_Injection
<1> QED
  BY <1>2, <1>3, <1>4, <1>9, <1>10

(* The share divides the store among the clients entitled to it.              *)
LEMMA ShareDivides ==
    ASSUME NEW st, InOrder(st), NEW c \in Client
    PROVE  LET entitled == clients(st) + (IF count(st, c) = 0 THEN 1 ELSE 0)
               part == maxSessions \div entitled
           IN  /\ clients(st) \in Nat /\ part \in Nat /\ part * entitled <= maxSessions
               /\ share(st, c) = IF part >= minShare THEN part ELSE minShare
<1> USE SessionsAssumption
<1>1. clients(st) \in Nat
  BY LiveBound
<1>2. ASSUME count(st, c) # 0  PROVE clients(st) # 0
  <2>1. IsFiniteSet(Holders(st)) /\ clients(st) = Cardinality(Holders(st))
    BY FS_Subset DEF Holders, clients
  <2>2. st.byClient[c] # {}
    BY <1>2, FS_EmptySet DEF count
  <2>3. Holders(st) # {}
    BY <2>2 DEF Holders
  <2> QED
    BY <2>1, <2>3, FS_EmptySet
<1>3. clients(st) + (IF count(st, c) = 0 THEN 1 ELSE 0) \in Nat \ {0}
  BY <1>1, <1>2
<1> QED
  BY ZenonT(40), <1>1, <1>3, DivBound DEF share

(* holders.go:87-101 admit: a session is only ever taken from a client that    *)
(* holds more than the floor, and the most.                                   *)
LEMMA AdmitTakesFromMost ==
    ASSUME NEW st, InOrder(st), NEW c \in Client, NEW over \in admit(st, c)
    PROVE  /\ over \in Client /\ count(st, over) > minShare
           /\ \A d \in Client : count(st, d) <= count(st, over)
<1> USE SessionsAssumption
<1>1. st \in Stores /\ Indexed(st)
  BY DEF InOrder
<1>2. st.max # 0 /\ ~(st.max <= share(st, c)) /\ over \in st.bySize[st.max]
  BY DEF admit
<1>3. st.max \in Sizes
  BY <1>1, <1>2 DEF Stores, Sizes
<1>4. over \in Client /\ count(st, over) = st.max
  BY <1>1, <1>2, <1>3 DEF Indexed
<1>5. share(st, c) \in Nat /\ share(st, c) >= minShare
  BY ShareDivides
<1> QED
  BY <1>1, <1>2, <1>3, <1>4, <1>5 DEF Indexed, Sizes

(* holders.go:73-87 share: a full store turns a newcomer away only when every *)
(* holder is at the floor.                                                    *)
LEMMA NewcomerRefusedAtFloor ==
    ASSUME NEW st, InOrder(st), NEW c \in Client, count(st, c) = 0,
           sessionRoom(st, c) = "errStoreFull", NEW d \in Client
    PROVE  count(st, d) <= minShare
<1> USE SessionsAssumption
<1> DEFINE n == clients(st)
           live == Cardinality(Live(st))
           part == maxSessions \div (n + 1)
<1>1. st \in Stores /\ Indexed(st)
  BY DEF InOrder
<1>2. live >= maxSessions /\ admit(st, c) = {}
  BY DEF sessionRoom, Full
<1>3. st.max = 0 \/ st.max <= share(st, c)
  BY <1>1, <1>2 DEF admit, Indexed
<1>4. n \in Nat /\ part \in Nat /\ part * (n + 1) <= maxSessions
      /\ share(st, c) = IF part >= minShare THEN part ELSE minShare
  BY ShareDivides
<1>5. live \in Nat /\ st.max \in Nat /\ live <= n * st.max
  BY SMTT(40), LiveBound
<1>6. count(st, d) \in Nat /\ count(st, d) <= st.max
  BY <1>1, CountIsNat DEF Indexed
<1> HIDE DEF n, live, part
<1>7. ASSUME st.max > minShare  PROVE FALSE
  <2>1. part >= minShare /\ st.max <= part
    BY <1>3, <1>4, <1>5, <1>7
  <2>2. n * st.max <= n * part
    BY <1>4, <1>5, <2>1
  <2>3. part * (n + 1) = n * part + part
    BY <1>4
  <2>4. n * st.max \in Nat /\ n * part \in Nat
    BY SMTT(40), <1>4, <1>5
  <2> HIDE DEF part, n
  <2> QED
    BY SMTT(40), <1>2, <1>4, <1>5, <2>1, <2>2, <2>3, <2>4
<1> QED
  BY <1>5, <1>6, <1>7

(* server.go:803-818 useSession: an expired session is dropped, another one is *)
(* only noted as used.                                                        *)
LEMMA UseKeepsOrder ==
    ASSUME NEW st, InOrder(st), NEW id \in Session
    PROVE  LET after == useSession(st, id).store IN
           /\ InOrder(after)
           /\ \/ Live(after) = Live(st)
              \/ id \in Live(st) /\ Expired(st.sessions[id]) /\ Live(after) = Live(st) \ {id}
<1> DEFINE after == useSession(st, id).store
<1>0. st \in Stores /\ Indexed(st) /\ Matched(st)
  BY DEF InOrder
<1>1. CASE id \notin Live(st)
  BY <1>1 DEF useSession
<1>2. CASE id \in Live(st) /\ Expired(st.sessions[id])
  <2>1. after = dropSession(st, id)
    BY <1>2 DEF useSession
  <2>2. InOrder(after) /\ after.sessions = [st.sessions EXCEPT ![id] = Gone]
    BY <1>2, <2>1, DropKeepsOrder
  <2> HIDE DEF after
  <2>3. Live(after) = Live(st) \ {id}
    BY <1>0, <2>2 DEF Live, Stores
  <2> QED
    BY <1>2, <2>2, <2>3 DEF after
<1>3. CASE id \in Live(st) /\ ~Expired(st.sessions[id])
  <2> DEFINE used == [st.sessions[id] EXCEPT !.idle = 0]
             sessions == [st.sessions EXCEPT ![id] = used]
  <2>1. after = [st EXCEPT !.sessions[id].idle = 0]
    BY <1>3 DEF useSession
  <2>2. st.sessions[id] \in [client : Client, age : Nat, idle : Nat] /\ st.sessions[id] # Gone
    BY <1>0, <1>3 DEF Live, Stores
  <2>3. used \in [client : Client, age : Nat, idle : Nat] /\ used.client = st.sessions[id].client
    BY <2>2
  <2>4. used # Gone
    BY <2>3, SessionsAssumption DEF Gone
  <2>5. after = [st EXCEPT !.sessions = sessions]
    BY <2>1
  <2> HIDE DEF used
  <2>6. sessions \in [Session -> {Gone} \cup [client : Client, age : Nat, idle : Nat]]
    BY <1>0, <2>3 DEF Stores
  <2> HIDE DEF after, sessions
  <2>7. /\ after \in Stores /\ Indexed(after) /\ after.sessions = sessions /\ after.byClient = st.byClient
    BY <1>0, <2>5, <2>6, IndexIgnoresSessions
  <2>8. \A i \in Session : after.sessions[i] = IF i = id THEN used ELSE st.sessions[i]
    BY SMTT(40), <1>0, <2>7 DEF sessions, Stores
  <2>9. Live(after) = Live(st)
    BY SMTT(40), <1>3, <2>4, <2>8 DEF Live
  <2>10. Matched(after)
    BY SMTT(40), <1>0, <2>3, <2>7, <2>8, <2>9 DEF Matched, Live
  <2> QED
    BY <2>7, <2>9, <2>10 DEF InOrder, after
<1> QED
  BY <1>1, <1>2, <1>3

-------------------------------------------------------------------------------
FairInv ==
    /\ door \in Doors \cup {Shut}
    /\ InOrder(store)
    /\ Cardinality(Live(store)) <= maxSessions

(* server.go:777-801 addSession: a new session is stored, for the one that is *)
(* taken from a client that holds the most when the store is full.            *)
LEMMA AddSessionIsFair ==
    ASSUME NEW st, InOrder(st), Cardinality(Live(st)) <= maxSessions,
           NEW c \in Client, NEW id \in Session, NEW after \in addSession(st, c, id)
    PROVE  /\ InOrder(after) /\ Cardinality(Live(after)) <= maxSessions
           /\ \A i \in Live(st) : i \notin Live(after) =>
                 LET d == st.sessions[i].client IN
                 /\ count(st, d) > minShare
                 /\ \A e \in Client : count(st, e) <= count(st, d)
<1> USE SessionsAssumption
<1> DEFINE new == [client |-> c, age |-> 0, idle |-> 0]
           insert(s) == add([s EXCEPT !.sessions[id] = new], c, id)
           evicted == UNION {{dropSession(st, victim) : victim \in idlestSessionOf(st, over)}
                                : over \in admit(st, c)}
<1>0. new # Gone
  BY DEF Gone
<1>1. id \notin Live(st) /\ count(st, c) < maxSessionsPerClient
  <2>1. id \notin Live(st) /\ ~(count(st, c) >= maxSessionsPerClient)
    BY DEF addSession
  <2>2. count(st, c) \in Nat
    BY CountIsNat DEF InOrder
  <2> QED
    BY <2>1, <2>2
<1>2. IsFiniteSet(Live(st)) /\ Cardinality(Live(st)) \in Nat
  BY SMTT(40), LiveBound
<1>3. ASSUME NEW s, InOrder(s), id \notin Live(s), count(s, c) < maxSessionsPerClient
      PROVE  InOrder(insert(s)) /\ Live(insert(s)) = Live(s) \cup {id}
  <2>1. InOrder(insert(s)) /\ insert(s).sessions = [s.sessions EXCEPT ![id] = new]
    BY SMTT(40), <1>3, InsertKeepsOrder
  <2> HIDE DEF new, insert
  <2>2. Live(insert(s)) = Live(s) \cup {id}
    BY SMTT(40), <1>0, <1>3, <2>1 DEF Live, InOrder, Stores
  <2> QED
    BY <2>1, <2>2
<1>4. CASE ~Full(st)
  <2>1. after = insert(st)
    BY <1>1, <1>4 DEF addSession
  <2> HIDE DEF insert
  <2>2. InOrder(after) /\ Live(after) = Live(st) \cup {id}
    BY <1>1, <1>3, <2>1
  <2>3. Cardinality(Live(st) \cup {id}) = Cardinality(Live(st)) + 1
    BY ZenonT(40), <1>1, <1>2, FS_AddElement
  <2>4. Cardinality(Live(st)) < maxSessions
    BY SMTT(40), <1>2, <1>4 DEF Full
  <2> QED
    BY <1>2, <2>2, <2>3, <2>4
<1>5. CASE Full(st)
  <2>1. PICK s \in evicted : after = insert(s)
    BY ZenonT(40), <1>1, <1>5 DEF addSession
  <2>a. PICK over \in admit(st, c) : \E v \in idlestSessionOf(st, over) : s = dropSession(st, v)
    BY <2>1
  <2>2. PICK victim \in idlestSessionOf(st, over) : s = dropSession(st, victim)
    BY <2>a
  <2> HIDE DEF insert, evicted
  <2>3. /\ over \in Client /\ count(st, over) > minShare
        /\ \A d \in Client : count(st, d) <= count(st, over)
    BY SMTT(40), <2>2, AdmitTakesFromMost
  <2>4. victim \in Live(st) /\ st.sessions[victim].client = over
    BY SMTT(40), <2>2, <2>3 DEF idlestSessionOf, InOrder, Matched
  <2>5. InOrder(s) /\ s.sessions = [st.sessions EXCEPT ![victim] = Gone]
    BY SMTT(40), <2>2, <2>4, DropKeepsOrder
  <2>6. Live(s) = Live(st) \ {victim}
    BY SMTT(40), <2>4, <2>5 DEF Live, InOrder, Stores
  <2>7. count(s, c) < maxSessionsPerClient
    <3>1. s.byClient[c] \subseteq st.byClient[c]
      BY SMTT(40), <2>5, <2>6 DEF InOrder, Matched, Live, Stores
    <3>2. IsFiniteSet(st.byClient[c]) /\ count(st, c) \in Nat /\ count(s, c) \in Nat
      BY SMTT(40), <2>5, CountIsNat DEF InOrder
    <3>3. Cardinality(s.byClient[c]) <= Cardinality(st.byClient[c])
      BY SMTT(40), <3>1, <3>2, FS_Subset
    <3> QED
      BY SMTT(40), <1>1, <3>2, <3>3 DEF count
  <2>8. InOrder(after) /\ Live(after) = Live(s) \cup {id}
    BY SMTT(40), <1>1, <1>3, <2>1, <2>5, <2>6, <2>7
  <2>9. Cardinality(Live(after)) = Cardinality(Live(st))
    <3>1. IsFiniteSet(Live(s)) /\ Cardinality(Live(s)) = Cardinality(Live(st)) - 1
      BY SMTT(40), <1>2, <2>4, <2>6, FS_RemoveElement
    <3>2. Cardinality(Live(s) \cup {id}) = Cardinality(Live(s)) + 1
      BY ZenonT(40), <1>1, <2>6, <3>1, FS_AddElement
    <3> QED
      BY SMTT(40), <1>2, <2>8, <3>1, <3>2
  <2> QED
    BY <2>3, <2>4, <2>6, <2>8, <2>9
<1> QED
  BY <1>4, <1>5

(* holders.go and server.go: for any clients, any store and limits of any size, *)
(* and whatever requests, expiries and sweeps race, the store stays shared out  *)
(* and a session is only taken from a client that holds the most.              *)
THEOREM SessionsStayFair == SessionsSpec => SessionsFair
<1> USE SessionsAssumption
<1>1. SessionsInit => FairInv
  <2> SUFFICES ASSUME SessionsInit PROVE FairInv
    BY SMTT(40)
  <2>1. store \in Stores
    BY DEF SessionsInit, NewServer, Stores, Sizes
  <2>2. Live(store) = {}
    BY DEF SessionsInit, NewServer, Live
  <2>3. \A c \in Client : store.byClient[c] = {} /\ count(store, c) = 0
    BY FS_EmptySet DEF SessionsInit, NewServer, count
  <2>4. store.max = 0 /\ \A n \in Sizes : store.bySize[n] = {}
    BY DEF SessionsInit, NewServer, Sizes
  <2>5. InOrder(store)
    BY SMTT(40), <2>1, <2>2, <2>3, <2>4 DEF InOrder, Indexed, Matched, Sizes
  <2> QED
    BY <2>2, <2>5, FS_EmptySet DEF FairInv, SessionsInit
<1>2. FairInv /\ [SessionsNext]_sessionVars => FairInv' /\ [TakenFromMost]_store
  <2> SUFFICES ASSUME FairInv, [SessionsNext]_sessionVars
               PROVE  FairInv' /\ [TakenFromMost]_store
    OBVIOUS
  <2>0. IsFiniteSet(Live(store)) /\ Cardinality(Live(store)) \in Nat
    BY SMTT(40), LiveBound DEF FairInv
  <2>k. ASSUME UNCHANGED <<door, store>>  PROVE FairInv' /\ [TakenFromMost]_store
    BY SMTT(40), <2>k DEF FairInv, InOrder, Stores, Indexed, Matched, Live, count
  <2>s. ASSUME NEW after, store' = after, InOrder(after), Live(after) \subseteq Live(store), UNCHANGED door,
               \A id \in Live(store) : id \notin Live(after) => Expired(store.sessions[id])
        PROVE  FairInv' /\ [TakenFromMost]_store
    <3>1. Cardinality(Live(after)) <= Cardinality(Live(store)) /\ Cardinality(Live(after)) \in Nat
      BY SMTT(40), <2>0, <2>s, FS_Subset, FS_CardinalityType
    <3>2. Live(store)' = Live(after) /\ (InOrder(store)' <=> InOrder(after))
      BY <2>s DEF Live, InOrder, Stores, Indexed, Matched, count
    <3> QED
      BY SMTT(40), <2>0, <2>s, <3>1, <3>2 DEF FairInv, TakenFromMost
  <2>1. ASSUME NEW c \in Client, AttestPQ(c) \/ AttestPQFails(c)
        PROVE  FairInv' /\ [TakenFromMost]_store
    BY SMTT(40), <2>1, <2>k DEF AttestPQ, AttestPQFails
  <2>2. ASSUME NEW c \in Client, Establish(c)  PROVE FairInv' /\ [TakenFromMost]_store
    <3> DEFINE id == CHOOSE i \in Unused : TRUE
    <3>1. id \in Session
      <4>1. id \in door.ids
        BY ZenonT(40), <2>2 DEF Establish, Unused
      <4>2. door.ids \subseteq Session
        BY DEF FairInv, Doors, Shut
      <4> QED
        BY SMTT(40), <4>1, <4>2
    <3>2. store' \in addSession(store, c, id) /\ UNCHANGED door
      BY SMTT(40), <2>2 DEF Establish
    <3> HIDE DEF id
    <3> DEFINE after == store'
    <3>3. /\ InOrder(after) /\ Cardinality(Live(after)) <= maxSessions
          /\ \A i \in Live(store) : i \notin Live(after) =>
                LET d == store.sessions[i].client IN
                /\ count(store, d) > minShare
                /\ \A e \in Client : count(store, e) <= count(store, d)
      BY <3>1, <3>2, AddSessionIsFair DEF FairInv
    <3>4. Live(store)' = Live(after) /\ (InOrder(store)' <=> InOrder(after))
      BY DEF Live, InOrder, Stores, Indexed, Matched, count
    <3> HIDE DEF after
    <3> QED
      BY <3>2, <3>3, <3>4 DEF FairInv, TakenFromMost
  <2>3. CASE sweep
    <3> DEFINE dead == {id \in Live(store) : Expired(store.sessions[id])}
    <3>1. store' = dropEach(store, dead) /\ UNCHANGED door
      BY <2>3 DEF sweep
    <3>2. InOrder(dropEach(store, dead)) /\ Live(dropEach(store, dead)) = Live(store) \ dead
      BY SweepKeepsOrder DEF FairInv
    <3> QED
      BY <2>s, <3>1, <3>2
  <2>4. CASE DoorTick
    <3> DEFINE aged == [id \in Session |-> IF store.sessions[id] = Gone THEN Gone ELSE Aged(store.sessions[id])]
               after == [store EXCEPT !.sessions = aged]
    <3>1. store' = after /\ UNCHANGED door
      BY <2>4 DEF DoorTick
    <3>2. store \in Stores /\ Indexed(store) /\ Matched(store)
      BY DEF FairInv, InOrder
    <3>3. ASSUME NEW id \in Session, store.sessions[id] # Gone
          PROVE  /\ Aged(store.sessions[id]) \in [client : Client, age : Nat, idle : Nat]
                 /\ Aged(store.sessions[id]).client = store.sessions[id].client
                 /\ Aged(store.sessions[id]) # Gone
      <4> DEFINE s == store.sessions[id]
      <4>1. s \in [client : Client, age : Nat, idle : Nat]
        BY <3>2, <3>3 DEF Stores
      <4> HIDE DEF s
      <4>2. Capped(s.age, SessionMaxAge) \in Nat /\ Capped(s.idle, SessionTTL) \in Nat
        BY <4>1 DEF Capped
      <4>3. Aged(s) = [s EXCEPT !.age = Capped(s.age, SessionMaxAge), !.idle = Capped(s.idle, SessionTTL)]
        BY DEF Aged
      <4>4. Aged(s) \in [client : Client, age : Nat, idle : Nat] /\ Aged(s).client = s.client
        BY ZenonT(40), <4>1, <4>2, <4>3
      <4>5. Aged(s) # Gone
        BY SMTT(40), <4>1, <4>4 DEF Gone
      <4> QED
        BY <4>4, <4>5 DEF s
    <3>4. aged \in [Session -> {Gone} \cup [client : Client, age : Nat, idle : Nat]]
      BY <3>3
    <3>5. /\ after \in Stores /\ Indexed(after) /\ after.sessions = aged /\ after.byClient = store.byClient
      <4> HIDE DEF aged
      <4> QED
        BY SMTT(40), <3>2, <3>4, IndexIgnoresSessions
    <3> HIDE DEF after
    <3>6. Live(after) = Live(store)
      BY SMTT(40), <3>3, <3>5 DEF Live
    <3>7. \A id \in Live(store) : after.sessions[id].client = store.sessions[id].client
      BY SMTT(40), <3>3, <3>5 DEF Live
    <3> HIDE DEF aged
    <3>8. Matched(after)
      BY <3>2, <3>5, <3>6, <3>7 DEF Matched
    <3>9. InOrder(after)
      BY SMTT(40), <3>5, <3>8 DEF InOrder
    <3> QED
      BY <2>s, <3>1, <3>6, <3>9
  <2>5. ASSUME NEW id \in Session, TunnelGarbage(id)  PROVE FairInv' /\ [TakenFromMost]_store
    <3> DEFINE after == useSession(store, id).store
    <3>1. store' = after /\ UNCHANGED door
      BY SMTT(40), <2>5 DEF TunnelGarbage
    <3>2. /\ InOrder(after)
          /\ \/ Live(after) = Live(store)
             \/ id \in Live(store) /\ Expired(store.sessions[id]) /\ Live(after) = Live(store) \ {id}
      BY SMTT(40), UseKeepsOrder DEF FairInv
    <3> HIDE DEF after
    <3> QED
      BY <2>s, <3>1, <3>2
  <2>6. ASSUME NEW t \in Thread, NEW id \in Session, NEW rec, HandleTunnel(t, id, rec)
        PROVE  FairInv' /\ [TakenFromMost]_store
    <3> DEFINE after == useSession(store, id).store
    <3>1. store' = after /\ UNCHANGED door
      BY SMTT(40), <2>6 DEF HandleTunnel
    <3>2. /\ InOrder(after)
          /\ \/ Live(after) = Live(store)
             \/ id \in Live(store) /\ Expired(store.sessions[id]) /\ Live(after) = Live(store) \ {id}
      BY SMTT(40), UseKeepsOrder DEF FairInv
    <3> HIDE DEF after
    <3> QED
      BY SMTT(40), <2>s, <3>1, <3>2
  <2>7. ASSUME NEW id \in Session, SealRequest(id)  PROVE FairInv' /\ [TakenFromMost]_store
    BY <2>7, <2>k DEF SealRequest
  <2>8. ASSUME NEW t \in Thread, OpenRequest(t) \/ SealResponse(t)
        PROVE  FairInv' /\ [TakenFromMost]_store
    BY <2>8, <2>k DEF OpenRequest, SealResponse
  <2>9. CASE UNCHANGED sessionVars
    BY SMTT(40), <2>9, <2>k DEF sessionVars
  <2> QED
    BY ZenonT(40), <2>1, <2>2, <2>3, <2>4, <2>5, <2>6, <2>7, <2>8, <2>9 DEF SessionsNext
<1>3. FairInv => SharedOut
  <2> SUFFICES ASSUME FairInv PROVE SharedOut
    OBVIOUS
  <2>1. store \in Stores /\ Indexed(store) /\ Matched(store)
    BY DEF FairInv, InOrder
  <2>2. DOMAIN store.bySize = Sizes
    BY <2>1 DEF Stores
  <2>3. ASSUME NEW c \in Client, sessionRoom(store, c) = "errStoreFull", count(store, c) = 0, NEW d \in Client
        PROVE  count(store, d) <= minShare
    BY SMTT(40), <2>3, NewcomerRefusedAtFloor DEF FairInv
  <2> QED
    BY <2>1, <2>2, <2>3 DEF SharedOut, Indexed, Matched, FairInv
<1> QED
  BY <1>1, <1>2, <1>3, PTL DEF SessionsSpec, SessionsFair

================================================================================
