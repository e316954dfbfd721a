----------------------------- MODULE AttestSessions -----------------------------
(***************************************************************************)
(* The over-encrypted sessions of the router pod's attestation sidecar:    *)
(* internal/cmds/cdsattest (server.go, holders.go) with the channel of     *)
(* pkg/overenc.  Clients establish sessions in a store that is shared out  *)
(* between them, and send sealed requests through them; whatever carries   *)
(* the requests may delay, repeat and reorder them.  A sealed record is    *)
(* its session and its sequence number, and anyone may hold a copy of any  *)
(* record sealed so far.  Ages are counted up to one tick past the limit.  *)
(***************************************************************************)
EXTENDS Integers, FiniteSets

CONSTANTS Client,               \* buckets requests are counted in, positive numbers
          Session,              \* session ids, positive numbers
          maxSessions, maxSessionsPerClient, minShare,
          SessionTTL, SessionMaxAge,
          replayWindow,         \* bits of seqMask
          Thread,               \* tunnel requests being handled at once
          MaxAsks,              \* bound on attest-pq requests at once
          MaxSeq                \* bound on the requests sealed in one session

ASSUME SessionsAssumption ==
    /\ maxSessions \in Nat \ {0} /\ maxSessionsPerClient \in Nat \ {0}
    /\ minShare \in Nat \ {0} /\ replayWindow \in Nat \ {0}
    /\ 1 \in Client /\ {1, 2} \subseteq Session
    /\ IsFiniteSet(Client) /\ 0 \notin Client /\ IsFiniteSet(Session)

VARIABLES door,                 \* the load, Shut when the sidecar is not looked at
          store,                \* Server.sessions and Server.sessionsBy
          asking,               \* attest-pq requests that passed sessionRoom
          channel,              \* overenc.Channel of both ends, by session
          handling,             \* tunnel requests past useSession, by thread
          forwards,             \* how often a record's request reached the backend
          replies               \* sealed responses, with the request they answer

sessionVars == <<door, store, asking, channel, handling, forwards, replies>>

Shut == [clients |-> {}, ids |-> {}, asks |-> 0, seqs |-> 0]

(* The loads looked at: clients that compete for the store, one session with a *)
(* long exchange, two sessions whose records may be swapped.                   *)
Doors == {[clients |-> Client, ids |-> Session, asks |-> MaxAsks, seqs |-> 0],
          [clients |-> {1}, ids |-> {1}, asks |-> 1, seqs |-> MaxSeq],
          [clients |-> {1}, ids |-> {1, 2}, asks |-> 1, seqs |-> 1]}

Gone == [client |-> 0, age |-> 0, idle |-> 0]

Idle == [session |-> 0, seq |-> 0, at |-> "idle"]

newChannel == [next |-> 0, seqHigh |-> 0, seqMask |-> {}]

NewServer == [sessions |-> [id \in Session |-> Gone],
              byClient |-> [c \in Client |-> {}],
              bySize |-> [n \in 1..maxSessionsPerClient |-> {}],
              max |-> 0]

SessionsInit ==
    /\ door \in Doors \cup {Shut}
    /\ store = NewServer
    /\ asking = [c \in Client |-> 0]
    /\ channel = [id \in Session |-> newChannel]
    /\ handling = [t \in Thread |-> Idle]
    /\ forwards = [id \in Session |-> <<>>]
    /\ replies = {}

-------------------------------------------------------------------------------
(* holders.go: the sessions each client holds, and the clients by how many.    *)

Live(st) == {id \in Session : st.sessions[id] # Gone}

count(h, c) == Cardinality(h.byClient[c])

clients(h) == Cardinality({c \in Client : h.byClient[c] # {}})

(* The index by size follows a client from one size to another; max comes down *)
(* to a size some client has.                                                  *)
resize(h, c, was, size) ==
    LET sizes == [n \in DOMAIN h.bySize |->
                     (h.bySize[n] \ (IF n = was THEN {c} ELSE {}))
                         \cup (IF n = size THEN {c} ELSE {})]
        tops == {n \in DOMAIN sizes : sizes[n] # {} /\ (n <= h.max \/ n = size)}
    IN  [h EXCEPT !.bySize = sizes,
                  !.max = IF tops = {} THEN 0 ELSE CHOOSE n \in tops : \A m \in tops : m <= n]

add(h, c, id) ==
    IF id \in h.byClient[c] THEN h
    ELSE resize([h EXCEPT !.byClient[c] = @ \cup {id}], c, count(h, c), count(h, c) + 1)

remove(h, c, id) ==
    IF id \notin h.byClient[c] THEN h
    ELSE resize([h EXCEPT !.byClient[c] = @ \ {id}], c, count(h, c), count(h, c) - 1)

(* What every holder is entitled to, the client that asks counted in.          *)
share(h, want) ==
    LET entitled == clients(h) + (IF count(h, want) = 0 THEN 1 ELSE 0)
        part == maxSessions \div entitled
    IN  IF part >= minShare THEN part ELSE minShare

(* Mutant: the share has no floor. *)
admitWithoutFloor(h, want) ==
    LET entitled == clients(h) + (IF count(h, want) = 0 THEN 1 ELSE 0)
    IN  IF h.max <= maxSessions \div entitled THEN {} ELSE h.bySize[h.max]

(* The clients a full store may take a session from; none when nobody is over  *)
(* its share.                                                                  *)
admit(h, want) == IF h.max = 0 \/ h.max <= share(h, want) THEN {} ELSE h.bySize[h.max]

-------------------------------------------------------------------------------
(* server.go: the store.                                                       *)

Full(st) == Cardinality(Live(st)) >= maxSessions

(* "ok", or why a session for c may not be admitted.                           *)
sessionRoom(st, c) ==
    IF count(st, c) >= maxSessionsPerClient THEN "errSessionsFull"
    ELSE IF Full(st) /\ admit(st, c) = {} THEN "errStoreFull"
    ELSE "ok"

dropSession(st, id) ==
    remove([st EXCEPT !.sessions[id] = Gone], st.sessions[id].client, id)

(* The sessions of a client that were used longest ago.                        *)
idlestSessionOf(st, c) ==
    {id \in st.byClient[c] : \A other \in st.byClient[c] :
        st.sessions[other].idle <= st.sessions[id].idle}

(* The stores addSession may leave, none when it refuses.                      *)
addSession(st, c, id) ==
    LET insert(s) == add([s EXCEPT !.sessions[id] = [client |-> c, age |-> 0, idle |-> 0]], c, id)
        evicted == UNION {{dropSession(st, victim) : victim \in idlestSessionOf(st, over)}
                             : over \in admit(st, c)}
    IN  IF id \in Live(st) \/ count(st, c) >= maxSessionsPerClient THEN {}
        ELSE IF Full(st) THEN {insert(s) : s \in evicted}
        ELSE {insert(st)}

Expired(s) == s.idle > SessionTTL \/ s.age > SessionMaxAge

(* A session's channel, for requests that name it: absent when it expired.     *)
useSession(st, id) ==
    IF id \notin Live(st) THEN [ok |-> FALSE, store |-> st]
    ELSE IF Expired(st.sessions[id]) THEN [ok |-> FALSE, store |-> dropSession(st, id)]
    ELSE [ok |-> TRUE, store |-> [st EXCEPT !.sessions[id].idle = 0]]

(* An id nobody can name: 128 random bits.                                     *)
Unused == {id \in door.ids : /\ id \notin Live(store)
                             /\ \A t \in Thread : handling[t].session # id
                             /\ channel[id].next = 0}

Asks == Cardinality({p \in Client \X (1..MaxAsks) : p[2] <= asking[p[1]]})

(* handleAttestPQ up to the report: the store is asked before anything is made.*)
AttestPQ(c) ==
    /\ c \in door.clients
    /\ Asks < door.asks
    /\ sessionRoom(store, c) = "ok"
    /\ asking' = [asking EXCEPT ![c] = @ + 1]
    /\ UNCHANGED <<door, store, channel, handling, forwards, replies>>

(* No identity, no evidence, or no room when it comes to storing the session,  *)
(* a taken id included: the request fails and leaves nothing behind.           *)
AttestPQFails(c) ==
    /\ asking[c] > 0
    /\ asking' = [asking EXCEPT ![c] = @ - 1]
    /\ UNCHANGED <<door, store, channel, handling, forwards, replies>>

(* The rest of handleAttestPQ: addSession decides again, under the lock.       *)
Establish(c) ==
    /\ asking[c] > 0
    /\ Unused # {}
    /\ LET id == CHOOSE i \in Unused : TRUE IN
          \E s \in addSession(store, c, id) :
              /\ store' = s
              /\ channel' = [channel EXCEPT ![id] = newChannel]
              /\ forwards' = [forwards EXCEPT ![id] = [n \in 1..door.seqs |-> 0]]
    /\ asking' = [asking EXCEPT ![c] = @ - 1]
    /\ UNCHANGED <<door, handling, replies>>

(* The store without these sessions, dropped one after the other.              *)
dropEach(st, dead) ==
    LET drop[D \in SUBSET dead] ==
            IF D = {} THEN st
            ELSE LET id == CHOOSE id \in D : TRUE IN dropSession(drop[D \ {id}], id)
    IN  drop[dead]

sweep ==
    /\ \E id \in Live(store) : Expired(store.sessions[id])
    /\ store' = dropEach(store, {id \in Live(store) : Expired(store.sessions[id])})
    /\ UNCHANGED <<door, asking, channel, handling, forwards, replies>>

Capped(n, limit) == IF n > limit THEN n ELSE n + 1

Aged(s) == [s EXCEPT !.age = Capped(@, SessionMaxAge), !.idle = Capped(@, SessionTTL)]

DoorTick ==
    /\ Live(store) # {}
    /\ store' = [store EXCEPT !.sessions = [id \in Session |-> IF @[id] = Gone THEN Gone ELSE Aged(@[id])]]
    /\ UNCHANGED <<door, asking, channel, handling, forwards, replies>>

-------------------------------------------------------------------------------
(* pkg/overenc: one channel, its client end counting, its server end keeping   *)
(* a window of the sequence numbers it took.                                   *)

SealRequest(id) ==
    /\ id \in Live(store)
    /\ channel[id].next < door.seqs
    /\ channel' = [channel EXCEPT ![id].next = @ + 1]
    /\ UNCHANGED <<door, store, asking, handling, forwards, replies>>

(* The mask after a shift: bits past its width fall off.                       *)
Shift(mask, by) == {b \in 0..(replayWindow - 1) : b - by \in mask}

(* Mutant: the oldest number is one past the mask, where no bit is. *)
acceptSeqPastWindow(ch, seq) ==
    LET back == ch.seqHigh - seq IN
    IF seq > ch.seqHigh
    THEN [ok |-> TRUE, ch |-> [ch EXCEPT !.seqHigh = seq,
                                  !.seqMask = Shift(@, seq - ch.seqHigh) \cup {0}]]
    ELSE IF back > replayWindow \/ back \in ch.seqMask THEN [ok |-> FALSE, ch |-> ch]
    ELSE [ok |-> TRUE, ch |-> [ch EXCEPT !.seqMask = @ \cup ({back} \cap (0..(replayWindow - 1)))]]

acceptSeq(ch, seq) ==
    LET back == ch.seqHigh - seq IN
    IF seq > ch.seqHigh
    THEN [ok |-> TRUE, ch |-> [ch EXCEPT !.seqHigh = seq,
                                  !.seqMask = Shift(@, seq - ch.seqHigh) \cup {0}]]
    ELSE IF back >= replayWindow \/ back \in ch.seqMask THEN [ok |-> FALSE, ch |-> ch]
    ELSE [ok |-> TRUE, ch |-> [ch EXCEPT !.seqMask = @ \cup {back}]]

(* A record sealed for this session authenticates; the number zero never does. *)
Openable(id, rec) == rec.session = id /\ rec.seq # 0

(* handleTunnel up to the record: any record ever sealed, under any session's  *)
(* header.                                                                     *)
HandleTunnel(t, id, rec) ==
    /\ handling[t] = Idle
    /\ rec.seq \in 1..channel[rec.session].next
    /\ LET use == useSession(store, id) IN
          /\ store' = use.store
          /\ handling' = IF use.ok /\ Openable(id, rec)
                         THEN [handling EXCEPT ![t] = [session |-> id, seq |-> rec.seq, at |-> "open"]]
                         ELSE handling
    /\ UNCHANGED <<door, asking, channel, forwards, replies>>

(* A request whose record is unreadable, or sealed by nobody: it keeps the     *)
(* session from being idle and is refused.                                     *)
TunnelGarbage(id) ==
    /\ id \in Live(store)
    /\ store' = useSession(store, id).store
    /\ UNCHANGED <<door, asking, channel, handling, forwards, replies>>

(* OpenRequest, and Forward when it succeeds; the session may be gone by now,  *)
(* the request holds its channel.                                              *)
OpenRequest(t) ==
    /\ handling[t].at = "open"
    /\ LET id == handling[t].session
           seq == handling[t].seq
           took == acceptSeq(channel[id], seq)
       IN  /\ channel' = [channel EXCEPT ![id] = took.ch]
           /\ forwards' = IF took.ok THEN [forwards EXCEPT ![id][seq] = @ + 1] ELSE forwards
           /\ handling' = [handling EXCEPT ![t] = IF took.ok THEN [@ EXCEPT !.at = "seal"] ELSE Idle]
    /\ UNCHANGED <<door, store, asking, replies>>

(* The backend's answer, or a 502 in its place, is sealed under the number of  *)
(* the request.                                                                *)
SealResponse(t) ==
    /\ handling[t].at = "seal"
    /\ replies' = replies \cup {[session |-> handling[t].session, seq |-> handling[t].seq,
                                 of |-> handling[t].seq]}
    /\ handling' = [handling EXCEPT ![t] = Idle]
    /\ UNCHANGED <<door, store, asking, channel, forwards>>

(* The client takes a response to its request n on session id.                 *)
OpenResponse(reply, id, n) == reply.session = id /\ reply.seq = n

SessionsNext ==
    \/ \E c \in Client : AttestPQ(c) \/ AttestPQFails(c) \/ Establish(c)
    \/ sweep
    \/ DoorTick
    \/ \E id \in Session : SealRequest(id) \/ TunnelGarbage(id)
    \/ \E t \in Thread :
          \/ \E id, by \in Session, n \in 1..door.seqs : HandleTunnel(t, id, [session |-> by, seq |-> n])
          \/ OpenRequest(t)
          \/ SealResponse(t)

SessionsSpec == SessionsInit /\ [][SessionsNext]_sessionVars

-------------------------------------------------------------------------------
(* The index says what the store holds, neither limit is passed, and a client  *)
(* that holds nothing is turned away only when every holder is at the floor.   *)
SharedOut ==
    /\ \A c \in Client : store.byClient[c] = {id \in Live(store) : store.sessions[id].client = c}
    /\ \A n \in DOMAIN store.bySize : store.bySize[n] = {c \in Client : count(store, c) = n}
    /\ Cardinality(Live(store)) <= maxSessions
    /\ \A c \in Client : /\ count(store, c) <= store.max
                         /\ (sessionRoom(store, c) = "errStoreFull" /\ count(store, c) = 0)
                                => \A d \in Client : count(store, d) <= minShare

(* A session that has not expired goes only to make room, from a client over   *)
(* the floor that holds the most.                                              *)
TakenFromMost ==
    \A id \in Live(store) : LET c == store.sessions[id].client IN
        (id \notin Live(store)' /\ ~Expired(store.sessions[id])) =>
            /\ count(store, c) > minShare
            /\ \A d \in Client : count(store, d) <= count(store, c)

(* holders.go:73-87 and server.go:761-797: whatever requests race between the  *)
(* first look at the store and the second, the store stays shared out, and     *)
(* room is made at the expense of those who hold the most.                     *)
SessionsFair ==
    /\ [](door # Shut => SharedOut)
    /\ [][TakenFromMost]_store

(* pkg/overenc/overenc.go:314-377: a sealed request reaches the backend at most *)
(* once, however its record is repeated, delayed past the window or handled by  *)
(* two threads at once; and the only response a client takes for a request is   *)
(* the one to that request.                                                     *)
TunnelOnce ==
    /\ \A id \in Session : \A n \in DOMAIN forwards[id] : forwards[id][n] <= 1
    /\ \A r \in replies : \A n \in DOMAIN forwards[r.session] :
          OpenResponse(r, r.session, n) => r.of = n /\ forwards[r.session][n] = 1
================================================================================
