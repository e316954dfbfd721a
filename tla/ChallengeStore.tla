---------------------------- MODULE ChallengeStore ----------------------------
(***************************************************************************)
(* internal/attestation/challenge.go: the store of short-lived attestation *)
(* challenges behind CDS's /attest and, in a second pool, /secrets.  Every *)
(* method runs under one mutex, so each is one action.  The map and the    *)
(* queue that orders it are kept apart, as in the code: a consumed key     *)
(* leaves the map at once and the queue only when it reaches the front or  *)
(* a compaction passes it.                                                 *)
(***************************************************************************)
EXTENDS Clock, Sequences, FiniteSets

CONSTANTS Challenge,       \* the values rand.Read can produce
          MaxChallenges,   \* maxChallenges
          ChallengeTTL     \* ttl, in clock ticks

ASSUME ChallengeAssumption ==
    /\ MaxChallenges \in Nat \ {0}
    /\ ChallengeTTL \in Nat \ {0}

VARIABLES challenges,      \* live challenge -> time it was created
          issued,          \* the keys oldest-first
          minted,          \* history: every challenge ever created
          accepted         \* history: challenge -> times Consume returned true

challengeVars == <<challenges, issued, now, minted, accepted>>

Live == DOMAIN challenges

Fresh(c) == c \in Live /\ now - challenges[c] < ChallengeTTL

(* A map without the keys in S. *)
Without(m, S) == [c \in DOMAIN m \ S |-> m[c]]

ChallengeInit ==
    /\ challenges = <<>>
    /\ issued = <<>>
    /\ ClockInit
    /\ minted = {}
    /\ accepted = [c \in Challenge |-> 0]

(***************************************************************************)
(* The three ways Create makes room.  Each maps a store to a store; a      *)
(* store is a record of the map and the queue.                             *)
(***************************************************************************)
FreshIn(st, c) == c \in DOMAIN st.map /\ now - st.map[c] < ChallengeTTL

(* The loop stops at the first key that is live and unexpired. *)
dropExpired(st) ==
    LET stops == {i \in DOMAIN st.queue : FreshIn(st, st.queue[i])}
        first == IF stops = {} THEN Len(st.queue) + 1
                 ELSE CHOOSE i \in stops : \A j \in stops : i <= j
        gone  == {st.queue[i] : i \in 1 .. first - 1}
    IN  [map   |-> Without(st.map, gone),
         queue |-> SubSeq(st.queue, first, Len(st.queue))]

compact(st) ==
    LET expired == {c \in DOMAIN st.map : ~FreshIn(st, c)}
        Kept(c) == FreshIn(st, c)
    IN  [map   |-> Without(st.map, expired \cap {st.queue[i] : i \in DOMAIN st.queue}),
         queue |-> SelectSeq(st.queue, Kept)]

dropOldest(st) ==
    IF st.queue = <<>> THEN st
    ELSE [map |-> Without(st.map, {Head(st.queue)}), queue |-> Tail(st.queue)]

(* Mutant of MakeRoom: the queue is never compacted. *)
MakeRoomUncompacted ==
    LET a == dropExpired([map |-> challenges, queue |-> issued])
    IN  IF Cardinality(DOMAIN a.map) >= MaxChallenges THEN dropOldest(a) ELSE a

MakeRoom ==
    LET a == dropExpired([map |-> challenges, queue |-> issued])
        b == IF Len(a.queue) >= 2 * MaxChallenges THEN compact(a) ELSE a
    IN  IF Cardinality(DOMAIN b.map) >= MaxChallenges THEN dropOldest(b) ELSE b

(* Mutant: the map holds the time of expiry. *)
CreateStampsExpiry(c) ==
    /\ c \notin minted
    /\ challenges' = [d \in DOMAIN MakeRoom.map \union {c} |->
                        IF d = c THEN now + ChallengeTTL ELSE MakeRoom.map[d]]
    /\ issued' = Append(MakeRoom.queue, c)
    /\ minted' = minted \union {c}
    /\ UNCHANGED <<now, accepted>>

(* rand.Read never repeats a value: 32 bytes of a CSPRNG. *)
Create(c) ==
    /\ c \notin minted
    /\ LET st == MakeRoom
       IN  /\ challenges' = [d \in DOMAIN st.map \union {c} |->
                                IF d = c THEN now ELSE st.map[d]]
           /\ issued' = Append(st.queue, c)
    /\ minted' = minted \union {c}
    /\ UNCHANGED <<now, accepted>>

(* Mutant of Consume: the age is not checked. *)
ConsumeIgnoresAge(c) ==
    /\ accepted' = [accepted EXCEPT ![c] = @ + (IF c \in Live THEN 1 ELSE 0)]
    /\ challenges' = Without(challenges, {c})
    /\ UNCHANGED <<issued, now, minted>>

(* A key of the wrong length is not in Challenge; an unknown one changes nothing. *)
Consume(c) ==
    /\ accepted' = [accepted EXCEPT ![c] = @ + (IF Fresh(c) THEN 1 ELSE 0)]
    /\ challenges' = Without(challenges, {c})
    /\ UNCHANGED <<issued, now, minted>>

ChallengeTick ==
    /\ Advance
    /\ UNCHANGED <<challenges, issued, minted, accepted>>

(* The store is in memory: a new CDS process starts with an empty one. *)
ChallengeRestart ==
    /\ challenges' = <<>>
    /\ issued' = <<>>
    /\ UNCHANGED <<now, minted, accepted>>

ChallengeNext == ChallengeTick \/ ChallengeRestart \/ \E c \in Challenge : Create(c) \/ Consume(c)

ChallengeSpec == ChallengeInit /\ [][ChallengeNext]_challengeVars

-------------------------------------------------------------------------------
(* The map and the queue hold challenges, created no later than now. *)
ChallengeTypeOK ==
    /\ Live \subseteq minted /\ minted \subseteq Challenge
    /\ \A c \in Live : challenges[c] \in 0 .. now
    /\ issued \in Seq(Challenge)
    /\ now \in 0 .. MaxTime
    /\ accepted \in [Challenge -> Nat]

(* challenge.go:9 "Each challenge can only be consumed once": over any       *)
(* sequence of creations, evictions, compactions and restarts, Consume       *)
(* returns true for a challenge at most once.                                *)
SingleUse == \A c \in Challenge : accepted[c] <= 1

(* challenge.go:32: maxChallenges bounds the map, twice that the queue.      *)
Bounded ==
    /\ Cardinality(Live) <= MaxChallenges
    /\ Len(issued) <= 2 * MaxChallenges

(* The store implements NonceStore: outstanding are the live unexpired       *)
(* challenges, spent the ones Consume accepted.                              *)
N == INSTANCE NonceStore WITH outstanding <- {c \in Live : Fresh(c)},
                              spent <- {c \in Challenge : accepted[c] > 0}

ImplementsNonceStore == N!Spec
===============================================================================
