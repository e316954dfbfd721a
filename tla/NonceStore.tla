------------------------------ MODULE NonceStore ------------------------------
(***************************************************************************)
(* What a challenge store promises to the handlers that use one: a nonce   *)
(* is issued fresh, is redeemed at most once, and may be forgotten at any  *)
(* time (expiry, eviction, a restart), after which it is never redeemed.   *)
(* ChallengeStore implements this specification.                           *)
(***************************************************************************)
CONSTANT Challenge

VARIABLES outstanding,   \* nonces that Consume would accept now
          spent          \* nonces Consume has accepted

vars == <<outstanding, spent>>

TypeOK == outstanding \subseteq Challenge /\ spent \subseteq Challenge

Init == outstanding = {} /\ spent = {}

(* Issuing may evict outstanding nonces to make room. *)
Issue(c) ==
    /\ c \notin outstanding \union spent
    /\ \E kept \in SUBSET outstanding : outstanding' = kept \union {c}
    /\ UNCHANGED spent

Redeem(c) ==
    /\ c \in outstanding
    /\ outstanding' = outstanding \ {c}
    /\ spent' = spent \union {c}

Forget ==
    /\ outstanding' \in SUBSET outstanding
    /\ UNCHANGED spent

Next == Forget \/ \E c \in Challenge : Issue(c) \/ Redeem(c)

Spec == Init /\ [][Next]_vars
===============================================================================
