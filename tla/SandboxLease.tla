----------------------------- MODULE SandboxLease -----------------------------
(***************************************************************************)
(* What the sandbox ledger promises its readers: at any time at most one   *)
(* inventory host is believed about a sandbox, and belief moves from one   *)
(* host to another only through a moment in which nobody is believed.      *)
(***************************************************************************)
CONSTANTS Sandbox, Host, NoHost

VARIABLE owner   \* sandbox -> the host believed about it, or NoHost

Init == owner = [s \in Sandbox |-> NoHost]

Grant(s, h) == owner[s] \in {NoHost, h} /\ owner' = [owner EXCEPT ![s] = h]

Lapse(S) == owner' = [s \in Sandbox |-> IF s \in S THEN NoHost ELSE owner[s]]

Next == \/ \E s \in Sandbox, h \in Host : Grant(s, h)
        \/ \E S \in SUBSET Sandbox : Lapse(S)

Spec == Init /\ [][Next]_owner
===============================================================================
