---------------------------- MODULE SandboxLedger -----------------------------
(***************************************************************************)
(* internal/sandboxledger/ledger.go: which node inventory vouched for a    *)
(* sandbox.  /attest records a binding on every issuance that carries a    *)
(* sandbox token; /secrets asks it which host to believe.  Every method    *)
(* runs under one mutex.                                                   *)
(***************************************************************************)
EXTENDS Clock, FiniteSets

CONSTANTS Sandbox, Host,
          NoHost,          \* Lookup's "no binding"
          BindingTTL,      \* ttl, in clock ticks
          MaxBindings      \* the cap on bindings

ASSUME LedgerAssumption ==
    /\ BindingTTL \in Nat \ {0} /\ MaxBindings \in Nat
    /\ NoHost \notin Host

VARIABLES bindings,        \* sandbox -> [host, expires], for the sandboxes held
          promised         \* history: sandbox -> what the last successful Record bound

ledgerVars == <<bindings, now, promised>>

Bound(s) == s \in DOMAIN bindings

Unexpired(s) == Bound(s) /\ now < bindings[s].expires

Lookup(s) == IF Unexpired(s) THEN bindings[s].host ELSE NoHost

NoBinding == [host |-> NoHost, expires |-> 0]

LedgerInit ==
    /\ bindings = <<>>
    /\ ClockInit
    /\ promised = [s \in Sandbox |-> NoBinding]

(* Mutant: eviction one tick early. *)
evictExpiring == [s \in {t \in DOMAIN bindings : now + 1 < bindings[t].expires} |-> bindings[s]]

evictExpired == [s \in {t \in DOMAIN bindings : Unexpired(t)} |-> bindings[s]]

(* Mutant: the last host to ask wins. *)
ConflictNever(s, h) == FALSE

Conflict(s, h) == Unexpired(s) /\ bindings[s].host # h

(* The map Record writes into: swept first when a new sandbox finds it full. *)
Swept(s) == IF ~Bound(s) /\ Cardinality(DOMAIN bindings) >= MaxBindings
            THEN evictExpired ELSE bindings

Full(s) == ~Bound(s) /\ Cardinality(DOMAIN Swept(s)) >= MaxBindings

Bind(m, s, h) ==
    [t \in DOMAIN m \union {s} |->
        IF t = s THEN [host |-> h, expires |-> now + BindingTTL] ELSE m[t]]

Record(s, h) ==
    \/ /\ Conflict(s, h)
       /\ UNCHANGED <<bindings, promised>>
    \/ /\ ~Conflict(s, h) /\ Full(s)
       /\ bindings' = Swept(s)
       /\ UNCHANGED promised
    \/ /\ ~Conflict(s, h) /\ ~Full(s)
       /\ bindings' = Bind(Swept(s), s, h)
       /\ promised' = [promised EXCEPT ![s] = [host |-> h, expires |-> now + BindingTTL]]

(* One tick of EvictionLoop; Len sweeps the same way. *)
EvictionLoop ==
    /\ bindings' = evictExpired
    /\ UNCHANGED promised

LedgerTick == Advance /\ UNCHANGED <<bindings, promised>>

(* The ledger is in memory, and so is the CA whose leaves it describes. *)
LedgerRestart ==
    /\ bindings' = <<>>
    /\ promised' = [s \in Sandbox |-> NoBinding]

LedgerNext ==
    \/ LedgerTick
    \/ /\ \/ \E s \in Sandbox, h \in Host : Record(s, h)
          \/ EvictionLoop
          \/ LedgerRestart
       /\ UNCHANGED now

LedgerSpec == LedgerInit /\ [][LedgerNext]_ledgerVars

-------------------------------------------------------------------------------
Binding == [host : Host \union {NoHost}, expires : 0 .. MaxTime + BindingTTL]

(* Bindings name a host and expire within one TTL of now. *)
LedgerTypeOK ==
    /\ DOMAIN bindings \subseteq Sandbox
    /\ \A s \in DOMAIN bindings : bindings[s] \in Binding /\ bindings[s].host \in Host
                                 /\ bindings[s].expires <= now + BindingTTL
    /\ now \in 0 .. MaxTime
    /\ promised \in [Sandbox -> Binding]

(* ledger.go:36: sandbox churn cannot grow the map past its cap. *)
Capped == Cardinality(DOMAIN bindings) <= MaxBindings

(* ledger.go:57: a binding Record reported as holding is what Lookup answers *)
(* until the TTL ends, whatever else is recorded, refused or swept           *)
(* meanwhile; only a restart ends it early.                                  *)
PromiseKept ==
    \A s \in Sandbox : now < promised[s].expires => Lookup(s) = promised[s].host

(* The ledger implements SandboxLease: belief about a sandbox never passes   *)
(* directly from one inventory host to another (ledger.go:76).               *)
Lease == INSTANCE SandboxLease WITH owner <- [s \in Sandbox |-> Lookup(s)]

ImplementsLease == Lease!Spec
===============================================================================
