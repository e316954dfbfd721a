----------------------------- MODULE SecretStore ------------------------------
(***************************************************************************)
(* internal/secrets/store.go: MemoryStore, the in-process secret backend   *)
(* behind GET/POST /secrets (workloads) and PUT /secrets (operator).  Every *)
(* method runs under one lock.  The count per holder is kept beside the    *)
(* map it counts and decides the quota, so the two must never drift.       *)
(***************************************************************************)
EXTENDS Integers, FiniteSets

CONSTANTS Path, Value,
          Oversized,       \* the values longer than maxValue
          Workload,        \* names of allowlist entries: the workload holders
          Operator,        \* OperatorHolder()
          MaxPaths,        \* maxPaths
          MaxPerHolder     \* maxPerHolder

(* NewMemoryStore panics unless maxPerHolder < maxPaths. *)
ASSUME StoreAssumption ==
    /\ MaxPaths \in Nat /\ MaxPerHolder \in Nat
    /\ MaxPerHolder < MaxPaths
    /\ Oversized \subseteq Value
    /\ Operator \notin Workload

VARIABLES values,          \* path -> [value, holder], for the paths held
          holders          \* holder -> number of its paths, for holders with one

secretVars == <<values, holders>>

Holder == Workload \union {Operator}

SecretEntry == [value : Value, holder : Holder]

SecretInit == values = <<>> /\ holders = <<>>

Held(p) == p \in DOMAIN values

Paths(h) == IF h \in DOMAIN holders THEN holders[h] ELSE 0

checkRoom(h) ==
    /\ h # Operator => Paths(h) < MaxPerHolder
    /\ Cardinality(DOMAIN values) < MaxPaths

(* The counts with one path fewer charged to h; a holder at zero is deleted. *)
Discharge(h) ==
    [g \in {k \in DOMAIN holders : k # h \/ holders[k] > 1} |->
        IF g = h THEN holders[g] - 1 ELSE holders[g]]

Charge(counts, h) ==
    [g \in DOMAIN counts \union {h} |->
        IF g # h THEN counts[g]
        ELSE IF h \in DOMAIN counts THEN counts[h] + 1 ELSE 1]

(* Mutant: replacing a value leaves the prior holder charged. *)
storeKeepsCharge(p, v, h) ==
    /\ values' = [q \in DOMAIN values \union {p} |->
                    IF q = p THEN [value |-> v, holder |-> h] ELSE values[q]]
    /\ holders' = Charge(holders, h)

store(p, v, h) ==
    /\ values' = [q \in DOMAIN values \union {p} |->
                    IF q = p THEN [value |-> v, holder |-> h] ELSE values[q]]
    /\ holders' = Charge(IF Held(p) THEN Discharge(values[p].holder) ELSE holders, h)

(* Mutant: an occupied path is overwritten by a workload. *)
PutIfAbsentOverwrites(p, v, h) ==
    \/ (v \in Oversized \/ (~Held(p) /\ ~checkRoom(h))) /\ UNCHANGED secretVars
    \/ v \notin Oversized /\ (Held(p) \/ checkRoom(h)) /\ store(p, v, h)

PutIfAbsent(p, v, h) ==
    \/ (v \in Oversized \/ Held(p) \/ ~checkRoom(h)) /\ UNCHANGED secretVars
    \/ v \notin Oversized /\ ~Held(p) /\ checkRoom(h) /\ store(p, v, h)

Put(p, v) ==
    \/ (v \in Oversized \/ (~Held(p) /\ ~checkRoom(Operator))) /\ UNCHANGED secretVars
    \/ v \notin Oversized /\ (Held(p) \/ checkRoom(Operator)) /\ store(p, v, Operator)

(* Values live in the process and nowhere else. *)
SecretRestart == values' = <<>> /\ holders' = <<>>

SecretNext ==
    \/ \E p \in Path, v \in Value :
          Put(p, v) \/ \E h \in Holder : PutIfAbsent(p, v, h)
    \/ SecretRestart

SecretSpec == SecretInit /\ [][SecretNext]_secretVars

-------------------------------------------------------------------------------
(* Both maps hold what their names say, and no value over maxValue. *)
SecretTypeOK ==
    /\ DOMAIN values \subseteq Path /\ IsFiniteSet(DOMAIN values)
    /\ \A p \in DOMAIN values : values[p] \in SecretEntry /\ values[p].value \notin Oversized
    /\ DOMAIN holders \subseteq Holder
    /\ \A h \in DOMAIN holders : holders[h] \in Nat \ {0}

(* store.go:119 "holders counts each holder's paths": the count that decides *)
(* the quota is the number of paths charged to the holder, through every     *)
(* overwrite that moves a path from a workload to the operator.              *)
Charged(h) == {p \in DOMAIN values : values[p].holder = h}

Accounting == \A h \in Holder : Paths(h) = Cardinality(Charged(h))

(* store.go:133: maxPaths bounds the paths of all holders together, and      *)
(* maxPerHolder those of each workload, so no workload alone fills the store.*)
WithinBounds ==
    /\ Cardinality(DOMAIN values) <= MaxPaths
    /\ \A w \in Workload : Cardinality(Charged(w)) <= MaxPerHolder

(* store.go:83: what a workload finds at a path stays there until the        *)
(* operator replaces it, and a path once the operator's is never charged to  *)
(* a workload again; only a restart empties a path.                          *)
FirstWriteWins ==
    [][\A p \in DOMAIN values :
          \/ values' = <<>>
          \/ p \in DOMAIN values' /\ (values'[p] = values[p] \/ values'[p].holder = Operator)]_secretVars
===============================================================================
