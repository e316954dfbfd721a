-------------------------- MODULE AdmissionInventory ---------------------------
(***************************************************************************)
(* The node's admission inventory (nri-image-policy/inventory.go over      *)
(* internal/admissionhistory): which containers may call it, and what each *)
(* pod sandbox has been admitted to run.  Every method holds one mutex, so *)
(* each is one action; NriPlugin and CdsAttest compose them with the       *)
(* events that feed them and the requests that read them.                  *)
(* Two admissions with the same digest, argv, environment and mounts are   *)
(* one record; the containers here are told apart by their launch.         *)
(***************************************************************************)
CONSTANTS Ctr, Sandbox, SandboxOf

ASSUME SandboxOfMaps == SandboxOf \in [Ctr -> Sandbox]

VARIABLES tracked,         \* containers: live container IDs, for caller resolution
          recorded,        \* admitted: sandbox -> launches ever recorded
          unresolved,      \* admitted: sandbox -> container IDs without a digest
          sandboxes        \* live pod sandbox IDs

inventory == <<tracked, recorded, unresolved, sandboxes>>

Empty == [s \in Sandbox |-> {}]

newAdmissionInventory ==
    /\ tracked = {}
    /\ recorded = Empty
    /\ unresolved = Empty
    /\ sandboxes = {}

Emptied ==
    /\ tracked' = {}
    /\ recorded' = Empty
    /\ unresolved' = Empty
    /\ sandboxes' = {}

(* Mutants: an unresolved image is left out of the history; a later          *)
(* admission replaces the sandbox's record.                                  *)
recordOnlyResolved(c, digestKnown) ==
    LET s == SandboxOf[c]
    IN  /\ tracked' = tracked \union {c}
        /\ sandboxes' = sandboxes \union {s}
        /\ recorded' = IF digestKnown THEN [recorded EXCEPT ![s] = @ \union {c}] ELSE recorded
        /\ UNCHANGED unresolved

recordReplaces(c, digestKnown) ==
    LET s == SandboxOf[c]
    IN  /\ tracked' = tracked \union {c}
        /\ sandboxes' = sandboxes \union {s}
        /\ recorded' = IF digestKnown THEN [recorded EXCEPT ![s] = {c}] ELSE recorded
        /\ unresolved' = [unresolved EXCEPT ![s] = IF digestKnown THEN @ \ {c} ELSE @ \union {c}]

(* recordObserved and History.Record: only a resolved record of the same     *)
(* container clears an unresolved one.                                       *)
recordObserved(c, digestKnown) ==
    LET s == SandboxOf[c]
    IN  /\ tracked' = tracked \union {c}
        /\ sandboxes' = sandboxes \union {s}
        /\ recorded' = IF digestKnown THEN [recorded EXCEPT ![s] = @ \union {c}] ELSE recorded
        /\ unresolved' = [unresolved EXCEPT ![s] = IF digestKnown THEN @ \ {c} ELSE @ \union {c}]

(* Mutant: the history forgets a stopped container. *)
removeForgets(c) ==
    /\ tracked' = tracked \ {c}
    /\ recorded' = [recorded EXCEPT ![SandboxOf[c]] = @ \ {c}]
    /\ UNCHANGED <<unresolved, sandboxes>>

(* A stopped container no longer binds a caller; the history keeps it.       *)
remove(c) ==
    /\ tracked' = tracked \ {c}
    /\ UNCHANGED <<recorded, unresolved, sandboxes>>

recordSandbox(s) ==
    /\ sandboxes' = sandboxes \union {s}
    /\ UNCHANGED <<tracked, recorded, unresolved>>

removeSandbox(s) ==
    /\ sandboxes' = sandboxes \ {s}
    /\ recorded' = [recorded EXCEPT ![s] = {}]
    /\ unresolved' = [unresolved EXCEPT ![s] = {}]
    /\ tracked' = {c \in tracked : SandboxOf[c] # s}

(* SandboxForPeer: the caller's container, when it is a tracked one.         *)
SandboxForPeer(c) == IF c \in tracked THEN {SandboxOf[c]} ELSE {}

(* DigestsForSandbox: the whole record, or no answer.                        *)
Answers(s) == s \in sandboxes /\ unresolved[s] = {}

DigestsForSandbox(s) == IF Answers(s) THEN recorded[s] ELSE {}

===============================================================================
