------------------------------- MODULE MeshGuard -------------------------------
(***************************************************************************)
(* internal/cmds/ratlsmesh, iptables-sync: the node's packet filter for    *)
(* confidential-workload (cw) pods.  The guard, a chain of the filter      *)
(* table reached by a jump from FORWARD, drops what is sent to an address  *)
(* of the cw set; the nat chain sends pod traffic to the proxy.  It drops  *)
(* new flows only: a flow the kernel already tracks passes, so the process *)
(* deletes the tracked flows of addresses that enter the set.              *)
(*                                                                         *)
(* The process executes a program, a sequence of operations on the kernel; *)
(* each may fail, and the process may be killed between any two.  Sets,    *)
(* chains, jumps and tracked flows are the kernel's and outlive it.        *)
(* kube-proxy may push a jump down its base chain.  One address family is  *)
(* modelled: the second repeats the same operations on sets of its own.    *)
(***************************************************************************)
EXTENDS Integers, Sequences, SequencesExt, FiniteSets

CONSTANTS IP,               \* pod addresses
          Pods,             \* kinds of pod: is it cw, is it on this node
          Limits,           \* values of --ipset-maxelem
          Scenes,           \* what is examined together, and how often
          Absent

SetNames == <<"cw", "pods", "local">>
SetName == ToSet(SetNames)
Table == {"nat", "filter"}

VARIABLES pods,             \* the informer's store: IP -> the mesh pod there
          sets,             \* kernel: set -> Absent or its capacity and members
          chain,            \* kernel: managed chain -> absent, empty, full
          jump,             \* kernel: jump into it -> none, head, behind
          flows,            \* kernel: addresses with a tracked plaintext flow
          limit,            \* --ipset-maxelem of this deployment
          todo,             \* the operations the process has left
          up,               \* "down", "boot", "ready" or "cleanup"
          collected,        \* the members this cycle writes
          errs,             \* a set write of this cycle failed
          prevCWIPs,
          watchdog,         \* the block the watchdog looks at, or is reinserting
          clean,            \* history: no write and no flush failed since boot
          changes, faults,
          scene             \* the addresses in use, whether kube-proxy interferes,
                            \* and the bounds on pod changes and on failures

memory == <<up, collected, errs, prevCWIPs, watchdog, clean>>
procVars == <<todo, memory>>
kernelVars == <<sets, chain, jump, flows>>
envVars == <<scene, pods, limit, changes, faults>>
guardVars == <<procVars, kernelVars, envVars>>

Each(verb, objects) == [i \in 1..Len(objects) |-> <<verb, objects[i]>>]

FirstBlock == [at |-> "nat", inserting |-> FALSE]

MeshIPs == {x \in IP : pods[x] # Absent}

CWIPs == {x \in MeshIPs : pods[x].cw}

collectPodIPSetMembers ==
    [n \in SetName |-> CASE n = "cw"    -> CWIPs
                         [] n = "pods"  -> MeshIPs
                         [] n = "local" -> {x \in MeshIPs : pods[x].local}]

NoMembers == [n \in SetName |-> {}]

Members(n) == IF sets[n] = Absent THEN {} ELSE sets[n].members

(* buildCWGuardRules: a new flow to x meets the drop. *)
Dropped(x) == jump["filter"] = "head" /\ chain["filter"] = "full" /\ x \in Members("cw")

GuardInit ==
    /\ scene \in Scenes
    /\ pods = [x \in IP |-> Absent]
    /\ sets = [n \in SetName |-> Absent]
    /\ chain = [t \in Table |-> "absent"]
    /\ jump = [t \in Table |-> "none"]
    /\ flows = {}
    /\ limit \in Limits
    /\ todo = <<>>
    /\ up = "down"
    /\ collected = NoMembers
    /\ errs = FALSE
    /\ prevCWIPs = {}
    /\ watchdog = FirstBlock
    /\ clean = TRUE
    /\ changes = 0
    /\ faults = 0

-------------------------------------------------------------------------------
(* The programs. *)

Reconcile == <<<<"collect", "pods">>>> \o Each("write", SetNames) \o <<<<"judge", "errs">>>>

Clear == Each("clear", <<"nat", "filter">>)

(* Sets whose capacity is not the one configured. *)
Mismatched == SelectSeq(SetNames, LAMBDA n : sets[n] # Absent /\ sets[n].limit # limit)

(* Mutant: the chains still refer to the sets. *)
DestroyWithoutClearing == Each("destroy", Mismatched)

(* reconcileLiveSetMaxElem: a set of another capacity is destroyed, after the *)
(* chains that refer to it were cleared.                                      *)
reconcileLiveSetMaxElem ==
    IF Mismatched = <<>> THEN <<>> ELSE Clear \o Each("destroy", Mismatched)

installIptablesRules == Clear \o Each("append", <<"nat", "filter">>) \o Each("jump", <<"nat", "filter">>)

(* Mutant: flows are flushed before the guard is rebuilt. *)
BootFlushesFirst == reconcileLiveSetMaxElem \o Reconcile \o <<<<"flush", "all">>>>
                        \o installIptablesRules \o <<<<"ready", "all">>>>

Boot == reconcileLiveSetMaxElem \o Reconcile \o installIptablesRules
            \o <<<<"flush", "all">>, <<"ready", "all">>>>

Cycle == Reconcile \o <<<<"flush", "new">>>>

Doing(op) == todo # <<>> /\ Head(todo) = op

Done == todo' = Tail(todo)

(* What a process remembers when it starts, and nobody once it is gone. *)
Fresh(u, program) ==
    /\ up' = u
    /\ todo' = program
    /\ collected' = NoMembers
    /\ errs' = FALSE
    /\ prevCWIPs' = {}
    /\ watchdog' = FirstBlock
    /\ clean' = TRUE

Gone == Fresh("down", <<>>)

-------------------------------------------------------------------------------
(* runIptablesSync, from the synchronised pod cache on. *)
Start ==
    /\ up = "down"
    /\ Fresh("boot", Boot)
    /\ UNCHANGED <<kernelVars, envVars>>

(* The ticker fires, or syncCh holds the token of a pod event. *)
Wake ==
    /\ up = "ready"
    /\ todo = <<>>
    /\ todo' = Cycle
    /\ UNCHANGED <<kernelVars, envVars, memory>>

Collect ==
    /\ Doing(<<"collect", "pods">>)
    /\ Done
    /\ collected' = collectPodIPSetMembers
    /\ errs' = FALSE
    /\ UNCHANGED <<kernelVars, envVars, up, prevCWIPs, watchdog, clean>>

(* replaceIPSetMembers: the new members are swapped in at once.  More members *)
(* than the set may have, or a failing tool, leave it as it was.              *)
WriteSet(n) ==
    /\ Doing(<<"write", n>>)
    /\ Done
    /\ UNCHANGED <<chain, jump, flows, up, collected, prevCWIPs, watchdog, scene, pods, limit, changes>>
    /\ \/ /\ Cardinality(collected[n]) <= limit
          /\ sets' = [sets EXCEPT ![n] = [limit |-> limit, members |-> collected[n]]]
          /\ UNCHANGED <<errs, clean, faults>>
       \/ /\ \/ Cardinality(collected[n]) > limit /\ UNCHANGED faults
             \/ faults < scene.faults /\ faults' = faults + 1
          /\ errs' = TRUE
          /\ clean' = FALSE
          /\ UNCHANGED sets

(* The end of reconcilePodIPSets: with an error the process gives up at boot, *)
(* and waits for the next cycle later.                                        *)
Judge ==
    /\ Doing(<<"judge", "errs">>)
    /\ UNCHANGED <<kernelVars, envVars>>
    /\ \/ ~errs /\ Done /\ UNCHANGED memory
       \/ errs /\ up = "boot" /\ Gone
       \/ /\ errs /\ up = "ready"
          /\ todo' = <<>>
          /\ collected' = NoMembers
          /\ UNCHANGED <<up, errs, prevCWIPs, watchdog, clean>>

(* flushManagedIptablesChains *)
ClearChain(t) ==
    /\ Doing(<<"clear", t>>)
    /\ Done
    /\ chain' = [chain EXCEPT ![t] = "empty"]
    /\ UNCHANGED <<envVars, sets, jump, flows, memory>>

SetsOf(t) == IF t = "filter" THEN {"cw"} ELSE {"pods", "local"}

(* The kernel keeps a set that a rule refers to. *)
DestroySet(n) ==
    /\ Doing(<<"destroy", n>>)
    /\ UNCHANGED <<envVars, chain, jump, flows>>
    /\ IF \E t \in Table : n \in SetsOf(t) /\ chain[t] = "full"
       THEN UNCHANGED sets /\ Gone
       ELSE /\ Done
            /\ sets' = [sets EXCEPT ![n] = Absent]
            /\ UNCHANGED memory

(* The kernel refuses a rule that names a set that is not there. *)
AppendRules(t) ==
    /\ Doing(<<"append", t>>)
    /\ UNCHANGED <<envVars, sets, jump, flows>>
    /\ IF \E n \in SetsOf(t) : sets[n] = Absent
       THEN Gone /\ UNCHANGED chain
       ELSE /\ Done
            /\ chain' = [chain EXCEPT ![t] = "full"]
            /\ UNCHANGED memory

(* ensureIptablesJumpsForBinary, of the booting process or the watchdog: a jump *)
(* that is not at the head of its base chain is deleted and inserted there.     *)
DeleteJump(t) == jump' = [jump EXCEPT ![t] = "none"]

InsertJump(t) == jump' = [jump EXCEPT ![t] = "head"]

EnsureJump(t) ==
    /\ Doing(<<"jump", t>>)
    /\ IF jump[t] = "head"
       THEN Done /\ UNCHANGED jump
       ELSE todo' = <<<<"insert", t>>>> \o Tail(todo) /\ DeleteJump(t)
    /\ UNCHANGED <<envVars, sets, chain, flows, memory>>

InsertAtHead(t) ==
    /\ Doing(<<"insert", t>>)
    /\ Done
    /\ InsertJump(t)
    /\ UNCHANGED <<envVars, sets, chain, flows, memory>>

(* flushCWConntrack deletes the tracked flows of the whole set at boot, later  *)
(* those of the addresses that entered it.  A failure is only logged.          *)
flushCWConntrack(which) ==
    LET ips == IF which = "all" THEN collected["cw"] ELSE collected["cw"] \ prevCWIPs
    IN  /\ Doing(<<"flush", which>>)
        /\ Done
        /\ prevCWIPs' = collected["cw"]
        /\ collected' = NoMembers
        /\ \/ /\ flows' = flows \ ips
              /\ clean' = (clean \/ which = "all")
              /\ UNCHANGED faults
           \/ /\ faults < scene.faults
              /\ faults' = faults + 1
              /\ clean' = FALSE
              /\ UNCHANGED flows
        /\ UNCHANGED <<sets, chain, jump, up, errs, watchdog, scene, pods, limit, changes>>

SetReady ==
    /\ Doing(<<"ready", "all">>)
    /\ Done
    /\ up' = "ready"
    /\ UNCHANGED <<envVars, kernelVars, collected, errs, prevCWIPs, watchdog, clean>>

(* runJumpWatchdog: each tick looks at the blocks in turn.  A position that   *)
(* cannot be read counts as lost; a failing insertion ends the tick.            *)
NextBlock(t) == [at |-> IF t = "nat" THEN "filter" ELSE "nat", inserting |-> FALSE]

(* Mutant: only a jump that is behind another rule is put back. *)
LooksForDisplaced ==
    /\ up = "ready"
    /\ ~watchdog.inserting
    /\ LET t == watchdog.at
       IN  \/ /\ jump[t] # "behind"
              /\ watchdog' = NextBlock(t)
              /\ UNCHANGED <<jump, faults>>
           \/ /\ \/ jump[t] = "behind" /\ UNCHANGED faults
                 \/ jump[t] = "head" /\ faults < scene.faults /\ faults' = faults + 1
              /\ DeleteJump(t)
              /\ watchdog' = [watchdog EXCEPT !.inserting = TRUE]
    /\ UNCHANGED <<todo, up, collected, errs, prevCWIPs, clean, sets, chain, flows, scene, limit, pods, changes>>

WatchdogLooks ==
    /\ up = "ready"
    /\ ~watchdog.inserting
    /\ LET t == watchdog.at
       IN  \/ /\ jump[t] = "head"
              /\ watchdog' = NextBlock(t)
              /\ UNCHANGED <<jump, faults>>
           \/ /\ \/ jump[t] # "head" /\ UNCHANGED faults
                 \/ jump[t] = "head" /\ faults < scene.faults /\ faults' = faults + 1
              /\ DeleteJump(t)
              /\ watchdog' = [watchdog EXCEPT !.inserting = TRUE]
    /\ UNCHANGED <<todo, up, collected, errs, prevCWIPs, clean, sets, chain, flows, scene, limit, pods, changes>>

WatchdogInserts ==
    /\ watchdog.inserting
    /\ \/ /\ InsertJump(watchdog.at)
          /\ watchdog' = NextBlock(watchdog.at)
          /\ UNCHANGED faults
       \/ /\ faults < scene.faults
          /\ faults' = faults + 1
          /\ watchdog' = FirstBlock
          /\ UNCHANGED jump
    /\ UNCHANGED <<todo, up, collected, errs, prevCWIPs, clean, sets, chain, flows, scene, limit, pods, changes>>

-------------------------------------------------------------------------------
(* The process is killed, or a tool fails at boot. *)
Crash ==
    /\ up \in {"boot", "ready"}
    /\ faults < scene.faults
    /\ faults' = faults + 1
    /\ Gone
    /\ UNCHANGED <<kernelVars, scene, pods, limit, changes>>

(* The pod is replaced: iptables-sync stops, and the cleanup sidecar takes the *)
(* interception away and leaves the guard.  The next pod may bring another     *)
(* capacity.                                                                   *)
runIptablesCleanup ==
    /\ up \in {"boot", "ready"}
    /\ faults < scene.faults
    /\ faults' = faults + 1
    /\ Fresh("cleanup", <<<<"unjump", "nat">>, <<"clear", "nat">>, <<"delete", "nat">>>>
                            \o Each("destroy", <<"pods", "local">>))
    /\ limit' \in Limits
    /\ UNCHANGED <<kernelVars, scene, pods, changes>>

RemoveJump(t) ==
    /\ Doing(<<"unjump", t>>)
    /\ Done
    /\ DeleteJump(t)
    /\ UNCHANGED <<envVars, sets, chain, flows, memory>>

DeleteChain(t) ==
    /\ Doing(<<"delete", t>>)
    /\ Done
    /\ chain' = [chain EXCEPT ![t] = "absent"]
    /\ UNCHANGED <<envVars, sets, jump, flows, memory>>

CleanedUp ==
    /\ up = "cleanup"
    /\ todo = <<>>
    /\ Gone
    /\ UNCHANGED <<kernelVars, envVars>>

(* A pod appears, goes, or is labelled; the informer sees it. *)
ChangePod(x, p) ==
    /\ changes < scene.changes
    /\ changes' = changes + 1
    /\ pods[x] # p
    /\ pods' = [pods EXCEPT ![x] = p]
    /\ UNCHANGED <<procVars, kernelVars, scene, limit, faults>>

(* Somebody dials x past the mesh while the guard does not cover it.  What      *)
(* passes a running process's guard while its jump is displaced is not         *)
(* recorded: nothing flushes it, the watchdog's period bounds the window.      *)
Dial(x) ==
    /\ ~Dropped(x)
    /\ ~(up = "ready" /\ jump["filter"] # "head")
    /\ ~(up = "boot" /\ jump["filter"] = "behind")
    /\ flows' = flows \union {x}
    /\ UNCHANGED <<procVars, envVars, sets, chain, jump>>

(* kube-proxy puts its own rule in front. *)
Demote(t) ==
    /\ scene.kubeProxy
    /\ jump[t] = "head"
    /\ jump' = [jump EXCEPT ![t] = "behind"]
    /\ UNCHANGED <<procVars, envVars, sets, chain, flows>>

Process ==
    \/ Start \/ Wake \/ Collect \/ Judge \/ SetReady \/ CleanedUp
    \/ \E n \in SetName : WriteSet(n) \/ DestroySet(n)
    \/ \E t \in Table : \/ ClearChain(t) \/ AppendRules(t) \/ EnsureJump(t) \/ InsertAtHead(t)
                        \/ RemoveJump(t) \/ DeleteChain(t)
    \/ \E which \in {"all", "new"} : flushCWConntrack(which)

runJumpWatchdog == WatchdogLooks \/ WatchdogInserts

GuardNext ==
    \/ Process
    \/ runJumpWatchdog
    \/ Crash \/ runIptablesCleanup
    \/ \E x \in scene.ips, p \in Pods \union {Absent} : ChangePod(x, p)
    \/ \E x \in scene.ips : Dial(x)
    \/ \E t \in Table : Demote(t)

GuardSpec == GuardInit /\ [][GuardNext]_guardVars

(* Both goroutines run. *)
GuardFairness == WF_guardVars(Process) /\ WF_guardVars(runJumpWatchdog)

-------------------------------------------------------------------------------
(* conntrack_linux.go:15: the guard "fails closed the moment it is            *)
(* (re)installed".  While the process waits for its next cycle, no flow that  *)
(* was let through before its address was listed, or while the chain was being *)
(* rebuilt, is still tracked to a listed address, through crashes at any point *)
(* of a boot and replacements of the pod, as long as no write and no flush     *)
(* failed since boot.                                                          *)
NoGrandfathered ==
    up = "ready" /\ todo = <<>> /\ clean => Members("cw") \intersect flows = {}

(* pod_ipsets_linux.go:351: "one set's failure never costs another its write". *)
(* Once the pods settle, the set the guard matches on becomes and stays the    *)
(* set of cw pods, even when the other sets overflow in every cycle and no     *)
(* boot succeeds.                                                              *)
CWSetConverges == <>[](Cardinality(CWIPs) <= limit => Members("cw") = CWIPs)

(* iptables_linux.go:180: a jump that kube-proxy pushed down returns to the    *)
(* head of its chain.                                                          *)
JumpReturns ==
    \A t \in Table : (up = "ready" /\ jump[t] # "head") ~> (jump[t] = "head" \/ up # "ready")

(* ratlsmesh: what others disturb in the kernel, the sets and the jumps, is    *)
(* put back by the guard's own loops: CWSetConverges and JumpReturns.          *)
GuardHeals == CWSetConverges /\ JumpReturns
===============================================================================
