------------------------------ MODULE MCCdsStores ------------------------------
(***************************************************************************)
(* What one CDS process keeps, as internal/cmds/cds/run.go builds it: the   *)
(* challenge store, the sandbox ledger and the secret store, over one clock *)
(* and lost together by a restart; the allowlist store with everybody who   *)
(* reads it, the caches in front of /attest and /secrets inside CDS         *)
(* (PolicyCaches) and the plugins that poll it from the nodes               *)
(* (AllowlistPull); and a container of the allowlist entry an operator      *)
(* writes, which CDS stores in canonical form.  They share no variable, or  *)
(* only the allowlist store, which its readers never write; so what is true *)
(* of one in a behaviour of the process is true of it in the behaviour that *)
(* exercises it alone.  focus, chosen once, says which one that is.         *)
(***************************************************************************)
EXTENDS ChallengeStore, SandboxLedger, SecretStore, LaunchPolicy, PolicyCaches, AllowlistPull

CONSTANTS x, y, dest, data, hostPath, name, n1, e1, e2

VARIABLE focus

readerVars == <<storeVars, cacheVars, nodeVars, conn, restarts>>

vars == <<focus, challengeVars, ledgerVars, secretVars, policy, readerVars>>

Init ==
    /\ focus \in {"challenges", "ledger", "secrets", "entry", "caches", "pull"}
    /\ ChallengeInit /\ LedgerInit /\ SecretInit /\ EntryInit
    /\ CachesInit /\ PullInit
    /\ focus # "pull" => persistent

(* Which unused value rand.Read returns makes no difference to the store. *)
Unused == CHOOSE c \in Challenge : c \notin minted

ServeChallenges ==
    /\ focus = "challenges"
    /\ \/ Challenge \ minted # {} /\ Create(Unused)
       \/ \E c \in Challenge : Consume(c)
    /\ UNCHANGED <<focus, bindings, promised, secretVars, policy, readerVars>>

ServeLedger ==
    /\ focus = "ledger"
    /\ \/ \E s \in Sandbox, h \in Host : Record(s, h)
       \/ EvictionLoop
    /\ UNCHANGED <<focus, challengeVars, secretVars, policy, readerVars>>

ServeSecrets ==
    /\ focus = "secrets"
    /\ \E p \in Path, v \in Value :
          \/ Put(p, v)
          \/ \E h \in Holder : PutIfAbsent(p, v, h)
    /\ UNCHANGED <<focus, challengeVars, ledgerVars, policy, readerVars>>

EditEntry ==
    /\ focus = "entry"
    /\ Edit
    /\ UNCHANGED <<focus, challengeVars, ledgerVars, secretVars, readerVars>>

Tick ==
    /\ focus \in {"challenges", "ledger"}
    /\ ChallengeTick
    /\ UNCHANGED <<focus, bindings, promised, secretVars, policy, readerVars>>

(* A new process: nothing of the three survives. *)
Restart ==
    /\ focus \in {"challenges", "ledger", "secrets"}
    /\ ChallengeRestart /\ LedgerRestart /\ SecretRestart
    /\ UNCHANGED <<focus, policy, readerVars>>

others == <<focus, challengeVars, ledgerVars, secretVars, policy>>

InCaches(A) == focus = "caches" /\ A /\ UNCHANGED <<others, nodeVars, conn, restarts>>

InPull(A) == focus = "pull" /\ A /\ UNCHANGED <<others, cacheVars>>

Next ==
    \/ ServeChallenges \/ ServeLedger \/ ServeSecrets \/ EditEntry \/ Tick \/ Restart
    \/ InCaches(CachesNext)
    \/ InPull(PullNext)

Spec == Init /\ [][Next]_vars

(* The pull loop ticks for ever.  Any request may be lost at any stage, but  *)
(* not all of them: requests keep reaching CDS and responses keep returning. *)
Fairness ==
    \A n \in Node :
        /\ WF_vars(InPull(Ask(n)))
        /\ SF_vars(InPull(HandleListChecks(n)))
        /\ SF_vars(InPull(HandleListLoads(n)))
        /\ WF_vars(InPull(conn[n].at = "broken" /\ Fail(n)))
        /\ SF_vars(InPull(Receive(n)))

FairSpec == Spec /\ Fairness

-------------------------------------------------------------------------------
(* The maps, queues and counts of the three stores have their shapes. *)
TypeOK == ChallengeTypeOK /\ LedgerTypeOK /\ SecretTypeOK

(* challenge.go:32, ledger.go:36, store.go:133: whatever clients ask for, no *)
(* store outgrows its configured bound, the challenge queue included, and no *)
(* workload takes more than its quota of the secret store.                   *)
StoresBounded == Bounded /\ Capped /\ WithinBounds

(* docs/allowlist-and-capabilities.md:507: once the operator stops writing,  *)
(* every plugin ends up enforcing the store's document and stays there.      *)
Converges == \A n \in Node : <>[](focus = "pull" /\ persistent =>
                  served[n].doc = entries /\ served[n].version = version)

-------------------------------------------------------------------------------
(* Of the entry: two argv tokens, two destinations, one environment name with  *)
(* two values.  Of the allowlist: one name and two entries, enough for a put,  *)
(* a delete and a reverted put, read by two requests or polled by one node.    *)

MCName == {n1}
MCEntry == {e1, e2}
MCDigests(e) == {e}
MCSeed == [n \in {n1} |-> e1]

MCArgvs == {<<>>, <<x>>, <<y>>, <<x, y>>, <<x, x>>, <<x, x, y>>}

MCArgvPolicies ==
    [policy : Policies, argv : {<<>>, <<x>>}] \union {[policy |-> "exact", argv |-> <<x, y>>]}

Rule(d, k, s, ro) == [destination |-> d, kind |-> k, source |-> s, readOnly |-> ro]

MCMountPolicies ==
    [policy : Policies, rules : {{}, {Rule(dest, "emptyDir", NoSource, FALSE)}}] \union
    {[policy |-> "exact", rules |-> r] : r \in
        {{Rule(dest, "emptyDir", NoSource, FALSE), Rule(data, "data", NoSource, FALSE)},
         {Rule(dest, "emptyDir", NoSource, FALSE), Rule(dest, "host", hostPath, FALSE)},
         {Rule(dest, "host", hostPath, TRUE)},
         {Rule(dest, "data", NoSource, FALSE)}}}

MCEnvPolicies ==
    [policy : Policies, values : {NoValues, <<>>}] \union
    {[policy |-> "exact", values |-> [n \in {name} |-> x]]}

Mount(d, c, st, s, ro) == [destination |-> d, class |-> c, storage |-> st, source |-> s, readOnly |-> ro]

Scratch(st) == Mount(dest, "emptyDir", st, NoSource, FALSE)

MCMountLists ==
    {NoEvidence, <<>>, <<Mount(dest, "platform", "unknown", NoSource, TRUE)>>,
     <<Scratch("memory")>>, <<Scratch("unknown")>>, <<Scratch("memory"), Scratch("memory")>>,
     <<Scratch("encrypted"), Mount(data, "data", "encrypted", NoSource, FALSE)>>,
     <<Mount(dest, "host", "unknown", hostPath, TRUE)>>}

EnvEntry(v) == [name |-> name, value |-> v]

MCEnvLists == {<<>>, <<EnvEntry(x)>>, <<EnvEntry(y), EnvEntry(x)>>, <<EnvEntry(x), EnvEntry(y)>>}

MCInjected == {}
MCData == {data}
================================================================================
