----------------------------- MODULE LaunchPolicy ------------------------------
(***************************************************************************)
(* pkg/allowlist: how an allowlist entry is canonicalised when it is       *)
(* written, and how it decides about a container launch.  An entry's       *)
(* container fixes an image digest and constrains three parts of the       *)
(* launch: the process (command and args over one argv), the bind mounts   *)
(* and the environment.  Digests, paths and environment fingerprints are   *)
(* compared for equality only, so they are plain values here.  Last, one   *)
(* container of an entry as an operator may write it field by field,       *)
(* against every launch the host may make of its digest: what is decided   *)
(* is compared with what the words "pinned", "host independent" and        *)
(* "unconstrained" promise.                                                *)
(***************************************************************************)
EXTENDS Integers, Sequences, FiniteSets

CONSTANTS Invalid,         \* what normalisation rejects
          NoEvidence,      \* a nil mount list or a nil environment observation
          NoValues,        \* a nil values map of an environment policy
          NoSource,        \* the empty source of a mount rule
          NoGrant,         \* an entry without secrets
          NoName,          \* MatchWorkload found none, or several
          Injected,        \* argv[0] values the webhook injects
          DataDestination, \* destinations below DataMountPrefix
          Digest, Argvs,
          RawArgvPolicies, RawMountPolicies, RawEnvPolicies,   \* what may be written
          MountLists, EnvLists                                 \* what may be launched

VARIABLE policy            \* the container as written

Policies == {"", "deny", "any", "exact"}

-------------------------------------------------------------------------------
(* Canonicalisation of one policy: the policy, or Invalid. *)
normalizeArgv(p) ==
    CASE p.policy = "" -> [policy |-> "deny", argv |-> <<>>]
      [] p.policy \in {"deny", "any"} /\ p.argv = <<>> -> p
      [] p.policy = "exact" /\ p.argv # <<>> -> p
      [] OTHER -> Invalid

validateRule(rule) ==
    CASE rule.kind = "emptyDir" -> rule.source = NoSource /\ ~rule.readOnly
      [] rule.kind = "data" -> /\ rule.source = NoSource /\ ~rule.readOnly
                               /\ rule.destination \in DataDestination
      [] rule.kind = "host" -> rule.source # NoSource
      [] OTHER -> FALSE

normalizeMountRules(rules) ==
    /\ rules # {}
    /\ \A r, s \in rules : r.destination = s.destination => r = s
    /\ \A r \in rules : validateRule(r)

normalizeMounts(p) ==
    CASE p.policy \in {"", "deny"} /\ p.rules = {} -> [policy |-> "deny", rules |-> {}]
      [] p.policy = "any" /\ p.rules = {} -> p
      [] p.policy = "exact" /\ normalizeMountRules(p.rules) -> p
      [] OTHER -> Invalid

(* Mutant: an exact policy of no values is kept as exact. *)
normalizeEnvKeepsEmpty(p) ==
    CASE p.policy \in {"", "any"} /\ p.values = NoValues -> [policy |-> "any", values |-> NoValues]
      [] p.policy = "deny" /\ p.values = NoValues -> p
      [] p.policy = "exact" /\ p.values # NoValues -> p
      [] OTHER -> Invalid

normalizeEnv(p) ==
    CASE p.policy \in {"", "any"} /\ p.values = NoValues -> [policy |-> "any", values |-> NoValues]
      [] p.policy = "deny" /\ p.values = NoValues -> p
      [] p.policy = "exact" /\ p.values = <<>> -> [policy |-> "deny", values |-> NoValues]
      [] p.policy = "exact" /\ p.values # NoValues -> p
      [] OTHER -> Invalid

normalizeContainer(c) ==
    LET n == [digest |-> c.digest, command |-> normalizeArgv(c.command),
              args |-> normalizeArgv(c.args), mounts |-> normalizeMounts(c.mounts),
              env |-> normalizeEnv(c.env)]
    IN  IF Invalid \in {n.command, n.args, n.mounts, n.env} THEN Invalid ELSE n

-------------------------------------------------------------------------------
(* The argv left once the command policy has matched: at most one.           *)
matchCommand(p, argv) ==
    CASE p.policy = "any" -> {argv}
      [] p.policy = "deny" -> IF argv = <<>> THEN {argv} ELSE {}
      [] p.policy = "exact" ->
            IF Len(argv) >= Len(p.argv) /\ \A i \in 1 .. Len(p.argv) : argv[i] = p.argv[i]
            THEN {SubSeq(argv, Len(p.argv) + 1, Len(argv))} ELSE {}
      [] OTHER -> {}

(* Mutant: exact args are matched as a prefix too. *)
matchArgsPrefix(p, rest) ==
    \/ p.policy = "any"
    \/ p.policy = "deny" /\ rest = <<>>
    \/ p.policy = "exact" /\ Len(rest) >= Len(p.argv) /\ \A i \in 1 .. Len(p.argv) : rest[i] = p.argv[i]

matchArgs(p, rest) ==
    \/ p.policy = "any"
    \/ p.policy = "deny" /\ rest = <<>>
    \/ p.policy = "exact" /\ rest = p.argv

admitsArgv(c, argv) == \E rest \in matchCommand(c.command, argv) : matchArgs(c.args, rest)

ruleAdmits(rule, m) ==
    CASE rule.kind \in {"emptyDir", "data"} -> m.storage \in {"memory", "encrypted"}
      [] rule.kind = "host" -> m.source = rule.source /\ m.readOnly = rule.readOnly
      [] OTHER -> FALSE

admitsMount(p, m) ==
    \E rule \in p.rules :
        rule.destination = m.destination /\ rule.kind = m.class /\ ruleAdmits(rule, m)

NonPlatform(mounts) == {i \in DOMAIN mounts : mounts[i].class # "platform"}

Destinations(mounts) == {mounts[i].destination : i \in NonPlatform(mounts)}

(* Mutant: a rule nothing is mounted for is let go. *)
admitsMountsSubset(p, mounts) ==
    \/ p.policy = "any"
    \/ mounts # NoEvidence /\ p.policy \in {"", "deny"} /\ NonPlatform(mounts) = {}
    \/ /\ mounts # NoEvidence /\ p.policy = "exact"
       /\ \A i, j \in NonPlatform(mounts) : mounts[i].destination = mounts[j].destination => i = j
       /\ \A i \in NonPlatform(mounts) : admitsMount(p, mounts[i])

admitsMounts(p, mounts) ==
    \/ p.policy = "any"
    \/ mounts # NoEvidence /\ p.policy \in {"", "deny"} /\ NonPlatform(mounts) = {}
    \/ /\ mounts # NoEvidence /\ p.policy = "exact"
       /\ \A i, j \in NonPlatform(mounts) : mounts[i].destination = mounts[j].destination => i = j
       /\ \A i \in NonPlatform(mounts) : admitsMount(p, mounts[i])
       /\ Cardinality(Destinations(mounts)) = Cardinality(p.rules)

admitsObservation(p, env) ==
    \/ p.policy \in {"", "any"}
    \/ p.policy = "deny" /\ env = <<>>
    \/ p.policy = "exact" /\ env # NoEvidence /\ env = p.values

(* ObserveEnv: a name given twice leaves no observation.                     *)
ObserveEnv(entries) ==
    IF \E i, j \in DOMAIN entries : i # j /\ entries[i].name = entries[j].name THEN NoEvidence
    ELSE [n \in {entries[i].name : i \in DOMAIN entries} |->
             (CHOOSE e \in {entries[i] : i \in DOMAIN entries} : e.name = n).value]

(* ObserveLaunchEnv: the last value of each name, in launch order.           *)
ObserveLaunchEnv(entries) ==
    LET last == {i \in DOMAIN entries : \A j \in i + 1 .. Len(entries) : entries[j].name # entries[i].name}
    IN  ObserveEnv([k \in 1 .. Cardinality(last) |->
            entries[CHOOSE i \in last : Cardinality({j \in last : j <= i}) = k]])

-------------------------------------------------------------------------------
(* A declared container and a running one. *)
admitsProcess(c, r) == c.digest = r.digest /\ admitsArgv(c, r.argv)

admits(c, r) ==
    /\ c.digest = r.digest
    /\ admitsArgv(c, r.argv)
    /\ admitsMounts(c.mounts, r.mounts)
    /\ admitsObservation(c.env, r.env)

argvHostIndependent(p) == p.policy \in {"", "deny", "exact"}

ArgvPinned(cs) == \A c \in cs : argvHostIndependent(c.command) /\ argvHostIndependent(c.args)

HostIndependent(cs) ==
    /\ ArgvPinned(cs)
    /\ \A c \in cs : /\ \A rule \in c.mounts.rules : rule.kind \in {"emptyDir", "data"}
                     /\ c.mounts.policy \in {"", "deny", "exact"}
                     /\ c.env.policy \in {"deny", "exact"}

AnyArgv(c) == c.command.policy = "any" /\ c.args.policy = "any"

-------------------------------------------------------------------------------
(* Entries: [init, main, secrets]; a document maps names to entries.         *)
Declared(w) == w.init \union w.main

(* ParseWorkloadJSON of one entry, in the strict posture of a write.         *)
normalizeEntry(w) ==
    LET e == [init |-> {normalizeContainer(c) : c \in w.init},
              main |-> {normalizeContainer(c) : c \in w.main}, secrets |-> w.secrets]
    IN  IF \/ Invalid \in Declared(e)
           \/ e.secrets # NoGrant /\ ~ArgvPinned(Declared(e))
        THEN Invalid ELSE e

describes(w, running) ==
    /\ \A r \in running : \E c \in Declared(w) : admits(c, r)
    /\ \A c \in w.main : \E r \in running : admits(c, r)

Matches(doc, running) == {n \in DOMAIN doc : describes(doc[n], running)}

MatchWorkload(doc, running) ==
    IF running # {} /\ Cardinality(Matches(doc, running)) = 1
    THEN CHOOSE n \in Matches(doc, running) : TRUE ELSE NoName

AdmitsContainer(doc, r) == \E n \in DOMAIN doc : \E c \in Declared(doc[n]) : admits(c, r)

AdmitsProcess(doc, r) == \E n \in DOMAIN doc : \E c \in Declared(doc[n]) : admitsProcess(c, r)

AdmitsDigest(doc, d) == \E n \in DOMAIN doc : \E c \in Declared(doc[n]) : c.digest = d

AdmitsAnyArgv(doc, d) == \E n \in DOMAIN doc : \E c \in Declared(doc[n]) : c.digest = d /\ AnyArgv(c)

isInjected(doc, r) == r.argv # <<>> /\ AdmitsAnyArgv(doc, r.digest) /\ r.argv[1] \in Injected

WorkloadContainers(doc, reported) == {r \in reported : ~isInjected(doc, r)}

-------------------------------------------------------------------------------
(* observeEnv (the NRI plugin): runc's rule for duplicates, on CDI containers. *)
observeEnv(l) ==
    IF ObserveEnv(l.entries) = NoEvidence /\ l.cdi
    THEN ObserveLaunchEnv(l.entries) ELSE ObserveEnv(l.entries)

Running(l) == [digest |-> Digest, argv |-> l.argv, mounts |-> l.mounts, env |-> observeEnv(l)]

Launches == [argv : Argvs, mounts : MountLists, entries : EnvLists, cdi : BOOLEAN]

NoRules == [policy |-> "", rules |-> {}]
NoEnv == [policy |-> "", values |-> NoValues]
NoArgv == [policy |-> "", argv |-> <<>>]

EntryInit == policy = [digest |-> Digest, command |-> NoArgv, args |-> NoArgv, mounts |-> NoRules, env |-> NoEnv]

(* The operator edits one field. *)
Edit ==
    \/ \E p \in RawArgvPolicies : policy' = [policy EXCEPT !.command = p]
    \/ \E p \in RawArgvPolicies : policy' = [policy EXCEPT !.args = p]
    \/ \E p \in RawMountPolicies : policy' = [policy EXCEPT !.mounts = p]
    \/ \E p \in RawEnvPolicies : policy' = [policy EXCEPT !.env = p]

EntrySpec == EntryInit /\ [][Edit]_policy

-------------------------------------------------------------------------------
Stored == normalizeContainer(policy)

Canonical(c) ==
    /\ c.command.policy # "" /\ c.args.policy # "" /\ c.mounts.policy # "" /\ c.env.policy # ""
    /\ c.command.policy = "exact" <=> c.command.argv # <<>>
    /\ c.args.policy = "exact" <=> c.args.argv # <<>>
    /\ c.mounts.policy = "exact" <=> c.mounts.rules # {}
    /\ c.env.policy = "exact" <=> c.env.values \notin {NoValues, <<>>}

(* What is stored is canonical (allowlist.go:360-514): no absent policy, and *)
(* exactly the exact policies carry contents; storing it again changes       *)
(* nothing.                                                                  *)
StoredIsCanonical == Stored # Invalid => Canonical(Stored) /\ normalizeContainer(Stored) = Stored

(* allowlist.go:250: of an entry whose argv is pinned, nothing about the     *)
(* argv is left to the host: no two different command lines are admitted.    *)
ArgvIsPinned ==
    Stored # Invalid /\ ArgvPinned({Stored}) =>
        \A a, b \in Argvs : admitsArgv(Stored, a) /\ admitsArgv(Stored, b) => a = b

(* What runc runs: the last value of a repeated name. *)
LaunchedEnv(l) ==
    [n \in {l.entries[i].name : i \in DOMAIN l.entries} |->
        l.entries[CHOOSE i \in DOMAIN l.entries :
            l.entries[i].name = n /\ \A j \in i + 1 .. Len(l.entries) : l.entries[j].name # n].value]

SameExecution(l, m) ==
    /\ l.argv = m.argv
    /\ LaunchedEnv(l) = LaunchedEnv(m)
    /\ Destinations(l.mounts) = Destinations(m.mounts)

(* allowlist.go:262: of a host-independent entry the host cannot vary what   *)
(* runs: any two admitted launches execute the same argv in the same         *)
(* environment with workload mounts at the same places, duplicate            *)
(* environment names and duplicate mounts included; and ArgvIsPinned, and    *)
(* StoredIsCanonical, without which the entry would change under its digest. *)
LaunchIsPinned ==
    /\ ArgvIsPinned /\ StoredIsCanonical
    /\ Stored # Invalid /\ HostIndependent({Stored}) =>
          LET admitted == {l \in Launches : admits(Stored, Running(l))}
          IN  \A l, m \in admitted : SameExecution(l, m)
===============================================================================
