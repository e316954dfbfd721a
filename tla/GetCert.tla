-------------------------------- MODULE GetCert --------------------------------
(***************************************************************************)
(* internal/cmds/getcert/run.go: the sidecar that obtains a workload's     *)
(* leaf and keeps it fresh.  It writes a key, a CA bundle, the certificate *)
(* and a discovery document, one file at a time, to a volume that outlives *)
(* its container, while CDS may be restarted with a new CA.  A key is its  *)
(* number, a CA the number of the CDS process that made it.  Times are     *)
(* countdowns; a request is short against a tick.                          *)
(***************************************************************************)
EXTENDS Integers, FiniteSets

CONSTANTS Keys,            \* keys a run may generate, positive numbers
          MaxCds,          \* bound on CDS processes
          MaxGetCertCrashes,      \* bound on container restarts not asked for
          LeafLife,        \* lifetime of a leaf
          RenewInterval,
          CAWatch,         \* --ca-watch-interval is set
          Absent

ASSUME GetCertAssumption ==
    /\ MaxCds \in Nat /\ LeafLife \in Nat /\ RenewInterval \in Nat
    /\ Keys \subseteq Nat /\ Absent \notin Int

VARIABLES cds,             \* the CDS process now running
          keyFile, caFile, certFile, docFile,
          getcert,         \* the process: at, key, reply, leaf, haveCert, failures,
                           \* timer; "absent" in a pod without it
          getcertCrashes

getcertVars == <<cds, keyFile, caFile, certFile, docFile, getcert, getcertCrashes>>

files == <<keyFile, caFile, certFile, docFile>>

expiredExitFailures == 3

Least(a, b) == IF a <= b THEN a ELSE b

Greatest(a, b) == IF a <= b THEN b ELSE a

Lower(n) == IF n = 0 THEN 0 ELSE n - 1

Leaf == [key : Keys, ca : 1..MaxCds, left : 0..LeafLife]

Stopped == [at |-> "stopped", key |-> Absent, reply |-> Absent, leaf |-> Absent,
            haveCert |-> FALSE, failures |-> 0, timer |-> 0]

GetCertInit ==
    /\ cds = 1
    /\ keyFile = Absent /\ caFile = Absent /\ certFile = Absent /\ docFile = Absent
    /\ getcert \in {Stopped, [Stopped EXCEPT !.at = "absent"]}
    /\ getcertCrashes = 0

(* The delays renewalInterval may pick: at most half of what is left of the    *)
(* leaf, less for jitter and for leaves without a workload's name.             *)
renewalInterval(leaf) ==
    1..(IF leaf = Absent THEN RenewInterval
        ELSE Greatest(1, Least(RenewInterval, leaf.left \div 2)))

(* Mutant: a key is generated for every request. *)
AlwaysGenerateKey == Keys

(* The key file is reused, so that a restart keeps the pair. *)
loadOrGenerateKey == IF keyFile # Absent THEN {keyFile} ELSE Keys

(* The kubelet starts the container: obtainCertWithRetry asks at once.         *)
StartRun ==
    /\ getcert.at = "stopped"
    /\ \E k \in loadOrGenerateKey : getcert' = [Stopped EXCEPT !.at = "asking", !.key = k]
    /\ UNCHANGED <<cds, files, getcertCrashes>>

(* The renewal timer fires.                                                    *)
Renew ==
    /\ getcert.at = "waiting"
    /\ getcert.timer = 0
    /\ \E k \in loadOrGenerateKey : getcert' = [getcert EXCEPT !.at = "asking", !.key = k]
    /\ UNCHANGED <<cds, files, getcertCrashes>>

(* CDS signs.                                                                  *)
Obtain ==
    /\ getcert.at = "asking"
    /\ getcert' = [getcert EXCEPT !.at = "key",
                      !.reply = [key |-> getcert.key, ca |-> cds, left |-> LeafLife]]
    /\ UNCHANGED <<cds, files, getcertCrashes>>

(* writeOutputs, one file after the other; the certificate is what other       *)
(* containers wait for.                                                        *)
WriteKey ==
    /\ getcert.at = "key"
    /\ keyFile' = getcert.key
    /\ getcert' = [getcert EXCEPT !.at = "ca"]
    /\ UNCHANGED <<cds, caFile, certFile, docFile, getcertCrashes>>

WriteCA ==
    /\ getcert.at = "ca"
    /\ caFile' = getcert.reply.ca
    /\ getcert' = [getcert EXCEPT !.at = "cert"]
    /\ UNCHANGED <<cds, keyFile, certFile, docFile, getcertCrashes>>

WriteCert ==
    /\ getcert.at = "cert"
    /\ certFile' = getcert.reply
    /\ getcert' = [getcert EXCEPT !.at = "doc"]
    /\ UNCHANGED <<cds, keyFile, caFile, docFile, getcertCrashes>>

(* The last file; the loop then waits for its next renewal.                    *)
Finish ==
    /\ getcert.at = "doc"
    /\ docFile' = getcert.reply.ca
    /\ \E d \in renewalInterval(getcert.reply) :
          getcert' = [Stopped EXCEPT !.at = "waiting", !.leaf = getcert.reply,
                                     !.haveCert = TRUE, !.timer = d]
    /\ UNCHANGED <<cds, keyFile, caFile, certFile, getcertCrashes>>

Busy == {"asking", "key", "ca", "cert", "doc"}

ObtainFails ==
    /\ getcert.at \in Busy
    /\ UNCHANGED <<cds, files, getcertCrashes>>

shouldRestartAfterRenewalFailures ==
    /\ getcert.leaf # Absent
    /\ getcert.leaf.left = 0
    /\ getcert.failures + 1 >= expiredExitFailures

(* No certificate yet: try again, go on in the renewal loop, or exit with the  *)
(* error, as the flags and the deadline say.                                   *)
FirstFails ==
    /\ ObtainFails
    /\ ~getcert.haveCert
    /\ \/ getcert' = [Stopped EXCEPT !.at = "waiting", !.timer = 1]
       \/ getcert' = Stopped

(* Mutant: the timer is not set again after a failure. *)
RenewalGivesUp ==
    /\ ObtainFails
    /\ getcert.haveCert
    /\ getcert' = [getcert EXCEPT !.at = "lost"]

(* A renewal fails: back off, or exit when the leaf has expired and three in a *)
(* row failed.                                                                 *)
RenewalFails ==
    /\ ObtainFails
    /\ getcert.haveCert
    /\ \/ /\ shouldRestartAfterRenewalFailures
          /\ getcert' = Stopped
       \/ /\ ~shouldRestartAfterRenewalFailures
          /\ \E d \in renewalInterval(getcert.leaf) :
                getcert' = [getcert EXCEPT !.at = "waiting", !.key = Absent, !.reply = Absent,
                                !.failures = Least(@ + 1, expiredExitFailures), !.timer = d]

(* The CA watch finds that CDS serves a CA the bundle on disk has not.         *)
servedCAStale ==
    /\ CAWatch
    /\ getcert.at = "waiting"
    /\ getcert.haveCert
    /\ caFile # cds
    /\ getcert' = [getcert EXCEPT !.timer = 0]
    /\ UNCHANGED <<cds, files, getcertCrashes>>

GetCertCrash ==
    /\ getcertCrashes < MaxGetCertCrashes
    /\ getcert.at \notin {"stopped", "absent"}
    /\ getcert' = Stopped
    /\ getcertCrashes' = getcertCrashes + 1
    /\ UNCHANGED <<cds, files>>

CdsRestarts ==
    /\ cds < MaxCds
    /\ getcert.at # "absent"
    /\ cds' = cds + 1
    /\ UNCHANGED <<files, getcert, getcertCrashes>>

Older(leaf) == IF leaf = Absent THEN Absent ELSE [leaf EXCEPT !.left = Lower(@)]

TimePasses ==
    /\ getcert.at \notin Busy
    /\ getcert.at = "waiting" => getcert.timer > 0
    /\ certFile' = Older(certFile)
    /\ getcert' = [getcert EXCEPT !.leaf = Older(@), !.timer = Lower(@)]
    /\ UNCHANGED <<cds, keyFile, caFile, docFile, getcertCrashes>>

GetCertWork ==
    \/ StartRun \/ Renew \/ Obtain
    \/ WriteKey \/ WriteCA \/ WriteCert \/ Finish
    \/ FirstFails \/ RenewalFails
    \/ servedCAStale \/ GetCertCrash \/ CdsRestarts

GetCertSpec == GetCertInit /\ [][GetCertWork \/ TimePasses]_getcertVars

(* The process runs and is started again; a request made over and over         *)
(* succeeds once, all four writes included.                                    *)
GetCertFairness ==
    /\ WF_getcertVars(StartRun \/ Renew \/ Obtain \/ WriteKey \/ WriteCA \/ WriteCert
                      \/ Finish \/ FirstFails \/ RenewalFails)
    /\ SF_getcertVars(Obtain) /\ SF_getcertVars(WriteKey) /\ SF_getcertVars(WriteCA)
    /\ SF_getcertVars(WriteCert) /\ SF_getcertVars(Finish)
    /\ WF_getcertVars(TimePasses)

-------------------------------------------------------------------------------
(* run.go:925 writeOutputs: what another container finds once the certificate *)
(* file is there.  Its key is beside it whatever restarts happened, and the    *)
(* CA bundle is there and not from a CDS older than the one that signed it.    *)
OutputsInOrder ==
    certFile # Absent =>
        /\ keyFile = certFile.key
        /\ caFile # Absent /\ caFile >= certFile.ca

(* run.go:269 renewLoop: through failed requests, restarts of the container    *)
(* and of CDS, the workload gets again and again a certificate that is valid   *)
(* and signed by the CA of the CDS that runs.                                  *)
MeshCertRenews ==
    getcert.at # "absent" =>
        []<>(certFile # Absent /\ certFile.left > 0 /\ certFile.ca = cds /\ caFile = cds)
================================================================================
