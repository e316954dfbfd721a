---------------------------- MODULE AllowlistStore ----------------------------
(***************************************************************************)
(* internal/allowlist/store.go: the operator allowlist of CDS, a SQLite    *)
(* database of named workload entries.  Three things move together in one  *)
(* transaction: the entries, the digest index built from them, and the     *)
(* version that workers poll as an ETag.  A fourth, the generation, counts *)
(* commits of this process and tells the in-process cache to reload.       *)
(* Every method runs under one mutex, so each is one action.               *)
(***************************************************************************)
EXTENDS Integers

CONSTANTS Name, Entry,
          Digests(_),      \* the image digests an entry declares
          Seed,            \* the install seed: a document
          MaxVersion       \* bound on the version counter

VARIABLES entries,         \* the document: name -> entry, for the names present
          index,           \* workload_entry_digest: rows <<digest, name>>
          version,         \* allowlist_version
          gen              \* commits of this process

storeVars == <<entries, index, version, gen>>

Documents == UNION {[S -> Entry] : S \in SUBSET Name}

ASSUME SeedAssumption == Seed \in Documents

(* Rows indexWorkloadTx writes for one entry. *)
Rows(n, e) == {<<d, n>> : d \in Digests(e)}

RowsOf(doc) == UNION {Rows(n, doc[n]) : n \in DOMAIN doc}

OtherRows(n) == {r \in index : r[2] # n}

Contains(d) == \E r \in index : r[1] = d

(* Documents of a, then those of b under the names a leaves free. *)
Over(a, b) == [n \in DOMAIN a \union DOMAIN b |-> IF n \in DOMAIN a THEN a[n] ELSE b[n]]

Remove(n) == [m \in DOMAIN entries \ {n} |-> entries[m]]

(* SeedWorkloads inserts the seed entries whose names are free, indexes them *)
(* and bumps the version once if there was any; it commits either way.       *)
SeedWorkloads(doc, idx, v) ==
    LET added == DOMAIN Seed \ DOMAIN doc
    IN  /\ entries' = Over(doc, Seed)
        /\ index' = idx \union UNION {Rows(n, Seed[n]) : n \in added}
        /\ version' = IF added = {} THEN v ELSE v + 1
        /\ gen' = IF DOMAIN Seed = {} THEN 0 ELSE 1

StoreInit ==
    /\ entries = Seed
    /\ index = RowsOf(Seed)
    /\ version = IF DOMAIN Seed = {} THEN 1 ELSE 2
    /\ gen = IF DOMAIN Seed = {} THEN 0 ELSE 1

(* bumpVersionTx and commitTx *)
Commit ==
    /\ version < MaxVersion
    /\ version' = version + 1
    /\ gen' = gen + 1

(* Mutants: the old index rows stay; the version is not bumped. *)
PutKeepsRows(n, e) ==
    /\ entries' = Over([m \in {n} |-> e], entries)
    /\ index' = index \union Rows(n, e)
    /\ Commit

PutKeepsVersion(n, e) ==
    /\ entries' = Over([m \in {n} |-> e], entries)
    /\ index' = OtherRows(n) \union Rows(n, e)
    /\ gen' = gen + 1
    /\ UNCHANGED version

PutWorkload(n, e) ==
    /\ entries' = Over([m \in {n} |-> e], entries)
    /\ index' = OtherRows(n) \union Rows(n, e)
    /\ Commit

DeleteWorkload(n) ==
    \/ n \notin DOMAIN entries /\ UNCHANGED storeVars
    \/ /\ n \in DOMAIN entries
       /\ entries' = Remove(n)
       /\ index' = OtherRows(n)
       /\ Commit

ReplaceAll(doc) ==
    /\ entries' = doc
    /\ index' = RowsOf(doc)
    /\ Commit

(* A new process on the same database: OpenStore keeps it, seedStore runs.   *)
Reopen == SeedWorkloads(entries, index, version)

(* A new process on a new database: the emptyDir went with the Pod.          *)
Recreate == SeedWorkloads(<<>>, {}, 1)

Write ==
    \/ \E n \in Name : DeleteWorkload(n) \/ \E e \in Entry : PutWorkload(n, e)
    \/ \E doc \in Documents : ReplaceAll(doc)

(* Reopen bumps the version when the operator has deleted a seed entry. *)
StoreNext == Write \/ (version < MaxVersion /\ Reopen) \/ Recreate

StoreSpec == StoreInit /\ [][StoreNext]_storeVars

-------------------------------------------------------------------------------
(* store.go:153: Contains answers from the index what the document says: the *)
(* rows are exactly those of the present entries after every put, delete,    *)
(* replacement, seed and restart.                                            *)
IndexMatchesEntries == index = RowsOf(entries)
===============================================================================
