------------------------- MODULE AllowlistStoreProofs -------------------------
(***************************************************************************)
(* The digest index of the allowlist store equals its document, no cache   *)
(* in front of it serves a stale document, and no node enforces one that   *)
(* was not committed: for every set of names and entries, every seed, every *)
(* number of requests and nodes and every history of writes and restarts.  *)
(***************************************************************************)
EXTENDS PolicyCaches, AllowlistPull, TLAPS

(* The rows of a document are those of its entries, each under its own name. *)
LEMMA RowsOfMember ==
    ASSUME NEW doc, NEW r
    PROVE  r \in RowsOf(doc) <=> \E n \in DOMAIN doc : \E d \in Digests(doc[n]) : r = <<d, n>>
  BY DEF RowsOf, Rows

(* What putting one entry does to the rows of a document: the rows of that *)
(* name are replaced, the others stay.                                     *)
LEMMA RowsOfPut ==
    ASSUME NEW doc, NEW n, NEW e
    PROVE  RowsOf(Over([m \in {n} |-> e], doc)) = {r \in RowsOf(doc) : r[2] # n} \union Rows(n, e)
  <1> DEFINE new == Over([m \in {n} |-> e], doc)
             rest == {r \in RowsOf(doc) : r[2] # n}
  <1>1. /\ DOMAIN new = {n} \union DOMAIN doc
        /\ new[n] = e
        /\ \A m \in DOMAIN doc : m # n => new[m] = doc[m]
    BY DEF Over
  <1> HIDE DEF new
  <1>2. ASSUME NEW r \in RowsOf(new)  PROVE  r \in rest \union Rows(n, e)
    <2>1. PICK m \in DOMAIN new : \E d \in Digests(new[m]) : r = <<d, m>>
      BY RowsOfMember
    <2>2. CASE m = n
      BY <2>1, <2>2, <1>1 DEF Rows
    <2>3. CASE m # n
      <3>1. m \in DOMAIN doc /\ new[m] = doc[m]
        BY <1>1, <2>3
      <3>2. r[2] = m
        BY <2>1
      <3> QED
        BY <2>1, <2>3, <3>1, <3>2, RowsOfMember
    <2> QED
      BY <2>2, <2>3
  <1>3. ASSUME NEW r \in rest \union Rows(n, e)  PROVE  r \in RowsOf(new)
    <2>1. CASE r \in Rows(n, e)
      BY <2>1, <1>1, RowsOfMember DEF Rows
    <2>2. CASE r \in rest
      <3>1. PICK m \in DOMAIN doc : \E d \in Digests(doc[m]) : r = <<d, m>>
        BY <2>2, RowsOfMember
      <3>2. m # n
        BY <2>2, <3>1
      <3> QED
        BY <3>1, <3>2, <1>1, RowsOfMember
    <2> QED
      BY <2>1, <2>2
  <1> QED
    BY <1>2, <1>3 DEF new

(* Removing an entry removes exactly the rows of its name. *)
LEMMA RowsOfDelete ==
    ASSUME NEW doc, NEW n
    PROVE  RowsOf([m \in DOMAIN doc \ {n} |-> doc[m]]) = {r \in RowsOf(doc) : r[2] # n}
  <1> DEFINE new == [m \in DOMAIN doc \ {n} |-> doc[m]]
  <1>1. /\ DOMAIN new = DOMAIN doc \ {n}
        /\ \A m \in DOMAIN new : new[m] = doc[m]
    OBVIOUS
  <1> HIDE DEF new
  <1>2. ASSUME NEW r \in RowsOf(new)  PROVE  r \in RowsOf(doc) /\ r[2] # n
    <2>1. PICK m \in DOMAIN new : \E d \in Digests(new[m]) : r = <<d, m>>
      BY RowsOfMember
    <2> QED
      BY <2>1, <1>1, RowsOfMember
  <1>3. ASSUME NEW r \in RowsOf(doc), r[2] # n  PROVE  r \in RowsOf(new)
    <2>1. PICK m \in DOMAIN doc : \E d \in Digests(doc[m]) : r = <<d, m>>
      BY RowsOfMember
    <2> QED
      BY <2>1, <1>1, <1>3, RowsOfMember
  <1> QED
    BY <1>2, <1>3 DEF new

(* Seeding: the entries of b under the names a leaves free add their rows. *)
LEMMA RowsOfSeed ==
    ASSUME NEW a, NEW b
    PROVE  RowsOf(Over(a, b)) = RowsOf(a) \union UNION {Rows(n, b[n]) : n \in DOMAIN b \ DOMAIN a}
  <1> DEFINE new == Over(a, b)
             added == UNION {Rows(n, b[n]) : n \in DOMAIN b \ DOMAIN a}
  <1>1. /\ DOMAIN new = DOMAIN a \union DOMAIN b
        /\ \A m \in DOMAIN a : new[m] = a[m]
        /\ \A m \in DOMAIN b \ DOMAIN a : new[m] = b[m]
    BY DEF Over
  <1>2. \A r : r \in added <=> \E n \in DOMAIN b \ DOMAIN a : \E d \in Digests(b[n]) : r = <<d, n>>
    BY DEF Rows
  <1> HIDE DEF new, added
  <1>3. ASSUME NEW r  PROVE  r \in RowsOf(new) <=> r \in RowsOf(a) \/ r \in added
    <2>1. r \in RowsOf(new) <=> \E n \in DOMAIN new : \E d \in Digests(new[n]) : r = <<d, n>>
      BY RowsOfMember
    <2>2. r \in RowsOf(a) <=> \E n \in DOMAIN a : \E d \in Digests(a[n]) : r = <<d, n>>
      BY RowsOfMember
    <2> QED
      BY <2>1, <2>2, <1>1, <1>2
  <1> QED
    BY <1>3 DEF new, added

(* Both kinds of restart run SeedWorkloads on a document and its rows. *)
LEMMA SeedKeepsIndex ==
    ASSUME NEW doc, NEW v, SeedWorkloads(doc, RowsOf(doc), v)
    PROVE  IndexMatchesEntries'
  BY RowsOfSeed DEF SeedWorkloads, IndexMatchesEntries

(* store.go:153: for every seed and every sequence of puts, deletions,         *)
(* replacements and restarts, with or without the database, Contains answers   *)
(* from the index what the document says.                                      *)
THEOREM IndexIsRight == StoreSpec => []IndexMatchesEntries
  <1>1. StoreInit => IndexMatchesEntries
    BY DEF StoreInit, IndexMatchesEntries
  <1>2. IndexMatchesEntries /\ [StoreNext]_storeVars => IndexMatchesEntries'
    <2> SUFFICES ASSUME IndexMatchesEntries, [StoreNext]_storeVars
                 PROVE  IndexMatchesEntries'
      OBVIOUS
    <2>1. ASSUME NEW n \in Name, NEW e \in Entry, PutWorkload(n, e)
          PROVE  IndexMatchesEntries'
      <3>1. index' = {r \in RowsOf(entries) : r[2] # n} \union Rows(n, e)
        BY <2>1 DEF PutWorkload, OtherRows, IndexMatchesEntries
      <3>2. index' = RowsOf(entries')
        BY ZenonT(40), <2>1, <3>1, RowsOfPut DEF PutWorkload
      <3> QED
        BY <3>2 DEF IndexMatchesEntries
    <2>2. ASSUME NEW n \in Name, DeleteWorkload(n)
          PROVE  IndexMatchesEntries'
      <3>1. CASE UNCHANGED storeVars
        BY <3>1 DEF storeVars, IndexMatchesEntries
      <3>2. CASE entries' = Remove(n) /\ index' = OtherRows(n)
        <4>1. index' = {r \in RowsOf(entries) : r[2] # n}
          BY <3>2 DEF OtherRows, IndexMatchesEntries
        <4>2. index' = RowsOf(entries')
          BY ZenonT(40), <3>2, <4>1, RowsOfDelete DEF Remove
        <4> QED
          BY <4>2 DEF IndexMatchesEntries
      <3> QED
        BY <2>2, <3>1, <3>2 DEF DeleteWorkload
    <2>3. ASSUME NEW doc \in Documents, ReplaceAll(doc)
          PROVE  IndexMatchesEntries'
      BY <2>3 DEF ReplaceAll, IndexMatchesEntries
    <2>4. CASE Reopen
      BY <2>4, SeedKeepsIndex DEF Reopen, IndexMatchesEntries
    <2>5. CASE Recreate
      <3>1. RowsOf(<<>>) = {}
        BY DEF RowsOf
      <3> QED
        BY <2>5, <3>1, SeedKeepsIndex DEF Recreate
    <2>6. CASE UNCHANGED storeVars
      BY <2>6 DEF storeVars, IndexMatchesEntries
    <2> QED
      BY <2>1, <2>2, <2>3, <2>4, <2>5, <2>6 DEF StoreNext, Write
  <1> QED
    BY <1>1, <1>2, PTL DEF StoreSpec

-------------------------------------------------------------------------------
(* Every operator write either leaves the store alone or moves the version *)
(* and the generation on by one: no two documents share either.            *)
LEMMA WriteBumps ==
    ASSUME Write
    PROVE  UNCHANGED storeVars \/ (version' = version + 1 /\ gen' = gen + 1)
  BY ZenonT(40) DEF Write, DeleteWorkload, PutWorkload, ReplaceAll, Commit

(* Seeding commits a version at least as high, and the same one only for   *)
(* the same document.                                                      *)
LEMMA SeedBumps ==
    ASSUME NEW doc, NEW idx, NEW v \in Nat, SeedWorkloads(doc, idx, v)
    PROVE  /\ version' \in Nat /\ version' >= v /\ gen' \in Nat
           /\ version' = v => entries' = Over(doc, Seed) /\ DOMAIN Seed \subseteq DOMAIN doc
  BY DEF SeedWorkloads

(* A document is at most as new as the store's, and the store's own if it  *)
(* carries the store's version.                                            *)
Current(doc, v) == v \in Nat /\ v <= version /\ (v = version => doc = entries)

(* What makes NeverStale inductive: both caches hold documents under the   *)
(* version they were stored with; the snapshot's generation says more, that *)
(* it is the document as long as the generation stands, and the lock keeps *)
(* that comparison meaningful between a request's two steps.               *)
StoresKept ==
    /\ version \in Nat /\ gen \in Nat
    /\ snap.doc # NoDoc =>
          /\ Current(snap.doc, snap.version)
          /\ snap.gen \in Nat /\ snap.gen <= gen
          /\ snap.gen = gen => snap.version = version
    /\ pol.doc # NoDoc => Current(pol.doc, pol.version)
    /\ DOMAIN req = Request

RequestKept(r) ==
    /\ DOMAIN req[r] = {"at", "read", "began", "doc", "version"}
    /\ req[r].began \in Nat /\ req[r].began <= version
    /\ At(r, "snap") =>
          /\ lock = r
          /\ req[r].read \in Nat /\ req[r].read <= gen
          /\ snap.doc # NoDoc /\ snap.gen = req[r].read => snap.version >= req[r].began
    /\ At(r, "pol") => req[r].read = req[r].began
    /\ At(r, "done") => Current(req[r].doc, req[r].version) /\ req[r].version >= req[r].began

CachesInv == StoresKept /\ \A r \in Request : RequestKept(r)

(* policysnapshot.go:91: no request, of any number, is answered with a       *)
(* document older than the store held when it began, or with one that is not *)
(* the document of its version, whatever writes and requests interleave.     *)
THEOREM CachesAreFresh == CachesSpec => []NeverStale
  <1>1. CachesInit => CachesInv
    BY DEF CachesInit, StoreInit, CachesInv, StoresKept, RequestKept, Idle, At
  <1>2. CachesInv /\ [CachesNext]_cachesVars => CachesInv'
    <2> SUFFICES ASSUME CachesInv, [CachesNext]_cachesVars
                 PROVE  CachesInv'
      OBVIOUS
    <2> USE DEF Current, At
    <2>1. CASE CachesWrite
      <3>1. CASE UNCHANGED storeVars
        BY <2>1, <3>1 DEF CachesWrite, cacheVars, storeVars, CachesInv, StoresKept, RequestKept
      <3>2. CASE version' = version + 1 /\ gen' = gen + 1
        BY <2>1, <3>2 DEF CachesWrite, cacheVars, CachesInv, StoresKept, RequestKept
      <3> QED
        BY <2>1, <3>1, <3>2, WriteBumps DEF CachesWrite
    <2>2. CASE CachesRestart
      <3>1. version' \in Nat /\ gen' \in Nat
        BY <2>2, SeedBumps DEF CachesRestart, Reopen, Recreate, CachesInv, StoresKept
      <3> QED
        BY <2>2, <3>1 DEF CachesRestart, CachesInv, StoresKept, RequestKept, Idle
    <2>3. ASSUME NEW r \in Request, SnapshotReadsGeneration(r)  PROVE CachesInv'
      <3>1. StoresKept'
        BY <2>3 DEF SnapshotReadsGeneration, storeVars, CachesInv, StoresKept
      <3>2. RequestKept(r)'
        BY <2>3 DEF SnapshotReadsGeneration, storeVars, CachesInv, StoresKept, RequestKept, Idle
      <3>3. ASSUME NEW q \in Request, q # r  PROVE RequestKept(q)'
        BY <2>3, <3>3, RequestAssumption
           DEF SnapshotReadsGeneration, storeVars, CachesInv, StoresKept, RequestKept
      <3> QED
        BY <3>1, <3>2, <3>3 DEF CachesInv
    <2>4. ASSUME NEW r \in Request, SnapshotLoads(r)  PROVE CachesInv'
      <3>1. \A q \in Request : q # r => req'[q] = req[q] /\ ~At(q, "snap")
        BY <2>4 DEF SnapshotLoads, Answer, CachesInv, StoresKept, RequestKept
      <3>2. ASSUME NEW q \in Request, q # r  PROVE RequestKept(q)'
        BY <2>4, <3>1, <3>2 DEF SnapshotLoads, storeVars, CachesInv, RequestKept
      <3>3. CASE snap' = snap /\ Answer(r, snap.doc, snap.version)
                 /\ snap.doc # NoDoc /\ snap.gen = req[r].read
        BY <2>4, <3>2, <3>3
           DEF SnapshotLoads, Answer, storeVars, CachesInv, StoresKept, RequestKept
      <3>4. CASE snap' = [doc |-> entries, version |-> version, gen |-> req[r].read]
                 /\ Answer(r, entries, version)
        <4>1. StoresKept'
          BY <2>4, <3>4 DEF SnapshotLoads, Answer, storeVars, CachesInv, StoresKept, RequestKept
        <4>2. RequestKept(r)'
          BY <2>4, <3>4 DEF SnapshotLoads, Answer, storeVars, CachesInv, StoresKept, RequestKept
        <4> QED
          BY <3>2, <4>1, <4>2 DEF CachesInv
      <3>5. CASE snap' = snap /\ req' = [req EXCEPT ![r] = Idle]
        BY <2>4, <3>2, <3>5
           DEF SnapshotLoads, storeVars, CachesInv, StoresKept, RequestKept, Idle
      <3> QED
        BY <2>4, <3>3, <3>4, <3>5 DEF SnapshotLoads
    <2>5. ASSUME NEW r \in Request, AllowlistReadsVersion(r)  PROVE CachesInv'
      BY <2>5 DEF AllowlistReadsVersion, storeVars, CachesInv, StoresKept, RequestKept, Idle
    <2>6. ASSUME NEW r \in Request, AllowlistLoads(r)  PROVE CachesInv'
      <3>1. StoresKept'
        BY <2>6 DEF AllowlistLoads, Hit, Answer, storeVars, CachesInv, StoresKept
      <3>2. RequestKept(r)'
        <4>1. CASE Hit(r) /\ Answer(r, pol.doc, pol.version)
          BY <2>6, <4>1
             DEF AllowlistLoads, Hit, Answer, storeVars, CachesInv, StoresKept, RequestKept
        <4>2. CASE Answer(r, entries, version)
          BY <2>6, <4>2 DEF AllowlistLoads, Answer, storeVars, CachesInv, StoresKept, RequestKept
        <4>3. CASE req' = [req EXCEPT ![r] = Idle]
          BY <2>6, <4>3 DEF AllowlistLoads, storeVars, CachesInv, StoresKept, RequestKept, Idle
        <4> QED
          BY <2>6, <4>1, <4>2, <4>3 DEF AllowlistLoads
      <3>3. ASSUME NEW q \in Request, q # r  PROVE RequestKept(q)'
        BY <2>6, <3>3 DEF AllowlistLoads, Answer, storeVars, CachesInv, StoresKept, RequestKept
      <3> QED
        BY <3>1, <3>2, <3>3 DEF CachesInv
    <2>7. ASSUME NEW r \in Request, Forget(r)  PROVE CachesInv'
      BY <2>7 DEF Forget, storeVars, CachesInv, StoresKept, RequestKept, Idle
    <2>8. CASE UNCHANGED cachesVars
      BY <2>8 DEF cachesVars, cacheVars, storeVars, CachesInv, StoresKept, RequestKept
    <2> QED
      BY <2>1, <2>2, <2>3, <2>4, <2>5, <2>6, <2>7, <2>8 DEF CachesNext
  <1>3. CachesInv => NeverStale
    BY DEF CachesInv, RequestKept, NeverStale, Current
  <1> QED
    BY <1>1, <1>2, <1>3, PTL DEF CachesSpec

-------------------------------------------------------------------------------
(* The state of one node and its connection.  The ETag is the version of    *)
(* the enforced document, and a request in flight carries the ETag the node *)
(* still holds; with a persistent database both the enforced document and a *)
(* 200 under way are documents of the store.                                *)
NodeKept(n) ==
    /\ DOMAIN served[n] = {"doc", "version"} /\ served[n].version \in Nat
    /\ etag[n] = served[n].version
    /\ conn[n].at = "asked" => conn[n].match \in {0, etag[n]}
    /\ conn[n].at = "304" => etag[n] > 0
    /\ conn[n].at = "200" => conn[n].version \in Nat
    /\ persistent =>
          /\ Current(served[n].doc, served[n].version)
          /\ conn[n].at = "200" => Current(conn[n].doc, conn[n].version)

(* What makes EnforcesCommitted inductive; versions start at 1, so that the *)
(* document of a node that has pulled nothing, at 0, is never confused with *)
(* a committed one.                                                         *)
PullInv ==
    /\ version \in Nat \ {0} /\ entries \in Documents
    /\ DOMAIN served = Node /\ DOMAIN etag = Node /\ DOMAIN conn = Node
    /\ restarts.node \in [Node -> Nat] /\ DOMAIN restarts = {"cds", "node"}
    /\ \A n \in Node : NodeKept(n)

(* One document laid over another is a document. *)
LEMMA OverIsDocument ==
    ASSUME NEW a \in Documents, NEW b \in Documents
    PROVE  Over(a, b) \in Documents
  <1>1. PICK S \in SUBSET Name : a \in [S -> Entry]
    BY DEF Documents
  <1>2. PICK T \in SUBSET Name : b \in [T -> Entry]
    BY DEF Documents
  <1>3. Over(a, b) \in [S \union T -> Entry]
    BY <1>1, <1>2 DEF Over
  <1> QED
    BY <1>3 DEF Documents

(* A new document of the store has a new version. *)
LEMMA StoreMoves ==
    ASSUME version \in Nat \ {0}, entries \in Documents,
           \/ Write
           \/ Reopen
           \/ Recreate
    PROVE  /\ version' \in Nat \ {0} /\ entries' \in Documents
           /\ \/ version' > version
              \/ version' = version /\ entries' = entries
              \/ Recreate
  <1>1. CASE Write
    <2>1. ASSUME NEW n \in Name, NEW e \in Entry, PutWorkload(n, e)  PROVE entries' \in Documents
      BY <2>1, OverIsDocument DEF PutWorkload, Documents
    <2>2. ASSUME NEW n \in Name, DeleteWorkload(n)  PROVE entries' \in Documents
      BY <2>2 DEF DeleteWorkload, Remove, Documents, storeVars
    <2>3. ASSUME NEW doc \in Documents, ReplaceAll(doc)  PROVE entries' \in Documents
      BY <2>3 DEF ReplaceAll
    <2>4. entries' \in Documents
      BY <1>1, <2>1, <2>2, <2>3 DEF Write
    <2> QED
      BY <1>1, <2>4, WriteBumps DEF storeVars
  <1>2. CASE Reopen
    <2>1. DOMAIN Seed \subseteq DOMAIN entries => Over(entries, Seed) = entries
      BY DEF Over, Documents
    <2>2. entries' \in Documents
      BY <1>2, OverIsDocument, SeedAssumption DEF Reopen, SeedWorkloads
    <2> QED
      BY <1>2, <2>1, <2>2, SeedBumps DEF Reopen
  <1>3. CASE Recreate
    <2>1. <<>> \in Documents
      BY SMTT(40) DEF Documents
    <2>2. entries' \in Documents
      BY <1>3, <2>1, OverIsDocument, SeedAssumption DEF Recreate, SeedWorkloads
    <2> QED
      BY <1>3, <2>2, SeedBumps DEF Recreate
  <1> QED
    BY <1>1, <1>2, <1>3

(* The invariant holds throughout. *)
LEMMA PullInvHolds == PullSpec => []PullInv
  <1>1. PullInit => PullInv
    <2> SUFFICES ASSUME PullInit  PROVE PullInv
      OBVIOUS
    <2>1. version \in Nat \ {0} /\ entries \in Documents
      BY SeedAssumption DEF PullInit, StoreInit
    <2> QED
      BY <2>1 DEF PullInit, PullInv, NodeKept, Current, Boot, NoConn
  <1>2. PullInv /\ [PullNext]_pullVars => PullInv'
    <2> SUFFICES ASSUME PullInv, [PullNext]_pullVars
                 PROVE  PullInv'
      OBVIOUS
    <2> USE DEF Current
    <2>1. CASE PullWrite
      <3>1. /\ version' \in Nat \ {0} /\ entries' \in Documents
            /\ version' > version \/ (version' = version /\ entries' = entries)
        <4>1. CASE UNCHANGED storeVars
          BY <4>1 DEF storeVars, PullInv
        <4>2. CASE version' = version + 1
          BY <2>1, <4>2, StoreMoves DEF PullWrite, PullInv
        <4> QED
          BY <2>1, <4>1, <4>2, WriteBumps DEF PullWrite
      <3> QED
        BY <2>1, <3>1 DEF PullWrite, nodeVars, PullInv, NodeKept
    <2>2. CASE CdsRestart
      <3>1. /\ version' \in Nat \ {0} /\ entries' \in Documents
            /\ persistent => version' > version \/ (version' = version /\ entries' = entries)
        <4>1. CASE Reopen
          <5>1. version' >= version /\ (version' = version => entries' = Over(entries, Seed))
                /\ (version' = version => DOMAIN Seed \subseteq DOMAIN entries)
            BY <4>1, SeedBumps DEF Reopen, PullInv
          <5>2. DOMAIN Seed \subseteq DOMAIN entries => Over(entries, Seed) = entries
            BY DEF Over, Documents, PullInv
          <5> QED
            BY <4>1, <5>1, <5>2, StoreMoves DEF PullInv
        <4>2. CASE ~persistent /\ Recreate
          BY <4>2, StoreMoves DEF PullInv
        <4> QED
          BY <2>2, <4>1, <4>2 DEF CdsRestart
      <3>2. ASSUME NEW n \in Node  PROVE NodeKept(n)'
        <4>1. conn'[n] = IF conn[n].at \in {"asked", "loading"} THEN [at |-> "broken"] ELSE conn[n]
          BY <2>2 DEF CdsRestart
        <4> QED
          BY <2>2, <3>1, <4>1 DEF CdsRestart, nodeVars, PullInv, NodeKept
      <3> QED
        BY <2>2, <3>1, <3>2 DEF CdsRestart, nodeVars, PullInv
    <2>3. ASSUME NEW n \in Node, Ask(n)  PROVE PullInv'
      BY <2>3 DEF Ask, SetConn, storeVars, nodeVars, PullInv, NodeKept
    <2>4. ASSUME NEW n \in Node, HandleListChecks(n)  PROVE PullInv'
      BY <2>4 DEF HandleListChecks, SetConn, storeVars, nodeVars, PullInv, NodeKept
    <2>5. ASSUME NEW n \in Node, HandleListLoads(n)  PROVE PullInv'
      BY <2>5 DEF HandleListLoads, SetConn, storeVars, nodeVars, PullInv, NodeKept
    <2>6. ASSUME NEW n \in Node, Receive(n)  PROVE PullInv'
      BY <2>6 DEF Receive, applies, SetConn, NoConn, storeVars, nodeVars, PullInv, NodeKept
    <2>7. ASSUME NEW n \in Node, Fail(n)  PROVE PullInv'
      BY <2>7 DEF Fail, SetConn, NoConn, storeVars, PullInv, NodeKept
    <2>8. ASSUME NEW n \in Node, NodeRestart(n)  PROVE PullInv'
      BY <2>8 DEF NodeRestart, SetConn, NoConn, Boot, storeVars, PullInv, NodeKept
    <2>9. CASE UNCHANGED pullVars
      BY <2>9 DEF pullVars, storeVars, nodeVars, PullInv, NodeKept
    <2> QED
      BY <2>1, <2>2, <2>3, <2>4, <2>5, <2>6, <2>7, <2>8, <2>9 DEF PullNext
  <1> QED
    BY <1>1, <1>2, PTL DEF PullSpec

(* plugin.go:88, handler.go:36: on every number of nodes, through lost replies *)
(* and restarts of CDS and of the plugins, a node with a persistent CDS        *)
(* database enforces only documents CDS committed, each under its version.     *)
THEOREM NodesEnforceCommitted == PullSpec => []EnforcesCommitted
  <1>1. PullInv => EnforcesCommitted
    BY DEF PullInv, NodeKept, Current, EnforcesCommitted
  <1> QED
    BY <1>1, PullInvHolds, PTL

(* plugin.go:88: whatever CDS answers, persistent or not, the version a plugin *)
(* process enforces never goes back.                                           *)
THEOREM NodesNeverRollBack == PullSpec => NeverRollsBack
  <1>1. ASSUME PullInv, PullNext, NEW n \in Node, restarts'.node[n] = restarts.node[n]
        PROVE  served'[n].version >= served[n].version
    <2> USE DEF PullInv, NodeKept
    <2>1. CASE served' = served
      BY <1>1, <2>1
    <2>2. ASSUME NEW m \in Node, Receive(m)  PROVE served'[n].version >= served[n].version
      BY <1>1, <2>2 DEF Receive, applies, nodeVars
    <2>3. ASSUME NEW m \in Node, NodeRestart(m)  PROVE served'[n].version >= served[n].version
      BY <1>1, <2>3 DEF NodeRestart
    <2> QED
      BY ZenonT(40), <1>1, <2>1, <2>2, <2>3
         DEF PullNext, PullWrite, CdsRestart, Ask, HandleListChecks, HandleListLoads, Fail, nodeVars
  <1>2. PullInv /\ [PullNext]_pullVars
        => [\A n \in Node : restarts'.node[n] = restarts.node[n] =>
               served'[n].version >= served[n].version]_pullVars
    BY <1>1
  <1> QED
    BY <1>2, PullInvHolds, PTL DEF PullSpec, NeverRollsBack
===============================================================================
