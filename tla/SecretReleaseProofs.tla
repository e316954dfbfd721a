-------------------------- MODULE SecretReleaseProofs --------------------------
(***************************************************************************)
(* Secret release: replicas agree and nothing leaves CDS without a grant,  *)
(* for every set of replicas, paths, entries, documents and requests.      *)
(***************************************************************************)
EXTENDS SecretRelease, TLAPS

(* What get-secret has in hand.  A replica that waits has its request still  *)
(* in the handler, for the path that is next.                                *)
RepType == [pc : {"get", "post", "reget", "done"}, got : Seq([value : Nat \union {Nil}, process : Nat]),
            rid : Rid \union {None}]

Waits(sc, k, r, rq) ==
    /\ k.pc # "done" => Len(k.got) < Len(sc.wanted[r])
    /\ k.rid # None => /\ rq[k.rid] # None /\ k.pc # "done"
                       /\ rq[k.rid].rep = r /\ rq[k.rid].path = sc.wanted[r][Len(k.got) + 1]

(* What it got from this process is what the store holds, unless replaced.   *)
Holds(sc, k, r, vals, proc, repl) ==
    \A n \in 1..Len(k.got) :
        /\ k.got[n].process <= proc
        /\ k.got[n].value # Nil /\ k.got[n].process = proc /\ sc.wanted[r][n] \notin repl
              => sc.wanted[r][n] \in DOMAIN vals /\ vals[sc.wanted[r][n]].value = k.got[n].value

RepKept(sc, k, r, rq, vals, proc, repl) == k \in RepType /\ Waits(sc, k, r, rq) /\ Holds(sc, k, r, vals, proc, repl)

RepsKept(sc, rp, rq, vals, proc, repl) ==
    DOMAIN rp = Replica /\ \A r \in Replica : RepKept(sc, rp[r], r, rq, vals, proc, repl)

(* What the handler has in hand.  The policy of a request was current at     *)
(* some moment of it, and a pod that was foreign when it asked still is.     *)
ReqKept(sc, k, ds, pd) ==
    k # None =>
        /\ k \in Request
        /\ k.since \in 1..Len(ds)
        /\ k.was = "foreign" => pd[k.rep] = "foreign"
        /\ k.stage # "arrived" => \E n \in k.since..Len(ds) : k.doc = ds[n]
        /\ k.stage = "granted" => k.was # "foreign" /\ sc.entryOf[k.rep] \in DOMAIN k.doc

ReqsKept(sc, rq, ds, pd) == DOMAIN rq = Rid /\ \A i \in Rid : ReqKept(sc, rq[i], ds, pd)

(* ReleaseIsGranted for one value, and how far the values minted reach.      *)
Granted(sc, x, ds) ==
    /\ x.was # "foreign"
    /\ \E n \in x.since .. x.until :
          /\ sc.entryOf[x.rep] \in DOMAIN ds[n]
          /\ LET g == ds[n][sc.entryOf[x.rep]]
             IN  x.path \in IF x.op = "read" THEN g.read ELSE g.write

ReleasesKept(sc, rel, ds, m) ==
    /\ \A x \in rel : /\ x.since \in Nat \ {0} /\ x.until \in 1..Len(ds) /\ Granted(sc, x, ds)
                      /\ x.op = "write" => x.value \in 1..m
    /\ \A x, y \in rel : x.op = "write" /\ y.op = "write" /\ x.value = y.value => x = y

StoreKept(vals) == \A p \in DOMAIN vals : vals[p].value \in Nat

Typed == /\ scene \in Scenes /\ minted \in Nat /\ process \in Nat
         /\ docs \in Seq(Docs) /\ Len(docs) > 0 /\ pod \in [Replica -> PodState]

ReleaseInv ==
    /\ Typed /\ StoreKept(values)
    /\ RepsKept(scene, rep, req, values, process, replaced)
    /\ ReqsKept(scene, req, docs, pod)
    /\ ReleasesKept(scene, released, docs, minted)

-------------------------------------------------------------------------------
(* An element of a sequence over S is in S. *)
LEMMA ElementOf == ASSUME NEW S, NEW s \in Seq(S), NEW n \in 1..Len(s) PROVE s[n] \in S
  OBVIOUS

(* What an answer does to fetchOne: start again, take the value, or turn to  *)
(* the next request about the same path.                                     *)
Turned(k, c) == [k EXCEPT !.pc = c, !.rid = None]

(* fetchOne (getsecret/run.go) has these outcomes and no other. *)
LEMMA FetchOutcomes ==
    ASSUME NEW k, NEW r, NEW status, NEW v
    PROVE  \/ fetchOne(k, r, status, v) = Fresh
           \/ /\ k.pc # "done"
              /\ \/ fetchOne(k, r, status, v) = Got(k, r, v)
                 \/ \E c \in {"post", "reget"} : fetchOne(k, r, status, v) = Turned(k, c)
  BY SMTT(40) DEF fetchOne, Turned

(* A value that is the store's joins what the replica holds.                 *)
LEMMA GotKept ==
    ASSUME NEW k \in RepType, NEW r \in Replica, scene \in Scenes, process \in Nat, NEW old, Waits(scene, k, r, old),
           k.pc # "done", NEW vals, NEW repl, Holds(scene, k, r, vals, process, repl), NEW v \in Nat \union {Nil},
           LET p == scene.wanted[r][Len(k.got) + 1] IN v = Nil \/ p \in repl \/ (p \in DOMAIN vals /\ vals[p].value = v),
           NEW rq
    PROVE  RepKept(scene, Got(k, r, v), r, rq, vals, process, repl)
<1> DEFINE g == [value |-> v, process |-> process]
           got == Append(k.got, g)
           new == Got(k, r, v)
<1>1. /\ k.got \in Seq([value : Nat \union {Nil}, process : Nat])
      /\ g \in [value : Nat \union {Nil}, process : Nat] /\ g.value = v /\ g.process = process
  BY SMTT(40) DEF RepType
<1>2. Len(scene.wanted[r]) \in Nat /\ Len(k.got) \in Nat /\ Len(k.got) < Len(scene.wanted[r])
  BY SMTT(40), <1>1, ReleaseAssumption DEF Waits
<1> HIDE DEF g
<1>3. /\ got \in Seq([value : Nat \union {Nil}, process : Nat]) /\ Len(got) = Len(k.got) + 1
      /\ got[Len(k.got) + 1] = g /\ \A n \in 1..Len(k.got) : got[n] = k.got[n]
  BY SMTT(40), <1>1
<1>4. /\ new.got = got /\ new.rid = None /\ new \in RepType
      /\ new.pc = IF Len(got) = Len(scene.wanted[r]) THEN "done" ELSE "get"
  BY SMTT(40), <1>3 DEF Got, RepType, g, Wanted
<1> HIDE DEF got, new
<1>5. Waits(scene, new, r, rq)
  BY SMTT(40), <1>2, <1>3, <1>4 DEF Waits
<1>6. Holds(scene, new, r, vals, process, repl)
  <2> SUFFICES ASSUME NEW n \in 1..Len(new.got)
               PROVE  /\ new.got[n].process <= process
                      /\ new.got[n].value # Nil /\ new.got[n].process = process /\ scene.wanted[r][n] \notin repl
                            => scene.wanted[r][n] \in DOMAIN vals /\ vals[scene.wanted[r][n]].value = new.got[n].value
    BY SMTT(40) DEF Holds
  <2>1. CASE n \in 1..Len(k.got)
    BY ZenonT(40), <1>3, <1>4, <2>1 DEF Holds
  <2>2. CASE n = Len(k.got) + 1
    <3>1. new.got[n] = g
      BY <1>3, <1>4, <2>2
    <3> QED
      BY <1>1, <2>2, <3>1
  <2>3. n \in 1..Len(k.got) \/ n = Len(k.got) + 1
    BY SMTT(40), <1>2, <1>3, <1>4
  <2> QED
    BY SMTT(40), <2>1, <2>2, <2>3
<1> QED
  BY <1>4, <1>5, <1>6 DEF RepKept, new

(* get-secret starts its set again with nothing in hand.                     *)
LEMMA FreshKept ==
    ASSUME NEW r \in Replica, scene \in Scenes, NEW rq, NEW vals, NEW proc, NEW repl
    PROVE  RepKept(scene, Fresh, r, rq, vals, proc, repl)
<1>1. Len(scene.wanted[r]) \in Nat /\ 0 < Len(scene.wanted[r])
  BY ReleaseAssumption 
<1> QED
  BY <1>1 DEF RepKept, RepType, Waits, Holds, Fresh

(* Whatever the answer, what the replica holds is still what the store holds. *)
LEMMA FetchedKept ==
    ASSUME NEW k \in RepType, NEW r \in Replica, scene \in Scenes, process \in Nat, NEW old, Waits(scene, k, r, old),
           NEW vals, NEW repl, Holds(scene, k, r, vals, process, repl), NEW status, NEW v \in Nat \union {Nil},
           LET p == scene.wanted[r][Len(k.got) + 1] IN v = Nil \/ p \in repl \/ (p \in DOMAIN vals /\ vals[p].value = v),
           NEW rq
    PROVE  RepKept(scene, fetchOne(k, r, status, v), r, rq, vals, process, repl)
<1>1. CASE fetchOne(k, r, status, v) = Fresh
  BY SMTT(40), <1>1, FreshKept
<1>2. CASE k.pc # "done" /\ fetchOne(k, r, status, v) = Got(k, r, v)
  BY SMTT(40), <1>2, GotKept
<1>3. ASSUME k.pc # "done", NEW c \in {"post", "reget"}, fetchOne(k, r, status, v) = Turned(k, c)
      PROVE  RepKept(scene, fetchOne(k, r, status, v), r, rq, vals, process, repl)
  <2> DEFINE new == Turned(k, c)
  <2>1. new \in RepType /\ new.pc = c /\ new.rid = None /\ new.got = k.got
    BY ZenonT(40) DEF RepType, Turned
  <2> HIDE DEF new
  <2>2. Waits(scene, new, r, rq) /\ Holds(scene, new, r, vals, process, repl)
    BY SMTT(40), <1>3, <2>1 DEF Waits, Holds
  <2> QED
    BY SMTT(40), <1>3, <2>1, <2>2 DEF RepKept, new
<1>4. \/ fetchOne(k, r, status, v) = Fresh
      \/ /\ k.pc # "done"
         /\ \/ fetchOne(k, r, status, v) = Got(k, r, v)
            \/ \E c \in {"post", "reget"} : fetchOne(k, r, status, v) = Turned(k, c)
  BY FetchOutcomes
<1> QED
  BY SMTT(40), <1>1, <1>2, <1>3, <1>4

(* What a replica holds stays true of a store that keeps the values not      *)
(* replaced.                                                                 *)
LEMMA HoldsMore ==
    ASSUME NEW k, NEW r, NEW vals, NEW proc, NEW repl, Holds(scene, k, r, vals, proc, repl), NEW w, NEW repl2,
           repl \subseteq repl2, \A p \in DOMAIN vals \ repl2 : p \in DOMAIN w /\ w[p].value = vals[p].value
    PROVE  Holds(scene, k, r, w, proc, repl2)
  BY DEF Holds

(* A request that moves on in the handler is the one its replica waits for.  *)
LEMMA MovesOn ==
    ASSUME NEW i \in Rid, NEW new, new # None, new.rep = req[i].rep, new.path = req[i].path, req[i] # None,
           DOMAIN req = Rid, req' = [req EXCEPT ![i] = new],
           NEW vals, NEW proc, NEW repl, RepsKept(scene, rep, req, vals, proc, repl)
    PROVE  RepsKept(scene, rep, req', vals, proc, repl)
<1> SUFFICES ASSUME NEW r \in Replica PROVE RepKept(scene, rep[r], r, req', vals, proc, repl)
  BY ZenonT(40) DEF RepsKept
<1>1. RepKept(scene, rep[r], r, req, vals, proc, repl)
  BY DEF RepsKept
<1>2. rep[r].rid # None => rep[r].rid \in Rid
  BY <1>1 DEF RepKept, RepType
<1> QED
  BY <1>1, <1>2 DEF RepKept, Waits

(* One request changes; the others are as they were.                         *)
LEMMA OneRequest ==
    ASSUME NEW i \in Rid, NEW new, req' = [req EXCEPT ![i] = new], NEW ds, NEW pd, ReqsKept(scene, req, ds, pd),
           ReqKept(scene, new, ds, pd)
    PROVE  ReqsKept(scene, req', ds, pd)
  BY DEF ReqsKept

(* An answer: the request is done with, and reaches the replica that waits   *)
(* for it, which holds the store's value afterwards as before.               *)
LEMMA AnswerKept ==
    ASSUME ReleaseInv, NEW i \in Rid, req[i] # None, NEW status, NEW v \in Nat \union {Nil}, Answer(i, status, v),
           NEW vals, v = Nil \/ (req[i].path \in DOMAIN vals /\ vals[req[i].path].value = v),
           \A p \in DOMAIN values : p \in DOMAIN vals /\ vals[p].value = values[p].value
    PROVE  RepsKept(scene, rep', req', vals, process, replaced) /\ ReqsKept(scene, req', docs, pod)
<1> DEFINE o == req[i].rep
<1>1. /\ scene \in Scenes /\ process \in Nat /\ ReqsKept(scene, req, docs, pod)
      /\ RepsKept(scene, rep, req, values, process, replaced)
  BY DEF ReleaseInv, Typed
<1>2. DOMAIN req = Rid /\ DOMAIN rep = Replica /\ o \in Replica
  BY <1>1 DEF ReqsKept, RepsKept, ReqKept, Request
<1>3. /\ req' = [req EXCEPT ![i] = None]
      /\ rep' = IF rep[o].rid = i THEN [rep EXCEPT ![o] = fetchOne(rep[o], o, status, v)] ELSE rep
  BY <1>2 DEF Answer
<1>4. ReqsKept(scene, req', docs, pod)
  BY ZenonT(40), <1>1, <1>3, OneRequest DEF ReqKept
<1>5. ASSUME NEW r \in Replica
      PROVE  /\ rep[r] \in RepType /\ Waits(scene, rep[r], r, req) /\ Holds(scene, rep[r], r, vals, process, replaced)
             /\ rep[r].rid = i => r = o /\ req[i].path = scene.wanted[r][Len(rep[r].got) + 1]
  <2>1. RepKept(scene, rep[r], r, req, values, process, replaced)
    BY <1>1 DEF RepsKept
  <2>2. Holds(scene, rep[r], r, vals, process, replaced)
    BY SMTT(40), <2>1, HoldsMore DEF RepKept
  <2> QED
    BY <2>1, <2>2, ReleaseAssumption DEF RepKept, Waits
<1>6. ASSUME NEW r \in Replica PROVE RepKept(scene, rep'[r], r, req', vals, process, replaced)
  <2>1. CASE rep[r].rid = i
    <3>1. r = o /\ rep'[r] = fetchOne(rep[r], r, status, v)
      BY <1>2, <1>3, <1>5, <2>1
    <3> QED
      BY SMTT(40), <1>1, <1>5, <2>1, <3>1, FetchedKept
  <2>2. CASE rep[r].rid # i
    <3>1. rep'[r] = rep[r]
      BY SMTT(40), <1>2, <1>3, <1>5, <2>2
    <3>2. Waits(scene, rep[r], r, req')
      BY <1>2, <1>3, <1>5, <2>2 DEF Waits, RepType
    <3> QED
      BY SMTT(40), <1>5, <3>1, <3>2 DEF RepKept
  <2> QED
    BY SMTT(40), <2>1, <2>2
<1>7. DOMAIN rep' = Replica
  BY <1>2, <1>3
<1> QED
  BY <1>4, <1>6, <1>7 DEF RepsKept

(* One more value leaves CDS; a value minted now was never handed out.       *)
LEMMA OneRelease ==
    ASSUME NEW rel, NEW ds, NEW m \in Nat, ReleasesKept(scene, rel, ds, m), NEW n \in Nat, m <= n,
           NEW x, x.since \in Nat \ {0}, x.until \in 1..Len(ds), Granted(scene, x, ds),
           x.op = "write" => m < x.value /\ x.value \in 1..n
    PROVE  ReleasesKept(scene, rel \union {x}, ds, n)
<1>1. ASSUME NEW y \in rel, y.op = "write" PROVE y.value \in 1..n /\ (x.op = "write" => y.value # x.value)
  BY <1>1 DEF ReleasesKept
<1> QED
  BY <1>1 DEF ReleasesKept

(* More documents and more values minted leave what was released granted.    *)
LEMMA ReleasesStay ==
    ASSUME NEW rel, NEW ds, NEW m \in Nat, ReleasesKept(scene, rel, ds, m), NEW n \in Nat, m <= n, NEW es,
           Len(ds) \in Nat, Len(es) \in Nat, Len(ds) <= Len(es), \A j \in 1..Len(ds) : es[j] = ds[j]
    PROVE  ReleasesKept(scene, rel, es, n)
<1>1. ASSUME NEW x \in rel
      PROVE  /\ x.since \in Nat \ {0} /\ x.until \in 1..Len(es) /\ Granted(scene, x, es)
             /\ x.op = "write" => x.value \in 1..n
  <2>1. x.since \in Nat \ {0} /\ x.until \in 1..Len(ds) /\ Granted(scene, x, ds) /\ (x.op = "write" => x.value \in 1..m)
    BY SMTT(40) DEF ReleasesKept
  <2>2. \A j \in x.since..x.until : es[j] = ds[j]
    BY SMTT(40), <2>1
  <2>3. Granted(scene, x, es)
    BY ZenonT(40), <2>1, <2>2 DEF Granted
  <2> QED
    BY <2>1, <2>3
<1> QED
  BY <1>1 DEF ReleasesKept

(* What a granted request allows was granted at some moment of it.           *)
LEMMA GrantedRequest ==
    ASSUME NEW sc, NEW k, NEW ds, NEW pd, ReqKept(sc, k, ds, pd), k # None, k.stage = "granted", Len(ds) \in Nat,
           k.path \in IF k.op = "read" THEN k.doc[sc.entryOf[k.rep]].read ELSE k.doc[sc.entryOf[k.rep]].write,
           NEW x, x.rep = k.rep, x.op = k.op, x.path = k.path, x.since = k.since, x.until = Len(ds), x.was = k.was
    PROVE  x.since \in Nat \ {0} /\ x.until \in 1..Len(ds) /\ Granted(sc, x, ds)
<1>1. /\ k.since \in 1..Len(ds) /\ k.was # "foreign" /\ sc.entryOf[k.rep] \in DOMAIN k.doc
      /\ \E n \in k.since..Len(ds) : k.doc = ds[n]
  BY DEF ReqKept
<1>2. PICK n \in k.since..Len(ds) : k.doc = ds[n]
  BY SMTT(40), <1>1
<1>3. Granted(sc, x, ds)
  <2>1. x.was # "foreign" /\ n \in x.since..x.until /\ sc.entryOf[x.rep] \in DOMAIN ds[n]
    BY SMTT(40), <1>1, <1>2
  <2>2. x.path \in IF x.op = "read" THEN ds[n][sc.entryOf[x.rep]].read ELSE ds[n][sc.entryOf[x.rep]].write
    BY SMTT(40), <1>2
  <2> QED
    BY ZenonT(40), <2>1, <2>2 DEF Granted
<1> QED
  BY SMTT(40), <1>1, <1>3

(* A value leaves CDS for a granted request, from the store or newly minted  *)
(* there.                                                                    *)
LEMMA WriteValueInv ==
    ASSUME ReleaseInv, NEW i \in Rid, NEW status, NEW v \in Nat, req[i] # None, req[i].stage = "granted", Allows(i),
           writeValue(i, status, v), UNCHANGED <<scene, process, replaced, docs, pod>>,
           minted' \in Nat, minted <= minted', req[i].op = "write" => minted < v /\ v \in 1..minted',
           StoreKept(values'), req[i].path \in DOMAIN values' /\ values'[req[i].path].value = v,
           \A p \in DOMAIN values : p \in DOMAIN values' /\ values'[p].value = values[p].value
    PROVE  ReleaseInv'
<1> DEFINE x == [rep |-> req[i].rep, op |-> req[i].op, path |-> req[i].path, value |-> v,
                 since |-> req[i].since, until |-> Len(docs), was |-> req[i].was]
<1>1. released' = released \union {x} /\ (Answer(i, status, v) \/ Answer(i, status, Nil))
  BY SMTT(40) DEF writeValue
<1>2. /\ Typed /\ ReqKept(scene, req[i], docs, pod) /\ ReleasesKept(scene, released, docs, minted)
      /\ minted \in Nat /\ Len(docs) \in Nat
  BY SMTT(40) DEF ReleaseInv, ReqsKept, Typed
<1>3. /\ x.rep = req[i].rep /\ x.op = req[i].op /\ x.path = req[i].path /\ x.value = v /\ x.since = req[i].since
      /\ x.until = Len(docs) /\ x.was = req[i].was
  BY ZenonT(40)
<1> HIDE DEF x
<1>4. x.since \in Nat \ {0} /\ x.until \in 1..Len(docs) /\ Granted(scene, x, docs)
  <2>1. req[i].path \in IF req[i].op = "read" THEN req[i].doc[scene.entryOf[req[i].rep]].read
                                             ELSE req[i].doc[scene.entryOf[req[i].rep]].write
    BY ZenonT(40) DEF Allows, Grant, EntryOf
  <2> QED
    BY ZenonT(40), <1>2, <1>3, <2>1, GrantedRequest
<1>5. ReleasesKept(scene, released', docs, minted')
  BY SMTT(40), <1>1, <1>2, <1>3, <1>4, OneRelease
<1>6. RepsKept(scene, rep', req', values', process, replaced) /\ ReqsKept(scene, req', docs, pod)
  <2>1. CASE Answer(i, status, v)
    BY SMTT(40), <2>1, AnswerKept
  <2>2. CASE Answer(i, status, Nil)
    BY ZenonT(40), <2>2, AnswerKept
  <2> QED
    BY SMTT(40), <1>1, <2>1, <2>2
<1> QED
  BY SMTT(40), <1>2, <1>5, <1>6 DEF ReleaseInv, Typed

(* An answer without a value changes neither the store nor what was released. *)
LEMMA RefuseInv ==
    ASSUME ReleaseInv, NEW i \in Rid, req[i] # None, NEW status, Answer(i, status, Nil),
           UNCHANGED <<scene, values, minted, process, replaced, released, docs, pod>>
    PROVE  ReleaseInv'
<1>1. RepsKept(scene, rep', req', values, process, replaced) /\ ReqsKept(scene, req', docs, pod)
  BY ZenonT(40), AnswerKept
<1> QED
  BY SMTT(40), <1>1 DEF ReleaseInv, Typed

-------------------------------------------------------------------------------
(* The steps of get-secret and of the handler, one lemma each: what is       *)
(* released was granted and what replicas hold is the store's.               *)
LEMMA DoInv ==
    ASSUME ReleaseInv, NEW r \in Replica, Do(r), UNCHANGED scene
    PROVE  ReleaseInv'
<1>1. PICK i \in Rid :
        /\ rep[r].pc # "done" /\ rep[r].rid = None /\ req[i] = None
        /\ rep' = [rep EXCEPT ![r].rid = i]
        /\ req' = [req EXCEPT ![i] = [rep |-> r, op |-> IF rep[r].pc = "post" THEN "write" ELSE "read",
                                      path |-> PathOf(r), stage |-> "arrived",
                                      since |-> Len(docs), was |-> pod[r]]]
        /\ UNCHANGED <<values, holders, minted, process, replaced, released, docs, pod>>
  BY ZenonT(40) DEF Do, cds, store
<1> DEFINE new == [rep |-> r, op |-> IF rep[r].pc = "post" THEN "write" ELSE "read",
                   path |-> PathOf(r), stage |-> "arrived", since |-> Len(docs), was |-> pod[r]]
           k == [rep[r] EXCEPT !.rid = i]
<1>2. /\ Typed /\ RepsKept(scene, rep, req, values, process, replaced) /\ ReqsKept(scene, req, docs, pod)
      /\ DOMAIN rep = Replica /\ DOMAIN req = Rid
  BY DEF ReleaseInv, RepsKept, ReqsKept
<1>3. rep[r] \in RepType /\ Waits(scene, rep[r], r, req) /\ Holds(scene, rep[r], r, values, process, replaced)
  BY <1>2 DEF RepsKept, RepKept
<1>4. PathOf(r) = scene.wanted[r][Len(rep[r].got) + 1] /\ PathOf(r) \in Path
  <2>1. scene.wanted[r] \in Seq(Path) /\ Len(rep[r].got) \in Nat /\ Len(rep[r].got) < Len(scene.wanted[r])
    BY SMTT(40), <1>1, <1>2, <1>3, ReleaseAssumption DEF Typed, Waits, RepType
  <2> QED
    BY SMTT(40), <2>1 DEF PathOf, Wanted
<1>5. new \in Request /\ ReqKept(scene, new, docs, pod) /\ new # None /\ new.rep = r /\ new.path = PathOf(r)
  <2>1. pod[r] \in PodState /\ Len(docs) \in Nat /\ Len(docs) > 0
    BY SMTT(40), <1>2 DEF Typed
  <2>2. new \in Request
    BY <1>4, <2>1 DEF Request
  <2> QED
    BY SMTT(40), <2>1, <2>2, ReleaseAssumption DEF ReqKept
<1>6. k \in RepType /\ k.rid = i /\ k.pc = rep[r].pc /\ k.got = rep[r].got
  BY <1>3 DEF RepType
<1>7. req' = [req EXCEPT ![i] = new] /\ rep' = [rep EXCEPT ![r] = k]
  BY <1>1, <1>2
<1> HIDE DEF new, k
<1>8. ReqsKept(scene, req', docs, pod)
  BY ZenonT(40), <1>2, <1>5, <1>7, OneRequest
<1>9. ASSUME NEW s \in Replica PROVE RepKept(scene, rep'[s], s, req', values, process, replaced)
  <2>1. CASE s = r
    <3>1. rep'[s] = k /\ req'[i] = new
      BY SMTT(40), <1>2, <1>7, <2>1
    <3>2. Waits(scene, k, r, req')
      BY SMTT(40), <1>1, <1>3, <1>4, <1>5, <1>6, <3>1 DEF Waits
    <3>3. Holds(scene, k, r, values, process, replaced)
      BY <1>3, <1>6 DEF Holds
    <3> QED
      BY SMTT(40), <1>6, <2>1, <3>1, <3>2, <3>3 DEF RepKept
  <2>2. CASE s # r
    <3>1. rep'[s] = rep[s] /\ RepKept(scene, rep[s], s, req, values, process, replaced)
      BY <1>2, <1>7, <2>2 DEF RepsKept
    <3>2. rep[s].rid # None => rep[s].rid \in Rid /\ req'[rep[s].rid] = req[rep[s].rid]
      BY <1>1, <1>2, <1>7, <3>1 DEF RepKept, RepType, Waits
    <3> QED
      BY SMTT(40), <3>1, <3>2 DEF RepKept, Waits
  <2> QED
    BY SMTT(40), <2>1, <2>2
<1>10. RepsKept(scene, rep', req', values, process, replaced)
  BY ZenonT(40), <1>2, <1>7, <1>9 DEF RepsKept
<1> QED
  BY <1>1, <1>2, <1>8, <1>10 DEF ReleaseInv, Typed

(* A get-secret whose request times out starts from its first path again. *)
LEMMA TimeoutInv ==
    ASSUME ReleaseInv, NEW r \in Replica, Timeout(r), UNCHANGED scene
    PROVE  ReleaseInv'
<1>1. /\ rep' = [rep EXCEPT ![r] = Fresh]
      /\ UNCHANGED <<values, holders, minted, process, replaced, released, docs, pod, req>>
  BY DEF Timeout, cds, store
<1>2. Typed /\ RepsKept(scene, rep, req, values, process, replaced)
  BY SMTT(40) DEF ReleaseInv
<1>3. RepKept(scene, Fresh, r, req, values, process, replaced)
  BY SMTT(40), <1>2, FreshKept DEF Typed
<1>4. RepsKept(scene, rep', req, values, process, replaced)
  BY SMTT(40), <1>1, <1>2, <1>3 DEF RepsKept
<1> QED
  BY <1>1, <1>2, <1>4 DEF ReleaseInv, Typed

(* A pod's main containers come up, or it admits something foreign, which it *)
(* then stays.                                                               *)
LEMMA PodChangesInv ==
    ASSUME ReleaseInv, NEW r \in Replica, PodChanges(r), UNCHANGED scene
    PROVE  ReleaseInv'
<1>1. /\ \/ pod[r] = "starting" /\ pod' = [pod EXCEPT ![r] = "described"]
         \/ pod' = [pod EXCEPT ![r] = "foreign"]
      /\ UNCHANGED <<values, holders, minted, process, replaced, released, docs, req, rep>>
  BY DEF PodChanges, cds, store
<1>2. Typed /\ ReqsKept(scene, req, docs, pod)
  BY SMTT(40) DEF ReleaseInv
<1>3. /\ pod' \in [Replica -> PodState]
      /\ \A s \in Replica : pod[s] = "foreign" => pod'[s] = "foreign"
  BY SMTT(40), <1>1, <1>2 DEF Typed, PodState
<1>4. ASSUME NEW q \in Rid, req[q] # None PROVE req[q].rep \in Replica
  BY <1>2, <1>4 DEF ReqsKept, ReqKept, Request
<1>5. ReqsKept(scene, req, docs, pod')
  BY <1>2, <1>3, <1>4 DEF ReqsKept, ReqKept
<1> QED
  BY <1>1, <1>2, <1>3, <1>5 DEF ReleaseInv, Typed

(* The handler reads the policy: the document it goes on with is the current *)
(* one.                                                                      *)
LEMMA AuthorizeInv ==
    ASSUME ReleaseInv, NEW i \in Rid, authorize(i), UNCHANGED scene
    PROVE  ReleaseInv'
<1>1. /\ req[i] # None /\ req[i].stage = "arrived"
      /\ UNCHANGED <<values, holders, minted, process, replaced, released, docs, pod>>
  BY SMTT(40) DEF authorize, cds, store
<1>2. /\ Typed /\ RepsKept(scene, rep, req, values, process, replaced) /\ ReqsKept(scene, req, docs, pod)
      /\ DOMAIN req = Rid /\ ReqKept(scene, req[i], docs, pod)
  BY SMTT(40) DEF ReleaseInv, ReqsKept
<1>3. CASE Answer(i, 403, Nil)
  <2>1. RepsKept(scene, rep', req', values, process, replaced) /\ ReqsKept(scene, req', docs, pod)
    BY ZenonT(40), <1>1, <1>3, AnswerKept
  <2> QED
    BY SMTT(40), <1>1, <1>2, <2>1 DEF ReleaseInv, Typed
<1>4. CASE ~Answer(i, 403, Nil)
  <2> DEFINE k == req[i]
             new == [rep |-> k.rep, op |-> k.op, path |-> k.path, stage |-> "loaded",
                     since |-> k.since, was |-> k.was, doc |-> Doc]
  <2>1. req' = [req EXCEPT ![i] = new] /\ rep' = rep
    BY SMTT(40), <1>2, <1>4 DEF authorize
  <2>2. Doc \in Docs /\ Len(docs) \in Nat /\ Doc = docs[Len(docs)]
    BY SMTT(40), <1>2 DEF Typed, Doc
  <2>3. k \in Request /\ k.since \in 1..Len(docs) /\ (k.was = "foreign" => pod[k.rep] = "foreign")
    BY SMTT(40), <1>1, <1>2 DEF ReqKept
  <2>4. new \in Request
    BY SMTT(40), <2>2, <2>3 DEF Request
  <2>5. /\ new # None /\ new.rep = k.rep /\ new.path = k.path /\ new.since = k.since /\ new.was = k.was
        /\ new.stage = "loaded" /\ new.doc = Doc
    BY SMTT(40), <2>4, ReleaseAssumption
  <2> HIDE DEF new
  <2>6. ReqKept(scene, new, docs, pod)
    BY SMTT(40), <2>2, <2>3, <2>4, <2>5 DEF ReqKept
  <2>7. ReqsKept(scene, req', docs, pod) /\ RepsKept(scene, rep, req', values, process, replaced)
    <3>1. ReqsKept(scene, req', docs, pod)
      BY ZenonT(40), <1>2, <2>1, <2>5, <2>6, OneRequest
    <3>2. RepsKept(scene, rep, req', values, process, replaced)
      BY ZenonT(40), <1>1, <1>2, <2>1, <2>5, <2>6, MovesOn
    <3> QED
      BY SMTT(40), <3>1, <3>2
  <2> QED
    BY <1>1, <1>2, <2>1, <2>7 DEF ReleaseInv, Typed
<1> QED
  BY SMTT(40), <1>3, <1>4

(* The handler checks the pod: it grants only to one that runs an entry of   *)
(* the document it read.                                                     *)
LEMMA WorkloadContainersInv ==
    ASSUME ReleaseInv, NEW i \in Rid, workloadContainers(i), UNCHANGED scene
    PROVE  ReleaseInv'
<1>1. /\ req[i] # None /\ req[i].stage = "loaded"
      /\ UNCHANGED <<values, holders, minted, process, replaced, released, docs, pod>>
  BY SMTT(40) DEF workloadContainers, cds, store
<1>2. /\ Typed /\ RepsKept(scene, rep, req, values, process, replaced) /\ ReqsKept(scene, req, docs, pod)
      /\ DOMAIN req = Rid /\ ReqKept(scene, req[i], docs, pod)
  BY DEF ReleaseInv, ReqsKept
<1>3. CASE Answer(i, 403, Nil)
  <2>1. RepsKept(scene, rep', req', values, process, replaced) /\ ReqsKept(scene, req', docs, pod)
    BY SMTT(40), <1>1, <1>3, AnswerKept
  <2> QED
    BY SMTT(40), <1>1, <1>2, <2>1 DEF ReleaseInv, Typed
<1>4. CASE ~Answer(i, 403, Nil)
  <2> DEFINE k == req[i]
             new == [k EXCEPT !.stage = "granted"]
  <2>1. /\ req' = [req EXCEPT ![i] = new] /\ rep' = rep
        /\ pod[k.rep] = "described" /\ scene.entryOf[k.rep] \in DOMAIN k.doc
    BY SMTT(40), <1>2, <1>4 DEF workloadContainers, MatchWorkload, EntryOf
  <2>2. /\ k \in Request /\ k.since \in 1..Len(docs) /\ (k.was = "foreign" => pod[k.rep] = "foreign")
        /\ \E n \in k.since..Len(docs) : k.doc = docs[n]
    BY SMTT(40), <1>1, <1>2 DEF ReqKept
  <2>3. /\ new \in Request /\ new.rep = k.rep /\ new.path = k.path /\ new.since = k.since /\ new.was = k.was
        /\ new.stage = "granted" /\ new.doc = k.doc
    BY SMTT(40), <1>1, <2>2 DEF Request
  <2> HIDE DEF new
  <2>4. ReqKept(scene, new, docs, pod) /\ new # None
    BY <2>1, <2>2, <2>3, ReleaseAssumption DEF ReqKept
  <2>5. ReqsKept(scene, req', docs, pod) /\ RepsKept(scene, rep, req', values, process, replaced)
    <3>1. ReqsKept(scene, req', docs, pod)
      BY ZenonT(40), <1>2, <2>1, <2>3, <2>4, OneRequest
    <3>2. RepsKept(scene, rep, req', values, process, replaced)
      BY ZenonT(40), <1>1, <1>2, <2>1, <2>3, <2>4, MovesOn
    <3> QED
      BY <3>1, <3>2
  <2> QED
    BY SMTT(40), <1>1, <1>2, <2>1, <2>5 DEF ReleaseInv, Typed
<1> QED
  BY <1>3, <1>4

(* A read is answered with what the store holds. *)
LEMMA ServeGetInv ==
    ASSUME ReleaseInv, NEW i \in Rid, serveGet(i), UNCHANGED scene
    PROVE  ReleaseInv'
<1>1. /\ req[i] # None /\ req[i].stage = "granted" /\ req[i].op = "read"
      /\ UNCHANGED <<values, minted, process, replaced, docs, pod>>
  BY SMTT(40) DEF serveGet, store
<1>2. CASE Allows(i) /\ Store!Held(req[i].path)
  <2> DEFINE v == values[req[i].path].value
  <2>1. writeValue(i, 200, v) /\ req[i].path \in DOMAIN values
    BY SMTT(40), <1>2 DEF serveGet, Store!Held
  <2>2. v \in Nat /\ minted \in Nat /\ StoreKept(values)
    BY SMTT(40), <2>1 DEF ReleaseInv, StoreKept, Typed
  <2> HIDE DEF v
  <2>3. values'[req[i].path].value = v
    BY SMTT(40), <1>1 DEF v
  <2> QED
    BY SMTT(40), <1>1, <1>2, <2>1, <2>2, <2>3, WriteValueInv
<1>3. CASE ~(Allows(i) /\ Store!Held(req[i].path))
  <2>1. Answer(i, 404, Nil) /\ UNCHANGED released
    BY SMTT(40), <1>3 DEF serveGet
  <2> QED
    BY <1>1, <2>1, RefuseInv
<1> QED
  BY SMTT(40), <1>2, <1>3

(* What the store does with a write: nothing, or one path more, or other.    *)
LEMMA StoreWrites ==
    ASSUME NEW p, NEW v \in Nat, NEW h, StoreKept(values), Store!store(p, v, h)
    PROVE  /\ StoreKept(values') /\ p \in DOMAIN values' /\ values'[p].value = v
           /\ \A q \in DOMAIN values \ {p} : q \in DOMAIN values' /\ values'[q].value = values[q].value
  BY DEF StoreKept, Store!store

(* A write mints a value no other write has, and keeps it unless the path is *)
(* taken.                                                                    *)
LEMMA ServePostInv ==
    ASSUME ReleaseInv, NEW i \in Rid, servePost(i), UNCHANGED scene
    PROVE  ReleaseInv'
<1> DEFINE p == req[i].path
           h == EntryOf[req[i].rep]
           v == minted + 1
<1>1. /\ req[i] # None /\ req[i].stage = "granted" /\ req[i].op = "write"
      /\ UNCHANGED <<process, replaced, docs, pod>>
  BY SMTT(40) DEF servePost
<1>2. \/ /\ \E status \in {404, 409, 507} : Answer(i, status, Nil)
         /\ UNCHANGED <<values, minted, released>>
      \/ /\ Allows(i) /\ ~Exists(i) /\ Store!checkRoom(h)
         /\ Store!PutIfAbsent(p, v, h) /\ minted' = v /\ writeValue(i, 201, v)
  BY SMTT(40) DEF servePost, Conflict, store
<1>3. ASSUME NEW status, Answer(i, status, Nil), UNCHANGED <<values, minted, released>> PROVE ReleaseInv'
  BY SMTT(40), <1>1, <1>3, RefuseInv
<1>4. CASE /\ Allows(i) /\ ~Exists(i) /\ Store!checkRoom(h)
           /\ Store!PutIfAbsent(p, v, h) /\ minted' = v /\ writeValue(i, 201, v)
  <2>1. v \in Nat /\ minted < v /\ v \in 1..v /\ StoreKept(values)
    BY SMTT(40) DEF ReleaseInv, Typed
  <2>2. Store!store(p, v, h) /\ p \notin DOMAIN values
    BY SMTT(40), <1>4 DEF Store!PutIfAbsent, Exists, Store!Held
  <2> HIDE DEF v
  <2>3. /\ StoreKept(values') /\ p \in DOMAIN values' /\ values'[p].value = v
        /\ \A q \in DOMAIN values : q \in DOMAIN values' /\ values'[q].value = values[q].value
    BY SMTT(40), <2>1, <2>2, StoreWrites
  <2>4. minted' \in Nat /\ minted <= minted' /\ minted < v /\ v \in 1..minted'
    BY SMTT(40), <1>4, <2>1 DEF v, ReleaseInv, Typed
  <2> QED
    BY SMTT(40), <1>1, <1>4, <2>1, <2>3, <2>4, WriteValueInv
<1> QED
  BY SMTT(40), <1>2, <1>3, <1>4

-------------------------------------------------------------------------------
(* The operator, the cluster and a new CDS process.                          *)
LEMMA CreateInv ==
    ASSUME ReleaseInv, NEW q, create(q), UNCHANGED scene
    PROVE  ReleaseInv'
<1>1. /\ minted' = minted + 1 /\ Store!PutIfAbsent(q, minted + 1, Operator)
      /\ UNCHANGED <<process, replaced, released, docs, pod, rep, req>>
  BY DEF create
<1>2. /\ Typed /\ StoreKept(values) /\ RepsKept(scene, rep, req, values, process, replaced)
      /\ ReleasesKept(scene, released, docs, minted) /\ minted \in Nat /\ minted' \in Nat /\ Len(docs) \in Nat
  BY SMTT(40), <1>1 DEF ReleaseInv, Typed
<1>3. values' = values \/ (q \notin DOMAIN values /\ Store!store(q, minted + 1, Operator))
  BY SMTT(40), <1>1 DEF Store!PutIfAbsent, Store!secretVars, Store!Held
<1>4. StoreKept(values') /\ \A p \in DOMAIN values : p \in DOMAIN values' /\ values'[p].value = values[p].value
  BY ZenonT(40), <1>1, <1>2, <1>3, StoreWrites
<1>5. RepsKept(scene, rep, req, values', process, replaced)
  BY SMTT(40), <1>2, <1>4, HoldsMore DEF RepsKept, RepKept
<1>6. ReleasesKept(scene, released, docs, minted')
  BY SMTT(40), <1>1, <1>2, ReleasesStay
<1> QED
  BY SMTT(40), <1>1, <1>2, <1>4, <1>5, <1>6 DEF ReleaseInv, Typed

(* The operator puts another value: the path counts as replaced from then    *)
(* on.                                                                       *)
LEMMA ReplaceInv ==
    ASSUME ReleaseInv, NEW q, replace(q), UNCHANGED scene
    PROVE  ReleaseInv'
<1>1. /\ minted' = minted + 1 /\ Store!Put(q, minted + 1) /\ replaced' = replaced \union {q}
      /\ UNCHANGED <<process, released, docs, pod, rep, req>>
  BY DEF replace
<1>2. /\ Typed /\ StoreKept(values) /\ RepsKept(scene, rep, req, values, process, replaced)
      /\ ReleasesKept(scene, released, docs, minted) /\ minted \in Nat /\ minted' \in Nat /\ Len(docs) \in Nat
  BY <1>1 DEF ReleaseInv, Typed
<1>3. values' = values \/ Store!store(q, minted + 1, Operator)
  BY SMTT(40), <1>1 DEF Store!Put, Store!secretVars
<1>4. StoreKept(values') /\ \A p \in DOMAIN values \ replaced' : p \in DOMAIN values' /\ values'[p].value = values[p].value
  BY ZenonT(40), <1>1, <1>2, <1>3, StoreWrites
<1>5. RepsKept(scene, rep, req, values', process, replaced')
  BY <1>1, <1>2, <1>4, HoldsMore DEF RepsKept, RepKept
<1>6. ReleasesKept(scene, released, docs, minted')
  BY SMTT(40), <1>1, <1>2, ReleasesStay
<1> QED
  BY SMTT(40), <1>1, <1>2, <1>4, <1>5, <1>6 DEF ReleaseInv, Typed

(* An edit appends a document; what was granted was granted under one that   *)
(* stays.                                                                    *)
LEMMA EditInv ==
    ASSUME ReleaseInv, NEW d \in Docs, Edit(d), UNCHANGED scene
    PROVE  ReleaseInv'
<1>1. /\ docs' = Append(docs, d)
      /\ UNCHANGED <<values, minted, process, replaced, released, pod, rep, req>>
  BY DEF Edit, cds, store
<1>2. /\ Typed /\ ReqsKept(scene, req, docs, pod) /\ ReleasesKept(scene, released, docs, minted)
      /\ minted \in Nat /\ docs \in Seq(Docs) /\ Len(docs) > 0
  BY SMTT(40) DEF ReleaseInv, Typed
<1>3. /\ docs' \in Seq(Docs) /\ Len(docs') = Len(docs) + 1 /\ Len(docs) \in Nat
      /\ \A n \in 1..Len(docs) : docs'[n] = docs[n]
  BY SMTT(40), <1>1, <1>2
<1>4. ReqsKept(scene, req, docs', pod)
  <2> SUFFICES ASSUME NEW i \in Rid, req[i] # None PROVE ReqKept(scene, req[i], docs', pod)
    BY SMTT(40), <1>2 DEF ReqsKept, ReqKept
  <2>1. ReqKept(scene, req[i], docs, pod)
    BY SMTT(40), <1>2 DEF ReqsKept
  <2>2. req[i].since \in 1..Len(docs)
    BY SMTT(40), <2>1 DEF ReqKept
  <2>3. req[i].since \in 1..Len(docs') /\ \A n \in req[i].since..Len(docs) : docs'[n] = docs[n] /\ n \in req[i].since..Len(docs')
    BY SMTT(40), <1>3, <2>2
  <2> QED
    BY SMTT(40), <2>1, <2>3 DEF ReqKept
<1>5. ReleasesKept(scene, released, docs', minted)
  BY SMTT(40), <1>2, <1>3, ReleasesStay
<1> QED
  BY SMTT(40), <1>1, <1>2, <1>3, <1>4, <1>5 DEF ReleaseInv, Typed

(* A restart of CDS empties the store and drops what is in the handler; what *)
(* replicas hold is of an earlier process.                                   *)
LEMMA CdsRestartInv ==
    ASSUME ReleaseInv, CdsRestart, UNCHANGED scene
    PROVE  ReleaseInv'
<1>1. /\ values' = <<>> /\ process' = process + 1 /\ replaced' = {} /\ req' = [i \in Rid |-> None]
      /\ rep' = [r \in Replica |-> IF rep[r].rid = None THEN rep[r] ELSE Fresh]
      /\ UNCHANGED <<minted, released, docs, pod>>
  BY SMTT(40) DEF CdsRestart, Store!SecretRestart
<1>2. Typed /\ process \in Nat /\ scene \in Scenes /\ RepsKept(scene, rep, req, values, process, replaced)
  BY SMTT(40) DEF ReleaseInv, Typed
<1>3. ASSUME NEW r \in Replica PROVE RepKept(scene, rep'[r], r, req', values', process', replaced')
  <2>1. CASE rep[r].rid = None
    <3>1. rep'[r] = rep[r] /\ RepKept(scene, rep[r], r, req, values, process, replaced)
      BY SMTT(40), <1>1, <1>2, <2>1 DEF RepsKept
    <3>2. rep[r] \in RepType /\ Waits(scene, rep[r], r, req')
      BY SMTT(40), <2>1, <3>1 DEF RepKept, Waits
    <3>3. \A n \in 1..Len(rep[r].got) : rep[r].got[n].process \in Nat /\ rep[r].got[n].process <= process
      <4>1. rep[r].got \in Seq([value : Nat \union {Nil}, process : Nat])
        BY SMTT(40), <3>2 DEF RepType
      <4>2. \A n \in 1..Len(rep[r].got) : rep[r].got[n] \in [value : Nat \union {Nil}, process : Nat]
        BY ZenonT(40), <4>1, ElementOf
      <4>3. \A n \in 1..Len(rep[r].got) : rep[r].got[n].process <= process
        BY SMTT(40), <3>1 DEF RepKept, Holds
      <4> QED
        BY SMTT(40), <4>2, <4>3
    <3>4. Holds(scene, rep[r], r, values', process', replaced')
      BY SMTT(40), <1>1, <1>2, <3>3 DEF Holds
    <3> QED
      BY SMTT(40), <3>1, <3>2, <3>4 DEF RepKept
  <2>2. CASE rep[r].rid # None
    <3>1. rep'[r] = Fresh
      BY SMTT(40), <1>1, <2>2
    <3> QED
      BY <1>2, <3>1, FreshKept
  <2> QED
    BY SMTT(40), <2>1, <2>2
<1>4. RepsKept(scene, rep', req', values', process', replaced')
  BY SMTT(40), <1>1, <1>3 DEF RepsKept
<1>5. ReqsKept(scene, req', docs, pod) /\ StoreKept(values')
  BY SMTT(40), <1>1 DEF ReqsKept, ReqKept, StoreKept
<1> QED
  BY SMTT(40), <1>1, <1>2, <1>4, <1>5 DEF ReleaseInv, Typed

(* No replica has a value and no request is in the handler at first. *)
LEMMA ReleaseInitInv == Init => ReleaseInv
<1> SUFFICES ASSUME Init PROVE ReleaseInv
  OBVIOUS
<1>1. PICK d \in Docs : docs = <<d>>
  BY DEF Init
<1>2. docs \in Seq(Docs) /\ Len(docs) = 1
  BY SMTT(40), <1>1
<1>3. Typed
  BY <1>2 DEF Init, Typed, PodState
<1>4. RepsKept(scene, rep, req, values, process, replaced)
  BY FreshKept DEF Init, RepsKept
<1> QED
  BY <1>3, <1>4 DEF Init, ReleaseInv, ReqsKept, ReqKept, ReleasesKept, StoreKept, Store!SecretInit

(* Every step of the replicas, the handler, the pods and the operator keeps  *)
(* the invariant.                                                            *)
LEMMA ReleaseNextInv == ASSUME ReleaseInv, [Next]_vars PROVE ReleaseInv'
<1>1. CASE UNCHANGED <<values, minted, process, replaced, released, docs, pod, rep, req, scene>>
  BY <1>1 DEF ReleaseInv, Typed
<1>2. ASSUME NEW r \in Replica, Renew(r), UNCHANGED scene PROVE ReleaseInv'
  BY <1>1, <1>2 DEF Renew, cds, store
<1>3. CASE UNCHANGED vars
  BY SMTT(40), <1>1, <1>3 DEF vars, cds, store
<1>4. CASE Next
  BY <1>2, <1>4, DoInv, TimeoutInv, PodChangesInv, AuthorizeInv, WorkloadContainersInv, ServeGetInv, ServePostInv,
     CreateInv, ReplaceInv, EditInv, CdsRestartInv DEF Next
<1> QED
  BY SMTT(40), <1>3, <1>4

(* The invariant says what SecretsAgree says.                                *)
LEMMA InvAgrees == ReleaseInv => SecretsAgree
<1> SUFFICES ASSUME ReleaseInv PROVE SecretsAgree
  BY SMTT(40)
<1>1. HoldsTheStored
  <2> SUFFICES ASSUME NEW r \in Replica, NEW n \in DOMAIN rep[r].got
               PROVE  LET g == rep[r].got[n]
                          p == Wanted[r][n]
                      IN  g.value # Nil /\ g.process = process /\ p \notin replaced
                              => Store!Held(p) /\ values[p].value = g.value
    BY SMTT(40) DEF HoldsTheStored
  <2>1. rep[r] \in RepType /\ Holds(scene, rep[r], r, values, process, replaced)
    BY SMTT(40) DEF ReleaseInv, RepsKept, RepKept
  <2>2. n \in 1..Len(rep[r].got)
    BY SMTT(40), <2>1 DEF RepType
  <2> QED
    BY SMTT(40), <2>1, <2>2 DEF Holds, Wanted, Store!Held
<1>2. ReleaseIsGranted
  BY DEF ReleaseInv, ReleasesKept, Granted, ReleaseIsGranted, EntryOf
<1> QED
  BY SMTT(40), <1>1, <1>2 DEF SecretsAgree

(* handler.go, run.go: replicas agree on their secrets and nothing leaves    *)
(* CDS without a grant (SecretsAgree), for every number of replicas, paths,  *)
(* entries and requests, and every history of edits, faults and restarts.    *)
THEOREM ReplicasAgree == ReleaseSpec => []SecretsAgree
<1>1. ReleaseInv /\ [Next]_vars => ReleaseInv'
  BY ReleaseNextInv
<1> QED
  BY <1>1, ReleaseInitInv, InvAgrees, PTL DEF ReleaseSpec

===============================================================================
