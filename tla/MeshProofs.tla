------------------------------ MODULE MeshProofs ------------------------------
(***************************************************************************)
(* Theorems about the mesh of a node, for any pods, addresses, connections *)
(* and limits: the pod resolver (PodResolver) leads every address to the   *)
(* pod that has it, and the proxy (MeshProxy) keeps its slots balanced and *)
(* drains what it accepted.                                                *)
(***************************************************************************)
EXTENDS PodResolver, MeshProxy, FiniteSetTheorems, TLAPS

-------------------------------------------------------------------------------
(* The resolver.  An object of the API server, and an event about one.       *)
PodObject == [phase : {"none", "pending", "running", "ended", "gone"}, ip : Address \union {NoEntry}]

Placed(o) == o.phase = "running" => o.ip \in Address

Settled(objs) ==
    /\ objs \in [Pod -> PodObject]
    /\ \A u \in Pod : Placed(objs[u])
    /\ \A u, w \in Pod : objs[u].phase = "running" /\ objs[w].phase = "running" /\ objs[u].ip = objs[w].ip => u = w

Event == {e \in Pod \X PodObject : e[2].phase # "none" /\ Placed(e[2])}

(* An event that leaves address a with pod u, and one that takes it away.    *)
Leads(e, u, a) == e[1] = u /\ e[2].phase = "running" /\ e[2].ip = a

Spoils(e, u, a) ==
    /\ e[2].ip = a
    /\ IF e[1] = u THEN e[2].phase \in {"ended", "gone"} ELSE e[2].phase = "running"

(* Address a is u's once the queue q was handed over to the map m: u has it, *)
(* or gets it from an event, and nothing after that takes it away.           *)
Led(q, m, u, a) ==
    \E i \in 0..Len(q) : /\ IF i = 0 THEN m[a] # NoEntry /\ m[a].uid = u ELSE Leads(q[i], u, a)
                         /\ \A j \in 1..Len(q) : i < j => ~Spoils(q[j], u, a)

MapKept(m) == DOMAIN m = Address /\ \A a \in Address : m[a] = NoEntry \/ (m[a] \in MapEntry /\ m[a].node = Home(a))

AllLed(w, objs, q, m) == w => \A u \in Pod : objs[u].phase = "running" => Led(q, m, u, objs[u].ip)

ResolverInv ==
    /\ Settled(obj) /\ told \in [Pod -> PodObject] /\ queue \in Seq(Event) /\ MapKept(podMap)
    /\ localCIDRs \in {{}, LocalAddress}
    /\ AllLed(watching, obj, queue, podMap)

(* One more event: it leads u to a, or at least does not take a away.        *)
LEMMA LedByLast ==
    ASSUME NEW q \in Seq(Event), NEW e \in Event, NEW m, NEW u, NEW a, Leads(e, u, a)
    PROVE  Led(Append(q, e), m, u, a)
<1>1. Append(q, e)[Len(q) + 1] = e /\ Len(Append(q, e)) = Len(q) + 1 /\ Len(q) \in Nat
  OBVIOUS
<1> QED
  BY <1>1 DEF Led

(* One more event that does not take a away. *)
LEMMA LedStill ==
    ASSUME NEW q \in Seq(Event), NEW e \in Event, NEW m, NEW u, NEW a, Led(q, m, u, a), ~Spoils(e, u, a)
    PROVE  Led(Append(q, e), m, u, a)
<1> DEFINE r == Append(q, e)
<1>1. r[Len(q) + 1] = e /\ Len(r) = Len(q) + 1 /\ Len(q) \in Nat /\ \A j \in 1..Len(q) : r[j] = q[j]
  BY SMTT(40)
<1> HIDE DEF r
<1>2. PICK i \in 0..Len(q) : /\ IF i = 0 THEN m[a] # NoEntry /\ m[a].uid = u ELSE Leads(q[i], u, a)
                             /\ \A j \in 1..Len(q) : i < j => ~Spoils(q[j], u, a)
  BY DEF Led
<1>3. i \in 0..Len(r) /\ IF i = 0 THEN m[a] # NoEntry /\ m[a].uid = u ELSE Leads(r[i], u, a)
  BY <1>1, <1>2
<1>4. ASSUME NEW j \in 1..Len(r), i < j PROVE ~Spoils(r[j], u, a)
  <2>1. CASE j \in 1..Len(q)
    BY <1>1, <1>2, <1>4, <2>1
  <2>2. CASE j = Len(q) + 1
    BY SMTT(40), <1>1, <2>2
  <2> QED
    BY SMTT(40), <1>1, <2>1, <2>2
<1>5. Led(r, m, u, a)
  BY <1>3, <1>4 DEF Led
<1> QED
  BY <1>5 DEF r

(* An event is handed over: the map leads where the queue said.              *)
LEMMA LedHandedOver ==
    ASSUME NEW q \in Seq(Event), q # <<>>, NEW m, NEW n, NEW u, NEW a, Led(q, m, u, a),
           Leads(Head(q), u, a) => n[a] # NoEntry /\ n[a].uid = u,
           m[a] # NoEntry /\ m[a].uid = u /\ ~Spoils(Head(q), u, a) => n[a] # NoEntry /\ n[a].uid = u
    PROVE  Led(Tail(q), n, u, a)
<1> DEFINE r == Tail(q)
<1>1. /\ Len(q) \in Nat \ {0} /\ Len(r) = Len(q) - 1 /\ Head(q) = q[1]
      /\ \A j \in 1..Len(r) : j + 1 \in 1..Len(q) /\ r[j] = q[j + 1]
  OBVIOUS
<1> HIDE DEF r
<1>2. PICK i \in 0..Len(q) : /\ IF i = 0 THEN m[a] # NoEntry /\ m[a].uid = u ELSE Leads(q[i], u, a)
                             /\ \A j \in 1..Len(q) : i < j => ~Spoils(q[j], u, a)
  BY DEF Led
<1>3. CASE i \in {0, 1}
  <2>1. n[a] # NoEntry /\ n[a].uid = u
    BY SMTT(40), <1>1, <1>2, <1>3
  <2>2. \A j \in 1..Len(r) : ~Spoils(r[j], u, a)
    BY SMTT(40), <1>1, <1>2, <1>3
  <2>3. Led(r, n, u, a)
    BY <1>1, <2>1, <2>2 DEF Led
  <2> QED
    BY <2>3 DEF r
<1>4. CASE i \notin {0, 1}
  <2>1. i - 1 \in 1..Len(r) /\ r[i - 1] = q[i]
    BY SMTT(40), <1>1, <1>2, <1>4
  <2>2. \A j \in 1..Len(r) : i - 1 < j => ~Spoils(r[j], u, a)
    BY SMTT(40), <1>1, <1>2, <1>4
  <2>3. Leads(r[i - 1], u, a)
    BY <1>2, <1>4, <2>1
  <2>4. Led(r, n, u, a)
    BY SMTT(40), <1>1, <2>1, <2>2, <2>3 DEF Led
  <2> QED
    BY <2>4 DEF r
<1> QED
  BY <1>3, <1>4

(* A list of what is there, then deletions, after whatever was queued.       *)
LEMMA LedByList ==
    ASSUME NEW q \in Seq(Event), NEW s \in Seq(Event), NEW t \in Seq(Event), NEW m, NEW u, NEW a,
           NEW k \in 1..Len(s), Leads(s[k], u, a),
           \A j \in 1..Len(s) : ~Spoils(s[j], u, a),
           \A j \in 1..Len(t) : ~Spoils(t[j], u, a)
    PROVE  Led(q \o s \o t, m, u, a)
<1> DEFINE r == q \o s \o t
<1>1. /\ Len(q) \in Nat /\ Len(s) \in Nat /\ Len(t) \in Nat /\ Len(r) = Len(q) + Len(s) + Len(t)
      /\ \A j \in 1..Len(s) : r[Len(q) + j] = s[j]
      /\ \A j \in 1..Len(t) : r[Len(q) + Len(s) + j] = t[j]
  OBVIOUS
<1> HIDE DEF r
<1>2. ASSUME NEW j \in 1..Len(r), Len(q) + k < j PROVE ~Spoils(r[j], u, a)
  <2>1. CASE j <= Len(q) + Len(s)
    <3>1. j - Len(q) \in 1..Len(s) /\ Len(q) + (j - Len(q)) = j
      BY <1>1, <1>2, <2>1
    <3> QED
      BY <1>1, <3>1
  <2>2. CASE j > Len(q) + Len(s)
    <3>1. j - (Len(q) + Len(s)) \in 1..Len(t) /\ Len(q) + Len(s) + (j - (Len(q) + Len(s))) = j
      BY <1>1, <2>2
    <3> QED
      BY ZenonT(40), <1>1, <3>1
  <2> QED
    BY SMTT(40), <1>1, <2>1, <2>2
<1>3. Len(q) + k \in 0..Len(r) /\ Len(q) + k # 0 /\ Leads(r[Len(q) + k], u, a)
  BY <1>1
<1>4. Led(r, m, u, a)
  BY SMTT(40), <1>2, <1>3 DEF Led
<1> QED
  BY <1>4 DEF r

(* Orders: a sequence of a finite set has each of its elements.           *)
LEMMA SeqOfSet ==
    ASSUME NEW S, IsFiniteSet(S), NEW f \in Orders(S)
    PROVE  f \in Seq(S) /\ DOMAIN f = 1..Len(f) /\ \A x \in S : \E i \in 1..Len(f) : f[i] = x
<1> DEFINE n == Cardinality(S)
<1>1. n \in Nat
  BY FS_CardinalityType
<1> HIDE DEF n
<1>2. f \in [1..n -> S] /\ \A i, j \in 1..n : i # j => f[i] # f[j]
  BY DEF Orders, n
<1>3. f \in Injection(1..n, S)
  BY SMTT(40), <1>2 DEF Injection, IsInjective
<1>4. Cardinality(1..n) = n
  BY <1>1, FS_Interval
<1>5. f \in Surjection(1..n, S)
  BY <1>3, <1>4, FS_Injection DEF n
<1>6. f \in Seq(S) /\ Len(f) = n
  BY SMTT(40), <1>1, <1>2
<1> QED
  BY <1>2, <1>5, <1>6 DEF Surjection

(* applyPod, deletePodLocked: what an event does to the map.                 *)
LEMMA EventApplied ==
    ASSUME NEW e \in Event, MapKept(podMap),
           IF e[2].phase = "gone" THEN deletePodLocked(e[1], e[2]) ELSE applyPod(e[1], e[2])
    PROVE  /\ MapKept(podMap')
           /\ \A w \in Pod, a \in Address :
                 /\ Leads(e, w, a) => podMap'[a] # NoEntry /\ podMap'[a].uid = w
                 /\ podMap[a] # NoEntry /\ podMap[a].uid = w /\ ~Spoils(e, w, a)
                       => podMap'[a] # NoEntry /\ podMap'[a].uid = w
<1>1. e[1] \in Pod /\ e[2] \in PodObject /\ e[2].phase # "none" /\ Placed(e[2])
  BY DEF Event
<1>2. CASE e[2].phase = "pending"
  <2>1. podMap' = podMap
    BY <1>2 DEF applyPod
  <2> QED
    BY SMTT(40), <1>2, <2>1 DEF Leads
<1>3. CASE e[2].phase \in {"ended", "gone"}
  <2>1. podMap' = [a \in Address |-> IF a = e[2].ip /\ podMap[a] # NoEntry /\ podMap[a].uid = e[1]
                                     THEN NoEntry ELSE podMap[a]]
    BY ZenonT(40), <1>3 DEF applyPod, deletePodLocked
  <2>2. MapKept(podMap')
    BY <2>1 DEF MapKept
  <2>3. ASSUME NEW w \in Pod, NEW a \in Address
        PROVE  /\ ~Leads(e, w, a)
               /\ podMap[a] # NoEntry /\ podMap[a].uid = w /\ ~Spoils(e, w, a) => podMap'[a] = podMap[a]
    BY <1>3, <2>1 DEF Leads, Spoils
  <2> QED
    BY <2>2, <2>3
<1>4. CASE e[2].phase = "running"
  <2> DEFINE new == [node |-> Home(e[2].ip), uid |-> e[1]]
  <2>1. podMap' = [podMap EXCEPT ![e[2].ip] = new] /\ e[2].ip \in Address
    BY <1>1, <1>4 DEF applyPod, Placed
  <2>2. new \in MapEntry /\ new # NoEntry /\ new.node = Home(e[2].ip) /\ new.uid = e[1]
    BY <1>1, ResolverAssumption DEF MapEntry, Home
  <2> HIDE DEF new
  <2>3. DOMAIN podMap = Address
    BY DEF MapKept
  <2>4. MapKept(podMap')
    BY <2>1, <2>2 DEF MapKept
  <2>5. ASSUME NEW w \in Pod, NEW a \in Address
        PROVE  /\ Leads(e, w, a) => podMap'[a] # NoEntry /\ podMap'[a].uid = w
               /\ podMap[a] # NoEntry /\ podMap[a].uid = w /\ ~Spoils(e, w, a)
                       => podMap'[a] # NoEntry /\ podMap'[a].uid = w
    <3>1. CASE a = e[2].ip
      BY <1>4, <2>1, <2>2, <2>3, <3>1 DEF Leads, Spoils
    <3>2. CASE a # e[2].ip
      BY SMTT(40), <2>1, <2>3, <3>2 DEF Leads
    <3> QED
      BY SMTT(40), <3>1, <3>2
  <2> QED
    BY <2>4, <2>5
<1> QED
  BY <1>1, <1>2, <1>3, <1>4 DEF PodObject

(* Deliver: the first event goes into the map, and leads or spoils there as  *)
(* it did in the queue.                                                      *)
LEMMA DeliverInv == ASSUME ResolverInv, Deliver PROVE ResolverInv'
<1> DEFINE e == Head(queue)
<1>1. /\ queue # <<>> /\ queue' = Tail(queue) /\ UNCHANGED <<obj, watching, told, localCIDRs>>
      /\ IF e[2].phase = "gone" THEN deletePodLocked(e[1], e[2]) ELSE applyPod(e[1], e[2])
  BY SMTT(40) DEF Deliver
<1>2. /\ Settled(obj) /\ queue \in Seq(Event) /\ MapKept(podMap) /\ told \in [Pod -> PodObject]
      /\ localCIDRs \in {{}, LocalAddress} /\ AllLed(watching, obj, queue, podMap)
  BY SMTT(40) DEF ResolverInv
<1>3. e \in Event /\ queue' \in Seq(Event)
  BY <1>1, <1>2
<1> HIDE DEF e
<1>4. MapKept(podMap')
  BY SMTT(40), <1>1, <1>2, <1>3, EventApplied
<1>5. ASSUME NEW u \in Pod, watching, obj[u].phase = "running" PROVE Led(queue', podMap', u, obj[u].ip)
  <2>1. obj[u].ip \in Address /\ Led(queue, podMap, u, obj[u].ip)
    BY <1>2, <1>5 DEF Settled, Placed, AllLed
  <2>2. /\ Leads(e, u, obj[u].ip) => podMap'[obj[u].ip] # NoEntry /\ podMap'[obj[u].ip].uid = u
        /\ podMap[obj[u].ip] # NoEntry /\ podMap[obj[u].ip].uid = u /\ ~Spoils(e, u, obj[u].ip)
                       => podMap'[obj[u].ip] # NoEntry /\ podMap'[obj[u].ip].uid = u
    BY SMTT(40), <1>1, <1>2, <1>3, <2>1, EventApplied
  <2> QED
    BY SMTT(40), <1>1, <1>2, <2>1, <2>2, LedHandedOver DEF e
<1>6. AllLed(watching', obj', queue', podMap')
  BY <1>1, <1>5 DEF AllLed
<1> QED
  BY <1>1, <1>2, <1>3, <1>4, <1>6 DEF ResolverInv

(* An object whose pod ended or is gone.                                     *)
LEMMA EndedObject ==
    ASSUME NEW o \in PodObject, NEW c \in {"ended", "gone"}
    PROVE  [o EXCEPT !.phase = c] \in PodObject /\ [o EXCEPT !.phase = c].phase = c
  BY SMTT(40) DEF PodObject

(* A sequence with one more element. *)
LEMMA Appended == ASSUME NEW S, NEW s \in Seq(S), NEW e \in S PROVE Append(s, e) \in Seq(S)
  BY SMTT(40)

(* A change of one pod, to an object whose address no other running pod has. *)
LEMMA ChangeInv ==
    ASSUME ResolverInv, NEW u \in Pod, NEW o \in PodObject, o.phase # "none", Placed(o), Change(u, o),
           o.phase = "running" => \A w \in Pod : w # u /\ obj[w].phase = "running" => obj[w].ip # o.ip
    PROVE  ResolverInv'
<1>1. /\ obj' = [obj EXCEPT ![u] = o] /\ UNCHANGED <<watching, podMap, localCIDRs>>
      /\ IF watching THEN told' = [told EXCEPT ![u] = o] /\ queue' = Append(queue, <<u, o>>)
                     ELSE UNCHANGED <<told, queue>>
  BY SMTT(40) DEF Change
<1>2. /\ Settled(obj) /\ queue \in Seq(Event) /\ MapKept(podMap) /\ told \in [Pod -> PodObject]
      /\ localCIDRs \in {{}, LocalAddress} /\ AllLed(watching, obj, queue, podMap)
  BY DEF ResolverInv
<1>3. <<u, o>> \in Event
  <2>1. <<u, o>> \in Pod \X PodObject /\ <<u, o>>[2] = o
    BY SMTT(40)
  <2> QED
    BY <2>1 DEF Event
<1>4. obj'[u] = o /\ \A w \in Pod : w # u => obj'[w] = obj[w]
  BY SMTT(40), <1>1, <1>2 DEF Settled
<1>5. Settled(obj')
  <2>1. obj' \in [Pod -> PodObject]
    BY SMTT(40), <1>1, <1>2 DEF Settled
  <2> QED
    BY <1>2, <1>4, <2>1 DEF Settled
<1>6. queue' \in Seq(Event) /\ told' \in [Pod -> PodObject]
  <2>1. CASE watching
    <3>1. queue' \in Seq(Event)
      <4>1. queue' = Append(queue, <<u, o>>) /\ queue \in Seq(Event)
        BY <1>1, <1>2, <2>1
      <4> QED
        BY <1>3, <4>1, Appended
    <3>2. told' \in [Pod -> PodObject]
      BY <1>1, <1>2, <2>1
    <3> QED
      BY <3>1, <3>2
  <2>2. CASE ~watching
    BY <1>1, <1>2, <2>2
  <2> QED
    BY <2>1, <2>2
<1>7. ASSUME watching, NEW w \in Pod, obj'[w].phase = "running" PROVE Led(queue', podMap, w, obj'[w].ip)
  <2>1. queue' = Append(queue, <<u, o>>)
    BY SMTT(40), <1>1, <1>7
  <2>2. CASE w = u
    <3>1. Leads(<<u, o>>, w, obj'[w].ip)
      BY SMTT(40), <1>4, <1>7, <2>2 DEF Leads
    <3> QED
      BY <1>2, <1>3, <2>1, <3>1, LedByLast
  <2>3. CASE w # u
    <3>1. obj'[w] = obj[w] /\ Led(queue, podMap, w, obj[w].ip)
      BY SMTT(40), <1>2, <1>4, <1>7, <2>3 DEF AllLed
    <3>2. ~Spoils(<<u, o>>, w, obj[w].ip)
      BY <1>7, <2>3, <3>1 DEF Spoils
    <3> QED
      BY SMTT(40), <1>2, <1>3, <2>1, <3>1, <3>2, LedStill
  <2> QED
    BY <2>2, <2>3
<1>8. AllLed(watching', obj', queue', podMap')
  BY SMTT(40), <1>1, <1>7 DEF AllLed
<1> QED
  BY SMTT(40), <1>1, <1>2, <1>5, <1>6, <1>8 DEF ResolverInv

(* The API server creates, places, touches, ends or deletes a pod: no pod    *)
(* that runs loses its address to the event.                                 *)
LEMMA PodStepInv ==
    ASSUME ResolverInv, NEW u \in Pod,
           Create(u) \/ Touch(u) \/ End(u) \/ Delete(u) \/ \E a \in Address : GetAddress(u, a)
    PROVE  ResolverInv'
<1>1. Settled(obj)
  BY DEF ResolverInv
<1>2. obj[u] \in PodObject /\ Placed(obj[u])
  BY SMTT(40), <1>1 DEF Settled
<1>3. CASE Create(u)
  <2>1. [phase |-> "pending", ip |-> NoEntry] \in PodObject
    BY SMTT(40) DEF PodObject
  <2> QED
    BY <1>3, <2>1, ChangeInv DEF Create, Placed
<1>4. CASE Touch(u)
  <2>1. \A w \in Pod : w # u /\ obj[w].phase = "running" => obj[w].ip # obj[u].ip
    BY <1>1, <1>4 DEF Settled, Touch
  <2> QED
    BY SMTT(40), <1>2, <1>4, <2>1, ChangeInv DEF Touch
<1>5. CASE End(u) \/ Delete(u)
  <2>1. PICK c \in {"ended", "gone"} : Change(u, [obj[u] EXCEPT !.phase = c])
    BY <1>5 DEF End, Delete
  <2>2. [obj[u] EXCEPT !.phase = c] \in PodObject /\ [obj[u] EXCEPT !.phase = c].phase = c
    BY ZenonT(40), <1>2, EndedObject
  <2> QED
    BY ZenonT(40), <2>1, <2>2, ChangeInv DEF Placed
<1>6. ASSUME NEW a \in Address, GetAddress(u, a) PROVE ResolverInv'
  <2> DEFINE o == [phase |-> "running", ip |-> a]
  <2>1. o \in PodObject /\ Placed(o) /\ o.phase = "running" /\ o.ip = a
    BY DEF PodObject, Placed
  <2>2. Change(u, o) /\ \A w \in Pod : obj[w].phase = "running" => obj[w].ip # a
    BY <1>6 DEF GetAddress, Free
  <2> HIDE DEF o
  <2> QED
    BY <2>1, <2>2, ChangeInv
<1> QED
  BY SMTT(40), <1>3, <1>4, <1>5, <1>6

(* A relist queues every pod there is and then the lost ones: no event after *)
(* a running pod's own takes its address away.                               *)
LEMMA RelistInv == ASSUME ResolverInv, Relist PROVE ResolverInv'
<1> DEFINE there == {u \in Pod : obj[u].phase \notin {"none", "gone"}}
           lost == {u \in Pod : told[u].phase \notin {"none", "gone"} /\ obj[u].phase = "gone"}
<1>1. /\ watching' = TRUE /\ told' = obj /\ UNCHANGED <<obj, podMap, localCIDRs>>
      /\ \E first \in Orders(there), then \in Orders(lost) :
            queue' = queue \o [i \in DOMAIN first |-> <<first[i], obj[first[i]]>>]
                           \o [i \in DOMAIN then |-> <<then[i], [told[then[i]] EXCEPT !.phase = "gone"]>>]
  BY ZenonT(40) DEF Relist
<1>2. /\ Settled(obj) /\ queue \in Seq(Event) /\ MapKept(podMap) /\ told \in [Pod -> PodObject]
      /\ localCIDRs \in {{}, LocalAddress} /\ obj \in [Pod -> PodObject]
  BY DEF ResolverInv, Settled
<1>3. /\ there \subseteq Pod /\ lost \subseteq Pod
      /\ \A u \in there : obj[u].phase \notin {"none", "gone"}
      /\ \A u \in Pod : obj[u].phase = "running" => u \in there /\ u \notin lost
  BY SMTT(40)
<1>4. IsFiniteSet(there) /\ IsFiniteSet(lost)
  BY SMTT(40), <1>3, ResolverAssumption, FS_Subset
<1> HIDE DEF there, lost
<1>5. PICK first \in Orders(there), then \in Orders(lost) :
         queue' = queue \o [i \in DOMAIN first |-> <<first[i], obj[first[i]]>>]
                        \o [i \in DOMAIN then |-> <<then[i], [told[then[i]] EXCEPT !.phase = "gone"]>>]
  BY ZenonT(40), <1>1
<1> DEFINE s == [i \in DOMAIN first |-> <<first[i], obj[first[i]]>>]
           t == [i \in DOMAIN then |-> <<then[i], [told[then[i]] EXCEPT !.phase = "gone"]>>]
<1>6. /\ first \in Seq(there) /\ DOMAIN first = 1..Len(first) /\ \A x \in there : \E i \in 1..Len(first) : first[i] = x
      /\ then \in Seq(lost) /\ DOMAIN then = 1..Len(then)
  BY SMTT(40), <1>4, SeqOfSet
<1>7. ASSUME NEW i \in 1..Len(first)
      PROVE  first[i] \in there /\ s[i] = <<first[i], obj[first[i]]>> /\ s[i] \in Event
  <2>1. first[i] \in there /\ s[i] = <<first[i], obj[first[i]]>>
    BY SMTT(40), <1>6
  <2>2. /\ first[i] \in Pod /\ obj[first[i]] \in PodObject /\ obj[first[i]].phase # "none"
        /\ Placed(obj[first[i]])
    BY SMTT(40), <1>2, <1>3, <2>1 DEF Settled
  <2> HIDE DEF s
  <2>3. s[i] \in Pod \X PodObject /\ s[i][2] = obj[first[i]]
    BY <2>1, <2>2
  <2> QED
    BY <2>1, <2>2, <2>3 DEF Event
<1>8. ASSUME NEW i \in 1..Len(then)
      PROVE  then[i] \in lost /\ t[i][1] = then[i] /\ t[i][2].phase = "gone" /\ t[i] \in Event
  <2> DEFINE o == [told[then[i]] EXCEPT !.phase = "gone"]
  <2>1. then[i] \in lost /\ then[i] \in Pod /\ t[i] = <<then[i], o>>
    BY <1>3, <1>6
  <2>2. o \in PodObject /\ o.phase = "gone"
    BY ZenonT(40), <1>2, <2>1, EndedObject
  <2> HIDE DEF o, t
  <2>3. t[i] \in Pod \X PodObject /\ t[i][1] = then[i] /\ t[i][2] = o
    BY <2>1, <2>2
  <2> QED
    BY SMTT(40), <2>1, <2>2, <2>3 DEF Event, Placed
<1>9. Len(first) \in Nat /\ Len(then) \in Nat
  BY <1>6
<1>10. DOMAIN s = 1..Len(first) /\ DOMAIN t = 1..Len(then)
  BY <1>6
<1>11. s \in [1..Len(first) -> Event] /\ t \in [1..Len(then) -> Event]
  BY SMTT(40), <1>6, <1>7, <1>8
<1>12. queue' = queue \o s \o t
  BY <1>5
<1> HIDE DEF s, t
<1>13. s \in Seq(Event) /\ t \in Seq(Event) /\ Len(s) = Len(first) /\ Len(t) = Len(then)
  BY SMTT(40), <1>9, <1>11
<1>14. queue' \in Seq(Event)
  BY SMTT(40), <1>2, <1>12, <1>13
<1>15. ASSUME NEW u \in Pod, obj[u].phase = "running" PROVE Led(queue', podMap, u, obj[u].ip)
  <2>1. PICK k \in 1..Len(s) : first[k] = u
    BY <1>3, <1>6, <1>13, <1>15
  <2>2. Leads(s[k], u, obj[u].ip)
    <3>1. s[k][1] = u /\ s[k][2] = obj[u]
      BY SMTT(40), <1>7, <1>13, <2>1
    <3> QED
      BY <1>15, <3>1 DEF Leads
  <2>3. ASSUME NEW j \in 1..Len(s) PROVE ~Spoils(s[j], u, obj[u].ip)
    <3>1. s[j][1] = first[j] /\ s[j][2] = obj[first[j]] /\ first[j] \in Pod
      BY SMTT(40), <1>3, <1>7, <1>13
    <3> QED
      BY <1>2, <1>15, <3>1 DEF Settled, Spoils
  <2>4. ASSUME NEW j \in 1..Len(t) PROVE ~Spoils(t[j], u, obj[u].ip)
    <3>1. t[j][1] # u /\ t[j][2].phase = "gone"
      BY SMTT(40), <1>3, <1>8, <1>13, <1>15
    <3> QED
      BY <3>1 DEF Spoils
  <2> QED
    BY ZenonT(40), <1>2, <1>12, <1>13, <2>2, <2>3, <2>4, LedByList
<1>16. AllLed(watching', obj', queue', podMap')
  BY SMTT(40), <1>1, <1>15 DEF AllLed
<1> QED
  BY ZenonT(40), <1>1, <1>2, <1>14, <1>16 DEF ResolverInv

(* No pod and no event at first. *)
LEMMA ResolverInitInv == ResolverInit => ResolverInv
<1> SUFFICES ASSUME ResolverInit PROVE ResolverInv
  OBVIOUS
<1>1. obj \in [Pod -> PodObject] /\ \A u \in Pod : obj[u].phase = "none"
  BY DEF ResolverInit, NoPod, PodObject
<1>2. Settled(obj) /\ AllLed(watching, obj, queue, podMap)
  BY SMTT(40), <1>1 DEF Settled, Placed, AllLed
<1>3. MapKept(podMap) /\ queue \in Seq(Event) /\ told = obj /\ localCIDRs = {}
  BY SMTT(40) DEF ResolverInit, MapKept
<1> QED
  BY <1>1, <1>2, <1>3 DEF ResolverInv

(* Every step keeps the resolver's invariant. *)
LEMMA ResolverNextInv == ASSUME ResolverInv, [ResolverNext]_resolverVars PROVE ResolverInv'
<1>1. ASSUME UNCHANGED <<obj, told, queue, podMap>>, localCIDRs' \in {{}, LocalAddress}, watching' => watching
      PROVE  ResolverInv'
  BY SMTT(40), <1>1 DEF ResolverInv, AllLed
<1>2. localCIDRs \in {{}, LocalAddress}
  BY DEF ResolverInv
<1>3. CASE reconcileLocalCIDRs \/ WatchBreaks \/ UNCHANGED resolverVars
  BY <1>1, <1>2, <1>3 DEF reconcileLocalCIDRs, WatchBreaks, resolverVars
<1>4. ASSUME NEW u \in Pod, Create(u) \/ Touch(u) \/ End(u) \/ Delete(u) \/ \E a \in Address : GetAddress(u, a)
      PROVE  ResolverInv'
  BY SMTT(40), <1>4, PodStepInv
<1> QED
  BY <1>3, <1>4, DeliverInv, RelistInv DEF ResolverNext

(* Once the queue is empty, the map alone leads to every running pod.        *)
LEMMA InvRoutes == ResolverInv => RoutesCurrent
<1> SUFFICES ASSUME ResolverInv, watching, queue = <<>>, NEW u \in Pod, obj[u].phase = "running"
             PROVE  LET a == obj[u].ip
                    IN  /\ ValidateOutboundDest(a)
                        /\ Resolve(a) = Home(a)
                        /\ ValidateLocalDest(a) <=> a \in LocalAddress
  BY SMTT(40) DEF RoutesCurrent
<1>1. /\ obj[u].ip \in Address /\ MapKept(podMap) /\ Led(queue, podMap, u, obj[u].ip)
      /\ localCIDRs \in {{}, LocalAddress}
  BY SMTT(40) DEF ResolverInv, Settled, Placed, AllLed
<1>2. podMap[obj[u].ip] # NoEntry
  BY <1>1 DEF Led
<1>3. podMap[obj[u].ip].node = Home(obj[u].ip)
  BY SMTT(40), <1>1, <1>2 DEF MapKept
<1> QED
  BY <1>1, <1>2, <1>3 DEF ValidateOutboundDest, Resolve, ValidateLocalDest, Home

(* resolver_k8s.go: once the informer has handed over what it knows, every   *)
(* running pod is reached at its own node (RoutesCurrent), for every number  *)
(* of pods and addresses, and however long the queue of events gets.         *)
THEOREM RoutesStayCurrent == ResolverSpec => []RoutesCurrent
<1>1. ResolverInv /\ [ResolverNext]_resolverVars => ResolverInv'
  BY ResolverNextInv
<1> QED
  BY <1>1, ResolverInitInv, InvRoutes, PTL DEF ResolverSpec

-------------------------------------------------------------------------------
(* A connection still to come holds nothing: Accept overwrites its record. *)
ProxyInv ==
    /\ conns \in [Conn -> Connection \union {NoConn}]
    /\ backlog \subseteq Conn
    /\ \A c \in backlog : conns[c] = NoConn
    /\ SlotsBalanced

(* A subset of the connections is finite and has a size. *)
LEMMA FiniteSubset ==
    ASSUME NEW S \in SUBSET Conn
    PROVE  IsFiniteSet(S) /\ Cardinality(S) \in Nat
  BY ProxyAssumption, FS_Subset, FS_CardinalityType

(* The step takes no slot and gives none back. *)
LEMMA SameHolding ==
    ASSUME ProxyInv, Holding' = Holding, connSem' = connSem
    PROVE  connSem' = Cardinality(Holding)' /\ connSem' <= MaxConns
  BY DEF ProxyInv, SlotsBalanced

(* The step leaves the handlers and their counters alone. *)
LEMMA SameHandlers ==
    ASSUME ProxyInv, At({"active"})' = At({"active"}), UNCHANGED srcConns,
           \A c \in At({"active"}) : conns'[c] = conns[c]
    PROVE  /\ (DOMAIN srcConns = {conns[c].src : c \in At({"active"})})'
           /\ \A s \in DOMAIN srcConns' :
                 srcConns'[s] = Cardinality(Handled(s))' /\ srcConns'[s] <= MaxConnsPerSrc
  <1>1. {conns[c].src : c \in At({"active"})}' = {conns[c].src : c \in At({"active"})}
    OBVIOUS
  <1>2. \A s : Handled(s)' = Handled(s)
    BY DEF Handled
  <1> QED
    BY <1>1, <1>2 DEF ProxyInv, SlotsBalanced

(* The counter of a source, absent or not, is the number of its handlers. *)
LEMMA CountIsRight ==
    ASSUME ProxyInv, NEW s
    PROVE  Count(s) = Cardinality(Handled(s)) /\ Count(s) \in Nat
  <1>1. Handled(s) \in SUBSET Conn
    BY DEF Handled, At
  <1>2. CASE s \in DOMAIN srcConns
    BY <1>1, <1>2, FiniteSubset DEF ProxyInv, SlotsBalanced, Count
  <1>3. CASE s \notin DOMAIN srcConns
    <2>1. Handled(s) = {}
      BY <1>3 DEF ProxyInv, SlotsBalanced, Handled
    <2> QED
      BY <1>3, <2>1, FS_EmptySet DEF Count
  <1> QED
    BY <1>2, <1>3

(* A connection that enters or leaves a state keeps its source. *)
LEMMA Moved ==
    ASSUME conns \in [Conn -> Connection \union {NoConn}], NEW c \in Conn, conns[c] # NoConn,
           NEW where \in {"accepted", "counted", "refused", "active", "released"}, Move(c, where)
    PROVE  \E new \in Connection : /\ conns' = [conns EXCEPT ![c] = new]
                                   /\ new.src = conns[c].src
                                   /\ new.at = where
                                   /\ new # NoConn
  <1> DEFINE new == [conns[c] EXCEPT !.at = where]
  <1>1. conns[c] \in Connection
    OBVIOUS
  <1>2. new \in Connection /\ new.src = conns[c].src /\ new.at = where
    BY <1>1 DEF Connection
  <1>3. conns' = [conns EXCEPT ![c] = new]
    BY DEF Move
  <1> QED
    BY ZenonT(40), <1>2, <1>3, ProxyAssumption

(* serve starts a handler: its source has one more, and so has its counter. *)
LEMMA HandlerAdded ==
    ASSUME ProxyInv, NEW c \in At({"counted"}), Move(c, "active"),
           Count(conns[c].src) + 1 <= MaxConnsPerSrc,
           SetCount(conns[c].src, Count(conns[c].src) + 1)
    PROVE  /\ (DOMAIN srcConns = {conns[d].src : d \in At({"active"})})'
           /\ \A s \in DOMAIN srcConns' :
                 srcConns'[s] = Cardinality(Handled(s))' /\ srcConns'[s] <= MaxConnsPerSrc
  <1> DEFINE src == conns[c].src
             active == At({"active"})
  <1>1. c \in Conn /\ conns[c] # NoConn /\ c \notin active /\ active \subseteq Conn
    BY DEF At
  <1>2. PICK new \in Connection : /\ conns' = [conns EXCEPT ![c] = new]
                                  /\ new.src = src /\ new.at = "active" /\ new # NoConn
    BY <1>1, Moved DEF ProxyInv
  <1>3. At({"active"})' = active \union {c}
    BY SMTT(40), <1>1, <1>2 DEF ProxyInv, At
  <1>4. conns'[c].src = src /\ \A d \in active : conns'[d] = conns[d]
    BY <1>1, <1>2 DEF ProxyInv
  <1>5. \A s : Handled(s)' = IF s = src THEN Handled(s) \union {c} ELSE Handled(s)
    BY <1>3, <1>4 DEF Handled
  <1>6. Count(src) = Cardinality(Handled(src)) /\ Count(src) \in Nat
    BY SMTT(40), CountIsRight
  <1>7. srcConns' = [t \in DOMAIN srcConns \union {src} |-> IF t = src THEN Count(src) + 1 ELSE srcConns[t]]
    BY SMTT(40), <1>6 DEF SetCount
  <1>8. Cardinality(Handled(src) \union {c}) = Cardinality(Handled(src)) + 1
    <2>1. Handled(src) \in SUBSET Conn /\ c \notin Handled(src)
      BY SMTT(40), <1>1 DEF Handled
    <2> QED
      BY <2>1, FiniteSubset, FS_AddElement
  <1>9. {conns[d].src : d \in At({"active"})}' = {conns[d].src : d \in active} \union {src}
    BY SMTT(40), <1>3, <1>4
  <1>10. DOMAIN srcConns' = {conns[d].src : d \in At({"active"})}'
    BY ZenonT(40), <1>7, <1>9 DEF ProxyInv, SlotsBalanced
  <1>11. ASSUME NEW s \in DOMAIN srcConns'
         PROVE  srcConns'[s] = Cardinality(Handled(s))' /\ srcConns'[s] <= MaxConnsPerSrc
    <2>1. CASE s = src
      BY SMTT(40), <2>1, <1>5, <1>6, <1>7, <1>8
    <2>2. CASE s # src
      BY SMTT(40), <2>2, <1>5, <1>7 DEF ProxyInv, SlotsBalanced
    <2> QED
      BY SMTT(40), <2>1, <2>2
  <1> QED
    BY SMTT(40), <1>10, <1>11

(* releaseSrc: its source has one handler less; the last one takes the counter *)
(* with it.                                                                    *)
LEMMA HandlerDropped ==
    ASSUME ProxyInv, NEW c \in At({"active"}), Move(c, "released"),
           SetCount(conns[c].src, Count(conns[c].src) - 1)
    PROVE  /\ (DOMAIN srcConns = {conns[d].src : d \in At({"active"})})'
           /\ \A s \in DOMAIN srcConns' :
                 srcConns'[s] = Cardinality(Handled(s))' /\ srcConns'[s] <= MaxConnsPerSrc
  <1> DEFINE src == conns[c].src
             active == At({"active"})
  <1>1. c \in Conn /\ conns[c] # NoConn /\ c \in active /\ active \subseteq Conn
    BY DEF At
  <1>2. PICK new \in Connection : /\ conns' = [conns EXCEPT ![c] = new]
                                  /\ new.src = src /\ new.at = "released" /\ new # NoConn
    BY SMTT(40), <1>1, Moved DEF ProxyInv
  <1>3. At({"active"})' = active \ {c}
    BY SMTT(40), <1>1, <1>2 DEF ProxyInv, At
  <1>4. \A d \in active \ {c} : conns'[d] = conns[d]
    BY <1>1, <1>2 DEF ProxyInv
  <1>5. \A s : Handled(s)' = IF s = src THEN Handled(s) \ {c} ELSE Handled(s)
    BY SMTT(40), <1>3, <1>4 DEF Handled
  <1>6. Count(src) = Cardinality(Handled(src)) /\ Count(src) \in Nat
    BY SMTT(40), CountIsRight
  <1>7. /\ Handled(src) \ {c} \in SUBSET Conn
        /\ Cardinality(Handled(src) \ {c}) = Count(src) - 1
    <2>1. Handled(src) \in SUBSET Conn /\ c \in Handled(src)
      BY SMTT(40), <1>1 DEF Handled
    <2> QED
      BY <2>1, <1>6, FiniteSubset, FS_RemoveElement
  <1>8. src \in DOMAIN srcConns /\ srcConns[src] = Count(src) /\ Count(src) <= MaxConnsPerSrc
    BY SMTT(40), <1>1 DEF ProxyInv, SlotsBalanced, Count
  <1>9. {conns[d].src : d \in At({"active"})}' = {conns[d].src : d \in active \ {c}}
    BY SMTT(40), <1>3, <1>4
  <1>10. CASE Count(src) - 1 = 0
    <2>1. srcConns' = [t \in DOMAIN srcConns \ {src} |-> srcConns[t]]
      BY <1>10 DEF SetCount
    <2>2. Handled(src) \ {c} = {}
      BY <1>7, <1>10, FiniteSubset, FS_EmptySet
    <2>3. \A d \in active \ {c} : conns[d].src # src
      BY SMTT(40), <2>2 DEF Handled
    <2>4. {conns[d].src : d \in active \ {c}} = {conns[d].src : d \in active} \ {src}
      BY <2>3
    <2>5. DOMAIN srcConns' = {conns[d].src : d \in At({"active"})}'
      BY ZenonT(40), <2>1, <2>4, <1>9 DEF ProxyInv, SlotsBalanced
    <2> QED
      BY SMTT(40), <2>1, <2>5, <1>5 DEF ProxyInv, SlotsBalanced
  <1>11. CASE Count(src) - 1 # 0
    <2>1. srcConns' = [t \in DOMAIN srcConns \union {src} |-> IF t = src THEN Count(src) - 1 ELSE srcConns[t]]
      BY <1>11 DEF SetCount
    <2>2. Handled(src) \ {c} # {}
      BY ZenonT(40), <1>7, <1>11, FS_EmptySet
    <2>3. \E d \in active \ {c} : conns[d].src = src
      BY SMTT(40), <2>2 DEF Handled
    <2>4. {conns[d].src : d \in active \ {c}} = {conns[d].src : d \in active}
      BY SMTT(40), <2>3, <1>1
    <2>5. DOMAIN srcConns' = {conns[d].src : d \in At({"active"})}'
      BY ZenonT(40), <2>1, <2>4, <1>8, <1>9 DEF ProxyInv, SlotsBalanced
    <2>6. ASSUME NEW s \in DOMAIN srcConns'
          PROVE  srcConns'[s] = Cardinality(Handled(s))' /\ srcConns'[s] <= MaxConnsPerSrc
      <3>1. CASE s = src
        <4>1. srcConns'[s] = Count(src) - 1
          BY <3>1, <2>1
        <4>2. Cardinality(Handled(s))' = Count(src) - 1
          BY SMTT(40), <3>1, <1>5, <1>7
        <4>3. Count(src) - 1 <= MaxConnsPerSrc
          BY SMTT(40), <1>6, <1>8, ProxyAssumption
        <4> QED
          BY SMTT(40), <4>1, <4>2, <4>3
      <3>2. CASE s # src
        BY SMTT(40), <3>2, <2>1, <1>5 DEF ProxyInv, SlotsBalanced
      <3> QED
        BY SMTT(40), <3>1, <3>2
    <2> QED
      BY SMTT(40), <2>5, <2>6
  <1> QED
    BY SMTT(40), <1>10, <1>11

(* A connection takes a slot, and a connection gives its slot back. *)
LEMMA SlotTaken ==
    ASSUME ProxyInv, NEW c \in Conn, c \notin Holding, Holding' = Holding \union {c},
           connSem < MaxConns, connSem' = connSem + 1
    PROVE  connSem' = Cardinality(Holding)' /\ connSem' <= MaxConns
  <1>1. Holding \in SUBSET Conn
    BY DEF Holding, At
  <1>2. connSem = Cardinality(Holding) /\ connSem \in Nat
    BY SMTT(40), <1>1, FiniteSubset DEF ProxyInv, SlotsBalanced
  <1>3. Cardinality(Holding \union {c}) = Cardinality(Holding) + 1
    BY <1>1, FiniteSubset, FS_AddElement
  <1> QED
    BY SMTT(40), <1>2, <1>3, ProxyAssumption

(* A connection that held a slot gives it back. *)
LEMMA SlotGiven ==
    ASSUME ProxyInv, NEW c \in Holding, Holding' = Holding \ {c}, connSem' = connSem - 1
    PROVE  connSem' = Cardinality(Holding)' /\ connSem' <= MaxConns
  <1>1. Holding \in SUBSET Conn
    BY SMTT(40) DEF Holding, At
  <1>2. connSem = Cardinality(Holding) /\ connSem \in Nat /\ connSem <= MaxConns
    BY SMTT(40), <1>1, FiniteSubset DEF ProxyInv, SlotsBalanced
  <1>3. Cardinality(Holding \ {c}) = Cardinality(Holding) - 1
    BY <1>1, FiniteSubset, FS_RemoveElement
  <1> QED
    BY <1>2, <1>3, ProxyAssumption

(* The four parts of the next state's invariant, put together. *)
LEMMA Together ==
    ASSUME (conns \in [Conn -> Connection \union {NoConn}])',
           (backlog \subseteq Conn /\ \A c \in backlog : conns[c] = NoConn)',
           connSem' = Cardinality(Holding)' /\ connSem' <= MaxConns,
           (DOMAIN srcConns = {conns[c].src : c \in At({"active"})})',
           \A s \in DOMAIN srcConns' :
              srcConns'[s] = Cardinality(Handled(s))' /\ srcConns'[s] <= MaxConnsPerSrc
    PROVE  ProxyInv'
  BY SMTT(40) DEF ProxyInv, SlotsBalanced

(* What a step that changes one connection does to the sets it may be in. *)
LEMMA OneChanges ==
    ASSUME ProxyInv, NEW c \in Conn, NEW new \in Connection \union {NoConn},
           conns' = [conns EXCEPT ![c] = new],
           backlog' \subseteq backlog, c \notin backlog'
    PROVE  LET holds == new # NoConn /\ new.at \in {"counted", "refused", "active", "released"}
           IN  /\ (conns \in [Conn -> Connection \union {NoConn}])'
               /\ (backlog \subseteq Conn /\ \A d \in backlog : conns[d] = NoConn)'
               /\ (holds <=> c \in Holding) => Holding' = Holding
               /\ holds => Holding' = Holding \union {c}
               /\ ~holds => Holding' = Holding \ {c}
               /\ c \notin At({"active"}) /\ (new = NoConn \/ new.at # "active")
                     => At({"active"})' = At({"active"})
               /\ \A d \in Conn : d # c => conns'[d] = conns[d]
  BY DEF ProxyInv, Holding, At

(* A step that changes one connection without a handler keeps the counters. *)
LEMMA OtherHandlers ==
    ASSUME ProxyInv, NEW c \in Conn, NEW new \in Connection \union {NoConn},
           conns' = [conns EXCEPT ![c] = new], c \notin At({"active"}),
           new = NoConn \/ new.at # "active",
           backlog' \subseteq backlog, c \notin backlog', UNCHANGED srcConns,
           connSem' = Cardinality(Holding)' /\ connSem' <= MaxConns
    PROVE  ProxyInv'
  <1>1. At({"active"})' = At({"active"})
    BY ZenonT(40), OneChanges
  <1>2. \A d \in At({"active"}) : conns'[d] = conns[d]
    BY SMTT(40), OneChanges DEF At
  <1> QED
    BY ZenonT(40), <1>1, <1>2, OneChanges, SameHandlers, Together

(* proxy.go:246 and :668: with any limits, any number of connections and any  *)
(* interleaving of the loops, the handlers and the shutdown, every slot and   *)
(* every count belongs to a connection that is there.                         *)
THEOREM SlotsAreBalanced == ProxySpec => []SlotsBalanced
  <1>1. ProxyInit => ProxyInv
    <2> SUFFICES ASSUME ProxyInit PROVE ProxyInv
      OBVIOUS
    <2>1. \A W : At(W) = {}
      BY SMTT(40) DEF ProxyInit, At
    <2>2. Cardinality(Holding) = 0 /\ DOMAIN srcConns = {}
      BY <2>1, FS_EmptySet DEF Holding, ProxyInit
    <2> QED
      BY SMTT(40), <2>1, <2>2, ProxyAssumption DEF ProxyInit, ProxyInv, SlotsBalanced
  <1>2. ProxyInv /\ [ProxyNext]_proxyVars => ProxyInv'
    <2> SUFFICES ASSUME ProxyInv, [ProxyNext]_proxyVars PROVE ProxyInv'
      OBVIOUS
    <2>0. /\ NoConn \in Connection \union {NoConn}
          /\ \A W : \A c \in At(W) : /\ c \in Conn /\ c \notin backlog
                                     /\ conns[c] # NoConn /\ conns[c].at \in W
      BY DEF At, ProxyInv
    <2>1. ASSUME NEW l \in Listener, NEW c \in Conn, NEW s \in Source, Accept(l, c, s)
          PROVE  ProxyInv'
      <3> DEFINE new == [src |-> s, on |-> l, at |-> "accepted"]
      <3>1. new \in Connection /\ new.at = "accepted"
        BY DEF Connection
      <3>2. conns' = [conns EXCEPT ![c] = new] /\ backlog' = backlog \ {c} /\ c \in backlog
        BY <2>1 DEF Accept
      <3> HIDE DEF new
      <3>3. c \notin Holding /\ c \notin At({"active"})
        BY SMTT(40), <2>0, <3>2 DEF Holding
      <3>4. Holding' = Holding
        BY ZenonT(40), <3>1, <3>2, <3>3, OneChanges
      <3> QED
        BY ZenonT(40), <2>1, <3>1, <3>2, <3>3, <3>4, SameHolding, OtherHandlers DEF Accept
    <2>2. ASSUME NEW c \in Conn, TakeSlot(c)
          PROVE  ProxyInv'
      <3>1. /\ c \notin backlog /\ conns[c] # NoConn
            /\ c \notin Holding /\ c \notin At({"active"})
            /\ UNCHANGED <<backlog, srcConns>>
        BY ZenonT(40), <2>2, <2>0 DEF TakeSlot, Holding, At
      <3>2. CASE connSem < MaxConns
        <4>1. connSem' = connSem + 1 /\ Move(c, "counted")
          BY <2>2, <3>2 DEF TakeSlot
        <4>2. PICK new \in Connection : conns' = [conns EXCEPT ![c] = new] /\ new.at = "counted" /\ new # NoConn
          BY SMTT(40), <3>1, <4>1, Moved DEF ProxyInv
        <4>3. Holding' = Holding \union {c}
          BY ZenonT(40), <3>1, <4>2, OneChanges
        <4>4. connSem' = Cardinality(Holding)' /\ connSem' <= MaxConns
          BY SMTT(40), <3>1, <3>2, <4>1, <4>3, SlotTaken
        <4> QED
          BY ZenonT(40), <3>1, <4>2, <4>4, OtherHandlers
      <3>3. CASE ~(connSem < MaxConns)
        <4>1. connSem' = connSem /\ conns' = [conns EXCEPT ![c] = NoConn]
          BY <2>2, <3>3 DEF TakeSlot, Close
        <4>2. Holding' = Holding
          BY ZenonT(40), <2>0, <3>1, <4>1, OneChanges
        <4> QED
          BY ZenonT(40), <2>0, <3>1, <4>1, <4>2, SameHolding, OtherHandlers
      <3> QED
        BY <3>2, <3>3
    <2>3. ASSUME NEW c \in Conn, tryAcquireSrc(c)
          PROVE  ProxyInv'
      <3>1. /\ c \in At({"counted"}) /\ c \notin backlog /\ conns[c] # NoConn
            /\ c \in Holding /\ c \notin At({"active"})
            /\ UNCHANGED <<backlog, connSem>>
        BY ZenonT(40), <2>3, <2>0 DEF tryAcquireSrc, Holding, At
      <3> DEFINE n == Count(conns[c].src)
      <3>2. n \in Nat
        BY SMTT(40), CountIsRight
      <3> HIDE DEF n
      <3>3. CASE n + 1 > MaxConnsPerSrc
        <4>1. Move(c, "refused") /\ UNCHANGED srcConns
          BY <2>3, <3>3 DEF tryAcquireSrc, n
        <4>2. PICK new \in Connection : conns' = [conns EXCEPT ![c] = new] /\ new.at = "refused" /\ new # NoConn
          BY SMTT(40), <3>1, <4>1, Moved DEF ProxyInv
        <4>3. Holding' = Holding
          BY ZenonT(40), <3>1, <4>2, OneChanges
        <4> QED
          BY ZenonT(40), <3>1, <4>1, <4>2, <4>3, SameHolding, OtherHandlers
      <3>4. CASE ~(n + 1 > MaxConnsPerSrc)
        <4>1. Move(c, "active") /\ SetCount(conns[c].src, Count(conns[c].src) + 1)
          BY SMTT(40), <2>3, <3>4 DEF tryAcquireSrc, n
        <4>2. n + 1 <= MaxConnsPerSrc
          BY SMTT(40), <3>2, <3>4, ProxyAssumption
        <4>3. PICK new \in Connection : conns' = [conns EXCEPT ![c] = new] /\ new.at = "active" /\ new # NoConn
          BY <3>1, <4>1, Moved DEF ProxyInv
        <4>4. Holding' = Holding
          BY ZenonT(40), <3>1, <4>3, OneChanges
        <4> QED
          BY ZenonT(40), <3>1, <4>1, <4>2, <4>3, <4>4, OneChanges, HandlerAdded, SameHolding, Together DEF n
      <3> QED
        BY <3>3, <3>4
    <2>4. ASSUME NEW c \in Conn, Refuse(c) \/ ReleaseSlot(c)
          PROVE  ProxyInv'
      <3>1. /\ c \notin backlog /\ c \in Holding /\ c \notin At({"active"})
            /\ UNCHANGED <<backlog, srcConns>>
            /\ connSem' = connSem - 1
            /\ conns' = [conns EXCEPT ![c] = NoConn]
        BY ZenonT(40), <2>4, <2>0 DEF Refuse, ReleaseSlot, Close, Holding, At
      <3>2. Holding' = Holding \ {c}
        BY ZenonT(40), <2>0, <3>1, OneChanges
      <3>3. connSem' = Cardinality(Holding)' /\ connSem' <= MaxConns
        BY SMTT(40), <3>1, <3>2, SlotGiven
      <3> QED
        BY ZenonT(40), <2>0, <3>1, <3>3, OtherHandlers
    <2>5. ASSUME NEW c \in Conn, releaseSrc(c)
          PROVE  ProxyInv'
      <3>1. /\ c \in At({"active"}) /\ c \notin backlog /\ conns[c] # NoConn /\ c \in Holding
            /\ UNCHANGED <<backlog, connSem>>
            /\ Move(c, "released") /\ SetCount(conns[c].src, Count(conns[c].src) - 1)
        BY ZenonT(40), <2>5, <2>0 DEF releaseSrc, Holding, At
      <3>2. PICK new \in Connection : conns' = [conns EXCEPT ![c] = new] /\ new.at = "released" /\ new # NoConn
        BY <3>1, Moved DEF ProxyInv
      <3>3. Holding' = Holding
        BY ZenonT(40), <3>1, <3>2, OneChanges
      <3> QED
        BY ZenonT(40), <3>1, <3>2, <3>3, OneChanges, HandlerDropped, SameHolding, Together
    <2>6. CASE UNCHANGED <<conns, connSem, srcConns, backlog>>
      BY ZenonT(40), <2>6 DEF ProxyInv, SlotsBalanced, Holding, Handled, At
    <2>7. \/ Cancel \/ Drain \/ Return \/ (\E l \in Listener : LoopReturns(l)) \/ UNCHANGED proxyVars
              => UNCHANGED <<conns, connSem, srcConns, backlog>>
      BY ZenonT(40) DEF Cancel, Drain, Return, LoopReturns, proxyVars
    <2> QED
      BY SMTT(40), <2>1, <2>2, <2>3, <2>4, <2>5, <2>6, <2>7 DEF ProxyNext
  <1>3. ProxyInv => SlotsBalanced
    BY SMTT(40) DEF ProxyInv
  <1> QED
    BY <1>1, <1>2, <1>3, PTL DEF ProxySpec

-------------------------------------------------------------------------------
(* A connection before its handler belongs to a loop that runs, so nothing can *)
(* get a handler once Run has waited for the loops.                            *)
DrainInv ==
    /\ conns \in [Conn -> Connection \union {NoConn}]
    /\ loops \subseteq Listener
    /\ \A c \in At({"accepted", "counted", "refused"}) : conns[c].on \in loops
    /\ run # "serving" => loops = {}
    /\ run = "drained" => At({"active", "released"}) = {}

(* A step of one connection that is in the hands of a running loop, or that    *)
(* has a handler and keeps it or ends.                                         *)
LEMMA DrainStep ==
    ASSUME DrainInv, NEW c \in Conn, NEW new \in Connection \union {NoConn},
           conns' = [conns EXCEPT ![c] = new], UNCHANGED <<loops, run>>,
           \/ new = NoConn
           \/ new # NoConn /\ new.on \in loops
           \/ new # NoConn /\ new.at = "released" /\ c \in At({"active", "released"})
    PROVE  DrainInv'
  <1>1. (conns \in [Conn -> Connection \union {NoConn}])'
    BY SMTT(40) DEF DrainInv
  <1>2. \A d \in Conn : conns'[d] = IF d = c THEN new ELSE conns[d]
    BY DEF DrainInv
  <1>3. (\A d \in At({"accepted", "counted", "refused"}) : conns[d].on \in loops)'
    BY SMTT(40), <1>2 DEF DrainInv, At
  <1>4. run = "drained" => At({"active", "released"})' = {}
    BY SMTT(40), <1>2 DEF DrainInv, At
  <1> QED
    BY SMTT(40), <1>1, <1>3, <1>4 DEF DrainInv

(* proxy.go:155 "On shutdown it waits for in-flight connections to drain": for *)
(* any number of connections, also those accepted after the cancellation, a    *)
(* Run that reports a drain leaves no connection and no accept loop behind.    *)
THEOREM DrainIsComplete == ProxySpec => []DrainsAll
  <1>1. ProxyInit => DrainInv
    BY DEF ProxyInit, DrainInv, At
  <1>2. DrainInv /\ [ProxyNext]_proxyVars => DrainInv'
    <2> SUFFICES ASSUME DrainInv, [ProxyNext]_proxyVars PROVE DrainInv'
      OBVIOUS
    <2>0. NoConn \in Connection \union {NoConn}
      OBVIOUS
    <2>1. ASSUME NEW l \in Listener, NEW c \in Conn, NEW s \in Source, Accept(l, c, s)
          PROVE  DrainInv'
      <3> DEFINE new == [src |-> s, on |-> l, at |-> "accepted"]
      <3>1. new \in Connection /\ new.on = l /\ new # NoConn
        BY SMTT(40), ProxyAssumption DEF Connection
      <3>2. conns' = [conns EXCEPT ![c] = new] /\ l \in loops /\ UNCHANGED <<loops, run>>
        BY <2>1 DEF Accept
      <3> HIDE DEF new
      <3> QED
        BY ZenonT(40), <3>1, <3>2, DrainStep
    <2>2. ASSUME NEW c \in Conn, Close(c), UNCHANGED <<loops, run>>
          PROVE  DrainInv'
      BY ZenonT(40), <2>0, <2>2, DrainStep DEF Close
    <2>3. ASSUME NEW c \in At({"accepted", "counted"}), NEW where \in {"counted", "refused", "active"},
                 Move(c, where), UNCHANGED <<loops, run>>
          PROVE  DrainInv'
      <3> DEFINE new == [conns[c] EXCEPT !.at = where]
      <3>1. c \in Conn /\ conns[c] \in Connection /\ conns[c].on \in loops
        BY DEF DrainInv, At
      <3>2. new \in Connection /\ new.on \in loops /\ new # NoConn
        BY <3>1, ProxyAssumption DEF Connection
      <3>3. conns' = [conns EXCEPT ![c] = new]
        BY SMTT(40), <2>3 DEF Move
      <3> HIDE DEF new
      <3> QED
        BY ZenonT(40), <2>3, <3>1, <3>2, <3>3, DrainStep
    <2>4. ASSUME NEW c \in Conn, releaseSrc(c)
          PROVE  DrainInv'
      <3> DEFINE new == [conns[c] EXCEPT !.at = "released"]
      <3>1. c \in At({"active", "released"}) /\ conns[c] \in Connection
        BY <2>4 DEF releaseSrc, DrainInv, At
      <3>2. new \in Connection /\ new.at = "released" /\ new # NoConn
        BY SMTT(40), <3>1, ProxyAssumption DEF Connection
      <3>3. conns' = [conns EXCEPT ![c] = new] /\ UNCHANGED <<loops, run>>
        BY SMTT(40), <2>4 DEF releaseSrc, Move
      <3> HIDE DEF new
      <3> QED
        BY ZenonT(40), <3>1, <3>2, <3>3, DrainStep
    <2>5. ASSUME NEW c \in Conn, TakeSlot(c) \/ tryAcquireSrc(c)
          PROVE  DrainInv'
      <3>1. /\ UNCHANGED <<loops, run>>
            /\ c \in At({"accepted", "counted"})
            /\ Close(c) \/ \E where \in {"counted", "refused", "active"} : Move(c, where)
        BY SMTT(40), <2>5 DEF TakeSlot, tryAcquireSrc, At
      <3> QED
        BY SMTT(40), <3>1, <2>2, <2>3
    <2>6. ASSUME NEW c \in Conn, Refuse(c) \/ ReleaseSlot(c)
          PROVE  DrainInv'
      BY SMTT(40), <2>6, <2>2 DEF Refuse, ReleaseSlot
    <2>7. ASSUME NEW l \in Listener, LoopReturns(l)
          PROVE  DrainInv'
      BY <2>7 DEF LoopReturns, Busy, DrainInv, At
    <2>8. CASE Cancel \/ Drain \/ Return \/ UNCHANGED proxyVars
      BY ZenonT(40), <2>8 DEF Cancel, Drain, Return, proxyVars, DrainInv, At
    <2> QED
      BY SMTT(40), <2>1, <2>4, <2>5, <2>6, <2>7, <2>8 DEF ProxyNext
  <1>3. DrainInv => DrainsAll
    <2> SUFFICES ASSUME DrainInv, run = "drained", NEW c \in Conn, conns[c] # NoConn
                 PROVE  FALSE
      BY DEF DrainsAll, DrainInv
    <2>1. conns[c].at \in {"accepted", "counted", "refused", "active", "released"}
      BY DEF DrainInv, Connection
    <2> QED
      BY <2>1 DEF DrainInv, At
  <1> QED
    BY <1>1, <1>2, <1>3, PTL DEF ProxySpec
===============================================================================
