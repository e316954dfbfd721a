------------------------------- MODULE MeshProxy -------------------------------
(***************************************************************************)
(* internal/cmds/ratlsmesh/proxy.go: the accept loops, the two connection  *)
(* limits and the shutdown of the proxy.  Both listeners share a semaphore *)
(* and a table of counters, one for each source with an open connection.   *)
(* A loop handles one connection at a time up to the point where it starts *)
(* a handler; what a handler does in between is left open, it ends.        *)
(***************************************************************************)
EXTENDS Integers, FiniteSets

CONSTANTS Conn, Source,
          MaxConns,         \* capacity of connSem
          MaxConnsPerSrc,
          NoConn

Listener == {"outbound", "inbound"}

Connection == [src : Source, on : Listener,
               at : {"accepted", "counted", "refused", "active", "released"}]

(* Both limits are set; the flags' 0 turns one off and leaves nothing to count. *)
ASSUME ProxyAssumption ==
    /\ IsFiniteSet(Conn)
    /\ MaxConns \in Nat \ {0} /\ MaxConnsPerSrc \in Nat \ {0}
    /\ NoConn \notin Connection

VARIABLES conns,            \* Conn -> NoConn or its source, listener and progress
          connSem,          \* slots taken
          srcConns,         \* source -> counter, for the sources present
          loops,            \* listeners whose accept loop still runs
          stopping,         \* ctx is cancelled
          run,              \* Run: "serving", "draining", "drained" or "timed out"
          backlog           \* connections still to come

proxyVars == <<conns, connSem, srcConns, loops, stopping, run, backlog>>

At(where) == {c \in Conn : conns[c] # NoConn /\ conns[c].at \in where}

(* The connection the loop of l is busy with. *)
Busy(l) == \E c \in At({"accepted", "counted", "refused"}) : conns[c].on = l

Move(c, where) == conns' = [conns EXCEPT ![c].at = where]

Close(c) == conns' = [conns EXCEPT ![c] = NoConn]

Count(s) == IF s \in DOMAIN srcConns THEN srcConns[s] ELSE 0

SetCount(s, n) ==
    srcConns' = IF n = 0 THEN [t \in DOMAIN srcConns \ {s} |-> srcConns[t]]
                ELSE [t \in DOMAIN srcConns \union {s} |-> IF t = s THEN n ELSE srcConns[t]]

ProxyInit ==
    /\ conns = [c \in Conn |-> NoConn]
    /\ connSem = 0
    /\ srcConns = <<>>
    /\ loops = Listener
    /\ stopping = FALSE
    /\ run = "serving"
    /\ backlog = Conn

-------------------------------------------------------------------------------
(* serve: Accept may still return a connection after ctx was cancelled. *)
Accept(l, c, s) ==
    /\ l \in loops
    /\ ~Busy(l)
    /\ c \in backlog
    /\ backlog' = backlog \ {c}
    /\ conns' = [conns EXCEPT ![c] = [src |-> s, on |-> l, at |-> "accepted"]]
    /\ UNCHANGED <<connSem, srcConns, loops, stopping, run>>

(* The global limit: a full semaphore costs the connection. *)
TakeSlot(c) ==
    /\ c \in At({"accepted"})
    /\ IF connSem < MaxConns
       THEN connSem' = connSem + 1 /\ Move(c, "counted")
       ELSE Close(c) /\ UNCHANGED connSem
    /\ UNCHANGED <<srcConns, loops, stopping, run, backlog>>

(* tryAcquireSrc, and activeConns.Add for a connection that gets a handler. *)
tryAcquireSrc(c) ==
    LET s == conns[c].src
    IN  /\ c \in At({"counted"})
        /\ IF Count(s) + 1 > MaxConnsPerSrc
           THEN Move(c, "refused") /\ UNCHANGED srcConns
           ELSE Move(c, "active") /\ SetCount(s, Count(s) + 1)
        /\ UNCHANGED <<connSem, loops, stopping, run, backlog>>

(* Mutant: the slot of a refused connection is not given back. *)
RefuseKeepsSlot(c) ==
    /\ c \in At({"refused"})
    /\ Close(c)
    /\ UNCHANGED <<connSem, srcConns, loops, stopping, run, backlog>>

Refuse(c) ==
    /\ c \in At({"refused"})
    /\ connSem' = connSem - 1
    /\ Close(c)
    /\ UNCHANGED <<srcConns, loops, stopping, run, backlog>>

(* A handler returns, on any of its paths; releaseSrc drops an empty counter. *)
releaseSrc(c) ==
    /\ c \in At({"active"})
    /\ SetCount(conns[c].src, Count(conns[c].src) - 1)
    /\ Move(c, "released")
    /\ UNCHANGED <<connSem, loops, stopping, run, backlog>>

ReleaseSlot(c) ==
    /\ c \in At({"released"})
    /\ connSem' = connSem - 1
    /\ Close(c)
    /\ UNCHANGED <<srcConns, loops, stopping, run, backlog>>

-------------------------------------------------------------------------------
(* Run. *)
Cancel ==
    /\ ~stopping
    /\ stopping' = TRUE
    /\ UNCHANGED <<conns, connSem, srcConns, loops, run, backlog>>

(* The listener is closed, Accept fails and the loop returns. *)
LoopReturns(l) ==
    /\ stopping
    /\ l \in loops
    /\ ~Busy(l)
    /\ loops' = loops \ {l}
    /\ UNCHANGED <<conns, connSem, srcConns, stopping, run, backlog>>

(* Mutant: Run does not wait for the accept loops. *)
DrainAtOnce ==
    /\ run = "serving"
    /\ stopping
    /\ run' = "draining"
    /\ UNCHANGED <<conns, connSem, srcConns, loops, stopping, backlog>>

Drain ==
    /\ run = "serving"
    /\ stopping
    /\ loops = {}
    /\ run' = "draining"
    /\ UNCHANGED <<conns, connSem, srcConns, loops, stopping, backlog>>

(* activeConns.Wait returns, or the drain timeout passes. *)
Return ==
    /\ run = "draining"
    /\ \/ At({"active", "released"}) = {} /\ run' = "drained"
       \/ run' = "timed out"
    /\ UNCHANGED <<conns, connSem, srcConns, loops, stopping, backlog>>

ProxyNext ==
    \/ \E l \in Listener : LoopReturns(l) \/ \E c \in Conn, s \in Source : Accept(l, c, s)
    \/ \E c \in Conn : TakeSlot(c) \/ tryAcquireSrc(c) \/ Refuse(c) \/ releaseSrc(c) \/ ReleaseSlot(c)
    \/ Cancel \/ Drain \/ Return

ProxySpec == ProxyInit /\ [][ProxyNext]_proxyVars

-------------------------------------------------------------------------------
(* The connections with a slot, and those of a source with a handler. *)
Holding == At({"counted", "refused", "active", "released"})

Handled(s) == {c \in At({"active"}) : conns[c].src = s}

(* proxy.go:246 and :668: between the two loops and the handlers no slot is   *)
(* lost, given back twice, or kept for a source whose connections have all    *)
(* ended: every slot of connSem belongs to one connection that is being       *)
(* admitted, refused or handled, and srcConns counts exactly the handlers of  *)
(* each source, both within their limits and without empty counters.         *)
SlotsBalanced ==
    /\ connSem = Cardinality(Holding) /\ connSem <= MaxConns
    /\ DOMAIN srcConns = {conns[c].src : c \in At({"active"})}
    /\ \A s \in DOMAIN srcConns :
          srcConns[s] = Cardinality(Handled(s)) /\ srcConns[s] <= MaxConnsPerSrc

(* proxy.go:155 "On shutdown it waits for in-flight connections to drain": when *)
(* Run reports that all connections are drained, none is being handled or can  *)
(* still get a handler.                                                         *)
DrainsAll == run = "drained" => loops = {} /\ \A c \in Conn : conns[c] = NoConn
===============================================================================
