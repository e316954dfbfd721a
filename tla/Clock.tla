--------------------------------- MODULE Clock ---------------------------------
(* time.Now() of the CDS process, in ticks: what the TTLs of its stores are   *)
(* measured against.                                                          *)
EXTENDS Integers

CONSTANT MaxTime           \* bound: the clock stops here

ASSUME ClockAssumption == MaxTime \in Nat

VARIABLE now

ClockInit == now = 0

Advance == now < MaxTime /\ now' = now + 1
================================================================================
