------------------------------- MODULE MCVolumes -------------------------------
(* Alone: one pod, one volume whose key may be replaced in the store, and a  *)
(* restart of the daemon.  Pair: one pod that writes two volumes; Full: the  *)
(* same where only one may be open.  Rivals: two pods, one of which writes,  *)
(* on one device.                                                            *)
EXTENDS Volumes

CONSTANTS a, b, disk, spare

MCMutable(k) == k = "rw"

OnlyA(blobs) == [p \in {a, b} |-> IF p = a THEN blobs ELSE {}]

Alone == [maxMounts |-> 1, confirmGone |-> 2, restarts |-> 1,
          volumes |-> {disk}, blobs |-> OnlyA({"ro", "rw"})]

Pair == [maxMounts |-> 2, confirmGone |-> 2, restarts |-> 0,
         volumes |-> {disk, spare}, blobs |-> OnlyA({"rw"})]

Full == [Pair EXCEPT !.maxMounts = 1]

Rivals == [maxMounts |-> 2, confirmGone |-> 1, restarts |-> 0, volumes |-> {disk},
           blobs |-> [p \in {a, b} |-> IF p = a THEN {"rw"} ELSE {"ro"}]]

MCScenes == {Alone, Pair, Full, Rivals}
================================================================================
