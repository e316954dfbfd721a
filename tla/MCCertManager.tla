---------------------------- MODULE MCCertManager ----------------------------
(***************************************************************************)
(* A proxy with one manager and handshakes, over a CDS restart and over a  *)
(* CA rotation that links the two CAs; and one with both managers after    *)
(* their upgrade, which share the client and its trust, over a restart.    *)
(***************************************************************************)
EXTENDS CertManager

MCSigned == {<<"c1", "c2">>}

Restarted == << <<"c1">>, <<"c3">> >>

Rotated == << <<"c1">>, <<"c2", "c1">> >>

Steady == << <<"c1">> >>

MCHistories == {Steady, Restarted, Rotated}

MCScenes ==
    {[managers |-> {"server"}, upgraded |-> FALSE, handshakes |-> TRUE, history |-> h] :
        h \in {Restarted, Rotated}}
    \union {[managers |-> {"server", "client"}, upgraded |-> FALSE, handshakes |-> FALSE,
             history |-> Steady]}
    \union {[managers |-> {"server", "client"}, upgraded |-> TRUE, handshakes |-> FALSE,
             history |-> Restarted]}

FairSpec == ManagerSpec /\ ManagerFairness
==============================================================================
