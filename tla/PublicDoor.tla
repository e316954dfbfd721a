------------------------------- MODULE PublicDoor -------------------------------
(***************************************************************************)
(* The router pod's public door and those who come to it: the attestation  *)
(* sidecar's credentials beside get-cert, which writes them; its sessions; *)
(* an operator's `c8s verify`; and at a node's own door, the credential    *)
(* service, an operator's `c8s get-kubeconfig`.  Each behaviour follows    *)
(* one of the four, chosen at the start: the first two meet in             *)
(* handleAttestPQ and in its answer, which FrontDoor's client reads; the   *)
(* commands share nothing with them but what they are told.                *)
(***************************************************************************)
EXTENDS FrontDoor, AttestSessions, VerifyCli, CredRelease

doorVars == <<getcertVars, frontDoorVars, sessionVars, verifyVars, credVars>>

DoorInit ==
    /\ GetCertInit /\ FrontDoorInit /\ SessionsInit
    /\ desk = "closed" \/ door = Shut
    /\ (getcert.at = "absent") <=> (desk = "closed")
    /\ IF desk = "closed" /\ door = Shut
       THEN (VerifyInit /\ CredIdle) \/ (VerifyIdle /\ CredInit)
       ELSE VerifyIdle /\ CredIdle

DoorNext ==
    \/ desk # "closed" /\ BesideGetCert /\ UNCHANGED <<sessionVars, verifyVars, credVars>>
    \/ door # Shut /\ SessionsNext /\ UNCHANGED <<getcertVars, frontDoorVars, verifyVars, credVars>>
    \/ cli # NotRun /\ VerifyNext /\ UNCHANGED <<getcertVars, frontDoorVars, sessionVars, credVars>>
    \/ kc # KcShut /\ CredNext /\ UNCHANGED <<getcertVars, frontDoorVars, sessionVars, verifyVars>>

DoorSpec == DoorInit /\ [][DoorNext]_doorVars

-------------------------------------------------------------------------------
(* Guests of the manifest's image and of another, launched for this operator  *)
(* and for another, one with the wrong key staged; command lines at the edges *)
(* of the clock skew, with the legacy endpoint and with a workload to expect. *)

AGuest(p, d, k, s) == [platform |-> p, digest |-> d, key |-> k, staged |-> s]

MCGuests ==
    {AGuest("tdx", 1, "mine", "mine"), AGuest("tdx", 1, "other", "other"), AGuest("tdx", 2, "mine", "mine"),
     AGuest("tdx", 1, "other", "mine"), AGuest("snp", 4, "mine", "mine")}

Flags(p, ds, ws, r, l, a) ==
    [key |-> "mine", platform |-> p, digests |-> ds, workloads |-> ws, role |-> r, legacy |-> l, ahead |-> a]

MCKcConfigs ==
    {Flags("tdx", {1}, <<>>, "log-reader", TRUE, 0), Flags("tdx", {1}, <<"w">>, "", FALSE, 60),
     Flags("snp", {3, 4}, <<>>, "operator", FALSE, -119), Flags("snp", {3, 4}, <<"w">>, "", FALSE, 0)}

MCStray == {[key |-> "mine", iat |-> 60, exp |-> 360], [key |-> "other", iat |-> 0, exp |-> 301]}
================================================================================
