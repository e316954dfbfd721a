-------------------------------- MODULE MCNode --------------------------------
(* The two sides that share the admission inventory: the plugin that fills   *)
(* it, and the attestations that read it.  `side' fixes which one a          *)
(* behaviour follows; the other keeps its first state.                       *)
EXTENDS NriPlugin, CdsAttest, TLC

CONSTANTS a, i, k, j, p, q, img, aux, w, c8s, n1, n2, n3, r1, r2, r3

VARIABLE side

(* A pod p of one main container a, one init container i of the same image,  *)
(* known to the runtime by a tag, and one sidecar k; and a pod q that is j   *)
(* alone, a sidecar, which holds host privilege on the plugin's node.        *)
MCSandboxOf == (a :> p) @@ (i :> p) @@ (k :> p) @@ (j :> q)

MCImageOf == (a :> img) @@ (i :> img) @@ (k :> aux) @@ (j :> aux)

MCDocs == {{a}, {a, i}}

(* A node that joined a running cluster: j is exempt and was there before. *)
Joined == [ctrs |-> {a, i, j}, audit |-> FALSE, enforceExisting |-> TRUE, fatalExisting |-> FALSE, pull |-> TRUE,
           base |-> {}, exempt |-> {j}, early |-> {j}, maxPulls |-> 1, maxCrashes |-> 1]

(* The measured node image: nothing may run before the plugin. *)
Measured == [Joined EXCEPT !.ctrs = {a, j}, !.fatalExisting = TRUE, !.base = {a, j}, !.exempt = {}, !.early = {a},
                           !.maxPulls = 2, !.maxCrashes = 2]

(* A roll-out that only reports. *)
Audited == [Joined EXCEPT !.audit = TRUE, !.enforceExisting = FALSE, !.early = {}, !.maxCrashes = 0]

MCConfigs == {Joined, Measured, Audited}

Sidecars == [main |-> {k, j}, init |-> {}]

Fuller == (w :> [main |-> {a}, init |-> {i}]) @@ (c8s :> Sidecars)

Edited == {Fuller, (w :> [main |-> {a}, init |-> {}]) @@ (c8s :> Sidecars)}

(* Two sidecars in two pods, with two challenges and two requests in flight. *)
TwoPods == [ctrs |-> {k, j}, nonces |-> {n1, n2}, reqs |-> {r1, r2},
            docs |-> {c8s :> Sidecars}, versions |-> 1, tokens |-> 2, restarts |-> 0]

(* The same, with one challenge, while the plugin or CDS restarts. *)
Restarted == [TwoPods EXCEPT !.nonces = {n1}, !.restarts = 1]

(* One request while its pod changes and the operator edits the allowlist. *)
OnePod == [ctrs |-> {a, i, k}, nonces |-> {n3}, reqs |-> {r3},
           docs |-> Edited, versions |-> 2, tokens |-> 1, restarts |-> 1]

MCScenes == {TwoPods, Restarted, OnePod}

NodeInit ==
    /\ side \in {"plugin", "attest"}
    /\ PluginInit /\ AttestInit
    /\ side = "plugin" => scene = TwoPods
    /\ side = "attest" => config = Audited
    /\ scene = OnePod => docs = <<Fuller>>

notPlugin == <<running, epoch, cds, issued, tokens, restarts, scene, side>>
notAttest == <<runtime, process, disk, crashes, config, side>>

NodeNext ==
    \/ side = "plugin" /\ PluginNext /\ UNCHANGED notPlugin
    \/ side = "attest" /\ AttestNext /\ UNCHANGED notAttest

NodeSpec == NodeInit /\ [][NodeNext]_<<pluginVars, attestVars, side>>
===============================================================================
