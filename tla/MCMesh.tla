--------------------------------- MODULE MCMesh ---------------------------------
(***************************************************************************)
(* One node: the three stateful parts of ratls-mesh, the packet filter     *)
(* kept by iptables-sync and in the proxy the accept loops and the pod     *)
(* resolver; and before them the boot that gives the node its role.  They  *)
(* share no memory, so each behaviour follows one of them and leaves the   *)
(* others in their initial state.                                          *)
(***************************************************************************)
EXTENDS MeshGuard, MeshProxy, PodResolver, NodeBoot

CONSTANTS x, y

VARIABLE part                \* the part this behaviour follows

meshVars == <<part, guardVars, proxyVars, resolverVars, bootVars>>

MeshInit ==
    /\ part \in {"guard", "proxy", "resolver", "boot"}
    /\ GuardInit
    /\ part # "guard" => scene = (CHOOSE s \in Scenes : TRUE) /\ limit = CHOOSE n \in Limits : TRUE
    /\ ProxyInit
    /\ ResolverInit
    /\ BootInit

MeshNext ==
    \/ part = "guard" /\ GuardNext /\ UNCHANGED <<part, proxyVars, resolverVars, bootVars>>
    \/ part = "proxy" /\ ProxyNext /\ UNCHANGED <<part, guardVars, resolverVars, bootVars>>
    \/ part = "resolver" /\ ResolverNext /\ UNCHANGED <<part, guardVars, proxyVars, bootVars>>
    \/ part = "boot" /\ BootNext /\ UNCHANGED <<part, guardVars, proxyVars, resolverVars>>

(* iptables-sync's two goroutines run. *)
MeshFairness ==
    /\ WF_guardVars(part = "guard" /\ Process)
    /\ WF_guardVars(part = "guard" /\ runJumpWatchdog)

MeshSpec == MeshInit /\ [][MeshNext]_meshVars /\ MeshFairness

---------------------------------------------------------------------------
(* A guard for two addresses, a proxy with three connections of two sources, *)
(* a resolver for two pods on two addresses, one of them local.              *)

MCPods == {[cw |-> TRUE, local |-> TRUE], [cw |-> FALSE, local |-> FALSE]}

(* Two addresses and sets that overflow; displaced jumps; crashes at any step *)
(* and replacements with another capacity.                                     *)
MCScenes == {[ips |-> {x, y}, kubeProxy |-> FALSE, changes |-> 2, faults |-> 0],
             [ips |-> {x}, kubeProxy |-> TRUE, changes |-> 1, faults |-> 1],
             [ips |-> {x}, kubeProxy |-> FALSE, changes |-> 1, faults |-> 2]}

(* A cluster with an agent, a server that finds its own address and one with  *)
(* an initial allowlist; SNP and TDX.                                          *)
SNP == [family |-> "snp", variants |-> {2, 4}]

MCBundles ==
    {[manifest |-> SNP, vcpus |-> 4, address |-> "10.0.0.1", workloads |-> "none", agents |-> <<"a1">>],
     [manifest |-> SNP, vcpus |-> 0, address |-> "10.0.0.1", workloads |-> "none", agents |-> <<>>],
     [manifest |-> [family |-> "tdx", variants |-> {0}], vcpus |-> 0, address |-> "", workloads |-> "own",
      agents |-> <<>>],
     [manifest |-> SNP, vcpus |-> 2, address |-> "", workloads |-> "replaces-component", agents |-> <<>>]}
=================================================================================
