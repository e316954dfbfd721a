---------------------------- MODULE MCSecretRelease ----------------------------
(* Two replicas of one workload race for one secret; or one of two workloads *)
(* has a quota of one path, wants two, and depends on the other to create    *)
(* the second.  The grants may be narrowed or withdrawn.                     *)
EXTENDS SecretRelease, TLC

CONSTANTS a, b, api, db, w, x

Replicas == [entryOf |-> (a :> w) @@ (b :> w), wanted |-> (a :> <<db>>) @@ (b :> <<db>>)]

Workloads == [entryOf |-> (a :> w) @@ (b :> x), wanted |-> (a :> <<api, db>>) @@ (b :> <<db>>)]

MCScenes == {Replicas, Workloads}

Grants(read) == LET g == [read |-> read, write |-> {api, db}] IN (w :> g) @@ (x :> g)

MCDocs == {Grants({api, db}), Grants({api}), <<>>}
===============================================================================
