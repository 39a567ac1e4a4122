------------------------- MODULE MCClusterOperation -------------------------
(***************************************************************************)
(* An instance of ClusterOperation for TLC.                                *)
(***************************************************************************)
EXTENDS ClusterOperation, TLC

CONSTANTS p1, p2                        \* processes that visit

Actions(d, m, f) == [dry_runs |-> d, mutations |-> m, forwards |-> f]

(* Two mutations, a mutation with a port forward, two port forwards alone, *)
(* dry runs alone, and a mutation that lacks its dry run.                  *)
Manifests ==
    {Actions(1, 2, 0), Actions(1, 1, 1), Actions(0, 0, 2), Actions(2, 0, 0), Actions(0, 1, 0)}
=============================================================================
