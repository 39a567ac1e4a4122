---------------------- MODULE ClusterOperationContract ----------------------
(***************************************************************************)
(* What a cluster operation promises about the releases of its manifest.   *)
(*                                                                         *)
(* An operation is open until its first mutation may reach the cluster,    *)
(* and then working until it has a verdict.  A verdict other than          *)
(* "reconciliation" is a statement about every release, and it stays true: *)
(* nothing touches the cluster after it.                                   *)
(***************************************************************************)
VARIABLES
    goal,       \* the releases of the manifest
    phase,      \* the verdict on the operation
    changed     \* the releases that are in their new version

Verdicts == {"failed", "succeeded", "rolled_back", "reconciliation"}

Init ==
    /\ phase = "open"
    /\ changed = {}

(* The first mutation, or the first port forward, is about to start.       *)
Begin ==
    /\ phase = "open"
    /\ phase' = "working"
    /\ UNCHANGED changed

(* The cluster moves while a command is under way.  A command that was     *)
(* lost may still take effect after the owner was asked to reconcile.      *)
Move ==
    /\ phase \in {"working", "reconciliation"}
    /\ \E r \in goal : changed' \in {changed \cup {r}, changed \ {r}}
    /\ UNCHANGED phase

Decide ==
    /\ phase \in {"open", "working"}
    /\ phase' \in Verdicts
    /\ phase' = "failed" => changed = {}
    /\ phase' = "succeeded" => phase = "working" /\ changed = goal
    /\ phase' = "rolled_back" => phase = "working" /\ changed = {}
    /\ UNCHANGED changed

Next == (Begin \/ Move \/ Decide) /\ UNCHANGED goal

Spec == Init /\ [][Next]_<<goal, phase, changed>>
=============================================================================
