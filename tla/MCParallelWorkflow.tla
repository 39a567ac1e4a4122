-------------------------- MODULE MCParallelWorkflow --------------------------
(***************************************************************************)
(* An instance of ParallelWorkflow for TLC: two steps, one of which may be *)
(* attempted twice.                                                        *)
(***************************************************************************)
EXTENDS ParallelWorkflow, TLC

Retried == CHOOSE s \in Step : TRUE
MCAttempts == [s \in Step |-> IF s = Retried THEN 2 ELSE 1]
=============================================================================
