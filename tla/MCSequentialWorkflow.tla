------------------------ MODULE MCSequentialWorkflow ------------------------
(***************************************************************************)
(* Instances of SequentialWorkflow for TLC.                                *)
(***************************************************************************)
EXTENDS SequentialWorkflow, TLC

CONSTANTS build, deploy,               \* plan steps
          repository, cluster,         \* resources
          writer, expert,              \* executor roles
          critic, auditor,             \* reviewer roles
          c1, c2                       \* execute processes

OneStep == {build}
TwoSteps == {build, deploy}

NoDependencies == [s \in Step |-> {}]
DeployNeedsBuild == [s \in Step |-> IF s = deploy THEN {build} ELSE {}]

(* Both steps write the repository; deploy locks the cluster as well.      *)
Keys == [s \in Step |-> IF s = deploy THEN {repository, cluster} ELSE {repository}]

TwoReviewers == [s \in Step |-> IF s = build THEN {critic, auditor} ELSE {}]
OneReviewer == [s \in Step |-> IF s = build THEN {critic} ELSE {}]
BuildReviews(n) == [s \in Step |-> IF s = build THEN n ELSE 0]
NeedTwo == BuildReviews(2)
NeedOne == BuildReviews(1)

Retrying == [on_failed |-> "retry", on_blocked |-> "retry", on_changes |-> "retry",
             on_exhausted |-> "ask", on_limit |-> "off"]
Escalating == [on_failed |-> "escalate", on_blocked |-> "escalate", on_changes |-> "escalate",
               on_exhausted |-> "halt", on_limit |-> "ask"]
Halting == [on_failed |-> "halt", on_blocked |-> "halt", on_changes |-> "halt",
            on_exhausted |-> "fail", on_limit |-> "halt"]

AllPolicies == {Retrying, Escalating, Halting}
RetryingOnly == {Retrying}
EscalatingOnly == {Escalating}

(* The execute processes are interchangeable.                              *)
ProcessSymmetry == Permutations(Coordinator)
=============================================================================
