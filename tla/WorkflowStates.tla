--------------------------- MODULE WorkflowStates ---------------------------
(***************************************************************************)
(* The transition tables of workflow.py: what a run, a plan step and a     *)
(* dispatch may become.  Every handler of the dispatcher moves a record    *)
(* through transition_run, transition_step or transition_dispatch, which   *)
(* refuse a target that is not in the table.                               *)
(***************************************************************************)
EXTENDS Naturals

RunStates ==
    {"NEW", "READY", "RUNNING", "WAITING_OPERATOR",
     "HALTED", "FAILED", "SUCCEEDED", "CANCELLED"}

RunTransitions ==
    [r \in RunStates |->
        CASE r = "NEW" -> {"READY", "WAITING_OPERATOR", "FAILED", "CANCELLED"}
          [] r = "READY" -> {"RUNNING", "WAITING_OPERATOR", "HALTED", "FAILED", "CANCELLED"}
          [] r = "RUNNING" -> {"WAITING_OPERATOR", "HALTED", "FAILED", "SUCCEEDED", "CANCELLED"}
          [] r = "WAITING_OPERATOR" -> {"READY", "RUNNING", "HALTED", "FAILED", "CANCELLED"}
          [] OTHER -> {}]

TerminalRunStates == {r \in RunStates : RunTransitions[r] = {}}

StepStates ==
    {"PENDING", "READY", "EXECUTING", "EXECUTED", "REVIEW_REQUIRED", "REVIEWING",
     "ACCEPTED", "CHANGES_REQUESTED", "BLOCKED", "WAIVED", "FAILED"}

StepTransitions ==
    [s \in StepStates |->
        CASE s = "PENDING" -> {"READY", "WAIVED"}
          [] s = "READY" -> {"EXECUTING", "BLOCKED", "WAIVED", "FAILED"}
          [] s = "EXECUTING" -> {"EXECUTED", "BLOCKED", "FAILED"}
          [] s = "EXECUTED" -> {"REVIEW_REQUIRED", "ACCEPTED"}
          [] s = "REVIEW_REQUIRED" -> {"REVIEWING", "BLOCKED", "FAILED"}
          [] s = "REVIEWING" ->
                {"ACCEPTED", "CHANGES_REQUESTED", "BLOCKED", "FAILED", "REVIEW_REQUIRED"}
          [] s = "CHANGES_REQUESTED" -> {"READY", "REVIEW_REQUIRED", "BLOCKED", "FAILED"}
          [] s = "BLOCKED" -> {"READY", "WAIVED", "FAILED"}
          [] OTHER -> {}]

(* "NONE" stands for a dispatch the run record does not hold yet. *)
DispatchStates ==
    {"NONE", "PREPARED", "RUNNING", "COMPLETED", "FORWARDED",
     "ACKNOWLEDGED", "FAILED", "ABANDONED"}

DispatchTransitions ==
    [d \in DispatchStates |->
        CASE d = "NONE" -> {"PREPARED"}
          [] d = "PREPARED" -> {"RUNNING", "ABANDONED"}
          [] d = "RUNNING" -> {"COMPLETED", "FAILED", "ABANDONED"}
          [] d = "COMPLETED" -> {"FORWARDED"}
          [] d = "FORWARDED" -> {"ACKNOWLEDGED", "ABANDONED"}
          [] OTHER -> {}]

(* A worker may still be at work for these dispatches. *)
InFlightStates == {"PREPARED", "RUNNING"}

ActiveDispatchStates == {"PREPARED", "RUNNING", "COMPLETED", "FORWARDED"}

(* The states that satisfy a dependency and the completion guard. *)
SettledStepStates == {"ACCEPTED", "WAIVED"}
=============================================================================
