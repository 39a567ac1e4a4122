------------------------- MODULE SequentialWorkflow -------------------------
(***************************************************************************)
(* One run of a plan under execution.scheduling = "sequential".            *)
(*                                                                         *)
(* The actors are the processes of the command line: `execute' processes   *)
(* (Coordinator), one `recover' process, the operator's `answer' and       *)
(* `cancel', and the worker processes that coordinators launch.  They      *)
(* share the durable run record, the leases and the invocation journal,    *)
(* all in SQLite.  A process that saves the record names the generation it *)
(* read; the save is refused when another process saved in between.  The   *)
(* generation is abstracted to coord[c].fresh: the generation c holds is   *)
(* the durable one.                                                        *)
(*                                                                         *)
(* Sources: execution.py, sequential.py, state_store.py, workflow.py and   *)
(* the recover command of cli.py.  One action is one durable write with    *)
(* the local decisions that lead to it; crashes fall between actions.      *)
(***************************************************************************)
EXTENDS WorkflowStates, FiniteSets

CONSTANTS
    Coordinator,          \* processes running the execute command
    Step,                 \* steps of the approved plan
    DependsOn,            \* [Step -> SUBSET Step], required inputs included
    Gated,                \* steps that require operator approval
    Resource,             \* resource keys of leases other than the run lease
    LeaseKeys,            \* [Step -> SUBSET Resource]
    ExecutorRole,         \* roles that may execute a step
    EscalationRole,       \* the executor role named by escalation requests
    Reviewers,            \* [Step -> set of roles obliged to review it]
    RequiredAcceptances,  \* [Step -> Nat]
    Waivable,             \* steps whose review obligation may be waived
    MaxExecutorAttempts, MaxReviewerAttempts, MaxReworkRounds, MaxStallRetries,
    RetryPolicies,        \* the retry, stall and budget policies considered
    Recovery,             \* the recover process as an owner of the run lease
    Orphan,               \* an owner that no longer runs
    None

RetryPolicy ==
    [on_failed : {"retry", "escalate", "halt"},
     on_blocked : {"retry", "escalate", "halt"},
     on_changes : {"retry", "escalate", "halt"},
     on_exhausted : {"ask", "halt", "fail"},
     on_limit : {"off", "ask", "halt"}]        \* "off": budget.enabled is false

Role == ExecutorRole \cup UNION {Reviewers[s] : s \in Step}

ASSUME PlanAssumption ==
    /\ DependsOn \in [Step -> SUBSET Step]
    /\ Gated \subseteq Step
    /\ LeaseKeys \in [Step -> SUBSET Resource]
    /\ Waivable \subseteq Step

ASSUME RoleAssumption ==
    /\ EscalationRole \in ExecutorRole
    /\ DOMAIN Reviewers = Step
    /\ RequiredAcceptances \in [Step -> Nat]

ASSUME ReviewAssumption ==
    \A s \in Step :
        /\ IsFiniteSet(Reviewers[s])
        /\ RequiredAcceptances[s] <= Cardinality(Reviewers[s])
        /\ (Reviewers[s] = {}) <=> (RequiredAcceptances[s] = 0)

ASSUME BoundAssumption ==
    /\ MaxExecutorAttempts \in Nat \ {0}
    /\ MaxReviewerAttempts \in Nat
    /\ MaxReworkRounds \in Nat
    /\ MaxStallRetries \in Nat

ASSUME PolicyAssumption == RetryPolicies \subseteq RetryPolicy

(* A dispatch is named by its step, its kind and its attempt: preparing a  *)
(* dispatch bumps the attempt counter in the same save.                    *)
Dispatch ==
    [step : Step, kind : {"executor"}, attempt : 1..MaxExecutorAttempts]
        \cup [step : Step, kind : {"reviewer"}, attempt : 1..MaxReviewerAttempts]

ASSUME OwnerAssumption ==
    /\ {Recovery, Orphan, None} \cap Coordinator = {}
    /\ Recovery # Orphan /\ Recovery # None /\ Orphan # None

ASSUME NoneAssumption == None \notin Dispatch \cup Step \cup Role

(* A journal row belongs to a supervisor turn or to a worker, never to both. *)
ASSUME JournalAssumption == Coordinator \cap Dispatch = {}

RequestKinds ==
    {"risk_gate", "escalation", "review_waiver", "stall_recovery",
     "underspecification", "budget", "reconciliation"}

NoRequest == [kind |-> "none", step |-> None, dispatch |-> None]

FailureCategories ==
    {"none", "other", "result_validation",
     "authoritative_verification", "acceptance_verification"}

(* The program counter of an execute process.                              *)
CoordinatorStates ==
    {"down",
     \* run_to_completion before its first turn
     "resuming", "activating", "starting", "verify_retry",
     \* a supervisor turn and the command it returns
     "turn", "supervising", "acknowledging", "refreshing", "command",
     \* prepare_dispatch and the launch of the worker
     "leased", "launching", "launched", "marked", "working", "erring",
     \* the result of the worker
     "ended", "completed", "escalating", "releasing", "budget", "reworked",
     "rechecking",
     \* fail_dispatch
     "failing", "rejecting", "failed_prepared", "failed_running", "failed_step",
     "unleasing",
     \* handle_stall
     "stalling", "stalled", "stalled_step", "stall_releasing", "stall_retry",
     \* record_reviewer_result_validation_failure
     "invalidating", "invalidated", "invalid_step", "review_retry",
     "exit"}

VARIABLES
    run,            \* RunRecord.state
    request,        \* RunRecord.operator_request
    policy,         \* the retry, stall and budget policy of the run
    steps,          \* RunRecord.steps
    dispatches,     \* RunRecord.dispatches with their payloads
    leases,         \* resource key -> holder
    runLease,       \* holder of the run lease
    runLeaseStale,  \* its heartbeat is older than lease_stale_after_seconds
    invocations,    \* PREPARED rows of the invocation journal
    workers,        \* dispatches whose worker process is alive
    coord,          \* the execute processes
    recover         \* the recover process

record == <<run, request, steps, dispatches>>
locks == <<leases, runLease, runLeaseStale>>
processes == <<invocations, workers>>
vars == <<record, policy, locks, processes, coord, recover>>
-----------------------------------------------------------------------------
StepRecord ==
    [state : StepStates, executor_attempts : Nat, reviewer_attempts : Nat,
     active : Dispatch \cup {None},
     review_acceptances : Nat, accepted_reviewers : SUBSET Role,
     evidence : BOOLEAN,                 \* accepted_artifact_ids cover the plan
     rework_rounds : Nat, stalls : Nat,
     reassigned : BOOLEAN,               \* reassignment_role_key is set
     gate_resolved : BOOLEAN,
     review_waived : BOOLEAN]            \* review_waiver_decision_ref is set

DispatchRecord ==
    [state : DispatchStates, role : Role \cup {None}, category : FailureCategories,
     target : Nat,                       \* executor attempt a reviewer judges
     result : BOOLEAN,                   \* the result payload is durable
     cancel_requested : BOOLEAN]         \* read, and kept, only while RUNNING

LeaseHolder == [owner : Coordinator \cup {Orphan}, dispatch : Dispatch]

(* A resource that nobody holds has no holder recorded.                    *)
ASSUME HolderAssumption == None \notin LeaseHolder

(* Where an execute process needs no dispatch of its own.                  *)
Undispatched ==
    {"down", "resuming", "activating", "starting", "verify_retry", "turn", "supervising",
     "refreshing", "command", "rechecking", "review_retry", "exit"}

RunTypeOK ==
    /\ run \in RunStates
    /\ request \in [kind : RequestKinds \cup {"none"}, step : Step \cup {None},
                    dispatch : Dispatch \cup {None}]
    /\ request.kind \notin {"none", "underspecification"} => request.step # None
    /\ request.kind = "reconciliation" => request.dispatch # None

StepsTypeOK == steps \in [Step -> StepRecord]

DispatchesTypeOK ==
    /\ dispatches \in [Dispatch -> DispatchRecord]
    /\ \A d \in Dispatch : dispatches[d].state # "NONE" => dispatches[d].role # None

LeasesTypeOK ==
    /\ leases \in [Resource -> LeaseHolder \cup {None}]
    /\ runLease \in Coordinator \cup {Recovery, Orphan, None}
    /\ runLeaseStale \in BOOLEAN

ProcessesTypeOK ==
    /\ invocations \subseteq Coordinator \cup Dispatch
    /\ workers \subseteq Dispatch

CoordTypeOK ==
    /\ coord \in [Coordinator ->
                    [pc : CoordinatorStates, dispatch : Dispatch \cup {None},
                     role : Role \cup {None}, fresh : BOOLEAN]]
    /\ \A c \in Coordinator :
        /\ coord[c].pc \notin Undispatched => coord[c].dispatch # None
        /\ coord[c].pc = "leased" => coord[c].role # None

RecoverTypeOK ==
    /\ recover \in [pc : {"idle", "reconciling", "forwarding",
                           "unlocking", "finalizing", "leaving"},
                    dispatch : Dispatch \cup {None},
                    journals : SUBSET (Coordinator \cup Dispatch)]
    /\ recover.pc \in {"reconciling", "forwarding", "unlocking"} => recover.dispatch # None

(* The types, and that whatever names a dispatch, a step or a role at the  *)
(* point where it is needed names one: no handler works on nothing.        *)
TypeOK ==
    /\ RunTypeOK
    /\ StepsTypeOK
    /\ DispatchesTypeOK
    /\ policy \in RetryPolicies
    /\ LeasesTypeOK
    /\ ProcessesTypeOK
    /\ CoordTypeOK
    /\ RecoverTypeOK

Down == [pc |-> "down", dispatch |-> None, role |-> None, fresh |-> FALSE]
Idle == [pc |-> "idle", dispatch |-> None, journals |-> {}]

Init ==
    /\ run = "NEW"
    /\ request = NoRequest
    /\ policy \in RetryPolicies
    /\ steps = [s \in Step |->
                  [state |-> "PENDING", executor_attempts |-> 0, reviewer_attempts |-> 0,
                   active |-> None, review_acceptances |-> 0, accepted_reviewers |-> {},
                   evidence |-> FALSE, rework_rounds |-> 0, stalls |-> 0,
                   reassigned |-> FALSE, gate_resolved |-> s \notin Gated,
                   review_waived |-> FALSE]]
    /\ dispatches = [d \in Dispatch |->
                       [state |-> "NONE", role |-> None, category |-> "none", target |-> 0,
                        result |-> FALSE, cancel_requested |-> FALSE]]
    /\ leases = [r \in Resource |-> None]
    /\ runLease = None
    /\ runLeaseStale = FALSE
    /\ invocations = {}
    /\ workers = {}
    /\ coord = [c \in Coordinator |-> Down]
    /\ recover = Idle
-----------------------------------------------------------------------------
(* Mutant: a save leaves the generation as it is.                          *)
NobodyOutdated == coord

(* Saves.  Whoever saves moves the generation, so every other execute      *)
(* process holds a stale one.                                              *)
Outdated == [c \in Coordinator |-> [coord[c] EXCEPT !.fresh = FALSE]]

Save(c, pc) == coord' = [Outdated EXCEPT ![c] = [@ EXCEPT !.pc = pc, !.fresh = TRUE]]

GoTo(c, pc) == coord' = [coord EXCEPT ![c].pc = pc]

Fresh(c) == coord[c].fresh

ActiveDispatch(d) == dispatches[d].state \in ActiveDispatchStates

(* transition_run to WAITING_OPERATOR, with the question it carries.       *)
Wait(kind, s, d) ==
    /\ "WAITING_OPERATOR" \in RunTransitions[run]
    /\ run' = "WAITING_OPERATOR"
    /\ request' = [kind |-> kind, step |-> s, dispatch |-> d]

(* transition_run to any other state: the question is dropped.             *)
MoveRun(target) ==
    /\ target \in RunTransitions[run]
    /\ run' = target
    /\ request' = NoRequest

(* transition_step: an unnamed active dispatch, reassignment or waiver is  *)
(* cleared.  MayMove says that every transition of a chain is in the table.*)
Moved(s, target) ==
    [steps[s] EXCEPT !.state = target, !.active = None,
                     !.reassigned = FALSE, !.review_waived = FALSE]

MayMove(s, via, target) ==
    /\ via \in StepTransitions[steps[s].state]
    /\ via = target \/ target \in StepTransitions[via]

(* Mutant: a step fails alone.                                             *)
ReplaceStepOnly(s, rec) ==
    /\ steps' = [steps EXCEPT ![s] = rec]
    /\ UNCHANGED <<run, request>>

(* _step_replacement_record: a step that fails takes the run with it.      *)
ReplaceStep(s, rec) ==
    /\ steps' = [steps EXCEPT ![s] = rec]
    /\ IF rec.state = "FAILED"
       THEN MoveRun("FAILED")
       ELSE UNCHANGED <<run, request>>

MoveDispatch(d, target) ==
    /\ target \in DispatchTransitions[dispatches[d].state]
    /\ dispatches' = [dispatches EXCEPT
                        ![d] = [@ EXCEPT !.state = target, !.cancel_requested = FALSE]]

FailDispatch(d, target, category) ==
    /\ target \in DispatchTransitions[dispatches[d].state]
    /\ dispatches' = [dispatches EXCEPT
                        ![d] = [@ EXCEPT !.state = target, !.category = category,
                                         !.cancel_requested = FALSE]]
-----------------------------------------------------------------------------
(* Whether prepare_dispatch accepts a dispatch of this step to this role.  *)
NextDispatch(s, kind) ==
    [step |-> s, kind |-> kind,
     attempt |-> 1 + IF kind = "executor" THEN steps[s].executor_attempts
                                          ELSE steps[s].reviewer_attempts]

LatestExecutor(s) ==
    [step |-> s, kind |-> "executor", attempt |-> steps[s].executor_attempts]

HasReviewTarget(s) ==
    /\ LatestExecutor(s) \in Dispatch
    /\ dispatches[LatestExecutor(s)].state \in {"COMPLETED", "FORWARDED", "ACKNOWLEDGED"}
    /\ dispatches[LatestExecutor(s)].result

(* Mutant: work that only awaits its review satisfies a dependency.        *)
DependenciesExecuted(s) ==
    \A p \in DependsOn[s] : steps[p].state \in SettledStepStates \cup {"REVIEW_REQUIRED"}

DependenciesSettled(s) == \A p \in DependsOn[s] : steps[p].state \in SettledStepStates

(* Mutant: one attempt more than max_executor_attempts.                    *)
ExecutorMayStartAgain(s, role) ==
    /\ role \in ExecutorRole
    /\ steps[s].state = "READY"
    /\ steps[s].reassigned => role = EscalationRole
    /\ steps[s].executor_attempts <= MaxExecutorAttempts

ExecutorMayStart(s, role) ==
    /\ role \in ExecutorRole
    /\ steps[s].state = "READY"
    /\ steps[s].reassigned => role = EscalationRole
    /\ steps[s].executor_attempts < MaxExecutorAttempts

ReviewerMayStart(s, role) ==
    /\ role \in Reviewers[s] \ steps[s].accepted_reviewers
    /\ steps[s].state = "REVIEW_REQUIRED"
    /\ steps[s].reviewer_attempts < MaxReviewerAttempts
    /\ HasReviewTarget(s)

NoActiveDispatch == \A d \in Dispatch : ~ActiveDispatch(d)

CanPrepare(s, kind, role) ==
    /\ run = "RUNNING"
    /\ NoActiveDispatch
    /\ steps[s].gate_resolved
    /\ IF kind = "executor" THEN ExecutorMayStart(s, role) ELSE ReviewerMayStart(s, role)
    /\ DependenciesSettled(s)

(* The first half of prepare_dispatch: the checks and the worker leases.   *)
Acquire(c, s, kind, role) ==
    /\ CanPrepare(s, kind, role)
    /\ \A r \in LeaseKeys[s] : leases[r] = None
    /\ leases' = [r \in Resource |->
                    IF r \in LeaseKeys[s]
                    THEN [owner |-> c, dispatch |-> NextDispatch(s, kind)]
                    ELSE leases[r]]
    /\ coord' = [coord EXCEPT ![c] = [@ EXCEPT !.pc = "leased", !.role = role,
                                             !.dispatch = NextDispatch(s, kind)]]
    /\ UNCHANGED <<record, policy, runLease, runLeaseStale, processes, recover>>

Released(c) ==
    [r \in Resource |->
        IF leases[r] = [owner |-> c, dispatch |-> coord[c].dispatch] THEN None ELSE leases[r]]

(* A process that ends without releasing a lease leaves it behind: the     *)
(* owner string names its process.                                         *)
Abandoned(c) ==
    [r \in Resource |->
        IF leases[r] # None /\ leases[r].owner = c
        THEN [leases[r] EXCEPT !.owner = Orphan] ELSE leases[r]]

(* The second half: one save makes the dispatch PREPARED, or the leases go.*)
CommitPrepared(c) ==
    LET d == coord[c].dispatch
        s == d.step
    IN
    /\ coord[c].pc = "leased"
    /\ Fresh(c)
    /\ dispatches' = [dispatches EXCEPT
                        ![d] = [@ EXCEPT !.state = "PREPARED", !.role = coord[c].role,
                                         !.target = IF d.kind = "executor" THEN 0
                                                    ELSE steps[s].executor_attempts]]
    /\ steps' = [steps EXCEPT ![s] =
                    IF d.kind = "executor"
                    THEN [Moved(s, "EXECUTING") EXCEPT !.active = d,
                                                       !.executor_attempts = d.attempt]
                    ELSE [Moved(s, "REVIEWING") EXCEPT !.active = d,
                                                       !.reviewer_attempts = d.attempt]]
    /\ Save(c, "launching")
    /\ UNCHANGED <<run, request, policy, locks, processes, recover>>

PrepareConflicts(c) ==
    /\ coord[c].pc = "leased"
    /\ ~Fresh(c)
    /\ leases' = Released(c)
    /\ GoTo(c, "exit")
    /\ UNCHANGED <<record, policy, runLease, runLeaseStale, processes, recover>>
-----------------------------------------------------------------------------
(* Mutant: a run with unresolved dispatches may be started.                *)
StartUnresolved(c) ==
    /\ coord[c].pc = "down"
    /\ run \in {"NEW", "READY", "RUNNING"}
    /\ runLease = None
    /\ runLease' = c
    /\ runLeaseStale' = FALSE
    /\ coord' = [coord EXCEPT ![c] =
                    [pc |-> "resuming", dispatch |-> None, role |-> None, fresh |-> TRUE]]
    /\ UNCHANGED <<record, policy, leases, processes, recover>>

(* execute: validate_real_operation_prerequisites and acquire_run.  A run  *)
(* lease that is held, stale or not, is refused: only recover takes over.  *)
Start(c) ==
    /\ coord[c].pc = "down"
    /\ run \in {"NEW", "READY", "RUNNING"}
    /\ NoActiveDispatch
    /\ runLease = None
    /\ runLease' = c
    /\ runLeaseStale' = FALSE
    /\ coord' = [coord EXCEPT ![c] =
                    [pc |-> "resuming", dispatch |-> None, role |-> None, fresh |-> TRUE]]
    /\ UNCHANGED <<record, policy, leases, processes, recover>>

(* A step of run_to_completion that finds its generation stale raises.     *)
StaleSteps == {"resuming", "activating", "starting", "verify_retry", "turn",
               "acknowledging", "refreshing", "command",
               "completed", "escalating", "rechecking",
               "stalled", "stalled_step", "stall_retry", "review_retry"}

StopStale(c) ==
    /\ coord[c].pc \in StaleSteps
    /\ ~Fresh(c)
    /\ GoTo(c, "exit")
    /\ UNCHANGED <<record, policy, locks, processes, recover>>

(* prepare_pending_reviewer_result_validation_retry.  Only the latest      *)
(* malformed response of a step is looked at.                              *)
MalformedReviews ==
    {d \in Dispatch :
        /\ d.kind = "reviewer"
        /\ dispatches[d].state \in {"FAILED", "ABANDONED"}
        /\ dispatches[d].category = "result_validation"
        /\ steps[d.step].state = "REVIEW_REQUIRED"}

LatestMalformedReview(d) ==
    /\ d \in MalformedReviews
    /\ \A e \in MalformedReviews : e.step = d.step => e.attempt <= d.attempt

StillReviewable(d) ==
    /\ d.attempt = steps[d.step].reviewer_attempts
    /\ dispatches[d].role \in Reviewers[d.step] \ steps[d.step].accepted_reviewers
    /\ NoActiveDispatch
    /\ HasReviewTarget(d.step)
    /\ dispatches[d].target = steps[d.step].executor_attempts

ReviewRetryExhausted(d) ==
    \/ steps[d.step].reviewer_attempts >= MaxReviewerAttempts
    \/ steps[d.step].stalls >= MaxStallRetries

AtReviewRetry(c) == coord[c].pc \in {"resuming", "review_retry"} /\ Fresh(c)

NoReviewRetry(c) ==
    /\ AtReviewRetry(c)
    /\ MalformedReviews = {}
    /\ GoTo(c, "activating")
    /\ UNCHANGED <<record, policy, locks, processes, recover>>

RetryReview(c) ==
    /\ AtReviewRetry(c)
    /\ \E d \in MalformedReviews :
        /\ LatestMalformedReview(d)
        /\ StillReviewable(d)
        /\ ~ReviewRetryExhausted(d)
        /\ Acquire(c, d.step, "reviewer", dispatches[d].role)

ExhaustReviewRetry(c) ==
    /\ AtReviewRetry(c)
    /\ run = "RUNNING"
    /\ \E d \in MalformedReviews :
        /\ LatestMalformedReview(d)
        /\ StillReviewable(d)
        /\ ReviewRetryExhausted(d)
        /\ \/ /\ policy.on_exhausted = "ask"
              /\ Wait("stall_recovery", d.step, d)
              /\ UNCHANGED steps
           \/ /\ policy.on_exhausted = "halt"
              /\ MoveRun("HALTED")
              /\ UNCHANGED steps
           \/ /\ policy.on_exhausted = "fail"
              /\ ReplaceStep(d.step, Moved(d.step, "FAILED"))
    /\ Save(c, "exit")
    /\ UNCHANGED <<dispatches, policy, locks, processes, recover>>

(* The retry is refused: the attempt is not current any more, a lease is   *)
(* taken, or the repository or the prompt is not what it was.              *)
RefuseReviewRetry(c) ==
    /\ AtReviewRetry(c)
    /\ run = "RUNNING"
    /\ \E d \in MalformedReviews :
        /\ LatestMalformedReview(d)
        /\ Wait("reconciliation", d.step, d)
    /\ Save(c, "exit")
    /\ UNCHANGED <<steps, dispatches, policy, locks, processes, recover>>
-----------------------------------------------------------------------------
(* Mutant: a refresh reopens blocked steps.                                *)
NewlyReadyOrBlocked ==
    {s \in Step : /\ steps[s].state \in {"PENDING", "BLOCKED"}
                  /\ steps[s].gate_resolved
                  /\ DependenciesSettled(s)}

(* refresh_readiness, on activation and after an acknowledgement.          *)
NewlyReady ==
    {s \in Step : /\ steps[s].state = "PENDING"
                  /\ steps[s].gate_resolved
                  /\ DependenciesSettled(s)}

RefreshReadiness(c) ==
    /\ coord[c].pc \in {"activating", "refreshing"}
    /\ Fresh(c)
    /\ LET next == IF coord[c].pc = "activating" THEN "starting" ELSE "command" IN
       IF NewlyReady = {}
       THEN GoTo(c, next) /\ UNCHANGED steps
       ELSE /\ steps' = [s \in Step |->
                            IF s \in NewlyReady THEN Moved(s, "READY") ELSE steps[s]]
            /\ Save(c, next)
    /\ UNCHANGED <<run, request, dispatches, policy, locks, processes, recover>>

(* activate: NEW to READY to RUNNING, a save each.                         *)
ActivateRun(c) ==
    /\ coord[c].pc = "starting"
    /\ Fresh(c)
    /\ run \in {"NEW", "READY"}
    /\ MoveRun(IF run = "NEW" THEN "READY" ELSE "RUNNING")
    /\ Save(c, "starting")
    /\ UNCHANGED <<steps, dispatches, policy, locks, processes, recover>>

RunActivated(c) ==
    /\ coord[c].pc = "starting"
    /\ Fresh(c)
    /\ run = "RUNNING"
    /\ GoTo(c, "verify_retry")
    /\ UNCHANGED <<record, policy, locks, processes, recover>>

(* prepare_pending_verification_retry: rework whose checks failed is sent  *)
(* back before the supervisor is asked, to the role that produced it.      *)
FailedChecks ==
    {d \in Dispatch :
        /\ dispatches[d].state = "FAILED"
        /\ dispatches[d].category \in {"authoritative_verification", "acceptance_verification"}
        /\ steps[d.step].state = "READY"
        /\ d.attempt = IF d.kind = "executor" THEN steps[d.step].executor_attempts
                                              ELSE steps[d.step].reviewer_attempts}

(* A failed executor attempt is later than the review of an earlier one.   *)
LatestFailedChecks(d) ==
    /\ d \in FailedChecks
    /\ d.kind = "reviewer" => LatestExecutor(d.step) \notin FailedChecks

ReworkRole(d) ==
    IF d.kind = "executor" THEN dispatches[d].role
    ELSE dispatches[[LatestExecutor(d.step) EXCEPT !.attempt = dispatches[d].target]].role

AtVerificationRetry(c) == coord[c].pc \in {"verify_retry", "rechecking"} /\ Fresh(c)

NoVerificationRetry(c) ==
    /\ AtVerificationRetry(c)
    /\ FailedChecks = {}
    /\ coord' = [coord EXCEPT ![c] = [@ EXCEPT !.pc = "turn", !.dispatch = None]]
    /\ UNCHANGED <<record, policy, locks, processes, recover>>

RetryVerification(c) ==
    /\ AtVerificationRetry(c)
    /\ \E d \in FailedChecks :
        /\ LatestFailedChecks(d)
        /\ Acquire(c, d.step, "executor", ReworkRole(d))

(* The rework cannot be prepared (a reassigned role, a lease, a changed    *)
(* repository, a lost session, a budget): the step is blocked.             *)
RefuseVerificationRetry(c) ==
    /\ AtVerificationRetry(c)
    /\ \E d \in FailedChecks, kind \in {"reconciliation", "budget"} :
        /\ LatestFailedChecks(d)
        /\ kind = "budget" => policy.on_limit # "off"
        /\ steps' = [steps EXCEPT ![d.step] = Moved(d.step, "BLOCKED")]
        /\ Wait(kind, d.step, d)
    /\ Save(c, "exit")
    /\ UNCHANGED <<dispatches, policy, locks, processes, recover>>
-----------------------------------------------------------------------------
(* run_supervisor_turn.  A heartbeat refreshes the run lease only while    *)
(* the process still owns it.                                              *)
BeginTurn(c) ==
    /\ coord[c].pc = "turn"
    /\ Fresh(c)
    /\ runLease = c
    /\ runLeaseStale' = FALSE
    /\ invocations' = invocations \cup {c}
    /\ GoTo(c, "supervising")
    /\ UNCHANGED <<record, policy, leases, runLease, workers, recover>>

LoseRunLease(c) ==
    /\ coord[c].pc = "turn"
    /\ runLease # c
    /\ GoTo(c, "exit")
    /\ UNCHANGED <<record, policy, locks, processes, recover>>

(* Mutant: the turn goes on although the run changed or the lease is lost. *)
FinishTurnRegardless(c) ==
    /\ coord[c].pc = "supervising"
    /\ c \in invocations
    /\ invocations' = invocations \ {c}
    /\ Save(c, IF coord[c].dispatch = None THEN "command" ELSE "acknowledging")
    /\ UNCHANGED <<record, policy, locks, workers, recover>>

(* The response is accounted for even when the run changed meanwhile.      *)
FinishTurn(c) ==
    /\ coord[c].pc = "supervising"
    /\ c \in invocations
    /\ invocations' = invocations \ {c}
    /\ IF Fresh(c) /\ runLease = c
       THEN /\ Save(c, IF coord[c].dispatch = None THEN "command" ELSE "acknowledging")
            /\ runLeaseStale' = FALSE
       ELSE /\ Save(c, "exit")
            /\ UNCHANGED runLeaseStale
    /\ UNCHANGED <<record, policy, leases, runLease, workers, recover>>

FailTurn(c) ==
    /\ coord[c].pc = "supervising"
    /\ IF c \in invocations
       THEN invocations' = invocations \ {c} /\ Save(c, "exit")
       ELSE UNCHANGED invocations /\ GoTo(c, "exit")    \* recover closed it
    /\ UNCHANGED <<record, policy, locks, workers, recover>>

(* acknowledge_forwarding: the supervisor has answered the forwarded       *)
(* result, so the dispatch is done with.                                   *)
Acknowledge(c) ==
    /\ coord[c].pc = "acknowledging"
    /\ Fresh(c)
    /\ MoveDispatch(coord[c].dispatch, "ACKNOWLEDGED")
    /\ coord' = [Outdated EXCEPT ![c] = [@ EXCEPT !.pc = "refreshing", !.fresh = TRUE,
                                                !.dispatch = None]]
    /\ UNCHANGED <<run, request, steps, policy, locks, processes, recover>>

AtCommand(c) == coord[c].pc = "command" /\ Fresh(c)

CommandDispatch(c) ==
    /\ AtCommand(c)
    /\ \E s \in Step, kind \in {"executor", "reviewer"}, role \in Role :
        Acquire(c, s, kind, role)

RequestRiskGate(c) ==
    /\ AtCommand(c)
    /\ run = "RUNNING"
    /\ NoActiveDispatch
    /\ \E s \in Step : ~steps[s].gate_resolved /\ Wait("risk_gate", s, None)
    /\ Save(c, "exit")
    /\ UNCHANGED <<steps, dispatches, policy, locks, processes, recover>>

AskOperator(c) ==
    /\ AtCommand(c)
    /\ Wait("underspecification", None, None)
    /\ Save(c, "exit")
    /\ UNCHANGED <<steps, dispatches, policy, locks, processes, recover>>

RequestReviewWaiver(c) ==
    /\ AtCommand(c)
    /\ \E s \in Waivable :
        steps[s].state = "REVIEW_REQUIRED" /\ Wait("review_waiver", s, None)
    /\ Save(c, "exit")
    /\ UNCHANGED <<steps, dispatches, policy, locks, processes, recover>>

HaltRun(c) ==
    /\ AtCommand(c)
    /\ MoveRun("HALTED")
    /\ Save(c, "exit")
    /\ UNCHANGED <<steps, dispatches, policy, locks, processes, recover>>

(* completion_obligations, the dispatcher's own completion guard.          *)
StepComplete(s) ==
    /\ steps[s].state \in SettledStepStates
    /\ DependenciesSettled(s)
    /\ steps[s].state = "ACCEPTED" =>
        /\ steps[s].evidence
        /\ steps[s].review_waived \/ steps[s].review_acceptances >= RequiredAcceptances[s]
        /\ steps[s].gate_resolved

(* Mutant: one complete step completes the run.                            *)
OneStepComplete ==
    /\ \E s \in Step : StepComplete(s)
    /\ NoActiveDispatch
    /\ request = NoRequest

NoObligations ==
    /\ \A s \in Step : StepComplete(s)
    /\ NoActiveDispatch
    /\ request = NoRequest

CompleteRun(c) ==
    /\ AtCommand(c)
    /\ NoObligations
    /\ MoveRun("SUCCEEDED")
    /\ Save(c, "exit")
    /\ UNCHANGED <<steps, dispatches, policy, locks, processes, recover>>

(* A rejected command or a denied completion goes back to the supervisor.  *)
RejectCommand(c) ==
    /\ AtCommand(c)
    /\ GoTo(c, "turn")
    /\ UNCHANGED <<record, policy, locks, processes, recover>>

(* Any other error of a command (dirty repository, exhausted attempts or   *)
(* budget, a lease conflict, the turn limit) ends the process, and so does *)
(* a stall retry that cannot be prepared.                                  *)
AbortCommand(c) ==
    /\ coord[c].pc \in {"command", "stall_retry"}
    /\ Fresh(c)
    /\ GoTo(c, "exit")
    /\ UNCHANGED <<record, policy, locks, processes, recover>>
-----------------------------------------------------------------------------
(* execute_worker.  The journal row is written before the process starts.  *)
Launch(c) ==
    /\ coord[c].pc = "launching"
    /\ invocations' = invocations \cup {coord[c].dispatch}
    /\ workers' = workers \cup {coord[c].dispatch}
    /\ GoTo(c, "launched")
    /\ UNCHANGED <<record, policy, locks, recover>>

(* recover_interrupted_dispatch, one save.  A RUNNING dispatch is refused  *)
(* while its process may be alive; a PREPARED one has no process recorded. *)
Interrupted(d) ==
    LET s == d.step
        target == IF dispatches[d].state = "PREPARED" THEN "ABANDONED" ELSE "FAILED"
    IN
    /\ dispatches[d].state \in InFlightStates
    /\ dispatches[d].state = "RUNNING" => d \notin workers
    /\ steps[s].state \in {"EXECUTING", "REVIEWING"}
    /\ FailDispatch(d, target, "other")
    /\ steps' = [steps EXCEPT ![s] =
                    Moved(s, IF steps[s].state = "EXECUTING" THEN "BLOCKED"
                                                             ELSE "REVIEW_REQUIRED")]
    /\ Wait("reconciliation", s, d)

(* The persisted prompt is not the one that was approved: never launched.  *)
RejectPrompt(c) ==
    /\ coord[c].pc = "launching"
    /\ Interrupted(coord[c].dispatch)
    /\ leases' = Released(c)
    /\ Save(c, "exit")
    /\ UNCHANGED <<policy, runLease, runLeaseStale, processes, recover>>

(* Mutant: no heartbeat before a worker counts as RUNNING.                 *)
MarkRunningUnleased(c) ==
    /\ coord[c].pc = "launched"
    /\ Fresh(c)
    /\ MoveDispatch(coord[c].dispatch, "RUNNING")
    /\ Save(c, "marked")
    /\ UNCHANGED <<run, request, steps, policy, locks, processes, recover>>

(* process_started: heartbeat and mark_running, before any result counts.  *)
MarkRunning(c) ==
    /\ coord[c].pc = "launched"
    /\ runLease = c
    /\ Fresh(c)
    /\ MoveDispatch(coord[c].dispatch, "RUNNING")
    /\ runLeaseStale' = FALSE
    /\ Save(c, "marked")
    /\ UNCHANGED <<run, request, steps, policy, leases, runLease, processes, recover>>

(* session_identified: record_session_id binds the session to the attempt. *)
BindSession(c) ==
    /\ coord[c].pc = "marked"
    /\ Fresh(c)
    /\ Save(c, "working")
    /\ UNCHANGED <<record, policy, locks, processes, recover>>

(* A callback raised, so the runner terminates the process group.          *)
CallbackFails(c) ==
    /\ \/ coord[c].pc = "launched" /\ (runLease # c \/ ~Fresh(c))
       \/ coord[c].pc = "marked" /\ ~Fresh(c)
    /\ workers' = workers \ {coord[c].dispatch}
    /\ GoTo(c, "erring")
    /\ UNCHANGED <<record, policy, locks, invocations, recover>>

(* A worker ends by itself, by timeout or by a cancellation signal.  It    *)
(* outlives a coordinator that crashes.                                    *)
WorkerExits(d) ==
    /\ d \in workers
    /\ workers' = workers \ {d}
    /\ UNCHANGED <<record, policy, locks, invocations, coord, recover>>

(* finish_opencode_invocation: no generation is named, and the handler     *)
(* goes on with the one it returns.  Only a session that was identified    *)
(* can have a result; an interruption, a timeout or a lost connection is a *)
(* stall; the rest fails the dispatch.                                     *)
AfterWorker(pc) ==
    CASE pc = "working" -> {"ended", "stalling", "failing"}
      [] pc = "marked" -> {"stalling", "failing"}
      [] pc = "erring" -> {"failing"}
      [] OTHER -> {}

FinalizeInvocation(c) ==
    LET d == coord[c].dispatch IN
    /\ d \notin workers
    /\ d \in invocations
    /\ invocations' = invocations \ {d}
    /\ \E next \in AfterWorker(coord[c].pc) : Save(c, next)
    /\ UNCHANGED <<record, policy, locks, workers, recover>>

(* recover has closed the journal row: a conflict that no handler catches. *)
InvocationClosed(c) ==
    LET d == coord[c].dispatch IN
    /\ AfterWorker(coord[c].pc) # {}
    /\ d \notin workers
    /\ d \notin invocations
    /\ GoTo(c, "exit")
    /\ UNCHANGED <<record, policy, locks, processes, recover>>
-----------------------------------------------------------------------------
(* The result of a worker is applied in two saves.  The first makes the    *)
(* dispatch COMPLETED and moves the step (_replace_step); the second       *)
(* writes the result, the forwarding and FORWARDED                         *)
(* (persist_forwarded_dispatch).                                           *)
AtResult(c, kind) ==
    /\ coord[c].pc = "ended"
    /\ Fresh(c)
    /\ coord[c].dispatch.kind = kind
    /\ dispatches[coord[c].dispatch].state = "RUNNING"

ApplyResult(c, rec, escalates) ==
    /\ MoveDispatch(coord[c].dispatch, "COMPLETED")
    /\ ReplaceStep(coord[c].dispatch.step, rec)
    /\ Save(c, IF escalates THEN "escalating" ELSE "completed")
    /\ UNCHANGED <<policy, locks, processes, recover>>

(* Mutant: the votes for earlier work stay.                                *)
ExecutorCompletedVotesKept(c) ==
    LET s == coord[c].dispatch.step
        target == IF Reviewers[s] = {} THEN "ACCEPTED" ELSE "REVIEW_REQUIRED"
    IN
    /\ AtResult(c, "executor")
    /\ MayMove(s, "EXECUTED", target)
    /\ ApplyResult(c, [Moved(s, target) EXCEPT !.evidence = TRUE], FALSE)

(* A fresh executor result invalidates the reviews of earlier work.        *)
ExecutorCompleted(c) ==
    LET s == coord[c].dispatch.step
        target == IF Reviewers[s] = {} THEN "ACCEPTED" ELSE "REVIEW_REQUIRED"
    IN
    /\ AtResult(c, "executor")
    /\ MayMove(s, "EXECUTED", target)
    /\ ApplyResult(c, [Moved(s, target) EXCEPT !.evidence = TRUE,
                                               !.review_acceptances = 0,
                                               !.accepted_reviewers = {}], FALSE)

ExecutorRetriesLeft(s) == steps[s].executor_attempts < MaxExecutorAttempts

(* _executor_step_outcome: blocked and failed.                             *)
ExecutorGivesUp(c) ==
    LET s == coord[c].dispatch.step IN
    /\ AtResult(c, "executor")
    /\ \E on \in {policy.on_blocked, policy.on_failed} :
        LET target == IF on = "retry" /\ ExecutorRetriesLeft(s) THEN "READY"
                      ELSE IF on = "escalate" THEN "BLOCKED" ELSE "FAILED"
        IN /\ MayMove(s, "BLOCKED", target)
           /\ ApplyResult(c, Moved(s, target), on = "escalate")

(* _reviewer_step_outcome: the verdicts.                                   *)
ReviewerAccepts(c) ==
    LET s == coord[c].dispatch.step
        votes == steps[s].review_acceptances + 1
        target == IF votes >= RequiredAcceptances[s] THEN "ACCEPTED" ELSE "REVIEW_REQUIRED"
    IN
    /\ AtResult(c, "reviewer")
    /\ MayMove(s, target, target)
    /\ ApplyResult(c, [Moved(s, target) EXCEPT
                          !.review_acceptances = votes,
                          !.accepted_reviewers =
                              @ \cup {dispatches[coord[c].dispatch].role},
                          !.evidence = (target = "ACCEPTED")], FALSE)

TieBreak(s, role) ==
    /\ Reviewers[s] \ (steps[s].accepted_reviewers \cup {role}) # {}
    /\ steps[s].review_acceptances > 0

ReviewerRequestsChanges(c) ==
    LET s == coord[c].dispatch.step
        rounds == steps[s].rework_rounds + 1
        tie == TieBreak(s, dispatches[coord[c].dispatch].role)
        target == IF tie THEN "REVIEW_REQUIRED"
                  ELSE IF /\ policy.on_changes = "retry"
                          /\ rounds < MaxReworkRounds
                          /\ ExecutorRetriesLeft(s) THEN "READY"
                  ELSE IF policy.on_changes = "escalate" THEN "BLOCKED" ELSE "FAILED"
    IN
    /\ AtResult(c, "reviewer")
    /\ MayMove(s, "CHANGES_REQUESTED", target)
    /\ ApplyResult(c, [Moved(s, target) EXCEPT !.rework_rounds = rounds],
                   target = "BLOCKED")

(* A reviewer that is blocked or inconclusive.  The retry the policy may   *)
(* ask for goes BLOCKED to REVIEW_REQUIRED, which the table does not have: *)
(* the transition raises before anything is saved.                         *)
BlockedReviewTarget(s) ==
    IF policy.on_blocked = "retry" /\ steps[s].reviewer_attempts < MaxReviewerAttempts
    THEN "REVIEW_REQUIRED"
    ELSE IF policy.on_blocked = "escalate" THEN "BLOCKED" ELSE "FAILED"

ReviewerGivesUp(c) ==
    LET s == coord[c].dispatch.step
        target == BlockedReviewTarget(s)
    IN
    /\ AtResult(c, "reviewer")
    /\ MayMove(s, "BLOCKED", target)
    /\ ApplyResult(c, Moved(s, target), target = "BLOCKED")

(* The result is refused (a wrong repository state, a session mismatch, an *)
(* illegal transition), or the record is not what the handler expects.     *)
RefuseResult(c) ==
    /\ coord[c].pc = "ended"
    /\ GoTo(c, "failing") \/ GoTo(c, "rejecting")
    /\ UNCHANGED <<record, policy, locks, processes, recover>>

(* parse_reviewer_result: the response is no review at all.                *)
MalformedReview(c) ==
    /\ coord[c].pc = "ended"
    /\ coord[c].dispatch.kind = "reviewer"
    /\ GoTo(c, "invalidating")
    /\ UNCHANGED <<record, policy, locks, processes, recover>>

PersistForwarded(c) ==
    LET d == coord[c].dispatch IN
    /\ coord[c].pc \in {"completed", "escalating"}
    /\ Fresh(c)
    /\ "FORWARDED" \in DispatchTransitions[dispatches[d].state]
    /\ dispatches' = [dispatches EXCEPT
                        ![d] = [@ EXCEPT !.state = "FORWARDED", !.result = TRUE]]
    /\ IF coord[c].pc = "escalating"
       THEN Wait("escalation", d.step, d)
       ELSE UNCHANGED <<run, request>>
    /\ Save(c, "releasing")
    /\ UNCHANGED <<steps, policy, locks, processes, recover>>
-----------------------------------------------------------------------------
(* record_executor_verification_failure and                                *)
(* record_reviewer_verification_failure: the checks the dispatcher runs    *)
(* itself fail, on a proposal or after an acceptance.  One save.           *)
MayRework(d) ==
    LET s == d.step IN
    /\ policy.on_changes = "retry"
    /\ steps[s].rework_rounds + 1 < MaxReworkRounds
    /\ ExecutorRetriesLeft(s)
    /\ d.kind = "reviewer" => steps[s].reviewer_attempts < MaxReviewerAttempts

Reworked(d, target) ==
    LET rec == [Moved(d.step, target) EXCEPT !.rework_rounds = @ + 1] IN
    IF d.kind = "executor" THEN rec
    ELSE [rec EXCEPT !.review_acceptances = 0, !.accepted_reviewers = {}, !.evidence = FALSE]

ChecksFail(c) ==
    LET d == coord[c].dispatch
        s == d.step
        rework == MayRework(d)
        escalates == policy.on_changes = "escalate"
        target == IF rework THEN "READY" ELSE IF escalates THEN "BLOCKED" ELSE "FAILED"
    IN
    /\ \E kind \in {"executor", "reviewer"} : AtResult(c, kind)
    /\ MayMove(s, IF d.kind = "executor" THEN "BLOCKED" ELSE "CHANGES_REQUESTED", target)
    /\ FailDispatch(d, "FAILED", IF d.kind = "executor" THEN "authoritative_verification"
                                                        ELSE "acceptance_verification")
    /\ \/ /\ ~escalates
          /\ ReplaceStep(s, Reworked(d, target))
       \/ /\ escalates
          /\ steps' = [steps EXCEPT ![s] = Reworked(d, target)]
          /\ Wait("escalation", s, d)
       \/ \* the usage of the invocation cannot be validated
          /\ steps' = [steps EXCEPT ![s] = Reworked(d, "BLOCKED")]
          /\ Wait(IF policy.on_limit = "off" THEN "reconciliation" ELSE "budget", s, d)
    /\ Save(c, "reworked")
    /\ UNCHANGED <<policy, locks, processes, recover>>

(* release_leases, and what the process does next.                         *)
AfterRelease(pc) ==
    CASE pc = "releasing" -> IF run = "RUNNING" THEN "budget" ELSE "exit"
      [] pc = "reworked" -> IF run = "RUNNING" THEN "rechecking" ELSE "exit"
      [] pc = "stall_releasing" -> "stall_retry"
      [] pc = "invalid_step" -> "review_retry"
      [] OTHER -> "exit"

ReleaseLeases(c) ==
    /\ coord[c].pc \in {"releasing", "reworked", "stall_releasing", "invalid_step", "unleasing"}
    /\ leases' = Released(c)
    /\ GoTo(c, AfterRelease(coord[c].pc))
    /\ UNCHANGED <<record, policy, runLease, runLeaseStale, processes, recover>>

(* _apply_budget_limit.                                                    *)
BudgetHolds(c) ==
    /\ coord[c].pc = "budget"
    /\ GoTo(c, "turn")
    /\ UNCHANGED <<record, policy, locks, processes, recover>>

BudgetExceeded(c) ==
    LET d == coord[c].dispatch IN
    /\ coord[c].pc = "budget"
    /\ policy.on_limit # "off"
    /\ IF ~Fresh(c)
       THEN GoTo(c, "exit") /\ UNCHANGED <<run, request>>
       ELSE /\ IF policy.on_limit = "halt"
               THEN MoveRun("HALTED")
               ELSE Wait("budget", d.step, d)
            /\ Save(c, "exit")
    /\ UNCHANGED <<steps, dispatches, policy, locks, processes, recover>>
-----------------------------------------------------------------------------
(* fail_dispatch, handle_stall and record_reviewer_result_validation_      *)
(* failure start by loading the record again.  Their saves are separate:   *)
(* the dispatch, the step, and then the question for the operator.         *)
FirstSaves == {"failing", "rejecting", "stalling", "invalidating"}

InFlight(d) == dispatches[d].state \in InFlightStates

ReloadRecord(c) ==
    /\ coord[c].pc \in FirstSaves
    /\ ~Fresh(c)
    /\ InFlight(coord[c].dispatch)
    /\ coord' = [coord EXCEPT ![c].fresh = TRUE]
    /\ UNCHANGED <<record, policy, locks, processes, recover>>

(* The dispatch is not in flight any more, or the record changed after it  *)
(* was loaded.  Only the handlers with a finally clause release leases.    *)
GiveUp(c) ==
    /\ coord[c].pc \in FirstSaves
    /\ ~Fresh(c) \/ ~InFlight(coord[c].dispatch)
    /\ \E next \in {"exit", "unleasing"} :
        /\ next = "unleasing" => ~Fresh(c) /\ coord[c].pc # "stalling"
        /\ next = "exit" => ~InFlight(coord[c].dispatch) \/ coord[c].pc = "stalling"
        /\ GoTo(c, next)
    /\ UNCHANGED <<record, policy, locks, processes, recover>>

SaveFailedDispatch(c) ==
    LET d == coord[c].dispatch
        running == dispatches[d].state = "RUNNING"
    IN
    /\ coord[c].pc \in {"failing", "rejecting"}
    /\ Fresh(c)
    /\ InFlight(d)
    /\ FailDispatch(d, IF running THEN "FAILED" ELSE "ABANDONED",
                    IF coord[c].pc = "rejecting" THEN "result_validation" ELSE "other")
    /\ Save(c, IF running THEN "failed_running" ELSE "failed_prepared")
    /\ UNCHANGED <<run, request, steps, policy, locks, processes, recover>>

(* Mutant: an interrupted execution is ready for the next one.             *)
BoundaryReady(s) == IF steps[s].state = "EXECUTING" THEN "READY" ELSE "REVIEW_REQUIRED"

(* EXECUTING becomes BLOCKED and REVIEWING becomes REVIEW_REQUIRED.        *)
Boundary(s) == IF steps[s].state = "EXECUTING" THEN "BLOCKED" ELSE "REVIEW_REQUIRED"

SaveFailedStep(c) ==
    LET s == coord[c].dispatch.step IN
    /\ coord[c].pc \in {"failed_prepared", "failed_running"}
    /\ Fresh(c)
    /\ steps[s].state \in {"EXECUTING", "REVIEWING"}
    /\ ReplaceStep(s, Moved(s, Boundary(s)))
    /\ Save(c, IF coord[c].pc = "failed_running" THEN "failed_step" ELSE "unleasing")
    /\ UNCHANGED <<dispatches, policy, locks, processes, recover>>

AskReconciliation(c) ==
    LET d == coord[c].dispatch IN
    /\ coord[c].pc = "failed_step"
    /\ Fresh(c)
    /\ Wait("reconciliation", d.step, d)
    /\ Save(c, "unleasing")
    /\ UNCHANGED <<steps, dispatches, policy, locks, processes, recover>>

SaveStalledDispatch(c) ==
    LET d == coord[c].dispatch IN
    /\ coord[c].pc = "stalling"
    /\ Fresh(c)
    /\ InFlight(d)
    /\ FailDispatch(d, IF dispatches[d].state = "RUNNING" THEN "FAILED" ELSE "ABANDONED",
                    "other")
    /\ Save(c, "stalled")
    /\ UNCHANGED <<run, request, steps, policy, locks, processes, recover>>

StallRetryAllowed(d) ==
    /\ steps[d.step].stalls + 1 <= MaxStallRetries
    /\ IF d.kind = "executor"
       THEN ExecutorRetriesLeft(d.step)
       ELSE steps[d.step].reviewer_attempts < MaxReviewerAttempts

SaveStalledStep(c) ==
    LET d == coord[c].dispatch
        s == d.step
        retry == StallRetryAllowed(d)
        fails == ~retry /\ policy.on_exhausted = "fail"
        target == IF fails THEN "FAILED"
                  ELSE IF retry /\ steps[s].state = "EXECUTING" THEN "READY" ELSE Boundary(s)
    IN
    /\ coord[c].pc = "stalled"
    /\ Fresh(c)
    /\ steps[s].state \in {"EXECUTING", "REVIEWING"}
    /\ MayMove(s, Boundary(s), target)
    /\ ReplaceStep(s, [Moved(s, target) EXCEPT !.stalls = @ + 1])
    /\ Save(c, IF retry THEN "stall_releasing" ELSE IF fails THEN "unleasing" ELSE "stalled_step")
    /\ UNCHANGED <<dispatches, policy, locks, processes, recover>>

AskStallRecovery(c) ==
    LET d == coord[c].dispatch IN
    /\ coord[c].pc = "stalled_step"
    /\ Fresh(c)
    /\ IF policy.on_exhausted = "ask"
       THEN Wait("stall_recovery", d.step, d)
       ELSE MoveRun("HALTED")
    /\ Save(c, "unleasing")
    /\ UNCHANGED <<steps, dispatches, policy, locks, processes, recover>>

(* prepare_stall_retry: the same step and role, without the supervisor.    *)
RetryStalled(c) ==
    LET d == coord[c].dispatch IN
    /\ coord[c].pc = "stall_retry"
    /\ Fresh(c)
    /\ Acquire(c, d.step, d.kind, dispatches[d].role)

SaveMalformedReview(c) ==
    /\ coord[c].pc = "invalidating"
    /\ Fresh(c)
    /\ dispatches[coord[c].dispatch].state = "RUNNING"
    /\ FailDispatch(coord[c].dispatch, "FAILED", "result_validation")
    /\ Save(c, "invalidated")
    /\ UNCHANGED <<run, request, steps, policy, locks, processes, recover>>

SaveUnreviewedStep(c) ==
    LET s == coord[c].dispatch.step IN
    /\ coord[c].pc = "invalidated"
    /\ Fresh(c)
    /\ steps[s].state = "REVIEWING"
    /\ ReplaceStep(s, [Moved(s, "REVIEW_REQUIRED") EXCEPT !.stalls = @ + 1])
    /\ Save(c, "invalid_step")
    /\ UNCHANGED <<dispatches, policy, locks, processes, recover>>

(* A later save of a handler with a finally clause is refused.             *)
LaterSaveConflicts(c) ==
    /\ coord[c].pc \in {"failed_prepared", "failed_running", "failed_step", "invalidated"}
    /\ ~Fresh(c)
    /\ GoTo(c, "unleasing")
    /\ UNCHANGED <<record, policy, locks, processes, recover>>
-----------------------------------------------------------------------------
(* The end of an execute process.                                          *)
Exit(c) ==
    /\ coord[c].pc = "exit"
    /\ runLease' = IF runLease = c THEN None ELSE runLease
    /\ runLeaseStale' = (runLease # c /\ runLeaseStale)
    /\ leases' = Abandoned(c)
    /\ coord' = [coord EXCEPT ![c] = Down]
    /\ UNCHANGED <<record, policy, processes, recover>>

(* A crash runs no finally clause: the leases and the journal rows stay,   *)
(* and so does the worker process.                                         *)
Crash(c) ==
    /\ coord[c].pc # "down"
    /\ runLease' = IF runLease = c THEN Orphan ELSE runLease
    /\ leases' = Abandoned(c)
    /\ coord' = [coord EXCEPT ![c] = Down]
    /\ UNCHANGED <<record, policy, runLeaseStale, processes, recover>>

(* The holder of the run lease beats only around external processes, so a  *)
(* long worker or supervisor session lets the lease go stale as well as a  *)
(* crash does.                                                             *)
RunLeaseGoesStale ==
    /\ runLease # None
    /\ ~runLeaseStale
    /\ runLeaseStale' = TRUE
    /\ UNCHANGED <<record, policy, leases, runLease, processes, coord, recover>>
-----------------------------------------------------------------------------
(* The operator.  An answer and the transition it causes are one save.     *)
Answering(kind) == run = "WAITING_OPERATOR" /\ request.kind = kind

Resume ==
    /\ MoveRun("RUNNING")
    /\ coord' = Outdated
    /\ UNCHANGED <<dispatches, policy, locks, processes, recover>>

AnswerHalt ==
    /\ run = "WAITING_OPERATOR"
    /\ MoveRun("HALTED")
    /\ coord' = Outdated
    /\ UNCHANGED <<steps, dispatches, policy, locks, processes, recover>>

AnswerGate ==
    LET s == request.step IN
    /\ Answering("risk_gate")
    /\ ~steps[s].gate_resolved
    /\ steps' = [steps EXCEPT ![s].gate_resolved = TRUE]
    /\ Resume

AnswerQuestion == Answering("underspecification") /\ Resume /\ UNCHANGED steps

AnswerReassign ==
    LET s == request.step IN
    /\ Answering("escalation")
    /\ steps[s].state = "BLOCKED"
    /\ steps' = [steps EXCEPT ![s] = [Moved(s, "READY") EXCEPT !.reassigned = TRUE]]
    /\ Resume

AnswerWaiver ==
    LET s == request.step IN
    /\ Answering("review_waiver")
    /\ s \in Waivable
    /\ steps[s].state = "REVIEW_REQUIRED"
    /\ steps' = [steps EXCEPT ![s] = [Moved(s, "ACCEPTED") EXCEPT !.review_waived = TRUE]]
    /\ Resume

Retryable(s) == steps[s].state \in {"BLOCKED", "REVIEW_REQUIRED"}

Unblocked(s) == IF steps[s].state = "BLOCKED" THEN Moved(s, "READY") ELSE steps[s]

AnswerRetry ==
    /\ Answering("stall_recovery")
    /\ Retryable(request.step)
    /\ steps' = [steps EXCEPT ![request.step] = Unblocked(request.step)]
    /\ Resume

AnswerReconcile ==
    /\ Answering("reconciliation")
    /\ dispatches[request.dispatch].state \in {"FAILED", "ABANDONED"}
    /\ Retryable(request.step)
    /\ steps' = [steps EXCEPT ![request.step] = Unblocked(request.step)]
    /\ Resume

Answer ==
    \/ AnswerHalt \/ AnswerGate \/ AnswerQuestion \/ AnswerReassign
    \/ AnswerWaiver \/ AnswerRetry \/ AnswerReconcile

(* request_dispatch_cancellation: the intent is saved, then the process is *)
(* signalled (WorkerExits).                                                *)
Cancel(d) ==
    /\ dispatches[d].state = "RUNNING"
    /\ ~dispatches[d].cancel_requested
    /\ dispatches' = [dispatches EXCEPT ![d].cancel_requested = TRUE]
    /\ coord' = Outdated
    /\ UNCHANGED <<run, request, steps, policy, locks, processes, recover>>
-----------------------------------------------------------------------------
(* Mutant: a PREPARED dispatch is not classified.                          *)
RecoverableWithoutPrepared ==
    {d \in Dispatch : dispatches[d].state \in {"RUNNING", "COMPLETED"}}

(* The recover command.  It classifies the dispatches and the journal,     *)
(* takes the run lease if that is free or stale, and works on what it saw. *)
Recoverable == {d \in Dispatch : dispatches[d].state \in InFlightStates \cup {"COMPLETED"}}

RecoverStart ==
    /\ recover.pc = "idle"
    /\ Recoverable # {} \/ invocations # {}
    /\ runLease = None \/ runLeaseStale
    /\ runLease' = Recovery
    /\ runLeaseStale' = FALSE
    /\ \E d \in Recoverable \cup {None} :
        /\ d = None <=> Recoverable = {}
        /\ recover' = [pc |-> IF d = None THEN "finalizing"
                              ELSE IF InFlight(d) THEN "reconciling" ELSE "forwarding",
                       dispatch |-> d, journals |-> invocations]
    /\ UNCHANGED <<record, policy, leases, processes, coord>>

RecoverDispatch ==
    /\ recover.pc = "reconciling"
    /\ Interrupted(recover.dispatch)
    /\ coord' = Outdated
    /\ recover' = [recover EXCEPT !.pc = "unlocking"]
    /\ UNCHANGED <<policy, locks, processes>>

(* A RUNNING dispatch whose process lives is refused; one that got out of  *)
(* flight since the classification is left alone and counts as reconciled. *)
RecoverNothing ==
    LET d == recover.dispatch
        alive == dispatches[d].state = "RUNNING" /\ d \in workers
    IN
    /\ recover.pc = "reconciling"
    /\ alive \/ ~InFlight(d)
    /\ recover' = [recover EXCEPT !.pc = IF alive THEN "finalizing" ELSE "unlocking"]
    /\ UNCHANGED <<record, policy, locks, processes, coord>>

(* recover_completed_dispatch: refused for want of the durable result,     *)
(* which no handler writes with COMPLETED, or because the coordinator has  *)
(* forwarded the dispatch itself.                                          *)
RecoverForwarding ==
    /\ recover.pc = "forwarding"
    /\ ~dispatches[recover.dispatch].result \/ dispatches[recover.dispatch].state # "COMPLETED"
    /\ recover' = [recover EXCEPT !.pc = "finalizing"]
    /\ UNCHANGED <<record, policy, locks, processes, coord>>

(* release_interrupted_dispatch_leases: by resource, whoever holds it.     *)
RecoverUnlock ==
    /\ recover.pc = "unlocking"
    /\ leases' = [r \in Resource |->
                    IF r \in LeaseKeys[recover.dispatch.step] THEN None ELSE leases[r]]
    /\ recover' = [recover EXCEPT !.pc = "finalizing"]
    /\ UNCHANGED <<record, policy, runLease, runLeaseStale, processes, coord>>

(* finalize_prepared_opencode_invocations, for what is not in flight.      *)
RecoverJournals ==
    LET closed == {i \in recover.journals \cap invocations : i \in Dispatch => ~InFlight(i)}
    IN
    /\ recover.pc = "finalizing"
    /\ invocations' = invocations \ closed
    /\ coord' = IF closed = {} THEN coord ELSE Outdated
    /\ recover' = [Idle EXCEPT !.pc = "leaving"]
    /\ UNCHANGED <<record, policy, locks, workers>>

RecoverEnd ==
    /\ recover.pc = "leaving"
    /\ runLease' = IF runLease = Recovery THEN None ELSE runLease
    /\ runLeaseStale' = (runLease # Recovery /\ runLeaseStale)
    /\ recover' = Idle
    /\ UNCHANGED <<record, policy, leases, processes, coord>>

RecoverCrash ==
    /\ recover.pc # "idle"
    /\ runLease' = IF runLease = Recovery THEN Orphan ELSE runLease
    /\ recover' = Idle
    /\ UNCHANGED <<record, policy, leases, runLeaseStale, processes, coord>>

RecoverStep ==
    \/ RecoverDispatch \/ RecoverNothing \/ RecoverForwarding
    \/ RecoverUnlock \/ RecoverJournals \/ RecoverEnd
-----------------------------------------------------------------------------
(* What an execute process does once it runs.                              *)
Bootstrap(c) ==
    \/ NoReviewRetry(c) \/ RetryReview(c) \/ ExhaustReviewRetry(c) \/ RefuseReviewRetry(c)
    \/ RefreshReadiness(c) \/ ActivateRun(c) \/ RunActivated(c)
    \/ NoVerificationRetry(c) \/ RetryVerification(c) \/ RefuseVerificationRetry(c)

Supervise(c) ==
    \/ BeginTurn(c) \/ LoseRunLease(c) \/ FinishTurn(c) \/ FailTurn(c) \/ Acknowledge(c)
    \/ CommandDispatch(c) \/ RequestRiskGate(c) \/ AskOperator(c) \/ RequestReviewWaiver(c)
    \/ HaltRun(c) \/ CompleteRun(c) \/ RejectCommand(c) \/ AbortCommand(c)

Work(c) ==
    \/ CommitPrepared(c) \/ PrepareConflicts(c) \/ Launch(c) \/ RejectPrompt(c)
    \/ MarkRunning(c) \/ BindSession(c) \/ CallbackFails(c)
    \/ FinalizeInvocation(c) \/ InvocationClosed(c)

Apply(c) ==
    \/ ExecutorCompleted(c) \/ ExecutorGivesUp(c)
    \/ ReviewerAccepts(c) \/ ReviewerRequestsChanges(c) \/ ReviewerGivesUp(c)
    \/ RefuseResult(c) \/ MalformedReview(c) \/ ChecksFail(c) \/ PersistForwarded(c)
    \/ ReleaseLeases(c) \/ BudgetHolds(c) \/ BudgetExceeded(c)

Fail(c) ==
    \/ ReloadRecord(c) \/ GiveUp(c)
    \/ SaveFailedDispatch(c) \/ SaveFailedStep(c) \/ AskReconciliation(c)
    \/ SaveStalledDispatch(c) \/ SaveStalledStep(c) \/ AskStallRecovery(c) \/ RetryStalled(c)
    \/ SaveMalformedReview(c) \/ SaveUnreviewedStep(c) \/ LaterSaveConflicts(c)

Proceed(c) ==
    Bootstrap(c) \/ Supervise(c) \/ Work(c) \/ Apply(c) \/ Fail(c) \/ StopStale(c) \/ Exit(c)

Next ==
    \/ \E c \in Coordinator : Start(c) \/ Proceed(c) \/ Crash(c)
    \/ \E d \in Dispatch : WorkerExits(d) \/ Cancel(d)
    \/ Answer
    \/ RunLeaseGoesStale
    \/ RecoverStart \/ RecoverStep \/ RecoverCrash

Spec == Init /\ [][Next]_vars

(* Execute processes that run get on with it, workers end (the timeout of  *)
(* execution.session_timeout_seconds kills them), time passes, and the     *)
(* operator runs recover again when it did not get through.                *)
Fairness ==
    /\ \A c \in Coordinator : WF_vars(Proceed(c))
    /\ \A d \in Dispatch : WF_vars(WorkerExits(d))
    /\ WF_vars(RunLeaseGoesStale)
    /\ WF_vars(RecoverStart)
    /\ WF_vars(RecoverStep)
    /\ SF_vars(RecoverDispatch)

FairSpec == Spec /\ Fairness

(* The same with an operator who starts execute again whenever it may be   *)
(* started.                                                                *)
PersistentSpec == FairSpec /\ \A c \in Coordinator : WF_vars(Start(c))
-----------------------------------------------------------------------------
(* Safety.                                                                 *)

(* A failed step is never left behind in a run that goes on: the run fails *)
(* in the save that fails the step (_step_replacement_record), whichever   *)
(* handler makes it and whatever the other processes do.                   *)
TerminalFailure == (\E s \in Step : steps[s].state = "FAILED") => run = "FAILED"

(* A sequential run has at most one unresolved dispatch, although the      *)
(* check of prepare_dispatch and its save are two steps and several        *)
(* execute processes may be alive: the generation guards the save.         *)
OneUnresolvedDispatch ==
    \A d, e \in Dispatch : ActiveDispatch(d) /\ ActiveDispatch(e) => d = e

(* What the generation check of a save protects: a process that holds the  *)
(* current generation is where it should be for the work in flight.  That  *)
(* is its own, at a point of its handlers that expects it; or the journal, *)
(* which names no generation, has just handed it the current one, and it   *)
(* is about to find its own dispatch settled by recover.                   *)
Attending ==
    {"launching", "launched", "marked", "working", "erring", "ended",
     "failing", "rejecting", "stalling", "invalidating"}

Overtaken == {"ended", "failing", "rejecting", "stalling", "invalidating", "exit"}

FreshProcessKnowsTheWork ==
    \A c \in Coordinator, d \in Dispatch :
        Fresh(c) /\ InFlight(d) =>
            coord[c].pc \in IF coord[c].dispatch = d THEN Attending ELSE Overtaken

(* Work in flight belongs to a run that is RUNNING and to the step that    *)
(* names it: no operator question, halt, retry or recovery gets between    *)
(* the launch of a worker and the end of its dispatch.                     *)
WorkInFlightIsOwned ==
    \A d \in Dispatch :
        InFlight(d) =>
            /\ run = "RUNNING"
            /\ steps[d.step].active = d
            /\ steps[d.step].state = IF d.kind = "executor" THEN "EXECUTING" ELSE "REVIEWING"

(* While an execute process works on a RUNNING dispatch, every resource of *)
(* its step is leased to it, takeovers by recover included.                *)
AtWork == {"marked", "working", "ended"}

RunningWorkHoldsItsLeases ==
    \A c \in Coordinator :
        LET d == coord[c].dispatch IN
        coord[c].pc \in AtWork /\ dispatches[d].state = "RUNNING" =>
            \A r \in LeaseKeys[d.step] : leases[r] = [owner |-> c, dispatch |-> d]

(* A vote counts only for the work it was cast on.  The votes of a step    *)
(* under review come from distinct reviewers, each by a finished dispatch  *)
(* whose target is the latest executor attempt; a step accepted without a  *)
(* waiver has enough of them.                                              *)
Judged(s, role) ==
    \E d \in Dispatch :
        /\ d.step = s /\ d.kind = "reviewer"
        /\ dispatches[d].role = role
        /\ dispatches[d].target = steps[s].executor_attempts
        /\ dispatches[d].state \in {"COMPLETED", "FORWARDED", "ACKNOWLEDGED"}

VotesJudgeTheLatestWork ==
    \A s \in Step :
        steps[s].state \in {"REVIEW_REQUIRED", "REVIEWING", "ACCEPTED"} =>
            /\ \A role \in steps[s].accepted_reviewers : Judged(s, role)
            /\ steps[s].review_acceptances = Cardinality(steps[s].accepted_reviewers)
            /\ steps[s].state = "ACCEPTED" /\ ~steps[s].review_waived =>
                  steps[s].review_acceptances >= RequiredAcceptances[s]

(* A run that has SUCCEEDED owes nothing: every step is settled, nothing   *)
(* is in flight and no question is open, now and for good.                 *)
SuccessIsComplete ==
    run = "SUCCEEDED" =>
        /\ \A s \in Step :
            /\ steps[s].state \in {"ACCEPTED", "WAIVED"}
            /\ steps[s].gate_resolved
            /\ steps[s].review_waived
                \/ Cardinality(steps[s].accepted_reviewers) >= RequiredAcceptances[s]
        /\ \A d \in Dispatch :
            dispatches[d].state \in {"NONE", "ACKNOWLEDGED", "FAILED", "ABANDONED"}

(* Work is only ever done on top of settled work: once a step has left     *)
(* PENDING its dependencies are settled, and what is settled stays so      *)
(* through every retry, rework, waiver and recovery.                       *)
WorkBuildsOnSettledSteps ==
    \A s \in Step, p \in Step :
        steps[s].state # "PENDING" /\ p \in DependsOn[s] =>
            steps[p].state \in {"ACCEPTED", "WAIVED"}

(* The question of a waiting run can be answered with something else than  *)
(* halt: the step and the dispatch it is about stay as the answer needs    *)
(* them (answer_operator_request refuses otherwise).                       *)
Answerable ==
    CASE request.kind = "risk_gate" -> ~steps[request.step].gate_resolved
      [] request.kind = "escalation" -> steps[request.step].state = "BLOCKED"
      [] request.kind = "review_waiver" -> steps[request.step].state = "REVIEW_REQUIRED"
      [] request.kind = "stall_recovery" -> Retryable(request.step)
      [] request.kind = "reconciliation" ->
            /\ Retryable(request.step)
            /\ dispatches[request.dispatch].state \in {"FAILED", "ABANDONED"}
      [] OTHER -> TRUE

RequestIsAnswerable ==
    /\ run = "WAITING_OPERATOR" <=> request # NoRequest
    /\ run = "WAITING_OPERATOR" => Answerable

(* A handler that saves more than once finds the record as its last save   *)
(* left it, or finds its generation stale: between two saves of            *)
(* fail_dispatch, handle_stall, record_reviewer_result_validation_failure  *)
(* and the two saves of a result no other process slips in unnoticed.      *)
MidHandler ==
    [failed_prepared |-> {"ABANDONED"}, failed_running |-> {"FAILED"},
     stalled |-> {"FAILED", "ABANDONED"}, invalidated |-> {"FAILED"},
     completed |-> {"COMPLETED"}, escalating |-> {"COMPLETED"}]

HandlersAreNotInterrupted ==
    \A c \in Coordinator :
        LET d == coord[c].dispatch IN
        coord[c].pc \in DOMAIN MidHandler /\ Fresh(c) =>
            /\ dispatches[d].state \in MidHandler[coord[c].pc]
            /\ dispatches[d].state # "COMPLETED" =>
                /\ run = "RUNNING"
                /\ steps[d.step].active = d

(* Action properties.                                                      *)

(* Work that was blocked is reopened by the operator and by no one else:   *)
(* the run was waiting with a question about that very step.  It is what   *)
(* keeps an interrupted worker from being retried implicitly.              *)
BlockedWorkNeedsTheOperator ==
    [][\A s \in Step :
        steps[s].state = "BLOCKED" /\ steps'[s].state = "READY" =>
            run = "WAITING_OPERATOR" /\ request.step = s]_vars

(* Liveness.                                                               *)

(* A dispatch in flight is resolved: by its coordinator, or by recover     *)
(* once that crashed, lost its lease or gave up on a stale generation.     *)
WorkIsResolved == \A d \in Dispatch : InFlight(d) ~> ~InFlight(d)

(* Statements of the documents and tests that the code does not keep.      *)

(* persist_forwarded_dispatch and protocol.md: a crash cannot strand a     *)
(* completed dispatch without its durable result.                          *)
CompletedHasResult ==
    \A d \in Dispatch : dispatches[d].state = "COMPLETED" => dispatches[d].result

(* test_operator_can_waive_only_a_non_mandatory_compiled_review: a step    *)
(* accepted by a waiver keeps the evidence of its executor.                *)
WaivedStepKeepsItsEvidence ==
    \A s \in Step : steps[s].state = "ACCEPTED" => steps[s].evidence

(* protocol.md, answer `reassign': the step goes to the configured role.   *)
ReassignmentIsHonoured ==
    [][\A s \in Step :
        steps[s].reassigned /\ ~steps'[s].reassigned =>
            /\ steps'[s].state = "EXECUTING"
            /\ dispatches'[steps'[s].active].role = EscalationRole]_vars

(* release_interrupted_dispatch_leases: recover unlocks what interrupted   *)
(* workers left behind, never the leases of a dispatch that is in flight.  *)
UnlocksOnlyOrphans ==
    [][\A r \in Resource :
        recover.pc = "unlocking" /\ recover'.pc = "finalizing" /\ leases[r] # None
            /\ leases'[r] = None
                => ~InFlight(leases[r].dispatch)]_vars

(* operations.md and protocol.md: a forwarded result whose acknowledgement *)
(* was lost is delivered to the next supervisor turn and acknowledged, as  *)
(* long as the run goes on and the operator starts execute again.          *)
ForwardedIsReplayed ==
    \A d \in Dispatch :
        dispatches[d].state = "FORWARDED" /\ run = "RUNNING"
            ~> dispatches[d].state # "FORWARDED" \/ run # "RUNNING"
=============================================================================
