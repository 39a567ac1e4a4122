---------------------- MODULE SequentialWorkflow_safety ----------------------
(***************************************************************************)
(* Safety of SequentialWorkflow, on top of its type correctness: a failed  *)
(* step takes its run with it, and one dispatch at most is unresolved.     *)
(***************************************************************************)
EXTENDS SequentialWorkflow_proofs

(* What every step does to the run and to failed steps.                    *)
RunMoves == run' \in {run} \cup RunTransitions[run]

FailsTogether ==
    \A s \in Step : steps'[s].state = "FAILED" => steps[s].state = "FAILED" \/ run' = "FAILED"

LEMMA FailureIsKept ==
    ASSUME TerminalFailure, RunMoves, FailsTogether
    PROVE  TerminalFailure'
<1>1. RunTransitions["FAILED"] = {}
  BY DEF RunTransitions, RunStates
<1>2. run = "FAILED" => run' = "FAILED"
  BY <1>1 DEF RunMoves
<1>. QED  BY <1>2 DEF TerminalFailure, FailsTogether

LEMMA WaitMoves ==
    ASSUME NEW kind, NEW s, NEW d, Wait(kind, s, d)
    PROVE  RunMoves
BY DEF Wait, RunMoves

LEMMA MoveRunMoves ==
    ASSUME NEW target, MoveRun(target)
    PROVE  RunMoves
BY DEF MoveRun, RunMoves

(* The state that a transition names is the state that is saved.           *)
LEMMA MovedState ==
    ASSUME StepsTypeOK, NEW s \in Step, NEW target
    PROVE  Moved(s, target).state = target
BY DEF Moved, StepsTypeOK, StepRecord

LEMMA LiveReplacement ==
    ASSUME StepsTypeOK, NEW s \in Step, NEW rec, rec.state # "FAILED",
           steps' = [steps EXCEPT ![s] = rec]
    PROVE  FailsTogether
BY DEF FailsTogether, StepsTypeOK

LEMMA ReplaceStepFails ==
    ASSUME StepsTypeOK, NEW s \in Step, NEW rec, ReplaceStep(s, rec)
    PROVE  RunMoves /\ FailsTogether
<1>1. CASE rec.state = "FAILED"
  <2>1. run' = "FAILED"
    BY <1>1 DEF ReplaceStep, MoveRun
  <2>. QED  BY <1>1, <2>1 DEF ReplaceStep, MoveRun, RunMoves, FailsTogether
<1>2. CASE rec.state # "FAILED"
  BY <1>2, LiveReplacement DEF ReplaceStep, RunMoves
<1>. QED  BY <1>1, <1>2
-----------------------------------------------------------------------------
LEMMA BootstrapFails ==
    ASSUME TypeOK, NEW c \in Coordinator, Bootstrap(c)
    PROVE  RunMoves /\ FailsTogether
<1>1. ASSUME UNCHANGED run, UNCHANGED steps PROVE RunMoves /\ FailsTogether
  BY <1>1 DEF RunMoves, FailsTogether
<1>2. ASSUME ExhaustReviewRetry(c) PROVE RunMoves /\ FailsTogether
  <2>1. PICK d \in MalformedReviews :
          \/ Wait("stall_recovery", d.step, d) /\ UNCHANGED steps
          \/ MoveRun("HALTED") /\ UNCHANGED steps
          \/ ReplaceStep(d.step, Moved(d.step, "FAILED"))
    BY <1>2 DEF ExhaustReviewRetry
  <2>2. d.step \in Step
    BY DEF MalformedReviews, Dispatch
  <2>3. CASE ReplaceStep(d.step, Moved(d.step, "FAILED"))
    BY <2>2, <2>3, ReplaceStepFails DEF TypeOK
  <2>4. CASE (Wait("stall_recovery", d.step, d) \/ MoveRun("HALTED")) /\ UNCHANGED steps
    BY <2>4, WaitMoves, MoveRunMoves DEF FailsTogether
  <2>. QED  BY <2>1, <2>3, <2>4
<1>3. ASSUME RefuseReviewRetry(c) PROVE RunMoves /\ FailsTogether
  BY <1>3, WaitMoves DEF RefuseReviewRetry, FailsTogether
<1>4. ASSUME RefreshReadiness(c) PROVE RunMoves /\ FailsTogether
  <2>1. \A s \in Step : steps'[s].state = "FAILED" => steps[s].state = "FAILED"
    BY <1>4, MovedState DEF RefreshReadiness, TypeOK, StepsTypeOK
  <2>. QED  BY <1>4, <2>1 DEF RefreshReadiness, RunMoves, FailsTogether
<1>5. ASSUME ActivateRun(c) PROVE RunMoves /\ FailsTogether
  BY <1>5, MoveRunMoves DEF ActivateRun, FailsTogether
<1>6. ASSUME RefuseVerificationRetry(c) PROVE RunMoves /\ FailsTogether
  <2>1. PICK d \in FailedChecks, kind \in {"reconciliation", "budget"} :
          /\ steps' = [steps EXCEPT ![d.step] = Moved(d.step, "BLOCKED")]
          /\ Wait(kind, d.step, d)
    BY <1>6 DEF RefuseVerificationRetry
  <2>2. d.step \in Step
    BY DEF FailedChecks, Dispatch
  <2>. QED  BY <2>1, <2>2, WaitMoves, MovedState, LiveReplacement DEF TypeOK
<1>. QED
  BY <1>1, <1>2, <1>3, <1>4, <1>5, <1>6
  DEF Bootstrap, NoReviewRetry, RetryReview, RunActivated, NoVerificationRetry,
      RetryVerification, Acquire, record

LEMMA SuperviseFails ==
    ASSUME NEW c \in Coordinator, Supervise(c)
    PROVE  RunMoves /\ FailsTogether
<1>1. RunMoves
  <2>1. ASSUME UNCHANGED run PROVE RunMoves
    BY <2>1 DEF RunMoves
  <2>. QED
    BY <2>1, WaitMoves, MoveRunMoves
    DEF Supervise, BeginTurn, LoseRunLease, FinishTurn, FailTurn, Acknowledge, CommandDispatch,
        Acquire, RequestRiskGate, AskOperator, RequestReviewWaiver, HaltRun, CompleteRun,
        RejectCommand, AbortCommand, record
<1>2. UNCHANGED steps
  BY DEF Supervise, BeginTurn, LoseRunLease, FinishTurn, FailTurn, Acknowledge, CommandDispatch,
         Acquire, RequestRiskGate, AskOperator, RequestReviewWaiver, HaltRun, CompleteRun,
         RejectCommand, AbortCommand, record
<1>. QED  BY <1>1, <1>2 DEF FailsTogether

LEMMA InterruptedFails ==
    ASSUME TypeOK, NEW d \in Dispatch, Interrupted(d)
    PROVE  RunMoves /\ FailsTogether
<1>1. d.step \in Step
  BY DEF Dispatch
<1>2. PICK target \in {"BLOCKED", "REVIEW_REQUIRED"} :
        steps' = [steps EXCEPT ![d.step] = Moved(d.step, target)]
  BY DEF Interrupted
<1>3. FailsTogether
  BY <1>1, <1>2, MovedState, LiveReplacement DEF TypeOK
<1>. QED  BY <1>3, WaitMoves DEF Interrupted

LEMMA WorkFails ==
    ASSUME TypeOK, NEW c \in Coordinator, Work(c)
    PROVE  RunMoves /\ FailsTogether
<1>1. ASSUME UNCHANGED run, UNCHANGED steps PROVE RunMoves /\ FailsTogether
  BY <1>1 DEF RunMoves, FailsTogether
<1>2. ASSUME CommitPrepared(c) PROVE RunMoves /\ FailsTogether
  <2>. DEFINE d == coord[c].dispatch
              s == d.step
  <2>1. s \in Step
    BY <1>2, DispatchOf DEF CommitPrepared, TypeOK, Undispatched
  <2>2. /\ Moved(s, "EXECUTING") \in StepRecord /\ Moved(s, "EXECUTING").state = "EXECUTING"
        /\ Moved(s, "REVIEWING") \in StepRecord /\ Moved(s, "REVIEWING").state = "REVIEWING"
    BY <2>1, MovedType, MovedState DEF TypeOK, StepStates
  <2>3. /\ [Moved(s, "EXECUTING") EXCEPT !.active = d, !.executor_attempts = d.attempt].state
             # "FAILED"
        /\ [Moved(s, "REVIEWING") EXCEPT !.active = d, !.reviewer_attempts = d.attempt].state
             # "FAILED"
    BY <2>2 DEF StepRecord
  <2>4. FailsTogether
    BY <1>2, <2>1, <2>3, LiveReplacement DEF CommitPrepared, TypeOK
  <2>. QED  BY <1>2, <2>4 DEF CommitPrepared, RunMoves
<1>3. ASSUME RejectPrompt(c) PROVE RunMoves /\ FailsTogether
  BY <1>3, DispatchOf, InterruptedFails DEF RejectPrompt, TypeOK, Undispatched
<1>. QED
  BY <1>1, <1>2, <1>3
  DEF Work, PrepareConflicts, Launch, MarkRunning, BindSession, CallbackFails,
      FinalizeInvocation, InvocationClosed, record

LEMMA ApplyFails ==
    ASSUME TypeOK, NEW c \in Coordinator, Apply(c)
    PROVE  RunMoves /\ FailsTogether
<1>1. ASSUME UNCHANGED run, UNCHANGED steps PROVE RunMoves /\ FailsTogether
  BY <1>1 DEF RunMoves, FailsTogether
<1>2. ASSUME NEW rec, NEW escalates, coord[c].pc = "ended", ApplyResult(c, rec, escalates)
      PROVE  RunMoves /\ FailsTogether
  BY <1>2, DispatchOf, ReplaceStepFails DEF ApplyResult, TypeOK, Undispatched
<1>3. ASSUME ChecksFail(c) PROVE RunMoves /\ FailsTogether
  <2>. DEFINE d == coord[c].dispatch
              s == d.step
  <2>1. s \in Step
    BY <1>3, DispatchOf DEF ChecksFail, AtResult, TypeOK, Undispatched
  <2>2. CASE \E target : ReplaceStep(s, Reworked(d, target))
    BY <2>1, <2>2, ReplaceStepFails DEF TypeOK
  <2>3. CASE /\ steps' = [steps EXCEPT ![s] = Reworked(d, "BLOCKED")]
             /\ \E kind : Wait(kind, s, d)
    <3>1. Moved(s, "BLOCKED") \in StepRecord /\ Moved(s, "BLOCKED").state = "BLOCKED"
      BY <2>1, MovedType, MovedState DEF TypeOK, StepStates
    <3>2. Reworked(d, "BLOCKED").state = "BLOCKED"
      BY <3>1 DEF Reworked, StepRecord
    <3>. QED  BY <2>1, <2>3, <3>2, WaitMoves, LiveReplacement DEF TypeOK
  <2>4. policy.on_changes = "escalate" => ~MayRework(d)
    BY DEF MayRework
  <2>. QED  BY <1>3, <2>2, <2>3, <2>4 DEF ChecksFail
<1>4. ASSUME PersistForwarded(c) \/ BudgetExceeded(c) PROVE RunMoves /\ FailsTogether
  <2>1. RunMoves
    <3>1. ASSUME UNCHANGED run PROVE RunMoves
      BY <3>1 DEF RunMoves
    <3>. QED  BY <1>4, <3>1, WaitMoves, MoveRunMoves DEF PersistForwarded, BudgetExceeded
  <2>2. UNCHANGED steps
    BY <1>4 DEF PersistForwarded, BudgetExceeded
  <2>. QED  BY <2>1, <2>2 DEF FailsTogether
<1>. QED
  BY <1>1, <1>2, <1>3, <1>4
  DEF Apply, ExecutorCompleted, ExecutorGivesUp, ReviewerAccepts, ReviewerRequestsChanges,
      ReviewerGivesUp, AtResult, RefuseResult, MalformedReview, ReleaseLeases, BudgetHolds, record

LEMMA FailFails ==
    ASSUME TypeOK, NEW c \in Coordinator, Fail(c)
    PROVE  RunMoves /\ FailsTogether
<1>1. ASSUME UNCHANGED run, UNCHANGED steps PROVE RunMoves /\ FailsTogether
  BY <1>1 DEF RunMoves, FailsTogether
<1>2. ASSUME SaveFailedStep(c) \/ SaveStalledStep(c) \/ SaveUnreviewedStep(c)
      PROVE  RunMoves /\ FailsTogether
  <2>1. coord[c].dispatch.step \in Step
    BY <1>2, DispatchOf
    DEF SaveFailedStep, SaveStalledStep, SaveUnreviewedStep, TypeOK, Undispatched
  <2>2. PICK rec : ReplaceStep(coord[c].dispatch.step, rec)
    BY <1>2 DEF SaveFailedStep, SaveStalledStep, SaveUnreviewedStep
  <2>. QED  BY <2>1, <2>2, ReplaceStepFails DEF TypeOK
<1>3. ASSUME AskReconciliation(c) \/ AskStallRecovery(c) PROVE RunMoves /\ FailsTogether
  BY <1>3, WaitMoves, MoveRunMoves DEF AskReconciliation, AskStallRecovery, FailsTogether
<1>. QED
  BY <1>1, <1>2, <1>3
  DEF Fail, ReloadRecord, GiveUp, SaveFailedDispatch, SaveStalledDispatch, RetryStalled, Acquire,
      SaveMalformedReview, LaterSaveConflicts, record

LEMMA AnswerFails ==
    ASSUME TypeOK, Answer
    PROVE  RunMoves /\ FailsTogether
<1>1. RunMoves
  BY MoveRunMoves
  DEF Answer, AnswerHalt, AnswerGate, AnswerQuestion, AnswerReassign, AnswerWaiver, AnswerRetry,
      AnswerReconcile, Resume
<1>2. ASSUME NEW target \in {"READY", "ACCEPTED"}, request.step \in Step
      PROVE  Moved(request.step, target) \in StepRecord /\ Moved(request.step, target).state = target
  BY <1>2, MovedType, MovedState DEF TypeOK, StepStates
<1>3. FailsTogether
  <2>1. CASE UNCHANGED steps
    BY <2>1 DEF FailsTogether
  <2>2. CASE AnswerGate
    <3>1. \A s \in Step : steps'[s].state = steps[s].state
      BY <2>2 DEF AnswerGate, TypeOK, StepsTypeOK, StepRecord
    <3>. QED  BY <3>1 DEF FailsTogether
  <2>3. CASE AnswerReassign \/ AnswerWaiver
    <3>1. request.step \in Step
      BY <2>3 DEF AnswerReassign, AnswerWaiver, Answering, TypeOK, RunTypeOK
    <3>2. /\ [Moved(request.step, "READY") EXCEPT !.reassigned = TRUE].state # "FAILED"
          /\ [Moved(request.step, "ACCEPTED") EXCEPT !.review_waived = TRUE].state # "FAILED"
      BY <1>2, <3>1 DEF StepRecord
    <3>. QED
      BY <2>3, <3>1, <3>2, LiveReplacement DEF AnswerReassign, AnswerWaiver, TypeOK
  <2>4. CASE AnswerRetry \/ AnswerReconcile
    <3>1. request.step \in Step /\ Retryable(request.step)
      BY <2>4 DEF AnswerRetry, AnswerReconcile, Answering, TypeOK, RunTypeOK
    <3>2. Unblocked(request.step).state # "FAILED"
      BY <1>2, <3>1 DEF Unblocked, Retryable
    <3>. QED
      BY <2>4, <3>1, <3>2, LiveReplacement DEF AnswerRetry, AnswerReconcile, TypeOK
  <2>. QED  BY <2>1, <2>2, <2>3, <2>4 DEF Answer, AnswerHalt, AnswerQuestion
<1>. QED  BY <1>1, <1>3

LEMMA NextFails ==
    ASSUME TypeOK, [Next]_vars
    PROVE  RunMoves /\ FailsTogether
<1>1. ASSUME UNCHANGED run, UNCHANGED steps PROVE RunMoves /\ FailsTogether
  BY <1>1 DEF RunMoves, FailsTogether
<1>2. ASSUME NEW c \in Coordinator, Start(c) \/ Proceed(c) \/ Crash(c)
      PROVE  RunMoves /\ FailsTogether
  BY <1>1, <1>2, BootstrapFails, SuperviseFails, WorkFails, ApplyFails, FailFails
  DEF Proceed, Start, StopStale, Exit, Crash, record
<1>3. CASE RecoverDispatch
  BY <1>3, InterruptedFails DEF RecoverDispatch, TypeOK, RecoverTypeOK
<1>4. CASE \/ \E d \in Dispatch : WorkerExits(d) \/ Cancel(d)
           \/ RunLeaseGoesStale \/ RecoverStart \/ RecoverCrash \/ RecoverNothing
           \/ RecoverForwarding \/ RecoverUnlock \/ RecoverJournals \/ RecoverEnd
           \/ UNCHANGED vars
  BY <1>1, <1>4
  DEF WorkerExits, Cancel, RunLeaseGoesStale, RecoverStart, RecoverCrash, RecoverNothing,
      RecoverForwarding, RecoverUnlock, RecoverJournals, RecoverEnd, vars, record
<1>. QED  BY <1>2, <1>3, <1>4, AnswerFails DEF Next, RecoverStep

(* No failed step is left behind in a run that goes on: whichever handler  *)
(* fails a step, and whatever the other processes do in between, the run   *)
(* is FAILED from that save on.                                            *)
THEOREM FailureIsTerminal == Spec => []TerminalFailure
<1>1. Init => TerminalFailure
  BY DEF Init, TerminalFailure
<1>2. TypeOK /\ TerminalFailure /\ [Next]_vars => TerminalFailure'
  BY NextFails, FailureIsKept
<1>. QED  BY <1>1, <1>2, TypeCorrect, PTL DEF Spec
-----------------------------------------------------------------------------
(* What every step but the save of prepare_dispatch does: no dispatch      *)
(* becomes active, and a process enters prepare_dispatch with the current  *)
(* generation only when none is.                                           *)
Leased(c) == coord[c].pc = "leased" /\ Fresh(c)

NoNewDispatch == \A d \in Dispatch : ActiveDispatch(d)' => ActiveDispatch(d)

LeasesKept == \A c \in Coordinator : Leased(c)' => Leased(c) \/ NoActiveDispatch

(* The strengthening: between the check and the save of prepare_dispatch,  *)
(* whoever makes a dispatch active outdates the other processes.           *)
LeasedSeesNone == \A c \in Coordinator : Leased(c) => NoActiveDispatch

LEMMA DispatchesAreKept ==
    ASSUME OneUnresolvedDispatch, LeasedSeesNone, NoNewDispatch, LeasesKept
    PROVE  OneUnresolvedDispatch' /\ LeasedSeesNone'
BY DEF OneUnresolvedDispatch, LeasedSeesNone, NoNewDispatch, LeasesKept, NoActiveDispatch

(* No transition leads back to an active dispatch.                         *)
LEMMA ActiveTable ==
    \A d \in DispatchStates : DispatchTransitions[d] # {} /\ d # "NONE" => d \in ActiveDispatchStates
BY DEF DispatchTransitions, DispatchStates, ActiveDispatchStates

LEMMA MoveDispatchKeeps ==
    ASSUME DispatchesTypeOK, NEW d \in Dispatch, NEW target, target # "PREPARED",
           target \in DispatchTransitions[dispatches[d].state],
           NEW rec, dispatches' = [dispatches EXCEPT ![d] = rec]
    PROVE  NoNewDispatch
<1>1. ActiveDispatch(d)
  BY ActiveTable, DispatchTable DEF ActiveDispatch, DispatchesTypeOK, DispatchRecord
<1>2. \A e \in Dispatch \ {d} : dispatches'[e] = dispatches[e]
  BY DEF DispatchesTypeOK
<1>. QED  BY <1>1, <1>2 DEF NoNewDispatch, ActiveDispatch

LEMMA TransitionKeeps ==
    ASSUME DispatchesTypeOK, NEW d \in Dispatch, NEW target, target # "PREPARED",
           MoveDispatch(d, target) \/ \E category : FailDispatch(d, target, category)
    PROVE  NoNewDispatch
<1>1. PICK rec : dispatches' = [dispatches EXCEPT ![d] = rec]
  <2>1. CASE MoveDispatch(d, target)
    <3>1. dispatches' = [dispatches EXCEPT ![d] =
                           [dispatches[d] EXCEPT !.state = target, !.cancel_requested = FALSE]]
      BY <2>1 DEF MoveDispatch, DispatchesTypeOK
    <3>. QED  BY <3>1
  <2>2. CASE \E category : FailDispatch(d, target, category)
    <3>1. PICK category : FailDispatch(d, target, category)
      BY <2>2
    <3>2. dispatches' = [dispatches EXCEPT ![d] =
                           [dispatches[d] EXCEPT !.state = target, !.category = category,
                                                 !.cancel_requested = FALSE]]
      BY <3>1 DEF FailDispatch, DispatchesTypeOK
    <3>. QED  BY <3>2
  <2>. QED  BY <2>1, <2>2
<1>. QED  BY <1>1, MoveDispatchKeeps DEF MoveDispatch, FailDispatch

LEMMA SaveLeases ==
    ASSUME CoordTypeOK, NEW c \in Coordinator, NEW pc, pc # "leased", Save(c, pc)
    PROVE  \A b \in Coordinator : ~Leased(b)'
<1>1. \A b \in Coordinator : b # c => ~coord'[b].fresh
  BY DEF CoordTypeOK, Save, Outdated
<1>2. coord'[c].pc = pc
  BY DEF CoordTypeOK, Save, Outdated
<1>. QED  BY <1>1, <1>2 DEF Leased, Fresh

LEMMA GoToLeases ==
    ASSUME CoordTypeOK, NEW c \in Coordinator, NEW pc, pc # "leased", GoTo(c, pc)
    PROVE  LeasesKept
BY DEF CoordTypeOK, GoTo, LeasesKept, Leased, Fresh

LEMMA OutdatedLeases ==
    ASSUME CoordTypeOK, coord' = Outdated
    PROVE  LeasesKept
BY DEF CoordTypeOK, Outdated, LeasesKept, Leased, Fresh

LEMMA AcquireLeases ==
    ASSUME NEW c \in Coordinator, NEW s, NEW kind, NEW role, Acquire(c, s, kind, role)
    PROVE  UNCHANGED dispatches /\ LeasesKept
BY DEF Acquire, CanPrepare, LeasesKept, record
-----------------------------------------------------------------------------
LEMMA BootstrapKeeps ==
    ASSUME TypeOK, NEW c \in Coordinator, Bootstrap(c)
    PROVE  NoNewDispatch /\ LeasesKept
<1>1. UNCHANGED dispatches
  BY DEF Bootstrap, NoReviewRetry, RetryReview, ExhaustReviewRetry, RefuseReviewRetry,
         RefreshReadiness, ActivateRun, RunActivated, NoVerificationRetry, RetryVerification,
         RefuseVerificationRetry, Acquire, record
<1>2. LeasesKept
  <2>1. ASSUME NEW pc, pc # "leased", Save(c, pc) PROVE LeasesKept
    BY <2>1, SaveLeases DEF TypeOK, LeasesKept
  <2>2. ASSUME NEW pc, pc # "leased", GoTo(c, pc) PROVE LeasesKept
    BY <2>2, GoToLeases DEF TypeOK
  <2>3. ASSUME NoVerificationRetry(c) PROVE LeasesKept
    BY <2>3 DEF NoVerificationRetry, TypeOK, CoordTypeOK, LeasesKept, Leased, Fresh
  <2>. QED
    BY <2>1, <2>2, <2>3, AcquireLeases
    DEF Bootstrap, NoReviewRetry, RetryReview, ExhaustReviewRetry, RefuseReviewRetry,
        RefreshReadiness, ActivateRun, RunActivated, RetryVerification, RefuseVerificationRetry
<1>. QED  BY <1>1, <1>2 DEF NoNewDispatch, ActiveDispatch

LEMMA SuperviseKeeps ==
    ASSUME TypeOK, NEW c \in Coordinator, Supervise(c)
    PROVE  NoNewDispatch /\ LeasesKept
<1>1. ASSUME UNCHANGED dispatches PROVE NoNewDispatch
  BY <1>1 DEF NoNewDispatch, ActiveDispatch
<1>2. ASSUME NEW pc, pc # "leased", Save(c, pc) PROVE LeasesKept
  BY <1>2, SaveLeases DEF TypeOK, LeasesKept
<1>3. ASSUME NEW pc, pc # "leased", GoTo(c, pc) PROVE LeasesKept
  BY <1>3, GoToLeases DEF TypeOK
<1>4. ASSUME Acknowledge(c) PROVE NoNewDispatch /\ LeasesKept
  <2>1. coord[c].dispatch \in Dispatch
    BY <1>4, DispatchOf DEF Acknowledge, TypeOK, Undispatched
  <2>2. NoNewDispatch
    BY <1>4, <2>1, TransitionKeeps DEF Acknowledge, TypeOK
  <2>3. \A b \in Coordinator : coord'[b].pc = "leased" => ~coord'[b].fresh
    <3>1. \A b \in Coordinator : b # c => ~coord'[b].fresh
      BY <1>4 DEF Acknowledge, TypeOK, CoordTypeOK, Outdated
    <3>2. coord'[c].pc = "refreshing"
      BY <1>4 DEF Acknowledge, TypeOK, CoordTypeOK, Outdated
    <3>. QED  BY <3>1, <3>2
  <2>. QED  BY <2>2, <2>3 DEF LeasesKept, Leased, Fresh
<1>5. ASSUME CommandDispatch(c) PROVE NoNewDispatch /\ LeasesKept
  BY <1>1, <1>5, AcquireLeases DEF CommandDispatch
<1>6. ASSUME FinishTurn(c) PROVE NoNewDispatch /\ LeasesKept
  BY <1>1, <1>2, <1>6 DEF FinishTurn, record
<1>. QED
  BY <1>1, <1>2, <1>3, <1>4, <1>5, <1>6
  DEF Supervise, BeginTurn, LoseRunLease, FailTurn, RequestRiskGate, AskOperator,
      RequestReviewWaiver, HaltRun, CompleteRun, RejectCommand, AbortCommand, record

LEMMA WorkKeeps ==
    ASSUME TypeOK, NEW c \in Coordinator, Work(c), ~CommitPrepared(c)
    PROVE  NoNewDispatch /\ LeasesKept
<1>1. ASSUME UNCHANGED dispatches PROVE NoNewDispatch
  BY <1>1 DEF NoNewDispatch, ActiveDispatch
<1>2. ASSUME NEW pc, pc # "leased", Save(c, pc) PROVE LeasesKept
  BY <1>2, SaveLeases DEF TypeOK, LeasesKept
<1>3. ASSUME NEW pc, pc # "leased", GoTo(c, pc) PROVE LeasesKept
  BY <1>3, GoToLeases DEF TypeOK
<1>4. ASSUME RejectPrompt(c) PROVE NoNewDispatch /\ LeasesKept
  <2>1. coord[c].dispatch \in Dispatch
    BY <1>4, DispatchOf DEF RejectPrompt, TypeOK, Undispatched
  <2>2. PICK target \in {"ABANDONED", "FAILED"} : FailDispatch(coord[c].dispatch, target, "other")
    BY <1>4 DEF RejectPrompt, Interrupted
  <2>. QED  BY <1>2, <1>4, <2>1, <2>2, TransitionKeeps DEF RejectPrompt, TypeOK
<1>5. ASSUME MarkRunning(c) PROVE NoNewDispatch /\ LeasesKept
  <2>1. coord[c].dispatch \in Dispatch
    BY <1>5, DispatchOf DEF MarkRunning, TypeOK, Undispatched
  <2>. QED  BY <1>2, <1>5, <2>1, TransitionKeeps DEF MarkRunning, TypeOK
<1>6. ASSUME FinalizeInvocation(c) PROVE NoNewDispatch /\ LeasesKept
  BY <1>1, <1>2, <1>6 DEF FinalizeInvocation, AfterWorker, record
<1>. QED
  BY <1>1, <1>2, <1>3, <1>4, <1>5, <1>6
  DEF Work, PrepareConflicts, Launch, BindSession, CallbackFails, InvocationClosed, record

LEMMA ApplyKeeps ==
    ASSUME TypeOK, NEW c \in Coordinator, Apply(c)
    PROVE  NoNewDispatch /\ LeasesKept
<1>1. ASSUME UNCHANGED dispatches PROVE NoNewDispatch
  BY <1>1 DEF NoNewDispatch, ActiveDispatch
<1>2. ASSUME NEW pc, pc # "leased", Save(c, pc) PROVE LeasesKept
  BY <1>2, SaveLeases DEF TypeOK, LeasesKept
<1>3. ASSUME NEW pc, pc # "leased", GoTo(c, pc) PROVE LeasesKept
  BY <1>3, GoToLeases DEF TypeOK
<1>4. ASSUME NEW rec, NEW escalates, coord[c].pc = "ended", ApplyResult(c, rec, escalates)
      PROVE  NoNewDispatch /\ LeasesKept
  <2>1. coord[c].dispatch \in Dispatch
    BY <1>4, DispatchOf DEF TypeOK, Undispatched
  <2>. QED  BY <1>2, <1>4, <2>1, TransitionKeeps DEF ApplyResult, TypeOK
<1>5. ASSUME ChecksFail(c) PROVE NoNewDispatch /\ LeasesKept
  <2>1. coord[c].dispatch \in Dispatch
    BY <1>5, DispatchOf DEF ChecksFail, AtResult, TypeOK, Undispatched
  <2>. QED  BY <1>2, <1>5, <2>1, TransitionKeeps DEF ChecksFail, TypeOK
<1>6. ASSUME PersistForwarded(c) PROVE NoNewDispatch /\ LeasesKept
  <2>1. coord[c].dispatch \in Dispatch
    BY <1>6, DispatchOf DEF PersistForwarded, TypeOK, Undispatched
  <2>2. dispatches' = [dispatches EXCEPT ![coord[c].dispatch] =
                         [dispatches[coord[c].dispatch] EXCEPT !.state = "FORWARDED",
                                                               !.result = TRUE]]
    BY <1>6, <2>1 DEF PersistForwarded, TypeOK, DispatchesTypeOK
  <2>3. NoNewDispatch
    BY <1>6, <2>1, <2>2, MoveDispatchKeeps DEF PersistForwarded, TypeOK
  <2>. QED  BY <1>2, <1>6, <2>3 DEF PersistForwarded
<1>7. ASSUME ReleaseLeases(c) PROVE NoNewDispatch /\ LeasesKept
  BY <1>1, <1>3, <1>7 DEF ReleaseLeases, AfterRelease, record
<1>8. ASSUME BudgetExceeded(c) PROVE NoNewDispatch /\ LeasesKept
  BY <1>1, <1>2, <1>3, <1>8 DEF BudgetExceeded
<1>. QED
  BY <1>1, <1>3, <1>4, <1>5, <1>6, <1>7, <1>8
  DEF Apply, ExecutorCompleted, ExecutorGivesUp, ReviewerAccepts, ReviewerRequestsChanges,
      ReviewerGivesUp, AtResult, RefuseResult, MalformedReview, BudgetHolds, record

LEMMA FailKeeps ==
    ASSUME TypeOK, NEW c \in Coordinator, Fail(c)
    PROVE  NoNewDispatch /\ LeasesKept
<1>1. ASSUME UNCHANGED dispatches PROVE NoNewDispatch
  BY <1>1 DEF NoNewDispatch, ActiveDispatch
<1>2. ASSUME NEW pc, pc # "leased", Save(c, pc) PROVE LeasesKept
  BY <1>2, SaveLeases DEF TypeOK, LeasesKept
<1>3. ASSUME NEW pc, pc # "leased", GoTo(c, pc) PROVE LeasesKept
  BY <1>3, GoToLeases DEF TypeOK
<1>4. ASSUME ReloadRecord(c) PROVE NoNewDispatch /\ LeasesKept
  <2>1. LeasesKept
    BY <1>4 DEF ReloadRecord, FirstSaves, TypeOK, CoordTypeOK, LeasesKept, Leased, Fresh
  <2>. QED  BY <1>1, <1>4, <2>1 DEF ReloadRecord, record
<1>5. ASSUME GiveUp(c) PROVE NoNewDispatch /\ LeasesKept
  BY <1>1, <1>3, <1>5 DEF GiveUp, record
<1>6. ASSUME SaveFailedDispatch(c) \/ SaveStalledDispatch(c) \/ SaveMalformedReview(c)
      PROVE  NoNewDispatch /\ LeasesKept
  <2>1. coord[c].dispatch \in Dispatch
    BY <1>6, DispatchOf
    DEF SaveFailedDispatch, SaveStalledDispatch, SaveMalformedReview, TypeOK, Undispatched
  <2>2. PICK target \in {"FAILED", "ABANDONED"} :
          \E category : FailDispatch(coord[c].dispatch, target, category)
    BY <1>6 DEF SaveFailedDispatch, SaveStalledDispatch, SaveMalformedReview
  <2>3. NoNewDispatch
    BY <2>1, <2>2, TransitionKeeps DEF TypeOK
  <2>. QED
    BY <1>2, <1>6, <2>3 DEF SaveFailedDispatch, SaveStalledDispatch, SaveMalformedReview
<1>7. ASSUME SaveFailedStep(c) \/ AskReconciliation(c) \/ SaveStalledStep(c)
               \/ AskStallRecovery(c) \/ SaveUnreviewedStep(c)
      PROVE  NoNewDispatch /\ LeasesKept
  BY <1>1, <1>2, <1>7
  DEF SaveFailedStep, AskReconciliation, SaveStalledStep, AskStallRecovery, SaveUnreviewedStep
<1>8. ASSUME RetryStalled(c) PROVE NoNewDispatch /\ LeasesKept
  BY <1>1, <1>8, AcquireLeases DEF RetryStalled
<1>9. ASSUME LaterSaveConflicts(c) PROVE NoNewDispatch /\ LeasesKept
  BY <1>1, <1>3, <1>9 DEF LaterSaveConflicts, record
<1>. QED
  BY <1>4, <1>5, <1>6, <1>7, <1>8, <1>9 DEF Fail

LEMMA OthersKeep ==
    ASSUME TypeOK, [Next]_vars, ~\E c \in Coordinator : CommitPrepared(c)
    PROVE  NoNewDispatch /\ LeasesKept
<1>1. ASSUME UNCHANGED dispatches PROVE NoNewDispatch
  BY <1>1 DEF NoNewDispatch, ActiveDispatch
<1>2. ASSUME UNCHANGED coord PROVE LeasesKept
  BY <1>2 DEF LeasesKept, Leased, Fresh
<1>3. ASSUME coord' = Outdated PROVE LeasesKept
  BY <1>3, OutdatedLeases DEF TypeOK
<1>4. ASSUME NEW c \in Coordinator, Start(c) \/ Exit(c) \/ Crash(c)
      PROVE  NoNewDispatch /\ LeasesKept
  <2>1. coord'[c].pc # "leased" /\ \A b \in Coordinator \ {c} : coord'[b] = coord[b]
    BY <1>4 DEF Start, Exit, Crash, Down, TypeOK, CoordTypeOK
  <2>2. LeasesKept
    BY <2>1 DEF LeasesKept, Leased, Fresh
  <2>. QED  BY <1>1, <1>4, <2>2 DEF Start, Exit, Crash, record
<1>5. ASSUME NEW c \in Coordinator, StopStale(c)
      PROVE  NoNewDispatch /\ LeasesKept
  BY <1>1, <1>5, GoToLeases DEF StopStale, TypeOK, record
<1>6. ASSUME NEW d \in Dispatch, WorkerExits(d) \/ Cancel(d)
      PROVE  NoNewDispatch /\ LeasesKept
  <2>1. CASE WorkerExits(d)
    BY <1>1, <1>2, <2>1 DEF WorkerExits, record
  <2>2. CASE Cancel(d)
    <3>1. \A e \in Dispatch : dispatches'[e].state = dispatches[e].state
      BY <2>2 DEF Cancel, TypeOK, DispatchesTypeOK, DispatchRecord
    <3>. QED  BY <1>3, <2>2, <3>1 DEF Cancel, NoNewDispatch, ActiveDispatch
  <2>. QED  BY <1>6, <2>1, <2>2
<1>7. ASSUME Answer PROVE NoNewDispatch /\ LeasesKept
  BY <1>1, <1>3, <1>7
  DEF Answer, AnswerHalt, AnswerGate, AnswerQuestion, AnswerReassign, AnswerWaiver, AnswerRetry,
      AnswerReconcile, Resume
<1>8. ASSUME RecoverDispatch PROVE NoNewDispatch /\ LeasesKept
  <2>1. PICK target \in {"ABANDONED", "FAILED"} : FailDispatch(recover.dispatch, target, "other")
    BY <1>8 DEF RecoverDispatch, Interrupted
  <2>2. recover.dispatch \in Dispatch
    BY <1>8 DEF RecoverDispatch, TypeOK, RecoverTypeOK
  <2>. QED  BY <1>3, <1>8, <2>1, <2>2, TransitionKeeps DEF RecoverDispatch, TypeOK
<1>9. ASSUME RecoverJournals PROVE NoNewDispatch /\ LeasesKept
  BY <1>1, <1>2, <1>3, <1>9 DEF RecoverJournals, record
<1>10. ASSUME \/ RunLeaseGoesStale \/ RecoverStart \/ RecoverCrash \/ RecoverNothing
              \/ RecoverForwarding \/ RecoverUnlock \/ RecoverEnd \/ UNCHANGED vars
       PROVE  NoNewDispatch /\ LeasesKept
  BY <1>1, <1>2, <1>10
  DEF RunLeaseGoesStale, RecoverStart, RecoverCrash, RecoverNothing, RecoverForwarding,
      RecoverUnlock, RecoverEnd, vars, record
<1>. QED
  BY <1>4, <1>5, <1>6, <1>7, <1>8, <1>9, <1>10, BootstrapKeeps, SuperviseKeeps, WorkKeeps,
     ApplyKeeps, FailKeeps
  DEF Next, Proceed, RecoverStep

(* The save of prepare_dispatch: nothing was active, and its own dispatch  *)
(* is now; whoever else is at that point has an old generation.            *)
LEMMA CommitKeeps ==
    ASSUME TypeOK, LeasedSeesNone, NEW c \in Coordinator, CommitPrepared(c)
    PROVE  OneUnresolvedDispatch' /\ LeasedSeesNone'
<1>1. NoActiveDispatch
  BY DEF CommitPrepared, LeasedSeesNone, Leased
<1>2. \A e \in Dispatch \ {coord[c].dispatch} : dispatches'[e] = dispatches[e]
  BY DEF CommitPrepared, TypeOK, DispatchesTypeOK
<1>3. OneUnresolvedDispatch'
  BY <1>1, <1>2 DEF OneUnresolvedDispatch, NoActiveDispatch, ActiveDispatch
<1>4. \A b \in Coordinator : ~Leased(b)'
  BY SaveLeases DEF CommitPrepared, TypeOK
<1>. QED  BY <1>3, <1>4 DEF LeasedSeesNone

(* A sequential run has one unresolved dispatch at most, for any number of *)
(* execute processes: a lease that changes hands, a recovery, an answer or *)
(* a cancellation between the check and the save of prepare_dispatch moves *)
(* the generation, and the save is refused.                                *)
THEOREM OneDispatchAtATime == Spec => []OneUnresolvedDispatch
<1>1. Init => OneUnresolvedDispatch /\ LeasedSeesNone
  BY DEF Init, Down, OneUnresolvedDispatch, LeasedSeesNone, Leased, ActiveDispatch,
         ActiveDispatchStates
<1>2. TypeOK /\ OneUnresolvedDispatch /\ LeasedSeesNone /\ [Next]_vars
        => OneUnresolvedDispatch' /\ LeasedSeesNone'
  BY OthersKeep, DispatchesAreKept, CommitKeeps
<1>. QED  BY <1>1, <1>2, TypeCorrect, PTL DEF Spec
=============================================================================
