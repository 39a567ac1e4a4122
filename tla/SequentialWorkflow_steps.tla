---------------------- MODULE SequentialWorkflow_steps ----------------------
(***************************************************************************)
(* What a step of SequentialWorkflow may do, whichever action it is: to    *)
(* the processes that do not act, to a dispatch, to a step, and how a      *)
(* process gets to a point of its handlers.  SequentialWorkflow_control    *)
(* proves its invariants from these frames, so that it looks at an action  *)
(* only where the action matters.                                          *)
(***************************************************************************)
EXTENDS SequentialWorkflow_safety

(* What a process does to itself and to the others.                        *)
Same(c) ==
    /\ coord'[c].pc = coord[c].pc
    /\ coord'[c].dispatch = coord[c].dispatch
    /\ coord'[c].role = coord[c].role

(* c saves: the rest holds a stale generation.                             *)
Saved(c, pc) ==
    /\ coord'[c].pc = pc
    /\ coord'[c].fresh
    /\ coord'[c].dispatch = coord[c].dispatch
    /\ \A b \in Coordinator \ {c} : Same(b) /\ ~coord'[b].fresh

(* c goes on without a save.                                               *)
Went(c, pc) ==
    /\ coord'[c].pc = pc
    /\ coord'[c].fresh = coord[c].fresh
    /\ coord'[c].dispatch = coord[c].dispatch
    /\ \A b \in Coordinator \ {c} : coord'[b] = coord[b]

LEMMA SaveFrame ==
    ASSUME CoordTypeOK, NEW c \in Coordinator, NEW pc, Save(c, pc)
    PROVE  Saved(c, pc)
<1>. DEFINE next == [coord[c] EXCEPT !.pc = pc, !.fresh = TRUE]
            stale(b) == [coord[b] EXCEPT !.fresh = FALSE]
<1>1. coord' = [b \in Coordinator |-> IF b = c THEN [stale(c) EXCEPT !.pc = pc, !.fresh = TRUE]
                                      ELSE stale(b)]
  BY DEF Save, Outdated
<1>2. \A b \in Coordinator :
        /\ stale(b).pc = coord[b].pc /\ stale(b).dispatch = coord[b].dispatch
        /\ stale(b).role = coord[b].role /\ stale(b).fresh = FALSE
  BY DEF CoordTypeOK
<1>3. LET r == [stale(c) EXCEPT !.pc = pc, !.fresh = TRUE] IN
        r.pc = pc /\ r.fresh = TRUE /\ r.dispatch = coord[c].dispatch
  BY DEF CoordTypeOK
<1>. QED  BY <1>1, <1>2, <1>3 DEF Saved, Same

LEMMA GoToFrame ==
    ASSUME CoordTypeOK, NEW c \in Coordinator, NEW pc, GoTo(c, pc)
    PROVE  Went(c, pc)
<1>1. coord' = [coord EXCEPT ![c] = [coord[c] EXCEPT !.pc = pc]]
  BY DEF GoTo
<1>2. LET r == [coord[c] EXCEPT !.pc = pc] IN
        r.pc = pc /\ r.fresh = coord[c].fresh /\ r.dispatch = coord[c].dispatch
  BY DEF CoordTypeOK
<1>. QED  BY <1>1, <1>2 DEF Went, CoordTypeOK

LEMMA OutdatedFrame ==
    ASSUME CoordTypeOK, coord' = Outdated
    PROVE  \A b \in Coordinator : Same(b) /\ ~coord'[b].fresh
BY DEF CoordTypeOK, Outdated, Same

(* Somebody who does not act keeps its place, and either its generation is *)
(* stale now or the record is what it was.                                 *)
Bystander(b) == Same(b) /\ (coord'[b].fresh => coord[b].fresh /\ UNCHANGED record)

LEMMA SavedBystanders ==
    ASSUME NEW c \in Coordinator, NEW pc, Saved(c, pc)
    PROVE  \A b \in Coordinator \ {c} : Bystander(b)
BY DEF Saved, Bystander

LEMMA WentBystanders ==
    ASSUME NEW c \in Coordinator, NEW pc, Went(c, pc), UNCHANGED record
    PROVE  \A b \in Coordinator \ {c} : Bystander(b)
BY DEF Went, Bystander, Same

LEMMA AcquireFrame ==
    ASSUME CoordTypeOK, NEW c \in Coordinator, NEW s, NEW kind, NEW role, Acquire(c, s, kind, role)
    PROVE  /\ coord'[c].pc = "leased" /\ coord'[c].fresh = coord[c].fresh
           /\ coord'[c].dispatch = NextDispatch(s, kind) /\ coord'[c].role = role
           /\ \A b \in Coordinator \ {c} : Bystander(b)
           /\ UNCHANGED record
<1>1. coord' = [coord EXCEPT ![c] = [coord[c] EXCEPT !.pc = "leased", !.role = role,
                                             !.dispatch = NextDispatch(s, kind)]]
  BY DEF Acquire
<1>2. LET r == [coord[c] EXCEPT !.pc = "leased", !.role = role, !.dispatch = NextDispatch(s, kind)]
      IN  r.pc = "leased" /\ r.fresh = coord[c].fresh /\ r.dispatch = NextDispatch(s, kind)
            /\ r.role = role
  BY DEF CoordTypeOK
<1>3. UNCHANGED record
  BY DEF Acquire
<1>. QED  BY <1>1, <1>2, <1>3 DEF CoordTypeOK, Bystander, Same
-----------------------------------------------------------------------------
(* Every step of another process leaves a process where it is.             *)
LEMMA ProceedBystanders ==
    ASSUME TypeOK, NEW c \in Coordinator, Proceed(c)
    PROVE  \A b \in Coordinator \ {c} : Bystander(b)
<1>. DEFINE Goal == \A b \in Coordinator \ {c} : Bystander(b)
<1>1. ASSUME NEW pc, Save(c, pc) PROVE Goal
  BY <1>1, SaveFrame, SavedBystanders DEF TypeOK
<1>2. ASSUME NEW pc, GoTo(c, pc), UNCHANGED record PROVE Goal
  BY <1>2, GoToFrame, WentBystanders DEF TypeOK
<1>3. ASSUME NEW s, NEW kind, NEW role, Acquire(c, s, kind, role) PROVE Goal
  BY <1>3, AcquireFrame DEF TypeOK
<1>4. ASSUME NEW rec, coord' = [coord EXCEPT ![c] = rec], UNCHANGED record PROVE Goal
  BY <1>4 DEF TypeOK, CoordTypeOK, Bystander, Same
<1>. HIDE DEF Goal
<1>5. ASSUME Bootstrap(c) PROVE Goal
  <2>1. CASE NoReviewRetry(c) \/ RunActivated(c)
    BY <2>1, <1>2 DEF NoReviewRetry, RunActivated
  <2>2. CASE RetryReview(c) \/ RetryVerification(c)
    BY <2>2, <1>3 DEF RetryReview, RetryVerification
  <2>3. CASE ExhaustReviewRetry(c) \/ RefuseReviewRetry(c) \/ ActivateRun(c) \/ RefuseVerificationRetry(c)
    BY <2>3, <1>1 DEF ExhaustReviewRetry, RefuseReviewRetry, ActivateRun, RefuseVerificationRetry
  <2>4. CASE RefreshReadiness(c)
    <3>1. CASE NewlyReady = {}
      BY <2>4, <3>1, <1>2 DEF RefreshReadiness, record
    <3>2. CASE NewlyReady # {}
      BY <2>4, <3>2, <1>1 DEF RefreshReadiness
    <3>. QED  BY <3>1, <3>2
  <2>5. CASE NoVerificationRetry(c)
    BY <2>5, <1>4 DEF NoVerificationRetry
  <2>. QED  BY <1>5, <2>1, <2>2, <2>3, <2>4, <2>5 DEF Bootstrap
<1>6. ASSUME Supervise(c) PROVE Goal
  <2>1. CASE BeginTurn(c) \/ LoseRunLease(c) \/ RejectCommand(c) \/ AbortCommand(c)
    BY <2>1, <1>2 DEF BeginTurn, LoseRunLease, RejectCommand, AbortCommand
  <2>2. CASE FinishTurn(c) \/ FailTurn(c)
    BY <2>2, <1>1, <1>2 DEF FinishTurn, FailTurn
  <2>3. CASE Acknowledge(c)
    <3>1. coord' = [Outdated EXCEPT ![c] = [Outdated[c] EXCEPT !.pc = "refreshing", !.fresh = TRUE,
                                                               !.dispatch = None]]
      BY <2>3 DEF Acknowledge, Outdated
    <3>2. \A b \in Coordinator \ {c} : coord'[b] = [coord[b] EXCEPT !.fresh = FALSE]
      BY <3>1 DEF Outdated
    <3>. DEFINE stale(b) == [coord[b] EXCEPT !.fresh = FALSE]
    <3>4. \A b \in Coordinator :
            /\ stale(b).pc = coord[b].pc /\ stale(b).dispatch = coord[b].dispatch
            /\ stale(b).role = coord[b].role /\ stale(b).fresh = FALSE
      BY DEF TypeOK, CoordTypeOK
    <3>3. \A b \in Coordinator \ {c} : Same(b) /\ ~coord'[b].fresh
      BY <3>2, <3>4 DEF Same
    <3>. QED  BY <3>3 DEF Bystander, Goal
  <2>4. CASE CommandDispatch(c)
    BY <2>4, <1>3 DEF CommandDispatch
  <2>5. CASE \/ RequestRiskGate(c) \/ AskOperator(c) \/ RequestReviewWaiver(c)
             \/ HaltRun(c) \/ CompleteRun(c)
    BY <2>5, <1>1 DEF RequestRiskGate, AskOperator, RequestReviewWaiver, HaltRun, CompleteRun
  <2>. QED  BY <1>6, <2>1, <2>2, <2>3, <2>4, <2>5 DEF Supervise
<1>7. ASSUME Work(c) PROVE Goal
  BY <1>7, <1>1, <1>2
  DEF Work, CommitPrepared, PrepareConflicts, Launch, RejectPrompt, MarkRunning, BindSession,
      CallbackFails, FinalizeInvocation, InvocationClosed
<1>8. ASSUME Apply(c) PROVE Goal
  <2>1. CASE \/ ExecutorCompleted(c) \/ ExecutorGivesUp(c) \/ ReviewerAccepts(c)
             \/ ReviewerRequestsChanges(c) \/ ReviewerGivesUp(c) \/ ChecksFail(c)
             \/ PersistForwarded(c)
    BY <2>1, <1>1
    DEF ExecutorCompleted, ExecutorGivesUp, ReviewerAccepts, ReviewerRequestsChanges,
        ReviewerGivesUp, ChecksFail, PersistForwarded, ApplyResult
  <2>2. CASE RefuseResult(c) \/ MalformedReview(c) \/ ReleaseLeases(c) \/ BudgetHolds(c)
    BY <2>2, <1>2 DEF RefuseResult, MalformedReview, ReleaseLeases, BudgetHolds
  <2>3. CASE BudgetExceeded(c)
    BY <2>3, <1>1, <1>2 DEF BudgetExceeded, record
  <2>. QED  BY <1>8, <2>1, <2>2, <2>3 DEF Apply
<1>9. ASSUME Fail(c) PROVE Goal
  <2>1. CASE ReloadRecord(c)
    <3>1. coord' = [coord EXCEPT ![c] = [coord[c] EXCEPT !.fresh = TRUE]]
      BY <2>1 DEF ReloadRecord
    <3>. QED  BY <2>1, <3>1, <1>4 DEF ReloadRecord
  <2>2. CASE GiveUp(c) \/ LaterSaveConflicts(c)
    BY <2>2, <1>2 DEF GiveUp, LaterSaveConflicts
  <2>3. CASE RetryStalled(c)
    BY <2>3, <1>3 DEF RetryStalled
  <2>4. CASE \/ SaveFailedDispatch(c) \/ SaveFailedStep(c) \/ AskReconciliation(c)
             \/ SaveStalledDispatch(c) \/ SaveStalledStep(c) \/ AskStallRecovery(c)
             \/ SaveMalformedReview(c) \/ SaveUnreviewedStep(c)
    BY <2>4, <1>1
    DEF SaveFailedDispatch, SaveFailedStep, AskReconciliation, SaveStalledDispatch,
        SaveStalledStep, AskStallRecovery, SaveMalformedReview, SaveUnreviewedStep
  <2>. QED  BY <1>9, <2>1, <2>2, <2>3, <2>4 DEF Fail
<1>10. ASSUME StopStale(c) \/ Exit(c) PROVE Goal
  <2>1. CASE StopStale(c)
    BY <2>1, <1>2 DEF StopStale
  <2>2. CASE Exit(c)
    BY <2>2, <1>4 DEF Exit
  <2>. QED  BY <1>10, <2>1, <2>2
<1>. QED  BY <1>5, <1>6, <1>7, <1>8, <1>9, <1>10 DEF Proceed, Goal

(* A process acts when it starts, goes on or crashes.                      *)
Acts(c) == Start(c) \/ Proceed(c) \/ Crash(c)

LEMMA Bystanders ==
    ASSUME TypeOK, [Next]_vars, NEW b \in Coordinator, ~Acts(b)
    PROVE  Bystander(b)
<1>1. ASSUME coord' = Outdated PROVE Bystander(b)
  BY <1>1, OutdatedFrame DEF TypeOK, Bystander
<1>2. ASSUME UNCHANGED <<record, coord>> PROVE Bystander(b)
  BY <1>2 DEF Bystander, Same
<1>3. ASSUME NEW c \in Coordinator, Acts(c) PROVE Bystander(b)
  <2>1. c # b
    BY <1>3
  <2>2. CASE Start(c) \/ Crash(c)
    <3>1. coord'[b] = coord[b] /\ UNCHANGED record
      BY <2>1, <2>2 DEF Start, Crash, TypeOK, CoordTypeOK
    <3>. QED  BY <3>1 DEF Bystander, Same
  <2>. QED  BY <1>3, <2>1, <2>2, ProceedBystanders DEF Acts
<1>4. CASE Answer \/ RecoverDispatch \/ RecoverJournals \/ \E d \in Dispatch : Cancel(d)
  BY <1>4, <1>1, <1>2
  DEF Answer, AnswerHalt, AnswerGate, AnswerQuestion, AnswerReassign, AnswerWaiver, AnswerRetry,
      AnswerReconcile, Resume, RecoverDispatch, RecoverJournals, Cancel
<1>5. CASE \/ \E d \in Dispatch : WorkerExits(d)
           \/ RunLeaseGoesStale \/ RecoverStart \/ RecoverCrash \/ RecoverNothing
           \/ RecoverForwarding \/ RecoverUnlock \/ RecoverEnd \/ UNCHANGED vars
  BY <1>5, <1>2
  DEF WorkerExits, RunLeaseGoesStale, RecoverStart, RecoverCrash, RecoverNothing,
      RecoverForwarding, RecoverUnlock, RecoverEnd, vars
<1>. QED  BY <1>3, <1>4, <1>5 DEF Next, Acts, RecoverStep
-----------------------------------------------------------------------------
(* What becomes of a dispatch.                                             *)
Delivered == {"COMPLETED", "FORWARDED", "ACKNOWLEDGED"}
Lost == {"FAILED", "ABANDONED"}
Settled == Delivered \cup Lost

(* A transition of one dispatch that leaves its identity and the others.   *)
DispatchStep(d, target) ==
    /\ dispatches'[d].state = target
    /\ dispatches'[d].role = dispatches[d].role
    /\ dispatches'[d].target = dispatches[d].target
    /\ \A e \in Dispatch \ {d} : dispatches'[e] = dispatches[e]

LEMMA MoveFrame ==
    ASSUME DispatchesTypeOK, NEW d \in Dispatch, NEW target, MoveDispatch(d, target)
    PROVE  DispatchStep(d, target) /\ target \in DispatchTransitions[dispatches[d].state]
<1>. DEFINE rec == [dispatches[d] EXCEPT !.state = target, !.cancel_requested = FALSE]
<1>1. dispatches' = [dispatches EXCEPT ![d] = rec]
  BY DEF MoveDispatch, DispatchesTypeOK
<1>2. rec.state = target /\ rec.role = dispatches[d].role /\ rec.target = dispatches[d].target
  BY DEF DispatchesTypeOK, DispatchRecord
<1>3. dispatches'[d] = rec /\ \A e \in Dispatch \ {d} : dispatches'[e] = dispatches[e]
  BY <1>1 DEF DispatchesTypeOK
<1>. QED  BY <1>2, <1>3 DEF DispatchStep, MoveDispatch

LEMMA FailFrame ==
    ASSUME DispatchesTypeOK, NEW d \in Dispatch, NEW target, NEW category,
           FailDispatch(d, target, category)
    PROVE  DispatchStep(d, target) /\ target \in DispatchTransitions[dispatches[d].state]
<1>. DEFINE rec == [dispatches[d] EXCEPT !.state = target, !.category = category,
                                         !.cancel_requested = FALSE]
<1>1. dispatches' = [dispatches EXCEPT ![d] = rec]
  BY DEF FailDispatch, DispatchesTypeOK
<1>2. rec.state = target /\ rec.role = dispatches[d].role /\ rec.target = dispatches[d].target
  BY DEF DispatchesTypeOK, DispatchRecord
<1>3. dispatches'[d] = rec /\ \A e \in Dispatch \ {d} : dispatches'[e] = dispatches[e]
  BY <1>1 DEF DispatchesTypeOK
<1>. QED  BY <1>2, <1>3 DEF DispatchStep, FailDispatch

LEMMA ForwardFrame ==
    ASSUME TypeOK, NEW c \in Coordinator, PersistForwarded(c)
    PROVE  /\ DispatchStep(coord[c].dispatch, "FORWARDED")
           /\ dispatches[coord[c].dispatch].state = "COMPLETED"
<1>. DEFINE d == coord[c].dispatch
            rec == [dispatches[d] EXCEPT !.state = "FORWARDED", !.result = TRUE]
<1>1. d \in Dispatch
  BY DispatchOf DEF PersistForwarded, Undispatched, TypeOK
<1>2. dispatches' = [dispatches EXCEPT ![d] = rec]
  BY <1>1 DEF PersistForwarded, TypeOK, DispatchesTypeOK
<1>3. rec.state = "FORWARDED" /\ rec.role = dispatches[d].role /\ rec.target = dispatches[d].target
  BY <1>1 DEF TypeOK, DispatchesTypeOK, DispatchRecord
<1>4. dispatches'[d] = rec /\ \A e \in Dispatch \ {d} : dispatches'[e] = dispatches[e]
  BY <1>1, <1>2 DEF TypeOK, DispatchesTypeOK
<1>5. dispatches[d].state \in DispatchStates /\ "FORWARDED" \in DispatchTransitions[dispatches[d].state]
  BY <1>1 DEF PersistForwarded, TypeOK, DispatchesTypeOK, DispatchRecord
<1>6. dispatches[d].state = "COMPLETED"
  BY <1>5 DEF DispatchStates, DispatchTransitions
<1>. QED  BY <1>3, <1>4, <1>6 DEF DispatchStep

(* The one handler that makes a dispatch RUNNING.                          *)
Marks(d) == \E c \in Coordinator : MarkRunning(c) /\ coord[c].dispatch = d

(* A dispatch only goes forward: what it was made for stays, what settled  *)
(* is settled, what was delivered or lost remains so.                      *)
Steady(d) ==
    /\ dispatches[d].state # "NONE" =>
          /\ dispatches'[d].state # "NONE"
          /\ dispatches'[d].role = dispatches[d].role
          /\ dispatches'[d].target = dispatches[d].target
    /\ dispatches[d].state \in Delivered => dispatches'[d].state \in Delivered
    /\ dispatches[d].state \in Lost => dispatches'[d].state = dispatches[d].state
    /\ dispatches[d].state = "NONE" => dispatches'[d].state = "NONE"
    /\ dispatches'[d].state = "RUNNING" => dispatches[d].state = "RUNNING" \/ Marks(d)

LEMMA SameIsSteady == UNCHANGED dispatches => \A d \in Dispatch : Steady(d)
BY DEF Steady

LEMMA StepIsSteady ==
    ASSUME DispatchesTypeOK, NEW d \in Dispatch, NEW target, DispatchStep(d, target),
           target \in DispatchTransitions[dispatches[d].state],
           target # "PREPARED",
           target = "ABANDONED" => dispatches[d].state \in InFlightStates,
           target = "RUNNING" => Marks(d)
    PROVE  \A e \in Dispatch : Steady(e)
<1>1. dispatches[d].state \in DispatchStates
  BY DEF DispatchesTypeOK, DispatchRecord
<1>2. CASE dispatches[d].state = "NONE"
  BY <1>2 DEF DispatchTransitions, DispatchStates
<1>3. CASE dispatches[d].state \in {"PREPARED", "RUNNING"}
  <2>1. target # "NONE"
    BY <1>3 DEF DispatchTransitions, DispatchStates
  <2>. QED  BY <1>3, <2>1 DEF DispatchStep, Steady, Delivered, Lost
<1>4. CASE dispatches[d].state \in {"COMPLETED", "FORWARDED"}
  <2>1. target \in {"FORWARDED", "ACKNOWLEDGED"}
    BY <1>4 DEF DispatchTransitions, DispatchStates, InFlightStates
  <2>. QED  BY <1>4, <2>1 DEF DispatchStep, Steady, Delivered, Lost
<1>5. CASE dispatches[d].state \in {"ACKNOWLEDGED", "FAILED", "ABANDONED"}
  BY <1>5 DEF DispatchTransitions, DispatchStates
<1>. QED  BY <1>1, <1>2, <1>3, <1>4, <1>5 DEF DispatchStates

LEMMA FailIsSteady ==
    ASSUME DispatchesTypeOK, NEW d \in Dispatch, NEW target \in Lost, NEW category,
           FailDispatch(d, target, category), dispatches[d].state \in InFlightStates
    PROVE  \A e \in Dispatch : Steady(e)
BY FailFrame, StepIsSteady DEF Lost

LEMMA InterruptedIsSteady ==
    ASSUME DispatchesTypeOK, NEW d \in Dispatch, Interrupted(d)
    PROVE  /\ \A e \in Dispatch : Steady(e)
           /\ InFlight(d) /\ dispatches'[d].state \in Lost
<1>1. PICK target \in Lost : FailDispatch(d, target, "other")
  BY DEF Interrupted, Lost
<1>2. InFlight(d) /\ dispatches[d].state \in InFlightStates
  BY DEF Interrupted, InFlight
<1>. QED  BY <1>1, <1>2, FailIsSteady, FailFrame DEF DispatchStep

(* Every step but the save of prepare_dispatch.                            *)
LEMMA DispatchesAreSteady ==
    ASSUME TypeOK, [Next]_vars, ~\E c \in Coordinator : CommitPrepared(c)
    PROVE  \A d \in Dispatch : Steady(d)
<1>. DEFINE Goal == \A d \in Dispatch : Steady(d)
<1>1. ASSUME UNCHANGED dispatches PROVE Goal
  BY <1>1, SameIsSteady
<1>2. ASSUME NEW c \in Coordinator, coord[c].pc \notin Undispatched
      PROVE  coord[c].dispatch \in Dispatch
  BY <1>2, DispatchOf DEF TypeOK
<1>. HIDE DEF Goal
<1>3. ASSUME NEW c \in Coordinator, Bootstrap(c) \/ Start(c) \/ Crash(c) \/ StopStale(c) \/ Exit(c)
      PROVE  Goal
  BY <1>1, <1>3
  DEF Bootstrap, NoReviewRetry, RetryReview, ExhaustReviewRetry, RefuseReviewRetry,
      RefreshReadiness, ActivateRun, RunActivated, NoVerificationRetry, RetryVerification,
      RefuseVerificationRetry, Acquire, record, Start, Crash, StopStale, Exit
<1>4. ASSUME NEW c \in Coordinator, Supervise(c) PROVE Goal
  <2>1. CASE Acknowledge(c)
    <3>1. coord[c].dispatch \in Dispatch /\ MoveDispatch(coord[c].dispatch, "ACKNOWLEDGED")
      BY <2>1, <1>2 DEF Acknowledge, Undispatched
    <3>. QED  BY <3>1, MoveFrame, StepIsSteady DEF TypeOK, Goal
  <2>2. CASE ~Acknowledge(c)
    BY <1>1, <1>4, <2>2
    DEF Supervise, BeginTurn, LoseRunLease, FinishTurn, FailTurn, CommandDispatch, Acquire,
        RequestRiskGate, AskOperator, RequestReviewWaiver, HaltRun, CompleteRun, RejectCommand,
        AbortCommand, record
  <2>. QED  BY <2>1, <2>2
<1>5. ASSUME NEW c \in Coordinator, Work(c) PROVE Goal
  <2>1. CASE RejectPrompt(c)
    BY <2>1, <1>2, InterruptedIsSteady DEF RejectPrompt, Undispatched, TypeOK, Goal
  <2>2. CASE MarkRunning(c)
    <3>1. coord[c].dispatch \in Dispatch /\ MoveDispatch(coord[c].dispatch, "RUNNING")
      BY <2>2, <1>2 DEF MarkRunning, Undispatched
    <3>2. Marks(coord[c].dispatch)
      BY <2>2 DEF Marks
    <3>. QED  BY <3>1, <3>2, MoveFrame, StepIsSteady DEF TypeOK, Goal
  <2>3. CASE ~RejectPrompt(c) /\ ~MarkRunning(c)
    BY <1>1, <1>5, <2>3
    DEF Work, PrepareConflicts, Launch, BindSession, CallbackFails, FinalizeInvocation,
        InvocationClosed, record
  <2>. QED  BY <2>1, <2>2, <2>3
<1>6. ASSUME NEW c \in Coordinator, Apply(c) PROVE Goal
  <2>1. ASSUME NEW rec, NEW escalates, coord[c].pc = "ended", ApplyResult(c, rec, escalates)
        PROVE  Goal
    <3>1. coord[c].dispatch \in Dispatch /\ MoveDispatch(coord[c].dispatch, "COMPLETED")
      BY <2>1, <1>2 DEF ApplyResult, Undispatched
    <3>. QED  BY <3>1, MoveFrame, StepIsSteady DEF TypeOK, Goal
  <2>2. CASE ChecksFail(c)
    <3>1. coord[c].dispatch \in Dispatch /\ dispatches[coord[c].dispatch].state \in InFlightStates
      BY <2>2, <1>2 DEF ChecksFail, AtResult, Undispatched, InFlightStates
    <3>2. PICK category : FailDispatch(coord[c].dispatch, "FAILED", category)
      BY <2>2 DEF ChecksFail
    <3>. QED  BY <3>1, <3>2, FailIsSteady DEF TypeOK, Lost, Goal
  <2>3. CASE PersistForwarded(c)
    <3>1. coord[c].dispatch \in Dispatch
      BY <2>3, <1>2 DEF PersistForwarded, Undispatched
    <3>2. "FORWARDED" \in DispatchTransitions[dispatches[coord[c].dispatch].state]
      BY <2>3 DEF PersistForwarded
    <3>. QED  BY <2>3, <3>1, <3>2, ForwardFrame, StepIsSteady DEF TypeOK, Goal
  <2>4. CASE RefuseResult(c) \/ MalformedReview(c) \/ ReleaseLeases(c) \/ BudgetHolds(c) \/ BudgetExceeded(c)
    BY <1>1, <2>4
    DEF RefuseResult, MalformedReview, ReleaseLeases, BudgetHolds, BudgetExceeded, record
  <2>. QED
    BY <1>6, <2>1, <2>2, <2>3, <2>4
    DEF Apply, ExecutorCompleted, ExecutorGivesUp, ReviewerAccepts, ReviewerRequestsChanges,
        ReviewerGivesUp, AtResult
<1>7. ASSUME NEW c \in Coordinator, Fail(c) PROVE Goal
  <2>1. CASE SaveFailedDispatch(c) \/ SaveStalledDispatch(c) \/ SaveMalformedReview(c)
    <3>1. coord[c].dispatch \in Dispatch /\ dispatches[coord[c].dispatch].state \in InFlightStates
      BY <2>1, <1>2
      DEF SaveFailedDispatch, SaveStalledDispatch, SaveMalformedReview, Undispatched, InFlight,
          InFlightStates
    <3>2. PICK target \in Lost, category \in FailureCategories :
               FailDispatch(coord[c].dispatch, target, category)
      BY <2>1 DEF SaveFailedDispatch, SaveStalledDispatch, SaveMalformedReview, Lost,
                  FailureCategories
    <3>. QED  BY <3>1, <3>2, FailIsSteady DEF TypeOK, Goal
  <2>2. CASE ~SaveFailedDispatch(c) /\ ~SaveStalledDispatch(c) /\ ~SaveMalformedReview(c)
    BY <1>1, <1>7, <2>2
    DEF Fail, ReloadRecord, GiveUp, SaveFailedStep, AskReconciliation, SaveStalledStep,
        AskStallRecovery, RetryStalled, Acquire, SaveUnreviewedStep, LaterSaveConflicts, record
  <2>. QED  BY <2>1, <2>2
<1>8. ASSUME NEW d \in Dispatch, Cancel(d) PROVE Goal
  <2>1. \A e \in Dispatch : /\ dispatches'[e].state = dispatches[e].state
                            /\ dispatches'[e].role = dispatches[e].role
                            /\ dispatches'[e].target = dispatches[e].target
    BY <1>8 DEF Cancel, TypeOK, DispatchesTypeOK, DispatchRecord
  <2>. QED  BY <2>1 DEF Goal, Steady
<1>9. CASE RecoverDispatch
  <2>1. recover.dispatch \in Dispatch
    BY <1>9 DEF RecoverDispatch, TypeOK, RecoverTypeOK
  <2>. QED  BY <1>9, <2>1, InterruptedIsSteady DEF RecoverDispatch, TypeOK, Goal
<1>10. CASE Answer
  <2>1. UNCHANGED dispatches
    BY <1>10
    DEF Answer, AnswerHalt, AnswerGate, AnswerQuestion, AnswerReassign, AnswerWaiver, AnswerRetry,
      AnswerReconcile, Resume
  <2>. QED  BY <1>1, <2>1 DEF Goal
<1>11. CASE \/ \E d \in Dispatch : WorkerExits(d)
            \/ RunLeaseGoesStale \/ RecoverStart \/ RecoverCrash \/ RecoverNothing
            \/ RecoverForwarding \/ RecoverUnlock \/ RecoverJournals \/ RecoverEnd
            \/ UNCHANGED vars
  <2>1. UNCHANGED dispatches
    BY <1>11
    DEF WorkerExits, RunLeaseGoesStale, RecoverStart, RecoverCrash, RecoverNothing,
      RecoverForwarding, RecoverUnlock, RecoverJournals, RecoverEnd, vars, record
  <2>. QED  BY <1>1, <2>1 DEF Goal
<1>. QED
  BY <1>3, <1>4, <1>5, <1>6, <1>7, <1>8, <1>9, <1>10, <1>11 DEF Goal, Next, Proceed, RecoverStep
-----------------------------------------------------------------------------
(* What becomes of a step.  Attempts and gates are not touched by any      *)
(* transition of a step other than those made for them.                    *)
SameWork(s, rec) ==
    /\ rec.executor_attempts = steps[s].executor_attempts
    /\ rec.reviewer_attempts = steps[s].reviewer_attempts
    /\ rec.gate_resolved = steps[s].gate_resolved

SameVotes(s, rec) ==
    /\ rec.review_acceptances = steps[s].review_acceptances
    /\ rec.accepted_reviewers = steps[s].accepted_reviewers

NoVotes(rec) == rec.review_acceptances = 0 /\ rec.accepted_reviewers = {}

(* The records that the handlers write.                                    *)
LEMMA MovedShape ==
    ASSUME StepsTypeOK, NEW s \in Step, NEW target
    PROVE  /\ Moved(s, target).state = target
           /\ SameWork(s, Moved(s, target)) /\ SameVotes(s, Moved(s, target))
           /\ Moved(s, target).review_waived = FALSE
BY DEF Moved, StepsTypeOK, StepRecord, SameWork, SameVotes

LEMMA CountedShape ==
    ASSUME StepsTypeOK, NEW s \in Step, NEW target, NEW n
    PROVE  LET rounds == [Moved(s, target) EXCEPT !.rework_rounds = n]
               stalls == [Moved(s, target) EXCEPT !.stalls = n]
               reassigned == [Moved(s, target) EXCEPT !.reassigned = TRUE] IN
           /\ rounds.state = target /\ SameWork(s, rounds) /\ SameVotes(s, rounds)
           /\ stalls.state = target /\ SameWork(s, stalls) /\ SameVotes(s, stalls)
           /\ reassigned.state = target /\ SameWork(s, reassigned)
BY DEF Moved, StepsTypeOK, StepRecord, SameWork, SameVotes

LEMMA FreshResultShape ==
    ASSUME StepsTypeOK, NEW s \in Step, NEW target
    PROVE  LET rec == [Moved(s, target) EXCEPT !.evidence = TRUE, !.review_acceptances = 0,
                                               !.accepted_reviewers = {}] IN
           rec.state = target /\ SameWork(s, rec) /\ NoVotes(rec)
BY DEF Moved, StepsTypeOK, StepRecord, SameWork, NoVotes

LEMMA WaivedShape ==
    ASSUME StepsTypeOK, NEW s \in Step, NEW target
    PROVE  LET rec == [Moved(s, target) EXCEPT !.review_waived = TRUE] IN
           rec.state = target /\ SameWork(s, rec) /\ SameVotes(s, rec) /\ rec.review_waived = TRUE
BY DEF Moved, StepsTypeOK, StepRecord, SameWork, SameVotes

LEMMA ReworkedShape ==
    ASSUME StepsTypeOK, NEW d \in Dispatch, NEW target
    PROVE  Reworked(d, target).state = target /\ SameWork(d.step, Reworked(d, target))
<1>. DEFINE rec == [Moved(d.step, target) EXCEPT !.rework_rounds = @ + 1]
            reset == [rec EXCEPT !.review_acceptances = 0, !.accepted_reviewers = {},
                                 !.evidence = FALSE]
<1>1. d.step \in Step
  BY DEF Dispatch
<1>2. rec.state = target /\ SameWork(d.step, rec)
  BY <1>1 DEF Moved, StepsTypeOK, StepRecord, SameWork
<1>3. reset.state = target /\ SameWork(d.step, reset)
  BY <1>1 DEF Moved, StepsTypeOK, StepRecord, SameWork
<1>4. Reworked(d, target) = IF d.kind = "executor" THEN rec ELSE reset
  BY DEF Reworked
<1>. QED  BY <1>2, <1>3, <1>4

(* Where a step was when its handler moves it.                             *)
LEMMA MoveTable ==
    ASSUME StepsTypeOK, NEW s \in Step, NEW via, NEW target, MayMove(s, via, target)
    PROVE  /\ via = "EXECUTED" => steps[s].state = "EXECUTING"
           /\ via = "CHANGES_REQUESTED" => steps[s].state = "REVIEWING"
           /\ via = "BLOCKED" =>
                /\ steps[s].state \in {"READY", "EXECUTING", "REVIEW_REQUIRED", "REVIEWING",
                                       "CHANGES_REQUESTED"}
                /\ target \in {"BLOCKED", "READY", "WAIVED", "FAILED"}
           /\ via \in {"ACCEPTED", "REVIEW_REQUIRED"} =>
                steps[s].state \in {"EXECUTED", "EXECUTING", "REVIEWING", "CHANGES_REQUESTED"}
<1>1. steps[s].state \in StepStates
  BY DEF StepsTypeOK, StepRecord
<1>. QED  BY <1>1 DEF MayMove, StepStates, StepTransitions
-----------------------------------------------------------------------------
(* How the votes of a step under review come about.                        *)
ReviewStates == {"REVIEW_REQUIRED", "REVIEWING", "ACCEPTED"}

VotesFollow(s, rec) ==
    \/ /\ steps[s].state \in {"REVIEW_REQUIRED", "REVIEWING"}
       /\ SameVotes(s, rec)
       /\ rec.state = "ACCEPTED" => rec.review_waived
    \/ /\ NoVotes(rec)
       /\ rec.state = "ACCEPTED" => RequiredAcceptances[s] = 0
    \/ \E d \in Dispatch :
        /\ d.step = s /\ d.kind = "reviewer"
        /\ dispatches[d].state = "RUNNING" /\ dispatches'[d].state = "COMPLETED"
        /\ rec.review_acceptances = steps[s].review_acceptances + 1
        /\ rec.accepted_reviewers = steps[s].accepted_reviewers \cup {dispatches[d].role}
        /\ rec.state = "ACCEPTED" => rec.review_acceptances >= RequiredAcceptances[s]

(* A transition of a step other than the save of prepare_dispatch.         *)
Turn(s, rec) ==
    /\ SameWork(s, rec)
    /\ steps[s].state \notin SettledStepStates
    /\ rec.state \notin {"WAIVED", "PENDING", "EXECUTING", "REVIEWING"}
    /\ steps[s].state = "PENDING" => rec.state = "READY" /\ DependenciesSettled(s)
    /\ steps[s].state = "BLOCKED" /\ rec.state = "READY" =>
          run = "WAITING_OPERATOR" /\ request.step = s
    /\ rec.state \in ReviewStates => VotesFollow(s, rec)

GateOpens(s) ==
    /\ run = "WAITING_OPERATOR"
    /\ steps'[s] = [steps[s] EXCEPT !.gate_resolved = TRUE]

Turns(s) == steps'[s] = steps[s] \/ Turn(s, steps'[s]) \/ GateOpens(s)

LEMMA OneTurns ==
    ASSUME StepsTypeOK, NEW s \in Step, NEW rec, Turn(s, rec),
           steps' = [steps EXCEPT ![s] = rec]
    PROVE  \A t \in Step : Turns(t)
<1>1. steps'[s] = rec /\ \A t \in Step \ {s} : steps'[t] = steps[t]
  BY DEF StepsTypeOK
<1>. QED  BY <1>1 DEF Turns

LEMMA ReplaceTurns ==
    ASSUME StepsTypeOK, NEW s \in Step, NEW rec, Turn(s, rec), ReplaceStep(s, rec)
    PROVE  \A t \in Step : Turns(t)
BY OneTurns DEF ReplaceStep

(* A step that leaves its work aside: no vote is needed or lost.           *)
LEMMA AsideTurn ==
    ASSUME NEW s \in Step, NEW rec, SameWork(s, rec),
           steps[s].state \notin {"PENDING", "BLOCKED", "ACCEPTED", "WAIVED"},
           rec.state \in {"READY", "BLOCKED", "FAILED"}
    PROVE  Turn(s, rec)
BY DEF Turn, SettledStepStates, ReviewStates

(* A step whose review is still to be done, with the votes it has.         *)
LEMMA ReviewTurn ==
    ASSUME NEW s \in Step, NEW rec, SameWork(s, rec), SameVotes(s, rec),
           steps[s].state \in {"REVIEW_REQUIRED", "REVIEWING"},
           rec.state = "REVIEW_REQUIRED"
    PROVE  Turn(s, rec)
BY DEF Turn, SettledStepStates, ReviewStates, VotesFollow

LEMMA InterruptedTurns ==
    ASSUME StepsTypeOK, NEW d \in Dispatch, Interrupted(d)
    PROVE  \A t \in Step : Turns(t)
<1>. DEFINE s == d.step
            target == IF steps[s].state = "EXECUTING" THEN "BLOCKED" ELSE "REVIEW_REQUIRED"
<1>1. s \in Step
  BY DEF Dispatch
<1>2. steps[s].state \in {"EXECUTING", "REVIEWING"} /\ steps' = [steps EXCEPT ![s] = Moved(s, target)]
  BY DEF Interrupted
<1>3. Turn(s, Moved(s, target))
  BY <1>1, <1>2, MovedShape, AsideTurn, ReviewTurn
<1>. QED  BY <1>1, <1>2, <1>3, OneTurns
-----------------------------------------------------------------------------
LEMMA BootstrapTurns ==
    ASSUME TypeOK, NEW c \in Coordinator, Bootstrap(c)
    PROVE  \A t \in Step : Turns(t)
<1>1. ASSUME UNCHANGED steps PROVE \A t \in Step : Turns(t)
  BY <1>1 DEF Turns
<1>2. CASE ExhaustReviewRetry(c)
  <2>1. PICK d \in MalformedReviews :
          UNCHANGED steps \/ ReplaceStep(d.step, Moved(d.step, "FAILED"))
    BY <1>2 DEF ExhaustReviewRetry
  <2>2. d.step \in Step /\ steps[d.step].state = "REVIEW_REQUIRED"
    BY DEF MalformedReviews, Dispatch
  <2>3. Turn(d.step, Moved(d.step, "FAILED"))
    BY <2>2, MovedShape, AsideTurn DEF TypeOK
  <2>. QED  BY <1>1, <2>1, <2>2, <2>3, ReplaceTurns DEF TypeOK
<1>3. CASE RefreshReadiness(c)
  <2>1. CASE NewlyReady = {}
    BY <1>1, <1>3, <2>1 DEF RefreshReadiness
  <2>2. CASE NewlyReady # {}
    <3>1. \A s \in Step : steps'[s] = IF s \in NewlyReady THEN Moved(s, "READY") ELSE steps[s]
      BY <1>3, <2>2 DEF RefreshReadiness
    <3>2. ASSUME NEW s \in NewlyReady PROVE s \in Step /\ Turn(s, Moved(s, "READY"))
      <4>1. s \in Step /\ steps[s].state = "PENDING" /\ DependenciesSettled(s)
        BY DEF NewlyReady
      <4>. QED  BY <4>1, MovedShape DEF TypeOK, Turn, SettledStepStates, ReviewStates
    <3>. QED  BY <3>1, <3>2 DEF Turns
  <2>. QED  BY <2>1, <2>2
<1>4. CASE RefuseVerificationRetry(c)
  <2>1. PICK d \in FailedChecks : steps' = [steps EXCEPT ![d.step] = Moved(d.step, "BLOCKED")]
    BY <1>4 DEF RefuseVerificationRetry
  <2>2. d.step \in Step /\ steps[d.step].state = "READY"
    BY DEF FailedChecks, Dispatch
  <2>3. Turn(d.step, Moved(d.step, "BLOCKED"))
    BY <2>2, MovedShape, AsideTurn DEF TypeOK
  <2>. QED  BY <2>1, <2>2, <2>3, OneTurns DEF TypeOK
<1>5. CASE ~ExhaustReviewRetry(c) /\ ~RefreshReadiness(c) /\ ~RefuseVerificationRetry(c)
  <2>1. UNCHANGED steps
    BY <1>5
    DEF Bootstrap, NoReviewRetry, RetryReview, RefuseReviewRetry, ActivateRun, RunActivated,
        NoVerificationRetry, RetryVerification, Acquire, record
  <2>. QED  BY <1>1, <2>1
<1>. QED  BY <1>2, <1>3, <1>4, <1>5

LEMMA SuperviseTurns ==
    ASSUME NEW c \in Coordinator, Supervise(c)
    PROVE  UNCHANGED steps
BY DEF Supervise, BeginTurn, LoseRunLease, FinishTurn, FailTurn, Acknowledge, CommandDispatch,
       Acquire, RequestRiskGate, AskOperator, RequestReviewWaiver, HaltRun, CompleteRun,
       RejectCommand, AbortCommand, record

LEMMA WorkTurns ==
    ASSUME TypeOK, NEW c \in Coordinator, Work(c), ~CommitPrepared(c)
    PROVE  \A t \in Step : Turns(t)
<1>1. CASE RejectPrompt(c)
  <2>1. coord[c].dispatch \in Dispatch /\ Interrupted(coord[c].dispatch)
    BY <1>1, DispatchOf DEF RejectPrompt, TypeOK, Undispatched
  <2>. QED  BY <2>1, InterruptedTurns DEF TypeOK
<1>2. CASE ~RejectPrompt(c)
  <2>1. UNCHANGED steps
    BY <1>2
    DEF Work, PrepareConflicts, Launch, MarkRunning, BindSession, CallbackFails,
        FinalizeInvocation, InvocationClosed, record
  <2>. QED  BY <2>1 DEF Turns
<1>. QED  BY <1>1, <1>2

(* The outcomes of a worker, one by one.                                   *)
LEMMA OutcomeTurns ==
    ASSUME TypeOK, NEW c \in Coordinator,
           \/ ExecutorCompleted(c) \/ ExecutorGivesUp(c) \/ ReviewerAccepts(c)
           \/ ReviewerRequestsChanges(c) \/ ReviewerGivesUp(c)
    PROVE  \A t \in Step : Turns(t)
<1>. DEFINE d == coord[c].dispatch
            s == d.step
<1>1. d \in Dispatch /\ s \in Step
  BY DispatchOf
  DEF ExecutorCompleted, ExecutorGivesUp, ReviewerAccepts, ReviewerRequestsChanges,
      ReviewerGivesUp, AtResult, TypeOK, Undispatched
<1>2. ASSUME NEW rec, NEW escalates, ApplyResult(c, rec, escalates), Turn(s, rec)
      PROVE  \A t \in Step : Turns(t)
  BY <1>1, <1>2, ReplaceTurns DEF ApplyResult, TypeOK
<1>3. CASE ExecutorCompleted(c)
  <2>. DEFINE target == IF Reviewers[s] = {} THEN "ACCEPTED" ELSE "REVIEW_REQUIRED"
              rec == [Moved(s, target) EXCEPT !.evidence = TRUE, !.review_acceptances = 0,
                                              !.accepted_reviewers = {}]
  <2>1. MayMove(s, "EXECUTED", target) /\ ApplyResult(c, rec, FALSE)
    BY <1>3 DEF ExecutorCompleted
  <2>2. rec.state = target /\ SameWork(s, rec) /\ NoVotes(rec)
    <3>. HIDE DEF target
    <3>. QED  BY <1>1, FreshResultShape DEF TypeOK
  <2>3. steps[s].state = "EXECUTING"
    BY <1>1, <2>1, MoveTable DEF TypeOK
  <2>4. target = "ACCEPTED" => RequiredAcceptances[s] = 0
    BY <1>1, ReviewAssumption
  <2>. HIDE DEF rec
  <2>5. Turn(s, rec)
    BY <2>2, <2>3, <2>4 DEF Turn, SettledStepStates, ReviewStates, VotesFollow
  <2>. QED  BY <1>2, <2>1, <2>5
<1>4. CASE ExecutorGivesUp(c)
  <2>0. PICK on \in {policy.on_blocked, policy.on_failed} :
          LET target == IF on = "retry" /\ ExecutorRetriesLeft(s) THEN "READY"
                        ELSE IF on = "escalate" THEN "BLOCKED" ELSE "FAILED"
          IN /\ MayMove(s, "BLOCKED", target)
             /\ ApplyResult(c, Moved(s, target), on = "escalate")
    BY <1>4 DEF ExecutorGivesUp
  <2>. DEFINE target == IF on = "retry" /\ ExecutorRetriesLeft(s) THEN "READY"
                        ELSE IF on = "escalate" THEN "BLOCKED" ELSE "FAILED"
              escalates == on = "escalate"
  <2>1. /\ target \in {"READY", "BLOCKED", "FAILED"}
        /\ MayMove(s, "BLOCKED", target) /\ ApplyResult(c, Moved(s, target), escalates)
    BY <2>0
  <2>. HIDE DEF target, escalates
  <2>2. Turn(s, Moved(s, target))
    <3>1. /\ steps[s].state \notin {"PENDING", "BLOCKED", "ACCEPTED", "WAIVED"}
          /\ target \in {"READY", "BLOCKED", "FAILED"}
      BY <1>1, <2>1, MoveTable DEF TypeOK
    <3>2. Moved(s, target).state = target /\ SameWork(s, Moved(s, target))
      BY <1>1, MovedShape DEF TypeOK
    <3>. QED  BY <1>1, <3>1, <3>2, AsideTurn
  <2>. QED  BY <1>2, <2>1, <2>2
<1>5. CASE ReviewerAccepts(c)
  <2>. DEFINE votes == steps[s].review_acceptances + 1
              target == IF votes >= RequiredAcceptances[s] THEN "ACCEPTED" ELSE "REVIEW_REQUIRED"
              voters == steps[s].accepted_reviewers \cup {dispatches[d].role}
              evidence == target = "ACCEPTED"
              rec == [Moved(s, target) EXCEPT !.review_acceptances = votes,
                                              !.accepted_reviewers = voters,
                                              !.evidence = evidence]
  <2>1. MayMove(s, target, target) /\ ApplyResult(c, rec, FALSE)
    <3>1. [Moved(s, target) EXCEPT !.review_acceptances = votes,
                                   !.accepted_reviewers = @ \cup {dispatches[d].role},
                                   !.evidence = (target = "ACCEPTED")] = rec
      <4>1. Moved(s, target).accepted_reviewers = steps[s].accepted_reviewers
        BY <1>1, MovedShape DEF TypeOK, SameVotes
      <4>. QED  BY <4>1
    <3>2. /\ MayMove(s, target, target)
          /\ ApplyResult(c, [Moved(s, target) EXCEPT !.review_acceptances = votes,
                                  !.accepted_reviewers = @ \cup {dispatches[d].role},
                                  !.evidence = (target = "ACCEPTED")], FALSE)
      BY <1>5 DEF ReviewerAccepts
    <3>. QED  BY <3>1, <3>2
  <2>2. /\ rec.state = target /\ SameWork(s, rec)
        /\ rec.review_acceptances = votes /\ rec.accepted_reviewers = voters
    <3>. HIDE DEF target, votes, voters, evidence
    <3>. QED  BY <1>1 DEF TypeOK, Moved, StepsTypeOK, StepRecord, SameWork
  <2>3. steps[s].state \notin {"PENDING", "BLOCKED", "ACCEPTED", "WAIVED"}
    BY <1>1, <2>1, MoveTable DEF TypeOK
  <2>4. /\ d.kind = "reviewer" /\ dispatches[d].state = "RUNNING"
        /\ dispatches'[d].state = "COMPLETED"
    BY <1>1, <1>5, <2>1, MoveFrame DEF ReviewerAccepts, AtResult, ApplyResult, DispatchStep, TypeOK
  <2>. HIDE DEF rec
  <2>5. VotesFollow(s, rec)
    <3>1. rec.state = "ACCEPTED" => rec.review_acceptances >= RequiredAcceptances[s]
      BY <2>2
    <3>. QED  BY <1>1, <2>2, <2>4, <3>1 DEF VotesFollow
  <2>6. Turn(s, rec)
    BY <2>2, <2>3, <2>5 DEF Turn, SettledStepStates
  <2>. QED  BY <1>2, <2>1, <2>6
<1>6. CASE ReviewerRequestsChanges(c)
  <2>. DEFINE n == steps[s].rework_rounds + 1
              tie == TieBreak(s, dispatches[d].role)
              target == IF tie THEN "REVIEW_REQUIRED"
                        ELSE IF /\ policy.on_changes = "retry"
                                /\ n < MaxReworkRounds
                                /\ ExecutorRetriesLeft(s) THEN "READY"
                        ELSE IF policy.on_changes = "escalate" THEN "BLOCKED" ELSE "FAILED"
              escalates == target = "BLOCKED"
              rec == [Moved(s, target) EXCEPT !.rework_rounds = n]
  <2>1. /\ target \in {"REVIEW_REQUIRED", "READY", "BLOCKED", "FAILED"}
        /\ MayMove(s, "CHANGES_REQUESTED", target) /\ ApplyResult(c, rec, escalates)
    BY <1>6 DEF ReviewerRequestsChanges
  <2>. HIDE DEF target, n, tie, escalates
  <2>2. rec.state = target /\ SameWork(s, rec) /\ SameVotes(s, rec)
    BY <1>1, CountedShape DEF TypeOK
  <2>3. steps[s].state = "REVIEWING"
    BY <1>1, <2>1, MoveTable DEF TypeOK
  <2>. HIDE DEF rec
  <2>4. Turn(s, rec)
    BY <1>1, <2>1, <2>2, <2>3, AsideTurn, ReviewTurn
  <2>. QED  BY <1>2, <2>1, <2>4
<1>7. CASE ReviewerGivesUp(c)
  <2>. DEFINE target == BlockedReviewTarget(s)
              escalates == target = "BLOCKED"
  <2>1. /\ target \in {"REVIEW_REQUIRED", "BLOCKED", "FAILED"}
        /\ MayMove(s, "BLOCKED", target) /\ ApplyResult(c, Moved(s, target), escalates)
    BY <1>7 DEF ReviewerGivesUp, BlockedReviewTarget
  <2>. HIDE DEF target, escalates
  <2>2. Turn(s, Moved(s, target))
    <3>1. /\ steps[s].state \notin {"PENDING", "BLOCKED", "ACCEPTED", "WAIVED"}
          /\ target \in {"READY", "BLOCKED", "FAILED"}
      BY <1>1, <2>1, MoveTable DEF TypeOK
    <3>2. Moved(s, target).state = target /\ SameWork(s, Moved(s, target))
      BY <1>1, MovedShape DEF TypeOK
    <3>. QED  BY <1>1, <3>1, <3>2, AsideTurn
  <2>. QED  BY <1>2, <2>1, <2>2
<1>. QED  BY <1>3, <1>4, <1>5, <1>6, <1>7

LEMMA ApplyTurns ==
    ASSUME TypeOK, NEW c \in Coordinator, Apply(c)
    PROVE  \A t \in Step : Turns(t)
<1>1. CASE ChecksFail(c)
  <2>. DEFINE d == coord[c].dispatch
              s == d.step
              via == IF d.kind = "executor" THEN "BLOCKED" ELSE "CHANGES_REQUESTED"
              target == IF MayRework(d) THEN "READY"
                        ELSE IF policy.on_changes = "escalate" THEN "BLOCKED" ELSE "FAILED"
  <2>1. d \in Dispatch /\ s \in Step
    BY <1>1, DispatchOf DEF ChecksFail, AtResult, TypeOK, Undispatched
  <2>2. /\ MayMove(s, via, target)
        /\ \/ steps' = [steps EXCEPT ![s] = Reworked(d, target)]
           \/ steps' = [steps EXCEPT ![s] = Reworked(d, "BLOCKED")]
    BY <1>1 DEF ChecksFail, ReplaceStep
  <2>3. target \in {"READY", "BLOCKED", "FAILED"} /\ via \in {"BLOCKED", "CHANGES_REQUESTED"}
    OBVIOUS
  <2>. HIDE DEF target, via
  <2>4. steps[s].state \notin {"PENDING", "BLOCKED", "ACCEPTED", "WAIVED"}
    BY <2>1, <2>2, <2>3, MoveTable DEF TypeOK
  <2>5. /\ Reworked(d, target).state = target /\ SameWork(s, Reworked(d, target))
        /\ Reworked(d, "BLOCKED").state = "BLOCKED" /\ SameWork(s, Reworked(d, "BLOCKED"))
    BY <2>1, ReworkedShape DEF TypeOK
  <2>6. Turn(s, Reworked(d, target)) /\ Turn(s, Reworked(d, "BLOCKED"))
    BY <2>1, <2>3, <2>4, <2>5, AsideTurn
  <2>. QED  BY <2>1, <2>2, <2>6, OneTurns DEF TypeOK
<1>2. CASE PersistForwarded(c) \/ RefuseResult(c) \/ MalformedReview(c) \/ ReleaseLeases(c)
           \/ BudgetHolds(c) \/ BudgetExceeded(c)
  <2>1. UNCHANGED steps
    BY <1>2
    DEF PersistForwarded, RefuseResult, MalformedReview, ReleaseLeases, BudgetHolds,
        BudgetExceeded, record
  <2>. QED  BY <2>1 DEF Turns
<1>. QED  BY <1>1, <1>2, OutcomeTurns DEF Apply

LEMMA FailTurns ==
    ASSUME TypeOK, NEW c \in Coordinator, Fail(c)
    PROVE  \A t \in Step : Turns(t)
<1>. DEFINE d == coord[c].dispatch
            s == d.step
<1>1. CASE SaveFailedStep(c) \/ SaveStalledStep(c) \/ SaveUnreviewedStep(c)
  <2>1. d \in Dispatch /\ s \in Step
    BY <1>1, DispatchOf DEF SaveFailedStep, SaveStalledStep, SaveUnreviewedStep, TypeOK,
                            Undispatched
  <2>2. CASE SaveFailedStep(c)
    <3>1. steps[s].state \in {"EXECUTING", "REVIEWING"} /\ ReplaceStep(s, Moved(s, Boundary(s)))
      BY <2>2 DEF SaveFailedStep
    <3>2. Turn(s, Moved(s, Boundary(s)))
      BY <2>1, <3>1, MovedShape, AsideTurn, ReviewTurn DEF Boundary, TypeOK
    <3>. QED  BY <2>1, <3>1, <3>2, ReplaceTurns DEF TypeOK
  <2>3. CASE SaveStalledStep(c)
    <3>. DEFINE retry == StallRetryAllowed(d)
                fails == ~retry /\ policy.on_exhausted = "fail"
                target == IF fails THEN "FAILED"
                          ELSE IF retry /\ steps[s].state = "EXECUTING" THEN "READY" ELSE Boundary(s)
                n == Moved(s, target).stalls + 1
                rec == [Moved(s, target) EXCEPT !.stalls = n]
    <3>1. steps[s].state \in {"EXECUTING", "REVIEWING"} /\ ReplaceStep(s, rec)
      BY <2>3 DEF SaveStalledStep
    <3>2. \/ target \in {"READY", "BLOCKED", "FAILED"}
          \/ target = "REVIEW_REQUIRED" /\ steps[s].state = "REVIEWING"
      BY <3>1 DEF Boundary
    <3>. HIDE DEF target, n
    <3>3. rec.state = target /\ SameWork(s, rec) /\ SameVotes(s, rec)
      BY <2>1, CountedShape DEF TypeOK
    <3>. HIDE DEF rec
    <3>4. Turn(s, rec)
      BY <2>1, <3>1, <3>2, <3>3, AsideTurn, ReviewTurn
    <3>. QED  BY <2>1, <3>1, <3>4, ReplaceTurns DEF TypeOK
  <2>4. CASE SaveUnreviewedStep(c)
    <3>. DEFINE n == Moved(s, "REVIEW_REQUIRED").stalls + 1
                rec == [Moved(s, "REVIEW_REQUIRED") EXCEPT !.stalls = n]
    <3>1. steps[s].state = "REVIEWING" /\ ReplaceStep(s, rec)
      BY <2>4 DEF SaveUnreviewedStep
    <3>. HIDE DEF n
    <3>2. rec.state = "REVIEW_REQUIRED" /\ SameWork(s, rec) /\ SameVotes(s, rec)
      BY <2>1, CountedShape DEF TypeOK
    <3>. HIDE DEF rec
    <3>3. Turn(s, rec)
      BY <2>1, <3>1, <3>2, ReviewTurn
    <3>. QED  BY <2>1, <3>1, <3>3, ReplaceTurns DEF TypeOK
  <2>. QED  BY <1>1, <2>2, <2>3, <2>4
<1>2. CASE ~SaveFailedStep(c) /\ ~SaveStalledStep(c) /\ ~SaveUnreviewedStep(c)
  <2>1. UNCHANGED steps
    BY <1>2
    DEF Fail, ReloadRecord, GiveUp, SaveFailedDispatch, AskReconciliation, SaveStalledDispatch,
        AskStallRecovery, RetryStalled, Acquire, SaveMalformedReview, LaterSaveConflicts, record
  <2>. QED  BY <2>1 DEF Turns
<1>. QED  BY <1>1, <1>2

LEMMA AnswerTurns ==
    ASSUME TypeOK, Answer
    PROVE  \A t \in Step : Turns(t)
<1>. DEFINE s == request.step
<1>1. CASE AnswerHalt \/ AnswerQuestion
  BY <1>1 DEF AnswerHalt, AnswerQuestion, Turns
<1>2. CASE AnswerGate
  <2>1. run = "WAITING_OPERATOR" /\ s \in Step
    BY <1>2 DEF AnswerGate, Answering, TypeOK, RunTypeOK
  <2>2. steps' = [steps EXCEPT ![s] = [steps[s] EXCEPT !.gate_resolved = TRUE]]
    BY <1>2, <2>1 DEF AnswerGate, TypeOK, StepsTypeOK
  <2>3. /\ steps'[s] = [steps[s] EXCEPT !.gate_resolved = TRUE]
        /\ \A t \in Step \ {s} : steps'[t] = steps[t]
    BY <2>1, <2>2 DEF TypeOK, StepsTypeOK
  <2>. QED  BY <2>1, <2>3 DEF Turns, GateOpens
<1>3. CASE AnswerReassign
  <2>. DEFINE rec == [Moved(s, "READY") EXCEPT !.reassigned = TRUE]
  <2>1. /\ run = "WAITING_OPERATOR" /\ s \in Step /\ steps[s].state = "BLOCKED"
        /\ steps' = [steps EXCEPT ![s] = rec]
    BY <1>3 DEF AnswerReassign, Answering, TypeOK, RunTypeOK
  <2>2. rec.state = "READY" /\ SameWork(s, rec)
    BY <2>1, CountedShape DEF TypeOK
  <2>. HIDE DEF rec
  <2>3. Turn(s, rec)
    BY <2>1, <2>2 DEF Turn, SettledStepStates, ReviewStates
  <2>. QED  BY <2>1, <2>3, OneTurns DEF TypeOK
<1>4. CASE AnswerWaiver
  <2>. DEFINE rec == [Moved(s, "ACCEPTED") EXCEPT !.review_waived = TRUE]
  <2>1. /\ s \in Step /\ steps[s].state = "REVIEW_REQUIRED" /\ steps' = [steps EXCEPT ![s] = rec]
    BY <1>4 DEF AnswerWaiver, Answering, TypeOK, RunTypeOK
  <2>2. rec.state = "ACCEPTED" /\ SameWork(s, rec) /\ SameVotes(s, rec) /\ rec.review_waived = TRUE
    BY <2>1, WaivedShape DEF TypeOK
  <2>. HIDE DEF rec
  <2>3. Turn(s, rec)
    BY <2>1, <2>2 DEF Turn, SettledStepStates, ReviewStates, VotesFollow
  <2>. QED  BY <2>1, <2>3, OneTurns DEF TypeOK
<1>5. CASE AnswerRetry \/ AnswerReconcile
  <2>1. /\ run = "WAITING_OPERATOR" /\ s \in Step /\ Retryable(s)
        /\ steps' = [steps EXCEPT ![s] = Unblocked(s)]
    BY <1>5 DEF AnswerRetry, AnswerReconcile, Answering, TypeOK, RunTypeOK
  <2>2. CASE steps[s].state = "BLOCKED"
    <3>1. steps' = [steps EXCEPT ![s] = Moved(s, "READY")]
      BY <2>1, <2>2 DEF Unblocked
    <3>2. Moved(s, "READY").state = "READY" /\ SameWork(s, Moved(s, "READY"))
      BY <2>1, MovedShape DEF TypeOK
    <3>3. Turn(s, Moved(s, "READY"))
      BY <2>1, <2>2, <3>2 DEF Turn, SettledStepStates, ReviewStates
    <3>. QED  BY <2>1, <3>1, <3>3, OneTurns DEF TypeOK
  <2>3. CASE steps[s].state # "BLOCKED"
    <3>1. \A t \in Step : steps'[t] = steps[t]
      BY <2>1, <2>3 DEF Unblocked, TypeOK, StepsTypeOK
    <3>. QED  BY <3>1 DEF Turns
  <2>. QED  BY <2>2, <2>3
<1>. QED  BY <1>1, <1>2, <1>3, <1>4, <1>5 DEF Answer

(* Every step of the system but the save of prepare_dispatch.              *)
LEMMA StepsTurn ==
    ASSUME TypeOK, [Next]_vars, ~\E c \in Coordinator : CommitPrepared(c)
    PROVE  \A t \in Step : Turns(t)
<1>1. ASSUME UNCHANGED steps PROVE \A t \in Step : Turns(t)
  BY <1>1 DEF Turns
<1>2. ASSUME NEW c \in Coordinator, Start(c) \/ Crash(c) \/ StopStale(c) \/ Exit(c)
      PROVE  \A t \in Step : Turns(t)
  BY <1>1, <1>2 DEF Start, Crash, StopStale, Exit, record
<1>3. CASE RecoverDispatch
  <2>1. recover.dispatch \in Dispatch /\ Interrupted(recover.dispatch)
    BY <1>3 DEF RecoverDispatch, TypeOK, RecoverTypeOK
  <2>. QED  BY <2>1, InterruptedTurns DEF TypeOK
<1>4. CASE \/ \E d \in Dispatch : WorkerExits(d) \/ Cancel(d)
           \/ RunLeaseGoesStale \/ RecoverStart \/ RecoverCrash \/ RecoverNothing
           \/ RecoverForwarding \/ RecoverUnlock \/ RecoverJournals \/ RecoverEnd
           \/ UNCHANGED vars
  <2>1. UNCHANGED steps
    BY <1>4
    DEF WorkerExits, Cancel, RunLeaseGoesStale, RecoverStart, RecoverCrash, RecoverNothing,
        RecoverForwarding, RecoverUnlock, RecoverJournals, RecoverEnd, vars, record
  <2>. QED  BY <1>1, <2>1
<1>5. ASSUME NEW c \in Coordinator, Proceed(c) PROVE \A t \in Step : Turns(t)
  BY <1>1, <1>2, <1>5, BootstrapTurns, SuperviseTurns, WorkTurns, ApplyTurns, FailTurns DEF Proceed
<1>. QED  BY <1>2, <1>3, <1>4, <1>5, AnswerTurns DEF Next, RecoverStep
-----------------------------------------------------------------------------
(* Where a process is, and how it got there.                               *)
Resting == CoordinatorStates \ (Attending \cup {"leased", "exit", "unleasing"})

Plain ==
    {"down", "resuming", "activating", "starting", "verify_retry", "turn", "supervising",
     "acknowledging", "refreshing", "command", "releasing", "budget", "reworked", "rechecking",
     "unleasing", "stall_releasing", "stall_retry", "invalid_step", "review_retry", "exit"}

Acquires(c) ==
    \E s \in Step, kind \in {"executor", "reviewer"}, role \in Role : Acquire(c, s, kind, role)

Applies(c) ==
    \/ ExecutorCompleted(c) \/ ExecutorGivesUp(c)
    \/ ReviewerAccepts(c) \/ ReviewerRequestsChanges(c) \/ ReviewerGivesUp(c)

(* The one action, or the few, that lead to a point of a handler.          *)
Arrives(c) ==
    LET pc == coord'[c].pc IN
    /\ pc = "leased" => Acquires(c)
    /\ pc = "launching" => CommitPrepared(c)
    /\ pc = "launched" => Launch(c)
    /\ pc = "marked" => MarkRunning(c)
    /\ pc = "working" => BindSession(c)
    /\ pc = "erring" => CallbackFails(c)
    /\ pc = "ended" => FinalizeInvocation(c)
    /\ pc \in FirstSaves =>
          FinalizeInvocation(c) \/ RefuseResult(c) \/ MalformedReview(c) \/ ReloadRecord(c)
    /\ pc \in {"failed_prepared", "failed_running"} => SaveFailedDispatch(c)
    /\ pc = "failed_step" => SaveFailedStep(c)
    /\ pc = "stalled" => SaveStalledDispatch(c)
    /\ pc = "stalled_step" => SaveStalledStep(c)
    /\ pc = "invalidated" => SaveMalformedReview(c)
    /\ pc \in {"completed", "escalating"} => Applies(c)

(* A process that rests with a dispatch has seen it settled.               *)
Passes(c) ==
    coord'[c].pc \in Resting /\ coord'[c].dispatch # None =>
        /\ coord'[c].dispatch = coord[c].dispatch
        /\ coord[c].pc \in Resting \/ dispatches'[coord[c].dispatch].state \in Settled

LEMMA PlainArrives ==
    ASSUME NEW c \in Coordinator, coord'[c].pc \in Plain
    PROVE  Arrives(c)
BY DEF Plain, Arrives, FirstSaves

LEMMA AcquireArrives ==
    ASSUME TypeOK, NEW c \in Coordinator, NEW s \in Step, NEW kind \in {"executor", "reviewer"},
           NEW role, Acquire(c, s, kind, role)
    PROVE  Arrives(c) /\ Passes(c)
<1>1. coord'[c].pc = "leased"
  BY AcquireFrame DEF TypeOK
<1>2. role \in Role
  BY NextDispatchType DEF Acquire, TypeOK
<1>. QED  BY <1>1, <1>2 DEF Arrives, Acquires, Passes, Resting, FirstSaves

LEMMA BootstrapArrives ==
    ASSUME TypeOK, NEW c \in Coordinator, Bootstrap(c)
    PROVE  Arrives(c) /\ Passes(c)
<1>1. ASSUME NEW pc \in Plain, coord[c].pc \in Resting, Save(c, pc) \/ GoTo(c, pc)
      PROVE  Arrives(c) /\ Passes(c)
  <2>1. coord'[c].pc = pc /\ coord'[c].dispatch = coord[c].dispatch
    BY <1>1, SaveFrame, GoToFrame DEF TypeOK, Saved, Went
  <2>. QED  BY <1>1, <2>1, PlainArrives DEF Passes
<1>2. CASE NoReviewRetry(c) \/ ExhaustReviewRetry(c) \/ RefuseReviewRetry(c)
  <2>1. coord[c].pc \in Resting
    BY <1>2
    DEF NoReviewRetry, ExhaustReviewRetry, RefuseReviewRetry, AtReviewRetry, Resting, Attending,
        CoordinatorStates
  <2>. QED
    BY <1>1, <1>2, <2>1 DEF NoReviewRetry, ExhaustReviewRetry, RefuseReviewRetry, Plain
<1>3. CASE RefreshReadiness(c) \/ ActivateRun(c) \/ RunActivated(c)
  <2>1. coord[c].pc \in Resting
    BY <1>3
    DEF RefreshReadiness, ActivateRun, RunActivated, Resting, Attending, CoordinatorStates
  <2>2. "starting" \in Plain /\ "command" \in Plain /\ "verify_retry" \in Plain
    BY DEF Plain
  <2>. QED  BY <1>1, <1>3, <2>1, <2>2 DEF RefreshReadiness, ActivateRun, RunActivated
<1>4. CASE RefuseVerificationRetry(c)
  <2>1. coord[c].pc \in Resting
    BY <1>4 DEF RefuseVerificationRetry, AtVerificationRetry, Resting, Attending, CoordinatorStates
  <2>. QED  BY <1>1, <1>4, <2>1 DEF RefuseVerificationRetry, Plain
<1>5. CASE NoVerificationRetry(c)
  <2>1. coord' = [coord EXCEPT ![c] = [coord[c] EXCEPT !.pc = "turn", !.dispatch = None]]
    BY <1>5 DEF NoVerificationRetry
  <2>2. LET r == [coord[c] EXCEPT !.pc = "turn", !.dispatch = None] IN
          r.pc = "turn" /\ r.dispatch = None
    BY DEF TypeOK, CoordTypeOK
  <2>3. coord'[c].pc = "turn" /\ coord'[c].dispatch = None
    BY <2>1, <2>2 DEF TypeOK, CoordTypeOK
  <2>. QED  BY <2>3, PlainArrives DEF Passes, Plain
<1>6. CASE RetryReview(c)
  <2>1. PICK d \in MalformedReviews : Acquire(c, d.step, "reviewer", dispatches[d].role)
    BY <1>6 DEF RetryReview
  <2>2. d.step \in Step
    BY DEF MalformedReviews, Dispatch
  <2>. QED  BY <2>1, <2>2, AcquireArrives
<1>7. CASE RetryVerification(c)
  <2>1. PICK d \in FailedChecks : Acquire(c, d.step, "executor", ReworkRole(d))
    BY <1>7 DEF RetryVerification
  <2>2. d.step \in Step
    BY DEF FailedChecks, Dispatch
  <2>. QED  BY <2>1, <2>2, AcquireArrives
<1>. QED  BY <1>2, <1>3, <1>4, <1>5, <1>6, <1>7 DEF Bootstrap

LEMMA SuperviseArrives ==
    ASSUME TypeOK, NEW c \in Coordinator, Supervise(c)
    PROVE  Arrives(c) /\ Passes(c)
<1>1. ASSUME NEW pc \in Plain, coord[c].pc \in Resting, Save(c, pc) \/ GoTo(c, pc)
      PROVE  Arrives(c) /\ Passes(c)
  <2>1. coord'[c].pc = pc /\ coord'[c].dispatch = coord[c].dispatch
    BY <1>1, SaveFrame, GoToFrame DEF TypeOK, Saved, Went
  <2>. QED  BY <1>1, <2>1, PlainArrives DEF Passes
<1>2. coord[c].pc \in Resting
  BY DEF Supervise, BeginTurn, LoseRunLease, FinishTurn, FailTurn, Acknowledge, CommandDispatch,
       RequestRiskGate, AskOperator, RequestReviewWaiver, HaltRun, CompleteRun, RejectCommand,
       AbortCommand, AtCommand, Resting, Attending, CoordinatorStates
<1>3. CASE CommandDispatch(c)
  BY <1>3, AcquireArrives DEF CommandDispatch
<1>4. CASE Acknowledge(c)
  <2>1. coord'[c].pc = "refreshing" /\ coord'[c].dispatch = None
    <3>. DEFINE stale == [coord[c] EXCEPT !.fresh = FALSE]
                r == [stale EXCEPT !.pc = "refreshing", !.fresh = TRUE, !.dispatch = None]
    <3>1. r.pc = "refreshing" /\ r.dispatch = None
      BY DEF TypeOK, CoordTypeOK
    <3>2. coord'[c] = r
      BY <1>4 DEF Acknowledge, Outdated
    <3>. QED  BY <3>1, <3>2
  <2>. QED  BY <2>1, PlainArrives DEF Passes, Plain
<1>5. CASE FinishTurn(c) \/ FailTurn(c)
  <2>1. {"command", "acknowledging", "exit"} \subseteq Plain
    BY DEF Plain
  <2>. QED  BY <1>1, <1>2, <1>5, <2>1 DEF FinishTurn, FailTurn
<1>6. CASE \/ BeginTurn(c) \/ LoseRunLease(c) \/ RequestRiskGate(c) \/ AskOperator(c)
           \/ RequestReviewWaiver(c) \/ HaltRun(c) \/ CompleteRun(c) \/ RejectCommand(c)
           \/ AbortCommand(c)
  <2>1. {"supervising", "exit", "turn"} \subseteq Plain
    BY DEF Plain
  <2>. QED
    BY <1>1, <1>2, <1>6, <2>1
    DEF BeginTurn, LoseRunLease, RequestRiskGate, AskOperator, RequestReviewWaiver, HaltRun,
        CompleteRun, RejectCommand, AbortCommand
<1>. QED  BY <1>3, <1>4, <1>5, <1>6 DEF Supervise

LEMMA WorkArrives ==
    ASSUME TypeOK, NEW c \in Coordinator, Work(c)
    PROVE  Arrives(c) /\ Passes(c)
<1>1. ASSUME NEW pc, Save(c, pc) \/ GoTo(c, pc)
      PROVE  coord'[c].pc = pc
  BY <1>1, SaveFrame, GoToFrame DEF TypeOK, Saved, Went
<1>2. coord'[c].pc \in Attending \cup {"exit"} /\ Arrives(c)
  <2>1. CASE CommitPrepared(c) \/ Launch(c) \/ MarkRunning(c) \/ BindSession(c) \/ CallbackFails(c)
    <3>1. /\ CommitPrepared(c) => coord'[c].pc = "launching"
          /\ Launch(c) => coord'[c].pc = "launched"
          /\ MarkRunning(c) => coord'[c].pc = "marked"
          /\ BindSession(c) => coord'[c].pc = "working"
          /\ CallbackFails(c) => coord'[c].pc = "erring"
      BY <1>1 DEF CommitPrepared, Launch, MarkRunning, BindSession, CallbackFails
    <3>. QED  BY <2>1, <3>1 DEF Arrives, Attending, FirstSaves
  <2>2. CASE PrepareConflicts(c) \/ RejectPrompt(c) \/ InvocationClosed(c)
    <3>1. coord'[c].pc = "exit"
      BY <1>1, <2>2 DEF PrepareConflicts, RejectPrompt, InvocationClosed
    <3>. QED  BY <3>1, PlainArrives DEF Plain
  <2>3. CASE FinalizeInvocation(c)
    <3>1. coord'[c].pc \in {"ended", "stalling", "failing"}
      BY <1>1, <2>3 DEF FinalizeInvocation, AfterWorker
    <3>. QED  BY <2>3, <3>1 DEF Arrives, Attending, FirstSaves
  <2>. QED  BY <2>1, <2>2, <2>3 DEF Work
<1>. QED  BY <1>2 DEF Passes, Resting

LEMMA ApplyArrives ==
    ASSUME TypeOK, NEW c \in Coordinator, Apply(c)
    PROVE  Arrives(c) /\ Passes(c)
<1>1. ASSUME NEW pc, Save(c, pc) \/ GoTo(c, pc)
      PROVE  coord'[c].pc = pc /\ coord'[c].dispatch = coord[c].dispatch
  BY <1>1, SaveFrame, GoToFrame DEF TypeOK, Saved, Went
<1>2. CASE Applies(c)
  <2>0. PICK rec, escalates : coord[c].pc = "ended" /\ ApplyResult(c, rec, escalates)
    BY <1>2
    DEF Applies, ExecutorCompleted, ExecutorGivesUp, ReviewerAccepts, ReviewerRequestsChanges,
        ReviewerGivesUp, AtResult
  <2>1. coord'[c].pc \in {"completed", "escalating"} /\ coord'[c].dispatch = coord[c].dispatch
    BY <1>1, <2>0 DEF ApplyResult
  <2>2. coord[c].dispatch \in Dispatch /\ MoveDispatch(coord[c].dispatch, "COMPLETED")
    BY <2>0, DispatchOf DEF ApplyResult, TypeOK, Undispatched
  <2>3. dispatches'[coord[c].dispatch].state = "COMPLETED"
    BY <2>2, MoveFrame DEF TypeOK, DispatchStep
  <2>. QED  BY <1>2, <2>1, <2>3 DEF Arrives, Passes, Settled, Delivered, FirstSaves
<1>3. CASE ChecksFail(c)
  <2>1. coord'[c].pc = "reworked" /\ coord'[c].dispatch = coord[c].dispatch
    BY <1>1, <1>3 DEF ChecksFail
  <2>2. coord[c].dispatch \in Dispatch
    BY <1>3, DispatchOf DEF ChecksFail, AtResult, TypeOK, Undispatched
  <2>3. PICK category : FailDispatch(coord[c].dispatch, "FAILED", category)
    BY <1>3 DEF ChecksFail
  <2>4. dispatches'[coord[c].dispatch].state = "FAILED"
    BY <2>2, <2>3, FailFrame DEF TypeOK, DispatchStep
  <2>. QED  BY <2>1, <2>4, PlainArrives DEF Plain, Passes, Settled, Lost
<1>4. CASE RefuseResult(c) \/ MalformedReview(c)
  <2>1. coord'[c].pc \in {"failing", "rejecting", "invalidating"}
    BY <1>1, <1>4 DEF RefuseResult, MalformedReview
  <2>. QED  BY <1>4, <2>1 DEF Arrives, Passes, FirstSaves, Resting, Attending
<1>5. CASE PersistForwarded(c) \/ BudgetHolds(c) \/ BudgetExceeded(c)
  <2>1. coord'[c].pc \in {"releasing", "turn", "exit"} /\ coord'[c].dispatch = coord[c].dispatch
    BY <1>1, <1>5 DEF PersistForwarded, BudgetHolds, BudgetExceeded
  <2>2. coord[c].pc \in Resting
    BY <1>5
    DEF PersistForwarded, BudgetHolds, BudgetExceeded, Resting, Attending, CoordinatorStates
  <2>. QED  BY <2>1, <2>2, PlainArrives DEF Plain, Passes
<1>6. CASE ReleaseLeases(c)
  <2>1. /\ coord'[c].pc = AfterRelease(coord[c].pc) /\ coord'[c].dispatch = coord[c].dispatch
        /\ coord[c].pc \in {"releasing", "reworked", "stall_releasing", "invalid_step", "unleasing"}
    BY <1>1, <1>6 DEF ReleaseLeases
  <2>2. coord'[c].pc \in Plain /\ (coord[c].pc = "unleasing" => coord'[c].pc = "exit")
    BY <2>1 DEF AfterRelease, Plain
  <2>3. coord[c].pc # "unleasing" => coord[c].pc \in Resting
    BY <2>1 DEF Resting, Attending, CoordinatorStates
  <2>. QED  BY <2>1, <2>2, <2>3, PlainArrives DEF Passes, Resting
<1>. QED  BY <1>2, <1>3, <1>4, <1>5, <1>6 DEF Apply, Applies

LEMMA FailArrives ==
    ASSUME TypeOK, NEW c \in Coordinator, Fail(c)
    PROVE  Arrives(c) /\ Passes(c)
<1>. DEFINE d == coord[c].dispatch
<1>1. ASSUME NEW pc, Save(c, pc) \/ GoTo(c, pc)
      PROVE  coord'[c].pc = pc /\ coord'[c].dispatch = d
  BY <1>1, SaveFrame, GoToFrame DEF TypeOK, Saved, Went
<1>2. CASE ReloadRecord(c)
  <2>1. coord' = [coord EXCEPT ![c] = [coord[c] EXCEPT !.fresh = TRUE]] /\ coord[c].pc \in FirstSaves
    BY <1>2 DEF ReloadRecord
  <2>2. coord'[c].pc = coord[c].pc
    BY <2>1 DEF TypeOK, CoordTypeOK
  <2>. QED  BY <1>2, <2>1, <2>2 DEF Arrives, Passes, FirstSaves, Resting, Attending
<1>3. CASE GiveUp(c)
  <2>1. coord'[c].pc \in {"exit", "unleasing"}
    BY <1>1, <1>3 DEF GiveUp
  <2>. QED  BY <2>1, PlainArrives DEF Passes, Plain, Resting
<1>4. CASE SaveFailedDispatch(c) \/ SaveStalledDispatch(c) \/ SaveMalformedReview(c)
  <2>1. d \in Dispatch
    BY <1>4, DispatchOf
    DEF SaveFailedDispatch, SaveStalledDispatch, SaveMalformedReview, TypeOK, Undispatched
  <2>2. PICK target \in Lost, category \in FailureCategories : FailDispatch(d, target, category)
    BY <1>4 DEF SaveFailedDispatch, SaveStalledDispatch, SaveMalformedReview, Lost,
                FailureCategories
  <2>3. dispatches'[d].state \in Settled
    BY <2>1, <2>2, FailFrame DEF TypeOK, DispatchStep, Settled
  <2>4. /\ coord'[c].dispatch = d
        /\ SaveFailedDispatch(c) => coord'[c].pc \in {"failed_prepared", "failed_running"}
        /\ SaveStalledDispatch(c) => coord'[c].pc = "stalled"
        /\ SaveMalformedReview(c) => coord'[c].pc = "invalidated"
    BY <1>1, <1>4 DEF SaveFailedDispatch, SaveStalledDispatch, SaveMalformedReview
  <2>. QED  BY <1>4, <2>3, <2>4 DEF Arrives, Passes, FirstSaves
<1>5. CASE SaveFailedStep(c) \/ SaveStalledStep(c) \/ SaveUnreviewedStep(c)
  <2>1. /\ coord'[c].dispatch = d
        /\ coord'[c].pc \in {"failed_step", "unleasing", "stall_releasing", "stalled_step",
                             "invalid_step"}
        /\ coord'[c].pc = "failed_step" => SaveFailedStep(c)
        /\ coord'[c].pc = "stalled_step" => SaveStalledStep(c)
    BY <1>1, <1>5 DEF SaveFailedStep, SaveStalledStep, SaveUnreviewedStep
  <2>2. coord[c].pc \in Resting
    BY <1>5
    DEF SaveFailedStep, SaveStalledStep, SaveUnreviewedStep, Resting, Attending, CoordinatorStates
  <2>. QED  BY <2>1, <2>2 DEF Arrives, Passes, FirstSaves
<1>6. CASE AskReconciliation(c) \/ AskStallRecovery(c) \/ LaterSaveConflicts(c)
  <2>1. coord'[c].pc = "unleasing"
    BY <1>1, <1>6 DEF AskReconciliation, AskStallRecovery, LaterSaveConflicts
  <2>. QED  BY <2>1, PlainArrives DEF Plain, Passes, Resting
<1>7. CASE RetryStalled(c)
  <2>1. d.step \in Step /\ d.kind \in {"executor", "reviewer"}
    BY <1>7, DispatchOf DEF RetryStalled, TypeOK, Undispatched, Dispatch
  <2>. QED  BY <1>7, <2>1, AcquireArrives DEF RetryStalled
<1>. QED  BY <1>2, <1>3, <1>4, <1>5, <1>6, <1>7 DEF Fail

LEMMA ProceedArrives ==
    ASSUME TypeOK, NEW c \in Coordinator, Proceed(c)
    PROVE  Arrives(c) /\ Passes(c)
<1>1. CASE StopStale(c)
  <2>1. coord'[c].pc = "exit"
    BY <1>1, GoToFrame DEF StopStale, TypeOK, Went
  <2>. QED  BY <2>1, PlainArrives DEF Plain, Passes, Resting
<1>2. CASE Exit(c)
  <2>1. coord'[c] = Down
    BY <1>2 DEF Exit, TypeOK, CoordTypeOK
  <2>. QED  BY <2>1, PlainArrives DEF Plain, Passes, Down
<1>. QED
  BY <1>1, <1>2, BootstrapArrives, SuperviseArrives, WorkArrives, ApplyArrives, FailArrives
  DEF Proceed

LEMMA ActsArrive ==
    ASSUME TypeOK, NEW c \in Coordinator, Acts(c)
    PROVE  Arrives(c) /\ Passes(c)
<1>1. CASE Start(c)
  <2>1. coord'[c] = [pc |-> "resuming", dispatch |-> None, role |-> None, fresh |-> TRUE]
    BY <1>1 DEF Start, TypeOK, CoordTypeOK
  <2>. QED  BY <2>1, PlainArrives DEF Plain, Passes
<1>2. CASE Crash(c)
  <2>1. coord'[c] = Down
    BY <1>2 DEF Crash, TypeOK, CoordTypeOK
  <2>. QED  BY <2>1, PlainArrives DEF Plain, Passes, Down
<1>. QED  BY <1>1, <1>2, ProceedArrives DEF Acts

(* Who attends to a dispatch did so before, or has just prepared it.       *)
LEMMA AttendsOn ==
    ASSUME TypeOK, NEW c \in Coordinator, Acts(c), coord'[c].pc \in Attending
    PROVE  /\ coord'[c].dispatch = coord[c].dispatch
           /\ CommitPrepared(c) \/ coord[c].pc \in Attending
<1>1. ASSUME NEW pc, Save(c, pc) \/ GoTo(c, pc)
      PROVE  coord'[c].dispatch = coord[c].dispatch
  BY <1>1, SaveFrame, GoToFrame DEF TypeOK, Saved, Went
<1>2. \/ CommitPrepared(c) \/ Launch(c) \/ MarkRunning(c) \/ BindSession(c) \/ CallbackFails(c)
      \/ FinalizeInvocation(c) \/ RefuseResult(c) \/ MalformedReview(c) \/ ReloadRecord(c)
  BY ActsArrive DEF Arrives, Attending, FirstSaves
<1>3. CASE CommitPrepared(c)
  BY <1>1, <1>3 DEF CommitPrepared
<1>4. CASE Launch(c) \/ MarkRunning(c) \/ BindSession(c) \/ CallbackFails(c)
           \/ RefuseResult(c) \/ MalformedReview(c)
  BY <1>1, <1>4
  DEF Launch, MarkRunning, BindSession, CallbackFails, RefuseResult, MalformedReview, Attending
<1>5. CASE FinalizeInvocation(c)
  BY <1>1, <1>5 DEF FinalizeInvocation, AfterWorker, Attending
<1>6. CASE ReloadRecord(c)
  <2>1. coord' = [coord EXCEPT ![c] = [coord[c] EXCEPT !.fresh = TRUE]]
    BY <1>6 DEF ReloadRecord
  <2>2. coord'[c].dispatch = coord[c].dispatch
    BY <2>1 DEF TypeOK, CoordTypeOK
  <2>. QED  BY <1>6, <2>2 DEF ReloadRecord, FirstSaves, Attending
<1>. QED  BY <1>2, <1>3, <1>4, <1>5, <1>6
=============================================================================
