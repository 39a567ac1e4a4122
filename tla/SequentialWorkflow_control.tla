--------------------- MODULE SequentialWorkflow_control ---------------------
(***************************************************************************)
(* Who may do what while work is in flight.  A process that holds the      *)
(* current generation knows the dispatch in flight; hence the run, the     *)
(* step and the dispatch stay together until its coordinator or recover    *)
(* settles it, the saves of a handler are not interrupted, a question      *)
(* stays answerable, and a worker that counts as RUNNING has its leases.   *)
(* What is settled stays settled, and a vote is cast on the latest work.   *)
(***************************************************************************)
EXTENDS SequentialWorkflow_steps, FiniteSetTheorems

(* Layer 1: the attempts of a step count its dispatches, so the dispatch   *)
(* that a process with the current generation has leased is a new one.     *)
Attempts(s, kind) ==
    IF kind = "executor" THEN steps[s].executor_attempts ELSE steps[s].reviewer_attempts

Numbered ==
    \A d \in Dispatch : dispatches[d].state # "NONE" => d.attempt <= Attempts(d.step, d.kind)

Prepared ==
    \A c \in Coordinator : Leased(c) =>
        LET d == coord[c].dispatch IN
        CanPrepare(d.step, d.kind, coord[c].role) /\ d = NextDispatch(d.step, d.kind)

(* The dispatch of CommitPrepared was not there before.                    *)
LEMMA CommitIsNew ==
    ASSUME TypeOK, Numbered, Prepared, NEW c \in Coordinator, CommitPrepared(c)
    PROVE  LET d == coord[c].dispatch IN
           /\ d \in Dispatch /\ d.step \in Step
           /\ dispatches[d].state = "NONE"
           /\ CanPrepare(d.step, d.kind, coord[c].role)
           /\ d.attempt = Attempts(d.step, d.kind) + 1
<1>. DEFINE d == coord[c].dispatch
<1>1. d \in Dispatch /\ d.step \in Step
  BY DispatchOf DEF CommitPrepared, TypeOK, Undispatched
<1>2. CanPrepare(d.step, d.kind, coord[c].role) /\ d = NextDispatch(d.step, d.kind)
  BY DEF CommitPrepared, Prepared, Leased
<1>3. Attempts(d.step, d.kind) \in Nat
  BY <1>1 DEF TypeOK, StepsTypeOK, StepRecord, Attempts
<1>4. d.attempt = Attempts(d.step, d.kind) + 1
  BY <1>2, <1>3 DEF NextDispatch, Attempts
<1>5. dispatches[d].state = "NONE"
  BY <1>1, <1>3, <1>4 DEF Numbered
<1>. QED  BY <1>1, <1>2, <1>4, <1>5

(* What the save of prepare_dispatch writes.                               *)
LEMMA CommitShape ==
    ASSUME TypeOK, NEW c \in Coordinator, CommitPrepared(c)
    PROVE  LET d == coord[c].dispatch
               s == d.step
           IN
           /\ dispatches'[d].state = "PREPARED"
           /\ dispatches'[d].role = coord[c].role
           /\ d.kind = "reviewer" => dispatches'[d].target = steps[s].executor_attempts
           /\ \A e \in Dispatch \ {d} : dispatches'[e] = dispatches[e]
           /\ steps'[s].state = IF d.kind = "executor" THEN "EXECUTING" ELSE "REVIEWING"
           /\ steps'[s].active = d
           /\ steps'[s].gate_resolved = steps[s].gate_resolved
           /\ SameVotes(s, steps'[s])
           /\ steps'[s].executor_attempts = IF d.kind = "executor" THEN d.attempt
                                            ELSE steps[s].executor_attempts
           /\ steps'[s].reviewer_attempts = IF d.kind = "executor" THEN steps[s].reviewer_attempts
                                            ELSE d.attempt
           /\ \A t \in Step \ {s} : steps'[t] = steps[t]
           /\ UNCHANGED <<run, request>>
           /\ Saved(c, "launching")
<1>. DEFINE d == coord[c].dispatch
            s == d.step
            n == IF d.kind = "executor" THEN 0 ELSE steps[s].executor_attempts
            r == [dispatches[d] EXCEPT !.state = "PREPARED", !.role = coord[c].role, !.target = n]
            executing == [Moved(s, "EXECUTING") EXCEPT !.active = d, !.executor_attempts = d.attempt]
            reviewing == [Moved(s, "REVIEWING") EXCEPT !.active = d, !.reviewer_attempts = d.attempt]
<1>1. d \in Dispatch /\ s \in Step
  BY DispatchOf DEF CommitPrepared, TypeOK, Undispatched
<1>2. /\ dispatches' = [dispatches EXCEPT ![d] = r]
      /\ steps' = [steps EXCEPT ![s] = IF d.kind = "executor" THEN executing ELSE reviewing]
      /\ Save(c, "launching") /\ UNCHANGED <<run, request>>
  BY DEF CommitPrepared
<1>3. r.state = "PREPARED" /\ r.role = coord[c].role /\ r.target = n
  <2>. HIDE DEF n
  <2>. QED  BY <1>1 DEF TypeOK, DispatchesTypeOK, DispatchRecord
<1>4. /\ executing.state = "EXECUTING" /\ executing.active = d
      /\ executing.gate_resolved = steps[s].gate_resolved /\ SameVotes(s, executing)
      /\ executing.executor_attempts = d.attempt
      /\ executing.reviewer_attempts = steps[s].reviewer_attempts
  BY <1>1 DEF Moved, TypeOK, StepsTypeOK, StepRecord, SameVotes
<1>5. /\ reviewing.state = "REVIEWING" /\ reviewing.active = d
      /\ reviewing.gate_resolved = steps[s].gate_resolved /\ SameVotes(s, reviewing)
      /\ reviewing.executor_attempts = steps[s].executor_attempts
      /\ reviewing.reviewer_attempts = d.attempt
  BY <1>1 DEF Moved, TypeOK, StepsTypeOK, StepRecord, SameVotes
<1>6. Saved(c, "launching")
  BY <1>2, SaveFrame DEF TypeOK
<1>7. dispatches'[d] = r /\ \A e \in Dispatch \ {d} : dispatches'[e] = dispatches[e]
  BY <1>1, <1>2 DEF TypeOK, DispatchesTypeOK
<1>. HIDE DEF executing, reviewing, r
<1>8. /\ steps'[s] = IF d.kind = "executor" THEN executing ELSE reviewing
      /\ \A t \in Step \ {s} : steps'[t] = steps[t]
  BY <1>1, <1>2 DEF TypeOK, StepsTypeOK
<1>9. d.kind = "reviewer" => n = steps[s].executor_attempts
  OBVIOUS
<1>. HIDE DEF n
<1>10. CASE d.kind = "executor"
  BY <1>2, <1>3, <1>4, <1>6, <1>7, <1>8, <1>9, <1>10
<1>11. CASE d.kind # "executor"
  BY <1>2, <1>3, <1>5, <1>6, <1>7, <1>8, <1>9, <1>11
<1>. QED  BY <1>10, <1>11

LEMMA CanPrepareKept ==
    ASSUME UNCHANGED record, NEW s, NEW kind, NEW role, CanPrepare(s, kind, role)
    PROVE  CanPrepare(s, kind, role)' /\ NextDispatch(s, kind)' = NextDispatch(s, kind)
BY DEF record, CanPrepare, NoActiveDispatch, ActiveDispatch, ExecutorMayStart, ReviewerMayStart,
       HasReviewTarget, LatestExecutor, DependenciesSettled, NextDispatch

LEMMA NumberedStep ==
    ASSUME TypeOK, [Next]_vars, Numbered, Prepared
    PROVE  Numbered'
<1>1. CASE \E c \in Coordinator : CommitPrepared(c)
  <2>. PICK c \in Coordinator : CommitPrepared(c)
    BY <1>1
  <2>. DEFINE d == coord[c].dispatch
  <2>1. /\ d \in Dispatch /\ d.step \in Step
        /\ d.attempt = Attempts(d.step, d.kind) + 1
    BY CommitIsNew
  <2>2. /\ \A e \in Dispatch \ {d} : dispatches'[e] = dispatches[e]
        /\ steps'[d.step].executor_attempts = IF d.kind = "executor" THEN d.attempt
                                              ELSE steps[d.step].executor_attempts
        /\ steps'[d.step].reviewer_attempts = IF d.kind = "executor"
                                              THEN steps[d.step].reviewer_attempts
                                              ELSE d.attempt
        /\ \A t \in Step \ {d.step} : steps'[t] = steps[t]
    BY CommitShape
  <2>3. \A e \in Dispatch : e.step \in Step /\ e.kind \in {"executor", "reviewer"} /\ e.attempt \in Nat
    BY BoundAssumption DEF Dispatch
  <2>4. \A s \in Step : steps[s].executor_attempts \in Nat /\ steps[s].reviewer_attempts \in Nat
    BY DEF TypeOK, StepsTypeOK, StepRecord
  <2>. HIDE DEF d
  <2>5. ASSUME NEW e \in Dispatch, dispatches'[e].state # "NONE"
        PROVE  e.attempt <= Attempts(e.step, e.kind)'
    <3>1. CASE e = d
      BY <2>1, <2>2, <2>3, <3>1 DEF Attempts
    <3>2. CASE e # d
      <4>1. e.attempt <= Attempts(e.step, e.kind)
        BY <2>2, <2>5, <3>2 DEF Numbered
      <4>2. Attempts(e.step, e.kind) \in Nat /\ Attempts(e.step, e.kind)' \in Nat
        BY <2>1, <2>2, <2>3, <2>4 DEF Attempts
      <4>3. Attempts(e.step, e.kind) <= Attempts(e.step, e.kind)'
        BY <2>1, <2>2, <2>3, <2>4 DEF Attempts
      <4>. QED  BY <2>3, <4>1, <4>2, <4>3
    <3>. QED  BY <3>1, <3>2
  <2>. QED  BY <2>5 DEF Numbered
<1>2. CASE ~\E c \in Coordinator : CommitPrepared(c)
  <2>1. \A d \in Dispatch : Steady(d)
    BY <1>2, DispatchesAreSteady
  <2>2. \A s \in Step : /\ steps'[s].executor_attempts = steps[s].executor_attempts
                       /\ steps'[s].reviewer_attempts = steps[s].reviewer_attempts
    <3>1. \A s \in Step : Turns(s)
      BY <1>2, StepsTurn
    <3>2. ASSUME NEW s \in Step, GateOpens(s)
          PROVE  /\ steps'[s].executor_attempts = steps[s].executor_attempts
                 /\ steps'[s].reviewer_attempts = steps[s].reviewer_attempts
      BY <3>2 DEF GateOpens, TypeOK, StepsTypeOK, StepRecord
    <3>. QED  BY <3>1, <3>2 DEF Turns, Turn, SameWork
  <2>3. ASSUME NEW d \in Dispatch PROVE Attempts(d.step, d.kind)' = Attempts(d.step, d.kind)
    BY <2>2 DEF Attempts, Dispatch
  <2>4. ASSUME NEW d \in Dispatch, dispatches'[d].state # "NONE"
        PROVE  d.attempt <= Attempts(d.step, d.kind)'
    BY <2>1, <2>3, <2>4 DEF Numbered, Steady
  <2>. QED  BY <2>4 DEF Numbered
<1>. QED  BY <1>1, <1>2

LEMMA PreparedStep ==
    ASSUME TypeOK, [Next]_vars, Prepared
    PROVE  Prepared'
<1>1. ASSUME NEW b \in Coordinator, Leased(b)', Acts(b), NEW d, NEW role,
             d = coord'[b].dispatch, role = coord'[b].role
      PROVE  CanPrepare(d.step, d.kind, role)' /\ d = NextDispatch(d.step, d.kind)'
  <2>1. PICK s \in Step, kind \in {"executor", "reviewer"}, r \in Role : Acquire(b, s, kind, r)
    BY <1>1, ActsArrive DEF Arrives, Acquires, Leased
  <2>2. d = NextDispatch(s, kind) /\ role = r /\ UNCHANGED record
    BY <1>1, <2>1, AcquireFrame DEF TypeOK
  <2>3. CanPrepare(s, kind, r)' /\ NextDispatch(s, kind)' = NextDispatch(s, kind)
    BY <2>1, <2>2, CanPrepareKept DEF Acquire
  <2>4. d.step = s /\ d.kind = kind
    BY <2>2 DEF NextDispatch
  <2>. QED  BY <2>2, <2>3, <2>4
<1>2. ASSUME NEW b \in Coordinator, Leased(b)', ~Acts(b), NEW d, NEW role,
             d = coord'[b].dispatch, role = coord'[b].role
      PROVE  CanPrepare(d.step, d.kind, role)' /\ d = NextDispatch(d.step, d.kind)'
  <2>1. coord[b].dispatch = d /\ coord[b].role = role /\ Leased(b) /\ UNCHANGED record
    BY <1>2, Bystanders DEF Bystander, Same, Leased, Fresh
  <2>2. CanPrepare(d.step, d.kind, role) /\ d = NextDispatch(d.step, d.kind)
    BY <2>1 DEF Prepared
  <2>. QED  BY <2>1, <2>2, CanPrepareKept
<1>. QED  BY <1>1, <1>2 DEF Prepared

(* What a process with the current generation has checked still holds when *)
(* it saves, and dispatches are numbered by the attempts of their step.    *)
THEOREM PreparationHolds == Spec => [](Numbered /\ Prepared)
<1>1. Init => Numbered /\ Prepared
  BY DEF Init, Down, Numbered, Prepared, Leased
<1>2. TypeOK /\ [Next]_vars /\ Numbered /\ Prepared => (Numbered /\ Prepared)'
  BY NumberedStep, PreparedStep
<1>. QED  BY <1>1, <1>2, TypeCorrect, PTL DEF Spec
-----------------------------------------------------------------------------
(* Layer 2: which dispatch a process works on.  Two processes never attend *)
(* to the same one, the journal keeps its row while it is in flight, and a *)
(* process that went on from its worker has seen the dispatch settled.     *)
Begun ==
    \A c \in Coordinator :
        coord[c].pc \in Attending => dispatches[coord[c].dispatch].state # "NONE"

Past ==
    \A c \in Coordinator :
        coord[c].pc \in Resting /\ coord[c].dispatch # None =>
            dispatches[coord[c].dispatch].state \in Settled

Exclusive ==
    \A b, c \in Coordinator :
        b # c /\ coord[b].pc \in Attending /\ coord[c].pc \in Attending =>
            coord[b].dispatch # coord[c].dispatch

Journalled == {"launched", "marked", "working", "erring"}

JournalOpen ==
    \A c \in Coordinator :
        coord[c].pc \in Journalled /\ InFlight(coord[c].dispatch) =>
            coord[c].dispatch \in invocations

Engagement == Begun /\ Past /\ Exclusive /\ JournalOpen

LEMMA AttendingDispatch ==
    ASSUME TypeOK, NEW c \in Coordinator, coord[c].pc \in Attending
    PROVE  coord[c].dispatch \in Dispatch /\ coord[c].dispatch.step \in Step
BY DispatchOf DEF TypeOK, Attending, Undispatched

LEMMA WasAttending ==
    ASSUME TypeOK, [Next]_vars, NEW c \in Coordinator, coord'[c].pc \in Attending
    PROVE  /\ coord'[c].dispatch = coord[c].dispatch
           /\ CommitPrepared(c) \/ coord[c].pc \in Attending
BY AttendsOn, Bystanders DEF Bystander, Same

(* What was settled remains so, and what was there remains there.          *)
LEMMA SettledStays ==
    ASSUME TypeOK, [Next]_vars, Numbered, Prepared, NEW d \in Dispatch
    PROVE  /\ dispatches[d].state # "NONE" => dispatches'[d].state # "NONE"
           /\ dispatches[d].state \in Settled => dispatches'[d].state \in Settled
<1>1. CASE \E c \in Coordinator : CommitPrepared(c)
  <2>. PICK c \in Coordinator : CommitPrepared(c)
    BY <1>1
  <2>1. dispatches[coord[c].dispatch].state = "NONE"
    BY CommitIsNew
  <2>2. \A e \in Dispatch \ {coord[c].dispatch} : dispatches'[e] = dispatches[e]
    BY CommitShape
  <2>. QED  BY <2>1, <2>2 DEF Settled, Delivered, Lost
<1>2. CASE ~\E c \in Coordinator : CommitPrepared(c)
  BY <1>2, DispatchesAreSteady DEF Steady, Settled, Delivered, Lost
<1>. QED  BY <1>1, <1>2

(* Only its coordinator or recover closes the journal row of a worker.     *)
LEMMA JournalKept ==
    ASSUME TypeOK, [Next]_vars, NEW d \in Dispatch, d \in invocations, d \notin invocations'
    PROVE  \/ \E c \in Coordinator : FinalizeInvocation(c) /\ coord[c].dispatch = d
           \/ ~InFlight(d)
<1>0. d \notin Coordinator
  BY JournalAssumption
<1>1. ASSUME NEW c \in Coordinator, Bootstrap(c) \/ Start(c) \/ Crash(c) \/ StopStale(c) \/ Exit(c)
      PROVE  FALSE
  BY <1>1
  DEF Bootstrap, NoReviewRetry, RetryReview, ExhaustReviewRetry, RefuseReviewRetry,
      RefreshReadiness, ActivateRun, RunActivated, NoVerificationRetry, RetryVerification,
      RefuseVerificationRetry, Acquire, processes, Start, Crash, StopStale, Exit
<1>2. ASSUME NEW c \in Coordinator, Supervise(c) PROVE FALSE
  BY <1>0, <1>2
  DEF Supervise, BeginTurn, LoseRunLease, FinishTurn, FailTurn, Acknowledge, CommandDispatch,
      Acquire, RequestRiskGate, AskOperator, RequestReviewWaiver, HaltRun, CompleteRun,
      RejectCommand, AbortCommand, processes
<1>3. ASSUME NEW c \in Coordinator, Work(c)
      PROVE  FinalizeInvocation(c) /\ coord[c].dispatch = d
  BY <1>3
  DEF Work, CommitPrepared, PrepareConflicts, Launch, RejectPrompt, MarkRunning, BindSession,
      CallbackFails, FinalizeInvocation, InvocationClosed, processes
<1>4. ASSUME NEW c \in Coordinator, Apply(c) PROVE FALSE
  BY <1>4
  DEF Apply, ExecutorCompleted, ExecutorGivesUp, ReviewerAccepts, ReviewerRequestsChanges,
      ReviewerGivesUp, ApplyResult, RefuseResult, MalformedReview, ChecksFail, PersistForwarded,
      ReleaseLeases, BudgetHolds, BudgetExceeded, processes
<1>5. ASSUME NEW c \in Coordinator, Fail(c) PROVE FALSE
  BY <1>5
  DEF Fail, ReloadRecord, GiveUp, SaveFailedDispatch, SaveFailedStep, AskReconciliation,
      SaveStalledDispatch, SaveStalledStep, AskStallRecovery, RetryStalled, Acquire,
      SaveMalformedReview, SaveUnreviewedStep, LaterSaveConflicts, processes
<1>6. CASE \/ \E e \in Dispatch : WorkerExits(e) \/ Cancel(e)
           \/ Answer \/ RunLeaseGoesStale \/ RecoverStart \/ RecoverCrash \/ RecoverDispatch
           \/ RecoverNothing \/ RecoverForwarding \/ RecoverUnlock \/ RecoverEnd \/ UNCHANGED vars
  BY <1>6
  DEF WorkerExits, Cancel, Answer, AnswerHalt, AnswerGate, AnswerQuestion, AnswerReassign,
      AnswerWaiver, AnswerRetry, AnswerReconcile, Resume, RunLeaseGoesStale, RecoverStart,
      RecoverCrash, RecoverDispatch, RecoverNothing, RecoverForwarding, RecoverUnlock, RecoverEnd,
      processes, vars
<1>7. CASE RecoverJournals
  BY <1>7 DEF RecoverJournals
<1>. QED  BY <1>1, <1>2, <1>3, <1>4, <1>5, <1>6, <1>7 DEF Next, Proceed, RecoverStep

LEMMA EngagementStep ==
    ASSUME TypeOK, [Next]_vars, Numbered, Prepared, Engagement
    PROVE  Engagement'
<1>1. Begun'
  <2>. SUFFICES ASSUME NEW c \in Coordinator, coord'[c].pc \in Attending
                PROVE  dispatches'[coord'[c].dispatch].state # "NONE"
    BY DEF Begun
  <2>1. coord'[c].dispatch = coord[c].dispatch
    BY WasAttending
  <2>2. CASE CommitPrepared(c)
    BY <2>1, <2>2, CommitShape
  <2>3. CASE coord[c].pc \in Attending
    BY <2>1, <2>3, AttendingDispatch, SettledStays DEF Engagement, Begun
  <2>. QED  BY <2>2, <2>3, WasAttending
<1>2. Past'
  <2>. SUFFICES ASSUME NEW c \in Coordinator, coord'[c].pc \in Resting, coord'[c].dispatch # None
                PROVE  dispatches'[coord'[c].dispatch].state \in Settled
    BY DEF Past
  <2>1. /\ coord'[c].dispatch = coord[c].dispatch
        /\ coord[c].pc \in Resting \/ dispatches'[coord[c].dispatch].state \in Settled
    BY ActsArrive, Bystanders DEF Passes, Bystander, Same
  <2>2. coord[c].dispatch \in Dispatch
    BY <2>1 DEF TypeOK, CoordTypeOK
  <2>. QED  BY <2>1, <2>2, SettledStays DEF Engagement, Past
<1>3. Exclusive'
  <2>1. ASSUME NEW b \in Coordinator, NEW c \in Coordinator, b # c,
               coord'[b].pc \in Attending, coord'[c].pc \in Attending, CommitPrepared(b)
        PROVE  coord'[b].dispatch # coord'[c].dispatch
    <3>1. coord[c].pc \in Attending /\ coord'[c].dispatch = coord[c].dispatch
      BY <2>1, CommitShape DEF Saved, Same
    <3>2. dispatches[coord[c].dispatch].state # "NONE"
      BY <3>1 DEF Engagement, Begun
    <3>3. dispatches[coord[b].dispatch].state = "NONE" /\ coord'[b].dispatch = coord[b].dispatch
      BY <2>1, CommitIsNew, WasAttending
    <3>. QED  BY <3>1, <3>2, <3>3
  <2>2. ASSUME NEW b \in Coordinator, NEW c \in Coordinator, b # c,
               coord'[b].pc \in Attending, coord'[c].pc \in Attending,
               coord[b].pc \in Attending, coord[c].pc \in Attending
        PROVE  coord'[b].dispatch # coord'[c].dispatch
    BY <2>2, WasAttending DEF Engagement, Exclusive
  <2>. QED  BY <2>1, <2>2, WasAttending DEF Exclusive
<1>4. JournalOpen'
  <2>. SUFFICES ASSUME NEW c \in Coordinator, coord'[c].pc \in Journalled,
                       dispatches'[coord'[c].dispatch].state \in InFlightStates
                PROVE  coord'[c].dispatch \in invocations'
    BY DEF JournalOpen, InFlight
  <2>1. CASE Launch(c) /\ Acts(c)
    <3>1. coord'[c].dispatch = coord[c].dispatch
      BY WasAttending DEF Journalled, Attending
    <3>. QED  BY <2>1, <3>1 DEF Launch
  <2>2. CASE ~(Launch(c) /\ Acts(c))
    <3>. PICK d \in Dispatch : d = coord[c].dispatch /\ d = coord'[c].dispatch
      <4>1. coord[c].pc \in Attending \/ CommitPrepared(c)
        BY WasAttending DEF Journalled, Attending
      <4>2. coord[c].pc \notin Undispatched
        BY <4>1 DEF CommitPrepared, Undispatched, Attending
      <4>. QED  BY <4>2, DispatchOf, WasAttending DEF TypeOK, Journalled, Attending
    <3>1. coord[c].pc \in Journalled
      <4>1. CASE ~Acts(c)
        BY <4>1, Bystanders DEF Bystander, Same
      <4>2. CASE Acts(c)
        <5>1. MarkRunning(c) \/ BindSession(c) \/ CallbackFails(c)
          BY <2>2, <4>2, ActsArrive DEF Arrives, Journalled
        <5>. QED  BY <5>1 DEF MarkRunning, BindSession, CallbackFails, Journalled
      <4>. QED  BY <4>1, <4>2
    <3>2. dispatches'[d].state \in InFlightStates
      OBVIOUS
    <3>3. InFlight(d)
      <4>1. dispatches[d].state # "NONE"
        BY <3>1 DEF Engagement, Begun, Journalled, Attending
      <4>2. dispatches'[d].state \notin Settled
        BY <3>2 DEF InFlightStates, Settled, Delivered, Lost
      <4>3. dispatches[d].state \in DispatchStates
        BY DEF TypeOK, DispatchesTypeOK, DispatchRecord
      <4>. QED
        BY <4>1, <4>2, <4>3, SettledStays
        DEF InFlight, InFlightStates, Settled, Delivered, Lost, DispatchStates
    <3>4. d \in invocations
      BY <3>1, <3>3 DEF Engagement, JournalOpen
    <3>5. ASSUME NEW b \in Coordinator, FinalizeInvocation(b), coord[b].dispatch = d PROVE FALSE
      <4>1. coord[b].pc \in Attending
        BY <3>5 DEF FinalizeInvocation, AfterWorker, Attending
      <4>2. b = c
        BY <3>1, <3>5, <4>1 DEF Engagement, Exclusive, Journalled, Attending
      <4>3. PICK pc \in {"ended", "stalling", "failing"} : Save(c, pc)
        BY <3>5, <4>2 DEF FinalizeInvocation, AfterWorker
      <4>4. coord'[c].pc \in {"ended", "stalling", "failing"}
        BY <4>3, SaveFrame DEF TypeOK, Saved
      <4>. QED  BY <4>4 DEF Journalled
    <3>. QED  BY <3>3, <3>4, <3>5, JournalKept
  <2>. QED  BY <2>1, <2>2
<1>. QED  BY <1>1, <1>2, <1>3, <1>4 DEF Engagement

(* No two processes attend to the same dispatch, and none attends to a     *)
(* dispatch that prepare_dispatch did not save.                            *)
THEOREM EngagementHolds == Spec => []Engagement
<1>1. Init => Engagement
  BY DEF Init, Down, Engagement, Begun, Past, Exclusive, JournalOpen, Attending, Journalled
<1>2. TypeOK /\ Numbered /\ Prepared /\ [Next]_vars /\ Engagement => Engagement'
  BY EngagementStep
<1>. QED  BY <1>1, <1>2, TypeCorrect, PreparationHolds, PTL DEF Spec
-----------------------------------------------------------------------------
(* Layer 3: a process with the current generation knows the work.          *)

(* Work in flight was in flight before, unless it has just been prepared.  *)
LEMMA WasInFlight ==
    ASSUME TypeOK, [Next]_vars, ~\E c \in Coordinator : CommitPrepared(c),
           NEW d \in Dispatch, dispatches'[d].state \in InFlightStates
    PROVE  InFlight(d)
<1>1. Steady(d) /\ dispatches[d].state \in DispatchStates
  BY DispatchesAreSteady DEF TypeOK, DispatchesTypeOK, DispatchRecord
<1>. QED
  BY <1>1 DEF Steady, Delivered, Lost, InFlight, InFlightStates, DispatchStates

LEMMA OneInFlight ==
    ASSUME OneUnresolvedDispatch, NEW d \in Dispatch, NEW e \in Dispatch,
           dispatches[d].state \in InFlightStates, dispatches[e].state \in InFlightStates
    PROVE  d = e
BY DEF OneUnresolvedDispatch, ActiveDispatch, ActiveDispatchStates, InFlightStates

Knows(c, d) == coord'[c].pc \in IF coord'[c].dispatch = d THEN Attending ELSE Overtaken

LEMMA SupervisorKnows ==
    ASSUME TypeOK, Engagement, FreshProcessKnowsTheWork, NEW c \in Coordinator,
           Bootstrap(c) \/ Supervise(c), coord'[c].fresh, NEW d \in Dispatch, InFlight(d)
    PROVE  Knows(c, d)
<1>1. ASSUME Fresh(c), coord[c].pc \in Resting PROVE FALSE
  BY <1>1 DEF FreshProcessKnowsTheWork, Resting, Attending, Overtaken
<1>2. CASE Bootstrap(c)
  BY <1>1, <1>2
  DEF Bootstrap, NoReviewRetry, RetryReview, ExhaustReviewRetry, RefuseReviewRetry,
      RefreshReadiness, ActivateRun, RunActivated, NoVerificationRetry, RetryVerification,
      RefuseVerificationRetry, AtReviewRetry, AtVerificationRetry, Resting, CoordinatorStates,
      Attending
<1>3. CASE Supervise(c)
  <2>1. CASE FinishTurn(c) \/ FailTurn(c)
    <3>1. coord[c].pc \in Resting
      BY <2>1 DEF FinishTurn, FailTurn, Resting, CoordinatorStates, Attending
    <3>2. Save(c, "exit") \/ GoTo(c, "exit")
      BY <1>1, <2>1, <3>1 DEF FinishTurn, FailTurn
    <3>3. coord'[c].pc = "exit" /\ coord'[c].dispatch = coord[c].dispatch
      BY <3>2, SaveFrame, GoToFrame DEF TypeOK, Saved, Went
    <3>4. coord[c].dispatch # d
      <4>1. dispatches[d].state \notin Settled
        BY DEF InFlight, InFlightStates, Settled, Delivered, Lost
      <4>. QED  BY <3>1, <4>1, NoneAssumption DEF Engagement, Past
    <3>. QED  BY <3>3, <3>4 DEF Knows, Overtaken
  <2>2. CASE LoseRunLease(c)
    <3>1. Fresh(c)
      BY <2>2, GoToFrame DEF LoseRunLease, TypeOK, Went, Fresh
    <3>. QED  BY <1>1, <2>2, <3>1 DEF LoseRunLease, Resting, CoordinatorStates, Attending
  <2>. QED
    BY <1>1, <1>3, <2>1, <2>2
    DEF Supervise, BeginTurn, Acknowledge, CommandDispatch, RequestRiskGate, AskOperator,
        RequestReviewWaiver, HaltRun, CompleteRun, RejectCommand, AbortCommand, AtCommand,
        Resting, CoordinatorStates, Attending
<1>. QED  BY <1>2, <1>3

LEMMA WorkerKnows ==
    ASSUME TypeOK, OneUnresolvedDispatch, Engagement, FreshProcessKnowsTheWork,
           NEW c \in Coordinator, Work(c), ~CommitPrepared(c), coord'[c].fresh,
           NEW d \in Dispatch, InFlight(d), dispatches'[d].state \in InFlightStates
    PROVE  Knows(c, d)
<1>1. ASSUME NEW pc, Save(c, pc) \/ GoTo(c, pc)
      PROVE  /\ coord'[c].pc = pc /\ coord'[c].dispatch = coord[c].dispatch
             /\ GoTo(c, pc) => Fresh(c)
  BY <1>1, SaveFrame, GoToFrame DEF TypeOK, Saved, Went, Fresh
<1>2. ASSUME Fresh(c), coord[c].pc \in {"launching", "launched", "marked", "working", "erring"}
      PROVE  coord[c].dispatch = d
  BY <1>2 DEF FreshProcessKnowsTheWork, Overtaken
<1>3. CASE PrepareConflicts(c)
  BY <1>1, <1>3 DEF PrepareConflicts
<1>4. CASE Launch(c) \/ MarkRunning(c) \/ BindSession(c) \/ CallbackFails(c)
  <2>1. /\ coord'[c].pc \in {"launched", "marked", "working", "erring"}
        /\ coord'[c].dispatch = coord[c].dispatch
        /\ Fresh(c)
    BY <1>1, <1>4 DEF Launch, MarkRunning, BindSession, CallbackFails
  <2>2. coord[c].dispatch = d
    BY <1>2, <1>4, <2>1 DEF Launch, MarkRunning, BindSession, CallbackFails
  <2>. QED  BY <2>1, <2>2 DEF Knows, Attending
<1>5. CASE RejectPrompt(c)
  <2>. DEFINE e == coord[c].dispatch
  <2>1. e \in Dispatch /\ Interrupted(e)
    BY <1>5, AttendingDispatch DEF RejectPrompt, Attending
  <2>2. InFlight(e) /\ dispatches'[e].state \in Lost
    BY <2>1, InterruptedIsSteady DEF TypeOK
  <2>3. e = d
    BY <2>1, <2>2, OneInFlight DEF InFlight
  <2>. QED  BY <2>2, <2>3 DEF Lost, InFlightStates
<1>6. CASE FinalizeInvocation(c)
  <2>1. PICK pc \in {"ended", "stalling", "failing"} : Save(c, pc)
    BY <1>6 DEF FinalizeInvocation, AfterWorker
  <2>. QED  BY <1>1, <2>1 DEF Knows, Attending, Overtaken
<1>7. CASE InvocationClosed(c)
  <2>1. Fresh(c) /\ coord[c].pc \in {"working", "marked", "erring"}
    BY <1>1, <1>7 DEF InvocationClosed, AfterWorker
  <2>2. coord[c].dispatch = d
    BY <1>2, <2>1
  <2>3. d \in invocations
    BY <2>1, <2>2 DEF Engagement, JournalOpen, Journalled
  <2>. QED  BY <1>7, <2>2, <2>3 DEF InvocationClosed
<1>. QED  BY <1>3, <1>4, <1>5, <1>6, <1>7 DEF Work

LEMMA HandlerKnows ==
    ASSUME TypeOK, OneUnresolvedDispatch, FreshProcessKnowsTheWork,
           NEW c \in Coordinator, Apply(c) \/ Fail(c), coord'[c].fresh,
           NEW d \in Dispatch, InFlight(d), dispatches'[d].state \in InFlightStates
    PROVE  Knows(c, d)
<1>. DEFINE e == coord[c].dispatch
<1>1. ASSUME NEW pc, Save(c, pc) \/ GoTo(c, pc)
      PROVE  /\ coord'[c].pc = pc /\ coord'[c].dispatch = e
             /\ GoTo(c, pc) => Fresh(c)
  BY <1>1, SaveFrame, GoToFrame DEF TypeOK, Saved, Went, Fresh
<1>2. ASSUME Fresh(c), coord[c].pc \in Resting \cup {"unleasing"} PROVE FALSE
  BY <1>2 DEF FreshProcessKnowsTheWork, Resting, Attending, Overtaken
<1>3. ASSUME e \in Dispatch, InFlight(e), dispatches'[e].state \in Settled PROVE FALSE
  <2>1. e = d
    BY <1>3, OneInFlight DEF InFlight
  <2>. QED  BY <1>3, <2>1 DEF Settled, Delivered, Lost, InFlightStates
<1>4. CASE Applies(c)
  <2>0. PICK rec, escalates :
          /\ coord[c].pc = "ended" /\ dispatches[e].state = "RUNNING"
          /\ ApplyResult(c, rec, escalates)
    BY <1>4
    DEF Applies, ExecutorCompleted, ExecutorGivesUp, ReviewerAccepts, ReviewerRequestsChanges,
        ReviewerGivesUp, AtResult
  <2>1. e \in Dispatch /\ MoveDispatch(e, "COMPLETED")
    BY <2>0, AttendingDispatch DEF ApplyResult, Attending
  <2>2. dispatches'[e].state = "COMPLETED"
    BY <2>1, MoveFrame DEF TypeOK, DispatchStep
  <2>. QED  BY <1>3, <2>0, <2>1, <2>2 DEF InFlight, InFlightStates, Settled, Delivered
<1>5. CASE ChecksFail(c) \/ SaveFailedDispatch(c) \/ SaveStalledDispatch(c) \/ SaveMalformedReview(c)
  <2>1. e \in Dispatch /\ InFlight(e)
    BY <1>5, AttendingDispatch
    DEF ChecksFail, AtResult, SaveFailedDispatch, SaveStalledDispatch, SaveMalformedReview,
        Attending, InFlight, InFlightStates
  <2>2. PICK target \in Lost, category \in FailureCategories : FailDispatch(e, target, category)
    BY <1>5 DEF ChecksFail, SaveFailedDispatch, SaveStalledDispatch, SaveMalformedReview, Lost,
                FailureCategories
  <2>3. dispatches'[e].state \in Settled
    BY <2>1, <2>2, FailFrame DEF TypeOK, DispatchStep, Settled
  <2>. QED  BY <1>3, <2>1, <2>3
<1>6. CASE RefuseResult(c) \/ MalformedReview(c)
  <2>1. coord'[c].pc \in {"failing", "rejecting", "invalidating"}
    BY <1>1, <1>6 DEF RefuseResult, MalformedReview
  <2>. QED  BY <2>1 DEF Knows, Attending, Overtaken
<1>7. CASE ReloadRecord(c)
  <2>1. coord' = [coord EXCEPT ![c] = [coord[c] EXCEPT !.fresh = TRUE]] /\ coord[c].pc \in FirstSaves
    BY <1>7 DEF ReloadRecord
  <2>2. coord'[c].pc = coord[c].pc
    BY <2>1 DEF TypeOK, CoordTypeOK
  <2>. QED  BY <2>1, <2>2 DEF Knows, FirstSaves, Attending, Overtaken
<1>8. CASE GiveUp(c)
  <2>1. PICK next \in {"exit", "unleasing"} :
          /\ ~Fresh(c) \/ ~InFlight(e)
          /\ next = "unleasing" => ~Fresh(c)
          /\ GoTo(c, next)
    BY <1>8 DEF GiveUp
  <2>2. Fresh(c) /\ coord'[c].pc = "exit" /\ coord'[c].dispatch = e /\ ~InFlight(e)
    BY <1>1, <2>1
  <2>. QED  BY <2>2 DEF Knows, Overtaken
<1>9. CASE \/ PersistForwarded(c) \/ ReleaseLeases(c) \/ BudgetHolds(c) \/ BudgetExceeded(c)
           \/ SaveFailedStep(c) \/ AskReconciliation(c) \/ SaveStalledStep(c)
           \/ AskStallRecovery(c) \/ RetryStalled(c) \/ SaveUnreviewedStep(c)
           \/ LaterSaveConflicts(c)
  <2>1. coord[c].pc \in Resting \cup {"unleasing"}
    BY <1>9
    DEF PersistForwarded, ReleaseLeases, BudgetHolds, BudgetExceeded, SaveFailedStep,
        AskReconciliation, SaveStalledStep, AskStallRecovery, RetryStalled, SaveUnreviewedStep,
        LaterSaveConflicts, Resting, Attending, CoordinatorStates
  <2>2. Fresh(c)
    BY <1>1, <1>9
    DEF PersistForwarded, ReleaseLeases, BudgetHolds, BudgetExceeded, SaveFailedStep,
        AskReconciliation, SaveStalledStep, AskStallRecovery, RetryStalled, SaveUnreviewedStep,
        LaterSaveConflicts
  <2>. QED  BY <1>2, <2>1, <2>2
<1>. QED
  BY <1>4, <1>5, <1>6, <1>7, <1>8, <1>9 DEF Apply, Fail, Applies

LEMMA KnowledgeStep ==
    ASSUME TypeOK, [Next]_vars, OneUnresolvedDispatch, Numbered, Prepared, Engagement,
           FreshProcessKnowsTheWork
    PROVE  FreshProcessKnowsTheWork'
<1>. SUFFICES ASSUME NEW c \in Coordinator, NEW d \in Dispatch,
                     coord'[c].fresh, dispatches'[d].state \in InFlightStates
              PROVE  Knows(c, d)
  BY DEF FreshProcessKnowsTheWork, Fresh, InFlight, Knows
<1>1. CASE \E b \in Coordinator : CommitPrepared(b)
  <2>. PICK b \in Coordinator : CommitPrepared(b)
    BY <1>1
  <2>1. Saved(b, "launching") /\ \A e \in Dispatch \ {coord[b].dispatch} : dispatches'[e] = dispatches[e]
    BY CommitShape
  <2>2. NoActiveDispatch
    BY CommitIsNew DEF CanPrepare
  <2>3. c = b /\ d = coord[b].dispatch
    BY <2>1, <2>2
    DEF Saved, NoActiveDispatch, ActiveDispatch, ActiveDispatchStates, InFlightStates
  <2>. QED  BY <2>1, <2>3 DEF Saved, Knows, Attending
<1>2. CASE ~\E b \in Coordinator : CommitPrepared(b)
  <2>1. InFlight(d)
    BY <1>2, WasInFlight
  <2>2. CASE ~Acts(c)
    <3>1. Same(c) /\ Fresh(c)
      BY <2>2, Bystanders DEF Bystander, Fresh
    <3>. QED  BY <2>1, <3>1 DEF FreshProcessKnowsTheWork, Same, Knows
  <2>3. CASE Start(c)
    BY <2>1, <2>3
    DEF Start, NoActiveDispatch, ActiveDispatch, ActiveDispatchStates, InFlight, InFlightStates
  <2>4. CASE Crash(c) \/ Exit(c)
    BY <2>4 DEF Crash, Exit, Down, TypeOK, CoordTypeOK
  <2>5. CASE StopStale(c)
    BY <2>5, GoToFrame DEF StopStale, TypeOK, Went, Fresh
  <2>6. CASE Bootstrap(c) \/ Supervise(c) \/ Work(c) \/ Apply(c) \/ Fail(c)
    BY <1>2, <2>1, <2>6, SupervisorKnows, WorkerKnows, HandlerKnows
  <2>. QED  BY <2>2, <2>3, <2>4, <2>5, <2>6 DEF Acts, Proceed
<1>. QED  BY <1>1, <1>2

(* The generation check of a save does what it is for.                     *)
THEOREM FreshProcessesKnow == Spec => []FreshProcessKnowsTheWork
<1>1. Init => FreshProcessKnowsTheWork
  BY DEF Init, Down, FreshProcessKnowsTheWork, Fresh
<1>2. /\ TypeOK /\ OneUnresolvedDispatch /\ Numbered /\ Prepared /\ Engagement
      /\ [Next]_vars /\ FreshProcessKnowsTheWork
      => FreshProcessKnowsTheWork'
  BY KnowledgeStep
<1>. QED
  BY <1>1, <1>2, TypeCorrect, OneDispatchAtATime, PreparationHolds, EngagementHolds, PTL DEF Spec
-----------------------------------------------------------------------------
(* Layer 4: while work is in flight nobody alters the run or a step.       *)
Alters(c) ==
    \/ UNCHANGED <<run, request, steps>>
    \/ Fresh(c) /\ coord[c].pc \in Resting
    \/ /\ coord[c].dispatch \in Dispatch
       /\ InFlight(coord[c].dispatch)
       /\ dispatches'[coord[c].dispatch].state \in Settled

LEMMA SupervisorAlters ==
    ASSUME NEW c \in Coordinator, Bootstrap(c) \/ Supervise(c)
    PROVE  Alters(c)
<1>1. CASE Bootstrap(c)
  BY <1>1
  DEF Bootstrap, NoReviewRetry, RetryReview, ExhaustReviewRetry, RefuseReviewRetry,
      RefreshReadiness, ActivateRun, RunActivated, NoVerificationRetry, RetryVerification,
      RefuseVerificationRetry, AtReviewRetry, AtVerificationRetry, Alters, Resting,
      CoordinatorStates, Attending
<1>2. CASE Supervise(c)
  BY <1>2
  DEF Supervise, BeginTurn, LoseRunLease, FinishTurn, FailTurn, Acknowledge, CommandDispatch,
      RequestRiskGate, AskOperator, RequestReviewWaiver, HaltRun, CompleteRun, RejectCommand,
      AbortCommand, AtCommand, Alters, Resting, CoordinatorStates, Attending, record
<1>. QED  BY <1>1, <1>2

LEMMA WorkerAlters ==
    ASSUME TypeOK, NEW c \in Coordinator, Work(c), ~CommitPrepared(c)
    PROVE  Alters(c)
<1>1. CASE RejectPrompt(c)
  <2>1. coord[c].dispatch \in Dispatch /\ Interrupted(coord[c].dispatch)
    BY <1>1, AttendingDispatch DEF RejectPrompt, Attending
  <2>. QED  BY <2>1, InterruptedIsSteady DEF TypeOK, Alters, Settled
<1>2. CASE ~RejectPrompt(c)
  BY <1>2
  DEF Work, PrepareConflicts, Launch, MarkRunning, BindSession, CallbackFails,
      FinalizeInvocation, InvocationClosed, record, Alters
<1>. QED  BY <1>1, <1>2

LEMMA HandlerAlters ==
    ASSUME TypeOK, NEW c \in Coordinator, Apply(c) \/ Fail(c)
    PROVE  Alters(c)
<1>. DEFINE e == coord[c].dispatch
<1>1. CASE Applies(c)
  <2>0. PICK rec, escalates :
          /\ coord[c].pc = "ended" /\ dispatches[e].state = "RUNNING"
          /\ ApplyResult(c, rec, escalates)
    BY <1>1
    DEF Applies, ExecutorCompleted, ExecutorGivesUp, ReviewerAccepts, ReviewerRequestsChanges,
        ReviewerGivesUp, AtResult
  <2>1. e \in Dispatch /\ MoveDispatch(e, "COMPLETED")
    BY <2>0, AttendingDispatch DEF ApplyResult, Attending
  <2>2. dispatches'[e].state = "COMPLETED"
    BY <2>1, MoveFrame DEF TypeOK, DispatchStep
  <2>. QED  BY <2>0, <2>1, <2>2 DEF Alters, InFlight, InFlightStates, Settled, Delivered
<1>2. CASE ChecksFail(c)
  <2>1. e \in Dispatch /\ InFlight(e)
    BY <1>2, AttendingDispatch DEF ChecksFail, AtResult, Attending, InFlight, InFlightStates
  <2>2. PICK category : FailDispatch(e, "FAILED", category)
    BY <1>2 DEF ChecksFail
  <2>3. dispatches'[e].state = "FAILED"
    BY <2>1, <2>2, FailFrame DEF TypeOK, DispatchStep
  <2>. QED  BY <2>1, <2>3 DEF Alters, Settled, Lost
<1>3. CASE \/ PersistForwarded(c) \/ SaveFailedStep(c) \/ AskReconciliation(c)
           \/ SaveStalledStep(c) \/ AskStallRecovery(c) \/ SaveUnreviewedStep(c)
  BY <1>3
  DEF PersistForwarded, SaveFailedStep, AskReconciliation, SaveStalledStep, AskStallRecovery,
      SaveUnreviewedStep, Alters, Resting, Attending, CoordinatorStates
<1>4. CASE BudgetExceeded(c)
  BY <1>4 DEF BudgetExceeded, Alters, Resting, Attending, CoordinatorStates
<1>5. CASE \/ RefuseResult(c) \/ MalformedReview(c) \/ ReleaseLeases(c) \/ BudgetHolds(c)
           \/ ReloadRecord(c) \/ GiveUp(c) \/ LaterSaveConflicts(c) \/ RetryStalled(c)
           \/ SaveFailedDispatch(c) \/ SaveStalledDispatch(c) \/ SaveMalformedReview(c)
  BY <1>5
  DEF RefuseResult, MalformedReview, ReleaseLeases, BudgetHolds, ReloadRecord, GiveUp,
      LaterSaveConflicts, RetryStalled, Acquire, SaveFailedDispatch, SaveStalledDispatch,
      SaveMalformedReview, record, Alters
<1>. QED  BY <1>1, <1>2, <1>3, <1>4, <1>5 DEF Apply, Fail, Applies

LEMMA ActsAlter ==
    ASSUME TypeOK, NEW c \in Coordinator, Acts(c), ~CommitPrepared(c)
    PROVE  Alters(c)
<1>1. CASE Start(c) \/ Crash(c) \/ StopStale(c) \/ Exit(c)
  BY <1>1 DEF Start, Crash, StopStale, Exit, record, Alters
<1>. QED  BY <1>1, SupervisorAlters, WorkerAlters, HandlerAlters DEF Acts, Proceed

Quiet == \A d \in Dispatch : ~InFlight(d)

(* Whoever alters the run, the question or a step leaves nothing in flight. *)
LEMMA AlteredIsQuiet ==
    ASSUME TypeOK, [Next]_vars, OneUnresolvedDispatch, FreshProcessKnowsTheWork,
           WorkInFlightIsOwned, ~\E c \in Coordinator : CommitPrepared(c),
           ~UNCHANGED <<run, request, steps>>
    PROVE  Quiet'
<1>1. ASSUME Quiet PROVE Quiet'
  BY <1>1, WasInFlight DEF Quiet, InFlight
<1>2. ASSUME NEW e \in Dispatch, InFlight(e), dispatches'[e].state \in Settled PROVE Quiet'
  <2>1. ASSUME NEW d \in Dispatch, dispatches'[d].state \in InFlightStates PROVE FALSE
    <3>1. d = e
      BY <1>2, <2>1, WasInFlight, OneInFlight DEF InFlight
    <3>. QED  BY <1>2, <2>1, <3>1 DEF Settled, Delivered, Lost, InFlightStates
  <2>. QED  BY <2>1 DEF Quiet, InFlight
<1>3. ASSUME NEW c \in Coordinator, Acts(c) PROVE Quiet'
  <2>1. CASE Fresh(c) /\ coord[c].pc \in Resting
    BY <1>1, <2>1 DEF FreshProcessKnowsTheWork, Resting, Attending, Overtaken, Quiet
  <2>. QED  BY <1>2, <1>3, <2>1, ActsAlter DEF Alters
<1>4. CASE Answer
  <2>1. run = "WAITING_OPERATOR"
    BY <1>4
    DEF Answer, AnswerHalt, AnswerGate, AnswerQuestion, AnswerReassign, AnswerWaiver,
        AnswerRetry, AnswerReconcile, Answering
  <2>. QED  BY <1>1, <2>1 DEF WorkInFlightIsOwned, Quiet
<1>5. CASE RecoverDispatch
  <2>1. recover.dispatch \in Dispatch /\ Interrupted(recover.dispatch)
    BY <1>5 DEF RecoverDispatch, TypeOK, RecoverTypeOK
  <2>. QED  BY <1>2, <2>1, InterruptedIsSteady DEF TypeOK, Settled
<1>6. CASE \/ \E d \in Dispatch : WorkerExits(d) \/ Cancel(d)
           \/ RunLeaseGoesStale \/ RecoverStart \/ RecoverCrash \/ RecoverNothing
           \/ RecoverForwarding \/ RecoverUnlock \/ RecoverJournals \/ RecoverEnd
           \/ UNCHANGED vars
  BY <1>6
  DEF WorkerExits, Cancel, RunLeaseGoesStale, RecoverStart, RecoverCrash, RecoverNothing,
      RecoverForwarding, RecoverUnlock, RecoverJournals, RecoverEnd, vars, record
<1>. QED  BY <1>3, <1>4, <1>5, <1>6 DEF Next, Acts, RecoverStep

LEMMA OwnershipStep ==
    ASSUME TypeOK, [Next]_vars, OneUnresolvedDispatch, Numbered, Prepared,
           FreshProcessKnowsTheWork, WorkInFlightIsOwned
    PROVE  WorkInFlightIsOwned'
<1>. SUFFICES ASSUME NEW d \in Dispatch, dispatches'[d].state \in InFlightStates
              PROVE  /\ run' = "RUNNING"
                     /\ steps'[d.step].active = d
                     /\ steps'[d.step].state = IF d.kind = "executor" THEN "EXECUTING"
                                                                      ELSE "REVIEWING"
  BY DEF WorkInFlightIsOwned, InFlight
<1>1. CASE \E c \in Coordinator : CommitPrepared(c)
  <2>. PICK c \in Coordinator : CommitPrepared(c)
    BY <1>1
  <2>1. /\ \A e \in Dispatch \ {coord[c].dispatch} : dispatches'[e] = dispatches[e]
        /\ steps'[coord[c].dispatch.step].active = coord[c].dispatch
        /\ steps'[coord[c].dispatch.step].state = IF coord[c].dispatch.kind = "executor"
                                                  THEN "EXECUTING" ELSE "REVIEWING"
        /\ UNCHANGED run
    BY CommitShape
  <2>2. NoActiveDispatch /\ run = "RUNNING"
    BY CommitIsNew DEF CanPrepare
  <2>3. d = coord[c].dispatch
    BY <2>1, <2>2 DEF NoActiveDispatch, ActiveDispatch, ActiveDispatchStates, InFlightStates
  <2>. QED  BY <2>1, <2>2, <2>3
<1>2. CASE ~\E c \in Coordinator : CommitPrepared(c)
  <2>1. UNCHANGED <<run, request, steps>>
    BY <1>2, AlteredIsQuiet DEF Quiet, InFlight
  <2>. QED  BY <1>2, <2>1, WasInFlight DEF WorkInFlightIsOwned
<1>. QED  BY <1>1, <1>2

(* Nothing gets between the launch of a worker and the end of its dispatch.*)
THEOREM WorkIsOwned == Spec => []WorkInFlightIsOwned
<1>1. Init => WorkInFlightIsOwned
  BY DEF Init, WorkInFlightIsOwned, InFlight, InFlightStates
<1>2. /\ TypeOK /\ OneUnresolvedDispatch /\ Numbered /\ Prepared /\ FreshProcessKnowsTheWork
      /\ [Next]_vars /\ WorkInFlightIsOwned
      => WorkInFlightIsOwned'
  BY OwnershipStep
<1>. QED
  BY <1>1, <1>2, TypeCorrect, OneDispatchAtATime, PreparationHolds, FreshProcessesKnow, PTL
  DEF Spec
-----------------------------------------------------------------------------
(* Layer 5: between the saves of a handler.                                *)
HandlerSteps ==
    \A c \in Coordinator : Fresh(c) =>
        LET d == coord[c].dispatch IN
        /\ coord[c].pc \in {"failed_step", "stalled_step"} =>
              Retryable(d.step) /\ dispatches[d].state \in Lost
        /\ coord[c].pc = "escalating" => steps[d.step].state = "BLOCKED"

LEMMA MidHandlerTable ==
    /\ DOMAIN MidHandler =
          {"failed_prepared", "failed_running", "stalled", "invalidated", "completed", "escalating"}
    /\ MidHandler["failed_prepared"] = {"ABANDONED"}
    /\ MidHandler["failed_running"] = {"FAILED"}
    /\ MidHandler["stalled"] = {"FAILED", "ABANDONED"}
    /\ MidHandler["invalidated"] = {"FAILED"}
    /\ MidHandler["completed"] = {"COMPLETED"}
    /\ MidHandler["escalating"] = {"COMPLETED"}
BY DEF MidHandler

(* A question about an escalation is about a step that has been blocked.   *)
LEMMA EscalatingIsBlocked ==
    ASSUME TypeOK, NEW c \in Coordinator, Applies(c), coord'[c].pc = "escalating"
    PROVE  steps'[coord[c].dispatch.step].state = "BLOCKED"
<1>. DEFINE s == coord[c].dispatch.step
<1>1. s \in Step
  BY AttendingDispatch
  DEF Applies, ExecutorCompleted, ExecutorGivesUp, ReviewerAccepts, ReviewerRequestsChanges,
      ReviewerGivesUp, AtResult, Attending
<1>2. ASSUME NEW rec, NEW escalates, ApplyResult(c, rec, escalates)
      PROVE  escalates /\ steps'[s] = rec
  <2>1. coord'[c].pc = IF escalates THEN "escalating" ELSE "completed"
    BY <1>2, SaveFrame DEF ApplyResult, TypeOK, Saved
  <2>2. steps' = [steps EXCEPT ![s] = rec]
    BY <1>2 DEF ApplyResult, ReplaceStep
  <2>. QED  BY <1>1, <2>1, <2>2 DEF TypeOK, StepsTypeOK
<1>3. CASE ExecutorCompleted(c) \/ ReviewerAccepts(c)
  BY <1>2, <1>3 DEF ExecutorCompleted, ReviewerAccepts
<1>4. CASE ExecutorGivesUp(c)
  <2>0. PICK on \in {policy.on_blocked, policy.on_failed} :
          LET target == IF on = "retry" /\ ExecutorRetriesLeft(s) THEN "READY"
                        ELSE IF on = "escalate" THEN "BLOCKED" ELSE "FAILED"
          IN /\ MayMove(s, "BLOCKED", target)
             /\ ApplyResult(c, Moved(s, target), on = "escalate")
    BY <1>4 DEF ExecutorGivesUp
  <2>. DEFINE target == IF on = "retry" /\ ExecutorRetriesLeft(s) THEN "READY"
                        ELSE IF on = "escalate" THEN "BLOCKED" ELSE "FAILED"
              escalates == on = "escalate"
  <2>1. ApplyResult(c, Moved(s, target), escalates)
    BY <2>0
  <2>2. escalates => target = "BLOCKED"
    OBVIOUS
  <2>. HIDE DEF target, escalates
  <2>3. Moved(s, target).state = target
    BY <1>1, MovedState DEF TypeOK
  <2>. QED  BY <1>2, <2>1, <2>2, <2>3
<1>5. CASE ReviewerRequestsChanges(c)
  <2>. DEFINE n == steps[s].rework_rounds + 1
              tie == TieBreak(s, dispatches[coord[c].dispatch].role)
              target == IF tie THEN "REVIEW_REQUIRED"
                        ELSE IF /\ policy.on_changes = "retry"
                                /\ n < MaxReworkRounds
                                /\ ExecutorRetriesLeft(s) THEN "READY"
                        ELSE IF policy.on_changes = "escalate" THEN "BLOCKED" ELSE "FAILED"
              escalates == target = "BLOCKED"
              rec == [Moved(s, target) EXCEPT !.rework_rounds = n]
  <2>1. ApplyResult(c, rec, escalates)
    BY <1>5 DEF ReviewerRequestsChanges
  <2>2. escalates => target = "BLOCKED"
    OBVIOUS
  <2>. HIDE DEF target, n, tie, escalates
  <2>3. rec.state = target
    BY <1>1, CountedShape DEF TypeOK
  <2>. HIDE DEF rec
  <2>. QED  BY <1>2, <2>1, <2>2, <2>3
<1>6. CASE ReviewerGivesUp(c)
  <2>. DEFINE target == BlockedReviewTarget(s)
              escalates == target = "BLOCKED"
  <2>1. ApplyResult(c, Moved(s, target), escalates)
    BY <1>6 DEF ReviewerGivesUp
  <2>2. escalates => target = "BLOCKED"
    OBVIOUS
  <2>. HIDE DEF target, escalates
  <2>3. Moved(s, target).state = target
    BY <1>1, MovedState DEF TypeOK
  <2>. QED  BY <1>2, <2>1, <2>2, <2>3
<1>. QED  BY <1>3, <1>4, <1>5, <1>6 DEF Applies

(* The first save of a handler: the dispatch is lost, the rest untouched.  *)
LEMMA FirstSave ==
    ASSUME TypeOK, WorkInFlightIsOwned, NEW c \in Coordinator,
           SaveFailedDispatch(c) \/ SaveStalledDispatch(c) \/ SaveMalformedReview(c)
    PROVE  LET d == coord[c].dispatch IN
           /\ coord'[c].dispatch = d
           /\ dispatches'[d].state = IF dispatches[d].state = "RUNNING" THEN "FAILED"
                                     ELSE "ABANDONED"
           /\ SaveMalformedReview(c) => dispatches[d].state = "RUNNING"
           /\ SaveFailedDispatch(c) =>
                coord'[c].pc = IF dispatches[d].state = "RUNNING" THEN "failed_running"
                               ELSE "failed_prepared"
           /\ run' = "RUNNING" /\ steps'[d.step].active = d
<1>. DEFINE d == coord[c].dispatch
<1>1. d \in Dispatch /\ InFlight(d)
  BY AttendingDispatch
  DEF SaveFailedDispatch, SaveStalledDispatch, SaveMalformedReview, Attending, InFlight,
      InFlightStates
<1>2. run = "RUNNING" /\ steps[d.step].active = d /\ UNCHANGED <<run, steps>>
  BY <1>1
  DEF WorkInFlightIsOwned, SaveFailedDispatch, SaveStalledDispatch, SaveMalformedReview
<1>3. SaveMalformedReview(c) => dispatches[d].state = "RUNNING"
  BY DEF SaveMalformedReview
<1>4. \E category : FailDispatch(d, IF dispatches[d].state = "RUNNING" THEN "FAILED"
                                    ELSE "ABANDONED", category)
  BY <1>3 DEF SaveFailedDispatch, SaveStalledDispatch, SaveMalformedReview
<1>5. dispatches'[d].state = IF dispatches[d].state = "RUNNING" THEN "FAILED" ELSE "ABANDONED"
  BY <1>1, <1>4, FailFrame DEF TypeOK, DispatchStep
<1>6. ASSUME NEW pc, Save(c, pc) PROVE coord'[c].dispatch = d /\ coord'[c].pc = pc
  BY <1>6, SaveFrame DEF TypeOK, Saved
<1>7. /\ coord'[c].dispatch = d
      /\ SaveFailedDispatch(c) =>
            coord'[c].pc = IF dispatches[d].state = "RUNNING" THEN "failed_running"
                           ELSE "failed_prepared"
  BY <1>6 DEF SaveFailedDispatch, SaveStalledDispatch, SaveMalformedReview
<1>. QED  BY <1>2, <1>3, <1>5, <1>7

(* The save of the step after it: the step can be retried.                 *)
LEMMA SecondSave ==
    ASSUME TypeOK, NEW c \in Coordinator, SaveFailedStep(c) \/ SaveStalledStep(c),
           coord'[c].pc \in {"failed_step", "stalled_step"}
    PROVE  LET s == coord[c].dispatch.step IN
           /\ coord'[c].dispatch = coord[c].dispatch
           /\ UNCHANGED dispatches
           /\ Fresh(c)
           /\ coord[c].pc \in {"failed_prepared", "failed_running", "stalled"}
           /\ steps'[s].state \in {"BLOCKED", "REVIEW_REQUIRED"}
<1>. DEFINE d == coord[c].dispatch
            s == d.step
<1>1. s \in Step
  BY DispatchOf DEF SaveFailedStep, SaveStalledStep, TypeOK, Undispatched
<1>2. ASSUME NEW pc, Save(c, pc) PROVE coord'[c].dispatch = d /\ coord'[c].pc = pc
  BY <1>2, SaveFrame DEF TypeOK, Saved
<1>3. /\ coord'[c].dispatch = d /\ UNCHANGED dispatches /\ Fresh(c)
      /\ coord[c].pc \in {"failed_prepared", "failed_running", "stalled"}
  BY <1>2 DEF SaveFailedStep, SaveStalledStep
<1>4. ASSUME NEW target \in {"BLOCKED", "REVIEW_REQUIRED"}, NEW n,
             \/ ReplaceStep(s, Moved(s, target))
             \/ ReplaceStep(s, [Moved(s, target) EXCEPT !.stalls = n])
      PROVE  steps'[s].state \in {"BLOCKED", "REVIEW_REQUIRED"}
  <2>. DEFINE rec == [Moved(s, target) EXCEPT !.stalls = n]
  <2>1. Moved(s, target).state = target
    BY <1>1, MovedShape DEF TypeOK
  <2>2. rec.state = target
    BY <1>1 DEF TypeOK, Moved, StepsTypeOK, StepRecord
  <2>. HIDE DEF rec
  <2>3. ASSUME NEW r, ReplaceStep(s, r) PROVE steps'[s] = r
    BY <1>1, <2>3 DEF ReplaceStep, TypeOK, StepsTypeOK
  <2>4. ReplaceStep(s, Moved(s, target)) \/ ReplaceStep(s, rec)
    BY <1>4 DEF rec
  <2>. QED  BY <2>1, <2>2, <2>3, <2>4
<1>5. CASE SaveFailedStep(c)
  <2>1. Boundary(s) \in {"BLOCKED", "REVIEW_REQUIRED"}
    BY DEF Boundary
  <2>2. ReplaceStep(s, Moved(s, Boundary(s)))
    BY <1>5 DEF SaveFailedStep
  <2>. QED  BY <1>3, <1>4, <2>1, <2>2
<1>6. CASE SaveStalledStep(c)
  <2>. DEFINE retry == StallRetryAllowed(d)
              fails == ~retry /\ policy.on_exhausted = "fail"
              target == IF fails THEN "FAILED"
                        ELSE IF retry /\ steps[s].state = "EXECUTING" THEN "READY" ELSE Boundary(s)
              n == Moved(s, target).stalls + 1
              next == IF retry THEN "stall_releasing" ELSE IF fails THEN "unleasing"
                      ELSE "stalled_step"
  <2>1. ReplaceStep(s, [Moved(s, target) EXCEPT !.stalls = n]) /\ Save(c, next)
    BY <1>6 DEF SaveStalledStep
  <2>2. coord'[c].pc = next
    <3>. HIDE DEF next
    <3>. QED  BY <1>2, <2>1
  <2>3. ~retry /\ ~fails
    BY <2>2
  <2>4. target \in {"BLOCKED", "REVIEW_REQUIRED"}
    BY <2>3 DEF Boundary
  <2>. HIDE DEF target, n
  <2>. QED  BY <1>3, <1>4, <2>1, <2>4
<1>. QED  BY <1>5, <1>6

LEMMA HandlersStep ==
    ASSUME TypeOK, [Next]_vars, WorkInFlightIsOwned, HandlersAreNotInterrupted, HandlerSteps
    PROVE  HandlersAreNotInterrupted' /\ HandlerSteps'
<1>. DEFINE Mid(c) == LET d == coord'[c].dispatch IN
                      coord'[c].pc \in DOMAIN MidHandler =>
                        /\ dispatches'[d].state \in MidHandler[coord'[c].pc]
                        /\ dispatches'[d].state # "COMPLETED" =>
                            run' = "RUNNING" /\ steps'[d.step].active = d
            Late(c) == LET d == coord'[c].dispatch IN
                       /\ coord'[c].pc \in {"failed_step", "stalled_step"} =>
                            /\ steps'[d.step].state \in {"BLOCKED", "REVIEW_REQUIRED"}
                            /\ dispatches'[d].state \in Lost
                       /\ coord'[c].pc = "escalating" => steps'[d.step].state = "BLOCKED"
<1>1. ASSUME NEW c \in Coordinator, coord'[c].fresh PROVE Mid(c) /\ Late(c)
  <2>1. CASE ~Acts(c)
    <3>1. Same(c) /\ Fresh(c) /\ UNCHANGED record
      BY <1>1, <2>1, Bystanders DEF Bystander, Fresh
    <3>. QED
      BY <3>1 DEF HandlersAreNotInterrupted, HandlerSteps, Same, record, Retryable
  <2>2. CASE Acts(c)
    <3>0. Arrives(c)
      BY <2>2, ActsArrive
    <3>1. CASE coord'[c].pc \in {"failed_prepared", "failed_running", "stalled", "invalidated"}
      <4>1. SaveFailedDispatch(c) \/ SaveStalledDispatch(c) \/ SaveMalformedReview(c)
        BY <3>0, <3>1 DEF Arrives
      <4>2. /\ coord'[c].pc = "stalled" \/ SaveFailedDispatch(c) \/ SaveMalformedReview(c)
            /\ coord'[c].pc \in {"failed_prepared", "failed_running"} => SaveFailedDispatch(c)
            /\ coord'[c].pc = "invalidated" => SaveMalformedReview(c)
        BY <3>0, <3>1 DEF Arrives
      <4>. QED  BY <3>1, <4>1, <4>2, FirstSave, MidHandlerTable
    <3>2. CASE coord'[c].pc \in {"completed", "escalating"}
      <4>1. Applies(c)
        BY <3>0, <3>2 DEF Arrives
      <4>2. PICK rec, escalates : coord[c].pc = "ended" /\ ApplyResult(c, rec, escalates)
        BY <4>1
        DEF Applies, ExecutorCompleted, ExecutorGivesUp, ReviewerAccepts, ReviewerRequestsChanges,
            ReviewerGivesUp, AtResult
      <4>3. coord[c].dispatch \in Dispatch /\ MoveDispatch(coord[c].dispatch, "COMPLETED")
        BY <4>2, AttendingDispatch DEF ApplyResult, Attending
      <4>4. dispatches'[coord[c].dispatch].state = "COMPLETED"
        BY <4>3, MoveFrame DEF TypeOK, DispatchStep
      <4>5. coord'[c].dispatch = coord[c].dispatch
        BY <4>2, SaveFrame DEF ApplyResult, TypeOK, Saved
      <4>. QED  BY <3>2, <4>1, <4>4, <4>5, EscalatingIsBlocked, MidHandlerTable
    <3>3. CASE coord'[c].pc \in {"failed_step", "stalled_step"}
      <4>1. SaveFailedStep(c) \/ SaveStalledStep(c)
        BY <3>0, <3>3 DEF Arrives
      <4>2. /\ coord'[c].dispatch = coord[c].dispatch /\ UNCHANGED dispatches /\ Fresh(c)
            /\ coord[c].pc \in {"failed_prepared", "failed_running", "stalled"}
            /\ steps'[coord[c].dispatch.step].state \in {"BLOCKED", "REVIEW_REQUIRED"}
        BY <3>3, <4>1, SecondSave
      <4>3. dispatches[coord[c].dispatch].state \in Lost
        BY <4>2, MidHandlerTable DEF HandlersAreNotInterrupted, Lost
      <4>. QED  BY <3>3, <4>2, <4>3, MidHandlerTable
    <3>. QED  BY <3>1, <3>2, <3>3, MidHandlerTable
  <2>. QED  BY <2>1, <2>2
<1>. QED  BY <1>1 DEF HandlersAreNotInterrupted, HandlerSteps, Fresh, Retryable

(* The saves of a handler are not interrupted unnoticed.                   *)
THEOREM HandlersHold == Spec => [](HandlersAreNotInterrupted /\ HandlerSteps)
<1>1. Init => HandlersAreNotInterrupted /\ HandlerSteps
  BY DEF Init, Down, HandlersAreNotInterrupted, HandlerSteps, Fresh
<1>2. /\ TypeOK /\ WorkInFlightIsOwned /\ [Next]_vars
      /\ HandlersAreNotInterrupted /\ HandlerSteps
      => (HandlersAreNotInterrupted /\ HandlerSteps)'
  BY HandlersStep
<1>. QED  BY <1>1, <1>2, TypeCorrect, WorkIsOwned, PTL DEF Spec
-----------------------------------------------------------------------------
(* Layer 6: a question stays answerable.                                   *)
Drops == run' # "WAITING_OPERATOR" /\ request' = NoRequest

Asks == run' = "WAITING_OPERATOR" /\ request' # NoRequest /\ Answerable'

(* What a step may do to the question of the run.                          *)
Questions == UNCHANGED <<run, request>> \/ Drops \/ Asks

(* What the answer to a question of this kind needs.                       *)
Right(kind, s, d) ==
    /\ kind = "risk_gate" => ~steps'[s].gate_resolved
    /\ kind = "escalation" => steps'[s].state = "BLOCKED"
    /\ kind = "review_waiver" => steps'[s].state = "REVIEW_REQUIRED"
    /\ kind \in {"stall_recovery", "reconciliation"} =>
          steps'[s].state \in {"BLOCKED", "REVIEW_REQUIRED"}
    /\ kind = "reconciliation" => dispatches'[d].state \in Lost

LEMMA WaitAsks ==
    ASSUME NEW kind, kind # "none", NEW s, NEW d, Wait(kind, s, d), Right(kind, s, d)
    PROVE  Asks
<1>1. run' = "WAITING_OPERATOR" /\ request' = [kind |-> kind, step |-> s, dispatch |-> d]
  BY DEF Wait
<1>2. request'.kind = kind /\ request'.step = s /\ request'.dispatch = d
  BY <1>1
<1>3. request' # NoRequest
  BY <1>2 DEF NoRequest
<1>4. Answerable'
  BY <1>2 DEF Answerable, Right, Retryable, Lost
<1>. QED  BY <1>1, <1>3, <1>4 DEF Asks

LEMMA MoveRunDrops ==
    ASSUME NEW target, target # "WAITING_OPERATOR", MoveRun(target)
    PROVE  Drops
BY DEF MoveRun, Drops

LEMMA ReplaceQuestions ==
    ASSUME NEW s, NEW rec, ReplaceStep(s, rec)
    PROVE  Questions
BY MoveRunDrops DEF ReplaceStep, Questions

LEMMA InterruptedAsks ==
    ASSUME TypeOK, NEW d \in Dispatch, Interrupted(d)
    PROVE  Asks
<1>. DEFINE s == d.step
            target == IF steps[s].state = "EXECUTING" THEN "BLOCKED" ELSE "REVIEW_REQUIRED"
<1>1. steps' = [steps EXCEPT ![s] = Moved(s, target)] /\ Wait("reconciliation", s, d)
  BY DEF Interrupted
<1>2. s \in Step /\ target \in {"BLOCKED", "REVIEW_REQUIRED"}
  BY DEF Dispatch
<1>. HIDE DEF target
<1>3. steps'[s].state = target
  BY <1>1, <1>2, MovedState DEF TypeOK, StepsTypeOK
<1>4. dispatches'[d].state \in Lost
  BY InterruptedIsSteady DEF TypeOK
<1>. QED  BY <1>1, <1>2, <1>3, <1>4, WaitAsks DEF Right

LEMMA BootstrapQuestions ==
    ASSUME TypeOK, NEW c \in Coordinator, Bootstrap(c)
    PROVE  Questions
<1>1. CASE ExhaustReviewRetry(c)
  <2>1. PICK d \in MalformedReviews :
          \/ Wait("stall_recovery", d.step, d) /\ UNCHANGED steps
          \/ MoveRun("HALTED")
          \/ ReplaceStep(d.step, Moved(d.step, "FAILED"))
    BY <1>1 DEF ExhaustReviewRetry
  <2>2. steps[d.step].state = "REVIEW_REQUIRED"
    BY DEF MalformedReviews
  <2>3. CASE Wait("stall_recovery", d.step, d) /\ UNCHANGED steps
    BY <2>2, <2>3, WaitAsks DEF Right, Questions
  <2>. QED  BY <2>1, <2>3, MoveRunDrops, ReplaceQuestions DEF Questions
<1>2. CASE RefuseReviewRetry(c)
  <2>1. PICK d \in MalformedReviews : Wait("reconciliation", d.step, d)
    BY <1>2 DEF RefuseReviewRetry
  <2>2. /\ steps[d.step].state = "REVIEW_REQUIRED" /\ dispatches[d].state \in Lost
        /\ UNCHANGED <<steps, dispatches>>
    BY <1>2 DEF MalformedReviews, RefuseReviewRetry, Lost
  <2>. QED  BY <2>1, <2>2, WaitAsks DEF Right, Questions
<1>3. CASE RefuseVerificationRetry(c)
  <2>1. PICK d \in FailedChecks, kind \in {"reconciliation", "budget"} :
          steps' = [steps EXCEPT ![d.step] = Moved(d.step, "BLOCKED")] /\ Wait(kind, d.step, d)
    BY <1>3 DEF RefuseVerificationRetry
  <2>2. d.step \in Step /\ dispatches[d].state = "FAILED" /\ UNCHANGED dispatches
    BY <1>3 DEF FailedChecks, RefuseVerificationRetry, Dispatch
  <2>3. steps'[d.step].state = "BLOCKED"
    BY <2>1, <2>2, MovedState DEF TypeOK, StepsTypeOK
  <2>. QED  BY <2>1, <2>2, <2>3, WaitAsks DEF Right, Lost, Questions
<1>4. CASE ActivateRun(c)
  BY <1>4, MoveRunDrops DEF ActivateRun, Questions
<1>5. CASE \/ NoReviewRetry(c) \/ RetryReview(c) \/ RefreshReadiness(c) \/ RunActivated(c)
           \/ NoVerificationRetry(c) \/ RetryVerification(c)
  BY <1>5
  DEF NoReviewRetry, RetryReview, RefreshReadiness, RunActivated, NoVerificationRetry,
      RetryVerification, Acquire, record, Questions
<1>. QED  BY <1>1, <1>2, <1>3, <1>4, <1>5 DEF Bootstrap

LEMMA SuperviseQuestions ==
    ASSUME TypeOK, NEW c \in Coordinator, Supervise(c)
    PROVE  Questions
<1>1. CASE RequestRiskGate(c) \/ AskOperator(c) \/ RequestReviewWaiver(c)
  <2>1. UNCHANGED steps
    BY <1>1 DEF RequestRiskGate, AskOperator, RequestReviewWaiver
  <2>2. CASE RequestRiskGate(c)
    BY <2>1, <2>2, WaitAsks DEF RequestRiskGate, Right, Questions
  <2>3. CASE AskOperator(c)
    BY <2>3, WaitAsks DEF AskOperator, Right, Questions
  <2>4. CASE RequestReviewWaiver(c)
    BY <2>1, <2>4, WaitAsks DEF RequestReviewWaiver, Right, Questions
  <2>. QED  BY <1>1, <2>2, <2>3, <2>4
<1>2. CASE HaltRun(c) \/ CompleteRun(c)
  BY <1>2, MoveRunDrops DEF HaltRun, CompleteRun, Questions
<1>3. CASE \/ BeginTurn(c) \/ LoseRunLease(c) \/ FinishTurn(c) \/ FailTurn(c) \/ Acknowledge(c)
           \/ CommandDispatch(c) \/ RejectCommand(c) \/ AbortCommand(c)
  BY <1>3
  DEF BeginTurn, LoseRunLease, FinishTurn, FailTurn, Acknowledge, CommandDispatch, Acquire,
      RejectCommand, AbortCommand, record, Questions
<1>. QED  BY <1>1, <1>2, <1>3 DEF Supervise

LEMMA WorkQuestions ==
    ASSUME TypeOK, NEW c \in Coordinator, Work(c)
    PROVE  Questions
<1>1. CASE RejectPrompt(c)
  <2>1. coord[c].dispatch \in Dispatch /\ Interrupted(coord[c].dispatch)
    BY <1>1, AttendingDispatch DEF RejectPrompt, Attending
  <2>. QED  BY <2>1, InterruptedAsks DEF Questions
<1>2. CASE ~RejectPrompt(c)
  BY <1>2
  DEF Work, CommitPrepared, PrepareConflicts, Launch, MarkRunning, BindSession, CallbackFails,
      FinalizeInvocation, InvocationClosed, record, Questions
<1>. QED  BY <1>1, <1>2

LEMMA ApplyQuestions ==
    ASSUME TypeOK, HandlerSteps, NEW c \in Coordinator, Apply(c)
    PROVE  Questions
<1>. DEFINE d == coord[c].dispatch
            s == d.step
<1>1. CASE Applies(c)
  <2>1. \E rec : ReplaceStep(s, rec)
    BY <1>1
    DEF Applies, ExecutorCompleted, ExecutorGivesUp, ReviewerAccepts, ReviewerRequestsChanges,
        ReviewerGivesUp, ApplyResult
  <2>. QED  BY <2>1, ReplaceQuestions
<1>2. CASE ChecksFail(c)
  <2>. DEFINE escalates == policy.on_changes = "escalate"
              target == IF MayRework(d) THEN "READY" ELSE IF escalates THEN "BLOCKED" ELSE "FAILED"
  <2>1. d \in Dispatch /\ s \in Step
    BY <1>2, AttendingDispatch DEF ChecksFail, AtResult, Attending
  <2>2. PICK category : FailDispatch(d, "FAILED", category)
    BY <1>2 DEF ChecksFail
  <2>3. dispatches'[d].state = "FAILED"
    BY <2>1, <2>2, FailFrame DEF TypeOK, DispatchStep
  <2>4. ASSUME steps' = [steps EXCEPT ![s] = Reworked(d, "BLOCKED")]
        PROVE  steps'[s].state = "BLOCKED"
    BY <2>1, <2>4, ReworkedShape DEF TypeOK, StepsTypeOK
  <2>5. escalates => target = "BLOCKED"
    BY DEF MayRework
  <2>6. \/ ReplaceStep(s, Reworked(d, target))
        \/ /\ escalates
           /\ steps' = [steps EXCEPT ![s] = Reworked(d, target)]
           /\ Wait("escalation", s, d)
        \/ /\ steps' = [steps EXCEPT ![s] = Reworked(d, "BLOCKED")]
           /\ Wait(IF policy.on_limit = "off" THEN "reconciliation" ELSE "budget", s, d)
    BY <1>2 DEF ChecksFail
  <2>. HIDE DEF target, escalates
  <2>7. CASE ReplaceStep(s, Reworked(d, target))
    BY <2>7, ReplaceQuestions
  <2>8. CASE /\ escalates
             /\ steps' = [steps EXCEPT ![s] = Reworked(d, target)]
             /\ Wait("escalation", s, d)
    BY <2>4, <2>5, <2>8, WaitAsks DEF Right, Questions
  <2>9. CASE /\ steps' = [steps EXCEPT ![s] = Reworked(d, "BLOCKED")]
             /\ Wait(IF policy.on_limit = "off" THEN "reconciliation" ELSE "budget", s, d)
    <3>1. PICK kind \in {"reconciliation", "budget"} : Wait(kind, s, d)
      BY <2>9
    <3>2. Right(kind, s, d)
      BY <2>3, <2>4, <2>9 DEF Right, Lost
    <3>. QED  BY <3>1, <3>2, WaitAsks DEF Questions
  <2>. QED  BY <2>6, <2>7, <2>8, <2>9
<1>3. CASE PersistForwarded(c)
  <2>1. UNCHANGED steps /\ Fresh(c)
    BY <1>3 DEF PersistForwarded
  <2>2. CASE coord[c].pc = "escalating"
    <3>1. Wait("escalation", s, d) /\ steps'[s].state = "BLOCKED"
      BY <1>3, <2>1, <2>2 DEF PersistForwarded, HandlerSteps
    <3>. QED  BY <3>1, WaitAsks DEF Right, Questions
  <2>3. CASE coord[c].pc # "escalating"
    BY <1>3, <2>3 DEF PersistForwarded, Questions
  <2>. QED  BY <2>2, <2>3
<1>4. CASE BudgetExceeded(c)
  <2>1. \/ UNCHANGED <<run, request>> \/ MoveRun("HALTED") \/ Wait("budget", s, d)
    BY <1>4 DEF BudgetExceeded
  <2>. QED  BY <2>1, MoveRunDrops, WaitAsks DEF Right, Questions
<1>5. CASE RefuseResult(c) \/ MalformedReview(c) \/ ReleaseLeases(c) \/ BudgetHolds(c)
  BY <1>5 DEF RefuseResult, MalformedReview, ReleaseLeases, BudgetHolds, record, Questions
<1>. QED  BY <1>1, <1>2, <1>3, <1>4, <1>5 DEF Apply, Applies

LEMMA FailQuestions ==
    ASSUME TypeOK, HandlerSteps, NEW c \in Coordinator, Fail(c)
    PROVE  Questions
<1>. DEFINE d == coord[c].dispatch
            s == d.step
<1>1. CASE SaveFailedStep(c) \/ SaveStalledStep(c) \/ SaveUnreviewedStep(c)
  <2>1. \E rec : ReplaceStep(s, rec)
    BY <1>1 DEF SaveFailedStep, SaveStalledStep, SaveUnreviewedStep
  <2>. QED  BY <2>1, ReplaceQuestions
<1>2. CASE AskReconciliation(c) \/ AskStallRecovery(c)
  <2>1. /\ UNCHANGED <<steps, dispatches>> /\ Fresh(c)
        /\ coord[c].pc \in {"failed_step", "stalled_step"}
        /\ Wait("reconciliation", s, d) \/ Wait("stall_recovery", s, d) \/ MoveRun("HALTED")
    BY <1>2 DEF AskReconciliation, AskStallRecovery
  <2>2. steps'[s].state \in {"BLOCKED", "REVIEW_REQUIRED"} /\ dispatches'[d].state \in Lost
    BY <2>1 DEF HandlerSteps, Retryable
  <2>. QED  BY <2>1, <2>2, WaitAsks, MoveRunDrops DEF Right, Questions
<1>3. CASE \/ ReloadRecord(c) \/ GiveUp(c) \/ SaveFailedDispatch(c) \/ SaveStalledDispatch(c)
           \/ RetryStalled(c) \/ SaveMalformedReview(c) \/ LaterSaveConflicts(c)
  BY <1>3
  DEF ReloadRecord, GiveUp, SaveFailedDispatch, SaveStalledDispatch, RetryStalled, Acquire,
      SaveMalformedReview, LaterSaveConflicts, record, Questions
<1>. QED  BY <1>1, <1>2, <1>3 DEF Fail

LEMMA NextQuestions ==
    ASSUME TypeOK, HandlerSteps, [Next]_vars
    PROVE  Questions
<1>1. ASSUME NEW c \in Coordinator, Acts(c) PROVE Questions
  <2>1. CASE Start(c) \/ Crash(c) \/ StopStale(c) \/ Exit(c)
    BY <2>1 DEF Start, Crash, StopStale, Exit, record, Questions
  <2>. QED
    BY <1>1, <2>1, BootstrapQuestions, SuperviseQuestions, WorkQuestions, ApplyQuestions,
       FailQuestions
    DEF Acts, Proceed
<1>2. CASE Answer
  BY <1>2, MoveRunDrops
  DEF Answer, AnswerHalt, AnswerGate, AnswerQuestion, AnswerReassign, AnswerWaiver, AnswerRetry,
      AnswerReconcile, Resume, Questions
<1>3. CASE RecoverDispatch
  <2>1. recover.dispatch \in Dispatch /\ Interrupted(recover.dispatch)
    BY <1>3 DEF RecoverDispatch, TypeOK, RecoverTypeOK
  <2>. QED  BY <2>1, InterruptedAsks DEF Questions
<1>4. CASE \/ \E d \in Dispatch : WorkerExits(d) \/ Cancel(d)
           \/ RunLeaseGoesStale \/ RecoverStart \/ RecoverCrash \/ RecoverNothing
           \/ RecoverForwarding \/ RecoverUnlock \/ RecoverJournals \/ RecoverEnd
           \/ UNCHANGED vars
  BY <1>4
  DEF WorkerExits, Cancel, RunLeaseGoesStale, RecoverStart, RecoverCrash, RecoverNothing,
      RecoverForwarding, RecoverUnlock, RecoverJournals, RecoverEnd, vars, record, Questions
<1>. QED  BY <1>1, <1>2, <1>3, <1>4 DEF Next, Acts, RecoverStep

LEMMA WaitingOnce ==
    ASSUME run = "WAITING_OPERATOR", NEW kind, NEW s, NEW d
    PROVE  ~Wait(kind, s, d)
<1>1. "WAITING_OPERATOR" \notin RunTransitions["WAITING_OPERATOR"]
  BY DEF RunTransitions, RunStates
<1>. QED  BY <1>1 DEF Wait

(* While the run waits, a step may only become ready.                      *)
Waits(s) == steps'[s] = steps[s] \/ (steps[s].state = "PENDING" /\ SameWork(s, steps'[s]))

LEMMA StepsWait ==
    ASSUME TypeOK, [Next]_vars, Prepared, WorkInFlightIsOwned, HandlersAreNotInterrupted,
           run = "WAITING_OPERATOR", run' = "WAITING_OPERATOR"
    PROVE  \A s \in Step : Waits(s)
<1>1. ASSUME UNCHANGED steps PROVE \A s \in Step : Waits(s)
  BY <1>1 DEF Waits
<1>2. ASSUME NEW c \in Coordinator, CommitPrepared(c) PROVE FALSE
  BY <1>2 DEF CommitPrepared, Prepared, Leased, CanPrepare
<1>3. ASSUME NEW c \in Coordinator, Bootstrap(c) PROVE \A s \in Step : Waits(s)
  <2>1. CASE RefreshReadiness(c)
    <3>1. CASE NewlyReady = {}
      BY <1>1, <2>1, <3>1 DEF RefreshReadiness
    <3>2. CASE NewlyReady # {}
      <4>1. \A s \in Step : steps'[s] = IF s \in NewlyReady THEN Moved(s, "READY") ELSE steps[s]
        BY <2>1, <3>2 DEF RefreshReadiness
      <4>2. \A s \in NewlyReady : steps[s].state = "PENDING" /\ SameWork(s, Moved(s, "READY"))
        BY MovedShape DEF NewlyReady, TypeOK
      <4>. QED  BY <4>1, <4>2 DEF Waits
    <3>. QED  BY <3>1, <3>2
  <2>2. CASE ~RefreshReadiness(c)
    BY <1>1, <1>3, <2>2, WaitingOnce
    DEF Bootstrap, NoReviewRetry, RetryReview, ExhaustReviewRetry, RefuseReviewRetry,
        ActivateRun, RunActivated, NoVerificationRetry, RetryVerification,
        RefuseVerificationRetry, Acquire, record
  <2>. QED  BY <2>1, <2>2
<1>4. ASSUME NEW c \in Coordinator, Supervise(c) PROVE \A s \in Step : Waits(s)
  BY <1>1, <1>4, SuperviseTurns
<1>5. ASSUME NEW c \in Coordinator, Work(c) PROVE \A s \in Step : Waits(s)
  BY <1>1, <1>2, <1>5, WaitingOnce
  DEF Work, PrepareConflicts, Launch, RejectPrompt, Interrupted, MarkRunning, BindSession,
      CallbackFails, FinalizeInvocation, InvocationClosed, record
<1>6. ASSUME NEW c \in Coordinator, Apply(c) PROVE \A s \in Step : Waits(s)
  <2>1. CASE Applies(c) \/ ChecksFail(c)
    <3>1. coord[c].pc = "ended" /\ dispatches[coord[c].dispatch].state = "RUNNING"
      BY <2>1
      DEF Applies, ExecutorCompleted, ExecutorGivesUp, ReviewerAccepts, ReviewerRequestsChanges,
          ReviewerGivesUp, ChecksFail, AtResult
    <3>2. coord[c].dispatch \in Dispatch
      BY <3>1, AttendingDispatch DEF Attending
    <3>. QED  BY <3>1, <3>2 DEF WorkInFlightIsOwned, InFlight, InFlightStates
  <2>2. CASE ~Applies(c) /\ ~ChecksFail(c)
    BY <1>1, <1>6, <2>2
    DEF Apply, Applies, PersistForwarded, RefuseResult, MalformedReview, ReleaseLeases,
        BudgetHolds, BudgetExceeded, record
  <2>. QED  BY <2>1, <2>2
<1>7. ASSUME NEW c \in Coordinator, Fail(c) PROVE \A s \in Step : Waits(s)
  <2>1. CASE SaveFailedStep(c) \/ SaveStalledStep(c) \/ SaveUnreviewedStep(c)
    <3>1. coord[c].pc \in {"failed_prepared", "failed_running", "stalled", "invalidated"} /\ Fresh(c)
      BY <2>1 DEF SaveFailedStep, SaveStalledStep, SaveUnreviewedStep
    <3>2. run = "RUNNING"
      BY <3>1, MidHandlerTable DEF HandlersAreNotInterrupted
    <3>. QED  BY <3>2
  <2>2. CASE ~SaveFailedStep(c) /\ ~SaveStalledStep(c) /\ ~SaveUnreviewedStep(c)
    BY <1>1, <1>7, <2>2
    DEF Fail, ReloadRecord, GiveUp, SaveFailedDispatch, AskReconciliation, SaveStalledDispatch,
        AskStallRecovery, RetryStalled, Acquire, SaveMalformedReview, LaterSaveConflicts, record
  <2>. QED  BY <2>1, <2>2
<1>8. ASSUME NEW c \in Coordinator, Start(c) \/ Crash(c) \/ StopStale(c) \/ Exit(c)
      PROVE  \A s \in Step : Waits(s)
  BY <1>1, <1>8 DEF Start, Crash, StopStale, Exit, record
<1>9. CASE Answer
  BY <1>9
  DEF Answer, AnswerHalt, AnswerGate, AnswerQuestion, AnswerReassign, AnswerWaiver, AnswerRetry,
      AnswerReconcile, Resume, MoveRun
<1>10. CASE RecoverDispatch
  BY <1>10, WaitingOnce DEF RecoverDispatch, Interrupted
<1>11. CASE \/ \E d \in Dispatch : WorkerExits(d) \/ Cancel(d)
           \/ RunLeaseGoesStale \/ RecoverStart \/ RecoverCrash \/ RecoverNothing
           \/ RecoverForwarding \/ RecoverUnlock \/ RecoverJournals \/ RecoverEnd
           \/ UNCHANGED vars
  BY <1>1, <1>11
  DEF WorkerExits, Cancel, RunLeaseGoesStale, RecoverStart, RecoverCrash, RecoverNothing,
      RecoverForwarding, RecoverUnlock, RecoverJournals, RecoverEnd, vars, record
<1>. QED
  BY <1>3, <1>4, <1>5, <1>6, <1>7, <1>8, <1>9, <1>10, <1>11 DEF Next, Proceed, RecoverStep

LEMMA RequestStep ==
    ASSUME TypeOK, [Next]_vars, Prepared, WorkInFlightIsOwned, HandlersAreNotInterrupted,
           HandlerSteps, RequestIsAnswerable
    PROVE  RequestIsAnswerable'
<1>1. CASE Drops
  BY <1>1 DEF Drops, RequestIsAnswerable
<1>2. CASE Asks
  BY <1>2 DEF Asks, RequestIsAnswerable
<1>3. CASE UNCHANGED <<run, request>>
  <2>1. CASE run # "WAITING_OPERATOR"
    BY <1>3, <2>1 DEF RequestIsAnswerable
  <2>2. CASE run = "WAITING_OPERATOR"
    <3>1. \A s \in Step : Waits(s)
      BY <1>3, <2>2, StepsWait
    <3>2. \A s \in Step :
            /\ steps[s].state # "PENDING" => steps'[s].state = steps[s].state
            /\ steps'[s].gate_resolved = steps[s].gate_resolved
      BY <3>1 DEF Waits, SameWork
    <3>3. ~\E c \in Coordinator : CommitPrepared(c)
      BY <2>2 DEF CommitPrepared, Prepared, Leased, CanPrepare
    <3>4. \A d \in Dispatch : dispatches[d].state \in Lost => dispatches'[d].state \in Lost
      BY <3>3, DispatchesAreSteady DEF Steady
    <3>5. /\ request # NoRequest /\ Answerable
          /\ request.kind \in RequestKinds \cup {"none"}
          /\ request.kind \notin {"none", "underspecification"} => request.step \in Step
          /\ request.kind = "reconciliation" => request.dispatch \in Dispatch
      BY <2>2 DEF RequestIsAnswerable, TypeOK, RunTypeOK
    <3>6. Answerable'
      BY <1>3, <3>2, <3>4, <3>5 DEF Answerable, Retryable, RequestKinds, Lost
    <3>. QED  BY <1>3, <2>2, <3>5, <3>6 DEF RequestIsAnswerable
  <2>. QED  BY <2>1, <2>2
<1>. QED  BY <1>1, <1>2, <1>3, NextQuestions DEF Questions

(* A waiting run can be answered with something else than halt.            *)
THEOREM RequestsAreAnswerable == Spec => []RequestIsAnswerable
<1>1. Init => RequestIsAnswerable
  BY DEF Init, RequestIsAnswerable
<1>2. /\ TypeOK /\ Prepared /\ WorkInFlightIsOwned /\ HandlersAreNotInterrupted /\ HandlerSteps
      /\ [Next]_vars /\ RequestIsAnswerable
      => RequestIsAnswerable'
  BY RequestStep
<1>. QED
  BY <1>1, <1>2, TypeCorrect, PreparationHolds, WorkIsOwned, HandlersHold, PTL DEF Spec
-----------------------------------------------------------------------------
(* Layer 7: what is settled stays settled, and who reopens a step.         *)
Reviewing(s) ==
    /\ steps[s].state = "REVIEW_REQUIRED" /\ steps'[s].state = "REVIEWING"
    /\ SameVotes(s, steps'[s])
    /\ steps'[s].executor_attempts = steps[s].executor_attempts

Executing(s) == steps[s].state = "READY" /\ steps'[s].state = "EXECUTING"

(* Opening a gate leaves the rest of a step.                               *)
Opened(s) ==
    /\ run = "WAITING_OPERATOR"
    /\ steps'[s].state = steps[s].state
    /\ steps'[s].review_waived = steps[s].review_waived
    /\ steps'[s].executor_attempts = steps[s].executor_attempts
    /\ SameVotes(s, steps'[s])

(* Every step of the system, seen from one step of the plan.               *)
LEMMA StepMoves ==
    ASSUME TypeOK, [Next]_vars, Numbered, Prepared, NEW s \in Step
    PROVE  \/ steps'[s] = steps[s] \/ Opened(s) \/ Turn(s, steps'[s])
           \/ (Reviewing(s) \/ Executing(s)) /\ run = "RUNNING"
<1>1. CASE \E c \in Coordinator : CommitPrepared(c)
  <2>. PICK c \in Coordinator : CommitPrepared(c)
    BY <1>1
  <2>. DEFINE d == coord[c].dispatch
  <2>1. d \in Dispatch /\ d.step \in Step /\ CanPrepare(d.step, d.kind, coord[c].role)
    BY CommitIsNew
  <2>2. /\ steps'[d.step].state = IF d.kind = "executor" THEN "EXECUTING" ELSE "REVIEWING"
        /\ SameVotes(d.step, steps'[d.step])
        /\ steps'[d.step].executor_attempts = IF d.kind = "executor" THEN d.attempt
                                              ELSE steps[d.step].executor_attempts
        /\ \A t \in Step \ {d.step} : steps'[t] = steps[t]
    BY CommitShape
  <2>3. /\ run = "RUNNING"
        /\ steps[d.step].state = IF d.kind = "executor" THEN "READY" ELSE "REVIEW_REQUIRED"
    BY <2>1 DEF CanPrepare, ExecutorMayStart, ReviewerMayStart
  <2>. QED  BY <2>1, <2>2, <2>3 DEF Reviewing, Executing
<1>2. CASE ~\E c \in Coordinator : CommitPrepared(c)
  <2>1. ASSUME GateOpens(s) PROVE Opened(s)
    BY <2>1 DEF GateOpens, Opened, SameVotes, TypeOK, StepsTypeOK, StepRecord
  <2>. QED  BY <1>2, <2>1, StepsTurn DEF Turns
<1>. QED  BY <1>1, <1>2

LEMMA SettledStepStays ==
    ASSUME TypeOK, [Next]_vars, Numbered, Prepared, NEW s \in Step,
           steps[s].state \in SettledStepStates
    PROVE  steps'[s].state = steps[s].state
BY StepMoves DEF Opened, Turn, Reviewing, Executing, SettledStepStates

LEMMA FoundationStep ==
    ASSUME TypeOK, [Next]_vars, Numbered, Prepared, WorkBuildsOnSettledSteps
    PROVE  WorkBuildsOnSettledSteps'
<1>. SUFFICES ASSUME NEW s \in Step, NEW p \in Step,
                     steps'[s].state # "PENDING", p \in DependsOn[s]
              PROVE  steps'[p].state \in {"ACCEPTED", "WAIVED"}
  BY DEF WorkBuildsOnSettledSteps
<1>1. steps[p].state \in SettledStepStates
  <2>1. CASE steps[s].state # "PENDING"
    BY <2>1 DEF WorkBuildsOnSettledSteps, SettledStepStates
  <2>2. CASE steps[s].state = "PENDING"
    <3>1. Turn(s, steps'[s])
      BY <2>2, StepMoves DEF Opened, Reviewing, Executing
    <3>. QED  BY <2>2, <3>1 DEF Turn, DependenciesSettled
  <2>. QED  BY <2>1, <2>2
<1>. QED  BY <1>1, SettledStepStays DEF SettledStepStates

(* Once a step has left PENDING its dependencies are settled, for good.    *)
THEOREM WorkIsFounded == Spec => []WorkBuildsOnSettledSteps
<1>1. Init => WorkBuildsOnSettledSteps
  BY DEF Init, WorkBuildsOnSettledSteps
<1>2. TypeOK /\ Numbered /\ Prepared /\ [Next]_vars /\ WorkBuildsOnSettledSteps
      => WorkBuildsOnSettledSteps'
  BY FoundationStep
<1>. QED  BY <1>1, <1>2, TypeCorrect, PreparationHolds, PTL DEF Spec

LEMMA ReopeningStep ==
    ASSUME TypeOK, [Next]_vars, Numbered, Prepared, NEW s \in Step,
           steps[s].state = "BLOCKED", steps'[s].state = "READY"
    PROVE  run = "WAITING_OPERATOR" /\ request.step = s
BY StepMoves DEF Opened, Turn, Reviewing, Executing

(* Only the operator reopens blocked work, in answer to a question about   *)
(* that very step: no retry is implicit.                                   *)
THEOREM OnlyTheOperatorReopens == Spec => BlockedWorkNeedsTheOperator
<1>1. TypeOK /\ Numbered /\ Prepared /\ [Next]_vars
      => [\A s \in Step :
            steps[s].state = "BLOCKED" /\ steps'[s].state = "READY" =>
              run = "WAITING_OPERATOR" /\ request.step = s]_vars
  BY ReopeningStep
<1>. QED
  BY <1>1, TypeCorrect, PreparationHolds, PTL DEF Spec, BlockedWorkNeedsTheOperator
-----------------------------------------------------------------------------
(* Layer 8: a vote is cast on the latest work.                             *)

(* A review in flight judges the latest work, by a reviewer of the step    *)
(* who has not accepted it yet.                                            *)
ReviewInFlight ==
    \A d \in Dispatch :
        InFlight(d) /\ d.kind = "reviewer" =>
            /\ dispatches[d].target = steps[d.step].executor_attempts
            /\ dispatches[d].role \in Reviewers[d.step] \ steps[d.step].accepted_reviewers

(* Only the reviewers of the plan vote.                                    *)
VotersAreReviewers ==
    \A s \in Step :
        steps[s].state \in ReviewStates => steps[s].accepted_reviewers \subseteq Reviewers[s]

LEMMA ReviewInFlightStep ==
    ASSUME TypeOK, [Next]_vars, OneUnresolvedDispatch, Numbered, Prepared,
           FreshProcessKnowsTheWork, WorkInFlightIsOwned, ReviewInFlight
    PROVE  ReviewInFlight'
<1>. SUFFICES ASSUME NEW d \in Dispatch, dispatches'[d].state \in InFlightStates,
                     d.kind = "reviewer"
              PROVE  /\ dispatches'[d].target = steps'[d.step].executor_attempts
                     /\ dispatches'[d].role \in
                            Reviewers[d.step] \ steps'[d.step].accepted_reviewers
  BY DEF ReviewInFlight, InFlight
<1>1. CASE \E c \in Coordinator : CommitPrepared(c)
  <2>. PICK c \in Coordinator : CommitPrepared(c)
    BY <1>1
  <2>1. CanPrepare(coord[c].dispatch.step, coord[c].dispatch.kind, coord[c].role)
    BY CommitIsNew
  <2>2. \A e \in Dispatch \ {coord[c].dispatch} : dispatches'[e] = dispatches[e]
    BY CommitShape
  <2>3. d = coord[c].dispatch
    BY <2>1, <2>2
    DEF CanPrepare, NoActiveDispatch, ActiveDispatch, ActiveDispatchStates, InFlightStates
  <2>4. coord[c].role \in Reviewers[d.step] \ steps[d.step].accepted_reviewers
    BY <2>1, <2>3 DEF CanPrepare, ReviewerMayStart
  <2>5. /\ dispatches'[d].role = coord[c].role
        /\ dispatches'[d].target = steps[d.step].executor_attempts
        /\ steps'[d.step].executor_attempts = steps[d.step].executor_attempts
        /\ SameVotes(d.step, steps'[d.step])
    BY <2>3, CommitShape
  <2>. QED  BY <2>4, <2>5 DEF SameVotes
<1>2. CASE ~\E c \in Coordinator : CommitPrepared(c)
  <2>1. InFlight(d)
    BY <1>2, WasInFlight
  <2>2. UNCHANGED steps
    BY <1>2, AlteredIsQuiet DEF Quiet, InFlight
  <2>3. dispatches'[d].role = dispatches[d].role /\ dispatches'[d].target = dispatches[d].target
    BY <1>2, <2>1, DispatchesAreSteady DEF Steady, InFlight, InFlightStates
  <2>. QED  BY <2>1, <2>2, <2>3 DEF ReviewInFlight
<1>. QED  BY <1>1, <1>2

(* A vote that was cast stays cast.                                        *)
LEMMA JudgedStays ==
    ASSUME TypeOK, [Next]_vars, Numbered, Prepared, NEW s \in Step, NEW role, Judged(s, role),
           steps'[s].executor_attempts = steps[s].executor_attempts
    PROVE  Judged(s, role)'
<1>. PICK d \in Dispatch :
        /\ d.step = s /\ d.kind = "reviewer"
        /\ dispatches[d].role = role
        /\ dispatches[d].target = steps[s].executor_attempts
        /\ dispatches[d].state \in {"COMPLETED", "FORWARDED", "ACKNOWLEDGED"}
  BY DEF Judged
<1>1. /\ dispatches'[d].role = role
      /\ dispatches'[d].target = steps[s].executor_attempts
      /\ dispatches'[d].state \in {"COMPLETED", "FORWARDED", "ACKNOWLEDGED"}
  <2>1. CASE \E c \in Coordinator : CommitPrepared(c)
    <3>. PICK c \in Coordinator : CommitPrepared(c)
      BY <2>1
    <3>1. dispatches[coord[c].dispatch].state = "NONE"
      BY CommitIsNew
    <3>2. dispatches'[d] = dispatches[d]
      BY <3>1, CommitShape
    <3>. QED  BY <3>2
  <2>2. CASE ~\E c \in Coordinator : CommitPrepared(c)
    BY <2>2, DispatchesAreSteady DEF Steady, Delivered
  <2>. QED  BY <2>1, <2>2
<1>. QED  BY <1>1 DEF Judged

(* The votes of one step under review.                                     *)
Counted(s) ==
    /\ \A role \in steps[s].accepted_reviewers : Judged(s, role)
    /\ steps[s].review_acceptances = Cardinality(steps[s].accepted_reviewers)
    /\ steps[s].accepted_reviewers \subseteq Reviewers[s]

LEMMA CountStep ==
    ASSUME TypeOK, [Next]_vars, Numbered, Prepared, WorkInFlightIsOwned, ReviewInFlight,
           NEW s \in Step, steps'[s].state \in ReviewStates,
           steps[s].state \in ReviewStates => Counted(s)
    PROVE  Counted(s)'
<1>1. ASSUME steps[s].state \in ReviewStates, SameVotes(s, steps'[s]),
             steps'[s].executor_attempts = steps[s].executor_attempts
      PROVE  Counted(s)'
  BY <1>1, JudgedStays DEF Counted, SameVotes
<1>2. CASE steps'[s] = steps[s]
  BY <1>1, <1>2 DEF SameVotes
<1>3. CASE Opened(s)
  BY <1>1, <1>3 DEF Opened
<1>4. CASE Reviewing(s)
  BY <1>1, <1>4 DEF Reviewing, ReviewStates
<1>5. CASE Executing(s)
  BY <1>5 DEF Executing, ReviewStates
<1>6. CASE Turn(s, steps'[s])
  <2>0. VotesFollow(s, steps'[s]) /\ steps'[s].executor_attempts = steps[s].executor_attempts
    BY <1>6 DEF Turn, SameWork
  <2>1. CASE steps[s].state \in {"REVIEW_REQUIRED", "REVIEWING"} /\ SameVotes(s, steps'[s])
    BY <1>1, <2>0, <2>1 DEF ReviewStates
  <2>2. CASE NoVotes(steps'[s])
    <3>1. Cardinality({}) = 0
      BY FS_EmptySet
    <3>. QED  BY <2>2, <3>1 DEF NoVotes, Counted
  <2>3. CASE \E d \in Dispatch :
              /\ d.step = s /\ d.kind = "reviewer"
              /\ dispatches[d].state = "RUNNING" /\ dispatches'[d].state = "COMPLETED"
              /\ steps'[s].review_acceptances = steps[s].review_acceptances + 1
              /\ steps'[s].accepted_reviewers =
                    steps[s].accepted_reviewers \cup {dispatches[d].role}
    <3>. PICK d \in Dispatch :
              /\ d.step = s /\ d.kind = "reviewer"
              /\ dispatches[d].state = "RUNNING" /\ dispatches'[d].state = "COMPLETED"
              /\ steps'[s].review_acceptances = steps[s].review_acceptances + 1
              /\ steps'[s].accepted_reviewers =
                    steps[s].accepted_reviewers \cup {dispatches[d].role}
      BY <2>3
    <3>. DEFINE voters == steps[s].accepted_reviewers
                role == dispatches[d].role
    <3>1. InFlight(d)
      BY DEF InFlight, InFlightStates
    <3>2. /\ dispatches[d].target = steps[s].executor_attempts
          /\ role \in Reviewers[s] \ voters
      BY <3>1 DEF ReviewInFlight
    <3>3. steps[s].state \in ReviewStates
      BY <3>1 DEF WorkInFlightIsOwned, ReviewStates
    <3>4. Counted(s)
      BY <3>3
    <3>5. IsFiniteSet(voters)
      <4>1. IsFiniteSet(Reviewers[s]) /\ voters \subseteq Reviewers[s]
        BY <3>4, ReviewAssumption DEF Counted
      <4>. QED  BY <4>1, FS_Subset
    <3>6. Cardinality(voters \cup {role}) = Cardinality(voters) + 1
      BY <3>2, <3>5, FS_AddElement
    <3>7. ASSUME NEW r \in steps'[s].accepted_reviewers PROVE Judged(s, r)'
      <4>1. CASE r \in voters
        BY <2>0, <3>4, <4>1, JudgedStays DEF Counted
      <4>2. CASE r = role
        <5>1. ~\E c \in Coordinator : CommitPrepared(c)
          <6>1. ASSUME NEW c \in Coordinator, CommitPrepared(c) PROVE FALSE
            <7>1. CanPrepare(coord[c].dispatch.step, coord[c].dispatch.kind, coord[c].role)
              BY <6>1, CommitIsNew
            <7>. QED
              BY <7>1
              DEF CanPrepare, NoActiveDispatch, ActiveDispatch, ActiveDispatchStates
          <6>. QED  BY <6>1
        <5>2. dispatches'[d].role = role /\ dispatches'[d].target = dispatches[d].target
          BY <5>1, DispatchesAreSteady DEF Steady
        <5>. QED  BY <2>0, <3>2, <4>2, <5>2 DEF Judged
      <4>. QED  BY <4>1, <4>2
    <3>. QED  BY <3>2, <3>4, <3>6, <3>7 DEF Counted
  <2>. QED  BY <2>0, <2>1, <2>2, <2>3 DEF VotesFollow
<1>. QED  BY <1>2, <1>3, <1>4, <1>5, <1>6, StepMoves

(* A step is accepted by enough votes, or by a waiver.                     *)
LEMMA AcceptanceStep ==
    ASSUME TypeOK, [Next]_vars, Numbered, Prepared, VotesJudgeTheLatestWork,
           NEW s \in Step, steps'[s].state = "ACCEPTED", ~steps'[s].review_waived
    PROVE  steps'[s].review_acceptances >= RequiredAcceptances[s]
<1>1. CASE steps'[s] = steps[s]
  BY <1>1 DEF VotesJudgeTheLatestWork
<1>2. CASE Opened(s)
  BY <1>2 DEF Opened, SameVotes, VotesJudgeTheLatestWork
<1>3. CASE Reviewing(s) \/ Executing(s)
  BY <1>3 DEF Reviewing, Executing
<1>4. CASE Turn(s, steps'[s])
  <2>1. VotesFollow(s, steps'[s])
    BY <1>4 DEF Turn, ReviewStates
  <2>2. CASE NoVotes(steps'[s]) /\ RequiredAcceptances[s] = 0
    BY <2>2 DEF NoVotes
  <2>. QED  BY <2>1, <2>2 DEF VotesFollow
<1>. QED  BY <1>1, <1>2, <1>3, <1>4, StepMoves

Voting == ReviewInFlight /\ VotersAreReviewers /\ VotesJudgeTheLatestWork

LEMMA VotingStep ==
    ASSUME TypeOK, [Next]_vars, OneUnresolvedDispatch, Numbered, Prepared,
           FreshProcessKnowsTheWork, WorkInFlightIsOwned, Voting
    PROVE  Voting'
<1>1. ReviewInFlight'
  BY ReviewInFlightStep DEF Voting
<1>2. ASSUME NEW s \in Step, steps'[s].state \in ReviewStates PROVE Counted(s)'
  <2>1. steps[s].state \in ReviewStates => Counted(s)
    BY DEF Voting, VotersAreReviewers, VotesJudgeTheLatestWork, ReviewStates, Counted
  <2>. QED  BY <1>2, <2>1, CountStep DEF Voting
<1>3. VotersAreReviewers'
  BY <1>2 DEF VotersAreReviewers, Counted
<1>4. ASSUME NEW s \in Step, steps'[s].state \in {"REVIEW_REQUIRED", "REVIEWING", "ACCEPTED"}
      PROVE  /\ \A role \in steps'[s].accepted_reviewers : Judged(s, role)'
             /\ steps'[s].review_acceptances = Cardinality(steps'[s].accepted_reviewers)
             /\ steps'[s].state = "ACCEPTED" /\ ~steps'[s].review_waived =>
                    steps'[s].review_acceptances >= RequiredAcceptances[s]
  <2>1. Counted(s)'
    BY <1>2, <1>4 DEF ReviewStates
  <2>. QED  BY <2>1, AcceptanceStep DEF Voting, Counted
<1>5. VotesJudgeTheLatestWork'
  BY <1>4 DEF VotesJudgeTheLatestWork
<1>. QED  BY <1>1, <1>3, <1>5 DEF Voting

(* A vote counts only for the work it was cast on.                         *)
THEOREM VotesCount == Spec => []VotesJudgeTheLatestWork
<1>1. Init => Voting
  BY DEF Init, Voting, ReviewInFlight, VotersAreReviewers, VotesJudgeTheLatestWork, InFlight,
         InFlightStates, ReviewStates
<1>2. /\ TypeOK /\ OneUnresolvedDispatch /\ Numbered /\ Prepared /\ FreshProcessKnowsTheWork
      /\ WorkInFlightIsOwned /\ [Next]_vars /\ Voting
      => Voting'
  BY VotingStep
<1>3. Voting => VotesJudgeTheLatestWork
  BY DEF Voting
<1>. QED
  BY <1>1, <1>2, <1>3, TypeCorrect, OneDispatchAtATime, PreparationHolds, FreshProcessesKnow,
     WorkIsOwned, PTL
  DEF Spec
-----------------------------------------------------------------------------
(* Layer 9: success is complete.  No handler waives a whole step, and only *)
(* the completion guard makes a run SUCCEEDED.                             *)
NoStepWaived == \A s \in Step : steps[s].state # "WAIVED"

LEMMA NoStepWaivedStep ==
    ASSUME TypeOK, [Next]_vars, Numbered, Prepared, NoStepWaived
    PROVE  NoStepWaived'
BY StepMoves DEF NoStepWaived, Opened, Turn, Reviewing, Executing

Unsuccessful == run' = "SUCCEEDED" => run = "SUCCEEDED"

LEMMA TransitionsUnsuccessful ==
    /\ UNCHANGED run => Unsuccessful
    /\ \A target : MoveRun(target) /\ target # "SUCCEEDED" => Unsuccessful
    /\ \A kind, s, d : Wait(kind, s, d) => Unsuccessful
    /\ \A s, rec : ReplaceStep(s, rec) => Unsuccessful
    /\ \A d : Interrupted(d) => Unsuccessful
BY DEF Unsuccessful, MoveRun, Wait, ReplaceStep, Interrupted

LEMMA OnlyCompletionSucceeds ==
    ASSUME TypeOK, [Next]_vars, ~\E c \in Coordinator : CompleteRun(c)
    PROVE  Unsuccessful
<1>1. ASSUME NEW c \in Coordinator, Bootstrap(c) PROVE Unsuccessful
  BY <1>1, TransitionsUnsuccessful
  DEF Bootstrap, NoReviewRetry, RetryReview, ExhaustReviewRetry, RefuseReviewRetry,
      RefreshReadiness, ActivateRun, RunActivated, NoVerificationRetry, RetryVerification,
      RefuseVerificationRetry, Acquire, record
<1>2. ASSUME NEW c \in Coordinator, Supervise(c) PROVE Unsuccessful
  BY <1>2, TransitionsUnsuccessful
  DEF Supervise, BeginTurn, LoseRunLease, FinishTurn, FailTurn, Acknowledge, CommandDispatch,
      Acquire, RequestRiskGate, AskOperator, RequestReviewWaiver, HaltRun, RejectCommand,
      AbortCommand, record
<1>3. ASSUME NEW c \in Coordinator, Work(c) PROVE Unsuccessful
  BY <1>3, TransitionsUnsuccessful
  DEF Work, CommitPrepared, PrepareConflicts, Launch, RejectPrompt, MarkRunning, BindSession,
      CallbackFails, FinalizeInvocation, InvocationClosed, record
<1>4. ASSUME NEW c \in Coordinator, Apply(c) PROVE Unsuccessful
  BY <1>4, TransitionsUnsuccessful
  DEF Apply, ExecutorCompleted, ExecutorGivesUp, ReviewerAccepts, ReviewerRequestsChanges,
      ReviewerGivesUp, ApplyResult, RefuseResult, MalformedReview, ChecksFail, PersistForwarded,
      ReleaseLeases, BudgetHolds, BudgetExceeded, record
<1>5. ASSUME NEW c \in Coordinator, Fail(c) PROVE Unsuccessful
  BY <1>5, TransitionsUnsuccessful
  DEF Fail, ReloadRecord, GiveUp, SaveFailedDispatch, SaveFailedStep, AskReconciliation,
      SaveStalledDispatch, SaveStalledStep, AskStallRecovery, RetryStalled, Acquire,
      SaveMalformedReview, SaveUnreviewedStep, LaterSaveConflicts, record
<1>6. ASSUME NEW c \in Coordinator, Start(c) \/ Crash(c) \/ StopStale(c) \/ Exit(c)
      PROVE  Unsuccessful
  BY <1>6, TransitionsUnsuccessful DEF Start, Crash, StopStale, Exit, record
<1>7. CASE Answer
  BY <1>7, TransitionsUnsuccessful
  DEF Answer, AnswerHalt, AnswerGate, AnswerQuestion, AnswerReassign, AnswerWaiver, AnswerRetry,
      AnswerReconcile, Resume
<1>8. CASE \/ \E d \in Dispatch : WorkerExits(d) \/ Cancel(d)
           \/ RunLeaseGoesStale \/ RecoverStart \/ RecoverCrash \/ RecoverDispatch
           \/ RecoverNothing \/ RecoverForwarding \/ RecoverUnlock \/ RecoverJournals
           \/ RecoverEnd \/ UNCHANGED vars
  BY <1>8, TransitionsUnsuccessful
  DEF WorkerExits, Cancel, RunLeaseGoesStale, RecoverStart, RecoverCrash, RecoverDispatch,
      RecoverNothing, RecoverForwarding, RecoverUnlock, RecoverJournals, RecoverEnd, vars, record
<1>. QED
  BY <1>1, <1>2, <1>3, <1>4, <1>5, <1>6, <1>7, <1>8 DEF Next, Proceed, RecoverStep

(* The completion guard has looked at every step and every dispatch.       *)
LEMMA CompletionIsComplete ==
    ASSUME TypeOK, NoStepWaived, VotesJudgeTheLatestWork, NEW c \in Coordinator, CompleteRun(c)
    PROVE  SuccessIsComplete'
<1>1. UNCHANGED <<steps, dispatches>> /\ NoObligations
  BY DEF CompleteRun
<1>2. ASSUME NEW s \in Step
      PROVE  /\ steps[s].state = "ACCEPTED" /\ steps[s].gate_resolved
             /\ \/ steps[s].review_waived
                \/ Cardinality(steps[s].accepted_reviewers) >= RequiredAcceptances[s]
  <2>1. StepComplete(s) /\ steps[s].state = "ACCEPTED"
    BY <1>1 DEF NoObligations, StepComplete, SettledStepStates, NoStepWaived
  <2>2. steps[s].review_acceptances = Cardinality(steps[s].accepted_reviewers)
    BY <2>1 DEF VotesJudgeTheLatestWork
  <2>. QED  BY <2>1, <2>2 DEF StepComplete
<1>3. ASSUME NEW d \in Dispatch
      PROVE  dispatches[d].state \in {"NONE", "ACKNOWLEDGED", "FAILED", "ABANDONED"}
  <2>1. dispatches[d].state \in DispatchStates \ ActiveDispatchStates
    BY <1>1 DEF NoObligations, NoActiveDispatch, ActiveDispatch, TypeOK, DispatchesTypeOK,
                DispatchRecord
  <2>. QED  BY <2>1 DEF DispatchStates, ActiveDispatchStates
<1>. QED  BY <1>1, <1>2, <1>3 DEF SuccessIsComplete

LEMMA SuccessStep ==
    ASSUME TypeOK, [Next]_vars, Numbered, Prepared, VotesJudgeTheLatestWork, NoStepWaived,
           SuccessIsComplete
    PROVE  SuccessIsComplete'
<1>1. CASE \E c \in Coordinator : CompleteRun(c)
  BY <1>1, CompletionIsComplete
<1>2. CASE ~\E c \in Coordinator : CompleteRun(c)
  <2>. SUFFICES ASSUME run' = "SUCCEEDED" PROVE SuccessIsComplete'
    BY DEF SuccessIsComplete
  <2>1. run = "SUCCEEDED"
    BY <1>2, OnlyCompletionSucceeds DEF Unsuccessful
  <2>2. ~\E c \in Coordinator : CommitPrepared(c)
    BY <2>1, CommitIsNew DEF CanPrepare
  <2>3. \A s \in Step : steps'[s] = steps[s]
    BY <2>1, StepMoves DEF SuccessIsComplete, Turn, SettledStepStates, Opened
  <2>4. ASSUME NEW d \in Dispatch
        PROVE  dispatches'[d].state \in {"NONE", "ACKNOWLEDGED", "FAILED", "ABANDONED"}
    <3>1. dispatches[d].state \notin ActiveDispatchStates
      BY <2>1 DEF SuccessIsComplete, ActiveDispatchStates
    <3>2. dispatches'[d].state \notin ActiveDispatchStates
      BY <2>2, <3>1, OthersKeep DEF NoNewDispatch, ActiveDispatch
    <3>3. dispatches'[d].state \in DispatchStates
      BY NextType DEF TypeOK, DispatchesTypeOK, DispatchRecord
    <3>. QED  BY <3>2, <3>3 DEF DispatchStates, ActiveDispatchStates
  <2>. QED  BY <2>1, <2>3, <2>4 DEF SuccessIsComplete
<1>. QED  BY <1>1, <1>2

(* A run that has SUCCEEDED owes nothing, now and for good.                *)
THEOREM SuccessOwesNothing == Spec => []SuccessIsComplete
<1>1. Init => NoStepWaived /\ SuccessIsComplete
  BY DEF Init, NoStepWaived, SuccessIsComplete
<1>2. /\ TypeOK /\ Numbered /\ Prepared /\ VotesJudgeTheLatestWork /\ [Next]_vars
      /\ NoStepWaived /\ SuccessIsComplete
      => (NoStepWaived /\ SuccessIsComplete)'
  BY NoStepWaivedStep, SuccessStep
<1>. QED  BY <1>1, <1>2, TypeCorrect, PreparationHolds, VotesCount, PTL DEF Spec
-----------------------------------------------------------------------------
(* Layer 10: who holds the leases.                                         *)
Has(c, d) == \A r \in LeaseKeys[d.step] : leases[r] = [owner |-> c, dispatch |-> d]

(* Where a process has the leases of its dispatch, if it has the run lease *)
(* or counts as at work.                                                   *)
Held == {"leased", "launching", "launched"} \cup AtWork

(* A process gives away its own leases, when it is done with them.         *)
LeaseMoves(c) ==
    \/ UNCHANGED leases
    \/ Acquires(c)
    \/ (leases' = Released(c) \/ leases' = Abandoned(c)) /\ coord'[c].pc \notin Held

RunLeaseMoves(c) ==
    \/ UNCHANGED runLease
    \/ Start(c) /\ runLease = None /\ runLease' = c
    \/ runLease = c /\ runLease' \in {None, Orphan}

LEMMA SupervisorLeases ==
    ASSUME NEW c \in Coordinator, Bootstrap(c) \/ Supervise(c)
    PROVE  /\ UNCHANGED <<runLease, recover>>
           /\ UNCHANGED leases \/ \E s, kind, role : Acquire(c, s, kind, role)
<1>. DEFINE Takes == \E s, kind, role : Acquire(c, s, kind, role)
<1>1. Takes => UNCHANGED <<runLease, recover>>
  BY DEF Acquire
<1>2. CASE Bootstrap(c)
  <2>1. CASE RetryReview(c) \/ RetryVerification(c)
    <3>1. Takes
      BY <2>1 DEF RetryReview, RetryVerification
    <3>. QED  BY <1>1, <3>1
  <2>2. CASE ~RetryReview(c) /\ ~RetryVerification(c)
    BY <1>2, <2>2
    DEF Bootstrap, NoReviewRetry, ExhaustReviewRetry, RefuseReviewRetry, RefreshReadiness,
        ActivateRun, RunActivated, NoVerificationRetry, RefuseVerificationRetry, locks
  <2>. QED  BY <2>1, <2>2
<1>3. CASE Supervise(c)
  <2>1. CASE CommandDispatch(c)
    <3>1. Takes
      BY <2>1 DEF CommandDispatch
    <3>. QED  BY <1>1, <3>1
  <2>2. CASE ~CommandDispatch(c)
    BY <1>3, <2>2
    DEF Supervise, BeginTurn, LoseRunLease, FinishTurn, FailTurn, Acknowledge, RequestRiskGate,
        AskOperator, RequestReviewWaiver, HaltRun, CompleteRun, RejectCommand, AbortCommand,
        locks
  <2>. QED  BY <2>1, <2>2
<1>. QED  BY <1>2, <1>3

LEMMA WorkerLeases ==
    ASSUME TypeOK, NEW c \in Coordinator, Work(c) \/ Apply(c)
    PROVE  UNCHANGED <<runLease, recover>> /\ LeaseMoves(c)
<1>1. CASE Work(c)
  <2>1. CASE PrepareConflicts(c) \/ RejectPrompt(c)
    <3>1. coord'[c].pc = "exit"
      BY <2>1, SaveFrame, GoToFrame DEF PrepareConflicts, RejectPrompt, TypeOK, Saved, Went
    <3>. QED  BY <2>1, <3>1 DEF PrepareConflicts, RejectPrompt, LeaseMoves, Held, AtWork
  <2>2. CASE ~PrepareConflicts(c) /\ ~RejectPrompt(c)
    BY <1>1, <2>2
    DEF Work, CommitPrepared, Launch, MarkRunning, BindSession, CallbackFails,
        FinalizeInvocation, InvocationClosed, locks, LeaseMoves
  <2>. QED  BY <2>1, <2>2
<1>2. CASE Apply(c)
  <2>1. CASE ReleaseLeases(c)
    <3>1. /\ coord'[c].pc = AfterRelease(coord[c].pc)
          /\ coord[c].pc \in {"releasing", "reworked", "stall_releasing", "invalid_step",
                              "unleasing"}
      BY <2>1, GoToFrame DEF ReleaseLeases, TypeOK, Went
    <3>2. coord'[c].pc \notin Held
      BY <3>1 DEF AfterRelease, Held, AtWork
    <3>. QED  BY <2>1, <3>2 DEF ReleaseLeases, LeaseMoves
  <2>2. CASE ~ReleaseLeases(c)
    BY <1>2, <2>2
    DEF Apply, ExecutorCompleted, ExecutorGivesUp, ReviewerAccepts, ReviewerRequestsChanges,
        ReviewerGivesUp, ApplyResult, RefuseResult, MalformedReview, ChecksFail,
        PersistForwarded, BudgetHolds, BudgetExceeded, locks, LeaseMoves
  <2>. QED  BY <2>1, <2>2
<1>. QED  BY <1>1, <1>2

LEMMA FailLeases ==
    ASSUME NEW c \in Coordinator, Fail(c)
    PROVE  /\ UNCHANGED <<runLease, recover>>
           /\ UNCHANGED leases \/ \E s, kind, role : Acquire(c, s, kind, role)
<1>. DEFINE Takes == \E s, kind, role : Acquire(c, s, kind, role)
<1>1. Takes => UNCHANGED <<runLease, recover>>
  BY DEF Acquire
<1>2. CASE RetryStalled(c)
  <2>1. Takes
    BY <1>2 DEF RetryStalled
  <2>. QED  BY <1>1, <2>1
<1>3. CASE ~RetryStalled(c)
  BY <1>3
  DEF Fail, ReloadRecord, GiveUp, SaveFailedDispatch, SaveFailedStep, AskReconciliation,
      SaveStalledDispatch, SaveStalledStep, AskStallRecovery, SaveMalformedReview,
      SaveUnreviewedStep, LaterSaveConflicts, locks
<1>. QED  BY <1>2, <1>3

LEMMA ActsLeases ==
    ASSUME TypeOK, NEW c \in Coordinator, Acts(c)
    PROVE  UNCHANGED recover /\ LeaseMoves(c) /\ RunLeaseMoves(c)
<1>1. ASSUME \E s, kind, role : Acquire(c, s, kind, role) PROVE Acquires(c)
  <2>1. coord'[c].pc = "leased"
    BY <1>1, AcquireFrame DEF TypeOK
  <2>. QED  BY <2>1, ActsArrive DEF Arrives
<1>2. CASE Bootstrap(c) \/ Supervise(c) \/ Fail(c)
  BY <1>1, <1>2, SupervisorLeases, FailLeases DEF LeaseMoves, RunLeaseMoves
<1>3. CASE Work(c) \/ Apply(c)
  BY <1>3, WorkerLeases DEF RunLeaseMoves
<1>4. CASE StopStale(c)
  BY <1>4 DEF StopStale, locks, LeaseMoves, RunLeaseMoves
<1>5. CASE Exit(c) \/ Crash(c)
  <2>1. coord'[c].pc = "down"
    BY <1>5 DEF Exit, Crash, Down, TypeOK, CoordTypeOK
  <2>. QED  BY <1>5, <2>1 DEF Exit, Crash, LeaseMoves, RunLeaseMoves, Held, AtWork
<1>6. CASE Start(c)
  BY <1>6 DEF Start, LeaseMoves, RunLeaseMoves
<1>. QED  BY <1>2, <1>3, <1>4, <1>5, <1>6 DEF Acts, Proceed

(* Leases stay with whoever is at work, unless recover takes them.         *)
LEMMA LeasesStay ==
    ASSUME TypeOK, [Next]_vars, ~RecoverUnlock, NEW c \in Coordinator, NEW d \in Dispatch,
           Has(c, d), coord'[c].pc \in Held
    PROVE  Has(c, d)'
<1>0. LeaseKeys[d.step] \subseteq Resource
  BY PlanAssumption DEF Dispatch
<1>1. ASSUME UNCHANGED leases PROVE Has(c, d)'
  BY <1>1 DEF Has
<1>2. ASSUME NEW b \in Coordinator, Acts(b) PROVE Has(c, d)'
  <2>1. CASE Acquires(b)
    <3>1. PICK s \in Step, kind \in {"executor", "reviewer"}, role \in Role :
               Acquire(b, s, kind, role)
      BY <2>1 DEF Acquires
    <3>2. \A r \in LeaseKeys[s] : leases[r] = None
      BY <3>1 DEF Acquire
    <3>3. [owner |-> c, dispatch |-> d] \in LeaseHolder
      BY DEF LeaseHolder
    <3>4. \A r \in LeaseKeys[d.step] : r \notin LeaseKeys[s]
      BY <3>2, <3>3, HolderAssumption DEF Has
    <3>5. \A r \in Resource : r \notin LeaseKeys[s] => leases'[r] = leases[r]
      BY <3>1 DEF Acquire
    <3>. QED  BY <1>0, <3>4, <3>5 DEF Has
  <2>2. CASE (leases' = Released(b) \/ leases' = Abandoned(b)) /\ coord'[b].pc \notin Held
    <3>1. b # c
      BY <2>2
    <3>2. ASSUME NEW r \in Resource, leases[r] = [owner |-> c, dispatch |-> d]
          PROVE  leases'[r] = leases[r]
      <4>1. leases[r].owner = c
        BY <3>2
      <4>2. leases[r] # [owner |-> b, dispatch |-> coord[b].dispatch]
        BY <3>1, <4>1
      <4>. QED  BY <2>2, <3>1, <4>1, <4>2 DEF Released, Abandoned
    <3>. QED  BY <1>0, <3>2 DEF Has
  <2>. QED  BY <1>1, <1>2, <2>1, <2>2, ActsLeases DEF LeaseMoves
<1>3. CASE \/ \E e \in Dispatch : WorkerExits(e) \/ Cancel(e)
           \/ Answer \/ RunLeaseGoesStale \/ RecoverStart \/ RecoverCrash \/ RecoverDispatch
           \/ RecoverNothing \/ RecoverForwarding \/ RecoverJournals \/ RecoverEnd
           \/ UNCHANGED vars
  <2>1. UNCHANGED leases
    BY <1>3
    DEF WorkerExits, Cancel, Answer, AnswerHalt, AnswerGate, AnswerQuestion, AnswerReassign,
        AnswerWaiver, AnswerRetry, AnswerReconcile, Resume, RunLeaseGoesStale, RecoverStart,
        RecoverCrash, RecoverDispatch, RecoverNothing, RecoverForwarding, RecoverJournals,
        RecoverEnd, locks, vars
  <2>. QED  BY <1>1, <2>1
<1>. QED  BY <1>2, <1>3 DEF Next, Acts, RecoverStep

(* Only its own process makes a dispatch RUNNING.                          *)
LEMMA WasRunning ==
    ASSUME TypeOK, [Next]_vars, NEW d \in Dispatch, dispatches'[d].state = "RUNNING"
    PROVE  dispatches[d].state = "RUNNING" \/ Marks(d)
<1>1. CASE \E c \in Coordinator : CommitPrepared(c)
  BY <1>1, CommitShape
<1>2. CASE ~\E c \in Coordinator : CommitPrepared(c)
  BY <1>2, DispatchesAreSteady DEF Steady
<1>. QED  BY <1>1, <1>2

(* A process has the run lease since it started.                           *)
LEMMA RunLeaseWas ==
    ASSUME TypeOK, [Next]_vars, NEW c \in Coordinator, runLease' = c
    PROVE  runLease = c \/ Start(c)
<1>1. ASSUME NEW b \in Coordinator, Acts(b) PROVE runLease = c \/ Start(c)
  BY <1>1, ActsLeases, OwnerAssumption DEF RunLeaseMoves
<1>2. CASE \/ \E e \in Dispatch : WorkerExits(e) \/ Cancel(e)
           \/ Answer \/ RunLeaseGoesStale \/ RecoverStart \/ RecoverCrash \/ RecoverStep
           \/ UNCHANGED vars
  BY <1>2, OwnerAssumption
  DEF WorkerExits, Cancel, Answer, AnswerHalt, AnswerGate, AnswerQuestion, AnswerReassign,
      AnswerWaiver, AnswerRetry, AnswerReconcile, Resume, RunLeaseGoesStale, RecoverStart,
      RecoverCrash, RecoverStep, RecoverDispatch, RecoverNothing, RecoverForwarding,
      RecoverUnlock, RecoverJournals, RecoverEnd, locks, vars
<1>. QED  BY <1>1, <1>2 DEF Next, Acts

(* A process on its way to its worker has the leases if it has the run     *)
(* lease, without which MarkRunning refuses.                               *)
Reserved ==
    \A c \in Coordinator :
        coord[c].pc \in {"leased", "launching", "launched"} /\ runLease = c =>
            Has(c, coord[c].dispatch)

(* recover keeps the run lease from everyone while it works; what it       *)
(* unlocks belongs to no RUNNING dispatch.                                 *)
RecoveryLocks == recover.pc # "idle" => runLease = Recovery

RecoveryWaits ==
    /\ recover.pc = "unlocking" => \A d \in Dispatch : dispatches[d].state # "RUNNING"
    /\ recover.pc = "reconciling" =>
          \A d \in Dispatch : dispatches[d].state = "RUNNING" => d = recover.dispatch

Leasing == Reserved /\ RunningWorkHoldsItsLeases /\ RecoveryLocks /\ RecoveryWaits

LEMMA LocksStep ==
    ASSUME TypeOK, [Next]_vars, RecoveryLocks
    PROVE  RecoveryLocks'
<1>1. ASSUME NEW b \in Coordinator, Acts(b) PROVE RecoveryLocks'
  BY <1>1, ActsLeases, OwnerAssumption DEF RunLeaseMoves, RecoveryLocks
<1>2. CASE \/ \E e \in Dispatch : WorkerExits(e) \/ Cancel(e)
           \/ Answer \/ RunLeaseGoesStale \/ RecoverStart \/ RecoverCrash \/ RecoverStep
           \/ UNCHANGED vars
  <2>1. CASE recover' = Idle
    BY <2>1 DEF Idle, RecoveryLocks
  <2>2. CASE recover.pc # "idle" /\ UNCHANGED runLease
    BY <2>2 DEF RecoveryLocks
  <2>3. CASE UNCHANGED <<recover, runLease>>
    BY <2>3 DEF RecoveryLocks
  <2>4. CASE runLease' = Recovery
    BY <2>4 DEF RecoveryLocks
  <2>. QED
    BY <1>2, <2>1, <2>2, <2>3, <2>4
    DEF WorkerExits, Cancel, Answer, AnswerHalt, AnswerGate, AnswerQuestion, AnswerReassign,
        AnswerWaiver, AnswerRetry, AnswerReconcile, Resume, RunLeaseGoesStale, RecoverStart,
        RecoverCrash, RecoverStep, RecoverDispatch, RecoverNothing, RecoverForwarding,
        RecoverUnlock, RecoverJournals, RecoverEnd, locks, vars
<1>. QED  BY <1>1, <1>2 DEF Next, Acts

(* While recover works nobody makes a dispatch RUNNING.                    *)
LEMMA NothingIsMarked ==
    ASSUME TypeOK, [Next]_vars, RecoveryLocks, recover.pc # "idle",
           NEW d \in Dispatch, dispatches'[d].state = "RUNNING"
    PROVE  dispatches[d].state = "RUNNING"
<1>1. ~Marks(d)
  BY OwnerAssumption DEF RecoveryLocks, Marks, MarkRunning
<1>. QED  BY <1>1, WasRunning

(* How recover gets to a dispatch and to its leases.                       *)
LEMMA RecoverArrives ==
    ASSUME TypeOK, [Next]_vars
    PROVE  /\ recover'.pc = "reconciling" => RecoverStart \/ UNCHANGED recover
           /\ recover'.pc = "unlocking" =>
                 RecoverDispatch \/ RecoverNothing \/ UNCHANGED recover
<1>. DEFINE Goal == /\ recover'.pc = "reconciling" => RecoverStart \/ UNCHANGED recover
                    /\ recover'.pc = "unlocking" =>
                          RecoverDispatch \/ RecoverNothing \/ UNCHANGED recover
<1>1. ASSUME NEW b \in Coordinator, Acts(b) PROVE Goal
  BY <1>1, ActsLeases
<1>2. CASE RecoverStart
  <2>1. recover'.pc # "unlocking"
    BY <1>2 DEF RecoverStart
  <2>. QED  BY <1>2, <2>1
<1>3. CASE RecoverDispatch
  <2>1. recover'.pc # "reconciling"
    BY <1>3 DEF RecoverDispatch, TypeOK, RecoverTypeOK
  <2>. QED  BY <1>3, <2>1
<1>4. CASE RecoverNothing
  <2>1. recover'.pc # "reconciling"
    BY <1>4 DEF RecoverNothing, TypeOK, RecoverTypeOK
  <2>. QED  BY <1>4, <2>1
<1>5. CASE RecoverForwarding \/ RecoverUnlock
  <2>1. recover'.pc = "finalizing"
    BY <1>5 DEF RecoverForwarding, RecoverUnlock, TypeOK, RecoverTypeOK
  <2>. QED  BY <2>1
<1>6. CASE RecoverJournals \/ RecoverEnd \/ RecoverCrash
  <2>1. recover'.pc \in {"leaving", "idle"}
    BY <1>6 DEF RecoverJournals, RecoverEnd, RecoverCrash, Idle
  <2>. QED  BY <2>1
<1>7. CASE \/ \E e \in Dispatch : WorkerExits(e) \/ Cancel(e)
           \/ Answer \/ RunLeaseGoesStale \/ UNCHANGED vars
  <2>1. UNCHANGED recover
    BY <1>7
    DEF WorkerExits, Cancel, Answer, AnswerHalt, AnswerGate, AnswerQuestion, AnswerReassign,
        AnswerWaiver, AnswerRetry, AnswerReconcile, Resume, RunLeaseGoesStale, vars
  <2>. QED  BY <2>1
<1>. QED  BY <1>1, <1>2, <1>3, <1>4, <1>5, <1>6, <1>7 DEF Next, Acts, RecoverStep

LEMMA WaitsStep ==
    ASSUME TypeOK, [Next]_vars, OneUnresolvedDispatch, RecoveryLocks, RecoveryWaits
    PROVE  RecoveryWaits'
<1>1. ASSUME recover'.pc = "reconciling", NEW d \in Dispatch, dispatches'[d].state = "RUNNING"
      PROVE  d = recover'.dispatch
  <2>1. CASE RecoverStart
    <3>1. PICK e \in Recoverable \cup {None} :
            /\ recover' = [pc |-> IF e = None THEN "finalizing"
                                  ELSE IF InFlight(e) THEN "reconciling" ELSE "forwarding",
                           dispatch |-> e, journals |-> invocations]
      BY <2>1 DEF RecoverStart
    <3>2. e \in Dispatch /\ dispatches[e].state \in InFlightStates /\ recover'.dispatch = e
      BY <1>1, <3>1 DEF Recoverable, InFlight
    <3>3. dispatches[d].state \in InFlightStates
      BY <1>1, <2>1 DEF RecoverStart, record, InFlightStates
    <3>. QED  BY <3>2, <3>3, OneInFlight
  <2>2. CASE UNCHANGED recover
    BY <1>1, <2>2, NothingIsMarked DEF RecoveryWaits
  <2>. QED  BY <1>1, <2>1, <2>2, RecoverArrives
<1>2. ASSUME recover'.pc = "unlocking", NEW d \in Dispatch, dispatches'[d].state = "RUNNING"
      PROVE  FALSE
  <2>1. CASE UNCHANGED recover
    BY <1>2, <2>1, NothingIsMarked DEF RecoveryWaits
  <2>2. CASE RecoverDispatch
    <3>1. recover.pc = "reconciling" /\ recover.dispatch \in Dispatch
      BY <2>2 DEF RecoverDispatch, TypeOK, RecoverTypeOK
    <3>2. d = recover.dispatch
      BY <1>2, <3>1, NothingIsMarked DEF RecoveryWaits
    <3>3. dispatches'[d].state \in Lost
      BY <2>2, <3>1, <3>2, InterruptedIsSteady DEF RecoverDispatch, TypeOK
    <3>. QED  BY <1>2, <3>3 DEF Lost
  <2>3. CASE RecoverNothing
    <3>1. dispatches[d].state = "RUNNING" /\ recover.pc = "reconciling" /\ UNCHANGED dispatches
      BY <1>2, <2>3 DEF RecoverNothing, record
    <3>2. d = recover.dispatch
      BY <3>1 DEF RecoveryWaits
    <3>3. ~(dispatches[recover.dispatch].state = "RUNNING" /\ recover.dispatch \in workers)
      BY <1>2, <2>3 DEF RecoverNothing, TypeOK, RecoverTypeOK
    <3>4. ~InFlight(d)
      BY <2>3, <3>2, <3>3 DEF RecoverNothing
    <3>. QED  BY <3>1, <3>4 DEF InFlight, InFlightStates
  <2>. QED  BY <1>2, <2>1, <2>2, <2>3, RecoverArrives
<1>. QED  BY <1>1, <1>2 DEF RecoveryWaits

(* recover unlocks nothing of a process that is reserving or at work.      *)
LEMMA NoUnlock ==
    ASSUME TypeOK, [Next]_vars, RecoveryLocks, RecoveryWaits, NEW c \in Coordinator
    PROVE  /\ runLease = c => ~RecoverUnlock
           /\ (\E d \in Dispatch : dispatches'[d].state = "RUNNING") => ~RecoverUnlock
<1>1. runLease = c => ~RecoverUnlock
  BY OwnerAssumption DEF RecoveryLocks, RecoverUnlock
<1>2. (\E d \in Dispatch : dispatches'[d].state = "RUNNING") => ~RecoverUnlock
  BY DEF RecoverUnlock, RecoveryWaits, record
<1>. QED  BY <1>1, <1>2

LEMMA ReservedStep ==
    ASSUME TypeOK, [Next]_vars, Leasing
    PROVE  Reserved'
<1>. SUFFICES ASSUME NEW c \in Coordinator, NEW d \in Dispatch,
                     coord'[c].pc \in {"leased", "launching", "launched"}, runLease' = c,
                     d = coord'[c].dispatch
              PROVE  Has(c, d)'
  <2>1. \A c \in Coordinator :
          coord'[c].pc \in {"leased", "launching", "launched"} => coord'[c].dispatch \in Dispatch
    BY NextType DEF TypeOK, CoordTypeOK, Undispatched
  <2>. QED  BY <2>1 DEF Reserved, Has
<1>1. coord'[c].pc \in Held
  BY DEF Held
<1>2. CASE ~Acts(c)
  <2>1. Same(c) /\ runLease = c
    BY <1>2, Bystanders, RunLeaseWas DEF Bystander, Acts
  <2>2. Has(c, d) /\ ~RecoverUnlock
    BY <2>1, NoUnlock DEF Same, Leasing, Reserved
  <2>. QED  BY <1>1, <2>2, LeasesStay
<1>3. CASE Acts(c) /\ coord'[c].pc = "leased"
  <2>1. PICK s \in Step, kind \in {"executor", "reviewer"}, role \in Role :
             Acquire(c, s, kind, role)
    BY <1>3, ActsArrive DEF Arrives, Acquires
  <2>2. d = NextDispatch(s, kind) /\ NextDispatch(s, kind).step = s
    BY <2>1, AcquireFrame DEF TypeOK, NextDispatch
  <2>3. \A r \in LeaseKeys[s] : leases'[r] = [owner |-> c, dispatch |-> NextDispatch(s, kind)]
    BY <2>1, PlanAssumption DEF Acquire
  <2>4. d.step = s /\ \A r \in LeaseKeys[s] : leases'[r] = [owner |-> c, dispatch |-> d]
    BY <2>2, <2>3
  <2>. QED  BY <2>4 DEF Has
<1>4. CASE Acts(c) /\ coord'[c].pc \in {"launching", "launched"}
  <2>1. CommitPrepared(c) \/ Launch(c)
    BY <1>4, ActsArrive DEF Arrives
  <2>2. coord[c].pc \in {"leased", "launching"} /\ runLease = c
    BY <2>1 DEF CommitPrepared, Launch, locks
  <2>3. coord[c].dispatch = d
    BY <1>4, AttendsOn DEF Attending
  <2>4. Has(c, d) /\ ~RecoverUnlock
    BY <2>2, <2>3, NoUnlock DEF Leasing, Reserved
  <2>. QED  BY <1>1, <2>4, LeasesStay
<1>. QED  BY <1>2, <1>3, <1>4

LEMMA AtWorkStep ==
    ASSUME TypeOK, [Next]_vars, Engagement, Leasing
    PROVE  RunningWorkHoldsItsLeases'
<1>. SUFFICES ASSUME NEW c \in Coordinator, NEW d \in Dispatch,
                     coord'[c].pc \in AtWork, d = coord'[c].dispatch,
                     dispatches'[d].state = "RUNNING"
              PROVE  Has(c, d)'
  <2>1. \A c \in Coordinator : coord'[c].pc \in AtWork => coord'[c].dispatch \in Dispatch
    BY NextType DEF TypeOK, CoordTypeOK, AtWork, Undispatched, DispatchOf
  <2>. QED  BY <2>1 DEF RunningWorkHoldsItsLeases, Has
<1>1. ~RecoverUnlock /\ coord'[c].pc \in Held
  BY NoUnlock DEF Leasing, Held
<1>2. coord'[c].pc \in Attending /\ coord[c].dispatch = d
  BY WasAttending DEF AtWork, Attending
<1>3. ASSUME coord[c].pc \in AtWork PROVE Has(c, d)
  <2>1. coord[c].pc \in Attending
    BY <1>3 DEF AtWork, Attending
  <2>2. ASSUME NEW b \in Coordinator, MarkRunning(b), coord[b].dispatch = d PROVE FALSE
    <3>1. coord[b].pc = "launched"
      BY <2>2 DEF MarkRunning
    <3>2. b # c
      BY <1>3, <3>1 DEF AtWork
    <3>. QED  BY <1>2, <2>1, <2>2, <3>1, <3>2 DEF Engagement, Exclusive, Attending
  <2>3. dispatches[d].state = "RUNNING"
    BY <2>2, WasRunning DEF Marks
  <2>. QED  BY <1>2, <1>3, <2>3 DEF Leasing, RunningWorkHoldsItsLeases, Has
<1>4. CASE ~Acts(c)
  <2>1. coord[c].pc \in AtWork
    BY <1>4, Bystanders DEF Bystander, Same
  <2>. QED  BY <1>1, <1>3, <2>1, LeasesStay
<1>5. CASE MarkRunning(c)
  <2>1. Has(c, d)
    BY <1>2, <1>5 DEF MarkRunning, Leasing, Reserved
  <2>. QED  BY <1>1, <2>1, LeasesStay
<1>6. CASE BindSession(c)
  <2>1. coord[c].pc \in AtWork
    BY <1>6 DEF BindSession, AtWork
  <2>. QED  BY <1>1, <1>3, <2>1, LeasesStay
<1>7. CASE FinalizeInvocation(c) /\ coord'[c].pc = "ended"
  <2>1. PICK next \in AfterWorker(coord[c].pc) : Save(c, next)
    BY <1>7 DEF FinalizeInvocation
  <2>2. next = "ended"
    BY <1>7, <2>1, SaveFrame DEF TypeOK, Saved
  <2>3. coord[c].pc \in AtWork
    BY <2>1, <2>2 DEF AfterWorker, AtWork
  <2>. QED  BY <1>1, <1>3, <2>3, LeasesStay
<1>. QED  BY <1>4, <1>5, <1>6, <1>7, ActsArrive DEF Arrives, AtWork

(* The leases of a RUNNING dispatch are its process's, whoever else is     *)
(* alive and whatever recover unlocks.                                     *)
THEOREM LeasesAreHeld == Spec => []RunningWorkHoldsItsLeases
<1>1. Init => Leasing
  BY DEF Init, Down, Idle, Leasing, Reserved, RunningWorkHoldsItsLeases, AtWork, RecoveryLocks,
         RecoveryWaits
<1>2. TypeOK /\ OneUnresolvedDispatch /\ Engagement /\ [Next]_vars /\ Leasing => Leasing'
  BY LocksStep, WaitsStep, ReservedStep, AtWorkStep DEF Leasing
<1>3. Leasing => RunningWorkHoldsItsLeases
  BY DEF Leasing
<1>. QED  BY <1>1, <1>2, <1>3, TypeCorrect, OneDispatchAtATime, EngagementHolds, PTL DEF Spec
=============================================================================
