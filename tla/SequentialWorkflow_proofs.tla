---------------------- MODULE SequentialWorkflow_proofs ----------------------
(***************************************************************************)
(* Proofs about SequentialWorkflow, for every plan, set of processes and   *)
(* bound.                                                                  *)
(***************************************************************************)
EXTENDS SequentialWorkflow, TLAPS

(* The transition tables stay within the states.                           *)
LEMMA RunTable == \A r \in RunStates : RunTransitions[r] \subseteq RunStates
BY DEF RunTransitions, RunStates

LEMMA StepTable == \A s \in StepStates : StepTransitions[s] \subseteq StepStates
BY DEF StepTransitions, StepStates

(* Only a dispatch that is not there yet becomes PREPARED.                 *)
LEMMA DispatchTable ==
    \A d \in DispatchStates :
        /\ DispatchTransitions[d] \subseteq DispatchStates \ {"NONE"}
        /\ d = "NONE" <=> "PREPARED" \in DispatchTransitions[d]
        /\ d = "NONE" => DispatchTransitions[d] = {"PREPARED"}
BY DEF DispatchTransitions, DispatchStates
-----------------------------------------------------------------------------
(* What the operators that the handlers share do to the types.             *)

LEMMA SaveType ==
    ASSUME CoordTypeOK, NEW c \in Coordinator, NEW pc \in CoordinatorStates \ {"leased"},
           pc \in Undispatched \/ coord[c].dispatch # None,
           Save(c, pc)
    PROVE  CoordTypeOK'
<1>1. \A x \in Coordinator :
        /\ Outdated[x] \in [pc : CoordinatorStates, dispatch : Dispatch \cup {None},
                           role : Role \cup {None}, fresh : BOOLEAN]
        /\ Outdated[x].pc = coord[x].pc
        /\ Outdated[x].dispatch = coord[x].dispatch
        /\ Outdated[x].role = coord[x].role
  BY DEF CoordTypeOK, Outdated
<1>2. [Outdated[c] EXCEPT !.pc = pc, !.fresh = TRUE]
        \in [pc : CoordinatorStates, dispatch : Dispatch \cup {None},
            role : Role \cup {None}, fresh : BOOLEAN]
  BY <1>1
<1>3. /\ DOMAIN Outdated = Coordinator
      /\ coord' = [Outdated EXCEPT ![c] = [Outdated[c] EXCEPT !.pc = pc, !.fresh = TRUE]]
  BY DEF Save, Outdated
<1>4. \A x \in Coordinator \ {c} : coord'[x] = Outdated[x]
  BY <1>3
<1>5. /\ coord'[c] = [Outdated[c] EXCEPT !.pc = pc, !.fresh = TRUE]
      /\ coord'[c].pc = pc
      /\ coord'[c].dispatch = coord[c].dispatch
  BY <1>1, <1>3
<1>6. coord' \in [Coordinator -> [pc : CoordinatorStates, dispatch : Dispatch \cup {None},
                                  role : Role \cup {None}, fresh : BOOLEAN]]
  BY <1>1, <1>2, <1>3
<1>7. ASSUME NEW x \in Coordinator
      PROVE  /\ coord'[x].pc \notin Undispatched => coord'[x].dispatch # None
             /\ coord'[x].pc = "leased" => coord'[x].role # None
  <2>1. CASE x = c
    BY <1>5, <2>1
  <2>2. CASE x # c
    BY <1>1, <1>4, <2>2 DEF CoordTypeOK
  <2>. QED  BY <2>1, <2>2
<1>. QED  BY <1>6, <1>7 DEF CoordTypeOK

LEMMA GoToType ==
    ASSUME CoordTypeOK, NEW c \in Coordinator, NEW pc \in CoordinatorStates \ {"leased"},
           pc \in Undispatched \/ coord[c].dispatch # None,
           GoTo(c, pc)
    PROVE  CoordTypeOK'
BY DEF CoordTypeOK, GoTo

(* What a save writes into one record keeps its type.                      *)
LEMMA BackToTurnType ==
    \A rec \in [pc : CoordinatorStates, dispatch : Dispatch \cup {None},
                role : Role \cup {None}, fresh : BOOLEAN] :
        [rec EXCEPT !.pc = "turn", !.dispatch = None]
            \in [pc : CoordinatorStates, dispatch : Dispatch \cup {None},
                role : Role \cup {None}, fresh : BOOLEAN]
<1>1. "turn" \in CoordinatorStates
  BY DEF CoordinatorStates
<1>. QED  BY <1>1

LEMMA PreparedRecordType ==
    \A rec \in DispatchRecord, role \in Role, n \in Nat :
        [rec EXCEPT !.state = "PREPARED", !.role = role, !.target = n] \in DispatchRecord
BY DEF DispatchRecord, DispatchStates

LEMMA ForwardedRecordType ==
    \A rec \in DispatchRecord :
        [rec EXCEPT !.state = "FORWARDED", !.result = TRUE] \in DispatchRecord
BY DEF DispatchRecord, DispatchStates

LEMMA GateResolvedType ==
    \A rec \in StepRecord : [rec EXCEPT !.gate_resolved = TRUE] \in StepRecord
BY DEF StepRecord

LEMMA OutdatedType == ASSUME CoordTypeOK, coord' = Outdated PROVE CoordTypeOK'
BY DEF CoordTypeOK, Outdated

LEMMA WaitType ==
    ASSUME NEW kind \in RequestKinds, NEW s \in Step \cup {None},
           NEW d \in Dispatch \cup {None},
           kind = "underspecification" \/ s # None,
           kind # "reconciliation" \/ d # None,
           Wait(kind, s, d)
    PROVE  RunTypeOK'
BY DEF RunTypeOK, Wait, RunStates, RequestKinds

LEMMA MoveRunType ==
    ASSUME NEW target \in RunStates, MoveRun(target)
    PROVE  RunTypeOK'
BY DEF RunTypeOK, MoveRun, NoRequest

LEMMA MovedType ==
    ASSUME StepsTypeOK, NEW s \in Step, NEW target \in StepStates
    PROVE  Moved(s, target) \in StepRecord
BY DEF StepsTypeOK, Moved, StepRecord

LEMMA ReplaceStepType ==
    ASSUME StepsTypeOK, RunTypeOK, NEW s \in Step, NEW rec \in StepRecord,
           ReplaceStep(s, rec)
    PROVE  StepsTypeOK' /\ RunTypeOK'
<1>1. StepsTypeOK'
  BY DEF StepsTypeOK, ReplaceStep
<1>2. CASE rec.state = "FAILED"
  BY <1>1, <1>2, MoveRunType DEF ReplaceStep, RunStates
<1>3. CASE rec.state # "FAILED"
  BY <1>1, <1>3 DEF ReplaceStep, RunTypeOK
<1>. QED  BY <1>2, <1>3

LEMMA MoveDispatchType ==
    ASSUME DispatchesTypeOK, NEW d \in Dispatch, NEW target \in DispatchStates \ {"PREPARED"},
           MoveDispatch(d, target)
    PROVE  DispatchesTypeOK'
<1>1. dispatches[d].state \in DispatchStates /\ dispatches[d].state # "NONE"
  BY DispatchTable DEF DispatchesTypeOK, MoveDispatch, DispatchRecord
<1>. QED  BY <1>1 DEF DispatchesTypeOK, MoveDispatch, DispatchRecord

LEMMA FailDispatchType ==
    ASSUME DispatchesTypeOK, NEW d \in Dispatch, NEW target \in DispatchStates \ {"PREPARED"},
           NEW category \in FailureCategories, FailDispatch(d, target, category)
    PROVE  DispatchesTypeOK'
<1>1. dispatches[d].state \in DispatchStates /\ dispatches[d].state # "NONE"
  BY DispatchTable DEF DispatchesTypeOK, FailDispatch, DispatchRecord
<1>. QED  BY <1>1 DEF DispatchesTypeOK, FailDispatch, DispatchRecord

LEMMA ReleasedType ==
    ASSUME LeasesTypeOK, NEW c \in Coordinator
    PROVE  /\ Released(c) \in [Resource -> LeaseHolder \cup {None}]
           /\ Abandoned(c) \in [Resource -> LeaseHolder \cup {None}]
BY DEF LeasesTypeOK, Released, Abandoned, LeaseHolder
-----------------------------------------------------------------------------
(* Type correctness, one group of actions at a time.                       *)

LEMMA NextDispatchType ==
    ASSUME StepsTypeOK, NEW s \in Step, NEW kind \in {"executor", "reviewer"}, NEW role,
           CanPrepare(s, kind, role)
    PROVE  /\ NextDispatch(s, kind) \in Dispatch
           /\ role \in Role
<1>1. CASE kind = "executor"
  BY <1>1, BoundAssumption
  DEF StepsTypeOK, StepRecord, CanPrepare, ExecutorMayStart, NextDispatch, Dispatch, Role
<1>2. CASE kind = "reviewer"
  <2>1. NextDispatch(s, kind) \in Dispatch
    BY <1>2, BoundAssumption
    DEF StepsTypeOK, StepRecord, CanPrepare, ReviewerMayStart, NextDispatch, Dispatch
  <2>. QED  BY <1>2, <2>1 DEF CanPrepare, ReviewerMayStart, Role
<1>. QED  BY <1>1, <1>2

LEMMA AcquireType ==
    ASSUME TypeOK, NEW c \in Coordinator, NEW s \in Step,
           NEW kind \in {"executor", "reviewer"}, NEW role,
           Acquire(c, s, kind, role)
    PROVE  TypeOK'
<1>1. NextDispatch(s, kind) \in Dispatch /\ NextDispatch(s, kind) # None /\ role \in Role /\ role # None
  BY NextDispatchType, NoneAssumption DEF Acquire, TypeOK
<1>2. CoordTypeOK'
  <2>1. coord' = [coord EXCEPT ![c] =
                    [coord[c] EXCEPT !.pc = "leased", !.role = role,
                                     !.dispatch = NextDispatch(s, kind)]]
    BY DEF Acquire, TypeOK, CoordTypeOK
  <2>2. "leased" \in CoordinatorStates
    BY DEF CoordinatorStates
  <2>. QED  BY <1>1, <2>1, <2>2 DEF TypeOK, CoordTypeOK
<1>3. LeasesTypeOK'
  <2>1. [owner |-> c, dispatch |-> NextDispatch(s, kind)] \in LeaseHolder
    BY <1>1 DEF LeaseHolder
  <2>. QED  BY <2>1 DEF TypeOK, LeasesTypeOK, Acquire
<1>. QED
  BY <1>2, <1>3
  DEF TypeOK, RunTypeOK, StepsTypeOK, DispatchesTypeOK, ProcessesTypeOK, RecoverTypeOK,
      Acquire, record, processes
(* What an action leaves alone keeps its type.                             *)
LEMMA SameType ==
    ASSUME TypeOK
    PROVE  /\ UNCHANGED <<run, request>> => RunTypeOK'
           /\ UNCHANGED steps => StepsTypeOK'
           /\ UNCHANGED dispatches => DispatchesTypeOK'
           /\ UNCHANGED policy => policy' \in RetryPolicies
           /\ UNCHANGED <<leases, runLease, runLeaseStale>> => LeasesTypeOK'
           /\ UNCHANGED <<invocations, workers>> => ProcessesTypeOK'
           /\ UNCHANGED coord => CoordTypeOK'
           /\ UNCHANGED recover => RecoverTypeOK'
BY DEF TypeOK, RunTypeOK, StepsTypeOK, DispatchesTypeOK, LeasesTypeOK, ProcessesTypeOK,
       CoordTypeOK, RecoverTypeOK

LEMMA BootstrapType ==
    ASSUME TypeOK, NEW c \in Coordinator, Bootstrap(c)
    PROVE  TypeOK'
<1>. USE DEF TypeOK, record, locks, processes
<1>1. ASSUME NoReviewRetry(c) PROVE TypeOK'
  BY <1>1, SameType, GoToType DEF NoReviewRetry, CoordinatorStates, Undispatched
<1>2. ASSUME RetryReview(c) PROVE TypeOK'
  BY <1>2, AcquireType DEF RetryReview, MalformedReviews, LatestMalformedReview, Dispatch
<1>3. ASSUME ExhaustReviewRetry(c) PROVE TypeOK'
  <2>1. PICK d \in MalformedReviews :
          \/ Wait("stall_recovery", d.step, d) /\ UNCHANGED steps
          \/ MoveRun("HALTED") /\ UNCHANGED steps
          \/ ReplaceStep(d.step, Moved(d.step, "FAILED"))
    BY <1>3 DEF ExhaustReviewRetry
  <2>2. d \in Dispatch /\ d.step \in Step
    BY DEF MalformedReviews, Dispatch
  <2>3. RunTypeOK' /\ StepsTypeOK'
    <3>1. Moved(d.step, "FAILED") \in StepRecord
      BY <2>2, MovedType DEF StepStates
    <3>2. CASE Wait("stall_recovery", d.step, d) /\ UNCHANGED steps
      BY <2>2, <3>2, WaitType, SameType, NoneAssumption DEF RequestKinds
    <3>3. CASE MoveRun("HALTED") /\ UNCHANGED steps
      BY <3>3, MoveRunType, SameType DEF RunStates
    <3>4. CASE ReplaceStep(d.step, Moved(d.step, "FAILED"))
      BY <2>2, <3>1, <3>4, ReplaceStepType
    <3>. QED  BY <2>1, <3>2, <3>3, <3>4
  <2>. QED
    BY <1>3, <2>3, SameType, SaveType DEF ExhaustReviewRetry, CoordinatorStates, Undispatched
<1>4. ASSUME RefuseReviewRetry(c) PROVE TypeOK'
  <2>1. RunTypeOK'
    <3>1. PICK d \in MalformedReviews : Wait("reconciliation", d.step, d)
      BY <1>4 DEF RefuseReviewRetry
    <3>2. d \in Dispatch /\ d.step \in Step
      BY DEF MalformedReviews, Dispatch
    <3>. QED  BY <3>1, <3>2, WaitType, NoneAssumption DEF RequestKinds
  <2>. QED
    BY <1>4, <2>1, SameType, SaveType DEF RefuseReviewRetry, CoordinatorStates, Undispatched
<1>5. ASSUME RefreshReadiness(c) PROVE TypeOK'
  <2>1. StepsTypeOK'
    BY <1>5, MovedType, SameType DEF RefreshReadiness, StepsTypeOK, StepStates
  <2>2. CoordTypeOK'
    BY <1>5, GoToType, SaveType DEF RefreshReadiness, CoordinatorStates, Undispatched
  <2>. QED  BY <1>5, <2>1, <2>2, SameType DEF RefreshReadiness
<1>6. ASSUME ActivateRun(c) PROVE TypeOK'
  BY <1>6, SameType, SaveType, MoveRunType
  DEF ActivateRun, RunStates, CoordinatorStates, Undispatched
<1>7. ASSUME RunActivated(c) PROVE TypeOK'
  BY <1>7, SameType, GoToType DEF RunActivated, CoordinatorStates, Undispatched
<1>8. ASSUME NoVerificationRetry(c) PROVE TypeOK'
  <2>1. [coord[c] EXCEPT !.pc = "turn", !.dispatch = None]
          \in [pc : CoordinatorStates, dispatch : Dispatch \cup {None},
              role : Role \cup {None}, fresh : BOOLEAN]
    BY BackToTurnType DEF CoordTypeOK
  <2>2. CoordTypeOK'
    BY <1>8, <2>1 DEF NoVerificationRetry, CoordTypeOK, Undispatched
  <2>. QED  BY <1>8, <2>2, SameType DEF NoVerificationRetry
<1>9. ASSUME RetryVerification(c) PROVE TypeOK'
  BY <1>9, AcquireType DEF RetryVerification, FailedChecks, Dispatch
<1>10. ASSUME RefuseVerificationRetry(c) PROVE TypeOK'
  <2>1. PICK d \in FailedChecks, kind \in {"reconciliation", "budget"} :
          /\ steps' = [steps EXCEPT ![d.step] = Moved(d.step, "BLOCKED")]
          /\ Wait(kind, d.step, d)
    BY <1>10 DEF RefuseVerificationRetry
  <2>2. d \in Dispatch /\ d.step \in Step
    BY DEF FailedChecks, Dispatch
  <2>3. StepsTypeOK'
    BY <2>1, <2>2, MovedType DEF StepsTypeOK, StepStates
  <2>4. RunTypeOK'
    BY <2>1, <2>2, WaitType, NoneAssumption DEF RequestKinds
  <2>. QED
    BY <1>10, <2>3, <2>4, SameType, SaveType
    DEF RefuseVerificationRetry, CoordinatorStates, Undispatched
<1>. QED
  BY <1>1, <1>2, <1>3, <1>4, <1>5, <1>6, <1>7, <1>8, <1>9, <1>10 DEF Bootstrap

LEMMA SuperviseType ==
    ASSUME TypeOK, NEW c \in Coordinator, Supervise(c)
    PROVE  TypeOK'
<1>. USE DEF TypeOK, record, locks, processes
<1>1. ASSUME BeginTurn(c) PROVE TypeOK'
  <2>1. CoordTypeOK'
    BY <1>1, GoToType DEF BeginTurn, CoordinatorStates, Undispatched
  <2>. QED
    BY <1>1, <2>1, SameType DEF BeginTurn, LeasesTypeOK, ProcessesTypeOK
<1>2. ASSUME LoseRunLease(c) PROVE TypeOK'
  BY <1>2, SameType, GoToType DEF LoseRunLease, CoordinatorStates, Undispatched
<1>3. ASSUME FinishTurn(c) PROVE TypeOK'
  <2>1. CoordTypeOK'
    <3>1. CASE coord[c].dispatch = None /\ Save(c, "command")
      BY <3>1, SaveType DEF CoordinatorStates, Undispatched
    <3>2. CASE coord[c].dispatch # None /\ Save(c, "acknowledging")
      BY <3>2, SaveType DEF CoordinatorStates
    <3>3. CASE Save(c, "exit")
      BY <3>3, SaveType DEF CoordinatorStates, Undispatched
    <3>. QED  BY <1>3, <3>1, <3>2, <3>3 DEF FinishTurn
  <2>2. LeasesTypeOK'
    BY <1>3 DEF FinishTurn, LeasesTypeOK
  <2>3. ProcessesTypeOK'
    BY <1>3 DEF FinishTurn, ProcessesTypeOK
  <2>. QED  BY <1>3, <2>1, <2>2, <2>3, SameType DEF FinishTurn
<1>4. ASSUME FailTurn(c) PROVE TypeOK'
  <2>1. CoordTypeOK'
    BY <1>4, SaveType, GoToType DEF FailTurn, CoordinatorStates, Undispatched
  <2>2. ProcessesTypeOK'
    BY <1>4 DEF FailTurn, ProcessesTypeOK
  <2>. QED  BY <1>4, <2>1, <2>2, SameType DEF FailTurn
<1>5. ASSUME Acknowledge(c) PROVE TypeOK'
  <2>1. coord[c].dispatch \in Dispatch
    BY <1>5 DEF Acknowledge, CoordTypeOK, Undispatched
  <2>2. DispatchesTypeOK'
    BY <1>5, <2>1, MoveDispatchType DEF Acknowledge, DispatchStates
  <2>3. coord' = [Outdated EXCEPT ![c] = [Outdated[c] EXCEPT !.pc = "refreshing",
                                               !.fresh = TRUE, !.dispatch = None]]
    BY <1>5 DEF Acknowledge, Outdated
  <2>4. CoordTypeOK'
    <3>1. Outdated \in [Coordinator ->
                          [pc : CoordinatorStates, dispatch : Dispatch \cup {None},
                           role : Role \cup {None}, fresh : BOOLEAN]]
      BY DEF CoordTypeOK, Outdated
    <3>2. \A b \in Coordinator : Outdated[b] = [coord[b] EXCEPT !.fresh = FALSE]
      BY DEF Outdated
    <3>3. "refreshing" \in CoordinatorStates /\ "refreshing" \in Undispatched
      BY DEF CoordinatorStates, Undispatched
    <3>4. coord' \in [Coordinator ->
                        [pc : CoordinatorStates, dispatch : Dispatch \cup {None},
                         role : Role \cup {None}, fresh : BOOLEAN]]
      BY <2>3, <3>1, <3>3
    <3>5. coord'[c].pc = "refreshing"
      BY <2>3, <3>1
    <3>6. \A b \in Coordinator \ {c} :
            /\ coord'[b].pc = coord[b].pc
            /\ coord'[b].dispatch = coord[b].dispatch
            /\ coord'[b].role = coord[b].role
      BY <2>3, <3>1, <3>2 DEF CoordTypeOK
    <3>. QED  BY <3>3, <3>4, <3>5, <3>6 DEF CoordTypeOK
  <2>. QED  BY <1>5, <2>2, <2>4, SameType DEF Acknowledge
<1>6. ASSUME CommandDispatch(c) PROVE TypeOK'
  BY <1>6, AcquireType DEF CommandDispatch
<1>7. ASSUME Save(c, "exit"), UNCHANGED <<steps, dispatches, policy, locks, processes, recover>>,
             RunTypeOK'
      PROVE  TypeOK'
  BY <1>7, SameType, SaveType DEF CoordinatorStates, Undispatched
<1>8. ASSUME RequestRiskGate(c) PROVE TypeOK'
  <2>1. PICK s \in Step : Wait("risk_gate", s, None)
    BY <1>8 DEF RequestRiskGate
  <2>2. s # None
    BY NoneAssumption
  <2>3. RunTypeOK'
    BY <2>1, <2>2, WaitType DEF RequestKinds
  <2>. QED  BY <1>7, <1>8, <2>3 DEF RequestRiskGate
<1>9. ASSUME AskOperator(c) PROVE TypeOK'
  <2>1. RunTypeOK'
    BY <1>9, WaitType DEF AskOperator, RequestKinds
  <2>. QED  BY <1>7, <1>9, <2>1 DEF AskOperator
<1>10. ASSUME RequestReviewWaiver(c) PROVE TypeOK'
  <2>1. PICK s \in Waivable : Wait("review_waiver", s, None)
    BY <1>10 DEF RequestReviewWaiver
  <2>2. s \in Step /\ s # None
    BY NoneAssumption, PlanAssumption
  <2>3. RunTypeOK'
    BY <2>1, <2>2, WaitType DEF RequestKinds
  <2>. QED  BY <1>7, <1>10, <2>3 DEF RequestReviewWaiver
<1>11. ASSUME HaltRun(c) PROVE TypeOK'
  BY <1>7, <1>11, MoveRunType DEF HaltRun, RunStates
<1>12. ASSUME CompleteRun(c) PROVE TypeOK'
  BY <1>7, <1>12, MoveRunType DEF CompleteRun, RunStates
<1>13. ASSUME RejectCommand(c) PROVE TypeOK'
  BY <1>13, SameType, GoToType DEF RejectCommand, CoordinatorStates, Undispatched
<1>14. ASSUME AbortCommand(c) PROVE TypeOK'
  BY <1>14, SameType, GoToType DEF AbortCommand, CoordinatorStates, Undispatched
<1>. QED
  BY <1>1, <1>2, <1>3, <1>4, <1>5, <1>6, <1>8, <1>9, <1>10, <1>11, <1>12, <1>13, <1>14
  DEF Supervise

(* A process that is past the choice of its dispatch has one.              *)
LEMMA DispatchOf ==
    ASSUME CoordTypeOK, NEW c \in Coordinator, coord[c].pc \notin Undispatched
    PROVE  /\ coord[c].dispatch \in Dispatch
           /\ coord[c].dispatch.step \in Step
           /\ coord[c].dispatch # None
           /\ coord[c].dispatch.step # None
<1>1. coord[c].dispatch \in Dispatch
  BY DEF CoordTypeOK
<1>2. coord[c].dispatch.step \in Step
  BY <1>1 DEF Dispatch
<1>. QED  BY <1>1, <1>2, NoneAssumption

LEMMA InterruptedType ==
    ASSUME TypeOK, NEW d \in Dispatch, Interrupted(d)
    PROVE  RunTypeOK' /\ StepsTypeOK' /\ DispatchesTypeOK'
<1>1. d.step \in Step /\ d.step # None
  BY NoneAssumption DEF Dispatch
<1>2. RunTypeOK'
  BY <1>1, WaitType, NoneAssumption DEF Interrupted, RequestKinds
<1>3. StepsTypeOK'
  <2>1. \A target \in StepStates : Moved(d.step, target) \in StepRecord
    BY <1>1, MovedType DEF TypeOK
  <2>. QED  BY <1>1, <2>1 DEF Interrupted, TypeOK, StepsTypeOK, StepStates
<1>4. DispatchesTypeOK'
  <2>1. PICK target \in {"ABANDONED", "FAILED"} : FailDispatch(d, target, "other")
    BY DEF Interrupted
  <2>. QED  BY <2>1, FailDispatchType DEF TypeOK, DispatchStates, FailureCategories
<1>. QED  BY <1>2, <1>3, <1>4

LEMMA CommitPreparedType ==
    ASSUME TypeOK, NEW c \in Coordinator, CommitPrepared(c)
    PROVE  TypeOK'
<1>. DEFINE d == coord[c].dispatch
            s == d.step
<1>1. d \in Dispatch /\ s \in Step /\ d # None
  BY DispatchOf DEF CommitPrepared, TypeOK, Undispatched
<1>2. d.attempt \in Nat
  BY <1>1, BoundAssumption DEF Dispatch
<1>3. coord[c].role \in Role /\ coord[c].role # None
  BY DEF CommitPrepared, TypeOK, CoordTypeOK
<1>4. DispatchesTypeOK'
  <2>1. PICK n \in Nat :
          dispatches' = [dispatches EXCEPT ![d] =
                           [dispatches[d] EXCEPT !.state = "PREPARED", !.role = coord[c].role,
                                                 !.target = n]]
    <3>1. steps[s].executor_attempts \in Nat
      BY <1>1 DEF TypeOK, StepsTypeOK, StepRecord
    <3>2. (IF d.kind = "executor" THEN 0 ELSE steps[s].executor_attempts) \in Nat
      BY <3>1
    <3>. QED  BY <3>2, Zenon DEF CommitPrepared
  <2>2. [dispatches[d] EXCEPT !.state = "PREPARED", !.role = coord[c].role, !.target = n]
          \in DispatchRecord
    BY <1>1, <1>3, PreparedRecordType DEF TypeOK, DispatchesTypeOK
  <2>. QED  BY <1>1, <1>3, <2>1, <2>2 DEF TypeOK, DispatchesTypeOK
<1>5. StepsTypeOK'
  <2>1. Moved(s, "EXECUTING") \in StepRecord /\ Moved(s, "REVIEWING") \in StepRecord
    BY <1>1, MovedType DEF TypeOK, StepStates
  <2>2. /\ [Moved(s, "EXECUTING") EXCEPT !.active = d, !.executor_attempts = d.attempt]
             \in StepRecord
        /\ [Moved(s, "REVIEWING") EXCEPT !.active = d, !.reviewer_attempts = d.attempt]
             \in StepRecord
    BY <1>1, <1>2, <2>1 DEF StepRecord
  <2>. QED  BY <1>1, <2>2 DEF CommitPrepared, TypeOK, StepsTypeOK
<1>6. CoordTypeOK'
  BY <1>1, SaveType DEF CommitPrepared, TypeOK, CoordinatorStates
<1>. QED
  BY <1>4, <1>5, <1>6, SameType DEF CommitPrepared, TypeOK, locks, processes

LEMMA WorkType ==
    ASSUME TypeOK, NEW c \in Coordinator, Work(c)
    PROVE  TypeOK'
<1>. USE DEF TypeOK, record, locks, processes
<1>1. ASSUME CommitPrepared(c) PROVE TypeOK'
  BY <1>1, CommitPreparedType
<1>2. ASSUME PrepareConflicts(c) PROVE TypeOK'
  <2>1. LeasesTypeOK'
    BY <1>2, ReleasedType DEF PrepareConflicts, LeasesTypeOK
  <2>2. CoordTypeOK'
    BY <1>2, GoToType DEF PrepareConflicts, CoordinatorStates, Undispatched
  <2>. QED  BY <1>2, <2>1, <2>2, SameType DEF PrepareConflicts
<1>3. ASSUME Launch(c) PROVE TypeOK'
  <2>1. coord[c].dispatch \in Dispatch /\ coord[c].dispatch # None
    BY <1>3, DispatchOf DEF Launch, Undispatched
  <2>2. CoordTypeOK'
    BY <1>3, <2>1, GoToType DEF Launch, CoordinatorStates
  <2>3. ProcessesTypeOK'
    BY <1>3, <2>1 DEF Launch, ProcessesTypeOK
  <2>. QED  BY <1>3, <2>2, <2>3, SameType DEF Launch
<1>4. ASSUME RejectPrompt(c) PROVE TypeOK'
  <2>1. coord[c].dispatch \in Dispatch
    BY <1>4, DispatchOf DEF RejectPrompt, Undispatched
  <2>2. RunTypeOK' /\ StepsTypeOK' /\ DispatchesTypeOK'
    BY <1>4, <2>1, InterruptedType DEF RejectPrompt
  <2>3. CoordTypeOK'
    BY <1>4, SaveType DEF RejectPrompt, CoordinatorStates, Undispatched
  <2>4. LeasesTypeOK'
    BY <1>4, ReleasedType DEF RejectPrompt, LeasesTypeOK
  <2>. QED  BY <1>4, <2>2, <2>3, <2>4, SameType DEF RejectPrompt
<1>5. ASSUME MarkRunning(c) PROVE TypeOK'
  <2>1. coord[c].dispatch \in Dispatch /\ coord[c].dispatch # None
    BY <1>5, DispatchOf DEF MarkRunning, Undispatched
  <2>2. DispatchesTypeOK'
    BY <1>5, <2>1, MoveDispatchType DEF MarkRunning, DispatchStates
  <2>3. CoordTypeOK'
    BY <1>5, <2>1, SaveType DEF MarkRunning, CoordinatorStates
  <2>4. LeasesTypeOK'
    BY <1>5 DEF MarkRunning, LeasesTypeOK
  <2>. QED  BY <1>5, <2>2, <2>3, <2>4, SameType DEF MarkRunning
<1>6. ASSUME BindSession(c) PROVE TypeOK'
  <2>1. coord[c].dispatch # None
    BY <1>6, DispatchOf DEF BindSession, Undispatched
  <2>. QED  BY <1>6, <2>1, SaveType, SameType DEF BindSession, CoordinatorStates
<1>7. ASSUME CallbackFails(c) PROVE TypeOK'
  <2>1. coord[c].dispatch # None
    BY <1>7, DispatchOf DEF CallbackFails, Undispatched
  <2>2. CoordTypeOK'
    BY <1>7, <2>1, GoToType DEF CallbackFails, CoordinatorStates
  <2>3. ProcessesTypeOK'
    BY <1>7 DEF CallbackFails, ProcessesTypeOK
  <2>. QED  BY <1>7, <2>2, <2>3, SameType DEF CallbackFails
<1>8. ASSUME FinalizeInvocation(c) PROVE TypeOK'
  <2>1. PICK next \in AfterWorker(coord[c].pc) : Save(c, next)
    BY <1>8 DEF FinalizeInvocation
  <2>2. /\ coord[c].pc \in {"working", "marked", "erring"}
        /\ next \in {"ended", "stalling", "failing"}
    BY <2>1 DEF AfterWorker
  <2>3. coord[c].dispatch # None
    BY <2>2, DispatchOf DEF Undispatched
  <2>4. CoordTypeOK'
    BY <2>1, <2>2, <2>3, SaveType DEF CoordinatorStates
  <2>5. ProcessesTypeOK'
    BY <1>8 DEF FinalizeInvocation, ProcessesTypeOK
  <2>. QED  BY <1>8, <2>4, <2>5, SameType DEF FinalizeInvocation
<1>9. ASSUME InvocationClosed(c) PROVE TypeOK'
  BY <1>9, GoToType, SameType DEF InvocationClosed, CoordinatorStates, Undispatched
<1>. QED
  BY <1>1, <1>2, <1>3, <1>4, <1>5, <1>6, <1>7, <1>8, <1>9 DEF Work

LEMMA ApplyResultType ==
    ASSUME TypeOK, NEW c \in Coordinator, NEW rec \in StepRecord, NEW escalates \in BOOLEAN,
           coord[c].pc = "ended", ApplyResult(c, rec, escalates)
    PROVE  TypeOK'
<1>1. /\ coord[c].dispatch \in Dispatch
      /\ coord[c].dispatch.step \in Step
      /\ coord[c].dispatch # None
  BY DispatchOf DEF TypeOK, Undispatched
<1>2. DispatchesTypeOK'
  BY <1>1, MoveDispatchType DEF ApplyResult, TypeOK, DispatchStates
<1>3. StepsTypeOK' /\ RunTypeOK'
  BY <1>1, ReplaceStepType DEF ApplyResult, TypeOK
<1>4. CoordTypeOK'
  BY <1>1, SaveType DEF ApplyResult, TypeOK, CoordinatorStates
<1>. QED
  BY <1>2, <1>3, <1>4, SameType DEF ApplyResult, TypeOK, locks, processes

(* What the verdicts make of a step is a step.                             *)
LEMMA OutcomeType ==
    ASSUME TypeOK, NEW s \in Step, NEW target \in StepStates
    PROVE  /\ Moved(s, target) \in StepRecord
           /\ [Moved(s, target) EXCEPT !.evidence = TRUE] \in StepRecord
           /\ [Moved(s, target) EXCEPT !.evidence = TRUE, !.review_acceptances = 0,
                                       !.accepted_reviewers = {}] \in StepRecord
           /\ [Moved(s, target) EXCEPT !.rework_rounds = steps[s].rework_rounds + 1]
                \in StepRecord
           /\ [Moved(s, target) EXCEPT !.stalls = @ + 1] \in StepRecord
<1>1. Moved(s, target) \in StepRecord
  BY MovedType DEF TypeOK
<1>2. steps[s].rework_rounds \in Nat
  BY DEF TypeOK, StepsTypeOK, StepRecord
<1>3. ASSUME NEW rec \in StepRecord
      PROVE  /\ [rec EXCEPT !.evidence = TRUE] \in StepRecord
             /\ [rec EXCEPT !.evidence = TRUE, !.review_acceptances = 0,
                            !.accepted_reviewers = {}] \in StepRecord
             /\ [rec EXCEPT !.stalls = @ + 1] \in StepRecord
             /\ \A n \in Nat : [rec EXCEPT !.rework_rounds = n] \in StepRecord
  <2>1. [rec EXCEPT !.evidence = TRUE] \in StepRecord
    BY DEF StepRecord
  <2>2. [rec EXCEPT !.evidence = TRUE, !.review_acceptances = 0, !.accepted_reviewers = {}]
          \in StepRecord
    BY DEF StepRecord
  <2>3. [rec EXCEPT !.stalls = @ + 1] \in StepRecord
    BY DEF StepRecord
  <2>4. \A n \in Nat : [rec EXCEPT !.rework_rounds = n] \in StepRecord
    BY DEF StepRecord
  <2>. QED  BY <2>1, <2>2, <2>3, <2>4
<1>4. steps[s].rework_rounds + 1 \in Nat
  BY <1>2
<1>. QED  BY <1>1, <1>3, <1>4

LEMMA ChecksFailType ==
    ASSUME TypeOK, NEW c \in Coordinator, ChecksFail(c)
    PROVE  TypeOK'
<1>. DEFINE d == coord[c].dispatch
            s == d.step
<1>1. d \in Dispatch /\ s \in Step /\ d # None /\ s # None
  BY DispatchOf DEF ChecksFail, AtResult, TypeOK, Undispatched
<1>2. DispatchesTypeOK'
  BY <1>1, FailDispatchType DEF ChecksFail, TypeOK, DispatchStates, FailureCategories
<1>3. ASSUME NEW target \in StepStates
      PROVE  Reworked(d, target) \in StepRecord
  <2>1. Moved(s, target) \in StepRecord
    BY <1>1, MovedType DEF TypeOK
  <2>2. [Moved(s, target) EXCEPT !.rework_rounds = @ + 1] \in StepRecord
    BY <2>1 DEF StepRecord
  <2>3. \A rec \in StepRecord :
          [rec EXCEPT !.review_acceptances = 0, !.accepted_reviewers = {}, !.evidence = FALSE]
            \in StepRecord
    BY DEF StepRecord
  <2>. QED  BY <2>2, <2>3 DEF Reworked
<1>4. StepsTypeOK' /\ RunTypeOK'
  <2>1. PICK target \in {"READY", "BLOCKED", "FAILED"} :
          \/ ReplaceStep(s, Reworked(d, target))
          \/ /\ steps' = [steps EXCEPT ![s] = Reworked(d, target)]
             /\ \E kind \in {"escalation", "reconciliation", "budget"} : Wait(kind, s, d)
    BY DEF ChecksFail
  <2>2. Reworked(d, target) \in StepRecord
    BY <1>3, <2>1 DEF StepStates
  <2>3. CASE ReplaceStep(s, Reworked(d, target))
    BY <1>1, <2>2, <2>3, ReplaceStepType DEF TypeOK
  <2>4. CASE /\ steps' = [steps EXCEPT ![s] = Reworked(d, target)]
             /\ \E kind \in {"escalation", "reconciliation", "budget"} : Wait(kind, s, d)
    <3>1. StepsTypeOK'
      BY <1>1, <2>2, <2>4 DEF TypeOK, StepsTypeOK
    <3>2. RunTypeOK'
      BY <1>1, <2>4, WaitType DEF RequestKinds
    <3>. QED  BY <3>1, <3>2
  <2>. QED  BY <2>1, <2>3, <2>4
<1>5. CoordTypeOK'
  BY <1>1, SaveType DEF ChecksFail, TypeOK, CoordinatorStates
<1>. QED
  BY <1>2, <1>4, <1>5, SameType DEF ChecksFail, TypeOK, locks, processes

LEMMA ApplyType ==
    ASSUME TypeOK, NEW c \in Coordinator, Apply(c)
    PROVE  TypeOK'
<1>. USE DEF TypeOK, record, locks, processes
<1>1. ASSUME coord[c].pc = "ended" PROVE coord[c].dispatch.step \in Step
  BY <1>1, DispatchOf DEF Undispatched
<1>2. ASSUME ExecutorCompleted(c) PROVE TypeOK'
  BY <1>1, <1>2, OutcomeType, ApplyResultType DEF ExecutorCompleted, AtResult, StepStates
<1>3. ASSUME ExecutorGivesUp(c) PROVE TypeOK'
  <2>1. PICK target \in {"READY", "BLOCKED", "FAILED"}, escalates \in BOOLEAN :
          ApplyResult(c, Moved(coord[c].dispatch.step, target), escalates)
    BY <1>3 DEF ExecutorGivesUp
  <2>2. Moved(coord[c].dispatch.step, target) \in StepRecord
    BY <1>1, <1>3, OutcomeType DEF ExecutorGivesUp, AtResult, StepStates
  <2>. QED  BY <1>3, <2>1, <2>2, ApplyResultType DEF ExecutorGivesUp, AtResult
<1>4. ASSUME ReviewerAccepts(c) PROVE TypeOK'
  <2>. DEFINE s == coord[c].dispatch.step
              votes == steps[s].review_acceptances + 1
              roles == steps[s].accepted_reviewers \cup {dispatches[coord[c].dispatch].role}
  <2>1. /\ coord[c].dispatch \in Dispatch
        /\ s \in Step
        /\ dispatches[coord[c].dispatch].state = "RUNNING"
    BY <1>4, DispatchOf DEF ReviewerAccepts, AtResult, Undispatched
  <2>2. dispatches[coord[c].dispatch].role \in Role
    BY <2>1 DEF DispatchesTypeOK, DispatchRecord
  <2>3. votes \in Nat /\ roles \in SUBSET Role
    BY <2>1, <2>2 DEF StepsTypeOK, StepRecord
  <2>4. PICK target \in {"ACCEPTED", "REVIEW_REQUIRED"} :
          ApplyResult(c, [Moved(s, target) EXCEPT !.review_acceptances = votes,
                            !.accepted_reviewers =
                                @ \cup {dispatches[coord[c].dispatch].role},
                            !.evidence = (target = "ACCEPTED")], FALSE)
    BY <1>4 DEF ReviewerAccepts
  <2>5. Moved(s, target).accepted_reviewers = steps[s].accepted_reviewers
    BY <2>1 DEF Moved, StepsTypeOK, StepRecord
  <2>6. Moved(s, target) \in StepRecord
    BY <2>1, OutcomeType DEF StepStates
  <2>7. [Moved(s, target) EXCEPT !.review_acceptances = votes,
            !.accepted_reviewers = @ \cup {dispatches[coord[c].dispatch].role},
            !.evidence = (target = "ACCEPTED")] \in StepRecord
    BY <2>3, <2>5, <2>6 DEF StepRecord
  <2>. QED  BY <1>4, <2>4, <2>7, ApplyResultType DEF ReviewerAccepts, AtResult
<1>5. ASSUME ReviewerRequestsChanges(c) PROVE TypeOK'
  <2>1. PICK target \in {"REVIEW_REQUIRED", "READY", "BLOCKED", "FAILED"} :
          ApplyResult(c, [Moved(coord[c].dispatch.step, target) EXCEPT
                             !.rework_rounds = steps[coord[c].dispatch.step].rework_rounds + 1],
                      target = "BLOCKED")
    BY <1>5 DEF ReviewerRequestsChanges
  <2>2. [Moved(coord[c].dispatch.step, target) EXCEPT
             !.rework_rounds = steps[coord[c].dispatch.step].rework_rounds + 1] \in StepRecord
    BY <1>1, <1>5, OutcomeType DEF ReviewerRequestsChanges, AtResult, StepStates
  <2>. QED  BY <1>5, <2>1, <2>2, ApplyResultType DEF ReviewerRequestsChanges, AtResult
<1>6. ASSUME ReviewerGivesUp(c) PROVE TypeOK'
  <2>1. BlockedReviewTarget(coord[c].dispatch.step) \in StepStates
    BY DEF BlockedReviewTarget, StepStates
  <2>2. Moved(coord[c].dispatch.step, BlockedReviewTarget(coord[c].dispatch.step)) \in StepRecord
    BY <1>1, <1>6, <2>1, OutcomeType DEF ReviewerGivesUp, AtResult
  <2>. QED  BY <1>6, <2>2, ApplyResultType DEF ReviewerGivesUp, AtResult
<1>7. ASSUME RefuseResult(c) PROVE TypeOK'
  BY <1>7, DispatchOf, GoToType, SameType DEF RefuseResult, CoordinatorStates, Undispatched
<1>8. ASSUME MalformedReview(c) PROVE TypeOK'
  BY <1>8, DispatchOf, GoToType, SameType DEF MalformedReview, CoordinatorStates, Undispatched
<1>9. ASSUME ChecksFail(c) PROVE TypeOK'
  BY <1>9, ChecksFailType
<1>10. ASSUME PersistForwarded(c) PROVE TypeOK'
  <2>. DEFINE d == coord[c].dispatch
  <2>1. d \in Dispatch /\ d.step \in Step /\ d # None /\ d.step # None
    BY <1>10, DispatchOf DEF PersistForwarded, Undispatched
  <2>2. DispatchesTypeOK'
    <3>1. dispatches[d].state # "NONE"
      BY <1>10, <2>1, DispatchTable DEF PersistForwarded, DispatchesTypeOK, DispatchRecord
    <3>2. dispatches' = [dispatches EXCEPT ![d] =
                           [dispatches[d] EXCEPT !.state = "FORWARDED", !.result = TRUE]]
      BY <1>10 DEF PersistForwarded
    <3>3. [dispatches[d] EXCEPT !.state = "FORWARDED", !.result = TRUE] \in DispatchRecord
      BY <2>1, ForwardedRecordType DEF DispatchesTypeOK
    <3>4. [dispatches[d] EXCEPT !.state = "FORWARDED", !.result = TRUE].role # None
      BY <2>1, <3>1 DEF DispatchesTypeOK, DispatchRecord
    <3>. QED  BY <2>1, <3>2, <3>3, <3>4 DEF DispatchesTypeOK
  <2>3. RunTypeOK'
    BY <1>10, <2>1, WaitType, SameType DEF PersistForwarded, RequestKinds
  <2>4. CoordTypeOK'
    BY <1>10, <2>1, SaveType DEF PersistForwarded, CoordinatorStates
  <2>. QED  BY <1>10, <2>2, <2>3, <2>4, SameType DEF PersistForwarded
<1>11. ASSUME ReleaseLeases(c) PROVE TypeOK'
  <2>1. coord[c].dispatch # None
    BY <1>11, DispatchOf DEF ReleaseLeases, Undispatched
  <2>2. AfterRelease(coord[c].pc) \in CoordinatorStates \ {"leased"}
    BY <1>11 DEF ReleaseLeases, AfterRelease, CoordinatorStates
  <2>3. CoordTypeOK'
    BY <1>11, <2>1, <2>2, GoToType DEF ReleaseLeases
  <2>4. LeasesTypeOK'
    BY <1>11, ReleasedType DEF ReleaseLeases, LeasesTypeOK
  <2>. QED  BY <1>11, <2>3, <2>4, SameType DEF ReleaseLeases
<1>12. ASSUME BudgetHolds(c) PROVE TypeOK'
  BY <1>12, GoToType, SameType DEF BudgetHolds, CoordinatorStates, Undispatched
<1>13. ASSUME BudgetExceeded(c) PROVE TypeOK'
  <2>. DEFINE d == coord[c].dispatch
  <2>1. d \in Dispatch /\ d.step \in Step /\ d.step # None
    BY <1>13, DispatchOf DEF BudgetExceeded, Undispatched
  <2>2. RunTypeOK'
    BY <1>13, <2>1, WaitType, MoveRunType, SameType DEF BudgetExceeded, RequestKinds, RunStates
  <2>3. CoordTypeOK'
    BY <1>13, SaveType, GoToType DEF BudgetExceeded, CoordinatorStates, Undispatched
  <2>. QED  BY <1>13, <2>2, <2>3, SameType DEF BudgetExceeded
<1>. QED
  BY <1>2, <1>3, <1>4, <1>5, <1>6, <1>7, <1>8, <1>9, <1>10, <1>11, <1>12, <1>13 DEF Apply

LEMMA FailType ==
    ASSUME TypeOK, NEW c \in Coordinator, Fail(c)
    PROVE  TypeOK'
<1>. DEFINE d == coord[c].dispatch
            s == d.step
<1>. USE DEF TypeOK, record, locks, processes
<1>1. ASSUME coord[c].pc \notin Undispatched
      PROVE  d \in Dispatch /\ s \in Step /\ d # None /\ s # None
  BY <1>1, DispatchOf
<1>2. ASSUME ReloadRecord(c) PROVE TypeOK'
  <2>1. CoordTypeOK'
    BY <1>2 DEF ReloadRecord, CoordTypeOK
  <2>. QED  BY <1>2, <2>1, SameType DEF ReloadRecord
<1>3. ASSUME GiveUp(c) PROVE TypeOK'
  <2>1. d # None
    BY <1>1, <1>3 DEF GiveUp, FirstSaves, Undispatched
  <2>2. CoordTypeOK'
    BY <1>3, <2>1, GoToType DEF GiveUp, CoordinatorStates, Undispatched
  <2>. QED  BY <1>3, <2>2, SameType DEF GiveUp
<1>4. ASSUME SaveFailedDispatch(c) PROVE TypeOK'
  <2>1. d \in Dispatch /\ d # None
    BY <1>1, <1>4 DEF SaveFailedDispatch, Undispatched
  <2>2. DispatchesTypeOK'
    <3>1. PICK target \in {"FAILED", "ABANDONED"}, category \in {"result_validation", "other"} :
            FailDispatch(d, target, category)
      BY <1>4 DEF SaveFailedDispatch
    <3>. QED  BY <2>1, <3>1, FailDispatchType DEF DispatchStates, FailureCategories
  <2>3. CoordTypeOK'
    BY <1>4, <2>1, SaveType DEF SaveFailedDispatch, CoordinatorStates
  <2>. QED  BY <1>4, <2>2, <2>3, SameType DEF SaveFailedDispatch
<1>5. ASSUME SaveFailedStep(c) PROVE TypeOK'
  <2>1. s \in Step /\ d # None
    BY <1>1, <1>5 DEF SaveFailedStep, Undispatched
  <2>2. Boundary(s) \in StepStates
    BY DEF Boundary, StepStates
  <2>3. StepsTypeOK' /\ RunTypeOK'
    BY <1>5, <2>1, <2>2, MovedType, ReplaceStepType DEF SaveFailedStep
  <2>4. CoordTypeOK'
    BY <1>5, <2>1, SaveType DEF SaveFailedStep, CoordinatorStates
  <2>. QED  BY <1>5, <2>3, <2>4, SameType DEF SaveFailedStep
<1>6. ASSUME AskReconciliation(c) PROVE TypeOK'
  <2>1. d \in Dispatch /\ s \in Step /\ d # None /\ s # None
    BY <1>1, <1>6 DEF AskReconciliation, Undispatched
  <2>2. RunTypeOK'
    BY <1>6, <2>1, WaitType DEF AskReconciliation, RequestKinds
  <2>3. CoordTypeOK'
    BY <1>6, <2>1, SaveType DEF AskReconciliation, CoordinatorStates
  <2>. QED  BY <1>6, <2>2, <2>3, SameType DEF AskReconciliation
<1>7. ASSUME SaveStalledDispatch(c) PROVE TypeOK'
  <2>1. d \in Dispatch /\ d # None
    BY <1>1, <1>7 DEF SaveStalledDispatch, Undispatched
  <2>2. DispatchesTypeOK'
    BY <1>7, <2>1, FailDispatchType DEF SaveStalledDispatch, DispatchStates, FailureCategories
  <2>3. CoordTypeOK'
    BY <1>7, <2>1, SaveType DEF SaveStalledDispatch, CoordinatorStates
  <2>. QED  BY <1>7, <2>2, <2>3, SameType DEF SaveStalledDispatch
<1>8. ASSUME SaveStalledStep(c) PROVE TypeOK'
  <2>1. s \in Step /\ d # None
    BY <1>1, <1>8 DEF SaveStalledStep, Undispatched
  <2>2. PICK target \in {"FAILED", "READY", "BLOCKED", "REVIEW_REQUIRED"} :
          ReplaceStep(s, [Moved(s, target) EXCEPT !.stalls = @ + 1])
    BY <1>8 DEF SaveStalledStep, Boundary
  <2>3. [Moved(s, target) EXCEPT !.stalls = @ + 1] \in StepRecord
    BY <2>1, OutcomeType DEF StepStates
  <2>4. StepsTypeOK' /\ RunTypeOK'
    BY <2>1, <2>2, <2>3, ReplaceStepType
  <2>5. CoordTypeOK'
    BY <1>8, <2>1, SaveType DEF SaveStalledStep, CoordinatorStates
  <2>. QED  BY <1>8, <2>4, <2>5, SameType DEF SaveStalledStep
<1>9. ASSUME AskStallRecovery(c) PROVE TypeOK'
  <2>1. d \in Dispatch /\ s \in Step /\ d # None /\ s # None
    BY <1>1, <1>9 DEF AskStallRecovery, Undispatched
  <2>2. RunTypeOK'
    BY <1>9, <2>1, WaitType, MoveRunType DEF AskStallRecovery, RequestKinds, RunStates
  <2>3. CoordTypeOK'
    BY <1>9, <2>1, SaveType DEF AskStallRecovery, CoordinatorStates
  <2>. QED  BY <1>9, <2>2, <2>3, SameType DEF AskStallRecovery
<1>10. ASSUME RetryStalled(c) PROVE TypeOK'
  <2>1. d \in Dispatch
    BY <1>1, <1>10 DEF RetryStalled, Undispatched
  <2>2. s \in Step /\ d.kind \in {"executor", "reviewer"}
    BY <2>1 DEF Dispatch
  <2>. QED  BY <1>10, <2>2, AcquireType DEF RetryStalled
<1>11. ASSUME SaveMalformedReview(c) PROVE TypeOK'
  <2>1. d \in Dispatch /\ d # None
    BY <1>1, <1>11 DEF SaveMalformedReview, Undispatched
  <2>2. DispatchesTypeOK'
    BY <1>11, <2>1, FailDispatchType DEF SaveMalformedReview, DispatchStates, FailureCategories
  <2>3. CoordTypeOK'
    BY <1>11, <2>1, SaveType DEF SaveMalformedReview, CoordinatorStates
  <2>. QED  BY <1>11, <2>2, <2>3, SameType DEF SaveMalformedReview
<1>12. ASSUME SaveUnreviewedStep(c) PROVE TypeOK'
  <2>1. s \in Step /\ d # None
    BY <1>1, <1>12 DEF SaveUnreviewedStep, Undispatched
  <2>2. [Moved(s, "REVIEW_REQUIRED") EXCEPT !.stalls = @ + 1] \in StepRecord
    BY <2>1, OutcomeType DEF StepStates
  <2>3. StepsTypeOK' /\ RunTypeOK'
    BY <1>12, <2>1, <2>2, ReplaceStepType DEF SaveUnreviewedStep
  <2>4. CoordTypeOK'
    BY <1>12, <2>1, SaveType DEF SaveUnreviewedStep, CoordinatorStates
  <2>. QED  BY <1>12, <2>3, <2>4, SameType DEF SaveUnreviewedStep
<1>13. ASSUME LaterSaveConflicts(c) PROVE TypeOK'
  <2>1. d # None
    BY <1>1, <1>13 DEF LaterSaveConflicts, Undispatched
  <2>. QED
    BY <1>13, <2>1, GoToType, SameType DEF LaterSaveConflicts, CoordinatorStates
<1>. QED
  BY <1>2, <1>3, <1>4, <1>5, <1>6, <1>7, <1>8, <1>9, <1>10, <1>11, <1>12, <1>13 DEF Fail

LEMMA LifecycleType ==
    ASSUME TypeOK, NEW c \in Coordinator,
           Start(c) \/ StopStale(c) \/ Exit(c) \/ Crash(c)
    PROVE  TypeOK'
<1>. USE DEF TypeOK, record, locks, processes
<1>1. Down \in [pc : CoordinatorStates, dispatch : Dispatch \cup {None},
                role : Role \cup {None}, fresh : BOOLEAN]
  BY DEF Down, CoordinatorStates
<1>2. CASE Start(c)
  <2>1. LeasesTypeOK'
    BY <1>2 DEF Start, LeasesTypeOK
  <2>2. CoordTypeOK'
    BY <1>2 DEF Start, CoordTypeOK, CoordinatorStates, Undispatched
  <2>. QED  BY <1>2, <2>1, <2>2, SameType DEF Start
<1>3. CASE StopStale(c)
  BY <1>3, GoToType, SameType DEF StopStale, CoordinatorStates, Undispatched
<1>4. CASE Exit(c) \/ Crash(c)
  <2>1. CoordTypeOK'
    <3>1. Down.pc \in Undispatched /\ Down.pc # "leased"
      BY DEF Down, Undispatched
    <3>2. coord' = [coord EXCEPT ![c] = Down]
      BY <1>4 DEF Exit, Crash
    <3>. QED  BY <1>1, <3>1, <3>2 DEF CoordTypeOK
  <2>2. LeasesTypeOK'
    BY <1>4, ReleasedType DEF Exit, Crash, LeasesTypeOK
  <2>. QED  BY <1>4, <2>1, <2>2, SameType DEF Exit, Crash
<1>. QED  BY <1>2, <1>3, <1>4

LEMMA AnswerType ==
    ASSUME TypeOK, Answer
    PROVE  TypeOK'
<1>. USE DEF TypeOK, record, locks, processes
<1>1. ASSUME StepsTypeOK', Resume PROVE TypeOK'
  BY <1>1, MoveRunType, OutdatedType, SameType DEF Resume, RunStates
<1>2. ASSUME Answering("risk_gate") \/ Answering("escalation") \/ Answering("review_waiver")
               \/ Answering("stall_recovery") \/ Answering("reconciliation")
      PROVE  request.step \in Step
  BY <1>2 DEF Answering, RunTypeOK
<1>3. ASSUME AnswerHalt PROVE TypeOK'
  BY <1>3, MoveRunType, OutdatedType, SameType DEF AnswerHalt, RunStates
<1>4. ASSUME AnswerGate PROVE TypeOK'
  <2>1. request.step \in Step
    BY <1>2, <1>4 DEF AnswerGate
  <2>2. [steps[request.step] EXCEPT !.gate_resolved = TRUE] \in StepRecord
    BY <2>1, GateResolvedType DEF StepsTypeOK
  <2>3. steps' = [steps EXCEPT ![request.step] =
                    [steps[request.step] EXCEPT !.gate_resolved = TRUE]]
    BY <1>4 DEF AnswerGate
  <2>4. StepsTypeOK'
    BY <2>1, <2>2, <2>3 DEF StepsTypeOK
  <2>. QED  BY <1>1, <1>4, <2>4 DEF AnswerGate
<1>5. ASSUME AnswerQuestion PROVE TypeOK'
  BY <1>1, <1>5, SameType DEF AnswerQuestion
<1>6. ASSUME AnswerReassign PROVE TypeOK'
  <2>1. Moved(request.step, "READY") \in StepRecord
    BY <1>2, <1>6, MovedType DEF AnswerReassign, StepStates
  <2>2. [Moved(request.step, "READY") EXCEPT !.reassigned = TRUE] \in StepRecord
    BY <2>1 DEF StepRecord
  <2>3. StepsTypeOK'
    BY <1>2, <1>6, <2>2 DEF AnswerReassign, StepsTypeOK
  <2>. QED  BY <1>1, <1>6, <2>3 DEF AnswerReassign
<1>7. ASSUME AnswerWaiver PROVE TypeOK'
  <2>1. Moved(request.step, "ACCEPTED") \in StepRecord
    BY <1>2, <1>7, MovedType DEF AnswerWaiver, StepStates
  <2>2. [Moved(request.step, "ACCEPTED") EXCEPT !.review_waived = TRUE] \in StepRecord
    BY <2>1 DEF StepRecord
  <2>3. StepsTypeOK'
    BY <1>2, <1>7, <2>2 DEF AnswerWaiver, StepsTypeOK
  <2>. QED  BY <1>1, <1>7, <2>3 DEF AnswerWaiver
<1>8. ASSUME AnswerRetry \/ AnswerReconcile PROVE TypeOK'
  <2>1. request.step \in Step
    BY <1>2, <1>8 DEF AnswerRetry, AnswerReconcile
  <2>2. Unblocked(request.step) \in StepRecord
    BY <2>1, MovedType DEF Unblocked, StepsTypeOK, StepStates
  <2>3. StepsTypeOK'
    BY <1>8, <2>1, <2>2 DEF AnswerRetry, AnswerReconcile, StepsTypeOK
  <2>. QED  BY <1>1, <1>8, <2>3 DEF AnswerRetry, AnswerReconcile
<1>. QED  BY <1>3, <1>4, <1>5, <1>6, <1>7, <1>8 DEF Answer

LEMMA RecoverType ==
    ASSUME TypeOK, RecoverStart \/ RecoverStep \/ RecoverCrash
    PROVE  TypeOK'
<1>. USE DEF TypeOK, record, locks, processes
<1>1. Idle \in [pc : {"idle", "reconciling", "forwarding", "unlocking", "finalizing", "leaving"},
                dispatch : Dispatch \cup {None}, journals : SUBSET (Coordinator \cup Dispatch)]
  BY DEF Idle
<1>2. CASE RecoverStart
  <2>1. PICK d \in Recoverable \cup {None} :
          /\ d = None <=> Recoverable = {}
          /\ recover' = [pc |-> IF d = None THEN "finalizing"
                                ELSE IF InFlight(d) THEN "reconciling" ELSE "forwarding",
                         dispatch |-> d, journals |-> invocations]
    BY <1>2 DEF RecoverStart
  <2>2. RecoverTypeOK'
    BY <2>1 DEF RecoverTypeOK, ProcessesTypeOK, Recoverable
  <2>3. LeasesTypeOK'
    BY <1>2 DEF RecoverStart, LeasesTypeOK
  <2>. QED  BY <1>2, <2>2, <2>3, SameType DEF RecoverStart
<1>3. CASE RecoverDispatch
  <2>1. recover.dispatch \in Dispatch
    BY <1>3 DEF RecoverDispatch, RecoverTypeOK
  <2>2. RunTypeOK' /\ StepsTypeOK' /\ DispatchesTypeOK'
    BY <1>3, <2>1, InterruptedType DEF RecoverDispatch
  <2>3. CoordTypeOK'
    BY <1>3, OutdatedType DEF RecoverDispatch
  <2>4. RecoverTypeOK'
    BY <1>3 DEF RecoverDispatch, RecoverTypeOK
  <2>. QED  BY <1>3, <2>2, <2>3, <2>4, SameType DEF RecoverDispatch
<1>4. CASE RecoverNothing
  <2>1. RecoverTypeOK'
    BY <1>4 DEF RecoverNothing, RecoverTypeOK
  <2>. QED  BY <1>4, <2>1, SameType DEF RecoverNothing
<1>5. CASE RecoverForwarding
  <2>1. RecoverTypeOK'
    BY <1>5 DEF RecoverForwarding, RecoverTypeOK
  <2>. QED  BY <1>5, <2>1, SameType DEF RecoverForwarding
<1>6. CASE RecoverUnlock
  <2>1. RecoverTypeOK'
    BY <1>6 DEF RecoverUnlock, RecoverTypeOK
  <2>2. LeasesTypeOK'
    BY <1>6 DEF RecoverUnlock, LeasesTypeOK
  <2>. QED  BY <1>6, <2>1, <2>2, SameType DEF RecoverUnlock
<1>7. CASE RecoverJournals
  <2>1. RecoverTypeOK'
    BY <1>1, <1>7 DEF RecoverJournals, RecoverTypeOK, Idle
  <2>2. ProcessesTypeOK'
    BY <1>7 DEF RecoverJournals, ProcessesTypeOK
  <2>3. CoordTypeOK'
    BY <1>7, OutdatedType, SameType DEF RecoverJournals
  <2>. QED  BY <1>7, <2>1, <2>2, <2>3, SameType DEF RecoverJournals
<1>8. CASE RecoverEnd \/ RecoverCrash
  <2>1. RecoverTypeOK'
    BY <1>1, <1>8 DEF RecoverEnd, RecoverCrash, RecoverTypeOK, Idle
  <2>2. LeasesTypeOK'
    BY <1>8 DEF RecoverEnd, RecoverCrash, LeasesTypeOK
  <2>. QED  BY <1>8, <2>1, <2>2, SameType DEF RecoverEnd, RecoverCrash
<1>. QED  BY <1>2, <1>3, <1>4, <1>5, <1>6, <1>7, <1>8 DEF RecoverStep

LEMMA InitType == Init => TypeOK
<1>. SUFFICES ASSUME Init PROVE TypeOK
  OBVIOUS
<1>1. RunTypeOK
  BY DEF Init, RunTypeOK, RunStates, NoRequest
<1>2. StepsTypeOK
  BY DEF Init, StepsTypeOK, StepRecord, StepStates
<1>3. DispatchesTypeOK
  BY DEF Init, DispatchesTypeOK, DispatchRecord, DispatchStates, FailureCategories
<1>4. LeasesTypeOK /\ ProcessesTypeOK /\ RecoverTypeOK
  BY DEF Init, LeasesTypeOK, ProcessesTypeOK, RecoverTypeOK, Idle
<1>5. CoordTypeOK
  BY DEF Init, CoordTypeOK, Down, CoordinatorStates, Undispatched
<1>. QED  BY <1>1, <1>2, <1>3, <1>4, <1>5 DEF Init, TypeOK

LEMMA NextType ==
    ASSUME TypeOK, [Next]_vars
    PROVE  TypeOK'
<1>. USE DEF TypeOK, record, locks, processes
<1>1. ASSUME NEW c \in Coordinator, Start(c) \/ Proceed(c) \/ Crash(c)
      PROVE  TypeOK'
  BY <1>1, BootstrapType, SuperviseType, WorkType, ApplyType, FailType, LifecycleType
  DEF Proceed
<1>2. ASSUME NEW d \in Dispatch, WorkerExits(d)
      PROVE  TypeOK'
  <2>1. ProcessesTypeOK'
    BY <1>2 DEF WorkerExits, ProcessesTypeOK
  <2>. QED  BY <1>2, <2>1, SameType DEF WorkerExits
<1>3. ASSUME NEW d \in Dispatch, Cancel(d)
      PROVE  TypeOK'
  <2>1. DispatchesTypeOK'
    BY <1>3 DEF Cancel, DispatchesTypeOK, DispatchRecord
  <2>2. CoordTypeOK'
    BY <1>3, OutdatedType DEF Cancel
  <2>. QED  BY <1>3, <2>1, <2>2, SameType DEF Cancel
<1>4. CASE RunLeaseGoesStale
  <2>1. LeasesTypeOK'
    BY <1>4 DEF RunLeaseGoesStale, LeasesTypeOK
  <2>. QED  BY <1>4, <2>1, SameType DEF RunLeaseGoesStale
<1>5. CASE UNCHANGED vars
  BY <1>5, SameType DEF vars
<1>. QED
  BY <1>1, <1>2, <1>3, <1>4, <1>5, AnswerType, RecoverType DEF Next

(* Every state of every behaviour is well typed: a process that handles a  *)
(* result, a failure or a stall has a dispatch to handle, and a question   *)
(* names the step and the dispatch that its answer will move.              *)
THEOREM TypeCorrect == Spec => []TypeOK
<1>1. TypeOK /\ [Next]_vars => TypeOK'
  BY NextType
<1>. QED  BY <1>1, InitType, PTL DEF Spec
=============================================================================
