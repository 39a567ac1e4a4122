----------------------- MODULE ParallelWorkflow_proofs -----------------------
(***************************************************************************)
(* Proofs about ParallelWorkflow, for every set of steps and every bound.  *)
(*                                                                         *)
(* The inductive invariant IInv is built in layers, and each layer is      *)
(* proved from the ones below it:                                          *)
(*   Typed     what the values are, and which commands name a group;       *)
(*   Flight    which dispatches are in flight, and for whom;               *)
(*   Control   who acts, and the state of the group they act on;           *)
(*   Leasing   what the leases of groups and of children exclude;          *)
(*   Writers   which worker processes may be alive;                        *)
(*   Steady    the states of a group's steps before and after its batch;   *)
(*   Branches  what is merged, and where the work of a step is;            *)
(*   Removal   what a cleanup has removed.                                 *)
(* A layer has a lemma for each disjunct of Next.  The lemmas ...ByRows    *)
(* state once what each action does to the record, the threads and the     *)
(* processes, and the layers are proved from these rows.                   *)
(***************************************************************************)
EXTENDS ParallelWorkflow, TLAPS

E == op[Execute]
O == op[Operator]

(* The values.  A branch that is gone is a history as well here: that only *)
(* branches that exist are merged is shown in Branches.                    *)
History == Step \cup {None}

RunStatuses == {"RUNNING", "WAITING_OPERATOR", "HALTED", "SUCCEEDED"}
Requests ==
    [kind : {"none", "batch_reconciliation", "workspace_reconciliation",
             "reconciliation", "stall_recovery", "escalation"},
     batch : Batch \cup {0}, group : Group \cup {0}, step : Step \cup {None}]
StepStatuses == {"READY", "EXECUTING", "BLOCKED", "ACCEPTED"}
StepRecord == [state : StepStatuses, attempts : Nat, stalls : Nat]
BatchRecord == [state : BatchStates, children : SUBSET Dispatch, failed : SUBSET Dispatch]
LooseGroup ==
    [state : GroupStates, children : SUBSET Step, base : SUBSET History, promoted : BOOLEAN]

LooseRecord ==
    [run : RunStatuses, request : Requests, steps : [Step -> StepRecord],
     dispatches : [Dispatch -> DispatchRecord], batches : [Batch -> BatchRecord],
     groups : [Group -> LooseGroup]]

Shape ==
    /\ barrier \in BOOLEAN
    /\ db \in LooseRecord
    /\ fresh \subseteq Command \cup Step
    /\ lease \in [Repository -> {None} \cup {GroupOwner(g) : g \in Group} \cup Dispatch]
    /\ source \in [Repository -> SUBSET History]
    /\ heads \in [Group -> [Place -> SUBSET History]]
    /\ trees \in [Group -> [Place -> {"absent", "clean", "dirty"}]]
    /\ workers \subseteq Dispatch
    /\ thread \in [Step -> ThreadStates]
    /\ op \in [Command -> ProcessRecord]
    /\ troubles \in [{"crash", "fault", "cancel"} -> 0..MaxTroubles]

(* The counters, and the request of a run that waits. *)
RequestOK ==
    /\ db.request = NoRequest <=> db.run # "WAITING_OPERATOR"
    /\ db.request.kind = "workspace_reconciliation" <=> db.request.group # 0

FailedOK == \A b \in Batch : db.batches[b].failed \subseteq db.batches[b].children

AttemptsOK ==
    \A s \in Step : /\ db.steps[s].attempts <= MaxAttempts[s]
                    /\ db.steps[s].stalls <= db.steps[s].attempts

(* A thread only works for the execute command that runs its batch, and a  *)
(* dispatch that may still stall has not been counted.                     *)
ThreadsOK ==
    \A s \in Step :
        /\ thread[s] # "idle" => E.pc = "running" /\ s \in E.kids /\ db.steps[s].attempts > 0
        /\ thread[s] \in {"queued", "working", "stalling"} =>
            db.steps[s].stalls < db.steps[s].attempts

AllocatingOK ==
    E.pc = "allocating" => \A s \in E.steps : s \in Step /\ db.steps[s].attempts < MaxAttempts[s]

Counted == RequestOK /\ FailedOK /\ AttemptsOK /\ ThreadsOK /\ AllocatingOK

AboutGroup == db.request.kind = "workspace_reconciliation"

(* A command that works on a group knows which. *)
Named ==
    \A a \in Command :
        op[a].pc \in ProvisionStates \cup IntegrationStates \cup CleanupStates => op[a].group # 0

Typed == Shape /\ Counted /\ Named

(* A dispatch in flight is the current one of a step that executes.        *)
FlightIsCurrent ==
    \A d \in Dispatch : db.dispatches[d].state \in InFlightStates =>
        db.steps[d[1]].state = "EXECUTING" /\ Current(d[1]) = d

(* Where the dispatch of a thread is.                                      *)
ThreadDispatchStates(pc) ==
    CASE pc = "queued" -> {"PREPARED"}
      [] pc \in {"working", "committed"} -> {"RUNNING"}
      [] pc \in {"forwarding", "escalating"} -> {"COMPLETED"}
      [] pc = "done" -> {"FORWARDED"}
      [] pc \in {"failing", "asking", "stalling", "stall_asking", "retrying"} -> {"FAILED"}
      [] OTHER -> DispatchStates

ThreadsAgree ==
    \A s \in Step :
        /\ thread[s] # "idle" =>
            db.dispatches[Current(s)].state \in ThreadDispatchStates(thread[s])
        /\ thread[s] \in {"failing", "stalling"} => db.steps[s].state = "EXECUTING"

(* Nothing is in flight but for the children of the batch that runs, and   *)
(* what a command that is gone left.                                       *)
FlightIsRun ==
    /\ E.pc \notin {"down", "running", "batch_asking"} =>
        \A d \in Dispatch : db.dispatches[d].state \notin InFlightStates
    /\ E.pc = "running" =>
        \A d \in Dispatch : db.dispatches[d].state \in InFlightStates => d[1] \in E.kids

(* The step of a single dispatch, and the first dispatch of each child of  *)
(* a batch: the current one, or a failed one that a retry replaced.        *)
KidsAreChildren ==
    /\ E.pc \in ProvisionStates => E.batch # 0
    /\ E.pc \in {"allocating", "running"} /\ E.batch = 0 => \E s \in Step : E.kids = {s}
    /\ E.pc = "running" /\ E.batch # 0 => \A s \in E.kids :
        \E d \in db.batches[E.batch].children :
            /\ d[1] = s /\ d[2] <= db.steps[s].attempts
            /\ d = Current(s) \/ db.dispatches[d].state = "FAILED"

(* recover does not run beside execute. *)
Apart == E.pc # "down" => O.pc \notin RecoverStates

Flight ==
    /\ FlightIsCurrent /\ ThreadsAgree /\ FlightIsRun /\ KidsAreChildren /\ Apart
-----------------------------------------------------------------------------
(* Who acts, and what a request for a group that failed keeps still.       *)
State(g) == db.groups[g].state

NoneAdmitted == \A g \in Group : State(g) \notin AdmittedGroupStates

Duties ==
    /\ E.pc \notin RecoverStates \cup {"answering"}
    /\ O.pc \in {"down", "answering"} \cup CleanupStates \cup RecoverStates
    /\ O.pc \in {"answering"} \cup CleanupStates =>
        AboutGroup /\ db.request.group = O.group /\ ~O.force
    /\ AboutGroup =>
        E.pc \in {"down", "turn"} /\ NoneAdmitted /\ State(db.request.group) # "NONE"
    /\ E.pc \notin {"down", "turn", "running", "batch_asking"} =>
        db.run = "RUNNING" /\ Execute \in fresh
    /\ E.pc = "turn" /\ Execute \in fresh => db.run = "RUNNING" \/ AboutGroup

(* The state of the group a command works on. *)
MergeStates == {"opening", "merging", "promoted", "unintegrated"}
RemovalStates == {"checking", "removing", "removed", "unclean"}

Stations ==
    /\ E.pc \in ProvisionStates =>
        State(E.group) = "PREPARED" /\ db.groups[E.group].children = E.kids
    /\ E.pc = "allocating" /\ E.group # 0 =>
        State(E.group) = "ACTIVE" /\ E.kids \subseteq db.groups[E.group].children
    /\ E.pc = "integrate" => State(E.group) = "ACTIVE"
    /\ E.pc \in MergeStates => State(E.group) = "INTEGRATING"
    /\ E.pc = "cleanup" =>
        State(E.group) = IF E.force THEN "ACTIVE" ELSE "INTEGRATING"
    /\ \A a \in Command : op[a].pc \in RemovalStates =>
        State(op[a].group) = "CLEANUP_PENDING"
    /\ E.pc = "asking" => State(E.group) = "FAILED"
    /\ E.pc \in RemovalStates \cup {"asking"} => NoneAdmitted
    /\ E.force => E.pc \in CleanupStates

(* One group at a time, and the one that is not ACTIVE yet or any more is  *)
(* that of the execute command, if there is one.                           *)
Admission ==
    /\ \A g, h \in Group :
        State(g) \in AdmittedGroupStates /\ State(h) \in AdmittedGroupStates => g = h
    /\ ~barrier => \A g \in Group : State(g) = "NONE"
    /\ E.pc # "down" => \A g \in Group :
        /\ State(g) = "PREPARED" => E.pc \in ProvisionStates /\ E.group = g
        /\ State(g) = "INTEGRATING" =>
            E.pc \in MergeStates \cup {"cleanup"} /\ ~E.force /\ E.group = g

(* A worktree dispatch in flight is one of a child of an active group. *)
FlightIsGrouped ==
    \A d \in Dispatch :
        LET g == db.dispatches[d].group IN
        db.dispatches[d].state \in InFlightStates /\ g # 0 =>
            State(g) = "ACTIVE" /\ d[1] \in db.groups[g].children

Control == Duties /\ Stations /\ Admission /\ FlightIsGrouped
-----------------------------------------------------------------------------
(* The leases.  A batch that holds the lease of a repository keeps groups  *)
(* away from it, and the other way round.                                  *)
Held(g) == State(g) \in {"ACTIVE", "INTEGRATING"}
Engaged == \E g \in Group : Held(g)

Leasing ==
    /\ ActiveGroupHoldsLease
    /\ E.pc \in {"adding", "undoing"} => lease[Shared] = GroupOwner(E.group)
    /\ E.pc = "allocating" /\ E.group = 0 =>
        /\ E.kids # {}
        /\ \A s \in E.kids \ E.steps : lease[RepositoryOf(s)] = NextDispatch(s)
    /\ Engaged =>
        /\ \A d \in InState(InFlightStates) : db.dispatches[d].group # 0
        /\ O.pc \in RecoverStates => \A s \in O.kids :
                Current(s) \in Dispatch /\ db.dispatches[Current(s)].group # 0

(* The processes of workers. *)
Writers ==
    /\ workers \subseteq InState({"RUNNING"})
    /\ \A s \in Step : thread[s] = "committed" => Current(s) \notin workers
    /\ barrier => \A d, e \in InState(InFlightStates) :
        db.dispatches[d].group = 0 /\ db.dispatches[e].group = 0 => d = e
-----------------------------------------------------------------------------
(* The steps of a group: READY before its dispatches, and all ACCEPTED     *)
(* from the acknowledgement that decides to merge it.                      *)
Steady ==
    /\ E.pc \in ProvisionStates \cup {"allocating"} => \A s \in E.kids : db.steps[s].state = "READY"
    /\ E.pc = "integrate" => \A s \in db.groups[E.group].children : db.steps[s].state = "ACCEPTED"
    /\ \A g \in Group : State(g) = "INTEGRATING" =>
        \A s \in db.groups[g].children : db.steps[s].state = "ACCEPTED"
-----------------------------------------------------------------------------
(* The branches.  None is no work: it stands on a branch that is gone.     *)
Exists(g, p) == heads[g][p] # Gone

Histories ==
    /\ source \in [Repository -> SUBSET Step]
    /\ \A g \in Group : db.groups[g].base \subseteq Step
    /\ \A g \in Group, p \in Place : Exists(g, p) => heads[g][p] \subseteq Step

(* What the operator or a rollback may delete. *)
Merged(g) == \A p \in Place : Exists(g, p) => heads[g][p] \subseteq source[Shared]

(* A commit is on the branch that the next results are expected on.        *)
Landed(s) ==
    LET g == db.dispatches[Current(s)].group
    IN  IF g = 0 THEN s \in source[RepositoryOf(s)] ELSE s \in heads[g][s]

GroupBranches ==
    /\ \A g \in Group : State(g) # "NONE" => db.groups[g].base \subseteq source[Shared]
    /\ \A g \in Group : State(g) = "NONE" => \A p \in Place : ~Exists(g, p)
    /\ \A g \in Group : State(g) = "PREPARED" => Merged(g)
    /\ \A g \in Group : Held(g) =>
        \A s \in db.groups[g].children :
            /\ Exists(g, s)
            /\ db.steps[s].state = "ACCEPTED" => s \in heads[g][s]
    /\ \A s \in Step : thread[s] = "committed" => Landed(s)
    /\ AcceptedWorkSurvives

CommandBranches ==
    /\ E.pc = "allocating" /\ E.group # 0 /\ E.batch # 0 => Merged(E.group)
    /\ E.force => Merged(E.group)
    /\ \A a \in Command : op[a].pc = "removing" => Merged(op[a].group)
    /\ E.pc \in {"leasing", "adding"} => \A s \in E.kids \ E.steps : Exists(E.group, s)
    /\ E.pc = "merging" =>
        /\ Exists(E.group, Integration)
        /\ source[Shared] \subseteq heads[E.group][Integration]
        /\ \A s \in db.groups[E.group].children \ E.steps :
            heads[E.group][s] \subseteq heads[E.group][Integration]

Branches == Histories /\ GroupBranches /\ CommandBranches
-----------------------------------------------------------------------------
(* What is left of a group that is removed. *)
NothingAt(g, p) == ~Exists(g, p) /\ trees[g][p] = "absent"

Removal ==
    /\ \A a \in Command : op[a].pc = "removing" /\ ~op[a].failed =>
        \A p \in Owned(op[a].group) \ op[a].steps : NothingAt(op[a].group, p)
    /\ \A a \in Command : op[a].pc = "removed" =>
        /\ \A p \in Owned(op[a].group) : NothingAt(op[a].group, p)
        /\ lease[Shared] # GroupOwner(op[a].group)
    /\ CleanedOwnsNothing
-----------------------------------------------------------------------------
(* A state that changes in a table of records. *)
LEMMA TurnedStep ==
    ASSUME NEW f \in [Step -> StepRecord], NEW key, NEW target \in StepStatuses
    PROVE  LET new == Turned(f, key, target) IN
           /\ new \in [Step -> StepRecord]
           /\ \A s \in Step : /\ new[s].state = IF s = key THEN target ELSE f[s].state
                              /\ new[s].attempts = f[s].attempts /\ new[s].stalls = f[s].stalls
BY DEF Turned, StepRecord

LEMMA TurnedDispatch ==
    ASSUME NEW f \in [Dispatch -> DispatchRecord], NEW key, NEW target \in DispatchStates
    PROVE  LET new == Turned(f, key, target) IN
           /\ new \in [Dispatch -> DispatchRecord]
           /\ \A d \in Dispatch : /\ new[d].state = IF d = key THEN target ELSE f[d].state
                                  /\ new[d].batch = f[d].batch /\ new[d].group = f[d].group
BY DEF Turned, DispatchRecord

LEMMA TurnedBatch ==
    ASSUME NEW f \in [Batch -> BatchRecord], NEW key, NEW target \in BatchStates
    PROVE  LET new == Turned(f, key, target) IN
           /\ new \in [Batch -> BatchRecord]
           /\ \A b \in Batch : new[b].children = f[b].children /\ new[b].failed = f[b].failed
BY DEF Turned, BatchRecord

LEMMA TurnedGroup ==
    ASSUME NEW f \in [Group -> LooseGroup], NEW key, NEW target \in GroupStates
    PROVE  LET new == Turned(f, key, target) IN
           /\ new \in [Group -> LooseGroup]
           /\ \A g \in Group :
                /\ new[g].state = IF g = key THEN target ELSE f[g].state
                /\ new[g].children = f[g].children /\ new[g].base = f[g].base
                /\ new[g].promoted = f[g].promoted
BY DEF Turned, LooseGroup

(* The fields of the records that are saved. *)
LEMMA FieldsOfSteps ==
    ASSUME db \in LooseRecord, NEW X \in [Step -> StepRecord]
    PROVE  LET new == [db EXCEPT !.steps = X] IN
           /\ new \in LooseRecord /\ new.steps = X
           /\ new.run = db.run /\ new.request = db.request /\ new.batches = db.batches
           /\ new.dispatches = db.dispatches /\ new.groups = db.groups
BY DEF LooseRecord

LEMMA FieldsOfBatches ==
    ASSUME NEW old \in LooseRecord, NEW X \in [Batch -> BatchRecord]
    PROVE  LET new == [old EXCEPT !.batches = X] IN
           /\ new \in LooseRecord /\ new.batches = X
           /\ new.run = old.run /\ new.request = old.request /\ new.steps = old.steps
           /\ new.dispatches = old.dispatches /\ new.groups = old.groups
BY DEF LooseRecord

LEMMA FieldsOfGroups ==
    ASSUME db \in LooseRecord, NEW X \in [Group -> LooseGroup]
    PROVE  LET new == [db EXCEPT !.groups = X] IN
           /\ new \in LooseRecord /\ new.groups = X
           /\ new.run = db.run /\ new.request = db.request /\ new.steps = db.steps
           /\ new.dispatches = db.dispatches /\ new.batches = db.batches
BY DEF LooseRecord

LEMMA FieldsOfMoved ==
    ASSUME db \in LooseRecord, NEW s, NEW target \in StepStatuses
    PROVE  LET new == Moved(s, target) IN
           /\ new \in LooseRecord
           /\ new.steps = Turned(db.steps, s, target)
           /\ new.run = db.run /\ new.request = db.request /\ new.batches = db.batches
           /\ new.dispatches = db.dispatches /\ new.groups = db.groups
<1>1. db.steps \in [Step -> StepRecord]
  BY DEF LooseRecord
<1>. QED  BY <1>1, TurnedStep, FieldsOfSteps DEF Moved

LEMMA FieldsOfDispatched ==
    ASSUME NEW old \in LooseRecord, NEW d, NEW target \in DispatchStates
    PROVE  LET new == Dispatched(old, d, target) IN
           /\ new \in LooseRecord
           /\ new.dispatches = Turned(old.dispatches, d, target)
           /\ new.run = old.run /\ new.request = old.request /\ new.steps = old.steps
           /\ new.batches = old.batches /\ new.groups = old.groups
<1>. DEFINE X == Turned(old.dispatches, d, target)
<1>1. X \in [Dispatch -> DispatchRecord]
  BY TurnedDispatch DEF LooseRecord
<1>. HIDE DEF X
<1>2. LET new == [old EXCEPT !.dispatches = X] IN
        /\ new \in LooseRecord /\ new.dispatches = X
        /\ new.run = old.run /\ new.request = old.request /\ new.steps = old.steps
        /\ new.batches = old.batches /\ new.groups = old.groups
  BY <1>1 DEF LooseRecord
<1>. QED  BY <1>2 DEF X, Dispatched

LEMMA FieldsOfGrouped ==
    ASSUME db \in LooseRecord, NEW g, NEW target \in GroupStates
    PROVE  LET new == Grouped(g, target) IN
           /\ new \in LooseRecord
           /\ new.groups = Turned(db.groups, g, target)
           /\ new.run = db.run /\ new.request = db.request /\ new.steps = db.steps
           /\ new.dispatches = db.dispatches /\ new.batches = db.batches
<1>1. db.groups \in [Group -> LooseGroup]
  BY DEF LooseRecord
<1>. QED  BY <1>1, TurnedGroup, FieldsOfGroups DEF Grouped

LEMMA RequestFields ==
    /\ NoRequest \in Requests
    /\ NoRequest.kind = "none" /\ NoRequest.batch = 0 /\ NoRequest.group = 0
    /\ \A s \in Step, kind \in {"reconciliation", "stall_recovery", "escalation"} :
        LET r == [Request(kind) EXCEPT !.step = s] IN
        r \in Requests /\ r.kind = kind /\ r.group = 0 /\ r.step = s
    /\ \A b \in Batch :
        LET r == [Request("batch_reconciliation") EXCEPT !.batch = b] IN
        r \in Requests /\ r.kind = "batch_reconciliation" /\ r.group = 0 /\ r.batch = b
    /\ \A g \in Group :
        LET r == [Request("workspace_reconciliation") EXCEPT !.group = g] IN
        r \in Requests /\ r.kind = "workspace_reconciliation" /\ r.group = g
BY DEF NoRequest, Request, Requests

(* The run and its request. *)
LEMMA FieldsOfWaiting ==
    ASSUME NEW old \in LooseRecord, NEW request \in Requests
    PROVE  LET new == Waiting(old, request) IN
           /\ new \in LooseRecord
           /\ new.run = "WAITING_OPERATOR" /\ new.request = request
           /\ new.steps = old.steps /\ new.dispatches = old.dispatches
           /\ new.batches = old.batches /\ new.groups = old.groups
<1>1. Waiting(old, request) = [old EXCEPT !.run = "WAITING_OPERATOR", !.request = request]
  BY DEF Waiting
<1>. QED  BY <1>1 DEF LooseRecord, RunStatuses

LEMMA FieldsOfRunning ==
    ASSUME NEW old \in LooseRecord
    PROVE  LET new == Running(old) IN
           /\ new \in LooseRecord
           /\ new.run = "RUNNING" /\ new.request = NoRequest
           /\ new.steps = old.steps /\ new.dispatches = old.dispatches
           /\ new.batches = old.batches /\ new.groups = old.groups
<1>. DEFINE r == NoRequest
<1>1. Running(old) = [old EXCEPT !.run = "RUNNING", !.request = r]
  BY DEF Running
<1>2. r \in Requests
  BY RequestFields
<1>. HIDE DEF r
<1>3. LET new == [old EXCEPT !.run = "RUNNING", !.request = r] IN
           /\ new \in LooseRecord
           /\ new.run = "RUNNING" /\ new.request = r
           /\ new.steps = old.steps /\ new.dispatches = old.dispatches
           /\ new.batches = old.batches /\ new.groups = old.groups
  BY <1>2 DEF LooseRecord, RunStatuses
<1>. QED  BY <1>1, <1>3 DEF r
-----------------------------------------------------------------------------
(* Dispatches are numbered. *)
LEMMA DispatchPairs ==
    /\ \A d \in Dispatch : d[1] \in Step /\ d[2] \in 1..MaxAttempts[d[1]] /\ d = <<d[1], d[2]>>
    /\ \A s \in Step : \A n \in 1..MaxAttempts[s] : <<s, n>> \in Dispatch
BY DEF Dispatch

LEMMA NextDispatchIsDispatch ==
    ASSUME db \in LooseRecord, NEW s \in Step, db.steps[s].attempts < MaxAttempts[s]
    PROVE  NextDispatch(s) \in Dispatch
<1>1. db.steps[s].attempts \in Nat /\ MaxAttempts[s] \in Nat
  BY BoundAssumption DEF LooseRecord, StepRecord
<1>. QED  BY <1>1, DispatchPairs DEF NextDispatch

LEMMA CurrentIsDispatch ==
    ASSUME db \in LooseRecord, Counted, NEW s \in Step, db.steps[s].attempts > 0
    PROVE  Current(s) \in Dispatch
<1>1. db.steps[s].attempts \in Nat /\ MaxAttempts[s] \in Nat /\ db.steps[s].attempts <= MaxAttempts[s]
  BY BoundAssumption DEF LooseRecord, StepRecord, Counted, AttemptsOK
<1>. QED  BY <1>1, DispatchPairs DEF Current

SameRun == db'.run = db.run /\ db'.request = db.request

(* The record gets new dispatches for the children, and nothing else. *)
PreparedOnly(b, g, kids) ==
    /\ db' \in LooseRecord
    /\ db'.groups = db.groups
    /\ SameRun
    /\ \A s \in Step :
         /\ s \notin kids => db'.steps[s] = db.steps[s]
         /\ s \in kids => /\ db'.steps[s].state = "EXECUTING"
                          /\ db'.steps[s].attempts = db.steps[s].attempts + 1
                          /\ db'.steps[s].stalls = db.steps[s].stalls
    /\ \A d \in Dispatch :
         IF d[1] \in kids /\ d = NextDispatch(d[1])
         THEN /\ db'.dispatches[d].state = "PREPARED"
              /\ db'.dispatches[d].batch = b /\ db'.dispatches[d].group = g
         ELSE db'.dispatches[d] = db.dispatches[d]
    /\ \A c \in Batch :
         IF c = b THEN /\ db'.batches[c].children = {NextDispatch(s) : s \in kids}
                       /\ db'.batches[c].failed = {}
         ELSE db'.batches[c] = db.batches[c]

LEMMA PrepareEffect ==
    ASSUME Shape,
           NEW b \in Batch \cup {0}, NEW g \in Group \cup {0}, NEW kids \in SUBSET Step,
           \A s \in kids : db.steps[s].attempts < MaxAttempts[s],
           NEW who, Save(who, Prepared(b, g, kids))
    PROVE  PreparedOnly(b, g, kids)
<1>0. db \in LooseRecord
  BY DEF Shape
<1>. DEFINE X == [d \in Dispatch |->
                    IF d \in {NextDispatch(s) : s \in kids}
                    THEN [state |-> "PREPARED", batch |-> b, group |-> g]
                    ELSE db.dispatches[d]]
            Y == [s \in Step |->
                    IF s \in kids
                    THEN [db.steps[s] EXCEPT !.state = "EXECUTING", !.attempts = @ + 1]
                    ELSE db.steps[s]]
            Z == [c \in Batch |->
                    IF c = b
                    THEN [state |-> "PREPARED", children |-> {NextDispatch(s) : s \in kids},
                          failed |-> {}]
                    ELSE db.batches[c]]
<1>1. X \in [Dispatch -> DispatchRecord]
  BY <1>0 DEF LooseRecord, DispatchRecord, DispatchStates
<1>2. Y \in [Step -> StepRecord]
  <2>1. ASSUME NEW r \in StepRecord
        PROVE  [r EXCEPT !.state = "EXECUTING", !.attempts = @ + 1] \in StepRecord
    <3>. DEFINE n == r.attempts + 1
    <3>1. n \in Nat
      BY DEF StepRecord
    <3>. HIDE DEF n
    <3>2. [r EXCEPT !.state = "EXECUTING", !.attempts = n] \in StepRecord
      BY <3>1 DEF StepRecord, StepStatuses
    <3>. QED  BY <3>2 DEF n
  <2>2. db.steps \in [Step -> StepRecord]
    BY <1>0 DEF LooseRecord
  <2>. QED  BY <2>1, <2>2
<1>3. Z \in [Batch -> BatchRecord]
  <2>1. {NextDispatch(s) : s \in kids} \subseteq Dispatch
    BY <1>0, NextDispatchIsDispatch
  <2>. QED  BY <1>0, <2>1 DEF LooseRecord, BatchRecord, BatchStates
<1>4. db' = [db EXCEPT !.dispatches = X, !.steps = Y, !.batches = Z]
  BY DEF Save, Prepared
<1>5. ASSUME NEW s \in kids
      PROVE  /\ Y[s].state = "EXECUTING" /\ Y[s].attempts = db.steps[s].attempts + 1
             /\ Y[s].stalls = db.steps[s].stalls
  <2>1. db.steps[s] \in StepRecord /\ s \in Step
    BY <1>0 DEF LooseRecord
  <2>2. Y[s] = [db.steps[s] EXCEPT !.state = "EXECUTING", !.attempts = @ + 1]
    BY <2>1
  <2>. QED  BY <2>1, <2>2 DEF StepRecord
<1>6. \A s \in Step : s \notin kids => Y[s] = db.steps[s]
  OBVIOUS
<1>7. ASSUME NEW d \in Dispatch
      PROVE  IF d[1] \in kids /\ d = NextDispatch(d[1])
             THEN X[d].state = "PREPARED" /\ X[d].batch = b /\ X[d].group = g
             ELSE X[d] = db.dispatches[d]
  <2>1. d \in {NextDispatch(s) : s \in kids} <=> d[1] \in kids /\ d = NextDispatch(d[1])
    BY DEF NextDispatch
  <2>. QED  BY <2>1
<1>8. \A c \in Batch : IF c = b THEN /\ Z[c].children = {NextDispatch(s) : s \in kids}
                                     /\ Z[c].failed = {}
                       ELSE Z[c] = db.batches[c]
  OBVIOUS
<1>. HIDE DEF X, Y, Z
<1>9. LET new == [db EXCEPT !.dispatches = X, !.steps = Y, !.batches = Z] IN
      /\ new \in LooseRecord
      /\ new.run = db.run /\ new.request = db.request /\ new.groups = db.groups
      /\ new.dispatches = X /\ new.steps = Y /\ new.batches = Z
  BY <1>0, <1>1, <1>2, <1>3 DEF LooseRecord
<1>. QED  BY <1>4, <1>5, <1>6, <1>7, <1>8, <1>9 DEF PreparedOnly, SameRun

LEMMA FieldsOfJoined ==
    ASSUME db \in LooseRecord, NEW b \in Batch
    PROVE  LET new == Joined(b) IN
           /\ new \in LooseRecord
           /\ new.run = db.run /\ new.request = db.request /\ new.groups = db.groups
           /\ new.steps = db.steps /\ new.dispatches = db.dispatches
           /\ \A c \in Batch : new.batches[c].children = db.batches[c].children
           /\ \A c \in Batch \ {b} : new.batches[c] = db.batches[c]
           /\ new.batches[b].failed = FailedChildren(b)
<1>. DEFINE state == IF FailedChildren(b) = {} THEN "JOINED" ELSE "FAILED"
            failed == FailedChildren(b)
            Z == [db.batches EXCEPT ![b] = [db.batches[b] EXCEPT !.state = state, !.failed = failed]]
<1>1. state \in BatchStates /\ failed \subseteq Dispatch
  BY DEF BatchStates, FailedChildren, LooseRecord, BatchRecord
<1>2. Joined(b) = [db EXCEPT !.batches = Z]
  BY DEF Joined
<1>. HIDE DEF state, failed
<1>3. LET r == [db.batches[b] EXCEPT !.state = state, !.failed = failed] IN
      r \in BatchRecord /\ r.children = db.batches[b].children /\ r.failed = failed
  BY <1>1 DEF LooseRecord, BatchRecord
<1>4. db.batches \in [Batch -> BatchRecord]
  BY DEF LooseRecord
<1>5. /\ Z \in [Batch -> BatchRecord]
      /\ \A c \in Batch : Z[c].children = db.batches[c].children
      /\ \A c \in Batch \ {b} : Z[c] = db.batches[c]
      /\ Z[b].failed = failed
  BY <1>3, <1>4
<1>. HIDE DEF Z
<1>. QED  BY <1>2, <1>5, FieldsOfBatches DEF failed
-----------------------------------------------------------------------------
(* What the step of a thread does to the record, to its dispatch and to    *)
(* itself; the dispatch is the current one of the step.                    *)
LEMMA WorkFrame ==
    ASSUME Shape, NEW s \in Step, Work(s)
    PROVE  /\ op' = op /\ barrier' = barrier
           /\ \A t \in Step \ {s} : thread'[t] = thread[t]
           /\ thread[s] # "idle" /\ thread'[s] # "idle" /\ thread' \in [Step -> ThreadStates]
BY DEF Work, Launch, CommitWork, RetryStalled, ApplyCompleted, ApplyBlocked, PersistForwarded,
       PersistEscalated, FailDispatch, FailStep, AskReconciliation, StallDispatch, StallStep,
       AskStallRecovery, HandlerRaises, Steps, Shape, ThreadStates, HandlerStates

(* Only the state of the dispatch. *)
Reports(s, target) ==
    /\ db' \in LooseRecord
    /\ db'.dispatches = Turned(db.dispatches, Current(s), target)
    /\ db'.groups = db.groups
    /\ \A b \in Batch : /\ db'.batches[b].children = db.batches[b].children
                        /\ db'.batches[b].failed = db.batches[b].failed

Asks(s) ==
    /\ db.run = "RUNNING" /\ db'.run = "WAITING_OPERATOR"
    /\ db'.request # NoRequest /\ db'.request.group = 0
    /\ db'.request.kind # "workspace_reconciliation"

LEMMA LaunchEffect ==
    ASSUME Shape, NEW s \in Step, Launch(s)
    PROVE  /\ Reports(s, "RUNNING") /\ db'.steps = db.steps /\ SameRun
           /\ thread[s] = "queued" /\ thread'[s] = "working"
<1>. DEFINE old == Dispatched(db, Current(s), "RUNNING")
            Z == Turned(db.batches, db.dispatches[Current(s)].batch, "RUNNING")
<1>1. "RUNNING" \in DispatchStates /\ "RUNNING" \in BatchStates
  BY DEF DispatchStates, BatchStates
<1>2. /\ old \in LooseRecord /\ old.dispatches = Turned(db.dispatches, Current(s), "RUNNING")
      /\ old.run = db.run /\ old.request = db.request /\ old.steps = db.steps
      /\ old.batches = db.batches /\ old.groups = db.groups
  BY <1>1, FieldsOfDispatched DEF Shape
<1>3. /\ Z \in [Batch -> BatchRecord]
      /\ \A b \in Batch : /\ Z[b].children = db.batches[b].children
                          /\ Z[b].failed = db.batches[b].failed
  BY <1>1, TurnedBatch DEF Shape, LooseRecord
<1>4. db' = [old EXCEPT !.batches = Z] /\ thread' = [thread EXCEPT ![s] = "working"]
      /\ thread[s] = "queued"
  BY DEF Launch, LastSave, Steps
<1>. HIDE DEF old, Z
<1>5. LET new == [old EXCEPT !.batches = Z] IN
        /\ new \in LooseRecord /\ new.batches = Z
        /\ new.run = old.run /\ new.request = old.request /\ new.steps = old.steps
        /\ new.dispatches = old.dispatches /\ new.groups = old.groups
  BY <1>2, <1>3, FieldsOfBatches
<1>6. thread'[s] = "working"
  BY <1>4 DEF Shape
<1>. QED  BY <1>2, <1>3, <1>4, <1>5, <1>6 DEF Reports, SameRun

(* The first saves of the handlers. *)
LEMMA ReportEffect ==
    ASSUME Shape, NEW s \in Step, NEW target \in DispatchStates,
           NEW who, Save(who, Dispatched(db, Current(s), target))
    PROVE  Reports(s, target) /\ db'.steps = db.steps /\ SameRun
BY FieldsOfDispatched DEF Save, Shape, Reports, SameRun

LEMMA OutcomeEffect ==
    ASSUME Shape, NEW s \in Step, NEW target \in DispatchStates, NEW outcome \in StepStatuses,
           NEW who, Save(who, Dispatched(Moved(s, outcome), Current(s), target))
    PROVE  Reports(s, target) /\ db'.steps = Turned(db.steps, s, outcome) /\ SameRun
<1>1. LET m == Moved(s, outcome) IN
        /\ m \in LooseRecord /\ m.steps = Turned(db.steps, s, outcome)
        /\ m.run = db.run /\ m.request = db.request /\ m.batches = db.batches
        /\ m.dispatches = db.dispatches /\ m.groups = db.groups
  BY FieldsOfMoved DEF Shape
<1>. QED  BY <1>1, FieldsOfDispatched DEF Save, Reports, SameRun

(* The second ones: the step, or a request. *)
SameDispatches ==
    /\ db' \in LooseRecord
    /\ db'.dispatches = db.dispatches /\ db'.groups = db.groups /\ db'.batches = db.batches

LEMMA MoveEffect ==
    ASSUME Shape, NEW s, NEW outcome \in StepStatuses, NEW who, Save(who, Moved(s, outcome))
    PROVE  SameDispatches /\ db'.steps = Turned(db.steps, s, outcome) /\ SameRun
BY FieldsOfMoved DEF Save, Shape, SameDispatches, SameRun

LEMMA AskEffect ==
    ASSUME Shape, NEW s \in Step, NEW kind \in {"reconciliation", "stall_recovery", "escalation"},
           NEW who, Save(who, Waiting(db, [Request(kind) EXCEPT !.step = s])), db.run = "RUNNING"
    PROVE  SameDispatches /\ db'.steps = db.steps /\ Asks(s)
<1>. DEFINE r == [Request(kind) EXCEPT !.step = s]
<1>1. r \in Requests /\ r.kind = kind /\ r.group = 0 /\ NoRequest.kind = "none"
  BY DEF Request, Requests, NoRequest
<1>2. db' = Waiting(db, r)
  BY DEF Save
<1>. HIDE DEF r
<1>. QED  BY <1>1, <1>2, FieldsOfWaiting DEF Shape, SameDispatches, Asks

LEMMA EscalationEffect ==
    ASSUME Shape, NEW s \in Step, PersistEscalated(s)
    PROVE  /\ Reports(s, "FORWARDED") /\ db'.steps = db.steps /\ Asks(s)
           /\ thread[s] = "escalating" /\ thread'[s] = "done"
<1>. DEFINE r == [Request("escalation") EXCEPT !.step = s]
            old == Dispatched(db, Current(s), "FORWARDED")
<1>1. r \in Requests /\ r.kind = "escalation" /\ r.group = 0 /\ NoRequest.kind = "none"
  BY RequestFields
<1>2. /\ old \in LooseRecord /\ old.dispatches = Turned(db.dispatches, Current(s), "FORWARDED")
      /\ old.steps = db.steps /\ old.batches = db.batches /\ old.groups = db.groups
  BY FieldsOfDispatched DEF Shape, DispatchStates
<1>3. db' = Waiting(old, r) /\ db.run = "RUNNING"
  BY DEF PersistEscalated, Save
<1>4. thread[s] = "escalating" /\ thread'[s] = "done"
  BY DEF PersistEscalated, Steps, Shape
<1>. HIDE DEF r, old
<1>. QED  BY <1>1, <1>2, <1>3, <1>4, FieldsOfWaiting DEF Reports, Asks

LEMMA StallEffect ==
    ASSUME Shape, NEW s \in Step, StallStep(s)
    PROVE  /\ SameDispatches /\ SameRun
           /\ \A t \in Step \ {s} : db'.steps[t] = db.steps[t]
           /\ db'.steps[s].state \in {"READY", "BLOCKED"}
           /\ db'.steps[s].attempts = db.steps[s].attempts
           /\ db'.steps[s].stalls = db.steps[s].stalls + 1
           /\ thread[s] = "stalling" /\ thread'[s] \in {"retrying", "stall_asking"}
<1>. DEFINE state == IF RetryAllowed(s) THEN "READY" ELSE "BLOCKED"
            n == db.steps[s].stalls + 1
            X == [db.steps EXCEPT ![s] = [db.steps[s] EXCEPT !.state = state, !.stalls = n]]
<1>1. db.steps \in [Step -> StepRecord] /\ db.steps[s].stalls \in Nat
  BY DEF Shape, LooseRecord, StepRecord
<1>2. n \in Nat /\ state \in {"READY", "BLOCKED"} /\ state \in StepStatuses
  BY <1>1 DEF StepStatuses
<1>3. db' = [db EXCEPT !.steps = X] /\ thread[s] = "stalling"
      /\ thread'[s] \in {"retrying", "stall_asking"}
  BY DEF StallStep, Save, Steps, Shape
<1>. HIDE DEF state, n
<1>4. LET r == [db.steps[s] EXCEPT !.state = state, !.stalls = n] IN
      r \in StepRecord /\ r.state = state /\ r.stalls = n /\ r.attempts = db.steps[s].attempts
  BY <1>1, <1>2 DEF StepRecord
<1>5. /\ X \in [Step -> StepRecord] /\ \A t \in Step \ {s} : X[t] = db.steps[t]
      /\ X[s].state = state /\ X[s].stalls = n /\ X[s].attempts = db.steps[s].attempts
  BY <1>1, <1>4
<1>. HIDE DEF X
<1>6. SameDispatches /\ SameRun /\ db'.steps = X
  BY <1>3, <1>5, FieldsOfSteps DEF Shape, SameDispatches, SameRun
<1>. QED  BY <1>2, <1>3, <1>5, <1>6 DEF n

(* A retry: a dispatch of its own, in the group of the step if it has one. *)
LEMMA GroupForStep ==
    ASSUME NEW s
    PROVE  /\ GroupFor(s) \in Group \cup {0}
           /\ GroupFor(s) # 0 => /\ State(GroupFor(s)) \in {"ACTIVE", "INTEGRATING"}
                                 /\ s \in db.groups[GroupFor(s)].children
           /\ GroupFor(s) = 0 => \A g \in Group : State(g) \in {"ACTIVE", "INTEGRATING"} =>
                                    s \notin db.groups[g].children
BY DEF GroupFor, Group, State

LEMMA RetryEffect ==
    ASSUME Shape, NEW s \in Step, RetryStalled(s)
    PROVE  /\ thread[s] = "retrying"
           /\ \/ /\ MayRetry(s) /\ thread'[s] = "queued"
                 /\ PreparedOnly(0, GroupFor(s), {s})
                 /\ db.steps[s].attempts < MaxAttempts[s] /\ db.steps[s].state = "READY"
              \/ thread'[s] = "raised" /\ db' = db
<1>1. CASE MayRetry(s)
  <2>1. db.steps[s].attempts < MaxAttempts[s] /\ db.steps[s].state = "READY"
    BY <1>1 DEF MayRetry, BatchValid
  <2>2. Save(s, Prepared(0, GroupFor(s), {s}))
    BY <1>1 DEF RetryStalled
  <2>3. thread[s] = "retrying" /\ thread'[s] = "queued"
    BY <1>1 DEF RetryStalled, Steps, Shape
  <2>. QED  BY <1>1, <2>1, <2>2, <2>3, GroupForStep, PrepareEffect
<1>2. CASE ~MayRetry(s)
  BY <1>2 DEF RetryStalled, Steps, Shape
<1>. QED  BY <1>1, <1>2

(* The steps of a thread, by what they do. *)
WorkRows(s) ==
    \/ Launch(s)
    \/ RetryStalled(s)
    \/ StallStep(s)
    \/ /\ db' = db
       /\ \/ CommitWork(s)
          \/ HandlerRaises(s)
    \/ /\ Reports(s, "COMPLETED") /\ SameRun
       /\ \/ ApplyCompleted(s) /\ db'.steps = Turned(db.steps, s, "ACCEPTED")
          \/ ApplyBlocked(s) /\ db'.steps = Turned(db.steps, s, "BLOCKED")
    \/ /\ Reports(s, "FORWARDED") /\ db'.steps = db.steps
       /\ \/ PersistForwarded(s) /\ SameRun
          \/ PersistEscalated(s) /\ Asks(s)
    \/ /\ Reports(s, "FAILED") /\ db'.steps = db.steps /\ SameRun
       /\ FailDispatch(s) \/ StallDispatch(s)
    \/ /\ SameDispatches
       /\ \/ FailStep(s) /\ db'.steps = Turned(db.steps, s, "BLOCKED") /\ SameRun
          \/ (AskReconciliation(s) \/ AskStallRecovery(s)) /\ db'.steps = db.steps /\ Asks(s)

LEMMA WorkByRows ==
    ASSUME Shape, NEW s \in Step, Work(s)
    PROVE  WorkRows(s)
<1>1. ASSUME ApplyCompleted(s) PROVE WorkRows(s)
  BY <1>1, OutcomeEffect DEF ApplyCompleted, WorkRows, DispatchStates, StepStatuses
<1>2. ASSUME ApplyBlocked(s) PROVE WorkRows(s)
  BY <1>2, OutcomeEffect DEF ApplyBlocked, WorkRows, DispatchStates, StepStatuses
<1>3. ASSUME PersistForwarded(s) PROVE WorkRows(s)
  BY <1>3, ReportEffect DEF PersistForwarded, WorkRows, DispatchStates
<1>4. ASSUME PersistEscalated(s) PROVE WorkRows(s)
  BY <1>4, EscalationEffect DEF WorkRows
<1>5. ASSUME FailDispatch(s) \/ StallDispatch(s) PROVE WorkRows(s)
  BY <1>5, ReportEffect DEF FailDispatch, StallDispatch, WorkRows, DispatchStates
<1>6. ASSUME FailStep(s) PROVE WorkRows(s)
  BY <1>6, MoveEffect DEF FailStep, WorkRows, StepStatuses
<1>7. ASSUME AskReconciliation(s) \/ AskStallRecovery(s) PROVE WorkRows(s)
  BY <1>7, AskEffect DEF AskReconciliation, AskStallRecovery, WorkRows
<1>8. ASSUME CommitWork(s) \/ HandlerRaises(s) PROVE WorkRows(s)
  BY <1>8 DEF CommitWork, HandlerRaises, WorkRows
<1>. QED  BY <1>1, <1>2, <1>3, <1>4, <1>5, <1>6, <1>7, <1>8 DEF Work, WorkRows
-----------------------------------------------------------------------------
(* What the other saves do. *)
GroupsOnly ==
    /\ db' \in LooseRecord /\ SameRun
    /\ db'.steps = db.steps /\ db'.dispatches = db.dispatches /\ db'.batches = db.batches

RunOnly ==
    /\ db' \in LooseRecord
    /\ db'.steps = db.steps /\ db'.dispatches = db.dispatches /\ db'.batches = db.batches
    /\ db'.groups = db.groups

LEMMA GroupedEffect ==
    ASSUME Shape, NEW g, NEW target \in GroupStates, db' = Grouped(g, target)
    PROVE  GroupsOnly /\ db'.groups = Turned(db.groups, g, target)
BY FieldsOfGrouped DEF Shape, GroupsOnly, SameRun

LEMMA PlanEffect ==
    ASSUME Shape, NEW g \in Group, NEW b \in Batch, NEW kids \in SUBSET Step, PlanGroup(g, b, kids)
    PROVE  /\ GroupsOnly
           /\ db'.groups[g].state = "PREPARED" /\ db'.groups[g].children = kids
           /\ db'.groups[g].base = source[Shared]
           /\ \A h \in Group \ {g} : db'.groups[h] = db.groups[h]
<1>. DEFINE r == [state |-> "PREPARED", children |-> kids, base |-> source[Shared],
                  promoted |-> FALSE]
            X == [db.groups EXCEPT ![g] = r]
<1>1. r \in LooseGroup
  BY DEF LooseGroup, GroupStates, Shape, Repository
<1>2. db' = [db EXCEPT !.groups = X]
  BY DEF PlanGroup, Save
<1>. HIDE DEF r
<1>3. X \in [Group -> LooseGroup] /\ X[g] = r /\ \A h \in Group \ {g} : X[h] = db.groups[h]
  BY <1>1 DEF Shape, LooseRecord
<1>. HIDE DEF X
<1>4. GroupsOnly /\ db'.groups = X
  BY <1>2, <1>3, FieldsOfGroups DEF Shape, GroupsOnly, SameRun
<1>. QED  BY <1>3, <1>4 DEF r

LEMMA PromotedEffect ==
    ASSUME Shape, SavePromoted
    PROVE  /\ GroupsOnly
           /\ \A g \in Group : /\ db'.groups[g].state = db.groups[g].state
                               /\ db'.groups[g].children = db.groups[g].children
                               /\ db'.groups[g].base = db.groups[g].base
<1>. DEFINE g == op[Execute].group
            X == [db.groups EXCEPT ![g] = [@ EXCEPT !.promoted = TRUE]]
<1>1. db' = [db EXCEPT !.groups = X]
  BY DEF SavePromoted, Save
<1>2. db.groups \in [Group -> LooseGroup]
  BY DEF Shape, LooseRecord
<1>. HIDE DEF g
<1>3. /\ X \in [Group -> LooseGroup]
      /\ \A h \in Group : /\ X[h].state = db.groups[h].state
                          /\ X[h].children = db.groups[h].children
                          /\ X[h].base = db.groups[h].base
  BY <1>2 DEF LooseGroup
<1>. HIDE DEF X
<1>. QED  BY <1>1, <1>3, FieldsOfGroups DEF Shape, GroupsOnly, SameRun

LEMMA JoinEffect ==
    ASSUME Shape, NEW b \in Batch, db' = Joined(b)
    PROVE  /\ db' \in LooseRecord /\ SameRun
           /\ db'.steps = db.steps /\ db'.dispatches = db.dispatches /\ db'.groups = db.groups
           /\ \A c \in Batch : db'.batches[c].children = db.batches[c].children
           /\ \A c \in Batch \ {b} : db'.batches[c] = db.batches[c]
           /\ db'.batches[b].failed = FailedChildren(b)
BY FieldsOfJoined DEF Shape, SameRun

LEMMA AskBatchEffect ==
    ASSUME Shape, NEW b \in Batch \cup {0}, db' = AskBatch(b)
    PROVE  /\ RunOnly /\ db'.run = "WAITING_OPERATOR"
           /\ db'.request.kind = "batch_reconciliation" /\ db'.request.group = 0
           /\ db'.request # NoRequest
<1>. DEFINE r == [Request("batch_reconciliation") EXCEPT !.batch = b]
<1>1. r \in Requests /\ r.kind = "batch_reconciliation" /\ r.group = 0 /\ NoRequest.kind = "none"
  BY DEF Request, Requests, NoRequest
<1>2. db' = Waiting(db, r)
  BY DEF AskBatch
<1>. HIDE DEF r
<1>. QED  BY <1>1, <1>2, FieldsOfWaiting DEF Shape, RunOnly

LEMMA AskGroupEffect ==
    ASSUME Shape, AskWorkspaceReconciliation, op[Execute].group # 0
    PROVE  /\ RunOnly /\ db'.run = "WAITING_OPERATOR"
           /\ db'.request.kind = "workspace_reconciliation"
           /\ db'.request.group = op[Execute].group
           /\ db'.request # NoRequest
<1>. DEFINE g == op[Execute].group
            r == [Request("workspace_reconciliation") EXCEPT !.group = g]
<1>1. g \in Group
  BY DEF Shape, ProcessRecord, Command
<1>2. r \in Requests /\ r.kind = "workspace_reconciliation" /\ r.group = g
      /\ NoRequest.kind = "none"
  BY <1>1 DEF Request, Requests, NoRequest
<1>3. db' = Waiting(db, r)
  BY DEF AskWorkspaceReconciliation, Save
<1>. HIDE DEF r
<1>. QED  BY <1>2, <1>3, FieldsOfWaiting DEF Shape, RunOnly

LEMMA CompleteEffect ==
    ASSUME Shape, Complete
    PROVE  RunOnly /\ db'.run = "SUCCEEDED" /\ db'.request = db.request
<1>1. db' = [db EXCEPT !.run = "SUCCEEDED"]
  BY DEF Complete, LastSave
<1>. QED  BY <1>1 DEF Shape, RunOnly, LooseRecord, RunStatuses

LEMMA HaltEffect ==
    ASSUME Shape, AnswerHalt
    PROVE  RunOnly /\ db'.run = "HALTED" /\ db'.request = NoRequest
<1>. DEFINE r == NoRequest
<1>1. db' = [db EXCEPT !.run = "HALTED", !.request = r]
  BY DEF AnswerHalt, LastSave
<1>2. r \in Requests
  BY RequestFields
<1>. HIDE DEF r
<1>3. RunOnly /\ db'.run = "HALTED" /\ db'.request = r
  BY <1>1, <1>2 DEF Shape, RunOnly, LooseRecord, RunStatuses
<1>. QED  BY <1>3 DEF r

LEMMA AnswerWorkspaceEffect ==
    ASSUME Shape, AnswerWorkspace
    PROVE  RunOnly /\ db'.run = "RUNNING" /\ db'.request = NoRequest
BY FieldsOfRunning DEF AnswerWorkspace, LastSave, Shape, RunOnly

(* The answers that let steps run again. *)
Readied ==
    /\ db' \in LooseRecord
    /\ db'.run = "RUNNING" /\ db'.request = NoRequest
    /\ db'.dispatches = db.dispatches /\ db'.batches = db.batches /\ db'.groups = db.groups
    /\ \A s \in Step :
        /\ db'.steps[s].attempts = db.steps[s].attempts
        /\ db'.steps[s].stalls = db.steps[s].stalls
        /\ \/ db'.steps[s].state = db.steps[s].state
           \/ db.steps[s].state = "BLOCKED" /\ db'.steps[s].state = "READY"

LEMMA AnswerStepEffect ==
    ASSUME Shape, AnswerStep
    PROVE  Readied
<1>. DEFINE s == db.request.step
            m == Moved(s, "READY")
<1>1. /\ m \in LooseRecord /\ m.steps = Turned(db.steps, s, "READY")
      /\ m.batches = db.batches /\ m.dispatches = db.dispatches /\ m.groups = db.groups
  BY FieldsOfMoved DEF Shape, StepStatuses
<1>2. db' = Running(m) /\ db.steps[s].state = "BLOCKED"
  BY DEF AnswerStep, LastSave
<1>3. \A t \in Step : /\ m.steps[t].state = IF t = s THEN "READY" ELSE db.steps[t].state
                      /\ m.steps[t].attempts = db.steps[t].attempts
                      /\ m.steps[t].stalls = db.steps[t].stalls
  BY <1>1, TurnedStep DEF Shape, LooseRecord, StepStatuses
<1>. HIDE DEF s, m
<1>. QED  BY <1>1, <1>2, <1>3, FieldsOfRunning DEF Readied

LEMMA AnswerBatchEffect ==
    ASSUME Shape, AnswerBatch
    PROVE  Readied
<1>. DEFINE b == db.request.batch
            affected == {d[1] : d \in db.batches[b].failed}
            X == [s \in Step |-> IF s \in affected THEN [db.steps[s] EXCEPT !.state = "READY"]
                                 ELSE db.steps[s]]
            m == [db EXCEPT !.steps = X]
<1>1. db' = Running(m)
  BY DEF AnswerBatch, LastSave
<1>2. \A s \in affected : db.steps[s].state = "BLOCKED"
  BY DEF AnswerBatch, Reconcilable
<1>3. db.steps \in [Step -> StepRecord]
  BY DEF Shape, LooseRecord
<1>. HIDE DEF affected
<1>4. \A r \in StepRecord : LET q == [r EXCEPT !.state = "READY"] IN
        q \in StepRecord /\ q.state = "READY" /\ q.attempts = r.attempts /\ q.stalls = r.stalls
  BY DEF StepRecord, StepStatuses
<1>5. /\ X \in [Step -> StepRecord]
      /\ \A s \in Step : /\ X[s].state = IF s \in affected THEN "READY" ELSE db.steps[s].state
                         /\ X[s].attempts = db.steps[s].attempts
                         /\ X[s].stalls = db.steps[s].stalls
  BY <1>3, <1>4
<1>. HIDE DEF X
<1>6. /\ m \in LooseRecord /\ m.steps = X
      /\ m.batches = db.batches /\ m.dispatches = db.dispatches /\ m.groups = db.groups
  BY <1>5, FieldsOfSteps DEF Shape
<1>. HIDE DEF m
<1>. QED  BY <1>1, <1>2, <1>5, <1>6, FieldsOfRunning DEF Readied

LEMMA AcknowledgeEffect ==
    ASSUME Shape, NEW d, Acknowledge(d)
    PROVE  /\ db' \in LooseRecord /\ SameRun
           /\ db'.dispatches = Turned(db.dispatches, d, "ACKNOWLEDGED")
           /\ db'.steps = db.steps /\ db'.batches = db.batches /\ db'.groups = db.groups
BY FieldsOfDispatched DEF Acknowledge, Save, Shape, SameRun, DispatchStates

(* What recover does with a dispatch that was interrupted, if anything. *)
Interrupted(d) ==
    /\ db' \in LooseRecord
    /\ d \notin workers
    /\ \/ db'.dispatches = Turned(db.dispatches, d, "ABANDONED")
       \/ db'.dispatches = Turned(db.dispatches, d, "FAILED")
    /\ db'.steps = Turned(db.steps, d[1], "BLOCKED")
    /\ db'.batches = db.batches /\ db'.groups = db.groups
    /\ SameRun \/ Asks(d[1])

LEMMA InterruptedEffect ==
    ASSUME Shape, NEW d \in Dispatch, RecoverInterrupted(d)
    PROVE  /\ db.dispatches[d].state \in InFlightStates
           /\ \/ db' = db /\ Recovered(d, {})
              \/ Interrupted(d) /\ Recovered(d, {d[1]})
<1>. DEFINE s == d[1]
            target == IF db.dispatches[d].state = "PREPARED" THEN "ABANDONED" ELSE "FAILED"
            m == Moved(s, "BLOCKED")
            new == Dispatched(m, d, target)
            r == [Request("reconciliation") EXCEPT !.step = s]
            idle == d \in workers \/ (db.dispatches[d].batch = 0 /\ db.run # "RUNNING")
<1>1. db.dispatches[d].state \in InFlightStates
  BY DEF RecoverInterrupted
<1>2. CASE idle
  <2>1. Recovered(d, {}) /\ UNCHANGED <<db, fresh>>
    BY <1>2, Zenon DEF RecoverInterrupted
  <2>. QED  BY <1>1, <2>1
<1>3. CASE ~idle
  <2>1. /\ m \in LooseRecord /\ m.steps = Turned(db.steps, s, "BLOCKED")
        /\ m.run = db.run /\ m.request = db.request
        /\ m.batches = db.batches /\ m.dispatches = db.dispatches /\ m.groups = db.groups
    BY FieldsOfMoved DEF Shape, StepStatuses
  <2>2. target \in {"ABANDONED", "FAILED"} /\ target \in DispatchStates
    BY DEF DispatchStates
  <2>. HIDE DEF m, target
  <2>3. /\ new \in LooseRecord /\ new.dispatches = Turned(db.dispatches, d, target)
        /\ new.run = db.run /\ new.request = db.request
        /\ new.steps = Turned(db.steps, s, "BLOCKED")
        /\ new.batches = db.batches /\ new.groups = db.groups
    BY <2>1, <2>2, FieldsOfDispatched
  <2>4. /\ db' = IF db.dispatches[d].batch = 0 THEN Waiting(new, r) ELSE new
        /\ d \notin workers /\ Recovered(d, {s})
        /\ db.dispatches[d].batch = 0 => db.run = "RUNNING"
    BY <1>3 DEF RecoverInterrupted, LastSave, m, target
  <2>5. r \in Requests /\ r.kind = "reconciliation" /\ r.group = 0 /\ NoRequest.kind = "none"
    BY DispatchPairs DEF Request, Requests, NoRequest
  <2>. HIDE DEF new, r
  <2>6. CASE db.dispatches[d].batch = 0
    BY <1>1, <2>2, <2>3, <2>4, <2>5, <2>6, FieldsOfWaiting DEF Interrupted, Asks
  <2>7. CASE db.dispatches[d].batch # 0
    BY <1>1, <2>2, <2>3, <2>4, <2>7 DEF Interrupted, SameRun
  <2>. QED  BY <2>6, <2>7
<1>. QED  BY <1>2, <1>3
-----------------------------------------------------------------------------
(* How the processes go on. *)
Others(a) == \A b \in Command \ {a} : op'[b] = op[b]

Processes == op' \in [Command -> ProcessRecord]

(* Everything but where it is, and what is left to do. *)
Keeps(a) ==
    /\ op'[a].group = op[a].group /\ op'[a].force = op[a].force
    /\ op'[a].batch = op[a].batch /\ op'[a].kids = op[a].kids

Walks(a, pc) ==
    /\ Processes /\ Others(a) /\ Keeps(a)
    /\ op'[a].pc = pc
    /\ op'[a].steps = op[a].steps /\ op'[a].dispatches = op[a].dispatches
    /\ op'[a].failed = op[a].failed

(* The rest of its steps, or of its steps at another place. *)
Goes(a, pc, steps) ==
    /\ Processes /\ Others(a) /\ Keeps(a)
    /\ op'[a].pc = pc /\ op'[a].steps = steps
    /\ op'[a].dispatches = op[a].dispatches

Stops(a) == Processes /\ Others(a) /\ op'[a] = Down

LEMMA DownFields ==
    /\ Down \in ProcessRecord
    /\ Down.pc = "down" /\ Down.group = 0 /\ Down.force = FALSE /\ Down.batch = 0
    /\ Down.kids = {} /\ Down.steps = {} /\ Down.dispatches = {} /\ Down.failed = FALSE
BY DEF Down, ProcessRecord, CommandStates

LEMMA ProcessChanges ==
    ASSUME Shape, NEW a \in Command, NEW r \in ProcessRecord, op' = [op EXCEPT ![a] = r]
    PROVE  Processes /\ Others(a) /\ op'[a] = r
BY DEF Shape, Processes, Others

LEMMA GotoEffect ==
    ASSUME Shape, NEW a \in Command, NEW pc \in CommandStates, Goto(a, pc)
    PROVE  Walks(a, pc)
<1>. DEFINE r == [op[a] EXCEPT !.pc = pc]
<1>1. op' = [op EXCEPT ![a] = r]
  BY DEF Goto
<1>2. /\ r \in ProcessRecord /\ r.pc = pc /\ r.group = op[a].group /\ r.force = op[a].force
      /\ r.batch = op[a].batch /\ r.kids = op[a].kids /\ r.steps = op[a].steps
      /\ r.dispatches = op[a].dispatches /\ r.failed = op[a].failed
  BY DEF Shape, ProcessRecord
<1>. HIDE DEF r
<1>. QED  BY <1>1, <1>2, ProcessChanges DEF Walks, Keeps

LEMMA EndsEffect ==
    ASSUME Shape, NEW a \in Command, Ends(a)
    PROVE  Stops(a)
BY DownFields, ProcessChanges DEF Ends, Stops

LEMMA StepsEffect ==
    ASSUME Shape, NEW a \in Command, NEW X \in SUBSET Place, op' = [op EXCEPT ![a].steps = X]
    PROVE  Goes(a, op[a].pc, X)
<1>. DEFINE r == [op[a] EXCEPT !.steps = X]
<1>1. op' = [op EXCEPT ![a] = r]
  OBVIOUS
<1>2. /\ r \in ProcessRecord /\ r.pc = op[a].pc /\ r.group = op[a].group
      /\ r.force = op[a].force /\ r.batch = op[a].batch /\ r.kids = op[a].kids /\ r.steps = X
      /\ r.dispatches = op[a].dispatches
  BY DEF Shape, ProcessRecord
<1>. HIDE DEF r
<1>. QED  BY <1>1, <1>2, ProcessChanges DEF Goes, Keeps

LEMMA PlacesEffect ==
    ASSUME Shape, NEW a \in Command, NEW pc \in CommandStates, NEW X \in SUBSET Place,
           op' = [op EXCEPT ![a] = [op[a] EXCEPT !.pc = pc, !.steps = X]]
    PROVE  Goes(a, pc, X)
<1>. DEFINE r == [op[a] EXCEPT !.pc = pc, !.steps = X]
<1>1. /\ r \in ProcessRecord /\ r.pc = pc /\ r.group = op[a].group
      /\ r.force = op[a].force /\ r.batch = op[a].batch /\ r.kids = op[a].kids /\ r.steps = X
      /\ r.dispatches = op[a].dispatches
  BY DEF Shape, ProcessRecord
<1>. HIDE DEF r
<1>2. op' = [op EXCEPT ![a] = r]
  BY DEF r
<1>. QED  BY <1>1, <1>2, ProcessChanges DEF Goes, Keeps

LEMMA CheckEffect ==
    ASSUME Shape, NEW a \in Command, op[a].group # 0, CheckCleanup(a)
    PROVE  /\ Goes(a, IF op[a].force \/ Removable(op[a].group) THEN "removing" ELSE "unclean",
                   Owned(op[a].group))
           /\ ~op'[a].failed
<1>. DEFINE pc == IF op[a].force \/ Removable(op[a].group) THEN "removing" ELSE "unclean"
            X == Owned(op[a].group)
            r == [op[a] EXCEPT !.pc = pc, !.steps = X, !.failed = FALSE]
<1>1. op' = [op EXCEPT ![a] = r]
  BY DEF CheckCleanup
<1>2. pc \in CommandStates
  BY DEF CommandStates, CleanupStates
<1>3. X \subseteq Place
  <2>1. op[a].group \in Group
    BY DEF Shape, ProcessRecord
  <2>2. db.groups[op[a].group].children \subseteq Step
    BY <2>1 DEF Shape, LooseRecord, LooseGroup
  <2>. QED  BY <2>2 DEF Owned, Place
<1>. HIDE DEF pc, X
<1>4. /\ r \in ProcessRecord /\ r.pc = pc /\ r.group = op[a].group
      /\ r.force = op[a].force /\ r.batch = op[a].batch /\ r.kids = op[a].kids /\ r.steps = X
      /\ r.dispatches = op[a].dispatches /\ r.failed = FALSE
  BY <1>2, <1>3 DEF Shape, ProcessRecord
<1>. HIDE DEF r
<1>5. Goes(a, pc, X) /\ ~op'[a].failed
  BY <1>1, <1>4, ProcessChanges DEF Goes, Keeps
<1>. QED  BY <1>5 DEF pc, X

LEMMA RemovedEffect ==
    ASSUME Shape, NEW a \in Command, NEW p, NEW missing \in BOOLEAN, Removed(a, p, missing)
    PROVE  /\ Goes(a, op[a].pc, op[a].steps \ {p})
           /\ op'[a].failed <=> op[a].failed \/ missing
<1>. DEFINE X == op[a].steps \ {p}
            failed == op[a].failed \/ missing
            r == [op[a] EXCEPT !.steps = X, !.failed = failed]
<1>1. op' = [op EXCEPT ![a] = r]
  BY DEF Removed
<1>2. X \subseteq Place /\ failed \in BOOLEAN
  BY DEF Shape, ProcessRecord
<1>. HIDE DEF X, failed
<1>3. /\ r \in ProcessRecord /\ r.pc = op[a].pc /\ r.group = op[a].group
      /\ r.force = op[a].force /\ r.batch = op[a].batch /\ r.kids = op[a].kids /\ r.steps = X
      /\ r.dispatches = op[a].dispatches /\ r.failed = failed
  BY <1>2 DEF Shape, ProcessRecord
<1>. HIDE DEF r
<1>4. Goes(a, op[a].pc, X) /\ op'[a].failed = failed
  BY <1>1, <1>3, ProcessChanges DEF Goes, Keeps
<1>. QED  BY <1>4 DEF X, failed

(* A process that begins something starts from nothing. *)
Begins(a, pc) ==
    /\ Processes /\ Others(a)
    /\ op'[a].pc = pc /\ op'[a].force = FALSE /\ op'[a].failed = FALSE

LEMMA TurnEffect ==
    ASSUME Shape, NEW X \in SUBSET Dispatch, NextTurn(X)
    PROVE  /\ Begins(Execute, "turn")
           /\ op'[Execute].group = 0 /\ op'[Execute].batch = 0 /\ op'[Execute].kids = {}
           /\ op'[Execute].steps = {} /\ op'[Execute].dispatches = X
<1>. DEFINE r == [Down EXCEPT !.pc = "turn", !.dispatches = X]
<1>1. /\ r \in ProcessRecord /\ r.pc = "turn" /\ r.group = 0 /\ r.force = FALSE /\ r.batch = 0
      /\ r.kids = {} /\ r.steps = {} /\ r.dispatches = X /\ r.failed = FALSE
  BY DEF Down, ProcessRecord, CommandStates
<1>2. op' = [op EXCEPT ![Execute] = r] /\ Execute \in Command
  BY DEF NextTurn, Command
<1>. HIDE DEF r
<1>. QED  BY <1>1, <1>2, ProcessChanges DEF Begins

LEMMA BeginEffect ==
    ASSUME Shape, NEW pc \in {"leasing", "allocating"}, NEW b \in Batch \cup {0},
           NEW g \in Group \cup {0}, NEW kids \in SUBSET Step, NEW X \in SUBSET Step,
           op' = [op EXCEPT ![Execute] = [Down EXCEPT !.pc = pc, !.group = g, !.batch = b,
                                                      !.kids = kids, !.steps = X]]
    PROVE  /\ Begins(Execute, pc)
           /\ op'[Execute].group = g /\ op'[Execute].batch = b /\ op'[Execute].kids = kids
           /\ op'[Execute].steps = X /\ op'[Execute].dispatches = {}
<1>. DEFINE r == [Down EXCEPT !.pc = pc, !.group = g, !.batch = b, !.kids = kids, !.steps = X]
<1>1. /\ r \in ProcessRecord /\ r.pc = pc /\ r.group = g /\ r.force = FALSE /\ r.batch = b
      /\ r.kids = kids /\ r.steps = X /\ r.dispatches = {} /\ r.failed = FALSE
  BY DEF Down, ProcessRecord, CommandStates, ProvisionStates, PrepareStates, Place
<1>. HIDE DEF r
<1>2. op' = [op EXCEPT ![Execute] = r] /\ Execute \in Command
  BY DEF r, Command
<1>. QED  BY <1>1, <1>2, ProcessChanges DEF Begins

LEMMA AllocateEffect ==
    ASSUME Shape, NEW b \in Batch \cup {0}, NEW g \in Group \cup {0}, NEW kids \in SUBSET Step,
           Allocate(b, g, kids)
    PROVE  /\ Begins(Execute, "allocating")
           /\ op'[Execute].group = g /\ op'[Execute].batch = b /\ op'[Execute].kids = kids
           /\ op'[Execute].steps = IF g = 0 THEN kids ELSE {}
           /\ op'[Execute].dispatches = {}
<1>. DEFINE X == IF g = 0 THEN kids ELSE {}
            r == [Down EXCEPT !.pc = "allocating", !.batch = b, !.group = g, !.kids = kids,
                              !.steps = X]
<1>0. X \in SUBSET Step /\ op' = [op EXCEPT ![Execute] = r] /\ Execute \in Command
  BY DEF Allocate, Command
<1>. HIDE DEF X
<1>1. /\ r \in ProcessRecord /\ r.pc = "allocating" /\ r.group = g /\ r.force = FALSE
      /\ r.batch = b
      /\ r.kids = kids /\ r.steps = X /\ r.dispatches = {} /\ r.failed = FALSE
  BY <1>0 DEF Down, ProcessRecord, CommandStates, PrepareStates, Place
<1>. HIDE DEF r
<1>2. /\ Begins(Execute, "allocating")
      /\ op'[Execute].group = g /\ op'[Execute].batch = b /\ op'[Execute].kids = kids
      /\ op'[Execute].steps = X /\ op'[Execute].dispatches = {}
  BY <1>0, <1>1, ProcessChanges DEF Begins
<1>. QED  BY <1>2 DEF X

LEMMA AcknowledgeGoes ==
    ASSUME Shape, NEW d \in Dispatch, Acknowledge(d)
    PROVE  LET new == Dispatched(db, d, "ACKNOWLEDGED")
               g == db.dispatches[d].group
           IN
           /\ Processes /\ Others(Execute)
           /\ op'[Execute].pc = IF g # 0 /\ MayIntegrate(new, g) THEN "integrate" ELSE "turn"
           /\ op'[Execute].group = g /\ op'[Execute].force = op[Execute].force
           /\ op'[Execute].dispatches = op[Execute].dispatches \ {d}
<1>. DEFINE new == Dispatched(db, d, "ACKNOWLEDGED")
            g == db.dispatches[d].group
            pc == IF g # 0 /\ MayIntegrate(new, g) THEN "integrate" ELSE "turn"
            X == op[Execute].dispatches \ {d}
            r == [op[Execute] EXCEPT !.dispatches = X, !.pc = pc, !.group = g]
<1>1. op' = [op EXCEPT ![Execute] = r] /\ Execute \in Command
  BY DEF Acknowledge, Command
<1>2. pc \in CommandStates /\ g \in Group \cup {0} /\ X \subseteq Dispatch
  BY DEF CommandStates, IntegrationStates, Shape, ProcessRecord, LooseRecord, DispatchRecord,
         Command
<1>. HIDE DEF pc, g, X
<1>3. /\ r \in ProcessRecord /\ r.pc = pc /\ r.group = g /\ r.force = op[Execute].force
      /\ r.dispatches = X
  BY <1>1, <1>2 DEF Shape, ProcessRecord
<1>. HIDE DEF r
<1>4. /\ Processes /\ Others(Execute)
      /\ op'[Execute].pc = pc /\ op'[Execute].group = g
      /\ op'[Execute].force = op[Execute].force /\ op'[Execute].dispatches = X
  BY <1>1, <1>3, ProcessChanges
<1>. QED  BY <1>4 DEF pc, g, X

LEMMA ForceEffect ==
    ASSUME Shape, op' = [op EXCEPT ![Execute] = [@ EXCEPT !.pc = "cleanup", !.force = TRUE]]
    PROVE  /\ Processes /\ Others(Execute)
           /\ op'[Execute].pc = "cleanup" /\ op'[Execute].force
           /\ op'[Execute].group = op[Execute].group
<1>. DEFINE r == [op[Execute] EXCEPT !.pc = "cleanup", !.force = TRUE]
<1>1. op' = [op EXCEPT ![Execute] = r] /\ Execute \in Command
  BY DEF Command
<1>2. r \in ProcessRecord /\ r.pc = "cleanup" /\ r.group = op[Execute].group /\ r.force = TRUE
  BY <1>1 DEF Shape, ProcessRecord, CommandStates, CleanupStates
<1>. HIDE DEF r
<1>. QED  BY <1>1, <1>2, ProcessChanges

(* The operator's commands. *)
LEMMA BeginAnswerEffect ==
    ASSUME Shape, BeginAnswerWorkspace
    PROVE  Begins(Operator, "cleanup") /\ op'[Operator].group = db.request.group
<1>. DEFINE g == db.request.group
            r == [Down EXCEPT !.pc = "cleanup", !.group = g]
<1>1. op' = [op EXCEPT ![Operator] = r] /\ Operator \in Command
  BY DEF BeginAnswerWorkspace, Command
<1>2. g \in Group \cup {0}
  BY DEF Shape, LooseRecord, Requests
<1>. HIDE DEF g
<1>3. /\ r \in ProcessRecord /\ r.pc = "cleanup" /\ r.group = g /\ r.force = FALSE
      /\ r.failed = FALSE
  BY <1>2 DEF Down, ProcessRecord, CommandStates, CleanupStates
<1>. HIDE DEF r
<1>4. Begins(Operator, "cleanup") /\ op'[Operator].group = g
  BY <1>1, <1>3, ProcessChanges DEF Begins
<1>. QED  BY <1>4 DEF g

LEMMA RecoverStartEffect ==
    ASSUME Shape, RecoverStart
    PROVE  /\ Begins(Operator, "recovering") /\ op'[Operator].kids = {}
           /\ op'[Operator].dispatches \subseteq Dispatch
<1>. DEFINE X == InState({"PREPARED", "RUNNING", "COMPLETED"})
            r == [Down EXCEPT !.pc = "recovering", !.dispatches = X]
<1>1. op' = [op EXCEPT ![Operator] = r] /\ Operator \in Command
  BY DEF RecoverStart, Command
<1>2. X \subseteq Dispatch
  BY DEF InState
<1>. HIDE DEF X
<1>3. /\ r \in ProcessRecord /\ r.pc = "recovering" /\ r.force = FALSE
      /\ r.failed = FALSE /\ r.kids = {} /\ r.dispatches = X
  BY <1>2 DEF Down, ProcessRecord, CommandStates, RecoverStates
<1>. HIDE DEF r
<1>. QED  BY <1>1, <1>2, <1>3, ProcessChanges DEF Begins

LEMMA RecoveredEffect ==
    ASSUME Shape, NEW d, NEW K \in SUBSET Step, Recovered(d, K)
    PROVE  /\ Processes /\ Others(Operator)
           /\ op'[Operator].pc = op[Operator].pc /\ op'[Operator].group = op[Operator].group
           /\ op'[Operator].force = op[Operator].force
           /\ op'[Operator].kids = op[Operator].kids \cup K
<1>. DEFINE X == op[Operator].dispatches \ {d}
            Y == op[Operator].kids \cup K
            r == [op[Operator] EXCEPT !.dispatches = X, !.kids = Y]
<1>1. op' = [op EXCEPT ![Operator] = r] /\ Operator \in Command
  BY DEF Recovered, Command
<1>2. X \subseteq Dispatch /\ Y \subseteq Step
  BY <1>1 DEF Shape, ProcessRecord
<1>. HIDE DEF X, Y
<1>3. /\ r \in ProcessRecord /\ r.pc = op[Operator].pc /\ r.force = op[Operator].force
      /\ r.group = op[Operator].group /\ r.kids = Y
  BY <1>1, <1>2 DEF Shape, ProcessRecord
<1>. HIDE DEF r
<1>4. /\ Processes /\ Others(Operator)
      /\ op'[Operator].pc = op[Operator].pc /\ op'[Operator].group = op[Operator].group
      /\ op'[Operator].force = op[Operator].force /\ op'[Operator].kids = Y
  BY <1>1, <1>3, ProcessChanges
<1>. QED  BY <1>4 DEF Y

LEMMA RecoverJoinEffect ==
    ASSUME Shape, NEW b \in Batch, RecoverJoin(b)
    PROVE  /\ Processes /\ Others(Operator)
           /\ op'[Operator].pc \in {"joining", "join_asking"} /\ op[Operator].pc = "joining"
           /\ op'[Operator].group = op[Operator].group
           /\ op'[Operator].force = op[Operator].force
           /\ op'[Operator].kids = op[Operator].kids
<1>. DEFINE r == [op[Operator] EXCEPT !.pc = "join_asking", !.batch = b]
<1>1. op[Operator].pc = "joining" /\ Operator \in Command
  BY DEF RecoverJoin, Command, At
<1>2. op' = [op EXCEPT ![Operator] = r] \/ op' = op
  BY DEF RecoverJoin
<1>3. /\ r \in ProcessRecord /\ r.pc = "join_asking" /\ r.force = op[Operator].force
      /\ r.group = op[Operator].group /\ r.kids = op[Operator].kids
  BY <1>1 DEF Shape, ProcessRecord, CommandStates, RecoverStates
<1>. HIDE DEF r
<1>4. CASE op' = op
  BY <1>1, <1>4 DEF Processes, Others, Shape
<1>5. CASE op' = [op EXCEPT ![Operator] = r]
  BY <1>1, <1>3, <1>5, ProcessChanges
<1>. QED  BY <1>2, <1>4, <1>5
-----------------------------------------------------------------------------
(* Layer 1: the values.                                                    *)
FlagsOK ==
    /\ barrier \in BOOLEAN
    /\ fresh \subseteq Command \cup Step
    /\ workers \subseteq Dispatch
    /\ thread \in [Step -> ThreadStates]

LEMMA FlagsStep ==
    ASSUME Typed, [Next]_vars
    PROVE  FlagsOK'
<1>. USE DEF Save, LastSave, Load, Command
<1>0. FlagsOK
  BY DEF Typed, Shape, FlagsOK
<1>1. \A s \in Step : thread[s] # "idle" => Current(s) \in Dispatch
  BY CurrentIsDispatch DEF Typed, Shape, Counted, ThreadsOK
<1>2. "idle" \in ThreadStates /\ "queued" \in ThreadStates /\ "raised" \in ThreadStates
  BY DEF ThreadStates
<1>3. CASE Provision
  <2>1. ASSUME NEW g, NEW b, NEW kids, PlanGroup(g, b, kids) PROVE FlagsOK'
    BY <1>0, <2>1 DEF FlagsOK, PlanGroup
  <2>2. ASSUME NEW s, AddTree(s) \/ AddTreeFails(s) \/ Undo(s) PROVE FlagsOK'
    BY <1>0, <2>2 DEF FlagsOK, AddTree, AddTreeFails, Undo
  <2>3. ASSUME LeaseGroup \/ Undone \/ FailGroup \/ ActivateGroup PROVE FlagsOK'
    BY <1>0, <2>3 DEF FlagsOK, LeaseGroup, Undone, FailGroup, ActivateGroup
  <2>. QED  BY <1>3, <2>1, <2>2, <2>3 DEF Provision
<1>4. CASE Prepare
  BY <1>0, <1>2, <1>4
  DEF FlagsOK, Prepare, CommandBatch, CommandDispatch, LeaseChild, SavePrepared, RefusePrepare, Allocate
<1>5. ASSUME NEW s \in Step, Work(s) PROVE FlagsOK'
  <2>1. /\ barrier' = barrier /\ thread' \in [Step -> ThreadStates] /\ Current(s) \in Dispatch
    BY <1>1, <1>5, WorkFrame DEF Typed
  <2>2. ASSUME ApplyBlocked(s) \/ FailDispatch(s) \/ StallDispatch(s) PROVE FlagsOK'
    BY <1>0, <2>1, <2>2 DEF FlagsOK, ApplyBlocked, FailDispatch, StallDispatch, WorkerStops
  <2>3. ASSUME Launch(s) \/ CommitWork(s) PROVE FlagsOK'
    BY <1>0, <2>1, <2>3 DEF FlagsOK, Launch, CommitWork
  <2>4. ASSUME ApplyCompleted(s) \/ PersistForwarded(s) \/ PersistEscalated(s) PROVE FlagsOK'
    BY <1>0, <2>1, <2>4 DEF FlagsOK, ApplyCompleted, PersistForwarded, PersistEscalated
  <2>5. ASSUME FailStep(s) \/ AskReconciliation(s) \/ AskStallRecovery(s) PROVE FlagsOK'
    BY <1>0, <2>1, <2>5 DEF FlagsOK, FailStep, AskReconciliation, AskStallRecovery
  <2>6. ASSUME StallStep(s) \/ RetryStalled(s) \/ HandlerRaises(s) PROVE FlagsOK'
    BY <1>0, <2>1, <2>6 DEF FlagsOK, StallStep, RetryStalled, HandlerRaises
  <2>. QED  BY <1>5, <2>2, <2>3, <2>4, <2>5, <2>6 DEF Work
<1>6. CASE Join
  BY <1>0, <1>2, <1>6
  DEF FlagsOK, Join, DispatchEnds, FinalizeBatch, AskBatchReconciliation, ThreadsIdle
<1>7. CASE Turn
  BY <1>0, <1>7 DEF FlagsOK, Turn, Start, Complete, Stop, Acknowledge
<1>8. CASE Integrate
  BY <1>0, <1>8
  DEF FlagsOK, Integrate, BeginIntegration, OpenIntegration, Promote, IntegrationFails,
      MergeChild, SavePromoted, FailIntegration, AskWorkspaceReconciliation
<1>9. ASSUME NEW a \in Command, Cleanup(a) PROVE FlagsOK'
  BY <1>0, <1>9
  DEF FlagsOK, Cleanup, BeginCleanup, CheckCleanup, RemovePlace, RemovePlaceFails, EndRemoval,
      SaveCleaned, SaveUnclean
<1>10. CASE Answer
  BY <1>0, <1>10
  DEF FlagsOK, Answer, AnswerStep, AnswerBatch, BeginAnswerWorkspace, AnswerWorkspace, AnswerHalt,
      MergeByHand, TidyByHand
<1>11. CASE Recover
  BY <1>0, <1>11
  DEF FlagsOK, Recover, RecoverStart, RecoverDispatched, RecoverAsk, RecoverJoined, RecoverRelease,
      RecoverCompleted, RecoverInterrupted, RecoverJoin
<1>12. CASE Disturb
  BY <1>0, <1>2, <1>12
  DEF FlagsOK, Disturb, Crash, Raises, Cancel, CancelOvertakes, WorkerExits, WorkerStops, ThreadsIdle,
      Steps
<1>13. CASE UNCHANGED vars
  BY <1>0, <1>13 DEF FlagsOK, vars
<1>. QED
  BY <1>3, <1>4, <1>5, <1>6, <1>7, <1>8, <1>9, <1>10, <1>11, <1>12, <1>13 DEF Next
TroublesOK == troubles \in [{"crash", "fault", "cancel"} -> 0..MaxTroubles]

LEMMA TroublesStep ==
    ASSUME Typed, [Next]_vars
    PROVE  TroublesOK'
<1>1. TroublesOK /\ MaxTroubles \in Nat
  BY BoundAssumption DEF Typed, Shape, TroublesOK
<1>2. ASSUME NEW kind \in {"crash", "fault", "cancel"}, Trouble(kind) PROVE TroublesOK'
  BY <1>1, <1>2 DEF Trouble, TroublesOK
<1>3. ASSUME Fault PROVE TroublesOK'
  BY <1>2, <1>3 DEF Fault
<1>4. ASSUME UNCHANGED troubles PROVE TroublesOK'
  BY <1>1, <1>4 DEF TroublesOK
<1>5. CASE Provision
  BY <1>3, <1>4, <1>5
  DEF Provision, PlanGroup, LeaseGroup, Undone, FailGroup, ActivateGroup, AddTree, AddTreeFails, Undo
<1>6. CASE Prepare
  BY <1>3, <1>4, <1>6
  DEF Prepare, CommandBatch, CommandDispatch, LeaseChild, SavePrepared, RefusePrepare, Allocate
<1>7. ASSUME NEW s \in Step, Work(s) PROVE TroublesOK'
  BY <1>4, <1>7
  DEF Work, Launch, CommitWork, RetryStalled, ApplyCompleted, ApplyBlocked, PersistForwarded,
      PersistEscalated, FailDispatch, FailStep, AskReconciliation, StallDispatch, StallStep,
      AskStallRecovery, HandlerRaises
<1>8. CASE Join \/ Turn
  BY <1>4, <1>8
  DEF Join, DispatchEnds, FinalizeBatch, AskBatchReconciliation, Turn, Start, Complete, Stop,
      Acknowledge
<1>9. CASE Integrate
  BY <1>3, <1>4, <1>9
  DEF Integrate, BeginIntegration, OpenIntegration, Promote, IntegrationFails, MergeChild,
      SavePromoted, FailIntegration, AskWorkspaceReconciliation
<1>10. ASSUME NEW a \in Command, Cleanup(a) PROVE TroublesOK'
  BY <1>3, <1>4, <1>10
  DEF Cleanup, BeginCleanup, CheckCleanup, RemovePlace, RemovePlaceFails, EndRemoval, SaveCleaned,
      SaveUnclean
<1>11. CASE Answer \/ Recover
  BY <1>4, <1>11
  DEF Answer, AnswerStep, AnswerBatch, BeginAnswerWorkspace, AnswerWorkspace, AnswerHalt, MergeByHand,
      TidyByHand, Recover, RecoverStart, RecoverDispatched, RecoverAsk, RecoverJoined, RecoverRelease,
      RecoverCompleted, RecoverInterrupted, RecoverJoin
<1>12. CASE Disturb
  BY <1>2, <1>4, <1>12 DEF Disturb, Crash, Raises, Cancel, CancelOvertakes, WorkerExits
<1>13. CASE UNCHANGED vars
  BY <1>4, <1>13 DEF vars
<1>. QED
  BY <1>5, <1>6, <1>7, <1>8, <1>9, <1>10, <1>11, <1>12, <1>13 DEF Next

(* Every lease is freed or taken by the group or a dispatch of the command.*)
Owners == {None} \cup {GroupOwner(g) : g \in Group} \cup Dispatch

LeaseOK == lease \in [Repository -> Owners]

LEMMA FreedOwners ==
    ASSUME Shape, NEW owners
    PROVE  Freed(owners) \in [Repository -> Owners]
BY DEF Shape, Freed, Owners

LEMMA LeaseStep ==
    ASSUME Typed, [Next]_vars
    PROVE  LeaseOK'
<1>1. LeaseOK
  BY DEF Typed, Shape, Owners, LeaseOK
<1>2. ASSUME NEW owners, lease' = Freed(owners) PROVE LeaseOK'
  BY <1>2, FreedOwners DEF Typed, LeaseOK
<1>3. ASSUME UNCHANGED lease PROVE LeaseOK'
  BY <1>1, <1>3 DEF LeaseOK
<1>4. ASSUME NEW r, NEW o \in Owners, lease' = [lease EXCEPT ![r] = o] PROVE LeaseOK'
  BY <1>1, <1>4 DEF LeaseOK
<1>5. CASE Provision
  <2>1. ASSUME LeaseGroup PROVE LeaseOK'
    <3>1. op[Execute].pc \in ProvisionStates /\ op[Execute].group # 0
      BY <2>1 DEF LeaseGroup, At, ProvisionStates, Typed, Named, Command
    <3>2. op[Execute].group \in Group
      BY <3>1 DEF Typed, Shape, ProcessRecord, Command
    <3>3. GroupOwner(op[Execute].group) \in Owners
      BY <3>2 DEF Owners
    <3>. QED  BY <2>1, <3>3, <1>3, <1>4 DEF LeaseGroup
  <2>2. ASSUME Undone \/ FailGroup \/ ActivateGroup PROVE LeaseOK'
    BY <2>2, <1>2, <1>3 DEF Undone, FailGroup, ActivateGroup
  <2>3. ASSUME NEW s, AddTree(s) \/ AddTreeFails(s) \/ Undo(s) PROVE LeaseOK'
    BY <2>3, <1>3 DEF AddTree, AddTreeFails, Undo
  <2>4. ASSUME NEW g, NEW b, NEW kids, PlanGroup(g, b, kids) PROVE LeaseOK'
    BY <2>4, <1>3 DEF PlanGroup
  <2>. QED  BY <1>5, <2>1, <2>2, <2>3, <2>4 DEF Provision
<1>6. CASE Prepare
  <2>1. ASSUME NEW s \in Step, LeaseChild(s) PROVE LeaseOK'
    <3>1. db.steps[s].attempts < MaxAttempts[s]
      BY <2>1 DEF LeaseChild, At, Typed, Counted, AllocatingOK, E
    <3>2. NextDispatch(s) \in Owners
      BY <3>1, NextDispatchIsDispatch DEF Typed, Shape, Owners
    <3>. QED  BY <2>1, <3>2, <1>2, <1>4 DEF LeaseChild
  <2>2. ASSUME SavePrepared \/ RefusePrepare PROVE LeaseOK'
    BY <2>2, <1>2, <1>3 DEF SavePrepared, RefusePrepare
  <2>3. ASSUME NEW s, CommandDispatch(s) PROVE LeaseOK'
    BY <2>3, <1>3 DEF CommandDispatch, Allocate
  <2>4. ASSUME NEW b, NEW kids, CommandBatch(b, kids) PROVE LeaseOK'
    BY <2>4, <1>3 DEF CommandBatch, Allocate
  <2>. QED  BY <1>6, <2>1, <2>2, <2>3, <2>4 DEF Prepare
<1>7. ASSUME NEW s \in Step, Work(s) PROVE LeaseOK'
  <2>1. ASSUME RetryStalled(s) PROVE LeaseOK'
    <3>1. CASE MayRetry(s) /\ GroupFor(s) = 0
      <4>1. NextDispatch(s) \in Owners
        BY <3>1, NextDispatchIsDispatch DEF MayRetry, BatchValid, Typed, Shape, Owners
      <4>2. lease' = [lease EXCEPT ![RepositoryOf(s)] = NextDispatch(s)]
        BY <2>1, <3>1 DEF RetryStalled
      <4>. QED  BY <4>1, <4>2, <1>4
    <3>2. CASE ~(MayRetry(s) /\ GroupFor(s) = 0)
      BY <2>1, <3>2, <1>3 DEF RetryStalled
    <3>. QED  BY <3>1, <3>2
  <2>2. ASSUME ~RetryStalled(s) PROVE LeaseOK'
    BY <1>7, <2>2, <1>2, <1>3
    DEF Work, Launch, CommitWork, ApplyCompleted, ApplyBlocked, PersistForwarded,
        PersistEscalated, FailDispatch, FailStep, AskReconciliation, StallDispatch, StallStep,
        AskStallRecovery, HandlerRaises
  <2>. QED  BY <2>1, <2>2
<1>8. CASE Join \/ Turn
  BY <1>3, <1>8
  DEF Join, DispatchEnds, FinalizeBatch, AskBatchReconciliation, Turn, Start, Complete, Stop,
      Acknowledge
<1>9. CASE Integrate
  BY <1>3, <1>9
  DEF Integrate, BeginIntegration, OpenIntegration, Promote, IntegrationFails, MergeChild,
      SavePromoted, FailIntegration, AskWorkspaceReconciliation
<1>10. ASSUME NEW a \in Command, Cleanup(a) PROVE LeaseOK'
  BY <1>2, <1>3, <1>10
  DEF Cleanup, BeginCleanup, CheckCleanup, RemovePlace, RemovePlaceFails, EndRemoval, SaveCleaned,
      SaveUnclean
<1>11. CASE Answer
  BY <1>3, <1>11
  DEF Answer, AnswerStep, AnswerBatch, BeginAnswerWorkspace, AnswerWorkspace, AnswerHalt, MergeByHand,
      TidyByHand
<1>12. CASE Recover
  <2>1. ASSUME RecoverRelease PROVE LeaseOK'
    BY <2>1, <1>1 DEF RecoverRelease, Owners, LeaseOK
  <2>2. ASSUME ~RecoverRelease PROVE LeaseOK'
    BY <1>3, <1>12, <2>2
    DEF Recover, RecoverStart, RecoverDispatched, RecoverAsk, RecoverJoined,
        RecoverCompleted, RecoverInterrupted, RecoverJoin
  <2>. QED  BY <2>1, <2>2
<1>13. CASE Disturb
  <2>1. ASSUME NEW a \in Command, Raises(a) PROVE LeaseOK'
    BY <2>1, <1>2, <1>3 DEF Raises
  <2>2. ASSUME NEW s \in Step, CancelOvertakes(s) PROVE LeaseOK'
    BY <2>2, <1>2 DEF CancelOvertakes
  <2>3. ASSUME NEW a \in Command, Crash(a) PROVE LeaseOK'
    BY <2>3, <1>3 DEF Crash
  <2>4. ASSUME NEW s \in Step, Cancel(s) PROVE LeaseOK'
    BY <2>4, <1>3 DEF Cancel
  <2>5. ASSUME NEW d \in Dispatch, WorkerExits(d) PROVE LeaseOK'
    BY <2>5, <1>3 DEF WorkerExits
  <2>. QED  BY <1>13, <2>1, <2>2, <2>3, <2>4, <2>5 DEF Disturb
<1>14. CASE UNCHANGED vars
  BY <1>3, <1>14 DEF vars
<1>. QED
  BY <1>5, <1>6, <1>7, <1>8, <1>9, <1>10, <1>11, <1>12, <1>13, <1>14 DEF Next

(* The branches and the worktrees. *)
SourceOK == source \in [Repository -> SUBSET History]
HeadsOK == heads \in [Group -> [Place -> SUBSET History]]
TreesOK == trees \in [Group -> [Place -> {"absent", "clean", "dirty"}]]

LEMMA SourceAt ==
    ASSUME SourceOK, NEW r, NEW X \in SUBSET History, source' = [source EXCEPT ![r] = X]
    PROVE  SourceOK'
BY DEF SourceOK

LEMMA HeadsAt ==
    ASSUME HeadsOK, NEW g, NEW p, NEW X \in SUBSET History,
           heads' = [heads EXCEPT ![g][p] = X]
    PROVE  HeadsOK'
BY DEF HeadsOK

LEMMA TreesAt ==
    ASSUME TreesOK, NEW g, NEW p, NEW X \in {"absent", "clean", "dirty"},
           trees' = [trees EXCEPT ![g][p] = X]
    PROVE  TreesOK'
BY DEF TreesOK

LEMMA GroupHasBase ==
    ASSUME db \in LooseRecord, NEW g \in Group
    PROVE  db.groups[g].base \subseteq History /\ db.groups[g].children \subseteq Step
BY DEF LooseRecord, LooseGroup

LEMMA GroupAt ==
    ASSUME Typed, NEW a \in Command,
           op[a].pc \in ProvisionStates \cup IntegrationStates \cup CleanupStates
    PROVE  op[a].group \in Group
BY DEF Typed, Shape, Named, ProcessRecord

LEMMA WorkerStopsTrees ==
    ASSUME TreesOK, NEW d, WorkerStops(d)
    PROVE  TreesOK'
<1>1. CASE UNCHANGED trees
  BY <1>1 DEF TreesOK
<1>2. CASE trees' = [trees EXCEPT ![db.dispatches[d].group][d[1]] = "clean"]
  BY <1>2, TreesAt
<1>. QED  BY <1>1, <1>2 DEF WorkerStops

LEMMA SourceStep ==
    ASSUME Typed, [Next]_vars
    PROVE  SourceOK'
<1>1. SourceOK /\ HeadsOK
  BY DEF Typed, Shape, SourceOK, HeadsOK
<1>2. ASSUME UNCHANGED source PROVE SourceOK'
  BY <1>1, <1>2 DEF SourceOK
<1>3. ASSUME NEW r, NEW X, X \subseteq History, source' = [source EXCEPT ![r] = X]
      PROVE  SourceOK'
  BY <1>1, <1>3, SourceAt
<1>4. \A r \in Repository : source[r] \subseteq History
  BY <1>1 DEF SourceOK
<1>5. \A g \in Group, p \in Place : heads[g][p] \subseteq History
  BY <1>1 DEF HeadsOK
<1>6. CASE Provision
  BY <1>2, <1>6
  DEF Provision, PlanGroup, LeaseGroup, Undone, FailGroup, ActivateGroup, AddTree, AddTreeFails, Undo,
      Added, git
<1>7. CASE Prepare
  BY <1>2, <1>7
  DEF Prepare, CommandBatch, CommandDispatch, LeaseChild, SavePrepared, RefusePrepare, Allocate, git
<1>8. ASSUME NEW s \in Step, Work(s) PROVE SourceOK'
  <2>1. ASSUME CommitWork(s) PROVE SourceOK'
    <3>1. RepositoryOf(s) \in Repository /\ s \in History
      BY DEF RepositoryOf, Repository, History
    <3>2. source' = source \/
          source' = [source EXCEPT ![RepositoryOf(s)] = source[RepositoryOf(s)] \cup {s}]
      BY <2>1 DEF CommitWork
    <3>3. source[RepositoryOf(s)] \cup {s} \subseteq History
      BY <3>1, <1>4
    <3>. QED  BY <3>2, <3>3, <1>2, <1>3
  <2>2. ASSUME ~CommitWork(s) PROVE SourceOK'
    BY <1>8, <2>2, <1>2
    DEF Work, Launch, RetryStalled, ApplyCompleted, ApplyBlocked, PersistForwarded,
        PersistEscalated, FailDispatch, FailStep, AskReconciliation, StallDispatch, StallStep,
        AskStallRecovery, HandlerRaises, git
  <2>. QED  BY <2>1, <2>2
<1>9. CASE Join \/ Turn
  BY <1>2, <1>9
  DEF Join, DispatchEnds, FinalizeBatch, AskBatchReconciliation, Turn, Start, Complete, Stop,
      Acknowledge, git
<1>10. CASE Integrate
  <2>1. Execute \in Command /\ Integration \in Place
    BY DEF Command, Place
  <2>2. ASSUME Promote \/ IntegrationFails PROVE SourceOK'
    <3>1. op[Execute].group \in Group
      BY <2>1, <2>2, GroupAt DEF Promote, IntegrationFails, At, IntegrationStates
    <3>2. heads[op[Execute].group][Integration] \subseteq History
      BY <2>1, <3>1, <1>5
    <3>3. source' = source \/
          source' = [source EXCEPT ![Shared] = heads[op[Execute].group][Integration]]
      BY <2>2 DEF Promote, IntegrationFails
    <3>. QED  BY <3>2, <3>3, <1>2, <1>3
  <2>3. ASSUME NEW s \in Step, MergeChild(s) PROVE SourceOK'
    BY <2>3, <1>2 DEF MergeChild
  <2>4. ASSUME BeginIntegration \/ OpenIntegration \/ SavePromoted \/ FailIntegration
                \/ AskWorkspaceReconciliation
        PROVE SourceOK'
    BY <2>4, <1>2
    DEF BeginIntegration, OpenIntegration, SavePromoted, FailIntegration, AskWorkspaceReconciliation,
        Added, git
  <2>. QED  BY <1>10, <2>2, <2>3, <2>4 DEF Integrate
<1>11. ASSUME NEW a \in Command, Cleanup(a) PROVE SourceOK'
  BY <1>2, <1>11
  DEF Cleanup, BeginCleanup, CheckCleanup, RemovePlace, RemovePlaceFails, EndRemoval, SaveCleaned,
      SaveUnclean, git
<1>12. CASE Answer
  <2>1. ASSUME NEW g \in Group, NEW p \in Place, MergeByHand(g, p) PROVE SourceOK'
    <3>1. source[Shared] \cup heads[g][p] \subseteq History
      BY <1>4, <1>5 DEF Repository
    <3>2. source' = [source EXCEPT ![Shared] = source[Shared] \cup heads[g][p]]
      BY <2>1 DEF MergeByHand
    <3>. QED  BY <3>1, <3>2, <1>3
  <2>2. ASSUME NEW g \in Group, NEW p \in Place, TidyByHand(g, p) PROVE SourceOK'
    BY <2>2, <1>2 DEF TidyByHand
  <2>3. ASSUME AnswerStep \/ AnswerBatch \/ BeginAnswerWorkspace \/ AnswerWorkspace \/ AnswerHalt
        PROVE SourceOK'
    BY <2>3, <1>2
    DEF AnswerStep, AnswerBatch, BeginAnswerWorkspace, AnswerWorkspace, AnswerHalt, git
  <2>. QED  BY <1>12, <2>1, <2>2, <2>3 DEF Answer
<1>13. CASE Recover
  BY <1>2, <1>13
  DEF Recover, RecoverStart, RecoverDispatched, RecoverAsk, RecoverJoined, RecoverRelease,
      RecoverCompleted, RecoverInterrupted, RecoverJoin, git
<1>14. CASE Disturb
  BY <1>2, <1>14
  DEF Disturb, Crash, Raises, Cancel, CancelOvertakes, WorkerExits, git
<1>15. CASE UNCHANGED vars
  BY <1>2, <1>15 DEF vars, git
<1>. QED
  BY <1>6, <1>7, <1>8, <1>9, <1>10, <1>11, <1>12, <1>13, <1>14, <1>15 DEF Next

LEMMA HeadsStep ==
    ASSUME Typed, [Next]_vars
    PROVE  HeadsOK'
<1>1. HeadsOK
  BY DEF Typed, Shape, HeadsOK
<1>2. ASSUME UNCHANGED heads PROVE HeadsOK'
  BY <1>1, <1>2 DEF HeadsOK
<1>3. ASSUME NEW g, NEW p, NEW X, X \subseteq History, heads' = [heads EXCEPT ![g][p] = X]
      PROVE  HeadsOK'
  BY <1>1, <1>3, HeadsAt
<1>4. \A g \in Group, p \in Place : heads[g][p] \subseteq History
  BY <1>1 DEF HeadsOK
<1>5. Gone \subseteq History /\ Execute \in Command /\ Step \subseteq Place /\ Integration \in Place
  BY DEF Gone, History, Command, Place
<1>6. CASE Provision
  <2>1. ASSUME NEW s \in Step, AddTree(s) \/ AddTreeFails(s) PROVE HeadsOK'
    <3>1. op[Execute].group \in Group
      BY <2>1, <1>5, GroupAt DEF AddTree, AddTreeFails, At, ProvisionStates
    <3>2. db.groups[op[Execute].group].base \subseteq History
      BY <3>1, GroupHasBase DEF Typed, Shape
    <3>3. CASE AddTree(s)
      BY <3>2, <3>3, <1>3 DEF AddTree, Added
    <3>4. CASE AddTreeFails(s)
      BY <3>2, <3>4, <1>3, <1>5 DEF AddTreeFails
    <3>. QED  BY <2>1, <3>3, <3>4
  <2>2. ASSUME NEW s \in Step, Undo(s) PROVE HeadsOK'
    BY <2>2, <1>3, <1>5 DEF Undo
  <2>3. ASSUME LeaseGroup \/ Undone \/ FailGroup \/ ActivateGroup PROVE HeadsOK'
    BY <2>3, <1>2 DEF LeaseGroup, Undone, FailGroup, ActivateGroup, git
  <2>4. ASSUME NEW g, NEW b, NEW kids, PlanGroup(g, b, kids) PROVE HeadsOK'
    BY <2>4, <1>2 DEF PlanGroup, git
  <2>. QED  BY <1>6, <2>1, <2>2, <2>3, <2>4 DEF Provision
<1>7. CASE Prepare
  BY <1>2, <1>7
  DEF Prepare, CommandBatch, CommandDispatch, LeaseChild, SavePrepared, RefusePrepare, Allocate, git
<1>8. ASSUME NEW s \in Step, Work(s) PROVE HeadsOK'
  <2>1. ASSUME CommitWork(s) PROVE HeadsOK'
    <3>. DEFINE g == db.dispatches[Current(s)].group
    <3>1. Current(s) \in Dispatch
      BY <2>1, CurrentIsDispatch DEF CommitWork, Typed, Shape, Counted, ThreadsOK
    <3>2. g \in Group \cup {0}
      BY <3>1 DEF Typed, Shape, LooseRecord, DispatchRecord
    <3>3. heads' = heads \/ (g # 0 /\ heads' = [heads EXCEPT ![g][s] = heads[g][s] \cup {s}])
      BY <2>1 DEF CommitWork
    <3>. HIDE DEF g
    <3>4. g # 0 => heads[g][s] \cup {s} \subseteq History
      BY <3>2, <1>4, <1>5 DEF History
    <3>. QED  BY <3>3, <3>4, <1>2, <1>3
  <2>2. ASSUME ~CommitWork(s) PROVE HeadsOK'
    BY <1>8, <2>2, <1>2
    DEF Work, Launch, RetryStalled, ApplyCompleted, ApplyBlocked, PersistForwarded,
        PersistEscalated, FailDispatch, FailStep, AskReconciliation, StallDispatch, StallStep,
        AskStallRecovery, HandlerRaises, git
  <2>. QED  BY <2>1, <2>2
<1>9. CASE Join \/ Turn
  BY <1>2, <1>9
  DEF Join, DispatchEnds, FinalizeBatch, AskBatchReconciliation, Turn, Start, Complete, Stop,
      Acknowledge, git
<1>10. CASE Integrate
  <2>1. ASSUME OpenIntegration PROVE HeadsOK'
    <3>1. op[Execute].group \in Group
      BY <2>1, <1>5, GroupAt DEF OpenIntegration, At, IntegrationStates
    <3>2. db.groups[op[Execute].group].base \subseteq History
      BY <3>1, GroupHasBase DEF Typed, Shape
    <3>. QED  BY <2>1, <3>2, <1>3 DEF OpenIntegration, Added
  <2>2. ASSUME NEW s \in Step, MergeChild(s) PROVE HeadsOK'
    <3>. DEFINE g == op[Execute].group
    <3>1. g \in Group
      BY <2>2, <1>5, GroupAt DEF MergeChild, At, IntegrationStates
    <3>2. heads[g][Integration] \cup heads[g][s] \subseteq History
      BY <3>1, <1>4, <1>5
    <3>3. heads' = [heads EXCEPT ![g][Integration] = heads[g][Integration] \cup heads[g][s]]
      BY <2>2 DEF MergeChild
    <3>. QED  BY <3>2, <3>3, <1>3
  <2>3. ASSUME BeginIntegration \/ Promote \/ IntegrationFails \/ SavePromoted \/ FailIntegration
                \/ AskWorkspaceReconciliation
        PROVE HeadsOK'
    BY <2>3, <1>2
    DEF BeginIntegration, Promote, IntegrationFails, SavePromoted, FailIntegration,
        AskWorkspaceReconciliation, git
  <2>. QED  BY <1>10, <2>1, <2>2, <2>3 DEF Integrate
<1>11. ASSUME NEW a \in Command, Cleanup(a) PROVE HeadsOK'
  <2>1. ASSUME NEW p \in Place, RemovePlace(a, p) PROVE HeadsOK'
    BY <2>1, <1>3, <1>5 DEF RemovePlace
  <2>2. ASSUME NEW p \in Place, RemovePlaceFails(a, p) PROVE HeadsOK'
    BY <2>2, <1>2 DEF RemovePlaceFails
  <2>3. ASSUME BeginCleanup(a) \/ CheckCleanup(a) \/ EndRemoval(a) \/ SaveCleaned(a) \/ SaveUnclean(a)
        PROVE HeadsOK'
    BY <2>3, <1>2 DEF BeginCleanup, CheckCleanup, EndRemoval, SaveCleaned, SaveUnclean, git
  <2>. QED  BY <1>11, <2>1, <2>2, <2>3 DEF Cleanup
<1>12. CASE Answer
  BY <1>2, <1>12
  DEF Answer, AnswerStep, AnswerBatch, BeginAnswerWorkspace, AnswerWorkspace, AnswerHalt, MergeByHand,
      TidyByHand, git
<1>13. CASE Recover
  BY <1>2, <1>13
  DEF Recover, RecoverStart, RecoverDispatched, RecoverAsk, RecoverJoined, RecoverRelease,
      RecoverCompleted, RecoverInterrupted, RecoverJoin, git
<1>14. CASE Disturb
  BY <1>2, <1>14
  DEF Disturb, Crash, Raises, Cancel, CancelOvertakes, WorkerExits, git
<1>15. CASE UNCHANGED vars
  BY <1>2, <1>15 DEF vars, git
<1>. QED
  BY <1>6, <1>7, <1>8, <1>9, <1>10, <1>11, <1>12, <1>13, <1>14, <1>15 DEF Next

LEMMA TreesStep ==
    ASSUME Typed, [Next]_vars
    PROVE  TreesOK'
<1>1. TreesOK
  BY DEF Typed, Shape, TreesOK
<1>2. ASSUME UNCHANGED trees PROVE TreesOK'
  BY <1>1, <1>2 DEF TreesOK
<1>3. ASSUME NEW g, NEW p, NEW X \in {"absent", "clean", "dirty"},
             trees' = [trees EXCEPT ![g][p] = X]
      PROVE  TreesOK'
  BY <1>1, <1>3, TreesAt
<1>4. ASSUME NEW d, WorkerStops(d) PROVE TreesOK'
  BY <1>1, <1>4, WorkerStopsTrees
<1>5. CASE Provision
  <2>1. ASSUME NEW s \in Step, AddTree(s) PROVE TreesOK'
    BY <2>1, <1>3 DEF AddTree, Added
  <2>2. ASSUME NEW s \in Step, Undo(s) PROVE TreesOK'
    BY <2>2, <1>3 DEF Undo
  <2>3. ASSUME NEW s \in Step, AddTreeFails(s) PROVE TreesOK'
    BY <2>3, <1>2 DEF AddTreeFails
  <2>4. ASSUME LeaseGroup \/ Undone \/ FailGroup \/ ActivateGroup PROVE TreesOK'
    BY <2>4, <1>2 DEF LeaseGroup, Undone, FailGroup, ActivateGroup, git
  <2>5. ASSUME NEW g, NEW b, NEW kids, PlanGroup(g, b, kids) PROVE TreesOK'
    BY <2>5, <1>2 DEF PlanGroup, git
  <2>. QED  BY <1>5, <2>1, <2>2, <2>3, <2>4, <2>5 DEF Provision
<1>6. CASE Prepare
  BY <1>2, <1>6
  DEF Prepare, CommandBatch, CommandDispatch, LeaseChild, SavePrepared, RefusePrepare, Allocate, git
<1>7. ASSUME NEW s \in Step, Work(s) PROVE TreesOK'
  <2>1. ASSUME CommitWork(s) PROVE TreesOK'
    BY <2>1, <1>2, <1>3 DEF CommitWork
  <2>2. ASSUME Launch(s) PROVE TreesOK'
    BY <2>2, <1>2, <1>3 DEF Launch
  <2>3. ASSUME ApplyBlocked(s) \/ FailDispatch(s) \/ StallDispatch(s) PROVE TreesOK'
    BY <2>3, <1>4 DEF ApplyBlocked, FailDispatch, StallDispatch
  <2>4. ASSUME ~CommitWork(s), ~Launch(s), ~ApplyBlocked(s), ~FailDispatch(s), ~StallDispatch(s)
        PROVE TreesOK'
    BY <1>7, <2>4, <1>2
    DEF Work, RetryStalled, ApplyCompleted, PersistForwarded, PersistEscalated, FailStep,
        AskReconciliation, StallStep, AskStallRecovery, HandlerRaises, git
  <2>. QED  BY <2>1, <2>2, <2>3, <2>4
<1>8. CASE Join \/ Turn
  BY <1>2, <1>8
  DEF Join, DispatchEnds, FinalizeBatch, AskBatchReconciliation, Turn, Start, Complete, Stop,
      Acknowledge, git
<1>9. CASE Integrate
  <2>1. ASSUME OpenIntegration PROVE TreesOK'
    BY <2>1, <1>3 DEF OpenIntegration, Added
  <2>2. ASSUME IntegrationFails PROVE TreesOK'
    BY <2>2, <1>2, <1>3 DEF IntegrationFails
  <2>3. ASSUME NEW s \in Step, MergeChild(s) PROVE TreesOK'
    BY <2>3, <1>2 DEF MergeChild
  <2>4. ASSUME BeginIntegration \/ Promote \/ SavePromoted \/ FailIntegration
                \/ AskWorkspaceReconciliation
        PROVE TreesOK'
    BY <2>4, <1>2
    DEF BeginIntegration, Promote, SavePromoted, FailIntegration, AskWorkspaceReconciliation, git
  <2>. QED  BY <1>9, <2>1, <2>2, <2>3, <2>4 DEF Integrate
<1>10. ASSUME NEW a \in Command, Cleanup(a) PROVE TreesOK'
  <2>1. ASSUME NEW p \in Place, RemovePlace(a, p) PROVE TreesOK'
    BY <2>1, <1>3 DEF RemovePlace
  <2>2. ASSUME NEW p \in Place, RemovePlaceFails(a, p) PROVE TreesOK'
    <3>. DEFINE g == op[a].group
    <3>1. g \in Group
      BY <2>2, GroupAt DEF RemovePlaceFails, At, CleanupStates
    <3>2. PICK tree \in {trees[g][p], "absent"} : trees' = [trees EXCEPT ![g][p] = tree]
      BY <2>2 DEF RemovePlaceFails
    <3>3. tree \in {"absent", "clean", "dirty"}
      BY <1>1, <3>1, <3>2 DEF TreesOK
    <3>. QED  BY <3>2, <3>3, <1>3
  <2>3. ASSUME BeginCleanup(a) \/ CheckCleanup(a) \/ EndRemoval(a) \/ SaveCleaned(a) \/ SaveUnclean(a)
        PROVE TreesOK'
    BY <2>3, <1>2 DEF BeginCleanup, CheckCleanup, EndRemoval, SaveCleaned, SaveUnclean, git
  <2>. QED  BY <1>10, <2>1, <2>2, <2>3 DEF Cleanup
<1>11. CASE Answer
  BY <1>2, <1>3, <1>11
  DEF Answer, AnswerStep, AnswerBatch, BeginAnswerWorkspace, AnswerWorkspace, AnswerHalt, MergeByHand,
      TidyByHand, git
<1>12. CASE Recover
  BY <1>2, <1>12
  DEF Recover, RecoverStart, RecoverDispatched, RecoverAsk, RecoverJoined, RecoverRelease,
      RecoverCompleted, RecoverInterrupted, RecoverJoin, git
<1>13. CASE Disturb
  BY <1>2, <1>4, <1>13
  DEF Disturb, Crash, Raises, Cancel, CancelOvertakes, WorkerExits, git
<1>14. CASE UNCHANGED vars
  BY <1>2, <1>14 DEF vars, git
<1>. QED
  BY <1>5, <1>6, <1>7, <1>8, <1>9, <1>10, <1>11, <1>12, <1>13, <1>14 DEF Next
-----------------------------------------------------------------------------
(* The other steps, by what they do to the record and to the processes. *)
Still == db' = db /\ thread' = thread /\ barrier' = barrier

TurnsTo(X) ==
    /\ Begins(Execute, "turn")
    /\ op'[Execute].group = 0 /\ op'[Execute].batch = 0 /\ op'[Execute].kids = {}
    /\ op'[Execute].steps = {} /\ op'[Execute].dispatches = X

TurnsGroup(g, target) ==
    /\ GroupsOnly /\ db'.groups = Turned(db.groups, g, target)
    /\ thread' = thread /\ barrier' = barrier

Plans(g, b, kids) ==
    /\ PlanGroup(g, b, kids)
    /\ GroupsOnly /\ thread' = thread /\ barrier' = barrier
    /\ db'.groups[g].state = "PREPARED" /\ db'.groups[g].children = kids
    /\ db'.groups[g].base = source[Shared]
    /\ \A h \in Group \ {g} : db'.groups[h] = db.groups[h]
    /\ Begins(Execute, "leasing")
    /\ op'[Execute].group = g /\ op'[Execute].batch = b /\ op'[Execute].kids = kids
    /\ op'[Execute].steps = kids /\ op'[Execute].dispatches = {}

ProvisionRows ==
    \/ \E g \in Group, b \in Batch, kids \in SUBSET Step : Plans(g, b, kids)
    \/ /\ LeaseGroup /\ Still
       /\ \/ Walks(Execute, "adding") /\ lease' = [lease EXCEPT ![Shared] = GroupOwner(E.group)]
          \/ Walks(Execute, "unprovisioned") /\ lease' = lease
    \/ Undone /\ Still /\ Walks(Execute, "unprovisioned")
    \/ FailGroup /\ TurnsGroup(E.group, "FAILED") /\ Stops(Execute)
    \/ ActivateGroup /\ TurnsGroup(E.group, "ACTIVE") /\ Walks(Execute, "allocating")
    \/ \E s \in Step :
        /\ Still
        /\ \/ AddTree(s) /\ Goes(Execute, "adding", E.steps \ {s})
           \/ AddTreeFails(s) /\ Goes(Execute, "undoing", E.kids \ E.steps)
           \/ Undo(s) /\ Goes(Execute, "undoing", E.steps \ {s})

LEMMA Executing ==
    ASSUME Typed
    PROVE  /\ Shape /\ db \in LooseRecord /\ Execute \in Command /\ Operator \in Command
           /\ Execute # Operator
           /\ \A a \in Command : op[a] \in ProcessRecord
BY DEF Typed, Shape, Command, Execute, Operator

LEMMA ProcessFields ==
    ASSUME Typed, NEW a \in Command
    PROVE  /\ op[a].pc \in CommandStates /\ op[a].group \in Group \cup {0}
           /\ op[a].force \in BOOLEAN /\ op[a].batch \in Batch \cup {0}
           /\ op[a].kids \subseteq Step /\ op[a].steps \subseteq Place
           /\ op[a].dispatches \subseteq Dispatch /\ op[a].failed \in BOOLEAN
BY Executing DEF ProcessRecord

LEMMA StateNames ==
    /\ ProvisionStates \cup PrepareStates \cup IntegrationStates \cup CleanupStates
            \cup RecoverStates \cup {"down", "turn", "running", "batch_asking", "answering"}
        \subseteq CommandStates
    /\ GroupStates = {"NONE", "PREPARED", "ACTIVE", "INTEGRATING", "CLEANUP_PENDING", "CLEANED",
                      "FAILED"}
BY DEF CommandStates, GroupStates

LEMMA ProvisionByRows ==
    ASSUME Typed, Provision
    PROVE  ProvisionRows
<1>. USE Executing DEF E
<1>1. ASSUME NEW g \in Group, NEW b \in Batch, NEW kids \in SUBSET Step, PlanGroup(g, b, kids)
      PROVE  Plans(g, b, kids)
  <2>1. op' = [op EXCEPT ![Execute] = [Down EXCEPT !.pc = "leasing", !.group = g, !.batch = b,
                                                   !.kids = kids, !.steps = kids]]
    BY <1>1 DEF PlanGroup
  <2>2. thread' = thread /\ barrier' = barrier
    BY <1>1 DEF PlanGroup
  <2>3. /\ Begins(Execute, "leasing")
        /\ op'[Execute].group = g /\ op'[Execute].batch = b /\ op'[Execute].kids = kids
        /\ op'[Execute].steps = kids /\ op'[Execute].dispatches = {}
    BY <2>1, BeginEffect
  <2>. QED  BY <1>1, <2>2, <2>3, PlanEffect DEF Plans
<1>2. ASSUME LeaseGroup PROVE ProvisionRows
  <2>1. Still
    BY <1>2 DEF LeaseGroup, Still
  <2>2. \/ Goto(Execute, "adding") /\ lease' = [lease EXCEPT ![Shared] = GroupOwner(E.group)]
        \/ Goto(Execute, "unprovisioned") /\ lease' = lease
    BY <1>2 DEF LeaseGroup
  <2>3. "adding" \in CommandStates /\ "unprovisioned" \in CommandStates
    BY StateNames DEF ProvisionStates
  <2>. QED  BY <1>2, <2>1, <2>2, <2>3, GotoEffect DEF ProvisionRows
<1>3. ASSUME Undone PROVE ProvisionRows
  <2>1. Still /\ Goto(Execute, "unprovisioned")
    BY <1>3 DEF Undone, Still
  <2>2. "unprovisioned" \in CommandStates
    BY StateNames DEF ProvisionStates
  <2>. QED  BY <1>3, <2>1, <2>2, GotoEffect DEF ProvisionRows
<1>4. ASSUME FailGroup PROVE ProvisionRows
  <2>1. /\ db' = Grouped(E.group, "FAILED") /\ Ends(Execute)
        /\ thread' = thread /\ barrier' = barrier
    BY <1>4 DEF FailGroup, LastSave
  <2>. QED  BY <1>4, <2>1, StateNames, GroupedEffect, EndsEffect DEF ProvisionRows, TurnsGroup
<1>5. ASSUME ActivateGroup PROVE ProvisionRows
  <2>1. /\ db' = Grouped(E.group, "ACTIVE") /\ Goto(Execute, "allocating")
        /\ thread' = thread /\ barrier' = barrier
    BY <1>5 DEF ActivateGroup, Save
  <2>2. "allocating" \in CommandStates
    BY StateNames DEF PrepareStates
  <2>. QED  BY <1>5, <2>1, <2>2, StateNames, GroupedEffect, GotoEffect DEF ProvisionRows, TurnsGroup
<1>6. ASSUME NEW s \in Step, AddTree(s) \/ Undo(s) PROVE ProvisionRows
  <2>1. Still /\ op' = [op EXCEPT ![Execute].steps = E.steps \ {s}]
    BY <1>6 DEF AddTree, Undo, Still
  <2>2. Goes(Execute, E.pc, E.steps \ {s})
    BY <2>1, StepsEffect, ProcessFields
  <2>3. (AddTree(s) /\ E.pc = "adding") \/ (Undo(s) /\ E.pc = "undoing")
    BY <1>6 DEF AddTree, Undo, At
  <2>. QED  BY <2>1, <2>2, <2>3 DEF ProvisionRows
<1>7. ASSUME NEW s \in Step, AddTreeFails(s) PROVE ProvisionRows
  <2>1. /\ Still
        /\ op' = [op EXCEPT ![Execute] = [op[Execute] EXCEPT !.pc = "undoing",
                                                             !.steps = E.kids \ E.steps]]
    BY <1>7 DEF AddTreeFails, Still
  <2>2. "undoing" \in CommandStates /\ E.kids \ E.steps \subseteq Place
    BY StateNames, ProcessFields DEF ProvisionStates, Place
  <2>3. Goes(Execute, "undoing", E.kids \ E.steps)
    BY <2>1, <2>2, PlacesEffect
  <2>. QED  BY <1>7, <2>1, <2>3 DEF ProvisionRows
<1>. QED  BY <1>1, <1>2, <1>3, <1>4, <1>5, <1>6, <1>7 DEF Provision, ProvisionRows

(* A command that starts to prepare dispatches for kids. *)
Allocates(b, g, kids) ==
    /\ Still /\ Begins(Execute, "allocating")
    /\ op'[Execute].group = g /\ op'[Execute].batch = b /\ op'[Execute].kids = kids
    /\ op'[Execute].steps = IF g = 0 THEN kids ELSE {}
    /\ op'[Execute].dispatches = {}

(* A batch whose group is removed by force. *)
Forces ==
    /\ Processes /\ Others(Execute)
    /\ op'[Execute].pc = "cleanup" /\ op'[Execute].force
    /\ op'[Execute].group = op[Execute].group
    /\ op[Execute].group # 0 /\ op[Execute].batch # 0

PrepareRows ==
    \/ \E b \in Batch, kids \in SUBSET Step : CommandBatch(b, kids) /\ Allocates(b, 0, kids)
    \/ \E s \in Step : CommandDispatch(s) /\ Allocates(0, GroupFor(s), {s})
    \/ \E s \in Step :
        /\ LeaseChild(s) /\ Still
        /\ \/ /\ Goes(Execute, "allocating", E.steps \ {s}) /\ lease[RepositoryOf(s)] = None
              /\ lease' = [lease EXCEPT ![RepositoryOf(s)] = NextDispatch(s)]
           \/ Stops(Execute) /\ lease' = Freed(Allocated)
    \/ /\ SavePrepared /\ PreparedOnly(E.batch, E.group, E.kids) /\ Walks(Execute, "running")
       /\ barrier' = barrier
       /\ \A s \in Step : thread'[s] = IF s \in E.kids THEN "queued" ELSE thread[s]
    \/ RefusePrepare /\ Still /\ (Stops(Execute) \/ Forces)

LEMMA PrepareByRows ==
    ASSUME Typed, Prepare
    PROVE  PrepareRows
<1>. USE Executing, ProcessFields DEF E
<1>1. ASSUME NEW b \in Batch, NEW kids \in SUBSET Step, CommandBatch(b, kids)
      PROVE  PrepareRows
  <2>1. Still /\ Allocate(b, 0, kids)
    BY <1>1 DEF CommandBatch, Allocate, Still
  <2>. QED  BY <1>1, <2>1, AllocateEffect DEF PrepareRows, Allocates
<1>2. ASSUME NEW s \in Step, CommandDispatch(s) PROVE PrepareRows
  <2>1. Still /\ Allocate(0, GroupFor(s), {s})
    BY <1>2 DEF CommandDispatch, Allocate, Still
  <2>2. GroupFor(s) \in Group \cup {0}
    BY GroupForStep
  <2>3. Allocates(0, GroupFor(s), {s})
    BY <2>1, <2>2, AllocateEffect DEF Allocates
  <2>. QED  BY <1>2, <2>3 DEF PrepareRows
<1>3. ASSUME NEW s \in Step, LeaseChild(s) PROVE PrepareRows
  <2>1. /\ Still /\ E.pc = "allocating"
        /\ \/ /\ op' = [op EXCEPT ![Execute].steps = E.steps \ {s}]
              /\ lease[RepositoryOf(s)] = None
              /\ lease' = [lease EXCEPT ![RepositoryOf(s)] = NextDispatch(s)]
           \/ Ends(Execute) /\ lease' = Freed(Allocated)
    BY <1>3 DEF LeaseChild, Still, At
  <2>2. CASE Ends(Execute) /\ lease' = Freed(Allocated)
    BY <1>3, <2>1, <2>2, EndsEffect DEF PrepareRows
  <2>3. CASE /\ op' = [op EXCEPT ![Execute].steps = E.steps \ {s}]
             /\ lease[RepositoryOf(s)] = None
             /\ lease' = [lease EXCEPT ![RepositoryOf(s)] = NextDispatch(s)]
    <3>1. Goes(Execute, "allocating", E.steps \ {s})
      BY <2>1, <2>3, StepsEffect
    <3>. QED  BY <1>3, <2>1, <2>3, <3>1 DEF PrepareRows
  <2>. QED  BY <2>1, <2>2, <2>3
<1>4. ASSUME SavePrepared PROVE PrepareRows
  <2>1. /\ Save(Execute, Prepared(E.batch, E.group, E.kids)) /\ Goto(Execute, "running")
        /\ thread' = [s \in Step |-> IF s \in E.kids THEN "queued" ELSE thread[s]]
        /\ barrier' = barrier /\ MayPrepare(E.group, E.kids)
    BY <1>4 DEF SavePrepared
  <2>2. PreparedOnly(E.batch, E.group, E.kids)
    BY <2>1, PrepareEffect DEF MayPrepare
  <2>3. "running" \in CommandStates
    BY StateNames
  <2>. QED  BY <1>4, <2>1, <2>2, <2>3, GotoEffect DEF PrepareRows
<1>5. ASSUME RefusePrepare PROVE PrepareRows
  <2>1. /\ Still
        /\ \/ /\ op' = [op EXCEPT ![Execute] = [@ EXCEPT !.pc = "cleanup", !.force = TRUE]]
              /\ op[Execute].group # 0 /\ op[Execute].batch # 0
           \/ Ends(Execute)
    BY <1>5 DEF RefusePrepare, Still
  <2>. QED  BY <1>5, <2>1, EndsEffect, ForceEffect DEF PrepareRows, Forces
<1>. QED  BY <1>1, <1>2, <1>3, <1>4, <1>5 DEF Prepare

(* The end of a batch: what it keeps of its children. *)
Joins(b) ==
    /\ db' \in LooseRecord /\ SameRun
    /\ db'.steps = db.steps /\ db'.dispatches = db.dispatches /\ db'.groups = db.groups
    /\ \A c \in Batch : db'.batches[c].children = db.batches[c].children
    /\ \A c \in Batch \ {b} : db'.batches[c] = db.batches[c]
    /\ db'.batches[b].failed = FailedChildren(b)

AsksBatch ==
    /\ RunOnly /\ db'.run = "WAITING_OPERATOR"
    /\ db'.request.kind = "batch_reconciliation" /\ db'.request.group = 0
    /\ db'.request # NoRequest

Idle == thread' \in [Step -> ThreadStates] /\ \A s \in Step : thread'[s] = "idle"

JoinRows ==
    \/ /\ DispatchEnds /\ db' = db /\ barrier' = barrier /\ Idle
       /\ \/ /\ db.run = "RUNNING" /\ Delivered(E.kids) # {}
             /\ TurnsTo(Delivered(E.kids))
          \/ Stops(Execute)
    \/ /\ FinalizeBatch /\ barrier' = barrier /\ Idle /\ E.batch \in Batch
       /\ \/ db' = db /\ fresh' = fresh /\ Stops(Execute)
          \/ /\ Joins(E.batch) /\ Unresolved(E.batch) = {} /\ fresh' = {Execute}
             /\ \/ Stops(Execute)
                \/ /\ FailedChildren(E.batch) = {} /\ db.run = "RUNNING"
                   /\ TurnsTo(Delivered(E.kids))
                \/ Walks(Execute, "batch_asking")
    \/ /\ AskBatchReconciliation /\ thread' = thread /\ barrier' = barrier
       /\ AsksBatch /\ Stops(Execute)

LEMMA DeliveredDispatches ==
    ASSUME Typed, NEW kids \in SUBSET Step
    PROVE  Delivered(kids) \subseteq Dispatch
<1>1. \A s \in Step : thread[s] = "done" => Current(s) \in Dispatch
  BY Executing, CurrentIsDispatch DEF Typed, Counted, ThreadsOK
<1>. QED  BY <1>1 DEF Delivered

LEMMA JoinByRows ==
    ASSUME Typed, Join
    PROVE  JoinRows
<1>. USE Executing, ProcessFields DEF E
<1>1. ASSUME ThreadsIdle PROVE Idle
  BY <1>1 DEF ThreadsIdle, Idle, ThreadStates
<1>2. Delivered(E.kids) \subseteq Dispatch
  BY DeliveredDispatches
<1>3. ASSUME DispatchEnds PROVE JoinRows
  <2>1. /\ db' = db /\ barrier' = barrier /\ ThreadsIdle
        /\ \/ /\ db.run = "RUNNING" /\ Delivered(E.kids) # {}
              /\ NextTurn(Delivered(E.kids))
           \/ Ends(Execute)
    BY <1>3 DEF DispatchEnds
  <2>. QED  BY <1>1, <1>2, <1>3, <2>1, EndsEffect, TurnEffect DEF JoinRows, TurnsTo
<1>4. ASSUME FinalizeBatch PROVE JoinRows
  <2>1. /\ barrier' = barrier /\ ThreadsIdle /\ E.batch # 0
        /\ \/ db' = db /\ fresh' = fresh /\ Ends(Execute)
           \/ /\ Save(Execute, Joined(E.batch)) /\ Unresolved(E.batch) = {}
              /\ \/ Ends(Execute)
                 \/ /\ FailedChildren(E.batch) = {} /\ db.run = "RUNNING"
                    /\ NextTurn(Delivered(E.kids))
                 \/ Goto(Execute, "batch_asking")
    BY <1>4 DEF FinalizeBatch
  <2>2. E.batch \in Batch
    BY <2>1
  <2>3. ASSUME Save(Execute, Joined(E.batch)) PROVE Joins(E.batch) /\ fresh' = {Execute}
    BY <2>2, <2>3, JoinEffect DEF Save, Joins
  <2>4. ASSUME Goto(Execute, "batch_asking") PROVE Walks(Execute, "batch_asking")
    BY <2>4, GotoEffect, StateNames
  <2>5. ASSUME NextTurn(Delivered(E.kids)) PROVE TurnsTo(Delivered(E.kids))
    BY <1>2, <2>5, TurnEffect DEF TurnsTo
  <2>. QED  BY <1>1, <1>4, <2>1, <2>2, <2>3, <2>4, <2>5, EndsEffect DEF JoinRows
<1>5. ASSUME AskBatchReconciliation PROVE JoinRows
  <2>1. db' = AskBatch(E.batch) /\ Ends(Execute) /\ thread' = thread /\ barrier' = barrier
    BY <1>5 DEF AskBatchReconciliation, LastSave
  <2>2. AsksBatch
    BY <2>1, AskBatchEffect DEF AsksBatch
  <2>. QED  BY <1>5, <2>1, <2>2, EndsEffect DEF JoinRows
<1>. QED  BY <1>3, <1>4, <1>5 DEF Join

Acknowledges(d) ==
    /\ db' \in LooseRecord /\ SameRun
    /\ db'.dispatches = Turned(db.dispatches, d, "ACKNOWLEDGED")
    /\ db'.steps = db.steps /\ db'.batches = db.batches /\ db'.groups = db.groups
    /\ thread' = thread /\ barrier' = barrier
    /\ Processes /\ Others(Execute)
    /\ op'[Execute].pc = IF db.dispatches[d].group # 0 /\ MayIntegrate(db', db.dispatches[d].group)
                         THEN "integrate" ELSE "turn"
    /\ op'[Execute].group = db.dispatches[d].group
    /\ op'[Execute].force = op[Execute].force
    /\ op'[Execute].dispatches = op[Execute].dispatches \ {d}

TurnRows ==
    \/ Start /\ Still /\ TurnsTo({})
    \/ /\ Complete /\ thread' = thread /\ barrier' = barrier
       /\ RunOnly /\ db'.run = "SUCCEEDED" /\ db'.request = db.request /\ Stops(Execute)
    \/ Stop /\ Still /\ Stops(Execute)
    \/ \E d \in Dispatch : Acknowledge(d) /\ Acknowledges(d)

LEMMA TurnByRows ==
    ASSUME Typed, Turn
    PROVE  TurnRows
<1>. USE Executing
<1>1. ASSUME Start PROVE TurnRows
  <2>1. Still /\ NextTurn({})
    BY <1>1 DEF Start, Still
  <2>. QED  BY <1>1, <2>1, TurnEffect DEF TurnRows, TurnsTo
<1>2. ASSUME Complete PROVE TurnRows
  <2>1. thread' = thread /\ barrier' = barrier /\ Ends(Execute)
    BY <1>2 DEF Complete
  <2>. QED  BY <1>2, <2>1, EndsEffect, CompleteEffect DEF TurnRows
<1>3. ASSUME Stop PROVE TurnRows
  <2>1. Still /\ Ends(Execute)
    BY <1>3 DEF Stop, Still
  <2>. QED  BY <1>3, <2>1, EndsEffect DEF TurnRows
<1>4. ASSUME NEW d \in Dispatch, Acknowledge(d) PROVE Acknowledges(d)
  <2>1. db' = Dispatched(db, d, "ACKNOWLEDGED") /\ thread' = thread /\ barrier' = barrier
    BY <1>4 DEF Acknowledge, Save
  <2>2. /\ Processes /\ Others(Execute)
        /\ op'[Execute].pc =
             IF db.dispatches[d].group # 0
                    /\ MayIntegrate(Dispatched(db, d, "ACKNOWLEDGED"), db.dispatches[d].group)
             THEN "integrate" ELSE "turn"
        /\ op'[Execute].group = db.dispatches[d].group
        /\ op'[Execute].force = op[Execute].force
        /\ op'[Execute].dispatches = op[Execute].dispatches \ {d}
    BY <1>4, AcknowledgeGoes
  <2>3. /\ db' \in LooseRecord /\ SameRun
        /\ db'.dispatches = Turned(db.dispatches, d, "ACKNOWLEDGED")
        /\ db'.steps = db.steps /\ db'.batches = db.batches /\ db'.groups = db.groups
    BY <1>4, AcknowledgeEffect
  <2>. QED  BY <2>1, <2>2, <2>3 DEF Acknowledges
<1>. QED  BY <1>1, <1>2, <1>3, <1>4 DEF Turn, TurnRows

AsksGroup ==
    /\ RunOnly /\ db'.run = "WAITING_OPERATOR"
    /\ db'.request.kind = "workspace_reconciliation"
    /\ db'.request.group = op[Execute].group
    /\ db'.request # NoRequest
    /\ thread' = thread /\ barrier' = barrier

SavesPromoted ==
    /\ GroupsOnly /\ thread' = thread /\ barrier' = barrier
    /\ \A g \in Group : /\ db'.groups[g].state = db.groups[g].state
                        /\ db'.groups[g].children = db.groups[g].children
                        /\ db'.groups[g].base = db.groups[g].base

IntegrateRows ==
    \/ BeginIntegration /\ TurnsGroup(E.group, "INTEGRATING") /\ Walks(Execute, "opening")
    \/ OpenIntegration /\ Still /\ Goes(Execute, "merging", db.groups[E.group].children)
    \/ \E s \in Step : MergeChild(s) /\ Still /\ Goes(Execute, "merging", E.steps \ {s})
    \/ Promote /\ Still /\ Walks(Execute, "promoted")
    \/ IntegrationFails /\ Still /\ Walks(Execute, "unintegrated")
    \/ SavePromoted /\ SavesPromoted /\ Walks(Execute, "cleanup")
    \/ FailIntegration /\ TurnsGroup(E.group, "FAILED") /\ Walks(Execute, "asking")
    \/ AskWorkspaceReconciliation /\ AsksGroup /\ TurnsTo(E.dispatches)

LEMMA IntegrateByRows ==
    ASSUME Typed, Integrate
    PROVE  IntegrateRows
<1>. USE Executing, ProcessFields, StateNames DEF E
<1>0. \A pc \in IntegrationStates \cup CleanupStates : Goto(Execute, pc) => Walks(Execute, pc)
  BY GotoEffect
<1>1. ASSUME BeginIntegration PROVE IntegrateRows
  <2>1. /\ db' = Grouped(E.group, "INTEGRATING") /\ Goto(Execute, "opening")
        /\ thread' = thread /\ barrier' = barrier
    BY <1>1 DEF BeginIntegration, Save
  <2>2. TurnsGroup(E.group, "INTEGRATING")
    BY <2>1, GroupedEffect DEF TurnsGroup
  <2>. QED  BY <1>0, <1>1, <2>1, <2>2 DEF IntegrateRows, IntegrationStates
<1>2. ASSUME OpenIntegration PROVE IntegrateRows
  <2>1. /\ Still
        /\ op' = [op EXCEPT ![Execute] = [op[Execute] EXCEPT !.pc = "merging",
                                                   !.steps = db.groups[E.group].children]]
    BY <1>2 DEF OpenIntegration, Still
  <2>2. E.group \in Group
    BY <1>2, GroupAt DEF OpenIntegration, At, IntegrationStates
  <2>3. db.groups[E.group].children \subseteq Place /\ "merging" \in CommandStates
    BY <2>2, GroupHasBase DEF Place, IntegrationStates
  <2>4. Goes(Execute, "merging", db.groups[E.group].children)
    BY <2>1, <2>3, PlacesEffect
  <2>. QED  BY <1>2, <2>1, <2>4 DEF IntegrateRows
<1>3. ASSUME NEW s \in Step, MergeChild(s) PROVE IntegrateRows
  <2>1. Still /\ op' = [op EXCEPT ![Execute].steps = E.steps \ {s}] /\ E.pc = "merging"
    BY <1>3 DEF MergeChild, Still, At
  <2>2. Goes(Execute, "merging", E.steps \ {s})
    BY <2>1, StepsEffect
  <2>. QED  BY <1>3, <2>1, <2>2 DEF IntegrateRows
<1>4. ASSUME Promote PROVE IntegrateRows
  <2>1. Still /\ Goto(Execute, "promoted")
    BY <1>4 DEF Promote, Still
  <2>. QED  BY <1>0, <1>4, <2>1 DEF IntegrateRows, IntegrationStates
<1>5. ASSUME IntegrationFails PROVE IntegrateRows
  <2>1. Still /\ Goto(Execute, "unintegrated")
    BY <1>5 DEF IntegrationFails, Still
  <2>. QED  BY <1>0, <1>5, <2>1 DEF IntegrateRows, IntegrationStates
<1>6. ASSUME SavePromoted PROVE IntegrateRows
  <2>1. Goto(Execute, "cleanup") /\ thread' = thread /\ barrier' = barrier
    BY <1>6 DEF SavePromoted
  <2>2. SavesPromoted
    BY <1>6, <2>1, PromotedEffect DEF SavesPromoted
  <2>. QED  BY <1>0, <1>6, <2>1, <2>2 DEF IntegrateRows, CleanupStates
<1>7. ASSUME FailIntegration PROVE IntegrateRows
  <2>1. /\ db' = Grouped(E.group, "FAILED") /\ Goto(Execute, "asking")
        /\ thread' = thread /\ barrier' = barrier
    BY <1>7 DEF FailIntegration, Save
  <2>2. TurnsGroup(E.group, "FAILED")
    BY <2>1, GroupedEffect DEF TurnsGroup
  <2>. QED  BY <1>0, <1>7, <2>1, <2>2 DEF IntegrateRows, IntegrationStates
<1>8. ASSUME AskWorkspaceReconciliation PROVE IntegrateRows
  <2>1. NextTurn(E.dispatches) /\ thread' = thread /\ barrier' = barrier /\ E.pc = "asking"
    BY <1>8 DEF AskWorkspaceReconciliation, At
  <2>2. E.group # 0
    BY <2>1 DEF Typed, Named, IntegrationStates
  <2>3. AsksGroup
    BY <1>8, <2>1, <2>2, AskGroupEffect DEF AsksGroup
  <2>4. TurnsTo(E.dispatches)
    BY <2>1, TurnEffect DEF TurnsTo
  <2>. QED  BY <1>8, <2>3, <2>4 DEF IntegrateRows
<1>. QED  BY <1>1, <1>2, <1>3, <1>4, <1>5, <1>6, <1>7, <1>8 DEF Integrate

(* One place fewer to remove. *)
Removes(a, p, missing) ==
    /\ Still /\ Goes(a, "removing", op[a].steps \ {p})
    /\ (op'[a].failed <=> op[a].failed \/ missing)

CleanupRows(a) ==
    LET g == op[a].group IN
    \/ /\ BeginCleanup(a)
       /\ \/ Still /\ State(g) = "CLEANED" /\ Walks(a, "answering")
          \/ Still /\ State(g) = "CLEANUP_PENDING" /\ Walks(a, "checking")
          \/ /\ State(g) \notin {"CLEANED", "CLEANUP_PENDING"}
             /\ TurnsGroup(g, "CLEANUP_PENDING") /\ Walks(a, "checking")
    \/ /\ CheckCleanup(a) /\ Still /\ ~op'[a].failed
       /\ \/ Goes(a, "removing", Owned(g)) /\ (op[a].force \/ Removable(g))
          \/ Goes(a, "unclean", Owned(g))
    \/ \E p \in Place :
        \/ RemovePlace(a, p) /\ Removes(a, p, p # Integration /\ heads[g][p] = Gone)
        \/ RemovePlaceFails(a, p) /\ Removes(a, p, TRUE)
    \/ /\ EndRemoval(a) /\ Still
       /\ \/ Walks(a, "unclean") /\ op[a].failed /\ lease' = lease
          \/ Walks(a, "removed") /\ ~op[a].failed /\ lease' = Freed({GroupOwner(g)})
    \/ /\ SaveCleaned(a) /\ TurnsGroup(g, "CLEANED")
       /\ \/ a = Operator /\ Walks(a, "answering")
          \/ a = Execute /\ Stops(a)
          \/ a = Execute /\ ~op[a].force /\ TurnsTo(op[a].dispatches)
    \/ /\ SaveUnclean(a) /\ TurnsGroup(g, "FAILED")
       /\ \/ a = Execute /\ ~op[a].force /\ Walks(a, "asking")
          \/ Stops(a)

LEMMA CleanupByRows ==
    ASSUME Typed, NEW a \in Command, Cleanup(a)
    PROVE  CleanupRows(a)
<1>. USE Executing, ProcessFields, StateNames
<1>0. \A pc \in IntegrationStates \cup CleanupStates \cup {"answering"} :
        Goto(a, pc) => Walks(a, pc)
  BY GotoEffect
<1>. DEFINE g == op[a].group
<1>1. ASSUME BeginCleanup(a) PROVE CleanupRows(a)
  <2>1. \/ Still /\ State(g) = "CLEANED" /\ Goto(a, "answering")
        \/ Still /\ State(g) = "CLEANUP_PENDING" /\ Goto(a, "checking")
        \/ /\ State(g) \notin {"CLEANED", "CLEANUP_PENDING"}
           /\ db' = Grouped(g, "CLEANUP_PENDING") /\ thread' = thread /\ barrier' = barrier
           /\ Goto(a, "checking")
    BY <1>1 DEF BeginCleanup, Still, Save, State, Goto
  <2>2. ASSUME db' = Grouped(g, "CLEANUP_PENDING"), thread' = thread, barrier' = barrier
        PROVE  TurnsGroup(g, "CLEANUP_PENDING")
    BY <2>2, GroupedEffect DEF TurnsGroup
  <2>3. /\ Goto(a, "answering") => Walks(a, "answering")
        /\ Goto(a, "checking") => Walks(a, "checking")
    BY <1>0 DEF CleanupStates
  <2>. QED  BY <1>1, <2>1, <2>2, <2>3 DEF CleanupRows
<1>2. ASSUME CheckCleanup(a) PROVE CleanupRows(a)
  <2>1. Still /\ op[a].pc = "checking"
    BY <1>2 DEF CheckCleanup, Still, At
  <2>2. g # 0
    BY <2>1, GroupAt DEF CleanupStates, Typed, Named
  <2>3. /\ Goes(a, IF op[a].force \/ Removable(g) THEN "removing" ELSE "unclean", Owned(g))
        /\ ~op'[a].failed
    BY <1>2, <2>2, CheckEffect
  <2>. QED  BY <1>2, <2>1, <2>3 DEF CleanupRows
<1>3. ASSUME NEW p \in Place, RemovePlace(a, p) PROVE CleanupRows(a)
  <2>. DEFINE missing == p # Integration /\ heads[g][p] = Gone
  <2>1. Still /\ Removed(a, p, missing) /\ op[a].pc = "removing"
    BY <1>3 DEF RemovePlace, Still, At
  <2>2. missing \in BOOLEAN
    OBVIOUS
  <2>3. Removes(a, p, missing)
    BY <2>1, <2>2, RemovedEffect DEF Removes
  <2>. QED  BY <1>3, <2>3 DEF CleanupRows
<1>4. ASSUME NEW p \in Place, RemovePlaceFails(a, p) PROVE CleanupRows(a)
  <2>1. Still /\ Removed(a, p, TRUE) /\ op[a].pc = "removing"
    BY <1>4 DEF RemovePlaceFails, Still, At
  <2>2. Removes(a, p, TRUE)
    BY <2>1, RemovedEffect DEF Removes
  <2>. QED  BY <1>4, <2>2 DEF CleanupRows
<1>5. ASSUME EndRemoval(a) PROVE CleanupRows(a)
  <2>1. /\ Still
        /\ \/ Goto(a, "unclean") /\ op[a].failed /\ lease' = lease
           \/ Goto(a, "removed") /\ ~op[a].failed /\ lease' = Freed({GroupOwner(g)})
    BY <1>5 DEF EndRemoval, Still
  <2>. QED  BY <1>0, <1>5, <2>1 DEF CleanupRows, CleanupStates
<1>6. ASSUME SaveCleaned(a) PROVE CleanupRows(a)
  <2>1. /\ db' = Grouped(g, "CLEANED") /\ thread' = thread /\ barrier' = barrier
        /\ \/ a = Operator /\ Goto(a, "answering")
           \/ a = Execute /\ Ends(a)
           \/ a = Execute /\ ~op[a].force /\ NextTurn(op[a].dispatches)
    BY <1>6 DEF SaveCleaned, AfterCleanup, Save, Command
  <2>2. TurnsGroup(g, "CLEANED")
    BY <2>1, GroupedEffect DEF TurnsGroup
  <2>3. NextTurn(op[a].dispatches) => TurnsTo(op[a].dispatches)
    BY TurnEffect DEF TurnsTo
  <2>4. Ends(a) => Stops(a)
    BY EndsEffect
  <2>5. Goto(a, "answering") => Walks(a, "answering")
    BY <1>0
  <2>. QED  BY <1>6, <2>1, <2>2, <2>3, <2>4, <2>5 DEF CleanupRows
<1>7. ASSUME SaveUnclean(a) PROVE CleanupRows(a)
  <2>1. /\ db' = Grouped(g, "FAILED") /\ thread' = thread /\ barrier' = barrier
        /\ \/ a = Execute /\ ~op[a].force /\ Goto(a, "asking")
           \/ Ends(a)
    BY <1>7 DEF SaveUnclean, Save
  <2>2. TurnsGroup(g, "FAILED")
    BY <2>1, GroupedEffect DEF TurnsGroup
  <2>3. Ends(a) => Stops(a)
    BY EndsEffect
  <2>4. Goto(a, "asking") => Walks(a, "asking")
    BY <1>0 DEF IntegrationStates
  <2>. QED  BY <1>7, <2>1, <2>2, <2>3, <2>4 DEF CleanupRows
<1>. QED  BY <1>1, <1>2, <1>3, <1>4, <1>5, <1>6, <1>7 DEF Cleanup

AnswerRows ==
    \/ (AnswerStep \/ AnswerBatch) /\ Readied /\ op' = op
    \/ /\ BeginAnswerWorkspace /\ Still
       /\ Begins(Operator, "cleanup") /\ op'[Operator].group = db.request.group
    \/ /\ AnswerWorkspace /\ RunOnly /\ db'.run = "RUNNING" /\ db'.request = NoRequest
       /\ Stops(Operator)
    \/ /\ AnswerHalt /\ RunOnly /\ db'.run = "HALTED" /\ db'.request = NoRequest
       /\ op' = op
    \/ \E g \in Group, p \in Place :
        (MergeByHand(g, p) \/ TidyByHand(g, p)) /\ Still /\ op' = op

LEMMA AnswerByRows ==
    ASSUME Typed, Answer
    PROVE  AnswerRows /\ thread' = thread /\ barrier' = barrier
<1>. USE Executing
<1>1. ASSUME AnswerStep \/ AnswerBatch
      PROVE  AnswerRows /\ thread' = thread /\ barrier' = barrier
  <2>1. op' = op /\ thread' = thread /\ barrier' = barrier
    BY <1>1 DEF AnswerStep, AnswerBatch
  <2>. QED  BY <1>1, <2>1, AnswerStepEffect, AnswerBatchEffect DEF AnswerRows
<1>2. ASSUME BeginAnswerWorkspace
      PROVE  AnswerRows /\ thread' = thread /\ barrier' = barrier
  <2>1. Still
    BY <1>2 DEF BeginAnswerWorkspace, Still
  <2>. QED  BY <1>2, <2>1, BeginAnswerEffect DEF AnswerRows, Still
<1>3. ASSUME AnswerWorkspace
      PROVE  AnswerRows /\ thread' = thread /\ barrier' = barrier
  <2>1. Ends(Operator) /\ thread' = thread /\ barrier' = barrier
    BY <1>3 DEF AnswerWorkspace
  <2>. QED  BY <1>3, <2>1, EndsEffect, AnswerWorkspaceEffect DEF AnswerRows
<1>4. ASSUME AnswerHalt
      PROVE  AnswerRows /\ thread' = thread /\ barrier' = barrier
  <2>1. op' = op /\ thread' = thread /\ barrier' = barrier
    BY <1>4 DEF AnswerHalt
  <2>. QED  BY <1>4, <2>1, HaltEffect DEF AnswerRows
<1>5. ASSUME NEW g \in Group, NEW p \in Place, MergeByHand(g, p) \/ TidyByHand(g, p)
      PROVE  AnswerRows /\ thread' = thread /\ barrier' = barrier
  <2>1. Still /\ op' = op
    BY <1>5 DEF MergeByHand, TidyByHand, Still
  <2>. QED  BY <1>5, <2>1 DEF AnswerRows, Still
<1>. QED  BY <1>1, <1>2, <1>3, <1>4, <1>5 DEF Answer

Recovers(d, kids) ==
    /\ Processes /\ Others(Operator)
    /\ op[Operator].pc = "recovering"
    /\ op'[Operator].pc = op[Operator].pc /\ op'[Operator].group = op[Operator].group
    /\ op'[Operator].force = op[Operator].force
    /\ op'[Operator].kids = op[Operator].kids \cup kids

RecoverRows ==
    \/ RecoverStart /\ db' = db /\ Begins(Operator, "recovering") /\ op'[Operator].kids = {}
    \/ RecoverDispatched /\ db' = db /\ Walks(Operator, "joining") /\ O.pc = "recovering"
    \/ RecoverAsk /\ AsksBatch /\ Walks(Operator, "joining") /\ O.pc = "join_asking"
    \/ RecoverJoined /\ db' = db /\ Walks(Operator, "releasing") /\ O.pc = "joining"
    \/ RecoverRelease /\ db' = db /\ Stops(Operator) /\ O.pc = "releasing"
    \/ \E d \in Dispatch :
        \/ RecoverCompleted(d) /\ db' = db /\ Recovers(d, {})
        \/ /\ RecoverInterrupted(d) /\ db.dispatches[d].state \in InFlightStates
           /\ \/ db' = db /\ Recovers(d, {})
              \/ Interrupted(d) /\ Recovers(d, {d[1]})
    \/ \E b \in Batch :
        /\ RecoverJoin(b) /\ Joins(b) /\ Processes /\ Others(Operator)
        /\ O.pc = "joining" /\ op'[Operator].pc \in {"joining", "join_asking"}
        /\ op'[Operator].group = O.group /\ op'[Operator].force = O.force
        /\ op'[Operator].kids = O.kids

LEMMA RecoverByRows ==
    ASSUME Typed, Recover
    PROVE  RecoverRows /\ thread' = thread /\ barrier' = barrier
<1>. USE Executing, ProcessFields, StateNames DEF O
<1>0. \A pc \in RecoverStates : Goto(Operator, pc) => Walks(Operator, pc)
  BY GotoEffect
<1>1. thread' = thread /\ barrier' = barrier
  BY DEF Recover, RecoverStart, RecoverDispatched, RecoverAsk, RecoverJoined, RecoverRelease,
         RecoverCompleted, RecoverInterrupted, RecoverJoin
<1>2. ASSUME RecoverStart PROVE RecoverRows
  <2>1. db' = db
    BY <1>2 DEF RecoverStart
  <2>. QED  BY <1>2, <2>1, RecoverStartEffect DEF RecoverRows
<1>3. ASSUME RecoverDispatched PROVE RecoverRows
  <2>1. db' = db /\ Goto(Operator, "joining") /\ O.pc = "recovering"
    BY <1>3 DEF RecoverDispatched, At
  <2>. QED  BY <1>0, <1>3, <2>1 DEF RecoverRows, RecoverStates
<1>4. ASSUME RecoverAsk PROVE RecoverRows
  <2>1. db' = AskBatch(O.batch) /\ Goto(Operator, "joining") /\ O.pc = "join_asking"
    BY <1>4 DEF RecoverAsk, LastSave, At
  <2>2. AsksBatch
    BY <2>1, AskBatchEffect DEF AsksBatch
  <2>. QED  BY <1>0, <1>4, <2>1, <2>2 DEF RecoverRows, RecoverStates
<1>5. ASSUME RecoverJoined PROVE RecoverRows
  <2>1. db' = db /\ Goto(Operator, "releasing") /\ O.pc = "joining"
    BY <1>5 DEF RecoverJoined, At
  <2>. QED  BY <1>0, <1>5, <2>1 DEF RecoverRows, RecoverStates
<1>6. ASSUME RecoverRelease PROVE RecoverRows
  <2>1. db' = db /\ Ends(Operator) /\ O.pc = "releasing"
    BY <1>6 DEF RecoverRelease, At
  <2>. QED  BY <1>6, <2>1, EndsEffect DEF RecoverRows
<1>7. ASSUME NEW d \in Dispatch, RecoverCompleted(d) PROVE RecoverRows
  <2>1. db' = db /\ Recovered(d, {}) /\ O.pc = "recovering"
    BY <1>7 DEF RecoverCompleted, At
  <2>2. Recovers(d, {})
    BY <2>1, RecoveredEffect DEF Recovers
  <2>. QED  BY <1>7, <2>1, <2>2 DEF RecoverRows
<1>8. ASSUME NEW d \in Dispatch, RecoverInterrupted(d) PROVE RecoverRows
  <2>1. O.pc = "recovering"
    BY <1>8 DEF RecoverInterrupted, At
  <2>2. ASSUME NEW K \in SUBSET Step, Recovered(d, K) PROVE Recovers(d, K)
    BY <2>1, <2>2, RecoveredEffect DEF Recovers
  <2>3. {d[1]} \subseteq Step
    BY DispatchPairs
  <2>4. \/ db' = db /\ Recovers(d, {})
        \/ Interrupted(d) /\ Recovers(d, {d[1]})
    BY <1>8, <2>2, <2>3, InterruptedEffect
  <2>5. db.dispatches[d].state \in InFlightStates
    BY <1>8, InterruptedEffect
  <2>. QED  BY <1>8, <2>4, <2>5 DEF RecoverRows
<1>9. ASSUME NEW b \in Batch, RecoverJoin(b) PROVE RecoverRows
  <2>1. db' = Joined(b)
    BY <1>9 DEF RecoverJoin, Save
  <2>2. Joins(b)
    BY <2>1, JoinEffect DEF Joins
  <2>. QED  BY <1>9, <2>2, RecoverJoinEffect DEF RecoverRows
<1>. QED  BY <1>1, <1>2, <1>3, <1>4, <1>5, <1>6, <1>7, <1>8, <1>9 DEF Recover

DisturbRows ==
    \/ /\ \E a \in Command :
            \/ Crash(a) /\ Stops(a) /\ (IF a = Execute THEN Idle ELSE thread' = thread)
            \/ /\ Raises(a) /\ thread' = thread
               /\ \/ a = Execute /\ E.pc = "cleanup" /\ ~E.force /\ Walks(a, "asking")
                  \/ Stops(a)
    \/ /\ \E s \in Step :
            \/ Cancel(s) /\ thread' = thread
            \/ /\ CancelOvertakes(s) /\ thread[s] = "working"
               /\ thread' \in [Step -> ThreadStates]
               /\ thread'[s] = "raised" /\ \A t \in Step \ {s} : thread'[t] = thread[t]
       /\ op' = op
    \/ \E d \in Dispatch : WorkerExits(d) /\ thread' = thread /\ op' = op

LEMMA DisturbByRows ==
    ASSUME Typed, Disturb
    PROVE  DisturbRows /\ db' = db /\ barrier' = barrier
<1>. USE Executing DEF E
<1>1. db' = db /\ barrier' = barrier
  BY DEF Disturb, Crash, Raises, Cancel, CancelOvertakes, WorkerExits
<1>2. ASSUME NEW a \in Command, Crash(a) PROVE DisturbRows
  <2>1. Ends(a) /\ IF a = Execute THEN ThreadsIdle ELSE thread' = thread
    BY <1>2 DEF Crash
  <2>2. ThreadsIdle => Idle
    BY DEF ThreadsIdle, Idle, ThreadStates
  <2>. QED  BY <1>2, <2>1, <2>2, EndsEffect DEF DisturbRows
<1>3. ASSUME NEW a \in Command, Raises(a) PROVE DisturbRows
  <2>1. /\ thread' = thread
        /\ \/ a = Execute /\ E.pc = "cleanup" /\ ~E.force /\ Goto(a, "asking")
           \/ Ends(a)
    BY <1>3 DEF Raises, At
  <2>2. Goto(a, "asking") => Walks(a, "asking")
    BY GotoEffect, StateNames DEF IntegrationStates
  <2>. QED  BY <1>3, <2>1, <2>2, EndsEffect DEF DisturbRows
<1>4. ASSUME NEW s \in Step, Cancel(s) PROVE DisturbRows
  BY <1>4 DEF Cancel, DisturbRows
<1>5. ASSUME NEW s \in Step, CancelOvertakes(s) PROVE DisturbRows
  <2>1. op' = op /\ thread[s] = "working" /\ thread' = [thread EXCEPT ![s] = "raised"]
    BY <1>5 DEF CancelOvertakes, Steps
  <2>2. /\ thread' \in [Step -> ThreadStates]
        /\ thread'[s] = "raised" /\ \A t \in Step \ {s} : thread'[t] = thread[t]
    BY <2>1 DEF Shape, ThreadStates
  <2>. QED  BY <1>5, <2>1, <2>2 DEF DisturbRows
<1>6. ASSUME NEW d \in Dispatch, WorkerExits(d) PROVE DisturbRows
  BY <1>6 DEF WorkerExits, DisturbRows
<1>. QED  BY <1>1, <1>2, <1>3, <1>4, <1>5, <1>6 DEF Disturb
-----------------------------------------------------------------------------
(* The values of the record: what is saved keeps the counters in order. *)
Recorded == db \in LooseRecord /\ RequestOK /\ FailedOK /\ AttemptsOK

LEMMA TypedIsRecorded ==
    ASSUME Typed
    PROVE  /\ Recorded
           /\ \A s \in Step : /\ db.steps[s] \in StepRecord /\ db.steps[s].attempts \in Nat
                              /\ db.steps[s].stalls \in Nat /\ MaxAttempts[s] \in Nat
           /\ \A d \in Dispatch : db.dispatches[d] \in DispatchRecord
           /\ \A b \in Batch : db.batches[b] \in BatchRecord
           /\ \A g \in Group : db.groups[g] \in LooseGroup
BY BoundAssumption DEF Typed, Shape, Counted, Recorded, LooseRecord, StepRecord

LEMMA SameRecorded ==
    ASSUME Typed, db' = db
    PROVE  Recorded'
BY TypedIsRecorded DEF Recorded, RequestOK, FailedOK, AttemptsOK

LEMMA GroupsRecorded ==
    ASSUME Typed, GroupsOnly
    PROVE  Recorded'
BY TypedIsRecorded DEF Recorded, RequestOK, FailedOK, AttemptsOK, GroupsOnly, SameRun

LEMMA RunRecorded ==
    ASSUME Typed, RunOnly, RequestOK'
    PROVE  Recorded'
BY TypedIsRecorded DEF Recorded, FailedOK, AttemptsOK, RunOnly

LEMMA JoinsRecorded ==
    ASSUME Typed, NEW b \in Batch, Joins(b)
    PROVE  Recorded'
BY TypedIsRecorded
DEF Recorded, RequestOK, FailedOK, AttemptsOK, Joins, SameRun, FailedChildren

LEMMA ReadiedRecorded ==
    ASSUME Typed, Readied
    PROVE  Recorded'
BY TypedIsRecorded, RequestFields DEF Recorded, RequestOK, FailedOK, AttemptsOK, Readied

LEMMA PreparedRecorded ==
    ASSUME Typed, NEW b, NEW g, NEW kids \in SUBSET Step, PreparedOnly(b, g, kids),
           \A s \in kids : db.steps[s].attempts < MaxAttempts[s]
    PROVE  Recorded'
<1>1. RequestOK'
  BY TypedIsRecorded DEF Recorded, RequestOK, PreparedOnly, SameRun
<1>2. FailedOK'
  BY TypedIsRecorded DEF Recorded, FailedOK, PreparedOnly
<1>3. AttemptsOK'
  BY TypedIsRecorded DEF Recorded, AttemptsOK, PreparedOnly
<1>. QED  BY <1>1, <1>2, <1>3 DEF Recorded, PreparedOnly

(* The counters of the steps, when their states move. *)
LEMMA TurnedCounts ==
    ASSUME Typed, NEW s, NEW target \in StepStatuses, db'.steps = Turned(db.steps, s, target)
    PROVE  /\ AttemptsOK'
           /\ \A t \in Step : /\ db'.steps[t].attempts = db.steps[t].attempts
                              /\ db'.steps[t].stalls = db.steps[t].stalls
                              /\ db'.steps[t].state = IF t = s THEN target ELSE db.steps[t].state
<1>1. db.steps \in [Step -> StepRecord]
  BY DEF Typed, Shape, LooseRecord
<1>2. \A t \in Step : /\ db'.steps[t].attempts = db.steps[t].attempts
                      /\ db'.steps[t].stalls = db.steps[t].stalls
                      /\ db'.steps[t].state = IF t = s THEN target ELSE db.steps[t].state
  BY <1>1, TurnedStep
<1>. QED  BY <1>2, TypedIsRecorded DEF Recorded, AttemptsOK

LEMMA AskedRequest ==
    ASSUME NEW s, Asks(s)
    PROVE  RequestOK'
BY DEF Asks, RequestOK

LEMMA SameRequest ==
    ASSUME Typed, SameRun
    PROVE  RequestOK'
BY TypedIsRecorded DEF SameRun, Recorded, RequestOK

LEMMA WorkRecorded ==
    ASSUME Typed, NEW s \in Step, Work(s)
    PROVE  Recorded'
<1>. USE Executing
<1>1. WorkRows(s)
  BY WorkByRows
<1>2. ASSUME NEW target, Reports(s, target) PROVE db' \in LooseRecord /\ FailedOK'
  BY <1>2, TypedIsRecorded DEF Reports, Recorded, FailedOK
<1>3. ASSUME SameDispatches PROVE db' \in LooseRecord /\ FailedOK'
  BY <1>3, TypedIsRecorded DEF SameDispatches, Recorded, FailedOK
<1>4. ASSUME db'.steps = db.steps PROVE AttemptsOK'
  BY <1>4, TypedIsRecorded DEF Recorded, AttemptsOK
<1>5. ASSUME Launch(s) PROVE Recorded'
  BY <1>5, <1>2, <1>4, LaunchEffect, SameRequest DEF Recorded
<1>6. ASSUME RetryStalled(s) PROVE Recorded'
  <2>1. CASE db' = db
    BY <2>1, SameRecorded
  <2>2. CASE /\ PreparedOnly(0, GroupFor(s), {s}) /\ db.steps[s].attempts < MaxAttempts[s]
    BY <2>2, PreparedRecorded
  <2>. QED  BY <1>6, <2>1, <2>2, RetryEffect
<1>7. ASSUME StallStep(s) PROVE Recorded'
  <2>1. /\ SameDispatches /\ SameRun
        /\ \A t \in Step \ {s} : db'.steps[t] = db.steps[t]
        /\ db'.steps[s].attempts = db.steps[s].attempts
        /\ db'.steps[s].stalls = db.steps[s].stalls + 1
        /\ thread[s] = "stalling"
    BY <1>7, StallEffect
  <2>2. db.steps[s].stalls < db.steps[s].attempts
    BY <2>1 DEF Typed, Counted, ThreadsOK
  <2>3. AttemptsOK'
    BY <2>1, <2>2, TypedIsRecorded DEF Recorded, AttemptsOK
  <2>. QED  BY <1>3, <2>1, <2>3, SameRequest DEF Recorded
<1>8. ASSUME db' = db PROVE Recorded'
  BY <1>8, SameRecorded
<1>9. ASSUME Reports(s, "COMPLETED"), SameRun,
             NEW target \in StepStatuses, db'.steps = Turned(db.steps, s, target)
      PROVE  Recorded'
  BY <1>9, <1>2, TurnedCounts, SameRequest DEF Recorded
<1>10. ASSUME Reports(s, "FORWARDED"), db'.steps = db.steps, SameRun \/ Asks(s)
       PROVE  Recorded'
  BY <1>10, <1>2, <1>4, SameRequest, AskedRequest DEF Recorded
<1>11. ASSUME Reports(s, "FAILED"), db'.steps = db.steps, SameRun PROVE Recorded'
  BY <1>11, <1>2, <1>4, SameRequest DEF Recorded
<1>12. ASSUME SameDispatches, db'.steps = Turned(db.steps, s, "BLOCKED"), SameRun
       PROVE  Recorded'
  BY <1>12, <1>3, TurnedCounts, SameRequest DEF Recorded, StepStatuses
<1>13. ASSUME SameDispatches, db'.steps = db.steps, Asks(s) PROVE Recorded'
  BY <1>13, <1>3, <1>4, AskedRequest DEF Recorded
<1>14. "ACCEPTED" \in StepStatuses /\ "BLOCKED" \in StepStatuses
  BY DEF StepStatuses
<1>. QED
  BY <1>1, <1>5, <1>6, <1>7, <1>8, <1>9, <1>10, <1>11, <1>12, <1>13, <1>14 DEF WorkRows

LEMMA RecordStep ==
    ASSUME Typed, [Next]_vars
    PROVE  Recorded'
<1>. USE Executing
<1>1. ASSUME db' = db PROVE Recorded'
  BY <1>1, SameRecorded
<1>2. ASSUME NEW g, NEW target, TurnsGroup(g, target) PROVE Recorded'
  BY <1>2, GroupsRecorded DEF TurnsGroup
<1>3. ASSUME AsksBatch PROVE Recorded'
  BY <1>3, RunRecorded DEF AsksBatch, RequestOK
<1>4. CASE Provision
  BY <1>1, <1>2, <1>4, ProvisionByRows, GroupsRecorded DEF ProvisionRows, Plans, Still
<1>5. CASE Prepare
  <2>1. ASSUME SavePrepared, PreparedOnly(E.batch, E.group, E.kids) PROVE Recorded'
    BY <2>1, PreparedRecorded, ProcessFields DEF SavePrepared, MayPrepare, E
  <2>. QED  BY <1>1, <1>5, <2>1, PrepareByRows DEF PrepareRows, Allocates, Still
<1>6. ASSUME NEW s \in Step, Work(s) PROVE Recorded'
  BY <1>6, WorkRecorded
<1>7. CASE Join
  BY <1>1, <1>3, <1>7, JoinByRows, JoinsRecorded DEF JoinRows
<1>8. CASE Turn
  <2>1. ASSUME NEW d \in Dispatch, Acknowledges(d) PROVE Recorded'
    BY <2>1, TypedIsRecorded, SameRequest DEF Acknowledges, Recorded, FailedOK, AttemptsOK
  <2>2. ASSUME Complete, RunOnly, db'.run = "SUCCEEDED", db'.request = db.request PROVE Recorded'
    <3>1. db.run = "RUNNING"
      BY <2>2 DEF Complete, AtCommand
    <3>2. RequestOK'
      BY <2>2, <3>1, TypedIsRecorded DEF Recorded, RequestOK
    <3>. QED  BY <2>2, <3>2, RunRecorded
  <2>. QED  BY <1>1, <1>8, <2>1, <2>2, TurnByRows DEF TurnRows, Still
<1>9. CASE Integrate
  <2>1. ASSUME AskWorkspaceReconciliation, AsksGroup PROVE Recorded'
    <3>1. op[Execute].group # 0
      BY <2>1 DEF AskWorkspaceReconciliation, At, Typed, Named, IntegrationStates
    <3>. QED  BY <2>1, <3>1, RunRecorded DEF AsksGroup, RequestOK
  <2>. QED  BY <1>1, <1>2, <1>9, <2>1, IntegrateByRows, GroupsRecorded
            DEF IntegrateRows, Still, SavesPromoted
<1>10. ASSUME NEW a \in Command, Cleanup(a) PROVE Recorded'
  <2>1. db' = db \/ \E g, target : TurnsGroup(g, target)
    BY <1>10, CleanupByRows DEF CleanupRows, Still, Removes
  <2>. QED  BY <1>1, <1>2, <2>1
<1>11. CASE Answer
  <2>1. ASSUME RunOnly, db'.run # "WAITING_OPERATOR", db'.request = NoRequest PROVE Recorded'
    BY <2>1, RunRecorded, RequestFields DEF RequestOK
  <2>. QED  BY <1>1, <1>11, <2>1, AnswerByRows, ReadiedRecorded DEF AnswerRows, Still
<1>12. CASE Recover
  <2>1. ASSUME NEW d \in Dispatch, Interrupted(d) PROVE Recorded'
    <3>1. RequestOK'
      BY <2>1, SameRequest, AskedRequest DEF Interrupted
    <3>2. AttemptsOK'
      BY <2>1, TurnedCounts DEF Interrupted, StepStatuses
    <3>. QED  BY <2>1, <3>1, <3>2, TypedIsRecorded DEF Interrupted, Recorded, FailedOK
  <2>. QED  BY <1>1, <1>3, <1>12, <2>1, RecoverByRows, JoinsRecorded DEF RecoverRows
<1>13. CASE Disturb
  BY <1>1, <1>13, DisturbByRows
<1>14. CASE UNCHANGED vars
  BY <1>1, <1>14 DEF vars
<1>. QED
  BY <1>4, <1>5, <1>6, <1>7, <1>8, <1>9, <1>10, <1>11, <1>12, <1>13, <1>14 DEF Next
-----------------------------------------------------------------------------
(* The values of the processes. *)
Acting == Processes /\ ThreadsOK' /\ AllocatingOK' /\ Named'

SameCounters ==
    \A s \in Step : /\ db'.steps[s].attempts = db.steps[s].attempts
                    /\ db'.steps[s].stalls = db.steps[s].stalls

GroupWork == ProvisionStates \cup IntegrationStates \cup CleanupStates

LEMMA TypedIsActing ==
    ASSUME Typed
    PROVE  /\ ThreadsOK /\ AllocatingOK /\ Named
           /\ E.pc # "running" => \A s \in Step : thread[s] = "idle"
BY DEF Typed, Counted, ThreadsOK

LEMMA NamedAfter ==
    ASSUME Typed, NEW a \in Command, Others(a),
           op'[a].pc \in GroupWork =>
                op'[a].group # 0 \/ (op[a].pc \in GroupWork /\ op'[a].group = op[a].group)
    PROVE  Named'
BY TypedIsActing DEF Named, Others, GroupWork

LEMMA QuietThreads ==
    ASSUME Typed, E.pc # "running" \/ Idle, thread' = thread \/ Idle
    PROVE  ThreadsOK'
BY TypedIsActing DEF ThreadsOK, Idle

LEMMA OperatorActs ==
    ASSUME Typed, op'[Execute] = op[Execute], thread' = thread, SameCounters
    PROVE  ThreadsOK' /\ AllocatingOK'
BY TypedIsActing DEF ThreadsOK, AllocatingOK, SameCounters, E

(* The processes that go on, stop or turn from where they are. *)
LEMMA StopsActs ==
    ASSUME Typed, NEW a \in Command, Stops(a),
           IF a = Execute THEN (E.pc # "running" /\ thread' = thread) \/ Idle
                          ELSE thread' = thread /\ SameCounters
    PROVE  Acting
<1>1. Processes /\ Others(a) /\ op'[a].pc = "down"
  BY DownFields DEF Stops
<1>2. Named'
  BY <1>1, NamedAfter DEF GroupWork, ProvisionStates, IntegrationStates, CleanupStates
<1>3. CASE a = Execute
  BY <1>1, <1>2, <1>3, QuietThreads DEF Acting, AllocatingOK, E
<1>4. CASE a = Operator
  <2>1. op'[Execute] = op[Execute]
    BY <1>1, <1>4, Executing DEF Others
  <2>. QED  BY <1>1, <1>2, <1>4, <2>1, OperatorActs, Executing DEF Acting
<1>. QED  BY <1>3, <1>4 DEF Command

LEMMA TurnsActs ==
    ASSUME Typed, NEW X, TurnsTo(X), (E.pc # "running" /\ thread' = thread) \/ Idle
    PROVE  Acting
<1>1. Processes /\ Others(Execute) /\ op'[Execute].pc = "turn"
  BY DEF TurnsTo, Begins
<1>2. Named'
  BY <1>1, NamedAfter, Executing DEF GroupWork, ProvisionStates, IntegrationStates, CleanupStates
<1>. QED  BY <1>1, <1>2, QuietThreads DEF Acting, AllocatingOK, E

LEMMA GoesActs ==
    ASSUME Typed, NEW a \in Command, NEW pc, Processes, Others(a), Keeps(a), op'[a].pc = pc,
           pc \in GroupWork => op[a].pc \in GroupWork,
           IF a = Execute THEN pc # "allocating" /\ E.pc # "running" /\ thread' = thread
                          ELSE thread' = thread /\ SameCounters
    PROVE  Acting
<1>2. Named'
  BY NamedAfter DEF Keeps
<1>3. CASE a = Execute
  BY <1>2, <1>3, QuietThreads DEF Acting, AllocatingOK, E
<1>4. CASE a = Operator
  <2>1. op'[Execute] = op[Execute]
    BY <1>4, Executing DEF Others
  <2>. QED  BY <1>2, <1>4, <2>1, OperatorActs, Executing DEF Acting
<1>. QED  BY <1>3, <1>4 DEF Command

LEMMA ProvisionActs ==
    ASSUME Typed, Provision
    PROVE  Acting
<1>. USE Executing
<1>0. ProvisionRows
  BY ProvisionByRows
<1>1. \A pc \in ProvisionStates : pc # "running" /\ pc # "allocating" /\ pc \in GroupWork
  BY DEF ProvisionStates, GroupWork
<1>2. ASSUME NEW g \in Group, NEW b, NEW kids, Plans(g, b, kids) PROVE Acting
  <2>1. /\ Processes /\ Others(Execute) /\ op'[Execute].pc = "leasing" /\ op'[Execute].group = g
        /\ thread' = thread /\ E.pc = "turn"
    BY <1>2 DEF Plans, Begins, PlanGroup, AtCommand, At, E
  <2>2. Named'
    BY <2>1, NamedAfter DEF Group
  <2>. QED  BY <2>1, <2>2, QuietThreads DEF Acting, AllocatingOK, E
<1>3. ASSUME NEW pc \in ProvisionStates, Walks(Execute, pc), thread' = thread,
             E.pc \in ProvisionStates
      PROVE  Acting
  BY <1>1, <1>3, GoesActs DEF Walks, E
<1>4. ASSUME NEW pc \in ProvisionStates, NEW X, Goes(Execute, pc, X), thread' = thread,
             E.pc \in ProvisionStates
      PROVE  Acting
  BY <1>1, <1>4, GoesActs DEF Goes, E
<1>5. ASSUME FailGroup, Stops(Execute), thread' = thread PROVE Acting
  BY <1>5, StopsActs DEF FailGroup, At, E
<1>6. ASSUME ActivateGroup, Walks(Execute, "allocating"), thread' = thread PROVE Acting
  <2>1. /\ Processes /\ Others(Execute) /\ op'[Execute].pc = "allocating" /\ E.pc = "adding"
        /\ op'[Execute].steps = {}
    BY <1>6 DEF Walks, ActivateGroup, At, E
  <2>2. Named'
    BY <2>1, NamedAfter DEF GroupWork, ProvisionStates, IntegrationStates, CleanupStates
  <2>. QED  BY <1>6, <2>1, <2>2, QuietThreads DEF Acting, AllocatingOK, E
<1>7. {"adding", "unprovisioned", "undoing", "leasing"} \subseteq ProvisionStates
  BY DEF ProvisionStates
<1>8. ASSUME LeaseGroup \/ Undone \/ \E s : AddTree(s) \/ AddTreeFails(s) \/ Undo(s)
      PROVE  E.pc \in ProvisionStates
  BY <1>8 DEF LeaseGroup, Undone, AddTree, AddTreeFails, Undo, At, ProvisionStates, E
<1>. QED
  BY <1>0, <1>2, <1>3, <1>4, <1>5, <1>6, <1>7, <1>8 DEF ProvisionRows, Still, TurnsGroup

LEMMA PrepareActs ==
    ASSUME Typed, Prepare
    PROVE  Acting
<1>. USE Executing DEF E
<1>0. PrepareRows
  BY PrepareByRows
<1>1. "allocating" \notin GroupWork /\ "running" \notin GroupWork /\ "cleanup" \in GroupWork
  BY DEF GroupWork, ProvisionStates, IntegrationStates, CleanupStates
<1>2. ASSUME NEW b, NEW g, NEW kids \in SUBSET Step, Allocates(b, g, kids), AtCommand,
             \A s \in kids : db.steps[s].attempts < MaxAttempts[s]
      PROVE  Acting
  <2>1. /\ Processes /\ Others(Execute) /\ op'[Execute].pc = "allocating"
        /\ op'[Execute].steps \subseteq kids /\ thread' = thread /\ db' = db /\ E.pc = "turn"
    BY <1>2 DEF Allocates, Begins, Still, AtCommand, At
  <2>2. Named'
    BY <1>1, <2>1, NamedAfter
  <2>3. AllocatingOK'
    BY <1>2, <2>1 DEF AllocatingOK
  <2>. QED  BY <2>1, <2>2, <2>3, QuietThreads DEF Acting
<1>3. ASSUME NEW b \in Batch, NEW kids \in SUBSET Step, CommandBatch(b, kids),
             Allocates(b, 0, kids)
      PROVE  Acting
  BY <1>2, <1>3 DEF CommandBatch, BatchValid
<1>4. ASSUME NEW s \in Step, CommandDispatch(s), Allocates(0, GroupFor(s), {s}) PROVE Acting
  BY <1>2, <1>4 DEF CommandDispatch, BatchValid
<1>5. ASSUME NEW s \in Step, Goes(Execute, "allocating", E.steps \ {s}), Still,
             E.pc = "allocating"
      PROVE  Acting
  <2>1. Named'
    BY <1>1, <1>5, NamedAfter DEF Goes
  <2>2. AllocatingOK'
    BY <1>5, TypedIsActing DEF AllocatingOK, Goes, Still
  <2>. QED  BY <1>5, <2>1, <2>2, QuietThreads DEF Acting, Goes, Still
<1>6. ASSUME Stops(Execute), Still, E.pc = "allocating" PROVE Acting
  BY <1>6, StopsActs DEF Still
<1>7. ASSUME SavePrepared, PreparedOnly(E.batch, E.group, E.kids), Walks(Execute, "running"),
             \A s \in Step : thread'[s] = IF s \in E.kids THEN "queued" ELSE thread[s]
      PROVE  Acting
  <2>1. Named'
    BY <1>1, <1>7, NamedAfter DEF Walks
  <2>2. AllocatingOK'
    BY <1>7 DEF AllocatingOK, Walks
  <2>3. E.pc = "allocating"
    BY <1>7 DEF SavePrepared, At
  <2>4. ThreadsOK'
    <3>. SUFFICES ASSUME NEW s \in Step
                  PROVE  /\ thread'[s] # "idle" => /\ op'[Execute].pc = "running"
                                                   /\ s \in op'[Execute].kids
                                                   /\ db'.steps[s].attempts > 0
                         /\ thread'[s] \in {"queued", "working", "stalling"} =>
                                db'.steps[s].stalls < db'.steps[s].attempts
      BY DEF ThreadsOK
    <3>1. CASE s \in E.kids
      BY <1>7, <3>1, TypedIsRecorded DEF Walks, Keeps, PreparedOnly, Recorded, AttemptsOK
    <3>2. CASE s \notin E.kids
      BY <1>7, <2>3, <3>2, TypedIsActing
    <3>. QED  BY <3>1, <3>2
  <2>. QED  BY <1>7, <2>1, <2>2, <2>4 DEF Acting, Walks
<1>8. ASSUME Forces, Still, E.pc = "allocating" PROVE Acting
  <2>1. Named'
    BY <1>1, <1>8, NamedAfter DEF Forces
  <2>. QED  BY <1>8, <2>1, QuietThreads DEF Acting, AllocatingOK, Forces, Still
<1>9. ASSUME RefusePrepare \/ \E s : LeaseChild(s) PROVE E.pc = "allocating"
  BY <1>9 DEF RefusePrepare, LeaseChild, At
<1>. QED  BY <1>0, <1>3, <1>4, <1>5, <1>6, <1>7, <1>8, <1>9 DEF PrepareRows

LEMMA WorkActs ==
    ASSUME Typed, NEW s \in Step, Work(s)
    PROVE  Acting
<1>. USE Executing DEF E
<1>1. /\ op' = op /\ \A t \in Step \ {s} : thread'[t] = thread[t]
      /\ thread[s] # "idle" /\ E.pc = "running" /\ s \in E.kids /\ db.steps[s].attempts > 0
  BY WorkFrame, TypedIsActing DEF ThreadsOK
<1>2. Processes /\ Named' /\ AllocatingOK'
  BY <1>1, TypedIsActing DEF Processes, Shape, Named, AllocatingOK
<1>3. ASSUME \A t \in Step \ {s} : /\ db'.steps[t].attempts = db.steps[t].attempts
                                   /\ db'.steps[t].stalls = db.steps[t].stalls,
             db'.steps[s].attempts > 0,
             thread'[s] \in {"queued", "working", "stalling"} =>
                db'.steps[s].stalls < db'.steps[s].attempts
      PROVE  Acting
  <2>1. ThreadsOK'
    <3>. SUFFICES ASSUME NEW t \in Step
                  PROVE  /\ thread'[t] # "idle" => /\ op'[Execute].pc = "running"
                                                   /\ t \in op'[Execute].kids
                                                   /\ db'.steps[t].attempts > 0
                         /\ thread'[t] \in {"queued", "working", "stalling"} =>
                                db'.steps[t].stalls < db'.steps[t].attempts
      BY DEF ThreadsOK
    <3>1. CASE t = s
      BY <1>1, <1>3, <3>1
    <3>2. CASE t # s
      BY <1>1, <1>3, <3>2, TypedIsActing DEF ThreadsOK
    <3>. QED  BY <3>1, <3>2
  <2>. QED  BY <1>2, <2>1 DEF Acting
<1>4. ASSUME db'.steps = db.steps,
             thread'[s] \notin {"queued", "working", "stalling"}
                \/ thread[s] \in {"queued", "working", "stalling"}
      PROVE  Acting
  BY <1>1, <1>3, <1>4, TypedIsActing DEF ThreadsOK
<1>5. ASSUME NEW target \in StepStatuses, db'.steps = Turned(db.steps, s, target),
             thread'[s] \notin {"queued", "working", "stalling"}
      PROVE  Acting
  BY <1>1, <1>3, <1>5, TurnedCounts
<1>6. thread \in [Step -> ThreadStates]
  BY DEF Shape
<1>7. ASSUME Launch(s) PROVE Acting
  BY <1>4, <1>7, LaunchEffect
<1>8. ASSUME RetryStalled(s) PROVE Acting
  <2>1. CASE db' = db /\ thread'[s] = "raised"
    BY <1>4, <2>1
  <2>2. CASE PreparedOnly(0, GroupFor(s), {s})
    <3>1. /\ db'.steps[s].attempts = db.steps[s].attempts + 1
          /\ db'.steps[s].stalls = db.steps[s].stalls
          /\ \A t \in Step \ {s} : db'.steps[t] = db.steps[t]
      BY <2>2 DEF PreparedOnly
    <3>. QED  BY <1>3, <3>1, TypedIsRecorded DEF Recorded, AttemptsOK
  <2>. QED  BY <1>8, <2>1, <2>2, RetryEffect
<1>9. ASSUME StallStep(s) PROVE Acting
  BY <1>1, <1>3, <1>9, StallEffect
<1>10. ASSUME CommitWork(s) \/ HandlerRaises(s) PROVE Acting
  <2>1. db'.steps = db.steps /\ thread'[s] \in {"committed", "raised"}
    BY <1>6, <1>10 DEF CommitWork, HandlerRaises, Steps
  <2>. QED  BY <1>4, <2>1
<1>11. ASSUME ApplyCompleted(s) \/ ApplyBlocked(s),
              NEW target \in StepStatuses, db'.steps = Turned(db.steps, s, target)
       PROVE  Acting
  <2>1. thread'[s] \in {"forwarding", "escalating"}
    BY <1>6, <1>11 DEF ApplyCompleted, ApplyBlocked, Steps
  <2>. QED  BY <1>5, <1>11, <2>1
<1>12. ASSUME PersistForwarded(s) \/ PersistEscalated(s), db'.steps = db.steps PROVE Acting
  <2>1. thread'[s] = "done"
    BY <1>6, <1>12 DEF PersistForwarded, PersistEscalated, Steps
  <2>. QED  BY <1>4, <1>12, <2>1
<1>13. ASSUME FailDispatch(s) \/ StallDispatch(s), db'.steps = db.steps PROVE Acting
  <2>1. thread'[s] = "failing" \/ thread[s] = "working"
    BY <1>6, <1>13 DEF FailDispatch, StallDispatch, Steps
  <2>. QED  BY <1>4, <1>13, <2>1
<1>14. ASSUME FailStep(s), db'.steps = Turned(db.steps, s, "BLOCKED") PROVE Acting
  <2>1. thread'[s] \in {"asking", "raised"}
    BY <1>6, <1>14 DEF FailStep, Steps
  <2>. QED  BY <1>5, <1>14, <2>1 DEF StepStatuses
<1>15. ASSUME AskReconciliation(s) \/ AskStallRecovery(s), db'.steps = db.steps PROVE Acting
  <2>1. thread'[s] = "raised"
    BY <1>6, <1>15 DEF AskReconciliation, AskStallRecovery, Steps
  <2>. QED  BY <1>4, <1>15, <2>1
<1>16. WorkRows(s) /\ "ACCEPTED" \in StepStatuses /\ "BLOCKED" \in StepStatuses
  BY WorkByRows DEF StepStatuses
<1>. QED
  BY <1>7, <1>8, <1>9, <1>10, <1>11, <1>12, <1>13, <1>14, <1>15, <1>16 DEF WorkRows

LEMMA JoinActs ==
    ASSUME Typed, Join
    PROVE  Acting
<1>. USE Executing DEF E
<1>0. JoinRows
  BY JoinByRows
<1>1. ASSUME Stops(Execute), Idle PROVE Acting
  BY <1>1, StopsActs
<1>2. ASSUME NEW X, TurnsTo(X), Idle PROVE Acting
  BY <1>2, TurnsActs
<1>3. ASSUME Walks(Execute, "batch_asking"), Idle PROVE Acting
  <2>1. Named'
    BY <1>3, NamedAfter
    DEF Walks, GroupWork, ProvisionStates, IntegrationStates, CleanupStates
  <2>. QED  BY <1>3, <2>1, QuietThreads DEF Acting, AllocatingOK, Walks
<1>4. ASSUME AskBatchReconciliation, Stops(Execute), thread' = thread PROVE Acting
  BY <1>4, StopsActs DEF AskBatchReconciliation, At
<1>. QED  BY <1>0, <1>1, <1>2, <1>3, <1>4 DEF JoinRows

LEMMA TurnActs ==
    ASSUME Typed, Turn
    PROVE  Acting
<1>. USE Executing DEF E
<1>0. TurnRows
  BY TurnByRows
<1>1. ASSUME Start, TurnsTo({}), Still PROVE Acting
  BY <1>1, TurnsActs DEF Start, At, Still
<1>2. ASSUME Complete \/ Stop, Stops(Execute), thread' = thread PROVE Acting
  BY <1>2, StopsActs DEF Complete, Stop, AtCommand, At
<1>3. ASSUME NEW d \in Dispatch, Acknowledge(d), Acknowledges(d) PROVE Acting
  <2>1. E.pc = "turn" /\ op'[Execute].pc \in {"turn", "integrate"}
    BY <1>3 DEF Acknowledge, Acknowledges, At
  <2>2. Named'
    BY <1>3, <2>1, NamedAfter
    DEF Acknowledges, GroupWork, ProvisionStates, IntegrationStates, CleanupStates
  <2>. QED  BY <1>3, <2>1, <2>2, QuietThreads DEF Acting, AllocatingOK, Acknowledges
<1>. QED  BY <1>0, <1>1, <1>2, <1>3 DEF TurnRows, Still

LEMMA IntegrateActs ==
    ASSUME Typed, Integrate
    PROVE  Acting
<1>. USE Executing DEF E
<1>0. IntegrateRows
  BY IntegrateByRows
<1>1. E.pc \in IntegrationStates /\ thread' = thread
  BY DEF Integrate, BeginIntegration, OpenIntegration, MergeChild, Promote, IntegrationFails,
         SavePromoted, FailIntegration, AskWorkspaceReconciliation, At, IntegrationStates
<1>2. E.pc # "running" /\ E.pc \in GroupWork
  BY <1>1 DEF IntegrationStates, GroupWork
<1>3. ASSUME NEW pc \in IntegrationStates \cup {"cleanup"}, Walks(Execute, pc) PROVE Acting
  <2>1. pc # "allocating" /\ pc \in GroupWork
    BY DEF IntegrationStates, CleanupStates, GroupWork
  <2>. QED  BY <1>1, <1>2, <1>3, <2>1, GoesActs DEF Walks
<1>4. ASSUME NEW X, Goes(Execute, "merging", X) PROVE Acting
  BY <1>1, <1>2, <1>4, GoesActs DEF Goes
<1>5. ASSUME NEW X, TurnsTo(X) PROVE Acting
  BY <1>1, <1>2, <1>5, TurnsActs
<1>. QED  BY <1>0, <1>3, <1>4, <1>5 DEF IntegrateRows, IntegrationStates

LEMMA CleanupActs ==
    ASSUME Typed, NEW a \in Command, Cleanup(a)
    PROVE  Acting
<1>. USE Executing DEF E
<1>0. CleanupRows(a) /\ Recorded'
  BY CleanupByRows, RecordStep DEF Next
<1>1. op[a].pc \in CleanupStates
  BY DEF Cleanup, BeginCleanup, CheckCleanup, RemovePlace, RemovePlaceFails, EndRemoval, SaveCleaned,
         SaveUnclean, At, CleanupStates
<1>2. thread' = thread /\ SameCounters
  BY <1>0 DEF CleanupRows, Still, Removes, TurnsGroup, GroupsOnly, SameCounters
<1>3. op[a].pc # "running" /\ op[a].pc \in GroupWork
  BY <1>1 DEF CleanupStates, GroupWork
<1>4. ASSUME NEW pc \in CleanupStates \cup {"asking", "answering"}, Walks(a, pc) PROVE Acting
  <2>1. pc # "allocating"
    BY DEF CleanupStates
  <2>. QED  BY <1>2, <1>3, <1>4, <2>1, GoesActs DEF Walks
<1>5. ASSUME NEW pc \in CleanupStates, NEW X, Goes(a, pc, X) PROVE Acting
  <2>1. pc # "allocating"
    BY DEF CleanupStates
  <2>. QED  BY <1>2, <1>3, <1>5, <2>1, GoesActs DEF Goes
<1>6. ASSUME Stops(a) PROVE Acting
  BY <1>2, <1>3, <1>6, StopsActs
<1>7. ASSUME a = Execute, NEW X, TurnsTo(X) PROVE Acting
  BY <1>2, <1>3, <1>7, TurnsActs
<1>. QED  BY <1>0, <1>4, <1>5, <1>6, <1>7 DEF CleanupRows, Removes, CleanupStates

LEMMA AnswerActs ==
    ASSUME Typed, Answer
    PROVE  Acting
<1>. USE Executing DEF E
<1>0. AnswerRows /\ thread' = thread
  BY AnswerByRows
<1>1. SameCounters
  BY <1>0 DEF AnswerRows, Readied, Still, RunOnly, SameCounters
<1>2. ASSUME op' = op PROVE Acting
  <2>1. Processes /\ Named'
    BY <1>2, TypedIsActing DEF Processes, Shape, Named
  <2>. QED  BY <1>0, <1>1, <1>2, <2>1, OperatorActs DEF Acting
<1>3. ASSUME BeginAnswerWorkspace, Begins(Operator, "cleanup"),
             op'[Operator].group = db.request.group
      PROVE  Acting
  <2>1. db.request.group # 0
    BY <1>3, TypedIsRecorded DEF BeginAnswerWorkspace, Answering, Recorded, RequestOK
  <2>2. Named'
    BY <1>3, <2>1, NamedAfter DEF Begins
  <2>3. op'[Execute] = op[Execute] /\ Processes
    BY <1>3 DEF Begins, Others
  <2>. QED  BY <1>0, <1>1, <2>2, <2>3, OperatorActs DEF Acting
<1>4. ASSUME Stops(Operator) PROVE Acting
  BY <1>0, <1>1, <1>4, StopsActs
<1>. QED  BY <1>0, <1>2, <1>3, <1>4 DEF AnswerRows

LEMMA RecoverActs ==
    ASSUME Typed, Recover
    PROVE  Acting
<1>. USE Executing DEF E, O
<1>0. RecoverRows /\ thread' = thread
  BY RecoverByRows
<1>1. SameCounters
  <2>1. ASSUME NEW d \in Dispatch, Interrupted(d) PROVE SameCounters
    BY <2>1, TurnedCounts DEF Interrupted, SameCounters, StepStatuses
  <2>2. ASSUME db'.steps = db.steps PROVE SameCounters
    BY <2>2 DEF SameCounters
  <2>. QED  BY <1>0, <2>1, <2>2 DEF RecoverRows, AsksBatch, RunOnly, Joins
<1>2. RecoverStates \cap GroupWork = {}
  BY DEF RecoverStates, GroupWork, ProvisionStates, IntegrationStates, CleanupStates
<1>3. ASSUME Processes, Others(Operator), op'[Operator].pc \in RecoverStates PROVE Acting
  <2>1. Named'
    BY <1>2, <1>3, NamedAfter
  <2>2. op'[Execute] = op[Execute]
    BY <1>3 DEF Others
  <2>. QED  BY <1>0, <1>1, <1>3, <2>1, <2>2, OperatorActs DEF Acting
<1>4. ASSUME Stops(Operator) PROVE Acting
  BY <1>0, <1>1, <1>4, StopsActs
<1>5. ASSUME NEW d, NEW K, Recovers(d, K) PROVE Acting
  BY <1>3, <1>5 DEF Recovers, RecoverStates
<1>6. ASSUME NEW pc \in RecoverStates, Walks(Operator, pc) PROVE Acting
  BY <1>3, <1>6 DEF Walks
<1>7. ASSUME Begins(Operator, "recovering") PROVE Acting
  BY <1>3, <1>7 DEF Begins, RecoverStates
<1>8. {"joining", "releasing", "join_asking"} \subseteq RecoverStates
  BY DEF RecoverStates
<1>. QED  BY <1>0, <1>3, <1>4, <1>5, <1>6, <1>7, <1>8 DEF RecoverRows

LEMMA DisturbActs ==
    ASSUME Typed, Disturb
    PROVE  Acting
<1>. USE Executing DEF E
<1>0. DisturbRows /\ db' = db
  BY DisturbByRows
<1>1. SameCounters
  BY <1>0 DEF SameCounters
<1>2. ASSUME NEW a \in Command, Stops(a), IF a = Execute THEN Idle ELSE thread' = thread
      PROVE  Acting
  BY <1>1, <1>2, StopsActs
<1>3. ASSUME NEW a \in Command, Raises(a), thread' = thread,
             Stops(a) \/ (a = Execute /\ E.pc = "cleanup" /\ Walks(a, "asking"))
      PROVE  Acting
  <2>1. op[a].pc # "running"
    BY <1>3 DEF Raises
  <2>2. CASE Stops(a)
    BY <1>1, <1>3, <2>1, <2>2, StopsActs
  <2>3. CASE a = Execute /\ E.pc = "cleanup" /\ Walks(a, "asking")
    <3>1. E.pc \in GroupWork
      BY <2>3 DEF GroupWork, CleanupStates
    <3>. QED  BY <1>3, <2>1, <2>3, <3>1, GoesActs DEF Walks
  <2>. QED  BY <1>3, <2>2, <2>3
<1>4. ASSUME op' = op PROVE Processes /\ Named' /\ AllocatingOK'
  BY <1>0, <1>4, TypedIsActing DEF Processes, Shape, Named, AllocatingOK
<1>5. ASSUME op' = op, thread' = thread PROVE Acting
  BY <1>0, <1>4, <1>5, TypedIsActing DEF Acting, ThreadsOK
<1>6. ASSUME op' = op, NEW s \in Step, thread[s] = "working", thread'[s] = "raised",
             \A t \in Step \ {s} : thread'[t] = thread[t]
      PROVE  Acting
  <2>1. ThreadsOK'
    BY <1>0, <1>6, TypedIsActing DEF ThreadsOK
  <2>. QED  BY <1>4, <1>6, <2>1 DEF Acting
<1>. QED  BY <1>0, <1>2, <1>3, <1>5, <1>6 DEF DisturbRows

LEMMA TypedStep ==
    ASSUME Typed, [Next]_vars
    PROVE  Typed'
<1>1. Acting
  <2>1. CASE UNCHANGED vars
    <3>1. db' = db /\ op' = op /\ thread' = thread
      BY <2>1 DEF vars
    <3>. QED  BY <3>1, TypedIsActing, Executing
              DEF Acting, Processes, Shape, ThreadsOK, AllocatingOK, Named, E
  <2>2. CASE Next
    BY <2>2, ProvisionActs, PrepareActs, WorkActs, JoinActs, TurnActs, IntegrateActs, CleanupActs,
       AnswerActs, RecoverActs, DisturbActs DEF Next
  <2>. QED  BY <2>1, <2>2
<1>2. Recorded' /\ FlagsOK' /\ TroublesOK' /\ LeaseOK' /\ SourceOK' /\ HeadsOK' /\ TreesOK'
  BY RecordStep, FlagsStep, TroublesStep, LeaseStep, SourceStep, HeadsStep, TreesStep
<1>3. Shape'
  BY <1>1, <1>2
  DEF Shape, Acting, Processes, Recorded, FlagsOK, TroublesOK, LeaseOK, Owners, SourceOK, HeadsOK,
      TreesOK
<1>. QED  BY <1>1, <1>2, <1>3 DEF Typed, Counted, Acting, Recorded

LEMMA TypedInit ==
    ASSUME Init
    PROVE  Typed
<1>0. NoRequest \in Requests /\ NoRequest.group = 0 /\ NoRequest.kind = "none"
  BY RequestFields
<1>. DEFINE r == NoRequest
            X == [s \in Step |-> [state |-> "READY", attempts |-> 0, stalls |-> 0]]
            D == [d \in Dispatch |-> Undispatched]
            B == [b \in Batch |-> [state |-> "NONE", children |-> {}, failed |-> {}]]
            G == [g \in Group |-> [state |-> "NONE", children |-> {}, base |-> {},
                                   promoted |-> FALSE]]
<1>1. db = [run |-> "RUNNING", request |-> r, steps |-> X, dispatches |-> D, batches |-> B,
            groups |-> G]
  BY DEF Init
<1>2. /\ X \in [Step -> StepRecord] /\ D \in [Dispatch -> DispatchRecord]
      /\ B \in [Batch -> BatchRecord] /\ G \in [Group -> LooseGroup]
  BY DEF StepRecord, StepStatuses, DispatchRecord, DispatchStates, Undispatched, BatchRecord,
         BatchStates, LooseGroup, GroupStates
<1>3. /\ \A s \in Step : X[s].attempts = 0 /\ X[s].stalls = 0
      /\ \A b \in Batch : B[b].failed = {}
  OBVIOUS
<1>. HIDE DEF X, D, B, G, r
<1>4. /\ db \in LooseRecord /\ db.run = "RUNNING" /\ db.request = r /\ db.steps = X
      /\ db.batches = B
  BY <1>0, <1>1, <1>2 DEF LooseRecord, RunStatuses, r
<1>5. /\ barrier \in BOOLEAN /\ fresh = {} /\ workers = {}
      /\ lease = [x \in Repository |-> None] /\ source = [x \in Repository |-> {}]
      /\ heads = [g \in Group |-> [p \in Place |-> Gone]]
      /\ trees = [g \in Group |-> [p \in Place |-> "absent"]]
      /\ thread = [s \in Step |-> "idle"] /\ op = [a \in Command |-> Down]
      /\ troubles = [kind \in {"crash", "fault", "cancel"} |-> 0]
  BY DEF Init, git
<1>6. Shape
  BY <1>4, <1>5, DownFields, BoundAssumption DEF Shape, ThreadStates, Gone, History
<1>7. RequestOK /\ FailedOK /\ AttemptsOK
  BY <1>0, <1>3, <1>4, BoundAssumption DEF RequestOK, FailedOK, AttemptsOK, r
<1>8. ThreadsOK /\ AllocatingOK /\ Named
  BY <1>5, DownFields
  DEF ThreadsOK, AllocatingOK, Named, E, Command, ProvisionStates, IntegrationStates, CleanupStates
<1>. QED  BY <1>6, <1>7, <1>8 DEF Typed, Counted
-----------------------------------------------------------------------------
(* Layer 2: what is in flight.                                             *)
InFlight(d) == db.dispatches[d].state \in InFlightStates

(* A step that starts nothing and ends nothing. *)
SameFlight ==
    /\ \A d \in Dispatch : db'.dispatches[d] = db.dispatches[d]
    /\ \A s \in Step :
        /\ db'.steps[s].attempts = db.steps[s].attempts
        /\ db.steps[s].state = "EXECUTING" => db'.steps[s].state = "EXECUTING"
    /\ \A b \in Batch : db'.batches[b].children = db.batches[b].children

LEMMA SameFlightKinds ==
    /\ db' = db => SameFlight
    /\ GroupsOnly => SameFlight
    /\ RunOnly => SameFlight
    /\ Readied => SameFlight
    /\ \A b \in Batch : Joins(b) => SameFlight
BY DEF SameFlight, GroupsOnly, RunOnly, Readied, Joins

LEMMA CurrentStays ==
    ASSUME NEW s, db'.steps[s].attempts = db.steps[s].attempts
    PROVE  Current(s)' = Current(s)
BY DEF Current

LEMMA FlightPairs ==
    ASSUME Typed, FlightIsCurrent, NEW d \in Dispatch, InFlight(d)
    PROVE  /\ d[1] \in Step /\ db.steps[d[1]].state = "EXECUTING" /\ Current(d[1]) = d
BY DispatchPairs DEF FlightIsCurrent, InFlight

LEMMA SameFlightIsCurrent ==
    ASSUME Typed, FlightIsCurrent, SameFlight
    PROVE  FlightIsCurrent'
BY DispatchPairs DEF FlightIsCurrent, SameFlight, Current

LEMMA SameThreadsAgree ==
    ASSUME Typed, ThreadsAgree, SameFlight, thread' = thread \/ Idle
    PROVE  ThreadsAgree'
<1>1. CASE Idle
  BY <1>1 DEF Idle, ThreadsAgree
<1>2. CASE thread' = thread
  <2>1. \A s \in Step : thread[s] # "idle" => Current(s) \in Dispatch
    BY CurrentIsDispatch DEF Typed, Shape, Counted, ThreadsOK
  <2>. QED  BY <1>2, <2>1, CurrentStays DEF ThreadsAgree, SameFlight
<1>. QED  BY <1>1, <1>2

LEMMA ExecuteMoves ==
    ASSUME Typed, Flight, SameFlight, Others(Execute),
           (thread' = thread /\ E.pc # "running") \/ Idle,
           op'[Execute].pc \notin {"running", "allocating"} \cup ProvisionStates,
           op'[Execute].pc \notin {"down", "batch_asking"} => \A d \in Dispatch : ~InFlight(d),
           op'[Execute].pc = "down" \/ E.pc # "down"
    PROVE  Flight'
<1>1. FlightIsCurrent' /\ ThreadsAgree'
  BY SameFlightIsCurrent, SameThreadsAgree DEF Flight
<1>2. FlightIsRun'
  BY DEF FlightIsRun, SameFlight, InFlight, E
<1>3. KidsAreChildren'
  BY DEF KidsAreChildren, E
<1>4. Apart'
  BY Executing DEF Flight, Apart, Others, E, O
<1>. QED  BY <1>1, <1>2, <1>3, <1>4 DEF Flight

(* The commands that work when nothing is in flight. *)
LEMMA NoFlight ==
    ASSUME Typed, Flight, E.pc \notin {"down", "running", "batch_asking"}
    PROVE  \A d \in Dispatch : ~InFlight(d)
BY DEF Flight, FlightIsRun, InFlight

LEMMA ExecuteGoes ==
    ASSUME Typed, Flight, SameFlight, Others(Execute), thread' = thread,
           E.pc \notin {"down", "running", "batch_asking"},
           op'[Execute].pc \notin {"running", "allocating"} \cup ProvisionStates
    PROVE  Flight'
BY NoFlight, ExecuteMoves

LEMMA OperatorMoves ==
    ASSUME Typed, Flight, SameFlight, op'[Execute] = op[Execute], thread' = thread,
           op'[Operator].pc \in RecoverStates => E.pc = "down"
    PROVE  Flight'
<1>1. FlightIsCurrent' /\ ThreadsAgree'
  BY SameFlightIsCurrent, SameThreadsAgree DEF Flight
<1>2. FlightIsRun'
  BY DEF Flight, FlightIsRun, SameFlight, E
<1>3. KidsAreChildren'
  <2>1. \A s \in Step : db'.steps[s].attempts = db.steps[s].attempts /\ Current(s)' = Current(s)
    BY CurrentStays DEF SameFlight
  <2>2. \A b \in Batch : db'.batches[b].children = db.batches[b].children
    BY DEF SameFlight
  <2>3. E.batch \in Batch \cup {0} /\ E.kids \subseteq Step
    BY Executing, ProcessFields DEF E
  <2>4. \A b \in Batch : db.batches[b].children \subseteq Dispatch
    BY TypedIsRecorded DEF BatchRecord
  <2>. QED  BY <2>1, <2>2, <2>3, <2>4 DEF Flight, KidsAreChildren, SameFlight, E
<1>4. Apart'
  BY DEF Apart, E, O
<1>. QED  BY <1>1, <1>2, <1>3, <1>4 DEF Flight

(* A command of the operator that was not recovering still is not. *)
LEMMA ApartIsDown ==
    ASSUME Flight, O.pc \in RecoverStates
    PROVE  E.pc = "down"
BY DEF Flight, Apart

LEMMA ProvisionFlight ==
    ASSUME Typed, Flight, Provision
    PROVE  Flight'
<1>. USE Executing DEF E
<1>0. ProvisionRows
  BY ProvisionByRows
<1>1. /\ Others(Execute) /\ thread' = thread /\ SameFlight
  BY <1>0, SameFlightKinds
  DEF ProvisionRows, Plans, Begins, Walks, Goes, Stops, Still, TurnsGroup
<1>2. E.pc \in ProvisionStates \cup {"turn"}
  BY DEF Provision, PlanGroup, AtCommand, LeaseGroup, Undone, FailGroup, ActivateGroup, AddTree,
         AddTreeFails, Undo, At, ProvisionStates
<1>3. \A d \in Dispatch : ~InFlight(d)
  BY <1>2, NoFlight DEF ProvisionStates
<1>4. CASE op'[Execute].pc \notin {"running", "allocating"} \cup ProvisionStates
  BY <1>1, <1>2, <1>4, ExecuteGoes DEF ProvisionStates
<1>5. CASE op'[Execute].pc \in {"running", "allocating"} \cup ProvisionStates
  <2>1. op'[Execute].batch # 0 /\ op'[Execute].pc # "running"
    <3>1. ASSUME NEW g, NEW b \in Batch, NEW kids, Plans(g, b, kids)
          PROVE op'[Execute].batch # 0 /\ op'[Execute].pc # "running"
      BY <3>1 DEF Plans, Begins, Batch
    <3>2. ASSUME Keeps(Execute), E.pc \in ProvisionStates, op'[Execute].pc # "running"
          PROVE op'[Execute].batch # 0 /\ op'[Execute].pc # "running"
      BY <3>2 DEF Keeps, Flight, KidsAreChildren
    <3>3. ASSUME LeaseGroup \/ Undone \/ ActivateGroup
                    \/ \E s : AddTree(s) \/ AddTreeFails(s) \/ Undo(s)
          PROVE E.pc \in ProvisionStates
      BY <3>3 DEF LeaseGroup, Undone, ActivateGroup, AddTree, AddTreeFails, Undo, At,
                  ProvisionStates
    <3>4. ASSUME Stops(Execute) PROVE FALSE
      BY <1>5, <3>4, DownFields DEF Stops, ProvisionStates
    <3>. QED  BY <1>0, <3>1, <3>2, <3>3, <3>4 DEF ProvisionRows, Walks, Goes
  <2>2. FlightIsCurrent' /\ ThreadsAgree'
    BY <1>1, SameFlightIsCurrent, SameThreadsAgree DEF Flight
  <2>3. FlightIsRun'
    BY <1>1, <1>3, <2>1 DEF FlightIsRun, SameFlight, InFlight
  <2>4. KidsAreChildren'
    BY <2>1 DEF KidsAreChildren
  <2>5. Apart'
    BY <1>1, <1>2 DEF Flight, Apart, Others, O, ProvisionStates
  <2>. QED  BY <2>2, <2>3, <2>4, <2>5 DEF Flight
<1>. QED  BY <1>4, <1>5

LEMMA PrepareFlight ==
    ASSUME Typed, Flight, Prepare
    PROVE  Flight'
<1>. USE Executing DEF E
<1>0. PrepareRows
  BY PrepareByRows
<1>1. E.pc \in {"turn", "allocating"}
  BY DEF Prepare, CommandBatch, CommandDispatch, AtCommand, LeaseChild, SavePrepared, RefusePrepare,
         At
<1>2. \A d \in Dispatch : ~InFlight(d)
  BY <1>1, NoFlight
<1>3. ASSUME Still, Others(Execute), op'[Execute].pc \in {"down", "cleanup"} PROVE Flight'
  <2>1. op'[Execute].pc \notin {"running", "allocating"} \cup ProvisionStates
    BY <1>3 DEF ProvisionStates
  <2>. QED  BY <1>1, <1>3, <2>1, SameFlightKinds, ExecuteGoes DEF Still
<1>4. ASSUME Still, Others(Execute), op'[Execute].pc = "allocating",
             op'[Execute].batch = 0 => \E s \in Step : op'[Execute].kids = {s}
      PROVE  Flight'
  <2>1. SameFlight /\ thread' = thread
    BY <1>4, SameFlightKinds DEF Still
  <2>2. FlightIsCurrent' /\ ThreadsAgree'
    BY <2>1, SameFlightIsCurrent, SameThreadsAgree DEF Flight
  <2>3. FlightIsRun'
    BY <1>2, <1>4, <2>1 DEF FlightIsRun, SameFlight, InFlight
  <2>4. KidsAreChildren'
    BY <1>4 DEF KidsAreChildren, ProvisionStates
  <2>5. Apart'
    BY <1>1, <1>4 DEF Flight, Apart, Others, O
  <2>. QED  BY <2>2, <2>3, <2>4, <2>5 DEF Flight
<1>5. ASSUME NEW b \in Batch, NEW kids, Allocates(b, 0, kids) PROVE Flight'
  BY <1>4, <1>5 DEF Allocates, Begins, Batch
<1>6. ASSUME NEW s \in Step, NEW g, Allocates(0, g, {s}) PROVE Flight'
  BY <1>4, <1>6 DEF Allocates, Begins
<1>7. ASSUME NEW s \in Step, LeaseChild(s), Still, Goes(Execute, "allocating", E.steps \ {s})
      PROVE  Flight'
  <2>1. E.pc = "allocating"
    BY <1>7 DEF LeaseChild, At
  <2>. QED  BY <1>4, <1>7, <2>1 DEF Goes, Keeps, Flight, KidsAreChildren
<1>8. ASSUME SavePrepared, PreparedOnly(E.batch, E.group, E.kids), Walks(Execute, "running"),
             \A s \in Step : thread'[s] = IF s \in E.kids THEN "queued" ELSE thread[s]
      PROVE  Flight'
  <2>1. /\ E.pc = "allocating" /\ E.kids \subseteq Step
        /\ \A s \in E.kids : db.steps[s].attempts < MaxAttempts[s]
    BY <1>8, ProcessFields DEF SavePrepared, MayPrepare, At
  <2>2. \A s \in E.kids : /\ NextDispatch(s) \in Dispatch /\ NextDispatch(s)[1] = s
                          /\ Current(s)' = NextDispatch(s)
                          /\ NextDispatch(s)[2] = db'.steps[s].attempts
    BY <1>8, <2>1, NextDispatchIsDispatch DEF PreparedOnly, Current, NextDispatch
  <2>3. \A d \in Dispatch : InFlight(d)' => d[1] \in E.kids /\ d = NextDispatch(d[1])
    BY <1>2, <1>8 DEF PreparedOnly, InFlight
  <2>4. FlightIsCurrent'
    BY <1>8, <2>1, <2>2, <2>3 DEF FlightIsCurrent, InFlight, PreparedOnly
  <2>5. \A s \in Step : s \notin E.kids => thread'[s] = "idle"
    BY <1>8, <2>1, TypedIsActing
  <2>6. ThreadsAgree'
    BY <1>8, <2>2, <2>5 DEF ThreadsAgree, ThreadDispatchStates, PreparedOnly
  <2>7. FlightIsRun'
    BY <1>8, <2>3 DEF FlightIsRun, InFlight, Walks, Keeps
  <2>8. KidsAreChildren'
    <3>1. E.batch # 0 => db'.batches[E.batch].children = {NextDispatch(s) : s \in E.kids}
      BY <1>8, ProcessFields DEF PreparedOnly
    <3>2. E.batch # 0 => \A s \in E.kids :
            \E d \in db'.batches[E.batch].children :
                /\ d[1] = s /\ d[2] <= db'.steps[s].attempts /\ d = Current(s)'
      <4>1. SUFFICES ASSUME E.batch # 0, NEW s \in E.kids
                     PROVE  \E d \in db'.batches[E.batch].children :
                              /\ d[1] = s /\ d[2] <= db'.steps[s].attempts /\ d = Current(s)'
        OBVIOUS
      <4>2. db'.steps[s].attempts \in Nat
        BY <1>8, <2>1 DEF PreparedOnly, LooseRecord, StepRecord
      <4>3. NextDispatch(s) \in db'.batches[E.batch].children
        BY <3>1, <4>1
      <4>. QED  BY <2>2, <4>1, <4>2, <4>3
    <3>. QED  BY <1>8, <2>1, <3>2 DEF KidsAreChildren, Walks, Keeps, Flight, ProvisionStates
  <2>9. Apart'
    BY <1>8, <2>1 DEF Flight, Apart, Walks, Others, O
  <2>. QED  BY <2>4, <2>6, <2>7, <2>8, <2>9 DEF Flight
<1>9. ASSUME Stops(Execute), Still PROVE Flight'
  BY <1>3, <1>9, DownFields DEF Stops
<1>10. ASSUME Forces, Still PROVE Flight'
  BY <1>3, <1>10 DEF Forces
<1>. QED  BY <1>0, <1>5, <1>6, <1>7, <1>8, <1>9, <1>10 DEF PrepareRows

(* One step of a thread moves its own dispatch and its own step. *)
WorksOn(s, target) ==
    /\ op' = op
    /\ \A t \in Step \ {s} : thread'[t] = thread[t] /\ db'.steps[t].state = db.steps[t].state
    /\ \A t \in Step : db'.steps[t].attempts = db.steps[t].attempts
    /\ \A d \in Dispatch : db'.dispatches[d].state =
                             IF d = Current(s) THEN target ELSE db.dispatches[d].state
    /\ \A b \in Batch : db'.batches[b].children = db.batches[b].children

LEMMA WorksOnFlight ==
    ASSUME Typed, Flight, NEW s \in Step, NEW target, WorksOn(s, target),
           E.pc = "running", db.steps[s].attempts > 0,
           target \in InFlightStates =>
                InFlight(Current(s)) /\ db'.steps[s].state = db.steps[s].state,
           target \in ThreadDispatchStates(thread'[s]),
           thread'[s] \in {"failing", "stalling"} => db'.steps[s].state = "EXECUTING"
    PROVE  Flight'
<1>. USE Executing DEF E
<1>1. Current(s) \in Dispatch /\ \A t \in Step : Current(t)' = Current(t)
  BY CurrentIsDispatch, CurrentStays DEF WorksOn, Typed
<1>2. \A d \in Dispatch : InFlight(d)' => InFlight(d)
  BY DEF WorksOn, InFlight
<1>3. FlightIsCurrent'
  <2>. SUFFICES ASSUME NEW d \in Dispatch, InFlight(d)'
                PROVE  db'.steps[d[1]].state = "EXECUTING" /\ Current(d[1])' = d
    BY DEF FlightIsCurrent, InFlight
  <2>1. d[1] \in Step /\ db.steps[d[1]].state = "EXECUTING" /\ Current(d[1]) = d
    BY <1>2, FlightPairs DEF Flight
  <2>2. CASE d[1] = s
    BY <1>1, <2>1, <2>2 DEF WorksOn, InFlight
  <2>3. CASE d[1] # s
    BY <1>1, <2>1, <2>3 DEF WorksOn
  <2>. QED  BY <2>2, <2>3
<1>4. ThreadsAgree'
  <2>. SUFFICES ASSUME NEW t \in Step
                PROVE  /\ thread'[t] # "idle" =>
                            db'.dispatches[Current(t)].state \in ThreadDispatchStates(thread'[t])
                       /\ thread'[t] \in {"failing", "stalling"} =>
                            db'.steps[t].state = "EXECUTING"
    BY <1>1 DEF ThreadsAgree
  <2>1. CASE t = s
    BY <1>1, <2>1 DEF WorksOn
  <2>2. CASE t # s
    <3>1. thread'[t] = thread[t] /\ db'.steps[t].state = db.steps[t].state
      BY <2>2 DEF WorksOn
    <3>2. Current(t) # Current(s)
      BY <2>2 DEF Current
    <3>3. thread[t] # "idle" => db'.dispatches[Current(t)].state = db.dispatches[Current(t)].state
      BY <3>2, CurrentIsDispatch DEF WorksOn, Typed, Counted, ThreadsOK
    <3>. QED  BY <3>1, <3>3 DEF Flight, ThreadsAgree
  <2>. QED  BY <2>1, <2>2
<1>5. FlightIsRun'
  BY <1>2 DEF Flight, FlightIsRun, WorksOn, InFlight
<1>6. KidsAreChildren'
  <2>1. \A b \in Batch : /\ db'.batches[b].children = db.batches[b].children
                         /\ db.batches[b].children \subseteq Dispatch
    BY TypedIsRecorded DEF WorksOn, BatchRecord
  <2>2. E.batch \in Batch \cup {0} /\ E.kids \subseteq Step
    BY ProcessFields
  <2>3. \A d \in Dispatch : d # Current(s) => db'.dispatches[d].state = db.dispatches[d].state
    BY DEF WorksOn
  <2>4. \A t \in Step : \A d \in Dispatch : d[1] = t /\ d = Current(s) => t = s
    BY DEF Current
  <2>5. E.batch # 0 => \A t \in E.kids : \E d \in db'.batches[E.batch].children :
            /\ d[1] = t /\ d[2] <= db'.steps[t].attempts
            /\ d = Current(t)' \/ db'.dispatches[d].state = "FAILED"
    <3>. SUFFICES ASSUME E.batch # 0, NEW t \in E.kids
                  PROVE  \E d \in db'.batches[E.batch].children :
                            /\ d[1] = t /\ d[2] <= db'.steps[t].attempts
                            /\ d = Current(t)' \/ db'.dispatches[d].state = "FAILED"
      OBVIOUS
    <3>1. PICK d \in db.batches[E.batch].children :
            /\ d[1] = t /\ d[2] <= db.steps[t].attempts
            /\ d = Current(t) \/ db.dispatches[d].state = "FAILED"
      BY <2>2 DEF Flight, KidsAreChildren
    <3>2. d \in Dispatch /\ d \in db'.batches[E.batch].children
      BY <2>1, <2>2, <3>1
    <3>3. d[2] <= db'.steps[t].attempts
      BY <2>2, <3>1 DEF WorksOn
    <3>4. d = Current(t)' \/ db'.dispatches[d].state = "FAILED"
      BY <1>1, <2>2, <2>3, <2>4, <3>1, <3>2
    <3>. QED  BY <3>1, <3>2, <3>3, <3>4
  <2>. QED  BY <2>2, <2>5 DEF KidsAreChildren, Flight, WorksOn
<1>7. Apart'
  BY DEF Flight, Apart, WorksOn, O
<1>. QED  BY <1>3, <1>4, <1>5, <1>6, <1>7 DEF Flight

(* What a report does to the states of the dispatches. *)
LEMMA ReportStates ==
    ASSUME Typed, NEW s \in Step, NEW target \in DispatchStates, Reports(s, target)
    PROVE  /\ \A d \in Dispatch :
                /\ db'.dispatches[d].state =
                     IF d = Current(s) THEN target ELSE db.dispatches[d].state
                /\ db'.dispatches[d].group = db.dispatches[d].group
                /\ db'.dispatches[d].batch = db.dispatches[d].batch
           /\ \A b \in Batch : db'.batches[b].children = db.batches[b].children
<1>1. db.dispatches \in [Dispatch -> DispatchRecord]
  BY DEF Typed, Shape, LooseRecord
<1>. QED  BY <1>1, TurnedDispatch DEF Reports

LEMMA RetryFlight ==
    ASSUME Typed, Flight, NEW s \in Step, NEW g, op' = op,
           PreparedOnly(0, g, {s}), db.steps[s].attempts < MaxAttempts[s],
           db.steps[s].state = "READY", thread[s] = "retrying", thread'[s] = "queued",
           \A t \in Step \ {s} : thread'[t] = thread[t]
    PROVE  Flight'
<1>. USE Executing DEF E
<1>0. E.pc = "running" /\ s \in E.kids /\ db.steps[s].attempts > 0
  BY DEF Typed, Counted, ThreadsOK
<1>1. /\ NextDispatch(s) \in Dispatch /\ NextDispatch(s)[1] = s
      /\ Current(s)' = NextDispatch(s) /\ Current(s) # NextDispatch(s)
      /\ \A t \in Step \ {s} : Current(t)' = Current(t) /\ db'.steps[t] = db.steps[t]
      /\ db.steps[s].attempts \in Nat /\ db'.steps[s].attempts = db.steps[s].attempts + 1
      /\ db'.steps[s].state = "EXECUTING"
  BY NextDispatchIsDispatch DEF PreparedOnly, Current, NextDispatch, LooseRecord, StepRecord
<1>2. \A d \in Dispatch : InFlight(d) => d[1] # s
  BY FlightPairs DEF Flight
<1>3. \A d \in Dispatch \ {NextDispatch(s)} : db'.dispatches[d] = db.dispatches[d]
  BY DEF PreparedOnly
<1>4. \A d \in Dispatch : InFlight(d)' => d = NextDispatch(s) \/ (InFlight(d) /\ d[1] # s)
  BY <1>2, <1>3 DEF InFlight
<1>5. FlightIsCurrent'
  <2>. SUFFICES ASSUME NEW d \in Dispatch, InFlight(d)'
                PROVE  db'.steps[d[1]].state = "EXECUTING" /\ Current(d[1])' = d
    BY DEF FlightIsCurrent, InFlight
  <2>1. CASE d = NextDispatch(s)
    BY <1>1, <2>1
  <2>2. CASE InFlight(d) /\ d[1] # s
    BY <1>1, <2>2, FlightPairs DEF Flight
  <2>. QED  BY <1>4, <2>1, <2>2
<1>6. ThreadsAgree'
  <2>. SUFFICES ASSUME NEW t \in Step
                PROVE  /\ thread'[t] # "idle" =>
                            db'.dispatches[Current(t)'].state \in ThreadDispatchStates(thread'[t])
                       /\ thread'[t] \in {"failing", "stalling"} =>
                            db'.steps[t].state = "EXECUTING"
    BY DEF ThreadsAgree
  <2>1. CASE t = s
    BY <1>1, <2>1 DEF PreparedOnly, ThreadDispatchStates
  <2>2. CASE t # s
    <3>1. thread'[t] = thread[t] /\ db'.steps[t] = db.steps[t] /\ Current(t)' = Current(t)
      BY <1>1, <2>2
    <3>2. Current(t) # NextDispatch(s)
      BY <2>2 DEF Current, NextDispatch
    <3>3. thread[t] # "idle" => db'.dispatches[Current(t)] = db.dispatches[Current(t)]
      BY <1>3, <3>2, CurrentIsDispatch DEF Typed, Counted, ThreadsOK
    <3>. QED  BY <3>1, <3>3 DEF Flight, ThreadsAgree
  <2>. QED  BY <2>1, <2>2
<1>7. FlightIsRun'
  BY <1>0, <1>1, <1>4 DEF Flight, FlightIsRun, InFlight
<1>8. KidsAreChildren'
  <2>1. E.batch \in Batch \cup {0} /\ E.kids \subseteq Step
    BY ProcessFields
  <2>2. \A b \in Batch : /\ db'.batches[b].children = db.batches[b].children
                         /\ db.batches[b].children \subseteq Dispatch
    BY TypedIsRecorded DEF PreparedOnly, Batch, Recorded, LooseRecord, BatchRecord
  <2>3. db.dispatches[Current(s)].state = "FAILED"
    BY DEF Flight, ThreadsAgree, ThreadDispatchStates
  <2>4. E.batch # 0 => \A t \in E.kids : \E d \in db'.batches[E.batch].children :
            /\ d[1] = t /\ d[2] <= db'.steps[t].attempts
            /\ d = Current(t)' \/ db'.dispatches[d].state = "FAILED"
    <3>. SUFFICES ASSUME E.batch # 0, NEW t \in E.kids
                  PROVE  \E d \in db'.batches[E.batch].children :
                            /\ d[1] = t /\ d[2] <= db'.steps[t].attempts
                            /\ d = Current(t)' \/ db'.dispatches[d].state = "FAILED"
      OBVIOUS
    <3>1. PICK d \in db.batches[E.batch].children :
            /\ d[1] = t /\ d[2] <= db.steps[t].attempts
            /\ d = Current(t) \/ db.dispatches[d].state = "FAILED"
      BY <1>0, <2>1 DEF Flight, KidsAreChildren
    <3>2. d \in Dispatch /\ d \in db'.batches[E.batch].children /\ d[2] \in Nat
      BY <2>1, <2>2, <3>1, DispatchPairs, BoundAssumption
    <3>3. d[2] <= db'.steps[t].attempts
      BY <1>1, <2>1, <3>1, <3>2
    <3>4. CASE t = s
      <4>1. db.dispatches[d].state = "FAILED" /\ d # NextDispatch(s)
        BY <1>1, <2>3, <3>1, <3>2, <3>4 DEF NextDispatch
      <4>. QED  BY <1>3, <3>1, <3>2, <3>3, <4>1
    <3>5. CASE t # s
      <4>1. d # NextDispatch(s)
        BY <1>1, <3>1, <3>5
      <4>. QED  BY <1>1, <1>3, <2>1, <3>1, <3>2, <3>3, <3>5, <4>1
    <3>. QED  BY <3>4, <3>5
  <2>. QED  BY <1>0, <2>4 DEF KidsAreChildren, Flight, ProvisionStates
<1>9. Apart'
  BY DEF Flight, Apart, O
<1>. QED  BY <1>5, <1>6, <1>7, <1>8, <1>9 DEF Flight

LEMMA WorkFlight ==
    ASSUME Typed, Flight, NEW s \in Step, Work(s)
    PROVE  Flight'
<1>. USE Executing DEF E
<1>0. /\ WorkRows(s)
      /\ op' = op /\ thread[s] # "idle"
      /\ \A t \in Step \ {s} : thread'[t] = thread[t]
      /\ E.pc = "running" /\ s \in E.kids /\ db.steps[s].attempts > 0
  BY WorkByRows, WorkFrame DEF Typed, Counted, ThreadsOK
<1>1. /\ db.dispatches[Current(s)].state \in ThreadDispatchStates(thread[s])
      /\ Current(s) \in Dispatch
      /\ thread[s] \in {"failing", "stalling"} => db.steps[s].state = "EXECUTING"
      /\ InFlight(Current(s)) => db.steps[s].state = "EXECUTING"
  BY <1>0, CurrentIsDispatch, FlightPairs DEF Flight, ThreadsAgree, Typed, FlightIsCurrent, InFlight,
     Current
<1>2. ASSUME NEW target \in DispatchStates, Reports(s, target),
             db'.steps = db.steps \/ \E outcome \in StepStatuses :
                db'.steps = Turned(db.steps, s, outcome)
      PROVE  WorksOn(s, target)
  BY <1>0, <1>2, ReportStates, TurnedCounts DEF WorksOn
<1>3. ASSUME db' = db \/ SameDispatches,
             \A t \in Step : db'.steps[t].attempts = db.steps[t].attempts,
             \A t \in Step \ {s} : db'.steps[t].state = db.steps[t].state
      PROVE  WorksOn(s, db.dispatches[Current(s)].state)
  BY <1>0, <1>3 DEF WorksOn, SameDispatches
<1>4. DispatchStates = {"NONE", "PREPARED", "RUNNING", "COMPLETED", "FORWARDED", "ACKNOWLEDGED",
                        "FAILED", "ABANDONED"}
  BY DEF DispatchStates
<1>5. ASSUME Launch(s) PROVE Flight'
  <2>1. /\ Reports(s, "RUNNING") /\ db'.steps = db.steps
        /\ thread[s] = "queued" /\ thread'[s] = "working"
    BY <1>5, LaunchEffect
  <2>. QED  BY <1>0, <1>1, <1>2, <1>4, <2>1, WorksOnFlight
            DEF ThreadDispatchStates, InFlight, InFlightStates
<1>6. ASSUME RetryStalled(s) PROVE Flight'
  <2>1. CASE thread'[s] = "raised" /\ db' = db
    BY <1>0, <1>1, <1>3, <1>4, <2>1, WorksOnFlight, TypedIsRecorded
    DEF ThreadDispatchStates, InFlight, Recorded, LooseRecord, DispatchRecord
  <2>. QED  BY <1>0, <1>6, <2>1, RetryEffect, RetryFlight
<1>7. ASSUME StallStep(s) PROVE Flight'
  <2>1. /\ SameDispatches /\ thread[s] = "stalling" /\ thread'[s] \in {"retrying", "stall_asking"}
        /\ \A t \in Step : db'.steps[t].attempts = db.steps[t].attempts
        /\ \A t \in Step \ {s} : db'.steps[t].state = db.steps[t].state
    BY <1>7, StallEffect
  <2>2. WorksOn(s, db.dispatches[Current(s)].state)
    BY <1>3, <2>1
  <2>3. db.dispatches[Current(s)].state = "FAILED"
    BY <1>1, <2>1 DEF ThreadDispatchStates
  <2>. QED  BY <1>0, <2>1, <2>2, <2>3, WorksOnFlight DEF ThreadDispatchStates, InFlightStates
<1>8. ASSUME db' = db, CommitWork(s) \/ HandlerRaises(s) PROVE Flight'
  <2>1. WorksOn(s, db.dispatches[Current(s)].state)
    BY <1>3, <1>8
  <2>2. (thread[s] = "working" /\ thread'[s] = "committed") \/ thread'[s] = "raised"
    BY <1>8 DEF CommitWork, HandlerRaises, Steps, Shape
  <2>3. db.dispatches[Current(s)].state \in ThreadDispatchStates(thread'[s])
    BY <1>1, <2>2, TypedIsRecorded
    DEF ThreadDispatchStates, Recorded, LooseRecord, DispatchRecord
  <2>. QED  BY <1>0, <1>8, <2>1, <2>2, <2>3, WorksOnFlight DEF InFlight
<1>9. ASSUME Reports(s, "COMPLETED"),
             \/ ApplyCompleted(s) /\ db'.steps = Turned(db.steps, s, "ACCEPTED")
             \/ ApplyBlocked(s) /\ db'.steps = Turned(db.steps, s, "BLOCKED")
      PROVE  Flight'
  <2>1. WorksOn(s, "COMPLETED")
    BY <1>2, <1>4, <1>9 DEF StepStatuses
  <2>2. thread'[s] \in {"forwarding", "escalating"}
    BY <1>9 DEF ApplyCompleted, ApplyBlocked, Steps, Shape
  <2>. QED  BY <1>0, <2>1, <2>2, WorksOnFlight DEF ThreadDispatchStates, InFlightStates
<1>10. ASSUME Reports(s, "FORWARDED"), db'.steps = db.steps,
              PersistForwarded(s) \/ PersistEscalated(s)
       PROVE  Flight'
  <2>1. WorksOn(s, "FORWARDED")
    BY <1>2, <1>4, <1>10
  <2>2. thread'[s] = "done"
    BY <1>10 DEF PersistForwarded, PersistEscalated, Steps, Shape
  <2>. QED  BY <1>0, <2>1, <2>2, WorksOnFlight DEF ThreadDispatchStates, InFlightStates
<1>11. ASSUME Reports(s, "FAILED"), db'.steps = db.steps, FailDispatch(s) \/ StallDispatch(s)
       PROVE  Flight'
  <2>1. WorksOn(s, "FAILED")
    BY <1>2, <1>4, <1>11
  <2>2. thread'[s] \in {"failing", "stalling"} /\ thread[s] \in {"working", "committed"}
    BY <1>11 DEF FailDispatch, StallDispatch, Steps, Shape
  <2>3. db.steps[s].state = "EXECUTING"
    BY <1>1, <2>2 DEF ThreadDispatchStates, InFlight, InFlightStates
  <2>. QED  BY <1>0, <1>11, <2>1, <2>2, <2>3, WorksOnFlight DEF ThreadDispatchStates, InFlightStates
<1>12. ASSUME SameDispatches,
              \/ FailStep(s) /\ db'.steps = Turned(db.steps, s, "BLOCKED")
              \/ (AskReconciliation(s) \/ AskStallRecovery(s)) /\ db'.steps = db.steps
       PROVE  Flight'
  <2>1. WorksOn(s, db.dispatches[Current(s)].state)
    BY <1>3, <1>12, TurnedCounts DEF StepStatuses
  <2>2. thread[s] \in {"failing", "asking", "stall_asking"} /\ thread'[s] \in {"asking", "raised"}
    BY <1>12 DEF FailStep, AskReconciliation, AskStallRecovery, Steps, Shape
  <2>3. db.dispatches[Current(s)].state = "FAILED"
    BY <1>1, <2>2 DEF ThreadDispatchStates
  <2>. QED  BY <1>0, <1>4, <2>1, <2>2, <2>3, WorksOnFlight DEF ThreadDispatchStates, InFlightStates
<1>. QED  BY <1>0, <1>5, <1>6, <1>7, <1>8, <1>9, <1>10, <1>11, <1>12 DEF WorkRows

LEMMA JoinFlight ==
    ASSUME Typed, Flight, Join
    PROVE  Flight'
<1>. USE Executing DEF E
<1>0. JoinRows
  BY JoinByRows
<1>1. ASSUME Idle, SameFlight, Stops(Execute) PROVE Flight'
  BY <1>1, ExecuteMoves, DownFields DEF Stops, ProvisionStates
<1>2. ASSUME Idle, SameFlight, E.pc = "running", NEW X, TurnsTo(X), \A d \in Dispatch : ~InFlight(d)
      PROVE  Flight'
  BY <1>2, ExecuteMoves DEF TurnsTo, Begins, ProvisionStates
<1>3. \A d \in Dispatch : InFlight(d) /\ E.pc = "running" => d[1] \in E.kids /\ Current(d[1]) = d
  BY FlightPairs DEF Flight, FlightIsRun, InFlight
<1>4. ASSUME DispatchEnds, db' = db, Idle, Delivered(E.kids) # {}, TurnsTo(Delivered(E.kids))
      PROVE  Flight'
  <2>1. E.pc = "running" /\ E.batch = 0
    BY <1>4 DEF DispatchEnds, At
  <2>2. PICK s \in Step : E.kids = {s} /\ thread[s] = "done"
    BY <1>4, <2>1 DEF Flight, KidsAreChildren, Delivered
  <2>3. db.dispatches[Current(s)].state = "FORWARDED"
    BY <2>2 DEF Flight, ThreadsAgree, ThreadDispatchStates
  <2>4. \A d \in Dispatch : ~InFlight(d)
    BY <1>3, <2>1, <2>2, <2>3 DEF InFlight, InFlightStates
  <2>. QED  BY <1>2, <1>4, <2>1, <2>4, SameFlightKinds
<1>5. ASSUME FinalizeBatch, Joins(E.batch), E.batch \in Batch, Unresolved(E.batch) = {},
             FailedChildren(E.batch) = {}, Idle, TurnsTo(Delivered(E.kids))
      PROVE  Flight'
  <2>1. E.pc = "running" /\ E.batch # 0
    BY <1>5 DEF FinalizeBatch, At
  <2>2. \A d \in db.batches[E.batch].children :
            db.dispatches[d].state # "FAILED" /\ ~InFlight(d)
    BY <1>5 DEF Unresolved, FailedChildren, InFlight, InFlightStates
  <2>3. \A d \in Dispatch : ~InFlight(d)
    <3>. SUFFICES ASSUME NEW d \in Dispatch, InFlight(d) PROVE FALSE
      OBVIOUS
    <3>1. d[1] \in E.kids /\ Current(d[1]) = d
      BY <1>3, <2>1
    <3>2. PICK e \in db.batches[E.batch].children :
            e = Current(d[1]) \/ db.dispatches[e].state = "FAILED"
      BY <2>1, <3>1 DEF Flight, KidsAreChildren
    <3>. QED  BY <2>2, <3>1, <3>2
  <2>. QED  BY <1>2, <1>5, <2>1, <2>3, SameFlightKinds
<1>6. ASSUME Joins(E.batch), E.batch \in Batch, Idle, Walks(Execute, "batch_asking"),
             E.pc = "running"
      PROVE  Flight'
  BY <1>6, ExecuteMoves, SameFlightKinds DEF Walks, ProvisionStates
<1>7. ASSUME AskBatchReconciliation, thread' = thread, AsksBatch, Stops(Execute) PROVE Flight'
  <2>1. E.pc = "batch_asking"
    BY <1>7 DEF AskBatchReconciliation, At
  <2>. QED  BY <1>7, <2>1, ExecuteMoves, SameFlightKinds, DownFields
            DEF Stops, ProvisionStates, AsksBatch
<1>. QED  BY <1>0, <1>1, <1>4, <1>5, <1>6, <1>7, SameFlightKinds
          DEF JoinRows, FinalizeBatch, At

LEMMA TurnFlight ==
    ASSUME Typed, Flight, Turn
    PROVE  Flight'
<1>. USE Executing DEF E
<1>0. TurnRows
  BY TurnByRows
<1>1. ASSUME Start, Still, TurnsTo({}) PROVE Flight'
  <2>1. SameFlight /\ thread' = thread /\ op'[Execute].pc = "turn" /\ op'[Operator] = op[Operator]
    BY <1>1, SameFlightKinds DEF Still, TurnsTo, Begins, Others
  <2>2. FlightIsCurrent' /\ ThreadsAgree'
    BY <2>1, SameFlightIsCurrent, SameThreadsAgree DEF Flight
  <2>3. FlightIsRun'
    BY <1>1, <2>1
    DEF Start, FlightIsRun, SameFlight, Active, InState, InFlightStates, ActiveDispatchStates
  <2>4. KidsAreChildren' /\ Apart'
    BY <1>1, <2>1 DEF Start, KidsAreChildren, ProvisionStates, Apart, O
  <2>. QED  BY <2>2, <2>3, <2>4 DEF Flight
<1>2. ASSUME SameFlight, thread' = thread, Stops(Execute), E.pc = "turn" PROVE Flight'
  BY <1>2, ExecuteGoes, DownFields DEF Stops, ProvisionStates
<1>3. ASSUME NEW d \in Dispatch, Acknowledge(d), Acknowledges(d) PROVE Flight'
  <2>1. E.pc = "turn" /\ op'[Execute].pc \in {"turn", "integrate"} /\ Others(Execute)
        /\ thread' = thread
    BY <1>3 DEF Acknowledge, At, Acknowledges
  <2>2. db.dispatches \in [Dispatch -> DispatchRecord] /\ "ACKNOWLEDGED" \in DispatchStates
    BY DEF LooseRecord, DispatchStates
  <2>3. \A e \in Dispatch : ~InFlight(e)'
    <3>1. \A e \in Dispatch : ~InFlight(e)
      BY <2>1, NoFlight
    <3>2. \A e \in Dispatch : db'.dispatches[e].state =
                                IF e = d THEN "ACKNOWLEDGED" ELSE db.dispatches[e].state
      BY <1>3, <2>2, TurnedDispatch DEF Acknowledges
    <3>. QED  BY <3>1, <3>2 DEF InFlight, InFlightStates
  <2>4. \A s \in Step : thread[s] = "idle"
    BY <2>1, TypedIsActing
  <2>5. FlightIsCurrent' /\ ThreadsAgree' /\ FlightIsRun'
    BY <2>1, <2>3, <2>4 DEF FlightIsCurrent, ThreadsAgree, FlightIsRun, InFlight
  <2>6. KidsAreChildren' /\ Apart'
    BY <2>1 DEF KidsAreChildren, ProvisionStates, Flight, Apart, Others, O
  <2>. QED  BY <2>5, <2>6 DEF Flight
<1>. QED  BY <1>0, <1>1, <1>2, <1>3, SameFlightKinds
          DEF TurnRows, Complete, AtCommand, Stop, At, Still

LEMMA IntegrateFlight ==
    ASSUME Typed, Flight, Integrate
    PROVE  Flight'
<1>. USE Executing DEF E
<1>0. IntegrateRows /\ E.pc \in IntegrationStates
  BY IntegrateByRows
  DEF Integrate, BeginIntegration, OpenIntegration, Promote, IntegrationFails, MergeChild,
      SavePromoted, FailIntegration, AskWorkspaceReconciliation, At, IntegrationStates
<1>1. SameFlight /\ Others(Execute) /\ thread' = thread
  BY <1>0, SameFlightKinds
  DEF IntegrateRows, TurnsGroup, Still, SavesPromoted, AsksGroup, Walks, Goes, TurnsTo, Begins
<1>2. op'[Execute].pc \in IntegrationStates \cup {"cleanup", "turn"}
  BY <1>0 DEF IntegrateRows, Walks, Goes, TurnsTo, Begins, IntegrationStates
<1>. QED  BY <1>0, <1>1, <1>2, ExecuteGoes DEF IntegrationStates, ProvisionStates

LEMMA CleanupFlight ==
    ASSUME Typed, Flight, NEW a \in Command, Cleanup(a)
    PROVE  Flight'
<1>. USE Executing DEF E
<1>0. CleanupRows(a) /\ op[a].pc \in CleanupStates
  BY CleanupByRows
  DEF Cleanup, BeginCleanup, CheckCleanup, RemovePlace, RemovePlaceFails, EndRemoval, SaveCleaned,
      SaveUnclean, At, CleanupStates
<1>1. SameFlight /\ Others(a) /\ thread' = thread
  BY <1>0, SameFlightKinds
  DEF CleanupRows, Removes, TurnsGroup, Still, Walks, Goes, TurnsTo, Begins, Stops
<1>2. op'[a].pc \in CleanupStates \cup {"answering", "asking", "turn", "down"}
  BY <1>0, DownFields DEF CleanupRows, Removes, Walks, Goes, TurnsTo, Begins, Stops, CleanupStates
<1>3. CASE a = Execute
  BY <1>0, <1>1, <1>2, <1>3, ExecuteGoes DEF CleanupStates, ProvisionStates
<1>4. CASE a = Operator
  BY <1>0, <1>1, <1>2, <1>4, OperatorMoves DEF CleanupStates, RecoverStates, Others
<1>. QED  BY <1>3, <1>4 DEF Command

LEMMA AnswerFlight ==
    ASSUME Typed, Flight, Answer
    PROVE  Flight'
<1>. USE Executing DEF E
<1>0. AnswerRows /\ thread' = thread
  BY AnswerByRows
<1>1. SameFlight
  BY <1>0, SameFlightKinds DEF AnswerRows, Still
<1>2. op' = op \/ (Others(Operator) /\ op'[Operator].pc \in {"cleanup", "down"})
  BY <1>0, DownFields DEF AnswerRows, Begins, Stops
<1>3. op'[Execute] = op[Execute]
  BY <1>2 DEF Others
<1>4. op'[Operator].pc \in RecoverStates => E.pc = "down"
  BY <1>2, ApartIsDown DEF RecoverStates, O
<1>. QED  BY <1>0, <1>1, <1>3, <1>4, OperatorMoves

LEMMA RecoverFlight ==
    ASSUME Typed, Flight, Recover
    PROVE  Flight'
<1>. USE Executing DEF E, O
<1>0. RecoverRows /\ thread' = thread
  BY RecoverByRows
<1>1. E.pc = "down"
  <2>1. RecoverStart \/ O.pc \in RecoverStates
    BY <1>0 DEF RecoverRows, Recovers, RecoverStates
  <2>. QED  BY <2>1, ApartIsDown DEF RecoverStart, At
<1>2. Others(Operator)
  BY <1>0 DEF RecoverRows, Recovers, Begins, Walks, Stops
<1>3. op'[Execute] = op[Execute]
  BY <1>2 DEF Others
<1>4. CASE SameFlight
  BY <1>0, <1>1, <1>3, <1>4, OperatorMoves
<1>5. ASSUME NEW d \in Dispatch, InFlight(d), Interrupted(d) PROVE Flight'
  <2>1. /\ db.dispatches \in [Dispatch -> DispatchRecord]
        /\ "FAILED" \in DispatchStates /\ "ABANDONED" \in DispatchStates
        /\ "BLOCKED" \in StepStatuses
    BY DEF LooseRecord, DispatchStates, StepStatuses
  <2>2. \A e \in Dispatch \ {d} : db'.dispatches[e].state = db.dispatches[e].state
    BY <1>5, <2>1, TurnedDispatch DEF Interrupted
  <2>3. db'.dispatches[d].state \in {"FAILED", "ABANDONED"}
    BY <1>5, <2>1, TurnedDispatch DEF Interrupted
  <2>4. \A t \in Step : /\ db'.steps[t].attempts = db.steps[t].attempts
                        /\ t # d[1] => db'.steps[t].state = db.steps[t].state
    BY <1>5, <2>1, TurnedCounts DEF Interrupted
  <2>5. \A e \in Dispatch : InFlight(e)' => InFlight(e) /\ e # d
    BY <2>2, <2>3 DEF InFlight, InFlightStates
  <2>6. FlightIsCurrent'
    <3>. SUFFICES ASSUME NEW e \in Dispatch, InFlight(e)'
                  PROVE  db'.steps[e[1]].state = "EXECUTING" /\ Current(e[1])' = e
      BY DEF FlightIsCurrent, InFlight
    <3>1. e[1] \in Step /\ db.steps[e[1]].state = "EXECUTING" /\ Current(e[1]) = e /\ e # d
      BY <2>5, FlightPairs DEF Flight
    <3>2. Current(d[1]) = d
      BY <1>5, FlightPairs DEF Flight
    <3>. QED  BY <2>4, <3>1, <3>2, CurrentStays
  <2>7. ThreadsAgree'
    BY <1>0, <1>1, TypedIsActing DEF ThreadsAgree
  <2>8. FlightIsRun' /\ KidsAreChildren' /\ Apart'
    BY <1>1, <1>3 DEF FlightIsRun, KidsAreChildren, ProvisionStates, Apart
  <2>. QED  BY <2>6, <2>7, <2>8 DEF Flight
<1>. QED  BY <1>0, <1>4, <1>5, SameFlightKinds DEF RecoverRows, InFlight, AsksBatch

LEMMA DisturbFlight ==
    ASSUME Typed, Flight, Disturb
    PROVE  Flight'
<1>. USE Executing DEF E
<1>0. DisturbRows /\ db' = db /\ SameFlight
  BY DisturbByRows, SameFlightKinds
<1>1. ASSUME Stops(Operator), thread' = thread PROVE Flight'
  <2>1. op'[Execute] = op[Execute] /\ op'[Operator].pc = "down"
    BY <1>1, DownFields DEF Stops, Others
  <2>. QED  BY <1>0, <1>1, <2>1, OperatorMoves DEF RecoverStates
<1>2. ASSUME Stops(Execute), Idle PROVE Flight'
  BY <1>0, <1>2, ExecuteMoves, DownFields DEF Stops, ProvisionStates
<1>3. ASSUME Raises(Execute), Stops(Execute), thread' = thread PROVE Flight'
  <2>1. E.pc # "running"
    BY <1>3 DEF Raises
  <2>. QED  BY <1>0, <1>3, <2>1, ExecuteMoves, DownFields DEF Stops, ProvisionStates
<1>4. ASSUME E.pc = "cleanup", Walks(Execute, "asking"), thread' = thread PROVE Flight'
  BY <1>0, <1>4, ExecuteGoes DEF Walks, ProvisionStates
<1>5. ASSUME op' = op, thread' = thread PROVE Flight'
  BY <1>0, <1>5, OperatorMoves, ApartIsDown DEF O
<1>6. ASSUME op' = op, NEW s \in Step, thread[s] = "working", thread'[s] = "raised",
             \A t \in Step \ {s} : thread'[t] = thread[t]
      PROVE  Flight'
  <2>1. FlightIsCurrent' /\ FlightIsRun' /\ KidsAreChildren' /\ Apart'
    BY <1>0, <1>6 DEF Flight, FlightIsCurrent, FlightIsRun, KidsAreChildren, Apart, O, Current
  <2>2. \A t \in Step : Current(t)' = Current(t)
    BY <1>0 DEF Current
  <2>3. db.dispatches[Current(s)].state \in DispatchStates
    BY <1>6, CurrentIsDispatch DEF Typed, Counted, ThreadsOK, LooseRecord, DispatchRecord
  <2>4. ThreadsAgree'
    BY <1>0, <1>6, <2>2, <2>3 DEF Flight, ThreadsAgree, ThreadDispatchStates
  <2>. QED  BY <2>1, <2>4 DEF Flight
<1>. QED  BY <1>0, <1>1, <1>2, <1>3, <1>4, <1>5, <1>6 DEF DisturbRows, Command

LEMMA FlightStep ==
    ASSUME Typed, Flight, [Next]_vars
    PROVE  Flight'
<1>1. CASE UNCHANGED vars
  <2>1. db' = db /\ op' = op /\ thread' = thread
    BY <1>1 DEF vars
  <2>. QED  BY <2>1, OperatorMoves, SameFlightKinds, ApartIsDown DEF O
<1>2. CASE Next
  BY <1>2, ProvisionFlight, PrepareFlight, WorkFlight, JoinFlight, TurnFlight, IntegrateFlight,
     CleanupFlight, AnswerFlight, RecoverFlight, DisturbFlight DEF Next
<1>. QED  BY <1>1, <1>2

LEMMA FlightInit ==
    ASSUME Init
    PROVE  Flight
<1>1. /\ op = [a \in Command |-> Down] /\ thread = [s \in Step |-> "idle"]
      /\ \A d \in Dispatch : db.dispatches[d].state = "NONE"
  BY DEF Init, Undispatched
<1>2. E.pc = "down" /\ O.pc = "down"
  BY <1>1, DownFields DEF E, O, Command, Execute, Operator
<1>. QED  BY <1>1, <1>2
          DEF Flight, FlightIsCurrent, ThreadsAgree, FlightIsRun, KidsAreChildren, Apart,
              ProvisionStates, InFlightStates
-----------------------------------------------------------------------------
(* Layer 3: who acts on which group.                                       *)
GroupsStay ==
    \A g \in Group : /\ db'.groups[g].state = db.groups[g].state
                     /\ db'.groups[g].children = db.groups[g].children

FlightShrinks ==
    \A d \in Dispatch : InFlight(d)' =>
        InFlight(d) /\ db'.dispatches[d].group = db.dispatches[d].group

LEMMA FlightStaysGrouped ==
    ASSUME Typed, FlightIsGrouped, GroupsStay, FlightShrinks
    PROVE  FlightIsGrouped'
<1>1. \A d \in Dispatch : db.dispatches[d].group \in Group \cup {0}
  BY DEF Typed, Shape, LooseRecord, DispatchRecord
<1>. QED  BY <1>1 DEF FlightIsGrouped, GroupsStay, FlightShrinks, InFlight, State

LEMMA NoFlightIsGrouped ==
    ASSUME Typed, Flight, E.pc \notin {"down", "running", "batch_asking"},
           db'.dispatches = db.dispatches
    PROVE  FlightIsGrouped'
BY NoFlight DEF FlightIsGrouped, InFlight

(* A group whose state turns. *)
LEMMA TurnedGroups ==
    ASSUME Typed, NEW g, NEW target \in GroupStates, TurnsGroup(g, target)
    PROVE  /\ \A h \in Group :
                /\ db'.groups[h].state = IF h = g THEN target ELSE db.groups[h].state
                /\ db'.groups[h].children = db.groups[h].children
                /\ db'.groups[h].base = db.groups[h].base
           /\ db'.run = db.run /\ db'.request = db.request /\ db'.dispatches = db.dispatches
           /\ thread' = thread /\ barrier' = barrier
<1>1. db.groups \in [Group -> LooseGroup]
  BY DEF Typed, Shape, LooseRecord
<1>. QED  BY <1>1, TurnedGroup DEF TurnsGroup, GroupsOnly, SameRun

(* Execute has the run to itself when it works, and the operator when he   *)
(* answers for a group.                                                    *)
LEMMA RunIsNotAboutGroup ==
    ASSUME Typed, db.run # "WAITING_OPERATOR"
    PROVE  ~AboutGroup
BY TypedIsRecorded, RequestFields DEF Recorded, RequestOK, AboutGroup

LEMMA ExecuteAlone ==
    ASSUME Typed, Flight, Control, E.pc \notin {"down", "turn"} \/ db.run = "RUNNING",
           E.pc # "down"
    PROVE  O.pc = "down" /\ ~AboutGroup
<1>1. ~AboutGroup
  BY RunIsNotAboutGroup DEF Control, Duties
<1>. QED  BY <1>1 DEF Control, Duties, Flight, Apart

LEMMA ExecuteRuns ==
    ASSUME Typed, Flight, Control, E.pc \notin {"down", "turn", "running", "batch_asking"}
    PROVE  O.pc = "down" /\ ~AboutGroup /\ db.run = "RUNNING" /\ Execute \in fresh
BY ExecuteAlone DEF Control, Duties

LEMMA OperatorAnswers ==
    ASSUME Typed, Flight, Control, O.pc \in {"answering"} \cup CleanupStates
    PROVE  /\ AboutGroup /\ db.request.group = O.group /\ ~O.force
           /\ E.pc \in {"down", "turn"} /\ NoneAdmitted
           /\ State(O.group) # "NONE" /\ O.group \in Group
<1>1. /\ AboutGroup /\ db.request.group = O.group /\ ~O.force
      /\ E.pc \in {"down", "turn"} /\ NoneAdmitted /\ State(O.group) # "NONE"
  BY DEF Control, Duties
<1>2. O.group # 0
  BY <1>1, TypedIsRecorded DEF Recorded, RequestOK, AboutGroup
<1>. QED  BY <1>1, <1>2, Executing, ProcessFields DEF O

(* A step of execute while the operator does nothing. *)
LEMMA ExecuteDuties ==
    ASSUME Others(Execute), O.pc = "down", ~AboutGroup',
           op'[Execute].pc \notin RecoverStates \cup {"answering"},
           op'[Execute].pc \notin {"down", "turn", "running", "batch_asking"} =>
                db'.run = "RUNNING" /\ Execute \in fresh',
           op'[Execute].pc = "turn" /\ Execute \in fresh' => db'.run = "RUNNING"
    PROVE  Duties'
<1>1. op'[Operator] = op[Operator]
  BY DEF Others, Command, Execute, Operator
<1>. QED  BY <1>1 DEF Duties, E, O, CleanupStates

LEMMA ProvisionControl ==
    ASSUME Typed, Flight, Control, Provision
    PROVE  Control'
<1>. USE Executing DEF E, O
<1>0. ProvisionRows
  BY ProvisionByRows
<1>1. E.pc \in ProvisionStates \/ (E.pc = "turn" /\ AtCommand)
  BY DEF Provision, PlanGroup, AtCommand, LeaseGroup, Undone, FailGroup, ActivateGroup, AddTree,
         AddTreeFails, Undo, At, ProvisionStates
<1>2. /\ O.pc = "down" /\ ~AboutGroup /\ db.run = "RUNNING" /\ Execute \in fresh
      /\ E.pc \notin {"down", "running", "batch_asking"}
  BY <1>1, ExecuteRuns, ExecuteAlone DEF AtCommand, ProvisionStates
<1>3. /\ Others(Execute) /\ thread' = thread /\ barrier' = barrier /\ SameRun
      /\ db'.dispatches = db.dispatches
  BY <1>0
  DEF ProvisionRows, Plans, Begins, Walks, Goes, Stops, Still, TurnsGroup, GroupsOnly, SameRun
<1>4. FlightIsGrouped'
  BY <1>2, <1>3, NoFlightIsGrouped
<1>5. op'[Execute].pc \in ProvisionStates \cup {"allocating", "down"}
  BY <1>0, DownFields DEF ProvisionRows, Plans, Begins, Walks, Goes, Stops, ProvisionStates
<1>6. op'[Execute].pc = "down" \/ Execute \in fresh'
  BY <1>0, <1>2, DownFields
  DEF ProvisionRows, Plans, PlanGroup, LeaseGroup, Undone, FailGroup, ActivateGroup, AddTree,
      AddTreeFails, Undo, Save, Stops
<1>7. Duties'
  BY <1>2, <1>3, <1>5, <1>6, ExecuteDuties
  DEF AboutGroup, SameRun, ProvisionStates, RecoverStates
<1>8. op'[Operator] = op[Operator]
  BY <1>3 DEF Others
<1>9. ASSUME NEW g \in Group, NEW b, NEW kids, Plans(g, b, kids) PROVE Stations' /\ Admission'
  <2>1. /\ barrier /\ NoneAdmitted
    BY <1>9 DEF Plans, PlanGroup, WorkspaceBatchValid, NoneAdmitted, State
  <2>2. \A h \in Group : State(h)' = IF h = g THEN "PREPARED" ELSE State(h)
    BY <1>9 DEF Plans, State
  <2>3. Stations'
    BY <1>2, <1>8, <1>9, <2>2
    DEF Stations, Plans, Begins, Command, State, ProvisionStates, MergeStates, RemovalStates
  <2>4. Admission'
    BY <1>3, <1>9, <2>1, <2>2
    DEF Admission, Plans, Begins, State, ProvisionStates, NoneAdmitted, AdmittedGroupStates, Control
  <2>. QED  BY <2>3, <2>4
<1>10. ASSUME Still, Keeps(Execute), E.pc \in ProvisionStates, op'[Execute].pc \in ProvisionStates
       PROVE  Stations' /\ Admission'
  <2>1. \A h \in Group : db'.groups[h] = db.groups[h]
    BY <1>10 DEF Still
  <2>2. Stations'
    BY <1>2, <1>8, <1>10, <2>1
    DEF Stations, Keeps, Command, State, Still, MergeStates, RemovalStates, Control,
        ProvisionStates, CleanupStates
  <2>3. Admission'
    BY <1>3, <1>10, <2>1 DEF Admission, Keeps, State, Still, MergeStates, Control, ProvisionStates
  <2>. QED  BY <2>2, <2>3
<1>11. ASSUME FailGroup \/ ActivateGroup PROVE E.pc \in ProvisionStates /\ E.group \in Group
  <2>1. E.pc \in ProvisionStates
    BY <1>11 DEF FailGroup, ActivateGroup, At, ProvisionStates
  <2>. QED  BY <2>1, GroupAt
<1>12. ASSUME FailGroup, TurnsGroup(E.group, "FAILED"), Stops(Execute) PROVE Stations' /\ Admission'
  <2>1. \A h \in Group : State(h)' = IF h = E.group THEN "FAILED" ELSE State(h)
    BY <1>12, TurnedGroups DEF State, GroupStates
  <2>2. State(E.group) = "PREPARED"
    BY <1>11, <1>12 DEF Control, Stations
  <2>3. op'[Execute].pc = "down" /\ op'[Execute].force = FALSE
    BY <1>12, DownFields DEF Stops
  <2>4. Stations'
    BY <1>2, <1>8, <2>3
    DEF Stations, Command, ProvisionStates, MergeStates, RemovalStates
  <2>5. Admission'
    BY <1>3, <1>11, <1>12, <2>1, <2>2, <2>3 DEF Admission, Control, State, AdmittedGroupStates
  <2>. QED  BY <2>4, <2>5
<1>13. ASSUME ActivateGroup, TurnsGroup(E.group, "ACTIVE"), Walks(Execute, "allocating")
       PROVE  Stations' /\ Admission'
  <2>1. \A h \in Group : /\ State(h)' = IF h = E.group THEN "ACTIVE" ELSE State(h)
                         /\ db'.groups[h].children = db.groups[h].children
    BY <1>13, TurnedGroups DEF State, GroupStates
  <2>2. State(E.group) = "PREPARED" /\ db.groups[E.group].children = E.kids
    BY <1>11, <1>13 DEF Control, Stations
  <2>3. Stations'
    BY <1>2, <1>8, <1>11, <1>13, <2>1, <2>2
    DEF Stations, Walks, Keeps, Command, State, ProvisionStates, MergeStates, RemovalStates,
        Control, CleanupStates
  <2>4. Admission'
    BY <1>3, <1>11, <1>13, <2>1, <2>2
    DEF Admission, Walks, Keeps, State, ProvisionStates, Control, AdmittedGroupStates, MergeStates
  <2>. QED  BY <2>3, <2>4
<1>14. ASSUME LeaseGroup \/ Undone \/ \E s \in Step : AddTree(s) \/ AddTreeFails(s) \/ Undo(s)
       PROVE  E.pc \in ProvisionStates
  BY <1>14 DEF LeaseGroup, Undone, AddTree, AddTreeFails, Undo, At, ProvisionStates
<1>15. Stations' /\ Admission'
  BY <1>0, <1>9, <1>10, <1>11, <1>12, <1>13, <1>14
  DEF ProvisionRows, Walks, Goes, ProvisionStates
<1>. QED  BY <1>4, <1>7, <1>15 DEF Control

(* Execute moves on and leaves the groups as they are. *)
LEMMA ExecuteStations ==
    ASSUME Typed, Flight, Control, GroupsStay, Others(Execute), O.pc = "down", barrier' = barrier,
           E.pc # "down" /\ E.pc \notin ProvisionStates \cup MergeStates \cup {"cleanup"},
           op'[Execute].pc \in {"down", "turn", "running", "batch_asking"},
           ~op'[Execute].force
    PROVE  Stations' /\ Admission'
<1>. USE Executing DEF E, O
<1>1. op'[Operator] = op[Operator]
  BY DEF Others
<1>2. Stations'
  BY <1>1 DEF Stations, Command, ProvisionStates, MergeStates, RemovalStates
<1>3. Admission'
  BY DEF Admission, GroupsStay, State, Control
<1>. QED  BY <1>2, <1>3

LEMMA PrepareControl ==
    ASSUME Typed, Flight, Control, Prepare
    PROVE  Control'
<1>. USE Executing DEF E, O
<1>0. PrepareRows
  BY PrepareByRows
<1>1. E.pc = "allocating" \/ (E.pc = "turn" /\ AtCommand)
  BY DEF Prepare, CommandBatch, CommandDispatch, AtCommand, LeaseChild, SavePrepared, RefusePrepare,
         At
<1>2. /\ O.pc = "down" /\ ~AboutGroup /\ db.run = "RUNNING" /\ Execute \in fresh /\ ~E.force
      /\ E.pc \notin {"down", "running", "batch_asking"}
  BY <1>1, ExecuteRuns, ExecuteAlone DEF AtCommand, Control, Stations, CleanupStates
<1>3. Others(Execute) /\ barrier' = barrier /\ SameRun /\ db'.groups = db.groups
  BY <1>0
  DEF PrepareRows, Allocates, Begins, Walks, Goes, Stops, Still, PreparedOnly, SameRun, Forces
<1>4. op'[Operator] = op[Operator] /\ GroupsStay
  BY <1>3 DEF Others, GroupsStay
<1>5. op'[Execute].pc \in {"allocating", "running", "cleanup", "down"}
  BY <1>0, DownFields DEF PrepareRows, Allocates, Begins, Walks, Goes, Stops, Forces
<1>6. op'[Execute].pc \in {"running", "down"} \/ fresh' = fresh
  BY <1>0, DownFields
  DEF PrepareRows, CommandBatch, CommandDispatch, Allocate, LeaseChild, RefusePrepare, Walks, Stops
<1>7. Duties'
  BY <1>2, <1>3, <1>5, <1>6, ExecuteDuties DEF AboutGroup, SameRun, RecoverStates
<1>8. \A g \in Group : State(g) \notin {"PREPARED", "INTEGRATING"}
  BY <1>1 DEF Control, Admission, ProvisionStates, MergeStates
<1>9. ASSUME op'[Execute].pc = "allocating",
             op'[Execute].group # 0 =>
                /\ State(op'[Execute].group) = "ACTIVE" /\ op'[Execute].group \in Group
                /\ op'[Execute].kids \subseteq db.groups[op'[Execute].group].children,
             ~op'[Execute].force
      PROVE  Stations' /\ Admission'
  <2>1. Stations'
    BY <1>2, <1>4, <1>9
    DEF Stations, GroupsStay, State, Command, ProvisionStates, MergeStates, RemovalStates
  <2>2. Admission'
    BY <1>3, <1>4, <1>8 DEF Admission, GroupsStay, State, Control
  <2>. QED  BY <2>1, <2>2
<1>10. ASSUME NEW b, NEW kids, Allocates(b, 0, kids) PROVE Stations' /\ Admission'
  BY <1>9, <1>10 DEF Allocates, Begins
<1>11. ASSUME NEW s \in Step, Allocates(0, GroupFor(s), {s}) PROVE Stations' /\ Admission'
  <2>1. /\ GroupFor(s) \in Group \cup {0}
        /\ GroupFor(s) # 0 => /\ State(GroupFor(s)) = "ACTIVE"
                              /\ s \in db.groups[GroupFor(s)].children
    BY <1>8, GroupForStep
  <2>. QED  BY <1>9, <1>11, <2>1 DEF Allocates, Begins
<1>12. ASSUME NEW s, LeaseChild(s), Goes(Execute, "allocating", E.steps \ {s})
       PROVE  Stations' /\ Admission'
  <2>1. E.pc = "allocating" /\ E.group \in Group \cup {0}
    BY <1>12, ProcessFields DEF LeaseChild, At
  <2>. QED  BY <1>2, <1>9, <1>12, <2>1 DEF Goes, Keeps, Control, Stations
<1>13. ASSUME op'[Execute].pc \in {"running", "down"}, ~op'[Execute].force
       PROVE  Stations' /\ Admission'
  BY <1>1, <1>2, <1>3, <1>4, <1>13, ExecuteStations DEF ProvisionStates, MergeStates
<1>14. ASSUME RefusePrepare, Forces PROVE Stations' /\ Admission'
  <2>1. E.pc = "allocating" /\ E.group # 0 /\ E.group \in Group
    BY <1>14, ProcessFields DEF RefusePrepare, At, Forces
  <2>2. State(E.group) = "ACTIVE"
    BY <2>1 DEF Control, Stations
  <2>3. Stations'
    BY <1>2, <1>4, <1>14, <2>1, <2>2
    DEF Stations, Forces, GroupsStay, State, Command, ProvisionStates, MergeStates, RemovalStates,
        CleanupStates
  <2>4. Admission'
    BY <1>3, <1>4, <1>8 DEF Admission, GroupsStay, State, Control
  <2>. QED  BY <2>3, <2>4
<1>15. Stations' /\ Admission'
  BY <1>0, <1>2, <1>10, <1>11, <1>12, <1>13, <1>14, DownFields
  DEF PrepareRows, Walks, Keeps, Stops
<1>16. FlightIsGrouped'
  <2>1. CASE db' = db
    BY <1>2, <2>1, NoFlightIsGrouped
  <2>2. CASE SavePrepared /\ PreparedOnly(E.batch, E.group, E.kids)
    <3>1. E.pc = "allocating" /\ E.group \in Group \cup {0}
      BY <2>2, ProcessFields DEF SavePrepared, At
    <3>2. \A d \in Dispatch : InFlight(d)' => d[1] \in E.kids /\ db'.dispatches[d].group = E.group
      BY <1>2, <2>2, NoFlight DEF PreparedOnly, InFlight
    <3>3. E.group # 0 => State(E.group) = "ACTIVE" /\ E.kids \subseteq db.groups[E.group].children
      BY <3>1 DEF Control, Stations
    <3>. QED  BY <1>3, <3>1, <3>2, <3>3 DEF FlightIsGrouped, State, InFlight
  <2>. QED  BY <1>0, <2>1, <2>2 DEF PrepareRows, Allocates, Still
<1>. QED  BY <1>7, <1>15, <1>16 DEF Control

(* A thread starts nothing but a retry, and leaves the groups alone. *)
LEMMA WorkShrinks ==
    ASSUME Typed, Flight, Control, NEW s \in Step, Work(s)
    PROVE  /\ WorkRows(s) /\ op' = op /\ barrier' = barrier /\ thread[s] # "idle"
           /\ E.pc = "running" /\ s \in E.kids /\ db.steps[s].attempts > 0
           /\ db.dispatches[Current(s)].state \in ThreadDispatchStates(thread[s])
           /\ O.pc = "down" /\ ~AboutGroup /\ Current(s) \in Dispatch
           /\ \/ SameRun \/ Asks(s)
           /\ db'.groups = db.groups
           /\ FlightShrinks \/ (PreparedOnly(0, GroupFor(s), {s}) /\ RetryStalled(s))
<1>. USE Executing DEF E, O
<1>0. WorkRows(s) /\ op' = op /\ barrier' = barrier /\ thread[s] # "idle"
  BY WorkByRows, WorkFrame
<1>1. /\ E.pc = "running" /\ s \in E.kids /\ db.steps[s].attempts > 0
      /\ db.dispatches[Current(s)].state \in ThreadDispatchStates(thread[s])
      /\ O.pc = "down" /\ ~AboutGroup /\ Current(s) \in Dispatch
  BY <1>0, ExecuteAlone, CurrentIsDispatch DEF Typed, Counted, ThreadsOK, Flight, ThreadsAgree
<1>2. ASSUME NEW target \in DispatchStates, Reports(s, target),
             target \in InFlightStates => InFlight(Current(s))
      PROVE  FlightShrinks
  BY <1>2, ReportStates DEF FlightShrinks, InFlight
<1>3. /\ \/ SameRun \/ Asks(s)
      /\ db'.groups = db.groups
      /\ FlightShrinks \/ (PreparedOnly(0, GroupFor(s), {s}) /\ RetryStalled(s))
  <2>1. ASSUME Launch(s) PROVE SameRun /\ db'.groups = db.groups /\ FlightShrinks
    <3>1. Reports(s, "RUNNING") /\ SameRun /\ thread[s] = "queued"
      BY <2>1, LaunchEffect
    <3>. QED  BY <1>1, <1>2, <3>1
              DEF Reports, DispatchStates, ThreadDispatchStates, InFlight, InFlightStates
  <2>2. ASSUME RetryStalled(s)
        PROVE  /\ SameRun /\ db'.groups = db.groups
               /\ FlightShrinks \/ PreparedOnly(0, GroupFor(s), {s})
    BY <2>2, RetryEffect DEF PreparedOnly, SameRun, FlightShrinks, InFlight
  <2>3. ASSUME StallStep(s) PROVE SameRun /\ db'.groups = db.groups /\ FlightShrinks
    BY <2>3, StallEffect DEF SameDispatches, FlightShrinks, InFlight
  <2>4. ASSUME db' = db PROVE SameRun /\ db'.groups = db.groups /\ FlightShrinks
    BY <2>4 DEF SameRun, FlightShrinks, InFlight
  <2>5. ASSUME NEW target \in {"COMPLETED", "FORWARDED", "FAILED"}, Reports(s, target)
        PROVE  db'.groups = db.groups /\ FlightShrinks
    BY <1>2, <2>5 DEF Reports, DispatchStates, InFlightStates
  <2>6. ASSUME SameDispatches PROVE db'.groups = db.groups /\ FlightShrinks
    BY <2>6 DEF SameDispatches, FlightShrinks, InFlight
  <2>. QED  BY <1>0, <2>1, <2>2, <2>3, <2>4, <2>5, <2>6 DEF WorkRows
<1>. QED  BY <1>0, <1>1, <1>3

LEMMA WorkControl ==
    ASSUME Typed, Flight, Control, NEW s \in Step, Work(s)
    PROVE  Control'
<1>. USE Executing DEF E, O
<1>1. /\ op' = op /\ barrier' = barrier
      /\ E.pc = "running" /\ O.pc = "down" /\ ~AboutGroup
  BY WorkShrinks
<1>3. /\ \/ SameRun \/ Asks(s)
      /\ db'.groups = db.groups
      /\ FlightShrinks \/ (PreparedOnly(0, GroupFor(s), {s}) /\ RetryStalled(s))
  BY WorkShrinks
<1>4. GroupsStay
  BY <1>3 DEF GroupsStay
<1>5. Duties'
  BY <1>1, <1>3, ExecuteDuties
  DEF AboutGroup, SameRun, Asks, RecoverStates, Others
<1>6. Stations' /\ Admission'
  BY <1>1, <1>4, ExecuteStations
  DEF ProvisionStates, MergeStates, Others, Control, Stations, CleanupStates
<1>7. FlightIsGrouped'
  <2>1. CASE FlightShrinks
    BY <1>4, <2>1, FlightStaysGrouped DEF Control
  <2>2. CASE PreparedOnly(0, GroupFor(s), {s})
    <3>1. \A g \in Group : State(g) # "INTEGRATING"
      BY <1>1 DEF Control, Admission, MergeStates
    <3>2. /\ GroupFor(s) \in Group \cup {0}
          /\ GroupFor(s) # 0 => /\ State(GroupFor(s)) = "ACTIVE"
                                /\ s \in db.groups[GroupFor(s)].children
      BY <3>1, GroupForStep
    <3>3. \A d \in Dispatch : InFlight(d)' =>
            \/ d[1] = s /\ db'.dispatches[d].group = GroupFor(s)
            \/ InFlight(d) /\ db'.dispatches[d].group = db.dispatches[d].group
      BY <2>2 DEF PreparedOnly, InFlight
    <3>4. \A d \in Dispatch : db.dispatches[d].group \in Group \cup {0}
      BY DEF LooseRecord, DispatchRecord
    <3>. QED  BY <1>3, <3>2, <3>3, <3>4 DEF FlightIsGrouped, InFlight, State, Control
  <2>. QED  BY <1>3, <2>1, <2>2
<1>. QED  BY <1>5, <1>6, <1>7 DEF Control

LEMMA JoinControl ==
    ASSUME Typed, Flight, Control, Join
    PROVE  Control'
<1>. USE Executing DEF E, O
<1>0. JoinRows
  BY JoinByRows
<1>1. E.pc \in {"running", "batch_asking"}
  BY DEF Join, DispatchEnds, FinalizeBatch, AskBatchReconciliation, At
<1>2. O.pc = "down" /\ ~AboutGroup /\ ~E.force
  BY <1>1, ExecuteAlone DEF Control, Stations, CleanupStates
<1>3. /\ Others(Execute) /\ barrier' = barrier
      /\ op'[Execute].pc \in {"down", "turn", "batch_asking"} /\ ~op'[Execute].force
      /\ op'[Execute].pc = "turn" => db.run = "RUNNING" /\ SameRun
  BY <1>0, <1>2, DownFields DEF JoinRows, Joins, Stops, TurnsTo, Begins, Walks, Keeps, SameRun
<1>4. /\ SameRun \/ AsksBatch
      /\ db'.groups = db.groups /\ db'.dispatches = db.dispatches
  BY <1>0 DEF JoinRows, Joins, SameRun, AsksBatch, RunOnly
<1>5. GroupsStay /\ FlightShrinks
  BY <1>4 DEF GroupsStay, FlightShrinks, InFlight
<1>6. Duties'
  BY <1>2, <1>3, <1>4, ExecuteDuties DEF AboutGroup, SameRun, AsksBatch, RecoverStates
<1>7. Stations' /\ Admission'
  BY <1>1, <1>2, <1>3, <1>5, ExecuteStations DEF ProvisionStates, MergeStates
<1>. QED  BY <1>5, <1>6, <1>7, FlightStaysGrouped DEF Control

LEMMA TurnControl ==
    ASSUME Typed, Flight, Control, Turn
    PROVE  Control'
<1>. USE Executing DEF E, O
<1>0. TurnRows
  BY TurnByRows
<1>1. /\ Others(Execute) /\ barrier' = barrier /\ db'.groups = db.groups
      /\ op'[Operator] = op[Operator] /\ GroupsStay
  BY <1>0 DEF TurnRows, Still, TurnsTo, Begins, Stops, Acknowledges, RunOnly, Others, GroupsStay
<1>2. ASSUME Start, Still, TurnsTo({}) PROVE Control'
  <2>1. /\ E.pc = "down" /\ O.pc = "down" /\ ~AboutGroup /\ db.run = "RUNNING"
        /\ op'[Execute].pc = "turn" /\ ~op'[Execute].force /\ db' = db
    BY <1>2, RunIsNotAboutGroup DEF Start, At, Control, Duties, TurnsTo, Begins, Still
  <2>2. Duties'
    BY <1>1, <2>1, ExecuteDuties DEF AboutGroup, RecoverStates
  <2>3. Stations'
    BY <1>1, <2>1 DEF Stations, Command, ProvisionStates, MergeStates, RemovalStates
  <2>4. Admission'
    BY <1>1, <1>2, <2>1 DEF Start, Admission, Control, State, AdmittedGroupStates
  <2>5. FlightIsGrouped'
    BY <2>1 DEF FlightIsGrouped, Control, State
  <2>. QED  BY <2>2, <2>3, <2>4, <2>5 DEF Control
<1>3. ASSUME E.pc = "turn", Stops(Execute), db'.request = db.request,
             db'.dispatches = db.dispatches
      PROVE  Control'
  <2>1. op'[Execute].pc = "down" /\ ~op'[Execute].force
    BY <1>3, DownFields DEF Stops
  <2>2. Duties'
    BY <1>1, <1>3, <2>1 DEF Duties, Control, AboutGroup, NoneAdmitted, State, RecoverStates
  <2>3. Stations'
    BY <1>1, <2>1
    DEF Stations, Control, Command, GroupsStay, State, ProvisionStates, MergeStates, RemovalStates
  <2>4. Admission'
    BY <1>1, <2>1 DEF Admission, Control, State
  <2>5. FlightIsGrouped'
    BY <1>1, <1>3 DEF FlightIsGrouped, Control, State
  <2>. QED  BY <2>2, <2>3, <2>4, <2>5 DEF Control
<1>4. ASSUME NEW d \in Dispatch, Acknowledge(d), Acknowledges(d) PROVE Control'
  <2>. DEFINE g == db.dispatches[d].group
  <2>1. /\ E.pc = "turn" /\ Execute \in fresh /\ Execute \in fresh' /\ SameRun /\ ~E.force
        /\ op'[Execute].group = g /\ ~op'[Execute].force
        /\ op'[Execute].pc = "turn" \/ (op'[Execute].pc = "integrate" /\ MayIntegrate(db', g)
                                        /\ g # 0)
    BY <1>4 DEF Acknowledge, Acknowledges, At, Save, Control, Stations, CleanupStates
  <2>2. g \in Group \cup {0}
    BY DEF LooseRecord, DispatchRecord
  <2>3. op'[Execute].pc = "integrate" => State(g) = "ACTIVE" /\ ~AboutGroup
    BY <1>1, <2>1, <2>2
    DEF MayIntegrate, State, Control, Duties, NoneAdmitted, AdmittedGroupStates
  <2>4. Duties'
    BY <1>1, <2>1, <2>3
    DEF Duties, Control, AboutGroup, SameRun, NoneAdmitted, State, RecoverStates
  <2>5. Stations'
    BY <1>1, <2>1, <2>2, <2>3
    DEF Stations, Control, Command, GroupsStay, State, ProvisionStates, MergeStates, RemovalStates
  <2>6. Admission'
    BY <1>1, <2>1 DEF Admission, Control, State, MergeStates, ProvisionStates
  <2>7. \A e \in Dispatch : ~InFlight(e)
    BY <2>1, NoFlight
  <2>8. db.dispatches \in [Dispatch -> DispatchRecord] /\ "ACKNOWLEDGED" \in DispatchStates
    BY DEF LooseRecord, DispatchStates
  <2>9. FlightIsGrouped'
    BY <1>4, <2>7, <2>8, TurnedDispatch
    DEF FlightIsGrouped, InFlight, InFlightStates, Acknowledges
  <2>. QED  BY <2>4, <2>5, <2>6, <2>9 DEF Control
<1>. QED  BY <1>0, <1>2, <1>3, <1>4 DEF TurnRows, Complete, AtCommand, Stop, At, Still, RunOnly

LEMMA IntegrateControl ==
    ASSUME Typed, Flight, Control, Integrate
    PROVE  Control'
<1>. USE Executing DEF E, O
<1>0. IntegrateRows /\ E.pc \in IntegrationStates
  BY IntegrateByRows
  DEF Integrate, BeginIntegration, OpenIntegration, Promote, IntegrationFails, MergeChild,
      SavePromoted, FailIntegration, AskWorkspaceReconciliation, At, IntegrationStates
<1>1. /\ O.pc = "down" /\ ~AboutGroup /\ db.run = "RUNNING" /\ Execute \in fresh /\ ~E.force
      /\ E.pc \notin {"down", "running", "batch_asking"} /\ E.group \in Group
  BY <1>0, ExecuteRuns, GroupAt DEF IntegrationStates, Control, Stations, CleanupStates
<1>2. /\ Others(Execute) /\ barrier' = barrier /\ db'.dispatches = db.dispatches
      /\ op'[Operator] = op[Operator] /\ ~op'[Execute].force
  BY <1>0, <1>1
  DEF IntegrateRows, TurnsGroup, GroupsOnly, Still, SavesPromoted, AsksGroup, RunOnly, Walks, Goes,
      Keeps, TurnsTo, Begins, Others
<1>3. FlightIsGrouped'
  BY <1>1, <1>2, NoFlightIsGrouped
<1>4. ASSUME SameRun, op'[Execute].pc \in IntegrationStates \cup {"cleanup"}, Execute \in fresh'
      PROVE  Duties'
  BY <1>1, <1>2, <1>4, ExecuteDuties DEF AboutGroup, SameRun, IntegrationStates, RecoverStates
<1>5. ASSUME GroupsStay, Keeps(Execute), E.pc \in MergeStates,
             op'[Execute].pc \in MergeStates \cup {"cleanup"}
      PROVE  Stations' /\ Admission'
  <2>1. State(E.group) = "INTEGRATING"
    BY <1>5 DEF Control, Stations
  <2>2. Stations'
    BY <1>1, <1>2, <1>5, <2>1
    DEF Stations, Keeps, GroupsStay, State, Command, ProvisionStates, MergeStates, RemovalStates
  <2>3. Admission'
    BY <1>1, <1>2, <1>5
    DEF Admission, Control, Keeps, GroupsStay, State, ProvisionStates, MergeStates
  <2>. QED  BY <2>2, <2>3
<1>6. ASSUME BeginIntegration, TurnsGroup(E.group, "INTEGRATING"), Walks(Execute, "opening")
      PROVE  Control'
  <2>1. E.pc = "integrate" /\ State(E.group) = "ACTIVE" /\ Execute \in fresh' /\ SameRun
    BY <1>6 DEF BeginIntegration, At, Save, Control, Stations, TurnsGroup, GroupsOnly
  <2>2. \A h \in Group : State(h)' = IF h = E.group THEN "INTEGRATING" ELSE State(h)
    BY <1>6, TurnedGroups DEF State, GroupStates
  <2>3. Stations'
    BY <1>1, <1>2, <1>6, <2>1, <2>2
    DEF Stations, Walks, Keeps, Command, State, ProvisionStates, MergeStates, RemovalStates
  <2>4. Admission'
    BY <1>1, <1>2, <1>6, <2>1, <2>2
    DEF Admission, Control, Walks, Keeps, State, AdmittedGroupStates, ProvisionStates, MergeStates
  <2>. QED  BY <1>3, <1>4, <1>6, <2>1, <2>3, <2>4 DEF Control, Walks, IntegrationStates
<1>7. ASSUME Still, fresh' = fresh, Keeps(Execute), E.pc \in MergeStates,
             op'[Execute].pc \in MergeStates
      PROVE  Control'
  <2>1. GroupsStay /\ SameRun
    BY <1>7 DEF Still, GroupsStay, SameRun
  <2>. QED  BY <1>1, <1>3, <1>4, <1>5, <1>7, <2>1 DEF Control, MergeStates, IntegrationStates
<1>8. ASSUME SavePromoted, SavesPromoted, Walks(Execute, "cleanup") PROVE Control'
  <2>1. E.pc \in MergeStates /\ GroupsStay /\ SameRun /\ Execute \in fresh'
    BY <1>8 DEF SavePromoted, At, Save, MergeStates, SavesPromoted, GroupsOnly, GroupsStay
  <2>. QED  BY <1>3, <1>4, <1>5, <1>8, <2>1 DEF Control, Walks, IntegrationStates
<1>9. ASSUME FailIntegration, TurnsGroup(E.group, "FAILED"), Walks(Execute, "asking")
      PROVE  Control'
  <2>1. /\ E.pc \in MergeStates /\ State(E.group) = "INTEGRATING"
        /\ Execute \in fresh' /\ SameRun
    BY <1>9
    DEF FailIntegration, At, Save, Control, Stations, TurnsGroup, GroupsOnly, MergeStates
  <2>2. \A h \in Group : State(h)' = IF h = E.group THEN "FAILED" ELSE State(h)
    BY <1>9, TurnedGroups DEF State, GroupStates
  <2>3. NoneAdmitted'
    BY <1>1, <2>1, <2>2 DEF NoneAdmitted, State, Control, Admission, AdmittedGroupStates
  <2>4. Stations'
    BY <1>1, <1>2, <1>9, <2>1, <2>2, <2>3
    DEF Stations, Walks, Keeps, Command, State, ProvisionStates, MergeStates, RemovalStates
  <2>5. Admission'
    BY <1>1, <1>2, <2>1, <2>2, <2>3
    DEF Admission, Control, NoneAdmitted, State, AdmittedGroupStates
  <2>. QED  BY <1>3, <1>4, <1>9, <2>1, <2>4, <2>5 DEF Control, Walks, IntegrationStates
<1>10. ASSUME AskWorkspaceReconciliation, AsksGroup, TurnsTo(E.dispatches) PROVE Control'
  <2>1. E.pc = "asking" /\ State(E.group) = "FAILED" /\ NoneAdmitted
    BY <1>10 DEF AskWorkspaceReconciliation, At, Control, Stations
  <2>2. /\ GroupsStay /\ op'[Execute].pc = "turn" /\ AboutGroup' /\ NoneAdmitted'
        /\ db'.request.group = E.group /\ db'.groups = db.groups
    BY <1>10, <2>1
    DEF AsksGroup, RunOnly, GroupsStay, TurnsTo, Begins, AboutGroup, NoneAdmitted, State
  <2>3. Duties'
    BY <1>1, <1>2, <2>1, <2>2 DEF Duties, State, RecoverStates, CleanupStates
  <2>4. Stations'
    BY <1>1, <1>2, <2>2
    DEF Stations, Command, ProvisionStates, MergeStates, RemovalStates
  <2>5. Admission'
    BY <1>1, <1>2, <2>2 DEF Admission, Control, NoneAdmitted, State, AdmittedGroupStates
  <2>. QED  BY <1>3, <2>3, <2>4, <2>5 DEF Control
<1>11. ASSUME \/ OpenIntegration \/ Promote \/ IntegrationFails \/ \E s : MergeChild(s)
       PROVE  E.pc \in MergeStates /\ fresh' = fresh
  BY <1>11 DEF OpenIntegration, Promote, IntegrationFails, MergeChild, At, MergeStates
<1>. QED  BY <1>0, <1>6, <1>7, <1>8, <1>9, <1>10, <1>11 DEF IntegrateRows, Walks, Goes, MergeStates

LEMMA ExecuteCleans ==
    ASSUME Typed, Flight, Control, Cleanup(Execute)
    PROVE  Control'
<1>. USE Executing DEF E, O
<1>0. CleanupRows(Execute) /\ E.pc \in CleanupStates
  BY CleanupByRows
  DEF Cleanup, BeginCleanup, CheckCleanup, RemovePlace, RemovePlaceFails, EndRemoval, SaveCleaned,
      SaveUnclean, At, CleanupStates
<1>1. /\ O.pc = "down" /\ ~AboutGroup /\ db.run = "RUNNING" /\ Execute \in fresh
      /\ E.pc \notin {"down", "running", "batch_asking"} /\ E.group \in Group
  BY <1>0, ExecuteRuns, GroupAt DEF CleanupStates
<1>2. /\ Others(Execute) /\ barrier' = barrier /\ db'.dispatches = db.dispatches /\ SameRun
      /\ op'[Operator] = op[Operator]
  BY <1>0
  DEF CleanupRows, Removes, TurnsGroup, GroupsOnly, Still, SameRun, Walks, Goes, TurnsTo, Begins,
      Stops, Others
<1>3. FlightIsGrouped'
  BY <1>1, <1>2, NoFlightIsGrouped
<1>4. ASSUME op'[Execute].pc \in CleanupStates \cup {"asking", "turn", "down"},
             Execute \in fresh'
      PROVE  Duties'
  BY <1>1, <1>2, <1>4, ExecuteDuties DEF AboutGroup, SameRun, CleanupStates, RecoverStates
<1>5. ASSUME E.pc = "cleanup"
      PROVE  State(E.group) \in {"ACTIVE", "INTEGRATING"}
  BY <1>5 DEF Control, Stations
<1>6. ASSUME E.pc \in RemovalStates
      PROVE  State(E.group) = "CLEANUP_PENDING" /\ NoneAdmitted
  BY <1>6 DEF Control, Stations
<1>7. ASSUME BeginCleanup(Execute), TurnsGroup(E.group, "CLEANUP_PENDING"),
             Walks(Execute, "checking")
      PROVE  Control'
  <2>1. E.pc = "cleanup" /\ Execute \in fresh'
    BY <1>5, <1>7 DEF BeginCleanup, At, Save, State
  <2>2. \A h \in Group : State(h)' = IF h = E.group THEN "CLEANUP_PENDING" ELSE State(h)
    BY <1>7, TurnedGroups DEF State, GroupStates
  <2>3. NoneAdmitted'
    BY <1>1, <1>5, <2>1, <2>2 DEF NoneAdmitted, State, Control, Admission, AdmittedGroupStates
  <2>4. Stations'
    BY <1>1, <1>2, <1>7, <2>2, <2>3
    DEF Stations, Walks, Keeps, Command, State, ProvisionStates, MergeStates, RemovalStates,
        CleanupStates
  <2>5. Admission'
    BY <1>1, <1>2, <1>5, <2>1, <2>2, <2>3
    DEF Admission, Control, NoneAdmitted, State, AdmittedGroupStates
  <2>. QED  BY <1>3, <1>4, <1>7, <2>1, <2>4, <2>5 DEF Control, Walks, CleanupStates
<1>8. ASSUME Still, fresh' = fresh, Keeps(Execute), E.pc \in RemovalStates,
             op'[Execute].pc \in RemovalStates
      PROVE  Control'
  <2>1. GroupsStay /\ NoneAdmitted'
    BY <1>6, <1>8 DEF Still, GroupsStay, NoneAdmitted, State
  <2>2. Stations'
    BY <1>1, <1>2, <1>6, <1>8, <2>1
    DEF Stations, Keeps, GroupsStay, Command, State, ProvisionStates, MergeStates, RemovalStates,
        CleanupStates
  <2>3. Admission'
    BY <1>1, <1>2, <2>1
    DEF Admission, Control, NoneAdmitted, GroupsStay, State, AdmittedGroupStates
  <2>. QED  BY <1>1, <1>3, <1>4, <1>8, <2>2, <2>3 DEF Control, RemovalStates, CleanupStates
<1>9. ASSUME NEW target \in {"CLEANED", "FAILED"}, TurnsGroup(E.group, target),
             E.pc \in RemovalStates, Execute \in fresh', ~op'[Execute].force,
             \/ op'[Execute].pc \in {"down", "turn"}
             \/ op'[Execute].pc = "asking" /\ op'[Execute].group = E.group /\ target = "FAILED"
      PROVE  Control'
  <2>1. \A h \in Group : State(h)' = IF h = E.group THEN target ELSE State(h)
    BY <1>9, TurnedGroups DEF State, GroupStates
  <2>2. NoneAdmitted'
    BY <1>6, <1>9, <2>1 DEF NoneAdmitted, State, AdmittedGroupStates
  <2>3. Stations'
    BY <1>1, <1>2, <1>9, <2>1, <2>2
    DEF Stations, Command, State, ProvisionStates, MergeStates, RemovalStates
  <2>4. Admission'
    BY <1>1, <1>2, <1>6, <1>9, <2>1, <2>2
    DEF Admission, Control, NoneAdmitted, State, AdmittedGroupStates
  <2>. QED  BY <1>3, <1>4, <1>9, <2>3, <2>4 DEF Control
<1>10. ASSUME SaveCleaned(Execute) \/ SaveUnclean(Execute)
       PROVE  E.pc \in RemovalStates /\ Execute \in fresh'
  BY <1>10 DEF SaveCleaned, SaveUnclean, At, Save, RemovalStates
<1>11. ASSUME \/ CheckCleanup(Execute) \/ EndRemoval(Execute)
              \/ \E p : RemovePlace(Execute, p) \/ RemovePlaceFails(Execute, p)
       PROVE  E.pc \in RemovalStates /\ fresh' = fresh
  BY <1>11 DEF CheckCleanup, EndRemoval, RemovePlace, RemovePlaceFails, At, RemovalStates
<1>12. ASSUME BeginCleanup(Execute)
       PROVE  E.pc = "cleanup" /\ State(E.group) \notin {"CLEANED", "CLEANUP_PENDING"}
  BY <1>5, <1>12 DEF BeginCleanup, At
<1>13. ASSUME SaveCleaned(Execute), TurnsGroup(E.group, "CLEANED"),
              \/ Stops(Execute)
              \/ TurnsTo(E.dispatches)
       PROVE  Control'
  BY <1>9, <1>10, <1>13, DownFields DEF Stops, TurnsTo, Begins
<1>14. ASSUME SaveUnclean(Execute), TurnsGroup(E.group, "FAILED"),
              \/ (~E.force /\ Walks(Execute, "asking"))
              \/ Stops(Execute)
       PROVE  Control'
  BY <1>9, <1>10, <1>14, DownFields DEF Stops, Walks, Keeps
<1>15. ASSUME Still, \/ CheckCleanup(Execute) \/ EndRemoval(Execute)
                     \/ \E p : RemovePlace(Execute, p) \/ RemovePlaceFails(Execute, p),
              Keeps(Execute), op'[Execute].pc \in RemovalStates
       PROVE  Control'
  BY <1>8, <1>11, <1>15
<1>. QED  BY <1>0, <1>7, <1>12, <1>13, <1>14, <1>15
          DEF CleanupRows, Removes, Walks, Goes, RemovalStates, Command

(* The operator moves while execute stays where it is. *)
LEMMA OperatorStations ==
    ASSUME Typed, Control, op'[Execute] = op[Execute], barrier' = barrier, GroupsStay,
           O'.pc \in RemovalStates => O'.group \in Group /\ State(O'.group) = "CLEANUP_PENDING"
    PROVE  Stations' /\ Admission'
<1>. USE Executing DEF E, O
<1>1. E.pc \in GroupWork \cup {"allocating"} => E.group \in Group \cup {0}
  BY ProcessFields
<1>2. Stations'
  <2>1. \A a \in Command : op'[a].pc \in RemovalStates =>
            db'.groups[op'[a].group].state = "CLEANUP_PENDING"
    <3>1. CASE E.pc \in RemovalStates
      <4>1. E.group \in Group
        BY <3>1, GroupAt DEF RemovalStates, CleanupStates
      <4>. QED  BY <4>1 DEF Command, Control, Stations, GroupsStay, State
    <3>. QED  BY <3>1 DEF Command, GroupsStay, State
  <2>2. E.pc \in GroupWork => E.group \in Group
    BY GroupAt DEF GroupWork
  <2>3. NoneAdmitted => NoneAdmitted'
    BY DEF NoneAdmitted, GroupsStay, State
  <2>. QED  BY <1>1, <2>1, <2>2, <2>3
            DEF Stations, Control, GroupsStay, State, GroupWork, ProvisionStates,
                IntegrationStates, MergeStates, CleanupStates, RemovalStates
<1>3. Admission'
  BY DEF Admission, Control, GroupsStay, State
<1>. QED  BY <1>2, <1>3

LEMMA OperatorCleans ==
    ASSUME Typed, Flight, Control, Cleanup(Operator)
    PROVE  Control'
<1>. USE Executing DEF E, O
<1>0. CleanupRows(Operator) /\ O.pc \in CleanupStates
  BY CleanupByRows
  DEF Cleanup, BeginCleanup, CheckCleanup, RemovePlace, RemovePlaceFails, EndRemoval, SaveCleaned,
      SaveUnclean, At, CleanupStates
<1>1. /\ AboutGroup /\ db.request.group = O.group /\ ~O.force /\ E.pc \in {"down", "turn"}
      /\ NoneAdmitted /\ State(O.group) # "NONE" /\ O.group \in Group
  BY <1>0, OperatorAnswers
<1>2. /\ Others(Operator) /\ barrier' = barrier /\ db'.dispatches = db.dispatches /\ SameRun
      /\ op'[Execute] = op[Execute]
      /\ \/ db' = db
         \/ TurnsGroup(O.group, "CLEANUP_PENDING") /\ op'[Operator].pc = "checking"
         \/ TurnsGroup(O.group, "CLEANED") /\ op'[Operator].pc = "answering"
         \/ TurnsGroup(O.group, "FAILED") /\ op'[Operator].pc = "down"
  BY <1>0, DownFields
  DEF CleanupRows, Removes, TurnsGroup, GroupsOnly, Still, SameRun, Walks, Goes, TurnsTo, Begins,
      Stops, Others
<1>3. op'[Operator].pc \in CleanupStates \cup {"answering"} =>
        op'[Operator].group = O.group /\ ~op'[Operator].force
  BY <1>0, <1>1, DownFields
  DEF CleanupRows, Removes, Walks, Goes, Keeps, Stops, CleanupStates
<1>4. op'[Operator].pc \in CleanupStates \cup {"answering", "down"}
  BY <1>0, DownFields DEF CleanupRows, Removes, Walks, Goes, Stops, CleanupStates
<1>5. \A h \in Group :
        \/ State(h)' = State(h)
        \/ h = O.group /\ State(h)' \in {"CLEANUP_PENDING", "CLEANED", "FAILED"}
  BY <1>2, TurnedGroups DEF State, GroupStates
<1>6. NoneAdmitted' /\ db'.groups[O.group].state # "NONE"
  BY <1>1, <1>5 DEF NoneAdmitted, State, AdmittedGroupStates
<1>7. Duties'
  BY <1>1, <1>2, <1>3, <1>4, <1>6
  DEF Duties, Control, AboutGroup, SameRun, State, CleanupStates, RecoverStates
<1>8. Admission'
  BY <1>1, <1>2, <1>6 DEF Admission, Control, NoneAdmitted, State, AdmittedGroupStates
<1>9. op'[Operator].pc \in RemovalStates => db'.groups[O.group].state = "CLEANUP_PENDING"
  <2>1. ASSUME BeginCleanup(Operator), op'[Operator].pc \in RemovalStates
        PROVE  db'.groups[O.group].state = "CLEANUP_PENDING"
    <3>1. CASE TurnsGroup(O.group, "CLEANUP_PENDING")
      BY <1>1, <3>1, TurnedGroups DEF State, GroupStates
    <3>2. CASE Still /\ State(O.group) = "CLEANUP_PENDING"
      BY <3>2 DEF Still, State
    <3>3. CASE Walks(Operator, "answering")
      BY <2>1, <3>3 DEF Walks, RemovalStates
    <3>. QED  BY <1>0, <2>1, <3>1, <3>2, <3>3
              DEF CleanupRows, BeginCleanup, CheckCleanup, RemovePlace, RemovePlaceFails,
                  EndRemoval, SaveCleaned, SaveUnclean, At
  <2>2. ASSUME O.pc \in RemovalStates, db' = db
        PROVE  db'.groups[O.group].state = "CLEANUP_PENDING"
    BY <2>2 DEF Control, Stations, State
  <2>3. CASE O.pc \in RemovalStates
    BY <1>1, <1>2, <2>2, <2>3, TurnedGroups DEF State, GroupStates, RemovalStates
  <2>4. O.pc \notin RemovalStates => BeginCleanup(Operator)
    BY DEF Cleanup, BeginCleanup, CheckCleanup, RemovePlace, RemovePlaceFails, EndRemoval,
           SaveCleaned, SaveUnclean, At, RemovalStates
  <2>. QED  BY <2>1, <2>3, <2>4
<1>10. Stations'
  BY <1>1, <1>2, <1>3, <1>9
  DEF Stations, Control, Command, State, ProvisionStates, MergeStates, RemovalStates,
      CleanupStates
<1>11. \A d \in Dispatch : InFlight(d) => db.dispatches[d].group = 0
  BY <1>1, TypedIsRecorded
  DEF Control, FlightIsGrouped, InFlight, NoneAdmitted, AdmittedGroupStates, Recorded, LooseRecord,
      DispatchRecord
<1>12. FlightIsGrouped'
  BY <1>2, <1>11 DEF FlightIsGrouped, InFlight
<1>. QED  BY <1>7, <1>8, <1>10, <1>12 DEF Control

LEMMA AnswerControl ==
    ASSUME Typed, Flight, Control, Answer
    PROVE  Control'
<1>. USE Executing DEF E, O
<1>0. AnswerRows /\ thread' = thread /\ barrier' = barrier
  BY AnswerByRows
<1>1. db'.groups = db.groups /\ db'.dispatches = db.dispatches /\ op'[Execute] = op[Execute]
  BY <1>0 DEF AnswerRows, Readied, Still, RunOnly, Begins, Stops, Others
<1>2. GroupsStay /\ FlightShrinks /\ (NoneAdmitted => NoneAdmitted')
  BY <1>1 DEF GroupsStay, FlightShrinks, InFlight, NoneAdmitted, State
<1>3. ASSUME db.run = "WAITING_OPERATOR"
      PROVE  E.pc \in {"down", "turn", "running", "batch_asking"}
  BY <1>3 DEF Control, Duties
<1>4. ASSUME op'[Operator].pc = "down", db'.request = NoRequest, fresh' = {},
             db.run = "WAITING_OPERATOR"
      PROVE  Duties'
  BY <1>1, <1>3, <1>4, RequestFields
  DEF Duties, Control, AboutGroup, RecoverStates, CleanupStates
<1>5. ASSUME BeginAnswerWorkspace, Still, Begins(Operator, "cleanup"),
             op'[Operator].group = db.request.group
      PROVE  Duties'
  <2>1. AboutGroup /\ db' = db
    BY <1>5 DEF BeginAnswerWorkspace, Answering, AboutGroup, Still
  <2>. QED  BY <1>1, <1>2, <1>5, <2>1
            DEF Duties, Control, AboutGroup, State, Begins, RecoverStates, CleanupStates
<1>6. ASSUME Still, op' = op, fresh' = fresh PROVE Duties'
  BY <1>1, <1>2, <1>6 DEF Duties, Control, AboutGroup, State, Still
<1>7. ASSUME AnswerStep \/ AnswerBatch \/ AnswerHalt \/ AnswerWorkspace
      PROVE  /\ fresh' = {} /\ db.run = "WAITING_OPERATOR"
             /\ AnswerStep \/ AnswerBatch \/ AnswerHalt => O.pc = "down"
  <2>1. AnswerWorkspace => db.run = "WAITING_OPERATOR"
    BY RunIsNotAboutGroup DEF AnswerWorkspace, AboutGroup
  <2>. QED  BY <1>7, <2>1
            DEF AnswerStep, AnswerBatch, AnswerHalt, AnswerWorkspace, Answering, At, LastSave
<1>8. ASSUME NEW g, NEW p, MergeByHand(g, p) \/ TidyByHand(g, p) PROVE fresh' = fresh
  BY <1>8 DEF MergeByHand, TidyByHand
<1>9. Duties'
  BY <1>0, <1>4, <1>5, <1>6, <1>7, <1>8, DownFields DEF AnswerRows, Readied, Stops
<1>10. op' = op \/ op'[Operator].pc \in {"cleanup", "down"}
  BY <1>0, DownFields DEF AnswerRows, Begins, Stops
<1>11. O'.pc \in RemovalStates => O'.group \in Group /\ State(O'.group) = "CLEANUP_PENDING"
  <2>1. ASSUME O.pc \in RemovalStates PROVE O.group \in Group /\ State(O.group) = "CLEANUP_PENDING"
    BY <2>1, GroupAt DEF RemovalStates, CleanupStates, Control, Stations
  <2>. QED  BY <1>10, <2>1 DEF RemovalStates
<1>12. Stations' /\ Admission'
  BY <1>0, <1>1, <1>2, <1>11, OperatorStations
<1>. QED  BY <1>2, <1>9, <1>12, FlightStaysGrouped DEF Control

LEMMA RecoverControl ==
    ASSUME Typed, Flight, Control, Recover
    PROVE  Control'
<1>. USE Executing DEF E, O
<1>0. RecoverRows /\ thread' = thread /\ barrier' = barrier
  BY RecoverByRows
<1>1. E.pc = "down"
  <2>1. RecoverStart \/ O.pc \in RecoverStates
    BY <1>0 DEF RecoverRows, Recovers, RecoverStates
  <2>. QED  BY <2>1, ApartIsDown DEF RecoverStart, At
<1>2. op'[Execute] = op[Execute] /\ op'[Operator].pc \in RecoverStates \cup {"down"}
  BY <1>0, DownFields
  DEF RecoverRows, Recovers, Begins, Walks, Stops, Others, RecoverStates
<1>3. ASSUME NEW d \in Dispatch, InFlight(d), Interrupted(d)
      PROVE  db'.groups = db.groups /\ FlightShrinks /\ (SameRun \/ Asks(d[1]))
  <2>1. /\ db.dispatches \in [Dispatch -> DispatchRecord]
        /\ "FAILED" \in DispatchStates /\ "ABANDONED" \in DispatchStates
    BY DEF LooseRecord, DispatchStates
  <2>. QED  BY <1>3, <2>1, TurnedDispatch DEF Interrupted, FlightShrinks, InFlight, InFlightStates
<1>4. /\ db'.groups = db.groups /\ FlightShrinks
      /\ SameRun \/ AsksBatch \/ \E s : Asks(s)
  BY <1>0, <1>3 DEF RecoverRows, Joins, AsksBatch, RunOnly, FlightShrinks, InFlight, SameRun
<1>5. GroupsStay /\ (NoneAdmitted => NoneAdmitted')
  BY <1>4 DEF GroupsStay, NoneAdmitted, State
<1>6. AboutGroup' => AboutGroup /\ db'.request = db.request
  BY <1>4 DEF AboutGroup, SameRun, AsksBatch, Asks
<1>7. Duties'
  BY <1>1, <1>2, <1>4, <1>5, <1>6
  DEF Duties, Control, State, RecoverStates, CleanupStates
<1>8. Stations' /\ Admission'
  BY <1>0, <1>2, <1>5, OperatorStations DEF RecoverStates, RemovalStates
<1>. QED  BY <1>4, <1>5, <1>7, <1>8, FlightStaysGrouped DEF Control

LEMMA DisturbControl ==
    ASSUME Typed, Flight, Control, Disturb
    PROVE  Control'
<1>. USE Executing DEF E, O
<1>0. DisturbRows /\ db' = db /\ barrier' = barrier
  BY DisturbByRows DEF Disturb, Crash, Raises, Cancel, CancelOvertakes, WorkerExits
<1>1. GroupsStay /\ FlightShrinks /\ (NoneAdmitted => NoneAdmitted')
  BY <1>0 DEF GroupsStay, FlightShrinks, InFlight, NoneAdmitted, State
<1>2. FlightIsGrouped'
  BY <1>1, FlightStaysGrouped DEF Control
<1>3. O.pc \in RemovalStates => O.group \in Group /\ State(O.group) = "CLEANUP_PENDING"
  BY GroupAt DEF RemovalStates, CleanupStates, Control, Stations
<1>4. ASSUME Stops(Operator), fresh' \subseteq fresh, Execute \in fresh => Execute \in fresh'
      PROVE  Control'
  <2>1. op'[Execute] = op[Execute] /\ op'[Operator].pc = "down"
    BY <1>4, DownFields DEF Stops, Others
  <2>2. Duties'
    BY <1>0, <1>1, <1>4, <2>1 DEF Duties, Control, AboutGroup, State, CleanupStates, RecoverStates
  <2>. QED  BY <1>0, <1>1, <1>2, <2>1, <2>2, OperatorStations DEF Control, RemovalStates
<1>5. ASSUME Stops(Execute) PROVE Control'
  <2>1. op'[Operator] = op[Operator] /\ op'[Execute].pc = "down" /\ ~op'[Execute].force
    BY <1>5, DownFields DEF Stops, Others
  <2>2. Duties'
    BY <1>0, <1>1, <2>1 DEF Duties, Control, AboutGroup, State, RecoverStates
  <2>3. Stations'
    BY <1>0, <2>1
    DEF Stations, Control, Command, State, ProvisionStates, MergeStates, RemovalStates
  <2>4. Admission'
    BY <1>0, <2>1 DEF Admission, Control, State
  <2>. QED  BY <1>2, <2>2, <2>3, <2>4 DEF Control
<1>6. ASSUME op' = op, fresh' \subseteq fresh,
             E.pc \in {"down", "running"} \/ fresh' = fresh
      PROVE  Control'
  <2>1. Duties'
    BY <1>0, <1>1, <1>6 DEF Duties, Control, AboutGroup, State
  <2>. QED  BY <1>0, <1>1, <1>2, <1>3, <1>6, <2>1, OperatorStations DEF Control
<1>7. ASSUME NEW s \in Step, Cancel(s) PROVE E.pc \in {"down", "running", "batch_asking"}
  <2>1. Current(s) \in Dispatch /\ InFlight(Current(s))
    BY <1>7 DEF Cancel, InState, InFlight, InFlightStates
  <2>. QED  BY <2>1, NoFlight
<1>8. ASSUME NEW s \in Step, Cancel(s), op' = op PROVE Control'
  <2>1. fresh' = {} /\ E.pc \in {"down", "running", "batch_asking"}
    BY <1>7, <1>8 DEF Cancel
  <2>2. Duties'
    BY <1>0, <1>1, <1>8, <2>1 DEF Duties, Control, AboutGroup, State
  <2>. QED  BY <1>0, <1>1, <1>2, <1>3, <1>8, <2>2, OperatorStations DEF Control
<1>9. ASSUME NEW s \in Step, CancelOvertakes(s), op' = op, thread[s] = "working" PROVE Control'
  <2>1. E.pc = "running"
    BY <1>9 DEF Typed, Counted, ThreadsOK
  <2>. QED  BY <1>6, <1>9, <2>1 DEF CancelOvertakes
<1>10. ASSUME NEW a \in Command, Raises(a), Stops(a) \/ (a = Execute /\ E.pc = "cleanup")
       PROVE  Control'
  <2>1. a = Execute => E.pc # "cleanup"
    BY <1>10 DEF Raises, Control, Duties
  <2>2. fresh' = fresh
    BY <1>10 DEF Raises
  <2>. QED  BY <1>4, <1>5, <1>10, <2>1, <2>2 DEF Command
<1>11. ASSUME NEW a \in Command, Crash(a), Stops(a) PROVE Control'
  <2>1. a = Operator => fresh' = fresh \ {Operator}
    BY <1>11 DEF Crash
  <2>. QED  BY <1>4, <1>5, <1>11, <2>1 DEF Command
<1>12. ASSUME NEW d \in Dispatch, WorkerExits(d), op' = op PROVE Control'
  <2>1. fresh' = fresh
    BY <1>12 DEF WorkerExits
  <2>. QED  BY <1>6, <1>12, <2>1
<1>. QED  BY <1>0, <1>8, <1>9, <1>10, <1>11, <1>12 DEF DisturbRows

LEMMA ControlStep ==
    ASSUME Typed, Flight, Control, [Next]_vars
    PROVE  Control'
<1>1. CASE UNCHANGED vars
  <2>1. db' = db /\ op' = op /\ fresh' = fresh /\ barrier' = barrier
    BY <1>1 DEF vars
  <2>2. Duties'
    BY <2>1 DEF Control, Duties, AboutGroup, NoneAdmitted, State, E, O
  <2>3. Stations' /\ Admission' /\ FlightIsGrouped'
    BY <2>1 DEF Control, Stations, Admission, FlightIsGrouped, NoneAdmitted, State, E
  <2>. QED  BY <2>2, <2>3 DEF Control
<1>2. CASE Next
  BY <1>2, ProvisionControl, PrepareControl, WorkControl, JoinControl, TurnControl,
     IntegrateControl, ExecuteCleans, OperatorCleans, AnswerControl, RecoverControl,
     DisturbControl DEF Next, Command
<1>. QED  BY <1>1, <1>2

LEMMA ControlInit ==
    ASSUME Init
    PROVE  Control
<1>1. /\ op = [a \in Command |-> Down] /\ fresh = {}
      /\ \A d \in Dispatch : db.dispatches[d].state = "NONE"
      /\ \A g \in Group : State(g) = "NONE"
      /\ db.request = NoRequest
  BY DEF Init, Undispatched, State
<1>2. /\ E.pc = "down" /\ O.pc = "down" /\ ~E.force
      /\ \A a \in Command : op[a].pc = "down"
  BY <1>1, DownFields DEF E, O, Command, Execute, Operator
<1>3. ~AboutGroup
  BY <1>1, RequestFields DEF AboutGroup
<1>. QED  BY <1>1, <1>2, <1>3
          DEF Control, Duties, Stations, Admission, FlightIsGrouped, ProvisionStates, MergeStates,
              RemovalStates, CleanupStates, RecoverStates, AdmittedGroupStates, InFlightStates
-----------------------------------------------------------------------------
(* Layer 4: the leases.                                                    *)
LeaseKeeps ==
    \A g \in Group : Held(g) /\ lease[Shared] = GroupOwner(g) => lease'[Shared] = GroupOwner(g)

HeldBefore == \A g \in Group : Held(g)' => Held(g)

LEMMA OwnersDiffer ==
    /\ \A g : \A s \in Step : \A n : GroupOwner(g) # <<s, n>>
    /\ \A g : \A s \in Step : GroupOwner(g) # Current(s) /\ GroupOwner(g) # NextDispatch(s)
    /\ \A g, h : GroupOwner(g) = GroupOwner(h) => g = h
    /\ \A g \in Group : GroupOwner(g) # None
    /\ Shared \in Repository
BY BoundAssumption, OwnerAssumption DEF GroupOwner, Current, NextDispatch, Repository, Group

LEMMA NextDispatchOwns ==
    ASSUME Typed, NEW s \in Step
    PROVE  NextDispatch(s) # None
<1>1. db.steps[s].attempts + 1 \in Nat
  BY DEF Typed, Shape, LooseRecord, StepRecord
<1>. QED  BY <1>1, OwnerAssumption DEF NextDispatch

LEMMA FreedKeeps ==
    ASSUME NEW owners, lease' = Freed(owners),
           \A g \in Group : Held(g) => GroupOwner(g) \notin owners
    PROVE  LeaseKeeps
BY OwnersDiffer DEF LeaseKeeps, Freed

LEMMA SameLeaseKeeps ==
    ASSUME lease' = lease
    PROVE  LeaseKeeps
BY DEF LeaseKeeps

(* Nobody who holds a lease moves. *)
LEMMA LeasingStays ==
    ASSUME Typed, Leasing, LeaseKeeps, HeldBefore, FlightShrinks,
           op'[Execute].pc \notin {"adding", "undoing", "allocating"},
           op'[Operator].pc \in RecoverStates =>
                /\ O.pc \in RecoverStates /\ op'[Operator].kids = O.kids
                /\ \A s \in Step : /\ Current(s)' = Current(s)
                                   /\ db'.dispatches[Current(s)].group =
                                        db.dispatches[Current(s)].group
    PROVE  Leasing'
<1>. USE Executing DEF E, O
<1>1. ActiveGroupHoldsLease'
  BY DEF Leasing, ActiveGroupHoldsLease, LeaseKeeps, HeldBefore, Held, State
<1>2. Engaged' => Engaged
  BY DEF Engaged, HeldBefore, Held, State
<1>3. Engaged' => \A d \in InState(InFlightStates)' : db'.dispatches[d].group # 0
  BY <1>2 DEF Leasing, InState, FlightShrinks, InFlight
<1>4. Engaged' /\ op'[Operator].pc \in RecoverStates =>
        \A s \in op'[Operator].kids :
            Current(s)' \in Dispatch /\ db'.dispatches[Current(s)'].group # 0
  <2>1. O.kids \subseteq Step
    BY ProcessFields
  <2>. QED  BY <1>2, <2>1 DEF Leasing
<1>. QED  BY <1>1, <1>3, <1>4 DEF Leasing

LEMMA GroupsHeldBefore ==
    ASSUME db'.groups = db.groups
    PROVE  HeldBefore
BY DEF HeldBefore, Held, State

LEMMA TurnedHeldBefore ==
    ASSUME Typed, NEW g, NEW target \in GroupStates, TurnsGroup(g, target),
           target \notin {"ACTIVE", "INTEGRATING"} \/ Held(g)
    PROVE  HeldBefore
BY TurnedGroups DEF HeldBefore, Held, State

(* What a lease changes to while execute works alone. *)
LEMMA ProvisionLeasing ==
    ASSUME Typed, Flight, Control, Leasing, Provision
    PROVE  Leasing'
<1>. USE Executing DEF E, O
<1>0. ProvisionRows
  BY ProvisionByRows
<1>1. E.pc \in ProvisionStates \/ (E.pc = "turn" /\ AtCommand)
  BY DEF Provision, PlanGroup, AtCommand, LeaseGroup, Undone, FailGroup, ActivateGroup, AddTree,
         AddTreeFails, Undo, At, ProvisionStates
<1>2. /\ O.pc = "down" /\ op'[Operator] = op[Operator]
      /\ E.pc \notin {"down", "running", "batch_asking"}
      /\ FlightShrinks
      /\ \A d \in Dispatch : ~InFlight(d)
  <2>1. Others(Execute) /\ db'.dispatches = db.dispatches
    BY <1>0
    DEF ProvisionRows, Plans, Begins, Walks, Goes, Stops, Still, TurnsGroup, GroupsOnly
  <2>. QED  BY <1>1, <2>1, ExecuteRuns, ExecuteAlone, NoFlight
            DEF AtCommand, ProvisionStates, Others, FlightShrinks, InFlight
<1>3. E.pc \in ProvisionStates => /\ E.group \in Group /\ ~Held(E.group)
  BY GroupAt DEF Control, Stations, Held
<1>4. ASSUME LeaseKeeps, HeldBefore, op'[Execute].pc \notin {"adding", "undoing", "allocating"}
      PROVE  Leasing'
  BY <1>2, <1>4, LeasingStays DEF RecoverStates
<1>5. ASSUME NEW g \in Group, NEW b, NEW kids, Plans(g, b, kids) PROVE Leasing'
  <2>1. lease' = lease /\ op'[Execute].pc = "leasing"
    BY <1>5 DEF Plans, PlanGroup, Begins
  <2>2. HeldBefore
    BY <1>5 DEF Plans, HeldBefore, Held, State
  <2>. QED  BY <1>4, <2>1, <2>2, SameLeaseKeeps
<1>6. ASSUME HeldBefore, FlightShrinks, op'[Execute].pc \in {"adding", "undoing"},
             LeaseKeeps, lease'[Shared] = GroupOwner(op'[Execute].group)
      PROVE  Leasing'
  <2>1. ActiveGroupHoldsLease'
    BY <1>6 DEF Leasing, ActiveGroupHoldsLease, LeaseKeeps, HeldBefore, Held, State
  <2>2. \A d \in Dispatch : d \notin InState(InFlightStates)'
    BY <1>2, <1>6 DEF InState, FlightShrinks, InFlight
  <2>. QED  BY <1>2, <1>6, <2>1, <2>2 DEF Leasing, RecoverStates, InState
<1>7. ASSUME LeaseGroup, Still, Walks(Execute, "adding"),
             lease' = [lease EXCEPT ![Shared] = GroupOwner(E.group)]
      PROVE  Leasing'
  <2>1. E.pc = "leasing"
    BY <1>7 DEF LeaseGroup, At
  <2>2. lease[Shared] = None \/ lease[Shared] = GroupOwner(E.group)
    <3>1. CASE lease[Shared] = None
      BY <3>1
    <3>2. CASE lease[Shared] # None
      <4>1. lease' = lease
        BY <1>7, <3>2 DEF LeaseGroup
      <4>2. lease'[Shared] = GroupOwner(E.group)
        BY <1>7, OwnersDiffer DEF Shape, Typed
      <4>. QED  BY <4>1, <4>2
    <3>. QED  BY <3>1, <3>2
  <2>3. \A g \in Group : Held(g) => lease[Shared] = GroupOwner(g)
    BY DEF Leasing, ActiveGroupHoldsLease, Held, State
  <2>4. LeaseKeeps /\ lease'[Shared] = GroupOwner(E.group)
    BY <1>3, <1>7, <2>1, <2>2, <2>3, OwnersDiffer
    DEF LeaseKeeps, ProvisionStates, Typed, Shape
  <2>5. HeldBefore
    BY <1>7, GroupsHeldBefore DEF Still
  <2>. QED  BY <1>2, <1>6, <1>7, <2>4, <2>5 DEF Walks, Keeps
<1>8. ASSUME LeaseGroup, Still, Walks(Execute, "unprovisioned"), lease' = lease PROVE Leasing'
  BY <1>4, <1>8, SameLeaseKeeps, GroupsHeldBefore DEF Still, Walks
<1>9. ASSUME Undone, Still, Walks(Execute, "unprovisioned") PROVE Leasing'
  <2>1. E.pc \in ProvisionStates /\ lease' = Freed({GroupOwner(E.group)})
    BY <1>9 DEF Undone, At, ProvisionStates
  <2>2. LeaseKeeps
    BY <1>3, <2>1, FreedKeeps, OwnersDiffer
  <2>. QED  BY <1>4, <1>9, <2>2, GroupsHeldBefore DEF Still, Walks
<1>10. ASSUME FailGroup, TurnsGroup(E.group, "FAILED"), Stops(Execute) PROVE Leasing'
  <2>1. HeldBefore
    BY <1>10, TurnedHeldBefore DEF GroupStates
  <2>2. lease' = lease
    BY <1>10 DEF FailGroup
  <2>. QED  BY <1>4, <1>10, <2>1, <2>2, SameLeaseKeeps, DownFields DEF Stops
<1>11. ASSUME ActivateGroup, TurnsGroup(E.group, "ACTIVE"), Walks(Execute, "allocating")
       PROVE  Leasing'
  <2>1. E.pc = "adding" /\ lease' = lease
    BY <1>11 DEF ActivateGroup, At
  <2>2. lease[Shared] = GroupOwner(E.group) /\ E.group \in Group /\ E.group # 0
    BY <1>3, <2>1 DEF Leasing, ProvisionStates, Group
  <2>3. ActiveGroupHoldsLease'
    BY <1>11, <2>1, <2>2, TurnedGroups DEF Leasing, ActiveGroupHoldsLease, GroupStates, State
  <2>4. \A d \in Dispatch : d \notin InState(InFlightStates)'
    BY <1>2 DEF InState, FlightShrinks, InFlight
  <2>. QED  BY <1>2, <1>11, <2>2, <2>3, <2>4 DEF Leasing, RecoverStates, Walks, Keeps, InState
<1>12. ASSUME NEW s, Still, \/ AddTree(s) /\ Goes(Execute, "adding", E.steps \ {s})
                            \/ AddTreeFails(s) /\ Goes(Execute, "undoing", E.kids \ E.steps)
                            \/ Undo(s) /\ Goes(Execute, "undoing", E.steps \ {s})
       PROVE  Leasing'
  <2>1. E.pc \in {"adding", "undoing"} /\ lease' = lease
    BY <1>12 DEF AddTree, AddTreeFails, Undo, At
  <2>2. lease[Shared] = GroupOwner(E.group)
    BY <2>1 DEF Leasing
  <2>3. op'[Execute].pc \in {"adding", "undoing"} /\ op'[Execute].group = E.group
    BY <1>12 DEF Goes, Keeps
  <2>4. HeldBefore /\ LeaseKeeps
    BY <1>12, <2>1, GroupsHeldBefore, SameLeaseKeeps DEF Still
  <2>. QED  BY <1>2, <1>6, <2>1, <2>2, <2>3, <2>4
<1>. QED  BY <1>0, <1>5, <1>7, <1>8, <1>9, <1>10, <1>11, <1>12 DEF ProvisionRows

LEMMA PrepareLeasing ==
    ASSUME Typed, Flight, Control, Leasing, Prepare
    PROVE  Leasing'
<1>. USE Executing DEF E, O
<1>0. PrepareRows
  BY PrepareByRows
<1>1. E.pc = "allocating" \/ (E.pc = "turn" /\ AtCommand)
  BY DEF Prepare, CommandBatch, CommandDispatch, AtCommand, LeaseChild, SavePrepared, RefusePrepare,
         At
<1>2. /\ O.pc = "down" /\ op'[Operator] = op[Operator] /\ db'.groups = db.groups /\ HeldBefore
      /\ \A d \in Dispatch : ~InFlight(d)
  <2>1. Others(Execute) /\ db'.groups = db.groups
    BY <1>0 DEF PrepareRows, Allocates, Begins, Walks, Goes, Stops, Still, PreparedOnly, Forces
  <2>. QED  BY <1>1, <2>1, ExecuteRuns, ExecuteAlone, NoFlight, GroupsHeldBefore
            DEF AtCommand, Others
<1>3. lease' = Freed(Allocated) => LeaseKeeps
  <2>1. \A g : GroupOwner(g) \notin Allocated
    BY OwnersDiffer, ProcessFields DEF Allocated
  <2>. QED  BY <2>1, FreedKeeps
<1>4. db' = db => FlightShrinks
  BY DEF FlightShrinks, InFlight
<1>5. ASSUME db' = db, LeaseKeeps, op'[Execute].pc \in {"down", "cleanup"} PROVE Leasing'
  BY <1>2, <1>4, <1>5, LeasingStays DEF RecoverStates
<1>6. ASSUME db' = db, LeaseKeeps, op'[Execute].pc = "allocating",
             op'[Execute].group = 0 =>
                /\ op'[Execute].kids # {}
                /\ \A s \in op'[Execute].kids \ op'[Execute].steps :
                        lease'[RepositoryOf(s)'] = NextDispatch(s)
      PROVE  Leasing'
  <2>1. ActiveGroupHoldsLease'
    BY <1>2, <1>6 DEF Leasing, ActiveGroupHoldsLease, LeaseKeeps, HeldBefore, Held, State
  <2>2. \A d \in Dispatch : d \notin InState(InFlightStates)'
    BY <1>2, <1>6 DEF InState, InFlight
  <2>3. \A s : NextDispatch(s)' = NextDispatch(s)
    BY <1>6 DEF NextDispatch
  <2>. QED  BY <1>2, <1>6, <2>1, <2>2, <2>3 DEF Leasing, RecoverStates, InState
<1>7. ASSUME NEW b, NEW kids, CommandBatch(b, kids), Allocates(b, 0, kids) PROVE Leasing'
  <2>1. kids # {} /\ lease' = lease
    BY <1>7 DEF CommandBatch, Allocate
  <2>. QED  BY <1>6, <1>7, <2>1, SameLeaseKeeps DEF Allocates, Begins, Still
<1>8. ASSUME NEW s \in Step, CommandDispatch(s), Allocates(0, GroupFor(s), {s}) PROVE Leasing'
  <2>1. lease' = lease
    BY <1>8 DEF CommandDispatch, Allocate
  <2>. QED  BY <1>6, <1>8, <2>1, SameLeaseKeeps DEF Allocates, Begins, Still
<1>9. ASSUME NEW s \in Step, LeaseChild(s), Still, Goes(Execute, "allocating", E.steps \ {s}),
             lease[RepositoryOf(s)] = None,
             lease' = [lease EXCEPT ![RepositoryOf(s)] = NextDispatch(s)]
      PROVE  Leasing'
  <2>1. /\ E.pc = "allocating" /\ RepositoryOf(s) \in Repository
        /\ lease \in [Repository -> Owners]
    BY <1>9 DEF LeaseChild, At, RepositoryOf, Repository, Typed, Shape, Owners
  <2>2. LeaseKeeps
    BY <1>9, <2>1, OwnersDiffer DEF LeaseKeeps
  <2>3. ASSUME E.group = 0
        PROVE  E.kids # {} /\ \A t \in E.kids \ (E.steps \ {s}) :
                    lease'[RepositoryOf(t)] = NextDispatch(t)
    <3>1. E.kids # {} /\ \A t \in E.kids \ E.steps : lease[RepositoryOf(t)] = NextDispatch(t)
      BY <2>1, <2>3 DEF Leasing
    <3>2. \A t \in E.kids \ E.steps : NextDispatch(t) # None /\ RepositoryOf(t) # RepositoryOf(s)
      <4>1. ASSUME NEW t \in E.kids \ E.steps PROVE NextDispatch(t) # None
        <5>1. t \in Step
          BY ProcessFields
        <5>. QED  BY <5>1, NextDispatchOwns
      <4>. QED  BY <3>1, <4>1, <1>9
    <3>3. lease'[RepositoryOf(s)] = NextDispatch(s)
      BY <1>9, <2>1
    <3>. QED  BY <1>9, <2>1, <3>1, <3>2, <3>3
  <2>4. \A t : RepositoryOf(t)' = RepositoryOf(t)
    BY <1>9 DEF Still, RepositoryOf
  <2>5. op'[Execute].pc = "allocating" /\ Keeps(Execute) /\ op'[Execute].steps = E.steps \ {s}
        /\ db' = db
    BY <1>9 DEF Goes, Still
  <2>. QED  BY <1>6, <2>2, <2>3, <2>4, <2>5 DEF Keeps
<1>10. ASSUME SavePrepared, PreparedOnly(E.batch, E.group, E.kids), Walks(Execute, "running"),
              barrier' = barrier
       PROVE  Leasing'
  <2>1. E.pc = "allocating" /\ E.steps = {} /\ lease' = lease /\ E.kids \subseteq Step
    BY <1>10, ProcessFields DEF SavePrepared, At
  <2>2. ActiveGroupHoldsLease'
    BY <1>2, <2>1 DEF Leasing, ActiveGroupHoldsLease, State
  <2>3. \A d \in Dispatch : InFlight(d)' => db'.dispatches[d].group = E.group
    BY <1>2, <1>10 DEF PreparedOnly, InFlight
  <2>4. E.group = 0 => ~Engaged
    <3>. SUFFICES ASSUME E.group = 0, NEW g \in Group, Held(g) PROVE FALSE
      BY DEF Engaged, Held
    <3>1. barrier
      BY DEF Held, Control, Admission
    <3>0. E.kids # {} /\ \A s \in E.kids : lease[RepositoryOf(s)] = NextDispatch(s)
      BY <2>1 DEF Leasing
    <3>2. PICK s \in E.kids : lease[RepositoryOf(s)] = NextDispatch(s)
      BY <3>0
    <3>3. lease[Shared] = NextDispatch(s) /\ lease[Shared] = GroupOwner(g)
      BY <3>1, <3>2 DEF RepositoryOf, Leasing, ActiveGroupHoldsLease, Held, State
    <3>. QED  BY <2>1, <3>2, <3>3, OwnersDiffer
  <2>5. Engaged' => \A d \in InState(InFlightStates)' : db'.dispatches[d].group # 0
    BY <1>2, <2>3, <2>4 DEF Engaged, Held, State, InState, InFlight
  <2>. QED  BY <1>2, <1>10, <2>2, <2>5 DEF Leasing, RecoverStates, Walks
<1>11. ASSUME Still, lease' = Freed(Allocated), Stops(Execute) \/ Forces PROVE Leasing'
  BY <1>3, <1>5, <1>11, DownFields DEF Still, Stops, Forces
<1>. QED  BY <1>0, <1>7, <1>8, <1>9, <1>10, <1>11 DEF PrepareRows, RefusePrepare

(* Nobody who holds a lease moves, and no lease does. *)
LEMMA LeasingSame ==
    ASSUME Typed, Leasing, db' = db, lease' = lease, barrier' = barrier,
           op'[Execute] = op[Execute],
           op'[Operator] = op[Operator] \/ op'[Operator].pc \notin RecoverStates
    PROVE  Leasing'
<1>1. \A s : RepositoryOf(s)' = RepositoryOf(s) /\ NextDispatch(s)' = NextDispatch(s)
             /\ Current(s)' = Current(s)
  BY DEF RepositoryOf, NextDispatch, Current
<1>. QED  BY <1>1 DEF Leasing, ActiveGroupHoldsLease, Engaged, Held, State, InState, E, O

LEMMA OneOwnerFreed ==
    ASSUME Typed, NEW s \in Step, lease' = Freed({Current(s)})
    PROVE  LeaseKeeps
BY FreedKeeps, OwnersDiffer

LEMMA WorkLease ==
    ASSUME NEW s \in Step, Work(s), ~RetryStalled(s)
    PROVE  lease' = lease \/ lease' = Freed({Current(s)})
BY DEF Work, Launch, CommitWork, ApplyCompleted, ApplyBlocked, PersistForwarded,
       PersistEscalated, FailDispatch, FailStep, AskReconciliation, StallDispatch, StallStep,
       AskStallRecovery, HandlerRaises

LEMMA WorkLeasing ==
    ASSUME Typed, Flight, Control, Leasing, NEW s \in Step, Work(s)
    PROVE  Leasing'
<1>. USE Executing DEF E, O
<1>1. /\ op' = op /\ barrier' = barrier
      /\ E.pc = "running" /\ O.pc = "down" /\ db'.groups = db.groups
      /\ FlightShrinks \/ (PreparedOnly(0, GroupFor(s), {s}) /\ RetryStalled(s))
  BY WorkShrinks
<1>2. HeldBefore
  BY <1>1, GroupsHeldBefore
<1>3. CASE ~RetryStalled(s)
  <2>1. LeaseKeeps
    BY <1>3, WorkLease, SameLeaseKeeps, OneOwnerFreed
  <2>. QED  BY <1>1, <1>2, <1>3, <2>1, LeasingStays DEF RecoverStates
<1>4. CASE RetryStalled(s) /\ ~MayRetry(s)
  <2>1. db' = db /\ lease' = lease
    BY <1>4 DEF RetryStalled
  <2>. QED  BY <1>1, <2>1, LeasingSame
<1>5. CASE RetryStalled(s) /\ MayRetry(s)
  <2>. DEFINE g == GroupFor(s)
  <2>0. PreparedOnly(0, g, {s})
    <3>1. thread'[s] = "queued"
      BY <1>5 DEF RetryStalled, Steps, Shape
    <3>. QED  BY <1>5, <3>1, RetryEffect
  <2>1. /\ lease' = IF g = 0 THEN [lease EXCEPT ![RepositoryOf(s)] = NextDispatch(s)] ELSE lease
        /\ g = 0 => lease[RepositoryOf(s)] = None
    BY <1>5 DEF RetryStalled, MayRetry
  <2>2. g = 0 => ~Engaged
    <3>. SUFFICES ASSUME g = 0, NEW h \in Group, Held(h) PROVE FALSE
      BY DEF Engaged, Held
    <3>1. barrier
      BY DEF Held, Control, Admission
    <3>2. lease[Shared] = None /\ lease[Shared] = GroupOwner(h)
      BY <2>1, <3>1 DEF RepositoryOf, Leasing, ActiveGroupHoldsLease, Held, State
    <3>. QED  BY <3>2, OwnersDiffer
  <2>3. Engaged' => Engaged
    BY <1>2 DEF Engaged, HeldBefore, Held, State
  <2>4. ActiveGroupHoldsLease'
    BY <1>2, <2>1, <2>2, <2>3
    DEF Leasing, ActiveGroupHoldsLease, Engaged, HeldBefore, Held, State
  <2>5. \A d \in Dispatch : InFlight(d)' =>
            \/ db'.dispatches[d].group = g
            \/ InFlight(d) /\ db'.dispatches[d].group = db.dispatches[d].group
    BY <2>0 DEF PreparedOnly, InFlight
  <2>6. Engaged' => \A d \in InState(InFlightStates)' : db'.dispatches[d].group # 0
    BY <2>2, <2>3, <2>5 DEF Leasing, InState, InFlight
  <2>. QED  BY <1>1, <2>4, <2>6 DEF Leasing, RecoverStates
<1>. QED  BY <1>3, <1>4, <1>5

LEMMA JoinLeasing ==
    ASSUME Typed, Flight, Control, Leasing, Join
    PROVE  Leasing'
<1>. USE Executing DEF E, O
<1>0. JoinRows
  BY JoinByRows
<1>1. E.pc \in {"running", "batch_asking"} /\ lease' = lease
  BY DEF Join, DispatchEnds, FinalizeBatch, AskBatchReconciliation, At
<1>2. O.pc = "down"
  BY <1>1, ExecuteAlone
<1>3. /\ Others(Execute) /\ op'[Execute].pc \in {"down", "turn", "batch_asking"}
      /\ db'.groups = db.groups /\ db'.dispatches = db.dispatches
  BY <1>0, DownFields DEF JoinRows, Joins, AsksBatch, RunOnly, Stops, TurnsTo, Begins, Walks
<1>4. FlightShrinks
  BY <1>3 DEF FlightShrinks, InFlight
<1>. QED  BY <1>1, <1>2, <1>3, <1>4, LeasingStays, SameLeaseKeeps, GroupsHeldBefore
          DEF RecoverStates, Others

LEMMA TurnLeasing ==
    ASSUME Typed, Flight, Control, Leasing, Turn
    PROVE  Leasing'
<1>. USE Executing DEF E, O
<1>0. TurnRows
  BY TurnByRows
<1>1. /\ Others(Execute) /\ db'.groups = db.groups
      /\ op'[Execute].pc \in {"down", "turn", "integrate"}
  BY <1>0, DownFields DEF TurnRows, Still, TurnsTo, Begins, Stops, Acknowledges, RunOnly
<1>2. O.pc \notin RecoverStates /\ lease' = lease
  BY DEF Turn, Start, Complete, AtCommand, Stop, Acknowledge, At, Flight, Apart
<1>3. FlightShrinks
  <2>1. db.dispatches \in [Dispatch -> DispatchRecord] /\ "ACKNOWLEDGED" \in DispatchStates
    BY DEF LooseRecord, DispatchStates
  <2>2. ASSUME NEW d \in Dispatch, Acknowledges(d) PROVE FlightShrinks
    BY <2>1, <2>2, TurnedDispatch DEF Acknowledges, FlightShrinks, InFlight, InFlightStates
  <2>3. ASSUME db'.dispatches = db.dispatches PROVE FlightShrinks
    BY <2>3 DEF FlightShrinks, InFlight
  <2>. QED  BY <1>0, <2>2, <2>3 DEF TurnRows, Still, RunOnly
<1>. QED  BY <1>1, <1>2, <1>3, LeasingStays, SameLeaseKeeps, GroupsHeldBefore DEF Others

LEMMA IntegrateLeasing ==
    ASSUME Typed, Flight, Control, Leasing, Integrate
    PROVE  Leasing'
<1>. USE Executing DEF E, O
<1>0. IntegrateRows
  BY IntegrateByRows
<1>1. E.pc \in IntegrationStates /\ lease' = lease
  BY DEF Integrate, BeginIntegration, OpenIntegration, MergeChild, Promote, IntegrationFails,
         SavePromoted, FailIntegration, AskWorkspaceReconciliation, At, IntegrationStates
<1>2. O.pc = "down"
  BY <1>1, ExecuteAlone DEF IntegrationStates
<1>3. /\ Others(Execute) /\ db'.dispatches = db.dispatches
      /\ op'[Execute].pc \in IntegrationStates \cup {"turn", "cleanup"}
  BY <1>0
  DEF IntegrateRows, Still, TurnsGroup, GroupsOnly, SavesPromoted, AsksGroup, RunOnly, TurnsTo,
      Begins, Walks, Goes, IntegrationStates
<1>4. FlightShrinks
  BY <1>3 DEF FlightShrinks, InFlight
<1>5. HeldBefore
  <2>1. ASSUME BeginIntegration, TurnsGroup(E.group, "INTEGRATING") PROVE HeldBefore
    <3>1. Held(E.group)
      BY <2>1 DEF BeginIntegration, At, Held, Control, Stations
    <3>. QED  BY <2>1, <3>1, TurnedHeldBefore DEF GroupStates
  <2>2. ASSUME TurnsGroup(E.group, "FAILED") PROVE HeldBefore
    BY <2>2, TurnedHeldBefore DEF GroupStates
  <2>3. ASSUME SavesPromoted PROVE HeldBefore
    BY <2>3 DEF SavesPromoted, HeldBefore, Held, State
  <2>. QED  BY <1>0, <2>1, <2>2, <2>3, GroupsHeldBefore
            DEF IntegrateRows, Still, AsksGroup, RunOnly
<1>. QED  BY <1>1, <1>2, <1>3, <1>4, <1>5, LeasingStays, SameLeaseKeeps
          DEF RecoverStates, Others, IntegrationStates

LEMMA CleanupLeasing ==
    ASSUME Typed, Flight, Control, Leasing, NEW a \in Command, Cleanup(a)
    PROVE  Leasing'
<1>. USE Executing DEF E, O
<1>. DEFINE g == op[a].group
<1>0. CleanupRows(a)
  BY CleanupByRows
<1>1. op[a].pc \in CleanupStates
  BY DEF Cleanup, BeginCleanup, CheckCleanup, RemovePlace, RemovePlaceFails, EndRemoval,
         SaveCleaned, SaveUnclean, At, CleanupStates
<1>2. /\ Others(a) /\ db'.dispatches = db.dispatches
      /\ op'[a].pc \in CleanupStates \cup {"answering", "asking", "turn", "down"}
  BY <1>0, <1>1, DownFields
  DEF CleanupRows, Still, TurnsGroup, GroupsOnly, Removes, Walks, Goes, Stops, TurnsTo, Begins,
      CleanupStates
<1>3. /\ op'[Execute].pc \in CleanupStates \cup {"answering", "asking", "turn", "down"}
      /\ op'[Operator].pc \notin RecoverStates
  <2>1. CASE a = Execute
    BY <1>1, <1>2, <2>1, ExecuteAlone DEF Others, CleanupStates, RecoverStates
  <2>2. CASE a = Operator
    BY <1>1, <1>2, <2>2, OperatorAnswers DEF Others, CleanupStates, RecoverStates
  <2>. QED  BY <2>1, <2>2 DEF Command
<1>4. FlightShrinks
  BY <1>2 DEF FlightShrinks, InFlight
<1>5. HeldBefore
  <2>1. ASSUME NEW target \in {"CLEANUP_PENDING", "CLEANED", "FAILED"}, TurnsGroup(g, target)
        PROVE  HeldBefore
    BY <2>1, TurnedHeldBefore DEF GroupStates
  <2>. QED  BY <1>0, <2>1, GroupsHeldBefore DEF CleanupRows, Still, Removes
<1>6. LeaseKeeps
  <2>1. ASSUME EndRemoval(a), lease' = Freed({GroupOwner(g)}) PROVE LeaseKeeps
    <3>1. State(g) = "CLEANUP_PENDING"
      BY <2>1 DEF EndRemoval, At, Control, Stations, RemovalStates
    <3>. QED  BY <2>1, <3>1, FreedKeeps, OwnersDiffer DEF Held
  <2>2. EndRemoval(a) \/ lease' = lease
    BY DEF Cleanup, BeginCleanup, CheckCleanup, RemovePlace, RemovePlaceFails, SaveCleaned,
           SaveUnclean
  <2>3. EndRemoval(a) => lease' = lease \/ lease' = Freed({GroupOwner(g)})
    BY DEF EndRemoval
  <2>. QED  BY <2>1, <2>2, <2>3, SameLeaseKeeps
<1>. QED  BY <1>3, <1>4, <1>5, <1>6, LeasingStays DEF CleanupStates

LEMMA AnswerLeasing ==
    ASSUME Typed, Flight, Control, Leasing, Answer
    PROVE  Leasing'
<1>. USE Executing DEF E, O
<1>0. AnswerRows /\ thread' = thread /\ barrier' = barrier
  BY AnswerByRows
<1>1. /\ db'.groups = db.groups /\ db'.dispatches = db.dispatches
      /\ op'[Execute] = op[Execute] /\ lease' = lease
  BY <1>0 DEF AnswerRows, Readied, Still, RunOnly, Begins, Stops, Others, Answer, AnswerStep,
              AnswerBatch, BeginAnswerWorkspace, AnswerWorkspace, AnswerHalt, MergeByHand, TidyByHand
<1>2. FlightShrinks
  BY <1>1 DEF FlightShrinks, InFlight
<1>3. ASSUME op' = op, db' = db PROVE Leasing'
  BY <1>0, <1>1, <1>3, LeasingSame
<1>4. ASSUME op'[Operator].pc \notin RecoverStates, db.run = "WAITING_OPERATOR" PROVE Leasing'
  <2>1. E.pc \notin {"adding", "undoing", "allocating"}
    BY <1>4 DEF Control, Duties
  <2>. QED  BY <1>1, <1>2, <1>4, <2>1, LeasingStays, SameLeaseKeeps, GroupsHeldBefore
<1>5. AnswerStep \/ AnswerBatch \/ AnswerHalt \/ BeginAnswerWorkspace =>
        O.pc = "down" /\ db.run = "WAITING_OPERATOR"
  BY DEF AnswerStep, AnswerBatch, AnswerHalt, BeginAnswerWorkspace, Answering, At
<1>6. AnswerWorkspace => db.run = "WAITING_OPERATOR"
  BY RunIsNotAboutGroup DEF AnswerWorkspace, AboutGroup
<1>. QED  BY <1>0, <1>3, <1>4, <1>5, <1>6, DownFields
          DEF AnswerRows, Still, Begins, Stops, RecoverStates

LEMMA RecoverLeasing ==
    ASSUME Typed, Flight, Control, Leasing, Recover
    PROVE  Leasing'
<1>. USE Executing DEF E, O
<1>0. RecoverRows /\ thread' = thread /\ barrier' = barrier
  BY RecoverByRows
<1>1. E.pc = "down" /\ op'[Execute] = op[Execute]
  <2>1. RecoverStart \/ O.pc \in RecoverStates
    BY <1>0 DEF RecoverRows, Recovers, RecoverStates
  <2>. QED  BY <1>0, <2>1, ApartIsDown
            DEF RecoverStart, At, RecoverRows, Recovers, Begins, Walks, Stops, Others
<1>2. ASSUME NEW kids, op'[Operator].kids = kids, lease' = lease,
             db'.groups = db.groups, FlightShrinks,
             Engaged => \A s \in kids :
                Current(s)' \in Dispatch /\ db'.dispatches[Current(s)'].group # 0
      PROVE  Leasing'
  <2>1. HeldBefore /\ LeaseKeeps
    BY <1>2, GroupsHeldBefore, SameLeaseKeeps
  <2>2. ActiveGroupHoldsLease' /\ (Engaged' => Engaged)
    BY <2>1 DEF Leasing, ActiveGroupHoldsLease, LeaseKeeps, HeldBefore, Held, Engaged, State
  <2>3. Engaged' => \A d \in InState(InFlightStates)' : db'.dispatches[d].group # 0
    BY <1>2, <2>2 DEF Leasing, InState, FlightShrinks, InFlight
  <2>. QED  BY <1>1, <1>2, <2>2, <2>3 DEF Leasing
<1>3. ASSUME db'.dispatches = db.dispatches, db'.steps = db.steps, db'.groups = db.groups,
             lease' = lease, O.pc \in RecoverStates, op'[Operator].kids = O.kids
      PROVE  Leasing'
  <2>1. FlightShrinks
    BY <1>3 DEF FlightShrinks, InFlight
  <2>2. \A s : Current(s)' = Current(s)
    BY <1>3 DEF Current
  <2>3. Engaged => \A s \in O.kids :
            Current(s)' \in Dispatch /\ db'.dispatches[Current(s)'].group # 0
    BY <1>3, <2>2 DEF Leasing
  <2>. QED  BY <1>2, <1>3, <2>1, <2>3
<1>4. ASSUME NEW d \in Dispatch, InFlight(d), Interrupted(d), Recovers(d, {d[1]}), lease' = lease
      PROVE  Leasing'
  <2>1. /\ db.dispatches \in [Dispatch -> DispatchRecord] /\ db.steps \in [Step -> StepRecord]
        /\ "FAILED" \in DispatchStates /\ "ABANDONED" \in DispatchStates /\ O.kids \subseteq Step
    BY ProcessFields DEF LooseRecord, DispatchStates
  <2>2. FlightShrinks /\ db'.groups = db.groups
    BY <1>4, <2>1, TurnedDispatch DEF Interrupted, FlightShrinks, InFlight, InFlightStates
  <2>3. d[1] \in Step /\ Current(d[1]) = d
    BY <1>4, FlightPairs DEF Flight
  <2>4. \A s \in Step : db'.steps[s].attempts = db.steps[s].attempts
    BY <1>4, <2>1, <2>3, TurnedStep DEF Interrupted, StepStatuses
  <2>5. \A s \in Step : Current(s)' = Current(s)
    BY <2>4 DEF Current
  <2>6. \A e \in Dispatch : db'.dispatches[e].group = db.dispatches[e].group
    BY <1>4, <2>1, TurnedDispatch DEF Interrupted
  <2>7. Engaged => \A s \in O.kids \cup {d[1]} :
            Current(s)' \in Dispatch /\ db'.dispatches[Current(s)'].group # 0
    BY <1>4, <2>1, <2>3, <2>5, <2>6 DEF Leasing, InState, InFlight, Recovers, RecoverStates
  <2>. QED  BY <1>2, <1>4, <2>2, <2>7 DEF Recovers
<1>5. ASSUME RecoverRelease, db' = db, Stops(Operator) PROVE Leasing'
  <2>1. Engaged => RecoverableKeys = {}
    BY <1>5 DEF Leasing, RecoverRelease, At, RecoverStates, RecoverableKeys
  <2>2. LeaseKeeps
    BY <1>5, <2>1, OwnersDiffer DEF RecoverRelease, LeaseKeeps, Engaged, Held
  <2>3. FlightShrinks
    BY <1>5 DEF FlightShrinks, InFlight
  <2>. QED  BY <1>1, <1>5, <2>2, <2>3, LeasingStays, GroupsHeldBefore, DownFields
            DEF Stops, RecoverStates
<1>6. RecoverRelease \/ lease' = lease
  BY DEF Recover, RecoverStart, RecoverDispatched, RecoverAsk, RecoverJoined, RecoverCompleted,
         RecoverInterrupted, RecoverJoin
<1>7. ASSUME RecoverStart, db' = db, op'[Operator].kids = {} PROVE Leasing'
  <2>1. lease' = lease
    BY <1>7 DEF RecoverStart
  <2>2. FlightShrinks
    BY <1>7 DEF FlightShrinks, InFlight
  <2>. QED  BY <1>2, <1>7, <2>1, <2>2
<1>8. ASSUME RecoverDispatched \/ RecoverAsk \/ RecoverJoined, AsksBatch \/ db' = db,
             O.pc \in RecoverStates, NEW pc, Walks(Operator, pc)
      PROVE  Leasing'
  <2>1. lease' = lease
    BY <1>8 DEF RecoverDispatched, RecoverAsk, RecoverJoined
  <2>. QED  BY <1>3, <1>8, <2>1 DEF AsksBatch, RunOnly, Walks, Keeps
<1>9. ASSUME NEW d \in Dispatch, RecoverCompleted(d) \/ RecoverInterrupted(d), db' = db,
             Recovers(d, {})
      PROVE  Leasing'
  <2>1. lease' = lease
    BY <1>9 DEF RecoverCompleted, RecoverInterrupted
  <2>. QED  BY <1>3, <1>9, <2>1 DEF Recovers, RecoverStates
<1>10. ASSUME NEW d \in Dispatch, RecoverInterrupted(d), InFlight(d), Interrupted(d),
              Recovers(d, {d[1]})
       PROVE  Leasing'
  BY <1>4, <1>10 DEF RecoverInterrupted
<1>11. ASSUME NEW b \in Batch, RecoverJoin(b), Joins(b), O.pc = "joining",
              op'[Operator].kids = O.kids
       PROVE  Leasing'
  <2>1. lease' = lease
    BY <1>11 DEF RecoverJoin
  <2>. QED  BY <1>3, <1>11, <2>1 DEF Joins, RecoverStates
<1>. QED  BY <1>0, <1>5, <1>7, <1>8, <1>9, <1>10, <1>11 DEF RecoverRows, RecoverStates, InFlight

LEMMA DisturbLeasing ==
    ASSUME Typed, Flight, Control, Leasing, Disturb
    PROVE  Leasing'
<1>. USE Executing DEF E, O
<1>0. DisturbRows /\ db' = db /\ barrier' = barrier
  BY DisturbByRows
<1>1. HeldBefore /\ FlightShrinks
  BY <1>0, GroupsHeldBefore DEF FlightShrinks, InFlight
<1>2. \A s \in Step : Current(s)' = Current(s)
  BY <1>0 DEF Current
<1>3. ASSUME LeaseKeeps, op'[Execute].pc \in {"down", "running", "batch_asking", "asking"},
             op'[Operator] = op[Operator]
      PROVE  Leasing'
  BY <1>0, <1>1, <1>2, <1>3, LeasingStays
<1>4. ASSUME NEW a \in Command, Crash(a) \/ Raises(a) PROVE lease' = lease
  <2>1. At(a, "adding") \/ At(a, "allocating") => a = Execute /\ Execute \in fresh
    BY DEF At, Command, Control, Duties, CleanupStates, RecoverStates
  <2>2. CASE Crash(a)
    BY <2>2 DEF Crash
  <2>3. CASE Raises(a)
    BY <2>1, <2>3 DEF Raises
  <2>. QED  BY <1>4, <2>2, <2>3
<1>5. ASSUME Stops(Operator), lease' = lease PROVE Leasing'
  BY <1>0, <1>5, LeasingSame, DownFields DEF Stops, Others, RecoverStates
<1>6. ASSUME Stops(Execute) \/ Walks(Execute, "asking"), lease' = lease PROVE Leasing'
  BY <1>3, <1>6, SameLeaseKeeps, DownFields DEF Stops, Walks, Others
<1>7. ASSUME NEW s \in Step, Cancel(s), op' = op PROVE Leasing'
  <2>1. lease' = lease
    BY <1>7 DEF Cancel
  <2>. QED  BY <1>0, <1>7, <2>1, LeasingSame
<1>8. ASSUME NEW s \in Step, CancelOvertakes(s), op' = op PROVE Leasing'
  <2>1. thread[s] = "working"
    BY <1>8 DEF CancelOvertakes
  <2>2. E.pc = "running"
    BY <2>1 DEF Typed, Counted, ThreadsOK
  <2>3. PICK owners \in {{}, {Current(s)}} : lease' = Freed(owners)
    BY <1>8 DEF CancelOvertakes
  <2>4. LeaseKeeps
    BY <2>3, FreedKeeps, OwnersDiffer
  <2>. QED  BY <1>3, <1>8, <2>2, <2>4
<1>9. ASSUME NEW d \in Dispatch, WorkerExits(d), op' = op PROVE Leasing'
  <2>1. lease' = lease
    BY <1>9 DEF WorkerExits
  <2>. QED  BY <1>0, <1>9, <2>1, LeasingSame
<1>. QED  BY <1>0, <1>4, <1>5, <1>6, <1>7, <1>8, <1>9 DEF DisturbRows, Command

LEMMA LeasingStep ==
    ASSUME Typed, Flight, Control, Leasing, [Next]_vars
    PROVE  Leasing'
<1>1. CASE UNCHANGED vars
  BY <1>1, LeasingSame DEF vars
<1>2. CASE Next
  BY <1>2, ProvisionLeasing, PrepareLeasing, WorkLeasing, JoinLeasing, TurnLeasing,
     IntegrateLeasing, CleanupLeasing, AnswerLeasing, RecoverLeasing, DisturbLeasing DEF Next
<1>. QED  BY <1>1, <1>2

LEMMA LeasingInit ==
    ASSUME Init
    PROVE  Leasing
<1>1. /\ op = [a \in Command |-> Down]
      /\ \A d \in Dispatch : db.dispatches[d].state = "NONE"
      /\ \A g \in Group : State(g) = "NONE"
  BY DEF Init, Undispatched, State
<1>2. E.pc = "down" /\ O.pc = "down"
  BY <1>1, DownFields DEF E, O, Command, Execute, Operator
<1>. QED  BY <1>1, <1>2
          DEF Leasing, ActiveGroupHoldsLease, Engaged, State, InState, InFlightStates, RecoverStates
-----------------------------------------------------------------------------
(* Layer 5: the processes of workers.                                      *)
(* No process is born, and nothing starts. *)
LEMMA WritersStay ==
    ASSUME Typed, Writers, FlightShrinks, barrier' = barrier, workers' \subseteq workers,
           \A d \in workers' : db'.dispatches[d].state = "RUNNING",
           \A s \in Step : thread'[s] = "committed" => Current(s)' \notin workers'
    PROVE  Writers'
<1>1. workers \subseteq Dispatch
  BY DEF Typed, Shape
<1>2. workers' \subseteq InState({"RUNNING"})'
  BY <1>1 DEF InState
<1>3. \A d \in InState(InFlightStates)' :
        d \in InState(InFlightStates) /\ db'.dispatches[d].group = db.dispatches[d].group
  BY DEF FlightShrinks, InFlight, InState
<1>. QED  BY <1>2, <1>3 DEF Writers

LEMMA WorkersAreInFlight ==
    ASSUME Typed, Writers
    PROVE  /\ \A d \in workers : d \in Dispatch /\ db.dispatches[d].state = "RUNNING" /\ InFlight(d)
           /\ workers \subseteq Dispatch
BY DEF Typed, Shape, Writers, InState, InFlight, InFlightStates

LEMMA WritersSame ==
    ASSUME Typed, Writers, barrier' = barrier, workers' \subseteq workers,
           db'.dispatches = db.dispatches,
           \A s \in Step : db'.steps[s].attempts = db.steps[s].attempts,
           thread' = thread \/ Idle
    PROVE  Writers'
<1>1. FlightShrinks
  BY DEF FlightShrinks, InFlight
<1>2. \A d \in workers' : db'.dispatches[d].state = "RUNNING"
  BY WorkersAreInFlight
<1>3. \A s \in Step : thread'[s] = "committed" => Current(s)' \notin workers'
  BY DEF Idle, Writers, Current
<1>. QED  BY <1>1, <1>2, <1>3, WritersStay

(* The step of a thread, when it starts no dispatch of its own. *)
LEMMA WritersWork ==
    ASSUME Typed, Writers, NEW s \in Step, NEW target, FlightShrinks, barrier' = barrier,
           \A t \in Step \ {s} : thread'[t] = thread[t],
           \A t \in Step : db'.steps[t].attempts = db.steps[t].attempts,
           \A d \in Dispatch : db'.dispatches[d].state =
                                 IF d = Current(s) THEN target ELSE db.dispatches[d].state,
           workers' \subseteq workers \cup {Current(s)}, Current(s) \in Dispatch,
           Current(s) \in workers' => target = "RUNNING" /\ thread'[s] # "committed"
    PROVE  Writers'
<1>1. workers' \subseteq InState({"RUNNING"})'
  BY WorkersAreInFlight DEF InState
<1>2. \A t \in Step : Current(t)' = Current(t)
  BY DEF Current
<1>3. \A t \in Step : thread'[t] = "committed" => Current(t)' \notin workers'
  <2>1. \A t \in Step \ {s} : Current(t) # Current(s)
    BY DEF Current
  <2>. QED  BY <1>2, <2>1 DEF Writers
<1>4. \A d \in InState(InFlightStates)' :
        d \in InState(InFlightStates) /\ db'.dispatches[d].group = db.dispatches[d].group
  BY DEF FlightShrinks, InFlight, InState
<1>. QED  BY <1>1, <1>3, <1>4 DEF Writers

(* New dispatches: of one step, if they have the working copy of all. *)
LEMMA WritersPrepare ==
    ASSUME Typed, Flight, Writers, NEW b, NEW g, NEW kids \in SUBSET Step, PreparedOnly(b, g, kids),
           barrier' = barrier, workers' = workers,
           \A s \in Step \ kids : thread'[s] = thread[s],
           \A s \in kids : thread'[s] = "queued",
           barrier /\ g = 0 => /\ \A s, t \in kids : s = t
                               /\ \A d \in Dispatch : ~InFlight(d)
    PROVE  Writers'
<1>1. \A s \in Step : db.steps[s].attempts \in Nat
  BY DEF Typed, Shape, LooseRecord, StepRecord
<1>2. \A d \in Dispatch : InFlight(d) => d[1] \in Step /\ d # NextDispatch(d[1])
  BY <1>1, FlightPairs DEF Flight, Current, NextDispatch
<1>3. \A d \in Dispatch : InFlight(d) => db'.dispatches[d] = db.dispatches[d]
  BY <1>2 DEF PreparedOnly
<1>4. workers' \subseteq InState({"RUNNING"})'
  BY <1>3, WorkersAreInFlight DEF InState
<1>5. \A s \in Step : thread'[s] = "committed" => Current(s)' \notin workers'
  BY DEF Writers, PreparedOnly, Current
<1>6. \A d \in Dispatch : InFlight(d)' =>
        \/ InFlight(d) /\ db'.dispatches[d] = db.dispatches[d]
        \/ d[1] \in kids /\ d = NextDispatch(d[1]) /\ db'.dispatches[d].group = g
  BY DEF PreparedOnly, InFlight
<1>7. ASSUME barrier, NEW d \in InState(InFlightStates)', NEW e \in InState(InFlightStates)',
             db'.dispatches[d].group = 0, db'.dispatches[e].group = 0
      PROVE  d = e
  <2>1. d \in Dispatch /\ e \in Dispatch /\ InFlight(d)' /\ InFlight(e)'
    BY DEF InState, InFlight
  <2>2. CASE g = 0
    BY <1>6, <1>7, <2>1, <2>2
  <2>3. CASE g # 0
    BY <1>6, <1>7, <2>1, <2>3 DEF Writers, InState, InFlight
  <2>. QED  BY <2>2, <2>3
<1>. QED  BY <1>4, <1>5, <1>7 DEF Writers

LEMMA WorkWriters ==
    ASSUME Typed, Flight, Control, Writers, NEW s \in Step, Work(s)
    PROVE  Writers'
<1>. USE Executing DEF E
<1>1. /\ WorkRows(s) /\ barrier' = barrier /\ Current(s) \in Dispatch
      /\ db.dispatches[Current(s)].state \in ThreadDispatchStates(thread[s])
      /\ FlightShrinks \/ (PreparedOnly(0, GroupFor(s), {s}) /\ RetryStalled(s))
      /\ \A t \in Step \ {s} : thread'[t] = thread[t]
  BY WorkShrinks, WorkFrame
<1>2. ASSUME NEW target \in DispatchStates, Reports(s, target), ~RetryStalled(s),
             \A t \in Step : db'.steps[t].attempts = db.steps[t].attempts,
             workers' \subseteq workers \cup {Current(s)},
             Current(s) \in workers' => target = "RUNNING" /\ thread'[s] # "committed"
      PROVE  Writers'
  BY <1>1, <1>2, ReportStates, WritersWork
<1>3. ASSUME db' = db \/ SameDispatches, ~RetryStalled(s), workers' \subseteq workers,
             \A t \in Step : db'.steps[t].attempts = db.steps[t].attempts,
             Current(s) \in workers' => thread'[s] # "committed"
      PROVE  Writers'
  <2>. DEFINE target == db.dispatches[Current(s)].state
  <2>1. \A d \in Dispatch : db'.dispatches[d].state =
                              IF d = Current(s) THEN target ELSE db.dispatches[d].state
    BY <1>3 DEF SameDispatches
  <2>2. Current(s) \in workers' => target = "RUNNING"
    BY <1>3, WorkersAreInFlight
  <2>. QED  BY <1>1, <1>3, <2>1, <2>2, WritersWork
<1>4. DispatchStates = {"NONE", "PREPARED", "RUNNING", "COMPLETED", "FORWARDED", "ACKNOWLEDGED",
                        "FAILED", "ABANDONED"}
  BY DEF DispatchStates
<1>5. ASSUME Launch(s) PROVE Writers'
  <2>1. /\ Reports(s, "RUNNING") /\ db'.steps = db.steps /\ thread'[s] = "working"
        /\ thread[s] = "queued"
    BY <1>5, LaunchEffect
  <2>2. workers' = workers \cup {Current(s)} /\ ~RetryStalled(s)
    BY <1>5, <2>1 DEF Launch, RetryStalled
  <2>. QED  BY <1>2, <1>4, <2>1, <2>2
<1>6. ASSUME RetryStalled(s) PROVE Writers'
  <2>1. workers' = workers
    BY <1>6 DEF RetryStalled
  <2>2. CASE MayRetry(s)
    <3>1. PreparedOnly(0, GroupFor(s), {s}) /\ thread'[s] = "queued"
      <4>1. thread'[s] = "queued"
        BY <1>6, <2>2 DEF RetryStalled, Steps, Shape
      <4>. QED  BY <1>6, <4>1, RetryEffect
    <3>2. barrier => \A d \in Dispatch : ~InFlight(d)
      <4>1. RepositoryOf(s) \notin ActiveRepositories
        BY <2>2 DEF MayRetry, BatchValid
      <4>. QED  BY <4>1 DEF RepositoryOf, ActiveRepositories, Active, InState, InFlight,
                            InFlightStates, ActiveDispatchStates
    <3>. QED  BY <1>1, <2>1, <3>1, <3>2, WritersPrepare
  <2>3. CASE ~MayRetry(s)
    <3>1. db' = db /\ thread'[s] = "raised"
      BY <1>6, <2>3 DEF RetryStalled, Steps, Shape
    <3>2. FlightShrinks
      BY <3>1 DEF FlightShrinks, InFlight
    <3>3. \A t \in Step : thread'[t] = "committed" => Current(t)' \notin workers'
      BY <1>1, <2>1, <3>1 DEF Writers, Current
    <3>. QED  BY <1>1, <2>1, <3>1, <3>2, <3>3, WritersStay, WorkersAreInFlight
  <2>. QED  BY <2>2, <2>3
<1>7. ASSUME StallStep(s) PROVE Writers'
  <2>1. /\ SameDispatches /\ thread[s] = "stalling" /\ thread'[s] \in {"retrying", "stall_asking"}
        /\ \A t \in Step : db'.steps[t].attempts = db.steps[t].attempts
    BY <1>7, StallEffect
  <2>2. workers' = workers /\ ~RetryStalled(s)
    BY <1>7, <2>1 DEF StallStep, RetryStalled
  <2>. QED  BY <1>3, <2>1, <2>2
<1>8. ASSUME db' = db, CommitWork(s) \/ HandlerRaises(s) PROVE Writers'
  <2>1. /\ ~RetryStalled(s) /\ workers' \subseteq workers
        /\ Current(s) \in workers' => thread'[s] # "committed"
    BY <1>8 DEF CommitWork, HandlerRaises, RetryStalled, Steps, Shape, HandlerStates
  <2>. QED  BY <1>3, <1>8, <2>1
<1>9. ASSUME Reports(s, "COMPLETED"),
             \/ ApplyCompleted(s) /\ db'.steps = Turned(db.steps, s, "ACCEPTED")
             \/ ApplyBlocked(s) /\ db'.steps = Turned(db.steps, s, "BLOCKED")
      PROVE  Writers'
  <2>1. ~RetryStalled(s) /\ workers' \subseteq workers /\ Current(s) \notin workers'
    BY <1>9 DEF ApplyCompleted, ApplyBlocked, RetryStalled, WorkerStops, Writers
  <2>2. \A t \in Step : db'.steps[t].attempts = db.steps[t].attempts
    BY <1>9, TurnedCounts DEF StepStatuses
  <2>. QED  BY <1>2, <1>4, <1>9, <2>1, <2>2
<1>10. ASSUME Reports(s, "FORWARDED"), db'.steps = db.steps,
              PersistForwarded(s) \/ PersistEscalated(s)
       PROVE  Writers'
  <2>1. /\ ~RetryStalled(s) /\ workers' = workers
        /\ thread[s] \in {"forwarding", "escalating"}
    BY <1>10 DEF PersistForwarded, PersistEscalated, RetryStalled
  <2>2. Current(s) \notin workers'
    BY <1>1, <2>1, WorkersAreInFlight DEF ThreadDispatchStates
  <2>. QED  BY <1>2, <1>4, <1>10, <2>1, <2>2
<1>11. ASSUME Reports(s, "FAILED"), db'.steps = db.steps, FailDispatch(s) \/ StallDispatch(s)
       PROVE  Writers'
  <2>1. ~RetryStalled(s) /\ workers' \subseteq workers /\ Current(s) \notin workers'
    BY <1>11 DEF FailDispatch, StallDispatch, RetryStalled, WorkerStops
  <2>. QED  BY <1>2, <1>4, <1>11, <2>1
<1>12. ASSUME SameDispatches,
              \/ FailStep(s) /\ db'.steps = Turned(db.steps, s, "BLOCKED")
              \/ (AskReconciliation(s) \/ AskStallRecovery(s)) /\ db'.steps = db.steps
       PROVE  Writers'
  <2>1. /\ ~RetryStalled(s) /\ workers' = workers
        /\ thread'[s] \in {"asking", "raised"}
    BY <1>12 DEF FailStep, AskReconciliation, AskStallRecovery, RetryStalled, Steps, Shape
  <2>2. \A t \in Step : db'.steps[t].attempts = db.steps[t].attempts
    BY <1>12, TurnedCounts DEF StepStatuses
  <2>. QED  BY <1>3, <1>12, <2>1, <2>2
<1>. QED  BY <1>1, <1>5, <1>6, <1>7, <1>8, <1>9, <1>10, <1>11, <1>12 DEF WorkRows

LEMMA PrepareWriters ==
    ASSUME Typed, Flight, Control, Leasing, Writers, Prepare
    PROVE  Writers'
<1>. USE Executing DEF E
<1>0. PrepareRows
  BY PrepareByRows
<1>1. workers' = workers
  BY DEF Prepare, CommandBatch, CommandDispatch, Allocate, LeaseChild, SavePrepared, RefusePrepare
<1>2. ASSUME Still PROVE Writers'
  BY <1>1, <1>2, WritersSame DEF Still
<1>3. ASSUME SavePrepared, PreparedOnly(E.batch, E.group, E.kids), barrier' = barrier
      PROVE  Writers'
  <2>1. /\ E.pc = "allocating" /\ E.steps = {}
        /\ thread' = [s \in Step |-> IF s \in E.kids THEN "queued" ELSE thread[s]]
        /\ E.kids \in SUBSET Step
    BY <1>3, ProcessFields DEF SavePrepared, At
  <2>2. \A d \in Dispatch : ~InFlight(d)
    BY <2>1, NoFlight
  <2>3. ASSUME barrier, E.group = 0, NEW s \in E.kids, NEW t \in E.kids PROVE s = t
    <3>1. \A k \in E.kids : lease[Shared] = NextDispatch(k)
      BY <2>1, <2>3 DEF Leasing, RepositoryOf
    <3>2. NextDispatch(s) = NextDispatch(t)
      BY <3>1
    <3>. QED  BY <3>2 DEF NextDispatch
  <2>. QED  BY <1>1, <1>3, <2>1, <2>2, <2>3, WritersPrepare
<1>. QED  BY <1>0, <1>2, <1>3 DEF PrepareRows, Allocates

LEMMA WritersStep ==
    ASSUME Typed, Flight, Control, Leasing, Writers, [Next]_vars
    PROVE  Writers'
<1>. USE Executing DEF E, O
<1>1. ASSUME barrier' = barrier, workers' = workers, db'.dispatches = db.dispatches,
             db'.steps = db.steps, thread' = thread \/ Idle
      PROVE  Writers'
  BY <1>1, WritersSame
<1>2. ASSUME Provision PROVE Writers'
  <2>1. workers' = workers /\ ProvisionRows
    BY <1>2, ProvisionByRows
    DEF Provision, PlanGroup, LeaseGroup, Undone, FailGroup, ActivateGroup, AddTree, AddTreeFails,
        Undo
  <2>2. /\ thread' = thread /\ barrier' = barrier
        /\ db'.dispatches = db.dispatches /\ db'.steps = db.steps
    BY <2>1 DEF ProvisionRows, Plans, Still, TurnsGroup, GroupsOnly
  <2>. QED  BY <1>1, <2>1, <2>2
<1>3. ASSUME Join PROVE Writers'
  <2>1. workers' = workers /\ JoinRows
    BY <1>3, JoinByRows DEF Join, DispatchEnds, FinalizeBatch, AskBatchReconciliation
  <2>2. /\ thread' = thread \/ Idle
        /\ barrier' = barrier /\ db'.dispatches = db.dispatches /\ db'.steps = db.steps
    BY <2>1 DEF JoinRows, Joins, AsksBatch, RunOnly
  <2>. QED  BY <1>1, <2>1, <2>2
<1>4. ASSUME Turn PROVE Writers'
  <2>1. workers' = workers /\ TurnRows
    BY <1>4, TurnByRows DEF Turn, Start, Complete, Stop, Acknowledge
  <2>2. ASSUME NEW d \in Dispatch, Acknowledge(d), Acknowledges(d) PROVE Writers'
    <3>1. \A e \in Dispatch : ~InFlight(e)
      BY <2>2, NoFlight DEF Acknowledge, At
    <3>2. workers' = {}
      BY <2>1, <3>1, WorkersAreInFlight
    <3>3. db.dispatches \in [Dispatch -> DispatchRecord] /\ "ACKNOWLEDGED" \in DispatchStates
      BY DEF LooseRecord, DispatchStates
    <3>4. FlightShrinks
      BY <2>2, <3>3, TurnedDispatch DEF Acknowledges, FlightShrinks, InFlight, InFlightStates
    <3>. QED  BY <2>2, <3>2, <3>4, WritersStay DEF Acknowledges
  <2>3. ASSUME ~\E d \in Dispatch : Acknowledge(d) /\ Acknowledges(d) PROVE Writers'
    <3>1. /\ thread' = thread
          /\ barrier' = barrier /\ db'.dispatches = db.dispatches /\ db'.steps = db.steps
      BY <2>1, <2>3 DEF TurnRows, Still, RunOnly
    <3>. QED  BY <1>1, <2>1, <3>1
  <2>. QED  BY <2>2, <2>3
<1>5. ASSUME Integrate PROVE Writers'
  <2>1. workers' = workers /\ IntegrateRows
    BY <1>5, IntegrateByRows
    DEF Integrate, BeginIntegration, OpenIntegration, MergeChild, Promote, IntegrationFails,
        SavePromoted, FailIntegration, AskWorkspaceReconciliation
  <2>2. /\ thread' = thread /\ barrier' = barrier
        /\ db'.dispatches = db.dispatches /\ db'.steps = db.steps
    BY <2>1 DEF IntegrateRows, Still, TurnsGroup, GroupsOnly, SavesPromoted, AsksGroup, RunOnly
  <2>. QED  BY <1>1, <2>1, <2>2
<1>6. ASSUME NEW a \in Command, Cleanup(a) PROVE Writers'
  <2>1. workers' = workers /\ CleanupRows(a)
    BY <1>6, CleanupByRows
    DEF Cleanup, BeginCleanup, CheckCleanup, RemovePlace, RemovePlaceFails, EndRemoval, SaveCleaned,
        SaveUnclean
  <2>2. /\ thread' = thread /\ barrier' = barrier
        /\ db'.dispatches = db.dispatches /\ db'.steps = db.steps
    BY <2>1 DEF CleanupRows, Still, TurnsGroup, GroupsOnly, Removes
  <2>. QED  BY <1>1, <2>1, <2>2
<1>7. ASSUME Answer PROVE Writers'
  <2>1. workers' = workers /\ AnswerRows /\ thread' = thread /\ barrier' = barrier
    BY <1>7, AnswerByRows
    DEF Answer, AnswerStep, AnswerBatch, BeginAnswerWorkspace, AnswerWorkspace, AnswerHalt,
        MergeByHand, TidyByHand
  <2>2. /\ db'.dispatches = db.dispatches
        /\ \A s \in Step : db'.steps[s].attempts = db.steps[s].attempts
    BY <2>1 DEF AnswerRows, Readied, Still, RunOnly
  <2>. QED  BY <2>1, <2>2, WritersSame
<1>8. ASSUME Recover PROVE Writers'
  <2>1. workers' = workers /\ RecoverRows /\ thread' = thread /\ barrier' = barrier
    BY <1>8, RecoverByRows
    DEF Recover, RecoverStart, RecoverDispatched, RecoverAsk, RecoverJoined, RecoverRelease,
        RecoverCompleted, RecoverInterrupted, RecoverJoin
  <2>2. ASSUME NEW d \in Dispatch, Interrupted(d) PROVE Writers'
    <3>1. /\ db.dispatches \in [Dispatch -> DispatchRecord]
          /\ "FAILED" \in DispatchStates /\ "ABANDONED" \in DispatchStates
      BY DEF LooseRecord, DispatchStates
    <3>2. FlightShrinks
      BY <2>2, <3>1, TurnedDispatch DEF Interrupted, FlightShrinks, InFlight, InFlightStates
    <3>3. \A s \in Step : db'.steps[s].attempts = db.steps[s].attempts
      BY <2>2, TurnedCounts DEF Interrupted, StepStatuses
    <3>4. \A e \in workers' : db'.dispatches[e].state = "RUNNING"
      BY <2>1, <2>2, <3>1, TurnedDispatch, WorkersAreInFlight DEF Interrupted
    <3>5. \A s \in Step : thread'[s] = "committed" => Current(s)' \notin workers'
      BY <2>1, <3>3 DEF Writers, Current
    <3>. QED  BY <2>1, <3>2, <3>4, <3>5, WritersStay
  <2>3. ASSUME db'.dispatches = db.dispatches /\ db'.steps = db.steps PROVE Writers'
    BY <1>1, <2>1, <2>3
  <2>. QED  BY <2>1, <2>2, <2>3 DEF RecoverRows, Joins, AsksBatch, RunOnly
<1>9. ASSUME Disturb PROVE Writers'
  <2>1. DisturbRows /\ db' = db /\ barrier' = barrier
    BY <1>9, DisturbByRows
  <2>2. workers' \subseteq workers
    BY <1>9 DEF Disturb, Crash, Raises, Cancel, CancelOvertakes, WorkerExits, WorkerStops
  <2>3. FlightShrinks
    BY <2>1 DEF FlightShrinks, InFlight
  <2>4. \A s \in Step : thread'[s] = "committed" => Current(s)' \notin workers'
    BY <2>1, <2>2 DEF DisturbRows, Idle, Writers, Current
  <2>. QED  BY <2>1, <2>2, <2>3, <2>4, WritersStay, WorkersAreInFlight
<1>10. ASSUME UNCHANGED vars PROVE Writers'
  BY <1>1, <1>10 DEF vars
<1>. QED  BY <1>2, <1>3, <1>4, <1>5, <1>6, <1>7, <1>8, <1>9, <1>10, PrepareWriters, WorkWriters
          DEF Next

LEMMA WritersInit ==
    ASSUME Init
    PROVE  Writers
<1>1. \A d \in Dispatch : db.dispatches[d].state = "NONE"
  BY DEF Init, Undispatched
<1>. QED  BY <1>1 DEF Init, Writers, InState, InFlightStates

(* Two processes never have one working copy: in a barrier the second      *)
(* dispatch has a worktree, else it is of another repository.              *)
LEMMA WritersAreApart ==
    ASSUME Typed, Flight, Writers
    PROVE  OneWriterPerTree
<1>. SUFFICES ASSUME NEW d \in workers, NEW e \in workers, d # e
              PROVE  TreeOf(d) # TreeOf(e)
  BY DEF OneWriterPerTree
<1>1. /\ d \in Dispatch /\ e \in Dispatch /\ InFlight(d) /\ InFlight(e)
  BY WorkersAreInFlight
<1>2. d[1] # e[1] /\ d[1] \in Step /\ e[1] \in Step
  BY <1>1, FlightPairs DEF Flight
<1>3. barrier /\ db.dispatches[d].group = 0 => db.dispatches[e].group # 0
  BY <1>1 DEF Writers, InState, InFlight
<1>. QED  BY <1>2, <1>3 DEF TreeOf, RepositoryOf
-----------------------------------------------------------------------------
(* Layer 6: the steps of a group.                                          *)
LEMMA SteadyStays ==
    ASSUME Typed, Steady,
           \A s \in Step : db.steps[s].state = "ACCEPTED" => db'.steps[s].state = "ACCEPTED",
           \A g \in Group : /\ db'.groups[g].children = db.groups[g].children
                            /\ db'.groups[g].state = "INTEGRATING" => State(g) = "INTEGRATING",
           op'[Execute].pc \in ProvisionStates \cup {"allocating"} =>
                /\ E.pc \in ProvisionStates \cup {"allocating"} /\ op'[Execute].kids = E.kids
                /\ \A s \in Step : db'.steps[s].state = db.steps[s].state,
           op'[Execute].pc = "integrate" =>
                E.pc = "integrate" /\ op'[Execute].group = E.group /\ E.group \in Group
    PROVE  Steady'
<1>. USE Executing DEF E
<1>1. /\ E.kids \subseteq Step
      /\ \A g \in Group : db.groups[g].children \subseteq Step
  BY ProcessFields DEF LooseRecord, LooseGroup
<1>2. op'[Execute].pc \in ProvisionStates \cup {"allocating"} =>
        \A s \in op'[Execute].kids : db'.steps[s].state = "READY"
  BY <1>1 DEF Steady
<1>3. op'[Execute].pc = "integrate" =>
        \A s \in db'.groups[op'[Execute].group].children : db'.steps[s].state = "ACCEPTED"
  BY <1>1 DEF Steady
<1>4. \A g \in Group : db'.groups[g].state = "INTEGRATING" =>
        \A s \in db'.groups[g].children : db'.steps[s].state = "ACCEPTED"
  BY <1>1 DEF Steady, State
<1>. QED  BY <1>2, <1>3, <1>4 DEF Steady, State

(* A step of a command that neither prepares nor integrates. *)
LEMMA SteadyElsewhere ==
    ASSUME Typed, Steady, db'.steps = db.steps, NEW g, NEW target \in GroupStates,
           db'.groups = db.groups \/ (TurnsGroup(g, target) /\ target # "INTEGRATING"),
           \/ op'[Execute] = op[Execute]
           \/ /\ E.pc \in ProvisionStates
              /\ op'[Execute].pc \in ProvisionStates \cup {"allocating"}
              /\ op'[Execute].kids = E.kids
           \/ op'[Execute].pc \notin ProvisionStates \cup {"allocating", "integrate"}
    PROVE  Steady'
<1>. USE Executing DEF E
<1>1. \A h \in Group : /\ db'.groups[h].children = db.groups[h].children
                       /\ db'.groups[h].state = "INTEGRATING" => State(h) = "INTEGRATING"
  BY TurnedGroups DEF State
<1>2. op[Execute].pc = "integrate" => op[Execute].group \in Group
  BY GroupAt DEF IntegrationStates
<1>. QED  BY <1>1, <1>2, SteadyStays DEF ProvisionStates

LEMMA WorkSteady ==
    ASSUME Typed, Flight, Control, Steady, NEW s \in Step, Work(s)
    PROVE  Steady'
<1>. USE Executing DEF E
<1>1. op' = op /\ E.pc = "running" /\ db'.groups = db.groups
  BY WorkShrinks
<1>2. \A g \in Group : State(g) # "INTEGRATING"
  BY <1>1 DEF Control, Admission, MergeStates
<1>. QED  BY <1>1, <1>2 DEF Steady, State, ProvisionStates

LEMMA SteadyStep ==
    ASSUME Typed, Flight, Control, Steady, [Next]_vars
    PROVE  Steady'
<1>. USE Executing DEF E, O
<1>0. "NONE" \in GroupStates /\ "FAILED" \in GroupStates /\ "ACTIVE" \in GroupStates
      /\ "CLEANUP_PENDING" \in GroupStates /\ "CLEANED" \in GroupStates
  BY DEF GroupStates
<1>1. ASSUME db'.steps = db.steps, db'.groups = db.groups,
             \/ op'[Execute] = op[Execute]
             \/ op'[Execute].pc \notin ProvisionStates \cup {"allocating", "integrate"}
      PROVE  Steady'
  BY <1>0, <1>1, SteadyElsewhere
<1>2. ASSUME Provision PROVE Steady'
  <2>1. ProvisionRows
    BY <1>2, ProvisionByRows
  <2>2. ASSUME NEW g \in Group, NEW b, NEW kids \in SUBSET Step, Plans(g, b, kids) PROVE Steady'
    <3>1. \A s \in kids : db'.steps[s].state = "READY"
      BY <2>2 DEF Plans, PlanGroup, WorkspaceBatchValid, GroupsOnly
    <3>2. \A h \in Group : db'.groups[h].state = "INTEGRATING" =>
            State(h) = "INTEGRATING" /\ db'.groups[h] = db.groups[h]
      BY <2>2 DEF Plans, State
    <3>. QED  BY <2>2, <3>1, <3>2 DEF Steady, State, Plans, Begins, GroupsOnly
  <2>3. E.pc \in ProvisionStates \/ \E g, b, kids : PlanGroup(g, b, kids)
    BY <1>2 DEF Provision, LeaseGroup, Undone, FailGroup, ActivateGroup, AddTree, AddTreeFails,
                Undo, At, ProvisionStates
  <2>4. ASSUME FailGroup, TurnsGroup(E.group, "FAILED"), Stops(Execute) PROVE Steady'
    BY <1>0, <2>4, SteadyElsewhere, DownFields DEF Stops, TurnsGroup, GroupsOnly, ProvisionStates
  <2>5. ASSUME ActivateGroup, TurnsGroup(E.group, "ACTIVE"), Walks(Execute, "allocating")
        PROVE  Steady'
    BY <1>0, <2>5, SteadyElsewhere
    DEF ActivateGroup, At, Walks, Keeps, TurnsGroup, GroupsOnly, ProvisionStates
  <2>6. ASSUME LeaseGroup \/ Undone, Still, NEW pc \in ProvisionStates, Walks(Execute, pc)
        PROVE  Steady'
    <3>1. E.pc \in ProvisionStates
      BY <2>6 DEF LeaseGroup, Undone, At, ProvisionStates
    <3>. QED  BY <1>0, <2>6, <3>1, SteadyElsewhere DEF Walks, Keeps, Still
  <2>7. ASSUME NEW s, AddTree(s) \/ AddTreeFails(s) \/ Undo(s), Still, NEW pc \in ProvisionStates,
               NEW left, Goes(Execute, pc, left)
        PROVE  Steady'
    <3>1. E.pc \in ProvisionStates
      BY <2>7 DEF AddTree, AddTreeFails, Undo, At, ProvisionStates
    <3>. QED  BY <1>0, <2>7, <3>1, SteadyElsewhere DEF Goes, Keeps, Still
  <2>8. {"adding", "undoing", "unprovisioned"} \subseteq ProvisionStates
    BY DEF ProvisionStates
  <2>. QED  BY <2>1, <2>2, <2>4, <2>5, <2>6, <2>7, <2>8 DEF ProvisionRows
<1>3. ASSUME Prepare PROVE Steady'
  <2>1. PrepareRows
    BY <1>3, PrepareByRows
  <2>2. ASSUME NEW b, NEW g, NEW kids, Allocates(b, g, kids), db' = db,
               \A s \in kids : db.steps[s].state = "READY"
        PROVE  Steady'
    BY <2>2 DEF Steady, State, Allocates, Begins
  <2>3. ASSUME NEW s, LeaseChild(s), Still, Goes(Execute, "allocating", E.steps \ {s})
        PROVE  Steady'
    BY <2>3 DEF Steady, State, LeaseChild, At, Goes, Keeps, Still
  <2>4. ASSUME SavePrepared, PreparedOnly(E.batch, E.group, E.kids), Walks(Execute, "running")
        PROVE  Steady'
    <3>1. E.pc = "allocating"
      BY <2>4 DEF SavePrepared, At
    <3>2. \A g \in Group : State(g) # "INTEGRATING"
      BY <3>1 DEF Control, Admission, MergeStates
    <3>. QED  BY <2>4, <3>2 DEF Steady, State, ProvisionStates, PreparedOnly, Walks
  <2>5. ASSUME Still, Stops(Execute) \/ Forces PROVE Steady'
    BY <1>1, <2>5, DownFields DEF Still, Stops, Forces, ProvisionStates
  <2>6. ASSUME NEW b, NEW kids, CommandBatch(b, kids), Allocates(b, 0, kids) PROVE Steady'
    <3>1. (\A s \in kids : db.steps[s].state = "READY") /\ db' = db
      BY <2>6 DEF CommandBatch, BatchValid, Allocates, Still
    <3>. QED  BY <2>2, <2>6, <3>1
  <2>7. ASSUME NEW s, CommandDispatch(s), Allocates(0, GroupFor(s), {s}) PROVE Steady'
    <3>1. (\A t \in {s} : db.steps[t].state = "READY") /\ db' = db
      BY <2>7 DEF CommandDispatch, BatchValid, Allocates, Still
    <3>. QED  BY <2>2, <2>7, <3>1
  <2>. QED  BY <2>1, <2>3, <2>4, <2>5, <2>6, <2>7 DEF PrepareRows
<1>4. ASSUME Join PROVE Steady'
  <2>1. JoinRows
    BY <1>4, JoinByRows
  <2>2. /\ op'[Execute].pc \in {"down", "turn", "batch_asking"}
        /\ db'.groups = db.groups /\ db'.steps = db.steps
    BY <2>1, DownFields DEF JoinRows, Joins, AsksBatch, RunOnly, Stops, TurnsTo, Begins, Walks
  <2>. QED  BY <1>1, <2>2 DEF ProvisionStates
<1>5. ASSUME Turn PROVE Steady'
  <2>1. TurnRows
    BY <1>5, TurnByRows
  <2>2. ASSUME NEW d \in Dispatch, Acknowledges(d) PROVE Steady'
    <3>. DEFINE g == db.dispatches[d].group
    <3>1. op'[Execute].pc = "integrate" =>
            \A s \in db'.groups[g].children : db'.steps[s].state = "ACCEPTED"
      BY <2>2 DEF Acknowledges, MayIntegrate
    <3>2. op'[Execute].pc \notin ProvisionStates \cup {"allocating"} /\ op'[Execute].group = g
      BY <2>2 DEF Acknowledges, ProvisionStates
    <3>. QED  BY <2>2, <3>1, <3>2 DEF Steady, State, Acknowledges
  <2>3. ASSUME db'.groups = db.groups, db'.steps = db.steps, op'[Execute].pc \in {"turn", "down"}
        PROVE  Steady'
    BY <1>1, <2>3 DEF ProvisionStates
  <2>. QED  BY <2>1, <2>2, <2>3, DownFields DEF TurnRows, Still, RunOnly, Stops, TurnsTo, Begins
<1>6. ASSUME Integrate PROVE Steady'
  <2>1. IntegrateRows
    BY <1>6, IntegrateByRows
  <2>2. ASSUME BeginIntegration, TurnsGroup(E.group, "INTEGRATING"), Walks(Execute, "opening")
        PROVE  Steady'
    <3>1. E.pc = "integrate"
      BY <2>2 DEF BeginIntegration, At
    <3>2. \A h \in Group :
            /\ db'.groups[h].children = db.groups[h].children
            /\ db'.groups[h].state = IF h = E.group THEN "INTEGRATING" ELSE State(h)
      BY <2>2, TurnedGroups DEF GroupStates, State
    <3>3. \A h \in Group : db'.groups[h].state = "INTEGRATING" =>
            \A s \in db.groups[h].children : db.steps[s].state = "ACCEPTED"
      BY <3>1, <3>2 DEF Steady
    <3>. QED  BY <2>2, <3>2, <3>3
              DEF Steady, State, TurnsGroup, GroupsOnly, Walks, ProvisionStates
  <2>3. ASSUME TurnsGroup(E.group, "FAILED"), Walks(Execute, "asking") PROVE Steady'
    BY <1>0, <2>3, SteadyElsewhere DEF TurnsGroup, GroupsOnly, Walks, ProvisionStates
  <2>4. ASSUME SavesPromoted, Walks(Execute, "cleanup") PROVE Steady'
    BY <2>4, SteadyStays DEF SavesPromoted, GroupsOnly, Walks, State, ProvisionStates
  <2>5. ASSUME Still, NEW pc \in MergeStates, Walks(Execute, pc) PROVE Steady'
    BY <1>1, <2>5 DEF Still, Walks, MergeStates, ProvisionStates
  <2>6. ASSUME Still, NEW pc \in MergeStates, NEW left, Goes(Execute, pc, left) PROVE Steady'
    BY <1>1, <2>6 DEF Still, Goes, MergeStates, ProvisionStates
  <2>7. ASSUME AsksGroup, TurnsTo(E.dispatches) PROVE Steady'
    BY <1>1, <2>7 DEF AsksGroup, RunOnly, TurnsTo, Begins, ProvisionStates
  <2>. QED  BY <2>1, <2>2, <2>3, <2>4, <2>5, <2>6, <2>7 DEF IntegrateRows, MergeStates
<1>7. ASSUME NEW a \in Command, Cleanup(a) PROVE Steady'
  <2>1. CleanupRows(a)
    BY <1>7, CleanupByRows
  <2>2. /\ op[a].pc \in CleanupStates /\ Others(a) /\ db'.steps = db.steps
        /\ op'[a].pc \in CleanupStates \cup {"answering", "asking", "turn", "down"}
    BY <1>7, <2>1, DownFields
    DEF CleanupRows, Still, TurnsGroup, GroupsOnly, Removes, Walks, Goes, Stops, TurnsTo, Begins,
        CleanupStates, Cleanup, BeginCleanup, CheckCleanup, RemovePlace, RemovePlaceFails,
        EndRemoval, SaveCleaned, SaveUnclean, At
  <2>3. \/ op'[Execute] = op[Execute]
        \/ op'[Execute].pc \notin ProvisionStates \cup {"allocating", "integrate"}
    BY <2>2 DEF Others, Command, CleanupStates, ProvisionStates
  <2>4. ASSUME NEW target \in {"CLEANUP_PENDING", "CLEANED", "FAILED"}, TurnsGroup(op[a].group, target)
        PROVE  Steady'
    BY <1>0, <2>2, <2>3, <2>4, SteadyElsewhere
  <2>. QED  BY <1>1, <2>1, <2>2, <2>3, <2>4 DEF CleanupRows, Still, Removes
<1>8. ASSUME Answer PROVE Steady'
  <2>1. AnswerRows
    BY <1>8, AnswerByRows
  <2>2. op'[Execute] = op[Execute] /\ db'.groups = db.groups
    BY <2>1 DEF AnswerRows, Readied, Still, RunOnly, Begins, Stops, Others
  <2>3. ASSUME AnswerStep \/ AnswerBatch, Readied PROVE Steady'
    <3>1. E.pc \notin ProvisionStates \cup {"allocating", "integrate"}
      BY <2>3 DEF AnswerStep, AnswerBatch, Answering, Control, Duties, ProvisionStates
    <3>. QED  BY <2>2, <2>3, <3>1, SteadyStays DEF Readied, State
  <2>. QED  BY <1>1, <2>1, <2>2, <2>3 DEF AnswerRows, Still, RunOnly
<1>9. ASSUME Recover PROVE Steady'
  <2>1. RecoverRows
    BY <1>9, RecoverByRows
  <2>2. op'[Execute] = op[Execute] /\ E.pc = "down"
    <3>1. RecoverStart \/ O.pc \in RecoverStates
      BY <2>1 DEF RecoverRows, Recovers, RecoverStates
    <3>. QED  BY <2>1, <3>1, ApartIsDown
              DEF RecoverStart, At, RecoverRows, Recovers, Begins, Walks, Stops, Others
  <2>3. ASSUME NEW d \in Dispatch, InFlight(d), Interrupted(d) PROVE Steady'
    <3>1. d[1] \in Step /\ db.steps[d[1]].state = "EXECUTING"
      BY <2>3, FlightPairs DEF Flight
    <3>2. \A s \in Step : db.steps[s].state = "ACCEPTED" => db'.steps[s].state = "ACCEPTED"
      BY <2>3, <3>1, TurnedCounts DEF Interrupted, StepStatuses
    <3>. QED  BY <2>2, <2>3, <3>2, SteadyStays DEF Interrupted, State, ProvisionStates
  <2>. QED  BY <1>1, <2>1, <2>2, <2>3
            DEF RecoverRows, Joins, AsksBatch, RunOnly, InFlight
<1>10. ASSUME Disturb PROVE Steady'
  <2>1. DisturbRows /\ db' = db
    BY <1>10, DisturbByRows
  <2>2. op'[Execute] = op[Execute] \/ op'[Execute].pc \in {"down", "asking"}
    BY <2>1, DownFields DEF DisturbRows, Stops, Walks, Others, Command
  <2>. QED  BY <1>1, <2>1, <2>2 DEF ProvisionStates
<1>11. ASSUME UNCHANGED vars PROVE Steady'
  BY <1>1, <1>11 DEF vars
<1>. QED  BY <1>2, <1>3, <1>4, <1>5, <1>6, <1>7, <1>8, <1>9, <1>10, <1>11, WorkSteady DEF Next

LEMMA SteadyInit ==
    ASSUME Init
    PROVE  Steady
<1>1. E.pc = "down" /\ \A g \in Group : State(g) = "NONE"
  BY DownFields DEF Init, E, State, Command, Execute
<1>. QED  BY <1>1 DEF Steady, ProvisionStates
-----------------------------------------------------------------------------
(* Layer 7: the branches.                                                  *)
LEMMA WorkIsNotGone ==
    /\ \A X \in SUBSET Step : X # Gone
    /\ \A s \in Step : s \notin Gone
    /\ Integration \notin Step /\ Integration \in Place /\ Step \subseteq Place
BY BoundAssumption DEF Gone, Integration, Place

LEMMA GroupFields ==
    ASSUME Typed, NEW g \in Group
    PROVE  /\ db.groups[g].children \subseteq Step
           /\ State(g) \in GroupStates
BY Executing DEF LooseRecord, LooseGroup, State

LEMMA GroupsNeedBarrier ==
    ASSUME Typed, Control, NEW g \in Group, State(g) # "NONE"
    PROVE  barrier /\ \A s : RepositoryOf(s) = Shared
BY DEF Control, Admission, RepositoryOf

SourceGrows == \A r \in Repository : source[r] \subseteq source'[r]

LEMMA MergedStays ==
    ASSUME NEW g, Merged(g), source[Shared] \subseteq source'[Shared],
           \A p \in Place : heads'[g][p] = heads[g][p] \/ heads'[g][p] = Gone
    PROVE  Merged(g)'
BY DEF Merged, Exists

(* A thread with a commit works on a group that is held, or on none.       *)
LEMMA CommittedIsInFlight ==
    ASSUME Typed, Flight, Control, NEW s \in Step, thread[s] \in {"working", "committed"}
    PROVE  /\ Current(s) \in Dispatch /\ InFlight(Current(s)) /\ E.pc = "running"
           /\ db.steps[s].state = "EXECUTING"
           /\ LET g == db.dispatches[Current(s)].group
              IN  g # 0 => /\ g \in Group /\ State(g) = "ACTIVE"
                           /\ s \in db.groups[g].children
<1>. USE Executing
<1>1. db.steps[s].attempts > 0 /\ E.pc = "running"
  BY DEF Typed, Counted, ThreadsOK
<1>2. Current(s) \in Dispatch
  BY <1>1, CurrentIsDispatch DEF Typed
<1>3. InFlight(Current(s))
  BY DEF Flight, ThreadsAgree, ThreadDispatchStates, InFlight, InFlightStates
<1>4. Current(s)[1] = s
  BY DEF Current
<1>5. db.dispatches[Current(s)].group \in Group \cup {0}
  BY <1>2 DEF LooseRecord, DispatchRecord
<1>. QED  BY <1>1, <1>2, <1>3, <1>4, <1>5, FlightPairs
          DEF Control, FlightIsGrouped, InFlight, Flight

(* No branch moves, and what is merged stays merged. *)
GroupsKeep ==
    \A g \in Group :
        /\ db'.groups[g].base = db.groups[g].base
        /\ db'.groups[g].children = db.groups[g].children
        /\ State(g) = "NONE" <=> db'.groups[g].state = "NONE"
        /\ db'.groups[g].state = "PREPARED" => State(g) = "PREPARED"
        /\ db'.groups[g].state \in {"ACTIVE", "INTEGRATING"} => Held(g)

LEMMA GroupBranchesStay ==
    ASSUME Typed, GroupBranches, heads' = heads, SourceGrows, barrier' = barrier, GroupsKeep,
           \A s \in Step : db'.steps[s].state = "ACCEPTED" => db.steps[s].state = "ACCEPTED",
           \A s \in Step : thread'[s] = "committed" =>
                \/ Landed(s)'
                \/ /\ thread[s] = "committed" /\ Current(s)' = Current(s)
                   /\ db'.dispatches[Current(s)].group = db.dispatches[Current(s)].group
    PROVE  GroupBranches'
<1>1. /\ Shared \in Repository /\ source[Shared] \subseteq source'[Shared]
      /\ \A s \in Step : RepositoryOf(s) \in Repository /\ RepositoryOf(s)' = RepositoryOf(s)
      /\ \A s \in Step : source[RepositoryOf(s)] \subseteq source'[RepositoryOf(s)]
  BY DEF SourceGrows, Repository, RepositoryOf
<1>2. \A g \in Group : db'.groups[g].state # "NONE" => db'.groups[g].base \subseteq source'[Shared]
  BY <1>1 DEF GroupBranches, GroupsKeep
<1>3. \A g \in Group : db'.groups[g].state = "NONE" => \A p \in Place : heads'[g][p] = Gone
  BY DEF GroupBranches, GroupsKeep, Exists
<1>4. \A g \in Group : db'.groups[g].state = "PREPARED" => Merged(g)'
  BY <1>1, MergedStays DEF GroupBranches, GroupsKeep
<1>5. \A g \in Group : db'.groups[g].state \in {"ACTIVE", "INTEGRATING"} =>
        \A s \in db'.groups[g].children :
            heads'[g][s] # Gone /\ (db'.steps[s].state = "ACCEPTED" => s \in heads'[g][s])
  BY GroupFields DEF GroupBranches, GroupsKeep, Exists
<1>6. \A s \in Step : thread'[s] = "committed" => Landed(s)'
  BY <1>1 DEF GroupBranches, Landed
<1>7. AcceptedWorkSurvives'
  BY <1>1 DEF GroupBranches, AcceptedWorkSurvives
<1>. QED  BY <1>2, <1>3, <1>4, <1>5, <1>6, <1>7 DEF GroupBranches, Exists, Held, State

LEMMA HistoriesStay ==
    ASSUME Histories, heads' = heads, source' \in [Repository -> SUBSET Step],
           \A g \in Group : db'.groups[g].base \subseteq Step
    PROVE  Histories'
BY DEF Histories, Exists

(* One branch of a group moves. *)
HeadMoves(g, p, X) ==
    \A h \in Group : \A q \in Place :
        heads'[h][q] = IF h = g /\ q = p THEN X ELSE heads[h][q]

LEMMA BranchMoves ==
    ASSUME Typed, Flight, Control, Histories, GroupBranches,
           db' = db, barrier' = barrier, source' = source,
           NEW g \in Group, NEW p \in Place, NEW X, HeadMoves(g, p, X),
           X = Gone \/ X \subseteq Step,
           State(g) # "NONE",
           State(g) = "PREPARED" => X = Gone \/ X \subseteq source[Shared],
           Held(g) /\ p \in Step => heads[g][p] \subseteq X /\ X # Gone,
           ~Held(g) => Merged(g),
           \A s \in Step : thread'[s] = "committed" => thread[s] = "committed" \/ Landed(s)'
    PROVE  Histories' /\ GroupBranches'
<1>1. /\ \A h \in Group, q \in Place : h # g \/ q # p => heads'[h][q] = heads[h][q]
      /\ heads'[g][p] = X
  BY DEF HeadMoves
<1>2. Histories'
  BY <1>1 DEF Histories, Exists
<1>3. \A h \in Group : db'.groups[h].state = "NONE" => \A q \in Place : heads'[h][q] = Gone
  BY <1>1 DEF GroupBranches, Exists, State
<1>4. \A h \in Group : db'.groups[h].state = "PREPARED" =>
        \A q \in Place : heads'[h][q] # Gone => heads'[h][q] \subseteq source[Shared]
  BY <1>1 DEF GroupBranches, Exists, State, Merged
<1>5. \A h \in Group : Held(h) => \A s \in db.groups[h].children :
            heads'[h][s] # Gone /\ (db.steps[s].state = "ACCEPTED" => s \in heads'[h][s])
  <2>. SUFFICES ASSUME NEW h \in Group, Held(h), NEW s \in db.groups[h].children
                PROVE  heads'[h][s] # Gone /\ (db.steps[s].state = "ACCEPTED" => s \in heads'[h][s])
    OBVIOUS
  <2>1. s \in Step /\ s \in Place
    BY GroupFields, WorkIsNotGone
  <2>2. heads[h][s] # Gone /\ (db.steps[s].state = "ACCEPTED" => s \in heads[h][s])
    BY DEF GroupBranches, Exists
  <2>. QED  BY <1>1, <2>1, <2>2
<1>6. \A s \in Step : thread'[s] = "committed" => Landed(s)'
  <2>. SUFFICES ASSUME NEW s \in Step, thread[s] = "committed", Landed(s) PROVE Landed(s)'
    BY DEF GroupBranches
  <2>. DEFINE h == db.dispatches[Current(s)].group
  <2>1. Current(s)' = Current(s) /\ RepositoryOf(s)' = RepositoryOf(s)
    BY DEF Current, RepositoryOf
  <2>2. h # 0 => h \in Group /\ Held(h)
    BY CommittedIsInFlight DEF Held
  <2>3. CASE h = 0
    BY <2>1, <2>3 DEF Landed
  <2>4. CASE h # 0
    <3>1. s \in heads[h][s] /\ s \in Place
      BY <2>4, WorkIsNotGone DEF Landed
    <3>2. s \in heads'[h][s]
      BY <1>1, <2>2, <2>4, <3>1
    <3>. QED  BY <2>1, <2>4, <3>2 DEF Landed
  <2>. QED  BY <2>3, <2>4
<1>7. AcceptedWorkSurvives'
  <2>. SUFFICES ASSUME NEW s \in Step, db.steps[s].state = "ACCEPTED"
                PROVE  \/ s \in source[RepositoryOf(s)]
                       \/ \E h \in Group : s \in heads'[h][s]
    BY DEF AcceptedWorkSurvives, RepositoryOf
  <2>1. CASE s \in source[RepositoryOf(s)]
    BY <2>1
  <2>2. ASSUME NEW h \in Group, s \in heads[h][s]
        PROVE  s \in source[RepositoryOf(s)] \/ s \in heads'[h][s]
    <3>1. s \in Place /\ heads[h][s] # Gone
      BY <2>2, WorkIsNotGone
    <3>2. CASE h # g \/ s # p
      BY <1>1, <2>2, <3>1, <3>2
    <3>3. CASE h = g /\ s = p /\ Held(g)
      BY <1>1, <2>2, <3>3
    <3>4. CASE h = g /\ s = p /\ ~Held(g)
      <4>1. s \in source[Shared]
        BY <2>2, <3>1, <3>4 DEF Merged, Exists
      <4>. QED  BY <4>1, GroupsNeedBarrier
    <3>. QED  BY <3>2, <3>3, <3>4
  <2>. QED  BY <2>1, <2>2 DEF GroupBranches, AcceptedWorkSurvives
<1>8. \A h \in Group : db'.groups[h].state # "NONE" => db'.groups[h].base \subseteq source'[Shared]
  BY DEF GroupBranches, State
<1>. QED  BY <1>2, <1>3, <1>4, <1>5, <1>6, <1>7, <1>8
          DEF GroupBranches, Exists, Held, State, Merged

(* The commands: nobody begins to merge or to remove. *)
LEMMA CommandBranchesStay ==
    ASSUME Typed, CommandBranches,
           heads' = heads, source[Shared] \subseteq source'[Shared],
           op'[Execute].pc = "allocating" /\ op'[Execute].group # 0 /\ op'[Execute].batch # 0 =>
                /\ E.pc = "allocating" /\ op'[Execute].group = E.group
                /\ op'[Execute].batch = E.batch,
           op'[Execute].force => E.force /\ op'[Execute].group = E.group,
           \A a \in Command : op'[a].pc = "removing" =>
                op[a].pc = "removing" /\ op'[a].group = op[a].group,
           op'[Execute].pc \in {"leasing", "adding"} =>
                /\ E.pc \in {"leasing", "adding"} /\ op'[Execute].group = E.group
                /\ op'[Execute].kids = E.kids /\ op'[Execute].steps = E.steps,
           op'[Execute].pc = "merging" =>
                /\ op'[Execute] = op[Execute] /\ source'[Shared] = source[Shared]
                /\ db'.groups = db.groups
    PROVE  CommandBranches'
<1>. USE DEF E
<1>1. ASSUME NEW g, Merged(g) PROVE Merged(g)'
  BY <1>1, MergedStays
<1>2. \A g : Merged(g) =>
        \A p \in Place : heads'[g][p] # Gone => heads'[g][p] \subseteq source'[Shared]
  BY DEF Merged, Exists
<1>. QED  BY <1>2 DEF CommandBranches, Merged, Exists

LEMMA HeadsMove ==
    ASSUME Typed, NEW g, NEW p, NEW X, heads' = [heads EXCEPT ![g][p] = X]
    PROVE  HeadMoves(g, p, X)
BY DEF Typed, Shape, HeadMoves

(* The threads are idle while no batch runs. *)
LEMMA NobodyCommits ==
    ASSUME Typed, E.pc # "running"
    PROVE  \A s \in Step : thread[s] = "idle"
BY DEF Typed, Counted, ThreadsOK

LEMMA CommandBranchesNone ==
    ASSUME op'[Execute].pc \notin {"leasing", "adding", "allocating", "merging"},
           ~op'[Execute].force, \A a \in Command : op'[a].pc # "removing"
    PROVE  CommandBranches'
BY DEF CommandBranches, E

LEMMA ExecuteBusy ==
    ASSUME Typed, Flight, Control, Others(Execute),
           E.pc \notin {"down", "turn", "running", "batch_asking"}
    PROVE  /\ \A a \in Command : a # Execute => op'[a].pc = "down"
           /\ E.pc \notin CleanupStates => ~E.force
<1>1. O.pc = "down"
  BY ExecuteRuns
<1>. QED  BY <1>1 DEF Others, Command, Execute, Operator, O, Control, Stations

LEMMA ProvisionBranches ==
    ASSUME Typed, Flight, Control, Steady, Branches, Provision
    PROVE  Branches'
<1>. USE Executing DEF E, O
<1>0. Histories /\ GroupBranches /\ CommandBranches
  BY DEF Branches
<1>1. ProvisionRows
  BY ProvisionByRows
<1>2. ASSUME NEW g \in Group, NEW b \in Batch, NEW kids \in SUBSET Step, Plans(g, b, kids)
      PROVE  Branches'
  <2>1. /\ State(g) = "NONE" /\ heads' = heads /\ source' = source
        /\ E.pc = "turn" /\ db.run = "RUNNING"
    BY <1>2 DEF Plans, PlanGroup, NextGroup, State, AtCommand, At, git
  <2>2. Histories'
    <3>1. source[Shared] \subseteq Step
      BY <1>0 DEF Histories, Repository
    <3>2. \A h \in Group : db'.groups[h].base \subseteq Step
      BY <1>0, <1>2, <3>1 DEF Plans, Histories
    <3>. QED  BY <1>0, <2>1, <3>2, HistoriesStay DEF Histories
  <2>3. \A h \in Group : db'.groups[h].state # "NONE" => db'.groups[h].base \subseteq source'[Shared]
    BY <1>0, <1>2, <2>1 DEF Plans, GroupBranches, State
  <2>4. \A h \in Group : db'.groups[h].state = "NONE" => \A p \in Place : heads'[h][p] = Gone
    BY <1>0, <1>2, <2>1 DEF Plans, GroupBranches, State, Exists
  <2>5. \A h \in Group : db'.groups[h].state = "PREPARED" =>
            \A p \in Place : heads'[h][p] # Gone => heads'[h][p] \subseteq source'[Shared]
    BY <1>0, <1>2, <2>1 DEF Plans, GroupBranches, State, Exists, Merged
  <2>6. \A h \in Group : db'.groups[h].state \in {"ACTIVE", "INTEGRATING"} =>
            \A s \in db'.groups[h].children :
                heads'[h][s] # Gone /\ (db'.steps[s].state = "ACCEPTED" => s \in heads'[h][s])
    BY <1>0, <1>2, <2>1 DEF Plans, GroupsOnly, GroupBranches, State, Exists, Held
  <2>7. \A s \in Step : thread'[s] # "committed"
    BY <1>2, <2>1, NobodyCommits DEF Plans
  <2>8. AcceptedWorkSurvives'
    BY <1>0, <1>2, <2>1 DEF Plans, GroupsOnly, GroupBranches, AcceptedWorkSurvives, RepositoryOf
  <2>9. GroupBranches'
    BY <2>3, <2>4, <2>5, <2>6, <2>7, <2>8 DEF GroupBranches, State, Exists, Held, Merged
  <2>10. CommandBranches'
    <3>1. op'[Operator].pc = "down"
      BY <1>2, <2>1, ExecuteAlone DEF Plans, Begins, Others, Command
    <3>. QED  BY <1>2, <3>1 DEF CommandBranches, Plans, Begins, Command
  <2>. QED  BY <2>2, <2>9, <2>10 DEF Branches
<1>3. ASSUME LeaseGroup \/ Undone \/ FailGroup \/ ActivateGroup,
             heads' = heads, source' = source, thread' = thread, barrier' = barrier,
             db'.steps = db.steps, db'.dispatches = db.dispatches, GroupsKeep
      PROVE  Histories' /\ GroupBranches'
  <2>1. SourceGrows
    BY <1>3 DEF SourceGrows
  <2>2. Histories'
    BY <1>0, <1>3, HistoriesStay DEF Histories, GroupsKeep
  <2>3. \A s \in Step : thread'[s] # "committed"
    BY <1>3, NobodyCommits DEF LeaseGroup, Undone, FailGroup, ActivateGroup, At
  <2>. QED  BY <1>0, <1>3, <2>1, <2>2, <2>3, GroupBranchesStay
<1>4. ASSUME LeaseGroup \/ Undone, Still, NEW pc, Walks(Execute, pc),
             pc = "unprovisioned" \/ (E.pc = "leasing" /\ pc = "adding")
      PROVE  Branches'
  <2>1. heads' = heads /\ source' = source /\ E.pc \in {"leasing", "undoing"}
    BY <1>4 DEF LeaseGroup, Undone, git, At
  <2>2. Histories' /\ GroupBranches'
    BY <1>3, <1>4, <2>1 DEF Still, GroupsKeep, State, Held
  <2>3. (\A a \in Command : a # Execute => op'[a].pc = "down") /\ ~E.force
    BY <1>4, <2>1, ExecuteBusy DEF Walks, CleanupStates
  <2>4. CommandBranches'
    BY <1>0, <1>4, <2>1, <2>3, CommandBranchesStay DEF Walks, Keeps
  <2>. QED  BY <2>2, <2>4 DEF Branches
<1>5. ASSUME FailGroup, TurnsGroup(E.group, "FAILED"), Stops(Execute) PROVE Branches'
  <2>1. heads' = heads /\ source' = source /\ E.pc = "unprovisioned"
    BY <1>5 DEF FailGroup, git, At
  <2>2. State(E.group) = "PREPARED"
    BY <2>1 DEF Control, Stations, ProvisionStates
  <2>3. GroupsKeep
    BY <1>5, <2>2, TurnedGroups DEF GroupsKeep, State, Held, GroupStates
  <2>4. Histories' /\ GroupBranches'
    BY <1>3, <1>5, <2>1, <2>3 DEF TurnsGroup, GroupsOnly
  <2>5. \A a \in Command : op'[a].pc = "down"
    BY <1>5, <2>1, ExecuteBusy, DownFields DEF Stops
  <2>6. CommandBranches'
    BY <1>5, <2>5, CommandBranchesNone, DownFields DEF Stops
  <2>. QED  BY <2>4, <2>6 DEF Branches
<1>6. ASSUME ActivateGroup, TurnsGroup(E.group, "ACTIVE"), Walks(Execute, "allocating")
      PROVE  Branches'
  <2>. DEFINE g == E.group
  <2>1. heads' = heads /\ source' = source /\ E.pc = "adding" /\ E.steps = {}
    BY <1>6 DEF ActivateGroup, git, At
  <2>2. State(g) = "PREPARED" /\ db.groups[g].children = E.kids /\ g \in Group
    BY <2>1, GroupAt DEF Control, Stations, ProvisionStates
  <2>3. \A h \in Group :
            /\ db'.groups[h].state = IF h = g THEN "ACTIVE" ELSE State(h)
            /\ db'.groups[h].children = db.groups[h].children
            /\ db'.groups[h].base = db.groups[h].base
    BY <1>6, TurnedGroups DEF State, GroupStates
  <2>4. \A s \in E.kids : heads[g][s] # Gone /\ db.steps[s].state = "READY"
    BY <1>0, <2>1 DEF CommandBranches, Exists, Steady, ProvisionStates
  <2>5. Histories'
    BY <1>0, <2>1, <2>3, HistoriesStay DEF Histories
  <2>6. \A h \in Group : db'.groups[h].state \in {"ACTIVE", "INTEGRATING"} =>
            \A s \in db'.groups[h].children :
                heads'[h][s] # Gone /\ (db'.steps[s].state = "ACCEPTED" => s \in heads'[h][s])
    BY <1>0, <1>6, <2>1, <2>2, <2>3, <2>4
       DEF TurnsGroup, GroupsOnly, GroupBranches, State, Exists, Held
  <2>7. \A s \in Step : thread'[s] # "committed"
    BY <1>6, <2>1, NobodyCommits DEF TurnsGroup
  <2>8. AcceptedWorkSurvives'
    BY <1>0, <1>6, <2>1 DEF TurnsGroup, GroupsOnly, GroupBranches, AcceptedWorkSurvives, RepositoryOf
  <2>9. \A h \in Group : /\ db'.groups[h].state # "NONE" => db'.groups[h].base \subseteq source'[Shared]
                         /\ db'.groups[h].state = "NONE" => \A p \in Place : heads'[h][p] = Gone
    BY <1>0, <2>1, <2>2, <2>3 DEF GroupBranches, State, Exists
  <2>10. \A h \in Group : Merged(h) =>
            \A p \in Place : heads'[h][p] # Gone => heads'[h][p] \subseteq source'[Shared]
    BY <2>1 DEF Merged, Exists
  <2>11. GroupBranches'
    <3>1. \A h \in Group : db'.groups[h].state = "PREPARED" => Merged(h)
      BY <1>0, <2>3 DEF GroupBranches
    <3>. QED  BY <2>6, <2>7, <2>8, <2>9, <2>10, <3>1 DEF GroupBranches, State, Exists, Held, Merged
  <2>12. (\A a \in Command : a # Execute => op'[a].pc = "down") /\ ~E.force
    BY <1>6, <2>1, ExecuteBusy DEF Walks, CleanupStates
  <2>13. Merged(g) /\ op'[Execute].group = g
    BY <1>0, <1>6, <2>2 DEF GroupBranches, Walks, Keeps
  <2>14. CommandBranches'
    BY <1>6, <2>2, <2>10, <2>12, <2>13 DEF CommandBranches, Walks, Keeps, Merged, Exists
  <2>. QED  BY <2>5, <2>11, <2>14 DEF Branches
<1>7. ASSUME NEW s \in Step, AddTree(s) \/ AddTreeFails(s) \/ Undo(s), Still,
             NEW X, X = Gone \/ X = db.groups[E.group].base, HeadMoves(E.group, s, X)
      PROVE  Histories' /\ GroupBranches'
  <2>1. E.pc \in {"adding", "undoing"} /\ source' = source /\ s \in Place
    BY <1>7, WorkIsNotGone DEF AddTree, AddTreeFails, Undo, At, Added
  <2>2. State(E.group) = "PREPARED" /\ E.group \in Group
    BY <2>1, GroupAt DEF Control, Stations, ProvisionStates
  <2>3. db.groups[E.group].base \subseteq Step /\ db.groups[E.group].base \subseteq source[Shared]
    BY <1>0, <2>2 DEF Histories, GroupBranches
  <2>4. Merged(E.group) /\ ~Held(E.group)
    BY <1>0, <2>2 DEF GroupBranches, Held
  <2>. QED  BY <1>0, <1>7, <2>1, <2>2, <2>3, <2>4, BranchMoves DEF Still
<1>8. ASSUME NEW s \in Step, AddTree(s), Still, Goes(Execute, "adding", E.steps \ {s})
      PROVE  Branches'
  <2>. DEFINE X == db.groups[E.group].base
  <2>1. E.pc = "adding" /\ HeadMoves(E.group, s, X)
    BY <1>8, HeadsMove DEF AddTree, At, Added
  <2>2. Histories' /\ GroupBranches'
    BY <1>7, <1>8, <2>1
  <2>3. (\A a \in Command : a # Execute => op'[a].pc = "down") /\ ~E.force
    BY <1>8, <2>1, ExecuteBusy DEF Goes, CleanupStates
  <2>4. E.group \in Group /\ E.kids \subseteq Step
    BY <2>1, GroupAt, ProcessFields DEF ProvisionStates
  <2>5. X # Gone
    BY <1>0, <2>4, WorkIsNotGone DEF Histories
  <2>6. \A t \in E.kids \ (E.steps \ {s}) : heads'[E.group][t] # Gone
    BY <1>0, <2>1, <2>4, <2>5, WorkIsNotGone DEF HeadMoves, CommandBranches, Exists
  <2>7. CommandBranches'
    BY <1>8, <2>3, <2>6 DEF Goes, Keeps, CommandBranches, Exists
  <2>. QED  BY <2>2, <2>7 DEF Branches
<1>9. ASSUME NEW s \in Step, AddTreeFails(s) \/ Undo(s), Still,
             NEW left, Goes(Execute, "undoing", left)
      PROVE  Branches'
  <2>1. PICK X : (X = Gone \/ X = db.groups[E.group].base) /\ heads' = [heads EXCEPT ![E.group][s] = X]
    BY <1>9 DEF AddTreeFails, Undo
  <2>2. Histories' /\ GroupBranches'
    BY <1>7, <1>9, <2>1, HeadsMove
  <2>3. E.pc \in {"adding", "undoing"}
    BY <1>9 DEF AddTreeFails, Undo, At
  <2>4. (\A a \in Command : a # Execute => op'[a].pc = "down") /\ ~E.force
    BY <1>9, <2>3, ExecuteBusy DEF Goes, CleanupStates
  <2>5. CommandBranches'
    BY <1>9, <2>4, CommandBranchesNone DEF Goes, Keeps
  <2>. QED  BY <2>2, <2>5 DEF Branches
<1>10. ASSUME LeaseGroup, Still, Walks(Execute, "adding") \/ Walks(Execute, "unprovisioned")
       PROVE  Branches'
  BY <1>4, <1>10 DEF LeaseGroup, At
<1>11. ASSUME Undone, Still, Walks(Execute, "unprovisioned") PROVE Branches'
  BY <1>4, <1>11
<1>. QED  BY <1>1, <1>2, <1>5, <1>6, <1>8, <1>9, <1>10, <1>11 DEF ProvisionRows

LEMMA BranchesStill ==
    ASSUME Typed, Histories, GroupBranches,
           heads' = heads, source' = source, barrier' = barrier, GroupsKeep,
           \A s \in Step : db'.steps[s].state = "ACCEPTED" => db.steps[s].state = "ACCEPTED",
           \A s \in Step : thread'[s] = "committed" =>
                /\ thread[s] = "committed" /\ Current(s)' = Current(s)
                /\ db'.dispatches[Current(s)].group = db.dispatches[Current(s)].group
    PROVE  Histories' /\ GroupBranches'
<1>1. SourceGrows
  BY DEF SourceGrows
<1>2. Histories'
  BY HistoriesStay DEF Histories, GroupsKeep
<1>. QED  BY <1>1, <1>2, GroupBranchesStay

LEMMA SameGroupsKeep ==
    ASSUME db'.groups = db.groups
    PROVE  GroupsKeep
BY DEF GroupsKeep, State, Held

LEMMA PrepareBranches ==
    ASSUME Typed, Flight, Control, Branches, Prepare
    PROVE  Branches'
<1>. USE Executing DEF E, O
<1>0. Histories /\ GroupBranches /\ CommandBranches
  BY DEF Branches
<1>1. /\ heads' = heads /\ source' = source /\ E.pc \in {"turn", "allocating"}
      /\ E.pc = "turn" => db.run = "RUNNING"
  <2>1. ASSUME NEW b, NEW kids, CommandBatch(b, kids)
        PROVE  heads' = heads /\ source' = source /\ E.pc = "turn" /\ db.run = "RUNNING"
    BY <2>1 DEF CommandBatch, AtCommand, At, Allocate, git
  <2>2. ASSUME NEW s, CommandDispatch(s)
        PROVE  heads' = heads /\ source' = source /\ E.pc = "turn" /\ db.run = "RUNNING"
    BY <2>2 DEF CommandDispatch, AtCommand, At, Allocate, git
  <2>3. ASSUME NEW s, LeaseChild(s)
        PROVE  heads' = heads /\ source' = source /\ E.pc = "allocating"
    BY <2>3 DEF LeaseChild, At, git
  <2>4. ASSUME SavePrepared \/ RefusePrepare
        PROVE  heads' = heads /\ source' = source /\ E.pc = "allocating"
    BY <2>4 DEF SavePrepared, RefusePrepare, At, git
  <2>. QED  BY <2>1, <2>2, <2>3, <2>4 DEF Prepare
<1>2. PrepareRows
  BY PrepareByRows
<1>3. \A s \in Step : thread[s] = "idle"
  BY <1>1, NobodyCommits
<1>4. O.pc = "down"
  BY <1>1, ExecuteAlone
<1>5. ASSUME Still PROVE Histories' /\ GroupBranches'
  BY <1>0, <1>1, <1>3, <1>5, BranchesStill, SameGroupsKeep DEF Still
<1>6. ASSUME NEW b, NEW g, NEW kids, Allocates(b, g, kids), b = 0 \/ g = 0 PROVE Branches'
  <2>1. CommandBranches'
    BY <1>4, <1>6 DEF CommandBranches, Allocates, Begins, Others, Command
  <2>. QED  BY <1>5, <1>6, <2>1 DEF Branches, Allocates
<1>7. ASSUME NEW s, LeaseChild(s), Still, Goes(Execute, "allocating", E.steps \ {s})
      PROVE  Branches'
  <2>1. E.pc = "allocating"
    BY <1>7 DEF LeaseChild, At
  <2>2. CommandBranches'
    BY <1>0, <1>1, <1>4, <1>7, <2>1, CommandBranchesStay DEF Goes, Keeps, Others, Command
  <2>. QED  BY <1>5, <1>7, <2>2 DEF Branches
<1>8. ASSUME Still, Stops(Execute) PROVE Branches'
  <2>1. CommandBranches'
    BY <1>4, <1>8, CommandBranchesNone, DownFields DEF Stops, Others, Command
  <2>. QED  BY <1>5, <1>8, <2>1 DEF Branches
<1>9. ASSUME RefusePrepare, Still, Forces PROVE Branches'
  <2>1. E.pc = "allocating"
    BY <1>9 DEF RefusePrepare, At
  <2>2. Merged(E.group)
    BY <1>0, <1>9, <2>1 DEF CommandBranches, Forces
  <2>4. CommandBranches'
    BY <1>1, <1>4, <1>9, <2>2 DEF Forces, CommandBranches, Others, Command, Merged, Exists
  <2>. QED  BY <1>5, <1>9, <2>4 DEF Branches
<1>10. ASSUME SavePrepared, PreparedOnly(E.batch, E.group, E.kids), Walks(Execute, "running"),
              barrier' = barrier,
              \A s \in Step : thread'[s] = IF s \in E.kids THEN "queued" ELSE thread[s]
       PROVE  Branches'
  <2>1. Histories' /\ GroupBranches'
    BY <1>0, <1>1, <1>3, <1>10, BranchesStill, SameGroupsKeep DEF PreparedOnly
  <2>2. E.pc = "allocating"
    BY <1>10 DEF SavePrepared, At
  <2>3. CommandBranches'
    BY <1>4, <1>10, <2>2, ExecuteBusy, CommandBranchesNone DEF Walks, Keeps, CleanupStates, Command
  <2>. QED  BY <2>1, <2>3 DEF Branches
<1>. QED  BY <1>2, <1>6, <1>7, <1>8, <1>9, <1>10 DEF PrepareRows

(* Where the branches of a group stand while its threads work.             *)
LEMMA WorkSources ==
    ASSUME Shape, NEW s \in Step, Work(s), ~CommitWork(s)
    PROVE  heads' = heads /\ source' = source
BY DEF Work, Launch, RetryStalled, ApplyCompleted, ApplyBlocked, PersistForwarded,
       PersistEscalated, FailDispatch, FailStep, AskReconciliation, StallDispatch, StallStep,
       AskStallRecovery, HandlerRaises, git

LEMMA WorkCommands ==
    ASSUME Typed, Flight, Control, NEW s \in Step, Work(s)
    PROVE  CommandBranches'
<1>. USE Executing DEF E, O
<1>1. op' = op /\ E.pc = "running" /\ O.pc = "down"
  BY WorkShrinks
<1>2. ~E.force
  BY <1>1 DEF Control, Stations, CleanupStates
<1>. QED  BY <1>1, <1>2, CommandBranchesNone DEF Command

(* A commit is on a branch, and that of a group leads to its base.         *)
LEMMA CommitBranches ==
    ASSUME Typed, Flight, Control, Branches, NEW s \in Step, CommitWork(s),
           thread' \in [Step -> ThreadStates],
           \A t \in Step \ {s} : thread'[t] = thread[t], op' = op, db' = db, barrier' = barrier
    PROVE  Histories' /\ GroupBranches'
<1>. USE Executing DEF E, O
<1>. DEFINE d == Current(s)
            g == db.dispatches[d].group
<1>0. Histories /\ GroupBranches
  BY DEF Branches
<1>1. thread[s] = "working"
  BY DEF CommitWork
<1>2. RepositoryOf(s) \in Repository /\ \A t \in Step : RepositoryOf(t)' = RepositoryOf(t)
  BY DEF RepositoryOf, Repository
<1>3. \A t \in Step : Current(t)' = Current(t)
  BY DEF Current
<1>4. CASE g = 0
  <2>. DEFINE r == RepositoryOf(s)
  <2>1. source' = [source EXCEPT ![r] = @ \cup {s}] /\ heads' = heads
    BY <1>4 DEF CommitWork
  <2>2. /\ \A q \in Repository : source'[q] = IF q = r THEN source[q] \cup {s} ELSE source[q]
        /\ source' \in [Repository -> SUBSET Step]
    BY <1>0, <1>2, <2>1 DEF Histories
  <2>3. Landed(s)'
    BY <1>2, <1>3, <1>4, <2>2 DEF Landed
  <2>4. SourceGrows
    BY <2>2 DEF SourceGrows
  <2>5. Histories'
    BY <1>0, <2>1, <2>2, HistoriesStay DEF Histories
  <2>6. GroupsKeep
    BY SameGroupsKeep
  <2>. QED  BY <1>0, <1>3, <2>1, <2>3, <2>4, <2>5, <2>6, GroupBranchesStay
<1>5. CASE g # 0
  <2>. DEFINE X == heads[g][s] \cup {s}
  <2>1. g \in Group /\ State(g) = "ACTIVE" /\ s \in db.groups[g].children /\ s \in Place
    BY <1>1, <1>5, CommittedIsInFlight, WorkIsNotGone
  <2>2. heads' = [heads EXCEPT ![g][s] = X] /\ source' = source
    BY <1>5 DEF CommitWork
  <2>3. HeadMoves(g, s, X)
    BY <2>2, HeadsMove
  <2>4. X \subseteq Step /\ X # Gone
    BY <1>0, <2>1, WorkIsNotGone DEF GroupBranches, Held, Histories, Exists
  <2>5. Landed(s)'
    BY <1>3, <1>5, <2>1, <2>3 DEF Landed, HeadMoves
  <2>6. Held(g)
    BY <2>1 DEF Held
  <2>. HIDE DEF X
  <2>7. heads[g][s] \subseteq X
    BY DEF X
  <2>8. \A t \in Step : thread'[t] = "committed" => thread[t] = "committed" \/ Landed(t)'
    BY <2>5
  <2>. QED  BY <1>0, <2>1, <2>2, <2>3, <2>4, <2>6, <2>7, <2>8, BranchMoves
<1>. QED  BY <1>4, <1>5

(* The record and the other threads while one thread works.                *)
LEMMA WorkKeepsCommits ==
    ASSUME Typed, NEW s \in Step, Work(s), WorkRows(s)
    PROVE  /\ \A t \in Step \ {s} : thread'[t] = "committed" =>
                /\ thread[t] = "committed" /\ Current(t)' = Current(t)
                /\ db'.dispatches[Current(t)].group = db.dispatches[Current(t)].group
           /\ \A t \in Step : db'.steps[t].state = "ACCEPTED" =>
                db.steps[t].state = "ACCEPTED" \/ (t = s /\ ApplyCompleted(s))
           /\ ~CommitWork(s) => thread'[s] # "committed"
<1>. USE Executing
<1>. DEFINE Rest == \A t \in Step \ {s} : thread[t] = "committed" =>
                        /\ Current(t)' = Current(t)
                        /\ db'.dispatches[Current(t)].group = db.dispatches[Current(t)].group
            Fewer == \A t \in Step : db'.steps[t].state = "ACCEPTED" =>
                        db.steps[t].state = "ACCEPTED" \/ (t = s /\ ApplyCompleted(s))
<1>1. \A t \in Step \ {s} : thread'[t] = thread[t]
  BY WorkFrame
<1>2. \A t \in Step : thread[t] = "committed" => Current(t) \in Dispatch
  BY CurrentIsDispatch DEF Typed, Counted, ThreadsOK
<1>3. ~CommitWork(s) => thread'[s] # "committed"
  BY DEF Typed, Shape, Work, Launch, RetryStalled, ApplyCompleted, ApplyBlocked, PersistForwarded,
         PersistEscalated, FailDispatch, FailStep, AskReconciliation, StallDispatch, StallStep,
         AskStallRecovery, HandlerRaises, Steps
<1>4. ASSUME NEW target \in DispatchStates, Reports(s, target),
             \A t \in Step : db'.steps[t].attempts = db.steps[t].attempts
      PROVE  Rest
  BY <1>2, <1>4, ReportStates DEF Current
<1>5. ASSUME db'.dispatches = db.dispatches,
             \A t \in Step : db'.steps[t].attempts = db.steps[t].attempts
      PROVE  Rest
  BY <1>5 DEF Current
<1>6. ASSUME NEW target \in {"ACCEPTED", "BLOCKED"}, db'.steps = Turned(db.steps, s, target),
             target = "ACCEPTED" => ApplyCompleted(s)
      PROVE  Fewer /\ \A t \in Step : db'.steps[t].attempts = db.steps[t].attempts
  BY <1>6, TurnedCounts DEF StepStatuses
<1>7. ASSUME Launch(s) PROVE Rest /\ Fewer
  BY <1>4, <1>7, LaunchEffect DEF Typed, DispatchStates
<1>8. ASSUME RetryStalled(s) PROVE Rest /\ Fewer
  <2>1. ASSUME PreparedOnly(0, GroupFor(s), {s}) PROVE Rest
    BY <1>2, <2>1 DEF PreparedOnly, Current
  <2>2. ASSUME PreparedOnly(0, GroupFor(s), {s}) PROVE Fewer
    BY <2>2 DEF PreparedOnly
  <2>. QED  BY <1>5, <1>8, <2>1, <2>2, RetryEffect DEF Typed
<1>9. ASSUME StallStep(s) PROVE Rest /\ Fewer
  <2>1. \A t \in Step : /\ db'.steps[t].attempts = db.steps[t].attempts
                        /\ db'.steps[t].state = "ACCEPTED" => db.steps[t].state = "ACCEPTED"
    BY <1>9, StallEffect DEF Typed
  <2>2. db'.dispatches = db.dispatches
    BY <1>9, StallEffect DEF Typed, SameDispatches
  <2>. QED  BY <1>5, <2>1, <2>2
<1>10. ASSUME Reports(s, "COMPLETED"),
              \/ ApplyCompleted(s) /\ db'.steps = Turned(db.steps, s, "ACCEPTED")
              \/ db'.steps = Turned(db.steps, s, "BLOCKED")
       PROVE  Rest /\ Fewer
  BY <1>4, <1>6, <1>10 DEF DispatchStates
<1>11. ASSUME NEW target \in DispatchStates, Reports(s, target), db'.steps = db.steps
       PROVE  Rest /\ Fewer
  BY <1>4, <1>11
<1>12. ASSUME SameDispatches,
              db'.steps = db.steps \/ db'.steps = Turned(db.steps, s, "BLOCKED")
       PROVE  Rest /\ Fewer
  BY <1>5, <1>6, <1>12 DEF SameDispatches
<1>13. ASSUME db' = db PROVE Rest /\ Fewer
  BY <1>5, <1>13
<1>14. Rest /\ Fewer
  BY <1>7, <1>8, <1>9, <1>10, <1>11, <1>12, <1>13 DEF WorkRows, DispatchStates
<1>. QED  BY <1>1, <1>3, <1>14

(* The work that is accepted is on the branch where it is expected.        *)
LEMMA AcceptedLands ==
    ASSUME Typed, Flight, Control, Leasing, Branches, NEW s \in Step, ApplyCompleted(s), Work(s)
    PROVE  Histories' /\ GroupBranches'
<1>. USE Executing DEF E, O
<1>0. Histories /\ GroupBranches
  BY DEF Branches
<1>. DEFINE k == db.dispatches[Current(s)].group
<1>1. /\ heads' = heads /\ source' = source /\ barrier' = barrier
      /\ thread[s] = "committed" /\ ~CommitWork(s)
  BY WorkFrame DEF ApplyCompleted, CommitWork, git, Typed
<1>2. db'.groups = db.groups /\ WorkRows(s)
  BY WorkShrinks
<1>3. Landed(s)
  BY <1>0, <1>1 DEF GroupBranches
<1>4. /\ InFlight(Current(s)) /\ Current(s) \in Dispatch
      /\ k # 0 => k \in Group /\ Held(k)
  BY <1>1, CommittedIsInFlight DEF Held
<1>5. ASSUME NEW g \in Group, Held(g) PROVE s \in heads[g][s]
  <2>1. k # 0
    BY <1>4, <1>5 DEF Leasing, Engaged, InState, InFlight
  <2>2. g = k
    BY <1>4, <1>5, <2>1 DEF Control, Admission, Held, AdmittedGroupStates
  <2>. QED  BY <1>3, <2>1, <2>2 DEF Landed
<1>6. /\ \A t \in Step \ {s} : thread'[t] = "committed" =>
                /\ thread[t] = "committed" /\ Current(t)' = Current(t)
                /\ db'.dispatches[Current(t)].group = db.dispatches[Current(t)].group
      /\ \A t \in Step : db'.steps[t].state = "ACCEPTED" => db.steps[t].state = "ACCEPTED" \/ t = s
      /\ thread'[s] # "committed"
  BY <1>1, <1>2, WorkKeepsCommits
<1>7. \A t \in Step : RepositoryOf(t)' = RepositoryOf(t)
  BY <1>1 DEF RepositoryOf
<1>8. Histories'
  BY <1>0, <1>1, <1>2, HistoriesStay DEF Histories
<1>9. \A g \in Group : Held(g) => \A t \in db.groups[g].children :
            heads[g][t] # Gone /\ (db'.steps[t].state = "ACCEPTED" => t \in heads[g][t])
  BY <1>0, <1>5, <1>6, GroupFields DEF GroupBranches, Exists
<1>10. \A t \in Step : thread'[t] = "committed" => Landed(t)'
  BY <1>0, <1>1, <1>6, <1>7 DEF GroupBranches, Landed
<1>11. AcceptedWorkSurvives'
  <2>1. s \in source[RepositoryOf(s)] \/ \E g \in Group : s \in heads[g][s]
    BY <1>3, <1>4 DEF Landed
  <2>. QED  BY <1>0, <1>1, <1>6, <1>7, <2>1 DEF GroupBranches, AcceptedWorkSurvives
<1>12. /\ \A g \in Group : State(g) # "NONE" => db.groups[g].base \subseteq source[Shared]
       /\ \A g \in Group : State(g) = "NONE" => \A p \in Place : heads[g][p] = Gone
       /\ \A g \in Group : State(g) = "PREPARED" =>
            \A p \in Place : heads[g][p] # Gone => heads[g][p] \subseteq source[Shared]
  BY <1>0 DEF GroupBranches, Exists, Merged
<1>. QED  BY <1>1, <1>2, <1>8, <1>9, <1>10, <1>11, <1>12
          DEF GroupBranches, State, Exists, Held, Merged

LEMMA WorkBranches ==
    ASSUME Typed, Flight, Control, Leasing, Branches, NEW s \in Step, Work(s)
    PROVE  Branches'
<1>0. Histories /\ GroupBranches
  BY DEF Branches
<1>1. CommandBranches'
  BY WorkCommands
<1>2. /\ WorkRows(s) /\ db'.groups = db.groups /\ barrier' = barrier /\ op' = op
      /\ thread' \in [Step -> ThreadStates] /\ \A t \in Step \ {s} : thread'[t] = thread[t]
  BY WorkShrinks, WorkFrame DEF Typed
<1>3. CASE CommitWork(s)
  <2>1. db' = db
    BY <1>3 DEF CommitWork
  <2>. QED  BY <1>1, <1>2, <1>3, <2>1, CommitBranches DEF Branches
<1>4. CASE ApplyCompleted(s)
  BY <1>1, <1>4, AcceptedLands DEF Branches
<1>5. CASE ~CommitWork(s) /\ ~ApplyCompleted(s)
  <2>1. heads' = heads /\ source' = source
    BY <1>5, WorkSources DEF Typed
  <2>2. /\ \A t \in Step : db'.steps[t].state = "ACCEPTED" => db.steps[t].state = "ACCEPTED"
        /\ \A t \in Step : thread'[t] = "committed" =>
                /\ thread[t] = "committed" /\ Current(t)' = Current(t)
                /\ db'.dispatches[Current(t)].group = db.dispatches[Current(t)].group
    BY <1>2, <1>5, WorkKeepsCommits
  <2>. QED  BY <1>0, <1>1, <1>2, <2>1, <2>2, BranchesStill, SameGroupsKeep DEF Branches
<1>. QED  BY <1>3, <1>4, <1>5

LEMMA JoinBranches ==
    ASSUME Typed, Flight, Control, Branches, Join
    PROVE  Branches'
<1>. USE Executing DEF E, O
<1>0. Histories /\ GroupBranches
  BY DEF Branches
<1>1. heads' = heads /\ source' = source /\ E.pc \in {"running", "batch_asking"}
  BY DEF Join, DispatchEnds, FinalizeBatch, AskBatchReconciliation, At, git
<1>2. JoinRows
  BY JoinByRows
<1>3. O.pc = "down" /\ ~E.force
  BY <1>1, ExecuteAlone DEF Control, Stations, CleanupStates
<1>4. /\ db'.groups = db.groups /\ barrier' = barrier
      /\ db'.steps = db.steps /\ db'.dispatches = db.dispatches
      /\ Idle \/ thread' = thread
      /\ Stops(Execute) \/ (\E X : TurnsTo(X)) \/ Walks(Execute, "batch_asking")
  BY <1>2 DEF JoinRows, Joins, AsksBatch, RunOnly
<1>5. Histories' /\ GroupBranches'
  BY <1>0, <1>1, <1>4, BranchesStill, SameGroupsKeep DEF Idle, Current
<1>6. CommandBranches'
  BY <1>3, <1>4, CommandBranchesNone, DownFields
     DEF Stops, TurnsTo, Begins, Walks, Keeps, Others, Command
<1>. QED  BY <1>5, <1>6 DEF Branches

LEMMA TurnBranches ==
    ASSUME Typed, Flight, Control, Branches, Turn
    PROVE  Branches'
<1>. USE Executing DEF E, O
<1>0. Histories /\ GroupBranches /\ CommandBranches
  BY DEF Branches
<1>1. heads' = heads /\ source' = source /\ E.pc \in {"down", "turn"}
  <2>1. ASSUME NEW d, Acknowledge(d)
        PROVE  heads' = heads /\ source' = source /\ E.pc = "turn"
    BY <2>1 DEF Acknowledge, At, git
  <2>2. ASSUME Start \/ Complete \/ Stop
        PROVE  heads' = heads /\ source' = source /\ E.pc \in {"down", "turn"}
    BY <2>2 DEF Start, Complete, Stop, AtCommand, At, git
  <2>. QED  BY <2>1, <2>2 DEF Turn
<1>2. TurnRows
  BY TurnByRows
<1>3. ~E.force
  BY <1>1 DEF Control, Stations, CleanupStates
<1>4. /\ db'.groups = db.groups /\ db'.steps = db.steps /\ barrier' = barrier
      /\ thread' = thread /\ Others(Execute)
      /\ op'[Execute].pc \in {"down", "turn", "integrate"} /\ ~op'[Execute].force
  BY <1>2, <1>3, DownFields DEF TurnRows, Still, RunOnly, Acknowledges, Stops, TurnsTo, Begins
<1>5. \A s \in Step : thread'[s] # "committed"
  BY <1>1, <1>4, NobodyCommits
<1>6. Histories' /\ GroupBranches'
  BY <1>0, <1>1, <1>4, <1>5, BranchesStill, SameGroupsKeep
<1>7. CommandBranches'
  BY <1>0, <1>1, <1>4, CommandBranchesStay DEF Others, Command
<1>. QED  BY <1>6, <1>7 DEF Branches

LEMMA IntegrateBranches ==
    ASSUME Typed, Flight, Control, Branches, Integrate
    PROVE  Branches'
<1>. USE Executing DEF E, O
<1>. DEFINE g == E.group
<1>0. Histories /\ GroupBranches /\ CommandBranches
  BY DEF Branches
<1>1. E.pc \in IntegrationStates
  BY DEF Integrate, BeginIntegration, OpenIntegration, Promote, IntegrationFails, MergeChild,
         SavePromoted, FailIntegration, AskWorkspaceReconciliation, At, IntegrationStates
<1>2. IntegrateRows
  BY IntegrateByRows
<1>3. /\ E.group \in Group /\ ~E.force
      /\ E.pc \notin {"down", "turn", "running", "batch_asking"} \cup CleanupStates
  <2>1. E.pc \notin {"down", "turn", "running", "batch_asking"} \cup CleanupStates
    BY <1>1 DEF IntegrationStates, CleanupStates
  <2>. QED  BY <1>1, <2>1, GroupAt DEF Control, Stations
<1>4. Others(Execute) => op'[Operator].pc = "down"
  BY <1>3, ExecuteBusy DEF Command
<1>5. \A s \in Step : thread[s] = "idle"
  BY <1>3, NobodyCommits
<1>6. ASSUME Others(Execute), ~op'[Execute].force,
             op'[Execute].pc \in {"turn", "opening", "promoted", "unintegrated", "cleanup", "asking"}
      PROVE  CommandBranches'
  BY <1>4, <1>6, CommandBranchesNone DEF Command
<1>7. ASSUME NEW pc \in {"opening", "promoted", "unintegrated", "cleanup", "asking"}, Walks(Execute, pc)
      PROVE  CommandBranches'
  BY <1>3, <1>6, <1>7 DEF Walks, Keeps
<1>8. ASSUME heads' = heads, source' = source, barrier' = barrier, thread' = thread,
             GroupsKeep, db'.steps = db.steps
      PROVE  Histories' /\ GroupBranches'
  BY <1>0, <1>5, <1>8, BranchesStill
<1>9. ASSUME TurnsGroup(E.group, "INTEGRATING"), BeginIntegration, Walks(Execute, "opening")
      PROVE  Branches'
  <2>1. State(g) = "ACTIVE" /\ heads' = heads /\ source' = source
    BY <1>9 DEF BeginIntegration, At, Control, Stations, git
  <2>2. GroupsKeep
    BY <1>9, <2>1, TurnedGroups DEF GroupsKeep, State, Held, GroupStates
  <2>. QED  BY <1>7, <1>8, <1>9, <2>1, <2>2 DEF Branches, TurnsGroup, GroupsOnly
<1>10. ASSUME TurnsGroup(E.group, "FAILED"), FailIntegration, Walks(Execute, "asking")
       PROVE  Branches'
  <2>1. State(g) = "INTEGRATING" /\ heads' = heads /\ source' = source
    BY <1>10 DEF FailIntegration, At, Control, Stations, MergeStates, git
  <2>2. GroupsKeep
    BY <1>10, <2>1, TurnedGroups DEF GroupsKeep, State, Held, GroupStates
  <2>. QED  BY <1>7, <1>8, <1>10, <2>1, <2>2 DEF Branches, TurnsGroup, GroupsOnly
<1>11. ASSUME SavePromoted, SavesPromoted, Walks(Execute, "cleanup") PROVE Branches'
  <2>1. GroupsKeep
    BY <1>11 DEF SavesPromoted, GroupsKeep, State, Held
  <2>2. heads' = heads /\ source' = source
    BY <1>11 DEF SavePromoted, git
  <2>. QED  BY <1>7, <1>8, <1>11, <2>1, <2>2 DEF Branches, SavesPromoted, GroupsOnly
<1>12. ASSUME AskWorkspaceReconciliation, AsksGroup, TurnsTo(E.dispatches) PROVE Branches'
  <2>1. heads' = heads /\ source' = source
    BY <1>12 DEF AskWorkspaceReconciliation, git
  <2>2. CommandBranches'
    BY <1>6, <1>12 DEF TurnsTo, Begins
  <2>. QED  BY <1>8, <1>12, <2>1, <2>2, SameGroupsKeep DEF Branches, AsksGroup, RunOnly
<1>13. E.pc \in {"opening", "merging"} => Held(g) /\ State(g) = "INTEGRATING"
  BY DEF Control, Stations, MergeStates, Held
<1>14. ASSUME OpenIntegration, Still, Goes(Execute, "merging", db.groups[E.group].children)
       PROVE  Branches'
  <2>. DEFINE X == db.groups[g].base
  <2>1. /\ E.pc = "opening" /\ source' = source /\ source[Shared] = X
        /\ HeadMoves(g, Integration, X)
    BY <1>14, HeadsMove DEF OpenIntegration, Added, At
  <2>2. X \subseteq Step /\ X # Gone /\ Integration \in Place /\ Integration \notin Step
    BY <1>0, <1>3, WorkIsNotGone DEF Histories
  <2>3. Histories' /\ GroupBranches'
    BY <1>0, <1>3, <1>5, <1>13, <1>14, <2>1, <2>2, BranchMoves DEF Still
  <2>4. heads'[g][Integration] = X
    BY <1>3, <2>1, <2>2 DEF HeadMoves
  <2>5. op'[Operator].pc = "down" /\ ~op'[Execute].force
    BY <1>3, <1>4, <1>14 DEF Goes, Keeps
  <2>6. CommandBranches'
    BY <1>14, <2>1, <2>2, <2>4, <2>5 DEF CommandBranches, Goes, Keeps, Still, Exists, Command
  <2>. QED  BY <2>3, <2>6 DEF Branches
<1>15. ASSUME NEW s \in Step, MergeChild(s), Still, Goes(Execute, "merging", E.steps \ {s})
       PROVE  Branches'
  <2>. DEFINE X == heads[g][Integration] \cup heads[g][s]
  <2>1. /\ E.pc = "merging" /\ source' = source /\ heads[g][s] # Gone
        /\ HeadMoves(g, Integration, X)
    BY <1>15, HeadsMove DEF MergeChild, At
  <2>2. s \in Place /\ s # Integration /\ Integration \in Place /\ Integration \notin Step
    BY WorkIsNotGone
  <2>3. /\ heads[g][Integration] # Gone /\ source[Shared] \subseteq heads[g][Integration]
        /\ \A t \in db.groups[g].children \ E.steps : heads[g][t] \subseteq heads[g][Integration]
    BY <1>0, <2>1 DEF CommandBranches, Exists
  <2>4. heads[g][Integration] \subseteq Step /\ heads[g][s] \subseteq Step
    BY <1>0, <1>3, <2>1, <2>2, <2>3 DEF Histories, Exists
  <2>5. X \subseteq Step /\ X # Gone /\ source[Shared] \subseteq X
    BY <2>3, <2>4, WorkIsNotGone
  <2>6. \A t \in db.groups[g].children \ (E.steps \ {s}) : heads[g][t] \subseteq X
    BY <2>3
  <2>. HIDE DEF X
  <2>7. Histories' /\ GroupBranches'
    BY <1>0, <1>3, <1>5, <1>13, <1>15, <2>1, <2>2, <2>5, BranchMoves DEF Still
  <2>8. /\ heads'[g][Integration] = X
        /\ \A t \in Step : heads'[g][t] = heads[g][t]
    BY <1>3, <2>1, <2>2, WorkIsNotGone DEF HeadMoves
  <2>9. op'[Operator].pc = "down" /\ ~op'[Execute].force
    BY <1>3, <1>4, <1>15 DEF Goes, Keeps
  <2>10. db.groups[g].children \subseteq Step
    BY <1>3, GroupFields
  <2>11. CommandBranches'
    BY <1>15, <2>1, <2>5, <2>6, <2>8, <2>9, <2>10
       DEF CommandBranches, Goes, Keeps, Still, Exists, Command
  <2>. QED  BY <2>7, <2>11 DEF Branches
<1>16. ASSUME heads' = heads, Still,
              \/ source' = source
              \/ E.pc = "merging" /\ source' = [source EXCEPT ![Shared] = heads[g][Integration]]
       PROVE  Histories' /\ GroupBranches'
  <2>1. CASE source' = source
    BY <1>8, <1>16, <2>1, SameGroupsKeep DEF Still
  <2>2. CASE /\ E.pc = "merging"
             /\ source' = [source EXCEPT ![Shared] = heads[g][Integration]]
    <3>1. heads[g][Integration] # Gone /\ source[Shared] \subseteq heads[g][Integration]
      BY <1>0, <2>2 DEF CommandBranches, Exists
    <3>2. heads[g][Integration] \subseteq Step /\ Shared \in Repository
      BY <1>0, <1>3, <3>1, WorkIsNotGone DEF Histories, Exists, Repository
    <3>3. SourceGrows /\ source' \in [Repository -> SUBSET Step]
      BY <1>0, <2>2, <3>1, <3>2 DEF Histories, SourceGrows
    <3>4. Histories'
      BY <1>0, <1>16, <3>3, HistoriesStay DEF Histories, Still
    <3>5. GroupsKeep
      BY <1>16, SameGroupsKeep DEF Still
    <3>. QED  BY <1>0, <1>5, <1>16, <3>3, <3>4, <3>5, GroupBranchesStay DEF Still
  <2>. QED  BY <1>16, <2>1, <2>2
<1>17. ASSUME Promote, Still, Walks(Execute, "promoted") PROVE Branches'
  <2>1. /\ heads' = heads /\ E.pc = "merging"
        /\ source' = [source EXCEPT ![Shared] = heads[g][Integration]]
    BY <1>17 DEF Promote, At
  <2>. QED  BY <1>7, <1>16, <1>17, <2>1 DEF Branches
<1>18. ASSUME IntegrationFails, Still, Walks(Execute, "unintegrated") PROVE Branches'
  <2>1. /\ heads' = heads
        /\ \/ source' = source
           \/ E.pc = "merging" /\ source' = [source EXCEPT ![Shared] = heads[g][Integration]]
    BY <1>18 DEF IntegrationFails, At
  <2>. QED  BY <1>7, <1>16, <1>18, <2>1 DEF Branches
<1>. QED  BY <1>2, <1>9, <1>10, <1>11, <1>12, <1>14, <1>15, <1>17, <1>18 DEF IntegrateRows

(* Whoever cleans is alone with the groups. *)
LEMMA CleansAlone ==
    ASSUME Typed, Flight, Control, NEW a \in Command, op[a].pc \in CleanupStates
    PROVE  /\ op[a].group \in Group
           /\ a = Operator => E.pc \in {"down", "turn"} /\ ~O.force
           /\ a = Execute => O.pc = "down"
           /\ a # Execute => ~E.force
           /\ \A b \in Command : b # a => op[b].pc # "removing"
           /\ \A s \in Step : thread[s] = "idle"
           /\ State(op[a].group) # "NONE"
           /\ op[a].pc \in RemovalStates => State(op[a].group) = "CLEANUP_PENDING"
<1>. USE Executing DEF E, O
<1>1. op[a].group \in Group
  BY GroupAt
<1>2. op[a].pc \in RemovalStates => State(op[a].group) = "CLEANUP_PENDING"
  BY DEF Control, Stations
<1>3. CASE a = Operator
  <2>1. E.pc \in {"down", "turn"} /\ ~O.force /\ State(O.group) # "NONE"
    BY <1>3, OperatorAnswers
  <2>2. ~E.force
    BY <2>1 DEF Control, Stations, CleanupStates
  <2>3. \A s \in Step : thread[s] = "idle"
    BY <2>1, NobodyCommits
  <2>. QED  BY <1>1, <1>2, <1>3, <2>1, <2>2, <2>3 DEF Command, Execute, Operator
<1>4. CASE a = Execute
  <2>1. E.pc \notin {"down", "turn", "running", "batch_asking"}
    BY <1>4 DEF CleanupStates
  <2>2. O.pc = "down"
    BY <2>1, ExecuteRuns
  <2>3. \A s \in Step : thread[s] = "idle"
    BY <2>1, NobodyCommits
  <2>4. E.pc \in RemovalStates \/ E.pc = "cleanup"
    BY <1>4 DEF CleanupStates, RemovalStates
  <2>5. State(E.group) # "NONE"
    BY <1>2, <1>4, <2>4 DEF Control, Stations
  <2>. QED  BY <1>1, <1>2, <1>4, <2>2, <2>3, <2>5 DEF Command, Execute, Operator
<1>. QED  BY <1>3, <1>4 DEF Command

LEMMA CleanupBranches ==
    ASSUME Typed, Flight, Control, Branches, NEW a \in Command, Cleanup(a)
    PROVE  Branches'
<1>. USE Executing DEF E, O
<1>. DEFINE g == op[a].group
<1>0. Histories /\ GroupBranches /\ CommandBranches
  BY DEF Branches
<1>1. CleanupRows(a)
  BY CleanupByRows
<1>2. op[a].pc \in CleanupStates
  BY DEF Cleanup, BeginCleanup, CheckCleanup, RemovePlace, RemovePlaceFails, EndRemoval,
         SaveCleaned, SaveUnclean, At, CleanupStates
<1>3. /\ g \in Group /\ State(g) # "NONE"
      /\ a = Operator => E.pc \in {"down", "turn"} /\ ~O.force
      /\ a # Execute => ~E.force
      /\ \A b \in Command : b # a => op[b].pc # "removing"
      /\ \A s \in Step : thread[s] = "idle"
  BY <1>2, CleansAlone
<1>4. ASSUME heads' = heads, source' = source, barrier' = barrier, thread' = thread,
             GroupsKeep, db'.steps = db.steps
      PROVE  Histories' /\ GroupBranches'
  BY <1>0, <1>3, <1>4, BranchesStill
<1>5. ASSUME heads' = heads, source' = source, Still PROVE Histories' /\ GroupBranches'
  BY <1>4, <1>5, SameGroupsKeep DEF Still
<1>6. ASSUME heads' = heads, source' = source,
             NEW target \in {"CLEANUP_PENDING", "CLEANED", "FAILED"}, TurnsGroup(g, target)
      PROVE  Histories' /\ GroupBranches'
  <2>1. GroupsKeep
    BY <1>3, <1>6, TurnedGroups DEF GroupsKeep, State, Held, GroupStates
  <2>. QED  BY <1>4, <1>6, <2>1 DEF TurnsGroup, GroupsOnly
<1>7. ASSUME heads' = heads, source' = source, Others(a),
             op'[a].pc \in {"checking", "removing", "removed", "unclean", "answering", "asking",
                            "turn", "down"},
             op'[a].pc = "removing" => op[a].pc = "removing" /\ op'[a].group = op[a].group,
             op'[a].force => op[a].force /\ op'[a].group = op[a].group
      PROVE  CommandBranches'
  BY <1>0, <1>3, <1>7, CommandBranchesStay DEF Others, Command
<1>8. ASSUME BeginCleanup(a), NEW pc \in {"checking", "answering"}, Walks(a, pc),
             Still \/ TurnsGroup(g, "CLEANUP_PENDING")
      PROVE  Branches'
  <2>1. heads' = heads /\ source' = source
    BY <1>8 DEF BeginCleanup, git
  <2>. QED  BY <1>5, <1>6, <1>7, <1>8, <2>1 DEF Walks, Keeps, Branches
<1>9. ASSUME CheckCleanup(a), Still, Goes(a, "unclean", Owned(g)) PROVE Branches'
  <2>1. heads' = heads /\ source' = source
    BY <1>9 DEF CheckCleanup, git
  <2>. QED  BY <1>5, <1>7, <1>9, <2>1 DEF Goes, Keeps, Branches
<1>10. ASSUME CheckCleanup(a), Still, Goes(a, "removing", Owned(g)), op[a].force \/ Removable(g)
       PROVE  Branches'
  <2>1. heads' = heads /\ source' = source
    BY <1>10 DEF CheckCleanup, git
  <2>2. Merged(g)
    BY <1>0, <1>3, <1>10 DEF CommandBranches, Removable, Merged, Exists, Command
  <2>3. \A h : Merged(h) => \A p \in Place : heads'[h][p] # Gone => heads'[h][p] \subseteq source'[Shared]
    BY <2>1 DEF Merged, Exists
  <2>4. op'[Execute].pc \notin {"leasing", "adding", "allocating", "merging"}
    BY <1>3, <1>10 DEF Goes, Others, Command
  <2>5. op'[Execute].force => Merged(op'[Execute].group)
    BY <1>0, <1>3, <1>10 DEF CommandBranches, Goes, Keeps, Others, Command
  <2>6. \A b \in Command : op'[b].pc = "removing" => Merged(op'[b].group)
    BY <1>3, <1>10, <2>2 DEF Goes, Keeps, Others
  <2>7. CommandBranches'
    BY <2>3, <2>4, <2>5, <2>6 DEF CommandBranches, Merged, Exists
  <2>. QED  BY <1>5, <1>10, <2>1, <2>7 DEF Branches
<1>11. ASSUME NEW p \in Place, NEW missing, RemovePlace(a, p), Removes(a, p, missing)
       PROVE  Branches'
  <2>1. source' = source /\ HeadMoves(g, p, Gone) /\ op[a].pc = "removing"
    BY <1>11, HeadsMove DEF RemovePlace, At
  <2>2. State(g) = "CLEANUP_PENDING" /\ ~Held(g)
    BY <1>2, <2>1, CleansAlone DEF RemovalStates, Held
  <2>3. Merged(g)
    BY <1>0, <2>1 DEF CommandBranches
  <2>4. Histories' /\ GroupBranches'
    BY <1>0, <1>3, <1>11, <2>1, <2>2, <2>3, BranchMoves DEF Removes, Still
  <2>5. \A h \in Group : Merged(h) =>
            \A q \in Place : heads'[h][q] # Gone => heads'[h][q] \subseteq source'[Shared]
    BY <2>1 DEF Merged, Exists, HeadMoves
  <2>6. op'[Execute].pc \notin {"leasing", "adding", "allocating", "merging"}
    BY <1>3, <1>11, <2>1 DEF Removes, Goes, Others, Command
  <2>7. op'[Execute].force => Merged(op'[Execute].group) /\ op'[Execute].group \in Group
    BY <1>3, <1>11, <2>3 DEF Removes, Goes, Keeps, Others, Command
  <2>8. \A b \in Command : op'[b].pc = "removing" => Merged(op'[b].group) /\ op'[b].group \in Group
    BY <1>3, <1>11, <2>3 DEF Removes, Goes, Keeps, Others
  <2>9. CommandBranches'
    BY <2>5, <2>6, <2>7, <2>8 DEF CommandBranches, Merged, Exists
  <2>. QED  BY <2>4, <2>9 DEF Branches
<1>12. ASSUME NEW p \in Place, RemovePlaceFails(a, p), Removes(a, p, TRUE) PROVE Branches'
  <2>1. source' = source /\ heads' = heads /\ op[a].pc = "removing"
    BY <1>12 DEF RemovePlaceFails, At
  <2>. QED  BY <1>5, <1>7, <1>12, <2>1 DEF Removes, Goes, Keeps, Branches
<1>13. ASSUME EndRemoval(a), Still, NEW pc \in {"unclean", "removed"}, Walks(a, pc) PROVE Branches'
  <2>1. heads' = heads /\ source' = source
    BY <1>13 DEF EndRemoval, git
  <2>. QED  BY <1>5, <1>7, <1>13, <2>1 DEF Walks, Keeps, Branches
<1>14. ASSUME SaveCleaned(a) \/ SaveUnclean(a), NEW target \in {"CLEANED", "FAILED"},
              TurnsGroup(g, target),
              \/ Stops(a) \/ (a = Execute /\ TurnsTo(op[a].dispatches))
              \/ Walks(a, "answering") \/ Walks(a, "asking")
       PROVE  Branches'
  <2>1. heads' = heads /\ source' = source
    BY <1>14 DEF SaveCleaned, SaveUnclean, git
  <2>2. CommandBranches'
    BY <1>7, <1>14, <2>1, DownFields DEF Walks, Keeps, Stops, TurnsTo, Begins
  <2>. QED  BY <1>6, <1>14, <2>1, <2>2 DEF Branches
<1>. QED  BY <1>1, <1>8, <1>9, <1>10, <1>11, <1>12, <1>13, <1>14 DEF CleanupRows

LEMMA AnswerBranches ==
    ASSUME Typed, Flight, Control, Branches, Answer
    PROVE  Branches'
<1>. USE Executing DEF E, O
<1>0. Histories /\ GroupBranches /\ CommandBranches
  BY DEF Branches
<1>1. AnswerRows /\ thread' = thread /\ barrier' = barrier
  BY AnswerByRows
<1>2. op'[Execute] = op[Execute] /\ db'.groups = db.groups
  BY <1>1 DEF AnswerRows, Readied, Still, RunOnly, Begins, Stops, Others, Command
<1>3. op'[Operator] = op[Operator] \/ op'[Operator].pc \in {"cleanup", "down"}
  BY <1>1, DownFields DEF AnswerRows, Begins, Stops
<1>4. ASSUME heads' = heads, source[Shared] \subseteq source'[Shared],
             E.pc = "merging" => source'[Shared] = source[Shared]
      PROVE  CommandBranches'
  BY <1>0, <1>2, <1>3, <1>4, CommandBranchesStay DEF Command
<1>5. /\ \A s \in Step : db'.steps[s].attempts = db.steps[s].attempts
      /\ \A s \in Step : db'.steps[s].state = "ACCEPTED" => db.steps[s].state = "ACCEPTED"
      /\ db'.dispatches = db.dispatches
  BY <1>1 DEF AnswerRows, Readied, Still, RunOnly
<1>6. ASSUME heads' = heads, source' = source PROVE Branches'
  BY <1>0, <1>1, <1>2, <1>4, <1>5, <1>6, BranchesStill, SameGroupsKeep DEF Branches, Current
<1>7. ASSUME NEW g \in Group, NEW p \in Place, MergeByHand(g, p) PROVE Branches'
  <2>1. /\ heads' = heads /\ db.run = "WAITING_OPERATOR" /\ heads[g][p] # Gone
        /\ source' = [source EXCEPT ![Shared] = @ \cup heads[g][p]]
    BY <1>7 DEF MergeByHand
  <2>2. heads[g][p] \subseteq Step /\ Shared \in Repository
    BY <1>0, <2>1 DEF Histories, Exists, Repository
  <2>3. /\ source' \in [Repository -> SUBSET Step] /\ SourceGrows
        /\ source[Shared] \subseteq source'[Shared]
    BY <1>0, <2>1, <2>2 DEF Histories, SourceGrows
  <2>4. E.pc # "merging"
    BY <2>1 DEF Control, Duties
  <2>5. Histories'
    BY <1>0, <1>2, <2>1, <2>3, HistoriesStay DEF Histories
  <2>6. GroupBranches'
    BY <1>0, <1>1, <1>2, <1>5, <2>1, <2>3, GroupBranchesStay, SameGroupsKeep DEF Current
  <2>. QED  BY <1>4, <2>1, <2>3, <2>4, <2>5, <2>6 DEF Branches
<1>8. (heads' = heads /\ source' = source) \/ \E g \in Group, p \in Place : MergeByHand(g, p)
  BY DEF Answer, AnswerStep, AnswerBatch, BeginAnswerWorkspace, AnswerWorkspace, AnswerHalt,
         TidyByHand, git
<1>. QED  BY <1>6, <1>7, <1>8

LEMMA RecoverBranches ==
    ASSUME Typed, Flight, Control, Branches, Recover
    PROVE  Branches'
<1>. USE Executing DEF E, O
<1>0. Histories /\ GroupBranches /\ CommandBranches
  BY DEF Branches
<1>1. RecoverRows /\ thread' = thread /\ barrier' = barrier
  BY RecoverByRows
<1>2. E.pc = "down"
  <2>1. RecoverStart \/ O.pc \in RecoverStates
    BY <1>1 DEF RecoverRows, Recovers, RecoverStates
  <2>. QED  BY <2>1, ApartIsDown DEF RecoverStart, At
<1>3. heads' = heads /\ source' = source
  <2>1. ASSUME NEW d, RecoverCompleted(d) \/ RecoverInterrupted(d)
        PROVE  heads' = heads /\ source' = source
    BY <2>1 DEF RecoverCompleted, RecoverInterrupted, git
  <2>2. ASSUME NEW b, RecoverJoin(b) PROVE heads' = heads /\ source' = source
    BY <2>2 DEF RecoverJoin, git
  <2>3. ASSUME RecoverStart \/ RecoverDispatched \/ RecoverAsk \/ RecoverJoined \/ RecoverRelease
        PROVE  heads' = heads /\ source' = source
    BY <2>3 DEF RecoverStart, RecoverDispatched, RecoverAsk, RecoverJoined, RecoverRelease, git
  <2>. QED  BY <2>1, <2>2, <2>3 DEF Recover
<1>4. op'[Execute] = op[Execute] /\ op'[Operator].pc # "removing"
  BY <1>1, DownFields
     DEF RecoverRows, Begins, Walks, Stops, Recovers, Others, Command
<1>5. db'.groups = db.groups
  BY <1>1 DEF RecoverRows, AsksBatch, RunOnly, Interrupted, Joins
<1>6. \A s \in Step : db'.steps[s].state = "ACCEPTED" => db.steps[s].state = "ACCEPTED"
  <2>1. ASSUME NEW d \in Dispatch, Interrupted(d)
        PROVE  \A s \in Step : db'.steps[s].state = "ACCEPTED" => db.steps[s].state = "ACCEPTED"
    BY <2>1, TurnedCounts DEF Interrupted, StepStatuses
  <2>. QED  BY <1>1, <2>1 DEF RecoverRows, AsksBatch, RunOnly, Joins
<1>7. \A s \in Step : thread[s] = "idle"
  BY <1>2, NobodyCommits
<1>8. Histories' /\ GroupBranches'
  BY <1>0, <1>1, <1>3, <1>5, <1>6, <1>7, BranchesStill, SameGroupsKeep
<1>9. CommandBranches'
  BY <1>0, <1>2, <1>3, <1>4, CommandBranchesStay DEF Command
<1>. QED  BY <1>8, <1>9 DEF Branches

LEMMA DisturbBranches ==
    ASSUME Typed, Flight, Control, Branches, Disturb
    PROVE  Branches'
<1>. USE Executing DEF E, O
<1>0. Histories /\ GroupBranches /\ CommandBranches
  BY DEF Branches
<1>1. DisturbRows /\ db' = db /\ barrier' = barrier
  BY DisturbByRows
<1>2. heads' = heads /\ source' = source
  BY DEF Disturb, Crash, Raises, Cancel, CancelOvertakes, WorkerExits, git
<1>3. \A s \in Step : thread'[s] = "committed" => thread[s] = "committed"
  BY <1>1 DEF DisturbRows, Idle
<1>4. Histories' /\ GroupBranches'
  BY <1>0, <1>1, <1>2, <1>3, BranchesStill, SameGroupsKeep DEF Current
<1>5. \A a \in Command :
        \/ op'[a] = op[a]
        \/ op'[a].pc \in {"down", "asking"} /\ ~op'[a].force
  <2>1. ASSUME NEW b \in Command, Stops(b) \/ (Walks(b, "asking") /\ ~op[b].force)
        PROVE  \A a \in Command : op'[a] = op[a] \/ (op'[a].pc \in {"down", "asking"} /\ ~op'[a].force)
    BY <2>1, DownFields DEF Stops, Walks, Keeps, Others
  <2>2. op' = op \/ \E b \in Command : Stops(b) \/ (Walks(b, "asking") /\ ~op[b].force)
    BY <1>1 DEF DisturbRows
  <2>. QED  BY <2>1, <2>2
<1>6. CommandBranches'
  BY <1>0, <1>1, <1>2, <1>5, CommandBranchesStay
<1>. QED  BY <1>4, <1>6 DEF Branches

LEMMA BranchesStep ==
    ASSUME Typed, Flight, Control, Leasing, Steady, Branches, [Next]_vars
    PROVE  Branches'
<1>1. ASSUME UNCHANGED vars PROVE Branches'
  <2>1. /\ db' = db /\ heads' = heads /\ source' = source /\ barrier' = barrier
        /\ op' = op /\ thread' = thread
    BY <1>1 DEF vars, git
  <2>2. Histories' /\ GroupBranches'
    BY <2>1, BranchesStill, SameGroupsKeep DEF Branches, Current
  <2>3. CommandBranches'
    BY <2>1, CommandBranchesStay DEF Branches, E
  <2>. QED  BY <2>2, <2>3 DEF Branches
<1>. QED  BY <1>1, ProvisionBranches, PrepareBranches, WorkBranches, JoinBranches, TurnBranches,
             IntegrateBranches, CleanupBranches, AnswerBranches, RecoverBranches, DisturbBranches
          DEF Next

LEMMA BranchesInit ==
    ASSUME Init
    PROVE  Branches
<1>1. /\ \A a \in Command : op[a] = Down
      /\ \A g \in Group : State(g) = "NONE" /\ db.groups[g].base = {}
      /\ \A g \in Group : \A p \in Place : heads[g][p] = Gone
      /\ source \in [Repository -> SUBSET Step]
      /\ \A s \in Step : db.steps[s].state = "READY" /\ thread[s] = "idle"
  BY DEF Init, State
<1>2. Histories
  BY <1>1 DEF Histories, Exists
<1>3. GroupBranches
  BY <1>1 DEF GroupBranches, AcceptedWorkSurvives, Merged, Exists, Held
<1>4. CommandBranches
  BY <1>1, DownFields DEF CommandBranches, E, Command
<1>. QED  BY <1>2, <1>3, <1>4 DEF Branches

(* The types of TypeOK are those of Typed and the histories of Branches. *)
LEMMA TypesHold ==
    ASSUME Typed, Branches
    PROVE  TypeOK
<1>1. Shape /\ Counted /\ Histories
  BY DEF Typed, Branches
<1>2. db \in RunRecord
  <2>1. db.groups \in [Group -> [state : GroupStates, children : SUBSET Step,
                                 base : SUBSET Step, promoted : BOOLEAN]]
    BY <1>1 DEF Shape, LooseRecord, LooseGroup, Histories
  <2>. QED  BY <1>1, <2>1 DEF Shape, LooseRecord, RunRecord, RunStatuses, Requests, StepRecord,
                              StepStatuses, BatchRecord
<1>3. heads \in [Group -> [Place -> (SUBSET Step) \cup {Gone}]]
  BY <1>1 DEF Shape, Histories, Exists
<1>4. source \in [Repository -> SUBSET Step]
  BY <1>1 DEF Histories
<1>. QED  BY <1>1, <1>2, <1>3, <1>4
          DEF TypeOK, Shape, Counted, RequestOK, FailedOK, AttemptsOK

(* Who moves a default branch. *)
LEMMA SourceMoves ==
    ASSUME Typed, Next
    PROVE  \/ source' = source
           \/ \E s \in Step : CommitWork(s) /\ Work(s)
           \/ Promote \/ IntegrationFails
           \/ \E g \in Group, p \in Place : MergeByHand(g, p)
<1>. DEFINE Moves == \/ source' = source
                     \/ \E s \in Step : CommitWork(s) /\ Work(s)
                     \/ Promote \/ IntegrationFails
                     \/ \E g \in Group, p \in Place : MergeByHand(g, p)
<1>1. ASSUME Provision PROVE Moves
  <2>1. ASSUME NEW g, NEW b, NEW kids, PlanGroup(g, b, kids) PROVE source' = source
    BY <2>1 DEF PlanGroup, git
  <2>2. ASSUME NEW s, AddTree(s) \/ AddTreeFails(s) \/ Undo(s) PROVE source' = source
    BY <2>2 DEF AddTree, AddTreeFails, Undo, Added
  <2>3. ASSUME LeaseGroup \/ Undone \/ FailGroup \/ ActivateGroup PROVE source' = source
    BY <2>3 DEF LeaseGroup, Undone, FailGroup, ActivateGroup, git
  <2>. QED  BY <1>1, <2>1, <2>2, <2>3 DEF Provision
<1>2. ASSUME Prepare PROVE Moves
  <2>1. ASSUME NEW b, NEW kids, CommandBatch(b, kids) PROVE source' = source
    BY <2>1 DEF CommandBatch, Allocate, git
  <2>2. ASSUME NEW s, CommandDispatch(s) \/ LeaseChild(s) PROVE source' = source
    BY <2>2 DEF CommandDispatch, LeaseChild, Allocate, git
  <2>3. ASSUME SavePrepared \/ RefusePrepare PROVE source' = source
    BY <2>3 DEF SavePrepared, RefusePrepare, git
  <2>. QED  BY <1>2, <2>1, <2>2, <2>3 DEF Prepare
<1>3. ASSUME NEW s \in Step, Work(s) PROVE Moves
  BY <1>3, WorkSources DEF Typed
<1>4. ASSUME Join PROVE Moves
  BY <1>4 DEF Join, DispatchEnds, FinalizeBatch, AskBatchReconciliation, git
<1>5. ASSUME Turn PROVE Moves
  <2>1. ASSUME NEW d, Acknowledge(d) PROVE source' = source
    BY <2>1 DEF Acknowledge, git
  <2>2. ASSUME Start \/ Complete \/ Stop PROVE source' = source
    BY <2>2 DEF Start, Complete, Stop, git
  <2>. QED  BY <1>5, <2>1, <2>2 DEF Turn
<1>6. ASSUME Integrate PROVE Moves
  <2>1. ASSUME NEW s, MergeChild(s) PROVE source' = source
    BY <2>1 DEF MergeChild
  <2>2. ASSUME BeginIntegration \/ OpenIntegration \/ SavePromoted \/ FailIntegration
               \/ AskWorkspaceReconciliation
        PROVE  source' = source
    BY <2>2 DEF BeginIntegration, OpenIntegration, SavePromoted, FailIntegration,
                AskWorkspaceReconciliation, Added, git
  <2>. QED  BY <1>6, <2>1, <2>2 DEF Integrate
<1>7. ASSUME NEW a, Cleanup(a) PROVE Moves
  <2>1. ASSUME NEW p, RemovePlace(a, p) \/ RemovePlaceFails(a, p) PROVE source' = source
    BY <2>1 DEF RemovePlace, RemovePlaceFails
  <2>2. ASSUME BeginCleanup(a) \/ CheckCleanup(a) \/ EndRemoval(a) \/ SaveCleaned(a)
               \/ SaveUnclean(a)
        PROVE  source' = source
    BY <2>2 DEF BeginCleanup, CheckCleanup, EndRemoval, SaveCleaned, SaveUnclean, git
  <2>. QED  BY <1>7, <2>1, <2>2 DEF Cleanup
<1>8. ASSUME Answer PROVE Moves
  BY <1>8 DEF Answer, AnswerStep, AnswerBatch, BeginAnswerWorkspace, AnswerWorkspace, AnswerHalt,
              TidyByHand, git
<1>9. ASSUME Recover PROVE Moves
  <2>1. ASSUME NEW d, RecoverCompleted(d) \/ RecoverInterrupted(d) PROVE source' = source
    BY <2>1 DEF RecoverCompleted, RecoverInterrupted, git
  <2>2. ASSUME NEW b, RecoverJoin(b) PROVE source' = source
    BY <2>2 DEF RecoverJoin, git
  <2>3. ASSUME RecoverStart \/ RecoverDispatched \/ RecoverAsk \/ RecoverJoined \/ RecoverRelease
        PROVE  source' = source
    BY <2>3 DEF RecoverStart, RecoverDispatched, RecoverAsk, RecoverJoined, RecoverRelease, git
  <2>. QED  BY <1>9, <2>1, <2>2, <2>3 DEF Recover
<1>10. ASSUME Disturb PROVE Moves
  BY <1>10 DEF Disturb, Crash, Raises, Cancel, CancelOvertakes, WorkerExits, git
<1>. QED  BY <1>1, <1>2, <1>3, <1>4, <1>5, <1>6, <1>7, <1>8, <1>9, <1>10 DEF Next

(* A default branch moves to the work of all children, or while no group   *)
(* integrates.                                                             *)
LEMMA PromotionStep ==
    ASSUME Typed, Flight, Control, Steady, Branches, Next,
           NEW g \in Group, State(g) = "INTEGRATING", source'[Shared] # source[Shared]
    PROVE  /\ db.groups[g].children \subseteq source'[Shared]
           /\ \A s \in db.groups[g].children : db.steps[s].state = "ACCEPTED"
<1>. USE Executing DEF E, O
<1>0. GroupBranches /\ CommandBranches
  BY DEF Branches
<1>1. \A s \in db.groups[g].children : db.steps[s].state = "ACCEPTED" /\ s \in heads[g][s]
  BY <1>0 DEF Steady, GroupBranches, Held
<1>2. ASSUME NEW s \in Step, CommitWork(s), Work(s) PROVE FALSE
  <2>1. E.pc = "running"
    BY <1>2, WorkShrinks
  <2>. QED  BY <2>1 DEF Control, Admission, MergeStates
<1>3. ASSUME NEW h \in Group, NEW p \in Place, MergeByHand(h, p) PROVE FALSE
  <2>1. AboutGroup
    BY <1>3 DEF MergeByHand, Typed, Counted, RequestOK, AboutGroup, Group
  <2>2. State(g) \notin AdmittedGroupStates
    BY <2>1 DEF Control, Duties, NoneAdmitted
  <2>. QED  BY <2>2 DEF AdmittedGroupStates
<1>4. CASE Promote \/ IntegrationFails
  <2>1. /\ E.pc = "merging" /\ E.steps = {}
        /\ source' = [source EXCEPT ![Shared] = heads[E.group][Integration]]
    BY <1>4 DEF Promote, IntegrationFails, At
  <2>2. E.group = g
    BY <2>1 DEF Control, Admission
  <2>3. source'[Shared] = heads[g][Integration]
    BY <2>1, <2>2 DEF Shape, Repository
  <2>4. \A s \in db.groups[g].children : heads[g][s] \subseteq heads[g][Integration]
    BY <1>0, <2>1, <2>2 DEF CommandBranches
  <2>. QED  BY <1>1, <2>3, <2>4
<1>. QED  BY <1>1, <1>2, <1>3, <1>4, SourceMoves
-----------------------------------------------------------------------------
(* Layer 8: what is removed stays away.                                    *)
Rests(g) == State(g) \in {"CLEANUP_PENDING", "CLEANED"}

NothingKeeps ==
    \A g \in Group : Rests(g) =>
        \A p \in Place : NothingAt(g, p) => heads'[g][p] = Gone /\ trees'[g][p] = "absent"

LeaseSpares ==
    \A g \in Group : Rests(g) /\ lease[Shared] # GroupOwner(g) => lease'[Shared] # GroupOwner(g)

LEMMA RemovalStays ==
    ASSUME Typed, Control, Removal, NothingKeeps, LeaseSpares,
           \A g \in Group : db'.groups[g].state = "CLEANED" => State(g) = "CLEANED",
           \A g \in Group : Rests(g) => db'.groups[g].children = db.groups[g].children,
           \A a \in Command : op'[a].pc \in {"removing", "removed"} => op'[a] = op[a]
    PROVE  Removal'
<1>1. \A a \in Command : op[a].pc \in {"removing", "removed"} =>
        op[a].group \in Group /\ Rests(op[a].group)
  BY GroupAt DEF Control, Stations, Rests, RemovalStates, CleanupStates
<1>2. \A g \in Group : Rests(g) => Owned(g)' = Owned(g) /\ Owned(g) \subseteq Place
  <2>. SUFFICES ASSUME NEW g \in Group, Rests(g)
                PROVE  Owned(g)' = Owned(g) /\ Owned(g) \subseteq Place
    OBVIOUS
  <2>1. db.groups[g].children \subseteq Step
    BY GroupFields
  <2>. QED  BY <2>1 DEF Owned, Place
<1>3. ASSUME NEW a \in Command, op'[a].pc = "removing", ~op'[a].failed,
             NEW p \in Owned(op[a].group)' \ op'[a].steps
      PROVE  heads'[op'[a].group][p] = Gone /\ trees'[op'[a].group][p] = "absent"
  <2>1. op'[a] = op[a]
    BY <1>3
  <2>2. op[a].group \in Group /\ Rests(op[a].group)
    BY <1>1, <1>3, <2>1
  <2>3. p \in Owned(op[a].group) \ op[a].steps /\ p \in Place
    BY <1>2, <1>3, <2>1, <2>2 DEF Owned
  <2>. QED  BY <1>3, <2>1, <2>2, <2>3 DEF Removal, NothingKeeps
<1>4. ASSUME NEW a \in Command, op'[a].pc = "removed"
      PROVE  /\ \A p \in Owned(op[a].group)' :
                    heads'[op'[a].group][p] = Gone /\ trees'[op'[a].group][p] = "absent"
             /\ lease'[Shared] # GroupOwner(op'[a].group)
  <2>1. op'[a] = op[a]
    BY <1>4
  <2>2. op[a].group \in Group /\ Rests(op[a].group)
    BY <1>1, <1>4, <2>1
  <2>3. Owned(op[a].group)' = Owned(op[a].group) /\ Owned(op[a].group) \subseteq Place
    BY <1>2, <2>1, <2>2 DEF Owned
  <2>. QED  BY <1>4, <2>1, <2>2, <2>3 DEF Removal, NothingKeeps, LeaseSpares
<1>5. ASSUME NEW g \in Group, db'.groups[g].state = "CLEANED"
      PROVE  /\ \A p \in Owned(g)' : heads'[g][p] = Gone /\ trees'[g][p] = "absent"
             /\ lease'[Shared] # GroupOwner(g)
  <2>1. State(g) = "CLEANED" /\ Rests(g)
    BY <1>5 DEF Rests
  <2>2. Owned(g)' = Owned(g) /\ Owned(g) \subseteq Place
    BY <1>2, <2>1
  <2>. QED  BY <2>1, <2>2
            DEF Removal, CleanedOwnsNothing, NothingKeeps, LeaseSpares, NothingAt, Exists, State
<1>. QED  BY <1>3, <1>4, <1>5 DEF Removal, CleanedOwnsNothing, NothingAt, Exists

(* The leases are given to groups that are prepared and to dispatches. *)
LEMMA FreedSpares ==
    ASSUME NEW owners, lease' = Freed(owners)
    PROVE  LeaseSpares
BY OwnersDiffer DEF LeaseSpares, Freed

LEMMA SameLeaseSpares ==
    ASSUME lease' = lease
    PROVE  LeaseSpares
BY DEF LeaseSpares

LEMMA GivenSpares ==
    ASSUME Typed, NEW r, NEW owner, lease' = [lease EXCEPT ![r] = owner],
           \A g \in Group : Rests(g) => owner # GroupOwner(g)
    PROVE  LeaseSpares
BY DEF LeaseSpares, Typed, Shape, Repository

(* Git works on groups that are not at rest. *)
LEMMA GitElsewhere ==
    ASSUME NEW k, k \in Group => ~Rests(k),
           \A g \in Group : g # k => heads'[g] = heads[g] /\ trees'[g] = trees[g]
    PROVE  NothingKeeps
BY DEF NothingKeeps, NothingAt, Exists

LEMMA WorkerElsewhere ==
    ASSUME Typed, Control, NEW d \in Dispatch, InFlight(d), heads' = heads,
           LET k == db.dispatches[d].group IN
                k # 0 => \A g \in Group : g # k => trees'[g] = trees[g],
           db.dispatches[d].group = 0 => trees' = trees
    PROVE  NothingKeeps
<1>. DEFINE k == db.dispatches[d].group
<1>1. CASE k = 0
  BY <1>1 DEF NothingKeeps, NothingAt, Exists
<1>2. CASE k # 0
  <2>1. ~Rests(k)
    BY <1>2 DEF Control, FlightIsGrouped, InFlight, Rests
  <2>. QED  BY <1>2, <2>1, GitElsewhere
<1>. QED  BY <1>1, <1>2

LEMMA StoppedElsewhere ==
    ASSUME Typed, Control, NEW d \in Dispatch, InFlight(d), heads' = heads, WorkerStops(d)
    PROVE  NothingKeeps
<1>. DEFINE k == db.dispatches[d].group
<1>1. \A g \in Group : g # k => trees'[g] = trees[g]
  BY DEF WorkerStops, Typed, Shape
<1>2. k = 0 => trees' = trees
  BY DEF WorkerStops
<1>. QED  BY <1>1, <1>2, WorkerElsewhere

LEMMA ProvisionRemoval ==
    ASSUME Typed, Flight, Control, Removal, Provision
    PROVE  Removal'
<1>. USE Executing DEF E, O
<1>1. ProvisionRows
  BY ProvisionByRows
<1>2. ASSUME Others(Execute), op'[Execute].pc \notin {"removing", "removed"}
      PROVE  \A a \in Command : op'[a].pc \in {"removing", "removed"} => op'[a] = op[a]
  BY <1>2 DEF Others
<1>3. ASSUME heads' = heads, trees' = trees PROVE NothingKeeps
  BY <1>3 DEF NothingKeeps, NothingAt, Exists
<1>4. E.pc \in ProvisionStates => ~Rests(E.group) /\ E.group \in Group
  BY GroupAt DEF Control, Stations, Rests
<1>5. ASSUME NEW g \in Group, NEW b, NEW kids, Plans(g, b, kids) PROVE Removal'
  <2>1. State(g) = "NONE" /\ heads' = heads /\ trees' = trees /\ lease' = lease
    BY <1>5 DEF Plans, PlanGroup, NextGroup, State, git
  <2>2. \A h \in Group : /\ db'.groups[h].state = "CLEANED" => State(h) = "CLEANED"
                         /\ Rests(h) => db'.groups[h].children = db.groups[h].children
    BY <1>5, <2>1 DEF Plans, Rests, State
  <2>3. \A a \in Command : op'[a].pc \in {"removing", "removed"} => op'[a] = op[a]
    BY <1>2, <1>5 DEF Plans, Begins
  <2>. QED  BY <1>3, <2>1, <2>2, <2>3, RemovalStays, SameLeaseSpares
<1>6. ASSUME Still, Others(Execute), NothingKeeps, LeaseSpares,
             op'[Execute].pc \notin {"removing", "removed"}
      PROVE  Removal'
  <2>1. \A h \in Group : /\ db'.groups[h].state = "CLEANED" => State(h) = "CLEANED"
                         /\ Rests(h) => db'.groups[h].children = db.groups[h].children
    BY <1>6 DEF Still, State
  <2>. QED  BY <1>2, <1>6, <2>1, RemovalStays
<1>7. ASSUME LeaseGroup, Still,
             \/ Walks(Execute, "adding") /\ lease' = [lease EXCEPT ![Shared] = GroupOwner(E.group)]
             \/ Walks(Execute, "unprovisioned") /\ lease' = lease
      PROVE  Removal'
  <2>1. heads' = heads /\ trees' = trees /\ E.pc = "leasing"
    BY <1>7 DEF LeaseGroup, At, git
  <2>2. LeaseSpares
    <3>1. \A g \in Group : Rests(g) => GroupOwner(E.group) # GroupOwner(g)
      BY <1>4, <2>1, OwnersDiffer DEF ProvisionStates
    <3>. QED  BY <1>7, <3>1, GivenSpares, SameLeaseSpares
  <2>. QED  BY <1>3, <1>6, <1>7, <2>1, <2>2 DEF Walks
<1>8. ASSUME Undone, Still, Walks(Execute, "unprovisioned") PROVE Removal'
  <2>1. heads' = heads /\ trees' = trees /\ lease' = Freed({GroupOwner(E.group)})
    BY <1>8 DEF Undone, git
  <2>. QED  BY <1>3, <1>6, <1>8, <2>1, FreedSpares DEF Walks
<1>9. ASSUME FailGroup \/ ActivateGroup, NEW target \in {"FAILED", "ACTIVE"},
             TurnsGroup(E.group, target), Stops(Execute) \/ Walks(Execute, "allocating")
      PROVE  Removal'
  <2>1. heads' = heads /\ trees' = trees /\ lease' = lease
    BY <1>9 DEF FailGroup, ActivateGroup, git
  <2>2. \A h \in Group : /\ db'.groups[h].state = "CLEANED" => State(h) = "CLEANED"
                         /\ Rests(h) => db'.groups[h].children = db.groups[h].children
    BY <1>9, TurnedGroups DEF State, GroupStates
  <2>3. \A a \in Command : op'[a].pc \in {"removing", "removed"} => op'[a] = op[a]
    BY <1>2, <1>9, DownFields DEF Stops, Walks
  <2>. QED  BY <1>3, <2>1, <2>2, <2>3, RemovalStays, SameLeaseSpares
<1>10. ASSUME NEW s, AddTree(s) \/ AddTreeFails(s) \/ Undo(s), Still,
              NEW pc \in {"adding", "undoing"}, NEW left, Goes(Execute, pc, left)
       PROVE  Removal'
  <2>1. /\ E.pc \in {"adding", "undoing"} /\ lease' = lease
        /\ \A g \in Group : g # E.group => heads'[g] = heads[g] /\ trees'[g] = trees[g]
    <3>1. ASSUME AddTree(s)
          PROVE  /\ E.pc = "adding" /\ lease' = lease
                 /\ \A g \in Group : g # E.group => heads'[g] = heads[g] /\ trees'[g] = trees[g]
      BY <3>1 DEF AddTree, Added, At, Shape
    <3>2. ASSUME AddTreeFails(s)
          PROVE  /\ E.pc = "adding" /\ lease' = lease
                 /\ \A g \in Group : g # E.group => heads'[g] = heads[g] /\ trees'[g] = trees[g]
      BY <3>2 DEF AddTreeFails, At, Shape
    <3>3. ASSUME Undo(s)
          PROVE  /\ E.pc = "undoing" /\ lease' = lease
                 /\ \A g \in Group : g # E.group => heads'[g] = heads[g] /\ trees'[g] = trees[g]
      BY <3>3 DEF Undo, At, Shape
    <3>. QED  BY <1>10, <3>1, <3>2, <3>3
  <2>2. ~Rests(E.group)
    BY <1>4, <2>1 DEF ProvisionStates
  <2>3. NothingKeeps
    BY <2>1, <2>2, GitElsewhere
  <2>. QED  BY <1>6, <1>10, <2>1, <2>3, SameLeaseSpares DEF Goes
<1>. QED  BY <1>1, <1>5, <1>7, <1>8, <1>9, <1>10 DEF ProvisionRows

LEMMA RemovalFrame ==
    ASSUME Typed, Control, Removal, db'.groups = db.groups, NothingKeeps, LeaseSpares,
           \A a \in Command : op'[a].pc \in {"removing", "removed"} => op'[a] = op[a]
    PROVE  Removal'
BY RemovalStays DEF State

LEMMA GitStays ==
    ASSUME heads' = heads, trees' = trees
    PROVE  NothingKeeps
BY DEF NothingKeeps, NothingAt, Exists

LEMMA OthersStay ==
    ASSUME NEW a \in Command, Others(a), op'[a].pc \notin {"removing", "removed"}
    PROVE  \A b \in Command : op'[b].pc \in {"removing", "removed"} => op'[b] = op[b]
BY DEF Others

LEMMA PrepareRemoval ==
    ASSUME Typed, Flight, Control, Removal, Prepare
    PROVE  Removal'
<1>. USE Executing DEF E, O
<1>1. PrepareRows
  BY PrepareByRows
<1>2. db'.groups = db.groups /\ Others(Execute) /\ op'[Execute].pc \notin {"removing", "removed"}
  BY <1>1, DownFields
     DEF PrepareRows, Allocates, Still, Begins, Goes, Stops, PreparedOnly, Walks, Forces
<1>3. NothingKeeps /\ LeaseSpares
  <2>1. ASSUME NEW b, NEW kids, CommandBatch(b, kids) PROVE NothingKeeps /\ LeaseSpares
    BY <2>1, GitStays, SameLeaseSpares DEF CommandBatch, Allocate, git
  <2>2. ASSUME NEW s, CommandDispatch(s) PROVE NothingKeeps /\ LeaseSpares
    BY <2>2, GitStays, SameLeaseSpares DEF CommandDispatch, Allocate, git
  <2>3. ASSUME SavePrepared PROVE NothingKeeps /\ LeaseSpares
    BY <2>3, GitStays, SameLeaseSpares DEF SavePrepared, git
  <2>4. ASSUME RefusePrepare PROVE NothingKeeps /\ LeaseSpares
    BY <2>4, GitStays, FreedSpares DEF RefusePrepare, git
  <2>5. ASSUME NEW s \in Step, LeaseChild(s) PROVE NothingKeeps /\ LeaseSpares
    <3>1. \/ lease' = [lease EXCEPT ![RepositoryOf(s)] = NextDispatch(s)]
          \/ lease' = Freed(Allocated)
      BY <2>5 DEF LeaseChild
    <3>2. \A g \in Group : NextDispatch(s) # GroupOwner(g)
      BY OwnersDiffer
    <3>3. LeaseSpares
      BY <3>1, <3>2, GivenSpares, FreedSpares
    <3>. QED  BY <2>5, <3>3, GitStays DEF LeaseChild, git
  <2>. QED  BY <2>1, <2>2, <2>3, <2>4, <2>5 DEF Prepare
<1>. QED  BY <1>2, <1>3, RemovalFrame, OthersStay

LEMMA WorkRemoval ==
    ASSUME Typed, Flight, Control, Removal, NEW s \in Step, Work(s)
    PROVE  Removal'
<1>. USE Executing DEF E, O
<1>. DEFINE d == Current(s)
            k == db.dispatches[d].group
<1>1. /\ op' = op /\ db'.groups = db.groups /\ d \in Dispatch
      /\ db.dispatches[d].state \in ThreadDispatchStates(thread[s])
  BY WorkShrinks
<1>2. LeaseSpares
  <2>1. CASE ~RetryStalled(s)
    BY <2>1, WorkLease, FreedSpares, SameLeaseSpares
  <2>2. CASE RetryStalled(s)
    <3>1. \/ lease' = [lease EXCEPT ![RepositoryOf(s)] = NextDispatch(s)]
          \/ lease' = lease
      BY <2>2 DEF RetryStalled
    <3>2. \A g \in Group : NextDispatch(s) # GroupOwner(g)
      BY OwnersDiffer
    <3>. QED  BY <3>1, <3>2, GivenSpares, SameLeaseSpares
  <2>. QED  BY <2>1, <2>2
<1>3. thread[s] \in {"queued", "working", "committed"} => InFlight(d)
  BY <1>1 DEF ThreadDispatchStates, InFlight, InFlightStates
<1>4. ASSUME Launch(s) PROVE NothingKeeps
  <2>1. /\ thread[s] = "queued" /\ heads' = heads
        /\ \A g \in Group : g # k => trees'[g] = trees[g]
        /\ k = 0 => trees' = trees
    BY <1>4 DEF Launch, Shape
  <2>. QED  BY <1>1, <1>3, <2>1, WorkerElsewhere
<1>5. ASSUME CommitWork(s) PROVE NothingKeeps
  <2>1. thread[s] = "working"
    BY <1>5 DEF CommitWork
  <2>2. CASE k = 0
    BY <1>5, <2>2, GitStays DEF CommitWork
  <2>3. CASE k # 0
    <3>1. \A g \in Group : g # k => heads'[g] = heads[g] /\ trees'[g] = trees[g]
      BY <1>5, <2>3 DEF CommitWork, Shape
    <3>2. ~Rests(k)
      BY <2>1, <2>3, CommittedIsInFlight DEF Rests
    <3>. QED  BY <3>1, <3>2, GitElsewhere
  <2>. QED  BY <2>2, <2>3
<1>6. ASSUME ApplyBlocked(s) \/ FailDispatch(s) \/ StallDispatch(s) PROVE NothingKeeps
  <2>1. heads' = heads /\ WorkerStops(d) /\ thread[s] \in {"working", "committed"}
    BY <1>6 DEF ApplyBlocked, FailDispatch, StallDispatch
  <2>. QED  BY <1>1, <1>3, <2>1, StoppedElsewhere
<1>7. ASSUME RetryStalled(s) \/ ApplyCompleted(s) \/ PersistForwarded(s) \/ PersistEscalated(s)
             \/ FailStep(s) \/ AskReconciliation(s) \/ StallStep(s) \/ AskStallRecovery(s)
             \/ HandlerRaises(s)
      PROVE  NothingKeeps
  <2>1. heads' = heads /\ trees' = trees
    BY <1>7 DEF RetryStalled, ApplyCompleted, PersistForwarded, PersistEscalated, FailStep,
                AskReconciliation, StallStep, AskStallRecovery, HandlerRaises, git
  <2>. QED  BY <2>1, GitStays
<1>8. NothingKeeps
  BY <1>4, <1>5, <1>6, <1>7 DEF Work
<1>. QED  BY <1>1, <1>2, <1>8, RemovalFrame

LEMMA JoinRemoval ==
    ASSUME Typed, Flight, Control, Removal, Join
    PROVE  Removal'
<1>. USE Executing DEF E, O
<1>1. JoinRows
  BY JoinByRows
<1>2. db'.groups = db.groups /\ Others(Execute) /\ op'[Execute].pc \notin {"removing", "removed"}
  BY <1>1, DownFields DEF JoinRows, Joins, AsksBatch, RunOnly, Stops, TurnsTo, Begins, Walks
<1>3. heads' = heads /\ trees' = trees /\ lease' = lease
  BY DEF Join, DispatchEnds, FinalizeBatch, AskBatchReconciliation, git
<1>. QED  BY <1>2, <1>3, RemovalFrame, OthersStay, GitStays, SameLeaseSpares

LEMMA TurnRemoval ==
    ASSUME Typed, Flight, Control, Removal, Turn
    PROVE  Removal'
<1>. USE Executing DEF E, O
<1>1. TurnRows
  BY TurnByRows
<1>2. db'.groups = db.groups /\ Others(Execute) /\ op'[Execute].pc \notin {"removing", "removed"}
  BY <1>1, DownFields DEF TurnRows, Acknowledges, Still, RunOnly, Stops, TurnsTo, Begins
<1>3. heads' = heads /\ trees' = trees /\ lease' = lease
  <2>1. ASSUME NEW d, Acknowledge(d) PROVE heads' = heads /\ trees' = trees /\ lease' = lease
    BY <2>1 DEF Acknowledge, git
  <2>2. ASSUME Start \/ Complete \/ Stop PROVE heads' = heads /\ trees' = trees /\ lease' = lease
    BY <2>2 DEF Start, Complete, Stop, git
  <2>. QED  BY <2>1, <2>2 DEF Turn
<1>. QED  BY <1>2, <1>3, RemovalFrame, OthersStay, GitStays, SameLeaseSpares

LEMMA IntegrateRemoval ==
    ASSUME Typed, Flight, Control, Removal, Integrate
    PROVE  Removal'
<1>. USE Executing DEF E, O
<1>1. IntegrateRows
  BY IntegrateByRows
<1>2. /\ Others(Execute) /\ op'[Execute].pc \notin {"removing", "removed"}
      /\ db'.groups = db.groups \/ SavesPromoted
         \/ \E target \in {"INTEGRATING", "FAILED"} : TurnsGroup(E.group, target)
  BY <1>1 DEF IntegrateRows, Still, AsksGroup, RunOnly, Walks, Goes, TurnsTo, Begins
<1>3. \A g \in Group : db'.groups[g].state = "CLEANED" => State(g) = "CLEANED"
  BY <1>2, TurnedGroups DEF SavesPromoted, State, GroupStates
<1>4. \A g \in Group : db'.groups[g].children = db.groups[g].children
  BY <1>2, TurnedGroups DEF SavesPromoted, GroupStates
<1>5. lease' = lease
  <2>1. ASSUME NEW s, MergeChild(s) PROVE lease' = lease
    BY <2>1 DEF MergeChild
  <2>. QED  BY <2>1 DEF Integrate, BeginIntegration, OpenIntegration, SavePromoted, FailIntegration,
                        AskWorkspaceReconciliation, Promote, IntegrationFails
<1>6. E.pc \in MergeStates => ~Rests(E.group)
  BY DEF Control, Stations, Rests
<1>7. NothingKeeps
  <2>1. ASSUME BeginIntegration \/ Promote \/ SavePromoted \/ FailIntegration
               \/ AskWorkspaceReconciliation
        PROVE  heads' = heads /\ trees' = trees
    BY <2>1 DEF BeginIntegration, Promote, SavePromoted, FailIntegration,
                AskWorkspaceReconciliation, git
  <2>2. ASSUME OpenIntegration
        PROVE  /\ E.pc \in MergeStates
               /\ \A g \in Group : g # E.group => heads'[g] = heads[g] /\ trees'[g] = trees[g]
    BY <2>2 DEF OpenIntegration, Added, At, MergeStates, Shape
  <2>3. ASSUME NEW s, MergeChild(s)
        PROVE  /\ E.pc = "merging"
               /\ \A g \in Group : g # E.group => heads'[g] = heads[g] /\ trees'[g] = trees[g]
    BY <2>3 DEF MergeChild, At, Shape
  <2>4. ASSUME IntegrationFails
        PROVE  /\ E.pc \in {"opening", "merging"}
               /\ \A g \in Group : g # E.group => heads'[g] = heads[g] /\ trees'[g] = trees[g]
    BY <2>4 DEF IntegrationFails, Shape
  <2>5. E.pc \in {"opening", "merging"} => E.pc \in MergeStates
    BY DEF MergeStates
  <2>. QED  BY <1>6, <2>1, <2>2, <2>3, <2>4, <2>5, GitStays, GitElsewhere DEF Integrate
<1>. QED  BY <1>2, <1>3, <1>4, <1>5, <1>7, RemovalStays, OthersStay, SameLeaseSpares

(* A cleanup.  What it removes was merged, and it is alone with the groups. *)
LEMMA CleanupRemoval ==
    ASSUME Typed, Flight, Control, Removal, NEW a \in Command, Cleanup(a)
    PROVE  Removal'
<1>. USE Executing DEF E, O
<1>. DEFINE g == op[a].group
<1>1. CleanupRows(a)
  BY CleanupByRows
<1>2. op[a].pc \in CleanupStates
  BY DEF Cleanup, BeginCleanup, CheckCleanup, RemovePlace, RemovePlaceFails, EndRemoval,
         SaveCleaned, SaveUnclean, At, CleanupStates
<1>3. /\ g \in Group
      /\ \A b \in Command : b # a => op[b].pc \notin {"removing", "removed"}
      /\ op[a].pc \in RemovalStates => State(g) = "CLEANUP_PENDING"
  <2>1. \A b \in Command : b # a => op[b].pc \in {"down", "turn"}
    BY <1>2, CleansAlone DEF Command
  <2>. QED  BY <1>2, <2>1, CleansAlone
<1>4. Others(a) => \A b \in Command : b # a => op'[b].pc \notin {"removing", "removed"}
  BY <1>3 DEF Others
<1>5. ASSUME heads' = heads, trees' = trees, lease' = lease, Others(a),
             op'[a].pc \notin {"removing", "removed"},
             Still \/ \E target \in {"CLEANUP_PENDING", "FAILED"} : TurnsGroup(g, target)
      PROVE  Removal'
  <2>1. \A h \in Group : /\ db'.groups[h].state = "CLEANED" => State(h) = "CLEANED"
                         /\ db'.groups[h].children = db.groups[h].children
    BY <1>5, TurnedGroups DEF Still, State, GroupStates
  <2>. QED  BY <1>5, <2>1, RemovalStays, OthersStay, GitStays, SameLeaseSpares
<1>6. ASSUME BeginCleanup(a), NEW pc \in {"answering", "checking"}, Walks(a, pc),
             Still \/ TurnsGroup(g, "CLEANUP_PENDING")
      PROVE  Removal'
  BY <1>5, <1>6 DEF BeginCleanup, git, Walks
<1>7. ASSUME CheckCleanup(a), Still, Goes(a, "unclean", Owned(g)) PROVE Removal'
  BY <1>5, <1>7 DEF CheckCleanup, git, Goes
<1>8. ASSUME SaveUnclean(a), TurnsGroup(g, "FAILED"), Stops(a) \/ Walks(a, "asking") PROVE Removal'
  <2>1. Others(a) /\ op'[a].pc \in {"down", "asking"}
    BY <1>8, DownFields DEF Stops, Walks
  <2>. QED  BY <1>5, <1>8, <2>1 DEF SaveUnclean, git
<1>9. ASSUME EndRemoval(a), Still, Walks(a, "unclean"), lease' = lease PROVE Removal'
  BY <1>5, <1>9 DEF EndRemoval, git, Walks
(* What the groups own, and those that were CLEANED before. *)
<1>10. ASSUME db' = db PROVE \A h : Owned(h)' = Owned(h) /\ State(h)' = State(h)
  BY <1>10 DEF Owned, State
<1>11. Owned(g) \subseteq Place
  BY <1>3, GroupFields DEF Owned, Place
<1>12. ASSUME db' = db, LeaseSpares,
              \A h \in Group : h # g => heads'[h] = heads[h] /\ trees'[h] = trees[h],
              State(g) = "CLEANUP_PENDING"
       PROVE  CleanedOwnsNothing'
  <2>. SUFFICES ASSUME NEW h \in Group, State(h) = "CLEANED"
                PROVE  /\ \A p \in Owned(h) : heads'[h][p] = Gone /\ trees'[h][p] = "absent"
                       /\ lease'[Shared] # GroupOwner(h)
    BY <1>10, <1>12 DEF CleanedOwnsNothing, State
  <2>. QED  BY <1>12 DEF Removal, CleanedOwnsNothing, LeaseSpares, Rests, State
<1>13. ASSUME CheckCleanup(a), Still, Goes(a, "removing", Owned(g)) PROVE Removal'
  <2>1. heads' = heads /\ trees' = trees /\ lease' = lease /\ op[a].pc = "checking"
    BY <1>13 DEF CheckCleanup, At, git
  <2>2. CleanedOwnsNothing'
    BY <1>3, <1>12, <1>13, <2>1, SameLeaseSpares DEF Still, RemovalStates
  <2>3. op'[a].steps = Owned(op[a].group)'
    BY <1>10, <1>13 DEF Goes, Keeps, Still, Owned
  <2>4. op'[a].pc = "removing"
    BY <1>13 DEF Goes
  <2>. QED  BY <1>4, <1>13, <2>2, <2>3, <2>4 DEF Removal, Goes, Owned
<1>14. ASSUME NEW p \in Place, NEW missing \in BOOLEAN, Removes(a, p, missing), lease' = lease,
              op[a].pc = "removing",
              \A h \in Group : h # g => heads'[h] = heads[h] /\ trees'[h] = trees[h],
              ~missing => \A q \in Place : (q = p \/ NothingAt(g, q)) =>
                                heads'[g][q] = Gone /\ trees'[g][q] = "absent"
       PROVE  Removal'
  <2>1. CleanedOwnsNothing'
    BY <1>3, <1>12, <1>14, SameLeaseSpares DEF Removes, Still, RemovalStates
  <2>2. /\ op'[a].pc = "removing" /\ op'[a].group = g /\ op'[a].steps = op[a].steps \ {p}
        /\ Others(a) /\ db' = db
    BY <1>14 DEF Removes, Goes, Keeps, Still
  <2>3. ASSUME ~op'[a].failed, NEW q \in Owned(g) \ op'[a].steps
        PROVE  heads'[g][q] = Gone /\ trees'[g][q] = "absent"
    <3>1. ~op[a].failed /\ ~missing
      BY <1>14, <2>3 DEF Removes
    <3>2. q = p \/ NothingAt(g, q)
      BY <1>14, <2>2, <2>3, <3>1 DEF Removal
    <3>. QED  BY <1>11, <1>14, <2>3, <3>1, <3>2
  <2>4. Owned(g)' = Owned(g) /\ Owned(op[a].group)' = Owned(g)
    BY <2>2 DEF Owned
  <2>. QED  BY <1>4, <2>1, <2>2, <2>3, <2>4 DEF Removal, NothingAt, Exists, Owned
<1>15. ASSUME NEW p \in Place, NEW missing \in BOOLEAN, RemovePlace(a, p), Removes(a, p, missing)
       PROVE  Removal'
  <2>1. /\ op[a].pc = "removing" /\ lease' = lease
        /\ \A h \in Group : h # g => heads'[h] = heads[h] /\ trees'[h] = trees[h]
    BY <1>15 DEF RemovePlace, At, Shape
  <2>2. /\ \A q \in Place : heads'[g][q] = IF q = p THEN Gone ELSE heads[g][q]
        /\ \A q \in Place : trees'[g][q] = IF q = p THEN "absent" ELSE trees[g][q]
    BY <1>3, <1>15 DEF RemovePlace, Shape
  <2>3. \A q \in Place : (q = p \/ NothingAt(g, q)) =>
            heads'[g][q] = Gone /\ trees'[g][q] = "absent"
    BY <2>2 DEF NothingAt, Exists
  <2>. QED  BY <1>14, <1>15, <2>1, <2>3
<1>16. ASSUME NEW p \in Place, RemovePlaceFails(a, p), Removes(a, p, TRUE) PROVE Removal'
  <2>1. /\ op[a].pc = "removing" /\ lease' = lease
        /\ \A h \in Group : h # g => heads'[h] = heads[h] /\ trees'[h] = trees[h]
    BY <1>16 DEF RemovePlaceFails, At, Shape
  <2>. QED  BY <1>14, <1>16, <2>1
<1>17. ASSUME EndRemoval(a), Still, Walks(a, "removed"), ~op[a].failed,
              lease' = Freed({GroupOwner(g)})
       PROVE  Removal'
  <2>1. heads' = heads /\ trees' = trees /\ op[a].pc = "removing" /\ op[a].steps = {}
    BY <1>17 DEF EndRemoval, At, git
  <2>2. CleanedOwnsNothing'
    BY <1>3, <1>12, <1>17, <2>1, FreedSpares DEF Still, RemovalStates
  <2>3. \A q \in Owned(g) : heads[g][q] = Gone /\ trees[g][q] = "absent"
    BY <1>17, <2>1 DEF Removal, NothingAt, Exists
  <2>4. lease'[Shared] # GroupOwner(g)
    BY <1>3, <1>17, OwnersDiffer DEF Freed
  <2>5. /\ op'[a].pc = "removed" /\ op'[a].group = g /\ Others(a)
        /\ Owned(op[a].group)' = Owned(g)
    BY <1>10, <1>17 DEF Walks, Keeps, Still, Owned
  <2>. QED  BY <1>4, <2>1, <2>2, <2>3, <2>4, <2>5 DEF Removal, NothingAt, Exists, Owned
<1>18. ASSUME SaveCleaned(a), TurnsGroup(g, "CLEANED"), Others(a),
              op'[a].pc \in {"answering", "down", "turn"}
       PROVE  Removal'
  <2>1. heads' = heads /\ trees' = trees /\ lease' = lease /\ op[a].pc = "removed"
    BY <1>18 DEF SaveCleaned, At, git
  <2>2. \A h \in Group : /\ db'.groups[h].state = IF h = g THEN "CLEANED" ELSE State(h)
                         /\ db'.groups[h].children = db.groups[h].children
    BY <1>18, TurnedGroups DEF State, GroupStates
  <2>3. /\ \A q \in Owned(g) : heads[g][q] = Gone /\ trees[g][q] = "absent"
        /\ lease[Shared] # GroupOwner(g)
    BY <2>1 DEF Removal, NothingAt, Exists
  <2>4. \A h \in Group : Owned(h)' = Owned(h)
    BY <2>2 DEF Owned
  <2>5. CleanedOwnsNothing'
    <3>. SUFFICES ASSUME NEW h \in Group, db'.groups[h].state = "CLEANED"
                  PROVE  /\ \A p \in Owned(h) : heads[h][p] = Gone /\ trees[h][p] = "absent"
                         /\ lease[Shared] # GroupOwner(h)
      BY <2>1, <2>4 DEF CleanedOwnsNothing
    <3>. QED  BY <2>2, <2>3 DEF Removal, CleanedOwnsNothing, State
  <2>6. \A b \in Command : op'[b].pc \notin {"removing", "removed"}
    BY <1>4, <1>18
  <2>. QED  BY <2>5, <2>6 DEF Removal
<1>19. ASSUME SaveCleaned(a), TurnsGroup(g, "CLEANED"),
              Walks(a, "answering") \/ Stops(a) \/ (a = Execute /\ TurnsTo(op[a].dispatches))
       PROVE  Removal'
  <2>1. Others(a) /\ op'[a].pc \in {"answering", "down", "turn"}
    BY <1>19, DownFields DEF Walks, Stops, TurnsTo, Begins
  <2>. QED  BY <1>18, <1>19, <2>1
<1>. QED  BY <1>1, <1>6, <1>7, <1>8, <1>9, <1>13, <1>15, <1>16, <1>17, <1>19 DEF CleanupRows

LEMMA AnswerRemoval ==
    ASSUME Typed, Flight, Control, Removal, Answer
    PROVE  Removal'
<1>. USE Executing DEF E, O
<1>1. AnswerRows
  BY AnswerByRows
<1>2. db'.groups = db.groups
  BY <1>1 DEF AnswerRows, Readied, Still, RunOnly
<1>3. op' = op \/ (Others(Operator) /\ op'[Operator].pc \in {"cleanup", "down"})
  BY <1>1, DownFields DEF AnswerRows, Begins, Stops
<1>4. \A a \in Command : op'[a].pc \in {"removing", "removed"} => op'[a] = op[a]
  BY <1>3, OthersStay
<1>5. ASSUME NEW g \in Group, NEW p \in Place, TidyByHand(g, p) PROVE NothingKeeps
  <2>1. \A h \in Group : \A q \in Place :
            trees'[h][q] = IF h = g /\ q = p THEN "clean" ELSE trees[h][q]
    BY <1>5 DEF TidyByHand, Shape
  <2>2. trees[g][p] # "absent" /\ heads' = heads
    BY <1>5 DEF TidyByHand
  <2>. QED  BY <2>1, <2>2 DEF NothingKeeps, NothingAt, Exists
<1>6. /\ lease' = lease
      /\ (heads' = heads /\ trees' = trees) \/ \E g \in Group, p \in Place : TidyByHand(g, p)
  BY DEF Answer, AnswerStep, AnswerBatch, BeginAnswerWorkspace, AnswerWorkspace, AnswerHalt,
         MergeByHand, TidyByHand, git
<1>. QED  BY <1>2, <1>4, <1>5, <1>6, RemovalFrame, GitStays, SameLeaseSpares

LEMMA RecoverRemoval ==
    ASSUME Typed, Flight, Control, Removal, Recover
    PROVE  Removal'
<1>. USE Executing DEF E, O
<1>1. RecoverRows
  BY RecoverByRows
<1>2. db'.groups = db.groups
  BY <1>1 DEF RecoverRows, AsksBatch, RunOnly, Interrupted, Joins
<1>3. Others(Operator) /\ op'[Operator].pc \notin {"removing", "removed"}
  BY <1>1, DownFields DEF RecoverRows, Begins, Walks, Stops, Recovers
<1>4. NothingKeeps /\ LeaseSpares
  <2>1. ASSUME NEW d, RecoverCompleted(d) \/ RecoverInterrupted(d)
        PROVE  heads' = heads /\ trees' = trees /\ lease' = lease
    BY <2>1 DEF RecoverCompleted, RecoverInterrupted, git
  <2>2. ASSUME NEW b, RecoverJoin(b) PROVE heads' = heads /\ trees' = trees /\ lease' = lease
    BY <2>2 DEF RecoverJoin, git
  <2>3. ASSUME RecoverStart \/ RecoverDispatched \/ RecoverAsk \/ RecoverJoined
        PROVE  heads' = heads /\ trees' = trees /\ lease' = lease
    BY <2>3 DEF RecoverStart, RecoverDispatched, RecoverAsk, RecoverJoined, git
  <2>4. ASSUME RecoverRelease
        PROVE  heads' = heads /\ trees' = trees /\ LeaseSpares
    BY <2>4, OwnersDiffer DEF RecoverRelease, LeaseSpares, git
  <2>. QED  BY <2>1, <2>2, <2>3, <2>4, GitStays, SameLeaseSpares DEF Recover
<1>. QED  BY <1>2, <1>3, <1>4, RemovalFrame, OthersStay

LEMMA DisturbRemoval ==
    ASSUME Typed, Flight, Control, Writers, Removal, Disturb
    PROVE  Removal'
<1>. USE Executing DEF E, O
<1>1. DisturbRows /\ db' = db
  BY DisturbByRows
<1>2. op' = op \/ \E a \in Command : Others(a) /\ op'[a].pc \notin {"removing", "removed"}
  BY <1>1, DownFields DEF DisturbRows, Stops, Walks
<1>3. \A a \in Command : op'[a].pc \in {"removing", "removed"} => op'[a] = op[a]
  BY <1>2, OthersStay
<1>4. NothingKeeps /\ LeaseSpares
  <2>1. ASSUME NEW a, Crash(a) PROVE heads' = heads /\ trees' = trees /\ lease' = lease
    BY <2>1 DEF Crash, git
  <2>2. ASSUME NEW a, Raises(a) PROVE heads' = heads /\ trees' = trees /\ LeaseSpares
    <3>1. lease' = lease \/ \E owners : lease' = Freed(owners)
      BY <2>2 DEF Raises
    <3>. QED  BY <2>2, <3>1, FreedSpares, SameLeaseSpares DEF Raises, git
  <2>3. ASSUME NEW s, Cancel(s) PROVE heads' = heads /\ trees' = trees /\ lease' = lease
    BY <2>3 DEF Cancel, git
  <2>4. ASSUME NEW s, CancelOvertakes(s) PROVE heads' = heads /\ trees' = trees /\ LeaseSpares
    BY <2>4, FreedSpares DEF CancelOvertakes, git
  <2>5. ASSUME NEW d \in Dispatch, WorkerExits(d) PROVE NothingKeeps /\ lease' = lease
    <3>1. InFlight(d) /\ heads' = heads /\ WorkerStops(d)
      BY <2>5, WorkersAreInFlight DEF WorkerExits
    <3>. QED  BY <2>5, <3>1, StoppedElsewhere DEF WorkerExits
  <2>. QED  BY <1>1, <2>1, <2>2, <2>3, <2>4, <2>5, GitStays, SameLeaseSpares DEF DisturbRows
<1>. QED  BY <1>1, <1>3, <1>4, RemovalFrame

LEMMA RemovalStep ==
    ASSUME Typed, Flight, Control, Writers, Removal, [Next]_vars
    PROVE  Removal'
<1>1. ASSUME UNCHANGED vars PROVE Removal'
  <2>1. db' = db /\ heads' = heads /\ trees' = trees /\ lease' = lease /\ op' = op
    BY <1>1 DEF vars, git
  <2>. QED  BY <2>1, RemovalFrame, GitStays, SameLeaseSpares
<1>. QED  BY <1>1, ProvisionRemoval, PrepareRemoval, WorkRemoval, JoinRemoval, TurnRemoval,
             IntegrateRemoval, CleanupRemoval, AnswerRemoval, RecoverRemoval, DisturbRemoval
          DEF Next

LEMMA RemovalInit ==
    ASSUME Init
    PROVE  Removal
<1>1. (\A a \in Command : op[a] = Down) /\ \A g \in Group : State(g) = "NONE"
  BY DEF Init, State
<1>. QED  BY <1>1, DownFields DEF Removal, CleanedOwnsNothing, State
-----------------------------------------------------------------------------
(* The theorems. *)
IInv ==
    /\ Typed /\ Flight /\ Control /\ Leasing /\ Writers
    /\ Steady /\ Branches /\ Removal

(* The layers together are inductive: from any state they admit, whatever  *)
(* command, thread, worker, operator or crash moves next, they hold again. *)
THEOREM LayersHold == Spec => []IInv
<1>1. Init => IInv
  BY TypedInit, FlightInit, ControlInit, LeasingInit, WritersInit, SteadyInit, BranchesInit,
     RemovalInit
  DEF IInv
<1>2. IInv /\ [Next]_vars => IInv'
  BY TypedStep, FlightStep, ControlStep, LeasingStep, WritersStep, SteadyStep, BranchesStep,
     RemovalStep
  DEF IInv
<1>. QED  BY <1>1, <1>2, PTL DEF Spec

(* The values keep their types: a branch of a worktree is gone or holds    *)
(* work of plan steps, no step has more dispatches than it may have, and a *)
(* run has a request exactly while it waits for the operator.              *)
THEOREM TypeCorrect == Spec => []TypeOK
<1>1. IInv => TypeOK
  BY TypesHold DEF IInv
<1>. QED  BY <1>1, LayersHold, PTL

(* No two live workers share a working copy, for any number of steps,      *)
(* batches, groups, crashes and cancellations: what keeps them apart is    *)
(* the saved state of dispatches, groups and leases, and no process.       *)
THEOREM WorkersNeverShareATree == Spec => []OneWriterPerTree
<1>1. IInv => OneWriterPerTree
  BY WritersAreApart DEF IInv
<1>. QED  BY <1>1, LayersHold, PTL

(* An active or integrating group holds the lease of its repository: the   *)
(* finally clauses of failing dispatches, a refused batch and recover      *)
(* release leases by owner or by step, and never that one.                 *)
THEOREM ActiveGroupsAreLeased == Spec => []ActiveGroupHoldsLease
<1>1. IInv => ActiveGroupHoldsLease
  BY DEF IInv, Leasing
<1>. QED  BY <1>1, LayersHold, PTL

(* Accepted work is always on the default branch or on the branch of its   *)
(* worktree: a rollback, a forced cleanup and a cleanup by the operator    *)
(* delete a branch only when its work is on the default branch.            *)
THEOREM AcceptedWorkIsNeverLost == Spec => []AcceptedWorkSurvives
<1>1. IInv => AcceptedWorkSurvives
  BY DEF IInv, Branches, GroupBranches
<1>. QED  BY <1>1, LayersHold, PTL

(* A group that is saved CLEANED has no branch, worktree or lease left,    *)
(* and gets none again: an interrupted or repeated cleanup that could not  *)
(* remove something never saves CLEANED.                                   *)
THEOREM CleanedGroupsAreGone == Spec => []CleanedOwnsNothing
<1>1. IInv => CleanedOwnsNothing
  BY DEF IInv, Removal
<1>. QED  BY <1>1, LayersHold, PTL

(* The default branch moves, while a group integrates, only to a commit    *)
(* that has the accepted work of every child: neither a sibling, nor the   *)
(* operator, nor a fast-forward that is killed moves it elsewhere.         *)
THEOREM PromotionsAreComplete == Spec => PromotionIsComplete
<1>. DEFINE Completes(g) ==
        /\ db.groups[g].children \subseteq source'[Shared]
        /\ \A s \in db.groups[g].children : db.steps[s].state = "ACCEPTED"
            Whole == \A g \in Group :
                (db.groups[g].state = "INTEGRATING" /\ source'[Shared] # source[Shared])
                    => Completes(g)
<1>1. IInv /\ [Next]_vars => [Whole]_vars
  <2>1. ASSUME IInv, Next PROVE Whole
    BY <2>1, PromotionStep DEF IInv, State
  <2>. QED  BY <2>1
<1>. QED  BY <1>1, LayersHold, PTL DEF Spec, PromotionIsComplete
=============================================================================
