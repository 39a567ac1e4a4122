-------------------------- MODULE ParallelWorkflow --------------------------
(***************************************************************************)
(* Bounded parallel scheduling: the supervisor's batches and the temporary *)
(* worktrees of same-repository batches.                                   *)
(*                                                                         *)
(* The coordinator prepares every child of a batch in one save and runs    *)
(* each in a thread.  The transitions of the threads are serialized by a   *)
(* lock, and a child that fails asks nobody: the batch does, when all its  *)
(* children are resolved.  A stalled child is retried in its thread, by a  *)
(* dispatch that is not in the batch.                                      *)
(*                                                                         *)
(* With same_repository_mode worktree_barrier the steps of a batch share a *)
(* repository and each gets a branch and a linked worktree from one base.  *)
(* The group of them is a saved record that goes ahead of the Git          *)
(* commands; it holds the lease of the repository.  When all its steps are *)
(* accepted, the acknowledgement of the last one merges the branches in an *)
(* integration worktree, fast-forwards the source branch and removes what  *)
(* the group owns.                                                         *)
(*                                                                         *)
(* Sources: scheduler.py, workspaces.py, sequential.py                     *)
(* (prepare_workspace_batch, prepare_batch, finalize_batch, handle_stall,  *)
(* _maybe_integrate_workspace_group), execution.py (execute_batch),        *)
(* state_store.py (the answers), cli.py (answer, recover).                 *)
(***************************************************************************)
EXTENDS Naturals, FiniteSets, WorkflowStates

CONSTANTS
    Step,               \* the plan steps: independent, no review required
    Shared,             \* the repository the steps share in a worktree barrier
    None,
    MaxAttempts,        \* [step -> its max_executor_attempts]
    MaxStallRetries,    \* stall_policy.maximum_retries_per_step
    MaxActive,          \* concurrency.max_active_dispatches
    MaxBatches,         \* bound on the batches of the run
    MaxGroups,          \* bound on its workspace groups
    MaxTroubles         \* bound on crashes, failing Git commands, refused batches
                        \* and cancellations, together

ASSUME BoundAssumption ==
    /\ MaxAttempts \in [Step -> Nat \ {0}]
    /\ {MaxActive, MaxBatches, MaxGroups} \subseteq Nat \ {0}
    /\ {MaxStallRetries, MaxTroubles} \subseteq Nat
    /\ None \notin Step /\ Shared \notin Step

VARIABLES
    barrier,    \* the configuration: worktree_barrier, or a repository for each step
    db,         \* the run record of the state store
    fresh,      \* who holds its generation: commands and worker threads
    lease,      \* [repository -> owner of its lease]
    source,     \* [repository -> the work on its default branch]
    heads,      \* [group -> [place -> the work on the branch]]
    trees,      \* [group -> [place -> its linked worktree]]
    workers,    \* dispatches whose OpenCode process is alive
    thread,     \* [step -> where the worker thread of its dispatch is]
    op,         \* [command -> where the execute, answer or recover process is]
    troubles    \* how often each kind of trouble happened

git == <<source, heads, trees>>
vars == <<barrier, db, fresh, lease, git, workers, thread, op, troubles>>
-----------------------------------------------------------------------------
Repository == Step \cup {Shared}
Dispatch == UNION {{s} \X (1..MaxAttempts[s]) : s \in Step}
Batch == 1..MaxBatches
Group == 1..MaxGroups

(* A branch holds the work of a set of steps: its history.  One commit is  *)
(* an ancestor of another if its work is a subset.                         *)
Integration == Shared
Place == Step \cup {Integration}
Gone == {None}

Execute == "execute"
Operator == "operator"
Command == {Execute, Operator}

RepositoryOf(s) == IF barrier THEN Shared ELSE s

GroupOwner(g) == <<Shared, g>>

(* Nobody is no owner: neither a group nor a dispatch. *)
ASSUME OwnerAssumption == None \notin (Step \cup {Shared}) \X Nat

NoRequest == [kind |-> "none", batch |-> 0, group |-> 0, step |-> None]
Request(kind) == [NoRequest EXCEPT !.kind = kind]

GroupStates ==
    {"NONE", "PREPARED", "ACTIVE", "INTEGRATING", "CLEANUP_PENDING", "CLEANED", "FAILED"}
AdmittedGroupStates == {"PREPARED", "ACTIVE", "INTEGRATING"}

BatchStates == {"NONE", "PREPARED", "RUNNING", "JOINED", "FAILED"}
OpenBatchStates == {"PREPARED", "RUNNING"}

(* The handlers of a thread that have saved once and will save again: the  *)
(* transition lock is held.                                                *)
HandlerStates == {"forwarding", "escalating", "failing", "asking", "stalling", "stall_asking"}
ThreadStates ==
    {"idle", "queued", "working", "committed", "retrying", "done", "raised"} \cup HandlerStates

ProvisionStates == {"leasing", "adding", "undoing", "unprovisioned"}
PrepareStates == {"allocating", "refused", "aborted"}
IntegrationStates == {"integrate", "opening", "merging", "promoted", "unintegrated", "asking"}
CleanupStates == {"cleanup", "checking", "removing", "removed", "unclean"}
RecoverStates == {"recovering", "joining", "join_asking", "releasing"}
CommandStates ==
    {"down", "turn", "running", "batch_asking", "answering"}
        \cup ProvisionStates \cup PrepareStates \cup IntegrationStates
        \cup CleanupStates \cup RecoverStates

DispatchRecord ==
    [state : DispatchStates, batch : Batch \cup {0}, group : Group \cup {0}]
Undispatched == [state |-> "NONE", batch |-> 0, group |-> 0]

RunRecord ==
    [run : {"RUNNING", "WAITING_OPERATOR", "HALTED", "SUCCEEDED"},
     request : [kind : {"none", "batch_reconciliation", "workspace_reconciliation",
                        "reconciliation", "stall_recovery", "escalation"},
                batch : Batch \cup {0}, group : Group \cup {0}, step : Step \cup {None}],
     steps : [Step -> [state : {"READY", "EXECUTING", "BLOCKED", "ACCEPTED"},
                       attempts : Nat, stalls : Nat]],
     dispatches : [Dispatch -> DispatchRecord],
     batches : [Batch -> [state : BatchStates, children : SUBSET Dispatch,
                          failed : SUBSET Dispatch]],
     groups : [Group -> [state : GroupStates, children : SUBSET Step,
                         base : SUBSET Step, promoted : BOOLEAN]]]

ProcessRecord ==
    [pc : CommandStates, group : Group \cup {0}, force : BOOLEAN, batch : Batch \cup {0},
     kids : SUBSET Step, steps : SUBSET Place, dispatches : SUBSET Dispatch,
     failed : BOOLEAN]

(* Types, and the fields of a record that go together. *)
TypeOK ==
    /\ barrier \in BOOLEAN
    /\ db \in RunRecord
    /\ db.request = NoRequest <=> db.run # "WAITING_OPERATOR"
    /\ \A s \in Step : /\ db.steps[s].attempts <= MaxAttempts[s]
                       /\ db.steps[s].stalls <= db.steps[s].attempts
    /\ \A b \in Batch : db.batches[b].failed \subseteq db.batches[b].children
    /\ fresh \subseteq Command \cup Step
    /\ lease \in [Repository ->
                    {None} \cup {GroupOwner(g) : g \in Group} \cup Dispatch]
    /\ source \in [Repository -> SUBSET Step]
    /\ heads \in [Group -> [Place -> (SUBSET Step) \cup {Gone}]]
    /\ trees \in [Group -> [Place -> {"absent", "clean", "dirty"}]]
    /\ workers \subseteq Dispatch
    /\ thread \in [Step -> ThreadStates]
    /\ op \in [Command -> ProcessRecord]
    /\ troubles \in [{"crash", "fault", "cancel"} -> 0..MaxTroubles]
-----------------------------------------------------------------------------
Down == [pc |-> "down", group |-> 0, force |-> FALSE, batch |-> 0, kids |-> {},
         steps |-> {}, dispatches |-> {}, failed |-> FALSE]

Init ==
    /\ barrier \in BOOLEAN
    /\ db = [run |-> "RUNNING", request |-> NoRequest,
             steps |-> [s \in Step |-> [state |-> "READY", attempts |-> 0, stalls |-> 0]],
             dispatches |-> [d \in Dispatch |-> Undispatched],
             batches |-> [b \in Batch |->
                            [state |-> "NONE", children |-> {}, failed |-> {}]],
             groups |-> [g \in Group |->
                            [state |-> "NONE", children |-> {}, base |-> {},
                             promoted |-> FALSE]]]
    /\ fresh = {}
    /\ lease = [r \in Repository |-> None]
    /\ source = [r \in Repository |-> {}]
    /\ heads = [g \in Group |-> [p \in Place |-> Gone]]
    /\ trees = [g \in Group |-> [p \in Place |-> "absent"]]
    /\ workers = {}
    /\ thread = [s \in Step |-> "idle"]
    /\ op = [a \in Command |-> Down]
    /\ troubles = [kind \in {"crash", "fault", "cancel"} |-> 0]

(* save_run: the writer holds the new generation, everybody else an old one. *)
Save(who, new) == db' = new /\ fresh' = {who}

(* Its writer ends, or loads the record before it saves again.             *)
LastSave(new) == db' = new /\ fresh' = {}

(* load_run *)
Load(who) == fresh' = fresh \cup {who}

Goto(a, pc) == op' = [op EXCEPT ![a].pc = pc]
Ends(a) == op' = [op EXCEPT ![a] = Down]
At(a, pc) == op[a].pc = pc

Freed(owners) == [r \in Repository |-> IF lease[r] \in owners THEN None ELSE lease[r]]

Current(s) == <<s, db.steps[s].attempts>>
InState(states) == {d \in Dispatch : db.dispatches[d].state \in states}
Active == InState(ActiveDispatchStates)

Turned(records, key, target) == [records EXCEPT ![key] = [@ EXCEPT !.state = target]]

Moved(s, target) == [db EXCEPT !.steps = Turned(db.steps, s, target)]
Dispatched(new, d, target) ==
    [new EXCEPT !.dispatches = Turned(new.dispatches, d, target)]
Waiting(new, request) == [new EXCEPT !.run = "WAITING_OPERATOR", !.request = request]
Running(new) == [new EXCEPT !.run = "RUNNING", !.request = NoRequest]
Grouped(g, target) == [db EXCEPT !.groups = Turned(db.groups, g, target)]

(* _workspace_group_for_step *)
GroupFor(s) ==
    LET owning == {g \in Group : /\ db.groups[g].state \in {"ACTIVE", "INTEGRATING"}
                                 /\ s \in db.groups[g].children}
    IN  IF owning = {} THEN 0 ELSE CHOOSE g \in owning : TRUE

Trouble(kind) ==
    /\ troubles["crash"] + troubles["fault"] + troubles["cancel"] < MaxTroubles
    /\ troubles' = [troubles EXCEPT ![kind] = @ + 1]
Fault == Trouble("fault")
-----------------------------------------------------------------------------
(* SequentialWorkflow.prepare_workspace_batch and WorkspaceCoordinator.     *)
(* prepare: the group is saved, then the lease, then one worktree a time.  *)

AtCommand ==
    /\ At(Execute, "turn") /\ op[Execute].dispatches = {}
    /\ Execute \in fresh
    /\ db.run = "RUNNING"

NextGroup == {g \in Group : /\ db.groups[g].state = "NONE"
                            /\ \A h \in 1..(g - 1) : db.groups[h].state # "NONE"}
NextBatch == {b \in Batch : /\ db.batches[b].state = "NONE"
                            /\ \A c \in 1..(b - 1) : db.batches[c].state # "NONE"}

(* validate_workspace_batch *)
WorkspaceBatchValid(kids) ==
    /\ barrier /\ Cardinality(kids) >= 2
    /\ \A s \in kids : db.steps[s].state = "READY"
    /\ Cardinality(Active) + Cardinality(kids) <= MaxActive
    /\ \A g \in Group : db.groups[g].state \notin AdmittedGroupStates

PlanGroup(g, b, kids) ==
    /\ AtCommand
    /\ g \in NextGroup /\ b \in NextBatch
    /\ WorkspaceBatchValid(kids)
    /\ Save(Execute,
            [db EXCEPT !.groups = [db.groups EXCEPT ![g] =
                [state |-> "PREPARED", children |-> kids, base |-> source[Shared],
                 promoted |-> FALSE]]])
    /\ op' = [op EXCEPT ![Execute] =
                [Down EXCEPT !.pc = "leasing", !.group = g, !.batch = b, !.kids = kids,
                             !.steps = kids]]
    /\ UNCHANGED <<barrier, lease, git, workers, thread, troubles>>

LeaseGroup ==
    LET g == op[Execute].group IN
    /\ At(Execute, "leasing")
    /\ IF lease[Shared] = None
       THEN /\ lease' = [lease EXCEPT ![Shared] = GroupOwner(g)]
            /\ Goto(Execute, "adding")
       ELSE /\ Goto(Execute, "unprovisioned")
            /\ UNCHANGED lease
    /\ UNCHANGED <<barrier, db, fresh, git, workers, thread, troubles>>

(* git worktree add -b: the branch and the worktree at the base. *)
Added(g, p) ==
    /\ heads' = [heads EXCEPT ![g][p] = db.groups[g].base]
    /\ trees' = [trees EXCEPT ![g][p] = "clean"]
    /\ UNCHANGED source

AddTree(s) ==
    LET g == op[Execute].group IN
    /\ At(Execute, "adding") /\ s \in op[Execute].steps
    /\ source[Shared] = db.groups[g].base
    /\ Added(g, s)
    /\ op' = [op EXCEPT ![Execute].steps = @ \ {s}]
    /\ UNCHANGED <<barrier, db, fresh, lease, workers, thread, troubles>>

(* A failing command may have created the branch, and nobody undoes that. *)
AddTreeFails(s) ==
    LET g == op[Execute].group IN
    /\ At(Execute, "adding") /\ s \in op[Execute].steps
    /\ Fault
    /\ \E branch \in {Gone, db.groups[g].base} :
            heads' = [heads EXCEPT ![g][s] = branch]
    /\ op' = [op EXCEPT ![Execute] =
                [@ EXCEPT !.pc = "undoing", !.steps = op[Execute].kids \ op[Execute].steps]]
    /\ UNCHANGED <<barrier, db, fresh, lease, source, trees, workers, thread>>

(* _rollback_created *)
Undo(s) ==
    LET g == op[Execute].group IN
    /\ At(Execute, "undoing") /\ s \in op[Execute].steps
    /\ heads' = [heads EXCEPT ![g][s] = Gone]
    /\ trees' = [trees EXCEPT ![g][s] = "absent"]
    /\ op' = [op EXCEPT ![Execute].steps = @ \ {s}]
    /\ UNCHANGED <<barrier, db, fresh, lease, source, workers, thread, troubles>>

Undone ==
    /\ At(Execute, "undoing") /\ op[Execute].steps = {}
    /\ lease' = Freed({GroupOwner(op[Execute].group)})
    /\ Goto(Execute, "unprovisioned")
    /\ UNCHANGED <<barrier, db, fresh, git, workers, thread, troubles>>

FailGroup ==
    /\ At(Execute, "unprovisioned") /\ Execute \in fresh
    /\ LastSave(Grouped(op[Execute].group, "FAILED"))
    /\ Ends(Execute)
    /\ UNCHANGED <<barrier, lease, git, workers, thread, troubles>>

ActivateGroup ==
    /\ At(Execute, "adding") /\ op[Execute].steps = {}
    /\ Execute \in fresh
    /\ Save(Execute, Grouped(op[Execute].group, "ACTIVE"))
    /\ Goto(Execute, "allocating")
    /\ UNCHANGED <<barrier, lease, git, workers, thread, troubles>>
-----------------------------------------------------------------------------
(* prepare_batch and prepare_dispatch: the leases of the children one by   *)
(* one, then one save for all of them.                                     *)

(* _active_resource_keys: by the repository of the step, worktree or not. *)
ActiveRepositories == {RepositoryOf(d[1]) : d \in Active}

(* validate_batch *)
BatchValid(kids) ==
    /\ \A s \in kids : /\ db.steps[s].state = "READY"
                       /\ db.steps[s].attempts < MaxAttempts[s]
                       /\ RepositoryOf(s) \notin ActiveRepositories
    /\ Cardinality({RepositoryOf(s) : s \in kids}) = Cardinality(kids)
    /\ Cardinality(Active) + Cardinality(kids) <= MaxActive

(* A workspace child needs no lease: its group holds the repository. *)
Allocate(b, g, kids) ==
    /\ op' = [op EXCEPT ![Execute] =
                [Down EXCEPT !.pc = "allocating", !.batch = b, !.group = g, !.kids = kids,
                             !.steps = IF g = 0 THEN kids ELSE {}]]
    /\ UNCHANGED <<barrier, db, fresh, lease, git, workers, thread, troubles>>

CommandBatch(b, kids) ==
    /\ AtCommand /\ b \in NextBatch
    /\ kids # {} /\ BatchValid(kids)
    /\ ~(barrier /\ Cardinality(kids) >= 2)
    /\ Allocate(b, 0, kids)

CommandDispatch(s) ==
    /\ AtCommand
    /\ BatchValid({s})
    /\ Allocate(0, GroupFor(s), {s})

NextDispatch(s) == <<s, db.steps[s].attempts + 1>>
Allocated == {NextDispatch(s) : s \in op[Execute].kids}

LeaseChild(s) ==
    LET r == RepositoryOf(s) IN
    /\ At(Execute, "allocating") /\ s \in op[Execute].steps
    /\ IF lease[r] = None
       THEN /\ lease' = [lease EXCEPT ![r] = NextDispatch(s)]
            /\ op' = [op EXCEPT ![Execute].steps = @ \ {s}]
       ELSE /\ lease' = Freed(Allocated)
            /\ Ends(Execute)
    /\ UNCHANGED <<barrier, db, fresh, git, workers, thread, troubles>>

(* The workdir of a workspace child must be there and clean. *)
TreeReady(g, s) == g # 0 => trees[g][s] = "clean"

(* The record with a PREPARED dispatch for each of the steps. *)
Prepared(b, g, kids) ==
    [db EXCEPT
        !.dispatches = [d \in Dispatch |->
            IF d \in {NextDispatch(s) : s \in kids}
            THEN [state |-> "PREPARED", batch |-> b, group |-> g] ELSE db.dispatches[d]],
        !.steps = [s \in Step |->
            IF s \in kids
            THEN [db.steps[s] EXCEPT !.state = "EXECUTING", !.attempts = @ + 1]
            ELSE db.steps[s]],
        !.batches = [c \in Batch |->
            IF c = b
            THEN [state |-> "PREPARED", children |-> {NextDispatch(s) : s \in kids},
                  failed |-> {}]
            ELSE db.batches[c]]]

MayPrepare(g, kids) ==
    \A s \in kids : db.steps[s].attempts < MaxAttempts[s] /\ TreeReady(g, s)

SavePrepared ==
    LET e == op[Execute] IN
    /\ At(Execute, "allocating") /\ e.steps = {}
    /\ Execute \in fresh
    /\ MayPrepare(e.group, e.kids)
    /\ Save(Execute, Prepared(e.batch, e.group, e.kids))
    /\ thread' = [s \in Step |-> IF s \in e.kids THEN "queued" ELSE thread[s]]
    /\ Goto(Execute, "running")
    /\ UNCHANGED <<barrier, lease, git, workers, troubles>>

(* A refused workspace batch removes the group by force. *)
RefusePrepare ==
    LET e == op[Execute] IN
    /\ At(Execute, "allocating") /\ e.steps = {}
    /\ IF MayPrepare(e.group, e.kids) THEN Fault ELSE UNCHANGED troubles
    /\ lease' = Freed(Allocated)
    /\ IF e.group # 0 /\ e.batch # 0
       THEN op' = [op EXCEPT ![Execute] = [@ EXCEPT !.pc = "cleanup", !.force = TRUE]]
       ELSE Ends(Execute)
    /\ UNCHANGED <<barrier, db, fresh, git, workers, thread>>
-----------------------------------------------------------------------------
(* The threads of execute_batch: execute_worker for one child each.  Its   *)
(* transitions are serialized; each loads the record itself.               *)

LockFree == \A s \in Step : thread[s] \notin HandlerStates

Steps(s, pc) == thread' = [thread EXCEPT ![s] = pc]

TreeOf(d) == LET g == db.dispatches[d].group
             IN  IF g = 0 THEN <<RepositoryOf(d[1]), 0>> ELSE <<d[1], g>>

(* mark_running *)
Launch(s) ==
    LET d == Current(s)
        b == db.dispatches[d].batch
        g == db.dispatches[d].group
    IN
    /\ thread[s] = "queued" /\ LockFree
    /\ LastSave([Dispatched(db, d, "RUNNING") EXCEPT
                    !.batches = Turned(db.batches, b, "RUNNING")])
    /\ workers' = workers \cup {d}
    /\ trees' = IF g # 0 THEN [trees EXCEPT ![g][s] = "dirty"] ELSE trees
    /\ Steps(s, "working")
    /\ UNCHANGED <<barrier, lease, source, heads, op, troubles>>

(* A worker ends: what it left in its worktree may be nothing. *)
WorkerStops(d) ==
    LET g == db.dispatches[d].group IN
    /\ workers' = workers \ {d}
    /\ \/ UNCHANGED trees
       \/ g # 0 /\ trees' = [trees EXCEPT ![g][d[1]] = "clean"]

(* The worker ends with changes that pass the checks: they are committed.  *)
CommitWork(s) ==
    LET d == Current(s)
        g == db.dispatches[d].group
        r == RepositoryOf(s)
    IN
    /\ thread[s] = "working" /\ d \in workers
    /\ IF g = 0
       THEN /\ source' = [source EXCEPT ![r] = @ \cup {s}]
            /\ UNCHANGED <<heads, trees>>
       ELSE /\ heads' = [heads EXCEPT ![g][s] = @ \cup {s}]
            /\ trees' = [trees EXCEPT ![g][s] = "clean"]
            /\ UNCHANGED source
    /\ workers' = workers \ {d}
    /\ Steps(s, "committed")
    /\ UNCHANGED <<barrier, db, fresh, lease, op, troubles>>

(* apply_executor_result, first save: COMPLETED and the outcome. *)
ApplyCompleted(s) ==
    /\ thread[s] = "committed" /\ LockFree
    /\ Save(s, Dispatched(Moved(s, "ACCEPTED"), Current(s), "COMPLETED"))
    /\ Steps(s, "forwarding")
    /\ UNCHANGED <<barrier, lease, git, workers, op, troubles>>

ApplyBlocked(s) ==
    /\ thread[s] = "working" /\ Current(s) \in workers /\ LockFree
    /\ Save(s, Dispatched(Moved(s, "BLOCKED"), Current(s), "COMPLETED"))
    /\ WorkerStops(Current(s))
    /\ Steps(s, "escalating")
    /\ UNCHANGED <<barrier, lease, source, heads, op, troubles>>

PersistForwarded(s) ==
    /\ thread[s] = "forwarding" /\ s \in fresh
    /\ Save(s, Dispatched(db, Current(s), "FORWARDED"))
    /\ lease' = Freed({Current(s)})
    /\ Steps(s, "done")
    /\ UNCHANGED <<barrier, git, workers, op, troubles>>

(* The escalation is in the second save, and a run that waits cannot wait. *)
PersistEscalated(s) ==
    /\ thread[s] = "escalating" /\ s \in fresh
    /\ db.run = "RUNNING"
    /\ Save(s, Waiting(Dispatched(db, Current(s), "FORWARDED"),
                       [Request("escalation") EXCEPT !.step = s]))
    /\ lease' = Freed({Current(s)})
    /\ Steps(s, "done")
    /\ UNCHANGED <<barrier, git, workers, op, troubles>>

(* fail_dispatch *)
FailDispatch(s) ==
    /\ thread[s] \in {"working", "committed"} /\ LockFree
    /\ Save(s, Dispatched(db, Current(s), "FAILED"))
    /\ WorkerStops(Current(s))
    /\ Steps(s, "failing")
    /\ UNCHANGED <<barrier, lease, source, heads, op, troubles>>

FailStep(s) ==
    LET single == db.dispatches[Current(s)].batch = 0 IN
    /\ thread[s] = "failing" /\ s \in fresh
    /\ Save(s, Moved(s, "BLOCKED"))
    /\ lease' = IF single THEN lease ELSE Freed({Current(s)})
    /\ Steps(s, IF single THEN "asking" ELSE "raised")
    /\ UNCHANGED <<barrier, git, workers, op, troubles>>

AskReconciliation(s) ==
    /\ thread[s] = "asking" /\ s \in fresh
    /\ db.run = "RUNNING"
    /\ Save(s, Waiting(db, [Request("reconciliation") EXCEPT !.step = s]))
    /\ lease' = Freed({Current(s)})
    /\ Steps(s, "raised")
    /\ UNCHANGED <<barrier, git, workers, op, troubles>>

(* handle_stall: a timeout, a lost connection, a process that was killed. *)
StallDispatch(s) ==
    /\ thread[s] = "working" /\ LockFree
    /\ Save(s, Dispatched(db, Current(s), "FAILED"))
    /\ WorkerStops(Current(s))
    /\ Steps(s, "stalling")
    /\ UNCHANGED <<barrier, lease, source, heads, op, troubles>>

RetryAllowed(s) ==
    /\ db.steps[s].stalls + 1 <= MaxStallRetries
    /\ db.steps[s].attempts < MaxAttempts[s]

StallStep(s) ==
    /\ thread[s] = "stalling" /\ s \in fresh
    /\ Save(s, [db EXCEPT !.steps = [db.steps EXCEPT ![s] =
                    [db.steps[s] EXCEPT !.state = IF RetryAllowed(s) THEN "READY" ELSE "BLOCKED",
                                        !.stalls = @ + 1]]])
    /\ lease' = IF RetryAllowed(s) THEN Freed({Current(s)}) ELSE lease
    /\ Steps(s, IF RetryAllowed(s) THEN "retrying" ELSE "stall_asking")
    /\ UNCHANGED <<barrier, git, workers, op, troubles>>

AskStallRecovery(s) ==
    /\ thread[s] = "stall_asking" /\ s \in fresh
    /\ db.run = "RUNNING"
    /\ Save(s, Waiting(db, [Request("stall_recovery") EXCEPT !.step = s]))
    /\ lease' = Freed({Current(s)})
    /\ Steps(s, "raised")
    /\ UNCHANGED <<barrier, git, workers, op, troubles>>

(* A save with a stale generation, or a second request, raises out of the  *)
(* handler.  Only fail_dispatch releases its leases in a finally clause.   *)
HandlerRaises(s) ==
    /\ thread[s] \in HandlerStates
    /\ \/ s \notin fresh
       \/ thread[s] \in {"escalating", "asking", "stall_asking"} /\ db.run # "RUNNING"
    /\ lease' = IF thread[s] \in {"failing", "asking"} THEN Freed({Current(s)}) ELSE lease
    /\ Steps(s, "raised")
    /\ UNCHANGED <<barrier, db, fresh, git, workers, op, troubles>>

(* prepare_stall_retry: a dispatch of its own, at the generation that      *)
(* handle_stall left and outside of the lock.                              *)
MayRetry(s) ==
    /\ s \in fresh
    /\ db.run = "RUNNING"
    /\ BatchValid({s})
    /\ IF GroupFor(s) = 0 THEN lease[RepositoryOf(s)] = None
                          ELSE TreeReady(GroupFor(s), s)

RetryStalled(s) ==
    /\ thread[s] = "retrying"
    /\ IF MayRetry(s)
       THEN /\ Save(s, Prepared(0, GroupFor(s), {s}))
            /\ lease' = IF GroupFor(s) = 0
                        THEN [lease EXCEPT ![RepositoryOf(s)] = NextDispatch(s)] ELSE lease
            /\ Steps(s, "queued")
       ELSE /\ Steps(s, "raised")
            /\ UNCHANGED <<db, fresh, lease>>
    /\ UNCHANGED <<barrier, git, workers, op, troubles>>

(* request_dispatch_cancellation by the cancel command: a save, then the   *)
(* process is killed and its worker is interrupted.                        *)
Cancel(s) ==
    /\ Current(s) \in InState({"RUNNING"})
    /\ fresh' = {}
    /\ workers' = workers \ {Current(s)}
    /\ Trouble("cancel")
    /\ UNCHANGED <<barrier, db, lease, git, thread, op>>

(* The same save between the load and the first save of a failure handler: *)
(* the dispatch stays RUNNING.                                             *)
CancelOvertakes(s) ==
    /\ thread[s] = "working" /\ LockFree
    /\ fresh' = {}
    /\ workers' = workers \ {Current(s)}
    /\ Trouble("cancel")
    /\ \E owners \in {{}, {Current(s)}} : lease' = Freed(owners)
    /\ Steps(s, "raised")
    /\ UNCHANGED <<barrier, db, git, op>>
-----------------------------------------------------------------------------
(* The end of execute_worker for one dispatch, and of execute_batch.       *)

ThreadsEnded == \A s \in op[Execute].kids : thread[s] \in {"done", "raised"}
ThreadsIdle == thread' = [s \in Step |-> "idle"]

Delivered(kids) == {Current(s) : s \in {k \in kids : thread[k] = "done"}}

(* Mutant: a child is unresolved until its result is acknowledged. *)
UnresolvedUntilAcknowledged(b) ==
    {d \in db.batches[b].children : db.dispatches[d].state \in ActiveDispatchStates}

Unresolved(b) == {d \in db.batches[b].children :
                    db.dispatches[d].state \in {"PREPARED", "RUNNING", "COMPLETED"}}
FailedChildren(b) == {d \in db.batches[b].children :
                        db.dispatches[d].state \in {"FAILED", "ABANDONED"}}

(* Mutant: the failed dispatches of the steps, those outside the batch too. *)
JoinedByStep(b) ==
    LET failed == {d \in InState({"FAILED", "ABANDONED"}) :
                    \E e \in db.batches[b].children : e[1] = d[1]}
    IN  [db EXCEPT !.batches = [db.batches EXCEPT ![b] =
            [db.batches[b] EXCEPT !.state = IF failed = {} THEN "JOINED" ELSE "FAILED",
                                  !.failed = failed]]]

(* finalize_batch, first save *)
Joined(b) ==
    [db EXCEPT !.batches = [db.batches EXCEPT ![b] =
        [db.batches[b] EXCEPT !.state = IF FailedChildren(b) = {} THEN "JOINED" ELSE "FAILED",
                              !.failed = FailedChildren(b)]]]

AskBatch(b) == Waiting(db, [Request("batch_reconciliation") EXCEPT !.batch = b])

NextTurn(dispatches) ==
    op' = [op EXCEPT ![Execute] = [Down EXCEPT !.pc = "turn", !.dispatches = dispatches]]

DispatchEnds ==
    /\ At(Execute, "running") /\ op[Execute].batch = 0 /\ ThreadsEnded
    /\ IF Delivered(op[Execute].kids) # {} /\ db.run = "RUNNING"
       THEN NextTurn(Delivered(op[Execute].kids)) ELSE Ends(Execute)
    /\ fresh' = IF op[Execute].kids \cap fresh # {}
                THEN fresh \cup {Execute} ELSE fresh \ {Execute}
    /\ ThreadsIdle
    /\ UNCHANGED <<barrier, db, lease, git, workers, troubles>>

(* A child that is not resolved raises, and nobody joins the batch.  The   *)
(* request is a second save, and only of a run that is RUNNING.            *)
FinalizeBatch ==
    LET b == op[Execute].batch IN
    /\ At(Execute, "running") /\ b # 0 /\ ThreadsEnded
    /\ IF Unresolved(b) = {}
       THEN /\ Save(Execute, Joined(b))
            /\ IF db.run # "RUNNING" THEN Ends(Execute)
               ELSE IF FailedChildren(b) = {} THEN NextTurn(Delivered(op[Execute].kids))
               ELSE Goto(Execute, "batch_asking")
       ELSE /\ Ends(Execute)
            /\ UNCHANGED <<db, fresh>>
    /\ ThreadsIdle
    /\ UNCHANGED <<barrier, lease, git, workers, troubles>>

AskBatchReconciliation ==
    /\ At(Execute, "batch_asking") /\ Execute \in fresh
    /\ LastSave(AskBatch(op[Execute].batch))
    /\ Ends(Execute)
    /\ UNCHANGED <<barrier, lease, git, workers, thread, troubles>>
-----------------------------------------------------------------------------
(* run_to_completion.  The execute command refuses a run with unresolved  *)
(* recovery work: a dispatch that is not settled, a group not CLEANED.     *)
Start ==
    /\ At(Execute, "down") /\ op[Operator].pc \notin RecoverStates
    /\ db.run = "RUNNING"
    /\ Active = {}
    /\ \A g \in Group : db.groups[g].state \in {"NONE", "CLEANED"}
    /\ Load(Execute)
    /\ NextTurn({})
    /\ UNCHANGED <<barrier, db, lease, git, workers, thread, troubles>>

(* Mutant: integrates at the first acknowledgement. *)
MayIntegrateEarly(new, g) ==
    /\ new.groups[g].state = "ACTIVE"
    /\ \A d \in Dispatch : ~ /\ new.dispatches[d].group = g
                             /\ new.dispatches[d].state \in ActiveDispatchStates

(* acknowledge_forwarding and the guards of _maybe_integrate_workspace_    *)
(* group, which read the record with the acknowledgement.                  *)
MayIntegrate(new, g) ==
    /\ new.groups[g].state = "ACTIVE"
    /\ \A s \in new.groups[g].children : new.steps[s].state = "ACCEPTED"
    /\ \A d \in Dispatch : ~ /\ new.dispatches[d].group = g
                             /\ new.dispatches[d].state \in ActiveDispatchStates

Acknowledge(d) ==
    LET new == Dispatched(db, d, "ACKNOWLEDGED")
        g == db.dispatches[d].group
    IN
    /\ At(Execute, "turn") /\ d \in op[Execute].dispatches
    /\ Execute \in fresh
    /\ Save(Execute, new)
    /\ op' = [op EXCEPT ![Execute] =
                [@ EXCEPT !.dispatches = op[Execute].dispatches \ {d},
                          !.pc = IF g # 0 /\ MayIntegrate(new, g) THEN "integrate" ELSE "turn",
                          !.group = g]]
    /\ UNCHANGED <<barrier, lease, git, workers, thread, troubles>>

(* evaluate_completion: no obligation is about a workspace group. *)
Complete ==
    /\ AtCommand
    /\ \A s \in Step : db.steps[s].state = "ACCEPTED"
    /\ Active = {}
    /\ LastSave([db EXCEPT !.run = "SUCCEEDED"])
    /\ Ends(Execute)
    /\ UNCHANGED <<barrier, lease, git, workers, thread, troubles>>

(* A run that waits takes no command. *)
Stop ==
    /\ At(Execute, "turn") /\ op[Execute].dispatches = {}
    /\ db.run # "RUNNING"
    /\ Ends(Execute)
    /\ UNCHANGED <<barrier, db, fresh, lease, git, workers, thread, troubles>>
-----------------------------------------------------------------------------
(* WorkspaceCoordinator.integrate: the intent is saved, then the children  *)
(* are merged in an integration worktree and the source is fast-forwarded. *)

BeginIntegration ==
    /\ At(Execute, "integrate") /\ Execute \in fresh
    /\ Save(Execute, Grouped(op[Execute].group, "INTEGRATING"))
    /\ Goto(Execute, "opening")
    /\ UNCHANGED <<barrier, lease, git, workers, thread, troubles>>

OpenIntegration ==
    LET g == op[Execute].group IN
    /\ At(Execute, "opening")
    /\ source[Shared] = db.groups[g].base
    /\ heads[g][Integration] = Gone /\ trees[g][Integration] = "absent"
    /\ Added(g, Integration)
    /\ op' = [op EXCEPT ![Execute] =
                [@ EXCEPT !.pc = "merging", !.steps = db.groups[g].children]]
    /\ UNCHANGED <<barrier, db, fresh, lease, workers, thread, troubles>>

MergeChild(s) ==
    LET g == op[Execute].group IN
    /\ At(Execute, "merging") /\ s \in op[Execute].steps
    /\ heads[g][s] # Gone
    /\ heads' = [heads EXCEPT ![g][Integration] = @ \cup heads[g][s]]
    /\ op' = [op EXCEPT ![Execute].steps = @ \ {s}]
    /\ UNCHANGED <<barrier, db, fresh, lease, source, trees, workers, thread, troubles>>

(* git merge --ff-only *)
Promote ==
    LET g == op[Execute].group IN
    /\ At(Execute, "merging") /\ op[Execute].steps = {}
    /\ source[Shared] \subseteq heads[g][Integration]
    /\ source' = [source EXCEPT ![Shared] = heads[g][Integration]]
    /\ Goto(Execute, "promoted")
    /\ UNCHANGED <<barrier, db, fresh, lease, heads, trees, workers, thread, troubles>>

(* A Git command fails: the source moved, a merge conflicts and leaves the *)
(* integration worktree dirty, or the fast-forward is killed after it.     *)
IntegrationFails ==
    LET g == op[Execute].group IN
    /\ op[Execute].pc \in {"opening", "merging"}
    /\ IF source[Shared] # db.groups[g].base THEN UNCHANGED troubles ELSE Fault
    /\ \E dirty \in BOOLEAN :
            trees' = IF dirty /\ trees[g][Integration] # "absent"
                     THEN [trees EXCEPT ![g][Integration] = "dirty"] ELSE trees
    /\ \E late \in BOOLEAN :
            source' = IF late /\ At(Execute, "merging") /\ op[Execute].steps = {}
                      THEN [source EXCEPT ![Shared] = heads[g][Integration]] ELSE source
    /\ Goto(Execute, "unintegrated")
    /\ UNCHANGED <<barrier, db, fresh, lease, heads, workers, thread>>

SavePromoted ==
    LET g == op[Execute].group IN
    /\ At(Execute, "promoted") /\ Execute \in fresh
    /\ Save(Execute, [db EXCEPT !.groups =
                        [db.groups EXCEPT ![g] = [@ EXCEPT !.promoted = TRUE]]])
    /\ Goto(Execute, "cleanup")
    /\ UNCHANGED <<barrier, lease, git, workers, thread, troubles>>

FailIntegration ==
    /\ At(Execute, "unintegrated") /\ Execute \in fresh
    /\ Save(Execute, Grouped(op[Execute].group, "FAILED"))
    /\ Goto(Execute, "asking")
    /\ UNCHANGED <<barrier, lease, git, workers, thread, troubles>>

AskWorkspaceReconciliation ==
    /\ At(Execute, "asking")
    /\ db.run = "RUNNING"
    /\ Save(Execute, Waiting(db, [Request("workspace_reconciliation")
                                    EXCEPT !.group = op[Execute].group]))
    /\ NextTurn(op[Execute].dispatches)
    /\ UNCHANGED <<barrier, lease, git, workers, thread, troubles>>
-----------------------------------------------------------------------------
(* WorkspaceCoordinator.cleanup: after the integration, by force after a   *)
(* refused batch, and in the answer command.                               *)

BeginCleanup(a) ==
    LET g == op[a].group
        state == db.groups[g].state
    IN
    /\ At(a, "cleanup") /\ a \in fresh
    /\ IF state = "CLEANUP_PENDING" \/ state = "CLEANED"
       THEN UNCHANGED <<db, fresh>> ELSE Save(a, Grouped(g, "CLEANUP_PENDING"))
    /\ op' = [op EXCEPT ![a].pc = IF state = "CLEANED" THEN "answering" ELSE "checking"]
    /\ UNCHANGED <<barrier, lease, git, workers, thread, troubles>>

(* Mutant: looks at the worktrees and not at the branches. *)
RemovableIfClean(g) ==
    \A p \in Place : trees[g][p] # "dirty"

(* _validate_non_force_cleanup: clean worktrees and merged branches. *)
Removable(g) ==
    /\ \A p \in Place : trees[g][p] # "dirty"
    /\ \A p \in Place : heads[g][p] # Gone => heads[g][p] \subseteq source[Shared]

Owned(g) == db.groups[g].children \cup {Integration}

CheckCleanup(a) ==
    LET g == op[a].group IN
    /\ At(a, "checking")
    /\ op' = [op EXCEPT ![a] =
                [@ EXCEPT !.pc = IF op[a].force \/ Removable(g) THEN "removing" ELSE "unclean",
                          !.steps = Owned(g), !.failed = FALSE]]
    /\ UNCHANGED <<barrier, db, fresh, lease, git, workers, thread, troubles>>

(* git worktree remove, then git branch --delete, which fails for the      *)
(* branch of a child that is gone: nothing asks first.                     *)
Removed(a, p, missing) ==
    op' = [op EXCEPT ![a] =
            [@ EXCEPT !.steps = op[a].steps \ {p}, !.failed = op[a].failed \/ missing]]

RemovePlace(a, p) ==
    LET g == op[a].group IN
    /\ At(a, "removing") /\ p \in op[a].steps
    /\ p = Integration => op[a].steps = {Integration}
    /\ trees' = [trees EXCEPT ![g][p] = "absent"]
    /\ heads' = [heads EXCEPT ![g][p] = Gone]
    /\ Removed(a, p, p # Integration /\ heads[g][p] = Gone)
    /\ UNCHANGED <<barrier, db, fresh, lease, source, workers, thread, troubles>>

(* The first or the second command of the two fails. *)
RemovePlaceFails(a, p) ==
    LET g == op[a].group IN
    /\ At(a, "removing") /\ p \in op[a].steps
    /\ p = Integration => op[a].steps = {Integration}
    /\ Fault
    /\ \E tree \in {trees[g][p], "absent"} : trees' = [trees EXCEPT ![g][p] = tree]
    /\ Removed(a, p, TRUE)
    /\ UNCHANGED <<barrier, db, fresh, lease, source, heads, workers, thread>>

(* Mutant: forgets what could not be removed. *)
EndRemovalRegardless(a) ==
    /\ At(a, "removing") /\ op[a].steps = {}
    /\ Goto(a, "removed")
    /\ lease' = Freed({GroupOwner(op[a].group)})
    /\ UNCHANGED <<barrier, db, fresh, git, workers, thread, troubles>>

EndRemoval(a) ==
    /\ At(a, "removing") /\ op[a].steps = {}
    /\ IF op[a].failed
       THEN /\ Goto(a, "unclean")
            /\ UNCHANGED lease
       ELSE /\ Goto(a, "removed")
            /\ lease' = Freed({GroupOwner(op[a].group)})
    /\ UNCHANGED <<barrier, db, fresh, git, workers, thread, troubles>>

AfterCleanup(a) ==
    IF a = Operator THEN Goto(a, "answering")
    ELSE IF op[a].force THEN Ends(a)
    ELSE NextTurn(op[a].dispatches)

SaveCleaned(a) ==
    /\ At(a, "removed") /\ a \in fresh
    /\ Save(a, Grouped(op[a].group, "CLEANED"))
    /\ AfterCleanup(a)
    /\ UNCHANGED <<barrier, lease, git, workers, thread, troubles>>

SaveUnclean(a) ==
    /\ At(a, "unclean") /\ a \in fresh
    /\ Save(a, Grouped(op[a].group, "FAILED"))
    /\ IF a = Execute /\ ~op[a].force THEN Goto(a, "asking") ELSE Ends(a)
    /\ UNCHANGED <<barrier, lease, git, workers, thread, troubles>>

(* A save with a stale generation ends the command.  What prepare catches  *)
(* releases the lease first, and a cleanup that does not begin is a        *)
(* WorkspaceError like one that fails.                                     *)
Raises(a) ==
    /\ a \notin fresh
    /\ \/ op[a].pc \in {"turn", "unprovisioned", "batch_asking", "integrate", "promoted",
                        "unintegrated", "cleanup", "removed", "unclean", "answering"}
       \/ op[a].pc \in {"adding", "allocating"} /\ op[a].steps = {}
    /\ IF At(a, "cleanup") /\ a = Execute /\ ~op[a].force THEN Goto(a, "asking") ELSE Ends(a)
    /\ lease' = CASE At(a, "adding") -> Freed({GroupOwner(op[a].group)})
                  [] At(a, "allocating") -> Freed(Allocated)
                  [] OTHER -> lease
    /\ UNCHANGED <<barrier, db, fresh, git, workers, thread, troubles>>
-----------------------------------------------------------------------------
(* The answer command. *)

Answering(kind) ==
    /\ At(Operator, "down")
    /\ db.run = "WAITING_OPERATOR" /\ db.request.kind = kind

(* reconcile, retry and reassign of one step *)
AnswerStep ==
    LET s == db.request.step IN
    /\ \E kind \in {"reconciliation", "stall_recovery", "escalation"} : Answering(kind)
    /\ db.steps[s].state = "BLOCKED"
    /\ LastSave(Running(Moved(s, "READY")))
    /\ UNCHANGED <<barrier, lease, git, workers, thread, op, troubles>>

(* batch_reconciliation: every failed child, or nothing. *)
Reconcilable(b) ==
    \A d \in db.batches[b].failed : db.steps[d[1]].state = "BLOCKED"

AnswerBatch ==
    LET b == db.request.batch
        affected == {d[1] : d \in db.batches[b].failed}
    IN
    /\ Answering("batch_reconciliation")
    /\ Reconcilable(b)
    /\ LastSave(
            Running([db EXCEPT !.steps = [s \in Step |->
                IF s \in affected THEN [db.steps[s] EXCEPT !.state = "READY"]
                ELSE db.steps[s]]]))
    /\ UNCHANGED <<barrier, lease, git, workers, thread, op, troubles>>

(* workspace_reconciliation: a cleanup without force goes first. *)
BeginAnswerWorkspace ==
    /\ Answering("workspace_reconciliation")
    /\ Load(Operator)
    /\ op' = [op EXCEPT ![Operator] = [Down EXCEPT !.pc = "cleanup",
                                                   !.group = db.request.group]]
    /\ UNCHANGED <<barrier, db, lease, git, workers, thread, troubles>>

AnswerWorkspace ==
    /\ At(Operator, "answering") /\ Operator \in fresh
    /\ db.request.kind = "workspace_reconciliation"
    /\ db.groups[db.request.group].state = "CLEANED"
    /\ LastSave(Running(db))
    /\ Ends(Operator)
    /\ UNCHANGED <<barrier, lease, git, workers, thread, troubles>>

AnswerHalt ==
    /\ At(Operator, "down")
    /\ db.run = "WAITING_OPERATOR"
    /\ LastSave([db EXCEPT !.run = "HALTED", !.request = NoRequest])
    /\ UNCHANGED <<barrier, lease, git, workers, thread, op, troubles>>

(* The operator reconciles the temporary branches by hand. *)
MergeByHand(g, s) ==
    /\ db.run = "WAITING_OPERATOR" /\ db.request.group = g
    /\ heads[g][s] # Gone /\ ~(heads[g][s] \subseteq source[Shared])
    /\ source' = [source EXCEPT ![Shared] = @ \cup heads[g][s]]
    /\ UNCHANGED <<barrier, db, fresh, lease, heads, trees, workers, thread, op, troubles>>

TidyByHand(g, p) ==
    /\ db.run = "WAITING_OPERATOR"
    /\ trees[g][p] = "dirty"
    /\ trees' = [trees EXCEPT ![g][p] = "clean"]
    /\ UNCHANGED <<barrier, db, fresh, lease, source, heads, workers, thread, op, troubles>>
-----------------------------------------------------------------------------
(* The recover command, of what a crash left in flight. *)

RecoverStart ==
    LET found == InState({"PREPARED", "RUNNING", "COMPLETED"}) IN
    /\ At(Operator, "down") /\ At(Execute, "down")
    /\ db.run \in {"RUNNING", "WAITING_OPERATOR"}
    /\ found # {}
    /\ op' = [op EXCEPT ![Operator] = [Down EXCEPT !.pc = "recovering",
                                                   !.dispatches = found]]
    /\ UNCHANGED <<barrier, db, fresh, lease, git, workers, thread, troubles>>

Recovered(d, reconciled) ==
    op' = [op EXCEPT ![Operator] =
            [@ EXCEPT !.dispatches = op[Operator].dispatches \ {d},
                      !.kids = op[Operator].kids \cup reconciled]]

(* recover_completed_dispatch: the result is saved with FORWARDED and not  *)
(* with COMPLETED, so there is none to forward.                            *)
RecoverCompleted(d) ==
    /\ At(Operator, "recovering") /\ d \in op[Operator].dispatches
    /\ db.dispatches[d].state = "COMPLETED"
    /\ Recovered(d, {})
    /\ UNCHANGED <<barrier, db, fresh, lease, git, workers, thread, troubles>>

(* Mutant: does not look for the process of the worker. *)
RecoverInterruptedBlindly(d) ==
    LET s == d[1]
        dispatch == db.dispatches[d]
        target == IF dispatch.state = "PREPARED" THEN "ABANDONED" ELSE "FAILED"
        new == Dispatched(Moved(s, "BLOCKED"), d, target)
    IN
    /\ At(Operator, "recovering") /\ d \in op[Operator].dispatches
    /\ dispatch.state \in InFlightStates
    /\ IF dispatch.batch = 0 /\ db.run # "RUNNING"
       THEN /\ Recovered(d, {})
            /\ UNCHANGED <<db, fresh>>
       ELSE /\ LastSave(
                    IF dispatch.batch = 0
                    THEN Waiting(new, [Request("reconciliation") EXCEPT !.step = s]) ELSE new)
            /\ Recovered(d, {s})
    /\ UNCHANGED <<barrier, lease, git, workers, thread, troubles>>

(* recover_interrupted_dispatch: a child of a batch asks nobody, another   *)
(* dispatch asks, which raises while the run waits, as does a process that *)
(* may be alive.                                                           *)
RecoverInterrupted(d) ==
    LET s == d[1]
        dispatch == db.dispatches[d]
        target == IF dispatch.state = "PREPARED" THEN "ABANDONED" ELSE "FAILED"
        new == Dispatched(Moved(s, "BLOCKED"), d, target)
    IN
    /\ At(Operator, "recovering") /\ d \in op[Operator].dispatches
    /\ dispatch.state \in InFlightStates
    /\ IF d \in workers \/ (dispatch.batch = 0 /\ db.run # "RUNNING")
       THEN /\ Recovered(d, {})
            /\ UNCHANGED <<db, fresh>>
       ELSE /\ LastSave(
                    IF dispatch.batch = 0
                    THEN Waiting(new, [Request("reconciliation") EXCEPT !.step = s]) ELSE new)
            /\ Recovered(d, {s})
    /\ UNCHANGED <<barrier, lease, git, workers, thread, troubles>>

RecoverDispatched ==
    /\ At(Operator, "recovering") /\ op[Operator].dispatches = {}
    /\ Goto(Operator, "joining")
    /\ UNCHANGED <<barrier, db, fresh, lease, git, workers, thread, troubles>>

(* The batches of the dispatches it reconciled, and only those. *)
Joinable == {b \in Batch : /\ db.batches[b].state \in OpenBatchStates
                           /\ \E s \in op[Operator].kids : db.dispatches[Current(s)].batch = b
                           /\ Unresolved(b) = {}}

RecoverJoin(b) ==
    /\ At(Operator, "joining") /\ b \in Joinable
    /\ Save(Operator, Joined(b))
    /\ op' = IF db.run = "RUNNING"
             THEN [op EXCEPT ![Operator] = [@ EXCEPT !.pc = "join_asking", !.batch = b]] ELSE op
    /\ UNCHANGED <<barrier, lease, git, workers, thread, troubles>>

RecoverAsk ==
    /\ At(Operator, "join_asking") /\ Operator \in fresh
    /\ LastSave(AskBatch(op[Operator].batch))
    /\ Goto(Operator, "joining")
    /\ UNCHANGED <<barrier, lease, git, workers, thread, troubles>>

RecoverJoined ==
    /\ At(Operator, "joining") /\ Joinable = {}
    /\ Goto(Operator, "releasing")
    /\ UNCHANGED <<barrier, db, fresh, lease, git, workers, thread, troubles>>

(* Mutant: keeps no repository back for its group. *)
RecoverableKeysOfSteps == {RepositoryOf(s) : s \in op[Operator].kids}

(* release_interrupted_dispatch_leases, whoever owns them; the repository  *)
(* of a workspace stays with its group.                                    *)
RecoverableKeys ==
    LET kids == op[Operator].kids IN
    {RepositoryOf(s) : s \in kids}
        \ {RepositoryOf(s) : s \in {k \in kids : db.dispatches[Current(k)].group # 0}}

RecoverRelease ==
    /\ At(Operator, "releasing")
    /\ lease' = [r \in Repository |-> IF r \in RecoverableKeys THEN None ELSE lease[r]]
    /\ Ends(Operator)
    /\ UNCHANGED <<barrier, db, fresh, git, workers, thread, troubles>>
-----------------------------------------------------------------------------
(* A process dies; the workers of the execute command live on. *)
Crash(a) ==
    /\ ~At(a, "down")
    /\ Trouble("crash")
    /\ Ends(a)
    /\ IF a = Execute
       THEN ThreadsIdle /\ fresh' = fresh \cap {Operator}
       ELSE fresh' = fresh \ {Operator} /\ UNCHANGED thread
    /\ UNCHANGED <<barrier, db, lease, git, workers>>

WorkerExits(d) ==
    /\ d \in workers
    /\ At(Execute, "down") \/ Current(d[1]) # d
    /\ WorkerStops(d)
    /\ UNCHANGED <<barrier, db, fresh, lease, source, heads, thread, op, troubles>>

Provision ==
    \/ \E g \in Group, b \in Batch, kids \in SUBSET Step : PlanGroup(g, b, kids)
    \/ LeaseGroup \/ Undone \/ FailGroup \/ ActivateGroup
    \/ \E s \in Step : AddTree(s) \/ AddTreeFails(s) \/ Undo(s)

Prepare ==
    \/ \E b \in Batch, kids \in SUBSET Step : CommandBatch(b, kids)
    \/ \E s \in Step : CommandDispatch(s) \/ LeaseChild(s)
    \/ SavePrepared \/ RefusePrepare

(* One step of the thread of a child. *)
Work(s) ==
    \/ Launch(s) \/ CommitWork(s) \/ RetryStalled(s)
    \/ ApplyCompleted(s) \/ ApplyBlocked(s) \/ PersistForwarded(s) \/ PersistEscalated(s)
    \/ FailDispatch(s) \/ FailStep(s) \/ AskReconciliation(s)
    \/ StallDispatch(s) \/ StallStep(s) \/ AskStallRecovery(s)
    \/ HandlerRaises(s)

Join == DispatchEnds \/ FinalizeBatch \/ AskBatchReconciliation

Turn ==
    \/ Start \/ Complete \/ Stop
    \/ \E d \in Dispatch : Acknowledge(d)

Integrate ==
    \/ BeginIntegration \/ OpenIntegration \/ Promote \/ IntegrationFails
    \/ \E s \in Step : MergeChild(s)
    \/ SavePromoted \/ FailIntegration \/ AskWorkspaceReconciliation

Cleanup(a) ==
    \/ BeginCleanup(a) \/ CheckCleanup(a)
    \/ \E p \in Place : RemovePlace(a, p) \/ RemovePlaceFails(a, p)
    \/ EndRemoval(a) \/ SaveCleaned(a) \/ SaveUnclean(a)

Answer ==
    \/ AnswerStep \/ AnswerBatch \/ BeginAnswerWorkspace \/ AnswerWorkspace \/ AnswerHalt
    \/ \E g \in Group, p \in Place : MergeByHand(g, p) \/ TidyByHand(g, p)

Recover ==
    \/ RecoverStart \/ RecoverDispatched \/ RecoverAsk \/ RecoverJoined \/ RecoverRelease
    \/ \E d \in Dispatch : RecoverCompleted(d) \/ RecoverInterrupted(d)
    \/ \E b \in Batch : RecoverJoin(b)

Disturb ==
    \/ \E a \in Command : Crash(a) \/ Raises(a)
    \/ \E s \in Step : Cancel(s) \/ CancelOvertakes(s)
    \/ \E d \in Dispatch : WorkerExits(d)

Next ==
    \/ Provision \/ Prepare \/ Turn \/ Join \/ Integrate
    \/ \E s \in Step : Work(s)
    \/ \E a \in Command : Cleanup(a)
    \/ Answer \/ Recover \/ Disturb

(* The threads of a pool run, and so does the process that joins them.     *)
Fairness ==
    /\ WF_vars(Join)
    /\ \A s \in Step : WF_vars(Work(s))

Spec == Init /\ [][Next]_vars /\ Fairness
-----------------------------------------------------------------------------
(* Properties *)

(* Two workers never edit one working copy: no batch, single dispatch or   *)
(* retry gives a repository root or a worktree to a worker while another   *)
(* process is alive in it, be it one that outlived a crash of its parent.  *)
OneWriterPerTree ==
    \A d, e \in workers : d # e => TreeOf(d) # TreeOf(e)

(* The work of an accepted step is reachable: it is on the default branch  *)
(* or on the branch of its worktree.  No cleanup, by force or not, and no  *)
(* rollback deletes the only branch that has it.                           *)
AcceptedWorkSurvives ==
    \A s \in Step : db.steps[s].state = "ACCEPTED" =>
        \/ s \in source[RepositoryOf(s)]
        \/ \E g \in Group : s \in heads[g][s]

(* Work in a group's worktrees is under the lease of their repository,     *)
(* from the save that makes the group ACTIVE to its cleanup, whatever      *)
(* recover or a failing batch releases.                                    *)
ActiveGroupHoldsLease ==
    \A g \in Group : db.groups[g].state \in {"ACTIVE", "INTEGRATING"} =>
        lease[Shared] = GroupOwner(g)

(* A group that is CLEANED owns no branch, no worktree and no lease, after *)
(* any number of interrupted and repeated cleanups.                        *)
CleanedOwnsNothing ==
    \A g \in Group : db.groups[g].state = "CLEANED" =>
        /\ \A p \in Owned(g) : heads[g][p] = Gone /\ trees[g][p] = "absent"
        /\ lease[Shared] # GroupOwner(g)

(* While a group integrates, the default branch moves only to the work of  *)
(* all its children, each of them accepted.                                *)
PromotionIsComplete ==
    [][\A g \in Group :
        (db.groups[g].state = "INTEGRATING" /\ source'[Shared] # source[Shared]) =>
            /\ db.groups[g].children \subseteq source'[Shared]
            /\ \A s \in db.groups[g].children : db.steps[s].state = "ACCEPTED"]_vars

(* A prepared batch is joined, or the run stops for the operator, unless a *)
(* process crashes or a cancellation overtakes a failure handler: no       *)
(* outcome of a child keeps the others waiting.                            *)
BatchSettles ==
    \A b \in Batch :
        db.batches[b].state = "PREPARED"
            ~> \/ db.batches[b].state \in {"JOINED", "FAILED"}
               \/ db.run # "RUNNING"
               \/ troubles["crash"] > 0 \/ troubles["cancel"] > 0

(* docs/operations.md: "Batch reconcile validates every failed child,      *)
(* applies the same transition once per affected step, and leaves accepted *)
(* siblings unchanged."  So the answer that the request offers is one that *)
(* answer_operator_request can apply.                                      *)
BatchReconcileIsAnswerable ==
    db.request.kind = "batch_reconciliation" => Reconcilable(db.request.batch)
=============================================================================
