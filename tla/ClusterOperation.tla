-------------------------- MODULE ClusterOperation --------------------------
(***************************************************************************)
(* The lifecycle of one dispatcher-owned cluster operation, identified by  *)
(* its run, its operation and its source revision.                         *)
(*                                                                         *)
(* A process that applies an accepted review visits the operation: it      *)
(* reads or creates the journal row, takes a snapshot, attaches an         *)
(* approval and runs the fixed commands (dry run, Helm upgrade, readiness  *)
(* probe, port forward with a TLS probe), saving the row around each.      *)
(* The visit is repeated when the review is applied again: by recover      *)
(* after a crash or after the run lease was lost, or by a new review after *)
(* the operator answered reconcile.  A process that lost its lease does    *)
(* not know it and goes on; only the generation of the row stops it.       *)
(*                                                                         *)
(* Sources: execution.py (the visit), cluster_operation_runner.py (the     *)
(* commands), cluster_operation_lifecycle.py and state_store.py (the row), *)
(* cluster_operation_adapters.py (the children).  An action is one durable *)
(* write or one external command; crashes fall between actions.            *)
(***************************************************************************)
EXTENDS Naturals, FiniteSets

CONSTANTS
    Process,        \* processes that may visit the operation
    Manifest,       \* [dry_runs, mutations, forwards]: numbers of actions
    MaxReviews,     \* bound on the reviewer dispatches of the step
    MaxCrashes      \* bound on the crashes of visiting processes

(* A manifest has at least one action, and every action counts here: a TLS *)
(* probe is part of its port forward.                                      *)
ASSUME ManifestAssumption ==
    \A m \in Manifest :
        /\ m \in [dry_runs : Nat, mutations : Nat, forwards : Nat]
        /\ m.dry_runs + m.mutations + m.forwards > 0

ASSUME BoundAssumption == MaxReviews \in Nat \ {0} /\ MaxCrashes \in Nat

VARIABLES
    manifest,   \* the operation manifest at the reviewed revision
    review,     \* the reviewer dispatch that accepted the revision
    journal,    \* the row of cluster_operation_journal
    expired,    \* the snapshot and the approval are past expires_at
    upgrade,    \* [mutation -> has its helm upgrade been launched, has it ended]
    undo,       \* the same of its helm rollback
    release,    \* [mutation -> version of its release in the cluster]
    child,      \* [forward -> its kubectl port-forward process]
    pc,         \* where each process is in its visit
    mine,       \* the reviewer dispatch a process works for
    at,         \* the action a process works on
    outcome,    \* how its last command ended
    held,       \* lifecycle_record of the visit: what it last loaded or saved
    rec,        \* the record of the runner
    undoFailed, \* rollback_failed of the runner
    crashes

world == <<upgrade, undo, release, child>>
local == <<mine, at, outcome, held, rec, undoFailed>>
vars == <<manifest, review, journal, expired, world, pc, local, crashes>>
-----------------------------------------------------------------------------
DryRun == 1..manifest.dry_runs
Mutation == 1..manifest.mutations
Forward == 1..manifest.forwards

EarlyStates == {"DISCOVERED", "STATIC_VALIDATED", "SNAPSHOT_CAPTURED", "APPROVED",
                "SERVER_DRY_RUN_PASSED"}
ForwardStates == {"PORT_FORWARD_INTENT", "PORT_FORWARD_STARTED", "TLS_DC8_PROBING"}
ClosedStates == {"SUCCEEDED", "FAILED", "ROLLED_BACK"}

(* The states from which a command may have reached the cluster.           *)
AmbiguousStates ==
    ForwardStates \cup {"MUTATION_STARTED", "MUTATED", "PROBING", "ROLLBACK_STARTED"}

StatusStates == EarlyStates \cup AmbiguousStates \cup ClosedStates \cup {"RECONCILIATION_REQUIRED"}

(* CLUSTER_OPERATION_TRANSITIONS.                                          *)
Transitions ==
    [s \in StatusStates |->
        CASE s = "DISCOVERED" -> {"STATIC_VALIDATED", "FAILED"}
          [] s = "STATIC_VALIDATED" -> {"SNAPSHOT_CAPTURED", "FAILED"}
          [] s = "SNAPSHOT_CAPTURED" -> {"APPROVED", "FAILED"}
          [] s = "APPROVED" -> {"SERVER_DRY_RUN_PASSED", "PORT_FORWARD_INTENT", "FAILED"}
          [] s = "SERVER_DRY_RUN_PASSED" -> {"MUTATION_STARTED", "PORT_FORWARD_INTENT", "FAILED"}
          [] s = "PORT_FORWARD_INTENT" -> {"PORT_FORWARD_STARTED", "RECONCILIATION_REQUIRED"}
          [] s = "PORT_FORWARD_STARTED" ->
                {"TLS_DC8_PROBING", "ROLLBACK_STARTED", "FAILED", "RECONCILIATION_REQUIRED"}
          [] s = "TLS_DC8_PROBING" ->
                {"PORT_FORWARD_INTENT", "SUCCEEDED", "ROLLBACK_STARTED", "FAILED",
                 "RECONCILIATION_REQUIRED"}
          [] s = "MUTATION_STARTED" ->
                {"MUTATED", "ROLLBACK_STARTED", "FAILED", "RECONCILIATION_REQUIRED"}
          [] s = "MUTATED" ->
                {"PROBING", "ROLLBACK_STARTED", "FAILED", "RECONCILIATION_REQUIRED"}
          [] s = "PROBING" ->
                {"PORT_FORWARD_INTENT", "SUCCEEDED", "ROLLBACK_STARTED", "FAILED",
                 "RECONCILIATION_REQUIRED"}
          [] s = "ROLLBACK_STARTED" -> {"ROLLED_BACK", "FAILED", "RECONCILIATION_REQUIRED"}
          [] s = "RECONCILIATION_REQUIRED" -> {"ROLLBACK_STARTED", "FAILED"}
          [] s \in ClosedStates -> {}]

(* _FUTURE_EXECUTION_STATES: entering them takes an unexpired approval.    *)
(* The writes of port-forward ownership do not ask for it.                 *)
ApprovedStates ==
    {"SERVER_DRY_RUN_PASSED", "TLS_DC8_PROBING", "MUTATION_STARTED", "MUTATED", "PROBING",
     "SUCCEEDED", "ROLLBACK_STARTED", "ROLLED_BACK"}

CommandKinds == {"server_dry_run", "mutation", "readiness_probe", "rollback"}

OwnershipStates == {"none", "INTENT_PERSISTED", "STARTED", "STOPPED", "CLEANUP_AMBIGUOUS"}
ProbeOutcomes == {"none", "rejected", "accepted", "ambiguous"}

(* What a process remembers of the row: its status and its generation.     *)
Seen(j) == [status |-> j.status, generation |-> j.generation]

Row(status, generation) ==
    [status |-> status, generation |-> generation, evidence |-> {},
     forwards |-> [f \in Forward |-> "none"], probed |-> [f \in Forward |-> "none"]]

Absent == Row("ABSENT", 0)

Init ==
    /\ manifest \in Manifest
    /\ review = [number |-> 1, state |-> "running"]
    /\ journal = Absent
    /\ expired = FALSE
    /\ upgrade = [m \in Mutation |-> "never"]
    /\ undo = [m \in Mutation |-> "never"]
    /\ release = [m \in Mutation |-> "before"]
    /\ child = [f \in Forward |-> "none"]
    /\ pc = [p \in Process |-> "idle"]
    /\ mine = [p \in Process |-> 0]
    /\ at = [p \in Process |-> 0]
    /\ outcome = [p \in Process |-> "none"]
    /\ held = [p \in Process |-> Seen(Absent)]
    /\ rec = [p \in Process |-> Seen(Absent)]
    /\ undoFailed = [p \in Process |-> FALSE]
    /\ crashes = 0
-----------------------------------------------------------------------------
Goto(p, label) == pc' = [pc EXCEPT ![p] = label]

(* Mutant: the update ignores the generation it was prepared for.          *)
CurrentAlways(known) == known.generation <= journal.generation

(* _update_cluster_operation: the row is written only at the generation    *)
(* the writer holds.                                                       *)
Current(known) == known.generation = journal.generation

(* transition_cluster_operation and the validators of the record.          *)
MayBecome(target) ==
    /\ target \in Transitions[journal.status]
    /\ target \in ApprovedStates => ~expired
    /\ target \in ClosedStates => \A f \in Forward : journal.forwards[f] \in {"none", "STOPPED"}

Becomes(target) == journal' = [journal EXCEPT !.status = target, !.generation = @ + 1]

(* _transition of the runner: the record it holds moves to target, or the  *)
(* state store refuses.                                                    *)
Transition(p, label, target, next, otherwise) ==
    /\ pc[p] = label
    /\ IF Current(rec[p]) /\ MayBecome(target)
          THEN /\ Becomes(target)
               /\ rec' = [rec EXCEPT ![p] = Seen(journal')]
               /\ Goto(p, next)
          ELSE UNCHANGED <<journal, rec>> /\ Goto(p, otherwise)
    /\ UNCHANGED <<manifest, review, expired, world, mine, at, outcome, held, undoFailed, crashes>>
-----------------------------------------------------------------------------
(* _execute_cluster_operation_after_review.  The review of the running     *)
(* reviewer dispatch was accepted; the process reads the row.              *)
Visit(p) ==
    /\ pc[p] = "idle"
    /\ review.state = "running"
    /\ mine' = [mine EXCEPT ![p] = review.number]
    /\ held' = [held EXCEPT ![p] = Seen(journal)]
    /\ Goto(p, CASE journal.status = "ABSENT" -> "create"
                 [] journal.status = "STATIC_VALIDATED" -> "capture"
                 [] journal.status = "SUCCEEDED" -> "accept"
                 [] OTHER -> "safe_failure")
    /\ UNCHANGED <<manifest, review, journal, expired, world, at, outcome, rec, undoFailed, crashes>>

(* create_cluster_operation.  A row that appeared since is an error, and   *)
(* then lifecycle_record is None: there is nothing to dispose of.          *)
Create(p) ==
    /\ pc[p] = "create"
    /\ IF journal.status = "ABSENT"
          THEN /\ journal' = Row("DISCOVERED", 1)
               /\ rec' = [rec EXCEPT ![p] = Seen(journal')]
               /\ Goto(p, "validate")
          ELSE UNCHANGED <<journal, rec>> /\ Goto(p, "block")
    /\ UNCHANGED <<manifest, review, expired, world, mine, at, outcome, held, undoFailed, crashes>>

Validate(p) ==
    /\ pc[p] = "validate"
    /\ IF Current(rec[p]) /\ MayBecome("STATIC_VALIDATED")
          THEN /\ Becomes("STATIC_VALIDATED")
               /\ held' = [held EXCEPT ![p] = Seen(journal')]
               /\ Goto(p, "capture")
          ELSE UNCHANGED <<journal, held>> /\ Goto(p, "block")
    /\ UNCHANGED <<manifest, review, expired, world, mine, at, outcome, rec, undoFailed, crashes>>

(* capture_cluster_operation_snapshot: read-only commands that may fail.   *)
Capture(p) ==
    /\ pc[p] = "capture"
    /\ \E label \in {"attach_snapshot", "safe_failure"} : Goto(p, label)
    /\ UNCHANGED <<manifest, review, journal, expired, world, local, crashes>>

(* attach_cluster_operation_snapshot, then _approval: both bind to the row *)
(* they extend, and an approval needs a snapshot that has not expired.     *)
Attach(p, label, target, next) ==
    /\ pc[p] = label
    /\ IF Current(held[p]) /\ MayBecome(target) /\ ~expired
          THEN /\ Becomes(target)
               /\ held' = [held EXCEPT ![p] = Seen(journal')]
               /\ Goto(p, next)
          ELSE UNCHANGED <<journal, held>> /\ Goto(p, "safe_failure")
    /\ UNCHANGED <<manifest, review, expired, world, mine, at, outcome, rec, undoFailed, crashes>>

AttachSnapshot(p) == Attach(p, "attach_snapshot", "SNAPSHOT_CAPTURED", "attach_approval")
AttachApproval(p) == Attach(p, "attach_approval", "APPROVED", "launch")

(* execute_record.  The row is read again, and the launch is validated: a  *)
(* changed tool or source file refuses it, and so does a mutation without  *)
(* a dry run.  Only the visit that attached the approval gets here: the    *)
(* row is APPROVED, or another visit closed it and it is the result.       *)
Launch(p) ==
    /\ pc[p] = "launch"
    /\ rec' = [rec EXCEPT ![p] = Seen(journal)]
    /\ at' = [at EXCEPT ![p] = 1]
    /\ undoFailed' = [undoFailed EXCEPT ![p] = FALSE]
    /\ \/ Goto(p, IF journal.status # "APPROVED" THEN "result"
                  ELSE IF DryRun # {} THEN "dry_run"
                  ELSE IF Mutation # {} THEN "safe_failure"
                  ELSE "forward_intent")
       \/ journal.status = "APPROVED" /\ Goto(p, "safe_failure")
    /\ UNCHANGED <<manifest, review, journal, expired, world, mine, outcome, held, crashes>>
-----------------------------------------------------------------------------
(* _run_fixed_command has two parts: the command, and the evidence of it   *)
(* in the row.  "lost" is a command that timed out or whose result is not  *)
(* valid; it leaves no evidence.                                           *)
DryRuns(p) ==
    /\ pc[p] = "dry_run"
    /\ \E o \in {"succeeded", "failed", "lost"} :
          /\ outcome' = [outcome EXCEPT ![p] = o]
          /\ Goto(p, IF o = "lost" THEN "safe_failure" ELSE "dry_run_evidence")
    /\ UNCHANGED <<manifest, review, journal, expired, world, mine, at, held, rec, undoFailed, crashes>>

(* A rollback that follows a port forward catches every error of its own.  *)
Fallback == IF \E f \in Forward : journal.forwards[f] # "none" THEN "reconcile" ELSE "safe_failure"

(* append_cluster_operation_command_evidence.                              *)
Evidence(p, label, kind, next, otherwise) ==
    /\ pc[p] = label
    /\ LET command == <<kind, at[p]>>
       IN IF /\ Current(rec[p])
             /\ journal.status \notin {"SUCCEEDED", "ROLLED_BACK"}
             /\ \A e \in journal.evidence : e.command # command
            THEN /\ journal' = [journal EXCEPT
                        !.evidence = @ \cup {[command |-> command, status |-> outcome[p]]},
                        !.generation = @ + 1]
                 /\ rec' = [rec EXCEPT ![p] = Seen(journal')]
                 /\ Goto(p, next.pc)
                 /\ at' = [at EXCEPT ![p] = next.at]
            ELSE UNCHANGED <<journal, rec, at>> /\ Goto(p, otherwise)
    /\ UNCHANGED <<manifest, review, expired, world, mine, outcome, held, undoFailed, crashes>>

Then(label, i) == [pc |-> label, at |-> i]

DryRunNext(p) ==
    IF outcome[p] = "failed" THEN Then("dry_run_failed", at[p])
    ELSE IF at[p] + 1 \in DryRun THEN Then("dry_run", at[p] + 1)
    ELSE Then("dry_run_passed", 1)

DryRunRecorded(p) ==
    Evidence(p, "dry_run_evidence", "server_dry_run", DryRunNext(p), "safe_failure")

DryRunFailed(p) == Transition(p, "dry_run_failed", "FAILED", "result", "safe_failure")

(* Without mutations the forwards follow; without forwards either, the     *)
(* status reached so far is the result, and the visit does not accept it.  *)
DryRunPassed(p) ==
    Transition(p, "dry_run_passed", "SERVER_DRY_RUN_PASSED",
        IF Mutation # {} THEN "start" ELSE IF Forward # {} THEN "forward_intent" ELSE "result",
        "safe_failure")

(* The durable write immediately before the first mutation.                *)
Start(p) == Transition(p, "start", "MUTATION_STARTED", "mutate", "safe_failure")

(* The runner launches helm upgrade for the release of a mutation.         *)
Mutate(p) ==
    /\ pc[p] = "mutate"
    /\ upgrade' = [upgrade EXCEPT ![at[p]] = "running"]
    /\ Goto(p, "upgrading")
    /\ UNCHANGED <<manifest, review, journal, expired, undo, release, child, local, crashes>>

(* helm upgrade --install --wait --rollback-on-failure: success means the  *)
(* new version runs; a failure or a lost command may leave either version. *)
UpgradeEnds(p) ==
    /\ pc[p] = "upgrading"
    /\ upgrade' = [upgrade EXCEPT ![at[p]] = "ended"]
    /\ \E o \in {"succeeded", "failed", "lost"}, v \in {"before", "after"} :
          /\ o = "succeeded" => v = "after"
          /\ o = "lost" => v = release[at[p]]
          /\ release' = [release EXCEPT ![at[p]] = v]
          /\ outcome' = [outcome EXCEPT ![p] = o]
          /\ Goto(p, IF o = "lost" THEN "command_lost" ELSE "mutation_evidence")
    /\ UNCHANGED <<manifest, review, journal, expired, undo, child, mine, at, held, rec, undoFailed, crashes>>

CommandLost(p) ==
    Transition(p, "command_lost", "RECONCILIATION_REQUIRED", "result", "safe_failure")

(* Mutant: a failed upgrade is tried again.                                *)
MutationRetried(p) ==
    Evidence(p, "mutation_evidence", "mutation",
        IF outcome[p] = "failed" THEN Then("mutate", at[p])
        ELSE IF at[p] + 1 \in Mutation THEN Then("mutate", at[p] + 1)
        ELSE Then("mutated", 1),
        "safe_failure")

(* Mutant: the next upgrade does not wait for the evidence of this one.    *)
MutationUnrecorded(p) ==
    /\ pc[p] = "mutation_evidence"
    /\ LET next == IF at[p] + 1 \in Mutation THEN Then("mutate", at[p] + 1) ELSE Then("mutated", 1)
       IN Goto(p, next.pc) /\ at' = [at EXCEPT ![p] = next.at]
    /\ UNCHANGED <<manifest, review, journal, expired, world, mine, outcome, held, rec, undoFailed, crashes>>

MutationNext(p) ==
    IF outcome[p] = "failed" THEN Then("rollback_start", at[p])
    ELSE IF at[p] + 1 \in Mutation THEN Then("mutate", at[p] + 1)
    ELSE Then("mutated", 1)

MutationRecorded(p) ==
    Evidence(p, "mutation_evidence", "mutation", MutationNext(p), "safe_failure")

Mutated(p) == Transition(p, "mutated", "MUTATED", "probing", "safe_failure")

Probing(p) == Transition(p, "probing", "PROBING", "probe", "safe_failure")

(* Mutant: a lost probe is recorded like a completed one.                  *)
ProbesRecordLost(p) ==
    /\ pc[p] = "probe"
    /\ \E o \in {"succeeded", "failed", "lost"} : outcome' = [outcome EXCEPT ![p] = o]
    /\ Goto(p, "probe_evidence")
    /\ UNCHANGED <<manifest, review, journal, expired, world, mine, at, held, rec, undoFailed, crashes>>

(* kubectl rollout status, one readiness probe per mutation.               *)
Probes(p) ==
    /\ pc[p] = "probe"
    /\ \E o \in {"succeeded", "failed", "lost"} :
          /\ outcome' = [outcome EXCEPT ![p] = o]
          /\ Goto(p, IF o = "lost" THEN "command_lost" ELSE "probe_evidence")
    /\ UNCHANGED <<manifest, review, journal, expired, world, mine, at, held, rec, undoFailed, crashes>>

ProbeNext(p) ==
    IF outcome[p] = "failed" THEN Then("rollback_start", manifest.mutations)
    ELSE IF at[p] + 1 \in Mutation THEN Then("probe", at[p] + 1)
    ELSE IF Forward # {} THEN Then("forward_intent", 1)
    ELSE Then("succeed", 1)

ProbeRecorded(p) ==
    Evidence(p, "probe_evidence", "readiness_probe", ProbeNext(p), "safe_failure")

Succeed(p) == Transition(p, "succeed", "SUCCEEDED", "result", "safe_failure")
-----------------------------------------------------------------------------
(* _rollback: the started mutations are undone, the last one first.        *)
RollbackStart(p) == Transition(p, "rollback_start", "ROLLBACK_STARTED", "rollback", Fallback)

Rollback(p) ==
    /\ pc[p] = "rollback"
    /\ undo' = [undo EXCEPT ![at[p]] = "running"]
    /\ Goto(p, "undoing")
    /\ UNCHANGED <<manifest, review, journal, expired, upgrade, release, child, local, crashes>>

UndoNext(p) == IF at[p] > 1 THEN Then("rollback", at[p] - 1) ELSE Then("rollback_end", 1)

(* helm rollback or uninstall --wait.  After a lost one the next release   *)
(* is still rolled back.                                                   *)
UndoEnds(p) ==
    /\ pc[p] = "undoing"
    /\ undo' = [undo EXCEPT ![at[p]] = "ended"]
    /\ \E o \in {"succeeded", "failed", "lost"}, v \in {"before", "after"} :
          /\ o = "succeeded" => v = "before"
          /\ o # "succeeded" => v = release[at[p]]
          /\ release' = [release EXCEPT ![at[p]] = v]
          /\ outcome' = [outcome EXCEPT ![p] = o]
          /\ undoFailed' = [undoFailed EXCEPT ![p] = @ \/ o # "succeeded"]
          /\ IF o = "lost"
                THEN Goto(p, UndoNext(p).pc) /\ at' = [at EXCEPT ![p] = UndoNext(p).at]
                ELSE Goto(p, "rollback_evidence") /\ UNCHANGED at
    /\ UNCHANGED <<manifest, review, journal, expired, upgrade, child, mine, held, rec, crashes>>

UndoRecorded(p) == Evidence(p, "rollback_evidence", "rollback", UndoNext(p), Fallback)

RollbackEnd(p) ==
    Transition(p, "rollback_end",
        IF undoFailed[p] THEN "RECONCILIATION_REQUIRED" ELSE "ROLLED_BACK", "result", Fallback)
-----------------------------------------------------------------------------
(* The row while the ownership of the port forward at[p] changes.          *)
Owns(p, label, from, to, status, next, otherwise) ==
    /\ pc[p] = label
    /\ IF /\ Current(rec[p])
          /\ journal.forwards[at[p]] = from
          /\ status # journal.status => status \in Transitions[journal.status]
          THEN /\ journal' = [journal EXCEPT !.status = status, !.forwards[at[p]] = to,
                                             !.generation = @ + 1]
               /\ rec' = [rec EXCEPT ![p] = Seen(journal')]
               /\ Goto(p, next)
          ELSE UNCHANGED <<journal, rec>> /\ Goto(p, otherwise)

(* persist_cluster_operation_port_forward_intent, before the child exists. *)
ForwardIntent(p) ==
    /\ Owns(p, "forward_intent", "none", "INTENT_PERSISTED", "PORT_FORWARD_INTENT",
            "spawn", "safe_failure")
    /\ UNCHANGED <<manifest, review, expired, world, mine, at, outcome, held, undoFailed, crashes>>

(* The adapter may start a child whose identity it cannot establish.       *)
Spawn(p) ==
    /\ pc[p] = "spawn"
    /\ \E alive, valid \in BOOLEAN :
          /\ valid => alive
          /\ child' = IF alive THEN [child EXCEPT ![at[p]] = "alive"] ELSE child
          /\ Goto(p, IF valid THEN "forward_started" ELSE "reconcile")
    /\ UNCHANGED <<manifest, review, journal, expired, upgrade, undo, release, local, crashes>>

ForwardStarted(p) ==
    /\ Owns(p, "forward_started", "INTENT_PERSISTED", "STARTED", "PORT_FORWARD_STARTED",
            "wait_ready", "reconcile")
    /\ UNCHANGED <<manifest, review, expired, world, mine, at, outcome, held, undoFailed, crashes>>

WaitReady(p) ==
    /\ pc[p] = "wait_ready"
    /\ \E o \in {"ready", "failed", "ambiguous"} :
          /\ outcome' = [outcome EXCEPT ![p] = o]
          /\ Goto(p, IF o = "ready" THEN "tls_probing" ELSE "close")
    /\ UNCHANGED <<manifest, review, journal, expired, world, mine, at, held, rec, undoFailed, crashes>>

(* When this transition is refused nobody closes the child any more.       *)
TlsProbing(p) == Transition(p, "tls_probing", "TLS_DC8_PROBING", "tls_probe", "safe_failure")

TlsProbes(p) ==
    /\ pc[p] = "tls_probe"
    /\ \E o \in {"rejected", "accepted", "ambiguous"} : outcome' = [outcome EXCEPT ![p] = o]
    /\ Goto(p, "tls_evidence")
    /\ UNCHANGED <<manifest, review, journal, expired, world, mine, at, held, rec, undoFailed, crashes>>

(* append_cluster_operation_tls_dc8_probe_evidence.                        *)
TlsRecorded(p) ==
    /\ pc[p] = "tls_evidence"
    /\ Goto(p, "close")
    /\ IF /\ Current(rec[p])
          /\ journal.status = "TLS_DC8_PROBING"
          /\ journal.probed[at[p]] = "none"
          THEN /\ journal' = [journal EXCEPT !.probed[at[p]] = outcome[p], !.generation = @ + 1]
               /\ rec' = [rec EXCEPT ![p] = Seen(journal')]
               /\ UNCHANGED outcome
          ELSE /\ outcome' = [outcome EXCEPT ![p] = "ambiguous"]
               /\ UNCHANGED <<journal, rec>>
    /\ UNCHANGED <<manifest, review, expired, world, mine, at, held, undoFailed, crashes>>

(* Mutant: the outcome of close_owned is not looked at.                    *)
CloseUnchecked(p) ==
    /\ pc[p] = "close"
    /\ \/ child' = [child EXCEPT ![at[p]] = "closed"]
       \/ UNCHANGED child
    /\ Goto(p, "forward_stopped")
    /\ UNCHANGED <<manifest, review, journal, expired, upgrade, undo, release, local, crashes>>

(* _cleanup_port_forward: close_owned, then what it did is saved.          *)
Close(p) ==
    /\ pc[p] = "close"
    /\ \/ /\ child' = [child EXCEPT ![at[p]] = "closed"]
          /\ Goto(p, "forward_stopped")
       \/ UNCHANGED child /\ Goto(p, "forward_ambiguous")
    /\ UNCHANGED <<manifest, review, journal, expired, upgrade, undo, release, local, crashes>>

(* Where a forward whose child is closed leads to.                         *)
ForwardNext(p) ==
    IF outcome[p] = "ambiguous" THEN Then("reconcile", at[p])
    ELSE IF outcome[p] = "rejected" /\ at[p] + 1 \in Forward THEN Then("forward_intent", at[p] + 1)
    ELSE IF outcome[p] = "rejected" THEN Then("succeed", at[p])
    ELSE IF Mutation # {} THEN Then("rollback_start", manifest.mutations)
    ELSE Then("forward_failed", at[p])

ForwardStopped(p) ==
    /\ Owns(p, "forward_stopped", "STARTED", "STOPPED", journal.status,
            ForwardNext(p).pc, "reconcile")
    /\ at' = [at EXCEPT ![p] = ForwardNext(p).at]
    /\ UNCHANGED <<manifest, review, expired, world, mine, outcome, held, undoFailed, crashes>>

ForwardAmbiguous(p) ==
    /\ Owns(p, "forward_ambiguous", "STARTED", "CLEANUP_AMBIGUOUS", journal.status,
            "reconcile", "reconcile")
    /\ UNCHANGED <<manifest, review, expired, world, mine, at, outcome, held, undoFailed, crashes>>

ForwardFailed(p) == Transition(p, "forward_failed", "FAILED", "result", "safe_failure")

(* _reconciliation_result reads the row again before it transitions, so a  *)
(* process that was overtaken disposes of the row at its latest generation.*)
Reconcile(p) ==
    /\ pc[p] = "reconcile"
    /\ rec' = [rec EXCEPT ![p] = Seen(journal)]
    /\ Goto(p, IF journal.status = "RECONCILIATION_REQUIRED" THEN "result" ELSE "reconciling")
    /\ UNCHANGED <<manifest, review, journal, expired, world, mine, at, outcome, held, undoFailed, crashes>>

Reconciling(p) ==
    Transition(p, "reconciling", "RECONCILIATION_REQUIRED", "result", "safe_failure")
-----------------------------------------------------------------------------
(* Mutant: every result but FAILED is accepted.                            *)
ResultLenient(p) ==
    /\ pc[p] = "result"
    /\ held' = [held EXCEPT ![p] = rec[p]]
    /\ Goto(p, IF rec[p].status # "FAILED" THEN "accept" ELSE "safe_failure")
    /\ UNCHANGED <<manifest, review, journal, expired, world, mine, at, outcome, rec, undoFailed, crashes>>

(* The runner returned: only SUCCEEDED lets the review be accepted.        *)
Result(p) ==
    /\ pc[p] = "result"
    /\ held' = [held EXCEPT ![p] = rec[p]]
    /\ Goto(p, IF rec[p].status = "SUCCEEDED" THEN "accept" ELSE "safe_failure")
    /\ UNCHANGED <<manifest, review, journal, expired, world, mine, at, outcome, rec, undoFailed, crashes>>

(* The local variables of a visit that is over.                            *)
Forget(p) ==
    /\ at' = [at EXCEPT ![p] = 0]
    /\ outcome' = [outcome EXCEPT ![p] = "none"]
    /\ held' = [held EXCEPT ![p] = Seen(Absent)]
    /\ rec' = [rec EXCEPT ![p] = Seen(Absent)]
    /\ undoFailed' = [undoFailed EXCEPT ![p] = FALSE]

(* _transition_cluster_operation_to_safe_failure, on the record the visit  *)
(* holds: after an error inside the runner that is the one it passed in.   *)
(* A refusal of the store is only logged.                                  *)
SafeFailure(p) ==
    /\ pc[p] = "safe_failure"
    /\ LET target == IF held[p].status \in AmbiguousStates THEN "RECONCILIATION_REQUIRED"
                                                           ELSE "FAILED"
       IN IF /\ held[p].status \in AmbiguousStates \cup EarlyStates
             /\ Current(held[p])
             /\ MayBecome(target)
            THEN Becomes(target)
            ELSE UNCHANGED journal
    /\ Goto(p, "block")
    /\ Forget(p)
    /\ UNCHANGED <<manifest, review, expired, world, mine, crashes>>

(* Mutant: a failed visit is not recorded on the reviewer dispatch.        *)
EndVisitQuietly(p) ==
    /\ pc[p] \in {"accept", "block"}
    /\ review' = IF pc[p] = "accept" /\ review = [number |-> mine[p], state |-> "running"]
                    THEN [review EXCEPT !.state = "accepted"]
                    ELSE review
    /\ Goto(p, "idle")
    /\ mine' = [mine EXCEPT ![p] = 0]
    /\ Forget(p)
    /\ UNCHANGED <<manifest, journal, expired, world, crashes>>

(* apply_reviewer_result, or record_cluster_operation_failure: both need   *)
(* the dispatch of the visit to be the running one.                        *)
EndVisit(p) ==
    /\ pc[p] \in {"accept", "block"}
    /\ review' = IF review = [number |-> mine[p], state |-> "running"]
                    THEN [review EXCEPT !.state = IF pc[p] = "accept" THEN "accepted" ELSE "blocked"]
                    ELSE review
    /\ Goto(p, "idle")
    /\ mine' = [mine EXCEPT ![p] = 0]
    /\ Forget(p)
    /\ UNCHANGED <<manifest, journal, expired, world, crashes>>

(* The operator answers reconcile, and a new reviewer dispatch accepts the *)
(* same revision.                                                          *)
ReviewAgain ==
    /\ review.state = "blocked"
    /\ review.number < MaxReviews
    /\ review' = [number |-> review.number + 1, state |-> "running"]
    /\ UNCHANGED <<manifest, journal, expired, world, pc, local, crashes>>

(* dispatcher cluster-operation approve: the owner attaches a snapshot and *)
(* an approval to a row that waits for them, one save each.                *)
OwnerApproves ==
    /\ journal.status \in {"STATIC_VALIDATED", "SNAPSHOT_CAPTURED"}
    /\ ~expired
    /\ \E target \in {"SNAPSHOT_CAPTURED", "APPROVED"} : MayBecome(target) /\ Becomes(target)
    /\ UNCHANGED <<manifest, review, expired, world, pc, local, crashes>>

Expire ==
    /\ journal.status \in (EarlyStates \cup AmbiguousStates) \ {"DISCOVERED", "STATIC_VALIDATED"}
    /\ ~expired
    /\ expired' = TRUE
    /\ UNCHANGED <<manifest, review, journal, world, pc, local, crashes>>

Crash(p) ==
    /\ pc[p] # "idle"
    /\ crashes < MaxCrashes
    /\ crashes' = crashes + 1
    /\ Goto(p, "idle")
    /\ mine' = [mine EXCEPT ![p] = 0]
    /\ Forget(p)
    /\ UNCHANGED <<manifest, review, journal, expired, world>>

(* A command under way reaches the cluster, whether or not the process     *)
(* that launched it still waits for it.                                    *)
TakesEffect(m) ==
    /\ \/ upgrade[m] = "running" /\ release' = [release EXCEPT ![m] = "after"]
       \/ undo[m] = "running" /\ release' = [release EXCEPT ![m] = "before"]
    /\ UNCHANGED <<manifest, review, journal, expired, upgrade, undo, child, pc, local, crashes>>
-----------------------------------------------------------------------------
Runs(p) ==
    \/ DryRuns(p) \/ DryRunRecorded(p) \/ DryRunFailed(p) \/ DryRunPassed(p)
    \/ Start(p) \/ Mutate(p) \/ UpgradeEnds(p) \/ CommandLost(p) \/ MutationRecorded(p)
    \/ Mutated(p) \/ Probing(p) \/ Probes(p) \/ ProbeRecorded(p) \/ Succeed(p)
    \/ RollbackStart(p) \/ Rollback(p) \/ UndoEnds(p) \/ UndoRecorded(p) \/ RollbackEnd(p)

Forwards(p) ==
    \/ ForwardIntent(p) \/ Spawn(p) \/ ForwardStarted(p) \/ WaitReady(p)
    \/ TlsProbing(p) \/ TlsProbes(p) \/ TlsRecorded(p)
    \/ Close(p) \/ ForwardStopped(p) \/ ForwardAmbiguous(p) \/ ForwardFailed(p)
    \/ Reconcile(p) \/ Reconciling(p)

Works(p) ==
    \/ Create(p) \/ Validate(p) \/ Capture(p) \/ AttachSnapshot(p) \/ AttachApproval(p)
    \/ Launch(p) \/ Runs(p) \/ Forwards(p) \/ Result(p) \/ SafeFailure(p) \/ EndVisit(p)

Next ==
    \/ \E p \in Process : Visit(p) \/ Works(p) \/ Crash(p)
    \/ ReviewAgain \/ OwnerApproves \/ Expire
    \/ \E m \in Mutation : TakesEffect(m)

(* A process that visits goes on; recover is run until the review ends.    *)
Fairness ==
    /\ \A p \in Process : WF_vars(Works(p))
    /\ WF_vars(\E p \in Process : Visit(p))

Spec == Init /\ [][Next]_vars /\ Fairness
-----------------------------------------------------------------------------
PcStates ==
    {"idle", "create", "validate", "capture", "attach_snapshot", "attach_approval", "launch",
     "dry_run", "dry_run_evidence", "dry_run_failed", "dry_run_passed",
     "start", "mutate", "upgrading", "command_lost", "mutation_evidence", "mutated",
     "probing", "probe", "probe_evidence", "succeed",
     "rollback_start", "rollback", "undoing", "rollback_evidence", "rollback_end",
     "forward_intent", "spawn", "forward_started", "wait_ready", "tls_probing", "tls_probe",
     "tls_evidence", "close", "forward_stopped", "forward_ambiguous", "forward_failed",
     "reconcile", "reconciling", "result", "safe_failure", "accept", "block"}

Outcomes ==
    {"none", "succeeded", "failed", "lost", "ready", "rejected", "accepted", "ambiguous"}

SeenRow == [status : StatusStates \cup {"ABSENT"}, generation : Nat]

CommandEvidence == [command : CommandKinds \X Nat, status : {"succeeded", "failed"}]

JournalRow ==
    [status : StatusStates \cup {"ABSENT"}, generation : Nat, evidence : SUBSET CommandEvidence,
     forwards : [Forward -> OwnershipStates], probed : [Forward -> ProbeOutcomes]]

(* The shape of the row and of what each process knows.                    *)
TypeOK ==
    /\ manifest \in Manifest
    /\ review \in [number : 1..MaxReviews, state : {"running", "accepted", "blocked"}]
    /\ journal \in JournalRow
    /\ upgrade \in [Mutation -> {"never", "running", "ended"}]
    /\ undo \in [Mutation -> {"never", "running", "ended"}]
    /\ release \in [Mutation -> {"before", "after"}]
    /\ child \in [Forward -> {"none", "alive", "closed"}]
    /\ expired \in BOOLEAN
    /\ pc \in [Process -> PcStates]
    /\ mine \in [Process -> 0..MaxReviews]
    /\ at \in [Process -> Nat]
    /\ outcome \in [Process -> Outcomes]
    /\ held \in [Process -> SeenRow]
    /\ rec \in [Process -> SeenRow]
    /\ undoFailed \in [Process -> BOOLEAN]
    /\ crashes \in 0..MaxCrashes

(* The verdict of the row, as the contract names it.                       *)
Phase ==
    CASE journal.status \in EarlyStates \cup {"ABSENT"} -> "open"
      [] journal.status \in AmbiguousStates -> "working"
      [] journal.status = "FAILED" -> "failed"
      [] journal.status = "SUCCEEDED" -> "succeeded"
      [] journal.status = "ROLLED_BACK" -> "rolled_back"
      [] OTHER -> "reconciliation"

(* The lifecycle keeps the promise of ClusterOperationContract: no release *)
(* changes before MUTATION_STARTED is durable, FAILED and ROLLED_BACK are  *)
(* only written when every release is in its old version, SUCCEEDED when   *)
(* every one is in its new version, and none changes afterwards, whatever  *)
(* overtaken and crashed processes still do.                               *)
Contract == INSTANCE ClusterOperationContract WITH
    goal <- Mutation, phase <- Phase, changed <- {m \in Mutation : release[m] = "after"}

Implements == Contract!Spec

(* helm upgrade and helm rollback are launched at most once for a release, *)
(* however often the operation is visited (docs: "never re-applies the     *)
(* operation"), and a rollback only after the upgrade it undoes.           *)
NeverReapplied ==
    [][\A m \in Mutation :
          /\ upgrade'[m] = "running" => upgrade[m] \in {"never", "running"}
          /\ undo'[m] = "running" =>
                /\ undo[m] \in {"never", "running"}
                /\ upgrade[m] = "ended"]_vars

(* The row accounts for what was done to the cluster: before the operation *)
(* is disposed of at most one launched upgrade has no evidence, and        *)
(* upgrades are launched in the order of the manifest.                     *)
Recorded(kind, m) == \E e \in journal.evidence : e.command = <<kind, m>>

JournalAccounts ==
    \A m \in Mutation :
        upgrade[m] # "never" => \A k \in 1..(m - 1) : Recorded("mutation", k)

(* A row that says SUCCEEDED, FAILED or ROLLED_BACK leaves no port-forward *)
(* child behind, and one that succeeded has a rejected TLS probe for every *)
(* forward and a passed probe for every mutation.                          *)
ClosedIsClean ==
    /\ journal.status \in ClosedStates => \A f \in Forward : child[f] # "alive"
    /\ journal.status = "SUCCEEDED" =>
          /\ \A f \in Forward : journal.probed[f] = "rejected"
          /\ \A m \in Mutation :
                [command |-> <<"readiness_probe", m>>, status |-> "succeeded"] \in journal.evidence

(* The review is accepted only for an operation that succeeded, although   *)
(* the process that accepts it may not be the one that ran it.             *)
AcceptedSucceeded == review.state = "accepted" => journal.status = "SUCCEEDED"

(* Every visit comes to an end: each review is accepted or handed to the   *)
(* operator, whatever commands are lost and whoever overtakes whom.        *)
ReviewEnds == review.state = "running" ~> review.state # "running"
=============================================================================
