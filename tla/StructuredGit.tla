---------------------------- MODULE StructuredGit ----------------------------
(***************************************************************************)
(* The structured Git capability: how the work an executor left in the     *)
(* working copy becomes one commit of the dispatcher and one durable       *)
(* result.                                                                 *)
(*                                                                         *)
(* Git and SQLite cannot commit together, so a row of                      *)
(* structured_git_commits goes ahead of every command: the proposal, the   *)
(* intent with the tree it expects, the staged index.  The dispatch is     *)
(* saved COMPLETED first; the last write of the row and the result follow  *)
(* in one transaction at the generation of that save.  The recover command *)
(* reads the row of a dispatch that is still RUNNING: from STAGED it       *)
(* adopts a HEAD that is exactly the intended commit, and everything else  *)
(* goes to the operator.                                                   *)
(*                                                                         *)
(* The execute process of an attempt may crash, and it may be overtaken:   *)
(* recover takes over a stale lease without stopping it, and the next      *)
(* attempt works in the same working copy and index.  A git child is in a  *)
(* session of its own and survives its parent.                             *)
(*                                                                         *)
(* Sources: git_commit.py, sequential.py (record_executor_proposal,        *)
(* materialize_executor_proposal, apply_executor_result,                   *)
(* adopt_interrupted_structured_commit), state_store.py (the row),         *)
(* execution.py (execute_worker), cli.py (recover), repository.py.         *)
(***************************************************************************)
EXTENDS Naturals, Sequences, FiniteSets

CONSTANTS
    MaxAttempts,    \* bound on the executor attempts of the step
    MaxMeddling,    \* bound on cancellations and what others do to the repository
    MaxCrashes      \* bound on the crashes of processes

ASSUME BoundAssumption ==
    MaxAttempts \in Nat \ {0} /\ MaxMeddling \in Nat /\ MaxCrashes \in Nat

VARIABLES
    policy,     \* commit_policy of the repository
    log,        \* the commits of the branch since the run began
    work,       \* the changes in the working copy
    index,      \* the changes in the real index
    dispatch,   \* [attempt -> state of its dispatch]
    base,       \* [attempt -> length of the log at its base revision]
    row,        \* [attempt -> state of its structured_git_commits row]
    outcome,    \* [attempt -> outcome of its proposal]
    snapshot,   \* [attempt -> the repository as inspected with the proposal]
    candidate,  \* [attempt -> candidate_tree of its intent]
    waiting,    \* the run waits for the operator to reconcile
    cancelled,  \* attempts whose cancellation was requested
    workers,    \* attempts whose OpenCode process is alive
    children,   \* git add and git commit processes that are alive
    pc,         \* [attempt -> where its execute process is]
    fresh,      \* attempts whose process holds the generation of the run
    recover,    \* the recover process
    meddled, crashes

repository == <<log, work, index>>
journal == <<row, outcome, snapshot, candidate>>
record == <<dispatch, base, waiting, cancelled>>
processes == <<workers, children>>
bounds == <<policy, meddled, crashes>>
vars == <<repository, journal, record, processes, pc, fresh, recover, bounds>>
-----------------------------------------------------------------------------
Attempt == 1..MaxAttempts

(* A tree is a set of changes.  An attempt makes one in the writable       *)
(* paths; others make one in the same paths or one outside of them.        *)
Inside == 0
Outside == MaxAttempts + 1
Change == Attempt \cup {Inside, Outside}
Tree == SUBSET Change

Operator == 0               \* the author of a commit that is not dispatched

DispatchStates == {"none", "RUNNING", "COMPLETED", "FORWARDED", "FAILED", "REWORK"}

RowStates ==
    {"none", "PROPOSAL_RECEIVED", "CHECKED", "COMMIT_INTENT_PERSISTED", "STAGED",
     "COMMITTED", "NO_COMMIT_FINALIZED", "RECONCILIATION_REQUIRED"}

(* The states mark_structured_git_reconciliation may leave.                *)
Unsettled == {"PROPOSAL_RECEIVED", "CHECKED", "COMMIT_INTENT_PERSISTED", "STAGED"}

HeadTree == IF log = <<>> THEN {} ELSE log[Len(log)].tree
Clean == work = HeadTree /\ index = HeadTree

(* inspect_repository: the manifest covers HEAD, the index and the changes.*)
Here == [head |-> Len(log), work |-> work, index |-> index]

(* git add -A -- <paths>: only the writable paths are named.               *)
Added(tree) == (work \ {Outside}) \cup (tree \cap {Outside})

NoRecovery == [pc |-> "idle", attempt |-> 1, known |-> FALSE]

Init ==
    /\ policy \in {"required", "prohibited"}
    /\ log = <<>> /\ work = {} /\ index = {}
    /\ dispatch = [a \in Attempt |-> "none"]
    /\ base = [a \in Attempt |-> 0]
    /\ row = [a \in Attempt |-> "none"]
    /\ outcome = [a \in Attempt |-> "none"]
    /\ snapshot = [a \in Attempt |-> Here]
    /\ candidate = [a \in Attempt |-> {}]
    /\ waiting = FALSE
    /\ cancelled = {} /\ workers = {} /\ children = {}
    /\ pc = [a \in Attempt |-> "off"]
    /\ fresh = {}
    /\ recover = NoRecovery
    /\ meddled = 0 /\ crashes = 0
-----------------------------------------------------------------------------
Goto(a, label) == pc' = [pc EXCEPT ![a] = label]

Set(a, state) == row' = [row EXCEPT ![a] = state]

Marked(a) == IF row[a] \in Unsettled THEN "RECONCILIATION_REQUIRED" ELSE row[a]

(* Saving the run record moves its generation: every other process that    *)
(* loaded it is out of date.                                               *)
SaveDispatch(a, state) ==
    /\ dispatch' = [dispatch EXCEPT ![a] = state]
    /\ fresh' = {a} \cap fresh
    /\ recover' = [recover EXCEPT !.known = FALSE]

Commits(a) == policy = "required" /\ outcome[a] = "completed"

(* HEAD is exactly the commit the intent describes.                        *)
Exact(a) ==
    /\ Len(log) = base[a] + 1
    /\ log[Len(log)] = [by |-> a, tree |-> candidate[a]]
    /\ Clean

(* Mutant: the base of an attempt is taken before its parent commit.       *)
ParentRevision == Len(log) - 1

BaseRevision == Len(log)

(* prepare_dispatch takes a clean repository, and the retry after a failed *)
(* verification exactly the one the verification saw.                      *)
Prepare(a) ==
    /\ dispatch[a] = "none" /\ ~waiting
    /\ \A b \in Attempt : IF b < a THEN dispatch[b] \notin {"none", "RUNNING", "COMPLETED"}
                                   ELSE dispatch[b] = "none"
    /\ IF a > 1 /\ dispatch[a - 1] = "REWORK"
       THEN Here = snapshot[a - 1] /\ base' = [base EXCEPT ![a] = base[a - 1]]
       ELSE Clean /\ base' = [base EXCEPT ![a] = BaseRevision]
    /\ dispatch' = [dispatch EXCEPT ![a] = "RUNNING"]
    /\ fresh' = {a}
    /\ recover' = [recover EXCEPT !.known = FALSE]
    /\ workers' = workers \cup {a}
    /\ Goto(a, "working")
    /\ UNCHANGED <<repository, journal, waiting, cancelled, children, bounds>>

WorkerEdits(a) ==
    /\ a \in workers
    /\ work' = work \cup {a}
    /\ UNCHANGED <<log, index, journal, record, processes, pc, fresh, recover, bounds>>

WorkerExits(a) ==
    /\ a \in workers
    /\ workers' = workers \ {a}
    /\ UNCHANGED <<repository, journal, record, children, pc, fresh, recover, bounds>>

(* The adapter fails, or the response is no proposal, or it is refused.    *)
WorkerFails(a) ==
    /\ pc[a] = "working" /\ a \notin workers
    /\ pc' \in {[pc EXCEPT ![a] = "failing"], [pc EXCEPT ![a] = "stalling"]}
    /\ UNCHANGED <<repository, journal, record, processes, fresh, recover, bounds>>

(* validate_pending_executor_changes.                                      *)
PendingChanges(a) ==
    /\ Len(log) = base[a] /\ index = HeadTree
    /\ Outside \notin work \ HeadTree /\ Outside \notin HeadTree \ work
    /\ policy = "required" => work # HeadTree

(* record_executor_proposal: a proposal that did not complete must have    *)
(* left the repository as it was.                                          *)
Propose(a) ==
    /\ pc[a] = "working" /\ a \notin workers
    /\ \E result \in {"completed", "blocked"} :
        /\ outcome' = [outcome EXCEPT ![a] = result]
        /\ IF result = "completed"
           THEN PendingChanges(a) /\ Goto(a, "proposed")
           ELSE Clean /\ Len(log) = base[a] /\ Goto(a, "verified")
    /\ snapshot' = [snapshot EXCEPT ![a] = Here]
    /\ Set(a, "PROPOSAL_RECEIVED")
    /\ UNCHANGED <<repository, candidate, record, processes, fresh, recover, bounds>>

VerificationPasses(a) ==
    /\ pc[a] = "proposed"
    /\ Goto(a, "verified")
    /\ UNCHANGED <<repository, journal, record, processes, fresh, recover, bounds>>

(* record_executor_verification_failure.                                   *)
VerificationFails(a) ==
    /\ pc[a] = "proposed"
    /\ IF a \in fresh /\ Here = snapshot[a]
       THEN SaveDispatch(a, "REWORK") /\ Goto(a, "done")
       ELSE Goto(a, "failing") /\ UNCHANGED <<dispatch, fresh, recover>>
    /\ UNCHANGED <<repository, journal, base, waiting, cancelled, processes, bounds>>

(* Mutant: the repository is not inspected again after the verification.   *)
UnchangedTrusted(a) == Here.head >= snapshot[a].head

(* materialize_executor_proposal compares the repository with what was     *)
(* inspected before the verification ran.                                  *)
Unchanged(a) == Here = snapshot[a]

Inspect(a) ==
    /\ pc[a] = "verified" /\ Commits(a)
    /\ Goto(a, IF Unchanged(a) THEN "inspected" ELSE "failing")
    /\ UNCHANGED <<repository, journal, record, processes, fresh, recover, bounds>>

(* Without a commit the checked observation is all there is to save.       *)
Check(a) ==
    /\ pc[a] = "verified" /\ ~Commits(a)
    /\ IF Unchanged(a)
       THEN Set(a, "CHECKED") /\ Goto(a, "checked")
       ELSE Goto(a, "failing") /\ UNCHANGED row
    /\ UNCHANGED <<repository, outcome, snapshot, candidate, record, processes, fresh,
                   recover, bounds>>

(* prepare_structured_git_intent computes the tree in a temporary index,   *)
(* record_structured_git_checked saves it.                                 *)
PersistIntent(a) ==
    /\ pc[a] = "inspected"
    /\ candidate' = [candidate EXCEPT ![a] = Added(HeadTree)]
    /\ Set(a, "COMMIT_INTENT_PERSISTED")
    /\ Goto(a, "intent")
    /\ UNCHANGED <<repository, outcome, snapshot, record, processes, fresh, recover, bounds>>

(* execute_structured_git_commit inspects once more and starts git add.    *)
Stage(a) ==
    /\ pc[a] = "intent"
    /\ IF Unchanged(a)
       THEN children' = children \cup {<<"add", a>>} /\ Goto(a, "adding")
       ELSE Goto(a, "marking") /\ UNCHANGED children
    /\ UNCHANGED <<repository, journal, record, workers, fresh, recover, bounds>>

AddTakesEffect(a) ==
    /\ <<"add", a>> \in children
    /\ index' = Added(index)
    /\ children' = children \ {<<"add", a>>}
    /\ UNCHANGED <<log, work, journal, record, workers, pc, fresh, recover, bounds>>

(* Mutant: git commit is started before its STAGED row is durable.         *)
CommitUnjournaled(a) ==
    /\ pc[a] = "adding" /\ <<"add", a>> \notin children
    /\ children' = children \cup {<<"commit", a>>}
    /\ Goto(a, "staged")
    /\ UNCHANGED <<repository, journal, record, workers, fresh, recover, bounds>>

(* on_staged: the index holds the candidate tree.                          *)
Staged(a) ==
    /\ pc[a] = "adding" /\ <<"add", a>> \notin children
    /\ IF index = candidate[a]
       THEN Set(a, "STAGED") /\ Goto(a, "staged")
       ELSE Goto(a, "marking") /\ UNCHANGED row
    /\ UNCHANGED <<repository, outcome, snapshot, candidate, record, processes, fresh,
                   recover, bounds>>

(* Neither HEAD nor the index is looked at again.                          *)
Commit(a) ==
    /\ pc[a] = "staged"
    /\ children' = children \cup {<<"commit", a>>}
    /\ Goto(a, "committing")
    /\ UNCHANGED <<repository, journal, record, workers, fresh, recover, bounds>>

CommitTakesEffect(a) ==
    /\ <<"commit", a>> \in children
    /\ index # HeadTree
    /\ log' = Append(log, [by |-> a, tree |-> index])
    /\ children' = children \ {<<"commit", a>>}
    /\ UNCHANGED <<work, index, journal, record, workers, pc, fresh, recover, bounds>>

(* The command fails or is killed at its timeout, or it is only its answer *)
(* that is lost after it took effect.                                      *)
GitFails(a) ==
    /\ pc[a] \in {"adding", "committing"}
    /\ children' = children \ {<<"add", a>>, <<"commit", a>>}
    /\ Goto(a, "marking")
    /\ UNCHANGED <<repository, journal, record, workers, fresh, recover, bounds>>

OrphanFails(a) ==
    /\ pc[a] = "dead"
    /\ \E kind \in {"add", "commit"} :
        /\ <<kind, a>> \in children
        /\ children' = children \ {<<kind, a>>}
    /\ UNCHANGED <<repository, journal, record, workers, pc, fresh, recover, bounds>>

(* Mutant: the commit is taken for good once git exits.                    *)
PostCheckSkipped(a) ==
    /\ pc[a] = "committing" /\ <<"commit", a>> \notin children
    /\ Goto(a, "committed")
    /\ UNCHANGED <<repository, journal, record, processes, fresh, recover, bounds>>

(* The checks of parent, tree, metadata and cleanliness after the commit.  *)
PostCheck(a) ==
    /\ pc[a] = "committing" /\ <<"commit", a>> \notin children
    /\ Goto(a, IF Exact(a) THEN "committed" ELSE "marking")
    /\ UNCHANGED <<repository, journal, record, processes, fresh, recover, bounds>>

(* validate_executor_snapshot refuses a patch-only repository that is      *)
(* clean, or whose patch is no longer the one inspected.                   *)
Applicable(a) ==
    /\ a \in fresh
    /\ policy = "prohibited" => work = snapshot[a].work /\ work # HeadTree

(* apply_executor_result saves the dispatch COMPLETED with the outcome of  *)
(* its step.  An error is not followed by a mark on the row.               *)
Complete(a) ==
    /\ pc[a] \in {"committed", "checked"}
    /\ IF Applicable(a)
       THEN SaveDispatch(a, "COMPLETED") /\ Goto(a, "completed")
       ELSE Goto(a, "failing") /\ UNCHANGED <<dispatch, fresh, recover>>
    /\ UNCHANGED <<repository, journal, base, waiting, cancelled, processes, bounds>>

(* _write_structured_git_final.                                            *)
Final(a) == IF Commits(a) THEN "COMMITTED" ELSE "NO_COMMIT_FINALIZED"

MayFinalize(a) == row[a] = IF Commits(a) THEN "STAGED" ELSE "CHECKED"

(* Mutant: the row is finalized in a transaction of its own.               *)
FinalizeApart(a) ==
    /\ pc[a] = "completed"
    /\ Set(a, Final(a))
    /\ IF a \in fresh /\ MayFinalize(a)
       THEN SaveDispatch(a, "FORWARDED") /\ Goto(a, "done")
       ELSE Goto(a, "failing") /\ UNCHANGED <<dispatch, fresh, recover>>
    /\ UNCHANGED <<repository, outcome, snapshot, candidate, base, waiting, cancelled,
                   processes, bounds>>

(* persist_forwarded_dispatch writes the row, the result and the dispatch  *)
(* in one transaction.                                                     *)
Finalize(a) ==
    /\ pc[a] = "completed"
    /\ IF a \in fresh /\ MayFinalize(a)
       THEN Set(a, Final(a)) /\ SaveDispatch(a, "FORWARDED") /\ Goto(a, "done")
       ELSE Goto(a, "failing") /\ UNCHANGED <<row, dispatch, fresh, recover>>
    /\ UNCHANGED <<repository, outcome, snapshot, candidate, base, waiting, cancelled,
                   processes, bounds>>

(* mark_structured_git_reconciliation; a refusal is swallowed.             *)
Mark(a) ==
    /\ pc[a] = "marking"
    /\ Set(a, Marked(a))
    /\ Goto(a, "failing")
    /\ UNCHANGED <<repository, outcome, snapshot, candidate, record, processes, fresh,
                   recover, bounds>>

(* fail_dispatch asks the operator to reconcile, handle_stall may retry.   *)
(* Both reload the run; the dispatch may have been settled by recover, or  *)
(* it is COMPLETED: execute_worker looks after PREPARED and RUNNING only.  *)
Fail(a) ==
    /\ pc[a] \in {"failing", "stalling"}
    /\ Goto(a, "done")
    /\ IF dispatch[a] = "RUNNING"
       THEN /\ SaveDispatch(a, "FAILED")
            /\ waiting' \in {TRUE, waiting \/ pc[a] = "failing"}
       ELSE UNCHANGED <<dispatch, waiting, fresh, recover>>
    /\ UNCHANGED <<repository, journal, base, cancelled, processes, bounds>>
-----------------------------------------------------------------------------
(* request_dispatch_cancellation saves the run record.                     *)
Cancel(a) ==
    /\ dispatch[a] = "RUNNING" /\ a \notin cancelled
    /\ meddled < MaxMeddling
    /\ meddled' = meddled + 1
    /\ cancelled' = cancelled \cup {a}
    /\ fresh' = {}
    /\ recover' = [recover EXCEPT !.known = FALSE]
    /\ UNCHANGED <<repository, journal, dispatch, base, waiting, processes, pc, policy, crashes>>

(* The operator answers reconcile, having cleaned the repository or not.   *)
Reconcile ==
    /\ waiting
    /\ waiting' = FALSE
    /\ \/ UNCHANGED <<work, index>>
       \/ work' = HeadTree /\ index' = HeadTree
    /\ fresh' = {}
    /\ UNCHANGED <<log, journal, dispatch, base, cancelled, processes, pc, recover, bounds>>

(* Somebody else edits, stages, commits or cleans up.                      *)
Meddle ==
    /\ meddled < MaxMeddling
    /\ meddled' = meddled + 1
    /\ \/ /\ \E c \in {Inside, Outside} \ work : work' = work \cup {c}
          /\ UNCHANGED <<log, index>>
       \/ index # work /\ index' = work /\ UNCHANGED <<log, work>>
       \/ /\ work # HeadTree
          /\ log' = Append(log, [by |-> Operator, tree |-> work])
          /\ index' = work
          /\ UNCHANGED work
       \/ ~Clean /\ work' = HeadTree /\ index' = HeadTree /\ UNCHANGED log
    /\ UNCHANGED <<journal, record, processes, pc, fresh, recover, policy, crashes>>

Crash(a) ==
    /\ pc[a] \notin {"off", "done", "dead"}
    /\ crashes < MaxCrashes
    /\ crashes' = crashes + 1
    /\ Goto(a, "dead")
    /\ UNCHANGED <<repository, journal, record, processes, fresh, recover, policy, meddled>>
-----------------------------------------------------------------------------
(* Mutant: a row that is to be reconciled is put up for adoption too.      *)
ClassifyLenient(a) ==
    IF row[a] \in {"STAGED", "RECONCILIATION_REQUIRED"} THEN "adopting" ELSE "interrupting"

(* Mutant: nothing is ever put up for adoption.                            *)
ClassifyCautious(a) == IF row[a] = "COMMITTED" THEN "adopting" ELSE "interrupting"

(* classify_recovery.                                                      *)
Classify(a) == IF row[a] = "STAGED" THEN "adopting" ELSE "interrupting"

(* The recover command classifies and takes the run lease over, which is   *)
(* stale when the process is gone, or has not sent a heartbeat for long.   *)
(* It refuses an attempt whose worker may be alive.                        *)
RecoverStart(a) ==
    /\ recover.pc = "idle"
    /\ dispatch[a] = "RUNNING" /\ a \notin workers
    /\ recover' = [pc |-> Classify(a), attempt |-> a, known |-> FALSE]
    /\ UNCHANGED <<repository, journal, record, processes, pc, fresh, bounds>>

Adoptable(a) == row[a] = "STAGED" /\ dispatch[a] = "RUNNING"

(* adopt_interrupted_structured_commit loads the run and compares HEAD.    *)
RecoverInspect ==
    /\ recover.pc = "adopting"
    /\ LET a == recover.attempt IN
        IF Adoptable(a) /\ Exact(a)
        THEN recover' = [recover EXCEPT !.pc = "applying", !.known = TRUE] /\ UNCHANGED row
        ELSE /\ IF Adoptable(a) THEN Set(a, Marked(a)) ELSE UNCHANGED row
             /\ recover' = NoRecovery
    /\ UNCHANGED <<repository, outcome, snapshot, candidate, record, processes, pc, fresh,
                   bounds>>

(* apply_executor_result on behalf of recover: its first save.             *)
RecoverApply ==
    /\ recover.pc = "applying"
    /\ LET a == recover.attempt IN
        IF recover.known /\ dispatch[a] = "RUNNING"
        THEN /\ dispatch' = [dispatch EXCEPT ![a] = "COMPLETED"]
             /\ fresh' = {}
             /\ recover' = [recover EXCEPT !.pc = "finalizing"]
             /\ UNCHANGED row
        ELSE /\ Set(a, Marked(a))
             /\ recover' = NoRecovery
             /\ UNCHANGED <<dispatch, fresh>>
    /\ UNCHANGED <<repository, outcome, snapshot, candidate, base, waiting, cancelled,
                   processes, pc, bounds>>

(* Its second save, with the row.                                          *)
RecoverFinalize ==
    /\ recover.pc = "finalizing"
    /\ recover' = NoRecovery
    /\ LET a == recover.attempt IN
        IF recover.known /\ row[a] = "STAGED"
        THEN /\ Set(a, "COMMITTED")
             /\ dispatch' = [dispatch EXCEPT ![a] = "FORWARDED"]
             /\ fresh' = {}
        ELSE Set(a, Marked(a)) /\ UNCHANGED <<dispatch, fresh>>
    /\ UNCHANGED <<repository, outcome, snapshot, candidate, base, waiting, cancelled,
                   processes, pc, bounds>>

(* recover_interrupted_dispatch looks at the dispatch, not at the row.     *)
RecoverInterrupt ==
    /\ recover.pc = "interrupting"
    /\ recover' = NoRecovery
    /\ LET a == recover.attempt IN
        IF dispatch[a] = "RUNNING"
        THEN /\ dispatch' = [dispatch EXCEPT ![a] = "FAILED"]
             /\ waiting' = TRUE
             /\ fresh' = {}
        ELSE UNCHANGED <<dispatch, waiting, fresh>>
    /\ UNCHANGED <<repository, journal, base, cancelled, processes, pc, bounds>>

RecoverCrash ==
    /\ recover.pc # "idle"
    /\ crashes < MaxCrashes
    /\ crashes' = crashes + 1
    /\ recover' = NoRecovery
    /\ UNCHANGED <<repository, journal, record, processes, pc, fresh, policy, meddled>>
-----------------------------------------------------------------------------
Execute(a) ==
    \/ WorkerFails(a) \/ Propose(a) \/ VerificationPasses(a) \/ VerificationFails(a)
    \/ Inspect(a) \/ Check(a) \/ PersistIntent(a) \/ Stage(a) \/ Staged(a) \/ Commit(a)
    \/ GitFails(a) \/ PostCheck(a) \/ Complete(a) \/ Finalize(a)
    \/ Mark(a) \/ Fail(a)

Environment(a) ==
    \/ WorkerEdits(a) \/ WorkerExits(a)
    \/ AddTakesEffect(a) \/ CommitTakesEffect(a) \/ OrphanFails(a)

RecoverStep == RecoverInspect \/ RecoverApply \/ RecoverFinalize \/ RecoverInterrupt

Next ==
    \/ \E a \in Attempt :
        Prepare(a) \/ Execute(a) \/ Environment(a) \/ Cancel(a) \/ Crash(a) \/ RecoverStart(a)
    \/ RecoverStep \/ RecoverCrash \/ Reconcile \/ Meddle

(* A worker ends at its timeout, a process goes on, and the operator runs  *)
(* recover as long as a dispatch of a process that is gone is RUNNING.     *)
Fairness ==
    /\ WF_vars(\E a \in Attempt : WorkerExits(a))
    /\ WF_vars(\E a \in Attempt : Execute(a))
    /\ WF_vars(\E a \in Attempt : pc[a] \in {"dead", "done"} /\ RecoverStart(a))
    /\ WF_vars(RecoverStep)

Spec == Init /\ [][Next]_vars /\ Fairness
-----------------------------------------------------------------------------
PcStates ==
    {"off", "working", "proposed", "verified", "inspected", "intent", "adding", "staged",
     "committing", "committed", "checked", "completed", "marking", "failing", "stalling", "done", "dead"}

CommitRecord == [by : Attempt \cup {Operator}, tree : Tree]

(* The values of the variables: no base lies beyond numbers, no row, result *)
(* or place is outside of those the code has.                              *)
TypeOK ==
    /\ policy \in {"required", "prohibited"}
    /\ log \in Seq(CommitRecord) /\ work \in Tree /\ index \in Tree
    /\ dispatch \in [Attempt -> DispatchStates]
    /\ base \in [Attempt -> Nat]
    /\ row \in [Attempt -> RowStates]
    /\ outcome \in [Attempt -> {"none", "completed", "blocked"}]
    /\ snapshot \in [Attempt -> [head : Nat, work : Tree, index : Tree]]
    /\ candidate \in [Attempt -> Tree]
    /\ waiting \in BOOLEAN
    /\ cancelled \subseteq Attempt /\ workers \subseteq Attempt /\ fresh \subseteq Attempt
    /\ children \subseteq {"add", "commit"} \X Attempt
    /\ pc \in [Attempt -> PcStates]
    /\ recover \in [pc : {"idle", "adopting", "applying", "finalizing", "interrupting"},
                    attempt : Attempt, known : BOOLEAN]
    /\ meddled \in 0..MaxMeddling /\ crashes \in 0..MaxCrashes

(* No commit of the dispatcher is on the branch unless its row says so: a  *)
(* reader of the journal never takes an attempt that published its work    *)
(* for one that did not.                                                   *)
JournalPrecedesCommit ==
    \A i \in 1..Len(log) :
        log[i].by # Operator =>
            row[log[i].by] \in {"STAGED", "COMMITTED", "RECONCILIATION_REQUIRED"}

(* The row is final exactly when the result of the dispatch is durable,    *)
(* although the dispatch is COMPLETED in a save before, one process writes *)
(* the row and two may write the result.                                   *)
SettledTogether ==
    \A a \in Attempt :
        dispatch[a] = "FORWARDED" <=> row[a] \in {"COMMITTED", "NO_COMMIT_FINALIZED"}

Verdict ==
    [a \in Attempt |->
        CASE dispatch[a] \in {"none", "RUNNING", "COMPLETED"} -> "open"
          [] dispatch[a] = "FORWARDED" -> IF Commits(a) THEN "accepted" ELSE "recorded"
          [] OTHER -> "rejected"]

(* The tree of the working copy that each attempt proposed.                *)
Proposal == [a \in Attempt |-> snapshot[a].work]

(* The capability keeps the promise of StructuredGitContract: an attempt   *)
(* commits at most once, and a completed result stands for a commit of its *)
(* own that holds the proposed tree right on its base, whoever works in    *)
(* the same index, and whether the process or recover applied it.          *)
Contract == INSTANCE StructuredGitContract WITH
    proposal <- Proposal, verdict <- Verdict

Implements == Contract!Spec

(* No dispatch stays RUNNING for ever: its process settles it, or recover  *)
(* adopts it, or recover hands it to the operator, perhaps in two calls.   *)
WorkIsDecided ==
    \A a \in Attempt : dispatch[a] = "RUNNING" ~> dispatch[a] # "RUNNING"

(* The commit of a process that died before it applied the result is not   *)
(* lost: recover adopts it, unless the operator cancelled the attempt or   *)
(* somebody changed the repository.  Two histories are excluded: a recover *)
(* that classified the attempt before its row was STAGED gives it up, and  *)
(* a second crash, of recover between its two saves, leaves the dispatch   *)
(* COMPLETED, which no command takes further.                              *)
CommitSurvivesCrash ==
    \A a \in Attempt :
        (pc[a] = "dead" /\ Adoptable(a) /\ Exact(a) /\ recover.pc # "interrupting")
            ~> \/ dispatch[a] = "FORWARDED" \/ a \in cancelled \/ ~Exact(a)
               \/ dispatch[a] = "COMPLETED" /\ crashes > 1
=============================================================================
