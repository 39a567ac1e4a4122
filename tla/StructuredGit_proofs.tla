------------------------ MODULE StructuredGit_proofs ------------------------
(***************************************************************************)
(* Safety of the structured Git capability for any number of attempts,     *)
(* crashes and meddlers: types, the journal ahead of every commit, and the *)
(* row and the result that are final together.                             *)
(*                                                                         *)
(* Neither of the last two is inductive.  JournalPrecedesCommit looks at   *)
(* commits, but a git commit that was started may take effect when its     *)
(* parent is long dead: Journaled speaks of both, and says from where in   *)
(* its code a process may start one.  SettledTogether could be broken by   *)
(* an overtaken process that applies a result recover has applied: Settled *)
(* says that it then does not hold the generation.                         *)
(***************************************************************************)
EXTENDS StructuredGit, TLAPS

(* A commit of the attempt is on the branch, or under way.                 *)
Published(a) ==
    \/ <<"commit", a>> \in children
    \/ \E i \in 1..Len(log) : log[i].by = a

PublishedRows == {"STAGED", "COMMITTED", "RECONCILIATION_REQUIRED"}
FinalRows == {"COMMITTED", "NO_COMMIT_FINALIZED"}

(* Where a process is that has not saved its intent.                       *)
Unintended == {"off", "working", "proposed", "verified", "inspected"}

(* Where a process is that has not saved its row STAGED.                   *)
Unstaged == Unintended \cup {"intent", "adding"}

(* Where a process is that has not given up.                               *)
Going == Unstaged \cup {"staged", "committing", "committed", "checked", "completed"}

(* An attempt that was not prepared has no process.                        *)
Unprepared == \A a \in Attempt : dispatch[a] = "none" => pc[a] = "off"

Journaled ==
    \A a \in Attempt :
        /\ Published(a) => row[a] \in PublishedRows
        /\ pc[a] \in {"staged", "committing"} => row[a] \in PublishedRows
        /\ pc[a] \in Unintended => ~Published(a)

Settled ==
    \A a \in Attempt :
        /\ dispatch[a] = "FORWARDED" <=> row[a] \in FinalRows
        /\ pc[a] \in Unstaged => row[a] \notin FinalRows \cup {"STAGED"}
        /\ pc[a] \in Going /\ a \in fresh => dispatch[a] # "FORWARDED"

-----------------------------------------------------------------------------
LEMMA AttemptFacts ==
    /\ \A a \in Attempt : a \in Nat /\ a # Operator
    /\ Attempt \subseteq Change
    /\ Inside \in Change /\ Outside \in Change
BY BoundAssumption DEF Attempt, Operator, Change, Inside, Outside

LEMMA TreeFacts ==
    ASSUME TypeOK
    PROVE  /\ HeadTree \in Tree
           /\ \A tree \in Tree : Added(tree) \in Tree
           /\ Len(log) \in Nat
           /\ Here \in [head : Nat, work : Tree, index : Tree]
<1>1. HeadTree \in Tree
  <2>1. CASE log = <<>>
    BY <2>1 DEF HeadTree, Tree
  <2>2. CASE log # <<>>
    <3>1. log[Len(log)] \in CommitRecord
      BY <2>2 DEF TypeOK
    <3>. QED  BY <2>2, <3>1 DEF HeadTree, CommitRecord
  <2>. QED  BY <2>1, <2>2
<1>2. Len(log) \in Nat
  BY DEF TypeOK
<1>3. \A tree \in Tree : Added(tree) \in Tree
  BY DEF TypeOK, Added, Tree
<1>4. Here \in [head : Nat, work : Tree, index : Tree]
  BY <1>2 DEF Here, TypeOK
<1>. QED  BY <1>1, <1>2, <1>3, <1>4

LEMMA RecoverTypes ==
    ASSUME TypeOK
    PROVE  /\ NoRecovery \in [pc : {"idle", "adopting", "applying", "finalizing", "interrupting"},
                              attempt : Attempt, known : BOOLEAN]
           /\ recover.attempt \in Attempt
BY BoundAssumption DEF TypeOK, NoRecovery, Attempt

LEMMA MarkedRow ==
    ASSUME TypeOK, NEW a \in Attempt
    PROVE  /\ Marked(a) \in RowStates
           /\ Marked(a) \in PublishedRows <=> row[a] \in PublishedRows \cup Unsettled
           /\ Marked(a) \in FinalRows <=> row[a] \in FinalRows
           /\ Marked(a) # "STAGED"
BY DEF TypeOK, Marked, Unsettled, RowStates, PublishedRows, FinalRows
-----------------------------------------------------------------------------
LEMMA TypeInit == Init => TypeOK
<1>. SUFFICES ASSUME Init PROVE TypeOK
  OBVIOUS
<1>1. {} \in Tree
  BY DEF Tree
<1>2. log \in Seq(CommitRecord) /\ Len(log) = 0
  BY DEF Init
<1>3. Here \in [head : Nat, work : Tree, index : Tree]
  BY <1>1, <1>2 DEF Init, Here
<1>4. NoRecovery \in [pc : {"idle", "adopting", "applying", "finalizing", "interrupting"},
                     attempt : Attempt, known : BOOLEAN]
  BY BoundAssumption DEF NoRecovery, Attempt
<1>5. /\ dispatch \in [Attempt -> DispatchStates] /\ row \in [Attempt -> RowStates]
      /\ pc \in [Attempt -> PcStates]
  BY DEF Init, DispatchStates, RowStates, PcStates
<1>6. /\ base \in [Attempt -> Nat]
      /\ outcome \in [Attempt -> {"none", "completed", "blocked"}]
      /\ snapshot \in [Attempt -> [head : Nat, work : Tree, index : Tree]]
      /\ candidate \in [Attempt -> Tree]
  BY <1>1, <1>3 DEF Init
<1>7. meddled \in 0..MaxMeddling /\ crashes \in 0..MaxCrashes
  BY BoundAssumption DEF Init
<1>. QED
  BY <1>1, <1>2, <1>4, <1>5, <1>6, <1>7 DEF Init, TypeOK

-----------------------------------------------------------------------------
LEMMA ExecuteTypes ==
    ASSUME TypeOK, NEW a \in Attempt, Execute(a)
    PROVE  TypeOK'
<1>1. ASSUME WorkerFails(a) PROVE TypeOK'
  BY <1>1
     DEF WorkerFails, TypeOK, PcStates,
         repository, journal, record, processes, bounds
<1>2. ASSUME Propose(a) PROVE TypeOK'
  <2>1. PICK result \in {"completed", "blocked"} :
          /\ outcome' = [outcome EXCEPT ![a] = result]
          /\ Goto(a, "proposed") \/ Goto(a, "verified")
    BY <1>2 DEF Propose
  <2>2. outcome' \in [Attempt -> {"none", "completed", "blocked"}] /\ pc' \in [Attempt -> PcStates]
    BY <2>1 DEF Goto, PcStates, TypeOK
  <2>3. snapshot' \in [Attempt -> [head : Nat, work : Tree, index : Tree]]
    BY <1>2, TreeFacts DEF Propose, TypeOK
  <2>4. row' \in [Attempt -> RowStates]
    BY <1>2 DEF Propose, Set, RowStates, TypeOK
  <2>. QED
    BY <1>2, <2>2, <2>3, <2>4
       DEF Propose, TypeOK, repository, record, processes, bounds
<1>3. ASSUME VerificationPasses(a) PROVE TypeOK'
  BY <1>3
     DEF VerificationPasses, TypeOK, Goto, PcStates,
         repository, journal, record, processes, bounds
<1>4. ASSUME VerificationFails(a) PROVE TypeOK'
  BY <1>4
     DEF VerificationFails, TypeOK, Goto, SaveDispatch, PcStates, DispatchStates,
         repository, journal, record, processes, bounds
<1>5. ASSUME Inspect(a) PROVE TypeOK'
  BY <1>5
     DEF Inspect, TypeOK, Goto, PcStates,
         repository, journal, record, processes, bounds
<1>6. ASSUME Check(a) PROVE TypeOK'
  BY <1>6
     DEF Check, TypeOK, Goto, Set, PcStates, RowStates,
         repository, journal, record, processes, bounds
<1>7. ASSUME PersistIntent(a) PROVE TypeOK'
  BY <1>7, TreeFacts
     DEF PersistIntent, TypeOK, Goto, Set, PcStates, RowStates,
         repository, journal, record, processes, bounds
<1>8. ASSUME Stage(a) PROVE TypeOK'
  <2>1. children' \subseteq {"add", "commit"} \X Attempt
    BY <1>8 DEF Stage, TypeOK
  <2>2. pc' \in [Attempt -> PcStates]
    BY <1>8 DEF Stage, Goto, PcStates, TypeOK
  <2>. QED  BY <1>8, <2>1, <2>2 DEF Stage, TypeOK, repository, journal, record, bounds
<1>9. ASSUME Staged(a) PROVE TypeOK'
  BY <1>9
     DEF Staged, TypeOK, Goto, Set, PcStates, RowStates,
         repository, journal, record, processes, bounds
<1>10. ASSUME Commit(a) PROVE TypeOK'
  BY <1>10
     DEF Commit, TypeOK, Goto, PcStates,
         repository, journal, record, processes, bounds
<1>11. ASSUME GitFails(a) PROVE TypeOK'
  BY <1>11
     DEF GitFails, TypeOK, Goto, PcStates,
         repository, journal, record, processes, bounds
<1>12. ASSUME PostCheck(a) PROVE TypeOK'
  BY <1>12
     DEF PostCheck, TypeOK, Goto, PcStates,
         repository, journal, record, processes, bounds
<1>13. ASSUME Complete(a) PROVE TypeOK'
  BY <1>13
     DEF Complete, TypeOK, Goto, SaveDispatch, PcStates, DispatchStates,
         repository, journal, record, processes, bounds
<1>14. ASSUME Finalize(a) PROVE TypeOK'
  BY <1>14
     DEF Finalize, TypeOK, Goto, Set, Final, SaveDispatch, PcStates, DispatchStates, RowStates,
         repository, journal, record, processes, bounds
<1>15. ASSUME Mark(a) PROVE TypeOK'
  BY <1>15, MarkedRow
     DEF Mark, TypeOK, Goto, Set, PcStates,
         repository, journal, record, processes, bounds
<1>16. ASSUME Fail(a) PROVE TypeOK'
  BY <1>16
     DEF Fail, TypeOK, Goto, SaveDispatch, PcStates, DispatchStates,
         repository, journal, record, processes, bounds
<1>. QED  BY <1>1, <1>2, <1>3, <1>4, <1>5, <1>6, <1>7, <1>8, <1>9, <1>10, <1>11, <1>12, <1>13, <1>14, <1>15, <1>16 DEF Execute

LEMMA EnvironmentTypes ==
    ASSUME TypeOK, NEW a \in Attempt, Environment(a)
    PROVE  TypeOK'
<1>1. ASSUME WorkerEdits(a) PROVE TypeOK'
  BY <1>1, AttemptFacts
     DEF WorkerEdits, TypeOK, Tree, repository, journal, record, processes, bounds
<1>2. ASSUME WorkerExits(a) PROVE TypeOK'
  BY <1>2
     DEF WorkerExits, TypeOK, repository, journal, record, processes, bounds
<1>3. ASSUME AddTakesEffect(a) PROVE TypeOK'
  BY <1>3, TreeFacts
     DEF AddTakesEffect, TypeOK, repository, journal, record, processes, bounds
<1>4. ASSUME CommitTakesEffect(a) PROVE TypeOK'
  BY <1>4
     DEF CommitTakesEffect, TypeOK, CommitRecord, repository, journal, record, processes, bounds
<1>5. ASSUME OrphanFails(a) PROVE TypeOK'
  BY <1>5
     DEF OrphanFails, TypeOK, repository, journal, record, processes, bounds
<1>. QED  BY <1>1, <1>2, <1>3, <1>4, <1>5 DEF Environment

LEMMA AttemptTypes ==
    ASSUME TypeOK, NEW a \in Attempt,
           Prepare(a) \/ Cancel(a) \/ Crash(a) \/ RecoverStart(a)
    PROVE  TypeOK'
<1>1. ASSUME Prepare(a) PROVE TypeOK'
  <2>1. base' \in [Attempt -> Nat]
    <3>1. CASE a > 1 /\ dispatch[a - 1] = "REWORK"
      <4>1. a - 1 \in Attempt
        BY <3>1, BoundAssumption DEF Attempt
      <4>2. base[a - 1] \in Nat
        BY <4>1 DEF TypeOK
      <4>3. base' = [base EXCEPT ![a] = base[a - 1]]
        BY <1>1, <3>1 DEF Prepare
      <4>. QED  BY <4>2, <4>3 DEF TypeOK
    <3>2. CASE ~(a > 1 /\ dispatch[a - 1] = "REWORK")
      BY <1>1, <3>2, TreeFacts DEF Prepare, BaseRevision, TypeOK
    <3>. QED  BY <3>1, <3>2
  <2>2. dispatch' \in [Attempt -> DispatchStates] /\ pc' \in [Attempt -> PcStates]
    BY <1>1 DEF Prepare, Goto, DispatchStates, PcStates, TypeOK
  <2>3. recover' \in [pc : {"idle", "adopting", "applying", "finalizing", "interrupting"},
                     attempt : Attempt, known : BOOLEAN]
    BY <1>1 DEF Prepare, TypeOK
  <2>. QED
    BY <1>1, <2>1, <2>2, <2>3 DEF Prepare, TypeOK, repository, journal, bounds
<1>2. ASSUME Cancel(a) PROVE TypeOK'
  <2>1. recover' \in [pc : {"idle", "adopting", "applying", "finalizing", "interrupting"},
                     attempt : Attempt, known : BOOLEAN]
    BY <1>2 DEF Cancel, TypeOK
  <2>2. meddled' \in 0..MaxMeddling
    BY <1>2, BoundAssumption DEF Cancel, TypeOK
  <2>. QED  BY <1>2, <2>1, <2>2 DEF Cancel, TypeOK, repository, journal, processes
<1>3. ASSUME Crash(a) PROVE TypeOK'
  BY <1>3, BoundAssumption
     DEF Crash, TypeOK, Goto, PcStates, repository, journal, record, processes, bounds
<1>4. ASSUME RecoverStart(a) PROVE TypeOK'
  BY <1>4
     DEF RecoverStart, TypeOK, Classify, repository, journal, record, processes, bounds
<1>. QED  BY <1>1, <1>2, <1>3, <1>4

LEMMA OtherTypes ==
    ASSUME TypeOK, RecoverStep \/ RecoverCrash \/ Reconcile \/ Meddle
    PROVE  TypeOK'
<1>1. ASSUME RecoverInspect PROVE TypeOK'
  <2>1. row' \in [Attempt -> RowStates]
    <3>1. row' \in {row, [row EXCEPT ![recover.attempt] = Marked(recover.attempt)]}
      BY <1>1 DEF RecoverInspect, Set
    <3>2. Marked(recover.attempt) \in RowStates
      BY MarkedRow, RecoverTypes
    <3>. QED  BY <3>1, <3>2 DEF TypeOK
  <2>2. recover' \in [pc : {"idle", "adopting", "applying", "finalizing", "interrupting"},
                     attempt : Attempt, known : BOOLEAN]
    BY <1>1, RecoverTypes DEF RecoverInspect, TypeOK
  <2>. QED
    BY <1>1, <2>1, <2>2 DEF RecoverInspect, TypeOK, repository, record, processes, bounds
<1>2. ASSUME RecoverApply PROVE TypeOK'
  <2>1. row' \in [Attempt -> RowStates]
    <3>1. row' \in {row, [row EXCEPT ![recover.attempt] = Marked(recover.attempt)]}
      BY <1>2 DEF RecoverApply, Set
    <3>2. Marked(recover.attempt) \in RowStates
      BY MarkedRow, RecoverTypes
    <3>. QED  BY <3>1, <3>2 DEF TypeOK
  <2>2. recover' \in [pc : {"idle", "adopting", "applying", "finalizing", "interrupting"},
                     attempt : Attempt, known : BOOLEAN]
    BY <1>2, RecoverTypes DEF RecoverApply, TypeOK
  <2>3. dispatch' \in [Attempt -> DispatchStates] /\ fresh' \subseteq Attempt
    BY <1>2 DEF RecoverApply, DispatchStates, TypeOK
  <2>. QED
    BY <1>2, <2>1, <2>2, <2>3 DEF RecoverApply, TypeOK, repository, processes, bounds
<1>3. ASSUME RecoverFinalize PROVE TypeOK'
  BY <1>3, MarkedRow, RecoverTypes
     DEF RecoverFinalize, TypeOK, Set, DispatchStates, RowStates, repository, journal, record, processes, bounds
<1>4. ASSUME RecoverInterrupt PROVE TypeOK'
  BY <1>4, RecoverTypes
     DEF RecoverInterrupt, TypeOK, DispatchStates, repository, journal, record, processes, bounds
<1>5. ASSUME RecoverCrash PROVE TypeOK'
  BY <1>5, RecoverTypes, BoundAssumption
     DEF RecoverCrash, TypeOK, repository, journal, record, processes, bounds
<1>6. ASSUME Reconcile PROVE TypeOK'
  BY <1>6, TreeFacts
     DEF Reconcile, TypeOK, HeadTree, repository, journal, record, processes, bounds
<1>7. ASSUME Meddle PROVE TypeOK'
  <2>1. log' \in Seq(CommitRecord)
    <3>1. [by |-> Operator, tree |-> work] \in CommitRecord
      BY DEF CommitRecord, TypeOK
    <3>2. log' \in {log, Append(log, [by |-> Operator, tree |-> work])}
      BY <1>7 DEF Meddle
    <3>3. Append(log, [by |-> Operator, tree |-> work]) \in Seq(CommitRecord)
      BY <3>1 DEF TypeOK
    <3>. QED  BY <3>2, <3>3 DEF TypeOK
  <2>2. work' \in Tree /\ index' \in Tree
    BY <1>7, TreeFacts, AttemptFacts DEF Meddle, Tree, TypeOK
  <2>3. meddled' \in 0..MaxMeddling
    BY <1>7, BoundAssumption DEF Meddle, TypeOK
  <2>. QED  BY <1>7, <2>1, <2>2, <2>3 DEF Meddle, TypeOK, journal, record, processes
<1>. QED  BY <1>1, <1>2, <1>3, <1>4, <1>5, <1>6, <1>7 DEF RecoverStep

-----------------------------------------------------------------------------
LEMMA EveryStepTypes == TypeOK /\ [Next]_vars => TypeOK'
<1>. SUFFICES ASSUME TypeOK, [Next]_vars PROVE TypeOK'
  OBVIOUS
<1>1. CASE UNCHANGED vars
  BY <1>1 DEF vars, repository, journal, record, processes, bounds, TypeOK
<1>2. CASE Next
  BY <1>2, ExecuteTypes, EnvironmentTypes, AttemptTypes, OtherTypes DEF Next
<1>. QED  BY <1>1, <1>2

(* Every variable keeps its type and no bound is passed, for any number of *)
(* attempts: the rows, results and places of the code are those listed.    *)
THEOREM TypeCorrect == Spec => []TypeOK
<1>. QED  BY TypeInit, EveryStepTypes, PTL DEF Spec
-----------------------------------------------------------------------------
(* Nobody takes the dispatch of an attempt away, and only Prepare starts a  *)
(* process.                                                                *)
LEMMA UnpreparedKeeps ==
    ASSUME TypeOK, Unprepared, Next
    PROVE  Unprepared'
<1>1. ASSUME NEW a \in Attempt, UNCHANGED dispatch, pc[a] # "off",
             \E label : Goto(a, label)
      PROVE  Unprepared'
  BY <1>1 DEF Unprepared, Goto, TypeOK
<1>2. ASSUME NEW a \in Attempt, NEW state, state # "none", dispatch' = [dispatch EXCEPT ![a] = state],
             pc' = pc \/ \E label : Goto(a, label)
      PROVE  Unprepared'
  BY <1>2 DEF Unprepared, Goto, TypeOK
<1>3. ASSUME UNCHANGED <<dispatch, pc>> PROVE Unprepared'
  BY <1>3 DEF Unprepared
<1>4. ASSUME NEW a \in Attempt, Execute(a) PROVE Unprepared'
  <2>1. CASE WorkerFails(a) \/ Propose(a) \/ VerificationPasses(a) \/ Inspect(a) \/ Check(a)
    BY <2>1, <1>1 DEF WorkerFails, Propose, VerificationPasses, Inspect, Check, Goto, record
  <2>2. CASE PersistIntent(a) \/ Stage(a) \/ Staged(a) \/ Commit(a) \/ GitFails(a) \/ PostCheck(a) \/ Mark(a)
    BY <2>2, <1>1 DEF PersistIntent, Stage, Staged, Commit, GitFails, PostCheck, Mark, record
  <2>3. CASE VerificationFails(a) \/ Complete(a) \/ Finalize(a) \/ Fail(a)
    BY <2>3, <1>1, <1>2 DEF VerificationFails, Complete, Finalize, Fail, SaveDispatch
  <2>. QED  BY <1>4, <2>1, <2>2, <2>3 DEF Execute
<1>5. ASSUME NEW a \in Attempt, Environment(a) PROVE Unprepared'
  BY <1>3, <1>5 DEF Environment, WorkerEdits, WorkerExits, AddTakesEffect, CommitTakesEffect,
                    OrphanFails, record
<1>6. ASSUME NEW a \in Attempt, Prepare(a) \/ Cancel(a) \/ Crash(a) \/ RecoverStart(a)
      PROVE  Unprepared'
  BY <1>1, <1>2, <1>3, <1>6 DEF Prepare, Cancel, Crash, RecoverStart, record
<1>7. ASSUME RecoverStep PROVE Unprepared'
  BY <1>2, <1>3, <1>7, RecoverTypes
     DEF RecoverStep, RecoverInspect, RecoverApply, RecoverFinalize, RecoverInterrupt, record
<1>8. ASSUME RecoverCrash \/ Reconcile \/ Meddle PROVE Unprepared'
  BY <1>3, <1>8 DEF RecoverCrash, Reconcile, Meddle, record
<1>. QED  BY <1>4, <1>5, <1>6, <1>7, <1>8 DEF Next

(* Nothing is published, no process comes nearer to starting a commit and  *)
(* none goes back.                                                         *)
Calm ==
    \A b \in Attempt :
        /\ Published(b)' => Published(b)
        /\ pc'[b] \in {"staged", "committing"} => pc[b] \in {"staged", "committing"}
        /\ pc'[b] \in Unintended => pc[b] \in Unintended

RowsKept == \A b \in Attempt : row[b] \in PublishedRows => row'[b] \in PublishedRows

LEMMA CalmKeeps ==
    ASSUME Journaled, Calm, RowsKept
    PROVE  Journaled'
BY DEF Journaled, Calm, RowsKept

LEMMA NothingPublished ==
    ASSUME UNCHANGED log, children' \subseteq children
    PROVE  \A b \in Attempt : Published(b)' => Published(b)
BY DEF Published

LEMMA Appended ==
    ASSUME TypeOK, NEW entry \in CommitRecord, log' = Append(log, entry),
           children' \subseteq children
    PROVE  \A b \in Attempt : b # entry.by /\ Published(b)' => Published(b)
<1>. SUFFICES ASSUME NEW b \in Attempt, b # entry.by, Published(b)' PROVE Published(b)
  OBVIOUS
<1>1. Len(log') = Len(log) + 1 /\ Len(log) \in Nat
  BY DEF TypeOK
<1>2. log'[Len(log) + 1] = entry
  BY DEF TypeOK
<1>3. \A i \in 1..Len(log) : log'[i] = log[i]
  BY DEF TypeOK
<1>4. CASE <<"commit", b>> \in children'
  BY <1>4 DEF Published
<1>5. CASE \E i \in 1..Len(log') : log'[i].by = b
  <2>1. PICK i \in 1..Len(log') : log'[i].by = b
    BY <1>5
  <2>2. i # Len(log) + 1
    BY <2>1, <1>2
  <2>3. i \in 1..Len(log)
    BY <2>2, <1>1
  <2>. QED  BY <2>1, <2>3, <1>3 DEF Published
<1>. QED  BY <1>4, <1>5 DEF Published

LEMMA ExecuteJournaled ==
    ASSUME TypeOK, Journaled, NEW a \in Attempt, Execute(a)
    PROVE  Journaled'
<1>1. ASSUME WorkerFails(a) PROVE Journaled'
  <2>1. Calm
    BY <1>1, NothingPublished DEF WorkerFails, Calm, Goto, Unintended, TypeOK, repository, processes, journal
  <2>2. RowsKept
    BY <1>1 DEF WorkerFails, RowsKept, Goto, Unintended, TypeOK, repository, processes, journal
  <2>. QED  BY <2>1, <2>2, CalmKeeps
<1>2. ASSUME VerificationPasses(a) PROVE Journaled'
  <2>1. Calm
    BY <1>2, NothingPublished DEF VerificationPasses, Calm, Goto, Unintended, TypeOK, repository, processes, journal
  <2>2. RowsKept
    BY <1>2 DEF VerificationPasses, RowsKept, Goto, Unintended, TypeOK, repository, processes, journal
  <2>. QED  BY <2>1, <2>2, CalmKeeps
<1>3. ASSUME VerificationFails(a) PROVE Journaled'
  <2>1. Calm
    BY <1>3, NothingPublished DEF VerificationFails, Calm, Goto, Unintended, TypeOK, repository, processes, journal
  <2>2. RowsKept
    BY <1>3 DEF VerificationFails, RowsKept, Goto, Unintended, TypeOK, repository, processes, journal
  <2>. QED  BY <2>1, <2>2, CalmKeeps
<1>4. ASSUME Inspect(a) PROVE Journaled'
  <2>1. Calm
    BY <1>4, NothingPublished DEF Inspect, Calm, Goto, Unintended, TypeOK, repository, processes, journal
  <2>2. RowsKept
    BY <1>4 DEF Inspect, RowsKept, Goto, Unintended, TypeOK, repository, processes, journal
  <2>. QED  BY <2>1, <2>2, CalmKeeps
<1>5. ASSUME GitFails(a) PROVE Journaled'
  <2>1. Calm
    BY <1>5, NothingPublished DEF GitFails, Calm, Goto, Unintended, TypeOK, repository, processes, journal
  <2>2. RowsKept
    BY <1>5 DEF GitFails, RowsKept, Goto, Unintended, TypeOK, repository, processes, journal
  <2>. QED  BY <2>1, <2>2, CalmKeeps
<1>6. ASSUME PostCheck(a) PROVE Journaled'
  <2>1. Calm
    BY <1>6, NothingPublished DEF PostCheck, Calm, Goto, Unintended, TypeOK, repository, processes, journal
  <2>2. RowsKept
    BY <1>6 DEF PostCheck, RowsKept, Goto, Unintended, TypeOK, repository, processes, journal
  <2>. QED  BY <2>1, <2>2, CalmKeeps
<1>7. ASSUME Complete(a) PROVE Journaled'
  <2>1. Calm
    BY <1>7, NothingPublished DEF Complete, Calm, Goto, Unintended, TypeOK, repository, processes, journal
  <2>2. RowsKept
    BY <1>7 DEF Complete, RowsKept, Goto, Unintended, TypeOK, repository, processes, journal
  <2>. QED  BY <2>1, <2>2, CalmKeeps
<1>8. ASSUME Fail(a) PROVE Journaled'
  <2>1. Calm
    BY <1>8, NothingPublished DEF Fail, Calm, Goto, Unintended, TypeOK, repository, processes, journal
  <2>2. RowsKept
    BY <1>8 DEF Fail, RowsKept, Goto, Unintended, TypeOK, repository, processes, journal
  <2>. QED  BY <2>1, <2>2, CalmKeeps
<1>9. ASSUME Mark(a) PROVE Journaled'
  <2>1. Calm
    BY <1>9, NothingPublished DEF Mark, Calm, Goto, Unintended, TypeOK, repository, processes, journal
  <2>2. RowsKept
    BY <1>9, MarkedRow DEF Mark, Set, RowsKept, TypeOK
  <2>. QED  BY <2>1, <2>2, CalmKeeps
<1>10. ASSUME Stage(a) PROVE Journaled'
  <2>1. \A b \in Attempt : Published(b)' => Published(b)
    BY <1>10 DEF Stage, Published, repository
  <2>2. Calm
    BY <1>10, <2>1 DEF Stage, Calm, Goto, Unintended, TypeOK, repository, processes, journal
  <2>3. RowsKept
    BY <1>10 DEF Stage, RowsKept, journal
  <2>. QED  BY <2>2, <2>3, CalmKeeps
<1>11. ASSUME Commit(a) PROVE Journaled'
  <2>1. \A b \in Attempt : b # a /\ Published(b)' => Published(b)
    BY <1>11 DEF Commit, Published, repository
  <2>2. row[a] \in PublishedRows
    BY <1>11 DEF Commit, Journaled
  <2>3. /\ row' = row
        /\ pc'[a] = "committing"
        /\ \A b \in Attempt : b # a => pc'[b] = pc[b]
    BY <1>11 DEF Commit, Goto, journal, TypeOK
  <2>. QED  BY <2>1, <2>2, <2>3 DEF Journaled, Unintended
<1>12. ASSUME Propose(a) PROVE Journaled'
  <2>1. \A b \in Attempt : Published(b)' => Published(b)
    BY <1>12, NothingPublished DEF Propose, repository, processes
  <2>2. ~Published(a)
    BY <1>12 DEF Propose, Journaled, Unintended
  <2>3. /\ pc'[a] \notin {"staged", "committing"}
        /\ \A b \in Attempt : b # a => pc'[b] = pc[b] /\ row'[b] = row[b]
    BY <1>12 DEF Propose, Goto, Set, TypeOK
  <2>. QED  BY <2>1, <2>2, <2>3 DEF Journaled
<1>13. ASSUME Check(a) PROVE Journaled'
  <2>1. \A b \in Attempt : Published(b)' => Published(b)
    BY <1>13, NothingPublished DEF Check, repository, processes
  <2>2. ~Published(a)
    BY <1>13 DEF Check, Journaled, Unintended
  <2>3. /\ pc'[a] \notin {"staged", "committing"}
        /\ \A b \in Attempt : b # a => pc'[b] = pc[b] /\ row'[b] = row[b]
    BY <1>13 DEF Check, Goto, Set, TypeOK
  <2>. QED  BY <2>1, <2>2, <2>3 DEF Journaled
<1>14. ASSUME PersistIntent(a) PROVE Journaled'
  <2>1. \A b \in Attempt : Published(b)' => Published(b)
    BY <1>14, NothingPublished DEF PersistIntent, repository, processes
  <2>2. ~Published(a)
    BY <1>14 DEF PersistIntent, Journaled, Unintended
  <2>3. /\ pc'[a] \notin {"staged", "committing"}
        /\ \A b \in Attempt : b # a => pc'[b] = pc[b] /\ row'[b] = row[b]
    BY <1>14 DEF PersistIntent, Goto, Set, TypeOK
  <2>. QED  BY <2>1, <2>2, <2>3 DEF Journaled
<1>15. ASSUME Staged(a) PROVE Journaled'
  <2>1. \A b \in Attempt : Published(b)' => Published(b)
    BY <1>15, NothingPublished DEF Staged, repository, processes
  <2>2. /\ pc'[a] \in {"staged", "marking"}
        /\ pc'[a] = "staged" => row'[a] = "STAGED"
        /\ row'[a] \in {"STAGED", row[a]}
        /\ \A b \in Attempt : b # a => pc'[b] = pc[b] /\ row'[b] = row[b]
    BY <1>15 DEF Staged, Goto, Set, TypeOK
  <2>. QED  BY <2>1, <2>2 DEF Journaled, PublishedRows, Unintended
<1>16. ASSUME Finalize(a) PROVE Journaled'
  <2>1. \A b \in Attempt : Published(b)' => Published(b)
    BY <1>16, NothingPublished DEF Finalize, repository, processes
  <2>2. /\ pc'[a] \in {"done", "failing"}
        /\ \/ row' = row
           \/ row[a] = "STAGED" /\ row'[a] = "COMMITTED"
           \/ row[a] = "CHECKED"
        /\ \A b \in Attempt : b # a => pc'[b] = pc[b] /\ row'[b] = row[b]
    BY <1>16 DEF Finalize, Goto, Set, Final, MayFinalize, TypeOK
  <2>3. row[a] = "CHECKED" => ~Published(a)
    BY DEF Journaled, PublishedRows
  <2>. QED  BY <2>1, <2>2, <2>3 DEF Journaled, PublishedRows, Unintended
<1>. QED
  BY <1>1, <1>2, <1>3, <1>4, <1>5, <1>6, <1>7, <1>8, <1>9, <1>10, <1>11, <1>12, <1>13, <1>14, <1>15, <1>16
     DEF Execute

LEMMA EnvironmentJournaled ==
    ASSUME TypeOK, Journaled, NEW a \in Attempt, Environment(a)
    PROVE  Journaled'
<1>1. ASSUME WorkerEdits(a) PROVE Journaled'
  <2>1. Calm
    BY <1>1, NothingPublished DEF WorkerEdits, Calm, Goto, Unintended, TypeOK, repository, processes, journal
  <2>2. RowsKept
    BY <1>1 DEF WorkerEdits, RowsKept, Goto, Unintended, TypeOK, repository, processes, journal
  <2>. QED  BY <2>1, <2>2, CalmKeeps
<1>2. ASSUME WorkerExits(a) PROVE Journaled'
  <2>1. Calm
    BY <1>2, NothingPublished DEF WorkerExits, Calm, Goto, Unintended, TypeOK, repository, processes, journal
  <2>2. RowsKept
    BY <1>2 DEF WorkerExits, RowsKept, Goto, Unintended, TypeOK, repository, processes, journal
  <2>. QED  BY <2>1, <2>2, CalmKeeps
<1>3. ASSUME AddTakesEffect(a) PROVE Journaled'
  <2>1. Calm
    BY <1>3, NothingPublished DEF AddTakesEffect, Calm, Goto, Unintended, TypeOK, repository, processes, journal
  <2>2. RowsKept
    BY <1>3 DEF AddTakesEffect, RowsKept, Goto, Unintended, TypeOK, repository, processes, journal
  <2>. QED  BY <2>1, <2>2, CalmKeeps
<1>4. ASSUME OrphanFails(a) PROVE Journaled'
  <2>1. Calm
    BY <1>4, NothingPublished DEF OrphanFails, Calm, Goto, Unintended, TypeOK, repository, processes, journal
  <2>2. RowsKept
    BY <1>4 DEF OrphanFails, RowsKept, Goto, Unintended, TypeOK, repository, processes, journal
  <2>. QED  BY <2>1, <2>2, CalmKeeps
<1>5. ASSUME CommitTakesEffect(a) PROVE Journaled'
  <2>1. [by |-> a, tree |-> index] \in CommitRecord
    BY DEF CommitRecord, TypeOK
  <2>2. \A b \in Attempt : b # a /\ Published(b)' => Published(b)
    BY <1>5, <2>1, Appended DEF CommitTakesEffect
  <2>3. Published(a) /\ UNCHANGED <<row, pc>>
    BY <1>5 DEF CommitTakesEffect, Published, journal
  <2>4. Calm /\ RowsKept
    BY <2>2, <2>3 DEF Calm, RowsKept
  <2>. QED  BY <2>4, CalmKeeps
<1>. QED  BY <1>1, <1>2, <1>3, <1>4, <1>5 DEF Environment

LEMMA AttemptJournaled ==
    ASSUME TypeOK, Unprepared, Journaled, NEW a \in Attempt,
           Prepare(a) \/ Cancel(a) \/ Crash(a) \/ RecoverStart(a)
    PROVE  Journaled'
<1>1. ASSUME Prepare(a) PROVE Journaled'
  <2>1. Calm
    BY <1>1, NothingPublished DEF Prepare, Calm, Unprepared, Goto, Unintended, TypeOK, repository, processes, journal
  <2>2. RowsKept
    BY <1>1 DEF Prepare, RowsKept, Goto, Unintended, TypeOK, repository, processes, journal
  <2>. QED  BY <2>1, <2>2, CalmKeeps
<1>2. ASSUME Cancel(a) PROVE Journaled'
  <2>1. Calm
    BY <1>2, NothingPublished DEF Cancel, Calm, Goto, Unintended, TypeOK, repository, processes, journal
  <2>2. RowsKept
    BY <1>2 DEF Cancel, RowsKept, Goto, Unintended, TypeOK, repository, processes, journal
  <2>. QED  BY <2>1, <2>2, CalmKeeps
<1>3. ASSUME Crash(a) PROVE Journaled'
  <2>1. Calm
    BY <1>3, NothingPublished DEF Crash, Calm, Goto, Unintended, TypeOK, repository, processes, journal
  <2>2. RowsKept
    BY <1>3 DEF Crash, RowsKept, Goto, Unintended, TypeOK, repository, processes, journal
  <2>. QED  BY <2>1, <2>2, CalmKeeps
<1>4. ASSUME RecoverStart(a) PROVE Journaled'
  <2>1. Calm
    BY <1>4, NothingPublished DEF RecoverStart, Calm, Goto, Unintended, TypeOK, repository, processes, journal
  <2>2. RowsKept
    BY <1>4 DEF RecoverStart, RowsKept, Goto, Unintended, TypeOK, repository, processes, journal
  <2>. QED  BY <2>1, <2>2, CalmKeeps
<1>. QED  BY <1>1, <1>2, <1>3, <1>4

LEMMA OtherJournaled ==
    ASSUME TypeOK, Journaled, RecoverStep \/ RecoverCrash \/ Reconcile \/ Meddle
    PROVE  Journaled'
<1>1. ASSUME RecoverInspect PROVE Journaled'
  <2>1. Calm
    BY <1>1, NothingPublished DEF RecoverInspect, Calm, repository, processes
  <2>2. row[recover.attempt] \in PublishedRows => Marked(recover.attempt) \in PublishedRows
    BY MarkedRow, RecoverTypes
  <2>3. RowsKept
    BY <1>1, <2>2 DEF RecoverInspect, Set, RowsKept, PublishedRows, TypeOK
  <2>. QED  BY <2>1, <2>3, CalmKeeps
<1>2. ASSUME RecoverApply PROVE Journaled'
  <2>1. Calm
    BY <1>2, NothingPublished DEF RecoverApply, Calm, repository, processes
  <2>2. row[recover.attempt] \in PublishedRows => Marked(recover.attempt) \in PublishedRows
    BY MarkedRow, RecoverTypes
  <2>3. RowsKept
    BY <1>2, <2>2 DEF RecoverApply, Set, RowsKept, PublishedRows, TypeOK
  <2>. QED  BY <2>1, <2>3, CalmKeeps
<1>3. ASSUME RecoverFinalize PROVE Journaled'
  <2>1. Calm
    BY <1>3, NothingPublished DEF RecoverFinalize, Calm, repository, processes
  <2>2. row[recover.attempt] \in PublishedRows => Marked(recover.attempt) \in PublishedRows
    BY MarkedRow, RecoverTypes
  <2>3. RowsKept
    BY <1>3, <2>2 DEF RecoverFinalize, Set, RowsKept, PublishedRows, TypeOK
  <2>. QED  BY <2>1, <2>3, CalmKeeps
<1>4. ASSUME RecoverInterrupt PROVE Journaled'
  <2>1. Calm
    BY <1>4, NothingPublished DEF RecoverInterrupt, Calm, Goto, Unintended, TypeOK, repository, processes, journal
  <2>2. RowsKept
    BY <1>4 DEF RecoverInterrupt, RowsKept, Goto, Unintended, TypeOK, repository, processes, journal
  <2>. QED  BY <2>1, <2>2, CalmKeeps
<1>5. ASSUME RecoverCrash PROVE Journaled'
  <2>1. Calm
    BY <1>5, NothingPublished DEF RecoverCrash, Calm, Goto, Unintended, TypeOK, repository, processes, journal
  <2>2. RowsKept
    BY <1>5 DEF RecoverCrash, RowsKept, Goto, Unintended, TypeOK, repository, processes, journal
  <2>. QED  BY <2>1, <2>2, CalmKeeps
<1>6. ASSUME Reconcile PROVE Journaled'
  <2>1. Calm
    BY <1>6, NothingPublished DEF Reconcile, Calm, Goto, Unintended, TypeOK, repository, processes, journal
  <2>2. RowsKept
    BY <1>6 DEF Reconcile, RowsKept, Goto, Unintended, TypeOK, repository, processes, journal
  <2>. QED  BY <2>1, <2>2, CalmKeeps
<1>7. ASSUME Meddle PROVE Journaled'
  <2>1. [by |-> Operator, tree |-> work] \in CommitRecord
    BY DEF CommitRecord, TypeOK
  <2>2. UNCHANGED <<children, row, pc>>
    BY <1>7 DEF Meddle, processes, journal
  <2>3. log' \in {log, Append(log, [by |-> Operator, tree |-> work])}
    BY <1>7 DEF Meddle
  <2>4. \A b \in Attempt : Published(b)' => Published(b)
    BY <2>1, <2>2, <2>3, Appended, NothingPublished, AttemptFacts
  <2>. QED  BY <2>2, <2>4, CalmKeeps DEF Calm, RowsKept
<1>. QED  BY <1>1, <1>2, <1>3, <1>4, <1>5, <1>6, <1>7 DEF RecoverStep

(* A commit of the dispatcher is never on the branch ahead of its row, for *)
(* any number of attempts, overtaken processes and surviving git children. *)
THEOREM JournalLeads == Spec => []JournalPrecedesCommit
<1>1. Init => Unprepared /\ Journaled
  <2>. SUFFICES ASSUME Init PROVE Unprepared /\ Journaled
    OBVIOUS
  <2>1. \A a \in Attempt : ~Published(a)
    BY DEF Init, Published
  <2>. QED  BY <2>1 DEF Init, Unprepared, Journaled
<1>2. TypeOK /\ Unprepared /\ Journaled /\ [Next]_vars => Unprepared' /\ Journaled'
  <2>. SUFFICES ASSUME TypeOK, Unprepared, Journaled, [Next]_vars
                PROVE  Unprepared' /\ Journaled'
    OBVIOUS
  <2>1. CASE UNCHANGED vars
    BY <2>1 DEF vars, repository, journal, record, processes, Unprepared, Journaled, Published
  <2>2. CASE Next
    BY <2>2, UnpreparedKeeps, ExecuteJournaled, EnvironmentJournaled, AttemptJournaled,
       OtherJournaled DEF Next
  <2>. QED  BY <2>1, <2>2
<1>3. TypeOK /\ Journaled => JournalPrecedesCommit
  <2>. SUFFICES ASSUME TypeOK, Journaled, NEW i \in 1..Len(log), log[i].by # Operator
                PROVE  row[log[i].by] \in PublishedRows
    BY DEF JournalPrecedesCommit, PublishedRows
  <2>1. log[i] \in CommitRecord
    BY DEF TypeOK
  <2>2. log[i].by \in Attempt
    BY <2>1 DEF CommitRecord
  <2>3. Published(log[i].by)
    BY DEF Published
  <2>. QED  BY <2>2, <2>3 DEF Journaled
<1>. QED  BY <1>1, <1>2, <1>3, TypeCorrect, PTL DEF Spec
-----------------------------------------------------------------------------
(* No row and no dispatch changes, and no process goes back.               *)
Steady ==
    /\ UNCHANGED <<row, dispatch>>
    /\ fresh' \subseteq fresh
    /\ \A b \in Attempt :
          /\ pc'[b] \in Unstaged => pc[b] \in Unstaged
          /\ pc'[b] \in Going => pc[b] \in Going

LEMMA SteadyKeeps ==
    ASSUME Settled, Steady
    PROVE  Settled'
BY DEF Settled, Steady

LEMMA ExecuteSettled ==
    ASSUME TypeOK, Settled, NEW a \in Attempt, Execute(a)
    PROVE  Settled'
<1>1. ASSUME WorkerFails(a) PROVE Settled'
  <2>1. Steady
    BY <1>1 DEF WorkerFails, Steady, Goto, TypeOK, journal, record, Unstaged, Unintended, Going
  <2>. QED  BY <2>1, SteadyKeeps
<1>2. ASSUME VerificationPasses(a) PROVE Settled'
  <2>1. Steady
    BY <1>2 DEF VerificationPasses, Steady, Goto, TypeOK, journal, record, Unstaged, Unintended, Going
  <2>. QED  BY <2>1, SteadyKeeps
<1>3. ASSUME Inspect(a) PROVE Settled'
  <2>1. Steady
    BY <1>3 DEF Inspect, Steady, Goto, TypeOK, journal, record, Unstaged, Unintended, Going
  <2>. QED  BY <2>1, SteadyKeeps
<1>4. ASSUME Stage(a) PROVE Settled'
  <2>1. Steady
    BY <1>4 DEF Stage, Steady, Goto, TypeOK, journal, record, Unstaged, Unintended, Going
  <2>. QED  BY <2>1, SteadyKeeps
<1>5. ASSUME Commit(a) PROVE Settled'
  <2>1. Steady
    BY <1>5 DEF Commit, Steady, Goto, TypeOK, journal, record, Unstaged, Unintended, Going
  <2>. QED  BY <2>1, SteadyKeeps
<1>6. ASSUME GitFails(a) PROVE Settled'
  <2>1. Steady
    BY <1>6 DEF GitFails, Steady, Goto, TypeOK, journal, record, Unstaged, Unintended, Going
  <2>. QED  BY <2>1, SteadyKeeps
<1>7. ASSUME PostCheck(a) PROVE Settled'
  <2>1. Steady
    BY <1>7 DEF PostCheck, Steady, Goto, TypeOK, journal, record, Unstaged, Unintended, Going
  <2>. QED  BY <2>1, SteadyKeeps
<1>8. ASSUME Propose(a) PROVE Settled'
  <2>1. UNCHANGED <<dispatch, fresh>> /\ pc[a] \in Unstaged
    BY <1>8 DEF Propose, record, Unstaged, Unintended
  <2>2. /\ row'[a] \in {"PROPOSAL_RECEIVED"}
        /\ pc'[a] \in Unstaged => row'[a] \notin FinalRows \cup {"STAGED"}
        /\ \A b \in Attempt : b # a => pc'[b] = pc[b] /\ row'[b] = row[b]
    BY <1>8 DEF Propose, Goto, Set, TypeOK, Settled, FinalRows, Unstaged, Unintended
  <2>3. pc[a] \in Going
    BY <2>1 DEF Going
  <2>. QED  BY <2>1, <2>2, <2>3 DEF Settled, FinalRows
<1>9. ASSUME Check(a) PROVE Settled'
  <2>1. UNCHANGED <<dispatch, fresh>> /\ pc[a] \in Unstaged
    BY <1>9 DEF Check, record, Unstaged, Unintended
  <2>2. /\ row'[a] \in {"CHECKED", row[a]}
        /\ pc'[a] \in Unstaged => row'[a] \notin FinalRows \cup {"STAGED"}
        /\ \A b \in Attempt : b # a => pc'[b] = pc[b] /\ row'[b] = row[b]
    BY <1>9 DEF Check, Goto, Set, TypeOK, Settled, FinalRows, Unstaged, Unintended
  <2>3. pc[a] \in Going
    BY <2>1 DEF Going
  <2>. QED  BY <2>1, <2>2, <2>3 DEF Settled, FinalRows
<1>10. ASSUME PersistIntent(a) PROVE Settled'
  <2>1. UNCHANGED <<dispatch, fresh>> /\ pc[a] \in Unstaged
    BY <1>10 DEF PersistIntent, record, Unstaged, Unintended
  <2>2. /\ row'[a] \in {"COMMIT_INTENT_PERSISTED"}
        /\ pc'[a] \in Unstaged => row'[a] \notin FinalRows \cup {"STAGED"}
        /\ \A b \in Attempt : b # a => pc'[b] = pc[b] /\ row'[b] = row[b]
    BY <1>10 DEF PersistIntent, Goto, Set, TypeOK, Settled, FinalRows, Unstaged, Unintended
  <2>3. pc[a] \in Going
    BY <2>1 DEF Going
  <2>. QED  BY <2>1, <2>2, <2>3 DEF Settled, FinalRows
<1>11. ASSUME Staged(a) PROVE Settled'
  <2>1. UNCHANGED <<dispatch, fresh>> /\ pc[a] \in Unstaged
    BY <1>11 DEF Staged, record, Unstaged, Unintended
  <2>2. /\ row'[a] \in {"STAGED", row[a]}
        /\ pc'[a] \in Unstaged => row'[a] \notin FinalRows \cup {"STAGED"}
        /\ \A b \in Attempt : b # a => pc'[b] = pc[b] /\ row'[b] = row[b]
    BY <1>11 DEF Staged, Goto, Set, TypeOK, Settled, FinalRows, Unstaged, Unintended
  <2>3. pc[a] \in Going
    BY <2>1 DEF Going
  <2>. QED  BY <2>1, <2>2, <2>3 DEF Settled, FinalRows
<1>12. ASSUME VerificationFails(a) PROVE Settled'
  <2>1. UNCHANGED row /\ fresh' \subseteq fresh
    BY <1>12 DEF VerificationFails, SaveDispatch, journal
  <2>2. /\ pc'[a] \in Unstaged => FALSE
        /\ pc'[a] \in Going => pc[a] \in Going
        /\ \A b \in Attempt : b # a => pc'[b] = pc[b] /\ dispatch'[b] = dispatch[b]
    BY <1>12 DEF VerificationFails, SaveDispatch, Goto, TypeOK, Unstaged, Unintended, Going
  <2>3. \/ dispatch'[a] = dispatch[a]
        \/ dispatch[a] # "FORWARDED" /\ dispatch'[a] # "FORWARDED"
    BY <1>12 DEF VerificationFails, Applicable, SaveDispatch, TypeOK, Settled, Unstaged, Unintended, Going
  <2>. QED  BY <2>1, <2>2, <2>3 DEF Settled
<1>13. ASSUME Complete(a) PROVE Settled'
  <2>1. UNCHANGED row /\ fresh' \subseteq fresh
    BY <1>13 DEF Complete, SaveDispatch, journal
  <2>2. /\ pc'[a] \in Unstaged => FALSE
        /\ pc'[a] \in Going => pc[a] \in Going
        /\ \A b \in Attempt : b # a => pc'[b] = pc[b] /\ dispatch'[b] = dispatch[b]
    BY <1>13 DEF Complete, SaveDispatch, Goto, TypeOK, Unstaged, Unintended, Going
  <2>3. \/ dispatch'[a] = dispatch[a]
        \/ dispatch[a] # "FORWARDED" /\ dispatch'[a] # "FORWARDED"
    BY <1>13 DEF Complete, Applicable, SaveDispatch, TypeOK, Settled, Unstaged, Unintended, Going
  <2>. QED  BY <2>1, <2>2, <2>3 DEF Settled
<1>14. ASSUME Fail(a) PROVE Settled'
  <2>1. UNCHANGED row /\ fresh' \subseteq fresh
    BY <1>14 DEF Fail, SaveDispatch, journal
  <2>2. /\ pc'[a] \in Unstaged => FALSE
        /\ pc'[a] \in Going => pc[a] \in Going
        /\ \A b \in Attempt : b # a => pc'[b] = pc[b] /\ dispatch'[b] = dispatch[b]
    BY <1>14 DEF Fail, SaveDispatch, Goto, TypeOK, Unstaged, Unintended, Going
  <2>3. \/ dispatch'[a] = dispatch[a]
        \/ dispatch[a] # "FORWARDED" /\ dispatch'[a] # "FORWARDED"
    BY <1>14 DEF Fail, Applicable, SaveDispatch, TypeOK, Settled, Unstaged, Unintended, Going
  <2>. QED  BY <2>1, <2>2, <2>3 DEF Settled
<1>15. ASSUME Finalize(a) PROVE Settled'
  <2>1. fresh' \subseteq fresh /\ pc'[a] \notin Going \cup Unstaged
    BY <1>15 DEF Finalize, SaveDispatch, Goto, TypeOK, Unstaged, Unintended, Going
  <2>2. \A b \in Attempt :
          b # a => pc'[b] = pc[b] /\ row'[b] = row[b] /\ dispatch'[b] = dispatch[b]
    BY <1>15 DEF Finalize, SaveDispatch, Set, Goto, TypeOK
  <2>3. \/ row'[a] = row[a] /\ dispatch'[a] = dispatch[a]
        \/ row'[a] \in FinalRows /\ dispatch'[a] = "FORWARDED"
    BY <1>15 DEF Finalize, SaveDispatch, Set, Final, FinalRows, TypeOK
  <2>. QED  BY <2>1, <2>2, <2>3 DEF Settled
<1>16. ASSUME Mark(a) PROVE Settled'
  <2>1. UNCHANGED <<dispatch, fresh>> /\ pc'[a] \notin Going \cup Unstaged
    BY <1>16 DEF Mark, Goto, TypeOK, record, Unstaged, Unintended, Going
  <2>2. /\ row'[a] \in FinalRows <=> row[a] \in FinalRows
        /\ \A b \in Attempt : b # a => pc'[b] = pc[b] /\ row'[b] = row[b]
    BY <1>16, MarkedRow DEF Mark, Set, Goto, TypeOK
  <2>. QED  BY <2>1, <2>2 DEF Settled
<1>. QED
  BY <1>1, <1>2, <1>3, <1>4, <1>5, <1>6, <1>7, <1>8, <1>9, <1>10, <1>11, <1>12, <1>13, <1>14, <1>15, <1>16
     DEF Execute

LEMMA EnvironmentSettled ==
    ASSUME Settled, NEW a \in Attempt, Environment(a)
    PROVE  Settled'
<1>1. Steady
  BY DEF Environment, WorkerEdits, WorkerExits, AddTakesEffect, CommitTakesEffect, OrphanFails,
         Steady, journal, record
<1>. QED  BY <1>1, SteadyKeeps

LEMMA AttemptSettled ==
    ASSUME TypeOK, Unprepared, Settled, NEW a \in Attempt,
           Prepare(a) \/ Cancel(a) \/ Crash(a) \/ RecoverStart(a)
    PROVE  Settled'
<1>1. ASSUME Cancel(a) PROVE Settled'
  <2>1. Steady
    BY <1>1 DEF Cancel, Steady, Goto, TypeOK, journal, record, Unstaged, Unintended, Going
  <2>. QED  BY <2>1, SteadyKeeps
<1>2. ASSUME Crash(a) PROVE Settled'
  <2>1. Steady
    BY <1>2 DEF Crash, Steady, Goto, TypeOK, journal, record, Unstaged, Unintended, Going
  <2>. QED  BY <2>1, SteadyKeeps
<1>3. ASSUME RecoverStart(a) PROVE Settled'
  <2>1. Steady
    BY <1>3 DEF RecoverStart, Steady, Goto, TypeOK, journal, record, Unstaged, Unintended, Going
  <2>. QED  BY <2>1, SteadyKeeps
<1>4. ASSUME Prepare(a) PROVE Settled'
  <2>1. pc[a] = "off" /\ dispatch[a] = "none"
    BY <1>4 DEF Prepare, Unprepared
  <2>2. row[a] \notin FinalRows \cup {"STAGED"}
    BY <2>1 DEF Settled, Unstaged, Unintended
  <2>3. /\ UNCHANGED row /\ fresh' = {a}
        /\ dispatch'[a] = "RUNNING"
        /\ \A b \in Attempt : b # a => pc'[b] = pc[b] /\ dispatch'[b] = dispatch[b]
    BY <1>4 DEF Prepare, Goto, TypeOK, journal
  <2>. QED  BY <2>2, <2>3 DEF Settled
<1>. QED  BY <1>1, <1>2, <1>3, <1>4

LEMMA OtherSettled ==
    ASSUME TypeOK, Settled, RecoverStep \/ RecoverCrash \/ Reconcile \/ Meddle
    PROVE  Settled'
<1>1. recover.attempt \in Attempt
  BY RecoverTypes
<1>2. /\ Marked(recover.attempt) \in FinalRows <=> row[recover.attempt] \in FinalRows
      /\ Marked(recover.attempt) # "STAGED"
  BY <1>1, MarkedRow
<1>3. ASSUME RecoverCrash PROVE Settled'
  <2>1. Steady
    BY <1>3 DEF RecoverCrash, Steady, Goto, TypeOK, journal, record, Unstaged, Unintended, Going
  <2>. QED  BY <2>1, SteadyKeeps
<1>4. ASSUME Reconcile PROVE Settled'
  <2>1. Steady
    BY <1>4 DEF Reconcile, Steady, Goto, TypeOK, journal, record, Unstaged, Unintended, Going
  <2>. QED  BY <2>1, SteadyKeeps
<1>5. ASSUME Meddle PROVE Settled'
  <2>1. Steady
    BY <1>5 DEF Meddle, Steady, Goto, TypeOK, journal, record, Unstaged, Unintended, Going
  <2>. QED  BY <2>1, SteadyKeeps
<1>6. ASSUME RecoverInspect PROVE Settled'
  <2>1. UNCHANGED <<dispatch, fresh, pc>>
    BY <1>6 DEF RecoverInspect, record
  <2>2. /\ row'[recover.attempt] \in {row[recover.attempt], Marked(recover.attempt)}
        /\ \A b \in Attempt : b # recover.attempt => row'[b] = row[b]
    BY <1>6 DEF RecoverInspect, Set, TypeOK
  <2>. QED  BY <1>1, <1>2, <2>1, <2>2 DEF Settled, FinalRows
<1>7. ASSUME RecoverApply PROVE Settled'
  <2>1. UNCHANGED pc /\ fresh' \subseteq fresh
    BY <1>7 DEF RecoverApply
  <2>2. /\ row'[recover.attempt] \in {row[recover.attempt], Marked(recover.attempt)}
        /\ \A b \in Attempt : b # recover.attempt => row'[b] = row[b] /\ dispatch'[b] = dispatch[b]
    BY <1>7 DEF RecoverApply, Set, TypeOK
  <2>3. \/ dispatch'[recover.attempt] = dispatch[recover.attempt]
        \/ dispatch[recover.attempt] # "FORWARDED" /\ dispatch'[recover.attempt] # "FORWARDED"
    BY <1>7 DEF RecoverApply, TypeOK
  <2>. QED  BY <1>1, <1>2, <2>1, <2>2, <2>3 DEF Settled, FinalRows
<1>8. ASSUME RecoverFinalize PROVE Settled'
  <2>1. CASE recover.known /\ row[recover.attempt] = "STAGED"
    <3>1. UNCHANGED pc /\ fresh' = {} /\ pc[recover.attempt] \notin Unstaged
      BY <1>1, <1>8, <2>1 DEF RecoverFinalize, Settled
    <3>2. /\ row'[recover.attempt] = "COMMITTED" /\ dispatch'[recover.attempt] = "FORWARDED"
          /\ \A b \in Attempt : b # recover.attempt => row'[b] = row[b] /\ dispatch'[b] = dispatch[b]
      BY <1>1, <1>8, <2>1 DEF RecoverFinalize, Set, TypeOK
    <3>. QED  BY <3>1, <3>2 DEF Settled, FinalRows
  <2>2. CASE ~(recover.known /\ row[recover.attempt] = "STAGED")
    <3>1. UNCHANGED <<pc, dispatch, fresh>>
      BY <1>8, <2>2 DEF RecoverFinalize
    <3>2. /\ row'[recover.attempt] = Marked(recover.attempt)
          /\ \A b \in Attempt : b # recover.attempt => row'[b] = row[b]
      BY <1>1, <1>8, <2>2 DEF RecoverFinalize, Set, TypeOK
    <3>. QED  BY <1>1, <1>2, <3>1, <3>2 DEF Settled, FinalRows
  <2>. QED  BY <2>1, <2>2
<1>9. ASSUME RecoverInterrupt PROVE Settled'
  <2>1. UNCHANGED <<pc, row>> /\ fresh' \subseteq fresh
    BY <1>9 DEF RecoverInterrupt, journal
  <2>2. \A b \in Attempt :
          \/ dispatch'[b] = dispatch[b]
          \/ dispatch[b] # "FORWARDED" /\ dispatch'[b] # "FORWARDED"
    BY <1>1, <1>9 DEF RecoverInterrupt, TypeOK
  <2>. QED  BY <2>1, <2>2 DEF Settled
<1>. QED  BY <1>3, <1>4, <1>5, <1>6, <1>7, <1>8, <1>9 DEF RecoverStep

(* The row of an attempt is final exactly when its result is durable, for  *)
(* any number of attempts: of the processes that may apply one result, one *)
(* writes it, and together with the row.                                   *)
THEOREM ResultAndRowAgree == Spec => []SettledTogether
<1>1. Init => Unprepared /\ Settled
  BY DEF Init, Unprepared, Settled, FinalRows
<1>2. TypeOK /\ Unprepared /\ Settled /\ [Next]_vars => Unprepared' /\ Settled'
  <2>. SUFFICES ASSUME TypeOK, Unprepared, Settled, [Next]_vars
                PROVE  Unprepared' /\ Settled'
    OBVIOUS
  <2>1. CASE UNCHANGED vars
    BY <2>1 DEF vars, journal, record, Unprepared, Settled
  <2>2. CASE Next
    BY <2>2, UnpreparedKeeps, ExecuteSettled, EnvironmentSettled, AttemptSettled, OtherSettled
       DEF Next
  <2>. QED  BY <2>1, <2>2
<1>3. Settled => SettledTogether
  BY DEF Settled, SettledTogether, FinalRows
<1>. QED  BY <1>1, <1>2, <1>3, TypeCorrect, PTL DEF Spec
=============================================================================
