----------------------- MODULE StructuredGit_refinement -----------------------
(***************************************************************************)
(* The structured Git capability implements StructuredGitContract, for any *)
(* number of attempts, crashes and meddlers.                               *)
(*                                                                         *)
(* The hard part is the accepted commit.  Three things that another actor  *)
(* may change in between are looked at one after the other: the working    *)
(* copy before the intent, the working copy again before git add, and the  *)
(* commit after it exists.  The candidate tree is computed between the     *)
(* first two, and the tree that is committed is whatever the index holds.  *)
(* Candidates says what is left of that: while no later attempt may edit,  *)
(* the working copy of the base can only gain a stray change or be reset,  *)
(* so a candidate that survives the second look is the proposal, or the    *)
(* tree of the base, which no commit can repeat.                           *)
(***************************************************************************)
EXTENDS StructuredGit_proofs, SequenceTheorems

(* The tree of the branch when it had n commits.                           *)
TreeAt(n) == IF n = 0 THEN {} ELSE log[n].tree

OnBranch(a) == \E i \in 1..Len(log) : log[i].by = a

(* The commit right after the base is the attempt's own and holds what it  *)
(* proposed.                                                               *)
InPlace(a) ==
    /\ base[a] < Len(log)
    /\ log[base[a] + 1] = [by |-> a, tree |-> snapshot[a].work]

(* The dispatch is with its process, or with recover.                      *)
Live(a) == dispatch[a] \in {"RUNNING", "COMPLETED"}

(* Where a process is on the way to a commit.                              *)
Committing == {"inspected", "intent", "adding", "staged", "committing", "committed"}

(* No commit repeats the tree before it.                                   *)
LogChanges == \A i \in 1..Len(log) : log[i].tree # TreeAt(i - 1)

(* An attempt commits at most once, and only if it is to commit.           *)
CommitsOnce(a) ==
    /\ pc[a] \in Unstaged \cup {"staged", "checked"} => ~Published(a)
    /\ pc[a] = "completed" /\ ~Commits(a) => ~Published(a)
    /\ <<"commit", a>> \in children => ~OnBranch(a)
    /\ pc[a] \in Committing => Commits(a)
    /\ pc[a] = "checked" => ~Commits(a)
    /\ row[a] = "STAGED" => Commits(a)

Once == \A a \in Attempt : CommitsOnce(a)

(* What the generation of the run and a live worker say of the dispatch.   *)
Owned ==
    /\ \A a \in Attempt :
          /\ a \in fresh /\ pc[a] \in Going \ {"off", "completed"} => dispatch[a] = "RUNNING"
          /\ a \in fresh /\ pc[a] = "completed" => dispatch[a] = "COMPLETED"
          /\ a \in workers => dispatch[a] = "RUNNING" /\ pc[a] \in {"working", "dead"}
    /\ \A a, b \in Attempt : Live(a) /\ Live(b) => a = b
    /\ recover.pc # "idle" =>
          recover.attempt \notin workers /\ dispatch[recover.attempt] # "none"
    /\ recover.pc = "finalizing" /\ recover.known => dispatch[recover.attempt] = "COMPLETED"

(* A proposal was made on its base; one that completed left nothing        *)
(* outside of the writable paths, and something inside if it is to commit. *)
Proposed(a) ==
    /\ snapshot[a].head = base[a]
    /\ outcome[a] = "completed" =>
          /\ Outside \in snapshot[a].work <=> Outside \in TreeAt(base[a])
          /\ policy = "required" => snapshot[a].work # TreeAt(base[a])

Core(tree) == tree \ {Outside}

(* The working copy that was seen unchanged: the proposed one or the tree  *)
(* of the base, and perhaps a stray change.                                *)
Drifted(a) ==
    \/ Core(work) \in {Core(snapshot[a].work), Core(snapshot[a].work) \cup {Inside}}
    \/ Core(work) \in {Core(TreeAt(base[a])), Core(TreeAt(base[a])) \cup {Inside}}

(* The working copy cannot become the proposed one any more, unless a      *)
(* commit comes first.                                                     *)
Away(a) ==
    LET seen == Core(snapshot[a].work)
        head == Core(TreeAt(base[a]))
    IN \/ Core(work) \in {head, head \cup {Inside}} /\ seen # head \cup {Inside}
       \/ Core(work) = seen \cup {Inside} /\ Inside \notin seen

(* What the tree of an intent may be once the second look was passed.      *)
GoodCandidate(a) == candidate[a] \in {snapshot[a].work, TreeAt(base[a])}

(* What an attempt proposed on its base, and what became of it.            *)
Candidature(a) ==
    /\ base[a] <= Len(log)
    /\ dispatch[a] = "REWORK" => snapshot[a].head = base[a]
    /\ pc[a] \in {"proposed", "verified", "inspected", "intent"} => Proposed(a)
    /\ pc[a] = "inspected" /\ Live(a) /\ Len(log) = base[a] => Drifted(a)
    /\ pc[a] = "intent" /\ Live(a) /\ Len(log) = base[a] => GoodCandidate(a) \/ Away(a)
    /\ Live(a) /\ (pc[a] \in {"adding", "staged", "committing"} \/ row[a] = "STAGED") =>
          GoodCandidate(a)
    /\ Live(a) /\ pc[a] = "committed" => InPlace(a)
    /\ pc[a] = "completed" /\ Commits(a) => InPlace(a)

Candidates ==
    /\ LogChanges
    /\ \A a \in Attempt : Candidature(a)
    /\ recover.pc \in {"applying", "finalizing"} => InPlace(recover.attempt)
-----------------------------------------------------------------------------
(* The invariants of StructuredGit_proofs together.                        *)
Journal == TypeOK /\ Unprepared /\ Journaled /\ Settled

LEMMA JournalStep == Journal /\ [Next]_vars => Journal'
<1>. SUFFICES ASSUME TypeOK, Unprepared, Journaled, Settled, [Next]_vars
              PROVE  TypeOK' /\ Unprepared' /\ Journaled' /\ Settled'
  BY DEF Journal
<1>1. TypeOK'
  BY EveryStepTypes
<1>2. CASE UNCHANGED vars
  BY <1>1, <1>2
     DEF vars, repository, journal, record, processes, Unprepared, Journaled, Published, Settled
<1>3. CASE Next
  <2>1. Unprepared'
    BY <1>3, UnpreparedKeeps
  <2>2. Journaled'
    BY <1>3, ExecuteJournaled, EnvironmentJournaled, AttemptJournaled, OtherJournaled DEF Next
  <2>3. Settled'
    BY <1>3, ExecuteSettled, EnvironmentSettled, AttemptSettled, OtherSettled DEF Next
  <2>. QED  BY <1>1, <2>1, <2>2, <2>3
<1>. QED  BY <1>2, <1>3

(* The branch stays, or grows by a commit that changes its tree.           *)
LogGrows ==
    \/ log' = log
    \/ \E entry \in CommitRecord : log' = Append(log, entry) /\ entry.tree # HeadTree

LEMMA LogStep ==
    ASSUME TypeOK, Next
    PROVE  LogGrows
<1>1. CASE log' = log
  BY <1>1 DEF LogGrows
<1>2. ASSUME NEW a \in Attempt, CommitTakesEffect(a) PROVE LogGrows
  <2>1. [by |-> a, tree |-> index] \in CommitRecord
    BY DEF CommitRecord, TypeOK
  <2>2. [by |-> a, tree |-> index].tree # HeadTree
    BY <1>2 DEF CommitTakesEffect
  <2>. QED  BY <1>2, <2>1, <2>2 DEF CommitTakesEffect, LogGrows
<1>3. ASSUME Meddle PROVE LogGrows
  <2>1. CASE log' = log
    BY <2>1 DEF LogGrows
  <2>2. CASE log' = Append(log, [by |-> Operator, tree |-> work]) /\ work # HeadTree
    <3>1. [by |-> Operator, tree |-> work] \in CommitRecord
      BY DEF CommitRecord, TypeOK
    <3>2. [by |-> Operator, tree |-> work].tree # HeadTree
      BY <2>2
    <3>. QED  BY <2>2, <3>1, <3>2 DEF LogGrows
  <2>. QED  BY <1>3, <2>1, <2>2 DEF Meddle
<1>4. ASSUME NEW a \in Attempt, Execute(a) PROVE log' = log
  <2>1. CASE WorkerFails(a) \/ Propose(a) \/ VerificationPasses(a) \/ VerificationFails(a)
             \/ Inspect(a) \/ Check(a) \/ PersistIntent(a) \/ Stage(a)
    BY <2>1 DEF WorkerFails, Propose, VerificationPasses, VerificationFails, Inspect, Check,
                PersistIntent, Stage, repository
  <2>2. CASE Staged(a) \/ Commit(a) \/ GitFails(a) \/ PostCheck(a) \/ Complete(a) \/ Finalize(a)
             \/ Mark(a) \/ Fail(a)
    BY <2>2 DEF Staged, Commit, GitFails, PostCheck, Complete, Finalize, Mark, Fail, repository
  <2>. QED  BY <1>4, <2>1, <2>2 DEF Execute
<1>5. ASSUME NEW a \in Attempt, WorkerEdits(a) \/ WorkerExits(a) \/ AddTakesEffect(a) \/ OrphanFails(a)
             \/ Prepare(a) \/ Cancel(a) \/ Crash(a) \/ RecoverStart(a)
      PROVE  log' = log
  BY <1>5 DEF WorkerEdits, WorkerExits, AddTakesEffect, OrphanFails, Prepare, Cancel, Crash,
              RecoverStart, repository
<1>6. ASSUME RecoverStep \/ RecoverCrash \/ Reconcile PROVE log' = log
  BY <1>6 DEF RecoverStep, RecoverInspect, RecoverApply, RecoverFinalize, RecoverInterrupt,
              RecoverCrash, Reconcile, repository
<1>. QED  BY <1>1, <1>2, <1>3, <1>4, <1>5, <1>6 DEF Next, Environment

LEMMA HeadIsLast ==
    ASSUME TypeOK
    PROVE  HeadTree = TreeAt(Len(log))
<1>1. log = <<>> <=> Len(log) = 0
  BY DEF TypeOK
<1>. QED  BY <1>1 DEF HeadTree, TreeAt

(* What was on the branch stays where it was.                              *)
LEMMA Kept ==
    ASSUME TypeOK, LogGrows
    PROVE  /\ Len(log) \in Nat /\ Len(log') \in {Len(log), Len(log) + 1}
           /\ Len(log') = Len(log) => log' = log
           /\ \A i \in 1..Len(log) : log'[i] = log[i]
           /\ \A n \in 0..Len(log) : TreeAt(n)' = TreeAt(n)
           /\ HeadTree = TreeAt(Len(log))
<1>1. Len(log) \in Nat
  BY DEF TypeOK
<1>2. /\ Len(log') \in {Len(log), Len(log) + 1}
      /\ \A i \in 1..Len(log) : log'[i] = log[i]
      /\ Len(log') = Len(log) => log' = log
  <2>1. CASE log' = log
    BY <2>1
  <2>2. ASSUME NEW entry \in CommitRecord, log' = Append(log, entry)
        PROVE  /\ Len(log') = Len(log) + 1
               /\ \A i \in 1..Len(log) : log'[i] = log[i]
    BY <2>2 DEF TypeOK
  <2>. QED  BY <1>1, <2>1, <2>2 DEF LogGrows
<1>4. ASSUME NEW n \in 0..Len(log) PROVE TreeAt(n)' = TreeAt(n)
  <2>1. CASE n = 0
    BY <2>1 DEF TreeAt
  <2>2. CASE n # 0
    <3>1. n \in 1..Len(log)
      BY <1>1, <2>2
    <3>. QED  BY <1>2, <2>2, <3>1 DEF TreeAt
  <2>. QED  BY <2>1, <2>2
<1>. QED  BY <1>1, <1>2, <1>4, HeadIsLast

LEMMA LogChangesKeeps ==
    ASSUME TypeOK, LogGrows, LogChanges
    PROVE  LogChanges'
<1>. SUFFICES ASSUME NEW i \in 1..Len(log') PROVE log'[i].tree # TreeAt(i - 1)'
  BY DEF LogChanges
<1>1. Len(log) \in Nat /\ Len(log') \in {Len(log), Len(log) + 1}
  BY Kept
<1>2. TreeAt(i - 1)' = TreeAt(i - 1)
  <2>1. i - 1 \in 0..Len(log)
    BY <1>1
  <2>. QED  BY <2>1, Kept
<1>3. CASE i \in 1..Len(log)
  BY <1>2, <1>3, Kept DEF LogChanges
<1>4. CASE i \notin 1..Len(log)
  <2>1. i = Len(log) + 1 /\ Len(log') # Len(log)
    BY <1>1, <1>4
  <2>2. PICK entry \in CommitRecord : log' = Append(log, entry) /\ entry.tree # HeadTree
    BY <2>1 DEF LogGrows
  <2>3. log'[i] = entry
    BY <2>1, <2>2 DEF TypeOK
  <2>4. TreeAt(i - 1) = HeadTree
    BY <1>1, <2>1, Kept
  <2>. QED  BY <1>2, <2>2, <2>3, <2>4
<1>. QED  BY <1>3, <1>4

(* A commit in place stays there.                                          *)
LEMMA InPlaceKeeps ==
    ASSUME TypeOK, LogGrows, NEW a \in Attempt, InPlace(a),
           base'[a] = base[a], snapshot'[a] = snapshot[a]
    PROVE  InPlace(a)'
<1>1. base[a] \in Nat
  BY DEF TypeOK
<1>2. Len(log) \in Nat /\ Len(log') \in {Len(log), Len(log) + 1} /\ \A i \in 1..Len(log) : log'[i] = log[i]
  BY Kept
<1>3. base[a] + 1 \in 1..Len(log)
  BY <1>1, <1>2 DEF InPlace
<1>4. base'[a] < Len(log')
  BY <1>1, <1>2 DEF InPlace
<1>5. log'[base[a] + 1] = log[base[a] + 1]
  BY <1>2, <1>3
<1>. QED  BY <1>4, <1>5 DEF InPlace

LEMMA InPlacePublished ==
    ASSUME TypeOK, NEW a \in Attempt, InPlace(a)
    PROVE  OnBranch(a) /\ Published(a)
<1>1. base[a] \in Nat /\ Len(log) \in Nat
  BY DEF TypeOK
<1>2. base[a] + 1 \in 1..Len(log) /\ log[base[a] + 1].by = a
  BY <1>1 DEF InPlace
<1>. QED  BY <1>2 DEF OnBranch, Published
-----------------------------------------------------------------------------
(* A step that is not one of the attempt's own process leaves its proposal *)
(* alone: it is no nearer to a commit, and nobody gives it the dispatch.   *)
Passive(b) ==
    /\ policy' = policy /\ outcome'[b] = outcome[b] /\ snapshot'[b] = snapshot[b]
    /\ candidate'[b] = candidate[b] /\ base'[b] = base[b]
    /\ pc'[b] \in {pc[b], "dead"}
    /\ row'[b] = "STAGED" => row[b] = "STAGED"
    /\ dispatch'[b] \in {"RUNNING", "COMPLETED"} => dispatch[b] \in {"RUNNING", "COMPLETED"}
    /\ dispatch'[b] = "REWORK" => dispatch[b] = "REWORK"

LEMMA OthersArePassive ==
    ASSUME TypeOK, Next, NEW b \in Attempt, ~Execute(b), ~Prepare(b)
    PROVE  Passive(b)
<1>1. ASSUME NEW a \in Attempt, a # b, Execute(a) PROVE Passive(b)
  <2>1. CASE WorkerFails(a) \/ Propose(a) \/ VerificationPasses(a) \/ Inspect(a) \/ Check(a)
    BY <1>1, <2>1
       DEF WorkerFails, Propose, VerificationPasses, Inspect, Check, Goto, Set, Passive, TypeOK,
           journal, record, bounds
  <2>2. CASE PersistIntent(a) \/ Stage(a) \/ Staged(a) \/ Commit(a) \/ GitFails(a) \/ PostCheck(a) \/ Mark(a)
    BY <1>1, <2>2
       DEF PersistIntent, Stage, Staged, Commit, GitFails, PostCheck, Mark, Goto, Set, Passive,
           TypeOK, journal, record, bounds
  <2>3. CASE VerificationFails(a) \/ Complete(a) \/ Finalize(a) \/ Fail(a)
    BY <1>1, <2>3
       DEF VerificationFails, Complete, Finalize, Fail, SaveDispatch, Goto, Set, Passive, TypeOK,
           journal, record, bounds
  <2>. QED  BY <1>1, <2>1, <2>2, <2>3 DEF Execute
<1>2. ASSUME NEW a \in Attempt, a # b, Prepare(a) PROVE Passive(b)
  <2>1. base'[b] = base[b]
    BY <1>2 DEF Prepare, TypeOK
  <2>2. pc'[b] = pc[b] /\ dispatch'[b] = dispatch[b] /\ UNCHANGED <<row, outcome, snapshot, candidate, policy>>
    BY <1>2 DEF Prepare, Goto, TypeOK, journal, bounds
  <2>. QED  BY <2>1, <2>2 DEF Passive
<1>3. ASSUME NEW a \in Attempt,
             Environment(a) \/ Cancel(a) \/ Crash(a) \/ RecoverStart(a)
      PROVE  Passive(b)
  <2>1. pc'[b] \in {pc[b], "dead"}
    BY <1>3
       DEF Environment, WorkerEdits, WorkerExits, AddTakesEffect, CommitTakesEffect, OrphanFails,
           Cancel, Crash, RecoverStart, Goto, TypeOK
  <2>2. UNCHANGED <<dispatch, base, row, outcome, snapshot, candidate, policy>>
    BY <1>3
       DEF Environment, WorkerEdits, WorkerExits, AddTakesEffect, CommitTakesEffect, OrphanFails,
           Cancel, Crash, RecoverStart, journal, record, bounds
  <2>. QED  BY <2>1, <2>2 DEF Passive
<1>4. ASSUME RecoverStep \/ RecoverCrash \/ Reconcile \/ Meddle PROVE Passive(b)
  <2>1. UNCHANGED <<base, outcome, snapshot, candidate, policy, pc>>
    BY <1>4
       DEF RecoverStep, RecoverInspect, RecoverApply, RecoverFinalize, RecoverInterrupt,
           RecoverCrash, Reconcile, Meddle, journal, record, bounds
  <2>2. recover.attempt \in Attempt /\ Marked(recover.attempt) # "STAGED"
    BY RecoverTypes, MarkedRow
  <2>3. row'[b] = "STAGED" => row[b] = "STAGED"
    BY <1>4, <2>2
       DEF RecoverStep, RecoverInspect, RecoverApply, RecoverFinalize, RecoverInterrupt,
           RecoverCrash, Reconcile, Meddle, Set, journal, TypeOK
  <2>4. \/ dispatch'[b] = dispatch[b]
        \/ dispatch'[b] = "COMPLETED" /\ dispatch[b] = "RUNNING"
        \/ dispatch'[b] \in {"FORWARDED", "FAILED"}
    BY <1>4, <2>2
       DEF RecoverStep, RecoverInspect, RecoverApply, RecoverFinalize, RecoverInterrupt,
           RecoverCrash, Reconcile, Meddle, record, TypeOK
  <2>. QED  BY <2>1, <2>3, <2>4 DEF Passive
<1>. QED  BY <1>1, <1>2, <1>3, <1>4 DEF Next

-----------------------------------------------------------------------------
(* A step publishes nothing of the attempt that was not published.         *)
Withheld(b) ==
    /\ Published(b)' => Published(b)
    /\ <<"commit", b>> \in children' => <<"commit", b>> \in children /\ (OnBranch(b)' => OnBranch(b))

LEMMA StartsNothing ==
    ASSUME UNCHANGED log, NEW b \in Attempt,
           <<"commit", b>> \in children' => <<"commit", b>> \in children
    PROVE  Withheld(b)
BY DEF Withheld, Published, OnBranch

(* Only Commit of an attempt starts a commit of it.                        *)
LEMMA OthersWithhold ==
    ASSUME TypeOK, Next, NEW b \in Attempt, ~Commit(b)
    PROVE  Withheld(b)
<1>1. ASSUME NEW a \in Attempt, Execute(a) PROVE Withheld(b)
  <2>1. CASE WorkerFails(a) \/ Propose(a) \/ VerificationPasses(a) \/ VerificationFails(a)
             \/ Inspect(a) \/ Check(a) \/ PersistIntent(a) \/ Staged(a)
    <3>1. UNCHANGED <<log, children>>
      BY <2>1 DEF WorkerFails, Propose, VerificationPasses, VerificationFails, Inspect, Check,
                  PersistIntent, Staged, repository, processes
    <3>. QED  BY <3>1, StartsNothing
  <2>2. CASE PostCheck(a) \/ Complete(a) \/ Finalize(a) \/ Mark(a) \/ Fail(a)
    <3>1. UNCHANGED <<log, children>>
      BY <2>2 DEF PostCheck, Complete, Finalize, Mark, Fail, repository, processes
    <3>. QED  BY <3>1, StartsNothing
  <2>3. CASE Stage(a) \/ GitFails(a) \/ Commit(a)
    <3>1. UNCHANGED log
      BY <2>3 DEF Stage, GitFails, Commit, repository
    <3>2. Commit(a) => a # b
      OBVIOUS
    <3>3. <<"commit", b>> \in children' => <<"commit", b>> \in children
      BY <2>3, <3>2 DEF Stage, GitFails, Commit
    <3>. QED  BY <3>1, <3>3, StartsNothing
  <2>. QED  BY <1>1, <2>1, <2>2, <2>3 DEF Execute
<1>2. ASSUME NEW a \in Attempt,
             WorkerEdits(a) \/ WorkerExits(a) \/ AddTakesEffect(a) \/ OrphanFails(a)
             \/ Prepare(a) \/ Cancel(a) \/ Crash(a) \/ RecoverStart(a)
      PROVE  Withheld(b)
  <2>1. UNCHANGED log /\ children' \subseteq children
    BY <1>2 DEF WorkerEdits, WorkerExits, AddTakesEffect, OrphanFails, Prepare, Cancel, Crash,
                RecoverStart, repository, processes
  <2>. QED  BY <2>1, StartsNothing
<1>3. ASSUME RecoverStep \/ RecoverCrash \/ Reconcile PROVE Withheld(b)
  <2>1. UNCHANGED <<log, children>>
    BY <1>3
       DEF RecoverStep, RecoverInspect, RecoverApply, RecoverFinalize, RecoverInterrupt,
           RecoverCrash, Reconcile, repository, processes
  <2>. QED  BY <2>1, StartsNothing
<1>4. ASSUME NEW entry \in CommitRecord, entry.by # b, log' = Append(log, entry),
             children' \subseteq children
      PROVE  Withheld(b)
  <2>1. Published(b)' => Published(b)
    BY <1>4, Appended
  <2>2. OnBranch(b)' => OnBranch(b)
    BY <1>4 DEF OnBranch, TypeOK
  <2>. QED  BY <1>4, <2>1, <2>2 DEF Withheld
<1>5. ASSUME NEW a \in Attempt, CommitTakesEffect(a) PROVE Withheld(b)
  <2>1. /\ log' = Append(log, [by |-> a, tree |-> index])
        /\ children' = children \ {<<"commit", a>>}
        /\ <<"commit", a>> \in children
    BY <1>5 DEF CommitTakesEffect
  <2>2. CASE a = b
    BY <2>1, <2>2 DEF Withheld, Published
  <2>3. CASE a # b
    <3>1. [by |-> a, tree |-> index] \in CommitRecord
      BY DEF CommitRecord, TypeOK
    <3>. QED  BY <1>4, <2>1, <2>3, <3>1
  <2>. QED  BY <2>2, <2>3
<1>6. ASSUME Meddle PROVE Withheld(b)
  <2>1. UNCHANGED children
    BY <1>6 DEF Meddle, processes
  <2>2. CASE log' = log
    BY <2>1, <2>2, StartsNothing
  <2>3. CASE log' = Append(log, [by |-> Operator, tree |-> work])
    <3>1. [by |-> Operator, tree |-> work] \in CommitRecord
      BY DEF CommitRecord, TypeOK
    <3>. QED  BY <1>4, <2>1, <2>3, <3>1, AttemptFacts
  <2>. QED  BY <1>6, <2>2, <2>3 DEF Meddle
<1>. QED  BY <1>1, <1>2, <1>3, <1>5, <1>6 DEF Next, Environment
-----------------------------------------------------------------------------
LEMMA PassiveOnce ==
    ASSUME NEW b \in Attempt, CommitsOnce(b), Passive(b), Withheld(b)
    PROVE  CommitsOnce(b)'
BY DEF CommitsOnce, Passive, Withheld, Commits, Committing, Unstaged, Unintended

(* The attempt withholds what it did, keeps its outcome, and its row was   *)
(* not STAGED by this step; its process goes on.                           *)
Onward(a, label) ==
    /\ pc'[a] \in {label, "marking", "failing", "stalling", "done"}
    /\ policy' = policy /\ outcome'[a] = outcome[a]
    /\ row'[a] = "STAGED" => row[a] = "STAGED"

LEMMA ExecuteOnce ==
    ASSUME TypeOK, NEW a \in Attempt, CommitsOnce(a), Execute(a), ~Commit(a) => Withheld(a)
    PROVE  CommitsOnce(a)'
<1>. USE DEF Onward, Unstaged, Unintended, Committing
<1>1. ASSUME WorkerFails(a) \/ VerificationFails(a) \/ Fail(a) \/ GitFails(a) \/ Mark(a)
      PROVE  CommitsOnce(a)'
  <2>1. Onward(a, "done")
    BY <1>1, MarkedRow
       DEF WorkerFails, VerificationFails, Fail, GitFails, Mark, SaveDispatch, Goto, Set, TypeOK,
           journal, bounds
  <2>2. Withheld(a)
    BY <1>1 DEF WorkerFails, VerificationFails, Fail, GitFails, Mark, Commit
  <2>. QED  BY <2>1, <2>2 DEF CommitsOnce, Withheld, Commits
<1>2. ASSUME Propose(a) PROVE CommitsOnce(a)'
  <2>1. pc[a] = "working" /\ pc'[a] \in {"proposed", "verified"} /\ row'[a] = "PROPOSAL_RECEIVED"
    BY <1>2 DEF Propose, Goto, Set, TypeOK
  <2>2. Withheld(a)
    BY <2>1 DEF Commit
  <2>. QED  BY <2>1, <2>2 DEF CommitsOnce, Withheld
<1>3. ASSUME VerificationPasses(a) PROVE CommitsOnce(a)'
  <2>1. pc[a] = "proposed" /\ Onward(a, "verified")
    BY <1>3 DEF VerificationPasses, Goto, TypeOK, journal, bounds
  <2>2. Withheld(a)
    BY <2>1 DEF Commit
  <2>. QED  BY <2>1, <2>2 DEF CommitsOnce, Withheld, Commits
<1>4. ASSUME Inspect(a) PROVE CommitsOnce(a)'
  <2>1. pc[a] = "verified" /\ Commits(a) /\ Onward(a, "inspected")
    BY <1>4 DEF Inspect, Goto, TypeOK, journal, bounds
  <2>2. Withheld(a)
    BY <2>1 DEF Commit
  <2>. QED  BY <2>1, <2>2 DEF CommitsOnce, Withheld, Commits
<1>5. ASSUME Check(a) PROVE CommitsOnce(a)'
  <2>1. pc[a] = "verified" /\ ~Commits(a) /\ Onward(a, "checked")
    BY <1>5 DEF Check, Goto, Set, TypeOK, bounds
  <2>2. Withheld(a)
    BY <2>1 DEF Commit
  <2>. QED  BY <2>1, <2>2 DEF CommitsOnce, Withheld, Commits
<1>6. ASSUME PersistIntent(a) PROVE CommitsOnce(a)'
  <2>1. pc[a] = "inspected" /\ Onward(a, "intent")
    BY <1>6 DEF PersistIntent, Goto, Set, TypeOK, bounds
  <2>2. Withheld(a)
    BY <2>1 DEF Commit
  <2>. QED  BY <2>1, <2>2 DEF CommitsOnce, Withheld, Commits
<1>7. ASSUME Stage(a) PROVE CommitsOnce(a)'
  <2>1. pc[a] = "intent" /\ Onward(a, "adding")
    BY <1>7 DEF Stage, Goto, TypeOK, journal, bounds
  <2>2. Withheld(a)
    BY <2>1 DEF Commit
  <2>. QED  BY <2>1, <2>2 DEF CommitsOnce, Withheld, Commits
<1>8. ASSUME Staged(a) PROVE CommitsOnce(a)'
  <2>1. /\ pc[a] = "adding" /\ pc'[a] \in {"staged", "marking"}
        /\ policy' = policy /\ outcome'[a] = outcome[a]
    BY <1>8 DEF Staged, Goto, TypeOK, bounds
  <2>2. Withheld(a)
    BY <2>1 DEF Commit
  <2>. QED  BY <2>1, <2>2 DEF CommitsOnce, Withheld, Commits
<1>9. ASSUME Commit(a) PROVE CommitsOnce(a)'
  <2>1. pc[a] = "staged" /\ pc'[a] = "committing" /\ Onward(a, "committing") /\ UNCHANGED log
    BY <1>9 DEF Commit, Goto, TypeOK, journal, bounds, repository
  <2>2. ~OnBranch(a)'
    BY <2>1 DEF CommitsOnce, Published, OnBranch
  <2>. QED  BY <2>1, <2>2 DEF CommitsOnce, Commits
<1>10. ASSUME PostCheck(a) PROVE CommitsOnce(a)'
  <2>1. pc[a] = "committing" /\ Onward(a, "committed")
    BY <1>10 DEF PostCheck, Goto, TypeOK, journal, bounds
  <2>2. Withheld(a)
    BY <2>1 DEF Commit
  <2>. QED  BY <2>1, <2>2 DEF CommitsOnce, Withheld, Commits
<1>11. ASSUME Complete(a) PROVE CommitsOnce(a)'
  <2>1. pc[a] \in {"committed", "checked"} /\ Onward(a, "completed")
    BY <1>11 DEF Complete, Goto, TypeOK, journal, bounds
  <2>2. Withheld(a)
    BY <2>1 DEF Commit
  <2>. QED  BY <2>1, <2>2 DEF CommitsOnce, Withheld, Commits
<1>12. ASSUME Finalize(a) PROVE CommitsOnce(a)'
  <2>1. pc[a] = "completed" /\ Onward(a, "done")
    BY <1>12 DEF Finalize, Final, Goto, Set, TypeOK, bounds
  <2>2. Withheld(a)
    BY <2>1 DEF Commit
  <2>. QED  BY <2>1, <2>2 DEF CommitsOnce, Withheld, Commits
<1>. QED
  BY <1>1, <1>2, <1>3, <1>4, <1>5, <1>6, <1>7, <1>8, <1>9, <1>10, <1>11, <1>12 DEF Execute

LEMMA OnceStep == Journal /\ Once /\ [Next]_vars => Once'
<1>. SUFFICES ASSUME Journal, Once, [Next]_vars, NEW b \in Attempt PROVE CommitsOnce(b)'
  BY DEF Once
<1>1. TypeOK /\ Unprepared /\ Journaled /\ CommitsOnce(b)
  BY DEF Journal, Once
<1>2. CASE UNCHANGED vars
  BY <1>1, <1>2
     DEF vars, repository, journal, processes, bounds, CommitsOnce, Published, OnBranch, Commits
<1>3. CASE Execute(b) /\ Next
  BY <1>1, <1>3, OthersWithhold, ExecuteOnce
<1>4. CASE Prepare(b) /\ Next
  <2>1. pc[b] = "off" /\ pc'[b] = "working" /\ UNCHANGED <<row, outcome, policy>>
    BY <1>1, <1>4 DEF Prepare, Unprepared, Goto, TypeOK, journal, bounds
  <2>2. Withheld(b)
    BY <1>1, <1>4, <2>1, OthersWithhold DEF Commit
  <2>. QED
    BY <1>1, <2>1, <2>2
       DEF CommitsOnce, Withheld, Commits, Unstaged, Unintended, Committing
<1>5. CASE ~Execute(b) /\ ~Prepare(b) /\ Next
  <2>1. Passive(b)
    BY <1>1, <1>5, OthersArePassive
  <2>2. Withheld(b)
    BY <1>1, <1>5, OthersWithhold DEF Execute
  <2>. QED  BY <1>1, <2>1, <2>2, PassiveOnce
<1>. QED  BY <1>2, <1>3, <1>4, <1>5
-----------------------------------------------------------------------------
(* What a step of the process of an attempt does to who owns the dispatch. *)
OwnStep(a) ==
    /\ a \notin workers /\ workers' = workers
    /\ \A b \in Attempt \ {a} :
          pc'[b] = pc[b] /\ dispatch'[b] = dispatch[b] /\ (b \in fresh' => b \in fresh)
    /\ a \in fresh' => a \in fresh
    /\ pc'[a] \in Going \ {"off", "completed"} =>
          pc[a] \in Going \ {"off", "completed"} /\ dispatch'[a] = dispatch[a]
    /\ pc'[a] = "completed" /\ a \in fresh' => dispatch'[a] = "COMPLETED"
    /\ dispatch'[a] \in {"RUNNING", "COMPLETED"} => dispatch[a] \in {"RUNNING", "COMPLETED"}
    /\ dispatch'[a] = "none" => dispatch[a] = "none"
    /\ recover'.pc = recover.pc /\ recover'.attempt = recover.attempt
    /\ recover'.known => recover.known /\ dispatch' = dispatch

LEMMA OwnStepOwned ==
    ASSUME TypeOK, Owned, NEW a \in Attempt, OwnStep(a)
    PROVE  Owned'
<1>1. recover.attempt \in Attempt /\ recover'.attempt \in Attempt
  BY RecoverTypes DEF OwnStep
<1>2. \A b \in Attempt :
        /\ b \in fresh' /\ pc'[b] \in Going \ {"off", "completed"} => dispatch'[b] = "RUNNING"
        /\ b \in fresh' /\ pc'[b] = "completed" => dispatch'[b] = "COMPLETED"
        /\ b \in workers' => dispatch'[b] = "RUNNING" /\ pc'[b] \in {"working", "dead"}
  BY DEF Owned, OwnStep
<1>3. \A b, c \in Attempt : Live(b)' /\ Live(c)' => b = c
  BY DEF Owned, OwnStep, Live
<1>4. recover'.pc # "idle" =>
        recover'.attempt \notin workers' /\ dispatch'[recover'.attempt] # "none"
  BY <1>1 DEF Owned, OwnStep
<1>5. recover'.pc = "finalizing" /\ recover'.known => dispatch'[recover'.attempt] = "COMPLETED"
  BY DEF Owned, OwnStep
<1>. QED  BY <1>2, <1>3, <1>4, <1>5 DEF Owned

LEMMA ExecuteOwn ==
    ASSUME TypeOK, Owned, NEW a \in Attempt, Execute(a)
    PROVE  OwnStep(a)
<1>1. a \notin workers
  BY DEF Owned, Execute, WorkerFails, Propose, VerificationPasses, VerificationFails, Inspect,
         Check, PersistIntent, Stage, Staged, Commit, GitFails, PostCheck, Complete, Finalize,
         Mark, Fail
<1>2. workers' = workers
  BY DEF Execute, WorkerFails, Propose, VerificationPasses, VerificationFails, Inspect,
         Check, PersistIntent, Stage, Staged, Commit, GitFails, PostCheck, Complete, Finalize,
         Mark, Fail, processes
<1>. USE DEF Going, Unstaged, Unintended
<1>3. ASSUME WorkerFails(a) \/ Propose(a) \/ VerificationPasses(a) \/ Inspect(a) \/ Check(a)
             \/ PersistIntent(a) \/ Stage(a)
      PROVE  OwnStep(a)
  <2>1. UNCHANGED <<dispatch, fresh, recover>>
    BY <1>3 DEF WorkerFails, Propose, VerificationPasses, Inspect, Check, PersistIntent, Stage, record
  <2>2. /\ pc[a] \in Going \ {"off", "completed"} /\ pc'[a] # "completed"
        /\ \A b \in Attempt \ {a} : pc'[b] = pc[b]
    BY <1>3
       DEF WorkerFails, Propose, VerificationPasses, Inspect, Check, PersistIntent, Stage, Goto, TypeOK
  <2>. QED  BY <1>1, <1>2, <2>1, <2>2 DEF OwnStep
<1>4. ASSUME Staged(a) \/ Commit(a) \/ GitFails(a) \/ PostCheck(a) \/ Mark(a)
      PROVE  OwnStep(a)
  <2>1. UNCHANGED <<dispatch, fresh, recover>>
    BY <1>4 DEF Staged, Commit, GitFails, PostCheck, Mark, record
  <2>2. /\ pc'[a] \in Going => pc[a] \in Going \ {"off", "completed"}
        /\ pc'[a] # "completed"
        /\ \A b \in Attempt \ {a} : pc'[b] = pc[b]
    BY <1>4 DEF Staged, Commit, GitFails, PostCheck, Mark, Goto, TypeOK
  <2>. QED  BY <1>1, <1>2, <2>1, <2>2 DEF OwnStep
<1>5. ASSUME NEW state \in {"REWORK", "COMPLETED", "FORWARDED", "FAILED"}, SaveDispatch(a, state),
             dispatch[a] \in {"RUNNING", "COMPLETED"},
             \A b \in Attempt \ {a} : pc'[b] = pc[b],
             \/ pc'[a] = "done"
             \/ pc'[a] = "completed" /\ state = "COMPLETED"
      PROVE  OwnStep(a)
  <2>1. /\ dispatch'[a] = state /\ \A b \in Attempt \ {a} : dispatch'[b] = dispatch[b]
        /\ fresh' \subseteq fresh
        /\ recover'.pc = recover.pc /\ recover'.attempt = recover.attempt /\ ~recover'.known
    BY <1>5 DEF SaveDispatch, TypeOK
  <2>. QED  BY <1>1, <1>2, <1>5, <2>1 DEF OwnStep
<1>6. ASSUME UNCHANGED <<dispatch, fresh, recover>>, pc'[a] \in {"done", "failing"},
             \A b \in Attempt \ {a} : pc'[b] = pc[b]
      PROVE  OwnStep(a)
  BY <1>1, <1>2, <1>6 DEF OwnStep
<1>7. ASSUME VerificationFails(a) PROVE OwnStep(a)
  <2>1. pc'[a] \in {"done", "failing"} /\ \A b \in Attempt \ {a} : pc'[b] = pc[b]
    BY <1>7 DEF VerificationFails, Goto, TypeOK
  <2>2. CASE a \in fresh /\ Here = snapshot[a]
    <3>1. SaveDispatch(a, "REWORK") /\ pc'[a] = "done"
      BY <1>7, <2>2 DEF VerificationFails, Goto, TypeOK
    <3>2. dispatch[a] = "RUNNING"
      BY <1>7, <2>2 DEF VerificationFails, Owned
    <3>. QED  BY <1>5, <2>1, <3>1, <3>2
  <2>3. CASE ~(a \in fresh /\ Here = snapshot[a])
    BY <1>6, <1>7, <2>1, <2>3 DEF VerificationFails
  <2>. QED  BY <2>2, <2>3
<1>8. ASSUME Complete(a) PROVE OwnStep(a)
  <2>1. pc'[a] \in {"completed", "failing"} /\ \A b \in Attempt \ {a} : pc'[b] = pc[b]
    BY <1>8 DEF Complete, Goto, TypeOK
  <2>2. CASE Applicable(a)
    <3>1. SaveDispatch(a, "COMPLETED") /\ pc'[a] = "completed"
      BY <1>8, <2>2 DEF Complete, Goto, TypeOK
    <3>2. dispatch[a] = "RUNNING"
      BY <1>8, <2>2 DEF Complete, Applicable, Owned
    <3>. QED  BY <1>5, <2>1, <3>1, <3>2
  <2>3. CASE ~Applicable(a)
    <3>1. UNCHANGED <<dispatch, fresh, recover>> /\ pc'[a] = "failing"
      BY <1>8, <2>3 DEF Complete, Goto, TypeOK
    <3>. QED  BY <1>6, <2>1, <3>1
  <2>. QED  BY <2>2, <2>3
<1>9. ASSUME Finalize(a) PROVE OwnStep(a)
  <2>1. pc'[a] \in {"done", "failing"} /\ \A b \in Attempt \ {a} : pc'[b] = pc[b]
    BY <1>9 DEF Finalize, Goto, TypeOK
  <2>2. CASE a \in fresh /\ MayFinalize(a)
    <3>1. SaveDispatch(a, "FORWARDED") /\ pc'[a] = "done"
      BY <1>9, <2>2 DEF Finalize, Goto, TypeOK
    <3>2. dispatch[a] = "COMPLETED"
      BY <1>9, <2>2 DEF Finalize, Owned
    <3>. QED  BY <1>5, <2>1, <3>1, <3>2
  <2>3. CASE ~(a \in fresh /\ MayFinalize(a))
    BY <1>6, <1>9, <2>1, <2>3 DEF Finalize
  <2>. QED  BY <2>2, <2>3
<1>10. ASSUME Fail(a) PROVE OwnStep(a)
  <2>1. pc'[a] = "done" /\ \A b \in Attempt \ {a} : pc'[b] = pc[b]
    BY <1>10 DEF Fail, Goto, TypeOK
  <2>2. CASE dispatch[a] = "RUNNING"
    BY <1>5, <1>10, <2>1, <2>2 DEF Fail
  <2>3. CASE dispatch[a] # "RUNNING"
    BY <1>6, <1>10, <2>1, <2>3 DEF Fail
  <2>. QED  BY <2>2, <2>3
<1>. QED  BY <1>3, <1>4, <1>7, <1>8, <1>9, <1>10 DEF Execute

LEMMA PrepareOwned ==
    ASSUME TypeOK, Unprepared, Owned, NEW a \in Attempt, Prepare(a)
    PROVE  Owned'
<1>1. /\ dispatch[a] = "none" /\ dispatch'[a] = "RUNNING" /\ pc'[a] = "working"
      /\ \A b \in Attempt \ {a} : dispatch'[b] = dispatch[b] /\ pc'[b] = pc[b] /\ ~Live(b)
      /\ workers' = workers \cup {a} /\ fresh' = {a}
      /\ recover'.pc = recover.pc /\ recover'.attempt = recover.attempt /\ ~recover'.known
  <2>1. \A b \in Attempt \ {a} : ~Live(b)
    BY DEF Prepare, Live
  <2>. QED  BY <2>1 DEF Prepare, Goto, TypeOK
<1>2. recover.attempt \in Attempt
  BY RecoverTypes
<1>3. \A b \in Attempt :
        /\ b \in fresh' /\ pc'[b] \in Going \ {"off", "completed"} => dispatch'[b] = "RUNNING"
        /\ b \in fresh' /\ pc'[b] = "completed" => dispatch'[b] = "COMPLETED"
        /\ b \in workers' => dispatch'[b] = "RUNNING" /\ pc'[b] \in {"working", "dead"}
  BY <1>1 DEF Owned
<1>4. \A b, c \in Attempt : Live(b)' /\ Live(c)' => b = c
  BY <1>1 DEF Live
<1>5. recover'.pc # "idle" =>
        recover'.attempt \notin workers' /\ dispatch'[recover'.attempt] # "none"
  BY <1>1, <1>2 DEF Owned
<1>. QED  BY <1>1, <1>3, <1>4, <1>5 DEF Owned

LEMMA OthersOwned ==
    ASSUME TypeOK, Owned, NEW a \in Attempt,
           Environment(a) \/ Cancel(a) \/ Crash(a) \/ RecoverStart(a)
    PROVE  Owned'
<1>1. recover.attempt \in Attempt
  BY RecoverTypes
<1>2. ASSUME Environment(a) PROVE Owned'
  <2>1. UNCHANGED <<dispatch, fresh, recover, pc>> /\ workers' \subseteq workers
    BY <1>2 DEF Environment, WorkerEdits, WorkerExits, AddTakesEffect, CommitTakesEffect,
                OrphanFails, record, processes
  <2>. QED  BY <2>1 DEF Owned, Live
<1>3. ASSUME Cancel(a) PROVE Owned'
  <2>1. /\ UNCHANGED <<dispatch, workers, pc>> /\ fresh' = {}
        /\ recover'.pc = recover.pc /\ recover'.attempt = recover.attempt /\ ~recover'.known
    BY <1>3 DEF Cancel, processes, TypeOK
  <2>. QED  BY <2>1 DEF Owned, Live
<1>4. ASSUME Crash(a) PROVE Owned'
  <2>1. /\ UNCHANGED <<dispatch, workers, fresh, recover>>
        /\ pc'[a] = "dead" /\ \A b \in Attempt \ {a} : pc'[b] = pc[b]
    BY <1>4 DEF Crash, Goto, record, processes, TypeOK
  <2>2. pc'[a] \notin Going
    BY <2>1 DEF Going, Unstaged, Unintended
  <2>3. \A b \in Attempt :
          /\ b \in fresh' /\ pc'[b] \in Going \ {"off", "completed"} => dispatch'[b] = "RUNNING"
          /\ b \in fresh' /\ pc'[b] = "completed" => dispatch'[b] = "COMPLETED"
          /\ b \in workers' => dispatch'[b] = "RUNNING" /\ pc'[b] \in {"working", "dead"}
    BY <2>1, <2>2 DEF Owned, Going
  <2>. QED  BY <2>1, <2>3 DEF Owned, Live
<1>5. ASSUME RecoverStart(a) PROVE Owned'
  <2>1. /\ UNCHANGED <<dispatch, workers, fresh, pc>>
        /\ recover'.attempt = a /\ a \notin workers /\ dispatch[a] = "RUNNING"
        /\ ~recover'.known
    BY <1>5 DEF RecoverStart, Classify, record, processes
  <2>. QED  BY <2>1 DEF Owned, Live
<1>. QED  BY <1>2, <1>3, <1>4, <1>5

LEMMA RecoverOwned ==
    ASSUME TypeOK, Owned, RecoverStep \/ RecoverCrash \/ Reconcile \/ Meddle
    PROVE  Owned'
<1>1. recover.attempt \in Attempt
  BY RecoverTypes
<1>2. NoRecovery.pc = "idle"
  BY DEF NoRecovery
<1>3. ASSUME RecoverCrash \/ Reconcile \/ Meddle PROVE Owned'
  <2>1. /\ UNCHANGED <<dispatch, workers, pc>> /\ fresh' \subseteq fresh
        /\ recover' \in {recover, NoRecovery}
    BY <1>3 DEF RecoverCrash, Reconcile, Meddle, record, processes
  <2>2. CASE recover' = recover
    BY <2>1, <2>2 DEF Owned, Live
  <2>3. CASE recover' = NoRecovery
    BY <1>2, <2>1, <2>3 DEF Owned, Live
  <2>. QED  BY <2>1, <2>2, <2>3
<1>4. ASSUME RecoverInspect PROVE Owned'
  <2>1. /\ UNCHANGED <<dispatch, workers, fresh, pc>>
        /\ \/ recover'.pc = "applying" /\ recover'.attempt = recover.attempt /\ recover.pc # "idle"
           \/ recover'.pc = "idle"
    BY <1>2, <1>4 DEF RecoverInspect, record, processes, TypeOK
  <2>. QED  BY <2>1 DEF Owned, Live
<1>5. ASSUME NEW state \in {"COMPLETED", "FORWARDED", "FAILED"},
             dispatch' = [dispatch EXCEPT ![recover.attempt] = state], UNCHANGED <<workers, pc>>, fresh' = {},
             dispatch[recover.attempt] \in {"RUNNING", "COMPLETED"}, recover.pc # "idle",
             \/ recover'.pc = "idle"
             \/ recover'.pc # "idle" /\ recover'.attempt = recover.attempt /\ state = "COMPLETED"
      PROVE  Owned'
  <2>1. dispatch'[recover.attempt] = state /\ \A b \in Attempt \ {recover.attempt} : dispatch'[b] = dispatch[b]
    BY <1>1, <1>5 DEF TypeOK
  <2>2. \A b \in Attempt :
          b \in workers' => dispatch'[b] = "RUNNING" /\ pc'[b] \in {"working", "dead"}
    BY <1>5, <2>1 DEF Owned
  <2>3. \A b, c \in Attempt : Live(b)' /\ Live(c)' => b = c
    BY <1>1, <1>5, <2>1 DEF Owned, Live
  <2>4. recover'.pc # "idle" =>
          recover'.attempt \notin workers' /\ dispatch'[recover'.attempt] # "none"
    BY <1>5, <2>1 DEF Owned
  <2>5. recover'.pc = "finalizing" /\ recover'.known => dispatch'[recover'.attempt] = "COMPLETED"
    BY <1>5, <2>1
  <2>. QED  BY <1>5, <2>2, <2>3, <2>4, <2>5 DEF Owned
<1>6. ASSUME UNCHANGED <<dispatch, workers, pc, fresh>>, recover' = NoRecovery PROVE Owned'
  BY <1>2, <1>6 DEF Owned, Live
<1>7. ASSUME RecoverApply PROVE Owned'
  <2>1. CASE recover.known /\ dispatch[recover.attempt] = "RUNNING"
    <3>1. /\ dispatch' = [dispatch EXCEPT ![recover.attempt] = "COMPLETED"]
          /\ UNCHANGED <<workers, pc>> /\ fresh' = {} /\ recover.pc # "idle"
          /\ recover'.pc # "idle" /\ recover'.attempt = recover.attempt
      BY <1>7, <2>1 DEF RecoverApply, processes, TypeOK
    <3>. QED  BY <1>5, <2>1, <3>1
  <2>2. CASE ~(recover.known /\ dispatch[recover.attempt] = "RUNNING")
    BY <1>6, <1>7, <2>2 DEF RecoverApply, processes
  <2>. QED  BY <2>1, <2>2
<1>8. ASSUME RecoverFinalize PROVE Owned'
  <2>1. CASE recover.known /\ row[recover.attempt] = "STAGED"
    <3>1. /\ dispatch' = [dispatch EXCEPT ![recover.attempt] = "FORWARDED"]
          /\ UNCHANGED <<workers, pc>> /\ fresh' = {} /\ recover.pc # "idle"
          /\ recover'.pc = "idle"
      BY <1>2, <1>8, <2>1 DEF RecoverFinalize, processes
    <3>2. dispatch[recover.attempt] = "COMPLETED"
      BY <1>8, <2>1 DEF RecoverFinalize, Owned
    <3>. QED  BY <1>5, <3>1, <3>2
  <2>2. CASE ~(recover.known /\ row[recover.attempt] = "STAGED")
    BY <1>6, <1>8, <2>2 DEF RecoverFinalize, processes
  <2>. QED  BY <2>1, <2>2
<1>9. ASSUME RecoverInterrupt PROVE Owned'
  <2>1. CASE dispatch[recover.attempt] = "RUNNING"
    <3>1. /\ dispatch' = [dispatch EXCEPT ![recover.attempt] = "FAILED"]
          /\ UNCHANGED <<workers, pc>> /\ fresh' = {} /\ recover.pc # "idle"
          /\ recover'.pc = "idle"
      BY <1>2, <1>9, <2>1 DEF RecoverInterrupt, processes
    <3>. QED  BY <1>5, <2>1, <3>1
  <2>2. CASE dispatch[recover.attempt] # "RUNNING"
    BY <1>6, <1>9, <2>2 DEF RecoverInterrupt, processes
  <2>. QED  BY <2>1, <2>2
<1>. QED  BY <1>3, <1>4, <1>7, <1>8, <1>9 DEF RecoverStep

LEMMA OwnedStep == Journal /\ Owned /\ [Next]_vars => Owned'
<1>. SUFFICES ASSUME Journal, Owned, [Next]_vars PROVE Owned'
  OBVIOUS
<1>1. TypeOK /\ Unprepared
  BY DEF Journal
<1>2. CASE UNCHANGED vars
  BY <1>2 DEF vars, record, processes, Owned, Live
<1>3. CASE Next
  <2>1. ASSUME NEW a \in Attempt, Execute(a) PROVE Owned'
    BY <1>1, <2>1, ExecuteOwn, OwnStepOwned
  <2>. QED  BY <1>1, <1>3, <2>1, PrepareOwned, OthersOwned, RecoverOwned DEF Next
<1>. QED  BY <1>2, <1>3
-----------------------------------------------------------------------------
(* What the working copy of a live attempt may turn into in one step.      *)
Drift ==
    \/ Core(work') \in {Core(work), Core(work) \cup {Inside}}
    \/ Core(work') = Core(HeadTree)

(* Only the worker of a live attempt edits, and no other attempt is live.  *)
LEMMA DriftStep ==
    ASSUME TypeOK, Owned, Next, NEW a \in Attempt, Live(a), pc[a] \notin {"working", "dead"}
    PROVE  Drift
<1>1. CASE work' = work
  BY <1>1 DEF Drift
<1>2. ASSUME NEW b \in Attempt, WorkerEdits(b) PROVE FALSE
  <2>1. b \in workers
    BY <1>2 DEF WorkerEdits
  <2>2. Live(b)
    BY <2>1 DEF Owned, Live
  <2>3. b = a
    BY <2>2 DEF Owned
  <2>. QED  BY <2>1, <2>3 DEF Owned
<1>3. ASSUME Reconcile PROVE Drift
  BY <1>3 DEF Reconcile, Drift
<1>4. ASSUME Meddle PROVE Drift
  <2>1. CASE work' = work
    BY <2>1 DEF Drift
  <2>2. CASE work' = HeadTree
    BY <2>2 DEF Drift
  <2>3. ASSUME NEW c \in {Inside, Outside}, work' = work \cup {c} PROVE Drift
    <3>1. CASE c = Inside
      <4>1. Inside # Outside
        BY BoundAssumption DEF Inside, Outside
      <4>2. Core(work') = Core(work) \cup {Inside}
        BY <2>3, <3>1, <4>1 DEF Core
      <4>. QED  BY <4>2 DEF Drift
    <3>2. CASE c = Outside
      <4>1. Core(work') = Core(work)
        BY <2>3, <3>2 DEF Core
      <4>. QED  BY <4>1 DEF Drift
    <3>. QED  BY <3>1, <3>2
  <2>. QED  BY <1>4, <2>1, <2>2, <2>3 DEF Meddle
<1>5. ASSUME NEW b \in Attempt, Execute(b) PROVE work' = work
  <2>1. CASE WorkerFails(b) \/ Propose(b) \/ VerificationPasses(b) \/ VerificationFails(b)
             \/ Inspect(b) \/ Check(b) \/ PersistIntent(b) \/ Stage(b)
    BY <2>1 DEF WorkerFails, Propose, VerificationPasses, VerificationFails, Inspect, Check,
                PersistIntent, Stage, repository
  <2>2. CASE Staged(b) \/ Commit(b) \/ GitFails(b) \/ PostCheck(b) \/ Complete(b) \/ Finalize(b)
             \/ Mark(b) \/ Fail(b)
    BY <2>2 DEF Staged, Commit, GitFails, PostCheck, Complete, Finalize, Mark, Fail, repository
  <2>. QED  BY <1>5, <2>1, <2>2 DEF Execute
<1>6. ASSUME NEW b \in Attempt, WorkerExits(b) \/ AddTakesEffect(b) \/ CommitTakesEffect(b) \/ OrphanFails(b)
             \/ Prepare(b) \/ Cancel(b) \/ Crash(b) \/ RecoverStart(b)
      PROVE  work' = work
  BY <1>6 DEF WorkerExits, AddTakesEffect, CommitTakesEffect, OrphanFails, Prepare, Cancel, Crash,
              RecoverStart, repository
<1>7. ASSUME RecoverStep \/ RecoverCrash PROVE work' = work
  BY <1>7 DEF RecoverStep, RecoverInspect, RecoverApply, RecoverFinalize, RecoverInterrupt,
              RecoverCrash, repository
<1>. QED  BY <1>1, <1>2, <1>3, <1>4, <1>5, <1>6, <1>7 DEF Next, Environment

(* A stray change inside and a clean-up lead nowhere else.                 *)
LEMMA DriftedStays ==
    ASSUME NEW before, NEW after, NEW seen, NEW head,
           before \in {seen, seen \cup {Inside}} \/ before \in {head, head \cup {Inside}},
           after \in {before, before \cup {Inside}} \/ after = head
    PROVE  after \in {seen, seen \cup {Inside}} \/ after \in {head, head \cup {Inside}}
<1>1. \A tree : (tree \cup {Inside}) \cup {Inside} = tree \cup {Inside}
  OBVIOUS
<1>. QED  BY <1>1

LEMMA AwayStays ==
    ASSUME NEW before, NEW after, NEW seen, NEW head,
           \/ before \in {head, head \cup {Inside}} /\ seen # head \cup {Inside}
           \/ before = seen \cup {Inside} /\ Inside \notin seen,
           after \in {before, before \cup {Inside}} \/ after = head
    PROVE  \/ after \in {head, head \cup {Inside}} /\ seen # head \cup {Inside}
           \/ after = seen \cup {Inside} /\ Inside \notin seen
<1>1. \A tree : (tree \cup {Inside}) \cup {Inside} = tree \cup {Inside}
  OBVIOUS
<1>2. Inside \notin seen => seen # head \cup {Inside}
  OBVIOUS
<1>. QED  BY <1>1, <1>2

(* The proposal of the attempt is the one it was, on the same base.        *)
Same(a) ==
    policy' = policy /\ outcome'[a] = outcome[a] /\ snapshot'[a] = snapshot[a] /\ base'[a] = base[a]

LEMMA SameFacts ==
    ASSUME TypeOK, LogGrows, NEW a \in Attempt, base[a] <= Len(log), Same(a)
    PROVE  /\ base'[a] <= Len(log')
           /\ Proposed(a) => Proposed(a)'
           /\ Commits(a)' <=> Commits(a)
           /\ InPlace(a) => InPlace(a)'
           /\ candidate'[a] = candidate[a] /\ GoodCandidate(a) => GoodCandidate(a)'
           /\ Len(log') = base'[a] => log' = log /\ Len(log) = base[a]
<1>1. base[a] \in Nat /\ Len(log) \in Nat /\ Len(log') \in {Len(log), Len(log) + 1}
  BY Kept DEF TypeOK
<1>2. TreeAt(base[a])' = TreeAt(base[a])
  <2>1. PICK n \in 0..Len(log) : n = base[a]
    BY <1>1
  <2>2. TreeAt(n)' = TreeAt(n)
    BY <2>1, Kept
  <2>. QED  BY <2>1, <2>2 DEF Same, TreeAt
<1>3. base'[a] <= Len(log')
  BY <1>1 DEF Same
<1>4. Proposed(a) => Proposed(a)'
  BY <1>2 DEF Same, Proposed
<1>5. Commits(a)' <=> Commits(a)
  BY DEF Same, Commits
<1>6. InPlace(a) => InPlace(a)'
  BY InPlaceKeeps DEF Same
<1>7. candidate'[a] = candidate[a] /\ GoodCandidate(a) => GoodCandidate(a)'
  BY <1>2 DEF Same, GoodCandidate
<1>8. Len(log') = base'[a] => log' = log /\ Len(log) = base[a]
  BY <1>1, Kept DEF Same
<1>. QED  BY <1>3, <1>4, <1>5, <1>6, <1>7, <1>8

LEMMA DriftKeeps ==
    ASSUME TypeOK, NEW a \in Attempt, Len(log) = base[a], Same(a), log' = log, Drift
    PROVE  /\ Drifted(a) => Drifted(a)'
           /\ Away(a) => Away(a)'
<1>1. TreeAt(base[a]) = HeadTree
  BY HeadIsLast
<1>2. TreeAt(base[a])' = TreeAt(base[a])
  BY DEF TreeAt, Same
<1>3. /\ Core(snapshot[a].work)' = Core(snapshot[a].work)
      /\ Core(TreeAt(base[a]))' = Core(TreeAt(base[a]))
  BY <1>2 DEF Same, Core
<1>4. \/ Core(work)' \in {Core(work), Core(work) \cup {Inside}}
      \/ Core(work)' = Core(TreeAt(base[a]))
  BY <1>1 DEF Drift
<1>5. Drifted(a) => Drifted(a)'
  BY <1>3, <1>4, DriftedStays DEF Drifted
<1>6. Away(a) => Away(a)'
  BY <1>3, <1>4, AwayStays DEF Away
<1>. QED  BY <1>5, <1>6

(* Where the candidate of an attempt is spoken of.                         *)
Proposing == {"proposed", "verified", "inspected", "intent", "adding", "staged", "committing",
              "committed", "completed"}

LEMMA CandidatureKeeps ==
    ASSUME TypeOK, LogGrows, NEW a \in Attempt, Candidature(a), Same(a),
           candidate'[a] = candidate[a],
           pc'[a] = pc[a] \/ pc'[a] \notin Proposing,
           row'[a] = "STAGED" => row[a] = "STAGED",
           dispatch'[a] \in {"RUNNING", "COMPLETED"} => dispatch[a] \in {"RUNNING", "COMPLETED"},
           dispatch'[a] = "REWORK" => dispatch[a] = "REWORK",
           Live(a) /\ pc[a] \in {"inspected", "intent"} => Drift
    PROVE  Candidature(a)'
<1>1. base[a] <= Len(log)
  BY DEF Candidature
<1>2. /\ base'[a] <= Len(log')
      /\ Proposed(a) => Proposed(a)'
      /\ Commits(a)' <=> Commits(a)
      /\ InPlace(a) => InPlace(a)'
      /\ GoodCandidate(a) => GoodCandidate(a)'
      /\ Len(log') = base'[a] => log' = log /\ Len(log) = base[a]
  BY <1>1, SameFacts
<1>3. Live(a)' => Live(a)
  BY DEF Live
<1>4. dispatch'[a] = "REWORK" => snapshot'[a].head = base'[a]
  BY DEF Candidature, Same
<1>5. pc'[a] \in {"proposed", "verified", "inspected", "intent"} => Proposed(a)'
  BY <1>2 DEF Candidature, Proposing
<1>6. pc'[a] = "inspected" /\ Live(a)' /\ Len(log') = base'[a] => Drifted(a)'
  BY <1>2, <1>3, DriftKeeps DEF Candidature, Proposing
<1>7. pc'[a] = "intent" /\ Live(a)' /\ Len(log') = base'[a] => GoodCandidate(a)' \/ Away(a)'
  BY <1>2, <1>3, DriftKeeps DEF Candidature, Proposing
<1>8. Live(a)' /\ (pc'[a] \in {"adding", "staged", "committing"} \/ row'[a] = "STAGED") =>
        GoodCandidate(a)'
  BY <1>2, <1>3 DEF Candidature, Proposing
<1>9. /\ Live(a)' /\ pc'[a] = "committed" => InPlace(a)'
      /\ pc'[a] = "completed" /\ Commits(a)' => InPlace(a)'
  BY <1>2, <1>3 DEF Candidature, Proposing
<1>. QED  BY <1>2, <1>4, <1>5, <1>6, <1>7, <1>8, <1>9 DEF Candidature
-----------------------------------------------------------------------------
(* The process of an attempt only reads the repository, and writes its     *)
(* proposal once.                                                          *)
LEMMA ExecuteSame ==
    ASSUME NEW a \in Attempt, Execute(a)
    PROVE  UNCHANGED <<log, work>> /\ (~Propose(a) => Same(a))
<1>1. CASE WorkerFails(a) \/ Propose(a) \/ VerificationPasses(a) \/ VerificationFails(a)
           \/ Inspect(a) \/ Check(a) \/ PersistIntent(a) \/ Stage(a)
  BY <1>1 DEF WorkerFails, Propose, VerificationPasses, VerificationFails, Inspect, Check,
              PersistIntent, Stage, repository, journal, record, bounds, Same
<1>2. CASE Staged(a) \/ Commit(a) \/ GitFails(a) \/ PostCheck(a) \/ Complete(a) \/ Finalize(a)
           \/ Mark(a) \/ Fail(a)
  BY <1>2 DEF Staged, Commit, GitFails, PostCheck, Complete, Finalize, Mark, Fail, repository,
              journal, record, bounds, Same
<1>. QED  BY <1>1, <1>2 DEF Execute

LEMMA SameStays ==
    ASSUME NEW a \in Attempt, Same(a), UNCHANGED <<log, work>>
    PROVE  /\ Proposed(a)' <=> Proposed(a)
           /\ Commits(a)' <=> Commits(a)
           /\ InPlace(a)' <=> InPlace(a)
           /\ Drifted(a)' <=> Drifted(a)
           /\ candidate'[a] = candidate[a] => (GoodCandidate(a)' <=> GoodCandidate(a))
           /\ Away(a)' <=> Away(a)
<1>1. TreeAt(base[a])' = TreeAt(base[a])
  BY DEF TreeAt, Same
<1>2. /\ Core(snapshot[a].work)' = Core(snapshot[a].work)
      /\ Core(TreeAt(base[a]))' = Core(TreeAt(base[a]))
      /\ Core(work)' = Core(work)
  BY <1>1 DEF Same, Core
<1>3. Proposed(a)' <=> Proposed(a)
  BY <1>1 DEF Proposed, Same
<1>4. Commits(a)' <=> Commits(a)
  BY DEF Commits, Same
<1>5. InPlace(a)' <=> InPlace(a)
  BY DEF InPlace, Same
<1>6. candidate'[a] = candidate[a] => (GoodCandidate(a)' <=> GoodCandidate(a))
  BY <1>1 DEF GoodCandidate, Same
<1>7. Drifted(a)' <=> Drifted(a)
  BY <1>2 DEF Drifted
<1>8. Away(a)' <=> Away(a)
  BY <1>2 DEF Away
<1>. QED  BY <1>3, <1>4, <1>5, <1>6, <1>7, <1>8

(* The intent of a working copy that drifted.                              *)
LEMMA IntentTree ==
    ASSUME TypeOK, NEW a \in Attempt, Proposed(a), Commits(a), Drifted(a), Len(log) = base[a],
           candidate'[a] = Added(HeadTree)
    PROVE  candidate'[a] \in {snapshot[a].work, TreeAt(base[a])} \/ Away(a)
<1>. DEFINE seen == snapshot[a].work
            head == TreeAt(base[a])
<1>1. head = HeadTree
  BY HeadIsLast
<1>2. Outside \in seen <=> Outside \in head
  BY DEF Proposed, Commits
<1>3. candidate'[a] = Core(work) \cup (head \cap {Outside})
  BY <1>1 DEF Added, Core
<1>4. Inside # Outside
  BY BoundAssumption DEF Inside, Outside
<1>5. seen = Core(seen) \cup (head \cap {Outside}) /\ head = Core(head) \cup (head \cap {Outside})
  BY <1>2 DEF Core
<1>6. Away(a) <=>
        \/ Core(work) \in {Core(head), Core(head) \cup {Inside}} /\ Core(seen) # Core(head) \cup {Inside}
        \/ Core(work) = Core(seen) \cup {Inside} /\ Inside \notin Core(seen)
  BY DEF Away
<1>7. \/ Core(work) \in {Core(seen), Core(seen) \cup {Inside}}
      \/ Core(work) \in {Core(head), Core(head) \cup {Inside}}
  BY DEF Drifted
<1>. HIDE DEF seen, head
<1>8. CASE Core(work) = Core(seen) \/ Core(work) = Core(head)
  BY <1>3, <1>5, <1>8 DEF seen, head
<1>9. CASE Core(work) = Core(seen) \cup {Inside}
  <2>1. CASE Inside \in Core(seen)
    <3>1. Core(work) = Core(seen)
      BY <1>9, <2>1
    <3>. QED  BY <1>8, <3>1
  <2>2. CASE Inside \notin Core(seen)
    BY <1>6, <1>9, <2>2
  <2>. QED  BY <2>1, <2>2
<1>10. CASE Core(work) = Core(head) \cup {Inside}
  <2>1. CASE Core(seen) = Core(head) \cup {Inside}
    BY <1>8, <1>10, <2>1
  <2>2. CASE Core(seen) # Core(head) \cup {Inside}
    BY <1>6, <1>10, <2>2
  <2>. QED  BY <2>1, <2>2
<1>. QED  BY <1>7, <1>8, <1>9, <1>10

(* The second look finds the proposed working copy, so it is not away.     *)
LEMMA UnchangedIsThere ==
    ASSUME TypeOK, NEW a \in Attempt, Proposed(a), Commits(a), Unchanged(a)
    PROVE  Len(log) = base[a] /\ ~Away(a)
<1>1. Len(log) = base[a] /\ work = snapshot[a].work
  BY DEF Unchanged, Here, Proposed
<1>2. Outside \in work <=> Outside \in TreeAt(base[a])
  BY <1>1 DEF Proposed, Commits
<1>3. work # TreeAt(base[a])
  BY <1>1 DEF Proposed, Commits
<1>4. Core(work) # Core(TreeAt(base[a]))
  BY <1>2, <1>3 DEF Core
<1>5. ~Away(a)
  BY <1>1, <1>4 DEF Away
<1>. QED  BY <1>1, <1>5

(* HEAD is exactly what a good intent describes: it is the proposal, as no *)
(* commit repeats the tree of its base.                                    *)
LEMMA ExactIsInPlace ==
    ASSUME TypeOK, NEW a \in Attempt, LogChanges, GoodCandidate(a), Exact(a)
    PROVE  InPlace(a)
<1>1. base[a] \in Nat /\ Len(log) = base[a] + 1
  BY DEF TypeOK, Exact
<1>2. log[base[a] + 1] = [by |-> a, tree |-> candidate[a]]
  BY <1>1 DEF Exact
<1>3. base[a] + 1 \in 1..Len(log) /\ (base[a] + 1) - 1 = base[a]
  BY <1>1
<1>4. log[base[a] + 1].tree # TreeAt((base[a] + 1) - 1)
  BY <1>3 DEF LogChanges
<1>5. candidate[a] = snapshot[a].work
  BY <1>2, <1>3, <1>4 DEF GoodCandidate
<1>. QED  BY <1>1, <1>2, <1>5 DEF InPlace
-----------------------------------------------------------------------------
LEMMA ExecuteCandidature ==
    ASSUME TypeOK, Owned, LogChanges, NEW a \in Attempt, CommitsOnce(a), Candidature(a), Execute(a)
    PROVE  Candidature(a)'
<1>. USE DEF Proposing
<1>1. UNCHANGED <<log, work>> /\ (~Propose(a) => Same(a)) /\ LogGrows
  BY ExecuteSame DEF LogGrows
<1>2. ASSUME UNCHANGED candidate, ~Propose(a), pc'[a] \notin Proposing,
             row'[a] = "STAGED" => row[a] = "STAGED",
             dispatch'[a] \in {dispatch[a], "FORWARDED", "FAILED"}
      PROVE  Candidature(a)'
  <2>1. Drift
    BY <1>1 DEF Drift
  <2>. QED  BY <1>1, <1>2, <2>1, CandidatureKeeps
<1>3. ASSUME WorkerFails(a) \/ Check(a) \/ GitFails(a) \/ Mark(a)
      PROVE  Candidature(a)'
  <2>1. UNCHANGED <<candidate, dispatch>> /\ pc'[a] \notin Proposing /\ ~Propose(a)
    BY <1>3 DEF WorkerFails, Check, GitFails, Mark, Propose, Goto, journal, record, TypeOK
  <2>2. row'[a] = "STAGED" => row[a] = "STAGED"
    BY <1>3, MarkedRow DEF WorkerFails, Check, GitFails, Mark, Set, journal, TypeOK
  <2>. QED  BY <1>2, <2>1, <2>2
<1>4. ASSUME Fail(a) \/ Finalize(a) PROVE Candidature(a)'
  <2>1. UNCHANGED candidate /\ pc'[a] \notin Proposing /\ ~Propose(a)
    BY <1>4 DEF Fail, Finalize, Propose, Goto, journal, TypeOK
  <2>2. row'[a] = "STAGED" => row[a] = "STAGED"
    BY <1>4 DEF Fail, Finalize, Final, Set, journal, TypeOK
  <2>3. dispatch'[a] \in {dispatch[a], "FORWARDED", "FAILED"}
    BY <1>4 DEF Fail, Finalize, SaveDispatch, TypeOK
  <2>. QED  BY <1>2, <2>1, <2>2, <2>3
<1>5. ASSUME Same(a)
      PROVE  /\ base'[a] <= Len(log') /\ base'[a] = base[a] /\ snapshot'[a] = snapshot[a]
             /\ Len(log') = Len(log)
             /\ Proposed(a)' <=> Proposed(a)
             /\ Commits(a)' <=> Commits(a)
             /\ InPlace(a)' <=> InPlace(a)
             /\ Drifted(a)' <=> Drifted(a)
             /\ candidate'[a] = candidate[a] => (GoodCandidate(a)' <=> GoodCandidate(a))
             /\ Away(a)' <=> Away(a)
  <2>1. base'[a] <= Len(log') /\ base'[a] = base[a] /\ snapshot'[a] = snapshot[a] /\ Len(log') = Len(log)
    BY <1>1, <1>5 DEF Candidature, Same
  <2>. QED  BY <1>1, <1>5, <2>1, SameStays
<1>6. ASSUME Propose(a) PROVE Candidature(a)'
  <2>1. /\ UNCHANGED <<log, base, policy, dispatch>>
        /\ pc'[a] \in {"proposed", "verified"} /\ row'[a] = "PROPOSAL_RECEIVED"
        /\ snapshot'[a] = Here
    BY <1>6 DEF Propose, Goto, Set, repository, record, bounds, TypeOK
  <2>2. Len(log) = base[a]
    BY <1>6 DEF Propose, PendingChanges
  <2>3. TreeAt(base[a])' = HeadTree
    BY <2>1, <2>2, HeadIsLast DEF TreeAt
  <2>4. outcome'[a] = "completed" =>
          /\ Outside \in work <=> Outside \in HeadTree
          /\ policy = "required" => work # HeadTree
    BY <1>6 DEF Propose, PendingChanges, TypeOK
  <2>5. Proposed(a)'
    BY <2>1, <2>2, <2>3, <2>4 DEF Proposed, Here
  <2>6. snapshot'[a].head = base'[a]
    BY <2>1, <2>2 DEF Here
  <2>7. base'[a] <= Len(log')
    BY <2>1 DEF Candidature
  <2>. QED  BY <2>1, <2>5, <2>6, <2>7 DEF Candidature
<1>7. ASSUME VerificationPasses(a) PROVE Candidature(a)'
  <2>1. /\ pc[a] = "proposed" /\ pc'[a] = "verified" /\ UNCHANGED <<candidate, dispatch, row>>
        /\ ~Propose(a)
    BY <1>7 DEF VerificationPasses, Propose, Goto, journal, record, TypeOK
  <2>. QED  BY <1>1, <1>5, <2>1 DEF Candidature, Live
<1>8. ASSUME VerificationFails(a) PROVE Candidature(a)'
  <2>1. /\ pc[a] = "proposed" /\ pc'[a] \in {"done", "failing"} /\ UNCHANGED <<candidate, row>>
        /\ dispatch'[a] \in {dispatch[a], "REWORK"} /\ ~Propose(a)
    BY <1>8 DEF VerificationFails, Propose, Goto, SaveDispatch, journal, TypeOK
  <2>2. snapshot[a].head = base[a]
    BY <2>1 DEF Candidature, Proposed
  <2>. QED  BY <1>1, <1>5, <2>1, <2>2 DEF Candidature, Live
<1>9. ASSUME Inspect(a) PROVE Candidature(a)'
  <2>1. /\ pc[a] = "verified" /\ pc'[a] \in {"inspected", "failing"} /\ UNCHANGED <<candidate, dispatch, row>>
        /\ pc'[a] = "inspected" => Unchanged(a)
        /\ ~Propose(a)
    BY <1>9 DEF Inspect, Propose, Goto, journal, record, TypeOK
  <2>2. Unchanged(a) => Drifted(a)
    BY DEF Unchanged, Here, Drifted
  <2>. QED  BY <1>1, <1>5, <2>1, <2>2 DEF Candidature, Live
<1>10. ASSUME PersistIntent(a) PROVE Candidature(a)'
  <2>1. /\ pc[a] = "inspected" /\ pc'[a] = "intent" /\ UNCHANGED dispatch
        /\ row'[a] = "COMMIT_INTENT_PERSISTED" /\ candidate'[a] = Added(HeadTree)
        /\ ~Propose(a)
    BY <1>10 DEF PersistIntent, Propose, Goto, Set, record, TypeOK
  <2>2. Commits(a) /\ Proposed(a)
    BY <2>1 DEF CommitsOnce, Committing, Candidature
  <2>3. Live(a) /\ Len(log) = base[a] =>
          candidate'[a] \in {snapshot[a].work, TreeAt(base[a])} \/ Away(a)
    BY <2>1, <2>2, IntentTree DEF Candidature
  <2>4. TreeAt(base[a])' = TreeAt(base[a]) /\ snapshot'[a] = snapshot[a]
    BY <1>1, <2>1 DEF TreeAt, Same
  <2>5. Live(a) /\ Len(log) = base[a] => GoodCandidate(a)' \/ Away(a)'
    BY <1>1, <1>5, <2>1, <2>3, <2>4 DEF GoodCandidate
  <2>. QED  BY <1>1, <1>5, <2>1, <2>2, <2>5 DEF Candidature, Live
<1>11. ASSUME Stage(a) PROVE Candidature(a)'
  <2>1. /\ pc[a] = "intent" /\ pc'[a] \in {"adding", "marking"} /\ UNCHANGED <<candidate, dispatch, row>>
        /\ pc'[a] = "adding" => Unchanged(a)
        /\ ~Propose(a)
    BY <1>11 DEF Stage, Propose, Goto, journal, record, TypeOK
  <2>2. Commits(a) /\ Proposed(a)
    BY <2>1 DEF CommitsOnce, Committing, Candidature
  <2>3. Unchanged(a) /\ Live(a) => GoodCandidate(a)
    BY <2>1, <2>2, UnchangedIsThere DEF Candidature
  <2>. QED  BY <1>1, <1>5, <2>1, <2>3 DEF Candidature, Live
<1>12. ASSUME Staged(a) PROVE Candidature(a)'
  <2>1. /\ pc[a] = "adding" /\ pc'[a] \in {"staged", "marking"} /\ UNCHANGED <<candidate, dispatch>>
        /\ ~Propose(a)
    BY <1>12 DEF Staged, Propose, Goto, record, TypeOK
  <2>. QED  BY <1>1, <1>5, <2>1 DEF Candidature, Live
<1>13. ASSUME Commit(a) PROVE Candidature(a)'
  <2>1. /\ pc[a] = "staged" /\ pc'[a] = "committing" /\ UNCHANGED <<candidate, dispatch, row>>
        /\ ~Propose(a)
    BY <1>13 DEF Commit, Propose, Goto, journal, record, TypeOK
  <2>. QED  BY <1>1, <1>5, <2>1 DEF Candidature, Live
<1>14. ASSUME PostCheck(a) PROVE Candidature(a)'
  <2>1. /\ pc[a] = "committing" /\ pc'[a] \in {"committed", "marking"} /\ UNCHANGED <<candidate, dispatch, row>>
        /\ pc'[a] = "committed" => Exact(a)
        /\ ~Propose(a)
    BY <1>14 DEF PostCheck, Propose, Goto, journal, record, TypeOK
  <2>2. Live(a) /\ Exact(a) => InPlace(a)
    BY <2>1, ExactIsInPlace DEF Candidature
  <2>. QED  BY <1>1, <1>5, <2>1, <2>2 DEF Candidature, Live
<1>15. ASSUME Complete(a) PROVE Candidature(a)'
  <2>1. /\ pc[a] \in {"committed", "checked"} /\ pc'[a] \in {"completed", "failing"}
        /\ UNCHANGED <<candidate, row>> /\ dispatch'[a] \in {dispatch[a], "COMPLETED"}
        /\ pc'[a] = "completed" => a \in fresh
        /\ pc'[a] = "failing" => dispatch'[a] = dispatch[a]
        /\ ~Propose(a)
    BY <1>15 DEF Complete, Applicable, Propose, Goto, SaveDispatch, journal, TypeOK
  <2>2. pc'[a] = "completed" => Live(a)
    BY <2>1 DEF Owned, Live, Going, Unstaged, Unintended
  <2>3. pc'[a] = "completed" /\ Commits(a) => InPlace(a)
    BY <2>1, <2>2 DEF Candidature, CommitsOnce
  <2>4. Live(a)' => Live(a)
    BY <2>1, <2>2 DEF Live
  <2>. QED  BY <1>1, <1>5, <2>1, <2>3, <2>4 DEF Candidature
<1>. QED
  BY <1>3, <1>4, <1>6, <1>7, <1>8, <1>9, <1>10, <1>11, <1>12, <1>13, <1>14, <1>15 DEF Execute
LEMMA PrepareCandidature ==
    ASSUME TypeOK, Unprepared, Settled, NEW a \in Attempt,
           \A b \in Attempt : Candidature(b), Prepare(a)
    PROVE  Candidature(a)'
<1>1. dispatch[a] = "none" /\ dispatch'[a] = "RUNNING" /\ pc'[a] = "working" /\ UNCHANGED <<log, row>>
  BY DEF Prepare, Goto, repository, journal, TypeOK
<1>2. row'[a] # "STAGED"
  BY <1>1 DEF Unprepared, Settled, Unstaged, Unintended
<1>3. base'[a] <= Len(log')
  <2>1. CASE a > 1 /\ dispatch[a - 1] = "REWORK"
    <3>1. a - 1 \in Attempt
      BY <2>1, BoundAssumption DEF Attempt
    <3>2. base'[a] = base[a - 1]
      BY <2>1 DEF Prepare, TypeOK
    <3>. QED  BY <1>1, <3>1, <3>2 DEF Candidature
  <2>2. CASE ~(a > 1 /\ dispatch[a - 1] = "REWORK")
    <3>1. base'[a] = Len(log)
      BY <2>2 DEF Prepare, BaseRevision, TypeOK
    <3>. QED  BY <1>1, <3>1, TreeFacts
  <2>. QED  BY <2>1, <2>2
<1>. QED  BY <1>1, <1>2, <1>3 DEF Candidature

-----------------------------------------------------------------------------
(* Recover comes to apply a result only from its inspection of HEAD.       *)
LEMMA RecoverMoves ==
    ASSUME TypeOK, Next, recover'.pc \in {"applying", "finalizing"}
    PROVE  /\ recover'.attempt = recover.attempt
           /\ recover.pc \notin {"applying", "finalizing"} =>
                RecoverInspect /\ Adoptable(recover.attempt) /\ Exact(recover.attempt)
<1>1. NoRecovery.pc = "idle"
  BY DEF NoRecovery
<1>2. ASSUME NEW a \in Attempt, Execute(a)
      PROVE  recover'.pc = recover.pc /\ recover'.attempt = recover.attempt
  <2>1. CASE WorkerFails(a) \/ Propose(a) \/ VerificationPasses(a) \/ VerificationFails(a)
             \/ Inspect(a) \/ Check(a) \/ PersistIntent(a) \/ Stage(a)
    BY <2>1 DEF WorkerFails, Propose, VerificationPasses, VerificationFails, Inspect, Check,
                PersistIntent, Stage, SaveDispatch, TypeOK
  <2>2. CASE Staged(a) \/ Commit(a) \/ GitFails(a) \/ PostCheck(a) \/ Complete(a) \/ Finalize(a)
             \/ Mark(a) \/ Fail(a)
    BY <2>2 DEF Staged, Commit, GitFails, PostCheck, Complete, Finalize, Mark, Fail, SaveDispatch, TypeOK
  <2>. QED  BY <1>2, <2>1, <2>2 DEF Execute
<1>3. ASSUME NEW a \in Attempt, Environment(a) \/ Prepare(a) \/ Cancel(a) \/ Crash(a)
      PROVE  recover'.pc = recover.pc /\ recover'.attempt = recover.attempt
  BY <1>3 DEF Environment, WorkerEdits, WorkerExits, AddTakesEffect, CommitTakesEffect, OrphanFails,
              Prepare, Cancel, Crash, TypeOK
<1>4. ASSUME NEW a \in Attempt, RecoverStart(a) PROVE FALSE
  BY <1>4 DEF RecoverStart, Classify
<1>5. ASSUME RecoverInspect
      PROVE  /\ recover'.attempt = recover.attempt
             /\ Adoptable(recover.attempt) /\ Exact(recover.attempt)
  BY <1>1, <1>5 DEF RecoverInspect, TypeOK
<1>6. ASSUME RecoverApply PROVE recover'.attempt = recover.attempt /\ recover.pc = "applying"
  BY <1>1, <1>6 DEF RecoverApply, TypeOK
<1>7. ASSUME RecoverFinalize \/ RecoverInterrupt \/ RecoverCrash PROVE FALSE
  BY <1>1, <1>7 DEF RecoverFinalize, RecoverInterrupt, RecoverCrash
<1>8. ASSUME Reconcile \/ Meddle PROVE recover' = recover
  BY <1>8 DEF Reconcile, Meddle
<1>. QED  BY <1>2, <1>3, <1>4, <1>5, <1>6, <1>7, <1>8 DEF Next, RecoverStep

(* A commit in place is not lost sight of: its attempt proposes no more.   *)
LEMMA StaysInPlace ==
    ASSUME Journal, Once, Next, LogGrows, NEW a \in Attempt, InPlace(a)
    PROVE  InPlace(a)'
<1>1. TypeOK /\ Unprepared /\ CommitsOnce(a)
  BY DEF Journal, Once
<1>2. pc[a] \notin Unstaged
  BY <1>1, InPlacePublished DEF CommitsOnce
<1>3. ~Propose(a) /\ ~Prepare(a)
  BY <1>1, <1>2 DEF Propose, Prepare, Unprepared, Unstaged, Unintended
<1>4. base'[a] = base[a] /\ snapshot'[a] = snapshot[a]
  <2>1. CASE Execute(a)
    BY <1>3, <2>1, ExecuteSame DEF Same
  <2>2. CASE ~Execute(a)
    BY <1>1, <1>3, <2>2, OthersArePassive DEF Passive
  <2>. QED  BY <2>1, <2>2
<1>. QED  BY <1>1, <1>4, InPlaceKeeps

LEMMA CandidatesStep == Journal /\ Once /\ Owned /\ Candidates /\ [Next]_vars => Candidates'
<1>. SUFFICES ASSUME Journal, Once, Owned, Candidates, [Next]_vars PROVE Candidates'
  OBVIOUS
<1>1. TypeOK /\ Unprepared /\ Settled /\ recover.attempt \in Attempt
  BY RecoverTypes DEF Journal
<1>2. CASE UNCHANGED vars
  <2>1. UNCHANGED <<policy, log, work, dispatch, base, row, outcome, snapshot, candidate, pc, recover>>
    BY <1>2 DEF vars, repository, record, journal, bounds
  <2>. QED
    BY <2>1 DEF Candidates, LogChanges, TreeAt, Candidature, Live, Proposed, Drifted, GoodCandidate,
                Away, Core, InPlace, Commits
<1>3. CASE Next
  <2>1. LogGrows
    BY <1>1, <1>3, LogStep
  <2>2. LogChanges'
    BY <1>1, <2>1, LogChangesKeeps DEF Candidates
  <2>3. ASSUME NEW a \in Attempt PROVE Candidature(a)'
    <3>1. CASE Execute(a)
      BY <1>1, <3>1, ExecuteCandidature DEF Candidates, Once
    <3>2. CASE Prepare(a)
      BY <1>1, <3>2, PrepareCandidature DEF Candidates
    <3>3. CASE ~Execute(a) /\ ~Prepare(a)
      <4>1. Passive(a)
        BY <1>1, <1>3, <3>3, OthersArePassive
      <4>2. Live(a) /\ pc[a] \in {"inspected", "intent"} => Drift
        BY <1>1, <1>3, DriftStep
      <4>3. Same(a) /\ candidate'[a] = candidate[a] /\ (pc'[a] = pc[a] \/ pc'[a] \notin Proposing)
        BY <4>1 DEF Passive, Same, Proposing
      <4>. QED  BY <1>1, <2>1, <4>1, <4>2, <4>3, CandidatureKeeps DEF Passive, Candidates
    <3>. QED  BY <3>1, <3>2, <3>3
  <2>4. ASSUME recover'.pc \in {"applying", "finalizing"} PROVE InPlace(recover.attempt)'
    <3>1. PICK a \in Attempt : a = recover.attempt
      BY <1>1
    <3>2. recover'.attempt = a
      BY <1>1, <1>3, <2>4, <3>1, RecoverMoves
    <3>3. InPlace(a)
      <4>1. CASE recover.pc \in {"applying", "finalizing"}
        BY <3>1, <4>1 DEF Candidates
      <4>2. CASE recover.pc \notin {"applying", "finalizing"}
        <5>1. Adoptable(a) /\ Exact(a)
          BY <1>1, <1>3, <2>4, <3>1, <4>2, RecoverMoves
        <5>2. GoodCandidate(a)
          BY <5>1 DEF Candidates, Candidature, Adoptable, Live
        <5>. QED  BY <1>1, <5>1, <5>2, ExactIsInPlace DEF Candidates
      <4>. QED  BY <4>1, <4>2
    <3>4. InPlace(a)'
      BY <1>3, <2>1, <3>3, StaysInPlace
    <3>. QED  BY <3>2, <3>4 DEF InPlace
  <2>. QED  BY <2>2, <2>3, <2>4 DEF Candidates
<1>. QED  BY <1>2, <1>3
-----------------------------------------------------------------------------
(* The inductive invariant of the refinement.                              *)
IInv == Journal /\ Once /\ Owned /\ Candidates

LEMMA InitIInv == Init => IInv
<1>. SUFFICES ASSUME Init PROVE IInv
  OBVIOUS
<1>1. TypeOK
  BY TypeInit
<1>2. Len(log) = 0 /\ children = {} /\ workers = {} /\ fresh = {} /\ recover.pc = "idle"
  BY DEF Init, NoRecovery
<1>3. \A a \in Attempt :
        /\ dispatch[a] = "none" /\ row[a] = "none" /\ pc[a] = "off" /\ base[a] = 0
        /\ ~Published(a) /\ ~OnBranch(a)
  BY DEF Init, Published, OnBranch
<1>4. Journal
  BY <1>1, <1>3
     DEF Journal, Unprepared, Journaled, Settled, Unstaged, Unintended, FinalRows
<1>5. Once
  BY <1>3 DEF Once, CommitsOnce, Committing
<1>6. Owned
  BY <1>2, <1>3 DEF Owned, Live
<1>7. Candidates
  BY <1>2, <1>3 DEF Candidates, LogChanges, Candidature, Live
<1>. QED  BY <1>4, <1>5, <1>6, <1>7 DEF IInv

LEMMA IInvStep == IInv /\ [Next]_vars => IInv'
BY JournalStep, OnceStep, OwnedStep, CandidatesStep DEF IInv

(* Every commit of the dispatcher is accounted for, attempt by attempt, at *)
(* every moment: the invariant the refinement stands on.                   *)
LEMMA IInvHolds == Spec => []IInv
<1>. QED  BY InitIInv, IInvStep, PTL DEF Spec

-----------------------------------------------------------------------------
VerdictOf(a) ==
    CASE dispatch[a] \in {"none", "RUNNING", "COMPLETED"} -> "open"
      [] dispatch[a] = "FORWARDED" -> IF Commits(a) THEN "accepted" ELSE "recorded"
      [] OTHER -> "rejected"

LEMMA VerdictIs == Verdict = [a \in Attempt |-> VerdictOf(a)]
BY DEF Verdict, VerdictOf

LEMMA VerdictFacts ==
    ASSUME NEW a \in Attempt
    PROVE  /\ dispatch[a] \in {"none", "RUNNING", "COMPLETED"} => VerdictOf(a) = "open"
           /\ dispatch[a] = "FORWARDED" /\ Commits(a) => VerdictOf(a) = "accepted"
           /\ dispatch[a] = "FORWARDED" /\ ~Commits(a) => VerdictOf(a) = "recorded"
           /\ dispatch[a] \in {"FAILED", "REWORK"} => VerdictOf(a) = "rejected"
           /\ TypeOK /\ dispatch[a] # "FORWARDED" => VerdictOf(a) \in {"open", "rejected"}
<1>1. dispatch[a] \in {"none", "RUNNING", "COMPLETED"} => VerdictOf(a) = "open"
  BY DEF VerdictOf
<1>2. dispatch[a] = "FORWARDED" => VerdictOf(a) = IF Commits(a) THEN "accepted" ELSE "recorded"
  BY DEF VerdictOf
<1>3. dispatch[a] \in {"FAILED", "REWORK"} => VerdictOf(a) = "rejected"
  BY DEF VerdictOf
<1>4. TypeOK /\ dispatch[a] # "FORWARDED" =>
        dispatch[a] \in {"none", "RUNNING", "COMPLETED", "FAILED", "REWORK"}
  BY DEF TypeOK, DispatchStates
<1>. QED  BY <1>1, <1>2, <1>3, <1>4

LEMMA VerdictStays ==
    ASSUME \A b \in Attempt : VerdictOf(b)' = VerdictOf(b)
    PROVE  Verdict' = Verdict
<1>1. Verdict' = [b \in Attempt |-> VerdictOf(b)']
  BY DEF Verdict, VerdictOf
<1>2. Verdict = [b \in Attempt |-> VerdictOf(b)]
  BY VerdictIs
<1>. QED  BY <1>1, <1>2

LEMMA VerdictMoves ==
    ASSUME NEW a \in Attempt, NEW verdict, VerdictOf(a)' = verdict,
           \A b \in Attempt \ {a} : VerdictOf(b)' = VerdictOf(b)
    PROVE  Verdict' = [Verdict EXCEPT ![a] = verdict]
<1>1. Verdict' = [b \in Attempt |-> VerdictOf(b)']
  BY DEF Verdict, VerdictOf
<1>2. Verdict = [b \in Attempt |-> VerdictOf(b)]
  BY VerdictIs
<1>. QED  BY <1>1, <1>2

LEMMA VerdictSameOf ==
    ASSUME NEW b \in Attempt, dispatch'[b] = dispatch[b], outcome'[b] = outcome[b], policy' = policy
    PROVE  VerdictOf(b)' = VerdictOf(b)
BY DEF VerdictOf, Commits

(* A step that decides on one attempt, or on none.                         *)
LEMMA DecideStep ==
    ASSUME IInv, NEW a \in Attempt, UNCHANGED <<log, base, snapshot, outcome, policy>>,
           \A b \in Attempt \ {a} : dispatch'[b] = dispatch[b],
           \/ dispatch'[a] = dispatch[a]
           \/ /\ dispatch[a] \in {"none", "RUNNING", "COMPLETED"}
              /\ \/ dispatch'[a] \in {"RUNNING", "COMPLETED", "FAILED", "REWORK"}
                 \/ dispatch'[a] = "FORWARDED" /\ Commits(a) /\ InPlace(a)
                 \/ dispatch'[a] = "FORWARDED" /\ ~Commits(a) /\ ~OnBranch(a)
    PROVE  [Contract!Next]_<<log, base, Proposal, Verdict>>
<1>1. \A b \in Attempt \ {a} : VerdictOf(b)' = VerdictOf(b)
  BY VerdictSameOf
<1>2. CASE dispatch'[a] = dispatch[a]
  <2>1. VerdictOf(a)' = VerdictOf(a)
    BY <1>2, VerdictSameOf
  <2>2. Verdict' = Verdict
    BY <1>1, <2>1, VerdictStays
  <2>. QED  BY <2>2 DEF Proposal
<1>3. ASSUME dispatch[a] \in {"none", "RUNNING", "COMPLETED"} PROVE Verdict[a] = "open"
  BY <1>3, VerdictFacts, VerdictIs
<1>4. Commits(a)' <=> Commits(a)
  BY DEF Commits
<1>5. CASE dispatch[a] \in {"none", "RUNNING", "COMPLETED"} /\ dispatch'[a] \in {"RUNNING", "COMPLETED"}
  <2>1. VerdictOf(a)' = "open" /\ VerdictOf(a) = "open"
    BY <1>5 DEF VerdictOf
  <2>2. Verdict' = Verdict
    BY <1>1, <2>1, VerdictStays
  <2>. QED  BY <2>2 DEF Proposal
<1>6. CASE dispatch[a] \in {"none", "RUNNING", "COMPLETED"} /\ dispatch'[a] \in {"FAILED", "REWORK"}
  <2>1. VerdictOf(a)' = "rejected"
    BY <1>6 DEF VerdictOf
  <2>2. Verdict' = [Verdict EXCEPT ![a] = "rejected"]
    BY <1>1, <2>1, VerdictMoves
  <2>3. Contract!Decide(a)
    BY <1>3, <1>6, <2>2 DEF Contract!Decide, Proposal
  <2>. QED  BY <2>3 DEF Contract!Next
<1>7. CASE dispatch[a] \in {"none", "RUNNING", "COMPLETED"} /\ dispatch'[a] = "FORWARDED"
           /\ Commits(a) /\ InPlace(a)
  <2>1. VerdictOf(a)' = "accepted"
    BY <1>4, <1>7 DEF VerdictOf
  <2>2. Verdict' = [Verdict EXCEPT ![a] = "accepted"]
    BY <1>1, <2>1, VerdictMoves
  <2>3. Contract!Published(a)
    BY <1>7 DEF Contract!Published, InPlace, Proposal
  <2>4. Contract!Decide(a)
    BY <1>3, <1>7, <2>2, <2>3 DEF Contract!Decide, Proposal
  <2>. QED  BY <2>4 DEF Contract!Next
<1>8. CASE dispatch[a] \in {"none", "RUNNING", "COMPLETED"} /\ dispatch'[a] = "FORWARDED"
           /\ ~Commits(a) /\ ~OnBranch(a)
  <2>1. VerdictOf(a)' = "recorded"
    BY <1>4, <1>8 DEF VerdictOf
  <2>2. Verdict' = [Verdict EXCEPT ![a] = "recorded"]
    BY <1>1, <2>1, VerdictMoves
  <2>3. ~Contract!Committed(a)
    BY <1>8 DEF Contract!Committed, OnBranch
  <2>4. Contract!Decide(a)
    BY <1>3, <1>8, <2>2, <2>3 DEF Contract!Decide, Proposal
  <2>. QED  BY <2>4 DEF Contract!Next
<1>. QED  BY <1>2, <1>5, <1>6, <1>7, <1>8

LEMMA CommitStep ==
    ASSUME IInv, NEW entry \in CommitRecord, log' = Append(log, entry),
           \A a \in Attempt : entry.by = a => ~OnBranch(a),
           UNCHANGED <<base, snapshot, dispatch, outcome, policy>>
    PROVE  [Contract!Next]_<<log, base, Proposal, Verdict>>
<1>1. log \in Seq(CommitRecord) /\ log' \in Seq(CommitRecord) /\ Len(log) \in Nat
  BY DEF IInv, Journal, TypeOK
<1>2. Len(log') = Len(log) + 1 /\ log'[Len(log')] = entry
  BY <1>1
<1>3. SubSeq(log', 1, Len(log)) = log
  <2>1. \A i \in 1..Len(log) : log'[i] = log[i]
    BY <1>1
  <2>2. /\ SubSeq(log', 1, Len(log)) \in Seq(CommitRecord)
        /\ Len(SubSeq(log', 1, Len(log))) = Len(log)
        /\ \A i \in 1..Len(log) : SubSeq(log', 1, Len(log))[i] = log'[i]
    BY <1>1, <1>2
  <2>. QED  BY <1>1, <2>1, <2>2, SeqEqual
<1>4. Verdict' = Verdict
  <2>1. \A b \in Attempt : VerdictOf(b)' = VerdictOf(b)
    BY VerdictSameOf
  <2>. QED  BY <2>1, VerdictStays
<1>5. \A a \in Attempt : log'[Len(log')].by = a => ~Contract!Committed(a)
  BY <1>2 DEF Contract!Committed, OnBranch
<1>6. Contract!Commit
  BY <1>2, <1>3, <1>4, <1>5 DEF Contract!Commit, Proposal
<1>. QED  BY <1>6 DEF Contract!Next

LEMMA PrepareStep ==
    ASSUME IInv, NEW a \in Attempt, Prepare(a)
    PROVE  [Contract!Next]_<<log, base, Proposal, Verdict>>
<1>1. TypeOK /\ Unprepared /\ Journaled /\ \A b \in Attempt : Candidature(b)
  BY DEF IInv, Journal, Candidates
<1>2. /\ dispatch[a] = "none" /\ dispatch'[a] = "RUNNING"
      /\ \A b \in Attempt \ {a} : dispatch'[b] = dispatch[b]
      /\ UNCHANGED <<log, snapshot, outcome, policy>>
  BY <1>1 DEF Prepare, TypeOK, repository, journal, bounds
<1>3. Verdict' = Verdict
  <2>1. VerdictOf(a)' = "open" /\ VerdictOf(a) = "open"
    BY <1>2 DEF VerdictOf
  <2>2. \A b \in Attempt \ {a} : VerdictOf(b)' = VerdictOf(b)
    BY <1>2, VerdictSameOf
  <2>. QED  BY <2>1, <2>2, VerdictStays
<1>4. base' = [base EXCEPT ![a] = Len(log)]
  <2>1. CASE a > 1 /\ dispatch[a - 1] = "REWORK"
    <3>1. a - 1 \in Attempt
      BY <2>1, BoundAssumption DEF Attempt
    <3>2. Here = snapshot[a - 1] /\ base' = [base EXCEPT ![a] = base[a - 1]]
      BY <2>1 DEF Prepare
    <3>3. Len(log) = snapshot[a - 1].head
      BY <3>2 DEF Here
    <3>4. snapshot[a - 1].head = base[a - 1]
      BY <1>1, <2>1, <3>1 DEF Candidature
    <3>. QED  BY <3>2, <3>3, <3>4
  <2>2. CASE ~(a > 1 /\ dispatch[a - 1] = "REWORK")
    BY <2>2 DEF Prepare, BaseRevision
  <2>. QED  BY <2>1, <2>2
<1>5. ~Contract!Committed(a)
  <2>1. ~Published(a)
    BY <1>1, <1>2 DEF Unprepared, Journaled, Unintended
  <2>. QED  BY <2>1 DEF Published, Contract!Committed
<1>6. Verdict[a] = "open"
  BY <1>2, VerdictIs, VerdictFacts
<1>7. Contract!Prepare(a)
  BY <1>2, <1>3, <1>4, <1>5, <1>6 DEF Contract!Prepare, Proposal
<1>. QED  BY <1>7 DEF Contract!Next

LEMMA ProposeStep ==
    ASSUME IInv, NEW a \in Attempt, Propose(a)
    PROVE  [Contract!Next]_<<log, base, Proposal, Verdict>>
<1>1. TypeOK /\ Journaled /\ Settled
  BY DEF IInv, Journal
<1>2. /\ pc[a] = "working" /\ UNCHANGED <<log, base, dispatch, policy>>
      /\ \A b \in Attempt \ {a} : outcome'[b] = outcome[b] /\ snapshot'[b] = snapshot[b]
  BY <1>1 DEF Propose, TypeOK, repository, record, bounds
<1>3. dispatch[a] # "FORWARDED"
  BY <1>1, <1>2 DEF Settled, Unstaged, Unintended
<1>4. Verdict' = Verdict
  <2>1. VerdictOf(a)' = VerdictOf(a)
    BY <1>2, <1>3 DEF VerdictOf
  <2>2. \A b \in Attempt \ {a} : VerdictOf(b)' = VerdictOf(b)
    BY <1>2, VerdictSameOf
  <2>. QED  BY <2>1, <2>2, VerdictStays
<1>5. ~Contract!Committed(a)
  <2>1. ~Published(a)
    BY <1>1, <1>2 DEF Journaled, Unintended
  <2>. QED  BY <2>1 DEF Published, Contract!Committed
<1>6. Verdict[a] \in {"open", "rejected"}
  BY <1>1, <1>3, VerdictIs, VerdictFacts
<1>7. Contract!Propose(a)
  BY <1>2, <1>4, <1>5, <1>6 DEF Contract!Propose, Proposal
<1>. QED  BY <1>7 DEF Contract!Next

LEMMA ExecuteStep ==
    ASSUME IInv, NEW a \in Attempt, Execute(a)
    PROVE  [Contract!Next]_<<log, base, Proposal, Verdict>>
<1>1. TypeOK /\ Owned /\ CommitsOnce(a) /\ Candidature(a)
  BY DEF IInv, Journal, Once, Candidates
<1>2. CASE Propose(a)
  BY <1>2, ProposeStep
<1>3. CASE WorkerFails(a) \/ VerificationPasses(a) \/ Inspect(a) \/ Check(a) \/ PersistIntent(a)
           \/ Stage(a) \/ Staged(a) \/ Commit(a) \/ GitFails(a) \/ PostCheck(a) \/ Mark(a)
  <2>1. UNCHANGED <<log, base, snapshot, outcome, policy, dispatch>>
    BY <1>3 DEF WorkerFails, VerificationPasses, Inspect, Check, PersistIntent, Stage, Staged,
                Commit, GitFails, PostCheck, Mark, repository, journal, record, bounds
  <2>. QED  BY <2>1, DecideStep
<1>4. CASE VerificationFails(a) \/ Complete(a) \/ Finalize(a) \/ Fail(a)
  <2>1. UNCHANGED <<log, base, snapshot, outcome, policy>>
    BY <1>4 DEF VerificationFails, Complete, Finalize, Fail, repository, journal, bounds
  <2>2. \A b \in Attempt \ {a} : dispatch'[b] = dispatch[b]
    BY <1>1, <1>4 DEF VerificationFails, Complete, Finalize, Fail, SaveDispatch, TypeOK
  <2>3. CASE dispatch'[a] = dispatch[a]
    BY <2>1, <2>2, <2>3, DecideStep
  <2>4. CASE dispatch'[a] # dispatch[a] /\ (VerificationFails(a) \/ Complete(a))
    <3>1. a \in fresh /\ pc[a] \in {"proposed", "committed", "checked"}
      BY <2>4 DEF VerificationFails, Complete, Applicable
    <3>2. dispatch[a] = "RUNNING" /\ dispatch'[a] \in {"REWORK", "COMPLETED"}
      BY <1>1, <2>4, <3>1
         DEF Owned, Going, Unstaged, Unintended, VerificationFails, Complete, SaveDispatch, TypeOK
    <3>. QED  BY <2>1, <2>2, <3>2, DecideStep
  <2>5. CASE dispatch'[a] # dispatch[a] /\ Fail(a)
    <3>1. dispatch[a] = "RUNNING" /\ dispatch'[a] = "FAILED"
      BY <1>1, <2>5 DEF Fail, SaveDispatch, TypeOK
    <3>. QED  BY <2>1, <2>2, <3>1, DecideStep
  <2>6. CASE dispatch'[a] # dispatch[a] /\ Finalize(a)
    <3>1. a \in fresh /\ pc[a] = "completed" /\ dispatch'[a] = "FORWARDED"
      BY <1>1, <2>6 DEF Finalize, SaveDispatch, TypeOK
    <3>2. dispatch[a] = "COMPLETED"
      BY <1>1, <3>1 DEF Owned
    <3>3. Commits(a) => InPlace(a)
      BY <1>1, <3>1 DEF Candidature
    <3>4. ~Commits(a) => ~OnBranch(a)
      BY <1>1, <3>1 DEF CommitsOnce, Published, OnBranch
    <3>. QED  BY <2>1, <2>2, <3>1, <3>2, <3>3, <3>4, DecideStep
  <2>. QED  BY <1>4, <2>3, <2>4, <2>5, <2>6
<1>. QED  BY <1>2, <1>3, <1>4 DEF Execute

LEMMA EnvironmentStep ==
    ASSUME IInv, NEW a \in Attempt, Environment(a) \/ Cancel(a) \/ Crash(a) \/ RecoverStart(a)
    PROVE  [Contract!Next]_<<log, base, Proposal, Verdict>>
<1>1. CASE WorkerEdits(a) \/ WorkerExits(a) \/ AddTakesEffect(a) \/ OrphanFails(a)
           \/ Cancel(a) \/ Crash(a) \/ RecoverStart(a)
  <2>1. UNCHANGED <<log, base, snapshot, outcome, policy, dispatch>>
    BY <1>1 DEF WorkerEdits, WorkerExits, AddTakesEffect, OrphanFails, Cancel, Crash, RecoverStart,
                repository, journal, record, bounds
  <2>. QED  BY <2>1, DecideStep
<1>2. CASE CommitTakesEffect(a)
  <2>1. [by |-> a, tree |-> index] \in CommitRecord
    BY DEF CommitRecord, IInv, Journal, TypeOK
  <2>2. ~OnBranch(a)
    BY <1>2 DEF IInv, Once, CommitsOnce, CommitTakesEffect
  <2>3. /\ log' = Append(log, [by |-> a, tree |-> index])
        /\ UNCHANGED <<base, snapshot, dispatch, outcome, policy>>
    BY <1>2 DEF CommitTakesEffect, journal, record, bounds
  <2>4. \A b \in Attempt : [by |-> a, tree |-> index].by = b => ~OnBranch(b)
    BY <2>2
  <2>. QED  BY <2>1, <2>3, <2>4, CommitStep
<1>. QED  BY <1>1, <1>2 DEF Environment

LEMMA RecoveryStep ==
    ASSUME IInv, RecoverStep \/ RecoverCrash \/ Reconcile \/ Meddle
    PROVE  [Contract!Next]_<<log, base, Proposal, Verdict>>
<1>1. TypeOK /\ Owned /\ Candidates /\ Once
  BY DEF IInv, Journal
<1>2. PICK a \in Attempt : a = recover.attempt
  BY <1>1, RecoverTypes
<1>3. CASE RecoverInspect \/ RecoverCrash \/ Reconcile
  <2>1. UNCHANGED <<log, base, snapshot, outcome, policy, dispatch>>
    BY <1>3 DEF RecoverInspect, RecoverCrash, Reconcile, repository, journal, record, bounds
  <2>. QED  BY <1>2, <2>1, DecideStep
<1>4. CASE RecoverApply \/ RecoverFinalize \/ RecoverInterrupt
  <2>1. UNCHANGED <<log, base, snapshot, outcome, policy>>
    BY <1>4 DEF RecoverApply, RecoverFinalize, RecoverInterrupt, repository, journal, bounds
  <2>2. \A b \in Attempt \ {a} : dispatch'[b] = dispatch[b]
    BY <1>1, <1>2, <1>4 DEF RecoverApply, RecoverFinalize, RecoverInterrupt, TypeOK
  <2>3. CASE dispatch'[a] = dispatch[a]
    BY <2>1, <2>2, <2>3, DecideStep
  <2>4. CASE dispatch'[a] # dispatch[a] /\ (RecoverApply \/ RecoverInterrupt)
    <3>1. dispatch[a] = "RUNNING" /\ dispatch'[a] \in {"COMPLETED", "FAILED"}
      BY <1>1, <1>2, <2>4 DEF RecoverApply, RecoverInterrupt, TypeOK
    <3>. QED  BY <2>1, <2>2, <3>1, DecideStep
  <2>5. CASE dispatch'[a] # dispatch[a] /\ RecoverFinalize
    <3>1. /\ recover.pc = "finalizing" /\ recover.known /\ row[a] = "STAGED"
          /\ dispatch'[a] = "FORWARDED"
      BY <1>1, <1>2, <2>5 DEF RecoverFinalize, TypeOK
    <3>2. dispatch[a] = "COMPLETED"
      BY <1>1, <1>2, <3>1 DEF Owned
    <3>3. Commits(a)
      BY <1>1, <3>1 DEF Once, CommitsOnce
    <3>4. InPlace(a)
      BY <1>1, <1>2, <3>1 DEF Candidates
    <3>. QED  BY <2>1, <2>2, <3>1, <3>2, <3>3, <3>4, DecideStep
  <2>. QED  BY <1>4, <2>3, <2>4, <2>5
<1>5. CASE Meddle
  <2>1. UNCHANGED <<base, snapshot, outcome, policy, dispatch>>
    BY <1>5 DEF Meddle, journal, record
  <2>2. CASE log' = log
    BY <1>2, <2>1, <2>2, DecideStep
  <2>3. CASE log' = Append(log, [by |-> Operator, tree |-> work])
    <3>1. [by |-> Operator, tree |-> work] \in CommitRecord
      BY <1>1 DEF CommitRecord, TypeOK
    <3>2. \A b \in Attempt : [by |-> Operator, tree |-> work].by = b => ~OnBranch(b)
      BY AttemptFacts
    <3>. QED  BY <2>1, <2>3, <3>1, <3>2, CommitStep
  <2>. QED  BY <1>5, <2>2, <2>3 DEF Meddle
<1>. QED  BY <1>3, <1>4, <1>5 DEF RecoverStep

LEMMA ContractStep ==
    ASSUME IInv, [Next]_vars
    PROVE  [Contract!Next]_<<log, base, Proposal, Verdict>>
<1>1. CASE UNCHANGED vars
  <2>1. UNCHANGED <<log, base, snapshot, dispatch, outcome, policy>>
    BY <1>1 DEF vars, repository, journal, record, bounds
  <2>2. \A b \in Attempt : VerdictOf(b)' = VerdictOf(b)
    BY <2>1, VerdictSameOf
  <2>. QED  BY <2>1, <2>2, VerdictStays DEF Proposal
<1>2. CASE Next
  BY <1>2, PrepareStep, ExecuteStep, EnvironmentStep, RecoveryStep DEF Next
<1>. QED  BY <1>1, <1>2

LEMMA ContractInit == Init => Contract!Init
<1>. SUFFICES ASSUME Init PROVE Contract!Init
  OBVIOUS
<1>1. \A a \in Attempt : VerdictOf(a) = "open"
  BY VerdictFacts DEF Init
<1>2. Verdict = [a \in Attempt |-> "open"]
  BY <1>1, VerdictIs
<1>. QED  BY <1>2 DEF Init, Contract!Init

(* The structured Git capability implements its contract, for any number   *)
(* of attempts, crashes and meddlers: an attempt commits at most once, the *)
(* verdict on it is final, and work is accepted only when the commit right *)
(* after its base is the attempt's own and holds exactly what it proposed. *)
THEOREM ImplementsContract == Spec => Implements
<1>1. Init => Contract!Init
  BY ContractInit
<1>2. IInv /\ [Next]_vars =>
        [Contract!Next]_<<log, base, Proposal, Verdict>>
  BY ContractStep
<1>. QED  BY <1>1, <1>2, IInvHolds, PTL DEF Spec, Implements, Contract!Spec
=============================================================================
