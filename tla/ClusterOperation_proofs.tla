----------------------- MODULE ClusterOperation_proofs -----------------------
(***************************************************************************)
(* Safety of a cluster operation for every manifest and any number of      *)
(* processes, reviews and crashes.                                         *)
(*                                                                         *)
(* The inductive invariant IInv has four layers.  Typed: the types, and    *)
(* that what is recorded may be recorded.  Control: the generation of the  *)
(* row and the one way into APPROVED leave at most one process that runs   *)
(* the commands, and what that process remembers is the row, unless        *)
(* another visit disposed of it.  Releases: at each place of the runner it *)
(* is known of every release which commands were launched for it, and a    *)
(* status that is a verdict is true of the releases.  Ports: the same of   *)
(* the port-forward children and their probes.  Each layer uses the ones   *)
(* before it and is kept by every step on its own.                         *)
(***************************************************************************)
EXTENDS ClusterOperation, TLAPS

(* The places of a process before the commands and after them.             *)
VisitPc ==
    {"idle", "create", "validate", "capture", "attach_snapshot", "attach_approval",
     "safe_failure", "accept", "block"}

(* The places of a process that runs the commands.                         *)
RunPc == PcStates \ VisitPc

(* The row has not been approved.                                          *)
Unapproved == {"ABSENT", "DISCOVERED", "STATIC_VALIDATED", "SNAPSHOT_CAPTURED"}

(* What a process remembers was the row at its generation.                 *)
Remembers(seen) ==
    /\ seen.generation <= journal.generation
    /\ seen.generation = journal.generation => seen = Seen(journal)
    /\ seen.status = "SUCCEEDED" => journal.status = "SUCCEEDED"

(* The statuses the runner's record may have at each place.                *)
RecordAt(label) ==
    CASE label \in {"dry_run", "dry_run_evidence", "dry_run_failed", "dry_run_passed"} -> {"APPROVED"}
      [] label = "start" -> {"SERVER_DRY_RUN_PASSED"}
      [] label \in {"mutate", "upgrading", "mutation_evidence", "mutated"} -> {"MUTATION_STARTED"}
      [] label = "command_lost" -> {"MUTATION_STARTED", "PROBING"}
      [] label = "probing" -> {"MUTATED"}
      [] label \in {"probe", "probe_evidence"} -> {"PROBING"}
      [] label = "succeed" -> {"PROBING", "TLS_DC8_PROBING"}
      [] label = "rollback_start" ->
            {"MUTATION_STARTED", "PROBING", "PORT_FORWARD_STARTED", "TLS_DC8_PROBING"}
      [] label \in {"rollback", "undoing", "rollback_evidence", "rollback_end"} -> {"ROLLBACK_STARTED"}
      [] label = "forward_intent" ->
            {"APPROVED", "SERVER_DRY_RUN_PASSED", "PROBING", "TLS_DC8_PROBING"}
      [] label \in {"spawn", "forward_started"} -> {"PORT_FORWARD_INTENT"}
      [] label \in {"wait_ready", "tls_probing"} -> {"PORT_FORWARD_STARTED"}
      [] label \in {"tls_probe", "tls_evidence"} -> {"TLS_DC8_PROBING"}
      [] label \in {"close", "forward_stopped", "forward_ambiguous", "forward_failed"} ->
            {"PORT_FORWARD_STARTED", "TLS_DC8_PROBING"}
      [] label = "reconciling" -> AmbiguousStates
      [] label = "validate" -> {"DISCOVERED"}
      [] OTHER -> StatusStates \cup {"ABSENT"}

(* The statuses the record of a visit may have.                            *)
HeldAt(label) ==
    CASE label \in {"capture", "attach_snapshot"} -> {"STATIC_VALIDATED"}
      [] label = "attach_approval" -> {"SNAPSHOT_CAPTURED"}
      [] OTHER -> StatusStates \cup {"ABSENT"}

(* The row the runner does not hold is one another visit disposed of.      *)
Disposed(p) ==
    journal.status =
        IF rec[p].status \in AmbiguousStates THEN "RECONCILIATION_REQUIRED" ELSE "FAILED"

Holding(p) ==
    /\ Remembers(rec[p]) /\ Remembers(held[p])
    /\ rec[p].status \in RecordAt(pc[p]) /\ held[p].status \in HeldAt(pc[p])
    /\ pc[p] \in RunPc => journal.status \notin Unapproved
    /\ pc[p] \in RunPc \ {"launch", "result", "reconcile"} => Current(rec[p]) \/ Disposed(p)
    /\ pc[p] = "reconcile" => journal.status \in AmbiguousStates \cup {"RECONCILIATION_REQUIRED"}
    /\ pc[p] = "accept" => journal.status = "SUCCEEDED"
    /\ pc[p] \in {"close", "forward_stopped"} /\ outcome[p] = "rejected" =>
          rec[p].status = "TLS_DC8_PROBING"

Control ==
    /\ \A p \in Process : Holding(p)
    /\ \A p, q \in Process : pc[p] \in RunPc /\ pc[q] \in RunPc => p = q
    /\ journal.status = "ABSENT" <=> journal.generation = 0
    /\ AcceptedSucceeded
-----------------------------------------------------------------------------
Fresh(k) == upgrade[k] = "never" /\ undo[k] = "never" /\ release[k] = "before"
Upgraded(k) == upgrade[k] = "ended" /\ undo[k] = "never"
Done(k) == Upgraded(k) /\ release[k] = "after" /\ Recorded("mutation", k)
Quiet(k) == upgrade[k] # "running" /\ undo[k] # "running"
Probed(k) == [command |-> <<"readiness_probe", k>>, status |-> "succeeded"] \in journal.evidence

(* Undone, or the rollback is known to have failed.                        *)
Undone(p, k) == Quiet(k) /\ (undoFailed[p] \/ release[k] = "before")

BeforePc == {"launch", "dry_run", "dry_run_evidence", "dry_run_failed", "dry_run_passed", "start"}
UpgradePc == {"mutate", "upgrading", "mutation_evidence"}
ForwardPc ==
    {"forward_intent", "spawn", "forward_started", "wait_ready", "tls_probing", "tls_probe",
     "tls_evidence", "close", "forward_stopped", "forward_ambiguous"}
UpgradedPc == ForwardPc \cup {"mutated", "probing", "probe", "probe_evidence", "succeed"}
UndoPc == {"rollback", "undoing", "rollback_evidence"}

(* What the place of the runner says of the releases.                      *)
ReleasesAt(p) ==
    /\ pc[p] \in BeforePc => \A k \in Mutation : Fresh(k)
    /\ pc[p] \in {"dry_run_passed", "start", "mutated", "probing"} => at[p] = 1
    /\ pc[p] \in {"start", "mutated", "probing"} => Mutation # {}
    /\ pc[p] \in UpgradePc =>
          /\ at[p] \in Mutation
          /\ \A k \in Mutation : (k < at[p] => Done(k)) /\ (k > at[p] => Fresh(k))
    /\ pc[p] = "mutate" => Fresh(at[p])
    /\ pc[p] = "upgrading" => upgrade[at[p]] = "running" /\ undo[at[p]] = "never"
    /\ pc[p] = "mutation_evidence" =>
          Upgraded(at[p]) /\ (outcome[p] # "failed" => release[at[p]] = "after")
    /\ pc[p] \in UpgradedPc => \A k \in Mutation : Done(k)
    /\ pc[p] \in {"probe", "probe_evidence"} =>
          at[p] \in Mutation /\ \A k \in Mutation : k < at[p] => Probed(k)
    /\ pc[p] \in ForwardPc \cup {"succeed"} => \A k \in Mutation : Probed(k)
    /\ pc[p] = "rollback_start" =>
          /\ at[p] \in Mutation
          /\ \A k \in Mutation : (k <= at[p] => Upgraded(k)) /\ (k > at[p] => Fresh(k))
    /\ pc[p] \in UndoPc =>
          /\ at[p] \in Mutation
          /\ \A k \in Mutation : (k < at[p] => Upgraded(k)) /\ (k > at[p] => Undone(p, k))
    /\ pc[p] = "rollback" => Upgraded(at[p])
    /\ pc[p] = "undoing" => upgrade[at[p]] = "ended"
    /\ pc[p] = "rollback_evidence" => Undone(p, at[p])
    /\ pc[p] = "rollback_end" => \A k \in Mutation : Undone(p, k)
    /\ pc[p] = "forward_failed" => Mutation = {}

(* What the status says of the releases, whoever wrote it.                 *)
Verdict ==
    /\ journal.status \in EarlyStates \cup {"ABSENT"} => \A k \in Mutation : Fresh(k)
    /\ journal.status \in {"FAILED", "ROLLED_BACK"} =>
          \A k \in Mutation : Quiet(k) /\ release[k] = "before"
    /\ journal.status = "SUCCEEDED" =>
          \A k \in Mutation : Quiet(k) /\ release[k] = "after" /\ Probed(k)

Releases ==
    /\ \A p \in Process : ReleasesAt(p)
    /\ JournalAccounts
    /\ Verdict
-----------------------------------------------------------------------------
(* What the place of the runner says of the port forwards.                 *)
ForwardsAt(p) ==
    /\ pc[p] \in ForwardPc =>
          at[p] \in Forward /\ \A f \in Forward : f < at[p] => journal.probed[f] = "rejected"
    /\ pc[p] \in {"spawn", "forward_started"} => journal.forwards[at[p]] = "INTENT_PERSISTED"
    /\ pc[p] \in ForwardPc \ {"forward_intent", "spawn", "forward_started"} =>
          journal.forwards[at[p]] = "STARTED"
    /\ pc[p] = "forward_stopped" => child[at[p]] # "alive"
    /\ pc[p] \in {"close", "forward_stopped"} /\ outcome[p] = "rejected" =>
          journal.probed[at[p]] = "rejected"
    /\ pc[p] = "succeed" => \A f \in Forward : journal.probed[f] = "rejected"

Ports ==
    /\ \A p \in Process : ForwardsAt(p)
    /\ \A f \in Forward :
          child[f] = "alive" =>
             /\ journal.forwards[f] \in {"INTENT_PERSISTED", "STARTED", "CLEANUP_AMBIGUOUS"}
             /\ journal.status # "ABSENT"
    /\ journal.status \in ClosedStates => \A f \in Forward : journal.forwards[f] \in {"none", "STOPPED"}
    /\ journal.status = "SUCCEEDED" => \A f \in Forward : journal.probed[f] = "rejected"
-----------------------------------------------------------------------------
EvidencePc == {"dry_run_evidence", "mutation_evidence", "probe_evidence", "rollback_evidence"}

(* A process that records an outcome has one that may be recorded.         *)
Recordable ==
    \A p \in Process :
        /\ pc[p] \in EvidencePc => outcome[p] \in {"succeeded", "failed"}
        /\ pc[p] = "tls_evidence" => outcome[p] \in {"rejected", "accepted", "ambiguous"}

Typed == TypeOK /\ Recordable

CalmPc == PcStates \ (EvidencePc \cup {"tls_evidence"})

LEMMA ManifestFacts ==
    ASSUME manifest \in Manifest
    PROVE  /\ manifest.dry_runs \in Nat /\ manifest.mutations \in Nat /\ manifest.forwards \in Nat
           /\ manifest.dry_runs + manifest.mutations + manifest.forwards > 0
BY ManifestAssumption

LEMMA TypedInit == Init => Typed
<1>. SUFFICES ASSUME Init PROVE Typed
  OBVIOUS
<1>1. manifest \in Manifest
  BY DEF Init
<1>2. journal \in JournalRow
  BY DEF Init, Absent, Row, JournalRow, OwnershipStates, ProbeOutcomes
<1>3. held \in [Process -> SeenRow] /\ rec \in [Process -> SeenRow]
  BY DEF Init, Seen, SeenRow, Absent, Row
<1>4. pc \in [Process -> PcStates] /\ outcome \in [Process -> Outcomes]
  BY DEF Init, PcStates, Outcomes
<1>5. /\ review \in [number : 1..MaxReviews, state : {"running", "accepted", "blocked"}]
      /\ mine \in [Process -> 0..MaxReviews] /\ crashes \in 0..MaxCrashes
  BY BoundAssumption DEF Init
<1>6. /\ upgrade \in [Mutation -> {"never", "running", "ended"}]
      /\ undo \in [Mutation -> {"never", "running", "ended"}]
      /\ release \in [Mutation -> {"before", "after"}]
      /\ child \in [Forward -> {"none", "alive", "closed"}]
  BY DEF Init
<1>7. Recordable
  BY DEF Init, Recordable, EvidencePc
<1>8. /\ at \in [Process -> Nat] /\ expired \in BOOLEAN /\ undoFailed \in [Process -> BOOLEAN]
  BY DEF Init
<1>. QED
  BY <1>1, <1>2, <1>3, <1>4, <1>5, <1>6, <1>7, <1>8 DEF TypeOK, Typed

(* What moving a process does to the record of places.                     *)
LEMMA GotoTypes ==
    ASSUME Typed, NEW p \in Process, NEW label \in CalmPc, Goto(p, label),
           \A q \in Process \ {p} : outcome'[q] = outcome[q]
    PROVE  pc' \in [Process -> PcStates] /\ Recordable'
BY DEF Typed, TypeOK, Recordable, Goto, CalmPc, EvidencePc

LEMMA SeenTypes ==
    ASSUME NEW j \in JournalRow
    PROVE  Seen(j) \in SeenRow
BY DEF Seen, SeenRow, JournalRow

(* The row with its five fields spelled out.                               *)
Fields(status, generation, evidence, forwards, probed) ==
    [status |-> status, generation |-> generation, evidence |-> evidence,
     forwards |-> forwards, probed |-> probed]

LEMMA RowFields ==
    ASSUME TypeOK
    PROVE  /\ journal = Fields(journal.status, journal.generation, journal.evidence,
                               journal.forwards, journal.probed)
           /\ journal.status \in StatusStates \cup {"ABSENT"} /\ journal.generation \in Nat
           /\ journal.evidence \in SUBSET CommandEvidence
           /\ journal.forwards \in [Forward -> OwnershipStates]
           /\ journal.probed \in [Forward -> ProbeOutcomes]
BY DEF TypeOK, JournalRow, Fields

(* Becomes changes the status and the generation of the row.               *)
LEMMA BecomesFacts ==
    ASSUME TypeOK, NEW target, Becomes(target)
    PROVE  /\ journal' = Fields(target, journal.generation + 1, journal.evidence,
                                journal.forwards, journal.probed)
           /\ journal'.status = target /\ journal'.generation = journal.generation + 1
           /\ journal'.evidence = journal.evidence
           /\ journal'.forwards = journal.forwards /\ journal'.probed = journal.probed
           /\ target \in StatusStates => journal' \in JournalRow
<1>. DEFINE new == Fields(target, journal.generation, journal.evidence,
                          journal.forwards, journal.probed)
<1>1. [journal EXCEPT !.status = target] = new
  BY RowFields DEF Fields
<1>2. \A y : y = new => [y EXCEPT !.generation = journal.generation + 1] =
        Fields(target, journal.generation + 1, journal.evidence, journal.forwards, journal.probed)
  BY DEF Fields
<1>3. [[journal EXCEPT !.status = target] EXCEPT !.generation = journal.generation + 1] =
        Fields(target, journal.generation + 1, journal.evidence, journal.forwards, journal.probed)
  BY <1>1, <1>2, Zenon
<1>4. journal' = [[journal EXCEPT !.status = target] EXCEPT !.generation = journal.generation + 1]
  BY DEF Becomes
<1>5. journal' = Fields(target, journal.generation + 1, journal.evidence,
                        journal.forwards, journal.probed)
  BY <1>3, <1>4
<1>. QED  BY <1>5, RowFields DEF Fields, JournalRow

LEMMA TransitionTypes ==
    ASSUME Typed, NEW p \in Process, NEW label, NEW target \in StatusStates,
           NEW next \in CalmPc, NEW otherwise \in CalmPc,
           Transition(p, label, target, next, otherwise)
    PROVE  Typed'
<1>1. UNCHANGED <<manifest, review, expired, world, mine, at, outcome, held, undoFailed, crashes>>
  BY DEF Transition
<1>2. pc' \in [Process -> PcStates] /\ Recordable'
  BY <1>1, GotoTypes DEF Transition
<1>3. journal' \in JournalRow'
  BY <1>1, BecomesFacts DEF Transition, Typed, TypeOK, JournalRow, Forward
<1>4. rec' \in [Process -> SeenRow]
  <2>1. rec' = rec \/ rec' = [rec EXCEPT ![p] = Seen(journal')]
    BY DEF Transition
  <2>2. Seen(journal') \in SeenRow
    BY <1>3, SeenTypes DEF JournalRow, Seen, SeenRow
  <2>. QED  BY <2>1, <2>2 DEF Typed, TypeOK
<1>. QED
  BY <1>1, <1>2, <1>3, <1>4 DEF Typed, TypeOK, world, Mutation, Forward

(* What Evidence does: the record of a command is added to the row, or the *)
(* store refuses.                                                          *)
LEMMA EvidenceFacts ==
    ASSUME Typed, NEW p \in Process, NEW label, NEW kind, NEW next, NEW otherwise,
           Evidence(p, label, kind, next, otherwise)
    PROVE  \/ /\ Current(rec[p])
              /\ journal.status \notin {"SUCCEEDED", "ROLLED_BACK"}
              /\ journal' = Fields(journal.status, journal.generation + 1,
                    journal.evidence \cup {[command |-> <<kind, at[p]>>, status |-> outcome[p]]},
                    journal.forwards, journal.probed)
              /\ rec' = [rec EXCEPT ![p] = Seen(journal')]
              /\ Goto(p, next.pc)
              /\ at' = [at EXCEPT ![p] = next.at]
           \/ UNCHANGED <<journal, rec, at>> /\ Goto(p, otherwise)
<1>. DEFINE more == {[command |-> <<kind, at[p]>>, status |-> outcome[p]]}
            accepted == /\ Current(rec[p])
                        /\ journal.status \notin {"SUCCEEDED", "ROLLED_BACK"}
                        /\ \A e \in journal.evidence : e.command # <<kind, at[p]>>
            new == Fields(journal.status, journal.generation, journal.evidence \cup more,
                          journal.forwards, journal.probed)
<1>1. CASE ~accepted
  BY <1>1 DEF Evidence
<1>2. CASE accepted
  <2>. HIDE DEF more
  <2>0. \A m : [journal EXCEPT !.evidence = m] =
          Fields(journal.status, journal.generation, m, journal.forwards, journal.probed)
    BY RowFields DEF Fields, Typed
  <2>1. [journal EXCEPT !.evidence = journal.evidence \cup more] = new
    BY <2>0, Zenon
  <2>2. \A y : y = new => [y EXCEPT !.generation = journal.generation + 1] =
          Fields(journal.status, journal.generation + 1, journal.evidence \cup more,
                 journal.forwards, journal.probed)
    BY DEF Fields
  <2>3. [[journal EXCEPT !.evidence = journal.evidence \cup more]
            EXCEPT !.generation = journal.generation + 1] =
          Fields(journal.status, journal.generation + 1, journal.evidence \cup more,
                 journal.forwards, journal.probed)
    BY <2>1, <2>2, Zenon
  <2>4. journal' = [[journal EXCEPT !.evidence = journal.evidence \cup more]
            EXCEPT !.generation = journal.generation + 1]
    BY <1>2 DEF Evidence, more
  <2>5. /\ rec' = [rec EXCEPT ![p] = Seen(journal')]
        /\ Goto(p, next.pc)
        /\ at' = [at EXCEPT ![p] = next.at]
    BY <1>2 DEF Evidence
  <2>. QED  BY <1>2, <2>3, <2>4, <2>5 DEF more
<1>. QED  BY <1>1, <1>2

(* What Owns does: the ownership of a forward moves on, or the store       *)
(* refuses.                                                                *)
LEMMA OwnsFacts ==
    ASSUME Typed, NEW p \in Process, NEW label, NEW from, NEW to, NEW status, NEW next,
           NEW otherwise, Owns(p, label, from, to, status, next, otherwise)
    PROVE  \/ /\ Current(rec[p])
              /\ journal.forwards[at[p]] = from
              /\ status # journal.status => status \in Transitions[journal.status]
              /\ journal' = Fields(status, journal.generation + 1, journal.evidence,
                                   [journal.forwards EXCEPT ![at[p]] = to], journal.probed)
              /\ rec' = [rec EXCEPT ![p] = Seen(journal')]
              /\ Goto(p, next)
           \/ UNCHANGED <<journal, rec>> /\ Goto(p, otherwise)
<1>. DEFINE accepted == /\ Current(rec[p])
                        /\ journal.forwards[at[p]] = from
                        /\ status # journal.status => status \in Transitions[journal.status]
            one == Fields(status, journal.generation, journal.evidence, journal.forwards,
                          journal.probed)
            two == Fields(status, journal.generation, journal.evidence,
                          [journal.forwards EXCEPT ![at[p]] = to], journal.probed)
            new == Fields(status, journal.generation + 1, journal.evidence,
                          [journal.forwards EXCEPT ![at[p]] = to], journal.probed)
<1>1. CASE ~accepted
  BY <1>1 DEF Owns
<1>2. CASE accepted
  <2>1. [journal EXCEPT !.status = status] = one
    BY RowFields DEF Fields, Typed
  <2>2. \A y : y = one => [y EXCEPT !.forwards[at[p]] = to] = two
    BY DEF Fields
  <2>3. \A y : y = two => [y EXCEPT !.generation = journal.generation + 1] = new
    BY DEF Fields
  <2>4. [[journal EXCEPT !.status = status] EXCEPT !.forwards[at[p]] = to] = two
    BY <2>1, <2>2, Zenon
  <2>5. [[[journal EXCEPT !.status = status] EXCEPT !.forwards[at[p]] = to]
            EXCEPT !.generation = journal.generation + 1] = new
    BY <2>3, <2>4, Zenon
  <2>6. journal' = [[[journal EXCEPT !.status = status] EXCEPT !.forwards[at[p]] = to]
            EXCEPT !.generation = journal.generation + 1]
    BY <1>2 DEF Owns
  <2>7. rec' = [rec EXCEPT ![p] = Seen(journal')] /\ Goto(p, next)
    BY <1>2 DEF Owns
  <2>. QED  BY <1>2, <2>5, <2>6, <2>7
<1>. QED  BY <1>1, <1>2

(* What TlsRecorded does to the row.                                       *)
LEMMA TlsRecordedFacts ==
    ASSUME Typed, NEW p \in Process, TlsRecorded(p)
    PROVE  \/ /\ Current(rec[p])
              /\ journal.status = "TLS_DC8_PROBING"
              /\ journal.probed[at[p]] = "none"
              /\ journal' = Fields(journal.status, journal.generation + 1, journal.evidence,
                                   journal.forwards, [journal.probed EXCEPT ![at[p]] = outcome[p]])
              /\ rec' = [rec EXCEPT ![p] = Seen(journal')]
              /\ UNCHANGED outcome
           \/ outcome' = [outcome EXCEPT ![p] = "ambiguous"] /\ UNCHANGED <<journal, rec>>
<1>. DEFINE accepted == /\ Current(rec[p])
                        /\ journal.status = "TLS_DC8_PROBING"
                        /\ journal.probed[at[p]] = "none"
            one == Fields(journal.status, journal.generation, journal.evidence, journal.forwards,
                          [journal.probed EXCEPT ![at[p]] = outcome[p]])
            new == Fields(journal.status, journal.generation + 1, journal.evidence,
                          journal.forwards, [journal.probed EXCEPT ![at[p]] = outcome[p]])
<1>1. CASE ~accepted
  BY <1>1 DEF TlsRecorded
<1>2. CASE accepted
  <2>1. [journal EXCEPT !.probed[at[p]] = outcome[p]] = one
    BY RowFields DEF Fields, Typed
  <2>2. \A y : y = one => [y EXCEPT !.generation = journal.generation + 1] = new
    BY DEF Fields
  <2>3. [[journal EXCEPT !.probed[at[p]] = outcome[p]]
            EXCEPT !.generation = journal.generation + 1] = new
    BY <2>1, <2>2, Zenon
  <2>4. journal' = [[journal EXCEPT !.probed[at[p]] = outcome[p]]
            EXCEPT !.generation = journal.generation + 1]
    BY <1>2 DEF TlsRecorded
  <2>5. rec' = [rec EXCEPT ![p] = Seen(journal')] /\ UNCHANGED outcome
    BY <1>2 DEF TlsRecorded
  <2>. QED  BY <1>2, <2>3, <2>4, <2>5
<1>. QED  BY <1>1, <1>2

(* A row that was written and a record that was loaded have their types.   *)
LEMMA WrittenTypes ==
    ASSUME Typed, NEW p \in Process, UNCHANGED manifest,
           NEW status \in StatusStates \cup {"ABSENT"}, NEW evidence \in SUBSET CommandEvidence,
           NEW forwards \in [Forward -> OwnershipStates],
           NEW probed \in [Forward -> ProbeOutcomes],
           journal' = Fields(status, journal.generation + 1, evidence, forwards, probed),
           rec' = [rec EXCEPT ![p] = Seen(journal')]
    PROVE  journal' \in JournalRow' /\ rec' \in [Process -> SeenRow]
<1>1. journal' \in JournalRow
  BY RowFields DEF Typed, Fields, JournalRow
<1>2. Seen(journal') \in SeenRow
  BY <1>1, SeenTypes
<1>. QED  BY <1>1, <1>2 DEF JournalRow, Forward, Typed, TypeOK

LEMMA EvidenceTypes ==
    ASSUME Typed, NEW p \in Process, NEW label \in EvidencePc, NEW kind \in CommandKinds,
           NEW next, next.pc \in CalmPc, next.at \in Nat, NEW otherwise \in CalmPc,
           Evidence(p, label, kind, next, otherwise)
    PROVE  Typed'
<1>1. UNCHANGED <<manifest, review, expired, world, mine, outcome, held, undoFailed, crashes>>
  BY DEF Evidence
<1>2. pc' \in [Process -> PcStates] /\ Recordable'
  BY <1>1, EvidenceFacts, GotoTypes
<1>3. at' \in [Process -> Nat]
  BY EvidenceFacts DEF Typed, TypeOK
<1>4. journal' \in JournalRow' /\ rec' \in [Process -> SeenRow]
  <2>1. CASE UNCHANGED <<journal, rec, at>> /\ Goto(p, otherwise)
    BY <1>1, <2>1 DEF Typed, TypeOK, JournalRow, Forward
  <2>2. CASE ~(UNCHANGED <<journal, rec, at>> /\ Goto(p, otherwise))
    <3>1. outcome[p] \in {"succeeded", "failed"}
      BY DEF Evidence, Typed, Recordable
    <3>2. at[p] \in Nat
      BY DEF Typed, TypeOK
    <3>3. [command |-> <<kind, at[p]>>, status |-> outcome[p]] \in CommandEvidence
      BY <3>1, <3>2 DEF CommandEvidence
    <3>4. journal.evidence \cup {[command |-> <<kind, at[p]>>, status |-> outcome[p]]}
            \in SUBSET CommandEvidence
      BY <3>3, RowFields DEF Typed
    <3>5. /\ journal' = Fields(journal.status, journal.generation + 1,
                journal.evidence \cup {[command |-> <<kind, at[p]>>, status |-> outcome[p]]},
                journal.forwards, journal.probed)
          /\ rec' = [rec EXCEPT ![p] = Seen(journal')]
      BY <2>2, EvidenceFacts
    <3>. HIDE DEF Fields
    <3>. QED  BY <1>1, <3>4, <3>5, RowFields, WrittenTypes DEF Typed
  <2>. QED  BY <2>1, <2>2
<1>. QED
  BY <1>1, <1>2, <1>3, <1>4 DEF Typed, TypeOK, world, Mutation, Forward

LEMMA OwnsTypes ==
    ASSUME Typed, NEW p \in Process, NEW label, NEW from, NEW to \in OwnershipStates,
           NEW status \in StatusStates \cup {"ABSENT"}, NEW next \in CalmPc,
           NEW otherwise \in CalmPc, Owns(p, label, from, to, status, next, otherwise),
           at' \in [Process -> Nat],
           UNCHANGED <<manifest, review, expired, world, mine, outcome, held, undoFailed, crashes>>
    PROVE  Typed'
<1>1. pc' \in [Process -> PcStates] /\ Recordable'
  BY OwnsFacts, GotoTypes
<1>2. journal' \in JournalRow' /\ rec' \in [Process -> SeenRow]
  <2>1. CASE UNCHANGED <<journal, rec>>
    BY <2>1 DEF Typed, TypeOK, JournalRow, Forward
  <2>2. CASE ~UNCHANGED <<journal, rec>>
    <3>1. /\ journal' = Fields(status, journal.generation + 1, journal.evidence,
                               [journal.forwards EXCEPT ![at[p]] = to], journal.probed)
          /\ rec' = [rec EXCEPT ![p] = Seen(journal')]
      BY <2>2, OwnsFacts
    <3>2. [journal.forwards EXCEPT ![at[p]] = to] \in [Forward -> OwnershipStates]
      BY RowFields DEF Typed
    <3>. QED  BY <3>1, <3>2, RowFields, WrittenTypes DEF Typed
  <2>. QED  BY <2>1, <2>2
<1>. QED
  BY <1>1, <1>2 DEF Typed, TypeOK, world, Mutation, Forward
-----------------------------------------------------------------------------
LEMMA VisitTypes ==
    ASSUME Typed, NEW p \in Process,
           Visit(p) \/ Create(p) \/ Validate(p) \/ Capture(p) \/ AttachSnapshot(p)
             \/ AttachApproval(p) \/ Launch(p) \/ Result(p) \/ SafeFailure(p) \/ EndVisit(p)
             \/ Crash(p)
    PROVE  Typed'
<1>. DEFINE Others == UNCHANGED <<manifest, expired, world>>
<1>1. Seen(journal) \in SeenRow /\ Seen(Absent) \in SeenRow
  BY DEF Typed, TypeOK, Seen, SeenRow, JournalRow, Absent, Row
<1>2. ASSUME Others, pc' \in [Process -> PcStates], Recordable', journal' \in JournalRow',
             held' \in [Process -> SeenRow], rec' \in [Process -> SeenRow],
             at' \in [Process -> Nat], outcome' \in [Process -> Outcomes],
             undoFailed' \in [Process -> BOOLEAN], mine' \in [Process -> 0..MaxReviews],
             review' \in [number : 1..MaxReviews, state : {"running", "accepted", "blocked"}],
             crashes' \in 0..MaxCrashes
      PROVE  Typed'
  BY <1>2 DEF Typed, TypeOK, world, Mutation, Forward
<1>3. Others => JournalRow' = JournalRow
  BY DEF JournalRow, Forward
<1>4. ASSUME Visit(p) PROVE Typed'
  <2>1. mine' \in [Process -> 0..MaxReviews] /\ held' \in [Process -> SeenRow]
    BY <1>1, <1>4, BoundAssumption DEF Visit, Typed, TypeOK
  <2>2. pc' \in [Process -> PcStates] /\ Recordable'
    BY <1>4, GotoTypes DEF Visit, CalmPc, PcStates, EvidencePc
  <2>. QED  BY <1>2, <1>3, <1>4, <2>1, <2>2 DEF Visit, Typed, TypeOK
<1>5. ASSUME Create(p) PROVE Typed'
  <2>1. pc' \in [Process -> PcStates] /\ Recordable'
    BY <1>5, GotoTypes DEF Create, CalmPc, PcStates, EvidencePc
  <2>2. Row("DISCOVERED", 1) \in JournalRow
    BY DEF Row, JournalRow, StatusStates, EarlyStates, OwnershipStates, ProbeOutcomes
  <2>3. journal' \in JournalRow
    BY <1>5, <2>2 DEF Create, Typed, TypeOK
  <2>4. rec' \in [Process -> SeenRow]
    BY <1>5, <2>3, SeenTypes DEF Create, Typed, TypeOK
  <2>. QED  BY <1>2, <1>3, <1>5, <2>1, <2>3, <2>4 DEF Create, Typed, TypeOK
<1>6. ASSUME Validate(p) PROVE Typed'
  <2>1. pc' \in [Process -> PcStates] /\ Recordable'
    BY <1>6, GotoTypes DEF Validate, CalmPc, PcStates, EvidencePc
  <2>2. journal' \in JournalRow
    BY <1>6, BecomesFacts DEF Validate, Typed, TypeOK, StatusStates, EarlyStates
  <2>3. held' \in [Process -> SeenRow]
    BY <1>6, <2>2, SeenTypes DEF Validate, Typed, TypeOK
  <2>. QED  BY <1>2, <1>3, <1>6, <2>1, <2>2, <2>3 DEF Validate, Typed, TypeOK
<1>7. ASSUME Capture(p) PROVE Typed'
  <2>1. pc' \in [Process -> PcStates] /\ Recordable'
    BY <1>7, GotoTypes DEF Capture, CalmPc, PcStates, EvidencePc, local
  <2>. QED  BY <1>2, <1>3, <1>7, <2>1 DEF Capture, Typed, TypeOK, local
<1>8. ASSUME NEW label, NEW target \in StatusStates, NEW next \in CalmPc,
             Attach(p, label, target, next)
      PROVE  Typed'
  <2>1. pc' \in [Process -> PcStates] /\ Recordable'
    BY <1>8, GotoTypes DEF Attach, CalmPc, PcStates, EvidencePc
  <2>2. journal' \in JournalRow
    BY <1>8, BecomesFacts DEF Attach, Typed, TypeOK
  <2>3. held' \in [Process -> SeenRow]
    BY <1>8, <2>2, SeenTypes DEF Attach, Typed, TypeOK
  <2>. QED  BY <1>2, <1>3, <1>8, <2>1, <2>2, <2>3 DEF Attach, Typed, TypeOK
<1>9. ASSUME AttachSnapshot(p) \/ AttachApproval(p) PROVE Typed'
  BY <1>8, <1>9 DEF AttachSnapshot, AttachApproval, StatusStates, EarlyStates, CalmPc, PcStates,
                    EvidencePc
<1>10. ASSUME Launch(p) PROVE Typed'
  <2>1. pc' \in [Process -> PcStates] /\ Recordable'
    BY <1>10, GotoTypes DEF Launch, CalmPc, PcStates, EvidencePc
  <2>2. /\ rec' \in [Process -> SeenRow] /\ at' \in [Process -> Nat]
        /\ undoFailed' \in [Process -> BOOLEAN]
    BY <1>1, <1>10 DEF Launch, Typed, TypeOK
  <2>. QED  BY <1>2, <1>3, <1>10, <2>1, <2>2 DEF Launch, Typed, TypeOK
<1>11. ASSUME Result(p) PROVE Typed'
  <2>1. pc' \in [Process -> PcStates] /\ Recordable'
    BY <1>11, GotoTypes DEF Result, CalmPc, PcStates, EvidencePc
  <2>2. held' \in [Process -> SeenRow]
    BY <1>11 DEF Result, Typed, TypeOK
  <2>. QED  BY <1>2, <1>3, <1>11, <2>1, <2>2 DEF Result, Typed, TypeOK
<1>12. ASSUME Forget(p)
       PROVE  /\ at' \in [Process -> Nat] /\ outcome' \in [Process -> Outcomes]
              /\ held' \in [Process -> SeenRow] /\ rec' \in [Process -> SeenRow]
              /\ undoFailed' \in [Process -> BOOLEAN]
              /\ \A q \in Process \ {p} : outcome'[q] = outcome[q]
  BY <1>1, <1>12 DEF Forget, Typed, TypeOK, Outcomes
<1>13. ASSUME SafeFailure(p) PROVE Typed'
  <2>1. Forget(p) /\ Goto(p, "block")
    BY <1>13 DEF SafeFailure
  <2>2. pc' \in [Process -> PcStates] /\ Recordable'
    BY <1>12, <2>1, GotoTypes DEF CalmPc, PcStates, EvidencePc
  <2>3. journal' \in JournalRow
    <3>1. \A target \in {"RECONCILIATION_REQUIRED", "FAILED"} :
            Becomes(target) => journal' \in JournalRow
      BY BecomesFacts DEF Typed, StatusStates, ClosedStates
    <3>2. \/ UNCHANGED journal
          \/ \E target \in {"RECONCILIATION_REQUIRED", "FAILED"} : Becomes(target)
      BY <1>13 DEF SafeFailure
    <3>. QED  BY <3>1, <3>2 DEF Typed, TypeOK
  <2>. QED  BY <1>2, <1>3, <1>12, <1>13, <2>1, <2>2, <2>3 DEF SafeFailure, Typed, TypeOK
<1>14. ASSUME EndVisit(p) PROVE Typed'
  <2>1. Forget(p) /\ Goto(p, "idle")
    BY <1>14 DEF EndVisit
  <2>2. pc' \in [Process -> PcStates] /\ Recordable'
    BY <1>12, <2>1, GotoTypes DEF CalmPc, PcStates, EvidencePc
  <2>3. mine' \in [Process -> 0..MaxReviews]
    BY <1>14, BoundAssumption DEF EndVisit, Typed, TypeOK
  <2>4. review' \in [number : 1..MaxReviews, state : {"running", "accepted", "blocked"}]
    BY <1>14 DEF EndVisit, Typed, TypeOK
  <2>. QED  BY <1>2, <1>3, <1>12, <1>14, <2>1, <2>2, <2>3, <2>4 DEF EndVisit, Typed, TypeOK
<1>15. ASSUME Crash(p) PROVE Typed'
  <2>1. Forget(p) /\ Goto(p, "idle")
    BY <1>15 DEF Crash
  <2>2. pc' \in [Process -> PcStates] /\ Recordable'
    BY <1>12, <2>1, GotoTypes DEF CalmPc, PcStates, EvidencePc
  <2>3. mine' \in [Process -> 0..MaxReviews] /\ crashes' \in 0..MaxCrashes
    BY <1>15, BoundAssumption DEF Crash, Typed, TypeOK
  <2>. QED  BY <1>2, <1>3, <1>12, <1>15, <2>1, <2>2, <2>3 DEF Crash, Typed, TypeOK
<1>. QED  BY <1>4, <1>5, <1>6, <1>7, <1>9, <1>10, <1>11, <1>13, <1>14, <1>15

LEMMA StatusFacts ==
    /\ EarlyStates \cup AmbiguousStates \cup ClosedStates \cup {"RECONCILIATION_REQUIRED"}
         \subseteq StatusStates
    /\ ApprovedStates \subseteq StatusStates
    /\ {"STATIC_VALIDATED", "SNAPSHOT_CAPTURED", "APPROVED"} \subseteq StatusStates
BY DEF StatusStates, ApprovedStates, EarlyStates, AmbiguousStates, ClosedStates, ForwardStates

(* The transitions of the runner.                                          *)
LEMMA TransitionsTypes ==
    ASSUME Typed, NEW p \in Process,
           DryRunFailed(p) \/ DryRunPassed(p) \/ Start(p) \/ CommandLost(p) \/ Mutated(p)
             \/ Probing(p) \/ Succeed(p) \/ RollbackStart(p) \/ RollbackEnd(p)
             \/ TlsProbing(p) \/ ForwardFailed(p) \/ Reconciling(p)
    PROVE  Typed'
<1>1. \A label \in PcStates \ (EvidencePc \cup {"tls_evidence"}) : label \in CalmPc
  BY DEF CalmPc
<1>2. {"result", "safe_failure", "mutate", "probing", "probe", "rollback", "reconcile", "start",
       "forward_intent", "tls_probe"} \subseteq CalmPc
  BY DEF CalmPc, PcStates, EvidencePc
<1>3. Fallback \in CalmPc
  BY <1>2 DEF Fallback
<1>4. ASSUME DryRunFailed(p) \/ Start(p) \/ CommandLost(p) \/ Mutated(p) PROVE Typed'
  BY <1>2, <1>4, TransitionTypes, StatusFacts
     DEF DryRunFailed, Start, CommandLost, Mutated, ClosedStates, AmbiguousStates
<1>5. ASSUME Probing(p) \/ Succeed(p) \/ TlsProbing(p) PROVE Typed'
  BY <1>2, <1>5, TransitionTypes, StatusFacts
     DEF Probing, Succeed, TlsProbing, ClosedStates, AmbiguousStates, ForwardStates
<1>6. ASSUME ForwardFailed(p) \/ Reconciling(p) PROVE Typed'
  BY <1>2, <1>6, TransitionTypes, StatusFacts
     DEF ForwardFailed, Reconciling, ClosedStates
<1>7. ASSUME DryRunPassed(p) PROVE Typed'
  <2>1. PICK next \in {"start", "forward_intent", "result"} :
          Transition(p, "dry_run_passed", "SERVER_DRY_RUN_PASSED", next, "safe_failure")
    BY <1>7 DEF DryRunPassed
  <2>. QED  BY <1>2, <2>1, TransitionTypes, StatusFacts DEF ApprovedStates
<1>8. ASSUME RollbackStart(p) PROVE Typed'
  BY <1>2, <1>3, <1>8, TransitionTypes, StatusFacts DEF RollbackStart, AmbiguousStates
<1>9. ASSUME RollbackEnd(p) PROVE Typed'
  <2>1. PICK target \in {"RECONCILIATION_REQUIRED", "ROLLED_BACK"} :
          Transition(p, "rollback_end", target, "result", Fallback)
    BY <1>9 DEF RollbackEnd
  <2>. QED  BY <1>2, <1>3, <2>1, TransitionTypes, StatusFacts DEF ClosedStates
<1>. QED  BY <1>4, <1>5, <1>6, <1>7, <1>8, <1>9

(* The evidence of the four kinds of commands.                             *)
LEMMA RecordedTypes ==
    ASSUME Typed, NEW p \in Process,
           DryRunRecorded(p) \/ MutationRecorded(p) \/ ProbeRecorded(p) \/ UndoRecorded(p)
    PROVE  Typed'
<1>1. at[p] \in Nat /\ manifest.mutations \in Nat
  BY ManifestFacts DEF Typed, TypeOK
<1>2. {"safe_failure", "reconcile", "dry_run_failed", "dry_run", "dry_run_passed",
       "rollback_start", "mutate", "mutated", "probe", "forward_intent", "succeed", "rollback",
       "rollback_end"} \subseteq CalmPc
  BY DEF CalmPc, PcStates, EvidencePc
<1>. DEFINE Fits(next) == next.pc \in CalmPc /\ next.at \in Nat
<1>3. ASSUME NEW label \in CalmPc, NEW i \in Nat PROVE Fits(Then(label, i))
  BY DEF Then
<1>4. ASSUME DryRunRecorded(p) PROVE Typed'
  <2>1. Fits(DryRunNext(p))
    BY <1>1, <1>2, <1>3 DEF DryRunNext
  <2>2. Evidence(p, "dry_run_evidence", "server_dry_run", DryRunNext(p), "safe_failure")
    BY <1>4 DEF DryRunRecorded
  <2>. QED  BY <1>2, <2>1, <2>2, EvidenceTypes DEF EvidencePc, CommandKinds
<1>5. ASSUME MutationRecorded(p) PROVE Typed'
  <2>1. Fits(MutationNext(p))
    BY <1>1, <1>2, <1>3 DEF MutationNext
  <2>2. Evidence(p, "mutation_evidence", "mutation", MutationNext(p), "safe_failure")
    BY <1>5 DEF MutationRecorded
  <2>. QED  BY <1>2, <2>1, <2>2, EvidenceTypes DEF EvidencePc, CommandKinds
<1>6. ASSUME ProbeRecorded(p) PROVE Typed'
  <2>1. Fits(ProbeNext(p))
    BY <1>1, <1>2, <1>3 DEF ProbeNext
  <2>2. Evidence(p, "probe_evidence", "readiness_probe", ProbeNext(p), "safe_failure")
    BY <1>6 DEF ProbeRecorded
  <2>. QED  BY <1>2, <2>1, <2>2, EvidenceTypes DEF EvidencePc, CommandKinds
<1>7. ASSUME UndoRecorded(p) PROVE Typed'
  <2>1. Fits(UndoNext(p))
    BY <1>1, <1>2, <1>3 DEF UndoNext
  <2>2. Fallback \in CalmPc
    BY <1>2 DEF Fallback
  <2>. QED
    BY <1>7, <2>1, <2>2, EvidenceTypes DEF UndoRecorded, EvidencePc, CommandKinds
<1>. QED  BY <1>4, <1>5, <1>6, <1>7

(* The ownership of the port forwards.                                     *)
LEMMA OwnershipTypes ==
    ASSUME Typed, NEW p \in Process,
           ForwardIntent(p) \/ ForwardStarted(p) \/ ForwardStopped(p) \/ ForwardAmbiguous(p)
    PROVE  Typed'
<1>1. {"spawn", "safe_failure", "wait_ready", "reconcile"} \subseteq CalmPc
  BY DEF CalmPc, PcStates, EvidencePc
<1>2. {"INTENT_PERSISTED", "STARTED", "STOPPED", "CLEANUP_AMBIGUOUS"} \subseteq OwnershipStates
  BY DEF OwnershipStates
<1>3. /\ {"PORT_FORWARD_INTENT", "PORT_FORWARD_STARTED"} \subseteq StatusStates
      /\ journal.status \in StatusStates \cup {"ABSENT"}
  BY RowFields, StatusFacts DEF AmbiguousStates, ForwardStates, Typed
<1>4. at \in [Process -> Nat]
  BY DEF Typed, TypeOK
<1>5. ASSUME ForwardIntent(p) PROVE Typed'
  BY <1>1, <1>2, <1>3, <1>4, <1>5, OwnsTypes DEF ForwardIntent
<1>6. ASSUME ForwardStarted(p) PROVE Typed'
  BY <1>1, <1>2, <1>3, <1>4, <1>6, OwnsTypes DEF ForwardStarted
<1>7. ASSUME ForwardStopped(p) PROVE Typed'
  <2>1. ForwardNext(p).pc \in CalmPc /\ ForwardNext(p).at \in Nat
    BY <1>4, ManifestFacts
       DEF ForwardNext, Then, CalmPc, PcStates, EvidencePc, Typed, TypeOK
  <2>2. at' \in [Process -> Nat]
    BY <1>4, <1>7, <2>1 DEF ForwardStopped
  <2>. QED  BY <1>1, <1>2, <1>3, <1>7, <2>1, <2>2, OwnsTypes DEF ForwardStopped
<1>8. ASSUME ForwardAmbiguous(p) PROVE Typed'
  BY <1>1, <1>2, <1>3, <1>4, <1>8, OwnsTypes DEF ForwardAmbiguous
<1>. QED  BY <1>5, <1>6, <1>7, <1>8

(* The commands themselves, and the steps around a port-forward child.     *)
LEMMA CommandTypes ==
    ASSUME Typed, NEW p \in Process,
           DryRuns(p) \/ Mutate(p) \/ UpgradeEnds(p) \/ Probes(p) \/ Rollback(p) \/ UndoEnds(p)
             \/ Spawn(p) \/ WaitReady(p) \/ TlsProbes(p) \/ TlsRecorded(p) \/ Close(p)
             \/ Reconcile(p)
    PROVE  Typed'
<1>1. ASSUME UNCHANGED <<manifest, review, expired, mine, held, crashes>>,
             journal' \in JournalRow', pc' \in [Process -> PcStates], Recordable',
             rec' \in [Process -> SeenRow], at' \in [Process -> Nat],
             outcome' \in [Process -> Outcomes], undoFailed' \in [Process -> BOOLEAN],
             upgrade' \in [Mutation -> {"never", "running", "ended"}],
             undo' \in [Mutation -> {"never", "running", "ended"}],
             release' \in [Mutation -> {"before", "after"}],
             child' \in [Forward -> {"none", "alive", "closed"}]
      PROVE  Typed'
  BY <1>1 DEF Typed, TypeOK, Mutation, Forward
<1>2. /\ UNCHANGED <<manifest, journal>> => journal' \in JournalRow'
      /\ pc \in [Process -> PcStates] /\ rec \in [Process -> SeenRow]
      /\ at \in [Process -> Nat] /\ outcome \in [Process -> Outcomes]
      /\ undoFailed \in [Process -> BOOLEAN]
      /\ upgrade \in [Mutation -> {"never", "running", "ended"}]
      /\ undo \in [Mutation -> {"never", "running", "ended"}]
      /\ release \in [Mutation -> {"before", "after"}]
      /\ child \in [Forward -> {"none", "alive", "closed"}]
  BY DEF Typed, TypeOK, JournalRow, Forward
<1>3. ASSUME NEW label \in PcStates, NEW o \in Outcomes, Goto(p, label),
             outcome' = [outcome EXCEPT ![p] = o],
             label \in EvidencePc => o \in {"succeeded", "failed"},
             label = "tls_evidence" => o \in {"rejected", "accepted", "ambiguous"}
      PROVE  /\ pc' \in [Process -> PcStates] /\ Recordable'
             /\ outcome' \in [Process -> Outcomes]
  BY <1>3 DEF Goto, Typed, TypeOK, Recordable, EvidencePc
<1>4. ASSUME DryRuns(p) PROVE Typed'
  <2>1. PICK o \in {"succeeded", "failed", "lost"} :
          /\ outcome' = [outcome EXCEPT ![p] = o]
          /\ Goto(p, IF o = "lost" THEN "safe_failure" ELSE "dry_run_evidence")
    BY <1>4 DEF DryRuns
  <2>2. pc' \in [Process -> PcStates] /\ Recordable' /\ outcome' \in [Process -> Outcomes]
    BY <1>3, <2>1 DEF PcStates, Outcomes, EvidencePc
  <2>. QED  BY <1>1, <1>2, <1>4, <2>2 DEF DryRuns, world
<1>5. ASSUME Mutate(p) PROVE Typed'
  <2>1. pc' \in [Process -> PcStates] /\ Recordable'
    BY <1>5, GotoTypes DEF Mutate, local, CalmPc, PcStates, EvidencePc
  <2>. QED  BY <1>1, <1>2, <1>5, <2>1 DEF Mutate, local
<1>6. ASSUME UpgradeEnds(p) PROVE Typed'
  <2>1. PICK o \in {"succeeded", "failed", "lost"}, v \in {"before", "after"} :
          /\ release' = [release EXCEPT ![at[p]] = v]
          /\ outcome' = [outcome EXCEPT ![p] = o]
          /\ Goto(p, IF o = "lost" THEN "command_lost" ELSE "mutation_evidence")
    BY <1>6 DEF UpgradeEnds
  <2>2. pc' \in [Process -> PcStates] /\ Recordable' /\ outcome' \in [Process -> Outcomes]
    BY <1>3, <2>1 DEF PcStates, Outcomes, EvidencePc
  <2>. QED  BY <1>1, <1>2, <1>6, <2>1, <2>2 DEF UpgradeEnds
<1>7. ASSUME Probes(p) PROVE Typed'
  <2>1. PICK o \in {"succeeded", "failed", "lost"} :
          /\ outcome' = [outcome EXCEPT ![p] = o]
          /\ Goto(p, IF o = "lost" THEN "command_lost" ELSE "probe_evidence")
    BY <1>7 DEF Probes
  <2>2. pc' \in [Process -> PcStates] /\ Recordable' /\ outcome' \in [Process -> Outcomes]
    BY <1>3, <2>1 DEF PcStates, Outcomes, EvidencePc
  <2>. QED  BY <1>1, <1>2, <1>7, <2>2 DEF Probes, world
<1>8. ASSUME Rollback(p) PROVE Typed'
  <2>1. pc' \in [Process -> PcStates] /\ Recordable'
    BY <1>8, GotoTypes DEF Rollback, local, CalmPc, PcStates, EvidencePc
  <2>. QED  BY <1>1, <1>2, <1>8, <2>1 DEF Rollback, local
<1>9. ASSUME UndoEnds(p) PROVE Typed'
  <2>1. PICK o \in {"succeeded", "failed", "lost"}, v \in {"before", "after"} :
          /\ release' = [release EXCEPT ![at[p]] = v]
          /\ outcome' = [outcome EXCEPT ![p] = o]
          /\ undoFailed' = [undoFailed EXCEPT ![p] = @ \/ o # "succeeded"]
          /\ IF o = "lost"
                THEN Goto(p, UndoNext(p).pc) /\ at' = [at EXCEPT ![p] = UndoNext(p).at]
                ELSE Goto(p, "rollback_evidence") /\ UNCHANGED at
    BY <1>9 DEF UndoEnds
  <2>2. /\ UndoNext(p).pc \in {"rollback", "rollback_end"}
        /\ UndoNext(p).at \in Nat
    BY <1>2 DEF UndoNext, Then
  <2>3. PICK label \in {"rollback", "rollback_end", "rollback_evidence"} :
          Goto(p, label) /\ (label = "rollback_evidence" => o # "lost")
    BY <2>1, <2>2
  <2>4. pc' \in [Process -> PcStates] /\ Recordable' /\ outcome' \in [Process -> Outcomes]
    BY <1>3, <2>1, <2>3 DEF PcStates, Outcomes, EvidencePc
  <2>5. at' \in [Process -> Nat]
    BY <1>2, <2>1, <2>2
  <2>6. /\ undoFailed' \in [Process -> BOOLEAN]
        /\ release' \in [Mutation -> {"before", "after"}]
        /\ undo' \in [Mutation -> {"never", "running", "ended"}]
    BY <1>2, <1>9, <2>1 DEF UndoEnds
  <2>. QED  BY <1>1, <1>2, <1>9, <2>4, <2>5, <2>6 DEF UndoEnds
<1>10. ASSUME Spawn(p) PROVE Typed'
  <2>1. pc' \in [Process -> PcStates] /\ Recordable'
    BY <1>10, GotoTypes DEF Spawn, local, CalmPc, PcStates, EvidencePc
  <2>2. child' \in [Forward -> {"none", "alive", "closed"}]
    BY <1>2, <1>10 DEF Spawn
  <2>. QED  BY <1>1, <1>2, <1>10, <2>1, <2>2 DEF Spawn, local
<1>11. ASSUME WaitReady(p) PROVE Typed'
  <2>1. PICK o \in {"ready", "failed", "ambiguous"} :
          /\ outcome' = [outcome EXCEPT ![p] = o]
          /\ Goto(p, IF o = "ready" THEN "tls_probing" ELSE "close")
    BY <1>11 DEF WaitReady
  <2>2. pc' \in [Process -> PcStates] /\ Recordable' /\ outcome' \in [Process -> Outcomes]
    BY <1>3, <2>1 DEF PcStates, Outcomes, EvidencePc
  <2>. QED  BY <1>1, <1>2, <1>11, <2>2 DEF WaitReady, world
<1>12. ASSUME TlsProbes(p) PROVE Typed'
  <2>1. PICK o \in {"rejected", "accepted", "ambiguous"} :
          outcome' = [outcome EXCEPT ![p] = o] /\ Goto(p, "tls_evidence")
    BY <1>12 DEF TlsProbes
  <2>2. pc' \in [Process -> PcStates] /\ Recordable' /\ outcome' \in [Process -> Outcomes]
    BY <1>3, <2>1 DEF PcStates, Outcomes, EvidencePc
  <2>. QED  BY <1>1, <1>2, <1>12, <2>2 DEF TlsProbes, world
<1>13. ASSUME TlsRecorded(p) PROVE Typed'
  <2>1. Goto(p, "close") /\ pc[p] = "tls_evidence"
    BY <1>13 DEF TlsRecorded
  <2>2. outcome[p] \in ProbeOutcomes
    BY <2>1 DEF Typed, Recordable, ProbeOutcomes
  <2>3. [journal.probed EXCEPT ![at[p]] = outcome[p]] \in [Forward -> ProbeOutcomes]
    BY <2>2, RowFields DEF Typed
  <2>4. /\ pc' \in [Process -> PcStates] /\ Recordable'
        /\ outcome' \in [Process -> Outcomes]
    <3>1. \/ UNCHANGED outcome
          \/ outcome' = [outcome EXCEPT ![p] = "ambiguous"]
      BY <1>13, TlsRecordedFacts
    <3>2. \A q \in Process \ {p} : outcome'[q] = outcome[q]
      BY <1>2, <3>1
    <3>. QED  BY <1>2, <2>1, <3>1, <3>2, GotoTypes DEF CalmPc, PcStates, EvidencePc, Outcomes
  <2>5. journal' \in JournalRow' /\ rec' \in [Process -> SeenRow]
    <3>1. CASE UNCHANGED <<journal, rec>>
      BY <1>2, <1>13, <3>1 DEF TlsRecorded
    <3>2. CASE ~UNCHANGED <<journal, rec>>
      <4>1. /\ journal' = Fields(journal.status, journal.generation + 1, journal.evidence,
                    journal.forwards, [journal.probed EXCEPT ![at[p]] = outcome[p]])
            /\ rec' = [rec EXCEPT ![p] = Seen(journal')]
        BY <1>13, <3>2, TlsRecordedFacts
      <4>2. UNCHANGED manifest
        BY <1>13 DEF TlsRecorded
      <4>. QED  BY <2>3, <4>1, <4>2, RowFields, WrittenTypes DEF Typed
    <3>. QED  BY <3>1, <3>2
  <2>. QED  BY <1>1, <1>2, <1>13, <2>4, <2>5 DEF TlsRecorded, world
<1>14. ASSUME Close(p) PROVE Typed'
  <2>1. pc' \in [Process -> PcStates] /\ Recordable'
    BY <1>14, GotoTypes DEF Close, local, CalmPc, PcStates, EvidencePc
  <2>2. child' \in [Forward -> {"none", "alive", "closed"}]
    BY <1>2, <1>14 DEF Close
  <2>. QED  BY <1>1, <1>2, <1>14, <2>1, <2>2 DEF Close, local
<1>15. ASSUME Reconcile(p) PROVE Typed'
  <2>1. pc' \in [Process -> PcStates] /\ Recordable'
    BY <1>15, GotoTypes DEF Reconcile, CalmPc, PcStates, EvidencePc
  <2>2. rec' \in [Process -> SeenRow]
    BY <1>2, <1>15, SeenTypes DEF Reconcile, Typed, TypeOK
  <2>. QED  BY <1>1, <1>2, <1>15, <2>1, <2>2 DEF Reconcile, world
<1>. QED
  BY <1>4, <1>5, <1>6, <1>7, <1>8, <1>9, <1>10, <1>11, <1>12, <1>13, <1>14, <1>15

(* The reviewer, the owner, the clock and the cluster.                     *)
LEMMA EnvironmentTypes ==
    ASSUME Typed,
           ReviewAgain \/ OwnerApproves \/ Expire \/ \E m \in Mutation : TakesEffect(m)
    PROVE  Typed'
<1>1. UNCHANGED <<pc, outcome>> => Recordable'
  BY DEF Typed, Recordable
<1>2. UNCHANGED <<manifest, journal>> => journal' \in JournalRow'
  BY DEF Typed, TypeOK, JournalRow, Forward
<1>3. ASSUME ReviewAgain PROVE Typed'
  <2>1. review' \in [number : 1..MaxReviews, state : {"running", "accepted", "blocked"}]
    BY <1>3, BoundAssumption DEF ReviewAgain, Typed, TypeOK
  <2>. QED
    BY <1>1, <1>2, <1>3, <2>1 DEF ReviewAgain, Typed, TypeOK, world, local, Mutation, Forward
<1>4. ASSUME OwnerApproves PROVE Typed'
  <2>1. PICK target \in {"SNAPSHOT_CAPTURED", "APPROVED"} : Becomes(target)
    BY <1>4 DEF OwnerApproves
  <2>2. journal' \in JournalRow
    BY <2>1, BecomesFacts, StatusFacts DEF Typed
  <2>3. journal' \in JournalRow'
    BY <1>4, <2>2 DEF OwnerApproves, JournalRow, Forward
  <2>. QED
    BY <1>1, <1>4, <2>3 DEF OwnerApproves, Typed, TypeOK, world, local, Mutation, Forward
<1>5. ASSUME Expire PROVE Typed'
  BY <1>1, <1>2, <1>5 DEF Expire, Typed, TypeOK, world, local, Mutation, Forward
<1>6. ASSUME NEW m \in Mutation, TakesEffect(m) PROVE Typed'
  <2>1. release' \in [Mutation -> {"before", "after"}]
    BY <1>6 DEF TakesEffect, Typed, TypeOK
  <2>. QED
    BY <1>1, <1>2, <1>6, <2>1 DEF TakesEffect, Typed, TypeOK, local, Mutation, Forward
<1>. QED  BY <1>3, <1>4, <1>5, <1>6

LEMMA StepTyped == Typed /\ [Next]_vars => Typed'
<1>. SUFFICES ASSUME Typed, [Next]_vars PROVE Typed'
  OBVIOUS
<1>1. CASE UNCHANGED vars
  BY <1>1
     DEF vars, world, local, Typed, TypeOK, Recordable, JournalRow, Mutation, Forward
<1>2. ASSUME NEW p \in Process, Visit(p) \/ Works(p) \/ Crash(p) PROVE Typed'
  BY <1>2, VisitTypes, TransitionsTypes, RecordedTypes, OwnershipTypes, CommandTypes
     DEF Works, Runs, Forwards
<1>3. CASE ReviewAgain \/ OwnerApproves \/ Expire \/ \E m \in Mutation : TakesEffect(m)
  BY <1>3, EnvironmentTypes
<1>. QED  BY <1>1, <1>2, <1>3 DEF Next

(* TypeOK holds in every reachable state, and no evidence of a command is  *)
(* recorded with an outcome that its validator would reject.               *)
THEOREM TypeCorrect == Spec => []TypeOK
<1>1. Spec => []Typed
  BY TypedInit, StepTyped, PTL DEF Spec
<1>2. Typed => TypeOK
  BY DEF Typed
<1>. QED  BY <1>1, <1>2, PTL
-----------------------------------------------------------------------------
LEMMA TypedFacts ==
    ASSUME Typed
    PROVE  /\ journal.generation \in Nat /\ journal.status \in StatusStates \cup {"ABSENT"}
           /\ \A q \in Process :
                /\ rec[q] \in SeenRow /\ held[q] \in SeenRow /\ pc[q] \in PcStates
                /\ rec[q].generation \in Nat /\ held[q].generation \in Nat
                /\ rec[q].status \in StatusStates \cup {"ABSENT"}
                /\ held[q].status \in StatusStates \cup {"ABSENT"}
BY DEF Typed, TypeOK, JournalRow, SeenRow

(* What a process remembers stays true when the row moves on.              *)
LEMMA RemembersStep ==
    ASSUME Typed, NEW seen \in SeenRow, Remembers(seen),
           \/ UNCHANGED journal
           \/ /\ journal'.generation = journal.generation + 1
              /\ journal.status = "SUCCEEDED" => journal'.status = "SUCCEEDED"
    PROVE  Remembers(seen)'
BY TypedFacts DEF Remembers, SeenRow, Seen

(* A row just read or just written is remembered.                          *)
LEMMA RemembersRead ==
    ASSUME Typed
    PROVE  Remembers(Seen(journal))
BY TypedFacts DEF Remembers, Seen

(* A step of one process leaves what the others hold as it should be:      *)
(* the row is not written, or no other process runs the commands, or the   *)
(* step is a disposal by another visit.                                    *)
LEMMA OthersHold ==
    ASSUME Typed, NEW q \in Process, Holding(q),
           pc'[q] = pc[q], rec'[q] = rec[q], held'[q] = held[q], outcome'[q] = outcome[q],
           \/ UNCHANGED journal
           \/ /\ journal'.generation = journal.generation + 1
              /\ journal.status # "SUCCEEDED"
              /\ \/ pc[q] \notin RunPc
                 \/ /\ journal.status \in AmbiguousStates
                    /\ journal'.status = "RECONCILIATION_REQUIRED"
                 \/ /\ journal.status \in EarlyStates \ Unapproved
                    /\ journal'.status = "FAILED"
           \/ /\ journal'.generation = journal.generation + 1
              /\ journal'.status = journal.status
              /\ pc[q] \notin RunPc
    PROVE  Holding(q)'
<1>1. Remembers(rec[q])' /\ Remembers(held[q])'
  <2>1. Remembers(rec[q]) /\ Remembers(held[q])
    BY DEF Holding
  <2>. QED  BY <2>1, RemembersStep, TypedFacts
<1>2. /\ (rec[q].status \in RecordAt(pc[q]))' /\ (held[q].status \in HeldAt(pc[q]))'
      /\ (pc[q] \in {"close", "forward_stopped"} /\ outcome[q] = "rejected" =>
            rec[q].status = "TLS_DC8_PROBING")'
  BY DEF Holding, RecordAt, HeldAt
<1>3. /\ (pc[q] \in RunPc => journal.status \notin Unapproved)'
      /\ (pc[q] = "accept" => journal.status = "SUCCEEDED")'
  <2>1. "accept" \notin RunPc
    BY DEF RunPc, VisitPc
  <2>. QED  BY <2>1 DEF Holding, Unapproved, AmbiguousStates, ForwardStates, EarlyStates
<1>4. (pc[q] = "reconcile" => journal.status \in AmbiguousStates \cup {"RECONCILIATION_REQUIRED"})'
  <2>1. "reconcile" \in RunPc
    BY DEF RunPc, VisitPc, PcStates
  <2>. QED  BY <2>1 DEF Holding, Unapproved, AmbiguousStates, ForwardStates, EarlyStates
<1>5. (pc[q] \in RunPc \ {"launch", "result", "reconcile"} => Current(rec[q]) \/ Disposed(q))'
  <2>. SUFFICES ASSUME pc[q] \in RunPc \ {"launch", "result", "reconcile"}
                PROVE  (Current(rec[q]) \/ Disposed(q))'
    OBVIOUS
  <2>1. Current(rec[q]) \/ Disposed(q)
    BY DEF Holding
  <2>2. CASE UNCHANGED journal
    BY <2>1, <2>2 DEF Current, Disposed
  <2>3. CASE ~UNCHANGED journal
    <3>1. Disposed(q) => journal.status \in {"FAILED", "RECONCILIATION_REQUIRED"}
      BY DEF Disposed
    <3>2. Current(rec[q])
      BY <2>1, <2>3, <3>1 DEF AmbiguousStates, ForwardStates, EarlyStates
    <3>3. rec[q].status = journal.status
      BY <3>2 DEF Holding, Remembers, Current, Seen
    <3>. QED  BY <2>3, <3>3 DEF Disposed, AmbiguousStates, ForwardStates, EarlyStates
  <2>. QED  BY <2>2, <2>3
<1>. QED  BY <1>1, <1>2, <1>3, <1>4, <1>5 DEF Holding

RunnerPc == RunPc \ {"launch", "result", "reconcile"}

(* Where a step of the runner may lead to.                                 *)
AfterPc == (RunPc \ {"launch"}) \cup {"safe_failure"}

(* A step of the runner that leaves the row alone.                         *)
LEMMA RunnerReads ==
    ASSUME Typed, Control, NEW p \in Process, pc[p] \in RunnerPc,
           NEW label \in AfterPc, Goto(p, label), UNCHANGED <<journal, review, held, rec>>,
           rec[p].status \in RecordAt(label),
           label = "reconcile" => rec[p].status \in AmbiguousStates,
           \A q \in Process \ {p} : outcome'[q] = outcome[q],
           label \in {"close", "forward_stopped"} /\ outcome'[p] = "rejected" =>
                rec[p].status = "TLS_DC8_PROBING"
    PROVE  Control'
<1>1. pc'[p] = label /\ \A q \in Process \ {p} : pc'[q] = pc[q]
  BY DEF Goto, Typed, TypeOK
<1>2. Holding(p)
  BY DEF Control
<1>3. \A q \in Process \ {p} : Holding(q)'
  BY <1>1, OthersHold DEF Control
<1>4. pc[p] \in RunPc
  BY DEF RunnerPc
<1>5. Holding(p)'
  <2>1. Remembers(rec[p])' /\ Remembers(held[p])'
    BY <1>2 DEF Holding, Remembers
  <2>2. (rec[p].status \in RecordAt(pc[p]))' /\ (held[p].status \in HeldAt(pc[p]))'
    <3>1. held[p].status \in HeldAt(label)
      BY TypedFacts DEF HeldAt, AfterPc, RunPc, VisitPc
    <3>. QED  BY <1>1, <3>1
  <2>3. /\ (pc[p] \in RunPc => journal.status \notin Unapproved)'
        /\ (pc[p] \in RunPc \ {"launch", "result", "reconcile"} =>
                Current(rec[p]) \/ Disposed(p))'
        /\ (pc[p] = "accept" => journal.status = "SUCCEEDED")'
        /\ (pc[p] \in {"close", "forward_stopped"} /\ outcome[p] = "rejected" =>
              rec[p].status = "TLS_DC8_PROBING")'
    BY <1>1, <1>2, <1>4 DEF Holding, RunnerPc, Current, Disposed, AfterPc, RunPc, VisitPc
  <2>4. (pc[p] = "reconcile" =>
            journal.status \in AmbiguousStates \cup {"RECONCILIATION_REQUIRED"})'
    BY <1>1, <1>2 DEF Holding, RunnerPc, Current, Disposed, Remembers, Seen
  <2>. QED  BY <2>1, <2>2, <2>3, <2>4 DEF Holding
<1>6. (\A r, q \in Process : pc[r] \in RunPc /\ pc[q] \in RunPc => r = q)'
  BY <1>1, <1>4 DEF Control
<1>. QED  BY <1>3, <1>5, <1>6 DEF Control, AcceptedSucceeded

(* A step of the runner that writes the row.                               *)
LEMMA RunnerWrites ==
    ASSUME Typed, Typed', Control, NEW p \in Process, pc[p] \in RunnerPc, Current(rec[p]),
           NEW label \in AfterPc, Goto(p, label), UNCHANGED <<review, held, outcome>>,
           journal'.generation = journal.generation + 1,
           \/ journal'.status = journal.status
           \/ journal'.status \in Transitions[journal.status],
           rec' = [rec EXCEPT ![p] = Seen(journal')],
           journal'.status \in RecordAt(label),
           journal'.status \notin Unapproved,
           label = "reconcile" => journal'.status \in AmbiguousStates,
           label \in {"close", "forward_stopped"} /\ outcome[p] = "rejected" =>
                journal'.status = "TLS_DC8_PROBING"
    PROVE  Control'
<1>1. pc'[p] = label /\ \A q \in Process \ {p} : pc'[q] = pc[q]
  BY DEF Goto, Typed, TypeOK
<1>2. rec'[p] = Seen(journal') /\ \A q \in Process \ {p} : rec'[q] = rec[q]
  BY DEF Typed, TypeOK
<1>3. Holding(p) /\ pc[p] \in RunPc
  BY DEF Control, RunnerPc
<1>4. journal.status \in StatusStates /\ journal.status \notin Unapproved
  BY <1>3, TypedFacts DEF Holding, Unapproved
<1>5. journal.status = "SUCCEEDED" => journal'.status = "SUCCEEDED"
  BY <1>4 DEF Transitions, StatusStates, ClosedStates
<1>6. \A q \in Process \ {p} : Holding(q)'
  <2>1. \A q \in Process \ {p} : pc[q] \notin RunPc /\ Holding(q)
    BY <1>3 DEF Control
  <2>2. journal.status # "SUCCEEDED" \/ journal'.status = journal.status
    BY <1>5
  <2>. QED  BY <1>1, <1>2, <2>1, <2>2, OthersHold
<1>7. Holding(p)'
  <2>1. Remembers(rec[p])' /\ Remembers(held[p])'
    <3>1. Remembers(held[p]) /\ held[p] \in SeenRow
      BY <1>3, TypedFacts DEF Holding
    <3>2. Remembers(held[p])'
      BY <1>5, <3>1, RemembersStep
    <3>3. Remembers(rec[p])'
      BY <1>2, TypedFacts DEF Remembers, Seen
    <3>. QED  BY <3>2, <3>3
  <2>2. (rec[p].status \in RecordAt(pc[p]))' /\ (held[p].status \in HeldAt(pc[p]))'
    <3>1. held[p].status \in HeldAt(label)
      BY TypedFacts DEF HeldAt, AfterPc, RunPc, VisitPc
    <3>. QED  BY <1>1, <1>2, <3>1 DEF Seen
  <2>3. /\ (pc[p] \in RunPc => journal.status \notin Unapproved)'
        /\ (pc[p] \in RunPc \ {"launch", "result", "reconcile"} =>
                Current(rec[p]) \/ Disposed(p))'
        /\ (pc[p] = "accept" => journal.status = "SUCCEEDED")'
        /\ (pc[p] \in {"close", "forward_stopped"} /\ outcome[p] = "rejected" =>
              rec[p].status = "TLS_DC8_PROBING")'
        /\ (pc[p] = "reconcile" =>
              journal.status \in AmbiguousStates \cup {"RECONCILIATION_REQUIRED"})'
    BY <1>1, <1>2 DEF Current, Seen, AfterPc, RunPc, VisitPc
  <2>. QED  BY <2>1, <2>2, <2>3 DEF Holding
<1>8. (\A r, q \in Process : pc[r] \in RunPc /\ pc[q] \in RunPc => r = q)'
  BY <1>1, <1>3 DEF Control
<1>9. (journal.status = "ABSENT" <=> journal.generation = 0)'
  BY TypedFacts DEF Unapproved
<1>. QED  BY <1>5, <1>6, <1>7, <1>8, <1>9 DEF Control, AcceptedSucceeded

LEMMA RecordFacts ==
    /\ RecordAt("safe_failure") = StatusStates \cup {"ABSENT"}
    /\ RecordAt("result") = StatusStates \cup {"ABSENT"}
    /\ RecordAt("reconcile") = StatusStates \cup {"ABSENT"}
    /\ "safe_failure" \in AfterPc /\ "reconcile" \in AfterPc
BY DEF RecordAt, AfterPc, RunPc, VisitPc, PcStates

(* A transition of the runner.                                             *)
LEMMA TransitionControl ==
    ASSUME Typed, Typed', Control, NEW p \in Process, NEW label \in RunnerPc,
           NEW target \in StatusStates \ Unapproved,
           NEW next \in AfterPc \ {"close", "forward_stopped", "reconcile"},
           target \in RecordAt(next), NEW otherwise \in {"safe_failure", "reconcile"},
           otherwise = "reconcile" => RecordAt(label) \subseteq AmbiguousStates,
           Transition(p, label, target, next, otherwise)
    PROVE  Control'
<1>1. pc[p] = label /\ UNCHANGED <<review, held, outcome>>
  BY DEF Transition
<1>2. CASE Current(rec[p]) /\ MayBecome(target)
  <2>1. journal'.status = target /\ journal'.generation = journal.generation + 1
    BY <1>2, BecomesFacts DEF Transition, Typed
  <2>2. target \in Transitions[journal.status]
    BY <1>2 DEF MayBecome
  <2>3. rec' = [rec EXCEPT ![p] = Seen(journal')] /\ Goto(p, next)
    BY <1>2 DEF Transition
  <2>. QED  BY <1>1, <1>2, <2>1, <2>2, <2>3, RunnerWrites
<1>3. CASE ~(Current(rec[p]) /\ MayBecome(target))
  <2>1. UNCHANGED <<journal, rec>> /\ Goto(p, otherwise)
    BY <1>3 DEF Transition
  <2>2. rec[p].status \in RecordAt(label)
    BY <1>1 DEF Control, Holding
  <2>. QED  BY <1>1, <2>1, <2>2, RecordFacts, RunnerReads, TypedFacts
<1>. QED  BY <1>2, <1>3

(* The runner appends evidence.                                            *)
LEMMA EvidenceControl ==
    ASSUME Typed, Typed', Control, NEW p \in Process, NEW label \in RunnerPc, NEW kind, NEW next,
           next.pc \in AfterPc \ {"close", "forward_stopped", "reconcile"},
           RecordAt(label) \subseteq RecordAt(next.pc),
           NEW otherwise \in {"safe_failure", "reconcile"},
           otherwise = "reconcile" => RecordAt(label) \subseteq AmbiguousStates,
           Evidence(p, label, kind, next, otherwise)
    PROVE  Control'
<1>1. pc[p] = label /\ UNCHANGED <<review, held, outcome>>
  BY DEF Evidence
<1>2. rec[p].status \in RecordAt(label) /\ Remembers(rec[p]) /\ journal.status \notin Unapproved
  BY <1>1 DEF Control, Holding, RunnerPc
<1>3. CASE UNCHANGED <<journal, rec, at>> /\ Goto(p, otherwise)
  BY <1>1, <1>2, <1>3, RecordFacts, RunnerReads, TypedFacts
<1>4. CASE ~(UNCHANGED <<journal, rec, at>> /\ Goto(p, otherwise))
  <2>1. /\ Current(rec[p]) /\ rec' = [rec EXCEPT ![p] = Seen(journal')] /\ Goto(p, next.pc)
        /\ journal'.status = journal.status /\ journal'.generation = journal.generation + 1
    BY <1>4, EvidenceFacts DEF Fields
  <2>2. journal.status = rec[p].status
    BY <1>2, <2>1 DEF Remembers, Current, Seen
  <2>. QED  BY <1>1, <1>2, <2>1, <2>2, RunnerWrites
<1>. QED  BY <1>3, <1>4

(* The runner moves the ownership of a port forward on.                    *)
LEMMA OwnsControl ==
    ASSUME Typed, Typed', Control, NEW p \in Process, NEW label \in RunnerPc, NEW from, NEW to,
           NEW status \in StatusStates \ Unapproved, NEW next \in AfterPc,
           status \in RecordAt(next),
           next = "reconcile" => status \in AmbiguousStates,
           next \notin {"close", "forward_stopped"},
           NEW otherwise \in {"safe_failure", "reconcile"},
           otherwise = "reconcile" => RecordAt(label) \subseteq AmbiguousStates,
           Owns(p, label, from, to, status, next, otherwise),
           UNCHANGED <<review, held, outcome>>
    PROVE  Control'
<1>1. pc[p] = label
  BY DEF Owns
<1>2. rec[p].status \in RecordAt(label)
  BY <1>1 DEF Control, Holding
<1>3. CASE UNCHANGED <<journal, rec>> /\ Goto(p, otherwise)
  BY <1>1, <1>2, <1>3, RecordFacts, RunnerReads, TypedFacts
<1>4. CASE ~(UNCHANGED <<journal, rec>> /\ Goto(p, otherwise))
  <2>1. /\ Current(rec[p]) /\ rec' = [rec EXCEPT ![p] = Seen(journal')] /\ Goto(p, next)
        /\ journal'.status = status /\ journal'.generation = journal.generation + 1
        /\ status # journal.status => status \in Transitions[journal.status]
    BY <1>4, OwnsFacts DEF Fields
  <2>. QED  BY <1>1, <2>1, RunnerWrites
<1>. QED  BY <1>3, <1>4

(* The transitions of the runner keep Control.                             *)
LEMMA TransitionsControl ==
    ASSUME Typed, Typed', Control, NEW p \in Process,
           DryRunFailed(p) \/ DryRunPassed(p) \/ Start(p) \/ CommandLost(p) \/ Mutated(p)
             \/ Probing(p) \/ Succeed(p) \/ RollbackStart(p) \/ RollbackEnd(p)
             \/ TlsProbing(p) \/ ForwardFailed(p) \/ Reconciling(p)
    PROVE  Control'
<1>1. {"dry_run_failed", "dry_run_passed", "start", "command_lost", "mutated", "probing",
       "succeed", "rollback_start", "rollback_end", "tls_probing", "forward_failed",
       "reconciling"} \subseteq RunnerPc
  BY DEF RunnerPc, RunPc, VisitPc, PcStates
<1>2. {"result", "mutate", "probing", "probe", "rollback", "start", "forward_intent",
       "tls_probe"} \subseteq AfterPc \ {"close", "forward_stopped", "reconcile"}
  BY DEF AfterPc, RunPc, VisitPc, PcStates
<1>3. {"FAILED", "SERVER_DRY_RUN_PASSED", "MUTATION_STARTED", "RECONCILIATION_REQUIRED",
       "MUTATED", "PROBING", "SUCCEEDED", "ROLLBACK_STARTED", "ROLLED_BACK", "TLS_DC8_PROBING"}
         \subseteq StatusStates \ Unapproved
  BY DEF StatusStates, Unapproved, EarlyStates, AmbiguousStates, ForwardStates, ClosedStates
<1>4. /\ "MUTATION_STARTED" \in RecordAt("mutate") /\ "MUTATED" \in RecordAt("probing")
      /\ "PROBING" \in RecordAt("probe") /\ "ROLLBACK_STARTED" \in RecordAt("rollback")
      /\ "SERVER_DRY_RUN_PASSED" \in RecordAt("start")
      /\ "SERVER_DRY_RUN_PASSED" \in RecordAt("forward_intent")
      /\ "TLS_DC8_PROBING" \in RecordAt("tls_probe")
      /\ RecordAt("rollback_start") \subseteq AmbiguousStates
      /\ RecordAt("rollback_end") \subseteq AmbiguousStates
  BY DEF RecordAt, AmbiguousStates, ForwardStates
<1>5. Fallback \in {"safe_failure", "reconcile"}
  BY DEF Fallback
<1>6. ASSUME DryRunFailed(p) \/ CommandLost(p) \/ ForwardFailed(p) \/ Reconciling(p) \/ Succeed(p)
      PROVE  Control'
  BY <1>1, <1>2, <1>3, <1>6, TransitionControl, RecordFacts
     DEF DryRunFailed, CommandLost, ForwardFailed, Reconciling, Succeed
<1>7. ASSUME Start(p) \/ Mutated(p) \/ Probing(p) \/ TlsProbing(p) PROVE Control'
  BY <1>1, <1>2, <1>3, <1>4, <1>7, TransitionControl DEF Start, Mutated, Probing, TlsProbing
<1>8. ASSUME DryRunPassed(p) PROVE Control'
  <2>1. PICK next \in {"start", "forward_intent", "result"} :
          Transition(p, "dry_run_passed", "SERVER_DRY_RUN_PASSED", next, "safe_failure")
    BY <1>8 DEF DryRunPassed
  <2>. QED  BY <1>1, <1>2, <1>3, <1>4, <2>1, TransitionControl, RecordFacts
<1>9. ASSUME RollbackStart(p) PROVE Control'
  BY <1>1, <1>2, <1>3, <1>4, <1>5, <1>9, TransitionControl DEF RollbackStart
<1>10. ASSUME RollbackEnd(p) PROVE Control'
  <2>1. PICK target \in {"RECONCILIATION_REQUIRED", "ROLLED_BACK"} :
          Transition(p, "rollback_end", target, "result", Fallback)
    BY <1>10 DEF RollbackEnd
  <2>. QED  BY <1>1, <1>2, <1>3, <1>4, <1>5, <2>1, TransitionControl, RecordFacts
<1>. QED  BY <1>6, <1>7, <1>8, <1>9, <1>10

(* Evidence and the ownership of forwards keep Control.                    *)
LEMMA RecordedControl ==
    ASSUME Typed, Typed', Control, NEW p \in Process,
           DryRunRecorded(p) \/ MutationRecorded(p) \/ ProbeRecorded(p) \/ UndoRecorded(p)
    PROVE  Control'
<1>1. EvidencePc \subseteq RunnerPc
  BY DEF EvidencePc, RunnerPc, RunPc, VisitPc, PcStates
<1>2. {"dry_run_failed", "dry_run", "dry_run_passed", "rollback_start", "mutate", "mutated",
       "probe", "forward_intent", "succeed", "rollback", "rollback_end"}
         \subseteq AfterPc \ {"close", "forward_stopped", "reconcile"}
  BY DEF AfterPc, RunPc, VisitPc, PcStates
<1>3. ASSUME DryRunRecorded(p) PROVE Control'
  <2>1. DryRunNext(p).pc \in {"dry_run_failed", "dry_run", "dry_run_passed"}
    BY DEF DryRunNext, Then
  <2>2. Evidence(p, "dry_run_evidence", "server_dry_run", DryRunNext(p), "safe_failure")
    BY <1>3 DEF DryRunRecorded
  <2>3. RecordAt("dry_run_evidence") \subseteq RecordAt(DryRunNext(p).pc)
    BY <2>1 DEF RecordAt
  <2>. QED  BY <1>1, <1>2, <2>1, <2>2, <2>3, EvidenceControl DEF EvidencePc
<1>4. ASSUME MutationRecorded(p) PROVE Control'
  <2>1. MutationNext(p).pc \in {"rollback_start", "mutate", "mutated"}
    BY DEF MutationNext, Then
  <2>2. Evidence(p, "mutation_evidence", "mutation", MutationNext(p), "safe_failure")
    BY <1>4 DEF MutationRecorded
  <2>3. RecordAt("mutation_evidence") \subseteq RecordAt(MutationNext(p).pc)
    BY <2>1 DEF RecordAt
  <2>. QED  BY <1>1, <1>2, <2>1, <2>2, <2>3, EvidenceControl DEF EvidencePc
<1>5. ASSUME ProbeRecorded(p) PROVE Control'
  <2>1. ProbeNext(p).pc \in {"rollback_start", "probe", "forward_intent", "succeed"}
    BY DEF ProbeNext, Then
  <2>2. Evidence(p, "probe_evidence", "readiness_probe", ProbeNext(p), "safe_failure")
    BY <1>5 DEF ProbeRecorded
  <2>3. RecordAt("probe_evidence") \subseteq RecordAt(ProbeNext(p).pc)
    BY <2>1 DEF RecordAt
  <2>. QED  BY <1>1, <1>2, <2>1, <2>2, <2>3, EvidenceControl DEF EvidencePc
<1>6. ASSUME UndoRecorded(p) PROVE Control'
  <2>1. UndoNext(p).pc \in {"rollback", "rollback_end"}
    BY DEF UndoNext, Then
  <2>2. Fallback \in {"safe_failure", "reconcile"}
    BY DEF Fallback
  <2>3. /\ RecordAt("rollback_evidence") \subseteq RecordAt(UndoNext(p).pc)
        /\ RecordAt("rollback_evidence") \subseteq AmbiguousStates
    BY <2>1 DEF RecordAt, AmbiguousStates
  <2>. QED
    BY <1>1, <1>2, <1>6, <2>1, <2>2, <2>3, EvidenceControl DEF UndoRecorded, EvidencePc
<1>. QED  BY <1>3, <1>4, <1>5, <1>6

LEMMA OwnershipControl ==
    ASSUME Typed, Typed', Control, NEW p \in Process,
           ForwardIntent(p) \/ ForwardStarted(p) \/ ForwardStopped(p) \/ ForwardAmbiguous(p)
    PROVE  Control'
<1>1. {"forward_intent", "forward_started", "forward_stopped", "forward_ambiguous"}
        \subseteq RunnerPc
  BY DEF RunnerPc, RunPc, VisitPc, PcStates
<1>2. {"spawn", "wait_ready", "reconcile", "forward_intent", "succeed", "rollback_start",
       "forward_failed"} \subseteq AfterPc
  BY DEF AfterPc, RunPc, VisitPc, PcStates
<1>3. AmbiguousStates \subseteq StatusStates \ Unapproved
  BY DEF AmbiguousStates, ForwardStates, StatusStates, Unapproved
<1>4. ASSUME ForwardIntent(p) PROVE Control'
  <2>1. "PORT_FORWARD_INTENT" \in AmbiguousStates /\ "PORT_FORWARD_INTENT" \in RecordAt("spawn")
    BY DEF AmbiguousStates, ForwardStates, RecordAt
  <2>. QED  BY <1>1, <1>2, <1>3, <1>4, <2>1, OwnsControl DEF ForwardIntent
<1>5. ASSUME ForwardStarted(p) PROVE Control'
  <2>1. /\ "PORT_FORWARD_STARTED" \in AmbiguousStates
        /\ "PORT_FORWARD_STARTED" \in RecordAt("wait_ready")
        /\ RecordAt("forward_started") \subseteq AmbiguousStates
    BY DEF AmbiguousStates, ForwardStates, RecordAt
  <2>. QED  BY <1>1, <1>2, <1>3, <1>5, <2>1, OwnsControl DEF ForwardStarted
<1>6. ASSUME pc[p] \in {"forward_stopped", "forward_ambiguous"}, Current(rec[p])
      PROVE  /\ journal.status \in {"PORT_FORWARD_STARTED", "TLS_DC8_PROBING"}
             /\ outcome[p] = "rejected" /\ pc[p] = "forward_stopped" =>
                    journal.status = "TLS_DC8_PROBING"
  <2>1. Holding(p)
    BY DEF Control
  <2>. QED  BY <1>6, <2>1 DEF Holding, Remembers, Current, Seen, RecordAt
<1>7. /\ RecordAt("forward_stopped") \subseteq AmbiguousStates
      /\ RecordAt("forward_ambiguous") \subseteq AmbiguousStates
      /\ {"PORT_FORWARD_STARTED", "TLS_DC8_PROBING"} \subseteq AmbiguousStates
  BY DEF AmbiguousStates, ForwardStates, RecordAt
<1>8. ASSUME pc[p] \in {"forward_stopped", "forward_ambiguous"}, ~Current(rec[p]),
             Goto(p, "reconcile"), UNCHANGED <<journal, review, held, rec, outcome>>
      PROVE  Control'
  <2>1. rec[p].status \in AmbiguousStates
    BY <1>7, <1>8 DEF Control, Holding
  <2>. QED  BY <1>1, <1>8, <2>1, RecordFacts, RunnerReads, TypedFacts
<1>9. ASSUME ForwardStopped(p) PROVE Control'
  <2>1. /\ Owns(p, "forward_stopped", "STARTED", "STOPPED", journal.status,
                ForwardNext(p).pc, "reconcile")
        /\ pc[p] = "forward_stopped"
        /\ UNCHANGED <<review, held, outcome>>
    BY <1>9 DEF ForwardStopped, Owns
  <2>2. CASE Current(rec[p])
    <3>1. ForwardNext(p).pc \in
            {"reconcile", "forward_intent", "succeed", "rollback_start", "forward_failed"}
      BY DEF ForwardNext, Then
    <3>2. journal.status \in RecordAt(ForwardNext(p).pc)
      BY <1>6, <2>1, <2>2 DEF ForwardNext, Then, RecordAt, StatusStates, AmbiguousStates,
                               ForwardStates
    <3>. QED  BY <1>1, <1>2, <1>3, <1>6, <1>7, <2>1, <2>2, <3>1, <3>2, OwnsControl
  <2>3. CASE ~Current(rec[p])
    <3>1. Goto(p, "reconcile") /\ UNCHANGED <<journal, rec>>
      BY <2>1, <2>3 DEF Owns
    <3>. QED  BY <1>8, <2>1, <2>3, <3>1
  <2>. QED  BY <2>2, <2>3
<1>10. ASSUME ForwardAmbiguous(p) PROVE Control'
  <2>1. /\ Owns(p, "forward_ambiguous", "STARTED", "CLEANUP_AMBIGUOUS", journal.status,
                "reconcile", "reconcile")
        /\ pc[p] = "forward_ambiguous"
        /\ UNCHANGED <<review, held, outcome>>
    BY <1>10 DEF ForwardAmbiguous, Owns
  <2>2. CASE Current(rec[p])
    <3>1. journal.status \in RecordAt("reconcile")
      BY RecordFacts, TypedFacts
    <3>. QED  BY <1>1, <1>2, <1>3, <1>6, <1>7, <2>1, <2>2, <3>1, OwnsControl
  <2>3. CASE ~Current(rec[p])
    <3>1. Goto(p, "reconcile") /\ UNCHANGED <<journal, rec>>
      BY <2>1, <2>3 DEF Owns
    <3>. QED  BY <1>8, <2>1, <2>3, <3>1
  <2>. QED  BY <2>2, <2>3
<1>. QED  BY <1>4, <1>5, <1>9, <1>10

(* The commands and the steps around a port-forward child keep Control.    *)
LEMMA CommandControl ==
    ASSUME Typed, Typed', Control, NEW p \in Process,
           DryRuns(p) \/ Mutate(p) \/ UpgradeEnds(p) \/ Probes(p) \/ Rollback(p) \/ UndoEnds(p)
             \/ Spawn(p) \/ WaitReady(p) \/ TlsProbes(p) \/ TlsRecorded(p) \/ Close(p)
    PROVE  Control'
<1>1. {"dry_run", "mutate", "upgrading", "probe", "rollback", "undoing", "spawn", "wait_ready",
       "tls_probe", "tls_evidence", "close"} \subseteq RunnerPc
  BY DEF RunnerPc, RunPc, VisitPc, PcStates
<1>2. {"safe_failure", "dry_run_evidence", "upgrading", "command_lost", "mutation_evidence",
       "probe_evidence", "undoing", "rollback", "rollback_end", "rollback_evidence",
       "forward_started", "reconcile", "tls_probing", "close", "tls_evidence",
       "forward_stopped", "forward_ambiguous"} \subseteq AfterPc
  BY DEF AfterPc, RunPc, VisitPc, PcStates
<1>3. /\ rec[p].status \in RecordAt(pc[p]) /\ rec[p].status \in RecordAt("safe_failure")
      /\ pc \in [Process -> PcStates] /\ outcome \in [Process -> Outcomes]
      /\ pc[p] \in {"close", "forward_stopped"} /\ outcome[p] = "rejected" =>
            rec[p].status = "TLS_DC8_PROBING"
  BY TypedFacts, RecordFacts DEF Control, Holding, Typed, TypeOK
<1>4. ASSUME NEW label \in AfterPc, Goto(p, label), pc[p] \in RunnerPc,
             UNCHANGED <<journal, review, held, rec>>,
             NEW o \in Outcomes, outcome' = [outcome EXCEPT ![p] = o],
             rec[p].status \in RecordAt(label), label # "reconcile",
             label \in {"close", "forward_stopped"} /\ o = "rejected" =>
                rec[p].status = "TLS_DC8_PROBING"
      PROVE  Control'
  <2>1. outcome'[p] = o /\ \A q \in Process \ {p} : outcome'[q] = outcome[q]
    BY <1>3, <1>4
  <2>. QED  BY <1>4, <2>1, RunnerReads
<1>5. ASSUME DryRuns(p) PROVE Control'
  <2>1. PICK o \in {"succeeded", "failed", "lost"} :
          /\ outcome' = [outcome EXCEPT ![p] = o]
          /\ Goto(p, IF o = "lost" THEN "safe_failure" ELSE "dry_run_evidence")
    BY <1>5 DEF DryRuns
  <2>2. /\ pc[p] = "dry_run" /\ UNCHANGED <<journal, review, held, rec>>
        /\ rec[p].status \in RecordAt("dry_run_evidence")
    BY <1>3, <1>5 DEF DryRuns, RecordAt
  <2>. QED  BY <1>1, <1>2, <1>3, <1>4, <2>1, <2>2 DEF Outcomes
<1>6. ASSUME Mutate(p) \/ Rollback(p) PROVE Control'
  <2>1. /\ UNCHANGED <<journal, review, held, rec, outcome>> /\ pc[p] \in {"mutate", "rollback"}
        /\ Goto(p, IF pc[p] = "mutate" THEN "upgrading" ELSE "undoing")
    BY <1>6 DEF Mutate, Rollback, local
  <2>2. rec[p].status \in RecordAt(IF pc[p] = "mutate" THEN "upgrading" ELSE "undoing")
    BY <1>3, <2>1 DEF RecordAt
  <2>. QED  BY <1>1, <1>2, <2>1, <2>2, RunnerReads
<1>7. ASSUME UpgradeEnds(p) PROVE Control'
  <2>1. PICK o \in {"succeeded", "failed", "lost"} :
          /\ outcome' = [outcome EXCEPT ![p] = o]
          /\ Goto(p, IF o = "lost" THEN "command_lost" ELSE "mutation_evidence")
    BY <1>7 DEF UpgradeEnds
  <2>2. /\ pc[p] = "upgrading" /\ UNCHANGED <<journal, review, held, rec>>
        /\ rec[p].status \in RecordAt("command_lost")
        /\ rec[p].status \in RecordAt("mutation_evidence")
    BY <1>3, <1>7 DEF UpgradeEnds, RecordAt
  <2>. QED  BY <1>1, <1>2, <1>3, <1>4, <2>1, <2>2 DEF Outcomes
<1>8. ASSUME Probes(p) PROVE Control'
  <2>1. PICK o \in {"succeeded", "failed", "lost"} :
          /\ outcome' = [outcome EXCEPT ![p] = o]
          /\ Goto(p, IF o = "lost" THEN "command_lost" ELSE "probe_evidence")
    BY <1>8 DEF Probes
  <2>2. /\ pc[p] = "probe" /\ UNCHANGED <<journal, review, held, rec>>
        /\ rec[p].status \in RecordAt("command_lost")
        /\ rec[p].status \in RecordAt("probe_evidence")
    BY <1>3, <1>8 DEF Probes, RecordAt
  <2>. QED  BY <1>1, <1>2, <1>3, <1>4, <2>1, <2>2 DEF Outcomes
<1>9. ASSUME UndoEnds(p) PROVE Control'
  <2>1. PICK o \in {"succeeded", "failed", "lost"} :
          /\ outcome' = [outcome EXCEPT ![p] = o]
          /\ \/ Goto(p, UndoNext(p).pc)
             \/ Goto(p, "rollback_evidence")
    BY <1>9 DEF UndoEnds
  <2>2. UndoNext(p).pc \in {"rollback", "rollback_end"}
    BY DEF UndoNext, Then
  <2>3. /\ pc[p] = "undoing" /\ UNCHANGED <<journal, review, held, rec>>
        /\ \A label \in {"rollback", "rollback_end", "rollback_evidence"} :
              rec[p].status \in RecordAt(label)
    BY <1>3, <1>9 DEF UndoEnds, RecordAt
  <2>4. PICK label \in {"rollback", "rollback_end", "rollback_evidence"} : Goto(p, label)
    BY <2>1, <2>2
  <2>. QED  BY <1>1, <1>2, <1>3, <1>4, <2>1, <2>3, <2>4 DEF Outcomes
<1>10. ASSUME Spawn(p) PROVE Control'
  <2>1. /\ pc[p] = "spawn" /\ UNCHANGED <<journal, review, held, rec, outcome>>
        /\ rec[p].status \in RecordAt("forward_started")
        /\ rec[p].status \in AmbiguousStates
    BY <1>3, <1>10 DEF Spawn, RecordAt, local, AmbiguousStates, ForwardStates
  <2>2. PICK label \in {"forward_started", "reconcile"} : Goto(p, label)
    BY <1>10 DEF Spawn
  <2>. QED  BY <1>1, <1>2, <1>3, <2>1, <2>2, RunnerReads, RecordFacts
<1>11. ASSUME WaitReady(p) PROVE Control'
  <2>1. PICK o \in {"ready", "failed", "ambiguous"} :
          /\ outcome' = [outcome EXCEPT ![p] = o]
          /\ Goto(p, IF o = "ready" THEN "tls_probing" ELSE "close")
    BY <1>11 DEF WaitReady
  <2>2. /\ pc[p] = "wait_ready" /\ UNCHANGED <<journal, review, held, rec>>
        /\ rec[p].status \in RecordAt("tls_probing")
        /\ rec[p].status \in RecordAt("close")
    BY <1>3, <1>11 DEF WaitReady, RecordAt
  <2>. QED  BY <1>1, <1>2, <1>3, <1>4, <2>1, <2>2 DEF Outcomes
<1>12. ASSUME TlsProbes(p) PROVE Control'
  <2>1. PICK o \in {"rejected", "accepted", "ambiguous"} :
          outcome' = [outcome EXCEPT ![p] = o] /\ Goto(p, "tls_evidence")
    BY <1>12 DEF TlsProbes
  <2>2. /\ pc[p] = "tls_probe" /\ UNCHANGED <<journal, review, held, rec>>
        /\ rec[p].status \in RecordAt("tls_evidence")
    BY <1>3, <1>12 DEF TlsProbes, RecordAt
  <2>. QED  BY <1>1, <1>2, <1>3, <1>4, <2>1, <2>2 DEF Outcomes
<1>13. ASSUME TlsRecorded(p) PROVE Control'
  <2>1. /\ pc[p] = "tls_evidence" /\ UNCHANGED <<review, held>> /\ Goto(p, "close")
        /\ rec[p].status = "TLS_DC8_PROBING"
    BY <1>3, <1>13 DEF TlsRecorded, RecordAt
  <2>2. CASE outcome' = [outcome EXCEPT ![p] = "ambiguous"] /\ UNCHANGED <<journal, rec>>
    <3>1. rec[p].status \in RecordAt("close")
      BY <2>1 DEF RecordAt
    <3>. QED  BY <1>1, <1>2, <1>4, <2>1, <2>2, <3>1 DEF Outcomes
  <2>3. CASE ~(outcome' = [outcome EXCEPT ![p] = "ambiguous"] /\ UNCHANGED <<journal, rec>>)
    <3>1. /\ Current(rec[p]) /\ rec' = [rec EXCEPT ![p] = Seen(journal')]
          /\ UNCHANGED outcome /\ journal.status = "TLS_DC8_PROBING"
          /\ journal'.status = journal.status /\ journal'.generation = journal.generation + 1
      BY <1>13, <2>3, TlsRecordedFacts DEF Fields
    <3>2. "TLS_DC8_PROBING" \in RecordAt("close") /\ "TLS_DC8_PROBING" \notin Unapproved
      BY DEF RecordAt, Unapproved
    <3>. QED  BY <1>1, <1>2, <2>1, <3>1, <3>2, RunnerWrites
  <2>. QED  BY <2>2, <2>3
<1>14. ASSUME Close(p) PROVE Control'
  <2>1. /\ pc[p] = "close" /\ UNCHANGED <<journal, review, held, rec, outcome>>
        /\ rec[p].status \in RecordAt("forward_stopped")
        /\ rec[p].status \in RecordAt("forward_ambiguous")
    BY <1>3, <1>14 DEF Close, RecordAt, local
  <2>2. PICK label \in {"forward_stopped", "forward_ambiguous"} : Goto(p, label)
    BY <1>14 DEF Close
  <2>. QED  BY <1>1, <1>2, <1>3, <2>1, <2>2, RunnerReads
<1>. QED
  BY <1>5, <1>6, <1>7, <1>8, <1>9, <1>10, <1>11, <1>12, <1>13, <1>14

(* A step that changes only where one process is, outside the commands.    *)
LEMMA SettleControl ==
    ASSUME Typed, Typed', Control, NEW p \in Process, Holding(p)',
           \A q \in Process \ {p} : Holding(q)',
           \A q \in Process \ {p} : pc'[q] = pc[q],
           pc'[p] \in RunPc => pc[p] \in RunPc \/ journal.status \in Unapproved,
           (journal.status = "ABSENT" <=> journal.generation = 0)',
           AcceptedSucceeded'
    PROVE  Control'
<1>1. (\A r, q \in Process : pc[r] \in RunPc /\ pc[q] \in RunPc => r = q)'
  <2>1. pc'[p] \in RunPc => \A q \in Process \ {p} : pc[q] \notin RunPc
    BY DEF Control, Holding
  <2>. QED  BY <2>1 DEF Control
<1>. QED  BY <1>1 DEF Control

(* The steps of a visit that read the row keep Control.                    *)
LEMMA ReadControl ==
    ASSUME Typed, Typed', Control, NEW p \in Process,
           Visit(p) \/ Capture(p) \/ Launch(p) \/ Reconcile(p) \/ Result(p)
    PROVE  Control'
<1>1. UNCHANGED <<journal, review>>
  BY DEF Visit, Capture, Launch, Reconcile, Result
<1>2. (journal.status = "ABSENT" <=> journal.generation = 0)' /\ AcceptedSucceeded'
  BY <1>1 DEF Control, AcceptedSucceeded
<1>3. \A q \in Process \ {p} : /\ pc'[q] = pc[q] /\ rec'[q] = rec[q]
                               /\ held'[q] = held[q] /\ outcome'[q] = outcome[q]
  BY DEF Visit, Capture, Launch, Reconcile, Result, Goto, Typed, TypeOK, local
<1>4. \A q \in Process \ {p} : Holding(q)'
  BY <1>1, <1>3, OthersHold DEF Control
<1>5. Holding(p) /\ Remembers(Seen(journal))
  BY RemembersRead DEF Control
<1>6. Remembers(Seen(journal))' /\ (Remembers(rec[p]))
  BY <1>1, <1>5 DEF Remembers, Seen, Holding
<1>7. /\ \A label : Goto(p, label) => pc'[p] = label
      /\ \A x : rec' = [rec EXCEPT ![p] = x] => rec'[p] = x
      /\ \A x : held' = [held EXCEPT ![p] = x] => held'[p] = x
  BY DEF Goto, Typed, TypeOK
<1>8. ASSUME Visit(p) PROVE Holding(p)' /\ pc'[p] \notin RunPc
  <2>1. /\ pc'[p] \in {"create", "capture", "accept", "safe_failure"}
        /\ pc'[p] = "capture" => journal.status = "STATIC_VALIDATED"
        /\ pc'[p] = "accept" => journal.status = "SUCCEEDED"
        /\ held'[p] = Seen(journal) /\ rec' = rec
    BY <1>7, <1>8 DEF Visit
  <2>2. pc'[p] \notin RunPc
    BY <2>1 DEF RunPc, VisitPc
  <2>3. rec'[p].status \in RecordAt(pc'[p]) /\ held'[p].status \in HeldAt(pc'[p])
    BY <2>1, TypedFacts DEF RecordAt, HeldAt, Seen
  <2>4. Remembers(rec[p])' /\ Remembers(held[p])'
    BY <1>1, <1>5, <2>1 DEF Holding, Remembers, Seen
  <2>. QED  BY <1>1, <2>1, <2>2, <2>3, <2>4 DEF Holding, RunPc, VisitPc, PcStates
<1>9. ASSUME Capture(p) PROVE Holding(p)' /\ pc'[p] \notin RunPc
  <2>1. /\ pc'[p] \in {"attach_snapshot", "safe_failure"} /\ pc[p] = "capture"
        /\ UNCHANGED <<rec, held>>
    BY <1>7, <1>9 DEF Capture, local
  <2>2. pc'[p] \notin RunPc
    BY <2>1 DEF RunPc, VisitPc
  <2>3. rec'[p].status \in RecordAt(pc'[p]) /\ held'[p].status \in HeldAt(pc'[p])
    BY <1>5, <2>1, TypedFacts DEF Holding, RecordAt, HeldAt
  <2>4. Remembers(rec[p])' /\ Remembers(held[p])'
    BY <1>1, <1>5, <2>1 DEF Holding, Remembers
  <2>. QED  BY <1>1, <2>1, <2>2, <2>3, <2>4 DEF Holding, RunPc, VisitPc, PcStates
<1>10. ASSUME Launch(p) PROVE Holding(p)' /\ pc[p] \in RunPc
  <2>1. /\ pc'[p] \in {"result", "dry_run", "safe_failure", "forward_intent"}
        /\ pc'[p] \in {"dry_run", "forward_intent"} => journal.status = "APPROVED"
        /\ pc[p] = "launch" /\ rec'[p] = Seen(journal) /\ held' = held
    <3>1. \E label \in {"result", "dry_run", "safe_failure", "forward_intent"} :
            /\ Goto(p, label)
            /\ label \in {"dry_run", "forward_intent"} => journal.status = "APPROVED"
      <4>. DEFINE first == IF journal.status # "APPROVED" THEN "result"
                           ELSE IF DryRun # {} THEN "dry_run"
                           ELSE IF Mutation # {} THEN "safe_failure"
                           ELSE "forward_intent"
      <4>1. Goto(p, first) \/ Goto(p, "safe_failure")
        BY <1>10 DEF Launch
      <4>2. /\ first \in {"result", "dry_run", "safe_failure", "forward_intent"}
            /\ first \in {"dry_run", "forward_intent"} => journal.status = "APPROVED"
        OBVIOUS
      <4>. HIDE DEF first
      <4>. QED  BY <4>1, <4>2
    <3>2. /\ pc[p] = "launch" /\ rec' = [rec EXCEPT ![p] = Seen(journal)] /\ held' = held
      BY <1>10 DEF Launch
    <3>. QED  BY <1>7, <3>1, <3>2
  <2>2. pc[p] \in RunPc
    BY <2>1 DEF RunPc, VisitPc, PcStates
  <2>3. rec'[p].status \in RecordAt(pc'[p]) /\ held'[p].status \in HeldAt(pc'[p])
    BY <2>1, TypedFacts DEF RecordAt, HeldAt, Seen
  <2>4. Remembers(rec[p])' /\ Remembers(held[p])'
    BY <1>1, <1>5, <2>1 DEF Holding, Remembers, Seen
  <2>5. Current(rec[p])' /\ journal'.status \notin Unapproved
    BY <1>1, <1>5, <2>1, <2>2 DEF Current, Seen, Holding
  <2>. QED  BY <1>1, <2>1, <2>2, <2>3, <2>4, <2>5 DEF Holding
<1>11. ASSUME Reconcile(p) PROVE Holding(p)' /\ pc[p] \in RunPc
  <2>1. /\ pc'[p] = IF journal.status = "RECONCILIATION_REQUIRED" THEN "result" ELSE "reconciling"
        /\ pc[p] = "reconcile" /\ rec'[p] = Seen(journal) /\ held' = held
    BY <1>7, <1>11 DEF Reconcile
  <2>2. pc[p] \in RunPc
    BY <2>1 DEF RunPc, VisitPc, PcStates
  <2>3. rec'[p].status \in RecordAt(pc'[p]) /\ held'[p].status \in HeldAt(pc'[p])
    BY <1>5, <2>1, TypedFacts DEF Holding, RecordAt, HeldAt, Seen
  <2>4. Remembers(rec[p])' /\ Remembers(held[p])'
    BY <1>1, <1>5, <2>1 DEF Holding, Remembers, Seen
  <2>5. Current(rec[p])' /\ journal'.status \notin Unapproved
    BY <1>1, <1>5, <2>1, <2>2 DEF Current, Seen, Holding
  <2>. QED  BY <1>1, <2>1, <2>2, <2>3, <2>4, <2>5 DEF Holding
<1>12. ASSUME Result(p) PROVE Holding(p)' /\ pc'[p] \notin RunPc
  <2>1. /\ pc'[p] = IF rec[p].status = "SUCCEEDED" THEN "accept" ELSE "safe_failure"
        /\ held'[p] = rec[p] /\ rec' = rec
    BY <1>7, <1>12 DEF Result
  <2>2. pc'[p] \notin RunPc
    BY <2>1 DEF RunPc, VisitPc
  <2>3. rec'[p].status \in RecordAt(pc'[p]) /\ held'[p].status \in HeldAt(pc'[p])
    BY <2>1, TypedFacts DEF RecordAt, HeldAt
  <2>4. /\ Remembers(rec[p])' /\ Remembers(held[p])'
        /\ rec[p].status = "SUCCEEDED" => journal'.status = "SUCCEEDED"
    BY <1>1, <1>5, <2>1 DEF Holding, Remembers
  <2>. QED  BY <1>1, <2>1, <2>2, <2>3, <2>4 DEF Holding, RunPc, VisitPc, PcStates
<1>. QED
  BY <1>2, <1>3, <1>4, <1>8, <1>9, <1>10, <1>11, <1>12, SettleControl

(* While the row is not approved a write of it concerns no runner.         *)
LEMMA UnapprovedHold ==
    ASSUME Typed, Control, NEW q \in Process,
           pc'[q] = pc[q], rec'[q] = rec[q], held'[q] = held[q], outcome'[q] = outcome[q],
           journal.status \in Unapproved, journal'.generation = journal.generation + 1
    PROVE  Holding(q)'
BY OthersHold DEF Control, Holding, Unapproved

(* The writes before the approval keep Control.                            *)
LEMMA PrepareControl ==
    ASSUME Typed, Typed', Control, NEW p \in Process,
           Create(p) \/ Validate(p) \/ AttachSnapshot(p) \/ AttachApproval(p)
    PROVE  Control'
<1>1. UNCHANGED review
  BY DEF Create, Validate, AttachSnapshot, AttachApproval, Attach
<1>2. \A q \in Process \ {p} : /\ pc'[q] = pc[q] /\ rec'[q] = rec[q]
                               /\ held'[q] = held[q] /\ outcome'[q] = outcome[q]
  BY DEF Create, Validate, AttachSnapshot, AttachApproval, Attach, Goto, Typed, TypeOK
<1>3. /\ \A label : Goto(p, label) => pc'[p] = label
      /\ \A x : rec' = [rec EXCEPT ![p] = x] => rec'[p] = x
      /\ \A x : held' = [held EXCEPT ![p] = x] => held'[p] = x
  BY DEF Goto, Typed, TypeOK
<1>4. /\ Holding(p) /\ rec[p].status \in RecordAt(pc[p]) /\ held[p].status \in HeldAt(pc[p])
      /\ Remembers(rec[p]) /\ Remembers(held[p])
  BY DEF Control, Holding
<1>5. rec[p] \in SeenRow /\ held[p] \in SeenRow
  BY TypedFacts
<1>6. ASSUME UNCHANGED <<journal, rec, held>>, pc'[p] \in {"block", "safe_failure"}
      PROVE  Control'
  <2>1. pc'[p] \notin RunPc
    BY <1>6 DEF RunPc, VisitPc
  <2>2. \A q \in Process \ {p} : Holding(q)'
    BY <1>2, <1>6, OthersHold DEF Control
  <2>3. rec'[p].status \in RecordAt(pc'[p]) /\ held'[p].status \in HeldAt(pc'[p])
    BY <1>6, TypedFacts DEF RecordAt, HeldAt
  <2>4. Remembers(rec[p])' /\ Remembers(held[p])'
    BY <1>4, <1>6 DEF Remembers
  <2>5. Holding(p)'
    BY <1>6, <2>1, <2>3, <2>4 DEF Holding, RunPc, VisitPc, PcStates
  <2>6. (journal.status = "ABSENT" <=> journal.generation = 0)' /\ AcceptedSucceeded'
    BY <1>1, <1>6 DEF Control, AcceptedSucceeded
  <2>. QED  BY <1>2, <2>1, <2>2, <2>5, <2>6, SettleControl
<1>7. ASSUME journal.status \in Unapproved, journal'.generation = journal.generation + 1,
             journal'.status \in StatusStates, Holding(p)'
      PROVE  Control'
  <2>1. \A q \in Process \ {p} : Holding(q)'
    BY <1>2, <1>7, UnapprovedHold
  <2>2. (journal.status = "ABSENT" <=> journal.generation = 0)'
    BY <1>7, TypedFacts DEF StatusStates, EarlyStates, AmbiguousStates, ForwardStates, ClosedStates
  <2>3. AcceptedSucceeded'
    BY <1>1, <1>7 DEF Control, AcceptedSucceeded, Unapproved
  <2>. QED  BY <1>2, <1>7, <2>1, <2>2, <2>3, SettleControl
<1>8. ASSUME journal.status \in Unapproved, journal'.generation = journal.generation + 1
      PROVE  /\ \A seen \in SeenRow : Remembers(seen) => Remembers(seen)'
             /\ Remembers(Seen(journal))'
  BY <1>8, RemembersStep, TypedFacts DEF Unapproved, Remembers, Seen
<1>9. ASSUME Create(p) PROVE Control'
  <2>1. CASE journal.status = "ABSENT"
    <3>1. /\ journal'.status = "DISCOVERED" /\ journal'.generation = 1
          /\ journal.generation = 0 /\ journal.status \in Unapproved
          /\ rec'[p] = Seen(journal') /\ held' = held /\ pc'[p] = "validate"
      BY <1>3, <1>9, <2>1 DEF Create, Row, Control, Unapproved
    <3>2. Remembers(rec[p])' /\ Remembers(held[p])'
      BY <1>4, <1>5, <1>8, <3>1 DEF Remembers, Seen
    <3>3. rec'[p].status \in RecordAt(pc'[p]) /\ held'[p].status \in HeldAt(pc'[p])
      BY <3>1, TypedFacts DEF RecordAt, HeldAt, Seen
    <3>4. Holding(p)'
      <4>1. "validate" \notin RunPc
        BY DEF RunPc, VisitPc
      <4>. QED  BY <3>1, <3>2, <3>3, <4>1 DEF Holding
    <3>. QED  BY <1>7, <3>1, <3>4 DEF StatusStates, EarlyStates
  <2>2. CASE journal.status # "ABSENT"
    BY <1>3, <1>6, <1>9, <2>2 DEF Create
  <2>. QED  BY <2>1, <2>2
<1>10. ASSUME Validate(p) PROVE Control'
  <2>1. pc[p] = "validate" /\ rec' = rec
    BY <1>10 DEF Validate
  <2>2. CASE Current(rec[p]) /\ MayBecome("STATIC_VALIDATED")
    <3>1. journal.status = "DISCOVERED" /\ journal.status \in Unapproved
      BY <1>4, <2>1, <2>2 DEF RecordAt, Remembers, Current, Seen, Unapproved
    <3>2. /\ journal'.status = "STATIC_VALIDATED"
          /\ journal'.generation = journal.generation + 1
      BY <1>10, <2>2, BecomesFacts DEF Validate, Typed
    <3>3. held'[p] = Seen(journal') /\ pc'[p] = "capture"
      BY <1>3, <1>10, <2>2 DEF Validate
    <3>4. Remembers(rec[p])' /\ Remembers(held[p])'
      BY <1>4, <1>5, <1>8, <2>1, <3>1, <3>2, <3>3 DEF Seen
    <3>5. rec'[p].status \in RecordAt(pc'[p]) /\ held'[p].status \in HeldAt(pc'[p])
      BY <2>1, <3>2, <3>3, TypedFacts DEF RecordAt, HeldAt, Seen
    <3>6. "capture" \notin RunPc
      BY DEF RunPc, VisitPc
    <3>7. Holding(p)'
      BY <3>3, <3>4, <3>5, <3>6 DEF Holding
    <3>. QED  BY <1>7, <3>1, <3>2, <3>7 DEF StatusStates, EarlyStates
  <2>3. CASE ~(Current(rec[p]) /\ MayBecome("STATIC_VALIDATED"))
    BY <1>3, <1>6, <1>10, <2>3 DEF Validate
  <2>. QED  BY <2>2, <2>3
<1>11. ASSUME NEW label, NEW target, NEW next, Attach(p, label, target, next),
              <<label, target, next>> \in
                {<<"attach_snapshot", "SNAPSHOT_CAPTURED", "attach_approval">>,
                 <<"attach_approval", "APPROVED", "launch">>}
       PROVE  Control'
  <2>1. pc[p] = label /\ rec' = rec
    BY <1>11 DEF Attach
  <2>2. CASE Current(held[p]) /\ MayBecome(target) /\ ~expired
    <3>1. journal.status \in Unapproved
      BY <1>4, <1>11, <2>1, <2>2 DEF HeldAt, Remembers, Current, Seen, Unapproved
    <3>2. journal'.status = target /\ journal'.generation = journal.generation + 1
      BY <1>11, <2>2, BecomesFacts DEF Attach, Typed
    <3>3. held'[p] = Seen(journal') /\ pc'[p] = next
      BY <1>3, <1>11, <2>2 DEF Attach
    <3>4. Remembers(rec[p])' /\ Remembers(held[p])'
      BY <1>4, <1>5, <1>8, <2>1, <3>1, <3>2, <3>3 DEF Seen
    <3>5. rec'[p].status \in RecordAt(pc'[p]) /\ held'[p].status \in HeldAt(pc'[p])
      <4>1. held'[p].status = target /\ target \in StatusStates
        BY <1>11, <3>2, <3>3, StatusFacts DEF Seen
      <4>2. rec'[p].status \in StatusStates \cup {"ABSENT"}
        BY <2>1, TypedFacts
      <4>. QED  BY <1>11, <3>3, <4>1, <4>2 DEF RecordAt, HeldAt
    <3>6. /\ pc'[p] \in RunPc => pc'[p] = "launch" /\ target = "APPROVED"
          /\ pc'[p] \in {"attach_approval", "launch"}
      BY <1>11, <3>3 DEF RunPc, VisitPc
    <3>7. Holding(p)'
      BY <3>2, <3>4, <3>5, <3>6 DEF Holding, Unapproved
    <3>8. target \in StatusStates
      BY <1>11 DEF StatusStates, EarlyStates
    <3>. QED  BY <1>7, <3>1, <3>2, <3>7, <3>8
  <2>3. CASE ~(Current(held[p]) /\ MayBecome(target) /\ ~expired)
    BY <1>3, <1>6, <1>11, <2>3 DEF Attach
  <2>. QED  BY <2>2, <2>3
<1>. QED  BY <1>9, <1>10, <1>11 DEF AttachSnapshot, AttachApproval

(* The ends of a visit keep Control.                                       *)
LEMMA EndControl ==
    ASSUME Typed, Typed', Control, NEW p \in Process,
           SafeFailure(p) \/ EndVisit(p) \/ Crash(p)
    PROVE  Control'
<1>1. Forget(p) /\ \E label \in {"block", "idle"} : Goto(p, label)
  BY DEF SafeFailure, EndVisit, Crash
<1>2. \A q \in Process \ {p} : /\ pc'[q] = pc[q] /\ rec'[q] = rec[q]
                               /\ held'[q] = held[q] /\ outcome'[q] = outcome[q]
  BY <1>1 DEF Forget, Goto, Typed, TypeOK
<1>3. /\ pc'[p] \in {"block", "idle"} /\ pc'[p] \notin RunPc
      /\ rec'[p] = Seen(Absent) /\ held'[p] = Seen(Absent)
  BY <1>1 DEF Forget, Goto, Typed, TypeOK, RunPc, VisitPc
<1>4. Seen(Absent) = [status |-> "ABSENT", generation |-> 0]
  BY DEF Seen, Absent, Row
<1>5. ASSUME (journal.status = "ABSENT" <=> journal.generation = 0)' PROVE Holding(p)'
  <2>. DEFINE nothing == [status |-> "ABSENT", generation |-> 0]
  <2>1. Remembers(nothing)'
    <3>1. journal'.generation \in Nat
      BY DEF Typed, TypeOK, JournalRow
    <3>2. nothing.generation = 0 /\ nothing.status = "ABSENT"
      OBVIOUS
    <3>3. journal'.generation = 0 => nothing = Seen(journal')
      BY <1>5 DEF Seen
    <3>. HIDE DEF nothing
    <3>. QED  BY <3>1, <3>2, <3>3 DEF Remembers
  <2>2. rec'[p].status \in RecordAt(pc'[p]) /\ held'[p].status \in HeldAt(pc'[p])
    <3>1. \A label \in {"block", "idle"} : "ABSENT" \in RecordAt(label) /\ "ABSENT" \in HeldAt(label)
      BY DEF RecordAt, HeldAt
    <3>2. rec'[p].status = "ABSENT" /\ held'[p].status = "ABSENT"
      BY <1>3, <1>4
    <3>. QED  BY <1>3, <3>1, <3>2
  <2>3. Remembers(rec[p])' /\ Remembers(held[p])'
    <3>1. rec'[p] = nothing /\ held'[p] = nothing
      BY <1>3, <1>4
    <3>. HIDE DEF nothing
    <3>. QED  BY <2>1, <3>1 DEF Remembers
  <2>. QED  BY <1>3, <2>2, <2>3 DEF Holding
<1>6. ASSUME UNCHANGED journal, AcceptedSucceeded' PROVE Control'
  <2>1. (journal.status = "ABSENT" <=> journal.generation = 0)'
    BY <1>6 DEF Control
  <2>2. \A q \in Process \ {p} : Holding(q)'
    BY <1>2, <1>6, OthersHold DEF Control
  <2>. QED  BY <1>2, <1>3, <1>5, <1>6, <2>1, <2>2, SettleControl
<1>7. ASSUME Crash(p) PROVE Control'
  BY <1>6, <1>7 DEF Crash, Control, AcceptedSucceeded
<1>8. ASSUME EndVisit(p) PROVE Control'
  <2>1. pc[p] = "accept" => journal.status = "SUCCEEDED"
    BY DEF Control, Holding
  <2>2. UNCHANGED journal
    BY <1>8 DEF EndVisit
  <2>3. review' = review \/ review'.state = IF pc[p] = "accept" THEN "accepted" ELSE "blocked"
    BY <1>8 DEF EndVisit, Typed, TypeOK
  <2>4. AcceptedSucceeded'
    BY <2>1, <2>2, <2>3 DEF Control, AcceptedSucceeded
  <2>. QED  BY <1>6, <2>2, <2>4
<1>9. ASSUME SafeFailure(p) PROVE Control'
  <2>1. UNCHANGED review /\ pc[p] = "safe_failure"
    BY <1>9 DEF SafeFailure
  <2>2. CASE UNCHANGED journal
    BY <1>6, <2>1, <2>2 DEF Control, AcceptedSucceeded
  <2>3. CASE ~UNCHANGED journal
    <3>. DEFINE target == IF held[p].status \in AmbiguousStates THEN "RECONCILIATION_REQUIRED"
                                                                 ELSE "FAILED"
    <3>1. /\ Becomes(target) /\ Current(held[p])
          /\ held[p].status \in AmbiguousStates \cup EarlyStates
      BY <1>9, <2>3 DEF SafeFailure
    <3>2. journal'.status = target /\ journal'.generation = journal.generation + 1
      BY <3>1, BecomesFacts DEF Typed
    <3>3. journal.status = held[p].status
      BY <3>1 DEF Control, Holding, Remembers, Current, Seen
    <3>4. journal.status # "SUCCEEDED" /\ journal'.status \notin {"SUCCEEDED", "ABSENT"}
      BY <3>1, <3>2, <3>3 DEF AmbiguousStates, ForwardStates, EarlyStates
    <3>5. \A q \in Process \ {p} : Holding(q)'
      <4>1. \A q \in Process \ {p} : pc[q] \in RunPc => journal.status \notin Unapproved
        BY DEF Control, Holding
      <4>. QED  BY <1>2, <3>1, <3>2, <3>3, <3>4, <4>1, OthersHold DEF Control
    <3>6. (journal.status = "ABSENT" <=> journal.generation = 0)'
      BY <3>2, <3>4, TypedFacts
    <3>7. AcceptedSucceeded'
      BY <2>1, <3>4 DEF Control, AcceptedSucceeded
    <3>. QED  BY <1>2, <1>3, <1>5, <3>5, <3>6, <3>7, SettleControl
  <2>. QED  BY <2>2, <2>3
<1>. QED  BY <1>7, <1>8, <1>9

(* The reviewer, the owner, the clock and the cluster keep Control.        *)
LEMMA EnvironmentControl ==
    ASSUME Typed, Typed', Control,
           ReviewAgain \/ OwnerApproves \/ Expire \/ \E m \in Mutation : TakesEffect(m)
    PROVE  Control'
<1>1. UNCHANGED <<pc, rec, held, outcome>>
  BY DEF ReviewAgain, OwnerApproves, Expire, TakesEffect, local
<1>2. (\A p, q \in Process : pc[p] \in RunPc /\ pc[q] \in RunPc => p = q)'
  BY <1>1 DEF Control
<1>3. CASE UNCHANGED journal
  <2>1. \A q \in Process : Holding(q)'
    BY <1>1, <1>3, OthersHold DEF Control
  <2>2. AcceptedSucceeded'
    BY <1>3 DEF ReviewAgain, OwnerApproves, Expire, TakesEffect, Control, AcceptedSucceeded
  <2>. QED  BY <1>2, <1>3, <2>1, <2>2 DEF Control
<1>4. CASE ~UNCHANGED journal
  <2>1. OwnerApproves
    BY <1>4 DEF ReviewAgain, Expire, TakesEffect
  <2>2. PICK target \in {"SNAPSHOT_CAPTURED", "APPROVED"} : Becomes(target)
    BY <2>1 DEF OwnerApproves
  <2>3. /\ journal.status \in Unapproved /\ journal.status # "SUCCEEDED"
        /\ journal'.status = target /\ journal'.generation = journal.generation + 1
    BY <2>1, <2>2, BecomesFacts DEF OwnerApproves, Unapproved, Typed
  <2>4. \A q \in Process : Holding(q)'
    BY <1>1, <2>3, UnapprovedHold
  <2>5. (journal.status = "ABSENT" <=> journal.generation = 0)' /\ AcceptedSucceeded'
    BY <2>1, <2>3, TypedFacts DEF Control, AcceptedSucceeded, OwnerApproves
  <2>. QED  BY <1>2, <2>4, <2>5 DEF Control
<1>. QED  BY <1>3, <1>4

LEMMA ControlInit == Init => Control
<1>. SUFFICES ASSUME Init PROVE Control
  OBVIOUS
<1>1. Seen(Absent) = [status |-> "ABSENT", generation |-> 0] /\ Seen(journal) = Seen(Absent)
  BY DEF Init, Seen, Absent, Row
<1>2. journal.status = "ABSENT" /\ journal.generation = 0
  BY DEF Init, Absent, Row
<1>3. ASSUME NEW p \in Process PROVE Holding(p) /\ pc[p] \notin RunPc
  <2>1. pc[p] = "idle" /\ rec[p] = Seen(journal) /\ held[p] = Seen(journal)
    BY <1>1 DEF Init
  <2>2. "idle" \notin RunPc
    BY DEF RunPc, VisitPc
  <2>3. Remembers(Seen(journal))
    BY <1>1, <1>2 DEF Remembers
  <2>4. rec[p].status \in RecordAt(pc[p]) /\ held[p].status \in HeldAt(pc[p])
    BY <1>1, <2>1 DEF RecordAt, HeldAt
  <2>. QED  BY <2>1, <2>2, <2>3, <2>4 DEF Holding
<1>4. AcceptedSucceeded
  BY DEF Init, AcceptedSucceeded
<1>. QED  BY <1>2, <1>3, <1>4 DEF Control

LEMMA StepControl == Typed /\ Control /\ [Next]_vars => Control'
<1>. SUFFICES ASSUME Typed, Control, [Next]_vars PROVE Control'
  OBVIOUS
<1>1. Typed'
  BY StepTyped
<1>2. CASE UNCHANGED vars
  BY <1>2
     DEF vars, local, Control, Holding, Remembers, Current, Disposed, AcceptedSucceeded
<1>3. ASSUME NEW p \in Process, Visit(p) \/ Works(p) \/ Crash(p) PROVE Control'
  BY <1>1, <1>3, ReadControl, PrepareControl, EndControl, TransitionsControl, RecordedControl,
     OwnershipControl, CommandControl
     DEF Works, Runs, Forwards
<1>4. CASE ReviewAgain \/ OwnerApproves \/ Expire \/ \E m \in Mutation : TakesEffect(m)
  BY <1>1, <1>4, EnvironmentControl
<1>. QED  BY <1>2, <1>3, <1>4 DEF Next

(* A review is accepted only for an operation whose row says SUCCEEDED,    *)
(* whichever process ran it and whoever overtook whom.                     *)
THEOREM AcceptedIsSucceeded == Spec => []AcceptedSucceeded
<1>1. Spec => [](Typed /\ Control)
  BY TypedInit, StepTyped, ControlInit, StepControl, PTL DEF Spec
<1>2. Control => AcceptedSucceeded
  BY DEF Control
<1>. QED  BY <1>1, <1>2, PTL
-----------------------------------------------------------------------------
(* Steps that launch no command and let none end.                          *)
LEMMA SameWorld ==
    ASSUME UNCHANGED <<upgrade, undo, release>>, journal.evidence \subseteq journal'.evidence
    PROVE  \A k : /\ Fresh(k)' <=> Fresh(k)
                  /\ Upgraded(k)' <=> Upgraded(k)
                  /\ Quiet(k)' <=> Quiet(k)
                  /\ Done(k) => Done(k)'
                  /\ Probed(k) => Probed(k)'
                  /\ \A q : undoFailed'[q] = undoFailed[q] => (Undone(q, k)' <=> Undone(q, k))
<1>1. \A k : Recorded("mutation", k) => Recorded("mutation", k)'
  BY DEF Recorded
<1>2. \A k : /\ Fresh(k)' <=> Fresh(k)
             /\ Upgraded(k)' <=> Upgraded(k)
             /\ Quiet(k)' <=> Quiet(k)
  BY DEF Fresh, Upgraded, Quiet
<1>3. \A k : Done(k) => Done(k)'
  BY <1>1, <1>2 DEF Done
<1>4. \A k : Probed(k) => Probed(k)'
  BY DEF Probed
<1>5. \A k, q : undoFailed'[q] = undoFailed[q] => (Undone(q, k)' <=> Undone(q, k))
  BY <1>2 DEF Undone
<1>. QED  BY <1>2, <1>3, <1>4, <1>5

LEMMA BoundsOfMutation ==
    ASSUME Typed
    PROVE  /\ manifest.mutations \in Nat /\ Mutation \subseteq Nat \ {0}
           /\ \A i \in Nat : i \in Mutation <=> 1 <= i /\ i <= manifest.mutations
           /\ Mutation # {} <=> manifest.mutations \in Mutation
           /\ Mutation # {} <=> 1 \in Mutation
           /\ \A i \in Nat : i >= 1 => \A k \in Mutation : k < i => k + 1 <= i
<1>1. manifest.mutations \in Nat
  BY ManifestFacts DEF Typed, TypeOK
<1>. QED  BY <1>1 DEF Mutation

(* What is known of a place that no step of another process touches.       *)
LEMMA OthersReleases ==
    ASSUME NEW q, ReleasesAt(q), UNCHANGED manifest,
           pc'[q] = pc[q], at'[q] = at[q], outcome'[q] = outcome[q],
           undoFailed'[q] = undoFailed[q],
           \/ pc[q] \notin RunPc
           \/ /\ UNCHANGED <<upgrade, undo, release>>
              /\ journal.evidence \subseteq journal'.evidence
    PROVE  ReleasesAt(q)'
<1>1. CASE pc[q] \notin RunPc
  <2>1. pc'[q] \notin BeforePc \cup UpgradePc \cup UpgradedPc \cup UndoPc
                        \cup {"rollback_start", "rollback_end", "forward_failed"}
    BY <1>1 DEF RunPc, VisitPc, PcStates, BeforePc, UpgradePc, UpgradedPc, UndoPc, ForwardPc
  <2>. QED  BY <2>1 DEF ReleasesAt, BeforePc, UpgradePc, UpgradedPc, UndoPc, ForwardPc
<1>2. CASE /\ UNCHANGED <<upgrade, undo, release>>
           /\ journal.evidence \subseteq journal'.evidence
  <2>1. Mutation' = Mutation
    BY DEF Mutation
  <2>2. upgrade' = upgrade /\ undo' = undo /\ release' = release
    BY <1>2
  <2>. QED  BY <1>2, <2>1, <2>2, SameWorld DEF ReleasesAt
<1>. QED  BY <1>1, <1>2

(* Evidence is never removed, so the row goes on accounting for upgrades.  *)
LEMMA AccountsKept ==
    ASSUME Releases, UNCHANGED <<manifest, upgrade>>, journal.evidence \subseteq journal'.evidence
    PROVE  JournalAccounts'
<1>1. \A k : Recorded("mutation", k) => Recorded("mutation", k)'
  BY DEF Recorded
<1>2. Mutation' = Mutation
  BY DEF Mutation
<1>. QED  BY <1>1, <1>2 DEF Releases, JournalAccounts

(* The verdict of the row stays true when the status stays, or changes to  *)
(* one that says nothing, or an operation that was not begun goes on.      *)
LEMMA VerdictKept ==
    ASSUME Releases, UNCHANGED <<manifest, upgrade, undo, release>>,
           journal.evidence \subseteq journal'.evidence,
           \/ journal'.status = journal.status
           \/ journal'.status \in AmbiguousStates \cup {"RECONCILIATION_REQUIRED"}
           \/ /\ journal.status \in EarlyStates \cup {"ABSENT"}
              /\ journal'.status \in EarlyStates \cup {"FAILED"}
    PROVE  Verdict'
<1>1. Mutation' = Mutation /\ release' = release
  BY DEF Mutation
<1>2. \A k : Fresh(k) => Quiet(k) /\ release[k] = "before"
  BY DEF Fresh, Quiet
<1>3. CASE journal'.status = journal.status
  BY <1>1, <1>3, SameWorld DEF Releases, Verdict
<1>4. CASE journal'.status \in AmbiguousStates \cup {"RECONCILIATION_REQUIRED"}
  BY <1>4 DEF Verdict, AmbiguousStates, ForwardStates, EarlyStates
<1>5. CASE /\ journal.status \in EarlyStates \cup {"ABSENT"}
           /\ journal'.status \in EarlyStates \cup {"FAILED"}
  <2>1. \A k \in Mutation : Fresh(k)
    BY <1>5 DEF Releases, Verdict
  <2>2. journal'.status \notin {"SUCCEEDED", "ROLLED_BACK"}
    BY <1>5 DEF EarlyStates
  <2>. QED  BY <1>1, <1>2, <2>1, <2>2, SameWorld DEF Verdict
<1>. QED  BY <1>3, <1>4, <1>5

(* While commands that may reach the cluster are run the status says so.   *)
LEMMA AtWork ==
    ASSUME Control, NEW p \in Process, pc[p] \in RunnerPc,
           RecordAt(pc[p]) \subseteq AmbiguousStates
    PROVE  journal.status \in AmbiguousStates \cup {"RECONCILIATION_REQUIRED"}
BY DEF Control, Holding, RunnerPc, Disposed, Remembers, Current, Seen

(* A step of one process, put together.                                    *)
LEMMA StepReleases ==
    ASSUME Releases, Control, NEW p \in Process, UNCHANGED manifest,
           \A q \in Process \ {p} : /\ pc'[q] = pc[q] /\ at'[q] = at[q]
                                    /\ outcome'[q] = outcome[q] /\ undoFailed'[q] = undoFailed[q],
           \/ pc[p] \in RunPc
           \/ journal.status \in Unapproved
           \/ /\ UNCHANGED <<upgrade, undo, release>>
              /\ journal.evidence \subseteq journal'.evidence,
           ReleasesAt(p)', JournalAccounts', Verdict'
    PROVE  Releases'
<1>1. ASSUME NEW q \in Process \ {p} PROVE ReleasesAt(q)'
  <2>1. pc[p] \in RunPc \/ journal.status \in Unapproved => pc[q] \notin RunPc
    BY DEF Control, Holding
  <2>. QED  BY <2>1, OthersReleases DEF Releases
<1>. QED  BY <1>1 DEF Releases

(* The places that say something of the releases.                          *)
SpeakingPc ==
    BeforePc \cup UpgradePc \cup UpgradedPc \cup UndoPc
      \cup {"rollback_start", "rollback_end", "forward_failed"}

LEMMA SilentReleases ==
    ASSUME NEW q, pc'[q] \notin SpeakingPc
    PROVE  ReleasesAt(q)'
BY DEF ReleasesAt, SpeakingPc, BeforePc, UpgradePc, UpgradedPc, UndoPc, ForwardPc

(* The steps of a visit around the commands keep Releases.                 *)
LEMMA VisitReleases ==
    ASSUME Typed, Typed', Control, Releases, NEW p \in Process,
           Visit(p) \/ Create(p) \/ Validate(p) \/ Capture(p) \/ AttachSnapshot(p)
             \/ AttachApproval(p) \/ Reconcile(p) \/ Result(p) \/ SafeFailure(p)
             \/ EndVisit(p) \/ Crash(p)
    PROVE  Releases'
<1>1. UNCHANGED <<manifest, upgrade, undo, release>>
  BY DEF Visit, Create, Validate, Capture, AttachSnapshot, AttachApproval, Attach, Reconcile,
         Result, SafeFailure, EndVisit, Crash, world
<1>2. \A q \in Process \ {p} : /\ pc'[q] = pc[q] /\ at'[q] = at[q]
                               /\ outcome'[q] = outcome[q] /\ undoFailed'[q] = undoFailed[q]
  <2>1. Forget(p) \/ UNCHANGED <<at, outcome, undoFailed>>
    BY DEF Visit, Create, Validate, Capture, AttachSnapshot, AttachApproval, Attach, Reconcile,
           Result, SafeFailure, EndVisit, Crash, local
  <2>2. \E label : Goto(p, label)
    BY DEF Visit, Create, Validate, Capture, AttachSnapshot, AttachApproval, Attach, Reconcile,
           Result, SafeFailure, EndVisit, Crash
  <2>. QED  BY <2>1, <2>2 DEF Forget, Goto, Typed, TypeOK
<1>3. ASSUME NEW label, Goto(p, label) PROVE pc'[p] = label
  BY <1>3 DEF Goto, Typed, TypeOK
<1>4. /\ {"create", "validate", "capture", "accept", "safe_failure", "block", "attach_snapshot",
          "attach_approval", "idle", "result", "reconciling"} \cap SpeakingPc = {}
      /\ "launch" \in BeforePc
  BY DEF SpeakingPc, BeforePc, UpgradePc, UpgradedPc, UndoPc, ForwardPc
<1>5. ASSUME UNCHANGED journal, ReleasesAt(p)' PROVE Releases'
  <2>1. JournalAccounts' /\ Verdict'
    BY <1>1, <1>5, AccountsKept, VerdictKept
  <2>. QED  BY <1>1, <1>2, <1>5, <2>1, StepReleases
<1>6. ASSUME NEW target, Becomes(target), ReleasesAt(p)',
             \/ target = "RECONCILIATION_REQUIRED"
             \/ /\ journal.status \in EarlyStates
                /\ target \in EarlyStates \cup {"FAILED"}
      PROVE  Releases'
  <2>1. journal'.evidence = journal.evidence /\ journal'.status = target
    BY <1>6, BecomesFacts DEF Typed
  <2>2. JournalAccounts' /\ Verdict'
    BY <1>1, <1>6, <2>1, AccountsKept, VerdictKept
  <2>. QED  BY <1>1, <1>2, <1>6, <2>1, <2>2, StepReleases
<1>7. ASSUME Visit(p) \/ Capture(p) \/ Reconcile(p) \/ Result(p) \/ EndVisit(p) \/ Crash(p)
      PROVE  Releases'
  <2>1. UNCHANGED journal
    BY <1>7 DEF Visit, Capture, Reconcile, Result, EndVisit, Crash
  <2>2. \E label \in {"create", "capture", "accept", "safe_failure", "attach_snapshot", "result",
                      "reconciling", "idle"} : Goto(p, label)
    BY <1>7 DEF Visit, Capture, Reconcile, Result, EndVisit, Crash
  <2>3. ReleasesAt(p)'
    BY <1>3, <1>4, <2>2, SilentReleases
  <2>. QED  BY <1>5, <2>1, <2>3
<1>8. ASSUME Create(p) PROVE Releases'
  <2>1. CASE journal.status = "ABSENT"
    <3>1. pc'[p] = "validate" /\ journal'.status = "DISCOVERED"
      BY <1>3, <1>8, <2>1 DEF Create, Row
    <3>2. ReleasesAt(p)'
      BY <1>4, <3>1, SilentReleases
    <3>3. \A k \in Mutation : Fresh(k)
      BY <2>1 DEF Releases, Verdict
    <3>4. Mutation' = Mutation /\ upgrade' = upgrade
      BY <1>1 DEF Mutation
    <3>5. JournalAccounts'
      BY <3>3, <3>4 DEF JournalAccounts, Fresh
    <3>6. Verdict'
      BY <1>1, <3>1, <3>3, <3>4 DEF Verdict, Fresh
    <3>. QED  BY <1>1, <1>2, <2>1, <3>2, <3>5, <3>6, StepReleases DEF Unapproved
  <2>2. CASE journal.status # "ABSENT"
    <3>1. UNCHANGED journal /\ pc'[p] = "block"
      BY <1>3, <1>8, <2>2 DEF Create
    <3>. QED  BY <1>4, <1>5, <3>1, SilentReleases
  <2>. QED  BY <2>1, <2>2
<1>9. ASSUME Validate(p) PROVE Releases'
  <2>1. CASE Current(rec[p]) /\ MayBecome("STATIC_VALIDATED")
    <3>1. journal.status = "DISCOVERED"
      BY <1>9, <2>1 DEF Validate, Control, Holding, RecordAt, Remembers, Current, Seen
    <3>2. pc'[p] = "capture" /\ Becomes("STATIC_VALIDATED")
      BY <1>3, <1>9, <2>1 DEF Validate
    <3>. QED  BY <1>4, <1>6, <3>1, <3>2, SilentReleases DEF EarlyStates
  <2>2. CASE ~(Current(rec[p]) /\ MayBecome("STATIC_VALIDATED"))
    <3>1. UNCHANGED journal /\ pc'[p] = "block"
      BY <1>3, <1>9, <2>2 DEF Validate
    <3>. QED  BY <1>4, <1>5, <3>1, SilentReleases
  <2>. QED  BY <2>1, <2>2
<1>10. ASSUME NEW label, NEW target, NEW next, Attach(p, label, target, next),
              <<label, target, next>> \in
                {<<"attach_snapshot", "SNAPSHOT_CAPTURED", "attach_approval">>,
                 <<"attach_approval", "APPROVED", "launch">>}
       PROVE  Releases'
  <2>1. CASE Current(held[p]) /\ MayBecome(target) /\ ~expired
    <3>1. held[p].status \in HeldAt(pc[p]) /\ Remembers(held[p]) /\ pc[p] = label
      BY <1>10 DEF Attach, Control, Holding
    <3>2. journal.status \in {"STATIC_VALIDATED", "SNAPSHOT_CAPTURED"}
      BY <1>10, <2>1, <3>1 DEF HeldAt, Remembers, Current, Seen
    <3>3. pc'[p] = next /\ Becomes(target)
      BY <1>3, <1>10, <2>1 DEF Attach
    <3>4. \A k \in Mutation : Fresh(k)
      BY <3>2 DEF Releases, Verdict, EarlyStates
    <3>5. (\A k \in Mutation : Fresh(k))'
      BY <1>1, <3>4 DEF Fresh, Mutation
    <3>6. ReleasesAt(p)'
      <4>1. CASE next = "launch"
        BY <3>3, <3>5, <4>1
           DEF ReleasesAt, BeforePc, UpgradePc, UpgradedPc, UndoPc, ForwardPc
      <4>2. CASE next # "launch"
        BY <1>4, <1>10, <3>3, <4>2, SilentReleases
      <4>. QED  BY <4>1, <4>2
    <3>. QED  BY <1>6, <1>10, <3>2, <3>3, <3>6 DEF EarlyStates
  <2>2. CASE ~(Current(held[p]) /\ MayBecome(target) /\ ~expired)
    <3>1. UNCHANGED journal /\ pc'[p] = "safe_failure"
      BY <1>3, <1>10, <2>2 DEF Attach
    <3>. QED  BY <1>4, <1>5, <3>1, SilentReleases
  <2>. QED  BY <2>1, <2>2
<1>11. ASSUME SafeFailure(p) PROVE Releases'
  <2>1. ReleasesAt(p)'
    BY <1>3, <1>4, <1>11, SilentReleases DEF SafeFailure
  <2>2. CASE UNCHANGED journal
    BY <1>5, <2>1, <2>2
  <2>3. CASE ~UNCHANGED journal
    <3>1. /\ Becomes(IF held[p].status \in AmbiguousStates THEN "RECONCILIATION_REQUIRED"
                                                           ELSE "FAILED")
          /\ Current(held[p]) /\ held[p].status \in AmbiguousStates \cup EarlyStates
      BY <1>11, <2>3 DEF SafeFailure
    <3>2. journal.status = held[p].status
      BY <3>1 DEF Control, Holding, Remembers, Current, Seen
    <3>. QED  BY <1>6, <2>1, <3>1, <3>2
  <2>. QED  BY <2>2, <2>3
<1>. QED
  BY <1>7, <1>8, <1>9, <1>10, <1>11 DEF AttachSnapshot, AttachApproval

(* The reviewer, the owner, the clock and the cluster keep Releases.       *)
LEMMA EnvironmentReleases ==
    ASSUME Typed, Typed', Control, Releases,
           ReviewAgain \/ OwnerApproves \/ Expire \/ \E m \in Mutation : TakesEffect(m)
    PROVE  Releases'
<1>1. UNCHANGED <<manifest, upgrade, undo, pc, at, outcome, undoFailed>>
  BY DEF ReviewAgain, OwnerApproves, Expire, TakesEffect, local, world
<1>2. Mutation' = Mutation
  BY <1>1 DEF Mutation
<1>3. ASSUME UNCHANGED release, journal.evidence = journal'.evidence,
             \/ journal'.status = journal.status
             \/ journal.status \in EarlyStates /\ journal'.status \in EarlyStates
      PROVE  Releases'
  BY <1>1, <1>3, OthersReleases, AccountsKept, VerdictKept DEF Releases
<1>4. ASSUME ReviewAgain \/ Expire PROVE Releases'
  BY <1>3, <1>4 DEF ReviewAgain, Expire, world
<1>5. ASSUME OwnerApproves PROVE Releases'
  <2>1. PICK target \in {"SNAPSHOT_CAPTURED", "APPROVED"} : Becomes(target)
    BY <1>5 DEF OwnerApproves
  <2>2. /\ journal'.evidence = journal.evidence /\ journal'.status = target
        /\ journal.status \in EarlyStates /\ target \in EarlyStates
    BY <1>5, <2>1, BecomesFacts DEF OwnerApproves, Typed, EarlyStates
  <2>. QED  BY <1>3, <1>5, <2>2 DEF OwnerApproves, world
<1>6. ASSUME NEW m \in Mutation, TakesEffect(m) PROVE Releases'
  <2>1. /\ ~Quiet(m) /\ UNCHANGED journal
        /\ \A k \in Mutation \ {m} : release'[k] = release[k]
    BY <1>6 DEF TakesEffect, Quiet, Typed, TypeOK
  <2>2. \A k \in Mutation : Quiet(k) => release'[k] = release[k]
    BY <2>1
  <2>3. \A k \in Mutation :
           /\ Fresh(k) => Fresh(k)'
           /\ Upgraded(k) => Upgraded(k)' /\ Quiet(k)
           /\ Quiet(k) => Quiet(k)'
           /\ Done(k) => Done(k)'
           /\ Probed(k) => Probed(k)'
           /\ \A q : Undone(q, k) => Undone(q, k)'
    BY <1>1, <2>1, <2>2 DEF Fresh, Upgraded, Quiet, Done, Probed, Undone, Recorded
  <2>4. ASSUME NEW q \in Process PROVE ReleasesAt(q)'
    <3>1. ReleasesAt(q)
      BY DEF Releases
    <3>2. \A k \in Mutation : Upgraded(k) => release'[k] = release[k]
      BY <2>2, <2>3
    <3>3. pc' = pc /\ at' = at /\ outcome' = outcome /\ upgrade' = upgrade /\ undo' = undo
      BY <1>1
    <3>. QED
      BY <1>2, <2>3, <3>1, <3>2, <3>3 DEF ReleasesAt, UpgradePc, UndoPc
  <2>5. JournalAccounts'
    BY <1>1, <1>2, <2>1 DEF Releases, JournalAccounts, Recorded
  <2>6. Verdict'
    BY <1>2, <2>1, <2>2, <2>3 DEF Releases, Verdict
  <2>. QED  BY <2>4, <2>5, <2>6 DEF Releases
<1>. QED  BY <1>4, <1>5, <1>6

(* A step of the runner that launches no command and lets none end.        *)
LEMMA RunnerReleases ==
    ASSUME Typed, Control, Releases, NEW p \in Process, pc[p] \in RunPc,
           UNCHANGED <<manifest, upgrade, undo, release>>,
           journal.evidence \subseteq journal'.evidence,
           \A q \in Process \ {p} : /\ pc'[q] = pc[q] /\ at'[q] = at[q]
                                    /\ outcome'[q] = outcome[q] /\ undoFailed'[q] = undoFailed[q],
           \/ Verdict'
           \/ journal'.status = journal.status
           \/ journal'.status \in AmbiguousStates \cup {"RECONCILIATION_REQUIRED"}
           \/ /\ journal.status \in EarlyStates
              /\ journal'.status \in EarlyStates \cup {"FAILED"},
           ReleasesAt(p)'
    PROVE  Releases'
BY AccountsKept, VerdictKept, StepReleases

LEMMA SilentFallback ==
    /\ {"safe_failure", "reconcile", "result"} \cap SpeakingPc = {}
    /\ Fallback \in {"safe_failure", "reconcile"}
BY DEF SpeakingPc, BeforePc, UpgradePc, UpgradedPc, UndoPc, ForwardPc, Fallback

(* A transition of the runner.                                             *)
LEMMA TransitionReleases ==
    ASSUME Typed, Control, Releases, NEW p \in Process, NEW label \in RunnerPc,
           NEW target, NEW next, NEW otherwise \in {"safe_failure", "reconcile"},
           Transition(p, label, target, next, otherwise),
           journal'.status = target /\ Current(rec[p]) =>
              \/ Verdict'
              \/ target \in AmbiguousStates \cup {"RECONCILIATION_REQUIRED"}
              \/ journal.status \in EarlyStates /\ target \in EarlyStates \cup {"FAILED"},
           /\ pc'[p] = next
           /\ journal.evidence \subseteq journal'.evidence
           => ReleasesAt(p)'
    PROVE  Releases'
<1>1. /\ UNCHANGED <<manifest, upgrade, undo, release, at, outcome, undoFailed>>
      /\ pc[p] = label /\ pc[p] \in RunPc
  BY DEF Transition, world, RunnerPc
<1>2. \A q \in Process \ {p} : /\ pc'[q] = pc[q] /\ at'[q] = at[q]
                               /\ outcome'[q] = outcome[q] /\ undoFailed'[q] = undoFailed[q]
  BY <1>1 DEF Transition, Goto, Typed, TypeOK
<1>3. CASE Current(rec[p]) /\ MayBecome(target)
  <2>1. /\ journal'.status = target /\ journal'.evidence = journal.evidence
        /\ pc'[p] = next
    BY <1>3, BecomesFacts DEF Transition, Goto, Typed, TypeOK
  <2>. QED  BY <1>1, <1>2, <1>3, <2>1, RunnerReleases
<1>4. CASE ~(Current(rec[p]) /\ MayBecome(target))
  <2>1. UNCHANGED journal /\ pc'[p] = otherwise
    BY <1>4 DEF Transition, Goto, Typed, TypeOK
  <2>2. ReleasesAt(p)'
    BY <2>1, SilentFallback, SilentReleases
  <2>. QED  BY <1>1, <1>2, <2>1, <2>2, RunnerReleases
<1>. QED  BY <1>3, <1>4

(* The runner appends evidence.                                            *)
LEMMA EvidenceReleases ==
    ASSUME Typed, Control, Releases, NEW p \in Process, NEW label \in RunnerPc, NEW kind,
           NEW next, NEW otherwise \in {"safe_failure", "reconcile"},
           Evidence(p, label, kind, next, otherwise),
           /\ UNCHANGED <<manifest, upgrade, undo, release, outcome, undoFailed>>
           /\ pc'[p] = next.pc /\ at'[p] = next.at
           /\ journal.evidence \subseteq journal'.evidence
           /\ [command |-> <<kind, at[p]>>, status |-> outcome[p]] \in journal'.evidence
           => ReleasesAt(p)'
    PROVE  Releases'
<1>1. /\ UNCHANGED <<manifest, upgrade, undo, release, outcome, undoFailed>>
      /\ pc[p] = label /\ pc[p] \in RunPc
  BY DEF Evidence, world, RunnerPc
<1>2. CASE UNCHANGED <<journal, rec, at>> /\ Goto(p, otherwise)
  <2>1. pc'[p] = otherwise /\ \A q \in Process \ {p} : pc'[q] = pc[q]
    BY <1>2 DEF Goto, Typed, TypeOK
  <2>2. ReleasesAt(p)'
    BY <2>1, SilentFallback, SilentReleases
  <2>. QED  BY <1>1, <1>2, <2>1, <2>2, RunnerReleases
<1>3. CASE ~(UNCHANGED <<journal, rec, at>> /\ Goto(p, otherwise))
  <2>1. /\ journal'.status = journal.status
        /\ journal'.evidence = journal.evidence
              \cup {[command |-> <<kind, at[p]>>, status |-> outcome[p]]}
        /\ Goto(p, next.pc) /\ at' = [at EXCEPT ![p] = next.at]
    BY <1>3, EvidenceFacts DEF Fields
  <2>2. /\ pc'[p] = next.pc /\ at'[p] = next.at
        /\ \A q \in Process \ {p} : pc'[q] = pc[q] /\ at'[q] = at[q]
    BY <2>1 DEF Goto, Typed, TypeOK
  <2>. QED  BY <1>1, <2>1, <2>2, RunnerReleases
<1>. QED  BY <1>2, <1>3

(* The transitions of the runner keep Releases.                            *)
LEMMA TransitionsReleases ==
    ASSUME Typed, Control, Releases, NEW p \in Process,
           DryRunFailed(p) \/ DryRunPassed(p) \/ Start(p) \/ CommandLost(p) \/ Mutated(p)
             \/ Probing(p) \/ Succeed(p) \/ RollbackStart(p) \/ RollbackEnd(p)
             \/ TlsProbing(p) \/ ForwardFailed(p) \/ Reconciling(p)
    PROVE  Releases'
<1>1. {"dry_run_failed", "dry_run_passed", "start", "command_lost", "mutated", "probing",
       "succeed", "rollback_start", "rollback_end", "tls_probing", "forward_failed",
       "reconciling"} \subseteq RunnerPc
  BY DEF RunnerPc, RunPc, VisitPc, PcStates
<1>2. {"MUTATION_STARTED", "MUTATED", "PROBING", "ROLLBACK_STARTED", "TLS_DC8_PROBING"}
        \subseteq AmbiguousStates
  BY DEF AmbiguousStates, ForwardStates
<1>3. Current(rec[p]) /\ pc[p] \in {"dry_run_failed", "dry_run_passed"}
        => journal.status \in EarlyStates
  BY DEF Control, Holding, RecordAt, Remembers, Current, Seen, EarlyStates
<1>4. /\ UNCHANGED <<manifest, upgrade, undo, release, at, outcome, undoFailed>>
      /\ Mutation' = Mutation /\ ReleasesAt(p) /\ undoFailed'[p] = undoFailed[p]
  BY DEF DryRunFailed, DryRunPassed, Start, CommandLost, Mutated, Probing, Succeed, RollbackStart,
         RollbackEnd, TlsProbing, ForwardFailed, Reconciling, Transition, world, Mutation, Releases
<1>5. pc'[p] = "result" => ReleasesAt(p)'
  BY SilentFallback, SilentReleases
<1>6. ASSUME CommandLost(p) \/ Reconciling(p) PROVE Releases'
  BY <1>1, <1>5, <1>6, TransitionReleases DEF CommandLost, Reconciling
<1>7. ASSUME DryRunFailed(p) PROVE Releases'
  BY <1>1, <1>3, <1>5, <1>7, TransitionReleases DEF DryRunFailed, Transition
<1>8. ASSUME DryRunPassed(p) PROVE Releases'
  <2>. DEFINE next == IF Mutation # {} THEN "start"
                      ELSE IF Forward # {} THEN "forward_intent" ELSE "result"
  <2>1. /\ Transition(p, "dry_run_passed", "SERVER_DRY_RUN_PASSED", next, "safe_failure")
        /\ pc[p] = "dry_run_passed"
    BY <1>8 DEF DryRunPassed, Transition
  <2>2. at[p] = 1 /\ \A k \in Mutation : Fresh(k)
    BY <1>4, <2>1 DEF ReleasesAt, BeforePc
  <2>3. next \in {"start", "forward_intent", "result"} /\ (next = "start" <=> Mutation # {})
    OBVIOUS
  <2>. HIDE DEF next
  <2>4. /\ pc'[p] = next
        /\ journal.evidence \subseteq journal'.evidence
        => ReleasesAt(p)'
    <3>1. CASE next = "start"
      BY <1>4, <2>2, <2>3, <3>1, SameWorld
         DEF ReleasesAt, BeforePc, UpgradePc, UpgradedPc, UndoPc, ForwardPc
    <3>2. CASE next = "forward_intent"
      BY <1>4, <2>3, <3>2 DEF ReleasesAt, BeforePc, UpgradePc, UpgradedPc, UndoPc, ForwardPc
    <3>. QED  BY <1>5, <2>3, <3>1, <3>2
  <2>5. "SERVER_DRY_RUN_PASSED" \in EarlyStates
    BY DEF EarlyStates
  <2>. QED  BY <1>1, <1>3, <2>1, <2>4, <2>5, TransitionReleases
<1>9. ASSUME Start(p) PROVE Releases'
  <2>1. /\ pc[p] = "start" /\ at[p] = 1 /\ at[p] \in Mutation /\ at'[p] = at[p]
        /\ \A k \in Mutation : Fresh(k)
    BY <1>4, <1>9, BoundsOfMutation DEF Start, Transition, ReleasesAt, BeforePc
  <2>2. \A k \in Mutation : ~(k < 1)
    BY BoundsOfMutation
  <2>3. /\ pc'[p] = "mutate"
        /\ journal.evidence \subseteq journal'.evidence
        => ReleasesAt(p)'
    BY <1>4, <2>1, <2>2, SameWorld
       DEF ReleasesAt, BeforePc, UpgradePc, UpgradedPc, UndoPc, ForwardPc
  <2>. QED  BY <1>1, <1>2, <1>9, <2>3, TransitionReleases DEF Start
<1>10. ASSUME Mutated(p) \/ Probing(p) PROVE Releases'
  <2>1. /\ pc[p] \in {"mutated", "probing"} /\ at[p] = 1 /\ at[p] \in Mutation /\ at'[p] = at[p]
        /\ \A k \in Mutation : Done(k)
    BY <1>4, <1>10, BoundsOfMutation DEF Mutated, Probing, Transition, ReleasesAt, UpgradedPc
  <2>2. \A k \in Mutation : ~(k < 1)
    BY BoundsOfMutation
  <2>3. /\ pc'[p] \in {"probing", "probe"}
        /\ journal.evidence \subseteq journal'.evidence
        => ReleasesAt(p)'
    BY <1>4, <2>1, <2>2, SameWorld
       DEF ReleasesAt, BeforePc, UpgradePc, UpgradedPc, UndoPc, ForwardPc
  <2>. QED  BY <1>1, <1>2, <1>10, <2>3, TransitionReleases DEF Mutated, Probing
<1>11. ASSUME TlsProbing(p) PROVE Releases'
  <2>1. \A k \in Mutation : Done(k) /\ Probed(k)
    BY <1>4, <1>11 DEF TlsProbing, Transition, ReleasesAt, UpgradedPc, ForwardPc
  <2>2. /\ pc'[p] = "tls_probe"
        /\ journal.evidence \subseteq journal'.evidence
        => ReleasesAt(p)'
    BY <1>4, <2>1, SameWorld
       DEF ReleasesAt, BeforePc, UpgradePc, UpgradedPc, UndoPc, ForwardPc
  <2>. QED  BY <1>1, <1>2, <1>11, <2>2, TransitionReleases DEF TlsProbing
<1>12. ASSUME Succeed(p) PROVE Releases'
  <2>1. \A k \in Mutation : Done(k) /\ Probed(k)
    BY <1>4, <1>12 DEF Succeed, Transition, ReleasesAt, UpgradedPc, ForwardPc
  <2>2. \A k \in Mutation : Quiet(k) /\ release[k] = "after"
    BY <2>1 DEF Done, Upgraded, Quiet
  <2>3. journal'.evidence = journal.evidence
    BY <1>12, BecomesFacts DEF Succeed, Transition, Typed
  <2>4. journal'.status = "SUCCEEDED" => Verdict'
    BY <1>4, <2>1, <2>2, <2>3, SameWorld DEF Verdict, EarlyStates
  <2>. QED  BY <1>1, <1>5, <1>12, <2>4, TransitionReleases DEF Succeed
<1>13. ASSUME ForwardFailed(p) PROVE Releases'
  <2>1. Mutation = {}
    BY <1>4, <1>13 DEF ForwardFailed, Transition, ReleasesAt
  <2>2. Verdict'
    BY <1>4, <2>1 DEF Verdict
  <2>. QED  BY <1>1, <1>5, <1>13, <2>2, TransitionReleases DEF ForwardFailed
<1>14. ASSUME RollbackStart(p) PROVE Releases'
  <2>1. /\ at[p] \in Mutation /\ at'[p] = at[p]
        /\ \A k \in Mutation : (k <= at[p] => Upgraded(k)) /\ (k > at[p] => Fresh(k))
    BY <1>4, <1>14 DEF RollbackStart, Transition, ReleasesAt
  <2>2. \A k \in Mutation : k > at[p] => Undone(p, k)
    BY <2>1 DEF Fresh, Undone, Quiet
  <2>3. (\A k \in Mutation : k < at[p] => Upgraded(k)) /\ Upgraded(at[p])
    BY <2>1, BoundsOfMutation
  <2>4. /\ pc'[p] = "rollback"
        /\ journal.evidence \subseteq journal'.evidence
        => ReleasesAt(p)'
    BY <1>4, <2>1, <2>2, <2>3, SameWorld
       DEF ReleasesAt, BeforePc, UpgradePc, UpgradedPc, UndoPc, ForwardPc
  <2>. QED  BY <1>1, <1>2, <1>14, <2>4, SilentFallback, TransitionReleases DEF RollbackStart
<1>15. ASSUME RollbackEnd(p) PROVE Releases'
  <2>1. \A k \in Mutation : Undone(p, k)
    BY <1>4, <1>15 DEF RollbackEnd, Transition, ReleasesAt
  <2>2. ~undoFailed[p] => \A k \in Mutation : Quiet(k) /\ release[k] = "before"
    BY <2>1 DEF Undone
  <2>3. journal'.evidence = journal.evidence
    BY <1>15, BecomesFacts DEF RollbackEnd, Transition, Typed
  <2>4. ~undoFailed[p] /\ journal'.status = "ROLLED_BACK" => Verdict'
    BY <1>4, <2>2, <2>3, SameWorld DEF Verdict, EarlyStates
  <2>. QED  BY <1>1, <1>5, <1>15, <2>4, SilentFallback, TransitionReleases DEF RollbackEnd
<1>. QED
  BY <1>6, <1>7, <1>8, <1>9, <1>10, <1>11, <1>12, <1>13, <1>14, <1>15

(* The evidence of the four kinds of commands keeps Releases.              *)
LEMMA RecordedReleases ==
    ASSUME Typed, Control, Releases, NEW p \in Process,
           DryRunRecorded(p) \/ MutationRecorded(p) \/ ProbeRecorded(p) \/ UndoRecorded(p)
    PROVE  Releases'
<1>1. {"dry_run_evidence", "mutation_evidence", "probe_evidence", "rollback_evidence"}
        \subseteq RunnerPc
  BY DEF RunnerPc, RunPc, VisitPc, PcStates
<1>2. ReleasesAt(p) /\ at[p] \in Nat /\ outcome[p] \in Outcomes
  BY DEF Releases, Typed, TypeOK
<1>3. ASSUME UNCHANGED manifest PROVE Mutation' = Mutation
  BY <1>3 DEF Mutation
<1>4. ASSUME DryRunRecorded(p) PROVE Releases'
  <2>1. \A k \in Mutation : Fresh(k)
    BY <1>2, <1>4 DEF DryRunRecorded, Evidence, ReleasesAt, BeforePc
  <2>2. /\ DryRunNext(p).pc \in {"dry_run_failed", "dry_run", "dry_run_passed"}
        /\ DryRunNext(p).pc = "dry_run_passed" => DryRunNext(p).at = 1
    BY DEF DryRunNext, Then
  <2>3. /\ UNCHANGED <<manifest, upgrade, undo, release, outcome, undoFailed>>
        /\ pc'[p] = DryRunNext(p).pc /\ at'[p] = DryRunNext(p).at
        /\ journal.evidence \subseteq journal'.evidence
        => ReleasesAt(p)'
    BY <1>3, <2>1, <2>2, SameWorld
       DEF ReleasesAt, BeforePc, UpgradePc, UpgradedPc, UndoPc, ForwardPc
  <2>. QED  BY <1>1, <1>4, <2>3, EvidenceReleases DEF DryRunRecorded
<1>5. ASSUME MutationRecorded(p) PROVE Releases'
  <2>1. /\ at[p] \in Mutation /\ Upgraded(at[p])
        /\ outcome[p] # "failed" => release[at[p]] = "after"
        /\ \A k \in Mutation : (k < at[p] => Done(k)) /\ (k > at[p] => Fresh(k))
    BY <1>2, <1>5 DEF MutationRecorded, Evidence, ReleasesAt, UpgradePc
  <2>0. PICK i \in Mutation : i = at[p]
    BY <2>1
  <2>2. \/ /\ outcome[p] = "failed"
           /\ MutationNext(p).pc = "rollback_start" /\ MutationNext(p).at = i
        \/ /\ outcome[p] # "failed" /\ i + 1 \in Mutation
           /\ MutationNext(p).pc = "mutate" /\ MutationNext(p).at = i + 1
        \/ /\ outcome[p] # "failed" /\ i + 1 \notin Mutation
           /\ MutationNext(p).pc = "mutated" /\ MutationNext(p).at = 1
    BY <2>0 DEF MutationNext, Then
  <2>3. ASSUME UNCHANGED <<manifest, upgrade, undo, release, outcome, undoFailed>>,
               pc'[p] = MutationNext(p).pc, at'[p] = MutationNext(p).at,
               journal.evidence \subseteq journal'.evidence,
               [command |-> <<"mutation", at[p]>>, status |-> outcome[p]] \in journal'.evidence
        PROVE  ReleasesAt(p)'
    <3>1. Mutation' = Mutation
      BY <1>3, <2>3
    <3>2. /\ \A k \in Mutation : (k < i => Done(k)') /\ (k > i => Fresh(k)')
          /\ \A k \in Mutation : k < i => Upgraded(k)'
          /\ Upgraded(i)'
      BY <2>0, <2>1, <2>3, SameWorld DEF Done
    <3>3. outcome[p] # "failed" => Done(i)'
      BY <2>0, <2>1, <2>3, <3>2 DEF Done, Recorded
    <3>4. \A k \in Mutation :
            /\ k \in Nat /\ (k < i \/ k = i \/ k > i)
            /\ k <= i <=> k < i \/ k = i
            /\ k < i + 1 <=> k < i \/ k = i
            /\ k > i + 1 => k > i
      BY <1>2, BoundsOfMutation
    <3>5. /\ i + 1 \in Mutation => Fresh(i + 1)'
          /\ i + 1 \notin Mutation => \A k \in Mutation : ~(k > i)
      BY <1>2, <2>0, <2>1, <3>2, BoundsOfMutation
    <3>6. CASE outcome[p] = "failed"
      BY <2>0, <2>1, <2>2, <2>3, <3>1, <3>2, <3>4, <3>6
         DEF ReleasesAt, BeforePc, UpgradePc, UpgradedPc, UndoPc, ForwardPc
    <3>7. CASE outcome[p] # "failed" /\ i + 1 \in Mutation
      BY <2>0, <2>1, <2>2, <2>3, <3>1, <3>2, <3>3, <3>4, <3>5, <3>7
         DEF ReleasesAt, BeforePc, UpgradePc, UpgradedPc, UndoPc, ForwardPc
    <3>8. CASE outcome[p] # "failed" /\ i + 1 \notin Mutation
      <4>1. \A k \in Mutation : Done(k)'
        BY <3>2, <3>3, <3>4, <3>5, <3>8
      <4>2. Mutation # {}
        BY <2>0, <2>1
      <4>. QED
        BY <2>2, <2>3, <3>1, <3>8, <4>1, <4>2
           DEF ReleasesAt, BeforePc, UpgradePc, UpgradedPc, UndoPc, ForwardPc
    <3>. QED  BY <3>6, <3>7, <3>8
  <2>. QED  BY <1>1, <1>5, <2>3, EvidenceReleases DEF MutationRecorded
<1>6. ASSUME ProbeRecorded(p) PROVE Releases'
  <2>1. /\ at[p] \in Mutation
        /\ \A k \in Mutation : Done(k) /\ (k < at[p] => Probed(k))
        /\ outcome[p] \in {"succeeded", "failed"}
    BY <1>2, <1>6
       DEF ProbeRecorded, Evidence, ReleasesAt, UpgradedPc, Typed, Recordable, EvidencePc
  <2>0. PICK i \in Mutation : i = at[p]
    BY <2>1
  <2>2. \/ /\ outcome[p] = "failed" /\ ProbeNext(p).pc = "rollback_start"
           /\ ProbeNext(p).at = manifest.mutations
        \/ /\ outcome[p] # "failed" /\ i + 1 \in Mutation
           /\ ProbeNext(p).pc = "probe" /\ ProbeNext(p).at = i + 1
        \/ /\ outcome[p] # "failed" /\ i + 1 \notin Mutation
           /\ ProbeNext(p).pc \in {"forward_intent", "succeed"}
    BY <2>0 DEF ProbeNext, Then
  <2>3. ASSUME UNCHANGED <<manifest, upgrade, undo, release, outcome, undoFailed>>,
               pc'[p] = ProbeNext(p).pc, at'[p] = ProbeNext(p).at,
               journal.evidence \subseteq journal'.evidence,
               [command |-> <<"readiness_probe", at[p]>>, status |-> outcome[p]]
                  \in journal'.evidence
        PROVE  ReleasesAt(p)'
    <3>1. Mutation' = Mutation
      BY <1>3, <2>3
    <3>2. \A k \in Mutation : Done(k)' /\ Upgraded(k)' /\ (k < i => Probed(k)')
      BY <2>0, <2>1, <2>3, SameWorld DEF Done
    <3>3. outcome[p] # "failed" => Probed(i)'
      BY <2>0, <2>1, <2>3 DEF Probed
    <3>4. \A k \in Mutation :
            /\ k \in Nat /\ (k < i \/ k = i \/ k > i)
            /\ k < i + 1 <=> k < i \/ k = i
            /\ i + 1 \notin Mutation => ~(k > i)
            /\ ~(k > manifest.mutations)
      BY <1>2, <2>0, <2>1, BoundsOfMutation
    <3>5. CASE outcome[p] = "failed"
      <4>1. manifest.mutations \in Mutation
        BY <2>0, <2>1, BoundsOfMutation
      <4>. QED
        BY <2>2, <2>3, <3>1, <3>2, <3>4, <3>5, <4>1
           DEF ReleasesAt, BeforePc, UpgradePc, UpgradedPc, UndoPc, ForwardPc
    <3>6. CASE outcome[p] # "failed" /\ i + 1 \in Mutation
      BY <2>0, <2>1, <2>2, <2>3, <3>1, <3>2, <3>3, <3>4, <3>6
         DEF ReleasesAt, BeforePc, UpgradePc, UpgradedPc, UndoPc, ForwardPc
    <3>7. CASE outcome[p] # "failed" /\ i + 1 \notin Mutation
      <4>1. \A k \in Mutation : Done(k)' /\ Probed(k)'
        BY <3>2, <3>3, <3>4, <3>7
      <4>. QED
        BY <2>2, <2>3, <3>1, <3>7, <4>1
           DEF ReleasesAt, BeforePc, UpgradePc, UpgradedPc, UndoPc, ForwardPc
    <3>. QED  BY <3>5, <3>6, <3>7
  <2>. QED  BY <1>1, <1>6, <2>3, EvidenceReleases DEF ProbeRecorded
<1>7. ASSUME UndoRecorded(p) PROVE Releases'
  <2>1. /\ at[p] \in Mutation /\ Undone(p, at[p])
        /\ \A k \in Mutation : (k < at[p] => Upgraded(k)) /\ (k > at[p] => Undone(p, k))
    BY <1>2, <1>7 DEF UndoRecorded, Evidence, ReleasesAt, UndoPc
  <2>0. PICK i \in Mutation : i = at[p]
    BY <2>1
  <2>2. \/ /\ i > 1
           /\ UndoNext(p).pc = "rollback" /\ UndoNext(p).at = i - 1
        \/ /\ ~(i > 1)
           /\ UndoNext(p).pc = "rollback_end" /\ UndoNext(p).at = 1
    BY <2>0 DEF UndoNext, Then
  <2>3. ASSUME UNCHANGED <<manifest, upgrade, undo, release, outcome, undoFailed>>,
               pc'[p] = UndoNext(p).pc, at'[p] = UndoNext(p).at,
               journal.evidence \subseteq journal'.evidence
        PROVE  ReleasesAt(p)'
    <3>1. Mutation' = Mutation
      BY <1>3, <2>3
    <3>2. /\ Undone(p, i)'
          /\ \A k \in Mutation : (k < i => Upgraded(k)') /\ (k > i => Undone(p, k)')
      BY <2>0, <2>1, <2>3, SameWorld
    <3>3. \A k \in Mutation :
            /\ k \in Nat /\ (k < i \/ k = i \/ k > i)
            /\ k < i - 1 => k < i
            /\ k > i - 1 => k = i \/ k > i
            /\ ~(i > 1) => ~(k < i)
      BY <1>2, <2>0, <2>1, BoundsOfMutation
    <3>4. CASE i > 1
      <4>1. i - 1 \in Mutation /\ i - 1 < i
        BY <1>2, <2>0, <2>1, <3>4, BoundsOfMutation
      <4>. QED
        BY <2>0, <2>1, <2>2, <2>3, <3>1, <3>2, <3>3, <3>4, <4>1
           DEF ReleasesAt, BeforePc, UpgradePc, UpgradedPc, UndoPc, ForwardPc
    <3>5. CASE ~(i > 1)
      BY <2>0, <2>1, <2>2, <2>3, <3>1, <3>2, <3>3, <3>5
         DEF ReleasesAt, BeforePc, UpgradePc, UpgradedPc, UndoPc, ForwardPc
    <3>. QED  BY <3>4, <3>5
  <2>. QED  BY <1>1, <1>7, <2>3, SilentFallback, EvidenceReleases DEF UndoRecorded
<1>. QED  BY <1>4, <1>5, <1>6, <1>7

(* The steps around a port forward keep Releases.                          *)
LEMMA ForwardReleases ==
    ASSUME Typed, Control, Releases, NEW p \in Process,
           ForwardIntent(p) \/ ForwardStarted(p) \/ ForwardStopped(p) \/ ForwardAmbiguous(p)
             \/ Spawn(p) \/ WaitReady(p) \/ TlsProbes(p) \/ TlsRecorded(p) \/ Close(p)
    PROVE  Releases'
<1>1. /\ UNCHANGED <<manifest, upgrade, undo, release, undoFailed>>
      /\ pc[p] \in ForwardPc
  BY DEF ForwardIntent, ForwardStarted, ForwardStopped, ForwardAmbiguous, Owns, Spawn, WaitReady,
         TlsProbes, TlsRecorded, Close, world, local, ForwardPc
<1>2. Mutation' = Mutation /\ pc[p] \in RunPc
  BY <1>1 DEF Mutation, ForwardPc, RunPc, VisitPc, PcStates
<1>3. /\ journal'.evidence = journal.evidence
      /\ \/ journal'.status = journal.status
         \/ journal'.status \in {"PORT_FORWARD_INTENT", "PORT_FORWARD_STARTED"}
  <2>1. ASSUME NEW from, NEW to, NEW status, NEW next, NEW otherwise, NEW label,
               Owns(p, label, from, to, status, next, otherwise),
               status \in {journal.status, "PORT_FORWARD_INTENT", "PORT_FORWARD_STARTED"}
        PROVE  /\ journal'.evidence = journal.evidence
               /\ \/ journal'.status = journal.status
                  \/ journal'.status \in {"PORT_FORWARD_INTENT", "PORT_FORWARD_STARTED"}
    BY <2>1, OwnsFacts DEF Fields
  <2>2. CASE ForwardIntent(p) \/ ForwardStarted(p)
    BY <2>1, <2>2 DEF ForwardIntent, ForwardStarted
  <2>3. CASE ForwardStopped(p) \/ ForwardAmbiguous(p)
    BY <2>1, <2>3 DEF ForwardStopped, ForwardAmbiguous
  <2>4. CASE TlsRecorded(p)
    BY <2>4, TlsRecordedFacts DEF Fields
  <2>5. CASE Spawn(p) \/ WaitReady(p) \/ TlsProbes(p) \/ Close(p)
    BY <2>5 DEF Spawn, WaitReady, TlsProbes, Close
  <2>. QED  BY <2>2, <2>3, <2>4, <2>5
<1>4. {"PORT_FORWARD_INTENT", "PORT_FORWARD_STARTED"} \subseteq AmbiguousStates
  BY DEF AmbiguousStates, ForwardStates
<1>5. \E label : Goto(p, label)
  BY DEF ForwardIntent, ForwardStarted, ForwardStopped, ForwardAmbiguous, Owns, Spawn, WaitReady,
         TlsProbes, TlsRecorded, Close
<1>6. /\ \A q \in Process \ {p} : outcome'[q] = outcome[q]
      /\ \A q \in Process \ {p} : at'[q] = at[q]
  BY DEF ForwardIntent, ForwardStarted, ForwardStopped, ForwardAmbiguous, Spawn, WaitReady,
         TlsProbes, TlsRecorded, Close, local, Typed, TypeOK
<1>7. \A q \in Process \ {p} : /\ pc'[q] = pc[q] /\ at'[q] = at[q]
                               /\ outcome'[q] = outcome[q] /\ undoFailed'[q] = undoFailed[q]
  BY <1>1, <1>5, <1>6 DEF Goto, Typed, TypeOK
<1>8. \A label : Goto(p, label) => pc'[p] = label
  BY DEF Goto, Typed, TypeOK
<1>9. \A k \in Mutation : Done(k) /\ Probed(k)
  BY <1>1 DEF Releases, ReleasesAt, UpgradedPc
<1>10. \A k \in Mutation : Done(k)' /\ Probed(k)' /\ Upgraded(k)'
  BY <1>1, <1>3, <1>9, SameWorld DEF Done
<1>11. ASSUME pc'[p] \in ForwardPc \cup {"safe_failure", "reconcile", "succeed"} PROVE ReleasesAt(p)'
  BY <1>2, <1>10, <1>11 DEF ReleasesAt, BeforePc, UpgradePc, UpgradedPc, UndoPc, ForwardPc
<1>12. ASSUME ForwardIntent(p) \/ ForwardStarted(p) \/ ForwardAmbiguous(p) \/ Spawn(p)
                \/ WaitReady(p) \/ TlsProbes(p) \/ TlsRecorded(p) \/ Close(p)
       PROVE  ReleasesAt(p)'
  <2>1. \E label \in ForwardPc \cup {"safe_failure", "reconcile", "succeed"} : Goto(p, label)
    BY <1>12 DEF ForwardIntent, ForwardStarted, ForwardAmbiguous, Owns, Spawn, WaitReady,
         TlsProbes, TlsRecorded, Close, ForwardPc
  <2>. QED  BY <1>8, <1>11, <2>1
<1>13. ASSUME ForwardStopped(p) PROVE ReleasesAt(p)'
  <2>1. /\ pc'[p] \in {ForwardNext(p).pc, "reconcile"} /\ at'[p] = ForwardNext(p).at
    BY <1>8, <1>13 DEF ForwardStopped, Owns, Typed, TypeOK
  <2>2. \/ ForwardNext(p).pc \in {"reconcile", "forward_intent", "succeed"}
        \/ /\ ForwardNext(p).pc = "rollback_start" /\ Mutation # {}
           /\ ForwardNext(p).at = manifest.mutations
        \/ ForwardNext(p).pc = "forward_failed" /\ Mutation = {}
    BY DEF ForwardNext, Then
  <2>3. CASE pc'[p] \in {"reconcile", "forward_intent", "succeed"}
    BY <1>11, <2>3 DEF ForwardPc
  <2>4. CASE pc'[p] = "rollback_start" /\ Mutation # {} /\ at'[p] = manifest.mutations
    <3>1. at'[p] \in Mutation /\ \A k \in Mutation : ~(k > manifest.mutations)
      BY <2>4, BoundsOfMutation
    <3>. QED
      BY <1>2, <1>10, <2>4, <3>1
         DEF ReleasesAt, BeforePc, UpgradePc, UpgradedPc, UndoPc, ForwardPc
  <2>5. CASE pc'[p] = "forward_failed" /\ Mutation = {}
    BY <1>2, <2>5 DEF ReleasesAt, BeforePc, UpgradePc, UpgradedPc, UndoPc, ForwardPc
  <2>. QED  BY <2>1, <2>2, <2>3, <2>4, <2>5
<1>14. ReleasesAt(p)'
  BY <1>12, <1>13
<1>. QED  BY <1>1, <1>2, <1>3, <1>4, <1>7, <1>14, RunnerReleases

(* A command that is launched, or that ends.                               *)
LEMMA CommandReleases ==
    ASSUME Typed, Control, Releases, NEW p \in Process,
           Mutate(p) \/ UpgradeEnds(p) \/ Rollback(p) \/ UndoEnds(p)
    PROVE  Releases'
<1>1. /\ UNCHANGED <<manifest, journal>> /\ pc[p] \in {"mutate", "upgrading", "rollback", "undoing"}
      /\ Mutation' = Mutation
  BY DEF Mutate, UpgradeEnds, Rollback, UndoEnds, Mutation
<1>2. pc[p] \in RunnerPc /\ pc[p] \in RunPc /\ RecordAt(pc[p]) \subseteq AmbiguousStates
  BY <1>1 DEF RunnerPc, RunPc, VisitPc, PcStates, RecordAt, AmbiguousStates, ForwardStates
<1>3. Verdict'
  BY <1>1, <1>2, AtWork DEF Verdict, AmbiguousStates, ForwardStates, EarlyStates
<1>4. \A q \in Process \ {p} : /\ pc'[q] = pc[q] /\ at'[q] = at[q]
                               /\ outcome'[q] = outcome[q] /\ undoFailed'[q] = undoFailed[q]
  <2>1. \E label : Goto(p, label)
    BY DEF Mutate, UpgradeEnds, Rollback, UndoEnds
  <2>2. \A q \in Process \ {p} : at'[q] = at[q] /\ outcome'[q] = outcome[q]
                                  /\ undoFailed'[q] = undoFailed[q]
    BY DEF Mutate, UpgradeEnds, Rollback, UndoEnds, local, Typed, TypeOK
  <2>. QED  BY <2>1, <2>2 DEF Goto, Typed, TypeOK
<1>5. ASSUME ReleasesAt(p)', JournalAccounts' PROVE Releases'
  BY <1>1, <1>2, <1>3, <1>4, <1>5, StepReleases
<1>6. \A label : Goto(p, label) => pc'[p] = label
  BY DEF Goto, Typed, TypeOK
<1>7. ReleasesAt(p) /\ at[p] \in Nat
  BY DEF Releases, Typed, TypeOK
<1>8. at[p] \in Mutation
  BY <1>1, <1>7 DEF ReleasesAt, UpgradePc, UndoPc
<1>9. PICK i \in Mutation : i = at[p]
  BY <1>8
<1>10. i \in Nat /\ \A k \in Mutation : k \in Nat
  BY BoundsOfMutation
<1>11. \A k : Recorded("mutation", k)' <=> Recorded("mutation", k)
  BY <1>1 DEF Recorded
<1>12. ASSUME Mutate(p) PROVE Releases'
  <2>1. /\ Fresh(i) /\ \A k \in Mutation : (k < i => Done(k)) /\ (k > i => Fresh(k))
        /\ upgrade' = [upgrade EXCEPT ![i] = "running"]
        /\ UNCHANGED <<undo, release, at, outcome, undoFailed>> /\ pc'[p] = "upgrading"
    BY <1>6, <1>7, <1>9, <1>12 DEF Mutate, ReleasesAt, UpgradePc, local
  <2>2. upgrade'[i] = "running" /\ \A k \in Mutation \ {i} : upgrade'[k] = upgrade[k]
    BY <2>1 DEF Typed, TypeOK
  <2>3. \A k \in Mutation : (k < i => Done(k)') /\ (k > i => Fresh(k)')
    BY <1>10, <1>11, <2>1, <2>2 DEF Done, Upgraded, Fresh
  <2>4. upgrade'[i] = "running" /\ undo'[i] = "never"
    BY <2>1, <2>2 DEF Fresh
  <2>5. ReleasesAt(p)'
    BY <1>1, <1>9, <2>1, <2>3, <2>4
       DEF ReleasesAt, BeforePc, UpgradePc, UpgradedPc, UndoPc, ForwardPc
  <2>6. JournalAccounts'
    <3>1. \A k \in Mutation : k < i => Recorded("mutation", k)
      BY <2>1 DEF Done
    <3>2. \A k \in 1..(i - 1) : k \in Mutation /\ k < i
      BY <1>10, BoundsOfMutation
    <3>3. \A m \in Mutation \ {i} :
            upgrade'[m] # "never" => \A k \in 1..(m - 1) : Recorded("mutation", k)
      BY <2>2 DEF Releases, JournalAccounts
    <3>. QED  BY <1>1, <1>11, <3>1, <3>2, <3>3 DEF JournalAccounts
  <2>. QED  BY <1>5, <2>5, <2>6
<1>13. ASSUME UpgradeEnds(p) PROVE Releases'
  <2>1. PICK o \in {"succeeded", "failed", "lost"}, v \in {"before", "after"} :
          /\ o = "succeeded" => v = "after"
          /\ release' = [release EXCEPT ![at[p]] = v]
          /\ outcome' = [outcome EXCEPT ![p] = o]
          /\ Goto(p, IF o = "lost" THEN "command_lost" ELSE "mutation_evidence")
    BY <1>13 DEF UpgradeEnds
  <2>2. /\ undo[i] = "never" /\ \A k \in Mutation : (k < i => Done(k)) /\ (k > i => Fresh(k))
        /\ upgrade[i] = "running" /\ upgrade' = [upgrade EXCEPT ![i] = "ended"]
        /\ UNCHANGED <<undo, at, undoFailed>>
    BY <1>7, <1>9, <1>13 DEF UpgradeEnds, ReleasesAt, UpgradePc
  <2>3. /\ upgrade'[i] = "ended" /\ release'[i] = v /\ outcome'[p] = o
        /\ \A k \in Mutation \ {i} : upgrade'[k] = upgrade[k] /\ release'[k] = release[k]
    BY <1>9, <2>1, <2>2 DEF Typed, TypeOK
  <2>4. \A k \in Mutation : (k < i => Done(k)') /\ (k > i => Fresh(k)')
    BY <1>10, <1>11, <2>2, <2>3 DEF Done, Upgraded, Fresh
  <2>5. Upgraded(i)'
    BY <2>2, <2>3 DEF Upgraded
  <2>6. ReleasesAt(p)'
    <3>1. CASE o = "lost"
      <4>1. pc'[p] = "command_lost"
        BY <1>6, <2>1, <3>1
      <4>. QED
        BY <4>1 DEF ReleasesAt, BeforePc, UpgradePc, UpgradedPc, UndoPc, ForwardPc
    <3>2. CASE o # "lost"
      <4>1. pc'[p] = "mutation_evidence" /\ (o # "failed" => release'[i] = "after")
        BY <1>6, <2>1, <2>3, <3>2
      <4>. QED
        BY <1>1, <1>9, <2>2, <2>3, <2>4, <2>5, <4>1
           DEF ReleasesAt, BeforePc, UpgradePc, UpgradedPc, UndoPc, ForwardPc
    <3>. QED  BY <3>1, <3>2
  <2>7. JournalAccounts'
    <3>1. \A m \in Mutation : upgrade'[m] # "never" => upgrade[m] # "never"
      BY <2>2, <2>3
    <3>2. \A m \in Mutation :
            upgrade[m] # "never" => \A k \in 1..(m - 1) : Recorded("mutation", k)
      BY DEF Releases, JournalAccounts
    <3>. QED  BY <1>1, <1>11, <3>1, <3>2 DEF JournalAccounts
  <2>. QED  BY <1>5, <2>6, <2>7
<1>14. ASSUME Rollback(p) PROVE Releases'
  <2>1. /\ Upgraded(i)
        /\ \A k \in Mutation : (k < i => Upgraded(k)) /\ (k > i => Undone(p, k))
        /\ undo' = [undo EXCEPT ![i] = "running"]
        /\ UNCHANGED <<upgrade, release, at, outcome, undoFailed>> /\ pc'[p] = "undoing"
    BY <1>6, <1>7, <1>9, <1>14 DEF Rollback, ReleasesAt, UndoPc, local
  <2>2. \A k \in Mutation \ {i} : undo'[k] = undo[k]
    BY <2>1 DEF Typed, TypeOK
  <2>3. \A k \in Mutation : (k < i => Upgraded(k)') /\ (k > i => Undone(p, k)')
    <3>1. /\ \A k \in Mutation : k < i \/ k > i => k # i
          /\ upgrade' = upgrade /\ release' = release /\ undoFailed' = undoFailed
      BY <1>10, <2>1
    <3>2. \A k \in Mutation \ {i} : Upgraded(k)' <=> Upgraded(k)
      BY <2>2, <3>1 DEF Upgraded
    <3>3. \A k \in Mutation \ {i} : Undone(p, k)' <=> Undone(p, k)
      BY <2>2, <3>1, Zenon DEF Undone, Quiet
    <3>. QED  BY <2>1, <3>1, <3>2, <3>3
  <2>4. upgrade'[i] = "ended"
    BY <2>1 DEF Upgraded
  <2>5. ReleasesAt(p)'
    BY <1>1, <1>9, <2>1, <2>3, <2>4
       DEF ReleasesAt, BeforePc, UpgradePc, UpgradedPc, UndoPc, ForwardPc
  <2>6. JournalAccounts'
    BY <1>1, <2>1, AccountsKept
  <2>. QED  BY <1>5, <2>5, <2>6
<1>15. ASSUME UndoEnds(p) PROVE Releases'
  <2>1. PICK o \in {"succeeded", "failed", "lost"}, v \in {"before", "after"} :
          /\ o = "succeeded" => v = "before"
          /\ release' = [release EXCEPT ![at[p]] = v]
          /\ undoFailed' = [undoFailed EXCEPT ![p] = @ \/ o # "succeeded"]
          /\ IF o = "lost"
                THEN Goto(p, UndoNext(p).pc) /\ at' = [at EXCEPT ![p] = UndoNext(p).at]
                ELSE Goto(p, "rollback_evidence") /\ UNCHANGED at
    BY <1>15 DEF UndoEnds
  <2>2. /\ upgrade[i] = "ended"
        /\ \A k \in Mutation : (k < i => Upgraded(k)) /\ (k > i => Undone(p, k))
        /\ undo' = [undo EXCEPT ![i] = "ended"] /\ UNCHANGED upgrade
    BY <1>7, <1>9, <1>15 DEF UndoEnds, ReleasesAt, UndoPc
  <2>3. /\ undo'[i] = "ended" /\ release'[i] = v
        /\ \A k \in Mutation \ {i} : undo'[k] = undo[k] /\ release'[k] = release[k]
    BY <1>9, <2>1, <2>2 DEF Typed, TypeOK
  <2>4. /\ undoFailed[p] => undoFailed'[p]
        /\ o # "succeeded" => undoFailed'[p]
    BY <2>1 DEF Typed, TypeOK
  <2>5. \A k \in Mutation : (k < i => Upgraded(k)') /\ (k > i => Undone(p, k)')
    BY <1>10, <2>2, <2>3, <2>4 DEF Upgraded, Undone, Quiet
  <2>6. Undone(p, i)'
    BY <2>1, <2>2, <2>3, <2>4 DEF Undone, Quiet
  <2>7. ReleasesAt(p)'
    <3>1. CASE o # "lost"
      <4>1. pc'[p] = "rollback_evidence" /\ at' = at
        BY <1>6, <2>1, <3>1
      <4>. QED
        BY <1>1, <1>9, <2>5, <2>6, <4>1
           DEF ReleasesAt, BeforePc, UpgradePc, UpgradedPc, UndoPc, ForwardPc
    <3>2. CASE o = "lost"
      <4>1. pc'[p] = UndoNext(p).pc /\ at'[p] = UndoNext(p).at
        BY <1>6, <2>1, <3>2 DEF Typed, TypeOK
      <4>2. \/ i > 1 /\ pc'[p] = "rollback" /\ at'[p] = i - 1
            \/ ~(i > 1) /\ pc'[p] = "rollback_end"
        BY <1>9, <4>1 DEF UndoNext, Then
      <4>3. \A k \in Mutation :
              /\ k < i \/ k = i \/ k > i
              /\ k < i - 1 => k < i
              /\ k > i - 1 => k = i \/ k > i
              /\ ~(i > 1) => ~(k < i)
        BY <1>10, BoundsOfMutation
      <4>4. CASE i > 1 /\ pc'[p] = "rollback" /\ at'[p] = i - 1
        <5>1. i - 1 \in Mutation /\ i - 1 < i
          BY <1>10, <4>4, BoundsOfMutation
        <5>. QED
          BY <1>1, <2>5, <2>6, <4>3, <4>4, <5>1
             DEF ReleasesAt, BeforePc, UpgradePc, UpgradedPc, UndoPc, ForwardPc
      <4>5. CASE ~(i > 1) /\ pc'[p] = "rollback_end"
        BY <1>1, <2>5, <2>6, <4>3, <4>5
           DEF ReleasesAt, BeforePc, UpgradePc, UpgradedPc, UndoPc, ForwardPc
      <4>. QED  BY <4>2, <4>4, <4>5
    <3>. QED  BY <3>1, <3>2
  <2>8. JournalAccounts'
    BY <1>1, <2>2, AccountsKept
  <2>. QED  BY <1>5, <2>7, <2>8
<1>. QED  BY <1>12, <1>13, <1>14, <1>15

(* The launch, and the commands that change no release, keep Releases.     *)
LEMMA LaunchReleases ==
    ASSUME Typed, Control, Releases, NEW p \in Process, Launch(p) \/ DryRuns(p) \/ Probes(p)
    PROVE  Releases'
<1>1. /\ UNCHANGED <<manifest, upgrade, undo, release, journal>>
      /\ pc[p] \in {"launch", "dry_run", "probe"} /\ Mutation' = Mutation
  BY DEF Launch, DryRuns, Probes, world, Mutation
<1>2. pc[p] \in RunPc
  BY <1>1 DEF RunPc, VisitPc, PcStates
<1>3. \A q \in Process \ {p} : /\ pc'[q] = pc[q] /\ at'[q] = at[q]
                               /\ outcome'[q] = outcome[q] /\ undoFailed'[q] = undoFailed[q]
  <2>1. \E label : Goto(p, label)
    BY DEF Launch, DryRuns, Probes
  <2>2. \A q \in Process \ {p} : at'[q] = at[q] /\ outcome'[q] = outcome[q]
                                  /\ undoFailed'[q] = undoFailed[q]
    BY DEF Launch, DryRuns, Probes, Typed, TypeOK
  <2>. QED  BY <2>1, <2>2 DEF Goto, Typed, TypeOK
<1>4. \A label : Goto(p, label) => pc'[p] = label
  BY DEF Goto, Typed, TypeOK
<1>5. ReleasesAt(p)
  BY DEF Releases
<1>6. ASSUME Launch(p) PROVE ReleasesAt(p)'
  <2>. DEFINE first == IF journal.status # "APPROVED" THEN "result"
                       ELSE IF DryRun # {} THEN "dry_run"
                       ELSE IF Mutation # {} THEN "safe_failure"
                       ELSE "forward_intent"
  <2>1. pc[p] = "launch" /\ (Goto(p, first) \/ Goto(p, "safe_failure"))
    BY <1>6 DEF Launch
  <2>2. /\ first \in {"result", "dry_run", "safe_failure", "forward_intent"}
        /\ first = "forward_intent" => Mutation = {}
    OBVIOUS
  <2>. HIDE DEF first
  <2>3. \A k \in Mutation : Fresh(k)
    BY <1>5, <2>1 DEF ReleasesAt, BeforePc
  <2>4. pc'[p] \in {first, "safe_failure"}
    BY <1>4, <2>1
  <2>. QED
    BY <1>1, <2>2, <2>3, <2>4, SameWorld
       DEF ReleasesAt, BeforePc, UpgradePc, UpgradedPc, UndoPc, ForwardPc
<1>7. ASSUME DryRuns(p) PROVE ReleasesAt(p)'
  <2>1. \A k \in Mutation : Fresh(k)
    BY <1>5, <1>7 DEF DryRuns, ReleasesAt, BeforePc
  <2>2. \E label \in {"safe_failure", "dry_run_evidence"} : Goto(p, label)
    BY <1>7 DEF DryRuns
  <2>. QED
    BY <1>1, <1>4, <2>1, <2>2, SameWorld
       DEF ReleasesAt, BeforePc, UpgradePc, UpgradedPc, UndoPc, ForwardPc
<1>8. ASSUME Probes(p) PROVE ReleasesAt(p)'
  <2>1. /\ at[p] \in Mutation /\ at'[p] = at[p]
        /\ \A k \in Mutation : Done(k) /\ (k < at[p] => Probed(k))
    BY <1>5, <1>8 DEF Probes, ReleasesAt, UpgradedPc
  <2>2. \E label \in {"command_lost", "probe_evidence"} : Goto(p, label)
    BY <1>8 DEF Probes
  <2>. QED
    BY <1>1, <1>4, <2>1, <2>2, SameWorld
       DEF ReleasesAt, BeforePc, UpgradePc, UpgradedPc, UndoPc, ForwardPc
<1>. QED  BY <1>1, <1>2, <1>3, <1>6, <1>7, <1>8, RunnerReleases

LEMMA ReleasesInit == Init => Releases
<1>. SUFFICES ASSUME Init PROVE Releases
  OBVIOUS
<1>1. \A k \in Mutation : Fresh(k)
  BY DEF Init, Fresh
<1>2. \A p \in Process : ReleasesAt(p)
  <2>1. \A p \in Process : pc[p] = "idle"
    BY DEF Init
  <2>. QED
    BY <2>1 DEF ReleasesAt, BeforePc, UpgradePc, UpgradedPc, UndoPc, ForwardPc
<1>3. JournalAccounts
  BY <1>1 DEF JournalAccounts, Fresh
<1>4. Verdict
  <2>1. journal.status = "ABSENT"
    BY DEF Init, Absent, Row
  <2>. QED  BY <1>1, <2>1 DEF Verdict
<1>. QED  BY <1>2, <1>3, <1>4 DEF Releases

LEMMA StepReleasesAll == Typed /\ Control /\ Releases /\ [Next]_vars => Releases'
<1>. SUFFICES ASSUME Typed, Control, Releases, [Next]_vars PROVE Releases'
  OBVIOUS
<1>1. Typed'
  BY StepTyped
<1>2. CASE UNCHANGED vars
  <2>1. UNCHANGED <<manifest, journal, upgrade, undo, release, pc, at, outcome, undoFailed>>
    BY <1>2 DEF vars, world, local
  <2>2. \A q \in Process : ReleasesAt(q)'
    BY <2>1, OthersReleases DEF Releases
  <2>. QED  BY <2>1, <2>2, AccountsKept, VerdictKept DEF Releases
<1>3. ASSUME NEW p \in Process, Visit(p) \/ Works(p) \/ Crash(p) PROVE Releases'
  BY <1>1, <1>3, VisitReleases, TransitionsReleases, RecordedReleases, ForwardReleases,
     CommandReleases, LaunchReleases
     DEF Works, Runs, Forwards
<1>4. CASE ReviewAgain \/ OwnerApproves \/ Expire \/ \E m \in Mutation : TakesEffect(m)
  BY <1>1, <1>4, EnvironmentReleases
<1>. QED  BY <1>2, <1>3, <1>4 DEF Next

(* The row accounts for the cluster: an upgrade is launched only when the  *)
(* evidence of every earlier one is durable.                               *)
THEOREM JournalAccountsForUpgrades == Spec => []JournalAccounts
<1>1. Spec => [](Typed /\ Control /\ Releases)
  BY TypedInit, StepTyped, ControlInit, StepControl, ReleasesInit, StepReleasesAll, PTL DEF Spec
<1>2. Releases => JournalAccounts
  BY DEF Releases
<1>. QED  BY <1>1, <1>2, PTL

(* One step launches an upgrade only where none was launched, and a        *)
(* rollback only where the upgrade has ended and no rollback was launched. *)
LaunchedOnce ==
    \A m \in Mutation :
        /\ upgrade'[m] = "running" => upgrade[m] \in {"never", "running"}
        /\ undo'[m] = "running" =>
              /\ undo[m] \in {"never", "running"}
              /\ upgrade[m] = "ended"

(* A rollback that runs was preceded by the upgrade it undoes: known of    *)
(* the place that launches it, and kept although its process crashed.      *)
UndoneAfterUpgrade == \A m \in Mutation : undo[m] # "never" => upgrade[m] = "ended"

LEMMA UndoneAfterUpgradeStep ==
    Typed /\ Releases /\ UndoneAfterUpgrade /\ [Next]_vars => UndoneAfterUpgrade' /\ LaunchedOnce
<1>. SUFFICES ASSUME Typed, Releases, UndoneAfterUpgrade, [Next]_vars
              PROVE  UndoneAfterUpgrade' /\ LaunchedOnce
  OBVIOUS
<1>1. CASE UNCHANGED <<manifest, upgrade, undo>>
  BY <1>1 DEF UndoneAfterUpgrade, LaunchedOnce, Mutation, Typed, TypeOK
<1>2. ASSUME NEW p \in Process, Mutate(p) \/ UpgradeEnds(p) \/ Rollback(p) \/ UndoEnds(p)
      PROVE  UndoneAfterUpgrade' /\ LaunchedOnce
  <2>1. ReleasesAt(p) /\ Mutation' = Mutation
    BY <1>2 DEF Releases, Mutate, UpgradeEnds, Rollback, UndoEnds, Mutation
  <2>2. at[p] \in Mutation
    BY <1>2, <2>1 DEF ReleasesAt, Mutate, UpgradeEnds, Rollback, UndoEnds, UpgradePc, UndoPc
  <2>3. PICK i \in Mutation : i = at[p]
    BY <2>2
  <2>4. CASE Mutate(p)
    <3>1. upgrade' = [upgrade EXCEPT ![i] = "running"] /\ undo' = undo /\ Fresh(i)
      BY <2>1, <2>3, <2>4 DEF Mutate, ReleasesAt
    <3>. QED
      BY <2>1, <3>1 DEF UndoneAfterUpgrade, LaunchedOnce, Fresh, Typed, TypeOK
  <2>5. CASE UpgradeEnds(p)
    <3>1. upgrade' = [upgrade EXCEPT ![i] = "ended"] /\ undo' = undo
      BY <2>3, <2>5 DEF UpgradeEnds
    <3>. QED
      BY <2>1, <3>1 DEF UndoneAfterUpgrade, LaunchedOnce, Typed, TypeOK
  <2>6. CASE Rollback(p)
    <3>1. undo' = [undo EXCEPT ![i] = "running"] /\ upgrade' = upgrade /\ Upgraded(i)
      BY <2>1, <2>3, <2>6 DEF Rollback, ReleasesAt
    <3>. QED
      BY <2>1, <3>1 DEF UndoneAfterUpgrade, LaunchedOnce, Upgraded, Typed, TypeOK
  <2>7. CASE UndoEnds(p)
    <3>1. undo' = [undo EXCEPT ![i] = "ended"] /\ upgrade' = upgrade /\ upgrade[i] = "ended"
      BY <2>1, <2>3, <2>7 DEF UndoEnds, ReleasesAt
    <3>. QED
      BY <2>1, <3>1 DEF UndoneAfterUpgrade, LaunchedOnce, Typed, TypeOK
  <2>. QED  BY <1>2, <2>4, <2>5, <2>6, <2>7
<1>3. ASSUME NEW p \in Process, Visit(p) \/ Works(p) \/ Crash(p),
             ~(Mutate(p) \/ UpgradeEnds(p) \/ Rollback(p) \/ UndoEnds(p))
      PROVE  UNCHANGED <<manifest, upgrade, undo>>
  BY <1>3
     DEF Works, Runs, Forwards, Visit, Crash, Create, Validate, Capture, AttachSnapshot,
         AttachApproval, Attach, Launch, Result, SafeFailure, EndVisit, DryRuns, DryRunRecorded,
         Evidence, DryRunFailed, DryRunPassed, Start, CommandLost, MutationRecorded, Mutated,
         Probing, Probes, ProbeRecorded, Succeed, RollbackStart, UndoRecorded, RollbackEnd,
         Transition, ForwardIntent, Spawn, ForwardStarted, WaitReady, TlsProbing, TlsProbes,
         TlsRecorded, Close, ForwardStopped, ForwardAmbiguous, ForwardFailed, Reconcile,
         Reconciling, world
<1>4. ReviewAgain \/ OwnerApproves \/ Expire \/ (\E m \in Mutation : TakesEffect(m))
        \/ UNCHANGED vars
      => UNCHANGED <<manifest, upgrade, undo>>
  BY DEF ReviewAgain, OwnerApproves, Expire, TakesEffect, vars, world
<1>. QED  BY <1>1, <1>2, <1>3, <1>4 DEF Next

(* helm upgrade and helm rollback are launched at most once for a release, *)
(* and a rollback only after its upgrade, however often the operation is   *)
(* visited and wherever a visit crashes or is overtaken.                   *)
THEOREM NothingIsReapplied == Spec => NeverReapplied
<1>1. Init => UndoneAfterUpgrade
  BY DEF Init, UndoneAfterUpgrade
<1>2. LaunchedOnce =>
        (\A m \in Mutation :
          /\ upgrade'[m] = "running" => upgrade[m] \in {"never", "running"}
          /\ undo'[m] = "running" =>
                /\ undo[m] \in {"never", "running"}
                /\ upgrade[m] = "ended")
  BY DEF LaunchedOnce
<1>. QED
  BY <1>1, <1>2, TypedInit, StepTyped, ControlInit, StepControl, ReleasesInit, StepReleasesAll,
     UndoneAfterUpgradeStep, PTL DEF Spec, NeverReapplied
-----------------------------------------------------------------------------

(* What is known of the port forwards.                                     *)
LEMMA BoundsOfForward ==
    ASSUME Typed
    PROVE  /\ manifest.forwards \in Nat /\ Forward \subseteq Nat \ {0}
           /\ \A i \in Nat : i \in Forward <=> 1 <= i /\ i <= manifest.forwards
           /\ Forward # {} => 1 \in Forward
           /\ \A i \in Nat, f \in Forward : i + 1 \notin Forward /\ i \in Forward => f < i \/ f = i
           /\ \A i \in Nat, f \in Forward : f < i + 1 => f < i \/ f = i
<1>1. manifest.forwards \in Nat
  BY ManifestFacts DEF Typed, TypeOK
<1>. QED  BY <1>1 DEF Forward

(* Steps that touch no port forward and no probe of one.                   *)
SamePorts ==
    /\ UNCHANGED <<manifest, child>>
    /\ journal'.forwards = journal.forwards
    /\ journal'.probed = journal.probed

(* The places that say something of the port forwards.                     *)
LEMMA SilentForwards ==
    ASSUME NEW q, pc'[q] \notin ForwardPc \cup {"succeed"}
    PROVE  ForwardsAt(q)'
BY DEF ForwardsAt, ForwardPc

LEMMA OthersForwards ==
    ASSUME NEW q, ForwardsAt(q), UNCHANGED manifest,
           pc'[q] = pc[q], at'[q] = at[q], outcome'[q] = outcome[q],
           pc[q] \notin RunPc \/ SamePorts
    PROVE  ForwardsAt(q)'
<1>1. CASE pc[q] \notin RunPc
  <2>1. pc'[q] \notin ForwardPc \cup {"succeed"}
    BY <1>1 DEF RunPc, VisitPc, PcStates, ForwardPc
  <2>. QED  BY <2>1, SilentForwards
<1>2. CASE SamePorts
  <2>1. Forward' = Forward /\ child' = child
    BY <1>2 DEF SamePorts, Forward
  <2>. QED  BY <1>2, <2>1 DEF SamePorts, ForwardsAt
<1>. QED  BY <1>1, <1>2

(* A step of one process that touches no port forward.                     *)
LEMMA PortsStep ==
    ASSUME Ports, NEW p \in Process, SamePorts,
           \A q \in Process \ {p} : /\ pc'[q] = pc[q] /\ at'[q] = at[q]
                                    /\ outcome'[q] = outcome[q],
           ForwardsAt(p)',
           \/ journal'.status = journal.status
           \/ journal'.status \notin ClosedStates \cup {"ABSENT"}
           \/ /\ journal'.status # "ABSENT"
              /\ \A f \in Forward : journal.forwards[f] \in {"none", "STOPPED"}
              /\ journal'.status = "SUCCEEDED" => \A f \in Forward : journal.probed[f] = "rejected"
    PROVE  Ports'
<1>1. Forward' = Forward /\ child' = child /\ manifest' = manifest
  BY DEF SamePorts, Forward
<1>2. \A q \in Process : ForwardsAt(q)'
  BY <1>1, OthersForwards DEF Ports
<1>3. \A f \in Forward :
        child'[f] = "alive" =>
           /\ journal'.forwards[f] \in {"INTENT_PERSISTED", "STARTED", "CLEANUP_AMBIGUOUS"}
           /\ journal'.status # "ABSENT"
  BY <1>1 DEF Ports, SamePorts
<1>4. journal'.status \in ClosedStates =>
        \A f \in Forward : journal'.forwards[f] \in {"none", "STOPPED"}
  BY DEF Ports, SamePorts
<1>5. journal'.status = "SUCCEEDED" => \A f \in Forward : journal'.probed[f] = "rejected"
  BY DEF Ports, SamePorts, ClosedStates
<1>. QED  BY <1>1, <1>2, <1>3, <1>4, <1>5 DEF Ports

(* A transition closes the row only when its port forwards are closed.     *)
LEMMA BecomesPorts ==
    ASSUME Typed, Ports, NEW p \in Process, UNCHANGED <<manifest, child>>,
           NEW target \in StatusStates, MayBecome(target), Becomes(target),
           target = "SUCCEEDED" => \A f \in Forward : journal.probed[f] = "rejected",
           \A q \in Process \ {p} : /\ pc'[q] = pc[q] /\ at'[q] = at[q]
                                    /\ outcome'[q] = outcome[q],
           ForwardsAt(p)'
    PROVE  Ports'
<1>1. SamePorts /\ journal'.status = target
  BY BecomesFacts DEF SamePorts, Typed
<1>2. target # "ABSENT"
  BY DEF StatusStates, EarlyStates, AmbiguousStates, ForwardStates, ClosedStates
<1>. QED  BY <1>1, <1>2, PortsStep DEF MayBecome

LEMMA TransitionPorts ==
    ASSUME Typed, Ports, NEW p \in Process, NEW label,
           NEW target \in StatusStates, NEW next, NEW otherwise \in {"safe_failure", "reconcile"},
           Transition(p, label, target, next, otherwise),
           target = "SUCCEEDED" => \A f \in Forward : journal.probed[f] = "rejected",
           pc'[p] = next /\ SamePorts => ForwardsAt(p)'
    PROVE  Ports'
<1>1. UNCHANGED <<manifest, child, at, outcome>>
  BY DEF Transition, world
<1>2. \A q \in Process \ {p} : pc'[q] = pc[q] /\ at'[q] = at[q] /\ outcome'[q] = outcome[q]
  BY <1>1 DEF Transition, Goto, Typed, TypeOK
<1>3. CASE Current(rec[p]) /\ MayBecome(target)
  <2>1. pc'[p] = next /\ Becomes(target)
    BY <1>3 DEF Transition, Goto, Typed, TypeOK
  <2>2. SamePorts
    BY <1>1, <2>1, BecomesFacts DEF SamePorts, Typed
  <2>. QED  BY <1>1, <1>2, <1>3, <2>1, <2>2, BecomesPorts
<1>4. CASE ~(Current(rec[p]) /\ MayBecome(target))
  <2>1. UNCHANGED journal /\ pc'[p] = otherwise
    BY <1>4 DEF Transition, Goto, Typed, TypeOK
  <2>2. SamePorts /\ ForwardsAt(p)'
    BY <1>1, <2>1, SilentForwards DEF SamePorts, ForwardPc
  <2>. QED  BY <1>2, <2>1, <2>2, PortsStep
<1>. QED  BY <1>3, <1>4

(* Appending evidence closes nothing.                                      *)
LEMMA EvidencePorts ==
    ASSUME Typed, Ports, NEW p \in Process, NEW label, NEW kind, NEW next,
           NEW otherwise \in {"safe_failure", "reconcile"},
           Evidence(p, label, kind, next, otherwise),
           pc'[p] = next.pc /\ at'[p] = next.at /\ SamePorts => ForwardsAt(p)'
    PROVE  Ports'
<1>1. UNCHANGED <<manifest, child, outcome>>
  BY DEF Evidence, world
<1>2. CASE UNCHANGED <<journal, rec, at>> /\ Goto(p, otherwise)
  <2>1. pc'[p] = otherwise /\ \A q \in Process \ {p} : pc'[q] = pc[q]
    BY <1>2 DEF Goto, Typed, TypeOK
  <2>2. SamePorts /\ ForwardsAt(p)'
    BY <1>1, <1>2, <2>1, SilentForwards DEF SamePorts, ForwardPc
  <2>. QED  BY <1>1, <1>2, <2>1, <2>2, PortsStep
<1>3. CASE ~(UNCHANGED <<journal, rec, at>> /\ Goto(p, otherwise))
  <2>1. /\ journal'.status = journal.status
        /\ journal'.forwards = journal.forwards /\ journal'.probed = journal.probed
        /\ Goto(p, next.pc) /\ at' = [at EXCEPT ![p] = next.at]
    BY <1>3, EvidenceFacts DEF Fields
  <2>2. /\ pc'[p] = next.pc /\ at'[p] = next.at
        /\ \A q \in Process \ {p} : pc'[q] = pc[q] /\ at'[q] = at[q]
    BY <2>1 DEF Goto, Typed, TypeOK
  <2>. QED  BY <1>1, <2>1, <2>2, PortsStep DEF SamePorts
<1>. QED  BY <1>2, <1>3

(* The steps of a visit around the commands keep Ports.                    *)
LEMMA VisitPorts ==
    ASSUME Typed, Control, Ports, NEW p \in Process,
           Visit(p) \/ Create(p) \/ Validate(p) \/ Capture(p) \/ AttachSnapshot(p)
             \/ AttachApproval(p) \/ Reconcile(p) \/ Result(p) \/ SafeFailure(p)
             \/ EndVisit(p) \/ Crash(p)
    PROVE  Ports'
<1>1. UNCHANGED <<manifest, child>>
  BY DEF Visit, Create, Validate, Capture, AttachSnapshot, AttachApproval, Attach, Reconcile,
         Result, SafeFailure, EndVisit, Crash, world
<1>2. \A q \in Process \ {p} : /\ pc'[q] = pc[q] /\ at'[q] = at[q] /\ outcome'[q] = outcome[q]
  <2>1. Forget(p) \/ UNCHANGED <<at, outcome>>
    BY DEF Visit, Create, Validate, Capture, AttachSnapshot, AttachApproval, Attach, Reconcile,
           Result, SafeFailure, EndVisit, Crash, local
  <2>2. \E label : Goto(p, label)
    BY DEF Visit, Create, Validate, Capture, AttachSnapshot, AttachApproval, Attach, Reconcile,
           Result, SafeFailure, EndVisit, Crash
  <2>. QED  BY <2>1, <2>2 DEF Forget, Goto, Typed, TypeOK
<1>3. ForwardsAt(p)'
  <2>1. \E label \in {"create", "validate", "capture", "accept", "safe_failure", "block",
                      "attach_snapshot", "attach_approval", "launch", "idle", "result",
                      "reconciling"} : Goto(p, label)
    BY DEF Visit, Create, Validate, Capture, AttachSnapshot, AttachApproval, Attach, Reconcile,
           Result, SafeFailure, EndVisit, Crash
  <2>2. pc'[p] \notin ForwardPc \cup {"succeed"}
    BY <2>1 DEF Goto, Typed, TypeOK, ForwardPc
  <2>. QED  BY <2>2, SilentForwards
<1>4. CASE UNCHANGED journal
  BY <1>1, <1>2, <1>3, <1>4, PortsStep DEF SamePorts
<1>5. CASE ~UNCHANGED journal /\ ~Create(p)
  <2>1. PICK target \in StatusStates \ {"SUCCEEDED"} : MayBecome(target) /\ Becomes(target)
    <3>1. {"STATIC_VALIDATED", "SNAPSHOT_CAPTURED", "APPROVED", "FAILED", "RECONCILIATION_REQUIRED"}
            \subseteq StatusStates \ {"SUCCEEDED"}
      BY DEF StatusStates, EarlyStates, ClosedStates
    <3>2. CASE Validate(p)
      BY <1>5, <3>1, <3>2 DEF Validate
    <3>3. CASE AttachSnapshot(p) \/ AttachApproval(p)
      BY <1>5, <3>1, <3>3 DEF AttachSnapshot, AttachApproval, Attach
    <3>4. CASE SafeFailure(p)
      BY <1>5, <3>1, <3>4 DEF SafeFailure
    <3>5. CASE Visit(p) \/ Capture(p) \/ Reconcile(p) \/ Result(p) \/ EndVisit(p) \/ Crash(p)
      BY <1>5, <3>5 DEF Visit, Capture, Reconcile, Result, EndVisit, Crash
    <3>. QED  BY <1>5, <3>2, <3>3, <3>4, <3>5
  <2>. QED  BY <1>1, <1>2, <1>3, <2>1, BecomesPorts
<1>6. CASE ~UNCHANGED journal /\ Create(p)
  <2>1. journal.status = "ABSENT" /\ journal' = Row("DISCOVERED", 1)
    BY <1>6 DEF Create
  <2>2. /\ journal'.status = "DISCOVERED"
        /\ \A f \in Forward : journal'.forwards[f] = "none"
    BY <2>1 DEF Row
  <2>3. \A f \in Forward : child[f] # "alive"
    BY <2>1 DEF Ports
  <2>4. Forward' = Forward /\ child' = child
    BY <1>1 DEF Forward
  <2>5. ASSUME NEW q \in Process \ {p} PROVE ForwardsAt(q)'
    <3>1. pc[q] \notin RunPc
      BY <2>1 DEF Control, Holding, Unapproved
    <3>. QED  BY <1>1, <1>2, <3>1, OthersForwards DEF Ports
  <2>. QED  BY <1>3, <2>2, <2>3, <2>4, <2>5 DEF Ports, ClosedStates
<1>. QED  BY <1>4, <1>5, <1>6

(* Commands on the releases, and what starts the forwards, keep Ports.     *)
LEMMA CommandPorts ==
    ASSUME Typed, Ports, NEW p \in Process,
           Launch(p) \/ DryRuns(p) \/ Mutate(p) \/ UpgradeEnds(p) \/ Probes(p) \/ Rollback(p)
             \/ UndoEnds(p)
    PROVE  Ports'
<1>1. UNCHANGED <<manifest, journal, child>>
  BY DEF Launch, DryRuns, Mutate, UpgradeEnds, Probes, Rollback, UndoEnds, world
<1>2. SamePorts
  BY <1>1 DEF SamePorts
<1>3. \A q \in Process \ {p} : /\ pc'[q] = pc[q] /\ at'[q] = at[q] /\ outcome'[q] = outcome[q]
  <2>1. \E label : Goto(p, label)
    BY DEF Launch, DryRuns, Mutate, UpgradeEnds, Probes, Rollback, UndoEnds
  <2>2. \A q \in Process \ {p} : at'[q] = at[q] /\ outcome'[q] = outcome[q]
    BY DEF Launch, DryRuns, Mutate, UpgradeEnds, Probes, Rollback, UndoEnds, local, Typed, TypeOK
  <2>. QED  BY <2>1, <2>2 DEF Goto, Typed, TypeOK
<1>4. \A label : Goto(p, label) => pc'[p] = label
  BY DEF Goto, Typed, TypeOK
<1>5. ASSUME Launch(p) PROVE ForwardsAt(p)'
  <2>. DEFINE first == IF journal.status # "APPROVED" THEN "result"
                       ELSE IF DryRun # {} THEN "dry_run"
                       ELSE IF Mutation # {} THEN "safe_failure"
                       ELSE "forward_intent"
  <2>1. at'[p] = 1 /\ (Goto(p, first) \/ Goto(p, "safe_failure"))
    BY <1>5 DEF Launch, Typed, TypeOK
  <2>2. /\ first \in {"result", "dry_run", "safe_failure", "forward_intent"}
        /\ first = "forward_intent" => DryRun = {} /\ Mutation = {}
    OBVIOUS
  <2>. HIDE DEF first
  <2>3. first = "forward_intent" => 1 \in Forward
    <3>1. DryRun = {} /\ Mutation = {} => manifest.forwards > 0
      <4>1. /\ manifest.dry_runs \in Nat /\ manifest.mutations \in Nat /\ manifest.forwards \in Nat
            /\ manifest.dry_runs + manifest.mutations + manifest.forwards > 0
        BY ManifestFacts DEF Typed, TypeOK
      <4>2. manifest.dry_runs > 0 => 1 \in DryRun
        BY <4>1 DEF DryRun
      <4>3. manifest.mutations > 0 => 1 \in Mutation
        BY <4>1 DEF Mutation
      <4>4. manifest.dry_runs > 0 \/ manifest.mutations > 0 \/ manifest.forwards > 0
        BY <4>1
      <4>. QED  BY <4>2, <4>3, <4>4
    <3>2. manifest.forwards > 0 => 1 \in Forward
      BY BoundsOfForward
    <3>. QED  BY <2>2, <3>1, <3>2
  <2>4. Forward' = Forward /\ pc'[p] \in {first, "safe_failure"}
    BY <1>1, <1>4, <2>1 DEF Forward
  <2>5. \A f \in Forward : ~(f < 1)
    BY BoundsOfForward
  <2>. QED  BY <2>1, <2>2, <2>3, <2>4, <2>5 DEF ForwardsAt, ForwardPc
<1>6. ASSUME DryRuns(p) \/ Mutate(p) \/ UpgradeEnds(p) \/ Probes(p) \/ Rollback(p) \/ UndoEnds(p)
      PROVE  ForwardsAt(p)'
  <2>1. \E label \in {"safe_failure", "dry_run_evidence", "upgrading", "command_lost",
                      "mutation_evidence", "probe_evidence", "undoing", "rollback",
                      "rollback_end", "rollback_evidence"} : Goto(p, label)
    BY <1>6 DEF DryRuns, Mutate, UpgradeEnds, Probes, Rollback, UndoEnds, UndoNext, Then
  <2>. QED  BY <1>4, <2>1, SilentForwards DEF ForwardPc
<1>. QED  BY <1>1, <1>2, <1>3, <1>5, <1>6, PortsStep

(* The transitions of the runner and its evidence keep Ports.              *)
LEMMA TransitionsPorts ==
    ASSUME Typed, Releases, Ports, NEW p \in Process,
           DryRunFailed(p) \/ DryRunPassed(p) \/ Start(p) \/ CommandLost(p) \/ Mutated(p)
             \/ Probing(p) \/ Succeed(p) \/ RollbackStart(p) \/ RollbackEnd(p)
             \/ TlsProbing(p) \/ ForwardFailed(p) \/ Reconciling(p)
    PROVE  Ports'
<1>1. {"FAILED", "SERVER_DRY_RUN_PASSED", "MUTATION_STARTED", "RECONCILIATION_REQUIRED", "MUTATED",
       "PROBING", "SUCCEEDED", "ROLLBACK_STARTED", "ROLLED_BACK", "TLS_DC8_PROBING"}
        \subseteq StatusStates
  BY DEF StatusStates, EarlyStates, AmbiguousStates, ForwardStates, ClosedStates
<1>2. ForwardsAt(p) /\ ReleasesAt(p)
  BY DEF Ports, Releases
<1>3. ASSUME NEW next, next \notin ForwardPc \cup {"succeed"}, pc'[p] = next PROVE ForwardsAt(p)'
  BY <1>3, SilentForwards
<1>4. /\ {"result", "start", "mutate", "probing", "probe", "rollback"}
           \cap (ForwardPc \cup {"succeed"}) = {}
      /\ Fallback \in {"safe_failure", "reconcile"}
  BY SilentFallback DEF ForwardPc
<1>5. CASE DryRunFailed(p) \/ Start(p) \/ CommandLost(p) \/ Mutated(p)
  BY <1>1, <1>3, <1>4, <1>5, TransitionPorts DEF DryRunFailed, Start, CommandLost, Mutated
<1>6. CASE Probing(p) \/ ForwardFailed(p) \/ Reconciling(p) \/ RollbackStart(p)
  BY <1>1, <1>3, <1>4, <1>6, TransitionPorts DEF Probing, ForwardFailed, Reconciling, RollbackStart
<1>7. CASE RollbackEnd(p)
  <2>. DEFINE target == IF undoFailed[p] THEN "RECONCILIATION_REQUIRED" ELSE "ROLLED_BACK"
  <2>1. target \in StatusStates /\ target # "SUCCEEDED"
    BY <1>1
  <2>2. Transition(p, "rollback_end", target, "result", Fallback)
    BY <1>7 DEF RollbackEnd
  <2>. HIDE DEF target
  <2>. QED  BY <1>3, <1>4, <2>1, <2>2, TransitionPorts
<1>8. CASE Succeed(p)
  <2>1. \A f \in Forward : journal.probed[f] = "rejected"
    BY <1>2, <1>8 DEF Succeed, Transition, ForwardsAt
  <2>. QED  BY <1>1, <1>3, <1>4, <1>8, <2>1, TransitionPorts DEF Succeed
<1>9. CASE TlsProbing(p)
  <2>1. /\ at[p] \in Forward /\ \A f \in Forward : f < at[p] => journal.probed[f] = "rejected"
        /\ journal.forwards[at[p]] = "STARTED" /\ at'[p] = at[p]
    BY <1>2, <1>9 DEF TlsProbing, Transition, ForwardsAt, ForwardPc
  <2>2. ASSUME pc'[p] = "tls_probe", SamePorts PROVE ForwardsAt(p)'
    <3>1. Forward' = Forward
      BY <2>2 DEF SamePorts, Forward
    <3>. QED  BY <2>1, <2>2, <3>1 DEF ForwardsAt, ForwardPc, SamePorts
  <2>. QED  BY <1>1, <1>9, <2>2, TransitionPorts DEF TlsProbing
<1>10. CASE DryRunPassed(p)
  <2>. DEFINE after == IF Mutation # {} THEN "start"
                       ELSE IF Forward # {} THEN "forward_intent" ELSE "result"
  <2>1. /\ after \in {"start", "forward_intent", "result"}
        /\ after = "forward_intent" => 1 \in Forward
    BY BoundsOfForward
  <2>2. Transition(p, "dry_run_passed", "SERVER_DRY_RUN_PASSED", after, "safe_failure")
    BY <1>10 DEF DryRunPassed
  <2>. HIDE DEF after
  <2>3. at'[p] = 1
    BY <1>2, <2>2 DEF Transition, ReleasesAt
  <2>4. ASSUME pc'[p] = "forward_intent", after = "forward_intent", SamePorts PROVE ForwardsAt(p)'
    <3>1. Forward' = Forward /\ \A f \in Forward : ~(f < 1)
      BY <2>4, BoundsOfForward DEF SamePorts, Forward
    <3>. QED  BY <2>1, <2>3, <2>4, <3>1 DEF ForwardsAt, ForwardPc
  <2>5. ASSUME pc'[p] = after, SamePorts PROVE ForwardsAt(p)'
    BY <1>3, <1>4, <2>1, <2>4, <2>5
  <2>. QED  BY <1>1, <2>2, <2>5, TransitionPorts
<1>. QED
  BY <1>5, <1>6, <1>7, <1>8, <1>9, <1>10

LEMMA RecordedPorts ==
    ASSUME Typed, Releases, Ports, NEW p \in Process,
           DryRunRecorded(p) \/ MutationRecorded(p) \/ ProbeRecorded(p) \/ UndoRecorded(p)
    PROVE  Ports'
<1>1. Fallback \in {"safe_failure", "reconcile"}
  BY SilentFallback
<1>2. CASE DryRunRecorded(p)
  <2>1. DryRunNext(p).pc \notin ForwardPc \cup {"succeed"}
    BY DEF DryRunNext, Then, ForwardPc
  <2>. QED  BY <1>2, <2>1, SilentForwards, EvidencePorts DEF DryRunRecorded
<1>3. CASE MutationRecorded(p)
  <2>1. MutationNext(p).pc \notin ForwardPc \cup {"succeed"}
    BY DEF MutationNext, Then, ForwardPc
  <2>. QED  BY <1>3, <2>1, SilentForwards, EvidencePorts DEF MutationRecorded
<1>4. CASE UndoRecorded(p)
  <2>1. UndoNext(p).pc \notin ForwardPc \cup {"succeed"}
    BY DEF UndoNext, Then, ForwardPc
  <2>. QED  BY <1>1, <1>4, <2>1, SilentForwards, EvidencePorts DEF UndoRecorded
<1>5. CASE ProbeRecorded(p)
  <2>1. \/ ProbeNext(p).pc \in {"rollback_start", "probe"}
        \/ ProbeNext(p).pc = "forward_intent" /\ ProbeNext(p).at = 1 /\ Forward # {}
        \/ ProbeNext(p).pc = "succeed" /\ Forward = {}
    BY DEF ProbeNext, Then
  <2>2. ASSUME pc'[p] = ProbeNext(p).pc, at'[p] = ProbeNext(p).at, SamePorts PROVE ForwardsAt(p)'
    <3>1. Forward' = Forward /\ (Forward # {} => 1 \in Forward) /\ \A f \in Forward : ~(f < 1)
      BY <2>2, BoundsOfForward DEF SamePorts, Forward
    <3>2. CASE ProbeNext(p).pc \in {"rollback_start", "probe"}
      <4>1. pc'[p] \notin ForwardPc \cup {"succeed"}
        BY <2>2, <3>2 DEF ForwardPc
      <4>. QED  BY <4>1, SilentForwards
    <3>3. CASE ProbeNext(p).pc = "forward_intent" /\ ProbeNext(p).at = 1 /\ Forward # {}
      BY <2>2, <3>1, <3>3 DEF ForwardsAt, ForwardPc
    <3>4. CASE ProbeNext(p).pc = "succeed" /\ Forward = {}
      BY <2>2, <3>1, <3>4 DEF ForwardsAt, ForwardPc
    <3>. QED  BY <2>1, <3>2, <3>3, <3>4
  <2>. QED  BY <1>5, <2>2, EvidencePorts DEF ProbeRecorded
<1>. QED  BY <1>2, <1>3, <1>4, <1>5

(* The steps of a port forward keep Ports.                                 *)
LEMMA OwnershipPorts ==
    ASSUME Typed, Control, Ports, NEW p \in Process,
           NEW label, NEW from, NEW to \in OwnershipStates \ {"none"}, NEW status, NEW next,
           NEW otherwise \in {"safe_failure", "reconcile"},
           Owns(p, label, from, to, status, next, otherwise), label \in ForwardPc,
           UNCHANGED <<manifest, child, outcome>>,
           \A q \in Process \ {p} : at'[q] = at[q],
           \/ status \in {"PORT_FORWARD_INTENT", "PORT_FORWARD_STARTED"}
           \/ status = journal.status /\ label \in {"forward_stopped", "forward_ambiguous"},
           to = "STOPPED" => child[at[p]] # "alive",
           /\ pc'[p] = next /\ journal'.probed = journal.probed
           /\ journal'.forwards = [journal.forwards EXCEPT ![at[p]] = to]
           => ForwardsAt(p)'
    PROVE  Ports'
<1>1. ForwardsAt(p) /\ pc[p] = label /\ pc[p] \in RunPc
  BY DEF Owns, Ports, RunPc, PcStates, VisitPc, ForwardPc
<1>2. at[p] \in Forward
  BY <1>1 DEF ForwardsAt
<1>3. CASE UNCHANGED <<journal, rec>> /\ Goto(p, otherwise)
  <2>1. pc'[p] = otherwise /\ \A q \in Process \ {p} : pc'[q] = pc[q]
    BY <1>3 DEF Goto, Typed, TypeOK
  <2>2. ForwardsAt(p)'
    BY <2>1, SilentForwards DEF ForwardPc
  <2>. QED  BY <1>3, <2>1, <2>2, PortsStep DEF SamePorts
<1>4. CASE ~(UNCHANGED <<journal, rec>> /\ Goto(p, otherwise))
  <2>1. /\ Current(rec[p])
        /\ journal'.status = status /\ journal'.probed = journal.probed
        /\ journal'.forwards = [journal.forwards EXCEPT ![at[p]] = to]
        /\ Goto(p, next)
    BY <1>4, OwnsFacts DEF Fields
  <2>2. pc'[p] = next /\ \A q \in Process \ {p} : pc'[q] = pc[q]
    BY <2>1 DEF Goto, Typed, TypeOK
  <2>3. journal'.status \notin ClosedStates \cup {"ABSENT"}
    <3>1. CASE status \in {"PORT_FORWARD_INTENT", "PORT_FORWARD_STARTED"}
      BY <2>1, <3>1 DEF ClosedStates
    <3>2. CASE status = journal.status /\ label \in {"forward_stopped", "forward_ambiguous"}
      <4>1. journal.status \in {"PORT_FORWARD_STARTED", "TLS_DC8_PROBING"}
        BY <1>1, <2>1, <3>2 DEF Control, Holding, RecordAt, Remembers, Current, Seen
      <4>. QED  BY <2>1, <3>2, <4>1 DEF ClosedStates
    <3>. QED  BY <3>1, <3>2
  <2>4. ASSUME NEW q \in Process PROVE ForwardsAt(q)'
    <3>1. q # p => pc[q] \notin RunPc
      BY <1>1 DEF Control
    <3>. QED  BY <2>1, <2>2, <3>1, OthersForwards DEF Ports
  <2>5. Forward' = Forward
    BY DEF Forward
  <2>6. ASSUME NEW f \in Forward, child'[f] = "alive"
        PROVE  journal'.forwards[f] \in {"INTENT_PERSISTED", "STARTED", "CLEANUP_AMBIGUOUS"}
    <3>1. journal.forwards \in [Forward -> OwnershipStates]
      BY RowFields DEF Typed
    <3>2. CASE f = at[p]
      BY <2>1, <2>6, <3>1, <3>2 DEF OwnershipStates
    <3>3. CASE f # at[p]
      BY <2>1, <2>6, <3>1, <3>3 DEF Ports
    <3>. QED  BY <3>2, <3>3
  <2>. QED  BY <2>3, <2>4, <2>5, <2>6 DEF Ports, ClosedStates
<1>. QED  BY <1>3, <1>4

LEMMA ForwardPorts ==
    ASSUME Typed, Control, Ports, NEW p \in Process,
           ForwardIntent(p) \/ ForwardStarted(p) \/ ForwardStopped(p) \/ ForwardAmbiguous(p)
    PROVE  Ports'
<1>1. /\ UNCHANGED <<manifest, child, outcome>> /\ \A q \in Process \ {p} : at'[q] = at[q]
      /\ Forward' = Forward
  BY DEF ForwardIntent, ForwardStarted, ForwardStopped, ForwardAmbiguous, world, Typed, TypeOK,
         Forward
<1>2. /\ at[p] \in Forward /\ \A f \in Forward : f < at[p] => journal.probed[f] = "rejected"
      /\ pc[p] \in ForwardPc
  BY DEF ForwardIntent, ForwardStarted, ForwardStopped, ForwardAmbiguous, Owns, Ports, ForwardsAt,
         ForwardPc
<1>3. {"INTENT_PERSISTED", "STARTED", "STOPPED", "CLEANUP_AMBIGUOUS"}
        \subseteq OwnershipStates \ {"none"}
  BY DEF OwnershipStates
<1>4. PICK i \in Forward : i = at[p]
  BY <1>2
<1>5. journal.forwards \in [Forward -> OwnershipStates]
  BY RowFields DEF Typed
<1>6. ASSUME ForwardIntent(p) PROVE Ports'
  <2>1. UNCHANGED at
    BY <1>6 DEF ForwardIntent
  <2>2. ASSUME pc'[p] = "spawn", journal'.probed = journal.probed,
               journal'.forwards = [journal.forwards EXCEPT ![at[p]] = "INTENT_PERSISTED"]
        PROVE  ForwardsAt(p)'
    BY <1>1, <1>2, <1>4, <1>5, <2>1, <2>2 DEF ForwardsAt, ForwardPc
  <2>. QED  BY <1>1, <1>3, <1>6, <2>2, OwnershipPorts DEF ForwardIntent, ForwardPc
<1>7. ASSUME ForwardStarted(p) PROVE Ports'
  <2>1. UNCHANGED at
    BY <1>7 DEF ForwardStarted
  <2>2. ASSUME pc'[p] = "wait_ready", journal'.probed = journal.probed,
               journal'.forwards = [journal.forwards EXCEPT ![at[p]] = "STARTED"]
        PROVE  ForwardsAt(p)'
    BY <1>1, <1>2, <1>4, <1>5, <2>1, <2>2 DEF ForwardsAt, ForwardPc
  <2>. QED  BY <1>1, <1>3, <1>7, <2>2, OwnershipPorts DEF ForwardStarted, ForwardPc
<1>8. ASSUME ForwardAmbiguous(p) PROVE Ports'
  <2>1. ASSUME pc'[p] = "reconcile" PROVE ForwardsAt(p)'
    BY <2>1, SilentForwards DEF ForwardPc
  <2>. QED  BY <1>1, <1>3, <1>8, <2>1, OwnershipPorts DEF ForwardAmbiguous, ForwardPc
<1>9. ASSUME ForwardStopped(p) PROVE Ports'
  <2>1. /\ child[at[p]] # "alive"
        /\ outcome[p] = "rejected" => journal.probed[at[p]] = "rejected"
        /\ at'[p] = ForwardNext(p).at
    BY <1>9 DEF ForwardStopped, Owns, Ports, ForwardsAt, ForwardPc, Typed, TypeOK
  <2>2. \/ /\ ForwardNext(p).pc = "forward_intent" /\ ForwardNext(p).at = i + 1
           /\ outcome[p] = "rejected" /\ i + 1 \in Forward
        \/ ForwardNext(p).pc = "succeed" /\ outcome[p] = "rejected" /\ i + 1 \notin Forward
        \/ ForwardNext(p).pc \in {"reconcile", "rollback_start", "forward_failed"}
    BY <1>4 DEF ForwardNext, Then
  <2>3. ASSUME pc'[p] = ForwardNext(p).pc, journal'.probed = journal.probed PROVE ForwardsAt(p)'
    <3>1. CASE /\ ForwardNext(p).pc = "forward_intent" /\ ForwardNext(p).at = i + 1
               /\ outcome[p] = "rejected" /\ i + 1 \in Forward
      <4>1. \A f \in Forward : f < i + 1 => f < i \/ f = i
        BY BoundsOfForward
      <4>2. \A f \in Forward : f < i + 1 => journal.probed[f] = "rejected"
        BY <1>2, <1>4, <2>1, <3>1, <4>1
      <4>. QED  BY <1>1, <2>1, <2>3, <3>1, <4>2 DEF ForwardsAt, ForwardPc
    <3>2. CASE ForwardNext(p).pc = "succeed" /\ outcome[p] = "rejected" /\ i + 1 \notin Forward
      <4>1. \A f \in Forward : f < i \/ f = i
        BY <1>4, <3>2, BoundsOfForward
      <4>2. \A f \in Forward : journal.probed[f] = "rejected"
        BY <1>2, <1>4, <2>1, <3>2, <4>1
      <4>. QED  BY <1>1, <2>3, <3>2, <4>2 DEF ForwardsAt, ForwardPc
    <3>3. CASE ForwardNext(p).pc \in {"reconcile", "rollback_start", "forward_failed"}
      BY <2>3, <3>3, SilentForwards DEF ForwardPc
    <3>. QED  BY <2>2, <3>1, <3>2, <3>3
  <2>. QED  BY <1>1, <1>3, <1>9, <2>1, <2>3, OwnershipPorts DEF ForwardStopped, ForwardPc
<1>. QED  BY <1>6, <1>7, <1>8, <1>9

(* What happens to the child of a forward, and to its probe, keeps Ports.  *)
LEMMA ChildPorts ==
    ASSUME Typed, Control, Ports, NEW p \in Process,
           Spawn(p) \/ WaitReady(p) \/ TlsProbes(p) \/ TlsRecorded(p) \/ Close(p)
    PROVE  Ports'
<1>1. UNCHANGED <<manifest, at>> /\ Forward' = Forward
  BY DEF Spawn, WaitReady, TlsProbes, TlsRecorded, Close, local, Forward
<1>2. pc[p] \in ForwardPc /\ pc[p] \in RunPc /\ ForwardsAt(p)
  BY DEF Spawn, WaitReady, TlsProbes, TlsRecorded, Close, ForwardPc, RunPc, PcStates, VisitPc,
         Ports
<1>3. /\ at[p] \in Forward /\ \A f \in Forward : f < at[p] => journal.probed[f] = "rejected"
  BY <1>2 DEF ForwardsAt
<1>4. PICK i \in Forward : i = at[p]
  BY <1>3
<1>5. \A q \in Process \ {p} : /\ pc'[q] = pc[q] /\ at'[q] = at[q] /\ outcome'[q] = outcome[q]
  <2>1. \E label : Goto(p, label)
    BY DEF Spawn, WaitReady, TlsProbes, TlsRecorded, Close
  <2>2. \A q \in Process \ {p} : outcome'[q] = outcome[q]
    BY DEF Spawn, WaitReady, TlsProbes, TlsRecorded, Close, local, Typed, TypeOK
  <2>. QED  BY <1>1, <2>1, <2>2 DEF Goto, Typed, TypeOK
<1>6. ASSUME NEW q \in Process \ {p} PROVE ForwardsAt(q)'
  <2>1. pc[q] \notin RunPc
    BY <1>2 DEF Control
  <2>. QED  BY <1>1, <1>5, <2>1, OthersForwards DEF Ports
<1>7. \A label : Goto(p, label) => pc'[p] = label
  BY DEF Goto, Typed, TypeOK
<1>8. journal.status # "ABSENT"
  BY <1>2 DEF Control, Holding, Unapproved
<1>9. ASSUME WaitReady(p) \/ TlsProbes(p) PROVE Ports'
  <2>1. SamePorts /\ UNCHANGED journal
    BY <1>9 DEF WaitReady, TlsProbes, SamePorts, world
  <2>2. /\ journal.forwards[i] = "STARTED" /\ pc'[p] \in ForwardPc
        /\ pc'[p] \notin {"forward_intent", "spawn", "forward_started", "forward_stopped"}
        /\ pc'[p] = "close" => outcome'[p] # "rejected"
    BY <1>2, <1>4, <1>7, <1>9 DEF WaitReady, TlsProbes, ForwardsAt, ForwardPc, Typed, TypeOK
  <2>3. ForwardsAt(p)'
    BY <1>1, <1>3, <1>4, <2>1, <2>2 DEF ForwardsAt, ForwardPc, SamePorts
  <2>. QED  BY <1>5, <2>1, <2>3, PortsStep
<1>10. ASSUME TlsRecorded(p) PROVE Ports'
  <2>1. /\ journal.forwards[i] = "STARTED" /\ pc'[p] = "close" /\ UNCHANGED child
    BY <1>2, <1>4, <1>7, <1>10 DEF TlsRecorded, ForwardsAt, ForwardPc, world
  <2>2. CASE outcome' = [outcome EXCEPT ![p] = "ambiguous"] /\ UNCHANGED <<journal, rec>>
    <3>1. ForwardsAt(p)' /\ SamePorts
      BY <1>1, <1>3, <1>4, <2>1, <2>2 DEF ForwardsAt, ForwardPc, SamePorts, Typed, TypeOK
    <3>. QED  BY <1>5, <2>2, <3>1, PortsStep
  <2>3. CASE /\ Current(rec[p])
             /\ journal.status = "TLS_DC8_PROBING"
             /\ journal.probed[at[p]] = "none"
             /\ journal' = Fields(journal.status, journal.generation + 1, journal.evidence,
                                  journal.forwards, [journal.probed EXCEPT ![at[p]] = outcome[p]])
             /\ rec' = [rec EXCEPT ![p] = Seen(journal')]
             /\ UNCHANGED outcome
    <3>1. /\ journal'.status = "TLS_DC8_PROBING" /\ journal'.forwards = journal.forwards
          /\ journal'.probed = [journal.probed EXCEPT ![i] = outcome[p]]
      BY <1>4, <2>3 DEF Fields
    <3>2. /\ journal'.probed[i] = outcome[p]
          /\ \A f \in Forward : f # i => journal'.probed[f] = journal.probed[f]
      BY <3>1, RowFields DEF Typed
    <3>3. \A f \in Forward : f < i => journal'.probed[f] = "rejected"
      <4>1. \A f \in Forward : f < i => f # i
        BY BoundsOfForward
      <4>. QED  BY <1>3, <1>4, <3>2, <4>1
    <3>4. ForwardsAt(p)'
      BY <1>1, <1>4, <2>1, <2>3, <3>1, <3>2, <3>3 DEF ForwardsAt, ForwardPc
    <3>. QED
      BY <1>1, <1>6, <2>1, <3>1, <3>4 DEF Ports, ClosedStates
  <2>. QED  BY <1>10, <2>2, <2>3, TlsRecordedFacts
<1>11. ASSUME Spawn(p) PROVE Ports'
  <2>1. /\ journal.forwards[i] = "INTENT_PERSISTED" /\ UNCHANGED journal
        /\ pc'[p] \in {"forward_started", "reconcile"}
    BY <1>2, <1>4, <1>7, <1>11 DEF Spawn, ForwardsAt, local
  <2>2. \A f \in Forward : f # i => child'[f] = child[f]
    BY <1>4, <1>11 DEF Spawn, Typed, TypeOK
  <2>3. ForwardsAt(p)'
    BY <1>1, <1>3, <1>4, <2>1 DEF ForwardsAt, ForwardPc
  <2>4. \A f \in Forward : child'[f] = "alive" => child[f] = "alive" \/ f = i
    BY <2>2
  <2>. QED  BY <1>1, <1>6, <1>8, <2>1, <2>3, <2>4 DEF Ports
<1>12. ASSUME Close(p) PROVE Ports'
  <2>1. /\ journal.forwards[i] = "STARTED" /\ UNCHANGED <<journal, outcome>>
        /\ outcome[p] = "rejected" => journal.probed[i] = "rejected"
    BY <1>2, <1>4, <1>12 DEF Close, ForwardsAt, ForwardPc, local
  <2>2. /\ \A f \in Forward : child'[f] = "alive" => child[f] = "alive"
        /\ \/ pc'[p] = "forward_stopped" /\ child'[i] = "closed"
           \/ pc'[p] = "forward_ambiguous"
    BY <1>4, <1>7, <1>12 DEF Close, Typed, TypeOK
  <2>3. ForwardsAt(p)'
    BY <1>1, <1>3, <1>4, <2>1, <2>2 DEF ForwardsAt, ForwardPc
  <2>. QED  BY <1>1, <1>6, <2>1, <2>2, <2>3 DEF Ports
<1>. QED  BY <1>9, <1>10, <1>11, <1>12

LEMMA PortsInit == Init => Ports
<1>. SUFFICES ASSUME Init PROVE Ports
  OBVIOUS
<1>1. journal.status = "ABSENT" /\ \A f \in Forward : child[f] = "none"
  BY DEF Init, Absent, Row
<1>2. \A p \in Process : ForwardsAt(p)
  <2>1. \A p \in Process : pc[p] = "idle"
    BY DEF Init
  <2>. QED  BY <2>1 DEF ForwardsAt, ForwardPc
<1>. QED  BY <1>1, <1>2 DEF Ports, ClosedStates

LEMMA StepPorts == Typed /\ Control /\ Releases /\ Ports /\ [Next]_vars => Ports'
<1>. SUFFICES ASSUME Typed, Control, Releases, Ports, [Next]_vars PROVE Ports'
  OBVIOUS
<1>1. ASSUME UNCHANGED <<pc, at, outcome>>, SamePorts,
             \/ journal'.status = journal.status
             \/ journal'.status \notin ClosedStates \cup {"ABSENT"}
      PROVE  Ports'
  <2>1. Forward' = Forward /\ child' = child
    BY <1>1 DEF SamePorts, Forward
  <2>2. \A q \in Process : ForwardsAt(q)'
    BY <1>1, OthersForwards DEF Ports, SamePorts
  <2>. QED  BY <1>1, <2>1, <2>2 DEF Ports, SamePorts, ClosedStates
<1>2. CASE UNCHANGED vars
  BY <1>1, <1>2 DEF vars, world, local, SamePorts
<1>3. ASSUME NEW p \in Process, Visit(p) \/ Works(p) \/ Crash(p) PROVE Ports'
  BY <1>3, VisitPorts, TransitionsPorts, RecordedPorts, ForwardPorts, ChildPorts, CommandPorts
     DEF Works, Runs, Forwards
<1>4. CASE ReviewAgain \/ Expire \/ \E m \in Mutation : TakesEffect(m)
  BY <1>1, <1>4 DEF ReviewAgain, Expire, TakesEffect, world, local, SamePorts
<1>5. CASE OwnerApproves
  <2>1. PICK target \in {"SNAPSHOT_CAPTURED", "APPROVED"} : Becomes(target)
    BY <1>5 DEF OwnerApproves
  <2>2. SamePorts /\ journal'.status \notin ClosedStates \cup {"ABSENT"}
    BY <1>5, <2>1, BecomesFacts DEF OwnerApproves, SamePorts, Typed, ClosedStates, world
  <2>. QED  BY <1>1, <1>5, <2>2 DEF OwnerApproves, local
<1>. QED  BY <1>2, <1>3, <1>4, <1>5 DEF Next

(* The four layers together are inductive.                                 *)
IInv == Typed /\ Control /\ Releases /\ Ports

LEMMA IInvHolds == Spec => []IInv
BY TypedInit, StepTyped, ControlInit, StepControl, ReleasesInit, StepReleasesAll, PortsInit,
   StepPorts, PTL DEF Spec, IInv

(* A closed operation leaves no port-forward child behind, and one that    *)
(* succeeded has every probe it needs, whoever wrote the last row.         *)
THEOREM ClosedOperationIsClean == Spec => []ClosedIsClean
<1>1. IInv => ClosedIsClean
  <2>. SUFFICES ASSUME IInv PROVE ClosedIsClean
    OBVIOUS
  <2>1. journal.status \in ClosedStates => \A f \in Forward : child[f] # "alive"
    BY DEF IInv, Ports
  <2>2. journal.status = "SUCCEEDED" => \A f \in Forward : journal.probed[f] = "rejected"
    BY DEF IInv, Ports
  <2>3. journal.status = "SUCCEEDED" => \A m \in Mutation : Probed(m)
    BY DEF IInv, Releases, Verdict
  <2>. QED  BY <2>1, <2>2, <2>3 DEF ClosedIsClean, Probed
<1>. QED  BY <1>1, IInvHolds, PTL
-----------------------------------------------------------------------------

(* The releases in their new version, as the contract counts them.         *)
Changed == {m \in Mutation : release[m] = "after"}

LEMMA PhaseFacts ==
    /\ journal.status \in EarlyStates \cup {"ABSENT"} => Phase = "open"
    /\ journal.status \in AmbiguousStates => Phase = "working"
    /\ journal.status = "FAILED" => Phase = "failed"
    /\ journal.status = "SUCCEEDED" => Phase = "succeeded"
    /\ journal.status = "ROLLED_BACK" => Phase = "rolled_back"
    /\ journal.status = "RECONCILIATION_REQUIRED" => Phase = "reconciliation"
    /\ journal'.status \in EarlyStates \cup {"ABSENT"} => Phase' = "open"
    /\ journal'.status \in AmbiguousStates => Phase' = "working"
    /\ journal'.status = "FAILED" => Phase' = "failed"
    /\ journal'.status = "SUCCEEDED" => Phase' = "succeeded"
    /\ journal'.status = "ROLLED_BACK" => Phase' = "rolled_back"
    /\ journal'.status = "RECONCILIATION_REQUIRED" => Phase' = "reconciliation"
    /\ journal'.status = journal.status => Phase' = Phase
<1>. USE DEF EarlyStates, AmbiguousStates, ForwardStates
<1>1. /\ journal.status \in EarlyStates \cup {"ABSENT"} => Phase = "open"
      /\ journal.status \in AmbiguousStates => Phase = "working"
      /\ journal.status = "FAILED" => Phase = "failed"
      /\ journal.status = "SUCCEEDED" => Phase = "succeeded"
      /\ journal.status = "ROLLED_BACK" => Phase = "rolled_back"
      /\ journal.status = "RECONCILIATION_REQUIRED" => Phase = "reconciliation"
  BY DEF Phase
<1>2. /\ journal'.status \in EarlyStates \cup {"ABSENT"} => Phase' = "open"
      /\ journal'.status \in AmbiguousStates => Phase' = "working"
      /\ journal'.status = "FAILED" => Phase' = "failed"
      /\ journal'.status = "SUCCEEDED" => Phase' = "succeeded"
      /\ journal'.status = "ROLLED_BACK" => Phase' = "rolled_back"
      /\ journal'.status = "RECONCILIATION_REQUIRED" => Phase' = "reconciliation"
  BY DEF Phase
<1>3. journal'.status = journal.status => Phase' = Phase
  BY DEF Phase
<1>. QED  BY <1>1, <1>2, <1>3

(* How one step may change the status: along the table, and never away     *)
(* from RECONCILIATION_REQUIRED, although the table would allow that.      *)
StatusMoves ==
    \/ journal'.status = journal.status
    \/ journal.status = "ABSENT" /\ journal'.status = "DISCOVERED"
    \/ /\ journal.status \in StatusStates \ {"RECONCILIATION_REQUIRED"}
       /\ journal'.status \in Transitions[journal.status]

LEMMA TransitionMoves ==
    ASSUME Typed, Control, NEW p \in Process, NEW label, NEW target, NEW next, NEW otherwise,
           Transition(p, label, target, next, otherwise),
           RecordAt(label) \subseteq StatusStates \ {"RECONCILIATION_REQUIRED"}
    PROVE  StatusMoves
<1>1. CASE Current(rec[p]) /\ MayBecome(target)
  <2>1. journal.status = rec[p].status /\ rec[p].status \in RecordAt(label)
    BY <1>1 DEF Transition, Control, Holding, Remembers, Current, Seen
  <2>2. journal'.status = target
    BY <1>1, BecomesFacts DEF Transition, Typed
  <2>. QED  BY <1>1, <2>1, <2>2 DEF StatusMoves, MayBecome
<1>2. CASE ~(Current(rec[p]) /\ MayBecome(target))
  BY <1>2 DEF Transition, StatusMoves
<1>. QED  BY <1>1, <1>2

LEMMA OwnsMoves ==
    ASSUME Typed, Control, NEW p \in Process, NEW label, NEW from, NEW to, NEW status, NEW next,
           NEW otherwise, Owns(p, label, from, to, status, next, otherwise),
           label \in ForwardPc,
           status \in {journal.status, "PORT_FORWARD_INTENT", "PORT_FORWARD_STARTED"}
    PROVE  StatusMoves
<1>1. \/ journal'.status = status /\ (status # journal.status => status \in Transitions[journal.status])
      \/ journal'.status = journal.status
  BY OwnsFacts DEF Fields
<1>2. journal.status \in StatusStates
  <2>1. pc[p] \in RunPc
    BY DEF Owns, ForwardPc, RunPc, PcStates, VisitPc
  <2>. QED  BY <2>1, TypedFacts DEF Control, Holding, Unapproved
<1>3. ASSUME journal'.status # journal.status PROVE StatusMoves
  <2>1. /\ status \in {"PORT_FORWARD_INTENT", "PORT_FORWARD_STARTED"}
        /\ journal'.status = status /\ status \in Transitions[journal.status]
    BY <1>1, <1>3
  <2>2. Transitions["RECONCILIATION_REQUIRED"] = {"ROLLBACK_STARTED", "FAILED"}
    BY DEF Transitions, StatusStates, EarlyStates, AmbiguousStates, ForwardStates, ClosedStates
  <2>. QED  BY <1>2, <2>1, <2>2 DEF StatusMoves
<1>. QED  BY <1>3 DEF StatusMoves

LEMMA StepMoves ==
    ASSUME Typed, Control, [Next]_vars
    PROVE  StatusMoves
<1>1. ASSUME UNCHANGED journal PROVE StatusMoves
  BY <1>1 DEF StatusMoves
<1>2. CASE UNCHANGED vars \/ ReviewAgain \/ Expire \/ \E m \in Mutation : TakesEffect(m)
  BY <1>1, <1>2 DEF vars, ReviewAgain, Expire, TakesEffect
<1>3. CASE OwnerApproves
  <2>1. PICK target \in {"SNAPSHOT_CAPTURED", "APPROVED"} : MayBecome(target) /\ Becomes(target)
    BY <1>3 DEF OwnerApproves
  <2>2. journal.status \in StatusStates \ {"RECONCILIATION_REQUIRED"}
    BY <1>3 DEF OwnerApproves, StatusStates, EarlyStates
  <2>3. journal'.status = target
    BY <2>1, BecomesFacts DEF Typed
  <2>. QED  BY <2>1, <2>2, <2>3 DEF StatusMoves, MayBecome
<1>. DEFINE Known == StatusStates \ {"RECONCILIATION_REQUIRED"}
<1>4. /\ EarlyStates \subseteq Known /\ AmbiguousStates \subseteq Known
  BY DEF StatusStates, EarlyStates, AmbiguousStates, ForwardStates, ClosedStates
<1>5. ASSUME NEW p \in Process,
             Visit(p) \/ Capture(p) \/ Launch(p) \/ Result(p) \/ EndVisit(p) \/ Crash(p)
               \/ Reconcile(p) \/ DryRuns(p) \/ Mutate(p) \/ UpgradeEnds(p) \/ Probes(p)
               \/ Rollback(p) \/ UndoEnds(p) \/ Spawn(p) \/ WaitReady(p) \/ TlsProbes(p) \/ Close(p)
      PROVE  StatusMoves
  BY <1>1, <1>5 DEF Visit, Capture, Launch, Result, EndVisit, Crash, Reconcile, DryRuns, Mutate,
     UpgradeEnds, Probes, Rollback, UndoEnds, Spawn, WaitReady, TlsProbes, Close
<1>6. ASSUME NEW p \in Process, Create(p) PROVE StatusMoves
  BY <1>6 DEF Create, Row, StatusMoves
<1>7. ASSUME NEW target, MayBecome(target), Becomes(target), journal.status \in Known
      PROVE  StatusMoves
  <2>1. journal'.status = target
    BY <1>7, BecomesFacts DEF Typed
  <2>. QED  BY <1>7, <2>1 DEF StatusMoves, MayBecome
<1>8. ASSUME NEW p \in Process, Validate(p) PROVE StatusMoves
  <2>1. CASE Current(rec[p]) /\ MayBecome("STATIC_VALIDATED")
    <3>1. journal.status = "DISCOVERED"
      BY <1>8, <2>1 DEF Validate, Control, Holding, RecordAt, Remembers, Current, Seen
    <3>. QED  BY <1>4, <1>7, <1>8, <2>1, <3>1 DEF Validate, EarlyStates
  <2>2. CASE ~(Current(rec[p]) /\ MayBecome("STATIC_VALIDATED"))
    BY <1>1, <1>8, <2>2 DEF Validate
  <2>. QED  BY <2>1, <2>2
<1>9. ASSUME NEW p \in Process, NEW label \in {"attach_snapshot", "attach_approval"}, NEW target,
             NEW next, Attach(p, label, target, next)
      PROVE  StatusMoves
  <2>1. CASE Current(held[p]) /\ MayBecome(target) /\ ~expired
    <3>1. journal.status \in {"STATIC_VALIDATED", "SNAPSHOT_CAPTURED"}
      BY <1>9, <2>1 DEF Attach, Control, Holding, HeldAt, Remembers, Current, Seen
    <3>. QED  BY <1>4, <1>7, <1>9, <2>1, <3>1 DEF Attach, EarlyStates
  <2>2. CASE ~(Current(held[p]) /\ MayBecome(target) /\ ~expired)
    BY <1>1, <1>9, <2>2 DEF Attach
  <2>. QED  BY <2>1, <2>2
<1>10. ASSUME NEW p \in Process, SafeFailure(p) PROVE StatusMoves
  <2>1. CASE UNCHANGED journal
    BY <1>1, <2>1
  <2>2. CASE ~UNCHANGED journal
    <3>1. /\ held[p].status \in AmbiguousStates \cup EarlyStates /\ Current(held[p])
          /\ \E target : MayBecome(target) /\ Becomes(target)
      BY <1>10, <2>2 DEF SafeFailure
    <3>2. journal.status = held[p].status
      BY <3>1 DEF Control, Holding, Remembers, Current, Seen
    <3>. QED  BY <1>4, <1>7, <3>1, <3>2
  <2>. QED  BY <2>1, <2>2
<1>11. ASSUME NEW p \in Process,
              DryRunFailed(p) \/ DryRunPassed(p) \/ Start(p) \/ CommandLost(p) \/ Mutated(p)
                \/ Probing(p) \/ Succeed(p) \/ RollbackStart(p) \/ RollbackEnd(p)
                \/ TlsProbing(p) \/ ForwardFailed(p) \/ Reconciling(p)
       PROVE  StatusMoves
  <2>1. \A label \in {"dry_run_failed", "dry_run_passed", "start", "command_lost", "mutated",
                       "probing", "succeed", "rollback_start", "rollback_end", "tls_probing",
                       "forward_failed", "reconciling"} : RecordAt(label) \subseteq Known
    BY <1>4 DEF RecordAt, AmbiguousStates, ForwardStates, EarlyStates
  <2>2. CASE DryRunFailed(p) \/ DryRunPassed(p) \/ Start(p) \/ CommandLost(p)
    BY <2>1, <2>2, TransitionMoves DEF DryRunFailed, DryRunPassed, Start, CommandLost
  <2>3. CASE Mutated(p) \/ Probing(p) \/ Succeed(p) \/ RollbackStart(p)
    BY <2>1, <2>3, TransitionMoves DEF Mutated, Probing, Succeed, RollbackStart
  <2>4. CASE RollbackEnd(p) \/ TlsProbing(p) \/ ForwardFailed(p) \/ Reconciling(p)
    BY <2>1, <2>4, TransitionMoves DEF RollbackEnd, TlsProbing, ForwardFailed, Reconciling
  <2>. QED  BY <1>11, <2>2, <2>3, <2>4
<1>12. ASSUME NEW p \in Process,
              DryRunRecorded(p) \/ MutationRecorded(p) \/ ProbeRecorded(p) \/ UndoRecorded(p)
       PROVE  StatusMoves
  <2>1. ASSUME NEW label, NEW kind, NEW next, NEW otherwise, Evidence(p, label, kind, next, otherwise)
        PROVE  StatusMoves
    BY <1>1, <2>1, EvidenceFacts DEF Fields, StatusMoves
  <2>. QED  BY <1>12, <2>1 DEF DryRunRecorded, MutationRecorded, ProbeRecorded, UndoRecorded
<1>13. ASSUME NEW p \in Process,
              ForwardIntent(p) \/ ForwardStarted(p) \/ ForwardStopped(p) \/ ForwardAmbiguous(p)
       PROVE  StatusMoves
  <2>1. {"forward_intent", "forward_started", "forward_stopped", "forward_ambiguous"}
           \subseteq ForwardPc
    BY DEF ForwardPc
  <2>. QED
    BY <1>13, <2>1, OwnsMoves DEF ForwardIntent, ForwardStarted, ForwardStopped, ForwardAmbiguous
<1>14. ASSUME NEW p \in Process, TlsRecorded(p) PROVE StatusMoves
  BY <1>1, <1>14, TlsRecordedFacts DEF Fields, StatusMoves
<1>. QED
  BY <1>2, <1>3, <1>5, <1>6, <1>8, <1>9, <1>10, <1>11, <1>12, <1>13, <1>14
     DEF Next, Works, Runs, Forwards, AttachSnapshot, AttachApproval

(* Where the table leads to from each kind of status.                      *)
LEMMA TableMoves ==
    /\ \A s \in EarlyStates :
          Transitions[s] \subseteq EarlyStates \cup {"MUTATION_STARTED", "PORT_FORWARD_INTENT", "FAILED"}
    /\ \A s \in AmbiguousStates :
          Transitions[s] \subseteq AmbiguousStates \cup ClosedStates \cup {"RECONCILIATION_REQUIRED"}
    /\ \A s \in ClosedStates : Transitions[s] = {}
<1>. USE DEF Transitions, StatusStates, EarlyStates, AmbiguousStates, ForwardStates, ClosedStates
<1>1. \A s \in EarlyStates :
          Transitions[s] \subseteq EarlyStates \cup {"MUTATION_STARTED", "PORT_FORWARD_INTENT", "FAILED"}
  OBVIOUS
<1>2. \A s \in AmbiguousStates :
          Transitions[s] \subseteq AmbiguousStates \cup ClosedStates \cup {"RECONCILIATION_REQUIRED"}
  OBVIOUS
<1>3. \A s \in ClosedStates : Transitions[s] = {}
  OBVIOUS
<1>. QED  BY <1>1, <1>2, <1>3

(* A step that changes no release moves the contract along its verdict.    *)
LEMMA VerdictStep ==
    ASSUME IInv, IInv', StatusMoves, UNCHANGED <<manifest, release>>
    PROVE  [Contract!Next]_<<Mutation, Phase, Changed>>
<1>1. Mutation' = Mutation /\ Changed' = Changed
  BY DEF Mutation, Changed
<1>2. /\ journal'.status \in {"FAILED", "ROLLED_BACK"} => Changed = {}
      /\ journal'.status = "SUCCEEDED" => Changed = Mutation
  <2>1. Verdict'
    BY DEF IInv, Releases
  <2>2. journal'.status \in {"FAILED", "ROLLED_BACK"} => \A k \in Mutation : release[k] = "before"
    BY <1>1, <2>1 DEF Verdict
  <2>3. journal'.status = "SUCCEEDED" => \A k \in Mutation : release[k] = "after"
    BY <1>1, <2>1 DEF Verdict
  <2>. QED  BY <2>2, <2>3 DEF Changed
<1>3. CASE journal'.status = journal.status
  BY <1>1, <1>3, PhaseFacts
<1>4. CASE journal.status = "ABSENT" /\ journal'.status = "DISCOVERED"
  <2>1. Phase = "open" /\ Phase' = "open"
    BY <1>4, PhaseFacts DEF EarlyStates
  <2>. QED  BY <1>1, <2>1
<1>5. CASE journal.status \in EarlyStates /\ journal'.status \in Transitions[journal.status]
  <2>1. Phase = "open"
    BY <1>5, PhaseFacts
  <2>2. journal'.status \in EarlyStates \cup {"MUTATION_STARTED", "PORT_FORWARD_INTENT", "FAILED"}
    BY <1>5, TableMoves
  <2>3. CASE journal'.status \in EarlyStates
    <3>1. Phase' = "open"
      BY <2>3, PhaseFacts
    <3>. QED  BY <1>1, <2>1, <3>1
  <2>4. CASE journal'.status \in {"MUTATION_STARTED", "PORT_FORWARD_INTENT"}
    <3>1. Phase' = "working"
      BY <2>4, PhaseFacts DEF AmbiguousStates, ForwardStates
    <3>2. Contract!Begin
      BY <1>1, <2>1, <3>1 DEF Contract!Begin, Changed
    <3>. QED  BY <1>1, <3>2 DEF Contract!Next
  <2>5. CASE journal'.status = "FAILED"
    <3>1. Phase' = "failed"
      BY <2>5, PhaseFacts
    <3>2. Contract!Decide
      BY <1>1, <1>2, <2>1, <2>5, <3>1 DEF Contract!Decide, Contract!Verdicts, Changed
    <3>. QED  BY <1>1, <3>2 DEF Contract!Next
  <2>. QED  BY <2>2, <2>3, <2>4, <2>5
<1>6. CASE journal.status \in AmbiguousStates /\ journal'.status \in Transitions[journal.status]
  <2>1. Phase = "working"
    BY <1>6, PhaseFacts
  <2>2. journal'.status \in AmbiguousStates \cup ClosedStates \cup {"RECONCILIATION_REQUIRED"}
    BY <1>6, TableMoves
  <2>3. CASE journal'.status \in AmbiguousStates
    <3>1. Phase' = "working"
      BY <2>3, PhaseFacts
    <3>. QED  BY <1>1, <2>1, <3>1
  <2>4. CASE journal'.status \in ClosedStates \cup {"RECONCILIATION_REQUIRED"}
    <3>1. \/ Phase' = "failed" /\ Changed = {}
          \/ Phase' = "rolled_back" /\ Changed = {}
          \/ Phase' = "succeeded" /\ Changed = Mutation
          \/ Phase' = "reconciliation"
      BY <1>2, <2>4, PhaseFacts DEF ClosedStates
    <3>2. Contract!Decide
      BY <1>1, <2>1, <3>1 DEF Contract!Decide, Contract!Verdicts, Changed
    <3>. QED  BY <1>1, <3>2 DEF Contract!Next
  <2>. QED  BY <2>2, <2>3, <2>4
<1>7. CASE journal.status \in ClosedStates /\ journal'.status \in Transitions[journal.status]
  BY <1>7, TableMoves
<1>. QED
  BY <1>3, <1>4, <1>5, <1>6, <1>7
     DEF StatusMoves, StatusStates

(* A release changes version only while a command of it is under way.      *)
LEMMA ReleaseStep ==
    ASSUME IInv, NEW m \in Mutation, UNCHANGED <<manifest, journal>>,
           \A k \in Mutation \ {m} : release'[k] = release[k],
           journal.status \in AmbiguousStates \cup {"RECONCILIATION_REQUIRED"}
    PROVE  [Contract!Next]_<<Mutation, Phase, Changed>>
<1>1. Mutation' = Mutation
  BY DEF Mutation
<1>2. Phase \in {"working", "reconciliation"} /\ Phase' = Phase
  BY PhaseFacts
<1>3. Changed' \in {Changed \cup {m}, Changed \ {m}}
  BY <1>1 DEF Changed
<1>4. Contract!Move
  BY <1>2, <1>3 DEF Contract!Move, Changed
<1>. QED  BY <1>1, <1>4 DEF Contract!Next

LEMMA ContractStep ==
    ASSUME IInv, IInv', [Next]_vars
    PROVE  [Contract!Next]_<<Mutation, Phase, Changed>>
<1>1. StatusMoves
  BY StepMoves DEF IInv
<1>2. CASE UNCHANGED <<manifest, release>>
  BY <1>1, <1>2, VerdictStep
<1>3. ASSUME NEW p \in Process, UpgradeEnds(p) \/ UndoEnds(p)
      PROVE  [Contract!Next]_<<Mutation, Phase, Changed>>
  <2>1. UNCHANGED <<manifest, journal>> /\ pc[p] \in {"upgrading", "undoing"} /\ ReleasesAt(p)
    BY <1>3 DEF UpgradeEnds, UndoEnds, IInv, Releases
  <2>2. at[p] \in Mutation
    BY <2>1 DEF ReleasesAt, UpgradePc, UndoPc
  <2>3. \A k \in Mutation \ {at[p]} : release'[k] = release[k]
    BY <1>3 DEF UpgradeEnds, UndoEnds, IInv, Typed, TypeOK
  <2>4. pc[p] \in RunnerPc /\ RecordAt(pc[p]) \subseteq AmbiguousStates
    BY <2>1 DEF RunnerPc, RunPc, VisitPc, PcStates, RecordAt, AmbiguousStates, ForwardStates
  <2>5. journal.status \in AmbiguousStates \cup {"RECONCILIATION_REQUIRED"}
    BY <2>4, AtWork DEF IInv
  <2>. QED  BY <2>1, <2>2, <2>3, <2>5, ReleaseStep
<1>4. ASSUME NEW m \in Mutation, TakesEffect(m)
      PROVE  [Contract!Next]_<<Mutation, Phase, Changed>>
  <2>1. /\ UNCHANGED <<manifest, journal>> /\ ~Quiet(m)
        /\ \A k \in Mutation \ {m} : release'[k] = release[k]
    BY <1>4 DEF TakesEffect, Quiet, IInv, Typed, TypeOK
  <2>2. journal.status \notin EarlyStates \cup {"ABSENT"} \cup ClosedStates
    <3>1. ~Fresh(m)
      BY <2>1 DEF Fresh, Quiet
    <3>. QED  BY <2>1, <3>1 DEF IInv, Releases, Verdict, ClosedStates
  <2>3. journal.status \in AmbiguousStates \cup {"RECONCILIATION_REQUIRED"}
    BY <2>2, TypedFacts DEF IInv, StatusStates
  <2>. QED  BY <2>1, <2>3, ReleaseStep
<1>5. ASSUME NEW p \in Process, Visit(p) \/ Works(p) \/ Crash(p),
             ~(UpgradeEnds(p) \/ UndoEnds(p))
      PROVE  UNCHANGED <<manifest, release>>
  BY <1>5
     DEF Works, Runs, Forwards, Visit, Crash, Create, Validate, Capture, AttachSnapshot,
         AttachApproval, Attach, Launch, Result, SafeFailure, EndVisit, DryRuns, DryRunRecorded,
         Evidence, DryRunFailed, DryRunPassed, Start, Mutate, CommandLost, MutationRecorded,
         Mutated, Probing, Probes, ProbeRecorded, Succeed, RollbackStart, Rollback, UndoRecorded,
         RollbackEnd, Transition, ForwardIntent, Spawn, ForwardStarted, WaitReady, TlsProbing,
         TlsProbes, TlsRecorded, Close, ForwardStopped, ForwardAmbiguous, ForwardFailed,
         Reconcile, Reconciling, world
<1>6. ReviewAgain \/ OwnerApproves \/ Expire \/ UNCHANGED vars => UNCHANGED <<manifest, release>>
  BY DEF ReviewAgain, OwnerApproves, Expire, vars, world
<1>. QED  BY <1>2, <1>3, <1>4, <1>5, <1>6 DEF Next

LEMMA ContractInit == Init => Contract!Init
<1>. SUFFICES ASSUME Init PROVE Contract!Init
  OBVIOUS
<1>1. Phase = "open"
  BY PhaseFacts DEF Init, Absent, Row
<1>2. Changed = {}
  BY DEF Init, Changed
<1>. QED  BY <1>1, <1>2 DEF Contract!Init, Changed

(* The lifecycle implements its contract: no release changes before        *)
(* MUTATION_STARTED is durable, FAILED and ROLLED_BACK mean that every     *)
(* release is in its old version, SUCCEEDED that each is in its new one,   *)
(* and nothing that an overtaken or crashed process left behind changes a  *)
(* release after that.                                                     *)
THEOREM ImplementsContract == Spec => Implements
<1>1. IInv /\ IInv' /\ [Next]_vars =>
        [Contract!Next]_<<Mutation, Phase, {m \in Mutation : release[m] = "after"}>>
  BY ContractStep DEF Changed
<1>2. Init => Contract!Init
  BY ContractInit
<1>. QED
  BY <1>1, <1>2, IInvHolds, PTL DEF Spec, Implements, Contract!Spec
=============================================================================
