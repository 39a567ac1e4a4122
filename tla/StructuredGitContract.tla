------------------------ MODULE StructuredGitContract ------------------------
(***************************************************************************)
(* What the structured Git capability promises of the commits it accepts.  *)
(*                                                                         *)
(* The branch only grows, an attempt commits at most once, and the verdict *)
(* on an attempt is final.  The work of an attempt is accepted only when   *)
(* the commit right after its base is the attempt's own and holds exactly  *)
(* the tree that was proposed.                                             *)
(***************************************************************************)
EXTENDS Naturals, Sequences

CONSTANT Attempt

VARIABLES
    log,        \* the commits of the branch: who made them, and their trees
    base,       \* [attempt -> length of the branch when it was prepared]
    proposal,   \* [attempt -> the tree of the working copy it proposed]
    verdict     \* [attempt -> "open", "accepted", "recorded" or "rejected"]

Committed(a) == \E i \in 1..Len(log) : log[i].by = a

Published(a) ==
    /\ base[a] < Len(log)
    /\ log[base[a] + 1] = [by |-> a, tree |-> proposal[a]]

Init == log = <<>> /\ verdict = [a \in Attempt |-> "open"]

Prepare(a) ==
    /\ verdict[a] = "open" /\ ~Committed(a)
    /\ base' = [base EXCEPT ![a] = Len(log)]
    /\ UNCHANGED <<log, proposal, verdict>>

(* An overtaken process may still propose; that changes no verdict.        *)
Propose(a) ==
    /\ verdict[a] \in {"open", "rejected"} /\ ~Committed(a)
    /\ \A b \in Attempt \ {a} : proposal'[b] = proposal[b]
    /\ UNCHANGED <<log, base, verdict>>

Commit ==
    /\ Len(log') = Len(log) + 1
    /\ SubSeq(log', 1, Len(log)) = log
    /\ \A a \in Attempt : log'[Len(log')].by = a => ~Committed(a)
    /\ UNCHANGED <<base, proposal, verdict>>

Decide(a) ==
    /\ verdict[a] = "open"
    /\ \/ verdict' = [verdict EXCEPT ![a] = "accepted"] /\ Published(a)
       \/ verdict' = [verdict EXCEPT ![a] = "recorded"] /\ ~Committed(a)
       \/ verdict' = [verdict EXCEPT ![a] = "rejected"]
    /\ UNCHANGED <<log, base, proposal>>

Next == Commit \/ \E a \in Attempt : Prepare(a) \/ Propose(a) \/ Decide(a)

Spec == Init /\ [][Next]_<<log, base, proposal, verdict>>
=============================================================================
