----------------------------- MODULE BranchTree -----------------------------
(***************************************************************************)
(* What the event store promises of its branches (docs/semantics.md 2.3):  *)
(* each branch is a log of its own that only grows, a fork starts as a     *)
(* prefix of its parent, and no write to one branch shows in another.      *)
(***************************************************************************)
EXTENDS Integers, SequencesExt

CONSTANT Branches \* branch ids

VARIABLE logs \* the logs of the branches there are, a partial function

Init == logs = [b \in {} |-> <<>>]

Added(b, log) ==
    /\ b \notin DOMAIN logs
    /\ logs' = [c \in DOMAIN logs \cup {b} |-> IF c = b THEN log ELSE logs[c]]

NewRoot(b) == Added(b, <<>>)

Fork(b, p) == \E n \in 1..Len(logs[p]) : Added(b, SubSeq(logs[p], 1, n))

\* A write adds events to the logs of the branches they are for, at the end
\* and numbered from 0 without gaps, and leaves the other logs alone.
Extended(b) ==
    /\ IsStrictPrefix(logs[b], logs'[b])
    /\ \A i \in Len(logs[b]) + 1..Len(logs'[b]) : /\ logs'[b][i].branch = b
                                                 /\ logs'[b][i].seq = i - 1

Extend ==
    /\ DOMAIN logs' = DOMAIN logs
    /\ \A b \in DOMAIN logs : logs'[b] = logs[b] \/ Extended(b)

Next ==
    \/ Extend
    \/ \E b \in Branches : NewRoot(b) \/ \E p \in DOMAIN logs : Fork(b, p)

Spec == Init /\ [][Next]_logs
=============================================================================
