--------------------------- MODULE StoreProperties ---------------------------
(***************************************************************************)
(* What the event store promises.                                          *)
(***************************************************************************)
EXTENDS EventStore

Recorded(log) ==
    [i \in 1..Len(log) |-> [branch |-> log[i].branch, seq |-> log[i].seq, id |-> log[i].id, body |-> log[i].body]]

Logs == [b \in Created |-> Recorded(effective_events(rows, b))]

Tree == INSTANCE BranchTree WITH logs <- Logs

\* Until the file is changed from outside, the store implements BranchTree:
\* through forks of forks, batches and forks that raced with appends, the log
\* of each branch is numbered from 0 without gaps, only grows, starts as a
\* prefix of its parent's, and changes by its own appends only
\* (docs/semantics.md 2.3).
KeepsTree ==
    /\ Tree!Init
    /\ [][touched' = <<>> => UNCHANGED Logs \/ Tree!Next]_vars

\* What the store wrote itself passes the offline check, whatever was forked
\* from where (audit_chain.py:70).  The oracle of the experiments agrees on
\* roots; it takes any fork that has events for a branch with a gap, since the
\* numbers of a fork go on from the fork point (oracle.py:137).
ForksInUse == {b \in Created : branches[b].parent # NoBranch /\ RowsOf(rows, b) # {}}

OwnWritesPassAudit ==
    touched = <<>> /\ guarded =>
        audit /\ check_no_tamper = [branches |-> ForksInUse, ids |-> {}]

\* When the check passes, the last hash of a branch is that of the log as it
\* is read now: a row that was edited, or deleted before the last one, in the
\* branch or in what it inherits, does not go unnoticed (state.py:82).
AuditNoticesChanges ==
    audit => \A b \in Created :
        LET log == effective_events(rows, b)
        IN  RowsOf(rows, b) # {} /\ Readable(rows, b) =>
                /\ Last(log).hash = [i \in 1..Len(log) |-> event_record(log[i])]
                /\ \A i \in 1..Len(log) : log[i].seq = i - 1
=============================================================================
