----------------------------- MODULE EventStore -----------------------------
(***************************************************************************)
(* The event store: store/sqlite_store.py with the hash chain of events.py *)
(* and state.py and the offline check of audit_chain.py.                   *)
(*                                                                         *)
(* `branches` and `rows` are the two tables.  A transaction is one step    *)
(* (BEGIN IMMEDIATE holds the write lock); create_branch reads the parent  *)
(* before its transaction, so a fork is two steps and anything may happen  *)
(* in between.  What raises StoreError or is rolled back changes nothing   *)
(* and is a guard here.  A hash is the sequence of the records that went   *)
(* into it: two hashes are equal only when everything before them is.      *)
(*                                                                         *)
(* The last section lets the file change behind the store's back, which is *)
(* what the chain and the guard are there to notice.                       *)
(***************************************************************************)
EXTENDS Integers, FiniteSets, SequencesExt

CONSTANTS
    Branches,  \* branch ids
    Runs,      \* run ids; the rows of `runs` exist
    NumEvents, \* bound: event ids are 1..NumEvents, new_id takes the next one
    Parents,   \* the parent_id values callers give, NoEvent for none
    Bodies,    \* the rest of an event: kind, type, payload, time
    Altered,   \* the rest of a row that was edited, not in Bodies
    NoBranch,  \* parent_branch_id of a root
    Faults,    \* which changes from outside happen: subset of {"edit", "delete", "copy"}
    MaxFaults  \* bound: how many of them

ASSUME BoundsAreNat == NumEvents \in Nat /\ MaxFaults \in Nat
ASSUME ParentsAreIds == Parents \subseteq 0..NumEvents
ASSUME NoBranchIsNone == NoBranch \notin Branches

EventIds == 1..NumEvents
NoEvent == 0

VARIABLES
    branches, \* created branches: [Branches -> record], a partial function
    rows,     \* the events table, a set of rows
    guarded,  \* the triggers and the table are what the DDL says
    forking,  \* create_branch calls between their check and their insert
    issued,   \* how many event ids new_id has given out
    copy,     \* the last copy of the file that was put aside
    touched   \* how the file was changed from outside so far

vars == <<branches, rows, guarded, forking, issued, copy, touched>>

Created == DOMAIN branches

NewEvents(ids) == [id : ids, run : Runs, branch : Branches,
                   parent : Parents, body : Bodies]

-----------------------------------------------------------------------------
(* Reading *)

RowsOf(R, b) == {e \in R : e.branch = b}

\* SELECT ... ORDER BY seq
own_events(R, b) ==
    LET own == RowsOf(R, b)
    IN  [i \in 1..Cardinality(own) |->
            CHOOSE e \in own : Cardinality({x \in own : x.seq <= e.seq}) = i]

ById(R, id) == {e \in R : e.id = id}

\* Slip: what the parent adds after the fork shows in the child.
UpToNow(log, id) == log

\* out[: cut + 1], to the first event of that id; the whole when there is none
UpTo(log, id) ==
    IF \E i \in 1..Len(log) : log[i].id = id
    THEN SubSeq(log, 1, CHOOSE i \in 1..Len(log) : /\ log[i].id = id
                                                   /\ \A j \in 1..i - 1 : log[j].id # id)
    ELSE log

\* The ancestors' prefixes, cut at the fork points, and the branch's own events.
effective_events(R, b) ==
    LET eff[c \in Created] ==
            IF branches[c].parent = NoBranch THEN own_events(R, c)
            ELSE UpTo(eff[branches[c].parent], branches[c].fork) \o own_events(R, c)
    IN  eff[b]

InLog(log, id) == \E i \in 1..Len(log) : log[i].id = id

\* effective_events finds every fork point on the way: it does not raise.
Readable(R, b) ==
    LET ok[c \in Created] ==
            branches[c].parent # NoBranch =>
                /\ ok[branches[c].parent]
                /\ InLog(effective_events(R, branches[c].parent), branches[c].fork)
    IN  ok[b]

-----------------------------------------------------------------------------
(* The hash chain *)

GENESIS_HASH == <<>>

\* What is hashed of an event: all but the hashes.
event_record(e) ==
    [id |-> e.id, run |-> e.run, branch |-> e.branch, seq |-> e.seq,
     parent |-> e.parent, body |-> e.body]

compute_event_hash(prev, e) == Append(prev, event_record(e))

ForkRow(R, b) == CHOOSE e \in R : e.id = branches[b].fork

\* Slip: the first event of a fork starts a chain of its own.
_prev_hash_of_own(R, b) ==
    LET own == own_events(R, b) IN IF own # <<>> THEN Last(own).hash ELSE GENESIS_HASH

_prev_hash(R, b) ==
    LET own == own_events(R, b)
    IN  CASE own # <<>> -> Last(own).hash
          [] own = <<>> /\ branches[b].parent # NoBranch /\ ById(R, branches[b].fork) # {} ->
                ForkRow(R, b).hash
          [] OTHER -> GENESIS_HASH

\* Slip: the links are followed and the contents not hashed again.
ChainHoldsByLinks(b) ==
    LET own == own_events(rows, b)
    IN  \A i \in 2..Len(own) : own[i].prev = own[i - 1].hash

\* verify_chain on a branch's own events, from genesis or from the fork point
ChainHolds(b) ==
    LET own == own_events(rows, b)
        forked == branches[b].parent # NoBranch
        start == IF forked THEN ForkRow(rows, b).hash ELSE GENESIS_HASH
    IN  own # <<>> =>
            /\ forked => ById(rows, branches[b].fork) # {}
            /\ own[1].prev = start
            /\ \A i \in 2..Len(own) : own[i].prev = own[i - 1].hash
            /\ \A i \in 1..Len(own) : own[i].hash = compute_event_hash(own[i].prev, own[i])

audit == guarded /\ \A b \in Created : ChainHolds(b)

\* The experiments' own check (opsenv/oracle.py): branches whose numbers do not
\* run from 0 without gaps, and ids that are there more than once.
check_no_tamper ==
    [branches |-> {b \in Created :
                      {e.seq : e \in RowsOf(rows, b)} # 0..(Cardinality(RowsOf(rows, b)) - 1)},
     ids |-> {e.id : e \in {x \in rows : Cardinality(ById(rows, x.id)) > 1}}]

-----------------------------------------------------------------------------
(* Appending *)

\* _next_seq_locked: only the first event of a branch is checked against its run
KnowsRun(R, new) == RowsOf(R, new.branch) # {} \/ branches[new.branch].run = new.run

_next_seq(R, b) ==
    LET log == effective_events(R, b)
    IN  IF log = <<>> THEN 0 ELSE Last(log).seq + 1

\* The parent event is in the table and in the same branch.
ParentIsOwn(R, new) ==
    new.parent = NoEvent \/ \E e \in ById(R, new.parent) : e.branch = new.branch

Accepted(R, new) ==
    /\ new.branch \in Created
    /\ KnowsRun(R, new)
    /\ RowsOf(R, new.branch) = {} => Readable(R, new.branch)
    /\ ParentIsOwn(R, new)
    /\ ById(R, new.id) = {}

Row(R, new) ==
    LET seq == _next_seq(R, new.branch)
        prev == _prev_hash(R, new.branch)
        e == [id |-> new.id, run |-> new.run, branch |-> new.branch, seq |-> seq,
              parent |-> new.parent, body |-> new.body]
    IN  [id |-> e.id, run |-> e.run, branch |-> e.branch, seq |-> e.seq,
         parent |-> e.parent, body |-> e.body,
         prev |-> prev, hash |-> compute_event_hash(prev, e)]

Inserted(R, new) == R \cup {Row(R, new)}

\* append_many: all of the batch or nothing
append_many(batch) ==
    /\ guarded
    /\ Accepted(rows, batch[1])
    /\ LET first == Inserted(rows, batch[1])
       IN  \/ Len(batch) = 1 /\ rows' = first
           \/ /\ Len(batch) = 2
              /\ Accepted(first, batch[2])
              /\ rows' = Inserted(first, batch[2])
    /\ issued' = issued + Len(batch)
    /\ UNCHANGED <<branches, guarded, forking, copy, touched>>

Batches ==
    LET one == NewEvents(EventIds \cap {issued + 1})
        two == NewEvents(EventIds \cap {issued + 2})
    IN  {<<e>> : e \in one} \cup {<<e, f>> : e \in one, f \in two}

-----------------------------------------------------------------------------
(* Branches *)

AddBranch(b, run, p, f) ==
    branches' = [c \in Created \cup {b} |->
                    IF c = b THEN [run |-> run, parent |-> p, fork |-> f] ELSE branches[c]]

create_branch(b, run) ==
    /\ b \notin Created
    /\ AddBranch(b, run, NoBranch, NoEvent)
    /\ UNCHANGED <<rows, guarded, forking, issued, copy, touched>>

\* The check that the fork point is in the parent's log, outside the transaction.
ForkPointKnown(p, f) == Readable(rows, p) /\ InLog(effective_events(rows, p), f)

BeginFork(b, run, p, f) ==
    /\ forking = {} \* bound: one such call at a time
    /\ b \notin Created
    /\ ForkPointKnown(p, f)
    /\ forking' = forking \cup {[branch |-> b, run |-> run, parent |-> p, fork |-> f]}
    /\ UNCHANGED <<branches, rows, guarded, issued, copy, touched>>

\* The insert; it is refused when another call has created the branch.
EndFork(c) ==
    /\ c \in forking
    /\ forking' = forking \ {c}
    /\ IF c.branch \in Created THEN UNCHANGED branches
       ELSE AddBranch(c.branch, c.run, c.parent, c.fork)
    /\ UNCHANGED <<rows, guarded, issued, copy, touched>>

-----------------------------------------------------------------------------
(* Changes to the file from outside *)

Faulty(kind) == kind \in Faults /\ Len(touched) < MaxFaults

\* Without the triggers a row can be changed; its hash columns stay.
DropGuard ==
    /\ Faulty("edit") \/ Faulty("delete")
    /\ guarded
    /\ guarded' = FALSE
    /\ UNCHANGED <<branches, rows, forking, issued, copy, touched>>

\* setup(allow_repair=True)
RepairGuard ==
    /\ ~guarded
    /\ guarded' = TRUE
    /\ UNCHANGED <<branches, rows, forking, issued, copy, touched>>

EditRow(e) ==
    /\ Faulty("edit")
    /\ ~guarded
    /\ rows' = (rows \ {e}) \cup {[e EXCEPT !.body = Altered]}
    /\ rows' # rows
    /\ touched' = touched \o <<"edit">>
    /\ UNCHANGED <<branches, guarded, forking, issued, copy>>

DeleteRow(e) ==
    /\ Faulty("delete")
    /\ ~guarded
    /\ rows' = rows \ {e}
    /\ touched' = touched \o <<"delete">>
    /\ UNCHANGED <<branches, guarded, forking, issued, copy>>

\* An operator copies the file and puts the copy back later; no program has it open.
TakeCopy ==
    /\ Faulty("copy")
    /\ forking = {}
    /\ copy.rows = {} /\ rows # {} \* bound: one copy
    /\ copy' = [branches |-> branches, rows |-> rows]
    /\ UNCHANGED <<branches, rows, guarded, forking, issued, touched>>

PutCopyBack ==
    /\ Faulty("copy")
    /\ forking = {}
    /\ copy.rows # {}
    /\ branches' = copy.branches
    /\ rows' = copy.rows
    /\ rows' # rows
    /\ touched' = touched \o <<"copy">>
    /\ UNCHANGED <<guarded, forking, issued, copy>>

-----------------------------------------------------------------------------

Init ==
    /\ branches = <<>>
    /\ rows = {}
    /\ guarded = TRUE
    /\ forking = {}
    /\ issued = 0
    /\ copy = [branches |-> <<>>, rows |-> {}]
    /\ touched = <<>>

Use ==
    \/ \E batch \in Batches : append_many(batch)
    \/ \E b \in Branches, run \in Runs : create_branch(b, run)
    \/ \E b \in Branches, run \in Runs, p \in Created, f \in EventIds : BeginFork(b, run, p, f)
    \/ \E c \in forking : EndFork(c)

Outside ==
    \/ DropGuard
    \/ RepairGuard
    \/ \E e \in rows : DeleteRow(e) \/ EditRow(e)
    \/ TakeCopy
    \/ PutCopyBack

Next == Use \/ Outside

Spec == Init /\ [][Next]_vars
=============================================================================
