----------------------------- MODULE Checkpoints -----------------------------
(***************************************************************************)
(* Checkpoints of one thread: SqliteCheckpointSaver of                     *)
(* harness/store/checkpoints.py with the commit and the cross-check of     *)
(* harness/loop.py.  A process works on one branch at a time, the root or  *)
(* a fork of it, and may be killed between the writes of a task and the    *)
(* checkpoint they belong to.  The wall clock may be set back.             *)
(*                                                                         *)
(* An event is named by its branch and its number there.                   *)
(***************************************************************************)
EXTENDS Integers, Sequences, FiniteSetsExt

CONSTANTS
    MaxEventsOf,    \* bound on the own events of a branch
    MaxCommits,     \* bound on checkpoint ids
    MaxWallTime,    \* bound on the clock
    WritesOfTask    \* what a task may have written: sets of indices

ERROR == -1
SCHEDULED == -2
INTERRUPT == -3
RESUME == -4

ASSUME CheckpointAssumption ==
    /\ MaxEventsOf \in Nat /\ MaxCommits \in Nat /\ MaxWallTime \in Nat
    /\ \A w \in WritesOfTask : w \subseteq RESUME..0 /\ w # {}

VARIABLES
    own,        \* the number of own events of each branch there is (durable)
    forkedAt,   \* how many events of the root the fork shares, -1 without a fork
    saved,      \* the table of checkpoints in the order of its rows (durable)
    taskOutputs,\* checkpoint_writes: the indices by checkpoint id (durable)
    saver,      \* the process: its branch, where it is, the id it commits
    ids,        \* checkpoint ids given out
    wallTime,
    setBack     \* the clock was set back

checkpointVars == <<own, forkedAt, saved, taskOutputs, saver, ids, wallTime, setBack>>

Forked == forkedAt >= 0
BranchesThere == {"root"} \cup (IF Forked THEN {"fork"} ELSE {})
NotRunning == [branch |-> "root", at |-> "down", id |-> 0]

CheckpointInit ==
    /\ own = [root |-> 0, fork |-> 0]
    /\ forkedAt = -1
    /\ saved = <<>>
    /\ taskOutputs = [i \in {} |-> {}]
    /\ saver = NotRunning
    /\ ids = 0 /\ wallTime = 0 /\ setBack = FALSE

-----------------------------------------------------------------------------
(* The log *)

OwnEvents(b) == [i \in 1..own[b] |-> <<b, i>>]
LogOfBranch(b) ==
    IF b = "root" THEN OwnEvents("root")
    ELSE SubSeq(OwnEvents("root"), 1, forkedAt) \o OwnEvents("fork")

LastEvent(b) == IF LogOfBranch(b) = <<>> THEN <<"none", 0>>
                ELSE LogOfBranch(b)[Len(LogOfBranch(b))]

\* MAX(seq) over the branch's own rows, -1 without any.
last_seq(b) ==
    IF own[b] = 0 THEN -1
    ELSE own[b] - 1 + (IF b = "fork" THEN forkedAt ELSE 0)

RunBranch(b) ==
    /\ saver.at = "down" /\ b \in BranchesThere
    /\ saver' = [branch |-> b, at |-> "turn", id |-> 0]
    /\ UNCHANGED <<own, forkedAt, saved, taskOutputs, ids, wallTime, setBack>>

AppendEvent ==
    /\ saver.at = "turn" /\ own[saver.branch] < MaxEventsOf
    /\ own' = [own EXCEPT ![saver.branch] = @ + 1]
    /\ UNCHANGED <<forkedAt, saved, taskOutputs, saver, ids, wallTime, setBack>>

Fork(n) ==
    /\ saver.at = "down" /\ ~Forked /\ n \in 1..own["root"]
    /\ forkedAt' = n
    /\ UNCHANGED <<own, saved, taskOutputs, saver, ids, wallTime, setBack>>

-----------------------------------------------------------------------------
(* Commits *)

\* put_writes of _commit, if the task wrote anything.
put_writes(w) ==
    /\ saver.at = "turn" /\ ids < MaxCommits
    /\ ids' = ids + 1
    /\ saver' = [branch |-> saver.branch, at |-> "commit", id |-> ids + 1]
    /\ taskOutputs' = [i \in DOMAIN taskOutputs \cup {ids + 1} |->
                          IF i = ids + 1 THEN w ELSE taskOutputs[i]]
    /\ UNCHANGED <<own, forkedAt, saved, wallTime, setBack>>

\* Slip: of checkpoints of the same time the first is taken.
NewerFirstRow(i, j) ==
    saved[i].at > saved[j].at \/ (saved[i].at = saved[j].at /\ i < j)

\* ORDER BY created_at DESC, rowid DESC
Newer(i, j) == saved[i].at > saved[j].at \/ (saved[i].at = saved[j].at /\ i > j)

\* The row of the latest checkpoint of the thread, whatever its branch.
get_latest == {i \in DOMAIN saved : \A j \in DOMAIN saved \ {i} : Newer(i, j)}

\* put of _commit: state and parent are read in the same step, as nobody else
\* writes while the process runs.
put ==
    /\ saver.at = "commit"
    /\ saved' = Append(saved, [id |-> saver.id, branch |-> saver.branch, at |-> wallTime,
                               parent |-> {saved[i].id : i \in get_latest},
                               last |-> LastEvent(saver.branch)])
    /\ saver' = [saver EXCEPT !.at = "turn"]
    /\ UNCHANGED <<own, forkedAt, taskOutputs, ids, wallTime, setBack>>

\* The process ends or is killed.
StopRunning ==
    /\ saver.at # "down"
    /\ saver' = NotRunning
    /\ UNCHANGED <<own, forkedAt, saved, taskOutputs, ids, wallTime, setBack>>

SetClock(t) ==
    /\ t # wallTime
    /\ wallTime' = t
    /\ setBack' = (setBack \/ t < wallTime)
    /\ UNCHANGED <<own, forkedAt, saved, taskOutputs, saver, ids>>

CheckpointNext ==
    \/ \E b \in {"root", "fork"} : RunBranch(b)
    \/ AppendEvent
    \/ \E n \in 1..MaxEventsOf : Fork(n)
    \/ \E w \in WritesOfTask \cup {{}} : put_writes(w)
    \/ put
    \/ StopRunning
    \/ \E t \in 0..MaxWallTime : SetClock(t)

CheckpointSpec == CheckpointInit /\ [][CheckpointNext]_checkpointVars

-----------------------------------------------------------------------------
(* Recovery *)

\* classify_writes: of several indices the most severe; RESUME counts as output.
Outcome(w) ==
    CASE ERROR \in w -> "error"
      [] ERROR \notin w /\ INTERRUPT \in w -> "interrupted"
      [] w \cap {ERROR, INTERRUPT} = {} /\ SCHEDULED \in w -> "scheduled"
      [] OTHER -> "completed"

Plan(i) ==
    [checkpoint |-> saved[i].id,
     replay |-> IF taskOutputs[saved[i].id] # {} /\ Outcome(taskOutputs[saved[i].id]) = "completed"
                THEN taskOutputs[saved[i].id] ELSE {},
     from |-> last_seq(saved[i].branch) + 1]

recovery_plan == {Plan(i) : i \in get_latest}

Concerns(i, b) == saved[i].branch = b

\* _checkpoint_cross_check reports a checkpoint of the branch that refers to an
\* event its log does not have.
Mismatch(b) ==
    \E i \in get_latest :
        /\ Concerns(i, b)
        /\ saved[i].last # <<"none", 0>>
        /\ \A k \in DOMAIN LogOfBranch(b) : LogOfBranch(b)[k] # saved[i].last

-----------------------------------------------------------------------------
\* The cross-check reports nothing the system did itself, whatever was killed,
\* forked, or done to the clock (loop.py 390-397).
CrossCheckIsSilent == \A b \in BranchesThere : ~Mismatch(b)

\* A clock that only moves on, however coarse, makes the last commit the one
\* recovery starts from and the parent of the next: the checkpoints are a line
\* in which each leads on from the one before, and writes without a checkpoint
\* are not replayed.  The number to go on from is that of the branch's log,
\* but for a fork without events of its own.
RecoveryStartsFromLastCommit ==
    ~setBack =>
        /\ \A i \in DOMAIN saved : saved[i].parent = IF i = 1 THEN {} ELSE {saved[i - 1].id}
        /\ \A p \in recovery_plan :
              LET last == saved[Len(saved)] IN
              /\ p.checkpoint = last.id
              /\ p.replay \cap {ERROR, SCHEDULED, INTERRUPT} = {}
              /\ own[last.branch] > 0 => p.from = Len(LogOfBranch(last.branch))

CheckpointsMatchLogs == CrossCheckIsSilent /\ RecoveryStartsFromLastCommit
=============================================================================
