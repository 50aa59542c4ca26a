--------------------------- MODULE LoopProperties ---------------------------
(***************************************************************************)
(* What must hold of the agent loop in particular, whatever the model      *)
(* asks for, the human answers, and whenever a process is killed.          *)
(***************************************************************************)
EXTENDS AgentLoop, ToolProperties, Oracle

-----------------------------------------------------------------------------
(* Turns *)

\* Kills everywhere but between the writes of a human's answer.
KilledElsewhere == ~(crashes' > crashes /\ exit = "answered")

SpecKilledElsewhere == Init /\ [][Next /\ KilledElsewhere]_vars

\* The model is never asked to go on while a call it made has no conclusion:
\* recovery and the gate settle every open call first.
NoOpenCallWhenAsked == phase \in {"compact", "ask"} => OpenCalls(log) = {}

\* What the model is shown when it is asked has lost nothing: every call the
\* log keeps is there with its result, across approvals, kills and compactions.
ViewIsWhole ==
    phase \in {"compact", "ask"} /\ writes = <<>> => _render_history(log).dropped = {}

\* A model call or a summary is paid for only below the limit, so the limit is
\* exceeded by less than one of them, across every kill and resume.
BudgetIsKept == Limit > 0 => Spent(log) < Limit + Max(Costs)

\* A budget stop is a fatal error in the log and not a silent end of the
\* process (tests/test_replay_model.py:425).
BudgetStopIsRecorded == exit = "raised" => RunStatus(log) = "failed"

\* runs.status is the summary for outside queries (loop.py:296) once a process
\* that drove the run has returned.
StatusIsFresh == exit = "returned" => runStatus = RunStatus(log)

\* The same as long as no process was killed: every path on which a process
\* ends by itself stores what the log folds to (loop.py:296).
StatusIsFreshUnlessKilled == crashes = 0 => StatusIsFresh

-----------------------------------------------------------------------------
(* What the experiments judge a run by *)

\* The oracle of opsenv never blames a correct run: at whatever moment it reads
\* the files, between any two writes and after any kill, no closed row lacks its
\* result and no repeated effect is kept quiet; and a process that was not
\* stopped by max_steps leaves the run where drive_to_terminal may stop.  The
\* driver of the experiment goes on exactly where a resume has work to do.
OracleFindsNothing ==
    /\ Flagged(log, rows, effects) = {}
    /\ drive_to_terminal(current_status(TRUE, log)) = IF NothingToDo THEN "stop" ELSE "resume"
    /\ phase = "return" /\ writes = <<>> /\ exit # "answered" /\ loop.turns < MaxSteps
       => audit_run(log, rows, effects)

-----------------------------------------------------------------------------
(* Checkpoints *)

CommittedLog == SubSeq(log, 1, checkpoint.last)

\* A checkpoint is taken between super-steps only: what is open in the part of
\* the log it stands for is the one call that waits at the gate.
CheckpointsAreAtBoundaries ==
    OpenCalls(CommittedLog) \subseteq
        {c \in Calls : HasPending(CommittedLog) /\ Pending(CommittedLog).call = c}

\* A task a checkpoint lists as completed has its conclusion in the log, so
\* replaying its output skips no effect (recovery_plan).
CompletedTasksAreConcluded == \A c \in checkpoint.tasks : Closed(CommittedLog, c)
=============================================================================
