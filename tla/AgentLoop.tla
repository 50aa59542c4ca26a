------------------------------ MODULE AgentLoop ------------------------------
(***************************************************************************)
(* The agent loop of harness/loop.py on one branch, as harness-driven by   *)
(* experiments/worker.py: one process at a time starts, resumes or answers *)
(* the run, and may be killed between any two durable writes.              *)
(*                                                                         *)
(* A turn asks the model, records its message, hands its calls one by one  *)
(* to ToolExecutor and commits a checkpoint.  The model is arbitrary: it   *)
(* answers with any batch of calls under fresh ids, and an empty batch is  *)
(* its final answer.  Tokens are not counted, so whether a view is over    *)
(* the threshold or the window, and whether a summary is shorter than what *)
(* it replaces, are choices; what it replaces is not.                      *)
(***************************************************************************)
EXTENDS ToolExecutor, ContextView

CONSTANTS
    MaxCrashes, \* bound on how often a process is killed
    MaxBatch,   \* bound on the calls of one model message
    MaxSteps,   \* max_steps of the loop
    Limit,      \* total_usd of the budget
    Costs,      \* what one model call may cost
    Keep,       \* keep_recent_groups of the compaction policy
    HasCompactor\* whether the loop was given a compactor

ASSUME LoopBoundsAreNat ==
    /\ MaxCrashes \in Nat
    /\ MaxBatch \in Nat
    /\ MaxSteps \in Nat
    /\ Limit \in Nat
    /\ Keep \in Nat
ASSUME CostsAreNat == Costs \subseteq Nat
ASSUME CompactorIsBoolean == HasCompactor \in BOOLEAN

VARIABLES
    checkpoint, \* the latest committed: its tasks and its last event (durable)
    taskWrites, \* task outputs under the id of the checkpoint to come (durable)
    loop,       \* the locals of _drive and _call_model, see AtRest
    issued,     \* how many ids the model has used (history)
    exit,       \* how the last process ended
    crashes

kept == <<checkpoint, taskWrites>>
vars == <<log, rows, effects, runStatus, lapsed, phase, writes, cur, queue,
          checkpoint, taskWrites, loop, issued, exit, crashes>>

Phases == {"down", "resume", "drive", "judge", "effect",
           "turn", "compact", "ask", "leave", "return"}

PutWrites(tasks) == [kind |-> "tasks", tasks |-> tasks]
PutCheckpoint == [kind |-> "checkpoint"]

\* The locals of a loop that is not running.
AtRest ==
    [stage |-> "recovery", batch |-> <<>>, done |-> {}, interrupted |-> FALSE,
     asks |-> 0, turns |-> 0]

Init ==
    /\ log = <<>>
    /\ rows = [c \in Calls |-> NoRow]
    /\ effects = [c \in Calls |-> <<>>]
    /\ runStatus = "running"
    /\ lapsed = {}
    /\ phase = "down"
    /\ writes = <<>>
    /\ cur = NoRequest
    /\ queue = {}
    /\ checkpoint = [tasks |-> {}, last |-> 0]
    /\ taskWrites = {}
    /\ loop = AtRest
    /\ issued = 0
    /\ exit = "none"
    /\ crashes = 0

-----------------------------------------------------------------------------
(* Processes *)

Ended(l) == RunStatus(l) \in {"completed", "failed"}

start ==
    /\ phase = "down"
    /\ log = <<>>
    /\ phase' = "turn"
    /\ writes' = <<Appending(UserMessage)>>
    /\ loop' = [AtRest EXCEPT !.stage = "turn"]
    /\ exit' = "none"
    /\ UNCHANGED <<durable, lapsed, cur, queue, kept, issued, crashes>>

\* Slip: a run that ever asked a human is taken to be waiting.
NothingToDoOnceAsked == Ended(log) \/ InterruptCount(log) > 0

\* A run that ended, or waits for an answer, is left alone.
NothingToDo == Ended(log) \/ HasPending(log)

resume ==
    /\ phase = "down"
    /\ phase' = IF NothingToDo THEN "return" ELSE "resume"
    /\ loop' = AtRest
    /\ exit' = "none"
    /\ UNCHANGED <<durable, lapsed, writes, cur, queue, kept, issued, crashes>>

\* The answer is the whole work of its process.
approve(d, a, s) ==
    /\ phase = "down"
    /\ decide(d, a, s)
    /\ phase' = "return"
    /\ exit' = "answered"
    /\ UNCHANGED <<loop, kept, issued, crashes>>

Return ==
    /\ phase = "return"
    /\ writes = <<>>
    /\ phase' = "down"
    /\ loop' = AtRest
    /\ exit' = IF exit = "answered" THEN exit ELSE "returned"
    /\ UNCHANGED <<durable, lapsed, writes, cur, queue, kept, issued, crashes>>

Crash ==
    /\ phase # "down"
    /\ crashes < MaxCrashes
    /\ crashes' = crashes + 1
    /\ phase' = "down"
    /\ writes' = <<>>
    /\ cur' = NoRequest
    /\ queue' = {}
    /\ loop' = AtRest
    /\ exit' = "killed"
    /\ UNCHANGED <<durable, lapsed, kept, issued>>

-----------------------------------------------------------------------------
(* Recovery: the open calls of the log are driven before the model is asked. *)

\* Slip: the model is asked on whether or not a call waits at the gate.
PhaseAfterRecoveryOn == "turn"

PhaseAfterRecovery == IF loop.interrupted THEN "return" ELSE "turn"

\* With a call left at the gate there is a checkpoint, and no new status.
AfterRecovery ==
    /\ phase = "drive"
    /\ loop.stage = "recovery"
    /\ writes = <<>>
    /\ queue = {}
    /\ writes' = IF loop.interrupted THEN <<PutCheckpoint>> ELSE <<>>
    /\ phase' = PhaseAfterRecovery
    /\ loop' = [loop EXCEPT !.stage = "turn"]
    /\ taskWrites' = {}
    /\ UNCHANGED <<durable, lapsed, cur, queue, checkpoint, issued, exit, crashes>>

-----------------------------------------------------------------------------
(* Asking the model *)

CostOf(e) == IF e.type = "budget_update" THEN e.cost ELSE 0

Spent(l) ==
    LET upTo[n \in 0..Len(l)] == IF n = 0 THEN 0 ELSE upTo[n - 1] + CostOf(l[n])
    IN  upTo[Len(l)]

\* BudgetLedger.check refuses a request once the limit is reached.
check(l) == Spent(l) < Limit

Fatal == Appending(ErrorEvent(TRUE))
Charge(cost) == Appending(ChargeEvent(cost))

\* The top of the for loop of _drive.
Turn ==
    /\ phase = "turn"
    /\ writes = <<>>
    /\ IF Ended(log) \/ loop.turns = MaxSteps
       THEN phase' = "leave" /\ UNCHANGED loop
       ELSE /\ phase' = "compact"
            /\ loop' = [loop EXCEPT !.turns = @ + 1, !.asks = 0, !.done = {}]
    /\ UNCHANGED <<durable, lapsed, writes, cur, queue, kept, issued, exit, crashes>>

\* What a compaction may report instead: nothing when there is nothing to
\* replace, else a summary that is longer than what it replaces.
Unsummarised == IF Victims(log, Keep) = {} THEN <<>> ELSE <<Reporting>>

\* Before the first request the view may also be under the threshold.  After
\* an overflow a compaction that replaces nothing fails the run.
WithoutCompaction ==
    /\ phase = "compact"
    /\ writes = <<>>
    /\ IF loop.asks = 0
       THEN writes' \in {<<>>} \cup (IF HasCompactor THEN {Unsummarised} ELSE {})
       ELSE writes' = Append(Unsummarised, Fatal)
    /\ phase' = IF loop.asks = 0 THEN "ask" ELSE "leave"
    /\ UNCHANGED <<durable, lapsed, cur, queue, kept, loop, issued, exit, crashes>>

\* Slip: the summary is not held against the budget.
checkMainOnly(l) == TRUE

MayCompact(l) == check(l)

\* The summary is charged before its event; the file it is in is not modelled.
compact ==
    /\ phase = "compact"
    /\ writes = <<>>
    /\ HasCompactor
    /\ MayCompact(log)
    /\ Victims(log, Keep) # {}
    /\ \E cost \in Costs :
          writes' = <<Charge(cost), Appending(CompactionEvent(Victims(log, Keep)))>>
    /\ phase' = "ask"
    /\ UNCHANGED <<durable, lapsed, cur, queue, kept, loop, issued, exit, crashes>>

\* BudgetExceeded of a compaction is raised outside the handler of _call_model
\* and ends the process.
CompactionOverBudget ==
    /\ phase = "compact"
    /\ writes = <<>>
    /\ HasCompactor
    /\ Victims(log, Keep) # {}
    /\ ~MayCompact(log)
    /\ phase' = "down"
    /\ exit' = "raised"
    /\ loop' = AtRest
    /\ UNCHANGED <<durable, lapsed, writes, cur, queue, kept, issued, crashes>>

AskOverBudget ==
    /\ phase = "ask"
    /\ writes = <<>>
    /\ ~check(log)
    /\ writes' = <<Fatal>>
    /\ phase' = "leave"
    /\ UNCHANGED <<durable, lapsed, cur, queue, kept, loop, issued, exit, crashes>>

\* A request that does not fit is tried once more, after a compaction.
AskOverflows ==
    /\ phase = "ask"
    /\ writes = <<>>
    /\ check(log)
    /\ loop' = [loop EXCEPT !.asks = @ + 1]
    /\ IF HasCompactor /\ loop.asks = 0
       THEN phase' = "compact" /\ writes' = <<>>
       ELSE phase' = "leave" /\ writes' = <<Fatal>>
    /\ UNCHANGED <<durable, lapsed, cur, queue, kept, issued, exit, crashes>>

\* The requests of a message carry the ids after those already used.
Batches ==
    {b \in UNION {[1..n -> Requests] : n \in 0..MaxBatch} :
        \A i \in DOMAIN b : b[i].call = issued + i /\ b[i].call \in Originals}

\* The reply is charged; if that reaches the limit it is thrown away and the
\* run fails, else the message is recorded, with nothing about its calls.
AskReplies ==
    /\ phase = "ask"
    /\ writes = <<>>
    /\ check(log)
    /\ \E b \in Batches, cost \in Costs :
          /\ issued' = issued + Len(b)
          /\ IF check(Append(log, ChargeEvent(cost)))
             THEN /\ phase' = "drive"
                  /\ writes' = <<Charge(cost), Appending(AgentMessage(b = <<>>))>>
                  /\ loop' = [loop EXCEPT !.batch = b]
             ELSE /\ phase' = "leave"
                  /\ writes' = <<Charge(cost), Fatal>>
                  /\ UNCHANGED loop
    /\ UNCHANGED <<durable, lapsed, cur, queue, kept, exit, crashes>>

-----------------------------------------------------------------------------
(* The calls of a message, and the checkpoint at the end of its turn        *)

NextOfBatch ==
    /\ phase = "drive"
    /\ loop.stage = "turn"
    /\ writes = <<>>
    /\ loop.batch # <<>>
    /\ execute(Head(loop.batch))
    /\ loop' = [loop EXCEPT !.batch = Tail(@), !.done = @ \cup {Head(loop.batch).call}]
    /\ UNCHANGED <<durable, lapsed, queue, kept, issued, exit, crashes>>

\* Slip: the call at the gate counts as a task that was completed.
DoneAtGateKept == loop.done

DoneAtGate == loop.done \ {cur.call}

\* InterruptSignal: the calls after the one at the gate are given up.
JudgeCall ==
    /\ phase = "judge"
    /\ \E o \in Outcomes(cur) :
          /\ Judged(o)
          /\ loop' = IF o = "asked"
                     THEN [loop EXCEPT !.batch = <<>>, !.interrupted = TRUE,
                                       !.done = DoneAtGate]
                     ELSE loop
    /\ UNCHANGED <<kept, issued, exit, crashes>>

\* A new checkpoint id; the task outputs under it are stored first.
_commit ==
    /\ phase = "drive"
    /\ loop.stage = "turn"
    /\ writes = <<>>
    /\ loop.batch = <<>>
    /\ writes' = <<PutWrites(loop.done), PutCheckpoint>>
    /\ phase' = IF loop.interrupted \/ Ended(log) THEN "leave" ELSE "turn"
    /\ taskWrites' = {}
    /\ UNCHANGED <<durable, lapsed, cur, queue, checkpoint, loop, issued, exit, crashes>>

\* Slip: the status is stored only when the run waits.
StatusAtExitAtGate == IF HasPending(log) THEN <<Refresh>> ELSE <<>>

StatusAtExit == <<Refresh>>

\* The end of _drive stores the status.
Leave ==
    /\ phase = "leave"
    /\ writes = <<>>
    /\ writes' = StatusAtExit
    /\ phase' = "return"
    /\ UNCHANGED <<durable, lapsed, cur, queue, kept, loop, issued, exit, crashes>>

WriteCheckpoint ==
    /\ phase # "down"
    /\ writes # <<>>
    /\ \/ /\ Head(writes).kind = "tasks"
          /\ taskWrites' = Head(writes).tasks
          /\ UNCHANGED checkpoint
       \/ /\ Head(writes).kind = "checkpoint"
          /\ checkpoint' = [tasks |-> taskWrites, last |-> Len(log)]
          /\ UNCHANGED taskWrites
    /\ writes' = Tail(writes)
    /\ UNCHANGED <<durable, lapsed, phase, cur, queue, loop, issued, exit, crashes>>

-----------------------------------------------------------------------------

Pipeline ==
    /\ \/ Write
       \/ ToolReturns
       \/ _handle_tool_failure
       \/ resume_open_calls
       \/ DriveNext
    /\ UNCHANGED <<kept, loop, issued, exit, crashes>>

Process ==
    \/ Pipeline
    \/ JudgeCall
    \/ AfterRecovery
    \/ Turn
    \/ WithoutCompaction
    \/ compact
    \/ CompactionOverBudget
    \/ AskOverBudget
    \/ AskOverflows
    \/ AskReplies
    \/ NextOfBatch
    \/ _commit
    \/ WriteCheckpoint
    \/ Leave
    \/ Return

Human == \E d \in Decisions, a \in Args, s \in Scopes : approve(d, a, s)

Clock == TimePasses /\ UNCHANGED <<kept, loop, issued, exit, crashes>>

Next == start \/ resume \/ Human \/ Process \/ Clock \/ Crash

Spec == Init /\ [][Next]_vars

\* A process runs to its end, a run that is not over is resumed, and a run
\* that waits is answered.
Fairness ==
    /\ WF_vars(Process)
    /\ WF_vars(start)
    /\ WF_vars(resume /\ ~NothingToDo)
    /\ SF_vars(Human)

FairSpec == Spec /\ Fairness
=============================================================================
