----------------------------- MODULE McpServer ------------------------------
(***************************************************************************)
(* The governed tool server of integrations/mcp_server.py on one run       *)
(* directory: a client asks for tools to be called, a human answers the    *)
(* approval gate, the process may be killed at any point and is started    *)
(* again on the same directory.  All execution goes through ToolExecutor.  *)
(*                                                                         *)
(* The server handles one request at a time: handle_tools_call is a plain  *)
(* function on one event loop and one database connection.                 *)
(***************************************************************************)
EXTENDS ToolExecutor

CONSTANT MaxCrashes     \* bound on how often the process is killed

ASSUME MaxCrashesIsNat == MaxCrashes \in Nat

VARIABLES
    provisioned, \* the rows of ensure_run that exist: "run", "branch"
    crashes      \* how often the process was killed so far

vars == <<log, rows, effects, runStatus, lapsed, phase, writes, cur, queue,
          provisioned, crashes>>

Phases == {"down", "resume", "drive", "judge", "effect", "idle"}

Init ==
    /\ log = <<>>
    /\ rows = [c \in Calls |-> NoRow]
    /\ effects = [c \in Calls |-> <<>>]
    /\ runStatus = "running"
    /\ lapsed = {}
    /\ phase = "down"
    /\ writes = <<>>
    /\ cur = NoRequest
    /\ queue = {}
    /\ provisioned = {}
    /\ crashes = 0

-----------------------------------------------------------------------------
(* Starting *)

Provision(row) == [kind |-> "provision", row |-> row]

\* Each part of ensure_run is made only where it is missing.
ensure_run ==
    (IF "run" \in provisioned THEN <<>> ELSE <<Provision("run")>>)
    \o (IF "branch" \in provisioned THEN <<>> ELSE <<Provision("branch")>>)
    \o (IF log = <<>> THEN <<Appending(UserMessage)>> ELSE <<>>)

\* Slip: the server starts without driving what its predecessor left open.
PhaseAfterStartIdle == "drive"

PhaseAfterStart == "resume"

\* ensure_run, then recover_on_start: the open calls are driven again, whether
\* or not an interrupt is pending.
Start ==
    /\ phase = "down"
    /\ writes' = ensure_run
    /\ phase' = PhaseAfterStart
    /\ UNCHANGED <<durable, lapsed, cur, queue, provisioned, crashes>>

WriteProvision ==
    /\ phase # "down"
    /\ writes # <<>>
    /\ Head(writes).kind = "provision"
    /\ provisioned' = provisioned \cup {Head(writes).row}
    /\ writes' = Tail(writes)
    /\ UNCHANGED <<durable, lapsed, phase, cur, queue, crashes>>

\* The process is killed; what is durable or outside stays as it is.
Crash ==
    /\ phase # "down"
    /\ crashes < MaxCrashes
    /\ crashes' = crashes + 1
    /\ phase' = "down"
    /\ writes' = <<>>
    /\ cur' = NoRequest
    /\ queue' = {}
    /\ UNCHANGED <<durable, lapsed, provisioned>>

-----------------------------------------------------------------------------
(* Requests *)

Idle == phase = "idle" /\ writes = <<>>

\* Ids come from new_id and are fresh; they are handed out in order here.
NextId(c) ==
    /\ c \in Originals
    /\ ~Called(log, c)
    /\ \A d \in Originals : d < c => Called(log, d)

handle_tools_call(c, t, a) ==
    /\ Idle
    /\ NextId(c)
    /\ execute(Request(c, t, a))
    /\ UNCHANGED <<durable, lapsed, queue, provisioned, crashes>>

\* pending_approvals must show the interrupt's call as the current one: open,
\* of a registered tool, and of one that needs approval.
HasCurrent ==
    /\ HasPending(log)
    /\ LET c == Pending(log).call
       IN  Open(log, c) /\ ToolOf(log, c) \in NeedsApproval

\* Slip: the answer is taken whether or not the call is still open.
HasPendingOnly == HasPending(log)

Decidable == HasCurrent

\* The answer is recorded and the open calls are driven again.
_handle_approve(d, a, s) ==
    /\ Idle
    /\ Decidable
    /\ decide(d, a, s)
    /\ phase' = "resume"
    /\ UNCHANGED <<provisioned, crashes>>

\* Slip: the status is stored only when a handler ends at the gate.
EndOfHandlerAtGate == IF HasPending(log) THEN <<Refresh>> ELSE <<>>

EndOfHandler == <<Refresh>>

\* Every handler, and recovery, ends with refresh_run_status.
Finish ==
    /\ phase = "drive"
    /\ writes = <<>>
    /\ queue = {}
    /\ phase' = "idle"
    /\ writes' = EndOfHandler
    /\ UNCHANGED <<durable, lapsed, cur, queue, provisioned, crashes>>

-----------------------------------------------------------------------------

\* Steps of the running process that no one else has to cause.
Pipeline ==
    /\ \/ Write
       \/ Judge
       \/ ToolReturns
       \/ _handle_tool_failure
       \/ resume_open_calls
       \/ DriveNext
    /\ UNCHANGED <<provisioned, crashes>>

Server == Pipeline \/ WriteProvision \/ Finish

Client == \E c \in Originals, t \in Tools, a \in Args : handle_tools_call(c, t, a)

Human == \E d \in Decisions, a \in Args, s \in Scopes : _handle_approve(d, a, s)

Clock == TimePasses /\ UNCHANGED <<provisioned, crashes>>

Next == Start \/ Server \/ Client \/ Human \/ Clock \/ Crash

Spec == Init /\ [][Next]_vars

\* The process runs, is started again after it was killed, and a human in the
\* end answers the call that waits.  Nobody has to ask for anything.
Fairness == WF_vars(Server) /\ WF_vars(Start) /\ WF_vars(Human)

FairSpec == Spec /\ Fairness
=============================================================================
