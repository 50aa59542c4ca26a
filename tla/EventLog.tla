------------------------------ MODULE EventLog ------------------------------
(***************************************************************************)
(* The event log of one branch and what the program reads out of it.       *)
(*                                                                         *)
(* harness/store keeps a run as an append-only sequence of events;         *)
(* harness/execution.py, harness/loop.py and integrations/mcp_server.py    *)
(* never hold the state of a run: they refold the log on every question.   *)
(* This module has the event constructors and the questions, each stated   *)
(* over positions of the log.  Module DerivedState holds the program's     *)
(* own one-pass fold; that run checks the two agree on every log.          *)
(*                                                                         *)
(* Payload text, token usage, hashes and ids other than the call id are    *)
(* left out.  A digest of arguments (args_sha256) is the argument itself.  *)
(***************************************************************************)
EXTENDS Naturals, Sequences, FiniteSetsExt

Statuses == {"executed", "failed", "unknown", "rejected", "superseded"}
RunStatuses == {"running", "waiting_human", "completed", "failed"}

-----------------------------------------------------------------------------
(* Events *)

UserMessage == [type |-> "user_message"]
AgentMessage(final) == [type |-> "agent_message", final |-> final]
CallEvent(c, t, a) == [type |-> "tool_call", call |-> c, tool |-> t, args |-> a]
ResultEvent(c, s) == [type |-> "tool_result", call |-> c, status |-> s]
InterruptEvent(c, n) == [type |-> "interrupt", call |-> c, index |-> n]
ResumeEvent(n) == [type |-> "resume", index |-> n]
ChargeEvent(cost) == [type |-> "budget_update", cost |-> cost]
CompactionEvent(replaced) == [type |-> "compaction", replaces |-> replaced]
ErrorEvent(fatal) == [type |-> "error", fatal |-> fatal]
ApprovalEvent(c, t, a, d, s) ==
    [type |-> "approval", call |-> c, tool |-> t, args |-> a,
     decision |-> d, scope |-> s]

IsArtifact(e) == e.type \in {"error", "approval", "budget_update", "compaction"}
IsFatal(e) == e.type = "error" /\ e.fatal
IsFinal(e) == e.type = "agent_message" /\ e.final

-----------------------------------------------------------------------------
(* A tree event that follows a terminal one is recorded and ignored.       *)

Live(l, i) == \A j \in 1..(i - 1) : ~IsFatal(l[j]) /\ ~IsFinal(l[j])

IsCall(l, i, c) ==
    /\ i \in 1..Len(l)
    /\ l[i].type = "tool_call"
    /\ l[i].call = c
    /\ Live(l, i)

IsResult(l, i, c) ==
    /\ i \in 1..Len(l)
    /\ l[i].type = "tool_result"
    /\ l[i].call = c
    /\ Live(l, i)

\* The call was recorded: it is open or closed.
Called(l, c) == \E i \in 1..Len(l) : IsCall(l, i, c)

\* A result counts only after the call it answers.
Closed(l, c) ==
    \E i \in 1..Len(l) : IsResult(l, i, c) /\ \E j \in 1..(i - 1) : IsCall(l, j, c)

Open(l, c) == Called(l, c) /\ ~Closed(l, c)

OpenCalls(l) == {c \in {l[i].call : i \in {j \in 1..Len(l) : l[j].type = "tool_call"}} :
                    Open(l, c)}

FirstCall(l, c) ==
    CHOOSE i \in 1..Len(l) :
        /\ l[i].type = "tool_call"
        /\ l[i].call = c
        /\ \A j \in 1..(i - 1) : l[j].type = "tool_call" => l[j].call # c

\* The request a call id stands for is what its first tool_call event says.
ToolOf(l, c) == l[FirstCall(l, c)].tool
ArgsOf(l, c) == l[FirstCall(l, c)].args

\* Slip: the calls are taken in the order of their ids, which is any order.
InAnyOrder(l, S) == S

\* open_calls_in_log_order: of the calls S, the one the log has first.
LeastInLogOrder(l, S) == {c \in S : \A d \in S : FirstCall(l, c) <= FirstCall(l, d)}

-----------------------------------------------------------------------------
(* Interrupts: the pending one is the first that no resume follows.        *)

IsLive(l, i, type) == l[i].type = type /\ Live(l, i)

PendingInterrupts(l) ==
    {i \in 1..Len(l) :
        /\ IsLive(l, i, "interrupt")
        /\ \A j \in (i + 1)..Len(l) : ~IsLive(l, j, "resume")
        /\ \A j \in 1..(i - 1) : IsLive(l, j, "interrupt") =>
                \E k \in (j + 1)..(i - 1) : IsLive(l, k, "resume")}

HasPending(l) == PendingInterrupts(l) # {}
Pending(l) == l[CHOOSE i \in PendingInterrupts(l) : TRUE]

InterruptCount(l) == Cardinality({i \in 1..Len(l) : l[i].type = "interrupt"})

RunStatus(l) ==
    IF \E i \in 1..Len(l) : IsFatal(l[i]) THEN "failed"
    ELSE IF \E i \in 1..Len(l) : IsFinal(l[i]) THEN "completed"
    ELSE IF HasPending(l) THEN "waiting_human"
    ELSE "running"

-----------------------------------------------------------------------------
(* Approvals *)

Approvals(l) == {i \in 1..Len(l) : l[i].type = "approval"}

Exact(l, c) == {i \in Approvals(l) : l[i].call = c}
Reusable(l, t) == {i \in Approvals(l) : l[i].scope = "session" /\ l[i].tool = t}
Granted(l, S) == {i \in S : l[i].decision = "approved"}

\* The binding a call is judged by: its own before a session's, granted
\* before refused, the latest of equals.  Empty when there is none.
FindApproval(l, c, t) ==
    LET tiers == <<Granted(l, Exact(l, c)), Exact(l, c),
                   Granted(l, Reusable(l, t)), Reusable(l, t)>>
        some == {n \in 1..4 : tiers[n] # {}}
    IN  IF some = {} THEN {} ELSE {Max(tiers[Min(some)])}
=============================================================================
