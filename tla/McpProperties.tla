--------------------------- MODULE McpProperties ----------------------------
(***************************************************************************)
(* What must hold of the governed tool server in particular, whatever the  *)
(* client asks, the human answers, and whenever the process is killed.     *)
(***************************************************************************)
EXTENDS McpServer, ToolProperties

TypeOK ==
    /\ \A i \in 1..Len(log) :
          log[i].type \in {"user_message", "tool_call", "tool_result", "interrupt",
                           "resume", "approval", "error"}
    /\ rows \in [Calls -> [status : RowStatuses, args : Args \cup {NoArgs}]]
    /\ effects \in [Calls -> Seq(Args)]
    /\ runStatus \in RunStatuses
    /\ lapsed \subseteq Approvals(log)
    /\ phase \in Phases
    /\ \A i \in 1..Len(writes) :
          writes[i].kind \in {"append", "insert", "update", "refresh", "provision"}
    /\ cur \in [call : Calls, tool : Tools, args : Args] \cup {NoRequest}
    /\ queue \subseteq Calls
    /\ provisioned \subseteq {"run", "branch"}
    /\ crashes \in 0..MaxCrashes

-----------------------------------------------------------------------------
(* The status and the approval gate *)

\* A server that waits for requests shows the status the log folds to.
StatusIsFresh == Idle => runStatus = RunStatus(log)

\* While the server waits for requests, a pending interrupt can be answered.
PendingIsDecidable == Idle /\ HasPending(log) => HasCurrent

\* While the server waits for requests, what is open is behind a question to
\* a human, and the call the question is about has had no effect: approval
\* comes before execution on every path, through every kill.  The question is
\* about the first of the open calls, so no call that was answered stays
\* behind one that is asked about (resume_open_calls).
WaitingHasNoEffect ==
    Idle => /\ \A c \in Calls : Open(log, c) =>
                  /\ HasPending(log)
                  /\ FirstCall(log, Pending(log).call) <= FirstCall(log, c)
            /\ HasPending(log) /\ Open(log, Pending(log).call) =>
                  effects[Pending(log).call] = <<>>

-----------------------------------------------------------------------------
(* Kills *)

\* The writes of a human's answer are under way.
AnswerInFlight ==
    \E i \in 1..Len(writes) : writes[i].kind = "append" /\ writes[i].event.type = "resume"

\* The same system with kills everywhere but between the writes of an answer.
SpecKilledElsewhere == Init /\ [][Next /\ ~(Crash /\ AnswerInFlight)]_vars

FairKilledElsewhere == SpecKilledElsewhere /\ Fairness
=============================================================================
