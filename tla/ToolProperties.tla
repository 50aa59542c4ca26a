--------------------------- MODULE ToolProperties ---------------------------
(***************************************************************************)
(* What must hold of the execution pipeline whoever drives it: the tool    *)
(* server (McpServer) or the agent loop (AgentLoop).                       *)
(***************************************************************************)
EXTENDS ToolExecutor

-----------------------------------------------------------------------------
(* Effects *)

IsRegistered(c) == Called(log, c) /\ ToolOf(log, c) \in Registered

Guarded(c) == IsRegistered(c) /\ OutboxPath(ToolOf(log, c))

\* A non-idempotent write behind the outbox takes effect once at most under
\* its key, however often the process is killed and the call driven again.
EffectAtMostOnce == \A c \in Calls : Guarded(c) => Len(effects[c]) <= 1

\* Whatever an approval-gated tool did outside was granted by a human: for
\* this call, or for the session with this tool, and with these arguments,
\* even when something changes the arguments after the approval.
EffectsWereApproved ==
    \A c \in Calls : effects[c] # <<>> /\ ToolOf(log, c) \in NeedsApproval =>
        \A n \in 1..Len(effects[c]) : \E p \in Approvals(log) :
            /\ log[p].decision = "approved"
            /\ log[p].args = effects[c][n]
            /\ \/ log[p].call = c
               \/ log[p].scope = "session" /\ log[p].tool = ToolOf(log, c)

\* No tool runs on arguments outside the domain it declares, whoever approved
\* them and whatever replaced them after the approval.
EffectsArePermitted ==
    \A c \in Calls : \A n \in 1..Len(effects[c]) : effects[c][n] \in Permitted[ToolOf(log, c)]

\* A call with a conclusion takes effect no more: a late retry, a second
\* recovery or an answer of the human never reaches the tool again.
NoEffectAfterConclusion ==
    [][\A c \in Calls : Closed(log, c) => effects'[c] = effects[c]]_durable

-----------------------------------------------------------------------------
(* Rows and conclusions *)

\* inv_closed_calls of opsenv/oracle.py: a row is closed only after the event
\* that closes the call, so no crash leaves a closed row without a result.
ClosedRowHasResult ==
    \A c \in Calls : rows[c].status \in {"executed", "failed", "unknown"} => Closed(log, c)

\* A closed row stays what it is: in particular an unknown effect is never
\* turned into a retry or into a success by a later drive.
ClosedRowsAreFinal ==
    [][\A c \in Calls : rows[c].status \in {"executed", "failed", "unknown"} =>
            rows'[c] = rows[c]]_durable

\* The conclusion of a call, as replayed to whoever asks again.
VerdictOf(c) ==
    IF ~Called(log, c) THEN "absent"
    ELSE IF ~Closed(log, c) THEN "open"
    ELSE log[CHOOSE i \in 1..Len(log) :
                /\ IsResult(log, i, c)
                /\ \A j \in 1..(i - 1) : ~IsResult(log, j, c)].status

KindOf(c) ==
    IF ~Called(log, c) THEN "none"
    ELSE IF ~IsRegistered(c) THEN "inert"
    ELSE CASE Effect[ToolOf(log, c)] = "read" -> "inert"
           [] Effect[ToolOf(log, c)] = "write_idempotent" -> "deduplicated"
           [] OTHER -> IF Outbox THEN "guarded" ELSE "bare"

Promise == INSTANCE ToolPromise WITH
    verdict <- [c \in Calls |-> VerdictOf(c)],
    kind <- [c \in Calls |-> KindOf(c)],
    applied <- [c \in Calls |-> Len(effects[c])]

\* The driver implements the promise: calls are recorded, take effect while
\* open and are concluded once, truthfully, across every crash and recovery.
KeepsPromise == Promise!Spec

-----------------------------------------------------------------------------
(* The log *)

Fold == INSTANCE DerivedState WITH CallIds <- Calls, NoId <- 0, Keep <- 0, MaxLen <- 0

\* No driver ever writes a log that breaks INV-001 .. INV-007 of docs/semantics.md.
LogInvariantsHold == Fold!reduce_events(log).broken = {}

-----------------------------------------------------------------------------
\* A call that was recorded is concluded in the end: a queued call waits
\* behind the one at the gate, it is not dropped.
EveryCallConcludes == \A c \in Calls : Open(log, c) ~> Closed(log, c)
=============================================================================
