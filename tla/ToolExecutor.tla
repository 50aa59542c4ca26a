---------------------------- MODULE ToolExecutor ----------------------------
(***************************************************************************)
(* The execution pipeline of harness/execution.py, with the intent rows of *)
(* harness/store/tool_calls.py and the external world of fakeworld/world.  *)
(*                                                                         *)
(* One step is one durable write: an event appended to the log, a row of   *)
(* tool_calls inserted or updated, or the effect of a tool outside.  What  *)
(* the code reads between two writes is read in the step of the first      *)
(* write it leads to.  The process may be killed between any two steps.    *)
(*                                                                         *)
(* The branch a call takes through `execute` fixes the writes that remain, *)
(* so the volatile state of the process is that list (`writes`), the call  *)
(* in hand (`cur`), the open calls still to drive (`queue`) and the place  *)
(* (`phase`).  This module has the steps every driver of the pipeline      *)
(* shares; McpServer adds requests, approvals, kills and restarts.         *)
(***************************************************************************)
EXTENDS EventLog

CONSTANTS
    NumOriginals, \* bound: ids 1..NumOriginals are new_id("tc") of requests
    NumCalls,     \* bound: ids above those are `__edit1` ids, see EditOf
    Tools,        \* names a request may carry
    Registered,   \* the registry
    NeedsApproval,\* tools with requires_approval
    Probeable,    \* tools with a probe
    Args,         \* argument values (a digest is the value itself)
    Scopes,       \* bound: the scopes an answer may ask for
    Effect,       \* [Registered -> EffectClasses]
    Permitted,    \* [Registered -> SUBSET Args]: what arg_policy allows
    Tamper,       \* [Args -> Args]: the tool_tamper hook; identity without one
    Dedup, Outbox \* the two switches of the executor

EffectClasses == {"read", "write_idempotent", "write_nonidempotent"}

ASSUME BoundsAreNat == NumOriginals \in Nat /\ NumCalls \in Nat
ASSUME OriginalsAreCalls == NumOriginals \in 1..NumCalls
ASSUME RegistryIsOfTools == Registered \subseteq Tools
ASSUME AttributesAreOfRegistered ==
    /\ NeedsApproval \subseteq Registered
    /\ Probeable \subseteq Registered
    /\ Effect \in [Registered -> EffectClasses]
    /\ Permitted \in [Registered -> SUBSET Args]
ASSUME TamperIsOfArgs == Tamper \in [Args -> Args]
ASSUME ScopesAreKnown == Scopes \subseteq {"once", "session"}
ASSUME SwitchesAreBoolean == Dedup \in BOOLEAN /\ Outbox \in BOOLEAN

Calls == 1..NumCalls
Originals == 1..NumOriginals
EditOf(c) == c + NumOriginals

VARIABLES
    log,      \* events of the branch (durable)
    rows,     \* tool_calls rows by idempotency key (durable)
    effects,  \* [Calls -> Seq(Args)]: the world's ledger by key (outside)
    runStatus,\* runs.status, a summary for dashboards (durable)
    lapsed,   \* positions of approvals whose expires_at has passed
    phase,    \* where the process is; "down" when there is none
    writes,   \* the durable writes still to do on the branch taken
    cur,      \* the request in hand
    queue     \* set of open calls resume_open_calls has still to drive

durable == <<log, rows, effects, runStatus>>
volatile == <<phase, writes, cur, queue>>

-----------------------------------------------------------------------------
(* Rows and writes *)

RowStatuses == {"none", "pending", "executed", "failed", "unknown"}
NoArgs == "no args"
NoRow == [status |-> "none", args |-> NoArgs]
Requests == [call : Calls, tool : Tools, args : Args]
NoRequest == [call |-> 0, tool |-> "no tool", args |-> NoArgs]

Appending(e) == [kind |-> "append", event |-> e]
Insert(s, a) == [kind |-> "insert", status |-> s, args |-> a]
Update(s) == [kind |-> "update", status |-> s]
Refresh == [kind |-> "refresh"]

\* INSERT ... ON CONFLICT(idempotency_key) DO NOTHING
record(row, w) ==
    IF row = NoRow THEN [status |-> w.status, args |-> w.args] ELSE row

\* complete and mark_unknown: UPDATE ... WHERE idempotency_key=?
close(row, w) ==
    IF row = NoRow THEN row ELSE [row EXCEPT !.status = w.status]

RowAfter(row, w) == IF w.kind = "insert" THEN record(row, w) ELSE close(row, w)

AppendEvent ==
    /\ phase # "down"
    /\ writes # <<>>
    /\ Head(writes).kind = "append"
    /\ log' = Append(log, Head(writes).event)
    /\ writes' = Tail(writes)
    /\ UNCHANGED <<rows, effects, runStatus, lapsed, phase, cur, queue>>

WriteRow ==
    /\ phase # "down"
    /\ writes # <<>>
    /\ Head(writes).kind \in {"insert", "update"}
    /\ rows' = [rows EXCEPT ![cur.call] = RowAfter(@, Head(writes))]
    /\ writes' = Tail(writes)
    /\ UNCHANGED <<log, effects, runStatus, lapsed, phase, cur, queue>>

\* runs.status becomes what the log folds to.
RefreshStatus ==
    /\ phase # "down"
    /\ writes # <<>>
    /\ Head(writes).kind = "refresh"
    /\ runStatus' = RunStatus(log)
    /\ writes' = Tail(writes)
    /\ UNCHANGED <<log, rows, effects, lapsed, phase, cur, queue>>

Write == AppendEvent \/ WriteRow \/ RefreshStatus

Request(c, t, a) == [call |-> c, tool |-> t, args |-> a]

Recording(k) == Appending(CallEvent(k.call, k.tool, k.args))
Concluding(k, s) == Appending(ResultEvent(k.call, s))
Reporting == Appending(ErrorEvent(FALSE))

-----------------------------------------------------------------------------
(* execute, steps 1 and 2: what is known of the call, and of its tool.     *)

\* A call with a conclusion is replayed from the log.  A tool that is not
\* registered is recorded, without asking whether it already is, and failed.
\* Any other call is recorded once and goes on to be judged.
execute(k) ==
    IF Closed(log, k.call)
    THEN /\ phase' = "drive"
         /\ writes' = <<>>
         /\ cur' = NoRequest
    ELSE IF k.tool \notin Registered
    THEN /\ phase' = "drive"
         /\ writes' = <<Recording(k), Reporting, Concluding(k, "failed")>>
         /\ cur' = k
    ELSE /\ phase' = "judge"
         /\ writes' = IF Called(log, k.call) THEN <<>> ELSE <<Recording(k)>>
         /\ cur' = k

-----------------------------------------------------------------------------
(* execute, step 3: the intent row an earlier attempt left behind.         *)

Existing(k) == IF Dedup \/ Outbox THEN rows[k.call] ELSE NoRow

\* The probe reads the ledger by key; it may also fail or not know.
probe(k) == {"inconclusive", IF effects[k.call] = <<>> THEN "go" ELSE "applied"}

\* Slip: a pending row is taken for an attempt that never got to the tool.
_resolve_pending_retrying(k) == {"go"}

_resolve_pending(k) ==
    IF k.tool \in Probeable THEN probe(k) ELSE {"inconclusive"}

IntentOutcomes(k) ==
    LET row == Existing(k)
    IN  IF row = NoRow THEN {"go"}
        ELSE IF row.args # k.args THEN {"refused"}
        ELSE CASE row.status = "executed" -> {"replayed"}
               [] row.status = "unknown" -> {"unresolved"}
               [] row.status = "pending" -> _resolve_pending(k)
               [] OTHER -> {"go"}

-----------------------------------------------------------------------------
(* execute, steps 4 and 5: approval, the arguments about to be used, and   *)
(* the tool's own domain for them.                                         *)

\* Slip: any answer for these arguments will do, a refusal included.
validatesAnyDecision(k, p) == p \notin lapsed /\ log[p].args = k.args

\* find_approval has matched the call or, for a session, the tool.
validates(k, p) ==
    /\ log[p].decision = "approved"
    /\ p \notin lapsed
    /\ log[p].args = k.args

Actual(k) == Tamper[k.args]

SameAsApproved(k, p) == Actual(k) = log[p].args

\* Slip: the policy judges the arguments asked for, not those about to be used.
InDomainAsRequested(k) == k.args \in Permitted[k.tool]

InDomain(k) == Actual(k) \in Permitted[k.tool]

GateOutcome(k) ==
    LET binding == FindApproval(log, k.call, k.tool)
    IN  IF binding = {} /\ k.tool \in NeedsApproval THEN "asked"
        ELSE IF \/ \E p \in binding : ~validates(k, p) \/ ~SameAsApproved(k, p)
                \/ ~InDomain(k)
        THEN "refused"
        ELSE "run"

Outcomes(k) == {IF o = "go" THEN GateOutcome(k) ELSE o : o \in IntentOutcomes(k)}

-----------------------------------------------------------------------------
(* execute, steps 3 to 6: the writes of each outcome, in order.            *)

OutboxPath(t) == Outbox /\ Effect[t] = "write_nonidempotent"

\* Slip: the row is closed before the event that closes the call.
ClosingRowFirst(k, s, w) == <<w, Concluding(k, s)>>

\* The event first, the row second.
Closing(k, s, w) == <<Concluding(k, s), w>>

\* Slip: any earlier interrupt is taken to be still open.
_raise_interrupt_once(k) ==
    IF InterruptCount(log) > 0 THEN <<>>
    ELSE <<Appending(InterruptEvent(k.call, InterruptCount(log)))>>

\* One interrupt at a time: a call that meets the gate while another call is
\* waiting there writes nothing and stays open.
_raise_interrupt(k) ==
    IF HasPending(log) THEN <<>>
    ELSE <<Appending(InterruptEvent(k.call, InterruptCount(log)))>>

begin(k) ==
    IF OutboxPath(k.tool) /\ Existing(k) = NoRow THEN <<Insert("pending", Actual(k))>>
    ELSE <<>>

WritesOf(k, o) ==
    CASE o = "refused" -> <<Reporting, Concluding(k, "rejected")>>
      [] o = "replayed" -> <<Concluding(k, "executed")>>
      [] o = "unresolved" -> <<Concluding(k, "unknown")>>
      [] o = "inconclusive" -> <<Reporting>> \o Closing(k, "unknown", Update("unknown"))
      [] o = "applied" -> Closing(k, "executed", Update("executed"))
      [] o = "asked" -> _raise_interrupt(k)
      [] o = "run" -> begin(k)

\* Slip: an unknown effect is recorded, and then the call goes on to the tool.
NextPhaseNoReturn(o) == IF o \in {"run", "inconclusive"} THEN "effect" ELSE "drive"

\* Slip: a refusal is recorded, and then the call goes on to the tool.
NextPhaseAfterRefusal(o) == IF o \in {"run", "refused"} THEN "effect" ELSE "drive"

NextPhase(o) == IF o = "run" THEN "effect" ELSE "drive"

\* InterruptSignal leaves resume_open_calls with the rest of the queue undone.
Judged(o) ==
    /\ phase = "judge"
    /\ writes = <<>>
    /\ writes' = WritesOf(cur, o)
    /\ phase' = NextPhase(o)
    /\ queue' = IF o = "asked" THEN {} ELSE queue
    /\ UNCHANGED <<log, rows, effects, runStatus, lapsed, cur>>

Judge == phase = "judge" /\ \E o \in Outcomes(cur) : Judged(o)

-----------------------------------------------------------------------------
(* execute, step 7: the tool.                                              *)

\* A read leaves no mark, an idempotent write one mark per key at most.
apply(k) ==
    CASE Effect[k.tool] = "read" -> effects[k.call]
      [] Effect[k.tool] = "write_idempotent" ->
            IF effects[k.call] = <<>> THEN <<Actual(k)>> ELSE effects[k.call]
      [] OTHER -> Append(effects[k.call], Actual(k))

ToolReturns ==
    /\ phase = "effect"
    /\ writes = <<>>
    /\ effects' = [effects EXCEPT ![cur.call] = apply(cur)]
    /\ phase' = "drive"
    /\ writes' = Closing(cur, "executed",
                         IF OutboxPath(cur.tool) THEN Update("executed")
                         ELSE Insert("executed", Actual(cur)))
    /\ UNCHANGED <<log, rows, runStatus, lapsed, cur, queue>>

\* Slip: a tool that raised is taken to have done nothing.
FailureStatusTrusting(t) == "failed"

\* Slip: the error class is stored where the status belongs.
FailureClass(t) == "tool_error"

\* A tool may raise after its effect as well as before.
FailureStatus(t) == IF OutboxPath(t) THEN "unknown" ELSE "failed"

_handle_tool_failure ==
    /\ phase = "effect"
    /\ writes = <<>>
    /\ \E after \in {effects[cur.call], apply(cur)} :
            effects' = [effects EXCEPT ![cur.call] = after]
    /\ phase' = "drive"
    /\ writes' = <<Reporting>> \o
                 Closing(cur, FailureStatus(cur.tool),
                         IF OutboxPath(cur.tool) THEN Update(FailureStatus(cur.tool))
                         ELSE Insert(FailureStatus(cur.tool), Actual(cur)))
    /\ UNCHANGED <<log, rows, runStatus, lapsed, cur, queue>>

-----------------------------------------------------------------------------
(* resume_open_calls: the calls open when it begins, in the order of the    *)
(* log.  The order of two calls never changes, so the list is kept as a set *)
(* and the earliest of it is driven next.                                   *)

resume_open_calls ==
    /\ phase = "resume"
    /\ writes = <<>>
    /\ queue' = OpenCalls(log)
    /\ phase' = "drive"
    /\ UNCHANGED <<log, rows, effects, runStatus, lapsed, writes, cur>>

DriveNext ==
    /\ phase = "drive"
    /\ writes = <<>>
    /\ \E c \in LeastInLogOrder(log, queue) :
        /\ execute(Request(c, ToolOf(log, c), ArgsOf(log, c)))
        /\ queue' = queue \ {c}
    /\ UNCHANGED <<log, rows, effects, runStatus, lapsed>>

-----------------------------------------------------------------------------
(* decide: a human's answer to the pending interrupt.  What the driver does *)
(* next (phase') is the driver's.                                           *)

Decisions == {"approved", "rejected"}

\* Slip: a rejection is recorded but its interrupt stays pending.
ResumeUnlessRejected(d) ==
    IF d = "rejected" THEN <<>> ELSE <<Appending(ResumeEvent(Pending(log).index))>>

ResumeWrites(d) == <<Appending(ResumeEvent(Pending(log).index))>>

\* A rejection concludes the call.  Other arguments conclude it as superseded
\* and record a new call for them, so that the approval binds to a new key.
DecideWrites(k, d, a, s) ==
    LET edited == a # k.args
        target == IF edited THEN EditOf(k.call) ELSE k.call
        facts == IF d = "rejected" THEN <<Concluding(k, "rejected")>>
                 ELSE IF edited
                 THEN <<Concluding(k, "superseded"), Recording(Request(target, k.tool, a))>>
                 ELSE <<>>
    IN  facts \o <<Appending(ApprovalEvent(target, k.tool, a, d, s))>> \o ResumeWrites(d)

decide(d, a, s) ==
    LET c == Pending(log).call
        k == Request(c, ToolOf(log, c), ArgsOf(log, c))
    IN  /\ HasPending(log)
        /\ a # k.args => d = "approved" /\ EditOf(c) \in Calls
        /\ writes' = DecideWrites(k, d, a, s)
        /\ UNCHANGED <<log, rows, effects, runStatus, lapsed, cur, queue>>

\* expires_at of the approval at position p goes by.
TimePasses ==
    \E p \in Approvals(log) \ lapsed :
        /\ lapsed' = lapsed \cup {p}
        /\ UNCHANGED <<durable, volatile>>
=============================================================================
