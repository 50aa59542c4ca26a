---------------------------- MODULE DerivedState ----------------------------
(***************************************************************************)
(* reduce_events of harness/state.py: the one-pass fold that turns a log   *)
(* into the state of a run and into the list of broken log invariants      *)
(* INV-001 .. INV-007.  Every decision of the program is taken on its      *)
(* result.  The log here grows by any event at all, so the fold meets      *)
(* every log of up to MaxLen events, malformed ones included, and so does  *)
(* the view of the log that the model is shown (ContextView).              *)
(***************************************************************************)
EXTENDS ContextView, Trace

CONSTANTS CallIds,      \* ids a tool_call may carry
          NoId,         \* a tool_call whose id is missing or not a string
          Keep,         \* keep_recent_groups of the compaction policy
          MaxLen        \* bound on the length of the log

ASSUME NoIdIsNoCall == NoId \notin CallIds
ASSUME BoundsOfLogAreNat == MaxLen \in Nat /\ Keep \in Nat

VARIABLE log

-----------------------------------------------------------------------------
(* The fold *)

Fresh == [status |-> "running", step |-> 0, open |-> {}, closed |-> {},
          pending |-> FALSE, index |-> 0, terminal |-> FALSE, broken |-> {}]

Flag(s, code) == [s EXCEPT !.broken = @ \cup {code}]

OnMessage(s, e) ==
    IF e.final
    THEN [s EXCEPT !.step = @ + 1, !.status = "completed", !.terminal = TRUE]
    ELSE [s EXCEPT !.step = @ + 1]

OnCall(s, e) ==
    IF e.call = NoId \/ e.call \in s.open \cup s.closed
    THEN Flag(s, "INV-001")
    ELSE [s EXCEPT !.open = @ \cup {e.call}]

OnResult(s, e) ==
    IF e.call \in s.closed THEN Flag(s, "INV-003")
    ELSE IF e.call \in s.open
    THEN [s EXCEPT !.open = @ \ {e.call}, !.closed = @ \cup {e.call}]
    ELSE Flag(s, "INV-002")

OnInterrupt(s, e) ==
    IF s.pending THEN Flag(s, "INV-004")
    ELSE [s EXCEPT !.pending = TRUE, !.index = e.index, !.status = "waiting_human"]

\* Slip: an answer to another question is reported as one nobody asked for.
OnResumeUnasked(s, e) ==
    IF ~s.pending THEN Flag(s, "INV-005")
    ELSE [(IF e.index # s.index THEN Flag(s, "INV-005") ELSE s)
            EXCEPT !.pending = FALSE, !.index = 0,
                   !.status = IF @ = "waiting_human" THEN "running" ELSE @]

OnResume(s, e) ==
    IF ~s.pending THEN Flag(s, "INV-005")
    ELSE [(IF e.index # s.index THEN Flag(s, "INV-007") ELSE s)
            EXCEPT !.pending = FALSE, !.index = 0,
                   !.status = IF @ = "waiting_human" THEN "running" ELSE @]

OnEvent(s, e) ==
    CASE e.type = "agent_message" -> OnMessage(s, e)
      [] e.type = "tool_call" -> OnCall(s, e)
      [] e.type = "tool_result" -> OnResult(s, e)
      [] e.type = "interrupt" -> OnInterrupt(s, e)
      [] e.type = "resume" -> OnResume(s, e)
      [] OTHER -> s

\* Slip: an event after the end is flagged and then folded like any other.
AfterTheEndFolded(s, e) == OnEvent(Flag(s, "INV-006"), e)

AfterTheEnd(s, e) == Flag(s, "INV-006")

Reduce(s, e) ==
    IF IsFatal(e) THEN [s EXCEPT !.status = "failed", !.terminal = TRUE]
    ELSE IF IsArtifact(e) THEN s
    ELSE IF s.terminal THEN AfterTheEnd(s, e)
    ELSE OnEvent(s, e)

\* The events are taken in, one after the other.
Folded(l) ==
    LET upTo[n \in 0..Len(l)] == IF n = 0 THEN Fresh ELSE Reduce(upTo[n - 1], l[n])
    IN  upTo[Len(l)]

\* A run declared complete over open calls breaks INV-006 as a whole.
reduce_events(l) ==
    LET s == Folded(l)
    IN  IF s.status = "completed" /\ s.open # {} THEN Flag(s, "INV-006") ELSE s

-----------------------------------------------------------------------------
(* Any event may come next. *)

Events ==
    {UserMessage, AgentMessage(FALSE), AgentMessage(TRUE), ErrorEvent(FALSE), ErrorEvent(TRUE)}
    \cup {CallEvent(c, "tool", "args") : c \in CallIds \cup {NoId}}
    \cup {ResultEvent(c, "executed") : c \in CallIds}
    \cup {InterruptEvent(NoId, n) : n \in 0..1}
    \cup {ResumeEvent(n) : n \in 0..1}

Init == log = <<>>

append(e) ==
    /\ Len(log) < MaxLen
    /\ log' = Append(log, e)

compact ==
    /\ Victims(log, Keep) # {}
    /\ append(CompactionEvent(Victims(log, Keep)))

Next == (\E e \in Events : append(e)) \/ compact

Spec == Init /\ [][Next]_log

-----------------------------------------------------------------------------
(* What the fold must compute *)

\* The fold gives, for every log, the state the position-by-position reading
\* of EventLog gives: the calls that are open and closed, whether an interrupt
\* is pending and under which index, and the status of the run.
FoldAgreesWithLog ==
    LET s == reduce_events(log)
    IN  /\ s.open = {c \in CallIds : Open(log, c)}
        /\ s.closed = {c \in CallIds : Closed(log, c)}
        /\ s.pending = HasPending(log)
        /\ s.pending => s.index = Pending(log).index
        /\ s.status = RunStatus(log)

LiveOf(type) == {i \in 1..Len(log) : IsLive(log, i, type)}

\* The events that INV-001, 002, 003 and 006 name, found without the fold:
\* a repeated or nameless call, a result before its call, a second result, and
\* a tree event after the end of the run or an end that leaves a call open.
CallInvariantsExact ==
    LET s == reduce_events(log)
        before(i, type) == {j \in LiveOf(type) : j < i /\ log[j].call = log[i].call}
    IN  /\ "INV-001" \in s.broken <=>
              \E i \in LiveOf("tool_call") :
                 log[i].call = NoId \/ before(i, "tool_call") # {}
        /\ "INV-002" \in s.broken <=>
              \E i \in LiveOf("tool_result") : before(i, "tool_call") = {}
        /\ "INV-003" \in s.broken <=>
              \E i \in LiveOf("tool_result") : \E j \in before(i, "tool_result") :
                 before(j, "tool_call") # {}
        /\ "INV-006" \in s.broken <=>
              \/ \E i \in 1..Len(log) : ~IsArtifact(log[i]) /\ ~Live(log, i)
              \/ RunStatus(log) = "completed" /\ OpenCalls(log) \ {NoId} # {}

\* The events that INV-004, 005 and 007 name, found in what the log before them
\* says is pending: an interrupt on top of a question, a resume without one, and
\* a resume under another index than that of the question.
ApprovalInvariantsExact ==
    LET broken == reduce_events(log).broken
        upTo(i) == SubSeq(log, 1, i - 1)
    IN  /\ "INV-004" \in broken <=> \E i \in LiveOf("interrupt") : HasPending(upTo(i))
        /\ "INV-005" \in broken <=> \E i \in LiveOf("resume") : ~HasPending(upTo(i))
        /\ "INV-007" \in broken <=>
              \E i \in LiveOf("resume") :
                 HasPending(upTo(i)) /\ Pending(upTo(i)).index # log[i].index

\* Each of the seven codes is flagged for exactly the logs it names.
InvariantsAreExact == CallInvariantsExact /\ ApprovalInvariantsExact

\* A request never carries a call without its result or a result without its
\* call, whatever the log holds, and loses nothing it does not name
\* (context.py 3-11).
ViewIsPaired == IsPairedView(log)

\* The history a request carries is a prefix of that of every later one, up
\* to the last message, so the prefix cache reads all of it (context.py 16-21).
HistoryIsAppendOnly == IsAppendOnlyView(log)

\* On a log that breaks no invariant the trace tells what the fold decides by:
\* which calls and which wait for a human are open, how many turns there were,
\* and whether the run failed (trace.py 1-8: trace and semantics agree).
TraceAgreesWithState ==
    LET s == reduce_events(log)
        trace == build_trace(log)
        calls(spans) == {log[t.at].call : t \in spans}
        waits == Unended(trace, "human_approval")
    IN  s.broken = {} =>
            /\ calls(Unended(trace, "execute_tool")) = s.open
            /\ calls(OfKind(trace, "execute_tool")) = s.open \cup s.closed
            /\ {log[t.at].index : t \in waits} = IF s.pending THEN {s.index} ELSE {}
            /\ Cardinality(waits) <= 1
            /\ Cardinality(OfKind(trace, "chat")) = s.step
            /\ (\E t \in OfKind(trace, "error") : log[t.at].fatal) <=> s.status = "failed"
=============================================================================
