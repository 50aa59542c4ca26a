-------------------------------- MODULE Trace --------------------------------
(***************************************************************************)
(* build_trace of harness/trace.py: the spans a log is projected to.  The  *)
(* program keeps dictionaries from call and interrupt ids to the span they *)
(* opened last; here a span is named by the position of the event that     *)
(* opened it, and its end by that of the event that ended it, 0 while it   *)
(* is open.  Attributes other than these, clock times and export formats   *)
(* are left out.                                                           *)
(***************************************************************************)
EXTENDS EventLog

At(l, type) == {i \in 1..Len(l) : l[i].type = type}

Span(kind, i, end) == [kind |-> kind, at |-> i, end |-> end]

\* One request to the model, ended by the message it came back with.
Chats(l) == {Span("chat", i, i) : i \in At(l, "agent_message")}

\* Slip: a result ends the span that was opened last.
ResultsForLast(l, i) ==
    {j \in At(l, "tool_result") : i < j /\ At(l, "tool_call") \cap (i + 1)..j = {}}

\* The results that find the span of call i: no later span of its id is open.
ResultsFor(l, i) ==
    {j \in At(l, "tool_result") :
        /\ i < j /\ l[j].call = l[i].call
        /\ \A k \in At(l, "tool_call") \cap (i + 1)..j : l[k].call # l[i].call}

\* Each of them moves the end.
ToolSpans(l) == {Span("execute_tool", i, Max({0} \cup ResultsFor(l, i))) : i \in At(l, "tool_call")}

ResumesFor(l, i) ==
    {j \in At(l, "resume") :
        /\ i < j /\ l[j].index = l[i].index
        /\ \A k \in At(l, "interrupt") \cap (i + 1)..j : l[k].index # l[i].index}

\* A wait for a human is pending while it has no end.
HumanApprovals(l) ==
    {Span("human_approval", i, Max({0} \cup ResumesFor(l, i))) : i \in At(l, "interrupt")}

\* Facts without duration.
Points(l) == {Span(l[i].type, i, i) : i \in At(l, "compaction") \cup At(l, "error")}

build_trace(l) == Chats(l) \cup ToolSpans(l) \cup HumanApprovals(l) \cup Points(l)

\* by_kind of summary_of.
OfKind(trace, kind) == {s \in trace : s.kind = kind}
Unended(trace, kind) == {s \in OfKind(trace, kind) : s.end = 0}
=============================================================================
