----------------------------- MODULE ContextView -----------------------------
(***************************************************************************)
(* What the model is shown of a log: ViewBuilder of harness/context.py,    *)
(* and what Compactor of harness/compaction.py takes out of it.  Events    *)
(* are named by their positions, a block by the positions it renders.      *)
(*                                                                         *)
(* Of a view the history is kept; the system prompt before it, and the     *)
(* summaries and run-time facts after it, are one block each per log.      *)
(***************************************************************************)
EXTENDS EventLog, SequencesExt

-----------------------------------------------------------------------------
(* Compaction *)

CompactionsOf(l) == {i \in 1..Len(l) : l[i].type = "compaction"}
Replaced(l) == UNION {l[i].replaces : i \in CompactionsOf(l)}

TreeNodes(l) == {i \in 1..Len(l) : ~IsArtifact(l[i])}
IsMessage(e) == e.type \in {"user_message", "agent_message"}

GroupStarts(l) == {i \in TreeNodes(l) : IsMessage(l[i]) \/ i = Min(TreeNodes(l))}

\* iter_groups: a message and the tree events up to the next message.
iter_groups(l) ==
    {{j \in TreeNodes(l) : i <= j /\ \A s \in GroupStarts(l) : s <= i \/ j < s}
        : i \in GroupStarts(l)}

WholeGroups(l) == {g \in iter_groups(l) : g \cap Replaced(l) = {}}

\* What a compaction replaces: of the groups no summary stands for, all but
\* the first, which is the task, and the last keep.  It may be nothing.
Victims(l, keep) ==
    LET whole == WholeGroups(l)
        after(g) == Cardinality({h \in whole : Min(h) > Min(g)})
    IN  UNION {g \in whole : keep <= after(g) /\ after(g) < Cardinality(whole) - 1}

-----------------------------------------------------------------------------
(* Rendering: the calls of a batch and their results are held back until   *)
(* the batch ends, and then shown all together or not at all.              *)

Blank == [shown |-> <<>>, batch |-> <<>>, results |-> <<>>, dropped |-> {}, broken |-> {}]

Drop(r, at, code) ==
    [r EXCEPT !.dropped = @ \cup at, !.broken = @ \cup {code}]

Show(r, i) == [r EXCEPT !.shown = Append(@, <<i>>)]

\* batch_results, by call: the positions of results whose call is c.
ResultOf(l, r, c) == {i \in Range(r.results) : l[i].call = c}

IdsOf(l, positions) == {l[i].call : i \in Range(positions)}

flush(l, r) ==
    LET ended == [r EXCEPT !.batch = <<>>, !.results = <<>>]
        result(i) == CHOOSE j \in ResultOf(l, r, l[i].call) : TRUE
    IN  IF r.batch = <<>> THEN r
        ELSE IF IdsOf(l, r.batch) \subseteq IdsOf(l, r.results)
        THEN [ended EXCEPT !.shown =
                 Append(@, r.batch) \o [k \in DOMAIN r.batch |-> <<result(r.batch[k])>>]]
        ELSE Drop(ended, Range(r.batch) \cup Range(r.results), "VIEW-BATCH-ATOMICITY")

\* Slip: a result is taken whether or not its call is in the batch.
OnResultUnpaired(l, r, i) ==
    IF ResultOf(l, r, l[i].call) # {} THEN Drop(r, {i}, "VIEW-OBSERVATION-UNIQUENESS")
    ELSE [r EXCEPT !.results = Append(@, i)]

ShowResult(l, r, i) ==
    IF ResultOf(l, r, l[i].call) # {} THEN Drop(r, {i}, "VIEW-OBSERVATION-UNIQUENESS")
    ELSE IF l[i].call \notin IdsOf(l, r.batch) THEN Drop(r, {i}, "VIEW-PAIRING")
    ELSE [r EXCEPT !.results = Append(@, i)]

\* Slip: a batch ends with the messages of the model only.
EndsBatchAtAgent(e) == e.type = "agent_message"

\* Slip: a batch ends when a human is asked.
EndsBatchAtInterrupt(e) == IsMessage(e) \/ e.type = "interrupt"

\* Interrupt and resume come between a call and its result and do not end it.
EndsBatch(e) == IsMessage(e)

ShowEvent(l, r, i) ==
    CASE l[i].type = "tool_call" -> [r EXCEPT !.batch = Append(@, i)]
      [] l[i].type = "tool_result" -> ShowResult(l, r, i)
      [] EndsBatch(l[i]) -> Show(flush(l, r), i)
      [] OTHER -> Show(r, i)

Kept(l) == TreeNodes(l) \ Replaced(l)

\* What is kept is taken in, one event after the other.
_render_history(l) ==
    LET kept == Kept(l)
        upTo[n \in 0..Len(l)] ==
            IF n = 0 THEN Blank
            ELSE IF n \in kept THEN ShowEvent(l, upTo[n - 1], n) ELSE upTo[n - 1]
    IN  flush(l, upTo[Len(l)])

-----------------------------------------------------------------------------
(* The prefix cache *)

\* PrefixCacheModel.fetch: the blocks a request shares with the one before.
CommonBlocks(previous, current) == LongestCommonPrefix({previous, current})

-----------------------------------------------------------------------------
(* What a view must be, for any log *)

ShownAt(v, i) == {k \in DOMAIN v.shown : i \in Range(v.shown[k])}
ShownIn(v) == UNION {Range(v.shown[k]) : k \in DOMAIN v.shown}

NoCallTwice(l) ==
    \A i, j \in Kept(l) : l[i].type = "tool_call" /\ l[j].type = "tool_call" /\ i # j
        => l[i].call # l[j].call

\* Nothing is lost on the way: what is kept is shown or named as dropped.  No
\* call is shown without a result after it and no result without its call
\* before it, and when no call was recorded twice each is shown once.
IsPairedView(l) ==
    LET v == _render_history(l)
        pairs(i, j) == /\ l[i].type = "tool_call" /\ l[j].type = "tool_result"
                       /\ l[i].call = l[j].call
                       /\ \E m \in ShownAt(v, i), n \in ShownAt(v, j) : m < n
    IN  /\ ShownIn(v) \cup v.dropped = Kept(l)
        /\ ShownIn(v) \cap v.dropped = {}
        /\ v.dropped # {} => v.broken # {}
        /\ \A i \in ShownIn(v) :
              /\ l[i].type = "tool_call" => \E j \in ShownIn(v) : pairs(i, j)
              /\ l[i].type = "tool_result" => \E j \in ShownIn(v) : pairs(j, i)
              /\ NoCallTwice(l) => Cardinality(ShownAt(v, i)) = 1

\* A message fixes the history up to it: whatever is appended later leaves
\* those blocks as they are, unless a compaction replaces some of them.
IsAppendOnlyView(l) ==
    \A i \in {j \in TreeNodes(l) : IsMessage(l[j])} :
        LET then == SubSeq(l, 1, i) IN
        Replaced(then) = Replaced(l) =>
            LET before == _render_history(then).shown
            IN  CommonBlocks(before, _render_history(l).shown) = before
=============================================================================
