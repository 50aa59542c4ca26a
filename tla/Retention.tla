------------------------------ MODULE Retention ------------------------------
(***************************************************************************)
(* Artifacts and their collection: ArtifactStore, the views and summaries  *)
(* that put artifacts, read_artifact, and sweep of harness/artifacts.py,   *)
(* which an operator runs from the command line at any time, while the     *)
(* loop runs or not.  The loop and a sweep may each be killed at any step. *)
(*                                                                         *)
(* A result is too big for the view and an artifact of its own; a summary  *)
(* is another.  An artifact is named by its content, the call or the       *)
(* events it stands for.  The file of an artifact appears in one step (it  *)
(* is renamed into place), and the artifacts of one view in one step.      *)
(***************************************************************************)
EXTENDS ContextView

CONSTANTS
    NumResults,    \* bound on the calls of the run
    NumReads,      \* how many of them may read an artifact
    KeepGroups,    \* keep_recent_groups of the compaction policy
    MaxSweeps,     \* bound on sweeps
    MaxLoopKills   \* bound on kills of the loop

ASSUME RetentionAssumption ==
    /\ NumResults \in Nat /\ NumReads \in Nat /\ KeepGroups \in Nat
    /\ MaxSweeps \in Nat /\ MaxLoopKills \in Nat

VARIABLES
    trail,     \* the event log (durable)
    files,     \* the artifacts there are (durable)
    loopAt,    \* where the loop is
    shownRefs, \* the artifacts named in the view it built last
    asked,     \* what the model asked for: nothing, work, or an artifact to read
    sweepAt,   \* where the sweep is
    keeping,   \* the references it collected
    doomed,    \* the files it is going to unlink
    overlap,   \* the loop ran since the sweep began
    lost,      \* artifacts that such sweeps unlinked (history)
    sweeps, loopKills

retentionVars == <<trail, files, loopAt, shownRefs, asked, sweepAt, keeping, doomed, overlap,
                   lost, sweeps, loopKills>>

Result(c) == [of |-> "call", what |-> {c}]
Summary(events) == [of |-> "summary", what |-> events]
Work == [of |-> "work", what |-> {}]
NoRequestYet == [of |-> "nothing", what |-> {}]

RetentionInit ==
    /\ trail = <<UserMessage>>
    /\ files = {}
    /\ loopAt = "down" /\ shownRefs = {} /\ asked = NoRequestYet
    /\ sweepAt = "idle" /\ keeping = {} /\ doomed = {}
    /\ overlap = FALSE /\ lost = {}
    /\ sweeps = 0 /\ loopKills = 0

-----------------------------------------------------------------------------
(* The loop *)

CallsOf(l) == {i \in 1..Len(l) : l[i].type = "tool_call"}
NextCall == Cardinality(CallsOf(trail)) + 1
ReadsOf(l) == {i \in CallsOf(l) : l[i].args # Work}

\* What a view names: the big results it renders, which it stores first, and
\* the summaries.
Offloaded(l) ==
    {Result(l[i].call) : i \in {j \in ShownIn(_render_history(l)) :
        l[j].type = "tool_result" /\ l[j].status = "executed"
          /\ ArgsOf(l, l[j].call) = Work}}
Summaries(l) == {Summary(l[i].replaces) : i \in CompactionsOf(l)}

ResumeLoop ==
    /\ loopAt = "down"
    /\ loopAt' = IF OpenCalls(trail) # {} THEN "execute" ELSE "turn"
    /\ overlap' = (sweepAt # "idle")
    /\ UNCHANGED <<trail, files, shownRefs, asked, sweepAt, keeping, doomed, lost, sweeps,
                   loopKills>>

\* build: the artifact is there before the view names it.
BuildView ==
    /\ loopAt = "turn"
    /\ files' = files \cup Offloaded(trail)
    /\ shownRefs' = Offloaded(trail) \cup Summaries(trail)
    /\ loopAt' = "view"
    /\ UNCHANGED <<trail, asked, sweepAt, keeping, doomed, overlap, lost, sweeps, loopKills>>

\* compact up to its event, at window 5 of the chaos harness.
StoreSummary ==
    /\ loopAt = "view"
    /\ Victims(trail, KeepGroups) # {}
    /\ files' = files \cup {Summary(Victims(trail, KeepGroups))}
    /\ loopAt' = "summary"
    /\ UNCHANGED <<trail, shownRefs, asked, sweepAt, keeping, doomed, overlap, lost, sweeps,
                   loopKills>>

RecordSummary ==
    /\ loopAt = "summary"
    /\ trail' = Append(trail, CompactionEvent(Victims(trail, KeepGroups)))
    /\ loopAt' = "turn"
    /\ UNCHANGED <<files, shownRefs, asked, sweepAt, keeping, doomed, overlap, lost, sweeps,
                   loopKills>>

\* The model works on, or reads something the view names.
AskModel ==
    /\ loopAt = "view"
    /\ NextCall <= NumResults
    /\ asked' \in {Work} \cup (IF Cardinality(ReadsOf(trail)) < NumReads THEN shownRefs ELSE {})
    /\ trail' = Append(trail, AgentMessage(FALSE))
    /\ loopAt' = "call"
    /\ UNCHANGED <<files, shownRefs, sweepAt, keeping, doomed, overlap, lost, sweeps, loopKills>>

RecordCall ==
    /\ loopAt = "call"
    /\ trail' = Append(trail, CallEvent(NextCall, "tool", asked))
    /\ asked' = NoRequestYet
    /\ loopAt' = "execute"
    /\ UNCHANGED <<files, shownRefs, sweepAt, keeping, doomed, overlap, lost, sweeps, loopKills>>

\* get of an artifact that is not there fails, and so does the call.
ExecuteCall ==
    /\ loopAt = "execute"
    /\ \E c \in OpenCalls(trail) :
          LET found == ArgsOf(trail, c) \in files \cup {Work} IN
          trail' = Append(trail, ResultEvent(c, IF found THEN "executed" ELSE "failed"))
    /\ loopAt' = "turn"
    /\ UNCHANGED <<files, shownRefs, asked, sweepAt, keeping, doomed, overlap, lost, sweeps,
                   loopKills>>

KillLoop ==
    /\ loopAt # "down" /\ loopKills < MaxLoopKills
    /\ loopKills' = loopKills + 1
    /\ loopAt' = "down"
    /\ shownRefs' = {} /\ asked' = NoRequestYet
    /\ UNCHANGED <<trail, files, sweepAt, keeping, doomed, overlap, lost, sweeps>>

-----------------------------------------------------------------------------
(* A sweep *)

\* Slip: only the artifacts of summaries count as referenced.
SummariesOnly(l) == Summaries(l)

\* referenced_digests: every digest field of every payload, so a call that
\* reads an artifact refers to it.
referenced_digests(l) == Summaries(l) \cup {l[i].args : i \in ReadsOf(l)}

CollectReferences ==
    /\ sweepAt = "idle" /\ sweeps < MaxSweeps
    /\ sweeps' = sweeps + 1
    /\ keeping' = referenced_digests(trail)
    /\ overlap' = (loopAt # "down")
    /\ sweepAt' = "scanned"
    /\ UNCHANGED <<trail, files, loopAt, shownRefs, asked, doomed, lost, loopKills>>

\* The files are listed after the references were read.  A sweep told of other
\* run directories than the one the artifacts belong to is refused here.
ListFiles(ofThisRun) ==
    /\ sweepAt = "scanned"
    /\ doomed' = IF ofThisRun THEN files \ keeping ELSE {}
    /\ sweepAt' = IF ofThisRun THEN "unlinking" ELSE "idle"
    /\ keeping' = {}
    /\ UNCHANGED <<trail, files, loopAt, shownRefs, asked, overlap, lost, sweeps, loopKills>>

Unlink(d) ==
    /\ sweepAt = "unlinking" /\ d \in doomed
    /\ files' = files \ {d}
    /\ doomed' = doomed \ {d}
    /\ lost' = IF overlap THEN lost \cup {d} ELSE lost
    /\ UNCHANGED <<trail, loopAt, shownRefs, asked, sweepAt, keeping, overlap, sweeps, loopKills>>

\* It is done, or killed.
SweepEnds ==
    /\ sweepAt # "idle"
    /\ sweepAt' = "idle"
    /\ keeping' = {} /\ doomed' = {}
    /\ UNCHANGED <<trail, files, loopAt, shownRefs, asked, overlap, lost, sweeps, loopKills>>

RetentionNext ==
    \/ ResumeLoop \/ BuildView \/ StoreSummary \/ RecordSummary
    \/ AskModel \/ RecordCall \/ ExecuteCall \/ KillLoop
    \/ CollectReferences
    \/ \E ofThisRun \in BOOLEAN : ListFiles(ofThisRun)
    \/ \E d \in doomed : Unlink(d)
    \/ SweepEnds

RetentionSpec == RetentionInit /\ [][RetentionNext]_retentionVars

-----------------------------------------------------------------------------
(* Whatever the log refers to is stored, through kills of the loop between *)
(* the artifact and the event and kills of sweeps half way: only a sweep   *)
(* the loop overlapped with can take it, and a call that reads an artifact *)
(* its view named fails for no other reason (artifacts.py 6-8, 208-211).   *)
OnlyOverlapLoses ==
    /\ referenced_digests(trail) \ files \subseteq lost
    /\ \A i \in 1..Len(trail) :
          trail[i].type = "tool_result" /\ trail[i].status = "failed"
            => ArgsOf(trail, trail[i].call) \in lost
=============================================================================
