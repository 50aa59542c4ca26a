----------------------------- MODULE LoopProofs ------------------------------
(***************************************************************************)
(* Proofs about the agent loop, for every registry, every model, every     *)
(* budget and any number of turns, answers, expiries and kills.  What      *)
(* holds of the pipeline whoever drives it is proved in ToolProofs; here   *)
(* are the loop's own steps: which calls are fresh, what passes the gate,  *)
(* when nothing is open, what the model is shown there, and what the fold  *)
(* makes of the log the loop writes.                                       *)
(***************************************************************************)
EXTENDS LoopProperties, ToolProofs, ViewProofs

-----------------------------------------------------------------------------
(* Turns and batches *)

Busy == {"drive", "judge", "effect"}

LoopTyped ==
    /\ phase \in Phases
    /\ issued \in Nat
    /\ loop \in [stage : {"recovery", "turn"}, batch : Seq(Requests), done : SUBSET Calls,
                 interrupted : BOOLEAN, asks : Nat, turns : 0..MaxSteps]
    /\ checkpoint \in [tasks : SUBSET Calls, last : Nat]
    /\ taskWrites \subseteq Calls

\* Where the loop is, and what it has in hand there.
PlaceInv ==
    /\ phase = "down" => loop = AtRest /\ writes = <<>> /\ queue = {}
    /\ phase = "resume" => loop.stage = "recovery"
    /\ phase \in {"turn", "compact", "ask"} => loop.stage = "turn"
    /\ queue # {} => phase \in Busy /\ loop.stage = "recovery"
    /\ loop.batch # <<>> => phase \in Busy /\ loop.stage = "turn"
    /\ \A i \in 1..Len(writes) :
          writes[i].kind = "append" /\ writes[i].event.type = "resume" => phase = "return"

\* The run goes on, and nothing on the way to the log ends it.
Lasting ==
    /\ GoesOn(log)
    /\ \A i \in 1..Len(writes) : writes[i].kind = "append" => ~EndsRun(writes[i].event)

\* While there is a call to drive, a request to make or an answer to wait for.
RunLasts ==
    \/ phase \in {"resume", "judge", "effect", "compact", "ask"}
    \/ queue # {}
    \/ loop.batch # <<>>
    \/ HasPending(log)
    \/ WillAsk
    => Lasting

\* The ids of a batch come after all that was recorded, or is about to be.
BatchIsFresh ==
    LET n == Len(loop.batch)
    IN  /\ \A i \in 1..n :
              loop.batch[i].call + n = issued + i /\ loop.batch[i].call \in Originals
        /\ \A c \in Originals : Called(log, c) => c + n <= issued
        /\ \A i \in 1..Len(writes), c \in Originals :
              IsRecordingOf(writes[i], c) => c + n <= issued

\* While a call waits at the gate nothing is driven and the model not asked.
NothingPassesGate ==
    /\ HasPending(log) \/ WillAsk =>
          /\ queue = {} /\ loop.batch = <<>>
          /\ phase \in {"down", "drive", "leave", "return"}
          /\ phase = "drive" => loop.interrupted
    /\ loop.interrupted =>
          /\ queue = {} /\ loop.batch = <<>>
          /\ phase \in {"drive", "leave", "return"}
          /\ phase = "drive" => HasPending(log) \/ WillAsk
          /\ phase = "leave" => HasPending(log)
    /\ WillAsk => phase = "drive" /\ Len(writes) = 1

\* A question is put before any effect of the call it is about.
QuestionHasNoEffect ==
    /\ HasPending(log) => effects[Pending(log).call] = <<>>
    /\ \A i \in 1..Len(writes) : IsAsking(writes[i]) => effects[writes[i].event.call] = <<>>

TurnInv == PlaceInv /\ RunLasts /\ BatchIsFresh /\ NothingPassesGate /\ QuestionHasNoEffect

LoopInv == ToolInv /\ GateInv /\ LoopTyped /\ TurnInv

-----------------------------------------------------------------------------
(* What the loop writes itself *)

OwnItems ==
    {w \in WriteItems :
        \/ w.kind \in {"refresh", "tasks", "checkpoint"}
        \/ w.kind = "append" /\ w.event.type \in
              {"user_message", "agent_message", "budget_update", "compaction", "error"}}

LEMMA AppendedLists ==
    ASSUME NEW S, NEW x \in S, NEW y \in S
    PROVE  Append(<<>>, x) = <<x>> /\ Append(<<y>>, x) = <<y, x>>
<1>1. ASSUME NEW s \in Seq(S), NEW t \in Seq(S), Len(t) = Len(s) + 1,
             \A i \in 1..Len(s) : t[i] = s[i], t[Len(s) + 1] = x
      PROVE  Append(s, x) = t
    <2> DEFINE u == Append(s, x)
    <2>1. /\ u \in Seq(S) /\ Len(u) = Len(s) + 1 /\ Len(s) \in Nat
          /\ \A i \in 1..Len(s) : u[i] = s[i]
          /\ u[Len(s) + 1] = x
        BY AppendProperties
    <2>2. \A i \in 1..Len(u) : i \in 1..Len(s) \/ i = Len(s) + 1
        BY <2>1
    <2> HIDE DEF u
    <2>3. u = t
        BY <1>1, <2>1, <2>2, SeqEqual
    <2> QED BY <2>3 DEF u
<1>2. /\ <<>> \in Seq(S) /\ <<y>> \in Seq(S) /\ <<x>> \in Seq(S) /\ <<y, x>> \in Seq(S)
      /\ Len(<<>>) = 0 /\ Len(<<x>>) = 1 /\ Len(<<y>>) = 1 /\ Len(<<y, x>>) = 2
      /\ <<x>>[1] = x /\ <<y>>[1] = y /\ <<y, x>>[1] = y /\ <<y, x>>[2] = x
    OBVIOUS
<1>3. Append(<<>>, x) = <<x>>
    BY <1>1, <1>2
<1>4. Append(<<y>>, x) = <<y, x>>
    <2> DEFINE s == <<y>>
               t == <<y, x>>
    <2>1. s \in Seq(S) /\ t \in Seq(S) /\ Len(s) = 1 /\ Len(t) = 2 /\ t[1] = s[1] /\ t[2] = x
        BY <1>2
    <2> HIDE DEF s, t
    <2>2. /\ Len(t) = Len(s) + 1 /\ t[Len(s) + 1] = x
          /\ \A i \in 1..Len(s) : t[i] = s[i]
        BY <2>1
    <2>3. Append(s, x) = t
        BY <1>1, <2>1, <2>2
    <2> QED BY <2>3 DEF s, t
<1> QED BY <1>3, <1>4

LEMMA OwnItemsAre ==
    /\ Appending(UserMessage) \in OwnItems
    /\ \A b \in BOOLEAN : Appending(AgentMessage(b)) \in OwnItems
    /\ \A b \in BOOLEAN : Appending(ErrorEvent(b)) \in OwnItems
    /\ Reporting \in OwnItems /\ Fatal \in OwnItems
    /\ \A cost \in Nat : Charge(cost) \in OwnItems
    /\ \A v \in SUBSET Nat : Appending(CompactionEvent(v)) \in OwnItems
    /\ Refresh \in OwnItems
    /\ PutCheckpoint \in OwnItems
    /\ \A t \in SUBSET Calls : PutWrites(t) \in OwnItems
<1>1. /\ UserMessage \in LoggedEvents
      /\ \A b \in BOOLEAN : AgentMessage(b) \in LoggedEvents /\ ErrorEvent(b) \in LoggedEvents
    BY DEF UserMessage, AgentMessage, ErrorEvent, LoggedEvents
<1>2. \A cost \in Nat : ChargeEvent(cost) \in LoggedEvents
    BY DEF ChargeEvent, LoggedEvents
<1>3. \A v \in SUBSET Nat : CompactionEvent(v) \in LoggedEvents
    BY DEF CompactionEvent, LoggedEvents
<1>4. \A e \in LoggedEvents : e.type \in
          {"user_message", "agent_message", "budget_update", "compaction", "error"} =>
              Appending(e) \in OwnItems
    BY WritesAreItems, WhatWritesDo DEF OwnItems
<1>5. /\ Appending(UserMessage) \in OwnItems
      /\ \A b \in BOOLEAN : Appending(AgentMessage(b)) \in OwnItems
      /\ \A b \in BOOLEAN : Appending(ErrorEvent(b)) \in OwnItems
    BY <1>1, <1>4 DEF UserMessage, AgentMessage, ErrorEvent
<1>6. \A cost \in Nat : Charge(cost) \in OwnItems
    BY <1>2, <1>4 DEF Charge, ChargeEvent
<1>7. \A v \in SUBSET Nat : Appending(CompactionEvent(v)) \in OwnItems
    BY <1>3, <1>4 DEF CompactionEvent
<1>8. Refresh \in OwnItems
    BY WritesAreItems, WhatWritesDo DEF OwnItems
<1>9. PutCheckpoint \in OwnItems
    BY DEF PutCheckpoint, OwnItems, WriteItems
<1>10. \A t \in SUBSET Calls : PutWrites(t) \in OwnItems
    BY DEF PutWrites, OwnItems, WriteItems
<1> QED BY <1>5, <1>6, <1>7, <1>8, <1>9, <1>10 DEF Reporting, Fatal

LEMMA OwnItemsDo ==
    /\ \A w \in OwnItems : /\ ~IsRowWrite(w) /\ ~IsConclusion(w) /\ ~IsAsking(w)
                           /\ \A c : ~IsRecordingOf(w, c) /\ ~IsConclusionOf(w, c)
                           /\ ~(w.kind = "append" /\ w.event.type \in {"resume", "approval"})
    /\ ~EndsRun(Reporting.event)
    /\ ~EndsRun(Appending(UserMessage).event)
    /\ \A cost : ~EndsRun(Charge(cost).event)
    /\ \A v : ~EndsRun(Appending(CompactionEvent(v)).event)
    /\ ~EndsRun(Appending(AgentMessage(FALSE)).event)
    /\ Refresh.kind # "append" /\ PutCheckpoint.kind # "append"
    /\ \A t : PutWrites(t).kind # "append"
<1>1. \A w \in OwnItems : /\ ~IsRowWrite(w) /\ ~IsConclusion(w) /\ ~IsAsking(w)
                          /\ \A c : ~IsRecordingOf(w, c) /\ ~IsConclusionOf(w, c)
                          /\ ~(w.kind = "append" /\ w.event.type \in {"resume", "approval"})
    BY DEF OwnItems, IsRowWrite, IsConclusion, IsAsking, IsRecordingOf, IsConclusionOf
<1>2. ~EndsRun(Reporting.event)
    BY PipelineGoesOn
<1>3. /\ ~EndsRun(Appending(UserMessage).event)
      /\ \A cost : ~EndsRun(Charge(cost).event)
      /\ \A v : ~EndsRun(Appending(CompactionEvent(v)).event)
    BY PipelineGoesOn DEF Appending, UserMessage, Charge, ChargeEvent, CompactionEvent
<1>4. ~EndsRun(Appending(AgentMessage(FALSE)).event)
    BY DEF Appending, AgentMessage, EndsRun, IsFatal, IsFinal
<1>5. /\ Refresh.kind # "append" /\ PutCheckpoint.kind # "append"
      /\ \A t : PutWrites(t).kind # "append"
    BY DEF Refresh, PutCheckpoint, PutWrites
<1> QED BY <1>1, <1>2, <1>3, <1>4, <1>5

\* What a step of the loop leaves to write: two items at most, the first of
\* which never ends the run.
LEMMA OwnWrites ==
    ASSUME log' = log, NEW v \in OwnItems, NEW w \in OwnItems,
           v.kind = "append" => ~EndsRun(v.event),
           writes' \in {<<>>, <<w>>, <<v, w>>},
           GoesOn(log) \/ (v.kind # "append" /\ w.kind # "append") \/ writes' = <<>>
    PROVE  /\ writes' \in Seq(OwnItems)
           /\ EndComesLast'
           /\ GoesOn(log) /\ (w.kind = "append" => ~EndsRun(w.event)) => Lasting'
<1>1. writes' \in Seq(OwnItems)
    BY ShortLists
<1>2. CASE writes' = <<>>
    BY <1>1, <1>2 DEF EndComesLast, Lasting
<1>3. CASE writes' = <<w>>
    <2>1. Len(writes') = 1 /\ writes'[1] = w
        BY <1>3
    <2>2. \A i \in 1..Len(writes') : i = 1
        BY <2>1
    <2> QED BY <1>1, <1>3, <2>1, <2>2 DEF EndComesLast, Lasting
<1>4. CASE writes' = <<v, w>>
    <2>1. Len(writes') = 2 /\ writes'[1] = v /\ writes'[2] = w
        BY <1>4
    <2>2. \A i \in 1..Len(writes') : i = 1 \/ (i = 2 /\ ~\E j \in (i + 1)..Len(writes') : TRUE)
        BY <2>1
    <2> QED BY <1>1, <1>4, <2>1, <2>2 DEF EndComesLast, Lasting
<1> QED BY <1>1, <1>2, <1>3, <1>4
\* A run has ended if and only if its log has an event that ends it.
LEMMA EndedIs ==
    ASSUME NEW l
    PROVE  /\ Ended(l) <=> ~GoesOn(l)
           /\ HasPending(l) /\ GoesOn(l) => RunStatus(l) = "waiting_human"
           /\ ~HasPending(l) /\ GoesOn(l) => RunStatus(l) = "running"
           /\ RunStatus(l) \in RunStatuses
BY DEF Ended, RunStatus, GoesOn, EndsRun, RunStatuses

\* What a compaction replaces is a set of positions.
LEMMA VictimsAre ==
    ASSUME NEW l \in Logs
    PROVE  Victims(l, Keep) \in SUBSET Nat
<1>1. TreeNodes(l) \subseteq Nat
    BY AllLive DEF TreeNodes
<1>2. \A g \in WholeGroups(l) : g \subseteq TreeNodes(l)
    BY DEF WholeGroups, iter_groups
<1> QED BY <1>1, <1>2 DEF Victims

-----------------------------------------------------------------------------
(* The loop's own steps *)

OwnStep ==
    /\ UNCHANGED <<log, rows, effects, runStatus, lapsed>>
    /\ phase' \in Phases \ {"judge", "effect"}
    /\ cur' \in {cur, NoRequest}
    /\ queue' = {}
    /\ writes' \in Seq(OwnItems)
    /\ EndComesLast'

LEMMA OwnStepKeeps ==
    ASSUME ToolInv, GateInv, OwnStep
    PROVE  ToolInv' /\ GateInv'
<1>1. writes' \in Seq(WriteItems)
    BY DEF OwnStep, OwnItems
<1>2. \A i \in 1..Len(writes') : writes'[i] \in OwnItems
    BY ElementOfSeq DEF OwnStep
<1>3. ToolInv'
    BY <1>1, <1>2, OwnItemsDo, DriverStepKeeps DEF OwnStep
<1>4. GateInv'
    BY OthersAllow DEF OwnStep
<1> QED BY <1>3, <1>4

\* Such a step goes from where nothing is in hand to where nothing is.
LEMMA OwnStepTurns ==
    ASSUME LoopInv, OwnStep, LoopTyped', loop'.batch = <<>>, issued <= issued',
           phase' \in {"resume", "compact", "ask"} => Lasting',
           HasPending(log) => Lasting' /\ phase' \in {"down", "leave", "return"},
           phase' = "down" => loop' = AtRest /\ writes' = <<>>,
           phase' = "resume" => loop'.stage = "recovery",
           phase' \in {"turn", "compact", "ask"} => loop'.stage = "turn",
           loop'.interrupted => phase' = "return" \/ (phase' = "leave" /\ HasPending(log))
    PROVE  LoopInv'
<1>1. \A i \in 1..Len(writes') : writes'[i] \in OwnItems
    BY ElementOfSeq DEF OwnStep
<1>2. \A i \in 1..Len(writes') :
          /\ ~IsAsking(writes'[i])
          /\ \A c : ~IsRecordingOf(writes'[i], c)
          /\ ~(writes'[i].kind = "append" /\ writes'[i].event.type = "resume")
    BY <1>1, OwnItemsDo
<1>3. ~WillAsk'
    BY <1>2 DEF WillAsk
<1>4. queue' = {} /\ log' = log /\ effects' = effects /\ phase' \notin {"judge", "effect"}
    BY DEF OwnStep
<1>5. PlaceInv'
    BY <1>2, <1>4 DEF PlaceInv
<1>6. RunLasts'
    BY <1>3, <1>4 DEF RunLasts
<1>7. BatchIsFresh'
    <2>1. Len(loop'.batch) = 0
        OBVIOUS
    <2>2. Len(loop.batch) \in Nat /\ issued \in Nat /\ issued' \in Nat /\ Originals \subseteq Nat
        BY DEF LoopInv, LoopTyped, Originals
    <2>3. \A c \in Originals : Called(log, c) => c + Len(loop.batch) <= issued
        BY DEF LoopInv, TurnInv, BatchIsFresh
    <2>4. \A c \in Originals : Called(log, c) => c + 0 <= issued'
        BY <2>2, <2>3
    <2> QED BY <1>2, <1>4, <2>1, <2>4 DEF BatchIsFresh
<1>8. NothingPassesGate'
    BY <1>3, <1>4 DEF NothingPassesGate
<1>9. QuestionHasNoEffect'
    BY <1>2, <1>4 DEF LoopInv, TurnInv, QuestionHasNoEffect
<1>10. ToolInv' /\ GateInv'
    BY OwnStepKeeps DEF LoopInv
<1> QED BY <1>5, <1>6, <1>7, <1>8, <1>9, <1>10 DEF LoopInv, TurnInv

\* Where nothing is driven, nothing is in hand.
LEMMA NothingInHand ==
    ASSUME LoopInv
    PROVE  /\ phase \notin Busy => queue = {} /\ loop.batch = <<>>
           /\ phase \in {"resume", "turn", "compact", "ask"} => ~HasPending(log)
           /\ phase \notin {"drive", "leave", "return"} => ~loop.interrupted
           /\ phase \in {"resume", "compact", "ask"} => GoesOn(log)
           /\ HasPending(log) => GoesOn(log)
           /\ phase = "down" => loop = AtRest /\ writes = <<>>
BY DEF LoopInv, TurnInv, PlaceInv, RunLasts, Lasting, NothingPassesGate

\* The processes of a run: how they begin and end.
LEMMA TurnsOfProcess ==
    ASSUME LoopInv, start \/ resume \/ Return \/ Crash \/ CompactionOverBudget
    PROVE  LoopInv' /\ OwnStep
<1> DEFINE u == Appending(UserMessage)
<1>1. u \in OwnItems /\ (u.kind = "append" => ~EndsRun(u.event))
    BY OwnItemsAre, OwnItemsDo
<1>2. /\ UNCHANGED <<log, rows, effects, runStatus, lapsed, issued, checkpoint, taskWrites>>
      /\ cur' \in {cur, NoRequest}
      /\ phase' \in {"turn", "resume", "return", "down"}
    BY DEF start, resume, Return, Crash, CompactionOverBudget, durable, kept
<1>3. queue' = {} /\ loop'.batch = <<>>
    BY NothingInHand DEF start, resume, Return, Crash, CompactionOverBudget, AtRest, Busy
<1>4. \/ writes' = <<>> /\ phase' # "turn"
      \/ writes' = <<u>> /\ log = <<>> /\ phase' = "turn"
    BY NothingInHand DEF start, resume, Return, Crash, CompactionOverBudget
<1>5. log = <<>> => GoesOn(log) /\ ~HasPending(log)
    BY DEF GoesOn, HasPending, PendingInterrupts
<1> HIDE DEF u
<1>6. writes' \in Seq(OwnItems) /\ EndComesLast' /\ (GoesOn(log) => Lasting')
    BY <1>1, <1>2, <1>4, <1>5, OwnWrites
<1>7. OwnStep
    BY <1>2, <1>3, <1>6 DEF OwnStep, Phases
<1>8. \/ loop' = AtRest
      \/ loop' = [AtRest EXCEPT !.stage = "turn"] /\ phase' = "turn"
    BY DEF start, resume, Return, Crash, CompactionOverBudget
<1>9. LoopTyped'
    <2>1. <<>> \in Seq(Requests) /\ {} \in SUBSET Calls /\ 0 \in 0..MaxSteps
        BY ShortLists, LoopBoundsAreNat
    <2>2. loop' \in [stage : {"recovery", "turn"}, batch : Seq(Requests), done : SUBSET Calls,
                     interrupted : BOOLEAN, asks : Nat, turns : 0..MaxSteps]
        <3>1. AtRest \in [stage : {"recovery", "turn"}, batch : Seq(Requests),
                          done : SUBSET Calls, interrupted : BOOLEAN, asks : Nat,
                          turns : 0..MaxSteps]
            BY <2>1 DEF AtRest
        <3> QED BY <1>8, <3>1
    <2> QED BY <1>2, <2>2 DEF LoopInv, LoopTyped, Phases
<1>10. phase' = "resume" => GoesOn(log) /\ ~HasPending(log)
    BY EndedIs DEF start, resume, Return, Crash, CompactionOverBudget, NothingToDo
<1>11. HasPending(log) => GoesOn(log) /\ phase' # "turn"
    BY <1>4, <1>5, NothingInHand
<1>12. issued <= issued'
    BY <1>2 DEF LoopInv, LoopTyped
<1>13. phase' = "down" => loop' = AtRest
    BY <1>8
<1>14. /\ ~loop'.interrupted
       /\ phase' = "resume" => loop'.stage = "recovery"
       /\ phase' = "turn" => loop'.stage = "turn"
    BY <1>4, <1>8 DEF start, resume, Return, Crash, CompactionOverBudget, AtRest
<1>15. LoopInv'
    BY <1>2, <1>3, <1>4, <1>6, <1>7, <1>9, <1>10, <1>11, <1>12, <1>13, <1>14, OwnStepTurns
<1> QED BY <1>7, <1>15

\* The end of recovery, of a turn and of the loop.
LEMMA TurnsOfLoop ==
    ASSUME LoopInv, AfterRecovery \/ _commit \/ Leave
    PROVE  LoopInv' /\ OwnStep
<1> DEFINE p == PutWrites(loop.done)
<1>1. /\ p \in OwnItems /\ PutCheckpoint \in OwnItems /\ Refresh \in OwnItems
      /\ p.kind # "append" /\ PutCheckpoint.kind # "append" /\ Refresh.kind # "append"
    BY OwnItemsAre, OwnItemsDo DEF LoopInv, LoopTyped
<1>2. /\ UNCHANGED <<log, rows, effects, runStatus, lapsed, cur, queue, issued, checkpoint>>
      /\ taskWrites' \in {{}, taskWrites}
      /\ writes = <<>>
      /\ phase' \in {"turn", "leave", "return"}
    BY DEF AfterRecovery, _commit, Leave, durable, kept, PhaseAfterRecovery
<1>3. queue' = {} /\ loop'.batch = <<>>
    BY NothingInHand DEF AfterRecovery, _commit, Leave, Busy, LoopInv, LoopTyped, TurnInv, PlaceInv
<1> HIDE DEF p
<1>4. \/ writes' = <<>> \/ writes' = <<PutCheckpoint>> \/ writes' = <<p, PutCheckpoint>>
      \/ writes' = <<Refresh>>
    BY DEF AfterRecovery, _commit, Leave, StatusAtExit, p
<1>5. writes' \in Seq(OwnItems) /\ EndComesLast' /\ (GoesOn(log) => Lasting')
    <2>1. CASE writes' = <<Refresh>>
        BY <1>1, <1>2, <2>1, OwnWrites
    <2>2. CASE writes' # <<Refresh>>
        BY <1>1, <1>2, <1>4, <2>2, OwnWrites
    <2> QED BY <2>1, <2>2
<1>6. OwnStep
    BY <1>2, <1>3, <1>5 DEF OwnStep, Phases
<1>7. loop' = loop \/ loop' = [loop EXCEPT !.stage = "turn"]
    BY DEF AfterRecovery, _commit, Leave
<1>8. LoopTyped'
    BY <1>2, <1>7 DEF LoopInv, LoopTyped, Phases
<1>9. loop.interrupted => phase' = "return" \/ (phase' = "leave" /\ HasPending(log))
    BY DEF AfterRecovery, _commit, Leave, PhaseAfterRecovery, LoopInv, TurnInv,
           NothingPassesGate, WillAsk
<1>10. HasPending(log) => GoesOn(log) /\ phase' \in {"leave", "return"}
    BY NothingInHand DEF AfterRecovery, _commit, Leave, PhaseAfterRecovery, LoopInv, TurnInv,
           NothingPassesGate
<1>11. phase' = "turn" => loop'.stage = "turn"
    BY <1>7 DEF AfterRecovery, _commit, Leave, LoopInv, LoopTyped
<1>12. issued <= issued' /\ loop'.interrupted = loop.interrupted
    BY <1>2, <1>7 DEF LoopInv, LoopTyped
<1>13. LoopInv'
    BY <1>2, <1>3, <1>5, <1>6, <1>8, <1>9, <1>10, <1>11, <1>12, OwnStepTurns
<1> QED BY <1>6, <1>13

\* From the top of a turn to the request.
LEMMA TurnsToAsk ==
    ASSUME LoopInv, Turn \/ WithoutCompaction \/ compact \/ AskOverBudget \/ AskOverflows
    PROVE  LoopInv' /\ OwnStep
<1>1. /\ UNCHANGED <<log, rows, effects, runStatus, lapsed, cur, queue, issued, checkpoint,
                     taskWrites>>
      /\ writes = <<>> /\ phase \in {"turn", "compact", "ask"}
      /\ phase' \in {"compact", "ask", "leave"}
    BY DEF Turn, WithoutCompaction, compact, AskOverBudget, AskOverflows, durable, kept
<1>2. /\ queue' = {} /\ loop.batch = <<>> /\ ~HasPending(log) /\ ~loop.interrupted
      /\ loop.stage = "turn"
      /\ phase \in {"compact", "ask"} => GoesOn(log)
    BY <1>1, NothingInHand DEF Busy, LoopInv, TurnInv, PlaceInv
<1>3. /\ loop' \in [stage : {"recovery", "turn"}, batch : Seq(Requests), done : SUBSET Calls,
                    interrupted : BOOLEAN, asks : Nat, turns : 0..MaxSteps]
      /\ loop'.batch = loop.batch /\ loop'.interrupted = loop.interrupted
      /\ loop'.stage = loop.stage
    <2>1. loop \in [stage : {"recovery", "turn"}, batch : Seq(Requests), done : SUBSET Calls,
                    interrupted : BOOLEAN, asks : Nat, turns : 0..MaxSteps]
        BY DEF LoopInv, LoopTyped
    <2>2. CASE Turn
        <3>1. \/ loop' = loop
              \/ /\ loop' = [loop EXCEPT !.turns = @ + 1, !.asks = 0, !.done = {}]
                 /\ loop.turns + 1 \in 0..MaxSteps
            BY <2>1, <2>2, LoopBoundsAreNat DEF Turn
        <3>2. CASE loop' = loop
            BY <2>1, <3>2
        <3>3. CASE /\ loop' = [loop EXCEPT !.turns = @ + 1, !.asks = 0, !.done = {}]
                   /\ loop.turns + 1 \in 0..MaxSteps
            BY <2>1, <3>3
        <3> QED BY <3>1, <3>2, <3>3
    <2>3. CASE AskOverflows
        BY <2>1, <2>3 DEF AskOverflows
    <2>4. CASE WithoutCompaction \/ compact \/ AskOverBudget
        BY <2>1, <2>4 DEF WithoutCompaction, compact, AskOverBudget
    <2> QED BY <2>2, <2>3, <2>4
<1>4. Reporting \in OwnItems /\ Fatal \in OwnItems /\ ~EndsRun(Reporting.event)
    BY OwnItemsAre, OwnItemsDo
<1>5. /\ writes' \in Seq(OwnItems) /\ EndComesLast'
      /\ phase' \in {"compact", "ask"} => Lasting'
    <2>1. CASE writes' = <<>> /\ (phase' \in {"compact", "ask"} => GoesOn(log))
        <3>1. Lasting' <=> GoesOn(log)
            BY <1>1, <2>1 DEF Lasting
        <3> QED BY <1>1, <1>4, <2>1, <3>1, OwnWrites
    <2>2. CASE phase' = "ask" /\ writes' = <<Reporting>> /\ GoesOn(log)
        BY <1>1, <1>4, <2>2, OwnWrites
    <2>3. CASE phase' = "leave" /\ writes' \in {<<Fatal>>, <<Reporting, Fatal>>} /\ GoesOn(log)
        BY <1>1, <1>4, <2>3, OwnWrites
    <2>4. CASE compact
        <3>1. PICK cost \in Costs :
                  writes' = <<Charge(cost), Appending(CompactionEvent(Victims(log, Keep)))>>
            BY <2>4 DEF compact
        <3>2. log \in Logs /\ cost \in Nat /\ GoesOn(log)
            BY <1>2, <2>4, CostsAreNat DEF compact, LoopInv, ToolInv, Typed
        <3> DEFINE x == Charge(cost)
                   y == Appending(CompactionEvent(Victims(log, Keep)))
        <3>3. x \in OwnItems /\ y \in OwnItems /\ ~EndsRun(x.event) /\ ~EndsRun(y.event)
            BY <3>2, VictimsAre, OwnItemsAre, OwnItemsDo
        <3> HIDE DEF x, y
        <3> QED BY <1>1, <3>1, <3>2, <3>3, OwnWrites DEF x, y
    <2>5. CASE Turn
        BY <2>1, <2>5, EndedIs DEF Turn
    <2>6. CASE WithoutCompaction
        <3>1. Unsummarised \in {<<>>, <<Reporting>>}
            BY DEF Unsummarised
        <3>2. /\ Append(<<>>, Fatal) = <<Fatal>>
              /\ Append(<<Reporting>>, Fatal) = <<Reporting, Fatal>>
            BY <1>4, AppendedLists
        <3>3. CASE loop.asks = 0
            BY <1>2, <2>1, <2>2, <2>6, <3>1, <3>3 DEF WithoutCompaction
        <3>4. CASE loop.asks # 0
            BY <1>2, <2>3, <2>6, <3>1, <3>2, <3>4 DEF WithoutCompaction
        <3> QED BY <3>3, <3>4
    <2>7. CASE AskOverBudget \/ AskOverflows
        BY <1>2, <2>1, <2>3, <2>7 DEF AskOverBudget, AskOverflows
    <2> QED BY <2>4, <2>5, <2>6, <2>7
<1>6. OwnStep
    BY <1>1, <1>2, <1>5 DEF OwnStep, Phases
<1>7. LoopTyped' /\ issued <= issued'
    BY <1>1, <1>3 DEF LoopInv, LoopTyped, Phases
<1>8. LoopInv'
    BY <1>1, <1>2, <1>3, <1>5, <1>6, <1>7, OwnStepTurns
<1> QED BY <1>6, <1>8

LEMMA BatchesAre ==
    ASSUME NEW b \in Batches
    PROVE  /\ b \in Seq(Requests) /\ Len(b) \in Nat
           /\ \A i \in 1..Len(b) : b[i].call = issued + i /\ b[i].call \in Originals
<1>1. PICK n \in 0..MaxBatch : b \in [1..n -> Requests]
    BY DEF Batches
<1>2. n \in Nat /\ DOMAIN b = 1..n
    BY <1>1, LoopBoundsAreNat
<1>3. b \in Seq(Requests) /\ Len(b) = n
    BY <1>1, <1>2, IsASeq
<1> QED BY <1>2, <1>3 DEF Batches

\* The reply of the model: a batch of calls under fresh ids, or the end.
LEMMA Replies ==
    ASSUME LoopInv, AskReplies
    PROVE  LoopInv' /\ OwnStep
<1>1. PICK b \in Batches, cost \in Costs :
          /\ issued' = issued + Len(b)
          /\ \/ /\ phase' = "drive"
                /\ writes' = <<Charge(cost), Appending(AgentMessage(b = <<>>))>>
                /\ loop' = [loop EXCEPT !.batch = b]
             \/ /\ phase' = "leave"
                /\ writes' = <<Charge(cost), Fatal>>
                /\ loop' = loop
    BY DEF AskReplies
<1>2. /\ UNCHANGED <<log, rows, effects, runStatus, lapsed, cur, queue, checkpoint, taskWrites>>
      /\ writes = <<>> /\ phase = "ask"
    BY DEF AskReplies, durable, kept
<1>3. /\ queue' = {} /\ loop.batch = <<>> /\ ~HasPending(log) /\ ~loop.interrupted
      /\ loop.stage = "turn" /\ GoesOn(log)
    BY <1>2, NothingInHand DEF Busy, LoopInv, TurnInv, PlaceInv
<1>4. /\ b \in Seq(Requests) /\ Len(b) \in Nat /\ issued \in Nat
      /\ \A i \in 1..Len(b) : b[i].call = issued + i /\ b[i].call \in Originals
      /\ cost \in Nat
    BY BatchesAre, CostsAreNat DEF LoopInv, LoopTyped
<1> DEFINE x == Charge(cost)
           y == Appending(AgentMessage(b = <<>>))
<1>5. /\ x \in OwnItems /\ y \in OwnItems /\ Fatal \in OwnItems
      /\ ~EndsRun(x.event)
      /\ b # <<>> => ~EndsRun(y.event)
    <2>1. (b = <<>>) \in BOOLEAN /\ (b # <<>> => (b = <<>>) = FALSE)
        OBVIOUS
    <2> QED BY <1>4, <2>1, OwnItemsAre, OwnItemsDo
<1> HIDE DEF x, y
<1>6. /\ writes' \in Seq(OwnItems) /\ EndComesLast'
      /\ phase' = "drive" /\ b # <<>> => Lasting'
    <2>1. CASE phase' = "drive"
        <3>1. writes' = <<x, y>>
            BY <1>1, <2>1 DEF x, y
        <3> QED BY <1>2, <1>3, <1>5, <3>1, OwnWrites
    <2>2. CASE phase' = "leave"
        <3>1. writes' = <<x, Fatal>>
            BY <1>1, <2>2 DEF x
        <3> QED BY <1>2, <1>3, <1>5, <2>2, <3>1, OwnWrites
    <2> QED BY <1>1, <2>1, <2>2
<1>7. OwnStep
    BY <1>1, <1>2, <1>3, <1>6 DEF OwnStep, Phases
<1>8. LoopTyped' /\ issued <= issued'
    <2>1. loop \in [stage : {"recovery", "turn"}, batch : Seq(Requests), done : SUBSET Calls,
                    interrupted : BOOLEAN, asks : Nat, turns : 0..MaxSteps]
        BY DEF LoopInv, LoopTyped
    <2>2. loop' \in [stage : {"recovery", "turn"}, batch : Seq(Requests), done : SUBSET Calls,
                     interrupted : BOOLEAN, asks : Nat, turns : 0..MaxSteps]
        BY <1>1, <1>4, <2>1
    <2>3. issued' \in Nat /\ issued <= issued'
        BY <1>1, <1>4
    <2> QED BY <1>1, <1>2, <2>2, <2>3 DEF LoopInv, LoopTyped, Phases
<1>9. CASE phase' = "leave"
    <2>1. loop' = loop
        BY <1>1, <1>9
    <2> QED BY <1>3, <1>7, <1>8, <1>9, <2>1, OwnStepTurns
<1>10. CASE phase' = "drive"
    <2>1. loop' = [loop EXCEPT !.batch = b] /\ loop'.batch = b /\ loop'.stage = "turn"
          /\ ~loop'.interrupted
        BY <1>1, <1>3, <1>10 DEF LoopInv, LoopTyped
    <2>2. \A i \in 1..Len(writes') : writes'[i] \in OwnItems
        BY <1>6, ElementOfSeq
    <2>3. \A i \in 1..Len(writes') :
              /\ ~IsAsking(writes'[i])
              /\ \A c : ~IsRecordingOf(writes'[i], c)
              /\ ~(writes'[i].kind = "append" /\ writes'[i].event.type = "resume")
        BY <2>2, OwnItemsDo
    <2>4. ~WillAsk'
        BY <2>3 DEF WillAsk
    <2>5. PlaceInv'
        BY <1>3, <1>10, <2>1, <2>3 DEF PlaceInv, Busy
    <2>6. RunLasts'
        BY <1>2, <1>3, <1>6, <1>10, <2>1, <2>4 DEF RunLasts
    <2>7. BatchIsFresh'
        <3>1. Len(loop.batch) = 0
            BY <1>3
        <3>2. \A c \in Originals : Called(log, c) => c + Len(loop.batch) <= issued
            BY DEF LoopInv, TurnInv, BatchIsFresh
        <3>3. \A c \in Originals : c \in Nat
            BY DEF Originals
        <3>4. \A c \in Originals : Called(log, c) => c + Len(b) <= issued'
            BY <1>1, <1>4, <3>1, <3>2, <3>3
        <3>5. \A i \in 1..Len(b) : b[i].call + Len(b) = issued' + i
            BY <1>1, <1>4
        <3> QED BY <1>2, <1>4, <2>1, <2>3, <3>4, <3>5 DEF BatchIsFresh
    <2>8. NothingPassesGate'
        BY <1>2, <1>3, <2>1, <2>4 DEF NothingPassesGate
    <2>9. QuestionHasNoEffect'
        BY <1>2, <1>3, <2>3 DEF QuestionHasNoEffect
    <2>10. ToolInv' /\ GateInv'
        BY <1>7, OwnStepKeeps DEF LoopInv
    <2>11. LoopInv'
        BY <1>8, <2>5, <2>6, <2>7, <2>8, <2>9, <2>10 DEF LoopInv, TurnInv
    <2> QED BY <1>7, <2>11
<1> QED BY <1>1, <1>7, <1>9, <1>10

LEMMA LoopResumes ==
    ASSUME LoopInv, resume_open_calls, UNCHANGED <<kept, loop, issued>>
    PROVE  LoopInv'
<1>1. /\ UNCHANGED <<log, effects, writes, cur>> /\ phase = "resume" /\ phase' = "drive"
      /\ writes = <<>> /\ UNCHANGED <<loop, issued, checkpoint, taskWrites>>
    BY DEF resume_open_calls, kept
<1>2. /\ loop.batch = <<>> /\ loop.stage = "recovery" /\ ~loop.interrupted
      /\ ~HasPending(log) /\ GoesOn(log)
    BY <1>1, NothingInHand DEF LoopInv, TurnInv, PlaceInv, Busy
<1>3. ToolInv' /\ GateInv'
    BY <1>1, ResumeOpenCallsKeeps, OthersAllow DEF LoopInv
<1>4. LoopTyped'
    BY <1>1 DEF LoopInv, LoopTyped, Phases
<1>5. Lasting' /\ ~WillAsk'
    BY <1>1, <1>2 DEF Lasting, WillAsk
<1>6. PlaceInv'
    BY <1>1, <1>2 DEF PlaceInv, Busy
<1>7. BatchIsFresh'
    BY <1>1 DEF LoopInv, TurnInv, BatchIsFresh
<1>8. NothingPassesGate' /\ QuestionHasNoEffect'
    BY <1>1, <1>2, <1>5 DEF NothingPassesGate, QuestionHasNoEffect
<1> QED BY <1>3, <1>4, <1>5, <1>6, <1>7, <1>8 DEF LoopInv, TurnInv, RunLasts

-----------------------------------------------------------------------------
(* Writes *)

\* A write that is no event shortens the list and leaves the rest as it is.
LEMMA OtherWriteTurns ==
    ASSUME LoopInv, writes # <<>>, writes' = Tail(writes), Head(writes).kind # "append",
           UNCHANGED <<log, effects, phase, queue, loop, issued>>
    PROVE  TurnInv'
<1>1. /\ Head(writes) = writes[1] /\ Len(writes') = Len(writes) - 1 /\ Len(writes) \in Nat \ {0}
      /\ \A i \in 1..Len(writes') : i + 1 \in 1..Len(writes) /\ writes'[i] = writes[i + 1]
    BY RestOfWrites DEF LoopInv
<1>2. \A j \in 2..Len(writes) : j - 1 \in 1..Len(writes') /\ writes'[j - 1] = writes[j]
    BY RestWaits DEF LoopInv
<1>3. WillAsk' <=> WillAsk
    <2>1. WillAsk' => WillAsk
        BY <1>1 DEF WillAsk
    <2>2. WillAsk => WillAsk'
        BY RestWaits DEF LoopInv, IsAsking
    <2> QED BY <2>1, <2>2
<1>4. ~WillAsk'
    <2>1. ASSUME WillAsk PROVE FALSE
        <3>1. Len(writes) = 1
            BY <2>1 DEF LoopInv, TurnInv, NothingPassesGate
        <3> QED BY <1>1, <2>1, <3>1 DEF WillAsk, IsAsking
    <2> QED BY <1>3, <2>1
<1>5. Lasting => Lasting'
    BY <1>1 DEF Lasting
<1>6. PlaceInv'
    BY <1>1 DEF LoopInv, TurnInv, PlaceInv
<1>7. RunLasts'
    BY <1>3, <1>5 DEF LoopInv, TurnInv, RunLasts
<1>8. BatchIsFresh'
    BY <1>1 DEF LoopInv, TurnInv, BatchIsFresh
<1>9. NothingPassesGate'
    BY <1>3, <1>4 DEF LoopInv, TurnInv, NothingPassesGate
<1>10. QuestionHasNoEffect'
    BY <1>1 DEF LoopInv, TurnInv, QuestionHasNoEffect
<1> QED BY <1>6, <1>7, <1>8, <1>9, <1>10 DEF TurnInv

LEMMA AppendEventTurns ==
    ASSUME LoopInv, AppendEvent, UNCHANGED <<loop, issued>>
    PROVE  TurnInv'
<1> DEFINE e == Head(writes).event
<1>1. /\ writes # <<>> /\ Head(writes).kind = "append" /\ writes' = Tail(writes)
      /\ UNCHANGED <<effects, phase, queue>> /\ phase # "down" /\ ToolInv
    BY DEF AppendEvent, LoopInv
<1>2. /\ e \in LoggedEvents /\ log \in Logs /\ GoesOn(log) /\ log' = Append(log, e)
      /\ GoesOn(log)' <=> ~EndsRun(e)
      /\ \A c : Called(log', c) <=> Called(log, c) \/ (e.type = "tool_call" /\ e.call = c)
    BY <1>1, AppendEventLog
<1>3. /\ Head(writes) = writes[1] /\ Len(writes') = Len(writes) - 1 /\ Len(writes) \in Nat \ {0}
      /\ \A i \in 1..Len(writes') : i + 1 \in 1..Len(writes) /\ writes'[i] = writes[i + 1]
    BY <1>1, RestOfWrites
<1>4. WillAsk' => WillAsk
    BY <1>3 DEF WillAsk
<1>5. Lasting => Lasting'
    BY <1>1, <1>2, <1>3 DEF Lasting
<1>6. HasPending(log') \/ WillAsk' => HasPending(log) \/ WillAsk
    <2>1. ASSUME HasPending(log'), ~HasPending(log) PROVE WillAsk
        <3>1. e.type = "interrupt"
            BY <1>2, <2>1, AppendPending
        <3> QED BY <1>1, <1>3, <3>1 DEF WillAsk, IsAsking
    <2> QED BY <1>4, <2>1
<1>7. e.type = "resume" => phase = "return"
    BY <1>1, <1>3 DEF LoopInv, TurnInv, PlaceInv
<1>8. (HasPending(log) \/ WillAsk) /\ phase # "return" => HasPending(log')
    <2>1. CASE HasPending(log) /\ phase # "return"
        BY <1>2, <1>7, <2>1, AppendPending
    <2>2. CASE WillAsk /\ ~HasPending(log)
        <3>1. IsAsking(Head(writes))
            <4>1. Len(writes) = 1
                BY <2>2 DEF LoopInv, TurnInv, NothingPassesGate
            <4> QED BY <1>3, <2>2, <4>1 DEF WillAsk
        <3> QED BY <1>2, <2>2, <3>1, AppendPending DEF IsAsking
    <2> QED BY <2>1, <2>2
<1>9. PlaceInv'
    BY <1>1, <1>3 DEF LoopInv, TurnInv, PlaceInv
<1>10. RunLasts'
    BY <1>1, <1>5, <1>6 DEF LoopInv, TurnInv, RunLasts
<1>11. BatchIsFresh'
    <2>1. /\ \A c \in Originals : Called(log, c) => c + Len(loop.batch) <= issued
          /\ \A i \in 1..Len(writes), c \in Originals :
                IsRecordingOf(writes[i], c) => c + Len(loop.batch) <= issued
        BY DEF LoopInv, TurnInv, BatchIsFresh
    <2>2. \A c : e.type = "tool_call" /\ e.call = c => IsRecordingOf(writes[1], c)
        BY <1>1, <1>3 DEF IsRecordingOf
    <2>3. \A c \in Originals : Called(log', c) => c + Len(loop.batch) <= issued
        BY <1>2, <1>3, <2>1, <2>2
    <2> QED BY <1>3, <2>1, <2>3 DEF LoopInv, TurnInv, BatchIsFresh
<1>12. NothingPassesGate'
    <2>1. ~WillAsk'
        BY <1>3, <1>4 DEF LoopInv, TurnInv, NothingPassesGate, WillAsk
    <2> QED BY <1>1, <1>6, <1>8, <2>1 DEF LoopInv, TurnInv, NothingPassesGate
<1>13. QuestionHasNoEffect'
    <2>1. ASSUME HasPending(log') PROVE effects[Pending(log').call] = <<>>
        <3>1. CASE HasPending(log)
            <4>1. e.type # "resume"
                BY <1>2, <2>1, AppendPending
            <4>2. Pending(log') = Pending(log)
                BY <1>2, <3>1, <4>1, AppendPending
            <4> QED BY <3>1, <4>2 DEF LoopInv, TurnInv, QuestionHasNoEffect
        <3>2. CASE ~HasPending(log)
            <4>1. e.type = "interrupt"
                BY <1>2, <2>1, <3>2, AppendPending
            <4>2. Pending(log') = e
                BY <1>2, <3>2, <4>1, AppendPending
            <4>3. IsAsking(writes[1])
                BY <1>1, <1>3, <4>1 DEF IsAsking
            <4> QED BY <1>3, <4>2, <4>3 DEF LoopInv, TurnInv, QuestionHasNoEffect
        <3> QED BY <3>1, <3>2
    <2>2. \A i \in 1..Len(writes') : IsAsking(writes'[i]) => effects[writes'[i].event.call] = <<>>
        BY <1>3 DEF LoopInv, TurnInv, QuestionHasNoEffect
    <2> QED BY <1>1, <2>1, <2>2 DEF QuestionHasNoEffect
<1> QED BY <1>9, <1>10, <1>11, <1>12, <1>13 DEF TurnInv

LEMMA LoopWrites ==
    ASSUME LoopInv, Write, UNCHANGED <<kept, loop, issued>>
    PROVE  LoopInv'
<1>1. ToolInv'
    BY WriteKeeps DEF LoopInv
<1>2. LoopTyped'
    BY DEF Write, AppendEvent, WriteRow, RefreshStatus, kept, LoopInv, LoopTyped
<1>3. CASE AppendEvent
    BY <1>1, <1>2, <1>3, AppendEventAllows, AppendEventTurns DEF LoopInv
<1>4. CASE WriteRow \/ RefreshStatus
    <2>1. /\ writes # <<>> /\ writes' = Tail(writes) /\ Head(writes).kind # "append"
          /\ UNCHANGED <<log, effects, phase, cur, queue>>
        BY <1>4 DEF WriteRow, RefreshStatus
    <2> QED BY <1>1, <1>2, <2>1, OtherWriteTurns, OthersAllow DEF LoopInv
<1> QED BY <1>3, <1>4 DEF Write

LEMMA LoopWritesCheckpoint ==
    ASSUME LoopInv, WriteCheckpoint
    PROVE  LoopInv'
<1>1. /\ writes # <<>> /\ writes' = Tail(writes)
      /\ Head(writes).kind \in {"tasks", "checkpoint"}
      /\ UNCHANGED <<log, rows, effects, runStatus, lapsed, phase, cur, queue, loop, issued>>
    BY DEF WriteCheckpoint, durable
<1>2. ToolInv' /\ GateInv' /\ TurnInv'
    BY <1>1, OtherWriteKeeps, OthersAllow, OtherWriteTurns DEF LoopInv, ToolInv, Typed
<1>3. Head(writes) \in WriteItems /\ Len(log) \in Nat
    BY <1>1, RestOfWrites, AllLive DEF LoopInv, ToolInv, Typed
<1>4. Head(writes).kind = "tasks" => Head(writes).tasks \subseteq Calls
    BY <1>3 DEF WriteItems
<1>5. LoopTyped'
    BY <1>1, <1>3, <1>4 DEF WriteCheckpoint, LoopInv, LoopTyped
<1> QED BY <1>2, <1>5 DEF LoopInv

-----------------------------------------------------------------------------
(* The pipeline's steps, with the loop behind them *)

\* A step that leaves the log alone and writes no call keeps the ids fresh,
\* whether the batch stays or is given up.
LEMMA FreshStays ==
    ASSUME LoopInv, log' = log, issued' = issued, loop'.batch = loop.batch \/ loop'.batch = <<>>,
           \A i \in 1..Len(writes'), c \in Originals : ~IsRecordingOf(writes'[i], c)
    PROVE  BatchIsFresh'
<1>1. /\ Len(loop.batch) \in Nat /\ issued \in Nat /\ Originals \subseteq Nat
      /\ \A c \in Originals : Called(log, c) => c + Len(loop.batch) <= issued
    BY DEF LoopInv, LoopTyped, TurnInv, BatchIsFresh, Originals
<1>2. CASE loop'.batch = loop.batch
    BY <1>2 DEF LoopInv, TurnInv, BatchIsFresh
<1>3. CASE loop'.batch = <<>>
    <2>1. Len(loop'.batch) = 0
        BY <1>3
    <2>2. \A c \in Originals : Called(log, c) => c + 0 <= issued
        BY <1>1
    <2> QED BY <2>1, <2>2 DEF BatchIsFresh
<1> QED BY <1>2, <1>3

LEMMA LoopJudges ==
    ASSUME LoopInv, JudgeCall
    PROVE  LoopInv'
<1>1. PICK o \in Outcomes(cur) :
          /\ Judged(o)
          /\ loop' = IF o = "asked"
                     THEN [loop EXCEPT !.batch = <<>>, !.interrupted = TRUE,
                                       !.done = DoneAtGate]
                     ELSE loop
    BY DEF JudgeCall
<1>2. ToolInv /\ GateInv /\ UNCHANGED <<issued, checkpoint, taskWrites>>
    BY DEF JudgeCall, LoopInv, kept
<1>3. /\ phase = "judge" /\ GoesOn(log) /\ ~HasPending(log) /\ ~loop.interrupted
      /\ cur \in Requests /\ Called(log, cur.call) /\ ToolOf(log, cur.call) = cur.tool
      /\ ~WillAsk
      /\ queue' = IF o = "asked" THEN {} ELSE queue
      /\ UNCHANGED <<log, rows, effects, cur>>
    BY <1>1, <1>2, JudgedStep, NothingInHand DEF LoopInv, TurnInv, NothingPassesGate
<1> DEFINE q == Appending(InterruptEvent(cur.call, InterruptCount(log)))
<1>4. \/ /\ o = "asked" /\ phase' = "drive" /\ writes' = <<q>> /\ GateOutcome(cur) = "asked"
      \/ /\ o # "asked" /\ phase' \in {"drive", "effect"}
         /\ \/ writes' = <<>>
            \/ writes' = <<Insert("pending", Actual(cur))>>
            \/ writes' = <<Reporting, Concluding(cur, "rejected")>>
            \/ writes' = <<Reporting, Concluding(cur, "unknown"), Update("unknown")>>
            \/ writes' = <<Concluding(cur, "executed"), Update("executed")>>
    BY <1>1, <1>2, <1>3, JudgedStep
<1>5. /\ q.kind = "append" /\ q.event.type = "interrupt" /\ q.event.call = cur.call
      /\ \A c : ~IsRecordingOf(q, c)
      /\ ~EndsRun(q.event)
    BY PipelineGoesOn DEF Appending, InterruptEvent, IsRecordingOf
<1> HIDE DEF q
<1>6. \A w \in {Insert("pending", Actual(cur)), Reporting, Concluding(cur, "rejected"),
               Concluding(cur, "unknown"), Concluding(cur, "executed"),
               Update("unknown"), Update("executed")} :
          /\ ~IsAsking(w) /\ \A c : ~IsRecordingOf(w, c)
          /\ w.kind = "append" => ~EndsRun(w.event) /\ w.event.type # "resume"
    BY WhatWritesDo, PipelineGoesOn DEF IsAsking, IsRecordingOf
<1>7. CASE o = "asked"
    <2>1. /\ phase' = "drive" /\ writes' = <<q>> /\ GateOutcome(cur) = "asked" /\ queue' = {}
          /\ loop' = [loop EXCEPT !.batch = <<>>, !.interrupted = TRUE, !.done = DoneAtGate]
        BY <1>1, <1>3, <1>4, <1>7
    <2>2. Len(writes') = 1 /\ writes'[1] = q /\ \A i \in 1..Len(writes') : writes'[i] = q
        BY <2>1
    <2>3. effects[cur.call] = <<>>
        BY <1>2, <1>3, <2>1, AskedHasNoEffect
    <2>4. WillAsk' /\ Lasting'
        BY <1>3, <1>5, <2>2 DEF WillAsk, IsAsking, Lasting
    <2>5. /\ loop' \in [stage : {"recovery", "turn"}, batch : Seq(Requests), done : SUBSET Calls,
                        interrupted : BOOLEAN, asks : Nat, turns : 0..MaxSteps]
          /\ loop'.batch = <<>> /\ loop'.interrupted /\ loop'.stage = loop.stage
        <3>1. <<>> \in Seq(Requests) /\ DoneAtGate \in SUBSET Calls
              /\ loop \in [stage : {"recovery", "turn"}, batch : Seq(Requests),
                           done : SUBSET Calls, interrupted : BOOLEAN, asks : Nat,
                           turns : 0..MaxSteps]
            BY ShortLists DEF DoneAtGate, LoopInv, LoopTyped
        <3> QED BY <2>1, <3>1
    <2>6. LoopTyped'
        BY <1>2, <2>1, <2>5 DEF LoopInv, LoopTyped, Phases
    <2>7. PlaceInv'
        BY <1>5, <2>1, <2>2, <2>5 DEF PlaceInv
    <2>8. BatchIsFresh'
        BY <1>2, <1>3, <1>5, <2>2, <2>5, FreshStays
    <2>9. NothingPassesGate'
        BY <2>1, <2>2, <2>4, <2>5 DEF NothingPassesGate
    <2>10. QuestionHasNoEffect'
        BY <1>3, <1>5, <2>2, <2>3 DEF QuestionHasNoEffect
    <2>11. ToolInv' /\ GateInv'
        BY <1>1, <1>2, JudgedKeeps, JudgedAllows
    <2> QED BY <2>4, <2>6, <2>7, <2>8, <2>9, <2>10, <2>11 DEF LoopInv, TurnInv, RunLasts
<1>8. CASE o # "asked"
    <2>1. /\ loop' = loop /\ queue' = queue /\ phase' \in {"drive", "effect"}
          /\ \/ writes' = <<>>
             \/ writes' = <<Insert("pending", Actual(cur))>>
             \/ writes' = <<Reporting, Concluding(cur, "rejected")>>
             \/ writes' = <<Reporting, Concluding(cur, "unknown"), Update("unknown")>>
             \/ writes' = <<Concluding(cur, "executed"), Update("executed")>>
        BY <1>1, <1>3, <1>4, <1>8
    <2>2. \A i \in 1..Len(writes') :
              /\ ~IsAsking(writes'[i]) /\ \A c : ~IsRecordingOf(writes'[i], c)
              /\ writes'[i].kind = "append" =>
                    ~EndsRun(writes'[i].event) /\ writes'[i].event.type # "resume"
        <3>1. \A i \in 1..Len(writes') :
                  writes'[i] \in {Insert("pending", Actual(cur)), Reporting,
                                  Concluding(cur, "rejected"), Concluding(cur, "unknown"),
                                  Concluding(cur, "executed"), Update("unknown"),
                                  Update("executed")}
            BY <2>1
        <3> QED BY <1>6, <3>1
    <2>3. ~WillAsk' /\ Lasting'
        BY <1>3, <2>2 DEF WillAsk, Lasting
    <2>4. LoopTyped'
        BY <1>2, <2>1 DEF LoopInv, LoopTyped, Phases
    <2>5. PlaceInv'
        BY <1>3, <2>1, <2>2 DEF LoopInv, TurnInv, PlaceInv, Busy
    <2>6. BatchIsFresh'
        BY <1>2, <1>3, <2>1, <2>2, FreshStays
    <2>7. NothingPassesGate'
        BY <1>3, <2>1, <2>3 DEF NothingPassesGate
    <2>8. QuestionHasNoEffect'
        BY <1>3, <2>2 DEF QuestionHasNoEffect
    <2>9. ToolInv' /\ GateInv'
        BY <1>1, <1>2, JudgedKeeps, JudgedAllows
    <2> QED BY <2>3, <2>4, <2>5, <2>6, <2>7, <2>8, <2>9 DEF LoopInv, TurnInv, RunLasts
<1> QED BY <1>7, <1>8

LEMMA LoopEndsTool ==
    ASSUME LoopInv, ToolReturns \/ _handle_tool_failure, UNCHANGED <<kept, loop, issued>>
    PROVE  LoopInv'
<1>1. ToolInv /\ GateInv /\ UNCHANGED <<loop, issued, checkpoint, taskWrites>>
    BY DEF LoopInv, kept
<1>2. /\ phase = "effect" /\ phase' = "drive" /\ UNCHANGED <<log, cur, queue>>
      /\ GoesOn(log) /\ cur \in Requests
    BY <1>1, ToolEnd
<1>3. ~HasPending(log) /\ ~WillAsk /\ ~loop.interrupted
    BY <1>2, NothingInHand DEF LoopInv, TurnInv, NothingPassesGate
<1>4. PICK s \in Statuses, w \in WriteItems :
          /\ IsRowWrite(w)
          /\ writes' \in {<<Concluding(cur, s), w>>, <<Reporting, Concluding(cur, s), w>>}
    BY <1>1, ToolEnd
<1>5. \A x \in {Concluding(cur, s), Reporting, w} :
          /\ ~IsAsking(x) /\ \A c : ~IsRecordingOf(x, c)
          /\ x.kind = "append" => ~EndsRun(x.event) /\ x.event.type # "resume"
    BY <1>4, WhatWritesDo, PipelineGoesOn DEF IsAsking, IsRecordingOf, IsRowWrite
<1>6. \A i \in 1..Len(writes') :
          /\ ~IsAsking(writes'[i]) /\ \A c : ~IsRecordingOf(writes'[i], c)
          /\ writes'[i].kind = "append" =>
                ~EndsRun(writes'[i].event) /\ writes'[i].event.type # "resume"
    <2>1. \A i \in 1..Len(writes') : writes'[i] \in {Concluding(cur, s), Reporting, w}
        BY <1>4
    <2> QED BY <1>5, <2>1
<1>7. ~WillAsk' /\ Lasting'
    BY <1>2, <1>6 DEF WillAsk, Lasting
<1>8. LoopTyped'
    BY <1>1, <1>2 DEF LoopInv, LoopTyped, Phases
<1>9. PlaceInv'
    BY <1>1, <1>2, <1>6 DEF LoopInv, TurnInv, PlaceInv, Busy
<1>10. BatchIsFresh'
    BY <1>1, <1>2, <1>6, FreshStays
<1>11. NothingPassesGate'
    BY <1>1, <1>2, <1>3, <1>7 DEF NothingPassesGate
<1>12. QuestionHasNoEffect'
    BY <1>2, <1>3, <1>6 DEF QuestionHasNoEffect
<1>13. ToolInv' /\ GateInv'
    BY <1>1, ToolEndKeeps, ToolEndAllows
<1> QED BY <1>7, <1>8, <1>9, <1>10, <1>11, <1>12, <1>13 DEF LoopInv, TurnInv, RunLasts

\* The next call: nothing waits at the gate, and what it writes ends nothing.
LEMMA ExecuteTurns ==
    ASSUME LoopInv, NEW k \in Requests, execute(k), phase = "drive", writes = <<>>,
           ~HasPending(log), GoesOn(log), log' = log, effects' = effects,
           queue' \subseteq queue, loop'.stage = loop.stage, ~loop'.interrupted,
           loop'.batch # <<>> => loop.batch # <<>>, BatchIsFresh'
    PROVE  TurnInv'
<1>1. /\ phase' \in {"drive", "judge"}
      /\ \A i \in 1..Len(writes') :
            /\ ~IsAsking(writes'[i])
            /\ ~(writes'[i].kind = "append" /\ writes'[i].event.type = "resume")
    BY ExecuteDrives DEF LoopInv
<1>2. \A i \in 1..Len(writes') : writes'[i].kind = "append" => ~EndsRun(writes'[i].event)
    <2>1. \/ writes' = <<>> \/ writes' = <<Recording(k)>>
          \/ writes' = <<Recording(k), Reporting, Concluding(k, "failed")>>
        BY DEF execute
    <2>2. \A i \in 1..Len(writes') :
              writes'[i] \in {Recording(k), Reporting, Concluding(k, "failed")}
        BY <2>1
    <2> QED BY <2>2, PipelineGoesOn
<1>3. Lasting' /\ ~WillAsk'
    BY <1>1, <1>2 DEF Lasting, WillAsk
<1>4. PlaceInv'
    BY <1>1 DEF LoopInv, TurnInv, PlaceInv, Busy
<1>5. NothingPassesGate'
    BY <1>1, <1>3 DEF NothingPassesGate
<1>6. QuestionHasNoEffect'
    BY <1>1 DEF QuestionHasNoEffect
<1> QED BY <1>3, <1>4, <1>5, <1>6 DEF TurnInv, RunLasts

LEMMA LoopDrivesNext ==
    ASSUME LoopInv, DriveNext, UNCHANGED <<kept, loop, issued>>
    PROVE  LoopInv'
<1>1. /\ ToolInv /\ GateInv /\ UNCHANGED <<loop, issued, checkpoint, taskWrites>>
      /\ phase = "drive" /\ writes = <<>> /\ UNCHANGED <<log, rows, effects, runStatus, lapsed>>
    BY DEF LoopInv, kept, DriveNext
<1>2. PICK c \in queue :
          LET k == Request(c, ToolOf(log, c), ArgsOf(log, c))
          IN  /\ Called(log, c) /\ k \in Requests /\ k.call = c
              /\ execute(k) /\ queue' = queue \ {c}
    BY <1>1, DrivenRequest
<1> DEFINE k == Request(c, ToolOf(log, c), ArgsOf(log, c))
<1>3. /\ Called(log, c) /\ k \in Requests /\ k.call = c
      /\ execute(k) /\ queue' \subseteq queue /\ queue # {}
    BY <1>2
<1> HIDE DEF k
<1>4. GoesOn(log) /\ ~HasPending(log) /\ ~loop.interrupted /\ loop.batch = <<>>
    BY <1>1, <1>3 DEF LoopInv, TurnInv, RunLasts, Lasting, NothingPassesGate, PlaceInv
<1>5. BatchIsFresh'
    <2>1. \A i \in 1..Len(writes'), d \in Originals :
              IsRecordingOf(writes'[i], d) => Called(log, d)
        BY <1>1, <1>3, ExecuteDrives
    <2> QED BY <1>1, <2>1 DEF LoopInv, TurnInv, BatchIsFresh
<1>6. TurnInv'
    BY <1>1, <1>3, <1>4, <1>5, ExecuteTurns
<1>7. phase' \in {"drive", "judge"}
    BY <1>1, <1>3, ExecuteDrives
<1>8. ToolInv' /\ GateInv'
    BY <1>1, <1>4, <1>7, DriveNextKeeps, OthersAllow
<1> QED BY <1>1, <1>6, <1>7, <1>8 DEF LoopInv, LoopTyped, Phases

\* The head of the batch is a call nobody knows yet.
LEMMA BatchMoves ==
    ASSUME LoopInv, NextOfBatch
    PROVE  /\ Head(loop.batch) \in Requests /\ Head(loop.batch).call \in Originals
           /\ ~Called(log, Head(loop.batch).call)
           /\ loop'.batch = Tail(loop.batch) /\ loop'.batch \in Seq(Requests)
           /\ loop'.stage = loop.stage /\ loop'.interrupted = loop.interrupted
           /\ loop'.done = loop.done \cup {Head(loop.batch).call}
           /\ loop'.turns = loop.turns
           /\ LoopTyped' /\ BatchIsFresh'
<1> DEFINE n == Len(loop.batch)
           k == Head(loop.batch)
           m == Tail(loop.batch)
<1>1. /\ loop \in [stage : {"recovery", "turn"}, batch : Seq(Requests), done : SUBSET Calls,
                   interrupted : BOOLEAN, asks : Nat, turns : 0..MaxSteps]
      /\ loop.batch # <<>> /\ loop.batch \in Seq(Requests) /\ issued \in Nat
      /\ UNCHANGED <<log, issued, checkpoint, taskWrites>> /\ execute(k) /\ ToolInv
    BY DEF NextOfBatch, kept, durable, LoopInv, LoopTyped
<1>2. /\ k = loop.batch[1] /\ k \in Requests /\ m \in Seq(Requests) /\ Len(m) = n - 1
      /\ n \in Nat \ {0} /\ \A i \in 1..Len(m) : m[i] = loop.batch[i + 1]
    BY <1>1, ShiftedTail
<1>3. /\ \A i \in 1..n : loop.batch[i].call + n = issued + i /\ loop.batch[i].call \in Originals
      /\ \A c \in Originals : Called(log, c) => c + n <= issued
    BY DEF LoopInv, TurnInv, BatchIsFresh
<1>4. k.call + n = issued + 1 /\ k.call \in Originals
    BY <1>2, <1>3
<1>5. k.call \in Nat /\ Originals \subseteq Nat
    BY <1>4 DEF Originals
<1>6. ~Called(log, k.call)
    BY <1>1, <1>2, <1>3, <1>4, <1>5
<1>7. loop' = [loop EXCEPT !.batch = m, !.done = loop.done \cup {k.call}]
    BY DEF NextOfBatch
<1>8. loop.done \cup {k.call} \in SUBSET Calls
    BY <1>1, <1>2 DEF Requests
<1> HIDE DEF n, k, m
<1>9. /\ loop'.batch = m /\ loop'.stage = loop.stage /\ loop'.interrupted = loop.interrupted
      /\ loop'.done = loop.done \cup {k.call} /\ loop'.turns = loop.turns
      /\ loop' \in [stage : {"recovery", "turn"}, batch : Seq(Requests), done : SUBSET Calls,
                    interrupted : BOOLEAN, asks : Nat, turns : 0..MaxSteps]
    BY <1>1, <1>2, <1>7, <1>8
<1>10. LoopTyped'
    <2>1. phase' \in {"drive", "judge"}
        BY <1>1 DEF execute
    <2> QED BY <1>1, <1>9, <2>1 DEF LoopInv, LoopTyped, Phases
<1>11. BatchIsFresh'
    <2>1. \A i \in 1..Len(writes'), c \in Originals : IsRecordingOf(writes'[i], c) => c = k.call
        BY <1>1, <1>2, ExecuteDrives
    <2>2. Len(m) \in Nat /\ k.call + Len(m) <= issued
        BY <1>1, <1>2, <1>4, <1>5
    <2>3. \A c \in Originals : Called(log, c) => c + Len(m) <= issued
        <3>1. ASSUME NEW c \in Nat, c + n <= issued PROVE c + Len(m) <= issued
            <4>1. issued \in Nat /\ n \in Nat /\ Len(m) = n - 1
                BY <1>1, <1>2
            <4> QED BY <3>1, <4>1
        <3> QED BY <1>3, <1>5, <3>1 DEF n
    <2>4. \A i \in 1..Len(m) : m[i].call + Len(m) = issued + i /\ m[i].call \in Originals
        <3>1. TAKE i \in 1..Len(m)
        <3>2. i + 1 \in 1..n /\ m[i] = loop.batch[i + 1] /\ i \in Nat
            BY <1>2
        <3>3. loop.batch[i + 1].call + n = issued + (i + 1) /\ loop.batch[i + 1].call \in Originals
            BY <1>3, <3>2 DEF n
        <3>4. m[i].call \in Nat
            BY <1>5, <3>2, <3>3
        <3>5. issued \in Nat /\ n \in Nat /\ Len(m) = n - 1
            BY <1>1, <1>2
        <3>6. ASSUME NEW x \in Nat, NEW p \in Nat, NEW q \in Nat, NEW j \in Nat,
                     x + p = q + (j + 1)
              PROVE  x + (p - 1) = q + j
            BY <3>6
        <3>7. m[i].call + n = issued + (i + 1) /\ m[i].call \in Originals
            BY <3>2, <3>3
        <3>8. m[i].call + (n - 1) = issued + i
            BY <3>2, <3>4, <3>5, <3>6, <3>7
        <3> QED BY <3>5, <3>7, <3>8
    <2> QED BY <1>1, <1>9, <2>1, <2>2, <2>3, <2>4 DEF BatchIsFresh
<1> QED BY <1>2, <1>4, <1>6, <1>9, <1>10, <1>11 DEF k, m

LEMMA LoopTakesNext ==
    ASSUME LoopInv, NextOfBatch
    PROVE  LoopInv'
<1> DEFINE k == Head(loop.batch)
<1>1. /\ ToolInv /\ GateInv
      /\ phase = "drive" /\ writes = <<>> /\ loop.batch # <<>> /\ execute(k)
      /\ UNCHANGED <<log, rows, effects, runStatus, lapsed, queue>>
    BY DEF LoopInv, NextOfBatch, durable
<1>2. /\ k \in Requests /\ ~Called(log, k.call) /\ loop'.stage = loop.stage
      /\ loop'.interrupted = loop.interrupted /\ LoopTyped' /\ BatchIsFresh'
    BY BatchMoves
<1> HIDE DEF k
<1>3. GoesOn(log) /\ ~HasPending(log) /\ ~loop.interrupted
    BY <1>1 DEF LoopInv, TurnInv, RunLasts, Lasting, NothingPassesGate
<1>4. TurnInv'
    BY <1>1, <1>2, <1>3, ExecuteTurns
<1>5. phase' \in {"drive", "judge"}
    BY <1>1, <1>2, ExecuteDrives
<1>6. ToolInv' /\ GateInv'
    BY <1>1, <1>2, <1>3, <1>5, ExecuteKeeps, OthersAllow
<1> QED BY <1>2, <1>4, <1>6 DEF LoopInv

LEMMA LoopIsAnswered ==
    ASSUME LoopInv, NEW d \in Decisions, NEW a \in Args, NEW s \in Scopes, approve(d, a, s)
    PROVE  LoopInv'
<1>1. /\ ToolInv /\ GateInv /\ phase = "down" /\ phase' = "return" /\ decide(d, a, s)
      /\ UNCHANGED <<loop, issued, checkpoint, taskWrites>>
    BY DEF LoopInv, approve, kept
<1>2. /\ HasPending(log) /\ GoesOn(log) /\ loop = AtRest /\ queue = {} /\ ~loop.interrupted
    BY <1>1, NothingInHand DEF decide, Busy, AtRest
<1>3. UNCHANGED <<log, rows, effects, runStatus, lapsed, cur, queue>>
    BY <1>1, DecideIs
<1>4. \A i \in 1..Len(writes') :
          /\ ~IsAsking(writes'[i]) /\ \A c \in Originals : ~IsRecordingOf(writes'[i], c)
          /\ writes'[i].kind = "append" => ~EndsRun(writes'[i].event)
    <2>1. /\ Approving(d, a, s).kind = "append" /\ Approving(d, a, s).event.type = "approval"
          /\ Resuming.kind = "append" /\ Resuming.event.type = "resume"
          /\ a # Asked.args => \A c \in Originals : ~IsRecordingOf(Rerecording(a), c)
          /\ Rerecording(a).kind = "append" /\ Rerecording(a).event.type = "tool_call"
        <3>1. /\ Approving(d, a, s).kind = "append" /\ Approving(d, a, s).event.type = "approval"
              /\ Resuming.kind = "append" /\ Resuming.event.type = "resume"
              /\ Rerecording(a).event.call = Target(a)
            BY <1>1, DecideIs
        <3>2. Rerecording(a).kind = "append" /\ Rerecording(a).event.type = "tool_call"
            BY WhatWritesDo DEF Rerecording
        <3>3. a # Asked.args => Target(a) \notin Originals
            <4>1. Asked.call \in Nat \ {0}
                BY <1>1, <1>2, AskedIs DEF Requests, Calls
            <4> QED BY <4>1, BoundsAreNat DEF Target, EditOf, Originals
        <3> QED BY <3>1, <3>2, <3>3 DEF IsRecordingOf
    <2>0. ASSUME NEW w, w.kind = "append",
                 w.event.type \in {"tool_call", "tool_result", "approval", "resume"},
                 \A c \in Originals : ~IsRecordingOf(w, c)
          PROVE  /\ ~IsAsking(w) /\ \A c \in Originals : ~IsRecordingOf(w, c)
                 /\ w.kind = "append" => ~EndsRun(w.event)
        BY <2>0, PipelineGoesOn DEF IsAsking
    <2>2. CASE writes' \in {<<Concluding(Asked, "rejected"), Approving(d, a, s), Resuming>>,
                            <<Approving(d, a, s), Resuming>>}
        <3>1. \A i \in 1..Len(writes') :
                  writes'[i] \in {Concluding(Asked, "rejected"), Approving(d, a, s), Resuming}
            BY <2>2
        <3>2. \A w \in {Concluding(Asked, "rejected"), Approving(d, a, s), Resuming} :
                  /\ w.kind = "append"
                  /\ w.event.type \in {"tool_call", "tool_result", "approval", "resume"}
                  /\ \A c \in Originals : ~IsRecordingOf(w, c)
            BY <2>1, WhatWritesDo DEF IsRecordingOf
        <3> QED BY <2>0, <3>1, <3>2
    <2>3. CASE /\ a # Asked.args
               /\ writes' = <<Concluding(Asked, "superseded"), Rerecording(a),
                              Approving(d, a, s), Resuming>>
        <3>1. \A i \in 1..Len(writes') :
                  writes'[i] \in {Concluding(Asked, "superseded"), Rerecording(a),
                                  Approving(d, a, s), Resuming}
            BY <2>3
        <3>2. \A w \in {Concluding(Asked, "superseded"), Rerecording(a),
                        Approving(d, a, s), Resuming} :
                  /\ w.kind = "append"
                  /\ w.event.type \in {"tool_call", "tool_result", "approval", "resume"}
                  /\ \A c \in Originals : ~IsRecordingOf(w, c)
            BY <2>1, <2>3, WhatWritesDo DEF IsRecordingOf
        <3> QED BY <2>0, <3>1, <3>2
    <2> QED BY <1>1, <2>2, <2>3, DecideIs
<1>5. Lasting' /\ ~WillAsk'
    BY <1>2, <1>3, <1>4 DEF Lasting, WillAsk
<1>6. PlaceInv'
    BY <1>1, <1>2, <1>3 DEF PlaceInv, AtRest
<1>7. BatchIsFresh'
    BY <1>1, <1>3, <1>4, FreshStays
<1>8. NothingPassesGate'
    BY <1>1, <1>2, <1>3, <1>5 DEF NothingPassesGate, AtRest
<1>9. QuestionHasNoEffect'
    BY <1>3, <1>4 DEF LoopInv, TurnInv, QuestionHasNoEffect
<1>10. ToolInv' /\ GateInv'
    BY <1>1, <1>2, <1>3, DecideKeeps, OthersAllow
<1> QED BY <1>1, <1>5, <1>6, <1>7, <1>8, <1>9, <1>10
        DEF LoopInv, LoopTyped, Phases, TurnInv, RunLasts

LEMMA LoopWaits ==
    ASSUME LoopInv, Clock \/ UNCHANGED vars
    PROVE  LoopInv'
<1>1. /\ ToolInv /\ GateInv
      /\ UNCHANGED <<log, rows, effects, runStatus, phase, writes, cur, queue, loop, issued,
                     checkpoint, taskWrites>>
      /\ lapsed' \subseteq Approvals(log)
    BY DEF LoopInv, ToolInv, Typed, Clock, TimePasses, durable, volatile, kept, vars
<1>2. ToolInv' /\ GateInv'
    BY <1>1, QuietKeeps, OthersAllow
<1>3. LoopTyped' /\ TurnInv'
    BY <1>1 DEF LoopInv, LoopTyped, TurnInv, PlaceInv, RunLasts, Lasting, WillAsk, BatchIsFresh,
                NothingPassesGate, QuestionHasNoEffect
<1> QED BY <1>2, <1>3 DEF LoopInv

LEMMA LoopStarts ==
    ASSUME Init
    PROVE  LoopInv
<1>1. ToolInv
    BY EmptyRun DEF Init
<1>2. GateInv
    BY EmptyPromise DEF Init
<1>3. ~HasPending(log) /\ ~WillAsk
    BY DEF Init, HasPending, PendingInterrupts, WillAsk
<1>4. LoopTyped
    <2>1. <<>> \in Seq(Requests) /\ {} \in SUBSET Calls /\ 0 \in 0..MaxSteps
        BY ShortLists, LoopBoundsAreNat
    <2> QED BY <2>1 DEF Init, LoopTyped, AtRest, Phases
<1>5. PlaceInv /\ RunLasts /\ NothingPassesGate /\ QuestionHasNoEffect
    BY <1>3 DEF Init, AtRest, PlaceInv, RunLasts, NothingPassesGate, QuestionHasNoEffect
<1>6. BatchIsFresh
    <2>1. \A c \in Originals : ~Called(log, c)
        <3>1. log \in Logs /\ Len(log) = 0
            BY <1>1 DEF Init, ToolInv, Typed
        <3> QED BY <3>1, CalledMeans
    <2>2. Len(loop.batch) = 0 /\ writes = <<>>
        BY DEF Init, AtRest
    <2> QED BY <2>1, <2>2 DEF BatchIsFresh
<1> QED BY <1>1, <1>2, <1>4, <1>5, <1>6 DEF LoopInv, TurnInv

LEMMA LoopKeeps ==
    ASSUME LoopInv, [Next]_vars
    PROVE  LoopInv'
<1>1. CASE start \/ resume \/ Return \/ Crash \/ CompactionOverBudget
    BY <1>1, TurnsOfProcess
<1>2. CASE AfterRecovery \/ _commit \/ Leave
    BY <1>2, TurnsOfLoop
<1>3. CASE Turn \/ WithoutCompaction \/ compact \/ AskOverBudget \/ AskOverflows
    BY <1>3, TurnsToAsk
<1>4. CASE AskReplies
    BY <1>4, Replies
<1>5. CASE Pipeline
    BY <1>5, LoopWrites, LoopEndsTool, LoopResumes, LoopDrivesNext DEF Pipeline
<1>6. CASE JudgeCall
    BY <1>6, LoopJudges
<1>7. CASE NextOfBatch
    BY <1>7, LoopTakesNext
<1>8. CASE WriteCheckpoint
    BY <1>8, LoopWritesCheckpoint
<1>9. CASE Human
    BY <1>9, LoopIsAnswered DEF Human
<1>10. CASE Clock \/ UNCHANGED vars
    BY <1>10, LoopWaits
<1> QED BY <1>1, <1>2, <1>3, <1>4, <1>5, <1>6, <1>7, <1>8, <1>9, <1>10 DEF Next, Process

THEOREM LoopAlways == Spec => []LoopInv
<1>1. LoopInv /\ [Next]_vars => LoopInv'
    BY LoopKeeps
<1> QED BY <1>1, LoopStarts, PTL DEF Spec

-----------------------------------------------------------------------------
(* What the loop promises *)

\* Every step of the loop is one of these.
LEMMA StepsOfLoop ==
    ASSUME LoopInv, [Next]_vars
    PROVE  \/ OwnStep
           \/ AppendEvent
           \/ WriteRow
           \/ RefreshStatus \/ WriteCheckpoint
           \/ ToolReturns \/ _handle_tool_failure
           \/ JudgeCall
           \/ resume_open_calls
           \/ DriveNext
           \/ NextOfBatch
           \/ Human
           \/ Clock \/ UNCHANGED vars
<1>1. CASE start \/ resume \/ Return \/ Crash \/ CompactionOverBudget
    BY <1>1, TurnsOfProcess
<1>2. CASE AfterRecovery \/ _commit \/ Leave
    BY <1>2, TurnsOfLoop
<1>3. CASE Turn \/ WithoutCompaction \/ compact \/ AskOverBudget \/ AskOverflows
    BY <1>3, TurnsToAsk
<1>4. CASE AskReplies
    BY <1>4, Replies
<1> QED BY <1>1, <1>2, <1>3, <1>4 DEF Next, Process, Pipeline, Write

\* The loop keeps its types.
THEOREM LoopTypeCorrect == Spec => [](Typed /\ LoopTyped)
<1>1. LoopInv => Typed /\ LoopTyped
    BY DEF LoopInv, ToolInv
<1> QED BY <1>1, LoopAlways, PTL

\* A non-idempotent write behind the outbox takes effect once at most under its
\* key, with any model, any number of turns, answers, kills and resumes.
THEOREM LoopAtMostOnce == Spec => []EffectAtMostOnce
<1>1. LoopInv => EffectAtMostOnce
    BY DEF LoopInv, ToolInv, EffectIsMarked, EffectAtMostOnce
<1> QED BY <1>1, LoopAlways, PTL

\* Whatever a gated tool did outside, a human had granted for this call or for
\* the session, with these very arguments, and the tool's policy allows it: the
\* model cannot talk the loop past the gate, in no turn and by no recovery.
THEOREM LoopIsGated == Spec => [](EffectsWereApproved /\ EffectsArePermitted)
<1>1. LoopInv => EffectsWereApproved /\ EffectsArePermitted
    BY GateHolds DEF LoopInv
<1> QED BY <1>1, LoopAlways, PTL

\* Only the return or the raise of a tool changes the world, and only under the
\* key of the call in hand, which is open.
THEOREM LoopConclusionIsFinal == Spec => NoEffectAfterConclusion
<1> DEFINE A == \A c \in Calls : Closed(log, c) => effects'[c] = effects[c]
<1>1. ASSUME LoopInv, [Next]_vars PROVE [A]_durable
    <2>1. CASE ToolReturns \/ _handle_tool_failure
        BY <1>1, <2>1, EffectIsOfOpenCall DEF LoopInv
    <2>2. CASE ~(ToolReturns \/ _handle_tool_failure)
        <3>1. effects' = effects
            BY <1>1, <2>2, StepsOfLoop
               DEF OwnStep, AppendEvent, WriteRow, RefreshStatus, WriteCheckpoint, JudgeCall,
                   Judged, resume_open_calls, DriveNext, NextOfBatch, Human, approve, decide,
                   Clock, TimePasses, durable, vars
        <3> QED BY <3>1
    <2> QED BY <2>1, <2>2
<1>2. NoEffectAfterConclusion <=> [][A]_durable
    BY DEF NoEffectAfterConclusion
<1> QED BY <1>1, <1>2, LoopAlways, PTL DEF Spec

LEMMA LoopPromiseKeeps ==
    ASSUME TamperIsHarmless, LoopInv, PromiseInv, [Next]_vars
    PROVE  PromiseInv' /\ (Promise!Next \/ UNCHANGED Promise!promise)
<1>1. ToolInv /\ GateInv
    BY DEF LoopInv
<1>2. CASE AppendEvent
    BY <1>1, <1>2, AppendEventTells, AppendEventPromise
<1>3. CASE ToolReturns \/ _handle_tool_failure
    BY <1>1, <1>3, ToolEndTells, ToolEndPromise
<1>4. ASSUME UNCHANGED <<log, effects>>
      PROVE  Promise!Next \/ UNCHANGED Promise!promise
    BY <1>4, OthersPromise
<1>5. CASE WriteRow
    <2>1. UNCHANGED <<log, effects>>
        BY <1>5 DEF WriteRow
    <2> QED BY <1>1, <1>4, <1>5, <2>1, WriteRowTells
<1>6. CASE RefreshStatus \/ WriteCheckpoint
    <2>1. /\ writes # <<>> /\ writes' = Tail(writes) /\ Head(writes).kind # "append"
          /\ UNCHANGED <<log, rows, effects, phase, cur>>
        BY <1>6 DEF RefreshStatus, WriteCheckpoint, durable
    <2> QED BY <1>1, <1>4, <2>1, OtherWriteTells
<1>7. CASE JudgeCall
    <2>1. PICK o \in Outcomes(cur) : Judged(o)
        BY <1>7 DEF JudgeCall
    <2>2. UNCHANGED <<log, effects>>
        BY <2>1 DEF Judged
    <2> QED BY <1>1, <1>4, <2>1, <2>2, JudgedTells
<1>8. CASE DriveNext
    <2>1. UNCHANGED <<log, effects>>
        BY <1>8 DEF DriveNext
    <2> QED BY <1>1, <1>4, <1>8, <2>1, DriveNextTells
<1>9. CASE NextOfBatch
    <2> DEFINE k == Head(loop.batch)
    <2>1. k \in Requests /\ ~Called(log, k.call)
        BY <1>9, BatchMoves
    <2>2. execute(k) /\ UNCHANGED <<log, rows, effects>>
        BY <1>9 DEF NextOfBatch, durable
    <2> HIDE DEF k
    <2> QED BY <1>1, <1>4, <2>1, <2>2, ExecuteTells
<1>10. CASE Human
    <2>1. PICK d \in Decisions, a \in Args, s \in Scopes : approve(d, a, s)
        BY <1>10 DEF Human
    <2>2. decide(d, a, s) /\ phase' = "return" /\ UNCHANGED <<log, effects>>
        BY <2>1 DEF approve, decide
    <2>3. effects[Pending(log).call] = <<>>
        BY <2>2 DEF decide, LoopInv, TurnInv, QuestionHasNoEffect
    <2> QED BY <1>1, <1>4, <2>2, <2>3, DecideTells
<1>11. CASE OwnStep \/ resume_open_calls
    <2>1. /\ UNCHANGED <<log, rows, effects>> /\ phase' # "effect"
          /\ \A i \in 1..Len(writes') : ~IsConclusion(writes'[i])
        <3>1. CASE resume_open_calls
            BY <3>1 DEF resume_open_calls
        <3>2. CASE OwnStep
            <4>1. \A i \in 1..Len(writes') : writes'[i] \in OwnItems
                BY <3>2, ElementOfSeq DEF OwnStep
            <4> QED BY <3>2, <4>1, OwnItemsDo DEF OwnStep
        <3> QED BY <1>11, <3>1, <3>2
    <2> QED BY <1>4, <2>1, DriverStepTells
<1>12. CASE Clock \/ UNCHANGED vars
    <2>1. UNCHANGED <<log, rows, effects, phase, writes, cur>>
        BY <1>12 DEF Clock, TimePasses, durable, volatile, vars
    <2> QED BY <1>4, <2>1, QuietTells
<1> QED BY <1>2, <1>3, <1>5, <1>6, <1>7, <1>8, <1>9, <1>10, <1>11, <1>12, StepsOfLoop

\* The loop implements the promise of the pipeline: every call is recorded, takes
\* effect while it is open and is concluded once and truthfully, in whatever turn
\* or process that happens.
THEOREM LoopKeepsPromise ==
    ASSUME TamperIsHarmless
    PROVE  Spec => KeepsPromise
<1>1. Init => PromiseInv /\ Promise!Init
    BY EmptyPromise DEF Init
<1>2. PromiseInv /\ LoopInv /\ [Next]_vars => PromiseInv' /\ [Promise!Next]_(Promise!promise)
    BY LoopPromiseKeeps
<1>3. KeepsPromise <=> Promise!Init /\ [][Promise!Next]_(Promise!promise)
    BY DEF KeepsPromise, Promise!Spec
<1> QED BY <1>1, <1>2, <1>3, LoopAlways, PTL DEF Spec

-----------------------------------------------------------------------------
(* No more than one call is ever open, and the loop is dealing with it *)

\* The call waits for a human, or is about to.
Waits(c) ==
    \/ HasPending(log) /\ Pending(log).call = c
    \/ \E i \in 1..Len(writes) : IsAsking(writes[i]) /\ writes[i].event.call = c

\* The call at the gate, or the one an answer makes of it.
IsOfAsked(c) == c = Pending(log).call \/ c = EditOf(Pending(log).call)

\* Every open call is on its way to a conclusion or to a human, and when the
\* loop has come to the model there is none.
OpenIsDriven ==
    /\ phase \in Busy => \A c \in Calls : Open(log, c) =>
          c \in queue \/ InHand(c) \/ WillConclude(c) \/ Waits(c)
    /\ phase \in {"turn", "compact", "ask"} => \A c \in Calls : ~Open(log, c)
    /\ phase = "leave" => \A c \in Calls : Open(log, c) => Waits(c)

\* So is every call about to be recorded, unless by an answer.
RecordingIsDriven ==
    \A i \in 1..Len(writes), c \in Calls : IsRecordingOf(writes[i], c) =>
        \/ phase = "return"
        \/ phase = "judge" /\ c = cur.call
        \/ phase = "drive" /\ \E j \in (i + 1)..Len(writes) : IsConclusionOf(writes[j], c)

OneOpen ==
    /\ \A c, d \in Calls : Open(log, c) /\ Open(log, d) => c = d
    /\ HasPending(log) => \A c \in Calls : Open(log, c) => IsOfAsked(c)

\* One call is recorded at a time, after what is open has been concluded.
OneToRecord ==
    \A i \in 1..Len(writes), c \in Calls : IsRecordingOf(writes[i], c) =>
        /\ \A j \in 1..Len(writes), d \in Calls : IsRecordingOf(writes[j], d) => i = j
        /\ \A d \in Calls : Open(log, d) =>
              d = c \/ \E j \in 1..(i - 1) : IsConclusionOf(writes[j], d)
        /\ HasPending(log) => IsOfAsked(c)

\* A question is put about an open call, when no other question is.
AskedIsOpen ==
    \A i \in 1..Len(writes) : IsAsking(writes[i]) =>
        ~HasPending(log) /\ Open(log, writes[i].event.call)

CallInv == OpenIsDriven /\ RecordingIsDriven /\ OneOpen /\ OneToRecord /\ AskedIsOpen

\* Steps that write no call and ask nothing leave the calls as they are.
LEMMA CallsStay ==
    ASSUME CallInv, log' = log,
           \A i \in 1..Len(writes') : ~IsAsking(writes'[i]) /\ \A c : ~IsRecordingOf(writes'[i], c)
    PROVE  RecordingIsDriven' /\ OneOpen' /\ OneToRecord' /\ AskedIsOpen'
<1>1. OneOpen'
    BY DEF CallInv, OneOpen, IsOfAsked
<1>2. RecordingIsDriven' /\ OneToRecord' /\ AskedIsOpen'
    BY DEF RecordingIsDriven, OneToRecord, AskedIsOpen
<1> QED BY <1>1, <1>2

\* What the loop does by itself happens where nothing is open but what waits.
LEMMA OwnStepCalls ==
    ASSUME LoopInv, LoopInv', CallInv, OwnStep,
           \/ start \/ resume \/ Return \/ Crash \/ CompactionOverBudget
           \/ AfterRecovery \/ _commit \/ Leave
           \/ Turn \/ WithoutCompaction \/ compact \/ AskOverBudget \/ AskOverflows
           \/ AskReplies
    PROVE  CallInv'
<1>1. log' = log /\ \A i \in 1..Len(writes') : writes'[i] \in OwnItems
    BY ElementOfSeq DEF OwnStep
<1>2. RecordingIsDriven' /\ OneOpen' /\ OneToRecord' /\ AskedIsOpen'
    BY <1>1, OwnItemsDo, CallsStay
<1>3. CASE \A c \in Calls : ~Open(log, c)
    BY <1>1, <1>2, <1>3 DEF CallInv, OpenIsDriven
<1>4. CASE phase' \in {"resume", "return", "down"}
    BY <1>2, <1>4 DEF CallInv, OpenIsDriven, Busy
<1>5. CASE start
    <2>1. log \in Logs /\ Len(log) = 0
        BY <1>5 DEF LoopInv, ToolInv, Typed, start
    <2> QED BY <1>3, <2>1, CalledMeans DEF Open
<1>6. CASE AfterRecovery \/ _commit
    <2>1. /\ writes = <<>> /\ phase = "drive" /\ queue = {}
          /\ phase' \in {"turn", "leave", "return"}
        BY <1>6 DEF AfterRecovery, _commit, PhaseAfterRecovery, LoopInv, LoopTyped, TurnInv,
                    PlaceInv
    <2>2. \A c \in Calls : Open(log, c) => HasPending(log) /\ Pending(log).call = c
        BY <2>1 DEF CallInv, OpenIsDriven, Busy, InHand, WillConclude, Waits
    <2>3. HasPending(log) => phase' # "turn"
        BY <1>1 DEF LoopInv, TurnInv, NothingPassesGate
    <2>4. OpenIsDriven'
        BY <1>1, <2>1, <2>2, <2>3 DEF OpenIsDriven, Busy, Waits
    <2> QED BY <1>2, <2>4 DEF CallInv
<1>7. CASE Turn \/ WithoutCompaction \/ compact \/ AskOverBudget \/ AskOverflows \/ AskReplies
    <2>1. phase \in {"turn", "compact", "ask"}
        BY <1>7 DEF Turn, WithoutCompaction, compact, AskOverBudget, AskOverflows, AskReplies
    <2>2. \A c \in Calls : ~Open(log, c)
        BY <2>1 DEF CallInv, OpenIsDriven
    <2> QED BY <1>3, <2>2
<1>8. CASE resume \/ Return \/ Crash \/ CompactionOverBudget \/ Leave
    <2>1. phase' \in {"resume", "return", "down"}
        BY <1>8 DEF resume, Return, Crash, CompactionOverBudget, Leave
    <2> QED BY <1>4, <2>1
<1> QED BY <1>5, <1>6, <1>7, <1>8

LEMMA OtherWriteCalls ==
    ASSUME LoopInv, CallInv, writes # <<>>, writes' = Tail(writes),
           Head(writes).kind # "append", UNCHANGED <<log, phase, cur, queue>>
    PROVE  CallInv'
<1>1. /\ Head(writes) = writes[1] /\ Len(writes') = Len(writes) - 1 /\ Len(writes) \in Nat \ {0}
      /\ \A i \in 1..Len(writes') : i + 1 \in 1..Len(writes) /\ writes'[i] = writes[i + 1]
    BY RestOfWrites DEF LoopInv
<1>2. \A j \in 2..Len(writes) : j - 1 \in 1..Len(writes') /\ writes'[j - 1] = writes[j]
    BY RestWaits DEF LoopInv
<1>3. \A c : ~IsRecordingOf(writes[1], c) /\ ~IsConclusionOf(writes[1], c)
    BY <1>1 DEF IsRecordingOf, IsConclusionOf
<1>4. ~IsAsking(writes[1])
    BY <1>1 DEF IsAsking
<1>5. \A c : WillConclude(c) => WillConclude(c)'
    <2>1. TAKE c
    <2>2. HAVE WillConclude(c)
    <2>3. IsConclusionOf(Head(writes), c) \/ WillConclude(c)'
        BY <2>2, RestWaits DEF LoopInv
    <2> QED BY <1>1, <1>3, <2>3
<1>6. \A c : Waits(c) => Waits(c)'
    <2>1. TAKE c
    <2>2. CASE HasPending(log) /\ Pending(log).call = c
        BY <2>2 DEF Waits
    <2>3. ASSUME NEW i \in 1..Len(writes), IsAsking(writes[i]), writes[i].event.call = c
          PROVE  Waits(c)'
        <3>1. i # 1
            BY <1>4, <2>3
        <3>2. i \in 2..Len(writes)
            BY <1>1, <3>1
        <3>3. i - 1 \in 1..Len(writes') /\ writes'[i - 1] = writes[i]
            BY <1>2, <3>2
        <3> QED BY <2>3, <3>3 DEF Waits
    <2> QED BY <2>2, <2>3 DEF Waits
<1>7. OpenIsDriven'
    BY <1>5, <1>6 DEF CallInv, OpenIsDriven, InHand
<1>8. RecordingIsDriven'
    <2>1. SUFFICES ASSUME NEW i \in 1..Len(writes'), NEW c \in Calls,
                          IsRecordingOf(writes'[i], c),
                          phase # "return", ~(phase = "judge" /\ c = cur.call)
                   PROVE  /\ phase = "drive"
                          /\ \E j \in (i + 1)..Len(writes') : IsConclusionOf(writes'[j], c)
        BY DEF RecordingIsDriven
    <2>2. PICK j \in (i + 2)..Len(writes) : IsConclusionOf(writes[j], c) /\ phase = "drive"
        BY <1>1, <2>1 DEF CallInv, RecordingIsDriven
    <2>3. j \in 2..Len(writes) /\ j - 1 \in (i + 1)..Len(writes')
        BY <1>1, <2>2
    <2> QED BY <1>2, <2>2, <2>3
<1>9. OneOpen'
    BY DEF CallInv, OneOpen, IsOfAsked
<1>10. OneToRecord'
    <2>1. SUFFICES ASSUME NEW i \in 1..Len(writes'), NEW c \in Calls, IsRecordingOf(writes'[i], c)
                   PROVE  /\ \A j \in 1..Len(writes'), d \in Calls :
                                IsRecordingOf(writes'[j], d) => i = j
                          /\ \A d \in Calls : Open(log, d) =>
                                d = c \/ \E j \in 1..(i - 1) : IsConclusionOf(writes'[j], d)
                          /\ HasPending(log) => IsOfAsked(c)
        BY DEF OneToRecord, IsOfAsked
    <2>2. /\ \A j \in 1..Len(writes), d \in Calls : IsRecordingOf(writes[j], d) => i + 1 = j
          /\ \A d \in Calls : Open(log, d) =>
                d = c \/ \E j \in 1..i : IsConclusionOf(writes[j], d)
          /\ HasPending(log) => IsOfAsked(c)
        BY <1>1, <2>1 DEF CallInv, OneToRecord
    <2>3. ASSUME NEW j \in 1..Len(writes'), NEW d \in Calls, IsRecordingOf(writes'[j], d)
          PROVE  i = j
        <3>1. j + 1 \in 1..Len(writes) /\ writes'[j] = writes[j + 1]
            BY <1>1
        <3>2. i + 1 = j + 1
            BY <2>2, <2>3, <3>1
        <3> QED BY <3>2
    <2>4. ASSUME NEW d, NEW j \in 1..i, IsConclusionOf(writes[j], d)
          PROVE  \E l \in 1..(i - 1) : IsConclusionOf(writes'[l], d)
        <3>1. j # 1
            BY <1>3, <2>4
        <3>2. j \in 2..Len(writes) /\ j - 1 \in 1..(i - 1)
            BY <1>1, <3>1
        <3> QED BY <1>2, <2>4, <3>2
    <2> QED BY <2>2, <2>3, <2>4
<1>11. AskedIsOpen'
    BY <1>1 DEF CallInv, AskedIsOpen
<1> QED BY <1>7, <1>8, <1>9, <1>10, <1>11 DEF CallInv

\* Which calls an append opens and closes.
LEMMA OpenMoves ==
    ASSUME LoopInv, CallInv, AppendEvent
    PROVE  /\ \A c : IsConclusionOf(writes[1], c) => Called(log, c) /\ Closed(log', c)
           /\ \A c \in Calls : Open(log', c) <=>
                 \/ Open(log, c) /\ ~IsConclusionOf(writes[1], c)
                 \/ IsRecordingOf(writes[1], c) /\ ~Closed(log, c)
           /\ \A c : Closed(log', c) <=>
                 Closed(log, c) \/ (IsConclusionOf(writes[1], c) /\ Called(log, c))
<1> DEFINE e == Head(writes).event
<1>1. /\ Head(writes) = writes[1] /\ Head(writes).kind = "append" /\ Len(writes) \in Nat \ {0}
      /\ ToolInv
    BY RestOfWrites DEF LoopInv, AppendEvent
<1>2. /\ \A c : Called(log', c) <=> Called(log, c) \/ (e.type = "tool_call" /\ e.call = c)
      /\ \A c : Closed(log', c) <=>
            Closed(log, c) \/ (e.type = "tool_result" /\ e.call = c /\ Called(log, c))
      /\ log \in Logs
    BY <1>1, AppendEventLog
<1>3. /\ \A c : IsRecordingOf(writes[1], c) <=> e.type = "tool_call" /\ e.call = c
      /\ \A c : IsConclusionOf(writes[1], c) <=> e.type = "tool_result" /\ e.call = c
    BY <1>1 DEF IsRecordingOf, IsConclusionOf
<1>4. \A c : IsConclusionOf(writes[1], c) => Called(log, c)
    <2>1. \A c : IsConclusionOf(writes[1], c) => IsConclusion(writes[1]) /\ writes[1].event.call = c
        BY DEF IsConclusionOf, IsConclusion
    <2>2. 1 \in 1..Len(writes) /\ 1..(1 - 1) = {}
        BY <1>1
    <2> QED BY <1>1, <2>1, <2>2 DEF ToolInv, ResultsAreOfCalls
<1>5. \A c : Closed(log, c) => Called(log, c)
    BY <1>2, ClosedIsCalled
<1> HIDE DEF e
<1> QED BY <1>2, <1>3, <1>4, <1>5 DEF Open

\* How the question at the gate moves with an append.
LEMMA PendingMoves ==
    ASSUME LoopInv, CallInv, AppendEvent
    PROVE  /\ HasPending(log') =>
                 \/ HasPending(log) /\ Pending(log') = Pending(log)
                 \/ /\ ~HasPending(log) /\ IsAsking(writes[1]) /\ Len(writes) = 1
                    /\ Pending(log') = writes[1].event
           /\ IsAsking(writes[1]) => HasPending(log') /\ Pending(log') = writes[1].event
           /\ HasPending(log) /\ phase # "return" =>
                 HasPending(log') /\ Pending(log') = Pending(log)
<1> DEFINE e == Head(writes).event
<1>1. /\ Head(writes) = writes[1] /\ Head(writes).kind = "append" /\ Len(writes) \in Nat \ {0}
      /\ ToolInv
    BY RestOfWrites DEF LoopInv, AppendEvent
<1>2. log \in Logs /\ e \in LoggedEvents /\ GoesOn(log) /\ log' = Append(log, e)
    BY <1>1, AppendEventLog
<1>3. /\ e.type = "resume" => ~HasPending(log')
      /\ e.type # "resume" /\ HasPending(log) => HasPending(log') /\ Pending(log') = Pending(log)
      /\ e.type # "interrupt" /\ ~HasPending(log) => ~HasPending(log')
      /\ e.type = "interrupt" /\ ~HasPending(log) => HasPending(log') /\ Pending(log') = e
    BY <1>2, AppendPending
<1>4. IsAsking(writes[1]) <=> e.type = "interrupt"
    BY <1>1 DEF IsAsking
<1>5. e.type = "resume" => phase = "return"
    BY <1>1 DEF LoopInv, TurnInv, PlaceInv
<1>6. IsAsking(writes[1]) => Len(writes) = 1 /\ ~HasPending(log)
    BY <1>1 DEF LoopInv, TurnInv, NothingPassesGate, WillAsk, CallInv, AskedIsOpen
<1>7. e = writes[1].event
    BY <1>1
<1> HIDE DEF e
<1> QED BY <1>3, <1>4, <1>5, <1>6, <1>7

LEMMA AppendEventCalls ==
    ASSUME LoopInv, CallInv, AppendEvent
    PROVE  CallInv'
<1>1. /\ Head(writes) = writes[1] /\ Len(writes') = Len(writes) - 1 /\ Len(writes) \in Nat \ {0}
      /\ \A i \in 1..Len(writes') : i + 1 \in 1..Len(writes) /\ writes'[i] = writes[i + 1]
      /\ UNCHANGED <<phase, cur, queue>>
    BY RestOfWrites DEF LoopInv, AppendEvent
<1>2. \A j \in 2..Len(writes) : j - 1 \in 1..Len(writes') /\ writes'[j - 1] = writes[j]
    BY RestWaits DEF LoopInv, AppendEvent
<1>3. /\ \A c : IsConclusionOf(writes[1], c) => Called(log, c) /\ Closed(log', c)
      /\ \A c \in Calls : Open(log', c) <=>
            \/ Open(log, c) /\ ~IsConclusionOf(writes[1], c)
            \/ IsRecordingOf(writes[1], c) /\ ~Closed(log, c)
    BY OpenMoves
<1>4. ~WillAsk'
    <2>1. ASSUME NEW i \in 1..Len(writes'), IsAsking(writes'[i]) PROVE FALSE
        <3>1. WillAsk
            BY <1>1, <2>1 DEF WillAsk
        <3>2. Len(writes) = 1
            BY <3>1 DEF LoopInv, TurnInv, NothingPassesGate
        <3> QED BY <1>1, <3>2
    <2> QED BY <2>1 DEF WillAsk
<1>5. \A c \in Calls : WillConclude(c) => WillConclude(c)' \/ IsConclusionOf(writes[1], c)
    <2>1. TAKE c \in Calls
    <2>2. HAVE WillConclude(c)
    <2>3. IsConclusionOf(Head(writes), c) \/ WillConclude(c)'
        BY <2>2, RestWaits DEF LoopInv, AppendEvent
    <2> QED BY <1>1, <2>3
<1>6. ASSUME NEW c, Waits(c), phase # "return" PROVE Waits(c)'
    <2>1. CASE HasPending(log) /\ Pending(log).call = c
        BY <1>6, <2>1, PendingMoves DEF Waits
    <2>2. ASSUME NEW i \in 1..Len(writes), IsAsking(writes[i]), writes[i].event.call = c
          PROVE  Waits(c)'
        <3>1. i = 1
            BY <2>2 DEF LoopInv, TurnInv, NothingPassesGate, WillAsk
        <3> QED BY <2>2, <3>1, PendingMoves DEF Waits
    <2> QED BY <1>6, <2>1, <2>2 DEF Waits
<1>7. \A c \in Calls : IsRecordingOf(writes[1], c) =>
          \/ phase = "return"
          \/ phase = "judge" /\ c = cur.call
          \/ phase = "drive" /\ WillConclude(c)'
    <2>1. TAKE c \in Calls
    <2>2. SUFFICES ASSUME IsRecordingOf(writes[1], c), phase # "return",
                          ~(phase = "judge" /\ c = cur.call)
                   PROVE  phase = "drive" /\ WillConclude(c)'
        OBVIOUS
    <2>3. PICK j \in (1 + 1)..Len(writes) : IsConclusionOf(writes[j], c) /\ phase = "drive"
        BY <1>1, <2>2 DEF CallInv, RecordingIsDriven
    <2>4. j \in 2..Len(writes)
        BY <2>3
    <2>5. j - 1 \in 1..Len(writes') /\ writes'[j - 1] = writes[j]
        BY <1>2, <2>4
    <2> QED BY <2>3, <2>5 DEF WillConclude
<1>8. OpenIsDriven'
    <2>1. ASSUME phase \in Busy, NEW c \in Calls, Open(log', c)
          PROVE  c \in queue \/ InHand(c)' \/ WillConclude(c)' \/ Waits(c)'
        <3>1. CASE Open(log, c) /\ ~IsConclusionOf(writes[1], c)
            <4>1. c \in queue \/ InHand(c) \/ WillConclude(c) \/ Waits(c)
                BY <2>1, <3>1 DEF CallInv, OpenIsDriven
            <4>2. InHand(c) => InHand(c)'
                BY <1>1 DEF InHand
            <4>3. phase # "return"
                BY <2>1 DEF Busy
            <4> QED BY <1>5, <1>6, <3>1, <4>1, <4>2, <4>3
        <3>2. CASE IsRecordingOf(writes[1], c)
            BY <1>1, <1>7, <2>1, <3>2 DEF InHand, Busy
        <3> QED BY <1>3, <2>1, <3>1, <3>2
    <2>2. phase \in {"turn", "compact", "ask"} => \A c \in Calls : ~Open(log', c)
        BY <1>3, <1>7 DEF CallInv, OpenIsDriven
    <2>3. phase = "leave" => \A c \in Calls : Open(log', c) => Waits(c)'
        BY <1>3, <1>6, <1>7 DEF CallInv, OpenIsDriven
    <2> QED BY <1>1, <2>1, <2>2, <2>3 DEF OpenIsDriven
<1>9. RecordingIsDriven'
    <2>1. SUFFICES ASSUME NEW i \in 1..Len(writes'), NEW c \in Calls,
                          IsRecordingOf(writes'[i], c),
                          phase # "return", ~(phase = "judge" /\ c = cur.call)
                   PROVE  /\ phase = "drive"
                          /\ \E j \in (i + 1)..Len(writes') : IsConclusionOf(writes'[j], c)
        BY <1>1 DEF RecordingIsDriven
    <2>2. PICK j \in (i + 2)..Len(writes) : IsConclusionOf(writes[j], c) /\ phase = "drive"
        BY <1>1, <2>1 DEF CallInv, RecordingIsDriven
    <2>3. j \in 2..Len(writes) /\ j - 1 \in (i + 1)..Len(writes')
        BY <1>1, <2>2
    <2> QED BY <1>2, <2>2, <2>3
<1>10. OneOpen'
    <2>1. ASSUME NEW c \in Calls, NEW d \in Calls, Open(log', c), Open(log', d)
          PROVE  c = d
        <3>1. \A x \in Calls : IsRecordingOf(writes[1], x) =>
                  \A y \in Calls : Open(log, y) \/ IsRecordingOf(writes[1], y) => y = x
            <4>1. 1 \in 1..Len(writes) /\ 1..(1 - 1) = {}
                BY <1>1
            <4>2. \A x, y : IsRecordingOf(writes[1], x) /\ IsRecordingOf(writes[1], y) => x = y
                BY DEF IsRecordingOf
            <4> QED BY <4>1, <4>2 DEF CallInv, OneToRecord
        <3> QED BY <1>3, <2>1, <3>1 DEF CallInv, OneOpen
    <2>2. ASSUME HasPending(log'), NEW c \in Calls, Open(log', c)
          PROVE  c = Pending(log').call \/ c = EditOf(Pending(log').call)
        <3>1. CASE HasPending(log) /\ Pending(log') = Pending(log)
            <4>1. CASE Open(log, c)
                BY <3>1, <4>1 DEF CallInv, OneOpen, IsOfAsked
            <4>2. CASE IsRecordingOf(writes[1], c)
                BY <1>1, <3>1, <4>2 DEF CallInv, OneToRecord, IsOfAsked
            <4> QED BY <1>3, <2>2, <4>1, <4>2
        <3>2. CASE IsAsking(writes[1]) /\ Pending(log') = writes[1].event
            <4>1. Open(log, writes[1].event.call) /\ writes[1].event.call \in Calls
                <5>1. Open(log, writes[1].event.call) /\ ToolInv
                    BY <1>1, <3>2 DEF CallInv, AskedIsOpen, LoopInv
                <5> QED BY <5>1, RequestOfCall DEF Open, ToolInv, Typed
            <4>2. Open(log, c)
                BY <1>3, <2>2, <3>2 DEF IsAsking, IsRecordingOf
            <4> QED BY <3>2, <4>1, <4>2 DEF CallInv, OneOpen
        <3> QED BY <2>2, <3>1, <3>2, PendingMoves
    <2> QED BY <2>1, <2>2 DEF OneOpen, IsOfAsked
<1>11. OneToRecord'
    <2>1. SUFFICES ASSUME NEW i \in 1..Len(writes'), NEW c \in Calls, IsRecordingOf(writes'[i], c)
                   PROVE  /\ \A j \in 1..Len(writes'), d \in Calls :
                                IsRecordingOf(writes'[j], d) => i = j
                          /\ \A d \in Calls : Open(log', d) =>
                                d = c \/ \E j \in 1..(i - 1) : IsConclusionOf(writes'[j], d)
                          /\ HasPending(log') =>
                                c = Pending(log').call \/ c = EditOf(Pending(log').call)
        BY DEF OneToRecord, IsOfAsked
    <2>2. /\ \A j \in 1..Len(writes), d \in Calls : IsRecordingOf(writes[j], d) => i + 1 = j
          /\ \A d \in Calls : Open(log, d) =>
                d = c \/ \E j \in 1..i : IsConclusionOf(writes[j], d)
          /\ HasPending(log) => IsOfAsked(c)
        BY <1>1, <2>1 DEF CallInv, OneToRecord
    <2>3. ASSUME NEW j \in 1..Len(writes'), NEW d \in Calls, IsRecordingOf(writes'[j], d)
          PROVE  i = j
        <3>1. j + 1 \in 1..Len(writes) /\ writes'[j] = writes[j + 1]
            BY <1>1
        <3>2. i + 1 = j + 1
            BY <2>2, <2>3, <3>1
        <3> QED BY <3>2
    <2>4. ASSUME NEW d, NEW j \in 1..i, IsConclusionOf(writes[j], d), ~IsConclusionOf(writes[1], d)
          PROVE  \E l \in 1..(i - 1) : IsConclusionOf(writes'[l], d)
        <3>1. j # 1
            BY <2>4
        <3>2. j \in 2..Len(writes) /\ j - 1 \in 1..(i - 1)
            BY <1>1, <3>1
        <3> QED BY <1>2, <2>4, <3>2
    <2>5. \A d \in Calls : ~IsRecordingOf(writes[1], d)
        <3>1. i + 1 # 1 /\ 1 \in 1..Len(writes)
            BY <1>1
        <3> QED BY <2>2, <3>1
    <2>6. \A d \in Calls : Open(log', d) =>
              d = c \/ \E j \in 1..(i - 1) : IsConclusionOf(writes'[j], d)
        BY <1>3, <2>2, <2>4, <2>5
    <2>7. Len(writes) # 1
        BY <1>1
    <2>8. HasPending(log') => HasPending(log) /\ Pending(log') = Pending(log)
        BY <2>7, PendingMoves
    <2> QED BY <2>2, <2>3, <2>6, <2>8 DEF IsOfAsked
<1>12. AskedIsOpen'
    BY <1>4 DEF AskedIsOpen, WillAsk
<1> QED BY <1>8, <1>9, <1>10, <1>11, <1>12 DEF CallInv

\* The call in hand is the open one.
LEMMA InHandIsOpen ==
    ASSUME LoopInv, CallInv, Called(log, cur.call), ~Closed(log, cur.call), cur \in Requests
    PROVE  Open(log, cur.call) /\ \A c \in Calls : Open(log, c) => c = cur.call
<1>1. Open(log, cur.call) /\ cur.call \in Calls
    BY DEF Open, Requests
<1> QED BY <1>1 DEF CallInv, OneOpen

LEMMA JudgeCalls ==
    ASSUME LoopInv, CallInv, JudgeCall
    PROVE  CallInv'
<1>1. PICK o \in Outcomes(cur) : Judged(o)
    BY DEF JudgeCall
<1>2. /\ phase = "judge" /\ cur \in Requests /\ UNCHANGED <<log, cur>>
      /\ Called(log, cur.call) /\ ~Closed(log, cur.call)
    BY <1>1, JudgedStep DEF LoopInv
<1>3. Open(log, cur.call) /\ \A c \in Calls : Open(log, c) => c = cur.call
    BY <1>2, InHandIsOpen
<1>4. ~HasPending(log)
    BY <1>2 DEF LoopInv, TurnInv, NothingPassesGate
<1> DEFINE q == Appending(InterruptEvent(cur.call, InterruptCount(log)))
<1>5. \/ phase' = "drive" /\ writes' = <<q>>
      \/ /\ phase' = "effect"
         /\ \/ writes' = <<>>
            \/ writes' = <<Insert("pending", Actual(cur))>>
      \/ /\ phase' = "drive"
         /\ \/ writes' = <<Reporting, Concluding(cur, "rejected")>>
            \/ writes' = <<Reporting, Concluding(cur, "unknown"), Update("unknown")>>
            \/ writes' = <<Concluding(cur, "executed"), Update("executed")>>
    BY <1>1, <1>4, JudgedStep DEF LoopInv
<1>6. IsAsking(q) /\ q.event.call = cur.call /\ \A c : ~IsRecordingOf(q, c)
    BY DEF Appending, InterruptEvent, IsAsking, IsRecordingOf
<1> HIDE DEF q
<1>7. \A w \in {Insert("pending", Actual(cur)), Reporting, Concluding(cur, "rejected"),
               Concluding(cur, "unknown"), Concluding(cur, "executed"),
               Update("unknown"), Update("executed")} :
          ~IsAsking(w) /\ \A c : ~IsRecordingOf(w, c)
    BY WhatWritesDo DEF IsAsking, IsRecordingOf
<1>8. CASE phase' = "drive" /\ writes' = <<q>>
    <2>1. Len(writes') = 1 /\ writes'[1] = q /\ \A i \in 1..Len(writes') : writes'[i] = q
        BY <1>8
    <2>2. Waits(cur.call)'
        BY <1>2, <1>6, <2>1 DEF Waits
    <2>3. OpenIsDriven'
        BY <1>2, <1>3, <1>8, <2>2 DEF OpenIsDriven
    <2>4. AskedIsOpen'
        BY <1>2, <1>3, <1>4, <1>6, <2>1 DEF AskedIsOpen
    <2>5. OneOpen'
        BY <1>2 DEF CallInv, OneOpen, IsOfAsked
    <2>6. RecordingIsDriven' /\ OneToRecord'
        BY <1>6, <2>1 DEF RecordingIsDriven, OneToRecord
    <2> QED BY <2>3, <2>4, <2>5, <2>6 DEF CallInv
<1>9. CASE /\ phase' = "effect"
           /\ \/ writes' = <<>>
              \/ writes' = <<Insert("pending", Actual(cur))>>
    <2>1. \A i \in 1..Len(writes') : writes'[i] = Insert("pending", Actual(cur))
        BY <1>9
    <2>2. OpenIsDriven'
        BY <1>2, <1>3, <1>9 DEF OpenIsDriven, InHand
    <2> QED BY <1>2, <1>7, <2>1, <2>2, CallsStay DEF CallInv
<1>10. CASE /\ phase' = "drive"
            /\ \/ writes' = <<Reporting, Concluding(cur, "rejected")>>
               \/ writes' = <<Reporting, Concluding(cur, "unknown"), Update("unknown")>>
               \/ writes' = <<Concluding(cur, "executed"), Update("executed")>>
    <2>1. \A i \in 1..Len(writes') :
              writes'[i] \in {Reporting, Concluding(cur, "rejected"), Concluding(cur, "unknown"),
                              Concluding(cur, "executed"), Update("unknown"), Update("executed")}
        BY <1>10
    <2>2. \A s : IsConclusionOf(Concluding(cur, s), cur.call)
        BY WhatWritesDo DEF IsConclusionOf
    <2>3. WillConclude(cur.call)'
        <3>1. CASE writes' = <<Concluding(cur, "executed"), Update("executed")>>
            <4>1. 1 \in 1..Len(writes') /\ writes'[1] = Concluding(cur, "executed")
                BY <3>1
            <4> QED BY <1>2, <2>2, <4>1 DEF WillConclude
        <3>2. CASE \/ writes' = <<Reporting, Concluding(cur, "rejected")>>
                   \/ writes' = <<Reporting, Concluding(cur, "unknown"), Update("unknown")>>
            <4>1. /\ 2 \in 1..Len(writes')
                  /\ writes'[2] \in {Concluding(cur, "rejected"), Concluding(cur, "unknown")}
                BY <3>2
            <4> QED BY <1>2, <2>2, <4>1 DEF WillConclude
        <3> QED BY <1>10, <3>1, <3>2
    <2>4. OpenIsDriven'
        BY <1>2, <1>3, <1>10, <2>3 DEF OpenIsDriven
    <2> QED BY <1>2, <1>7, <2>1, <2>4, CallsStay DEF CallInv
<1> QED BY <1>5, <1>8, <1>9, <1>10

LEMMA ToolEndCalls ==
    ASSUME LoopInv, CallInv, ToolReturns \/ _handle_tool_failure
    PROVE  CallInv'
<1>1. ToolInv
    BY DEF LoopInv
<1>2. /\ phase' = "drive" /\ cur \in Requests /\ UNCHANGED <<log, cur>>
      /\ Called(log, cur.call) /\ ~Closed(log, cur.call)
    BY <1>1, ToolEnd
<1>3. \A c \in Calls : Open(log, c) => c = cur.call
    BY <1>2, InHandIsOpen
<1>4. PICK s \in Statuses, w \in WriteItems :
          /\ IsRowWrite(w)
          /\ writes' \in {<<Concluding(cur, s), w>>, <<Reporting, Concluding(cur, s), w>>}
    BY <1>1, ToolEnd
<1>5. \A i \in 1..Len(writes') : ~IsAsking(writes'[i]) /\ \A c : ~IsRecordingOf(writes'[i], c)
    <2>1. \A i \in 1..Len(writes') : writes'[i] \in {Concluding(cur, s), Reporting, w}
        BY <1>4
    <2>2. \A x \in {Concluding(cur, s), Reporting, w} :
              ~IsAsking(x) /\ \A c : ~IsRecordingOf(x, c)
        BY <1>4, WhatWritesDo DEF IsAsking, IsRecordingOf, IsRowWrite
    <2> QED BY <2>1, <2>2
<1>6. WillConclude(cur.call)'
    <2>1. IsConclusionOf(Concluding(cur, s), cur.call)
        BY WhatWritesDo DEF IsConclusionOf
    <2>2. \E i \in 1..Len(writes') : writes'[i] = Concluding(cur, s)
        <3>1. CASE writes' = <<Concluding(cur, s), w>>
            <4>1. 1 \in 1..Len(writes') /\ writes'[1] = Concluding(cur, s)
                BY <3>1
            <4> QED BY <4>1
        <3>2. CASE writes' = <<Reporting, Concluding(cur, s), w>>
            <4>1. 2 \in 1..Len(writes') /\ writes'[2] = Concluding(cur, s)
                BY <3>2
            <4> QED BY <4>1
        <3> QED BY <1>4, <3>1, <3>2
    <2> QED BY <1>2, <2>1, <2>2 DEF WillConclude
<1>7. OpenIsDriven'
    BY <1>2, <1>3, <1>6 DEF OpenIsDriven
<1> QED BY <1>2, <1>5, <1>7, CallsStay DEF CallInv

\* execute takes up the one call that may be open.
LEMMA ExecuteCalls ==
    ASSUME LoopInv, CallInv, NEW k \in Requests, execute(k), phase = "drive", writes = <<>>,
           ~HasPending(log), log' = log,
           \A c \in Calls : Open(log, c) => c = k.call \/ (Closed(log, k.call) /\ c \in queue')
    PROVE  CallInv'
<1>1. /\ \A i \in 1..Len(writes') :
            /\ ~IsAsking(writes'[i])
            /\ \A c : IsRecordingOf(writes'[i], c) =>
                  /\ c = k.call
                  /\ \/ phase' = "judge" /\ cur' = k /\ ~Called(log, c)
                     \/ \E j \in (i + 1)..Len(writes') : IsConclusionOf(writes'[j], c)
      /\ phase' \in {"drive", "judge"}
      /\ phase' = "judge" => cur' = k
      /\ ~Closed(log, k.call) =>
            \/ phase' = "judge" /\ cur' = k
            \/ \E i \in 1..Len(writes') : IsConclusionOf(writes'[i], k.call)
    BY ExecuteDrives DEF LoopInv
<1>2. \A i \in 1..Len(writes'), c \in Calls : IsRecordingOf(writes'[i], c) =>
          i = 1 /\ ~Closed(log, k.call)
    <2>1. \/ writes' = <<>>
          \/ ~Closed(log, k.call) /\ writes' = <<Recording(k)>>
          \/ ~Closed(log, k.call) /\ writes' = <<Recording(k), Reporting, Concluding(k, "failed")>>
        BY DEF execute
    <2>2. \A i \in 1..Len(writes') :
              /\ ~Closed(log, k.call)
              /\ i = 1 \/ writes'[i] = Reporting \/ writes'[i] = Concluding(k, "failed")
        BY <2>1
    <2>3. \A c : ~IsRecordingOf(Reporting, c) /\ ~IsRecordingOf(Concluding(k, "failed"), c)
        BY WhatWritesDo DEF IsRecordingOf
    <2> QED BY <2>2, <2>3
<1>3. OpenIsDriven'
    <2>1. k.call \in Calls
        BY DEF Requests
    <2>2. ASSUME NEW c \in Calls, Open(log, c)
          PROVE  c \in queue' \/ InHand(c)' \/ WillConclude(c)'
        <3>1. CASE Closed(log, k.call)
            BY <2>2, <3>1 DEF Open
        <3>2. CASE ~Closed(log, k.call)
            <4>1. c = k.call
                BY <2>2, <3>2
            <4> QED BY <1>1, <3>2, <4>1 DEF InHand, WillConclude
        <3> QED BY <3>1, <3>2
    <2> QED BY <1>1, <2>2 DEF OpenIsDriven
<1>4. RecordingIsDriven'
    BY <1>1 DEF RecordingIsDriven
<1>5. OneOpen'
    BY DEF CallInv, OneOpen, IsOfAsked
<1>6. OneToRecord'
    BY <1>1, <1>2 DEF OneToRecord
<1>7. AskedIsOpen'
    BY <1>1 DEF AskedIsOpen
<1> QED BY <1>3, <1>4, <1>5, <1>6, <1>7 DEF CallInv

LEMMA DriverCalls ==
    ASSUME LoopInv, CallInv, resume_open_calls \/ DriveNext \/ NextOfBatch
    PROVE  CallInv'
<1>1. CASE resume_open_calls
    <2>1. /\ queue' = OpenCalls(log) /\ phase' = "drive" /\ writes' = <<>> /\ log' = log
          /\ log \in Logs
        BY <1>1 DEF resume_open_calls, LoopInv, ToolInv, Typed
    <2>2. OpenIsDriven'
        BY <2>1, OpenCallsAre DEF OpenIsDriven
    <2> QED BY <2>1, <2>2, CallsStay DEF CallInv
<1>2. CASE DriveNext
    <2>1. PICK c \in queue :
              LET k == Request(c, ToolOf(log, c), ArgsOf(log, c))
              IN  /\ Called(log, c) /\ k \in Requests /\ k.call = c
                  /\ execute(k) /\ queue' = queue \ {c}
        BY <1>2, DrivenRequest DEF LoopInv
    <2> DEFINE k == Request(c, ToolOf(log, c), ArgsOf(log, c))
    <2>2. /\ Called(log, c) /\ k \in Requests /\ k.call = c /\ c \in Calls
          /\ execute(k) /\ queue' = queue \ {c} /\ queue # {}
        BY <2>1 DEF Requests
    <2> HIDE DEF k
    <2>3. phase = "drive" /\ writes = <<>> /\ log' = log /\ ~HasPending(log)
        BY <1>2, <2>2 DEF DriveNext, LoopInv, TurnInv, NothingPassesGate
    <2>4. \A d \in Calls : Open(log, d) => d \in queue
        BY <2>3 DEF CallInv, OpenIsDriven, Busy, InHand, WillConclude, Waits
    <2>5. ~Closed(log, c) => \A d \in Calls : Open(log, d) => d = c
        BY <2>2 DEF CallInv, OneOpen, Open
    <2>6. \A d \in Calls : Open(log, d) => d = k.call \/ (Closed(log, k.call) /\ d \in queue')
        BY <2>2, <2>4, <2>5
    <2> QED BY <2>2, <2>3, <2>6, ExecuteCalls
<1>3. CASE NextOfBatch
    <2> DEFINE k == Head(loop.batch)
    <2>1. k \in Requests /\ execute(k) /\ ~Called(log, k.call)
        BY <1>3, BatchMoves DEF NextOfBatch
    <2> HIDE DEF k
    <2>2. /\ phase = "drive" /\ writes = <<>> /\ log' = log /\ ~HasPending(log) /\ queue = {}
          /\ loop.stage = "turn"
        BY <1>3 DEF NextOfBatch, durable, LoopInv, TurnInv, NothingPassesGate, PlaceInv
    <2>3. \A d \in Calls : ~Open(log, d)
        BY <2>2 DEF CallInv, OpenIsDriven, Busy, InHand, WillConclude, Waits
    <2> QED BY <2>1, <2>2, <2>3, ExecuteCalls
<1> QED BY <1>1, <1>2, <1>3

LEMMA AnswerCalls ==
    ASSUME LoopInv, CallInv, NEW d \in Decisions, NEW a \in Args, NEW s \in Scopes,
           approve(d, a, s)
    PROVE  CallInv'
<1>1. ToolInv /\ phase' = "return" /\ decide(d, a, s)
    BY DEF LoopInv, approve
<1>2. UNCHANGED log /\ HasPending(log)
    BY <1>1, DecideIs
<1>3. OpenIsDriven' /\ RecordingIsDriven'
    BY <1>1 DEF OpenIsDriven, Busy, RecordingIsDriven
<1>4. OneOpen'
    BY <1>2 DEF CallInv, OneOpen, IsOfAsked
<1>5. Asked.call = Pending(log).call
    BY <1>1, <1>2, AskedIs
<1>6. /\ \A x \in {Concluding(Asked, "rejected"), Concluding(Asked, "superseded"),
                   Approving(d, a, s), Resuming} : ~IsAsking(x) /\ \A c : ~IsRecordingOf(x, c)
      /\ ~IsAsking(Rerecording(a))
      /\ \A c : IsRecordingOf(Rerecording(a), c) => c = Target(a)
      /\ IsConclusionOf(Concluding(Asked, "superseded"), Asked.call)
    <2>1. /\ Approving(d, a, s).event.type = "approval" /\ Resuming.event.type = "resume"
          /\ Rerecording(a).event.call = Target(a)
        BY <1>1, DecideIs
    <2>2. Rerecording(a).event.type = "tool_call"
        BY WhatWritesDo DEF Rerecording
    <2> QED BY <2>1, <2>2, WhatWritesDo DEF IsAsking, IsRecordingOf, IsConclusionOf
<1>7. CASE writes' \in {<<Concluding(Asked, "rejected"), Approving(d, a, s), Resuming>>,
                        <<Approving(d, a, s), Resuming>>}
    <2>1. \A i \in 1..Len(writes') :
              writes'[i] \in {Concluding(Asked, "rejected"), Approving(d, a, s), Resuming}
        BY <1>7
    <2> QED BY <1>2, <1>3, <1>6, <2>1, CallsStay DEF CallInv
<1>8. CASE /\ a # Asked.args
           /\ writes' = <<Concluding(Asked, "superseded"), Rerecording(a),
                          Approving(d, a, s), Resuming>>
    <2>1. /\ Len(writes') = 4 /\ writes'[1] = Concluding(Asked, "superseded")
          /\ writes'[2] = Rerecording(a)
          /\ writes'[3] = Approving(d, a, s) /\ writes'[4] = Resuming
        BY <1>8
    <2>2. \A i \in 1..Len(writes') : i = 1 \/ i = 2 \/ i = 3 \/ i = 4
        BY <2>1
    <2>3. \A i \in 1..Len(writes'), c \in Calls : IsRecordingOf(writes'[i], c) =>
              i = 2 /\ c = EditOf(Pending(log).call)
        BY <1>5, <1>6, <1>8, <2>1, <2>2 DEF Target
    <2>4. AskedIsOpen'
        BY <1>6, <2>1, <2>2 DEF AskedIsOpen
    <2>5. OneToRecord'
        <3>1. \A c \in Calls : Open(log, c) =>
                  c = EditOf(Pending(log).call) \/ IsConclusionOf(writes'[1], c)
            BY <1>2, <1>5, <1>6, <2>1 DEF CallInv, OneOpen, IsOfAsked
        <3>2. SUFFICES ASSUME NEW i \in 1..Len(writes'), NEW c \in Calls,
                              IsRecordingOf(writes'[i], c)
                       PROVE  /\ \A j \in 1..Len(writes'), e \in Calls :
                                     IsRecordingOf(writes'[j], e) => i = j
                              /\ \A e \in Calls : Open(log, e) =>
                                     e = c \/ \E j \in 1..(i - 1) :
                                                IsConclusionOf(writes'[j], e)
                              /\ HasPending(log) => IsOfAsked(c)
            BY <1>2, <3>2 DEF OneToRecord, IsOfAsked
        <3>3. i = 2 /\ c = EditOf(Pending(log).call)
            BY <2>3, <3>2
        <3>4. \A j \in 1..Len(writes'), e \in Calls : IsRecordingOf(writes'[j], e) => i = j
            BY <2>3, <3>3
        <3>5. 1 \in 1..(i - 1)
            BY <3>3
        <3> QED BY <3>1, <3>3, <3>4, <3>5 DEF IsOfAsked
    <2> QED BY <1>3, <1>4, <2>4, <2>5 DEF CallInv
<1> QED BY <1>1, <1>7, <1>8, DecideIs

LEMMA CallsKeep ==
    ASSUME LoopInv, CallInv, [Next]_vars
    PROVE  CallInv'
<1>1. LoopInv'
    BY LoopKeeps
<1>2. CASE start \/ resume \/ Return \/ Crash \/ CompactionOverBudget
    BY <1>1, <1>2, TurnsOfProcess, OwnStepCalls
<1>3. CASE AfterRecovery \/ _commit \/ Leave
    BY <1>1, <1>3, TurnsOfLoop, OwnStepCalls
<1>4. CASE Turn \/ WithoutCompaction \/ compact \/ AskOverBudget \/ AskOverflows
    BY <1>1, <1>4, TurnsToAsk, OwnStepCalls
<1>5. CASE AskReplies
    BY <1>1, <1>5, Replies, OwnStepCalls
<1>6. CASE AppendEvent
    BY <1>6, AppendEventCalls
<1>7. CASE WriteRow \/ RefreshStatus \/ WriteCheckpoint
    <2>1. /\ writes # <<>> /\ writes' = Tail(writes) /\ Head(writes).kind # "append"
          /\ UNCHANGED <<log, phase, cur, queue>>
        BY <1>7 DEF WriteRow, RefreshStatus, WriteCheckpoint, durable
    <2> QED BY <2>1, OtherWriteCalls
<1>8. CASE ToolReturns \/ _handle_tool_failure
    BY <1>8, ToolEndCalls
<1>9. CASE JudgeCall
    BY <1>9, JudgeCalls
<1>10. CASE resume_open_calls \/ DriveNext \/ NextOfBatch
    BY <1>10, DriverCalls
<1>11. CASE Human
    BY <1>11, AnswerCalls DEF Human
<1>12. CASE Clock \/ UNCHANGED vars
    <2>1. UNCHANGED <<log, phase, writes, cur, queue>>
        BY <1>12 DEF Clock, TimePasses, durable, volatile, vars
    <2> QED BY <2>1 DEF CallInv, OpenIsDriven, InHand, WillConclude, Waits, RecordingIsDriven,
                        OneOpen, OneToRecord, AskedIsOpen, IsOfAsked
<1> QED BY <1>2, <1>3, <1>4, <1>5, <1>6, <1>7, <1>8, <1>9, <1>10, <1>11, <1>12
        DEF Next, Process, Pipeline, Write

LEMMA CallsStart ==
    ASSUME Init
    PROVE  CallInv
<1>1. log \in Logs /\ Len(log) = 0 /\ writes = <<>> /\ phase = "down" /\ ~HasPending(log)
    BY LoopStarts DEF Init, LoopInv, ToolInv, Typed, HasPending, PendingInterrupts
<1>2. \A c : ~Open(log, c)
    BY <1>1, CalledMeans DEF Open
<1> QED BY <1>1, <1>2 DEF CallInv, OpenIsDriven, Busy, RecordingIsDriven, OneOpen, OneToRecord,
                           AskedIsOpen

THEOREM CallsAlways == Spec => []CallInv
<1>1. LoopInv /\ CallInv /\ [Next]_vars => CallInv'
    BY CallsKeep
<1> QED BY <1>1, CallsStart, LoopAlways, PTL DEF Spec

\* The model is never asked to go on while a call it made has no conclusion: what
\* was open before, recovery and the gate have settled.
THEOREM ModelSeesNoOpenCall == Spec => []NoOpenCallWhenAsked
<1>1. ASSUME LoopInv, CallInv PROVE NoOpenCallWhenAsked
    <2>1. SUFFICES ASSUME phase \in {"compact", "ask"} PROVE OpenCalls(log) = {}
        BY DEF NoOpenCallWhenAsked
    <2>2. \A c \in Calls : ~Open(log, c)
        BY <1>1, <2>1 DEF CallInv, OpenIsDriven
    <2>3. \A c \in OpenCalls(log) : Open(log, c) /\ Called(log, c)
        BY DEF OpenCalls, Open
    <2>4. log \in Logs
        BY <1>1 DEF LoopInv, ToolInv, Typed
    <2>5. OpenCalls(log) \subseteq Calls
        BY <2>3, <2>4, RequestOfCall
    <2> QED BY <2>2, <2>3, <2>5
<1> QED BY <1>1, LoopAlways, CallsAlways, PTL

-----------------------------------------------------------------------------
(* Checkpoints stand for a log in which nothing is left half done *)

IsCommit(w) == w.kind \in {"tasks", "checkpoint"}

\* A checkpoint is on its way to the store only where nothing is open but the
\* call that waits, and then it is all that is on its way.
CommitsAreAtBoundaries ==
    (\E i \in 1..Len(writes) : IsCommit(writes[i])) =>
        /\ \A i \in 1..Len(writes) : IsCommit(writes[i])
        /\ \A c \in Calls : Open(log, c) => HasPending(log) /\ Pending(log).call = c

TasksAreConcluded ==
    \A i \in 1..Len(writes) :
        writes[i].kind = "tasks" => \A c \in writes[i].tasks : Closed(log, c)

\* What the turn counts as done is concluded, or is being concluded.
DoneAreConcluded ==
    /\ \A c \in loop.done : Closed(log, c) \/ InHand(c) \/ WillConclude(c)
    /\ \A c \in taskWrites : Closed(log, c)

CommittedAreConcluded ==
    /\ checkpoint.last \in 0..Len(log)
    /\ CheckpointsAreAtBoundaries
    /\ CompletedTasksAreConcluded

CommitInv ==
    CommitsAreAtBoundaries /\ TasksAreConcluded /\ DoneAreConcluded /\ CommittedAreConcluded

\* What a checkpoint stands for is not changed by what is appended after it.
LEMMA PrefixStays ==
    ASSUME NEW l \in Logs, NEW e \in LoggedEvents, GoesOn(l), NEW n \in 0..Len(l)
    PROVE  /\ SubSeq(Append(l, e), 1, n) = SubSeq(l, 1, n)
           /\ n \in 0..Len(Append(l, e))
<1> DEFINE m == Append(l, e)
<1>1. /\ l \in Seq(LoggedEvents) /\ Len(l) \in Nat /\ m \in Seq(LoggedEvents)
      /\ Len(m) = Len(l) + 1 /\ \A i \in 1..Len(l) : m[i] = l[i]
    BY AllLive, AppendIs
<1> HIDE DEF m
<1>2. /\ n \in Nat /\ 1 \in Int /\ n \in Int
      /\ \A i \in 1..n : l[i] \in LoggedEvents /\ m[i] = l[i]
    BY <1>1, ElementOfSeq
<1> DEFINE s == SubSeq(l, 1, n)
           t == SubSeq(m, 1, n)
<1>3. /\ s \in Seq(LoggedEvents) /\ Len(s) = IF 1 <= n THEN n - 1 + 1 ELSE 0
      /\ \A i \in 1..(n - 1 + 1) : s[i] = l[1 + i - 1]
    BY <1>2, SubSeqProperties
<1>4. /\ t \in Seq(LoggedEvents) /\ Len(t) = IF 1 <= n THEN n - 1 + 1 ELSE 0
      /\ \A i \in 1..(n - 1 + 1) : t[i] = m[1 + i - 1]
    BY <1>2, SubSeqProperties
<1> HIDE DEF s, t
<1>5. Len(s) = n /\ Len(t) = n /\ \A i \in 1..n : s[i] = l[i] /\ t[i] = m[i]
    BY <1>2, <1>3, <1>4
<1>6. s = t
    BY <1>2, <1>3, <1>4, <1>5, SeqEqual
<1> QED BY <1>1, <1>2, <1>6 DEF s, t, m

\* Most steps leave the log and the checkpoint alone and have none to write.
LEMMA NoCommitMade ==
    ASSUME CommitInv, UNCHANGED <<log, checkpoint>>,
           \A c \in taskWrites' : Closed(log, c),
           \A i \in 1..Len(writes') : ~IsCommit(writes'[i]),
           \A c \in loop'.done : Closed(log, c) \/ InHand(c)' \/ WillConclude(c)'
    PROVE  CommitInv'
<1>1. CommitsAreAtBoundaries' /\ TasksAreConcluded'
    BY DEF CommitsAreAtBoundaries, TasksAreConcluded, IsCommit
<1>2. DoneAreConcluded'
    BY DEF DoneAreConcluded
<1>3. CommittedAreConcluded'
    BY DEF CommitInv, CommittedAreConcluded, CheckpointsAreAtBoundaries,
           CompletedTasksAreConcluded, CommittedLog
<1> QED BY <1>1, <1>2, <1>3 DEF CommitInv

LEMMA PipelineMakesNoCommit ==
    /\ \A e : ~IsCommit(Appending(e))
    /\ \A k : ~IsCommit(Recording(k))
    /\ \A k, s : ~IsCommit(Concluding(k, s))
    /\ ~IsCommit(Reporting) /\ ~IsCommit(Refresh) /\ ~IsCommit(Fatal)
    /\ \A cost : ~IsCommit(Charge(cost))
    /\ \A s, a : ~IsCommit(Insert(s, a)) /\ ~IsCommit(Update(s))
BY WhatWritesDo DEF IsCommit, Fatal, Charge

\* At the end of recovery and of a turn nothing is in hand.
LEMMA CommitIsMade ==
    ASSUME LoopInv, CallInv, CommitInv, AfterRecovery \/ _commit
    PROVE  CommitInv'
<1>1. /\ phase = "drive" /\ writes = <<>> /\ queue = {} /\ phase' \in {"return", "turn", "leave"}
      /\ UNCHANGED <<log, checkpoint>> /\ taskWrites' = {} /\ loop'.done = loop.done
      /\ writes' \in {<<>>, <<PutCheckpoint>>, <<PutWrites(loop.done), PutCheckpoint>>}
    BY DEF AfterRecovery, _commit, PhaseAfterRecovery, durable, LoopInv, LoopTyped, TurnInv,
           PlaceInv
<1>2. /\ \A c \in Calls : Open(log, c) => HasPending(log) /\ Pending(log).call = c
      /\ \A c \in loop.done : Closed(log, c)
    BY <1>1 DEF CallInv, OpenIsDriven, Busy, InHand, WillConclude, Waits, CommitInv,
                DoneAreConcluded
<1>3. \A i \in 1..Len(writes') : writes'[i] \in {PutCheckpoint, PutWrites(loop.done)}
    BY <1>1
<1>4. /\ IsCommit(PutCheckpoint) /\ IsCommit(PutWrites(loop.done))
      /\ PutCheckpoint.kind # "tasks" /\ PutWrites(loop.done).tasks = loop.done
    BY DEF PutCheckpoint, PutWrites, IsCommit
<1>5. CommitsAreAtBoundaries'
    BY <1>1, <1>2, <1>3, <1>4 DEF CommitsAreAtBoundaries
<1>6. TasksAreConcluded'
    <2> SUFFICES ASSUME NEW i \in 1..Len(writes'), writes'[i].kind = "tasks"
                 PROVE  \A c \in writes'[i].tasks : Closed(log', c)
        BY DEF TasksAreConcluded
    <2>1. writes'[i] = PutWrites(loop.done)
        BY <1>3, <1>4
    <2> QED BY <1>1, <1>2, <1>4, <2>1
<1>7. DoneAreConcluded'
    BY <1>1, <1>2 DEF DoneAreConcluded
<1>8. CommittedAreConcluded'
    BY <1>1 DEF CommitInv, CommittedAreConcluded, CheckpointsAreAtBoundaries,
                CompletedTasksAreConcluded, CommittedLog
<1> QED BY <1>5, <1>6, <1>7, <1>8 DEF CommitInv

\* The other steps of the loop's own.
LEMMA OwnStepCommits ==
    ASSUME LoopInv, CommitInv,
           \/ start \/ resume \/ Return \/ Crash \/ CompactionOverBudget \/ Leave
           \/ Turn \/ WithoutCompaction \/ compact \/ AskOverBudget \/ AskOverflows
           \/ AskReplies
    PROVE  CommitInv'
<1>1. UNCHANGED <<log, checkpoint, taskWrites>>
    BY DEF start, resume, Return, Crash, CompactionOverBudget, Leave, Turn, WithoutCompaction,
           compact, AskOverBudget, AskOverflows, AskReplies, durable, kept
<1>2. \A c \in taskWrites' : Closed(log, c)
    BY <1>1 DEF CommitInv, DoneAreConcluded
<1>3. \A c \in loop'.done : Closed(log, c)
    <2>1. CASE start \/ resume \/ Return \/ Crash \/ CompactionOverBudget
        <3>1. loop'.done = {}
            BY <2>1 DEF start, resume, Return, Crash, CompactionOverBudget, AtRest
        <3> QED BY <3>1
    <2>2. CASE Turn /\ phase' = "compact"
        <3>1. loop'.done = {}
            BY <2>2 DEF Turn, LoopInv, LoopTyped
        <3> QED BY <3>1
    <2>3. CASE \/ Turn /\ phase' # "compact"
               \/ Leave \/ WithoutCompaction \/ compact \/ AskOverBudget \/ AskOverflows
               \/ AskReplies
        <3>1. writes = <<>> /\ phase \in {"leave", "turn", "compact", "ask"}
            BY <2>3 DEF Leave, Turn, WithoutCompaction, compact, AskOverBudget, AskOverflows,
                        AskReplies
        <3>2. loop'.done = loop.done
            BY <2>3 DEF Leave, Turn, WithoutCompaction, compact, AskOverBudget, AskOverflows,
                        AskReplies, LoopInv, LoopTyped
        <3>3. \A c \in loop.done : Closed(log, c)
            BY <3>1 DEF CommitInv, DoneAreConcluded, InHand, WillConclude
        <3> QED BY <3>1, <3>2, <3>3
    <2> QED BY <2>1, <2>2, <2>3
<1>4. \A i \in 1..Len(writes') : ~IsCommit(writes'[i])
    <2>1. CASE start \/ resume \/ Return \/ Crash \/ CompactionOverBudget \/ Turn
        <3>1. writes' = <<>> \/ writes' = <<Appending(UserMessage)>>
            BY <2>1, NothingInHand DEF start, resume, Return, Crash, CompactionOverBudget, Turn
        <3> QED BY <3>1, PipelineMakesNoCommit
    <2>2. CASE Leave
        <3>1. writes' = <<Refresh>>
            BY <2>2 DEF Leave, StatusAtExit
        <3> QED BY <3>1, PipelineMakesNoCommit
    <2>3. CASE WithoutCompaction \/ AskOverBudget \/ AskOverflows
        <3>1. writes' \in {<<>>, <<Reporting>>, <<Fatal>>, Append(<<>>, Fatal),
                           Append(<<Reporting>>, Fatal)}
            BY <2>3 DEF WithoutCompaction, AskOverBudget, AskOverflows, Unsummarised
        <3>2. writes' \in {<<>>, <<Reporting>>, <<Fatal>>, <<Reporting, Fatal>>}
            BY <3>1, AppendedLists
        <3> QED BY <3>2, PipelineMakesNoCommit
    <2>4. CASE compact
        <3>1. PICK cost \in Costs : writes' = <<Charge(cost),
                                       Appending(CompactionEvent(Victims(log, Keep)))>>
            BY <2>4 DEF compact
        <3> QED BY <3>1, PipelineMakesNoCommit
    <2>5. CASE AskReplies
        <3>1. PICK b \in Batches, cost \in Costs :
                  writes' \in {<<Charge(cost), Appending(AgentMessage(b = <<>>))>>,
                               <<Charge(cost), Fatal>>}
            BY <2>5 DEF AskReplies
        <3> QED BY <3>1, PipelineMakesNoCommit
    <2> QED BY <2>1, <2>2, <2>3, <2>4, <2>5
<1> QED BY <1>1, <1>2, <1>3, <1>4, NoCommitMade

\* The three kinds of durable write.
LEMMA AppendEventCommits ==
    ASSUME LoopInv, CallInv, CommitInv, AppendEvent, UNCHANGED <<loop, checkpoint, taskWrites>>
    PROVE  CommitInv'
<1>1. PICK e \in LoggedEvents : e = Head(writes).event
    BY AppendEventLog DEF LoopInv
<1>2. /\ log \in Logs /\ GoesOn(log) /\ log' = Append(log, e)
      /\ \A c : Closed(log, c) => Closed(log', c)
    BY <1>1, AppendEventLog DEF LoopInv
<1>3. /\ writes # <<>> /\ Head(writes).kind = "append" /\ writes' = Tail(writes)
      /\ UNCHANGED <<phase, cur>>
    BY DEF AppendEvent
<1>4. /\ Head(writes) = writes[1] /\ Len(writes) \in Nat \ {0}
      /\ \A i \in 1..Len(writes') : i + 1 \in 1..Len(writes) /\ writes'[i] = writes[i + 1]
    BY <1>3, RestOfWrites DEF LoopInv
<1>5. \A i \in 1..Len(writes') : ~IsCommit(writes'[i])
    BY <1>3, <1>4 DEF CommitInv, CommitsAreAtBoundaries, IsCommit
<1>6. CommitsAreAtBoundaries' /\ TasksAreConcluded'
    BY <1>5 DEF CommitsAreAtBoundaries, TasksAreConcluded, IsCommit
<1>7. DoneAreConcluded'
    <2>1. ASSUME NEW c, Closed(log, c) \/ InHand(c) \/ WillConclude(c)
          PROVE  Closed(log', c) \/ InHand(c)' \/ WillConclude(c)'
        <3>1. CASE Closed(log, c)
            BY <1>2, <3>1
        <3>2. CASE InHand(c)
            BY <1>3, <3>2 DEF InHand
        <3>3. CASE WillConclude(c)
            <4>1. IsConclusionOf(writes[1], c) \/ WillConclude(c)'
                BY <1>3, <1>4, <3>3, RestWaits DEF LoopInv
            <4>2. IsConclusionOf(writes[1], c) => Closed(log', c)
                BY OpenMoves
            <4> QED BY <4>1, <4>2
        <3> QED BY <2>1, <3>1, <3>2, <3>3
    <2> QED BY <1>2, <2>1 DEF CommitInv, DoneAreConcluded
<1>8. CommittedLog' = CommittedLog /\ checkpoint.last \in 0..Len(log')
    BY <1>2, PrefixStays DEF CommitInv, CommittedAreConcluded, CommittedLog
<1>9. CommittedAreConcluded'
    BY <1>8 DEF CommitInv, CommittedAreConcluded, CheckpointsAreAtBoundaries,
                CompletedTasksAreConcluded
<1> QED BY <1>6, <1>7, <1>9 DEF CommitInv

LEMMA OtherWriteCommits ==
    ASSUME LoopInv, CommitInv, writes # <<>>, writes' = Tail(writes),
           Head(writes).kind # "append", UNCHANGED <<log, phase, cur, loop, checkpoint>>,
           \A c \in taskWrites' : Closed(log, c)
    PROVE  /\ CommitsAreAtBoundaries' /\ TasksAreConcluded' /\ DoneAreConcluded'
           /\ CommittedAreConcluded'
<1>1. /\ Head(writes) = writes[1]
      /\ \A i \in 1..Len(writes') : i + 1 \in 1..Len(writes) /\ writes'[i] = writes[i + 1]
    BY RestOfWrites DEF LoopInv
<1>2. CommitsAreAtBoundaries' /\ TasksAreConcluded'
    BY <1>1 DEF CommitInv, CommitsAreAtBoundaries, TasksAreConcluded
<1>3. \A c : WillConclude(c) => WillConclude(c)'
    <2>1. TAKE c
    <2>2. HAVE WillConclude(c)
    <2>3. IsConclusionOf(Head(writes), c) \/ WillConclude(c)'
        BY <2>2, RestWaits DEF LoopInv
    <2> QED BY <2>3 DEF IsConclusionOf
<1>4. DoneAreConcluded'
    BY <1>3 DEF CommitInv, DoneAreConcluded, InHand
<1>5. CommittedAreConcluded'
    BY DEF CommitInv, CommittedAreConcluded, CheckpointsAreAtBoundaries,
           CompletedTasksAreConcluded, CommittedLog
<1> QED BY <1>2, <1>4, <1>5

LEMMA WriteCheckpointCommits ==
    ASSUME LoopInv, CommitInv, WriteCheckpoint
    PROVE  CommitInv'
<1>1. /\ writes # <<>> /\ writes' = Tail(writes) /\ Head(writes).kind # "append"
      /\ UNCHANGED <<log, phase, cur, loop>>
      /\ Head(writes) = writes[1] /\ 1 \in 1..Len(writes)
      /\ \A i \in 1..Len(writes') : i + 1 \in 1..Len(writes) /\ writes'[i] = writes[i + 1]
    BY RestOfWrites DEF WriteCheckpoint, durable, LoopInv
<1>2. CASE Head(writes).kind = "tasks"
    <2>1. UNCHANGED checkpoint /\ \A c \in taskWrites' : Closed(log, c)
        BY <1>1, <1>2 DEF WriteCheckpoint, CommitInv, TasksAreConcluded
    <2> QED BY <1>1, <2>1, OtherWriteCommits DEF CommitInv
<1>3. CASE Head(writes).kind = "checkpoint"
    <2>1. /\ taskWrites' = taskWrites
          /\ checkpoint' = [tasks |-> taskWrites, last |-> Len(log)]
        BY <1>3 DEF WriteCheckpoint
    <2>2. CommitsAreAtBoundaries' /\ TasksAreConcluded'
        BY <1>1 DEF CommitInv, CommitsAreAtBoundaries, TasksAreConcluded
    <2>3. \A c : WillConclude(c) => WillConclude(c)'
        <3>1. TAKE c
        <3>2. HAVE WillConclude(c)
        <3>3. IsConclusionOf(Head(writes), c) \/ WillConclude(c)'
            BY <1>1, <3>2, RestWaits DEF LoopInv
        <3> QED BY <1>1, <3>3 DEF IsConclusionOf
    <2>4. DoneAreConcluded'
        BY <1>1, <2>1, <2>3 DEF CommitInv, DoneAreConcluded, InHand
    <2>5. log \in Logs /\ log \in Seq(LoggedEvents) /\ Len(log) \in Nat
        BY AllLive DEF LoopInv, ToolInv, Typed
    <2>6. CommittedLog' = log /\ checkpoint'.tasks = taskWrites
          /\ checkpoint'.last \in 0..Len(log')
        BY <1>1, <2>1, <2>5, SubSeqFull DEF CommittedLog
    <2>7. CompletedTasksAreConcluded'
        BY <2>6 DEF CompletedTasksAreConcluded, CommitInv, DoneAreConcluded
    <2>8. CheckpointsAreAtBoundaries'
        <3>1. \A c \in OpenCalls(log) : Open(log, c) /\ c \in Calls
            BY <2>5, RequestOfCall DEF OpenCalls, Open
        <3>2. \A c \in Calls : Open(log, c) => HasPending(log) /\ Pending(log).call = c
            BY <1>1, <1>3 DEF CommitInv, CommitsAreAtBoundaries, IsCommit
        <3> QED BY <2>6, <3>1, <3>2 DEF CheckpointsAreAtBoundaries
    <2> QED BY <2>2, <2>4, <2>6, <2>7, <2>8 DEF CommitInv, CommittedAreConcluded
<1> QED BY <1>2, <1>3 DEF WriteCheckpoint

LEMMA JudgeCommits ==
    ASSUME LoopInv, CallInv, CommitInv, JudgeCall
    PROVE  CommitInv'
<1>1. PICK o \in Outcomes(cur) :
          /\ Judged(o)
          /\ loop' = IF o = "asked"
                     THEN [loop EXCEPT !.batch = <<>>, !.interrupted = TRUE,
                                       !.done = DoneAtGate]
                     ELSE loop
    BY DEF JudgeCall
<1>2. /\ phase = "judge" /\ writes = <<>> /\ cur \in Requests
      /\ UNCHANGED <<log, cur, checkpoint, taskWrites>>
      /\ ~HasPending(log)
    BY <1>1, JudgedStep DEF LoopInv, JudgeCall, kept, TurnInv, NothingPassesGate
<1> DEFINE q == Appending(InterruptEvent(cur.call, InterruptCount(log)))
<1>3. \/ o = "asked" /\ writes' = <<q>>
      \/ /\ o # "asked" /\ phase' = "effect"
         /\ \/ writes' = <<>>
            \/ writes' = <<Insert("pending", Actual(cur))>>
      \/ /\ o # "asked" /\ phase' = "drive"
         /\ \/ writes' = <<Reporting, Concluding(cur, "rejected")>>
            \/ writes' = <<Reporting, Concluding(cur, "unknown"), Update("unknown")>>
            \/ writes' = <<Concluding(cur, "executed"), Update("executed")>>
    BY <1>1, <1>2, JudgedStep DEF LoopInv
<1>4. \A i \in 1..Len(writes') : ~IsCommit(writes'[i])
    <2>1. ~IsCommit(q)
        BY PipelineMakesNoCommit
    <2> HIDE DEF q
    <2>2. \A w \in {q, Insert("pending", Actual(cur)), Reporting, Concluding(cur, "rejected"),
                    Concluding(cur, "unknown"), Concluding(cur, "executed"),
                    Update("unknown"), Update("executed")} : ~IsCommit(w)
        BY <2>1, PipelineMakesNoCommit
    <2>3. \A i \in 1..Len(writes') :
              writes'[i] \in {q, Insert("pending", Actual(cur)), Reporting,
                              Concluding(cur, "rejected"), Concluding(cur, "unknown"),
                              Concluding(cur, "executed"), Update("unknown"),
                              Update("executed")}
        BY <1>3
    <2> QED BY <2>2, <2>3
<1>5. \A c \in loop.done : Closed(log, c) \/ c = cur.call
    BY <1>2 DEF CommitInv, DoneAreConcluded, InHand, WillConclude
<1>6. \A c \in loop'.done : Closed(log, c) \/ InHand(c)' \/ WillConclude(c)'
    <2>1. CASE o = "asked"
        <3>1. loop'.done = loop.done \ {cur.call}
            BY <1>1, <2>1 DEF DoneAtGate, LoopInv, LoopTyped
        <3> QED BY <1>5, <3>1
    <2>2. CASE o # "asked" /\ phase' = "effect"
        <3>1. loop' = loop
            BY <1>1, <2>2
        <3>2. ASSUME NEW c \in loop.done, ~Closed(log, c) PROVE InHand(c)'
            <4>1. c = cur.call
                BY <1>5, <3>2
            <4> QED BY <1>2, <2>2, <4>1 DEF InHand
        <3> QED BY <3>1, <3>2
    <2>3. CASE o # "asked" /\ phase' = "drive"
        <3>1. \A s : IsConclusionOf(Concluding(cur, s), cur.call)
            BY WhatWritesDo DEF IsConclusionOf
        <3>2. \/ 2 \in 1..Len(writes') /\ writes'[2] = Concluding(cur, "rejected")
              \/ 2 \in 1..Len(writes') /\ writes'[2] = Concluding(cur, "unknown")
              \/ 1 \in 1..Len(writes') /\ writes'[1] = Concluding(cur, "executed")
            BY <1>3, <2>3
        <3>3. \E i \in 1..Len(writes') : IsConclusionOf(writes'[i], cur.call)
            BY <3>1, <3>2
        <3>4. loop' = loop
            BY <1>1, <2>3
        <3>5. ASSUME NEW c \in loop.done, ~Closed(log, c) PROVE WillConclude(c)'
            <4>1. c = cur.call
                BY <1>5, <3>5
            <4> QED BY <3>3, <4>1 DEF WillConclude
        <3> QED BY <3>4, <3>5
    <2> QED BY <1>3, <2>1, <2>2, <2>3
<1>7. \A c \in taskWrites' : Closed(log, c)
    BY <1>2 DEF CommitInv, DoneAreConcluded
<1> QED BY <1>2, <1>4, <1>6, <1>7, NoCommitMade

LEMMA ToolEndCommits ==
    ASSUME LoopInv, CommitInv, ToolReturns \/ _handle_tool_failure,
           UNCHANGED <<loop, checkpoint, taskWrites>>
    PROVE  CommitInv'
<1>1. /\ phase = "effect" /\ writes = <<>> /\ UNCHANGED <<log, cur>>
    BY ToolEnd DEF LoopInv
<1>2. PICK s \in Statuses, w \in WriteItems :
          /\ IsRowWrite(w)
          /\ writes' \in {<<Concluding(cur, s), w>>, <<Reporting, Concluding(cur, s), w>>}
    BY ToolEnd DEF LoopInv
<1>3. \A i \in 1..Len(writes') : writes'[i] \in {Concluding(cur, s), Reporting, w}
    BY <1>2
<1>4. ~IsCommit(w)
    BY <1>2 DEF IsRowWrite, IsCommit
<1>5. \E i \in 1..Len(writes') : writes'[i] = Concluding(cur, s)
    <2>1. \/ 1 \in 1..Len(writes') /\ writes'[1] = Concluding(cur, s)
          \/ 2 \in 1..Len(writes') /\ writes'[2] = Concluding(cur, s)
        BY <1>2
    <2> QED BY <2>1
<1>6. WillConclude(cur.call)'
    BY <1>1, <1>5, WhatWritesDo DEF WillConclude, IsConclusionOf
<1>7. \A c \in loop.done : Closed(log, c) \/ c = cur.call
    BY <1>1 DEF CommitInv, DoneAreConcluded, InHand, WillConclude
<1>8. \A c \in taskWrites' : Closed(log, c)
    BY DEF CommitInv, DoneAreConcluded
<1> QED BY <1>1, <1>3, <1>4, <1>6, <1>7, <1>8, PipelineMakesNoCommit, NoCommitMade

\* A call taken up is in hand, is being concluded, or was concluded before.
LEMMA DriverCommits ==
    ASSUME LoopInv, CommitInv,
           \/ (resume_open_calls \/ DriveNext) /\ UNCHANGED <<loop, checkpoint, taskWrites>>
           \/ NextOfBatch
    PROVE  CommitInv'
<1>1. \A c \in taskWrites' : Closed(log, c)
    BY DEF CommitInv, DoneAreConcluded, NextOfBatch, kept
<1>2. CASE resume_open_calls /\ UNCHANGED <<loop, checkpoint, taskWrites>>
    <2>1. phase = "resume" /\ writes = <<>> /\ writes' = <<>> /\ log' = log
        BY <1>2 DEF resume_open_calls
    <2>2. \A c \in loop.done : Closed(log, c)
        BY <2>1 DEF CommitInv, DoneAreConcluded, InHand, WillConclude
    <2> QED BY <1>1, <1>2, <2>1, <2>2, NoCommitMade
<1>3. ASSUME NEW k \in Requests, execute(k), phase = "drive", writes = <<>>,
             UNCHANGED <<log, checkpoint>>, loop'.done \subseteq loop.done \cup {k.call}
      PROVE  CommitInv'
    <2>1. \/ writes' = <<>>
          \/ writes' = <<Recording(k)>>
          \/ writes' = <<Recording(k), Reporting, Concluding(k, "failed")>>
        BY <1>3 DEF execute
    <2>2. \A i \in 1..Len(writes') : ~IsCommit(writes'[i])
        BY <2>1, PipelineMakesNoCommit
    <2>3. \A c \in loop.done : Closed(log, c)
        BY <1>3 DEF CommitInv, DoneAreConcluded, InHand, WillConclude
    <2>4. Closed(log, k.call) \/ InHand(k.call)' \/ WillConclude(k.call)'
        BY <1>3, ExecuteDrives DEF LoopInv, InHand, WillConclude
    <2>5. ASSUME NEW c \in loop'.done
          PROVE  Closed(log, c) \/ InHand(c)' \/ WillConclude(c)'
        <3>1. CASE c \in loop.done
            BY <2>3, <3>1
        <3>2. CASE c = k.call
            BY <2>4, <3>2
        <3> QED BY <1>3, <3>1, <3>2
    <2> QED BY <1>1, <1>3, <2>2, <2>5, NoCommitMade
<1>4. CASE DriveNext /\ UNCHANGED <<loop, checkpoint, taskWrites>>
    <2>1. PICK c \in queue :
              LET k == Request(c, ToolOf(log, c), ArgsOf(log, c))
              IN  k \in Requests /\ execute(k)
        BY <1>4, DrivenRequest DEF LoopInv
    <2>2. phase = "drive" /\ writes = <<>> /\ UNCHANGED log
        BY <1>4 DEF DriveNext
    <2> QED BY <1>3, <1>4, <2>1, <2>2
<1>5. CASE NextOfBatch
    <2>1. /\ Head(loop.batch) \in Requests /\ execute(Head(loop.batch))
          /\ loop'.done = loop.done \cup {Head(loop.batch).call}
        BY <1>5, BatchMoves DEF NextOfBatch
    <2>2. phase = "drive" /\ writes = <<>> /\ UNCHANGED <<log, checkpoint>>
        BY <1>5 DEF NextOfBatch, durable, kept
    <2> QED BY <1>3, <2>1, <2>2
<1> QED BY <1>2, <1>4, <1>5

LEMMA AnswerCommits ==
    ASSUME LoopInv, CommitInv, NEW d \in Decisions, NEW a \in Args, NEW s \in Scopes,
           approve(d, a, s)
    PROVE  CommitInv'
<1>1. ToolInv /\ decide(d, a, s) /\ phase = "down" /\ UNCHANGED <<loop, checkpoint, taskWrites>>
    BY DEF LoopInv, approve, kept
<1>2. loop'.done = {}
    BY <1>1, NothingInHand DEF AtRest
<1>3. UNCHANGED log /\ \A i \in 1..Len(writes') :
          writes'[i] \in {Concluding(Asked, "rejected"), Concluding(Asked, "superseded"),
                          Rerecording(a), Approving(d, a, s), Resuming}
    BY <1>1, DecideIs
<1>4. ~IsCommit(Rerecording(a)) /\ ~IsCommit(Approving(d, a, s)) /\ ~IsCommit(Resuming)
    BY PipelineMakesNoCommit DEF Rerecording, Approving, Resuming
<1>5. \A c \in taskWrites' : Closed(log, c)
    BY <1>1 DEF CommitInv, DoneAreConcluded
<1> QED BY <1>1, <1>2, <1>3, <1>4, <1>5, PipelineMakesNoCommit, NoCommitMade

LEMMA CommitsKeep ==
    ASSUME LoopInv, CallInv, CommitInv, [Next]_vars
    PROVE  CommitInv'
<1>1. \A c \in taskWrites : Closed(log, c)
    BY DEF CommitInv, DoneAreConcluded
<1>2. CASE \/ start \/ resume \/ Return \/ Crash \/ CompactionOverBudget \/ Leave
           \/ Turn \/ WithoutCompaction \/ compact \/ AskOverBudget \/ AskOverflows
           \/ AskReplies
    BY <1>2, OwnStepCommits
<1>3. CASE AfterRecovery \/ _commit
    BY <1>3, CommitIsMade
<1>4. CASE AppendEvent /\ UNCHANGED <<loop, checkpoint, taskWrites>>
    BY <1>4, AppendEventCommits
<1>5. CASE (WriteRow \/ RefreshStatus) /\ UNCHANGED <<loop, checkpoint, taskWrites>>
    BY <1>1, <1>5, OtherWriteCommits DEF WriteRow, RefreshStatus, CommitInv
<1>6. CASE WriteCheckpoint
    BY <1>6, WriteCheckpointCommits
<1>7. CASE JudgeCall
    BY <1>7, JudgeCommits
<1>8. CASE (ToolReturns \/ _handle_tool_failure) /\ UNCHANGED <<loop, checkpoint, taskWrites>>
    BY <1>8, ToolEndCommits
<1>9. CASE \/ (resume_open_calls \/ DriveNext) /\ UNCHANGED <<loop, checkpoint, taskWrites>>
           \/ NextOfBatch
    BY <1>9, DriverCommits
<1>10. CASE Human
    BY <1>10, AnswerCommits DEF Human
<1>11. CASE Clock \/ UNCHANGED vars
    <2>1. UNCHANGED <<log, phase, writes, cur, loop, checkpoint, taskWrites>>
        BY <1>11 DEF Clock, TimePasses, durable, volatile, kept, vars
    <2> QED BY <2>1 DEF CommitInv, CommitsAreAtBoundaries, TasksAreConcluded, DoneAreConcluded,
                        CommittedAreConcluded, CheckpointsAreAtBoundaries,
                        CompletedTasksAreConcluded, CommittedLog, InHand, WillConclude
<1> QED BY <1>2, <1>3, <1>4, <1>5, <1>6, <1>7, <1>8, <1>9, <1>10, <1>11
        DEF Next, Process, Pipeline, Write, kept

LEMMA CommitsStart ==
    ASSUME Init
    PROVE  CommitInv
<1>1. /\ log \in Logs /\ log = <<>> /\ writes = <<>> /\ loop.done = {} /\ taskWrites = {}
      /\ checkpoint = [tasks |-> {}, last |-> 0] /\ Len(log) = 0
    BY LoopStarts DEF Init, AtRest, LoopInv, ToolInv, Typed
<1>2. CommittedLog = <<>> /\ checkpoint.tasks = {} /\ checkpoint.last \in 0..Len(log)
    BY <1>1, SubSeqEmpty DEF CommittedLog
<1>3. OpenCalls(<<>>) = {}
    BY DEF OpenCalls
<1>4. CommittedAreConcluded
    BY <1>2, <1>3 DEF CommittedAreConcluded, CheckpointsAreAtBoundaries,
                      CompletedTasksAreConcluded
<1> QED BY <1>1, <1>4 DEF CommitInv, CommitsAreAtBoundaries, TasksAreConcluded,
                          DoneAreConcluded

THEOREM CommitsAlways == Spec => []CommitInv
<1>1. LoopInv /\ CallInv /\ CommitInv /\ [Next]_vars => CommitInv'
    BY CommitsKeep
<1> QED BY <1>1, CommitsStart, LoopAlways, CallsAlways, PTL DEF Spec

\* A checkpoint is taken between super-steps only: of the log it stands for
\* nothing is open but the call that waits at the gate.
THEOREM CheckpointsStandAtBoundaries == Spec => []CheckpointsAreAtBoundaries
<1>1. CommitInv => CheckpointsAreAtBoundaries
    BY DEF CommitInv, CommittedAreConcluded
<1> QED BY <1>1, CommitsAlways, PTL

\* A task a checkpoint lists as completed has its conclusion in the log the
\* checkpoint stands for, so replaying its output skips no effect.
THEOREM TasksOfCheckpointsAreConcluded == Spec => []CompletedTasksAreConcluded
<1>1. CommitInv => CompletedTasksAreConcluded
    BY DEF CommitInv, CommittedAreConcluded
<1> QED BY <1>1, CommitsAlways, PTL

-----------------------------------------------------------------------------
(* Where a process leaves the run, and what the oracle finds there *)

\* A tool that only reads, or that nobody registered, leaves nothing in the
\* ledger, and one that removes repetitions by key one effect at most.
LedgerIsSmall ==
    \A c \in Calls : Called(log, c) =>
        /\ ~IsRegistered(c) => effects[c] = <<>>
        /\ IsRegistered(c) /\ Effect[ToolOf(log, c)] = "read" => effects[c] = <<>>
        /\ IsRegistered(c) /\ Effect[ToolOf(log, c)] = "write_idempotent" =>
              Len(effects[c]) <= 1

WillEnd == \E i \in 1..Len(writes) : writes[i].kind = "append" /\ EndsRun(writes[i].event)

\* The loop leaves a run that is not at an end, nor at the gate, only when its
\* steps are used up.
EndsAreLegal ==
    phase \in {"leave", "return"} /\ exit # "answered" /\ loop.turns < MaxSteps =>
        Ended(log) \/ HasPending(log) \/ WillEnd

\* Only an answer takes a run away from the gate.
AnswersSay ==
    \A i \in 1..Len(writes) :
        writes[i].kind = "append" /\ writes[i].event.type = "resume" => exit = "answered"

EndInv == LedgerIsSmall /\ EndsAreLegal /\ AnswersSay

LEMMA LedgerStaysSmall ==
    ASSUME LoopInv, EndInv, [Next]_vars
    PROVE  LedgerIsSmall'
<1>1. CASE AppendEvent
    <2>1. /\ \A c : Called(log, c) => Called(log', c) /\ ToolOf(log', c) = ToolOf(log, c)
          /\ effects' = effects
        BY <1>1, AppendEventLog DEF LoopInv, AppendEvent
    <2>2. \A c \in Calls : ~Called(log, c) => effects[c] = <<>> /\ Len(effects[c]) <= 1
        <3>1. Len(<<>>) <= 1
            OBVIOUS
        <3> QED BY <3>1 DEF LoopInv, ToolInv, UnrecordedIsUntouched
    <2>3. ASSUME NEW c \in Calls, Called(log', c)
          PROVE  /\ ~IsRegistered(c)' => effects[c] = <<>>
                 /\ IsRegistered(c)' /\ Effect[ToolOf(log', c)] = "read" => effects[c] = <<>>
                 /\ IsRegistered(c)' /\ Effect[ToolOf(log', c)] = "write_idempotent" =>
                       Len(effects[c]) <= 1
        <3>1. CASE ~Called(log, c)
            BY <2>2, <3>1
        <3>2. CASE Called(log, c)
            BY <2>1, <2>3, <3>2 DEF EndInv, LedgerIsSmall, IsRegistered
        <3> QED BY <3>1, <3>2
    <2> QED BY <2>1, <2>3 DEF LedgerIsSmall
<1>2. CASE ToolReturns \/ _handle_tool_failure
    <2>1. /\ cur \in Requests /\ cur.tool \in Registered /\ ToolOf(log, cur.call) = cur.tool
          /\ Called(log, cur.call) /\ log' = log
        BY <1>2, ToolEnd DEF LoopInv
    <2>2. PICK after \in {effects[cur.call], apply(cur)} :
              effects' = [effects EXCEPT ![cur.call] = after]
        BY <1>2, ToolEnd DEF LoopInv
    <2>3. effects \in [Calls -> Seq(Args)] /\ cur.call \in Calls
        BY <2>1 DEF LoopInv, ToolInv, Typed, Requests
    <2>4. /\ Effect[cur.tool] = "read" => after = effects[cur.call]
          /\ Effect[cur.tool] = "write_idempotent" =>
                \/ after = effects[cur.call]
                \/ effects[cur.call] = <<>> /\ Len(after) = 1
        <3>1. apply(cur) = effects[cur.call] \/ Len(apply(cur)) = Len(effects[cur.call]) + 1
            BY <2>1, <2>3, ApplyIs
        <3>2. effects[cur.call] = <<>> => Len(effects[cur.call]) + 1 = 1
            OBVIOUS
        <3> QED BY <2>1, <2>2, <2>3, <3>1, <3>2, ApplyIs
    <2>5. ASSUME NEW c \in Calls, Called(log, c)
          PROVE  /\ ~IsRegistered(c) => effects'[c] = <<>>
                 /\ IsRegistered(c) /\ Effect[ToolOf(log, c)] = "read" => effects'[c] = <<>>
                 /\ IsRegistered(c) /\ Effect[ToolOf(log, c)] = "write_idempotent" =>
                       Len(effects'[c]) <= 1
        <3>1. CASE c # cur.call
            <4>1. effects'[c] = effects[c]
                BY <2>2, <2>3, <3>1
            <4> QED BY <2>5, <4>1 DEF EndInv, LedgerIsSmall
        <3>2. CASE c = cur.call
            <4>1. effects'[c] = after /\ IsRegistered(c) /\ ToolOf(log, c) = cur.tool
                BY <2>1, <2>2, <2>3, <3>2 DEF IsRegistered
            <4>2. /\ Effect[cur.tool] = "read" => effects[cur.call] = <<>>
                  /\ Effect[cur.tool] = "write_idempotent" => Len(effects[cur.call]) <= 1
                BY <2>1, <2>3, <3>2, <4>1 DEF EndInv, LedgerIsSmall
            <4>3. Effect[cur.tool] = "read" => effects'[c] = <<>>
                BY <2>4, <4>1, <4>2
            <4>4. Effect[cur.tool] = "write_idempotent" => Len(effects'[c]) <= 1
                <5>1. \A n : n = 1 => n <= 1
                    OBVIOUS
                <5>2. Effect[cur.tool] = "write_idempotent" =>
                          after = effects[cur.call] \/ Len(after) = 1
                    BY <2>4
                <5> QED BY <4>1, <4>2, <5>1, <5>2
            <4> QED BY <4>1, <4>3, <4>4
        <3> QED BY <3>1, <3>2
    <2> QED BY <2>1, <2>5 DEF LedgerIsSmall, IsRegistered
<1>3. CASE ~(AppendEvent \/ ToolReturns \/ _handle_tool_failure)
    <2>1. UNCHANGED <<log, effects>>
        BY <1>3, StepsOfLoop
           DEF OwnStep, WriteRow, RefreshStatus, WriteCheckpoint, JudgeCall, Judged,
               resume_open_calls, DriveNext, NextOfBatch, Human, approve, decide, Clock,
               TimePasses, durable, vars
    <2> QED BY <2>1 DEF EndInv, LedgerIsSmall, IsRegistered
<1> QED BY <1>1, <1>2, <1>3

\* The writes of a process that ends without an answer take nothing from the
\* end it has come to.
LEMMA EndsAreWritten ==
    ASSUME LoopInv, EndInv, AppendEvent \/ WriteRow \/ RefreshStatus \/ WriteCheckpoint,
           UNCHANGED <<loop, exit>> \/ WriteCheckpoint
    PROVE  EndsAreLegal' /\ AnswersSay'
<1>1. /\ writes # <<>> /\ writes' = Tail(writes) /\ UNCHANGED <<phase, exit, loop>>
    BY DEF AppendEvent, WriteRow, RefreshStatus, WriteCheckpoint
<1>2. /\ Head(writes) = writes[1] /\ Len(writes) \in Nat \ {0} /\ 1 \in 1..Len(writes)
      /\ \A i \in 1..Len(writes') : i + 1 \in 1..Len(writes) /\ writes'[i] = writes[i + 1]
      /\ \A j \in 2..Len(writes) : j - 1 \in 1..Len(writes') /\ writes'[j - 1] = writes[j]
    BY <1>1, RestOfWrites, RestWaits DEF LoopInv
<1>3. AnswersSay'
    BY <1>1, <1>2 DEF EndInv, AnswersSay
<1>4. SUFFICES ASSUME phase \in {"leave", "return"}, exit # "answered", loop.turns < MaxSteps
               PROVE  Ended(log') \/ HasPending(log') \/ WillEnd'
    BY <1>1, <1>3 DEF EndsAreLegal
<1>5. Ended(log) \/ HasPending(log) \/ WillEnd
    BY <1>4 DEF EndInv, EndsAreLegal
<1>6. ASSUME WillEnd, ~(Head(writes).kind = "append" /\ EndsRun(Head(writes).event))
      PROVE  WillEnd'
    <2>1. PICK i \in 1..Len(writes) : writes[i].kind = "append" /\ EndsRun(writes[i].event)
        BY <1>6 DEF WillEnd
    <2>2. i \in 2..Len(writes)
        BY <1>2, <1>6, <2>1
    <2> QED BY <1>2, <2>1, <2>2 DEF WillEnd
<1>7. CASE AppendEvent
    <2>1. PICK e \in LoggedEvents : e = Head(writes).event
        BY <1>7, AppendEventLog DEF LoopInv
    <2>2. /\ log \in Logs /\ GoesOn(log) /\ log' = Append(log, e) /\ Head(writes).kind = "append"
          /\ GoesOn(log') <=> ~EndsRun(e)
        BY <1>7, <2>1, AppendEventLog DEF LoopInv, AppendEvent
    <2>3. e.type # "resume"
        BY <1>2, <1>4, <2>1, <2>2 DEF EndInv, AnswersSay
    <2>4. HasPending(log) => HasPending(log')
        BY <2>2, <2>3, AppendPending
    <2>5. ~Ended(log) /\ (EndsRun(e) => Ended(log'))
        BY <2>2, EndedIs
    <2> QED BY <1>5, <1>6, <2>1, <2>2, <2>4, <2>5
<1>8. CASE ~AppendEvent
    <2>1. log' = log /\ Head(writes).kind # "append"
        BY <1>8 DEF WriteRow, RefreshStatus, WriteCheckpoint, durable
    <2> QED BY <1>5, <1>6, <2>1
<1> QED BY <1>7, <1>8

\* How the loop's own steps come to the end of a process.
LEMMA EndsAreReached ==
    ASSUME LoopInv, LoopInv', EndInv, OwnStep,
           \/ resume \/ AfterRecovery \/ _commit \/ Leave \/ Turn
           \/ WithoutCompaction \/ AskOverBudget \/ AskOverflows \/ AskReplies
    PROVE  EndsAreLegal' /\ AnswersSay'
<1>1. AnswersSay'
    <2>1. \A i \in 1..Len(writes') : writes'[i] \in OwnItems
        BY ElementOfSeq DEF OwnStep
    <2> QED BY <2>1, OwnItemsDo DEF AnswersSay
<1>2. SUFFICES ASSUME phase' \in {"leave", "return"}, exit' # "answered", loop'.turns < MaxSteps
               PROVE  Ended(log) \/ HasPending(log) \/ WillEnd'
    BY <1>1 DEF EndsAreLegal, OwnStep
<1>3. CASE resume
    BY <1>2, <1>3 DEF resume, NothingToDo
<1>4. CASE AfterRecovery
    <2>1. phase = "drive" /\ writes = <<>> /\ loop.interrupted
        BY <1>2, <1>4 DEF AfterRecovery, PhaseAfterRecovery
    <2> QED BY <2>1 DEF LoopInv, TurnInv, NothingPassesGate, WillAsk
<1>5. CASE _commit
    <2>1. phase = "drive" /\ writes = <<>> /\ (loop.interrupted \/ Ended(log))
        BY <1>2, <1>5 DEF _commit
    <2> QED BY <2>1 DEF LoopInv, TurnInv, NothingPassesGate, WillAsk
<1>6. CASE Leave
    <2>1. phase = "leave" /\ writes = <<>> /\ exit # "answered" /\ loop.turns < MaxSteps
        BY <1>2, <1>6 DEF Leave
    <2> QED BY <2>1 DEF EndInv, EndsAreLegal, WillEnd
<1>7. CASE Turn
    BY <1>2, <1>7 DEF Turn, LoopInv, LoopTyped
<1>8. CASE WithoutCompaction \/ AskOverBudget \/ AskOverflows \/ AskReplies
    <2>1. \E i \in 1..Len(writes') : writes'[i] = Fatal
        <3>1. CASE WithoutCompaction
            <4>1. /\ Fatal \in OwnItems /\ Reporting \in OwnItems
                  /\ writes' \in {Append(<<>>, Fatal), Append(<<Reporting>>, Fatal)}
                BY <1>2, <3>1, OwnItemsAre DEF WithoutCompaction, Unsummarised
            <4>2. writes' \in {<<Fatal>>, <<Reporting, Fatal>>}
                BY <4>1, AppendedLists
            <4>3. \/ 1 \in 1..Len(writes') /\ writes'[1] = Fatal
                  \/ 2 \in 1..Len(writes') /\ writes'[2] = Fatal
                BY <4>2
            <4> QED BY <4>3
        <3>2. CASE AskOverBudget \/ AskOverflows
            <4>1. writes' = <<Fatal>>
                BY <1>2, <3>2 DEF AskOverBudget, AskOverflows
            <4>2. 1 \in 1..Len(writes') /\ writes'[1] = Fatal
                BY <4>1
            <4> QED BY <4>2
        <3>3. CASE AskReplies
            <4>1. PICK cost \in Costs : writes' = <<Charge(cost), Fatal>>
                BY <1>2, <3>3 DEF AskReplies
            <4>2. 2 \in 1..Len(writes') /\ writes'[2] = Fatal
                BY <4>1
            <4> QED BY <4>2
        <3> QED BY <1>8, <3>1, <3>2, <3>3
    <2>2. Fatal.kind = "append" /\ EndsRun(Fatal.event)
        BY WhatWritesDo DEF Fatal, ErrorEvent, EndsRun, IsFatal
    <2> QED BY <2>1, <2>2 DEF WillEnd
<1> QED BY <1>3, <1>4, <1>5, <1>6, <1>7, <1>8

LEMMA EndsKeep ==
    ASSUME LoopInv, EndInv, [Next]_vars
    PROVE  EndInv'
<1>1. LoopInv' /\ LedgerIsSmall'
    BY LoopKeeps, LedgerStaysSmall
<1>2. CASE phase' \notin {"leave", "return"}
    BY <1>1, <1>2 DEF EndInv, EndsAreLegal, AnswersSay, LoopInv, TurnInv, PlaceInv
<1>3. CASE Human
    BY <1>1, <1>3 DEF Human, approve, EndInv, EndsAreLegal, AnswersSay
<1>4. CASE \/ (AppendEvent \/ WriteRow \/ RefreshStatus) /\ UNCHANGED <<loop, exit>>
           \/ WriteCheckpoint
    BY <1>1, <1>4, EndsAreWritten DEF EndInv
<1>5. CASE resume
    BY <1>1, <1>5, TurnsOfProcess, EndsAreReached DEF EndInv
<1>6. CASE AfterRecovery \/ _commit \/ Leave
    BY <1>1, <1>6, TurnsOfLoop, EndsAreReached DEF EndInv
<1>7. CASE Turn \/ WithoutCompaction \/ AskOverBudget \/ AskOverflows
    BY <1>1, <1>7, TurnsToAsk, EndsAreReached DEF EndInv
<1>8. CASE AskReplies
    BY <1>1, <1>8, Replies, EndsAreReached DEF EndInv
<1>9. CASE Clock \/ UNCHANGED vars
    <2>1. UNCHANGED <<log, phase, writes, loop, exit>>
        BY <1>9 DEF Clock, TimePasses, durable, volatile, vars
    <2> QED BY <1>1, <2>1 DEF EndInv, EndsAreLegal, AnswersSay, WillEnd
<1>10. CASE \/ start \/ Return \/ Crash \/ compact \/ CompactionOverBudget \/ resume_open_calls
            \/ NextOfBatch \/ ToolReturns \/ _handle_tool_failure
    <2>1. CASE NextOfBatch
        BY <1>1, <1>2, <2>1 DEF NextOfBatch, execute
    <2>2. CASE ~NextOfBatch
        BY <1>1, <1>2, <1>10, <2>2 DEF start, Return, Crash, compact, CompactionOverBudget,
                                       resume_open_calls, ToolReturns, _handle_tool_failure
    <2> QED BY <2>1, <2>2
<1>11. CASE DriveNext
    BY <1>2, <1>11, DrivenRequest DEF LoopInv, execute
<1>12. CASE JudgeCall
    BY <1>2, <1>12, JudgedStep DEF LoopInv, JudgeCall
<1> QED BY <1>3, <1>4, <1>5, <1>6, <1>7, <1>8, <1>9, <1>10, <1>11, <1>12
        DEF Next, Process, Pipeline, Write

LEMMA EndsStart ==
    ASSUME Init
    PROVE  EndInv
<1>1. log \in Logs /\ Len(log) = 0 /\ writes = <<>> /\ phase = "down"
    BY LoopStarts DEF Init, LoopInv, ToolInv, Typed
<1>2. \A c : ~Called(log, c)
    BY <1>1, CalledMeans
<1> QED BY <1>1, <1>2 DEF EndInv, LedgerIsSmall, EndsAreLegal, AnswersSay

THEOREM EndsAlways == Spec => []EndInv
<1>1. LoopInv /\ EndInv /\ [Next]_vars => EndInv'
    BY EndsKeep
<1> QED BY <1>1, EndsStart, LoopAlways, PTL DEF Spec

\* The judge of the experiments never blames a correct run, at whatever moment
\* it reads the files, and their driver stops where a resume would have nothing
\* to do.  Without the outbox a retry may repeat an effect and keep it quiet.
THEOREM OracleBlamesNobody ==
    ASSUME Outbox
    PROVE  Spec => []OracleFindsNothing
<1>1. ASSUME LoopInv, EndInv PROVE OracleFindsNothing
    <2>1. \A c \in Calls : rows[c].status \in CLOSED_ROW_STATUSES =>
              \E i \in 1..Len(log) : IsResult(log, i, c)
        BY <1>1 DEF LoopInv, ToolInv, ClosedRowHasResult, CLOSED_ROW_STATUSES, Closed
    <2>2. \A c \in Calls : ~(Len(effects[c]) > 1)
        <3> SUFFICES ASSUME NEW c \in Calls PROVE ~(Len(effects[c]) > 1)
            OBVIOUS
        <3>1. effects[c] = <<>> \/ Len(effects[c]) <= 1
            <4>1. CASE ~Called(log, c)
                BY <1>1, <4>1 DEF LoopInv, ToolInv, UnrecordedIsUntouched
            <4>2. CASE Called(log, c) /\ Guarded(c)
                BY <1>1, <4>2 DEF LoopInv, ToolInv, EffectIsMarked
            <4>3. CASE Called(log, c) /\ ~Guarded(c)
                <5>1. IsRegistered(c) =>
                          Effect[ToolOf(log, c)] \in {"read", "write_idempotent"}
                    BY <4>3, AttributesAreOfRegistered
                       DEF Guarded, OutboxPath, IsRegistered, EffectClasses
                <5> QED BY <1>1, <4>3, <5>1 DEF EndInv, LedgerIsSmall
            <4> QED BY <4>1, <4>2, <4>3
        <3>2. effects[c] \in Seq(Args) /\ Len(effects[c]) \in Nat /\ Len(<<>>) = 0
            BY <1>1 DEF LoopInv, ToolInv, Typed
        <3> QED BY <3>1, <3>2
    <2>3. DOMAIN rows = Calls /\ DOMAIN effects = Calls
        BY <1>1 DEF LoopInv, ToolInv, Typed
    <2>4. Flagged(log, rows, effects) = {}
        BY <2>1, <2>2, <2>3 DEF Flagged, check_closed_calls, check_effect_accounting
    <2>5. drive_to_terminal(current_status(TRUE, log)) = IF NothingToDo THEN "stop" ELSE "resume"
        <3>1. \A s \in RunStatuses : drive_to_terminal(s) = IF s = "running" THEN "resume"
                                                                          ELSE "stop"
            BY DEF drive_to_terminal, RunStatuses, LEGAL_TERMINAL_STATUSES
        <3>2. RunStatus(log) \in RunStatuses /\ (RunStatus(log) = "running" <=> ~NothingToDo)
            BY DEF RunStatus, RunStatuses, NothingToDo, Ended
        <3>3. current_status(TRUE, log) = RunStatus(log)
            BY DEF current_status
        <3> QED BY <3>1, <3>2, <3>3
    <2>6. ASSUME phase = "return", writes = <<>>, exit # "answered", loop.turns < MaxSteps
          PROVE  audit_run(log, rows, effects)
        <3>1. Ended(log) \/ HasPending(log)
            BY <1>1, <2>6 DEF EndInv, EndsAreLegal, WillEnd
        <3>2. RunStatus(log) \in LEGAL_TERMINAL_STATUSES
            BY <3>1 DEF Ended, RunStatus, LEGAL_TERMINAL_STATUSES
        <3> QED BY <2>4, <3>2 DEF audit_run, check_termination
    <2> QED BY <2>4, <2>5, <2>6 DEF OracleFindsNothing
<1> QED BY <1>1, LoopAlways, EndsAlways, PTL

-----------------------------------------------------------------------------
(* The status a process leaves behind *)

ExitSays ==
    /\ phase \notin {"down", "return"} => exit = "none"
    /\ phase = "return" => exit \in {"none", "answered"}

\* The status is stored at the end of a process that drove the run, and then
\* nothing more is appended; an answer ends nothing.
LeavingInv ==
    /\ \A i \in 1..Len(writes) :
          writes[i].kind = "refresh" => phase = "return" /\ exit = "none"
    /\ phase = "return" /\ exit = "none" =>
          \A i \in 1..Len(writes) : writes[i].kind # "append"
    /\ phase = "return" /\ exit = "answered" => Lasting

SomeOpen == \E c \in Calls : Open(log, c)
WillRecord == \E i \in 1..Len(writes), c \in Calls : IsRecordingOf(writes[i], c)
WillRefresh == \E i \in 1..Len(writes) : writes[i].kind = "refresh"

\* A run no process is at waits for a human if anything in it is open.
IdleStatus ==
    phase = "down" =>
        /\ Ended(log) => runStatus = RunStatus(log)
        /\ HasPending(log) \/ SomeOpen => runStatus = "waiting_human"
        /\ exit = "returned" => runStatus = RunStatus(log)

\* Recovery drives what waited, and stores no status of its own.
RecoveringStatus ==
    /\ phase \in {"resume", "drive", "judge", "effect"}
    /\ loop.stage = "recovery"
    /\ HasPending(log) \/ WillAsk \/ SomeOpen \/ WillRecord
    => runStatus = "waiting_human"

LeavingStatus ==
    phase = "return" /\ exit = "none" =>
        \/ WillRefresh /\ \A c \in Calls : Open(log, c) => HasPending(log)
        \/ runStatus = RunStatus(log) /\ (SomeOpen => runStatus = "waiting_human")

AnsweringStatus == phase = "return" /\ exit = "answered" => runStatus = "waiting_human"

StatusInv ==
    /\ crashes \in Nat /\ ExitSays /\ LeavingInv
    /\ crashes = 0 => IdleStatus /\ RecoveringStatus /\ LeavingStatus /\ AnsweringStatus

IsCharge(w) == w.kind = "append" /\ w.event.type = "budget_update"
IsOfPipeline(w) == w.kind \in {"append", "insert", "update"} /\ ~IsCharge(w)

\* What the steps of the loop write, with the two that make a checkpoint and
\* the one that stores the status left out, and what a driver's do.
LEMMA OwnStepAppends ==
    ASSUME LoopInv,
           \/ start \/ resume \/ Return \/ Crash \/ CompactionOverBudget \/ Turn
           \/ WithoutCompaction \/ compact \/ AskOverBudget \/ AskOverflows \/ AskReplies
    PROVE  \A i \in 1..Len(writes') :
              /\ writes'[i].kind = "append"
              /\ IsCharge(writes'[i]) => /\ i = 1 /\ check(log)
                                        /\ writes'[i].event.cost \in Costs
<1>1. /\ \A x \in {Reporting, Fatal, Appending(UserMessage)} : x.kind = "append" /\ ~IsCharge(x)
      /\ \A v : LET x == Appending(CompactionEvent(v)) IN x.kind = "append" /\ ~IsCharge(x)
      /\ \A b : LET x == Appending(AgentMessage(b)) IN x.kind = "append" /\ ~IsCharge(x)
      /\ \A cost : Charge(cost).kind = "append" /\ Charge(cost).event.cost = cost
    BY WhatWritesDo DEF Fatal, Charge, IsCharge, UserMessage, ErrorEvent, CompactionEvent,
                        AgentMessage, ChargeEvent
<1>2. CASE start \/ resume \/ Return \/ Crash \/ CompactionOverBudget \/ Turn
    <2>1. writes' = <<>> \/ writes' = <<Appending(UserMessage)>>
        BY <1>2, NothingInHand DEF start, resume, Return, Crash, CompactionOverBudget, Turn
    <2> QED BY <1>1, <2>1
<1>3. CASE WithoutCompaction \/ AskOverBudget \/ AskOverflows
    <2>1. writes' \in {<<>>, <<Reporting>>, <<Fatal>>, Append(<<>>, Fatal),
                       Append(<<Reporting>>, Fatal)}
        BY <1>3 DEF WithoutCompaction, AskOverBudget, AskOverflows, Unsummarised
    <2>2. writes' \in {<<>>, <<Reporting>>, <<Fatal>>, <<Reporting, Fatal>>}
        BY <2>1, AppendedLists
    <2> QED BY <1>1, <2>2
<1>4. CASE compact
    <2> DEFINE x == Appending(CompactionEvent(Victims(log, Keep)))
    <2>1. PICK cost \in Costs : writes' = <<Charge(cost), x>> /\ check(log)
        BY <1>4 DEF compact, MayCompact
    <2>2. x.kind = "append" /\ ~IsCharge(x)
        BY <1>1
    <2> HIDE DEF x
    <2>3. \A i \in 1..Len(writes') :
              (i = 1 /\ writes'[i] = Charge(cost)) \/ (i = 2 /\ writes'[i] = x)
        BY <2>1
    <2> QED BY <1>1, <2>1, <2>2, <2>3
<1>5. CASE AskReplies
    <2>1. PICK b \in Batches, cost \in Costs :
              writes' \in {<<Charge(cost), Appending(AgentMessage(b = <<>>))>>,
                           <<Charge(cost), Fatal>>}
        BY <1>5 DEF AskReplies
    <2> DEFINE x == Appending(AgentMessage(b = <<>>))
    <2>2. x.kind = "append" /\ ~IsCharge(x) /\ check(log)
        BY <1>1, <1>5 DEF AskReplies
    <2>3. writes' = <<Charge(cost), x>> \/ writes' = <<Charge(cost), Fatal>>
        BY <2>1
    <2> HIDE DEF x
    <2>4. \A i \in 1..Len(writes') :
              \/ i = 1 /\ writes'[i] = Charge(cost)
              \/ i = 2 /\ writes'[i] \in {x, Fatal}
        <3>1. CASE writes' = <<Charge(cost), x>>
            BY <3>1
        <3>2. CASE writes' = <<Charge(cost), Fatal>>
            BY <3>2
        <3> QED BY <2>3, <3>1, <3>2
    <2> QED BY <1>1, <2>2, <2>4
<1> QED BY <1>2, <1>3, <1>4, <1>5

LEMMA PipelineWritesAre ==
    ASSUME LoopInv,
           \/ JudgeCall \/ ToolReturns \/ _handle_tool_failure
           \/ resume_open_calls \/ DriveNext \/ NextOfBatch \/ Human
    PROVE  \A i \in 1..Len(writes') : IsOfPipeline(writes'[i])
<1>1. /\ \A e : e.type # "budget_update" => IsOfPipeline(Appending(e))
      /\ \A k : IsOfPipeline(Recording(k))
      /\ \A k, s : IsOfPipeline(Concluding(k, s))
      /\ IsOfPipeline(Reporting)
      /\ \A s, a : IsOfPipeline(Insert(s, a)) /\ IsOfPipeline(Update(s))
      /\ \A w : IsRowWrite(w) => IsOfPipeline(w)
    BY WhatWritesDo DEF IsRowWrite, IsOfPipeline, IsCharge
<1>2. CASE JudgeCall
    <2> DEFINE q == Appending(InterruptEvent(cur.call, InterruptCount(log)))
    <2>1. PICK o \in Outcomes(cur) : Judged(o)
        BY <1>2 DEF JudgeCall
    <2>2. \/ writes' = <<>>
          \/ writes' = <<q>>
          \/ writes' = <<Insert("pending", Actual(cur))>>
          \/ writes' = <<Reporting, Concluding(cur, "rejected")>>
          \/ writes' = <<Reporting, Concluding(cur, "unknown"), Update("unknown")>>
          \/ writes' = <<Concluding(cur, "executed"), Update("executed")>>
        BY <2>1, JudgedStep DEF LoopInv
    <2>3. IsOfPipeline(q)
        BY <1>1 DEF InterruptEvent
    <2> HIDE DEF q
    <2>4. \A i \in 1..Len(writes') :
              writes'[i] \in {q, Insert("pending", Actual(cur)), Reporting,
                              Concluding(cur, "rejected"), Concluding(cur, "unknown"),
                              Concluding(cur, "executed"), Update("unknown"),
                              Update("executed")}
        BY <2>2
    <2> QED BY <1>1, <2>3, <2>4
<1>3. CASE ToolReturns \/ _handle_tool_failure
    <2>1. PICK s \in Statuses, w \in WriteItems :
              /\ IsRowWrite(w)
              /\ writes' \in {<<Concluding(cur, s), w>>, <<Reporting, Concluding(cur, s), w>>}
        BY <1>3, ToolEnd DEF LoopInv
    <2> QED BY <1>1, <2>1
<1>4. ASSUME NEW k, execute(k)
      PROVE  \A i \in 1..Len(writes') : IsOfPipeline(writes'[i])
    <2>1. \/ writes' = <<>>
          \/ writes' = <<Recording(k)>>
          \/ writes' = <<Recording(k), Reporting, Concluding(k, "failed")>>
        BY <1>4 DEF execute
    <2> QED BY <1>1, <2>1
<1>5. CASE resume_open_calls
    BY <1>5 DEF resume_open_calls
<1>6. CASE DriveNext
    BY <1>4, <1>6, DrivenRequest DEF LoopInv
<1>7. CASE NextOfBatch
    BY <1>4, <1>7 DEF NextOfBatch
<1>8. CASE Human
    <2>1. PICK d \in Decisions, a \in Args, s \in Scopes : approve(d, a, s)
        BY <1>8 DEF Human
    <2>2. \A i \in 1..Len(writes') :
              writes'[i] \in {Concluding(Asked, "rejected"), Concluding(Asked, "superseded"),
                              Rerecording(a), Approving(d, a, s), Resuming}
        BY <2>1, DecideIs DEF approve, LoopInv
    <2>3. /\ IsOfPipeline(Rerecording(a)) /\ IsOfPipeline(Approving(d, a, s))
          /\ IsOfPipeline(Resuming)
        BY <1>1 DEF Rerecording, Approving, Resuming, ApprovalEvent, ResumeEvent
    <2> QED BY <1>1, <2>2, <2>3
<1> QED BY <1>2, <1>3, <1>5, <1>6, <1>7, <1>8

\* How a process ends is said where it ends.
LEMMA ExitKeeps ==
    ASSUME LoopInv, StatusInv, [Next]_vars
    PROVE  crashes' \in Nat /\ ExitSays'
<1>1. crashes' \in Nat
    <2>1. crashes' = crashes + 1 \/ crashes' = crashes
        BY DEF Next, start, resume, Human, approve, Process, Pipeline, JudgeCall, AfterRecovery,
               Turn, WithoutCompaction, compact, CompactionOverBudget, AskOverBudget,
               AskOverflows, AskReplies, NextOfBatch, _commit, WriteCheckpoint, Leave, Return,
               Clock, Crash, vars
    <2> QED BY <2>1 DEF StatusInv
<1>2. CASE start \/ resume \/ Human \/ Return \/ CompactionOverBudget \/ Crash
    BY <1>1, <1>2 DEF start, resume, Human, approve, Return, CompactionOverBudget, Crash, ExitSays
<1>3. CASE /\ exit' = exit
           /\ phase' = phase \/ (phase \notin {"down", "return"} /\ phase' # "down")
    BY <1>1, <1>3 DEF StatusInv, ExitSays
<1>4. CASE Pipeline \/ JudgeCall
    <2>1. CASE Write
        BY <1>3, <1>4, <2>1 DEF Pipeline, Write, AppendEvent, WriteRow, RefreshStatus, JudgeCall
    <2>2. CASE ToolReturns \/ _handle_tool_failure \/ resume_open_calls
        BY <1>3, <1>4, <2>2 DEF Pipeline, ToolReturns, _handle_tool_failure, resume_open_calls,
                                JudgeCall
    <2>3. CASE DriveNext
        <3>1. phase = "drive" /\ phase' \in {"drive", "judge"} /\ exit' = exit
            BY <1>4, <2>3, DrivenRequest, ExecuteDrives DEF LoopInv, DriveNext, Pipeline, JudgeCall
        <3> QED BY <1>3, <3>1
    <2>4. CASE JudgeCall
        <3>1. phase = "judge" /\ phase' \in {"drive", "effect"} /\ exit' = exit
            BY <2>4, JudgedStep DEF JudgeCall, LoopInv
        <3> QED BY <1>3, <3>1
    <2> QED BY <1>4, <2>1, <2>2, <2>3, <2>4 DEF Pipeline
<1>5. CASE NextOfBatch
    BY <1>3, <1>5 DEF NextOfBatch, execute
<1>6. CASE \/ AfterRecovery \/ Turn \/ WithoutCompaction \/ compact \/ AskOverBudget
           \/ AskOverflows \/ AskReplies \/ _commit \/ WriteCheckpoint \/ Leave
    BY <1>3, <1>6 DEF AfterRecovery, PhaseAfterRecovery, Turn, WithoutCompaction, compact,
                      AskOverBudget, AskOverflows, AskReplies, _commit, WriteCheckpoint, Leave
<1>7. CASE Clock \/ UNCHANGED vars
    BY <1>3, <1>7 DEF Clock, TimePasses, volatile, vars
<1> QED BY <1>1, <1>2, <1>4, <1>5, <1>6, <1>7 DEF Next, Process

LEMMA LeavingKeeps ==
    ASSUME LoopInv, StatusInv, ExitSays', [Next]_vars
    PROVE  LeavingInv'
<1>1. CASE \/ start \/ resume \/ Return \/ Crash \/ CompactionOverBudget \/ Turn
           \/ WithoutCompaction \/ compact \/ AskOverBudget \/ AskOverflows \/ AskReplies
    <2>1. \A i \in 1..Len(writes') : writes'[i].kind = "append"
        BY <1>1, OwnStepAppends
    <2>2. phase' = "return" => writes' = <<>> /\ exit' = "none"
        BY <1>1, NothingInHand
           DEF start, resume, Return, Crash, CompactionOverBudget, Turn, WithoutCompaction,
               compact, AskOverBudget, AskOverflows, AskReplies
    <2> QED BY <2>1, <2>2 DEF LeavingInv
<1>2. CASE AfterRecovery \/ _commit
    <2>1. /\ writes' \in {<<>>, <<PutCheckpoint>>, <<PutWrites(loop.done), PutCheckpoint>>}
          /\ phase = "drive" /\ exit' = exit
        BY <1>2 DEF AfterRecovery, _commit
    <2>2. /\ PutCheckpoint.kind = "checkpoint" /\ PutWrites(loop.done).kind = "tasks"
          /\ exit = "none"
        BY <2>1 DEF PutCheckpoint, PutWrites, StatusInv, ExitSays
    <2>3. \A i \in 1..Len(writes') : writes'[i] \in {PutCheckpoint, PutWrites(loop.done)}
        BY <2>1
    <2>4. \A i \in 1..Len(writes') : writes'[i].kind \notin {"append", "refresh"}
        BY <2>2, <2>3
    <2> QED BY <2>1, <2>2, <2>4 DEF LeavingInv
<1>3. CASE Leave
    <2>1. phase' = "return" /\ exit' = "none" /\ writes' = <<Refresh>>
        BY <1>3 DEF Leave, StatusAtExit, StatusInv, ExitSays
    <2>2. Len(writes') = 1 /\ writes'[1].kind = "refresh"
        BY <2>1, WhatWritesDo
    <2>3. \A i \in 1..Len(writes') : writes'[i].kind = "refresh"
        BY <2>2
    <2> QED BY <2>1, <2>3 DEF LeavingInv
<1>4. CASE \/ JudgeCall \/ ToolReturns \/ _handle_tool_failure
           \/ resume_open_calls \/ DriveNext \/ NextOfBatch
    <2>1. \A i \in 1..Len(writes') : writes'[i].kind # "refresh"
        BY <1>4, PipelineWritesAre DEF IsOfPipeline
    <2>2. phase' # "return"
        <3>1. CASE JudgeCall
            BY <3>1, JudgedStep DEF JudgeCall, LoopInv
        <3>2. CASE DriveNext \/ NextOfBatch
            BY <3>2, DrivenRequest DEF LoopInv, NextOfBatch, execute
        <3>3. CASE ToolReturns \/ _handle_tool_failure \/ resume_open_calls
            BY <3>3 DEF ToolReturns, _handle_tool_failure, resume_open_calls
        <3> QED BY <1>4, <3>1, <3>2, <3>3
    <2> QED BY <2>1, <2>2 DEF LeavingInv
<1>5. CASE Human
    <2>1. PICK d \in Decisions, a \in Args, s \in Scopes : approve(d, a, s)
        BY <1>5 DEF Human
    <2>2. /\ exit' = "answered" /\ decide(d, a, s) /\ HasPending(log) /\ log' = log
          /\ \A i \in 1..Len(writes') :
                writes'[i] \in {Concluding(Asked, "rejected"), Concluding(Asked, "superseded"),
                                Rerecording(a), Approving(d, a, s), Resuming}
          /\ Approving(d, a, s).event.type = "approval" /\ Resuming.event.type = "resume"
        BY <2>1, DecideIs DEF approve, LoopInv
    <2>3. GoesOn(log)
        BY <2>2, NothingInHand
    <2>4. /\ ~EndsRun(Rerecording(a).event) /\ ~EndsRun(Approving(d, a, s).event)
          /\ ~EndsRun(Resuming.event)
          /\ \A s_ : ~EndsRun(Concluding(Asked, s_).event)
        BY <2>2, PipelineGoesOn DEF Rerecording
    <2>5. Lasting'
        BY <2>2, <2>3, <2>4 DEF Lasting
    <2>6. \A i \in 1..Len(writes') : writes'[i].kind # "refresh"
        BY <1>5, PipelineWritesAre DEF IsOfPipeline
    <2> QED BY <2>2, <2>5, <2>6 DEF LeavingInv
<1>6. CASE \/ (AppendEvent \/ WriteRow \/ RefreshStatus) /\ UNCHANGED exit
           \/ WriteCheckpoint
    <2>1. writes # <<>> /\ writes' = Tail(writes) /\ UNCHANGED <<phase, exit>>
        BY <1>6 DEF AppendEvent, WriteRow, RefreshStatus, WriteCheckpoint
    <2>2. /\ \A i \in 1..Len(writes') : i + 1 \in 1..Len(writes) /\ writes'[i] = writes[i + 1]
          /\ Head(writes) = writes[1] /\ 1 \in 1..Len(writes)
        BY <2>1, RestOfWrites DEF LoopInv
    <2>3. Lasting => Lasting'
        <3>1. CASE AppendEvent
            <4>1. GoesOn(log') <=> ~EndsRun(Head(writes).event)
                BY <3>1, AppendEventLog DEF LoopInv
            <4> QED BY <2>2, <3>1, <4>1 DEF Lasting, AppendEvent
        <3>2. CASE ~AppendEvent
            <4>1. log' = log
                BY <1>6, <3>2 DEF WriteRow, RefreshStatus, WriteCheckpoint, durable
            <4> QED BY <2>2, <4>1 DEF Lasting
        <3> QED BY <3>1, <3>2
    <2> QED BY <2>1, <2>2, <2>3 DEF StatusInv, LeavingInv
<1>7. CASE Clock \/ UNCHANGED vars
    <2>1. UNCHANGED <<log, phase, writes, exit>>
        BY <1>7 DEF Clock, TimePasses, durable, volatile, vars
    <2> QED BY <2>1 DEF StatusInv, LeavingInv, Lasting
<1> QED BY <1>1, <1>2, <1>3, <1>4, <1>5, <1>6, <1>7 DEF Next, Process, Pipeline, Write

\* A run at the gate waits for a human, whatever is still to be written.
LEMMA StatusAtGate ==
    ASSUME LoopInv
    PROVE  /\ HasPending(log) => RunStatus(log) = "waiting_human" /\ ~Ended(log)
           /\ Ended(log) => ~HasPending(log)
BY NothingInHand, EndedIs

\* Between processes, and where one begins or ends.
LEMMA StatusOfProcess ==
    ASSUME LoopInv, LoopInv', CallInv, StatusInv, ExitSays', crashes = 0, OwnStep,
           resume \/ Return \/ CompactionOverBudget \/ AfterRecovery \/ Leave
    PROVE  IdleStatus' /\ RecoveringStatus' /\ LeavingStatus' /\ AnsweringStatus'
<1>1. UNCHANGED <<log, runStatus>>
    BY DEF OwnStep
<1>2. IdleStatus /\ RecoveringStatus /\ LeavingStatus /\ AnsweringStatus
    BY DEF StatusInv
<1>3. CASE resume
    <2>1. /\ phase = "down" /\ writes = <<>> /\ writes' = <<>> /\ loop' = AtRest
          /\ exit' = "none" /\ phase' = IF NothingToDo THEN "return" ELSE "resume"
        BY <1>3, NothingInHand DEF resume
    <2>2. /\ Ended(log) => runStatus = RunStatus(log)
          /\ HasPending(log) \/ SomeOpen => runStatus = "waiting_human"
        BY <1>2, <2>1 DEF IdleStatus
    <2>3. RecoveringStatus'
        BY <1>1, <2>1, <2>2 DEF RecoveringStatus, WillAsk, WillRecord, SomeOpen
    <2>4. LeavingStatus'
        BY <1>1, <2>1, <2>2, StatusAtGate DEF LeavingStatus, NothingToDo, SomeOpen
    <2> QED BY <2>1, <2>3, <2>4 DEF IdleStatus, AnsweringStatus
<1>4. CASE Return
    <2>1. /\ phase = "return" /\ writes = <<>> /\ phase' = "down"
          /\ exit' = IF exit = "answered" THEN exit ELSE "returned"
          /\ exit \in {"none", "answered"}
        BY <1>4 DEF Return, StatusInv, ExitSays
    <2>2. CASE exit = "answered"
        <3>1. ~Ended(log) /\ runStatus = "waiting_human"
            BY <1>2, <2>1, <2>2, EndedIs DEF AnsweringStatus, StatusInv, LeavingInv, Lasting
        <3>2. IdleStatus'
            BY <1>1, <2>1, <2>2, <3>1 DEF IdleStatus
        <3> QED BY <2>1, <3>2 DEF RecoveringStatus, LeavingStatus, AnsweringStatus
    <2>3. CASE exit = "none"
        <3>1. runStatus = RunStatus(log) /\ (SomeOpen => runStatus = "waiting_human")
            BY <1>2, <2>1, <2>3 DEF LeavingStatus, WillRefresh
        <3>2. IdleStatus'
            BY <1>1, <3>1, StatusAtGate DEF IdleStatus, SomeOpen
        <3> QED BY <2>1, <3>2 DEF RecoveringStatus, LeavingStatus, AnsweringStatus
    <2> QED BY <2>1, <2>2, <2>3
<1>5. CASE CompactionOverBudget
    <2>1. phase = "compact" /\ phase' = "down" /\ exit' = "raised"
        BY <1>5 DEF CompactionOverBudget
    <2>2. /\ ~SomeOpen /\ ~HasPending(log) /\ GoesOn(log)
        BY <2>1, NothingInHand DEF CallInv, OpenIsDriven, SomeOpen
    <2>3. IdleStatus'
        BY <1>1, <2>1, <2>2, EndedIs DEF IdleStatus, SomeOpen
    <2> QED BY <2>1, <2>3 DEF RecoveringStatus, LeavingStatus, AnsweringStatus
<1>6. CASE AfterRecovery
    <2>1. /\ phase = "drive" /\ loop.stage = "recovery" /\ writes = <<>> /\ exit' = exit
          /\ exit = "none" /\ phase' = PhaseAfterRecovery /\ phase' \in {"return", "turn"}
        BY <1>6 DEF AfterRecovery, PhaseAfterRecovery, StatusInv, ExitSays
    <2>2. phase' = "return" => HasPending(log)
        BY <2>1 DEF PhaseAfterRecovery, LoopInv, TurnInv, NothingPassesGate, WillAsk
    <2>3. HasPending(log) \/ SomeOpen => runStatus = "waiting_human"
        BY <1>2, <2>1 DEF RecoveringStatus
    <2>4. LeavingStatus'
        BY <1>1, <2>2, <2>3, StatusAtGate DEF LeavingStatus, SomeOpen
    <2> QED BY <2>1, <2>4 DEF IdleStatus, RecoveringStatus, AnsweringStatus
<1>7. CASE Leave
    <2>1. /\ phase = "leave" /\ writes = <<>> /\ phase' = "return" /\ exit' = exit
          /\ exit = "none" /\ writes' = <<Refresh>>
        BY <1>7 DEF Leave, StatusAtExit, StatusInv, ExitSays
    <2>2. \A c \in Calls : Open(log, c) => HasPending(log)
        BY <2>1 DEF CallInv, OpenIsDriven, Waits
    <2>3. 1 \in 1..Len(writes') /\ writes'[1].kind = "refresh"
        BY <2>1, WhatWritesDo
    <2>4. LeavingStatus'
        BY <1>1, <2>2, <2>3 DEF LeavingStatus, WillRefresh
    <2> QED BY <2>1, <2>4 DEF IdleStatus, RecoveringStatus, AnsweringStatus
<1> QED BY <1>3, <1>4, <1>5, <1>6, <1>7

\* A write changes what is open, or waits, no further than was to be written.
LEMMA StatusOfAppend ==
    ASSUME LoopInv, CallInv, StatusInv, crashes = 0, AppendEvent, UNCHANGED <<loop, exit>>
    PROVE  IdleStatus' /\ RecoveringStatus' /\ LeavingStatus' /\ AnsweringStatus'
<1>1. /\ writes # <<>> /\ Head(writes).kind = "append" /\ writes' = Tail(writes)
      /\ UNCHANGED <<runStatus, phase>> /\ phase # "down"
    BY DEF AppendEvent
<1>2. /\ Head(writes) = writes[1] /\ 1 \in 1..Len(writes)
      /\ \A i \in 1..Len(writes') : i + 1 \in 1..Len(writes) /\ writes'[i] = writes[i + 1]
    BY <1>1, RestOfWrites DEF LoopInv
<1>3. IdleStatus /\ RecoveringStatus /\ LeavingStatus /\ AnsweringStatus
    BY DEF StatusInv
<1>4. ~(phase = "return" /\ exit = "none")
    BY <1>1, <1>2 DEF StatusInv, LeavingInv
<1>5. HasPending(log') => HasPending(log) \/ WillAsk
    BY <1>2, PendingMoves DEF WillAsk
<1>6. SomeOpen' => SomeOpen \/ WillRecord
    BY <1>2, OpenMoves DEF SomeOpen, WillRecord
<1>7. (WillAsk' => WillAsk) /\ (WillRecord' => WillRecord)
    BY <1>2 DEF WillAsk, WillRecord
<1>8. RecoveringStatus'
    BY <1>1, <1>3, <1>5, <1>6, <1>7 DEF RecoveringStatus
<1> QED BY <1>1, <1>3, <1>4, <1>8 DEF IdleStatus, LeavingStatus, AnsweringStatus

LEMMA StatusOfWrite ==
    ASSUME LoopInv, CallInv, StatusInv, crashes = 0,
           \/ (WriteRow \/ RefreshStatus) /\ UNCHANGED <<loop, exit>>
           \/ WriteCheckpoint
    PROVE  IdleStatus' /\ RecoveringStatus' /\ LeavingStatus' /\ AnsweringStatus'
<1>1. /\ writes # <<>> /\ Head(writes).kind # "append" /\ writes' = Tail(writes)
      /\ UNCHANGED <<log, phase, loop, exit>> /\ phase # "down"
    BY DEF WriteRow, RefreshStatus, WriteCheckpoint, durable
<1>2. /\ Head(writes) = writes[1] /\ 1 \in 1..Len(writes) /\ Len(writes) \in Nat
      /\ \A i \in 1..Len(writes') : i + 1 \in 1..Len(writes) /\ writes'[i] = writes[i + 1]
      /\ \A j \in 2..Len(writes) : j - 1 \in 1..Len(writes') /\ writes'[j - 1] = writes[j]
    BY <1>1, RestOfWrites, RestWaits DEF LoopInv
<1>3. IdleStatus /\ RecoveringStatus /\ LeavingStatus /\ AnsweringStatus
    BY DEF StatusInv
<1>4. IdleStatus'
    BY <1>1 DEF IdleStatus
<1>5. CASE Head(writes).kind = "refresh"
    <2>1. phase = "return" /\ exit = "none"
        BY <1>2, <1>5 DEF StatusInv, LeavingInv
    <2>2. runStatus' = RunStatus(log)
        BY <1>1, <1>5 DEF WriteRow, RefreshStatus, WriteCheckpoint
    <2>3. SomeOpen => HasPending(log) \/ RunStatus(log) = "waiting_human"
        <3>1. CASE runStatus = RunStatus(log) /\ (SomeOpen => runStatus = "waiting_human")
            BY <3>1
        <3>2. CASE \A c \in Calls : Open(log, c) => HasPending(log)
            BY <3>2 DEF SomeOpen
        <3> QED BY <1>3, <2>1, <3>1, <3>2 DEF LeavingStatus
    <2>4. LeavingStatus'
        BY <1>1, <2>2, <2>3, StatusAtGate DEF LeavingStatus, SomeOpen
    <2> QED BY <1>1, <1>4, <2>1, <2>4 DEF RecoveringStatus, AnsweringStatus
<1>6. CASE Head(writes).kind # "refresh"
    <2>1. runStatus' = runStatus
        BY <1>1, <1>6 DEF WriteRow, RefreshStatus, WriteCheckpoint, durable
    <2>2. (WillAsk' => WillAsk) /\ (WillRecord' => WillRecord)
        BY <1>2 DEF WillAsk, WillRecord
    <2>3. WillRefresh => WillRefresh'
        <3>1. ASSUME NEW i \in 1..Len(writes), writes[i].kind = "refresh" PROVE WillRefresh'
            <4>1. i \in 2..Len(writes)
                BY <1>2, <1>6, <3>1
            <4> QED BY <1>2, <3>1, <4>1 DEF WillRefresh
        <3> QED BY <3>1 DEF WillRefresh
    <2>4. LeavingStatus'
        BY <1>1, <1>3, <2>1, <2>3 DEF LeavingStatus, SomeOpen
    <2>5. RecoveringStatus'
        BY <1>1, <1>3, <2>1, <2>2 DEF RecoveringStatus, SomeOpen
    <2> QED BY <1>1, <1>3, <1>4, <2>1, <2>4, <2>5 DEF AnsweringStatus
<1> QED BY <1>5, <1>6

\* Driving a call records or asks only where a call is open already.
LEMMA StatusOfDriver ==
    ASSUME LoopInv, LoopInv', CallInv, StatusInv, crashes = 0,
           \/ JudgeCall
           \/ /\ ToolReturns \/ _handle_tool_failure \/ resume_open_calls \/ DriveNext
              /\ UNCHANGED loop
           \/ NextOfBatch
    PROVE  IdleStatus' /\ RecoveringStatus' /\ LeavingStatus' /\ AnsweringStatus'
<1>1. RecoveringStatus
    BY DEF StatusInv
<1>2. ASSUME phase' \in {"drive", "judge", "effect"}, RecoveringStatus'
      PROVE  IdleStatus' /\ RecoveringStatus' /\ LeavingStatus' /\ AnsweringStatus'
    BY <1>2 DEF IdleStatus, LeavingStatus, AnsweringStatus
<1>3. CASE JudgeCall
    <2>1. PICK o \in Outcomes(cur) : Judged(o)
        BY <1>3 DEF JudgeCall
    <2>2. /\ phase = "judge" /\ phase' \in {"drive", "effect"} /\ UNCHANGED <<log, runStatus>>
          /\ cur \in Requests /\ Called(log, cur.call) /\ ~Closed(log, cur.call)
        BY <2>1, JudgedStep DEF LoopInv
    <2>3. SomeOpen
        BY <2>2 DEF SomeOpen, Open, Requests
    <2>4. loop'.stage = loop.stage
        BY <1>3 DEF JudgeCall, LoopInv, LoopTyped
    <2>5. RecoveringStatus'
        BY <1>1, <2>2, <2>3, <2>4 DEF RecoveringStatus
    <2> QED BY <1>2, <2>2, <2>5
<1>4. CASE (ToolReturns \/ _handle_tool_failure) /\ UNCHANGED loop
    <2>1. /\ phase = "effect" /\ phase' = "drive" /\ log' = log
          /\ cur \in Requests /\ Called(log, cur.call) /\ ~Closed(log, cur.call)
        BY <1>4, ToolEnd DEF LoopInv
    <2>2. runStatus' = runStatus
        BY <1>4 DEF ToolReturns, _handle_tool_failure
    <2>3. SomeOpen
        BY <2>1 DEF SomeOpen, Open, Requests
    <2>4. RecoveringStatus'
        BY <1>1, <1>4, <2>1, <2>2, <2>3 DEF RecoveringStatus
    <2> QED BY <1>2, <2>1, <2>4
<1>5. CASE resume_open_calls /\ UNCHANGED loop
    <2>1. /\ phase = "resume" /\ phase' = "drive" /\ UNCHANGED <<log, runStatus, writes>>
        BY <1>5 DEF resume_open_calls
    <2>2. RecoveringStatus'
        BY <1>1, <1>5, <2>1 DEF RecoveringStatus, WillAsk, WillRecord, SomeOpen
    <2> QED BY <1>2, <2>1, <2>2
<1>6. CASE DriveNext /\ UNCHANGED loop
    <2>1. PICK c \in queue :
              LET k == Request(c, ToolOf(log, c), ArgsOf(log, c))
              IN  Called(log, c) /\ k \in Requests /\ k.call = c /\ execute(k)
        BY <1>6, DrivenRequest DEF LoopInv
    <2> DEFINE k == Request(c, ToolOf(log, c), ArgsOf(log, c))
    <2>2. /\ Called(log, c) /\ k \in Requests /\ k.call = c /\ c \in Calls /\ execute(k)
          /\ phase = "drive" /\ UNCHANGED <<log, runStatus>>
        BY <1>6, <2>1 DEF Requests, DriveNext
    <2> HIDE DEF k
    <2>3. phase' \in {"drive", "judge"} /\ ~WillAsk'
        BY <2>2, ExecuteDrives DEF LoopInv, WillAsk
    <2>4. WillRecord' => SomeOpen
        <3>1. CASE Closed(log, c)
            <4>1. writes' = <<>>
                BY <2>2, <3>1 DEF execute
            <4> QED BY <4>1 DEF WillRecord
        <3>2. CASE ~Closed(log, c)
            BY <2>2, <3>2 DEF SomeOpen, Open
        <3> QED BY <3>1, <3>2
    <2>5. RecoveringStatus'
        BY <1>1, <1>6, <2>2, <2>3, <2>4 DEF RecoveringStatus, SomeOpen
    <2> QED BY <1>2, <2>3, <2>5
<1>7. CASE NextOfBatch
    <2>1. phase' \in {"drive", "judge"} /\ loop'.stage = "turn"
        BY <1>7, BatchMoves DEF NextOfBatch, execute
    <2> QED BY <1>2, <2>1 DEF RecoveringStatus
<1> QED BY <1>3, <1>4, <1>5, <1>6, <1>7

\* No other step comes near a status that is stored or to be stored.
LEMMA StatusElsewhere ==
    ASSUME LoopInv, LoopInv', StatusInv, crashes = 0,
           \/ start \/ Human \/ Turn \/ WithoutCompaction \/ compact \/ AskOverBudget
           \/ AskOverflows \/ AskReplies \/ _commit
           \/ Clock \/ UNCHANGED vars
    PROVE  IdleStatus' /\ RecoveringStatus' /\ LeavingStatus' /\ AnsweringStatus'
<1>1. CASE Human
    <2>1. /\ phase = "down" /\ phase' = "return" /\ exit' = "answered" /\ HasPending(log)
          /\ runStatus' = runStatus
        BY <1>1 DEF Human, approve, decide
    <2>2. runStatus = "waiting_human"
        BY <2>1 DEF StatusInv, IdleStatus
    <2> QED BY <2>1, <2>2 DEF IdleStatus, RecoveringStatus, LeavingStatus, AnsweringStatus
<1>2. CASE \/ start \/ Turn \/ WithoutCompaction \/ compact \/ AskOverBudget \/ AskOverflows
           \/ _commit
    <2>1. phase' \in {"turn", "compact", "ask", "leave"}
        BY <1>2 DEF start, Turn, WithoutCompaction, compact, AskOverBudget, AskOverflows, _commit
    <2> QED BY <2>1 DEF IdleStatus, RecoveringStatus, LeavingStatus, AnsweringStatus
<1>3. CASE AskReplies
    <2>1. phase = "ask" /\ phase' \in {"drive", "leave"}
        BY <1>3 DEF AskReplies
    <2>2. loop'.stage = "turn"
        BY <1>3, <2>1 DEF AskReplies, LoopInv, LoopTyped, TurnInv, PlaceInv
    <2> QED BY <2>1, <2>2 DEF IdleStatus, RecoveringStatus, LeavingStatus, AnsweringStatus
<1>4. CASE Clock \/ UNCHANGED vars
    <2>1. UNCHANGED <<log, runStatus, phase, writes, loop, exit>>
        BY <1>4 DEF Clock, TimePasses, durable, volatile, vars
    <2> QED BY <2>1 DEF StatusInv, IdleStatus, RecoveringStatus, LeavingStatus, AnsweringStatus,
                        SomeOpen, WillRecord, WillRefresh, WillAsk
<1> QED BY <1>1, <1>2, <1>3, <1>4

LEMMA StatusKeeps ==
    ASSUME LoopInv, CallInv, StatusInv, [Next]_vars
    PROVE  StatusInv'
<1>1. LoopInv' /\ crashes' \in Nat /\ ExitSays'
    BY LoopKeeps, ExitKeeps
<1>2. LeavingInv'
    BY <1>1, LeavingKeeps
<1>3. SUFFICES ASSUME crashes' = 0
               PROVE  IdleStatus' /\ RecoveringStatus' /\ LeavingStatus' /\ AnsweringStatus'
    BY <1>1, <1>2 DEF StatusInv
<1>4. ~Crash
    BY <1>3 DEF Crash, StatusInv
<1>5. crashes = 0
    BY <1>3, <1>4
       DEF Next, start, resume, Human, approve, Process, Pipeline, JudgeCall, AfterRecovery,
           Turn, WithoutCompaction, compact, CompactionOverBudget, AskOverBudget, AskOverflows,
           AskReplies, NextOfBatch, _commit, WriteCheckpoint, Leave, Return, Clock, vars
<1>6. CASE resume \/ Return \/ CompactionOverBudget
    BY <1>1, <1>5, <1>6, TurnsOfProcess, StatusOfProcess
<1>7. CASE AfterRecovery \/ Leave
    BY <1>1, <1>5, <1>7, TurnsOfLoop, StatusOfProcess
<1>8. CASE AppendEvent /\ UNCHANGED <<loop, exit>>
    BY <1>5, <1>8, StatusOfAppend
<1>9. CASE \/ (WriteRow \/ RefreshStatus) /\ UNCHANGED <<loop, exit>>
           \/ WriteCheckpoint
    BY <1>5, <1>9, StatusOfWrite
<1>10. CASE \/ JudgeCall
            \/ /\ ToolReturns \/ _handle_tool_failure \/ resume_open_calls \/ DriveNext
               /\ UNCHANGED loop
            \/ NextOfBatch
    BY <1>1, <1>5, <1>10, StatusOfDriver
<1>11. CASE \/ start \/ Human \/ Turn \/ WithoutCompaction \/ compact \/ AskOverBudget
            \/ AskOverflows \/ AskReplies \/ _commit
            \/ Clock \/ UNCHANGED vars
    BY <1>1, <1>5, <1>11, StatusElsewhere
<1> QED BY <1>4, <1>6, <1>7, <1>8, <1>9, <1>10, <1>11 DEF Next, Process, Pipeline, Write

LEMMA StatusStarts ==
    ASSUME Init
    PROVE  StatusInv
<1>1. /\ log \in Logs /\ Len(log) = 0 /\ writes = <<>> /\ phase = "down" /\ exit = "none"
      /\ crashes = 0 /\ GoesOn(log) /\ ~HasPending(log)
    BY LoopStarts DEF Init, LoopInv, ToolInv, Typed, GoesOn, HasPending, PendingInterrupts
<1>2. ~SomeOpen
    BY <1>1, CalledMeans DEF SomeOpen, Open
<1> QED BY <1>1, <1>2, EndedIs DEF StatusInv, ExitSays, LeavingInv, IdleStatus, RecoveringStatus,
                                  LeavingStatus, AnsweringStatus

\* As long as no process is killed, runs.status is what the log folds to
\* whenever a process that drove the run has returned: also where recovery
\* stops at the gate and stores no status, and where the run was left alone.
THEOREM StatusStaysFresh == Spec => []StatusIsFreshUnlessKilled
<1>1. LoopInv /\ CallInv /\ StatusInv /\ [Next]_vars => StatusInv'
    BY StatusKeeps
<1>2. StatusInv => StatusIsFreshUnlessKilled
    <2>1. ASSUME StatusInv, crashes = 0, exit = "returned" PROVE runStatus = RunStatus(log)
        <3>1. phase = "down"
            BY <2>1 DEF StatusInv, ExitSays
        <3> QED BY <2>1, <3>1 DEF StatusInv, IdleStatus
    <2> QED BY <2>1 DEF StatusIsFreshUnlessKilled, StatusIsFresh
<1> QED BY <1>1, <1>2, StatusStarts, LoopAlways, CallsAlways, PTL DEF Spec

-----------------------------------------------------------------------------
(* The budget *)

\* The sums of the costs of the first events of a log: what Spent takes the
\* last of.
IsSum(f, l, n) == f = [i \in 0..n |-> IF i = 0 THEN 0 ELSE f[i - 1] + CostOf(l[i])]

\* There is such a sum, as there is no shortest log without one.
LEMMA SumExists ==
    ASSUME NEW l, NEW n \in Nat
    PROVE  \E f : IsSum(f, l, n)
<1> DEFINE Without == {k \in Nat : ~\E f : IsSum(f, l, k)}
<1>1. SUFFICES ASSUME n \in Without PROVE FALSE
    OBVIOUS
<1>2. PICK k \in Without : \A j \in Without : k <= j
    BY <1>1, LeastOf
<1>3. k # 0
    <2>1. IsSum([i \in 0..0 |-> 0], l, 0)
        BY DEF IsSum
    <2> QED BY <2>1
<1>4. PICK f : IsSum(f, l, k - 1)
    <2>1. k - 1 \in Nat /\ ~(k <= k - 1)
        BY <1>3
    <2> QED BY <1>2, <2>1
<1> DEFINE g == [i \in 0..k |-> IF i = k THEN f[k - 1] + CostOf(l[k]) ELSE f[i]]
<1>5. \A i \in 0..k : g[i] = IF i = 0 THEN 0 ELSE g[i - 1] + CostOf(l[i])
    <2>1. \A i \in 0..(k - 1) : f[i] = IF i = 0 THEN 0 ELSE f[i - 1] + CostOf(l[i])
        BY <1>4 DEF IsSum
    <2>2. \A i \in 0..k : g[i] = IF i = k THEN f[k - 1] + CostOf(l[k]) ELSE f[i]
        OBVIOUS
    <2> HIDE DEF g
    <2>3. TAKE i \in 0..k
    <2>4. CASE i = k
        <3>1. k - 1 \in 0..k /\ k - 1 # k /\ k # 0
            BY <1>3
        <3> QED BY <2>2, <2>4, <3>1
    <2>5. CASE i # k
        <3>1. i \in 0..(k - 1) /\ (i # 0 => i - 1 \in 0..k /\ i - 1 # k)
            BY <2>5
        <3> QED BY <2>1, <2>2, <2>5, <3>1
    <2> QED BY <2>4, <2>5
<1>6. IsSum(g, l, k)
    <2>1. g = [i \in 0..k |-> g[i]]
        OBVIOUS
    <2> HIDE DEF g
    <2> QED BY <1>5, <2>1 DEF IsSum
<1> HIDE DEF g
<1> QED BY <1>2, <1>6

\* Sums of two logs agree for as long as the logs do.
LEMMA SumsAgree ==
    ASSUME NEW l, NEW m, NEW k \in Nat, NEW n \in Nat, n <= k,
           NEW f, IsSum(f, l, n), NEW g, IsSum(g, m, k),
           \A i \in 1..n : l[i] = m[i]
    PROVE  f[n] = g[n]
<1> DEFINE Apart == {i \in 0..n : f[i] # g[i]}
<1>1. SUFFICES ASSUME n \in Apart PROVE FALSE
    OBVIOUS
<1>2. PICK i \in Apart : \A j \in Apart : i <= j
    <2>1. Apart \subseteq Nat
        OBVIOUS
    <2> HIDE DEF Apart
    <2> QED BY <1>1, <2>1, LeastOf
<1>3. /\ f[i] = IF i = 0 THEN 0 ELSE f[i - 1] + CostOf(l[i])
      /\ g[i] = IF i = 0 THEN 0 ELSE g[i - 1] + CostOf(m[i])
    BY DEF IsSum
<1>4. CASE i = 0
    BY <1>3, <1>4
<1>5. CASE i # 0
    <2>1. i - 1 \in 0..n /\ ~(i <= i - 1) /\ i \in 1..n
        BY <1>5
    <2>2. f[i - 1] = g[i - 1]
        BY <1>2, <2>1
    <2> QED BY <1>2, <1>3, <1>5, <2>1, <2>2
<1> QED BY <1>4, <1>5

LEMMA SpentIsSum ==
    ASSUME NEW l, Len(l) \in Nat
    PROVE  \E f : IsSum(f, l, Len(l)) /\ Spent(l) = f[Len(l)]
<1> DEFINE f == CHOOSE g : IsSum(g, l, Len(l))
<1>1. IsSum(f, l, Len(l))
    BY SumExists
<1>2. Spent(l) = f[Len(l)]
    BY DEF Spent, IsSum
<1> HIDE DEF f
<1> QED BY <1>1, <1>2

\* What was spent grows by the cost of each event.
LEMMA SpentGrows ==
    ASSUME NEW X, NEW l \in Seq(X), NEW e \in X
    PROVE  Spent(Append(l, e)) = Spent(l) + CostOf(e)
<1> DEFINE m == Append(l, e)
           n == Len(l)
<1>1. /\ n \in Nat /\ Len(m) = n + 1 /\ m[n + 1] = e /\ Len(m) \in Nat
      /\ \A i \in 1..n : l[i] = m[i]
    BY AppendProperties, LenProperties
<1> HIDE DEF m, n
<1>2. PICK f : IsSum(f, l, n) /\ Spent(l) = f[n]
    BY <1>1, SpentIsSum DEF n
<1>3. PICK g : IsSum(g, m, n + 1) /\ Spent(m) = g[n + 1]
    BY <1>1, SpentIsSum
<1>4. f[n] = g[n]
    BY <1>1, <1>2, <1>3, SumsAgree
<1>5. g[n + 1] = g[n] + CostOf(e)
    <2>1. n + 1 \in 0..(n + 1) /\ n + 1 # 0 /\ (n + 1) - 1 = n
        BY <1>1
    <2> QED BY <1>1, <1>3, <2>1 DEF IsSum
<1> QED BY <1>2, <1>3, <1>4, <1>5 DEF m

\* A charge is the next write of a process that has read that the limit is not
\* reached, and no other writer has come between.
ChargesAreCovered ==
    \A i \in 1..Len(writes) :
        IsCharge(writes[i]) => i = 1 /\ writes[i].event.cost \in Costs /\ check(log)

BudgetInv(m) ==
    /\ Spent(log) \in Nat
    /\ Limit > 0 => Spent(log) < Limit + m
    /\ ChargesAreCovered

LEMMA SpendingIsBounded ==
    ASSUME NEW m \in Nat, \A c \in Costs : c <= m, LoopInv, BudgetInv(m), [Next]_vars
    PROVE  BudgetInv(m)'
<1>1. CASE \/ (AppendEvent \/ WriteRow \/ RefreshStatus) /\ UNCHANGED exit
           \/ WriteCheckpoint
    <2>1. writes # <<>> /\ writes' = Tail(writes)
        BY <1>1 DEF AppendEvent, WriteRow, RefreshStatus, WriteCheckpoint
    <2>2. /\ \A i \in 1..Len(writes') : i + 1 \in 1..Len(writes) /\ writes'[i] = writes[i + 1]
          /\ Head(writes) = writes[1] /\ 1 \in 1..Len(writes)
        BY <2>1, RestOfWrites DEF LoopInv
    <2>3. \A i \in 1..Len(writes') : ~IsCharge(writes'[i])
        <3>1. ASSUME NEW i \in 1..Len(writes'), IsCharge(writes'[i]) PROVE FALSE
            <4>1. i + 1 = 1
                BY <2>2, <3>1 DEF BudgetInv, ChargesAreCovered
            <4> QED BY <4>1
        <3> QED BY <3>1
    <2>4. CASE AppendEvent
        <3> DEFINE e == Head(writes).event
        <3>1. log' = Append(log, e) /\ log \in Seq(LoggedEvents) /\ e \in LoggedEvents
            BY <2>4, AppendEventLog, AllLive DEF LoopInv, ToolInv, Typed, AppendEvent
        <3>2. Spent(log') = Spent(log) + CostOf(e)
            BY <3>1, SpentGrows
        <3>3. CASE e.type = "budget_update"
            <4>1. e.cost \in Costs /\ check(log)
                BY <2>2, <2>4, <3>3 DEF BudgetInv, ChargesAreCovered, IsCharge, AppendEvent
            <4>2. CostOf(e) \in Nat /\ CostOf(e) <= m /\ Spent(log) < Limit
                BY <3>3, <4>1, CostsAreNat DEF CostOf, check
            <4> HIDE DEF e
            <4>3. \A s \in Nat, c \in Nat : c <= m /\ s < Limit => s + c < Limit + m /\ s + c \in Nat
                BY LoopBoundsAreNat
            <4>4. Spent(log') \in Nat /\ Spent(log') < Limit + m
                BY <3>2, <4>2, <4>3 DEF BudgetInv
            <4> QED BY <2>3, <4>4 DEF BudgetInv, ChargesAreCovered
        <3>4. CASE e.type # "budget_update"
            <4>1. Spent(log') = Spent(log)
                BY <3>2, <3>4 DEF CostOf, BudgetInv
            <4> QED BY <2>3, <4>1 DEF BudgetInv, ChargesAreCovered
        <3> QED BY <3>3, <3>4
    <2>5. CASE ~AppendEvent
        <3>1. log' = log
            BY <1>1, <2>5 DEF WriteRow, RefreshStatus, WriteCheckpoint, durable
        <3> QED BY <2>3, <3>1 DEF BudgetInv, ChargesAreCovered
    <2> QED BY <2>4, <2>5
<1>2. ASSUME log' = log,
             \A i \in 1..Len(writes') : IsCharge(writes'[i]) =>
                 i = 1 /\ writes'[i].event.cost \in Costs /\ check(log)
      PROVE  BudgetInv(m)'
    BY <1>2 DEF BudgetInv, ChargesAreCovered, check
<1>3. CASE \/ start \/ resume \/ Return \/ Crash \/ CompactionOverBudget \/ Turn
           \/ WithoutCompaction \/ compact \/ AskOverBudget \/ AskOverflows \/ AskReplies
    <2>1. log' = log
        BY <1>3 DEF start, resume, Return, Crash, CompactionOverBudget, Turn, WithoutCompaction,
                    compact, AskOverBudget, AskOverflows, AskReplies, durable
    <2> QED BY <1>2, <1>3, <2>1, OwnStepAppends
<1>4. CASE AfterRecovery \/ _commit \/ Leave
    <2>1. /\ writes' \in {<<>>, <<PutCheckpoint>>, <<PutWrites(loop.done), PutCheckpoint>>,
                          <<Refresh>>}
          /\ log' = log
        BY <1>4 DEF AfterRecovery, _commit, Leave, StatusAtExit, durable
    <2>2. \A w \in {PutCheckpoint, PutWrites(loop.done), Refresh} : ~IsCharge(w)
        BY OwnItemsAre, WhatWritesDo DEF PutCheckpoint, PutWrites, Refresh, IsCharge
    <2>3. \A i \in 1..Len(writes') : writes'[i] \in {PutCheckpoint, PutWrites(loop.done), Refresh}
        BY <2>1
    <2> QED BY <1>2, <2>1, <2>2, <2>3
<1>5. CASE \/ JudgeCall \/ ToolReturns \/ _handle_tool_failure
           \/ resume_open_calls \/ DriveNext \/ NextOfBatch \/ Human
    <2>1. log' = log
        <3>1. CASE ToolReturns \/ _handle_tool_failure
            BY <3>1, ToolEnd DEF LoopInv
        <3>2. CASE JudgeCall \/ resume_open_calls \/ DriveNext \/ NextOfBatch \/ Human
            BY <3>2 DEF JudgeCall, Judged, resume_open_calls, DriveNext, NextOfBatch, Human,
                        approve, decide, durable
        <3> QED BY <1>5, <3>1, <3>2
    <2> QED BY <1>2, <1>5, <2>1, PipelineWritesAre DEF IsOfPipeline
<1>6. CASE Clock \/ UNCHANGED vars
    <2>1. UNCHANGED <<log, writes>>
        BY <1>6 DEF Clock, TimePasses, durable, volatile, vars
    <2> QED BY <2>1 DEF BudgetInv, ChargesAreCovered, check
<1> QED BY <1>1, <1>3, <1>4, <1>5, <1>6 DEF Next, Process, Pipeline, Write

\* No more than one request or one summary is paid for beyond the limit: each
\* is paid for by the process that last read what was spent, so a kill, which
\* loses what was in flight, and a resumed process, which reads the log anew,
\* add nothing.
THEOREM SpendingStaysBounded ==
    ASSUME NEW m \in Costs, \A c \in Costs : c <= m
    PROVE  Spec => []BudgetIsKept
<1>1. m \in Nat /\ Max(Costs) = m
    <2>1. m \in Nat
        BY CostsAreNat
    <2>2. \A c \in Costs : (\A d \in Costs : c >= d) => c = m
        BY <2>1, CostsAreNat
    <2>3. \A d \in Costs : m >= d
        BY <2>1, CostsAreNat
    <2>4. \E c \in Costs : \A d \in Costs : c >= d
        BY <2>3
    <2> QED BY <2>1, <2>2, <2>4 DEF Max
<1>2. Init => BudgetInv(m)
    <2>1. ASSUME Init PROVE BudgetInv(m)
        <3>1. log = <<>> /\ writes = <<>> /\ Len(<<>>) = 0
            BY <2>1 DEF Init
        <3>2. Spent(<<>>) = 0
            <4>1. PICK f : IsSum(f, <<>>, 0) /\ Spent(<<>>) = f[0]
                BY <3>1, SpentIsSum
            <4> QED BY <4>1 DEF IsSum
        <3>3. Limit > 0 => 0 < Limit + m
            BY <1>1, LoopBoundsAreNat
        <3> QED BY <3>1, <3>2, <3>3 DEF BudgetInv, ChargesAreCovered
    <2> QED BY <2>1
<1>3. LoopInv /\ BudgetInv(m) /\ [Next]_vars => BudgetInv(m)'
    BY <1>1, SpendingIsBounded
<1>4. BudgetInv(m) => BudgetIsKept
    BY <1>1 DEF BudgetInv, BudgetIsKept
<1> QED BY <1>2, <1>3, <1>4, LoopAlways, PTL DEF Spec

-----------------------------------------------------------------------------
(* What the model is shown has lost nothing *)

IsTelling(w) == w.kind = "append" /\ IsMessage(w.event)
IsSummary(w) == w.kind = "append" /\ w.event.type = "compaction"

WillResume == \E i \in 1..Len(writes) : IsResuming(writes[i])

\* The log is one that a view loses nothing of, as far as it goes.
LogIsPaired == IsPairedLog(log) /\ ReplacesPairs(log, Replaced(log))

\* A call is concluded once, and not recorded after that.
ResultsComeOnce ==
    \A i \in 1..Len(writes), c \in Calls : IsConclusionOf(writes[i], c) =>
        /\ ~Closed(log, c)
        /\ \A j \in 1..Len(writes) : IsConclusionOf(writes[j], c) => j = i

CallsComeFirst ==
    \A i \in 1..Len(writes), c \in Calls : IsRecordingOf(writes[i], c) =>
        /\ ~Closed(log, c)
        /\ \A j \in 1..(i - 1) : ~IsConclusionOf(writes[j], c)

\* A message is recorded, and a summary made, where no call is left open.
MessagesComeBetween ==
    \A i \in 1..Len(writes) : IsTelling(writes[i]) =>
        /\ \A c \in Calls : ~Open(log, c)
        /\ \A j \in 1..Len(writes), c \in Calls : ~IsRecordingOf(writes[j], c)

SummariesReplacePairs ==
    \A i \in 1..Len(writes) :
        IsSummary(writes[i]) => ReplacesPairs(log, writes[i].event.replaces)

\* The call at the gate stays open until an answer is being written, and what
\* that concludes comes before the end of the wait.
PendingIsOpen ==
    /\ HasPending(log) => Open(log, Pending(log).call) \/ WillResume
    /\ \A i \in 1..Len(writes), c \in Calls : IsConclusionOf(writes[i], c) /\ HasPending(log) =>
          \E j \in (i + 1)..Len(writes) : IsResuming(writes[j])

ViewInv ==
    /\ LogIsPaired /\ ResultsComeOnce /\ CallsComeFirst /\ MessagesComeBetween
    /\ SummariesReplacePairs /\ EditsComeLater /\ PendingIsOpen

\* Where no call is open every call has its result.
LEMMA NoneOpen ==
    ASSUME ToolInv, \A c \in Calls : ~Open(log, c)
    PROVE  EachIsAnswered(log)
<1>1. log \in Logs
    BY DEF ToolInv, Typed
<1>2. SUFFICES ASSUME NEW i \in CallsIn(log)
               PROVE  \E j \in ResultsIn(log) : Answers(log, j, i)
    BY DEF EachIsAnswered
<1>3. i \in 1..Len(log) /\ log[i].type = "tool_call"
    BY <1>2 DEF CallsIn
<1>4. Called(log, log[i].call) /\ log[i].call \in Calls
    BY <1>1, <1>3, CalledMeans, RequestOfCall
<1>5. Closed(log, log[i].call)
    BY <1>4 DEF Open
<1>6. PICK j \in 1..Len(log) : log[j].type = "tool_result" /\ log[j].call = log[i].call
    BY <1>1, <1>5, ClosedMeans
<1> QED BY <1>2, <1>6 DEF Answers, ResultsIn

\* A call that is not closed has no result anywhere in the log.
LEMMA NoResultYet ==
    ASSUME ToolInv, NEW c, ~Closed(log, c)
    PROVE  \A j \in ResultsIn(log) : log[j].call # c
BY DEF ToolInv, ResultsAreOfCalls, ResultsAnswer, ResultsIn

\* A step that leaves the log alone and neither records nor concludes a call.
LEMMA QuietFits ==
    ASSUME ViewInv, log' = log, ~WillResume \/ WillResume',
           \A i \in 1..Len(writes') :
              /\ \A c : ~IsRecordingOf(writes'[i], c) /\ ~IsConclusionOf(writes'[i], c)
              /\ IsTelling(writes'[i]) => \A c \in Calls : ~Open(log, c)
              /\ IsSummary(writes'[i]) => ReplacesPairs(log, writes'[i].event.replaces)
    PROVE  ViewInv'
<1>1. LogIsPaired'
    BY DEF ViewInv, LogIsPaired
<1>2. ResultsComeOnce' /\ CallsComeFirst'
    BY DEF ResultsComeOnce, CallsComeFirst
<1>3. MessagesComeBetween' /\ SummariesReplacePairs'
    BY DEF MessagesComeBetween, SummariesReplacePairs
<1>4. EditsComeLater'
    BY DEF ViewInv, EditsComeLater
<1>5. PendingIsOpen'
    BY DEF ViewInv, PendingIsOpen
<1> QED BY <1>1, <1>2, <1>3, <1>4, <1>5 DEF ViewInv

\* A summary replaces whole groups, as they are when it is made.
LEMMA SummariesAre ==
    ASSUME Turn \/ WithoutCompaction \/ compact \/ AskOverBudget \/ AskOverflows \/ AskReplies
    PROVE  \A i \in 1..Len(writes') : IsSummary(writes'[i]) =>
              writes'[i].event.replaces = Victims(log, Keep)
<1>1. /\ ~IsSummary(Reporting) /\ ~IsSummary(Fatal)
      /\ \A cost : ~IsSummary(Charge(cost))
      /\ \A b : ~IsSummary(Appending(AgentMessage(b)))
      /\ \A v : Appending(CompactionEvent(v)).event.replaces = v
    BY WhatWritesDo DEF Fatal, Charge, IsSummary, ErrorEvent, AgentMessage, ChargeEvent,
                        CompactionEvent
<1>2. CASE Turn \/ WithoutCompaction \/ AskOverBudget \/ AskOverflows
    <2>1. writes' \in {<<>>, writes, <<Reporting>>, <<Fatal>>, Append(<<>>, Fatal),
                       Append(<<Reporting>>, Fatal)} /\ writes = <<>>
        BY <1>2 DEF Turn, WithoutCompaction, AskOverBudget, AskOverflows, Unsummarised
    <2>2. writes' \in {<<>>, <<Reporting>>, <<Fatal>>, <<Reporting, Fatal>>}
        BY <2>1, AppendedLists
    <2> QED BY <1>1, <2>2
<1>3. CASE compact
    <2> DEFINE x == Appending(CompactionEvent(Victims(log, Keep)))
    <2>1. PICK cost \in Costs : writes' = <<Charge(cost), x>>
        BY <1>3 DEF compact
    <2>2. x.event.replaces = Victims(log, Keep)
        BY <1>1
    <2> HIDE DEF x
    <2>3. \A i \in 1..Len(writes') : writes'[i] = Charge(cost) \/ writes'[i] = x
        BY <2>1
    <2> QED BY <1>1, <2>2, <2>3
<1>4. CASE AskReplies
    <2>1. PICK b \in Batches, cost \in Costs :
              writes' \in {<<Charge(cost), Appending(AgentMessage(b = <<>>))>>,
                           <<Charge(cost), Fatal>>}
        BY <1>4 DEF AskReplies
    <2> DEFINE x == Appending(AgentMessage(b = <<>>))
    <2>2. ~IsSummary(x)
        BY <1>1
    <2> HIDE DEF x
    <2>3. \A i \in 1..Len(writes') : writes'[i] \in {Charge(cost), x, Fatal}
        BY <2>1 DEF x
    <2> QED BY <1>1, <2>2, <2>3
<1> QED BY <1>2, <1>3, <1>4

\* No step of the loop's own comes while an answer is being written: the kill
\* that would is the one that is left out.
LEMMA NoAnswerCut ==
    ASSUME LoopInv, StatusInv, KilledElsewhere,
           \/ start \/ resume \/ Return \/ Crash \/ CompactionOverBudget
           \/ AfterRecovery \/ _commit \/ Leave
           \/ Turn \/ WithoutCompaction \/ compact \/ AskOverBudget \/ AskOverflows
           \/ AskReplies
    PROVE  ~WillResume
<1>1. CASE writes = <<>>
    BY <1>1 DEF WillResume
<1>2. CASE phase = "down"
    BY <1>1, <1>2, NothingInHand
<1>3. CASE Crash
    <2>1. exit # "answered"
        <3>1. crashes' > crashes
            BY <1>3 DEF Crash, StatusInv
        <3> QED BY <3>1 DEF KilledElsewhere
    <2>2. SUFFICES ASSUME NEW i \in 1..Len(writes), IsResuming(writes[i]) PROVE FALSE
        BY DEF WillResume
    <2>3. phase = "return"
        BY <2>2 DEF LoopInv, TurnInv, PlaceInv, IsResuming
    <2> QED BY <2>1, <2>2, <2>3 DEF StatusInv, ExitSays, LeavingInv, IsResuming
<1> QED BY <1>1, <1>2, <1>3
        DEF start, resume, Return, CompactionOverBudget, AfterRecovery, _commit, Leave, Turn,
            WithoutCompaction, compact, AskOverBudget, AskOverflows, AskReplies

\* A step of the loop's own leaves calls alone, and tells the model something only
\* where no call is open.
LEMMA OwnStepTells ==
    ASSUME LoopInv, CallInv, OwnStep,
           \/ start \/ resume \/ Return \/ Crash \/ CompactionOverBudget
           \/ AfterRecovery \/ _commit \/ Leave
           \/ Turn \/ WithoutCompaction \/ compact \/ AskOverBudget \/ AskOverflows
           \/ AskReplies
    PROVE  /\ log' = log
           /\ \A i \in 1..Len(writes') :
                 /\ ~IsResuming(writes'[i])
                 /\ \A c : ~IsRecordingOf(writes'[i], c) /\ ~IsConclusionOf(writes'[i], c)
                 /\ IsTelling(writes'[i]) => \A c \in Calls : ~Open(log, c)
<1>1. log' = log /\ \A i \in 1..Len(writes') : writes'[i] \in OwnItems
    BY ElementOfSeq DEF OwnStep
<1>2. \A i \in 1..Len(writes') :
          /\ ~IsResuming(writes'[i])
          /\ \A c : ~IsRecordingOf(writes'[i], c) /\ ~IsConclusionOf(writes'[i], c)
    BY <1>1, OwnItemsDo DEF IsResuming
<1>3. \A i \in 1..Len(writes') : IsTelling(writes'[i]) => \A c \in Calls : ~Open(log, c)
    <2>1. CASE start
        <3>1. Len(log) = 0 /\ log \in Logs
            BY <2>1 DEF start, LoopInv, ToolInv, Typed
        <3> QED BY <3>1, CalledMeans DEF Open
    <2>2. CASE resume \/ Return \/ Crash \/ CompactionOverBudget
        <3>1. writes' = <<>>
            BY <2>2, NothingInHand DEF resume, Return, Crash, CompactionOverBudget
        <3> QED BY <3>1
    <2>3. CASE AfterRecovery \/ _commit \/ Leave
        <3>1. writes' \in {<<>>, <<PutCheckpoint>>, <<PutWrites(loop.done), PutCheckpoint>>,
                           <<Refresh>>}
            BY <2>3 DEF AfterRecovery, _commit, Leave, StatusAtExit
        <3>2. \A i \in 1..Len(writes') :
                  writes'[i] \in {PutCheckpoint, PutWrites(loop.done), Refresh}
            BY <3>1
        <3> QED BY <3>2, OwnItemsDo DEF IsTelling
    <2>4. CASE \/ Turn \/ WithoutCompaction \/ compact \/ AskOverBudget \/ AskOverflows
               \/ AskReplies
        <3>1. phase \in {"turn", "compact", "ask"}
            BY <2>4 DEF Turn, WithoutCompaction, compact, AskOverBudget, AskOverflows, AskReplies
        <3> QED BY <3>1 DEF CallInv, OpenIsDriven
    <2> QED BY <2>1, <2>2, <2>3, <2>4
<1> QED BY <1>1, <1>2, <1>3

LEMMA OwnStepFits ==
    ASSUME LoopInv, CallInv, StatusInv, ViewInv, OwnStep, KilledElsewhere,
           \/ start \/ resume \/ Return \/ Crash \/ CompactionOverBudget
           \/ AfterRecovery \/ _commit \/ Leave
           \/ Turn \/ WithoutCompaction \/ compact \/ AskOverBudget \/ AskOverflows
           \/ AskReplies
    PROVE  ViewInv'
<1>1. /\ log' = log
      /\ \A i \in 1..Len(writes') :
            /\ \A c : ~IsRecordingOf(writes'[i], c) /\ ~IsConclusionOf(writes'[i], c)
            /\ IsTelling(writes'[i]) => \A c \in Calls : ~Open(log, c)
    BY OwnStepTells
<1>2. \A i \in 1..Len(writes') :
          IsSummary(writes'[i]) => ReplacesPairs(log, writes'[i].event.replaces)
    <2>1. CASE start
        <3>1. \A i \in 1..Len(writes') : writes'[i] = Appending(UserMessage)
            BY <2>1 DEF start
        <3>2. ~IsSummary(Appending(UserMessage))
            BY WhatWritesDo DEF IsSummary, UserMessage
        <3> QED BY <3>1, <3>2
    <2>2. CASE resume \/ Return \/ Crash \/ CompactionOverBudget
        <3>1. writes' = <<>>
            BY <2>2, NothingInHand DEF resume, Return, Crash, CompactionOverBudget
        <3> QED BY <3>1
    <2>3. CASE AfterRecovery \/ _commit \/ Leave
        <3>1. writes' \in {<<>>, <<PutCheckpoint>>, <<PutWrites(loop.done), PutCheckpoint>>,
                           <<Refresh>>}
            BY <2>3 DEF AfterRecovery, _commit, Leave, StatusAtExit
        <3>2. \A i \in 1..Len(writes') :
                  writes'[i] \in {PutCheckpoint, PutWrites(loop.done), Refresh}
            BY <3>1
        <3> QED BY <3>2, OwnItemsDo DEF IsSummary
    <2>4. CASE \/ Turn \/ WithoutCompaction \/ compact \/ AskOverBudget \/ AskOverflows
               \/ AskReplies
        <3>1. phase \in {"turn", "compact", "ask"}
            BY <2>4 DEF Turn, WithoutCompaction, compact, AskOverBudget, AskOverflows, AskReplies
        <3>2. \A c \in Calls : ~Open(log, c)
            BY <3>1 DEF CallInv, OpenIsDriven
        <3>3. EachIsAnswered(log) /\ Len(log) \in Nat
            BY <3>2, NoneOpen, AllLive DEF LoopInv, ToolInv, Typed
        <3>4. ReplacesPairs(log, Victims(log, Keep))
            BY <3>3, VictimsArePairs DEF ViewInv, LogIsPaired
        <3> QED BY <2>4, <3>4, SummariesAre
    <2> QED BY <2>1, <2>2, <2>3, <2>4
<1>3. ~WillResume
    BY NoAnswerCut
<1> QED BY <1>1, <1>2, <1>3, QuietFits

\* What a step that takes up the call c leaves to write: records it first, if at
\* all, and concludes it in place n, if at all.
IsStepOf(c, n) ==
    \A i \in 1..Len(writes') :
        /\ ~IsTelling(writes'[i]) /\ ~IsSummary(writes'[i])
        /\ \A d : IsRecordingOf(writes'[i], d) =>
              /\ d = c /\ i = 1 /\ ~Closed(log, c)
              /\ \A o \in Calls : c = EditOf(o) => Closed(log, o)
        /\ \A d : IsConclusionOf(writes'[i], d) => d = c /\ i = n /\ ~Closed(log, c)

LEMMA CallStepFits ==
    ASSUME ViewInv, log' = log, ~HasPending(log), NEW c, NEW n, IsStepOf(c, n)
    PROVE  ViewInv'
<1>1. LogIsPaired'
    BY DEF ViewInv, LogIsPaired
<1>2. ResultsComeOnce'
    BY DEF ResultsComeOnce, IsStepOf
<1>3. CallsComeFirst'
    <2>1. \A i, j : i = 1 => ~(j \in 1..(i - 1))
        OBVIOUS
    <2> QED BY <2>1 DEF CallsComeFirst, IsStepOf
<1>4. MessagesComeBetween' /\ SummariesReplacePairs'
    BY DEF MessagesComeBetween, SummariesReplacePairs, IsStepOf
<1>5. EditsComeLater'
    BY DEF ViewInv, EditsComeLater, IsStepOf
<1>6. PendingIsOpen'
    BY DEF PendingIsOpen
<1> QED BY <1>1, <1>2, <1>3, <1>4, <1>5, <1>6 DEF ViewInv

\* What the items of the pipeline are not.
LEMMA PipelineTellsNothing ==
    /\ \A k : ~IsTelling(Recording(k)) /\ ~IsSummary(Recording(k))
    /\ \A k, s : ~IsTelling(Concluding(k, s)) /\ ~IsSummary(Concluding(k, s))
    /\ ~IsTelling(Reporting) /\ ~IsSummary(Reporting)
    /\ \A e : e.type \in {"interrupt", "approval", "resume"} =>
          ~IsTelling(Appending(e)) /\ ~IsSummary(Appending(e))
    /\ \A s, a : ~IsTelling(Insert(s, a)) /\ ~IsSummary(Insert(s, a))
    /\ \A s : ~IsTelling(Update(s)) /\ ~IsSummary(Update(s))
BY WhatWritesDo DEF IsTelling, IsSummary, IsMessage

\* A call is concluded, with or without a report and the row it leaves.
LEMMA ConcludingFits ==
    ASSUME ViewInv, log' = log, ~HasPending(log), NEW k, ~Closed(log, k.call), NEW s, NEW w,
           w.kind # "append",
           \/ writes' = <<Reporting, Concluding(k, s)>>
           \/ writes' = <<Concluding(k, s), w>>
           \/ writes' = <<Reporting, Concluding(k, s), w>>
    PROVE  ViewInv'
<1> DEFINE x == Concluding(k, s)
<1>1. /\ ~IsTelling(x) /\ ~IsSummary(x) /\ \A d : ~IsRecordingOf(x, d)
      /\ \A d : IsConclusionOf(x, d) => d = k.call
    BY PipelineTellsNothing, WhatWritesDo DEF IsRecordingOf, IsConclusionOf
<1>2. \A y \in {Reporting, w} : /\ ~IsTelling(y) /\ ~IsSummary(y)
                                /\ \A d : ~IsRecordingOf(y, d) /\ ~IsConclusionOf(y, d)
    BY PipelineTellsNothing, WhatWritesDo
       DEF IsTelling, IsSummary, IsRecordingOf, IsConclusionOf
<1> HIDE DEF x
<1>3. \E n : \A i \in 1..Len(writes') : (writes'[i] = x /\ i = n) \/ writes'[i] \in {Reporting, w}
    <2>1. CASE writes' = <<x, w>>
        <3>1. \A i \in 1..Len(writes') : (writes'[i] = x /\ i = 1) \/ writes'[i] \in {Reporting, w}
            BY <2>1
        <3> QED BY <3>1
    <2>2. CASE writes' = <<Reporting, x>> \/ writes' = <<Reporting, x, w>>
        <3>1. \A i \in 1..Len(writes') : (writes'[i] = x /\ i = 2) \/ writes'[i] \in {Reporting, w}
            BY <2>2
        <3> QED BY <3>1
    <2> QED BY <2>1, <2>2 DEF x
<1>4. PICK n : \A i \in 1..Len(writes') :
                  (writes'[i] = x /\ i = n) \/ writes'[i] \in {Reporting, w}
    BY <1>3
<1>5. IsStepOf(k.call, n)
    BY <1>1, <1>2, <1>4 DEF IsStepOf
<1> QED BY <1>5, CallStepFits

LEMMA JudgeFits ==
    ASSUME LoopInv, ViewInv, JudgeCall
    PROVE  ViewInv'
<1>1. PICK o \in Outcomes(cur) : Judged(o)
    BY DEF JudgeCall
<1>2. phase = "judge" /\ log' = log /\ ~Closed(log, cur.call) /\ writes = <<>>
    BY <1>1, JudgedStep DEF LoopInv
<1>3. ~HasPending(log)
    BY <1>2 DEF LoopInv, TurnInv, NothingPassesGate
<1> DEFINE q == Appending(InterruptEvent(cur.call, InterruptCount(log)))
<1>4. \/ writes' \in {<<>>, <<q>>, <<Insert("pending", Actual(cur))>>}
      \/ writes' = <<Reporting, Concluding(cur, "rejected")>>
      \/ writes' = <<Reporting, Concluding(cur, "unknown"), Update("unknown")>>
      \/ writes' = <<Concluding(cur, "executed"), Update("executed")>>
    BY <1>1, JudgedStep DEF LoopInv
<1>5. CASE writes' \in {<<>>, <<q>>, <<Insert("pending", Actual(cur))>>}
    <2>1. \A y \in {q, Insert("pending", Actual(cur))} :
              /\ ~IsTelling(y) /\ ~IsSummary(y)
              /\ \A d : ~IsRecordingOf(y, d) /\ ~IsConclusionOf(y, d)
        BY PipelineTellsNothing, WhatWritesDo
           DEF InterruptEvent, IsRecordingOf, IsConclusionOf
    <2> HIDE DEF q
    <2>2. \A i \in 1..Len(writes') : writes'[i] \in {q, Insert("pending", Actual(cur))}
        BY <1>5
    <2>3. IsStepOf(cur.call, 1)
        BY <2>1, <2>2 DEF IsStepOf
    <2> QED BY <1>2, <1>3, <2>3, CallStepFits
<1>6. \A s : Update(s).kind # "append"
    BY WhatWritesDo
<1>7. CASE \/ writes' = <<Reporting, Concluding(cur, "rejected")>>
           \/ writes' = <<Reporting, Concluding(cur, "unknown"), Update("unknown")>>
           \/ writes' = <<Concluding(cur, "executed"), Update("executed")>>
    BY <1>2, <1>3, <1>6, <1>7, ConcludingFits
<1> QED BY <1>4, <1>5, <1>7

LEMMA ToolEndFits ==
    ASSUME LoopInv, ViewInv, ToolReturns \/ _handle_tool_failure
    PROVE  ViewInv'
<1>1. phase = "effect" /\ log' = log /\ ~Closed(log, cur.call)
    BY ToolEnd DEF LoopInv
<1>2. ~HasPending(log)
    BY <1>1 DEF LoopInv, TurnInv, NothingPassesGate
<1>3. PICK s \in Statuses, w \in WriteItems :
          /\ IsRowWrite(w)
          /\ writes' \in {<<Concluding(cur, s), w>>, <<Reporting, Concluding(cur, s), w>>}
    BY ToolEnd DEF LoopInv
<1>4. w.kind # "append"
    BY <1>3 DEF IsRowWrite
<1> QED BY <1>1, <1>2, <1>3, <1>4, ConcludingFits

\* The next call: one the log has, or one that is no edit of another.
LEMMA ExecuteFits ==
    ASSUME LoopInv, ViewInv, log' = log, ~HasPending(log), NEW k \in Requests, execute(k),
           Called(log, k.call) \/ k.call \in Originals
    PROVE  ViewInv'
<1>1. \A o \in Calls : k.call = EditOf(o) => Closed(log, o)
    <2>1. TAKE o \in Calls
    <2>2. HAVE k.call = EditOf(o)
    <2>3. EditOf(o) \notin Originals
        BY BoundsAreNat DEF Calls, EditOf, Originals
    <2> QED BY <2>2, <2>3 DEF ViewInv, EditsComeLater
<1> DEFINE x == Recording(k)
           y == Concluding(k, "failed")
<1>2. /\ ~IsTelling(x) /\ ~IsSummary(x) /\ \A d : ~IsConclusionOf(x, d)
      /\ \A d : IsRecordingOf(x, d) => d = k.call
      /\ ~IsTelling(y) /\ ~IsSummary(y) /\ \A d : ~IsRecordingOf(y, d)
      /\ \A d : IsConclusionOf(y, d) => d = k.call
      /\ ~IsTelling(Reporting) /\ ~IsSummary(Reporting)
      /\ \A d : ~IsRecordingOf(Reporting, d) /\ ~IsConclusionOf(Reporting, d)
    BY PipelineTellsNothing, WhatWritesDo DEF IsRecordingOf, IsConclusionOf
<1>3. \/ writes' = <<>>
      \/ ~Closed(log, k.call) /\ writes' \in {<<x>>, <<x, Reporting, y>>}
    BY DEF execute
<1> HIDE DEF x, y
<1>4. \A i \in 1..Len(writes') :
          /\ ~Closed(log, k.call)
          /\ \/ writes'[i] = x /\ i = 1
             \/ writes'[i] = Reporting
             \/ writes'[i] = y /\ i = 3
    BY <1>3
<1>5. IsStepOf(k.call, 3)
    BY <1>1, <1>2, <1>4 DEF IsStepOf
<1> QED BY <1>5, CallStepFits

LEMMA DriverFits ==
    ASSUME LoopInv, ViewInv, resume_open_calls \/ DriveNext \/ NextOfBatch
    PROVE  ViewInv'
<1>1. CASE resume_open_calls
    <2>1. log' = log /\ writes' = <<>> /\ phase = "resume"
        BY <1>1 DEF resume_open_calls
    <2>2. ~HasPending(log)
        BY <2>1, NothingInHand
    <2>3. IsStepOf(0, 0)
        BY <2>1 DEF IsStepOf
    <2> QED BY <2>1, <2>2, <2>3, CallStepFits
<1>2. CASE DriveNext
    <2>1. PICK c \in queue :
              LET k == Request(c, ToolOf(log, c), ArgsOf(log, c))
              IN  Called(log, c) /\ k \in Requests /\ k.call = c /\ execute(k)
        BY <1>2, DrivenRequest DEF LoopInv
    <2> DEFINE k == Request(c, ToolOf(log, c), ArgsOf(log, c))
    <2>2. k \in Requests /\ execute(k) /\ Called(log, k.call) /\ queue # {}
        BY <2>1
    <2> HIDE DEF k
    <2>3. log' = log /\ ~HasPending(log)
        BY <1>2, <2>2 DEF DriveNext, LoopInv, TurnInv, NothingPassesGate
    <2> QED BY <2>2, <2>3, ExecuteFits
<1>3. CASE NextOfBatch
    <2> DEFINE k == Head(loop.batch)
    <2>1. k \in Requests /\ execute(k) /\ k.call \in Originals
        BY <1>3, BatchMoves DEF NextOfBatch
    <2> HIDE DEF k
    <2>2. log' = log /\ ~HasPending(log)
        BY <1>3 DEF NextOfBatch, durable, LoopInv, TurnInv, NothingPassesGate
    <2> QED BY <2>1, <2>2, ExecuteFits
<1> QED BY <1>1, <1>2, <1>3

\* What an answer about the call c leaves to write: its conclusion first, if at
\* all, then the edited call, if any, and last the end of the wait.
IsAnswerTo(c) ==
    /\ Len(writes') \in Nat \ {0} /\ IsResuming(writes'[Len(writes')])
    /\ \A i \in 1..Len(writes') :
          /\ ~IsTelling(writes'[i]) /\ ~IsSummary(writes'[i])
          /\ \A d : IsConclusionOf(writes'[i], d) => d = c /\ i = 1 /\ 1 < Len(writes')
          /\ \A d : IsRecordingOf(writes'[i], d) =>
                d = EditOf(c) /\ i = 2 /\ IsConclusionOf(writes'[1], c)

LEMMA AnswerIs ==
    ASSUME ToolInv, NEW d \in Decisions, NEW a \in Args, NEW s \in Scopes, decide(d, a, s)
    PROVE  IsAnswerTo(Asked.call)
<1>1. /\ Approving(d, a, s).kind = "append" /\ Approving(d, a, s).event.type = "approval"
      /\ Resuming.kind = "append" /\ Resuming.event.type = "resume"
      /\ Rerecording(a).kind = "append" /\ Rerecording(a).event.type = "tool_call"
      /\ Rerecording(a).event.call = Target(a)
    <2>1. Rerecording(a).kind = "append" /\ Rerecording(a).event.type = "tool_call"
        BY WhatWritesDo DEF Rerecording
    <2> QED BY <2>1, DecideIs
<1> DEFINE p == Approving(d, a, s)
           q == Resuming
           r == Rerecording(a)
<1>2. /\ \A y \in {p, q} : /\ ~IsTelling(y) /\ ~IsSummary(y)
                           /\ \A c : ~IsRecordingOf(y, c) /\ ~IsConclusionOf(y, c)
      /\ IsResuming(q)
      /\ ~IsTelling(r) /\ ~IsSummary(r) /\ \A c : ~IsConclusionOf(r, c)
      /\ a # Asked.args => \A c : IsRecordingOf(r, c) => c = EditOf(Asked.call)
    BY <1>1 DEF IsTelling, IsSummary, IsMessage, IsRecordingOf, IsConclusionOf, IsResuming, Target
<1>3. \A t : LET x == Concluding(Asked, t)
             IN  /\ ~IsTelling(x) /\ ~IsSummary(x) /\ \A c : ~IsRecordingOf(x, c)
                 /\ \A c : IsConclusionOf(x, c) <=> c = Asked.call
    BY PipelineTellsNothing, WhatWritesDo DEF IsRecordingOf, IsConclusionOf
<1> HIDE DEF p, q, r
<1>4. CASE writes' = <<Concluding(Asked, "rejected"), p, q>>
    <2> DEFINE x == Concluding(Asked, "rejected")
    <2>1. /\ Len(writes') = 3 /\ writes'[3] = q
          /\ \A i \in 1..Len(writes') : (i = 1 /\ writes'[i] = x) \/ writes'[i] \in {p, q}
        BY <1>4
    <2>2. /\ ~IsTelling(x) /\ ~IsSummary(x) /\ \A c : ~IsRecordingOf(x, c)
          /\ \A c : IsConclusionOf(x, c) <=> c = Asked.call
        BY <1>3
    <2> HIDE DEF x
    <2> QED BY <1>2, <2>1, <2>2 DEF IsAnswerTo
<1>5. CASE a # Asked.args /\ writes' = <<Concluding(Asked, "superseded"), r, p, q>>
    <2> DEFINE x == Concluding(Asked, "superseded")
    <2>1. /\ Len(writes') = 4 /\ writes'[4] = q /\ writes'[1] = x
          /\ \A i \in 1..Len(writes') :
                \/ i = 1 /\ writes'[i] = x
                \/ i = 2 /\ writes'[i] = r
                \/ writes'[i] \in {p, q}
        BY <1>5
    <2>2. /\ ~IsTelling(x) /\ ~IsSummary(x) /\ \A c : ~IsRecordingOf(x, c)
          /\ \A c : IsConclusionOf(x, c) <=> c = Asked.call
        BY <1>3
    <2> HIDE DEF x
    <2> QED BY <1>2, <1>5, <2>1, <2>2 DEF IsAnswerTo
<1>6. CASE writes' = <<p, q>>
    <2>1. /\ Len(writes') = 2 /\ writes'[2] = q
          /\ \A i \in 1..Len(writes') : writes'[i] \in {p, q}
        BY <1>6
    <2> QED BY <1>2, <2>1 DEF IsAnswerTo
<1> QED BY <1>4, <1>5, <1>6, DecideIs DEF p, q, r

LEMMA AnswerFits ==
    ASSUME LoopInv, ViewInv, NEW d \in Decisions, NEW a \in Args, NEW s \in Scopes,
           approve(d, a, s)
    PROVE  ViewInv'
<1> DEFINE c == Asked.call
<1>1. ToolInv /\ phase = "down" /\ decide(d, a, s) /\ log \in Logs
    BY DEF LoopInv, approve, ToolInv, Typed
<1>2. HasPending(log) /\ log' = log
    BY <1>1, DecideIs
<1>3. c = Pending(log).call /\ c \in Calls
    BY <1>1, <1>2, AskedIs DEF Requests
<1>4. writes = <<>>
    BY <1>1, NothingInHand
<1>5. Open(log, c)
    BY <1>2, <1>3, <1>4 DEF ViewInv, PendingIsOpen, WillResume
<1>6. ~Closed(log, EditOf(c))
    <2>1. ~Called(log, EditOf(c))
        BY <1>3, <1>5 DEF ViewInv, EditsComeLater, Open
    <2> QED BY <1>1, <2>1, ClosedIsCalled
<1>7. IsAnswerTo(c)
    BY <1>1, AnswerIs
<1> HIDE DEF c
<1>8. EditOf(c) # c /\ \A o \in Calls : EditOf(o) = EditOf(c) => o = c
    <2>1. NumOriginals \in Nat \ {0} /\ c \in Nat /\ Calls \subseteq Nat
        BY <1>3, BoundsAreNat, OriginalsAreCalls DEF Calls
    <2> QED BY <2>1 DEF EditOf
<1>9. LogIsPaired'
    BY <1>2 DEF ViewInv, LogIsPaired
<1>10. ResultsComeOnce'
    BY <1>2, <1>5, <1>7 DEF ResultsComeOnce, IsAnswerTo, Open
<1>11. CallsComeFirst'
    <2>1. \A j \in 1..Len(writes') : ~IsConclusionOf(writes'[j], EditOf(c))
        BY <1>7, <1>8 DEF IsAnswerTo
    <2>2. \A i \in 1..Len(writes') : \A j \in 1..(i - 1) : j \in 1..Len(writes')
        BY <1>7 DEF IsAnswerTo
    <2> QED BY <1>2, <1>6, <1>7, <2>1, <2>2 DEF CallsComeFirst, IsAnswerTo
<1>12. MessagesComeBetween' /\ SummariesReplacePairs'
    BY <1>7 DEF MessagesComeBetween, SummariesReplacePairs, IsAnswerTo
<1>13. EditsComeLater'
    <2>1. ASSUME NEW i \in 1..Len(writes'), NEW o \in Calls, IsRecordingOf(writes'[i], EditOf(o))
          PROVE  \E j \in 1..(i - 1) : IsConclusionOf(writes'[j], o)
        <3>1. o = c /\ i = 2 /\ IsConclusionOf(writes'[1], c)
            BY <1>7, <1>8, <2>1 DEF IsAnswerTo
        <3>2. 1 \in 1..(i - 1)
            BY <3>1
        <3> QED BY <3>1, <3>2
    <2> QED BY <1>2, <2>1 DEF ViewInv, EditsComeLater
<1>14. PendingIsOpen'
    <2>1. WillResume'
        BY <1>7 DEF WillResume, IsAnswerTo
    <2>2. ASSUME NEW i \in 1..Len(writes'), NEW o, IsConclusionOf(writes'[i], o)
          PROVE  \E j \in (i + 1)..Len(writes') : IsResuming(writes'[j])
        <3>1. i = 1 /\ 1 < Len(writes') /\ Len(writes') \in Nat
            BY <1>7, <2>2 DEF IsAnswerTo
        <3>2. Len(writes') \in (i + 1)..Len(writes')
            BY <3>1
        <3> QED BY <1>7, <3>2 DEF IsAnswerTo
    <2> QED BY <2>1, <2>2 DEF PendingIsOpen
<1> QED BY <1>9, <1>10, <1>11, <1>12, <1>13, <1>14 DEF ViewInv

\* A write that is no event shortens the list and leaves the rest as it is.
LEMMA OtherWriteFits ==
    ASSUME LoopInv, ViewInv, writes # <<>>, writes' = Tail(writes),
           Head(writes).kind # "append", log' = log
    PROVE  ViewInv'
<1>1. /\ Head(writes) = writes[1] /\ Len(writes') = Len(writes) - 1 /\ Len(writes) \in Nat \ {0}
      /\ \A i \in 1..Len(writes') : i + 1 \in 1..Len(writes) /\ writes'[i] = writes[i + 1]
    BY RestOfWrites DEF LoopInv
<1>2. \A j \in 2..Len(writes) : j - 1 \in 1..Len(writes') /\ writes'[j - 1] = writes[j]
    BY RestWaits DEF LoopInv
<1>3. /\ \A c : ~IsRecordingOf(writes[1], c) /\ ~IsConclusionOf(writes[1], c)
      /\ ~IsResuming(writes[1])
    BY <1>1 DEF IsRecordingOf, IsConclusionOf, IsResuming
<1>4. LogIsPaired'
    BY DEF ViewInv, LogIsPaired
<1>5. ResultsComeOnce'
    <2>1. SUFFICES ASSUME NEW i \in 1..Len(writes'), NEW c \in Calls, IsConclusionOf(writes'[i], c)
                   PROVE  /\ ~Closed(log, c)
                          /\ \A j \in 1..Len(writes') : IsConclusionOf(writes'[j], c) => j = i
        BY DEF ResultsComeOnce
    <2>2. /\ ~Closed(log, c)
          /\ \A j \in 1..Len(writes) : IsConclusionOf(writes[j], c) => j = i + 1
        BY <1>1, <2>1 DEF ViewInv, ResultsComeOnce
    <2>3. ASSUME NEW j \in 1..Len(writes'), IsConclusionOf(writes'[j], c) PROVE j = i
        <3>1. j + 1 = i + 1
            BY <1>1, <2>2, <2>3
        <3> QED BY <3>1
    <2> QED BY <2>2, <2>3
<1>6. CallsComeFirst'
    <2>1. SUFFICES ASSUME NEW i \in 1..Len(writes'), NEW c \in Calls, IsRecordingOf(writes'[i], c)
                   PROVE  /\ ~Closed(log, c)
                          /\ \A j \in 1..(i - 1) : ~IsConclusionOf(writes'[j], c)
        BY DEF CallsComeFirst
    <2>2. ~Closed(log, c) /\ \A j \in 1..i : ~IsConclusionOf(writes[j], c)
        BY <1>1, <2>1 DEF ViewInv, CallsComeFirst
    <2>3. \A j \in 1..(i - 1) : j \in 1..Len(writes') /\ j + 1 \in 1..i
        BY <1>1
    <2> QED BY <1>1, <2>2, <2>3
<1>7. MessagesComeBetween' /\ SummariesReplacePairs'
    BY <1>1 DEF ViewInv, MessagesComeBetween, SummariesReplacePairs
<1>8. ASSUME NEW i \in 1..Len(writes'), NEW c, NEW j \in 1..i, IsConclusionOf(writes[j], c)
      PROVE  \E k \in 1..(i - 1) : IsConclusionOf(writes'[k], c)
    <2>1. j # 1
        BY <1>3, <1>8
    <2>2. j \in 2..Len(writes) /\ j - 1 \in 1..(i - 1)
        BY <1>1, <2>1
    <2> QED BY <1>2, <1>8, <2>2
<1>9. EditsComeLater'
    <2>1. ASSUME NEW i \in 1..Len(writes'), NEW c \in Calls, IsRecordingOf(writes'[i], EditOf(c)),
                 ~Closed(log, c)
          PROVE  \E k \in 1..(i - 1) : IsConclusionOf(writes'[k], c)
        <3>1. \E j \in 1..((i + 1) - 1) : IsConclusionOf(writes[j], c)
            BY <1>1, <2>1 DEF ViewInv, EditsComeLater
        <3>2. (i + 1) - 1 = i
            OBVIOUS
        <3> QED BY <1>8, <3>1, <3>2
    <2> QED BY <2>1 DEF ViewInv, EditsComeLater
<1>10. PendingIsOpen'
    <2>1. WillResume => WillResume'
        <3>1. SUFFICES ASSUME NEW j \in 1..Len(writes), IsResuming(writes[j]) PROVE WillResume'
            BY DEF WillResume
        <3>2. j # 1
            BY <1>3, <3>1
        <3>3. j \in 2..Len(writes)
            BY <1>1, <3>2
        <3> QED BY <1>2, <3>1, <3>3 DEF WillResume
    <2>2. ASSUME NEW i \in 1..Len(writes'), NEW c \in Calls, IsConclusionOf(writes'[i], c),
                 HasPending(log)
          PROVE  \E j \in (i + 1)..Len(writes') : IsResuming(writes'[j])
        <3>1. PICK j \in ((i + 1) + 1)..Len(writes) : IsResuming(writes[j])
            BY <1>1, <2>2 DEF ViewInv, PendingIsOpen
        <3>2. j \in 2..Len(writes) /\ j - 1 \in (i + 1)..Len(writes')
            BY <1>1, <3>1
        <3> QED BY <1>2, <3>1, <3>2
    <2> QED BY <2>1, <2>2 DEF ViewInv, PendingIsOpen
<1> QED BY <1>4, <1>5, <1>6, <1>7, <1>9, <1>10 DEF ViewInv

\* The event that is next to be written fits after the log, and what it
\* replaces is replaced together.
LEMMA NextFits ==
    ASSUME LoopInv, CallInv, ViewInv, AppendEvent
    PROVE  LET e == writes[1].event
           IN  /\ FitsAfter(log, e)
               /\ e.type = "compaction" => ReplacesPairs(log, e.replaces)
<1> DEFINE e == writes[1].event
<1>1. /\ writes[1].kind = "append" /\ 1 \in 1..Len(writes) /\ ToolInv
    BY RestOfWrites DEF LoopInv, AppendEvent
<1>2. e \in LoggedEvents /\ log \in Logs
    BY <1>1, AppendEventLog, RestOfWrites DEF LoopInv, AppendEvent
<1>3. ASSUME e.type \in {"tool_call", "tool_result"}
      PROVE  \A j \in ResultsIn(log) : log[j].call # e.call
    <2>1. e.call \in Calls
        BY <1>2, <1>3 DEF LoggedEvents
    <2>2. IsRecordingOf(writes[1], e.call) \/ IsConclusionOf(writes[1], e.call)
        BY <1>1, <1>3 DEF IsRecordingOf, IsConclusionOf
    <2>3. ~Closed(log, e.call)
        BY <1>1, <2>1, <2>2 DEF ViewInv, ResultsComeOnce, CallsComeFirst
    <2> QED BY <1>1, <2>3, NoResultYet
<1>4. ASSUME e.type = "tool_result"
      PROVE  \E i \in CallsIn(log) : log[i].call = e.call
    <2>1. Called(log, e.call)
        BY <1>1, <1>4, OpenMoves DEF IsConclusionOf
    <2> QED BY <1>2, <2>1, CalledMeans DEF CallsIn
<1>5. ASSUME IsMessage(e)
      PROVE  EachIsAnswered(log)
    <2>1. \A c \in Calls : ~Open(log, c)
        BY <1>1, <1>5 DEF ViewInv, MessagesComeBetween, IsTelling
    <2> QED BY <1>1, <2>1, NoneOpen
<1>6. e.type = "compaction" => ReplacesPairs(log, e.replaces)
    BY <1>1 DEF ViewInv, SummariesReplacePairs, IsSummary
<1> HIDE DEF e
<1>7. FitsAfter(log, e)
    BY <1>3, <1>4, <1>5 DEF FitsAfter
<1> QED BY <1>6, <1>7 DEF e

LEMMA AppendEventFits ==
    ASSUME LoopInv, CallInv, ViewInv, AppendEvent
    PROVE  ViewInv'
<1> DEFINE e == writes[1].event
<1>1. /\ Head(writes) = writes[1] /\ Len(writes') = Len(writes) - 1 /\ Len(writes) \in Nat \ {0}
      /\ \A i \in 1..Len(writes') : i + 1 \in 1..Len(writes) /\ writes'[i] = writes[i + 1]
      /\ writes[1].kind = "append" /\ ToolInv
    BY RestOfWrites DEF LoopInv, AppendEvent
<1>2. \A j \in 2..Len(writes) : j - 1 \in 1..Len(writes') /\ writes'[j - 1] = writes[j]
    BY RestWaits DEF LoopInv, AppendEvent
<1>3. /\ e \in LoggedEvents /\ log \in Seq(LoggedEvents) /\ log \in Logs /\ GoesOn(log)
      /\ log' = Append(log, e)
    BY <1>1, AppendEventLog, AllLive
<1>4. FitsAfter(log, e) /\ (e.type = "compaction" => ReplacesPairs(log, e.replaces))
    BY NextFits
<1>5. \A R : ReplacesPairs(log, R) => ReplacesPairs(log', R)
    BY <1>3, <1>4, PairsStay
<1>6. LogIsPaired'
    <2>1. IsPairedLog(log')
        BY <1>3, <1>4, PairedGrows DEF ViewInv, LogIsPaired
    <2>2. Replaced(log') = Replaced(log) \cup (IF e.type = "compaction" THEN e.replaces ELSE {})
        BY <1>3, ReplacedGrows
    <2>3. ReplacesPairs(log', Replaced(log))
        BY <1>5 DEF ViewInv, LogIsPaired
    <2>4. CASE e.type = "compaction"
        BY <1>4, <1>5, <2>1, <2>2, <2>3, <2>4, PairsTogether DEF LogIsPaired
    <2>5. CASE e.type # "compaction"
        <3>1. Replaced(log') = Replaced(log)
            BY <2>2, <2>5
        <3> QED BY <2>1, <2>3, <3>1 DEF LogIsPaired
    <2> QED BY <2>4, <2>5
<1>7. /\ \A c : IsConclusionOf(writes[1], c) => Closed(log', c)
      /\ \A c \in Calls : Open(log', c) <=>
            \/ Open(log, c) /\ ~IsConclusionOf(writes[1], c)
            \/ IsRecordingOf(writes[1], c) /\ ~Closed(log, c)
      /\ \A c : Closed(log', c) => Closed(log, c) \/ IsConclusionOf(writes[1], c)
      /\ \A c : Closed(log, c) => Closed(log', c)
    BY OpenMoves
<1>8. \A c : Called(log', c) => Called(log, c) \/ IsRecordingOf(writes[1], c)
    BY <1>1, AppendEventLog DEF IsRecordingOf
<1>9. e.type = "resume" => ~HasPending(log')
    BY <1>3, AppendPending
<1> HIDE DEF e
<1>10. ResultsComeOnce'
    <2>1. SUFFICES ASSUME NEW i \in 1..Len(writes'), NEW c \in Calls, IsConclusionOf(writes'[i], c)
                   PROVE  /\ ~Closed(log', c)
                          /\ \A j \in 1..Len(writes') : IsConclusionOf(writes'[j], c) => j = i
        BY DEF ResultsComeOnce
    <2>2. /\ ~Closed(log, c)
          /\ \A j \in 1..Len(writes) : IsConclusionOf(writes[j], c) => j = i + 1
        BY <1>1, <2>1 DEF ViewInv, ResultsComeOnce
    <2>3. 1 \in 1..Len(writes) /\ i + 1 # 1
        BY <1>1
    <2>4. ~Closed(log', c)
        BY <1>7, <2>2, <2>3
    <2>5. ASSUME NEW j \in 1..Len(writes'), IsConclusionOf(writes'[j], c) PROVE j = i
        <3>1. j + 1 = i + 1
            BY <1>1, <2>2, <2>5
        <3> QED BY <3>1
    <2> QED BY <2>4, <2>5
<1>11. CallsComeFirst'
    <2>1. SUFFICES ASSUME NEW i \in 1..Len(writes'), NEW c \in Calls, IsRecordingOf(writes'[i], c)
                   PROVE  /\ ~Closed(log', c)
                          /\ \A j \in 1..(i - 1) : ~IsConclusionOf(writes'[j], c)
        BY DEF CallsComeFirst
    <2>2. ~Closed(log, c) /\ \A j \in 1..i : ~IsConclusionOf(writes[j], c)
        BY <1>1, <2>1 DEF ViewInv, CallsComeFirst
    <2>3. 1 \in 1..i /\ \A j \in 1..(i - 1) : j \in 1..Len(writes') /\ j + 1 \in 1..i
        BY <1>1
    <2> QED BY <1>1, <1>7, <2>2, <2>3
<1>12. MessagesComeBetween'
    <2>1. SUFFICES ASSUME NEW i \in 1..Len(writes'), IsTelling(writes'[i])
                   PROVE  /\ \A c \in Calls : ~Open(log', c)
                          /\ \A j \in 1..Len(writes'), c \in Calls : ~IsRecordingOf(writes'[j], c)
        BY DEF MessagesComeBetween
    <2>2. /\ \A c \in Calls : ~Open(log, c)
          /\ \A j \in 1..Len(writes), c \in Calls : ~IsRecordingOf(writes[j], c)
        BY <1>1, <2>1 DEF ViewInv, MessagesComeBetween
    <2>3. 1 \in 1..Len(writes)
        BY <1>1
    <2> QED BY <1>1, <1>7, <2>2, <2>3
<1>13. SummariesReplacePairs'
    BY <1>1, <1>5 DEF ViewInv, SummariesReplacePairs
<1>14. EditsComeLater'
    <2>1. ASSUME NEW c \in Calls, Called(log', EditOf(c)) PROVE Closed(log', c)
        <3>1. CASE Called(log, EditOf(c))
            BY <1>7, <3>1 DEF ViewInv, EditsComeLater
        <3>2. CASE IsRecordingOf(writes[1], EditOf(c))
            <4>1. 1 \in 1..Len(writes) /\ 1..(1 - 1) = {}
                BY <1>1
            <4>2. Closed(log, c)
                BY <3>2, <4>1 DEF ViewInv, EditsComeLater
            <4> QED BY <1>7, <4>2
        <3> QED BY <1>8, <2>1, <3>1, <3>2
    <2>2. ASSUME NEW i \in 1..Len(writes'), NEW c \in Calls, IsRecordingOf(writes'[i], EditOf(c)),
                 ~Closed(log', c)
          PROVE  \E j \in 1..(i - 1) : IsConclusionOf(writes'[j], c)
        <3>1. ~Closed(log, c) /\ ~IsConclusionOf(writes[1], c)
            BY <1>7, <2>2
        <3>2. \E j \in 1..((i + 1) - 1) : IsConclusionOf(writes[j], c)
            BY <1>1, <2>2, <3>1 DEF ViewInv, EditsComeLater
        <3>3. PICK j \in 1..((i + 1) - 1) : IsConclusionOf(writes[j], c)
            BY <3>2
        <3>4. j # 1
            BY <3>1, <3>3
        <3>5. j \in 2..Len(writes) /\ j - 1 \in 1..(i - 1)
            BY <1>1, <3>4
        <3> QED BY <1>2, <3>3, <3>5
    <2> QED BY <2>1, <2>2 DEF EditsComeLater
<1>15. PendingIsOpen'
    <2>1. HasPending(log') =>
              \/ HasPending(log) /\ Pending(log') = Pending(log)
              \/ IsAsking(writes[1]) /\ Len(writes) = 1 /\ Pending(log') = writes[1].event
        BY PendingMoves
    <2>2. ASSUME HasPending(log'), HasPending(log), Pending(log') = Pending(log)
          PROVE  Open(log', Pending(log').call) \/ WillResume'
        <3>1. \A j \in 2..Len(writes) : IsResuming(writes[j]) => WillResume'
            BY <1>2 DEF WillResume
        <3>2. CASE WillResume
            <4>1. PICK j \in 1..Len(writes) : IsResuming(writes[j])
                BY <3>2 DEF WillResume
            <4>2. j # 1
                BY <1>9, <2>2, <4>1 DEF IsResuming, e
            <4>3. j \in 2..Len(writes)
                BY <1>1, <4>2
            <4> QED BY <3>1, <4>1, <4>3
        <3>3. CASE Open(log, Pending(log).call)
            <4> DEFINE p == Pending(log).call
            <4>1. p \in Calls
                BY <1>3, <3>3, RequestOfCall DEF Open
            <4>2. CASE IsConclusionOf(writes[1], p)
                <5>1. 1 \in 1..Len(writes)
                    BY <1>1
                <5>2. PICK j \in (1 + 1)..Len(writes) : IsResuming(writes[j])
                    BY <2>2, <4>1, <4>2, <5>1 DEF ViewInv, PendingIsOpen
                <5>3. j \in 2..Len(writes)
                    OBVIOUS
                <5> QED BY <3>1, <5>2, <5>3
            <4>3. CASE ~IsConclusionOf(writes[1], p)
                BY <1>7, <2>2, <3>3, <4>1, <4>3
            <4> QED BY <4>2, <4>3
        <3> QED BY <2>2, <3>2, <3>3 DEF ViewInv, PendingIsOpen
    <2>3. ASSUME IsAsking(writes[1]), Pending(log') = writes[1].event
          PROVE  Open(log', Pending(log').call)
        <3>1. 1 \in 1..Len(writes)
            BY <1>1
        <3>2. Open(log, Pending(log').call)
            BY <2>3, <3>1 DEF CallInv, AskedIsOpen
        <3>3. Pending(log').call \in Calls
            BY <1>3, <3>2, RequestOfCall DEF Open
        <3>4. \A c : ~IsConclusionOf(writes[1], c)
            BY <2>3 DEF IsAsking, IsConclusionOf
        <3> QED BY <1>7, <3>2, <3>3, <3>4
    <2>4. ASSUME NEW i \in 1..Len(writes'), NEW c \in Calls, IsConclusionOf(writes'[i], c),
                 HasPending(log')
          PROVE  \E j \in (i + 1)..Len(writes') : IsResuming(writes'[j])
        <3>1. HasPending(log)
            BY <1>1, <2>1, <2>4
        <3>2. PICK j \in ((i + 1) + 1)..Len(writes) : IsResuming(writes[j])
            BY <1>1, <2>4, <3>1 DEF ViewInv, PendingIsOpen
        <3>3. j \in 2..Len(writes) /\ j - 1 \in (i + 1)..Len(writes')
            BY <1>1, <3>2
        <3> QED BY <1>2, <3>2, <3>3
    <2> QED BY <2>1, <2>2, <2>3, <2>4 DEF PendingIsOpen
<1> QED BY <1>6, <1>10, <1>11, <1>12, <1>13, <1>14, <1>15 DEF ViewInv

LEMMA ViewKeeps ==
    ASSUME LoopInv, CallInv, StatusInv, ViewInv, [Next /\ KilledElsewhere]_vars
    PROVE  ViewInv'
<1>1. CASE (start \/ resume \/ Return \/ Crash \/ CompactionOverBudget) /\ KilledElsewhere
    BY <1>1, TurnsOfProcess, OwnStepFits
<1>2. CASE (AfterRecovery \/ _commit \/ Leave) /\ KilledElsewhere
    BY <1>2, TurnsOfLoop, OwnStepFits
<1>3. CASE /\ Turn \/ WithoutCompaction \/ compact \/ AskOverBudget \/ AskOverflows
           /\ KilledElsewhere
    BY <1>3, TurnsToAsk, OwnStepFits
<1>4. CASE AskReplies /\ KilledElsewhere
    BY <1>4, Replies, OwnStepFits
<1>5. CASE AppendEvent
    BY <1>5, AppendEventFits
<1>6. CASE WriteRow \/ RefreshStatus \/ WriteCheckpoint
    <2>1. /\ writes # <<>> /\ writes' = Tail(writes) /\ Head(writes).kind # "append" /\ log' = log
        BY <1>6 DEF WriteRow, RefreshStatus, WriteCheckpoint, durable
    <2> QED BY <2>1, OtherWriteFits
<1>7. CASE ToolReturns \/ _handle_tool_failure
    BY <1>7, ToolEndFits
<1>8. CASE JudgeCall
    BY <1>8, JudgeFits
<1>9. CASE resume_open_calls \/ DriveNext \/ NextOfBatch
    BY <1>9, DriverFits
<1>10. CASE Human
    BY <1>10, AnswerFits DEF Human
<1>11. CASE Clock \/ UNCHANGED vars
    <2>1. log' = log /\ writes' = writes
        BY <1>11 DEF Clock, TimePasses, durable, volatile, vars
    <2> QED BY <2>1 DEF ViewInv, LogIsPaired, ResultsComeOnce, CallsComeFirst,
                        MessagesComeBetween, SummariesReplacePairs, EditsComeLater,
                        PendingIsOpen, WillResume
<1> QED BY <1>1, <1>2, <1>3, <1>4, <1>5, <1>6, <1>7, <1>8, <1>9, <1>10, <1>11
        DEF Next, Process, Pipeline, Write

LEMMA ViewStarts ==
    ASSUME Init
    PROVE  ViewInv
<1>1. log \in Logs /\ Len(log) = 0 /\ writes = <<>> /\ ~HasPending(log)
    BY LoopStarts DEF Init, LoopInv, ToolInv, Typed, HasPending, PendingInterrupts
<1>2. \A c : ~Called(log, c)
    BY <1>1, CalledMeans
<1>3. CallsIn(log) = {} /\ ResultsIn(log) = {} /\ MessagesIn(log) = {} /\ Replaced(log) = {}
    BY <1>1 DEF CallsIn, ResultsIn, MessagesIn, Replaced, CompactionsOf
<1>4. LogIsPaired
    BY <1>3 DEF LogIsPaired, IsPairedLog, ReplacesPairs
<1> QED BY <1>1, <1>2, <1>4
        DEF ViewInv, ResultsComeOnce, CallsComeFirst, MessagesComeBetween, SummariesReplacePairs,
            EditsComeLater, PendingIsOpen

\* Where the loop asks the model, or for a summary, the view it renders of its log
\* (context.py _render_history) holds every call that no summary replaced, each
\* with its result: whatever was approved, edited, killed or summarised before,
\* unless a process was killed between the writes of a human's answer.
THEOREM ViewStaysWhole == SpecKilledElsewhere => []ViewIsWhole
<1>1. LoopInv /\ CallInv /\ StatusInv /\ ViewInv /\ [Next /\ KilledElsewhere]_vars => ViewInv'
    BY ViewKeeps
<1>2. /\ LoopInv /\ [Next /\ KilledElsewhere]_vars => LoopInv'
      /\ LoopInv /\ CallInv /\ [Next /\ KilledElsewhere]_vars => CallInv'
      /\ LoopInv /\ CallInv /\ StatusInv /\ [Next /\ KilledElsewhere]_vars => StatusInv'
    BY LoopKeeps, CallsKeep, StatusKeeps
<1>3. LoopInv /\ CallInv /\ ViewInv => ViewIsWhole
    <2>1. SUFFICES ASSUME LoopInv, CallInv, ViewInv, phase \in {"compact", "ask"}
                   PROVE  _render_history(log).dropped = {}
        BY DEF ViewIsWhole
    <2>2. \A c \in Calls : ~Open(log, c)
        BY <2>1 DEF CallInv, OpenIsDriven
    <2>3. EachIsAnswered(log) /\ Len(log) \in Nat
        BY <2>1, <2>2, NoneOpen, AllLive DEF LoopInv, ToolInv, Typed
    <2> QED BY <2>1, <2>3, NothingIsLost DEF ViewInv, LogIsPaired
<1>4. Init => LoopInv /\ CallInv /\ StatusInv /\ ViewInv
    BY LoopStarts, CallsStart, StatusStarts, ViewStarts
<1> QED BY <1>1, <1>2, <1>3, <1>4, PTL DEF SpecKilledElsewhere

-----------------------------------------------------------------------------
(* What the loop writes, and what the fold makes of its log *)

\* A resume answers the question that is pending.
ResumesAnswer ==
    \A i \in 1..Len(writes) : IsResuming(writes[i]) =>
        /\ HasPending(log) /\ writes[i].event.index = Pending(log).index
        /\ \A j \in 1..Len(writes) : IsResuming(writes[j]) => j = i

\* The fold of a log that goes on is what its positions say; it flags no more than
\* calls and results that are there twice, and declares no open call complete.
FoldFollows ==
    LET s == Fold!Folded(log)
    IN  /\ GoesOn(log) => IsFoldOf(s, log)
        /\ s.broken \subseteq {"INV-001", "INV-003"}
        /\ s.status = "completed" => s.open = {}

LegalInv == MessagesComeBetween /\ ResumesAnswer /\ FoldFollows

\* A step that leaves the log and the calls alone, and tells the model something
\* only where no call is open.
IsQuiet ==
    /\ log' = log
    /\ \A i \in 1..Len(writes') :
          /\ ~IsResuming(writes'[i])
          /\ \A c : ~IsRecordingOf(writes'[i], c)
          /\ IsTelling(writes'[i]) => \A c \in Calls : ~Open(log, c)

LEMMA QuietIsLegal ==
    ASSUME LegalInv, IsQuiet
    PROVE  LegalInv'
BY DEF LegalInv, IsQuiet, MessagesComeBetween, ResumesAnswer, FoldFollows

LEMMA PipelineResumesNothing ==
    /\ \A k, s : ~IsResuming(Concluding(k, s)) /\ \A c : ~IsRecordingOf(Concluding(k, s), c)
    /\ ~IsResuming(Reporting) /\ \A c : ~IsRecordingOf(Reporting, c)
    /\ \A k : ~IsResuming(Recording(k)) /\ \A c : IsRecordingOf(Recording(k), c) => c = k.call
    /\ \A e : e.type \in {"interrupt", "approval"} =>
          ~IsResuming(Appending(e)) /\ \A c : ~IsRecordingOf(Appending(e), c)
    /\ \A w : w.kind # "append" =>
          ~IsResuming(w) /\ ~IsTelling(w) /\ \A c : ~IsRecordingOf(w, c)
BY WhatWritesDo DEF IsResuming, IsRecordingOf, IsTelling

\* Judging a call, and what the tool answers, only concludes it.
LEMMA ToolStepIsQuiet ==
    ASSUME LoopInv, JudgeCall \/ ToolReturns \/ _handle_tool_failure
    PROVE  IsQuiet
<1>1. CASE JudgeCall
    <2>1. PICK o \in Outcomes(cur) : Judged(o)
        BY <1>1 DEF JudgeCall
    <2> DEFINE q == Appending(InterruptEvent(cur.call, InterruptCount(log)))
               r == Insert("pending", Actual(cur))
               x(s) == Concluding(cur, s)
               u(s) == Update(s)
               S == {q, r, Reporting, x("rejected"), x("unknown"), x("executed"),
                     u("unknown"), u("executed")}
    <2>2. /\ log' = log
          /\ \/ writes' \in {<<>>, <<q>>, <<r>>}
             \/ writes' = <<Reporting, x("rejected")>>
             \/ writes' = <<Reporting, x("unknown"), u("unknown")>>
             \/ writes' = <<x("executed"), u("executed")>>
        BY <2>1, JudgedStep DEF LoopInv
    <2>3. /\ ~IsResuming(q) /\ ~IsTelling(q) /\ \A c : ~IsRecordingOf(q, c)
          /\ ~IsResuming(r) /\ ~IsTelling(r) /\ \A c : ~IsRecordingOf(r, c)
          /\ \A s : ~IsResuming(u(s)) /\ ~IsTelling(u(s)) /\ \A c : ~IsRecordingOf(u(s), c)
        <3>1. InterruptEvent(cur.call, InterruptCount(log)).type = "interrupt"
            BY DEF InterruptEvent
        <3>2. r.kind # "append" /\ \A s : u(s).kind # "append"
            BY WhatWritesDo
        <3> HIDE DEF r, u
        <3> QED BY <3>1, <3>2, PipelineResumesNothing, PipelineTellsNothing
    <2>4. \A w \in S : ~IsResuming(w) /\ ~IsTelling(w) /\ \A c : ~IsRecordingOf(w, c)
        BY <2>3, PipelineResumesNothing, PipelineTellsNothing
    <2> HIDE DEF q, r, x, u
    <2>5. \A i \in 1..Len(writes') : writes'[i] \in S
        BY <2>2
    <2> HIDE DEF S
    <2> QED BY <2>2, <2>4, <2>5 DEF IsQuiet
<1>2. CASE ToolReturns \/ _handle_tool_failure
    <2>1. log' = log
        BY <1>2, ToolEnd DEF LoopInv
    <2>2. PICK s \in Statuses, w \in WriteItems :
              /\ IsRowWrite(w)
              /\ writes' \in {<<Concluding(cur, s), w>>, <<Reporting, Concluding(cur, s), w>>}
        BY <1>2, ToolEnd DEF LoopInv
    <2> DEFINE x == Concluding(cur, s)
               S == {x, w, Reporting}
    <2>3. \A y \in S : ~IsResuming(y) /\ ~IsTelling(y) /\ \A c : ~IsRecordingOf(y, c)
        BY <2>2, PipelineResumesNothing, PipelineTellsNothing DEF IsRowWrite
    <2>4. writes' \in {<<x, w>>, <<Reporting, x, w>>}
        BY <2>2
    <2> HIDE DEF x
    <2>5. \A i \in 1..Len(writes') : writes'[i] \in S
        BY <2>4
    <2> HIDE DEF S
    <2> QED BY <2>1, <2>3, <2>5 DEF IsQuiet
<1> QED BY <1>1, <1>2

LEMMA QuietSteps ==
    ASSUME LoopInv, CallInv,
           \/ start \/ resume \/ Return \/ Crash \/ CompactionOverBudget
           \/ AfterRecovery \/ _commit \/ Leave
           \/ Turn \/ WithoutCompaction \/ compact \/ AskOverBudget \/ AskOverflows
           \/ AskReplies
           \/ JudgeCall \/ ToolReturns \/ _handle_tool_failure
           \/ resume_open_calls
    PROVE  IsQuiet
<1>1. CASE \/ start \/ resume \/ Return \/ Crash \/ CompactionOverBudget
           \/ AfterRecovery \/ _commit \/ Leave
           \/ Turn \/ WithoutCompaction \/ compact \/ AskOverBudget \/ AskOverflows
           \/ AskReplies
    <2>1. OwnStep
        BY <1>1, TurnsOfProcess, TurnsOfLoop, TurnsToAsk, Replies
    <2> QED BY <1>1, <2>1, OwnStepTells DEF IsQuiet
<1>2. CASE JudgeCall \/ ToolReturns \/ _handle_tool_failure
    BY <1>2, ToolStepIsQuiet
<1>3. CASE resume_open_calls
    <2>1. log' = log /\ writes' = <<>>
        BY <1>3 DEF resume_open_calls
    <2> QED BY <2>1 DEF IsQuiet
<1> QED BY <1>1, <1>2, <1>3

\* What the next call leaves to write: a call is recorded again only where its
\* tool is not registered.
LEMMA ExecuteWrites ==
    ASSUME NEW k \in Requests, execute(k)
    PROVE  \A i \in 1..Len(writes') :
              /\ ~IsResuming(writes'[i]) /\ ~IsTelling(writes'[i])
              /\ Registered = Tools =>
                    \A c : IsRecordingOf(writes'[i], c) => ~Called(log, c)
<1> DEFINE x == Recording(k)
           y == Concluding(k, "failed")
<1>1. /\ ~IsResuming(x) /\ ~IsTelling(x) /\ \A c : IsRecordingOf(x, c) => c = k.call
      /\ ~IsResuming(y) /\ ~IsTelling(y) /\ \A c : ~IsRecordingOf(y, c)
      /\ ~IsResuming(Reporting) /\ ~IsTelling(Reporting)
      /\ \A c : ~IsRecordingOf(Reporting, c)
    BY PipelineResumesNothing, PipelineTellsNothing
<1>2. \/ writes' = <<>>
      \/ Registered # Tools /\ writes' = <<x, Reporting, y>>
      \/ ~Called(log, k.call) /\ writes' = <<x>>
    BY DEF execute, Requests
<1> HIDE DEF x, y
<1>3. \A i \in 1..Len(writes') :
          \/ writes'[i] \in {Reporting, y}
          \/ writes'[i] = x /\ (Registered = Tools => ~Called(log, k.call))
    BY <1>2
<1> QED BY <1>1, <1>3

LEMMA DriverWrites ==
    ASSUME LoopInv, DriveNext \/ NextOfBatch
    PROVE  /\ log' = log
           /\ \A i \in 1..Len(writes') :
                 /\ ~IsResuming(writes'[i]) /\ ~IsTelling(writes'[i])
                 /\ Registered = Tools =>
                       \A c : IsRecordingOf(writes'[i], c) => ~Called(log, c)
<1>1. CASE DriveNext
    <2>1. PICK c \in queue :
              LET k == Request(c, ToolOf(log, c), ArgsOf(log, c))
              IN  k \in Requests /\ execute(k)
        BY <1>1, DrivenRequest DEF LoopInv
    <2>2. log' = log
        BY <1>1 DEF DriveNext
    <2> QED BY <2>1, <2>2, ExecuteWrites
<1>2. CASE NextOfBatch
    <2>1. Head(loop.batch) \in Requests /\ execute(Head(loop.batch)) /\ log' = log
        BY <1>2, BatchMoves DEF NextOfBatch, durable
    <2> QED BY <2>1, ExecuteWrites
<1> QED BY <1>1, <1>2

\* What an answer leaves to write: it resumes the question that is pending, last,
\* and records at most the call of other arguments.
LEMMA AnswerWrites ==
    ASSUME LoopInv, NEW d \in Decisions, NEW a \in Args, NEW s \in Scopes, approve(d, a, s)
    PROVE  /\ HasPending(log) /\ log' = log
           /\ \A i \in 1..Len(writes') :
                 /\ ~IsTelling(writes'[i])
                 /\ \A c : IsRecordingOf(writes'[i], c) => c = EditOf(Pending(log).call)
                 /\ IsResuming(writes'[i]) =>
                       i = Len(writes') /\ writes'[i].event.index = Pending(log).index
<1>1. ToolInv /\ decide(d, a, s)
    BY DEF LoopInv, approve
<1>2. HasPending(log) /\ log' = log /\ Asked.call = Pending(log).call
    BY <1>1, DecideIs, AskedIs
<1>3. \A i \in 1..Len(writes') :
          /\ ~IsTelling(writes'[i])
          /\ \A c : IsRecordingOf(writes'[i], c) => c = EditOf(Pending(log).call)
    BY <1>1, <1>2, AnswerIs DEF IsAnswerTo
<1> DEFINE p == Approving(d, a, s)
           q == Resuming
           r == Rerecording(a)
           x(t) == Concluding(Asked, t)
<1>4. /\ q.event.index = Pending(log).index
      /\ ~IsResuming(p) /\ ~IsResuming(r) /\ \A t : ~IsResuming(x(t))
    <2>1. q.event.index = Pending(log).index
        BY WhatWritesDo DEF Resuming, ResumeEvent
    <2>2. p.event.type = "approval" /\ r.event.type = "tool_call"
        <3>1. r.event.type = "tool_call"
            BY WhatWritesDo DEF Rerecording
        <3> QED BY <1>1, <3>1, DecideIs
    <2> HIDE DEF p, q, r
    <2>3. \A t : ~IsResuming(x(t))
        BY PipelineResumesNothing
    <2> QED BY <2>1, <2>2, <2>3 DEF IsResuming
<1>5. \/ writes' = <<x("rejected"), p, q>>
      \/ writes' = <<x("superseded"), r, p, q>>
      \/ writes' = <<p, q>>
    BY <1>1, DecideIs
<1> HIDE DEF p, q, r, x
<1>6. \A i \in 1..Len(writes') :
          \/ writes'[i] = x("rejected") \/ writes'[i] = x("superseded")
          \/ writes'[i] = p \/ writes'[i] = r
          \/ writes'[i] = q /\ i = Len(writes')
    <2>1. CASE writes' = <<x("rejected"), p, q>>
        BY <2>1
    <2>2. CASE writes' = <<x("superseded"), r, p, q>>
        BY <2>2
    <2>3. CASE writes' = <<p, q>>
        BY <2>3
    <2> QED BY <1>5, <2>1, <2>2, <2>3
<1>7. \A i \in 1..Len(writes') : IsResuming(writes'[i]) =>
          i = Len(writes') /\ writes'[i].event.index = Pending(log).index
    BY <1>4, <1>6
<1> QED BY <1>2, <1>3, <1>7

LEMMA TailIsLegal ==
    ASSUME LoopInv, LegalInv, writes # <<>>, writes' = Tail(writes), log' = log
    PROVE  LegalInv'
<1>1. \A i \in 1..Len(writes') : i + 1 \in 1..Len(writes) /\ writes'[i] = writes[i + 1]
    BY RestOfWrites DEF LoopInv
<1>2. MessagesComeBetween'
    BY <1>1 DEF LegalInv, MessagesComeBetween
<1>3. ResumesAnswer'
    <2>1. SUFFICES ASSUME NEW i \in 1..Len(writes'), IsResuming(writes'[i])
                   PROVE  /\ HasPending(log) /\ writes'[i].event.index = Pending(log).index
                          /\ \A j \in 1..Len(writes') : IsResuming(writes'[j]) => j = i
        BY DEF ResumesAnswer
    <2>2. /\ HasPending(log) /\ writes'[i].event.index = Pending(log).index
          /\ \A j \in 1..Len(writes) : IsResuming(writes[j]) => j = i + 1
        BY <1>1, <2>1 DEF LegalInv, ResumesAnswer
    <2>3. ASSUME NEW j \in 1..Len(writes'), IsResuming(writes'[j]) PROVE j = i
        <3>1. j + 1 = i + 1
            BY <1>1, <2>2, <2>3
        <3> QED BY <3>1
    <2> QED BY <2>2, <2>3
<1> QED BY <1>2, <1>3 DEF LegalInv, FoldFollows

\* The fold goes on with the event that is written, and flags at most that its
\* call or its result is there already.
LEMMA NextIsTaken ==
    ASSUME LoopInv, CallInv, LegalInv, AppendEvent
    PROVE  LET e == writes[1].event
           IN  /\ FoldFollows'
               /\ Fold!Folded(log').broken \subseteq Fold!Folded(log).broken \cup Flags(log, e)
<1> DEFINE e == writes[1].event
           s == Fold!Folded(log)
           r == Fold!Reduce(s, e)
<1>1. writes[1].kind = "append" /\ 1 \in 1..Len(writes) /\ ToolInv
    BY RestOfWrites DEF LoopInv, AppendEvent
<1>2. /\ e \in LoggedEvents /\ log \in Logs /\ log \in Seq(LoggedEvents) /\ GoesOn(log)
      /\ log' = Append(log, e)
      /\ GoesOn(log)' <=> ~EndsRun(e)
    BY <1>1, AppendEventLog, AllLive
<1>3. /\ IsFoldOf(s, log) /\ s.broken \subseteq {"INV-001", "INV-003"}
      /\ Fold!Folded(log') = r
    BY <1>2, FoldedGrows DEF LegalInv, FoldFollows
<1>4. /\ IsConclusionOf(writes[1], e.call) <=> e.type = "tool_result"
      /\ IsAsking(writes[1]) <=> e.type = "interrupt"
      /\ IsResuming(writes[1]) <=> e.type = "resume"
      /\ IsTelling(writes[1]) <=> IsMessage(e)
    BY <1>1 DEF IsConclusionOf, IsAsking, IsResuming, IsTelling
<1>5. Flags(log, e) \subseteq {"INV-001", "INV-003"}
    BY DEF Flags
<1> HIDE DEF e, s, r
<1>6. CASE EndsRun(e)
    <2>1. IsFinal(e) => \A c \in Calls : ~Open(log, c)
        BY <1>1, <1>4 DEF IsFinal, IsMessage, LegalInv, MessagesComeBetween
    <2>2. r.broken = s.broken /\ (r.status = "completed" => r.open = {})
        BY <1>2, <1>3, <1>6, <2>1, FoldEnds DEF r
    <2> QED BY <1>2, <1>3, <1>6, <2>2 DEF FoldFollows, e, s
<1>7. CASE ~EndsRun(e)
    <2>1. e.type = "tool_result" => Called(log, e.call)
        BY <1>1, <1>4, OpenMoves
    <2>2. e.type = "interrupt" => ~HasPending(log)
        BY <1>1, <1>4 DEF CallInv, AskedIsOpen
    <2>3. e.type = "resume" => HasPending(log) /\ e.index = Pending(log).index
        BY <1>1, <1>4 DEF LegalInv, ResumesAnswer, e
    <2>4. IsFoldOf(r, log') /\ r.broken = s.broken \cup Flags(log, e)
        BY <1>2, <1>3, <1>7, <2>1, <2>2, <2>3, FoldTakes DEF r
    <2>5. r.status # "completed"
        BY <2>4 DEF IsFoldOf
    <2> QED BY <1>2, <1>3, <1>5, <1>7, <2>4, <2>5 DEF FoldFollows, e, s
<1> QED BY <1>6, <1>7

LEMMA AppendIsLegal ==
    ASSUME LoopInv, CallInv, LegalInv, AppendEvent
    PROVE  LegalInv'
<1> DEFINE e == writes[1].event
<1>1. /\ Head(writes) = writes[1] /\ Len(writes) \in Nat \ {0} /\ 1 \in 1..Len(writes)
      /\ \A i \in 1..Len(writes') : i + 1 \in 1..Len(writes) /\ writes'[i] = writes[i + 1]
      /\ \A i \in 1..Len(writes') : i + 1 # 1
      /\ writes[1].kind = "append" /\ ToolInv
    BY RestOfWrites DEF LoopInv, AppendEvent
<1>2. /\ e \in LoggedEvents /\ log \in Logs /\ GoesOn(log) /\ log' = Append(log, e)
    BY <1>1, AppendEventLog, AllLive
<1>3. /\ e.type # "resume" /\ HasPending(log) => HasPending(log') /\ Pending(log') = Pending(log)
    BY <1>2, AppendPending
<1>4. IsResuming(writes[1]) <=> e.type = "resume"
    BY <1>1 DEF IsResuming
<1>5. \A c \in Calls : Open(log', c) => Open(log, c) \/ IsRecordingOf(writes[1], c)
    BY OpenMoves
<1> HIDE DEF e
<1>6. MessagesComeBetween'
    <2>1. SUFFICES ASSUME NEW i \in 1..Len(writes'), IsTelling(writes'[i])
                   PROVE  /\ \A c \in Calls : ~Open(log', c)
                          /\ \A j \in 1..Len(writes'), c \in Calls : ~IsRecordingOf(writes'[j], c)
        BY DEF MessagesComeBetween
    <2>2. /\ \A c \in Calls : ~Open(log, c)
          /\ \A j \in 1..Len(writes), c \in Calls : ~IsRecordingOf(writes[j], c)
        BY <1>1, <2>1 DEF LegalInv, MessagesComeBetween
    <2> QED BY <1>1, <1>5, <2>2
<1>7. ResumesAnswer'
    <2>1. SUFFICES ASSUME NEW i \in 1..Len(writes'), IsResuming(writes'[i])
                   PROVE  /\ HasPending(log') /\ writes'[i].event.index = Pending(log').index
                          /\ \A j \in 1..Len(writes') : IsResuming(writes'[j]) => j = i
        BY DEF ResumesAnswer
    <2>2. /\ HasPending(log) /\ writes'[i].event.index = Pending(log).index
          /\ \A j \in 1..Len(writes) : IsResuming(writes[j]) => j = i + 1
        BY <1>1, <2>1 DEF LegalInv, ResumesAnswer
    <2>3. ~IsResuming(writes[1])
        BY <1>1, <2>2
    <2>4. ASSUME NEW j \in 1..Len(writes'), IsResuming(writes'[j]) PROVE j = i
        <3>1. j + 1 = i + 1
            BY <1>1, <2>2, <2>4
        <3> QED BY <3>1
    <2> QED BY <1>3, <1>4, <2>2, <2>3, <2>4
<1> QED BY <1>6, <1>7, NextIsTaken DEF LegalInv

LEMMA LegalKeeps ==
    ASSUME LoopInv, CallInv, LegalInv, [Next]_vars
    PROVE  LegalInv'
<1>1. CASE \/ start \/ resume \/ Return \/ Crash \/ CompactionOverBudget
           \/ AfterRecovery \/ _commit \/ Leave
           \/ Turn \/ WithoutCompaction \/ compact \/ AskOverBudget \/ AskOverflows
           \/ AskReplies
           \/ JudgeCall \/ ToolReturns \/ _handle_tool_failure
           \/ resume_open_calls
    BY <1>1, QuietSteps, QuietIsLegal
<1>2. CASE AppendEvent
    BY <1>2, AppendIsLegal
<1>3. CASE WriteRow \/ RefreshStatus \/ WriteCheckpoint
    <2>1. writes # <<>> /\ writes' = Tail(writes) /\ log' = log
        BY <1>3 DEF WriteRow, RefreshStatus, WriteCheckpoint, durable
    <2> QED BY <2>1, TailIsLegal
<1>4. CASE DriveNext \/ NextOfBatch
    BY <1>4, DriverWrites DEF LegalInv, MessagesComeBetween, ResumesAnswer, FoldFollows
<1>5. CASE Human
    <2>1. PICK d \in Decisions, a \in Args, t \in Scopes : approve(d, a, t)
        BY <1>5 DEF Human
    <2>2. /\ HasPending(log) /\ log' = log
          /\ \A i \in 1..Len(writes') :
                /\ ~IsTelling(writes'[i])
                /\ IsResuming(writes'[i]) =>
                      i = Len(writes') /\ writes'[i].event.index = Pending(log).index
        BY <2>1, AnswerWrites
    <2> QED BY <2>2 DEF LegalInv, MessagesComeBetween, ResumesAnswer, FoldFollows
<1>6. CASE Clock \/ UNCHANGED vars
    <2>1. log' = log /\ writes' = writes
        BY <1>6 DEF Clock, TimePasses, durable, volatile, vars
    <2> QED BY <2>1 DEF LegalInv, MessagesComeBetween, ResumesAnswer, FoldFollows
<1> QED BY <1>1, <1>2, <1>3, <1>4, <1>5, <1>6 DEF Next, Process, Pipeline, Write

LEMMA LegalStarts ==
    ASSUME Init
    PROVE  LegalInv
<1>1. log = <<>> /\ writes = <<>>
    BY DEF Init
<1>2. /\ ~HasPending(log) /\ \A c : ~Called(log, c) /\ ~Closed(log, c) /\ ~Open(log, c)
      /\ GoesOn(log)
    BY <1>1 DEF HasPending, PendingInterrupts, Called, Closed, Open, IsCall, IsResult, GoesOn
<1>3. Fold!Folded(log) = Fold!Fresh
    BY <1>1, FoldedStarts
<1>4. FoldFollows
    BY <1>2, <1>3 DEF FoldFollows, IsFoldOf, Fold!Fresh, States, RunStatuses
<1> QED BY <1>1, <1>4 DEF LegalInv, MessagesComeBetween, ResumesAnswer

\* Wherever a process is killed, between the writes of an answer too, and however
\* the model asks and the human answers: what docs/semantics.md forbids in a log
\* never comes into the loop's, but for a call (INV-001) or a result (INV-003)
\* that is there twice (loop.py start, resume, approve, _drive; execution.py
\* execute, resume_open_calls, decide; state.py reduce_events).
THEOREM LoopLogOnlyRepeats ==
    Spec => [](Fold!reduce_events(log).broken \subseteq {"INV-001", "INV-003"})
<1>1. LegalInv => Fold!reduce_events(log).broken \subseteq {"INV-001", "INV-003"}
    <2> DEFINE s == Fold!Folded(log)
    <2>1. ASSUME FoldFollows PROVE Fold!reduce_events(log) = s
        BY <2>1 DEF FoldFollows, Fold!reduce_events
    <2> QED BY <2>1 DEF LegalInv, FoldFollows
<1>2. /\ Init => LoopInv /\ CallInv /\ LegalInv
      /\ LoopInv /\ [Next]_vars => LoopInv'
      /\ LoopInv /\ CallInv /\ [Next]_vars => CallInv'
      /\ LoopInv /\ CallInv /\ LegalInv /\ [Next]_vars => LegalInv'
    BY LoopStarts, CallsStart, LegalStarts, LoopKeeps, CallsKeep, LegalKeeps
<1> QED BY <1>1, <1>2, PTL DEF Spec

-----------------------------------------------------------------------------
(* Without a kill between the writes of an answer *)

\* A call is recorded once if its tool is registered.
CallsAreNew ==
    \A i \in 1..Len(writes), c \in Calls :
        IsRecordingOf(writes[i], c) /\ Registered = Tools => ~Called(log, c)

FewFlags ==
    LET b == Fold!Folded(log).broken
    IN  b \subseteq {"INV-001"} /\ (Registered = Tools => b = {})

NewInv == CallsAreNew /\ FewFlags

\* An answer is to a question about an open call, so the call of other arguments
\* was not recorded by an earlier one.
LEMMA AnswerIsNew ==
    ASSUME LoopInv, ViewInv, NewInv, NEW d \in Decisions, NEW a \in Args, NEW s \in Scopes,
           approve(d, a, s)
    PROVE  NewInv'
<1>1. ToolInv /\ phase = "down" /\ decide(d, a, s) /\ log \in Logs
    BY DEF LoopInv, approve, ToolInv, Typed
<1>2. HasPending(log) /\ Pending(log).call \in Calls
    BY <1>1, DecideIs, AskedIs DEF Requests
<1>3. ~Called(log, EditOf(Pending(log).call))
    <2>1. writes = <<>>
        BY <1>1, NothingInHand
    <2>2. Open(log, Pending(log).call)
        BY <1>2, <2>1 DEF ViewInv, PendingIsOpen, WillResume
    <2> QED BY <1>2, <2>2 DEF ViewInv, EditsComeLater, Open
<1>4. /\ log' = log
      /\ \A i \in 1..Len(writes') :
            \A c : IsRecordingOf(writes'[i], c) => c = EditOf(Pending(log).call)
    BY AnswerWrites
<1> QED BY <1>3, <1>4 DEF NewInv, CallsAreNew, FewFlags

LEMMA AppendIsNew ==
    ASSUME LoopInv, CallInv, ViewInv, LegalInv, NewInv, AppendEvent
    PROVE  NewInv'
<1> DEFINE e == writes[1].event
<1>1. /\ 1 \in 1..Len(writes) /\ writes[1].kind = "append" /\ ToolInv
      /\ \A i \in 1..Len(writes') : i + 1 \in 1..Len(writes) /\ writes'[i] = writes[i + 1]
      /\ \A i \in 1..Len(writes') : i + 1 # 1
    BY RestOfWrites DEF LoopInv, AppendEvent
<1>2. /\ e \in LoggedEvents
      /\ \A c : Called(log', c) <=> Called(log, c) \/ (e.type = "tool_call" /\ e.call = c)
    BY <1>1, AppendEventLog
<1>3. /\ \A c : IsRecordingOf(writes[1], c) <=> e.type = "tool_call" /\ e.call = c
      /\ \A c : IsConclusionOf(writes[1], c) <=> e.type = "tool_result" /\ e.call = c
    BY <1>1 DEF IsRecordingOf, IsConclusionOf
<1>4. e.type \in {"tool_call", "tool_result"} => e.call \in Calls
    BY <1>2 DEF LoggedEvents
<1>5. Fold!Folded(log').broken \subseteq Fold!Folded(log).broken \cup Flags(log, e)
    BY NextIsTaken
<1> HIDE DEF e
<1>6. CallsAreNew'
    <2>1. SUFFICES ASSUME NEW i \in 1..Len(writes'), NEW c \in Calls,
                          IsRecordingOf(writes'[i], c), Registered = Tools
                   PROVE  ~Called(log', c)
        BY DEF CallsAreNew
    <2>2. ~Called(log, c)
        BY <1>1, <2>1 DEF NewInv, CallsAreNew
    <2>3. ~IsRecordingOf(writes[1], c)
        BY <1>1, <2>1 DEF CallInv, OneToRecord
    <2> QED BY <1>2, <1>3, <2>2, <2>3
<1>7. FewFlags'
    <2>1. e.type = "tool_call" /\ Registered = Tools => ~Called(log, e.call)
        BY <1>1, <1>3, <1>4 DEF NewInv, CallsAreNew
    <2>2. e.type = "tool_result" => ~Closed(log, e.call)
        BY <1>1, <1>3, <1>4 DEF ViewInv, ResultsComeOnce
    <2>3. Flags(log, e) \subseteq {"INV-001"} /\ (Registered = Tools => Flags(log, e) = {})
        BY <2>1, <2>2 DEF Flags
    <2> QED BY <1>5, <2>3 DEF NewInv, FewFlags
<1> QED BY <1>6, <1>7 DEF NewInv

LEMMA NewKeeps ==
    ASSUME LoopInv, CallInv, ViewInv, LegalInv, NewInv, [Next]_vars
    PROVE  NewInv'
<1>1. CASE \/ start \/ resume \/ Return \/ Crash \/ CompactionOverBudget
           \/ AfterRecovery \/ _commit \/ Leave
           \/ Turn \/ WithoutCompaction \/ compact \/ AskOverBudget \/ AskOverflows
           \/ AskReplies
           \/ JudgeCall \/ ToolReturns \/ _handle_tool_failure
           \/ resume_open_calls
    BY <1>1, QuietSteps DEF NewInv, CallsAreNew, FewFlags, IsQuiet
<1>2. CASE AppendEvent
    BY <1>2, AppendIsNew
<1>3. CASE WriteRow \/ RefreshStatus \/ WriteCheckpoint
    <2>1. writes # <<>> /\ writes' = Tail(writes) /\ log' = log
        BY <1>3 DEF WriteRow, RefreshStatus, WriteCheckpoint, durable
    <2>2. \A i \in 1..Len(writes') : i + 1 \in 1..Len(writes) /\ writes'[i] = writes[i + 1]
        BY <2>1, RestOfWrites DEF LoopInv
    <2> QED BY <2>1, <2>2 DEF NewInv, CallsAreNew, FewFlags
<1>4. CASE DriveNext \/ NextOfBatch
    BY <1>4, DriverWrites DEF NewInv, CallsAreNew, FewFlags
<1>5. CASE Human
    BY <1>5, AnswerIsNew DEF Human
<1>6. CASE Clock \/ UNCHANGED vars
    <2>1. log' = log /\ writes' = writes
        BY <1>6 DEF Clock, TimePasses, durable, volatile, vars
    <2> QED BY <2>1 DEF NewInv, CallsAreNew, FewFlags
<1> QED BY <1>1, <1>2, <1>3, <1>4, <1>5, <1>6 DEF Next, Process, Pipeline, Write

LEMMA NewStarts ==
    ASSUME Init
    PROVE  NewInv
<1>1. log = <<>> /\ writes = <<>>
    BY DEF Init
<1>2. Fold!Folded(log) = Fold!Fresh
    BY <1>1, FoldedStarts
<1> QED BY <1>1, <1>2 DEF NewInv, CallsAreNew, FewFlags, Fold!Fresh

\* Where no process is killed between the writes of an answer, a call recorded
\* twice (INV-001) is all the log of the loop can break, and where every tool that
\* is asked for is registered it breaks nothing (loop.py start, resume, approve,
\* _drive; execution.py execute, resume_open_calls, decide; state.py
\* reduce_events).
THEOREM LoopLogIsLegal ==
    SpecKilledElsewhere =>
        [](/\ Fold!reduce_events(log).broken \subseteq {"INV-001"}
           /\ Registered = Tools => LogInvariantsHold)
<1>1. LegalInv /\ NewInv => /\ Fold!reduce_events(log).broken \subseteq {"INV-001"}
                            /\ Registered = Tools => LogInvariantsHold
    <2> DEFINE s == Fold!Folded(log)
    <2>1. ASSUME FoldFollows PROVE Fold!reduce_events(log) = s
        BY <2>1 DEF FoldFollows, Fold!reduce_events
    <2> QED BY <2>1 DEF LegalInv, NewInv, FewFlags, LogInvariantsHold
<1>2. /\ Init => LoopInv /\ CallInv /\ StatusInv /\ ViewInv /\ LegalInv /\ NewInv
      /\ LoopInv /\ [Next /\ KilledElsewhere]_vars => LoopInv'
      /\ LoopInv /\ CallInv /\ [Next /\ KilledElsewhere]_vars => CallInv'
      /\ LoopInv /\ CallInv /\ StatusInv /\ [Next /\ KilledElsewhere]_vars => StatusInv'
      /\ LoopInv /\ CallInv /\ LegalInv /\ [Next /\ KilledElsewhere]_vars => LegalInv'
    BY LoopStarts, CallsStart, StatusStarts, ViewStarts, LegalStarts, NewStarts,
       LoopKeeps, CallsKeep, StatusKeeps, LegalKeeps
<1>3. /\ LoopInv /\ CallInv /\ StatusInv /\ ViewInv /\ [Next /\ KilledElsewhere]_vars => ViewInv'
      /\ LoopInv /\ CallInv /\ ViewInv /\ LegalInv /\ NewInv /\ [Next /\ KilledElsewhere]_vars
         => NewInv'
    BY ViewKeeps, NewKeeps
<1> QED BY <1>1, <1>2, <1>3, PTL DEF SpecKilledElsewhere

=============================================================================
