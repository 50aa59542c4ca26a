-------------------------- MODULE McpServerProofs ---------------------------
(***************************************************************************)
(* Proofs about the governed tool server, for every registry, every set of *)
(* arguments, every tamper hook and any number of calls, answers, expiries *)
(* and kills.  What holds of the pipeline whoever drives it is proved in   *)
(* ToolProofs; here are the server's own steps, the order in which it      *)
(* drives what is open, and the theorems.                                  *)
(***************************************************************************)
EXTENDS McpProperties, ToolProofs

-----------------------------------------------------------------------------
(* The server's own part of the invariant *)

ServerEvents ==
    {e \in LoggedEvents :
        /\ e.type \in {"user_message", "tool_call", "tool_result", "interrupt",
                       "resume", "approval", "error"}
        /\ ~EndsRun(e)}

ServerItems ==
    {w \in WriteItems :
        /\ w.kind \in {"append", "insert", "update", "refresh", "provision"}
        /\ w.kind = "append" => w.event \in ServerEvents}

ServerTyped ==
    /\ log \in Seq(ServerEvents)
    /\ phase \in Phases
    /\ writes \in Seq(ServerItems)
    /\ provisioned \subseteq {"run", "branch"}
    /\ crashes \in 0..MaxCrashes

\* Between requests there is nothing to write but the status.
StatusInv ==
    phase = "idle" =>
        \/ writes = <<Refresh>>
        \/ writes = <<>> /\ runStatus = RunStatus(log)

ServerInv == ToolInv /\ GateInv /\ ServerTyped /\ StatusInv

-----------------------------------------------------------------------------
(* What is open is driven, in the order of the log *)

\* Driven c: some part of the work under way is about to deal with the call.
Driven(c) == c \in queue \/ InHand(c) \/ WillConclude(c)

\* Of the open calls, c is the one the log has first.
IsFirstOpen(c) == \A d \in Calls : Open(log, d) => FirstCall(log, c) <= FirstCall(log, d)

\* A call that is open is dealt with, or waits behind a question to a human.
OpenIsDriven ==
    phase \in {"drive", "judge", "effect", "idle"} =>
        \A c \in Calls : Open(log, c) => Driven(c) \/ HasPending(log) \/ WillAsk

\* A call is recorded to be judged or failed at once, or by an answer.
RecordingsAreDriven ==
    \A i \in 1..Len(writes), c \in Calls : IsRecordingOf(writes[i], c) =>
        \/ phase = "resume"
        \/ phase = "judge" /\ c = cur.call /\ queue = {}
        \/ \E j \in (i + 1)..Len(writes) : IsConclusionOf(writes[j], c)

\* Calls are driven in the order in which they were recorded.
DrivenInOrder ==
    /\ phase \in {"judge", "effect"} /\ Called(log, cur.call) =>
          \A d \in queue : FirstCall(log, cur.call) <= FirstCall(log, d)
    /\ phase \in {"down", "idle"} => queue = {}
    /\ phase = "down" => writes = <<>>
    /\ \A i \in 1..Len(writes) :
          writes[i].kind = "append" /\ writes[i].event.type = "resume" => phase = "resume"

\* A question is put about the first open call, and before any effect of it.
QuestionsAreOfFirst ==
    /\ HasPending(log) => IsFirstOpen(Pending(log).call)
    /\ \A i \in 1..Len(writes) : IsAsking(writes[i]) =>
          /\ phase = "drive" /\ Len(writes) = 1
          /\ IsFirstOpen(writes[i].event.call)
          /\ effects[writes[i].event.call] = <<>>

\* Where the call that waits had an effect (it was approved, and the process
\* killed before the answer was complete) it is dealt with again.
EffectIsDealtWith ==
    HasPending(log) =>
        LET c == Pending(log).call
        IN  Open(log, c) /\ effects[c] # <<>> =>
                phase \in {"down", "resume"} \/ Driven(c)

DriveInv ==
    /\ OpenIsDriven
    /\ RecordingsAreDriven
    /\ DrivenInOrder
    /\ QuestionsAreOfFirst
    /\ EffectIsDealtWith

-----------------------------------------------------------------------------
(* What a question is about, while no answer to it was cut short *)

\* Nobody has said anything that binds call c.
IsUnanswered(c) == Exact(log, c) = {} /\ Reusable(log, ToolOf(log, c)) = {}

\* The call waits at the gate: open, of a gated tool, not answered, not tried.
WaitsAtGate(c) ==
    /\ Open(log, c)
    /\ ToolOf(log, c) \in NeedsApproval
    /\ IsUnanswered(c)
    /\ rows[c] = NoRow
    /\ ~WillConclude(c)
    /\ ~(phase = "effect" /\ cur.call = c)

QuestionsWait ==
    /\ HasPending(log) /\ ~AnswerInFlight => WaitsAtGate(Pending(log).call)
    /\ \A i \in 1..Len(writes) : IsAsking(writes[i]) =>
          WaitsAtGate(writes[i].event.call)

\* A row of a gated tool is there only after an answer that binds its call.
RowsWereAnswered ==
    /\ \A c \in Calls :
          Called(log, c) /\ ToolOf(log, c) \in NeedsApproval /\ rows[c] # NoRow =>
              ~IsUnanswered(c)
    /\ \A i \in 1..Len(writes) :
          writes[i].kind = "insert" /\ ToolOf(log, cur.call) \in NeedsApproval =>
              ~IsUnanswered(cur.call)

\* An approval comes with the resume that ends its interrupt.
ApprovalsComeWithResumes ==
    \A i \in 1..Len(writes) :
        writes[i].kind = "append" /\ writes[i].event.type = "approval" =>
            \E j \in (i + 1)..Len(writes) :
                writes[j].kind = "append" /\ writes[j].event.type = "resume"

AnswerInv == QuestionsWait /\ RowsWereAnswered /\ ApprovalsComeWithResumes

-----------------------------------------------------------------------------
(* The server's steps keep it *)

\* Nothing the server records ends the run.
LEMMA ServerGoesOn ==
    ASSUME ServerTyped
    PROVE  GoesOn(log)
BY ElementOfSeq DEF ServerTyped, ServerEvents, GoesOn

\* What the server writes is of the server.
LEMMA ServerItemsAre ==
    /\ \A k \in Requests : Recording(k) \in ServerItems
    /\ \A k \in Requests, s \in Statuses : Concluding(k, s) \in ServerItems
    /\ Reporting \in ServerItems
    /\ Refresh \in ServerItems
    /\ \A r \in {"run", "branch"} : Provision(r) \in ServerItems
    /\ Appending(UserMessage) \in ServerItems
    /\ \A w \in WriteItems : IsRowWrite(w) => w \in ServerItems
    /\ \A w \in WriteItems : /\ w.kind = "append"
                             /\ w.event.type \in {"approval", "resume", "interrupt"}
                             => w \in ServerItems
<1>1. /\ \A w \in WriteItems : w.kind = "append" => w.event \in LoggedEvents
      /\ UserMessage \in LoggedEvents /\ UserMessage.type = "user_message"
    BY DEF WriteItems, UserMessage, LoggedEvents
<1>2. /\ \A k \in Requests : Recording(k) \in ServerItems
      /\ \A k \in Requests, s \in Statuses : Concluding(k, s) \in ServerItems
      /\ Reporting \in ServerItems
      /\ Refresh \in ServerItems
    BY <1>1, WritesAreItems, WhatWritesDo, PipelineGoesOn DEF ServerItems, ServerEvents
<1>3. \A r \in {"run", "branch"} : Provision(r) \in ServerItems
    BY DEF Provision, ServerItems, WriteItems
<1>4. Appending(UserMessage) \in ServerItems
    <2>1. Appending(UserMessage) \in WriteItems
        BY <1>1, WritesAreItems
    <2> QED BY <1>1, <2>1, WhatWritesDo, PipelineGoesOn DEF ServerItems, ServerEvents
<1>5. \A w \in WriteItems : IsRowWrite(w) => w \in ServerItems
    BY DEF IsRowWrite, ServerItems
<1>6. \A w \in WriteItems : /\ w.kind = "append"
                            /\ w.event.type \in {"approval", "resume", "interrupt"}
                            => w \in ServerItems
    BY <1>1, PipelineGoesOn DEF ServerItems, ServerEvents
<1> QED BY <1>2, <1>3, <1>4, <1>5, <1>6

\* A step of the pipeline that leaves the log and puts such writes on its list.
LEMMA ServerStepTyped ==
    ASSUME ServerTyped, UNCHANGED <<log, provisioned, crashes>>, phase' \in Phases,
           writes' \in Seq(ServerItems)
    PROVE  ServerTyped'
BY DEF ServerTyped

\* At the start there is nothing yet.
LEMMA ServerBegins == Init => ServerInv
<1> SUFFICES ASSUME Init PROVE ServerInv
    OBVIOUS
<1>1. ToolInv
    BY EmptyRun DEF Init
<1>2. GateInv
    BY EmptyPromise DEF Init
<1>3. ServerTyped
    BY MaxCrashesIsNat DEF Init, ServerTyped, Phases
<1>4. StatusInv
    BY DEF Init, StatusInv
<1> QED BY <1>1, <1>2, <1>3, <1>4 DEF ServerInv

\* The first of the pending writes is done, and the others wait.
LEMMA ServerWrite ==
    ASSUME ServerInv, Write, UNCHANGED <<provisioned, crashes>>
    PROVE  ServerInv'
<1>1. ToolInv'
    BY WriteKeeps DEF ServerInv
<1>2. GateInv'
    <2>1. CASE AppendEvent
        BY <2>1, AppendEventAllows DEF ServerInv
    <2>2. CASE WriteRow \/ RefreshStatus
        <3>1. UNCHANGED <<log, effects, phase, cur>>
            BY <2>2 DEF WriteRow, RefreshStatus
        <3> QED BY <3>1, OthersAllow DEF ServerInv
    <2> QED BY <2>1, <2>2 DEF Write
<1>3. ServerTyped'
    <2>1. /\ writes \in Seq(ServerItems) /\ writes # <<>> /\ writes' = Tail(writes)
          /\ log \in Seq(ServerEvents) /\ phase' = phase
        BY DEF ServerInv, ServerTyped, Write, AppendEvent, WriteRow, RefreshStatus
    <2>2. writes' \in Seq(ServerItems) /\ Head(writes) \in ServerItems
        BY <2>1, ShiftedTail
    <2>3. log' \in Seq(ServerEvents)
        <3>1. CASE AppendEvent
            <4>1. Head(writes).event \in ServerEvents /\ log' = Append(log, Head(writes).event)
                BY <2>2, <3>1 DEF AppendEvent, ServerItems
            <4> QED BY <2>1, <4>1, AppendProperties
        <3>2. CASE WriteRow \/ RefreshStatus
            BY <2>1, <3>2 DEF WriteRow, RefreshStatus
        <3> QED BY <3>1, <3>2 DEF Write
    <2> QED BY <2>1, <2>2, <2>3 DEF ServerInv, ServerTyped
<1>4. StatusInv'
    <2> SUFFICES ASSUME phase' = "idle" PROVE StatusInv'
        BY DEF StatusInv
    <2>1. phase = "idle" /\ writes # <<>>
        BY DEF Write, AppendEvent, WriteRow, RefreshStatus
    <2>2. writes = <<Refresh>>
        BY <2>1 DEF ServerInv, StatusInv
    <2>3. Head(writes) = Refresh /\ Tail(writes) = <<>> /\ Head(writes).kind = "refresh"
        BY <2>2 DEF Refresh
    <2>4. RefreshStatus
        BY <2>3 DEF Write, AppendEvent, WriteRow
    <2>5. writes' = <<>> /\ runStatus' = RunStatus(log) /\ log' = log
        BY <2>3, <2>4 DEF RefreshStatus
    <2> QED BY <2>5 DEF StatusInv
<1> QED BY <1>1, <1>2, <1>3, <1>4 DEF ServerInv

LEMMA ServerWriteProvision ==
    ASSUME ServerInv, WriteProvision
    PROVE  ServerInv'
<1>1. /\ writes # <<>> /\ Head(writes).kind = "provision" /\ writes' = Tail(writes)
      /\ provisioned' = provisioned \cup {Head(writes).row}
      /\ UNCHANGED <<log, rows, effects, runStatus, lapsed, phase, cur, queue, crashes>>
    BY DEF WriteProvision, durable
<1>2. writes \in Seq(ServerItems)
    BY DEF ServerInv, ServerTyped
<1>3. Head(writes) \in ServerItems /\ writes' \in Seq(ServerItems)
    BY <1>1, <1>2, ShiftedTail
<1>4. ToolInv'
    <2>1. runStatus' \in RunStatuses
        BY <1>1 DEF ServerInv, ToolInv, Typed
    <2> QED BY <1>1, <2>1, OtherWriteKeeps DEF ServerInv
<1>5. GateInv'
    BY <1>1, OthersAllow DEF ServerInv
<1>6. ServerTyped'
    <2>1. Head(writes).row \in {"run", "branch"}
        BY <1>1, <1>3 DEF ServerItems, WriteItems
    <2> QED BY <1>1, <1>3, <2>1 DEF ServerInv, ServerTyped
<1>7. StatusInv'
    <2> SUFFICES ASSUME phase' = "idle" PROVE FALSE
        BY DEF StatusInv
    <2>1. writes = <<Refresh>>
        BY <1>1 DEF ServerInv, StatusInv
    <2> QED BY <1>1, <2>1 DEF Refresh
<1> QED BY <1>4, <1>5, <1>6, <1>7 DEF ServerInv

\* A call goes on by its row, its gate and its policy.
LEMMA ServerJudge ==
    ASSUME ServerInv, Judge, UNCHANGED <<provisioned, crashes>>
    PROVE  ServerInv'
<1>1. PICK o \in Outcomes(cur) : Judged(o)
    BY DEF Judge
<1>2. ToolInv /\ GateInv /\ ServerTyped
    BY DEF ServerInv
<1>3. ToolInv' /\ GateInv'
    BY <1>1, <1>2, JudgedKeeps, JudgedAllows
<1>4. writes' \in Seq(ServerItems) /\ phase' \in {"effect", "drive"} /\ log' = log
    <2>1. /\ cur \in Requests /\ phase' \in {"effect", "drive"} /\ log' = log /\ cur' = cur
          /\ \/ writes' = <<>>
             \/ writes' = <<Insert("pending", Actual(cur))>>
             \/ writes' = <<Appending(InterruptEvent(cur.call, InterruptCount(log)))>>
             \/ writes' = <<Reporting, Concluding(cur, "rejected")>>
             \/ writes' = <<Reporting, Concluding(cur, "unknown"), Update("unknown")>>
             \/ writes' = <<Concluding(cur, "executed"), Update("executed")>>
        BY <1>1, <1>2, JudgedStep
    <2>2. Insert("pending", Actual(cur)) \in ServerItems
        <3>1. Insert("pending", Actual(cur)) \in WriteItems
            BY <2>1, WritesAreItems, ActualIsArgs DEF RowStatuses
        <3> QED BY <3>1, WhatWritesDo, ServerItemsAre DEF IsRowWrite
    <2>3. Appending(InterruptEvent(cur.call, InterruptCount(log))) \in ServerItems
        <3>1. InterruptEvent(cur.call, InterruptCount(log)) \in LoggedEvents
            BY <1>2, <2>1, InterruptIsLogged DEF ToolInv, Typed, Requests
        <3>2. Appending(InterruptEvent(cur.call, InterruptCount(log))) \in WriteItems
            BY <3>1, WritesAreItems
        <3>3. InterruptEvent(cur.call, InterruptCount(log)).type = "interrupt"
            BY DEF InterruptEvent
        <3> QED BY <3>2, <3>3, WhatWritesDo, ServerItemsAre
    <2>4. /\ Concluding(cur, "rejected") \in ServerItems
          /\ Concluding(cur, "unknown") \in ServerItems
          /\ Concluding(cur, "executed") \in ServerItems
          /\ Reporting \in ServerItems
        BY <2>1, ServerItemsAre DEF Statuses
    <2>5. Update("unknown") \in ServerItems /\ Update("executed") \in ServerItems
        <3>1. Update("unknown") \in WriteItems /\ Update("executed") \in WriteItems
            BY WritesAreItems DEF RowStatuses
        <3> QED BY <3>1, WhatWritesDo, ServerItemsAre DEF IsRowWrite
    <2> HIDE DEF ServerItems
    <2>6. CASE writes' = <<>> \/ writes' = <<Insert("pending", Actual(cur))>>
        BY <2>1, <2>2, <2>6, ShortLists
    <2>7. CASE writes' = <<Appending(InterruptEvent(cur.call, InterruptCount(log)))>>
        BY <2>1, <2>3, <2>7, ShortLists
    <2>8. CASE writes' = <<Reporting, Concluding(cur, "rejected")>>
        BY <2>1, <2>4, <2>8, ShortLists
    <2>9. CASE writes' = <<Reporting, Concluding(cur, "unknown"), Update("unknown")>>
        BY <2>1, <2>4, <2>5, <2>9, ShortLists
    <2>10. CASE writes' = <<Concluding(cur, "executed"), Update("executed")>>
        BY <2>1, <2>4, <2>5, <2>10, ShortLists
    <2> QED BY <2>1, <2>6, <2>7, <2>8, <2>9, <2>10
<1>5. ServerTyped'
    BY <1>2, <1>4, ServerStepTyped DEF Phases
<1>6. StatusInv'
    BY <1>4 DEF StatusInv
<1> QED BY <1>3, <1>5, <1>6 DEF ServerInv

LEMMA ServerToolEnd ==
    ASSUME ServerInv, ToolReturns \/ _handle_tool_failure, UNCHANGED <<provisioned, crashes>>
    PROVE  ServerInv'
<1>1. ToolInv /\ GateInv /\ ServerTyped
    BY DEF ServerInv
<1>2. ToolInv' /\ GateInv'
    BY <1>1, ToolEndKeeps, ToolEndAllows
<1>3. phase' = "drive" /\ log' = log /\ cur \in Requests
    BY <1>1, ToolEnd
<1>4. PICK s \in Statuses, w \in WriteItems :
          /\ IsRowWrite(w)
          /\ \/ writes' = <<Concluding(cur, s), w>>
             \/ writes' = <<Reporting, Concluding(cur, s), w>>
    BY <1>1, ToolEnd
<1>5. Concluding(cur, s) \in ServerItems /\ Reporting \in ServerItems /\ w \in ServerItems
    BY <1>3, <1>4, ServerItemsAre
<1>6. writes' \in Seq(ServerItems)
    <2> HIDE DEF ServerItems
    <2> QED BY <1>4, <1>5, ShortLists
<1>7. ServerTyped'
    BY <1>1, <1>3, <1>6, ServerStepTyped DEF Phases
<1>8. StatusInv'
    BY <1>3 DEF StatusInv
<1> QED BY <1>2, <1>7, <1>8 DEF ServerInv

\* What execute does at once.
LEMMA ServerExecutes ==
    ASSUME ServerTyped, NEW k \in Requests, execute(k),
           UNCHANGED <<log, provisioned, crashes>>
    PROVE  ServerTyped' /\ phase' \in {"drive", "judge"}
<1>1. /\ phase' \in {"drive", "judge"}
      /\ \/ writes' = <<>>
         \/ writes' = <<Recording(k)>>
         \/ writes' = <<Recording(k), Reporting, Concluding(k, "failed")>>
    BY DEF execute
<1>2. /\ Recording(k) \in ServerItems /\ Reporting \in ServerItems
      /\ Concluding(k, "failed") \in ServerItems
    BY ServerItemsAre DEF Statuses
<1>3. writes' \in Seq(ServerItems)
    <2> HIDE DEF ServerItems
    <2> QED BY <1>1, <1>2, ShortLists
<1> QED BY <1>1, <1>3, ServerStepTyped DEF Phases

LEMMA ServerDrives ==
    ASSUME ServerInv, DriveNext, UNCHANGED <<provisioned, crashes>>
    PROVE  ServerInv'
<1>1. ToolInv /\ GateInv /\ ServerTyped /\ GoesOn(log)
    BY ServerGoesOn DEF ServerInv
<1>2. PICK k \in Requests : execute(k)
    BY <1>1, DrivenRequest
<1>3. UNCHANGED <<log, rows, effects, runStatus, lapsed>>
    BY DEF DriveNext
<1>4. ServerTyped' /\ phase' \in {"drive", "judge"}
    BY <1>1, <1>2, <1>3, ServerExecutes
<1>5. ToolInv' /\ GateInv'
    BY <1>1, <1>3, <1>4, DriveNextKeeps, OthersAllow
<1> QED BY <1>4, <1>5 DEF ServerInv, StatusInv

LEMMA ServerResumes ==
    ASSUME ServerInv, resume_open_calls, UNCHANGED <<provisioned, crashes>>
    PROVE  ServerInv'
<1>1. ToolInv /\ GateInv /\ ServerTyped
    BY DEF ServerInv
<1>2. UNCHANGED <<log, effects, writes>> /\ phase' = "drive"
    BY DEF resume_open_calls
<1>3. ToolInv' /\ GateInv'
    BY <1>1, <1>2, ResumeOpenCallsKeeps, OthersAllow
<1>4. ServerTyped'
    BY <1>1, <1>2 DEF ServerTyped, Phases
<1> QED BY <1>2, <1>3, <1>4 DEF ServerInv, StatusInv

\* A request of the client, for a call nobody asked for before.
LEMMA ServerAsked ==
    ASSUME ServerInv, NEW c \in Originals, NEW t \in Tools, NEW a \in Args,
           handle_tools_call(c, t, a)
    PROVE  ServerInv'
<1>1. ToolInv /\ GateInv /\ ServerTyped /\ GoesOn(log)
    BY ServerGoesOn DEF ServerInv
<1> DEFINE k == Request(c, t, a)
<1>2. /\ execute(k) /\ writes = <<>> /\ ~Called(log, c) /\ queue' = queue
      /\ UNCHANGED <<log, rows, effects, runStatus, lapsed, provisioned, crashes>>
    BY DEF handle_tools_call, Idle, NextId, durable
<1>3. k \in Requests /\ k.call = c
    BY BoundsAreNat, OriginalsAreCalls DEF Request, Requests, Originals, Calls
<1> HIDE DEF k
<1>4. ServerTyped' /\ phase' \in {"drive", "judge"}
    BY <1>1, <1>2, <1>3, ServerExecutes
<1>5. ToolInv'
    BY <1>1, <1>2, <1>3, ExecuteKeeps
<1>6. GateInv'
    BY <1>1, <1>2, <1>4, OthersAllow
<1> QED BY <1>4, <1>5, <1>6 DEF ServerInv, StatusInv

\* The answer of the human.
LEMMA ServerAnswered ==
    ASSUME ServerInv, NEW d \in Decisions, NEW a \in Args, NEW s \in Scopes,
           _handle_approve(d, a, s)
    PROVE  ServerInv'
<1>1. ToolInv /\ GateInv /\ ServerTyped /\ GoesOn(log)
    BY ServerGoesOn DEF ServerInv
<1>2. decide(d, a, s) /\ phase' = "resume" /\ UNCHANGED <<provisioned, crashes>>
    BY DEF _handle_approve
<1>3. ToolInv'
    BY <1>1, <1>2, DecideKeeps
<1>4. UNCHANGED <<log, effects>>
    BY <1>2 DEF decide
<1>5. GateInv'
    BY <1>1, <1>2, <1>4, OthersAllow
<1>6. writes' \in Seq(ServerItems)
    <2>1. /\ Approving(d, a, s) \in ServerItems /\ Resuming \in ServerItems
        BY <1>1, <1>2, DecideIs, ServerItemsAre
    <2>2. Asked \in Requests
        BY <1>1, <1>2, AskedIs DEF decide
    <2>3. Rerecording(a) \in ServerItems
        <3>1. Request(Target(a), Asked.tool, a) \in Requests
            BY <1>1, <1>2, <2>2, DecideIs DEF Request, Requests
        <3> QED BY <3>1, ServerItemsAre DEF Rerecording
    <2>4. Concluding(Asked, "rejected") \in ServerItems /\ Concluding(Asked, "superseded") \in ServerItems
        BY <2>2, ServerItemsAre DEF Statuses
    <2>5. \/ writes' = <<Concluding(Asked, "rejected"), Approving(d, a, s), Resuming>>
          \/ writes' = <<Concluding(Asked, "superseded"), Rerecording(a),
                         Approving(d, a, s), Resuming>>
          \/ writes' = <<Approving(d, a, s), Resuming>>
        BY <1>1, <1>2, DecideIs
    <2> HIDE DEF ServerItems
    <2> QED BY <2>1, <2>3, <2>4, <2>5, ShortLists
<1>7. ServerTyped'
    BY <1>1, <1>2, <1>4, <1>6, ServerStepTyped DEF Phases
<1> QED BY <1>2, <1>3, <1>5, <1>7 DEF ServerInv, StatusInv

\* The end of a handler, a start, and a kill.
LEMMA ServerTurns ==
    ASSUME ServerInv, Finish \/ Start \/ Crash
    PROVE  ServerInv'
<1>1. ToolInv /\ GateInv /\ ServerTyped /\ GoesOn(log)
    BY ServerGoesOn DEF ServerInv
<1>2. /\ UNCHANGED <<log, rows, effects, runStatus, lapsed, provisioned>>
      /\ phase' \in {"idle", "resume", "down"} /\ cur' \in {cur, NoRequest}
      /\ queue' \subseteq queue /\ crashes' \in 0..MaxCrashes
    BY <1>1, MaxCrashesIsNat DEF Finish, Start, Crash, durable, PhaseAfterStart, ServerTyped
<1> DEFINE Plain == {w \in ServerItems :
                        ~IsRowWrite(w) /\ ~IsConclusion(w) /\ ~IsAsking(w)}
<1>3. writes' \in Seq(Plain)
    <2>1. /\ Refresh \in Plain /\ Provision("run") \in Plain /\ Provision("branch") \in Plain
          /\ Appending(UserMessage) \in Plain
        BY ServerItemsAre, WhatWritesDo
           DEF IsRowWrite, IsConclusion, IsAsking, Provision, UserMessage
    <2> HIDE DEF Plain
    <2>2. CASE Finish
        BY <2>1, <2>2, ShortLists DEF Finish, EndOfHandler
    <2>3. CASE Crash
        BY <2>3 DEF Crash
    <2>4. CASE Start
        <3> DEFINE r == IF "run" \in provisioned THEN <<>> ELSE <<Provision("run")>>
                   b == IF "branch" \in provisioned THEN <<>> ELSE <<Provision("branch")>>
                   u == IF log = <<>> THEN <<Appending(UserMessage)>> ELSE <<>>
        <3>1. writes' = r \o b \o u
            BY <2>4 DEF Start, ensure_run
        <3>2. r \in Seq(Plain) /\ b \in Seq(Plain) /\ u \in Seq(Plain)
            BY <2>1, ShortLists
        <3> HIDE DEF r, b, u
        <3> QED BY <3>1, <3>2, ConcatProperties
    <2> QED BY <2>2, <2>3, <2>4
<1>4. writes' \in Seq(ServerItems)
    BY <1>3, SeqMonotonic
<1>5. /\ writes' \in Seq(WriteItems)
      /\ \A i \in 1..Len(writes') :
            /\ ~IsRowWrite(writes'[i]) /\ ~IsConclusion(writes'[i]) /\ ~IsAsking(writes'[i])
            /\ writes'[i].kind = "append" => ~EndsRun(writes'[i].event)
    <2>1. \A i \in 1..Len(writes') : writes'[i] \in Plain
        BY <1>3, ElementOfSeq
    <2>2. writes' \in Seq(WriteItems)
        BY <1>4, SeqMonotonic DEF ServerItems
    <2> QED BY <2>1, <2>2 DEF ServerItems, ServerEvents
<1>6. EndComesLast'
    <2>1. GoesOn(log)'
        BY <1>1, <1>2
    <2> QED BY <1>5, <2>1, NothingEnds
<1>7. ToolInv'
    BY <1>1, <1>2, <1>5, <1>6, DriverStepKeeps
<1>8. GateInv'
    BY <1>1, <1>2, OthersAllow
<1>9. ServerTyped'
    BY <1>1, <1>2, <1>4 DEF ServerTyped, Phases
<1>10. StatusInv'
    BY DEF Finish, EndOfHandler, Start, PhaseAfterStart, Crash, StatusInv
<1> QED BY <1>7, <1>8, <1>9, <1>10 DEF ServerInv

\* Neither the clock nor a stuttering step touches what it reads.
LEMMA ServerRests ==
    ASSUME ServerInv, Clock \/ UNCHANGED vars
    PROVE  ServerInv'
<1>1. /\ lapsed' \subseteq Approvals(log)
      /\ UNCHANGED <<log, rows, effects, runStatus, phase, writes, cur, queue,
                     provisioned, crashes>>
    BY DEF Clock, TimePasses, durable, volatile, vars, ServerInv, ToolInv, Typed
<1>2. ToolInv' /\ GateInv'
    BY <1>1, QuietKeeps, OthersAllow DEF ServerInv
<1>3. ServerTyped' /\ StatusInv'
    BY <1>1 DEF ServerInv, ServerTyped, StatusInv
<1> QED BY <1>2, <1>3 DEF ServerInv

LEMMA ServerKeeps == ServerInv /\ [Next]_vars => ServerInv'
<1> SUFFICES ASSUME ServerInv, [Next]_vars PROVE ServerInv'
    OBVIOUS
<1>1. CASE Write /\ UNCHANGED <<provisioned, crashes>>
    BY <1>1, ServerWrite
<1>2. CASE Judge /\ UNCHANGED <<provisioned, crashes>>
    BY <1>2, ServerJudge
<1>3. CASE (ToolReturns \/ _handle_tool_failure) /\ UNCHANGED <<provisioned, crashes>>
    BY <1>3, ServerToolEnd
<1>4. CASE resume_open_calls /\ UNCHANGED <<provisioned, crashes>>
    BY <1>4, ServerResumes
<1>5. CASE DriveNext /\ UNCHANGED <<provisioned, crashes>>
    BY <1>5, ServerDrives
<1>6. CASE WriteProvision
    BY <1>6, ServerWriteProvision
<1>7. CASE Client
    BY <1>7, ServerAsked DEF Client
<1>8. CASE Human
    BY <1>8, ServerAnswered DEF Human
<1>9. CASE Finish \/ Start \/ Crash
    BY <1>9, ServerTurns
<1>10. CASE Clock \/ UNCHANGED vars
    BY <1>10, ServerRests
<1> QED BY <1>1, <1>2, <1>3, <1>4, <1>5, <1>6, <1>7, <1>8, <1>9, <1>10
        DEF Next, Server, Pipeline

\* The invariant holds at every moment of every behaviour.
LEMMA ServerAlways == Spec => []ServerInv
BY ServerBegins, ServerKeeps, PTL DEF Spec

-----------------------------------------------------------------------------
(* The theorems the invariant gives *)

\* The log, the rows, the world and the state of the process are always of
\* the declared types: every handler leaves a state every other one can read.
THEOREM TypeCorrect == Spec => []TypeOK
<1>1. ServerInv => TypeOK
    <2> SUFFICES ASSUME ServerInv PROVE TypeOK
        OBVIOUS
    <2>1. ToolInv /\ ServerTyped
        BY DEF ServerInv
    <2>2. \A i \in 1..Len(log) :
             log[i].type \in {"user_message", "tool_call", "tool_result", "interrupt",
                              "resume", "approval", "error"}
        BY <2>1, ElementOfSeq DEF ServerTyped, ServerEvents
    <2>3. {NoRow} \cup RowsInUse \subseteq [status : RowStatuses, args : Args \cup {NoArgs}]
        BY DEF NoRow, RowsInUse, RowStatuses
    <2>4. rows \in [Calls -> [status : RowStatuses, args : Args \cup {NoArgs}]]
        BY <2>1, <2>3 DEF ToolInv, Typed
    <2>5. \A i \in 1..Len(writes) :
             writes[i].kind \in {"append", "insert", "update", "refresh", "provision"}
        BY <2>1, ElementOfSeq DEF ServerTyped, ServerItems
    <2> QED BY <2>1, <2>2, <2>4, <2>5 DEF ToolInv, Typed, ServerTyped, TypeOK, Requests
<1> QED BY <1>1, ServerAlways, PTL

\* A non-idempotent write behind the outbox takes effect once at most, with any
\* number of calls, answers and kills.
THEOREM AtMostOnce == Spec => []EffectAtMostOnce
<1>1. ServerInv => EffectAtMostOnce
    BY DEF ServerInv, ToolInv, EffectIsMarked, EffectAtMostOnce
<1> QED BY <1>1, ServerAlways, PTL

\* An intent row is closed only when the log has the result of its call.
THEOREM RowsFollowEvents == Spec => []ClosedRowHasResult
<1>1. ServerInv => ClosedRowHasResult
    BY DEF ServerInv, ToolInv
<1> QED BY <1>1, ServerAlways, PTL

\* Whatever a gated tool did outside, a human had granted for this call or for
\* the session, with these very arguments.
THEOREM ApprovalsPrecedeEffects == Spec => []EffectsWereApproved
<1>1. ServerInv => EffectsWereApproved
    BY GateHolds DEF ServerInv
<1> QED BY <1>1, ServerAlways, PTL

\* No tool ever ran on arguments outside the domain its policy declares.
THEOREM PolicyIsNeverPassedBy == Spec => []EffectsArePermitted
<1>1. ServerInv => EffectsArePermitted
    BY GateHolds DEF ServerInv
<1> QED BY <1>1, ServerAlways, PTL

\* Once a handler has answered and the server waits, runs.status is the fold of
\* the log, whatever was called, answered or killed before: every handler, and
\* recovery after a start, ends with refresh_run_status (mcp_server.py 272-276,
\* 401).
THEOREM StatusFollowsLog == Spec => []StatusIsFresh
<1>1. ServerInv => StatusIsFresh
    <2> SUFFICES ASSUME StatusInv, Idle PROVE runStatus = RunStatus(log)
        BY DEF StatusIsFresh, ServerInv
    <2>1. phase = "idle" /\ writes = <<>>
        BY DEF Idle
    <2>2. <<Refresh>> # <<>>
        OBVIOUS
    <2> QED BY <2>1, <2>2 DEF StatusInv
<1> QED BY <1>1, ServerAlways, PTL

\* Once the log has a call's conclusion, the world no longer changes under its
\* key: recoveries, retries and late answers do not reach the tool.
THEOREM ConclusionIsFinal == Spec => NoEffectAfterConclusion
<1> DEFINE A == \A c \in Calls : Closed(log, c) => effects'[c] = effects[c]
<1>1. ASSUME ServerInv, [Next]_vars PROVE [A]_durable
    <2>1. CASE ToolReturns \/ _handle_tool_failure
        BY <1>1, <2>1, EffectIsOfOpenCall DEF ServerInv
    <2>2. CASE ~(ToolReturns \/ _handle_tool_failure)
        <3>1. effects' = effects
            BY <1>1, <2>2 DEF Next, Server, Pipeline, Write, AppendEvent, WriteRow,
               RefreshStatus, Judge, Judged, resume_open_calls, DriveNext, WriteProvision, Finish,
               Start, Client, handle_tools_call, Human, _handle_approve, decide, Clock,
               TimePasses, Crash, durable, vars
        <3> QED BY <3>1
    <2> QED BY <2>1, <2>2
<1>2. NoEffectAfterConclusion <=> [][A]_durable
    BY DEF NoEffectAfterConclusion
<1> QED BY <1>1, <1>2, ServerAlways, PTL DEF Spec

\* A closed row stays what it is: an unknown effect is never turned into a
\* success, a failure or a retry by a later drive of the call.
THEOREM ClosedRowsStay == Spec => ClosedRowsAreFinal
<1> DEFINE B == \A c \in Calls : rows[c].status \in {"executed", "failed", "unknown"} =>
                    rows'[c] = rows[c]
<1>1. ASSUME ServerInv, [Next]_vars PROVE [B]_durable
    <2>1. CASE WriteRow
        BY <1>1, <2>1, WriteRowIsOfOpenRow DEF ServerInv
    <2>2. CASE ~WriteRow
        <3>1. rows' = rows
            BY <1>1, <2>2 DEF Next, Server, Pipeline, Write, AppendEvent, ToolReturns,
               _handle_tool_failure, RefreshStatus, Judge, Judged, resume_open_calls, DriveNext,
               WriteProvision, Finish, Start, Client, handle_tools_call, Human,
               _handle_approve, decide, Clock, TimePasses, Crash, durable, vars
        <3> QED BY <3>1
    <2> QED BY <2>1, <2>2
<1>2. ClosedRowsAreFinal <=> [][B]_durable
    BY DEF ClosedRowsAreFinal
<1> QED BY <1>1, <1>2, ServerAlways, PTL DEF Spec

-----------------------------------------------------------------------------
(* The order in which the server drives what is open *)

\* Two recorded calls have two first tool_calls.
LEMMA FirstCallsDiffer ==
    ASSUME NEW l \in Logs, NEW c, NEW d, Called(l, c), Called(l, d),
           FirstCall(l, c) = FirstCall(l, d)
    PROVE  c = d
BY FirstCallIs

\* The first open call stays the first as the log grows.
LEMMA FirstOpenStays ==
    ASSUME ToolInv, AppendEvent, NEW c, Called(log, c), IsFirstOpen(c)
    PROVE  IsFirstOpen(c)'
<1>1. PICK e \in LoggedEvents : e = Head(writes).event
    BY AppendEventLog
<1>2. /\ log \in Logs /\ GoesOn(log) /\ log' = Append(log, e)
      /\ FirstCall(log', c) = FirstCall(log, c)
      /\ \A d : Called(log', d) <=> Called(log, d) \/ (e.type = "tool_call" /\ e.call = d)
      /\ \A d : Called(log, d) => FirstCall(log', d) = FirstCall(log, d)
      /\ \A d : Closed(log, d) => Closed(log', d)
    BY <1>1, AppendEventLog
<1>3. FirstCall(log, c) \in 1..Len(log) /\ Len(log) \in Nat
    BY <1>2, FirstCallIs, AllLive
<1>4. ASSUME NEW d \in Calls, Open(log', d)
      PROVE  FirstCall(log', c) <= FirstCall(log', d)
    <2>1. CASE Called(log, d)
        BY <1>2, <1>4, <2>1 DEF Open, IsFirstOpen
    <2>2. CASE ~Called(log, d)
        <3>1. e.type = "tool_call" /\ e.call = d
            BY <1>2, <1>4, <2>2 DEF Open
        <3>2. FirstCall(log', d) = Len(log) + 1
            BY <1>2, <2>2, <3>1, RequestIsRecorded
        <3> QED BY <1>2, <1>3, <3>2
    <2> QED BY <2>1, <2>2
<1> QED BY <1>4 DEF IsFirstOpen

\* A call that is dealt with is so after a write too, unless that closes it.
LEMMA DrivenStays ==
    ASSUME ToolInv, writes # <<>>, writes' = Tail(writes), UNCHANGED <<phase, cur, queue>>,
           NEW c, Driven(c), ~IsConclusionOf(Head(writes), c)
    PROVE  Driven(c)'
BY RestWaits DEF Driven, InHand

\* What the other writes are stays what it was.
LEMMA RestIsDriven ==
    ASSUME ToolInv, writes # <<>>, writes' = Tail(writes), UNCHANGED <<phase, cur, queue>>,
           phase # "down", RecordingsAreDriven, DrivenInOrder, QuestionsAreOfFirst
    PROVE  /\ RecordingsAreDriven'
           /\ \A i \in 1..Len(writes') : ~IsAsking(writes'[i])
           /\ \A i \in 1..Len(writes') :
                 writes'[i].kind = "append" /\ writes'[i].event.type = "resume" => phase' = "resume"
<1>1. /\ Len(writes') = Len(writes) - 1 /\ Len(writes) \in Nat \ {0}
      /\ \A i \in 1..Len(writes') : i + 1 \in 1..Len(writes) /\ writes'[i] = writes[i + 1]
    BY RestOfWrites
<1>2. \A j \in 2..Len(writes) : j - 1 \in 1..Len(writes') /\ writes'[j - 1] = writes[j]
    BY RestWaits
<1>3. ASSUME NEW i \in 1..Len(writes'), NEW c \in Calls, IsRecordingOf(writes'[i], c)
      PROVE  \/ phase = "resume"
             \/ phase = "judge" /\ c = cur.call /\ queue = {}
             \/ \E j \in (i + 1)..Len(writes') : IsConclusionOf(writes'[j], c)
    <2>1. IsRecordingOf(writes[i + 1], c) /\ i + 1 \in 1..Len(writes)
        BY <1>1, <1>3
    <2>2. CASE \E j \in (i + 2)..Len(writes) : IsConclusionOf(writes[j], c)
        <3>1. PICK j \in (i + 2)..Len(writes) : IsConclusionOf(writes[j], c)
            BY <2>2
        <3>2. j \in 2..Len(writes) /\ j - 1 \in (i + 1)..Len(writes')
            BY <1>1, <1>3, <3>1
        <3> QED BY <1>2, <3>1, <3>2
    <2> QED BY <2>1, <2>2 DEF RecordingsAreDriven
<1>4. RecordingsAreDriven'
    BY <1>3 DEF RecordingsAreDriven
<1>5. \A i \in 1..Len(writes') : ~IsAsking(writes'[i])
    BY <1>1 DEF QuestionsAreOfFirst
<1> QED BY <1>1, <1>4, <1>5 DEF DrivenInOrder

\* A write that appends nothing.
LEMMA OtherWriteDrives ==
    ASSUME ToolInv, DriveInv, writes # <<>>, writes' = Tail(writes), phase # "down",
           Head(writes).kind # "append", UNCHANGED <<log, effects, phase, cur, queue>>
    PROVE  DriveInv'
<1>1. /\ \A c : ~IsConclusionOf(Head(writes), c)
      /\ ~IsAsking(Head(writes))
    BY DEF IsConclusionOf, IsAsking
<1>2. /\ OpenIsDriven /\ RecordingsAreDriven /\ DrivenInOrder /\ QuestionsAreOfFirst
      /\ EffectIsDealtWith
    BY DEF DriveInv
<1>3. \A c : Driven(c) => Driven(c)'
    BY <1>1, DrivenStays
<1>4. WillAsk => WillAsk'
    BY <1>1, RestWaits
<1>5. OpenIsDriven'
    BY <1>2, <1>3, <1>4 DEF OpenIsDriven
<1>6. RecordingsAreDriven' /\ DrivenInOrder' /\ QuestionsAreOfFirst'
    BY <1>2, RestIsDriven DEF DrivenInOrder, QuestionsAreOfFirst, IsFirstOpen
<1>7. EffectIsDealtWith'
    BY <1>2, <1>3 DEF EffectIsDealtWith
<1> QED BY <1>5, <1>6, <1>7 DEF DriveInv

\* Appending an event.
LEMMA AppendEventDrives ==
    ASSUME ToolInv, DriveInv, AppendEvent
    PROVE  DriveInv'
<1>1. PICK e \in LoggedEvents : e = Head(writes).event
    BY AppendEventLog
<1>2. /\ log \in Logs /\ GoesOn(log) /\ log' = Append(log, e)
      /\ \A d : Called(log', d) <=> Called(log, d) \/ (e.type = "tool_call" /\ e.call = d)
      /\ \A d : Closed(log', d) <=>
            Closed(log, d) \/ (e.type = "tool_result" /\ e.call = d /\ Called(log, d))
      /\ \A d : Called(log, d) => FirstCall(log', d) = FirstCall(log, d)
    BY <1>1, AppendEventLog
<1>3. /\ writes # <<>> /\ writes' = Tail(writes) /\ phase # "down"
      /\ UNCHANGED <<effects, phase, cur, queue>> /\ Head(writes).kind = "append"
    BY DEF AppendEvent
<1>4. /\ OpenIsDriven /\ RecordingsAreDriven /\ DrivenInOrder /\ QuestionsAreOfFirst
      /\ EffectIsDealtWith
    BY DEF DriveInv
<1>5. Head(writes) = writes[1] /\ 1 \in 1..Len(writes) /\ Len(writes) \in Nat
    BY <1>3, RestOfWrites
<1>6. /\ \A c : IsConclusionOf(Head(writes), c) <=> e.type = "tool_result" /\ e.call = c
      /\ \A c : IsRecordingOf(Head(writes), c) <=> e.type = "tool_call" /\ e.call = c
      /\ IsAsking(Head(writes)) <=> e.type = "interrupt"
      /\ e.type = "resume" => phase = "resume"
    BY <1>1, <1>3, <1>4, <1>5 DEF IsConclusionOf, IsRecordingOf, IsAsking, DrivenInOrder
<1>7. /\ e.type = "resume" => ~HasPending(log')
      /\ e.type # "resume" /\ HasPending(log) =>
            HasPending(log') /\ Pending(log') = Pending(log)
      /\ e.type # "interrupt" /\ ~HasPending(log) => ~HasPending(log')
      /\ e.type = "interrupt" /\ ~HasPending(log) => HasPending(log') /\ Pending(log') = e
    BY <1>2, AppendPending
<1>8. ASSUME NEW c, Called(log, c), ~Closed(log', c), Driven(c)
      PROVE  Driven(c)'
    BY <1>2, <1>3, <1>6, <1>8, DrivenStays
<1>9. ASSUME phase \in {"drive", "judge", "effect", "idle"}, NEW c \in Calls, Open(log', c)
      PROVE  Driven(c)' \/ HasPending(log') \/ WillAsk'
    <2>1. CASE Called(log, c)
        <3>1. Open(log, c) /\ ~Closed(log', c)
            BY <1>2, <1>9, <2>1 DEF Open
        <3>2. Driven(c) \/ HasPending(log) \/ WillAsk
            BY <1>4, <1>9, <3>1 DEF OpenIsDriven
        <3>3. CASE Driven(c)
            BY <1>8, <2>1, <3>1, <3>3
        <3>4. CASE HasPending(log)
            BY <1>6, <1>7, <1>9, <3>4
        <3>5. CASE WillAsk
            BY <1>3, <1>6, <1>7, <3>5, RestWaits
        <3> QED BY <3>2, <3>3, <3>4, <3>5
    <2>2. CASE ~Called(log, c)
        <3>1. IsRecordingOf(writes[1], c)
            BY <1>2, <1>5, <1>6, <1>9, <2>2 DEF Open
        <3>2. \/ phase = "judge" /\ c = cur.call
              \/ \E j \in 2..Len(writes) : IsConclusionOf(writes[j], c)
            BY <1>4, <1>5, <1>9, <3>1 DEF RecordingsAreDriven
        <3>3. CASE phase = "judge" /\ c = cur.call
            BY <1>3, <3>3 DEF Driven, InHand
        <3>4. CASE \E j \in 2..Len(writes) : IsConclusionOf(writes[j], c)
            <4>1. WillConclude(c)'
                BY <1>3, <3>4, RestWaits DEF WillConclude
            <4> QED BY <4>1 DEF Driven
        <3> QED BY <3>2, <3>3, <3>4
    <2> QED BY <2>1, <2>2
<1>10. OpenIsDriven'
    BY <1>3, <1>9 DEF OpenIsDriven
<1>11. /\ RecordingsAreDriven'
       /\ \A i \in 1..Len(writes') : ~IsAsking(writes'[i])
       /\ \A i \in 1..Len(writes') :
             writes'[i].kind = "append" /\ writes'[i].event.type = "resume" => phase' = "resume"
    BY <1>3, <1>4, RestIsDriven
<1>12. ASSUME phase \in {"judge", "effect"}, Called(log', cur.call), NEW d \in queue
       PROVE  FirstCall(log', cur.call) <= FirstCall(log', d)
    <2>1. Called(log, d)
        BY <1>12 DEF ToolInv, Typed
    <2>2. CASE Called(log, cur.call)
        BY <1>2, <1>4, <1>12, <2>1, <2>2 DEF DrivenInOrder
    <2>3. CASE ~Called(log, cur.call)
        <3>1. IsRecordingOf(writes[1], cur.call) /\ cur.call \in Calls
            BY <1>2, <1>5, <1>6, <1>12, <2>3 DEF LoggedEvents
        <3>2. phase = "judge" /\ Len(writes) = 1
            BY <1>3, <1>12, <2>3, OnlyOneToWrite DEF ToolInv, IntentPrecedesEffect
        <3>3. queue = {}
            BY <1>4, <1>5, <3>1, <3>2 DEF RecordingsAreDriven
        <3> QED BY <1>12, <3>3
    <2> QED BY <2>2, <2>3
<1>13. DrivenInOrder'
    BY <1>3, <1>4, <1>11, <1>12 DEF DrivenInOrder
<1>14. HasPending(log) => Called(log, Pending(log).call)
    BY PendingIsCalled
<1>15. ASSUME HasPending(log') PROVE IsFirstOpen(Pending(log).call)'
    <2>1. CASE HasPending(log)
        <3>1. Pending(log') = Pending(log)
            BY <1>7, <1>15, <2>1
        <3>2. PICK p \in Calls : p = Pending(log).call
            BY <2>1, PendingIsCalled
        <3>3. IsFirstOpen(p)'
            BY <1>4, <1>14, <2>1, <3>2, FirstOpenStays DEF QuestionsAreOfFirst
        <3> QED BY <3>1, <3>2, <3>3 DEF IsFirstOpen
    <2>2. CASE ~HasPending(log)
        <3>1. e.type = "interrupt" /\ Pending(log') = e
            BY <1>7, <1>15, <2>2
        <3>2. Called(log, e.call) /\ IsFirstOpen(e.call)
            BY <1>1, <1>4, <1>5, <1>6, <3>1 DEF ToolInv, QuestionsAreOfCalls, QuestionsAreOfFirst
        <3>3. PICK p : p = e.call
            OBVIOUS
        <3>4. IsFirstOpen(p)'
            BY <3>2, <3>3, FirstOpenStays
        <3> QED BY <3>1, <3>3, <3>4 DEF IsFirstOpen
    <2> QED BY <2>1, <2>2
<1>16. QuestionsAreOfFirst'
    BY <1>11, <1>15 DEF QuestionsAreOfFirst
<1>17. ASSUME HasPending(log'), NEW p, p = Pending(log').call, Open(log', p), effects[p] # <<>>
       PROVE  phase \in {"down", "resume"} \/ Driven(p)'
    <2>1. CASE HasPending(log)
        <3>1. p = Pending(log).call /\ Called(log, p)
            BY <1>7, <1>14, <1>17, <2>1
        <3>2. Open(log, p) /\ ~Closed(log', p)
            BY <1>2, <1>17, <3>1 DEF Open
        <3> QED BY <1>4, <1>8, <1>17, <2>1, <3>1, <3>2 DEF EffectIsDealtWith
    <2>2. CASE ~HasPending(log)
        <3>1. e.type = "interrupt" /\ p = e.call
            BY <1>7, <1>17, <2>2
        <3>2. effects[e.call] = <<>>
            BY <1>1, <1>4, <1>5, <1>6, <3>1 DEF QuestionsAreOfFirst
        <3> QED BY <1>17, <3>1, <3>2
    <2> QED BY <2>1, <2>2
<1>18. EffectIsDealtWith'
    BY <1>3, <1>17 DEF EffectIsDealtWith
<1> QED BY <1>10, <1>11, <1>13, <1>16, <1>18 DEF DriveInv

\* A step that leaves the log and asks nothing leaves the questions as they are.
LEMMA NoQuestionAsked ==
    ASSUME QuestionsAreOfFirst, log' = log, \A i \in 1..Len(writes') : ~IsAsking(writes'[i])
    PROVE  QuestionsAreOfFirst'
BY DEF QuestionsAreOfFirst, IsFirstOpen

\* The gate and the row decide about the call in hand; at the gate the rest of
\* the open calls is left where it is.
LEMMA JudgedDrives ==
    ASSUME ToolInv, GateInv, DriveInv, NEW o \in Outcomes(cur), Judged(o)
    PROVE  DriveInv'
<1> DEFINE asking == Appending(InterruptEvent(cur.call, InterruptCount(log)))
<1>1. /\ cur \in Requests
      /\ Called(log, cur.call) /\ ~Closed(log, cur.call)
      /\ ToolOf(log, cur.call) = cur.tool
      /\ phase = "judge" /\ writes = <<>>
      /\ \/ o = "run" /\ phase' = "effect"
         \/ o # "run" /\ phase' = "drive"
      /\ o = "asked" => /\ GateOutcome(cur) = "asked" /\ queue' = {}
                        /\ \/ writes' = <<>> /\ HasPending(log)
                           \/ ~HasPending(log) /\ writes' = <<asking>>
      /\ o = "run" => writes' = <<>> \/ writes' = <<Insert("pending", Actual(cur))>>
      /\ o \notin {"run", "asked"} =>
            \/ writes' = <<Reporting, Concluding(cur, "rejected")>>
            \/ writes' = <<Reporting, Concluding(cur, "unknown"), Update("unknown")>>
            \/ writes' = <<Concluding(cur, "executed"), Update("executed")>>
      /\ o # "asked" => queue' = queue
      /\ UNCHANGED <<log, effects, cur>>
    BY JudgedStep
<1>2. /\ OpenIsDriven /\ DrivenInOrder /\ QuestionsAreOfFirst /\ EffectIsDealtWith
      /\ log \in Logs /\ cur.call \in Calls
    BY <1>1 DEF DriveInv, ToolInv, Typed, Requests
<1>3. Open(log, cur.call)
    BY <1>1 DEF Open
<1>4. \A i \in 1..Len(writes') :
          /\ \A c : ~IsRecordingOf(writes'[i], c)
          /\ ~(writes'[i].kind = "append" /\ writes'[i].event.type = "resume")
          /\ IsAsking(writes'[i]) => o = "asked" /\ ~HasPending(log) /\ writes' = <<asking>>
    <2>1. CASE writes' = <<>>
        BY <2>1
    <2>2. CASE writes' = <<asking>>
        BY <1>1, <2>2, WhatWritesDo DEF InterruptEvent, IsRecordingOf, IsAsking
    <2>3. CASE o \notin {"asked"} /\ writes' # <<>>
        BY <1>1, <2>3, WhatWritesDo DEF IsRecordingOf, IsAsking
    <2> QED BY <1>1, <2>1, <2>2, <2>3
<1>5. asking.kind = "append" /\ asking.event.type = "interrupt" /\ asking.event.call = cur.call
    BY WhatWritesDo DEF InterruptEvent
<1> HIDE DEF asking
<1>6. o \notin {"run", "asked"} => WillConclude(cur.call)'
    <2> SUFFICES ASSUME o \notin {"run", "asked"}
                 PROVE  \E i \in 1..Len(writes') : IsConclusionOf(writes'[i], cur.call)
        BY <1>1 DEF WillConclude
    <2>1. CASE writes' = <<Reporting, Concluding(cur, "rejected")>>
        <3>1. Len(writes') = 2 /\ writes'[2] = Concluding(cur, "rejected")
            BY <2>1
        <3> QED BY <3>1, WhatWritesDo DEF IsConclusionOf
    <2>2. CASE writes' = <<Reporting, Concluding(cur, "unknown"), Update("unknown")>>
        <3>1. Len(writes') = 3 /\ writes'[2] = Concluding(cur, "unknown")
            BY <2>2
        <3> QED BY <3>1, WhatWritesDo DEF IsConclusionOf
    <2>3. CASE writes' = <<Concluding(cur, "executed"), Update("executed")>>
        <3>1. Len(writes') = 2 /\ writes'[1] = Concluding(cur, "executed")
            BY <2>3
        <3> QED BY <3>1, WhatWritesDo DEF IsConclusionOf
    <2> QED BY <1>1, <2>1, <2>2, <2>3
<1>7. ASSUME NEW c, Driven(c), o # "asked" PROVE Driven(c)'
    <2>1. c \in queue \/ c = cur.call
        BY <1>1, <1>7 DEF Driven, InHand, WillConclude
    <2>2. c = cur.call /\ o = "run" => InHand(c)'
        BY <1>1 DEF InHand
    <2> QED BY <1>1, <1>6, <1>7, <2>1, <2>2 DEF Driven
<1>8. ~WillAsk
    BY <1>1 DEF WillAsk
<1>9. \A c \in Calls : Open(log, c) => Driven(c) \/ HasPending(log)
    BY <1>1, <1>2, <1>8 DEF OpenIsDriven
<1>10. OpenIsDriven'
    <2>1. CASE o # "asked"
        BY <1>1, <1>7, <1>9, <2>1 DEF OpenIsDriven
    <2>2. CASE o = "asked"
        <3>1. HasPending(log) \/ WillAsk'
            <4>1. ASSUME writes' = <<asking>> PROVE WillAsk'
                <5>1. Len(writes') = 1 /\ writes'[1] = asking
                    BY <4>1
                <5> QED BY <1>5, <5>1 DEF WillAsk, IsAsking
            <4> QED BY <1>1, <2>2, <4>1
        <3> QED BY <1>1, <3>1 DEF OpenIsDriven
    <2> QED BY <2>1, <2>2
<1>11. RecordingsAreDriven'
    BY <1>4 DEF RecordingsAreDriven
<1>12. DrivenInOrder'
    BY <1>1, <1>2, <1>4 DEF DrivenInOrder
<1>13. ASSUME o = "asked" PROVE effects[cur.call] = <<>>
    BY <1>1, <1>13, AskedHasNoEffect
<1>14. QuestionsAreOfFirst'
    <2>1. (HasPending(log) => IsFirstOpen(Pending(log).call))'
        BY <1>1, <1>2 DEF QuestionsAreOfFirst, IsFirstOpen
    <2>2. ASSUME NEW i \in 1..Len(writes'), IsAsking(writes'[i])
          PROVE  /\ phase' = "drive" /\ Len(writes') = 1
                 /\ \A d \in Calls : Open(log, d) =>
                        FirstCall(log, writes'[i].event.call) <= FirstCall(log, d)
                 /\ effects[writes'[i].event.call] = <<>>
        <3>1. o = "asked" /\ ~HasPending(log) /\ writes' = <<asking>>
            BY <1>4, <2>2
        <3>2. Len(writes') = 1 /\ writes'[i] = asking
            BY <3>1, <2>2
        <3>3. ASSUME NEW d \in Calls, Open(log, d)
              PROVE  FirstCall(log, cur.call) <= FirstCall(log, d)
            <4>1. d \in queue \/ d = cur.call
                BY <1>1, <1>9, <3>1, <3>3 DEF Driven, InHand, WillConclude
            <4>2. FirstCall(log, cur.call) \in Nat
                BY <1>1, <1>2, FirstCallIs, AllLive
            <4> QED BY <1>1, <1>2, <4>1, <4>2 DEF DrivenInOrder
        <3> QED BY <1>1, <1>5, <1>13, <3>1, <3>2, <3>3
    <2>3. \A i \in 1..Len(writes') : IsAsking(writes'[i]) =>
              /\ phase' = "drive" /\ Len(writes') = 1
              /\ IsFirstOpen(writes[i].event.call)'
              /\ effects'[writes'[i].event.call] = <<>>
        BY <1>1, <2>2 DEF IsFirstOpen
    <2> QED BY <2>1, <2>3 DEF QuestionsAreOfFirst
<1>15. ASSUME HasPending(log), NEW p, p = Pending(log).call, Open(log, p), effects[p] # <<>>
       PROVE  Driven(p)'
    <2>1. Driven(p)
        BY <1>1, <1>2, <1>15 DEF EffectIsDealtWith
    <2>2. CASE o # "asked"
        BY <1>7, <2>1, <2>2
    <2>3. CASE o = "asked"
        <3>1. p # cur.call /\ p \in queue
            BY <1>1, <1>13, <1>15, <2>1, <2>3 DEF Driven, InHand, WillConclude
        <3>2. FirstCall(log, p) <= FirstCall(log, cur.call)
            BY <1>2, <1>3, <1>15 DEF QuestionsAreOfFirst, IsFirstOpen
        <3>3. FirstCall(log, cur.call) <= FirstCall(log, p)
            BY <1>1, <1>2, <3>1 DEF DrivenInOrder
        <3>4. FirstCall(log, p) \in Nat /\ FirstCall(log, cur.call) \in Nat
            BY <1>1, <1>2, <1>15, FirstCallIs, AllLive DEF Open
        <3> QED BY <1>1, <1>2, <1>15, <3>1, <3>2, <3>3, <3>4, FirstCallsDiffer DEF Open
    <2> QED BY <2>2, <2>3
<1>16. EffectIsDealtWith'
    BY <1>1, <1>15 DEF EffectIsDealtWith
<1> QED BY <1>10, <1>11, <1>12, <1>14, <1>16 DEF DriveInv

\* A tool that ends leaves the conclusion of its call to be written.
LEMMA ToolEndDrives ==
    ASSUME ToolInv, DriveInv, ToolReturns \/ _handle_tool_failure
    PROVE  DriveInv'
<1>1. /\ phase = "effect" /\ writes = <<>> /\ phase' = "drive"
      /\ UNCHANGED <<log, cur, queue>> /\ cur \in Requests
      /\ \E after : effects' = [effects EXCEPT ![cur.call] = after]
    BY ToolEnd
<1>2. PICK s \in Statuses, w \in WriteItems :
          /\ IsRowWrite(w)
          /\ \/ writes' = <<Concluding(cur, s), w>>
             \/ writes' = <<Reporting, Concluding(cur, s), w>>
    BY ToolEnd
<1>3. /\ OpenIsDriven /\ DrivenInOrder /\ QuestionsAreOfFirst /\ EffectIsDealtWith
      /\ effects \in [Calls -> Seq(Args)]
    BY DEF DriveInv, ToolInv, Typed
<1>4. \A i \in 1..Len(writes') :
          /\ \A c : ~IsRecordingOf(writes'[i], c)
          /\ ~(writes'[i].kind = "append" /\ writes'[i].event.type = "resume")
          /\ ~IsAsking(writes'[i])
    <2>1. \A i \in 1..Len(writes') : writes'[i] \in {Reporting, Concluding(cur, s), w}
        BY <1>2
    <2>2. \A v \in {Reporting, Concluding(cur, s), w} :
              v.kind = "append" => v.event.type \in {"error", "tool_result"}
        BY <1>2, WhatWritesDo DEF IsRowWrite
    <2> QED BY <2>1, <2>2 DEF IsRecordingOf, IsAsking
<1>5. WillConclude(cur.call)'
    <2>1. \E i \in 1..Len(writes') : writes'[i] = Concluding(cur, s)
        <3>1. CASE writes' = <<Concluding(cur, s), w>>
            <4>1. Len(writes') = 2 /\ writes'[1] = Concluding(cur, s)
                BY <3>1
            <4> QED BY <4>1
        <3>2. CASE writes' = <<Reporting, Concluding(cur, s), w>>
            <4>1. Len(writes') = 3 /\ writes'[2] = Concluding(cur, s)
                BY <3>2
            <4> QED BY <4>1
        <3> QED BY <1>2, <3>1, <3>2
    <2>2. \E i \in 1..Len(writes') : IsConclusionOf(writes'[i], cur.call)
        BY <2>1, WhatWritesDo DEF IsConclusionOf
    <2> QED BY <1>1, <2>2 DEF WillConclude
<1>6. ASSUME NEW c, Driven(c) PROVE Driven(c)'
    <2>1. c \in queue \/ c = cur.call
        BY <1>1, <1>6 DEF Driven, InHand, WillConclude
    <2> QED BY <1>1, <1>5, <2>1 DEF Driven
<1>7. ~WillAsk
    BY <1>1 DEF WillAsk
<1>8. OpenIsDriven'
    BY <1>1, <1>3, <1>6, <1>7 DEF OpenIsDriven
<1>9. RecordingsAreDriven' /\ DrivenInOrder'
    BY <1>1, <1>3, <1>4 DEF RecordingsAreDriven, DrivenInOrder
<1>10. QuestionsAreOfFirst'
    BY <1>1, <1>3, <1>4, NoQuestionAsked
<1>11. ASSUME HasPending(log), NEW p \in Calls, p = Pending(log).call, Open(log, p),
              effects'[p] # <<>>
       PROVE  Driven(p)'
    <2>1. CASE p = cur.call
        BY <1>5, <1>1, <2>1 DEF Driven
    <2>2. CASE p # cur.call
        <3>1. effects[p] # <<>>
            BY <1>1, <1>3, <1>11, <2>2
        <3> QED BY <1>1, <1>3, <1>6, <1>11, <3>1 DEF EffectIsDealtWith
    <2> QED BY <2>1, <2>2
<1>12. EffectIsDealtWith'
    BY <1>1, <1>11, PendingIsCalled DEF EffectIsDealtWith
<1> QED BY <1>8, <1>9, <1>10, <1>12 DEF DriveInv

\* The next of the open calls is taken up.
LEMMA DriveNextDrives ==
    ASSUME ToolInv, DriveInv, DriveNext
    PROVE  DriveInv'
<1>1. PICK c \in queue, k \in Requests :
          /\ Called(log, c) /\ k.call = c /\ execute(k) /\ queue' = queue \ {c}
          /\ \A d \in queue : FirstCall(log, c) <= FirstCall(log, d)
    BY DrivenRequest
<1>2. phase = "drive" /\ writes = <<>> /\ UNCHANGED <<log, effects>>
    BY DEF DriveNext
<1>3. OpenIsDriven /\ DrivenInOrder /\ QuestionsAreOfFirst /\ EffectIsDealtWith
    BY DEF DriveInv
<1>4. /\ \A i \in 1..Len(writes') :
            /\ ~IsAsking(writes'[i])
            /\ ~(writes'[i].kind = "append" /\ writes'[i].event.type = "resume")
            /\ \A d : IsRecordingOf(writes'[i], d) =>
                  /\ d = k.call
                  /\ \/ phase' = "judge" /\ cur' = k /\ ~Called(log, d)
                     \/ \E j \in (i + 1)..Len(writes') : IsConclusionOf(writes'[j], d)
      /\ phase' \in {"drive", "judge"}
      /\ phase' = "judge" => cur' = k
      /\ ~Closed(log, k.call) =>
            \/ phase' = "judge" /\ cur' = k
            \/ \E i \in 1..Len(writes') : IsConclusionOf(writes'[i], k.call)
    BY <1>1, ExecuteDrives
<1>5. ASSUME NEW d, Open(log, d), Driven(d) PROVE Driven(d)'
    <2>1. d \in queue
        BY <1>2, <1>5 DEF Driven, InHand, WillConclude
    <2>2. CASE d = c
        <3>1. ~Closed(log, c)
            BY <1>5, <2>2 DEF Open
        <3> QED BY <1>1, <1>4, <2>2, <3>1 DEF Driven, InHand, WillConclude
    <2> QED BY <1>1, <2>1, <2>2 DEF Driven
<1>6. ~WillAsk
    BY <1>2 DEF WillAsk
<1>7. OpenIsDriven'
    BY <1>2, <1>3, <1>5, <1>6 DEF OpenIsDriven
<1>8. RecordingsAreDriven'
    BY <1>1, <1>4 DEF RecordingsAreDriven
<1>9. DrivenInOrder'
    BY <1>1, <1>2, <1>4 DEF DrivenInOrder
<1>10. QuestionsAreOfFirst'
    BY <1>2, <1>3, <1>4, NoQuestionAsked
<1>11. EffectIsDealtWith'
    BY <1>2, <1>3, <1>5 DEF EffectIsDealtWith
<1> QED BY <1>7, <1>8, <1>9, <1>10, <1>11 DEF DriveInv

\* A request of the client comes when all that is open waits for a human.
LEMMA AskedDrives ==
    ASSUME ToolInv, DriveInv, NEW c \in Originals, NEW t \in Tools, NEW a \in Args,
           handle_tools_call(c, t, a)
    PROVE  DriveInv'
<1> DEFINE k == Request(c, t, a)
<1>1. /\ execute(k) /\ phase = "idle" /\ writes = <<>> /\ ~Called(log, c) /\ queue' = queue
      /\ UNCHANGED <<log, effects>>
    BY DEF handle_tools_call, Idle, NextId, durable
<1>2. k \in Requests /\ k.call = c
    BY BoundsAreNat, OriginalsAreCalls DEF Request, Requests, Originals, Calls
<1> HIDE DEF k
<1>3. OpenIsDriven /\ DrivenInOrder /\ QuestionsAreOfFirst /\ EffectIsDealtWith
    BY DEF DriveInv
<1>4. queue = {} /\ queue' = {}
    BY <1>1, <1>3 DEF DrivenInOrder
<1>5. /\ \A i \in 1..Len(writes') :
            /\ ~IsAsking(writes'[i])
            /\ ~(writes'[i].kind = "append" /\ writes'[i].event.type = "resume")
            /\ \A d : IsRecordingOf(writes'[i], d) =>
                  /\ d = k.call
                  /\ \/ phase' = "judge" /\ cur' = k
                     \/ \E j \in (i + 1)..Len(writes') : IsConclusionOf(writes'[j], d)
      /\ phase' \in {"drive", "judge"}
    BY <1>1, <1>2, ExecuteDrives
<1>6. \A d : ~Driven(d)
    BY <1>1, <1>4 DEF Driven, InHand, WillConclude
<1>7. ~WillAsk
    BY <1>1 DEF WillAsk
<1>8. OpenIsDriven'
    BY <1>1, <1>3, <1>6, <1>7 DEF OpenIsDriven
<1>9. RecordingsAreDriven'
    BY <1>4, <1>5 DEF RecordingsAreDriven
<1>10. DrivenInOrder'
    BY <1>4, <1>5 DEF DrivenInOrder
<1>11. QuestionsAreOfFirst'
    BY <1>1, <1>3, <1>5, NoQuestionAsked
<1>12. EffectIsDealtWith'
    BY <1>1, <1>3, <1>6 DEF EffectIsDealtWith
<1> QED BY <1>8, <1>9, <1>10, <1>11, <1>12 DEF DriveInv

\* After an answer all that is open is driven again.
LEMMA AnsweredDrives ==
    ASSUME ToolInv, DriveInv, NEW d \in Decisions, NEW a \in Args, NEW s \in Scopes,
           _handle_approve(d, a, s)
    PROVE  DriveInv'
<1>1. decide(d, a, s) /\ phase = "idle" /\ phase' = "resume"
    BY DEF _handle_approve, Idle
<1>2. /\ UNCHANGED <<log, effects, queue>>
      /\ Approving(d, a, s).kind = "append" /\ Approving(d, a, s).event.type = "approval"
      /\ Resuming.kind = "append" /\ Resuming.event.type = "resume"
      /\ \/ writes' = <<Concluding(Asked, "rejected"), Approving(d, a, s), Resuming>>
         \/ writes' = <<Concluding(Asked, "superseded"), Rerecording(a),
                        Approving(d, a, s), Resuming>>
         \/ writes' = <<Approving(d, a, s), Resuming>>
    BY <1>1, DecideIs
<1>3. OpenIsDriven /\ DrivenInOrder /\ QuestionsAreOfFirst /\ EffectIsDealtWith
    BY DEF DriveInv
<1>4. \A i \in 1..Len(writes') : ~IsAsking(writes'[i])
    <2>1. \A i \in 1..Len(writes') :
              writes'[i] \in {Concluding(Asked, "rejected"), Concluding(Asked, "superseded"),
                              Rerecording(a), Approving(d, a, s), Resuming}
        BY <1>2
    <2>2. \A w \in {Concluding(Asked, "rejected"), Concluding(Asked, "superseded"),
                    Rerecording(a), Approving(d, a, s), Resuming} : ~IsAsking(w)
        BY <1>2, WhatWritesDo DEF IsAsking, Rerecording
    <2> QED BY <2>1, <2>2
<1>5. OpenIsDriven' /\ RecordingsAreDriven' /\ DrivenInOrder' /\ EffectIsDealtWith'
    BY <1>1 DEF OpenIsDriven, RecordingsAreDriven, DrivenInOrder, EffectIsDealtWith
<1>6. QuestionsAreOfFirst'
    BY <1>2, <1>3, <1>4, NoQuestionAsked
<1> QED BY <1>5, <1>6 DEF DriveInv

\* Recovery begins with all that is open.
LEMMA ResumeDrives ==
    ASSUME ToolInv, DriveInv, resume_open_calls
    PROVE  DriveInv'
<1>1. /\ writes = <<>> /\ writes' = <<>> /\ phase' = "drive" /\ queue' = OpenCalls(log)
      /\ UNCHANGED <<log, effects>>
    BY DEF resume_open_calls
<1>2. \A c \in Calls : Open(log, c) => c \in queue'
    BY <1>1, OpenCallsAre DEF ToolInv, Typed
<1>3. OpenIsDriven'
    BY <1>1, <1>2 DEF OpenIsDriven, Driven
<1>4. RecordingsAreDriven' /\ DrivenInOrder'
    BY <1>1 DEF RecordingsAreDriven, DrivenInOrder
<1>5. QuestionsAreOfFirst'
    BY <1>1, NoQuestionAsked DEF DriveInv
<1>6. EffectIsDealtWith'
    BY <1>1, <1>2, PendingIsCalled DEF EffectIsDealtWith, Driven
<1> QED BY <1>3, <1>4, <1>5, <1>6 DEF DriveInv

\* The end of a handler, a start, and a kill.
LEMMA TurnsDrive ==
    ASSUME ToolInv, DriveInv, Finish \/ Start \/ Crash
    PROVE  DriveInv'
<1>1. OpenIsDriven /\ DrivenInOrder /\ QuestionsAreOfFirst /\ EffectIsDealtWith
    BY DEF DriveInv
<1>2. UNCHANGED <<log, effects>> /\ phase' \in {"idle", "resume", "down"}
    BY DEF Finish, Start, Crash, durable, PhaseAfterStart
<1>3. \A i \in 1..Len(writes') :
          /\ ~IsAsking(writes'[i])
          /\ \A c : ~IsRecordingOf(writes'[i], c)
          /\ ~(writes'[i].kind = "append" /\ writes'[i].event.type = "resume")
    <2> DEFINE Other == {Refresh, Provision("run"), Provision("branch"), Appending(UserMessage)}
    <2>1. \A w \in Other :
              /\ ~IsAsking(w) /\ \A c : ~IsRecordingOf(w, c)
              /\ ~(w.kind = "append" /\ w.event.type = "resume")
        BY WhatWritesDo DEF IsAsking, IsRecordingOf, Provision, UserMessage
    <2>2. writes' \in Seq(Other)
        <3>1. /\ Refresh \in Other /\ Provision("run") \in Other /\ Provision("branch") \in Other
              /\ Appending(UserMessage) \in Other
            OBVIOUS
        <3> HIDE DEF Other
        <3>2. CASE Finish
            BY <3>1, <3>2, ShortLists DEF Finish, EndOfHandler
        <3>3. CASE Crash
            BY <3>3 DEF Crash
        <3>4. CASE Start
            <4> DEFINE r == IF "run" \in provisioned THEN <<>> ELSE <<Provision("run")>>
                       b == IF "branch" \in provisioned THEN <<>> ELSE <<Provision("branch")>>
                       u == IF log = <<>> THEN <<Appending(UserMessage)>> ELSE <<>>
            <4>1. writes' = r \o b \o u
                BY <3>4 DEF Start, ensure_run
            <4>2. r \in Seq(Other) /\ b \in Seq(Other) /\ u \in Seq(Other)
                BY <3>1, ShortLists
            <4> HIDE DEF r, b, u
            <4> QED BY <4>1, <4>2, ConcatProperties
        <3> QED BY <3>2, <3>3, <3>4
    <2> HIDE DEF Other
    <2> QED BY <2>1, <2>2, ElementOfSeq
<1>4. RecordingsAreDriven'
    BY <1>3 DEF RecordingsAreDriven
<1>5. QuestionsAreOfFirst'
    BY <1>1, <1>2, <1>3, NoQuestionAsked
<1>6. CASE Finish
    <2>1. phase = "drive" /\ writes = <<>> /\ queue = {} /\ queue' = {} /\ phase' = "idle"
        BY <1>6 DEF Finish
    <2>2. ~WillAsk /\ \A c : ~Driven(c)
        BY <2>1 DEF WillAsk, Driven, InHand, WillConclude
    <2>3. OpenIsDriven' /\ EffectIsDealtWith'
        BY <1>1, <1>2, <2>1, <2>2 DEF OpenIsDriven, EffectIsDealtWith
    <2>4. DrivenInOrder'
        BY <1>3, <2>1 DEF DrivenInOrder
    <2> QED BY <1>4, <1>5, <2>3, <2>4 DEF DriveInv
<1>7. CASE Start \/ Crash
    <2>1. phase' = "resume" \/ (phase' = "down" /\ writes' = <<>> /\ queue' = {})
        BY <1>7 DEF Start, Crash, PhaseAfterStart
    <2>2. OpenIsDriven' /\ EffectIsDealtWith' /\ DrivenInOrder'
        BY <1>3, <2>1 DEF OpenIsDriven, EffectIsDealtWith, DrivenInOrder
    <2> QED BY <1>4, <1>5, <2>2 DEF DriveInv
<1> QED BY <1>6, <1>7

\* Neither the clock nor a stuttering step touches what it reads.
LEMMA RestDrives ==
    ASSUME DriveInv, UNCHANGED <<log, effects, phase, writes, cur, queue>>
    PROVE  DriveInv'
BY DEF DriveInv, OpenIsDriven, RecordingsAreDriven, DrivenInOrder, QuestionsAreOfFirst,
       EffectIsDealtWith, Driven, InHand, WillConclude, WillAsk, IsFirstOpen

LEMMA DriveBegins == Init => DriveInv
<1> SUFFICES ASSUME Init PROVE DriveInv
    OBVIOUS
<1>1. log = <<>> /\ phase = "down" /\ writes = <<>> /\ queue = {}
    BY DEF Init
<1>2. ~HasPending(log)
    BY <1>1 DEF HasPending, PendingInterrupts
<1> QED BY <1>1, <1>2 DEF DriveInv, OpenIsDriven, RecordingsAreDriven, DrivenInOrder,
        QuestionsAreOfFirst, EffectIsDealtWith

LEMMA DriveKeeps == ServerInv /\ DriveInv /\ [Next]_vars => DriveInv'
<1> SUFFICES ASSUME ServerInv, DriveInv, [Next]_vars PROVE DriveInv'
    OBVIOUS
<1> USE DEF ServerInv
<1>1. CASE AppendEvent
    BY <1>1, AppendEventDrives
<1>2. CASE WriteRow \/ RefreshStatus \/ WriteProvision
    <2>1. /\ writes # <<>> /\ writes' = Tail(writes) /\ phase # "down"
          /\ Head(writes).kind # "append" /\ UNCHANGED <<log, effects, phase, cur, queue>>
        BY <1>2 DEF WriteRow, RefreshStatus, WriteProvision, durable
    <2> QED BY <2>1, OtherWriteDrives
<1>3. CASE Judge
    BY <1>3, JudgedDrives DEF Judge
<1>4. CASE ToolReturns \/ _handle_tool_failure
    BY <1>4, ToolEndDrives
<1>5. CASE resume_open_calls
    BY <1>5, ResumeDrives
<1>6. CASE DriveNext
    BY <1>6, DriveNextDrives
<1>7. CASE Client
    BY <1>7, AskedDrives DEF Client
<1>8. CASE Human
    BY <1>8, AnsweredDrives DEF Human
<1>9. CASE Finish \/ Start \/ Crash
    BY <1>9, TurnsDrive
<1>10. CASE Clock \/ UNCHANGED vars
    <2>1. UNCHANGED <<log, effects, phase, writes, cur, queue>>
        BY <1>10 DEF Clock, TimePasses, durable, volatile, vars
    <2> QED BY <2>1, RestDrives
<1> QED BY <1>1, <1>2, <1>3, <1>4, <1>5, <1>6, <1>7, <1>8, <1>9, <1>10
        DEF Next, Server, Pipeline, Write

LEMMA DriveAlways == Spec => []DriveInv
BY DriveBegins, DriveKeeps, ServerAlways, PTL DEF Spec

\* While the server waits for requests, all that is open waits behind the
\* question to the human, which is about the first of it, and the call in
\* question has had no effect, however often the process was killed in the
\* middle of an answer or of a recovery.
THEOREM NoEffectBeforeApproval == Spec => []WaitingHasNoEffect
<1>1. ServerInv /\ DriveInv => WaitingHasNoEffect
    <2> SUFFICES ASSUME ServerInv, DriveInv, Idle PROVE WaitingHasNoEffect
        BY DEF WaitingHasNoEffect
    <2>1. phase = "idle" /\ writes = <<>> /\ queue = {}
        BY DEF Idle, DriveInv, DrivenInOrder
    <2>2. ~WillAsk /\ \A c : ~Driven(c)
        BY <2>1 DEF WillAsk, Driven, InHand, WillConclude
    <2>3. ASSUME NEW c \in Calls, Open(log, c)
          PROVE  /\ HasPending(log)
                 /\ FirstCall(log, Pending(log).call) <= FirstCall(log, c)
        BY <2>1, <2>2, <2>3 DEF DriveInv, OpenIsDriven, QuestionsAreOfFirst, IsFirstOpen
    <2> QED BY <2>1, <2>2, <2>3 DEF WaitingHasNoEffect, DriveInv, EffectIsDealtWith
<1> QED BY <1>1, ServerAlways, DriveAlways, PTL

-----------------------------------------------------------------------------
(* The server keeps the promise *)

LEMMA PromiseKeeps ==
    ASSUME TamperIsHarmless, ServerInv, DriveInv, PromiseInv, [Next]_vars
    PROVE  PromiseInv' /\ (Promise!Next \/ UNCHANGED Promise!promise)
<1>1. ToolInv /\ GateInv
    BY DEF ServerInv
<1>2. CASE AppendEvent
    BY <1>1, <1>2, AppendEventTells, AppendEventPromise
<1>3. CASE ToolReturns \/ _handle_tool_failure
    BY <1>1, <1>3, ToolEndTells, ToolEndPromise
<1>4. ASSUME UNCHANGED <<log, effects>>
      PROVE  Promise!Next \/ UNCHANGED Promise!promise
    BY <1>4, OthersPromise
<1>5. CASE WriteRow
    <2>1. UNCHANGED <<log, effects>>
        BY <1>5 DEF WriteRow
    <2> QED BY <1>1, <1>4, <1>5, <2>1, WriteRowTells
<1>6. CASE RefreshStatus \/ WriteProvision
    <2>1. /\ writes # <<>> /\ writes' = Tail(writes) /\ Head(writes).kind # "append"
          /\ UNCHANGED <<log, rows, effects, phase, cur>>
        BY <1>6 DEF RefreshStatus, WriteProvision, durable
    <2> QED BY <1>1, <1>4, <2>1, OtherWriteTells
<1>7. CASE Judge
    <2>1. UNCHANGED <<log, effects>>
        BY <1>7 DEF Judge, Judged
    <2> QED BY <1>1, <1>4, <1>7, <2>1, JudgedTells DEF Judge
<1>8. CASE DriveNext
    <2>1. UNCHANGED <<log, effects>>
        BY <1>8 DEF DriveNext
    <2> QED BY <1>1, <1>4, <1>8, <2>1, DriveNextTells
<1>9. CASE Client
    <2>1. PICK c \in Originals, t \in Tools, a \in Args : handle_tools_call(c, t, a)
        BY <1>9 DEF Client
    <2> DEFINE k == Request(c, t, a)
    <2>2. /\ execute(k) /\ ~Called(log, c) /\ UNCHANGED <<log, rows, effects>>
        BY <2>1 DEF handle_tools_call, NextId, durable
    <2>3. k \in Requests /\ k.call = c
        BY BoundsAreNat, OriginalsAreCalls DEF Request, Requests, Originals, Calls
    <2> HIDE DEF k
    <2> QED BY <1>1, <1>4, <2>2, <2>3, ExecuteTells
<1>10. CASE Human
    <2>1. PICK d \in Decisions, a \in Args, s \in Scopes : _handle_approve(d, a, s)
        BY <1>10 DEF Human
    <2>2. decide(d, a, s) /\ phase' = "resume" /\ UNCHANGED <<log, effects>>
        BY <2>1 DEF _handle_approve, decide
    <2>3. effects[Pending(log).call] = <<>>
        <3>1. /\ phase = "idle" /\ writes = <<>> /\ queue = {}
              /\ HasPending(log) /\ Open(log, Pending(log).call)
            BY <2>1 DEF _handle_approve, Decidable, HasCurrent, Idle, DriveInv, DrivenInOrder
        <3>2. ~Driven(Pending(log).call)
            BY <3>1 DEF Driven, InHand, WillConclude
        <3> QED BY <3>1, <3>2 DEF DriveInv, EffectIsDealtWith
    <2> QED BY <1>1, <1>4, <2>2, <2>3, DecideTells
<1>11. CASE resume_open_calls \/ Finish \/ Start \/ Crash
    <2>1. /\ UNCHANGED <<log, rows, effects>> /\ phase' # "effect"
          /\ \A i \in 1..Len(writes') : ~IsConclusion(writes'[i])
        <3>1. CASE resume_open_calls
            BY <3>1 DEF resume_open_calls
        <3>2. CASE Crash
            BY <3>2 DEF Crash, durable
        <3>3. CASE Finish
            BY <3>3, WhatWritesDo DEF Finish, EndOfHandler, durable, IsConclusion
        <3>4. CASE Start
            <4> DEFINE r == IF "run" \in provisioned THEN <<>> ELSE <<Provision("run")>>
                       b == IF "branch" \in provisioned THEN <<>> ELSE <<Provision("branch")>>
                       u == IF log = <<>> THEN <<Appending(UserMessage)>> ELSE <<>>
                       Other == {Provision("run"), Provision("branch"), Appending(UserMessage)}
            <4>1. /\ writes' = r \o b \o u /\ UNCHANGED <<log, rows, effects>>
                  /\ phase' # "effect"
                BY <3>4 DEF Start, ensure_run, durable, PhaseAfterStart
            <4>2. \A w \in Other : ~IsConclusion(w)
                BY WhatWritesDo DEF IsConclusion, Provision, UserMessage
            <4>3. /\ Provision("run") \in Other /\ Provision("branch") \in Other
                  /\ Appending(UserMessage) \in Other
                OBVIOUS
            <4> HIDE DEF Other
            <4>4. r \in Seq(Other) /\ b \in Seq(Other) /\ u \in Seq(Other)
                BY <4>3, ShortLists
            <4> HIDE DEF r, b, u
            <4>5. writes' \in Seq(Other)
                BY <4>1, <4>4, ConcatProperties
            <4> QED BY <4>1, <4>2, <4>5, ElementOfSeq
        <3> QED BY <1>11, <3>1, <3>2, <3>3, <3>4
    <2> QED BY <1>4, <2>1, DriverStepTells
<1>12. CASE Clock \/ UNCHANGED vars
    <2>1. UNCHANGED <<log, rows, effects, phase, writes, cur>>
        BY <1>12 DEF Clock, TimePasses, durable, volatile, vars
    <2> QED BY <1>4, <2>1, QuietTells
<1> QED BY <1>2, <1>3, <1>5, <1>6, <1>7, <1>8, <1>9, <1>10, <1>11, <1>12
        DEF Next, Server, Pipeline, Write

\* The server implements the promise of the executor: whatever the client
\* asks, the human answers and whenever the process is killed, each call is
\* recorded once, takes effect only while it is open and as often as its kind
\* allows, and its first conclusion is true of what happened outside.  Where the
\* tamper hook changes the arguments of a non-idempotent write, a gate must hold
\* them against what was approved; without one a retry finds the row of other
\* arguments than it asks for and is refused, although the effect took place.
THEOREM ServerKeepsPromise ==
    ASSUME TamperIsHarmless
    PROVE  Spec => KeepsPromise
<1>1. Init => PromiseInv /\ Promise!Init
    BY EmptyPromise DEF Init
<1>2. PromiseInv /\ ServerInv /\ DriveInv /\ [Next]_vars =>
          PromiseInv' /\ [Promise!Next]_(Promise!promise)
    BY PromiseKeeps
<1>3. KeepsPromise <=> Promise!Init /\ [][Promise!Next]_(Promise!promise)
    BY DEF KeepsPromise, Promise!Spec
<1> QED BY <1>1, <1>2, <1>3, ServerAlways, DriveAlways, PTL DEF Spec

-----------------------------------------------------------------------------
(* A question can be answered unless an answer was cut short               *)

\* Approvals are never lost, and only an approval adds one.
LEMMA ApprovalsStay ==
    ASSUME NEW l \in Logs, NEW e \in LoggedEvents, GoesOn(l), NEW c, NEW t
    PROVE  /\ Exact(l, c) \subseteq Exact(Append(l, e), c)
           /\ Reusable(l, t) \subseteq Reusable(Append(l, e), t)
           /\ e.type # "approval" =>
                 /\ Exact(Append(l, e), c) = Exact(l, c)
                 /\ Reusable(Append(l, e), t) = Reusable(l, t)
<1>1. /\ Len(Append(l, e)) = Len(l) + 1 /\ Len(l) \in Nat
      /\ \A i \in 1..Len(l) : Append(l, e)[i] = l[i]
      /\ Append(l, e)[Len(l) + 1] = e
    BY AppendIs, AllLive
<1>2. /\ 1..Len(l) \subseteq 1..Len(Append(l, e))
      /\ \A i \in 1..Len(Append(l, e)) : i \in 1..Len(l) \/ i = Len(l) + 1
    BY <1>1
<1> QED BY <1>1, <1>2 DEF Exact, Reusable, Approvals

\* What was granted to a call of a gated tool answers for it.
LEMMA AllowedIsAnswered ==
    ASSUME NEW c, NEW a, Allowed(log, c, a), ToolOf(log, c) \in NeedsApproval
    PROVE  ~IsUnanswered(c)
BY DEF Allowed, Grants, IsUnanswered, Exact, Reusable

\* While nothing else happens to a call at the gate, it waits there.
LEMMA WaitingStays ==
    ASSUME NEW c, WaitsAtGate(c), UNCHANGED <<log, rows>>,
           \A i \in 1..Len(writes') : ~IsConclusionOf(writes'[i], c),
           ~(phase' = "effect" /\ cur'.call = c)
    PROVE  WaitsAtGate(c)'
BY DEF WaitsAtGate, IsUnanswered, WillConclude

\* The step of anyone but an answer itself, with no answer under way.
LEMMA StepWaits ==
    ASSUME AnswerInv, ~AnswerInFlight, UNCHANGED <<log, rows>>,
           \A i \in 1..Len(writes') :
               /\ ~IsAsking(writes'[i])
               /\ ~(writes'[i].kind = "append" /\ writes'[i].event.type = "approval")
               /\ writes'[i].kind = "insert" /\ ToolOf(log, cur'.call) \in NeedsApproval =>
                     ~IsUnanswered(cur'.call),
           HasPending(log) /\ WaitsAtGate(Pending(log).call) =>
               /\ \A i \in 1..Len(writes') : ~IsConclusionOf(writes'[i], Pending(log).call)
               /\ ~(phase' = "effect" /\ cur'.call = Pending(log).call)
    PROVE  AnswerInv'
<1>1. /\ HasPending(log) => WaitsAtGate(Pending(log).call)
      /\ \A c \in Calls : Called(log, c) /\ ToolOf(log, c) \in NeedsApproval /\ rows[c] # NoRow =>
            ~IsUnanswered(c)
    BY DEF AnswerInv, QuestionsWait, RowsWereAnswered
<1>2. HasPending(log) => WaitsAtGate(Pending(log).call)'
    <2> SUFFICES ASSUME HasPending(log) PROVE WaitsAtGate(Pending(log).call)'
        OBVIOUS
    <2>1. PICK p : p = Pending(log).call
        OBVIOUS
    <2>2. WaitsAtGate(p)'
        BY <1>1, <2>1, WaitingStays
    <2> QED BY <2>1, <2>2
<1>3. QuestionsWait'
    BY <1>2 DEF QuestionsWait
<1>4. RowsWereAnswered'
    BY <1>1 DEF RowsWereAnswered, IsUnanswered
<1>5. ApprovalsComeWithResumes'
    BY DEF ApprovalsComeWithResumes
<1> QED BY <1>3, <1>4, <1>5 DEF AnswerInv

\* What execute writes: the conclusion of a request for a tool nobody registered.
LEMMA ExecuteWaits ==
    ASSUME NEW k \in Requests, execute(k), NEW i \in 1..Len(writes')
    PROVE  /\ ~IsAsking(writes'[i])
           /\ ~(writes'[i].kind = "append" /\ writes'[i].event.type = "approval")
           /\ writes'[i].kind # "insert"
           /\ \A c : IsConclusionOf(writes'[i], c) => c = k.call /\ k.tool \notin Registered
<1>1. \/ writes'[i] = Recording(k)
      \/ writes'[i] \in {Reporting, Concluding(k, "failed")} /\ k.tool \notin Registered
    BY DEF execute
<1> QED BY <1>1, WhatWritesDo DEF IsAsking, IsConclusionOf

LEMMA DriveNextWaits ==
    ASSUME ToolInv, AnswerInv, DriveNext
    PROVE  AnswerInv'
<1>1. PICK k \in Requests : k.tool = ToolOf(log, k.call) /\ execute(k)
    BY DrivenRequest
<1>2. writes = <<>> /\ UNCHANGED <<log, rows>>
    BY DEF DriveNext
<1>3. ~AnswerInFlight
    BY <1>2 DEF AnswerInFlight
<1>4. phase' # "effect"
    BY <1>1 DEF execute
<1>5. ASSUME HasPending(log), WaitsAtGate(Pending(log).call), NEW i \in 1..Len(writes')
      PROVE  ~IsConclusionOf(writes'[i], Pending(log).call)
    BY <1>1, <1>5, ExecuteWaits, AttributesAreOfRegistered DEF WaitsAtGate
<1> QED BY <1>1, <1>2, <1>3, <1>4, <1>5, ExecuteWaits, StepWaits

LEMMA AskedWaits ==
    ASSUME ToolInv, AnswerInv, NEW c \in Originals, NEW t \in Tools, NEW a \in Args,
           handle_tools_call(c, t, a)
    PROVE  AnswerInv'
<1> DEFINE k == Request(c, t, a)
<1>1. /\ execute(k) /\ writes = <<>> /\ ~Called(log, c) /\ UNCHANGED <<log, rows>>
    BY DEF handle_tools_call, Idle, NextId, durable
<1>2. k \in Requests /\ k.call = c
    BY BoundsAreNat, OriginalsAreCalls DEF Request, Requests, Originals, Calls
<1> HIDE DEF k
<1>3. ~AnswerInFlight
    BY <1>1 DEF AnswerInFlight
<1>4. phase' # "effect"
    BY <1>1 DEF execute
<1>5. ASSUME HasPending(log), NEW i \in 1..Len(writes')
      PROVE  ~IsConclusionOf(writes'[i], Pending(log).call)
    BY <1>1, <1>2, <1>5, ExecuteWaits, PendingIsCalled
<1> QED BY <1>1, <1>2, <1>3, <1>4, <1>5, ExecuteWaits, StepWaits

\* A call at the gate is asked about again and nothing more.
LEMMA JudgedWaits ==
    ASSUME ToolInv, GateInv, AnswerInv, NEW o \in Outcomes(cur), Judged(o)
    PROVE  AnswerInv'
<1> DEFINE asking == Appending(InterruptEvent(cur.call, InterruptCount(log)))
<1>1. /\ cur \in Requests
      /\ Called(log, cur.call) /\ ~Closed(log, cur.call)
      /\ ToolOf(log, cur.call) = cur.tool
      /\ phase = "judge" /\ writes = <<>>
      /\ \/ o = "run" /\ phase' = "effect"
         \/ o # "run" /\ phase' = "drive"
      /\ o = "asked" => /\ GateOutcome(cur) = "asked" /\ queue' = {}
                        /\ \/ writes' = <<>> /\ HasPending(log)
                           \/ ~HasPending(log) /\ writes' = <<asking>>
      /\ o = "run" => writes' = <<>> \/ writes' = <<Insert("pending", Actual(cur))>>
      /\ o \notin {"run", "asked"} =>
            \/ writes' = <<Reporting, Concluding(cur, "rejected")>>
            \/ writes' = <<Reporting, Concluding(cur, "unknown"), Update("unknown")>>
            \/ writes' = <<Concluding(cur, "executed"), Update("executed")>>
      /\ UNCHANGED <<log, rows, cur>>
    BY JudgedStep
<1>2. ~AnswerInFlight
    BY <1>1 DEF AnswerInFlight
<1>3. ASSUME WaitsAtGate(cur.call) PROVE o = "asked"
    <2>1. rows[cur.call] = NoRow /\ cur.tool \in NeedsApproval /\ FindApproval(log, cur.call, cur.tool) = {}
        BY <1>1, <1>3 DEF WaitsAtGate, IsUnanswered, FindApproval, Granted
    <2>2. IntentOutcomes(cur) = {"go"}
        BY <2>1 DEF IntentOutcomes, Existing
    <2>3. GateOutcome(cur) = "asked"
        BY <2>1 DEF GateOutcome
    <2> QED BY <2>2, <2>3 DEF Outcomes
<1>4. \A i \in 1..Len(writes') : \A c : IsConclusionOf(writes'[i], c) =>
          c = cur.call /\ o \notin {"run", "asked"}
    <2>1. CASE o \in {"run", "asked"}
        <3>1. \A i \in 1..Len(writes') : writes'[i] \in {asking, Insert("pending", Actual(cur))}
            BY <1>1, <2>1
        <3>2. \A w \in {asking, Insert("pending", Actual(cur))} : \A c : ~IsConclusionOf(w, c)
            BY WhatWritesDo DEF IsConclusionOf, InterruptEvent
        <3> QED BY <3>1, <3>2
    <2>2. CASE o \notin {"run", "asked"}
        <3> DEFINE Cs == {Concluding(cur, "rejected"), Concluding(cur, "unknown"),
                          Concluding(cur, "executed")}
        <3>1. \A i \in 1..Len(writes') :
                  writes'[i] \in Cs \cup {Reporting, Update("unknown"), Update("executed")}
            BY <1>1, <2>2
        <3>2. \A w \in Cs \cup {Reporting, Update("unknown"), Update("executed")} : \A c :
                  IsConclusionOf(w, c) => c = cur.call
            BY WhatWritesDo DEF IsConclusionOf
        <3> QED BY <2>2, <3>1, <3>2
    <2> QED BY <2>1, <2>2
<1>5. \A i \in 1..Len(writes') :
          /\ ~(writes'[i].kind = "append" /\ writes'[i].event.type = "approval")
          /\ writes'[i].kind = "insert" => o = "run"
          /\ IsAsking(writes'[i]) => /\ o = "asked" /\ ~HasPending(log)
                                     /\ writes'[i].event.call = cur.call
    <2> DEFINE Ws == {Concluding(cur, "rejected"), Concluding(cur, "unknown"),
                      Concluding(cur, "executed"), Reporting, Update("unknown"),
                      Update("executed")}
    <2>1. CASE o \notin {"run", "asked"}
        <3>1. \A i \in 1..Len(writes') : writes'[i] \in Ws
            BY <1>1, <2>1
        <3>2. \A w \in Ws : /\ ~(w.kind = "append" /\ w.event.type = "approval")
                            /\ w.kind # "insert" /\ ~IsAsking(w)
            BY WhatWritesDo DEF IsAsking
        <3> QED BY <3>1, <3>2
    <2>2. CASE o = "run"
        <3>1. \A i \in 1..Len(writes') : writes'[i] = Insert("pending", Actual(cur))
            BY <1>1, <2>2
        <3>2. Insert("pending", Actual(cur)).kind = "insert"
            BY WhatWritesDo
        <3> QED BY <2>2, <3>1, <3>2 DEF IsAsking
    <2>3. CASE o = "asked"
        <3>1. \A i \in 1..Len(writes') : writes'[i] = asking /\ ~HasPending(log)
            BY <1>1, <2>3
        <3>2. /\ asking.kind = "append" /\ asking.event.type = "interrupt"
              /\ asking.event.call = cur.call
            BY WhatWritesDo DEF InterruptEvent
        <3> QED BY <2>3, <3>1, <3>2
    <2> QED BY <2>1, <2>2, <2>3
<1> HIDE DEF asking
<1>6. ASSUME NEW p, WaitsAtGate(p) PROVE WaitsAtGate(p)'
    <2>1. p = cur.call => o = "asked"
        BY <1>3, <1>6
    <2>2. /\ \A i \in 1..Len(writes') : ~IsConclusionOf(writes'[i], p)
          /\ ~(phase' = "effect" /\ cur'.call = p)
        BY <1>1, <1>4, <2>1
    <2> QED BY <1>1, <1>6, <2>2, WaitingStays
<1>7. (HasPending(log) => WaitsAtGate(Pending(log).call))'
    <2>1. HasPending(log) => WaitsAtGate(Pending(log).call)
        BY <1>2 DEF AnswerInv, QuestionsWait
    <2>2. PICK p : p = Pending(log).call
        OBVIOUS
    <2>3. HasPending(log) => WaitsAtGate(p)'
        BY <1>6, <2>1, <2>2
    <2> QED BY <1>1, <2>2, <2>3
<1>8. ASSUME NEW i \in 1..Len(writes'), IsAsking(writes'[i])
      PROVE  WaitsAtGate(cur.call)' /\ writes'[i].event.call = cur.call
    <2>1. o = "asked" /\ writes'[i].event.call = cur.call /\ GateOutcome(cur) = "asked"
        BY <1>1, <1>5, <1>8
    <2>2. FindApproval(log, cur.call, cur.tool) = {} /\ cur.tool \in NeedsApproval
        BY <2>1 DEF GateOutcome
    <2>3. IsUnanswered(cur.call)
        BY <1>1, <2>2, NoBinding DEF IsUnanswered
    <2>4. rows[cur.call] = NoRow
        BY <1>1, <2>2, <2>3 DEF AnswerInv, RowsWereAnswered, Requests
    <2>5. WaitsAtGate(cur.call)
        BY <1>1, <2>2, <2>3, <2>4 DEF WaitsAtGate, Open, WillConclude
    <2>6. PICK p : p = cur.call
        OBVIOUS
    <2>7. WaitsAtGate(p)'
        BY <1>6, <2>5, <2>6
    <2> QED BY <1>1, <2>1, <2>6, <2>7
<1>9. QuestionsWait'
    <2>1. \A i \in 1..Len(writes') : IsAsking(writes'[i]) => WaitsAtGate(writes[i].event.call)'
        BY <1>1, <1>8 DEF WaitsAtGate, IsUnanswered, WillConclude
    <2> QED BY <1>7, <2>1 DEF QuestionsWait
<1>10. ASSUME NEW i \in 1..Len(writes'), writes'[i].kind = "insert",
              ToolOf(log, cur.call) \in NeedsApproval
       PROVE  ~IsUnanswered(cur.call)
    <2>1. phase' = "effect"
        BY <1>1, <1>5, <1>10
    <2>2. GateInv'
        BY JudgedAllows
    <2>3. Allowed(log, cur.call, Actual(cur))
        BY <1>1, <2>1, <2>2 DEF GateInv, Actual
    <2> QED BY <1>10, <2>3, AllowedIsAnswered
<1>11. RowsWereAnswered'
    BY <1>1, <1>10 DEF AnswerInv, RowsWereAnswered, IsUnanswered
<1>12. ApprovalsComeWithResumes'
    BY <1>5 DEF ApprovalsComeWithResumes
<1> QED BY <1>9, <1>11, <1>12 DEF AnswerInv

\* A tool that ran was answered for.
LEMMA ToolEndWaits ==
    ASSUME ToolInv, GateInv, AnswerInv, ToolReturns \/ _handle_tool_failure
    PROVE  AnswerInv'
<1>1. /\ phase = "effect" /\ writes = <<>> /\ phase' = "drive"
      /\ UNCHANGED <<log, rows, cur>> /\ cur \in Requests
    BY ToolEnd
<1>2. PICK s \in Statuses, w \in WriteItems :
          /\ IsRowWrite(w)
          /\ \/ writes' = <<Concluding(cur, s), w>>
             \/ writes' = <<Reporting, Concluding(cur, s), w>>
    BY ToolEnd
<1>3. ~AnswerInFlight
    BY <1>1 DEF AnswerInFlight
<1>4. ToolOf(log, cur.call) \in NeedsApproval => ~IsUnanswered(cur.call)
    BY <1>1, AllowedIsAnswered DEF GateInv
<1>5. \A i \in 1..Len(writes') : writes'[i] \in {Reporting, Concluding(cur, s), w}
    BY <1>2
<1>6. \A v \in {Reporting, Concluding(cur, s), w} :
          /\ ~IsAsking(v)
          /\ ~(v.kind = "append" /\ v.event.type = "approval")
          /\ \A c : IsConclusionOf(v, c) => c = cur.call
    BY <1>2, WhatWritesDo DEF IsRowWrite, IsAsking, IsConclusionOf
<1>7. HasPending(log) /\ WaitsAtGate(Pending(log).call) => Pending(log).call # cur.call
    BY <1>1 DEF WaitsAtGate
<1> QED BY <1>1, <1>3, <1>4, <1>5, <1>6, <1>7, StepWaits

\* What is appended, but an answer, leaves a call at the gate where it is.
LEMMA AppendLeavesAtGate ==
    ASSUME ToolInv, AppendEvent, NEW c, WaitsAtGate(c), Head(writes).event.type # "approval"
    PROVE  WaitsAtGate(c)'
<1> DEFINE e == Head(writes).event
<1>1. /\ writes # <<>> /\ Head(writes).kind = "append" /\ writes' = Tail(writes)
      /\ UNCHANGED <<rows, phase, cur>>
    BY DEF AppendEvent
<1>2. /\ e \in LoggedEvents /\ log \in Logs /\ GoesOn(log) /\ log' = Append(log, e)
      /\ \A d : Called(log', d) <=> Called(log, d) \/ (e.type = "tool_call" /\ e.call = d)
      /\ \A d : Closed(log', d) <=>
            Closed(log, d) \/ (e.type = "tool_result" /\ e.call = d /\ Called(log, d))
      /\ \A d : Called(log, d) => ToolOf(log', d) = ToolOf(log, d)
    BY AppendEventLog
<1>3. /\ Head(writes) = writes[1] /\ Len(writes) \in Nat \ {0}
      /\ \A i \in 1..Len(writes') : i + 1 \in 1..Len(writes) /\ writes'[i] = writes[i + 1]
    BY <1>1, RestOfWrites
<1>4. /\ Open(log, c) /\ ToolOf(log, c) \in NeedsApproval /\ IsUnanswered(c) /\ rows[c] = NoRow
      /\ ~WillConclude(c) /\ ~(phase = "effect" /\ cur.call = c)
    BY DEF WaitsAtGate
<1>5. ~IsConclusionOf(Head(writes), c) /\ ~WillConclude(c)'
    BY <1>3, <1>4 DEF WillConclude
<1>6. ~(e.type = "tool_result" /\ e.call = c)
    BY <1>1, <1>5 DEF IsConclusionOf
<1>7. Open(log, c)' /\ ToolOf(log', c) = ToolOf(log, c)
    BY <1>2, <1>4, <1>6 DEF Open
<1>8. /\ Exact(log', c) = Exact(log, c)
      /\ Reusable(log', ToolOf(log, c)) = Reusable(log, ToolOf(log, c))
    BY <1>2, ApprovalsStay
<1>9. IsUnanswered(c)'
    BY <1>4, <1>7, <1>8 DEF IsUnanswered
<1> QED BY <1>1, <1>4, <1>5, <1>7, <1>9 DEF WaitsAtGate

\* A row that was answered for stays so.
LEMMA AnswersStay ==
    ASSUME ToolInv, AppendEvent, NEW c, Called(log, c), ~IsUnanswered(c)
    PROVE  ~IsUnanswered(c)' /\ ToolOf(log', c) = ToolOf(log, c)
<1> DEFINE e == Head(writes).event
<1>1. /\ e \in LoggedEvents /\ log \in Logs /\ GoesOn(log) /\ log' = Append(log, e)
      /\ ToolOf(log', c) = ToolOf(log, c)
    BY AppendEventLog
<1>2. /\ Exact(log, c) \subseteq Exact(log', c)
      /\ Reusable(log, ToolOf(log, c)) \subseteq Reusable(log', ToolOf(log, c))
    BY <1>1, ApprovalsStay
<1> QED BY <1>1, <1>2 DEF IsUnanswered

LEMMA RestOfAnswer ==
    ASSUME ToolInv, ApprovalsComeWithResumes, writes # <<>>, writes' = Tail(writes)
    PROVE  /\ ApprovalsComeWithResumes'
           /\ Head(writes).kind = "append" /\ Head(writes).event.type = "approval" =>
                 AnswerInFlight'
           /\ AnswerInFlight =>
                 \/ AnswerInFlight'
                 \/ Head(writes).kind = "append" /\ Head(writes).event.type = "resume"
<1>1. /\ Head(writes) = writes[1] /\ Len(writes) \in Nat \ {0}
      /\ Len(writes') = Len(writes) - 1
      /\ \A i \in 1..Len(writes') : i + 1 \in 1..Len(writes) /\ writes'[i] = writes[i + 1]
    BY RestOfWrites
<1>2. \A j \in 2..Len(writes) : j - 1 \in 1..Len(writes') /\ writes'[j - 1] = writes[j]
    BY RestWaits
<1>3. ASSUME NEW i \in 1..Len(writes'), writes'[i].kind = "append",
             writes'[i].event.type = "approval"
      PROVE  \E j \in (i + 1)..Len(writes') :
                writes'[j].kind = "append" /\ writes'[j].event.type = "resume"
    <2>1. PICK j \in (i + 2)..Len(writes) :
              writes[j].kind = "append" /\ writes[j].event.type = "resume"
        BY <1>1, <1>3 DEF ApprovalsComeWithResumes
    <2>2. j \in 2..Len(writes) /\ j - 1 \in (i + 1)..Len(writes')
        BY <1>1, <2>1
    <2> QED BY <1>2, <2>1, <2>2
<1>4. ApprovalsComeWithResumes'
    BY <1>3 DEF ApprovalsComeWithResumes
<1>5. ASSUME Head(writes).kind = "append", Head(writes).event.type = "approval"
      PROVE  AnswerInFlight'
    <2>1. PICK j \in 2..Len(writes) :
              writes[j].kind = "append" /\ writes[j].event.type = "resume"
        BY <1>1, <1>5 DEF ApprovalsComeWithResumes
    <2> QED BY <1>2, <2>1 DEF AnswerInFlight
<1>6. ASSUME AnswerInFlight
      PROVE  \/ AnswerInFlight'
             \/ Head(writes).kind = "append" /\ Head(writes).event.type = "resume"
    <2>1. PICK j \in 1..Len(writes) :
              writes[j].kind = "append" /\ writes[j].event.type = "resume"
        BY <1>6 DEF AnswerInFlight
    <2>2. CASE j = 1
        BY <1>1, <2>1, <2>2
    <2>3. CASE j \in 2..Len(writes)
        BY <1>2, <2>1, <2>3 DEF AnswerInFlight
    <2> QED BY <1>1, <2>2, <2>3
<1> QED BY <1>4, <1>5, <1>6

LEMMA AppendEventWaits ==
    ASSUME ToolInv, DriveInv, AnswerInv, AppendEvent
    PROVE  AnswerInv'
<1> DEFINE e == Head(writes).event
<1>1. /\ writes # <<>> /\ Head(writes).kind = "append" /\ writes' = Tail(writes)
      /\ phase # "down" /\ UNCHANGED <<rows, phase, cur, queue>>
    BY DEF AppendEvent
<1>2. /\ e \in LoggedEvents /\ log \in Logs /\ GoesOn(log) /\ log' = Append(log, e)
      /\ \A d : Called(log', d) <=> Called(log, d) \/ (e.type = "tool_call" /\ e.call = d)
    BY AppendEventLog
<1>3. /\ Head(writes) = writes[1] /\ Len(writes) \in Nat \ {0}
      /\ \A i \in 1..Len(writes') : i + 1 \in 1..Len(writes) /\ writes'[i] = writes[i + 1]
    BY <1>1, RestOfWrites
<1>4. /\ ApprovalsComeWithResumes'
      /\ e.type = "approval" => AnswerInFlight'
      /\ AnswerInFlight => AnswerInFlight' \/ e.type = "resume"
    BY <1>1, RestOfAnswer DEF AnswerInv
<1>5. \A i \in 1..Len(writes') : ~IsAsking(writes'[i])
    BY <1>1, RestIsDriven DEF DriveInv
<1>6. ASSUME HasPending(log'), ~AnswerInFlight'
      PROVE  WaitsAtGate(Pending(log).call)'
    <2>1. e.type # "resume"
        BY <1>2, <1>6, AppendPending
    <2>2. e.type # "approval" /\ ~AnswerInFlight
        BY <1>4, <1>6, <2>1
    <2>3. PICK p : p = Pending(log').call
        OBVIOUS
    <2>4. CASE HasPending(log)
        <3>1. Pending(log') = Pending(log)
            BY <1>2, <2>1, <2>4, AppendPending
        <3>2. WaitsAtGate(p)
            BY <2>2, <2>3, <2>4, <3>1 DEF AnswerInv, QuestionsWait
        <3>3. WaitsAtGate(p)'
            BY <2>2, <3>2, AppendLeavesAtGate
        <3> QED BY <2>3, <3>3
    <2>5. CASE ~HasPending(log)
        <3>1. e.type = "interrupt"
            BY <1>2, <1>6, <2>5, AppendPending
        <3>2. Pending(log') = e
            BY <1>2, <2>5, <3>1, AppendPending
        <3>3. WaitsAtGate(p)
            BY <1>1, <1>3, <2>3, <3>1, <3>2 DEF AnswerInv, QuestionsWait, IsAsking
        <3>4. WaitsAtGate(p)'
            BY <2>2, <3>3, AppendLeavesAtGate
        <3> QED BY <2>3, <3>4
    <2> QED BY <2>4, <2>5
<1>7. QuestionsWait'
    BY <1>5, <1>6 DEF QuestionsWait
<1>8. ASSUME NEW c \in Calls, Called(log', c), ToolOf(log', c) \in NeedsApproval, rows[c] # NoRow
      PROVE  ~IsUnanswered(c)'
    <2>1. Called(log, c)
        BY <1>8 DEF ToolInv, UnrecordedIsUntouched
    <2>2. ToolOf(log', c) = ToolOf(log, c)
        BY <2>1, AppendEventLog
    <2>3. ~IsUnanswered(c)
        BY <1>8, <2>1, <2>2 DEF AnswerInv, RowsWereAnswered
    <2> QED BY <2>1, <2>3, AnswersStay
<1>9. ASSUME NEW i \in 1..Len(writes'), writes'[i].kind = "insert",
             ToolOf(log', cur.call) \in NeedsApproval
      PROVE  ~IsUnanswered(cur.call)'
    <2>1. PICK c : c = cur.call
        OBVIOUS
    <2>2. i + 1 \in 1..Len(writes) /\ writes[i + 1].kind = "insert"
        BY <1>3, <1>9
    <2>3. Called(log, c)
        BY <2>1, <2>2 DEF ToolInv, RowWritesFollowResults, IsRowWrite
    <2>4. ToolOf(log', c) = ToolOf(log, c)
        BY <2>3, AppendEventLog
    <2>5. ~IsUnanswered(c)
        BY <1>9, <2>1, <2>2, <2>4 DEF AnswerInv, RowsWereAnswered
    <2>6. ~IsUnanswered(c)'
        BY <2>3, <2>5, AnswersStay
    <2> QED BY <1>1, <2>1, <2>6
<1>10. RowsWereAnswered'
    BY <1>1, <1>8, <1>9 DEF RowsWereAnswered
<1> QED BY <1>4, <1>7, <1>10 DEF AnswerInv

LEMMA OtherWriteWaits ==
    ASSUME ToolInv, DriveInv, AnswerInv, WriteRow \/ RefreshStatus \/ WriteProvision
    PROVE  AnswerInv'
<1>1. /\ writes # <<>> /\ Head(writes).kind # "append" /\ writes' = Tail(writes)
      /\ phase # "down" /\ UNCHANGED <<log, phase, cur, queue>>
    BY DEF WriteRow, RefreshStatus, WriteProvision, durable
<1>2. \/ rows' = rows
      \/ /\ IsRowWrite(Head(writes))
         /\ rows' = [rows EXCEPT ![cur.call] = RowAfter(@, Head(writes))]
    BY DEF WriteRow, RefreshStatus, WriteProvision, durable, IsRowWrite
<1>3. /\ Head(writes) = writes[1] /\ Len(writes) \in Nat \ {0}
      /\ \A i \in 1..Len(writes') : i + 1 \in 1..Len(writes) /\ writes'[i] = writes[i + 1]
    BY <1>1, RestOfWrites
<1>4. ApprovalsComeWithResumes' /\ (AnswerInFlight => AnswerInFlight')
    BY <1>1, RestOfAnswer DEF AnswerInv
<1>5. \A i \in 1..Len(writes') : ~IsAsking(writes'[i])
    BY <1>1, RestIsDriven DEF DriveInv
<1>6. rows \in [Calls -> {NoRow} \cup RowsInUse]
    BY DEF ToolInv, Typed
<1>7. ASSUME IsRowWrite(Head(writes))
      PROVE  phase # "effect" => Closed(log, cur.call)
    BY <1>3, <1>7 DEF ToolInv, RowWritesFollowResults
<1>8. ASSUME NEW p \in Calls, WaitsAtGate(p) PROVE WaitsAtGate(p)'
    <2>1. /\ Open(log, p) /\ ~WillConclude(p) /\ rows[p] = NoRow
          /\ ~(phase = "effect" /\ cur.call = p)
        BY <1>8 DEF WaitsAtGate
    <2>2. rows'[p] = NoRow
        BY <1>2, <1>6, <1>7, <2>1 DEF Open
    <2>3. ~WillConclude(p)'
        BY <1>3, <2>1 DEF WillConclude
    <2> QED BY <1>1, <1>8, <2>2, <2>3 DEF WaitsAtGate, IsUnanswered
<1>9. ASSUME HasPending(log), ~AnswerInFlight' PROVE WaitsAtGate(Pending(log).call)'
    <2>1. PICK p : p = Pending(log).call
        OBVIOUS
    <2>2. p \in Calls /\ WaitsAtGate(p)
        BY <1>4, <1>9, <2>1, PendingIsCalled DEF AnswerInv, QuestionsWait
    <2>3. WaitsAtGate(p)'
        BY <1>8, <2>2
    <2> QED BY <1>1, <2>1, <2>3
<1>10. QuestionsWait'
    BY <1>1, <1>5, <1>9 DEF QuestionsWait
<1>11. ASSUME NEW c \in Calls, Called(log, c), ToolOf(log, c) \in NeedsApproval, rows'[c] # NoRow
       PROVE  ~IsUnanswered(c)
    <2>1. CASE rows[c] # NoRow
        BY <1>11, <2>1 DEF AnswerInv, RowsWereAnswered
    <2>2. CASE rows[c] = NoRow
        <3>1. /\ c = cur.call /\ IsRowWrite(Head(writes))
              /\ RowAfter(NoRow, Head(writes)) # NoRow
            BY <1>2, <1>6, <1>11, <2>2
        <3>2. Head(writes).kind = "insert"
            BY <3>1 DEF RowAfter, close, IsRowWrite
        <3> QED BY <1>3, <1>11, <3>1, <3>2 DEF AnswerInv, RowsWereAnswered
    <2> QED BY <2>1, <2>2
<1>12. RowsWereAnswered'
    BY <1>1, <1>3, <1>11 DEF AnswerInv, RowsWereAnswered, IsUnanswered
<1> QED BY <1>4, <1>10, <1>12 DEF AnswerInv

\* An answer's writes are under way until its last.
LEMMA AnsweredWaits ==
    ASSUME ToolInv, AnswerInv, NEW d \in Decisions, NEW a \in Args, NEW s \in Scopes,
           _handle_approve(d, a, s)
    PROVE  AnswerInv'
<1> DEFINE ap == Approving(d, a, s)
           Ws == {Concluding(Asked, "rejected"), Concluding(Asked, "superseded"),
                  Rerecording(a), ap, Resuming}
<1>1. decide(d, a, s) /\ UNCHANGED <<log, rows>>
    BY DEF _handle_approve, decide
<1>2. /\ ap.kind = "append" /\ ap.event.type = "approval"
      /\ Resuming.kind = "append" /\ Resuming.event.type = "resume"
      /\ \/ writes' = <<Concluding(Asked, "rejected"), ap, Resuming>>
         \/ writes' = <<Concluding(Asked, "superseded"), Rerecording(a), ap, Resuming>>
         \/ writes' = <<ap, Resuming>>
    BY <1>1, DecideIs
<1>3. Rerecording(a).kind = "append" /\ Rerecording(a).event.type = "tool_call"
    BY WhatWritesDo DEF Rerecording
<1>4. \A i \in 1..Len(writes') : writes'[i] \in Ws
    BY <1>2
<1>5. \A w \in Ws : ~IsAsking(w) /\ w.kind # "insert"
    BY <1>2, <1>3, WhatWritesDo DEF IsAsking
<1>6. \A w \in {Concluding(Asked, "rejected"), Concluding(Asked, "superseded"), Rerecording(a)} :
          ~(w.kind = "append" /\ w.event.type = "approval")
    BY <1>3, WhatWritesDo
<1> HIDE DEF ap
<1>7. writes'[Len(writes')] = Resuming /\ Len(writes') \in 1..Len(writes')
    <2> DEFINE x == Concluding(Asked, "rejected")
               y == Concluding(Asked, "superseded")
               z == Rerecording(a)
    <2>1. \/ writes' = <<x, ap, Resuming>> \/ writes' = <<y, z, ap, Resuming>>
          \/ writes' = <<ap, Resuming>>
        BY <1>2
    <2> HIDE DEF x, y, z
    <2>2. CASE writes' = <<x, ap, Resuming>>
        BY <2>2
    <2>3. CASE writes' = <<y, z, ap, Resuming>>
        BY <2>3
    <2>4. CASE writes' = <<ap, Resuming>>
        BY <2>4
    <2> QED BY <2>1, <2>2, <2>3, <2>4
<1>8. AnswerInFlight'
    BY <1>2, <1>7 DEF AnswerInFlight
<1>9. QuestionsWait'
    BY <1>4, <1>5, <1>8 DEF QuestionsWait
<1>10. RowsWereAnswered'
    BY <1>1, <1>4, <1>5 DEF AnswerInv, RowsWereAnswered, IsUnanswered
<1>11. ApprovalsComeWithResumes'
    <2>1. ~(Resuming.event.type = "approval")
        BY <1>2
    <2>2. \A i \in 1..Len(writes') :
              writes'[i].kind = "append" /\ writes'[i].event.type = "approval" =>
                  Len(writes') \in (i + 1)..Len(writes')
        <3> SUFFICES ASSUME NEW i \in 1..Len(writes'), writes'[i].event.type = "approval"
                     PROVE  Len(writes') \in (i + 1)..Len(writes')
            OBVIOUS
        <3>1. i # Len(writes')
            BY <1>7, <2>1
        <3> QED BY <1>7, <3>1
    <2> QED BY <1>2, <1>7, <2>2 DEF ApprovalsComeWithResumes
<1> QED BY <1>9, <1>10, <1>11 DEF AnswerInv

\* Starting, finishing and, outside an answer, being killed.
LEMMA TurnsWait ==
    ASSUME ToolInv, DriveInv, AnswerInv, ~AnswerInFlight,
           resume_open_calls \/ Finish \/ Start \/ Crash
    PROVE  AnswerInv'
<1> DEFINE r == IF "run" \in provisioned THEN <<>> ELSE <<Provision("run")>>
           b == IF "branch" \in provisioned THEN <<>> ELSE <<Provision("branch")>>
           u == IF log = <<>> THEN <<Appending(UserMessage)>> ELSE <<>>
           Other == {Provision("run"), Provision("branch"), Appending(UserMessage), Refresh}
<1>1. UNCHANGED <<log, rows>> /\ phase' # "effect"
    BY DEF resume_open_calls, Finish, Start, Crash, PhaseAfterStart, durable
<1>2. \A w \in Other :
          /\ ~IsAsking(w)
          /\ ~(w.kind = "append" /\ w.event.type = "approval")
          /\ w.kind # "insert"
          /\ \A c : ~IsConclusionOf(w, c)
    BY WhatWritesDo DEF IsAsking, IsConclusionOf, Provision, UserMessage
<1>3. /\ Provision("run") \in Other /\ Provision("branch") \in Other
      /\ Appending(UserMessage) \in Other /\ Refresh \in Other
    OBVIOUS
<1>4. \/ writes' = <<>> \/ writes' = <<Refresh>> \/ writes' = r \o b \o u
    BY DEF resume_open_calls, Finish, EndOfHandler, Start, ensure_run, Crash
<1> HIDE DEF Other
<1>5. r \in Seq(Other) /\ b \in Seq(Other) /\ u \in Seq(Other)
    BY <1>3, ShortLists
<1> HIDE DEF r, b, u
<1>6. writes' \in Seq(Other)
    <2>1. r \o b \o u \in Seq(Other)
        BY <1>5, ConcatProperties
    <2>2. <<>> \in Seq(Other) /\ <<Refresh>> \in Seq(Other)
        BY <1>3, ShortLists
    <2> QED BY <1>4, <2>1, <2>2
<1>7. \A i \in 1..Len(writes') : writes'[i] \in Other
    BY <1>6, ElementOfSeq
<1> QED BY <1>1, <1>2, <1>7, StepWaits

LEMMA AnswerBegins == Init => AnswerInv
<1> SUFFICES ASSUME Init PROVE AnswerInv
    OBVIOUS
<1>1. log = <<>> /\ writes = <<>>
    BY DEF Init
<1>2. ~HasPending(log) /\ \A c : ~Called(log, c)
    BY <1>1 DEF HasPending, PendingInterrupts, Called
<1> QED BY <1>1, <1>2 DEF AnswerInv, QuestionsWait, RowsWereAnswered, ApprovalsComeWithResumes

LEMMA AnswerKeeps ==
    ServerInv /\ DriveInv /\ AnswerInv /\ [Next /\ ~(Crash /\ AnswerInFlight)]_vars => AnswerInv'
<1> SUFFICES ASSUME ServerInv, DriveInv, AnswerInv, [Next /\ ~(Crash /\ AnswerInFlight)]_vars
             PROVE  AnswerInv'
    OBVIOUS
<1>1. ToolInv /\ GateInv
    BY DEF ServerInv
<1>2. CASE AppendEvent
    BY <1>1, <1>2, AppendEventWaits
<1>3. CASE WriteRow \/ RefreshStatus \/ WriteProvision
    BY <1>1, <1>3, OtherWriteWaits
<1>4. CASE Judge
    BY <1>1, <1>4, JudgedWaits DEF Judge
<1>5. CASE ToolReturns \/ _handle_tool_failure
    BY <1>1, <1>5, ToolEndWaits
<1>6. CASE DriveNext
    BY <1>1, <1>6, DriveNextWaits
<1>7. CASE Client
    BY <1>1, <1>7, AskedWaits DEF Client
<1>8. CASE Human
    BY <1>1, <1>8, AnsweredWaits DEF Human
<1>9. CASE Crash /\ ~AnswerInFlight
    BY <1>1, <1>9, TurnsWait
<1>10. CASE resume_open_calls \/ Finish \/ Start
    <2>1. writes = <<>>
        BY <1>10 DEF resume_open_calls, Finish, Start, DriveInv, DrivenInOrder
    <2> QED BY <1>1, <1>10, <2>1, TurnsWait DEF AnswerInFlight
<1>11. CASE Clock \/ UNCHANGED vars
    <2>1. UNCHANGED <<log, rows, phase, writes, cur>>
        BY <1>11 DEF Clock, TimePasses, durable, volatile, vars
    <2> QED BY <2>1 DEF AnswerInv, QuestionsWait, RowsWereAnswered, ApprovalsComeWithResumes,
                        WaitsAtGate, IsUnanswered, WillConclude, AnswerInFlight
<1> QED BY <1>2, <1>3, <1>4, <1>5, <1>6, <1>7, <1>8, <1>9, <1>10, <1>11
        DEF Next, Server, Pipeline, Write

\* While the server waits for requests, the human can answer what it asks: the
\* call of the pending question is open and still of a gated tool.  It holds of
\* every history in which no kill falls between the writes of an answer; the
\* run mcp_stuck has the histories in which one does.
THEOREM QuestionsCanBeAnswered == SpecKilledElsewhere => []PendingIsDecidable
<1>1. Init => ServerInv /\ DriveInv /\ AnswerInv
    BY ServerBegins, DriveBegins, AnswerBegins
<1>2. ServerInv /\ DriveInv /\ AnswerInv /\ [Next /\ ~(Crash /\ AnswerInFlight)]_vars =>
          (ServerInv /\ DriveInv /\ AnswerInv)'
    BY ServerKeeps, DriveKeeps, AnswerKeeps
<1>3. AnswerInv => PendingIsDecidable
    <2> SUFFICES ASSUME AnswerInv, Idle, HasPending(log) PROVE HasCurrent
        BY DEF PendingIsDecidable
    <2>1. WaitsAtGate(Pending(log).call)
        BY DEF AnswerInv, QuestionsWait, AnswerInFlight, Idle
    <2> QED BY <2>1 DEF HasCurrent, WaitsAtGate
<1> QED BY <1>1, <1>2, <1>3, PTL DEF SpecKilledElsewhere

-----------------------------------------------------------------------------
(***************************************************************************)
(* THE LOG.  However requests, answers, kills and restarts fall,           *)
(* reduce_events finds no invariant broken but INV-001, and not that one   *)
(* where every tool that is asked for is registered (run mcp_ghost has a   *)
(* log where one is not).                                                  *)
(*                                                                         *)
(* Each write on the list of the process is legal when its turn comes      *)
(* (WritesAreLegal), and a legal event keeps the fold of the log what the  *)
(* positions of the log say (IsFoldOf).                                    *)
(***************************************************************************)

(* What the server may write *)

\* A write that changes what the fold makes of the log is legal when its turn
\* comes: a call is closed once, asked about while nothing else is asked, and a
\* resume answers the question that is pending.  A call is recorded once if its
\* tool is registered.
WritesAreLegal ==
    /\ \A i \in 1..Len(writes), c \in Calls : IsRecordingOf(writes[i], c) =>
          /\ Registered = Tools => ~Called(log, c)
          /\ \A j \in 1..Len(writes) : IsRecordingOf(writes[j], c) => j = i
    /\ \A i \in 1..Len(writes), c \in Calls : IsConclusionOf(writes[i], c) =>
          /\ ~Closed(log, c)
          /\ \A j \in 1..Len(writes) : IsConclusionOf(writes[j], c) => j = i
    /\ \A i \in 1..Len(writes) : IsAsking(writes[i]) => ~HasPending(log)
    /\ \A i \in 1..Len(writes) : IsResuming(writes[i]) =>
          /\ HasPending(log)
          /\ writes[i].event.index = Pending(log).index
          /\ \A j \in 1..Len(writes) : IsResuming(writes[j]) => j = i

\* The fold of the log is what its positions say, and has flagged at most a call
\* recorded again.
FoldInv ==
    LET s == Fold!Folded(log)
    IN  /\ IsFoldOf(s, log)
        /\ s.broken \subseteq {"INV-001"}
        /\ Registered = Tools => s.broken = {}

LogInv == WritesAreLegal /\ EditsComeLater /\ FoldInv

OnlyCallsRepeat == Fold!reduce_events(log).broken \subseteq {"INV-001"}

-----------------------------------------------------------------------------
(* What is written keeps the rest legal *)

LEMMA AppendedIsLegal ==
    ASSUME ServerInv, DriveInv, LogInv, AppendEvent
    PROVE  LogInv'
<1> DEFINE e == Head(writes).event
<1>1. /\ ToolInv /\ ServerTyped /\ QuestionsAreOfFirst
      /\ WritesAreLegal /\ EditsComeLater /\ FoldInv
    BY DEF ServerInv, DriveInv, LogInv
<1>2. /\ writes # <<>> /\ writes' = Tail(writes) /\ Head(writes).kind = "append"
    BY DEF AppendEvent
<1>3. /\ Head(writes) = writes[1] /\ Len(writes) \in Nat \ {0}
      /\ Len(writes') = Len(writes) - 1
      /\ \A i \in 1..Len(writes') : i + 1 \in 1..Len(writes) /\ writes'[i] = writes[i + 1]
      /\ 1 \in 1..Len(writes)
    BY <1>1, <1>2, RestOfWrites
<1>4. /\ e \in LoggedEvents /\ log \in Logs /\ GoesOn(log) /\ log' = Append(log, e)
      /\ \A c : Called(log', c) <=> Called(log, c) \/ (e.type = "tool_call" /\ e.call = c)
      /\ \A c : Closed(log', c) <=>
            Closed(log, c) \/ (e.type = "tool_result" /\ e.call = c /\ Called(log, c))
    BY <1>1, AppendEventLog
<1>5. /\ e.type # "resume" /\ HasPending(log) =>
            HasPending(log') /\ Pending(log') = Pending(log)
      /\ e.type # "interrupt" /\ ~HasPending(log) => ~HasPending(log')
    BY <1>4, AppendPending
<1> HIDE DEF e
<1>6. /\ \A c : IsRecordingOf(writes[1], c) <=> e.type = "tool_call" /\ e.call = c
      /\ \A c : IsConclusionOf(writes[1], c) <=> e.type = "tool_result" /\ e.call = c
      /\ IsAsking(writes[1]) <=> e.type = "interrupt"
      /\ IsResuming(writes[1]) <=> e.type = "resume"
    BY <1>2, <1>3 DEF e, IsRecordingOf, IsConclusionOf, IsAsking, IsResuming
<1>7. e.type = "interrupt" => Len(writes) = 1
    BY <1>1, <1>3, <1>6 DEF QuestionsAreOfFirst
<1>8. ASSUME NEW i \in 1..Len(writes') PROVE i + 1 # 1 /\ e.type # "interrupt"
    <2>1. Len(writes) # 1
        BY <1>3
    <2> QED BY <1>7, <2>1
<1>9. WritesAreLegal'
    <2>1. ASSUME NEW i \in 1..Len(writes'), NEW c \in Calls, IsRecordingOf(writes'[i], c)
          PROVE  /\ Registered = Tools => ~Called(log', c)
                 /\ \A j \in 1..Len(writes') : IsRecordingOf(writes'[j], c) => j = i
        <3>1. /\ Registered = Tools => ~Called(log, c)
              /\ \A j \in 1..Len(writes) : IsRecordingOf(writes[j], c) => j = i + 1
            BY <1>1, <1>3, <2>1 DEF WritesAreLegal
        <3>2. ~IsRecordingOf(writes[1], c)
            BY <1>3, <1>8, <3>1
        <3>3. ASSUME NEW j \in 1..Len(writes'), IsRecordingOf(writes'[j], c) PROVE j = i
            <4>1. j + 1 = i + 1
                BY <1>3, <3>1, <3>3
            <4> QED BY <4>1
        <3> QED BY <1>4, <1>6, <3>1, <3>2, <3>3
    <2>2. ASSUME NEW i \in 1..Len(writes'), NEW c \in Calls, IsConclusionOf(writes'[i], c)
          PROVE  /\ ~Closed(log', c)
                 /\ \A j \in 1..Len(writes') : IsConclusionOf(writes'[j], c) => j = i
        <3>1. /\ ~Closed(log, c)
              /\ \A j \in 1..Len(writes) : IsConclusionOf(writes[j], c) => j = i + 1
            BY <1>1, <1>3, <2>2 DEF WritesAreLegal
        <3>2. ~IsConclusionOf(writes[1], c)
            BY <1>3, <1>8, <3>1
        <3>3. ASSUME NEW j \in 1..Len(writes'), IsConclusionOf(writes'[j], c) PROVE j = i
            <4>1. j + 1 = i + 1
                BY <1>3, <3>1, <3>3
            <4> QED BY <4>1
        <3> QED BY <1>4, <1>6, <3>1, <3>2, <3>3
    <2>3. ASSUME NEW i \in 1..Len(writes'), IsAsking(writes'[i])
          PROVE  FALSE
        <3>1. i + 1 \in 1..Len(writes) /\ Len(writes) = 1
            BY <1>1, <1>3, <2>3 DEF QuestionsAreOfFirst
        <3> QED BY <3>1
    <2>4. ASSUME NEW i \in 1..Len(writes'), IsResuming(writes'[i])
          PROVE  /\ HasPending(log')
                 /\ writes'[i].event.index = Pending(log').index
                 /\ \A j \in 1..Len(writes') : IsResuming(writes'[j]) => j = i
        <3>1. /\ HasPending(log) /\ writes'[i].event.index = Pending(log).index
              /\ \A j \in 1..Len(writes) : IsResuming(writes[j]) => j = i + 1
            BY <1>1, <1>3, <2>4 DEF WritesAreLegal
        <3>2. ~IsResuming(writes[1])
            BY <1>3, <1>8, <3>1
        <3>3. ASSUME NEW j \in 1..Len(writes'), IsResuming(writes'[j]) PROVE j = i
            <4>1. j + 1 = i + 1
                BY <1>3, <3>1, <3>3
            <4> QED BY <4>1
        <3> QED BY <1>5, <1>6, <3>1, <3>2, <3>3
    <2> QED BY <2>1, <2>2, <2>3, <2>4 DEF WritesAreLegal
<1>10. EditsComeLater'
    <2>1. ASSUME NEW c \in Calls, Called(log', EditOf(c)) PROVE Closed(log', c)
        <3>1. CASE Called(log, EditOf(c))
            BY <1>1, <1>4, <3>1 DEF EditsComeLater
        <3>2. CASE IsRecordingOf(writes[1], EditOf(c))
            <4>1. Closed(log, c) \/ \E j \in 1..(1 - 1) : IsConclusionOf(writes[j], c)
                BY <1>1, <1>3, <3>2 DEF EditsComeLater
            <4> QED BY <1>4, <4>1
        <3> QED BY <1>4, <1>6, <2>1, <3>1, <3>2
    <2>2. ASSUME NEW i \in 1..Len(writes'), NEW c \in Calls,
                 IsRecordingOf(writes'[i], EditOf(c))
          PROVE  Closed(log', c) \/ \E j \in 1..(i - 1) : IsConclusionOf(writes'[j], c)
        <3>1. Closed(log, c) \/ \E j \in 1..i : IsConclusionOf(writes[j], c)
            BY <1>1, <1>3, <2>2 DEF EditsComeLater
        <3>2. ASSUME NEW j \in 1..i, IsConclusionOf(writes[j], c)
              PROVE  Closed(log', c) \/ \E k \in 1..(i - 1) : IsConclusionOf(writes'[k], c)
            <4>1. CASE j = 1
                <5>1. Called(log, c)
                    <6>1. IsConclusion(writes[1]) /\ writes[1].event.call = c
                        BY <3>2, <4>1 DEF IsConclusion, IsConclusionOf
                    <6>2. 1..(1 - 1) = {}
                        OBVIOUS
                    <6> QED BY <1>1, <1>3, <6>1, <6>2 DEF ToolInv, ResultsAreOfCalls
                <5> QED BY <1>4, <1>6, <3>2, <4>1, <5>1
            <4>2. CASE j # 1
                <5>1. j - 1 \in 1..(i - 1) /\ j - 1 \in 1..Len(writes') /\ (j - 1) + 1 = j
                    BY <1>3, <4>2
                <5>2. writes'[j - 1] = writes[j]
                    BY <1>3, <5>1
                <5> QED BY <3>2, <5>1, <5>2
            <4> QED BY <4>1, <4>2
        <3> QED BY <1>4, <3>1, <3>2
    <2> QED BY <2>1, <2>2 DEF EditsComeLater
<1>11. FoldInv'
    <2>1. e \in ServerEvents
        <3>1. writes[1] \in ServerItems
            BY <1>1, <1>3, ElementOfSeq DEF ServerTyped
        <3> QED BY <1>2, <1>3, <3>1 DEF ServerItems, e
    <2>2. /\ ~EndsRun(e)
          /\ e.type \in {"user_message", "tool_call", "tool_result", "interrupt",
                         "resume", "approval", "error"}
        BY <2>1 DEF ServerEvents
    <2>3. e.type = "tool_call" /\ Registered = Tools => ~Called(log, e.call)
        <3>1. e.type = "tool_call" => e.call \in Calls
            BY <1>4 DEF LoggedEvents
        <3> QED BY <1>1, <1>3, <1>6, <3>1 DEF WritesAreLegal
    <2>4. e.type = "tool_result" => Called(log, e.call) /\ ~Closed(log, e.call)
        <3>1. e.type = "tool_result" => e.call \in Calls
            BY <1>4 DEF LoggedEvents
        <3>2. e.type = "tool_result" => Called(log, e.call)
            <4>1. 1..(1 - 1) = {}
                OBVIOUS
            <4>2. e.type = "tool_result" => IsConclusion(writes[1]) /\ writes[1].event.call = e.call
                BY <1>2, <1>3 DEF IsConclusion, e
            <4> QED BY <1>1, <1>3, <4>1, <4>2 DEF ToolInv, ResultsAreOfCalls
        <3> QED BY <1>1, <1>3, <1>6, <3>1, <3>2 DEF WritesAreLegal
    <2>5. e.type = "interrupt" => ~HasPending(log)
        BY <1>1, <1>3, <1>6 DEF WritesAreLegal
    <2>6. e.type = "resume" => HasPending(log) /\ e.index = Pending(log).index
        BY <1>1, <1>3, <1>6 DEF WritesAreLegal, e
    <2> DEFINE s == Fold!Folded(log)
               r == Fold!Reduce(s, e)
    <2>7. IsFoldOf(r, Append(log, e)) /\ r.broken = s.broken \cup Flags(log, e)
        BY <1>1, <1>4, <2>2, <2>4, <2>5, <2>6, FoldTakes DEF FoldInv
    <2>8. Flags(log, e) \subseteq {"INV-001"} /\ (Registered = Tools => Flags(log, e) = {})
        BY <2>3, <2>4 DEF Flags
    <2>9. Fold!Folded(Append(log, e)) = r
        BY <1>4, FoldedGrows DEF Logs
    <2> QED BY <1>1, <1>4, <2>7, <2>8, <2>9 DEF FoldInv
<1> QED BY <1>9, <1>10, <1>11 DEF LogInv

\* So does a write that is no event.
LEMMA OtherWriteIsLegal ==
    ASSUME ToolInv, LogInv, writes # <<>>, writes' = Tail(writes),
           Head(writes).kind # "append", log' = log
    PROVE  LogInv'
<1>1. /\ Head(writes) = writes[1] /\ Len(writes) \in Nat \ {0}
      /\ Len(writes') = Len(writes) - 1
      /\ \A i \in 1..Len(writes') : i + 1 \in 1..Len(writes) /\ writes'[i] = writes[i + 1]
      /\ 1 \in 1..Len(writes)
    BY RestOfWrites
<1>2. \A c : ~IsConclusionOf(writes[1], c)
    BY <1>1 DEF IsConclusionOf
<1>3. WritesAreLegal /\ EditsComeLater /\ FoldInv
    BY DEF LogInv
<1>4. \A i, j \in 1..Len(writes') : i + 1 = j + 1 => i = j
    OBVIOUS
<1>5. WritesAreLegal'
    <2>1. ASSUME NEW i \in 1..Len(writes'), NEW c \in Calls, IsRecordingOf(writes'[i], c)
          PROVE  /\ Registered = Tools => ~Called(log, c)
                 /\ \A j \in 1..Len(writes') : IsRecordingOf(writes'[j], c) => j = i
        BY <1>1, <1>3, <1>4, <2>1 DEF WritesAreLegal
    <2>2. ASSUME NEW i \in 1..Len(writes'), NEW c \in Calls, IsConclusionOf(writes'[i], c)
          PROVE  /\ ~Closed(log, c)
                 /\ \A j \in 1..Len(writes') : IsConclusionOf(writes'[j], c) => j = i
        BY <1>1, <1>3, <1>4, <2>2 DEF WritesAreLegal
    <2>3. ASSUME NEW i \in 1..Len(writes') PROVE IsAsking(writes'[i]) => ~HasPending(log)
        BY <1>1, <1>3 DEF WritesAreLegal
    <2>4. ASSUME NEW i \in 1..Len(writes'), IsResuming(writes'[i])
          PROVE  /\ HasPending(log) /\ writes'[i].event.index = Pending(log).index
                 /\ \A j \in 1..Len(writes') : IsResuming(writes'[j]) => j = i
        BY <1>1, <1>3, <1>4, <2>4 DEF WritesAreLegal
    <2> QED BY <2>1, <2>2, <2>3, <2>4 DEF WritesAreLegal
<1>6. EditsComeLater'
    <2>1. ASSUME NEW i \in 1..Len(writes'), NEW c \in Calls,
                 IsRecordingOf(writes'[i], EditOf(c)), ~Closed(log, c)
          PROVE  \E j \in 1..(i - 1) : IsConclusionOf(writes'[j], c)
        <3>1. PICK j \in 1..i : IsConclusionOf(writes[j], c)
            BY <1>1, <1>3, <2>1 DEF EditsComeLater
        <3>2. j - 1 \in 1..(i - 1) /\ j - 1 \in 1..Len(writes') /\ (j - 1) + 1 = j
            BY <1>1, <1>2, <3>1
        <3> QED BY <1>1, <3>1, <3>2
    <2> QED BY <1>3, <2>1 DEF EditsComeLater
<1> QED BY <1>3, <1>5, <1>6 DEF LogInv, FoldInv

\* A new list of writes that neither records nor concludes a call, asks nothing
\* and resumes nothing is legal.
IsIdle(w) ==
    /\ ~IsAsking(w) /\ ~IsResuming(w)
    /\ \A c : ~IsRecordingOf(w, c) /\ ~IsConclusionOf(w, c)

LEMMA IdleWritesAreLegal ==
    ASSUME LogInv, log' = log, \A i \in 1..Len(writes') : IsIdle(writes'[i])
    PROVE  LogInv'
BY DEF LogInv, FoldInv, WritesAreLegal, EditsComeLater, IsIdle

\* Neither is one that concludes an open call besides.
LEMMA ConclusionIsLegal ==
    ASSUME LogInv, log' = log, NEW c \in Calls, ~Closed(log, c),
           NEW n, NEW w, IsConclusionOf(w, c),
           \A i \in 1..Len(writes') : IF i = n THEN writes'[i] = w ELSE IsIdle(writes'[i])
    PROVE  LogInv'
<1>1. \A d : IsConclusionOf(w, d) => d = c
    BY DEF IsConclusionOf
<1>2. /\ ~IsAsking(w) /\ ~IsResuming(w) /\ \A d : ~IsRecordingOf(w, d)
    BY DEF IsConclusionOf, IsAsking, IsResuming, IsRecordingOf
<1>3. \A i \in 1..Len(writes') :
          /\ ~IsAsking(writes'[i]) /\ ~IsResuming(writes'[i])
          /\ \A d : ~IsRecordingOf(writes'[i], d)
          /\ \A d : IsConclusionOf(writes'[i], d) => d = c /\ i = n
    BY <1>1, <1>2 DEF IsIdle
<1>4. WritesAreLegal'
    BY <1>3 DEF WritesAreLegal
<1>5. EditsComeLater'
    BY <1>3 DEF LogInv, EditsComeLater
<1> QED BY <1>4, <1>5 DEF LogInv, FoldInv

LEMMA SomeWritesAreIdle ==
    /\ IsIdle(Reporting) /\ IsIdle(Refresh)
    /\ \A w : IsRowWrite(w) => IsIdle(w)
    /\ \A s, a : IsIdle(Insert(s, a)) /\ IsIdle(Update(s))
    /\ \A e : e.type \in {"approval", "user_message"} => IsIdle(Appending(e))
    /\ \A r : IsIdle(Provision(r))
BY WhatWritesDo DEF IsIdle, IsAsking, IsResuming, IsRecordingOf, IsConclusionOf, IsRowWrite, Provision

LEMMA JudgedIsLegal ==
    ASSUME ToolInv, LogInv, NEW o \in Outcomes(cur), Judged(o)
    PROVE  LogInv'
<1>1. /\ cur \in Requests /\ ~Closed(log, cur.call) /\ log' = log
      /\ \/ writes' = <<>>
         \/ writes' = <<Insert("pending", Actual(cur))>>
         \/ /\ ~HasPending(log)
            /\ writes' = <<Appending(InterruptEvent(cur.call, InterruptCount(log)))>>
         \/ writes' = <<Reporting, Concluding(cur, "rejected")>>
         \/ writes' = <<Reporting, Concluding(cur, "unknown"), Update("unknown")>>
         \/ writes' = <<Concluding(cur, "executed"), Update("executed")>>
    BY JudgedStep
<1>2. cur.call \in Calls
    BY <1>1 DEF Requests
<1>3. \A s : IsConclusionOf(Concluding(cur, s), cur.call)
    BY WhatWritesDo DEF IsConclusionOf
<1>4. CASE writes' = <<>> \/ writes' = <<Insert("pending", Actual(cur))>>
    <2>1. \A i \in 1..Len(writes') : IsIdle(writes'[i])
        BY <1>4, SomeWritesAreIdle
    <2> QED BY <1>1, <2>1, IdleWritesAreLegal
<1>5. CASE /\ ~HasPending(log)
           /\ writes' = <<Appending(InterruptEvent(cur.call, InterruptCount(log)))>>
    <2>1. \A i \in 1..Len(writes') :
              /\ ~IsResuming(writes'[i])
              /\ \A c : ~IsRecordingOf(writes'[i], c) /\ ~IsConclusionOf(writes'[i], c)
        BY <1>5, WhatWritesDo DEF IsResuming, IsRecordingOf, IsConclusionOf, InterruptEvent
    <2> QED BY <1>1, <1>5, <2>1 DEF LogInv, FoldInv, WritesAreLegal, EditsComeLater
<1>6. CASE writes' = <<Reporting, Concluding(cur, "rejected")>>
    <2>1. \A i \in 1..Len(writes') :
              IF i = 2 THEN writes'[i] = Concluding(cur, "rejected") ELSE IsIdle(writes'[i])
        BY <1>6, SomeWritesAreIdle
    <2> QED BY <1>1, <1>2, <1>3, <2>1, ConclusionIsLegal
<1>7. CASE writes' = <<Reporting, Concluding(cur, "unknown"), Update("unknown")>>
    <2>1. \A i \in 1..Len(writes') :
              IF i = 2 THEN writes'[i] = Concluding(cur, "unknown") ELSE IsIdle(writes'[i])
        BY <1>7, SomeWritesAreIdle
    <2> QED BY <1>1, <1>2, <1>3, <2>1, ConclusionIsLegal
<1>8. CASE writes' = <<Concluding(cur, "executed"), Update("executed")>>
    <2>1. \A i \in 1..Len(writes') :
              IF i = 1 THEN writes'[i] = Concluding(cur, "executed") ELSE IsIdle(writes'[i])
        BY <1>8, SomeWritesAreIdle
    <2> QED BY <1>1, <1>2, <1>3, <2>1, ConclusionIsLegal
<1> QED BY <1>1, <1>4, <1>5, <1>6, <1>7, <1>8

LEMMA ToolEndIsLegal ==
    ASSUME ToolInv, LogInv, ToolReturns \/ _handle_tool_failure
    PROVE  LogInv'
<1>1. PICK s \in Statuses, w \in WriteItems :
          /\ IsRowWrite(w)
          /\ \/ writes' = <<Concluding(cur, s), w>>
             \/ writes' = <<Reporting, Concluding(cur, s), w>>
    BY ToolEnd
<1>2. cur.call \in Calls /\ ~Closed(log, cur.call) /\ log' = log
    BY ToolEnd DEF Requests
<1>3. IsConclusionOf(Concluding(cur, s), cur.call)
    BY WhatWritesDo DEF IsConclusionOf
<1>4. IsIdle(w) /\ IsIdle(Reporting)
    BY <1>1, SomeWritesAreIdle
<1>5. CASE writes' = <<Concluding(cur, s), w>>
    <2>1. \A i \in 1..Len(writes') :
              IF i = 1 THEN writes'[i] = Concluding(cur, s) ELSE IsIdle(writes'[i])
        BY <1>4, <1>5
    <2> QED BY <1>2, <1>3, <2>1, ConclusionIsLegal
<1>6. CASE writes' = <<Reporting, Concluding(cur, s), w>>
    <2>1. \A i \in 1..Len(writes') :
              IF i = 2 THEN writes'[i] = Concluding(cur, s) ELSE IsIdle(writes'[i])
        BY <1>4, <1>6
    <2> QED BY <1>2, <1>3, <2>1, ConclusionIsLegal
<1> QED BY <1>1, <1>5, <1>6

\* The call of edited arguments is only driven once it was recorded.
LEMMA ExecuteIsLegal ==
    ASSUME ToolInv, LogInv, log' = log, NEW k \in Requests, execute(k),
           Called(log, k.call) \/ \A c \in Calls : k.call # EditOf(c)
    PROVE  LogInv'
<1>1. k.call \in Calls /\ WritesAreLegal /\ EditsComeLater
    BY DEF Requests, LogInv
<1>2. CASE writes' = <<>>
    BY <1>2, IdleWritesAreLegal
<1>3. CASE writes' = <<Recording(k)>> /\ ~Called(log, k.call)
    <2>1. \A i \in 1..Len(writes') :
              /\ i = 1
              /\ ~IsResuming(writes'[i]) /\ ~IsAsking(writes'[i])
              /\ \A c : ~IsConclusionOf(writes'[i], c)
              /\ \A c : IsRecordingOf(writes'[i], c) => c = k.call
        BY <1>3, WhatWritesDo DEF IsResuming, IsAsking, IsRecordingOf, IsConclusionOf
    <2>2. WritesAreLegal'
        BY <1>3, <2>1 DEF WritesAreLegal
    <2>3. EditsComeLater'
        BY <1>1, <1>3, <2>1 DEF EditsComeLater
    <2> QED BY <2>2, <2>3 DEF LogInv, FoldInv
<1>4. CASE /\ writes' = <<Recording(k), Reporting, Concluding(k, "failed")>>
           /\ k.tool \notin Registered /\ ~Closed(log, k.call)
    <2>1. \A i \in 1..Len(writes') :
              /\ ~IsResuming(writes'[i]) /\ ~IsAsking(writes'[i])
              /\ \A c : IsConclusionOf(writes'[i], c) => c = k.call /\ i = 3
              /\ \A c : IsRecordingOf(writes'[i], c) => c = k.call /\ i = 1
        <3> DEFINE x == Recording(k)
                   y == Concluding(k, "failed")
        <3>1. /\ ~IsResuming(x) /\ ~IsAsking(x)
              /\ \A c : ~IsConclusionOf(x, c) /\ (IsRecordingOf(x, c) => c = k.call)
            BY WhatWritesDo DEF IsResuming, IsAsking, IsRecordingOf, IsConclusionOf
        <3>2. /\ ~IsResuming(y) /\ ~IsAsking(y)
              /\ \A c : ~IsRecordingOf(y, c) /\ (IsConclusionOf(y, c) => c = k.call)
            BY WhatWritesDo DEF IsResuming, IsAsking, IsRecordingOf, IsConclusionOf
        <3>3. writes' = <<x, Reporting, y>> /\ IsIdle(Reporting)
            BY <1>4, SomeWritesAreIdle
        <3> HIDE DEF x, y
        <3> QED BY <3>1, <3>2, <3>3 DEF IsIdle
    <2>2. Registered # Tools
        BY <1>4 DEF Requests
    <2>3. WritesAreLegal'
        BY <1>4, <2>1, <2>2 DEF WritesAreLegal
    <2>4. EditsComeLater'
        <3>1. ASSUME NEW c \in Calls, k.call = EditOf(c) PROVE Closed(log, c)
            BY <1>1, <3>1 DEF EditsComeLater
        <3> QED BY <1>1, <2>1, <3>1 DEF EditsComeLater
    <2> QED BY <2>3, <2>4 DEF LogInv, FoldInv
<1> QED BY <1>2, <1>3, <1>4 DEF execute

LEMMA DriveNextIsLegal ==
    ASSUME ToolInv, LogInv, DriveNext
    PROVE  LogInv'
<1>1. PICK c \in queue : execute(Request(c, ToolOf(log, c), ArgsOf(log, c))) /\ log' = log
    BY DEF DriveNext, LeastInLogOrder
<1>2. Called(log, c) /\ log \in Logs
    BY DEF ToolInv, Typed
<1>3. Request(c, ToolOf(log, c), ArgsOf(log, c)) \in Requests
    BY <1>2, RequestOfCall DEF Request, Requests
<1>4. Request(c, ToolOf(log, c), ArgsOf(log, c)).call = c
    BY DEF Request
<1> QED BY <1>1, <1>2, <1>3, <1>4, ExecuteIsLegal

LEMMA RequestIsLegal ==
    ASSUME ToolInv, LogInv, NEW c \in Originals, NEW t \in Tools, NEW a \in Args,
           handle_tools_call(c, t, a)
    PROVE  LogInv'
<1>1. c \in Calls /\ \A d \in Calls : c # EditOf(d)
    BY BoundsAreNat, OriginalsAreCalls DEF Originals, Calls, EditOf
<1>2. Request(c, t, a) \in Requests /\ Request(c, t, a).call = c
    BY <1>1 DEF Request, Requests
<1>3. execute(Request(c, t, a)) /\ log' = log
    BY DEF handle_tools_call, durable
<1> QED BY <1>1, <1>2, <1>3, ExecuteIsLegal

\* An answer is to a question about an open call, so the call of other arguments
\* was not recorded by an earlier one.
LEMMA AnswerIsLegal ==
    ASSUME ToolInv, LogInv, NEW d \in Decisions, NEW a \in Args, NEW s \in Scopes,
           _handle_approve(d, a, s)
    PROVE  LogInv'
<1> DEFINE ap == Approving(d, a, s)
           x == Concluding(Asked, "rejected")
           y == Concluding(Asked, "superseded")
           z == Rerecording(a)
<1>1. decide(d, a, s) /\ HasPending(log) /\ Open(log, Pending(log).call)
    BY DEF _handle_approve, Decidable, HasCurrent
<1>2. /\ Asked \in Requests /\ Asked.call = Pending(log).call
    BY <1>1, AskedIs
<1>3. /\ log' = log /\ Target(a) \in Calls
      /\ ap.kind = "append" /\ ap.event.type = "approval"
      /\ Resuming.kind = "append" /\ Resuming.event.type = "resume"
      /\ \/ writes' = <<x, ap, Resuming>>
         \/ writes' = <<y, z, ap, Resuming>> /\ a # Asked.args
         \/ writes' = <<ap, Resuming>>
    BY <1>1, DecideIs
<1>4. Resuming.event.index = Pending(log).index
    BY WhatWritesDo DEF Resuming, ResumeEvent
<1>5. /\ z.kind = "append" /\ z.event.type = "tool_call" /\ z.event.call = Target(a)
      /\ x.kind = "append" /\ x.event.type = "tool_result" /\ x.event.call = Asked.call
      /\ y.kind = "append" /\ y.event.type = "tool_result" /\ y.event.call = Asked.call
    BY WhatWritesDo DEF Rerecording, Request
<1>6. ~Closed(log, Asked.call) /\ Asked.call \in Calls
    BY <1>1, <1>2 DEF Open, Requests
<1>7. a # Asked.args => Target(a) = EditOf(Asked.call) /\ ~Called(log, Target(a))
    BY <1>6 DEF Target, LogInv, EditsComeLater
<1>8. /\ \A c : IsRecordingOf(z, c) <=> c = Target(a)
      /\ \A c : IsConclusionOf(x, c) <=> c = Asked.call
      /\ \A c : IsConclusionOf(y, c) <=> c = Asked.call
      /\ ~IsAsking(x) /\ ~IsAsking(y) /\ ~IsAsking(z) /\ ~IsAsking(ap) /\ ~IsAsking(Resuming)
      /\ ~IsResuming(x) /\ ~IsResuming(y) /\ ~IsResuming(z) /\ ~IsResuming(ap)
      /\ \A c : /\ ~IsRecordingOf(x, c) /\ ~IsRecordingOf(y, c) /\ ~IsRecordingOf(ap, c)
                /\ ~IsRecordingOf(Resuming, c)
                /\ ~IsConclusionOf(z, c) /\ ~IsConclusionOf(ap, c) /\ ~IsConclusionOf(Resuming, c)
    BY <1>3, <1>5 DEF IsRecordingOf, IsConclusionOf, IsAsking, IsResuming
<1>9. EditsComeLater /\ FoldInv
    BY DEF LogInv
<1>10. \A c \in Calls : EditOf(c) = EditOf(Asked.call) => c = Asked.call
    BY <1>6, BoundsAreNat DEF EditOf, Calls
<1> HIDE DEF ap, x, y, z
<1>11. CASE writes' = <<x, ap, Resuming>>
    <2>1. \A i \in 1..Len(writes') :
              /\ ~IsAsking(writes'[i]) /\ \A c : ~IsRecordingOf(writes'[i], c)
              /\ \A c : IsConclusionOf(writes'[i], c) => c = Asked.call /\ i = 1
              /\ IsResuming(writes'[i]) => i = 3 /\ writes'[i] = Resuming
        BY <1>8, <1>11
    <2>2. WritesAreLegal'
        BY <1>1, <1>3, <1>4, <1>6, <2>1 DEF WritesAreLegal
    <2>3. EditsComeLater'
        BY <1>3, <1>9, <2>1 DEF EditsComeLater
    <2> QED BY <1>3, <1>9, <2>2, <2>3 DEF LogInv, FoldInv
<1>12. CASE writes' = <<y, z, ap, Resuming>> /\ a # Asked.args
    <2>1. \A i \in 1..Len(writes') :
              /\ ~IsAsking(writes'[i])
              /\ \A c : IsRecordingOf(writes'[i], c) => c = Target(a) /\ i = 2
              /\ \A c : IsConclusionOf(writes'[i], c) => c = Asked.call /\ i = 1
              /\ IsResuming(writes'[i]) => i = 4 /\ writes'[i] = Resuming
        BY <1>8, <1>12
    <2>2. WritesAreLegal'
        <3>1. ASSUME NEW i \in 1..Len(writes'), NEW c \in Calls, IsRecordingOf(writes'[i], c)
              PROVE  ~Called(log', c) /\ \A j \in 1..Len(writes') : IsRecordingOf(writes'[j], c) => j = i
            BY <1>3, <1>7, <1>12, <2>1, <3>1
        <3>2. ASSUME NEW i \in 1..Len(writes'), NEW c \in Calls, IsConclusionOf(writes'[i], c)
              PROVE  ~Closed(log', c) /\ \A j \in 1..Len(writes') : IsConclusionOf(writes'[j], c) => j = i
            BY <1>3, <1>6, <2>1, <3>2
        <3>3. ASSUME NEW i \in 1..Len(writes'), IsResuming(writes'[i])
              PROVE  /\ HasPending(log') /\ writes'[i].event.index = Pending(log').index
                     /\ \A j \in 1..Len(writes') : IsResuming(writes'[j]) => j = i
            BY <1>1, <1>3, <1>4, <2>1, <3>3
        <3> QED BY <2>1, <3>1, <3>2, <3>3 DEF WritesAreLegal
    <2>3. writes'[1] = y /\ 1 \in 1..(2 - 1)
        BY <1>12
    <2>4. EditsComeLater'
        BY <1>3, <1>7, <1>8, <1>9, <1>10, <1>12, <2>1, <2>3 DEF EditsComeLater
    <2> QED BY <1>3, <1>9, <2>2, <2>4 DEF LogInv, FoldInv
<1>13. CASE writes' = <<ap, Resuming>>
    <2>1. \A i \in 1..Len(writes') :
              /\ ~IsAsking(writes'[i])
              /\ \A c : ~IsRecordingOf(writes'[i], c) /\ ~IsConclusionOf(writes'[i], c)
              /\ IsResuming(writes'[i]) => i = 2 /\ writes'[i] = Resuming
        BY <1>8, <1>13
    <2>2. WritesAreLegal'
        BY <1>1, <1>3, <1>4, <2>1 DEF WritesAreLegal
    <2>3. EditsComeLater'
        BY <1>3, <1>9, <2>1 DEF EditsComeLater
    <2> QED BY <1>3, <1>9, <2>2, <2>3 DEF LogInv, FoldInv
<1> QED BY <1>3, <1>11, <1>12, <1>13

\* Starting, finishing and being killed.
LEMMA TurnIsLegal ==
    ASSUME LogInv, Finish \/ Start \/ Crash
    PROVE  LogInv'
<1> DEFINE Other == {Refresh, Provision("run"), Provision("branch"), Appending(UserMessage)}
<1>1. log' = log
    BY DEF Finish, Start, Crash, durable
<1>2. \A w \in Other : IsIdle(w)
    BY SomeWritesAreIdle DEF UserMessage
<1>3. /\ Refresh \in Other /\ Provision("run") \in Other /\ Provision("branch") \in Other
      /\ Appending(UserMessage) \in Other
    OBVIOUS
<1> HIDE DEF Other
<1>4. writes' \in Seq(Other)
    <2>1. CASE Finish
        BY <1>3, <2>1, ShortLists DEF Finish, EndOfHandler
    <2>2. CASE Crash
        BY <2>2 DEF Crash
    <2>3. CASE Start
        <3> DEFINE r == IF "run" \in provisioned THEN <<>> ELSE <<Provision("run")>>
                   b == IF "branch" \in provisioned THEN <<>> ELSE <<Provision("branch")>>
                   u == IF log = <<>> THEN <<Appending(UserMessage)>> ELSE <<>>
        <3>1. writes' = r \o b \o u
            BY <2>3 DEF Start, ensure_run
        <3>2. r \in Seq(Other) /\ b \in Seq(Other) /\ u \in Seq(Other)
            BY <1>3, ShortLists
        <3> HIDE DEF r, b, u
        <3> QED BY <3>1, <3>2, ConcatProperties
    <2> QED BY <2>1, <2>2, <2>3
<1> QED BY <1>1, <1>2, <1>4, ElementOfSeq, IdleWritesAreLegal

-----------------------------------------------------------------------------
(* The theorem *)

LEMMA LogBegins == Init => LogInv
<1> SUFFICES ASSUME Init PROVE LogInv
    OBVIOUS
<1>1. log = <<>> /\ writes = <<>>
    BY DEF Init
<1>2. /\ ~HasPending(log) /\ \A c : ~Called(log, c) /\ ~Closed(log, c) /\ ~Open(log, c)
    BY <1>1 DEF HasPending, PendingInterrupts, Called, Closed, Open, IsCall, IsResult
<1>3. Fold!Folded(log) = Fold!Fresh
    BY <1>1, FoldedStarts
<1>4. FoldInv
    BY <1>2, <1>3 DEF FoldInv, IsFoldOf, Fold!Fresh, States, RunStatuses
<1> QED BY <1>1, <1>2, <1>4 DEF LogInv, WritesAreLegal, EditsComeLater

LEMMA LogKeeps == ServerInv /\ DriveInv /\ LogInv /\ [Next]_vars => LogInv'
<1> SUFFICES ASSUME ServerInv, DriveInv, LogInv, [Next]_vars PROVE LogInv'
    OBVIOUS
<1>1. ToolInv
    BY DEF ServerInv
<1>2. CASE AppendEvent
    BY <1>2, AppendedIsLegal
<1>3. CASE WriteRow \/ RefreshStatus \/ WriteProvision
    <2>1. /\ writes # <<>> /\ writes' = Tail(writes)
          /\ Head(writes).kind # "append" /\ log' = log
        BY <1>3 DEF WriteRow, RefreshStatus, WriteProvision, durable
    <2> QED BY <1>1, <2>1, OtherWriteIsLegal
<1>4. CASE Judge
    BY <1>1, <1>4, JudgedIsLegal DEF Judge
<1>5. CASE ToolReturns \/ _handle_tool_failure
    BY <1>1, <1>5, ToolEndIsLegal
<1>6. CASE DriveNext
    BY <1>1, <1>6, DriveNextIsLegal
<1>7. CASE Client
    BY <1>1, <1>7, RequestIsLegal DEF Client
<1>8. CASE Human
    BY <1>1, <1>8, AnswerIsLegal DEF Human
<1>9. CASE Finish \/ Start \/ Crash
    BY <1>9, TurnIsLegal
<1>10. CASE resume_open_calls \/ Clock \/ UNCHANGED vars
    <2>1. UNCHANGED <<log, writes>>
        BY <1>10 DEF resume_open_calls, Clock, TimePasses, durable, volatile, vars
    <2> QED BY <2>1 DEF LogInv, FoldInv, WritesAreLegal, EditsComeLater
<1> QED BY <1>2, <1>3, <1>4, <1>5, <1>6, <1>7, <1>8, <1>9, <1>10
        DEF Next, Server, Pipeline, Write

\* However the server is asked, answered, killed and started again, its log breaks
\* no invariant of docs/semantics.md but INV-001, a call recorded twice; and not
\* that one where every tool that is asked for is registered (mcp_server.py
\* 244-302, 348-400; execution.py 187-401; state.py 83-168).
THEOREM ServerLogIsLegal ==
    Spec => [](OnlyCallsRepeat /\ (Registered = Tools => LogInvariantsHold))
<1>1. FoldInv => OnlyCallsRepeat /\ (Registered = Tools => LogInvariantsHold)
    <2> DEFINE s == Fold!Folded(log)
    <2> SUFFICES ASSUME FoldInv
                 PROVE  OnlyCallsRepeat /\ (Registered = Tools => LogInvariantsHold)
        OBVIOUS
    <2>1. /\ s.status # "completed" /\ s.broken \subseteq {"INV-001"}
          /\ Registered = Tools => s.broken = {}
        BY DEF FoldInv, IsFoldOf
    <2>2. Fold!reduce_events(log) = s
        BY <2>1 DEF Fold!reduce_events
    <2> QED BY <2>1, <2>2 DEF OnlyCallsRepeat, LogInvariantsHold
<1>2. LogInv => FoldInv
    BY DEF LogInv
<1> QED BY <1>1, <1>2, LogBegins, LogKeeps, ServerAlways, DriveAlways, PTL DEF Spec

=============================================================================
