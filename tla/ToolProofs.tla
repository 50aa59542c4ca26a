----------------------------- MODULE ToolProofs ------------------------------
(***************************************************************************)
(* What holds of the execution pipeline whoever drives it, for every       *)
(* registry, every set of arguments and any number of calls.  Each action  *)
(* of ToolExecutor keeps the invariants stated here; McpServerProofs and   *)
(* LoopProofs add the steps of the driver and state the theorems.          *)
(***************************************************************************)
EXTENDS ToolProperties, FiniteSetTheorems, SequenceTheorems, WellFoundedInduction, TLAPS

-----------------------------------------------------------------------------
(* What the log and the pending writes are made of *)

LoggedEvents ==
    [type : {"user_message"}]
    \cup [type : {"agent_message"}, final : BOOLEAN]
    \cup [type : {"error"}, fatal : BOOLEAN]
    \cup [type : {"tool_call"}, call : Calls, tool : Tools, args : Args]
    \cup [type : {"tool_result"}, call : Calls, status : Statuses]
    \cup [type : {"interrupt"}, call : Calls, index : Nat]
    \cup [type : {"resume"}, index : Nat]
    \cup [type : {"approval"}, call : Calls, tool : Tools, args : Args,
          decision : Decisions, scope : Scopes]
    \cup [type : {"budget_update"}, cost : Nat]
    \cup [type : {"compaction"}, replaces : SUBSET Nat]

\* An event after which the run goes on no more.
EndsRun(e) == IsFatal(e) \/ IsFinal(e)

GoesOn(l) == \A i \in 1..Len(l) : ~EndsRun(l[i])

\* No driver adds anything to a run that ended, so every event counts.
Logs == {l \in Seq(LoggedEvents) : \A i \in 1..Len(l) : Live(l, i)}

RowsInUse == [status : RowStatuses \ {"none"}, args : Args]

WriteItems ==
    [kind : {"append"}, event : LoggedEvents]
    \cup [kind : {"insert"}, status : RowStatuses \ {"none"}, args : Args]
    \cup [kind : {"update"}, status : RowStatuses \ {"none"}]
    \cup [kind : {"refresh"}]
    \cup [kind : {"provision"}, row : {"run", "branch"}]
    \cup [kind : {"tasks"}, tasks : SUBSET Calls]
    \cup [kind : {"checkpoint"}]

-----------------------------------------------------------------------------
(* Lemmas on lists *)

\* Removing the first of a list shifts the others.
LEMMA ShiftedTail ==
    ASSUME NEW S, NEW s \in Seq(S), s # <<>>
    PROVE  /\ Head(s) = s[1] /\ Head(s) \in S
           /\ Tail(s) \in Seq(S)
           /\ Len(Tail(s)) = Len(s) - 1
           /\ Len(s) \in Nat \ {0}
           /\ \A i \in 1..Len(Tail(s)) : Tail(s)[i] = s[i + 1]
BY HeadTailProperties, LenProperties, EmptySeq, ElementOfSeq

\* Lists of up to four elements.
LEMMA ShortLists ==
    ASSUME NEW S
    PROVE  /\ <<>> \in Seq(S)
           /\ \A x \in S : <<x>> \in Seq(S)
           /\ \A x, y \in S : <<x, y>> \in Seq(S)
           /\ \A x, y, z \in S : <<x, y, z>> \in Seq(S)
           /\ \A x, y, z, u \in S : <<x, y, z, u>> \in Seq(S)
OBVIOUS

\* One element and two more.
LEMMA OneAndTwo ==
    ASSUME NEW S, NEW x \in S, NEW y \in S, NEW z \in S
    PROVE  <<x>> \o <<y, z>> = <<x, y, z>>
<1> DEFINE s == <<x>> \o <<y, z>>
<1>1. <<x>> \in Seq(S) /\ <<y, z>> \in Seq(S) /\ <<x, y, z>> \in Seq(S)
    OBVIOUS
<1>2. /\ s \in Seq(S) /\ Len(s) = 3
      /\ s[1] = x /\ s[2] = y /\ s[3] = z
    BY <1>1, ConcatProperties
<1> DEFINE u == <<x, y, z>>
<1>3. u \in Seq(S) /\ Len(u) = 3 /\ u[1] = x /\ u[2] = y /\ u[3] = z
    OBVIOUS
<1> HIDE DEF s, u
<1>4. s = u
    BY <1>2, <1>3, SeqEqual
<1> QED BY <1>4 DEF s, u

\* Lists joined to two more.
LEMMA JoinedLists ==
    ASSUME NEW S, NEW x \in S, NEW y \in S
    PROVE  /\ <<>> \o <<x>> \o <<y>> = <<x, y>>
           /\ \A u \in S : <<u>> \o <<x>> \o <<y>> = <<u, x, y>>
           /\ \A u, v \in S : <<u, v>> \o <<x>> \o <<y>> = <<u, v, x, y>>
<1>1. ASSUME NEW s \in Seq(S), NEW t \in Seq(S), Len(t) = Len(s) + 2,
             \A i \in 1..Len(s) : t[i] = s[i],
             t[Len(s) + 1] = x, t[Len(s) + 2] = y
      PROVE  s \o <<x>> \o <<y>> = t
    <2> DEFINE p == s \o <<x>>
               q == p \o <<y>>
    <2>1. /\ <<x>> \in Seq(S) /\ <<y>> \in Seq(S) /\ Len(<<x>>) = 1 /\ Len(<<y>>) = 1
          /\ <<x>>[1] = x /\ <<y>>[1] = y /\ Len(s) \in Nat
        BY LenProperties
    <2>2. /\ p \in Seq(S) /\ Len(p) = Len(s) + 1
          /\ \A i \in 1..Len(s) : p[i] = s[i]
          /\ p[Len(s) + 1] = x
        BY <2>1, ConcatProperties
    <2> HIDE DEF p
    <2>3. /\ q \in Seq(S) /\ Len(q) = Len(s) + 2
          /\ \A i \in 1..(Len(s) + 1) : q[i] = p[i]
          /\ q[Len(s) + 2] = y
        BY <2>1, <2>2, ConcatProperties
    <2> HIDE DEF q
    <2>4. \A i \in 1..Len(q) : q[i] = t[i]
        BY <1>1, <2>1, <2>2, <2>3
    <2>5. q = t
        BY <1>1, <2>3, <2>4, SeqEqual
    <2> QED BY <2>5 DEF p, q
<1>2. <<>> \o <<x>> \o <<y>> = <<x, y>>
    <2> DEFINE s == <<>>
               t == <<x, y>>
    <2>1. /\ s \in Seq(S) /\ t \in Seq(S) /\ Len(s) = 0 /\ Len(t) = Len(s) + 2
          /\ \A i \in 1..Len(s) : t[i] = s[i]
          /\ t[Len(s) + 1] = x /\ t[Len(s) + 2] = y
        OBVIOUS
    <2> HIDE DEF s, t
    <2>2. s \o <<x>> \o <<y>> = t
        BY <2>1, <1>1
    <2> QED BY <2>2 DEF s, t
<1>3. \A u \in S : <<u>> \o <<x>> \o <<y>> = <<u, x, y>>
    <2> SUFFICES ASSUME NEW u \in S
                 PROVE  <<u>> \o <<x>> \o <<y>> = <<u, x, y>>
        OBVIOUS
    <2> DEFINE s == <<u>>
               t == <<u, x, y>>
    <2>1. /\ s \in Seq(S) /\ t \in Seq(S) /\ Len(s) = 1 /\ Len(t) = Len(s) + 2
          /\ \A i \in 1..Len(s) : t[i] = s[i]
          /\ t[Len(s) + 1] = x /\ t[Len(s) + 2] = y
        OBVIOUS
    <2> HIDE DEF s, t
    <2>2. s \o <<x>> \o <<y>> = t
        BY <2>1, <1>1
    <2> QED BY <2>2 DEF s, t
<1>4. \A u, v \in S : <<u, v>> \o <<x>> \o <<y>> = <<u, v, x, y>>
    <2> SUFFICES ASSUME NEW u \in S, NEW v \in S
                 PROVE  <<u, v>> \o <<x>> \o <<y>> = <<u, v, x, y>>
        OBVIOUS
    <2> DEFINE s == <<u, v>>
               t == <<u, v, x, y>>
    <2>1. /\ s \in Seq(S) /\ t \in Seq(S) /\ Len(s) = 2 /\ Len(t) = Len(s) + 2
          /\ \A i \in 1..Len(s) : t[i] = s[i]
          /\ t[Len(s) + 1] = x /\ t[Len(s) + 2] = y
        OBVIOUS
    <2> HIDE DEF s, t
    <2>2. s \o <<x>> \o <<y>> = t
        BY <2>1, <1>1
    <2> QED BY <2>2 DEF s, t
<1> QED BY <1>2, <1>3, <1>4

\* A set of numbers that is not empty has a least one.
LEMMA LeastOf ==
    ASSUME NEW S, S \subseteq Nat, S # {}
    PROVE  \E n \in S : \A m \in S : n <= m
<1>1. PICK n \in S : \A m \in S : ~(<<m, n>> \in OpToRel(<, Nat))
    BY NatLessThanWellFounded, WFMin
<1>2. \A m \in S : ~(m < n)
    BY <1>1 DEF OpToRel
<1> QED BY <1>2

-----------------------------------------------------------------------------
(* Lemmas on logs *)

\* Every event of a log of a driver counts.
LEMMA AllLive ==
    ASSUME NEW l \in Logs
    PROVE  /\ l \in Seq(LoggedEvents) /\ Len(l) \in Nat
           /\ \A i \in 1..Len(l) : Live(l, i) /\ l[i] \in LoggedEvents
BY ElementOfSeq, LenProperties DEF Logs

\* What one more event changes of a run that goes on, position by position.
LEMMA AppendIs ==
    ASSUME NEW l \in Logs, NEW e \in LoggedEvents, GoesOn(l)
    PROVE  /\ Append(l, e) \in Logs
           /\ Len(Append(l, e)) = Len(l) + 1
           /\ \A i \in 1..Len(l) : Append(l, e)[i] = l[i]
           /\ Append(l, e)[Len(l) + 1] = e
           /\ GoesOn(Append(l, e)) <=> ~EndsRun(e)
<1> DEFINE m == Append(l, e)
<1>1. /\ m \in Seq(LoggedEvents)
      /\ Len(m) = Len(l) + 1
      /\ \A i \in 1..Len(l) : m[i] = l[i]
      /\ m[Len(l) + 1] = e
    BY AllLive, AppendProperties
<1>2. Len(l) \in Nat
    BY AllLive
<1> HIDE DEF m
<1>3. ASSUME NEW i \in 1..Len(m) PROVE Live(m, i)
    <2>1. \A j \in 1..(i - 1) : j \in 1..Len(l) /\ m[j] = l[j]
        BY <1>1, <1>2
    <2> QED BY <2>1 DEF Live, GoesOn, EndsRun
<1>4. m \in Logs
    BY <1>1, <1>3 DEF Logs
<1>5. GoesOn(m) <=> ~EndsRun(e)
    BY <1>1, <1>2 DEF GoesOn
<1> QED BY <1>1, <1>4, <1>5 DEF m

\* A call is recorded when some tool_call names it.
LEMMA CalledMeans ==
    ASSUME NEW l \in Logs, NEW c
    PROVE  Called(l, c) <=> \E i \in 1..Len(l) : l[i].type = "tool_call" /\ l[i].call = c
BY AllLive DEF Called, IsCall

\* It is closed when some tool_result follows such a tool_call.
LEMMA ClosedMeans ==
    ASSUME NEW l \in Logs, NEW c
    PROVE  Closed(l, c) <=> \E i \in 1..Len(l) :
              /\ l[i].type = "tool_result" /\ l[i].call = c
              /\ \E j \in 1..(i - 1) : l[j].type = "tool_call" /\ l[j].call = c
<1>1. \A i \in 1..Len(l) : Live(l, i)
    BY AllLive
<1>2. \A i \in 1..Len(l) : \A j \in 1..(i - 1) : j \in 1..Len(l)
    BY AllLive
<1> QED BY <1>1, <1>2 DEF Closed, IsCall, IsResult

\* A closed call was recorded.
LEMMA ClosedIsCalled ==
    ASSUME NEW l \in Logs, NEW c, Closed(l, c)
    PROVE  Called(l, c)
BY ClosedMeans, CalledMeans, AllLive

\* One more event records one more call at most.
LEMMA AppendCalled ==
    ASSUME NEW l \in Logs, NEW e \in LoggedEvents, GoesOn(l), NEW c
    PROVE  Called(Append(l, e), c) <=> Called(l, c) \/ (e.type = "tool_call" /\ e.call = c)
<1> DEFINE m == Append(l, e)
<1>1. /\ m \in Logs
      /\ Len(m) = Len(l) + 1 /\ Len(l) \in Nat
      /\ \A i \in 1..Len(l) : m[i] = l[i]
      /\ m[Len(l) + 1] = e
    BY AppendIs, AllLive
<1> HIDE DEF m
<1>2. Called(m, c) <=> \E i \in 1..Len(m) : m[i].type = "tool_call" /\ m[i].call = c
    BY <1>1, CalledMeans
<1>3. (\E i \in 1..Len(m) : m[i].type = "tool_call" /\ m[i].call = c) <=>
         \/ \E i \in 1..Len(l) : l[i].type = "tool_call" /\ l[i].call = c
         \/ e.type = "tool_call" /\ e.call = c
    BY <1>1
<1> QED BY <1>2, <1>3, CalledMeans DEF m

\* One more event closes a call only if it is the result of a recorded call.
LEMMA AppendClosed ==
    ASSUME NEW l \in Logs, NEW e \in LoggedEvents, GoesOn(l), NEW c
    PROVE  Closed(Append(l, e), c) <=>
              Closed(l, c) \/ (e.type = "tool_result" /\ e.call = c /\ Called(l, c))
<1> DEFINE m == Append(l, e)
           ClosesAt(s, i) == /\ s[i].type = "tool_result" /\ s[i].call = c
                             /\ \E j \in 1..(i - 1) : s[j].type = "tool_call" /\ s[j].call = c
<1>1. /\ m \in Logs
      /\ Len(m) = Len(l) + 1 /\ Len(l) \in Nat
      /\ \A i \in 1..Len(l) : m[i] = l[i]
      /\ m[Len(l) + 1] = e
    BY AppendIs, AllLive
<1> HIDE DEF m
<1>3. Closed(m, c) <=> \E i \in 1..Len(m) : ClosesAt(m, i)
    BY <1>1, ClosedMeans
<1>4. Closed(l, c) <=> \E i \in 1..Len(l) : ClosesAt(l, i)
    BY ClosedMeans
<1>5. \A i \in 1..Len(l) : ClosesAt(m, i) <=> ClosesAt(l, i)
    BY <1>1
<1>6. ClosesAt(m, Len(l) + 1) <=>
         e.type = "tool_result" /\ e.call = c
         /\ \E j \in 1..Len(l) : l[j].type = "tool_call" /\ l[j].call = c
    BY <1>1
<1>7. 1..Len(m) = 1..Len(l) \cup {Len(l) + 1}
    BY <1>1
<1> HIDE DEF ClosesAt
<1>8. Closed(m, c) <=> (\E i \in 1..Len(l) : ClosesAt(l, i)) \/ ClosesAt(m, Len(l) + 1)
    BY <1>3, <1>5, <1>7
<1> QED BY <1>8, <1>4, <1>6, CalledMeans DEF m

\* A recorded call has a first tool_call, and that is what FirstCall picks.
LEMMA FirstCallIs ==
    ASSUME NEW l \in Logs, NEW c, Called(l, c)
    PROVE  /\ FirstCall(l, c) \in 1..Len(l)
           /\ l[FirstCall(l, c)].type = "tool_call"
           /\ l[FirstCall(l, c)].call = c
           /\ \A j \in 1..(FirstCall(l, c) - 1) :
                 l[j].type = "tool_call" => l[j].call # c
<1> DEFINE T == {i \in 1..Len(l) : l[i].type = "tool_call" /\ l[i].call = c}
<1>1. T # {} /\ T \subseteq Nat
    BY CalledMeans
<1>2. PICK i \in T : \A j \in T : i <= j
    BY <1>1, LeastOf
<1>3. \A j \in 1..(i - 1) : l[j].type = "tool_call" => l[j].call # c
    BY <1>2, AllLive
<1> QED BY <1>3 DEF FirstCall

\* What a recorded call asks for is a tool and arguments of a request.
LEMMA RequestOfCall ==
    ASSUME NEW l \in Logs, NEW c, Called(l, c)
    PROVE  ToolOf(l, c) \in Tools /\ ArgsOf(l, c) \in Args /\ c \in Calls
<1>1. /\ l[FirstCall(l, c)] \in LoggedEvents
      /\ l[FirstCall(l, c)].type = "tool_call"
      /\ l[FirstCall(l, c)].call = c
    BY FirstCallIs, AllLive
<1> QED BY <1>1 DEF ToolOf, ArgsOf, LoggedEvents

\* As the log grows the first tool_call of a recorded call stays where it is,
\* and with it the request it stands for.
LEMMA RequestIsStable ==
    ASSUME NEW l \in Logs, NEW e \in LoggedEvents, GoesOn(l), NEW c, Called(l, c)
    PROVE  /\ FirstCall(Append(l, e), c) = FirstCall(l, c)
           /\ ToolOf(Append(l, e), c) = ToolOf(l, c)
           /\ ArgsOf(Append(l, e), c) = ArgsOf(l, c)
<1> DEFINE m == Append(l, e)
           First(s, i) == /\ i \in 1..Len(s)
                          /\ s[i].type = "tool_call"
                          /\ s[i].call = c
                          /\ \A j \in 1..(i - 1) : s[j].type = "tool_call" => s[j].call # c
<1>1. /\ m \in Logs
      /\ Len(m) = Len(l) + 1
      /\ Len(l) \in Nat
      /\ \A i \in 1..Len(l) : m[i] = l[i]
    BY AppendIs, AllLive
<1>2. Called(m, c)
    BY AppendCalled
<1> HIDE DEF m
<1>3. First(l, FirstCall(l, c)) /\ First(m, FirstCall(m, c))
    BY <1>1, <1>2, FirstCallIs
<1>4. First(m, FirstCall(l, c))
    BY <1>1, <1>3
<1>5. \A i, j : First(m, i) /\ First(m, j) => i = j
    BY <1>1
<1>6. FirstCall(m, c) = FirstCall(l, c)
    BY <1>3, <1>4, <1>5
<1> QED BY <1>6, <1>3, <1>1 DEF ToolOf, ArgsOf, m

\* A call recorded just now comes after all others and stands for the request
\* it was recorded with.
LEMMA RequestIsRecorded ==
    ASSUME NEW l \in Logs, NEW e \in LoggedEvents, GoesOn(l), NEW c,
           ~Called(l, c), e.type = "tool_call", e.call = c
    PROVE  /\ FirstCall(Append(l, e), c) = Len(l) + 1
           /\ ToolOf(Append(l, e), c) = e.tool
           /\ ArgsOf(Append(l, e), c) = e.args
<1> DEFINE m == Append(l, e)
<1>1. /\ m \in Logs
      /\ Len(m) = Len(l) + 1
      /\ Len(l) \in Nat
      /\ \A i \in 1..Len(l) : m[i] = l[i]
      /\ m[Len(l) + 1] = e
    BY AppendIs, AllLive
<1>2. Called(m, c)
    BY AppendCalled
<1>3. \A i \in 1..Len(l) : ~(l[i].type = "tool_call" /\ l[i].call = c)
    BY CalledMeans
<1> HIDE DEF m
<1>4. FirstCall(m, c) = Len(l) + 1
    BY <1>1, <1>2, <1>3, FirstCallIs
<1> QED BY <1>4, <1>1 DEF ToolOf, ArgsOf, m

-----------------------------------------------------------------------------
(* Lemmas on interrupts *)

Interrupts(l) == {i \in 1..Len(l) : l[i].type = "interrupt"}

\* A resume follows position i.
Resumed(l, i) == \E j \in (i + 1)..Len(l) : l[j].type = "resume"

\* Of a log whose every event counts, the pending interrupts are those no
\* resume follows and before which every other was resumed.
LEMMA PendingMeans ==
    ASSUME NEW l \in Logs
    PROVE  PendingInterrupts(l) =
              {i \in Interrupts(l) :
                  /\ ~Resumed(l, i)
                  /\ \A j \in Interrupts(l) : j < i =>
                        \E k \in (j + 1)..(i - 1) : l[k].type = "resume"}
<1>1. \A i \in 1..Len(l) : Live(l, i)
    BY AllLive
<1>2. \A i \in 1..Len(l) : (i + 1)..Len(l) \subseteq 1..Len(l) /\ 1..(i - 1) \subseteq 1..Len(l)
    BY AllLive
<1>3. \A i \in 1..Len(l) : \A j \in 1..(i - 1) : (j + 1)..(i - 1) \subseteq 1..Len(l)
    BY AllLive
<1>4. \A i \in 1..Len(l), type \in {"interrupt", "resume"} : IsLive(l, i, type) <=> l[i].type = type
    BY <1>1 DEF IsLive
<1>5. ASSUME NEW i \in 1..Len(l)
      PROVE  /\ (\A j \in (i + 1)..Len(l) : ~IsLive(l, j, "resume")) <=> ~Resumed(l, i)
             /\ (\A j \in 1..(i - 1) : IsLive(l, j, "interrupt") =>
                      \E k \in (j + 1)..(i - 1) : IsLive(l, k, "resume"))
                <=> \A j \in Interrupts(l) : j < i =>
                      \E k \in (j + 1)..(i - 1) : l[k].type = "resume"
    <2>1. (\A j \in (i + 1)..Len(l) : ~IsLive(l, j, "resume")) <=> ~Resumed(l, i)
        BY <1>2, <1>4 DEF Resumed
    <2>2. \A j \in 1..(i - 1) : (\E k \in (j + 1)..(i - 1) : IsLive(l, k, "resume"))
                              <=> \E k \in (j + 1)..(i - 1) : l[k].type = "resume"
        BY <1>3, <1>4
    <2>3. \A j : (j \in 1..(i - 1) /\ IsLive(l, j, "interrupt")) <=> (j \in Interrupts(l) /\ j < i)
        BY <1>2, <1>4, AllLive DEF Interrupts
    <2> QED BY <2>1, <2>2, <2>3
<1> QED BY <1>4, <1>5 DEF PendingInterrupts, Interrupts

\* There is one at most.
LEMMA PendingIsOne ==
    ASSUME NEW l \in Logs, NEW i \in PendingInterrupts(l), NEW j \in PendingInterrupts(l)
    PROVE  i = j
<1>1. \A a, b \in PendingInterrupts(l) : ~(a < b)
    <2> SUFFICES ASSUME NEW a \in PendingInterrupts(l), NEW b \in PendingInterrupts(l), a < b
                 PROVE  FALSE
        OBVIOUS
    <2>1. /\ a \in 1..Len(l) /\ b \in 1..Len(l) /\ ~Resumed(l, a)
          /\ \E k \in (a + 1)..(b - 1) : l[k].type = "resume"
        BY PendingMeans DEF Interrupts
    <2> QED BY <2>1, AllLive DEF Resumed
<1>2. i \in 1..Len(l) /\ j \in 1..Len(l)
    BY PendingMeans DEF Interrupts
<1> QED BY <1>1, <1>2, AllLive

\* When there is none, every interrupt was resumed.
LEMMA NonePending ==
    ASSUME NEW l \in Logs, ~HasPending(l), NEW i \in Interrupts(l)
    PROVE  Resumed(l, i)
<1> SUFFICES ASSUME ~Resumed(l, i) PROVE FALSE
    OBVIOUS
<1> DEFINE T == {j \in Interrupts(l) : ~Resumed(l, j)}
<1>1. T \subseteq Nat /\ T # {}
    BY AllLive DEF Interrupts
<1>2. PICK n \in T : \A m \in T : n <= m
    BY <1>1, LeastOf
<1>3. ASSUME NEW j \in Interrupts(l), j < n
      PROVE  \E k \in (j + 1)..(n - 1) : l[k].type = "resume"
    <2>1. PICK k \in (j + 1)..Len(l) : l[k].type = "resume"
        BY <1>2, <1>3, AllLive DEF Interrupts, Resumed
    <2>2. ~(k > n) /\ k # n
        BY <1>2, <2>1, AllLive DEF Interrupts, Resumed
    <2> QED BY <2>1, <2>2, AllLive DEF Interrupts
<1>4. n \in PendingInterrupts(l)
    BY <1>2, <1>3, PendingMeans
<1> QED BY <1>4 DEF HasPending

\* The pending interrupt is an interrupt of the log.
LEMMA PendingIsOf ==
    ASSUME NEW l \in Logs, HasPending(l)
    PROVE  \E i \in Interrupts(l) : /\ PendingInterrupts(l) = {i} /\ Pending(l) = l[i]
                                    /\ Pending(l).call \in Calls /\ Pending(l).index \in Nat
<1>1. PICK i \in PendingInterrupts(l) : TRUE
    BY DEF HasPending
<1>2. PendingInterrupts(l) = {i} /\ i \in Interrupts(l)
    BY <1>1, PendingIsOne, PendingMeans
<1>3. Pending(l) = l[i]
    BY <1>2 DEF Pending
<1>4. l[i] \in LoggedEvents /\ l[i].type = "interrupt"
    BY <1>2, AllLive DEF Interrupts
<1> QED BY <1>2, <1>3, <1>4 DEF LoggedEvents

\* Only an interrupt or a resume changes which interrupt is pending: a resume
\* ends it, and an interrupt is the pending one unless there is one already.
LEMMA AppendPending ==
    ASSUME NEW l \in Logs, NEW e \in LoggedEvents, GoesOn(l)
    PROVE  /\ e.type = "resume" => ~HasPending(Append(l, e))
           /\ e.type # "resume" /\ HasPending(l) =>
                 HasPending(Append(l, e)) /\ Pending(Append(l, e)) = Pending(l)
           /\ e.type # "interrupt" /\ ~HasPending(l) => ~HasPending(Append(l, e))
           /\ e.type = "interrupt" /\ ~HasPending(l) =>
                 HasPending(Append(l, e)) /\ Pending(Append(l, e)) = e
<1> DEFINE m == Append(l, e)
           n == Len(l) + 1
<1>1. /\ m \in Logs /\ Len(m) = n /\ Len(l) \in Nat
      /\ \A i \in 1..Len(l) : m[i] = l[i]
      /\ m[n] = e
    BY AppendIs, AllLive
<1> HIDE DEF m
<1>2. \A i \in 1..Len(l) : Resumed(m, i) <=> Resumed(l, i) \/ e.type = "resume"
    BY <1>1 DEF Resumed
<1>3. ~Resumed(m, n)
    BY <1>1 DEF Resumed
<1>4. /\ \A i \in 1..Len(l) : i \in Interrupts(m) <=> i \in Interrupts(l)
      /\ n \in Interrupts(m) <=> e.type = "interrupt"
      /\ Interrupts(m) \subseteq 1..n
      /\ Interrupts(l) \subseteq 1..Len(l)
    BY <1>1 DEF Interrupts
<1> DEFINE Before(s, i) == \A j \in Interrupts(s) : j < i =>
                              \E k \in (j + 1)..(i - 1) : s[k].type = "resume"
<1>5. ASSUME NEW i \in 1..Len(l) PROVE Before(m, i) <=> Before(l, i)
    <2>1. ASSUME NEW j, j < i PROVE j \in Interrupts(m) <=> j \in Interrupts(l)
        <3>1. CASE j \in 1..Len(l)
            BY <1>4, <3>1
        <3>2. CASE j \notin 1..Len(l)
            <4>1. j \notin Interrupts(l)
                BY <1>4, <3>2
            <4>2. CASE j \in 1..n
                BY <1>1, <2>1, <3>2, <4>2
            <4>3. CASE j \notin 1..n
                BY <1>4, <4>1, <4>3
            <4> QED BY <4>2, <4>3
        <3> QED BY <3>1, <3>2
    <2>2. ASSUME NEW j \in 1..Len(l)
          PROVE  (\E k \in (j + 1)..(i - 1) : m[k].type = "resume") <=>
                 (\E k \in (j + 1)..(i - 1) : l[k].type = "resume")
        <3>1. ASSUME NEW k \in (j + 1)..(i - 1) PROVE m[k] = l[k]
            BY <1>1
        <3> QED BY <3>1
    <2> HIDE DEF n
    <2> QED BY <1>4, <2>1, <2>2
<1>6. Before(m, n) <=> \A j \in Interrupts(l) : Resumed(l, j)
    BY <1>1, <1>4 DEF Resumed
<1> HIDE DEF Before
<1>7. /\ \A i : i \in PendingInterrupts(l) <=>
                  i \in Interrupts(l) /\ ~Resumed(l, i) /\ Before(l, i)
      /\ \A i : i \in PendingInterrupts(m) <=>
                  i \in Interrupts(m) /\ ~Resumed(m, i) /\ Before(m, i)
    BY <1>1, PendingMeans DEF Before
<1>8. ASSUME e.type = "resume" PROVE ~HasPending(m)
    BY <1>2, <1>4, <1>7, <1>8 DEF HasPending
<1>9. ASSUME e.type # "resume", HasPending(l)
      PROVE  HasPending(m) /\ Pending(m) = Pending(l)
    <2>1. PICK i \in Interrupts(l) : PendingInterrupts(l) = {i} /\ Pending(l) = l[i]
        BY <1>9, PendingIsOf
    <2>2. i \in PendingInterrupts(m)
        BY <1>2, <1>4, <1>5, <1>7, <1>9, <2>1
    <2>3. HasPending(m)
        BY <2>2 DEF HasPending
    <2>4. Pending(m) = m[i]
        BY <1>1, <2>2, <2>3, PendingIsOf
    <2> QED BY <1>1, <1>4, <2>1, <2>3, <2>4
<1>10. ASSUME e.type # "interrupt", ~HasPending(l) PROVE ~HasPending(m)
    <2>1. \A i \in Interrupts(l) : Resumed(l, i)
        BY <1>10, NonePending
    <2> QED BY <1>2, <1>4, <1>7, <1>10, <2>1 DEF HasPending
<1>11. ASSUME e.type = "interrupt", ~HasPending(l)
       PROVE  HasPending(m) /\ Pending(m) = e
    <2>1. \A i \in Interrupts(l) : Resumed(l, i)
        BY <1>11, NonePending
    <2>2. n \in PendingInterrupts(m)
        BY <1>3, <1>4, <1>6, <1>7, <1>11, <2>1
    <2>3. HasPending(m)
        BY <2>2 DEF HasPending
    <2> QED BY <1>1, <2>2, <2>3, PendingIsOf
<1> QED BY <1>8, <1>9, <1>10, <1>11 DEF m

-----------------------------------------------------------------------------
(* Lemmas on conclusions *)

\* The conclusion l holds for a call, as ToolProperties reads it from the log.
ConclusionIn(l, c) ==
    l[CHOOSE i \in 1..Len(l) :
        /\ IsResult(l, i, c)
        /\ \A j \in 1..(i - 1) : ~IsResult(l, j, c)].status

\* Every result in the log answers a call recorded before it.
ResultsAnswer(l) == \A i \in 1..Len(l) : l[i].type = "tool_result" => Closed(l, l[i].call)

\* The first result of a closed call is its conclusion for ever.
LEMMA ConclusionStays ==
    ASSUME NEW l \in Logs, NEW e \in LoggedEvents, GoesOn(l), NEW c, Closed(l, c)
    PROVE  ConclusionIn(Append(l, e), c) = ConclusionIn(l, c)
<1> DEFINE m == Append(l, e)
           First(s, i) == /\ i \in 1..Len(s)
                          /\ s[i].type = "tool_result" /\ s[i].call = c
                          /\ \A j \in 1..(i - 1) : ~(s[j].type = "tool_result" /\ s[j].call = c)
           T == {i \in 1..Len(l) : l[i].type = "tool_result" /\ l[i].call = c}
<1>1. /\ m \in Logs
      /\ Len(m) = Len(l) + 1
      /\ Len(l) \in Nat
      /\ \A i \in 1..Len(l) : m[i] = l[i]
    BY AppendIs, AllLive
<1> HIDE DEF m
<1>2. T \subseteq Nat /\ T # {}
    BY ClosedMeans
<1>3. PICK n \in T : \A i \in T : n <= i
    BY <1>2, LeastOf
<1>4. First(l, n)
    BY <1>1, <1>3
<1>5. First(m, n)
    BY <1>1, <1>4
<1>6. \A i, j : First(m, i) /\ First(m, j) => i = j
    BY <1>1
<1>7. \A i, j : First(l, i) /\ First(l, j) => i = j
    BY <1>1
<1>8. \A s \in Logs : \A i \in 1..Len(s) :
          First(s, i) <=> IsResult(s, i, c) /\ \A j \in 1..(i - 1) : ~IsResult(s, j, c)
    <2> SUFFICES ASSUME NEW s \in Logs, NEW i \in 1..Len(s)
                 PROVE  First(s, i) <=>
                           IsResult(s, i, c) /\ \A j \in 1..(i - 1) : ~IsResult(s, j, c)
        OBVIOUS
    <2>1. \A j \in 1..Len(s) : Live(s, j)
        BY AllLive
    <2>2. \A j \in 1..(i - 1) : j \in 1..Len(s)
        BY AllLive
    <2> QED BY <2>1, <2>2 DEF IsResult
<1> HIDE DEF First
<1>9. n \in 1..Len(l) /\ n \in 1..Len(m)
    BY <1>1, <1>3
<1>10. ConclusionIn(l, c) = l[n].status
    BY <1>4, <1>7, <1>8, <1>9 DEF ConclusionIn
<1>11. ConclusionIn(m, c) = m[n].status
    BY <1>1, <1>5, <1>6, <1>8, <1>9 DEF ConclusionIn
<1> QED BY <1>1, <1>9, <1>10, <1>11 DEF m

\* The result of an open call is its conclusion.
LEMMA ConclusionComes ==
    ASSUME NEW l \in Logs, NEW e \in LoggedEvents, GoesOn(l), ResultsAnswer(l),
           NEW c, ~Closed(l, c), e.type = "tool_result", e.call = c
    PROVE  ConclusionIn(Append(l, e), c) = e.status
<1> DEFINE m == Append(l, e)
           n == Len(l) + 1
<1>1. /\ m \in Logs
      /\ Len(m) = Len(l) + 1
      /\ Len(l) \in Nat
      /\ \A i \in 1..Len(l) : m[i] = l[i]
      /\ m[n] = e
    BY AppendIs, AllLive
<1> HIDE DEF m
<1>2. \A i \in 1..Len(l) : ~(l[i].type = "tool_result" /\ l[i].call = c)
    BY DEF ResultsAnswer
<1>3. \A i \in 1..Len(m) : Live(m, i)
    BY <1>1, AllLive
<1>4. IsResult(m, n, c)
    BY <1>1, <1>3 DEF IsResult
<1>5. \A i \in 1..Len(m) : IsResult(m, i, c) <=> i = n
    BY <1>1, <1>2, <1>4 DEF IsResult
<1>6. n \in 1..Len(m) /\ \A j \in 1..(n - 1) : ~IsResult(m, j, c)
    BY <1>1, <1>5
<1> QED BY <1>1, <1>4, <1>5, <1>6 DEF ConclusionIn, m

-----------------------------------------------------------------------------
(* The inductive invariant of the pipeline *)

IsRowWrite(w) == w.kind \in {"insert", "update"}
IsRecordingOf(w, c) == w.kind = "append" /\ w.event.type = "tool_call" /\ w.event.call = c
IsConclusionOf(w, c) == w.kind = "append" /\ w.event.type = "tool_result" /\ w.event.call = c
IsConclusion(w) == w.kind = "append" /\ w.event.type = "tool_result"
IsAsking(w) == w.kind = "append" /\ w.event.type = "interrupt"
IsResuming(w) == w.kind = "append" /\ w.event.type = "resume"

Typed ==
    /\ log \in Logs
    /\ rows \in [Calls -> {NoRow} \cup RowsInUse]
    /\ effects \in [Calls -> Seq(Args)]
    /\ runStatus \in RunStatuses
    /\ lapsed \subseteq Approvals(log)
    /\ writes \in Seq(WriteItems)
    /\ cur \in Requests \cup {NoRequest}
    /\ queue \subseteq {c \in Calls : Called(log, c)}

\* A call nobody recorded has left no trace.
UnrecordedIsUntouched ==
    \A c \in Calls : ~Called(log, c) => effects[c] = <<>> /\ rows[c] = NoRow

\* A call that is judged is of a registered tool and open, or about to be.
JudgedIsOpen ==
    phase = "judge" =>
        /\ cur \in Requests
        /\ cur.tool \in Registered
        /\ ~Closed(log, cur.call)
        /\ GoesOn(log)
        /\ \/ /\ writes = <<>>
              /\ Called(log, cur.call)
              /\ ToolOf(log, cur.call) = cur.tool
              /\ ArgsOf(log, cur.call) = cur.args
           \/ writes = <<Recording(cur)>> /\ ~Called(log, cur.call)

\* A call that goes to its tool is open, and behind the outbox it goes there
\* with an intent row and without an earlier effect.
IntentPrecedesEffect ==
    phase = "effect" =>
        /\ cur \in Requests
        /\ cur.tool \in Registered
        /\ Called(log, cur.call)
        /\ ~Closed(log, cur.call)
        /\ GoesOn(log)
        /\ ToolOf(log, cur.call) = cur.tool
        /\ ArgsOf(log, cur.call) = cur.args
        /\ \/ writes = <<>>
           \/ /\ writes = <<Insert("pending", Actual(cur))>>
              /\ rows[cur.call] = NoRow
        /\ OutboxPath(cur.tool) =>
              /\ effects[cur.call] = <<>>
              /\ rows[cur.call].status = "pending" \/ writes # <<>>

\* An open guarded call that took effect still has its intent row.
EffectIsMarked ==
    \A c \in Calls : Guarded(c) =>
        /\ Len(effects[c]) <= 1
        /\ effects[c] # <<>> /\ ~Closed(log, c) => rows[c].status = "pending"

\* A pending row write closes the row of a call that is closed, or will be
\* by an earlier write; there is one at most, and an update finds its row open.
RowWritesFollowResults ==
    \A i \in 1..Len(writes) : IsRowWrite(writes[i]) =>
        /\ cur \in Requests
        /\ Called(log, cur.call)
        /\ \A j \in 1..Len(writes) : IsRowWrite(writes[j]) => j = i
        /\ writes[i].kind = "update" => rows[cur.call].status \in {"none", "pending"}
        /\ \/ phase = "effect" /\ writes[i].kind = "insert" /\ writes[i].status = "pending"
           \/ /\ phase # "effect"
              /\ \/ Closed(log, cur.call)
                 \/ \E j \in 1..(i - 1) : IsConclusionOf(writes[j], cur.call)

\* A result is written only for a call that is recorded, or is recorded first.
ResultsAreOfCalls ==
    /\ ResultsAnswer(log)
    /\ \A i \in 1..Len(writes) : IsConclusion(writes[i]) =>
          \/ Called(log, writes[i].event.call)
          \/ \E j \in 1..(i - 1) : IsRecordingOf(writes[j], writes[i].event.call)

\* A human is asked only about a call that is recorded.
QuestionsAreOfCalls ==
    /\ \A i \in Interrupts(log) : Called(log, log[i].call)
    /\ \A i \in 1..Len(writes) : IsAsking(writes[i]) => Called(log, writes[i].event.call)

\* Nothing is appended to a run that ended or is about to.
EndComesLast ==
    \A i \in 1..Len(writes) : writes[i].kind = "append" =>
        /\ GoesOn(log)
        /\ EndsRun(writes[i].event) =>
              \A j \in (i + 1)..Len(writes) : writes[j].kind # "append"

ToolInv ==
    /\ Typed
    /\ UnrecordedIsUntouched
    /\ JudgedIsOpen
    /\ IntentPrecedesEffect
    /\ EffectIsMarked
    /\ ClosedRowHasResult
    /\ RowWritesFollowResults
    /\ ResultsAreOfCalls
    /\ QuestionsAreOfCalls
    /\ EndComesLast

-----------------------------------------------------------------------------
(* Writes *)

\* Every write the pipeline puts on its list is one of the known kinds.
LEMMA WritesAreItems ==
    /\ \A e \in LoggedEvents : Appending(e) \in WriteItems
    /\ \A k \in Requests : Recording(k) \in WriteItems
    /\ \A k \in Requests, s \in Statuses : Concluding(k, s) \in WriteItems
    /\ Reporting \in WriteItems
    /\ \A s \in RowStatuses \ {"none"}, a \in Args : Insert(s, a) \in WriteItems
    /\ \A s \in RowStatuses \ {"none"} : Update(s) \in WriteItems
    /\ Refresh \in WriteItems
<1>1. \A e \in LoggedEvents : Appending(e) \in WriteItems
    BY DEF Appending, WriteItems
<1>2. \A k \in Requests : CallEvent(k.call, k.tool, k.args) \in LoggedEvents
    BY DEF Requests, CallEvent, LoggedEvents
<1>3. \A k \in Requests, s \in Statuses : ResultEvent(k.call, s) \in LoggedEvents
    BY DEF Requests, ResultEvent, LoggedEvents
<1>4. ErrorEvent(FALSE) \in LoggedEvents
    BY DEF ErrorEvent, LoggedEvents
<1>5. \A k \in Requests : Recording(k) \in WriteItems
    BY <1>1, <1>2 DEF Recording
<1>6. \A k \in Requests, s \in Statuses : Concluding(k, s) \in WriteItems
    BY <1>1, <1>3 DEF Concluding
<1>7. Reporting \in WriteItems
    BY <1>1, <1>4 DEF Reporting
<1>8. \A s \in RowStatuses \ {"none"}, a \in Args : Insert(s, a) \in WriteItems
    BY DEF Insert, WriteItems
<1>9. /\ \A s \in RowStatuses \ {"none"} : Update(s) \in WriteItems
      /\ Refresh \in WriteItems
    BY DEF Update, Refresh, WriteItems
<1> QED BY <1>1, <1>5, <1>6, <1>7, <1>8, <1>9

\* What each kind of write appends, if it appends.
LEMMA WhatWritesDo ==
    /\ \A e : Appending(e).kind = "append" /\ Appending(e).event = e
    /\ \A k : /\ Recording(k).kind = "append"
              /\ Recording(k).event = CallEvent(k.call, k.tool, k.args)
              /\ Recording(k).event.type = "tool_call"
              /\ Recording(k).event.call = k.call
              /\ Recording(k).event.tool = k.tool
              /\ Recording(k).event.args = k.args
    /\ \A k, s : /\ Concluding(k, s).kind = "append"
                 /\ Concluding(k, s).event.type = "tool_result"
                 /\ Concluding(k, s).event.call = k.call
                 /\ Concluding(k, s).event.status = s
    /\ Reporting.kind = "append"
    /\ Reporting.event.type = "error"
    /\ ~Reporting.event.fatal
    /\ Refresh.kind = "refresh"
    /\ \A s, a : Insert(s, a).kind = "insert" /\ Insert(s, a).status = s /\ Insert(s, a).args = a
    /\ \A s : Update(s).kind = "update" /\ Update(s).status = s
BY DEF Appending, Recording, CallEvent, Concluding, ResultEvent, Reporting, ErrorEvent,
       Refresh, Insert, Update

\* None of those of the pipeline ends a run.
LEMMA PipelineGoesOn ==
    /\ \A k : ~EndsRun(Recording(k).event)
    /\ \A k, s : ~EndsRun(Concluding(k, s).event)
    /\ ~EndsRun(Reporting.event)
    /\ \A e : e.type \notin {"error", "agent_message"} => ~EndsRun(e)
BY WhatWritesDo DEF EndsRun, IsFatal, IsFinal

\* The tamper hook gives arguments.
LEMMA ActualIsArgs ==
    ASSUME NEW k \in Requests
    PROVE  Actual(k) \in Args
BY TamperIsOfArgs DEF Actual, Requests

\* A list that ends nothing and is for a run that goes on.
LEMMA NothingEnds ==
    ASSUME GoesOn(log)', \A i \in 1..Len(writes') :
              writes'[i].kind = "append" => ~EndsRun(writes'[i].event)
    PROVE  EndComesLast'
BY DEF EndComesLast

-----------------------------------------------------------------------------
(* What many steps have in common *)

\* A step that leaves the log, the rows and the world alone.
LEMMA DurableKept ==
    ASSUME ToolInv, UNCHANGED <<log, rows, effects>>
    PROVE  /\ UnrecordedIsUntouched' /\ EffectIsMarked' /\ ClosedRowHasResult'
           /\ ResultsAnswer(log)'
           /\ (\A i \in Interrupts(log) : Called(log, log[i].call))'
BY DEF ToolInv, UnrecordedIsUntouched, EffectIsMarked, ClosedRowHasResult, Guarded, IsRegistered,
       ResultsAreOfCalls, QuestionsAreOfCalls

\* A step of the driver that touches nothing durable, hands no call on, and
\* leaves writes that are about no call.
LEMMA DriverStepKeeps ==
    ASSUME ToolInv, UNCHANGED <<log, rows, effects, runStatus, lapsed>>,
           phase' \notin {"judge", "effect"},
           cur' \in {cur, NoRequest}, queue' \subseteq queue,
           writes' \in Seq(WriteItems), EndComesLast',
           \A i \in 1..Len(writes') :
               ~IsRowWrite(writes'[i]) /\ ~IsConclusion(writes'[i]) /\ ~IsAsking(writes'[i])
    PROVE  ToolInv'
<1>1. Typed'
    BY DEF ToolInv, Typed
<1>2. JudgedIsOpen' /\ IntentPrecedesEffect'
    BY DEF JudgedIsOpen, IntentPrecedesEffect
<1>3. /\ UnrecordedIsUntouched' /\ EffectIsMarked' /\ ClosedRowHasResult'
      /\ ResultsAnswer(log)'
      /\ (\A i \in Interrupts(log) : Called(log, log[i].call))'
    BY DurableKept
<1>4. RowWritesFollowResults'
    BY DEF RowWritesFollowResults
<1>5. ResultsAreOfCalls' /\ QuestionsAreOfCalls'
    BY <1>3 DEF ResultsAreOfCalls, QuestionsAreOfCalls
<1> QED BY <1>1, <1>2, <1>3, <1>4, <1>5 DEF ToolInv

\* Neither the clock nor a step of something else touches what it reads.
LEMMA QuietKeeps ==
    ASSUME ToolInv, lapsed' \subseteq Approvals(log),
           UNCHANGED <<log, rows, effects, runStatus, phase, writes, cur, queue>>
    PROVE  ToolInv'
<1>1. Typed'
    BY DEF ToolInv, Typed
<1>2. /\ UnrecordedIsUntouched' /\ EffectIsMarked' /\ ClosedRowHasResult'
      /\ JudgedIsOpen' /\ IntentPrecedesEffect'
    BY DurableKept DEF ToolInv, JudgedIsOpen, IntentPrecedesEffect, Actual
<1>3. RowWritesFollowResults' /\ ResultsAreOfCalls' /\ QuestionsAreOfCalls' /\ EndComesLast'
    BY DEF ToolInv, RowWritesFollowResults, ResultsAreOfCalls, QuestionsAreOfCalls, EndComesLast
<1> QED BY <1>1, <1>2, <1>3 DEF ToolInv

\* A driver starts with an empty log and nothing in hand.
LEMMA EmptyRun ==
    ASSUME log = <<>>, rows = [c \in Calls |-> NoRow], effects = [c \in Calls |-> <<>>],
           runStatus = "running", lapsed = {}, phase = "down", writes = <<>>,
           cur = NoRequest, queue = {}
    PROVE  ToolInv
<1>1. log \in Logs /\ Len(log) = 0 /\ 1..Len(log) = {}
    BY DEF Logs
<1>2. \A c : ~Called(log, c)
    BY <1>1, CalledMeans
<1>3. Typed
    BY <1>1 DEF Typed, RunStatuses
<1>4. UnrecordedIsUntouched /\ JudgedIsOpen /\ IntentPrecedesEffect
    BY DEF UnrecordedIsUntouched, JudgedIsOpen, IntentPrecedesEffect
<1>5. EffectIsMarked
    BY <1>2 DEF EffectIsMarked, Guarded, IsRegistered
<1>6. ClosedRowHasResult
    BY DEF ClosedRowHasResult, NoRow
<1>7. RowWritesFollowResults /\ EndComesLast
    BY DEF RowWritesFollowResults, EndComesLast
<1>8. ResultsAreOfCalls /\ QuestionsAreOfCalls
    BY <1>1 DEF ResultsAreOfCalls, ResultsAnswer, QuestionsAreOfCalls, Interrupts
<1> QED BY <1>3, <1>4, <1>5, <1>6, <1>7, <1>8 DEF ToolInv

-----------------------------------------------------------------------------
(* Taking a write off the list *)

\* The rest of the list is the list from its second write on.
LEMMA RestOfWrites ==
    ASSUME ToolInv, writes # <<>>, writes' = Tail(writes)
    PROVE  /\ Head(writes) = writes[1] /\ Head(writes) \in WriteItems
           /\ writes' \in Seq(WriteItems)
           /\ Len(writes') = Len(writes) - 1
           /\ Len(writes) \in Nat \ {0}
           /\ \A i \in 1..Len(writes') : i + 1 \in 1..Len(writes) /\ writes'[i] = writes[i + 1]
<1>1. writes \in Seq(WriteItems)
    BY DEF ToolInv, Typed
<1> QED BY <1>1, ShiftedTail

\* A judged call waits for nothing but its own recording, and one on its way to
\* its tool for nothing but its intent row.
LEMMA OnlyOneToWrite ==
    ASSUME ToolInv, writes # <<>>
    PROVE  /\ phase = "judge" => writes = <<Recording(cur)>> /\ Tail(writes) = <<>>
                                 /\ Head(writes) = Recording(cur)
           /\ phase = "effect" => writes = <<Insert("pending", Actual(cur))>> /\ Tail(writes) = <<>>
                                  /\ Head(writes) = Insert("pending", Actual(cur))
<1>1. phase = "judge" => writes = <<Recording(cur)>>
    BY DEF ToolInv, JudgedIsOpen
<1>2. phase = "effect" => writes = <<Insert("pending", Actual(cur))>>
    BY DEF ToolInv, IntentPrecedesEffect
<1>3. \A w : Head(<<w>>) = w /\ Tail(<<w>>) = <<>>
    OBVIOUS
<1> QED BY <1>1, <1>2, <1>3

\* An appended event is typed, records, closes and asks what it says, and
\* leaves the requests of the calls already recorded as they are.
LEMMA AppendEventLog ==
    ASSUME ToolInv, AppendEvent
    PROVE  LET e == Head(writes).event IN
           /\ e \in LoggedEvents
           /\ log \in Logs
           /\ GoesOn(log)
           /\ log' = Append(log, e)
           /\ log' \in Logs
           /\ GoesOn(log)' <=> ~EndsRun(e)
           /\ \A c : Called(log', c) <=> Called(log, c) \/ (e.type = "tool_call" /\ e.call = c)
           /\ \A c : Closed(log', c) <=>
                 Closed(log, c) \/ (e.type = "tool_result" /\ e.call = c /\ Called(log, c))
           /\ \A c : Called(log, c) => /\ ToolOf(log', c) = ToolOf(log, c)
                                       /\ ArgsOf(log', c) = ArgsOf(log, c)
                                       /\ FirstCall(log', c) = FirstCall(log, c)
           /\ Approvals(log) \subseteq Approvals(log')
<1> DEFINE e == Head(writes).event
<1>1. /\ log \in Logs /\ writes # <<>> /\ Head(writes).kind = "append" /\ log' = Append(log, e)
      /\ writes' = Tail(writes)
    BY DEF ToolInv, Typed, AppendEvent
<1>2. Head(writes) = writes[1] /\ Head(writes) \in WriteItems /\ 1 \in 1..Len(writes)
    BY <1>1, RestOfWrites
<1>3. e \in LoggedEvents
    BY <1>1, <1>2 DEF WriteItems
<1>4. GoesOn(log)
    BY <1>1, <1>2 DEF ToolInv, EndComesLast
<1> HIDE DEF e
<1>5. log' \in Logs /\ (GoesOn(log)' <=> ~EndsRun(e))
    BY <1>1, <1>3, <1>4, AppendIs
<1>6. Approvals(log) \subseteq Approvals(log')
    BY <1>1, <1>3, <1>4, AppendIs, AllLive DEF Approvals
<1>7. \A c : Called(log', c) <=> Called(log, c) \/ (e.type = "tool_call" /\ e.call = c)
    BY <1>1, <1>3, <1>4, AppendCalled
<1>8. \A c : Closed(log', c) <=>
         Closed(log, c) \/ (e.type = "tool_result" /\ e.call = c /\ Called(log, c))
    BY <1>1, <1>3, <1>4, AppendClosed
<1>9. \A c : Called(log, c) => /\ ToolOf(log', c) = ToolOf(log, c)
                               /\ ArgsOf(log', c) = ArgsOf(log, c)
                               /\ FirstCall(log', c) = FirstCall(log, c)
    BY <1>1, <1>3, <1>4, RequestIsStable
<1> QED BY <1>1, <1>3, <1>4, <1>5, <1>6, <1>7, <1>8, <1>9 DEF e

\* Appending an event keeps the parts about what was asked for and answered.
LEMMA AppendEventKeepsLog ==
    ASSUME ToolInv, AppendEvent
    PROVE  ResultsAreOfCalls' /\ QuestionsAreOfCalls' /\ EndComesLast'
<1> DEFINE e == Head(writes).event
<1>1. /\ writes # <<>> /\ Head(writes).kind = "append" /\ writes' = Tail(writes)
    BY DEF AppendEvent
<1>2. /\ Head(writes) = writes[1] /\ Len(writes') = Len(writes) - 1
      /\ Len(writes) \in Nat \ {0}
      /\ \A i \in 1..Len(writes') : i + 1 \in 1..Len(writes) /\ writes'[i] = writes[i + 1]
    BY <1>1, RestOfWrites
<1>3. /\ e \in LoggedEvents /\ log \in Logs /\ GoesOn(log) /\ log' = Append(log, e)
      /\ log' \in Logs /\ (GoesOn(log)' <=> ~EndsRun(e))
      /\ \A c : Called(log', c) <=> Called(log, c) \/ (e.type = "tool_call" /\ e.call = c)
      /\ \A c : Closed(log', c) <=>
            Closed(log, c) \/ (e.type = "tool_result" /\ e.call = c /\ Called(log, c))
    BY AppendEventLog
<1>4. /\ Len(log') = Len(log) + 1 /\ Len(log) \in Nat
      /\ \A i \in 1..Len(log) : log'[i] = log[i]
      /\ log'[Len(log) + 1] = e
    BY <1>3, AppendIs, AllLive
<1>5. ResultsAreOfCalls'
    <2>1. e.type = "tool_result" => Called(log, e.call)
        BY <1>1, <1>2 DEF ToolInv, ResultsAreOfCalls, IsConclusion
    <2>2. ResultsAnswer(log)'
        BY <1>3, <1>4, <2>1 DEF ToolInv, ResultsAreOfCalls, ResultsAnswer
    <2>3. ASSUME NEW i \in 1..Len(writes'), IsConclusion(writes'[i])
          PROVE  \/ Called(log', writes'[i].event.call)
                 \/ \E j \in 1..(i - 1) : IsRecordingOf(writes'[j], writes'[i].event.call)
        <3> DEFINE c == writes'[i].event.call
        <3>1. i + 1 \in 1..Len(writes) /\ IsConclusion(writes[i + 1])
              /\ writes[i + 1].event.call = c
            BY <1>2, <2>3
        <3>2. CASE Called(log, c)
            BY <3>2, <1>3
        <3>3. CASE ~Called(log, c)
            <4>1. PICK j \in 1..i : IsRecordingOf(writes[j], c)
                BY <3>1, <3>3 DEF ToolInv, ResultsAreOfCalls
            <4>2. CASE j = 1
                BY <4>1, <4>2, <1>2, <1>3 DEF IsRecordingOf
            <4>3. CASE j # 1
                <5>1. j - 1 \in 1..(i - 1) /\ j - 1 \in 1..Len(writes')
                    BY <4>3, <1>2
                <5>2. writes'[j - 1] = writes[j]
                    BY <5>1, <1>2
                <5> QED BY <4>1, <5>1, <5>2
            <4> QED BY <4>2, <4>3
        <3> QED BY <3>2, <3>3
    <2> QED BY <2>2, <2>3 DEF ResultsAreOfCalls
<1>6. QuestionsAreOfCalls'
    <2>1. e.type = "interrupt" => Called(log, e.call)
        BY <1>1, <1>2 DEF ToolInv, QuestionsAreOfCalls, IsAsking
    <2>2. \A i \in Interrupts(log') : Called(log', log'[i].call)
        BY <1>3, <1>4, <2>1 DEF ToolInv, QuestionsAreOfCalls, Interrupts
    <2>3. \A i \in 1..Len(writes') : IsAsking(writes'[i]) => Called(log', writes'[i].event.call)
        BY <1>2, <1>3 DEF ToolInv, QuestionsAreOfCalls
    <2> QED BY <2>2, <2>3 DEF QuestionsAreOfCalls
<1>7. EndComesLast'
    <2> SUFFICES ASSUME NEW i \in 1..Len(writes'), writes'[i].kind = "append"
                 PROVE  /\ GoesOn(log)'
                        /\ EndsRun(writes'[i].event) =>
                              \A j \in (i + 1)..Len(writes') : writes'[j].kind # "append"
        BY DEF EndComesLast
    <2>1. i + 1 \in 2..Len(writes) /\ writes[i + 1] = writes'[i]
        BY <1>2
    <2>2. ~EndsRun(e)
        BY <1>1, <1>2, <2>1 DEF ToolInv, EndComesLast
    <2>3. ASSUME EndsRun(writes'[i].event), NEW j \in (i + 1)..Len(writes')
          PROVE  writes'[j].kind # "append"
        BY <1>2, <2>1, <2>3 DEF ToolInv, EndComesLast
    <2> QED BY <1>3, <2>2, <2>3
<1> QED BY <1>5, <1>6, <1>7

\* A row write that waits behind another write still waits for a result.
LEMMA RowWritesStayJustified ==
    ASSUME ToolInv, writes # <<>>, writes' = Tail(writes), phase # "effect",
           UNCHANGED <<rows, phase, cur>>,
           \A c : Called(log, c) => Called(log', c),
           \A c : Closed(log, c) => Closed(log', c),
           \A c : Called(log, c) /\ IsConclusionOf(Head(writes), c) => Closed(log', c)
    PROVE  RowWritesFollowResults'
<1>1. /\ Head(writes) = writes[1] /\ Len(writes') = Len(writes) - 1
      /\ Len(writes) \in Nat \ {0}
      /\ \A i \in 1..Len(writes') : i + 1 \in 1..Len(writes) /\ writes'[i] = writes[i + 1]
    BY RestOfWrites
<1> SUFFICES ASSUME NEW i \in 1..Len(writes'), IsRowWrite(writes'[i])
             PROVE  /\ cur \in Requests
                    /\ Called(log', cur.call)
                    /\ \A j \in 1..Len(writes') : IsRowWrite(writes'[j]) => j = i
                    /\ writes'[i].kind = "update" => rows[cur.call].status \in {"none", "pending"}
                    /\ \/ Closed(log', cur.call)
                       \/ \E j \in 1..(i - 1) : IsConclusionOf(writes'[j], cur.call)
    BY DEF RowWritesFollowResults
<1> DEFINE n == i + 1
<1>2. n \in 1..Len(writes) /\ writes[n] = writes'[i] /\ IsRowWrite(writes[n])
    BY <1>1
<1>3. /\ cur \in Requests /\ Called(log, cur.call)
      /\ \A j \in 1..Len(writes) : IsRowWrite(writes[j]) => j = n
      /\ writes[n].kind = "update" => rows[cur.call].status \in {"none", "pending"}
      /\ \/ Closed(log, cur.call)
         \/ \E j \in 1..(n - 1) : IsConclusionOf(writes[j], cur.call)
    BY <1>2 DEF ToolInv, RowWritesFollowResults
<1>4. \A j \in 1..Len(writes') : IsRowWrite(writes'[j]) => j = i
    BY <1>1, <1>3
<1>5. \/ Closed(log', cur.call)
      \/ \E j \in 1..(i - 1) : IsConclusionOf(writes'[j], cur.call)
    <2>1. CASE Closed(log, cur.call)
        BY <2>1
    <2>2. CASE ~Closed(log, cur.call)
        <3>1. PICK j \in 1..i : IsConclusionOf(writes[j], cur.call)
            BY <1>3, <2>2
        <3>2. CASE j = 1
            BY <1>1, <1>3, <3>1, <3>2
        <3>3. CASE j # 1
            <4>1. j - 1 \in 1..(i - 1) /\ j - 1 \in 1..Len(writes')
                BY <3>3, <1>1
            <4>2. writes'[j - 1] = writes[j]
                BY <4>1, <1>1
            <4> QED BY <3>1, <4>1, <4>2
        <3> QED BY <3>2, <3>3
    <2> QED BY <2>1, <2>2
<1> QED BY <1>2, <1>3, <1>4, <1>5

\* What the list says of appended events survives a write that appends none.
LEMMA PassedOver ==
    ASSUME ToolInv, writes # <<>>, Head(writes).kind # "append",
           writes' = Tail(writes), UNCHANGED log
    PROVE  ResultsAreOfCalls' /\ QuestionsAreOfCalls' /\ EndComesLast'
<1>1. /\ Head(writes) = writes[1] /\ Len(writes') = Len(writes) - 1
      /\ Len(writes) \in Nat \ {0}
      /\ \A i \in 1..Len(writes') : i + 1 \in 1..Len(writes) /\ writes'[i] = writes[i + 1]
    BY RestOfWrites
<1>2. ASSUME NEW i \in 1..Len(writes'), IsConclusion(writes'[i])
      PROVE  \/ Called(log, writes'[i].event.call)
             \/ \E j \in 1..(i - 1) : IsRecordingOf(writes'[j], writes'[i].event.call)
    <2>1. CASE Called(log, writes'[i].event.call)
        BY <2>1
    <2>2. CASE ~Called(log, writes'[i].event.call)
        <3>1. PICK j \in 1..i : IsRecordingOf(writes[j], writes'[i].event.call)
            BY <1>1, <1>2, <2>2 DEF ToolInv, ResultsAreOfCalls
        <3>2. j # 1
            BY <1>1, <3>1 DEF IsRecordingOf
        <3>3. j - 1 \in 1..(i - 1) /\ j - 1 \in 1..Len(writes')
            BY <1>1, <3>2
        <3>4. writes'[j - 1] = writes[j]
            BY <1>1, <3>3
        <3> QED BY <3>1, <3>3, <3>4
    <2> QED BY <2>1, <2>2
<1>3. ResultsAreOfCalls'
    BY <1>2 DEF ToolInv, ResultsAreOfCalls
<1>4. QuestionsAreOfCalls'
    BY <1>1 DEF ToolInv, QuestionsAreOfCalls
<1>5. EndComesLast'
    <2> SUFFICES ASSUME NEW i \in 1..Len(writes'), writes'[i].kind = "append"
                 PROVE  /\ GoesOn(log)
                        /\ EndsRun(writes'[i].event) =>
                              \A j \in (i + 1)..Len(writes') : writes'[j].kind # "append"
        BY DEF EndComesLast
    <2>1. i + 1 \in 1..Len(writes) /\ writes[i + 1] = writes'[i]
        BY <1>1
    <2>2. \A j \in (i + 1)..Len(writes') : j + 1 \in (i + 2)..Len(writes)
                                          /\ writes'[j] = writes[j + 1]
        BY <1>1
    <2> QED BY <2>1, <2>2 DEF ToolInv, EndComesLast
<1> QED BY <1>3, <1>4, <1>5

\* Appending an event keeps the invariant.
LEMMA AppendEventKeeps ==
    ASSUME ToolInv, AppendEvent
    PROVE  ToolInv'
<1> DEFINE e == Head(writes).event
<1>1. /\ writes # <<>> /\ Head(writes).kind = "append" /\ writes' = Tail(writes)
      /\ UNCHANGED <<rows, effects, runStatus, lapsed, phase, cur, queue>>
    BY DEF AppendEvent
<1>2. writes' \in Seq(WriteItems)
    BY <1>1, RestOfWrites
<1>3. /\ e \in LoggedEvents /\ log \in Logs /\ GoesOn(log) /\ log' = Append(log, e)
      /\ log' \in Logs /\ (GoesOn(log)' <=> ~EndsRun(e))
      /\ \A c : Called(log', c) <=> Called(log, c) \/ (e.type = "tool_call" /\ e.call = c)
      /\ \A c : Closed(log', c) <=>
            Closed(log, c) \/ (e.type = "tool_result" /\ e.call = c /\ Called(log, c))
      /\ \A c : Called(log, c) => ToolOf(log', c) = ToolOf(log, c)
      /\ Approvals(log) \subseteq Approvals(log')
    BY AppendEventLog
<1>4. Typed'
    BY <1>1, <1>2, <1>3 DEF ToolInv, Typed
<1>5. UnrecordedIsUntouched'
    BY <1>1, <1>3 DEF ToolInv, UnrecordedIsUntouched
<1>6. JudgedIsOpen'
    <2> SUFFICES ASSUME phase = "judge" PROVE JudgedIsOpen'
        BY <1>1 DEF JudgedIsOpen
    <2>1. /\ cur \in Requests /\ cur.tool \in Registered /\ ~Closed(log, cur.call)
          /\ Head(writes) = Recording(cur) /\ writes' = <<>> /\ ~Called(log, cur.call)
        BY <1>1, OnlyOneToWrite DEF ToolInv, JudgedIsOpen
    <2>2. /\ e.type = "tool_call" /\ e.call = cur.call /\ e.tool = cur.tool
          /\ e.args = cur.args /\ ~EndsRun(e)
        BY <2>1, WhatWritesDo, PipelineGoesOn
    <2>3. ToolOf(log', cur.call) = cur.tool /\ ArgsOf(log', cur.call) = cur.args
        BY <1>3, <2>1, <2>2, RequestIsRecorded
    <2> QED BY <1>1, <1>3, <2>1, <2>2, <2>3 DEF JudgedIsOpen
<1>7. phase # "effect"
    <2> SUFFICES ASSUME phase = "effect" PROVE FALSE
        OBVIOUS
    <2>1. Head(writes) = Insert("pending", Actual(cur))
        BY <1>1, OnlyOneToWrite
    <2> QED BY <1>1, <2>1, WhatWritesDo
<1>8. IntentPrecedesEffect'
    BY <1>1, <1>7 DEF IntentPrecedesEffect
<1>9. EffectIsMarked'
    <2> SUFFICES ASSUME NEW c \in Calls, Guarded(c)'
                 PROVE  /\ Len(effects[c]) <= 1
                        /\ effects[c] # <<>> /\ ~Closed(log', c) => rows[c].status = "pending"
        BY <1>1 DEF EffectIsMarked
    <2>1. CASE Called(log, c)
        <3>1. Guarded(c)
            BY <2>1, <1>3 DEF Guarded, IsRegistered
        <3> QED BY <3>1, <1>3 DEF ToolInv, EffectIsMarked
    <2>2. CASE ~Called(log, c)
        <3>1. effects[c] = <<>>
            BY <2>2 DEF ToolInv, UnrecordedIsUntouched
        <3> QED BY <3>1
    <2> QED BY <2>1, <2>2
<1>10. ClosedRowHasResult'
    BY <1>1, <1>3 DEF ToolInv, ClosedRowHasResult
<1>11. RowWritesFollowResults'
    BY <1>1, <1>3, <1>7, RowWritesStayJustified DEF IsConclusionOf
<1>12. ResultsAreOfCalls' /\ QuestionsAreOfCalls' /\ EndComesLast'
    BY AppendEventKeepsLog
<1> QED BY <1>4, <1>5, <1>6, <1>8, <1>9, <1>10, <1>11, <1>12 DEF ToolInv

\* Writing a row keeps the invariant: the row is the one of the call in hand,
\* which is closed already unless the row is an intent.
LEMMA WriteRowKeeps ==
    ASSUME ToolInv, WriteRow
    PROVE  ToolInv'
<1> DEFINE w == Head(writes)
           c0 == cur.call
<1>1. /\ writes # <<>> /\ w.kind \in {"insert", "update"}
      /\ rows' = [rows EXCEPT ![c0] = RowAfter(@, w)]
      /\ writes' = Tail(writes)
      /\ UNCHANGED <<log, effects, runStatus, lapsed, phase, cur, queue>>
      /\ rows \in [Calls -> {NoRow} \cup RowsInUse]
    BY DEF ToolInv, Typed, WriteRow
<1>2. /\ w = writes[1] /\ w \in WriteItems
      /\ writes' \in Seq(WriteItems)
      /\ Len(writes') = Len(writes) - 1
      /\ Len(writes) \in Nat \ {0}
      /\ \A i \in 1..Len(writes') : i + 1 \in 1..Len(writes) /\ writes'[i] = writes[i + 1]
    BY <1>1, RestOfWrites
<1>3. 1 \in 1..Len(writes) /\ IsRowWrite(writes[1])
    BY <1>1, <1>2 DEF IsRowWrite
<1>4. /\ cur \in Requests /\ Called(log, c0)
      /\ \A j \in 1..Len(writes) : IsRowWrite(writes[j]) => j = 1
      /\ w.kind = "update" => rows[c0].status \in {"none", "pending"}
      /\ \/ phase = "effect" /\ w.kind = "insert" /\ w.status = "pending"
         \/ phase # "effect" /\ Closed(log, c0)
    BY <1>2, <1>3 DEF ToolInv, RowWritesFollowResults
<1>5. /\ c0 \in Calls
      /\ rows[c0] \in {NoRow} \cup RowsInUse
      /\ rows'[c0] = RowAfter(rows[c0], w)
      /\ \A c \in Calls : c # c0 => rows'[c] = rows[c]
    BY <1>1, <1>4 DEF Requests
<1>6. RowAfter(rows[c0], w) \in {NoRow} \cup RowsInUse
    BY <1>1, <1>2, <1>5 DEF RowAfter, record, close, WriteItems, RowsInUse, NoRow
<1>7. phase = "effect" => RowAfter(rows[c0], w).status = "pending" /\ writes' = <<>>
    <2> SUFFICES ASSUME phase = "effect"
                 PROVE  RowAfter(rows[c0], w).status = "pending" /\ writes' = <<>>
        OBVIOUS
    <2>1. w = Insert("pending", Actual(cur)) /\ writes' = <<>>
        BY <1>1, OnlyOneToWrite
    <2>2. rows[c0] = NoRow
        BY <1>1 DEF ToolInv, IntentPrecedesEffect
    <2> QED BY <2>1, <2>2 DEF RowAfter, record, Insert
<1>8. Typed'
    BY <1>1, <1>2, <1>5, <1>6 DEF ToolInv, Typed
<1>9. UnrecordedIsUntouched'
    BY <1>1, <1>4, <1>5 DEF ToolInv, UnrecordedIsUntouched
<1>10. JudgedIsOpen'
    <2>1. phase # "judge"
        <3> SUFFICES ASSUME phase = "judge" PROVE FALSE
            OBVIOUS
        <3>1. w = Recording(cur)
            BY <1>1, OnlyOneToWrite
        <3> QED BY <1>1, <3>1, WhatWritesDo
    <2> QED BY <2>1, <1>1 DEF JudgedIsOpen
<1>11. IntentPrecedesEffect'
    BY <1>1, <1>5, <1>7 DEF ToolInv, IntentPrecedesEffect
<1>12. EffectIsMarked'
    <2> SUFFICES ASSUME NEW c \in Calls, Guarded(c)
                 PROVE  /\ Len(effects[c]) <= 1
                        /\ effects[c] # <<>> /\ ~Closed(log, c) => rows'[c].status = "pending"
        BY <1>1 DEF EffectIsMarked, Guarded, IsRegistered
    <2>1. /\ Len(effects[c]) <= 1
          /\ effects[c] # <<>> /\ ~Closed(log, c) => rows[c].status = "pending"
        BY DEF ToolInv, EffectIsMarked
    <2>2. CASE c # c0
        BY <2>1, <2>2, <1>5
    <2>3. CASE c = c0
        BY <2>1, <2>3, <1>4, <1>5, <1>7
    <2> QED BY <2>2, <2>3
<1>13. ClosedRowHasResult'
    <2> SUFFICES ASSUME NEW c \in Calls, rows'[c].status \in {"executed", "failed", "unknown"}
                 PROVE  Closed(log, c)
        BY <1>1 DEF ClosedRowHasResult
    <2>1. CASE c # c0
        BY <2>1, <1>5 DEF ToolInv, ClosedRowHasResult
    <2>2. CASE c = c0
        BY <2>2, <1>4, <1>5, <1>7
    <2> QED BY <2>1, <2>2
<1>14. RowWritesFollowResults'
    BY <1>2, <1>4 DEF RowWritesFollowResults
<1>15. ResultsAreOfCalls' /\ QuestionsAreOfCalls' /\ EndComesLast'
    BY <1>1, <1>2, <1>3, PassedOver DEF IsRowWrite
<1> QED BY <1>8, <1>9, <1>10, <1>11, <1>12, <1>13, <1>14, <1>15 DEF ToolInv

\* A write that touches neither log nor rows is only taken off the list, and
\* is none of the writes a call in hand waits for.
LEMMA OtherWriteKeeps ==
    ASSUME ToolInv, writes # <<>>, Head(writes).kind \notin {"append", "insert", "update"},
           writes' = Tail(writes), runStatus' \in RunStatuses,
           UNCHANGED <<log, rows, effects, lapsed, phase, cur, queue>>
    PROVE  ToolInv'
<1>1. writes' \in Seq(WriteItems)
    BY RestOfWrites
<1>2. phase \notin {"judge", "effect"}
    BY OnlyOneToWrite, WhatWritesDo
<1>3. RowWritesFollowResults'
    BY <1>2, RowWritesStayJustified DEF IsConclusionOf
<1>4. ResultsAreOfCalls' /\ QuestionsAreOfCalls' /\ EndComesLast'
    BY PassedOver
<1>5. /\ UnrecordedIsUntouched' /\ EffectIsMarked' /\ ClosedRowHasResult'
      /\ JudgedIsOpen' /\ IntentPrecedesEffect'
    BY <1>2, DurableKept DEF JudgedIsOpen, IntentPrecedesEffect
<1>6. Typed'
    BY <1>1 DEF ToolInv, Typed
<1> QED BY <1>3, <1>4, <1>5, <1>6 DEF ToolInv

\* Storing the status keeps the invariant.
LEMMA RefreshStatusKeeps ==
    ASSUME ToolInv, RefreshStatus
    PROVE  ToolInv'
<1>1. RunStatus(log) \in RunStatuses
    BY DEF RunStatus, RunStatuses
<1> QED BY <1>1, OtherWriteKeeps DEF RefreshStatus

\* So does every write of the pipeline.
LEMMA WriteKeeps ==
    ASSUME ToolInv, Write
    PROVE  ToolInv'
BY AppendEventKeeps, WriteRowKeeps, RefreshStatusKeeps DEF Write

-----------------------------------------------------------------------------
(* execute, and the driving of open calls *)

\* execute only chooses the writes of steps 1 and 2; a call that goes on to be
\* judged is open or is recorded first.
LEMMA ExecuteKeeps ==
    ASSUME ToolInv, NEW k \in Requests, execute(k), writes = <<>>, GoesOn(log),
           Called(log, k.call) => ToolOf(log, k.call) = k.tool /\ ArgsOf(log, k.call) = k.args,
           UNCHANGED <<log, rows, effects, runStatus, lapsed>>, queue' \subseteq queue
    PROVE  ToolInv'
<1> DEFINE r == Recording(k)
           f == Concluding(k, "failed")
<1>1. r \in WriteItems /\ Reporting \in WriteItems /\ f \in WriteItems
    BY WritesAreItems DEF Statuses
<1>2. /\ ~IsRowWrite(r) /\ ~IsRowWrite(Reporting) /\ ~IsRowWrite(f)
      /\ ~IsConclusion(r) /\ ~IsConclusion(Reporting)
      /\ ~IsAsking(r) /\ ~IsAsking(Reporting) /\ ~IsAsking(f)
      /\ IsRecordingOf(r, k.call) /\ f.event.call = k.call
    BY WhatWritesDo DEF IsRowWrite, IsConclusion, IsAsking, IsRecordingOf
<1>3. ~EndsRun(r.event) /\ ~EndsRun(Reporting.event) /\ ~EndsRun(f.event)
    BY PipelineGoesOn
<1> HIDE DEF r, f
<1>4. \/ /\ phase' = "drive" /\ writes' = <<>> /\ cur' = NoRequest
      \/ /\ phase' = "drive" /\ writes' = <<r, Reporting, f>> /\ cur' = k
      \/ /\ phase' = "judge" /\ cur' = k /\ k.tool \in Registered /\ ~Closed(log, k.call)
         /\ \/ writes' = <<>> /\ Called(log, k.call)
            \/ writes' = <<r>> /\ ~Called(log, k.call)
    BY DEF execute, r, f
<1>5. writes' \in Seq(WriteItems)
    BY <1>1, <1>4, ShortLists
<1>6. RowWritesFollowResults'
    BY <1>2, <1>4 DEF RowWritesFollowResults
<1>7. \A i \in 1..Len(writes') : IsConclusion(writes'[i]) =>
          writes' = <<r, Reporting, f>> /\ i = 3
    BY <1>2, <1>4
<1>8. ResultsAreOfCalls'
    <2>1. ASSUME NEW i \in 1..Len(writes'), IsConclusion(writes'[i])
          PROVE  \E j \in 1..(i - 1) : IsRecordingOf(writes'[j], writes'[i].event.call)
        <3>1. writes' = <<r, Reporting, f>> /\ i = 3
            BY <1>7, <2>1
        <3> QED BY <1>2, <3>1
    <2>2. ResultsAnswer(log)'
        BY DurableKept
    <2> QED BY <2>1, <2>2 DEF ResultsAreOfCalls
<1>9. QuestionsAreOfCalls'
    <2>1. \A i \in 1..Len(writes') : ~IsAsking(writes'[i])
        BY <1>2, <1>4
    <2> QED BY <2>1, DurableKept DEF QuestionsAreOfCalls
<1>10. EndComesLast'
    <2>1. \A i \in 1..Len(writes') : ~EndsRun(writes'[i].event)
        BY <1>3, <1>4
    <2> QED BY <2>1, NothingEnds
<1>11. IntentPrecedesEffect'
    BY <1>4 DEF IntentPrecedesEffect
<1>12. JudgedIsOpen'
    BY <1>4 DEF JudgedIsOpen, r
<1>13. Typed'
    BY <1>4, <1>5 DEF ToolInv, Typed
<1> QED BY <1>6, <1>8, <1>9, <1>10, <1>11, <1>12, <1>13, DurableKept DEF ToolInv

\* Recovery takes the open calls of the log.
LEMMA ResumeOpenCallsKeeps ==
    ASSUME ToolInv, resume_open_calls
    PROVE  ToolInv'
<1>1. OpenCalls(log) \subseteq {c \in Calls : Called(log, c)}
    BY RequestOfCall DEF OpenCalls, Open, ToolInv, Typed
<1>2. /\ phase' = "drive" /\ writes = <<>> /\ writes' = <<>> /\ queue' = OpenCalls(log)
      /\ UNCHANGED <<log, rows, effects, runStatus, lapsed, cur>>
    BY DEF resume_open_calls
<1>3. Typed'
    BY <1>1, <1>2 DEF ToolInv, Typed
<1>4. JudgedIsOpen' /\ IntentPrecedesEffect'
    BY <1>2 DEF JudgedIsOpen, IntentPrecedesEffect
<1>5. RowWritesFollowResults' /\ EndComesLast'
    BY <1>2 DEF RowWritesFollowResults, EndComesLast
<1>6. ResultsAreOfCalls' /\ QuestionsAreOfCalls'
    BY <1>2, DurableKept DEF ResultsAreOfCalls, QuestionsAreOfCalls
<1> QED BY <1>2, <1>3, <1>4, <1>5, <1>6, DurableKept DEF ToolInv

\* Recovery hands the next open call to execute, with the request the log has.
LEMMA DrivenRequest ==
    ASSUME ToolInv, DriveNext
    PROVE  \E c \in queue :
              LET k == Request(c, ToolOf(log, c), ArgsOf(log, c)) IN
              /\ Called(log, c) /\ k \in Requests
              /\ k.call = c /\ k.tool = ToolOf(log, c) /\ k.args = ArgsOf(log, c)
              /\ execute(k) /\ queue' = queue \ {c}
              /\ \A d \in queue : FirstCall(log, c) <= FirstCall(log, d)
<1>1. PICK c \in LeastInLogOrder(log, queue) :
           execute(Request(c, ToolOf(log, c), ArgsOf(log, c))) /\ queue' = queue \ {c}
    BY DEF DriveNext
<1>2. c \in queue /\ \A d \in queue : FirstCall(log, c) <= FirstCall(log, d)
    BY DEF LeastInLogOrder
<1>3. Called(log, c) /\ log \in Logs
    BY <1>2 DEF ToolInv, Typed
<1>4. Request(c, ToolOf(log, c), ArgsOf(log, c)) \in Requests
    BY <1>3, RequestOfCall DEF Request, Requests
<1>5. \A t, a : Request(c, t, a).call = c /\ Request(c, t, a).tool = t /\ Request(c, t, a).args = a
    BY DEF Request
<1> QED BY <1>1, <1>2, <1>3, <1>4, <1>5

LEMMA DriveNextKeeps ==
    ASSUME ToolInv, DriveNext, GoesOn(log)
    PROVE  ToolInv'
<1>1. PICK c \in queue :
              LET k == Request(c, ToolOf(log, c), ArgsOf(log, c)) IN
              /\ Called(log, c) /\ k \in Requests
              /\ k.call = c /\ k.tool = ToolOf(log, c) /\ k.args = ArgsOf(log, c)
              /\ execute(k) /\ queue' = queue \ {c}
    BY DrivenRequest
<1>2. writes = <<>> /\ UNCHANGED <<log, rows, effects, runStatus, lapsed>>
      /\ queue' \subseteq queue
    BY <1>1 DEF DriveNext
<1> QED BY <1>1, <1>2, ExecuteKeeps

-----------------------------------------------------------------------------
(* Judging *)

\* The outcomes of a call that is judged: its row tells of no conclusion, and
\* the tool is let run only when there is no earlier effect behind the outbox.
LEMMA JudgedOutcome ==
    ASSUME ToolInv, phase = "judge", writes = <<>>, NEW o \in Outcomes(cur)
    PROVE  /\ rows[cur.call] = NoRow \/ rows[cur.call].status = "pending"
           /\ \/ /\ o \in {"run", "asked", "refused"} /\ GateOutcome(cur) = o
                 /\ "go" \in IntentOutcomes(cur)
              \/ /\ o = "refused" /\ Existing(cur) = rows[cur.call] /\ rows[cur.call] # NoRow
                 /\ rows[cur.call].args # cur.args
              \/ o = "inconclusive"
              \/ o = "applied" /\ effects[cur.call] # <<>>
           /\ "go" \in IntentOutcomes(cur) /\ OutboxPath(cur.tool) =>
                 /\ effects[cur.call] = <<>>
                 /\ Existing(cur) = rows[cur.call]
<1> DEFINE c0 == cur.call
<1>1. /\ cur \in Requests /\ ~Closed(log, c0) /\ Called(log, c0) /\ ToolOf(log, c0) = cur.tool
      /\ cur.tool \in Registered /\ c0 \in Calls
    BY DEF ToolInv, JudgedIsOpen, Requests
<1>2. rows[c0] \in {NoRow} \cup RowsInUse
    BY <1>1 DEF ToolInv, Typed
<1>3. rows[c0].status \notin {"executed", "failed", "unknown"}
    BY <1>1 DEF ToolInv, ClosedRowHasResult
<1>4. rows[c0] = NoRow \/ rows[c0].status = "pending"
    BY <1>2, <1>3 DEF RowsInUse, RowStatuses
<1>5. Existing(cur) \in {rows[c0], NoRow}
    BY DEF Existing
<1>6. PICK i \in IntentOutcomes(cur) : o = IF i = "go" THEN GateOutcome(cur) ELSE i
    BY DEF Outcomes
<1>7. GateOutcome(cur) \in {"run", "asked", "refused"}
    BY DEF GateOutcome
<1>8. \/ i = "go"
      \/ i = "refused" /\ Existing(cur) = rows[c0] /\ rows[c0] # NoRow /\ rows[c0].args # cur.args
      \/ i = "inconclusive"
      \/ i = "applied" /\ effects[c0] # <<>>
    <2>1. CASE Existing(cur) = NoRow
        BY <1>6, <2>1 DEF IntentOutcomes
    <2>2. CASE Existing(cur) # NoRow /\ Existing(cur).args # cur.args
        BY <1>5, <1>6, <2>2 DEF IntentOutcomes
    <2>3. CASE Existing(cur) # NoRow /\ Existing(cur).args = cur.args
        <3>1. IntentOutcomes(cur) = _resolve_pending(cur)
            BY <1>4, <1>5, <2>3 DEF IntentOutcomes
        <3>2. i \in {"inconclusive", IF effects[c0] = <<>> THEN "go" ELSE "applied"}
            BY <1>6, <3>1 DEF _resolve_pending, probe
        <3> QED BY <3>2
    <2> QED BY <2>1, <2>2, <2>3
<1>9. ASSUME "go" \in IntentOutcomes(cur), OutboxPath(cur.tool)
      PROVE  effects[c0] = <<>> /\ Existing(cur) = rows[c0]
    <2>1. Existing(cur) = rows[c0]
        BY <1>9 DEF Existing, OutboxPath
    <2>2. Guarded(c0)
        BY <1>1, <1>9 DEF Guarded, IsRegistered
    <2>3. CASE rows[c0] = NoRow
        <3>1. rows[c0].status # "pending"
            BY <2>3 DEF NoRow
        <3> QED BY <1>1, <2>1, <2>2, <3>1 DEF ToolInv, EffectIsMarked
    <2>4. CASE rows[c0] # NoRow
        <3>1. rows[c0].args = cur.args
            BY <1>9, <2>1, <2>4 DEF IntentOutcomes
        <3>2. IntentOutcomes(cur) = _resolve_pending(cur)
            BY <1>4, <2>1, <2>4, <3>1 DEF IntentOutcomes
        <3>3. "go" \in {"inconclusive", IF effects[c0] = <<>> THEN "go" ELSE "applied"}
            BY <1>9, <3>2 DEF _resolve_pending, probe
        <3> QED BY <2>1, <3>3
    <2> QED BY <2>3, <2>4
<1> QED BY <1>4, <1>6, <1>7, <1>8, <1>9

\* What judging an open call leads to, branch by branch.
LEMMA JudgedStep ==
    ASSUME ToolInv, NEW o \in Outcomes(cur), Judged(o)
    PROVE  /\ cur \in Requests /\ cur.tool \in Registered
           /\ Called(log, cur.call) /\ ~Closed(log, cur.call) /\ GoesOn(log)
           /\ ToolOf(log, cur.call) = cur.tool /\ ArgsOf(log, cur.call) = cur.args
           /\ phase = "judge" /\ writes = <<>>
           /\ rows[cur.call] = NoRow \/ rows[cur.call].status = "pending"
           /\ \/ /\ o = "run" /\ phase' = "effect" /\ GateOutcome(cur) = "run"
                 /\ "go" \in IntentOutcomes(cur)
                 /\ OutboxPath(cur.tool) => effects[cur.call] = <<>>
                 /\ \/ /\ writes' = <<Insert("pending", Actual(cur))>>
                       /\ rows[cur.call] = NoRow
                    \/ /\ writes' = <<>>
                       /\ OutboxPath(cur.tool) => rows[cur.call].status = "pending"
              \/ /\ o = "asked" /\ phase' = "drive" /\ GateOutcome(cur) = "asked"
                 /\ "go" \in IntentOutcomes(cur)
                 /\ \/ writes' = <<>> /\ HasPending(log)
                    \/ /\ ~HasPending(log)
                       /\ writes' = <<Appending(InterruptEvent(cur.call, InterruptCount(log)))>>
              \/ /\ o = "refused" /\ phase' = "drive"
                 /\ writes' = <<Reporting, Concluding(cur, "rejected")>>
                 /\ \/ "go" \in IntentOutcomes(cur)
                    \/ /\ Existing(cur) = rows[cur.call] /\ rows[cur.call] # NoRow
                       /\ rows[cur.call].args # cur.args
              \/ /\ o = "inconclusive" /\ phase' = "drive"
                 /\ writes' = <<Reporting, Concluding(cur, "unknown"), Update("unknown")>>
              \/ /\ o = "applied" /\ phase' = "drive" /\ effects[cur.call] # <<>>
                 /\ writes' = <<Concluding(cur, "executed"), Update("executed")>>
           /\ queue' = IF o = "asked" THEN {} ELSE queue
           /\ UNCHANGED <<log, rows, effects, runStatus, lapsed, cur>>
<1>1. /\ phase = "judge" /\ writes = <<>>
      /\ writes' = WritesOf(cur, o) /\ phase' = NextPhase(o)
      /\ queue' = IF o = "asked" THEN {} ELSE queue
      /\ UNCHANGED <<log, rows, effects, runStatus, lapsed, cur>>
    BY DEF Judged
<1>2. /\ cur \in Requests /\ cur.tool \in Registered
      /\ Called(log, cur.call) /\ ~Closed(log, cur.call) /\ GoesOn(log)
      /\ ToolOf(log, cur.call) = cur.tool /\ ArgsOf(log, cur.call) = cur.args
    BY <1>1 DEF ToolInv, JudgedIsOpen
<1>3. rows[cur.call] = NoRow \/ rows[cur.call].status = "pending"
    BY <1>1, JudgedOutcome
<1>4. CASE o = "run"
    <2>1. GateOutcome(cur) = "run" /\ "go" \in IntentOutcomes(cur)
        BY <1>1, <1>4, JudgedOutcome
    <2>2. OutboxPath(cur.tool) => effects[cur.call] = <<>> /\ Existing(cur) = rows[cur.call]
        BY <1>1, <2>1, JudgedOutcome
    <2>3. writes' = begin(cur) /\ phase' = "effect"
        BY <1>1, <1>4 DEF WritesOf, NextPhase
    <2>4. CASE OutboxPath(cur.tool) /\ Existing(cur) = NoRow
        BY <1>1, <1>2, <1>3, <1>4, <2>1, <2>2, <2>3, <2>4 DEF begin
    <2>5. CASE ~(OutboxPath(cur.tool) /\ Existing(cur) = NoRow)
        <3>1. writes' = <<>>
            BY <2>3, <2>5 DEF begin
        <3>2. OutboxPath(cur.tool) => rows[cur.call].status = "pending"
            BY <1>3, <2>2, <2>5
        <3> QED BY <1>1, <1>2, <1>3, <1>4, <2>1, <2>2, <2>3, <3>1, <3>2
    <2> QED BY <2>4, <2>5
<1>5. CASE o = "asked"
    <2>1. GateOutcome(cur) = "asked" /\ "go" \in IntentOutcomes(cur)
        BY <1>1, <1>5, JudgedOutcome
    <2>2. writes' = _raise_interrupt(cur) /\ phase' = "drive"
        BY <1>1, <1>5 DEF WritesOf, NextPhase
    <2> QED BY <1>1, <1>2, <1>3, <1>5, <2>1, <2>2 DEF _raise_interrupt
<1>6. CASE o = "refused"
    <2>1. \/ "go" \in IntentOutcomes(cur)
          \/ /\ Existing(cur) = rows[cur.call] /\ rows[cur.call] # NoRow
             /\ rows[cur.call].args # cur.args
        BY <1>1, <1>6, JudgedOutcome
    <2>2. writes' = <<Reporting, Concluding(cur, "rejected")>> /\ phase' = "drive"
        BY <1>1, <1>6 DEF WritesOf, NextPhase
    <2> QED BY <1>1, <1>2, <1>3, <1>6, <2>1, <2>2
<1>7. CASE o = "inconclusive"
    <2>1. writes' = <<Reporting>> \o <<Concluding(cur, "unknown"), Update("unknown")>>
          /\ phase' = "drive"
        BY <1>1, <1>7 DEF WritesOf, NextPhase, Closing
    <2>2. Reporting \in WriteItems /\ Concluding(cur, "unknown") \in WriteItems
          /\ Update("unknown") \in WriteItems
        BY <1>2, WritesAreItems DEF Statuses, RowStatuses
    <2>3. writes' = <<Reporting, Concluding(cur, "unknown"), Update("unknown")>>
        BY <2>1, <2>2, OneAndTwo
    <2> QED BY <1>1, <1>2, <1>3, <1>7, <2>1, <2>3
<1>8. CASE o = "applied"
    <2>1. effects[cur.call] # <<>>
        BY <1>1, <1>8, JudgedOutcome
    <2>2. writes' = <<Concluding(cur, "executed"), Update("executed")>> /\ phase' = "drive"
        BY <1>1, <1>8 DEF WritesOf, NextPhase, Closing
    <2> QED BY <1>1, <1>2, <1>3, <1>8, <2>1, <2>2
<1>9. o \in {"run", "asked", "refused", "inconclusive", "applied"}
    BY <1>1, JudgedOutcome
<1> QED BY <1>4, <1>5, <1>6, <1>7, <1>8, <1>9

\* A list that records the result of the call in hand and then, perhaps, its row.
LEMMA ConcludingKeeps ==
    ASSUME ToolInv, NEW k \in Requests, NEW s \in Statuses, NEW w \in WriteItems, IsRowWrite(w),
           cur' = k, Called(log, k.call), GoesOn(log), phase' = "drive",
           w.kind = "update" => rows[k.call].status \in {"none", "pending"},
           \/ writes' = <<Concluding(k, s)>>
           \/ writes' = <<Reporting, Concluding(k, s)>>
           \/ writes' = <<Concluding(k, s), w>>
           \/ writes' = <<Reporting, Concluding(k, s), w>>,
           UNCHANGED <<log, rows>>
    PROVE  /\ writes' \in Seq(WriteItems)
           /\ RowWritesFollowResults' /\ ResultsAreOfCalls' /\ QuestionsAreOfCalls'
           /\ EndComesLast' /\ JudgedIsOpen' /\ IntentPrecedesEffect'
<1> DEFINE f == Concluding(k, s)
<1>1. Reporting \in WriteItems /\ f \in WriteItems
    BY WritesAreItems
<1>2. /\ ~IsRowWrite(Reporting) /\ ~IsRowWrite(f)
      /\ ~IsConclusion(Reporting) /\ ~IsConclusion(w)
      /\ ~IsAsking(Reporting) /\ ~IsAsking(f) /\ ~IsAsking(w)
      /\ IsConclusionOf(f, k.call) /\ f.event.call = k.call
      /\ w.kind # "append"
    BY WhatWritesDo DEF IsRowWrite, IsConclusion, IsAsking, IsConclusionOf
<1>3. ~EndsRun(Reporting.event) /\ ~EndsRun(f.event)
    BY PipelineGoesOn
<1> HIDE DEF f
<1>4. \/ writes' = <<f>>
      \/ writes' = <<Reporting, f>>
      \/ writes' = <<f, w>>
      \/ writes' = <<Reporting, f, w>>
    BY DEF f
<1>5. writes' \in Seq(WriteItems)
    BY <1>1, <1>4, ShortLists
<1>6. RowWritesFollowResults'
    <2>1. CASE writes' = <<f>> \/ writes' = <<Reporting, f>>
        <3>1. \A i \in 1..Len(writes') : ~IsRowWrite(writes'[i])
            BY <1>2, <2>1
        <3> QED BY <3>1 DEF RowWritesFollowResults
    <2>2. CASE writes' = <<f, w>>
        <3>1. Len(writes') = 2 /\ writes'[1] = f /\ writes'[2] = w
            BY <2>2
        <3> QED BY <1>2, <3>1 DEF RowWritesFollowResults
    <2>3. CASE writes' = <<Reporting, f, w>>
        <3>1. Len(writes') = 3 /\ writes'[1] = Reporting /\ writes'[2] = f /\ writes'[3] = w
            BY <2>3
        <3> QED BY <1>2, <3>1 DEF RowWritesFollowResults
    <2> QED BY <1>4, <2>1, <2>2, <2>3
<1>7. ResultsAreOfCalls'
    <2>1. \A i \in 1..Len(writes') : IsConclusion(writes'[i]) => writes'[i].event.call = k.call
        BY <1>2, <1>4
    <2>2. ResultsAnswer(log)'
        BY DEF ToolInv, ResultsAreOfCalls
    <2> QED BY <2>1, <2>2 DEF ResultsAreOfCalls
<1>8. QuestionsAreOfCalls'
    <2>1. \A i \in 1..Len(writes') : ~IsAsking(writes'[i])
        BY <1>2, <1>4
    <2> QED BY <2>1 DEF ToolInv, QuestionsAreOfCalls
<1>9. EndComesLast'
    <2>1. \A i \in 1..Len(writes') : writes'[i].kind = "append" => ~EndsRun(writes'[i].event)
        BY <1>2, <1>3, <1>4
    <2>2. GoesOn(log)'
        OBVIOUS
    <2> QED BY <2>1, <2>2, NothingEnds
<1>10. JudgedIsOpen' /\ IntentPrecedesEffect'
    BY DEF JudgedIsOpen, IntentPrecedesEffect
<1> QED BY <1>5, <1>6, <1>7, <1>8, <1>9, <1>10

\* The index of an interrupt is the number of those before it.
LEMMA InterruptIsLogged ==
    ASSUME NEW l \in Logs, NEW c \in Calls
    PROVE  InterruptEvent(c, InterruptCount(l)) \in LoggedEvents
<1>1. IsFiniteSet(1..Len(l))
    BY AllLive, FS_Interval
<1>2. IsFiniteSet({i \in 1..Len(l) : l[i].type = "interrupt"})
    BY <1>1, FS_Subset
<1>3. InterruptCount(l) \in Nat
    BY <1>2, FS_CardinalityType DEF InterruptCount
<1> QED BY <1>3 DEF InterruptEvent, LoggedEvents

\* The judged call goes to its tool, is concluded, or waits for a human.
LEMMA JudgedKeeps ==
    ASSUME ToolInv, NEW o \in Outcomes(cur), Judged(o)
    PROVE  ToolInv'
<1> DEFINE c0 == cur.call
<1>1. /\ cur \in Requests /\ Called(log, c0) /\ ~Closed(log, c0) /\ GoesOn(log)
      /\ cur.tool \in Registered /\ ToolOf(log, c0) = cur.tool /\ ArgsOf(log, c0) = cur.args
      /\ UNCHANGED <<log, rows, effects, runStatus, lapsed, cur>>
      /\ c0 \in Calls /\ queue' \subseteq queue
      /\ rows[c0] = NoRow \/ rows[c0].status = "pending"
      /\ Actual(cur) \in Args
    BY JudgedStep, ActualIsArgs DEF Requests
<1>2. /\ UnrecordedIsUntouched' /\ EffectIsMarked' /\ ClosedRowHasResult'
      /\ ResultsAnswer(log)'
      /\ (\A i \in Interrupts(log) : Called(log, log[i].call))'
    BY <1>1, DurableKept
<1>3. writes' \in Seq(WriteItems) => Typed'
    BY <1>1 DEF ToolInv, Typed
<1>4. CASE o = "run"
    <2> DEFINE w == Insert("pending", Actual(cur))
    <2>1. /\ phase' = "effect"
          /\ OutboxPath(cur.tool) => effects[c0] = <<>>
          /\ \/ writes' = <<w>> /\ rows[c0] = NoRow
             \/ writes' = <<>> /\ (OutboxPath(cur.tool) => rows[c0].status = "pending")
        BY <1>4, JudgedStep
    <2>2. /\ w \in WriteItems /\ w.kind = "insert" /\ w.status = "pending"
        BY <1>1, WritesAreItems, WhatWritesDo DEF RowStatuses
    <2>3. writes' \in Seq(WriteItems)
        BY <2>1, <2>2, ShortLists
    <2>4. Actual(cur)' = Actual(cur) /\ <<w>> # <<>>
        BY <1>1 DEF Actual
    <2>5. IntentPrecedesEffect' /\ JudgedIsOpen'
        BY <1>1, <2>1, <2>4 DEF IntentPrecedesEffect, JudgedIsOpen
    <2> HIDE DEF w
    <2>6. \A i \in 1..Len(writes') : i = 1 /\ writes'[i] = w /\ 1 = Len(writes')
        <3>1. CASE writes' = <<>>
            BY <3>1
        <3>2. CASE writes' = <<w>>
            BY <3>2
        <3> QED BY <2>1, <3>1, <3>2
    <2>7. /\ RowWritesFollowResults' /\ ResultsAreOfCalls' /\ QuestionsAreOfCalls'
          /\ EndComesLast'
        BY <1>1, <1>2, <2>1, <2>2, <2>6 DEF RowWritesFollowResults, ResultsAreOfCalls, IsConclusion,
           QuestionsAreOfCalls, IsAsking, EndComesLast
    <2> QED BY <1>2, <1>3, <2>3, <2>5, <2>7 DEF ToolInv
<1>5. CASE o = "asked"
    <2> DEFINE e == InterruptEvent(c0, InterruptCount(log))
               w == Appending(e)
    <2>1. phase' = "drive" /\ (writes' = <<>> \/ writes' = <<w>>)
        BY <1>5, JudgedStep
    <2>2. e \in LoggedEvents /\ e.type = "interrupt" /\ e.call = c0
        BY <1>1, InterruptIsLogged DEF ToolInv, Typed, InterruptEvent
    <2>3. w \in WriteItems /\ w.kind = "append" /\ w.event = e /\ ~EndsRun(e)
        BY <2>2, WritesAreItems, WhatWritesDo, PipelineGoesOn
    <2> HIDE DEF w
    <2>4. writes' \in Seq(WriteItems)
        BY <2>1, <2>3, ShortLists
    <2>5. \A i \in 1..Len(writes') : writes'[i] = w
        BY <2>1
    <2>6. RowWritesFollowResults' /\ ResultsAreOfCalls' /\ QuestionsAreOfCalls'
        BY <1>1, <1>2, <2>2, <2>3, <2>5 DEF RowWritesFollowResults, IsRowWrite,
           ResultsAreOfCalls, IsConclusion, QuestionsAreOfCalls
    <2>7. EndComesLast'
        BY <1>1, <2>3, <2>5, NothingEnds
    <2>8. JudgedIsOpen' /\ IntentPrecedesEffect'
        BY <2>1 DEF JudgedIsOpen, IntentPrecedesEffect
    <2> QED BY <1>2, <1>3, <2>4, <2>6, <2>7, <2>8 DEF ToolInv
<1>6. CASE o \in {"refused", "inconclusive", "applied"}
    <2>1. PICK s \in {"rejected", "unknown", "executed"}, w \in {Update("unknown"), Update("executed")} :
             /\ phase' = "drive"
             /\ \/ writes' = <<Reporting, Concluding(cur, s)>>
                \/ writes' = <<Concluding(cur, s), w>>
                \/ writes' = <<Reporting, Concluding(cur, s), w>>
        BY <1>6, JudgedStep
    <2>2. s \in Statuses /\ w \in WriteItems /\ IsRowWrite(w)
        BY WritesAreItems, WhatWritesDo DEF Statuses, RowStatuses, IsRowWrite
    <2>3. rows[c0].status \in {"none", "pending"}
        BY <1>1 DEF NoRow
    <2>4. /\ writes' \in Seq(WriteItems)
          /\ RowWritesFollowResults' /\ ResultsAreOfCalls' /\ QuestionsAreOfCalls'
          /\ EndComesLast' /\ JudgedIsOpen' /\ IntentPrecedesEffect'
        BY <1>1, <2>1, <2>2, <2>3, ConcludingKeeps
    <2> QED BY <1>2, <1>3, <2>4 DEF ToolInv
<1> QED BY <1>4, <1>5, <1>6, JudgedStep

\* What a tool leaves in the world under the call's key is a list of arguments,
\* and the first effect of a non-idempotent write is a single one.
LEMMA ApplyIs ==
    ASSUME NEW k \in Requests, effects \in [Calls -> Seq(Args)]
    PROVE  /\ apply(k) \in Seq(Args)
           /\ Effect[k.tool] = "read" => apply(k) = effects[k.call]
           /\ Effect[k.tool] # "read" => apply(k) # <<>>
           /\ apply(k) = effects[k.call] \/ Len(apply(k)) = Len(effects[k.call]) + 1
           /\ Effect[k.tool] = "write_idempotent" /\ effects[k.call] # <<>> =>
                 apply(k) = effects[k.call]
<1>1. effects[k.call] \in Seq(Args) /\ Actual(k) \in Args
    BY ActualIsArgs DEF Requests
<1>2. CASE Effect[k.tool] = "read"
    BY <1>1, <1>2 DEF apply
<1>3. CASE Effect[k.tool] = "write_idempotent"
    <2>1. apply(k) = IF effects[k.call] = <<>> THEN <<Actual(k)>> ELSE effects[k.call]
        BY <1>3 DEF apply
    <2>2. /\ <<Actual(k)>> \in Seq(Args) /\ <<Actual(k)>> # <<>> /\ Len(<<Actual(k)>>) = 1
          /\ Len(<<>>) = 0
        BY <1>1
    <2> QED BY <1>1, <1>3, <2>1, <2>2
<1>4. CASE Effect[k.tool] \notin {"read", "write_idempotent"}
    <2>1. apply(k) = Append(effects[k.call], Actual(k))
        BY <1>4 DEF apply
    <2>2. /\ apply(k) \in Seq(Args)
          /\ Len(apply(k)) = Len(effects[k.call]) + 1
          /\ Len(effects[k.call]) \in Nat
        BY <2>1, <1>1, AppendProperties, LenProperties
    <2>3. apply(k) # <<>>
        BY <2>2, EmptySeq
    <2> QED BY <1>4, <2>2, <2>3
<1> QED BY <1>2, <1>3, <1>4

\* What the two ends of a tool call have in common: the world may have changed
\* under the call's key, and the list closes the call and then its row.
LEMMA ToolEnd ==
    ASSUME ToolInv, ToolReturns \/ _handle_tool_failure
    PROVE  /\ phase = "effect" /\ writes = <<>> /\ phase' = "drive"
           /\ UNCHANGED <<log, rows, runStatus, lapsed, cur, queue>>
           /\ cur \in Requests /\ cur.tool \in Registered
           /\ Called(log, cur.call) /\ ~Closed(log, cur.call) /\ GoesOn(log)
           /\ ToolOf(log, cur.call) = cur.tool /\ ArgsOf(log, cur.call) = cur.args
           /\ OutboxPath(cur.tool) => /\ effects[cur.call] = <<>>
                                      /\ rows[cur.call].status = "pending"
           /\ \E after \in {effects[cur.call], apply(cur)} :
                 effects' = [effects EXCEPT ![cur.call] = after]
           /\ \E s \in Statuses, w \in WriteItems :
                 /\ IsRowWrite(w) /\ (w.kind = "update" => OutboxPath(cur.tool))
                 /\ \/ /\ writes' = <<Concluding(cur, s), w>> /\ s = "executed"
                       /\ effects' = [effects EXCEPT ![cur.call] = apply(cur)]
                    \/ /\ writes' = <<Reporting, Concluding(cur, s), w>>
                       /\ s = FailureStatus(cur.tool)
<1>1. /\ phase = "effect" /\ writes = <<>> /\ phase' = "drive"
      /\ UNCHANGED <<log, rows, runStatus, lapsed, cur, queue>>
    BY DEF ToolReturns, _handle_tool_failure
<1>2. /\ cur \in Requests /\ cur.tool \in Registered
      /\ Called(log, cur.call) /\ ~Closed(log, cur.call) /\ GoesOn(log)
      /\ ToolOf(log, cur.call) = cur.tool /\ ArgsOf(log, cur.call) = cur.args
      /\ OutboxPath(cur.tool) => /\ effects[cur.call] = <<>>
                                 /\ rows[cur.call].status = "pending"
    BY <1>1 DEF ToolInv, IntentPrecedesEffect
<1>3. \E after \in {effects[cur.call], apply(cur)} :
          effects' = [effects EXCEPT ![cur.call] = after]
    BY DEF ToolReturns, _handle_tool_failure
<1>4. Actual(cur) \in Args
    BY <1>2, ActualIsArgs
<1>5. CASE ToolReturns
    <2> DEFINE w == IF OutboxPath(cur.tool) THEN Update("executed")
                    ELSE Insert("executed", Actual(cur))
    <2>1. w \in WriteItems /\ IsRowWrite(w) /\ (w.kind = "update" => OutboxPath(cur.tool))
        BY <1>4, WritesAreItems, WhatWritesDo DEF RowStatuses, IsRowWrite
    <2>2. writes' = <<Concluding(cur, "executed"), w>> /\ "executed" \in Statuses
          /\ effects' = [effects EXCEPT ![cur.call] = apply(cur)]
        BY <1>5 DEF ToolReturns, Closing, Statuses
    <2> HIDE DEF w
    <2> QED BY <1>1, <1>2, <1>3, <2>1, <2>2
<1>6. CASE _handle_tool_failure
    <2> DEFINE s == FailureStatus(cur.tool)
               w == IF OutboxPath(cur.tool) THEN Update(s) ELSE Insert(s, Actual(cur))
    <2>1. s \in Statuses /\ s \in RowStatuses \ {"none"}
        BY DEF FailureStatus, Statuses, RowStatuses
    <2>2. w \in WriteItems /\ IsRowWrite(w) /\ (w.kind = "update" => OutboxPath(cur.tool))
        BY <1>4, <2>1, WritesAreItems, WhatWritesDo DEF IsRowWrite
    <2>3. writes' = <<Reporting>> \o <<Concluding(cur, s), w>>
        BY <1>6 DEF _handle_tool_failure, Closing
    <2>4. Reporting \in WriteItems /\ Concluding(cur, s) \in WriteItems
        BY <1>2, <2>1, WritesAreItems
    <2> HIDE DEF w
    <2>5. writes' = <<Reporting, Concluding(cur, s), w>>
        BY <2>2, <2>3, <2>4, OneAndTwo
    <2> QED BY <1>1, <1>2, <1>3, <2>1, <2>2, <2>5
<1> QED BY <1>5, <1>6

\* A tool that returns, or raises with or without its effect, is concluded next.
LEMMA ToolEndKeeps ==
    ASSUME ToolInv, ToolReturns \/ _handle_tool_failure
    PROVE  ToolInv'
<1> DEFINE c0 == cur.call
<1>1. /\ phase = "effect" /\ phase' = "drive"
      /\ UNCHANGED <<log, rows, runStatus, lapsed, cur, queue>>
      /\ cur \in Requests /\ cur.tool \in Registered
      /\ Called(log, c0) /\ ~Closed(log, c0) /\ GoesOn(log)
      /\ ToolOf(log, c0) = cur.tool
      /\ OutboxPath(cur.tool) => effects[c0] = <<>> /\ rows[c0].status = "pending"
      /\ effects \in [Calls -> Seq(Args)] /\ c0 \in Calls
    BY ToolEnd DEF ToolInv, Typed, Requests
<1>2. PICK after \in {effects[c0], apply(cur)} : effects' = [effects EXCEPT ![c0] = after]
    BY ToolEnd
<1>3. after \in Seq(Args) /\ (OutboxPath(cur.tool) => Len(after) <= 1)
    <2>1. apply(cur) \in Seq(Args)
          /\ (apply(cur) = effects[c0] \/ Len(apply(cur)) = Len(effects[c0]) + 1)
        BY <1>1, ApplyIs
    <2>2. effects[c0] = <<>> => Len(effects[c0]) = 0
        OBVIOUS
    <2> QED BY <1>1, <2>1, <2>2
<1>4. /\ effects' \in [Calls -> Seq(Args)] /\ effects'[c0] = after
      /\ \A c \in Calls : c # c0 => effects'[c] = effects[c]
    BY <1>1, <1>2, <1>3
<1>5. PICK s \in Statuses, w \in WriteItems :
         /\ IsRowWrite(w) /\ (w.kind = "update" => OutboxPath(cur.tool))
         /\ \/ writes' = <<Concluding(cur, s), w>>
            \/ writes' = <<Reporting, Concluding(cur, s), w>>
    BY ToolEnd
<1>6. /\ writes' \in Seq(WriteItems)
      /\ RowWritesFollowResults' /\ ResultsAreOfCalls' /\ QuestionsAreOfCalls'
      /\ EndComesLast' /\ JudgedIsOpen' /\ IntentPrecedesEffect'
    BY <1>1, <1>5, ConcludingKeeps
<1>7. Typed'
    BY <1>1, <1>4, <1>6 DEF ToolInv, Typed
<1>8. UnrecordedIsUntouched'
    BY <1>1, <1>4 DEF ToolInv, UnrecordedIsUntouched
<1>9. EffectIsMarked'
    <2> SUFFICES ASSUME NEW c \in Calls, Guarded(c)
                 PROVE  /\ Len(effects'[c]) <= 1
                        /\ effects'[c] # <<>> /\ ~Closed(log, c) => rows[c].status = "pending"
        BY <1>1 DEF EffectIsMarked, Guarded, IsRegistered
    <2>1. CASE c # c0
        BY <2>1, <1>4 DEF ToolInv, EffectIsMarked
    <2>2. CASE c = c0
        <3>1. OutboxPath(cur.tool)
            BY <2>2, <1>1 DEF Guarded
        <3> QED BY <3>1, <2>2, <1>1, <1>3, <1>4
    <2> QED BY <2>1, <2>2
<1>10. ClosedRowHasResult'
    BY <1>1 DEF ToolInv, ClosedRowHasResult
<1> QED BY <1>6, <1>7, <1>8, <1>9, <1>10 DEF ToolInv

-----------------------------------------------------------------------------
(* The answer of a human *)

\* The request an answer is about, and the call its approval binds to.
Asked == Request(Pending(log).call, ToolOf(log, Pending(log).call),
                 ArgsOf(log, Pending(log).call))
Target(a) == IF a # Asked.args THEN EditOf(Asked.call) ELSE Asked.call
Approving(d, a, s) == Appending(ApprovalEvent(Target(a), Asked.tool, a, d, s))
Resuming == Appending(ResumeEvent(Pending(log).index))
Rerecording(a) == Recording(Request(Target(a), Asked.tool, a))

\* The pending call was recorded, and the request is what the log says of it.
LEMMA AskedIs ==
    ASSUME ToolInv, HasPending(log)
    PROVE  /\ Asked \in Requests /\ Asked.call = Pending(log).call
           /\ Called(log, Asked.call)
           /\ Asked.tool = ToolOf(log, Asked.call) /\ Asked.args = ArgsOf(log, Asked.call)
           /\ Pending(log).index \in Nat
<1> DEFINE c == Pending(log).call
<1>1. log \in Logs
    BY DEF ToolInv, Typed
<1>2. PICK i \in Interrupts(log) : Pending(log) = log[i] /\ Pending(log).index \in Nat
    BY <1>1, PendingIsOf
<1>3. Called(log, c)
    BY <1>2 DEF ToolInv, QuestionsAreOfCalls
<1>4. ToolOf(log, c) \in Tools /\ ArgsOf(log, c) \in Args /\ c \in Calls
    BY <1>1, <1>3, RequestOfCall
<1> HIDE DEF c
<1>5. Request(c, ToolOf(log, c), ArgsOf(log, c)) \in Requests
    BY <1>4 DEF Request, Requests
<1>6. \A t, a : Request(c, t, a).call = c /\ Request(c, t, a).tool = t /\ Request(c, t, a).args = a
    BY DEF Request
<1> QED BY <1>2, <1>3, <1>5, <1>6 DEF Asked, c

\* The three lists of writes an answer may lead to.
LEMMA DecideIs ==
    ASSUME ToolInv, NEW d \in Decisions, NEW a \in Args, NEW s \in Scopes, decide(d, a, s)
    PROVE  /\ HasPending(log) /\ Target(a) \in Calls
           /\ Approving(d, a, s) \in WriteItems /\ Resuming \in WriteItems
           /\ Rerecording(a) \in WriteItems
           /\ Rerecording(a).event.call = Target(a) /\ Rerecording(a).event.tool = Asked.tool
           /\ Rerecording(a).event.args = a
           /\ Approving(d, a, s).kind = "append" /\ Approving(d, a, s).event.type = "approval"
           /\ Resuming.kind = "append" /\ Resuming.event.type = "resume"
           /\ \/ /\ d = "rejected" /\ a = Asked.args
                 /\ writes' = <<Concluding(Asked, "rejected"), Approving(d, a, s), Resuming>>
              \/ /\ d = "approved" /\ a # Asked.args
                 /\ writes' = <<Concluding(Asked, "superseded"), Rerecording(a),
                                Approving(d, a, s), Resuming>>
              \/ /\ d = "approved" /\ a = Asked.args
                 /\ writes' = <<Approving(d, a, s), Resuming>>
           /\ UNCHANGED <<log, rows, effects, runStatus, lapsed, cur, queue>>
<1> DEFINE k == Asked
           facts == IF d = "rejected" THEN <<Concluding(k, "rejected")>>
                    ELSE IF a # k.args THEN <<Concluding(k, "superseded"), Rerecording(a)>>
                    ELSE <<>>
<1>1. /\ HasPending(log)
      /\ a # k.args => d = "approved" /\ EditOf(Pending(log).call) \in Calls
      /\ writes' = DecideWrites(k, d, a, s)
      /\ UNCHANGED <<log, rows, effects, runStatus, lapsed, cur, queue>>
    BY DEF decide, Asked
<1>2. /\ k \in Requests /\ k.call = Pending(log).call /\ k.call \in Calls /\ k.tool \in Tools
      /\ Pending(log).index \in Nat
    BY <1>1, AskedIs DEF Requests
<1>3. Target(a) \in Calls
    BY <1>1, <1>2 DEF Target
<1>4. /\ Approving(d, a, s) \in WriteItems
      /\ Approving(d, a, s).kind = "append" /\ Approving(d, a, s).event.type = "approval"
    <2>1. ApprovalEvent(Target(a), k.tool, a, d, s) \in LoggedEvents
          /\ ApprovalEvent(Target(a), k.tool, a, d, s).type = "approval"
        BY <1>2, <1>3 DEF ApprovalEvent, LoggedEvents
    <2> QED BY <2>1, WritesAreItems, WhatWritesDo DEF Approving
<1>5. Resuming \in WriteItems /\ Resuming.kind = "append" /\ Resuming.event.type = "resume"
    <2>1. ResumeEvent(Pending(log).index) \in LoggedEvents
          /\ ResumeEvent(Pending(log).index).type = "resume"
        BY <1>2 DEF ResumeEvent, LoggedEvents
    <2> QED BY <2>1, WritesAreItems, WhatWritesDo DEF Resuming
<1>6. /\ Rerecording(a) \in WriteItems
      /\ Rerecording(a).event.call = Target(a) /\ Rerecording(a).event.tool = k.tool
      /\ Rerecording(a).event.args = a
    <2> DEFINE r == Request(Target(a), k.tool, a)
    <2>1. r \in Requests /\ r.call = Target(a) /\ r.tool = k.tool /\ r.args = a
        BY <1>2, <1>3 DEF Request, Requests
    <2> HIDE DEF r
    <2>2. Recording(r) \in WriteItems /\ Recording(r).event.call = r.call
          /\ Recording(r).event.tool = r.tool /\ Recording(r).event.args = r.args
        BY <2>1, WritesAreItems, WhatWritesDo
    <2> QED BY <2>1, <2>2 DEF Rerecording, r
<1>7. Concluding(k, "rejected") \in WriteItems /\ Concluding(k, "superseded") \in WriteItems
    BY <1>2, WritesAreItems DEF Statuses
<1>8. writes' = facts \o <<Approving(d, a, s)>> \o <<Resuming>>
    BY <1>1 DEF DecideWrites, ResumeWrites, Approving, Rerecording, Target, Resuming
<1>9. a # k.args => d = "approved"
    BY <1>1
<1> HIDE DEF k
<1>10. CASE d = "rejected"
    <2>1. writes' = <<Concluding(k, "rejected")>> \o <<Approving(d, a, s)>> \o <<Resuming>>
        BY <1>8, <1>10
    <2>2. a = k.args
        BY <1>9, <1>10
    <2>3. writes' = <<Concluding(k, "rejected"), Approving(d, a, s), Resuming>>
        BY <2>1, <1>4, <1>5, <1>7, JoinedLists
    <2> QED BY <1>1, <1>3, <1>4, <1>5, <1>6, <1>10, <2>2, <2>3 DEF k
<1>11. CASE d = "approved" /\ a # k.args
    <2>1. writes' = <<Concluding(k, "superseded"), Rerecording(a)>>
                    \o <<Approving(d, a, s)>> \o <<Resuming>>
        BY <1>8, <1>11
    <2>2. writes' = <<Concluding(k, "superseded"), Rerecording(a), Approving(d, a, s), Resuming>>
        BY <2>1, <1>4, <1>5, <1>6, <1>7, JoinedLists
    <2> QED BY <1>1, <1>3, <1>4, <1>5, <1>6, <1>11, <2>2 DEF k
<1>12. CASE d = "approved" /\ a = k.args
    <2>1. writes' = <<>> \o <<Approving(d, a, s)>> \o <<Resuming>>
        BY <1>8, <1>12
    <2>2. writes' = <<Approving(d, a, s), Resuming>>
        BY <2>1, <1>4, <1>5, JoinedLists
    <2> QED BY <1>1, <1>3, <1>4, <1>5, <1>6, <1>12, <2>2 DEF k
<1> QED BY <1>10, <1>11, <1>12 DEF Decisions

\* An answer appends events only, and about calls that are recorded.
LEMMA DecideKeeps ==
    ASSUME ToolInv, NEW d \in Decisions, NEW a \in Args, NEW s \in Scopes, decide(d, a, s),
           GoesOn(log), phase' \notin {"judge", "effect"}
    PROVE  ToolInv'
<1> DEFINE A == Approving(d, a, s)
           R == Rerecording(a)
           rej == Concluding(Asked, "rejected")
           sup == Concluding(Asked, "superseded")
<1>1. /\ A \in WriteItems /\ Resuming \in WriteItems /\ R \in WriteItems
      /\ \/ writes' = <<rej, A, Resuming>>
         \/ writes' = <<sup, R, A, Resuming>>
         \/ writes' = <<A, Resuming>>
      /\ UNCHANGED <<log, rows, effects, runStatus, lapsed, cur, queue>>
      /\ A.kind = "append" /\ A.event.type = "approval"
      /\ Resuming.kind = "append" /\ Resuming.event.type = "resume"
      /\ Asked \in Requests /\ Called(log, Asked.call)
    BY DecideIs, AskedIs
<1>2. /\ rej \in WriteItems /\ sup \in WriteItems
      /\ rej.kind = "append" /\ rej.event.type = "tool_result" /\ rej.event.call = Asked.call
      /\ sup.kind = "append" /\ sup.event.type = "tool_result" /\ sup.event.call = Asked.call
      /\ R.kind = "append" /\ R.event.type = "tool_call"
    BY <1>1, WritesAreItems, WhatWritesDo DEF Statuses, Rerecording
<1> HIDE DEF A, R, rej, sup
<1>3. writes' \in Seq(WriteItems)
    BY <1>1, <1>2, ShortLists
<1>4. \A i \in 1..Len(writes') : writes'[i] \in {A, R, rej, sup, Resuming}
    BY <1>1
<1>5. \A w \in {A, R, rej, sup, Resuming} :
          /\ w.kind = "append" /\ w.event.type \notin {"error", "agent_message", "interrupt"}
          /\ w.event.type = "tool_result" => w.event.call = Asked.call
    BY <1>1, <1>2
<1>6. RowWritesFollowResults' /\ ResultsAreOfCalls' /\ QuestionsAreOfCalls'
    BY <1>1, <1>4, <1>5, DurableKept DEF RowWritesFollowResults, IsRowWrite, ResultsAreOfCalls,
       IsConclusion, QuestionsAreOfCalls, IsAsking
<1>7. EndComesLast'
    BY <1>1, <1>4, <1>5, PipelineGoesOn, NothingEnds
<1>8. JudgedIsOpen' /\ IntentPrecedesEffect'
    BY DEF JudgedIsOpen, IntentPrecedesEffect
<1>9. Typed'
    BY <1>1, <1>3 DEF ToolInv, Typed
<1> QED BY <1>1, <1>6, <1>7, <1>8, <1>9, DurableKept DEF ToolInv

-----------------------------------------------------------------------------
(* What no step does *)

\* A tool takes effect only under the key of a call that is open.
LEMMA EffectIsOfOpenCall ==
    ASSUME ToolInv, ToolReturns \/ _handle_tool_failure, NEW c \in Calls, Closed(log, c)
    PROVE  effects'[c] = effects[c]
<1>1. /\ ~Closed(log, cur.call) /\ effects \in [Calls -> Seq(Args)]
      /\ \E after : effects' = [effects EXCEPT ![cur.call] = after]
    BY ToolEnd DEF ToolInv, Typed
<1> QED BY <1>1

\* A row is written only while it is open.
LEMMA WriteRowIsOfOpenRow ==
    ASSUME ToolInv, WriteRow, NEW c \in Calls,
           rows[c].status \in {"executed", "failed", "unknown"}
    PROVE  rows'[c] = rows[c]
<1> DEFINE w == Head(writes)
<1>1. /\ writes # <<>> /\ w.kind \in {"insert", "update"}
      /\ rows' = [rows EXCEPT ![cur.call] = RowAfter(@, w)]
    BY DEF WriteRow
<1>2. rows \in [Calls -> {NoRow} \cup RowsInUse] /\ writes \in Seq(WriteItems)
    BY DEF ToolInv, Typed
<1>3. w = writes[1] /\ 1 \in 1..Len(writes)
    BY <1>1, <1>2, ShiftedTail
<1>4. w.kind = "update" => rows[cur.call].status \in {"none", "pending"}
    BY <1>1, <1>3 DEF ToolInv, RowWritesFollowResults, IsRowWrite
<1>5. CASE c # cur.call
    BY <1>1, <1>2, <1>5
<1>6. CASE c = cur.call
    <2>1. w.kind = "insert" /\ rows[c] # NoRow
        BY <1>1, <1>4, <1>6 DEF NoRow
    <2>2. RowAfter(rows[c], w) = rows[c]
        BY <2>1 DEF RowAfter, record
    <2> QED BY <1>1, <1>2, <1>6, <2>2
<1> QED BY <1>5, <1>6

-----------------------------------------------------------------------------
(* What is under way *)

InHand(c) == phase \in {"judge", "effect"} /\ c = cur.call
WillConclude(c) == \E i \in 1..Len(writes) : IsConclusionOf(writes[i], c)
WillAsk == \E i \in 1..Len(writes) : IsAsking(writes[i])

\* The call a question is about was recorded.
LEMMA PendingIsCalled ==
    ASSUME ToolInv, HasPending(log)
    PROVE  Pending(log).call \in Calls /\ Called(log, Pending(log).call)
<1>1. log \in Logs /\ \A i \in Interrupts(log) : Called(log, log[i].call)
    BY DEF ToolInv, Typed, QuestionsAreOfCalls
<1> QED BY <1>1, PendingIsOf

\* What is open in a log is in the list recovery starts with.
LEMMA OpenCallsAre ==
    ASSUME NEW l \in Logs
    PROVE  \A c \in Calls : Open(l, c) => c \in OpenCalls(l)
<1> SUFFICES ASSUME NEW c \in Calls, Open(l, c) PROVE c \in OpenCalls(l)
    OBVIOUS
<1>1. \E i \in 1..Len(l) : l[i].type = "tool_call" /\ l[i].call = c
    BY CalledMeans DEF Open
<1> QED BY <1>1 DEF OpenCalls

\* The writes that wait behind the first are those that waited.
LEMMA RestWaits ==
    ASSUME ToolInv, writes # <<>>, writes' = Tail(writes)
    PROVE  /\ \A c : WillConclude(c) =>
                 IsConclusionOf(Head(writes), c) \/ WillConclude(c)'
           /\ WillAsk => IsAsking(Head(writes)) \/ WillAsk'
           /\ \A j \in 2..Len(writes) : j - 1 \in 1..Len(writes') /\ writes'[j - 1] = writes[j]
<1>1. /\ Head(writes) = writes[1] /\ Len(writes') = Len(writes) - 1 /\ Len(writes) \in Nat \ {0}
      /\ \A i \in 1..Len(writes') : i + 1 \in 1..Len(writes) /\ writes'[i] = writes[i + 1]
    BY RestOfWrites
<1>2. \A j \in 2..Len(writes) : j - 1 \in 1..Len(writes') /\ writes'[j - 1] = writes[j]
    <2> SUFFICES ASSUME NEW j \in 2..Len(writes)
                 PROVE  j - 1 \in 1..Len(writes') /\ writes'[j - 1] = writes[j]
        OBVIOUS
    <2>1. j - 1 \in 1..Len(writes') /\ (j - 1) + 1 = j
        BY <1>1
    <2> QED BY <1>1, <2>1
<1>3. \A j \in 1..Len(writes) : j = 1 \/ j \in 2..Len(writes)
    BY <1>1
<1> QED BY <1>1, <1>2, <1>3 DEF WillConclude, WillAsk

\* What execute does with a request: it is judged, or concluded at once.
LEMMA ExecuteDrives ==
    ASSUME ToolInv, NEW k \in Requests, execute(k)
    PROVE  /\ \A i \in 1..Len(writes') :
                 /\ ~IsAsking(writes'[i])
                 /\ ~(writes'[i].kind = "append" /\ writes'[i].event.type = "resume")
                 /\ \A c : IsRecordingOf(writes'[i], c) =>
                       /\ c = k.call
                       /\ \/ phase' = "judge" /\ cur' = k /\ ~Called(log, c)
                          \/ \E j \in (i + 1)..Len(writes') : IsConclusionOf(writes'[j], c)
           /\ phase' \in {"drive", "judge"}
           /\ phase' = "judge" => cur' = k
           /\ ~Closed(log, k.call) =>
                 \/ phase' = "judge" /\ cur' = k
                 \/ \E i \in 1..Len(writes') : IsConclusionOf(writes'[i], k.call)
<1>1. CASE phase' = "drive" /\ writes' = <<>> /\ Closed(log, k.call)
    BY <1>1
<1>2. CASE phase' = "drive" /\ writes' = <<Recording(k), Reporting, Concluding(k, "failed")>>
    <2>1. /\ Len(writes') = 3 /\ writes'[1] = Recording(k) /\ writes'[2] = Reporting
          /\ writes'[3] = Concluding(k, "failed")
        BY <1>2
    <2>2. IsConclusionOf(writes'[3], k.call)
        BY <2>1, WhatWritesDo DEF IsConclusionOf
    <2>3. \A i \in 1..Len(writes') :
              /\ ~IsAsking(writes'[i])
              /\ ~(writes'[i].kind = "append" /\ writes'[i].event.type = "resume")
              /\ \A c : IsRecordingOf(writes'[i], c) => c = k.call /\ i = 1
        <3>1. \A i \in 1..Len(writes') : i = 1 \/ i = 2 \/ i = 3
            BY <2>1
        <3>2. \A n \in {Recording(k), Reporting, Concluding(k, "failed")} :
                  /\ ~IsAsking(n)
                  /\ ~(n.kind = "append" /\ n.event.type = "resume")
                  /\ \A c : IsRecordingOf(n, c) => c = k.call /\ n = Recording(k)
            BY WhatWritesDo DEF IsAsking, IsRecordingOf
        <3>3. \A c : ~IsRecordingOf(writes'[2], c) /\ ~IsRecordingOf(writes'[3], c)
            BY <2>1, WhatWritesDo DEF IsRecordingOf
        <3> QED BY <2>1, <3>1, <3>2, <3>3
    <2>4. 3 \in 2..Len(writes') /\ 3 \in 1..Len(writes')
        BY <2>1
    <2> QED BY <1>2, <2>2, <2>3, <2>4
<1>3. CASE /\ phase' = "judge" /\ cur' = k
           /\ \/ Called(log, k.call) /\ writes' = <<>>
              \/ ~Called(log, k.call) /\ writes' = <<Recording(k)>>
    <2>1. \A i \in 1..Len(writes') : writes'[i] = Recording(k) /\ ~Called(log, k.call)
        BY <1>3
    <2>2. /\ ~IsAsking(Recording(k))
          /\ Recording(k).event.type # "resume"
          /\ \A c : IsRecordingOf(Recording(k), c) => c = k.call
        BY WhatWritesDo DEF IsAsking, IsRecordingOf
    <2> QED BY <1>3, <2>1, <2>2
<1> QED BY <1>1, <1>2, <1>3 DEF execute

-----------------------------------------------------------------------------
(***************************************************************************)
(* What the pipeline lets out into the world: nothing passes the approval  *)
(* gate or the policy, and every step is a step of ToolPromise or none.    *)
(***************************************************************************)

(* What it means that arguments may take effect *)

\* The approval at position p of log l lets call c take effect with a.
Grants(l, p, c, a) ==
    /\ l[p].decision = "approved"
    /\ l[p].args = a
    /\ \/ l[p].call = c
       \/ l[p].scope = "session" /\ l[p].tool = ToolOf(l, c)

Allowed(l, c, a) ==
    /\ a \in Permitted[ToolOf(l, c)]
    /\ ToolOf(l, c) \in NeedsApproval => \E p \in Approvals(l) : Grants(l, p, c, a)

\* All that took effect was allowed, and so is what the tool is about to get.
GateInv ==
    /\ \A c \in Calls : \A n \in 1..Len(effects[c]) : Allowed(log, c, effects[c][n])
    /\ phase = "effect" => Allowed(log, cur.call, Actual(cur))

-----------------------------------------------------------------------------
(* Lemmas on find_approval *)

\* The latest of a set of positions is one of them.
LEMMA MaxIsOf ==
    ASSUME NEW n \in Nat, NEW S \in SUBSET (1..n), S # {}
    PROVE  Max(S) \in S
<1> DEFINE T == {n - i : i \in S}
<1>0. \A i \in S : n - i \in Nat
    OBVIOUS
<1>1. T # {} /\ T \subseteq Nat
    BY <1>0
<1>2. PICK t \in T : \A u \in T : t <= u
    BY <1>1, LeastOf
<1>3. PICK i \in S : t = n - i
    OBVIOUS
<1>4. \A j \in S : i >= j
    BY <1>2, <1>3
<1> QED BY <1>4 DEF Max

\* The first of a set of numbers is one of them.
LEMMA MinIsOf ==
    ASSUME NEW S \in SUBSET Nat, S # {}
    PROVE  Min(S) \in S
<1>1. PICK t \in S : \A u \in S : t <= u
    BY LeastOf
<1> QED BY <1>1 DEF Min

\* A binding is an approval of the call, or of the session for its tool.
LEMMA BindingIsOfCall ==
    ASSUME NEW l \in Logs, NEW c, NEW t, NEW p \in FindApproval(l, c, t)
    PROVE  p \in Exact(l, c) \cup Reusable(l, t)
<1> DEFINE tiers == <<Granted(l, Exact(l, c)), Exact(l, c),
                      Granted(l, Reusable(l, t)), Reusable(l, t)>>
           some == {n \in 1..4 : tiers[n] # {}}
<1>1. some # {} /\ p = Max(tiers[Min(some)])
    BY DEF FindApproval
<1>2. Min(some) \in some
    <2>1. some \subseteq Nat
        OBVIOUS
    <2> QED BY <1>1, <2>1, MinIsOf
<1>3. /\ Exact(l, c) \subseteq 1..Len(l) /\ Granted(l, Exact(l, c)) \subseteq Exact(l, c)
      /\ Reusable(l, t) \subseteq 1..Len(l)
      /\ Granted(l, Reusable(l, t)) \subseteq Reusable(l, t)
    BY DEF Exact, Reusable, Granted, Approvals
<1>4. \A n \in 1..4 : tiers[n] \subseteq Exact(l, c) \cup Reusable(l, t)
    BY <1>3
<1>5. tiers[Min(some)] # {} /\ tiers[Min(some)] \subseteq Exact(l, c) \cup Reusable(l, t)
    BY <1>2, <1>4
<1> HIDE DEF tiers, some
<1>6. tiers[Min(some)] \in SUBSET (1..Len(l)) /\ Len(l) \in Nat
    BY <1>3, <1>5, AllLive
<1>7. Max(tiers[Min(some)]) \in tiers[Min(some)]
    BY <1>5, <1>6, MaxIsOf
<1> QED BY <1>1, <1>5, <1>7

\* When there is an approval of the call, or of the session, there is a binding.
LEMMA NoBinding ==
    ASSUME NEW l, NEW c, NEW t, FindApproval(l, c, t) = {}
    PROVE  Exact(l, c) = {} /\ Reusable(l, t) = {}
<1> DEFINE tiers == <<Granted(l, Exact(l, c)), Exact(l, c),
                      Granted(l, Reusable(l, t)), Reusable(l, t)>>
           some == {n \in 1..4 : tiers[n] # {}}
<1>1. some = {}
    BY DEF FindApproval
<1>2. tiers[2] = {} /\ tiers[4] = {}
    BY <1>1
<1> QED BY <1>2

\* The gate lets a recorded call run only with arguments it may take effect with.
LEMMA GateAllows ==
    ASSUME log \in Logs, NEW k \in Requests, ToolOf(log, k.call) = k.tool,
           GateOutcome(k) = "run"
    PROVE  /\ Allowed(log, k.call, Actual(k))
           /\ k.tool \in NeedsApproval => Actual(k) = k.args
<1> DEFINE binding == FindApproval(log, k.call, k.tool)
<1>1. /\ ~(binding = {} /\ k.tool \in NeedsApproval)
      /\ \A p \in binding : validates(k, p) /\ SameAsApproved(k, p)
      /\ InDomain(k)
    BY DEF GateOutcome
<1>2. ASSUME k.tool \in NeedsApproval
      PROVE  /\ \E p \in Approvals(log) : Grants(log, p, k.call, Actual(k))
             /\ Actual(k) = k.args
    <2>1. PICK p \in binding : TRUE
        BY <1>1, <1>2
    <2>2. p \in Exact(log, k.call) \cup Reusable(log, k.tool)
        BY <2>1, BindingIsOfCall
    <2>3. /\ log[p].decision = "approved" /\ log[p].args = Actual(k)
          /\ log[p].args = k.args
        BY <1>1, <2>1 DEF validates, SameAsApproved
    <2> QED BY <2>2, <2>3 DEF Exact, Reusable, Grants
<1> QED BY <1>1, <1>2 DEF Allowed, InDomain

\* A human is asked only about a call without a binding, and so about one that
\* had no effect: what takes effect at the gate was approved before.
LEMMA AskedHasNoEffect ==
    ASSUME ToolInv, GateInv, NEW k \in Requests, ToolOf(log, k.call) = k.tool,
           GateOutcome(k) = "asked"
    PROVE  effects[k.call] = <<>> /\ k.tool \in NeedsApproval
<1> DEFINE binding == FindApproval(log, k.call, k.tool)
<1>1. binding = {} /\ k.tool \in NeedsApproval
    BY DEF GateOutcome
<1>2. Exact(log, k.call) = {} /\ Reusable(log, k.tool) = {}
    BY <1>1, NoBinding
<1>3. effects[k.call] \in Seq(Args) /\ k.call \in Calls
    BY DEF ToolInv, Typed, Requests
<1>4. SUFFICES ASSUME effects[k.call] # <<>> PROVE FALSE
    BY <1>1
<1>5. 1 \in 1..Len(effects[k.call])
    BY <1>3, <1>4, ShiftedTail
<1>6. Allowed(log, k.call, effects[k.call][1])
    BY <1>3, <1>5 DEF GateInv
<1>7. PICK p \in Approvals(log) : Grants(log, p, k.call, effects[k.call][1])
    BY <1>1, <1>6 DEF Allowed
<1>8. p \in Exact(log, k.call) \/ p \in Reusable(log, k.tool)
    BY <1>7 DEF Grants, Exact, Reusable
<1> QED BY <1>2, <1>8

-----------------------------------------------------------------------------
(* No step passes the gate by *)

\* What a recorded call may take effect with, it may as the log grows.
LEMMA AllowedStays ==
    ASSUME ToolInv, AppendEvent, NEW c, Called(log, c), NEW a, Allowed(log, c, a)
    PROVE  Allowed(log', c, a)
<1> DEFINE e == Head(writes).event
<1>1. /\ e \in LoggedEvents /\ log' = Append(log, e) /\ log \in Logs /\ GoesOn(log)
      /\ ToolOf(log', c) = ToolOf(log, c)
      /\ Approvals(log) \subseteq Approvals(log')
    BY AppendEventLog
<1> HIDE DEF e
<1>2. \A p \in Approvals(log) : log'[p] = log[p]
    BY <1>1, AppendIs DEF Approvals
<1>3. \A p \in Approvals(log) : Grants(log, p, c, a) => Grants(log', p, c, a)
    BY <1>1, <1>2 DEF Grants
<1> QED BY <1>1, <1>3 DEF Allowed

\* Recording an event leaves every earlier effect allowed.
LEMMA AppendEventAllows ==
    ASSUME ToolInv, GateInv, AppendEvent
    PROVE  GateInv'
<1>1. UNCHANGED <<effects, phase, cur>>
    BY DEF AppendEvent
<1>2. ASSUME NEW c \in Calls, NEW n \in 1..Len(effects[c])
      PROVE  Allowed(log', c, effects[c][n])
    <2>1. effects[c] # <<>>
        BY <1>2
    <2>2. Called(log, c)
        BY <2>1 DEF ToolInv, UnrecordedIsUntouched
    <2> QED BY <1>2, <2>2, AllowedStays DEF GateInv
<1>3. ASSUME phase = "effect" PROVE Allowed(log', cur.call, Actual(cur))
    <2>1. Called(log, cur.call)
        BY <1>3 DEF ToolInv, IntentPrecedesEffect
    <2> QED BY <1>3, <2>1, AllowedStays DEF GateInv
<1>4. Actual(cur)' = Actual(cur)
    BY <1>1 DEF Actual
<1> QED BY <1>1, <1>2, <1>3, <1>4 DEF GateInv

\* A call is sent to its tool only by the gate.
LEMMA JudgedAllows ==
    ASSUME ToolInv, GateInv, NEW o \in Outcomes(cur), Judged(o)
    PROVE  GateInv'
<1>1. /\ cur \in Requests /\ ToolOf(log, cur.call) = cur.tool
      /\ (o = "run" /\ GateOutcome(cur) = "run") \/ phase' = "drive"
      /\ UNCHANGED <<log, effects, cur>>
    BY JudgedStep
<1>2. log \in Logs
    BY DEF ToolInv, Typed
<1>3. ASSUME phase' = "effect" PROVE Allowed(log, cur.call, Actual(cur))
    BY <1>1, <1>2, <1>3, GateAllows
<1>4. Actual(cur)' = Actual(cur)
    BY <1>1 DEF Actual
<1> QED BY <1>1, <1>3, <1>4 DEF GateInv

\* A tool leaves its mark with the arguments it was given, and no other mark.
LEMMA ApplyAdds ==
    ASSUME NEW k \in Requests, effects \in [Calls -> Seq(Args)],
           NEW n \in 1..Len(apply(k))
    PROVE  \/ n \in 1..Len(effects[k.call]) /\ apply(k)[n] = effects[k.call][n]
           \/ apply(k)[n] = Actual(k)
<1>1. effects[k.call] \in Seq(Args) /\ Actual(k) \in Args
    BY ActualIsArgs DEF Requests
<1>2. CASE apply(k) = effects[k.call]
    BY <1>2
<1>3. CASE apply(k) = <<Actual(k)>>
    BY <1>3
<1>4. CASE apply(k) = Append(effects[k.call], Actual(k))
    <2> DEFINE s == effects[k.call]
    <2>1. s \in Seq(Args)
        BY <1>1
    <2> HIDE DEF s
    <2>2. /\ Len(Append(s, Actual(k))) = Len(s) + 1 /\ Len(s) \in Nat
          /\ \A i \in 1..Len(s) : Append(s, Actual(k))[i] = s[i]
          /\ Append(s, Actual(k))[Len(s) + 1] = Actual(k)
        BY <1>1, <2>1, AppendProperties, LenProperties
    <2>3. n \in 1..Len(s) \/ n = Len(s) + 1
        BY <1>4, <2>2 DEF s
    <2> QED BY <1>4, <2>2, <2>3 DEF s
<1> QED BY <1>2, <1>3, <1>4 DEF apply

\* The tool takes effect with what the gate let through.
LEMMA ToolEndAllows ==
    ASSUME ToolInv, GateInv, ToolReturns \/ _handle_tool_failure
    PROVE  GateInv'
<1>1. /\ phase = "effect" /\ phase' = "drive" /\ log' = log /\ cur \in Requests
      /\ \E after \in {effects[cur.call], apply(cur)} :
            effects' = [effects EXCEPT ![cur.call] = after]
    BY ToolEnd
<1>2. /\ effects \in [Calls -> Seq(Args)]
      /\ Allowed(log, cur.call, Actual(cur))
    BY <1>1 DEF ToolInv, Typed, GateInv
<1>3. ASSUME NEW c \in Calls, NEW n \in 1..Len(effects'[c])
      PROVE  Allowed(log, c, effects'[c][n])
    <2>1. CASE effects'[c] = effects[c]
        BY <1>3, <2>1 DEF GateInv
    <2>2. CASE c = cur.call /\ effects'[c] = apply(cur)
        BY <1>1, <1>2, <1>3, <2>2, ApplyAdds DEF GateInv
    <2> QED BY <1>1, <1>2, <2>1, <2>2
<1> QED BY <1>1, <1>3 DEF GateInv

\* Nothing else moves the log, the world or a call to its tool.
LEMMA OthersAllow ==
    ASSUME GateInv, UNCHANGED <<log, effects>>,
           UNCHANGED <<phase, cur>> \/ phase' # "effect"
    PROVE  GateInv'
BY DEF GateInv, Actual

\* What the gate lets out was granted, and is within the tool's domain.
LEMMA GateHolds == GateInv => EffectsWereApproved /\ EffectsArePermitted
BY DEF GateInv, Allowed, Grants, EffectsWereApproved, EffectsArePermitted
-----------------------------------------------------------------------------
(* The promise: what a conclusion must not contradict *)

\* What Truthful of ToolPromise asks of a conclusion, of this log and world.
Truthful(c, s) ==
    /\ s = "executed" => KindOf(c) = "inert" \/ effects[c] # <<>>
    /\ s \in {"rejected", "superseded"} /\ KindOf(c) = "guarded" => effects[c] = <<>>
    /\ s = "failed" => KindOf(c) # "guarded"

\* An open intent row holds the arguments of its call, and behind the outbox a
\* tool gets the arguments its call asks for.
RowsTell ==
    /\ \A c \in Calls :
          Guarded(c) /\ ~Closed(log, c) /\ rows[c].status = "pending" =>
              rows[c].args = ArgsOf(log, c)
    /\ phase = "effect" /\ OutboxPath(cur.tool) => Actual(cur) = cur.args

\* A conclusion on its way to the log is true of its call, or too late; a call
\* recorded just before it is of a tool nobody registered.
ConclusionsAreTrue ==
    \A i \in 1..Len(writes), c \in Calls, s \in Statuses :
        IsConclusionOf(writes[i], c) /\ writes[i].event.status = s =>
            \/ Called(log, c) /\ Closed(log, c)
            \/ Called(log, c) /\ Truthful(c, s)
            \/ /\ ~Called(log, c)
               /\ s = "failed"
               /\ \A j \in 1..Len(writes) :
                     IsRecordingOf(writes[j], c) => writes[j].event.tool \notin Registered

PromiseInv == RowsTell /\ ConclusionsAreTrue

\* Where a tampered call could be retried under its row it is of a tool whose
\* gate holds what runs against what was approved, or nothing tampers with it.
TamperIsHarmless ==
    \A t \in Registered : OutboxPath(t) =>
        t \in NeedsApproval \/ \A a \in Args : Tamper[a] = a

\* Kinds are those of the promise, and the guarded ones are those of the outbox.
LEMMA KindIs ==
    ASSUME NEW c
    PROVE  /\ KindOf(c) \in Promise!Kinds
           /\ Called(log, c) => KindOf(c) # "none"
           /\ KindOf(c) = "guarded" <=> Guarded(c)
           /\ ~IsRegistered(c) => KindOf(c) \in {"none", "inert"}
           /\ IsRegistered(c) /\ Effect[ToolOf(log, c)] = "read" => KindOf(c) = "inert"
           /\ IsRegistered(c) /\ Effect[ToolOf(log, c)] # "read" => KindOf(c) # "inert"
           /\ KindOf(c) = "deduplicated" => Effect[ToolOf(log, c)] = "write_idempotent"
<1>1. IsRegistered(c) => Effect[ToolOf(log, c)] \in EffectClasses
    BY AttributesAreOfRegistered DEF IsRegistered
<1> QED BY <1>1 DEF KindOf, Promise!Kinds, Guarded, IsRegistered, OutboxPath, EffectClasses

\* As the log grows the kind of a recorded call stays what it is.
LEMMA KindStays ==
    ASSUME ToolInv, AppendEvent, NEW c
    PROVE  /\ Called(log, c) => KindOf(c)' = KindOf(c)
           /\ ~Called(log', c) => KindOf(c)' = KindOf(c)
<1>1. /\ Called(log, c) => Called(log', c) /\ ToolOf(log', c) = ToolOf(log, c)
      /\ ~Called(log', c) => ~Called(log, c)
    BY AppendEventLog
<1> QED BY <1>1 DEF KindOf, IsRegistered

\* So does its verdict once it is closed, and it is closed by its first result.
LEMMA VerdictMoves ==
    ASSUME ToolInv, AppendEvent, NEW c
    PROVE  LET e == Head(writes).event IN
           /\ ~Called(log', c) => VerdictOf(c)' = "absent" /\ VerdictOf(c) = "absent"
           /\ ~Called(log, c) /\ Called(log', c) =>
                 VerdictOf(c) = "absent" /\ VerdictOf(c)' = "open"
           /\ Called(log, c) /\ ~Closed(log', c) =>
                 VerdictOf(c) = "open" /\ VerdictOf(c)' = "open"
           /\ Closed(log, c) => VerdictOf(c)' = VerdictOf(c)
           /\ ~Closed(log, c) /\ Closed(log', c) =>
                 /\ e.type = "tool_result" /\ e.call = c /\ e.status \in Statuses
                 /\ VerdictOf(c) = "open" /\ VerdictOf(c)' = e.status
<1> DEFINE e == Head(writes).event
<1>1. /\ e \in LoggedEvents /\ log \in Logs /\ GoesOn(log) /\ log' = Append(log, e)
      /\ log' \in Logs
      /\ Called(log', c) <=> Called(log, c) \/ (e.type = "tool_call" /\ e.call = c)
      /\ Closed(log', c) <=>
            Closed(log, c) \/ (e.type = "tool_result" /\ e.call = c /\ Called(log, c))
    BY AppendEventLog
<1> HIDE DEF e
<1>2. /\ Closed(log, c) => Called(log, c)
      /\ Closed(log', c) => Called(log', c)
    BY <1>1, ClosedIsCalled
<1>3. /\ VerdictOf(c) = IF ~Called(log, c) THEN "absent"
                        ELSE IF ~Closed(log, c) THEN "open" ELSE ConclusionIn(log, c)
      /\ VerdictOf(c)' = IF ~Called(log', c) THEN "absent"
                         ELSE IF ~Closed(log', c) THEN "open" ELSE ConclusionIn(log', c)
    BY DEF VerdictOf, ConclusionIn
<1>4. Closed(log, c) => ConclusionIn(log', c) = ConclusionIn(log, c)
    BY <1>1, ConclusionStays
<1>5. ResultsAnswer(log)
    BY DEF ToolInv, ResultsAreOfCalls
<1>6. ~Closed(log, c) /\ e.type = "tool_result" /\ e.call = c =>
          ConclusionIn(log', c) = e.status
    BY <1>1, <1>5, ConclusionComes
<1>7. e.type = "tool_result" => e.status \in Statuses
    BY <1>1 DEF LoggedEvents
<1>8. /\ ~Called(log', c) => VerdictOf(c)' = "absent" /\ VerdictOf(c) = "absent"
      /\ ~Called(log, c) /\ Called(log', c) =>
            VerdictOf(c) = "absent" /\ VerdictOf(c)' = "open"
    <2>1. ~Called(log, c) => ~Closed(log', c)
        BY <1>1, <1>2
    <2> QED BY <1>1, <1>3, <2>1
<1>9. Called(log, c) /\ ~Closed(log', c) => VerdictOf(c) = "open" /\ VerdictOf(c)' = "open"
    BY <1>1, <1>3
<1>10. Closed(log, c) => VerdictOf(c)' = VerdictOf(c)
    BY <1>1, <1>2, <1>3, <1>4
<1>11. ~Closed(log, c) /\ Closed(log', c) =>
           /\ e.type = "tool_result" /\ e.call = c /\ e.status \in Statuses
           /\ VerdictOf(c) = "open" /\ VerdictOf(c)' = e.status
    BY <1>1, <1>3, <1>6, <1>7
<1> QED BY <1>8, <1>9, <1>10, <1>11 DEF e

-----------------------------------------------------------------------------
(* The promise: its steps *)

\* What the promise says of all calls stays when it stays of each.
LEMMA PromiseStutters ==
    ASSUME \A c \in Calls : /\ VerdictOf(c)' = VerdictOf(c) /\ KindOf(c)' = KindOf(c)
                            /\ Len(effects'[c]) = Len(effects[c])
    PROVE  UNCHANGED Promise!promise
BY DEF Promise!promise

\* One call is recorded.
LEMMA PromiseRecords ==
    ASSUME NEW c \in Calls, effects' = effects,
           \A d \in Calls : d # c => VerdictOf(d)' = VerdictOf(d) /\ KindOf(d)' = KindOf(d),
           VerdictOf(c) = "absent", VerdictOf(c)' = "open",
           KindOf(c)' \in Promise!Kinds \ {"none"}
    PROVE  Promise!Next
<1>1. Promise!Record(c, KindOf(c)')
    BY DEF Promise!Record
<1> QED BY <1>1 DEF Promise!Next

\* One call is concluded.
LEMMA PromiseConcludes ==
    ASSUME NEW c \in Calls, NEW s \in Statuses, effects' = effects,
           effects[c] \in Seq(Args),
           \A d \in Calls : /\ d # c => VerdictOf(d)' = VerdictOf(d)
                            /\ KindOf(d)' = KindOf(d),
           VerdictOf(c) = "open", VerdictOf(c)' = s, Truthful(c, s)
    PROVE  Promise!Next
<1>1. effects[c] # <<>> <=> Len(effects[c]) > 0
    BY EmptySeq, LenProperties
<1>2. Promise!Truthful(c, s)
    <2>1. effects[c] = <<>> => Len(effects[c]) = 0
        OBVIOUS
    <2> QED BY <1>1, <2>1 DEF Truthful, Promise!Truthful
<1>3. Promise!Conclude(c, s)
    BY <1>2 DEF Promise!Conclude
<1>4. s \in Promise!Verdicts \ {"absent", "open"}
    BY DEF Promise!Verdicts, Statuses
<1> QED BY <1>3, <1>4 DEF Promise!Next

\* One call takes effect.
LEMMA PromiseApplies ==
    ASSUME NEW c \in Calls, log' = log,
           \A d \in Calls : d # c => effects'[d] = effects[d],
           VerdictOf(c) = "open", KindOf(c) # "inert",
           KindOf(c) \in {"guarded", "deduplicated"} => Len(effects[c]) = 0,
           Len(effects'[c]) = Len(effects[c]) + 1
    PROVE  Promise!Next
<1>1. \A d \in Calls : VerdictOf(d)' = VerdictOf(d) /\ KindOf(d)' = KindOf(d)
    BY DEF VerdictOf, KindOf, IsRegistered
<1>2. Promise!Apply(c)
    BY <1>1 DEF Promise!Apply
<1> QED BY <1>2 DEF Promise!Next

\* Appending an event records a call, concludes one, or changes nothing.
LEMMA AppendEventPromise ==
    ASSUME ToolInv, PromiseInv, AppendEvent
    PROVE  Promise!Next \/ UNCHANGED Promise!promise
<1>0. PICK e \in LoggedEvents : e = Head(writes).event
    BY AppendEventLog
<1>1. /\ e \in LoggedEvents
      /\ \A c : Called(log', c) <=> Called(log, c) \/ (e.type = "tool_call" /\ e.call = c)
      /\ \A c : Closed(log', c) <=>
            Closed(log, c) \/ (e.type = "tool_result" /\ e.call = c /\ Called(log, c))
      /\ log \in Logs
    BY <1>0, AppendEventLog
<1>2. /\ UNCHANGED effects /\ effects \in [Calls -> Seq(Args)]
      /\ writes # <<>> /\ Head(writes).kind = "append"
    BY DEF AppendEvent, ToolInv, Typed
<1>3. \A c : /\ ~Called(log', c) => VerdictOf(c)' = "absent" /\ VerdictOf(c) = "absent"
             /\ ~Called(log, c) /\ Called(log', c) =>
                   VerdictOf(c) = "absent" /\ VerdictOf(c)' = "open"
             /\ Called(log, c) /\ ~Closed(log', c) =>
                   VerdictOf(c) = "open" /\ VerdictOf(c)' = "open"
             /\ Closed(log, c) => VerdictOf(c)' = VerdictOf(c)
             /\ ~Closed(log, c) /\ Closed(log', c) =>
                   /\ e.type = "tool_result" /\ e.call = c /\ e.status \in Statuses
                   /\ VerdictOf(c) = "open" /\ VerdictOf(c)' = e.status
    BY <1>0, VerdictMoves
<1>4. \A c : /\ Called(log, c) => KindOf(c)' = KindOf(c)
             /\ ~Called(log', c) => KindOf(c)' = KindOf(c)
    BY KindStays
<1>5. 1 \in 1..Len(writes) /\ Head(writes) = writes[1]
    BY <1>2, RestOfWrites
<1>6. CASE e.type = "tool_call" /\ ~Called(log, e.call)
    <2>1. e.call \in Calls
        BY <1>1, <1>6 DEF LoggedEvents
    <2>2. VerdictOf(e.call) = "absent" /\ VerdictOf(e.call)' = "open"
        BY <1>1, <1>3, <1>6
    <2>3. KindOf(e.call)' \in Promise!Kinds \ {"none"}
        <3>1. Called(log', e.call)
            BY <1>1, <1>6
        <3>2. KindOf(e.call)' \in Promise!Kinds /\ KindOf(e.call)' # "none"
            <4>1. \A x \in EffectClasses : x \in {"read", "write_idempotent", "write_nonidempotent"}
                BY DEF EffectClasses
            <4>2. KindOf(e.call)' =
                    IF ~Called(log', e.call) THEN "none"
                    ELSE IF ~(Called(log', e.call) /\ ToolOf(log', e.call) \in Registered)
                         THEN "inert"
                    ELSE CASE Effect[ToolOf(log', e.call)] = "read" -> "inert"
                           [] Effect[ToolOf(log', e.call)] = "write_idempotent" -> "deduplicated"
                           [] OTHER -> IF Outbox THEN "guarded" ELSE "bare"
                BY DEF KindOf, IsRegistered
            <4> QED BY <3>1, <4>2 DEF Promise!Kinds
        <3> QED BY <3>2
    <2>4. \A d \in Calls : d # e.call => VerdictOf(d)' = VerdictOf(d) /\ KindOf(d)' = KindOf(d)
        BY <1>1, <1>3, <1>4, <1>6
    <2> QED BY <1>2, <2>1, <2>2, <2>3, <2>4, PromiseRecords
<1>7. CASE e.type = "tool_result" /\ ~Closed(log, e.call)
    <2>1. Called(log, e.call)
        BY <1>0, <1>2, <1>5, <1>7 DEF ToolInv, ResultsAreOfCalls, IsConclusion
    <2>2. e.call \in Calls /\ e.status \in Statuses
        BY <1>1, <1>7 DEF LoggedEvents
    <2>3. VerdictOf(e.call) = "open" /\ VerdictOf(e.call)' = e.status
        BY <1>1, <1>3, <1>7, <2>1
    <2>4. Truthful(e.call, e.status)
        BY <1>0, <1>2, <1>5, <1>7, <2>1, <2>2 DEF PromiseInv, ConclusionsAreTrue, IsConclusionOf
    <2>5. \A d \in Calls : /\ d # e.call => VerdictOf(d)' = VerdictOf(d)
                           /\ KindOf(d)' = KindOf(d)
        BY <1>1, <1>3, <1>4, <1>7
    <2> QED BY <1>2, <2>2, <2>3, <2>4, <2>5, PromiseConcludes
<1>8. CASE ~(e.type = "tool_call" /\ ~Called(log, e.call))
           /\ ~(e.type = "tool_result" /\ ~Closed(log, e.call))
    <2>1. \A d \in Calls : VerdictOf(d)' = VerdictOf(d) /\ KindOf(d)' = KindOf(d)
        BY <1>1, <1>3, <1>4, <1>8
    <2> QED BY <1>2, <2>1, PromiseStutters
<1> QED BY <1>6, <1>7, <1>8

\* A tool that ends applies its call, or changes nothing.
LEMMA ToolEndPromise ==
    ASSUME ToolInv, ToolReturns \/ _handle_tool_failure
    PROVE  Promise!Next \/ UNCHANGED Promise!promise
<1> DEFINE c0 == cur.call
<1>1. /\ log' = log /\ cur \in Requests /\ cur.tool \in Registered
      /\ Called(log, c0) /\ ~Closed(log, c0) /\ ToolOf(log, c0) = cur.tool
      /\ OutboxPath(cur.tool) => effects[c0] = <<>>
      /\ c0 \in Calls /\ effects \in [Calls -> Seq(Args)]
    BY ToolEnd DEF ToolInv, Typed, Requests
<1>2. PICK after \in {effects[c0], apply(cur)} : effects' = [effects EXCEPT ![c0] = after]
    BY ToolEnd
<1>3. /\ effects'[c0] = after /\ \A d \in Calls : d # c0 => effects'[d] = effects[d]
    BY <1>1, <1>2
<1>4. /\ Effect[cur.tool] = "read" => apply(cur) = effects[c0]
      /\ apply(cur) = effects[c0] \/ Len(apply(cur)) = Len(effects[c0]) + 1
      /\ Effect[cur.tool] = "write_idempotent" /\ effects[c0] # <<>> => apply(cur) = effects[c0]
    BY <1>1, ApplyIs
<1>5. CASE after = effects[c0]
    <2>1. \A d \in Calls : VerdictOf(d)' = VerdictOf(d) /\ KindOf(d)' = KindOf(d)
        BY <1>1 DEF VerdictOf, KindOf, IsRegistered
    <2> QED BY <1>3, <1>5, <2>1, PromiseStutters
<1>6. CASE after # effects[c0]
    <2>1. IsRegistered(c0) /\ Effect[ToolOf(log, c0)] # "read"
        BY <1>1, <1>2, <1>4, <1>6 DEF IsRegistered
    <2>2. VerdictOf(c0) = "open"
        BY <1>1 DEF VerdictOf
    <2>3. KindOf(c0) # "inert"
        BY <2>1, KindIs
    <2>4. KindOf(c0) = "guarded" => effects[c0] = <<>>
        BY <1>1, KindIs DEF Guarded
    <2>5. KindOf(c0) = "deduplicated" => effects[c0] = <<>>
        BY <1>1, <1>2, <1>4, <1>6, KindIs
    <2>6. Len(effects'[c0]) = Len(effects[c0]) + 1
        BY <1>2, <1>3, <1>4, <1>6
    <2>7. effects[c0] = <<>> => Len(effects[c0]) = 0
        OBVIOUS
    <2> HIDE DEF c0
    <2> QED BY <1>1, <1>3, <2>2, <2>3, <2>4, <2>5, <2>6, <2>7, PromiseApplies
<1> QED BY <1>5, <1>6

\* Nothing else shows.
LEMMA OthersPromise ==
    ASSUME UNCHANGED <<log, effects>>
    PROVE  UNCHANGED Promise!promise
<1>1. \A d \in Calls : VerdictOf(d)' = VerdictOf(d) /\ KindOf(d)' = KindOf(d)
    BY DEF VerdictOf, KindOf, IsRegistered
<1> QED BY <1>1, PromiseStutters

-----------------------------------------------------------------------------
(* The promise: writes *)

\* What is true of a conclusion of a recorded call stays true as the log grows.
LEMMA TruthStays ==
    ASSUME ToolInv, AppendEvent, NEW c, NEW s, Called(log, c), Truthful(c, s)
    PROVE  Truthful(c, s)'
<1>1. KindOf(c)' = KindOf(c) /\ effects' = effects
    BY KindStays DEF AppendEvent
<1> QED BY <1>1 DEF Truthful

\* Appending an event leaves the conclusions that wait behind it true.
LEMMA AppendEventTells ==
    ASSUME ToolInv, PromiseInv, AppendEvent
    PROVE  PromiseInv'
<1>0. PICK e \in LoggedEvents : e = Head(writes).event
    BY AppendEventLog
<1>1. /\ \A c : Called(log', c) <=> Called(log, c) \/ (e.type = "tool_call" /\ e.call = c)
      /\ \A c : Closed(log', c) <=>
            Closed(log, c) \/ (e.type = "tool_result" /\ e.call = c /\ Called(log, c))
      /\ \A c : Called(log, c) => /\ ToolOf(log', c) = ToolOf(log, c)
                                  /\ ArgsOf(log', c) = ArgsOf(log, c)
      /\ log \in Logs /\ GoesOn(log) /\ log' = Append(log, e)
    BY <1>0, AppendEventLog
<1>2. /\ UNCHANGED <<rows, effects, phase, cur>>
      /\ writes # <<>> /\ Head(writes).kind = "append" /\ writes' = Tail(writes)
    BY DEF AppendEvent
<1>3. /\ Head(writes) = writes[1] /\ 1 \in 1..Len(writes)
      /\ \A i \in 1..Len(writes') : i + 1 \in 1..Len(writes) /\ writes'[i] = writes[i + 1]
    BY <1>2, RestOfWrites
<1>4. phase # "effect"
    <2> SUFFICES ASSUME phase = "effect" PROVE FALSE
        OBVIOUS
    <2>1. Head(writes) = Insert("pending", Actual(cur))
        BY <1>2, OnlyOneToWrite
    <2> QED BY <1>2, <2>1, WhatWritesDo
<1>5. RowsTell'
    <2> SUFFICES ASSUME NEW c \in Calls, Guarded(c)', ~Closed(log', c),
                        rows[c].status = "pending"
                 PROVE  rows[c].args = ArgsOf(log', c)
        BY <1>2, <1>4 DEF RowsTell
    <2>1. Called(log, c)
        BY DEF ToolInv, UnrecordedIsUntouched, NoRow
    <2>2. Guarded(c) /\ ~Closed(log, c) /\ ArgsOf(log', c) = ArgsOf(log, c)
        BY <1>1, <2>1 DEF Guarded, IsRegistered
    <2> QED BY <2>2 DEF PromiseInv, RowsTell
<1>6. ASSUME NEW i \in 1..Len(writes), NEW c \in Calls, NEW s \in Statuses,
             IsConclusionOf(writes[i], c), writes[i].event.status = s
      PROVE  \/ Called(log', c) /\ Closed(log', c)
             \/ Called(log', c) /\ Truthful(c, s)'
             \/ /\ ~Called(log', c) /\ s = "failed"
                /\ \A j \in 1..Len(writes') :
                      IsRecordingOf(writes'[j], c) => writes'[j].event.tool \notin Registered
    <2>1. \/ Called(log, c) /\ Closed(log, c)
          \/ Called(log, c) /\ Truthful(c, s)
          \/ /\ ~Called(log, c) /\ s = "failed"
             /\ \A j \in 1..Len(writes) :
                   IsRecordingOf(writes[j], c) => writes[j].event.tool \notin Registered
        BY <1>6 DEF PromiseInv, ConclusionsAreTrue
    <2>2. CASE Called(log, c) /\ Closed(log, c)
        BY <1>1, <2>2
    <2>3. CASE Called(log, c) /\ Truthful(c, s)
        BY <1>1, <2>3, TruthStays
    <2>4. CASE /\ ~Called(log, c) /\ s = "failed"
               /\ \A j \in 1..Len(writes) :
                     IsRecordingOf(writes[j], c) => writes[j].event.tool \notin Registered
        <3>1. CASE ~Called(log', c)
            BY <1>3, <2>4, <3>1
        <3>2. CASE Called(log', c)
            <4>1. e.type = "tool_call" /\ e.call = c
                BY <1>1, <2>4, <3>2
            <4>2. e.tool \notin Registered
                BY <1>0, <1>2, <1>3, <2>4, <4>1 DEF IsRecordingOf
            <4>3. ToolOf(log', c) = e.tool
                BY <1>1, <2>4, <4>1, RequestIsRecorded
            <4>4. ~IsRegistered(c)'
                BY <4>2, <4>3 DEF IsRegistered
            <4>5. KindOf(c)' \in {"none", "inert"}
                BY <4>4 DEF KindOf
            <4>6. Truthful(c, s)'
                BY <2>4, <4>5 DEF Truthful
            <4> QED BY <3>2, <4>6
        <3> QED BY <3>1, <3>2
    <2> QED BY <2>1, <2>2, <2>3, <2>4
<1>7. ConclusionsAreTrue'
    BY <1>3, <1>6 DEF ConclusionsAreTrue
<1> QED BY <1>5, <1>7 DEF PromiseInv

\* So does any other write, and what it leaves of the list.
LEMMA RestTells ==
    ASSUME ToolInv, PromiseInv, writes # <<>>, writes' = Tail(writes),
           Head(writes).kind # "append", UNCHANGED <<log, effects>>
    PROVE  ConclusionsAreTrue'
<1>1. \A i \in 1..Len(writes') : i + 1 \in 1..Len(writes) /\ writes'[i] = writes[i + 1]
    BY RestOfWrites
<1>2. \A c : KindOf(c)' = KindOf(c)
    BY DEF KindOf, IsRegistered
<1>3. \A c, s : Truthful(c, s)' <=> Truthful(c, s)
    BY <1>2 DEF Truthful
<1> SUFFICES ASSUME NEW i \in 1..Len(writes'), NEW c \in Calls, NEW s \in Statuses,
                    IsConclusionOf(writes'[i], c), writes'[i].event.status = s
             PROVE  \/ Called(log, c) /\ Closed(log, c)
                    \/ Called(log, c) /\ Truthful(c, s)'
                    \/ /\ ~Called(log, c) /\ s = "failed"
                       /\ \A j \in 1..Len(writes') :
                             IsRecordingOf(writes'[j], c) =>
                                 writes'[j].event.tool \notin Registered
    BY DEF ConclusionsAreTrue
<1> DEFINE n == i + 1
<1>4. n \in 1..Len(writes) /\ IsConclusionOf(writes[n], c) /\ writes[n].event.status = s
    BY <1>1
<1> HIDE DEF n
<1>5. \/ Called(log, c) /\ Closed(log, c)
      \/ Called(log, c) /\ Truthful(c, s)
      \/ /\ ~Called(log, c) /\ s = "failed"
         /\ \A j \in 1..Len(writes) :
               IsRecordingOf(writes[j], c) => writes[j].event.tool \notin Registered
    BY <1>4 DEF PromiseInv, ConclusionsAreTrue
<1> QED BY <1>1, <1>3, <1>5

LEMMA OtherWriteTells ==
    ASSUME ToolInv, PromiseInv, writes # <<>>, writes' = Tail(writes),
           Head(writes).kind # "append", UNCHANGED <<log, rows, effects, phase, cur>>
    PROVE  PromiseInv'
<1>1. RowsTell'
    BY DEF PromiseInv, RowsTell, Guarded, IsRegistered, Actual
<1> QED BY <1>1, RestTells DEF PromiseInv

\* An intent row is written with what the tool is about to get.
LEMMA WriteRowTells ==
    ASSUME ToolInv, PromiseInv, WriteRow
    PROVE  PromiseInv'
<1> DEFINE w == Head(writes)
           c0 == cur.call
<1>1. /\ writes # <<>> /\ w.kind \in {"insert", "update"}
      /\ rows' = [rows EXCEPT ![c0] = RowAfter(@, w)]
      /\ writes' = Tail(writes)
      /\ UNCHANGED <<log, effects, phase, cur>>
      /\ rows \in [Calls -> {NoRow} \cup RowsInUse]
    BY DEF ToolInv, Typed, WriteRow
<1>2. w = writes[1] /\ 1 \in 1..Len(writes) /\ IsRowWrite(writes[1])
    BY <1>1, RestOfWrites DEF IsRowWrite
<1>3. /\ cur \in Requests /\ c0 \in Calls
      /\ \/ phase = "effect" /\ w.kind = "insert" /\ w.status = "pending"
         \/ phase # "effect" /\ Closed(log, c0)
    BY <1>2 DEF ToolInv, RowWritesFollowResults, Requests
<1>4. ConclusionsAreTrue'
    BY <1>1, RestTells
<1>5. phase = "effect" => /\ w = Insert("pending", Actual(cur))
                          /\ rows[c0] = NoRow /\ ArgsOf(log, c0) = cur.args
                          /\ ToolOf(log, c0) = cur.tool
    BY <1>1, OnlyOneToWrite DEF ToolInv, IntentPrecedesEffect
<1>6. ASSUME NEW c \in Calls, Guarded(c), ~Closed(log, c), rows'[c].status = "pending"
      PROVE  rows'[c].args = ArgsOf(log, c)
    <2>1. CASE c # c0
        <3>1. rows'[c] = rows[c]
            BY <1>1, <2>1
        <3> QED BY <1>6, <3>1 DEF PromiseInv, RowsTell
    <2>2. CASE c = c0
        <3>1. phase = "effect"
            BY <1>3, <1>6, <2>2
        <3>2. rows'[c] = RowAfter(NoRow, Insert("pending", Actual(cur)))
            BY <1>1, <1>3, <1>5, <2>2, <3>1
        <3>3. rows'[c].args = Actual(cur)
            BY <3>2 DEF RowAfter, record, Insert
        <3>4. OutboxPath(cur.tool)
            BY <1>5, <1>6, <2>2, <3>1 DEF Guarded
        <3> QED BY <1>5, <2>2, <3>1, <3>3, <3>4 DEF PromiseInv, RowsTell
    <2> QED BY <2>1, <2>2
<1>7. RowsTell'
    <2>1. Actual(cur)' = Actual(cur) /\ \A c : Guarded(c)' <=> Guarded(c)
        BY <1>1 DEF Actual, Guarded, IsRegistered
    <2> QED BY <1>1, <1>6, <2>1 DEF PromiseInv, RowsTell
<1> QED BY <1>4, <1>7 DEF PromiseInv

\* A step that touches no row and no log, and sends nothing to a tool, keeps it
\* if the conclusions it is about to write are true.
LEMMA NewWritesTell ==
    ASSUME PromiseInv, UNCHANGED <<log, rows>>, phase' # "effect",
           \A i \in 1..Len(writes'), c \in Calls, s \in Statuses :
               IsConclusionOf(writes'[i], c) /\ writes'[i].event.status = s =>
                   Called(log, c) /\ (Closed(log, c) \/ Truthful(c, s)')
    PROVE  PromiseInv'
<1>1. RowsTell'
    BY DEF PromiseInv, RowsTell, Guarded, IsRegistered
<1>2. ConclusionsAreTrue'
    BY DEF ConclusionsAreTrue
<1> QED BY <1>1, <1>2 DEF PromiseInv

\* In particular if it concludes nothing.
LEMMA DriverStepTells ==
    ASSUME PromiseInv, UNCHANGED <<log, rows, effects>>, phase' # "effect",
           \A i \in 1..Len(writes') : ~IsConclusion(writes'[i])
    PROVE  PromiseInv'
<1>1. \A i \in 1..Len(writes'), c \in Calls : ~IsConclusionOf(writes'[i], c)
    BY DEF IsConclusion, IsConclusionOf
<1> QED BY <1>1, NewWritesTell

\* Nor does a step of something else.
LEMMA QuietTells ==
    ASSUME PromiseInv, UNCHANGED <<log, rows, effects, phase, writes, cur>>
    PROVE  PromiseInv'
BY DEF PromiseInv, RowsTell, ConclusionsAreTrue, Guarded, IsRegistered, Actual, Truthful, KindOf

\* A call of a tool nobody registered is recorded, unless it is, and failed.
LEMMA ExecuteTells ==
    ASSUME ToolInv, PromiseInv, NEW k \in Requests, execute(k),
           Called(log, k.call) => ToolOf(log, k.call) = k.tool,
           UNCHANGED <<log, rows, effects>>
    PROVE  PromiseInv'
<1> DEFINE r == Recording(k)
           f == Concluding(k, "failed")
<1>1. /\ ~IsConclusion(r) /\ ~IsConclusion(Reporting)
      /\ f.event.call = k.call /\ f.event.status = "failed"
      /\ r.event.tool = k.tool
      /\ \A c : ~IsRecordingOf(Reporting, c) /\ ~IsRecordingOf(f, c)
    BY WhatWritesDo DEF IsConclusion, IsRecordingOf
<1> HIDE DEF r, f
<1>2. \/ writes' = <<>> /\ phase' # "effect"
      \/ writes' = <<r>> /\ phase' # "effect"
      \/ /\ writes' = <<r, Reporting, f>> /\ phase' # "effect"
         /\ k.tool \notin Registered
    BY DEF execute, r, f
<1>3. CASE writes' = <<>> \/ writes' = <<r>>
    <2>1. \A i \in 1..Len(writes') : ~IsConclusion(writes'[i])
        BY <1>1, <1>3
    <2> QED BY <1>2, <2>1, DriverStepTells
<1>4. CASE writes' = <<r, Reporting, f>> /\ k.tool \notin Registered
    <2>1. ASSUME NEW i \in 1..Len(writes'), NEW c \in Calls, NEW s \in Statuses,
                 IsConclusionOf(writes'[i], c), writes'[i].event.status = s
          PROVE  c = k.call /\ s = "failed"
        BY <1>1, <1>4, <2>1 DEF IsConclusionOf, IsConclusion
    <2>2. ASSUME NEW c, NEW j \in 1..Len(writes'), IsRecordingOf(writes'[j], c)
          PROVE  writes'[j].event.tool \notin Registered
        BY <1>1, <1>4, <2>2
    <2>3. Called(log, k.call) => Truthful(k.call, "failed")'
        <3> SUFFICES ASSUME Called(log, k.call) PROVE Truthful(k.call, "failed")'
            OBVIOUS
        <3>1. ~IsRegistered(k.call)'
            BY <1>4 DEF IsRegistered
        <3>2. KindOf(k.call)' \in {"none", "inert"}
            BY <3>1 DEF KindOf
        <3> QED BY <3>2 DEF Truthful
    <2>4. ConclusionsAreTrue'
        BY <2>1, <2>2, <2>3 DEF ConclusionsAreTrue
    <2>5. RowsTell'
        BY <1>2 DEF PromiseInv, RowsTell, Guarded, IsRegistered
    <2> QED BY <2>4, <2>5 DEF PromiseInv
<1> QED BY <1>2, <1>3, <1>4

\* Recovery hands on open calls with the request the log has.
LEMMA DriveNextTells ==
    ASSUME ToolInv, PromiseInv, DriveNext
    PROVE  PromiseInv'
<1>1. PICK c \in queue :
              LET k == Request(c, ToolOf(log, c), ArgsOf(log, c)) IN
              k \in Requests /\ k.call = c /\ k.tool = ToolOf(log, c) /\ execute(k)
    BY DrivenRequest
<1>2. UNCHANGED <<log, rows, effects>>
    BY DEF DriveNext
<1> QED BY <1>1, <1>2, ExecuteTells

\* A list that concludes the call in hand, truly.
LEMMA ConcludingTells ==
    ASSUME PromiseInv, UNCHANGED <<log, rows>>, phase' = "drive",
           NEW k \in Requests, NEW s \in Statuses, NEW w, w.kind # "append",
           Called(log, k.call), Truthful(k.call, s)',
           \/ writes' = <<Reporting, Concluding(k, s)>>
           \/ writes' = <<Concluding(k, s), w>>
           \/ writes' = <<Reporting, Concluding(k, s), w>>
    PROVE  PromiseInv'
<1> DEFINE f == Concluding(k, s)
<1>1. /\ f.event.call = k.call /\ f.event.status = s
      /\ \A c : ~IsConclusionOf(Reporting, c) /\ ~IsConclusionOf(w, c)
    BY WhatWritesDo DEF IsConclusionOf
<1> HIDE DEF f
<1>2. \A i \in 1..Len(writes') : writes'[i] \in {f, w, Reporting}
    BY DEF f
<1>3. ASSUME NEW i \in 1..Len(writes'), NEW c \in Calls, NEW t \in Statuses,
             IsConclusionOf(writes'[i], c), writes'[i].event.status = t
      PROVE  c = k.call /\ t = s
    BY <1>1, <1>2, <1>3 DEF IsConclusionOf
<1> QED BY <1>3, NewWritesTell

\* Judging concludes only what the row and the world allow to be concluded.
LEMMA JudgedTells ==
    ASSUME ToolInv, GateInv, PromiseInv, TamperIsHarmless, NEW o \in Outcomes(cur), Judged(o)
    PROVE  PromiseInv'
<1> DEFINE c0 == cur.call
<1>1. /\ cur \in Requests /\ cur.tool \in Registered
      /\ Called(log, c0) /\ ~Closed(log, c0)
      /\ ToolOf(log, c0) = cur.tool /\ ArgsOf(log, c0) = cur.args
      /\ phase = "judge" /\ writes = <<>>
      /\ rows[c0] = NoRow \/ rows[c0].status = "pending"
      /\ UNCHANGED <<log, rows, effects, runStatus, lapsed, cur>>
    BY JudgedStep
<1>2. \A c : KindOf(c)' = KindOf(c)
    BY <1>1 DEF KindOf, IsRegistered
<1>3. \A c, s : Truthful(c, s)' <=> Truthful(c, s)
    BY <1>1, <1>2 DEF Truthful
<1>4. "go" \in IntentOutcomes(cur) /\ OutboxPath(cur.tool) => effects[c0] = <<>>
    BY <1>1, JudgedOutcome
<1>5. Guarded(c0) <=> OutboxPath(cur.tool)
    BY <1>1 DEF Guarded, IsRegistered
<1>6. CASE o = "run"
    <2>1. /\ phase' = "effect" /\ GateOutcome(cur) = "run"
          /\ writes' = <<Insert("pending", Actual(cur))>> \/ writes' = <<>>
        BY <1>6, JudgedStep
    <2>2. log \in Logs
        BY DEF ToolInv, Typed
    <2>3. ASSUME OutboxPath(cur.tool) PROVE Actual(cur) = cur.args
        <3>1. CASE cur.tool \in NeedsApproval
            BY <1>1, <2>1, <2>2, <3>1, GateAllows
        <3>2. CASE cur.tool \notin NeedsApproval
            BY <1>1, <2>3, <3>2 DEF TamperIsHarmless, Actual, Requests
        <3> QED BY <3>1, <3>2
    <2>4. RowsTell'
        BY <1>1, <2>3 DEF PromiseInv, RowsTell, Guarded, IsRegistered, Actual
    <2>5. \A i \in 1..Len(writes') : ~IsConclusion(writes'[i])
        <3> DEFINE w == Insert("pending", Actual(cur))
        <3>1. w.kind # "append"
            BY WhatWritesDo
        <3> HIDE DEF w
        <3>2. CASE writes' = <<w>>
            BY <3>1, <3>2 DEF IsConclusion
        <3>3. CASE writes' = <<>>
            BY <3>3
        <3> QED BY <2>1, <3>2, <3>3 DEF w
    <2>6. ConclusionsAreTrue'
        BY <2>5 DEF ConclusionsAreTrue, IsConclusion, IsConclusionOf
    <2> QED BY <2>4, <2>6 DEF PromiseInv
<1>7. CASE o = "asked"
    <2> DEFINE w == Appending(InterruptEvent(c0, InterruptCount(log)))
    <2>1. phase' = "drive" /\ (writes' = <<>> \/ writes' = <<w>>)
        BY <1>7, JudgedStep
    <2>2. ~IsConclusion(w)
        BY WhatWritesDo DEF IsConclusion, InterruptEvent
    <2> HIDE DEF w
    <2>3. \A i \in 1..Len(writes') : ~IsConclusion(writes'[i])
        BY <2>1, <2>2
    <2> QED BY <1>1, <2>1, <2>3, DriverStepTells
<1>8. ASSUME NEW s \in Statuses, NEW w, w.kind # "append", Truthful(c0, s), phase' = "drive",
             \/ writes' = <<Reporting, Concluding(cur, s)>>
             \/ writes' = <<Concluding(cur, s), w>>
             \/ writes' = <<Reporting, Concluding(cur, s), w>>
      PROVE  PromiseInv'
    BY <1>1, <1>3, <1>8, ConcludingTells
<1>9. CASE o = "refused"
    <2>1. /\ phase' = "drive" /\ writes' = <<Reporting, Concluding(cur, "rejected")>>
          /\ \/ "go" \in IntentOutcomes(cur)
             \/ rows[c0] # NoRow /\ rows[c0].args # cur.args
        BY <1>9, JudgedStep
    <2>2. Guarded(c0) => effects[c0] = <<>>
        BY <1>1, <1>4, <1>5, <2>1 DEF PromiseInv, RowsTell, Requests
    <2>3. Truthful(c0, "rejected")
        BY <2>2, KindIs DEF Truthful
    <2> QED BY <1>8, <2>1, <2>3, WhatWritesDo DEF Statuses
<1>10. CASE o = "inconclusive"
    <2>1. Truthful(c0, "unknown")
        BY DEF Truthful
    <2> QED BY <1>8, <1>10, <2>1, JudgedStep, WhatWritesDo DEF Statuses
<1>11. CASE o = "applied"
    <2>1. /\ effects[c0] # <<>> /\ phase' = "drive"
          /\ writes' = <<Concluding(cur, "executed"), Update("executed")>>
        BY <1>11, JudgedStep
    <2>2. Truthful(c0, "executed")
        BY <2>1 DEF Truthful
    <2> QED BY <1>8, <2>1, <2>2, WhatWritesDo DEF Statuses
<1> QED BY <1>6, <1>7, <1>9, <1>10, <1>11, JudgedStep

\* What a tool did is what its call is concluded with, or the doubt about it.
LEMMA ToolEndTells ==
    ASSUME ToolInv, PromiseInv, ToolReturns \/ _handle_tool_failure
    PROVE  PromiseInv'
<1> DEFINE c0 == cur.call
<1>1. /\ phase' = "drive" /\ UNCHANGED <<log, rows, cur>>
      /\ cur \in Requests /\ cur.tool \in Registered
      /\ Called(log, c0) /\ ToolOf(log, c0) = cur.tool
      /\ effects \in [Calls -> Seq(Args)] /\ c0 \in Calls
    BY ToolEnd DEF ToolInv, Typed, Requests
<1>2. \A c : KindOf(c)' = KindOf(c)
    BY <1>1 DEF KindOf, IsRegistered
<1>3. /\ Effect[cur.tool] = "read" => KindOf(c0) = "inert"
      /\ KindOf(c0) = "guarded" <=> OutboxPath(cur.tool)
    BY <1>1, KindIs DEF IsRegistered, Guarded
<1>4. PICK s \in Statuses, w \in WriteItems :
         /\ IsRowWrite(w)
         /\ \/ /\ writes' = <<Concluding(cur, s), w>> /\ s = "executed"
               /\ effects' = [effects EXCEPT ![c0] = apply(cur)]
            \/ writes' = <<Reporting, Concluding(cur, s), w>> /\ s = FailureStatus(cur.tool)
    BY ToolEnd
<1>5. Truthful(c0, s)'
    <2>1. CASE s = "executed" /\ effects' = [effects EXCEPT ![c0] = apply(cur)]
        <3>1. effects'[c0] = apply(cur)
            BY <1>1, <2>1
        <3>2. Effect[cur.tool] # "read" => apply(cur) # <<>>
            BY <1>1, ApplyIs
        <3> QED BY <1>1, <1>2, <1>3, <2>1, <3>1, <3>2 DEF Truthful
    <2>2. CASE s = FailureStatus(cur.tool)
        BY <1>1, <1>2, <1>3, <2>2 DEF Truthful, FailureStatus
    <2> QED BY <1>4, <2>1, <2>2
<1>6. w.kind # "append"
    BY <1>4 DEF IsRowWrite
<1> QED BY <1>1, <1>4, <1>5, <1>6, ConcludingTells

\* A rejection or another choice of arguments concludes a call that had no
\* effect, if the call that waits has none.
LEMMA DecideTells ==
    ASSUME ToolInv, PromiseInv, NEW d \in Decisions, NEW a \in Args, NEW s \in Scopes,
           decide(d, a, s), phase' # "effect",
           ~Closed(log, Pending(log).call) => effects[Pending(log).call] = <<>>
    PROVE  PromiseInv'
<1> DEFINE A == Approving(d, a, s)
           R == Rerecording(a)
<1>1. /\ UNCHANGED <<log, rows, effects>>
      /\ \/ writes' = <<Concluding(Asked, "rejected"), A, Resuming>>
         \/ writes' = <<Concluding(Asked, "superseded"), R, A, Resuming>>
         \/ writes' = <<A, Resuming>>
      /\ A.kind = "append" /\ A.event.type = "approval"
      /\ Resuming.kind = "append" /\ Resuming.event.type = "resume"
      /\ Asked \in Requests /\ Called(log, Asked.call) /\ Asked.call = Pending(log).call
      /\ R.kind = "append" /\ R.event.type = "tool_call"
    BY DecideIs, AskedIs, WhatWritesDo DEF Rerecording
<1>2. \A i \in 1..Len(writes') :
          writes'[i] \in {A, R, Resuming, Concluding(Asked, "rejected"),
                          Concluding(Asked, "superseded")}
    BY <1>1
<1> DEFINE rej == Concluding(Asked, "rejected")
           sup == Concluding(Asked, "superseded")
<1>6. /\ rej.event.call = Asked.call /\ rej.event.status = "rejected"
      /\ sup.event.call = Asked.call /\ sup.event.status = "superseded"
    BY WhatWritesDo
<1>7. \A i \in 1..Len(writes') : writes'[i] \in {A, R, Resuming, rej, sup}
    BY <1>2
<1> HIDE DEF A, R, rej, sup
<1>3. ASSUME NEW i \in 1..Len(writes'), NEW c \in Calls, NEW t \in Statuses,
             IsConclusionOf(writes'[i], c), writes'[i].event.status = t
      PROVE  c = Asked.call /\ t \in {"rejected", "superseded"}
    BY <1>1, <1>3, <1>6, <1>7 DEF IsConclusionOf
<1>4. PICK c0 \in Calls : c0 = Asked.call
    BY <1>1 DEF Requests
<1>5. \A t \in {"rejected", "superseded"} :
          ~Closed(log, c0) => Truthful(c0, t)'
    BY <1>1, <1>4 DEF Truthful
<1> QED BY <1>1, <1>3, <1>4, <1>5, NewWritesTell

-----------------------------------------------------------------------------
(* The beginning *)

\* With no call recorded nothing was let out, and the promise begins.
LEMMA EmptyPromise ==
    ASSUME log = <<>>, rows = [c \in Calls |-> NoRow], effects = [c \in Calls |-> <<>>],
           phase = "down", writes = <<>>
    PROVE  GateInv /\ PromiseInv /\ Promise!Init
<1>1. \A c : ~Called(log, c)
    BY DEF Called, IsCall
<1>2. \A c : KindOf(c) = "none" /\ VerdictOf(c) = "absent" /\ ~Guarded(c)
    BY <1>1 DEF KindOf, VerdictOf, Guarded, IsRegistered
<1>3. GateInv
    BY DEF GateInv
<1>4. PromiseInv
    BY <1>2 DEF PromiseInv, RowsTell, ConclusionsAreTrue
<1>5. Promise!Init
    BY <1>2 DEF Promise!Init
<1> QED BY <1>3, <1>4, <1>5

-----------------------------------------------------------------------------
(* What the drivers keep of edited calls *)

\* The call of edited arguments is recorded after the one it supersedes is closed,
\* so no later answer finds its id taken.
EditsComeLater ==
    /\ \A c \in Calls : Called(log, EditOf(c)) => Closed(log, c)
    /\ \A i \in 1..Len(writes), c \in Calls : IsRecordingOf(writes[i], EditOf(c)) =>
          Closed(log, c) \/ \E j \in 1..(i - 1) : IsConclusionOf(writes[j], c)

-----------------------------------------------------------------------------
(* The fold of a log, event by event *)

Codes == {"INV-001", "INV-002", "INV-003", "INV-004", "INV-005", "INV-006", "INV-007"}

States ==
    [status : RunStatuses, step : Nat, open : SUBSET Calls, closed : SUBSET Calls,
     pending : BOOLEAN, index : Nat, terminal : BOOLEAN, broken : SUBSET Codes]

\* What the fold makes of a log that goes on.
IsFoldOf(s, l) ==
    /\ s \in States
    /\ ~s.terminal
    /\ s.status \in {"running", "waiting_human"}
    /\ s.open = {c \in Calls : Open(l, c)}
    /\ s.closed = {c \in Calls : Closed(l, c)}
    /\ s.pending <=> HasPending(l)
    /\ s.pending => s.index = Pending(l).index

\* The states after the first events of a log: what Folded takes the last of.
IsFold(f, l, n) ==
    f = [i \in 0..n |-> IF i = 0 THEN Fold!Fresh ELSE Fold!Reduce(f[i - 1], l[i])]

\* There are such states, as there is no shortest log without them.
LEMMA FoldExists ==
    ASSUME NEW l, NEW n \in Nat
    PROVE  \E f : IsFold(f, l, n)
<1> DEFINE Without == {k \in Nat : ~\E f : IsFold(f, l, k)}
<1>1. SUFFICES ASSUME n \in Without PROVE FALSE
    OBVIOUS
<1>2. PICK k \in Without : \A j \in Without : k <= j
    <2>1. Without \subseteq Nat
        OBVIOUS
    <2> HIDE DEF Without
    <2> QED BY <1>1, <2>1, LeastOf
<1>3. k # 0
    <2>1. IsFold([i \in 0..0 |-> Fold!Fresh], l, 0)
        BY DEF IsFold
    <2> QED BY <2>1
<1>4. PICK f : IsFold(f, l, k - 1)
    <2>1. k - 1 \in Nat /\ ~(k <= k - 1)
        BY <1>3
    <2> QED BY <1>2, <2>1
<1> DEFINE g == [i \in 0..k |-> IF i = k THEN Fold!Reduce(f[k - 1], l[k]) ELSE f[i]]
<1>5. \A i \in 0..k : g[i] = IF i = 0 THEN Fold!Fresh ELSE Fold!Reduce(g[i - 1], l[i])
    <2>1. \A i \in 0..(k - 1) : f[i] = IF i = 0 THEN Fold!Fresh ELSE Fold!Reduce(f[i - 1], l[i])
        BY <1>4 DEF IsFold
    <2>2. \A i \in 0..k : g[i] = IF i = k THEN Fold!Reduce(f[k - 1], l[k]) ELSE f[i]
        OBVIOUS
    <2> HIDE DEF g
    <2>3. TAKE i \in 0..k
    <2>4. CASE i = k
        <3>1. k - 1 \in 0..k /\ k - 1 # k /\ k # 0
            BY <1>3
        <3> QED BY <2>2, <2>4, <3>1
    <2>5. CASE i # k
        <3>1. i \in 0..(k - 1) /\ (i # 0 => i - 1 \in 0..k /\ i - 1 # k)
            BY <2>5
        <3> QED BY <2>1, <2>2, <2>5, <3>1
    <2> QED BY <2>4, <2>5
<1>6. IsFold(g, l, k)
    <2>1. g = [i \in 0..k |-> g[i]]
        OBVIOUS
    <2> HIDE DEF g
    <2> QED BY <1>5, <2>1 DEF IsFold
<1> HIDE DEF g
<1> QED BY <1>2, <1>6

\* The states of two logs agree for as long as the logs do.
LEMMA FoldsAgree ==
    ASSUME NEW l, NEW m, NEW k \in Nat, NEW n \in Nat, n <= k,
           NEW f, IsFold(f, l, n), NEW g, IsFold(g, m, k),
           \A i \in 1..n : l[i] = m[i]
    PROVE  f[n] = g[n]
<1> DEFINE Apart == {i \in 0..n : f[i] # g[i]}
<1>1. SUFFICES ASSUME n \in Apart PROVE FALSE
    OBVIOUS
<1>2. PICK i \in Apart : \A j \in Apart : i <= j
    <2>1. Apart \subseteq Nat
        OBVIOUS
    <2> HIDE DEF Apart
    <2> QED BY <1>1, <2>1, LeastOf
<1>3. /\ f[i] = IF i = 0 THEN Fold!Fresh ELSE Fold!Reduce(f[i - 1], l[i])
      /\ g[i] = IF i = 0 THEN Fold!Fresh ELSE Fold!Reduce(g[i - 1], m[i])
    <2>1. i \in 0..n /\ i \in 0..k
        OBVIOUS
    <2>2. f[i] = IF i = 0 THEN Fold!Fresh ELSE Fold!Reduce(f[i - 1], l[i])
        BY <2>1 DEF IsFold
    <2>3. g[i] = IF i = 0 THEN Fold!Fresh ELSE Fold!Reduce(g[i - 1], m[i])
        BY <2>1 DEF IsFold
    <2> QED BY <2>2, <2>3
<1>4. CASE i = 0
    BY <1>3, <1>4
<1>5. CASE i # 0
    <2>1. i - 1 \in 0..n /\ ~(i <= i - 1) /\ i \in 1..n
        BY <1>5
    <2>2. f[i - 1] = g[i - 1]
        BY <1>2, <2>1
    <2> QED BY <1>2, <1>3, <1>5, <2>1, <2>2
<1> QED BY <1>4, <1>5

LEMMA FoldedIs ==
    ASSUME NEW l, Len(l) \in Nat
    PROVE  \E f : IsFold(f, l, Len(l)) /\ Fold!Folded(l) = f[Len(l)]
<1> DEFINE f == CHOOSE g : IsFold(g, l, Len(l))
<1>1. IsFold(f, l, Len(l))
    BY FoldExists
<1>2. Fold!Folded(l) = f[Len(l)]
    BY DEF Fold!Folded, IsFold
<1> HIDE DEF f
<1> QED BY <1>1, <1>2

LEMMA FoldedStarts == Fold!Folded(<<>>) = Fold!Fresh
<1>1. Len(<<>>) = 0
    OBVIOUS
<1>2. PICK f : IsFold(f, <<>>, 0) /\ Fold!Folded(<<>>) = f[0]
    BY <1>1, FoldedIs
<1> QED BY <1>2 DEF IsFold

LEMMA FoldedGrows ==
    ASSUME NEW S, NEW l \in Seq(S), NEW e \in S
    PROVE  Fold!Folded(Append(l, e)) = Fold!Reduce(Fold!Folded(l), e)
<1> DEFINE m == Append(l, e)
           n == Len(l)
<1>1. n \in Nat /\ Len(m) = n + 1 /\ m[n + 1] = e /\ \A i \in 1..n : l[i] = m[i]
    BY AppendProperties, LenProperties
<1> HIDE DEF m, n
<1>2. PICK f : IsFold(f, l, n) /\ Fold!Folded(l) = f[n]
    BY <1>1, FoldedIs DEF n
<1>3. PICK g : IsFold(g, m, n + 1) /\ Fold!Folded(m) = g[n + 1]
    BY <1>1, FoldedIs
<1>4. f[n] = g[n]
    BY <1>1, <1>2, <1>3, FoldsAgree
<1>5. g[n + 1] = Fold!Reduce(g[n], e)
    <2>1. n + 1 \in 0..(n + 1) /\ n + 1 # 0 /\ (n + 1) - 1 = n
        BY <1>1
    <2> QED BY <1>1, <1>3, <2>1 DEF IsFold
<1> QED BY <1>2, <1>3, <1>4, <1>5 DEF m

-----------------------------------------------------------------------------
(* An event keeps the fold what the log says *)

\* What is flagged in such a log: a call recorded again and a second result.
Flags(l, e) ==
    {f \in {"INV-001", "INV-003"} :
        \/ f = "INV-001" /\ e.type = "tool_call" /\ Called(l, e.call)
        \/ f = "INV-003" /\ e.type = "tool_result" /\ Closed(l, e.call)}

LEMMA FoldTakes ==
    ASSUME NEW l \in Logs, NEW e \in LoggedEvents, GoesOn(l), ~EndsRun(e),
           NEW s, IsFoldOf(s, l),
           e.type = "tool_result" => Called(l, e.call),
           e.type = "interrupt" => ~HasPending(l),
           e.type = "resume" => HasPending(l) /\ e.index = Pending(l).index
    PROVE  /\ IsFoldOf(Fold!Reduce(s, e), Append(l, e))
           /\ Fold!Reduce(s, e).broken = s.broken \cup Flags(l, e)
<1> DEFINE m == Append(l, e)
           r == Fold!Reduce(s, e)
<1>0. /\ e.type = "tool_call" /\ Called(l, e.call) => Flags(l, e) = {"INV-001"}
      /\ e.type = "tool_result" /\ Closed(l, e.call) => Flags(l, e) = {"INV-003"}
      /\ e.type # "tool_call" /\ e.type # "tool_result" => Flags(l, e) = {}
      /\ e.type = "tool_call" /\ ~Called(l, e.call) => Flags(l, e) = {}
      /\ e.type = "tool_result" /\ ~Closed(l, e.call) => Flags(l, e) = {}
    BY DEF Flags
<1>1. /\ s \in States /\ ~s.terminal
      /\ s.status \in {"running", "waiting_human"}
      /\ s.open = {c \in Calls : Open(l, c)}
      /\ s.closed = {c \in Calls : Closed(l, c)}
      /\ s.pending <=> HasPending(l)
      /\ s.pending => s.index = Pending(l).index
    BY DEF IsFoldOf
<1>2. /\ \A c : Called(m, c) <=> Called(l, c) \/ (e.type = "tool_call" /\ e.call = c)
      /\ \A c : Closed(m, c) <=>
            Closed(l, c) \/ (e.type = "tool_result" /\ e.call = c /\ Called(l, c))
    BY AppendCalled, AppendClosed
<1>3. /\ e.type = "resume" => ~HasPending(m)
      /\ e.type # "resume" /\ HasPending(l) => HasPending(m) /\ Pending(m) = Pending(l)
      /\ e.type # "interrupt" /\ ~HasPending(l) => ~HasPending(m)
      /\ e.type = "interrupt" /\ ~HasPending(l) => HasPending(m) /\ Pending(m) = e
    BY AppendPending
<1>4. \A c : Closed(l, c) => Called(l, c)
    BY ClosedIsCalled
<1> HIDE DEF m
<1> DEFINE Silent == {"user_message", "approval", "error", "budget_update", "compaction"}
<1>5. ~IsFatal(e) /\ (e.type \in Silent => r = s)
    <2>1. ~IsFatal(e)
        BY DEF EndsRun
    <2>2. r = IF IsArtifact(e) THEN s ELSE IF s.terminal THEN Fold!AfterTheEnd(s, e)
              ELSE Fold!OnEvent(s, e)
        BY <2>1 DEF Fold!Reduce, Fold!IsFatal, IsFatal, Fold!IsArtifact, IsArtifact
    <2>3. e.type \in Silent => r = s
        BY <1>1, <2>2 DEF IsArtifact, Fold!OnEvent
    <2> QED BY <2>1, <2>3
<1>6. e.type \in {"agent_message", "tool_call", "tool_result", "interrupt", "resume"} =>
          r = Fold!OnEvent(s, e)
    BY <1>1, <1>5 DEF Fold!Reduce, Fold!IsFatal, IsFatal, Fold!IsArtifact
<1>7. CASE e.type \in Silent \cup {"agent_message"}
    <2>1. /\ \A c : Open(m, c) <=> Open(l, c)
          /\ \A c : Closed(m, c) <=> Closed(l, c)
          /\ HasPending(m) <=> HasPending(l)
          /\ HasPending(l) => Pending(m) = Pending(l)
        BY <1>2, <1>3, <1>7 DEF Open
    <2>2. r = s \/ r = [s EXCEPT !.step = @ + 1]
        <3>1. ~IsFinal(e)
            BY DEF EndsRun
        <3>2. e.type = "agent_message" => r = [s EXCEPT !.step = @ + 1]
            BY <1>6, <3>1 DEF Fold!OnEvent, Fold!OnMessage, IsFinal
        <3> QED BY <1>5, <1>7, <3>2
    <2> HIDE DEF r
    <2>3. /\ r \in States /\ r.broken = s.broken /\ r.terminal = s.terminal
          /\ r.status = s.status /\ r.open = s.open /\ r.closed = s.closed
          /\ r.pending = s.pending /\ r.index = s.index
        BY <1>1, <2>2 DEF States
    <2>4. r.broken = s.broken \cup Flags(l, e)
        BY <1>0, <1>7, <2>3
    <2> QED BY <1>1, <2>1, <2>3, <2>4 DEF IsFoldOf, m, r
<1>8. CASE e.type = "tool_call"
    <2>1. e.call \in Calls /\ e.call # 0
        BY <1>8 DEF LoggedEvents, Calls
    <2>2. r = Fold!OnCall(s, e)
        BY <1>6, <1>8 DEF Fold!OnEvent
    <2>3. /\ \A c : Closed(m, c) <=> Closed(l, c)
          /\ HasPending(m) <=> HasPending(l)
          /\ HasPending(l) => Pending(m) = Pending(l)
        BY <1>2, <1>3, <1>8
    <2>4. e.call \in s.open \cup s.closed <=> Called(l, e.call)
        BY <1>1, <1>4, <2>1 DEF Open
    <2>5. CASE Called(l, e.call)
        <3>1. r = [s EXCEPT !.broken = @ \cup {"INV-001"}]
            BY <2>2, <2>4, <2>5 DEF Fold!OnCall, Fold!Flag
        <3>2. \A c : Open(m, c) <=> Open(l, c)
            BY <1>2, <2>3, <2>5 DEF Open
        <3>3. /\ r.broken = s.broken \cup {"INV-001"} /\ ~r.terminal /\ r.status = s.status
              /\ r.open = s.open /\ r.closed = s.closed /\ r.pending = s.pending
              /\ r.index = s.index /\ r \in States
            BY <1>1, <3>1 DEF States, Codes
        <3> HIDE DEF r
        <3>4. r.broken = s.broken \cup Flags(l, e)
            BY <1>0, <1>8, <2>5, <3>3
        <3> QED BY <1>1, <2>3, <3>2, <3>3, <3>4 DEF IsFoldOf, m, r
    <2>6. CASE ~Called(l, e.call)
        <3>1. r = [s EXCEPT !.open = @ \cup {e.call}]
            BY <2>1, <2>2, <2>4, <2>6 DEF Fold!OnCall
        <3>2. /\ r.broken = s.broken /\ ~r.terminal /\ r.status = s.status
              /\ r.open = s.open \cup {e.call} /\ r.closed = s.closed /\ r.pending = s.pending
              /\ r.index = s.index /\ r \in States
            BY <1>1, <2>1, <3>1 DEF States
        <3>3. \A c : Open(m, c) <=> Open(l, c) \/ c = e.call
            BY <1>2, <1>4, <1>8, <2>3, <2>6 DEF Open
        <3> HIDE DEF r
        <3>4. r.open = {c \in Calls : Open(m, c)}
            BY <1>1, <2>1, <3>2, <3>3
        <3>5. r.broken = s.broken \cup Flags(l, e)
            BY <1>0, <1>8, <2>6, <3>2
        <3> QED BY <1>1, <2>3, <3>2, <3>4, <3>5 DEF IsFoldOf, m, r
    <2> QED BY <2>5, <2>6
<1>9. CASE e.type = "tool_result"
    <2>1. e.call \in Calls
        BY <1>9 DEF LoggedEvents
    <2>2. r = Fold!OnResult(s, e)
        BY <1>6, <1>9 DEF Fold!OnEvent
    <2>3. /\ HasPending(m) <=> HasPending(l)
          /\ HasPending(l) => Pending(m) = Pending(l)
        BY <1>3, <1>9
    <2>4. CASE Closed(l, e.call)
        <3>1. r = [s EXCEPT !.broken = @ \cup {"INV-003"}]
            BY <1>1, <2>1, <2>2, <2>4 DEF Fold!OnResult, Fold!Flag
        <3>2. /\ \A c : Closed(m, c) <=> Closed(l, c)
              /\ \A c : Open(m, c) <=> Open(l, c)
            BY <1>2, <1>9, <2>4 DEF Open
        <3>3. /\ r.broken = s.broken \cup {"INV-003"} /\ ~r.terminal /\ r.status = s.status
              /\ r.open = s.open /\ r.closed = s.closed /\ r.pending = s.pending
              /\ r.index = s.index /\ r \in States
            BY <1>1, <3>1 DEF States, Codes
        <3> HIDE DEF r
        <3>4. r.broken = s.broken \cup Flags(l, e)
            BY <1>0, <1>9, <2>4, <3>3
        <3> QED BY <1>1, <2>3, <3>2, <3>3, <3>4 DEF IsFoldOf, m, r
    <2>5. CASE ~Closed(l, e.call)
        <3>1. e.call \in s.open /\ e.call \notin s.closed
            BY <1>1, <1>9, <2>1, <2>5 DEF Open
        <3> DEFINE x == s.open \ {e.call}
                   y == s.closed \cup {e.call}
        <3>2. r = [s EXCEPT !.open = x, !.closed = y]
            BY <2>2, <3>1 DEF Fold!OnResult
        <3>3. x \in SUBSET Calls /\ y \in SUBSET Calls
            BY <1>1, <2>1 DEF States
        <3>4. /\ \A c : Closed(m, c) <=> Closed(l, c) \/ c = e.call
              /\ \A c : Open(m, c) <=> Open(l, c) /\ c # e.call
            BY <1>2, <1>9 DEF Open
        <3>5. x = {c \in Calls : Open(m, c)} /\ y = {c \in Calls : Closed(m, c)}
            BY <1>1, <2>1, <3>4
        <3> HIDE DEF x, y, r
        <3>6. /\ r.broken = s.broken /\ r.terminal = s.terminal /\ r.status = s.status
              /\ r.open = x /\ r.closed = y /\ r.pending = s.pending /\ r.index = s.index
            BY <1>1, <3>2 DEF States
        <3>7. r \in States
            BY <1>1, <3>2, <3>3 DEF States
        <3>8. r.broken = s.broken \cup Flags(l, e)
            BY <1>0, <1>9, <2>5, <3>6
        <3> QED BY <1>1, <2>3, <3>5, <3>6, <3>7, <3>8 DEF IsFoldOf, m, r
    <2> QED BY <2>4, <2>5
<1>10. CASE e.type = "interrupt"
    <2>1. e.index \in Nat /\ ~s.pending
        BY <1>1, <1>10 DEF LoggedEvents
    <2>2. r = Fold!OnInterrupt(s, e)
        BY <1>6, <1>10 DEF Fold!OnEvent
    <2>3. r = [s EXCEPT !.pending = TRUE, !.index = e.index, !.status = "waiting_human"]
        BY <2>1, <2>2 DEF Fold!OnInterrupt
    <2>4. /\ r.broken = s.broken /\ ~r.terminal /\ r.status = "waiting_human"
          /\ r.open = s.open /\ r.closed = s.closed /\ r.pending = TRUE
          /\ r.index = e.index /\ r \in States
        BY <1>1, <2>1, <2>3 DEF States, RunStatuses
    <2>5. /\ \A c : Open(m, c) <=> Open(l, c)
          /\ \A c : Closed(m, c) <=> Closed(l, c)
          /\ HasPending(m) /\ Pending(m) = e
        BY <1>2, <1>3, <1>10 DEF Open
    <2> HIDE DEF r
    <2>6. r.broken = s.broken \cup Flags(l, e)
        BY <1>0, <1>10, <2>4
    <2> QED BY <1>1, <2>4, <2>5, <2>6 DEF IsFoldOf, m, r
<1>11. CASE e.type = "resume"
    <2>1. s.pending /\ e.index = s.index
        BY <1>1, <1>11
    <2>2. r = Fold!OnResume(s, e)
        BY <1>6, <1>11 DEF Fold!OnEvent
    <2>3. r = [s EXCEPT !.pending = FALSE, !.index = 0,
                        !.status = IF @ = "waiting_human" THEN "running" ELSE @]
        BY <2>1, <2>2 DEF Fold!OnResume
    <2>4. /\ r.broken = s.broken /\ ~r.terminal /\ r.status = "running"
          /\ r.open = s.open /\ r.closed = s.closed /\ r.pending = FALSE
          /\ r \in States
        <3>1. r = [s EXCEPT !.pending = FALSE, !.index = 0, !.status = "running"]
            BY <1>1, <2>3 DEF States
        <3> HIDE DEF r
        <3>2. /\ r.broken = s.broken /\ r.terminal = s.terminal /\ r.status = "running"
              /\ r.open = s.open /\ r.closed = s.closed /\ r.pending = FALSE
            BY <1>1, <3>1 DEF States
        <3>3. r \in States
            BY <1>1, <3>1 DEF States, RunStatuses
        <3> QED BY <1>1, <3>2, <3>3
    <2>5. /\ \A c : Open(m, c) <=> Open(l, c)
          /\ \A c : Closed(m, c) <=> Closed(l, c)
          /\ ~HasPending(m)
        BY <1>2, <1>3, <1>11 DEF Open
    <2> HIDE DEF r
    <2>6. r.broken = s.broken \cup Flags(l, e)
        BY <1>0, <1>11, <2>4
    <2> QED BY <1>1, <2>4, <2>5, <2>6 DEF IsFoldOf, m, r
<1>12. e.type \in Silent \cup {"agent_message", "tool_call", "tool_result", "interrupt", "resume"}
    BY DEF LoggedEvents
<1> QED BY <1>7, <1>8, <1>9, <1>10, <1>11, <1>12 DEF m, r

\* The last event adds no flag, and a run is declared complete only with nothing
\* left open.
LEMMA FoldEnds ==
    ASSUME NEW l, NEW e \in LoggedEvents, EndsRun(e), NEW s, IsFoldOf(s, l),
           IsFinal(e) => \A c \in Calls : ~Open(l, c)
    PROVE  LET r == Fold!Reduce(s, e)
           IN  r.broken = s.broken /\ (r.status = "completed" => r.open = {})
<1> DEFINE r == Fold!Reduce(s, e)
<1>1. s \in States /\ ~s.terminal /\ s.open = {c \in Calls : Open(l, c)}
    BY DEF IsFoldOf
<1>2. CASE IsFatal(e)
    <2>1. r = [s EXCEPT !.status = "failed", !.terminal = TRUE]
        BY <1>2 DEF Fold!Reduce, Fold!IsFatal, IsFatal
    <2> HIDE DEF r
    <2>2. r.broken = s.broken /\ r.status = "failed"
        BY <1>1, <2>1 DEF States
    <2> QED BY <2>2 DEF r
<1>3. CASE IsFinal(e)
    <2>1. r = [s EXCEPT !.step = @ + 1, !.status = "completed", !.terminal = TRUE]
        BY <1>1, <1>3 DEF Fold!Reduce, Fold!IsFatal, Fold!IsArtifact, IsFinal, Fold!OnEvent,
                          Fold!OnMessage
    <2> HIDE DEF r
    <2>2. r.broken = s.broken /\ r.open = s.open
        BY <1>1, <2>1 DEF States
    <2>3. s.open = {}
        BY <1>1, <1>3
    <2> QED BY <2>2, <2>3 DEF r
<1> QED BY <1>2, <1>3 DEF EndsRun

=============================================================================
