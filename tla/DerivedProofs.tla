---------------------------- MODULE DerivedProofs -----------------------------
(***************************************************************************)
(* Proofs about the fold: for a log of any length and any events, legal or *)
(* not, reduce_events gives the state that the positions of the log give,  *)
(* and the invariant codes of exactly the faults that the log has.         *)
(*                                                                         *)
(* What is proved is how the questions of EventLog change as one event is  *)
(* appended, and that Reduce changes the state the same way.               *)
(***************************************************************************)
EXTENDS DerivedState, ViewProofs

AllEvents == Events \cup {CompactionEvent(v) : v \in SUBSET Nat}

Logs == Seq(AllEvents)

EndsRun(e) == IsFatal(e) \/ IsFinal(e)
GoesOn(l) == \A i \in 1..Len(l) : ~EndsRun(l[i])

-----------------------------------------------------------------------------
(* Events and logs *)

LEMMA EventsAre ==
    ASSUME NEW e \in AllEvents
    PROVE  /\ e.type = "agent_message" => e.final \in BOOLEAN
           /\ e.type = "error" => e.fatal \in BOOLEAN
           /\ e.type = "tool_call" => e.call \in CallIds \cup {NoId}
           /\ e.type = "tool_result" => e.call \in CallIds
           /\ e.type \in {"interrupt", "resume"} => e.index \in Nat
           /\ IsArtifact(e) <=> e.type \in {"error", "compaction"}
           /\ e.type \in {"user_message", "agent_message", "error", "tool_call", "tool_result",
                          "interrupt", "resume", "compaction"}
<1>1. \/ e = UserMessage
      \/ \E b \in BOOLEAN : e = AgentMessage(b) \/ e = ErrorEvent(b)
      \/ \E c \in CallIds \cup {NoId} : e = CallEvent(c, "tool", "args")
      \/ \E c \in CallIds : e = ResultEvent(c, "executed")
      \/ \E n \in 0..1 : e = InterruptEvent(NoId, n) \/ e = ResumeEvent(n)
      \/ \E v \in SUBSET Nat : e = CompactionEvent(v)
    BY DEF AllEvents, Events
<1>2. CASE e = UserMessage \/ \E b \in BOOLEAN : e = AgentMessage(b) \/ e = ErrorEvent(b)
    BY <1>2 DEF UserMessage, AgentMessage, ErrorEvent, IsArtifact
<1>3. CASE \/ \E c \in CallIds \cup {NoId} : e = CallEvent(c, "tool", "args")
           \/ \E c \in CallIds : e = ResultEvent(c, "executed")
    BY <1>3 DEF CallEvent, ResultEvent, IsArtifact
<1>4. CASE \E n \in 0..1 : e = InterruptEvent(NoId, n) \/ e = ResumeEvent(n)
    BY <1>4 DEF InterruptEvent, ResumeEvent, IsArtifact
<1>5. CASE \E v \in SUBSET Nat : e = CompactionEvent(v)
    BY <1>5 DEF CompactionEvent, IsArtifact
<1> QED BY <1>1, <1>2, <1>3, <1>4, <1>5

\* One more event leaves the others where they are.  It counts if the run went
\* on until it.
LEMMA LogGrows ==
    ASSUME NEW l \in Logs, NEW e \in AllEvents
    PROVE  LET m == Append(l, e)
               n == Len(l)
           IN  /\ m \in Logs
               /\ n \in Nat /\ Len(m) = n + 1 /\ 1..(n + 1) = 1..n \cup {n + 1} /\ n + 1 \notin 1..n
               /\ \A i \in 1..n : m[i] = l[i] /\ l[i] \in AllEvents
               /\ m[n + 1] = e
               /\ \A i \in 1..n : Live(m, i) <=> Live(l, i)
               /\ Live(m, n + 1) <=> GoesOn(l)
               /\ GoesOn(m) <=> GoesOn(l) /\ ~EndsRun(e)
<1> DEFINE m == Append(l, e)
           n == Len(l)
<1>1. /\ m \in Logs /\ n \in Nat /\ Len(m) = n + 1
      /\ \A i \in 1..n : m[i] = l[i] /\ l[i] \in AllEvents
      /\ m[n + 1] = e
    BY AppendProperties, LenProperties, ElementOfSeq DEF Logs
<1>2. 1..(n + 1) = 1..n \cup {n + 1} /\ n + 1 \notin 1..n
    BY <1>1
<1> HIDE DEF m, n
<1>3. \A i \in 1..n : Live(m, i) <=> Live(l, i)
    <2>1. \A i \in 1..n : \A j \in 1..(i - 1) : m[j] = l[j]
        BY <1>1
    <2> QED BY <2>1 DEF Live
<1>4. Live(m, n + 1) <=> GoesOn(l)
    <2>1. (n + 1) - 1 = n
        BY <1>1
    <2> QED BY <1>1, <2>1 DEF Live, GoesOn, EndsRun, n
<1>5. GoesOn(m) <=> GoesOn(l) /\ ~EndsRun(e)
    BY <1>1, <1>2 DEF GoesOn, n
<1> QED BY <1>1, <1>2, <1>3, <1>4, <1>5 DEF m, n

\* Which calls are recorded and which are closed.
LEMMA CallsGrow ==
    ASSUME NEW l \in Logs, NEW e \in AllEvents, NEW c
    PROVE  LET m == Append(l, e)
           IN  /\ Called(m, c) <=>
                      Called(l, c) \/ (GoesOn(l) /\ e.type = "tool_call" /\ e.call = c)
               /\ Closed(m, c) <=>
                      \/ Closed(l, c)
                      \/ GoesOn(l) /\ e.type = "tool_result" /\ e.call = c /\ Called(l, c)
               /\ Closed(l, c) => Called(l, c)
<1> DEFINE m == Append(l, e)
           n == Len(l)
<1>1. /\ n \in Nat /\ Len(m) = n + 1 /\ 1..(n + 1) = 1..n \cup {n + 1} /\ n + 1 \notin 1..n
      /\ \A i \in 1..n : m[i] = l[i] /\ (Live(m, i) <=> Live(l, i))
      /\ m[n + 1] = e /\ (Live(m, n + 1) <=> GoesOn(l))
    BY LogGrows
<1>2. Len(l) = n
    OBVIOUS
<1> HIDE DEF m, n
<1>3. /\ \A i \in 1..n : (IsCall(m, i, c) <=> IsCall(l, i, c))
                         /\ (IsResult(m, i, c) <=> IsResult(l, i, c))
      /\ IsCall(m, n + 1, c) <=> GoesOn(l) /\ e.type = "tool_call" /\ e.call = c
      /\ IsResult(m, n + 1, c) <=> GoesOn(l) /\ e.type = "tool_result" /\ e.call = c
    BY <1>1, <1>2 DEF IsCall, IsResult
<1>4. \A i \in 1..n : 1..(i - 1) \subseteq 1..n
    BY <1>1
<1>5. (n + 1) - 1 = n
    BY <1>1
<1>6. Called(m, c) <=> Called(l, c) \/ IsCall(m, n + 1, c)
    BY <1>1, <1>2, <1>3 DEF Called
<1>7. Closed(m, c) <=> Closed(l, c) \/ (IsResult(m, n + 1, c) /\ Called(l, c))
    <2>1. Closed(m, c) <=>
              \/ \E i \in 1..n : IsResult(m, i, c) /\ \E j \in 1..(i - 1) : IsCall(m, j, c)
              \/ IsResult(m, n + 1, c) /\ \E j \in 1..n : IsCall(m, j, c)
        BY <1>1, <1>5 DEF Closed
    <2> QED BY <1>2, <1>3, <1>4, <2>1 DEF Closed, Called
<1>8. Closed(l, c) => Called(l, c)
    BY <1>2, <1>4 DEF Closed, Called
<1> QED BY <1>3, <1>6, <1>7, <1>8 DEF m

\* Which interrupt is pending: there is one at most, and it is answered by any
\* resume that counts.
LEMMA OnePending ==
    ASSUME NEW l \in Logs, NEW i \in PendingInterrupts(l), NEW j \in PendingInterrupts(l)
    PROVE  i = j
<1>1. Len(l) \in Nat
    BY LenProperties DEF Logs
<1>2. ASSUME NEW x \in PendingInterrupts(l), NEW y \in PendingInterrupts(l), x < y
      PROVE  FALSE
    <2>1. PICK k \in (x + 1)..(y - 1) : IsLive(l, k, "resume")
        BY <1>2 DEF PendingInterrupts
    <2>2. k \in (x + 1)..Len(l)
        BY <1>1, <2>1 DEF PendingInterrupts
    <2> QED BY <1>2, <2>1, <2>2 DEF PendingInterrupts
<1>3. i \in Nat /\ j \in Nat
    BY <1>1 DEF PendingInterrupts
<1> QED BY <1>2, <1>3

\* If an interrupt was not answered then one is pending.
LEMMA UnansweredPends ==
    ASSUME NEW l \in Logs, NEW i \in 1..Len(l), IsLive(l, i, "interrupt"),
           \A j \in (i + 1)..Len(l) : ~IsLive(l, j, "resume")
    PROVE  HasPending(l)
<1> DEFINE S == {k \in 1..Len(l) : /\ IsLive(l, k, "interrupt")
                                   /\ \A j \in (k + 1)..Len(l) : ~IsLive(l, j, "resume")}
<1>1. Len(l) \in Nat
    BY LenProperties DEF Logs
<1>2. i \in S /\ S \subseteq Nat
    BY <1>1
<1>3. PICK n \in S : \A k \in S : n <= k
    BY <1>2, LeastPosition
<1>4. ASSUME NEW j \in 1..(n - 1), IsLive(l, j, "interrupt")
      PROVE  \E k \in (j + 1)..(n - 1) : IsLive(l, k, "resume")
    <2>1. j \in 1..Len(l) /\ ~(n <= j)
        BY <1>1, <1>3, <1>4
    <2>2. PICK k \in (j + 1)..Len(l) : IsLive(l, k, "resume")
        BY <1>3, <1>4, <2>1
    <2>3. k # n /\ ~(k > n)
        BY <1>1, <1>3, <2>2 DEF IsLive
    <2> QED BY <1>1, <2>2, <2>3
<1>5. n \in PendingInterrupts(l)
    BY <1>3, <1>4 DEF PendingInterrupts
<1> QED BY <1>5 DEF HasPending

LEMMA PendingGrows ==
    ASSUME NEW l \in Logs, NEW e \in AllEvents
    PROVE  LET m == Append(l, e)
           IN  /\ GoesOn(l) /\ e.type = "resume" => ~HasPending(m)
               /\ ~(GoesOn(l) /\ e.type = "resume") =>
                     /\ HasPending(l) => HasPending(m) /\ Pending(m) = Pending(l)
                     /\ ~HasPending(l) =>
                           /\ HasPending(m) <=> GoesOn(l) /\ e.type = "interrupt"
                           /\ HasPending(m) => Pending(m) = e
<1> DEFINE m == Append(l, e)
           n == Len(l)
<1>1. /\ n \in Nat /\ Len(m) = n + 1 /\ 1..(n + 1) = 1..n \cup {n + 1} /\ n + 1 \notin 1..n
      /\ \A i \in 1..n : m[i] = l[i] /\ (Live(m, i) <=> Live(l, i))
      /\ m[n + 1] = e /\ (Live(m, n + 1) <=> GoesOn(l)) /\ m \in Logs
    BY LogGrows
<1>2. Len(l) = n
    OBVIOUS
<1> HIDE DEF m, n
<1>3. /\ \A i \in 1..n : \A t : IsLive(m, i, t) <=> IsLive(l, i, t)
      /\ \A t : IsLive(m, n + 1, t) <=> e.type = t /\ GoesOn(l)
    BY <1>1 DEF IsLive
<1>4. ASSUME GoesOn(l), e.type = "resume" PROVE PendingInterrupts(m) = {}
    <2>1. SUFFICES ASSUME NEW i \in PendingInterrupts(m) PROVE FALSE
        OBVIOUS
    <2>2. IsLive(m, n + 1, "resume") /\ ~IsLive(m, n + 1, "interrupt")
        BY <1>3, <1>4
    <2>3. i \in 1..n
        BY <1>1, <2>1, <2>2 DEF PendingInterrupts
    <2>4. n + 1 \in (i + 1)..(n + 1)
        BY <1>1, <2>3
    <2> QED BY <1>1, <2>1, <2>2, <2>4 DEF PendingInterrupts
<1>5. ASSUME ~(GoesOn(l) /\ e.type = "resume")
      PROVE  \A i \in 1..n : i \in PendingInterrupts(m) <=> i \in PendingInterrupts(l)
    <2> TAKE i \in 1..n
    <2>1. /\ \A j \in 1..(i - 1) : j \in 1..n /\ (j + 1)..(i - 1) \subseteq 1..n
          /\ (i + 1)..n \subseteq 1..n
          /\ (i + 1)..(n + 1) = (i + 1)..n \cup {n + 1}
        BY <1>1
    <2>2. ~IsLive(m, n + 1, "resume")
        BY <1>3, <1>5
    <2>3. (\A j \in (i + 1)..(n + 1) : ~IsLive(m, j, "resume")) <=>
          (\A j \in (i + 1)..n : ~IsLive(l, j, "resume"))
        BY <1>3, <2>1, <2>2
    <2>4. \A j \in 1..(i - 1) :
              (IsLive(m, j, "interrupt") =>
                  \E k \in (j + 1)..(i - 1) : IsLive(m, k, "resume")) <=>
              (IsLive(l, j, "interrupt") =>
                  \E k \in (j + 1)..(i - 1) : IsLive(l, k, "resume"))
        BY <1>3, <2>1
    <2> QED BY <1>1, <1>2, <1>3, <2>3, <2>4 DEF PendingInterrupts
<1>6. \A i \in PendingInterrupts(m) : i \in 1..n \/ i = n + 1
    BY <1>1 DEF PendingInterrupts
<1>7. \A i \in PendingInterrupts(l) : i \in 1..n
    BY <1>2 DEF PendingInterrupts
<1>8. /\ \A i \in PendingInterrupts(m) : Pending(m) = m[i]
      /\ \A i \in PendingInterrupts(l) : Pending(l) = l[i]
    BY <1>1, OnePending DEF Pending
<1>9. ASSUME ~(GoesOn(l) /\ e.type = "resume"), HasPending(l)
      PROVE  HasPending(m) /\ Pending(m) = Pending(l)
    BY <1>1, <1>5, <1>7, <1>8, <1>9 DEF HasPending
<1>10. ASSUME ~(GoesOn(l) /\ e.type = "resume"), ~HasPending(l)
       PROVE  /\ HasPending(m) <=> GoesOn(l) /\ e.type = "interrupt"
              /\ HasPending(m) => Pending(m) = e
    <2>1. PendingInterrupts(m) \subseteq {n + 1}
        BY <1>5, <1>6, <1>10 DEF HasPending
    <2>2. n + 1 \in PendingInterrupts(m) => GoesOn(l) /\ e.type = "interrupt"
        BY <1>3 DEF PendingInterrupts
    <2>3. ASSUME GoesOn(l), e.type = "interrupt" PROVE n + 1 \in PendingInterrupts(m)
        <3>1. IsLive(m, n + 1, "interrupt")
            BY <1>3, <2>3
        <3>2. ((n + 1) + 1)..(n + 1) = {} /\ (n + 1) - 1 = n
            BY <1>1
        <3>3. ASSUME NEW j \in 1..n, IsLive(m, j, "interrupt")
              PROVE  \E k \in (j + 1)..n : IsLive(m, k, "resume")
            <4>1. IsLive(l, j, "interrupt") /\ (j + 1)..n \subseteq 1..n
                BY <1>1, <1>3, <3>3
            <4>2. PICK k \in (j + 1)..n : IsLive(l, k, "resume")
                BY <1>2, <1>10, <4>1, UnansweredPends
            <4> QED BY <1>3, <4>1, <4>2
        <3> QED BY <1>1, <3>1, <3>2, <3>3 DEF PendingInterrupts
    <2>4. n + 1 \in PendingInterrupts(m) => Pending(m) = e
        BY <1>1, <1>8
    <2> QED BY <2>1, <2>2, <2>3, <2>4 DEF HasPending
<1> QED BY <1>4, <1>9, <1>10 DEF m, HasPending

-----------------------------------------------------------------------------
(* The fold takes in one event after the other *)

\* The states after the first events of a log: what Folded takes the last of.
IsFold(f, l, n) == f = [i \in 0..n |-> IF i = 0 THEN Fresh ELSE Reduce(f[i - 1], l[i])]

\* There are such states, as there is no shortest log without them.
LEMMA FoldExists ==
    ASSUME NEW l, NEW n \in Nat
    PROVE  \E f : IsFold(f, l, n)
<1> DEFINE Without == {k \in Nat : ~\E f : IsFold(f, l, k)}
<1>1. SUFFICES ASSUME n \in Without PROVE FALSE
    OBVIOUS
<1>2. PICK k \in Without : \A j \in Without : k <= j
    <2>1. Without \subseteq Nat
        OBVIOUS
    <2> HIDE DEF Without
    <2> QED BY <1>1, <2>1, LeastPosition
<1>3. k # 0
    <2>1. IsFold([i \in 0..0 |-> Fresh], l, 0)
        BY DEF IsFold
    <2> QED BY <2>1
<1>4. PICK f : IsFold(f, l, k - 1)
    <2>1. k - 1 \in Nat /\ ~(k <= k - 1)
        BY <1>3
    <2> QED BY <1>2, <2>1
<1> DEFINE g == [i \in 0..k |-> IF i = k THEN Reduce(f[k - 1], l[k]) ELSE f[i]]
<1>5. \A i \in 0..k : g[i] = IF i = 0 THEN Fresh ELSE Reduce(g[i - 1], l[i])
    <2>1. \A i \in 0..(k - 1) : f[i] = IF i = 0 THEN Fresh ELSE Reduce(f[i - 1], l[i])
        BY <1>4 DEF IsFold
    <2>2. \A i \in 0..k : g[i] = IF i = k THEN Reduce(f[k - 1], l[k]) ELSE f[i]
        OBVIOUS
    <2> HIDE DEF g
    <2>3. TAKE i \in 0..k
    <2>4. CASE i = k
        <3>1. k - 1 \in 0..k /\ k - 1 # k /\ k # 0
            BY <1>3
        <3> QED BY <2>2, <2>4, <3>1
    <2>5. CASE i # k
        <3>1. i \in 0..(k - 1) /\ (i # 0 => i - 1 \in 0..k /\ i - 1 # k)
            BY <2>5
        <3> QED BY <2>1, <2>2, <2>5, <3>1
    <2> QED BY <2>4, <2>5
<1>6. IsFold(g, l, k)
    <2>1. g = [i \in 0..k |-> g[i]]
        OBVIOUS
    <2> HIDE DEF g
    <2> QED BY <1>5, <2>1 DEF IsFold
<1> HIDE DEF g
<1> QED BY <1>2, <1>6

\* The states of two logs agree for as long as the logs do.
LEMMA FoldsAgree ==
    ASSUME NEW l, NEW m, NEW k \in Nat, NEW n \in Nat, n <= k,
           NEW f, IsFold(f, l, n), NEW g, IsFold(g, m, k),
           \A i \in 1..n : l[i] = m[i]
    PROVE  f[n] = g[n]
<1> DEFINE Apart == {i \in 0..n : f[i] # g[i]}
<1>1. SUFFICES ASSUME n \in Apart PROVE FALSE
    OBVIOUS
<1>2. PICK i \in Apart : \A j \in Apart : i <= j
    <2>1. Apart \subseteq Nat
        OBVIOUS
    <2> HIDE DEF Apart
    <2> QED BY <1>1, <2>1, LeastPosition
<1>3. /\ f[i] = IF i = 0 THEN Fresh ELSE Reduce(f[i - 1], l[i])
      /\ g[i] = IF i = 0 THEN Fresh ELSE Reduce(g[i - 1], m[i])
    <2>1. i \in 0..n /\ i \in 0..k
        OBVIOUS
    <2>2. f[i] = IF i = 0 THEN Fresh ELSE Reduce(f[i - 1], l[i])
        BY <2>1 DEF IsFold
    <2>3. g[i] = IF i = 0 THEN Fresh ELSE Reduce(g[i - 1], m[i])
        BY <2>1 DEF IsFold
    <2> QED BY <2>2, <2>3
<1>4. CASE i = 0
    BY <1>3, <1>4
<1>5. CASE i # 0
    <2>1. i - 1 \in 0..n /\ ~(i <= i - 1) /\ i \in 1..n
        BY <1>5
    <2>2. f[i - 1] = g[i - 1]
        BY <1>2, <2>1
    <2> QED BY <1>2, <1>3, <1>5, <2>1, <2>2
<1> QED BY <1>4, <1>5

LEMMA FoldedIs ==
    ASSUME NEW l, Len(l) \in Nat
    PROVE  \E f : IsFold(f, l, Len(l)) /\ Folded(l) = f[Len(l)]
<1> DEFINE f == CHOOSE g : IsFold(g, l, Len(l))
<1>1. IsFold(f, l, Len(l))
    BY FoldExists
<1>2. Folded(l) = f[Len(l)]
    BY DEF Folded, IsFold
<1> HIDE DEF f
<1> QED BY <1>1, <1>2

LEMMA FoldedStarts == Folded(<<>>) = Fresh
<1>1. Len(<<>>) = 0
    OBVIOUS
<1>2. PICK f : IsFold(f, <<>>, 0) /\ Folded(<<>>) = f[0]
    BY <1>1, FoldedIs
<1> QED BY <1>2 DEF IsFold

LEMMA FoldedGrows ==
    ASSUME NEW l \in Logs, NEW e \in AllEvents
    PROVE  Folded(Append(l, e)) = Reduce(Folded(l), e)
<1> DEFINE m == Append(l, e)
           n == Len(l)
<1>1. n \in Nat /\ Len(m) = n + 1 /\ m[n + 1] = e /\ \A i \in 1..n : l[i] = m[i]
    BY LogGrows
<1> HIDE DEF m, n
<1>2. PICK f : IsFold(f, l, n) /\ Folded(l) = f[n]
    BY <1>1, FoldedIs DEF n
<1>3. PICK g : IsFold(g, m, n + 1) /\ Folded(m) = g[n + 1]
    BY <1>1, FoldedIs
<1>4. f[n] = g[n]
    BY <1>1, <1>2, <1>3, FoldsAgree
<1>5. g[n + 1] = Reduce(g[n], e)
    <2>1. n + 1 \in 0..(n + 1) /\ n + 1 # 0 /\ (n + 1) - 1 = n
        BY <1>1
    <2> QED BY <1>1, <1>3, <2>1 DEF IsFold
<1> QED BY <1>2, <1>3, <1>4, <1>5 DEF m

-----------------------------------------------------------------------------
(* The state that is folded *)

Codes == {"INV-001", "INV-002", "INV-003", "INV-004", "INV-005", "INV-006", "INV-007"}

States ==
    [status : RunStatuses, step : Nat, open : SUBSET CallIds, closed : SUBSET CallIds,
     pending : BOOLEAN, index : Nat, terminal : BOOLEAN, broken : SUBSET Codes]

LEMMA FlagIs ==
    ASSUME NEW s \in States, NEW code \in Codes
    PROVE  /\ Flag(s, code) \in States
           /\ Flag(s, code).broken = s.broken \cup {code}
           /\ \A f \in {"status", "step", "open", "closed", "pending", "index", "terminal"} :
                 Flag(s, code)[f] = s[f]
BY DEF Flag, States

\* How an event is taken in, by what it is.
LEMMA ReduceIs ==
    ASSUME NEW s \in States, NEW e \in AllEvents
    PROVE  /\ IsFatal(e) => Reduce(s, e) = [s EXCEPT !.status = "failed", !.terminal = TRUE]
           /\ IsArtifact(e) /\ ~IsFatal(e) => Reduce(s, e) = s
           /\ ~IsArtifact(e) => ~IsFatal(e)
           /\ ~IsArtifact(e) /\ s.terminal => Reduce(s, e) = Flag(s, "INV-006")
           /\ ~IsArtifact(e) /\ ~s.terminal =>
                 /\ e.type = "user_message" => Reduce(s, e) = s
                 /\ e.type = "agent_message" => Reduce(s, e) = OnMessage(s, e)
                 /\ e.type = "tool_call" => Reduce(s, e) = OnCall(s, e)
                 /\ e.type = "tool_result" => Reduce(s, e) = OnResult(s, e)
                 /\ e.type = "interrupt" => Reduce(s, e) = OnInterrupt(s, e)
                 /\ e.type = "resume" => Reduce(s, e) = OnResume(s, e)
BY EventsAre DEF Reduce, IsFatal, IsArtifact, AfterTheEnd, OnEvent

-----------------------------------------------------------------------------
(* The state is that of the positions *)

Agrees(l, s) ==
    /\ s \in States
    /\ s.terminal <=> ~GoesOn(l)
    /\ s.open = {c \in CallIds : Open(l, c)}
    /\ s.closed = {c \in CallIds : Closed(l, c)}
    /\ s.pending <=> HasPending(l)
    /\ s.pending => s.index = Pending(l).index
    /\ s.status = RunStatus(l)

LEMMA StatusGrows ==
    ASSUME NEW l \in Logs, NEW e \in AllEvents
    PROVE  LET m == Append(l, e)
           IN  /\ GoesOn(l) <=> RunStatus(l) \notin {"failed", "completed"}
               /\ RunStatus(l) \in RunStatuses
               /\ GoesOn(l) => RunStatus(l) = IF HasPending(l) THEN "waiting_human" ELSE "running"
               /\ RunStatus(m) = IF IsFatal(e) THEN "failed"
                                 ELSE IF ~GoesOn(l) THEN RunStatus(l)
                                 ELSE IF IsFinal(e) THEN "completed"
                                 ELSE IF HasPending(m) THEN "waiting_human" ELSE "running"
<1> DEFINE m == Append(l, e)
           n == Len(l)
<1>1. /\ Len(m) = n + 1 /\ 1..(n + 1) = 1..n \cup {n + 1}
      /\ \A i \in 1..n : m[i] = l[i]
      /\ m[n + 1] = e
    BY LogGrows
<1>2. Len(l) = n
    OBVIOUS
<1> HIDE DEF m, n
<1>3. /\ (\E i \in 1..Len(m) : IsFatal(m[i])) <=> IsFatal(e) \/ \E i \in 1..n : IsFatal(l[i])
      /\ (\E i \in 1..Len(m) : IsFinal(m[i])) <=> IsFinal(e) \/ \E i \in 1..n : IsFinal(l[i])
      /\ GoesOn(l) <=> ~(\E i \in 1..n : IsFatal(l[i])) /\ ~(\E i \in 1..n : IsFinal(l[i]))
    BY <1>1, <1>2 DEF GoesOn, EndsRun
<1>4. RunStatus(l) = IF \E i \in 1..n : IsFatal(l[i]) THEN "failed"
                     ELSE IF \E i \in 1..n : IsFinal(l[i]) THEN "completed"
                     ELSE IF HasPending(l) THEN "waiting_human" ELSE "running"
    BY <1>2 DEF RunStatus
<1>5. RunStatus(m) = IF \E i \in 1..Len(m) : IsFatal(m[i]) THEN "failed"
                     ELSE IF \E i \in 1..Len(m) : IsFinal(m[i]) THEN "completed"
                     ELSE IF HasPending(m) THEN "waiting_human" ELSE "running"
    BY DEF RunStatus
<1> QED BY <1>3, <1>4, <1>5 DEF m, RunStatuses

\* A log and a state agree still when each has taken in one more event.
LEMMA AgreementGrows ==
    ASSUME NEW l \in Logs, NEW e \in AllEvents, NEW s, Agrees(l, s)
    PROVE  Agrees(Append(l, e), Reduce(s, e))
<1> DEFINE m == Append(l, e)
           t == Reduce(s, e)
<1>1. /\ s \in States
      /\ s.terminal <=> ~GoesOn(l)
      /\ s.pending <=> HasPending(l)
      /\ s.pending => s.index = Pending(l).index
      /\ s.status = RunStatus(l)
      /\ \A c \in CallIds : (c \in s.open <=> Open(l, c)) /\ (c \in s.closed <=> Closed(l, c))
      /\ s.open \subseteq CallIds /\ s.closed \subseteq CallIds
    BY DEF Agrees, States
<1>2. /\ GoesOn(m) <=> GoesOn(l) /\ ~EndsRun(e)
      /\ EndsRun(e) <=> IsFatal(e) \/ IsFinal(e)
      /\ IsFinal(e) <=> e.type = "agent_message" /\ e.final
      /\ IsFatal(e) => e.type = "error"
    BY LogGrows DEF EndsRun, IsFinal, IsFatal
<1>3. \A c : /\ Called(m, c) <=>
                    Called(l, c) \/ (GoesOn(l) /\ e.type = "tool_call" /\ e.call = c)
             /\ Closed(m, c) <=>
                    \/ Closed(l, c)
                    \/ GoesOn(l) /\ e.type = "tool_result" /\ e.call = c /\ Called(l, c)
             /\ Closed(l, c) => Called(l, c)
             /\ Open(l, c) <=> Called(l, c) /\ ~Closed(l, c)
             /\ Open(m, c) <=> Called(m, c) /\ ~Closed(m, c)
    BY CallsGrow DEF Open
<1>4. /\ GoesOn(l) /\ e.type = "resume" => ~HasPending(m)
      /\ ~(GoesOn(l) /\ e.type = "resume") =>
            /\ HasPending(l) => HasPending(m) /\ Pending(m) = Pending(l)
            /\ ~HasPending(l) =>
                  /\ HasPending(m) <=> GoesOn(l) /\ e.type = "interrupt"
                  /\ HasPending(m) => Pending(m) = e
    BY PendingGrows
<1>5. /\ GoesOn(l) <=> RunStatus(l) \notin {"failed", "completed"}
      /\ GoesOn(l) => RunStatus(l) = IF HasPending(l) THEN "waiting_human" ELSE "running"
      /\ RunStatus(m) = IF IsFatal(e) THEN "failed"
                        ELSE IF ~GoesOn(l) THEN RunStatus(l)
                        ELSE IF IsFinal(e) THEN "completed"
                        ELSE IF HasPending(m) THEN "waiting_human" ELSE "running"
    BY StatusGrows
<1>6. /\ e.type = "agent_message" => e.final \in BOOLEAN
      /\ e.type = "tool_call" => e.call \in CallIds \cup {NoId}
      /\ e.type = "tool_result" => e.call \in CallIds
      /\ e.type \in {"interrupt", "resume"} => e.index \in Nat
      /\ IsArtifact(e) <=> e.type \in {"error", "compaction"}
      /\ e.type \in {"user_message", "agent_message", "error", "tool_call", "tool_result",
                     "interrupt", "resume", "compaction"}
    BY EventsAre
<1> SUFFICES /\ t \in States
             /\ t.terminal <=> ~GoesOn(m)
             /\ \A c \in CallIds : (c \in t.open <=> Open(m, c)) /\ (c \in t.closed <=> Closed(m, c))
             /\ t.pending <=> HasPending(m)
             /\ t.pending => t.index = Pending(m).index
             /\ t.status = RunStatus(m)
    BY DEF Agrees, States
<1> HIDE DEF m
<1>7. CASE IsArtifact(e) \/ ~GoesOn(l)
    <2>1. \A c : (Open(m, c) <=> Open(l, c)) /\ (Closed(m, c) <=> Closed(l, c))
        BY <1>3, <1>6, <1>7
    <2>2. (HasPending(m) <=> HasPending(l)) /\ (HasPending(l) => Pending(m) = Pending(l))
        BY <1>4, <1>6, <1>7
    <2>3. \/ IsFatal(e) /\ t = [s EXCEPT !.status = "failed", !.terminal = TRUE]
          \/ ~IsFatal(e) /\ IsArtifact(e) /\ t = s
          \/ ~IsFatal(e) /\ ~IsArtifact(e) /\ ~GoesOn(l) /\ t = Flag(s, "INV-006")
        BY <1>1, <1>7, ReduceIs
    <2> HIDE DEF t
    <2>4. CASE IsFatal(e)
        <3>1. t = [s EXCEPT !.status = "failed", !.terminal = TRUE]
            BY <2>3, <2>4
        <3>2. t \in States /\ t.terminal /\ t.status = "failed"
            BY <1>1, <3>1 DEF States, RunStatuses
        <3>3. t.open = s.open /\ t.closed = s.closed /\ t.pending = s.pending /\ t.index = s.index
            BY <1>1, <3>1 DEF States
        <3> QED BY <1>1, <1>2, <1>5, <2>1, <2>2, <2>4, <3>2, <3>3
    <2>5. CASE ~IsFatal(e)
        <3>1. /\ t \in States /\ t.terminal = s.terminal /\ t.status = s.status
              /\ t.open = s.open /\ t.closed = s.closed /\ t.pending = s.pending
              /\ t.index = s.index
            BY <1>1, <2>3, <2>5, FlagIs DEF Codes
        <3>2. RunStatus(m) = RunStatus(l) /\ (GoesOn(m) <=> GoesOn(l))
            BY <1>2, <1>5, <1>6, <1>7, <2>2, <2>5 DEF IsFinal
        <3> QED BY <1>1, <2>1, <2>2, <3>1, <3>2
    <2> QED BY <2>4, <2>5
<1>8. CASE ~IsArtifact(e) /\ GoesOn(l)
    <2>0. /\ ~IsFatal(e) /\ ~s.terminal
          /\ e.type = "user_message" => t = s
          /\ e.type = "agent_message" => t = OnMessage(s, e)
          /\ e.type = "tool_call" => t = OnCall(s, e)
          /\ e.type = "tool_result" => t = OnResult(s, e)
          /\ e.type = "interrupt" => t = OnInterrupt(s, e)
          /\ e.type = "resume" => t = OnResume(s, e)
        BY <1>1, <1>8, ReduceIs
    <2> HIDE DEF t
    <2>1. CASE e.type = "user_message"
        BY <1>1, <1>2, <1>3, <1>4, <1>5, <1>8, <2>0, <2>1
    <2>2. CASE e.type = "agent_message"
        <3>1. t = IF e.final
                  THEN [s EXCEPT !.step = @ + 1, !.status = "completed", !.terminal = TRUE]
                  ELSE [s EXCEPT !.step = @ + 1]
            BY <2>0, <2>2 DEF OnMessage
        <3>2. /\ t \in States /\ t.open = s.open /\ t.closed = s.closed
              /\ t.pending = s.pending /\ t.index = s.index
              /\ t.terminal <=> e.final
              /\ t.status = IF e.final THEN "completed" ELSE s.status
            <4>1. CASE e.final
                <5>1. t = [s EXCEPT !.step = @ + 1, !.status = "completed", !.terminal = TRUE]
                    BY <3>1, <4>1
                <5>2. /\ t \in States /\ t.open = s.open /\ t.closed = s.closed
                      /\ t.pending = s.pending /\ t.index = s.index
                      /\ t.terminal = TRUE /\ t.status = "completed"
                    <6> DEFINE r == [s EXCEPT !.step = @ + 1]
                    <6>1. /\ r \in States /\ r.open = s.open /\ r.closed = s.closed
                          /\ r.pending = s.pending /\ r.index = s.index
                        BY <1>1 DEF States
                    <6>2. t = [r EXCEPT !.status = "completed", !.terminal = TRUE]
                        BY <1>1, <5>1 DEF States
                    <6> HIDE DEF r
                    <6> QED BY <6>1, <6>2 DEF States, RunStatuses
                <5> QED BY <4>1, <5>2
            <4>2. CASE ~e.final
                <5>1. t = [s EXCEPT !.step = @ + 1]
                    BY <3>1, <4>2
                <5> QED BY <1>1, <2>0, <4>2, <5>1 DEF States, RunStatuses
            <4> QED BY <4>1, <4>2
        <3> QED BY <1>1, <1>2, <1>3, <1>4, <1>5, <1>6, <1>8, <2>0, <2>2, <3>2
    <2>3. CASE e.type = "tool_call"
        <3>1. CASE e.call = NoId \/ e.call \in s.open \cup s.closed
            <4>1. t = Flag(s, "INV-001")
                BY <2>0, <2>3, <3>1 DEF OnCall
            <4>2. /\ t \in States /\ t.open = s.open /\ t.closed = s.closed
                  /\ t.pending = s.pending /\ t.index = s.index
                  /\ t.terminal = s.terminal /\ t.status = s.status
                BY <1>1, <4>1, FlagIs DEF Codes
            <4>3. \A c \in CallIds : (Open(m, c) <=> Open(l, c)) /\ (Closed(m, c) <=> Closed(l, c))
                BY <1>1, <1>3, <2>3, <3>1, NoIdIsNoCall
            <4> QED BY <1>1, <1>2, <1>4, <1>5, <1>8, <2>0, <2>3, <4>2, <4>3
        <3>2. CASE ~(e.call = NoId \/ e.call \in s.open \cup s.closed)
            <4>1. t = [s EXCEPT !.open = @ \cup {e.call}]
                BY <2>0, <2>3, <3>2 DEF OnCall
            <4>2. /\ t \in States /\ t.open = s.open \cup {e.call} /\ t.closed = s.closed
                  /\ t.pending = s.pending /\ t.index = s.index
                  /\ t.terminal = s.terminal /\ t.status = s.status
                BY <1>1, <1>6, <2>3, <3>2, <4>1 DEF States
            <4>3. \A c \in CallIds : /\ Open(m, c) <=> Open(l, c) \/ c = e.call
                                     /\ Closed(m, c) <=> Closed(l, c)
                BY <1>1, <1>3, <1>8, <2>3, <3>2
            <4> QED BY <1>1, <1>2, <1>4, <1>5, <1>8, <2>0, <2>3, <4>2, <4>3
        <3> QED BY <3>1, <3>2
    <2>4. CASE e.type = "tool_result"
        <3>1. CASE e.call \in s.open \ s.closed
            <4>1. t = [s EXCEPT !.open = @ \ {e.call}, !.closed = @ \cup {e.call}]
                BY <2>0, <2>4, <3>1 DEF OnResult
            <4>2. /\ t \in States /\ t.open = s.open \ {e.call} /\ t.closed = s.closed \cup {e.call}
                  /\ t.pending = s.pending /\ t.index = s.index
                  /\ t.terminal = s.terminal /\ t.status = s.status
                BY <1>1, <1>6, <2>4, <3>1, <4>1 DEF States
            <4>3. \A c \in CallIds : /\ Open(m, c) <=> Open(l, c) /\ c # e.call
                                     /\ Closed(m, c) <=> Closed(l, c) \/ c = e.call
                BY <1>1, <1>3, <1>6, <1>8, <2>4, <3>1
            <4> QED BY <1>1, <1>2, <1>4, <1>5, <1>8, <2>0, <2>4, <4>2, <4>3
        <3>2. CASE e.call \notin s.open \ s.closed
            <4>1. t = Flag(s, "INV-003") \/ t = Flag(s, "INV-002")
                BY <2>0, <2>4, <3>2 DEF OnResult
            <4>2. /\ t \in States /\ t.open = s.open /\ t.closed = s.closed
                  /\ t.pending = s.pending /\ t.index = s.index
                  /\ t.terminal = s.terminal /\ t.status = s.status
                BY <1>1, <4>1, FlagIs DEF Codes
            <4>3. \A c \in CallIds : (Open(m, c) <=> Open(l, c)) /\ (Closed(m, c) <=> Closed(l, c))
                BY <1>1, <1>3, <1>6, <2>4, <3>2
            <4> QED BY <1>1, <1>2, <1>4, <1>5, <1>8, <2>0, <2>4, <4>2, <4>3
        <3> QED BY <3>1, <3>2
    <2>5. CASE e.type = "interrupt"
        <3>1. \A c : (Open(m, c) <=> Open(l, c)) /\ (Closed(m, c) <=> Closed(l, c))
            BY <1>3, <2>5
        <3>2. CASE s.pending
            <4>1. t = Flag(s, "INV-004")
                BY <2>0, <2>5, <3>2 DEF OnInterrupt
            <4>2. /\ t \in States /\ t.open = s.open /\ t.closed = s.closed
                  /\ t.pending = s.pending /\ t.index = s.index
                  /\ t.terminal = s.terminal /\ t.status = s.status
                BY <1>1, <4>1, FlagIs DEF Codes
            <4> QED BY <1>1, <1>2, <1>4, <1>5, <1>8, <2>0, <2>5, <3>1, <3>2, <4>2
        <3>3. CASE ~s.pending
            <4>1. t = [s EXCEPT !.pending = TRUE, !.index = e.index, !.status = "waiting_human"]
                BY <2>0, <2>5, <3>3 DEF OnInterrupt
            <4>2. /\ t \in States /\ t.open = s.open /\ t.closed = s.closed
                  /\ t.pending /\ t.index = e.index
                  /\ t.terminal = s.terminal /\ t.status = "waiting_human"
                BY <1>1, <1>6, <2>5, <4>1 DEF States, RunStatuses
            <4> QED BY <1>1, <1>2, <1>4, <1>5, <1>8, <2>0, <2>5, <3>1, <3>3, <4>2
        <3> QED BY <3>2, <3>3
    <2>6. CASE e.type = "resume"
        <3>1. \A c : (Open(m, c) <=> Open(l, c)) /\ (Closed(m, c) <=> Closed(l, c))
            BY <1>3, <2>6
        <3>2. CASE ~s.pending
            <4>1. t = Flag(s, "INV-005")
                BY <2>0, <2>6, <3>2 DEF OnResume
            <4>2. /\ t \in States /\ t.open = s.open /\ t.closed = s.closed
                  /\ t.pending = s.pending /\ t.index = s.index
                  /\ t.terminal = s.terminal /\ t.status = s.status
                BY <1>1, <4>1, FlagIs DEF Codes
            <4> QED BY <1>1, <1>2, <1>4, <1>5, <1>8, <2>0, <2>6, <3>1, <3>2, <4>2
        <3>3. CASE s.pending
            <4>1. PICK r \in {s, Flag(s, "INV-007")} :
                      t = [r EXCEPT !.pending = FALSE, !.index = 0,
                                    !.status = IF @ = "waiting_human" THEN "running" ELSE @]
                BY <2>0, <2>6, <3>3 DEF OnResume
            <4>2. /\ r \in States /\ r.open = s.open /\ r.closed = s.closed
                  /\ r.terminal = s.terminal /\ r.status = s.status
                BY <1>1, FlagIs DEF Codes
            <4>3. s.status = "waiting_human"
                BY <1>1, <1>5, <1>8, <3>3
            <4>4. /\ t \in States /\ t.open = s.open /\ t.closed = s.closed
                  /\ ~t.pending /\ t.terminal = s.terminal /\ t.status = "running"
                BY <4>1, <4>2, <4>3 DEF States, RunStatuses
            <4> QED BY <1>1, <1>2, <1>4, <1>5, <1>8, <2>0, <2>6, <3>1, <4>4
        <3> QED BY <3>2, <3>3
    <2> QED BY <1>6, <1>8, <2>1, <2>2, <2>3, <2>4, <2>5, <2>6
<1> QED BY <1>7, <1>8

-----------------------------------------------------------------------------
(* The codes of calls and of the end of a run *)

LiveOfType(l, type) == {i \in 1..Len(l) : IsLive(l, i, type)}

Earlier(l, i, type) == {j \in LiveOfType(l, type) : j < i /\ l[j].call = l[i].call}

CallFlags(l, s) ==
    /\ "INV-001" \in s.broken <=>
          \E i \in LiveOfType(l, "tool_call") :
             l[i].call = NoId \/ Earlier(l, i, "tool_call") # {}
    /\ "INV-002" \in s.broken <=>
          \E i \in LiveOfType(l, "tool_result") : Earlier(l, i, "tool_call") = {}
    /\ "INV-003" \in s.broken <=>
          \E i \in LiveOfType(l, "tool_result") : \E j \in Earlier(l, i, "tool_result") :
             Earlier(l, j, "tool_call") # {}
    /\ "INV-006" \in s.broken <=> \E i \in 1..Len(l) : ~IsArtifact(l[i]) /\ ~Live(l, i)

\* The codes an event adds.
LEMMA BrokenGrows ==
    ASSUME NEW s \in States, NEW e \in AllEvents
    PROVE  LET counts == ~IsArtifact(e) /\ ~s.terminal
           IN  /\ s.broken \subseteq Reduce(s, e).broken
               /\ "INV-001" \in Reduce(s, e).broken <=>
                     \/ "INV-001" \in s.broken
                     \/ /\ counts /\ e.type = "tool_call"
                        /\ e.call = NoId \/ e.call \in s.open \cup s.closed
               /\ "INV-002" \in Reduce(s, e).broken <=>
                     \/ "INV-002" \in s.broken
                     \/ /\ counts /\ e.type = "tool_result"
                        /\ e.call \notin s.open \cup s.closed
               /\ "INV-003" \in Reduce(s, e).broken <=>
                     \/ "INV-003" \in s.broken
                     \/ counts /\ e.type = "tool_result" /\ e.call \in s.closed
               /\ "INV-004" \in Reduce(s, e).broken <=>
                     "INV-004" \in s.broken \/ (counts /\ e.type = "interrupt" /\ s.pending)
               /\ "INV-005" \in Reduce(s, e).broken <=>
                     "INV-005" \in s.broken \/ (counts /\ e.type = "resume" /\ ~s.pending)
               /\ "INV-007" \in Reduce(s, e).broken <=>
                     \/ "INV-007" \in s.broken
                     \/ counts /\ e.type = "resume" /\ s.pending /\ e.index # s.index
               /\ "INV-006" \in Reduce(s, e).broken <=>
                     "INV-006" \in s.broken \/ (~IsArtifact(e) /\ s.terminal)
<1> DEFINE t == Reduce(s, e)
<1>1. /\ IsFatal(e) => t = [s EXCEPT !.status = "failed", !.terminal = TRUE]
      /\ IsArtifact(e) /\ ~IsFatal(e) => t = s
      /\ ~IsArtifact(e) => ~IsFatal(e)
      /\ ~IsArtifact(e) /\ s.terminal => t = Flag(s, "INV-006")
      /\ ~IsArtifact(e) /\ ~s.terminal =>
            /\ e.type = "user_message" => t = s
            /\ e.type = "agent_message" => t = OnMessage(s, e)
            /\ e.type = "tool_call" => t = OnCall(s, e)
            /\ e.type = "tool_result" => t = OnResult(s, e)
            /\ e.type = "interrupt" => t = OnInterrupt(s, e)
            /\ e.type = "resume" => t = OnResume(s, e)
    BY ReduceIs
<1>2. \A code \in Codes : Flag(s, code).broken = s.broken \cup {code}
    BY FlagIs
<1>3. /\ IsArtifact(e) <=> e.type \in {"error", "compaction"}
      /\ e.type \in {"user_message", "agent_message", "error", "tool_call", "tool_result",
                     "interrupt", "resume", "compaction"}
    BY EventsAre
<1> HIDE DEF t
<1>4. CASE IsArtifact(e)
    <2>1. t.broken = s.broken
        BY <1>1, <1>4 DEF States
    <2> QED BY <1>4, <2>1 DEF t
<1>5. CASE ~IsArtifact(e) /\ s.terminal
    <2>1. t.broken = s.broken \cup {"INV-006"}
        BY <1>1, <1>2, <1>5 DEF Codes
    <2> QED BY <1>5, <2>1 DEF t
<1>6. CASE ~IsArtifact(e) /\ ~s.terminal /\ e.type \in {"user_message", "agent_message"}
    <2>1. t.broken = s.broken
        BY <1>1, <1>6 DEF States, OnMessage
    <2> QED BY <1>6, <2>1 DEF t
<1>7. CASE ~IsArtifact(e) /\ ~s.terminal /\ e.type = "tool_call"
    <2>1. t.broken = IF e.call = NoId \/ e.call \in s.open \cup s.closed
                     THEN s.broken \cup {"INV-001"} ELSE s.broken
        BY <1>1, <1>2, <1>7 DEF States, OnCall, Codes
    <2> QED BY <1>7, <2>1 DEF t
<1>8. CASE ~IsArtifact(e) /\ ~s.terminal /\ e.type = "tool_result"
    <2>1. t.broken = IF e.call \in s.closed THEN s.broken \cup {"INV-003"}
                     ELSE IF e.call \in s.open THEN s.broken ELSE s.broken \cup {"INV-002"}
        BY <1>1, <1>2, <1>8 DEF States, OnResult, Codes
    <2> QED BY <1>8, <2>1 DEF t
<1>9. CASE ~IsArtifact(e) /\ ~s.terminal /\ e.type = "interrupt"
    <2>1. t.broken = IF s.pending THEN s.broken \cup {"INV-004"} ELSE s.broken
        BY <1>1, <1>2, <1>9 DEF States, OnInterrupt, Codes
    <2> QED BY <1>9, <2>1 DEF t
<1>10. CASE ~IsArtifact(e) /\ ~s.terminal /\ e.type = "resume"
    <2>1. t.broken = IF ~s.pending THEN s.broken \cup {"INV-005"}
                     ELSE IF e.index # s.index THEN s.broken \cup {"INV-007"} ELSE s.broken
        <3>1. CASE ~s.pending
            BY <1>1, <1>2, <1>10, <3>1 DEF OnResume, Codes
        <3>2. CASE s.pending
            <4> DEFINE r == IF e.index # s.index THEN Flag(s, "INV-007") ELSE s
            <4>1. /\ r \in States
                  /\ r.broken = IF e.index # s.index THEN s.broken \cup {"INV-007"} ELSE s.broken
                BY <1>2, FlagIs DEF Codes
            <4>2. t = [r EXCEPT !.pending = FALSE, !.index = 0,
                                !.status = IF @ = "waiting_human" THEN "running" ELSE @]
                BY <1>1, <1>10, <3>2 DEF OnResume
            <4> HIDE DEF r
            <4>3. t.broken = r.broken
                BY <4>1, <4>2 DEF States
            <4> QED BY <3>2, <4>1, <4>3
        <3> QED BY <3>1, <3>2
    <2> QED BY <1>10, <2>1 DEF t
<1> QED BY <1>3, <1>4, <1>5, <1>6, <1>7, <1>8, <1>9, <1>10

\* Earlier events of the same call are what Called and Closed ask for.
LEMMA EarlierAre ==
    ASSUME NEW l \in Logs, NEW e \in AllEvents
    PROVE  LET m == Append(l, e)
               n == Len(l)
           IN  /\ \A type : LiveOfType(m, type) =
                     LiveOfType(l, type) \cup
                        (IF GoesOn(l) /\ e.type = type THEN {n + 1} ELSE {})
               /\ \A type : LiveOfType(l, type) \subseteq 1..n
               /\ \A i \in 1..n : \A type : Earlier(m, i, type) = Earlier(l, i, type)
               /\ Earlier(m, n + 1, "tool_call") # {} <=> Called(l, e.call)
               /\ (\E j \in Earlier(m, n + 1, "tool_result") : Earlier(m, j, "tool_call") # {})
                     <=> Closed(l, e.call)
<1> DEFINE m == Append(l, e)
           n == Len(l)
<1>1. /\ n \in Nat /\ Len(m) = n + 1 /\ 1..(n + 1) = 1..n \cup {n + 1} /\ n + 1 \notin 1..n
      /\ \A i \in 1..n : m[i] = l[i] /\ (Live(m, i) <=> Live(l, i))
      /\ m[n + 1] = e /\ (Live(m, n + 1) <=> GoesOn(l))
    BY LogGrows
<1>2. Len(l) = n
    OBVIOUS
<1> HIDE DEF m, n
<1>3. /\ \A i \in 1..n : \A type : IsLive(m, i, type) <=> IsLive(l, i, type)
      /\ \A type : IsLive(m, n + 1, type) <=> e.type = type /\ GoesOn(l)
    BY <1>1 DEF IsLive
<1>4. \A type : /\ LiveOfType(m, type) = LiveOfType(l, type) \cup
                       (IF GoesOn(l) /\ e.type = type THEN {n + 1} ELSE {})
                /\ LiveOfType(l, type) \subseteq 1..n
    <2> TAKE type
    <2>1. \A i : i \in LiveOfType(m, type) <=> i \in 1..(n + 1) /\ IsLive(m, i, type)
        BY <1>1 DEF LiveOfType
    <2>2. \A i : i \in LiveOfType(l, type) <=> i \in 1..n /\ IsLive(l, i, type)
        BY <1>2 DEF LiveOfType
    <2> QED BY <1>1, <1>3, <2>1, <2>2
<1>5. \A i \in 1..n : \A type : Earlier(m, i, type) = Earlier(l, i, type)
    <2> TAKE i \in 1..n
    <2> TAKE type
    <2>1. ~(n + 1 < i)
        BY <1>1
    <2>2. \A j : j \in Earlier(m, i, type) <=>
                    j \in LiveOfType(m, type) /\ j < i /\ m[j].call = m[i].call
        BY DEF Earlier
    <2>3. \A j : j \in Earlier(l, i, type) <=>
                    j \in LiveOfType(l, type) /\ j < i /\ l[j].call = l[i].call
        BY DEF Earlier
    <2>4. \A j \in LiveOfType(l, type) : j \in 1..n /\ m[j].call = l[j].call
        BY <1>1, <1>4
    <2>5. \A j : j \in LiveOfType(m, type) /\ j < i => j \in LiveOfType(l, type)
        BY <1>4, <2>1
    <2>6. LiveOfType(l, type) \subseteq LiveOfType(m, type) /\ m[i] = l[i]
        BY <1>1, <1>4
    <2>7. \A j : j \in Earlier(m, i, type) <=> j \in Earlier(l, i, type)
        BY <2>2, <2>3, <2>4, <2>5, <2>6
    <2> QED BY <2>7 DEF Earlier
<1>6. \A type : \A j : j \in Earlier(m, n + 1, type) <=>
                          j \in LiveOfType(l, type) /\ l[j].call = e.call
    <2> TAKE type
    <2>1. ~(n + 1 < n + 1) /\ \A j \in 1..n : j < n + 1
        BY <1>1
    <2> QED BY <1>1, <1>4, <2>1 DEF Earlier
<1>7. \A j \in 1..n : \A c : /\ IsCall(l, j, c) <=>
                                   j \in LiveOfType(l, "tool_call") /\ l[j].call = c
                             /\ IsResult(l, j, c) <=>
                                   j \in LiveOfType(l, "tool_result") /\ l[j].call = c
    BY <1>2 DEF IsCall, IsResult, LiveOfType, IsLive
<1>8. Earlier(m, n + 1, "tool_call") # {} <=> Called(l, e.call)
    BY <1>2, <1>4, <1>6, <1>7 DEF Called
<1>9. (\E j \in Earlier(m, n + 1, "tool_result") : Earlier(m, j, "tool_call") # {})
          <=> Closed(l, e.call)
    <2>1. \A j \in 1..n : l[j].call = e.call =>
              (Earlier(m, j, "tool_call") # {} <=> \E k \in 1..(j - 1) : IsCall(l, k, e.call))
        <3> TAKE j \in 1..n
        <3>1. \A k : k \in 1..(j - 1) <=> k \in 1..n /\ k < j
            BY <1>1
        <3> QED BY <1>4, <1>5, <1>7, <3>1 DEF Earlier
    <2> QED BY <1>2, <1>4, <1>6, <1>7, <2>1 DEF Closed
<1> QED BY <1>4, <1>5, <1>8, <1>9 DEF m, n

LEMMA CallFlagsGrow ==
    ASSUME NEW l \in Logs, NEW e \in AllEvents, NEW s, Agrees(l, s), CallFlags(l, s)
    PROVE  CallFlags(Append(l, e), Reduce(s, e))
<1> DEFINE m == Append(l, e)
           n == Len(l)
           t == Reduce(s, e)
           counts == ~IsArtifact(e) /\ ~s.terminal
<1>1. /\ s \in States
      /\ s.terminal <=> ~GoesOn(l)
      /\ \A c \in CallIds : /\ c \in s.open \cup s.closed <=> Called(l, c)
                            /\ c \in s.closed <=> Closed(l, c)
    <2>1. \A c : Closed(l, c) => Called(l, c)
        BY CallsGrow
    <2> QED BY <2>1 DEF Agrees, Open
<1>2. /\ "INV-001" \in t.broken <=>
              \/ "INV-001" \in s.broken
              \/ /\ counts /\ e.type = "tool_call"
                 /\ e.call = NoId \/ e.call \in s.open \cup s.closed
      /\ "INV-002" \in t.broken <=>
              \/ "INV-002" \in s.broken
              \/ counts /\ e.type = "tool_result" /\ e.call \notin s.open \cup s.closed
      /\ "INV-003" \in t.broken <=>
              \/ "INV-003" \in s.broken
              \/ counts /\ e.type = "tool_result" /\ e.call \in s.closed
      /\ "INV-006" \in t.broken <=> "INV-006" \in s.broken \/ (~IsArtifact(e) /\ s.terminal)
    BY <1>1, BrokenGrows
<1>3. /\ \A type : LiveOfType(m, type) = LiveOfType(l, type) \cup
                        (IF GoesOn(l) /\ e.type = type THEN {n + 1} ELSE {})
      /\ \A type : LiveOfType(l, type) \subseteq 1..n
      /\ \A i \in 1..n : \A type : Earlier(m, i, type) = Earlier(l, i, type)
      /\ Earlier(m, n + 1, "tool_call") # {} <=> Called(l, e.call)
      /\ (\E j \in Earlier(m, n + 1, "tool_result") : Earlier(m, j, "tool_call") # {})
            <=> Closed(l, e.call)
    BY EarlierAre
<1>4. /\ n \in Nat /\ Len(m) = n + 1 /\ 1..(n + 1) = 1..n \cup {n + 1} /\ n + 1 \notin 1..n
      /\ \A i \in 1..n : m[i] = l[i] /\ (Live(m, i) <=> Live(l, i))
      /\ m[n + 1] = e /\ (Live(m, n + 1) <=> GoesOn(l))
    BY LogGrows
<1>5. /\ e.type = "tool_call" => e.call \in CallIds \cup {NoId} /\ ~IsArtifact(e)
      /\ e.type = "tool_result" => e.call \in CallIds /\ ~IsArtifact(e)
    BY EventsAre
<1>6. Len(l) = n
    OBVIOUS
<1> HIDE DEF m, n, t
<1>7. "INV-001" \in t.broken <=>
          \E i \in LiveOfType(m, "tool_call") :
              m[i].call = NoId \/ Earlier(m, i, "tool_call") # {}
    <2>1. \A i \in LiveOfType(l, "tool_call") :
              /\ m[i].call = l[i].call
              /\ Earlier(m, i, "tool_call") = Earlier(l, i, "tool_call")
        BY <1>3, <1>4
    <2> QED BY <1>1, <1>2, <1>3, <1>4, <1>5, <2>1 DEF CallFlags
<1>8. "INV-002" \in t.broken <=>
          \E i \in LiveOfType(m, "tool_result") : Earlier(m, i, "tool_call") = {}
    <2>1. \A i \in LiveOfType(l, "tool_result") :
              Earlier(m, i, "tool_call") = Earlier(l, i, "tool_call")
        BY <1>3, <1>4
    <2> QED BY <1>1, <1>2, <1>3, <1>4, <1>5, <2>1 DEF CallFlags
<1>9. "INV-003" \in t.broken <=>
          \E i \in LiveOfType(m, "tool_result") : \E j \in Earlier(m, i, "tool_result") :
              Earlier(m, j, "tool_call") # {}
    <2>1. \A i \in LiveOfType(l, "tool_result") :
              /\ Earlier(m, i, "tool_result") = Earlier(l, i, "tool_result")
              /\ \A j \in Earlier(l, i, "tool_result") :
                    Earlier(m, j, "tool_call") = Earlier(l, j, "tool_call")
        BY <1>3, <1>4 DEF Earlier
    <2> QED BY <1>1, <1>2, <1>3, <1>4, <1>5, <2>1 DEF CallFlags
<1>10. "INV-006" \in t.broken <=> \E i \in 1..Len(m) : ~IsArtifact(m[i]) /\ ~Live(m, i)
    BY <1>1, <1>2, <1>4, <1>6 DEF CallFlags
<1> QED BY <1>7, <1>8, <1>9, <1>10 DEF CallFlags, m, t

-----------------------------------------------------------------------------
(* The codes of interrupts and resumes *)

Turns(l) == LiveOfType(l, "interrupt") \cup LiveOfType(l, "resume")

Follows(l, i, j) == j < i /\ \A k \in Turns(l) : k <= j \/ i <= k

InTurn(l, i) ==
    IF l[i].type = "interrupt"
    THEN \A j \in Turns(l) : Follows(l, i, j) => l[j].type = "resume"
    ELSE \E j \in Turns(l) :
            Follows(l, i, j) /\ l[j].type = "interrupt" /\ l[j].index = l[i].index

Alternates(l) == \A i \in Turns(l) : InTurn(l, i)

\* As long as the turns alternate, the last one says what is pending.
LastTurn(l, j) == j \in Turns(l) /\ \A k \in Turns(l) : k <= j

TurnFlags(l, s) ==
    /\ s.broken \cap {"INV-004", "INV-005", "INV-007"} = {} <=> Alternates(l)
    /\ Turns(l) # {} => \E j \in Turns(l) : LastTurn(l, j)
    /\ Alternates(l) =>
          /\ s.pending => Turns(l) # {}
          /\ \A j \in Turns(l) : LastTurn(l, j) =>
                /\ s.pending <=> l[j].type = "interrupt"
                /\ s.pending => s.index = l[j].index

\* What is asked just before an event is what its part of the log says is
\* pending, so each code of the approvals is that of the events it names.
ApprovalFlags(l, s) ==
    LET upTo(i) == SubSeq(l, 1, i - 1)
    IN  /\ "INV-004" \in s.broken <=> \E i \in LiveOfType(l, "interrupt") : HasPending(upTo(i))
        /\ "INV-005" \in s.broken <=> \E i \in LiveOfType(l, "resume") : ~HasPending(upTo(i))
        /\ "INV-007" \in s.broken <=>
              \E i \in LiveOfType(l, "resume") :
                 HasPending(upTo(i)) /\ Pending(upTo(i)).index # l[i].index

LEMMA PrefixesStay ==
    ASSUME NEW l \in Logs, NEW e \in AllEvents
    PROVE  /\ \A i \in 1..Len(l) : SubSeq(Append(l, e), 1, i - 1) = SubSeq(l, 1, i - 1)
           /\ SubSeq(Append(l, e), 1, Len(l)) = l
<1> DEFINE m == Append(l, e)
           n == Len(l)
<1>1. /\ n \in Nat /\ Len(m) = n + 1
      /\ \A i \in 1..n : m[i] = l[i] /\ l[i] \in AllEvents
    BY LogGrows
<1>2. l \in Seq(AllEvents)
    BY DEF Logs
<1> HIDE DEF m, n
<1>3. ASSUME NEW k \in 0..n
      PROVE  SubSeq(m, 1, k) = SubSeq(l, 1, k)
    <2>1. k \in Int /\ 1 \in Int /\ k - 1 + 1 = k /\ (k < 1 => k = 0)
        BY <1>1
    <2>2. \A i \in 1..k : m[i] = l[i] /\ l[i] \in AllEvents
        BY <1>1
    <2>3. /\ SubSeq(m, 1, k) \in Seq(AllEvents)
          /\ Len(SubSeq(m, 1, k)) = IF 1 <= k THEN k - 1 + 1 ELSE 0
          /\ \A i \in 1..(k - 1 + 1) : SubSeq(m, 1, k)[i] = m[1 + i - 1]
        BY <2>1, <2>2, SubSeqProperties
    <2>4. /\ SubSeq(l, 1, k) \in Seq(AllEvents)
          /\ Len(SubSeq(l, 1, k)) = IF 1 <= k THEN k - 1 + 1 ELSE 0
          /\ \A i \in 1..(k - 1 + 1) : SubSeq(l, 1, k)[i] = l[1 + i - 1]
        BY <2>1, <2>2, SubSeqProperties
    <2> DEFINE a == SubSeq(m, 1, k)
               b == SubSeq(l, 1, k)
    <2>5. \A i \in 1..k : 1 + i - 1 = i
        OBVIOUS
    <2>6. Len(a) = k /\ Len(b) = k
        BY <1>1, <2>3, <2>4
    <2>7. \A i \in 1..k : a[i] = b[i]
        BY <2>1, <2>2, <2>3, <2>4, <2>5
    <2>8. a \in Seq(AllEvents) /\ b \in Seq(AllEvents)
        BY <2>3, <2>4
    <2> HIDE DEF a, b
    <2>9. a = b
        BY <2>6, <2>7, <2>8, SeqEqual
    <2> QED BY <2>9 DEF a, b
<1>4. \A i \in 1..n : i - 1 \in 0..n
    BY <1>1
<1>5. SubSeq(l, 1, n) = l
    BY <1>2, SubSeqFull DEF n
<1>6. n \in 0..n
    BY <1>1
<1> QED BY <1>3, <1>4, <1>5, <1>6 DEF m, n

LEMMA ApprovalFlagsGrow ==
    ASSUME NEW l \in Logs, NEW e \in AllEvents, NEW s, Agrees(l, s), ApprovalFlags(l, s)
    PROVE  ApprovalFlags(Append(l, e), Reduce(s, e))
<1> DEFINE m == Append(l, e)
           n == Len(l)
           t == Reduce(s, e)
           upTo(i) == SubSeq(m, 1, i - 1)
<1>1. /\ s \in States /\ (s.terminal <=> ~GoesOn(l))
      /\ s.pending <=> HasPending(l)
      /\ s.pending => s.index = Pending(l).index
    BY DEF Agrees
<1>2. e.type \in {"interrupt", "resume"} => ~IsArtifact(e)
    BY EventsAre
<1>3. /\ "INV-004" \in t.broken <=>
            "INV-004" \in s.broken \/ (GoesOn(l) /\ e.type = "interrupt" /\ HasPending(l))
      /\ "INV-005" \in t.broken <=>
            "INV-005" \in s.broken \/ (GoesOn(l) /\ e.type = "resume" /\ ~HasPending(l))
      /\ "INV-007" \in t.broken <=>
            \/ "INV-007" \in s.broken
            \/ GoesOn(l) /\ e.type = "resume" /\ HasPending(l) /\ e.index # Pending(l).index
    BY <1>1, <1>2, BrokenGrows
<1>4. /\ \A i \in 1..n : upTo(i) = SubSeq(l, 1, i - 1)
      /\ upTo(n + 1) = l
    <2>1. n \in Nat /\ (n + 1) - 1 = n
        BY LogGrows
    <2> QED BY <2>1, PrefixesStay
<1>5. /\ n \in Nat /\ m[n + 1] = e
      /\ \A i \in 1..n : m[i] = l[i]
    BY LogGrows
<1>6. \A type : /\ LiveOfType(m, type) = LiveOfType(l, type) \cup
                        (IF GoesOn(l) /\ e.type = type THEN {n + 1} ELSE {})
                /\ LiveOfType(l, type) \subseteq 1..n
    BY EarlierAre
<1> HIDE DEF m, n, t, upTo
<1>7. /\ LiveOfType(m, "interrupt") = LiveOfType(l, "interrupt") \cup
            (IF GoesOn(l) /\ e.type = "interrupt" THEN {n + 1} ELSE {})
      /\ LiveOfType(m, "resume") = LiveOfType(l, "resume") \cup
            (IF GoesOn(l) /\ e.type = "resume" THEN {n + 1} ELSE {})
      /\ LiveOfType(l, "interrupt") \subseteq 1..n /\ LiveOfType(l, "resume") \subseteq 1..n
    BY <1>6
<1>8. "INV-004" \in t.broken <=> \E i \in LiveOfType(m, "interrupt") : HasPending(upTo(i))
    BY <1>3, <1>4, <1>7 DEF ApprovalFlags
<1>9. "INV-005" \in t.broken <=> \E i \in LiveOfType(m, "resume") : ~HasPending(upTo(i))
    BY <1>3, <1>4, <1>7 DEF ApprovalFlags
<1>10. "INV-007" \in t.broken <=>
          \E i \in LiveOfType(m, "resume") :
             HasPending(upTo(i)) /\ Pending(upTo(i)).index # m[i].index
    BY <1>3, <1>4, <1>5, <1>7 DEF ApprovalFlags
<1> QED BY <1>8, <1>9, <1>10 DEF ApprovalFlags, m, t, upTo

\* What interrupts and resumes do to the pending question.
LEMMA TurnsReduce ==
    ASSUME NEW s \in States, NEW e \in AllEvents
    PROVE  LET t == Reduce(s, e)
               counts == ~IsArtifact(e) /\ ~s.terminal
           IN  /\ ~(counts /\ e.type \in {"interrupt", "resume"}) =>
                     t.pending = s.pending /\ t.index = s.index
               /\ counts /\ e.type = "interrupt" =>
                     t.pending /\ t.index = IF s.pending THEN s.index ELSE e.index
               /\ counts /\ e.type = "resume" => ~t.pending
<1> DEFINE t == Reduce(s, e)
<1>1. /\ IsFatal(e) => t = [s EXCEPT !.status = "failed", !.terminal = TRUE]
      /\ IsArtifact(e) /\ ~IsFatal(e) => t = s
      /\ ~IsArtifact(e) => ~IsFatal(e)
      /\ ~IsArtifact(e) /\ s.terminal => t = Flag(s, "INV-006")
      /\ ~IsArtifact(e) /\ ~s.terminal =>
            /\ e.type = "user_message" => t = s
            /\ e.type = "agent_message" => t = OnMessage(s, e)
            /\ e.type = "tool_call" => t = OnCall(s, e)
            /\ e.type = "tool_result" => t = OnResult(s, e)
            /\ e.type = "interrupt" => t = OnInterrupt(s, e)
            /\ e.type = "resume" => t = OnResume(s, e)
    BY ReduceIs
<1>2. \A code \in Codes : /\ Flag(s, code) \in States
                          /\ Flag(s, code).pending = s.pending /\ Flag(s, code).index = s.index
    BY FlagIs
<1>3. /\ IsArtifact(e) <=> e.type \in {"error", "compaction"}
      /\ e.type \in {"user_message", "agent_message", "error", "tool_call", "tool_result",
                     "interrupt", "resume", "compaction"}
      /\ e.type \in {"interrupt", "resume"} => e.index \in Nat
    BY EventsAre
<1> HIDE DEF t
<1>4. CASE IsArtifact(e)
    <2>1. t.pending = s.pending /\ t.index = s.index
        BY <1>1, <1>4 DEF States
    <2> QED BY <1>4, <2>1 DEF t
<1>5. CASE ~IsArtifact(e) /\ s.terminal
    <2>1. t.pending = s.pending /\ t.index = s.index
        BY <1>1, <1>2, <1>5 DEF Codes
    <2> QED BY <1>5, <2>1 DEF t
<1>6. CASE ~IsArtifact(e) /\ ~s.terminal /\ e.type \in {"user_message", "agent_message"}
    <2>1. t.pending = s.pending /\ t.index = s.index
        BY <1>1, <1>6 DEF States, OnMessage
    <2> QED BY <1>6, <2>1 DEF t
<1>7. CASE ~IsArtifact(e) /\ ~s.terminal /\ e.type \in {"tool_call", "tool_result"}
    <2>1. CASE e.type = "tool_call"
        <3>1. t \in {Flag(s, "INV-001"), [s EXCEPT !.open = s.open \cup {e.call}]}
            BY <1>1, <1>7, <2>1 DEF OnCall
        <3>2. t.pending = s.pending /\ t.index = s.index
            BY <1>2, <3>1 DEF States, Codes
        <3> QED BY <1>7, <3>2 DEF t
    <2>2. CASE e.type = "tool_result"
        <3>1. t \in {Flag(s, "INV-003"), Flag(s, "INV-002"),
                     [s EXCEPT !.open = s.open \ {e.call},
                               !.closed = s.closed \cup {e.call}]}
            BY <1>1, <1>7, <2>2 DEF OnResult
        <3>2. t.pending = s.pending /\ t.index = s.index
            BY <1>2, <3>1 DEF States, Codes
        <3> QED BY <1>7, <3>2 DEF t
    <2> QED BY <1>7, <2>1, <2>2
<1>8. CASE ~IsArtifact(e) /\ ~s.terminal /\ e.type = "interrupt"
    <2>1. CASE s.pending
        BY <1>1, <1>2, <1>8, <2>1 DEF OnInterrupt, Codes, t
    <2>2. CASE ~s.pending
        <3>1. t = [s EXCEPT !.pending = TRUE, !.index = e.index, !.status = "waiting_human"]
            BY <1>1, <1>8, <2>2 DEF OnInterrupt
        <3>2. t.pending /\ t.index = e.index
            BY <3>1 DEF States
        <3> QED BY <1>8, <2>2, <3>2 DEF t
    <2> QED BY <2>1, <2>2
<1>9. CASE ~IsArtifact(e) /\ ~s.terminal /\ e.type = "resume"
    <2>1. CASE ~s.pending
        BY <1>1, <1>2, <1>9, <2>1 DEF OnResume, Codes, t
    <2>2. CASE s.pending
        <3>1. PICK r \in {s, Flag(s, "INV-007")} :
                  t = [r EXCEPT !.pending = FALSE, !.index = 0,
                                !.status = IF @ = "waiting_human" THEN "running" ELSE @]
            BY <1>1, <1>9, <2>2 DEF OnResume
        <3>2. r \in States
            BY <1>2 DEF Codes
        <3>3. ~t.pending
            BY <3>1, <3>2 DEF States
        <3> QED BY <1>9, <3>3 DEF t
    <2> QED BY <2>1, <2>2
<1> QED BY <1>3, <1>4, <1>5, <1>6, <1>7, <1>8, <1>9

LEMMA TurnFlagsGrow ==
    ASSUME NEW l \in Logs, NEW e \in AllEvents, NEW s, Agrees(l, s), TurnFlags(l, s)
    PROVE  TurnFlags(Append(l, e), Reduce(s, e))
<1> DEFINE m == Append(l, e)
           n == Len(l)
           t == Reduce(s, e)
           IsTurn == ~IsArtifact(e) /\ ~s.terminal /\ e.type \in {"interrupt", "resume"}
<1>1. s \in States /\ (s.terminal <=> ~GoesOn(l))
    BY DEF Agrees
<1>2. t.broken \cap {"INV-004", "INV-005", "INV-007"} = {} <=>
          /\ s.broken \cap {"INV-004", "INV-005", "INV-007"} = {}
          /\ IsTurn /\ e.type = "interrupt" => ~s.pending
          /\ IsTurn /\ e.type = "resume" => s.pending /\ e.index = s.index
    <2>1. e.type \in {"interrupt", "resume"} => ~IsArtifact(e)
        BY EventsAre
    <2> QED BY <1>1, <2>1, BrokenGrows
<1>3. /\ ~IsTurn => t.pending = s.pending /\ t.index = s.index
      /\ IsTurn /\ e.type = "interrupt" =>
            t.pending /\ t.index = IF s.pending THEN s.index ELSE e.index
      /\ IsTurn /\ e.type = "resume" => ~t.pending
    BY <1>1, TurnsReduce
<1>4. /\ n \in Nat /\ Len(m) = n + 1 /\ n + 1 \notin 1..n
      /\ \A i \in 1..n : m[i] = l[i]
      /\ m[n + 1] = e
    BY LogGrows
<1>5. /\ Turns(m) = Turns(l) \cup (IF IsTurn THEN {n + 1} ELSE {})
      /\ Turns(l) \subseteq 1..n
    <2>1. e.type \in {"interrupt", "resume"} => ~IsArtifact(e)
        BY EventsAre
    <2>2. \A type : /\ LiveOfType(m, type) = LiveOfType(l, type) \cup
                          (IF GoesOn(l) /\ e.type = type THEN {n + 1} ELSE {})
                    /\ LiveOfType(l, type) \subseteq 1..n
        BY EarlierAre
    <2> HIDE DEF m, n
    <2>3. LiveOfType(m, "interrupt") = LiveOfType(l, "interrupt") \cup
              (IF GoesOn(l) /\ e.type = "interrupt" THEN {n + 1} ELSE {})
        BY <2>2
    <2>4. LiveOfType(m, "resume") = LiveOfType(l, "resume") \cup
              (IF GoesOn(l) /\ e.type = "resume" THEN {n + 1} ELSE {})
        BY <2>2
    <2> QED BY <1>1, <2>1, <2>2, <2>3, <2>4 DEF Turns
<1>6. IsTurn => e.type \in {"interrupt", "resume"} /\ "interrupt" # "resume"
    OBVIOUS
<1> HIDE DEF m, n, t, IsTurn
<1>7. \A i \in Turns(l) : InTurn(m, i) <=> InTurn(l, i)
    <2> TAKE i \in Turns(l)
    <2>1. i \in 1..n /\ m[i] = l[i] /\ i <= n + 1 /\ ~(n + 1 < i)
        BY <1>4, <1>5
    <2>2. \A j \in Turns(l) : Follows(m, i, j) <=> Follows(l, i, j)
        BY <1>4, <1>5, <2>1 DEF Follows
    <2>3. \A j \in Turns(m) : j \notin Turns(l) => ~Follows(m, i, j)
        BY <1>5, <2>1 DEF Follows
    <2>4. \A j \in Turns(l) : m[j] = l[j] /\ j \in Turns(m)
        BY <1>4, <1>5
    <2> QED BY <2>1, <2>2, <2>3, <2>4 DEF InTurn
<1>8. CASE ~IsTurn
    <2>1. Turns(m) = Turns(l)
        BY <1>5, <1>8
    <2>2. Alternates(m) <=> Alternates(l)
        BY <1>7, <2>1 DEF Alternates
    <2>3. \A j \in Turns(l) : (LastTurn(m, j) <=> LastTurn(l, j)) /\ m[j] = l[j]
        BY <1>4, <1>5, <2>1 DEF LastTurn
    <2> QED BY <1>2, <1>3, <1>8, <2>1, <2>2, <2>3 DEF TurnFlags, m, t
<1>9. CASE IsTurn
    <2>1. /\ Turns(m) = Turns(l) \cup {n + 1} /\ n + 1 \in Turns(m)
          /\ \A j \in Turns(l) : j < n + 1 /\ j <= n + 1 /\ ~(n + 1 <= j) /\ m[j] = l[j]
          /\ ~(n + 1 < n + 1) /\ n + 1 <= n + 1
        BY <1>4, <1>5, <1>9
    <2>2. LastTurn(m, n + 1) /\ \A j \in Turns(l) : ~LastTurn(m, j)
        BY <2>1 DEF LastTurn
    <2>3. /\ \A j \in Turns(l) : Follows(m, n + 1, j) <=> LastTurn(l, j)
          /\ ~Follows(m, n + 1, n + 1)
        BY <2>1 DEF Follows, LastTurn
    <2>4. Alternates(m) <=> Alternates(l) /\ InTurn(m, n + 1)
        BY <1>7, <2>1 DEF Alternates
    <2>5. InTurn(m, n + 1) <=>
              IF e.type = "interrupt"
              THEN \A j \in Turns(l) : LastTurn(l, j) => l[j].type = "resume"
              ELSE \E j \in Turns(l) :
                      LastTurn(l, j) /\ l[j].type = "interrupt" /\ l[j].index = e.index
        BY <1>4, <2>1, <2>3 DEF InTurn
    <2>6. \A j \in Turns(l) : l[j].type \in {"interrupt", "resume"}
        BY DEF Turns, LiveOfType, IsLive
    <2>7. ASSUME Alternates(l)
          PROVE  InTurn(m, n + 1) <=>
                     IF e.type = "interrupt" THEN ~s.pending ELSE s.pending /\ e.index = s.index
        <3>1. CASE e.type = "interrupt"
            BY <2>5, <2>6, <2>7, <3>1 DEF TurnFlags
        <3>2. CASE e.type # "interrupt"
            BY <2>5, <2>6, <2>7, <3>2 DEF TurnFlags
        <3> QED BY <3>1, <3>2
    <2>8. t.broken \cap {"INV-004", "INV-005", "INV-007"} = {} <=> Alternates(m)
        BY <1>2, <1>6, <1>9, <2>4, <2>7 DEF TurnFlags
    <2>9. ASSUME Alternates(m)
          PROVE  /\ t.pending <=> e.type = "interrupt"
                 /\ t.pending => t.index = e.index
        BY <1>3, <1>6, <1>9, <2>4, <2>7, <2>9
    <2> QED BY <1>4, <2>1, <2>2, <2>8, <2>9 DEF TurnFlags, m, t
<1> QED BY <1>8, <1>9

-----------------------------------------------------------------------------
(* The trace *)

\* A turn of the model is a message before the end of the run.
StepFlags(l, s) ==
    /\ IsFiniteSet(Chats(l))
    /\ "INV-006" \notin s.broken => Cardinality(Chats(l)) = s.step

LEMMA StepFlagsGrow ==
    ASSUME NEW l \in Logs, NEW e \in AllEvents, NEW s \in States, StepFlags(l, s)
    PROVE  StepFlags(Append(l, e), Reduce(s, e))
<1> DEFINE m == Append(l, e)
           n == Len(l)
           t == Reduce(s, e)
           span == Span("chat", n + 1, n + 1)
<1>1. /\ n \in Nat /\ Len(m) = n + 1 /\ 1..(n + 1) = 1..n \cup {n + 1}
      /\ \A i \in 1..n : m[i] = l[i]
      /\ m[n + 1] = e
    BY LogGrows
<1>2. /\ IsFatal(e) => t = [s EXCEPT !.status = "failed", !.terminal = TRUE]
      /\ IsArtifact(e) /\ ~IsFatal(e) => t = s
      /\ ~IsArtifact(e) => ~IsFatal(e)
      /\ ~IsArtifact(e) /\ s.terminal => t = Flag(s, "INV-006")
      /\ ~IsArtifact(e) /\ ~s.terminal =>
            /\ e.type = "user_message" => t = s
            /\ e.type = "agent_message" => t = OnMessage(s, e)
            /\ e.type = "tool_call" => t = OnCall(s, e)
            /\ e.type = "tool_result" => t = OnResult(s, e)
            /\ e.type = "interrupt" => t = OnInterrupt(s, e)
            /\ e.type = "resume" => t = OnResume(s, e)
    BY ReduceIs
<1>3. \A code \in Codes : /\ Flag(s, code) \in States
                          /\ Flag(s, code).step = s.step
                          /\ Flag(s, code).broken = s.broken \cup {code}
    BY FlagIs
<1>4. /\ IsArtifact(e) <=> e.type \in {"error", "compaction"}
      /\ e.type \in {"user_message", "agent_message", "error", "tool_call", "tool_result",
                     "interrupt", "resume", "compaction"}
    BY EventsAre
<1>5. /\ s.broken \subseteq t.broken
      /\ "INV-006" \in t.broken <=> "INV-006" \in s.broken \/ (~IsArtifact(e) /\ s.terminal)
    BY BrokenGrows
<1>6. IsFiniteSet(Chats(l)) /\ ("INV-006" \notin s.broken => Cardinality(Chats(l)) = s.step)
    BY DEF StepFlags
<1>7. Chats(m) = IF e.type = "agent_message" THEN Chats(l) \cup {span} ELSE Chats(l)
    <2>1. At(m, "agent_message") = At(l, "agent_message") \cup
                                      (IF e.type = "agent_message" THEN {n + 1} ELSE {})
        BY <1>1 DEF At
    <2> HIDE DEF m, n
    <2> QED BY <2>1 DEF Chats
<1>8. span \notin Chats(l)
    <2>1. \A i \in At(l, "agent_message") : i # n + 1
        BY <1>1 DEF At
    <2> HIDE DEF n
    <2> QED BY <2>1 DEF Chats, Span
<1> HIDE DEF m, n, t, span
<1>9. CASE e.type # "agent_message"
    <2>1. t.step = s.step
        <3>1. CASE IsArtifact(e) \/ s.terminal \/ e.type = "user_message"
            BY <1>2, <1>3, <1>4, <3>1, <1>9 DEF States, Codes
        <3>2. CASE ~IsArtifact(e) /\ ~s.terminal /\ e.type = "tool_call"
            BY <1>2, <1>3, <3>2 DEF OnCall, States, Codes
        <3>3. CASE ~IsArtifact(e) /\ ~s.terminal /\ e.type = "tool_result"
            <4>1. t = IF e.call \in s.closed THEN Flag(s, "INV-003")
                      ELSE IF e.call \in s.open
                      THEN [s EXCEPT !.open = @ \ {e.call}, !.closed = @ \cup {e.call}]
                      ELSE Flag(s, "INV-002")
                BY <1>2, <3>3 DEF OnResult
            <4>2. [s EXCEPT !.open = @ \ {e.call}, !.closed = @ \cup {e.call}].step = s.step
                BY DEF States
            <4> QED BY <1>3, <4>1, <4>2 DEF Codes
        <3>4. CASE ~IsArtifact(e) /\ ~s.terminal /\ e.type = "interrupt"
            BY <1>2, <1>3, <3>4 DEF OnInterrupt, States, Codes
        <3>5. CASE ~IsArtifact(e) /\ ~s.terminal /\ e.type = "resume"
            <4> DEFINE r == IF e.index # s.index THEN Flag(s, "INV-007") ELSE s
            <4>1. r \in States /\ r.step = s.step
                BY <1>3 DEF Codes
            <4>2. t = IF ~s.pending THEN Flag(s, "INV-005")
                      ELSE [r EXCEPT !.pending = FALSE, !.index = 0,
                                     !.status = IF @ = "waiting_human" THEN "running" ELSE @]
                BY <1>2, <3>5 DEF OnResume
            <4> HIDE DEF r
            <4> QED BY <1>3, <4>1, <4>2 DEF States, Codes
        <3> QED BY <1>4, <1>9, <3>1, <3>2, <3>3, <3>4, <3>5
    <2> QED BY <1>5, <1>6, <1>7, <1>9, <2>1 DEF StepFlags, m, t
<1>10. CASE e.type = "agent_message"
    <2>1. /\ IsFiniteSet(Chats(l) \cup {span})
          /\ Cardinality(Chats(l) \cup {span}) = Cardinality(Chats(l)) + 1
        BY <1>6, <1>8, FS_AddElement
    <2>2. ASSUME "INV-006" \notin t.broken
          PROVE  t.step = s.step + 1 /\ "INV-006" \notin s.broken
        <3>1. ~IsArtifact(e) /\ ~s.terminal /\ "INV-006" \notin s.broken
            BY <1>4, <1>5, <1>10, <2>2
        <3> QED BY <1>2, <1>10, <3>1 DEF OnMessage, States
    <2> QED BY <1>6, <1>7, <1>10, <2>1, <2>2 DEF StepFlags, m, t
<1> QED BY <1>9, <1>10

\* The end of a span is 0 as long as nothing ended it.
LEMMA LatestIsZero ==
    ASSUME NEW n \in Nat, NEW R, R \subseteq 1..n
    PROVE  Max({0} \cup R) = 0 <=> R = {}
<1> DEFINE S == {0} \cup R
           G == {n - x : x \in S}
<1>1. \A x \in S : x \in 0..n
    OBVIOUS
<1>2. G \subseteq Nat /\ G # {}
    BY <1>1
<1>3. PICK k \in G : \A g \in G : k <= g
    <2> HIDE DEF G
    <2> QED BY <1>2, LeastPosition
<1>4. PICK x \in S : k = n - x
    BY <1>3
<1>5. \A y \in S : x >= y
    <2>1. \A y \in S : n - x <= n - y
        BY <1>3, <1>4
    <2> QED BY <1>1, <1>4, <2>1
<1>6. Max(S) \in S /\ \A y \in S : Max(S) >= y
    <2> HIDE DEF S
    <2> QED BY <1>4, <1>5 DEF Max
<1>7. R # {} => \E y \in R : y \in 1..n
    OBVIOUS
<1> QED BY <1>1, <1>6, <1>7

\* What is in a trace, by kind.
LEMMA SpansAre ==
    ASSUME NEW l \in Logs
    PROVE  LET trace == build_trace(l)
           IN  /\ OfKind(trace, "chat") = Chats(l)
               /\ OfKind(trace, "execute_tool") = ToolSpans(l)
               /\ OfKind(trace, "human_approval") = HumanApprovals(l)
               /\ OfKind(trace, "error") = {Span("error", i, i) : i \in At(l, "error")}
<1>0. \A kind, i, end : Span(kind, i, end).kind = kind
    BY DEF Span
<1>1. /\ \A s \in Chats(l) : s.kind = "chat"
      /\ \A s \in ToolSpans(l) : s.kind = "execute_tool"
      /\ \A s \in HumanApprovals(l) : s.kind = "human_approval"
    <2>1. \A s \in Chats(l) : \E i, end : s = Span("chat", i, end)
        BY DEF Chats
    <2>2. \A s \in ToolSpans(l) : \E i, end : s = Span("execute_tool", i, end)
        BY DEF ToolSpans
    <2>3. \A s \in HumanApprovals(l) : \E i, end : s = Span("human_approval", i, end)
        BY DEF HumanApprovals
    <2> QED BY <1>0, <2>1, <2>2, <2>3
<1>2. Points(l) = {Span("compaction", i, i) : i \in At(l, "compaction")}
                  \cup {Span("error", i, i) : i \in At(l, "error")}
    BY DEF Points, At
<1>3. /\ \A s \in {Span("compaction", i, i) : i \in At(l, "compaction")} : s.kind = "compaction"
      /\ \A s \in {Span("error", i, i) : i \in At(l, "error")} : s.kind = "error"
    BY DEF Span
<1> QED BY <1>1, <1>2, <1>3 DEF OfKind, build_trace

\* A tool span stands for its call, and has no end while nothing answers it; a
\* wait stands for its interrupt.
LEMMA EndsAre ==
    ASSUME NEW l \in Logs
    PROVE  LET tools == OfKind(build_trace(l), "execute_tool")
               waits == OfKind(build_trace(l), "human_approval")
           IN  /\ \A s \in tools : /\ s.at \in At(l, "tool_call")
                                   /\ s.end = 0 <=> ResultsFor(l, s.at) = {}
               /\ \A i \in At(l, "tool_call") : \E s \in tools : s.at = i
               /\ \A s \in waits : /\ s.at \in At(l, "interrupt")
                                   /\ s.end = 0 <=> ResumesFor(l, s.at) = {}
                                   /\ s = Span("human_approval", s.at, s.end)
               /\ \A i \in At(l, "interrupt") : \E s \in waits : s.at = i
<1>1. Len(l) \in Nat
    BY LenProperties DEF Logs
<1>2. \A i : ResultsFor(l, i) \subseteq 1..Len(l) /\ ResumesFor(l, i) \subseteq 1..Len(l)
    BY DEF ResultsFor, ResumesFor, At
<1>3. ASSUME NEW i
      PROVE  /\ Max({0} \cup ResultsFor(l, i)) = 0 <=> ResultsFor(l, i) = {}
             /\ Max({0} \cup ResumesFor(l, i)) = 0 <=> ResumesFor(l, i) = {}
    BY <1>1, <1>2, LatestIsZero
<1>4. /\ OfKind(build_trace(l), "execute_tool") = ToolSpans(l)
      /\ OfKind(build_trace(l), "human_approval") = HumanApprovals(l)
    BY SpansAre
<1>5. \A kind, i, end : /\ Span(kind, i, end).at = i
                        /\ Span(kind, i, end).end = end
    BY DEF Span
<1>6. /\ \A s \in ToolSpans(l) : /\ s.at \in At(l, "tool_call")
                                 /\ s.end = 0 <=> ResultsFor(l, s.at) = {}
      /\ \A i \in At(l, "tool_call") : \E s \in ToolSpans(l) : s.at = i
    <2>1. \A i \in At(l, "tool_call") :
              Span("execute_tool", i, Max({0} \cup ResultsFor(l, i))) \in ToolSpans(l)
        BY DEF ToolSpans
    <2>2. ASSUME NEW s \in ToolSpans(l)
          PROVE  /\ s.at \in At(l, "tool_call")
                 /\ s.end = 0 <=> ResultsFor(l, s.at) = {}
                 /\ s = Span("execute_tool", s.at, s.end)
        <3>1. PICK i \in At(l, "tool_call") : s = Span("execute_tool", i, Max({0} \cup ResultsFor(l, i)))
            BY DEF ToolSpans
        <3>2. s.at = i /\ s.end = Max({0} \cup ResultsFor(l, i))
            BY <1>5, <3>1
        <3> QED BY <1>3, <3>1, <3>2
    <2>3. ASSUME NEW i \in At(l, "tool_call")
          PROVE  \E s \in ToolSpans(l) : s.at = i
        <3> DEFINE x == Span("execute_tool", i, Max({0} \cup ResultsFor(l, i)))
        <3>1. x \in ToolSpans(l)
            BY <2>1
        <3>2. x.at = i
            BY <1>5
        <3> HIDE DEF x
        <3> QED BY <3>1, <3>2
    <2> QED BY <2>2, <2>3
<1>7. /\ \A s \in HumanApprovals(l) : /\ s.at \in At(l, "interrupt")
                                      /\ s.end = 0 <=> ResumesFor(l, s.at) = {}
                                      /\ s = Span("human_approval", s.at, s.end)
      /\ \A i \in At(l, "interrupt") : \E s \in HumanApprovals(l) : s.at = i
    <2>1. \A i \in At(l, "interrupt") :
              Span("human_approval", i, Max({0} \cup ResumesFor(l, i))) \in HumanApprovals(l)
        BY DEF HumanApprovals
    <2>2. ASSUME NEW s \in HumanApprovals(l)
          PROVE  /\ s.at \in At(l, "interrupt")
                 /\ s.end = 0 <=> ResumesFor(l, s.at) = {}
                 /\ s = Span("human_approval", s.at, s.end)
        <3>1. PICK i \in At(l, "interrupt") : s = Span("human_approval", i, Max({0} \cup ResumesFor(l, i)))
            BY DEF HumanApprovals
        <3>2. s.at = i /\ s.end = Max({0} \cup ResumesFor(l, i))
            BY <1>5, <3>1
        <3> QED BY <1>3, <3>1, <3>2
    <2>3. ASSUME NEW i \in At(l, "interrupt")
          PROVE  \E s \in HumanApprovals(l) : s.at = i
        <3> DEFINE x == Span("human_approval", i, Max({0} \cup ResumesFor(l, i)))
        <3>1. x \in HumanApprovals(l)
            BY <2>1
        <3>2. x.at = i
            BY <1>5
        <3> HIDE DEF x
        <3> QED BY <3>1, <3>2
    <2> QED BY <2>2, <2>3
<1> QED BY <1>4, <1>6, <1>7

\* A log without a broken invariant, by its positions.
Legal(l) ==
    /\ \A i \in 1..Len(l) : ~IsArtifact(l[i]) => Live(l, i)
    /\ \A i \in At(l, "tool_call") : l[i].call \in CallIds
    /\ \A i, j \in At(l, "tool_call") : l[i].call = l[j].call => i = j
    /\ \A j \in At(l, "tool_result") : \E i \in At(l, "tool_call") : i < j /\ l[i].call = l[j].call
    /\ Alternates(l)

LEMMA UnbrokenIsLegal ==
    ASSUME NEW l \in Logs, NEW s, CallFlags(l, s), TurnFlags(l, s), s.broken = {}
    PROVE  Legal(l)
<1>1. Len(l) \in Nat /\ \A i \in 1..Len(l) : l[i] \in AllEvents
    BY LenProperties, ElementOfSeq DEF Logs
<1>2. \A i \in 1..Len(l) : ~IsArtifact(l[i]) => Live(l, i)
    BY DEF CallFlags
<1>3. \A type \in {"tool_call", "tool_result"} : LiveOfType(l, type) = At(l, type)
    <2>1. \A i \in 1..Len(l) : l[i].type \in {"tool_call", "tool_result"} => Live(l, i)
        BY <1>1, <1>2, EventsAre
    <2> QED BY <2>1 DEF LiveOfType, At, IsLive
<1>4. \A type : At(l, type) \subseteq 1..Len(l) /\ \A i \in At(l, type) : l[i].type = type
    BY DEF At
<1>5. \A i \in At(l, "tool_call") : l[i].call \in CallIds /\ Earlier(l, i, "tool_call") = {}
    <2>1. \A i \in At(l, "tool_call") : l[i].call # NoId /\ Earlier(l, i, "tool_call") = {}
        BY <1>3 DEF CallFlags
    <2> QED BY <1>1, <1>4, <2>1, EventsAre
<1>6. ASSUME NEW i \in At(l, "tool_call"), NEW j \in At(l, "tool_call"), l[i].call = l[j].call
      PROVE  i = j
    <2>1. i \notin Earlier(l, j, "tool_call") /\ j \notin Earlier(l, i, "tool_call")
        BY <1>5
    <2>2. ~(i < j) /\ ~(j < i)
        BY <1>3, <1>6, <2>1 DEF Earlier
    <2>3. i \in 1..Len(l) /\ j \in 1..Len(l)
        BY <1>4
    <2> QED BY <1>1, <2>2, <2>3
<1>7. \A j \in At(l, "tool_result") : \E i \in At(l, "tool_call") : i < j /\ l[i].call = l[j].call
    <2>1. \A j \in At(l, "tool_result") : Earlier(l, j, "tool_call") # {}
        BY <1>3 DEF CallFlags
    <2> QED BY <1>3, <2>1 DEF Earlier
<1>8. Alternates(l)
    BY DEF TurnFlags
<1> QED BY <1>2, <1>5, <1>6, <1>7, <1>8 DEF Legal

\* In such a log the span of a call ends when the call is closed.
LEMMA CallSpansEnd ==
    ASSUME NEW l \in Logs, Legal(l)
    PROVE  /\ \A i \in At(l, "tool_call") :
                 /\ l[i].call \in CallIds /\ Called(l, l[i].call)
                 /\ ResultsFor(l, i) = {} <=> ~Closed(l, l[i].call)
           /\ \A c : Called(l, c) => \E i \in At(l, "tool_call") : l[i].call = c
           /\ \A c : Closed(l, c) => Called(l, c)
<1>1. Len(l) \in Nat /\ \A i \in 1..Len(l) : l[i] \in AllEvents
    BY LenProperties, ElementOfSeq DEF Logs
<1>2. /\ \A c, i : IsCall(l, i, c) <=> i \in At(l, "tool_call") /\ l[i].call = c
      /\ \A c, i : IsResult(l, i, c) <=> i \in At(l, "tool_result") /\ l[i].call = c
    <2>1. \A i \in 1..Len(l) : l[i].type \in {"tool_call", "tool_result"} => Live(l, i)
        BY <1>1, EventsAre DEF Legal
    <2> QED BY <2>1 DEF IsCall, IsResult, At
<1>3. \A type : At(l, type) \subseteq 1..Len(l)
    BY DEF At
<1>4. \A c : Called(l, c) <=> \E i \in At(l, "tool_call") : l[i].call = c
    BY <1>2, <1>3 DEF Called
<1>5. \A c : Closed(l, c) =>
          \E j \in At(l, "tool_result") : \E i \in At(l, "tool_call") :
             l[j].call = c /\ l[i].call = c /\ i < j
    BY <1>1, <1>2, <1>3 DEF Closed
<1>6. \A j \in At(l, "tool_result") : \A i \in At(l, "tool_call") :
          i < j /\ l[i].call = l[j].call => Closed(l, l[j].call)
    <2> TAKE j \in At(l, "tool_result")
    <2> TAKE i \in At(l, "tool_call")
    <2> HAVE i < j /\ l[i].call = l[j].call
    <2>1. j \in 1..Len(l) /\ i \in 1..(j - 1)
        BY <1>1, <1>3
    <2> QED BY <1>2, <2>1 DEF Closed
<1>7. ASSUME NEW i \in At(l, "tool_call")
      PROVE  ResultsFor(l, i) = {} <=> ~Closed(l, l[i].call)
    <2>1. ResultsFor(l, i) # {} => Closed(l, l[i].call)
        BY <1>6 DEF ResultsFor
    <2>2. ASSUME Closed(l, l[i].call) PROVE ResultsFor(l, i) # {}
        <3>1. PICK j \in At(l, "tool_result") : \E h \in At(l, "tool_call") :
                  l[j].call = l[i].call /\ l[h].call = l[i].call /\ h < j
            BY <1>5, <2>2
        <3>2. PICK h \in At(l, "tool_call") : l[j].call = l[i].call /\ l[h].call = l[i].call /\ h < j
            BY <3>1
        <3>3. i < j
            BY <3>2 DEF Legal
        <3>4. \A k \in At(l, "tool_call") \cap (i + 1)..j : l[k].call # l[i].call
            <4>1. \A k \in At(l, "tool_call") : l[k].call = l[i].call => k = i
                BY DEF Legal
            <4>2. i \notin (i + 1)..j
                BY <1>1, <1>3
            <4> QED BY <4>1, <4>2
        <3>5. j \in ResultsFor(l, i)
            BY <3>2, <3>3, <3>4 DEF ResultsFor
        <3> QED BY <3>5
    <2> QED BY <2>1, <2>2
<1>8. \A c : Closed(l, c) => Called(l, c)
    BY <1>4, <1>5
<1> QED BY <1>4, <1>7, <1>8 DEF Legal

\* A wait has no end exactly when nothing came after its interrupt.
LEMMA WaitsEnd ==
    ASSUME NEW l \in Logs, Legal(l)
    PROVE  /\ At(l, "interrupt") \subseteq Turns(l)
           /\ \A i \in Turns(l) : l[i].type = "interrupt" => i \in At(l, "interrupt")
           /\ \A i \in At(l, "interrupt") : ResumesFor(l, i) = {} <=> LastTurn(l, i)
<1>1. Len(l) \in Nat /\ \A i \in 1..Len(l) : l[i] \in AllEvents
    BY LenProperties, ElementOfSeq DEF Logs
<1>2. /\ Turns(l) = At(l, "interrupt") \cup At(l, "resume")
      /\ \A type : At(l, type) \subseteq 1..Len(l) /\ \A i \in At(l, type) : l[i].type = type
    <2>1. \A i \in 1..Len(l) : l[i].type \in {"interrupt", "resume"} => Live(l, i)
        BY <1>1, EventsAre DEF Legal
    <2> QED BY <2>1 DEF Turns, LiveOfType, IsLive, At
<1>3. \A i \in Turns(l) : i \in 1..Len(l)
    BY <1>2
<1>4. \A i \in Turns(l) : (l[i].type = "interrupt" /\ i \in At(l, "interrupt"))
                          \/ (l[i].type = "resume" /\ i \in At(l, "resume"))
    BY <1>2
<1>5. ASSUME NEW i \in At(l, "interrupt"), LastTurn(l, i)
      PROVE  ResumesFor(l, i) = {}
    <2>1. \A j \in At(l, "resume") : ~(i < j)
        <3>1. \A j \in At(l, "resume") : j <= i
            BY <1>2, <1>5 DEF LastTurn
        <3> QED BY <1>1, <1>2, <3>1
    <2> QED BY <2>1 DEF ResumesFor
<1>6. ASSUME NEW i \in At(l, "interrupt"), ~LastTurn(l, i)
      PROVE  ResumesFor(l, i) # {}
    <2>1. i \in Turns(l) /\ i \in 1..Len(l)
        BY <1>2
    <2> DEFINE S == {k \in Turns(l) : i < k}
    <2>2. S # {}
        <3>1. PICK k \in Turns(l) : ~(k <= i)
            BY <1>6, <2>1 DEF LastTurn
        <3>2. i < k
            BY <1>1, <1>3, <2>1, <3>1
        <3> QED BY <3>2
    <2>3. S \subseteq Nat
        BY <1>1, <1>3
    <2>4. PICK j \in S : \A k \in S : j <= k
        <3> HIDE DEF S
        <3> QED BY <2>2, <2>3, LeastPosition
    <2>5. j \in Turns(l) /\ i < j /\ j \in 1..Len(l)
        BY <1>3
    <2>6. \A k \in Turns(l) : k <= i \/ j <= k
        <3>1. \A k \in Turns(l) : k <= i \/ i < k
            BY <1>1, <1>3, <2>1
        <3> QED BY <2>4, <3>1
    <2>7. Follows(l, j, i)
        BY <2>5, <2>6 DEF Follows
    <2>8. InTurn(l, j)
        BY <2>5 DEF Legal, Alternates
    <2>9. l[i].type = "interrupt"
        BY <1>2
    <2>10. l[j].type = "resume" /\ j \in At(l, "resume")
        <3>1. l[j].type # "interrupt"
            BY <2>1, <2>7, <2>8, <2>9 DEF InTurn
        <3> QED BY <1>4, <2>5, <3>1
    <2>11. PICK h \in Turns(l) : Follows(l, j, h) /\ l[h].index = l[j].index
        BY <2>8, <2>10 DEF InTurn
    <2>12. h = i
        <3>1. h < j /\ (i <= h \/ j <= i) /\ (h <= i \/ j <= h)
            BY <2>1, <2>7, <2>11 DEF Follows
        <3> QED BY <1>1, <1>3, <2>1, <2>5, <3>1
    <2>13. \A k \in At(l, "interrupt") \cap (i + 1)..j : FALSE
        <3> SUFFICES ASSUME NEW k \in At(l, "interrupt"), k \in (i + 1)..j PROVE FALSE
            OBVIOUS
        <3>1. k \in Turns(l) /\ l[k].type = "interrupt"
            BY <1>2
        <3>2. k = j
            BY <1>1, <1>3, <2>1, <2>5, <2>6, <3>1
        <3> QED BY <2>10, <3>1, <3>2
    <2>14. j \in ResumesFor(l, i)
        BY <2>5, <2>10, <2>11, <2>12, <2>13 DEF ResumesFor
    <2> QED BY <2>14
<1> QED BY <1>2, <1>4, <1>5, <1>6

-----------------------------------------------------------------------------
(* The theorems *)

FoldInv ==
    /\ log \in Logs
    /\ Agrees(log, Folded(log))
    /\ CallFlags(log, Folded(log))
    /\ ApprovalFlags(log, Folded(log))
    /\ TurnFlags(log, Folded(log))
    /\ StepFlags(log, Folded(log))
    /\ LooksBack(log)

LEMMA FoldStarts == Init => FoldInv
<1> SUFFICES ASSUME Init PROVE FoldInv
    OBVIOUS
<1>1. log = <<>> /\ Len(log) = 0 /\ 1..Len(log) = {} /\ log \in Logs
    BY DEF Init, Logs
<1>2. Folded(log) = Fresh /\ Fresh \in States
    BY <1>1, FoldedStarts DEF Fresh, States, RunStatuses
<1>3. /\ GoesOn(log) /\ PendingInterrupts(log) = {}
      /\ \A c : ~Called(log, c) /\ ~Closed(log, c)
      /\ ~(\E i \in 1..Len(log) : IsFatal(log[i])) /\ ~(\E i \in 1..Len(log) : IsFinal(log[i]))
    BY <1>1 DEF GoesOn, PendingInterrupts, Called, Closed
<1>4. RunStatus(log) = "running" /\ ~HasPending(log)
    BY <1>3 DEF RunStatus, HasPending
<1>5. Agrees(log, Fresh)
    BY <1>2, <1>3, <1>4 DEF Agrees, Open, Fresh
<1>6. \A type : LiveOfType(log, type) = {}
    BY <1>1 DEF LiveOfType
<1>7. CallFlags(log, Fresh)
    BY <1>1, <1>6 DEF CallFlags, Fresh
<1>8. TurnFlags(log, Fresh)
    BY <1>6 DEF TurnFlags, Turns, Alternates, Fresh
<1>11. ApprovalFlags(log, Fresh)
    BY <1>6 DEF ApprovalFlags, Fresh
<1>9. StepFlags(log, Fresh)
    <2>1. Chats(log) = {}
        BY <1>1 DEF Chats, At
    <2> QED BY <2>1, FS_EmptySet DEF StepFlags, Fresh
<1>10. LooksBack(log)
    BY <1>1 DEF LooksBack, CompactionsOf
<1> QED BY <1>1, <1>2, <1>5, <1>7, <1>8, <1>9, <1>10, <1>11 DEF FoldInv

LEMMA FoldKeeps == FoldInv /\ [Next]_log => FoldInv'
<1> SUFFICES ASSUME FoldInv, [Next]_log PROVE FoldInv'
    OBVIOUS
<1>1. log \in Logs
    BY DEF FoldInv
<1>2. Victims(log, Keep) \in SUBSET Nat /\ Victims(log, Keep) \subseteq 1..Len(log)
    <2>1. TreeNodes(log) \subseteq 1..Len(log) /\ Len(log) \in Nat
        BY <1>1, LenProperties DEF TreeNodes, Logs
    <2>2. \A g \in WholeGroups(log) : g \subseteq TreeNodes(log)
        BY DEF WholeGroups, iter_groups
    <2>3. Victims(log, Keep) \subseteq TreeNodes(log)
        BY <2>2 DEF Victims
    <2> QED BY <2>1, <2>3
<1>3. CASE log' = log
    BY <1>3 DEF FoldInv
<1>4. ASSUME NEW e \in AllEvents, log' = Append(log, e),
             e.type = "compaction" => e.replaces \subseteq 1..Len(log)
      PROVE  FoldInv'
    <2>1. log' \in Logs /\ Folded(log') = Reduce(Folded(log), e)
        BY <1>1, <1>4, LogGrows, FoldedGrows
    <2>2. Agrees(log', Folded(log'))
        BY <1>4, <2>1, AgreementGrows DEF FoldInv
    <2>3. CallFlags(log', Folded(log'))
        BY <1>4, <2>1, CallFlagsGrow DEF FoldInv
    <2>4. TurnFlags(log', Folded(log'))
        BY <1>4, <2>1, TurnFlagsGrow DEF FoldInv
    <2>5. StepFlags(log', Folded(log'))
        BY <1>1, <1>4, <2>1, StepFlagsGrow DEF FoldInv, Agrees
    <2>6. LooksBack(log')
        <3> DEFINE m == log'
                   n == Len(log)
        <3>1. /\ n \in Nat /\ Len(m) = n + 1 /\ m[n + 1] = e
              /\ \A i \in 1..n : m[i] = log[i]
            BY <1>1, <1>4, AppendProperties, LenProperties DEF Logs
        <3> HIDE DEF m
        <3>2. ASSUME NEW c \in CompactionsOf(m)
              PROVE  m[c].replaces \subseteq 1..(c - 1)
            <4>1. c \in 1..n \/ c = n + 1
                BY <3>1 DEF CompactionsOf
            <4>2. CASE c \in 1..n
                BY <3>1, <4>2 DEF CompactionsOf, LooksBack, FoldInv
            <4>3. CASE c = n + 1
                <5>1. e.type = "compaction" /\ m[c] = e /\ c - 1 = n
                    BY <3>1, <4>3 DEF CompactionsOf
                <5> QED BY <1>4, <5>1
            <4> QED BY <4>1, <4>2, <4>3
        <3> QED BY <3>2 DEF LooksBack, m
    <2>7. ApprovalFlags(log', Folded(log'))
        BY <1>1, <1>4, <2>1, ApprovalFlagsGrow DEF FoldInv
    <2> QED BY <2>1, <2>2, <2>3, <2>4, <2>5, <2>6, <2>7 DEF FoldInv
<1>5. ASSUME NEW e \in Events
      PROVE  e \in AllEvents /\ e.type # "compaction"
    BY DEF Events, AllEvents, UserMessage, AgentMessage, ErrorEvent, CallEvent, ResultEvent,
           InterruptEvent, ResumeEvent
<1>6. ASSUME NEW e \in Events, append(e) PROVE FoldInv'
    BY <1>4, <1>5, <1>6 DEF append
<1>7. ASSUME compact PROVE FoldInv'
    <2> DEFINE e == CompactionEvent(Victims(log, Keep))
    <2>1. e \in AllEvents /\ e.replaces = Victims(log, Keep)
        BY <1>2 DEF AllEvents, CompactionEvent
    <2>2. log' = Append(log, e)
        BY <1>7 DEF compact, append
    <2> HIDE DEF e
    <2> QED BY <1>2, <1>4, <2>1, <2>2
<1> QED BY <1>3, <1>6, <1>7 DEF Next

\* The fold of a log of any length is what its positions say: which calls are
\* open and which closed, what is pending, and the status of the run.
THEOREM FoldIsTheLog == Spec => []FoldAgreesWithLog
<1>1. FoldInv => FoldAgreesWithLog
    <2> SUFFICES ASSUME FoldInv PROVE FoldAgreesWithLog
        OBVIOUS
    <2>1. Agrees(log, Folded(log))
        BY DEF FoldInv
    <2> DEFINE s == Folded(log)
               r == reduce_events(log)
    <2>2. s \in States /\ r \in {s, Flag(s, "INV-006")}
        BY <2>1 DEF reduce_events, Agrees
    <2>3. /\ r.status = s.status /\ r.open = s.open /\ r.closed = s.closed
          /\ r.pending = s.pending /\ r.index = s.index /\ s.pending \in BOOLEAN
        BY <2>2, FlagIs DEF Codes, States
    <2>4. HasPending(log) \in BOOLEAN
        BY DEF HasPending
    <2> HIDE DEF s, r
    <2>5. /\ s.open = {c \in CallIds : Open(log, c)}
          /\ s.closed = {c \in CallIds : Closed(log, c)}
          /\ s.pending <=> HasPending(log)
          /\ s.pending => s.index = Pending(log).index
          /\ s.status = RunStatus(log)
        BY <2>1 DEF Agrees, s
    <2>6. s.pending = HasPending(log)
        BY <2>3, <2>4, <2>5
    <2> QED BY <2>3, <2>5, <2>6 DEF FoldAgreesWithLog, r
<1> QED BY <1>1, FoldStarts, FoldKeeps, PTL DEF Spec

\* Each of the seven codes is given to exactly the logs it names, whatever the
\* order of their events and however long they are.
THEOREM CodesAreExact == Spec => []InvariantsAreExact
<1>1. FoldInv => InvariantsAreExact
    <2> SUFFICES ASSUME FoldInv PROVE InvariantsAreExact
        OBVIOUS
    <2> DEFINE s == Folded(log)
               r == reduce_events(log)
               ends == s.status = "completed" /\ s.open # {}
    <2>1. Agrees(log, s) /\ CallFlags(log, s) /\ ApprovalFlags(log, s)
        BY DEF FoldInv
    <2>2. r.broken = IF ends THEN s.broken \cup {"INV-006"} ELSE s.broken
        BY <2>1, FlagIs DEF reduce_events, Agrees, Codes
    <2>3. ends <=> RunStatus(log) = "completed" /\ OpenCalls(log) \ {NoId} # {}
        <3>1. \A c \in OpenCalls(log) \ {NoId} : c \in CallIds /\ Open(log, c)
            <4>1. \A i \in 1..Len(log) : log[i].type = "tool_call" =>
                      log[i].call \in CallIds \cup {NoId}
                BY EventsAre, ElementOfSeq DEF FoldInv, Logs
            <4> QED BY <4>1 DEF OpenCalls
        <3>2. \A c \in CallIds : Open(log, c) => c \in OpenCalls(log) \ {NoId}
            BY NoIdIsNoCall DEF OpenCalls, Open, Called, IsCall
        <3> QED BY <2>1, <3>1, <3>2 DEF Agrees
    <2>4. \A type : LiveOf(type) = LiveOfType(log, type)
        BY DEF LiveOf, LiveOfType
    <2> HIDE DEF s, r, ends
    <2>5. CallInvariantsExact
        BY <2>1, <2>2, <2>3, <2>4 DEF CallInvariantsExact, CallFlags, Earlier, r
    <2>6. ApprovalInvariantsExact
        <3>1. \A code \in {"INV-004", "INV-005", "INV-007"} :
                  code \in r.broken <=> code \in s.broken
            BY <2>2
        <3> QED BY <2>1, <2>4, <3>1 DEF ApprovalInvariantsExact, ApprovalFlags, r
    <2> QED BY <2>5, <2>6 DEF InvariantsAreExact
<1> QED BY <1>1, FoldStarts, FoldKeeps, PTL DEF Spec

\* A trace of a log that breaks no invariant tells of the same open and recorded
\* calls, the same wait for a human, turns and failure as the fold
\* (trace.py 1-8).
THEOREM TraceIsTheState == Spec => []TraceAgreesWithState
<1>1. FoldInv => TraceAgreesWithState
    <2> DEFINE s == Folded(log)
               r == reduce_events(log)
               trace == build_trace(log)
               tools == OfKind(trace, "execute_tool")
               waits == Unended(trace, "human_approval")
    <2> SUFFICES ASSUME FoldInv, r.broken = {}
                 PROVE  /\ {log[t.at].call : t \in Unended(trace, "execute_tool")} = r.open
                        /\ {log[t.at].call : t \in tools} = r.open \cup r.closed
                        /\ {log[t.at].index : t \in waits} = IF r.pending THEN {r.index} ELSE {}
                        /\ Cardinality(waits) <= 1
                        /\ Cardinality(OfKind(trace, "chat")) = r.step
                        /\ (\E t \in OfKind(trace, "error") : log[t.at].fatal) <=> r.status = "failed"
        BY DEF TraceAgreesWithState
    <2>1. /\ log \in Logs /\ Agrees(log, s) /\ CallFlags(log, s)
          /\ TurnFlags(log, s) /\ StepFlags(log, s)
        BY DEF FoldInv
    <2>2. s \in States /\ r \in {s, Flag(s, "INV-006")}
        BY <2>1 DEF reduce_events, Agrees
    <2>3. r = s
        BY <2>2, FlagIs DEF Codes
    <2>4. /\ s.broken = {} /\ s.pending \in BOOLEAN
          /\ s.open = {c \in CallIds : Open(log, c)}
          /\ s.closed = {c \in CallIds : Closed(log, c)}
          /\ s.status = RunStatus(log)
        BY <2>1, <2>2, <2>3 DEF Agrees, States
    <2> HIDE DEF s, r
    <2>5. Legal(log)
        BY <2>1, <2>4, UnbrokenIsLegal
    <2>6. /\ \A t \in tools : /\ t.at \in At(log, "tool_call")
                              /\ t.end = 0 <=> ResultsFor(log, t.at) = {}
          /\ \A i \in At(log, "tool_call") : \E t \in tools : t.at = i
        BY <2>1, EndsAre
    <2>7. /\ \A i \in At(log, "tool_call") :
                /\ log[i].call \in CallIds /\ Called(log, log[i].call)
                /\ ResultsFor(log, i) = {} <=> ~Closed(log, log[i].call)
          /\ \A c : Called(log, c) => \E i \in At(log, "tool_call") : log[i].call = c
          /\ \A c : Closed(log, c) => Called(log, c)
        BY <2>1, <2>5, CallSpansEnd
    <2>8. {log[t.at].call : t \in tools} = s.open \cup s.closed
        <3>1. s.open \cup s.closed = {c \in CallIds : Called(log, c)}
            BY <2>4, <2>7 DEF Open
        <3>2. \A t \in tools : log[t.at].call \in {c \in CallIds : Called(log, c)}
            BY <2>6, <2>7
        <3>3. \A c \in CallIds : Called(log, c) => \E t \in tools : log[t.at].call = c
            BY <2>6, <2>7
        <3> HIDE DEF tools
        <3> QED BY <3>1, <3>2, <3>3
    <2>9. {log[t.at].call : t \in Unended(trace, "execute_tool")} = s.open
        <3>1. Unended(trace, "execute_tool") = {t \in tools : t.end = 0}
            BY DEF Unended
        <3>2. \A t \in tools : t.end = 0 => log[t.at].call \in s.open
            BY <2>4, <2>6, <2>7 DEF Open
        <3>3. \A c \in s.open : \E t \in tools : t.end = 0 /\ log[t.at].call = c
            BY <2>4, <2>6, <2>7 DEF Open
        <3> HIDE DEF tools
        <3> QED BY <3>1, <3>2, <3>3
    <2>10. /\ \A t \in waits : /\ t.at \in At(log, "interrupt") /\ LastTurn(log, t.at)
                               /\ t = Span("human_approval", t.at, 0)
           /\ \A i \in At(log, "interrupt") : LastTurn(log, i) => \E t \in waits : t.at = i
        <3>1. waits = {t \in OfKind(trace, "human_approval") : t.end = 0}
            BY DEF Unended
        <3>2. /\ \A t \in OfKind(trace, "human_approval") :
                    /\ t.at \in At(log, "interrupt")
                    /\ t.end = 0 <=> ResumesFor(log, t.at) = {}
                    /\ t = Span("human_approval", t.at, t.end)
              /\ \A i \in At(log, "interrupt") :
                    \E t \in OfKind(trace, "human_approval") : t.at = i
            BY <2>1, EndsAre
        <3>3. \A i \in At(log, "interrupt") : ResumesFor(log, i) = {} <=> LastTurn(log, i)
            BY <2>1, <2>5, WaitsEnd
        <3> HIDE DEF waits, trace
        <3>4. \A t \in waits : t.end = 0
            BY <3>1
        <3> QED BY <3>1, <3>2, <3>3, <3>4
    <2> HIDE DEF waits
    <2>11. \A i, j : LastTurn(log, i) /\ LastTurn(log, j) => i = j
        <3>1. Turns(log) \subseteq Nat
            BY <2>1, LenProperties DEF Turns, LiveOfType, Logs
        <3> QED BY <3>1 DEF LastTurn
    <2>12. Cardinality(waits) <= 1
        <3>1. \A t, u \in waits : t = u
            BY <2>10, <2>11
        <3>2. CASE waits = {}
            BY <3>2, FS_EmptySet
        <3>3. CASE waits # {}
            <4>1. PICK t \in waits : waits = {t}
                BY <3>1, <3>3
            <4> QED BY <4>1, FS_Singleton
        <3> QED BY <3>2, <3>3
    <2>13. {log[t.at].index : t \in waits} = IF s.pending THEN {s.index} ELSE {}
        <3>1. /\ s.pending => \E j \in Turns(log) : LastTurn(log, j)
              /\ \A j \in Turns(log) : LastTurn(log, j) =>
                    /\ s.pending <=> log[j].type = "interrupt"
                    /\ s.pending => s.index = log[j].index
            BY <2>1, <2>5 DEF TurnFlags, Legal
        <3>2. /\ At(log, "interrupt") \subseteq Turns(log)
              /\ \A i \in Turns(log) : log[i].type = "interrupt" => i \in At(log, "interrupt")
              /\ \A i \in At(log, "interrupt") : log[i].type = "interrupt"
            BY <2>1, <2>5, WaitsEnd DEF At
        <3>3. \A t \in waits : s.pending /\ log[t.at].index = s.index
            BY <2>10, <3>1, <3>2
        <3>4. s.pending => waits # {}
            BY <2>10, <3>1, <3>2
        <3> QED BY <2>4, <3>3, <3>4
    <2>14. Cardinality(OfKind(trace, "chat")) = s.step
        <3>1. OfKind(trace, "chat") = Chats(log)
            BY <2>1, SpansAre
        <3> QED BY <2>1, <2>4, <3>1 DEF StepFlags
    <2>15. (\E t \in OfKind(trace, "error") : log[t.at].fatal) <=> s.status = "failed"
        <3>1. OfKind(trace, "error") = {Span("error", i, i) : i \in At(log, "error")}
            BY <2>1, SpansAre
        <3>2. \A i : Span("error", i, i).at = i
            BY DEF Span
        <3>3. (\E t \in OfKind(trace, "error") : log[t.at].fatal)
                 <=> \E i \in 1..Len(log) : IsFatal(log[i])
            BY <3>1, <3>2 DEF IsFatal, At
        <3>4. RunStatus(log) = "failed" <=> \E i \in 1..Len(log) : IsFatal(log[i])
            BY DEF RunStatus
        <3> QED BY <2>4, <3>3, <3>4
    <2> QED BY <2>3, <2>8, <2>9, <2>12, <2>13, <2>14, <2>15
<1> QED BY <1>1, FoldStarts, FoldKeeps, PTL DEF Spec

\* Whatever a log holds, a request made of it never carries a call without its
\* result or a result without its call, and names what it leaves out
\* (context.py 3-11).
THEOREM RequestsArePaired == Spec => []ViewIsPaired
<1>1. FoldInv => ViewIsPaired
    <2> SUFFICES ASSUME FoldInv PROVE ViewIsPaired
        OBVIOUS
    <2>1. Len(log) \in Nat
        BY LenProperties DEF FoldInv, Logs
    <2> QED BY <2>1, AnyViewIsPaired DEF ViewIsPaired
<1> QED BY <1>1, FoldStarts, FoldKeeps, PTL DEF Spec

\* The blocks of a request up to a message are a prefix of every later request
\* that no compaction came before, however the log goes on (context.py 16-21).
THEOREM PrefixIsStable == Spec => []HistoryIsAppendOnly
<1>1. FoldInv => HistoryIsAppendOnly
    <2> SUFFICES ASSUME FoldInv PROVE HistoryIsAppendOnly
        OBVIOUS
    <2>1. Len(log) \in Nat /\ LooksBack(log)
        BY LenProperties DEF FoldInv, Logs
    <2> QED BY <2>1, AnyViewIsAppendOnly DEF HistoryIsAppendOnly
<1> QED BY <1>1, FoldStarts, FoldKeeps, PTL DEF Spec

=============================================================================
