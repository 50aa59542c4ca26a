----------------------------- MODULE ViewProofs -----------------------------
(***************************************************************************)
(* Proofs about ContextView: what the model is shown of a log, for a log   *)
(* of any length and any events.                                           *)
(*                                                                         *)
(* _render_history is followed event by event.  After n events everything  *)
(* kept of them is shown, held back or dropped (Accounted), what is held   *)
(* back is a batch of calls and at most one result of each (HeldBack), and *)
(* what is shown is paired (PairedBlocks).  No step takes a block back     *)
(* (GoesOnAs), and a message leaves nothing held back, which is why the    *)
(* view up to a message is a prefix of every later one.  Where every call  *)
(* of the log has one result, before the next message (IsPairedLog), and   *)
(* both are replaced or neither is (ReplacesPairs), nothing is dropped.    *)
(***************************************************************************)
EXTENDS ContextView, FiniteSetTheorems, SequenceTheorems, WellFoundedInduction, TLAPS

LEMMA LeastPosition ==
    ASSUME NEW S, S \subseteq Nat, S # {}
    PROVE  \E n \in S : \A m \in S : n <= m
<1>1. PICK n \in S : \A m \in S : ~(<<m, n>> \in OpToRel(<, Nat))
    BY NatLessThanWellFounded, WFMin
<1>2. \A m \in S : ~(m < n)
    BY <1>1 DEF OpToRel
<1> QED BY <1>2

-----------------------------------------------------------------------------
(* The view takes in what is kept, one event after the other *)

\* The states after the first events of a log: what _render_history flushes the
\* last of.
TakenIn(l, r, i) == IF i \in Kept(l) THEN ShowEvent(l, r, i) ELSE r

IsRender(f, l, n) == f = [i \in 0..n |-> IF i = 0 THEN Blank ELSE TakenIn(l, f[i - 1], i)]

LEMMA RenderExists ==
    ASSUME NEW l, NEW n \in Nat
    PROVE  \E f : IsRender(f, l, n)
<1> DEFINE Without == {k \in Nat : ~\E f : IsRender(f, l, k)}
<1>1. SUFFICES ASSUME n \in Without PROVE FALSE
    OBVIOUS
<1>2. PICK k \in Without : \A j \in Without : k <= j
    <2>1. Without \subseteq Nat
        OBVIOUS
    <2> HIDE DEF Without
    <2> QED BY <1>1, <2>1, LeastPosition
<1>3. k # 0
    <2>1. IsRender([i \in 0..0 |-> Blank], l, 0)
        BY DEF IsRender
    <2> QED BY <2>1
<1>4. PICK f : IsRender(f, l, k - 1)
    <2>1. k - 1 \in Nat /\ ~(k <= k - 1)
        BY <1>3
    <2> QED BY <1>2, <2>1
<1> DEFINE g == [i \in 0..k |-> IF i = k THEN TakenIn(l, f[k - 1], k) ELSE f[i]]
<1>5. \A i \in 0..k : g[i] = IF i = 0 THEN Blank ELSE TakenIn(l, g[i - 1], i)
    <2>1. \A i \in 0..(k - 1) : f[i] = IF i = 0 THEN Blank ELSE TakenIn(l, f[i - 1], i)
        BY <1>4 DEF IsRender
    <2>2. \A i \in 0..k : g[i] = IF i = k THEN TakenIn(l, f[k - 1], k) ELSE f[i]
        OBVIOUS
    <2> HIDE DEF g
    <2>3. TAKE i \in 0..k
    <2>4. CASE i = k
        <3>1. k - 1 \in 0..k /\ k - 1 # k /\ k # 0
            BY <1>3
        <3> QED BY <2>2, <2>4, <3>1
    <2>5. CASE i # k
        <3>1. i \in 0..(k - 1) /\ (i # 0 => i - 1 \in 0..k /\ i - 1 # k)
            BY <2>5
        <3> QED BY <2>1, <2>2, <2>5, <3>1
    <2> QED BY <2>4, <2>5
<1>6. IsRender(g, l, k)
    <2>1. g = [i \in 0..k |-> g[i]]
        OBVIOUS
    <2> HIDE DEF g
    <2> QED BY <1>5, <2>1 DEF IsRender
<1> HIDE DEF g
<1> QED BY <1>2, <1>6

LEMMA RenderedIs ==
    ASSUME NEW l, Len(l) \in Nat
    PROVE  \E f : IsRender(f, l, Len(l)) /\ _render_history(l) = flush(l, f[Len(l)])
<1> DEFINE f == CHOOSE g : IsRender(g, l, Len(l))
<1>1. IsRender(f, l, Len(l))
    BY RenderExists
<1>2. _render_history(l) = flush(l, f[Len(l)])
    BY DEF _render_history, IsRender, TakenIn
<1> HIDE DEF f
<1> QED BY <1>1, <1>2

LEMMA RenderStep ==
    ASSUME NEW l, NEW n \in Nat, NEW f, IsRender(f, l, n)
    PROVE  f[0] = Blank /\ \A i \in 1..n : f[i] = TakenIn(l, f[i - 1], i)
<1>1. \A i \in 0..n : f[i] = IF i = 0 THEN Blank ELSE TakenIn(l, f[i - 1], i)
    BY DEF IsRender
<1> QED BY <1>1

-----------------------------------------------------------------------------
(* What has been taken in is shown, held back or dropped *)

ViewCodes == {"VIEW-BATCH-ATOMICITY", "VIEW-OBSERVATION-UNIQUENESS", "VIEW-PAIRING"}

Renders ==
    [shown : Seq(Seq(Nat)), batch : Seq(Nat), results : Seq(Nat),
     dropped : SUBSET Nat, broken : SUBSET ViewCodes]

Held(r) == Range(r.batch) \cup Range(r.results)

\* A list of blocks goes on where another ends.
GoesOnAs(u, w) == Len(u) <= Len(w) /\ \A k \in 1..Len(u) : w[k] = u[k]

\* A call comes before a result of it, and a result after a call.
PairedBlocks(l, u) ==
    \A k \in 1..Len(u) : \A i \in Range(u[k]) :
        /\ l[i].type = "tool_call" =>
              \E m \in (k + 1)..Len(u) : \E j \in Range(u[m]) :
                 l[j].type = "tool_result" /\ l[j].call = l[i].call
        /\ l[i].type = "tool_result" =>
              \E m \in 1..(k - 1) : \E j \in Range(u[m]) :
                 l[j].type = "tool_call" /\ l[j].call = l[i].call

ShownOnce(u) ==
    \A k, m \in 1..Len(u) : \A i : i \in Range(u[k]) /\ i \in Range(u[m]) => k = m

HeldBack(l, r) ==
    /\ \A i \in Range(r.batch) : l[i].type = "tool_call"
    /\ \A j, k \in 1..Len(r.batch) : r.batch[j] = r.batch[k] => j = k
    /\ \A i \in Range(r.results) : l[i].type = "tool_result" /\ l[i].call \in IdsOf(l, r.batch)
    /\ \A i, j \in Range(r.results) : l[i].call = l[j].call => i = j

Accounted(l, n, r) ==
    /\ \A i : i \in ShownIn(r) \cup Held(r) \cup r.dropped <=> i \in Kept(l) /\ i <= n
    /\ ShownIn(r) \cap Held(r) = {}
    /\ ShownIn(r) \cap r.dropped = {}
    /\ Held(r) \cap r.dropped = {}
    /\ r.dropped # {} => r.broken # {}

Rendering(l, n, r) ==
    /\ r \in Renders
    /\ Accounted(l, n, r)
    /\ HeldBack(l, r)
    /\ PairedBlocks(l, r.shown)
    /\ NoCallTwice(l) => ShownOnce(r.shown)

LEMMA RangeIs ==
    ASSUME NEW S
    PROVE  /\ \A s \in Seq(S) : /\ Range(s) = {s[k] : k \in 1..Len(s)}
                                /\ DOMAIN s = 1..Len(s) /\ Len(s) \in Nat
           /\ \A s \in Seq(S), x \in S : Range(Append(s, x)) = Range(s) \cup {x}
           /\ \A x : Range(<<x>>) = {x}
           /\ Range(<<>>) = {}
<1>1. \A s \in Seq(S) : /\ Range(s) = {s[k] : k \in 1..Len(s)}
                        /\ DOMAIN s = 1..Len(s) /\ Len(s) \in Nat
    BY DEF Range
<1>2. ASSUME NEW s \in Seq(S), NEW x \in S
      PROVE  Range(Append(s, x)) = Range(s) \cup {x}
    <2>1. /\ Append(s, x) \in Seq(S) /\ Len(Append(s, x)) = Len(s) + 1
          /\ \A k \in 1..Len(s) : Append(s, x)[k] = s[k]
          /\ Append(s, x)[Len(s) + 1] = x
        BY AppendProperties
    <2>2. 1..(Len(s) + 1) = 1..Len(s) \cup {Len(s) + 1}
        BY <1>1
    <2>3. Range(Append(s, x)) = {Append(s, x)[k] : k \in 1..(Len(s) + 1)}
        BY <1>1, <2>1
    <2> HIDE DEF Range
    <2> DEFINE a == Append(s, x)
    <2> HIDE DEF a
    <2>4. Range(a) = {a[k] : k \in 1..Len(s)} \cup {a[Len(s) + 1]}
        BY <2>2, <2>3 DEF a
    <2>5. {a[k] : k \in 1..Len(s)} = {s[k] : k \in 1..Len(s)}
        BY <2>1 DEF a
    <2> QED BY <1>1, <2>1, <2>4, <2>5 DEF a
<1>3. \A x : Range(<<x>>) = {x}
    BY DEF Range
<1>4. Range(<<>>) = {}
    BY DEF Range
<1> QED BY <1>1, <1>2, <1>3, <1>4

LEMMA ShownIs ==
    ASSUME NEW r \in Renders
    PROVE  /\ \A i : i \in ShownIn(r) <=> \E k \in 1..Len(r.shown) : i \in Range(r.shown[k])
           /\ \A i, k : k \in ShownAt(r, i) <=> k \in 1..Len(r.shown) /\ i \in Range(r.shown[k])
<1>1. r.shown \in Seq(Seq(Nat))
    BY DEF Renders
<1>2. DOMAIN r.shown = 1..Len(r.shown)
    BY <1>1
<1> QED BY <1>2 DEF ShownIn, ShownAt

LEMMA RangeInNat ==
    ASSUME NEW s \in Seq(Nat)
    PROVE  /\ Range(s) \subseteq Nat
           /\ \A k \in 1..Len(s) : s[k] \in Range(s)
           /\ \A i \in Range(s) : \E k \in 1..Len(s) : i = s[k]
<1>1. DOMAIN s = 1..Len(s) /\ \A k \in 1..Len(s) : s[k] \in Nat
    BY ElementOfSeq
<1> QED BY <1>1 DEF Range

LEMMA RangeAppended ==
    ASSUME NEW s \in Seq(Nat), NEW x \in Nat
    PROVE  Range(Append(s, x)) = Range(s) \cup {x}
BY RangeIs

LEMMA BlankIsRendering ==
    ASSUME NEW l, Len(l) \in Nat
    PROVE  Rendering(l, 0, Blank)
<1>1. Blank \in Renders /\ Len(<<>>) = 0
    BY DEF Blank, Renders
<1>2. Range(<<>>) = {}
    BY RangeIs
<1>3. ShownIn(Blank) = {} /\ Held(Blank) = {}
    BY <1>2 DEF ShownIn, Held, Blank
<1>4. \A i \in Kept(l) : ~(i <= 0)
    BY DEF Kept, TreeNodes
<1>5. Accounted(l, 0, Blank)
    BY <1>3, <1>4 DEF Accounted, Blank
<1>6. HeldBack(l, Blank)
    BY <1>1, <1>2 DEF HeldBack, Blank
<1>7. PairedBlocks(l, Blank.shown) /\ ShownOnce(Blank.shown)
    BY <1>1 DEF PairedBlocks, ShownOnce, Blank
<1> QED BY <1>1, <1>5, <1>6, <1>7 DEF Rendering

\* A list of blocks with a batch and its results put on top.
Stacks(w, u, b, t) ==
    /\ w \in Seq(Seq(Nat))
    /\ Len(u) \in Nat /\ Len(t) \in Nat
    /\ Len(w) = Len(u) + 1 + Len(t)
    /\ \A k \in 1..Len(u) : w[k] = u[k]
    /\ w[Len(u) + 1] = b
    /\ \A k \in 1..Len(t) : w[Len(u) + 1 + k] = t[k]

LEMMA Stacked ==
    ASSUME NEW u \in Seq(Seq(Nat)), NEW b \in Seq(Nat), NEW t \in Seq(Seq(Nat))
    PROVE  Stacks(Append(u, b) \o t, u, b, t)
<1> DEFINE v == Append(u, b)
           w == v \o t
<1>1. /\ v \in Seq(Seq(Nat)) /\ Len(v) = Len(u) + 1
      /\ \A k \in 1..Len(u) : v[k] = u[k]
      /\ v[Len(u) + 1] = b
    BY AppendProperties
<1>2. Len(u) \in Nat /\ Len(t) \in Nat
    BY LenProperties
<1> HIDE DEF v
<1>3. /\ w \in Seq(Seq(Nat)) /\ Len(w) = Len(v) + Len(t)
      /\ \A k \in 1..(Len(v) + Len(t)) : w[k] = IF k <= Len(v) THEN v[k] ELSE t[k - Len(v)]
    BY <1>1, ConcatProperties
<1> HIDE DEF w
<1>4. \A k \in 1..Len(u) : w[k] = u[k]
    BY <1>1, <1>2, <1>3
<1>5. w[Len(u) + 1] = b
    BY <1>1, <1>2, <1>3
<1>6. ASSUME NEW k \in 1..Len(t)
      PROVE  w[Len(u) + 1 + k] = t[k]
    <2> DEFINE m == Len(u) + 1 + k
    <2>1. m \in 1..(Len(v) + Len(t)) /\ ~(m <= Len(v)) /\ m - Len(v) = k
        BY <1>1, <1>2
    <2> HIDE DEF m
    <2>2. w[m] = t[m - Len(v)]
        BY <1>3, <2>1
    <2> QED BY <2>1, <2>2 DEF m
<1> QED BY <1>1, <1>2, <1>3, <1>4, <1>5, <1>6 DEF w, v, Stacks

\* What a flush shows: the batch, and then the result of each of its calls.
LEMMA FlushShows ==
    ASSUME NEW l, NEW r \in Renders, HeldBack(l, r), r.batch # <<>>,
           IdsOf(l, r.batch) \subseteq IdsOf(l, r.results)
    PROVE  LET q == flush(l, r)
               n == Len(r.shown)
               h == Len(r.batch)
           IN  /\ q \in Renders /\ q.batch = <<>> /\ q.results = <<>>
               /\ q.dropped = r.dropped /\ q.broken = r.broken
               /\ n \in Nat /\ h \in Nat /\ Len(q.shown) = n + 1 + h
               /\ \A k \in 1..n : q.shown[k] = r.shown[k]
               /\ q.shown[n + 1] = r.batch
               /\ \A k \in 1..h : \E j \in Range(r.results) :
                     /\ q.shown[n + 1 + k] = <<j>>
                     /\ l[j].call = l[r.batch[k]].call
<1> DEFINE n == Len(r.shown)
           h == Len(r.batch)
           t == [k \in DOMAIN r.batch |->
                    <<CHOOSE j \in ResultOf(l, r, l[r.batch[k]].call) : TRUE>>]
           w == Append(r.shown, r.batch) \o t
           q == flush(l, r)
<1>1. /\ r.shown \in Seq(Seq(Nat)) /\ r.batch \in Seq(Nat) /\ r.results \in Seq(Nat)
      /\ n \in Nat /\ h \in Nat /\ DOMAIN r.batch = 1..h
    BY DEF Renders
<1>2. q = [[r EXCEPT !.batch = <<>>, !.results = <<>>] EXCEPT !.shown = w]
    BY DEF flush, Renders
<1>3. ASSUME NEW k \in 1..h
      PROVE  \E j \in Range(r.results) : t[k] = <<j>> /\ l[j].call = l[r.batch[k]].call
    <2>1. l[r.batch[k]].call \in IdsOf(l, r.batch)
        BY <1>1, RangeIs DEF IdsOf
    <2>2. ResultOf(l, r, l[r.batch[k]].call) # {}
        BY <2>1 DEF IdsOf, ResultOf
    <2> DEFINE j == CHOOSE j \in ResultOf(l, r, l[r.batch[k]].call) : TRUE
    <2>3. j \in ResultOf(l, r, l[r.batch[k]].call)
        BY <2>2
    <2>4. t[k] = <<j>>
        BY <1>1
    <2> HIDE DEF j, t
    <2> QED BY <2>3, <2>4 DEF ResultOf
<1>4. t \in Seq(Seq(Nat)) /\ Len(t) = h
    <2>1. t = [k \in 1..h |-> t[k]]
        BY <1>1
    <2>2. \A j \in Range(r.results) : <<j>> \in Seq(Nat)
        <3>1. \A j \in Nat : <<j>> \in Seq(Nat)
            OBVIOUS
        <3>2. \A j \in Range(r.results) : j \in Nat
            BY <1>1, RangeInNat
        <3> QED BY <3>1, <3>2
    <2> HIDE DEF t, h
    <2>3. \A k \in 1..h : t[k] \in Seq(Nat)
        BY <1>3, <2>2 DEF h
    <2>4. t \in [1..h -> Seq(Nat)]
        BY <2>1, <2>3
    <2> QED BY <1>1, <2>4
<1> HIDE DEF t, n, h
<1>5. /\ w \in Seq(Seq(Nat)) /\ Len(w) = n + 1 + h
      /\ \A k \in 1..n : w[k] = r.shown[k]
      /\ w[n + 1] = r.batch
      /\ \A k \in 1..h : w[n + 1 + k] = t[k]
    <2>1. /\ w \in Seq(Seq(Nat)) /\ Len(w) = Len(r.shown) + 1 + Len(t)
          /\ \A k \in 1..Len(r.shown) : w[k] = r.shown[k]
          /\ w[Len(r.shown) + 1] = r.batch
          /\ \A k \in 1..Len(t) : w[Len(r.shown) + 1 + k] = t[k]
        <3>1. Stacks(w, r.shown, r.batch, t)
            BY <1>1, <1>4, Stacked
        <3> HIDE DEF w
        <3> QED BY <3>1 DEF Stacks
    <2> HIDE DEF w
    <2> QED BY <1>4, <2>1 DEF n
<1> HIDE DEF w
<1>6. Len(<<>>) = 0 /\ <<>> \in Seq(Nat)
    OBVIOUS
<1>7. /\ q \in Renders /\ q.batch = <<>> /\ q.results = <<>> /\ q.shown = w
      /\ q.dropped = r.dropped /\ q.broken = r.broken
    <2>1. q = [shown |-> w, batch |-> <<>>, results |-> <<>>,
               dropped |-> r.dropped, broken |-> r.broken]
        BY <1>2 DEF Renders
    <2>2. w \in Seq(Seq(Nat)) /\ r.dropped \in SUBSET Nat /\ r.broken \in SUBSET ViewCodes
        BY <1>5 DEF Renders
    <2> QED BY <1>6, <2>1, <2>2 DEF Renders
<1> HIDE DEF q
<1>8. \A k \in 1..h : \E j \in Range(r.results) :
         q.shown[n + 1 + k] = <<j>> /\ l[j].call = l[r.batch[k]].call
    <2> SUFFICES ASSUME NEW k \in 1..h
                 PROVE  \E j \in Range(r.results) :
                           q.shown[n + 1 + k] = <<j>> /\ l[j].call = l[r.batch[k]].call
        OBVIOUS
    <2>1. q.shown[n + 1 + k] = t[k]
        BY <1>5, <1>7
    <2> QED BY <1>3, <2>1
<1>9. /\ Len(q.shown) = n + 1 + h /\ q.shown[n + 1] = r.batch
      /\ \A k \in 1..n : q.shown[k] = r.shown[k]
    BY <1>5, <1>7
<1> QED BY <1>1, <1>7, <1>8, <1>9 DEF q, n, h

LEMMA NothingHeldBack ==
    ASSUME NEW l, NEW r, r.batch = <<>>, r.results = <<>>
    PROVE  HeldBack(l, r)
<1>1. Range(<<>>) = {} /\ 1..Len(<<>>) = {}
    BY RangeIs
<1> QED BY <1>1 DEF HeldBack

\* A flush shows what is held back, or drops it.
LEMMA FlushKeeps ==
    ASSUME NEW l, Len(l) \in Nat, NEW n \in Nat, NEW r, Rendering(l, n, r)
    PROVE  LET q == flush(l, r)
           IN  /\ Rendering(l, n, q) /\ q.batch = <<>> /\ q.results = <<>>
               /\ GoesOnAs(r.shown, q.shown)
<1> DEFINE q == flush(l, r)
<1>1. /\ r \in Renders /\ Accounted(l, n, r) /\ HeldBack(l, r) /\ PairedBlocks(l, r.shown)
      /\ NoCallTwice(l) => ShownOnce(r.shown)
    BY DEF Rendering
<1>2. /\ r.shown \in Seq(Seq(Nat)) /\ r.batch \in Seq(Nat) /\ r.results \in Seq(Nat)
      /\ r.dropped \in SUBSET Nat /\ r.broken \in SUBSET ViewCodes
      /\ Len(r.shown) \in Nat
    BY <1>1 DEF Renders
<1>3. CASE r.batch = <<>>
    <2>1. q = r
        BY <1>3 DEF flush
    <2>2. r.results = <<>>
        <3>1. IdsOf(l, r.batch) = {}
            BY <1>3, RangeIs DEF IdsOf
        <3>2. Range(r.results) = {}
            BY <1>1, <3>1 DEF HeldBack
        <3>3. ~(1 \in 1..Len(r.results))
            BY <1>2, <3>2, RangeInNat
        <3>4. Len(r.results) = 0
            BY <1>2, <3>3, LenProperties
        <3> QED BY <1>2, <3>4
    <2>3. GoesOnAs(r.shown, r.shown)
        BY <1>2 DEF GoesOnAs
    <2> QED BY <1>3, <2>1, <2>2, <2>3
<1>4. CASE r.batch # <<>> /\ ~(IdsOf(l, r.batch) \subseteq IdsOf(l, r.results))
    <2>1. /\ q.shown = r.shown /\ q.batch = <<>> /\ q.results = <<>>
          /\ q.dropped = r.dropped \cup Held(r)
          /\ q.broken = r.broken \cup {"VIEW-BATCH-ATOMICITY"}
          /\ q \in Renders
        <3>1. q = [[r EXCEPT !.batch = <<>>, !.results = <<>>]
                      EXCEPT !.dropped = @ \cup Held(r), !.broken = @ \cup {"VIEW-BATCH-ATOMICITY"}]
            BY <1>4 DEF flush, Drop, Held
        <3>2. r.dropped \cup Held(r) \in SUBSET Nat
            BY <1>2, RangeInNat DEF Held
        <3>3. r.broken \cup {"VIEW-BATCH-ATOMICITY"} \in SUBSET ViewCodes
            BY <1>2 DEF ViewCodes
        <3>4. <<>> \in Seq(Nat)
            OBVIOUS
        <3> DEFINE d == r.dropped \cup Held(r)
                   b == r.broken \cup {"VIEW-BATCH-ATOMICITY"}
        <3>5. q = [[r EXCEPT !.batch = <<>>, !.results = <<>>] EXCEPT !.dropped = d, !.broken = b]
            BY <1>1, <3>1 DEF Renders
        <3> HIDE DEF d, b, q
        <3>6. /\ q.shown = r.shown /\ q.batch = <<>> /\ q.results = <<>>
              /\ q.dropped = d /\ q.broken = b
            BY <1>1, <3>5 DEF Renders
        <3>7. q = [shown |-> r.shown, batch |-> <<>>, results |-> <<>>, dropped |-> d, broken |-> b]
            BY <1>1, <3>5 DEF Renders
        <3>8. q \in Renders
            BY <1>2, <3>2, <3>3, <3>4, <3>7 DEF Renders, d, b
        <3> QED BY <3>6, <3>8 DEF d, b
    <2> HIDE DEF q
    <2>2. Held(q) = {}
        BY <2>1, RangeIs DEF Held
    <2>3. ShownIn(q) = ShownIn(r)
        BY <2>1 DEF ShownIn
    <2>4. Accounted(l, n, q)
        BY <1>1, <2>1, <2>2, <2>3 DEF Accounted
    <2>5. HeldBack(l, q)
        BY <2>1, NothingHeldBack
    <2>6. GoesOnAs(r.shown, q.shown)
        BY <1>2, <2>1 DEF GoesOnAs
    <2>7. Rendering(l, n, q)
        BY <1>1, <2>1, <2>4, <2>5 DEF Rendering
    <2> QED BY <2>1, <2>6, <2>7 DEF q
<1>5. CASE r.batch # <<>> /\ IdsOf(l, r.batch) \subseteq IdsOf(l, r.results)
    <2> DEFINE s == Len(r.shown)
               h == Len(r.batch)
    <2>1. /\ q \in Renders /\ q.batch = <<>> /\ q.results = <<>>
          /\ q.dropped = r.dropped /\ q.broken = r.broken
          /\ s \in Nat /\ h \in Nat /\ Len(q.shown) = s + 1 + h
          /\ \A k \in 1..s : q.shown[k] = r.shown[k]
          /\ q.shown[s + 1] = r.batch
          /\ \A k \in 1..h : \E j \in Range(r.results) :
                /\ q.shown[s + 1 + k] = <<j>>
                /\ l[j].call = l[r.batch[k]].call
        BY <1>1, <1>5, FlushShows
    <2> HIDE DEF q
    <2>2. /\ Range(r.batch) = {r.batch[k] : k \in 1..h}
          /\ \A x : Range(<<x>>) = {x}
        BY <1>2, RangeIs
    <2> HIDE DEF s, h
    <2>3. PICK res \in [1..h -> Range(r.results)] :
              \A k \in 1..h : /\ q.shown[s + 1 + k] = <<res[k]>>
                              /\ l[res[k]].call = l[r.batch[k]].call
        <3> DEFINE f == [k \in 1..h |-> CHOOSE j \in Range(r.results) :
                                           /\ q.shown[s + 1 + k] = <<j>>
                                           /\ l[j].call = l[r.batch[k]].call]
        <3>1. \A k \in 1..h : /\ f[k] \in Range(r.results)
                              /\ q.shown[s + 1 + k] = <<f[k]>>
                              /\ l[f[k]].call = l[r.batch[k]].call
            BY <2>1
        <3>2. f = [k \in 1..h |-> f[k]]
            OBVIOUS
        <3> HIDE DEF f
        <3>3. f \in [1..h -> Range(r.results)]
            BY <3>1, <3>2
        <3> QED BY <3>1, <3>3
    \* Every result held back is that of a call of the batch.
    <2>4. ASSUME NEW j \in Range(r.results)
          PROVE  \E k \in 1..h : j = res[k]
        <3>1. l[j].call \in IdsOf(l, r.batch)
            BY <1>1 DEF HeldBack
        <3>2. PICK k \in 1..h : l[r.batch[k]].call = l[j].call
            BY <2>2, <3>1 DEF IdsOf
        <3>3. res[k] \in Range(r.results) /\ l[res[k]].call = l[j].call
            BY <2>3, <3>2
        <3> QED BY <1>1, <3>3 DEF HeldBack
    <2>5. \A k : k \in 1..(s + 1 + h) <=>
             k \in 1..s \/ k = s + 1 \/ \E i \in 1..h : k = s + 1 + i
        <3>1. ASSUME NEW k \in 1..(s + 1 + h), k \notin 1..s, k # s + 1
              PROVE  \E i \in 1..h : k = s + 1 + i
            <4>1. k - (s + 1) \in 1..h /\ k = s + 1 + (k - (s + 1))
                BY <2>1, <3>1
            <4> QED BY <4>1
        <3>2. /\ \A k \in 1..s : k \in 1..(s + 1 + h)
              /\ s + 1 \in 1..(s + 1 + h)
              /\ \A i \in 1..h : s + 1 + i \in 1..(s + 1 + h)
            BY <2>1
        <3> QED BY <3>1, <3>2
    <2>6. \A i : i \in ShownIn(q) <=> i \in ShownIn(r) \/ i \in Held(r)
        <3>1. \A i : i \in ShownIn(q) <=> \E k \in 1..(s + 1 + h) : i \in Range(q.shown[k])
            BY <2>1, ShownIs
        <3>2. \A i : i \in ShownIn(r) <=> \E k \in 1..s : i \in Range(r.shown[k])
            BY <1>1, ShownIs DEF s
        <3>3. \A i : (\E k \in 1..(s + 1 + h) : i \in Range(q.shown[k])) <=>
                 \/ \E k \in 1..s : i \in Range(r.shown[k])
                 \/ i \in Range(r.batch)
                 \/ \E k \in 1..h : i = res[k]
            <4>1. \A i : \A k \in 1..s : i \in Range(q.shown[k]) <=> i \in Range(r.shown[k])
                BY <2>1
            <4>2. \A i : i \in Range(q.shown[s + 1]) <=> i \in Range(r.batch)
                BY <2>1
            <4>3. \A i : \A k \in 1..h : i \in Range(q.shown[s + 1 + k]) <=> i = res[k]
                <5> SUFFICES ASSUME NEW k \in 1..h
                             PROVE  \A i : i \in Range(q.shown[s + 1 + k]) <=> i = res[k]
                    OBVIOUS
                <5>1. q.shown[s + 1 + k] = <<res[k]>>
                    BY <2>3
                <5>2. Range(q.shown[s + 1 + k]) = {res[k]}
                    BY <2>2, <5>1
                <5> QED BY <5>2
            <4> DEFINE on(i, k) == i \in Range(q.shown[k])
            <4>4. \A i : (\E k \in 1..(s + 1 + h) : on(i, k)) <=>
                     (\E k \in 1..s : on(i, k)) \/ on(i, s + 1) \/ \E k \in 1..h : on(i, s + 1 + k)
                <5> SUFFICES ASSUME NEW i
                             PROVE  (\E k \in 1..(s + 1 + h) : on(i, k)) <=>
                                       \/ \E k \in 1..s : on(i, k)
                                       \/ on(i, s + 1)
                                       \/ \E k \in 1..h : on(i, s + 1 + k)
                    OBVIOUS
                <5> HIDE DEF on
                <5>1. ASSUME NEW k \in 1..(s + 1 + h), on(i, k)
                      PROVE  (\E x \in 1..s : on(i, x)) \/ on(i, s + 1) \/ \E x \in 1..h : on(i, s + 1 + x)
                    BY <2>5, <5>1
                <5>2. \A k \in 1..s : k \in 1..(s + 1 + h)
                    BY <2>5
                <5>3. s + 1 \in 1..(s + 1 + h)
                    BY <2>5
                <5>4. \A k \in 1..h : s + 1 + k \in 1..(s + 1 + h)
                    BY <2>5
                <5> QED BY <5>1, <5>2, <5>3, <5>4
            <4> QED BY <4>1, <4>2, <4>3, <4>4
        <3>4. \A i : (\E k \in 1..h : i = res[k]) <=> i \in Range(r.results)
            BY <2>3, <2>4
        <3> QED BY <3>1, <3>2, <3>3, <3>4 DEF Held
    <2>7. Held(q) = {}
        BY <2>1, RangeIs DEF Held
    <2>8. Accounted(l, n, q)
        BY <1>1, <2>1, <2>6, <2>7 DEF Accounted
    <2>9. HeldBack(l, q)
        BY <2>1, NothingHeldBack
    <2>10. GoesOnAs(r.shown, q.shown)
        BY <2>1 DEF GoesOnAs, s
    <2>11. PairedBlocks(l, q.shown)
        <3>1. ASSUME NEW k \in 1..s, NEW i \in Range(q.shown[k])
              PROVE  /\ l[i].type = "tool_call" =>
                           \E m \in (k + 1)..(s + 1 + h) : \E j \in Range(q.shown[m]) :
                              l[j].type = "tool_result" /\ l[j].call = l[i].call
                     /\ l[i].type = "tool_result" =>
                           \E m \in 1..(k - 1) : \E j \in Range(q.shown[m]) :
                              l[j].type = "tool_call" /\ l[j].call = l[i].call
            <4>1. i \in Range(r.shown[k])
                BY <2>1, <3>1
            <4>2. \A m \in (k + 1)..s : m \in (k + 1)..(s + 1 + h) /\ q.shown[m] = r.shown[m]
                BY <2>1
            <4>3. \A m \in 1..(k - 1) : q.shown[m] = r.shown[m]
                BY <2>1
            <4> QED BY <1>1, <4>1, <4>2, <4>3 DEF PairedBlocks, s
        <3>2. ASSUME NEW i \in Range(q.shown[s + 1])
              PROVE  /\ l[i].type = "tool_call"
                     /\ \E m \in ((s + 1) + 1)..(s + 1 + h) : \E j \in Range(q.shown[m]) :
                           l[j].type = "tool_result" /\ l[j].call = l[i].call
            <4>1. PICK x \in 1..h : i = r.batch[x]
                BY <2>1, <2>2
            <4>2. s + 1 + x \in ((s + 1) + 1)..(s + 1 + h)
                BY <2>1
            <4>3. /\ res[x] \in Range(q.shown[s + 1 + x])
                  /\ l[res[x]].type = "tool_result" /\ l[res[x]].call = l[i].call
                <5>1. res[x] \in Range(q.shown[s + 1 + x])
                    BY <2>2, <2>3
                <5>2. l[res[x]].type = "tool_result"
                    BY <1>1, <2>3 DEF HeldBack
                <5>3. l[res[x]].call = l[i].call
                    BY <2>3, <4>1
                <5> QED BY <5>1, <5>2, <5>3
            <4>4. l[i].type = "tool_call"
                BY <1>1, <2>1 DEF HeldBack
            <4> QED BY <4>2, <4>3, <4>4
        <3>3. ASSUME NEW x \in 1..h, NEW i \in Range(q.shown[s + 1 + x])
              PROVE  /\ l[i].type = "tool_result"
                     /\ \E m \in 1..((s + 1 + x) - 1) : \E j \in Range(q.shown[m]) :
                           l[j].type = "tool_call" /\ l[j].call = l[i].call
            <4>1. i = res[x]
                BY <2>2, <2>3
            <4>2. l[i].type = "tool_result" /\ l[r.batch[x]].call = l[i].call
                BY <1>1, <2>3, <4>1 DEF HeldBack
            <4>3. r.batch[x] \in Range(q.shown[s + 1]) /\ l[r.batch[x]].type = "tool_call"
                BY <1>1, <2>1, <2>2 DEF HeldBack
            <4>4. s + 1 \in 1..((s + 1 + x) - 1)
                <5>1. s \in Nat /\ x \in Nat /\ 1 <= x
                    BY <2>1
                <5> QED BY <5>1
            <4> QED BY <4>2, <4>3, <4>4
        <3>4. ASSUME NEW k \in 1..(s + 1 + h), NEW i \in Range(q.shown[k])
              PROVE  /\ l[i].type = "tool_call" =>
                           \E m \in (k + 1)..(s + 1 + h) : \E j \in Range(q.shown[m]) :
                              l[j].type = "tool_result" /\ l[j].call = l[i].call
                     /\ l[i].type = "tool_result" =>
                           \E m \in 1..(k - 1) : \E j \in Range(q.shown[m]) :
                              l[j].type = "tool_call" /\ l[j].call = l[i].call
            <4>1. k \in 1..s \/ k = s + 1 \/ \E x \in 1..h : k = s + 1 + x
                BY <2>5
            <4>2. CASE k \in 1..s
                BY <3>1, <3>4, <4>2
            <4>3. CASE k = s + 1
                BY <3>2, <3>4, <4>3
            <4>4. CASE \E x \in 1..h : k = s + 1 + x
                BY <3>3, <3>4, <4>4
            <4> QED BY <4>1, <4>2, <4>3, <4>4
        <3>5. Len(q.shown) = s + 1 + h
            BY <2>1
        <3> QED BY <3>4, <3>5 DEF PairedBlocks
    <2>12. ASSUME NoCallTwice(l)
           PROVE  ShownOnce(q.shown)
        <3>1. \A k, m \in 1..s : \A i : i \in Range(r.shown[k]) /\ i \in Range(r.shown[m]) => k = m
            BY <1>1, <2>12 DEF ShownOnce, s
        <3>2. \A k \in 1..s : \A i \in Range(r.shown[k]) : i \notin Range(r.batch) /\ i \notin Range(r.results)
            BY <1>1, ShownIs DEF Accounted, Held, s
        <3>3. \A i \in Range(r.batch) : i \notin Range(r.results)
            BY <1>1 DEF HeldBack
        <3>4. \A x, y \in 1..h : res[x] = res[y] => x = y
            <4> SUFFICES ASSUME NEW x \in 1..h, NEW y \in 1..h, res[x] = res[y] PROVE x = y
                OBVIOUS
            <4>1. l[r.batch[x]].call = l[r.batch[y]].call
                BY <2>3
            <4>2. /\ r.batch[x] \in Range(r.batch) /\ r.batch[y] \in Range(r.batch)
                  /\ r.batch[x] \in Kept(l) /\ r.batch[y] \in Kept(l)
                BY <1>1, <2>2 DEF Accounted, Held
            <4>3. r.batch[x] = r.batch[y]
                BY <1>1, <2>12, <4>1, <4>2 DEF NoCallTwice, HeldBack
            <4> QED BY <1>1, <4>3 DEF HeldBack, h
        <3>5. ASSUME NEW k \in 1..(s + 1 + h), NEW m \in 1..(s + 1 + h), NEW i,
                     i \in Range(q.shown[k]), i \in Range(q.shown[m])
              PROVE  k = m
            <4>1. \A c \in 1..(s + 1 + h) : i \in Range(q.shown[c]) =>
                     \/ c \in 1..s /\ i \in Range(r.shown[c])
                     \/ c = s + 1 /\ i \in Range(r.batch)
                     \/ \E x \in 1..h : c = s + 1 + x /\ i = res[x] /\ i \in Range(r.results)
                <5> SUFFICES ASSUME NEW c \in 1..(s + 1 + h), i \in Range(q.shown[c])
                             PROVE  \/ c \in 1..s /\ i \in Range(r.shown[c])
                                    \/ c = s + 1 /\ i \in Range(r.batch)
                                    \/ \E x \in 1..h : c = s + 1 + x /\ i = res[x] /\ i \in Range(r.results)
                    OBVIOUS
                <5>1. CASE c \in 1..s
                    BY <2>1, <5>1
                <5>2. CASE c = s + 1
                    BY <2>1, <5>2
                <5>3. ASSUME NEW x \in 1..h, c = s + 1 + x
                      PROVE  i = res[x] /\ i \in Range(r.results)
                    <6>1. q.shown[c] = <<res[x]>> /\ res[x] \in Range(r.results)
                        BY <2>3, <5>3
                    <6>2. Range(q.shown[c]) = {res[x]}
                        BY <2>2, <6>1
                    <6> QED BY <6>1, <6>2
                <5> QED BY <2>5, <5>1, <5>2, <5>3
            <4>2. CASE i \in Range(r.batch)
                BY <3>2, <3>3, <3>5, <4>1, <4>2
            <4>3. CASE i \in Range(r.results)
                <5>1. /\ \E x \in 1..h : k = s + 1 + x /\ i = res[x]
                      /\ \E x \in 1..h : m = s + 1 + x /\ i = res[x]
                    BY <3>2, <3>3, <3>5, <4>1, <4>3
                <5> QED BY <3>4, <5>1
            <4>4. CASE i \notin Range(r.batch) /\ i \notin Range(r.results)
                BY <3>1, <3>5, <4>1, <4>4
            <4> QED BY <4>2, <4>3, <4>4
        <3>6. Len(q.shown) = s + 1 + h
            BY <2>1
        <3> QED BY <3>5, <3>6 DEF ShownOnce
    <2>13. Rendering(l, n, q)
        BY <2>1, <2>8, <2>9, <2>11, <2>12 DEF Rendering
    <2> QED BY <2>1, <2>10, <2>13 DEF q
<1> QED BY <1>3, <1>4, <1>5

-----------------------------------------------------------------------------
(* Each event that is taken in leaves the account right *)

LEMMA KeptAre ==
    ASSUME NEW l, Len(l) \in Nat
    PROVE  Kept(l) \subseteq 1..Len(l) /\ Kept(l) \subseteq Nat
BY DEF Kept, TreeNodes

LEMMA NewIsNowhere ==
    ASSUME NEW l, NEW n \in Nat, NEW r, Accounted(l, n, r)
    PROVE  n + 1 \notin ShownIn(r) /\ n + 1 \notin Held(r) /\ n + 1 \notin r.dropped
<1>1. ~(n + 1 <= n)
    OBVIOUS
<1> QED BY <1>1 DEF Accounted

LEMMA OneMore ==
    ASSUME NEW l, Len(l) \in Nat, NEW n \in Nat
    PROVE  /\ n + 1 \in Kept(l) =>
                 \A i : (i \in Kept(l) /\ i <= n + 1) <=> ((i \in Kept(l) /\ i <= n) \/ i = n + 1)
           /\ n + 1 \notin Kept(l) =>
                 \A i : (i \in Kept(l) /\ i <= n + 1) <=> (i \in Kept(l) /\ i <= n)
<1>1. \A i \in Nat : i <= n + 1 <=> i <= n \/ i = n + 1
    OBVIOUS
<1>2. \A i \in Kept(l) : i \in Nat
    BY KeptAre
<1> QED BY <1>1, <1>2

LEMMA PassedBy ==
    ASSUME NEW l, Len(l) \in Nat, NEW n \in Nat, NEW r, Rendering(l, n, r), n + 1 \notin Kept(l)
    PROVE  Rendering(l, n + 1, r)
BY OneMore DEF Rendering, Accounted

\* An event that is neither a call nor a result is a block of its own.
LEMMA ShowKeeps ==
    ASSUME NEW l, Len(l) \in Nat, NEW n \in Nat, NEW r, Rendering(l, n, r), n + 1 \in Kept(l),
           l[n + 1].type \notin {"tool_call", "tool_result"}
    PROVE  LET q == Show(r, n + 1)
           IN  /\ Rendering(l, n + 1, q)
               /\ GoesOnAs(r.shown, q.shown)
               /\ q.batch = r.batch /\ q.results = r.results
<1> DEFINE q == Show(r, n + 1)
           w == Append(r.shown, <<n + 1>>)
           s == Len(r.shown)
<1>1. /\ r \in Renders /\ Accounted(l, n, r) /\ HeldBack(l, r) /\ PairedBlocks(l, r.shown)
      /\ NoCallTwice(l) => ShownOnce(r.shown)
    BY DEF Rendering
<1>2. r.shown \in Seq(Seq(Nat)) /\ s \in Nat
    BY <1>1 DEF Renders
<1>3. /\ w \in Seq(Seq(Nat)) /\ Len(w) = s + 1
      /\ \A k \in 1..s : w[k] = r.shown[k]
      /\ w[s + 1] = <<n + 1>>
    <2>1. <<n + 1>> \in Seq(Nat)
        OBVIOUS
    <2> QED BY <1>2, <2>1, AppendProperties
<1> HIDE DEF s
<1>4. q = [r EXCEPT !.shown = w]
    BY <1>1 DEF Show, Renders
<1> HIDE DEF w, q
<1>5. /\ q \in Renders /\ q.shown = w /\ q.batch = r.batch /\ q.results = r.results
      /\ q.dropped = r.dropped /\ q.broken = r.broken
    BY <1>1, <1>3, <1>4 DEF Renders
<1>6. Range(q.shown[s + 1]) = {n + 1}
    BY <1>3, <1>5, RangeIs
<1>7. \A k : k \in 1..(s + 1) <=> k \in 1..s \/ k = s + 1
    BY <1>2
<1>8. \A k \in 1..s : q.shown[k] = r.shown[k]
    BY <1>3, <1>5
<1>9. \A i : i \in ShownIn(q) <=> i \in ShownIn(r) \/ i = n + 1
    <2>1. \A i : i \in ShownIn(q) <=> \E k \in 1..(s + 1) : i \in Range(q.shown[k])
        BY <1>3, <1>5, ShownIs
    <2>2. \A i : i \in ShownIn(r) <=> \E k \in 1..s : i \in Range(r.shown[k])
        BY <1>1, ShownIs DEF s
    <2>3. \A i : (\E k \in 1..(s + 1) : i \in Range(q.shown[k])) <=>
             (\E k \in 1..s : i \in Range(q.shown[k])) \/ i \in Range(q.shown[s + 1])
        BY <1>7
    <2> QED BY <1>6, <1>8, <2>1, <2>2, <2>3
<1>10. n + 1 \notin ShownIn(r) /\ n + 1 \notin Held(r) /\ n + 1 \notin r.dropped
    BY <1>1, NewIsNowhere
<1>11. Held(q) = Held(r)
    BY <1>5 DEF Held
<1>12. Accounted(l, n + 1, q)
    BY <1>1, <1>5, <1>9, <1>10, <1>11, OneMore DEF Accounted
<1>13. HeldBack(l, q)
    BY <1>1, <1>5 DEF HeldBack
<1>14. GoesOnAs(r.shown, q.shown)
    BY <1>2, <1>3, <1>5, <1>8 DEF GoesOnAs, s
<1>15. PairedBlocks(l, q.shown)
    <2>1. ASSUME NEW k \in 1..s, NEW i \in Range(q.shown[k])
          PROVE  /\ l[i].type = "tool_call" =>
                       \E m \in (k + 1)..(s + 1) : \E j \in Range(q.shown[m]) :
                          l[j].type = "tool_result" /\ l[j].call = l[i].call
                 /\ l[i].type = "tool_result" =>
                       \E m \in 1..(k - 1) : \E j \in Range(q.shown[m]) :
                          l[j].type = "tool_call" /\ l[j].call = l[i].call
        <3>1. i \in Range(r.shown[k])
            BY <1>8, <2>1
        <3>2. \A m \in (k + 1)..s : m \in (k + 1)..(s + 1) /\ q.shown[m] = r.shown[m]
            BY <1>2, <1>8
        <3>3. \A m \in 1..(k - 1) : q.shown[m] = r.shown[m]
            BY <1>2, <1>8
        <3> QED BY <1>1, <3>1, <3>2, <3>3 DEF PairedBlocks, s
    <2>2. \A i \in Range(q.shown[s + 1]) : l[i].type \notin {"tool_call", "tool_result"}
        BY <1>6
    <2>3. Len(q.shown) = s + 1
        BY <1>3, <1>5
    <2> SUFFICES ASSUME NEW k \in 1..(s + 1), NEW i \in Range(q.shown[k])
                 PROVE  /\ l[i].type = "tool_call" =>
                             \E m \in (k + 1)..(s + 1) : \E j \in Range(q.shown[m]) :
                                l[j].type = "tool_result" /\ l[j].call = l[i].call
                        /\ l[i].type = "tool_result" =>
                             \E m \in 1..(k - 1) : \E j \in Range(q.shown[m]) :
                                l[j].type = "tool_call" /\ l[j].call = l[i].call
        BY <2>3 DEF PairedBlocks
    <2>4. CASE k \in 1..s
        BY <2>1, <2>4
    <2>5. CASE k = s + 1
        BY <2>2, <2>5
    <2> QED BY <1>7, <2>4, <2>5
<1>16. NoCallTwice(l) => ShownOnce(q.shown)
    <2> SUFFICES ASSUME NoCallTwice(l), NEW k \in 1..(s + 1), NEW m \in 1..(s + 1), NEW i,
                        i \in Range(q.shown[k]), i \in Range(q.shown[m])
                 PROVE  k = m
        BY <1>3, <1>5 DEF ShownOnce
    <2>1. \A c \in 1..s : n + 1 \notin Range(r.shown[c])
        BY <1>1, <1>10, ShownIs DEF s
    <2>2. CASE i = n + 1
        BY <1>7, <1>8, <2>1, <2>2
    <2>3. CASE i # n + 1
        <3>1. k \in 1..s /\ m \in 1..s
            BY <1>6, <1>7, <2>3
        <3> QED BY <1>1, <1>8, <3>1 DEF ShownOnce, s
    <2> QED BY <2>2, <2>3
<1>17. Rendering(l, n + 1, q)
    BY <1>5, <1>12, <1>13, <1>15, <1>16 DEF Rendering
<1> QED BY <1>5, <1>14, <1>17 DEF q

LEMMA GoesOnItself ==
    ASSUME NEW u \in Seq(Seq(Nat))
    PROVE  GoesOnAs(u, u)
BY LenProperties DEF GoesOnAs

LEMMA CallKeeps ==
    ASSUME NEW l, Len(l) \in Nat, NEW n \in Nat, NEW r, Rendering(l, n, r), n + 1 \in Kept(l),
           l[n + 1].type = "tool_call"
    PROVE  LET q == [r EXCEPT !.batch = Append(@, n + 1)]
           IN  Rendering(l, n + 1, q) /\ GoesOnAs(r.shown, q.shown)
<1> DEFINE q == [r EXCEPT !.batch = Append(@, n + 1)]
           b == Append(r.batch, n + 1)
           h == Len(r.batch)
<1>1. /\ r \in Renders /\ Accounted(l, n, r) /\ HeldBack(l, r) /\ PairedBlocks(l, r.shown)
      /\ NoCallTwice(l) => ShownOnce(r.shown)
    BY DEF Rendering
<1>2. r.batch \in Seq(Nat) /\ h \in Nat /\ r.shown \in Seq(Seq(Nat))
    BY <1>1 DEF Renders
<1>3. /\ b \in Seq(Nat) /\ Len(b) = h + 1
      /\ \A k \in 1..h : b[k] = r.batch[k]
      /\ b[h + 1] = n + 1
    BY <1>2, AppendProperties
<1>4. Range(b) = Range(r.batch) \cup {n + 1}
    BY <1>2, RangeAppended
<1>5. q = [r EXCEPT !.batch = b]
    BY <1>1 DEF Renders
<1> HIDE DEF b, q, h
<1>6. /\ q \in Renders /\ q.shown = r.shown /\ q.batch = b /\ q.results = r.results
      /\ q.dropped = r.dropped /\ q.broken = r.broken
    BY <1>1, <1>3, <1>5 DEF Renders
<1>7. n + 1 \notin ShownIn(r) /\ n + 1 \notin Held(r) /\ n + 1 \notin r.dropped
    BY <1>1, NewIsNowhere
<1>8. Held(q) = Held(r) \cup {n + 1} /\ ShownIn(q) = ShownIn(r)
    BY <1>4, <1>6 DEF Held, ShownIn
<1>9. Accounted(l, n + 1, q)
    BY <1>1, <1>6, <1>7, <1>8, OneMore DEF Accounted
<1>10. HeldBack(l, q)
    <2>1. \A i \in Range(q.batch) : l[i].type = "tool_call"
        BY <1>1, <1>4, <1>6 DEF HeldBack
    <2>2. ASSUME NEW j \in 1..(h + 1), NEW k \in 1..(h + 1), b[j] = b[k]
          PROVE  j = k
        <3>1. \A x \in 1..h : b[x] # n + 1
            <4>1. \A x \in 1..h : r.batch[x] \in Range(r.batch)
                BY <1>2, RangeInNat DEF h
            <4>2. n + 1 \notin Range(r.batch)
                BY <1>7 DEF Held
            <4> QED BY <1>3, <4>1, <4>2
        <3>2. \A x \in 1..(h + 1) : x \in 1..h \/ x = h + 1
            BY <1>2
        <3>3. CASE j \in 1..h /\ k \in 1..h
            BY <1>1, <1>3, <2>2, <3>3 DEF HeldBack, h
        <3> QED BY <1>3, <2>2, <3>1, <3>2, <3>3
    <2>3. \A i \in Range(q.results) : l[i].type = "tool_result" /\ l[i].call \in IdsOf(l, q.batch)
        BY <1>1, <1>4, <1>6 DEF HeldBack, IdsOf
    <2> QED BY <1>1, <1>3, <1>6, <2>1, <2>2, <2>3 DEF HeldBack
<1>11. Rendering(l, n + 1, q)
    BY <1>1, <1>6, <1>9, <1>10 DEF Rendering
<1> QED BY <1>2, <1>6, <1>11, GoesOnItself DEF q

LEMMA DropKeeps ==
    ASSUME NEW l, Len(l) \in Nat, NEW n \in Nat, NEW r, Rendering(l, n, r), n + 1 \in Kept(l),
           NEW code \in ViewCodes
    PROVE  LET q == Drop(r, {n + 1}, code)
           IN  Rendering(l, n + 1, q) /\ GoesOnAs(r.shown, q.shown)
<1> DEFINE q == Drop(r, {n + 1}, code)
           d == r.dropped \cup {n + 1}
           b == r.broken \cup {code}
<1>1. /\ r \in Renders /\ Accounted(l, n, r) /\ HeldBack(l, r) /\ PairedBlocks(l, r.shown)
      /\ NoCallTwice(l) => ShownOnce(r.shown)
    BY DEF Rendering
<1>2. d \in SUBSET Nat /\ b \in SUBSET ViewCodes /\ b # {} /\ r.shown \in Seq(Seq(Nat))
    BY <1>1 DEF Renders
<1>3. q = [r EXCEPT !.dropped = d, !.broken = b]
    BY <1>1 DEF Renders, Drop
<1> HIDE DEF q, b
<1>4. /\ q \in Renders /\ q.shown = r.shown /\ q.batch = r.batch /\ q.results = r.results
      /\ q.dropped = r.dropped \cup {n + 1} /\ q.broken # {}
    <2> HIDE DEF d
    <2>1. q \in Renders /\ q.broken = b /\ q.dropped = d
        BY <1>1, <1>2, <1>3 DEF Renders
    <2>2. q.shown = r.shown /\ q.batch = r.batch /\ q.results = r.results
        BY <1>1, <1>3 DEF Renders
    <2> QED BY <1>2, <2>1, <2>2 DEF d
<1>5. n + 1 \notin ShownIn(r) /\ n + 1 \notin Held(r) /\ n + 1 \notin r.dropped
    BY <1>1, NewIsNowhere
<1>6. Held(q) = Held(r) /\ ShownIn(q) = ShownIn(r)
    BY <1>4 DEF Held, ShownIn
<1>7. Accounted(l, n + 1, q)
    BY <1>1, <1>4, <1>5, <1>6, OneMore DEF Accounted
<1>8. HeldBack(l, q)
    BY <1>1, <1>4 DEF HeldBack
<1>9. Rendering(l, n + 1, q)
    BY <1>1, <1>4, <1>7, <1>8 DEF Rendering
<1> QED BY <1>2, <1>4, <1>9, GoesOnItself DEF q

LEMMA ResultKeeps ==
    ASSUME NEW l, Len(l) \in Nat, NEW n \in Nat, NEW r, Rendering(l, n, r), n + 1 \in Kept(l),
           l[n + 1].type = "tool_result"
    PROVE  LET q == ShowResult(l, r, n + 1)
           IN  Rendering(l, n + 1, q) /\ GoesOnAs(r.shown, q.shown)
<1> DEFINE c == l[n + 1].call
           q == [r EXCEPT !.results = Append(@, n + 1)]
           b == Append(r.results, n + 1)
<1>1. CASE ResultOf(l, r, c) # {}
    BY <1>1, DropKeeps DEF ShowResult, ViewCodes
<1>2. CASE ResultOf(l, r, c) = {} /\ c \notin IdsOf(l, r.batch)
    BY <1>2, DropKeeps DEF ShowResult, ViewCodes
<1>3. CASE ResultOf(l, r, c) = {} /\ c \in IdsOf(l, r.batch)
    <2>1. /\ r \in Renders /\ Accounted(l, n, r) /\ HeldBack(l, r) /\ PairedBlocks(l, r.shown)
          /\ NoCallTwice(l) => ShownOnce(r.shown)
        BY DEF Rendering
    <2>2. r.results \in Seq(Nat) /\ r.shown \in Seq(Seq(Nat))
        BY <2>1 DEF Renders
    <2>3. b \in Seq(Nat)
        BY <2>2, AppendProperties
    <2>4. Range(b) = Range(r.results) \cup {n + 1}
        BY <2>2, RangeAppended
    <2>5. q = [r EXCEPT !.results = b] /\ q = ShowResult(l, r, n + 1)
        BY <1>3, <2>1 DEF Renders, ShowResult
    <2> HIDE DEF b, q
    <2>6. /\ q \in Renders /\ q.shown = r.shown /\ q.batch = r.batch /\ q.results = b
          /\ q.dropped = r.dropped /\ q.broken = r.broken
        BY <2>1, <2>3, <2>5 DEF Renders
    <2>7. n + 1 \notin ShownIn(r) /\ n + 1 \notin Held(r) /\ n + 1 \notin r.dropped
        BY <2>1, NewIsNowhere
    <2>8. Held(q) = Held(r) \cup {n + 1} /\ ShownIn(q) = ShownIn(r)
        BY <2>4, <2>6 DEF Held, ShownIn
    <2>9. Accounted(l, n + 1, q)
        BY <2>1, <2>6, <2>7, <2>8, OneMore DEF Accounted
    <2>10. HeldBack(l, q)
        <3>1. \A i \in Range(r.results) : l[i].call # c
            BY <1>3 DEF ResultOf
        <3> QED BY <1>3, <2>1, <2>4, <2>6, <3>1 DEF HeldBack
    <2>11. Rendering(l, n + 1, q)
        BY <2>1, <2>6, <2>9, <2>10 DEF Rendering
    <2> QED BY <2>2, <2>5, <2>6, <2>11, GoesOnItself
<1> QED BY <1>1, <1>2, <1>3

LEMMA GoesOnFurther ==
    ASSUME NEW u \in Seq(Seq(Nat)), NEW v \in Seq(Seq(Nat)), NEW w \in Seq(Seq(Nat)),
           GoesOnAs(u, v), GoesOnAs(v, w)
    PROVE  GoesOnAs(u, w)
<1>1. Len(u) \in Nat /\ Len(v) \in Nat /\ Len(w) \in Nat
    BY LenProperties
<1>2. Len(u) <= Len(v) /\ Len(v) <= Len(w)
    BY DEF GoesOnAs
<1>3. ASSUME NEW k \in 1..Len(u)
      PROVE  w[k] = u[k]
    <2>1. k \in 1..Len(v)
        BY <1>1, <1>2
    <2>2. v[k] = u[k] /\ w[k] = v[k]
        BY <2>1 DEF GoesOnAs
    <2> QED BY <2>2
<1> QED BY <1>1, <1>2, <1>3 DEF GoesOnAs

LEMMA TakenInKeeps ==
    ASSUME NEW l, Len(l) \in Nat, NEW n \in Nat, NEW r, Rendering(l, n, r)
    PROVE  LET q == TakenIn(l, r, n + 1)
           IN  Rendering(l, n + 1, q) /\ GoesOnAs(r.shown, q.shown)
<1>1. r \in Renders /\ r.shown \in Seq(Seq(Nat))
    BY DEF Rendering, Renders
<1>2. CASE n + 1 \notin Kept(l)
    BY <1>1, <1>2, PassedBy, GoesOnItself DEF TakenIn
<1>3. CASE n + 1 \in Kept(l) /\ l[n + 1].type = "tool_call"
    <2>1. TakenIn(l, r, n + 1) = [r EXCEPT !.batch = Append(@, n + 1)]
        BY <1>3 DEF TakenIn, ShowEvent, EndsBatch, IsMessage
    <2> DEFINE q == [r EXCEPT !.batch = Append(@, n + 1)]
    <2>2. Rendering(l, n + 1, q) /\ GoesOnAs(r.shown, q.shown)
        BY <1>3, CallKeeps
    <2> HIDE DEF q
    <2> QED BY <2>1, <2>2 DEF q
<1>4. CASE n + 1 \in Kept(l) /\ l[n + 1].type = "tool_result"
    <2>1. TakenIn(l, r, n + 1) = ShowResult(l, r, n + 1)
        BY <1>4 DEF TakenIn, ShowEvent, EndsBatch, IsMessage
    <2> QED BY <1>4, <2>1, ResultKeeps
<1>5. CASE n + 1 \in Kept(l) /\ IsMessage(l[n + 1])
    <2> DEFINE t == flush(l, r)
               q == Show(t, n + 1)
    <2>1. TakenIn(l, r, n + 1) = q
        BY <1>5 DEF TakenIn, ShowEvent, EndsBatch, IsMessage
    <2>2. Rendering(l, n, t) /\ GoesOnAs(r.shown, t.shown)
        BY FlushKeeps
    <2> HIDE DEF t
    <2>3. l[n + 1].type \notin {"tool_call", "tool_result"}
        BY <1>5 DEF IsMessage
    <2>4. Rendering(l, n + 1, q) /\ GoesOnAs(t.shown, q.shown)
        BY <1>5, <2>2, <2>3, ShowKeeps
    <2> HIDE DEF q
    <2>5. t.shown \in Seq(Seq(Nat)) /\ q.shown \in Seq(Seq(Nat))
        BY <2>2, <2>4 DEF Rendering, Renders
    <2>6. GoesOnAs(r.shown, q.shown)
        BY <1>1, <2>2, <2>4, <2>5, GoesOnFurther
    <2> QED BY <2>1, <2>4, <2>6
<1>6. CASE /\ n + 1 \in Kept(l) /\ ~IsMessage(l[n + 1])
           /\ l[n + 1].type \notin {"tool_call", "tool_result"}
    <2>1. TakenIn(l, r, n + 1) = Show(r, n + 1)
        BY <1>6 DEF TakenIn, ShowEvent, EndsBatch
    <2> QED BY <1>6, <2>1, ShowKeeps
<1> QED BY <1>2, <1>3, <1>4, <1>5, <1>6

LEMMA AllRendering ==
    ASSUME NEW l, Len(l) \in Nat, NEW n \in Nat, NEW f, IsRender(f, l, n)
    PROVE  \A i \in 0..n : Rendering(l, i, f[i])
<1> DEFINE Wrong == {i \in 0..n : ~Rendering(l, i, f[i])}
<1>1. SUFFICES ASSUME NEW j \in Wrong PROVE FALSE
    OBVIOUS
<1>2. PICK k \in Wrong : \A i \in Wrong : k <= i
    <2>1. Wrong \subseteq Nat
        OBVIOUS
    <2> HIDE DEF Wrong
    <2> QED BY <1>1, <2>1, LeastPosition
<1>3. f[0] = Blank /\ \A i \in 1..n : f[i] = TakenIn(l, f[i - 1], i)
    BY RenderStep
<1>4. k # 0
    BY <1>3, BlankIsRendering
<1> DEFINE m == k - 1
<1>5. m \in Nat /\ m \in 0..n /\ ~(k <= m) /\ k = m + 1 /\ k \in 1..n
    BY <1>4
<1>6. Rendering(l, m, f[m])
    BY <1>2, <1>5
<1>7. f[k] = TakenIn(l, f[m], k)
    BY <1>3, <1>5
<1> HIDE DEF m
<1>8. Rendering(l, m + 1, TakenIn(l, f[m], m + 1))
    BY <1>5, <1>6, TakenInKeeps
<1> QED BY <1>5, <1>7, <1>8

\* No block is taken back.
LEMMA OnlyMoreIsShown ==
    ASSUME NEW l, Len(l) \in Nat, NEW n \in Nat, NEW f, IsRender(f, l, n), NEW i \in 0..n
    PROVE  \A j \in i..n : GoesOnAs(f[i].shown, f[j].shown)
<1> DEFINE Wrong == {j \in i..n : ~GoesOnAs(f[i].shown, f[j].shown)}
<1>1. SUFFICES ASSUME NEW j \in Wrong PROVE FALSE
    OBVIOUS
<1>2. PICK k \in Wrong : \A x \in Wrong : k <= x
    <2>1. Wrong \subseteq Nat
        OBVIOUS
    <2> HIDE DEF Wrong
    <2> QED BY <1>1, <2>1, LeastPosition
<1>3. \A x \in 0..n : Rendering(l, x, f[x])
    BY AllRendering
<1>4. \A x \in 0..n : f[x].shown \in Seq(Seq(Nat))
    BY <1>3 DEF Rendering, Renders
<1>5. k # i
    BY <1>4, GoesOnItself
<1> DEFINE m == k - 1
<1>6. m \in Nat /\ m \in i..n /\ m \in 0..n /\ ~(k <= m) /\ k = m + 1 /\ k \in 1..n /\ k \in 0..n
    BY <1>5
<1>7. GoesOnAs(f[i].shown, f[m].shown)
    BY <1>2, <1>6
<1>8. f[k] = TakenIn(l, f[m], k)
    BY <1>6, RenderStep
<1> HIDE DEF m
<1>9. GoesOnAs(f[m].shown, f[k].shown)
    BY <1>3, <1>6, <1>8, TakenInKeeps
<1>10. GoesOnAs(f[i].shown, f[k].shown)
    BY <1>4, <1>6, <1>7, <1>9, GoesOnFurther
<1> QED BY <1>10

\* The view of a log: all of it is accounted for and nothing is held back.
LEMMA ViewIs ==
    ASSUME NEW l, Len(l) \in Nat
    PROVE  LET v == _render_history(l)
           IN  Rendering(l, Len(l), v) /\ Held(v) = {}
<1>1. Len(l) \in Nat
    OBVIOUS
<1>2. PICK f : IsRender(f, l, Len(l)) /\ _render_history(l) = flush(l, f[Len(l)])
    BY <1>1, RenderedIs
<1>3. Rendering(l, Len(l), f[Len(l)])
    BY <1>1, <1>2, AllRendering
<1> DEFINE v == flush(l, f[Len(l)])
<1>4. Rendering(l, Len(l), v) /\ v.batch = <<>> /\ v.results = <<>>
    BY <1>1, <1>3, FlushKeeps
<1> HIDE DEF v
<1>5. Held(v) = {}
    BY <1>4, RangeIs DEF Held
<1> QED BY <1>2, <1>4, <1>5 DEF v

LEMMA AnyViewIsPaired ==
    ASSUME NEW l, Len(l) \in Nat
    PROVE  IsPairedView(l)
<1> DEFINE v == _render_history(l)
           n == Len(v.shown)
<1>1. Rendering(l, Len(l), v) /\ Held(v) = {}
    BY ViewIs
<1> HIDE DEF v
<1>2. /\ v \in Renders /\ Accounted(l, Len(l), v) /\ PairedBlocks(l, v.shown)
      /\ NoCallTwice(l) => ShownOnce(v.shown)
      /\ n \in Nat
    BY <1>1, LenProperties DEF Rendering, Renders
<1>3. ShownIn(v) \cup v.dropped = Kept(l)
    <2>1. \A i \in Kept(l) : i <= Len(l)
        BY KeptAre
    <2> QED BY <1>1, <1>2, <2>1 DEF Accounted
<1>4. ShownIn(v) \cap v.dropped = {} /\ (v.dropped # {} => v.broken # {})
    BY <1>2 DEF Accounted
<1>5. /\ \A i : i \in ShownIn(v) <=> \E k \in 1..n : i \in Range(v.shown[k])
      /\ \A i, k : k \in ShownAt(v, i) <=> k \in 1..n /\ i \in Range(v.shown[k])
    BY <1>2, ShownIs
<1> HIDE DEF n
<1>6. ASSUME NEW i \in ShownIn(v)
      PROVE  /\ l[i].type = "tool_call" =>
                   \E j \in ShownIn(v) :
                      /\ l[i].type = "tool_call" /\ l[j].type = "tool_result"
                      /\ l[i].call = l[j].call
                      /\ \E a \in ShownAt(v, i), b \in ShownAt(v, j) : a < b
             /\ l[i].type = "tool_result" =>
                   \E j \in ShownIn(v) :
                      /\ l[j].type = "tool_call" /\ l[i].type = "tool_result"
                      /\ l[j].call = l[i].call
                      /\ \E a \in ShownAt(v, j), b \in ShownAt(v, i) : a < b
    <2>1. PICK k \in 1..n : i \in Range(v.shown[k])
        BY <1>5
    <2>2. k \in ShownAt(v, i)
        BY <1>5, <2>1
    <2>3. CASE l[i].type = "tool_call"
        <3>1. PICK m \in (k + 1)..n : \E j \in Range(v.shown[m]) :
                  l[j].type = "tool_result" /\ l[j].call = l[i].call
            BY <1>2, <2>1, <2>3 DEF PairedBlocks, n
        <3>2. PICK j \in Range(v.shown[m]) : l[j].type = "tool_result" /\ l[j].call = l[i].call
            BY <3>1
        <3>3. m \in 1..n /\ k < m
            BY <1>2
        <3>4. j \in ShownIn(v) /\ m \in ShownAt(v, j)
            BY <1>5, <3>3
        <3> QED BY <2>2, <2>3, <3>2, <3>3, <3>4
    <2>4. CASE l[i].type = "tool_result"
        <3>1. PICK m \in 1..(k - 1) : \E j \in Range(v.shown[m]) :
                  l[j].type = "tool_call" /\ l[j].call = l[i].call
            BY <1>2, <2>1, <2>4 DEF PairedBlocks, n
        <3>2. PICK j \in Range(v.shown[m]) : l[j].type = "tool_call" /\ l[j].call = l[i].call
            BY <3>1
        <3>3. m \in 1..n /\ m < k
            BY <1>2
        <3>4. j \in ShownIn(v) /\ m \in ShownAt(v, j)
            BY <1>5, <3>3
        <3> QED BY <2>2, <2>4, <3>2, <3>3, <3>4
    <2> QED BY <2>3, <2>4
<1>7. ASSUME NEW i \in ShownIn(v), NoCallTwice(l)
      PROVE  Cardinality(ShownAt(v, i)) = 1
    <2>1. PICK k \in 1..n : i \in Range(v.shown[k])
        BY <1>5
    <2>2. \A m \in ShownAt(v, i) : m = k
        BY <1>2, <1>5, <1>7, <2>1 DEF ShownOnce, n
    <2>3. ShownAt(v, i) = {k}
        BY <1>5, <2>1, <2>2
    <2> QED BY <2>3, FS_Singleton
<1> QED BY <1>3, <1>4, <1>6, <1>7 DEF IsPairedView, v

-----------------------------------------------------------------------------
(* A message fixes the view up to it *)

LEMMA FirstOf ==
    ASSUME NEW S, NEW s \in Seq(S), NEW n \in 0..Len(s)
    PROVE  /\ SubSeq(s, 1, n) \in Seq(S)
           /\ Len(SubSeq(s, 1, n)) = n
           /\ \A k \in 1..n : SubSeq(s, 1, n)[k] = s[k]
<1>1. Len(s) \in Nat /\ n \in Nat /\ n \in Int /\ 1 \in Int
    BY LenProperties
<1>2. \A k \in 1..n : s[k] \in S
    BY <1>1, ElementOfSeq
<1> DEFINE t == SubSeq(s, 1, n)
<1>3. /\ t \in Seq(S) /\ Len(t) = IF 1 <= n THEN n - 1 + 1 ELSE 0
      /\ \A k \in 1..(n - 1 + 1) : t[k] = s[1 + k - 1]
    BY <1>1, <1>2, SubSeqProperties
<1> HIDE DEF t
<1>4. Len(t) = n
    BY <1>1, <1>3
<1>5. ASSUME NEW k \in 1..n
      PROVE  t[k] = s[k]
    <2>1. k \in 1..(n - 1 + 1) /\ 1 + k - 1 = k
        BY <1>1
    <2> QED BY <1>3, <2>1
<1> QED BY <1>3, <1>4, <1>5 DEF t

LEMMA SharedWithLater ==
    ASSUME NEW S, NEW u \in Seq(S), NEW v \in Seq(S), Len(u) <= Len(v),
           \A k \in 1..Len(u) : v[k] = u[k]
    PROVE  LongestCommonPrefix({u, v}) = u
<1>1. Len(u) \in Nat /\ Len(v) \in Nat
    BY LenProperties
<1>2. SubSeq(u, 1, Len(u)) = u /\ SubSeq(v, 1, Len(u)) = u
    <2> DEFINE t == SubSeq(v, 1, Len(u))
    <2>1. t \in Seq(S) /\ Len(t) = Len(u) /\ \A k \in 1..Len(u) : t[k] = v[k]
        BY <1>1, FirstOf
    <2> HIDE DEF t
    <2>2. \A k \in 1..Len(t) : t[k] = u[k]
        BY <2>1
    <2>3. t = u
        BY <2>1, <2>2, SeqEqual
    <2>4. SubSeq(u, 1, Len(u)) = u
        BY SubSeqFull
    <2> QED BY <2>3, <2>4 DEF t
<1>3. u \in CommonPrefixes({u, v})
    <2>1. u \in Prefixes(u)
        <3>1. Len(u) \in 0..Len(u)
            BY <1>1
        <3>2. \E k \in 0..Len(u) : u = SubSeq(u, 1, k)
            BY <1>2, <3>1, Zenon
        <3> QED BY <3>2, Zenon DEF Prefixes
    <2>2. IsPrefix(u, u) /\ IsPrefix(u, v)
        BY <1>1, <1>2 DEF IsPrefix
    <2> QED BY <2>1, <2>2 DEF CommonPrefixes
<1>4. ASSUME NEW p \in CommonPrefixes({u, v})
      PROVE  Len(p) \in Nat /\ Len(p) <= Len(u) /\ (Len(p) = Len(u) => p = u)
    <2>1. IsPrefix(p, u)
        BY DEF CommonPrefixes
    <2>2. p \in Seq(S)
        <3>1. p \in Prefixes(u) \/ p \in Prefixes(v)
            BY DEF CommonPrefixes
        <3>2. \A k \in 0..Len(u) : SubSeq(u, 1, k) \in Seq(S)
            BY FirstOf
        <3>3. \A k \in 0..Len(v) : SubSeq(v, 1, k) \in Seq(S)
            BY FirstOf
        <3> QED BY <3>1, <3>2, <3>3 DEF Prefixes
    <2>3. Len(p) \in Nat /\ SubSeq(p, 1, Len(p)) = p
        BY <2>2, LenProperties, SubSeqFull
    <2>4. Len(p) <= Len(u) /\ SubSeq(p, 1, Len(p)) = SubSeq(u, 1, Len(p))
        BY <2>1 DEF IsPrefix
    <2> QED BY <1>2, <2>3, <2>4
<1> DEFINE IsLongest(x) == /\ x \in CommonPrefixes({u, v})
                           /\ \A y \in CommonPrefixes({u, v}) : Len(y) <= Len(x)
<1>5. IsLongest(u)
    BY <1>3, <1>4
<1>6. \A x : IsLongest(x) => x = u
    <2> SUFFICES ASSUME NEW x, IsLongest(x) PROVE x = u
        OBVIOUS
    <2>1. x \in CommonPrefixes({u, v}) /\ Len(u) <= Len(x)
        BY <1>3
    <2>2. Len(x) \in Nat /\ Len(x) <= Len(u) /\ (Len(x) = Len(u) => x = u)
        BY <1>4, <2>1
    <2> QED BY <1>1, <2>1, <2>2
<1>7. LongestCommonPrefix({u, v}) =
         CHOOSE x \in CommonPrefixes({u, v}) : \A y \in CommonPrefixes({u, v}) : Len(y) <= Len(x)
    BY DEF LongestCommonPrefix
<1> QED BY <1>5, <1>6, <1>7

\* A compaction replaces only what comes before it.
LooksBack(l) == \A c \in CompactionsOf(l) : l[c].replaces \subseteq 1..(c - 1)

\* The log as it was when its event i was the last.
Then(l, i) == SubSeq(l, 1, i)

LEMMA ThenIs ==
    ASSUME NEW l, Len(l) \in Nat, NEW i \in 1..Len(l)
    PROVE  /\ Len(Then(l, i)) = i
           /\ i \in Nat /\ Len(l) \in Nat /\ i <= Len(l)
           /\ \A k \in 1..i : Then(l, i)[k] = l[k] /\ k \in 1..Len(l)
<1>1. Len(l) \in Nat /\ i \in 0..Len(l) /\ i \in Nat /\ i \in Int /\ 1 \in Int
    OBVIOUS
<1> DEFINE S == {l[k] : k \in 1..i}
           t == SubSeq(l, 1, i)
<1>2. \A k \in 1..i : l[k] \in S
    OBVIOUS
<1> HIDE DEF S
<1>3. /\ Len(t) = IF 1 <= i THEN i - 1 + 1 ELSE 0
      /\ \A k \in 1..(i - 1 + 1) : t[k] = l[1 + k - 1]
    BY <1>1, <1>2, SubSeqProperties
<1> HIDE DEF t
<1>4. Len(t) = i
    BY <1>1, <1>3
<1>5. ASSUME NEW k \in 1..i
      PROVE  t[k] = l[k] /\ k \in 1..Len(l)
    <2>1. k \in 1..(i - 1 + 1) /\ 1 + k - 1 = k
        BY <1>1
    <2> QED BY <1>1, <1>3, <2>1
<1> QED BY <1>1, <1>4, <1>5 DEF t, Then

LEMMA ThenKept ==
    ASSUME NEW l, Len(l) \in Nat, LooksBack(l), NEW i \in TreeNodes(l),
           Replaced(Then(l, i)) = Replaced(l)
    PROVE  /\ i \in Kept(Then(l, i))
           /\ \A k \in 1..i : k \in Kept(Then(l, i)) <=> k \in Kept(l)
<1> DEFINE t == Then(l, i)
<1>1. i \in 1..Len(l)
    BY DEF TreeNodes
<1>2. /\ Len(t) = i /\ i \in Nat /\ Len(l) \in Nat /\ i <= Len(l)
      /\ \A k \in 1..i : t[k] = l[k] /\ k \in 1..Len(l)
    BY <1>1, ThenIs
<1>3. Replaced(t) = Replaced(l)
    OBVIOUS
<1> HIDE DEF t
<1>4. \A k \in 1..i : k \in TreeNodes(t) <=> k \in TreeNodes(l)
    BY <1>2 DEF TreeNodes
<1>5. i \notin Replaced(t)
    <2> SUFFICES ASSUME NEW c \in CompactionsOf(t), i \in t[c].replaces PROVE FALSE
        BY DEF Replaced
    <2>1. c \in 1..i /\ c \in CompactionsOf(l) /\ t[c] = l[c]
        BY <1>2 DEF CompactionsOf
    <2>2. i \in 1..(c - 1)
        BY <2>1 DEF LooksBack
    <2> QED BY <1>2, <2>1, <2>2
<1>6. i \in 1..i
    BY <1>1, <1>2
<1>7. \A k \in 1..i : k \in Kept(t) <=> k \in Kept(l)
    BY <1>3, <1>4 DEF Kept
<1>8. i \in Kept(t)
    BY <1>4, <1>5, <1>6 DEF Kept
<1> QED BY <1>7, <1>8 DEF t

\* What is shown of an event does not depend on what comes after it.
LEMMA ShownTheSame ==
    ASSUME NEW l, Len(l) \in Nat, NEW i \in 1..Len(l), NEW n \in Nat, n + 1 <= i,
           n + 1 \in Kept(Then(l, i)) <=> n + 1 \in Kept(l),
           NEW r, Rendering(l, n, r)
    PROVE  TakenIn(Then(l, i), r, n + 1) = TakenIn(l, r, n + 1)
<1> DEFINE t == Then(l, i)
<1>1. \A k \in 1..i : t[k] = l[k]
    BY ThenIs
<1>2. n + 1 \in Kept(t) <=> n + 1 \in Kept(l)
    OBVIOUS
<1>3. i \in Nat /\ n + 1 \in 1..i
    BY ThenIs
<1> HIDE DEF t
<1>4. t[n + 1] = l[n + 1]
    BY <1>1, <1>3
<1>5. \A k \in Held(r) : t[k] = l[k]
    <2>1. \A k \in Held(r) : k \in Kept(l) /\ k <= n
        BY DEF Rendering, Accounted
    <2>2. \A k \in Kept(l) : k \in Nat /\ 1 <= k
        BY KeptAre
    <2> QED BY <1>1, <1>3, <2>1, <2>2
<1>6. r.batch \in Seq(Nat) /\ \A k \in DOMAIN r.batch : r.batch[k] \in Held(r)
    BY RangeInNat DEF Rendering, Renders, Held
<1>7. IdsOf(t, r.batch) = IdsOf(l, r.batch) /\ IdsOf(t, r.results) = IdsOf(l, r.results)
    <2>1. \A k \in Range(r.batch) : t[k].call = l[k].call
        BY <1>5 DEF Held
    <2>2. \A k \in Range(r.results) : t[k].call = l[k].call
        BY <1>5 DEF Held
    <2> QED BY <2>1, <2>2 DEF IdsOf
<1>8. \A c : ResultOf(t, r, c) = ResultOf(l, r, c)
    BY <1>5 DEF ResultOf, Held
<1>9. \A k \in DOMAIN r.batch : t[r.batch[k]].call = l[r.batch[k]].call
    BY <1>5, <1>6
<1>10. flush(t, r) = flush(l, r)
    <2> DEFINE R(x) == [k \in DOMAIN r.batch |-> <<CHOOSE j \in ResultOf(x, r, x[r.batch[k]].call) : TRUE>>]
    <2>1. R(t) = R(l)
        BY <1>8, <1>9
    <2>2. \A x : flush(x, r) =
             IF r.batch = <<>> THEN r
             ELSE IF IdsOf(x, r.batch) \subseteq IdsOf(x, r.results)
             THEN [[r EXCEPT !.batch = <<>>, !.results = <<>>] EXCEPT !.shown =
                      Append(@, r.batch) \o R(x)]
             ELSE Drop([r EXCEPT !.batch = <<>>, !.results = <<>>],
                       Range(r.batch) \cup Range(r.results), "VIEW-BATCH-ATOMICITY")
        BY DEF flush
    <2> HIDE DEF R
    <2> QED BY <1>7, <2>1, <2>2
<1>11. ShowResult(t, r, n + 1) = ShowResult(l, r, n + 1)
    BY <1>4, <1>7, <1>8 DEF ShowResult
<1>12. ShowEvent(t, r, n + 1) = ShowEvent(l, r, n + 1)
    BY <1>4, <1>10, <1>11 DEF ShowEvent
<1> QED BY <1>2, <1>12 DEF TakenIn, t

LEMMA RenderedTheSame ==
    ASSUME NEW l, Len(l) \in Nat, NEW i \in 1..Len(l),
           \A k \in 1..i : k \in Kept(Then(l, i)) <=> k \in Kept(l),
           NEW f, IsRender(f, l, Len(l)), NEW g, IsRender(g, Then(l, i), i)
    PROVE  \A k \in 0..i : g[k] = f[k]
<1> DEFINE Wrong == {k \in 0..i : g[k] # f[k]}
<1>1. SUFFICES ASSUME NEW j \in Wrong PROVE FALSE
    OBVIOUS
<1>2. PICK k \in Wrong : \A x \in Wrong : k <= x
    <2>1. Wrong \subseteq Nat
        OBVIOUS
    <2> HIDE DEF Wrong
    <2> QED BY <1>1, <2>1, LeastPosition
<1>3. i \in Nat /\ Len(l) \in Nat /\ i <= Len(l)
    BY ThenIs
<1>4. /\ f[0] = Blank /\ \A x \in 1..Len(l) : f[x] = TakenIn(l, f[x - 1], x)
      /\ g[0] = Blank /\ \A x \in 1..i : g[x] = TakenIn(Then(l, i), g[x - 1], x)
    BY <1>3, RenderStep
<1>5. k # 0
    BY <1>4
<1> DEFINE m == k - 1
<1>6. /\ m \in Nat /\ m \in 0..i /\ m \in 0..Len(l) /\ ~(k <= m) /\ k = m + 1
      /\ k \in 1..i /\ k \in 1..Len(l) /\ k <= i
    BY <1>3, <1>5
<1>7. g[m] = f[m] /\ g[k] # f[k]
    BY <1>2, <1>6
<1>8. f[k] = TakenIn(l, f[m], k) /\ g[k] = TakenIn(Then(l, i), g[m], k)
    BY <1>4, <1>6
<1>9. Rendering(l, m, f[m])
    BY <1>3, <1>6, AllRendering
<1> HIDE DEF m
<1>10. TakenIn(Then(l, i), f[m], m + 1) = TakenIn(l, f[m], m + 1)
    <2>1. m + 1 \in Kept(Then(l, i)) <=> m + 1 \in Kept(l)
        BY <1>6
    <2> QED BY <1>6, <1>9, <2>1, ShownTheSame
<1> QED BY <1>6, <1>7, <1>8, <1>10

LEMMA AnyViewIsAppendOnly ==
    ASSUME NEW l, Len(l) \in Nat, LooksBack(l)
    PROVE  IsAppendOnlyView(l)
<1> SUFFICES ASSUME NEW i \in TreeNodes(l), IsMessage(l[i]), Replaced(Then(l, i)) = Replaced(l)
             PROVE  CommonBlocks(_render_history(Then(l, i)).shown, _render_history(l).shown)
                       = _render_history(Then(l, i)).shown
    BY DEF IsAppendOnlyView, Then
<1> DEFINE t == Then(l, i)
           n == Len(l)
<1>1. i \in 1..n
    BY DEF TreeNodes
<1>2. /\ Len(t) = i /\ i \in Nat /\ n \in Nat /\ i <= n
      /\ \A k \in 1..i : t[k] = l[k]
    BY <1>1, ThenIs
<1>3. i \in Kept(t) /\ \A k \in 1..i : k \in Kept(t) <=> k \in Kept(l)
    BY ThenKept
<1>4. PICK f : IsRender(f, l, n) /\ _render_history(l) = flush(l, f[n])
    BY <1>2, RenderedIs
<1>5. PICK g : IsRender(g, t, Len(t)) /\ _render_history(t) = flush(t, g[Len(t)])
    BY <1>2, RenderedIs
<1>6. IsRender(g, t, i) /\ _render_history(t) = flush(t, g[i])
    BY <1>2, <1>5
<1>7. g[i] = f[i]
    <2>1. \A k \in 0..i : g[k] = f[k]
        BY <1>1, <1>3, <1>4, <1>6, RenderedTheSame
    <2> QED BY <1>2, <2>1
<1> HIDE DEF t
\* A message ends the batch: nothing is held back after it.
<1>8. g[i].batch = <<>>
    <2> DEFINE m == i - 1
    <2>1. m \in Nat /\ m \in 0..i /\ i = m + 1 /\ i \in 1..i
        BY <1>1, <1>2
    <2>2. g[i] = TakenIn(t, g[m], i)
        BY <1>2, <1>6, <2>1, RenderStep
    <2>3. Rendering(t, m, g[m])
        BY <1>2, <1>6, <2>1, AllRendering
    <2>4. t[i] = l[i]
        BY <1>2, <2>1
    <2> HIDE DEF m
    <2> DEFINE q == flush(t, g[m])
    <2>5. Rendering(t, m, q) /\ q.batch = <<>>
        BY <1>2, <2>1, <2>3, FlushKeeps
    <2>6. g[i] = Show(q, m + 1)
        BY <1>3, <2>1, <2>2, <2>4 DEF TakenIn, ShowEvent, EndsBatch, IsMessage
    <2> HIDE DEF q
    <2>7. l[i].type \notin {"tool_call", "tool_result"}
        BY DEF IsMessage
    <2>8. Show(q, m + 1).batch = q.batch
        BY <1>2, <1>3, <2>1, <2>4, <2>5, <2>7, ShowKeeps
    <2> QED BY <2>5, <2>6, <2>8
<1>9. _render_history(t).shown = f[i].shown
    BY <1>6, <1>7, <1>8 DEF flush
<1> DEFINE u == f[i].shown
           v == _render_history(l).shown
<1>10. u \in Seq(Seq(Nat)) /\ v \in Seq(Seq(Nat)) /\ GoesOnAs(u, v)
    <2>1. i \in 0..n /\ n \in i..n /\ n \in 0..n
        BY <1>2
    <2>2. Rendering(l, i, f[i]) /\ Rendering(l, n, f[n])
        BY <1>2, <1>4, <2>1, AllRendering
    <2>3. GoesOnAs(f[i].shown, f[n].shown)
        BY <1>2, <1>4, <2>1, OnlyMoreIsShown
    <2> DEFINE w == flush(l, f[n])
    <2>4. Rendering(l, n, w) /\ GoesOnAs(f[n].shown, w.shown)
        BY <1>2, <2>2, FlushKeeps
    <2> HIDE DEF w
    <2>5. f[i].shown \in Seq(Seq(Nat)) /\ f[n].shown \in Seq(Seq(Nat)) /\ w.shown \in Seq(Seq(Nat))
        BY <2>2, <2>4 DEF Rendering, Renders
    <2>6. GoesOnAs(f[i].shown, w.shown)
        BY <2>3, <2>4, <2>5, GoesOnFurther
    <2> QED BY <1>4, <2>5, <2>6 DEF w
<1> HIDE DEF u, v
<1>11. LongestCommonPrefix({u, v}) = u
    BY <1>10, SharedWithLater DEF GoesOnAs
<1> QED BY <1>9, <1>11 DEF CommonBlocks, u, v, t

-----------------------------------------------------------------------------
(* A view loses nothing of a log whose calls have their results *)

CallsIn(l) == {i \in 1..Len(l) : l[i].type = "tool_call"}
ResultsIn(l) == {i \in 1..Len(l) : l[i].type = "tool_result"}
MessagesIn(l) == {i \in 1..Len(l) : IsMessage(l[i])}

Answers(l, j, i) == j \in ResultsIn(l) /\ i \in CallsIn(l) /\ l[j].call = l[i].call

EachIsAnswered(l) == \A i \in CallsIn(l) : \E j \in ResultsIn(l) : Answers(l, j, i)

\* A call has one result at most, which comes after it and before the next message.
IsPairedLog(l) ==
    /\ \A i \in CallsIn(l), j \in ResultsIn(l) : Answers(l, j, i) => i < j
    /\ \A j, k \in ResultsIn(l) : l[j].call = l[k].call => j = k
    /\ \A j \in ResultsIn(l) : \E i \in CallsIn(l) : Answers(l, j, i)
    /\ \A m \in MessagesIn(l), i \in CallsIn(l) :
          i < m => \E j \in ResultsIn(l) : j < m /\ Answers(l, j, i)

\* What is replaced is replaced together: a call and its result.
ReplacesPairs(l, R) ==
    /\ R \subseteq 1..Len(l)
    /\ \A i \in CallsIn(l) \cap R : \E j \in ResultsIn(l) : Answers(l, j, i)
    /\ \A i \in CallsIn(l), j \in ResultsIn(l) : Answers(l, j, i) => (i \in R <=> j \in R)

\* Kept, and no kept message has come since.
Awaits(l, n, i) ==
    i \in Kept(l) /\ i <= n /\ \A m \in Kept(l) : IsMessage(l[m]) /\ m <= n => m < i

HoldsAll(l, n, r) ==
    /\ r.dropped = {}
    /\ \A i : i \in Range(r.batch) <=> Awaits(l, n, i) /\ i \in CallsIn(l)
    /\ \A i : i \in Range(r.results) <=> Awaits(l, n, i) /\ i \in ResultsIn(l)

LEMMA PairsAreKept ==
    ASSUME NEW l, Len(l) \in Nat, IsPairedLog(l), ReplacesPairs(l, Replaced(l)),
           NEW i, NEW j, Answers(l, j, i)
    PROVE  /\ i \in Kept(l) <=> j \in Kept(l)
           /\ i < j
           /\ \A m \in MessagesIn(l) : i < m => j < m
<1>1. i \in CallsIn(l) /\ j \in ResultsIn(l) /\ i \in Nat /\ j \in Nat
    BY DEF Answers, CallsIn, ResultsIn
<1>2. i \in TreeNodes(l) /\ j \in TreeNodes(l)
    BY <1>1 DEF CallsIn, ResultsIn, TreeNodes, IsArtifact
<1>3. i \in Replaced(l) <=> j \in Replaced(l)
    BY <1>1 DEF ReplacesPairs
<1>4. i < j
    BY <1>1 DEF IsPairedLog
<1>5. ASSUME NEW m \in MessagesIn(l), i < m PROVE j < m
    <2>1. PICK k \in ResultsIn(l) : k < m /\ Answers(l, k, i)
        BY <1>1, <1>5 DEF IsPairedLog
    <2>2. l[k].call = l[j].call
        BY <2>1 DEF Answers
    <2>3. k = j
        BY <1>1, <2>1, <2>2 DEF IsPairedLog
    <2> QED BY <2>1, <2>3
<1> QED BY <1>2, <1>3, <1>4, <1>5 DEF Kept

\* How what awaits a message moves on by one event.
LEMMA AwaitsMoves ==
    ASSUME NEW l, Len(l) \in Nat, NEW n \in Nat
    PROVE  /\ n + 1 \notin Kept(l) => \A i : Awaits(l, n + 1, i) <=> Awaits(l, n, i)
           /\ n + 1 \in Kept(l) /\ ~IsMessage(l[n + 1]) =>
                 \A i : Awaits(l, n + 1, i) <=> Awaits(l, n, i) \/ i = n + 1
           /\ n + 1 \in Kept(l) /\ IsMessage(l[n + 1]) => \A i : ~Awaits(l, n + 1, i)
<1>1. Kept(l) \subseteq Nat
    BY KeptAre
<1>2. CASE n + 1 \notin Kept(l)
    <2>1. \A i \in Kept(l) : i <= n + 1 <=> i <= n
        BY <1>1, <1>2
    <2> QED BY <1>2, <2>1 DEF Awaits
<1>3. CASE n + 1 \in Kept(l) /\ ~IsMessage(l[n + 1])
    <2>1. \A i \in Kept(l) : i <= n + 1 <=> i <= n \/ i = n + 1
        BY <1>1
    <2>2. \A m \in Kept(l) : m <= n => m < n + 1
        BY <1>1
    <2> QED BY <1>3, <2>1, <2>2 DEF Awaits
<1>4. CASE n + 1 \in Kept(l) /\ IsMessage(l[n + 1])
    <2>1. \A i \in Kept(l) : i <= n + 1 => ~(n + 1 < i)
        BY <1>1
    <2>2. n + 1 <= n + 1
        OBVIOUS
    <2> QED BY <1>4, <2>1, <2>2 DEF Awaits
<1> QED BY <1>2, <1>3, <1>4

\* A flush where every call that is held back has its result.
LEMMA FlushLosesNothing ==
    ASSUME NEW l, Len(l) \in Nat, NEW n \in Nat, NEW r, Rendering(l, n, r), r.dropped = {},
           \A i \in Range(r.batch) : \E j \in Range(r.results) : l[j].call = l[i].call
    PROVE  flush(l, r).dropped = {}
<1>1. CASE r.batch = <<>>
    BY <1>1 DEF flush
<1>2. CASE r.batch # <<>>
    <2>1. IdsOf(l, r.batch) \subseteq IdsOf(l, r.results)
        BY DEF IdsOf
    <2> QED BY <1>2, <2>1, FlushShows DEF Rendering
<1> QED BY <1>1, <1>2

LEMMA AllAreHeld ==
    ASSUME NEW l, Len(l) \in Nat, IsPairedLog(l), ReplacesPairs(l, Replaced(l)),
           NEW n \in Nat, NEW r, Rendering(l, n, r), HoldsAll(l, n, r)
    PROVE  HoldsAll(l, n + 1, TakenIn(l, r, n + 1))
<1> DEFINE e == n + 1
<1>1. /\ r \in Renders /\ r.batch \in Seq(Nat) /\ r.results \in Seq(Nat)
      /\ e \in Nat /\ ~(e <= n) /\ Kept(l) \subseteq 1..Len(l)
    BY KeptAre DEF Rendering, Renders
<1>2. CASE e \notin Kept(l)
    <2>1. TakenIn(l, r, e) = r
        BY <1>2 DEF TakenIn
    <2>2. \A i : Awaits(l, e, i) <=> Awaits(l, n, i)
        BY <1>2, AwaitsMoves
    <2> QED BY <2>1, <2>2 DEF HoldsAll
<1>3. CASE e \in Kept(l) /\ l[e].type = "tool_call"
    <2> DEFINE b == Append(r.batch, e)
               q == [r EXCEPT !.batch = b]
    <2>1. TakenIn(l, r, e) = q
        BY <1>3 DEF TakenIn, ShowEvent, EndsBatch, IsMessage
    <2>2. Range(b) = Range(r.batch) \cup {e}
        BY <1>1, RangeAppended
    <2> HIDE DEF b
    <2>3. q.batch = b /\ q.results = r.results /\ q.dropped = r.dropped
        BY <1>1 DEF Renders
    <2> HIDE DEF q
    <2>4. \A i : Awaits(l, e, i) <=> Awaits(l, n, i) \/ i = e
        BY <1>3, AwaitsMoves DEF IsMessage
    <2>5. e \in CallsIn(l) /\ e \notin ResultsIn(l)
        BY <1>1, <1>3 DEF CallsIn, ResultsIn
    <2> HIDE DEF e
    <2> QED BY <2>1, <2>2, <2>3, <2>4, <2>5 DEF HoldsAll, e
<1>4. CASE e \in Kept(l) /\ l[e].type = "tool_result"
    <2> DEFINE b == Append(r.results, e)
               q == [r EXCEPT !.results = b]
    <2>1. e \in ResultsIn(l) /\ e \notin CallsIn(l)
        BY <1>1, <1>4 DEF CallsIn, ResultsIn
    <2>2. PICK i \in CallsIn(l) : Answers(l, e, i)
        BY <2>1 DEF IsPairedLog
    <2>3. i \in Kept(l) /\ i < e /\ \A m \in MessagesIn(l) : i < m => e < m
        BY <1>4, <2>2, PairsAreKept
    <2>4. Awaits(l, n, i)
        <3>1. i \in Nat /\ i <= n
            BY <1>1, <2>3
        <3>2. ASSUME NEW m \in Kept(l), IsMessage(l[m]), m <= n PROVE m < i
            <4>1. m \in MessagesIn(l) /\ m \in Nat
                BY <1>1, <3>2 DEF MessagesIn
            <4>2. ~(e < m)
                BY <1>1, <3>2, <4>1
            <4>3. m # i
                BY <2>2, <3>2 DEF CallsIn, IsMessage
            <4> QED BY <2>3, <3>1, <4>1, <4>2, <4>3
        <3> QED BY <2>3, <3>1, <3>2 DEF Awaits
    <2>5. l[e].call \in IdsOf(l, r.batch)
        BY <2>2, <2>4 DEF HoldsAll, IdsOf, Answers
    <2>6. ResultOf(l, r, l[e].call) = {}
        <3>1. ASSUME NEW j \in Range(r.results), l[j].call = l[e].call PROVE FALSE
            <4>1. Awaits(l, n, j) /\ j \in ResultsIn(l)
                BY <3>1 DEF HoldsAll
            <4>2. j = e
                BY <2>1, <3>1, <4>1 DEF IsPairedLog
            <4> QED BY <1>1, <4>1, <4>2 DEF Awaits
        <3> QED BY <3>1 DEF ResultOf
    <2>7. TakenIn(l, r, e) = q
        BY <1>4, <2>5, <2>6 DEF TakenIn, ShowEvent, EndsBatch, IsMessage, ShowResult
    <2>8. Range(b) = Range(r.results) \cup {e}
        BY <1>1, RangeAppended
    <2> HIDE DEF b
    <2>9. q.results = b /\ q.batch = r.batch /\ q.dropped = r.dropped
        BY <1>1 DEF Renders
    <2> HIDE DEF q
    <2>10. \A k : Awaits(l, e, k) <=> Awaits(l, n, k) \/ k = e
        BY <1>4, AwaitsMoves DEF IsMessage
    <2> HIDE DEF e
    <2> QED BY <2>1, <2>7, <2>8, <2>9, <2>10 DEF HoldsAll, e
<1>5. CASE e \in Kept(l) /\ IsMessage(l[e])
    <2> DEFINE t == flush(l, r)
               q == Show(t, e)
    <2>1. TakenIn(l, r, e) = q
        BY <1>5 DEF TakenIn, ShowEvent, EndsBatch, IsMessage
    <2>2. Rendering(l, n, t) /\ t.batch = <<>> /\ t.results = <<>>
        BY FlushKeeps
    <2>3. t.dropped = {}
        <3>1. e \in MessagesIn(l)
            BY <1>1, <1>5 DEF MessagesIn
        <3>2. ASSUME NEW i \in Range(r.batch)
              PROVE  \E j \in Range(r.results) : l[j].call = l[i].call
            <4>1. Awaits(l, n, i) /\ i \in CallsIn(l) /\ i \in Nat
                BY <3>2 DEF HoldsAll, CallsIn
            <4>2. i < e
                BY <1>1, <4>1 DEF Awaits
            <4>3. PICK j \in ResultsIn(l) : j < e /\ Answers(l, j, i)
                BY <3>1, <4>1, <4>2 DEF IsPairedLog
            <4>4. j \in Kept(l) /\ i < j /\ j \in Nat
                BY <4>1, <4>3, PairsAreKept DEF Awaits, ResultsIn
            <4>5. Awaits(l, n, j)
                <5>1. j <= n
                    BY <4>3, <4>4
                <5>2. ASSUME NEW m \in Kept(l), IsMessage(l[m]), m <= n PROVE m < j
                    <6>1. m < i /\ m \in Nat
                        BY <1>1, <4>1, <5>2 DEF Awaits
                    <6> QED BY <4>1, <4>4, <6>1
                <5> QED BY <4>4, <5>1, <5>2 DEF Awaits
            <4>6. j \in Range(r.results)
                BY <4>3, <4>5 DEF HoldsAll
            <4> QED BY <4>3, <4>6 DEF Answers
        <3> QED BY <3>2, FlushLosesNothing DEF HoldsAll
    <2> HIDE DEF t
    <2>4. q.batch = <<>> /\ q.results = <<>> /\ q.dropped = {}
        BY <2>2, <2>3 DEF Show, Rendering, Renders
    <2>5. \A i : ~Awaits(l, e, i)
        BY <1>5, AwaitsMoves
    <2> HIDE DEF q, e
    <2> QED BY <2>1, <2>4, <2>5, RangeIs DEF HoldsAll, e
<1>6. CASE e \in Kept(l) /\ ~IsMessage(l[e]) /\ l[e].type \notin {"tool_call", "tool_result"}
    <2> DEFINE q == Show(r, e)
    <2>1. TakenIn(l, r, e) = q
        BY <1>6 DEF TakenIn, ShowEvent, EndsBatch
    <2>2. q.batch = r.batch /\ q.results = r.results /\ q.dropped = r.dropped
        BY <1>1 DEF Show, Renders
    <2>3. \A i : Awaits(l, e, i) <=> Awaits(l, n, i) \/ i = e
        BY <1>6, AwaitsMoves
    <2>4. e \notin CallsIn(l) /\ e \notin ResultsIn(l)
        BY <1>6 DEF CallsIn, ResultsIn
    <2> HIDE DEF q, e
    <2> QED BY <2>1, <2>2, <2>3, <2>4 DEF HoldsAll, e
<1> QED BY <1>2, <1>3, <1>4, <1>5, <1>6

\* Nothing is dropped from the view of such a log.
LEMMA NothingIsLost ==
    ASSUME NEW l, Len(l) \in Nat, IsPairedLog(l), ReplacesPairs(l, Replaced(l)),
           EachIsAnswered(l)
    PROVE  _render_history(l).dropped = {}
<1> DEFINE n == Len(l)
<1>1. PICK f : IsRender(f, l, n) /\ _render_history(l) = flush(l, f[n])
    BY RenderedIs
<1>2. \A i \in 0..n : Rendering(l, i, f[i])
    BY <1>1, AllRendering
<1>3. f[0] = Blank /\ \A i \in 1..n : f[i] = TakenIn(l, f[i - 1], i)
    BY <1>1, RenderStep
<1>4. HoldsAll(l, 0, Blank)
    <2>1. \A i : ~Awaits(l, 0, i)
        BY DEF Awaits, Kept, TreeNodes
    <2> QED BY <2>1, RangeIs DEF HoldsAll, Blank
<1>5. HoldsAll(l, n, f[n])
    <2> DEFINE Wrong == {i \in 0..n : ~HoldsAll(l, i, f[i])}
    <2>1. SUFFICES ASSUME n \in Wrong PROVE FALSE
        OBVIOUS
    <2>2. PICK k \in Wrong : \A i \in Wrong : k <= i
        <3>1. Wrong \subseteq Nat
            OBVIOUS
        <3> HIDE DEF Wrong
        <3> QED BY <2>1, <3>1, LeastPosition
    <2>3. k # 0
        BY <1>3, <1>4
    <2> DEFINE m == k - 1
    <2>4. m \in Nat /\ m \in 0..n /\ ~(k <= m) /\ k = m + 1 /\ k \in 1..n
        BY <2>3
    <2>5. HoldsAll(l, m, f[m]) /\ Rendering(l, m, f[m])
        BY <1>2, <2>2, <2>4
    <2>6. f[k] = TakenIn(l, f[m], k)
        BY <1>3, <2>4
    <2> HIDE DEF m
    <2>7. HoldsAll(l, m + 1, TakenIn(l, f[m], m + 1))
        BY <2>4, <2>5, AllAreHeld
    <2> QED BY <2>4, <2>6, <2>7
<1>6. Rendering(l, n, f[n])
    BY <1>2
<1>7. ASSUME NEW i \in Range(f[n].batch)
      PROVE  \E j \in Range(f[n].results) : l[j].call = l[i].call
    <2>1. Awaits(l, n, i) /\ i \in CallsIn(l) /\ i \in Nat
        BY <1>5, <1>7 DEF HoldsAll, CallsIn
    <2>2. PICK j \in ResultsIn(l) : Answers(l, j, i)
        BY <2>1 DEF EachIsAnswered
    <2>3. j \in Kept(l) /\ i < j /\ j \in Nat /\ j <= n
        BY <2>1, <2>2, PairsAreKept DEF Awaits, ResultsIn
    <2>4. Awaits(l, n, j)
        <3>1. ASSUME NEW m \in Kept(l), IsMessage(l[m]), m <= n PROVE m < j
            <4>1. m < i /\ m \in Nat
                BY <2>1, <3>1, KeptAre DEF Awaits
            <4> QED BY <2>1, <2>3, <4>1
        <3> QED BY <2>3, <3>1 DEF Awaits
    <2>5. j \in Range(f[n].results)
        BY <1>5, <2>2, <2>4 DEF HoldsAll
    <2> QED BY <2>2, <2>5 DEF Answers
<1>8. flush(l, f[n]).dropped = {}
    BY <1>5, <1>6, <1>7, FlushLosesNothing DEF HoldsAll
<1> QED BY <1>1, <1>8

-----------------------------------------------------------------------------
(* How such a log grows, and what a compaction may replace in it *)

LEMMA OneEventMore ==
    ASSUME NEW S, NEW l \in Seq(S), NEW e \in S
    PROVE  LET m == Append(l, e)
               n == Len(l) + 1
           IN  /\ m \in Seq(S) /\ Len(l) \in Nat /\ Len(m) = n
               /\ \A i \in 1..Len(l) : m[i] = l[i]
               /\ m[n] = e
               /\ \A i : i \in 1..n <=> i \in 1..Len(l) \/ i = n
               /\ \A i : i \in CallsIn(m) <=> i \in CallsIn(l) \/ (i = n /\ e.type = "tool_call")
               /\ \A i : i \in ResultsIn(m) <=>
                     i \in ResultsIn(l) \/ (i = n /\ e.type = "tool_result")
               /\ \A i : i \in MessagesIn(m) <=> i \in MessagesIn(l) \/ (i = n /\ IsMessage(e))
               /\ \A i : i \in CompactionsOf(m) <=>
                     i \in CompactionsOf(l) \/ (i = n /\ e.type = "compaction")
<1> DEFINE m == Append(l, e)
           n == Len(l) + 1
<1>1. /\ m \in Seq(S) /\ Len(l) \in Nat /\ Len(m) = n
      /\ \A i \in 1..Len(l) : m[i] = l[i]
      /\ m[n] = e
    BY AppendProperties, LenProperties
<1> HIDE DEF m
<1>2. \A i : i \in 1..n <=> i \in 1..Len(l) \/ i = n
    BY <1>1
<1>3. n \notin 1..Len(l)
    BY <1>1
<1> HIDE DEF n
<1>4. /\ \A i : i \in CallsIn(m) <=> i \in CallsIn(l) \/ (i = n /\ e.type = "tool_call")
      /\ \A i : i \in ResultsIn(m) <=> i \in ResultsIn(l) \/ (i = n /\ e.type = "tool_result")
    BY <1>1, <1>2, <1>3 DEF CallsIn, ResultsIn
<1>5. /\ \A i : i \in MessagesIn(m) <=> i \in MessagesIn(l) \/ (i = n /\ IsMessage(e))
      /\ \A i : i \in CompactionsOf(m) <=>
            i \in CompactionsOf(l) \/ (i = n /\ e.type = "compaction")
    BY <1>1, <1>2, <1>3 DEF MessagesIn, CompactionsOf
<1> QED BY <1>1, <1>2, <1>4, <1>5 DEF m, n

\* A call that has no result yet, the first result of a call, or a message when
\* every call has its result.
FitsAfter(l, e) ==
    /\ e.type \in {"tool_call", "tool_result"} => \A j \in ResultsIn(l) : l[j].call # e.call
    /\ e.type = "tool_result" => \E i \in CallsIn(l) : l[i].call = e.call
    /\ IsMessage(e) => EachIsAnswered(l)

LEMMA PairedGrows ==
    ASSUME NEW S, NEW l \in Seq(S), NEW e \in S, IsPairedLog(l), FitsAfter(l, e)
    PROVE  IsPairedLog(Append(l, e))
<1> DEFINE m == Append(l, e)
           n == Len(l) + 1
<1>1. /\ Len(l) \in Nat /\ Len(m) = n /\ m[n] = e
      /\ \A i \in 1..Len(l) : m[i] = l[i]
      /\ \A i : i \in CallsIn(m) <=> i \in CallsIn(l) \/ (i = n /\ e.type = "tool_call")
      /\ \A i : i \in ResultsIn(m) <=> i \in ResultsIn(l) \/ (i = n /\ e.type = "tool_result")
      /\ \A i : i \in MessagesIn(m) <=> i \in MessagesIn(l) \/ (i = n /\ IsMessage(e))
    BY OneEventMore
<1>2. /\ \A i \in CallsIn(l) \cup ResultsIn(l) \cup MessagesIn(l) :
             i \in 1..Len(l) /\ m[i] = l[i] /\ i < n
      /\ n \in Nat
    BY <1>1 DEF CallsIn, ResultsIn, MessagesIn
<1> HIDE DEF m, n
<1>3. \A i, j : Answers(l, j, i) => Answers(m, j, i)
    BY <1>1, <1>2 DEF Answers
<1>4. ASSUME NEW i \in CallsIn(m), NEW j \in ResultsIn(m), Answers(m, j, i)
      PROVE  i < j
    <2>1. CASE j = n /\ e.type = "tool_result"
        <3>1. i # n
            BY <1>1, <2>1 DEF CallsIn
        <3> QED BY <1>1, <1>2, <2>1, <3>1
    <2>2. CASE j \in ResultsIn(l)
        <3>1. i \in CallsIn(l)
            BY <1>1, <1>2, <1>4, <2>2 DEF Answers, FitsAfter
        <3>2. Answers(l, j, i)
            BY <1>2, <1>4, <2>2, <3>1 DEF Answers
        <3> QED BY <2>2, <3>1, <3>2 DEF IsPairedLog
    <2> QED BY <1>1, <2>1, <2>2
<1>5. ASSUME NEW j \in ResultsIn(m), NEW k \in ResultsIn(m), m[j].call = m[k].call
      PROVE  j = k
    <2>1. CASE j \in ResultsIn(l) /\ k \in ResultsIn(l)
        BY <1>2, <1>5, <2>1 DEF IsPairedLog
    <2>2. CASE j \notin ResultsIn(l) \/ k \notin ResultsIn(l)
        BY <1>1, <1>2, <1>5, <2>2 DEF FitsAfter
    <2> QED BY <2>1, <2>2
<1>6. ASSUME NEW j \in ResultsIn(m)
      PROVE  \E i \in CallsIn(m) : Answers(m, j, i)
    <2>1. CASE j \in ResultsIn(l)
        <3>1. PICK i \in CallsIn(l) : Answers(l, j, i)
            BY <2>1 DEF IsPairedLog
        <3> QED BY <1>1, <1>3, <3>1
    <2>2. CASE j = n /\ e.type = "tool_result"
        <3>1. PICK i \in CallsIn(l) : l[i].call = e.call
            BY <2>2 DEF FitsAfter
        <3>2. m[i].call = m[j].call /\ i \in CallsIn(m)
            BY <1>1, <1>2, <2>2, <3>1
        <3> QED BY <3>2 DEF Answers
    <2> QED BY <1>1, <2>1, <2>2
<1>7. ASSUME NEW p \in MessagesIn(m), NEW i \in CallsIn(m), i < p
      PROVE  \E j \in ResultsIn(m) : j < p /\ Answers(m, j, i)
    <2>1. CASE p \in MessagesIn(l)
        <3>1. i # n
            BY <1>2, <1>7, <2>1
        <3>2. i \in CallsIn(l)
            BY <1>1, <3>1
        <3>3. PICK j \in ResultsIn(l) : j < p /\ Answers(l, j, i)
            BY <1>7, <2>1, <3>2 DEF IsPairedLog
        <3> QED BY <1>1, <1>3, <3>3
    <2>2. CASE p = n /\ IsMessage(e)
        <3>1. i \in CallsIn(l)
            BY <1>1, <2>2 DEF IsMessage
        <3>2. PICK j \in ResultsIn(l) : Answers(l, j, i)
            BY <2>2, <3>1 DEF FitsAfter, EachIsAnswered
        <3> QED BY <1>1, <1>2, <1>3, <2>2, <3>2
    <2> QED BY <1>1, <2>1, <2>2
<1> QED BY <1>4, <1>5, <1>6, <1>7 DEF IsPairedLog, m

LEMMA PairsStay ==
    ASSUME NEW S, NEW l \in Seq(S), NEW e \in S, FitsAfter(l, e),
           NEW R, ReplacesPairs(l, R)
    PROVE  ReplacesPairs(Append(l, e), R)
<1> DEFINE m == Append(l, e)
           n == Len(l) + 1
<1>1. /\ Len(l) \in Nat /\ Len(m) = n /\ m[n] = e
      /\ \A i \in 1..Len(l) : m[i] = l[i]
      /\ \A i : i \in CallsIn(m) <=> i \in CallsIn(l) \/ (i = n /\ e.type = "tool_call")
      /\ \A i : i \in ResultsIn(m) <=> i \in ResultsIn(l) \/ (i = n /\ e.type = "tool_result")
    BY OneEventMore
<1>2. /\ \A i \in CallsIn(l) \cup ResultsIn(l) : i \in 1..Len(l) /\ m[i] = l[i]
      /\ n \in Nat /\ n \notin 1..Len(l) /\ 1..Len(l) \subseteq 1..n
    BY <1>1 DEF CallsIn, ResultsIn
<1> HIDE DEF m, n
<1>3. \A i, j : Answers(l, j, i) => Answers(m, j, i)
    BY <1>1, <1>2 DEF Answers
<1>4. R \subseteq 1..Len(m) /\ n \notin R
    BY <1>1, <1>2 DEF ReplacesPairs
<1>5. ASSUME NEW i \in CallsIn(m) \cap R
      PROVE  i \in CallsIn(l) /\ \E j \in ResultsIn(l) : Answers(l, j, i)
    BY <1>1, <1>4 DEF ReplacesPairs
<1>6. ASSUME NEW i \in CallsIn(m), NEW j \in ResultsIn(m), Answers(m, j, i)
      PROVE  i \in R <=> j \in R
    <2>1. CASE j \in ResultsIn(l)
        <3>1. i \in CallsIn(l)
            BY <1>1, <1>2, <1>6, <2>1 DEF Answers, FitsAfter
        <3>2. Answers(l, j, i)
            BY <1>2, <1>6, <2>1, <3>1 DEF Answers
        <3> QED BY <2>1, <3>1, <3>2 DEF ReplacesPairs
    <2>2. CASE j = n /\ e.type = "tool_result"
        <3>1. i \in CallsIn(l)
            BY <1>1, <2>2
        <3>2. l[i].call = e.call
            BY <1>1, <1>2, <1>6, <2>2, <3>1 DEF Answers
        <3>3. ~\E k \in ResultsIn(l) : Answers(l, k, i)
            BY <2>2, <3>2 DEF FitsAfter, Answers
        <3> QED BY <1>4, <1>5, <2>2, <3>3
    <2> QED BY <1>1, <2>1, <2>2
<1>7. \A i \in CallsIn(m) \cap R : \E j \in ResultsIn(m) : Answers(m, j, i)
    BY <1>1, <1>3, <1>5
<1> QED BY <1>4, <1>6, <1>7 DEF ReplacesPairs, m

LEMMA ReplacedGrows ==
    ASSUME NEW S, NEW l \in Seq(S), NEW e \in S
    PROVE  Replaced(Append(l, e)) =
               Replaced(l) \cup (IF e.type = "compaction" THEN e.replaces ELSE {})
<1> DEFINE m == Append(l, e)
           n == Len(l) + 1
<1>1. /\ m[n] = e
      /\ \A i \in 1..Len(l) : m[i] = l[i]
      /\ \A i : i \in CompactionsOf(m) <=>
            i \in CompactionsOf(l) \/ (i = n /\ e.type = "compaction")
      /\ \A i \in CompactionsOf(l) : i \in 1..Len(l)
    BY OneEventMore DEF CompactionsOf
<1> HIDE DEF m, n
<1>2. \A x : x \in Replaced(m) <=>
          x \in Replaced(l) \/ (e.type = "compaction" /\ x \in e.replaces)
    BY <1>1 DEF Replaced
<1> QED BY <1>2 DEF m

LEMMA PairsTogether ==
    ASSUME NEW l, NEW R, NEW Q, ReplacesPairs(l, R), ReplacesPairs(l, Q)
    PROVE  ReplacesPairs(l, R \cup Q)
BY DEF ReplacesPairs

\* Of a log in which every call has its result a compaction replaces no half of
\* a pair: a group goes from one message to the next.
LEMMA VictimsArePairs ==
    ASSUME NEW l, Len(l) \in Nat, IsPairedLog(l), EachIsAnswered(l), NEW keep
    PROVE  ReplacesPairs(l, Victims(l, keep))
<1>1. \A g \in WholeGroups(l) : g \in iter_groups(l)
    BY DEF WholeGroups
<1>2. ASSUME NEW i, NEW j, Answers(l, j, i)
      PROVE  /\ i \in TreeNodes(l) /\ j \in TreeNodes(l) /\ i \in Nat /\ j \in Nat
             /\ i < j
             /\ \A m \in MessagesIn(l) : i < m => j < m
    <2>1. i \in CallsIn(l) /\ j \in ResultsIn(l) /\ i \in Nat /\ j \in Nat
        BY <1>2 DEF Answers, CallsIn, ResultsIn
    <2>2. i \in TreeNodes(l) /\ j \in TreeNodes(l)
        BY <2>1 DEF CallsIn, ResultsIn, TreeNodes, IsArtifact
    <2>3. i < j
        BY <1>2, <2>1 DEF IsPairedLog
    <2>4. ASSUME NEW m \in MessagesIn(l), i < m PROVE j < m
        <3>1. PICK k \in ResultsIn(l) : k < m /\ Answers(l, k, i)
            BY <2>1, <2>4 DEF IsPairedLog
        <3>2. k = j
            BY <1>2, <2>1, <3>1 DEF IsPairedLog, Answers
        <3> QED BY <3>1, <3>2
    <2> QED BY <2>1, <2>2, <2>3, <2>4
<1>3. \A s \in GroupStarts(l) : /\ s \in Nat /\ s \in TreeNodes(l)
                                /\ s \in MessagesIn(l) \/ \A i \in TreeNodes(l) : s <= i
    <2>1. SUFFICES ASSUME NEW s \in GroupStarts(l)
                   PROVE  /\ s \in Nat /\ s \in TreeNodes(l)
                          /\ s \in MessagesIn(l) \/ \A i \in TreeNodes(l) : s <= i
        OBVIOUS
    <2>2. s \in TreeNodes(l) /\ s \in Nat /\ TreeNodes(l) \subseteq Nat /\ s \in 1..Len(l)
        BY DEF GroupStarts, TreeNodes
    <2>3. PICK x \in TreeNodes(l) : \A i \in TreeNodes(l) : x <= i
        BY <2>2, LeastPosition
    <2>4. \A i \in TreeNodes(l) : Min(TreeNodes(l)) <= i
        BY <2>3 DEF Min
    <2>5. IsMessage(l[s]) \/ s = Min(TreeNodes(l))
        BY DEF GroupStarts
    <2> QED BY <2>2, <2>4, <2>5 DEF MessagesIn
<1>4. ASSUME NEW g \in iter_groups(l), NEW i, NEW j, Answers(l, j, i)
      PROVE  i \in g <=> j \in g
    <2>1. PICK s \in GroupStarts(l) :
              g = {x \in TreeNodes(l) : s <= x /\ \A t \in GroupStarts(l) : t <= s \/ x < t}
        BY DEF iter_groups
    <2>2. /\ i \in TreeNodes(l) /\ j \in TreeNodes(l) /\ i \in Nat /\ j \in Nat /\ i < j
          /\ \A t \in GroupStarts(l) : t \in Nat /\ (i < t => j < t)
        BY <1>2, <1>3, <1>4
    <2>3. s <= i <=> s <= j
        BY <2>2
    <2>4. \A t \in GroupStarts(l) : i < t <=> j < t
        BY <2>2
    <2> QED BY <2>1, <2>2, <2>3, <2>4
<1>5. \A g \in iter_groups(l) : g \subseteq 1..Len(l)
    BY DEF iter_groups, TreeNodes
<1>6. Victims(l, keep) \subseteq 1..Len(l)
    BY <1>1, <1>5 DEF Victims
<1>7. \A i, j : Answers(l, j, i) => (i \in Victims(l, keep) <=> j \in Victims(l, keep))
    BY <1>1, <1>4 DEF Victims
<1> QED BY <1>6, <1>7 DEF ReplacesPairs, EachIsAnswered

=============================================================================
