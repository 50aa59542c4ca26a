----------------------------- MODULE StoreProofs -----------------------------
(***************************************************************************)
(* Proofs about the event store (EventStore, StoreProperties), for any     *)
(* branches, forks of forks, batches and changes from outside.             *)
(***************************************************************************)
EXTENDS StoreProperties, FiniteSetTheorems, SequenceTheorems, WellFoundedInduction, TLAPS

-----------------------------------------------------------------------------
(* The rows of one branch, in the order of their numbers *)

Rank(S, e) == Cardinality({x \in S : x.seq <= e.seq})

Numbered(S) ==
    /\ IsFiniteSet(S)
    /\ \A e \in S : e.seq \in Nat
    /\ \A e, f \in S : e.seq = f.seq => e = f

\* A row's rank is its place among the rows, and every place is taken.
LEMMA RankIsPlace ==
    ASSUME NEW S, Numbered(S)
    PROVE  /\ Cardinality(S) \in Nat
           /\ \A e \in S : Rank(S, e) \in 1..Cardinality(S)
           /\ \A e, f \in S : e.seq < f.seq => Rank(S, e) < Rank(S, f)
           /\ \A i \in 1..Cardinality(S) : \E e \in S : Rank(S, e) = i
<1> DEFINE Below(e) == {x \in S : x.seq <= e.seq}
           n == Cardinality(S)
           rank == [e \in S |-> Rank(S, e)]
<1>1. IsFiniteSet(S) /\ n \in Nat
    BY FS_CardinalityType DEF Numbered
<1>2. ASSUME NEW e \in S
      PROVE  IsFiniteSet(Below(e)) /\ Rank(S, e) \in Nat /\ Rank(S, e) \in 1..n
    <2>1. Below(e) \in SUBSET S
        OBVIOUS
    <2>2. IsFiniteSet(Below(e)) /\ Cardinality(Below(e)) <= n
        BY <1>1, <2>1, FS_Subset
    <2>3. Cardinality(Below(e)) \in Nat
        BY <2>2, FS_CardinalityType
    <2>4. e \in Below(e)
        BY DEF Numbered
    <2>5. Cardinality(Below(e)) # 0
        BY <2>2, <2>4, FS_EmptySet
    <2> QED BY <1>1, <2>2, <2>3, <2>5 DEF Rank
<1>3. ASSUME NEW e \in S, NEW f \in S, e.seq < f.seq
      PROVE  Rank(S, e) < Rank(S, f)
    <2>1. Below(e) \in SUBSET Below(f)
        BY <1>3 DEF Numbered
    <2>2. f \in Below(f) /\ f \notin Below(e)
        BY <1>3 DEF Numbered
    <2>3. IsFiniteSet(Below(f))
        BY <1>2
    <2>4. Cardinality(Below(e)) <= Cardinality(Below(f))
          /\ Cardinality(Below(e)) # Cardinality(Below(f))
        BY <2>1, <2>2, <2>3, FS_Subset
    <2>5. Rank(S, e) <= Rank(S, f) /\ Rank(S, e) # Rank(S, f)
        BY <2>4 DEF Rank
    <2>6. Rank(S, e) \in Nat /\ Rank(S, f) \in Nat
        BY <1>2
    <2> QED BY <2>5, <2>6
<1>4. rank \in Injection(S, 1..n)
    <2>1. rank \in [S -> 1..n]
        BY <1>2
    <2>2. ASSUME NEW e \in S, NEW f \in S, rank[e] = rank[f]
          PROVE  e = f
        <3>1. Rank(S, e) = Rank(S, f) /\ Rank(S, e) \in Nat
            BY <1>2, <2>2
        <3>2. ~(e.seq < f.seq)
            BY <1>3, <3>1
        <3>3. ~(f.seq < e.seq)
            BY <1>3, <3>1
        <3> QED BY <3>2, <3>3 DEF Numbered
    <2> QED BY <2>1, <2>2 DEF Injection, IsInjective
<1>5. IsFiniteSet(1..n) /\ Cardinality(1..n) = n
    <2>1. IsFiniteSet(1..n) /\ Cardinality(1..n) = IF 1 > n THEN 0 ELSE n - 1 + 1
        BY <1>1, FS_Interval
    <2> QED BY <1>1, <2>1
<1>6. rank \in Surjection(S, 1..n)
    BY <1>4, <1>5, FS_Injection
<1>7. \A i \in 1..n : \E e \in S : Rank(S, e) = i
    BY <1>6 DEF Surjection
<1> QED BY <1>1, <1>2, <1>3, <1>7

\* ORDER BY seq: each row once, by increasing numbers.
LEMMA OwnIsInOrder ==
    ASSUME NEW R, NEW b, Numbered(RowsOf(R, b))
    PROVE  /\ own_events(R, b) \in Seq(RowsOf(R, b))
           /\ Len(own_events(R, b)) = Cardinality(RowsOf(R, b))
           /\ Len(own_events(R, b)) \in Nat
           /\ \A i \in 1..Len(own_events(R, b)) : /\ own_events(R, b)[i] \in RowsOf(R, b)
                                                  /\ Rank(RowsOf(R, b), own_events(R, b)[i]) = i
           /\ \A e \in RowsOf(R, b) : \E i \in 1..Len(own_events(R, b)) : own_events(R, b)[i] = e
           /\ \A i, j \in 1..Len(own_events(R, b)) :
                 i < j => own_events(R, b)[i].seq < own_events(R, b)[j].seq
<1> DEFINE S == RowsOf(R, b)
           n == Cardinality(S)
           own == own_events(R, b)
<1>1. /\ n \in Nat
      /\ \A e \in S : Rank(S, e) \in 1..n
      /\ \A e, f \in S : e.seq < f.seq => Rank(S, e) < Rank(S, f)
      /\ \A i \in 1..n : \E e \in S : Rank(S, e) = i
    BY RankIsPlace
<1>2. own = [i \in 1..n |-> CHOOSE e \in S : Rank(S, e) = i]
    BY DEF own_events, Rank
<1> HIDE DEF S, n, own
<1>3. ASSUME NEW i \in 1..n
      PROVE  own[i] \in S /\ Rank(S, own[i]) = i
    BY <1>1, <1>2
<1>4. own \in [1..n -> S]
    BY <1>2, <1>3
<1>5. own \in Seq(S) /\ Len(own) = n
    BY <1>1, <1>4
<1>6. ASSUME NEW e \in S, NEW f \in S, Rank(S, e) = Rank(S, f)
      PROVE  e = f
    <2>1. ~(e.seq < f.seq) /\ ~(f.seq < e.seq)
        BY <1>1, <1>6
    <2> QED BY <2>1 DEF Numbered, S
<1>7. ASSUME NEW e \in S
      PROVE  \E i \in 1..n : own[i] = e
    <2>1. Rank(S, e) \in 1..n
        BY <1>1
    <2> QED BY <1>3, <1>6, <2>1
<1>8. ASSUME NEW i \in 1..n, NEW j \in 1..n, i < j
      PROVE  own[i].seq < own[j].seq
    <2>1. own[i].seq \in Nat /\ own[j].seq \in Nat
        BY <1>3 DEF Numbered, S
    <2>2. own[i].seq # own[j].seq
        BY <1>3, <1>8 DEF Numbered, S
    <2>3. ~(own[j].seq < own[i].seq)
        BY <1>1, <1>3, <1>8
    <2> QED BY <2>1, <2>2, <2>3
<1> QED BY <1>1, <1>3, <1>5, <1>7, <1>8 DEF own, S, n

\* A row with a number beyond those of its branch comes last.
ComesLast(R, r) ==
    /\ Numbered(RowsOf(R, r.branch))
    /\ r.seq \in Nat
    /\ \A e \in RowsOf(R, r.branch) : e.seq < r.seq

LEMMA OwnGrows ==
    ASSUME NEW R, NEW r, ComesLast(R, r)
    PROVE  own_events(R \cup {r}, r.branch) = Append(own_events(R, r.branch), r)
<1> DEFINE b == r.branch
           Q == R \cup {r}
<1>0. /\ Numbered(RowsOf(R, b)) /\ r.branch = b /\ r.seq \in Nat /\ Q = R \cup {r}
      /\ \A e \in RowsOf(R, b) : e.seq < r.seq
    BY DEF ComesLast
<1> HIDE DEF b, Q
<1> DEFINE S == RowsOf(R, b)
           T == RowsOf(Q, b)
           s == own_events(R, b)
           t == own_events(Q, b)
<1>1. T = S \cup {r} /\ r \notin S
    BY <1>0 DEF RowsOf
<1>2. Numbered(T) /\ Cardinality(T) = Cardinality(S) + 1
    <2>0. /\ IsFiniteSet(S)
          /\ \A e \in S : e.seq \in Nat /\ e.seq < r.seq
          /\ \A e, f \in S : e.seq = f.seq => e = f
        BY <1>0 DEF Numbered
    <2> HIDE DEF S, T
    <2>1. IsFiniteSet(T) /\ Cardinality(T) = Cardinality(S) + 1
        <3>1. /\ IsFiniteSet(S \cup {r})
              /\ Cardinality(S \cup {r}) = IF r \in S THEN Cardinality(S) ELSE Cardinality(S) + 1
            BY <2>0, FS_AddElement
        <3> QED BY <1>1, <3>1
    <2>2. \A e \in T : e.seq \in Nat
        BY <1>0, <1>1, <2>0
    <2>3. ASSUME NEW e \in T, NEW f \in T, e.seq = f.seq
          PROVE  e = f
        <3>1. CASE e = r \/ f = r
            BY <1>1, <2>0, <2>3, <3>1
        <3>2. CASE e \in S /\ f \in S
            BY <2>0, <2>3, <3>2
        <3> QED BY <1>1, <3>1, <3>2
    <2> QED BY <2>1, <2>2, <2>3 DEF Numbered
<1> DEFINE n == Cardinality(S)
<1>3. /\ s \in Seq(S) /\ Len(s) = n /\ n \in Nat
      /\ \A i \in 1..n : s[i] \in S /\ Rank(S, s[i]) = i
    BY <1>0, OwnIsInOrder
<1>4. /\ t \in Seq(T) /\ Len(t) = n + 1
      /\ \A i \in 1..n + 1 : t[i] \in T /\ Rank(T, t[i]) = i
      /\ \A e \in T : \E i \in 1..n + 1 : t[i] = e
    <2>1. Numbered(RowsOf(Q, b))
        BY <1>2
    <2>2. t \in Seq(T) /\ Len(t) = Cardinality(T)
        BY <2>1, OwnIsInOrder
    <2>3. \A i \in 1..Len(t) : t[i] \in T /\ Rank(T, t[i]) = i
        BY <2>1, OwnIsInOrder
    <2>4. \A e \in T : \E i \in 1..Len(t) : t[i] = e
        BY <2>1, OwnIsInOrder
    <2> HIDE DEF T, t, n, S
    <2>5. Len(t) = n + 1
        BY <1>2, <2>2 DEF n
    <2> QED BY <2>2, <2>3, <2>4, <2>5
<1>5. \A e \in S : Rank(T, e) = Rank(S, e)
    <2>1. ASSUME NEW e \in S
          PROVE  {x \in T : x.seq <= e.seq} = {x \in S : x.seq <= e.seq}
        <3>1. e.seq \in Nat /\ e.seq < r.seq /\ ~(r.seq <= e.seq)
            BY <1>0 DEF Numbered
        <3> HIDE DEF S, T
        <3> QED BY <1>1, <3>1
    <2> QED BY <2>1 DEF Rank
<1>6. Rank(T, r) = n + 1
    <2>1. {x \in T : x.seq <= r.seq} = T
        BY <1>0, <1>1 DEF Numbered
    <2> QED BY <1>2, <2>1 DEF Rank
<1> HIDE DEF S, T, s, t, n
<1>7. t[n + 1] = r
    BY <1>1, <1>3, <1>4, <1>6
<1>8. ASSUME NEW i \in 1..n
      PROVE  t[i] = s[i]
    <2>1. s[i] \in T /\ Rank(T, s[i]) = i
        BY <1>1, <1>3, <1>5
    <2> QED BY <1>3, <1>4, <2>1
<1>9. t = Append(s, r)
    <2>1. s \in Seq(T) /\ r \in T
        BY <1>1, <1>3, SeqMonotonic
    <2>2. Append(s, r) \in Seq(T) /\ Len(Append(s, r)) = n + 1
        BY <1>3, <2>1
    <2>3. \A i \in 1..n + 1 : Append(s, r)[i] = t[i]
        BY <1>3, <1>7, <1>8, <2>1
    <2> QED BY <1>4, <2>2, <2>3, SeqEqual
<1> QED BY <1>9 DEF s, t, b, Q

LEMMA OwnStays ==
    ASSUME NEW R, NEW Q, NEW b, RowsOf(Q, b) = RowsOf(R, b)
    PROVE  own_events(Q, b) = own_events(R, b)
BY DEF own_events

-----------------------------------------------------------------------------
(* The logs of a tree of branches *)

\* A branch's log and whether it can be read, as functions of both tables.
IsEff(B, R, f) ==
    f = [c \in DOMAIN B |->
            IF B[c].parent = NoBranch THEN own_events(R, c)
            ELSE UpTo(f[B[c].parent], B[c].fork) \o own_events(R, c)]

Eff(B, R) == CHOOSE f : IsEff(B, R, f)

IsOk(B, R, g) ==
    g = [c \in DOMAIN B |->
            B[c].parent # NoBranch =>
                /\ g[B[c].parent]
                /\ InLog(Eff(B, R)[B[c].parent], B[c].fork)]

Ok(B, R) == CHOOSE g : IsOk(B, R, g)

LEMMA EffIsEffective ==
    ASSUME NEW R, NEW b
    PROVE  /\ effective_events(R, b) = Eff(branches, R)[b]
           /\ Readable(R, b) <=> Ok(branches, R)[b]
BY DEF effective_events, Readable, Eff, Ok, IsEff, IsOk, Created

LEMMA EffIsEffectiveNext ==
    ASSUME NEW b
    PROVE  /\ (effective_events(rows, b))' = Eff(branches', rows')[b]
           /\ (Readable(rows, b))' <=> Ok(branches', rows')[b]
BY DEF effective_events, Readable, Eff, Ok, IsEff, IsOk, Created

\* The parents make a tree: going up ends, so the functions above exist.
GoodTree(B) ==
    /\ DOMAIN B \subseteq Branches
    /\ \A b \in DOMAIN B : B[b].parent \in DOMAIN B \cup {NoBranch}
    /\ \A S \in SUBSET DOMAIN B : S # {} => \E c \in S : B[c].parent \notin S
    /\ \A R : \E f : IsEff(B, R, f)
    /\ \A R : \E g : IsOk(B, R, g)

LEMMA EffStep ==
    ASSUME NEW B, GoodTree(B), NEW R, NEW b \in DOMAIN B
    PROVE  /\ B[b].parent = NoBranch => Eff(B, R)[b] = own_events(R, b)
           /\ B[b].parent # NoBranch =>
                 /\ B[b].parent \in DOMAIN B
                 /\ Eff(B, R)[b] = UpTo(Eff(B, R)[B[b].parent], B[b].fork) \o own_events(R, b)
<1>1. IsEff(B, R, Eff(B, R))
    BY DEF GoodTree, Eff
<1>2. Eff(B, R)[b] =
          IF B[b].parent = NoBranch THEN own_events(R, b)
          ELSE UpTo(Eff(B, R)[B[b].parent], B[b].fork) \o own_events(R, b)
    BY <1>1 DEF IsEff
<1>3. B[b].parent \in DOMAIN B \cup {NoBranch}
    BY DEF GoodTree
<1> QED BY <1>2, <1>3

LEMMA OkStep ==
    ASSUME NEW B, GoodTree(B), NEW R, NEW b \in DOMAIN B
    PROVE  Ok(B, R)[b] <=>
             (B[b].parent # NoBranch => /\ Ok(B, R)[B[b].parent]
                                        /\ InLog(Eff(B, R)[B[b].parent], B[b].fork))
<1>1. IsOk(B, R, Ok(B, R))
    BY DEF GoodTree, Ok
<1> QED BY <1>1 DEF IsOk

\* Induction from the roots down.
LEMMA TreeInduction ==
    ASSUME NEW B, GoodTree(B), NEW P,
           \A b \in DOMAIN B : (B[b].parent # NoBranch => B[b].parent \in P) => b \in P
    PROVE  DOMAIN B \subseteq P
<1> DEFINE S == DOMAIN B \ P
<1>1. SUFFICES ASSUME S # {} PROVE FALSE
    OBVIOUS
<1>2. PICK c \in S : B[c].parent \notin S
    BY <1>1 DEF GoodTree
<1>3. B[c].parent \in DOMAIN B \cup {NoBranch}
    BY DEF GoodTree
<1> QED BY <1>2, <1>3

\* A branch more leaves the tree a tree and the other logs as they are.
LEMMA TreeGrows ==
    ASSUME NEW B, GoodTree(B), NEW b \in Branches, b \notin DOMAIN B,
           NEW new, new.parent \in DOMAIN B \cup {NoBranch},
           NEW C, C = [c \in DOMAIN B \cup {b} |-> IF c = b THEN new ELSE B[c]]
    PROVE  /\ GoodTree(C)
           /\ \A R : \A c \in DOMAIN B : /\ Eff(C, R)[c] = Eff(B, R)[c]
                                         /\ Ok(C, R)[c] <=> Ok(B, R)[c]
<1>1. /\ DOMAIN C = DOMAIN B \cup {b}
      /\ C[b] = new
      /\ \A c \in DOMAIN B : C[c] = B[c] /\ c # b
    OBVIOUS
<1>2. /\ DOMAIN B \subseteq Branches
      /\ \A c \in DOMAIN B : B[c].parent \in DOMAIN B \cup {NoBranch}
      /\ b # NoBranch
      /\ NoBranch \notin DOMAIN B
    BY NoBranchIsNone DEF GoodTree
<1>3. ASSUME NEW S \in SUBSET DOMAIN C, S # {}
      PROVE  \E c \in S : C[c].parent \notin S
    <2>1. CASE S \cap DOMAIN B = {}
        <3>1. S = {b}
            BY <1>1, <1>3, <2>1
        <3> QED BY <1>1, <1>2, <3>1
    <2>2. CASE S \cap DOMAIN B # {}
        <3>1. PICK c \in S \cap DOMAIN B : B[c].parent \notin S \cap DOMAIN B
            BY <2>2 DEF GoodTree
        <3> QED BY <1>1, <1>2, <3>1
    <2> QED BY <2>1, <2>2
<1>4. ASSUME NEW R
      PROVE  /\ \E f : IsEff(C, R, f)
             /\ \E g : IsOk(C, R, g)
             /\ \A c \in DOMAIN B : /\ Eff(C, R)[c] = Eff(B, R)[c]
                                    /\ Ok(C, R)[c] <=> Ok(B, R)[c]
    <2> DEFINE e == Eff(B, R)
               f == [c \in DOMAIN C |->
                        IF c = b
                        THEN IF new.parent = NoBranch THEN own_events(R, b)
                             ELSE UpTo(e[new.parent], new.fork) \o own_events(R, b)
                        ELSE e[c]]
    <2>1. \A c \in DOMAIN B :
              e[c] = IF B[c].parent = NoBranch THEN own_events(R, c)
                     ELSE UpTo(e[B[c].parent], B[c].fork) \o own_events(R, c)
        BY EffStep
    <2> HIDE DEF e
    <2>2. IsEff(C, R, f)
        <3>1. ASSUME NEW c \in DOMAIN C
              PROVE  f[c] = IF C[c].parent = NoBranch THEN own_events(R, c)
                            ELSE UpTo(f[C[c].parent], C[c].fork) \o own_events(R, c)
            <4>1. CASE c = b
                <5>1. new.parent # NoBranch => f[new.parent] = e[new.parent]
                    BY <1>1
                <5> QED BY <1>1, <4>1, <5>1
            <4>2. CASE c # b
                <5>1. B[c].parent # NoBranch => f[B[c].parent] = e[B[c].parent]
                    BY <1>1, <1>2, <4>2
                <5>2. c \in DOMAIN B /\ C[c] = B[c] /\ f[c] = e[c]
                    BY <1>1, <4>2
                <5> QED BY <2>1, <5>1, <5>2
            <4> QED BY <4>1, <4>2
        <3> HIDE DEF f
        <3>2. f = [c \in DOMAIN C |-> f[c]]
            BY DEF f
        <3> QED BY <3>1, <3>2 DEF IsEff
    <2>3. IsEff(C, R, Eff(C, R))
        BY <2>2 DEF Eff
    <2> DEFINE h == Eff(C, R)
    <2>4. \A c \in DOMAIN C :
              h[c] = IF C[c].parent = NoBranch THEN own_events(R, c)
                     ELSE UpTo(h[C[c].parent], C[c].fork) \o own_events(R, c)
        BY <2>3 DEF IsEff
    <2> HIDE DEF h
    <2>5. \A c \in DOMAIN B : h[c] = e[c]
        <3> DEFINE P == {c \in DOMAIN B : h[c] = e[c]}
        <3>1. ASSUME NEW c \in DOMAIN B, B[c].parent # NoBranch => B[c].parent \in P
              PROVE  c \in P
            <4>1. h[c] = IF B[c].parent = NoBranch THEN own_events(R, c)
                         ELSE UpTo(h[B[c].parent], B[c].fork) \o own_events(R, c)
                BY <1>1, <2>4
            <4>2. B[c].parent # NoBranch => h[B[c].parent] = e[B[c].parent]
                BY <3>1
            <4> QED BY <2>1, <4>1, <4>2
        <3> HIDE DEF P
        <3>2. DOMAIN B \subseteq P
            BY <3>1, TreeInduction
        <3> QED BY <3>2 DEF P
    <2> DEFINE o == Ok(B, R)
               g == [c \in DOMAIN C |->
                        IF c = b
                        THEN new.parent # NoBranch => o[new.parent] /\ InLog(h[new.parent], new.fork)
                        ELSE o[c]]
    <2>6. \A c \in DOMAIN B :
              o[c] = (B[c].parent # NoBranch => o[B[c].parent] /\ InLog(e[B[c].parent], B[c].fork))
        <3>1. IsOk(B, R, o)
            BY DEF GoodTree, Ok
        <3> QED BY <3>1 DEF IsOk, e
    <2> HIDE DEF o
    <2>7. IsOk(C, R, g)
        <3>1. ASSUME NEW c \in DOMAIN C
              PROVE  g[c] = (C[c].parent # NoBranch => g[C[c].parent] /\ InLog(h[C[c].parent], C[c].fork))
            <4>1. CASE c = b
                <5>1. new.parent # NoBranch => g[new.parent] = o[new.parent]
                    BY <1>1
                <5>2. g[c] = (new.parent # NoBranch => o[new.parent] /\ InLog(h[new.parent], new.fork))
                    BY <4>1
                <5> HIDE DEF g
                <5> QED BY <1>1, <4>1, <5>1, <5>2
            <4>2. CASE c # b
                <5>1. B[c].parent # NoBranch => g[B[c].parent] = o[B[c].parent]
                    BY <1>1, <1>2, <4>2
                <5>2. c \in DOMAIN B /\ C[c] = B[c] /\ g[c] = o[c]
                    BY <1>1, <4>2
                <5>3. B[c].parent # NoBranch => h[B[c].parent] = e[B[c].parent]
                    BY <1>2, <2>5, <5>2
                <5> HIDE DEF g
                <5> QED BY <2>6, <5>1, <5>2, <5>3
            <4> QED BY <4>1, <4>2
        <3> HIDE DEF g
        <3>2. g = [c \in DOMAIN C |-> g[c]]
            BY DEF g
        <3> QED BY <3>1, <3>2 DEF IsOk, h
    <2>8. IsOk(C, R, Ok(C, R))
        BY <2>7 DEF Ok
    <2>9. \A c \in DOMAIN B : Ok(C, R)[c] <=> o[c]
        <3> DEFINE q == Ok(C, R)
                   P == {c \in DOMAIN B : q[c] <=> o[c]}
        <3>1. \A c \in DOMAIN C :
                  q[c] = (C[c].parent # NoBranch => q[C[c].parent] /\ InLog(h[C[c].parent], C[c].fork))
            BY <2>8 DEF IsOk, h
        <3> HIDE DEF q
        <3>2. ASSUME NEW c \in DOMAIN B, B[c].parent # NoBranch => B[c].parent \in P
              PROVE  c \in P
            <4>1. q[c] = (B[c].parent # NoBranch => q[B[c].parent] /\ InLog(h[B[c].parent], B[c].fork))
                BY <1>1, <3>1
            <4>2. B[c].parent # NoBranch =>
                      /\ h[B[c].parent] = e[B[c].parent]
                      /\ q[B[c].parent] <=> o[B[c].parent]
                BY <2>5, <3>2
            <4>3. q[c] <=> o[c]
                BY <2>6, <4>1, <4>2
            <4> QED BY <4>3
        <3> HIDE DEF P
        <3>3. DOMAIN B \subseteq P
            BY <3>2, TreeInduction
        <3> QED BY <3>3 DEF P, q
    <2> QED BY <2>2, <2>5, <2>7, <2>9 DEF e, h, o
<1>5. GoodTree(C)
    <2>1. \A c \in DOMAIN C : C[c].parent \in DOMAIN C \cup {NoBranch}
        BY <1>1, <1>2
    <2>2. DOMAIN C \subseteq Branches
        BY <1>1, <1>2
    <2>3. \A R : \E f : IsEff(C, R, f)
        BY <1>4
    <2>4. \A R : \E g : IsOk(C, R, g)
        BY <1>4
    <2> QED BY <1>3, <2>1, <2>2, <2>3, <2>4 DEF GoodTree
<1> QED BY <1>4, <1>5

-----------------------------------------------------------------------------
(* The rows of the table *)

EventRecords ==
    [id : EventIds, run : Runs, branch : Branches, seq : Nat,
     parent : Parents, body : Bodies \cup {Altered}]

Hashes == Seq(EventRecords)

StoredRows ==
    [id : EventIds, run : Runs, branch : Branches, seq : Nat,
     parent : Parents, body : Bodies \cup {Altered}, prev : Hashes, hash : Hashes]

\* The keys of the table, and hashes as long as the numbers say.
GoodRows(B, R) ==
    /\ IsFiniteSet(R)
    /\ R \subseteq StoredRows
    /\ \A e \in R : e.branch \in DOMAIN B /\ Len(e.prev) = e.seq /\ Len(e.hash) = e.seq + 1
    /\ \A e, f \in R : e.id = f.id => e = f
    /\ \A e, f \in R : e.branch = f.branch /\ e.seq = f.seq => e = f

LEMMA RowsAre ==
    ASSUME NEW e \in StoredRows
    PROVE  /\ e.id \in EventIds /\ e.run \in Runs /\ e.branch \in Branches /\ e.seq \in Nat
           /\ e.parent \in Parents /\ e.body \in Bodies \cup {Altered}
           /\ e.prev \in Hashes /\ e.hash \in Hashes
           /\ event_record(e) \in EventRecords
BY DEF StoredRows, EventRecords, event_record

LEMMA RowsAreNumbered ==
    ASSUME NEW B, NEW R, GoodRows(B, R), NEW b
    PROVE  Numbered(RowsOf(R, b))
<1>1. RowsOf(R, b) \in SUBSET R
    BY DEF RowsOf
<1>2. IsFiniteSet(RowsOf(R, b))
    BY <1>1, FS_Subset DEF GoodRows
<1>3. \A e \in RowsOf(R, b) : e.seq \in Nat
    BY RowsAre DEF RowsOf, GoodRows
<1>4. \A e, f \in RowsOf(R, b) : e.seq = f.seq => e = f
    BY DEF RowsOf, GoodRows
<1> QED BY <1>2, <1>3, <1>4 DEF Numbered

LEMMA OwnEvents ==
    ASSUME NEW B, NEW R, GoodRows(B, R), NEW b
    PROVE  /\ own_events(R, b) \in Seq(R)
           /\ Len(own_events(R, b)) \in Nat
           /\ \A i \in 1..Len(own_events(R, b)) :
                 own_events(R, b)[i] \in R /\ own_events(R, b)[i].branch = b
           /\ \A e \in RowsOf(R, b) : \E i \in 1..Len(own_events(R, b)) : own_events(R, b)[i] = e
           /\ own_events(R, b) = <<>> <=> RowsOf(R, b) = {}
           /\ own_events(R, b) = <<>> <=> Len(own_events(R, b)) = 0
           /\ \A i \in 1..Len(own_events(R, b)) :
                 own_events(R, b)[i].seq <= own_events(R, b)[Len(own_events(R, b))].seq
<1> DEFINE own == own_events(R, b)
           S == RowsOf(R, b)
<1>1. Numbered(RowsOf(R, b))
    BY RowsAreNumbered
<1>2. own \in Seq(S) /\ Len(own) \in Nat
    BY <1>1, OwnIsInOrder
<1>3. \A i \in 1..Len(own) : own[i] \in S
    BY <1>1, OwnIsInOrder
<1>4. \A e \in S : \E i \in 1..Len(own) : own[i] = e
    BY <1>1, OwnIsInOrder
<1>5. \A i, j \in 1..Len(own) : i < j => own[i].seq < own[j].seq
    BY <1>1, OwnIsInOrder
<1>6. S \subseteq R /\ \A e \in S : e.branch = b /\ e.seq \in Nat
    BY RowsAre DEF RowsOf, GoodRows
<1> HIDE DEF own, S
<1>7. own \in Seq(R)
    BY <1>2, <1>6, SeqMonotonic
<1>8. own = <<>> <=> Len(own) = 0
    BY <1>2
<1>9. own = <<>> <=> S = {}
    BY <1>2, <1>3, <1>4, <1>8
<1>10. ASSUME NEW i \in 1..Len(own)
       PROVE  own[i].seq <= own[Len(own)].seq
    <2>1. Len(own) \in 1..Len(own)
        BY <1>2
    <2>2. i = Len(own) \/ own[i].seq < own[Len(own)].seq
        BY <1>2, <1>5, <2>1
    <2> QED BY <1>3, <1>6, <2>1, <2>2
<1> QED BY <1>2, <1>3, <1>4, <1>6, <1>7, <1>8, <1>9, <1>10 DEF own, S

LEMMA LeastOf ==
    ASSUME NEW S, S \subseteq Nat, S # {}
    PROVE  \E n \in S : \A m \in S : n <= m
<1>1. PICK n \in S : \A m \in S : ~(<<m, n>> \in OpToRel(<, Nat))
    BY NatLessThanWellFounded, WFMin
<1>2. \A m \in S : ~(m < n)
    BY <1>1 DEF OpToRel
<1> QED BY <1>2

\* The log to the first event of an id.
IsCut(log, id, n) == log[n].id = id /\ \A j \in 1..n - 1 : log[j].id # id

LEMMA CutIsThere ==
    ASSUME NEW S, NEW log \in Seq(S), NEW id, InLog(log, id)
    PROVE  \E n \in 1..Len(log) : IsCut(log, id, n)
<1> DEFINE found == {i \in 1..Len(log) : log[i].id = id}
<1>1. Len(log) \in Nat
    OBVIOUS
<1>2. found \subseteq Nat /\ found # {}
    BY <1>1 DEF InLog
<1>3. PICK n \in found : \A m \in found : n <= m
    <2> HIDE DEF found
    <2> QED BY <1>2, LeastOf
<1>4. \A j \in 1..n - 1 : log[j].id # id
    BY <1>1, <1>3
<1> QED BY <1>3, <1>4 DEF IsCut

LEMMA UpToCut ==
    ASSUME NEW S, NEW log \in Seq(S), NEW id, NEW n \in 1..Len(log), IsCut(log, id, n)
    PROVE  UpTo(log, id) = SubSeq(log, 1, n)
<1> DEFINE c == CHOOSE i \in 1..Len(log) : log[i].id = id /\ \A j \in 1..i - 1 : log[j].id # id
<1>1. Len(log) \in Nat
    OBVIOUS
<1>2. /\ c \in 1..Len(log)
      /\ log[c].id = id
      /\ \A j \in 1..c - 1 : log[j].id # id
    BY DEF IsCut
<1>3. UpTo(log, id) = SubSeq(log, 1, c)
    BY <1>2 DEF UpTo
<1> HIDE DEF c
<1>4. c = n
    BY <1>1, <1>2 DEF IsCut
<1> QED BY <1>3, <1>4

LEMMA UpToIs ==
    ASSUME NEW S, NEW log \in Seq(S), NEW id
    PROVE  /\ UpTo(log, id) \in Seq(S)
           /\ InLog(log, id) =>
                 \E n \in 1..Len(log) :
                    /\ IsCut(log, id, n)
                    /\ UpTo(log, id) = SubSeq(log, 1, n)
                    /\ Len(UpTo(log, id)) = n
                    /\ \A i \in 1..n : UpTo(log, id)[i] = log[i]
<1>1. CASE InLog(log, id)
    <2>1. PICK n \in 1..Len(log) : IsCut(log, id, n)
        BY <1>1, CutIsThere
    <2>2. UpTo(log, id) = SubSeq(log, 1, n)
        BY <2>1, UpToCut
    <2>3. Len(log) \in Nat /\ \A i \in 1..n : log[i] \in S
        OBVIOUS
    <2>4. /\ SubSeq(log, 1, n) \in Seq(S)
          /\ Len(SubSeq(log, 1, n)) = n
          /\ \A i \in 1..n : SubSeq(log, 1, n)[i] = log[i]
        BY <2>3, SubSeqProperties
    <2> QED BY <2>1, <2>2, <2>4
<1>2. CASE ~InLog(log, id)
    BY <1>2 DEF UpTo, InLog
<1> QED BY <1>1, <1>2

\* What comes after a fork point does not show in the fork.
LEMMA CutStays ==
    ASSUME NEW S, NEW log \in Seq(S), NEW r \in S, NEW id, InLog(log, id)
    PROVE  /\ InLog(Append(log, r), id)
           /\ UpTo(Append(log, r), id) = UpTo(log, id)
<1> DEFINE more == Append(log, r)
<1>1. PICK n \in 1..Len(log) : IsCut(log, id, n)
    BY CutIsThere
<1>2. /\ more \in Seq(S)
      /\ Len(more) = Len(log) + 1
      /\ Len(log) \in Nat
      /\ \A i \in 1..Len(log) : more[i] = log[i] /\ log[i] \in S
    OBVIOUS
<1> HIDE DEF more
<1>3. n \in 1..Len(more) /\ IsCut(more, id, n)
    BY <1>1, <1>2 DEF IsCut
<1>4. UpTo(more, id) = SubSeq(more, 1, n) /\ UpTo(log, id) = SubSeq(log, 1, n)
    BY <1>1, <1>2, <1>3, UpToCut
<1>5. /\ SubSeq(log, 1, n) \in Seq(S)
      /\ Len(SubSeq(log, 1, n)) = n
      /\ \A i \in 1..n : SubSeq(log, 1, n)[i] = log[i]
    <2>1. \A i \in 1..n : log[i] \in S
        BY <1>2
    <2> QED BY <1>2, <2>1, SubSeqProperties
<1>6. /\ SubSeq(more, 1, n) \in Seq(S)
      /\ Len(SubSeq(more, 1, n)) = n
      /\ \A i \in 1..n : SubSeq(more, 1, n)[i] = more[i]
    <2>1. \A i \in 1..n : more[i] \in S
        BY <1>2
    <2> QED BY <1>2, <2>1, SubSeqProperties
<1>7. SubSeq(more, 1, n) = SubSeq(log, 1, n)
    BY <1>2, <1>5, <1>6, SeqEqual
<1>8. InLog(more, id)
    BY <1>3 DEF InLog, IsCut
<1> QED BY <1>4, <1>7, <1>8 DEF more

LEMMA EffIsOfRows ==
    ASSUME NEW B, NEW R, GoodTree(B), GoodRows(B, R)
    PROVE  \A b \in DOMAIN B : Eff(B, R)[b] \in Seq(R)
<1> DEFINE e == Eff(B, R)
           P == {b \in DOMAIN B : e[b] \in Seq(R)}
<1>1. ASSUME NEW b \in DOMAIN B, B[b].parent # NoBranch => B[b].parent \in P
      PROVE  b \in P
    <2>1. own_events(R, b) \in Seq(R)
        BY OwnEvents
    <2>2. CASE B[b].parent = NoBranch
        BY <2>1, <2>2, EffStep
    <2>3. CASE B[b].parent # NoBranch
        <3>1. e[b] = UpTo(e[B[b].parent], B[b].fork) \o own_events(R, b)
            BY <2>3, EffStep
        <3> HIDE DEF e
        <3>2. UpTo(e[B[b].parent], B[b].fork) \in Seq(R)
            BY <1>1, <2>3, UpToIs
        <3>3. e[b] \in Seq(R)
            BY <2>1, <3>1, <3>2, ConcatProperties
        <3> QED BY <3>3
    <2> QED BY <2>2, <2>3
<1> HIDE DEF P
<1>2. DOMAIN B \subseteq P
    BY <1>1, TreeInduction
<1> QED BY <1>2 DEF P

-----------------------------------------------------------------------------
(* The chain *)

RecordsOf(log, n) == [j \in 1..n |-> event_record(log[j])]

\* Numbered from 0 without gaps, and each hash is that of the log so far.
WholeAt(log, i) == log[i].seq = i - 1 /\ log[i].hash = RecordsOf(log, i)

Whole(log) == \A i \in 1..Len(log) : WholeAt(log, i)

ForkOf(B, R, b) == CHOOSE e \in R : e.id = B[b].fork

\* ChainHolds, as a function of both tables.
Chained(B, R, b) ==
    own_events(R, b) # <<>> =>
        /\ B[b].parent # NoBranch => ById(R, B[b].fork) # {}
        /\ own_events(R, b)[1].prev =
              IF B[b].parent # NoBranch THEN ForkOf(B, R, b).hash ELSE GENESIS_HASH
        /\ \A i \in 2..Len(own_events(R, b)) :
              own_events(R, b)[i].prev = own_events(R, b)[i - 1].hash
        /\ \A i \in 1..Len(own_events(R, b)) :
              own_events(R, b)[i].hash =
                  compute_event_hash(own_events(R, b)[i].prev, own_events(R, b)[i])

LEMMA ChainHoldsIs ==
    \A b : ChainHolds(b) <=> Chained(branches, rows, b)
BY DEF ChainHolds, Chained, ForkRow, ForkOf

LEMMA ForkOfIs ==
    ASSUME NEW B, NEW R, GoodRows(B, R), NEW b, NEW e \in R, e.id = B[b].fork
    PROVE  ForkOf(B, R, b) = e
<1>1. ForkOf(B, R, b) \in R /\ ForkOf(B, R, b).id = B[b].fork
    BY DEF ForkOf
<1> QED BY <1>1 DEF GoodRows

\* The records of a log and one more.
LEMMA RecordsGrow ==
    ASSUME NEW log, NEW n \in Nat, \A i \in 1..n + 1 : event_record(log[i]) \in EventRecords
    PROVE  /\ RecordsOf(log, n) \in Hashes
           /\ Len(RecordsOf(log, n)) = n
           /\ Append(RecordsOf(log, n), event_record(log[n + 1])) = RecordsOf(log, n + 1)
<1> DEFINE s == RecordsOf(log, n)
           t == RecordsOf(log, n + 1)
           r == event_record(log[n + 1])
<1>1. /\ s \in Hashes /\ Len(s) = n
      /\ \A j \in 1..n : s[j] = event_record(log[j])
    <2>1. s = [j \in 1..n |-> event_record(log[j])]
        BY DEF RecordsOf
    <2> HIDE DEF s
    <2>2. \A j \in 1..n : s[j] \in EventRecords /\ s[j] = event_record(log[j])
        BY <2>1
    <2>3. s \in [1..n -> EventRecords]
        BY <2>1, <2>2
    <2> QED BY <2>2, <2>3 DEF Hashes
<1>2. /\ t \in Hashes /\ Len(t) = n + 1
      /\ \A j \in 1..n + 1 : t[j] = event_record(log[j])
    <2>1. t = [j \in 1..n + 1 |-> event_record(log[j])]
        BY DEF RecordsOf
    <2> HIDE DEF t
    <2>2. \A j \in 1..n + 1 : t[j] \in EventRecords /\ t[j] = event_record(log[j])
        BY <2>1
    <2>3. t \in [1..n + 1 -> EventRecords]
        BY <2>1, <2>2
    <2> QED BY <2>2, <2>3 DEF Hashes
<1>3. r \in EventRecords
    OBVIOUS
<1> HIDE DEF s, t
<1>4. /\ Append(s, r) \in Hashes /\ Len(Append(s, r)) = n + 1
      /\ \A j \in 1..n : Append(s, r)[j] = s[j]
      /\ Append(s, r)[n + 1] = r
    <2> HIDE DEF r
    <2> QED BY <1>1, <1>3 DEF Hashes
<1>5. \A j \in 1..n + 1 : Append(s, r)[j] = t[j]
    <2>1. \A j \in 1..n + 1 : j \in 1..n \/ j = n + 1
        OBVIOUS
    <2> QED BY <1>1, <1>2, <1>4, <2>1
<1>6. Append(s, r) = t
    BY <1>2, <1>4, <1>5, SeqEqual DEF Hashes
<1> QED BY <1>1, <1>6 DEF s, t

\* A chain on from a whole log makes a whole log.
LEMMA ChainIsWhole ==
    ASSUME NEW B, NEW R, GoodRows(B, R),
           NEW base \in Seq(R), NEW own \in Seq(R), Whole(base),
           own # <<>> => own[1].prev = RecordsOf(base, Len(base)),
           \A i \in 2..Len(own) : own[i].prev = own[i - 1].hash,
           \A i \in 1..Len(own) : own[i].hash = compute_event_hash(own[i].prev, own[i])
    PROVE  Whole(base \o own)
<1> DEFINE log == base \o own
           m == Len(base)
           bad == {i \in 1..Len(own) : ~WholeAt(log, m + i)}
<1>1. /\ log \in Seq(R)
      /\ Len(log) = m + Len(own) /\ m \in Nat /\ Len(own) \in Nat
      /\ \A i \in 1..m : log[i] = base[i]
      /\ \A i \in 1..Len(own) : log[m + i] = own[i]
    <2>1. \A i \in 1..m + Len(own) : log[i] = IF i <= m THEN base[i] ELSE own[i - m]
        BY ConcatProperties
    <2>2. log \in Seq(R) /\ Len(log) = m + Len(own) /\ m \in Nat /\ Len(own) \in Nat
        BY ConcatProperties
    <2> HIDE DEF log, m
    <2> QED BY <2>1, <2>2
<1> HIDE DEF log, m
<1>2. \A i \in 1..m + Len(own) : log[i] \in StoredRows /\ event_record(log[i]) \in EventRecords
                                 /\ Len(log[i].prev) = log[i].seq
    <2>1. \A i \in 1..m + Len(own) : log[i] \in R
        BY <1>1
    <2> QED BY <2>1, RowsAre DEF GoodRows
<1>3. \A i \in 1..m : WholeAt(log, i)
    <2>1. ASSUME NEW i \in 1..m
          PROVE  RecordsOf(log, i) = RecordsOf(base, i)
        <3>1. \A j \in 1..i : log[j] = base[j]
            BY <1>1
        <3> QED BY <3>1 DEF RecordsOf
    <2>2. \A i \in 1..m : WholeAt(base, i) /\ log[i] = base[i]
        BY <1>1 DEF Whole, m
    <2> QED BY <2>1, <2>2 DEF WholeAt
<1>4. RecordsOf(log, m) = RecordsOf(base, m)
    BY <1>1 DEF RecordsOf
<1>5. ASSUME NEW i \in 1..Len(own), i > 1 => WholeAt(log, m + i - 1)
      PROVE  WholeAt(log, m + i)
    <2>1. log[m + i].prev = RecordsOf(log, m + i - 1)
        <3>1. CASE i = 1
            BY <1>1, <1>4, <3>1 DEF m
        <3>2. CASE i > 1
            <4>1. i \in 2..Len(own) /\ i - 1 \in 1..Len(own) /\ m + (i - 1) = m + i - 1
                BY <1>1, <3>2
            <4>2. log[m + i].prev = log[m + i - 1].hash
                BY <1>1, <4>1
            <4> QED BY <1>5, <3>2, <4>2 DEF WholeAt
        <3> QED BY <1>1, <3>1, <3>2
    <2> DEFINE n == m + i - 1
    <2>2. n \in Nat /\ n + 1 = m + i /\ n + 1 \in 1..m + Len(own)
        BY <1>1
    <2>3. log[m + i].hash = Append(log[m + i].prev, event_record(log[m + i]))
        BY <1>1 DEF compute_event_hash
    <2> HIDE DEF n
    <2>4. \A j \in 1..n + 1 : event_record(log[j]) \in EventRecords
        BY <1>1, <1>2, <2>2
    <2>5. /\ Len(RecordsOf(log, n)) = n
          /\ Append(RecordsOf(log, n), event_record(log[n + 1])) = RecordsOf(log, n + 1)
        BY <2>2, <2>4, RecordsGrow
    <2>6. log[n + 1].prev = RecordsOf(log, n)
        BY <2>1, <2>2 DEF n
    <2>7. log[n + 1].seq = n
        BY <1>2, <2>2, <2>5, <2>6
    <2>8. log[n + 1].hash = RecordsOf(log, n + 1)
        BY <2>2, <2>3, <2>5, <2>6
    <2>9. WholeAt(log, n + 1)
        BY <2>2, <2>7, <2>8 DEF WholeAt
    <2> QED BY <2>2, <2>9
<1>6. bad = {}
    <2>1. SUFFICES ASSUME bad # {} PROVE FALSE
        OBVIOUS
    <2>2. bad \subseteq Nat
        OBVIOUS
    <2>3. PICK i \in bad : \A j \in bad : i <= j
        <3> HIDE DEF bad
        <3> QED BY <2>1, <2>2, LeastOf
    <2>4. i \in 1..Len(own) /\ i - 1 \notin bad
        BY <1>1, <2>3
    <2>5. i > 1 => WholeAt(log, m + (i - 1))
        BY <1>1, <2>4
    <2>6. m + (i - 1) = m + i - 1
        BY <1>1, <2>4
    <2> QED BY <1>5, <2>3, <2>4, <2>5, <2>6
<1>7. ASSUME NEW k \in 1..Len(log)
      PROVE  WholeAt(log, k)
    <2>1. CASE k <= m
        BY <1>1, <1>3, <2>1
    <2>2. CASE k > m
        <3>1. k - m \in 1..Len(own) /\ m + (k - m) = k
            BY <1>1, <2>2
        <3> QED BY <1>6, <3>1
    <2> QED BY <1>1, <2>1, <2>2
<1> QED BY <1>7 DEF Whole, log

\* What the offline check says of the rows says that every log that can be read
\* is whole, forks of forks included.
LEMMA AuditedIsWhole ==
    ASSUME NEW B, NEW R, GoodTree(B), GoodRows(B, R),
           \A b \in DOMAIN B : Chained(B, R, b)
    PROVE  \A b \in DOMAIN B : Ok(B, R)[b] => Whole(Eff(B, R)[b])
<1> DEFINE e == Eff(B, R)
           P == {b \in DOMAIN B : Ok(B, R)[b] => Whole(e[b])}
<1>1. ASSUME NEW b \in DOMAIN B, B[b].parent # NoBranch => B[b].parent \in P, Ok(B, R)[b]
      PROVE  Whole(e[b])
    <2> DEFINE own == own_events(R, b)
    <2>1. own \in Seq(R) /\ Len(own) \in Nat /\ (own # <<>> => Len(own) # 0)
        BY OwnEvents
    <2>2. Chained(B, R, b)
        OBVIOUS
    <2>3. /\ \A i \in 2..Len(own) : own[i].prev = own[i - 1].hash
          /\ \A i \in 1..Len(own) : own[i].hash = compute_event_hash(own[i].prev, own[i])
        <3>1. CASE own = <<>>
            BY <3>1
        <3>2. CASE own # <<>>
            BY <2>2, <3>2 DEF Chained
        <3> QED BY <3>1, <3>2
    <2>4. CASE B[b].parent = NoBranch
        <3>1. e[b] = own
            BY <2>4, EffStep
        <3>2. own # <<>> => own[1].prev = <<>>
            BY <2>2, <2>4 DEF Chained, GENESIS_HASH
        <3> HIDE DEF own, e
        <3>3. <<>> \in Seq(R) /\ Whole(<<>>) /\ RecordsOf(<<>>, Len(<<>>)) = <<>>
            BY DEF Whole, RecordsOf
        <3>4. Whole(<<>> \o own)
            BY <2>1, <2>3, <3>2, <3>3, ChainIsWhole
        <3>5. <<>> \o own = own
            BY <2>1, ConcatEmptySeq
        <3> QED BY <3>1, <3>4, <3>5
    <2>5. CASE B[b].parent # NoBranch
        <3> DEFINE p == B[b].parent
                   base == UpTo(e[p], B[b].fork)
        <3>1. p \in DOMAIN B /\ e[b] = base \o own
            BY <2>5, EffStep
        <3>2. Ok(B, R)[p] /\ InLog(e[p], B[b].fork)
            BY <1>1, <2>5, OkStep
        <3>3. Whole(e[p])
            BY <1>1, <2>5, <3>2
        <3>4. e[p] \in Seq(R)
            BY <3>1, EffIsOfRows
        <3> HIDE DEF e, own
        <3>5. base \in Seq(R)
            BY <3>4, UpToIs
        <3>6. PICK n \in 1..Len(e[p]) : /\ IsCut(e[p], B[b].fork, n)
                                        /\ Len(base) = n
                                        /\ \A i \in 1..n : base[i] = e[p][i]
            <4> DEFINE l == e[p]
                       f == B[b].fork
            <4>1. l \in Seq(R) /\ InLog(l, f)
                BY <3>2, <3>4
            <4> HIDE DEF l, f
            <4>2. \E n \in 1..Len(l) :
                      /\ IsCut(l, f, n)
                      /\ Len(UpTo(l, f)) = n
                      /\ \A i \in 1..n : UpTo(l, f)[i] = l[i]
                BY <4>1, UpToIs
            <4> QED BY <4>2 DEF l, f
        <3> HIDE DEF base
        <3>7. Len(e[p]) \in Nat
            BY <3>4
        <3>8. \A i \in 1..n : RecordsOf(base, i) = RecordsOf(e[p], i)
            <4>1. ASSUME NEW i \in 1..n
                  PROVE  \A j \in 1..i : base[j] = e[p][j]
                BY <3>6, <3>7
            <4> QED BY <4>1 DEF RecordsOf
        <3>9. Whole(base)
            <4>1. \A i \in 1..n : WholeAt(e[p], i)
                BY <3>3, <3>7 DEF Whole
            <4> QED BY <3>6, <3>8, <4>1 DEF Whole, WholeAt
        <3>10. e[p][n] \in R /\ e[p][n].id = B[b].fork
            BY <3>4, <3>6 DEF IsCut
        <3>11. ForkOf(B, R, b) = e[p][n]
            BY <3>10, ForkOfIs
        <3>12. e[p][n].hash = RecordsOf(base, Len(base))
            <4>1. n \in 1..n
                BY <3>7
            <4>2. WholeAt(e[p], n)
                BY <3>3 DEF Whole
            <4> QED BY <3>6, <3>8, <4>1, <4>2 DEF WholeAt
        <3>13. own # <<>> => own[1].prev = RecordsOf(base, Len(base))
            BY <2>2, <2>5, <3>11, <3>12 DEF Chained, own
        <3>14. Whole(base \o own)
            BY <2>1, <2>3, <3>5, <3>9, <3>13, ChainIsWhole
        <3> QED BY <3>1, <3>14
    <2> QED BY <2>4, <2>5
<1>2. \A b \in DOMAIN B : (B[b].parent # NoBranch => B[b].parent \in P) => b \in P
    BY <1>1
<1> HIDE DEF P
<1>3. DOMAIN B \subseteq P
    BY <1>2, TreeInduction
<1> QED BY <1>3 DEF P

-----------------------------------------------------------------------------
(* Appending one event *)

\* The row of an event that is accepted: its number is the next one of the log
\* and of the chain, whether the branch has rows or only inherits some.
LEMMA NextRow ==
    ASSUME NEW R, GoodTree(branches), GoodRows(branches, R),
           NEW new \in NewEvents(EventIds), Accepted(R, new)
    PROVE  LET b == new.branch
               own == own_events(R, b)
               log == Eff(branches, R)[b]
               r == Row(R, new)
           IN  /\ b \in DOMAIN branches
               /\ r \in StoredRows
               /\ r.branch = b
               /\ \A e \in R : e.id # r.id
               /\ r.seq = IF log = <<>> THEN 0 ELSE log[Len(log)].seq + 1
               /\ Len(r.prev) = r.seq /\ Len(r.hash) = r.seq + 1
               /\ r.hash = compute_event_hash(r.prev, r)
               /\ \A e \in RowsOf(R, b) : e.seq < r.seq
               /\ own # <<>> => r.prev = own[Len(own)].hash
               /\ own = <<>> /\ branches[b].parent # NoBranch =>
                     ById(R, branches[b].fork) # {} /\ r.prev = ForkOf(branches, R, b).hash
               /\ own = <<>> /\ branches[b].parent = NoBranch => r.prev = <<>>
<1> DEFINE b == new.branch
           own == own_events(R, b)
           log == Eff(branches, R)[b]
           r == Row(R, new)
           seq == _next_seq(R, b)
           prev == _prev_hash(R, b)
<1>1. /\ new.id \in EventIds /\ new.run \in Runs /\ b \in Branches
      /\ new.parent \in Parents /\ new.body \in Bodies
    BY DEF NewEvents
<1>2. /\ b \in DOMAIN branches
      /\ RowsOf(R, b) = {} => Readable(R, b)
      /\ ById(R, new.id) = {}
    BY DEF Accepted, Created
<1>3. seq = IF log = <<>> THEN 0 ELSE log[Len(log)].seq + 1
    BY EffIsEffective DEF _next_seq, Last
<1>4. /\ own # <<>> => prev = own[Len(own)].hash
      /\ own = <<>> /\ branches[b].parent # NoBranch /\ ById(R, branches[b].fork) # {} =>
            prev = ForkOf(branches, R, b).hash
      /\ own = <<>> /\ branches[b].parent = NoBranch => prev = <<>>
    BY DEF _prev_hash, Last, ForkRow, ForkOf, GENESIS_HASH
<1>5. /\ r.id = new.id /\ r.run = new.run /\ r.branch = b /\ r.seq = seq
      /\ r.parent = new.parent /\ r.body = new.body
      /\ r.prev = prev /\ r.hash = Append(prev, event_record(r))
    BY DEF Row, compute_event_hash, event_record
<1>6. r = [id |-> new.id, run |-> new.run, branch |-> b, seq |-> seq, parent |-> new.parent,
           body |-> new.body, prev |-> prev, hash |-> r.hash]
    BY DEF Row
<1>7. /\ own \in Seq(R) /\ Len(own) \in Nat
      /\ own = <<>> <=> RowsOf(R, b) = {}
      /\ own = <<>> <=> Len(own) = 0
      /\ \A e \in RowsOf(R, b) : \E i \in 1..Len(own) : own[i] = e
      /\ \A i \in 1..Len(own) : own[i].seq <= own[Len(own)].seq
    BY OwnEvents
<1>8. log \in Seq(R)
    BY <1>2, EffIsOfRows
<1>9. \A e \in R : /\ e \in StoredRows /\ e.seq \in Nat
                   /\ e.hash \in Hashes /\ Len(e.hash) = e.seq + 1
    BY RowsAre DEF GoodRows
<1>10. b \in DOMAIN branches
    BY <1>2
<1>11. branches[b].parent # NoBranch =>
          /\ branches[b].parent \in DOMAIN branches
          /\ log = UpTo(Eff(branches, R)[branches[b].parent], branches[b].fork) \o own
    <2> HIDE DEF b
    <2> QED BY <1>10, EffStep
<1> DEFINE Fits ==
               /\ prev \in Hashes /\ Len(prev) = seq /\ seq \in Nat
               /\ \A e \in RowsOf(R, b) : e.seq < seq
               /\ own = <<>> /\ branches[b].parent # NoBranch =>
                     ById(R, branches[b].fork) # {} /\ prev = ForkOf(branches, R, b).hash
<1>12. ASSUME own # <<>>
       PROVE  Fits
    <2>1. \E base \in Seq(R) : log = base \o own
        <3>1. CASE branches[b].parent = NoBranch
            <4>1. log = own /\ <<>> \in Seq(R)
                BY <1>2, <3>1, EffStep
            <4>2. <<>> \o own = own
                BY <1>7, ConcatEmptySeq
            <4> QED BY <4>1, <4>2
        <3>2. CASE branches[b].parent # NoBranch
            <4> DEFINE p == branches[b].parent
                       base == UpTo(Eff(branches, R)[p], branches[b].fork)
            <4>1. p \in DOMAIN branches /\ log = base \o own
                BY <1>11, <3>2
            <4>2. base \in Seq(R)
                <5>1. Eff(branches, R)[p] \in Seq(R)
                    BY <4>1, EffIsOfRows
                <5> QED BY <5>1, UpToIs
            <4> QED BY <4>1, <4>2
        <3> QED BY <3>1, <3>2
    <2> HIDE DEF own, log, seq, prev, r, b
    <2>2. PICK base \in Seq(R) : log = base \o own
        BY <2>1
    <2>3. /\ Len(log) = Len(base) + Len(own)
          /\ \A i \in 1..Len(base) + Len(own) :
                log[i] = IF i <= Len(base) THEN base[i] ELSE own[i - Len(base)]
        BY <1>7, <2>2, ConcatProperties
    <2>4. Len(base) \in Nat /\ Len(own) \in Nat \ {0}
        BY <1>7, <1>12, <2>2
    <2>5. log[Len(log)] = own[Len(own)] /\ log # <<>>
        <3>1. log[Len(log)] = own[Len(log) - Len(base)] /\ Len(log) - Len(base) = Len(own)
            BY <2>3, <2>4
        <3> QED BY <1>8, <2>3, <2>4, <3>1
    <2>6. own[Len(own)] \in R
        BY <1>7, <2>4
    <2>7. seq = own[Len(own)].seq + 1 /\ seq \in Nat /\ prev \in Hashes /\ Len(prev) = seq
        BY <1>3, <1>4, <1>9, <1>12, <2>5, <2>6
    <2>8. \A e \in RowsOf(R, b) : e.seq < seq
        <3>1. ASSUME NEW e \in RowsOf(R, b)
              PROVE  e.seq <= own[Len(own)].seq /\ e.seq \in Nat
            BY <1>7, <1>9
        <3> QED BY <1>9, <2>6, <2>7, <3>1
    <2> QED BY <1>12, <2>7, <2>8
<1>13. ASSUME own = <<>>, branches[b].parent = NoBranch
       PROVE  Fits
    <2>1. log = <<>>
        BY <1>2, <1>13, EffStep
    <2>2. seq = 0 /\ prev = <<>>
        <3> HIDE DEF own, log, seq, prev, r
        <3> QED BY <1>3, <1>4, <1>13, <2>1
    <2>3. prev \in Hashes /\ Len(prev) = seq /\ seq \in Nat
        <3> HIDE DEF own, log, seq, prev, r
        <3> QED BY <2>2 DEF Hashes
    <2> QED BY <1>7, <1>13, <2>3
<1>14. ASSUME own = <<>>, branches[b].parent # NoBranch
       PROVE  Fits
    <2> DEFINE l == Eff(branches, R)[branches[b].parent]
               f == branches[b].fork
    <2>1. Ok(branches, R)[b]
        BY <1>2, <1>7, <1>14, EffIsEffective
    <2>2. branches[b].parent \in DOMAIN branches /\ log = UpTo(l, f) \o own
        BY <1>14, <1>11
    <2>3. InLog(l, f)
        BY <1>2, <1>14, <2>1, OkStep
    <2>4. l \in Seq(R)
        BY <2>2, EffIsOfRows
    <2> HIDE DEF l, own, log, seq, prev, r, f
    <2>5. PICK n \in 1..Len(l) : /\ IsCut(l, f, n)
                                 /\ Len(UpTo(l, f)) = n
                                 /\ \A i \in 1..n : UpTo(l, f)[i] = l[i]
        BY <2>3, <2>4, UpToIs
    <2>6. log = UpTo(l, f)
        <3>1. UpTo(l, f) \in Seq(R)
            BY <2>4, UpToIs
        <3> QED BY <1>14, <2>2, <3>1, ConcatEmptySeq
    <2>7. log # <<>> /\ log[Len(log)] = l[n]
        BY <1>8, <2>4, <2>5, <2>6
    <2>8. l[n] \in R /\ l[n].id = f
        BY <2>4, <2>5 DEF IsCut
    <2>9. ForkOf(branches, R, b) = l[n] /\ ById(R, branches[b].fork) # {}
        <3>1. ById(R, branches[b].fork) # {}
            BY <2>8 DEF ById, f
        <3>2. ForkOf(branches, R, b) = l[n]
            BY <2>8, ForkOfIs DEF f
        <3> QED BY <3>1, <3>2
    <2>10. seq = l[n].seq + 1 /\ prev = l[n].hash
        BY <1>3, <1>4, <1>14, <2>7, <2>9
    <2>11. prev \in Hashes /\ Len(prev) = seq /\ seq \in Nat
        BY <1>9, <2>8, <2>10
    <2>12. RowsOf(R, b) = {}
        BY <1>7, <1>14
    <2> QED BY <2>9, <2>10, <2>11, <2>12
<1>15. Fits
    BY <1>12, <1>13, <1>14
<1> HIDE DEF own, log, seq, prev, b
<1>16. /\ event_record(r) \in EventRecords
       /\ r.hash \in Hashes /\ Len(r.hash) = seq + 1
    <2> HIDE DEF r
    <2>1. event_record(r) \in EventRecords
        BY <1>1, <1>5, <1>15 DEF event_record, EventRecords
    <2> QED BY <1>5, <1>15, <2>1 DEF Hashes
<1>17. r \in StoredRows
    <2> DEFINE h == r.hash
    <2>1. h \in Hashes
        BY <1>16
    <2> HIDE DEF h
    <2>2. [id |-> new.id, run |-> new.run, branch |-> b, seq |-> seq, parent |-> new.parent,
           body |-> new.body, prev |-> prev, hash |-> h] \in StoredRows
        BY <1>1, <1>15, <2>1 DEF StoredRows
    <2> QED BY <1>6, <2>2 DEF h
<1>18. r.hash = compute_event_hash(r.prev, r)
    BY <1>5 DEF compute_event_hash
<1>19. \A e \in R : e.id # r.id
    BY <1>2, <1>5 DEF ById
<1> HIDE DEF r
<1> QED BY <1>2, <1>3, <1>4, <1>5, <1>15, <1>16, <1>17, <1>18, <1>19
        DEF b, own, log, r

LEMMA RowsGrow ==
    ASSUME NEW R, GoodTree(branches), GoodRows(branches, R),
           NEW new \in NewEvents(EventIds), Accepted(R, new)
    PROVE  GoodRows(branches, Inserted(R, new))
<1> DEFINE r == Row(R, new)
           Q == Inserted(R, new)
<1>1. Q = R \cup {r}
    BY DEF Inserted
<1>2. /\ r.branch = new.branch
      /\ r.branch \in DOMAIN branches
      /\ r \in StoredRows
      /\ \A e \in R : e.id # r.id
      /\ Len(r.prev) = r.seq /\ Len(r.hash) = r.seq + 1
      /\ \A e \in RowsOf(R, r.branch) : e.seq < r.seq
    <2> HIDE DEF r
    <2> QED BY NextRow DEF r
<1>3. /\ IsFiniteSet(R)
      /\ R \subseteq StoredRows
      /\ \A e \in R : e.branch \in DOMAIN branches /\ Len(e.prev) = e.seq /\ Len(e.hash) = e.seq + 1
      /\ \A e, f \in R : e.id = f.id => e = f
      /\ \A e, f \in R : e.branch = f.branch /\ e.seq = f.seq => e = f
    BY DEF GoodRows
<1> HIDE DEF r, Q
<1>4. IsFiniteSet(Q)
    BY <1>1, <1>3, FS_AddElement
<1>5. Q \subseteq StoredRows
    BY <1>1, <1>2, <1>3
<1>6. \A e \in Q : e.branch \in DOMAIN branches /\ Len(e.prev) = e.seq /\ Len(e.hash) = e.seq + 1
    BY <1>1, <1>2, <1>3
<1>7. \A e, f \in Q : e.id = f.id => e = f
    BY <1>1, <1>2, <1>3
<1>8. ASSUME NEW e \in R
      PROVE  ~(e.branch = r.branch /\ e.seq = r.seq)
    <2>1. e.branch = r.branch => e \in RowsOf(R, r.branch)
        BY DEF RowsOf
    <2>2. e.seq \in Nat
        BY <1>3, RowsAre
    <2> QED BY <1>2, <2>1, <2>2
<1>9. \A e, f \in Q : e.branch = f.branch /\ e.seq = f.seq => e = f
    BY <1>1, <1>3, <1>8
<1> QED BY <1>4, <1>5, <1>6, <1>7, <1>9 DEF GoodRows, Q

LEMMA ConcatAppend ==
    ASSUME NEW S, NEW s \in Seq(S), NEW t \in Seq(S), NEW r \in S
    PROVE  s \o Append(t, r) = Append(s \o t, r)
<1>1. s \o t \in Seq(S) /\ Len(s \o t) = Len(s) + Len(t)
      /\ \A i \in 1..Len(s) + Len(t) : (s \o t)[i] = IF i <= Len(s) THEN s[i] ELSE t[i - Len(s)]
    BY ConcatProperties
<1> DEFINE a == Append(t, r)
           st == s \o t
<1>2. /\ a \in Seq(S) /\ Len(a) = Len(t) + 1 /\ Len(t) \in Nat /\ Len(s) \in Nat
      /\ \A i \in 1..Len(t) : a[i] = t[i]
      /\ a[Len(t) + 1] = r
    OBVIOUS
<1> HIDE DEF a, st
<1>3. s \o a \in Seq(S) /\ Len(s \o a) = Len(s) + Len(a)
      /\ \A i \in 1..Len(s) + Len(a) : (s \o a)[i] = IF i <= Len(s) THEN s[i] ELSE a[i - Len(s)]
    BY <1>2, ConcatProperties
<1>4. /\ st \in Seq(S) /\ Len(st) = Len(s) + Len(t)
      /\ \A i \in 1..Len(s) + Len(t) : st[i] = IF i <= Len(s) THEN s[i] ELSE t[i - Len(s)]
    BY <1>1 DEF st
<1>5. /\ Append(st, r) \in Seq(S) /\ Len(Append(st, r)) = Len(s) + Len(t) + 1
      /\ \A i \in 1..Len(s) + Len(t) : Append(st, r)[i] = st[i]
      /\ Append(st, r)[Len(s) + Len(t) + 1] = r
    BY <1>2, <1>4
<1>6. ASSUME NEW i \in 1..Len(s) + Len(t) + 1
      PROVE  (s \o a)[i] = Append(st, r)[i]
    <2>1. CASE i <= Len(s)
        BY <1>2, <1>3, <1>4, <1>5, <2>1
    <2>2. CASE i > Len(s) /\ i <= Len(s) + Len(t)
        <3>1. i - Len(s) \in 1..Len(t)
            BY <1>2, <2>2
        <3>2. ~(i <= Len(s)) /\ i \in 1..Len(s) + Len(t) /\ i \in 1..Len(s) + Len(a)
            BY <1>2, <2>2
        <3>3. (s \o a)[i] = a[i - Len(s)]
            BY <1>3, <3>2
        <3>4. a[i - Len(s)] = t[i - Len(s)]
            BY <1>2, <3>1
        <3>5. Append(st, r)[i] = t[i - Len(s)]
            BY <1>4, <1>5, <3>2
        <3> QED BY <3>3, <3>4, <3>5
    <2>3. CASE i = Len(s) + Len(t) + 1
        <3>1. i - Len(s) = Len(t) + 1 /\ ~(i <= Len(s))
            BY <1>2, <2>3
        <3> QED BY <1>2, <1>3, <1>5, <2>3, <3>1
    <2>4. i <= Len(s) \/ (i > Len(s) /\ i <= Len(s) + Len(t)) \/ i = Len(s) + Len(t) + 1
        BY <1>2
    <2> QED BY <2>1, <2>2, <2>3, <2>4
<1> QED BY <1>2, <1>3, <1>5, <1>6, SeqEqual DEF a, st

\* The chain of every branch holds and every fork point is found.
Clean(B, R) == \A b \in DOMAIN B : Chained(B, R, b) /\ Ok(B, R)[b]

\* One event more shows in its own branch only, at the end and with the number
\* that comes next there.
LEMMA AppendGrows ==
    ASSUME NEW R, GoodTree(branches), GoodRows(branches, R), Clean(branches, R),
           NEW new \in NewEvents(EventIds), Accepted(R, new),
           NEW r, r = Row(R, new), NEW Q, Q = Inserted(R, new)
    PROVE  /\ Clean(branches, Q)
           /\ \A c \in DOMAIN branches :
                 Eff(branches, Q)[c] = IF c = new.branch THEN Append(Eff(branches, R)[c], r)
                                       ELSE Eff(branches, R)[c]
           /\ r.branch = new.branch
           /\ r.seq = Len(Eff(branches, R)[new.branch])
<1> DEFINE b == new.branch
           own(c) == own_events(R, c)
           e == Eff(branches, R)
           g == Eff(branches, Q)
<1>1. /\ b \in DOMAIN branches /\ r.branch = b /\ r \in StoredRows
      /\ \A x \in R : x.id # r.id
      /\ r.seq = IF e[b] = <<>> THEN 0 ELSE e[b][Len(e[b])].seq + 1
      /\ r.hash = compute_event_hash(r.prev, r)
      /\ \A x \in RowsOf(R, b) : x.seq < r.seq
      /\ own(b) # <<>> => r.prev = own(b)[Len(own(b))].hash
      /\ own(b) = <<>> /\ branches[b].parent # NoBranch =>
            ById(R, branches[b].fork) # {} /\ r.prev = ForkOf(branches, R, b).hash
      /\ own(b) = <<>> /\ branches[b].parent = NoBranch => r.prev = <<>>
    BY NextRow
<1>2. Q = R \cup {r} /\ r \in Q
    BY DEF Inserted
<1>3. GoodRows(branches, Q)
    BY RowsGrow
<1>4. own_events(Q, b) = Append(own(b), r)
    <2>1. Numbered(RowsOf(R, b))
        BY RowsAreNumbered
    <2>2. r.branch = b /\ r.seq \in Nat
        BY <1>1, RowsAre
    <2>3. \A x \in RowsOf(R, b) : x.seq < r.seq
        BY <1>1
    <2> HIDE DEF b
    <2>4. ComesLast(R, r)
        BY <2>1, <2>2, <2>3 DEF ComesLast
    <2>5. own_events(R \cup {r}, r.branch) = Append(own_events(R, r.branch), r)
        BY <2>4, OwnGrows
    <2> QED BY <1>2, <2>2, <2>5
<1>5. \A c : c # b => own_events(Q, c) = own(c)
    <2>1. ASSUME NEW c, c # b
          PROVE  RowsOf(Q, c) = RowsOf(R, c)
        BY <1>1, <1>2, <2>1 DEF RowsOf
    <2>2. ASSUME NEW c, c # b
          PROVE  own_events(Q, c) = own_events(R, c)
        BY <2>1, <2>2, OwnStays
    <2> QED BY <2>2
<1> HIDE DEF b
<1>6. \A c \in DOMAIN branches : /\ own(c) \in Seq(Q) /\ Len(own(c)) \in Nat
                                 /\ own(c) # <<>> => Len(own(c)) # 0
    <2>1. ASSUME NEW c \in DOMAIN branches
          PROVE  own(c) \in Seq(R) /\ Len(own(c)) \in Nat /\ (own(c) # <<>> => Len(own(c)) # 0)
        BY OwnEvents
    <2> QED BY <1>2, <2>1, SeqMonotonic
<1>7. \A c \in DOMAIN branches : e[c] \in Seq(Q)
    <2>1. ASSUME NEW c \in DOMAIN branches
          PROVE  e[c] \in Seq(R)
        BY EffIsOfRows
    <2> QED BY <1>2, <2>1, SeqMonotonic
<1>8. ASSUME NEW c \in DOMAIN branches, branches[c].parent # NoBranch
      PROVE  /\ branches[c].parent \in DOMAIN branches
             /\ InLog(e[branches[c].parent], branches[c].fork)
             /\ e[c] = UpTo(e[branches[c].parent], branches[c].fork) \o own(c)
             /\ g[c] = UpTo(g[branches[c].parent], branches[c].fork) \o own_events(Q, c)
    <2>1. Ok(branches, R)[c]
        BY DEF Clean
    <2>2. InLog(e[branches[c].parent], branches[c].fork)
        BY <1>8, <2>1, OkStep
    <2>3. ASSUME NEW T
          PROVE  /\ branches[c].parent \in DOMAIN branches
                 /\ Eff(branches, T)[c] =
                       UpTo(Eff(branches, T)[branches[c].parent], branches[c].fork) \o own_events(T, c)
        BY <1>8, EffStep
    <2> QED BY <2>2, <2>3
<1>9. ASSUME NEW c \in DOMAIN branches, branches[c].parent = NoBranch
      PROVE  e[c] = own(c) /\ g[c] = own_events(Q, c)
    BY <1>9, EffStep
<1> HIDE DEF own, e, g
<1> DEFINE Grown(c) == g[c] = IF c = b THEN Append(e[c], r) ELSE e[c]
           P == {c \in DOMAIN branches : Grown(c)}
\* Nothing of it shows below a fork point.
<1>10. ASSUME NEW c \in DOMAIN branches, branches[c].parent # NoBranch, Grown(branches[c].parent)
       PROVE  /\ InLog(g[branches[c].parent], branches[c].fork)
              /\ UpTo(g[branches[c].parent], branches[c].fork) =
                    UpTo(e[branches[c].parent], branches[c].fork)
    <2> DEFINE p == branches[c].parent
               f == branches[c].fork
    <2>1. p \in DOMAIN branches /\ InLog(e[p], f) /\ e[p] \in Seq(Q)
        BY <1>7, <1>8, <1>10
    <2>2. g[p] = e[p] \/ g[p] = Append(e[p], r)
        BY <1>10
    <2> HIDE DEF p, f
    <2>3. CASE g[p] = e[p]
        BY <2>1, <2>3 DEF p, f
    <2>4. CASE g[p] = Append(e[p], r)
        <3>1. InLog(Append(e[p], r), f) /\ UpTo(Append(e[p], r), f) = UpTo(e[p], f)
            BY <1>2, <2>1, CutStays
        <3> QED BY <2>4, <3>1 DEF p, f
    <2> QED BY <2>2, <2>3, <2>4
<1>11. ASSUME NEW c \in DOMAIN branches, branches[c].parent # NoBranch => branches[c].parent \in P
       PROVE  Grown(c)
    <2>1. CASE branches[c].parent = NoBranch
        BY <1>4, <1>5, <1>9, <2>1
    <2>2. CASE branches[c].parent # NoBranch
        <3> DEFINE base == UpTo(e[branches[c].parent], branches[c].fork)
        <3>1. e[c] = base \o own(c) /\ g[c] = base \o own_events(Q, c)
            BY <1>8, <1>10, <1>11, <2>2
        <3>2. base \in Seq(Q)
            BY <1>7, <1>8, <2>2, UpToIs
        <3> HIDE DEF base
        <3>3. CASE c = b
            <4>1. base \o Append(own(c), r) = Append(base \o own(c), r)
                BY <1>2, <1>6, <3>2, ConcatAppend
            <4> QED BY <1>4, <3>1, <3>3, <4>1
        <3>4. CASE c # b
            BY <1>5, <3>1, <3>4
        <3> QED BY <3>3, <3>4
    <2> QED BY <2>1, <2>2
<1>12. \A c \in DOMAIN branches : Grown(c)
    <2>1. \A c \in DOMAIN branches : (branches[c].parent # NoBranch => branches[c].parent \in P) => c \in P
        BY <1>11
    <2> HIDE DEF P
    <2>2. DOMAIN branches \subseteq P
        BY <2>1, TreeInduction
    <2> QED BY <2>2 DEF P
<1>13. \A c \in DOMAIN branches : Ok(branches, Q)[c]
    <2> DEFINE O == {c \in DOMAIN branches : Ok(branches, Q)[c]}
    <2>1. ASSUME NEW c \in DOMAIN branches, branches[c].parent # NoBranch => branches[c].parent \in O
          PROVE  c \in O
        <3>1. branches[c].parent # NoBranch => InLog(g[branches[c].parent], branches[c].fork)
            BY <1>8, <1>10, <1>12
        <3>2. Ok(branches, Q)[c]
            BY <2>1, <3>1, OkStep DEF g
        <3> QED BY <3>2
    <2> HIDE DEF O
    <2>2. DOMAIN branches \subseteq O
        BY <2>1, TreeInduction
    <2> QED BY <2>2 DEF O
<1>14. ASSUME NEW c, ById(R, branches[c].fork) # {}
       PROVE  /\ ById(Q, branches[c].fork) # {}
              /\ ForkOf(branches, Q, c) = ForkOf(branches, R, c)
    <2>1. PICK x \in R : x.id = branches[c].fork
        BY <1>14 DEF ById
    <2>2. x \in Q
        BY <1>2
    <2>3. ForkOf(branches, Q, c) = x /\ ForkOf(branches, R, c) = x
        BY <1>3, <2>1, <2>2, ForkOfIs
    <2>4. ById(Q, branches[c].fork) # {}
        BY <2>1, <2>2 DEF ById
    <2> QED BY <2>3, <2>4
<1>15. ASSUME NEW c \in DOMAIN branches
       PROVE  Chained(branches, Q, c)
    <2>1. Chained(branches, R, c)
        BY DEF Clean
    <2>2. own(c) # <<>> /\ branches[c].parent # NoBranch =>
              /\ ById(R, branches[c].fork) # {}
              /\ own(c)[1].prev = ForkOf(branches, R, c).hash
        BY <2>1 DEF Chained, own
    <2>3. own(c) # <<>> =>
              /\ branches[c].parent = NoBranch => own(c)[1].prev = GENESIS_HASH
              /\ \A i \in 2..Len(own(c)) : own(c)[i].prev = own(c)[i - 1].hash
              /\ \A i \in 1..Len(own(c)) : own(c)[i].hash = compute_event_hash(own(c)[i].prev, own(c)[i])
        BY <2>1 DEF Chained, own
    <2>4. CASE c # b
        <3>1. own_events(Q, c) = own(c)
            BY <1>5, <2>4
        <3> QED BY <1>14, <2>2, <2>3, <3>1 DEF Chained
    <2>5. CASE c = b
        <3> DEFINE n == Len(own(b))
                   q == own_events(Q, b)
        <3>1. own(b) \in Seq(Q) /\ n \in Nat /\ (own(b) # <<>> => n # 0)
            BY <1>1, <1>6
        <3>2. q = Append(own(b), r)
            BY <1>4
        <3> HIDE DEF q
        <3>3. /\ Len(q) = n + 1
              /\ \A i \in 1..n : q[i] = own(b)[i]
              /\ q[n + 1] = r
            BY <1>2, <3>1, <3>2
        <3> HIDE DEF n
        <3>4. CASE own(b) = <<>>
            <4>1. n = 0
                BY <3>4 DEF n
            <4>2. Len(q) = 1 /\ q[1] = r
                BY <3>3, <4>1
            <4>3. branches[b].parent # NoBranch =>
                      /\ ById(Q, branches[b].fork) # {}
                      /\ r.prev = ForkOf(branches, Q, b).hash
                BY <1>1, <1>14, <3>4
            <4>4. branches[b].parent = NoBranch => r.prev = GENESIS_HASH
                BY <1>1, <3>4 DEF GENESIS_HASH
            <4> QED BY <1>1, <2>5, <4>2, <4>3, <4>4 DEF Chained, q
        <3>5. CASE own(b) # <<>>
            <4>1. 1 \in 1..n /\ q[1] = own(b)[1] /\ n \in Nat \ {0}
                BY <3>1, <3>3, <3>5
            <4>2. branches[b].parent # NoBranch =>
                      /\ ById(Q, branches[b].fork) # {}
                      /\ q[1].prev = ForkOf(branches, Q, b).hash
                BY <1>14, <2>2, <2>5, <3>5, <4>1
            <4>3. branches[b].parent = NoBranch => q[1].prev = GENESIS_HASH
                BY <2>3, <2>5, <3>5, <4>1
            <4>4. ASSUME NEW i \in 2..Len(q)
                  PROVE  q[i].prev = q[i - 1].hash
                <5>1. CASE i <= n
                    <6>1. i \in 2..n /\ i \in 1..n /\ i - 1 \in 1..n
                        BY <3>3, <4>1, <5>1
                    <6> QED BY <2>3, <2>5, <3>3, <3>5, <6>1 DEF n
                <5>2. CASE i = n + 1
                    <6>1. q[i] = r /\ q[i - 1] = own(b)[n]
                        BY <3>3, <4>1, <5>2
                    <6> QED BY <1>1, <3>5, <6>1 DEF n
                <5> QED BY <3>3, <4>1, <5>1, <5>2
            <4>5. ASSUME NEW i \in 1..Len(q)
                  PROVE  q[i].hash = compute_event_hash(q[i].prev, q[i])
                <5>1. CASE i \in 1..n
                    BY <2>3, <2>5, <3>3, <3>5, <5>1 DEF n
                <5>2. CASE i = n + 1
                    BY <1>1, <3>3, <5>2
                <5> QED BY <3>3, <4>1, <5>1, <5>2
            <4> QED BY <2>5, <4>2, <4>3, <4>4, <4>5 DEF Chained, q
        <3> QED BY <3>4, <3>5
    <2> QED BY <2>4, <2>5
<1>16. r.seq = Len(e[b])
    <2>1. \A c \in DOMAIN branches : Chained(branches, R, c) /\ Ok(branches, R)[c]
        BY DEF Clean
    <2>2. Whole(e[b])
        BY <1>1, <2>1, AuditedIsWhole DEF e
    <2>3. e[b] \in Seq(Q)
        BY <1>1, <1>7
    <2>4. CASE e[b] = <<>>
        BY <1>1, <2>4
    <2>5. CASE e[b] # <<>>
        <3>1. Len(e[b]) \in 1..Len(e[b])
            BY <2>3, <2>5
        <3>2. e[b][Len(e[b])].seq = Len(e[b]) - 1
            BY <2>2, <3>1 DEF Whole, WholeAt
        <3> QED BY <1>1, <2>3, <2>5, <3>2
    <2> QED BY <2>4, <2>5
<1>17. Clean(branches, Q)
    BY <1>13, <1>15 DEF Clean
<1> QED BY <1>1, <1>12, <1>16, <1>17 DEF b, e, g

-----------------------------------------------------------------------------
(* The invariant of the store *)

StoreInv ==
    /\ GoodTree(branches) /\ GoodRows(branches, rows)
    /\ GoodTree(copy.branches) /\ GoodRows(copy.branches, copy.rows)
    /\ \A c \in forking : c.branch \in Branches /\ c.parent \in Created
    /\ touched \in Seq({"edit", "delete", "copy"})
    /\ touched = <<>> =>
          /\ Clean(branches, rows)
          /\ \A c \in forking : InLog(Eff(branches, rows)[c.parent], c.fork)

\* One log goes on where another ends.
Grown(log, more, b) ==
    /\ Len(log) <= Len(more)
    /\ \A i \in 1..Len(log) : more[i] = log[i]
    /\ \A i \in Len(log) + 1..Len(more) : more[i].branch = b /\ more[i].seq = i - 1

LEMMA EmptyTree == GoodTree(<<>>) /\ GoodRows(<<>>, {}) /\ Clean(<<>>, {})
<1>1. DOMAIN <<>> = {}
    OBVIOUS
<1>2. ASSUME NEW R
      PROVE  (\E f : IsEff(<<>>, R, f)) /\ (\E g : IsOk(<<>>, R, g))
    BY DEF IsEff, IsOk
<1>3. IsFiniteSet({})
    BY FS_EmptySet
<1> QED BY <1>1, <1>2, <1>3 DEF GoodTree, GoodRows, Clean

LEMMA FewerRows ==
    ASSUME NEW B, NEW R, GoodRows(B, R), NEW T \in SUBSET R
    PROVE  GoodRows(B, T)
<1>1. IsFiniteSet(T)
    BY FS_Subset DEF GoodRows
<1> QED BY <1>1 DEF GoodRows

\* An edit leaves the keys and the hashes as they are.
LEMMA EditedRows ==
    ASSUME NEW B, NEW R, GoodRows(B, R), NEW e \in R
    PROVE  GoodRows(B, (R \ {e}) \cup {[e EXCEPT !.body = Altered]})
<1> DEFINE x == [e EXCEPT !.body = Altered]
           T == R \ {e}
<1>1. e \in StoredRows
    BY DEF GoodRows
<1>2. x \in StoredRows
    BY <1>1 DEF StoredRows
<1>3. x.id = e.id /\ x.branch = e.branch /\ x.seq = e.seq /\ x.prev = e.prev /\ x.hash = e.hash
    BY <1>1 DEF StoredRows
<1> HIDE DEF x
<1>4. T \in SUBSET R /\ e \notin T
    OBVIOUS
<1>5. GoodRows(B, T)
    BY <1>4, FewerRows
<1> HIDE DEF T
<1>6. IsFiniteSet(T \cup {x})
    BY <1>5, FS_AddElement DEF GoodRows
<1>7. T \cup {x} \subseteq StoredRows
    BY <1>2, <1>5 DEF GoodRows
<1>8. \A y \in T \cup {x} : y.branch \in DOMAIN B /\ Len(y.prev) = y.seq /\ Len(y.hash) = y.seq + 1
    BY <1>3, <1>5 DEF GoodRows
<1>9. \A y \in T : y.id # x.id /\ ~(y.branch = x.branch /\ y.seq = x.seq)
    BY <1>3, <1>4 DEF GoodRows
<1>10. \A y, z \in T \cup {x} : y.id = z.id => y = z
    BY <1>5, <1>9 DEF GoodRows
<1>11. \A y, z \in T \cup {x} : y.branch = z.branch /\ y.seq = z.seq => y = z
    BY <1>5, <1>9 DEF GoodRows
<1>12. GoodRows(B, T \cup {x})
    BY <1>6, <1>7, <1>8, <1>10, <1>11 DEF GoodRows
<1> QED BY <1>12 DEF T, x

\* A branch more.
LEMMA BranchIsAdded ==
    ASSUME GoodTree(branches), GoodRows(branches, rows),
           NEW b \in Branches, b \notin Created, NEW run, NEW p, NEW f,
           p \in Created \cup {NoBranch}, AddBranch(b, run, p, f)
    PROVE  /\ GoodTree(branches') /\ GoodRows(branches', rows)
           /\ DOMAIN branches' = Created \cup {b}
           /\ \A c \in Created : Eff(branches', rows)[c] = Eff(branches, rows)[c]
           /\ Clean(branches, rows) /\ (p # NoBranch => InLog(Eff(branches, rows)[p], f)) =>
                 /\ Clean(branches', rows)
                 /\ Eff(branches', rows)[b] = IF p = NoBranch THEN <<>>
                                              ELSE UpTo(Eff(branches, rows)[p], f)
<1> DEFINE new == [run |-> run, parent |-> p, fork |-> f]
           B == branches
           C == branches'
<1>1. C = [c \in DOMAIN B \cup {b} |-> IF c = b THEN new ELSE B[c]]
    BY DEF AddBranch, Created
<1>2. new.parent = p /\ new.fork = f
    OBVIOUS
<1>3. b \notin DOMAIN B /\ p \in DOMAIN B \cup {NoBranch}
    BY DEF Created
<1> HIDE DEF new, B, C
<1>4. GoodTree(B) /\ GoodRows(B, rows)
    BY DEF B
<1>5. /\ GoodTree(C)
      /\ \A R : \A c \in DOMAIN B : /\ Eff(C, R)[c] = Eff(B, R)[c]
                                    /\ Ok(C, R)[c] <=> Ok(B, R)[c]
    BY <1>1, <1>2, <1>3, <1>4, TreeGrows
<1>6. /\ DOMAIN C = DOMAIN B \cup {b}
      /\ C[b] = new
      /\ \A c \in DOMAIN B : C[c] = B[c]
    BY <1>1, <1>3
<1>7. GoodRows(C, rows)
    BY <1>4, <1>6 DEF GoodRows
<1>8. ASSUME Clean(B, rows), p # NoBranch => InLog(Eff(B, rows)[p], f)
      PROVE  /\ Clean(C, rows)
             /\ Eff(C, rows)[b] = IF p = NoBranch THEN <<>> ELSE UpTo(Eff(B, rows)[p], f)
    <2>1. own_events(rows, b) = <<>>
        <3>1. RowsOf(rows, b) = {}
            BY <1>3, <1>4 DEF RowsOf, GoodRows
        <3> QED BY <1>4, <3>1, OwnEvents
    <2>2. Eff(C, rows)[b] = IF p = NoBranch THEN <<>> ELSE UpTo(Eff(B, rows)[p], f)
        <3>1. CASE p = NoBranch
            BY <1>2, <1>5, <1>6, <2>1, <3>1, EffStep
        <3>2. CASE p # NoBranch
            <4>1. Eff(C, rows)[b] = UpTo(Eff(C, rows)[p], f) \o own_events(rows, b)
                BY <1>2, <1>5, <1>6, <3>2, EffStep
            <4>2. Eff(C, rows)[p] = Eff(B, rows)[p]
                BY <1>3, <1>5, <3>2
            <4>3. Eff(B, rows)[p] \in Seq(rows)
                BY <1>3, <1>4, <3>2, EffIsOfRows
            <4>4. UpTo(Eff(B, rows)[p], f) \in Seq(rows)
                BY <4>3, UpToIs
            <4>5. UpTo(Eff(B, rows)[p], f) \o <<>> = UpTo(Eff(B, rows)[p], f)
                BY <4>4, ConcatEmptySeq
            <4> QED BY <2>1, <3>2, <4>1, <4>2, <4>5
        <3> QED BY <3>1, <3>2
    <2>3. ASSUME NEW c \in DOMAIN C
          PROVE  Chained(C, rows, c) /\ Ok(C, rows)[c]
        <3>1. CASE c = b
            <4>1. Chained(C, rows, c)
                BY <2>1, <3>1 DEF Chained
            <4>2. p # NoBranch => Ok(C, rows)[p] /\ InLog(Eff(C, rows)[p], f)
                BY <1>3, <1>5, <1>8 DEF Clean
            <4>3. Ok(C, rows)[b]
                BY <1>2, <1>5, <1>6, <4>2, OkStep
            <4> QED BY <3>1, <4>1, <4>3
        <3>2. CASE c # b
            <4>1. c \in DOMAIN B /\ C[c] = B[c]
                BY <1>6, <3>2
            <4>2. Ok(C, rows)[c]
                BY <1>5, <1>8, <4>1 DEF Clean
            <4>3. Chained(C, rows, c)
                BY <1>8, <4>1 DEF Clean, Chained, ForkOf
            <4> QED BY <4>2, <4>3
        <3> QED BY <3>1, <3>2
    <2> QED BY <2>2, <2>3 DEF Clean
<1> QED BY <1>5, <1>6, <1>7, <1>8 DEF B, C, Created

LEMMA GrownByOne ==
    ASSUME NEW S, NEW log \in Seq(S), NEW r \in S, NEW b, r.branch = b, r.seq = Len(log)
    PROVE  Grown(log, Append(log, r), b)
BY DEF Grown

LEMMA GrownTwice ==
    ASSUME NEW S, NEW l \in Seq(S), NEW m \in Seq(S), NEW n \in Seq(S), NEW b,
           Grown(l, m, b), Grown(m, n, b)
    PROVE  Grown(l, n, b)
<1>1. Len(l) \in Nat /\ Len(m) \in Nat /\ Len(n) \in Nat
    OBVIOUS
<1>2. Len(l) <= Len(n)
    BY <1>1 DEF Grown
<1>3. \A i \in 1..Len(l) : n[i] = l[i]
    BY <1>1 DEF Grown
<1>4. ASSUME NEW i \in Len(l) + 1..Len(n)
      PROVE  n[i].branch = b /\ n[i].seq = i - 1
    <2>1. CASE i <= Len(m)
        <3>1. i \in 1..Len(m) /\ i \in Len(l) + 1..Len(m)
            BY <1>1, <2>1
        <3> QED BY <3>1 DEF Grown
    <2>2. CASE i > Len(m)
        <3>1. i \in Len(m) + 1..Len(n)
            BY <1>1, <2>2
        <3> QED BY <3>1 DEF Grown
    <2> QED BY <1>1, <2>1, <2>2
<1> QED BY <1>2, <1>3, <1>4 DEF Grown

LEMMA GrownKeeps ==
    ASSUME NEW S, NEW l \in Seq(S), NEW m \in Seq(S), NEW b, Grown(l, m, b), NEW id, InLog(l, id)
    PROVE  InLog(m, id)
BY DEF Grown, InLog

LEMMA OneGrows ==
    ASSUME NEW R, GoodTree(branches), GoodRows(branches, R), Clean(branches, R),
           NEW new \in NewEvents(EventIds), Accepted(R, new)
    PROVE  /\ Clean(branches, Inserted(R, new))
           /\ \A c \in Created : Grown(Eff(branches, R)[c], Eff(branches, Inserted(R, new))[c], c)
<1> DEFINE r == Row(R, new)
           Q == Inserted(R, new)
<1>1. /\ Clean(branches, Q)
      /\ \A c \in DOMAIN branches :
            Eff(branches, Q)[c] = IF c = new.branch THEN Append(Eff(branches, R)[c], r)
                                  ELSE Eff(branches, R)[c]
      /\ r.branch = new.branch
      /\ r.seq = Len(Eff(branches, R)[new.branch])
    <2>1. r = Row(R, new) /\ Q = Inserted(R, new)
        OBVIOUS
    <2> HIDE DEF r, Q
    <2> QED BY <2>1, AppendGrows
<1>2. r \in Q /\ R \subseteq Q
    BY DEF Inserted
<1> HIDE DEF r, Q
<1>3. ASSUME NEW c \in Created
      PROVE  Grown(Eff(branches, R)[c], Eff(branches, Q)[c], c)
    <2>1. Eff(branches, R)[c] \in Seq(R)
        BY EffIsOfRows DEF Created
    <2>2. Eff(branches, R)[c] \in Seq(Q)
        BY <1>2, <2>1, SeqMonotonic
    <2> DEFINE l == Eff(branches, R)[c]
    <2> HIDE DEF l
    <2>3. CASE c = new.branch
        <3>1. Eff(branches, Q)[c] = Append(l, r) /\ r.branch = c /\ r.seq = Len(l) /\ l \in Seq(Q)
            BY <1>1, <2>2, <2>3 DEF Created, l
        <3>2. Grown(l, Append(l, r), c)
            BY <1>2, <3>1, GrownByOne
        <3> QED BY <3>1, <3>2 DEF l
    <2>4. CASE c # new.branch
        <3>1. Eff(branches, Q)[c] = l /\ Len(l) \in Nat
            BY <1>1, <2>2, <2>4 DEF Created, l
        <3> QED BY <3>1 DEF Grown, l
    <2> QED BY <2>3, <2>4
<1> QED BY <1>1, <1>3 DEF Q

\* A batch is one event or two.
LEMMA BatchGrows ==
    ASSUME StoreInv, NEW batch \in Batches, append_many(batch)
    PROVE  /\ GoodRows(branches, rows')
           /\ Clean(branches, rows) =>
                 /\ Clean(branches, rows')
                 /\ \A c \in Created : Grown(Eff(branches, rows)[c], Eff(branches, rows')[c], c)
<1>1. GoodTree(branches) /\ GoodRows(branches, rows)
    BY DEF StoreInv
<1>2. /\ Len(batch) \in {1, 2}
      /\ batch[1] \in NewEvents(EventIds)
      /\ Len(batch) = 2 => batch[2] \in NewEvents(EventIds)
    BY DEF Batches, NewEvents
<1> DEFINE R == Inserted(rows, batch[1])
<1>3. Accepted(rows, batch[1])
    BY DEF append_many
<1>4. GoodRows(branches, R)
    BY <1>1, <1>2, <1>3, RowsGrow
<1>5. Clean(branches, rows) =>
          /\ Clean(branches, R)
          /\ \A c \in Created : Grown(Eff(branches, rows)[c], Eff(branches, R)[c], c)
    BY <1>1, <1>2, <1>3, OneGrows
<1>6. CASE Len(batch) = 1 /\ rows' = R
    BY <1>4, <1>5, <1>6
<1>7. CASE Len(batch) = 2 /\ Accepted(R, batch[2]) /\ rows' = Inserted(R, batch[2])
    <2>0. R = Inserted(rows, batch[1])
        OBVIOUS
    <2> HIDE DEF R
    <2>1. GoodRows(branches, rows')
        BY <1>1, <1>2, <1>4, <1>7, RowsGrow
    <2>2. ASSUME Clean(branches, rows)
          PROVE  /\ Clean(branches, rows')
                 /\ \A c \in Created : Grown(Eff(branches, R)[c], Eff(branches, rows')[c], c)
        BY <1>1, <1>2, <1>4, <1>5, <1>7, <2>2, OneGrows
    <2>3. ASSUME Clean(branches, rows), NEW c \in Created
          PROVE  Grown(Eff(branches, rows)[c], Eff(branches, rows')[c], c)
        <3>1. rows \subseteq rows' /\ R \subseteq rows'
            BY <1>7, <2>0 DEF Inserted
        <3>2. /\ Eff(branches, rows)[c] \in Seq(rows)
              /\ Eff(branches, R)[c] \in Seq(R)
              /\ Eff(branches, rows')[c] \in Seq(rows')
            BY <1>1, <1>4, <2>1, EffIsOfRows DEF Created
        <3>3. Eff(branches, rows)[c] \in Seq(rows') /\ Eff(branches, R)[c] \in Seq(rows')
            BY <3>1, <3>2, SeqMonotonic
        <3>4. /\ Grown(Eff(branches, rows)[c], Eff(branches, R)[c], c)
              /\ Grown(Eff(branches, R)[c], Eff(branches, rows')[c], c)
            BY <1>5, <2>2, <2>3
        <3> QED BY <3>2, <3>3, <3>4, GrownTwice
    <2> QED BY <2>1, <2>2, <2>3
<1> QED BY <1>6, <1>7 DEF append_many

LEMMA StoreInvHolds == Init => StoreInv
<1> SUFFICES ASSUME Init PROVE StoreInv
    OBVIOUS
<1>1. GoodTree(branches) /\ GoodRows(branches, rows) /\ Clean(branches, rows)
    BY EmptyTree DEF Init
<1>2. GoodTree(copy.branches) /\ GoodRows(copy.branches, copy.rows)
    BY EmptyTree DEF Init
<1>3. forking = {} /\ touched \in Seq({"edit", "delete", "copy"})
    BY DEF Init
<1> QED BY <1>1, <1>2, <1>3 DEF StoreInv

\* What a change from outside leaves in `touched`.
LEMMA TouchedForGood ==
    ASSUME touched \in Seq({"edit", "delete", "copy"}), NEW kind \in {"edit", "delete", "copy"},
           touched' = touched \o <<kind>>
    PROVE  touched' \in Seq({"edit", "delete", "copy"}) /\ touched' # <<>>
<1>1. <<kind>> \in Seq({"edit", "delete", "copy"}) /\ Len(<<kind>>) = 1
    OBVIOUS
<1>2. touched' \in Seq({"edit", "delete", "copy"}) /\ Len(touched') = Len(touched) + 1
    BY <1>1, ConcatProperties
<1> QED BY <1>2

LEMMA StoreInvKept == StoreInv /\ [Next]_vars => StoreInv'
<1> SUFFICES ASSUME StoreInv, [Next]_vars PROVE StoreInv'
    OBVIOUS
<1>0. /\ GoodTree(branches) /\ GoodRows(branches, rows)
      /\ GoodTree(copy.branches) /\ GoodRows(copy.branches, copy.rows)
      /\ \A c \in forking : c.branch \in Branches /\ c.parent \in Created
      /\ touched \in Seq({"edit", "delete", "copy"})
      /\ touched = <<>> =>
            /\ Clean(branches, rows)
            /\ \A c \in forking : InLog(Eff(branches, rows)[c.parent], c.fork)
    BY DEF StoreInv
<1>1. ASSUME NEW batch \in Batches, append_many(batch)
      PROVE  StoreInv'
    <2>1. UNCHANGED <<branches, guarded, forking, copy, touched>>
        BY <1>1 DEF append_many
    <2>2. GoodRows(branches, rows')
        BY <1>1, BatchGrows
    <2>3. ASSUME touched = <<>>
          PROVE  /\ Clean(branches, rows')
                 /\ \A c \in forking : InLog(Eff(branches, rows')[c.parent], c.fork)
        <3>1. /\ Clean(branches, rows')
              /\ \A c \in Created : Grown(Eff(branches, rows)[c], Eff(branches, rows')[c], c)
            BY <1>0, <1>1, <2>3, BatchGrows
        <3>2. rows \subseteq rows'
            BY <1>1 DEF append_many, Inserted
        <3>3. ASSUME NEW c \in forking
              PROVE  InLog(Eff(branches, rows')[c.parent], c.fork)
            <4>1. c.parent \in DOMAIN branches /\ InLog(Eff(branches, rows)[c.parent], c.fork)
                BY <1>0, <2>3 DEF Created
            <4>2. Eff(branches, rows)[c.parent] \in Seq(rows')
                <5>1. Eff(branches, rows)[c.parent] \in Seq(rows)
                    BY <1>0, <4>1, EffIsOfRows
                <5> QED BY <3>2, <5>1, SeqMonotonic
            <4>3. Eff(branches, rows')[c.parent] \in Seq(rows')
                BY <1>0, <2>2, <4>1, EffIsOfRows
            <4>4. Grown(Eff(branches, rows)[c.parent], Eff(branches, rows')[c.parent], c.parent)
                BY <3>1, <4>1 DEF Created
            <4> QED BY <4>1, <4>2, <4>3, <4>4, GrownKeeps
        <3> QED BY <3>1, <3>3
    <2> QED BY <1>0, <2>1, <2>2, <2>3 DEF StoreInv, Created
<1>2. ASSUME NEW b \in Branches, NEW run \in Runs, create_branch(b, run)
      PROVE  StoreInv'
    <2>1. /\ b \notin Created /\ AddBranch(b, run, NoBranch, NoEvent)
          /\ UNCHANGED <<rows, guarded, forking, issued, copy, touched>>
        BY <1>2 DEF create_branch
    <2>2. /\ GoodTree(branches') /\ GoodRows(branches', rows)
          /\ DOMAIN branches' = Created \cup {b}
          /\ \A c \in Created : Eff(branches', rows)[c] = Eff(branches, rows)[c]
          /\ Clean(branches, rows) => Clean(branches', rows)
        BY <1>0, <2>1, BranchIsAdded
    <2> QED BY <1>0, <2>1, <2>2 DEF StoreInv, Created
<1>3. ASSUME NEW b \in Branches, NEW run \in Runs, NEW p \in Created, NEW f \in EventIds,
             BeginFork(b, run, p, f)
      PROVE  StoreInv'
    <2>1. /\ forking' = forking \cup {[branch |-> b, run |-> run, parent |-> p, fork |-> f]}
          /\ InLog(Eff(branches, rows)[p], f)
          /\ UNCHANGED <<branches, rows, guarded, issued, copy, touched>>
        BY <1>3, EffIsEffective DEF BeginFork, ForkPointKnown
    <2>2. ASSUME NEW c \in forking', c \notin forking
          PROVE  c.branch = b /\ c.parent = p /\ c.fork = f
        BY <2>1, <2>2
    <2> QED BY <1>0, <2>1, <2>2 DEF StoreInv, Created
<1>4. ASSUME NEW c \in forking, EndFork(c)
      PROVE  StoreInv'
    <2>1. /\ forking' = forking \ {c}
          /\ UNCHANGED <<rows, guarded, issued, copy, touched>>
        BY <1>4 DEF EndFork
    <2>2. CASE c.branch \in Created
        <3>1. UNCHANGED branches
            BY <1>4, <2>2 DEF EndFork
        <3> QED BY <1>0, <2>1, <3>1 DEF StoreInv, Created
    <2>3. CASE c.branch \notin Created
        <3>1. AddBranch(c.branch, c.run, c.parent, c.fork)
            BY <1>4, <2>3 DEF EndFork
        <3>2. /\ c.branch \in Branches /\ c.parent \in Created
              /\ touched = <<>> => Clean(branches, rows) /\ InLog(Eff(branches, rows)[c.parent], c.fork)
            BY <1>0
        <3>3. /\ GoodTree(branches') /\ GoodRows(branches', rows)
              /\ DOMAIN branches' = Created \cup {c.branch}
              /\ \A x \in Created : Eff(branches', rows)[x] = Eff(branches, rows)[x]
              /\ Clean(branches, rows) /\ InLog(Eff(branches, rows)[c.parent], c.fork) =>
                    Clean(branches', rows)
            BY <1>0, <2>3, <3>1, <3>2, BranchIsAdded
        <3> QED BY <1>0, <2>1, <3>2, <3>3 DEF StoreInv, Created
    <2> QED BY <2>2, <2>3
<1>5. CASE DropGuard \/ RepairGuard
    <2>1. UNCHANGED <<branches, rows, forking, issued, copy, touched>>
        BY <1>5 DEF DropGuard, RepairGuard
    <2> QED BY <1>0, <2>1 DEF StoreInv, Created
<1>6. ASSUME NEW e \in rows, DeleteRow(e) \/ EditRow(e)
      PROVE  StoreInv'
    <2>1. /\ UNCHANGED <<branches, guarded, forking, issued, copy>>
          /\ touched' = touched \o <<"edit">> \/ touched' = touched \o <<"delete">>
          /\ \/ rows' = rows \ {e}
             \/ rows' = (rows \ {e}) \cup {[e EXCEPT !.body = Altered]}
        BY <1>6 DEF DeleteRow, EditRow
    <2>2. touched' \in Seq({"edit", "delete", "copy"}) /\ touched' # <<>>
        BY <1>0, <2>1, TouchedForGood
    <2>3. GoodRows(branches, rows')
        <3>1. rows \ {e} \in SUBSET rows
            OBVIOUS
        <3> QED BY <1>0, <2>1, <3>1, FewerRows, EditedRows
    <2> QED BY <1>0, <2>1, <2>2, <2>3 DEF StoreInv, Created
<1>7. CASE TakeCopy
    <2>1. /\ copy'.branches = branches /\ copy'.rows = rows
          /\ UNCHANGED <<branches, rows, guarded, forking, issued, touched>>
        BY <1>7 DEF TakeCopy
    <2> QED BY <1>0, <2>1 DEF StoreInv, Created
<1>8. CASE PutCopyBack
    <2>1. /\ forking' = {} /\ branches' = copy.branches /\ rows' = copy.rows
          /\ copy' = copy /\ touched' = touched \o <<"copy">>
        BY <1>8 DEF PutCopyBack
    <2>2. touched' \in Seq({"edit", "delete", "copy"}) /\ touched' # <<>>
        BY <1>0, <2>1, TouchedForGood
    <2> QED BY <1>0, <2>1, <2>2 DEF StoreInv, Created
<1>9. CASE UNCHANGED vars
    BY <1>0, <1>9 DEF StoreInv, Created, vars
<1> QED BY <1>1, <1>2, <1>3, <1>4, <1>5, <1>6, <1>7, <1>8, <1>9 DEF Next, Use, Outside

\* Whatever is appended, forked, edited, deleted or put back, the keys stay keys,
\* the parents a tree and the hashes as long as the numbers say; and until the
\* file is changed from outside every chain holds and every fork point is found
\* (store/sqlite_store.py 214-414).
THEOREM StoreStaysSound == Spec => []StoreInv
<1> QED BY StoreInvHolds, StoreInvKept, PTL DEF Spec

\* When the offline check passes, every log that can be read is numbered from 0
\* and ends in the hash of what is read, however the file was changed
\* (state.py 70-145, audit_chain.py 70-166).
THEOREM ChangesAreNoticed == Spec => []AuditNoticesChanges
<1>1. StoreInv => AuditNoticesChanges
    <2> SUFFICES ASSUME StoreInv, audit, NEW b \in Created,
                        RowsOf(rows, b) # {}, Readable(rows, b)
                 PROVE  LET log == effective_events(rows, b)
                        IN  /\ Last(log).hash = [i \in 1..Len(log) |-> event_record(log[i])]
                            /\ \A i \in 1..Len(log) : log[i].seq = i - 1
        BY DEF AuditNoticesChanges
    <2>1. GoodTree(branches) /\ GoodRows(branches, rows)
        BY DEF StoreInv
    <2>2. \A c \in DOMAIN branches : Chained(branches, rows, c)
        BY ChainHoldsIs DEF audit, Created
    <2>3. b \in DOMAIN branches /\ Ok(branches, rows)[b]
        BY EffIsEffective DEF Created
    <2> DEFINE log == Eff(branches, rows)[b]
    <2>4. Whole(log)
        BY <2>1, <2>2, <2>3, AuditedIsWhole
    <2>5. log \in Seq(rows)
        BY <2>1, <2>3, EffIsOfRows
    <2>6. log # <<>>
        <3>1. own_events(rows, b) # <<>> /\ own_events(rows, b) \in Seq(rows)
            BY <2>1, OwnEvents
        <3>2. CASE branches[b].parent = NoBranch
            BY <2>1, <2>3, <3>1, <3>2, EffStep
        <3>3. CASE branches[b].parent # NoBranch
            <4> DEFINE base == UpTo(Eff(branches, rows)[branches[b].parent], branches[b].fork)
            <4>1. /\ branches[b].parent \in DOMAIN branches
                  /\ log = base \o own_events(rows, b)
                BY <2>1, <2>3, <3>3, EffStep
            <4>2. Eff(branches, rows)[branches[b].parent] \in Seq(rows)
                BY <2>1, <4>1, EffIsOfRows
            <4>3. base \in Seq(rows)
                BY <4>2, UpToIs
            <4> HIDE DEF base
            <4>4. base \o own_events(rows, b) # <<>>
                BY <3>1, <4>3, ConcatEqualIffEmpty
            <4> QED BY <4>1, <4>4
        <3> QED BY <3>2, <3>3
    <2> HIDE DEF log
    <2>7. Len(log) \in 1..Len(log)
        BY <2>5, <2>6
    <2>8. log[Len(log)].hash = RecordsOf(log, Len(log)) /\ \A i \in 1..Len(log) : log[i].seq = i - 1
        BY <2>4, <2>7 DEF Whole, WholeAt
    <2>9. effective_events(rows, b) = log
        BY EffIsEffective DEF log
    <2> QED BY <2>8, <2>9 DEF RecordsOf, Last
<1> QED BY <1>1, StoreStaysSound, PTL

\* The numbers of a branch's own rows run from 0 exactly on roots and on forks
\* that have no rows yet.
LEMMA NumbersOfBranch ==
    ASSUME NEW B, NEW R, GoodTree(B), GoodRows(B, R), Clean(B, R), NEW b \in DOMAIN B
    PROVE  {e.seq : e \in RowsOf(R, b)} # 0..(Cardinality(RowsOf(R, b)) - 1)
             <=> B[b].parent # NoBranch /\ RowsOf(R, b) # {}
<1> DEFINE own == own_events(R, b)
           S == RowsOf(R, b)
           n == Cardinality(S)
           seqs == {e.seq : e \in S}
<1>1. /\ Len(own) = n /\ n \in Nat
      /\ \A i \in 1..n : own[i] \in S
      /\ \A e \in S : \E i \in 1..n : own[i] = e
      /\ \A i, j \in 1..n : i < j => own[i].seq < own[j].seq
    <2>1. Numbered(RowsOf(R, b))
        BY RowsAreNumbered
    <2>2. Len(own) = n /\ Len(own) \in Nat
        BY <2>1, OwnIsInOrder
    <2>3. \A i \in 1..Len(own) : own[i] \in S
        BY <2>1, OwnIsInOrder
    <2>4. \A e \in S : \E i \in 1..Len(own) : own[i] = e
        BY <2>1, OwnIsInOrder
    <2>5. \A i, j \in 1..Len(own) : i < j => own[i].seq < own[j].seq
        BY <2>1, OwnIsInOrder
    <2> HIDE DEF own, S, n
    <2> QED BY <2>2, <2>3, <2>4, <2>5
<1>2. \A e \in S : e \in R /\ e.seq \in Nat /\ Len(e.prev) = e.seq
    BY RowsAre DEF RowsOf, GoodRows
<1>3. own = <<>> <=> S = {}
    BY OwnEvents
<1>4. Chained(B, R, b)
    BY DEF Clean
<1>5. B[b].parent = NoBranch => \A i \in 1..Len(own) : own[i].seq = i - 1
    <2>1. B[b].parent = NoBranch => Eff(B, R)[b] = own
        BY EffStep
    <2>2. Whole(Eff(B, R)[b])
        BY AuditedIsWhole DEF Clean
    <2> HIDE DEF own
    <2> QED BY <2>1, <2>2 DEF Whole, WholeAt
<1>6. ASSUME B[b].parent # NoBranch, S # {}
      PROVE  own[1].seq >= 1 /\ 1 \in 1..n
    <2>1. own # <<>> /\ 1 \in 1..n
        <3> HIDE DEF own, S, n
        <3>1. PICK e \in S : TRUE
            BY <1>6
        <3> QED BY <1>1, <1>3, <1>6, <3>1
    <2>2. ById(R, B[b].fork) # {} /\ own[1].prev = ForkOf(B, R, b).hash
        BY <1>4, <1>6, <2>1 DEF Chained
    <2>3. ForkOf(B, R, b) \in R
        BY <2>2 DEF ById, ForkOf
    <2>4. Len(ForkOf(B, R, b).hash) = ForkOf(B, R, b).seq + 1 /\ ForkOf(B, R, b).seq \in Nat
        BY <2>3, RowsAre DEF GoodRows
    <2>5. Len(own[1].prev) = own[1].seq
        <3> HIDE DEF own, S, n
        <3> QED BY <1>1, <1>2, <2>1
    <2> HIDE DEF own, S, n
    <2> QED BY <2>1, <2>2, <2>4, <2>5
<1> HIDE DEF own, S, n
<1>7. CASE B[b].parent = NoBranch
    <2>1. \A k : k \in seqs <=> k \in 0..(n - 1)
        <3>1. ASSUME NEW k \in 0..(n - 1)
              PROVE  k \in seqs
            <4>1. k + 1 \in 1..n /\ own[k + 1].seq = k
                BY <1>1, <1>5, <1>7
            <4> QED BY <1>1, <4>1
        <3>2. ASSUME NEW e \in S
              PROVE  e.seq \in 0..(n - 1)
            BY <1>1, <1>5, <1>7
        <3> QED BY <3>1, <3>2
    <2> HIDE DEF seqs
    <2>2. seqs = 0..(n - 1)
        BY <2>1
    <2> QED BY <1>7, <2>2 DEF seqs, S, n
<1>8. CASE B[b].parent # NoBranch /\ S = {}
    <2>1. n = 0
        BY <1>8, FS_EmptySet DEF n
    <2>2. seqs = {} /\ 0..(n - 1) = {}
        BY <1>8, <2>1
    <2> QED BY <1>8, <2>2 DEF S, n
<1>9. CASE B[b].parent # NoBranch /\ S # {}
    <2>1. own[1].seq >= 1 /\ 1 \in 1..n
        BY <1>6, <1>9
    <2>2. 0 \in 0..(n - 1)
        BY <1>1, <2>1
    <2>3. \A e \in S : e.seq >= 1
        <3>1. ASSUME NEW e \in S
              PROVE  e.seq >= 1
            <4>1. PICK i \in 1..n : own[i] = e
                BY <1>1
            <4>2. i = 1 \/ own[1].seq < own[i].seq
                BY <1>1, <2>1
            <4>3. own[1].seq \in Nat /\ e.seq \in Nat
                BY <1>1, <1>2, <2>1
            <4> QED BY <2>1, <4>1, <4>2, <4>3
        <3> QED BY <3>1
    <2>4. 0 \notin seqs
        BY <2>3
    <2> QED BY <1>9, <2>2, <2>4 DEF S, n
<1> QED BY <1>7, <1>8, <1>9

\* Until the file is changed from outside the offline check passes, and the
\* experiments' own check names the forks in use and nothing else
\* (sqlite_store.py 274-384, audit_chain.py 70-166, opsenv/oracle.py 137-189).
THEOREM OwnWritesPass == Spec => []OwnWritesPassAudit
<1>1. StoreInv => OwnWritesPassAudit
    <2> SUFFICES ASSUME StoreInv, touched = <<>>, guarded
                 PROVE  audit /\ check_no_tamper = [branches |-> ForksInUse, ids |-> {}]
        BY DEF OwnWritesPassAudit
    <2>1. GoodTree(branches) /\ GoodRows(branches, rows) /\ Clean(branches, rows)
        BY DEF StoreInv
    <2>2. audit
        BY <2>1, ChainHoldsIs DEF audit, Clean, Created
    <2>3. {b \in Created :
              {e.seq : e \in RowsOf(rows, b)} # 0..(Cardinality(RowsOf(rows, b)) - 1)} = ForksInUse
        <3>1. ASSUME NEW b \in Created
              PROVE  {e.seq : e \in RowsOf(rows, b)} # 0..(Cardinality(RowsOf(rows, b)) - 1)
                       <=> branches[b].parent # NoBranch /\ RowsOf(rows, b) # {}
            BY <2>1, NumbersOfBranch DEF Created
        <3> QED BY <3>1 DEF ForksInUse
    <2>4. {e.id : e \in {x \in rows : Cardinality(ById(rows, x.id)) > 1}} = {}
        <3>1. ASSUME NEW x \in rows
              PROVE  ~(Cardinality(ById(rows, x.id)) > 1)
            <4>1. ById(rows, x.id) = {x}
                BY <2>1 DEF ById, GoodRows
            <4>2. Cardinality({x}) = 1
                BY FS_Singleton
            <4> QED BY <4>1, <4>2
        <3> QED BY <3>1
    <2> QED BY <2>2, <2>3, <2>4 DEF check_no_tamper
<1> QED BY <1>1, StoreStaysSound, PTL

-----------------------------------------------------------------------------
(* The store implements BranchTree *)

TreeOf(B, R) == [b \in DOMAIN B |-> Recorded(Eff(B, R)[b])]

LEMMA LogsAre == Logs = TreeOf(branches, rows)
BY EffIsEffective DEF Logs, TreeOf, Created, effective_events, Eff, IsEff

LEMMA LogsAreNext == Logs' = TreeOf(branches', rows')
BY DEF Logs, TreeOf, Created, effective_events, Eff, IsEff

LEMMA RecordedIs ==
    ASSUME NEW S, NEW log \in Seq(S)
    PROVE  /\ Len(Recorded(log)) = Len(log) /\ Len(log) \in Nat
           /\ Recorded(log) \in Seq({Recorded(log)[i] : i \in 1..Len(log)})
           /\ \A i \in 1..Len(log) :
                 /\ Recorded(log)[i] = [branch |-> log[i].branch, seq |-> log[i].seq,
                                        id |-> log[i].id, body |-> log[i].body]
                 /\ Recorded(log)[i].branch = log[i].branch
                 /\ Recorded(log)[i].seq = log[i].seq
<1> DEFINE rec == Recorded(log)
<1>1. rec = [i \in 1..Len(log) |-> [branch |-> log[i].branch, seq |-> log[i].seq,
                                    id |-> log[i].id, body |-> log[i].body]]
    BY DEF Recorded
<1>2. Len(log) \in Nat
    OBVIOUS
<1>3. \A i \in 1..Len(log) : rec[i] = [branch |-> log[i].branch, seq |-> log[i].seq,
                                       id |-> log[i].id, body |-> log[i].body]
    BY <1>1
<1>4. DOMAIN rec = 1..Len(log)
    BY <1>1
<1>5. rec = [i \in 1..Len(log) |-> rec[i]]
    BY <1>1
<1> HIDE DEF rec
<1> DEFINE T == {rec[i] : i \in 1..Len(log)}
<1>6. rec \in [1..Len(log) -> T]
    BY <1>5
<1>7. rec \in Seq(T) /\ Len(rec) = Len(log)
    <2> HIDE DEF T
    <2> QED BY <1>2, <1>6
<1> QED BY <1>2, <1>3, <1>7 DEF rec

\* A log that goes on is a strict prefix of the longer one, or stays.
LEMMA RecordedGrows ==
    ASSUME NEW S, NEW l \in Seq(S), NEW m \in Seq(S), NEW b, Grown(l, m, b)
    PROVE  \/ Recorded(m) = Recorded(l)
           \/ /\ IsStrictPrefix(Recorded(l), Recorded(m))
              /\ \A i \in Len(Recorded(l)) + 1..Len(Recorded(m)) :
                    Recorded(m)[i].branch = b /\ Recorded(m)[i].seq = i - 1
<1>1. /\ Len(l) \in Nat /\ Len(m) \in Nat /\ Len(l) <= Len(m)
      /\ \A i \in 1..Len(l) : m[i] = l[i]
      /\ \A i \in Len(l) + 1..Len(m) : m[i].branch = b /\ m[i].seq = i - 1
    BY DEF Grown
<1> DEFINE u == Recorded(l)
           v == Recorded(m)
<1>2. /\ Len(u) = Len(l)
      /\ \A i \in 1..Len(l) : u[i] = [branch |-> l[i].branch, seq |-> l[i].seq,
                                      id |-> l[i].id, body |-> l[i].body]
    BY RecordedIs
<1>3. /\ Len(v) = Len(m)
      /\ \A i \in 1..Len(m) : v[i] = [branch |-> m[i].branch, seq |-> m[i].seq,
                                      id |-> m[i].id, body |-> m[i].body]
      /\ \A i \in 1..Len(m) : v[i].branch = m[i].branch /\ v[i].seq = m[i].seq
    BY RecordedIs
<1> DEFINE T == {u[i] : i \in 1..Len(l)} \cup {v[i] : i \in 1..Len(m)}
<1>4. u \in Seq(T)
    <2>1. u \in Seq({u[i] : i \in 1..Len(l)})
        BY RecordedIs
    <2> HIDE DEF u, v
    <2>2. {u[i] : i \in 1..Len(l)} \subseteq T
        OBVIOUS
    <2> HIDE DEF T
    <2> QED BY <2>1, <2>2, SeqMonotonic
<1>5. v \in Seq(T)
    <2>1. v \in Seq({v[i] : i \in 1..Len(m)})
        BY RecordedIs
    <2> HIDE DEF u, v
    <2>2. {v[i] : i \in 1..Len(m)} \subseteq T
        OBVIOUS
    <2> HIDE DEF T
    <2> QED BY <2>1, <2>2, SeqMonotonic
<1> HIDE DEF u, v, T
<1>6. ASSUME NEW i \in 1..Len(l)
      PROVE  i \in 1..Len(m) /\ v[i] = u[i]
    <2>1. i \in 1..Len(m)
        BY <1>1
    <2>2. m[i] = l[i]
        BY <1>1
    <2>3. v[i] = [branch |-> m[i].branch, seq |-> m[i].seq, id |-> m[i].id, body |-> m[i].body]
        BY <1>3, <2>1
    <2>4. u[i] = [branch |-> l[i].branch, seq |-> l[i].seq, id |-> l[i].id, body |-> l[i].body]
        BY <1>2
    <2> QED BY <2>1, <2>2, <2>3, <2>4
<1>7. CASE Len(l) = Len(m)
    <2>1. u = v
        BY <1>1, <1>2, <1>3, <1>4, <1>5, <1>6, <1>7, SeqEqual
    <2> QED BY <2>1 DEF u, v
<1>8. CASE Len(l) # Len(m)
    <2>1. SubSeq(u, 1, Len(l)) = SubSeq(v, 1, Len(l))
        <3>1. \A i \in 1..Len(l) : u[i] \in T /\ v[i] \in T
            BY <1>1, <1>2, <1>3, <1>4, <1>5, <1>6
        <3>2. /\ SubSeq(u, 1, Len(l)) \in Seq(T)
              /\ Len(SubSeq(u, 1, Len(l))) = Len(l)
              /\ \A i \in 1..Len(l) : SubSeq(u, 1, Len(l))[i] = u[i]
            BY <1>1, <3>1, SubSeqProperties
        <3>3. /\ SubSeq(v, 1, Len(l)) \in Seq(T)
              /\ Len(SubSeq(v, 1, Len(l))) = Len(l)
              /\ \A i \in 1..Len(l) : SubSeq(v, 1, Len(l))[i] = v[i]
            BY <1>1, <3>1, SubSeqProperties
        <3> QED BY <1>1, <1>6, <3>2, <3>3, SeqEqual
    <2>2. u # v
        BY <1>2, <1>3, <1>8
    <2>3. IsStrictPrefix(u, v)
        BY <1>1, <1>2, <1>3, <2>1, <2>2 DEF IsStrictPrefix, IsPrefix
    <2>4. \A i \in Len(u) + 1..Len(v) : v[i].branch = b /\ v[i].seq = i - 1
        BY <1>1, <1>2, <1>3
    <2> QED BY <2>3, <2>4 DEF u, v
<1> QED BY <1>7, <1>8

\* What a fork starts with is a prefix of what its parent has.
LEMMA RecordedPrefix ==
    ASSUME NEW S, NEW log \in Seq(S), NEW id, InLog(log, id)
    PROVE  \E n \in 1..Len(Recorded(log)) : Recorded(UpTo(log, id)) = SubSeq(Recorded(log), 1, n)
<1> DEFINE cut == UpTo(log, id)
           u == Recorded(cut)
           v == Recorded(log)
<1>1. PICK n \in 1..Len(log) : Len(cut) = n /\ \A i \in 1..n : cut[i] = log[i]
    BY UpToIs
<1>2. cut \in Seq(S)
    BY UpToIs
<1> HIDE DEF cut
<1>3. /\ Len(u) = n
      /\ \A i \in 1..n : u[i] = [branch |-> cut[i].branch, seq |-> cut[i].seq,
                                 id |-> cut[i].id, body |-> cut[i].body]
      /\ u \in Seq({u[i] : i \in 1..n})
    BY <1>1, <1>2, RecordedIs
<1>4. /\ Len(v) = Len(log) /\ Len(log) \in Nat
      /\ \A i \in 1..Len(log) : v[i] = [branch |-> log[i].branch, seq |-> log[i].seq,
                                        id |-> log[i].id, body |-> log[i].body]
    BY RecordedIs
<1> HIDE DEF u, v
<1> DEFINE T == {u[i] : i \in 1..n}
<1>5. ASSUME NEW i \in 1..n
      PROVE  v[i] = u[i] /\ v[i] \in T
    <2>1. i \in 1..Len(log) /\ cut[i] = log[i]
        BY <1>1, <1>4
    <2>2. u[i] = [branch |-> cut[i].branch, seq |-> cut[i].seq,
                  id |-> cut[i].id, body |-> cut[i].body]
        BY <1>3
    <2>3. v[i] = [branch |-> log[i].branch, seq |-> log[i].seq,
                  id |-> log[i].id, body |-> log[i].body]
        BY <1>4, <2>1
    <2>4. v[i] = u[i]
        BY <2>1, <2>2, <2>3
    <2> QED BY <2>4
<1> HIDE DEF T
<1>6. /\ SubSeq(v, 1, n) \in Seq(T)
      /\ Len(SubSeq(v, 1, n)) = n
      /\ \A i \in 1..n : SubSeq(v, 1, n)[i] = v[i]
    BY <1>4, <1>5, SubSeqProperties
<1>7. u = SubSeq(v, 1, n)
    <2>1. u \in Seq(T)
        BY <1>3 DEF T
    <2> QED BY <1>3, <1>5, <1>6, <2>1, SeqEqual
<1>8. n \in 1..Len(v)
    BY <1>4
<1> QED BY <1>7, <1>8 DEF u, v, cut

\* A batch lets the logs it writes to go on and leaves the others alone.
LEMMA BatchKeepsTree ==
    ASSUME StoreInv, touched = <<>>, NEW batch \in Batches, append_many(batch)
    PROVE  Tree!Extend
<1>1. /\ GoodTree(branches) /\ GoodRows(branches, rows) /\ Clean(branches, rows)
    BY DEF StoreInv
<1>2. /\ GoodRows(branches, rows')
      /\ \A c \in Created : Grown(Eff(branches, rows)[c], Eff(branches, rows')[c], c)
    BY <1>1, BatchGrows
<1>3. branches' = branches /\ rows \subseteq rows'
    BY DEF append_many, Inserted
<1>4. /\ Logs = TreeOf(branches, rows)
      /\ Logs' = TreeOf(branches, rows')
    BY <1>3, LogsAre, LogsAreNext
<1>5. DOMAIN Logs = Created /\ DOMAIN Logs' = Created
    BY <1>4 DEF TreeOf, Created
<1>6. ASSUME NEW c \in DOMAIN Logs
      PROVE  Logs'[c] = Logs[c] \/ Tree!Extended(c)
    <2> DEFINE l == Eff(branches, rows)[c]
               m == Eff(branches, rows')[c]
    <2>1. l \in Seq(rows) /\ m \in Seq(rows')
        BY <1>1, <1>2, <1>5, EffIsOfRows DEF Created
    <2>2. Logs[c] = Recorded(l) /\ Logs'[c] = Recorded(m)
        BY <1>4, <1>5 DEF TreeOf, Created
    <2>3. Grown(l, m, c)
        BY <1>2, <1>5
    <2> HIDE DEF l, m
    <2>4. l \in Seq(rows')
        BY <1>3, <2>1, SeqMonotonic
    <2>5. \/ Recorded(m) = Recorded(l)
          \/ /\ IsStrictPrefix(Recorded(l), Recorded(m))
             /\ \A i \in Len(Recorded(l)) + 1..Len(Recorded(m)) :
                   Recorded(m)[i].branch = c /\ Recorded(m)[i].seq = i - 1
        BY <2>1, <2>3, <2>4, RecordedGrows
    <2> QED BY <2>2, <2>5
            DEF Tree!Extended, IsStrictPrefix, IsPrefix, Tree!IsStrictPrefix, Tree!IsPrefix
<1> QED BY <1>5, <1>6 DEF Tree!Extend

\* A branch that is added is a new root, or a fork of a prefix of its parent's log.
LEMMA BranchKeepsTree ==
    ASSUME StoreInv, touched = <<>>, NEW b \in Branches, b \notin Created, NEW run, NEW p, NEW f,
           p \in Created \cup {NoBranch}, AddBranch(b, run, p, f), UNCHANGED rows,
           p # NoBranch => InLog(Eff(branches, rows)[p], f)
    PROVE  Tree!Next
<1>1. /\ GoodTree(branches) /\ GoodRows(branches, rows) /\ Clean(branches, rows)
    BY DEF StoreInv
<1>2. /\ DOMAIN branches' = Created \cup {b}
      /\ \A c \in Created : Eff(branches', rows)[c] = Eff(branches, rows)[c]
      /\ Eff(branches', rows)[b] = IF p = NoBranch THEN <<>> ELSE UpTo(Eff(branches, rows)[p], f)
    BY <1>1, BranchIsAdded
<1>3. /\ Logs = TreeOf(branches, rows)
      /\ Logs' = TreeOf(branches', rows)
    BY LogsAre, LogsAreNext
<1> DEFINE log == Recorded(Eff(branches', rows)[b])
<1>4. DOMAIN Logs = Created
    BY <1>3 DEF TreeOf, Created
<1>5. Logs' = [c \in DOMAIN Logs \cup {b} |-> IF c = b THEN log ELSE Logs[c]]
    <2>1. Logs' = [c \in Created \cup {b} |-> Recorded(Eff(branches', rows)[c])]
        BY <1>2, <1>3 DEF TreeOf
    <2>2. ASSUME NEW c \in Created \cup {b}
          PROVE  Recorded(Eff(branches', rows)[c]) = IF c = b THEN log ELSE Logs[c]
        <3>1. CASE c = b
            BY <3>1
        <3>2. CASE c # b
            <4>1. c \in Created
                BY <3>2
            <4>2. Logs[c] = Recorded(Eff(branches, rows)[c])
                BY <1>3, <4>1 DEF TreeOf, Created
            <4> QED BY <1>2, <3>2, <4>1, <4>2
        <3> QED BY <3>1, <3>2
    <2> HIDE DEF log
    <2> QED BY <1>4, <2>1, <2>2
<1>6. b \notin DOMAIN Logs
    BY <1>4
<1>7. CASE p = NoBranch
    <2>1. log = <<>>
        <3>1. log = Recorded(<<>>)
            BY <1>2, <1>7
        <3> QED BY <3>1 DEF Recorded
    <2> HIDE DEF log
    <2>2. Tree!NewRoot(b)
        BY <1>5, <1>6, <2>1 DEF Tree!NewRoot, Tree!Added
    <2> QED BY <2>2 DEF Tree!Next
<1>8. CASE p # NoBranch
    <2>1. p \in Created /\ InLog(Eff(branches, rows)[p], f)
        BY <1>8
    <2>2. Eff(branches, rows)[p] \in Seq(rows)
        BY <1>1, <2>1, EffIsOfRows DEF Created
    <2>3. Logs[p] = Recorded(Eff(branches, rows)[p])
        BY <1>3, <2>1 DEF TreeOf, Created
    <2>4. log = Recorded(UpTo(Eff(branches, rows)[p], f))
        BY <1>2, <1>8
    <2> HIDE DEF log
    <2>5. PICK n \in 1..Len(Logs[p]) : log = SubSeq(Logs[p], 1, n)
        BY <2>1, <2>2, <2>3, <2>4, RecordedPrefix
    <2>6. Tree!Fork(b, p)
        BY <1>5, <1>6, <2>5 DEF Tree!Fork, Tree!Added
    <2> QED BY <1>4, <2>1, <2>6 DEF Tree!Next
<1> QED BY <1>7, <1>8

\* Until the file is changed from outside, every step of the store is one of
\* BranchTree or leaves the logs as they are: batches, roots, and forks of forks
\* whose check and insert have other steps between them
\* (store/sqlite_store.py 214-414).
THEOREM StoreKeepsTree == Spec => KeepsTree
<1>1. Init => Tree!Init
    <2> SUFFICES ASSUME Init PROVE Tree!Init
        OBVIOUS
    <2>1. Created = {}
        BY DEF Init, Created
    <2> QED BY <2>1 DEF Tree!Init, Logs
<1>2. StoreInv /\ [Next]_vars => [touched' = <<>> => UNCHANGED Logs \/ Tree!Next]_vars
    <2> SUFFICES ASSUME StoreInv, Next, touched' = <<>>
                 PROVE  UNCHANGED Logs \/ Tree!Next
        OBVIOUS
    <2>0. /\ touched \in Seq({"edit", "delete", "copy"})
          /\ \A c \in forking : c.branch \in Branches /\ c.parent \in Created
          /\ touched = <<>> => \A c \in forking : InLog(Eff(branches, rows)[c.parent], c.fork)
          /\ NoBranch \notin Created
        BY NoBranchIsNone DEF StoreInv, GoodTree, Created
    <2>1. branches' = branches /\ rows' = rows => UNCHANGED Logs
        <3> SUFFICES ASSUME branches' = branches, rows' = rows PROVE Logs' = Logs
            OBVIOUS
        <3> QED BY LogsAre, LogsAreNext
    <2>2. ASSUME NEW batch \in Batches, append_many(batch)
          PROVE  Tree!Next
        <3>1. touched = <<>>
            BY <2>2 DEF append_many
        <3> QED BY <2>2, <3>1, BatchKeepsTree DEF Tree!Next
    <2>3. ASSUME NEW b \in Branches, NEW run \in Runs, create_branch(b, run)
          PROVE  Tree!Next
        <3>1. /\ b \notin Created /\ AddBranch(b, run, NoBranch, NoEvent)
              /\ UNCHANGED rows /\ touched = <<>>
            BY <2>3 DEF create_branch
        <3> QED BY <3>1, BranchKeepsTree
    <2>4. ASSUME NEW c \in forking, EndFork(c)
          PROVE  UNCHANGED Logs \/ Tree!Next
        <3>1. UNCHANGED rows /\ touched = <<>>
            BY <2>4 DEF EndFork
        <3>2. CASE c.branch \in Created
            <4>1. branches' = branches
                BY <2>4, <3>2 DEF EndFork
            <4> QED BY <2>1, <3>1, <4>1
        <3>3. CASE c.branch \notin Created
            <4>1. AddBranch(c.branch, c.run, c.parent, c.fork)
                BY <2>4, <3>3 DEF EndFork
            <4>2. /\ c.branch \in Branches /\ c.parent \in Created
                  /\ InLog(Eff(branches, rows)[c.parent], c.fork)
                BY <2>0, <3>1
            <4> QED BY <3>1, <3>3, <4>1, <4>2, BranchKeepsTree
        <3> QED BY <3>2, <3>3
    <2>5. ASSUME NEW b \in Branches, NEW run \in Runs, NEW p \in Created, NEW f \in EventIds,
                 BeginFork(b, run, p, f)
          PROVE  UNCHANGED Logs
        BY <2>1, <2>5 DEF BeginFork
    <2>6. CASE DropGuard \/ RepairGuard \/ TakeCopy
        BY <2>1, <2>6 DEF DropGuard, RepairGuard, TakeCopy
    <2>7. ASSUME NEW e \in rows, DeleteRow(e) \/ EditRow(e)
          PROVE  FALSE
        <3>1. touched' = touched \o <<"edit">> \/ touched' = touched \o <<"delete">>
            BY <2>7 DEF DeleteRow, EditRow
        <3> QED BY <2>0, <3>1, TouchedForGood
    <2>8. ~PutCopyBack
        <3>1. PutCopyBack => touched' = touched \o <<"copy">>
            BY DEF PutCopyBack
        <3> QED BY <2>0, <3>1, TouchedForGood
    <2> QED BY <2>2, <2>3, <2>4, <2>5, <2>6, <2>7, <2>8 DEF Next, Use, Outside
<1> QED BY <1>1, <1>2, StoreStaysSound, PTL DEF Spec, KeepsTree

=============================================================================
