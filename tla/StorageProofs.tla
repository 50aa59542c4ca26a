---------------------------- MODULE StorageProofs ----------------------------
(***************************************************************************)
(* Proofs about the parts of the store that are machines of their own: the *)
(* setup of the schema (SchemaSetup), the checkpoints of a branch          *)
(* (Checkpoints), the writer's lease (Lease) and the artifacts (Retention),*)
(* for any number of calls, kills, writers, events and sweeps.             *)
(***************************************************************************)
EXTENDS SchemaSetup, Checkpoints, Lease, Retention, SequenceTheorems, WellFoundedInduction, TLAPS

-----------------------------------------------------------------------------
(***************************************************************************)
(* SETUP.  No call of setup is mistaken for tampering, drift is declared   *)
(* before the database opens again, and no step of setup leaves the history*)
(* unguarded, for any versions found and any number of kills, drops and    *)
(* calls.                                                                  *)
(*                                                                         *)
(* The invariant follows the statements that remain: what is missing is    *)
(* still to be created (DdlHeals), what a version stands for comes before  *)
(* it (MigrationsComplete), so a version that is recorded is earned        *)
(* (VersionIsEarned) wherever the call was killed.  Inside a transaction   *)
(* it follows the statement that is next (Rebuilding): a trigger that the  *)
(* connection no longer sees is still to be created before COMMIT.         *)
(***************************************************************************)

Statements ==
    [do : {"table"}, arg : {"events", "tool_calls"}] \cup [do : {"trigger"}, arg : TRIGGERS]
      \cup [do : {"migrate"}, arg : 2..4] \cup [do : {"applied"}, arg : 1..4]
      \cup [do : {"version"}, arg : 2..4]

SetupTypes ==
    /\ db \in Databases /\ seen \in Databases
    /\ phase \in Running \cup Ended
    /\ todo \in Seq(Statements)
    /\ drops \in Nat /\ tx \in Nat

\* A drop that nobody declared is there to see.
DriftIsVisible ==
    undeclared => phase \in Ended /\ db.version = SCHEMA_VERSION /\ db.triggers # TRIGGERS

ToDo(s) == \E i \in DOMAIN todo : todo[i] = s

DdlHeals ==
    phase = "ddl" =>
        /\ \A i \in DOMAIN todo : todo[i].do \in {"table", "trigger"}
        /\ drops = 0 => \A t \in TRIGGERS : t \in db.triggers \/ ToDo(CreateTrigger(t))
        /\ db.events = "none" => ToDo(CreateTable("events"))

MigrationsComplete ==
    phase = "migrations" =>
        /\ \A i \in DOMAIN todo : todo[i].do \in {"migrate", "applied", "version"}
        /\ drops = 0 => db.triggers = TRIGGERS
        /\ db.events # "none"
        /\ db.events = "plain" => ToDo(Migrate(3))
        /\ \A i \in DOMAIN todo :
              todo[i].do = "version" /\ todo[i].arg >= 3 =>
                 db.events = "chained" \/ \E j \in 1..(i - 1) : todo[j] = Migrate(3)

\* Outside a transaction the connection sees the file.
ConnectionSees ==
    /\ tx = 0 => seen = db
    /\ tx # 0 => /\ phase = "migrations" /\ todo # <<>>
                 /\ Head(todo) \in {Migrate(3), Migrate(4)}
                 /\ seen.version = db.version

\* Statements 1 and 2 of migration 3 drop what statements 5 and 6 create, and
\* statement 4 chains the history.
Rebuilding ==
    tx # 0 =>
        /\ Head(todo) = Migrate(3) =>
              /\ tx <= 8
              /\ "no_update" \in db.triggers /\ tx >= 6 => "no_update" \in seen.triggers
              /\ "no_delete" \in db.triggers /\ tx >= 7 => "no_delete" \in seen.triggers
              /\ "no_insert_over_existing" \in db.triggers =>
                    "no_insert_over_existing" \in seen.triggers
              /\ tx >= 5 => seen.events = "chained"
        /\ Head(todo) = Migrate(4) =>
              /\ tx <= 4
              /\ db.triggers \subseteq seen.triggers /\ seen.events = db.events

FileIsWhole == db.events # "unfilled"

VersionIsEarned ==
    /\ db.version >= 3 => db.events = "chained"
    /\ db.version = 0 => db.events # "plain"
    /\ db.version \in 1..2 => db.events # "none"
    /\ drops = 0 /\ db.version = SCHEMA_VERSION => db.triggers = TRIGGERS

SetupInv ==
    /\ SetupTypes /\ DriftIsVisible /\ ConnectionSees /\ Rebuilding /\ FileIsWhole
    /\ DdlHeals /\ MigrationsComplete /\ VersionIsEarned /\ KillsAreNotDrift

-----------------------------------------------------------------------------

\* What each kind of statement does to what the connection sees.
LEMMA TableExecuted ==
    ASSUME seen \in Databases
    PROVE  /\ LET e == Executed(CreateTable("events")) IN
              /\ e \in Databases /\ e.version = seen.version /\ e.triggers = seen.triggers
              /\ e.events \in {seen.events, "chained"} /\ e.events # "none"
           /\ \A s : (s = CreateTable("tool_calls") \/ s = Migrate(2)) =>
                 /\ Executed(s) \in Databases /\ Executed(s).version = seen.version
                 /\ Executed(s).triggers = seen.triggers /\ Executed(s).events = seen.events
  <1>1. LET e == Executed(CreateTable("events")) IN
           /\ e \in Databases /\ e.version = seen.version /\ e.triggers = seen.triggers
           /\ e.events \in {seen.events, "chained"} /\ e.events # "none"
    <2> DEFINE shape == IF seen.events = "none" THEN "chained" ELSE seen.events
    <2>1. shape \in {"plain", "unfilled", "chained"} /\ shape \in {seen.events, "chained"}
      BY DEF Databases
    <2>2. Executed(CreateTable("events")) = [seen EXCEPT !.events = shape]
      BY DEF Executed, CreateTable
    <2> HIDE DEF shape
    <2> QED BY <2>1, <2>2 DEF Databases
  <1>2. ASSUME NEW s, s = CreateTable("tool_calls") \/ s = Migrate(2)
        PROVE  /\ Executed(s) \in Databases /\ Executed(s).version = seen.version
               /\ Executed(s).triggers = seen.triggers /\ Executed(s).events = seen.events
    <2> DEFINE e == [seen EXCEPT !.toolCalls = TRUE]
    <2>1. Executed(s) = e
      BY <1>2 DEF Executed, CreateTable, Migrate
    <2>2. e.version = seen.version /\ e.events = seen.events /\ e.triggers = seen.triggers
      BY DEF Databases
    <2>3. e \in Databases
      BY Zenon DEF Databases
    <2> HIDE DEF e
    <2> QED BY <2>1, <2>2, <2>3
  <1> QED BY <1>1, <1>2

LEMMA TriggerExecuted ==
    ASSUME seen \in Databases, NEW t \in TRIGGERS
    PROVE  /\ LET e == Executed(CreateTrigger(t)) IN
              /\ e \in Databases /\ e.version = seen.version /\ e.events = seen.events
              /\ e.triggers = seen.triggers \cup {t}
           /\ LET e == Executed(DropStatement(t)) IN
              /\ e \in Databases /\ e.version = seen.version /\ e.events = seen.events
              /\ e.triggers = seen.triggers \ {t}
  <1>1. /\ seen.triggers \cup {t} \in SUBSET TRIGGERS
        /\ seen.triggers \ {t} \in SUBSET TRIGGERS
    BY DEF Databases
  <1>2. /\ Executed(CreateTrigger(t)) = [seen EXCEPT !.triggers = seen.triggers \cup {t}]
        /\ Executed(DropStatement(t)) = [seen EXCEPT !.triggers = seen.triggers \ {t}]
    BY DEF Executed, CreateTrigger, DropStatement
  <1>3. /\ [seen EXCEPT !.triggers = seen.triggers \cup {t}] \in Databases
        /\ [seen EXCEPT !.triggers = seen.triggers \ {t}] \in Databases
    BY <1>1 DEF Databases
  <1> QED BY <1>2, <1>3 DEF Databases

LEMMA ChainExecuted ==
    ASSUME seen \in Databases
    PROVE  /\ LET e == Executed(AddColumns) IN
              /\ e \in Databases /\ e.version = seen.version /\ e.triggers = seen.triggers
           /\ LET e == Executed(Backfill) IN
              /\ e \in Databases /\ e.version = seen.version /\ e.triggers = seen.triggers
              /\ e.events = "chained"
  <1>1. /\ Executed(AddColumns) = [seen EXCEPT !.events = "unfilled"]
        /\ Executed(Backfill) = [seen EXCEPT !.events = "chained"]
    BY DEF Executed, AddColumns, Backfill
  <1> QED BY <1>1 DEF Databases

LEMMA RowExecuted ==
    ASSUME seen \in Databases, NEW s \in Statements, s.do \in {"applied", "version"}
    PROVE  /\ Executed(s) \in Databases
           /\ Executed(s).version = IF s.do = "version" THEN s.arg ELSE seen.version
           /\ Executed(s).events = seen.events /\ Executed(s).triggers = seen.triggers
  <1>1. CASE s.do = "applied"
    <2>1. s.arg \in 1..4
      BY <1>1 DEF Statements
    <2>2. Executed(s) = [seen EXCEPT !.applied = @ \cup {s.arg}]
      BY <1>1 DEF Executed
    <2>3. seen.applied \cup {s.arg} \in SUBSET (1..4)
      BY <2>1 DEF Databases, SCHEMA_VERSION
    <2> QED BY <1>1, <2>2, <2>3 DEF Databases, SCHEMA_VERSION
  <1>2. CASE s.do = "version"
    <2>1. s.arg \in 2..4 /\ Executed(s) = [seen EXCEPT !.version = s.arg]
      BY <1>2 DEF Statements, Executed
    <2> QED BY <1>2, <2>1 DEF Databases, SCHEMA_VERSION
  <1> QED BY <1>1, <1>2

\* What a statement outside a transaction does.
LEMMA ExecutedDb ==
    ASSUME seen \in Databases, NEW s \in Statements, ~OpensTransaction(s)
    PROVE  /\ Executed(s) \in Databases
           /\ Executed(s).version = IF s.do = "version" THEN s.arg ELSE seen.version
           /\ Executed(s).events \in {seen.events, "chained"}
           /\ seen.triggers \subseteq Executed(s).triggers
           /\ s = CreateTable("events") => Executed(s).events # "none"
           /\ s # Migrate(3)
           /\ \A t \in TRIGGERS : s = CreateTrigger(t) => t \in Executed(s).triggers
  <1>1. /\ s # Migrate(3)
        /\ s.do = "migrate" => s = Migrate(2)
    BY DEF OpensTransaction, IsFunction, Statements, Migrate
  <1>2. CASE s.do \in {"table", "migrate"}
    <2>1. s = CreateTable("events") \/ s = CreateTable("tool_calls") \/ s = Migrate(2)
      BY <1>1, <1>2 DEF Statements, CreateTable
    <2>2. /\ CreateTable("tool_calls") # CreateTable("events") /\ Migrate(2) # CreateTable("events")
          /\ \A t : s # CreateTrigger(t)
      BY <1>2 DEF CreateTable, Migrate, CreateTrigger
    <2>3. s.do # "version"
      BY <1>2
    <2> QED BY <1>1, <2>1, <2>2, <2>3, TableExecuted
  <1>3. CASE s.do = "trigger"
    <2>1. s.arg \in TRIGGERS /\ s = CreateTrigger(s.arg)
      BY <1>3 DEF Statements, CreateTrigger
    <2>2. \A t : s = CreateTrigger(t) => t = s.arg
      BY DEF CreateTrigger
    <2>3. s # CreateTable("events") /\ s.do # "version"
      BY <1>3 DEF CreateTable
    <2> QED BY <1>1, <2>1, <2>2, <2>3, TriggerExecuted
  <1>4. CASE s.do \in {"applied", "version"}
    <2>1. s # CreateTable("events") /\ \A t : s # CreateTrigger(t)
      BY <1>4 DEF CreateTable, CreateTrigger
    <2> QED BY <1>1, <1>4, <2>1, RowExecuted
  <1> QED BY <1>2, <1>3, <1>4 DEF Statements

LEMMA TriggerStatements ==
    /\ TRIGGER_STATEMENTS \in Seq(Statements) /\ Len(TRIGGER_STATEMENTS) = 3
    /\ TRIGGER_STATEMENTS[1] = CreateTrigger("no_update")
    /\ TRIGGER_STATEMENTS[2] = CreateTrigger("no_delete")
    /\ TRIGGER_STATEMENTS[3] = CreateTrigger("no_insert_over_existing")
  <1>1. \A t \in TRIGGERS : CreateTrigger(t) \in Statements
    BY DEF Statements, CreateTrigger
  <1> QED BY <1>1 DEF TRIGGER_STATEMENTS, TRIGGERS

\* The transactions of the migrations that are functions.
LEMMA Transactions ==
    /\ Len(MIGRATIONS(3)) = 7 /\ Len(MIGRATIONS(4)) = 3
    /\ MIGRATIONS(3)[1] = DropStatement("no_update")
    /\ MIGRATIONS(3)[2] = DropStatement("no_delete")
    /\ MIGRATIONS(3)[3] = AddColumns
    /\ MIGRATIONS(3)[4] = Backfill
    /\ MIGRATIONS(3)[5] = CreateTrigger("no_update")
    /\ MIGRATIONS(3)[6] = CreateTrigger("no_delete")
    /\ MIGRATIONS(3)[7] = CreateTrigger("no_insert_over_existing")
    /\ MIGRATIONS(4)[1] = CreateTrigger("no_update")
    /\ MIGRATIONS(4)[2] = CreateTrigger("no_delete")
    /\ MIGRATIONS(4)[3] = CreateTrigger("no_insert_over_existing")
  <1> DEFINE S == {DropStatement("no_update"), DropStatement("no_delete"), AddColumns, Backfill}
                    \cup Statements
             first == <<DropStatement("no_update"), DropStatement("no_delete"), AddColumns, Backfill>>
             last == TRIGGER_STATEMENTS
  <1>1. /\ first \in Seq(S) /\ Len(first) = 4
        /\ first[1] = DropStatement("no_update") /\ first[2] = DropStatement("no_delete")
        /\ first[3] = AddColumns /\ first[4] = Backfill
    OBVIOUS
  <1>2. last \in Seq(S) /\ Len(last) = 3
    BY TriggerStatements
  <1>3. MIGRATIONS(3) = first \o last /\ MIGRATIONS(4) = last
    BY DEF MIGRATIONS
  <1> HIDE DEF S, first
  <1>4. /\ Len(first \o last) = 7
        /\ \A i \in 1..7 : (first \o last)[i] = IF i <= 4 THEN first[i] ELSE last[i - 4]
    <2>1. /\ Len(first \o last) = Len(first) + Len(last)
          /\ \A i \in 1..(Len(first) + Len(last)) :
                (first \o last)[i] = IF i <= Len(first) THEN first[i] ELSE last[i - Len(first)]
      <3> HIDE DEF last
      <3> QED BY <1>1, <1>2, ConcatProperties
    <2> QED BY <1>1, <1>2, <2>1
  <1>5. /\ (first \o last)[5] = last[1] /\ (first \o last)[6] = last[2]
        /\ (first \o last)[7] = last[3]
        /\ \A i \in 1..4 : (first \o last)[i] = first[i]
    BY <1>4
  <1> HIDE DEF last
  <1>6. /\ Len(MIGRATIONS(3)) = 7
        /\ \A i \in 1..4 : MIGRATIONS(3)[i] = first[i]
        /\ MIGRATIONS(3)[5] = last[1] /\ MIGRATIONS(3)[6] = last[2] /\ MIGRATIONS(3)[7] = last[3]
    BY <1>3, <1>4, <1>5
  <1>7. /\ last[1] = CreateTrigger("no_update") /\ last[2] = CreateTrigger("no_delete")
        /\ last[3] = CreateTrigger("no_insert_over_existing")
    BY TriggerStatements DEF last
  <1> QED BY <1>1, <1>2, <1>3, <1>6, <1>7

\* The statements a setup of any database goes through.
LEMMA DdlStatements ==
    /\ DDL \in Seq(Statements)
    /\ \A i \in DOMAIN DDL : DDL[i].do \in {"table", "trigger"}
    /\ DDL[1] = CreateTable("events") /\ 1 \in DOMAIN DDL
    /\ \A t \in TRIGGERS : \E i \in DOMAIN DDL : DDL[i] = CreateTrigger(t)
  <1> DEFINE tables == <<CreateTable("events"), CreateTable("tool_calls")>>
             last == TRIGGER_STATEMENTS
  <1>1. /\ tables \in Seq(Statements) /\ Len(tables) = 2
        /\ tables[1] = CreateTable("events") /\ tables[2] = CreateTable("tool_calls")
    BY DEF Statements, CreateTable
  <1>2. DDL = tables \o last
    BY DEF DDL
  <1> HIDE DEF tables, last
  <1>3. last \in Seq(Statements) /\ Len(last) = 3
    BY TriggerStatements DEF last
  <1>4. /\ DDL \in Seq(Statements) /\ Len(DDL) = 5
        /\ \A i \in 1..5 : DDL[i] = IF i <= 2 THEN tables[i] ELSE last[i - 2]
    <2>1. /\ tables \o last \in Seq(Statements)
          /\ Len(tables \o last) = Len(tables) + Len(last)
          /\ \A i \in 1..(Len(tables) + Len(last)) :
                (tables \o last)[i] = IF i <= Len(tables) THEN tables[i] ELSE last[i - Len(tables)]
      BY <1>1, <1>3, ConcatProperties
    <2> QED BY <1>1, <1>2, <1>3, <2>1
  <1>5. DDL[3] = last[1] /\ DDL[4] = last[2] /\ DDL[5] = last[3]
    BY <1>4
  <1>6. /\ DDL[1] = CreateTable("events") /\ DDL[2] = CreateTable("tool_calls")
        /\ DDL[3] = CreateTrigger("no_update") /\ DDL[4] = CreateTrigger("no_delete")
        /\ DDL[5] = CreateTrigger("no_insert_over_existing")
    BY <1>1, <1>4, <1>5, TriggerStatements DEF last
  <1>7. DOMAIN DDL = 1..5
    BY <1>4
  <1>8. \A t : CreateTable(t).do = "table" /\ CreateTrigger(t).do = "trigger"
    BY DEF CreateTable, CreateTrigger
  <1> QED BY <1>4, <1>6, <1>7, <1>8 DEF TRIGGERS

LEMMA StatementsOfVersion ==
    ASSUME NEW v \in 2..4
    PROVE  /\ StepsOf(v) \in Seq(Statements) /\ Len(StepsOf(v)) = 3
           /\ StepsOf(v)[1] = Migrate(v) /\ Migrate(v).do = "migrate"
           /\ StepsOf(v)[2].do = "applied"
           /\ StepsOf(v)[3].do = "version" /\ StepsOf(v)[3].arg = v
  BY DEF StepsOf, Statements, Migrate, RecordMigration, RecordVersion

\* A database without a version gets the last one, and an older one with its
\* history unchained has migration 3 before every version that stands for it.
LEMMA FreshStatements ==
    /\ FreshSteps \in Seq(Statements)
    /\ \A i \in DOMAIN FreshSteps : FreshSteps[i].do \in {"applied", "version"}
  <1>1. RecordVersion(4) \in Statements /\ RecordVersion(4).do = "version"
    BY DEF RecordVersion, Statements
  <1>2. \A v \in 1..4 : RecordMigration(v) \in Statements /\ RecordMigration(v).do = "applied"
    BY DEF RecordMigration, Statements
  <1> DEFINE tail == [v \in 1..4 |-> RecordMigration(v)]
  <1>3. tail \in Seq(Statements) /\ Len(tail) = 4 /\ \A i \in 1..4 : tail[i] = RecordMigration(i)
    BY <1>2
  <1>4. FreshSteps = <<RecordVersion(4)>> \o tail
    BY DEF FreshSteps, SCHEMA_VERSION
  <1> HIDE DEF tail
  <1>5. FreshSteps \in Seq(Statements) /\ Len(FreshSteps) = 5
    <2> DEFINE one == <<RecordVersion(4)>>
    <2>1. one \in Seq(Statements) /\ Len(one) = 1
      BY <1>1
    <2>2. FreshSteps = one \o tail
      BY <1>4
    <2> HIDE DEF one
    <2>3. one \o tail \in Seq(Statements) /\ Len(one \o tail) = Len(one) + Len(tail)
      BY <1>3, <2>1, ConcatProperties
    <2> QED BY <1>3, <2>1, <2>2, <2>3
  <1>6. FreshSteps[1] = RecordVersion(4) /\ \A i \in 2..5 : FreshSteps[i] = tail[i - 1]
    BY <1>1, <1>3, <1>4
  <1> QED BY <1>1, <1>2, <1>3, <1>5, <1>6

LEMMA PendingStatements ==
    ASSUME NEW v \in 1..4
    PROVE  /\ PendingSteps(v) \in Seq(Statements)
           /\ \A i \in DOMAIN PendingSteps(v) :
                 PendingSteps(v)[i].do \in {"migrate", "applied", "version"}
           /\ v < 3 =>
                 /\ \E i \in DOMAIN PendingSteps(v) : PendingSteps(v)[i] = Migrate(3)
                 /\ \A i \in DOMAIN PendingSteps(v) :
                       PendingSteps(v)[i].do = "version" /\ PendingSteps(v)[i].arg >= 3 =>
                          \E j \in 1..(i - 1) : PendingSteps(v)[j] = Migrate(3)
  <1> DEFINE two == IF v < 2 THEN StepsOf(2) ELSE <<>>
             three == IF v < 3 THEN StepsOf(3) ELSE <<>>
             four == IF v < 4 THEN StepsOf(4) ELSE <<>>
             p == PendingSteps(v)
             Typed(t) == t \in Seq(Statements) /\
                         \A i \in 1..Len(t) : t[i].do \in {"migrate", "applied", "version"}
  <1>1. p = (two \o three) \o four
    BY DEF PendingSteps
  <1>2. Typed(two) /\ Typed(three) /\ Typed(four)
    BY StatementsOfVersion
  <1>3. /\ Len(two) \in {0, 3} /\ \A i \in 1..Len(two) : two[i].do = "version" => two[i].arg = 2
        /\ v < 3 => Len(three) = 3 /\ three[1] = Migrate(3) /\ three[1].do = "migrate"
    BY StatementsOfVersion
  <1> HIDE DEF two, three, four, p
  <1>4. /\ p \in Seq(Statements) /\ Len(p) = Len(two) + Len(three) + Len(four)
        /\ \A i \in 1..Len(two) : p[i] = two[i]
        /\ \A i \in 1..Len(three) : p[Len(two) + i] = three[i]
        /\ \A i \in 1..Len(four) : p[Len(two) + Len(three) + i] = four[i]
    <2>1. two \in Seq(Statements) /\ three \in Seq(Statements) /\ four \in Seq(Statements)
      BY <1>2
    <2> DEFINE q == two \o three
    <2>2. /\ q \in Seq(Statements) /\ Len(q) = Len(two) + Len(three)
          /\ \A i \in 1..Len(two) : q[i] = two[i]
          /\ \A i \in 1..Len(three) : q[Len(two) + i] = three[i]
      BY <2>1
    <2>3. p = q \o four
      BY <1>1
    <2> HIDE DEF q
    <2>4. /\ p \in Seq(Statements) /\ Len(p) = Len(q) + Len(four)
          /\ \A i \in 1..Len(q) : p[i] = q[i]
          /\ \A i \in 1..Len(four) : p[Len(q) + i] = four[i]
      <3>1. q \in Seq(Statements) /\ four \in Seq(Statements) /\ Len(q) \in Nat /\ Len(four) \in Nat
        BY <2>1, <2>2
      <3>2. /\ q \o four \in Seq(Statements) /\ Len(q \o four) = Len(q) + Len(four)
            /\ \A i \in 1..(Len(q) + Len(four)) :
                  (q \o four)[i] = IF i <= Len(q) THEN q[i] ELSE four[i - Len(q)]
        BY <3>1, ConcatProperties
      <3>3. \A i \in 1..Len(four) : Len(q) + i \in 1..(Len(q) + Len(four)) /\ (Len(q) + i) - Len(q) = i
        BY <3>1
      <3> QED BY <2>3, <3>1, <3>2, <3>3
    <2>5. /\ Len(two) \in Nat /\ Len(three) \in Nat /\ Len(four) \in Nat
      BY <2>1
    <2>6. \A i \in 1..Len(three) : Len(two) + i \in 1..Len(q)
      BY <2>2, <2>5
    <2> QED BY <2>2, <2>4, <2>5, <2>6
  <1>5. Len(two) \in Nat /\ Len(three) \in Nat /\ Len(four) \in Nat
    BY <1>2
  <1>6. \A i \in 1..Len(p) :
            \/ i \in 1..Len(two)
            \/ i - Len(two) \in 1..Len(three)
            \/ i - (Len(two) + Len(three)) \in 1..Len(four)
    BY <1>4, <1>5
  <1>7. ASSUME NEW i \in 1..Len(p)
        PROVE  p[i].do \in {"migrate", "applied", "version"}
    <2>1. CASE i \in 1..Len(two)
      BY <1>2, <1>4, <2>1
    <2>2. CASE i - Len(two) \in 1..Len(three)
      <3>1. p[Len(two) + (i - Len(two))] = three[i - Len(two)]
        BY <1>4, <2>2
      <3>2. Len(two) + (i - Len(two)) = i
        BY <1>5
      <3> QED BY <1>2, <2>2, <3>1, <3>2
    <2>3. CASE i - (Len(two) + Len(three)) \in 1..Len(four)
      <3> DEFINE k == i - (Len(two) + Len(three))
      <3>1. p[Len(two) + Len(three) + k] = four[k]
        BY <1>4, <2>3
      <3>2. Len(two) + Len(three) + k = i
        BY <1>5
      <3> QED BY <1>2, <2>3, <3>1, <3>2
    <2> QED BY <1>6, <2>1, <2>2, <2>3
  <1>8. ASSUME v < 3
        PROVE  Len(two) + 1 \in 1..Len(p) /\ p[Len(two) + 1] = Migrate(3)
    <2>1. Len(three) = 3 /\ three[1] = Migrate(3)
      BY <1>3, <1>8
    <2>2. p[Len(two) + 1] = three[1]
      BY <1>4, <2>1
    <2> QED BY <1>4, <1>5, <2>1, <2>2
  <1>9. ASSUME v < 3, NEW i \in 1..Len(p), p[i].do = "version", p[i].arg >= 3
        PROVE  Len(two) + 1 \in 1..(i - 1)
    <2>1. i \notin 1..Len(two)
      BY <1>3, <1>4, <1>9
    <2>2. i # Len(two) + 1
      BY <1>3, <1>8, <1>9
    <2> QED BY <1>5, <2>1, <2>2
  <1>10. DOMAIN p = 1..Len(p)
    BY <1>4
  <1> QED BY <1>4, <1>7, <1>8, <1>9, <1>10 DEF p

-----------------------------------------------------------------------------

LEMMA SetupStarts == SetupInit => SetupInv
  <1> SUFFICES ASSUME SetupInit PROVE SetupInv
    OBVIOUS
  <1>1. PICK v \in FoundVersions : db = DatabaseOf(v)
    BY DEF SetupInit
  <1>2. v \in 0..4
    BY SetupAssumption DEF SCHEMA_VERSION
  <1>3. 1..v \subseteq 1..4
    BY <1>2
  <1>4. /\ db \in Databases /\ db.version = v
        /\ v >= 3 => db.events = "chained"
        /\ v = 0 => db.events # "plain"
        /\ v \in 1..2 => db.events # "none"
        /\ v = 4 => db.triggers = TRIGGERS
        /\ db.events # "unfilled"
    BY <1>1, <1>2, <1>3 DEF DatabaseOf, Databases, SCHEMA_VERSION, OldTriggers, TRIGGERS
  <1>5. /\ SetupTypes /\ DriftIsVisible /\ KillsAreNotDrift
        /\ ConnectionSees /\ Rebuilding /\ FileIsWhole
    BY <1>4
    DEF SetupInit, SetupTypes, DriftIsVisible, KillsAreNotDrift, Ended, ConnectionSees, Rebuilding,
        FileIsWhole
  <1>6. DdlHeals /\ MigrationsComplete
    BY DEF SetupInit, DdlHeals, MigrationsComplete
  <1>7. VersionIsEarned
    BY <1>4 DEF VersionIsEarned, SCHEMA_VERSION
  <1> QED BY <1>5, <1>6, <1>7 DEF SetupInv

\* A database whose triggers are gone although none was dropped is not finished.
LEMMA BeginKeeps ==
    ASSUME SetupInv, NEW r \in BOOLEAN, BeginSetup(r)
    PROVE  SetupInv'
  <1>1. /\ phase \in Ended \ {"open"} /\ db' = db /\ drops' = drops /\ seen' = seen /\ tx' = tx
        /\ undeclared' = (undeclared /\ ~r)
        /\ \/ Refuses(r) /\ phase' = "refused" /\ todo' = <<>>
           \/ ~Refuses(r) /\ phase' = "ddl" /\ todo' = DDL
    BY DEF BeginSetup
  <1>2. SetupTypes'
    <2>1. DDL \in Seq(Statements) /\ <<>> \in Seq(Statements)
      BY DdlStatements
    <2> QED BY <1>1, <2>1 DEF SetupInv, SetupTypes, Running, Ended
  <1>0. tx = 0
    BY <1>1 DEF SetupInv, ConnectionSees, Ended
  <1>3. DriftIsVisible' /\ ConnectionSees' /\ Rebuilding' /\ FileIsWhole'
    BY <1>0, <1>1
    DEF SetupInv, DriftIsVisible, Refuses, GuardOk, Ended, ConnectionSees, Rebuilding, FileIsWhole
  <1>4. DdlHeals' /\ MigrationsComplete'
    <2>1. CASE phase' = "ddl"
      BY <1>1, <2>1, DdlStatements DEF DdlHeals, MigrationsComplete, ToDo
    <2>2. CASE phase' = "refused"
      BY <2>2 DEF DdlHeals, MigrationsComplete
    <2> QED BY <1>1, <2>1, <2>2
  <1>5. VersionIsEarned'
    BY <1>1 DEF SetupInv, VersionIsEarned
  <1>6. KillsAreNotDrift'
    BY <1>1 DEF SetupInv, KillsAreNotDrift, Refuses, GuardOk, VersionIsEarned, SCHEMA_VERSION
  <1> QED BY <1>2, <1>3, <1>4, <1>5, <1>6 DEF SetupInv

\* The first statement of the list is taken, and its effect is in the file.
TakesStatement ==
    /\ phase \in Running /\ todo # <<>>
    /\ phase' = phase /\ todo' = Tail(todo) /\ tx' = 0 /\ seen' = db'
    /\ drops' = drops /\ undeclared' = undeclared
    /\ db' \in Databases
    /\ db'.version = IF Head(todo).do = "version" THEN Head(todo).arg ELSE db.version
    /\ db'.events \in {db.events, "chained"}
    /\ db.triggers \subseteq db'.triggers
    /\ Head(todo) = CreateTable("events") => db'.events # "none"
    /\ Head(todo) = Migrate(3) => db'.events = "chained"
    /\ \A t \in TRIGGERS : Head(todo) = CreateTrigger(t) => t \in db'.triggers

LEMMA StatementTaken ==
    ASSUME SetupInv, TakesStatement
    PROVE  SetupInv'
  <1> DEFINE s == Head(todo)
             e == db'
  <1>0. /\ phase \in Running /\ drops' = drops /\ undeclared' = undeclared
        /\ ~undeclared
    BY DEF TakesStatement, SetupInv, DriftIsVisible, Running, Ended
  <1>1. /\ phase' = phase /\ todo' = Tail(todo) /\ db' = e
        /\ todo \in Seq(Statements) /\ todo # <<>> /\ db \in Databases
        /\ tx' = 0 /\ seen' = db'
    BY DEF TakesStatement, SetupInv, SetupTypes
  <1>2. /\ s = todo[1] /\ s \in Statements /\ 1 \in DOMAIN todo /\ todo' \in Seq(Statements)
        /\ \A i \in DOMAIN todo' : i + 1 \in DOMAIN todo /\ todo'[i] = todo[i + 1]
        /\ \A i \in DOMAIN todo : i = 1 \/ (i - 1 \in DOMAIN todo' /\ todo'[i - 1] = todo[i])
    BY <1>1
  <1>3. /\ e \in Databases
        /\ e.version = IF s.do = "version" THEN s.arg ELSE db.version
        /\ e.events \in {db.events, "chained"}
        /\ db.triggers \subseteq e.triggers /\ e.triggers \subseteq TRIGGERS
        /\ s = CreateTable("events") => e.events # "none"
        /\ s = Migrate(3) => e.events = "chained"
        /\ \A t \in TRIGGERS : s = CreateTrigger(t) => t \in e.triggers
    BY DEF TakesStatement, Databases
  <1> HIDE DEF s, e
  <1>10. ConnectionSees' /\ Rebuilding' /\ FileIsWhole'
    BY <1>1, <1>3 DEF SetupInv, ConnectionSees, Rebuilding, FileIsWhole
  <1>4. SetupTypes'
    BY <1>0, <1>1, <1>2, <1>3 DEF SetupInv, SetupTypes
  <1>5. DriftIsVisible' /\ KillsAreNotDrift'
    BY <1>0, <1>1 DEF SetupInv, DriftIsVisible, KillsAreNotDrift
  <1>6. \A x : ToDo(x) => x = s \/ ToDo(x)'
    BY <1>2 DEF ToDo
  <1>7. DdlHeals'
    <2> SUFFICES ASSUME phase = "ddl"
                 PROVE  /\ \A i \in DOMAIN todo' : todo'[i].do \in {"table", "trigger"}
                        /\ drops = 0 => \A t \in TRIGGERS : t \in e.triggers \/ ToDo(CreateTrigger(t))'
                        /\ e.events = "none" => ToDo(CreateTable("events"))'
      BY <1>0, <1>1 DEF DdlHeals, ToDo, CreateTable, CreateTrigger
    <2>1. \A i \in DOMAIN todo' : todo'[i].do \in {"table", "trigger"}
      BY <1>2 DEF SetupInv, DdlHeals
    <2>2. drops = 0 => \A t \in TRIGGERS : t \in e.triggers \/ ToDo(CreateTrigger(t))'
      BY <1>3, <1>6 DEF SetupInv, DdlHeals
    <2>3. e.events = "none" => ToDo(CreateTable("events"))'
      BY <1>3, <1>6 DEF SetupInv, DdlHeals
    <2> QED BY <2>1, <2>2, <2>3
  <1>8. MigrationsComplete'
    <2> SUFFICES ASSUME phase = "migrations"
                 PROVE  /\ \A i \in DOMAIN todo' : todo'[i].do \in {"migrate", "applied", "version"}
                        /\ drops = 0 => e.triggers = TRIGGERS
                        /\ e.events # "none"
                        /\ e.events = "plain" => ToDo(Migrate(3))'
                        /\ \A i \in DOMAIN todo' :
                              todo'[i].do = "version" /\ todo'[i].arg >= 3 =>
                                 e.events = "chained" \/ \E j \in 1..(i - 1) : todo'[j] = Migrate(3)
      BY <1>0, <1>1 DEF MigrationsComplete, ToDo, Migrate
    <2>1. \A i \in DOMAIN todo' : todo'[i].do \in {"migrate", "applied", "version"}
      BY <1>2 DEF SetupInv, MigrationsComplete
    <2>2. /\ drops = 0 => e.triggers = TRIGGERS
          /\ e.events # "none"
      BY <1>3 DEF SetupInv, MigrationsComplete
    <2>3. e.events = "plain" => ToDo(Migrate(3))'
      BY <1>3, <1>6 DEF SetupInv, MigrationsComplete
    <2>4. ASSUME NEW i \in DOMAIN todo', todo'[i].do = "version", todo'[i].arg >= 3,
                 e.events # "chained"
          PROVE  \E j \in 1..(i - 1) : todo'[j] = Migrate(3)
      <3>1. i + 1 \in DOMAIN todo /\ todo[i + 1] = todo'[i] /\ i \in Nat
        BY <1>1, <1>2
      <3>2. PICK j \in 1..i : todo[j] = Migrate(3)
        <4>1. (i + 1) - 1 = i
          BY <3>1
        <4>2. db.events # "chained"
          BY <1>3, <2>4
        <4> QED BY <2>4, <3>1, <4>1, <4>2 DEF SetupInv, MigrationsComplete
      <3>3. j # 1
        BY <1>2, <1>3, <2>4, <3>2
      <3>4. j \in DOMAIN todo
        BY <1>1, <3>1, <3>2
      <3> QED BY <1>2, <3>1, <3>2, <3>3, <3>4
    <2> QED BY <2>1, <2>2, <2>3, <2>4
  <1>9. VersionIsEarned'
    <2>1. CASE s.do = "version"
      <3>1. phase = "migrations"
        BY <1>0, <1>2, <2>1 DEF SetupInv, DdlHeals, Running, Execute
      <3>2. s.arg \in 2..4
        BY <1>2, <2>1 DEF Statements
      <3>3. s.arg >= 3 => db.events = "chained"
        BY <1>2, <2>1, <3>1 DEF SetupInv, MigrationsComplete
      <3>4. db.events # "none" /\ (drops = 0 => db.triggers = TRIGGERS)
        BY <3>1 DEF SetupInv, MigrationsComplete
      <3>5. db'.version = s.arg /\ db'.triggers = e.triggers /\ db'.events \in {db.events, "chained"}
        BY <1>1, <1>3, <2>1
      <3>6. drops' = 0 => db'.triggers = TRIGGERS
        <4>1. db.triggers = TRIGGERS => e.triggers = TRIGGERS
          BY <1>3
        <4> QED BY <1>0, <3>4, <3>5, <4>1
      <3> QED BY <3>2, <3>3, <3>4, <3>5, <3>6 DEF VersionIsEarned, SCHEMA_VERSION
    <2>2. CASE s.do # "version"
      BY <1>0, <1>1, <1>3, <2>2 DEF SetupInv, VersionIsEarned
    <2> QED BY <2>1, <2>2
  <1> QED BY <1>4, <1>5, <1>7, <1>8, <1>9, <1>10 DEF SetupInv

\* A statement outside a transaction.
LEMMA AloneKeeps == SetupInv /\ Execute /\ tx = 0 => SetupInv'
  <1> SUFFICES ASSUME SetupInv, Execute, tx = 0 PROVE SetupInv'
    OBVIOUS
  <1>1. /\ phase \in Running /\ todo # <<>> /\ phase' = phase /\ todo' = Tail(todo) /\ tx' = 0
        /\ drops' = drops /\ undeclared' = undeclared
        /\ ~OpensTransaction(Head(todo))
        /\ seen' = Executed(Head(todo)) /\ db' = seen'
    BY DEF Execute, Statement, FileAfter
  <1>2. seen = db /\ seen \in Databases /\ todo \in Seq(Statements)
    BY DEF SetupInv, SetupTypes, ConnectionSees
  <1>3. Head(todo) \in Statements
    BY <1>1, <1>2
  <1>4. /\ db' \in Databases
        /\ db'.version = IF Head(todo).do = "version" THEN Head(todo).arg ELSE db.version
        /\ db'.events \in {db.events, "chained"}
        /\ db.triggers \subseteq db'.triggers
        /\ Head(todo) = CreateTable("events") => db'.events # "none"
        /\ Head(todo) # Migrate(3)
        /\ \A t \in TRIGGERS : Head(todo) = CreateTrigger(t) => t \in db'.triggers
    <2>1. /\ db' = Executed(Head(todo)) /\ db = seen
      BY <1>1, <1>2
    <2> QED BY <1>1, <1>2, <1>3, <2>1, ExecutedDb
  <1> QED BY <1>1, <1>2, <1>4, StatementTaken DEF TakesStatement

\* The transaction that is open is that of migration 3 or 4.
LEMMA OpenTransaction ==
    ASSUME SetupInv, tx # 0
    PROVE  \/ Head(todo) = Migrate(3) /\ Head(todo).arg = 3 /\ tx \in 1..8 /\ (AtCommit <=> tx = 8)
           \/ Head(todo) = Migrate(4) /\ Head(todo).arg = 4 /\ tx \in 1..4 /\ (AtCommit <=> tx = 4)
  <1>1. tx \in Nat /\ Head(todo) \in {Migrate(3), Migrate(4)}
    BY DEF SetupInv, SetupTypes, ConnectionSees
  <1>2. CASE Head(todo) = Migrate(3)
    <2>1. Head(todo).arg = 3 /\ tx <= 8
      BY <1>2 DEF SetupInv, Rebuilding, Migrate
    <2>2. AtCommit <=> tx > 0 /\ tx > 7
      BY <2>1, Transactions DEF AtCommit
    <2> QED BY <1>1, <1>2, <2>1, <2>2
  <1>3. CASE Head(todo) = Migrate(4)
    <2>1. Head(todo).arg = 4 /\ tx <= 4
      BY <1>3 DEF SetupInv, Rebuilding, Migrate
    <2>2. AtCommit <=> tx > 0 /\ tx > 3
      BY <2>1, Transactions DEF AtCommit
    <2> QED BY <1>1, <1>3, <2>1, <2>2
  <1> QED BY <1>1, <1>2, <1>3

\* A statement of a transaction leaves the file alone.
LEMMA InsideKeeps == SetupInv /\ Execute /\ tx # 0 => SetupInv'
  <1> SUFFICES ASSUME SetupInv, Execute, tx # 0 PROVE SetupInv'
    OBVIOUS
  <1>1. /\ phase' = phase /\ todo' = todo /\ tx' = tx + 1 /\ db' = db
        /\ drops' = drops /\ undeclared' = undeclared /\ ~AtCommit
        /\ seen' = Executed(MIGRATIONS(Head(todo).arg)[tx])
    BY DEF Execute, Statement, FileAfter
  <1>2. /\ seen \in Databases /\ tx \in Nat /\ seen.version = db.version
        /\ Head(todo) \in {Migrate(3), Migrate(4)} /\ Migrate(3) # Migrate(4)
    BY DEF SetupInv, SetupTypes, ConnectionSees, Migrate
  <1>3. /\ seen' \in Databases /\ seen'.version = db.version
        /\ Rebuilding'
    <2>1. CASE Head(todo) = Migrate(3)
      <3>1. Head(todo).arg = 3 /\ tx \in 1..7
        BY <1>1, <1>2, <2>1, OpenTransaction
      <3>2. /\ tx >= 6 /\ "no_update" \in db.triggers => "no_update" \in seen.triggers
            /\ tx >= 7 /\ "no_delete" \in db.triggers => "no_delete" \in seen.triggers
            /\ "no_insert_over_existing" \in db.triggers =>
                  "no_insert_over_existing" \in seen.triggers
            /\ tx >= 5 => seen.events = "chained"
        BY <2>1 DEF SetupInv, Rebuilding
      <3>3. SUFFICES /\ seen' \in Databases /\ seen'.version = db.version
                     /\ tx >= 5 /\ "no_update" \in db.triggers => "no_update" \in seen'.triggers
                     /\ tx >= 6 /\ "no_delete" \in db.triggers => "no_delete" \in seen'.triggers
                     /\ "no_insert_over_existing" \in db.triggers =>
                           "no_insert_over_existing" \in seen'.triggers
                     /\ tx >= 4 => seen'.events = "chained"
        BY <1>1, <1>2, <2>1, <3>1 DEF Rebuilding
      <3> DEFINE e == Executed(MIGRATIONS(3)[tx])
      <3>4. seen' = e
        BY <1>1, <3>1
      <3>5. CASE tx = 1
        BY <1>2, <3>2, <3>4, <3>5, Transactions, TriggerExecuted DEF TRIGGERS
      <3>6. CASE tx = 2
        BY <1>2, <3>2, <3>4, <3>6, Transactions, TriggerExecuted DEF TRIGGERS
      <3>7. CASE tx = 3
        BY <1>2, <3>2, <3>4, <3>7, Transactions, ChainExecuted
      <3>8. CASE tx = 4
        BY <1>2, <3>2, <3>4, <3>8, Transactions, ChainExecuted
      <3>9. CASE tx = 5
        BY <1>2, <3>2, <3>4, <3>9, Transactions, TriggerExecuted DEF TRIGGERS
      <3>10. CASE tx = 6
        BY <1>2, <3>2, <3>4, <3>10, Transactions, TriggerExecuted DEF TRIGGERS
      <3>11. CASE tx = 7
        BY <1>2, <3>2, <3>4, <3>11, Transactions, TriggerExecuted DEF TRIGGERS
      <3> QED BY <3>1, <3>5, <3>6, <3>7, <3>8, <3>9, <3>10, <3>11
    <2>2. CASE Head(todo) = Migrate(4)
      <3>1. Head(todo).arg = 4 /\ tx \in 1..3
        BY <1>1, <1>2, <2>2, OpenTransaction
      <3>2. db.triggers \subseteq seen.triggers /\ seen.events = db.events
        BY <2>2 DEF SetupInv, Rebuilding
      <3>3. PICK t \in TRIGGERS : MIGRATIONS(4)[tx] = CreateTrigger(t)
        BY <3>1, Transactions DEF TRIGGERS
      <3>4. /\ seen' \in Databases /\ seen'.version = db.version
            /\ db.triggers \subseteq seen'.triggers /\ seen'.events = db.events
        BY <1>1, <1>2, <3>1, <3>2, <3>3, TriggerExecuted
      <3> QED BY <1>1, <1>2, <2>2, <3>1, <3>4 DEF Rebuilding
    <2> QED BY <1>2, <2>1, <2>2
  <1>4. SetupTypes' /\ ConnectionSees'
    BY <1>1, <1>2, <1>3 DEF SetupInv, SetupTypes, ConnectionSees
  <1>5. /\ DriftIsVisible' /\ FileIsWhole' /\ VersionIsEarned' /\ KillsAreNotDrift'
        /\ DdlHeals' /\ MigrationsComplete'
    BY <1>1
    DEF SetupInv, DriftIsVisible, FileIsWhole, VersionIsEarned, KillsAreNotDrift, DdlHeals,
        MigrationsComplete, ToDo, CreateTable, CreateTrigger, Migrate
  <1> QED BY <1>3, <1>4, <1>5 DEF SetupInv

LEMMA ExecuteKeeps == SetupInv /\ Execute => SetupInv'
  BY AloneKeeps, InsideKeeps

LEMMA BeginTransactionKeeps == SetupInv /\ BeginTransaction => SetupInv'
  <1> SUFFICES ASSUME SetupInv, BeginTransaction PROVE SetupInv'
    OBVIOUS
  <1>1. /\ phase \in Running /\ todo # <<>> /\ tx = 0 /\ tx' = 1 /\ OpensTransaction(Head(todo))
        /\ db' = db /\ seen' = seen /\ phase' = phase /\ todo' = todo
        /\ drops' = drops /\ undeclared' = undeclared
    BY DEF BeginTransaction, Statement
  <1>2. seen = db /\ db \in Databases /\ todo \in Seq(Statements)
    BY <1>1 DEF SetupInv, SetupTypes, ConnectionSees
  <1>3. Head(todo) \in Statements /\ Head(todo) = todo[1] /\ 1 \in DOMAIN todo
    BY <1>1, <1>2
  <1>4. Head(todo) \in {Migrate(3), Migrate(4)}
    BY <1>1, <1>3 DEF OpensTransaction, IsFunction, Statements, Migrate
  <1>5. phase = "migrations"
    <2>1. Head(todo).do = "migrate"
      BY <1>4 DEF Migrate
    <2> QED BY <1>1, <1>3, <2>1 DEF SetupInv, DdlHeals, Running
  <1>6. SetupTypes' /\ ConnectionSees' /\ Rebuilding'
    BY <1>1, <1>2, <1>4, <1>5 DEF SetupInv, SetupTypes, ConnectionSees, Rebuilding
  <1>7. /\ DriftIsVisible' /\ FileIsWhole' /\ VersionIsEarned' /\ KillsAreNotDrift'
        /\ DdlHeals' /\ MigrationsComplete'
    BY <1>1
    DEF SetupInv, DriftIsVisible, FileIsWhole, VersionIsEarned, KillsAreNotDrift, DdlHeals,
        MigrationsComplete, ToDo, CreateTable, CreateTrigger, Migrate
  <1> QED BY <1>6, <1>7 DEF SetupInv

\* What COMMIT puts in the file: every trigger it had, and a history that is
\* chained or as it was.
LEMMA CommitsWhole ==
    ASSUME SetupInv, Commit
    PROVE  /\ seen \in Databases /\ seen.version = db.version
           /\ Head(todo) \in {Migrate(3), Migrate(4)}
           /\ db.triggers \subseteq seen.triggers
           /\ seen.events \in {db.events, "chained"}
           /\ Head(todo) = Migrate(3) => seen.events = "chained"
  <1>1. tx # 0 /\ AtCommit
    BY DEF Commit, AtCommit, SetupInv, SetupTypes
  <1>2. /\ seen \in Databases /\ db \in Databases /\ seen.version = db.version
        /\ Head(todo) \in {Migrate(3), Migrate(4)} /\ Migrate(3) # Migrate(4)
    BY <1>1 DEF SetupInv, SetupTypes, ConnectionSees, Migrate
  <1>3. CASE Head(todo) = Migrate(3)
    <2>1. tx = 8
      BY <1>1, <1>2, <1>3, OpenTransaction
    <2>2. \A t \in TRIGGERS : t \in db.triggers => t \in seen.triggers
      BY <1>1, <1>3, <2>1 DEF SetupInv, Rebuilding, TRIGGERS
    <2>3. seen.events = "chained"
      BY <1>1, <1>3, <2>1 DEF SetupInv, Rebuilding
    <2> QED BY <1>2, <2>2, <2>3 DEF Databases
  <1>4. CASE Head(todo) = Migrate(4)
    BY <1>1, <1>2, <1>4 DEF SetupInv, Rebuilding
  <1> QED BY <1>2, <1>3, <1>4

LEMMA CommitKeeps == SetupInv /\ Commit => SetupInv'
  <1> SUFFICES ASSUME SetupInv, Commit PROVE SetupInv'
    OBVIOUS
  <1>1. /\ phase \in Running /\ todo # <<>> /\ phase' = phase /\ todo' = Tail(todo) /\ tx' = 0
        /\ db' = seen /\ seen' = seen /\ drops' = drops /\ undeclared' = undeclared
    BY DEF Commit
  <1>2. /\ Head(todo).do # "version" /\ Head(todo) # CreateTable("events")
        /\ \A t : Head(todo) # CreateTrigger(t)
    BY CommitsWhole DEF Migrate, CreateTable, CreateTrigger
  <1>3. TakesStatement
    BY <1>1, <1>2, CommitsWhole DEF TakesStatement
  <1> QED BY <1>3, StatementTaken

\* A call that ends early leaves the file as it is, and nothing uncommitted.
LEMMA StopKeeps ==
    ASSUME SetupInv, NEW end \in {"failed", "rolled_back", "down"}, StopSetup(end)
    PROVE  SetupInv'
  <1>1. /\ phase' = end /\ todo' = <<>> /\ seen' = db /\ tx' = 0 /\ db' = db
        /\ drops' = drops /\ undeclared' = undeclared
    BY DEF StopSetup
  <1>2. SetupTypes'
    <2>1. <<>> \in Seq(Statements)
      OBVIOUS
    <2> QED BY <1>1, <2>1 DEF SetupInv, SetupTypes, Ended
  <1>3. DdlHeals' /\ MigrationsComplete' /\ ConnectionSees' /\ Rebuilding'
    BY <1>1 DEF DdlHeals, MigrationsComplete, ConnectionSees, Rebuilding
  <1>4. DriftIsVisible' /\ FileIsWhole' /\ VersionIsEarned' /\ KillsAreNotDrift'
    BY <1>1 DEF SetupInv, DriftIsVisible, FileIsWhole, VersionIsEarned, KillsAreNotDrift, Ended
  <1> QED BY <1>2, <1>3, <1>4 DEF SetupInv

LEMMA RaisingKeeps == SetupInv /\ (ExecuteRaises \/ BackfillRaises \/ Kill) => SetupInv'
  BY StopKeeps DEF ExecuteRaises, BackfillRaises, Kill

\* After the DDL the triggers are there, and the migrations chain the history.
LEMMA ReadVersionKeeps == SetupInv /\ ReadVersion => SetupInv'
  <1> SUFFICES ASSUME SetupInv, ReadVersion PROVE SetupInv'
    OBVIOUS
  <1>1. /\ phase = "ddl" /\ todo = <<>> /\ phase' = "migrations" /\ todo' = MigrationSteps
        /\ db' = db /\ drops' = drops /\ undeclared' = undeclared /\ seen' = seen /\ tx' = tx
        /\ tx = 0
    BY DEF ReadVersion, SetupInv, ConnectionSees
  <1>2. /\ drops = 0 => db.triggers = TRIGGERS
        /\ db.events # "none" /\ db \in Databases
    <2>1. \A x : ~ToDo(x)
      BY <1>1 DEF ToDo
    <2> QED BY <1>1, <2>1 DEF SetupInv, SetupTypes, DdlHeals, Databases
  <1>3. db.version \in 0..4 /\ db.events \in {"none", "plain", "chained"}
    BY <1>2 DEF Databases, SCHEMA_VERSION, SetupInv, FileIsWhole
  <1>4. /\ todo' \in Seq(Statements)
        /\ \A i \in DOMAIN todo' : todo'[i].do \in {"migrate", "applied", "version"}
        /\ db.events = "plain" => ToDo(Migrate(3))'
        /\ \A i \in DOMAIN todo' :
              todo'[i].do = "version" /\ todo'[i].arg >= 3 =>
                 db.events = "chained" \/ \E j \in 1..(i - 1) : todo'[j] = Migrate(3)
    <2>1. CASE db.version = 0
      <3>1. db.events = "chained"
        BY <1>2, <1>3, <2>1 DEF SetupInv, VersionIsEarned
      <3>2. todo' = FreshSteps
        BY <1>1, <2>1 DEF MigrationSteps
      <3> QED BY <3>1, <3>2, FreshStatements
    <2>2. CASE db.version \in 1..4
      <3>1. todo' = PendingSteps(db.version)
        BY <1>1, <2>2 DEF MigrationSteps
      <3>2. db.version >= 3 => db.events = "chained"
        BY DEF SetupInv, VersionIsEarned
      <3>3. db.version < 3 \/ db.version >= 3
        BY <2>2
      <3>4. /\ todo' \in Seq(Statements)
            /\ \A i \in DOMAIN todo' : todo'[i].do \in {"migrate", "applied", "version"}
            /\ db.version < 3 =>
                  /\ \E i \in DOMAIN todo' : todo'[i] = Migrate(3)
                  /\ \A i \in DOMAIN todo' :
                        todo'[i].do = "version" /\ todo'[i].arg >= 3 =>
                           \E j \in 1..(i - 1) : todo'[j] = Migrate(3)
        BY <2>2, <3>1, PendingStatements
      <3>5. db.version < 3 => ToDo(Migrate(3))'
        BY <3>4 DEF ToDo, Migrate
      <3> QED BY <3>2, <3>3, <3>4, <3>5
    <2> QED BY <1>3, <2>1, <2>2
  <1>5. /\ SetupTypes' /\ DriftIsVisible' /\ DdlHeals' /\ KillsAreNotDrift'
        /\ ConnectionSees' /\ Rebuilding' /\ FileIsWhole'
    BY <1>1, <1>4
    DEF SetupInv, SetupTypes, DriftIsVisible, DdlHeals, KillsAreNotDrift, Running, Ended,
        ConnectionSees, Rebuilding, FileIsWhole
  <1>6. MigrationsComplete'
    BY <1>1, <1>2, <1>4 DEF MigrationsComplete, ToDo, Migrate
  <1>7. VersionIsEarned'
    BY <1>1 DEF SetupInv, VersionIsEarned
  <1> QED BY <1>5, <1>6, <1>7 DEF SetupInv

LEMMA GuardKeeps == SetupInv /\ InstallGuard => SetupInv'
  <1> SUFFICES ASSUME SetupInv, InstallGuard PROVE SetupInv'
    OBVIOUS
  <1>1. /\ phase = "migrations" /\ todo = <<>> /\ phase' = IF GuardOk THEN "open" ELSE "refused"
        /\ db' = db /\ drops' = drops /\ undeclared' = undeclared /\ todo' = todo
        /\ seen' = seen /\ tx' = tx /\ tx = 0
    BY DEF InstallGuard, SetupInv, ConnectionSees
  <1>2. drops = 0 => GuardOk
    BY <1>1 DEF SetupInv, SetupTypes, MigrationsComplete, ToDo, GuardOk, Databases
  <1>3. SetupTypes' /\ ConnectionSees' /\ Rebuilding' /\ FileIsWhole'
    BY <1>1
    DEF SetupInv, SetupTypes, ConnectionSees, Rebuilding, FileIsWhole, Running, Ended
  <1>4. /\ DriftIsVisible' /\ DdlHeals' /\ MigrationsComplete' /\ VersionIsEarned'
        /\ KillsAreNotDrift'
    BY <1>1, <1>2
    DEF SetupInv, DriftIsVisible, DdlHeals, MigrationsComplete, VersionIsEarned,
        KillsAreNotDrift, Running, Ended
  <1> QED BY <1>3, <1>4 DEF SetupInv

LEMMA CloseKeeps == SetupInv /\ Close => SetupInv'
  <1> SUFFICES ASSUME SetupInv, Close PROVE SetupInv'
    OBVIOUS
  <1>1. /\ phase' = "down" /\ db' = db /\ drops' = drops /\ undeclared' = undeclared
        /\ todo' = todo /\ seen' = seen /\ tx' = tx /\ phase = "open"
    BY DEF Close
  <1>2. /\ SetupTypes' /\ DdlHeals' /\ MigrationsComplete'
        /\ ConnectionSees' /\ Rebuilding' /\ FileIsWhole'
    BY <1>1
    DEF SetupInv, SetupTypes, DdlHeals, MigrationsComplete, Ended, ConnectionSees, Rebuilding,
        FileIsWhole
  <1>3. DriftIsVisible' /\ VersionIsEarned' /\ KillsAreNotDrift'
    BY <1>1 DEF SetupInv, DriftIsVisible, VersionIsEarned, KillsAreNotDrift, Ended
  <1> QED BY <1>2, <1>3 DEF SetupInv

LEMMA DropKeeps ==
    ASSUME SetupInv, NEW t \in TRIGGERS, DropTrigger(t)
    PROVE  SetupInv'
  <1>1. /\ drops' = drops + 1 /\ drops \in Nat /\ phase' = phase /\ todo' = todo /\ t \in db.triggers
        /\ db' = [db EXCEPT !.triggers = @ \ {t}] /\ db \in Databases
        /\ seen' = db' /\ tx = 0 /\ tx' = 0
        /\ undeclared' = (undeclared \/ (db.version = SCHEMA_VERSION /\ phase \in Ended))
    BY DEF DropTrigger, SetupInv, SetupTypes
  <1>2. db.triggers \ {t} \in SUBSET TRIGGERS
    BY <1>1 DEF Databases
  <1>3. /\ db' \in Databases /\ db'.version = db.version /\ db'.events = db.events
        /\ db'.triggers = db.triggers \ {t}
    BY <1>1, <1>2 DEF Databases
  <1>4. drops' # 0 /\ drops' \in Nat
    BY <1>1
  <1>5. SetupTypes' /\ KillsAreNotDrift' /\ ConnectionSees' /\ Rebuilding' /\ FileIsWhole'
    BY <1>1, <1>3, <1>4
    DEF SetupInv, SetupTypes, KillsAreNotDrift, ConnectionSees, Rebuilding, FileIsWhole
  <1>6. DriftIsVisible'
    BY <1>1, <1>3 DEF SetupInv, DriftIsVisible
  <1>7. DdlHeals' /\ MigrationsComplete' /\ VersionIsEarned'
    BY <1>1, <1>3, <1>4
    DEF SetupInv, DdlHeals, MigrationsComplete, VersionIsEarned, ToDo, CreateTable, Migrate
  <1> QED BY <1>5, <1>6, <1>7 DEF SetupInv

LEMMA SetupStepKeeps == SetupInv /\ [SetupNext]_setupVars => SetupInv'
  <1> SUFFICES ASSUME SetupInv, [SetupNext]_setupVars PROVE SetupInv'
    OBVIOUS
  <1>1. CASE UNCHANGED setupVars
    BY <1>1
    DEF setupVars, SetupInv, SetupTypes, DriftIsVisible, DdlHeals, MigrationsComplete,
        VersionIsEarned, KillsAreNotDrift, ToDo, CreateTable, CreateTrigger, Migrate,
        ConnectionSees, Rebuilding, FileIsWhole
  <1>2. CASE SetupNext
    BY <1>2, BeginKeeps, ExecuteKeeps, BeginTransactionKeeps, CommitKeeps, RaisingKeeps,
       ReadVersionKeeps, GuardKeeps, CloseKeeps, DropKeeps
    DEF SetupNext
  <1> QED BY <1>1, <1>2

LEMMA SetupInvHolds == SetupSpec => []SetupInv
  BY SetupStarts, SetupStepKeeps, PTL DEF SetupSpec

-----------------------------------------------------------------------------

\* A database that only calls of setup have touched is never refused as one
\* that was tampered with, wherever those calls were killed (sqlite_store.py
\* 77-130).
THEOREM SetupIsNeverRefused == SetupSpec => []KillsAreNotDrift
  <1>1. SetupInv => KillsAreNotDrift
    BY DEF SetupInv
  <1> QED BY <1>1, SetupInvHolds, PTL

\* A finished database that lost a trigger opens again only after a call with
\* allow_repair (sqlite_store.py 139-160).
THEOREM DriftNeedsRepair == SetupSpec => DriftIsDeclared
  <1>1. SetupInv /\ [SetupNext]_setupVars => [phase # "open" /\ phase' = "open" => ~undeclared']_setupVars
    <2> SUFFICES ASSUME SetupInv, SetupNext, phase # "open", phase' = "open"
                 PROVE  ~undeclared'
      OBVIOUS
    <2>1. InstallGuard
      BY DEF SetupNext, BeginSetup, Execute, BeginTransaction, Commit, ExecuteRaises, BackfillRaises,
             StopSetup, ReadVersion, Close, Kill, DropTrigger, Ended
    <2> QED BY <2>1 DEF InstallGuard, SetupInv, DriftIsVisible, Ended
  <1> QED BY <1>1, SetupInvHolds, PTL DEF SetupSpec, DriftIsDeclared

\* Wherever migration 3 raises or is killed between dropping the triggers and
\* creating them again, the file keeps every trigger it had, and the columns of
\* the chain are never in it without the hashes (schema.py 205-282).
THEOREM SetupNeverUnguards == SetupSpec => HistoryStaysGuarded
  <1>1. SetupInv /\ [SetupNext]_setupVars =>
          [drops' = drops => db.triggers \subseteq db'.triggers /\ db'.events # "unfilled"]_setupVars
    <2> SUFFICES ASSUME SetupInv, SetupNext, drops' = drops
                 PROVE  db.triggers \subseteq db'.triggers /\ db'.events # "unfilled"
      OBVIOUS
    <2>1. db'.events # "unfilled"
      BY SetupStepKeeps DEF SetupInv, FileIsWhole
    <2>2. CASE Execute /\ tx = 0
      <3>1. /\ todo \in Seq(Statements) /\ todo # <<>> /\ seen \in Databases /\ seen = db
            /\ ~OpensTransaction(Head(todo)) /\ db' = Executed(Head(todo))
        BY <2>2 DEF Execute, Statement, FileAfter, SetupInv, SetupTypes, ConnectionSees
      <3>2. Head(todo) \in Statements
        BY <3>1
      <3>3. db.triggers \subseteq Executed(Head(todo)).triggers
        BY <3>1, <3>2, ExecutedDb
      <3> QED BY <2>1, <3>1, <3>3
    <2>3. CASE Commit
      <3>1. db' = seen
        BY <2>3 DEF Commit
      <3> QED BY <2>1, <2>3, <3>1, CommitsWhole
    <2>4. CASE db' = db
      BY <2>1, <2>4
    <2>5. drops \in Nat
      BY DEF SetupInv, SetupTypes
    <2>6. Execute /\ tx # 0 => db' = db
      BY DEF Execute, FileAfter
    <2> QED
      BY <2>2, <2>3, <2>4, <2>5, <2>6
      DEF SetupNext, BeginSetup, BeginTransaction, ExecuteRaises, BackfillRaises, StopSetup,
          ReadVersion, InstallGuard, Close, Kill, DropTrigger
  <1> QED BY <1>1, SetupInvHolds, PTL DEF SetupSpec, HistoryStaysGuarded

-----------------------------------------------------------------------------
(***************************************************************************)
(* CHECKPOINTS.  The cross-check reports nothing the system did itself, and*)
(* recovery starts from the last commit unless the clock was set back.     *)
(*                                                                         *)
(* A log only grows, so an event a checkpoint refers to stays in it; and   *)
(* rows of a clock that only moves on are in the order of their times, so  *)
(* the latest is the last one.                                             *)
(***************************************************************************)

BranchNames == {"root", "fork"}
NoEvent == <<"none", 0>>
Rows == [id : Nat, branch : BranchNames, at : Nat, parent : SUBSET Nat,
         last : {"none", "root", "fork"} \X Nat]

CheckpointTypes ==
    /\ own \in [BranchNames -> Nat]
    /\ forkedAt \in Int /\ (Forked => forkedAt <= own["root"])
    /\ saved \in Seq(Rows)
    /\ saver \in [branch : BranchNames, at : {"down", "turn", "commit"}, id : Nat]
    /\ saver.at # "down" => saver.branch \in BranchesThere
    /\ ids \in Nat /\ wallTime \in Nat /\ setBack \in BOOLEAN

\* The events a branch's log is made of, in no order.
EventsOf(b) ==
    IF b = "root" THEN {<<"root", k>> : k \in 1..own["root"]}
    ELSE {<<"root", k>> : k \in 1..forkedAt} \cup {<<"fork", k>> : k \in 1..own["fork"]}

RefersToLog ==
    \A i \in 1..Len(saved) :
        /\ saved[i].branch \in BranchesThere
        /\ saved[i].last = NoEvent \/ saved[i].last \in EventsOf(saved[i].branch)

InOrder ==
    ~setBack => \A i \in 1..Len(saved) :
        saved[i].at <= wallTime /\ \A j \in 1..i : saved[j].at <= saved[i].at

IsALine ==
    ~setBack => \A i \in 1..Len(saved) :
        saved[i].parent = IF i = 1 THEN {} ELSE {saved[i - 1].id}

CheckpointInv == CheckpointTypes /\ RefersToLog /\ InOrder /\ IsALine

-----------------------------------------------------------------------------

LEMMA RowTypes ==
    ASSUME CheckpointTypes
    PROVE  /\ DOMAIN saved = 1..Len(saved) /\ Len(saved) \in Nat
           /\ \A i \in 1..Len(saved) : saved[i].at \in Nat /\ saved[i].id \in Nat
  <1>1. saved \in Seq(Rows)
    BY DEF CheckpointTypes
  <1>2. \A i \in 1..Len(saved) : saved[i] \in Rows
    BY <1>1
  <1>3. \A x \in Rows : x.at \in Nat /\ x.id \in Nat
    BY DEF Rows
  <1> QED BY <1>1, <1>2, <1>3

\* A branch's log has its events and those it shares with the root.
LEMMA LogOfRoot ==
    ASSUME CheckpointTypes
    PROVE  /\ Len(LogOfBranch("root")) = own["root"]
           /\ DOMAIN LogOfBranch("root") = 1..own["root"]
           /\ \A k \in 1..own["root"] : LogOfBranch("root")[k] = <<"root", k>>
  BY DEF CheckpointTypes, LogOfBranch, OwnEvents, BranchNames

LEMMA LogOfFork ==
    ASSUME CheckpointTypes, Forked
    PROVE  /\ Len(LogOfBranch("fork")) = forkedAt + own["fork"]
           /\ DOMAIN LogOfBranch("fork") = 1..(forkedAt + own["fork"])
           /\ \A k \in 1..forkedAt : LogOfBranch("fork")[k] = <<"root", k>>
           /\ \A k \in 1..own["fork"] : LogOfBranch("fork")[forkedAt + k] = <<"fork", k>>
  <1> DEFINE r == OwnEvents("root")
             f == OwnEvents("fork")
             E == BranchNames \X Nat
             p == SubSeq(r, 1, forkedAt)
  <1>1. /\ own["root"] \in Nat /\ own["fork"] \in Nat /\ forkedAt \in Nat
        /\ forkedAt <= own["root"]
    BY DEF CheckpointTypes, Forked, BranchNames
  <1>2. /\ r \in Seq(E) /\ Len(r) = own["root"] /\ \A k \in 1..own["root"] : r[k] = <<"root", k>>
        /\ f \in Seq(E) /\ Len(f) = own["fork"] /\ \A k \in 1..own["fork"] : f[k] = <<"fork", k>>
    BY <1>1 DEF OwnEvents, BranchNames
  <1>3. LogOfBranch("fork") = p \o f
    BY DEF LogOfBranch
  <1> HIDE DEF r, f
  <1>4. p \in Seq(E) /\ Len(p) = forkedAt /\ \A k \in 1..forkedAt : p[k] = r[k]
    BY <1>1, <1>2
  <1> HIDE DEF p, E
  <1>5. /\ p \o f \in Seq(E) /\ Len(p \o f) = Len(p) + Len(f)
        /\ \A i \in 1..(Len(p) + Len(f)) :
              (p \o f)[i] = IF i <= Len(p) THEN p[i] ELSE f[i - Len(p)]
    BY <1>2, <1>4, ConcatProperties
  <1>6. \A k \in 1..own["fork"] : /\ forkedAt + k \in 1..(forkedAt + own["fork"])
                                  /\ ~(forkedAt + k <= forkedAt) /\ (forkedAt + k) - forkedAt = k
    BY <1>1
  <1>7. \A k \in 1..forkedAt : k \in 1..(forkedAt + own["fork"]) /\ k <= forkedAt
    BY <1>1
  <1> DEFINE l == LogOfBranch("fork")
  <1>8. l = p \o f
    BY <1>3
  <1> HIDE DEF l
  <1>9. Len(l) = forkedAt + own["fork"] /\ DOMAIN l = 1..(forkedAt + own["fork"])
    BY <1>1, <1>2, <1>4, <1>5, <1>8
  <1>10. \A i \in 1..(forkedAt + own["fork"]) : l[i] = IF i <= forkedAt THEN p[i] ELSE f[i - forkedAt]
    BY <1>2, <1>4, <1>5, <1>8
  <1>11. ASSUME NEW k \in 1..forkedAt PROVE l[k] = <<"root", k>>
    <2>1. l[k] = p[k] /\ p[k] = r[k]
      BY <1>4, <1>7, <1>10
    <2>2. k \in 1..own["root"]
      BY <1>1
    <2> QED BY <1>2, <2>1, <2>2
  <1>12. ASSUME NEW k \in 1..own["fork"] PROVE l[forkedAt + k] = <<"fork", k>>
    <2>1. l[forkedAt + k] = f[k]
      BY <1>6, <1>10
    <2> QED BY <1>2, <2>1
  <1> QED BY <1>9, <1>11, <1>12 DEF l

LEMMA LogHasItsEvents ==
    ASSUME CheckpointTypes, NEW b \in BranchesThere
    PROVE  /\ \A e \in EventsOf(b) : \E k \in DOMAIN LogOfBranch(b) : LogOfBranch(b)[k] = e
           /\ LastEvent(b) = NoEvent \/ LastEvent(b) \in EventsOf(b)
           /\ LastEvent(b) \in {"none", "root", "fork"} \X Nat
           /\ own[b] > 0 => last_seq(b) + 1 = Len(LogOfBranch(b))
  <1>1. own["root"] \in Nat /\ own["fork"] \in Nat
    BY DEF CheckpointTypes, BranchNames
  <1>2. CASE b = "root"
    <2>1. \A e \in EventsOf(b) : \E k \in DOMAIN LogOfBranch(b) : LogOfBranch(b)[k] = e
      BY <1>2, LogOfRoot DEF EventsOf
    <2>2. CASE LogOfBranch(b) = <<>>
      BY <1>1, <1>2, <2>1, <2>2, LogOfRoot DEF LastEvent, NoEvent, last_seq
    <2>3. CASE LogOfBranch(b) # <<>>
      <3>1. own["root"] > 0
        BY <1>1, <1>2, <2>3, LogOfRoot DEF LogOfBranch, OwnEvents
      <3>2. LastEvent(b) = <<"root", own["root"]>>
        BY <1>1, <1>2, <2>3, <3>1, LogOfRoot DEF LastEvent
      <3> QED BY <1>1, <1>2, <2>1, <3>1, <3>2, LogOfRoot DEF EventsOf, last_seq
    <2> QED BY <2>2, <2>3
  <1>3. CASE b = "fork"
    <2>1. Forked /\ forkedAt \in Nat
      BY <1>3 DEF BranchesThere, Forked, CheckpointTypes
    <2>2. \A e \in EventsOf(b) : \E k \in DOMAIN LogOfBranch(b) : LogOfBranch(b)[k] = e
      <3> SUFFICES ASSUME NEW e \in EventsOf(b)
                   PROVE  \E k \in DOMAIN LogOfBranch(b) : LogOfBranch(b)[k] = e
        OBVIOUS
      <3>1. CASE \E k \in 1..forkedAt : e = <<"root", k>>
        <4>1. PICK k \in 1..forkedAt : e = <<"root", k>>
          BY <3>1
        <4>2. k \in 1..(forkedAt + own["fork"])
          BY <1>1, <2>1
        <4> QED BY <1>3, <2>1, <4>1, <4>2, LogOfFork
      <3>2. CASE \E k \in 1..own["fork"] : e = <<"fork", k>>
        <4>1. PICK k \in 1..own["fork"] : e = <<"fork", k>>
          BY <3>2
        <4>2. forkedAt + k \in 1..(forkedAt + own["fork"])
          BY <1>1, <2>1
        <4> QED BY <1>3, <2>1, <4>1, <4>2, LogOfFork
      <3> QED BY <1>3, <3>1, <3>2 DEF EventsOf
    <2>3. /\ LastEvent(b) = NoEvent \/ LastEvent(b) \in EventsOf(b)
          /\ LastEvent(b) \in {"none", "root", "fork"} \X Nat
      <3>1. CASE LogOfBranch(b) = <<>>
        BY <3>1 DEF LastEvent, NoEvent
      <3>2. CASE LogOfBranch(b) # <<>> /\ own["fork"] > 0
        <4>1. LastEvent(b) = LogOfBranch("fork")[forkedAt + own["fork"]]
          BY <1>3, <2>1, <3>2, LogOfFork DEF LastEvent
        <4>2. own["fork"] \in 1..own["fork"]
          BY <1>1, <3>2
        <4>3. LastEvent(b) = <<"fork", own["fork"]>>
          BY <2>1, <4>1, <4>2, LogOfFork
        <4> QED BY <1>1, <1>3, <4>2, <4>3 DEF EventsOf
      <3>3. CASE LogOfBranch(b) # <<>> /\ own["fork"] = 0
        <4>1. Len(LogOfBranch("fork")) = forkedAt
          BY <2>1, <3>3, LogOfFork
        <4>2. CASE forkedAt > 0
          <5>1. forkedAt \in 1..forkedAt
            BY <2>1, <4>2
          <5>2. LastEvent(b) = <<"root", forkedAt>>
            BY <1>3, <2>1, <3>3, <4>1, <5>1, LogOfFork DEF LastEvent
          <5> QED BY <1>3, <2>1, <5>1, <5>2 DEF EventsOf
        <4>3. CASE forkedAt = 0
          <5>1. LogOfBranch("fork") \in Seq(BranchNames \X Nat)
            <6> DEFINE r == OwnEvents("root")
                       f == OwnEvents("fork")
            <6>1. r \in Seq(BranchNames \X Nat) /\ Len(r) = own["root"]
                BY <1>1 DEF OwnEvents, BranchNames
            <6>2. f \in Seq(BranchNames \X Nat)
                BY <1>1 DEF OwnEvents, BranchNames
            <6>3. LogOfBranch("fork") = SubSeq(r, 1, forkedAt) \o f
                BY DEF LogOfBranch
            <6> HIDE DEF r, f
            <6>4. SubSeq(r, 1, forkedAt) \in Seq(BranchNames \X Nat)
                BY <4>3, <6>1, SubSeqProperties
            <6> QED BY <6>2, <6>3, <6>4, ConcatProperties
          <5>2. LogOfBranch("fork") = <<>>
            BY <4>1, <4>3, <5>1, EmptySeq
          <5> QED BY <1>3, <3>3, <5>2
        <4> QED BY <2>1, <4>2, <4>3
      <3> QED BY <1>1, <3>1, <3>2, <3>3
    <2>4. own[b] > 0 => last_seq(b) + 1 = Len(LogOfBranch(b))
      BY <1>1, <1>3, <2>1, LogOfFork DEF last_seq
    <2> QED BY <2>2, <2>3, <2>4
  <1> QED BY <1>2, <1>3 DEF BranchesThere

\* Of rows in the order of their times the last is the latest.
LEMMA LatestIsLast ==
    ASSUME CheckpointTypes, InOrder, ~setBack
    PROVE  get_latest = IF saved = <<>> THEN {} ELSE {Len(saved)}
  <1>1. DOMAIN saved = 1..Len(saved) /\ Len(saved) \in Nat
    BY RowTypes
  <1>2. \A i \in 1..Len(saved) : saved[i].at \in Nat
    BY RowTypes
  <1>3. ASSUME NEW i \in get_latest PROVE i = Len(saved)
    <2>1. i \in 1..Len(saved) /\ \A j \in DOMAIN saved \ {i} : Newer(i, j)
      BY <1>1, <1>3 DEF get_latest
    <2>2. CASE i < Len(saved)
      <3>1. Newer(i, Len(saved)) /\ Len(saved) \in 1..Len(saved)
        BY <1>1, <2>1, <2>2
      <3>2. saved[i].at <= saved[Len(saved)].at
        BY <2>1, <2>2, <3>1 DEF InOrder
      <3>3. saved[i].at \in Nat /\ saved[Len(saved)].at \in Nat
        BY <1>2, <2>1, <3>1
      <3>4. i \in Nat /\ Len(saved) \in Nat
        BY <1>1, <2>1
      <3> QED BY <2>2, <3>1, <3>2, <3>3, <3>4 DEF Newer
    <2>3. i \in 1..Len(saved) /\ Len(saved) \in Nat
      BY <1>1, <2>1
    <2> QED BY <2>2, <2>3
  <1>4. ASSUME saved # <<>> PROVE Len(saved) \in get_latest
    <2>1. Len(saved) \in 1..Len(saved)
      BY <1>1, <1>4, EmptySeq DEF CheckpointTypes
    <2>2. ASSUME NEW j \in DOMAIN saved \ {Len(saved)} PROVE Newer(Len(saved), j)
      <3>1. j \in 1..Len(saved) /\ j < Len(saved)
        BY <1>1
      <3>2. saved[j].at <= saved[Len(saved)].at
        BY <2>1, <3>1 DEF InOrder
      <3> QED BY <1>2, <2>1, <3>1, <3>2 DEF Newer
    <2> QED BY <1>1, <2>1, <2>2 DEF get_latest
  <1>5. saved = <<>> => get_latest = {}
    BY DEF get_latest
  <1> QED BY <1>3, <1>4, <1>5

-----------------------------------------------------------------------------

LEMMA CheckpointStarts == CheckpointInit => CheckpointInv
  <1> SUFFICES ASSUME CheckpointInit PROVE CheckpointInv
    OBVIOUS
  <1>1. CheckpointTypes
    <2>1. saved \in Seq(Rows)
      BY DEF CheckpointInit
    <2>2. own \in [BranchNames -> Nat] /\ forkedAt \in Int /\ ~Forked
      BY DEF CheckpointInit, BranchNames, Forked
    <2>3. /\ saver \in [branch : BranchNames, at : {"down", "turn", "commit"}, id : Nat]
          /\ saver.at = "down"
      BY DEF CheckpointInit, NotRunning, BranchNames
    <2> QED BY <2>1, <2>2, <2>3 DEF CheckpointInit, CheckpointTypes
  <1>2. RefersToLog /\ InOrder /\ IsALine
    BY DEF CheckpointInit, RefersToLog, InOrder, IsALine
  <1> QED BY <1>1, <1>2 DEF CheckpointInv

\* Events of a branch stay in its log when it grows or is forked.
LEMMA LogsGrow ==
    ASSUME CheckpointTypes, RefersToLog, saved' = saved,
           \/ own' = own /\ forkedAt' = forkedAt
           \/ own' = own /\ ~Forked /\ forkedAt' \in Nat
           \/ forkedAt' = forkedAt /\ \E b \in BranchNames : own' = [own EXCEPT ![b] = @ + 1]
    PROVE  RefersToLog'
  <1>1. BranchesThere \subseteq BranchesThere'
    BY DEF BranchesThere, Forked
  <1>2. ASSUME NEW b \in BranchesThere PROVE EventsOf(b) \subseteq EventsOf(b)'
    <2>1. own["root"] \in Nat /\ own["fork"] \in Nat
      BY DEF CheckpointTypes, BranchNames
    <2>2. own'["root"] \in Nat /\ own'["fork"] \in Nat
          /\ own["root"] <= own'["root"] /\ own["fork"] <= own'["fork"]
      BY <2>1 DEF CheckpointTypes, BranchNames
    <2>3. 1..own["root"] \subseteq 1..own'["root"] /\ 1..own["fork"] \subseteq 1..own'["fork"]
      BY <2>1, <2>2
    <2>4. b = "root" \/ (b = "fork" /\ forkedAt' = forkedAt)
      BY DEF BranchesThere
    <2> QED BY <2>3, <2>4 DEF EventsOf
  <1>3. ASSUME NEW i \in 1..Len(saved)
        PROVE  /\ saved'[i].branch \in BranchesThere'
               /\ saved'[i].last = NoEvent \/ saved'[i].last \in EventsOf(saved[i].branch)'
    BY <1>1, <1>2 DEF RefersToLog
  <1> QED BY <1>3 DEF RefersToLog, EventsOf

LEMMA RunKeeps ==
    ASSUME CheckpointInv, NEW b \in BranchNames, RunBranch(b)
    PROVE  CheckpointInv'
  <1>1. CheckpointTypes'
    BY DEF CheckpointInv, CheckpointTypes, RunBranch, BranchesThere, Forked, BranchNames
  <1>2. RefersToLog'
    BY LogsGrow DEF CheckpointInv, RunBranch
  <1>3. InOrder' /\ IsALine'
    BY DEF CheckpointInv, InOrder, IsALine, RunBranch
  <1> QED BY <1>1, <1>2, <1>3 DEF CheckpointInv

LEMMA GrowKeeps ==
    ASSUME CheckpointInv, AppendEvent \/ \E n \in 1..MaxEventsOf : Fork(n)
    PROVE  CheckpointInv'
  <1>1. /\ saved' = saved /\ saver' = saver /\ ids' = ids /\ wallTime' = wallTime
        /\ setBack' = setBack
        /\ \/ /\ forkedAt' = forkedAt
              /\ \E b \in BranchNames : own' = [own EXCEPT ![b] = @ + 1]
           \/ /\ own' = own /\ ~Forked /\ forkedAt' \in 1..own["root"]
    BY DEF AppendEvent, Fork, CheckpointInv, CheckpointTypes
  <1>2. own["root"] \in Nat
    BY DEF CheckpointInv, CheckpointTypes, BranchNames
  <1>3. RefersToLog'
    BY <1>1, <1>2, LogsGrow DEF CheckpointInv
  <1>4. CASE forkedAt' = forkedAt /\ \E b \in BranchNames : own' = [own EXCEPT ![b] = @ + 1]
    <2>1. own' \in [BranchNames -> Nat] /\ own["root"] <= own'["root"] /\ own'["root"] \in Nat
      BY <1>2, <1>4 DEF CheckpointInv, CheckpointTypes, BranchNames
    <2>2. forkedAt <= own["root"] => forkedAt <= own'["root"]
      BY <1>2, <2>1 DEF CheckpointInv, CheckpointTypes
    <2> QED
      BY <1>1, <1>3, <1>4, <2>1, <2>2
      DEF CheckpointInv, CheckpointTypes, InOrder, IsALine, Forked, BranchesThere
  <1>5. CASE own' = own /\ ~Forked /\ forkedAt' \in 1..own["root"]
    <2>1. forkedAt' \in Int /\ forkedAt' <= own'["root"]
      BY <1>2, <1>5
    <2>2. saver.branch \in BranchesThere => saver.branch \in BranchesThere'
      BY <1>5 DEF BranchesThere
    <2> QED
      BY <1>1, <1>3, <1>5, <2>1, <2>2
      DEF CheckpointInv, CheckpointTypes, InOrder, IsALine
  <1> QED BY <1>1, <1>4, <1>5

LEMMA WritesKeep ==
    ASSUME CheckpointInv, NEW w, put_writes(w)
    PROVE  CheckpointInv'
  <1>1. /\ saver' = [branch |-> saver.branch, at |-> "commit", id |-> ids + 1] /\ saver.at = "turn"
        /\ ids' = ids + 1 /\ own' = own /\ forkedAt' = forkedAt /\ saved' = saved
        /\ wallTime' = wallTime /\ setBack' = setBack
    BY DEF put_writes
  <1>2. /\ saver' \in [branch : BranchNames, at : {"down", "turn", "commit"}, id : Nat]
        /\ saver'.branch = saver.branch
    BY <1>1 DEF CheckpointInv, CheckpointTypes
  <1>3. CheckpointTypes'
    BY <1>1, <1>2 DEF CheckpointInv, CheckpointTypes, Forked, BranchesThere
  <1>4. RefersToLog' /\ InOrder' /\ IsALine'
    BY <1>1, LogsGrow DEF CheckpointInv, InOrder, IsALine
  <1> QED BY <1>3, <1>4 DEF CheckpointInv

\* The row that is added comes last, and leads on from the one before.
LEMMA PutKeeps == CheckpointInv /\ put => CheckpointInv'
  <1> SUFFICES ASSUME CheckpointInv, put PROVE CheckpointInv'
    OBVIOUS
  <1> DEFINE row == [id |-> saver.id, branch |-> saver.branch, at |-> wallTime,
                     parent |-> {saved[i].id : i \in get_latest}, last |-> LastEvent(saver.branch)]
             n == Len(saved)
  <1>1. /\ saver.at = "commit" /\ saver' = [saver EXCEPT !.at = "turn"]
        /\ saved' = Append(saved, row) /\ own' = own /\ forkedAt' = forkedAt
        /\ ids' = ids /\ wallTime' = wallTime /\ setBack' = setBack
    BY DEF put
  <1>2. /\ CheckpointTypes /\ saver.branch \in BranchesThere /\ saved \in Seq(Rows) /\ n \in Nat
        /\ saver.branch \in BranchNames /\ saver.id \in Nat /\ wallTime \in Nat
    BY <1>1 DEF CheckpointInv, CheckpointTypes
  <1>3. /\ LastEvent(saver.branch) = NoEvent \/ LastEvent(saver.branch) \in EventsOf(saver.branch)
        /\ LastEvent(saver.branch) \in {"none", "root", "fork"} \X Nat
    BY <1>2, LogHasItsEvents
  <1>4. {saved[i].id : i \in get_latest} \in SUBSET Nat
    BY <1>2, RowTypes DEF get_latest
  <1>5. /\ row \in Rows /\ row.branch = saver.branch /\ row.at = wallTime
        /\ row.parent = {saved[i].id : i \in get_latest} /\ row.last = LastEvent(saver.branch)
    BY <1>2, <1>3, <1>4 DEF Rows
  <1> HIDE DEF row
  <1>6. /\ saved' \in Seq(Rows) /\ Len(saved') = n + 1 /\ saved'[n + 1] = row
        /\ \A i \in 1..n : saved'[i] = saved[i]
        /\ \A i \in 1..(n + 1) : i \in 1..n \/ i = n + 1
    BY <1>1, <1>2, <1>5, AppendProperties
  <1>7. saver' \in [branch : BranchNames, at : {"down", "turn", "commit"}, id : Nat]
        /\ saver'.branch = saver.branch
    BY <1>1, <1>2 DEF CheckpointTypes
  <1>8. CheckpointTypes'
    BY <1>1, <1>2, <1>6, <1>7 DEF CheckpointTypes, Forked, BranchesThere
  <1>9. RefersToLog'
    <2>1. \A b : EventsOf(b)' = EventsOf(b)
      BY <1>1 DEF EventsOf
    <2>2. BranchesThere' = BranchesThere
      BY <1>1 DEF BranchesThere, Forked
    <2>3. ASSUME NEW i \in 1..(n + 1)
          PROVE  /\ saved'[i].branch \in BranchesThere
                 /\ saved'[i].last = NoEvent \/ saved'[i].last \in EventsOf(saved'[i].branch)
      <3>1. CASE i \in 1..n
        BY <1>6, <3>1 DEF CheckpointInv, RefersToLog
      <3>2. CASE i = n + 1
        BY <1>2, <1>3, <1>5, <1>6, <3>2
      <3> QED BY <1>6, <3>1, <3>2
    <2> QED BY <1>1, <1>6, <2>2, <2>3 DEF RefersToLog, EventsOf
  <1>10. InOrder'
    <2> SUFFICES ASSUME ~setBack, NEW i \in 1..(n + 1)
                 PROVE  saved'[i].at <= wallTime /\ \A j \in 1..i : saved'[j].at <= saved'[i].at
      BY <1>1, <1>6 DEF InOrder
    <2>1. \A k \in 1..n : saved[k].at <= wallTime /\ \A j \in 1..k : saved[j].at <= saved[k].at
      BY DEF CheckpointInv, InOrder
    <2>2. CASE i \in 1..n
      BY <1>2, <1>6, <2>1, <2>2
    <2>3. CASE i = n + 1
      BY <1>2, <1>5, <1>6, <2>1, <2>3
    <2> QED BY <1>6, <2>2, <2>3
  <1>11. IsALine'
    <2> SUFFICES ASSUME ~setBack, NEW i \in 1..(n + 1)
                 PROVE  saved'[i].parent = IF i = 1 THEN {} ELSE {saved'[i - 1].id}
      BY <1>1, <1>6 DEF IsALine
    <2>1. CASE i \in 1..n
      <3>1. saved[i].parent = IF i = 1 THEN {} ELSE {saved[i - 1].id}
        BY <2>1 DEF CheckpointInv, IsALine
      <3>2. i = 1 \/ i - 1 \in 1..n
        BY <1>2, <2>1
      <3> QED BY <1>6, <2>1, <3>1, <3>2
    <2>2. CASE i = n + 1
      <3>1. get_latest = IF saved = <<>> THEN {} ELSE {n}
        BY LatestIsLast DEF CheckpointInv
      <3>2. CASE saved = <<>>
        <4>1. n = 0 /\ row.parent = {}
          BY <1>5, <3>1, <3>2
        <4> QED BY <1>6, <2>2, <4>1
      <3>3. CASE saved # <<>>
        <4>1. n \in 1..n /\ i # 1 /\ i - 1 = n
          BY <1>2, <2>2, <3>3, EmptySeq
        <4>2. row.parent = {saved[n].id}
          BY <1>5, <3>1, <3>3
        <4> QED BY <1>6, <2>2, <4>1, <4>2
      <3> QED BY <3>2, <3>3
    <2> QED BY <1>6, <2>1, <2>2
  <1> QED BY <1>8, <1>9, <1>10, <1>11 DEF CheckpointInv

LEMMA StopKeepsRows == CheckpointInv /\ StopRunning => CheckpointInv'
  <1> SUFFICES ASSUME CheckpointInv, StopRunning PROVE CheckpointInv'
    OBVIOUS
  <1>1. CheckpointTypes'
    BY DEF StopRunning, CheckpointInv, CheckpointTypes, NotRunning, BranchNames, Forked
  <1>2. RefersToLog' /\ InOrder' /\ IsALine'
    BY LogsGrow DEF StopRunning, CheckpointInv, InOrder, IsALine
  <1> QED BY <1>1, <1>2 DEF CheckpointInv

LEMMA CheckpointClockKeeps ==
    ASSUME CheckpointInv, NEW t \in 0..MaxWallTime, SetClock(t)
    PROVE  CheckpointInv'
  <1>1. CheckpointTypes'
    BY DEF SetClock, CheckpointInv, CheckpointTypes, Forked, BranchesThere
  <1>2. RefersToLog'
    BY LogsGrow DEF SetClock, CheckpointInv
  <1>3. InOrder' /\ IsALine'
    <2> SUFFICES ASSUME ~setBack' PROVE InOrder' /\ IsALine'
      BY DEF InOrder, IsALine
    <2>1. ~setBack /\ wallTime <= t /\ saved' = saved /\ wallTime' = t /\ t \in Nat /\ wallTime \in Nat
      <3>1. saved' = saved /\ wallTime' = t /\ setBack' = (setBack \/ t < wallTime)
        BY DEF SetClock
      <3>2. t \in Nat /\ wallTime \in Nat
        BY CheckpointAssumption DEF CheckpointInv, CheckpointTypes
      <3>3. ~setBack /\ ~(t < wallTime)
        BY <3>1, Zenon
      <3> QED BY <3>1, <3>2, <3>3
    <2>2. \A i \in 1..Len(saved) : saved[i].at \in Nat
      BY RowTypes DEF CheckpointInv
    <2>3. IsALine'
      BY <2>1 DEF CheckpointInv, IsALine
    <2>4. \A i \in 1..Len(saved) : saved[i].at <= wallTime /\ \A j \in 1..i : saved[j].at <= saved[i].at
      BY <2>1 DEF CheckpointInv, InOrder
    <2>5. \A i \in 1..Len(saved) : saved[i].at <= t
      BY <2>1, <2>2, <2>4
    <2> QED BY <2>1, <2>3, <2>4, <2>5 DEF InOrder
  <1> QED BY <1>1, <1>2, <1>3 DEF CheckpointInv

LEMMA CheckpointStepKeeps == CheckpointInv /\ [CheckpointNext]_checkpointVars => CheckpointInv'
  <1> SUFFICES ASSUME CheckpointInv, [CheckpointNext]_checkpointVars PROVE CheckpointInv'
    OBVIOUS
  <1>1. CASE UNCHANGED checkpointVars
    BY <1>1
    DEF checkpointVars, CheckpointInv, CheckpointTypes, RefersToLog, InOrder, IsALine, Forked,
        BranchesThere, EventsOf
  <1>2. CASE CheckpointNext
    BY <1>2, RunKeeps, GrowKeeps, WritesKeep, PutKeeps, StopKeepsRows, CheckpointClockKeeps
    DEF CheckpointNext, BranchNames
  <1> QED BY <1>1, <1>2

-----------------------------------------------------------------------------

\* The cross-check reports nothing the system did itself (loop.py 390-397),
\* and recovery starts from the last commit unless the clock was set back
\* (checkpoints.py 190-215).
THEOREM CheckpointsMatch == CheckpointSpec => []CheckpointsMatchLogs
  <1>1. CheckpointInv => CheckpointsMatchLogs
    <2> SUFFICES ASSUME CheckpointInv PROVE CheckpointsMatchLogs
      OBVIOUS
    <2>1. CrossCheckIsSilent
      <3> SUFFICES ASSUME NEW b \in BranchesThere, NEW i \in get_latest, saved[i].branch = b,
                          saved[i].last # <<"none", 0>>
                   PROVE  \E k \in DOMAIN LogOfBranch(b) : LogOfBranch(b)[k] = saved[i].last
        BY DEF CrossCheckIsSilent, Mismatch, Concerns
      <3>1. i \in 1..Len(saved)
        BY DEF get_latest, CheckpointInv, CheckpointTypes
      <3>2. saved[i].last \in EventsOf(b)
        BY <3>1 DEF CheckpointInv, RefersToLog, NoEvent
      <3> QED BY <3>2, LogHasItsEvents DEF CheckpointInv
    <2>2. RecoveryStartsFromLastCommit
      <3> SUFFICES ASSUME ~setBack PROVE
              /\ \A i \in DOMAIN saved : saved[i].parent = IF i = 1 THEN {} ELSE {saved[i - 1].id}
              /\ \A p \in recovery_plan :
                    /\ p.checkpoint = saved[Len(saved)].id
                    /\ p.replay \cap {ERROR, SCHEDULED, INTERRUPT} = {}
                    /\ own[saved[Len(saved)].branch] > 0 =>
                          p.from = Len(LogOfBranch(saved[Len(saved)].branch))
        BY DEF RecoveryStartsFromLastCommit
      <3>1. DOMAIN saved = 1..Len(saved)
        BY DEF CheckpointInv, CheckpointTypes
      <3>2. \A i \in DOMAIN saved : saved[i].parent = IF i = 1 THEN {} ELSE {saved[i - 1].id}
        BY <3>1 DEF CheckpointInv, IsALine
      <3>3. ASSUME NEW p \in recovery_plan
            PROVE  /\ p.checkpoint = saved[Len(saved)].id
                   /\ p.replay \cap {ERROR, SCHEDULED, INTERRUPT} = {}
                   /\ own[saved[Len(saved)].branch] > 0 =>
                         p.from = Len(LogOfBranch(saved[Len(saved)].branch))
        <4>1. PICK i \in get_latest : p = Plan(i)
          BY DEF recovery_plan
        <4>2. i = Len(saved) /\ i \in 1..Len(saved)
          BY <3>1, LatestIsLast DEF CheckpointInv, get_latest
        <4> DEFINE b == saved[i].branch
                   w == taskOutputs[saved[i].id]
        <4>3. b \in BranchesThere
          BY <4>2 DEF CheckpointInv, RefersToLog
        <4>4. /\ p.checkpoint = saved[i].id /\ p.from = last_seq(b) + 1
              /\ p.replay = IF w # {} /\ Outcome(w) = "completed" THEN w ELSE {}
          BY <4>1 DEF Plan
        <4> HIDE DEF b, w
        <4>5. Outcome(w) = "completed" => w \cap {ERROR, SCHEDULED, INTERRUPT} = {}
          BY DEF Outcome
        <4>6. own[b] > 0 => last_seq(b) + 1 = Len(LogOfBranch(b))
          BY <4>3, LogHasItsEvents DEF CheckpointInv
        <4> QED BY <4>2, <4>4, <4>5, <4>6 DEF b
      <3> QED BY <3>2, <3>3
    <2> QED BY <2>1, <2>2 DEF CheckpointsMatchLogs
  <1> QED BY <1>1, CheckpointStarts, CheckpointStepKeeps, PTL DEF CheckpointSpec

-----------------------------------------------------------------------------
(***************************************************************************)
(* LEASE.  A process outlives its lease by one guarded step at most, for any*)
(* log and any clock that does not go back.                                *)
(***************************************************************************)

Entries == [kind : {"write", "renew", "acquire"}, owner : Owners, expires : Nat, at : Nat]

Leases == {NoLease} \cup {fold_lease(s) : s \in Seq(Entries)}

Places == [at : {"idle", "checking", "writing", "appending"},
           for : {"nothing", "write", "renew", "acquire"}, lease : Leases, expires : Nat]

LeaseTypeOK ==
    /\ leaseLog \in Seq(Entries)
    /\ time \in Nat
    /\ writer \in [Owners -> Places]

\* Entries carry the time they were made at, and the clock does not go back.
TimesArePast == \A i \in 1..Len(leaseLog) : leaseLog[i].at <= time

IsGuarded(p, i) == leaseLog[i].owner = p /\ leaseLog[i].kind \in {"write", "renew"}

\* Every guarded step of p so far is among the first k entries.
AllBefore(p, k) == \A i \in 1..Len(leaseLog) : IsGuarded(p, i) => i <= k

\* What a process that checks has read was the lease after all its steps.
ReadIsRecent ==
    \A p \in Owners : writer[p].at = "checking" =>
        /\ writer[p].for \in {"write", "renew"}
        /\ \E k \in 0..Len(leaseLog) : writer[p].lease = LeaseAfter(k) /\ AllBefore(p, k)

\* A process about to take a guarded step had the lease after all its steps.
HadLease(p) ==
    \E k \in 0..Len(leaseLog), t \in 0..time :
        /\ LeaseAfter(k).owner = p
        /\ t < LeaseAfter(k).expires
        /\ \A i \in 1..Len(leaseLog) : IsGuarded(p, i) => i <= k /\ leaseLog[i].at <= t

CheckedIsHad ==
    \A p \in Owners :
        \/ writer[p].at = "writing"
        \/ writer[p].at = "appending" /\ writer[p].for = "renew"
        => HadLease(p)

\* What a step appends is of the kind it is at.
AppendsKnownKind ==
    \A p \in Owners : writer[p].at = "appending" => writer[p].for \in {"renew", "acquire"}

LeaseInv ==
    LeaseTypeOK /\ TimesArePast /\ ReadIsRecent /\ CheckedIsHad /\ AppendsKnownKind /\ OneStaleStepAtMost

-----------------------------------------------------------------------------

\* An append leaves the leases of the past as they were.
LEMMA PastIsKept ==
    ASSUME LeaseTypeOK, NEW e \in Entries, leaseLog' = Append(leaseLog, e)
    PROVE  /\ leaseLog' \in Seq(Entries)
           /\ Len(leaseLog) \in Nat
           /\ Len(leaseLog') = Len(leaseLog) + 1
           /\ \A i \in 1..Len(leaseLog) : leaseLog'[i] = leaseLog[i]
           /\ leaseLog'[Len(leaseLog) + 1] = e
           /\ \A k \in 0..Len(leaseLog) : LeaseAfter(k)' = LeaseAfter(k)
<1>1. leaseLog \in Seq(Entries)
    BY DEF LeaseTypeOK
<1>2. /\ leaseLog' \in Seq(Entries)
      /\ Len(leaseLog') = Len(leaseLog) + 1
      /\ \A i \in 1..Len(leaseLog) : leaseLog'[i] = leaseLog[i]
      /\ leaseLog'[Len(leaseLog) + 1] = e
    BY <1>1, AppendProperties
<1>3. Len(leaseLog) \in Nat
    BY <1>1, LenProperties
<1>4. ASSUME NEW k \in 0..Len(leaseLog)
      PROVE  LeaseAfter(k)' = LeaseAfter(k)
    <2>1. SubSeq(leaseLog', 1, k) = SubSeq(leaseLog, 1, k)
        <3>1. \A i \in 1..k : i \in 1..Len(leaseLog) /\ leaseLog'[i] = leaseLog[i]
            BY <1>2, <1>3
        <3>2. SubSeq(leaseLog', 1, k) = [i \in 1..k |-> leaseLog'[i]]
            BY <1>2, <1>3
        <3>3. SubSeq(leaseLog, 1, k) = [i \in 1..k |-> leaseLog[i]]
            BY <1>1, <1>3
        <3> QED BY <3>1, <3>2, <3>3
    <2> QED BY <2>1 DEF LeaseAfter
<1> QED BY <1>2, <1>3, <1>4

\* The lease after the whole log is the lease.
LEMMA LeaseAfterAll ==
    ASSUME LeaseTypeOK
    PROVE  Len(leaseLog) \in Nat /\ LeaseAfter(Len(leaseLog)) = fold_lease(leaseLog)
BY SubSeqFull, LenProperties DEF LeaseAfter, LeaseTypeOK

-----------------------------------------------------------------------------
(* Steps that leave the log alone *)

\* The clock may go on: what was had is still had.
LEMMA QuietKeepsHad ==
    ASSUME LeaseInv, UNCHANGED leaseLog, time' \in Nat, time <= time', NEW p \in Owners, HadLease(p)
    PROVE  HadLease(p)'
<1>1. time \in Nat /\ 0..time \subseteq 0..time'
    BY DEF LeaseInv, LeaseTypeOK
<1>2. \A k : LeaseAfter(k)' = LeaseAfter(k)
    BY DEF LeaseAfter
<1>3. \A i : IsGuarded(p, i)' = IsGuarded(p, i)
    BY DEF IsGuarded
<1> QED BY <1>1, <1>2, <1>3 DEF HadLease

\* Without a new entry the promise stays as it is.
LEMMA QuietKeepsPromise ==
    ASSUME LeaseInv, UNCHANGED leaseLog
    PROVE  OneStaleStepAtMost'
<1>1. \A k : LeaseAfter(k)' = LeaseAfter(k)
    BY DEF LeaseAfter
<1>2. \A i : AtOf(i)' = AtOf(i)
    BY DEF AtOf
<1>3. \A p : Guarded(p)' = Guarded(p)
    BY DEF Guarded
<1> QED BY <1>1, <1>2, <1>3 DEF OneStaleStepAtMost, LeaseInv

\* A step of one process that leaves the log and the clock alone keeps the
\* invariant if the new place of the process is a good one.
LEMMA QuietStep ==
    ASSUME LeaseInv, UNCHANGED <<leaseLog, time>>,
           NEW p \in Owners, NEW w \in Places, writer' = [writer EXCEPT ![p] = w],
           w.at = "checking" =>
               /\ w.for \in {"write", "renew"}
               /\ \E k \in 0..Len(leaseLog) : w.lease = LeaseAfter(k) /\ AllBefore(p, k),
           w.at = "writing" \/ (w.at = "appending" /\ w.for = "renew") => HadLease(p),
           w.at = "appending" => w.for \in {"renew", "acquire"}
    PROVE  LeaseInv'
<1>1. LeaseTypeOK'
    BY DEF LeaseInv, LeaseTypeOK, Entries, Places, Leases
<1>2. \A q \in Owners : writer'[q] = IF q = p THEN w ELSE writer[q]
    BY DEF LeaseInv, LeaseTypeOK
<1>3. TimesArePast'
    BY DEF LeaseInv, TimesArePast
<1>4. \A k : LeaseAfter(k)' = LeaseAfter(k)
    BY DEF LeaseAfter
<1>5. \A q, k : AllBefore(q, k)' = AllBefore(q, k)
    BY DEF AllBefore, IsGuarded
<1>6. ReadIsRecent'
    BY <1>2, <1>4, <1>5 DEF LeaseInv, ReadIsRecent
<1>7. CheckedIsHad'
    <2>1. time' \in Nat /\ time <= time'
        BY DEF LeaseInv, LeaseTypeOK
    <2>2. \A q \in Owners : HadLease(q) => HadLease(q)'
        BY <2>1, QuietKeepsHad
    <2> QED BY <1>2, <2>2 DEF LeaseInv, CheckedIsHad
<1>8. AppendsKnownKind'
    BY <1>2 DEF LeaseInv, AppendsKnownKind
<1>9. OneStaleStepAtMost'
    BY QuietKeepsPromise
<1> QED BY <1>1, <1>3, <1>6, <1>7, <1>8, <1>9 DEF LeaseInv

LEMMA IdleIsPlace == Idle \in Places
BY DEF Idle, Place, Places, Leases

LEMMA ReadLeaseKeeps ==
    ASSUME LeaseInv, NEW p \in Owners, NEW for \in {"write", "renew"}, ReadLease(p, for)
    PROVE  LeaseInv'
<1> DEFINE w == Place("checking", for, fold_lease(leaseLog), 0)
<1>1. fold_lease(leaseLog) \in Leases
    BY DEF Leases, LeaseInv, LeaseTypeOK
<1>2. w \in Places
    BY <1>1 DEF Place, Places
<1>3. Len(leaseLog) \in 0..Len(leaseLog) /\ w.lease = LeaseAfter(Len(leaseLog))
    BY LeaseAfterAll DEF LeaseInv, Place
<1>4. AllBefore(p, Len(leaseLog))
    BY <1>3 DEF AllBefore
<1>5. UNCHANGED <<leaseLog, time>> /\ writer' = [writer EXCEPT ![p] = w]
    BY DEF ReadLease
<1>6. w.at = "checking" /\ w.for = for
    BY DEF Place
<1> HIDE DEF w
<1> QED BY <1>2, <1>3, <1>4, <1>5, <1>6, QuietStep

LEMMA requireKeeps ==
    ASSUME LeaseInv, NEW p \in Owners, require(p)
    PROVE  LeaseInv'
<1> DEFINE read == writer[p]
<1>1. read \in Places /\ time \in Nat
    BY DEF LeaseInv, LeaseTypeOK
<1>2. read.for \in {"write", "renew"}
    BY DEF LeaseInv, ReadIsRecent, require
<1>3. ASSUME MayWrite(p, read.lease)
      PROVE  HadLease(p)
    <2>1. PICK k \in 0..Len(leaseLog) : read.lease = LeaseAfter(k) /\ AllBefore(p, k)
        BY DEF LeaseInv, ReadIsRecent, require
    <2>2. LeaseAfter(k).owner = p /\ time < LeaseAfter(k).expires
        BY <1>3, <2>1 DEF MayWrite
    <2>3. \A i \in 1..Len(leaseLog) : IsGuarded(p, i) => i <= k /\ leaseLog[i].at <= time
        BY <2>1 DEF AllBefore, LeaseInv, TimesArePast
    <2>4. time \in 0..time
        BY <1>1
    <2> QED BY <2>2, <2>3, <2>4 DEF HadLease
<1>4. UNCHANGED <<leaseLog, time>>
    BY DEF require
<1>5. CASE ~MayWrite(p, read.lease)
    <2>1. writer' = [writer EXCEPT ![p] = Idle]
        BY <1>5 DEF require
    <2>2. Idle.at = "idle"
        BY DEF Idle, Place
    <2> QED BY <1>4, <2>1, <2>2, IdleIsPlace, QuietStep
<1>6. CASE MayWrite(p, read.lease) /\ read.for = "write"
    <2> DEFINE w == Place("writing", "write", read.lease, 0)
    <2>1. writer' = [writer EXCEPT ![p] = w]
        BY <1>6 DEF require
    <2>2. w \in Places /\ w.at = "writing"
        BY <1>1 DEF Places, Place
    <2> HIDE DEF w
    <2> QED BY <1>3, <1>4, <1>6, <2>1, <2>2, QuietStep
<1>7. CASE MayWrite(p, read.lease) /\ read.for = "renew"
    <2> DEFINE w == Place("appending", "renew", read.lease, time + Ttl)
    <2>1. writer' = [writer EXCEPT ![p] = w]
        BY <1>7 DEF require
    <2>2. w \in Places /\ w.at = "appending" /\ w.for = "renew"
        BY <1>1, <1>7, LeaseAssumption DEF Places, Place
    <2> HIDE DEF w
    <2> QED BY <1>3, <1>4, <1>7, <2>1, <2>2, QuietStep
<1> QED BY <1>2, <1>5, <1>6, <1>7

LEMMA acquireKeeps ==
    ASSUME LeaseInv, NEW p \in Owners, acquire(p)
    PROVE  LeaseInv'
<1> DEFINE w == Place("appending", "acquire", NoLease, time + Ttl)
<1>1. w \in Places /\ w.at = "appending" /\ w.for = "acquire"
    BY LeaseAssumption DEF Place, Places, Leases, LeaseInv, LeaseTypeOK
<1>2. UNCHANGED <<leaseLog, time>> /\ writer' = [writer EXCEPT ![p] = w]
    BY DEF acquire
<1> HIDE DEF w
<1> QED BY <1>1, <1>2, QuietStep

LEMMA KillWriterKeeps ==
    ASSUME LeaseInv, NEW p \in Owners, KillWriter(p)
    PROVE  LeaseInv'
<1>1. Idle.at = "idle"
    BY DEF Idle, Place
<1>2. UNCHANGED <<leaseLog, time>> /\ writer' = [writer EXCEPT ![p] = Idle]
    BY DEF KillWriter
<1> QED BY <1>1, <1>2, IdleIsPlace, QuietStep

\* Time passes, or nothing happens.
LEMMA LeaseClockKeeps ==
    ASSUME LeaseInv, UNCHANGED <<leaseLog, writer>>, time' \in Nat, time <= time'
    PROVE  LeaseInv'
<1>1. LeaseTypeOK'
    BY DEF LeaseInv, LeaseTypeOK, Entries, Places, Leases
<1>2. TimesArePast'
    <2>1. ASSUME NEW i \in 1..Len(leaseLog)
          PROVE  leaseLog[i].at \in Nat
        <3>1. leaseLog[i] \in Entries
            BY ElementOfSeq DEF LeaseInv, LeaseTypeOK
        <3> QED BY <3>1 DEF Entries
    <2> QED BY <2>1 DEF LeaseInv, LeaseTypeOK, TimesArePast
<1>3. ReadIsRecent'
    BY DEF LeaseInv, ReadIsRecent, LeaseAfter, AllBefore, IsGuarded
<1>4. CheckedIsHad'
    BY QuietKeepsHad DEF LeaseInv, CheckedIsHad
<1>5. AppendsKnownKind'
    BY DEF LeaseInv, AppendsKnownKind
<1>6. OneStaleStepAtMost'
    BY QuietKeepsPromise
<1> QED BY <1>1, <1>2, <1>3, <1>4, <1>5, <1>6 DEF LeaseInv

-----------------------------------------------------------------------------
(* Steps that append *)

\* One more entry of p, made now; a guarded one by a process that had the lease.
LEMMA AppendStep ==
    ASSUME LeaseInv, NEW p \in Owners, NEW e \in Entries, e.owner = p, e.at = time,
           e.kind \in {"write", "renew"} => HadLease(p),
           leaseLog' = Append(leaseLog, e), UNCHANGED time, writer' = [writer EXCEPT ![p] = Idle]
    PROVE  LeaseInv'
<1> DEFINE n == Len(leaseLog)
<1>1. /\ leaseLog' \in Seq(Entries)
      /\ n \in Nat
      /\ Len(leaseLog') = n + 1
      /\ \A i \in 1..n : leaseLog'[i] = leaseLog[i]
      /\ leaseLog'[n + 1] = e
      /\ \A k \in 0..n : LeaseAfter(k)' = LeaseAfter(k)
    BY PastIsKept DEF LeaseInv
<1>2. \A q \in Owners : writer'[q] = IF q = p THEN Idle ELSE writer[q]
    BY DEF LeaseInv, LeaseTypeOK
<1>3. Idle.at = "idle"
    BY DEF Idle, Place
<1>4. time \in Nat
    BY DEF LeaseInv, LeaseTypeOK
<1> HIDE DEF n
<1>5. /\ 1..Len(leaseLog') = 1..n \cup {n + 1}
      /\ 0..n \subseteq 0..Len(leaseLog')
    BY <1>1
<1>6. LeaseTypeOK'
    <2>1. writer' \in [Owners -> Places]
        BY IdleIsPlace DEF LeaseInv, LeaseTypeOK
    <2>2. (Places = Places') /\ Entries = Entries'
        BY DEF Places, Leases, Entries
    <2> QED BY <1>1, <1>4, <2>1, <2>2 DEF LeaseTypeOK
<1>7. TimesArePast'
    BY <1>1, <1>4, <1>5 DEF LeaseInv, TimesArePast, n
\* What a process that did not append may know of its own steps is still true.
<1>8. \A q \in Owners \ {p} : \A i \in 1..Len(leaseLog') : IsGuarded(q, i)' => i \in 1..n /\ IsGuarded(q, i)
    BY <1>1, <1>5 DEF IsGuarded
<1>9. ReadIsRecent'
    <2> SUFFICES ASSUME NEW q \in Owners, writer'[q].at = "checking"
                 PROVE  /\ writer'[q].for \in {"write", "renew"}
                        /\ \E k \in 0..Len(leaseLog') :
                              writer'[q].lease = LeaseAfter(k)' /\ AllBefore(q, k)'
        BY DEF ReadIsRecent
    <2>1. q # p /\ writer'[q] = writer[q]
        BY <1>2, <1>3
    <2>2. PICK k \in 0..n : writer[q].lease = LeaseAfter(k) /\ AllBefore(q, k)
        BY <2>1 DEF LeaseInv, ReadIsRecent, n
    <2>3. AllBefore(q, k)'
        BY <1>8, <2>1, <2>2 DEF AllBefore, n
    <2>4. writer[q].for \in {"write", "renew"}
        BY <2>1 DEF LeaseInv, ReadIsRecent
    <2> QED BY <1>1, <1>5, <2>1, <2>2, <2>3, <2>4
<1>10. CheckedIsHad'
    <2> SUFFICES ASSUME NEW q \in Owners,
                        \/ writer'[q].at = "writing"
                        \/ writer'[q].at = "appending" /\ writer'[q].for = "renew"
                 PROVE  HadLease(q)'
        BY DEF CheckedIsHad
    <2>1. q # p /\ writer'[q] = writer[q]
        BY <1>2, <1>3
    <2>2. HadLease(q)
        BY <2>1 DEF LeaseInv, CheckedIsHad
    <2>3. PICK k \in 0..n, t \in 0..time :
             /\ LeaseAfter(k).owner = q
             /\ t < LeaseAfter(k).expires
             /\ \A i \in 1..n : IsGuarded(q, i) => i <= k /\ leaseLog[i].at <= t
        BY <2>2 DEF HadLease, n
    <2>4. \A i \in 1..Len(leaseLog') : IsGuarded(q, i)' => i <= k /\ leaseLog'[i].at <= t
        BY <1>1, <1>8, <2>1, <2>3
    <2>5. LeaseAfter(k)' = LeaseAfter(k) /\ k \in 0..Len(leaseLog')
        BY <1>1, <1>5
    <2> QED BY <2>3, <2>4, <2>5 DEF HadLease
<1>11. AppendsKnownKind'
    BY <1>2, <1>3 DEF LeaseInv, AppendsKnownKind
<1>12. OneStaleStepAtMost'
    <2> SUFFICES ASSUME NEW q \in Owners, NEW j \in Guarded(q)', NEW i \in {0} \cup Guarded(q)', i < j
                 PROVE  \E k \in i..(j - 1), t \in AtOf(i)'..leaseLog'[j].at :
                           LeaseAfter(k)'.owner = q /\ t < LeaseAfter(k)'.expires
        BY DEF OneStaleStepAtMost
    <2>1. j \in 1..n \cup {n + 1} /\ i \in {0} \cup 1..n
        BY <1>1, <1>5 DEF Guarded
    <2>2. AtOf(i)' = AtOf(i)
        BY <1>1, <2>1 DEF AtOf
    <2>3. i = 0 \/ IsGuarded(q, i)
        BY <1>1, <2>1 DEF Guarded, IsGuarded
    <2>4. CASE j \in 1..n
        <3>1. j \in Guarded(q) /\ i \in {0} \cup Guarded(q)
            BY <1>1, <2>1, <2>4 DEF Guarded, n
        <3>2. PICK k \in i..(j - 1), t \in AtOf(i)..leaseLog[j].at :
                 LeaseAfter(k).owner = q /\ t < LeaseAfter(k).expires
            BY <3>1 DEF LeaseInv, OneStaleStepAtMost
        <3>3. k \in 0..n /\ leaseLog'[j] = leaseLog[j]
            BY <1>1, <2>1, <2>4
        <3>4. LeaseAfter(k)' = LeaseAfter(k)
            BY <1>1, <3>3
        <3> QED BY <2>2, <3>2, <3>3, <3>4
    <2>5. CASE j = n + 1
        <3>1. leaseLog'[j] = e
            BY <1>1, <2>5
        <3>2. q = p /\ e.kind \in {"write", "renew"}
            BY <3>1 DEF Guarded
        <3>3. PICK k \in 0..n, t \in 0..time :
                 /\ LeaseAfter(k).owner = p
                 /\ t < LeaseAfter(k).expires
                 /\ \A m \in 1..n : IsGuarded(p, m) => m <= k /\ leaseLog[m].at <= t
            BY <3>2 DEF HadLease, n
        <3>4. i <= k
            BY <2>1, <2>3, <3>2, <3>3
        <3>5. AtOf(i) \in Int /\ AtOf(i) <= t
            <4>1. CASE i = 0
                BY <4>1, <1>4 DEF AtOf
            <4>2. CASE i \in 1..n /\ i # 0
                <5>1. leaseLog[i] \in Entries
                    BY <4>2, ElementOfSeq DEF LeaseInv, LeaseTypeOK, n
                <5>2. leaseLog[i].at <= t
                    BY <2>3, <3>2, <3>3, <4>2
                <5> QED BY <4>2, <5>1, <5>2 DEF AtOf, Entries
            <4> QED BY <2>1, <4>1, <4>2
        <3>6. k \in i..(j - 1) /\ t \in AtOf(i)'..leaseLog'[j].at
            BY <1>1, <1>4, <2>1, <2>2, <2>5, <3>1, <3>4, <3>5
        <3>7. LeaseAfter(k)' = LeaseAfter(k)
            BY <1>1
        <3> QED BY <3>2, <3>3, <3>6, <3>7
    <2> QED BY <2>1, <2>4, <2>5
<1> QED BY <1>6, <1>7, <1>9, <1>10, <1>11, <1>12 DEF LeaseInv

LEMMA writeKeeps ==
    ASSUME LeaseInv, NEW p \in Owners, write(p)
    PROVE  LeaseInv'
<1> DEFINE e == WriteEvent(p, time)
<1>1. e \in Entries /\ e.owner = p /\ e.at = time
    BY DEF WriteEvent, Entries, LeaseInv, LeaseTypeOK
<1>2. HadLease(p)
    BY DEF write, LeaseInv, CheckedIsHad
<1>3. leaseLog' = Append(leaseLog, e) /\ UNCHANGED time /\ writer' = [writer EXCEPT ![p] = Idle]
    BY DEF write
<1> HIDE DEF e
<1> QED BY <1>1, <1>2, <1>3, AppendStep

LEMMA AppendLeaseKeeps ==
    ASSUME LeaseInv, NEW p \in Owners, AppendLease(p)
    PROVE  LeaseInv'
<1> DEFINE e == LeaseEvent(p, writer[p].for, writer[p].expires, time)
<1>1. writer[p].at = "appending" /\ writer[p].for \in {"renew", "acquire"} /\ writer[p] \in Places
    BY DEF AppendLease, LeaseInv, AppendsKnownKind, LeaseTypeOK
<1>2. e \in Entries /\ e.owner = p /\ e.at = time /\ e.kind = writer[p].for
    BY <1>1 DEF LeaseEvent, Entries, Places, LeaseInv, LeaseTypeOK
<1>3. e.kind \in {"write", "renew"} => HadLease(p)
    BY <1>1, <1>2 DEF LeaseInv, CheckedIsHad
<1>4. leaseLog' = Append(leaseLog, e) /\ UNCHANGED time /\ writer' = [writer EXCEPT ![p] = Idle]
    BY DEF AppendLease
<1> HIDE DEF e
<1> QED BY <1>2, <1>3, <1>4, AppendStep

-----------------------------------------------------------------------------

LEMMA LeaseInvInit == LeaseInit => LeaseInv
<1> SUFFICES ASSUME LeaseInit PROVE LeaseInv
    OBVIOUS
<1>1. leaseLog \in Seq(Entries) /\ Len(leaseLog) = 0
    BY EmptySeq DEF LeaseInit
<1>2. \A p \in Owners : writer[p] = Idle
    BY DEF LeaseInit
<1>3. Idle.at = "idle"
    BY DEF Idle, Place
<1>4. LeaseTypeOK
    BY <1>1, IdleIsPlace DEF LeaseInit, LeaseTypeOK
<1>5. TimesArePast /\ ReadIsRecent /\ CheckedIsHad /\ AppendsKnownKind
    BY <1>1, <1>2, <1>3 DEF TimesArePast, ReadIsRecent, CheckedIsHad, AppendsKnownKind
<1>6. OneStaleStepAtMost
    BY <1>1 DEF OneStaleStepAtMost, Guarded
<1> QED BY <1>4, <1>5, <1>6 DEF LeaseInv

LEMMA LeaseInvStep == LeaseInv /\ [LeaseNext]_leaseVars => LeaseInv'
<1> SUFFICES ASSUME LeaseInv, [LeaseNext]_leaseVars PROVE LeaseInv'
    OBVIOUS
<1>1. ASSUME NEW p \in Owners, NEW for \in {"write", "renew"}, ReadLease(p, for)
      PROVE  LeaseInv'
    BY <1>1, ReadLeaseKeeps
<1>2. ASSUME NEW p \in Owners, require(p)
      PROVE  LeaseInv'
    BY <1>2, requireKeeps
<1>3. ASSUME NEW p \in Owners, write(p)
      PROVE  LeaseInv'
    BY <1>3, writeKeeps
<1>4. ASSUME NEW p \in Owners, acquire(p)
      PROVE  LeaseInv'
    BY <1>4, acquireKeeps
<1>5. ASSUME NEW p \in Owners, AppendLease(p)
      PROVE  LeaseInv'
    BY <1>5, AppendLeaseKeeps
<1>6. ASSUME NEW p \in Owners, KillWriter(p)
      PROVE  LeaseInv'
    BY <1>6, KillWriterKeeps
<1>7. time \in Nat
    BY DEF LeaseInv, LeaseTypeOK
<1>8. CASE TimePasses
    <2>1. UNCHANGED <<leaseLog, writer>> /\ time' \in Nat /\ time <= time'
        BY <1>7, <1>8 DEF TimePasses
    <2> QED BY <2>1, LeaseClockKeeps
<1>9. CASE UNCHANGED leaseVars
    <2>1. UNCHANGED <<leaseLog, writer>> /\ time' \in Nat /\ time <= time'
        BY <1>7, <1>9 DEF leaseVars
    <2> QED BY <2>1, LeaseClockKeeps
<1> QED BY <1>1, <1>2, <1>3, <1>4, <1>5, <1>6, <1>8, <1>9 DEF LeaseNext

\* A process that lost its lease, or let it run out, between a check and the
\* step it was for takes that one guarded step and no other: between any two of
\* its guarded steps it held a lease that had not run out (lease.py 73-93,
\* 145-167), however many processes take the lease from each other.
THEOREM OneStaleStepAtMostHolds == LeaseSpec => []OneStaleStepAtMost
<1>1. LeaseInv => OneStaleStepAtMost
    BY DEF LeaseInv
<1> QED BY <1>1, LeaseInvInit, LeaseInvStep, PTL DEF LeaseSpec

-----------------------------------------------------------------------------
(***************************************************************************)
(* ARTIFACTS.  What the log refers to is stored unless a sweep that the loop*)
(* overlapped with took it, whatever the views and compactions pick.       *)
(*                                                                         *)
(* An artifact is stored before anything names it (RefsAreKept and what    *)
(* leads to it: the view, the request, the summary), and a sweep that runs *)
(* alone reads the references of the log it then sweeps under              *)
(* (LoneSweepSpares).                                                      *)
(***************************************************************************)

Kinds == {"user_message", "agent_message", "tool_call", "tool_result", "compaction"}

IsOfLoop(e) == e.type \in Kinds /\ (e.type = "agent_message" => ~e.final)

\* A list of events of the loop, none of which ends the run.
IsTrail(l) ==
    /\ l \in Seq({l[i] : i \in 1..Len(l)})
    /\ \A i \in 1..Len(l) : IsOfLoop(l[i])

Accounted(d) == d \in files \/ d \in lost

RefsAreKept ==
    /\ \A d \in referenced_digests(trail) : Accounted(d)
    /\ \A d \in shownRefs : Accounted(d)
    /\ loopAt = "call" => asked = Work \/ Accounted(asked)
    /\ loopAt = "summary" => Accounted(Summary(Victims(trail, KeepGroups)))

LoneSweepSpares ==
    /\ loopAt = "down" => shownRefs = {}
    /\ sweepAt \in {"idle", "scanned"} => doomed = {}
    /\ sweepAt # "idle" /\ ~overlap =>
          /\ loopAt = "down"
          /\ sweepAt = "scanned" => keeping = referenced_digests(trail)
          /\ doomed \cap referenced_digests(trail) = {}

FailedIsLost ==
    \A i \in 1..Len(trail) :
        trail[i].type = "tool_result" /\ trail[i].status = "failed"
          => Called(trail, trail[i].call) /\ ArgsOf(trail, trail[i].call) \in lost

RetentionInv == IsTrail(trail) /\ RefsAreKept /\ LoneSweepSpares /\ FailedIsLost

-----------------------------------------------------------------------------
(* Lemmas on the log of the loop *)

\* One more event at the end.
LEMMA TrailGrows ==
    ASSUME NEW l, IsTrail(l), NEW e, IsOfLoop(e)
    PROVE  /\ Len(l) \in Nat
           /\ Len(Append(l, e)) = Len(l) + 1
           /\ \A i \in 1..Len(l) : Append(l, e)[i] = l[i]
           /\ Append(l, e)[Len(l) + 1] = e
           /\ IsTrail(Append(l, e))
<1> DEFINE S == {l[i] : i \in 1..Len(l)} \cup {e}
           m == Append(l, e)
<1>1. l \in Seq(S)
    <2>1. l \in Seq({l[i] : i \in 1..Len(l)})
        BY DEF IsTrail
    <2> QED BY <2>1
<1>2. /\ Len(l) \in Nat
      /\ Len(m) = Len(l) + 1
      /\ \A i \in 1..Len(l) : m[i] = l[i]
      /\ m[Len(l) + 1] = e
      /\ m \in Seq(S)
    BY <1>1, AppendProperties, LenProperties
<1> HIDE DEF m
<1>3. S = {m[i] : i \in 1..Len(m)}
    BY <1>2
<1>4. \A i \in 1..Len(m) : IsOfLoop(m[i])
    BY <1>2 DEF IsTrail
<1>5. IsTrail(m)
    BY <1>2, <1>3, <1>4 DEF IsTrail
<1> QED BY <1>2, <1>5 DEF m

\* No event of the loop ends the run, so a call is recorded when an event
\* names it.
LEMMA CalledInTrail ==
    ASSUME NEW l, IsTrail(l), NEW c
    PROVE  Called(l, c) <=> \E i \in 1..Len(l) : l[i].type = "tool_call" /\ l[i].call = c
<1>1. Len(l) \in Nat
    BY LenProperties DEF IsTrail
<1>2. ASSUME NEW j \in 1..Len(l) PROVE ~IsFatal(l[j]) /\ ~IsFinal(l[j])
    <2>1. IsOfLoop(l[j])
        BY DEF IsTrail
    <2> QED BY <2>1 DEF IsOfLoop, IsFatal, IsFinal, Kinds
<1>3. \A i \in 1..Len(l) : Live(l, i)
    BY <1>1, <1>2 DEF Live
<1> QED BY <1>3 DEF Called, IsCall

LEMMA FirstCallOfTrail ==
    ASSUME NEW l, IsTrail(l), NEW c, Called(l, c)
    PROVE  /\ FirstCall(l, c) \in 1..Len(l)
           /\ l[FirstCall(l, c)].type = "tool_call"
           /\ l[FirstCall(l, c)].call = c
           /\ \A j \in 1..(FirstCall(l, c) - 1) : l[j].type = "tool_call" => l[j].call # c
<1> DEFINE T == {i \in 1..Len(l) : l[i].type = "tool_call" /\ l[i].call = c}
<1>0. Len(l) \in Nat
    BY LenProperties DEF IsTrail
<1>1. T # {} /\ T \subseteq Nat
    BY CalledInTrail
<1>2. PICK i \in T : \A j \in T : ~(<<j, i>> \in OpToRel(<, Nat))
    BY <1>1, NatLessThanWellFounded, WFMin
<1>3. \A j \in T : ~(j < i)
    BY <1>1, <1>2 DEF OpToRel
<1>4. \A j \in 1..(i - 1) : l[j].type = "tool_call" => l[j].call # c
    BY <1>3, <1>0
<1> QED BY <1>4 DEF FirstCall

\* What a recorded call asks for does not change as the log grows.
LEMMA ArgsAreStable ==
    ASSUME NEW l, IsTrail(l), NEW e, IsOfLoop(e), NEW c, Called(l, c)
    PROVE  Called(Append(l, e), c) /\ ArgsOf(Append(l, e), c) = ArgsOf(l, c)
<1> DEFINE m == Append(l, e)
           First(s, i) == /\ i \in 1..Len(s)
                          /\ s[i].type = "tool_call"
                          /\ s[i].call = c
                          /\ \A j \in 1..(i - 1) : s[j].type = "tool_call" => s[j].call # c
<1>1. /\ IsTrail(m)
      /\ Len(m) = Len(l) + 1
      /\ Len(l) \in Nat
      /\ \A i \in 1..Len(l) : m[i] = l[i]
    BY TrailGrows
<1> HIDE DEF m
<1>2. Called(m, c)
    BY <1>1, CalledInTrail
<1>3. First(l, FirstCall(l, c)) /\ First(m, FirstCall(m, c))
    BY <1>1, <1>2, FirstCallOfTrail
<1>4. First(m, FirstCall(l, c))
    BY <1>1, <1>3
<1>5. \A i, j : First(m, i) /\ First(m, j) => i = j
    BY <1>1
<1>6. FirstCall(m, c) = FirstCall(l, c)
    BY <1>3, <1>4, <1>5
<1> QED BY <1>6, <1>3, <1>1, <1>2 DEF ArgsOf, m

\* The references of a log grow by those of the event.
LEMMA RefsOfAppend ==
    ASSUME NEW l, IsTrail(l), NEW e, IsOfLoop(e)
    PROVE  \A d \in referenced_digests(Append(l, e)) :
              \/ d \in referenced_digests(l)
              \/ e.type = "compaction" /\ d = Summary(e.replaces)
              \/ e.type = "tool_call" /\ e.args # Work /\ d = e.args
<1> DEFINE m == Append(l, e)
<1>1. /\ Len(m) = Len(l) + 1
      /\ Len(l) \in Nat
      /\ \A i \in 1..Len(l) : m[i] = l[i]
      /\ m[Len(l) + 1] = e
    BY TrailGrows
<1> HIDE DEF m
<1> SUFFICES ASSUME NEW d \in referenced_digests(m)
             PROVE  \/ d \in referenced_digests(l)
                    \/ e.type = "compaction" /\ d = Summary(e.replaces)
                    \/ e.type = "tool_call" /\ e.args # Work /\ d = e.args
    BY DEF m
<1>2. CASE d \in Summaries(m)
    <2>1. PICK i \in 1..Len(m) : m[i].type = "compaction" /\ d = Summary(m[i].replaces)
        BY <1>2 DEF Summaries, CompactionsOf
    <2>2. CASE i \in 1..Len(l)
        BY <2>1, <2>2, <1>1 DEF referenced_digests, Summaries, CompactionsOf
    <2>3. CASE i = Len(l) + 1
        BY <2>1, <2>3, <1>1
    <2> QED BY <2>2, <2>3, <1>1
<1>3. CASE d \in {m[i].args : i \in ReadsOf(m)}
    <2>1. PICK i \in 1..Len(m) : m[i].type = "tool_call" /\ m[i].args # Work /\ d = m[i].args
        BY <1>3 DEF ReadsOf, CallsOf
    <2>2. CASE i \in 1..Len(l)
        BY <2>1, <2>2, <1>1 DEF referenced_digests, ReadsOf, CallsOf
    <2>3. CASE i = Len(l) + 1
        BY <2>1, <2>3, <1>1
    <2> QED BY <2>2, <2>3, <1>1
<1> QED BY <1>2, <1>3 DEF referenced_digests

\* Results that were accounted for stay so when an event is appended that is
\* none itself, or one whose call is accounted for.
LEMMA FailuresOfAppend ==
    ASSUME IsTrail(trail), FailedIsLost, NEW e, IsOfLoop(e),
           trail' = Append(trail, e), lost' = lost,
           e.type = "tool_result" /\ e.status = "failed"
             => Called(trail, e.call) /\ ArgsOf(trail, e.call) \in lost
    PROVE  FailedIsLost'
<1>1. /\ Len(trail') = Len(trail) + 1
      /\ Len(trail) \in Nat
      /\ \A i \in 1..Len(trail) : trail'[i] = trail[i]
      /\ trail'[Len(trail) + 1] = e
    BY TrailGrows
<1>2. \A c : Called(trail, c) => Called(trail', c) /\ ArgsOf(trail', c) = ArgsOf(trail, c)
    BY ArgsAreStable
<1> SUFFICES ASSUME NEW i \in 1..Len(trail'),
                    trail'[i].type = "tool_result", trail'[i].status = "failed"
             PROVE  Called(trail', trail'[i].call) /\ ArgsOf(trail', trail'[i].call) \in lost'
    BY DEF FailedIsLost
<1>3. CASE i \in 1..Len(trail)
    BY <1>1, <1>2, <1>3 DEF FailedIsLost
<1>4. CASE i = Len(trail) + 1
    BY <1>1, <1>2, <1>4
<1> QED BY <1>1, <1>3, <1>4

-----------------------------------------------------------------------------
(* Every step keeps the invariant *)

LEMMA InitHoldsRetentionInv ==
    ASSUME RetentionInit
    PROVE  RetentionInv
<1>1. Len(trail) = 1 /\ trail[1] = UserMessage /\ trail \in Seq({UserMessage})
    BY DEF RetentionInit
<1>2. UserMessage.type = "user_message"
    BY DEF UserMessage
<1>3. {trail[i] : i \in 1..Len(trail)} = {UserMessage}
    BY <1>1
<1>4. IsTrail(trail)
    BY <1>1, <1>2, <1>3 DEF IsTrail, IsOfLoop, Kinds
<1>5. referenced_digests(trail) = {}
    BY <1>1, <1>2 DEF referenced_digests, Summaries, CompactionsOf, ReadsOf, CallsOf
<1> QED BY <1>1, <1>2, <1>4, <1>5
        DEF RetentionInv, RetentionInit, RefsAreKept, LoneSweepSpares, FailedIsLost

\* The loop records an event, which names nothing that is not stored.
LEMMA RecordKeepsInv ==
    ASSUME RetentionInv, NEW e, IsOfLoop(e), trail' = Append(trail, e),
           files' = files, shownRefs' = shownRefs, sweepAt' = sweepAt, doomed' = doomed,
           overlap' = overlap, lost' = lost,
           loopAt # "down", loopAt' \in {"turn", "call", "execute"},
           loopAt' = "call" => asked' = Work \/ Accounted(asked'),
           e.type = "compaction" => Accounted(Summary(e.replaces)),
           e.type = "tool_call" /\ e.args # Work => Accounted(e.args),
           e.type = "tool_result" /\ e.status = "failed"
             => Called(trail, e.call) /\ ArgsOf(trail, e.call) \in lost
    PROVE  RetentionInv'
<1>1. IsTrail(trail')
    BY TrailGrows DEF RetentionInv
<1>2. FailedIsLost'
    BY FailuresOfAppend DEF RetentionInv
<1>3. \A d \in referenced_digests(trail') : Accounted(d)
    BY RefsOfAppend DEF RetentionInv, RefsAreKept
<1>4. RefsAreKept'
    BY <1>3 DEF RetentionInv, RefsAreKept, Accounted
<1>5. LoneSweepSpares'
    BY DEF RetentionInv, LoneSweepSpares
<1> QED BY <1>1, <1>2, <1>4, <1>5 DEF RetentionInv

\* The steps of the loop that record nothing.
LEMMA QuietLoopStepsKeepInv ==
    ASSUME RetentionInv, ResumeLoop \/ BuildView \/ StoreSummary \/ KillLoop
    PROVE  RetentionInv'
<1>1. trail' = trail /\ lost' = lost /\ files \subseteq files'
    BY DEF ResumeLoop, BuildView, StoreSummary, KillLoop
<1>2. IsTrail(trail)' /\ FailedIsLost'
    BY <1>1 DEF RetentionInv, FailedIsLost
<1>3. \A d : Accounted(d) => Accounted(d)'
    BY <1>1 DEF Accounted
<1>4. RefsAreKept'
    <2>1. CASE ResumeLoop
        BY <1>1, <1>3, <2>1 DEF ResumeLoop, RetentionInv, RefsAreKept
    <2>2. CASE BuildView
        <3>1. \A d \in Summaries(trail) : d \in referenced_digests(trail)
            BY DEF referenced_digests
        <3>2. \A d \in Offloaded(trail) : Accounted(d)'
            BY <2>2 DEF BuildView, Accounted
        <3> QED BY <1>1, <1>3, <2>2, <3>1, <3>2 DEF BuildView, RetentionInv, RefsAreKept
    <2>3. CASE StoreSummary
        <3>1. Accounted(Summary(Victims(trail, KeepGroups)))'
            BY <1>1, <2>3 DEF StoreSummary, Accounted
        <3> QED BY <1>1, <1>3, <2>3, <3>1 DEF StoreSummary, RetentionInv, RefsAreKept
    <2>4. CASE KillLoop
        BY <1>1, <1>3, <2>4 DEF KillLoop, RetentionInv, RefsAreKept
    <2> QED BY <2>1, <2>2, <2>3, <2>4
<1>5. LoneSweepSpares'
    BY <1>1 DEF ResumeLoop, BuildView, StoreSummary, KillLoop, RetentionInv, LoneSweepSpares
<1> QED BY <1>2, <1>4, <1>5 DEF RetentionInv

LEMMA RecordSummaryKeepsInv ==
    ASSUME RetentionInv, RecordSummary
    PROVE  RetentionInv'
<1> DEFINE e == CompactionEvent(Victims(trail, KeepGroups))
<1>1. e.type = "compaction" /\ e.replaces = Victims(trail, KeepGroups)
    BY DEF CompactionEvent
<1>2. Accounted(Summary(e.replaces))
    BY <1>1 DEF RecordSummary, RetentionInv, RefsAreKept
<1>3. trail' = Append(trail, e)
    BY DEF RecordSummary
<1> HIDE DEF e
<1>4. IsOfLoop(e)
    BY <1>1 DEF IsOfLoop, Kinds
<1> QED BY <1>1, <1>2, <1>3, <1>4, RecordKeepsInv DEF RecordSummary

LEMMA AskModelKeepsInv ==
    ASSUME RetentionInv, AskModel
    PROVE  RetentionInv'
<1> DEFINE e == AgentMessage(FALSE)
<1>1. e.type = "agent_message" /\ e.final = FALSE
    BY DEF AgentMessage
<1>2. asked' = Work \/ Accounted(asked')
    BY DEF AskModel, RetentionInv, RefsAreKept
<1>3. trail' = Append(trail, e)
    BY DEF AskModel
<1> HIDE DEF e
<1>4. IsOfLoop(e)
    BY <1>1 DEF IsOfLoop, Kinds
<1> QED BY <1>1, <1>2, <1>3, <1>4, RecordKeepsInv DEF AskModel

LEMMA RecordCallKeepsInv ==
    ASSUME RetentionInv, RecordCall
    PROVE  RetentionInv'
<1> DEFINE e == CallEvent(NextCall, "tool", asked)
<1>1. e.type = "tool_call" /\ e.args = asked
    BY DEF CallEvent
<1>2. e.args # Work => Accounted(e.args)
    BY <1>1 DEF RecordCall, RetentionInv, RefsAreKept
<1>3. trail' = Append(trail, e)
    BY DEF RecordCall
<1> HIDE DEF e
<1>4. IsOfLoop(e)
    BY <1>1 DEF IsOfLoop, Kinds
<1> QED BY <1>1, <1>2, <1>3, <1>4, RecordKeepsInv DEF RecordCall

\* A call that reads an artifact refers to it in the log, so that the artifact
\* is there or was taken.
LEMMA ExecuteCallKeepsInv ==
    ASSUME RetentionInv, ExecuteCall
    PROVE  RetentionInv'
<1>1. PICK c \in OpenCalls(trail) :
        trail' = Append(trail, ResultEvent(c, IF ArgsOf(trail, c) \in files \cup {Work}
                                              THEN "executed" ELSE "failed"))
    BY DEF ExecuteCall
<1> DEFINE e == ResultEvent(c, IF ArgsOf(trail, c) \in files \cup {Work}
                               THEN "executed" ELSE "failed")
<1>2. /\ e.type = "tool_result" /\ e.call = c
      /\ e.status = "failed" => ArgsOf(trail, c) \notin files \cup {Work}
    BY DEF ResultEvent
<1>3. trail' = Append(trail, e)
    BY <1>1
<1> HIDE DEF e
<1>4. IsOfLoop(e)
    BY <1>2 DEF IsOfLoop, Kinds
<1>5. Called(trail, c)
    BY DEF OpenCalls, Open
<1>6. ASSUME e.status = "failed"
      PROVE  ArgsOf(trail, c) \in lost
    <2>1. FirstCall(trail, c) \in ReadsOf(trail)
        BY <1>2, <1>5, <1>6, FirstCallOfTrail DEF RetentionInv, ReadsOf, CallsOf, ArgsOf
    <2>2. ArgsOf(trail, c) \in referenced_digests(trail)
        BY <2>1 DEF referenced_digests, ArgsOf
    <2> QED BY <1>2, <1>6, <2>2 DEF RetentionInv, RefsAreKept, Accounted
<1> QED BY <1>2, <1>3, <1>4, <1>5, <1>6, RecordKeepsInv DEF ExecuteCall

\* A sweep takes what the log refers to only when the loop overlapped with it.
LEMMA UnlinkKeepsInv ==
    ASSUME RetentionInv, NEW d, Unlink(d)
    PROVE  RetentionInv'
<1>1. /\ trail' = trail /\ lost \subseteq lost'
      /\ loopAt' = loopAt /\ shownRefs' = shownRefs /\ asked' = asked
    BY DEF Unlink
<1>2. IsTrail(trail)' /\ FailedIsLost'
    BY <1>1 DEF RetentionInv, FailedIsLost
<1>3. LoneSweepSpares'
    BY DEF Unlink, RetentionInv, LoneSweepSpares
<1>4. RefsAreKept'
    <2>1. CASE overlap
        <3>1. \A x : Accounted(x) => Accounted(x)'
            BY <2>1 DEF Unlink, Accounted
        <3> QED BY <1>1, <3>1 DEF RetentionInv, RefsAreKept
    <2>2. CASE ~overlap
        <3>1. loopAt = "down" /\ shownRefs = {} /\ d \notin referenced_digests(trail)
            BY <2>2 DEF Unlink, RetentionInv, LoneSweepSpares
        <3>2. \A x : Accounted(x) /\ x # d => Accounted(x)'
            BY <1>1 DEF Unlink, Accounted
        <3> QED BY <1>1, <3>1, <3>2 DEF RetentionInv, RefsAreKept
    <2> QED BY <2>1, <2>2
<1> QED BY <1>2, <1>3, <1>4 DEF RetentionInv

LEMMA OtherSweepStepsKeepInv ==
    ASSUME RetentionInv,
           CollectReferences \/ SweepEnds \/ \E mine \in BOOLEAN : ListFiles(mine)
    PROVE  RetentionInv'
<1>1. /\ trail' = trail /\ lost' = lost /\ files' = files
      /\ loopAt' = loopAt /\ shownRefs' = shownRefs /\ asked' = asked
    BY DEF CollectReferences, SweepEnds, ListFiles
<1>2. IsTrail(trail)' /\ FailedIsLost' /\ RefsAreKept'
    BY <1>1 DEF RetentionInv, FailedIsLost, RefsAreKept, Accounted
<1>3. LoneSweepSpares'
    <2>1. CASE CollectReferences
        BY <1>1, <2>1 DEF CollectReferences, RetentionInv, LoneSweepSpares
    <2>2. CASE SweepEnds
        BY <1>1, <2>2 DEF SweepEnds, RetentionInv, LoneSweepSpares
    <2>3. CASE \E mine \in BOOLEAN : ListFiles(mine)
        BY <1>1, <2>3 DEF ListFiles, RetentionInv, LoneSweepSpares
    <2> QED BY <2>1, <2>2, <2>3
<1> QED BY <1>2, <1>3 DEF RetentionInv

LEMMA StepKeepsRetentionInv ==
    ASSUME RetentionInv, [RetentionNext]_retentionVars
    PROVE  RetentionInv'
<1>1. CASE UNCHANGED retentionVars
    BY <1>1 DEF retentionVars, RetentionInv, IsTrail, RefsAreKept, Accounted, LoneSweepSpares,
                FailedIsLost
<1>2. CASE RetentionNext
    BY <1>2, QuietLoopStepsKeepInv, RecordSummaryKeepsInv, AskModelKeepsInv,
       RecordCallKeepsInv, ExecuteCallKeepsInv, UnlinkKeepsInv, OtherSweepStepsKeepInv
       DEF RetentionNext
<1> QED BY <1>1, <1>2

\* What the log refers to is stored or was taken by a sweep that the loop
\* overlapped with, and no call fails to read for another reason
\* (artifacts.py 6-8, 208-211): for any number of calls and reads, and any
\* interleaving of views, compactions, sweeps and kills.
THEOREM ReferencesSurvive == RetentionSpec => []OnlyOverlapLoses
<1>1. RetentionInv => OnlyOverlapLoses
    BY DEF RetentionInv, RefsAreKept, Accounted, FailedIsLost, OnlyOverlapLoses
<1> QED BY <1>1, InitHoldsRetentionInv, StepKeepsRetentionInv, PTL DEF RetentionSpec

=============================================================================
