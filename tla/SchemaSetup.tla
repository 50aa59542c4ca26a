---------------------------- MODULE SchemaSetup ----------------------------
(***************************************************************************)
(* SqliteStore.setup of src/harness/store/sqlite_store.py with the DDL and *)
(* migrations of schema.py and the guard check of guard.py.  The database  *)
(* is in autocommit mode: outside a transaction each statement is in the   *)
(* file at once, inside one nothing is before COMMIT, and a kill may fall  *)
(* between any two.  Another connection may drop a trigger whenever no     *)
(* transaction holds the write lock.                                       *)
(***************************************************************************)
EXTENDS Naturals, Sequences, FiniteSets

CONSTANTS
    FoundVersions,  \* versions of the database a first setup may find; 0 is no database
    MaxKills,       \* bound on kills
    MaxDrops,       \* bound on triggers dropped from outside
    MaxSetups       \* bound on calls of setup

SCHEMA_VERSION == 4

ASSUME SetupAssumption ==
    /\ FoundVersions \subseteq 0..SCHEMA_VERSION
    /\ MaxKills \in Nat /\ MaxDrops \in Nat /\ MaxSetups \in Nat

VARIABLES
    db,          \* the file, as another connection would read it
    seen,        \* the file as the connection of setup sees it, uncommitted writes included
    phase,       \* where the process is: "down", or a step of setup, or how it ended
    todo,        \* statements that remain of the present phase
    tx,          \* the next statement of the open transaction; 0 without one
    repair,      \* allow_repair of the present call
    undeclared,  \* a trigger was dropped from a finished database, no repair was declared since
    kills, drops, setups

setupVars == <<db, seen, phase, todo, tx, repair, undeclared, kills, drops, setups>>

TRIGGERS == {"no_update", "no_delete", "no_insert_over_existing"}
OldTriggers == {"no_update", "no_delete"}

(* version is the row of schema_meta (0 without one), applied the rows of  *)
(* schema_migrations, events the shape of the events table: "unfilled" has *)
(* the columns of the chain and no hashes in them.                         *)
Databases ==
    [version: 0..SCHEMA_VERSION, applied: SUBSET (1..SCHEMA_VERSION),
     events: {"none", "plain", "unfilled", "chained"}, toolCalls: BOOLEAN, triggers: SUBSET TRIGGERS]

(* What code of version v leaves behind. *)
DatabaseOf(v) ==
    [version |-> v, applied |-> 1..v,
     events |-> CASE v = 0 -> "none" [] v \in 1..2 -> "plain" [] OTHER -> "chained",
     toolCalls |-> v >= 2,
     triggers |-> CASE v = 0 -> {} [] v \in 1..3 -> OldTriggers [] OTHER -> TRIGGERS]

Running == {"ddl", "migrations"}
Ended == {"down", "open", "refused", "failed", "rolled_back"}

SetupInit ==
    /\ \E v \in FoundVersions : db = DatabaseOf(v)
    /\ seen = db
    /\ phase = "down" /\ todo = <<>> /\ tx = 0 /\ repair = FALSE
    /\ undeclared = FALSE
    /\ kills = 0 /\ drops = 0 /\ setups = 0

-----------------------------------------------------------------------------
(* Statements.  "migrate" is the whole script of version 2 and the         *)
(* transaction of versions 3 and 4.                                        *)
CreateTable(t) == [do |-> "table", arg |-> t]
CreateTrigger(t) == [do |-> "trigger", arg |-> t]
Migrate(v) == [do |-> "migrate", arg |-> v]
RecordMigration(v) == [do |-> "applied", arg |-> v]
RecordVersion(v) == [do |-> "version", arg |-> v]
DropStatement(t) == [do |-> "drop", arg |-> t]
AddColumns == [do |-> "columns", arg |-> "events"]
Backfill == [do |-> "backfill", arg |-> "events"]

TRIGGER_STATEMENTS ==
    <<CreateTrigger("no_update"), CreateTrigger("no_delete"), CreateTrigger("no_insert_over_existing")>>

DDL == <<CreateTable("events"), CreateTable("tool_calls")>> \o TRIGGER_STATEMENTS

(* The migrations that are functions run in a transaction.  No statement   *)
(* of another connection falls between the two ALTER TABLE of version 3 or *)
(* the UPDATEs of its backfill, so each group is one statement here.       *)
IsFunction(v) == v \in {3, 4}
MIGRATIONS(v) ==
    CASE v = 3 -> <<DropStatement("no_update"), DropStatement("no_delete"), AddColumns, Backfill>>
                    \o TRIGGER_STATEMENTS
      [] v = 4 -> TRIGGER_STATEMENTS

(* Slip: the version is recorded before what it stands for. *)
StepsOfVersionFirst(v) == <<RecordVersion(v), Migrate(v), RecordMigration(v)>>
StepsOf(v) == <<Migrate(v), RecordMigration(v), RecordVersion(v)>>

FreshSteps ==
    <<RecordVersion(SCHEMA_VERSION)>> \o [v \in 1..SCHEMA_VERSION |-> RecordMigration(v)]

(* The migrations a database at version v still needs; version 1 has none. *)
PendingSteps(v) ==
    LET Needed(w) == IF v < w THEN StepsOf(w) ELSE <<>>
    IN Needed(2) \o Needed(3) \o Needed(4)

MigrationSteps == IF db.version = 0 THEN FreshSteps ELSE PendingSteps(db.version)

(* ADD COLUMN raises when the column is there, the trigger aborts the      *)
(* backfill's UPDATE, and a second row of one version breaks the primary   *)
(* key of schema_migrations.                                               *)
Raises(s) ==
    \/ s.do = "columns" /\ seen.events # "plain"
    \/ s.do = "backfill" /\ "no_update" \in seen.triggers
    \/ s.do = "applied" /\ s.arg \in seen.applied

(* What the connection sees after a statement. *)
Executed(s) ==
    CASE s.do = "table" /\ s.arg = "events" ->
            [seen EXCEPT !.events = IF @ = "none" THEN "chained" ELSE @]
      [] (s.do = "table" /\ s.arg = "tool_calls") \/ s.do = "migrate" ->
            [seen EXCEPT !.toolCalls = TRUE]
      [] s.do = "trigger" -> [seen EXCEPT !.triggers = @ \union {s.arg}]
      [] s.do = "drop" -> [seen EXCEPT !.triggers = @ \ {s.arg}]
      [] s.do = "columns" -> [seen EXCEPT !.events = "unfilled"]
      [] s.do = "backfill" -> [seen EXCEPT !.events = "chained"]
      [] s.do = "applied" -> [seen EXCEPT !.applied = @ \union {s.arg}]
      [] s.do = "version" -> [seen EXCEPT !.version = s.arg]

(* Slip: a migration runs without a transaction, each statement for itself. *)
FileAfterAtOnce(d) == d
(* The file after a statement that leaves the connection seeing d. *)
FileAfter(d) == IF tx = 0 THEN d ELSE db

-----------------------------------------------------------------------------
(* guard_report: the structure of events, whatever its rows hold, and the  *)
(* three triggers.                                                         *)
GuardOk == db.events \in {"unfilled", "chained"} /\ db.triggers = TRIGGERS

(* Slip: whatever is missing is taken for a pending migration. *)
RefusesNothing(r) == FALSE
Refuses(r) == db.version = SCHEMA_VERSION /\ ~r /\ ~GuardOk

(* setup(allow_repair=r) up to its first write. *)
BeginSetup(r) ==
    /\ phase \in Ended \ {"open"}
    /\ setups < MaxSetups
    /\ setups' = setups + 1
    /\ repair' = r
    /\ undeclared' = (undeclared /\ ~r)
    /\ phase' = IF Refuses(r) THEN "refused" ELSE "ddl"
    /\ todo' = IF Refuses(r) THEN <<>> ELSE DDL
    /\ UNCHANGED <<db, seen, tx, kills, drops>>

OpensTransaction(s) == s.do = "migrate" /\ IsFunction(s.arg)

(* The statement to be executed next. *)
Statement == IF tx = 0 THEN Head(todo) ELSE MIGRATIONS(Head(todo).arg)[tx]
AtCommit == tx > 0 /\ tx > Len(MIGRATIONS(Head(todo).arg))

Execute ==
    /\ phase \in Running /\ todo # <<>> /\ ~AtCommit
    /\ ~OpensTransaction(Statement) /\ ~Raises(Statement)
    /\ seen' = Executed(Statement) /\ db' = FileAfter(seen')
    /\ IF tx = 0 THEN todo' = Tail(todo) /\ tx' = 0
                 ELSE tx' = tx + 1 /\ UNCHANGED todo
    /\ UNCHANGED <<phase, repair, undeclared, kills, drops, setups>>

(* _tx: BEGIN IMMEDIATE, and COMMIT when the migration returns. *)
BeginTransaction ==
    /\ phase \in Running /\ todo # <<>> /\ tx = 0
    /\ OpensTransaction(Statement)
    /\ tx' = 1
    /\ UNCHANGED <<db, seen, phase, todo, repair, undeclared, kills, drops, setups>>

Commit ==
    /\ phase \in Running /\ todo # <<>> /\ AtCommit
    /\ db' = seen /\ todo' = Tail(todo) /\ tx' = 0
    /\ UNCHANGED <<seen, phase, repair, undeclared, kills, drops, setups>>

(* The call ends early, and SQLite rolls an open transaction back. *)
StopSetup(end) ==
    /\ phase' = end /\ todo' = <<>>
    /\ seen' = db /\ tx' = 0
    /\ UNCHANGED <<db, repair, undeclared, drops, setups>>

(* A statement that cannot succeed raises. *)
ExecuteRaises ==
    /\ phase \in Running /\ todo # <<>> /\ ~AtCommit
    /\ ~OpensTransaction(Statement) /\ Raises(Statement)
    /\ StopSetup("failed")
    /\ UNCHANGED kills

(* The backfill meets a fork point without a hash or a cycle of branches.  *)
BackfillRaises ==
    /\ phase \in Running /\ tx > 0 /\ ~AtCommit /\ Statement.do = "backfill"
    /\ StopSetup("rolled_back")
    /\ UNCHANGED kills

(* The row of schema_meta is read after the DDL. *)
ReadVersion ==
    /\ phase = "ddl" /\ todo = <<>>
    /\ phase' = "migrations" /\ todo' = MigrationSteps
    /\ UNCHANGED <<db, seen, tx, repair, undeclared, kills, drops, setups>>

(* assert_guard_intact, then install_connection_guard. *)
InstallGuard ==
    /\ phase = "migrations" /\ todo = <<>>
    /\ phase' = IF GuardOk THEN "open" ELSE "refused"
    /\ UNCHANGED <<db, seen, todo, tx, repair, undeclared, kills, drops, setups>>

Close ==
    /\ phase = "open"
    /\ phase' = "down"
    /\ UNCHANGED <<db, seen, todo, tx, repair, undeclared, kills, drops, setups>>

Kill ==
    /\ phase \in Running
    /\ kills < MaxKills
    /\ kills' = kills + 1
    /\ StopSetup("down")

(* A connection without the guard drops a trigger; it waits for the write  *)
(* lock of an open transaction.  While a call of setup runs, the check may *)
(* be over and the DDL heal what was dropped; such a drop is not counted   *)
(* as one of a finished database.                                          *)
DropTrigger(t) ==
    /\ drops < MaxDrops /\ tx = 0
    /\ t \in db.triggers
    /\ drops' = drops + 1
    /\ db' = [db EXCEPT !.triggers = @ \ {t}] /\ seen' = db'
    /\ undeclared' = (undeclared \/ (db.version = SCHEMA_VERSION /\ phase \in Ended))
    /\ UNCHANGED <<phase, todo, tx, repair, kills, setups>>

SetupNext ==
    \/ \E r \in BOOLEAN : BeginSetup(r)
    \/ Execute
    \/ BeginTransaction
    \/ Commit
    \/ ExecuteRaises
    \/ BackfillRaises
    \/ ReadVersion
    \/ InstallGuard
    \/ Close
    \/ Kill
    \/ \E t \in TRIGGERS : DropTrigger(t)

SetupSpec == SetupInit /\ [][SetupNext]_setupVars

-----------------------------------------------------------------------------
(* A database that only calls of setup have touched is never refused as    *)
(* one that was tampered with, wherever those calls were killed: a version *)
(* is recorded after everything it stands for, in a fresh database and in  *)
(* one that is migrated (sqlite_store.py 77-130).                          *)
KillsAreNotDrift == drops = 0 => phase # "refused"

(* A finished database from which a trigger was dropped is not opened      *)
(* again before somebody called setup with allow_repair, kills included.   *)
DriftIsDeclared == [][phase # "open" /\ phase' = "open" => ~undeclared']_setupVars

(* Migration 3 drops the triggers that forbid its backfill and creates     *)
(* them again at its end.  Wherever it raises or is killed, the file keeps *)
(* every trigger it had, and it never has the columns of the chain without *)
(* the hashes: no half-done migration is left behind (schema.py 205-282).  *)
HistoryStaysGuarded ==
    [][drops' = drops => db.triggers \subseteq db'.triggers /\ db'.events # "unfilled"]_setupVars

(* A call of setup that finds what a killed call left behind succeeds.     *)
KilledSetupCanBeRepeated == phase # "failed"
=============================================================================
