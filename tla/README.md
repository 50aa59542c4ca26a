# A verification project for agent-consistency-lab

The program under `src/` runs tool calls for an agent so that a kill at any
moment neither repeats nor hides what a tool did.  It keeps each run as an
append-only log of events in SQLite, refolds that log on every question, and
writes an intent row before each non-idempotent effect.  These modules model
that machinery in TLA+, check it with TLC on small instances and prove the
central properties with TLAPS for all instances.

Contents: 1 inventory, 2 modules, 3 correspondence with the code, 4 runs and
bounds, 5 fairness, 6 proofs, 7 disagreements with the documents, 8 behaviour
worth knowing, 9 what is left out, 10 plan.

## 1. Inventory

| component | source | state it keeps | operations | what makes it correct |
|---|---|---|---|---|
| derived state | `harness/state.py`, `events.py` | none, a fold over the log | `reduce_events`, `verify_chain` | flags INV-001..007 exactly; the end of a run absorbs; usable on malformed logs |
| tool executor | `harness/execution.py`, `approval.py`, `tools.py` | none between calls; reads the log and the rows | `execute`, `resume_open_calls`, `decide` | effect at most once behind the outbox; truthful conclusions; approval before effect |
| intent rows | `harness/store/tool_calls.py` | table `tool_calls` | `begin`, `complete`, `record`, `mark_unknown` | a closed row has a result event and stays closed |
| governed tool server | `integrations/mcp_server.py` | `ids.json`, `runs.status` | `ensure_run`, `recover_on_start`, `tools/call`, `approve` | a call that waits is not dropped; the status shown is that of the log |
| fake world | `fakeworld/world.py`, `tools.py` | a ledger keyed by idempotency key | `apply`, `probe` | the reality the oracle compares with |
| agent loop | `harness/loop.py`, `model.py` | run status, budget, checkpoints | `start`, `resume`, `approve`, `_drive` | a batch of calls of one model turn survives a kill |
| event store | `harness/store/sqlite_store.py`, `guard.py`, `snapshot.py` | tables `runs`, `branches`, `events` | `create_run`, `create_branch`, `append_many`, `effective_events` | dense sequence numbers, immutable history, a fork shares a prefix |
| schema | `harness/store/schema.py` | `schema_meta`, `schema_migrations`, tables, triggers | `setup`, three migrations | a kill in a migration is not taken for tampering; drift is declared |
| checkpoints | `harness/store/checkpoints.py` | `checkpoints`, `checkpoint_writes` | `put`, `put_writes`, `get_latest`, `recovery_plan`, `classify_writes` | a checkpoint refers to the log it was taken of; recovery starts from the last commit |
| lease | `harness/lease.py` | events of type `lease` | `acquire`, `renew`, `check`, `guarded_write` | a process outlives its lease by one step at most |
| hash chain | `harness/audit_chain.py`, `state.py` | `prev_hash`, `event_hash` of each row | `verify_chain`, `audit` | a changed row is noticed |
| artifacts | `harness/artifacts.py` | content-addressed files | `put`, `referenced_digests`, `sweep` | a referenced file is not collected |
| compaction | `harness/compaction.py` | a `compaction` event and an artifact | `compact` | the view shrinks, the log does not |
| context view | `harness/context.py`, `cache.py`, `tokens.py` | none; a model of the provider's prefix cache | `build`, `fetch` | calls and results stay paired; the history only grows |
| budget | `harness/budget.py` | usage read from the log | `check`, `charge` | no model call past the limit |
| cassette | `harness/cassette.py` | recorded replies by step and attempt | `append`, `find`, `normalize_usage` | a replay says what was recorded; no token is free |
| model adapters | `harness/llm.py`, `live_transport.py` | attempts by step, lost in a kill | `complete` of three clients | charge, record and return in an order a kill can break |
| tracing | `harness/trace.py`, `otel.py` | none | `build_trace`, exports | the trace tells of what the fold decides by |
| experiments, operations suite | `experiments/`, `opsenv/` | files of results | drivers, oracle, statistics | a run is judged by what it did |
| mutation gate | `scripts/mutation_check/` | `mutants/`, the baseline file | judge, refresh the baseline | a baseline is one run; green hides no new blind spot |

How the parts interact.  The server and the loop are drivers: each hands calls
to the executor and, at start, has the executor drive what the log shows open.
The executor writes through the store (one transaction per event) and through
the intent rows (a transaction of their own), and calls the tool in between.
Nothing is shared in memory: after each step the state is refolded from the
log.  The human and the client act on the server's requests.

What is hard.  There are two or three transactions around one external effect
and a kill can fall between any two of them; recovery drives what earlier
attempts left behind and must tell an effect that happened from one that did
not; a human's answer is four events in four transactions; several calls may be
open at once while the gate admits one question at a time; approvals lapse, and
can be of session scope; arguments may be rewritten after they were approved.
`PROJECT.json` lists each hazard at its line with the properties that
cover it.

## 2. Modules

| module | what it is |
|---|---|
| `EventLog` | the events and what the program asks of a log, stated over positions |
| `DerivedState` | the one-pass fold `reduce_events` with its invariant codes; its run compares the fold, the view and the trace with `EventLog` on every log |
| `ContextView` | what the model is shown of a log: grouping and victims of a compaction, batches of calls and results, common prefixes |
| `Trace` | the spans `build_trace` projects a log to |
| `ToolExecutor` | the pipeline of `execution.py` with intent rows and the outside world, one durable write per step |
| `ArgPolicy` | the domain a tool declares for a field of its arguments |
| `ToolPromise` | abstract specification: what is promised of a call, with no log, rows or kills |
| `ToolProperties` | the properties of whatever drives the executor, and the mapping to `ToolPromise` |
| `McpServer`, `McpProperties` | the server on one run directory: provisioning, recovery, requests, approvals, kills |
| `AgentLoop`, `LoopProperties` | the agent loop as the worker program runs it: turns, batches, recovery, budget, compaction, checkpoints, kills |
| `Oracle` | what the experiments' judge finds in a run, and how their driver restarts one |
| `BranchTree` | abstract specification: a tree of logs, each of which only grows |
| `EventStore`, `StoreProperties` | branches, events, forks, the hash chain and its audit, with the file changed from outside |
| `SchemaSetup` | `setup`: DDL, migrations and guard, one committed statement per step, killed and tampered with |
| `Checkpoints` | commits on a branch and its fork, the latest checkpoint by a wall clock, recovery plan and cross-check |
| `Lease` | processes that read the lease, check it and write in steps of their own |
| `Retention` | artifacts, the views and summaries that store them, reads of them, and a sweep at any moment |
| `ModelReplay` | a run recorded and replayed, with kills between the charge, the cassette and the message |
| `Usage` | what a provider's report of tokens is billed for |
| `MutationGate` | the mutation gate: the tree, the cache of mutmut, the baseline, runs that judge or refresh it |
| `ToolProofs` | lemmas about the pipeline, for whatever drives it: its inductive invariant, the gate, the steps of the promise, the fold of a log that grows |
| `McpServerProofs`, `LoopProofs` | theorems and proofs about the two drivers, on top of `ToolProofs` |
| `ViewProofs` | lemmas about `ContextView`, for any log |
| `DerivedProofs` | theorems and proofs about the fold, the trace and the view |
| `StorageProofs` | theorems and proofs about `SchemaSetup`, `Checkpoints`, `Lease` and `Retention` |
| `StoreProofs` | theorems and proofs about the event store and its hash chain |
| `AroundProofs` | theorems and proofs about `ModelReplay` and `MutationGate` |
| `MCDerivedState`, `MCMcpServer`, `MCAgentLoop`, `MCEventStore`, `MCAround` | instances for TLC |

`ToolExecutor` EXTENDS `EventLog`; `McpServer` and `AgentLoop` each EXTEND
`ToolExecutor` and add their own variables to its actions.  `ToolProperties`
takes `ToolPromise` and `DerivedState` by `INSTANCE ... WITH` a mapping of the
log, so the same promise is checked of both drivers.  `StoreProperties` takes
`BranchTree` the same way.  `AgentLoop` and `Retention` build on `ContextView`,
and `LoopProperties` lets `Oracle` judge the loop at every moment.

The log of the drivers is one branch of the store:
`KeepsTree` is why a driver may be modelled with a plain sequence.

Definitions whose comment begins with "Slip:" describe plausible mistakes.  No
specification uses them; each shows that a property would notice.

## 3. How the model corresponds to the code

*Durable state.*  `log` is the `events` table of one branch, `rows` the
`tool_calls` table keyed by idempotency key (one key per call id), `runStatus`
is `runs.status`, `provisioned` the rows `ensure_run` made, `effects` the
world's ledger outside the program.

*Volatile state.*  A handler is straight-line code between awaits that nothing
else interleaves with (one event loop, one connection), so what a kill can
observe is only how many of its durable writes were done.  The step that
decides a branch (`execute`, `Judge`, `decide`) therefore fixes the list of
writes that remain (`writes`), and `AppendEvent`, `WriteRow`, `RefreshStatus`
and `WriteProvision` do them one at a time.  A kill (`Crash`) is possible
before each of them and empties everything volatile.  Reads happen in the step
that decides; between that step and the writes nothing else writes, as the
process is the only writer of its run.

*Phases.*  `resume` and `drive` are `resume_open_calls` (the list is taken once
and worked in log order), `judge` steps 3 to 5 of `execute`, `effect` the tool,
`idle` the server waiting for requests, `down` no process.

*Tools.*  A tool is its attributes: registered or not, effect class, approval,
probe, argument domain.  A tool that raises may have taken effect or not; a
probe may also fail or be inconclusive.  `Tamper` is the `tool_tamper` hook.

*Approvals.*  Expiry is a set of positions whose `expires_at` has passed; time
passes for any of them at any moment.  Digests of arguments are the arguments.
Edited arguments close the original call as superseded and record a new call,
whose id the code derives from the old (`__edit1`), `EditOf` here.

*Ids.*  `new_id` gives fresh ids; the order of handing them out is fixed here,
nothing reads it.

*The loop.*  `start`, `resume` and `approve` each stand for one process of
`experiments/worker.py`; processes of one run follow each other, as the worker's
callers make them.  `loop` holds the locals of `_drive` and `_call_model`, lost
in a kill.  `Turn` is the head of the `for`, `WithoutCompaction`, `compact` and
`CompactionOverBudget` the call of the compactor, the `Ask` actions the request
and its outcomes, `NextOfBatch` and `JudgeCall` the calls of a message, with
`InterruptSignal` giving up the rest, `_commit` the writes and the checkpoint,
`Leave` the status.  The model is arbitrary: any batch, any overflow.  Tokens
are not counted, so whether a view is over the threshold is a choice too; what a
compaction replaces is not: `Victims` is computed from the log, and
`_render_history` is the history of the next view.  The budget is the total in `budget_update`
events; limits of single buckets are left out.

*The store.*  A transaction is one step, `create_branch` is two, for it reads
the parent before it opens its transaction.  What raises `StoreError` or rolls
back changes nothing and is a guard.  A hash is the sequence of the records that
went into it, so equal hashes mean equal histories.  The triggers make `UPDATE`
and `DELETE` impossible; `DropGuard` takes them away, `RepairGuard` is
`setup(allow_repair=True)`.  Rows that are rehashed consistently after an edit
are left out: `docs/semantics.md` 2.4.1 says that no check of the program
notices them.

*Setup.*  The connection is in autocommit mode, so `SchemaSetup` takes each
statement of the DDL and of the bookkeeping as a step.  A database is its
version, its migration rows, the shape of `events`, and its triggers.  The two
migrations written as scripts change one thing each.  The one written as a
function runs in a transaction (`BeginTransaction`, `Execute`, `Commit`): it
drops two of the triggers, adds the columns, fills them in and creates the
triggers again, one statement per step.  `seen` is what the connection sees of
this and `db` the file, which changes at the commit alone; a backfill that
raises (`BackfillRaises`), a statement that does (`ExecuteRaises`) and a kill
leave the file as it was.

*Checkpoints.*  `AgentLoop` has the commit in the middle of a run, with the
tasks it lists.  `Checkpoints` has what depends on more than one of them: two
branches of one thread, a clock that ticks coarsely or is set back, ids, parents
and the recovery plan.  An event is named by its branch and its number there.

*The lease.*  `ReadLease`, `require` and `write` are the three steps of
`guarded_write`, `acquire` reads the clock and `AppendLease` appends.

*Artifacts.*  `Retention` is a loop reduced to what touches artifacts, over the
views of `ContextView`, with a sweep as a second process.  A digest is what the
artifact stands for.  A sweep of an artifact root that belongs to other run
directories is refused, as the code does without `--force`.

*The cassette.*  `complete` is the request, `charge` the budget event, `append`
the file (replaced in one step), `_append_agent_message` the loop's event.  The
attempts of a process are lost when it is killed, which is why a key can drift.

*The gate.*  mutmut is external: it keeps the verdict of a mutant whose content
is unchanged, judges the others, and leaves a partial cache when it dies.  What a
suite says of a mutant depends on its content.

*The oracle.*  The judge reads copies of the files, so its checks are operators
over the loop's durable state, asked in every state.  `check_no_tamper` reads
the `events` table and is in `EventStore`.

## 4. Runs

| run | question | instance |
|---|---|---|
| `fold` | on every log: does the fold give what the positions say, is the view paired and append-only, does the trace tell the same? | all logs of up to 5 events over 2 call ids, malformed and compacted ones included |
| `mcp_crash` | does a kill ever repeat an effect, close a row early, let a concluded call run, leave an answered call behind a later question, or conclude a call wrongly? | 2 calls of tools of every effect class, gated and not, with and without probe, and an unregistered one; 2 kills |
| `mcp_approval` | do only approved and permitted arguments take effect, does the log keep its invariants, is the status fresh? | 2 calls and their edits, 3 arguments, both scopes, expiry, a hook that swaps two arguments, a policy with an interval; 1 kill |
| `mcp_live` | is every call concluded in the end, and every question answerable? | gated and ungated tool, 2 kills, none inside an answer |
| `mcp_stuck` (violation) | the same with kills inside an answer | section 7 |
| `mcp_ghost` (violation) | INV-001 with an unregistered tool | section 7 |
| `loop_crash` | the promise, checkpoints, recovery before asking, the oracle's verdict, and conclusion of every call | 2 turns of batches of up to 2 calls, a gated and an ungated tool, 1 kill anywhere |
| `loop_budget` | is spending bounded, is the model shown every call with its result, is the status stored? | 3 turns with summaries that replace events and overflows, costs 1 and 2 under a limit of 3, two calls of a gated tool, 1 kill, none inside an answer |
| `loop_overspent` (violation) | a summary at the end of the budget | section 7 |
| `store` | is every branch a log of its own, and does the audit notice changes? | 3 branches, 4 events, batches of 2, one fork in flight, one change from outside: a row edited, one deleted, or an older copy put back |
| `around` | the six machines around the loop, below | below |
| `setup_stuck` (violation) | does `setup` succeed after one that was killed? | section 7 |

`around` checks six modules that share no state: a behaviour moves one of them
and leaves the others as they begin, so its states are those of six separate
runs and nothing is multiplied.

| machine | instance |
|---|---|
| `SchemaSetup` | databases found at versions 0 to 4, 4 calls of `setup`, 2 kills, 2 triggers dropped |
| `ModelReplay` | 2 texts, prices 1 and 2 under a budget of 4, 2 replies, 1 kill of either run |
| `MutationGate` | 2 mutants of 2 contents, 3 suites, 1 edit, 1 failing run, 3 runs, filters and flaky verdicts |
| `Retention` | 2 calls of which 1 may read an artifact, compaction of all but the task, 2 sweeps, 1 kill of the loop |
| `Lease` | 2 processes, a lease of 1 tick, 2 ticks, 4 entries |
| `Checkpoints` | 2 events on each of two branches, 2 commits, a clock of 2 values |

Two algorithms without a state are checked as assumptions that TLC evaluates:
`PolicyIsADomain` in `MCMcpServer` compares `evaluate` with what a policy
declares, over all policies of two numbers and a boolean, and
`EveryTokenIsBilledOnce` in `MCAround` compares what is billed with what was
reported, over all reports of either provider with up to 2 tokens a field.

Why the bounds are enough.  Two calls give every interplay the code has: one
at the gate and one queued behind it, one that holds a session approval and one
that would use it, a recovered call and a new one.  Two kills give a recovery
that is itself killed; a third repeats the second, since a kill empties all
volatile state.  Two argument values distinguish approved from other; the third
lets the rewritten value be permitted or not.  Five events let each invariant
code be raised and folded on, and let a batch of two calls lose one of its
results to a compaction.  Two turns give a turn after a checkpoint and one after
a recovery; the third one comes after a compaction.  Three branches give a fork
of a fork, and four events let each of them, and the parent after its fork, have
one of its own.

Around the loop: the versions 0 to 4 are all there are, and two kills, two
drops and four calls give a killed migration that is repeated, killed again and
repaired; both kills may fall inside the transaction.  Two replies give a step whose key could be taken by another, and the
budget of 4 is met exactly, passed and not reached.  Three runs of the gate are a
baseline, a run on what it left behind, and one after an edit or failure.  The
flaky verdict is one that mutmut knows; the theorem `NoNewBlindSpots` is about
unknown ones too.  Two
sweeps are one that overlaps with the loop and one that does not.  One tick of
lease under two of time lets it expire and be taken over while a process is
between its check and its write.  Two commits under a clock of two values are
made at equal times, in order or out of it.

Deadlock is not checked.  Each of the systems may rest for ever: the server
when its ids are used up and nothing is open, the loop when its run is over,
all others at their bounds.

## 5. Fairness

`FairSpec` adds weak fairness to three actors.  `Server`: a running process
goes on with its own code; every step of it is straight-line code that waits
for nobody.  `Start`: a killed server is started again, which is the premise of
the recovery the code promises.  `Human`: somebody answers the question that
waits, the premise of an approval gate.  The client is under no fairness, nor
is a kill or the clock.

`mcp_live` checks `EveryCallConcludes` under the same fairness with kills
everywhere except between the writes of one answer; `mcp_stuck` shows why the
exception is needed.

The loop has no server that starts itself.  `Process` is weakly fair: a process
is straight-line code.  `start` is: somebody runs the program.  A run that is
neither over nor waiting is resumed (weakly fair), and a run that waits is
answered: strongly fair, since a resume of a waiting run, which returns at once,
may come between, and the gate is there to be answered, as every driver of
`experiments/` does with its `approve` process.  Under these `loop_crash` finds every call concluded with
kills anywhere: the loop asks only whether an interrupt is pending, so an
answer can be given again.

## 6. Proofs

All theorems hold for every value of the constants under the assumptions the
modules name: any registry, policy, tamper hook, arguments, ids, number of
calls, turns and kills, and logs of any length.  A theorem with a hypothesis of
its own is marked.

### The pipeline and its two drivers

The executor is the same under the server and the loop, so its part is proved
once, in `ToolProofs`, of `ToolExecutor` alone: one lemma per step of the
pipeline says that the step keeps the invariant, whoever takes it.
`McpServerProofs` and `LoopProofs` add the steps of the drivers.

| property | server | loop |
|---|---|---|
| types | `TypeCorrect` | `LoopTypeCorrect` |
| `EffectAtMostOnce` | `AtMostOnce` | `LoopAtMostOnce` |
| `EffectsWereApproved`, `EffectsArePermitted` | `ApprovalsPrecedeEffects`, `PolicyIsNeverPassedBy` | `LoopIsGated` |
| `NoEffectAfterConclusion` | `ConclusionIsFinal` | `LoopConclusionIsFinal` |
| `KeepsPromise` (refinement; `TamperIsHarmless`) | `ServerKeepsPromise` | `LoopKeepsPromise` |
| `ClosedRowHasResult`, `ClosedRowsAreFinal` | `RowsFollowEvents`, `ClosedRowsStay` | |
| `WaitingHasNoEffect` | `NoEffectBeforeApproval` | |
| `PendingIsDecidable` (no kill inside an answer) | `QuestionsCanBeAnswered` | |
| `LogInvariantsHold` (every tool registered) | `ServerLogIsLegal` | `LoopLogIsLegal` (no kill inside an answer) |
| at most INV-001 and INV-003 are flagged | | `LoopLogOnlyRepeats` |
| `ViewIsWhole` (no kill inside an answer) | | `ViewStaysWhole` |
| `StatusIsFresh`, `StatusIsFreshUnlessKilled` | `StatusFollowsLog` | `StatusStaysFresh` |
| `NoOpenCallWhenAsked` | | `ModelSeesNoOpenCall` |
| `CheckpointsAreAtBoundaries` | | `CheckpointsStandAtBoundaries` |
| `CompletedTasksAreConcluded` | | `TasksOfCheckpointsAreConcluded` |
| `OracleFindsNothing` (`Outbox`) | | `OracleBlamesNobody` |
| `BudgetIsKept` (`Costs` has a largest element) | | `SpendingStaysBounded` |

*What is inductive.*  `ToolInv`: the intent row is there before the effect
(`IntentPrecedesEffect`) and stays pending while the call is open and took
effect (`EffectIsMarked`), so that recovery resolves the row instead of going to
the tool; row writes never overtake the result they belong to
(`RowWritesFollowResults`); what is judged has no conclusion (`JudgedIsOpen`)
and new ids find no rows (`UnrecordedIsUntouched`).  `GateInv`: what took effect
was allowed, and so is what a call on its way to the tool is about to use.  It
rests on three facts: the binding `find_approval` picks belongs to the call or
to a session approval of its tool (`BindingIsOfCall`), a call goes to the tool
only when every check of the gate passed on the arguments the tool gets
(`GateAllows`), and an approval in the log and the tool of a recorded call never
change (`AllowedStays`).  An approval may expire after the gate has let the call
through; so the theorem speaks of approvals granted, not of approvals still
valid.

*The server.*  `DriveInv` says that whatever is open is queued, in hand, about
to be concluded or behind a question (`OpenIsDriven`), that the queue is worked
in log order (`DrivenInOrder`), and that a question is about the first open call
(`QuestionsAreOfFirst`), so that no call that was answered stays behind it; a call with an effect is then never the one in
question (`EffectIsDealtWith`).  `AnswerInv` adds what holds while no answer is
cut short: the call of a pending question waits at the gate (`QuestionsWait`).
It needs the exception: `mcp_stuck` is the behaviour without it.

*The log.*  `ToolProofs` has the fold of a log that goes on, for both drivers.
The step from a log to the log with one more event is the append law
(`FoldedGrows`).  `IsFoldOf` says what the fold makes of the log: which calls are
open and closed, which question is pending.  `FoldTakes` says that an event keeps
this, and flags exactly a call that is there already (INV-001) and a second
result (INV-003), if it is a result of a recorded call, a question while none is
pending, or a resume of the one that is.  The drivers differ in which events
they can have on their way.

For the server `WritesAreLegal` says that each write waiting in the queue is one
the fold takes without a flag when its turn comes, and `EditsComeLater` that the
call of edited arguments is recorded after the one it supersedes is closed, so
its id is free.  This holds with kills anywhere, since the server accepts an
answer only about an open call; it pays with `mcp_stuck`.  INV-001, a call
recorded a second time, is what the code does for unregistered tools
(`mcp_ghost`); where `Registered = Tools` there is no flag at all.

The loop asks only whether a question is pending.  `LegalInv` holds with kills
anywhere and gives `LoopLogOnlyRepeats`: a resume answers what is pending
(`ResumesAnswer`) and a message comes where nothing is open
(`MessagesComeBetween`), so an answer that was cut short and given again doubles
events and does nothing worse to the log.  Without such a kill no result comes
twice (`ResultsComeOnce`) and calls are new (`CallsAreNew`), hence
`LoopLogIsLegal`.

*The refinement.*  The abstract state is read off the log and the world, so
`Promise!Init` is immediate and the work is in the steps: a recording, an effect
and a first result are the three steps of `ToolPromise`, and each other step
stutters.  That the first conclusion is true needs `PromiseInv`: rows tell of
the effect (`RowsTell`) and a result about to be written says what happened
(`ConclusionsAreTrue`).  `TamperIsHarmless` excludes one thing, a hook that
rewrites the arguments of a non-idempotent write without a gate (section 8); the
code without a hook, its default, satisfies it, and so do gated tools with one.

*The loop.*  The invariants come in layers, each assuming those before:
`LoopInv` (the pipeline, the batch in hand is fresh, nothing passes the gate,
the call asked about has had no effect), `CallInv` (at most one call is open,
and in every phase some part of the process deals with it), `CommitInv` (a
commit on its way is at a boundary and its tasks are concluded), `EndInv` (what
the oracle reads), `StatusInv` (what the last refresh saw), `BudgetInv` (a
charge on its way was covered when the limit was checked).  That at most one
call is open is particular to the loop: `InterruptSignal` gives up the rest of a
batch before it is recorded.

`ViewStaysWhole` rests on `ViewInv`.  `LogIsPaired` says that a call of the log
comes once before its result and is answered before the next message, and that
what was summarised was summarised in whole pairs.  It is kept because of what
the process has on its way: a result of a call without one (`ResultsComeOnce`), a
recording of a call that is not closed (`CallsComeFirst`), a message where
nothing is open (`MessagesComeBetween`), a summary of whole groups
(`SummariesReplacePairs`), and an edited call after the one it supersedes
(`EditsComeLater`).  The answer to a question closes the call that was asked
about, so that call must still be open (`PendingIsOpen`); this fails when a kill
leaves half an answer, and is why the hypothesis is `SpecKilledElsewhere`, the
behaviours that the action constraint of `loop_budget` leaves.  What the view
makes of such a log is `NothingIsLost`, below.

`OracleFindsNothing` needs the outbox, because without it a retry repeats an
effect quietly, which is what the switch is for.  `BudgetIsKept` mentions
`Max(Costs)`, hence the largest element.

### The fold

`DerivedProofs` proves `FoldIsTheLog` (`FoldAgreesWithLog`) and `CodesAreExact`
(`InvariantsAreExact`) over all logs, malformed and compacted ones included.
`Folded` is a recursive function on positions, and the one fact about it is the
append law, `Folded(Append(l, e)) = Reduce(Folded(l), e)` (`FoldedGrows`).  It
holds because the functions of two logs that agree up to `n` agree up to `n`,
for otherwise there were a least position where they differ (`LeastPosition`); this
stands in for the induction the prover does not have.  `Agrees`, `CallFlags`,
`TurnFlags` and `ApprovalFlags` say what the position-by-position reading of
`EventLog` makes of the log so far, and each survives one more event of any
kind.  `ApprovalFlags` has INV-004, INV-005 and INV-007 each by itself: whether
a question was pending, and which, in the part of the log before the interrupt
or the resume.  That part is the same in the longer log (`PrefixesStay`).

`TraceIsTheState` (`TraceAgreesWithState`) needs little induction of its own, the
number of turns.  A log without a flag is one whose events are all live, whose
calls are new, whose results follow their calls and whose interrupts and resumes
alternate (`UnbrokenIsLegal`); on such positions the span of a call ends when the
call is closed (`CallSpansEnd`), and a wait is open when its interrupt is the
last turn (`WaitsEnd`).

### The view

`RequestsArePaired` (`ViewIsPaired`) and `PrefixIsStable` (`HistoryIsAppendOnly`)
are about any log too; their lemmas are in `ViewProofs`.  Rendering is followed
event by event: after `n` events all that is kept of them is shown, held back or
named as dropped, in exactly one of the three ways (`Accounted`); what is held
back is a batch of calls with at most one result of each (`HeldBack`); a flush
shows the batch and then a result per call, or drops both (`FlushShows`,
`FlushKeeps`).  Each kind of event keeps this (`TakenInKeeps`), whether or not it
was kept by the compactions.  For the prefix, no step takes a block back
(`GoesOnAs`), what is shown of an event does not depend on what comes after it
(`ShownTheSame`), and a message leaves nothing held back, so that the final
flush of the earlier view adds nothing.  It needs of the log that a compaction
replaces only what precedes it (`LooksBack`), which is part of the invariant.

`NothingIsLost` says when nothing is dropped: in a log whose pairs are whole
(`IsPairedLog`) and were replaced together (`ReplacesPairs`).  That the groups a
compaction picks are such is `VictimsArePairs`.  `LoopProofs` uses both.

### The store

| theorem | property | what it rests on |
|---|---|---|
| `StoreStaysSound` | `StoreInv` | inductive |
| `ChangesAreNoticed` | `AuditNoticesChanges` | keys, lengths of hashes and the tree: what holds of a changed file too |
| `OwnWritesPass` | `OwnWritesPassAudit` | the chains of a file nobody changed (`Clean`) |
| `StoreKeepsTree` | `KeepsTree` (refinement) | what one batch or one branch does to every log (`AppendGrows`, `TreeGrows`) |

`StoreInv` has three parts.  `GoodTree`: the parents are a tree, in the sense
that every set of branches has one whose parent is outside it.  `GoodRows`: ids,
and numbers within a branch, are keys, and a hash is as long as its number says;
an edit, a deletion and an older copy keep this.  `Clean`, until the first change
from outside: the chain of every branch holds and every fork point is found.
The same is said of the copy that was put aside, since it may come back.

The log of a branch is a recursive function of its parent's, and the prover has
no induction over data.  Three things stand in for it.  That a function with the
recursive equation exists for any table is itself part of `GoodTree`, kept by
each new branch, which is a leaf; induction from the roots down
(`TreeInduction`) is the tree property applied to the branches that fail; and a
fact about every position of a log is refuted at the least position where it
fails (`LeastOf`).  `RankIsPlace` connects `ORDER BY seq`, a count of smaller
numbers, with the places of a sequence.

For `ChangesAreNoticed` the audit gives each branch a chain from its fork point;
by induction down the tree the log inherited there is numbered from 0 and hashed
whole, so the number of an event is the length of the hash before it
(`AuditedIsWhole`).  Nothing more is needed of how the file was changed.  In
`StoreKeepsTree` the fork point a fork has checked is found again at its insert,
since logs only grow in between, and what was appended in between lies behind
the cut (`CutStays`).

### Around the loop

| theorem | property | what the invariant adds |
|---|---|---|
| `SetupIsNeverRefused`, `DriftNeedsRepair`, `SetupNeverUnguards` | `KillsAreNotDrift`, `DriftIsDeclared`, `HistoryStaysGuarded` | what is missing is among the statements that remain (`DdlHeals`, `MigrationsComplete`), a recorded version has what it stands for (`VersionIsEarned`), undeclared drift shows (`DriftIsVisible`); outside a transaction the connection sees the file (`ConnectionSees`), and what migration 3 dropped is back in what it sees when its statements are done (`Rebuilding`), so the commit takes nothing away and the file never has unfilled columns (`FileIsWhole`) |
| `CassetteHoldsTheLog`, `ReplayIsFaithful` | `CassetteIsTheLog`, `ReplayRepeats` | steps ahead of the log were not asked for (`CountsFromZero`), so the reply in hand has the key of its step (`HandIsKeyed`) |
| `CleanBaselines`, `NoNewBlindSpots` | `BaselineIsOneRun`, `GreenMeansNoNewBlindSpot` | during a run the table is of the tree (`TableIsOfTree`), and a verdict is right unless the tests changed since (`VerdictsAreRight`, `CleanRunIsRight`) |
| `CheckpointsMatch` | `CheckpointsMatchLogs` | logs only grow, so what a checkpoint refers to stays (`RefersToLog`); rows are in the order of their times (`InOrder`, `IsALine`) |
| `OneStaleStepAtMostHolds` | `OneStaleStepAtMost` | what was read was the lease after the process's last step (`ReadIsRecent`), and what was checked was held at some moment since (`CheckedIsHad`) |
| `ReferencesSurvive` | `OnlyOverlapLoses` | what the view, the request or the coming summary names is stored before the log names it (`RefsAreKept`), and a sweep that runs alone dooms nothing the log refers to (`LoneSweepSpares`) |

`GateAssumption` says that a suite kills only what it reaches and that flaky
verdicts are none of the conclusive ones; without the second a wrong `killed`
could make the gate green.  `ReferencesSurvive` uses nothing of what a view
renders or a compaction picks; it needs that the log of the loop has no terminal
event (`IsTrail`), so that what a recorded call asks for stays (`ArgsAreStable`).

### What is only model-checked

Liveness (`EveryCallConcludes`), which with its fairness is out of the prover's
reach.  Every safety property that a passing run checks is stated by a theorem,
for one of the two drivers at least.

## 7. Disagreements with the documents

* `mcp_stuck`.  `decide` appends the conclusion, the edited call, the approval
  and the resume in separate transactions (`execution.py:494-550`).  A kill
  after the first leaves the interrupt pending on a closed call; the approval
  endpoint then finds no current call, refuses every answer, and every later
  gated call waits for ever.  The comments say a queued call is waiting, not
  dropped, and that a killed server brings no new semantics.
* `mcp_ghost`.  The path of an unregistered tool appends `tool_call` without
  looking whether it is there (`execution.py:280`), so a kill followed by
  recovery records the call twice and the log breaks INV-001.
* `loop_overspent`.  `Compactor.compact` raises `BudgetExceeded`, and
  `_call_model` calls it outside the `try` that turns this exception into a
  fatal error (`loop.py:308`, and `:327` inside another handler).  The process
  ends with a traceback and the run stays open.  A test says that budget stops
  are in the log and not silent.
* `setup_stuck`.  `setup` commits a migration, its row in `schema_migrations`
  and the version one by one (`sqlite_store.py:115-126`): the transaction of
  migration 3 covers its own statements only.  After a kill between
  them every later setup does the migration again and raises, on a column that
  is there or on the primary key of `schema_migrations`, and the database is not
  opened any more.  `schema.py:179` says that migrations run in a transaction,
  and `docs/development.md` asks that old run directories stay readable.

One more failure has the cause of `mcp_stuck` and no run of its own.  The loop's
`approve` accepts the answer to the half-answered interrupt again, and so writes
the `tool_result` (and the edited `tool_call`) twice; the log then breaks
INV-001 and INV-003, and the view drops what is there twice.  `loop_budget`
keeps kills out of the answer for this reason, and `LoopLogOnlyRepeats` proves
that no other invariant of the log suffers.

## 8. Behaviour worth knowing

* A session approval of a tool, a lapsed one too, makes later calls of that
  tool with other arguments be rejected and not asked about.  The tests of
  `test_arg_policy.py` intend this.
* An idempotent gated write leaves no intent row before its effect.  If it was
  killed after the effect and its approval has lapsed at the restart, the call
  is concluded as rejected although the effect is there.  `ToolPromise` does
  not promise otherwise for tools that deduplicate.
* With the outbox off a retry repeats a non-idempotent effect; this is what the
  switch is for.
* The message of the model does not name its calls.  When a process is killed
  after the message and before a call is recorded, or an earlier call stops at
  the gate, the calls that were left are gone, and the model has to ask again.
* Recovery stops at the first call that needs an answer.  A call behind it stays
  open until the question is answered, even when it took effect before the kill;
  so `WaitingHasNoEffect` says of the call in question, and not of every open
  call, that it had no effect.
* Where the tamper hook rewrites the arguments of a non-idempotent write that has
  no gate, a retry finds the row of other arguments than it asks for and is
  refused with an error although the effect took place.
* `resume` on a branch without events asks the model without a task.
* The store compares an event's run with its branch's run for the first event
  of the branch only.  No caller mixes runs.
* The last row of a branch can be deleted without the audit noticing, and if it
  was the fork point of a branch without events, a fork of that branch can no
  longer be read although the audit passes.
* A run killed after its last event keeps the status it had: every later
  `resume` finds it over, or waiting, and leaves it alone, status included
  (`loop.py:210`, `:216`).
* `state.py:86` counts on the chain to find that the file was replaced by an
  older copy.  An older copy is a chain that verifies, and the audit keeps no
  head elsewhere.
* A fresh database whose first setup is killed after the version was written has
  an incomplete `schema_migrations`, which nothing completes or reads.
* A checkpoint whose only write is a RESUME counts as completed and its value is
  replayed as an output (`checkpoints.py:268`).  `recovery_plan` says 0, and not
  the fork point, for a fork without events of its own.
* The oracle's `check_no_tamper` wants numbers from 0 on each branch, while those
  of a fork go on from the fork point; it would blame every fork with events.
  The experiments use none.  `OwnWritesPassAudit` says exactly this.
* `drive_to_terminal` approves a waiting run only after it has stopped on it, so
  it never does.
* A request that overflows raises before its attempt is counted, so the retry
  after a compaction has attempt 0 again and attempt 1 is never recorded.
* A recording that ended on its budget, or was killed between a charge and the
  cassette, replays up to the missing reply and ends in a `CassetteError`.
* `normalize_usage` accepts a report that mixes both providers' fields, and bills
  `input_tokens` next to `completion_tokens` as 0 although it refuses other
  reports so as not to (`cassette.py:104`).
* `acquire` asks nobody, so a lease can be taken over while its holder is between
  the check and the write, and a renewal under way may take it back.
* A sweep reads the references first and lists the files later; an artifact whose
  event was not yet written when it read the log is unlinked
  (`artifacts.py:285`).  No property says that this does not happen, since it
  does; `OnlyOverlapLoses` says that nothing else is lost.
* A baseline that was torn while it was written counts as no baseline; the next
  refresh is then not held to what it knew.
* A call recorded twice is rendered with its result both times.
* A run killed between its branch and its first message is resumed without its
  task; one killed between its row and its branch cannot be read.
* `ids.json` is written in place (`mcp_server.py:177`); torn, it stops every
  later start.

## 9. What is left out

The network, the parsing of replies and the scripted client of the model
adapters; token estimates, prompts and what the prefix cache bills; attributes
and export formats of the trace; sweeps over configurations, scenarios, other
systems under evaluation and statistics; the checks of documented facts;
wording, schemas and transport of the server; the contents of artifacts and the
slicing of a read; `runs` rows other than the status; the snapshot copy.  These
are data, statistics or I/O without a state that steps could get wrong.  Two
processes on one run at a time are out of the documented use of the store
(`sqlite_store.py:5`), except for forks, whose check and insert are apart, for
the lease, which is there for them, and for a sweep.

## 10. What could follow

1. References held by checkpoints, and several run directories over one
   artifact root, in `Retention`.
2. A log of the loop with kills inside an answer: what the view keeps of events
   that are there twice.
