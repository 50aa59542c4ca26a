------------------------------ MODULE MCAround -------------------------------
(***************************************************************************)
(* Instances of the machines around the loop, one run for all of them.     *)
(* They share no state, so a behaviour moves one of them and leaves the    *)
(* others as they begin, and its states are those of six separate runs.    *)
(***************************************************************************)
EXTENDS SchemaSetup, ModelReplay, MutationGate, Retention, Lease, Checkpoints, Usage

CONSTANTS m1, m2, p1, p2

\* Three suites: one that misses a body, one that reaches it and does not kill
\* it, and one that kills everything.
Reaching(reached, killedBodies) == [reaches |-> reached, kills |-> killedBodies]
TheSuites ==
    {Reaching({"b1"}, {"b1"}), Reaching({"b1", "b2"}, {"b1"}), Reaching({"b1", "b2"}, {"b1", "b2"})}

\* What a task may have written: an output, an output and an error, a resume value.
TaskWrites == {{0}, {ERROR, 0}, {RESUME}}

\* The names of mutants, and of lease owners, are interchangeable.
Interchangeable == Permutations({m1, m2}) \cup Permutations({p1, p2})

\* Reports of one provider, with some of its fields, and reports of both.
ReportsOver(fields) == UNION {[S -> 0..2] : S \in SUBSET fields}
MixedReports ==
    {r \in ReportsOver({"prompt_tokens", "completion_tokens", "input_tokens", "output_tokens"}) :
        DOMAIN r \cap OpenAIFields # {} /\ DOMAIN r \cap AnthropicFields # {}}

\* Every token is billed once whichever provider counted it: read from the
\* cache, written to it, or at full price.  What is refused lacks a side of the
\* bill; no report that is accepted makes a side that was reported free
\* (cassette.py:106), except a mix of both providers' fields: input_tokens with
\* completion_tokens is accepted and the input is billed as 0.
ASSUME EveryTokenIsBilledOnce ==
    /\ \A r \in ReportsOver(OpenAIFields) :
          /\ IsAccepted(r) <=> {"prompt_tokens", "completion_tokens"} \subseteq DOMAIN r
          /\ IsAccepted(r) /\ OrZero(r, "cached_tokens") <= r["prompt_tokens"] =>
                billed_input_tokens(r) + OrZero(r, "cached_tokens") = r["prompt_tokens"]
    /\ \A r \in ReportsOver(AnthropicFields) :
          /\ IsAccepted(r) <=> {"input_tokens", "output_tokens"} \subseteq DOMAIN r
          /\ IsAccepted(r) => billed_input_tokens(r) = r["input_tokens"]
    /\ \A r \in MixedReports :
          IsAccepted(r) /\ billed_input_tokens(r) = 0 =>
             \/ \A f \in DOMAIN r \cap {"prompt_tokens", "input_tokens"} : r[f] = 0
             \/ Has(r, "completion_tokens") /\ OrZero(r, "prompt_tokens") = 0

VARIABLE which  \* the machine that moves

vars == <<which, setupVars, replayVars, gateVars, retentionVars, leaseVars, checkpointVars>>

Init ==
    /\ which \in {"setup", "replay", "gate", "sweep", "lease", "commits"}
    /\ SetupInit /\ (which # "setup" => db = DatabaseOf(0))
    /\ ReplayInit
    /\ GateInit /\ (which # "gate" => code = [m \in Mutants |-> "b1"] /\ tests = Reaching({"b1"}, {"b1"}))
    /\ RetentionInit
    /\ LeaseInit
    /\ CheckpointInit

OnlySetup == which = "setup" /\ UNCHANGED <<which, replayVars, gateVars, retentionVars, leaseVars, checkpointVars>>
Setup_BeginSetup == OnlySetup /\ \E r \in BOOLEAN : BeginSetup(r)
Setup_Execute == OnlySetup /\ Execute
Setup_BeginTransaction == OnlySetup /\ BeginTransaction
Setup_Commit == OnlySetup /\ Commit
Setup_ExecuteRaises == OnlySetup /\ ExecuteRaises
Setup_BackfillRaises == OnlySetup /\ BackfillRaises
Setup_ReadVersion == OnlySetup /\ ReadVersion
Setup_InstallGuard == OnlySetup /\ InstallGuard
Setup_Close == OnlySetup /\ Close
Setup_Kill == OnlySetup /\ Kill
Setup_DropTrigger == OnlySetup /\ \E t \in TRIGGERS : DropTrigger(t)

OnlyReplay == which = "replay" /\ UNCHANGED <<which, setupVars, gateVars, retentionVars, leaseVars, checkpointVars>>
Replay_StopOverBudget == OnlyReplay /\ StopOverBudget
Replay_complete == OnlyReplay /\ complete
Replay_Miss == OnlyReplay /\ Miss
Replay_charge == OnlyReplay /\ charge
Replay_append == OnlyReplay /\ append
Replay_append_agent_message == OnlyReplay /\ _append_agent_message
Replay_KillRun == OnlyReplay /\ KillRun
Replay_ResumeRun == OnlyReplay /\ ResumeRun
Replay_StartReplay == OnlyReplay /\ StartReplay

OnlyGate == which = "gate" /\ UNCHANGED <<which, setupVars, replayVars, retentionVars, leaseVars, checkpointVars>>
Gate_EditCode == OnlyGate /\ \E c \in Trees : EditCode(c)
Gate_EditTests == OnlyGate /\ \E s \in Suites : EditTests(s)
Gate_Checkout == OnlyGate /\ Checkout
Gate_Start == OnlyGate /\ \E u, i, w \in BOOLEAN, only \in SUBSET Mutants : Start(u, i, w, only)
Gate_Mutmut == OnlyGate /\ Mutmut
Gate_MutmutFails == OnlyGate /\ \E done \in SUBSET Mutants : MutmutFails(done)
Gate_RunFails == OnlyGate /\ RunFails
Gate_JudgeRun == OnlyGate /\ \E u \in SUBSET Mutants : JudgeRun(u)
Gate_RefreshBaseline == OnlyGate /\ \E u \in SUBSET Mutants : RefreshBaseline(u)
Gate_WriteBaseline == OnlyGate /\ WriteBaseline

OnlySweep == which = "sweep" /\ UNCHANGED <<which, setupVars, replayVars, gateVars, leaseVars, checkpointVars>>
Sweep_ResumeLoop == OnlySweep /\ ResumeLoop
Sweep_BuildView == OnlySweep /\ BuildView
Sweep_StoreSummary == OnlySweep /\ StoreSummary
Sweep_RecordSummary == OnlySweep /\ RecordSummary
Sweep_AskModel == OnlySweep /\ AskModel
Sweep_RecordCall == OnlySweep /\ RecordCall
Sweep_ExecuteCall == OnlySweep /\ ExecuteCall
Sweep_KillLoop == OnlySweep /\ KillLoop
Sweep_CollectReferences == OnlySweep /\ CollectReferences
Sweep_ListFiles == OnlySweep /\ \E ofThisRun \in BOOLEAN : ListFiles(ofThisRun)
Sweep_Unlink == OnlySweep /\ \E d \in doomed : Unlink(d)
Sweep_SweepEnds == OnlySweep /\ SweepEnds

OnlyLease == which = "lease" /\ UNCHANGED <<which, setupVars, replayVars, gateVars, retentionVars, checkpointVars>>
Lease_ReadLease == OnlyLease /\ \E p \in Owners, for \in {"write", "renew"} : ReadLease(p, for)
Lease_require == OnlyLease /\ \E p \in Owners : require(p)
Lease_write == OnlyLease /\ \E p \in Owners : write(p)
Lease_acquire == OnlyLease /\ \E p \in Owners : acquire(p)
Lease_AppendLease == OnlyLease /\ \E p \in Owners : AppendLease(p)
Lease_KillWriter == OnlyLease /\ \E p \in Owners : KillWriter(p)
Lease_TimePasses == OnlyLease /\ TimePasses

OnlyCommits == which = "commits" /\ UNCHANGED <<which, setupVars, replayVars, gateVars, retentionVars, leaseVars>>
Commits_RunBranch == OnlyCommits /\ \E b \in {"root", "fork"} : RunBranch(b)
Commits_AppendEvent == OnlyCommits /\ AppendEvent
Commits_Fork == OnlyCommits /\ \E n \in 1..MaxEventsOf : Fork(n)
Commits_put_writes == OnlyCommits /\ \E w \in WritesOfTask \cup {{}} : put_writes(w)
Commits_put == OnlyCommits /\ put
Commits_StopRunning == OnlyCommits /\ StopRunning
Commits_SetClock == OnlyCommits /\ \E t \in 0..MaxWallTime : SetClock(t)

Next ==
    \/ Setup_BeginSetup \/ Setup_Execute \/ Setup_BeginTransaction \/ Setup_Commit
    \/ Setup_ExecuteRaises \/ Setup_BackfillRaises \/ Setup_ReadVersion \/ Setup_InstallGuard
    \/ Setup_Close \/ Setup_Kill \/ Setup_DropTrigger
    \/ Replay_StopOverBudget \/ Replay_complete \/ Replay_Miss \/ Replay_charge
    \/ Replay_append \/ Replay_append_agent_message \/ Replay_KillRun
    \/ Replay_ResumeRun \/ Replay_StartReplay
    \/ Gate_EditCode \/ Gate_EditTests \/ Gate_Checkout \/ Gate_Start \/ Gate_Mutmut
    \/ Gate_MutmutFails \/ Gate_RunFails \/ Gate_JudgeRun \/ Gate_RefreshBaseline
    \/ Gate_WriteBaseline
    \/ Sweep_ResumeLoop \/ Sweep_BuildView \/ Sweep_StoreSummary \/ Sweep_RecordSummary
    \/ Sweep_AskModel \/ Sweep_RecordCall \/ Sweep_ExecuteCall \/ Sweep_KillLoop
    \/ Sweep_CollectReferences \/ Sweep_ListFiles \/ Sweep_Unlink \/ Sweep_SweepEnds
    \/ Lease_ReadLease \/ Lease_require \/ Lease_write \/ Lease_acquire
    \/ Lease_AppendLease \/ Lease_KillWriter \/ Lease_TimePasses
    \/ Commits_RunBranch \/ Commits_AppendEvent \/ Commits_Fork \/ Commits_put_writes
    \/ Commits_put \/ Commits_StopRunning \/ Commits_SetClock

Spec == Init /\ [][Next]_vars
=============================================================================
