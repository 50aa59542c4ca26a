---------------------------- MODULE MutationGate ----------------------------
(***************************************************************************)
(* The mutation gate of src/scripts/mutation_check: its baseline, the      *)
(* incremental cache of mutmut it judges from, and the runs that judge or  *)
(* refresh the baseline, each of which may fail or be killed at any step.  *)
(*                                                                         *)
(* mutmut is external and modelled as runtime.py and baseline.py use it: a *)
(* run keeps the verdict of a mutant whose function is unchanged, judges   *)
(* the others (or those named by --module), and leaves a partial cache     *)
(* when it dies.  A mutant stands for its function.  The tree is not       *)
(* edited while a run is under way.                                        *)
(***************************************************************************)
EXTENDS Naturals, FiniteSets

CONSTANTS
    Mutants,     \* names of mutants
    Bodies,      \* what a mutant may contain; also its fingerprint
    Suites,      \* test suites: records of what they reach and what they kill
    Flaky,       \* verdicts mutmut may return in place of the right one
    MaxEdits,    \* bound on edits of the code or the tests
    MaxFailures, \* bound on runs that fail or are killed
    MaxRuns      \* bound on runs

Decided == {"killed", "survived"}
Inconclusive == {"segfault", "timeout", "suspicious", "skipped", "not checked"}
Known == Decided \union {"no tests"} \union Inconclusive

ASSUME GateAssumption ==
    /\ \A s \in Suites : s.kills \subseteq s.reaches /\ s.reaches \subseteq Bodies
    /\ Flaky \cap (Decided \union {"no tests"}) = {}
    /\ "none" \notin Mutants \* the mark of a file that is not there
    /\ MaxEdits \in Nat /\ MaxFailures \in Nat /\ MaxRuns \in Nat

VARIABLES
    code,      \* the body of each mutant the tree has (a function on their names)
    tests,     \* the suite of the tree
    mutantsDir,\* mutants/: for each name its body and verdict, or Nothing
    stale,     \* the tests changed after verdicts now in mutants/ were given
    baseline,  \* the file: Nothing, Torn, or what a run froze
    frozen,    \* the last baseline that was written in full, or Nothing
    gate,      \* where the run is: "idle", "mutmut", "judge", "write"
    run,       \* the arguments of the run, and the baseline it is about to write
    unjudged,  \* names mutmut has yet to judge in this run
    verdict,   \* how the last run ended: "none", "green", "red", "refused", "written"
    edits, failures, gateRuns

gateVars == <<code, tests, mutantsDir, stale, baseline, frozen, gate, run, unjudged, verdict,
              edits, failures, gateRuns>>

Nothing == [none |-> TRUE]
Torn == [torn |-> TRUE]
NoRun == [update |-> FALSE, incremental |-> FALSE, wider |-> FALSE, candidate |-> Nothing]

Verdict(body) ==
    CASE body \in tests.kills -> "killed"
      [] body \in tests.reaches \ tests.kills -> "survived"
      [] OTHER -> "no tests"

GateInit ==
    /\ code \in [Mutants -> Bodies]
    /\ tests \in Suites
    /\ mutantsDir = Nothing /\ stale = FALSE
    /\ baseline = Nothing /\ frozen = Nothing
    /\ gate = "idle" /\ run = NoRun /\ unjudged = {}
    /\ verdict = "none"
    /\ edits = 0 /\ failures = 0 /\ gateRuns = 0

-----------------------------------------------------------------------------
(* The tree between runs. *)
EditCode(c) ==
    /\ gate = "idle" /\ edits < MaxEdits /\ c # code
    /\ code' = c
    /\ edits' = edits + 1
    /\ UNCHANGED <<tests, mutantsDir, stale, baseline, frozen, gate, run, unjudged, verdict,
                   failures, gateRuns>>

EditTests(s) ==
    /\ gate = "idle" /\ edits < MaxEdits /\ s # tests
    /\ tests' = s
    /\ stale' = (mutantsDir # Nothing)
    /\ edits' = edits + 1
    /\ UNCHANGED <<code, mutantsDir, baseline, frozen, gate, run, unjudged, verdict, failures,
                   gateRuns>>

(* A fresh checkout: the baseline is in the repository, mutants/ is not. *)
Checkout ==
    /\ gate = "idle" /\ mutantsDir # Nothing
    /\ mutantsDir' = Nothing /\ stale' = FALSE
    /\ UNCHANGED <<code, tests, baseline, frozen, gate, run, unjudged, verdict, edits, failures,
                   gateRuns>>

-----------------------------------------------------------------------------
(* Slip: the cache is always kept. *)
CacheAtStartKept(r) == mutantsDir

(* baseline_refresh_plan: a refresh starts from a clean cache unless the   *)
(* caller insists.                                                         *)
CacheAtStart(r) == IF r.update /\ ~r.incremental THEN Nothing ELSE mutantsDir

(* mutmut writes its table anew for the code there is, and keeps what it   *)
(* knows of unchanged functions.                                           *)
Regenerated(cache) ==
    [n \in DOMAIN code |->
        IF cache # Nothing /\ n \in DOMAIN cache /\ cache[n].body = code[n]
        THEN cache[n]
        ELSE [body |-> code[n], status |-> "not checked"]]

ToJudge(table, only) ==
    IF only = {} THEN {n \in DOMAIN table : table[n].status = "not checked"}
    ELSE only \cap DOMAIN table

(* main up to mutmut run.  An update that is not incremental first moves   *)
(* the cache aside; the rename and what mutmut does first are one step.    *)
Start(update, incremental, wider, only) ==
    /\ gate = "idle" /\ gateRuns < MaxRuns
    /\ (incremental \/ wider) => update
    /\ only \subseteq DOMAIN code
    /\ gateRuns' = gateRuns + 1
    /\ LET r == [update |-> update, incremental |-> incremental, wider |-> wider,
                 candidate |-> Nothing]
           table == Regenerated(CacheAtStart(r))
       IN /\ run' = r
          /\ mutantsDir' = table
          /\ stale' = (stale /\ CacheAtStart(r) # Nothing)
          /\ unjudged' = ToJudge(table, only)
    /\ gate' = "mutmut"
    /\ verdict' = "none"
    /\ UNCHANGED <<code, tests, baseline, frozen, edits, failures>>

(* mutmut judges done, in whatever order, and its verdicts are in its own  *)
(* files when it ends.                                                     *)
Judged(done, v) ==
    [n \in DOMAIN mutantsDir |->
        IF n \in done THEN [mutantsDir[n] EXCEPT !.status = v[n]] ELSE mutantsDir[n]]

Verdicts(done) == {v \in [done -> Known \union Flaky] :
                      \A n \in done : v[n] \in Flaky \union {Verdict(code[n])}}

Mutmut ==
    /\ gate = "mutmut"
    /\ \E v \in Verdicts(unjudged) : mutantsDir' = Judged(unjudged, v)
    /\ unjudged' = {}
    /\ gate' = "judge"
    /\ UNCHANGED <<code, tests, stale, baseline, frozen, run, verdict, edits, failures, gateRuns>>

(* Timeout, a non-zero exit of mutmut, or a kill: what was judged so far   *)
(* stays in mutants/, and the run says nothing about it.                   *)
MutmutFails(done) ==
    /\ gate = "mutmut" /\ done \subseteq unjudged
    /\ failures < MaxFailures
    /\ failures' = failures + 1
    /\ \E v \in Verdicts(done) : mutantsDir' = Judged(done, v)
    /\ gate' = "idle" /\ run' = NoRun
    /\ unjudged' = {}
    /\ verdict' = "red"
    /\ UNCHANGED <<code, tests, stale, baseline, frozen, edits, gateRuns>>

(* The results cannot be read, or the process is killed after mutmut.      *)
RunFails ==
    /\ gate \in {"judge", "write"} /\ failures < MaxFailures
    /\ failures' = failures + 1
    /\ gate' = "idle"
    /\ run' = NoRun
    /\ verdict' = "red"
    /\ UNCHANGED <<code, tests, mutantsDir, stale, baseline, frozen, unjudged, edits, gateRuns>>

-----------------------------------------------------------------------------
(* What a run concludes from the table.  u are the names whose content     *)
(* could not be read: they have no fingerprint.                            *)
StatusOf(file) == IF file \in {Nothing, Torn} THEN [n \in {} |-> ""] ELSE file.status
PrintsOf(file) == IF file \in {Nothing, Torn} THEN [n \in {} |-> ""] ELSE file.prints

Having(status, S) == {n \in DOMAIN status : status[n] \in S}
Grown(new, old, S) == Having(new, S) \ Having(old, S)
Lost(new, old) == DOMAIN old \ DOMAIN new
OtherThan(S) == (Known \union Flaky) \ S

(* collect_status, compute_mutant_fingerprints and mutation_summary. *)
mutation_summary(u) ==
    [status |-> [n \in DOMAIN mutantsDir |-> mutantsDir[n].status],
     prints |-> [n \in DOMAIN mutantsDir \ u |-> mutantsDir[n].body]]

(* Slip: what a run does not see any more counts as good news. *)
GreenDespiteLoss(now, base) ==
    LET new == now.status old == StatusOf(base) IN
    /\ DOMAIN old # {} /\ Having(new, Decided) # {}
    /\ Grown(new, old, {"survived"}) = {}
    /\ Grown(new, old, {"no tests"}) = {}
    /\ Having(new, OtherThan(Decided \union {"no tests"})) \ Having(old, Inconclusive) = {}
    /\ \A n \in DOMAIN now.prints \cap DOMAIN PrintsOf(base) : now.prints[n] = PrintsOf(base)[n]
    /\ Having(new, Flaky \ Known) = {}

(* gate_verdict and the checks before it: green when none of its           *)
(* conditions is met.                                                      *)
Green(now, base) ==
    LET new == now.status old == StatusOf(base) IN
    /\ DOMAIN old # {}
    /\ Having(new, Decided) # {}
    /\ Grown(new, old, {"survived"}) = {}
    /\ Having(old, Decided) \cap Having(new, OtherThan(Decided)) = {}
    /\ Lost(new, old) = {}
    /\ Grown(new, old, {"no tests"}) = {}
    /\ Having(new, OtherThan(Decided \union {"no tests"})) \ Having(old, Inconclusive) = {}
    /\ \A n \in DOMAIN now.prints \cap DOMAIN PrintsOf(base) : now.prints[n] = PrintsOf(base)[n]
    /\ Having(new, Flaky \ Known) = {}

(* baseline_widening. *)
Wider(now, base) ==
    LET new == now.status old == StatusOf(base) IN
    \/ Grown(new, old, {"survived"}) # {}
    \/ Grown(new, old, {"no tests"}) # {}
    \/ Grown(new, old, OtherThan(Decided \union {"no tests"})) # {}
    \/ Lost(new, old) # {}

JudgeRun(u) ==
    /\ gate = "judge" /\ ~run.update
    /\ verdict' = IF Green(mutation_summary(u), baseline) THEN "green" ELSE "red"
    /\ gate' = "idle" /\ run' = NoRun
    /\ UNCHANGED <<code, tests, mutantsDir, stale, baseline, frozen, unjudged, edits, failures,
                   gateRuns>>

(* An update that is refused, and one that begins to write: the file is    *)
(* truncated before it is written.                                         *)
RefreshBaseline(u) ==
    /\ gate = "judge" /\ run.update
    /\ LET now == mutation_summary(u) IN
       IF \/ DOMAIN now.prints = {}
          \/ Wider(now, baseline) /\ ~run.wider
       THEN /\ verdict' = "refused" /\ gate' = "idle" /\ run' = NoRun
            /\ UNCHANGED baseline
       ELSE /\ baseline' = Torn
            /\ run' = [run EXCEPT !.candidate = now]
            /\ gate' = "write"
            /\ UNCHANGED verdict
    /\ UNCHANGED <<code, tests, mutantsDir, stale, frozen, unjudged, edits, failures, gateRuns>>

WriteBaseline ==
    /\ gate = "write"
    /\ baseline' = run.candidate /\ frozen' = run.candidate
    /\ verdict' = "written"
    /\ gate' = "idle" /\ run' = NoRun
    /\ UNCHANGED <<code, tests, mutantsDir, stale, unjudged, edits, failures, gateRuns>>

Trees == UNION {[names -> Bodies] : names \in SUBSET Mutants}

GateNext ==
    \/ \E c \in Trees : EditCode(c)
    \/ \E s \in Suites : EditTests(s)
    \/ Checkout
    \/ \E update, incremental, wider \in BOOLEAN, only \in SUBSET Mutants :
          Start(update, incremental, wider, only)
    \/ Mutmut
    \/ \E done \in SUBSET Mutants : MutmutFails(done)
    \/ RunFails
    \/ \E u \in SUBSET Mutants : JudgeRun(u) \/ RefreshBaseline(u)
    \/ WriteBaseline

GateSpec == GateInit /\ [][GateNext]_gateVars

-----------------------------------------------------------------------------
(* A baseline frozen without --allow-incremental-refresh is what the tests *)
(* of the tree say of the mutants of the tree, whatever runs were killed,  *)
(* filtered or outdated before (baseline.py 84-95: no mixed baseline).     *)
BaselineIsOneRun ==
    [][WriteBaseline /\ ~run.incremental
        => /\ DOMAIN baseline'.status = DOMAIN code
           /\ \A n \in Having(baseline'.status, Decided \union {"no tests"}) :
                 baseline'.status[n] = Verdict(code[n])
           /\ \A n \in DOMAIN baseline'.prints : baseline'.prints[n] = code[n]]_gateVars

(* Green means that no blind spot is new: every mutant the baseline saw    *)
(* killed is there and killed by the tests of the tree, and whatever they  *)
(* do not kill the baseline knew of.  Verdicts of older tests in mutants/  *)
(* are excepted; nightly runs start from a fresh checkout.                 *)
GreenMeansNoNewBlindSpot ==
    [][verdict # "green" /\ verdict' = "green" /\ ~stale
        => /\ \A n \in Having(StatusOf(frozen), {"killed"}) :
                 n \in DOMAIN code /\ code[n] \in tests.kills
           /\ \A n \in DOMAIN code :
                 code[n] \notin tests.kills => n \in Having(StatusOf(frozen), OtherThan({"killed"}))
      ]_gateVars
=============================================================================
