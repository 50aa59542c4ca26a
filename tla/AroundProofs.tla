---------------------------- MODULE AroundProofs ----------------------------
(***************************************************************************)
(* Proofs about two parts around the loop that keep no state in common:    *)
(* ModelReplay, the recording of a run and its replay, and MutationGate,   *)
(* the baseline of the mutation tests and the gate that is held to it.     *)
(***************************************************************************)
EXTENDS ModelReplay, MutationGate, TLAPS

-----------------------------------------------------------------------------
(***************************************************************************)
(* Proofs about ModelReplay: the cassette holds the log it was recorded    *)
(* with, and a replay repeats it, for any texts, prices, budget, length    *)
(* and number of kills.                                                    *)
(*                                                                         *)
(* Neither property is inductive.  What carries them is the key: a request *)
(* of a step is the first of its process as long as the budget allows it   *)
(* (CountsFromZero), so the reply in hand belongs to <<Step, 0>>           *)
(* (HandIsKeyed).  A replay misses nothing of a finished recording because *)
(* a final message is in the log when the outcome says so and only then    *)
(* (FinalIsLogged).                                                        *)
(***************************************************************************)

Places == {"turn", "charge", "store", "append", "down"}
InHand == {"charge", "store", "append"}

ReplayTypes ==
    /\ mode \in Runs
    /\ logs \in [Runs -> Seq(Replies)]
    /\ charged \in [Runs -> Nat]
    /\ outcome \in [Runs -> {"open", "budget", "final"}]
    /\ \A k \in DOMAIN cassette : cassette[k] \in Replies
    /\ at \in Places
    /\ attempts \in [0..MaxReplies -> Nat]
    /\ missed \in BOOLEAN
    /\ at \in InHand => reply \in Replies

(* The steps ahead of the log have not been asked for by this process, but *)
(* for the one in hand, or one whose reply the budget threw away.          *)
CountsFromZero ==
    /\ \A s \in 0..MaxReplies : s > Step => attempts[s] = 0
    /\ at = "turn" /\ WithinBudget(charged[mode]) /\ Step \in 0..MaxReplies => attempts[Step] = 0
    /\ at \in InHand => Step < MaxReplies /\ attempts[Step] = 1 /\ outcome[mode] = "open"

(* What is about to be logged is in the cassette under the step. *)
HandIsKeyed ==
    (at = "append" \/ (mode = "replay" /\ at = "charge")) =>
        <<Step, 0>> \in DOMAIN cassette /\ cassette[<<Step, 0>>] = reply

ReplayFollowsCassette ==
    \A i \in DOMAIN logs["replay"] :
        /\ <<i - 1, 0>> \in DOMAIN cassette
        /\ cassette[<<i - 1, 0>>] = logs["replay"][i]

RecordsFirst ==
    /\ mode = "record" => logs["replay"] = <<>> /\ ~missed
    /\ mode = "replay" => at # "store"

FinalIsLogged ==
    /\ outcome["record"] = "final" => \E i \in DOMAIN logs["record"] : logs["record"][i].final
    /\ \A i \in DOMAIN logs["replay"] : logs["replay"][i].final => outcome["replay"] = "final"

ReplayInv ==
    /\ ReplayTypes /\ CountsFromZero /\ HandIsKeyed
    /\ CassetteIsTheLog /\ ReplayFollowsCassette /\ RecordsFirst /\ FinalIsLogged
    /\ missed => outcome["record"] # "final"

-----------------------------------------------------------------------------

LEMMA InitHolds == ReplayInit => ReplayInv
  <1> SUFFICES ASSUME ReplayInit PROVE ReplayInv
    OBVIOUS
  <1> USE DEF ReplayInit
  <1>1. ReplayTypes
    <2>1. DOMAIN cassette = {}
      BY Zenon
    <2>2. logs \in [Runs -> Seq(Replies)] /\ charged \in [Runs -> Nat]
      OBVIOUS
    <2>3. outcome \in [Runs -> {"open", "budget", "final"}] /\ attempts \in [0..MaxReplies -> Nat]
      BY DEF NoAttempts
    <2> QED BY <2>1, <2>2, <2>3 DEF ReplayTypes, Runs, Places, InHand
  <1>2. CountsFromZero /\ HandIsKeyed
    BY DEF CountsFromZero, HandIsKeyed, InHand, NoAttempts, Step, Runs
  <1>3. CassetteIsTheLog /\ ReplayFollowsCassette /\ RecordsFirst /\ FinalIsLogged
    BY DEF CassetteIsTheLog, ReplayFollowsCassette, RecordsFirst, FinalIsLogged, Runs
  <1> QED BY <1>1, <1>2, <1>3 DEF ReplayInv

\* A run that the budget stops has nothing in hand.
LEMMA StopKeeps == ReplayInv /\ StopOverBudget => ReplayInv'
  <1> SUFFICES ASSUME ReplayInv, StopOverBudget PROVE ReplayInv'
    OBVIOUS
  <1> USE DEF StopOverBudget, ReplayInv, InHand
  <1>1. ReplayTypes' /\ CountsFromZero'
    BY DEF ReplayTypes, CountsFromZero, Runs, Step
  <1>2. HandIsKeyed' /\ CassetteIsTheLog' /\ ReplayFollowsCassette' /\ RecordsFirst'
    BY DEF HandIsKeyed, CassetteIsTheLog, ReplayFollowsCassette, RecordsFirst, Step
  <1>3. FinalIsLogged' /\ (missed' => outcome'["record"] # "final")
    BY DEF FinalIsLogged, ReplayTypes, Runs
  <1> QED BY <1>1, <1>2, <1>3

\* The request is the first of its step; a replay finds it under that key.
LEMMA CompleteKeeps == ReplayInv /\ complete => ReplayInv'
  <1> SUFFICES ASSUME ReplayInv, complete PROVE ReplayInv'
    OBVIOUS
  <1> USE DEF ReplayInv
  <1>1. Step \in 0..MaxReplies /\ Step < MaxReplies /\ Step' = Step
    BY ReplayAssumption DEF complete, ReplayTypes, Step
  <1>2. attempts[Step] = 0 /\ Key = <<Step, 0>>
    BY <1>1 DEF complete, CountsFromZero, Key, Attempt
  <1>3. /\ reply' \in Replies
        /\ mode = "replay" => <<Step, 0>> \in DOMAIN cassette /\ cassette[<<Step, 0>>] = reply'
    <2>1. CASE mode = "record"
      BY <2>1 DEF complete
    <2>2. CASE mode = "replay"
      <3>1. reply' \in find(<<Step, 0>>)
        BY <1>2, <2>2 DEF complete
      <3> QED BY <3>1, <2>2 DEF find, ReplayTypes
    <2> QED BY <2>1, <2>2 DEF ReplayTypes, Runs
  <1>4. ReplayTypes'
    BY <1>1, <1>3 DEF complete, ReplayTypes, Places, InHand
  <1>5. CountsFromZero'
    BY <1>1, <1>2 DEF complete, CountsFromZero, ReplayTypes, InHand
  <1>6. HandIsKeyed'
    BY <1>1, <1>3 DEF complete, HandIsKeyed
  <1>7. CassetteIsTheLog' /\ ReplayFollowsCassette' /\ RecordsFirst' /\ FinalIsLogged'
    BY DEF complete, CassetteIsTheLog, ReplayFollowsCassette, RecordsFirst, FinalIsLogged
  <1> QED BY <1>4, <1>5, <1>6, <1>7 DEF complete

\* What a replay misses, a finished recording did not have: its final message
\* would be the replay's last.
LEMMA MissKeeps == ReplayInv /\ Miss => ReplayInv'
  <1> SUFFICES ASSUME ReplayInv, Miss PROVE ReplayInv'
    OBVIOUS
  <1> USE DEF ReplayInv
  <1>1. Step \in 0..MaxReplies /\ Step = Len(logs["replay"])
    BY ReplayAssumption DEF Miss, ReplayTypes, Step, Runs
  <1>2. <<Step, 0>> \notin DOMAIN cassette
    BY <1>1 DEF Miss, CountsFromZero, Key, Attempt, find
  <1>3. outcome["record"] # "final"
    <2> SUFFICES ASSUME outcome["record"] = "final" PROVE FALSE
      OBVIOUS
    <2>1. PICK i \in DOMAIN logs["record"] : logs["record"][i].final
      BY DEF FinalIsLogged
    <2>2. i \in Nat \ {0} /\ logs["record"] \in Seq(Replies) /\ logs["replay"] \in Seq(Replies)
      BY DEF ReplayTypes, Runs
    <2>3. CASE i <= Step
      <3>1. i \in DOMAIN logs["replay"]
        BY <1>1, <2>2, <2>3
      <3>2. logs["replay"][i] = logs["record"][i]
        BY <2>1, <3>1 DEF CassetteIsTheLog, ReplayFollowsCassette
      <3> QED BY <2>1, <3>1, <3>2 DEF FinalIsLogged, Miss
    <2>4. CASE i > Step
      <3>1. Step + 1 \in DOMAIN logs["record"]
        BY <1>1, <2>1, <2>2, <2>4
      <3>2. <<(Step + 1) - 1, 0>> \in DOMAIN cassette
        BY <3>1 DEF CassetteIsTheLog
      <3> QED BY <1>1, <1>2, <3>2
    <2> QED BY <1>1, <2>2, <2>3, <2>4
  <1>4. ReplayTypes' /\ CountsFromZero' /\ HandIsKeyed' /\ RecordsFirst'
    BY DEF Miss, ReplayTypes, CountsFromZero, HandIsKeyed, RecordsFirst, Places, InHand, Step
  <1>5. CassetteIsTheLog' /\ ReplayFollowsCassette' /\ FinalIsLogged'
    BY DEF Miss, CassetteIsTheLog, ReplayFollowsCassette, FinalIsLogged
  <1> QED BY <1>3, <1>4, <1>5 DEF Miss

\* Over the limit the reply is dropped, and with it the budget for another.
LEMMA ChargeKeeps == ReplayInv /\ charge => ReplayInv'
  <1> SUFFICES ASSUME ReplayInv, charge PROVE ReplayInv'
    OBVIOUS
  <1> USE DEF ReplayInv
  <1>1. reply.price \in Nat /\ reply' = reply /\ reply \in Replies
    BY ReplayAssumption DEF charge, ReplayTypes, InHand, Replies
  <1>2. charged' \in [Runs -> Nat]
    BY <1>1 DEF charge, ReplayTypes
  <1>3. at' \in {"turn", "store", "append"} /\ (at' = "turn" => ~WithinBudget(charged'[mode]))
    BY DEF charge, AfterCharge
  <1>4. (at' = "store" => mode = "record") /\ (at' = "append" => mode = "replay")
    BY DEF charge, AfterCharge, ReplayTypes, Runs
  <1>5. ReplayTypes'
    BY <1>1, <1>2, <1>3 DEF charge, ReplayTypes, Places
  <1>6. CountsFromZero'
    BY <1>3 DEF charge, CountsFromZero, InHand, Step
  <1>7. HandIsKeyed' /\ RecordsFirst'
    BY <1>3, <1>4 DEF charge, HandIsKeyed, RecordsFirst, Step
  <1>8. CassetteIsTheLog' /\ ReplayFollowsCassette' /\ FinalIsLogged'
    BY DEF charge, CassetteIsTheLog, ReplayFollowsCassette, FinalIsLogged
  <1> QED BY <1>5, <1>6, <1>7, <1>8 DEF charge

\* The entry goes under the step's first key, where no message has its own.
LEMMA AppendKeeps == ReplayInv /\ append => ReplayInv'
  <1> SUFFICES ASSUME ReplayInv, append PROVE ReplayInv'
    OBVIOUS
  <1> USE DEF ReplayInv
  <1>1. mode = "record" /\ reply \in Replies /\ Step = Len(logs["record"]) /\ Step \in Nat
    BY DEF append, RecordsFirst, ReplayTypes, Runs, InHand, Step
  <1>2. cassette' = With(<<Step, 0>>, reply)
    BY DEF append, CountsFromZero, InHand, Attempt
  <1>3. /\ DOMAIN cassette' = DOMAIN cassette \cup {<<Step, 0>>}
        /\ cassette'[<<Step, 0>>] = reply
        /\ \A k \in DOMAIN cassette : k # <<Step, 0>> => cassette'[k] = cassette[k]
    BY <1>2 DEF With
  <1>4. ReplayTypes'
    <2>1. \A k \in DOMAIN cassette' : cassette'[k] \in Replies
      BY <1>1, <1>3 DEF ReplayTypes
    <2> QED BY <1>1, <2>1 DEF append, ReplayTypes, Places, InHand
  <1>5. CountsFromZero' /\ HandIsKeyed' /\ RecordsFirst'
    BY <1>1, <1>3 DEF append, CountsFromZero, HandIsKeyed, RecordsFirst, InHand, Step
  <1>6. CassetteIsTheLog'
    <2> SUFFICES ASSUME NEW i \in DOMAIN logs["record"]
                 PROVE  /\ <<i - 1, 0>> \in DOMAIN cassette'
                        /\ cassette'[<<i - 1, 0>>] = logs["record"][i]
      BY DEF append, CassetteIsTheLog
    <2>1. i \in 1..Len(logs["record"])
      BY DEF ReplayTypes, Runs
    <2>2. i - 1 # Step
      BY <1>1, <2>1
    <2>3. <<i - 1, 0>> # <<Step, 0>>
      BY <2>2
    <2> QED BY <1>3, <2>3 DEF CassetteIsTheLog
  <1>7. ReplayFollowsCassette' /\ FinalIsLogged'
    BY <1>1 DEF append, ReplayFollowsCassette, FinalIsLogged, RecordsFirst
  <1> QED BY <1>4, <1>5, <1>6, <1>7 DEF append

\* What appending a message to one of the logs changes.
LEMMA Appended ==
    ASSUME ReplayInv, _append_agent_message
    PROVE  /\ logs' \in [Runs -> Seq(Replies)]
           /\ Len(logs'[mode]) = Step + 1
           /\ logs'[mode][Step + 1] = reply
           /\ \A i \in 1..Step : logs'[mode][i] = logs[mode][i]
           /\ \A r \in Runs : r # mode => logs'[r] = logs[r]
           /\ Step \in Nat /\ mode' = mode /\ mode \in Runs
  BY DEF ReplayInv, _append_agent_message, ReplayTypes, InHand, Step

LEMMA MessageKeeps == ReplayInv /\ _append_agent_message => ReplayInv'
  <1> SUFFICES ASSUME ReplayInv, _append_agent_message PROVE ReplayInv'
    OBVIOUS
  <1> USE DEF ReplayInv
  <1>1. /\ at = "append" /\ at' = "turn" /\ cassette' = cassette
        /\ outcome[mode] = "open" /\ Step < MaxReplies /\ reply \in Replies
        /\ <<Step, 0>> \in DOMAIN cassette /\ cassette[<<Step, 0>>] = reply
    BY DEF _append_agent_message, CountsFromZero, HandIsKeyed, ReplayTypes, InHand
  <1>2. /\ outcome' \in [Runs -> {"open", "budget", "final"}]
        /\ outcome'[mode] = IF reply.final THEN "final" ELSE "open"
        /\ \A r \in Runs : r # mode => outcome'[r] = outcome[r]
    BY <1>1 DEF _append_agent_message, ReplayTypes
  <1>3. ReplayTypes'
    BY <1>1, <1>2, Appended DEF _append_agent_message, ReplayTypes, Places, InHand
  <1>4. CountsFromZero'
    <2>1. Step' = Step + 1
      BY Appended DEF Step
    <2> QED BY <1>1, <2>1, Appended DEF _append_agent_message, CountsFromZero, InHand
  <1>5. HandIsKeyed' /\ RecordsFirst'
    BY <1>1, Appended DEF _append_agent_message, HandIsKeyed, RecordsFirst, Runs
  <1>6. \A i \in DOMAIN logs'[mode] : i \in 1..Step \/ i = Step + 1
    BY Appended
  <1>7. logs[mode] \in Seq(Replies) /\ DOMAIN logs[mode] = 1..Step
    BY DEF ReplayTypes, Step
  <1>8. CASE mode = "record"
    <2>1. CassetteIsTheLog'
      <3> SUFFICES ASSUME NEW i \in DOMAIN logs'["record"]
                   PROVE  /\ <<i - 1, 0>> \in DOMAIN cassette
                          /\ cassette[<<i - 1, 0>>] = logs'["record"][i]
        BY <1>1 DEF CassetteIsTheLog
      <3>1. CASE i \in 1..Step
        BY <1>7, <1>8, <3>1, Appended DEF CassetteIsTheLog
      <3>2. CASE i = Step + 1
        <4>1. i - 1 = Step
          BY <3>2, Appended
        <4> QED BY <1>1, <1>8, <3>2, <4>1, Appended
      <3> QED BY <1>6, <1>8, <3>1, <3>2
    <2>2. ReplayFollowsCassette'
      BY <1>1, <1>8, Appended DEF ReplayFollowsCassette, Runs
    <2>3. FinalIsLogged'
      <3>1. Step + 1 \in DOMAIN logs'["record"]
        BY <1>8, Appended
      <3>2. outcome'["record"] = "final" => reply.final
        BY <1>2, <1>8
      <3> QED BY <1>2, <1>8, <3>1, <3>2, Appended DEF FinalIsLogged, Runs
    <2>4. ~missed'
      BY <1>8 DEF RecordsFirst, _append_agent_message
    <2> QED BY <1>3, <1>4, <1>5, <2>1, <2>2, <2>3, <2>4
  <1>9. CASE mode = "replay"
    <2>1. CassetteIsTheLog'
      BY <1>1, <1>9, Appended DEF CassetteIsTheLog, Runs
    <2>2. ReplayFollowsCassette'
      <3> SUFFICES ASSUME NEW i \in DOMAIN logs'["replay"]
                   PROVE  /\ <<i - 1, 0>> \in DOMAIN cassette
                          /\ cassette[<<i - 1, 0>>] = logs'["replay"][i]
        BY <1>1 DEF ReplayFollowsCassette
      <3>1. CASE i \in 1..Step
        BY <1>7, <1>9, <3>1, Appended DEF ReplayFollowsCassette
      <3>2. CASE i = Step + 1
        <4>1. i - 1 = Step
          BY <3>2, Appended
        <4> QED BY <1>1, <1>9, <3>2, <4>1, Appended
      <3> QED BY <1>6, <1>9, <3>1, <3>2
    <2>3. FinalIsLogged'
      <3>1. logs'["record"] = logs["record"] /\ outcome'["record"] = outcome["record"]
        BY <1>2, <1>9, Appended DEF Runs
      <3>2. \A i \in DOMAIN logs'["replay"] : logs'["replay"][i].final => outcome'["replay"] = "final"
        <4> SUFFICES ASSUME NEW i \in DOMAIN logs'["replay"], logs'["replay"][i].final
                     PROVE  outcome'["replay"] = "final"
          OBVIOUS
        <4>1. CASE i \in 1..Step
          BY <1>1, <1>7, <1>9, <4>1, Appended DEF FinalIsLogged
        <4>2. CASE i = Step + 1
          BY <1>2, <1>9, <4>2, Appended
        <4> QED BY <1>6, <1>9, <4>1, <4>2
      <3> QED BY <3>1, <3>2 DEF FinalIsLogged
    <2>4. missed' => outcome'["record"] # "final"
      BY <1>2, <1>9 DEF _append_agent_message, Runs
    <2> QED BY <1>3, <1>4, <1>5, <2>1, <2>2, <2>3, <2>4
  <1> QED BY <1>8, <1>9 DEF ReplayTypes, Runs

\* A kill loses the reply in hand and the counts, nothing durable.
LEMMA KillKeeps == ReplayInv /\ KillRun => ReplayInv'
  <1> SUFFICES ASSUME ReplayInv, KillRun PROVE ReplayInv'
    OBVIOUS
  <1> USE DEF ReplayInv, KillRun
  <1>1. ReplayTypes' /\ CountsFromZero' /\ HandIsKeyed' /\ RecordsFirst'
    BY DEF ReplayTypes, CountsFromZero, HandIsKeyed, RecordsFirst, Places, InHand, Step
  <1>2. CassetteIsTheLog' /\ ReplayFollowsCassette' /\ FinalIsLogged'
    BY DEF CassetteIsTheLog, ReplayFollowsCassette, FinalIsLogged
  <1> QED BY <1>1, <1>2

LEMMA ResumeKeeps == ReplayInv /\ ResumeRun => ReplayInv'
  <1> SUFFICES ASSUME ReplayInv, ResumeRun PROVE ReplayInv'
    OBVIOUS
  <1> USE DEF ReplayInv, ResumeRun
  <1>1. ReplayTypes' /\ CountsFromZero' /\ HandIsKeyed' /\ RecordsFirst'
    BY DEF ReplayTypes, CountsFromZero, HandIsKeyed, RecordsFirst, Places, InHand, Step, NoAttempts
  <1>2. CassetteIsTheLog' /\ ReplayFollowsCassette' /\ FinalIsLogged'
    BY DEF CassetteIsTheLog, ReplayFollowsCassette, FinalIsLogged
  <1> QED BY <1>1, <1>2

LEMMA StartReplayKeeps == ReplayInv /\ StartReplay => ReplayInv'
  <1> SUFFICES ASSUME ReplayInv, StartReplay PROVE ReplayInv'
    OBVIOUS
  <1> USE DEF ReplayInv, StartReplay
  <1>1. ReplayTypes' /\ CountsFromZero' /\ HandIsKeyed' /\ RecordsFirst'
    BY DEF ReplayTypes, CountsFromZero, HandIsKeyed, RecordsFirst, Places, InHand, Step, NoAttempts, Runs
  <1>2. CassetteIsTheLog' /\ ReplayFollowsCassette' /\ FinalIsLogged'
    BY DEF CassetteIsTheLog, ReplayFollowsCassette, FinalIsLogged
  <1> QED BY <1>1, <1>2

LEMMA StepKeeps == ReplayInv /\ [ReplayNext]_replayVars => ReplayInv'
  <1> SUFFICES ASSUME ReplayInv, [ReplayNext]_replayVars PROVE ReplayInv'
    OBVIOUS
  <1>1. CASE UNCHANGED replayVars
    BY <1>1
    DEF replayVars, ReplayInv, ReplayTypes, CountsFromZero, HandIsKeyed, CassetteIsTheLog,
        ReplayFollowsCassette, RecordsFirst, FinalIsLogged, Step
  <1>2. CASE ReplayNext
    BY <1>2, StopKeeps, CompleteKeeps, MissKeeps, ChargeKeeps, AppendKeeps, MessageKeeps,
       KillKeeps, ResumeKeeps, StartReplayKeeps
    DEF ReplayNext
  <1> QED BY <1>1, <1>2

LEMMA ReplayInvHolds == ReplaySpec => []ReplayInv
  BY InitHolds, StepKeeps, PTL DEF ReplaySpec

-----------------------------------------------------------------------------

\* Every message of the recorded run is in the cassette under its step, for
\* any kills between the reply, the cassette and the message (cassette.py
\* 194-205).
THEOREM CassetteHoldsTheLog == ReplaySpec => []CassetteIsTheLog
  <1>1. ReplayInv => CassetteIsTheLog
    BY DEF ReplayInv
  <1> QED BY <1>1, ReplayInvHolds, PTL

\* A replay says what the recording said, message by message, and one of a
\* finished recording misses nothing (llm.py's replay client).
THEOREM ReplayIsFaithful == ReplaySpec => []ReplayRepeats
  <1>1. ReplayInv => ReplayRepeats
    BY DEF ReplayInv, ReplayRepeats, CassetteIsTheLog, ReplayFollowsCassette
  <1> QED BY <1>1, ReplayInvHolds, PTL

-----------------------------------------------------------------------------
(***************************************************************************)
(* Proofs about MutationGate: a baseline that was refreshed from a clean   *)
(* cache is one run of the tests of the tree, and green hides no new blind *)
(* spot, for any mutants, suites, flaky verdicts, failures and edits.      *)
(*                                                                         *)
(* What carries both is that the table is about the tree while a run is    *)
(* under way (TableIsOfTree), and that a verdict in it is the right one    *)
(* unless the tests changed since (VerdictsAreRight): for the one a clean  *)
(* cache (CleanRunIsRight), for the other `stale`.                         *)
(***************************************************************************)

Conclusive == Decided \cup {"no tests"}
Statuses == Known \cup Flaky
Entries == [body : Bodies, status : Statuses]
AtWork == {"mutmut", "judge", "write"}

IsTable(t) == DOMAIN t \subseteq Mutants /\ t \in [DOMAIN t -> Entries]

GateTypes ==
    /\ DOMAIN code \subseteq Mutants /\ code \in [DOMAIN code -> Bodies]
    /\ mutantsDir # Nothing => IsTable(mutantsDir)
    /\ gate \in {"idle"} \cup AtWork
    /\ DOMAIN run = {"update", "incremental", "wider", "candidate"}
    /\ baseline \in {Nothing, Torn, frozen}

TableIsOfTree ==
    gate \in AtWork =>
        /\ mutantsDir # Nothing /\ DOMAIN mutantsDir = DOMAIN code
        /\ \A n \in DOMAIN code : mutantsDir[n].body = code[n]
        /\ unjudged \subseteq DOMAIN code

Right(e) == e.status \in Conclusive => e.status = Verdict(e.body)
AllRight == \A n \in DOMAIN mutantsDir : Right(mutantsDir[n])

VerdictsAreRight == mutantsDir # Nothing /\ ~stale => AllRight

CleanRunIsRight == gate \in AtWork /\ run.update /\ ~run.incremental => AllRight

CandidateIsTable ==
    gate = "write" =>
        /\ run.update
        /\ run.candidate.status = [n \in DOMAIN mutantsDir |-> mutantsDir[n].status]
        /\ \A n \in DOMAIN run.candidate.prints :
              n \in DOMAIN mutantsDir /\ run.candidate.prints[n] = mutantsDir[n].body

GateInv ==
    GateTypes /\ TableIsOfTree /\ VerdictsAreRight /\ CleanRunIsRight /\ CandidateIsTable

-----------------------------------------------------------------------------

LEMMA GateStarts == GateInit => GateInv
  BY DEF GateInit, GateInv, GateTypes, TableIsOfTree, VerdictsAreRight, CleanRunIsRight,
         CandidateIsTable, AtWork, NoRun

\* The tree changes between runs only; new tests make the verdicts stale.
LEMMA TreeKeeps ==
    ASSUME GateInv, (\E c \in Trees : EditCode(c)) \/ (\E s \in Suites : EditTests(s)) \/ Checkout
    PROVE  GateInv'
  <1>1. CASE \E c \in Trees : EditCode(c)
    <2>1. DOMAIN code' \subseteq Mutants /\ code' \in [DOMAIN code' -> Bodies]
      BY <1>1 DEF EditCode, Trees
    <2>2. /\ gate = "idle" /\ gate' = gate /\ mutantsDir' = mutantsDir /\ stale' = stale
          /\ tests' = tests /\ run' = run /\ baseline' = baseline /\ frozen' = frozen
      BY <1>1 DEF EditCode
    <2>3. GateTypes'
      BY <2>1, <2>2 DEF GateInv, GateTypes, IsTable
    <2>4. VerdictsAreRight'
      BY <2>2 DEF GateInv, VerdictsAreRight, AllRight, Right, Verdict
    <2>5. TableIsOfTree' /\ CleanRunIsRight' /\ CandidateIsTable'
      BY <2>2 DEF TableIsOfTree, CleanRunIsRight, CandidateIsTable, AtWork
    <2> QED BY <2>3, <2>4, <2>5 DEF GateInv
  <1>2. CASE \E s \in Suites : EditTests(s)
    BY <1>2
    DEF EditTests, GateInv, GateTypes, TableIsOfTree, VerdictsAreRight, CleanRunIsRight,
        CandidateIsTable, AtWork
  <1>3. CASE Checkout
    BY <1>3
    DEF Checkout, GateInv, GateTypes, TableIsOfTree, VerdictsAreRight, CleanRunIsRight,
        CandidateIsTable, AtWork
  <1> QED BY <1>1, <1>2, <1>3

\* Regenerating the table keeps the verdicts of functions that did not change.
LEMMA RegeneratedTable ==
    ASSUME GateTypes, NEW cache, cache # Nothing => IsTable(cache)
    PROVE  /\ IsTable(Regenerated(cache)) /\ Regenerated(cache) # Nothing
           /\ DOMAIN Regenerated(cache) = DOMAIN code
           /\ \A n \in DOMAIN code :
                 /\ Regenerated(cache)[n].body = code[n]
                 /\ \/ Regenerated(cache)[n].status = "not checked"
                    \/ cache # Nothing /\ n \in DOMAIN cache /\ Regenerated(cache)[n] = cache[n]
  <1> DEFINE T == Regenerated(cache)
  <1>1. DOMAIN T = DOMAIN code
    BY DEF Regenerated
  <1>2. \A n \in DOMAIN code :
            T[n] = IF cache # Nothing /\ n \in DOMAIN cache /\ cache[n].body = code[n]
                   THEN cache[n] ELSE [body |-> code[n], status |-> "not checked"]
    BY DEF Regenerated
  <1>3. \A n \in DOMAIN code :
            /\ T[n] \in Entries /\ T[n].body = code[n]
            /\ \/ T[n].status = "not checked"
               \/ cache # Nothing /\ n \in DOMAIN cache /\ T[n] = cache[n]
    <2> SUFFICES ASSUME NEW n \in DOMAIN code
                 PROVE  /\ T[n] \in Entries /\ T[n].body = code[n]
                        /\ \/ T[n].status = "not checked"
                           \/ cache # Nothing /\ n \in DOMAIN cache /\ T[n] = cache[n]
      OBVIOUS
    <2>1. CASE cache # Nothing /\ n \in DOMAIN cache /\ cache[n].body = code[n]
      <3>1. T[n] = cache[n]
        BY <1>2, <2>1
      <3>2. cache[n] \in Entries
        BY <2>1 DEF IsTable
      <3> QED BY <2>1, <3>1, <3>2
    <2>2. CASE ~(cache # Nothing /\ n \in DOMAIN cache /\ cache[n].body = code[n])
      <3>1. T[n] = [body |-> code[n], status |-> "not checked"]
        BY <1>2, <2>2
      <3>2. code[n] \in Bodies /\ "not checked" \in Statuses
        BY DEF GateTypes, Statuses, Known, Inconclusive
      <3> DEFINE e == [body |-> code[n], status |-> "not checked"]
      <3>3. e \in Entries /\ e.body = code[n] /\ e.status = "not checked"
        BY <3>2 DEF Entries
      <3>4. T[n] = e
        BY <3>1
      <3> HIDE DEF e, T
      <3> QED BY <3>3, <3>4
    <2> QED BY <2>1, <2>2
  <1>4. T = [n \in DOMAIN code |-> T[n]]
    BY DEF Regenerated
  <1>5. IsTable(T)
    BY <1>1, <1>3, <1>4 DEF IsTable, GateTypes
  <1>6. T # Nothing
    BY <1>1, GateAssumption DEF Nothing, GateTypes
  <1> QED BY <1>1, <1>3, <1>5, <1>6

LEMMA StartKeeps ==
    ASSUME GateInv, NEW update \in BOOLEAN, NEW incremental \in BOOLEAN, NEW wider \in BOOLEAN,
           NEW only \in SUBSET Mutants, Start(update, incremental, wider, only)
    PROVE  GateInv'
  <1> DEFINE r == [update |-> update, incremental |-> incremental, wider |-> wider,
                   candidate |-> Nothing]
             cache == CacheAtStart(r)
             table == Regenerated(cache)
  <1>1. /\ gate' = "mutmut" /\ code' = code /\ tests' = tests /\ run' = r /\ mutantsDir' = table
        /\ stale' = (stale /\ cache # Nothing) /\ unjudged' = ToJudge(table, only)
        /\ baseline' = baseline /\ frozen' = frozen /\ only \subseteq DOMAIN code
    BY DEF Start
  <1>2. cache = IF update /\ ~incremental THEN Nothing ELSE mutantsDir
    BY DEF CacheAtStart
  <1>3. cache # Nothing => cache = mutantsDir /\ IsTable(cache)
    BY <1>2 DEF GateInv, GateTypes
  <1>4. r.update = update /\ r.incremental = incremental
        /\ DOMAIN r = {"update", "incremental", "wider", "candidate"}
    OBVIOUS
  <1> HIDE DEF cache, r
  <1>5. /\ IsTable(table) /\ table # Nothing /\ DOMAIN table = DOMAIN code
        /\ \A n \in DOMAIN code :
              /\ table[n].body = code[n]
              /\ \/ table[n].status = "not checked"
                 \/ cache # Nothing /\ n \in DOMAIN cache /\ table[n] = cache[n]
    BY <1>3, RegeneratedTable DEF GateInv
  <1> HIDE DEF table
  <1>6. ToJudge(table, only) \subseteq DOMAIN code
    BY <1>1, <1>5 DEF ToJudge
  <1>7. cache = Nothing \/ (mutantsDir # Nothing /\ ~stale) =>
            \A n \in DOMAIN table : table[n].status \in Conclusive =>
                table[n].status = Verdict(table[n].body)
    <2>1. "not checked" \notin Conclusive
      BY DEF Conclusive, Decided
    <2> QED BY <1>3, <1>5, <2>1 DEF GateInv, VerdictsAreRight, AllRight, Right
  <1>8. (update /\ ~incremental) \/ ~stale' =>
            \A n \in DOMAIN table : table[n].status \in Conclusive =>
                table[n].status = Verdict(table[n].body)
    BY <1>1, <1>2, <1>3, <1>7
  <1>9. GateTypes'
    BY <1>1, <1>4, <1>5 DEF GateInv, GateTypes, AtWork, IsTable
  <1>10. TableIsOfTree'
    BY <1>1, <1>5, <1>6 DEF TableIsOfTree
  <1>11. VerdictsAreRight' /\ CleanRunIsRight'
    BY <1>1, <1>4, <1>8 DEF VerdictsAreRight, CleanRunIsRight, AllRight, Right, Verdict
  <1>12. CandidateIsTable'
    BY <1>1 DEF CandidateIsTable
  <1> QED BY <1>9, <1>10, <1>11, <1>12 DEF GateInv

\* What mutmut writes into the table is right or inconclusive.
LEMMA JudgedTable ==
    ASSUME GateInv, gate = "mutmut", NEW done, done \subseteq unjudged, NEW v \in Verdicts(done)
    PROVE  /\ IsTable(Judged(done, v)) /\ Judged(done, v) # Nothing
           /\ DOMAIN Judged(done, v) = DOMAIN code
           /\ \A n \in DOMAIN code :
                 /\ Judged(done, v)[n].body = code[n]
                 /\ Right(mutantsDir[n]) => Right(Judged(done, v)[n])
  <1> DEFINE J == Judged(done, v)
  <1>1. /\ IsTable(mutantsDir) /\ DOMAIN mutantsDir = DOMAIN code /\ done \subseteq DOMAIN code
        /\ \A n \in DOMAIN code : mutantsDir[n].body = code[n]
    BY DEF GateInv, GateTypes, TableIsOfTree, AtWork
  <1>2. DOMAIN J = DOMAIN code
    BY <1>1 DEF Judged
  <1>3. \A n \in DOMAIN code :
            J[n] = IF n \in done THEN [mutantsDir[n] EXCEPT !.status = v[n]] ELSE mutantsDir[n]
    BY <1>1 DEF Judged
  <1>4. \A n \in done : v[n] \in Statuses /\ v[n] \in Flaky \cup {Verdict(code[n])}
    BY DEF Verdicts, Statuses
  <1>5. \A e \in Entries, s \in Statuses :
            LET f == [e EXCEPT !.status = s] IN f \in Entries /\ f.body = e.body /\ f.status = s
    BY DEF Entries
  <1>6. \A n \in DOMAIN code : mutantsDir[n] \in Entries
    BY <1>1 DEF IsTable
  <1>7. \A n \in DOMAIN code :
            /\ J[n] \in Entries /\ J[n].body = code[n]
            /\ n \in done => J[n].status = v[n]
    <2> SUFFICES ASSUME NEW n \in DOMAIN code
                 PROVE  /\ J[n] \in Entries /\ J[n].body = code[n]
                        /\ n \in done => J[n].status = v[n]
      OBVIOUS
    <2>1. mutantsDir[n] \in Entries /\ mutantsDir[n].body = code[n]
      BY <1>1, <1>6
    <2>2. CASE n \in done
      <3>1. J[n] = [mutantsDir[n] EXCEPT !.status = v[n]] /\ v[n] \in Statuses
        BY <1>3, <1>4, <2>2
      <3> HIDE DEF J
      <3> QED BY <1>5, <2>1, <3>1
    <2>3. CASE n \notin done
      BY <1>3, <2>1, <2>3
    <2> QED BY <2>2, <2>3
  <1>8. J = [n \in DOMAIN code |-> J[n]]
    BY <1>1 DEF Judged
  <1>9. IsTable(J)
    BY <1>2, <1>7, <1>8 DEF IsTable, GateInv, GateTypes
  <1>10. J # Nothing
    BY <1>2, GateAssumption DEF Nothing, GateInv, GateTypes
  <1>11. ASSUME NEW n \in DOMAIN code, Right(mutantsDir[n])
         PROVE  Right(J[n])
    <2>1. CASE n \in done
      <3>1. J[n].body = code[n] /\ J[n].status \in Flaky \cup {Verdict(code[n])}
        BY <1>4, <1>7, <2>1
      <3>2. Flaky \cap Conclusive = {}
        BY GateAssumption DEF Conclusive
      <3> QED BY <3>1, <3>2 DEF Right
    <2>2. CASE n \notin done
      BY <1>3, <1>11, <2>2
    <2> QED BY <2>1, <2>2
  <1> QED BY <1>2, <1>7, <1>9, <1>10, <1>11

\* mutmut to its end, or to where it died.
LEMMA MutmutKeeps ==
    ASSUME GateInv, Mutmut \/ \E done \in SUBSET Mutants : MutmutFails(done)
    PROVE  GateInv'
  <1>1. PICK done \in SUBSET unjudged : \E v \in Verdicts(done) :
            /\ gate = "mutmut" /\ mutantsDir' = Judged(done, v)
            /\ unjudged' = {}
            /\ \/ gate' = "judge" /\ run' = run
               \/ gate' = "idle" /\ run' = NoRun
            /\ code' = code /\ tests' = tests /\ stale' = stale
            /\ baseline' = baseline /\ frozen' = frozen
    BY DEF Mutmut, MutmutFails
  <1>2. PICK v \in Verdicts(done) : mutantsDir' = Judged(done, v)
    BY <1>1
  <1>3. /\ IsTable(mutantsDir') /\ mutantsDir' # Nothing /\ DOMAIN mutantsDir' = DOMAIN code
        /\ \A n \in DOMAIN code :
              /\ mutantsDir'[n].body = code[n]
              /\ Right(mutantsDir[n]) => Right(mutantsDir'[n])
    BY <1>1, <1>2, JudgedTable
  <1>4. AllRight => AllRight'
    <2>1. DOMAIN mutantsDir = DOMAIN code
      BY <1>1 DEF GateInv, TableIsOfTree, AtWork
    <2>2. tests' = tests
      BY <1>1
    <2> QED BY <1>3, <2>1, <2>2 DEF AllRight, Right, Verdict
  <1>5. GateTypes'
    BY <1>1, <1>3 DEF GateInv, GateTypes, AtWork, NoRun, IsTable
  <1>6. TableIsOfTree'
    BY <1>1, <1>3 DEF TableIsOfTree, AtWork
  <1>7. VerdictsAreRight' /\ CleanRunIsRight'
    BY <1>1, <1>4 DEF GateInv, VerdictsAreRight, CleanRunIsRight, TableIsOfTree, AtWork
  <1>8. CandidateIsTable'
    BY <1>1 DEF CandidateIsTable
  <1> QED BY <1>5, <1>6, <1>7, <1>8 DEF GateInv

LEMMA EndKeeps ==
    ASSUME GateInv, RunFails \/ (\E u \in SUBSET Mutants : JudgeRun(u)) \/ WriteBaseline
    PROVE  GateInv'
  <1>1. /\ gate' = "idle" /\ run' = NoRun /\ mutantsDir' = mutantsDir /\ code' = code
        /\ stale' = stale /\ tests' = tests
        /\ \/ baseline' = baseline /\ frozen' = frozen
           \/ baseline' = frozen'
    BY DEF RunFails, JudgeRun, WriteBaseline
  <1> QED
    BY <1>1
    DEF GateInv, GateTypes, TableIsOfTree, VerdictsAreRight, CleanRunIsRight, CandidateIsTable,
        AtWork, NoRun, AllRight, Right, Verdict, IsTable

\* What a refresh is about to write is the table.
LEMMA RefreshKeeps ==
    ASSUME GateInv, NEW u \in SUBSET Mutants, RefreshBaseline(u)
    PROVE  GateInv'
  <1> DEFINE now == mutation_summary(u)
  <1>1. /\ gate = "judge" /\ run.update /\ mutantsDir' = mutantsDir /\ code' = code
        /\ stale' = stale /\ tests' = tests /\ frozen' = frozen /\ unjudged' = unjudged
        /\ \/ gate' = "idle" /\ run' = NoRun /\ baseline' = baseline
           \/ gate' = "write" /\ run' = [run EXCEPT !.candidate = now] /\ baseline' = Torn
    BY DEF RefreshBaseline
  <1>2. /\ now.status = [n \in DOMAIN mutantsDir |-> mutantsDir[n].status]
        /\ \A n \in DOMAIN now.prints :
              n \in DOMAIN mutantsDir /\ now.prints[n] = mutantsDir[n].body
    BY DEF mutation_summary
  <1> HIDE DEF now
  <1>3. /\ DOMAIN run' = {"update", "incremental", "wider", "candidate"}
        /\ gate' = "write" =>
              /\ run'.update = run.update /\ run'.incremental = run.incremental
              /\ run'.candidate = now
    BY <1>1 DEF GateInv, GateTypes, NoRun
  <1>4. GateTypes'
    BY <1>1, <1>3 DEF GateInv, GateTypes, AtWork, IsTable
  <1>5. TableIsOfTree'
    BY <1>1 DEF GateInv, TableIsOfTree, AtWork
  <1>6. AllRight' <=> AllRight
    BY <1>1 DEF AllRight, Right, Verdict
  <1>7. VerdictsAreRight'
    BY <1>1, <1>6 DEF GateInv, VerdictsAreRight
  <1>8. CleanRunIsRight'
    BY <1>1, <1>3, <1>6 DEF GateInv, CleanRunIsRight, AtWork
  <1>9. CandidateIsTable'
    BY <1>1, <1>2, <1>3 DEF CandidateIsTable
  <1> QED BY <1>4, <1>5, <1>7, <1>8, <1>9 DEF GateInv

LEMMA GateStepKeeps == GateInv /\ [GateNext]_gateVars => GateInv'
  <1> SUFFICES ASSUME GateInv, [GateNext]_gateVars PROVE GateInv'
    OBVIOUS
  <1>1. CASE UNCHANGED gateVars
    BY <1>1
    DEF gateVars, GateInv, GateTypes, TableIsOfTree, VerdictsAreRight, CleanRunIsRight,
        CandidateIsTable, AllRight, Right, Verdict, IsTable
  <1>2. CASE GateNext
    BY <1>2, TreeKeeps, StartKeeps, MutmutKeeps, EndKeeps, RefreshKeeps DEF GateNext
  <1> QED BY <1>1, <1>2

LEMMA GateInvHolds == GateSpec => []GateInv
  BY GateStarts, GateStepKeeps, PTL DEF GateSpec

-----------------------------------------------------------------------------

\* A baseline frozen without --allow-incremental-refresh says of the mutants
\* of the tree what the tests of the tree say, whatever was killed, filtered
\* or outdated before it (baseline.py 84-95).
THEOREM CleanBaselines == GateSpec => BaselineIsOneRun
  <1>1. ASSUME GateInv, WriteBaseline, ~run.incremental
        PROVE  /\ DOMAIN baseline'.status = DOMAIN code
               /\ \A n \in Having(baseline'.status, Decided \cup {"no tests"}) :
                     baseline'.status[n] = Verdict(code[n])
               /\ \A n \in DOMAIN baseline'.prints : baseline'.prints[n] = code[n]
    <2>1. /\ gate = "write" /\ baseline' = run.candidate /\ run.update
          /\ run.candidate.status = [n \in DOMAIN mutantsDir |-> mutantsDir[n].status]
          /\ \A n \in DOMAIN run.candidate.prints :
                n \in DOMAIN mutantsDir /\ run.candidate.prints[n] = mutantsDir[n].body
      BY <1>1 DEF GateInv, CandidateIsTable, WriteBaseline
    <2>2. /\ DOMAIN mutantsDir = DOMAIN code
          /\ \A n \in DOMAIN code : mutantsDir[n].body = code[n]
          /\ AllRight
      BY <1>1, <2>1 DEF GateInv, TableIsOfTree, CleanRunIsRight, AtWork
    <2> QED BY <2>1, <2>2 DEF Having, AllRight, Right, Conclusive
  <1>2. GateInv /\ [GateNext]_gateVars =>
            [WriteBaseline /\ ~run.incremental
              => /\ DOMAIN baseline'.status = DOMAIN code
                 /\ \A n \in Having(baseline'.status, Decided \cup {"no tests"}) :
                       baseline'.status[n] = Verdict(code[n])
                 /\ \A n \in DOMAIN baseline'.prints : baseline'.prints[n] = code[n]]_gateVars
    BY <1>1
  <1> QED BY <1>2, GateInvHolds, PTL DEF GateSpec, BaselineIsOneRun

\* Green means that every mutant the baseline saw killed is there and killed,
\* and that the baseline knew of whatever the tests do not kill, unless the
\* verdicts are of older tests (gate.py).
THEOREM NoNewBlindSpots == GateSpec => GreenMeansNoNewBlindSpot
  <1> DEFINE Known0(n) == n \in Having(StatusOf(frozen), OtherThan({"killed"}))
  <1>1. ASSUME GateInv, GateNext, verdict # "green", verdict' = "green", ~stale
        PROVE  /\ \A n \in Having(StatusOf(frozen), {"killed"}) :
                     n \in DOMAIN code /\ code[n] \in tests.kills
               /\ \A n \in DOMAIN code : code[n] \notin tests.kills => Known0(n)
    <2>1. PICK u \in SUBSET Mutants : JudgeRun(u)
      BY <1>1
      DEF GateNext, EditCode, EditTests, Checkout, Start, Mutmut, MutmutFails, RunFails,
          RefreshBaseline, WriteBaseline
    <2> DEFINE now == mutation_summary(u)
               new == now.status
               old == StatusOf(baseline)
    <2>2. gate = "judge" /\ Green(now, baseline)
      BY <1>1, <2>1 DEF JudgeRun
    <2>3. old = StatusOf(frozen)
      BY <1>1, <2>2 DEF Green, StatusOf, GateInv, GateTypes
    <2>4. /\ DOMAIN new = DOMAIN code
          /\ \A n \in DOMAIN code :
                /\ new[n] \in Statuses
                /\ new[n] \in Conclusive => new[n] = Verdict(code[n])
      <3>1. /\ IsTable(mutantsDir) /\ DOMAIN mutantsDir = DOMAIN code /\ AllRight
            /\ \A n \in DOMAIN code : mutantsDir[n].body = code[n]
        BY <1>1, <2>2 DEF GateInv, GateTypes, TableIsOfTree, VerdictsAreRight, AtWork
      <3>2. \A n \in DOMAIN code : mutantsDir[n].status \in Statuses
        BY <3>1 DEF IsTable, Entries
      <3>3. new = [n \in DOMAIN code |-> mutantsDir[n].status]
        BY <3>1 DEF mutation_summary
      <3> QED BY <3>1, <3>2, <3>3 DEF AllRight, Right
    <2>5. /\ Grown(new, old, {"survived"}) = {} /\ Grown(new, old, {"no tests"}) = {}
          /\ Having(old, Decided) \cap Having(new, OtherThan(Decided)) = {}
          /\ Lost(new, old) = {}
          /\ Having(new, OtherThan(Conclusive)) \ Having(old, Inconclusive) = {}
      BY <2>2 DEF Green, Conclusive
    <2> HIDE DEF now, new, old
    <2>6. \A n : Verdict(code[n]) = "killed" <=> code[n] \in tests.kills
      BY DEF Verdict
    <2>7. ASSUME NEW n \in Having(old, {"killed"})
          PROVE  n \in DOMAIN code /\ code[n] \in tests.kills
      <3>1. n \in DOMAIN old /\ old[n] = "killed"
        BY DEF Having
      <3>2. n \in DOMAIN code
        BY <2>4, <2>5, <3>1 DEF Lost
      <3>3. new[n] \in Decided
        BY <2>4, <2>5, <3>1, <3>2 DEF Having, OtherThan, Statuses, Decided
      <3>4. new[n] # "survived"
        BY <2>4, <2>5, <3>1, <3>2 DEF Grown, Having
      <3> QED BY <2>4, <2>6, <3>2, <3>3, <3>4 DEF Decided, Conclusive
    <2>8. ASSUME NEW n \in DOMAIN code, code[n] \notin tests.kills
          PROVE  n \in Having(old, OtherThan({"killed"}))
      <3>1. new[n] \in Statuses /\ new[n] # "killed"
        BY <2>4, <2>6, <2>8 DEF Conclusive, Decided
      <3>2. CASE new[n] \in {"survived", "no tests"}
        BY <2>4, <2>5, <3>2 DEF Grown, Having, OtherThan, Known, Decided
      <3>3. CASE new[n] \notin {"survived", "no tests"}
        <4>1. n \in Having(new, OtherThan(Conclusive))
          BY <2>4, <3>1, <3>3 DEF Having, OtherThan, Statuses, Conclusive, Decided
        <4>2. n \in Having(old, Inconclusive)
          BY <2>5, <4>1
        <4> QED BY <4>2 DEF Having, OtherThan, Known, Inconclusive
      <3> QED BY <3>2, <3>3
    <2> QED BY <2>3, <2>7, <2>8
  <1>2. GateInv /\ [GateNext]_gateVars =>
            [verdict # "green" /\ verdict' = "green" /\ ~stale
              => /\ \A n \in Having(StatusOf(frozen), {"killed"}) :
                       n \in DOMAIN code /\ code[n] \in tests.kills
                 /\ \A n \in DOMAIN code : code[n] \notin tests.kills => Known0(n)]_gateVars
    BY <1>1
  <1> QED BY <1>2, GateInvHolds, PTL DEF GateSpec, GreenMeansNoNewBlindSpot
=============================================================================
