---------------------------- MODULE ModelReplay ----------------------------
(***************************************************************************)
(* Recording the replies of a model and replaying them: CassetteStore of   *)
(* src/harness/cassette.py and the two clients of llm.py, as the loop      *)
(* drives them.  One run is recorded, a second run in a directory of its   *)
(* own is replayed from the cassette.  Each may be killed between any two  *)
(* durable writes: the charge in the log, the cassette file, the message.  *)
(*                                                                         *)
(* A reply is what was said, whether it ended the run, and its price.  The *)
(* live model is asked anew after a kill and need not repeat itself.  A    *)
(* request that overflows the window raises before its attempt is counted, *)
(* so it is not part of a key and is left out.                             *)
(***************************************************************************)
EXTENDS Naturals, Sequences, FiniteSets

CONSTANTS
    Texts,         \* what a model may say
    Prices,        \* what a reply may cost
    BudgetOfRun,   \* total_usd of either run
    MaxReplies,    \* max_steps of the loop
    MaxReplayKills \* bound on kills, of the recording and of the replay each

ASSUME ReplayAssumption ==
    /\ Prices \subseteq Nat
    /\ BudgetOfRun \in Nat /\ MaxReplies \in Nat /\ MaxReplayKills \in Nat

VARIABLES
    mode,      \* which run is driven: "record", then "replay"
    logs,      \* the messages of each run (durable)
    charged,   \* the sum of its budget_update events (durable)
    outcome,   \* "open", or how its log ended (durable)
    cassette,  \* replies by key (durable)
    at,        \* where the process is
    reply,     \* the reply in hand
    attempts,  \* calls of this process by step
    missed,    \* a replay raised CassetteError
    killed     \* kills of each run

replayVars == <<mode, logs, charged, outcome, cassette, at, reply, attempts, missed, killed>>

Runs == {"record", "replay"}
Replies == [text : Texts, final : BOOLEAN, price : Prices]
Keys == (0..MaxReplies) \X (0..MaxReplies)
NoReply == [text |-> "", final |-> FALSE, price |-> 0]
NoAttempts == [s \in 0..MaxReplies |-> 0]

ReplayInit ==
    /\ mode = "record"
    /\ logs = [r \in Runs |-> <<>>]
    /\ charged = [r \in Runs |-> 0]
    /\ outcome = [r \in Runs |-> "open"]
    /\ cassette = [k \in {} |-> NoReply]
    /\ at = "turn"
    /\ reply = NoReply
    /\ attempts = NoAttempts
    /\ missed = FALSE
    /\ killed = [r \in Runs |-> 0]

-----------------------------------------------------------------------------
(* Slip: the step counts the requests of this process, which after a kill  *)
(* are fewer than the messages in the log.                                 *)
StepOfProcess ==
    LET asked == Cardinality({s \in DOMAIN attempts : attempts[s] > 0})
    IN  IF at = "turn" THEN asked ELSE asked - 1

(* The step is the number of messages in the log. *)
Step == Len(logs[mode])

Attempt == attempts[Step]
Key == <<Step, Attempt>>

(* BudgetLedger.check. *)
WithinBudget(spent) == spent < BudgetOfRun

find(k) == IF k \in DOMAIN cassette THEN {cassette[k]} ELSE {}

(* Slip: an entry that is there is kept. *)
WithFirst(k, r) == [x \in DOMAIN cassette \union {k} |-> IF x \in DOMAIN cassette THEN cassette[x] ELSE r]

(* CassetteStore.append: an entry of the same key is replaced. *)
With(k, r) == [x \in DOMAIN cassette \union {k} |-> IF x = k THEN r ELSE cassette[x]]

(* The head of a turn, and a request refused by the budget. *)
StopOverBudget ==
    /\ at = "turn" /\ outcome[mode] = "open"
    /\ Len(logs[mode]) < MaxReplies
    /\ ~WithinBudget(charged[mode])
    /\ outcome' = [outcome EXCEPT ![mode] = "budget"]
    /\ UNCHANGED <<mode, logs, charged, cassette, at, reply, attempts, missed, killed>>

(* complete of either client up to its charge. *)
complete ==
    /\ at = "turn" /\ outcome[mode] = "open"
    /\ Len(logs[mode]) < MaxReplies
    /\ WithinBudget(charged[mode])
    /\ \E r \in IF mode = "record" THEN Replies ELSE find(Key) :
            reply' = r
    /\ attempts' = [attempts EXCEPT ![Step] = @ + 1]
    /\ at' = "charge"
    /\ UNCHANGED <<mode, logs, charged, outcome, cassette, missed, killed>>

(* CassetteError leaves the loop as it is; the run stays open. *)
Miss ==
    /\ at = "turn" /\ outcome[mode] = "open"
    /\ mode = "replay"
    /\ Len(logs[mode]) < MaxReplies
    /\ WithinBudget(charged[mode])
    /\ find(Key) = {}
    /\ missed' = TRUE
    /\ at' = "down"
    /\ UNCHANGED <<mode, logs, charged, outcome, cassette, reply, attempts, killed>>

AfterCharge == IF mode = "record" THEN "store" ELSE "append"

(* charge, then enforce_after_charge: over the limit the reply is thrown   *)
(* away before it is recorded.                                             *)
charge ==
    /\ at = "charge"
    /\ charged' = [charged EXCEPT ![mode] = @ + reply.price]
    /\ at' = IF WithinBudget(charged'[mode]) THEN AfterCharge ELSE "turn"
    /\ UNCHANGED <<mode, logs, outcome, cassette, reply, attempts, missed, killed>>

(* The file is replaced in one step. *)
append ==
    /\ at = "store"
    /\ cassette' = With(<<Step, Attempt - 1>>, reply)
    /\ at' = "append"
    /\ UNCHANGED <<mode, logs, charged, outcome, reply, attempts, missed, killed>>

_append_agent_message ==
    /\ at = "append"
    /\ logs' = [logs EXCEPT ![mode] = Append(@, reply)]
    /\ outcome' = [outcome EXCEPT ![mode] = IF reply.final THEN "final" ELSE @]
    /\ at' = "turn"
    /\ reply' = NoReply
    /\ UNCHANGED <<mode, charged, cassette, attempts, missed, killed>>

KillRun ==
    /\ at # "down"
    /\ killed[mode] < MaxReplayKills
    /\ killed' = [killed EXCEPT ![mode] = @ + 1]
    /\ at' = "down"
    /\ reply' = NoReply
    /\ UNCHANGED <<mode, logs, charged, outcome, cassette, attempts, missed>>

(* A process starts with no attempts; a replay reads the cassette, and     *)
(* there is nothing to read before the first reply was recorded.           *)
ResumeRun ==
    /\ at = "down"
    /\ at' = "turn"
    /\ attempts' = NoAttempts
    /\ UNCHANGED <<mode, logs, charged, outcome, cassette, reply, missed, killed>>

StartReplay ==
    /\ mode = "record" /\ at \in {"turn", "down"}
    /\ DOMAIN cassette # {}
    /\ mode' = "replay"
    /\ at' = "turn"
    /\ attempts' = NoAttempts
    /\ UNCHANGED <<logs, charged, outcome, cassette, reply, missed, killed>>

ReplayNext ==
    \/ StopOverBudget \/ complete \/ Miss \/ charge \/ append
    \/ _append_agent_message \/ KillRun \/ ResumeRun \/ StartReplay

ReplaySpec == ReplayInit /\ [][ReplayNext]_replayVars

-----------------------------------------------------------------------------
(* Every message of the recorded run is in the cassette under its step,    *)
(* with kills between the reply, the cassette and the message: the key     *)
(* does not drift, and a reply that was lost is replaced (cassette.py      *)
(* 15-22, 194-205).                                                        *)
CassetteIsTheLog ==
    \A i \in DOMAIN logs["record"] :
        /\ <<i - 1, 0>> \in DOMAIN cassette
        /\ cassette[<<i - 1, 0>>] = logs["record"][i]

(* A replay says what the recording said, message by message, and one of a *)
(* recording that came to its final message misses nothing.                *)
ReplayRepeats ==
    /\ \A i \in DOMAIN logs["replay"] \intersect DOMAIN logs["record"] :
          logs["replay"][i] = logs["record"][i]
    /\ missed => outcome["record"] # "final"

=============================================================================
