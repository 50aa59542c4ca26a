-------------------------------- MODULE Oracle --------------------------------
(***************************************************************************)
(* The judge of the experiments (opsenv/oracle.py): what it finds in the   *)
(* log, the rows of tool_calls and the ledger of the world that a run left *)
(* behind.  It reads copies of the files, so it may come at any time.      *)
(*                                                                         *)
(* check_no_tamper reads the events table and is in StoreProperties.  The  *)
(* driver of experiments/chaos_fuzz.py that restarts a killed run is here  *)
(* too: the same log tells it what to start next, and when to stop.        *)
(***************************************************************************)
EXTENDS EventLog

LEGAL_TERMINAL_STATUSES == {"completed", "failed", "waiting_human"}
CLOSED_ROW_STATUSES == {"executed", "failed"}

\* Rows that are closed and have no tool_result.  A result without its row is
\* what a kill between the two leaves, and no finding.
check_closed_calls(l, row) ==
    {c \in DOMAIN row : /\ row[c].status \in CLOSED_ROW_STATUSES
                        /\ ~\E i \in 1..Len(l) : IsResult(l, i, c)}

\* Keys with several effects, unless the one row of the key owns up to it.
check_effect_accounting(ledger, row) ==
    {c \in DOMAIN ledger : Len(ledger[c]) > 1 /\ row[c].status # "unknown"}

check_termination(status) == {status} \ LEGAL_TERMINAL_STATUSES

\* The calls two of the judges find at fault, whatever stage the run is in.
Flagged(l, row, ledger) == check_closed_calls(l, row) \cup check_effect_accounting(ledger, row)

\* audit_run of a run that was driven to its end.
audit_run(l, row, ledger) == Flagged(l, row, ledger) = {} /\ check_termination(RunStatus(l)) = {}

-----------------------------------------------------------------------------
(* The driver *)

\* Of a run directory with or without its ids.json.
current_status(known, l) == IF known THEN RunStatus(l) ELSE "unknown"

\* The process drive_to_terminal starts next.  It approves on "waiting_human"
\* only after it has stopped on it, so it never approves.
drive_to_terminal(status) ==
    CASE status = "unknown" -> "run"
      [] status \in LEGAL_TERMINAL_STATUSES -> "stop"
      [] OTHER -> "resume"
=============================================================================
