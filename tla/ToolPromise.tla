----------------------------- MODULE ToolPromise ----------------------------
(***************************************************************************)
(* What the executor promises about a call, with no log, no rows and no    *)
(* crashes: a call is recorded once, takes effect while it is open, and is *)
(* concluded once, with a conclusion that does not contradict what         *)
(* happened outside (docs/semantics.md, sections 1, 2.5 and 4.1).          *)
(*                                                                         *)
(* How much a conclusion may promise depends on the kind of the call:      *)
(*   inert         a read, or a tool nobody registered: no effect          *)
(*   deduplicated  the tool removes repetitions by key: one effect at most *)
(*   guarded       a non-idempotent write behind an intent row: one effect *)
(*                 at most, and a refusal means there was none             *)
(*   bare          a non-idempotent write with the outbox switched off     *)
(***************************************************************************)
EXTENDS Naturals

CONSTANT Calls

Kinds == {"none", "inert", "deduplicated", "guarded", "bare"}
Verdicts == {"absent", "open", "executed", "failed", "unknown", "rejected", "superseded"}

VARIABLES
    verdict,  \* [Calls -> Verdicts]
    kind,     \* [Calls -> Kinds]
    applied   \* [Calls -> Nat], effects under the call's key

promise == <<verdict, kind, applied>>

Init ==
    /\ verdict = [c \in Calls |-> "absent"]
    /\ kind = [c \in Calls |-> "none"]
    /\ applied = [c \in Calls |-> 0]

Record(c, k) ==
    /\ verdict[c] = "absent"
    /\ verdict' = [verdict EXCEPT ![c] = "open"]
    /\ kind' = [kind EXCEPT ![c] = k]
    /\ UNCHANGED applied

Apply(c) ==
    /\ verdict[c] = "open"
    /\ kind[c] # "inert"
    /\ kind[c] \in {"guarded", "deduplicated"} => applied[c] = 0
    /\ applied' = [applied EXCEPT ![c] = @ + 1]
    /\ UNCHANGED <<verdict, kind>>

Truthful(c, s) ==
    /\ s = "executed" => kind[c] = "inert" \/ applied[c] > 0
    /\ s \in {"rejected", "superseded"} /\ kind[c] = "guarded" => applied[c] = 0
    /\ s = "failed" => kind[c] # "guarded"

Conclude(c, s) ==
    /\ verdict[c] = "open"
    /\ Truthful(c, s)
    /\ verdict' = [verdict EXCEPT ![c] = s]
    /\ UNCHANGED <<kind, applied>>

Next ==
    \E c \in Calls :
        \/ \E k \in Kinds \ {"none"} : Record(c, k)
        \/ Apply(c)
        \/ \E s \in Verdicts \ {"absent", "open"} : Conclude(c, s)

Spec == Init /\ [][Next]_promise
=============================================================================
