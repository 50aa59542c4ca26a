------------------------------ MODULE ArgPolicy -------------------------------
(***************************************************************************)
(* The domain a tool declares for one field of its arguments               *)
(* (ArgPolicy of harness/tools.py).  Anything optional is a set of at most *)
(* one element: a constraint that is not declared, a field that is not     *)
(* there.  A value has a type besides what it compares equal to, since     *)
(* True = 1 for the language and not for a policy.                         *)
(***************************************************************************)
EXTENDS Integers

Value(type, n) == [type |-> type, n |-> n]

\* _validate_definition: something is declared, and an interval is one.
IsPolicy(p) ==
    /\ \E c \in DOMAIN p : p[c] # {}
    /\ \A low \in p.min, high \in p.max : low <= high

\* A boolean is equal to booleans only.
_matches(value, candidates) ==
    \E c \in candidates : c.n = value.n /\ (c.type = "bool" <=> value.type = "bool")

\* A field that is missing passes where values are forbidden, and only there.
evaluate(p, field) ==
    /\ \A values \in p.forbidden : ~\E v \in field : _matches(v, values)
    /\ \A values \in p.allowed : \E v \in field : _matches(v, values)
    /\ p.min \cup p.max # {} =>
          \E v \in field : /\ v.type = "number"
                           /\ \A low \in p.min : v.n >= low
                           /\ \A high \in p.max : v.n <= high
=============================================================================
