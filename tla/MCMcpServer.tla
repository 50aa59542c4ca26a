---------------------------- MODULE MCMcpServer -----------------------------
(***************************************************************************)
(* Instances of the governed tool server.  The tools stand for the kinds   *)
(* the registry of fakeworld/tools.py has: "scale" needs approval and can  *)
(* be probed, "blind" is the same without a probe, "note" is an idempotent *)
(* write and "look" a read that need no approval, "ghost" is not           *)
(* registered; "direct" is a non-idempotent write without an approval gate.*)
(***************************************************************************)
EXTENDS McpProperties, ArgPolicy

EffectOf == [scale |-> "write_nonidempotent", blind |-> "write_nonidempotent",
             note |-> "write_idempotent", look |-> "read", direct |-> "write_nonidempotent"]

EffectFor == [t \in Registered |-> EffectOf[t]]

PermitAll == [t \in Registered |-> Args]

\* One field with an interval, as scale_pool has it; what "a2" puts there is
\* True, a number in the interval for the language and none for the policy.
SizePolicy == [allowed |-> {}, forbidden |-> {}, min |-> {1}, max |-> {512}]
SizeIn == [a1 |-> Value("number", 32), a2 |-> Value("bool", 1), a3 |-> Value("number", 64)]

PermitTwo == [t \in Registered |-> {a \in Args : evaluate(SizePolicy, {SizeIn[a]})}]

\* Policies and fields to compare evaluate on.
Values == {Value("bool", 1), Value("number", 1), Value("number", 2)}
Optional(S) == {{}} \cup {{x} : x \in S}
Policies ==
    {p \in [allowed : Optional(SUBSET Values), forbidden : Optional(SUBSET Values),
            min : Optional(0..3), max : Optional(0..3)] : IsPolicy(p)}
Admitted(p) == {f \in Optional(Values) : evaluate(p, f)}

\* A policy that says more lets no more through, a value that is forbidden never
\* passes, one of another type is in no interval, and only what forbids and
\* does no more passes a call without the field (tools.py:118).
ASSUME PolicyIsADomain ==
    \A p \in Policies :
        /\ \A c \in DOMAIN p :
              LET less == [p EXCEPT ![c] = {}]
              IN  IsPolicy(less) => Admitted(p) \subseteq Admitted(less)
        /\ \A v \in UNION p.forbidden : {v} \notin Admitted(p)
        /\ {Value("bool", 1)} \in Admitted(p) => p.min \cup p.max = {}
        /\ {} \in Admitted(p) <=> p.allowed = {} /\ p.min \cup p.max = {}

NoTamper == [a \in Args |-> a]
TamperSome == [a \in Args |-> CASE a = "a1" -> "a2" [] a = "a2" -> "a1" [] OTHER -> a]
=============================================================================
