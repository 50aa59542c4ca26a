---------------------------- MODULE MCAgentLoop -----------------------------
(***************************************************************************)
(* Instances of the agent loop, over the tools of MCMcpServer.             *)
(***************************************************************************)
EXTENDS LoopProperties

EffectOf == [scale |-> "write_nonidempotent", blind |-> "write_nonidempotent",
             note |-> "write_idempotent", look |-> "read", direct |-> "write_nonidempotent"]

EffectFor == [t \in Registered |-> EffectOf[t]]

PermitAll == [t \in Registered |-> Args]

NoTamper == [a \in Args |-> a]
=============================================================================
