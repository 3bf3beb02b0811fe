-------------------------- MODULE MCAgentLifecycle --------------------------
(***************************************************************************)
(* Instances of AgentLifecycle: a configuration names the requests that    *)
(* clients make, and this module says what each of them asks for.          *)
(***************************************************************************)
EXTENDS AgentLifecycle

CONSTANTS a1, a2       \* the Agents: a1 is there from the start

MCOp == [r \in Requests |->
    CASE r \in {"send1", "send2"}       -> "send"
      [] r = "stop1"                    -> "stop"
      [] r = "start1"                   -> "start"
      [] r \in {"update1", "update2"}   -> "update"
      [] r = "guardrail1"               -> "guardrail"
      [] r = "delete1"                  -> "delete"
      [] r = "createNew"                -> "create"]

MCTarget == [r \in Requests |-> IF r = "createNew" THEN a2 ELSE a1]

OneAgent == {a1}
TwoAgents == {a1, a2}
=============================================================================
