--------------------------- MODULE RunnerContract ---------------------------
(***************************************************************************)
(* What AgentService may rely on when it calls an AgentRunner for one      *)
(* Agent, whichever runner it is: one turn at a time, and a turn that was  *)
(* asked to stop ends as cancelled and in no other way.                    *)
(*                                                                         *)
(* CodexRunner and ContainerRunner implement this specification, and       *)
(* AgentLifecycle's SpawnProcess, ProcessExits and OutcomesOf are it.      *)
(***************************************************************************)
CONSTANT Turns         \* the calls of run()

VARIABLES
    outcome,           \* "idle", "running", or how run() returned
    asked              \* the turns cancel() was called for

vars == <<outcome, asked>>

Own == {"completed", "blocked", "failed"}

Init ==
    /\ outcome = [t \in Turns |-> "idle"]
    /\ asked = {}

Start(t) ==
    /\ outcome[t] = "idle"
    /\ \A u \in Turns : outcome[u] # "running"
    /\ outcome' = [outcome EXCEPT ![t] = "running"]
    /\ UNCHANGED asked

\* The Agent has a turn already, or the process cannot be started.
Refuse(t) ==
    /\ outcome[t] = "idle"
    /\ outcome' = [outcome EXCEPT ![t] = "failed"]
    /\ UNCHANGED asked

Ask(t) ==
    /\ outcome[t] = "running"
    /\ asked' = asked \cup {t}
    /\ UNCHANGED outcome

End(t) ==
    /\ outcome[t] = "running"
    /\ \E how \in IF t \in asked THEN {"cancelled"} ELSE Own :
          outcome' = [outcome EXCEPT ![t] = how]
    /\ UNCHANGED asked

Next == \E t \in Turns : Start(t) \/ Refuse(t) \/ Ask(t) \/ End(t)

Spec == Init /\ [][Next]_vars
=============================================================================
