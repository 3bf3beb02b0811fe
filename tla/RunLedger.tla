----------------------------- MODULE RunLedger -----------------------------
(***************************************************************************)
(* What a client of the API may rely on about Runs and their messages,     *)
(* whatever happens inside the server: a Run is admitted once with its     *)
(* user message, moves forward only, ends once, has an assistant message   *)
(* exactly when it completed, and disappears only with its Agent.          *)
(*                                                                         *)
(* AgentLifecycle implements this specification (AgentLifecycle!Ledger).   *)
(***************************************************************************)
CONSTANTS
    Agents,
    Runs,
    AgentOf            \* [Runs -> Agents]

VARIABLES
    run,               \* the status of each Run row, "none" before it exists
    messages           \* <<run, role>> of the message rows

vars == <<run, messages>>

Active == {"queued", "running"}
Unfinished == {"failed", "blocked", "cancelled"}

Init ==
    /\ run = [u \in Runs |-> "none"]
    /\ messages = {}

Admit(u) ==
    /\ run[u] = "none"
    /\ run' = [run EXCEPT ![u] = "queued"]
    /\ messages' = messages \cup {<<u, "user">>}

Begin(u) ==
    /\ run[u] = "queued"
    /\ run' = [run EXCEPT ![u] = "running"]
    /\ UNCHANGED messages

Complete(u) ==
    /\ run[u] = "running"
    /\ run' = [run EXCEPT ![u] = "completed"]
    /\ messages' = messages \cup {<<u, "assistant">>}

End(u) ==
    /\ run[u] = "running"
    /\ \E s \in Unfinished : run' = [run EXCEPT ![u] = s]
    /\ UNCHANGED messages

\* A restart ends every Run that was under way.
Interrupt ==
    /\ run' = [u \in Runs |-> IF run[u] \in Active THEN "cancelled" ELSE run[u]]
    /\ UNCHANGED messages

\* Deleting an Agent deletes its Runs and messages with it.
Purge(a) ==
    /\ run' = [u \in Runs |-> IF AgentOf[u] = a /\ run[u] # "none"
                                THEN "deleted" ELSE run[u]]
    /\ messages' = {m \in messages : AgentOf[m[1]] # a}

Next ==
    \/ \E u \in Runs : Admit(u) \/ Begin(u) \/ Complete(u) \/ End(u)
    \/ \E a \in Agents : Purge(a)
    \/ Interrupt

Spec == Init /\ [][Next]_vars
=============================================================================
