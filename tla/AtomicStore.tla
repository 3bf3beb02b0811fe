---------------------------- MODULE AtomicStore ----------------------------
(***************************************************************************)
(* What the rest of the server may rely on when it calls                   *)
(* JsonStore.mutate: the database is a log of mutations, one mutation is   *)
(* committed at a time, a caller is told "done" only about a mutation      *)
(* that is in the log and "failed" only about one that is not, and a crash *)
(* leaves every unanswered caller not knowing which.                       *)
(*                                                                         *)
(* JsonStore implements this specification (JsonStore!Abstract).           *)
(***************************************************************************)
EXTENDS Sequences, Naturals

CONSTANT Ops           \* the mutations callers submit, each at most once

VARIABLES
    log,               \* the committed mutations, in commit order
    outcome            \* what the caller of each mutation knows

vars == <<log, outcome>>

Outcomes == {"idle", "pending", "done", "failed", "lost"}

Committed(o) == \E i \in DOMAIN log : log[i] = o

Init ==
    /\ log = <<>>
    /\ outcome = [o \in Ops |-> "idle"]

Request(o) ==
    /\ outcome[o] = "idle"
    /\ outcome' = [outcome EXCEPT ![o] = "pending"]
    /\ UNCHANGED log

\* A mutation takes effect for good at one instant, before its caller knows.
Commit(o) ==
    /\ outcome[o] = "pending"
    /\ ~Committed(o)
    /\ log' = Append(log, o)
    /\ UNCHANGED outcome

Acknowledge(o) ==
    /\ outcome[o] = "pending"
    /\ Committed(o)
    /\ outcome' = [outcome EXCEPT ![o] = "done"]
    /\ UNCHANGED log

Refuse(o) ==
    /\ outcome[o] = "pending"
    /\ ~Committed(o)
    /\ outcome' = [outcome EXCEPT ![o] = "failed"]
    /\ UNCHANGED log

\* The process dies: nobody who waits will be answered.
Crash ==
    /\ outcome' = [o \in Ops |-> IF outcome[o] = "pending" THEN "lost"
                                                           ELSE outcome[o]]
    /\ UNCHANGED log

Next ==
    \/ \E o \in Ops : Request(o) \/ Commit(o) \/ Acknowledge(o) \/ Refuse(o)
    \/ Crash

Spec == Init /\ [][Next]_vars
=============================================================================
