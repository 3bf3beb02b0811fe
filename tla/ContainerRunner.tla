-------------------------- MODULE ContainerRunner --------------------------
(***************************************************************************)
(* ContainerCodexRunner (container-codex-runner.ts): the containers of one *)
(* Agent.                                                                  *)
(*                                                                         *)
(* A turn is a call of run().  Its process is the engine's client, which   *)
(* creates a container under a name that is the same for every turn of the *)
(* Agent, and ends when that container does.  A turn is ended early by     *)
(* `rm --force` of the name, once per turn however many reasons there are; *)
(* if the command fails, the client is signalled as in CodexRunner, which  *)
(* stops the client and leaves the container to the engine.                *)
(*                                                                         *)
(* The handlers for output are those of CodexRunner.tla; what they come to *)
(* is a denied action, too much output, or an agent message.               *)
(***************************************************************************)
EXTENDS Naturals, FiniteSets

CONSTANTS
    Turns,             \* the calls of run()
    Cancels,           \* the calls of cancel()
    None,
    MissingIsFine      \* TRUE: `rm --force` of a name nobody has succeeds

ASSUME ContainerAssumption ==
    /\ None \notin Turns
    /\ MissingIsFine \in BOOLEAN

VARIABLES
    active,            \* the turn registered for the Agent
    outcome,           \* "idle", "running", or how run() returned
    client,            \* "none", "running", "exited", "closed"
    signal,            \* "none", "term" (the kill timer is armed), "kill"
    failed,            \* the client exited with another code than 0
    \* the flags of a turn
    cancelled, timedOut, outputExceeded, guardrailBlock,
    termination,       \* `rm --force`: "none", "removing", "done"
    \* the engine
    container,         \* "none", "up", "gone"
    name,              \* the turn whose container has the name
    \* the calls of cancel()
    call,              \* "idle", "waiting", "true", "false"
    found              \* the turn it found

flags == <<cancelled, timedOut, outputExceeded, guardrailBlock>>
process == <<client, signal, failed>>
engine == <<container, name>>
calls == <<call, found>>
vars == <<active, outcome, process, flags, termination, engine, calls>>

TypeOK ==
    /\ active \in Turns \cup {None}
    /\ outcome \in [Turns -> {"idle", "running", "completed", "blocked", "failed",
                              "cancelled"}]
    /\ client \in [Turns -> {"none", "running", "exited", "closed"}]
    /\ signal \in [Turns -> {"none", "term", "kill"}]
    /\ failed \subseteq Turns
    /\ cancelled \subseteq Turns /\ timedOut \subseteq Turns
    /\ outputExceeded \subseteq Turns /\ guardrailBlock \subseteq Turns
    /\ termination \in [Turns -> {"none", "removing", "done"}]
    /\ container \in [Turns -> {"none", "up", "gone"}]
    /\ name \in Turns \cup {None}
    /\ call \in [Cancels -> {"idle", "waiting", "true", "false"}]
    /\ found \in [Cancels -> Turns \cup {None}]

Init ==
    /\ active = None
    /\ outcome = [t \in Turns |-> "idle"]
    /\ client = [t \in Turns |-> "none"]
    /\ signal = [t \in Turns |-> "none"]
    /\ failed = {}
    /\ cancelled = {} /\ timedOut = {} /\ outputExceeded = {} /\ guardrailBlock = {}
    /\ termination = [t \in Turns |-> "none"]
    /\ container = [t \in Turns |-> "none"]
    /\ name = None
    /\ call = [c \in Cancels |-> "idle"]
    /\ found = [c \in Cancels |-> None]

-----------------------------------------------------------------------------
Becomes(f, t, value) == f' = [f EXCEPT ![t] = value]

\* run() registers a client, or finds one, or cannot start one (the error event
\* comes before anything else runs).
Run(t) ==
    /\ outcome[t] = "idle" /\ active = None
    /\ active' = t
    /\ Becomes(outcome, t, "running")
    /\ Becomes(client, t, "running")
    /\ UNCHANGED <<signal, failed, flags, termination, engine, calls>>

RunRefused(t) ==
    /\ outcome[t] = "idle"
    /\ Becomes(outcome, t, "failed")
    /\ UNCHANGED <<active, process, flags, termination, engine, calls>>

-----------------------------------------------------------------------------
(* The engine                                                              *)

ContainerStarts(t) ==
    /\ client[t] = "running" /\ container[t] = "none" /\ name = None
    /\ name' = t
    /\ Becomes(container, t, "up")
    /\ UNCHANGED <<active, outcome, process, flags, termination, calls>>

\* A container that outlived its turn has the name.
NameIsTaken(t) ==
    /\ client[t] = "running" /\ container[t] = "none" /\ name # None
    /\ Becomes(client, t, "exited")
    /\ failed' = failed \cup {t}
    /\ UNCHANGED <<active, outcome, signal, flags, termination, engine, calls>>

\* Codex ends by itself, or on the client's SIGTERM, with any code; `--rm` takes
\* the container away.
ContainerEnds(t) ==
    /\ name = t
    /\ name' = None
    /\ Becomes(container, t, "gone")
    /\ failed' \in {failed, failed \cup {t}}
    /\ UNCHANGED <<active, outcome, client, signal, flags, termination, calls>>

ClientFollows(t) ==
    /\ client[t] = "running" /\ container[t] = "gone"
    /\ Becomes(client, t, "exited")
    /\ UNCHANGED <<active, outcome, signal, failed, flags, termination, engine, calls>>

ClientIsKilled(t) ==
    /\ client[t] = "running" /\ signal[t] # "none"
    /\ Becomes(client, t, "exited")
    /\ failed' = failed \cup {t}
    /\ UNCHANGED <<active, outcome, signal, flags, termination, engine, calls>>

-----------------------------------------------------------------------------
(* removeContainer()                                                       *)

\* One command per turn.
Remove(t) ==
    termination' = [termination EXCEPT ![t] = IF @ = "none" THEN "removing" ELSE @]

\* The command takes away what has the name then, be it of another turn.
RemoveSucceeds(t) ==
    /\ termination[t] = "removing"
    /\ Becomes(termination, t, "done")
    /\ \/ /\ name # None
          /\ name' = None
          /\ Becomes(container, name, "gone")
          /\ failed' = failed \cup {name}
       \/ /\ name = None /\ MissingIsFine
          /\ UNCHANGED <<failed, engine>>
    /\ UNCHANGED <<active, outcome, client, signal, flags, calls>>

\* Bug: when the command fails nothing else is tried.
RemoveGivesUp(t) ==
    /\ termination[t] = "removing"
    /\ Becomes(termination, t, "done")
    /\ UNCHANGED <<active, outcome, process, flags, engine, calls>>

\* It fails or takes longer than 8 s: SIGTERM for the client, and SIGKILL 3 s later.
RemoveFails(t) ==
    /\ termination[t] = "removing"
    /\ Becomes(termination, t, "done")
    /\ Becomes(signal, t, "term")
    /\ UNCHANGED <<active, outcome, client, failed, flags, engine, calls>>

\* Nobody clears this timer; it does nothing to a client that has exited.
ForceKill(t) ==
    /\ signal[t] = "term"
    /\ Becomes(signal, t, "kill")
    /\ UNCHANGED <<active, outcome, client, failed, flags, termination, engine, calls>>

-----------------------------------------------------------------------------
(* The handlers of a turn                                                  *)

\* onAction() on a line: nothing after the first denied one.  Nothing is read beyond
\* the output limit.
Denied(t) ==
    /\ client[t] \in {"running", "exited"} /\ container[t] # "none"
    /\ t \notin guardrailBlock \cup outputExceeded
    /\ guardrailBlock' = guardrailBlock \cup {t}
    /\ Remove(t)
    /\ UNCHANGED <<active, outcome, process, cancelled, timedOut, outputExceeded, engine,
                   calls>>

TooMuchOutput(t) ==
    /\ client[t] \in {"running", "exited"} /\ container[t] # "none"
    /\ t \notin outputExceeded
    /\ outputExceeded' = outputExceeded \cup {t}
    /\ Remove(t)
    /\ UNCHANGED <<active, outcome, process, cancelled, timedOut, guardrailBlock, engine,
                   calls>>

\* Bug: the timeout signals the client at once.
TimeoutSignals(t) ==
    /\ outcome[t] = "running" /\ t \notin timedOut
    /\ timedOut' = timedOut \cup {t}
    /\ Becomes(signal, t, "term")
    /\ UNCHANGED <<active, outcome, client, failed, cancelled, outputExceeded,
                   guardrailBlock, termination, engine, calls>>

Timeout(t) ==
    /\ outcome[t] = "running" /\ t \notin timedOut
    /\ timedOut' = timedOut \cup {t}
    /\ Remove(t)
    /\ UNCHANGED <<active, outcome, process, cancelled, outputExceeded, guardrailBlock,
                   engine, calls>>

\* Bug: a Stop is looked at only when the client ended well.
FailedFirst(t, blocked, hasText) ==
    IF blocked THEN "blocked"
    ELSE IF t \in timedOut \cup outputExceeded \cup failed \/ ~hasText THEN "failed"
    ELSE IF t \in cancelled THEN "cancelled"
    ELSE "completed"

\* Bug: a timeout has an outcome of its own, which AgentService does not know.
TimeoutApart(t, blocked, hasText) ==
    IF t \in cancelled THEN "cancelled"
    ELSE IF blocked THEN "blocked"
    ELSE IF t \in timedOut THEN "timedOut"
    ELSE IF t \in outputExceeded \cup failed \/ ~hasText THEN "failed"
    ELSE "completed"

\* How run() returns: the first of these that holds.
OutcomeOf(t, blocked, hasText) ==
    IF t \in cancelled THEN "cancelled"
    ELSE IF blocked THEN "blocked"
    ELSE IF t \in timedOut \cup outputExceeded \cup failed \/ ~hasText THEN "failed"
    ELSE "completed"

\* The pipes of the client are closed: a last line without an end is parsed, and its
\* action may be the denied one, and run() returns.  Its locals are gone, but for
\* cancelled, which the properties look at; the command and the kill timer go on.
Close(t) ==
    /\ client[t] = "exited"
    /\ Becomes(client, t, "closed")
    /\ \E blocked, hasText \in BOOLEAN :
          /\ blocked \/ hasText => container[t] # "none"
          /\ t \in guardrailBlock => blocked
          /\ Becomes(outcome, t, OutcomeOf(t, blocked, hasText))
          /\ IF blocked /\ t \notin guardrailBlock THEN Remove(t) ELSE UNCHANGED termination
    /\ active' = None
    /\ failed' = failed \ {t} /\ timedOut' = timedOut \ {t}
    /\ outputExceeded' = outputExceeded \ {t} /\ guardrailBlock' = guardrailBlock \ {t}
    /\ UNCHANGED <<signal, cancelled, engine, calls>>

-----------------------------------------------------------------------------
(* cancel()                                                                *)

Cancel(c) ==
    /\ call[c] = "idle" /\ active # None
    /\ cancelled' = cancelled \cup {active}
    /\ Remove(active)
    /\ Becomes(call, c, "waiting")
    /\ Becomes(found, c, active)
    /\ UNCHANGED <<active, outcome, process, timedOut, outputExceeded, guardrailBlock, engine>>

CancelFindsNothing(c) ==
    /\ call[c] = "idle" /\ active = None
    /\ Becomes(call, c, "false")
    /\ UNCHANGED <<active, outcome, process, flags, termination, engine, found>>

\* Bug: cancel() waits for the client only.
ClientClosed(t) == client[t] = "closed"

\* cancel() waits for the command and then for the client.
Settled(t) == termination[t] = "done" /\ client[t] = "closed"

CancelReturns(c) ==
    /\ call[c] = "waiting" /\ Settled(found[c])
    /\ Becomes(call, c, "true")
    /\ UNCHANGED <<active, outcome, process, flags, termination, engine, found>>

Next ==
    \/ \E t \in Turns :
          \/ Run(t) \/ RunRefused(t)
          \/ ContainerStarts(t) \/ NameIsTaken(t) \/ ContainerEnds(t)
          \/ ClientFollows(t) \/ ClientIsKilled(t)
          \/ RemoveSucceeds(t) \/ RemoveFails(t) \/ ForceKill(t)
          \/ Denied(t) \/ TooMuchOutput(t) \/ Timeout(t) \/ Close(t)
    \/ \E c \in Cancels : Cancel(c) \/ CancelFindsNothing(c) \/ CancelReturns(c)

Spec == Init /\ [][Next]_vars

\* Timers fire, the command ends within 8 s, the client ends with its container or
\* when it is killed, promises settle.  Codex need not end by itself, and the engine
\* need not create the container.
Fairness ==
    /\ \A t \in Turns : /\ WF_vars(Timeout(t)) /\ WF_vars(ForceKill(t))
                        /\ WF_vars(RemoveSucceeds(t) \/ RemoveFails(t))
                        /\ WF_vars(ClientFollows(t))
                        /\ WF_vars(signal[t] = "kill" /\ ClientIsKilled(t))
                        /\ WF_vars(Close(t))
    /\ \A c \in Cancels : WF_vars(CancelReturns(c))

FairSpec == Spec /\ Fairness

-----------------------------------------------------------------------------
(* Properties                                                              *)

\* A container is disposable: it outlives its turn, and goes on in the workspace of an
\* Agent that is free, only when the command that was to remove it has failed and the
\* client was signalled (container-codex-runner.ts:124-140).
LeftoverHasReason ==
    \A t \in Turns : container[t] = "up" /\ outcome[t] # "running" =>
        termination[t] = "done" /\ signal[t] # "none"

\* When cancel() says it has found a turn, the client is gone, the turn is cancelled
\* and its command has ended: it cannot take away the container of the next turn, as
\* the command of a timeout or of a denied action can (container-codex-runner.ts:114-122).
CancelledIsOver ==
    \A c \in Cancels : call[c] = "true" =>
        LET t == found[c]
        IN  /\ client[t] = "closed" /\ outcome[t] = "cancelled"
            /\ termination[t] = "done"

\* A turn ends that is to be ended while its container is up, also when the command
\* fails and the client ignores SIGTERM (container-codex-runner.ts:124-140).
RemovedTurnEnds ==
    \A t \in Turns : termination[t] = "removing" /\ name = t ~> outcome[t] # "running"

\* The runner is what AgentService takes it for, as CodexRunner is.
Runner == INSTANCE RunnerContract WITH asked <- cancelled
Contract == Runner!Spec

\* "Maximum duration of one turn" (README.md:263): a turn whose time is over ends.
TimeoutEndsTurn == \A t \in Turns : t \in timedOut ~> outcome[t] # "running"
=============================================================================
