---------------------------- MODULE CodexRunner ----------------------------
(***************************************************************************)
(* CodexRunner (codex-runner.ts): the Codex processes of one Agent.        *)
(*                                                                         *)
(* A turn is a call of run().  Its process writes chunks, exits, and some  *)
(* time later its pipes close, which is what run() waits for.  Four things *)
(* may end it early, in any order and all of them: cancel(), the timeout,  *)
(* the output limit, and a denied action.  Each terminates the process:    *)
(* SIGTERM, and SIGKILL from a timer 3 s later.                            *)
(*                                                                         *)
(* A chunk is a line, a part of one, or something that changes nothing,    *)
(* and a line is what the runner makes of it: an agent message or an action*)
(* the guardrail denies.  Chunks are decoded one by one, so a character    *)
(* that is cut in two is lost.  Every handler runs to its end without an   *)
(* await, so each is one action.                                           *)
(***************************************************************************)
EXTENDS Naturals, FiniteSets

CONSTANTS
    Turns,             \* the calls of run()
    Cancels,           \* the calls of cancel()
    None,
    MaxOutput,         \* codexMaxOutputBytes, in chunks
    MaxChunks          \* bound: chunks a process writes

ASSUME RunnerAssumption ==
    /\ None \notin Turns \cup {"message", "denied", "garbled", "begun"}
    /\ MaxOutput \in Nat /\ MaxChunks \in Nat

VARIABLES
    active,            \* the turn registered for the Agent
    outcome,           \* "idle", "running", or how run() returned
    child,             \* "none", "running", "exited", "closed"
    signal,            \* "none", "term" (the kill timer is armed), "kill"
    failed,            \* the process exited with another code than 0
    held,              \* something that outlives the process keeps a pipe open
    \* the flags of a turn
    cancelled, timedOut, outputExceeded, guardrailBlock,
    \* its output
    chunks,            \* how much of it has come
    rest,              \* the line that has no end yet, or of which little has come
    said,              \* an agent message has come
    denied,            \* history: denied actions have come, and whole
    \* the calls of cancel()
    call,              \* "idle", "waiting", "true", "false"
    found              \* the turn it found

flags == <<cancelled, timedOut, outputExceeded, guardrailBlock>>
output == <<chunks, rest, said, denied>>
process == <<child, failed, held>>
calls == <<call, found>>
vars == <<active, outcome, process, signal, flags, output, calls>>

Lines == {"message", "denied"}

\* What is read of a line of several chunks: chunk.toString("utf8") puts a replacement
\* character for each part of a character that was cut in two, and a garbled command or
\* path may not match what denies it.
Decoded(line) == IF line = "denied" THEN {"denied", "garbled"} ELSE {line}
Rests == Lines \cup {"garbled", "begun", None}

TypeOK ==
    /\ active \in Turns \cup {None}
    /\ outcome \in [Turns -> {"idle", "running", "completed", "blocked", "failed",
                              "cancelled"}]
    /\ child \in [Turns -> {"none", "running", "exited", "closed"}]
    /\ signal \in [Turns -> {"none", "term", "kill"}]
    /\ failed \subseteq Turns /\ held \subseteq Turns
    /\ cancelled \subseteq Turns /\ timedOut \subseteq Turns
    /\ outputExceeded \subseteq Turns /\ guardrailBlock \subseteq Turns
    /\ chunks \in [Turns -> 0..MaxChunks]
    /\ rest \in [Turns -> Rests]
    /\ said \subseteq Turns /\ denied \subseteq Turns
    /\ call \in [Cancels -> {"idle", "waiting", "true", "false"}]
    /\ found \in [Cancels -> Turns \cup {None}]

Init ==
    /\ active = None
    /\ outcome = [t \in Turns |-> "idle"]
    /\ child = [t \in Turns |-> "none"]
    /\ signal = [t \in Turns |-> "none"]
    /\ failed = {} /\ held = {}
    /\ cancelled = {} /\ timedOut = {} /\ outputExceeded = {} /\ guardrailBlock = {}
    /\ chunks = [t \in Turns |-> 0]
    /\ rest = [t \in Turns |-> None]
    /\ said = {} /\ denied = {}
    /\ call = [c \in Cancels |-> "idle"]
    /\ found = [c \in Cancels |-> None]

-----------------------------------------------------------------------------
Becomes(f, t, value) == f' = [f EXCEPT ![t] = value]

\* Bug: run() does not look for another turn.
Anyway == TRUE

NoneActive == active = None

\* run() registers a process, or finds one, or cannot start one (the error event
\* comes before anything else runs).
Run(t) ==
    /\ outcome[t] = "idle" /\ NoneActive
    /\ active' = t
    /\ Becomes(outcome, t, "running")
    /\ Becomes(child, t, "running")
    /\ UNCHANGED <<failed, held, signal, flags, output, calls>>

RunRefused(t) ==
    /\ outcome[t] = "idle"
    /\ Becomes(outcome, t, "failed")
    /\ UNCHANGED <<active, process, signal, flags, output, calls>>

\* terminate(): nothing once the process has exited; SIGTERM, and one timer for
\* SIGKILL however often it is called.
Terminate(t) ==
    signal' = [signal EXCEPT ![t] = IF @ = "none" /\ child[t] = "running" THEN "term" ELSE @]

-----------------------------------------------------------------------------
(* Output                                                                  *)

\* parseCodexEventLine() and onAction(): what a line changes.
Says(t, line) ==
    said' = IF line = "message" THEN said \cup {t} ELSE said

Denies(t, line) ==
    guardrailBlock' = IF line = "denied" THEN guardrailBlock \cup {t} ELSE guardrailBlock

Parses(t, line) ==
    /\ Says(t, line)
    /\ Denies(t, line)
    /\ IF line = "denied" /\ t \notin guardrailBlock THEN Terminate(t) ELSE UNCHANGED signal

\* The pipes may still hold output of a process that has exited.
Chunk(t) ==
    /\ child[t] \in {"running", "exited"}
    /\ chunks[t] < MaxChunks
    /\ Becomes(chunks, t, chunks[t] + 1)
    /\ UNCHANGED <<active, outcome, process, cancelled, timedOut, calls>>

\* consume(): a chunk beyond the limit is not looked at.
ChunkBeyondLimit(t) ==
    /\ Chunk(t)
    /\ chunks[t] >= MaxOutput
    /\ outputExceeded' = outputExceeded \cup {t}
    /\ Terminate(t)
    /\ UNCHANGED <<guardrailBlock, rest, said, denied>>

\* A denied action has come with no character cut in two.
Came(t, line) == denied' = IF line = "denied" THEN denied \cup {t} ELSE denied

\* A line on stdout is read, but for its line break perhaps; or it only begins.
ChunkOfLine(t) ==
    /\ Chunk(t)
    /\ chunks[t] < MaxOutput
    /\ rest[t] = None
    /\ \/ \E line \in Lines :
             /\ Came(t, line)
             /\ \/ Parses(t, line) /\ UNCHANGED rest
                \/ Becomes(rest, t, line) /\ UNCHANGED <<signal, guardrailBlock, said>>
       \/ Becomes(rest, t, "begun") /\ UNCHANGED <<signal, guardrailBlock, said, denied>>
    /\ UNCHANGED outputExceeded

\* The rest of a line that has begun, the line break of one that lacks it, more of the
\* same line, a line nobody looks at, or stderr.
ChunkGoesOn(t) ==
    /\ Chunk(t)
    /\ chunks[t] < MaxOutput
    /\ \/ /\ rest[t] = "begun"
          /\ \E line \in Lines : \E read \in Decoded(line) :
                /\ Came(t, read)
                /\ \/ Parses(t, read) /\ Becomes(rest, t, None)
                   \/ Becomes(rest, t, read) /\ UNCHANGED <<signal, guardrailBlock, said>>
       \/ /\ rest[t] \notin {"begun", None}
          /\ Parses(t, rest[t]) /\ Becomes(rest, t, None)
          /\ UNCHANGED denied
       \/ UNCHANGED <<signal, guardrailBlock, rest, said, denied>>
    /\ UNCHANGED outputExceeded

-----------------------------------------------------------------------------
(* The end of a process                                                    *)

\* It exits, by itself or because of a signal, with any code.
Exit(t) ==
    /\ child[t] = "running"
    /\ Becomes(child, t, "exited")
    /\ failed' \in {failed, failed \cup {t}}
    /\ held' \in {held, held \cup {t}}
    /\ UNCHANGED <<active, outcome, signal, flags, output, calls>>

\* What held a pipe lets it go.
Release(t) ==
    /\ t \in held
    /\ held' = held \ {t}
    /\ UNCHANGED <<active, outcome, child, failed, signal, flags, output, calls>>

\* Bug: a last line without an end is dropped.
NoLastLine(t) == None

\* What has come of a last line without an end: of one that is not whole, JSON.parse
\* makes nothing.
LastLine(t) == rest[t]

\* Bug: the denied action is looked at before the Stop.
BlockedFirst(t, blocked, hasText) ==
    IF blocked THEN "blocked"
    ELSE IF t \in cancelled THEN "cancelled"
    ELSE IF t \in timedOut \cup outputExceeded \cup failed \/ ~hasText THEN "failed"
    ELSE "completed"

\* Bug: a timeout has an outcome of its own, which AgentService does not know.
TimeoutApart(t, blocked, hasText) ==
    IF t \in cancelled THEN "cancelled"
    ELSE IF blocked THEN "blocked"
    ELSE IF t \in timedOut THEN "timedOut"
    ELSE IF t \in outputExceeded \cup failed \/ ~hasText THEN "failed"
    ELSE "completed"

\* How run() returns: the first of these that holds.
OutcomeOf(t, blocked, hasText) ==
    IF t \in cancelled THEN "cancelled"
    ELSE IF blocked THEN "blocked"
    ELSE IF t \in timedOut \cup outputExceeded \cup failed \/ ~hasText THEN "failed"
    ELSE "completed"

\* The pipes are closed: the last line is parsed, the timers are cleared, and run()
\* returns.  Its locals are gone; cancelled, outputExceeded and denied stay for the
\* properties.
Close(t) ==
    /\ child[t] = "exited" /\ t \notin held
    /\ Becomes(child, t, "closed")
    /\ LET blocked == t \in guardrailBlock \/ LastLine(t) = "denied"
           hasText == t \in said \/ LastLine(t) = "message"
       IN  Becomes(outcome, t, OutcomeOf(t, blocked, hasText))
    /\ active' = None
    /\ Becomes(signal, t, "none") /\ Becomes(chunks, t, 0) /\ Becomes(rest, t, None)
    /\ failed' = failed \ {t} /\ timedOut' = timedOut \ {t}
    /\ guardrailBlock' = guardrailBlock \ {t} /\ said' = said \ {t}
    /\ UNCHANGED <<held, cancelled, outputExceeded, denied, calls>>

-----------------------------------------------------------------------------
(* Timers and cancel()                                                     *)

Timeout(t) ==
    /\ outcome[t] = "running" /\ t \notin timedOut
    /\ timedOut' = timedOut \cup {t}
    /\ Terminate(t)
    /\ UNCHANGED <<active, outcome, process, cancelled, outputExceeded, guardrailBlock,
                   output, calls>>

\* Bug: SIGKILL is for a Stop only.
ForceKillCancelled(t) ==
    /\ outcome[t] = "running" /\ signal[t] = "term" /\ t \in cancelled
    /\ Becomes(signal, t, "kill")
    /\ UNCHANGED <<active, outcome, process, flags, output, calls>>

\* The timer of terminate() fires, unless run() has cleared it.
ForceKill(t) ==
    /\ outcome[t] = "running" /\ signal[t] = "term"
    /\ Becomes(signal, t, "kill")
    /\ UNCHANGED <<active, outcome, process, flags, output, calls>>

Cancel(c) ==
    /\ call[c] = "idle" /\ active # None
    /\ cancelled' = cancelled \cup {active}
    /\ Terminate(active)
    /\ Becomes(call, c, "waiting")
    /\ Becomes(found, c, active)
    /\ UNCHANGED <<active, outcome, process, timedOut, outputExceeded, guardrailBlock, output>>

CancelFindsNothing(c) ==
    /\ call[c] = "idle" /\ active = None
    /\ Becomes(call, c, "false")
    /\ UNCHANGED <<active, outcome, process, signal, flags, output, found>>

\* Bug: cancel() does not wait for the end of the process.
Told(t) == TRUE

Settled(t) == child[t] = "closed"

CancelReturns(c) ==
    /\ call[c] = "waiting" /\ Settled(found[c])
    /\ Becomes(call, c, "true")
    /\ UNCHANGED <<active, outcome, process, signal, flags, output, found>>

Next ==
    \/ \E t \in Turns :
          \/ Run(t) \/ RunRefused(t)
          \/ ChunkBeyondLimit(t) \/ ChunkOfLine(t) \/ ChunkGoesOn(t)
          \/ Exit(t) \/ Release(t) \/ Close(t)
          \/ Timeout(t) \/ ForceKill(t)
    \/ \E c \in Cancels : Cancel(c) \/ CancelFindsNothing(c) \/ CancelReturns(c)

Spec == Init /\ [][Next]_vars

\* Timers fire, a killed process exits, pipes that nobody holds close, promises
\* settle.  A process need not exit by itself, nor on SIGTERM.  That whatever keeps a
\* pipe open lets it go is assumed: the runner signals Codex and nothing Codex has
\* started, so it cannot bring it about.
Fairness ==
    /\ \A t \in Turns : /\ WF_vars(Timeout(t)) /\ WF_vars(ForceKill(t))
                        /\ WF_vars(signal[t] = "kill" /\ Exit(t))
                        /\ WF_vars(Release(t)) /\ WF_vars(Close(t))
    /\ \A c \in Cancels : WF_vars(CancelReturns(c))

FairSpec == Spec /\ Fairness

-----------------------------------------------------------------------------
(* Properties                                                              *)

\* A turn of which a denied action has come within the output limit, none of its
\* characters cut in two by the end of a chunk, ends as blocked, unless it was stopped:
\* the line may come in parts and without its end, and neither the timeout, nor more
\* output, nor the exit code of the terminated process hides it (codex-runner.ts:224-245,
\* 259-277).  An action that was garbled may go unnoticed (codex-runner.ts:232).
DeniedIsBlocked ==
    \A t \in denied : outcome[t] \in {"running", "cancelled", "blocked"}

\* When cancel() says it has found a turn, the process is gone and the turn is
\* cancelled, although it may have timed out, been blocked, or exited with a good
\* answer before (codex-runner.ts:170-179, 263).
CancelledIsOver ==
    \A c \in Cancels : call[c] = "true" =>
        child[found[c]] = "closed" /\ outcome[found[c]] = "cancelled"

\* Every turn ends, even one that ignores SIGTERM and writes nothing, and nobody
\* waits for ever in cancel() (codex-runner.ts:249-253, 297-307).
TurnsEnd ==
    /\ \A t \in Turns : outcome[t] = "running" ~> outcome[t] # "running"
    /\ \A c \in Cancels : call[c] = "waiting" ~> call[c] = "true"

\* The runner is what AgentService takes it for: one turn of the Agent at a time, and
\* one that was asked to stop ends as cancelled and in no other way.
Runner == INSTANCE RunnerContract WITH asked <- cancelled
Contract == Runner!Spec
=============================================================================
