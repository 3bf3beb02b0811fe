--------------------------- MODULE AgentLifecycle ---------------------------
(***************************************************************************)
(* AgentService (agent-service.ts): the lifecycle of Agents and Runs.      *)
(*                                                                         *)
(* The server is one event loop.  Every handler is an async function that  *)
(* runs until it awaits I/O: a mutation of the store, a file operation, or *)
(* the exit of the Codex process (the audit log is written synchronously). *)
(* An action here is what runs between two completions of I/O.  What is    *)
(* left of a handler when a promise of this process settles (not I/O) runs *)
(* before anything else can happen: these are the actions of Resume, and   *)
(* every other action waits until no handler is Resumable.                 *)
(*                                                                         *)
(* The store is the queue of JsonStore.tla: one mutation commits at a      *)
(* time, in the order of the calls, on the data the previous one left.     *)
(* Its commit, the publication and the continuation of its caller are one  *)
(* action; a crash between them leaves the same database as a crash after  *)
(* them.                                                                   *)
(*                                                                         *)
(* Requests are the HTTP requests clients will make, each at most once and *)
(* in any order.  Op and Target say what each asks for.  A Send admits one *)
(* Run, and the Run is named by its request.  Sends come from a user whose *)
(* "invoke" is granted, the other requests from the owner of the Agent.    *)
(***************************************************************************)
EXTENDS Sequences, Naturals, FiniteSets

CONSTANTS
    Agents,            \* Agent ids
    Requests,          \* HTTP requests
    Op,                \* [Requests -> Ops]
    Target,            \* [Requests -> Agents]
    Seeded,            \* the Agents in the database the server starts with
    None,              \* no request
    MaxCrashes,        \* bound: times the server dies and restarts
    MaxFaults,         \* bound: times the disk refuses a write
    MaxGrantChanges    \* bound: times the senders' grant is revoked or given

Ops == {"create", "send", "stop", "start", "update", "guardrail", "delete"}

ASSUME LifecycleAssumption ==
    /\ Op \in [Requests -> Ops]
    /\ Target \in [Requests -> Agents]
    /\ Seeded \subseteq Agents
    /\ None \notin Requests
    /\ MaxCrashes \in Nat /\ MaxFaults \in Nat /\ MaxGrantChanges \in Nat
    \* ids are random UUIDs: a created Agent is a new one
    /\ \A r, s \in Requests :
          /\ Op[r] = "create" => Target[r] \notin Seeded
          /\ Op[r] = "create" /\ Op[s] = "create" /\ Target[r] = Target[s] => r = s

VARIABLES
    \* the database
    status,            \* the status of each Agent row, "absent" without a row
    instructions,      \* the update that wrote its configuration, None at first
    guardrailPolicy,   \* the update that wrote its guardrail policy
    run,               \* the status of each Run row, "none" before it exists
    messages,          \* <<run, role>> of the message rows
    invokers,          \* the Agents on which the senders hold "invoke"
    queue,             \* the handlers whose mutation is queued in the store
    \* the handlers
    pc,                \* where each handler is
    agentAtStart,      \* the row a Run was admitted with
    verdict,           \* how a Run ended, before that is stored
    awaited,           \* the Run whose end a Stop or Delete awaits
    running,           \* history: the Runs executing when a Stop arrived
    \* the memory of the service and the runner
    activeExecutions,  \* the execution registered for each Agent
    cancellationRequests,
    killed,            \* the Runs whose process was told to terminate
    \* the workspaces
    workspace,         \* "none", "live" or "archived"
    agentsFile,        \* the update that wrote AGENTS.md
    \* history: counters for the bounds
    crashes, faults, grantChanges

settings == <<instructions, guardrailPolicy, invokers>>
runRows == <<run, messages>>
rows == <<status, settings, runRows>>
memory == <<activeExecutions, cancellationRequests, killed>>
execution == <<agentAtStart, verdict>>
cancels == <<awaited, running>>
handlers == <<execution, cancels>>
files == <<workspace, agentsFile>>
counters == <<crashes, faults, grantChanges>>
vars == <<rows, queue, pc, memory, handlers, files, counters>>

-----------------------------------------------------------------------------
Active == {"queued", "running"}
Finished == {"completed", "failed", "blocked", "cancelled"}

\* A Send after its admission is the execution of its Run.
InExecution == {"starting", "process", "finishing"}
Settled == {"settled", "rejected"}
Waiting == {"creating", "queued", "writing", "killing", "awaiting", "archiving"}
Answered == {"answered", "error", "lost"}

Executing(u) == pc[u] \in InExecution
Processes(a) == {u \in Requests : Target[u] = a /\ pc[u] = "process"}

OrNone == Requests \cup {None}

TypeOK ==
    /\ status \in [Agents -> {"absent", "ready", "busy", "stopped", "error"}]
    /\ instructions \in [Agents -> OrNone]
    /\ guardrailPolicy \in [Agents -> OrNone]
    /\ run \in [Requests -> Active \cup Finished \cup {"none", "deleted"}]
    /\ messages \subseteq Requests \X {"user", "assistant"}
    /\ invokers \subseteq Agents
    /\ queue \in Seq(Requests)
    /\ pc \in [Requests -> {"idle"} \cup InExecution \cup Settled
                                    \cup Waiting \cup Answered]
    /\ agentAtStart \in [Requests -> [instructions : OrNone, policy : OrNone]]
    /\ verdict \in [Requests -> Finished \cup {"none"}]
    /\ awaited \in [Requests -> OrNone]
    /\ \A r \in Requests : pc[r] \in {"killing", "awaiting"} => awaited[r] \in Requests
    /\ running \in [Requests -> SUBSET Requests]
    /\ activeExecutions \in [Agents -> OrNone]
    /\ cancellationRequests \subseteq Agents
    /\ killed \subseteq Requests
    /\ workspace \in [Agents -> {"none", "live", "archived"}]
    /\ agentsFile \in [Agents -> OrNone]
    /\ crashes \in Nat /\ faults \in Nat /\ grantChanges \in Nat

Init ==
    /\ status = [a \in Agents |-> IF a \in Seeded THEN "ready" ELSE "absent"]
    /\ instructions = [a \in Agents |-> None]
    /\ guardrailPolicy = [a \in Agents |-> None]
    /\ run = [r \in Requests |-> "none"]
    /\ messages = {}
    /\ invokers = Agents
    /\ queue = <<>>
    /\ pc = [r \in Requests |-> "idle"]
    /\ agentAtStart = [r \in Requests |-> [instructions |-> None, policy |-> None]]
    /\ verdict = [r \in Requests |-> "none"]
    /\ awaited = [r \in Requests |-> None]
    /\ running = [r \in Requests |-> {}]
    /\ activeExecutions = [a \in Agents |-> None]
    /\ cancellationRequests = {}
    /\ killed = {}
    /\ workspace = [a \in Agents |-> IF a \in Seeded THEN "live" ELSE "none"]
    /\ agentsFile = [a \in Agents |-> None]
    /\ crashes = 0 /\ faults = 0 /\ grantChanges = 0

-----------------------------------------------------------------------------
(* The event loop.                                                         *)

\* The promise the handler awaits has settled, so its continuation is due.
Resumable(r) ==
    \/ pc[r] = "killing" /\ pc[awaited[r]] # "process"
    \/ pc[r] = "awaiting" /\ ~Executing(awaited[r])

Quiet == \A r \in Requests : ~Resumable(r)

\* A handler calls store.mutate(); the store commits the mutation at the head.
Enqueue(r) == queue' = Append(queue, r)
AtHead(r) == queue # <<>> /\ Head(queue) = r /\ Quiet
Dequeue == queue' = Tail(queue)

Goto(r, place) == pc' = [pc EXCEPT ![r] = place]

\* A handler starts a mutation; a mutation commits and its handler answers.
Queues(r) == Goto(r, "queued") /\ Enqueue(r)
Answers(r) == Goto(r, "answered") /\ Dequeue

\* Bug: the authorization of checkpoint 1 is trusted.
AgentExists(r) == status[Target[r]] # "absent"

\* hasScope(): the sender of a message holds "invoke" on an Agent that exists.
MayInvoke(r) == status[Target[r]] # "absent" /\ Target[r] \in invokers

\* Checkpoint 1 lets the request through.  POST /api/agents has no rule.
Arrives(r, op) ==
    /\ pc[r] = "idle" /\ Quiet
    /\ Op[r] = op
    /\ op # "create" => status[Target[r]] # "absent"
    /\ op = "send" => MayInvoke(r)

Commits(r, op) == pc[r] = "queued" /\ Op[r] = op /\ AtHead(r)

\* 404 or 403 at checkpoint 1; 409 for an edit that finds the Agent busy.
RefusedOnArrival(r) ==
    /\ pc[r] = "idle" /\ Quiet
    /\ Op[r] # "create"
    /\ \/ status[Target[r]] = "absent"
       \/ Op[r] = "send" /\ ~MayInvoke(r)
       \/ Op[r] \in {"update", "guardrail"} /\ status[Target[r]] = "busy"
    /\ Goto(r, "error")
    /\ UNCHANGED <<rows, queue, memory, handlers, files, counters>>

-----------------------------------------------------------------------------
(* Create, start, update, guardrail policy.                                *)

\* createAgent() writes the workspace first: its directory and its files,
\* which nobody else looks at before the row exists, are one step here.
CreateArrives(r) ==
    /\ Arrives(r, "create")
    /\ Goto(r, "creating")
    /\ UNCHANGED <<rows, queue, memory, handlers, files, counters>>

WorkspaceCreated(r) ==
    /\ pc[r] = "creating" /\ Quiet
    /\ workspace' = [workspace EXCEPT ![Target[r]] = "live"]
    /\ Queues(r)
    /\ UNCHANGED <<rows, memory, handlers, agentsFile, counters>>

CommitCreate(r) ==
    /\ Commits(r, "create")
    /\ status' = [status EXCEPT ![Target[r]] = "ready"]
    /\ Answers(r)
    /\ UNCHANGED <<settings, runRows, memory, handlers, files, counters>>

\* sendMessage() and startAgent() go straight to their mutation.
\* updateAgent() and setGuardrailPolicy() look at the published row and queue
\* a mutation that looks again.
MutationArrives(r) ==
    /\ \/ \E op \in {"send", "start"} : Arrives(r, op)
       \/ /\ \E op \in {"update", "guardrail"} : Arrives(r, op)
          /\ status[Target[r]] # "busy"
    /\ Queues(r)
    /\ UNCHANGED <<rows, memory, handlers, files, counters>>

\* Bug: only the check made before the mutation was queued counts.
RowPresent(r) == status[Target[r]] # "absent"

\* The check inside the mutation.
Editable(r) == status[Target[r]] \notin {"absent", "busy"}

CommitStart(r) ==
    /\ Commits(r, "start")
    /\ Editable(r)
    /\ status' = [status EXCEPT ![Target[r]] = "ready"]
    /\ Answers(r)
    /\ UNCHANGED <<settings, runRows, memory, handlers, files, counters>>

CommitGuardrail(r) ==
    /\ Commits(r, "guardrail")
    /\ Editable(r)
    /\ guardrailPolicy' = [guardrailPolicy EXCEPT ![Target[r]] = r]
    /\ Answers(r)
    /\ UNCHANGED <<status, instructions, invokers, runRows, memory, handlers,
                   files, counters>>

CommitUpdate(r) ==
    /\ Commits(r, "update")
    /\ Editable(r)
    /\ instructions' = [instructions EXCEPT ![Target[r]] = r]
    /\ Goto(r, "writing")
    /\ Dequeue
    /\ UNCHANGED <<status, guardrailPolicy, invokers, runRows, memory, handlers,
                   files, counters>>

\* writeInstructions() runs after the mutation and outside the queue.
InstructionsWritten(r) ==
    /\ pc[r] = "writing" /\ Quiet
    /\ IF workspace[Target[r]] = "live"
         THEN agentsFile' = [agentsFile EXCEPT ![Target[r]] = r] /\ Goto(r, "answered")
         ELSE UNCHANGED agentsFile /\ Goto(r, "error")
    /\ UNCHANGED <<rows, queue, memory, handlers, workspace, counters>>

\* Bug: an error inside a mutation is not passed on.
Unhandled(r) == FALSE

\* The mutation throws: 404 when the row is gone, 409 when it is busy, and for
\* a Send when it is stopped.
Refused(r) ==
    \/ status[Target[r]] = "absent" /\ Op[r] \notin {"create", "delete"}
    \/ status[Target[r]] = "busy" /\ Op[r] \in {"send", "start", "update", "guardrail"}
    \/ status[Target[r]] = "stopped" /\ Op[r] = "send"

CommitRefused(r) ==
    /\ pc[r] = "queued" /\ AtHead(r)
    /\ Refused(r)
    /\ Goto(r, "error")
    /\ Dequeue
    /\ UNCHANGED <<rows, memory, handlers, files, counters>>

-----------------------------------------------------------------------------
(* The execution of a Run.                                                 *)

\* The Run is admitted: 202 is answered, and executeRun() is started and
\* registered, which replaces whatever execution the Agent had.
CommitSend(r) ==
    LET a == Target[r] IN
    /\ Commits(r, "send")
    /\ status[a] \notin {"absent", "stopped", "busy"}
    /\ run' = [run EXCEPT ![r] = "queued"]
    /\ messages' = messages \cup {<<r, "user">>}
    /\ agentAtStart' = [agentAtStart EXCEPT ![r] =
           [instructions |-> instructions[a], policy |-> guardrailPolicy[a]]]
    /\ status' = [status EXCEPT ![a] = "busy"]
    /\ activeExecutions' = [activeExecutions EXCEPT ![a] = r]
    /\ Goto(r, "starting")
    /\ queue' = Append(Tail(queue), r)
    /\ UNCHANGED <<settings, cancellationRequests, killed, verdict, cancels, files,
                   counters>>

\* The row of a Run is written if it is still there.
WriteRun(r, value) ==
    run' = [run EXCEPT ![r] = IF @ = "deleted" THEN "deleted" ELSE value]

\* executeRun()'s first mutation, wherever the Run goes from there.
CommitRunning(r) ==
    /\ pc[r] = "starting" /\ AtHead(r)
    /\ WriteRun(r, "running")
    /\ UNCHANGED <<status, settings, messages, memory, agentAtStart, cancels, files,
                   counters>>

\* The Run has ended as the verdict says: its last mutation is queued.
Ends(r, how) ==
    /\ verdict' = [verdict EXCEPT ![r] = how]
    /\ Goto(r, "finishing")
    /\ queue' = Append(Tail(queue), r)

Cancelled(r) == Target[r] \in cancellationRequests

\* A Stop that waits for the Run is heeded first ...
RunCancelledEarly(r) == CommitRunning(r) /\ Cancelled(r) /\ Ends(r, "cancelled")

\* ... then checkpoint 2 decides ...
RunForbidden(r) ==
    CommitRunning(r) /\ ~Cancelled(r) /\ ~MayInvoke(r) /\ Ends(r, "failed")

\* ... and the guardrail, which may block the prompt.
PromptBlocked(r) ==
    CommitRunning(r) /\ ~Cancelled(r) /\ MayInvoke(r) /\ Ends(r, "blocked")

\* Bug: the runner does not look for a process of the Agent.
Unlimited(a) == TRUE

\* this.active has no process of the Agent.
NoProcess(a) == Processes(a) = {}

\* The runner refuses a second process.
RunnerBusy(r) ==
    /\ CommitRunning(r)
    /\ ~Cancelled(r) /\ MayInvoke(r) /\ ~NoProcess(Target[r])
    /\ Ends(r, "failed")

SpawnProcess(r) ==
    /\ CommitRunning(r)
    /\ ~Cancelled(r) /\ MayInvoke(r) /\ NoProcess(Target[r])
    /\ Goto(r, "process")
    /\ Dequeue
    /\ UNCHANGED verdict

\* Bug: nothing is decided about a process that was told to terminate.
OutcomesUnlessKilled(r) == {"completed", "blocked", "failed"} \ {x \in Finished : r \in killed}

\* A Run that was told to terminate is cancelled; any other has an output that
\* passes the guardrail, is blocked by it, or has failed.
OutcomesOf(r) == IF r \in killed THEN {"cancelled"} ELSE {"completed", "blocked", "failed"}

\* The process exits and the end of the Run is queued.
ProcessExits(r) ==
    /\ pc[r] = "process" /\ Quiet
    /\ \E how \in OutcomesOf(r) : verdict' = [verdict EXCEPT ![r] = how]
    /\ killed' = killed \ {r}
    /\ Goto(r, "finishing")
    /\ Enqueue(r)
    /\ UNCHANGED <<rows, activeExecutions, cancellationRequests, agentAtStart,
                   cancels, files, counters>>

\* The execution is over: its entry goes, unless a later one replaced it.
Unregister(r) ==
    activeExecutions' = [activeExecutions EXCEPT ![Target[r]] =
                            IF @ = r THEN None ELSE @]

\* Bug: the rows are written without looking for them.
Upserts(r) == TRUE

StillThere(r) == run[r] # "deleted" /\ status[Target[r]] # "absent"

CommitCompleted(r) ==
    /\ pc[r] = "finishing" /\ AtHead(r) /\ verdict[r] = "completed"
    /\ IF StillThere(r)
         THEN /\ run' = [run EXCEPT ![r] = "completed"]
              /\ messages' = messages \cup {<<r, "assistant">>}
              /\ status' = [status EXCEPT ![Target[r]] = "ready"]
         ELSE UNCHANGED <<run, messages, status>>
    /\ Unregister(r)
    /\ Goto(r, "settled")
    /\ Dequeue
    /\ UNCHANGED <<settings, cancellationRequests, killed, handlers, files, counters>>

CommitUnfinished(r) ==
    /\ pc[r] = "finishing" /\ AtHead(r) /\ verdict[r] # "completed"
    /\ WriteRun(r, verdict[r])
    /\ status' = [status EXCEPT ![Target[r]] =
           IF @ \in {"absent", "stopped"} THEN @
           ELSE IF verdict[r] = "failed" THEN "error" ELSE "ready"]
    /\ Unregister(r)
    /\ Goto(r, "settled")
    /\ Dequeue
    /\ UNCHANGED <<settings, messages, cancellationRequests, killed, handlers, files,
                   counters>>

-----------------------------------------------------------------------------
(* Stop and Delete: cancelExecution(), then the mutation.                  *)

\* What follows cancelExecution(): stopAgent() queues its mutation,
\* deleteAgent() archives the workspace.
Proceed(r) ==
    IF Op[r] = "stop" THEN Queues(r) ELSE Goto(r, "archiving") /\ UNCHANGED queue

\* Bug: executions are not tracked.
NoExecution(a) == None

\* The execution cancelExecution() finds.
Execution(a) == activeExecutions[a]

\* The history forgets what a Stop found when another one of the same Agent is
\* under way: they share one cancellation flag, which the first to return takes
\* down (agent-service.ts:28, 510).
CancelArrives(r) ==
    LET a == Target[r]
        others == {s \in Requests : Target[s] = a /\ pc[s] \in {"killing", "awaiting"}}
    IN
    /\ \E op \in {"stop", "delete"} : Arrives(r, op)
    /\ running' = [s \in Requests |->
           IF s \in others \/ (s = r /\ others # {}) THEN {}
           ELSE IF s = r THEN {u \in Requests : Target[u] = a /\ Executing(u)}
           ELSE running[s]]

\* runner.cancel() finds a process, tells it to terminate and awaits its exit.
StopKills(r) ==
    /\ CancelArrives(r)
    /\ \E u \in Processes(Target[r]) :
          /\ killed' = killed \cup {u}
          /\ awaited' = [awaited EXCEPT ![r] = u]
    /\ cancellationRequests' = cancellationRequests \cup {Target[r]}
    /\ Goto(r, "killing")
    /\ UNCHANGED <<rows, queue, activeExecutions, execution, files, counters>>

\* There is none, but an execution is registered: await it.
StopAwaits(r) ==
    LET a == Target[r] IN
    /\ CancelArrives(r)
    /\ Processes(a) = {}
    /\ Execution(a) # None
    /\ awaited' = [awaited EXCEPT ![r] = Execution(a)]
    /\ cancellationRequests' = cancellationRequests \cup {a}
    /\ Goto(r, "awaiting")
    /\ UNCHANGED <<rows, queue, activeExecutions, killed, execution, files, counters>>

\* There is nothing to cancel: the flag is up only within this step.
StopFindsNothing(r) ==
    LET a == Target[r] IN
    /\ CancelArrives(r)
    /\ Processes(a) = {}
    /\ Execution(a) = None
    /\ cancellationRequests' = cancellationRequests \ {a}
    /\ Proceed(r)
    /\ UNCHANGED <<rows, activeExecutions, killed, execution, awaited, files, counters>>

\* The process is gone: look for the execution, and await it if there is one.
KillReturns(r) ==
    LET a == Target[r] IN
    /\ pc[r] = "killing" /\ Resumable(r)
    /\ awaited' = [awaited EXCEPT ![r] = Execution(a)]
    /\ IF Execution(a) # None
         THEN Goto(r, "awaiting") /\ UNCHANGED <<queue, cancellationRequests>>
         ELSE /\ cancellationRequests' = cancellationRequests \ {a}
              /\ Proceed(r)
    /\ UNCHANGED <<rows, activeExecutions, killed, execution, running, files, counters>>

\* A rejected execution rejects the Stop that awaits it.
ExecutionReturns(r) ==
    /\ pc[r] = "awaiting" /\ Resumable(r)
    /\ cancellationRequests' = cancellationRequests \ {Target[r]}
    /\ IF pc[awaited[r]] = "settled" THEN Proceed(r)
                                     ELSE Goto(r, "error") /\ UNCHANGED queue
    /\ awaited' = [awaited EXCEPT ![r] = None]
    /\ UNCHANGED <<rows, activeExecutions, killed, execution, running, files, counters>>

\* setStatus("stopped") overwrites any status, busy included.
CommitStop(r) ==
    /\ Commits(r, "stop")
    /\ status[Target[r]] # "absent"
    /\ status' = [status EXCEPT ![Target[r]] = "stopped"]
    /\ Answers(r)
    /\ UNCHANGED <<settings, runRows, memory, handlers, files, counters>>

\* archive() renames the workspace away, or fails because it is gone.
Archive(r) ==
    /\ pc[r] = "archiving" /\ Quiet
    /\ IF workspace[Target[r]] = "live"
         THEN workspace' = [workspace EXCEPT ![Target[r]] = "archived"] /\ Queues(r)
         ELSE UNCHANGED <<workspace, queue>> /\ Goto(r, "error")
    /\ UNCHANGED <<rows, memory, handlers, agentsFile, counters>>

\* Bug: the Runs that have not ended are left behind.
PurgedFinished(u, a) == Target[u] = a /\ run[u] \in Finished

\* The Runs that go with the row of an Agent.
Purged(u, a) == Target[u] = a /\ run[u] # "none"

\* The row goes with its messages and Runs.  Grants on it stay.
CommitDelete(r) ==
    LET a == Target[r] IN
    /\ Commits(r, "delete")
    /\ status' = [status EXCEPT ![a] = "absent"]
    /\ run' = [u \in Requests |-> IF Purged(u, a) THEN "deleted" ELSE run[u]]
    /\ messages' = {m \in messages : Target[m[1]] # a}
    /\ Answers(r)
    /\ UNCHANGED <<settings, memory, handlers, files, counters>>

-----------------------------------------------------------------------------
(* The environment.                                                        *)

\* The senders' grant on an Agent is revoked, expires, or is given again.
GrantChanges(a) ==
    /\ grantChanges < MaxGrantChanges /\ Quiet
    /\ grantChanges' = grantChanges + 1
    /\ invokers' = IF a \in invokers THEN invokers \ {a} ELSE invokers \cup {a}
    /\ UNCHANGED <<status, instructions, guardrailPolicy, runRows, queue, pc, memory,
                   handlers, files, crashes, faults>>

\* The store cannot persist a mutation.  A handler answers 500.  An execution
\* whose success cannot be stored tries to store a failure; one whose start or
\* failure cannot be stored rejects.
PersistFails(r) ==
    /\ AtHead(r)
    /\ faults < MaxFaults
    /\ faults' = faults + 1
    /\ \/ /\ pc[r] = "queued"
          /\ Goto(r, "error")
          /\ Dequeue
          /\ UNCHANGED <<verdict, activeExecutions>>
       \/ /\ pc[r] = "finishing" /\ verdict[r] = "completed"
          /\ Ends(r, "failed")
          /\ UNCHANGED activeExecutions
       \/ /\ pc[r] = "starting" \/ (pc[r] = "finishing" /\ verdict[r] # "completed")
          /\ Goto(r, "rejected")
          /\ Unregister(r)
          /\ Dequeue
          /\ UNCHANGED verdict
    /\ UNCHANGED <<rows, cancellationRequests, killed, agentAtStart, cancels, files,
                   crashes, grantChanges>>

\* mkdir, writeFile or rename of a workspace fails: 500.  A failed create may
\* leave its directory behind.
WorkspaceFails(r) ==
    /\ pc[r] \in {"creating", "writing", "archiving"} /\ Quiet
    /\ faults < MaxFaults
    /\ faults' = faults + 1
    /\ \/ UNCHANGED workspace
       \/ pc[r] = "creating" /\ workspace' = [workspace EXCEPT ![Target[r]] = "live"]
    /\ Goto(r, "error")
    /\ UNCHANGED <<rows, queue, memory, handlers, agentsFile, crashes, grantChanges>>

\* Bugs: a Run is left as it was unless it was running, goes back to the queue,
\* or gets a status no reader knows.
InterruptedRunning(s) == IF s = "running" THEN "cancelled" ELSE s
Requeued(s) == IF s \in Active THEN "queued" ELSE s
InterruptedAsSuch(s) == IF s \in Active THEN "interrupted" ELSE s

\* initialize(): what becomes of the status of a Run and of an Agent.
Interrupted(s) == IF s \in Active THEN "cancelled" ELSE s

\* Bug: a busy Agent stays busy.
Unrecovered(s) == s

Recovered(s) == IF s = "busy" THEN "ready" ELSE s

\* The server dies.  initialize() runs before it accepts requests again.
Restart ==
    /\ crashes < MaxCrashes
    /\ crashes' = crashes + 1
    /\ run' = [r \in Requests |-> Interrupted(run[r])]
    /\ status' = [a \in Agents |-> Recovered(status[a])]
    /\ queue' = <<>>
    /\ pc' = [r \in Requests |-> IF pc[r] \in InExecution \cup Waiting
                                   THEN "lost" ELSE pc[r]]
    /\ activeExecutions' = [a \in Agents |-> None]
    /\ cancellationRequests' = {}
    /\ killed' = {}
    /\ UNCHANGED <<settings, messages, handlers, files, faults, grantChanges>>

-----------------------------------------------------------------------------
Arrive(r) ==
    \/ RefusedOnArrival(r) \/ CreateArrives(r) \/ MutationArrives(r)
    \/ StopKills(r) \/ StopAwaits(r) \/ StopFindsNothing(r)

Commit(r) ==
    \/ CommitCreate(r) \/ CommitUpdate(r) \/ CommitGuardrail(r) \/ CommitStart(r)
    \/ CommitRefused(r) \/ CommitSend(r) \/ CommitStop(r) \/ CommitDelete(r)

Execute(r) ==
    \/ RunCancelledEarly(r) \/ RunForbidden(r) \/ PromptBlocked(r)
    \/ RunnerBusy(r) \/ SpawnProcess(r) \/ ProcessExits(r)
    \/ CommitCompleted(r) \/ CommitUnfinished(r)

FileIO(r) == WorkspaceCreated(r) \/ InstructionsWritten(r) \/ Archive(r)

Resume(r) == KillReturns(r) \/ ExecutionReturns(r)

Next ==
    \/ \E r \in Requests :
          \/ Arrive(r) \/ Commit(r) \/ Execute(r) \/ FileIO(r) \/ Resume(r)
          \/ PersistFails(r) \/ WorkspaceFails(r)
    \/ \E a \in Agents : GrantChanges(a)
    \/ Restart

Spec == Init /\ [][Next]_vars

\* The server does not rest while it has something to do: the event loop runs
\* what is due, the disk answers, and a process ends, because the runner
\* terminates it when the timeout passes and kills it 3 s later.
Progress ==
    \E r \in Requests : Commit(r) \/ Execute(r) \/ FileIO(r) \/ Resume(r)

FairSpec == Spec /\ WF_vars(Progress)

-----------------------------------------------------------------------------
(* Properties                                                              *)

\* Never two Codex processes of one Agent in its workspace, whatever the
\* database says (codex-runner.ts:182).
OneProcessPerAgent ==
    \A u, v \in Requests :
        pc[u] = "process" /\ pc[v] = "process" /\ Target[u] = Target[v] => u = v

\* An Agent is busy only while some execution of a Run of it is under way that
\* will release it, or after one could not store its end (agent-service.ts:256,
\* 429, 451 and the restart at 60-65).
BusyHasExecution ==
    \A a \in Agents : status[a] = "busy" =>
        \E u \in Requests : /\ Target[u] = a
                            /\ run[u] \in Active
                            /\ pc[u] \in InExecution \cup {"rejected"}

\* A Run that is shown as queued or running is being executed, or its last
\* write failed: no Run is forgotten, by a restart in particular.
ActiveRunIsExecuting ==
    \A u \in Requests : run[u] \in Active => pc[u] \in InExecution \cup {"rejected"}

\* Every Run and message belongs to an Agent that exists, although a Run may
\* outlive its Agent's deletion in memory (agent-service.ts:166-170, 416).
NoOrphanRows ==
    /\ \A u \in Requests : run[u] \notin {"none", "deleted"} => status[Target[u]] # "absent"
    /\ \A m \in messages : run[m[1]] \notin {"none", "deleted"}

\* An Agent whose row exists has its workspace, unless a delete of it has
\* archived the workspace and not yet (or never) removed the row.
RowHasWorkspace ==
    \A a \in Agents : status[a] # "absent" /\ workspace[a] # "live" =>
        \E r \in Requests : /\ Op[r] = "delete" /\ Target[r] = a
                            /\ pc[r] \in {"queued", "error", "lost"}

\* While an Agent is busy, the Run that made it busy works with the configuration
\* and the policy the Agent shows, although they are read when the Run is admitted
\* and edited by handlers that looked before they queued (agent-service.ts:114,
\* 122, 146, 153).
BusyFreezesConfiguration ==
    \A a \in Agents : status[a] = "busy" /\ activeExecutions[a] # None =>
        agentAtStart[activeExecutions[a]] =
            [instructions |-> instructions[a], policy |-> guardrailPolicy[a]]

\* A Run that was not admitted yet when "invoke" was revoked for good never gets
\* a process, although its Send may have passed checkpoint 1 before, and the store
\* admits it afterwards (agent-service.ts:307-317).
RevokedNeverRuns ==
    \A u \in Requests :
        []((run[u] = "none" /\ Target[u] \notin invokers /\ grantChanges = MaxGrantChanges)
              => [](pc[u] # "process"))

\* When a Stop answers 200, every Run that was executing when it arrived is past
\* its process and will not start one, whatever was admitted meanwhile.  (Not so
\* when two Stops of the Agent overlap: see CancelArrives.)
StopEndsRuns ==
    \A r \in Requests : Op[r] = "stop" /\ pc[r] = "answered" =>
        \A u \in running[r] : pc[u] \notin {"starting", "process"}

\* Every admitted Run ends, unless its end cannot be stored.
RunsEnd ==
    \A u \in Requests :
        run[u] \in Active ~> run[u] \notin Active \/ pc[u] = "rejected"

\* Every request is answered or lost in a crash; a Stop does not wait for ever.
RequestsSettle ==
    \A r \in Requests : pc[r] \in Waiting ~> pc[r] \notin Waiting

\* What a client sees of Runs and messages is what RunLedger says.
RunLedger == INSTANCE RunLedger WITH Runs <- Requests, AgentOf <- Target
Ledger == RunLedger!Spec

-----------------------------------------------------------------------------
(* What the documents say and the code does not do.                        *)

\* "One Agent can have only one active Run." (docs/ARCHITECTURE.md:32-33)
OneActiveRun ==
    \A u, v \in Requests :
        run[u] \in Active /\ run[v] \in Active /\ Target[u] = Target[v] => u = v

\* "The platform-generated AGENTS.md contains the current Agent instructions."
\* (workspace.ts:31): once no update is under way.
InstructionsFileCurrent ==
    \A a \in Agents :
        /\ workspace[a] = "live"
        /\ \A r \in Requests : Target[r] = a => pc[r] # "writing"
        => agentsFile[a] = instructions[a]

\* "Start the Agent before sending a message" (agent-service.ts:248): a stopped
\* Agent stays stopped until it is started or deleted.
StoppedUntilStarted ==
    [][\A a \in Agents : status[a] = "stopped" /\ status'[a] \notin {"stopped", "absent"}
          => \E r \in Requests : Op[r] = "start" /\ Target[r] = a /\ pc'[r] # pc[r]]_vars
=============================================================================
