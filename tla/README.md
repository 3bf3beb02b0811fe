# Agent Launchpad: TLA+ specifications

Specifications, model-checking configurations and proofs for the programs of this
repository: the server (`apps/server`), a single Node.js process that keeps Agents
and their Runs in one JSON file, starts one Codex process per Run, and authorizes,
guards and audits what users and Agents do; and the web client (`apps/web`).

Line numbers are those of `apps/server/src/` unless a path is given.

## 1. The system

### 1.1 Components

| Component | State it keeps | Operations | What makes it correct |
| --- | --- | --- | --- |
| **JSON store** (`store.ts`) | the database in memory, the file, `FILE.tmp`, the promise chain of mutations | `initialize` (read, migrate, write), `mutate`, `persist`, `snapshot` | a mutation is all or nothing; an acknowledged one survives a crash; a failed one leaves no trace; they commit in call order, each on the data the previous one left; a failure does not block the chain |
| **AgentService** (`agent-service.ts`) | rows of Agents, Runs and messages (in the store); `activeExecutions` and `cancellationRequests` (in memory) | create, update, set guardrail policy, delete, start, stop an Agent; `sendMessage`, `executeRun`, `cancelExecution`; recovery in `initialize` | a Run is admitted once, moves forward, ends once; an Agent is busy exactly while a Run of it executes; its configuration does not change under a Run; a Stop really ends what ran; nothing waits for ever |
| **Workspaces** (`workspace.ts`) | one directory per Agent, with `AGENTS.md`; an archive of deleted ones | `create`, `writeInstructions`, `archive` | every Agent has its workspace; `AGENTS.md` holds the current instructions |
| **Codex runner** (`codex-runner.ts`) | the process of each Agent, its flags and timers | `run`, `cancel`, `terminate`, parsing of the output | one process per Agent; one outcome per process, whichever of exit, timeout, output limit, guardrail block and cancellation come first; a process that was told to end does |
| **Container runner** (`container-codex-runner.ts`, `runner-factory.ts`) | the same with a container per Run and a memoised termination | the same with `rm --force` | the same; no container outlives its Run |
| **Policy and enforcement** (`policy.ts`, `enforcement.ts`) | users and grants (in the store) | `hasScope`, `canSee`, `createGrant`, `revokeGrant`, `provisionOidcUser`; `enforce` at the HTTP boundary and again before Codex starts | nobody acts on an Agent without ownership or an unexpired grant with the scope, at both checkpoints |
| **Guardrail engine** (`guardrail/`) | none: the policy is part of the Agent row | `evaluatePrompt`, `evaluateAction`, `screenOutput`, `resolveSandbox`, `validatePolicy` | a deny rule denies; the platform baseline cannot be switched off; the sandbox never exceeds the ceiling |
| **Audit log** (`audit-log/`) | an append-only JSONL file | `record` (redact, append), `query` (filter, page) | every denial, every allowed request and every change of the access is in it, in order, once; a page shows what it says |
| **Identity** (`identity/`) | pending logins and handoff codes with a time to live; signed session tokens | OIDC redirect, callback, handoff exchange | a login state, and a handoff code, is used once and in time |
| **HTTP API** (`app.ts`, `errors.ts`) | none | authentication, checkpoint 1, validation, the routes | no route that touches an Agent reaches its handler without checkpoint 1 |
| **Start-up** (`index.ts`, `config.ts`) | none | build the parts, `initialize`, listen | recovery is over before the first request |
| **Web client** (`apps/web`) | React state, the set of Runs that are polled | choice of a principal, selection, sending, lifecycle buttons, polling of Runs | what it shows belongs to the Agent that is selected; an active Run on the screen is followed to its end |

### 1.2 How they interact

A request passes checkpoint 1 (`app.ts:216`, `enforcement.ts:101`), which reads
users and grants from the published snapshot of the store, and then runs a
handler of `AgentService`. The handler calls `JsonStore.mutate`, which puts its
mutation at the end of a promise chain; when its turn comes, the mutation checks
and changes a clone of the database, which is written to `FILE.tmp`, renamed over
the file, published, and only then is the handler told. `sendMessage` answers
202 and leaves `executeRun` running in the background: it marks the Run as
running, heeds a Stop that waits for it, passes checkpoint 2 and the guardrails,
runs Codex, and stores how the Run ended. A Stop or a Delete raises a flag,
terminates the process through the runner, awaits the execution it finds in
`activeExecutions`, and then queues its own mutation (a Delete archives the
workspace in between). A restart runs `AgentService.initialize` before the server
listens: Runs that were active become cancelled and busy Agents ready.

### 1.3 What is hard here

The process has one thread, but every `await` of file I/O or of a process is a
point where any other handler can run. Checks made before an `await` may not hold
after it; two maps in memory, the rows in the file and the process table say the
same thing in four places, and are updated at different times; a crash keeps
only the file; a write can fail anywhere. `PROJECT.json` lists these hazards one
by one, with the line where each bites and the properties that answer for it.

## 2. The modules

| Module | What it is |
| --- | --- |
| `AtomicStore` | abstract: a log of mutations that commit one at a time; what callers know about each |
| `JsonStore` | `store.ts`: file, temporary file, promise chain, crash, failing write, migration; implements `AtomicStore` |
| `MCJsonStore` | an instance: three mutations, two of which exclude each other |
| `JsonStore_proofs` | theorems about `JsonStore` and their proofs |
| `RunLedger` | abstract: what a client may rely on about Runs and messages |
| `AgentLifecycle` | `agent-service.ts` with what it uses of `workspace.ts`, of the runner and of the two checkpoints; implements `RunLedger` |
| `MCAgentLifecycle` | instances: a configuration names the requests, the module says what each asks for |
| `AgentLifecycle_proofs` | theorems about `AgentLifecycle` and their proofs |
| `RunnerContract` | abstract: what `AgentService` relies on when it calls a runner |
| `CodexRunner` | `codex-runner.ts`: process, output, timers, cancellation; implements `RunnerContract` |
| `ContainerRunner` | `container-codex-runner.ts`: client, container, removal by name; implements `RunnerContract` |
| `MCCodexRunner`, `MCContainerRunner` | instances: two turns of one Agent, two calls of `cancel` |
| `CodexRunner_proofs`, `ContainerRunner_proofs` | theorems about the runners and their proofs |
| `GuardrailEngine` | `guardrail/`: the baseline, the decisions, the ceiling, as operators |
| `Authorization` | `policy.ts` and the rule table of `enforcement.ts`: users, owners, grants |
| `Identity` | `identity/`: login, callback, exchange, one-time maps, sessions |
| `AuditLog` | `audit-log/`: the JSONL file with torn writes, the paged query |
| `ControlPlane` | `app.ts` and `enforcement.ts`: requests over the four modules above and the queue of the store |
| `MCControlPlane`, `ControlPlane_proofs` | seven scenarios of it; its theorems |
| `AuditLog_proofs`, `AuditTrail_proofs` | what a query returns; what the log of `ControlPlane` has and shows |
| `WebClient` | `App.tsx` and `api.ts`: one tab over a network that answers in any order |
| `MCWebClient`, `WebClient_proofs` | seven scenarios of it; its theorems |

### 2.1 `JsonStore`

`data`, `disk`, `tmp`, `next` are `this.data`, the file, `FILE.tmp` and the clone.
The contents of a database are the sequence of the mutations applied to it:
enough to tell a lost, repeated, reordered or half-written update from a good
one. `queue` is the promise chain `this.writeQueue`, and `stage` says how far its
first call has got: `cloned` (after `structuredClone` and the mutation), `writing`
(the temporary file is open and truncated: `Torn`), `written`, `renamed`. A mutation
may throw: `Excludes[o]` are the mutations whose presence makes `o` throw, as one
admitted Send makes the next one throw 409.

| Action | Code |
| --- | --- |
| `Initialize`, `Booted`, `BootFails` | `initialize`, 68-86: read the file, or start empty; migrate an older schema; persist before returning |
| `Mutate` | the call of `mutate`, 92-94: a link is put at the end of the chain |
| `Apply`, `Reject` | 95-96: clone and mutate, or the mutation throws |
| `OpenTmp`, `WriteTmp`, `Rename` | `persist`, 105-112 |
| `Publish` | 97-102: `this.data = next`, the caller is told |
| `PersistFails` | mkdir, write or rename rejects: 98-101 |
| `Crash` | the process dies between any two of the above |

### 2.2 `AgentLifecycle`

One action is what the event loop runs between two completions of I/O. The
audit log is appended synchronously (`JsonlAuditStore.ts:16`), so checkpoint 1 and
the first segment of a handler are one step, and so are the commit of a Run's
first mutation, checkpoint 2, the screening of the prompt and the spawn. A
promise of the process itself (an execution, the exit of a process that a Stop
awaits) resumes its awaiter before any other I/O is looked at: these are the
actions of `Resume`, and the others wait until nothing is `Resumable`.

The store is taken at its word, which is what `JsonStore` checks and proves: a
queue whose head commits atomically. A Run has the name of the request that made
it. `pc[r]` is where a handler is:

```text
create          idle -> creating -> queued -> answered
start,guardrail idle -> queued -> answered
update          idle -> queued -> writing -> answered
send            idle -> queued -> starting -> process -> finishing -> settled
stop            idle -> [killing] -> [awaiting] -> queued -> answered
delete          idle -> [killing] -> [awaiting] -> archiving -> queued -> answered
```

with `error` (a 4xx or 5xx answer), `rejected` (an execution whose last mutation
could not be stored) and `lost` (the server died) beside them.

| Action | Code |
| --- | --- |
| `RefusedOnArrival` | checkpoint 1 refuses (404, 403), or an edit finds the Agent busy (409): `enforcement.ts:118`, `agent-service.ts:114`, `146` |
| `CreateArrives`, `WorkspaceCreated`, `CommitCreate` | `createAgent` |
| `MutationArrives`, `CommitStart`, `CommitUpdate`, `InstructionsWritten`, `CommitGuardrail`, `CommitRefused` | `startAgent`, `updateAgent`, `setGuardrailPolicy`, and the mutations that throw |
| `CommitSend` | `sendMessage`: admission, snapshot of the Agent, registration of the execution |
| `RunCancelledEarly`, `RunForbidden`, `PromptBlocked`, `RunnerBusy`, `SpawnProcess` | the commit of `executeRun`'s first mutation and the code up to `runner.run` |
| `ProcessExits` | the exit and the outcome: `codex-runner.ts:255-294`, the output guardrail |
| `CommitCompleted`, `CommitUnfinished` | the two last mutations of `executeRun`, and `Unregister` |
| `StopKills`, `StopAwaits`, `StopFindsNothing`, `KillReturns`, `ExecutionReturns` | `cancelExecution`, with the runner's `cancel` |
| `CommitStop`, `Archive`, `CommitDelete` | the rest of `stopAgent` and `deleteAgent` |
| `GrantChanges` | `createGrant`, `revokeGrant` or the expiry of a grant, of `invoke` to the senders |
| `PersistFails`, `WorkspaceFails` | a write of the store or of a workspace fails |
| `Restart` | the server dies at any point; `initialize`, 49-67 |

Abstracted: texts, timestamps, token usage, `lastError`, the Codex thread id, and
why a process or a guardrail fails or blocks (each may happen on every Run).
`instructions[a]`, `guardrailPolicy[a]` and `agentsFile[a]` hold the request that wrote
them, which tells whether they agree. Requests other than Sends come from the
owner of the Agent, whose authorization never changes. A Start, Stop or edit
therefore meets checkpoint 1 only through the existence of the row.

### 2.3 The runners

Both modules are about one Agent. A turn is a call of `run()`; `outcome[t]` says how
it returned. The flags of `active` are sets of turns, and `active` is the entry of
the map. Handlers of chunks, timers and `cancel` run without an await, so each is one
action; `run()` resumes when the pipes close (`Close`), in the same turn of the event
loop as the awaiters of `settled`.

In `CodexRunner`, what a line of output says is one of three things: an agent message,
an action the guardrail denies, or nothing of interest. A chunk brings a line, a line
without its line break, or the beginning of one (`rest` is the tail in the local
`stdout`), which is where the order of "denied", "exited" and "cancelled" is decided.
Chunks are decoded one by one (232): a character that is cut in two between them is lost,
and a denied action may come out `garbled` (`Decoded`, section 3.7). `signal[t]` is SIGTERM with the timer
armed, then SIGKILL. `Exit` may come at any time with any code, `Close` later.

| Action of `CodexRunner` | Code |
| --- | --- |
| `Run`, `RunRefused` | 181-205 |
| `ChunkBeyondLimit`, `ChunkOfLine`, `ChunkGoesOn` | `consume`, 224-244, with `parseCodexEventLine` and `onAction`; `denied` remembers the actions that came whole |
| `Timeout`, `ForceKill`, and the operator `Terminate` | 249-253, 297-307 |
| `Exit`, `Release` | the process, and what keeps its pipes open |
| `Close` | 255-294: the last line, the outcome, the `finally` |
| `Cancel`, `CancelFindsNothing`, `CancelReturns` | 170-179 |

`ContainerRunner` leaves the parsing to `CodexRunner` (the code is the same) and has the
engine instead. The container has the name of the Agent, so `name` is the turn whose
container has it; `termination[t]` is the memoised promise of `rm --force`. The command
takes effect at any time until it ends, on whatever has the name then
(`RemoveSucceeds`), or fails or times out (`RemoveFails`), which signals the client. The
client dies and leaves the container up (`ClientIsKilled`), follows its container
(`ClientFollows`), or finds the name taken (`NameIsTaken`). `MissingIsFine` says what
the engine makes of a name nobody has: current engines differ by version, and the
code does not ask. A removal that the engine carries out after its command was given
up is not modelled.

`AgentLifecycle` sees a runner as `RunnerContract` does: one turn of the Agent at a time,
one outcome, `cancelled` if and only if a Stop asked for it (`SpawnProcess`,
`ProcessExits`, `OutcomesOf`).

### 2.4 `ControlPlane` and what it is built on

`ControlPlane` extends `Identity`, which extends `Authorization`, which extends
`GuardrailEngine`; and `AuditLog`. The database is one record, `db`: the principal of
each user, the owner and the policy of each Agent, and the grants. A mutation of the
code is an operator from a database to a database (`Provisioned`, `Granted`, `Revoked`),
its checks an operator beside it (`GrantAccepted`, `RevokeAccepted`). Ids are random
UUIDs in the code: here a grant has the name of its request, and a user that of the
login callback that created it.

| Action | Code |
| --- | --- |
| `Unidentified`, `Enforce`, `Create` | the `onRequest` and `preHandler` hooks (`app.ts:181`, `216`), `enforce` with its audit entry, and the handler up to its first I/O: one step. The verification of the token and the reading of the body do await, but before the decision; from `hasScope` on nothing gives way to another request, since `record` appends synchronously |
| `FilesDone` | the workspace is made or archived, then the mutation is queued |
| `Commit`, `Refuse` | the mutation at the head of the queue, its publication, and the rest of the handler with its entry; or it throws, or cannot be written |
| `AuditPage` | GET `/api/audit`, one page: scope of the reader, filter, cursor, limit |
| `StartLogin`, `Discovered`, `DiscoveryFails`, `Redirect` | GET `/api/auth/login`; all logins wait for one discovery document |
| `Callback`, `Verified`, `ExchangeFails`, `HandOff` | GET `/api/auth/callback`: the state is taken, the code exchanged, the user provisioned by a mutation, the token put behind a code |
| `Exchange` | POST `/api/auth/exchange` |
| `Restart` | the process dies at any point: the mutation at the head may be in the file, the entry in progress may be torn, the one-time maps are gone, and the guardrail settings are read anew |
| `Tick` | the clock: grants, login states, codes and sessions expire |

`Record` and `RecordFails` are what an append does to a file whose last line is
`ended`, `torn` or whole but `unended`; `log` is what `readAll` can parse. Entries are
stamped as they are written, and the clock of the host is taken not to go back: then
newest first is the reverse of the file. In `GuardrailEngine` a text is the set of
the patterns found in it. What the decisions of the engine do to a Run is in
`AgentLifecycle` (`PromptBlocked`, `ProcessExits`) and `CodexRunner` (`DeniedIsBlocked`).

### 2.5 `WebClient`

`user`, `agents`, `selectedId`, `messages`, `activeRun` and `busy` are React's state;
`poll[r]` is the loop of `pollRun` that follows a Run, `off` when `pollingRunIds` does
not have it, and `sending` says which of the loops a `sendMessage` waits for.
`messages` holds the Agent whose messages are on the screen. A request is a member of
`net`: `Answered` is the server's part, the actions named `...Arrives` and `LoopEnds` are
the continuations, in any order. A continuation sets state, React renders, and the
effect of a new selection or principal runs before anything else: `Show` is a part of
the step that changes either. The two requests of one effect and the two refreshes
at the end of a loop count as one, since the code awaits both.

| Action | Code |
| --- | --- |
| `ChooseUser`, `SignOut`, `Select`, `Send`, `Act`, `CreateAgent` | the gestures, as far as the buttons allow them |
| `ViewArrives` | the selection effect, `App.tsx:874-893` |
| `AgentsArrive`, `ActArrives`, `SendArrives` | `refreshAgents` and the handlers |
| `Asks`, `RunArrives`, `LoopEnds` | `pollRun`, `App.tsx:1026-1050` |
| `RunEnds`, `OthersSend` | the server, and whoever else uses it |

The server is what the client sees of it: a status per Agent, a Run that is active or
over, who may see what. That its Runs end is `RunsEnd` of `AgentLifecycle`.

## 3. Runs

All runs explore every interleaving of the requests their configuration names,
each made at most once. `CHECK_DEADLOCK FALSE` is set because a finite set of
requests may all be answered.

| Run | Instance | Distinct states | Question |
| --- | --- | --- | --- |
| `store` | 3 mutations, 2 crashes, 2 failing writes | 11,638 | does the store keep its promises and answer every call? |
| `lifecycle` | 2 Sends, 1 Stop, 1 Start of one Agent; 1 crash, 1 failing write, 1 change of the grant | 62,420 | do rows, maps and processes agree, does a Stop end what it found and a revocation count, does every Run end and every request get an answer? |
| `lifecycle_admin` | 2 Agents, one of them created: create, and a Send, update, guardrail edit, Stop and Delete of the other; 1 failing write | 168,403 | do rows, workspaces and the configuration of a busy Agent agree? |
| `codex_runner` | 2 turns, 2 cancellations; 3 chunks of which 2 are within the limit | 229,396 | is every turn ended, once, and by the right reason? |
| `container_runner` | 2 turns, 2 cancellations | 108,252 | the same, and does a container outlive its turn? |
| `control_plane` | 2 principals, 2 Agents, 13 requests and 3 callbacks in 7 scenarios; clock to 2, 1 crash, 1 refused audit write | 176,025 | do identities, grants, guardrails and the audit log stay what they promise? |
| `web_client` | 2 principals, 2 Agents, 2 Runs in 7 scenarios; 2 or 3 gestures, 1 failing answer | 181,095 | does the screen show what belongs to the selected Agent, and follow its Run to the end? |
| `one_active_run` | 2 Sends, 1 Stop, 1 Start | violation | "One Agent can have only one active Run" |
| `stopped_until_started` | 1 Send, 1 Stop, 1 Start | violation | is a stopped Agent stopped until it is started? |
| `instructions_file` | 1 Send, 2 updates | violation | "AGENTS.md contains the current Agent instructions" |
| `container_timeout` | 1 turn, 1 cancellation | violation | "Maximum duration of one turn" |
| `silent_decision` | a grant to a user who is not known, a view | violation | "No decision is silent" |

### 3.1 Why the bounds are enough

In the store, two mutations that exclude each other and one that is free are what
it takes for a call to throw, to fail and to commit behind each of the others.
Two crashes let the server die during the boot that follows a crash, and two
failing writes let one hit the boot as well as a mutation, or two mutations. What
the bounds leave open is covered by the proofs, which have none.

In the lifecycle every hazard that was found takes at most two Runs of an Agent
and a Stop between them: two Sends give a displaced execution, and the Start makes
room for the second. A crash loses everything in memory, so one is enough to reach
any state that a restart must repair; `lifecycle` has it, with requests that arrive
afterwards. Stop and Delete share the code that ends a Run (`cancelExecution`) and
overlap in `lifecycle_admin`; two Stops of one Agent are left to the proofs. The second
Agent of `lifecycle_admin` exists to be created; Agents share nothing but the queue.

In the runners, a turn can only be affected by what an earlier one left behind: a
container, a removal or a timer. Two turns show it, and two cancellations are a
Stop and a Delete. Three chunks hold the beginning of a line, its rest or another line,
and one beyond the limit. The proofs have no such bounds.

All requests of `control_plane` together would be too many interleavings, and most
of them do not touch each other. A scenario is a set of requests, in any order,
between which a race is possible; the model starts in any of the seven:

1. two visits of the login of one principal, one callback repeated, with expiry of
   state, code and session, and a restart;
2. a grant to a user who has yet to sign in, and his reading of the Agent;
3. two overlapping grants of one Agent, one of which expires, a revocation of the
   other, and an edit by the one who has them;
4. two edits of a policy and a deletion, with a restart under any mode and ceiling;
5. a grant, an edit and a creation while the log of the Agent is paged;
6. a refused policy, a refused view, and the reader's own entries, paged;
7. the same with the operator's view of the log.

Pages have one entry, so that every boundary between two is one; one refused or torn
write can meet one crash, which is how a torn line meets an entry that was due.

A scenario of `web_client` names what the user may do. Two gestures are a selection
and what it interrupts; three let the selection come back. Two Runs of one Agent are
the Run of an earlier visit and a later one, and one failing answer hits any request.

### 3.2 What the properties say

Store:

* `AcknowledgedIsDurable`, `FailedLeavesNoTrace`: what a caller was told is so, in
  memory and in the file, whatever crashes and failures follow.
* `ChecksHoldAtCommit`: a mutation's checks still hold when its write lands.
* `CommitsInCallOrder`: no reordering, across restarts and migrations.
* `Abstract`: all of it at once, as a refinement of `AtomicStore`. The log of the
  abstract store is the file: the rename is the commit, and it only grows (which
  is also a theorem of its own, `FileGrows`).
* `EveryCallSettles`: a throwing or failing mutation does not stop the chain.

Lifecycle:

* `OneProcessPerAgent` holds although `OneActiveRun` does not: the runner's own check
  (`codex-runner.ts:182`) is what keeps two processes out of one workspace.
* `BusyHasExecution`, `ActiveRunIsExecuting`: no Agent is stuck busy and no Run
  is forgotten, except after a failed write of the Run's end, which is the
  `rejected` in the formulas.
* `StopEndsRuns`: when a Stop has answered, the Runs it met are past their
  process. It is stated for a Stop that overlaps no other Stop or Delete of its
  Agent: `cancellationRequests` is a set, the first of two to return clears the flag
  of the other (`agent-service.ts:510`), and a Run that has not started its process yet
  may then start it.
* `NoOrphanRows`, `RowHasWorkspace`: a Delete that races a Run, or fails half-way.
* `BusyFreezesConfiguration`: a Run works with the configuration its Agent shows,
  although edits look before they queue and the Run reads at admission.
* `RevokedNeverRuns`: checkpoint 2 catches what checkpoint 1 let through.
* `RunsEnd`, `RequestsSettle`: liveness.
* `Ledger`: `AgentLifecycle` implements `RunLedger`. A Run is admitted with its
  user message, moves forward only, has an assistant message exactly if it
  completed, and goes only with its Agent.

Runners:

* `Contract`: both implement `RunnerContract`, on which `AgentLifecycle` rests.
* `DeniedIsBlocked`: a denied action is the outcome of the turn although the process
  was terminated for it and exits with an error, although its line may come in several
  chunks, and although it may be in a last line that is parsed after the exit. It speaks
  of actions whose characters all come whole: section 3.7.
* `CancelledIsOver`: `cancel()` returns after the end of the turn, and of the removal.
* `LeftoverHasReason`: the only way a container goes on without a turn.
* `TurnsEnd`, `RemovedTurnEnds`: liveness. The second is all that the container runner
  gives: see the finding.

Control plane:

* `OneUserPerPrincipal`: two first logins, or a callback and its repetition, provision
  one user, because the mutation looks (`policy.ts:79`).
* `OneSessionPerLogin`: a login state and a handoff code are each good once and in time,
  for the principal who signed in, whatever is repeated and lost.
* `RevokedIsRefused`: a request that is let through has an owner or a grant behind it
  that was committed, has not expired, and of which no revocation had been answered.
* `GuardrailsHold`: "An owner can neither remove them nor loosen them"
  (`policy-defaults.ts`): whatever policy is stored, and whatever mode and ceiling it
  was stored under, the baseline decides as it would alone, its secrets are masked,
  the sandbox is under the ceiling now in force, and only enforcing blocks.
* `AuditTrail`: what the code means to write is in the log but for at most two entries
  per crash or refused write, and nothing else is. The checkpoint means to write every
  denial and every allow, but the allows of `grant`, `revoke` and `listGrants`
  (`handlerAudits`); the handlers mean to write every grant, revocation, guardrail edit
  and creation that took effect. Two is exact: a line that was cut short takes the next
  entry with it (`JsonlAuditStore.ts:16`), and no third. That a decision may be in neither
  group is finding 5.
* `PagesShowEachOnce`: following the cursor shows what was there at the first page,
  once and in order, while entries are added.

Web client:

* `ShownIsSelected`: no late answer puts the Run or the messages of one Agent under the
  name of another.
* `ActiveRunIsFollowed`: two loops are not started for one Run and none is missing,
  through selections away and back, changes of principal and failing answers.
* `FollowedToTheEnd`: whoever still looks at the Agent when its Run ends sees the end.

Every property has a mutant in `PROJECT.json`: a plausible bug of the code, beside
the definition it would change and marked "Bug" there, that breaks it.

### 3.3 Fairness

`JsonStore!FairSpec` has weak fairness of `Step`: a ready callback is run and file I/O
completes, with success or by `PersistFails`; a dead server is started again.
`AgentLifecycle!FairSpec` has weak fairness of `Progress`, the steps the server owes:
commits, file operations, continuations, and the end of a process, which the
runner enforces with a timeout, SIGTERM and, 3 s later, SIGKILL
(`codex-runner.ts:249`, `297`). One fairness condition for all of them is less than
the event loop gives (it is fair to each callback). Nothing is assumed of
clients, of crashes, of failures or of grants.

That a process ends is what `codex_runner` checks (`TurnsEnd`). There timers fire, a
process that got SIGKILL exits, and promises settle; it need not exit by itself nor on
SIGTERM. One assumption is not the code's to keep: a process that Codex started and
that keeps stdout or stderr open lets it go (`Release`), since `run()` waits for the pipes
(`codex-runner.ts:257`) and only Codex itself is signalled. In `ContainerRunner` the
removal ends (`execFile` has a timeout of 8 s) and the client ends with its
container or when killed; nothing makes the engine create a container or Codex end.
With the container runner `AgentLifecycle`'s fairness is therefore an assumption,
which finding 4 shows to be one.

`WebClient!Fairness` has weak fairness of `NetworkStep` (the network answers every
request or fails it, and some continuation runs), of the loop of each Run (its timer
fires, its request is answered), and of `RunEnds`, which is what `RunsEnd` gives. Requests
with `fetch` have no timeout in the code: a browser ends them. `NetworkStep` is one
condition for all requests, which is less than the network gives, and enough, since
gestures are finite. Nothing is assumed of the user. `ControlPlane` has no liveness
property and no fairness.

### 3.4 Findings

1. `one_active_run`: a Stop that arrives while a Send is queued finds nothing to
   cancel, and its "stopped" overwrites the "busy" of the Run that is admitted
   before it commits. After a Start, a second Send is admitted: two active Runs.
   The second fails at the runner. (`agent-service.ts:494`, `501-512`) The theorem
   `StopLetsIn` says that nothing else does it: without a Stop of the Agent that was
   answered, no race, crash or failing write admits a second Run.
2. `stopped_until_started`: the same Stop, and the Run completes: it writes "ready"
   over "stopped" (`agent-service.ts:429`), where a failing Run does not (`449`). The
   theorem `StoppedStays` says that a Run that completes is the only other way out of
   "stopped".
3. `instructions_file`: two updates commit in one order and write `AGENTS.md` in the
   other, since the file is written outside the queue (`agent-service.ts:132`).
4. `container_timeout`: a Stop, or another reason to remove the container, that comes
   before the engine has created it finds nothing to remove. If the engine takes that
   for success, the container starts afterwards, and no later reason removes it,
   because the promise of the first removal is memoised: the timeout does nothing and
   the Stop waits. (`container-codex-runner.ts:125`)
5. `silent_decision`: for a grant or a revocation the checkpoint leaves the entry of an
   allow to the handler (`enforcement.ts:108`), which writes it after its mutation
   (`app.ts:372`, `397`). If the mutation throws, since the user is not known or the grant
   does not exist, the decision was made and the log has nothing of it, although
   `enforcement.ts:13` says "No decision is silent: allow and deny are both written to the
   audit log" and `docs/POLICY_ENFORCEMENT.md:20` "Every call to `enforce()` writes one
   audit entry". No crash and no refused write is needed. The theorem
   `OnlyRefusedIsSilent` says that nothing else is silent, but for an allowed listing of
   grants, which `POLICY_ENFORCEMENT.md:82` excepts.

Two more races are excluded from what is stated, and named where: overlapping Stops
share one flag (`StopEndsRuns`, above), and a Stop does not await an execution that a
later one displaced from `activeExecutions`. A torn line of the audit log that swallows
the next entry is the "two" of `AuditTrail`.

### 3.5 A deleted Agent's grants

`deleteAgent` leaves the grants of the Agent in the database, and so does the model
(`Mutated`). No request gets anything from them: `HasScope` asks for the Agent first,
and ids are not used again.

### 3.6 Races of the web client

These came up as counterexamples while the properties of `WebClient` were stated. No
doc says otherwise, so they are no findings; the invariants are stated around them.

* `App.tsx:880`: the loop of a Run has seen it end and makes its last refresh; the
  Agent is opened again, and an answer to `api.runs` that was given before the end
  comes now. The effect shows "running" and calls `pollRun`, which returns at once
  because the Run is still in `pollingRunIds`; then the loop ends. The screen says
  "running", and the composer is off, until the Agent is opened again.
  `ActiveRunIsFollowed` therefore speaks of Runs that are active on the server.
* `App.tsx:886`: the effect's success branch looks whether its Agent is still selected,
  the `catch` does not: a 403 about the Agent that was left empties the messages of the
  one that is shown and says that its view is restricted. `ShownIsSelected` is about
  what is shown, and allows nothing to be.
* `App.tsx:759`: lists of Agents carry no order. An older one that comes later brings
  back an old status, or after a change of principal the Agents of the former one,
  until the next list.
* A creation under way while the principal changes selects an Agent that the new one
  does not list; the next list corrects it.
* A load that fails leaves the messages of the Agent that was shown before, under a
  banner: the `selectedId \in reported` in `ShownIsSelected`.

### 3.7 Characters that are cut in two

The runners decode each chunk of output by itself (`codex-runner.ts:232`,
`container-codex-runner.ts:196`). A character of several bytes that ends up in two chunks
becomes replacement characters. JSON stays well-formed, but the command or the path that
is read is not the one that Codex runs, and a pattern with such a character no longer
matches: a denied action goes unnoticed, and its turn may complete. `CodexRunner` has this
(`Decoded`: a denied line of several chunks may be read as `garbled`, which denies
nothing), so that `DeniedIsBlocked` without "whole" does not hold of it. No document
says how output is decoded; it is a weakness of the code, and no finding.

## 4. Proofs

### 4.1 The store

`JsonStore_proofs` proves, for every set of calls, every relation of exclusion and
every number of crashes and faults (the only assumption is `StoreAssumption`, which
says that the constants have their types and that "no file" and "a torn file"
are not databases):

| Theorem | States |
| --- | --- |
| `TypeCorrect` | `Spec => []TypeOK` |
| `Durability`, `NoTrace` | `Spec => []AcknowledgedIsDurable`, `Spec => []FailedLeavesNoTrace` |
| `Snapshots` | `Spec => []MemoryIsDurable` |
| `ChecksHold`, `CallOrder` | `Spec => []ChecksHoldAtCommit`, `Spec => []CommitsInCallOrder` |
| `FileGrows` | `Spec => FileOnlyGrows` |
| `Implements` | `Spec => Abstract`: the store refines `AtomicStore` |

None of these invariants is inductive. That a caller told "done" finds its
mutation in the file depends on what is in the clone when it is renamed, and that
depends on what the chain did before. The inductive invariant `IInv` has six parts:

* `TypeOK`;
* `Shape`: what memory, clone and temporary file are at each stage, in terms of
  the file: `data` is the file except between rename and publication, and the
  clone is the file with the first call of the chain appended;
* `Callers`: the chain holds calls that are pending, each once;
* `Told`: a call that is done is in the file, an idle or failed one is not, and a
  pending one is only if it was renamed and not yet published;
* `Order`: the file, then the chain, are in the order of the calls;
* `Checks`: `ChecksHoldAtCommit`, about the file.

Each part has a lemma that says `Init` implies it and one that says every step
keeps it, given the parts before it. The theorems follow from `Invariance`
(`Spec => []IInv`). The refinement maps each step: `Rename` of a mutation commits,
`Publish` acknowledges, `Reject` and `PersistFails` refuse, `Mutate` requests, `Crash`
crashes, and the others, the boot among them, stutter.

### 4.2 The lifecycle

`AgentLifecycle_proofs` proves, for every set of Agents and requests and every number of
crashes, failures and changes of the grants (the only assumption is
`LifecycleAssumption`, the types of the constants):

| Theorem | States |
| --- | --- |
| `TypeCorrect` | `Spec => []TypeOK` |
| `OneProcess` | `Spec => []OneProcessPerAgent` |
| `BusyAgents`, `ActiveRuns` | `Spec => []BusyHasExecution`, `Spec => []ActiveRunIsExecuting` |
| `NoOrphans`, `RowsHaveWorkspaces` | `Spec => []NoOrphanRows`, `Spec => []RowHasWorkspace` |
| `BusyConfiguration` | `Spec => []BusyFreezesConfiguration` |
| `StopsEndRuns` | `Spec => []StopEndsRuns` |
| `RevokedRuns` | `Spec => RevokedNeverRuns` |
| `StopLetsIn` | `Spec => []SecondRunNeedsStop`: two active Runs of an Agent need an answered Stop of it |
| `StoppedStays` | `Spec => StoppedUntilLeft`: "stopped" is left by a Start, a deletion, or a Run that completes |
| `Implements` | `Spec => Ledger`: the lifecycle refines `RunLedger` |

Three inductive invariants carry the types, the rows and the refinement. `RunInv` adds to `TypeOK` that the row of a Run
follows its execution (`Follows`: queued while its first mutation is, running while
it has a process, over when it has settled) and holds `NoOrphanRows`,
`BusyHasExecution` and `OneProcessPerAgent`, each of which needs the others: that the
Agent of a Run in progress exists, for instance, rests on Deletes removing both.
`ConfigInv` adds to `BusyFreezesConfiguration` that the execution registered for an
Agent is one of that Agent (`Registered`). `WorkspaceInv` says where the directory of an
Agent is at each stage of its creation and deletion (`Placed`, `Unborn`). Since two
dozen actions touch few of these variables, each invariant comes with a lemma
(`Effects`, `ConfigEffects`, `PlaceEffects`) that sorts the steps by what they do to
them, and a lemma per kind of step.

`StopEndsRuns` needs what a Stop relies on while it waits (`StopInv`):

* `QueueInv`: whoever waits for a mutation is in the queue, once. The executions of
  one Agent are then served in the order of their positions (`Ahead`).
* `LastIsRegistered`: of the Runs of an Agent that are about to start, the one in
  `activeExecutions` is the last in the queue. The map has room for one only, so a Stop
  that awaits that one awaits all.
* `Watched`, of each Stop: as long as it waits alone, its flag is up, so that whichever
  of its Runs comes to its first mutation is cancelled there, and none of them starts
  later than the execution it awaits (`Heeded`); afterwards they are past their process.

A step is either one of a waiting Stop or one of the others, which leave flags alone and
start no process under a flag (`Others`). `RevokedRuns` rests on `Barred`: once the grant
is gone for good, `SpawnProcess`, which looks again, is disabled for the Run.

`SingleInv` carries `StopLetsIn`. A second Run is admitted only if the Agent is not
busy although one of its Runs is active; `Unheld` says that this takes an answered Stop.
It needs `RunInv` (a Run that ends sets its Agent free, and no other does), and `Gone`
and `WorkspaceInv` for an Agent that is deleted and must not come back.

### 4.3 The runners

`CodexRunner_proofs` and `ContainerRunner_proofs` prove `TypeCorrect`, `CancelledTurns`
(`[]CancelledIsOver`), `Implements` (`Spec => Contract`), and `DeniedTurns`
(`[]DeniedIsBlocked`) or `Leftovers` (`[]LeftoverHasReason`), for any number of turns,
cancellations and chunks. The invariant `Inv` says that the registered turn is the one
that runs and the one with a process (`Registered`), that a turn asked to stop has no other
end (`CancelHolds`), that a call of `cancel` that waits has asked (`Asked`), and where a
denied action that came whole is recorded until the turn ends (`Recorded`), or that a client is
signalled only after the removal has failed (`Signalled`). The assumptions are the
types of the constants, and that `None` is not a turn or a kind of line.

### 4.4 The control plane

`ControlPlane_proofs` proves, for all sets of principals, Agents, requests, callbacks,
texts and owner patterns, all scenarios and any number of crashes and refused writes:

| Theorem | States |
| --- | --- |
| `Guardrails` | `Spec => []GuardrailsHold` |
| `OneUser` | `Spec => []OneUserPerPrincipal` |
| `OneSession` | `Spec => []OneSessionPerLogin` |
| `RevokedRefused` | `Spec => RevokedIsRefused` |

`Guardrails` rests on lemmas about the engine alone: that the first match of a policy is
the baseline's whenever the baseline has one (`BaselineIsFirst`, from `Least`: a
non-empty set of numbers has a least member), that screening masks what any
output rule finds, and that an acceptable input is a policy (`AcceptableIsPolicy`).
`EngineHolds` puts them together for every policy, so that only `db \in Database` is left
to the invariant. The rest is about the handlers. `Inv` is `Types` and:

* `Waiting`: the queue holds requests and callbacks that wait for it, once each; without
  it a mutation could be applied twice, and a second grant of the same request could
  undo a revocation;
* `OneTaken`: one callback of a login is past the check of its state, and its code is
  there or was delivered once;
* `UsersOK`: one user per principal; a callback names a user only once it was
  provisioned, and its principal has one when the token is made;
* `SessionsOK`: codes and sessions are of the login's principal, and dated;
* `GrantsOK`: a stored grant is what its committed request asked for, and one whose
  revocation was answered is revoked.

`AuditTrail_proofs` and `AuditLog_proofs` prove the rest, for any number of crashes, refused
writes, entries and pages:

| Theorem | States |
| --- | --- |
| `ControlPlaneTypes` | `Spec => []TypeOK` |
| `NothingElseIsMissing` | `Spec => []AuditTrail` |
| `OnlyRefusedIsSilent` | `Spec => []SilentIsRefused`: while nothing fails, a decision without an entry is an allowed grant or revocation whose mutation was refused |
| `PagesShow` | `Spec => []PagesShowEachOnce` |
| `NextPage` | a page starts right behind the entry its cursor names, for any log, filter and limit |

`AuditTrail` counts entries that are missing, and a fault can make one go missing that is
written afterwards. The invariant therefore counts what the last line may still cost
(`Owed`: an `unended` line can lose itself and the next entry, a `torn` one the next): missing
and owed entries together are at most twice the crashes and refused writes. Every step of
the log is an entry that is due (`Audited`), the death of the process (`Died`), or nothing
(`Still`). That an entry is due once is `Deciding`: a request is decided once and its
mutation committed once. `OnlyRefusedIsSilent` follows with `Answered`: a grant or a
revocation that was answered well has been committed.

`PagesShowEachOnce` needs what the filtered log is at a later page: the snapshot with newer
entries in front, since writes only append. When the last line is lost with an entry of
the snapshot, the premise of the property is gone for good. The filter is a recursive
function over the log (`NewestFirst`). What holds of it for every log (`AuditLog_proofs`) is
proved with the least number at which it would fail, which exists because the sets 0..n
are finite (`LeastNumber`, `UpTo`): the induction theorems of the library take a
predicate, which the provers cannot instantiate.

The assumptions are `GuardrailAssumption`, `IdentityAssumption` and
`ControlPlaneAssumption`: the types of the constants, that requests, callbacks,
principals and `None` have different names, that `None` is not a grant, and that the
missing cursor, `Unset`, is not the id of an entry.

### 4.5 The web client

`WebClient_proofs` proves `ShownBelongs` (`Spec => []ShownIsSelected`), `Followed`
(`Spec => []ActiveRunIsFollowed`) and `WebClientTypes` (`Spec => []TypeOK`) for all Agents, Runs, principals and scenarios. `Inv`
adds `Shape` (types), `CallsOK` and `RunsOK`. `CallsOK` is what makes it inductive: an
answer under way speaks of the Agent it was asked about, a Run it mentions was started
and belongs to that Agent, one that it calls over is over, and the Send of a Run and
the last refresh of its loop are made once at a time. `RunsOK` says that a loop follows
a Run that was started, and refreshes one that is over. The assumption is
`WebClientAssumption`, the types of the constants and that `None` is no answer.

The types include that requests under way have different numbers. `Fresh` chooses a
number from 0..n for n requests: it exists because there are finitely many of them, and
one number more than requests (`FreshNumber`). A list of Agents that is under way must
hold statuses only (`NetOK`), or the screen would not.

### 4.6 Only model-checked

`EveryCallSettles`, `RunsEnd`, `RequestsSettle`, `TurnsEnd`, `RemovedTurnEnds` and
`FollowedToTheEnd` are liveness properties, which the proof system does not reach: it has
no rule for fairness or `ENABLED`. Every invariant, every action property and every
refinement that a passing run checks is a theorem. The properties of the five runs that
find a violation are, of course, not; `StopLetsIn`, `StoppedStays` and
`OnlyRefusedIsSilent` prove what is left of three of them.

## 5. What is not modelled

* Reads (`snapshot`, the GET routes) change no state. `MemoryIsDurable` is about what
  they show; the audit query is modelled because it goes over several requests.
* A Codex process that survives a killed server is outside the program: `Restart` of
  `AgentLifecycle` forgets it.
* Of the HTTP API: the gate of the shared token, validation by schema, static files,
  error bodies. They keep no state.
* Of the guardrails: regular expressions, their cache of compiled forms, and the
  resolution of paths. A text is the set of what is found in it.
* Of the output of Codex: its bytes. That a character cut in two between chunks is lost is
  modelled by what it does to a denied action (section 3.7); that the text of an answer
  gets replacement characters is not.
* Of the audit log: the entries of checkpoint 2 and of the guardrails, which have the form
  of the ones that are there; the redaction of payloads, and filters by action, decision
  and time, which have the form of the two that are there; `MemoryAuditStore`.
* Of identity: logout (it changes nothing on the server), the sweep of a map that has
  200 entries (it removes what would be refused), PKCE, signatures and the provider,
  which are external; `test-idp.ts` is a test double.
* Of the start-up: the parsing of environment variables.
* Of the web client: forms, the panels for settings, access, guardrails and audit,
  banners, the gates of sign-in; they render, and change state only by the requests that
  `ControlPlane` has. `busy` and the selection are the state they share with the rest.
* Packaging and deployment.

## 6. Plan

1. `JsonStore`, `AtomicStore`, their proofs. Done.
2. `AgentLifecycle`, `RunLedger`. Done.
3. `CodexRunner`, `ContainerRunner`, `RunnerContract`, their proofs. Done.
4. `Authorization` with its theorem. Done.
5. `GuardrailEngine` with its theorem. Done.
6. `AuditLog` with its theorems. Done.
7. `Identity` with its theorems. Done.
8. `WebClient` with its theorems. Done; its panels are left out.
9. Proofs about `AgentLifecycle`, `StopEndsRuns` and `RevokedNeverRuns` among them. Done.
10. `AuditTrail` and `PagesShowEachOnce` for every log. Done.
11. What remains to be proved: what two overlapping Stops of one Agent still guarantee
    (the hazard at `agent-service.ts:510`), when `AGENTS.md` agrees with the row (as
    `StopLetsIn` does for finding 1), and which steps of a container's client and its
    removal finding 4 needs.
