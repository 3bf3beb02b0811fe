---------------------------- MODULE ControlPlane ----------------------------
(***************************************************************************)
(* The server's HTTP API (app.ts, enforcement.ts) over its components: who *)
(* asks (Identity), whether he may (Authorization), what the mutation does *)
(* to the database, which guardrails an Agent gets (GuardrailEngine), and  *)
(* what the audit log keeps (AuditLog).                                    *)
(*                                                                         *)
(* A request arrives, is identified, is decided upon and runs its handler  *)
(* up to its first I/O in one action.  A mutation waits in the queue of    *)
(* the store; its commit, the publication of the new database and the rest *)
(* of the handler with its audit entry are one action, and a crash may     *)
(* come between the file and the rest.  Runs, workspaces and statuses are  *)
(* in AgentLifecycle; here an Agent may be busy at any time.               *)
(*                                                                         *)
(* Scenarios bounds the runs of TLC: each is a set of requests and login   *)
(* callbacks that clients may make, each once, in any order; with it come  *)
(* how clients are identified, who is known and who owns what at first, how*)
(* long it goes on, and the settings the operator may restart with.        *)
(***************************************************************************)
EXTENDS Identity, AuditLog

CONSTANTS
    Ask,               \* [Requests -> [op, by, agent, grant, input]]
    Scenarios,         \* of [auth, known, owner, requests, callbacks, until, settings]
    PageSize,          \* entries in a page of the audit log
    MaxCrashes,        \* bound: times the server dies and restarts
    MaxFaults          \* bound: times the disk refuses an audit entry

Ops == DOMAIN Action \cup {"create", "audit"}
EntryIds == Requests \X {"decision", "effect"}

AskIsTyped(r) ==
    /\ Ask[r].op \in Ops /\ Ask[r].by \in Principals
    /\ Ask[r].op # "audit" => Ask[r].agent \in Agents
    /\ Ask[r].op = "guardrail" => Ask[r].input \in Input
    /\ Ask[r].op = "revoke" => Ask[r].grant \in Requests
    /\ Ask[r].op = "grant" => Ask[r].grant \in [to : Users, scopes : SUBSET Scopes,
                                                expires : Time \cup {None}]

ScenarioIsTyped(s) ==
    /\ s.known \subseteq Principals /\ s.owner \in [Agents -> Users \cup {None}]
    /\ s.requests \subseteq Requests /\ s.callbacks \subseteq Callbacks
    /\ s.until \in Time /\ s.settings \subseteq Modes \X SandboxModes

ASSUME ControlPlaneAssumption ==
    /\ Requests \cap Callbacks = {} /\ Principals \cap Callbacks = {}
    /\ None \notin Users /\ None \notin Grant /\ None \notin {"allow", "deny"}
    /\ Unset \notin EntryIds
    /\ \A r \in Requests : AskIsTyped(r)
    /\ \A s \in Scenarios : ScenarioIsTyped(s)
    /\ PageSize \in Nat \ {0} /\ MaxCrashes \in Nat /\ MaxFaults \in Nat

VARIABLES
    scenario,          \* one of Scenarios, chosen at first
    queue,             \* the handlers whose mutation is queued in the store
    pc,                \* where each request is
    actor,             \* the user each request was identified as
    decided,           \* the decision of the checkpoint on each request
    committed,         \* history: the requests whose mutation is in the file
    seen,              \* the ids of the entries that each reader was shown
    snapshot,          \* history: the ids he could see at his first page
    crashes, faults    \* history: counters for the bounds

requestVars == <<queue, pc, actor, decided, committed>>
readerVars == <<seen, snapshot>>
fixed == <<scenario, guardrailVars, crashes>>
vars == <<db, now, identityVars, guardrailVars, auditVars, requestVars, readerVars,
          scenario, crashes, faults>>

Entry == [id : EntryIds, actor : Users, target : Agents]

TypeOK ==
    /\ db \in Database /\ now \in Time
    /\ GuardrailConfigured /\ IdentityTypeOK
    /\ AuditTypeOK(Entry)
    /\ scenario \in Scenarios
    /\ queue \in Seq(Requests \cup Callbacks)
    /\ pc \in [Requests -> {"idle", "files", "queued", "paging", "done", "refused", "lost"}]
    /\ actor \in [Requests -> Users \cup {None}]
    /\ decided \in [Requests -> {None, "allow", "deny"}]
    /\ committed \subseteq Requests
    /\ seen \in [Requests -> Seq(EntryIds)] /\ snapshot \in [Requests -> Seq(EntryIds)]
    /\ crashes \in 0..MaxCrashes /\ faults \in 0..MaxFaults

Init ==
    /\ scenario \in Scenarios
    /\ db = [users |-> [u \in Users |-> IF u \in scenario.known THEN u ELSE None],
             owner |-> scenario.owner,
             policy |-> [a \in Agents |-> DefaultPolicy],
             grants |-> [r \in Requests |-> None]]
    /\ now = 0
    /\ mode = "enforce" /\ sandboxCeiling = "workspace-write"
    /\ IdentityInit(scenario.known)
    /\ log = <<>> /\ lastLine = "ended"
    /\ queue = <<>>
    /\ pc = [r \in Requests |-> "idle"]
    /\ actor = [r \in Requests |-> None]
    /\ decided = [r \in Requests |-> None]
    /\ committed = {}
    /\ seen = [r \in Requests |-> <<>>] /\ snapshot = [r \in Requests |-> <<>>]
    /\ crashes = 0 /\ faults = 0

-----------------------------------------------------------------------------
\* The principal: a session token, or the X-User-Id header in local mode.
Identified(r, u) ==
    /\ Known(db, u) /\ db.users[u] = Ask[r].by
    /\ scenario.auth = "oidc" => HoldsSession(u)

Arrives(r, op) == r \in scenario.requests /\ pc[r] = "idle" /\ Ask[r].op \in op

\* 401, without an entry.
Unidentified(r) ==
    /\ Arrives(r, Ops)
    /\ \A u \in Users : ~Identified(r, u)
    /\ pc' = [pc EXCEPT ![r] = "refused"]
    /\ UNCHANGED <<queue, actor, decided, committed, db, now, identityVars, auditVars,
                   readerVars, fixed, faults>>

\* The entry is written, or the disk refuses it and the request goes on.
Audit(r, u, stage) ==
    LET entry == [id |-> <<r, stage>>, actor |-> u, target |-> Ask[r].agent] IN
    \/ Record(entry) /\ UNCHANGED faults
    \/ faults < MaxFaults /\ RecordFails(entry) /\ faults' = faults + 1

\* The first mutations of the handlers, and what comes before them.
Handler(r, busy) ==
    CASE Ask[r].op \in {"view", "viewRuns", "send", "listGrants"} -> "done"
      [] Ask[r].op \in {"delete", "create"} -> "files"
      [] Ask[r].op \in {"grant", "revoke"} -> "queued"
      [] Ask[r].op = "guardrail" ->
            IF Acceptable(Ask[r].input) /\ ~busy THEN "queued" ELSE "refused"

Goes(r, next) ==
    /\ pc' = [pc EXCEPT ![r] = next]
    /\ queue' = IF next = "queued" THEN Append(queue, r) ELSE queue

(* Checkpoint 1: hasScope, the audit entry, then the handler.  An allowed   *)
(* request whose handler writes the entry is not recorded here.             *)
Enforce(r) ==
    /\ Arrives(r, DOMAIN Action)
    /\ \E u \in Users :
          LET ok == HasScope(db, u, Ask[r].agent, Action[Ask[r].op]) IN
          /\ Identified(r, u)
          /\ actor' = [actor EXCEPT ![r] = u]
          /\ decided' = [decided EXCEPT ![r] = IF ok THEN "allow" ELSE "deny"]
          /\ IF ok /\ HandlerAudits(Ask[r].op) THEN UNCHANGED <<auditVars, faults>>
             ELSE Audit(r, u, "decision")
          /\ \E busy \in BOOLEAN : Goes(r, IF ok THEN Handler(r, busy) ELSE "refused")
    /\ UNCHANGED <<committed, db, now, identityVars, readerVars, fixed>>

\* POST /api/agents has no rule: everybody may create an Agent.
Create(r) ==
    /\ Arrives(r, {"create"})
    /\ \E u \in Users : Identified(r, u) /\ actor' = [actor EXCEPT ![r] = u]
    /\ Goes(r, "files")
    /\ UNCHANGED <<decided, committed, db, now, identityVars, auditVars, readerVars,
                   fixed, faults>>

\* The workspace is made or archived (deleteAgent ends the Agent's Run first).
FilesDone(r) ==
    /\ pc[r] = "files"
    /\ Goes(r, "queued")
    /\ UNCHANGED <<actor, decided, committed, db, now, identityVars, auditVars,
                   readerVars, fixed, faults>>

\* The callback of a login has verified its user.
Verified(c) ==
    /\ c \in scenario.callbacks
    /\ Exchanged(c)
    /\ queue' = Append(queue, c)
    /\ UNCHANGED <<pc, actor, decided, committed, db, now, auditVars, readerVars,
                   fixed, faults>>

-----------------------------------------------------------------------------
GrantOf(r) == [agent |-> Ask[r].agent, to |-> Ask[r].grant.to,
               scopes |-> Ask[r].grant.scopes, expires |-> Ask[r].grant.expires,
               revoked |-> FALSE]

\* What the mutation checks, and what it does: deleteAgent leaves the grants.
Accepted(h) ==
    \/ h \in Callbacks
    \/ /\ h \in Requests
       /\ CASE Ask[h].op = "grant" -> GrantAccepted(db, actor[h], GrantOf(h))
            [] Ask[h].op = "revoke" -> RevokeAccepted(db, Ask[h].agent, Ask[h].grant)
            [] Ask[h].op = "guardrail" -> Exists(db, Ask[h].agent)
            [] Ask[h].op \in {"delete", "create"} -> TRUE

Mutated(h) ==
    IF h \in Callbacks THEN Provisioned(db, h, Subject[LoginOf[h]])
    ELSE CASE Ask[h].op = "grant" -> Granted(db, h, GrantOf(h))
           [] Ask[h].op = "revoke" -> Revoked(db, Ask[h].grant)
           [] Ask[h].op = "guardrail" -> [db EXCEPT !.policy[Ask[h].agent] = Ask[h].input]
           [] Ask[h].op = "delete" -> [db EXCEPT !.owner[Ask[h].agent] = None]
           [] Ask[h].op = "create" -> [db EXCEPT !.owner[Ask[h].agent] = actor[h],
                                                 !.policy[Ask[h].agent] = DefaultPolicy]

\* Handlers that write an entry about what they did.
AuditsEffect(h) ==
    h \in Requests /\ Ask[h].op \in {"grant", "revoke", "guardrail", "create"}

AtHead(h) == queue # <<>> /\ Head(queue) = h

Commit(h) ==
    /\ AtHead(h)
    /\ Accepted(h)
    /\ db' = Mutated(h)
    /\ queue' = Tail(queue)
    /\ \/ h \in Callbacks /\ UserStored(h, TRUE) /\ UNCHANGED <<pc, committed>>
       \/ /\ h \in Requests
          /\ pc' = [pc EXCEPT ![h] = "done"]
          /\ committed' = committed \cup {h}
          /\ UNCHANGED identityVars
    /\ IF AuditsEffect(h) THEN Audit(h, actor[h], "effect")
       ELSE UNCHANGED <<auditVars, faults>>
    /\ UNCHANGED <<actor, decided, now, readerVars, fixed>>

\* A check throws, the Agent is busy, or the file cannot be written.
Refuse(h) ==
    /\ AtHead(h)
    /\ queue' = Tail(queue)
    /\ \/ h \in Callbacks /\ UserStored(h, FALSE) /\ UNCHANGED pc
       \/ h \in Requests /\ pc' = [pc EXCEPT ![h] = "refused"] /\ UNCHANGED identityVars
    /\ UNCHANGED <<actor, decided, committed, db, now, auditVars, readerVars, fixed, faults>>

-----------------------------------------------------------------------------
(* GET /api/audit: an operator reads everything; anybody else the log of    *)
(* an Agent he owns or can see, or his own entries.                         *)
MayRead(r, u) == Ask[r].agent # Unset => CanSee(db, u, Ask[r].agent)

ScopeOf(r, u) ==
    [target |-> Ask[r].agent,
     actor |-> IF Ask[r].agent = Unset /\ ~OwnerCapable(db, u) THEN u ELSE Unset]

Ids(entries) == [i \in DOMAIN entries |-> entries[i].id]

ReadPage(r, u) ==
    LET cursor == IF seen[r] = <<>> THEN Unset ELSE seen[r][Len(seen[r])]
        answer == Query(ScopeOf(r, u), cursor, PageSize)
    IN  /\ seen' = [seen EXCEPT ![r] = @ \o Ids(answer.entries)]
        /\ snapshot' = IF seen[r] # <<>> THEN snapshot
                       ELSE [snapshot EXCEPT ![r] = Ids(Filtered(ScopeOf(r, u)))]
        /\ pc' = [pc EXCEPT ![r] = IF answer.nextCursor = Unset THEN "done" ELSE "paging"]

AuditPage(r) ==
    /\ r \in scenario.requests /\ Ask[r].op = "audit" /\ pc[r] \in {"idle", "paging"}
    /\ \E u \in Users :
          /\ Identified(r, u)
          /\ \/ MayRead(r, u) /\ ReadPage(r, u)
             \/ ~MayRead(r, u) /\ pc' = [pc EXCEPT ![r] = "refused"] /\ UNCHANGED readerVars
    /\ UNCHANGED <<queue, actor, decided, committed, db, now, identityVars, auditVars,
                   fixed, faults>>

-----------------------------------------------------------------------------
(* The server dies and starts again: the mutation at the head may be in the *)
(* file, and the entry that was being written may be cut short.  Both       *)
(* settings of the guardrails are read anew.                                *)
Restart ==
    /\ crashes < MaxCrashes
    /\ crashes' = crashes + 1
    /\ \E durable \in BOOLEAN :
          /\ durable => queue # <<>> /\ Accepted(Head(queue))
          /\ db' = IF durable THEN Mutated(Head(queue)) ELSE db
          /\ committed' = IF durable /\ Head(queue) \in Requests
                          THEN committed \cup {Head(queue)} ELSE committed
          /\ LogDies(\/ durable /\ AuditsEffect(Head(queue))
                     \/ \E r \in scenario.requests : pc[r] = "idle")
    /\ queue' = <<>>
    /\ pc' = [r \in Requests |-> IF pc[r] \in {"files", "queued"} THEN "lost" ELSE pc[r]]
    /\ IdentityRestarts
    /\ \E s \in scenario.settings : mode' = s[1] /\ sandboxCeiling' = s[2]
    /\ UNCHANGED <<actor, decided, now, readerVars, scenario, faults>>

Tick ==
    /\ now < scenario.until
    /\ now' = now + 1
    /\ UNCHANGED <<db, identityVars, auditVars, requestVars, readerVars, fixed, faults>>

SignIn ==
    /\ \/ IdentityStep
       \/ \E c \in scenario.callbacks : StartLogin(LoginOf[c])
    /\ UNCHANGED <<db, now, auditVars, requestVars, readerVars, fixed, faults>>

Next ==
    \/ \E r \in Requests : \/ Unidentified(r) \/ Enforce(r) \/ Create(r)
                           \/ FilesDone(r) \/ AuditPage(r)
    \/ \E c \in Callbacks : Verified(c)
    \/ \E h \in Requests \cup Callbacks : Commit(h) \/ Refuse(h)
    \/ SignIn \/ Tick \/ Restart

Spec == Init /\ [][Next]_vars

-----------------------------------------------------------------------------
(* One principal has one user, however many of his logins are under way:    *)
(* provisionOidcUser looks him up inside the mutation.                      *)
OneUserPerPrincipal ==
    \A u, v \in Users : Known(db, u) /\ db.users[u] = db.users[v] => u = v

(* A login ends in at most one session, of the principal who signed in and  *)
(* not later than the handoff code allows, although its callback and its    *)
(* exchange may be repeated and the server may restart between them.        *)
OneSessionPerLogin ==
    /\ \A c, d \in Callbacks : LoginOf[c] = LoginOf[d] /\ delivered[c] > 0
                                /\ delivered[d] > 0 => c = d /\ delivered[c] = 1
    /\ \A s \in sessions : s.callback # None =>
          /\ db.users[s.user] = Subject[LoginOf[s.callback]]
          /\ s.taken <= s.minted + HandoffTTL

(* The right to do what was decided: nobody but the owner is let through    *)
(* without a grant of that scope of that Agent, which has not expired and   *)
(* whose revocation was not answered before the request arrived - not even  *)
(* after a restart.                                                         *)
AnsweredRevoke(g) ==
    \E r \in Requests : Ask[r].op = "revoke" /\ Ask[r].grant = g /\ pc[r] = "done"

RevokedIsRefused ==
    [][\A r \in Requests :
          decided[r] = None /\ decided'[r] = "allow" /\ db.owner[Ask[r].agent] # actor'[r]
          => \E g \in committed : /\ Ask[g].op = "grant" /\ ~AnsweredRevoke(g)
                                  /\ Ask[g].agent = Ask[r].agent
                                  /\ Action[Ask[r].op] \in Ask[g].grant.scopes
                                  /\ Ask[g].grant.to = actor'[r]
                                  /\ (Ask[g].grant.expires # None
                                         => Ask[g].grant.expires > now)]_vars

(* The audit log has an entry of each decision that the checkpoint writes   *)
(* down itself - of every denial, and of what it allows except where the    *)
(* handler writes the entry - and of every grant, revocation, guardrail edit*)
(* and creation that took effect, except at most two per crash or refused   *)
(* write: the one that was being written and, when it was cut short, the one*)
(* that came after it.  It has no entry of anything else.                   *)
Due ==
    {<<r, "decision">> : r \in {q \in Requests : \/ decided[q] = "deny"
                                                \/ /\ decided[q] = "allow"
                                                   /\ ~HandlerAudits(Ask[q].op)}}
    \cup {<<r, "effect">> : r \in {q \in committed : AuditsEffect(q)}}

Recorded == {log[i].id : i \in DOMAIN log}

AuditTrail ==
    /\ Recorded \subseteq Due
    /\ Cardinality(Due \ Recorded) <= 2 * (crashes + faults)

(* Who follows the pages of the log from the newest entry to the end sees   *)
(* each entry that was there at his first page once, and in order, whatever *)
(* is written meanwhile - unless one of them was lost with its line end.    *)
PagesShowEachOnce ==
    \A r \in Requests : Range(snapshot[r]) \subseteq Recorded =>
        /\ IsPrefix(seen[r], snapshot[r])
        /\ pc[r] = "done" /\ Ask[r].op = "audit" => seen[r] = snapshot[r]

(* "An owner can neither remove them nor loosen them": whatever policy an   *)
(* Agent has, and under whatever settings it was stored, the baseline       *)
(* decides as it does alone, the secrets it finds are masked, the sandbox   *)
(* stays under the ceiling in force, and only enforcing blocks anything.    *)
BaselineDecides(policy) ==
    \A kind \in {"command", "file_change"}, text \in Texts, inside \in BOOLEAN :
        LET alone == EvaluateAction(DefaultPolicy, kind, text, inside)
        IN  alone # Clean => EvaluateAction(policy, kind, text, inside) = alone

SecretsAreMasked(policy) ==
    mode # "off" => \A text \in Texts : LET screened == ScreenOutput(policy, text) IN
                        screened.proceed => screened.output \cap Secrets = {}

UnderCeiling(policy) ==
    LET sandbox == ResolveSandbox(policy)
    IN  /\ Rank(sandbox.sandboxMode) <= Rank(sandboxCeiling)
        /\ sandbox.networkAccess => sandboxCeiling = "workspace-write"

OnlyEnforcingBlocks(policy) ==
    ~Enforcing => \A text \in Texts :
        /\ EvaluatePrompt(policy, text, text).proceed /\ ScreenOutput(policy, text).proceed
        /\ \A kind \in {"command", "file_change"}, inside \in BOOLEAN :
              EvaluateAction(policy, kind, text, inside).proceed

GuardrailsHold ==
    \A policy \in {db.policy[a] : a \in Agents} :
        /\ BaselineDecides(policy) /\ SecretsAreMasked(policy)
        /\ UnderCeiling(policy) /\ OnlyEnforcingBlocks(policy)

-----------------------------------------------------------------------------
(* What the documents say and the code does not do.                        *)

(* "No decision is silent: allow and deny are both written to the audit     *)
(* log" (enforcement.ts:13): as long as nothing fails, whoever got an answer*)
(* after the checkpoint decided is in the log.  Not so listGrants, which    *)
(* docs/POLICY_ENFORCEMENT.md:82 excepts.                                   *)
Decided(r) ==
    decided[r] # None /\ pc[r] \in {"done", "refused"} /\ Ask[r].op # "listGrants"

NoDecisionIsSilent ==
    crashes = 0 /\ faults = 0 => \A r \in Requests : Decided(r) =>
        \E stage \in {"decision", "effect"} : <<r, stage>> \in Recorded
=============================================================================
