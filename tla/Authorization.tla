--------------------------- MODULE Authorization ---------------------------
(***************************************************************************)
(* Users, owners and grants: PolicyService (policy.ts) and the rule table  *)
(* of the enforcement point (enforcement.ts), over the database.           *)
(*                                                                         *)
(* A mutation is an operator from a database to a database, and a check    *)
(* inside it is an operator that says whether it throws.  Users and grants *)
(* are named by what created them (ids are random UUIDs): a user by the    *)
(* login callback, or by its principal when it was there from the start; a *)
(* grant by its request.  Names, emails and timestamps are left out.       *)
(***************************************************************************)
EXTENDS GuardrailEngine

CONSTANTS
    Principals,        \* subjects at the identity provider
    Admins,            \* the principals whose email is in OIDC_ADMIN_EMAILS
    Callbacks,         \* login callbacks, each may create a user
    Requests,          \* HTTP requests, each may create a grant
    Agents,            \* Agent ids
    None,              \* no value
    MaxTime            \* bound of the clock

Users == Principals \cup Callbacks
Time == 0..MaxTime
Scopes == {"invoke", "view_config", "edit_config", "view_runs"}
OwnerOnly == {"delete", "grant", "revoke"}

Grant == [agent : Agents, to : Users, scopes : SUBSET Scopes,
          expires : Time \cup {None}, revoked : BOOLEAN]

VARIABLES
    db,                \* users, owner of each Agent, policy of each Agent, grants
    now                \* the clock

Database ==
    [users : [Users -> Principals \cup {None}],
     owner : [Agents -> Users \cup {None}],
     policy : [Agents -> Policy],
     grants : [Requests -> Grant \cup {None}]]

-----------------------------------------------------------------------------
Known(d, u) == d.users[u] # None
Exists(d, a) == d.owner[a] # None
OwnerCapable(d, u) == d.users[u] \in Admins

\* Bug: a grant without an end is not asked whether it was revoked.
GrantIsInTime(g, at) == g.expires # None => ~g.revoked /\ g.expires > at

GrantIsLive(g, at) == ~g.revoked /\ (g.expires # None => g.expires > at)

\* Owners may do anything, and nobody else what is for owners only.
HasScope(d, u, a, action) ==
    /\ Known(d, u) /\ Exists(d, a)
    /\ \/ d.owner[a] = u
       \/ /\ action \notin OwnerOnly
          /\ \E r \in Requests :
                /\ d.grants[r] # None
                /\ d.grants[r].agent = a /\ d.grants[r].to = u
                /\ action \in d.grants[r].scopes
                /\ GrantIsLive(d.grants[r], now)

CanSee(d, u, a) == \E s \in {"view_config", "invoke", "view_runs"} : HasScope(d, u, a, s)

-----------------------------------------------------------------------------
\* Bug: created without a look.
Created(d, c, p) == [d EXCEPT !.users[c] = p]

\* Find-or-create, looked up inside the mutation.
Provisioned(d, c, p) ==
    IF \E u \in Users : d.users[u] = p THEN d ELSE [d EXCEPT !.users[c] = p]

UserOf(d, p) == CHOOSE u \in Users : d.users[u] = p

GrantAccepted(d, by, g) ==
    /\ Exists(d, g.agent)
    /\ Known(d, by) /\ Known(d, g.to)
    /\ by = d.owner[g.agent] /\ g.to # d.owner[g.agent]

Granted(d, r, g) == [d EXCEPT !.grants[r] = g]

RevokeAccepted(d, a, r) == d.grants[r] # None /\ d.grants[r].agent = a
Revoked(d, r) == [d EXCEPT !.grants[r].revoked = TRUE]

-----------------------------------------------------------------------------
(* RULES: the action of each route, and whether its handler writes the      *)
(* entry for an allowed request itself.  Routes without a rule are not here.*)
Action ==
    [view |-> "view_config", viewRuns |-> "view_runs", send |-> "invoke",
     guardrail |-> "edit_config", delete |-> "delete", listGrants |-> "grant",
     grant |-> "grant", revoke |-> "revoke"]

HandlerAudits(op) == op \in {"listGrants", "grant", "revoke"}
=============================================================================
