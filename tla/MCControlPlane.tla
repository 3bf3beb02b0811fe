--------------------------- MODULE MCControlPlane ---------------------------
(***************************************************************************)
(* An instance of ControlPlane: two principals, the requests they make and *)
(* the scenarios in which they make them.                                  *)
(***************************************************************************)
EXTENDS ControlPlane

CONSTANTS alice, bob, a1, a2, c1, c2, c3, l1, l2

MCSubject == [l \in Logins |-> bob]
MCLoginOf == [c \in Callbacks |-> IF c = c3 THEN l2 ELSE l1]

NoRules == [sandboxMode |-> "workspace-write", networkAccess |-> TRUE, rules |-> <<>>]
OwnRules ==
    [sandboxMode |-> "read-only", networkAccess |-> TRUE,
     rules |-> << [kind |-> "command_pattern", pattern |-> "fork bomb", effect |-> "flag"],
                  [kind |-> "output_pattern", pattern |-> "own", effect |-> "deny"] >>]

BadRules == [NoRules EXCEPT !.rules = << [kind |-> "prompt_pattern", pattern |-> BadPattern,
                                         effect |-> "deny"] >>]

Request(op, by, agent, grant, input) ==
    [op |-> op, by |-> by, agent |-> agent, grant |-> grant, input |-> input]
ToBob == [to |-> bob, scopes |-> {"edit_config", "view_config"}, expires |-> None]
ToBobForAWhile == [to |-> bob, scopes |-> {"edit_config"}, expires |-> 1]
ToNew == [to |-> c1, scopes |-> {"view_config"}, expires |-> None]

MCAsk == [r \in Requests |->
    CASE r = "grant"     -> Request("grant", alice, a1, ToBob, None)
      [] r = "grant2"    -> Request("grant", alice, a1, ToBobForAWhile, None)
      [] r = "grantNew"  -> Request("grant", alice, a1, ToNew, None)
      [] r = "revoke"    -> Request("revoke", alice, a1, "grant", None)
      [] r = "edit"      -> Request("guardrail", bob, a1, None, OwnRules)
      [] r = "edit2"     -> Request("guardrail", bob, a1, None, NoRules)
      [] r = "editBad"   -> Request("guardrail", alice, a1, None, BadRules)
      [] r = "view"      -> Request("view", bob, a1, None, None)
      [] r = "delete"    -> Request("delete", alice, a1, None, None)
      [] r = "create"    -> Request("create", bob, a2, None, None)
      [] r = "auditOne"  -> Request("audit", bob, a1, None, None)
      [] r = "auditOwn"  -> Request("audit", bob, Unset, None, None)
      [] r = "auditAll"  -> Request("audit", alice, Unset, None, None)]

OwnedByAlice == [a \in Agents |-> IF a = a1 THEN alice ELSE None]
Scenario(auth, known, requests, callbacks, until, settings) ==
    [auth |-> auth, known |-> known, owner |-> OwnedByAlice, requests |-> requests,
     callbacks |-> callbacks, until |-> until, settings |-> settings]

AsBefore == {<<"enforce", "workspace-write">>}
Anything == Modes \X SandboxModes

MCScenarios ==
    { Scenario("oidc", {alice}, {}, {c1, c2, c3}, 1, AsBefore),
      Scenario("oidc", {alice}, {"grantNew", "view"}, {c1}, 2, AsBefore),
      Scenario("local", {alice, bob}, {"grant", "grant2", "revoke", "edit"}, {}, 1, AsBefore),
      Scenario("local", {alice, bob}, {"grant", "edit", "edit2", "delete"}, {}, 0, Anything),
      Scenario("local", {alice, bob}, {"grant", "edit", "create", "auditOne"}, {}, 0, AsBefore),
      Scenario("local", {alice, bob}, {"view", "editBad", "auditOwn"}, {}, 0, AsBefore),
      Scenario("local", {alice, bob}, {"view", "grant", "auditAll"}, {}, 0, AsBefore) }

\* A grant to a user who is not known, in the run of NoDecisionIsSilent.
MCUnknownUser == {Scenario("local", {alice, bob}, {"grantNew", "view"}, {}, 0, AsBefore)}

MCTexts == {{"fork bomb"}, {"system path", "own"}, {"own"}, {"credential file", "fork bomb"},
            {"aws key", "own"}, {"private key"}}
=============================================================================
