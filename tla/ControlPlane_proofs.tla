------------------------ MODULE ControlPlane_proofs ------------------------
(***************************************************************************)
(* Proofs about ControlPlane: that the guardrails hold, that a principal   *)
(* has one user, that a login ends in at most one session, and that a      *)
(* revoked or expired grant is refused - for any requests, logins, clocks, *)
(* rules of owners, crashes and faults of the disk.                        *)
(***************************************************************************)
EXTENDS ControlPlane, SequenceTheorems, TLAPS

-----------------------------------------------------------------------------
(* The guardrail engine.                                                    *)

\* The baseline is the first nine of all the rules (engine.ts:93).
LEMMA BaselineFirst ==
    ASSUME NEW policy \in Input
    PROVE  /\ Len(policy.rules) \in Nat
           /\ DOMAIN AllRules(policy) = 1..(9 + Len(policy.rules))
           /\ 1..9 \subseteq DOMAIN AllRules(policy)
           /\ \A i \in 1..9 : AllRules(policy)[i] = Baseline[i]
<1> DEFINE B == {Builtin("command_pattern", "recursive delete", "deny"),
                 Builtin("command_pattern", "download to shell", "deny"),
                 Builtin("command_pattern", "fork bomb", "deny"),
                 Builtin("command_pattern", "device write", "deny"),
                 Builtin("command_pattern", "credential file", "flag"),
                 Builtin("path_pattern", "system path", "deny"),
                 Builtin("output_pattern", "openai key", "flag"),
                 Builtin("output_pattern", "aws key", "flag"),
                 Builtin("output_pattern", "private key", "flag")}
           O == [kind : Kinds, pattern : Patterns \cup {BadPattern}, effect : Effects]
<1>1. Baseline \in Seq(B) /\ Len(Baseline) = 9
  BY DEF Baseline
<1>2. policy.rules \in Seq(O)
  BY DEF Input
<1> HIDE DEF B, O
<1>3. Baseline \in Seq(B \cup O) /\ policy.rules \in Seq(B \cup O)
  BY <1>1, <1>2, SeqMonotonic
<1>4. AllRules(policy) = Baseline \o policy.rules
  BY DEF AllRules
<1>5. Len(policy.rules) \in Nat
  BY <1>2, LenProperties
<1> DEFINE all == Baseline \o policy.rules
<1>6. all \in Seq(B \cup O) /\ Len(all) = Len(Baseline) + Len(policy.rules)
  BY <1>3, ConcatProperties
<1>7. \A i \in 1..(Len(Baseline) + Len(policy.rules)) :
         all[i] = IF i <= Len(Baseline) THEN Baseline[i] ELSE policy.rules[i - Len(Baseline)]
  BY <1>3, ConcatProperties
<1>8. DOMAIN all = 1..Len(all)
  BY <1>6, LenProperties
<1> HIDE DEF all
<1>9. \A i \in 1..9 : all[i] = Baseline[i]
  BY <1>1, <1>5, <1>7
<1>10. DOMAIN all = 1..(9 + Len(policy.rules))
  BY <1>1, <1>6, <1>8
<1>11. 1..9 \subseteq 1..(9 + Len(policy.rules))
  BY <1>5
<1> QED
  BY <1>4, <1>5, <1>9, <1>10, <1>11 DEF all

\* The default policy is one that the API would accept.
LEMMA DefaultIsInput == DefaultPolicy \in Input /\ Len(DefaultPolicy.rules) = 0
BY DEF DefaultPolicy, Input, SandboxModes

\* Numbers below ten have a least one.
LEMMA Least ==
    ASSUME NEW S, S \subseteq 1..9, S # {}
    PROVE  FirstIndex(S) \in S /\ \A j \in S : FirstIndex(S) <= j
<1>1. \E i \in S : \A j \in S : i <= j
  <2> SUFFICES ASSUME \A i \in S : \E j \in S : j < i
               PROVE  FALSE
    OBVIOUS
  <2>1. 1 \notin S
    OBVIOUS
  <2>2. 2 \notin S
    BY <2>1
  <2>3. 3 \notin S
    BY <2>1, <2>2
  <2>4. 4 \notin S
    BY <2>1, <2>2, <2>3
  <2>5. 5 \notin S
    BY <2>1, <2>2, <2>3, <2>4
  <2>6. 6 \notin S
    BY <2>1, <2>2, <2>3, <2>4, <2>5
  <2>7. 7 \notin S
    BY <2>1, <2>2, <2>3, <2>4, <2>5, <2>6
  <2>8. 8 \notin S
    BY <2>1, <2>2, <2>3, <2>4, <2>5, <2>6, <2>7
  <2>9. 9 \notin S
    BY <2>1, <2>2, <2>3, <2>4, <2>5, <2>6, <2>7, <2>8
  <2>10. \A i \in 1..9 : i = 1 \/ i = 2 \/ i = 3 \/ i = 4 \/ i = 5
                        \/ i = 6 \/ i = 7 \/ i = 8 \/ i = 9
    OBVIOUS
  <2> QED
    BY <2>1, <2>2, <2>3, <2>4, <2>5, <2>6, <2>7, <2>8, <2>9, <2>10
<1> QED
  BY <1>1 DEF FirstIndex

(* When a rule of the baseline matches, the first of them decides, whatever *)
(* the owner's rules are.                                                   *)
LEMMA BaselineIsFirst ==
    ASSUME NEW policy \in Input, NEW kind, NEW text,
           FirstMatch(DefaultPolicy, kind, text) # Clean
    PROVE  FirstMatch(policy, kind, text) = FirstMatch(DefaultPolicy, kind, text)
<1> DEFINE M == Matching(policy, kind, text)
           D == Matching(DefaultPolicy, kind, text)
<1>1. /\ M \subseteq Nat \ {0} /\ D = M \cap 1..9
      /\ \A i \in 1..9 : AllRules(policy)[i] = AllRules(DefaultPolicy)[i]
  <2>1. DOMAIN AllRules(DefaultPolicy) = 1..9
    <3>1. DOMAIN AllRules(DefaultPolicy) = 1..(9 + Len(DefaultPolicy.rules))
      BY BaselineFirst, DefaultIsInput
    <3> QED
      BY <3>1, DefaultIsInput
  <2>2. \A i \in 1..9 : AllRules(policy)[i] = AllRules(DefaultPolicy)[i]
    BY BaselineFirst, DefaultIsInput
  <2>3. /\ DOMAIN AllRules(policy) \subseteq Nat \ {0}
        /\ 1..9 = 1..9 \cap DOMAIN AllRules(policy)
    <3>1. PICK n \in Nat : DOMAIN AllRules(policy) = 1..(9 + n)
      BY BaselineFirst
    <3>2. 1..(9 + n) \subseteq Nat \ {0} /\ 1..9 \subseteq 1..(9 + n)
      OBVIOUS
    <3> QED
      BY <3>1, <3>2
  <2> QED
    BY <2>1, <2>2, <2>3 DEF Matching
<1>2. D # {} /\ D \subseteq 1..9
  BY <1>1 DEF FirstMatch
<1> HIDE DEF M, D
<1> DEFINE d == FirstIndex(D)
           m == FirstIndex(M)
<1>3. d \in D /\ \A j \in D : d <= j
  BY <1>2, Least
<1> HIDE DEF d
<1>4. d \in M /\ \A j \in M : d <= j
  <2>1. d \in M /\ d \in 1..9
    BY <1>1, <1>2, <1>3
  <2>2. ASSUME NEW j \in M PROVE d <= j
    <3>1. j \in Nat \ {0} /\ (j \in 1..9 => d <= j)
      BY <1>1, <1>3
    <3> QED
      BY <2>1, <3>1
  <2> QED
    BY <2>1, <2>2
<1>5. m \in M /\ \A j \in M : m <= j
  BY <1>4 DEF FirstIndex
<1> HIDE DEF m
<1>6. m = d
  BY <1>1, <1>3, <1>4, <1>5
<1>7. M # {} /\ d \in 1..9
  BY <1>2, <1>3, <1>4
<1> QED
  BY <1>1, <1>2, <1>6, <1>7 DEF FirstMatch, M, D, d, m

\* Nothing is blocked unless deny rules are enforced.
LEMMA OnlyDenied ==
    ASSUME NEW policy, NEW kind, NEW text, ~Enforcing
    PROVE  FirstMatch(policy, kind, text).proceed
BY DEF FirstMatch, Clean

\* What the two settings and a policy that was accepted make sure of.
LEMMA EngineHolds ==
    ASSUME GuardrailConfigured, NEW policy \in Input
    PROVE  /\ BaselineDecides(policy) /\ SecretsAreMasked(policy)
           /\ UnderCeiling(policy) /\ OnlyEnforcingBlocks(policy)
<1>1. BaselineDecides(policy)
  <2> SUFFICES ASSUME NEW kind \in {"command", "file_change"}, NEW text \in Texts,
                      NEW inside \in BOOLEAN,
                      EvaluateAction(DefaultPolicy, kind, text, inside) # Clean
               PROVE  EvaluateAction(policy, kind, text, inside)
                      = EvaluateAction(DefaultPolicy, kind, text, inside)
    BY DEF BaselineDecides
  <2>1. CASE mode # "off" /\ kind = "file_change" /\ inside
    BY <2>1, BaselineIsFirst DEF EvaluateAction
  <2>2. CASE mode # "off" /\ kind # "file_change"
    BY <2>2, BaselineIsFirst DEF EvaluateAction
  <2>3. CASE mode = "off" \/ (kind = "file_change" /\ ~inside)
    BY <2>3 DEF EvaluateAction
  <2> QED
    BY <2>1, <2>2, <2>3
<1>2. SecretsAreMasked(policy)
  <2> SUFFICES ASSUME mode # "off", NEW text \in Texts, ScreenOutput(policy, text).proceed,
                      NEW secret \in Secrets
               PROVE  secret \notin ScreenOutput(policy, text).output
    BY DEF SecretsAreMasked
  <2> DEFINE found == Matching(policy, "output_pattern", text)
             masked == {AllRules(policy)[i].pattern : i \in found}
  <2>1. ScreenOutput(policy, text).output = text \ masked
    BY DEF ScreenOutput
  <2>2. PICK i \in 1..9 : Baseline[i].kind = "output_pattern" /\ Baseline[i].pattern = secret
    <3>1. /\ Baseline[7].kind = "output_pattern" /\ Baseline[7].pattern = "openai key"
          /\ Baseline[8].kind = "output_pattern" /\ Baseline[8].pattern = "aws key"
          /\ Baseline[9].kind = "output_pattern" /\ Baseline[9].pattern = "private key"
      BY DEF Baseline, Builtin
    <3>2. secret \in {Baseline[7].pattern, Baseline[8].pattern, Baseline[9].pattern}
      BY <3>1 DEF Secrets
    <3>3. 7 \in 1..9 /\ 8 \in 1..9 /\ 9 \in 1..9
      OBVIOUS
    <3> HIDE DEF found, masked
    <3> QED
      BY <3>1, <3>2, <3>3
  <2>3. i \in DOMAIN AllRules(policy) /\ AllRules(policy)[i] = Baseline[i]
    BY <2>2, BaselineFirst
  <2>4. secret \in text => secret \in masked
    BY <2>2, <2>3 DEF Matching
  <2> QED
    BY <2>1, <2>4
<1>3. UnderCeiling(policy)
  <2>1. policy.sandboxMode \in SandboxModes /\ sandboxCeiling \in SandboxModes
    BY DEF GuardrailConfigured, Input
  <2>2. CASE sandboxCeiling = "workspace-write"
    BY <2>1, <2>2 DEF UnderCeiling, ResolveSandbox, Rank, SandboxModes
  <2>3. CASE sandboxCeiling = "read-only"
    <3>1. ResolveSandbox(policy).sandboxMode = "read-only"
      BY <2>1, <2>3 DEF ResolveSandbox, Rank, SandboxModes
    <3>2. ~ResolveSandbox(policy).networkAccess
      <4>1. \A b : ~("read-only" = "workspace-write" /\ b)
        OBVIOUS
      <4> QED
        BY <3>1, <4>1 DEF ResolveSandbox
    <3> QED
      BY <2>3, <3>1, <3>2 DEF UnderCeiling, Rank
  <2> QED
    BY <2>1, <2>2, <2>3 DEF SandboxModes
<1>4. OnlyEnforcingBlocks(policy)
  BY OnlyDenied DEF OnlyEnforcingBlocks, EvaluatePrompt, EvaluateAction, ScreenOutput, Clean
<1> QED
  BY <1>1, <1>2, <1>3, <1>4

-----------------------------------------------------------------------------
(* The inductive invariant.                                                 *)

Stages == {"idle", "files", "queued", "paging", "done", "refused", "lost"}
MutOps == {"grant", "revoke", "guardrail", "delete", "create"}

Types ==
    /\ db \in Database /\ now \in Time
    /\ GuardrailConfigured /\ IdentityTypeOK
    /\ scenario \in Scenarios
    /\ queue \in Seq(Requests \cup Callbacks)
    /\ pc \in [Requests -> Stages]
    /\ actor \in [Requests -> Users \cup {None}]
    /\ decided \in [Requests -> {None, "allow", "deny"}]
    /\ committed \subseteq Requests

Distinct(s) == \A i, j \in 1..Len(s) : s[i] = s[j] => i = j

\* What waits in the queue of the store waits there once, and is acceptable.
Waiting ==
    /\ Distinct(queue)
    /\ \A i \in 1..Len(queue) :
          /\ queue[i] \in Requests => pc[queue[i]] = "queued"
          /\ queue[i] \in Callbacks => callback[queue[i]] = "provisioning"
    /\ \A r \in Requests :
          /\ pc[r] = "files" => Ask[r].op \in {"delete", "create"}
          /\ pc[r] = "queued" => /\ Ask[r].op \in MutOps
                                 /\ Ask[r].op = "guardrail" => Ask[r].input \in Policy

\* The state of a login is good for one callback, the code of it for one token.
Active == {"exchanging", "provisioning", "minting", "done"}
OneTaken ==
    /\ \A c \in Callbacks : callback[c] # "idle" => /\ login[LoginOf[c]] = "redirected"
                                                    /\ pendingLogins[LoginOf[c]] = None
    /\ \A c, d \in Callbacks : LoginOf[c] = LoginOf[d] /\ callback[c] \in Active
                                /\ callback[d] \in Active => c = d
    /\ \A c \in Callbacks : /\ handoffCodes[c] # None => callback[c] = "done" /\ delivered[c] = 0
                            /\ delivered[c] > 0 => callback[c] = "done" /\ delivered[c] = 1

\* A callback names a user only once its mutation was committed.
UsersOK ==
    /\ OneUserPerPrincipal
    /\ \A c \in Callbacks :
          /\ callback[c] \in {"idle", "exchanging", "provisioning"} => db.users[c] = None
          /\ callback[c] = "minting" => \E u \in Users : db.users[u] = Subject[LoginOf[c]]

SessionsOK ==
    /\ \A c \in Callbacks : handoffCodes[c] # None =>
          /\ db.users[handoffCodes[c].user] = Subject[LoginOf[c]]
          /\ handoffCodes[c].expires = handoffCodes[c].minted + HandoffTTL
    /\ \A s \in sessions : s.callback # None =>
          /\ db.users[s.user] = Subject[LoginOf[s.callback]]
          /\ s.taken <= s.minted + HandoffTTL

\* A stored grant is what its request asked for, and no revocation is undone.
GrantsOK ==
    /\ \A g \in Requests : db.grants[g] # None =>
          /\ g \in committed /\ pc[g] \in {"done", "lost"}
          /\ Ask[g].op = "grant"
          /\ db.grants[g].agent = Ask[g].agent /\ db.grants[g].to = Ask[g].grant.to
          /\ db.grants[g].scopes = Ask[g].grant.scopes
          /\ db.grants[g].expires = Ask[g].grant.expires
    /\ \A g \in Requests : AnsweredRevoke(g) => db.grants[g] # None /\ db.grants[g].revoked

Inv == Types /\ Waiting /\ OneTaken /\ UsersOK /\ SessionsOK /\ GrantsOK

\* What was acceptable has only rules that can be compiled.
LEMMA AcceptableIsPolicy ==
    ASSUME NEW input \in Input, Acceptable(input)
    PROVE  input \in Policy
<1> DEFINE O == [kind : Kinds, pattern : Patterns \cup {BadPattern}, effect : Effects]
           n == Len(input.rules)
<1>1. input.rules \in Seq(O)
  BY DEF Input
<1>2. n \in Nat /\ input.rules \in [1..n -> O] /\ DOMAIN input.rules = 1..n
  BY <1>1, LenProperties
<1>3. \A i \in 1..n : input.rules[i] \in O /\ input.rules[i].pattern # BadPattern
  BY <1>2 DEF Acceptable
<1>4. \A i \in 1..n : input.rules[i] \in Rule
  BY <1>3 DEF Rule
<1>5. input.rules \in [1..n -> Rule]
  BY <1>2, <1>4
<1>6. input.rules \in Seq(Rule)
  BY <1>2, <1>5
<1> QED
  BY <1>6 DEF Policy, Input

\* A stored policy is one that was sent.
LEMMA PolicyIsInput == Policy \subseteq Input
<1>1. Rule \subseteq [kind : Kinds, pattern : Patterns \cup {BadPattern}, effect : Effects]
  BY DEF Rule
<1> SUFFICES ASSUME NEW p \in Policy PROVE p \in Input
  OBVIOUS
<1>2. p.rules \in Seq([kind : Kinds, pattern : Patterns \cup {BadPattern}, effect : Effects])
  BY <1>1, SeqMonotonic DEF Policy
<1> QED
  BY <1>2 DEF Policy, Input

\* The invariant holds at the start of every scenario.
LEMMA InitOK == Init => Inv
<1> SUFFICES ASSUME Init PROVE Inv
  OBVIOUS
<1> USE ControlPlaneAssumption, IdentityAssumption
<1>1. Types
  <2>1. db \in Database
    <3>1. DefaultPolicy \in Policy
      BY DEF DefaultPolicy, Policy, SandboxModes
    <3>2. scenario.known \subseteq Principals /\ scenario.owner \in [Agents -> Users \cup {None}]
      BY DEF Init, ScenarioIsTyped
    <3> QED
      BY <3>1, <3>2 DEF Init, Database, Users
  <2>2. IdentityTypeOK
    <3>1. sessions \subseteq Session
      BY DEF Init, IdentityInit, ScenarioIsTyped, Session, Users, Time
    <3> QED
      BY <3>1 DEF Init, IdentityInit, IdentityTypeOK
  <2> QED
    BY <2>1, <2>2 DEF Types, Init, Time, GuardrailConfigured, Modes, SandboxModes, Stages
<1>2. Waiting
  BY DEF Waiting, Distinct, Init
<1> \A c \in Callbacks : callback[c] = "idle" /\ handoffCodes[c] = None /\ delivered[c] = 0
  BY DEF Init, IdentityInit
<1>3. OneTaken
  BY DEF OneTaken, Active
<1>4. UsersOK
  <2>1. db.users = [u \in Users |-> IF u \in scenario.known THEN u ELSE None]
    BY DEF Init
  <2>2. OneUserPerPrincipal
    BY <2>1 DEF OneUserPerPrincipal, Known
  <2>3. scenario.known \subseteq Principals
    BY DEF Init, ScenarioIsTyped
  <2>4. \A c \in Callbacks : db.users[c] = None
    BY <2>1, <2>3 DEF Users
  <2> QED
    BY <2>2, <2>4 DEF UsersOK
<1>5. SessionsOK
  BY DEF SessionsOK, Init, IdentityInit
<1>6. GrantsOK
  BY DEF GrantsOK, AnsweredRevoke, Init
<1> QED
  BY <1>1, <1>2, <1>3, <1>4, <1>5, <1>6 DEF Inv

-----------------------------------------------------------------------------
(* The queue.                                                               *)

LEMMA Appended ==
    ASSUME NEW H, NEW s \in Seq(H), NEW h \in H
    PROVE  /\ Append(s, h) \in Seq(H)
           /\ \A i \in 1..Len(Append(s, h)) :
                 Append(s, h)[i] = h \/ \E j \in 1..Len(s) : Append(s, h)[i] = s[j]
           /\ Distinct(s) /\ (\A i \in 1..Len(s) : s[i] # h) => Distinct(Append(s, h))
<1> DEFINE t == Append(s, h)
<1>1. Len(s) \in Nat
  BY LenProperties
<1>2. /\ t \in Seq(H) /\ Len(t) = Len(s) + 1
      /\ \A i \in 1..Len(s) : t[i] = s[i]
      /\ t[Len(s) + 1] = h
  BY AppendProperties
<1>3. \A i \in 1..Len(t) : i = Len(s) + 1 \/ i \in 1..Len(s)
  BY <1>1, <1>2
<1> HIDE DEF t
<1>4. Distinct(s) /\ (\A i \in 1..Len(s) : s[i] # h) => Distinct(t)
  BY <1>2, <1>3 DEF Distinct
<1>5. \A i \in 1..Len(t) : t[i] = h \/ \E j \in 1..Len(s) : t[i] = s[j]
  BY <1>2, <1>3
<1> QED
  BY <1>2, <1>4, <1>5 DEF t

\* The head and the rest of the queue.
LEMMA Popped ==
    ASSUME NEW H, NEW s \in Seq(H), s # <<>>
    PROVE  /\ Tail(s) \in Seq(H) /\ Head(s) \in H
           /\ 1 \in 1..Len(s) /\ Head(s) = s[1]
           /\ \A i \in 1..Len(Tail(s)) : \E j \in 1..Len(s) : Tail(s)[i] = s[j]
           /\ Distinct(s) => /\ Distinct(Tail(s))
                             /\ \A i \in 1..Len(Tail(s)) : Tail(s)[i] # Head(s)
<1> DEFINE t == Tail(s)
           h == Head(s)
<1>1. Len(s) \in Nat \ {0}
  BY LenProperties, EmptySeq
<1>2. /\ t \in Seq(H) /\ h \in H /\ Len(t) = Len(s) - 1
      /\ \A i \in 1..Len(t) : t[i] = s[i + 1]
  BY HeadTailProperties
<1>3. h = s[1] /\ 1 \in 1..Len(s)
  BY <1>1
<1>4. \A i \in 1..Len(t) : i + 1 \in 1..Len(s) /\ i + 1 # 1
  BY <1>1, <1>2
<1>5. \A i, j \in 1..Len(t) : i + 1 = j + 1 => i = j
  OBVIOUS
<1> HIDE DEF t, h
<1>6. Distinct(s) => Distinct(t) /\ \A i \in 1..Len(t) : t[i] # h
  BY <1>2, <1>3, <1>4, <1>5 DEF Distinct
<1> QED
  BY <1>2, <1>3, <1>4, <1>6 DEF t, h

-----------------------------------------------------------------------------
(* Requests on their way to a mutation: nothing but the request moves.      *)

Moves(r, next) ==
    /\ pc[r] \in {"idle", "files", "paging"}
    /\ next \in Stages /\ (next = "done" => Ask[r].op # "revoke")
    /\ next = "files" => Ask[r].op \in {"delete", "create"}
    /\ next = "queued" => /\ Ask[r].op \in MutOps
                          /\ Ask[r].op = "guardrail" => Ask[r].input \in Policy
    /\ pc' = [pc EXCEPT ![r] = next]
    /\ queue' = IF next = "queued" THEN Append(queue, r) ELSE queue
    /\ actor' \in [Requests -> Users \cup {None}]
    /\ decided' \in [Requests -> {None, "allow", "deny"}]
    /\ UNCHANGED <<committed, db, now, identityVars, guardrailVars, scenario>>

\* The steps of a request before its commit only move that request on.
LEMMA RequestMoves ==
    ASSUME NEW r \in Requests, Inv,
           Unidentified(r) \/ Enforce(r) \/ Create(r) \/ FilesDone(r) \/ AuditPage(r)
    PROVE  \E next \in Stages : Moves(r, next)
<1> USE ControlPlaneAssumption
<1>1. CASE Unidentified(r)
  <2>1. Moves(r, "refused")
    BY <1>1 DEF Unidentified, Arrives, Moves, Inv, Types, Stages, fixed
  <2> QED
    BY <2>1 DEF Stages
<1>2. CASE Enforce(r)
  <2>1. PICK u \in Users, busy \in BOOLEAN :
          LET ok == HasScope(db, u, Ask[r].agent, Action[Ask[r].op]) IN
          /\ actor' = [actor EXCEPT ![r] = u]
          /\ decided' = [decided EXCEPT ![r] = IF ok THEN "allow" ELSE "deny"]
          /\ Goes(r, IF ok THEN Handler(r, busy) ELSE "refused")
    BY <1>2 DEF Enforce
  <2> DEFINE next == IF HasScope(db, u, Ask[r].agent, Action[Ask[r].op])
                     THEN Handler(r, busy) ELSE "refused"
  <2>2. Ask[r].op \in {"view", "viewRuns", "send", "guardrail", "delete", "listGrants",
                       "grant", "revoke"}
    BY <1>2 DEF Enforce, Arrives, Action
  <2>3. /\ Handler(r, busy) \in {"done", "files", "queued", "refused"}
        /\ Handler(r, busy) = "done" => Ask[r].op # "revoke"
        /\ Handler(r, busy) = "files" => Ask[r].op \in {"delete", "create"}
        /\ Handler(r, busy) = "queued" => /\ Ask[r].op \in MutOps
                                          /\ Ask[r].op = "guardrail" => Acceptable(Ask[r].input)
    BY <2>2 DEF Handler, MutOps
  <2>4. Ask[r].op = "guardrail" /\ Acceptable(Ask[r].input) => Ask[r].input \in Policy
    BY AcceptableIsPolicy DEF AskIsTyped
  <2>5. Moves(r, next)
    <3>1. /\ next \in {"done", "files", "queued", "refused"}
          /\ next = "refused" \/ next = Handler(r, busy)
      BY <2>3
    <3>2. Goes(r, next)
      BY <2>1
    <3> HIDE DEF next
    <3>3. actor' \in [Requests -> Users \cup {None}] /\ decided' \in [Requests -> {None, "allow", "deny"}]
      BY <2>1 DEF Inv, Types
    <3>4. pc[r] = "idle" /\ UNCHANGED <<committed, db, now, identityVars, guardrailVars, scenario>>
      BY <1>2 DEF Enforce, Arrives, fixed
    <3> QED
      BY <2>3, <2>4, <3>1, <3>2, <3>3, <3>4 DEF Moves, Goes, Stages
  <2> QED
    BY <2>5 DEF Moves
<1>3. CASE Create(r)
  <2>1. Moves(r, "files")
    BY <1>3 DEF Create, Arrives, Goes, Moves, Inv, Types, Stages, fixed
  <2> QED
    BY <2>1 DEF Stages
<1>4. CASE FilesDone(r)
  <2>1. Moves(r, "queued")
    BY <1>4 DEF FilesDone, Goes, Moves, Inv, Types, Waiting, Stages, MutOps, fixed
  <2> QED
    BY <2>1 DEF Stages
<1>5. CASE AuditPage(r)
  <2>1. PICK next \in {"done", "paging", "refused"} : pc' = [pc EXCEPT ![r] = next]
    BY <1>5 DEF AuditPage, ReadPage
  <2>2. Moves(r, next)
    BY <1>5, <2>1 DEF AuditPage, Moves, Inv, Types, Stages, fixed
  <2> QED
    BY <2>2 DEF Stages
<1> QED
  BY <1>1, <1>2, <1>3, <1>4, <1>5

\* Such a step keeps the invariant.
LEMMA MovesOK ==
    ASSUME Inv, NEW r \in Requests, NEW next \in Stages, Moves(r, next)
    PROVE  Inv'
<1> USE DEF Inv
<1>1. /\ UNCHANGED <<committed, db, now, mode, sandboxCeiling, scenario, metadata, login, callback,
                     pendingLogins, handoffCodes, sessions, delivered>>
      /\ pc' = [pc EXCEPT ![r] = next] /\ pc' \in [Requests -> Stages]
  BY DEF Moves, Types, identityVars, guardrailVars
<1>2. queue \in Seq(Requests \cup Callbacks) /\ r \in Requests \cup Callbacks
  BY DEF Types
<1>3. Types'
  <2>1. queue' \in Seq(Requests \cup Callbacks)
    BY <1>2, Appended DEF Moves
  <2> QED
    BY <1>1, <2>1 DEF Types, Moves, IdentityTypeOK, GuardrailConfigured
<1>4. Waiting'
  <2>1. \A i \in 1..Len(queue) : queue[i] # r
    BY DEF Waiting, Moves
  <2>2. Distinct(queue)'
    BY <1>2, <2>1, Appended DEF Waiting, Moves, Distinct
  <2>3. \A i \in 1..Len(queue') :
           (queue'[i] = r /\ next = "queued") \/ \E j \in 1..Len(queue) : queue'[i] = queue[j]
    BY <1>2, Appended DEF Moves
  <2>4. r \notin Callbacks
    BY ControlPlaneAssumption
  <2>5. ASSUME NEW i \in 1..Len(queue')
        PROVE  /\ queue'[i] \in Requests => pc'[queue'[i]] = "queued"
               /\ queue'[i] \in Callbacks => callback'[queue'[i]] = "provisioning"
    <3>1. CASE queue'[i] = r /\ next = "queued"
      BY <1>1, <2>4, <3>1 DEF Types
    <3>2. ASSUME NEW j \in 1..Len(queue), queue'[i] = queue[j]
          PROVE  /\ queue[j] \in Requests => pc'[queue[j]] = "queued"
                 /\ queue[j] \in Callbacks => callback'[queue[j]] = "provisioning"
      BY <1>1, <2>1 DEF Waiting, Types
    <3> QED
      BY <2>3, <3>1, <3>2
  <2>6. ASSUME NEW q \in Requests
        PROVE  /\ pc'[q] = "files" => Ask[q].op \in {"delete", "create"}
               /\ pc'[q] = "queued" => /\ Ask[q].op \in MutOps
                                       /\ Ask[q].op = "guardrail" => Ask[q].input \in Policy
    BY <1>1 DEF Waiting, Moves, Types
  <2> QED
    BY <2>2, <2>5, <2>6 DEF Waiting
<1>5. OneTaken' /\ UsersOK' /\ SessionsOK'
  BY <1>1 DEF OneTaken, UsersOK, OneUserPerPrincipal, Known, SessionsOK
<1>6. GrantsOK'
  <2>1. \A g \in Requests : AnsweredRevoke(g)' => AnsweredRevoke(g)
    BY <1>1 DEF AnsweredRevoke, Moves, Types
  <2>2. \A g \in Requests : pc[g] \in {"done", "lost"} => pc'[g] = pc[g]
    BY <1>1 DEF Moves, Types
  <2> QED
    BY <1>1, <2>1, <2>2 DEF GrantsOK
<1> QED
  BY <1>3, <1>4, <1>5, <1>6

-----------------------------------------------------------------------------
(* What the mutation of the handler at the head does to the database.       *)

\* Users and grants of a database stay, and the new ones are as they must be.
UsersAfter(d, h) ==
    /\ \A u, v \in Users : Known(d, u) /\ d.users[u] = d.users[v] => u = v
    /\ \A u \in Users : Known(db, u) \/ u # h => d.users[u] = db.users[u]
    /\ h \in Callbacks => \E u \in Users : d.users[u] = Subject[LoginOf[h]]

GrantsAfter(d, h) ==
    /\ \A g \in Requests : d.grants[g] # None =>
          /\ db.grants[g] # None \/ (g = h /\ h \in Requests)
          /\ Ask[g].op = "grant"
          /\ d.grants[g].agent = Ask[g].agent /\ d.grants[g].to = Ask[g].grant.to
          /\ d.grants[g].scopes = Ask[g].grant.scopes
          /\ d.grants[g].expires = Ask[g].grant.expires
    /\ \A g \in Requests : db.grants[g] # None =>
          d.grants[g] # None /\ (db.grants[g].revoked => d.grants[g].revoked)
    /\ h \in Requests /\ Ask[h].op = "revoke" =>
          d.grants[Ask[h].grant] # None /\ d.grants[Ask[h].grant].revoked

\* The handler at the head of the queue waits for its mutation.
LEMMA HeadWaits ==
    ASSUME Inv, queue # <<>>, NEW h, h = Head(queue)
    PROVE  /\ h \in Requests \cup Callbacks
           /\ h \in Requests => /\ pc[h] = "queued" /\ Ask[h].op \in MutOps
                                /\ Ask[h].op = "guardrail" => Ask[h].input \in Policy
                                /\ h \notin Callbacks
           /\ h \in Callbacks => callback[h] = "provisioning" /\ db.users[h] = None
<1>1. h \in Requests \cup Callbacks /\ 1 \in 1..Len(queue) /\ h = queue[1]
  BY Popped DEF Inv, Types
<1> QED
  BY <1>1, ControlPlaneAssumption DEF Inv, Waiting, UsersOK

\* An accepted mutation keeps users unique and grants as they were asked for.
LEMMA MutationOK ==
    ASSUME Inv, queue # <<>>, NEW h, h = Head(queue), Accepted(h)
    PROVE  Mutated(h) \in Database /\ UsersAfter(Mutated(h), h) /\ GrantsAfter(Mutated(h), h)
<1> DEFINE d == Mutated(h)
<1> USE ControlPlaneAssumption, IdentityAssumption
<1>1. db \in Database /\ UsersAfter(db, None)
  <2>1. db \in Database /\ OneUserPerPrincipal
    BY DEF Inv, Types, UsersOK
  <2>2. None \notin Callbacks
    BY DEF Users
  <2> QED
    BY <2>1, <2>2 DEF UsersAfter, OneUserPerPrincipal
<1>2. \A g \in Requests : db.grants[g] # None =>
          /\ pc[g] \in {"done", "lost"} /\ Ask[g].op = "grant"
          /\ db.grants[g].agent = Ask[g].agent /\ db.grants[g].to = Ask[g].grant.to
          /\ db.grants[g].scopes = Ask[g].grant.scopes
          /\ db.grants[g].expires = Ask[g].grant.expires
  BY DEF Inv, GrantsOK
<1>3. CASE h \in Callbacks
  <2> DEFINE p == Subject[LoginOf[h]]
  <2>1. p \in Principals /\ p # None /\ h \in Users /\ h \notin Requests /\ db.users[h] = None
    BY <1>3, HeadWaits DEF Users
  <2>2. d = Provisioned(db, h, p)
    BY <1>3 DEF Mutated
  <2>3. CASE \E u \in Users : db.users[u] = p
    <3>1. d = db
      BY <2>2, <2>3 DEF Provisioned
    <3> QED
      BY <1>1, <1>2, <2>1, <2>3, <3>1 DEF UsersAfter, GrantsAfter
  <2>4. CASE ~\E u \in Users : db.users[u] = p
    <3>1. d = [db EXCEPT !.users[h] = p]
      BY <2>2, <2>4 DEF Provisioned
    <3>2. d \in Database /\ d.grants = db.grants /\ d.users = [db.users EXCEPT ![h] = p]
      BY <1>1, <2>1, <3>1 DEF Database
    <3>3. db.users \in [Users -> Principals \cup {None}]
      BY <1>1 DEF Database
    <3> HIDE DEF d, p
    <3>4. UsersAfter(d, h)
      <4>1. \A u \in Users : d.users[u] = IF u = h THEN p ELSE db.users[u]
        BY <3>2, <3>3
      <4>2. \A u, v \in Users : Known(d, u) /\ d.users[u] = d.users[v] => u = v
        BY <1>1, <2>4, <4>1 DEF UsersAfter, Known
      <4>3. \A u \in Users : Known(db, u) \/ u # h => d.users[u] = db.users[u]
        BY <2>1, <4>1 DEF Known
      <4> QED
        BY <2>1, <4>1, <4>2, <4>3 DEF UsersAfter, p
    <3>5. GrantsAfter(d, h)
      BY <1>2, <2>1, <3>2 DEF GrantsAfter
    <3> QED
      BY <3>2, <3>4, <3>5 DEF d
  <2> QED
    BY <2>3, <2>4
<1>4. CASE h \in Requests
  <2>1. /\ pc[h] = "queued" /\ Ask[h].op \in MutOps /\ h \notin Callbacks /\ AskIsTyped(h)
        /\ Ask[h].op = "guardrail" => Ask[h].input \in Policy
        /\ Ask[h].agent \in Agents
    BY <1>4, HeadWaits DEF AskIsTyped, MutOps
  <2>2. db.grants[h] = None
    BY <1>2, <1>4, <2>1
  <2>3. ASSUME d \in Database, d.users = db.users, d.grants = db.grants, Ask[h].op # "revoke"
        PROVE  d \in Database /\ UsersAfter(d, h) /\ GrantsAfter(d, h)
    <3> HIDE DEF d
    <3> QED
      BY <1>1, <1>2, <2>1, <2>3 DEF UsersAfter, GrantsAfter, Known
  <2>4. CASE Ask[h].op = "grant"
    <3>1. d = [db EXCEPT !.grants[h] = GrantOf(h)]
      BY <2>1, <2>4 DEF Mutated, Granted
    <3>2. GrantOf(h) \in Grant /\ GrantOf(h) # None
      <4>1. Ask[h].grant \in [to : Users, scopes : SUBSET Scopes, expires : Time \cup {None}]
        BY <2>1, <2>4 DEF AskIsTyped
      <4> DEFINE w == Ask[h].grant
      <4>2. w.to \in Users /\ w.scopes \in SUBSET Scopes /\ w.expires \in Time \cup {None}
        BY <4>1
      <4> HIDE DEF w
      <4>3. [agent |-> Ask[h].agent, to |-> w.to, scopes |-> w.scopes,
             expires |-> w.expires, revoked |-> FALSE] \in Grant
        BY <2>1, <4>2 DEF Grant
      <4> QED
        BY <4>3 DEF GrantOf, w
    <3>3. d \in Database /\ d.users = db.users /\ d.grants = [db.grants EXCEPT ![h] = GrantOf(h)]
      BY <1>1, <1>4, <3>1, <3>2 DEF Database
    <3>4. db.grants \in [Requests -> Grant \cup {None}]
      BY <1>1 DEF Database
    <3> HIDE DEF d
    <3>5. \A g \in Requests : d.grants[g] = IF g = h THEN GrantOf(h) ELSE db.grants[g]
      BY <3>3, <3>4
    <3>6. UsersAfter(d, h)
      BY <1>1, <2>1, <3>3 DEF UsersAfter, Known
    <3>7. GrantsAfter(d, h)
      BY <1>2, <1>4, <2>2, <2>4, <3>2, <3>5 DEF GrantsAfter, GrantOf
    <3> QED
      BY <3>3, <3>6, <3>7 DEF d
  <2>5. CASE Ask[h].op = "revoke"
    <3> DEFINE k == Ask[h].grant
    <3>1. k \in Requests /\ db.grants[k] # None
      BY <1>4, <2>1, <2>5 DEF AskIsTyped, Accepted, RevokeAccepted
    <3>2. db.grants \in [Requests -> Grant \cup {None}] /\ db.grants[k] \in Grant
      BY <1>1, <3>1 DEF Database
    <3>3. d = [db EXCEPT !.grants[k].revoked = TRUE]
      BY <2>1, <2>5 DEF Mutated, Revoked
    <3> DEFINE new == [db.grants[k] EXCEPT !.revoked = TRUE]
    <3>4. /\ new \in Grant /\ new.revoked /\ new # None
          /\ new.agent = db.grants[k].agent /\ new.to = db.grants[k].to
          /\ new.scopes = db.grants[k].scopes /\ new.expires = db.grants[k].expires
      BY <3>2 DEF Grant
    <3>5. d \in Database /\ d.users = db.users /\ d.grants = [db.grants EXCEPT ![k] = new]
      <4> DEFINE G == [db.grants EXCEPT ![k] = new]
      <4>1. G \in [Requests -> Grant \cup {None}]
        <5> HIDE DEF k, new
        <5> QED
          BY <3>1, <3>2, <3>4
      <4>2. d = [db EXCEPT !.grants = G]
        BY <3>3
      <4> HIDE DEF d, G
      <4>3. d \in Database /\ d.users = db.users /\ d.grants = G
        BY <1>1, <4>1, <4>2 DEF Database
      <4> QED
        BY <4>3 DEF G
    <3> HIDE DEF d, new, k
    <3>6. \A g \in Requests : d.grants[g] = IF g = k THEN new ELSE db.grants[g]
      BY <3>2, <3>5
    <3>7. UsersAfter(d, h)
      BY <1>1, <2>1, <3>5 DEF UsersAfter, Known
    <3>8. GrantsAfter(d, h)
      <4>1. ASSUME NEW g \in Requests
            PROVE  /\ d.grants[g] # None <=> db.grants[g] # None
                   /\ db.grants[g].revoked => d.grants[g].revoked
                   /\ d.grants[g].agent = db.grants[g].agent /\ d.grants[g].to = db.grants[g].to
                   /\ d.grants[g].scopes = db.grants[g].scopes
                   /\ d.grants[g].expires = db.grants[g].expires
        BY <3>1, <3>4, <3>6
      <4>2. d.grants[k] # None /\ d.grants[k].revoked
        BY <3>1, <3>4, <3>6
      <4> QED
        BY <1>2, <1>4, <2>5, <4>1, <4>2 DEF GrantsAfter, k
    <3> QED
      BY <3>5, <3>7, <3>8 DEF d
  <2>6. CASE Ask[h].op = "guardrail"
    <3>1. d = [db EXCEPT !.policy[Ask[h].agent] = Ask[h].input]
      BY <2>1, <2>6 DEF Mutated
    <3>2. d \in Database /\ d.users = db.users /\ d.grants = db.grants
      BY <1>1, <2>1, <2>6, <3>1 DEF Database
    <3> QED
      BY <2>3, <2>6, <3>2
  <2>7. CASE Ask[h].op = "delete"
    <3>1. d = [db EXCEPT !.owner[Ask[h].agent] = None]
      BY <2>1, <2>7 DEF Mutated
    <3>2. d \in Database /\ d.users = db.users /\ d.grants = db.grants
      BY <1>1, <2>1, <3>1 DEF Database
    <3> QED
      BY <2>3, <2>7, <3>2
  <2>8. CASE Ask[h].op = "create"
    <3>1. d = [db EXCEPT !.owner[Ask[h].agent] = actor[h],
                         !.policy[Ask[h].agent] = DefaultPolicy]
      BY <2>1, <2>8 DEF Mutated
    <3>2. DefaultPolicy \in Policy /\ actor[h] \in Users \cup {None}
      BY <1>4 DEF DefaultPolicy, Policy, SandboxModes, Inv, Types
    <3>3. d \in Database /\ d.users = db.users /\ d.grants = db.grants
      <4> DEFINE e == [db EXCEPT !.owner[Ask[h].agent] = actor[h]]
      <4>1. e \in Database /\ e.users = db.users /\ e.grants = db.grants
        BY <1>1, <2>1, <3>2 DEF Database
      <4>2. d = [e EXCEPT !.policy[Ask[h].agent] = DefaultPolicy]
        BY <1>1, <3>1 DEF Database
      <4> HIDE DEF d, e
      <4> QED
        BY <2>1, <3>2, <4>1, <4>2 DEF Database
    <3> QED
      BY <2>3, <2>8, <3>3
  <2> QED
    BY <2>1, <2>4, <2>5, <2>6, <2>7, <2>8 DEF MutOps
<1> QED
  BY <1>3, <1>4, HeadWaits

-----------------------------------------------------------------------------
(* The other steps.                                                         *)

\* The continuation of a mutation that was refused moves its handler alone.
LEMMA RefuseOK ==
    ASSUME Inv, NEW h \in Requests \cup Callbacks, Refuse(h)
    PROVE  Inv'
<1> USE DEF Inv
<1> USE ControlPlaneAssumption
<1>1. /\ queue # <<>> /\ h = Head(queue) /\ queue' = Tail(queue)
      /\ UNCHANGED <<actor, decided, committed, db, now, scenario, mode, sandboxCeiling, metadata,
                     login, pendingLogins, handoffCodes, sessions, delivered>>
  BY DEF Refuse, AtHead, UserStored, fixed, identityVars, guardrailVars
<1>2. /\ h \in Requests => pc[h] = "queued" /\ h \notin Callbacks
      /\ h \in Callbacks => callback[h] = "provisioning"
  BY <1>1, HeadWaits
<1>3. \/ h \in Callbacks /\ callback' = [callback EXCEPT ![h] = "refused"] /\ pc' = pc
      \/ h \in Requests /\ pc' = [pc EXCEPT ![h] = "refused"] /\ callback' = callback
  BY DEF Refuse, UserStored, identityVars
<1>4. /\ pc \in [Requests -> Stages] /\ pc' \in [Requests -> Stages]
      /\ \A r \in Requests : r # h => pc'[r] = pc[r]
      /\ h \in Requests => pc'[h] = "refused"
  BY <1>2, <1>3 DEF Types, Stages
<1>5. /\ \A c \in Callbacks : c # h => callback'[c] = callback[c]
      /\ h \in Callbacks => callback'[h] = "refused"
      /\ callback' \in [Callbacks -> {"idle", "exchanging", "provisioning", "minting",
                                      "done", "refused"}]
  BY <1>2, <1>3 DEF Types, IdentityTypeOK
<1> HIDE <1>3
<1>6. Types'
  <2>1. queue' \in Seq(Requests \cup Callbacks)
    BY <1>1, Popped DEF Types
  <2> QED
    BY <1>1, <1>4, <1>5, <2>1 DEF Types, IdentityTypeOK, GuardrailConfigured
<1>7. Waiting'
  BY <1>1, <1>4, <1>5, Popped, SMTT(60) DEF Waiting, Types, Distinct
<1>8. OneTaken'
  BY <1>1, <1>2, <1>5 DEF OneTaken, Active
<1>9. UsersOK' /\ SessionsOK'
  BY <1>1, <1>5 DEF UsersOK, OneUserPerPrincipal, Known, SessionsOK
<1>10. GrantsOK'
  <2>1. \A g \in Requests : AnsweredRevoke(g)' => AnsweredRevoke(g)
    BY <1>1, <1>4 DEF AnsweredRevoke
  <2>2. \A g \in Requests : pc[g] \in {"done", "lost"} => pc'[g] = pc[g]
    BY <1>2, <1>4
  <2> QED
    BY <1>1, <2>1, <2>2 DEF GrantsOK
<1> QED
  BY <1>6, <1>7, <1>8, <1>9, <1>10

\* The commit of the head of the queue keeps the invariant.
LEMMA CommitOK ==
    ASSUME Inv, NEW h \in Requests \cup Callbacks, Commit(h)
    PROVE  Inv'
<1> USE DEF Inv
<1> USE ControlPlaneAssumption
<1>1. /\ queue # <<>> /\ h = Head(queue) /\ queue' = Tail(queue)
      /\ Accepted(h) /\ db' = Mutated(h)
      /\ UNCHANGED <<actor, decided, now, scenario, mode, sandboxCeiling, metadata,
                     login, pendingLogins, handoffCodes, sessions, delivered>>
  BY DEF Commit, AtHead, UserStored, fixed, identityVars, guardrailVars
<1>2. /\ h \in Requests => pc[h] = "queued" /\ h \notin Callbacks
      /\ h \in Callbacks => callback[h] = "provisioning"
  BY <1>1, HeadWaits
<1>3. \/ /\ h \in Callbacks /\ callback' = [callback EXCEPT ![h] = "minting"]
         /\ pc' = pc /\ committed' = committed
      \/ /\ h \in Requests /\ pc' = [pc EXCEPT ![h] = "done"]
         /\ callback' = callback /\ committed' = committed \cup {h}
  BY DEF Commit, UserStored, identityVars
<1>4. /\ pc \in [Requests -> Stages] /\ pc' \in [Requests -> Stages]
      /\ \A r \in Requests : r # h => pc'[r] = pc[r]
      /\ h \in Requests => pc'[h] = "done" /\ committed' = committed \cup {h}
      /\ h \notin Requests => committed' = committed
  BY <1>2, <1>3 DEF Types, Stages
<1>5. /\ \A c \in Callbacks : c # h => callback'[c] = callback[c]
      /\ h \in Callbacks => callback'[h] = "minting"
      /\ callback' \in [Callbacks -> {"idle", "exchanging", "provisioning", "minting",
                                      "done", "refused"}]
  BY <1>2, <1>3 DEF Types, IdentityTypeOK
<1> HIDE <1>3
<1>6. db' \in Database /\ UsersAfter(db', h) /\ GrantsAfter(db', h)
  BY <1>1, MutationOK
<1>7. Types'
  <2>1. queue' \in Seq(Requests \cup Callbacks)
    BY <1>1, Popped DEF Types
  <2> QED
    BY <1>1, <1>4, <1>5, <1>6, <2>1 DEF Types, IdentityTypeOK, GuardrailConfigured
<1>8. Waiting'
  <2>1. /\ Distinct(queue')
        /\ \A i \in 1..Len(queue') :
              queue'[i] # h /\ \E j \in 1..Len(queue) : queue'[i] = queue[j]
    <3>1. Distinct(queue) /\ queue \in Seq(Requests \cup Callbacks)
      BY DEF Waiting, Types
    <3> QED
      BY <1>1, <3>1, Popped
  <2>2. ASSUME NEW i \in 1..Len(queue')
        PROVE  /\ queue'[i] \in Requests => pc'[queue'[i]] = "queued"
               /\ queue'[i] \in Callbacks => callback'[queue'[i]] = "provisioning"
    <3>1. PICK j \in 1..Len(queue) : queue'[i] = queue[j]
      BY <2>1
    <3>2. /\ queue[j] \in Requests => pc[queue[j]] = "queued"
          /\ queue[j] \in Callbacks => callback[queue[j]] = "provisioning"
      BY DEF Waiting
    <3>3. queue[j] # h
      BY <2>1, <3>1
    <3> QED
      BY <1>4, <1>5, <3>1, <3>2, <3>3
  <2>3. ASSUME NEW r \in Requests
        PROVE  /\ pc'[r] = "files" => Ask[r].op \in {"delete", "create"}
               /\ pc'[r] = "queued" => /\ Ask[r].op \in MutOps
                                       /\ Ask[r].op = "guardrail" => Ask[r].input \in Policy
    <3>1. pc'[r] = pc[r] \/ pc'[r] = "done"
      BY <1>4
    <3> QED
      BY <3>1 DEF Waiting
  <2> QED
    BY <2>1, <2>2, <2>3 DEF Waiting
<1>9. OneTaken'
  BY <1>1, <1>2, <1>5 DEF OneTaken, Active
<1>10. UsersOK'
  <2>1. OneUserPerPrincipal'
    BY <1>6 DEF UsersAfter, OneUserPerPrincipal, Known
  <2>2. ASSUME NEW c \in Callbacks, callback'[c] \in {"idle", "exchanging", "provisioning"}
        PROVE  db'.users[c] = None
    BY <1>5, <1>6, <2>2 DEF UsersAfter, UsersOK, Users
  <2>3. ASSUME NEW c \in Callbacks, callback'[c] = "minting"
        PROVE  \E u \in Users : db'.users[u] = Subject[LoginOf[c]]
    <3>1. CASE c = h
      BY <1>6, <3>1 DEF UsersAfter
    <3>2. CASE c # h
      <4>1. PICK u \in Users : db.users[u] = Subject[LoginOf[c]]
        BY <1>5, <2>3, <3>2 DEF UsersOK
      <4>2. Subject[LoginOf[c]] # None
        BY IdentityAssumption DEF Users
      <4> QED
        BY <1>6, <4>1, <4>2 DEF UsersAfter, Known
    <3> QED
      BY <3>1, <3>2
  <2> QED
    BY <2>1, <2>2, <2>3 DEF UsersOK
<1>11. SessionsOK'
  <2>1. \A c \in Callbacks : Subject[LoginOf[c]] # None
    BY IdentityAssumption DEF Users
  <2>2. \A c \in Callbacks : handoffCodes[c] # None => handoffCodes[c].user \in Users
    BY DEF Types, IdentityTypeOK, Handoff
  <2>3. \A s \in sessions : s.user \in Users /\ s.callback \in Callbacks \cup {None}
    BY DEF Types, IdentityTypeOK, Session
  <2>4. \A u \in Users : db.users[u] # None => db'.users[u] = db.users[u]
    BY <1>6 DEF UsersAfter, Known
  <2> QED
    BY <1>1, <2>1, <2>2, <2>3, <2>4 DEF SessionsOK
<1>12. GrantsOK'
  <2>1. \A g \in Requests : AnsweredRevoke(g)' =>
           AnsweredRevoke(g) \/ (h \in Requests /\ Ask[h].op = "revoke" /\ Ask[h].grant = g)
    BY <1>4 DEF AnsweredRevoke
  <2>2. \A g \in Requests : AnsweredRevoke(g)' => db'.grants[g] # None /\ db'.grants[g].revoked
    BY <1>6, <2>1 DEF GrantsAfter, GrantsOK
  <2>3. ASSUME NEW g \in Requests, db'.grants[g] # None
        PROVE  /\ g \in committed' /\ pc'[g] \in {"done", "lost"} /\ Ask[g].op = "grant"
               /\ db'.grants[g].agent = Ask[g].agent /\ db'.grants[g].to = Ask[g].grant.to
               /\ db'.grants[g].scopes = Ask[g].grant.scopes
               /\ db'.grants[g].expires = Ask[g].grant.expires
    <3>1. db.grants[g] # None \/ (g = h /\ h \in Requests)
      BY <1>6, <2>3 DEF GrantsAfter
    <3>2. g \in committed' /\ pc'[g] \in {"done", "lost"}
      BY <1>2, <1>4, <3>1 DEF GrantsOK
    <3> QED
      BY <1>6, <2>3, <3>2 DEF GrantsAfter
  <2> QED
    BY <2>2, <2>3 DEF GrantsOK
<1> QED
  BY <1>7, <1>8, <1>9, <1>10, <1>11, <1>12

\* A callback whose user is verified waits for its mutation.
LEMMA VerifiedOK ==
    ASSUME Inv, NEW c \in Callbacks, Verified(c)
    PROVE  Inv'
<1> USE DEF Inv
<1> USE ControlPlaneAssumption
<1>1. /\ callback[c] = "exchanging" /\ callback' = [callback EXCEPT ![c] = "provisioning"]
      /\ queue' = Append(queue, c)
      /\ UNCHANGED <<pc, actor, decided, committed, db, now, scenario, mode, sandboxCeiling,
                     metadata, login, pendingLogins, handoffCodes, sessions, delivered>>
  BY DEF Verified, Exchanged, fixed, guardrailVars
<1>2. /\ \A d \in Callbacks : callback'[d] = IF d = c THEN "provisioning" ELSE callback[d]
      /\ callback' \in [Callbacks -> {"idle", "exchanging", "provisioning", "minting",
                                      "done", "refused"}]
  BY <1>1 DEF Types, IdentityTypeOK
<1>3. queue \in Seq(Requests \cup Callbacks) /\ c \in Requests \cup Callbacks /\ c \notin Requests
  BY DEF Types
<1>4. Types'
  <2>1. queue' \in Seq(Requests \cup Callbacks)
    BY <1>1, <1>3, Appended
  <2> QED
    BY <1>1, <1>2, <2>1 DEF Types, IdentityTypeOK, GuardrailConfigured
<1>5. Waiting'
  <2>1. \A i \in 1..Len(queue) : queue[i] # c
    BY <1>1 DEF Waiting
  <2>2. Distinct(queue)'
    BY <1>1, <1>3, <2>1, Appended DEF Waiting, Distinct
  <2>3. \A i \in 1..Len(queue') : queue'[i] = c \/ \E j \in 1..Len(queue) : queue'[i] = queue[j]
    BY <1>1, <1>3, Appended
  <2> QED
    BY <1>1, <1>2, <1>3, <2>1, <2>2, <2>3 DEF Waiting
<1>6. OneTaken'
  BY <1>1, <1>2 DEF OneTaken, Active
<1>7. UsersOK' /\ SessionsOK' /\ GrantsOK'
  BY <1>1, <1>2 DEF UsersOK, OneUserPerPrincipal, Known, SessionsOK, GrantsOK, AnsweredRevoke
<1> QED
  BY <1>4, <1>5, <1>6, <1>7

\* The rest of the sign-in leaves the database and the requests alone.
SignInFrame ==
    UNCHANGED <<db, now, queue, pc, actor, decided, committed, scenario, mode, sandboxCeiling>>

\* A step that leaves the database and the requests alone need only keep what is said of logins.
LEMMA SignInKeeps ==
    ASSUME Inv, SignInFrame, IdentityTypeOK', OneTaken', SessionsOK',
           \A c \in Callbacks : /\ callback'[c] = "provisioning" <=> callback[c] = "provisioning"
                                /\ callback'[c] = "idle" => callback[c] = "idle"
                                /\ callback'[c] = "exchanging" => callback[c] \in {"idle", "exchanging"}
                                /\ callback'[c] = "minting" => callback[c] = "minting"
    PROVE  Inv'
<1>1. Types'
  BY DEF SignInFrame, Inv, Types, GuardrailConfigured
<1>2. Waiting'
  BY DEF SignInFrame, Inv, Waiting, Distinct
<1>3. UsersOK'
  BY DEF SignInFrame, Inv, UsersOK, OneUserPerPrincipal, Known
<1>4. GrantsOK'
  BY DEF SignInFrame, Inv, GrantsOK, AnsweredRevoke
<1> QED
  BY <1>1, <1>2, <1>3, <1>4 DEF Inv

\* Only logins without a callback are given a state.
LEMMA RedirectOK ==
    ASSUME Inv, SignInFrame, NEW L \in SUBSET {l \in Logins : login[l] # "redirected"},
           \/ Redirect(L)
           \/ /\ pendingLogins' = pendingLogins /\ L = {}
              /\ \A l \in Logins : login[l] = "redirected" => login'[l] = "redirected"
              /\ login' \in [Logins -> {"idle", "discovering", "redirected"}],
           metadata' \in {"none", "pending", "cached"},
           UNCHANGED <<callback, handoffCodes, sessions, delivered>>
    PROVE  Inv'
<1> USE DEF Inv
<1> USE IdentityAssumption
<1>1. /\ \A l \in Logins : login[l] = "redirected" => /\ login'[l] = "redirected"
                                                      /\ pendingLogins'[l] = pendingLogins[l]
      /\ login' \in [Logins -> {"idle", "discovering", "redirected"}]
      /\ pendingLogins' \in [Logins -> Nat \cup {None}]
  <2>1. now + LoginTTL \in Nat
    BY DEF Types, Time
  <2>2. /\ login \in [Logins -> {"idle", "discovering", "redirected"}]
        /\ pendingLogins \in [Logins -> Nat \cup {None}]
    BY DEF Types, IdentityTypeOK
  <2>3. CASE Redirect(L)
    <3>1. login' \in [Logins -> {"idle", "discovering", "redirected"}]
      BY <2>2, <2>3 DEF Redirect
    <3>2. pendingLogins' \in [Logins -> Nat \cup {None}]
      BY <2>1, <2>2, <2>3 DEF Redirect
    <3>3. ASSUME NEW l \in Logins, login[l] = "redirected"
          PROVE  login'[l] = "redirected" /\ pendingLogins'[l] = pendingLogins[l]
      BY <2>3, <3>3 DEF Redirect
    <3> QED
      BY <3>1, <3>2, <3>3
  <2>4. CASE pendingLogins' = pendingLogins /\ L = {}
    BY <2>2, <2>4 DEF Redirect
  <2> QED
    BY <2>3, <2>4
<1>2. IdentityTypeOK'
  BY <1>1 DEF Types, IdentityTypeOK
<1>3. OneTaken'
  BY <1>1 DEF OneTaken
<1>4. SessionsOK'
  BY DEF SessionsOK, SignInFrame
<1> QED
  BY <1>2, <1>3, <1>4, SignInKeeps

\* The steps of logins, callbacks and exchanges keep the invariant.
LEMMA SignInOK ==
    ASSUME Inv, SignIn
    PROVE  Inv'
<1> USE IdentityAssumption, ControlPlaneAssumption
<1>1. SignInFrame
  BY DEF SignIn, SignInFrame, requestVars, fixed, guardrailVars
<1>2. IdentityTypeOK /\ db \in Database /\ now \in Time
  BY DEF Inv, Types
<1>3. ASSUME NEW l \in Logins, StartLogin(l) PROVE Inv'
  <2>1. CASE metadata = "cached"
    BY <1>1, <1>2, <1>3, <2>1, RedirectOK DEF StartLogin, IdentityTypeOK
  <2>2. CASE metadata # "cached"
    <3>1. login' = [login EXCEPT ![l] = "discovering"] /\ metadata' = "pending"
      BY <1>3, <2>2 DEF StartLogin
    <3>2. /\ \A k \in Logins : login[k] = "redirected" => login'[k] = "redirected"
          /\ login' \in [Logins -> {"idle", "discovering", "redirected"}]
      BY <1>2, <1>3, <3>1 DEF IdentityTypeOK, StartLogin
    <3> QED
      BY <1>1, <1>3, <2>2, <3>1, <3>2, RedirectOK DEF StartLogin
  <2> QED
    BY <2>1, <2>2
<1>4. CASE Discovered
  BY <1>1, <1>4, RedirectOK DEF Discovered
<1>5. CASE DiscoveryFails
  <2>1. /\ \A k \in Logins : login[k] = "redirected" => login'[k] = "redirected"
        /\ login' \in [Logins -> {"idle", "discovering", "redirected"}]
    BY <1>2, <1>5 DEF IdentityTypeOK, DiscoveryFails
  <2> QED
    BY <1>1, <1>5, <2>1, RedirectOK DEF DiscoveryFails
<1>6. ASSUME NEW c \in Callbacks, Callback(c) PROVE Inv'
  <2> DEFINE l == LoginOf[c]
             next == IF Valid(pendingLogins[l]) THEN "exchanging" ELSE "refused"
  <2>1. /\ l \in Logins /\ login[l] = "redirected" /\ callback[c] = "idle"
        /\ next \in {"exchanging", "refused"} /\ (next = "exchanging" => pendingLogins[l] # None)
        /\ pendingLogins' = [pendingLogins EXCEPT ![l] = None]
        /\ callback' = [callback EXCEPT ![c] = next]
        /\ UNCHANGED <<metadata, login, handoffCodes, sessions, delivered>>
    BY <1>6 DEF Callback, Valid, Taken
  <2> HIDE DEF next
  <2>2. IdentityTypeOK'
    BY <1>2, <2>1 DEF IdentityTypeOK
  <2>3. \A d \in Callbacks : callback'[d] = IF d = c THEN next ELSE callback[d]
    BY <1>2, <2>1 DEF IdentityTypeOK
  <2>4. \A k \in Logins : pendingLogins'[k] = IF k = l THEN None ELSE pendingLogins[k]
    BY <1>2, <2>1 DEF IdentityTypeOK
  <2>5. OneTaken'
    <3>1. \A d \in Callbacks : callback'[d] # "idle" => /\ login'[LoginOf[d]] = "redirected"
                                                        /\ pendingLogins'[LoginOf[d]] = None
      BY <2>1, <2>3, <2>4 DEF Inv, OneTaken
    <3>2. \A d \in Callbacks : LoginOf[d] = l /\ next = "exchanging" => callback[d] = "idle"
      BY <2>1 DEF Inv, OneTaken
    <3>3. \A d, e \in Callbacks : LoginOf[d] = LoginOf[e] /\ callback'[d] \in Active
                                   /\ callback'[e] \in Active => d = e
      BY <2>1, <2>3, <3>2 DEF Inv, OneTaken, Active
    <3>4. \A d \in Callbacks : /\ handoffCodes'[d] # None => callback'[d] = "done" /\ delivered'[d] = 0
                               /\ delivered'[d] > 0 => callback'[d] = "done" /\ delivered'[d] = 1
      BY <2>1, <2>3 DEF Inv, OneTaken
    <3> QED
      BY <3>1, <3>3, <3>4 DEF OneTaken
  <2>6. SessionsOK'
    BY <1>1, <2>1 DEF Inv, SessionsOK, SignInFrame
  <2> QED
    BY <1>1, <2>1, <2>2, <2>3, <2>5, <2>6, SignInKeeps
<1>7. ASSUME NEW c \in Callbacks, ExchangeFails(c) PROVE Inv'
  <2>1. /\ callback[c] = "exchanging" /\ callback' = [callback EXCEPT ![c] = "refused"]
        /\ UNCHANGED <<metadata, login, pendingLogins, handoffCodes, sessions, delivered>>
    BY <1>7 DEF ExchangeFails
  <2>2. IdentityTypeOK'
    BY <1>2, <2>1 DEF IdentityTypeOK
  <2>3. \A d \in Callbacks : callback'[d] = IF d = c THEN "refused" ELSE callback[d]
    BY <1>2, <2>1 DEF IdentityTypeOK
  <2>4. OneTaken' /\ SessionsOK'
    BY <1>1, <2>1, <2>3 DEF Inv, OneTaken, Active, SessionsOK, SignInFrame
  <2> QED
    BY <1>1, <2>1, <2>2, <2>3, <2>4, SignInKeeps
<1>8. ASSUME NEW c \in Callbacks, HandOff(c) PROVE Inv'
  <2> DEFINE u == UserOf(db, Subject[LoginOf[c]])
             code == CodeFor(u)
  <2>1. /\ callback[c] = "minting" /\ callback' = [callback EXCEPT ![c] = "done"]
        /\ handoffCodes' = [handoffCodes EXCEPT ![c] = code]
        /\ UNCHANGED <<metadata, login, pendingLogins, sessions, delivered>>
    BY <1>8 DEF HandOff
  <2>2. u \in Users /\ db.users[u] = Subject[LoginOf[c]]
    BY <2>1 DEF Inv, UsersOK, UserOf
  <2>3. code \in Handoff /\ code.user = u /\ code.expires = code.minted + HandoffTTL
    <3>1. now + HandoffTTL \in Nat
      BY <1>2 DEF Time
    <3> QED
      BY <1>2, <2>2, <3>1 DEF CodeFor, Handoff
  <2> HIDE DEF code, u
  <2>4. IdentityTypeOK'
    BY <1>2, <2>1, <2>3 DEF IdentityTypeOK
  <2>5. \A d \in Callbacks : /\ callback'[d] = IF d = c THEN "done" ELSE callback[d]
                             /\ handoffCodes'[d] = IF d = c THEN code ELSE handoffCodes[d]
    BY <1>2, <2>1 DEF IdentityTypeOK
  <2>6. delivered[c] = 0
    <3>1. delivered[c] \in Nat
      BY <1>2 DEF IdentityTypeOK
    <3> QED
      BY <2>1, <3>1 DEF Inv, OneTaken
  <2>7. OneTaken'
    BY <2>1, <2>5, <2>6 DEF Inv, OneTaken, Active
  <2>8. SessionsOK'
    BY <1>1, <2>1, <2>2, <2>3, <2>5 DEF Inv, SessionsOK, SignInFrame
  <2> QED
    BY <1>1, <2>1, <2>4, <2>5, <2>7, <2>8, SignInKeeps
<1>9. ASSUME NEW c \in Callbacks, Exchange(c) PROVE Inv'
  <2> DEFINE code == handoffCodes[c]
             session == [callback |-> c, user |-> code.user, minted |-> code.minted, taken |-> now]
  <2>1. /\ code # None /\ handoffCodes' = [handoffCodes EXCEPT ![c] = None]
        /\ \/ /\ code.expires # None /\ code.expires >= now
              /\ sessions' = sessions \cup {session}
              /\ delivered' = [delivered EXCEPT ![c] = @ + 1]
           \/ UNCHANGED <<sessions, delivered>>
        /\ UNCHANGED <<metadata, login, callback, pendingLogins>>
    BY <1>9 DEF Exchange, Taken, Valid
  <2>2. code \in Handoff /\ delivered \in [Callbacks -> Nat] /\ delivered[c] = 0
    BY <1>2, <2>1 DEF IdentityTypeOK, Inv, OneTaken
  <2>3. session \in Session
    BY <1>2, <2>2 DEF Session, Handoff
  <2>4. IdentityTypeOK'
    BY <1>2, <2>1, <2>2, <2>3 DEF IdentityTypeOK
  <2>5. \A d \in Callbacks : /\ handoffCodes'[d] = IF d = c THEN None ELSE handoffCodes[d]
                             /\ d # c => delivered'[d] = delivered[d]
                             /\ delivered'[c] \in {0, 1}
    BY <1>2, <2>1, <2>2 DEF IdentityTypeOK
  <2>6. OneTaken'
    BY <2>1, <2>5 DEF Inv, OneTaken
  <2>7. SessionsOK'
    <3>1. db.users[session.user] = Subject[LoginOf[c]] /\ session.callback = c
      BY <2>1 DEF Inv, SessionsOK
    <3>2. code.expires # None /\ code.expires >= now => session.taken <= session.minted + HandoffTTL
      BY <1>2, <2>1, <2>2 DEF Inv, SessionsOK, Time, Handoff
    <3> HIDE DEF session, code
    <3> QED
      BY <1>1, <2>1, <2>5, <3>1, <3>2 DEF Inv, SessionsOK, SignInFrame
  <2> QED
    BY <1>1, <2>1, <2>4, <2>6, <2>7, SignInKeeps
<1>10. \A c \in scenario.callbacks : LoginOf[c] \in Logins
  BY DEF Inv, Types, ScenarioIsTyped
<1> QED
  BY <1>3, <1>4, <1>5, <1>6, <1>7, <1>8, <1>9, <1>10 DEF SignIn, IdentityStep

\* The server dies: the mutation at the head may be in the file, its answer is lost.
LEMMA RestartOK ==
    ASSUME Inv, Restart
    PROVE  Inv'
<1> USE DEF Inv
<1> USE ControlPlaneAssumption
<1>1. PICK durable \in BOOLEAN :
         /\ durable => queue # <<>> /\ Accepted(Head(queue))
         /\ db' = IF durable THEN Mutated(Head(queue)) ELSE db
         /\ committed' = IF durable /\ Head(queue) \in Requests
                         THEN committed \cup {Head(queue)} ELSE committed
  BY DEF Restart
<1>2. /\ queue' = <<>> /\ scenario' = scenario /\ now' = now /\ actor' = actor
      /\ decided' = decided /\ sessions' = sessions /\ delivered' = delivered
      /\ pc' = [r \in Requests |-> IF pc[r] \in {"files", "queued"} THEN "lost" ELSE pc[r]]
      /\ IdentityRestarts
  BY DEF Restart, IdentityRestarts
<1>3. /\ \A r \in Requests : pc'[r] = IF pc[r] \in {"files", "queued"} THEN "lost" ELSE pc[r]
      /\ pc' \in [Requests -> Stages]
  BY <1>2 DEF Types, Stages
<1>4. /\ \A c \in Callbacks : /\ callback'[c] = IF callback[c] \in {"idle", "done"}
                                                THEN callback[c] ELSE "refused"
                              /\ handoffCodes'[c] = None
      /\ \A l \in Logins : /\ login[l] = "redirected" => login'[l] = "redirected"
                           /\ pendingLogins'[l] = None
      /\ IdentityTypeOK'
  BY <1>2 DEF IdentityRestarts, Types, IdentityTypeOK
<1>5. GuardrailConfigured'
  <2>1. PICK s \in scenario.settings : mode' = s[1] /\ sandboxCeiling' = s[2]
    BY DEF Restart
  <2>2. s \in Modes \X SandboxModes
    BY <2>1 DEF Types, ScenarioIsTyped
  <2> QED
    BY <2>1, <2>2 DEF GuardrailConfigured
\* The database is the old one, or that of the mutation at the head.
<1>6. \E h : /\ db' \in Database /\ UsersAfter(db', h) /\ GrantsAfter(db', h)
             /\ h \in Requests => pc[h] = "queued" /\ h \in committed'
             /\ h \in Callbacks => callback[h] = "provisioning"
  <2>1. CASE durable
    <3>1. queue # <<>> /\ Accepted(Head(queue)) /\ db' = Mutated(Head(queue))
      BY <1>1, <2>1
    <3>2. db' \in Database /\ UsersAfter(db', Head(queue)) /\ GrantsAfter(db', Head(queue))
      BY <3>1, MutationOK
    <3>3. /\ Head(queue) \in Requests => pc[Head(queue)] = "queued"
          /\ Head(queue) \in Callbacks => callback[Head(queue)] = "provisioning"
      BY <3>1, HeadWaits
    <3> QED
      BY <1>1, <2>1, <3>2, <3>3
  <2>2. CASE ~durable
    <3>1. PICK h : h \notin Requests \cup Callbacks
      <4>1. \E h : h \notin Requests \cup Callbacks
        <5> DEFINE R == {x \in Requests \cup Callbacks : x \notin x}
        <5>1. R \notin Requests \cup Callbacks
          OBVIOUS
        <5> QED
          BY <5>1
      <4> QED
        BY <4>1
    <3>2. db' = db
      BY <1>1, <2>2
    <3>3. UsersAfter(db, h) /\ GrantsAfter(db, h) /\ db \in Database
      BY <3>1 DEF UsersAfter, GrantsAfter, UsersOK, OneUserPerPrincipal, GrantsOK, Types
    <3> QED
      BY <3>1, <3>2, <3>3
  <2> QED
    BY <2>1, <2>2
<1>7. PICK h : /\ db' \in Database /\ UsersAfter(db', h) /\ GrantsAfter(db', h)
               /\ h \in Requests => pc[h] = "queued" /\ h \in committed'
               /\ h \in Callbacks => callback[h] = "provisioning"
  BY <1>6
<1>8. committed \subseteq committed' /\ committed' \subseteq Requests
  BY <1>1 DEF Types
<1>9. Types'
  <2>1. queue' \in Seq(Requests \cup Callbacks)
    BY <1>2
  <2> QED
    BY <1>2, <1>3, <1>4, <1>5, <1>7, <1>8, <2>1 DEF Types
<1>10. Waiting'
  BY <1>2, <1>3 DEF Waiting, Distinct
<1>11. OneTaken'
  <2>1. \A c \in Callbacks : /\ callback'[c] # "idle" => callback[c] # "idle"
                             /\ callback'[c] \in Active => callback[c] = "done"
                             /\ callback[c] = "done" => callback'[c] = "done"
    BY <1>4 DEF Active
  <2>2. \A c \in Callbacks : callback'[c] # "idle" => /\ login'[LoginOf[c]] = "redirected"
                                                      /\ pendingLogins'[LoginOf[c]] = None
    BY <1>4, <2>1, IdentityAssumption DEF OneTaken
  <2>3. \A c, d \in Callbacks : LoginOf[c] = LoginOf[d] /\ callback'[c] \in Active
                                 /\ callback'[d] \in Active => c = d
    BY <2>1 DEF OneTaken, Active
  <2> QED
    BY <1>2, <1>4, <2>1, <2>2, <2>3 DEF OneTaken
<1>12. UsersOK'
  <2>1. OneUserPerPrincipal'
    BY <1>7 DEF UsersAfter, OneUserPerPrincipal, Known
  <2>2. ASSUME NEW c \in Callbacks PROVE callback'[c] # "minting"
    BY <1>4
  <2>3. ASSUME NEW c \in Callbacks, callback'[c] \in {"idle", "exchanging", "provisioning"}
        PROVE  db'.users[c] = None
    <3>1. callback[c] = "idle" /\ c # h
      BY <1>4, <1>7, <2>3
    <3> QED
      BY <1>7, <3>1 DEF UsersOK, UsersAfter, Users
  <2> QED
    BY <2>1, <2>2, <2>3 DEF UsersOK
<1>13. SessionsOK'
  <2>1. \A c \in Callbacks : Subject[LoginOf[c]] # None
    BY IdentityAssumption DEF Users
  <2>2. \A s \in sessions : s.user \in Users /\ s.callback \in Callbacks \cup {None}
    BY DEF Types, IdentityTypeOK, Session
  <2>3. \A u \in Users : db.users[u] # None => db'.users[u] = db.users[u]
    BY <1>7 DEF UsersAfter, Known
  <2> QED
    BY <1>2, <1>4, <2>1, <2>2, <2>3 DEF SessionsOK
<1>14. GrantsOK'
  <2>1. \A g \in Requests : AnsweredRevoke(g)' => AnsweredRevoke(g)
    BY <1>3 DEF AnsweredRevoke
  <2>2. \A g \in Requests : AnsweredRevoke(g)' => db'.grants[g] # None /\ db'.grants[g].revoked
    BY <1>7, <2>1 DEF GrantsAfter, GrantsOK
  <2>3. ASSUME NEW g \in Requests, db'.grants[g] # None
        PROVE  /\ g \in committed' /\ pc'[g] \in {"done", "lost"} /\ Ask[g].op = "grant"
               /\ db'.grants[g].agent = Ask[g].agent /\ db'.grants[g].to = Ask[g].grant.to
               /\ db'.grants[g].scopes = Ask[g].grant.scopes
               /\ db'.grants[g].expires = Ask[g].grant.expires
    <3>1. db.grants[g] # None \/ (g = h /\ h \in Requests)
      BY <1>7, <2>3 DEF GrantsAfter
    <3>2. g \in committed' /\ pc'[g] \in {"done", "lost"}
      BY <1>3, <1>7, <1>8, <3>1 DEF GrantsOK
    <3> QED
      BY <1>7, <2>3, <3>2 DEF GrantsAfter
  <2> QED
    BY <2>2, <2>3 DEF GrantsOK
<1> QED
  BY <1>9, <1>10, <1>11, <1>12, <1>13, <1>14

\* Nothing that the invariant speaks of, or only the clock.
LEMMA ClockOK ==
    ASSUME Inv, Tick \/ UNCHANGED vars
    PROVE  Inv'
<1>1. /\ UNCHANGED <<db, queue, pc, actor, decided, committed, scenario, mode, sandboxCeiling,
                     metadata, login, callback, pendingLogins, handoffCodes, sessions, delivered>>
      /\ now' \in Time
  <2>1. CASE Tick
    <3>1. scenario.until \in Time /\ now \in Time
      BY ControlPlaneAssumption DEF Inv, Types, ScenarioIsTyped
    <3>2. now' \in Time
      BY <2>1, <3>1, IdentityAssumption DEF Tick, Time
    <3> QED
      BY <2>1, <3>2 DEF Tick, requestVars, fixed, identityVars, guardrailVars
  <2>2. CASE UNCHANGED vars
    BY <2>2 DEF vars, requestVars, identityVars, guardrailVars, Inv, Types
  <2> QED
    BY <2>1, <2>2
<1>2. Types' /\ Waiting'
  BY <1>1 DEF Inv, Types, IdentityTypeOK, GuardrailConfigured, Waiting, Distinct
<1>3. OneTaken' /\ UsersOK' /\ SessionsOK' /\ GrantsOK'
  BY <1>1 DEF Inv, OneTaken, UsersOK, OneUserPerPrincipal, Known, SessionsOK, GrantsOK,
              AnsweredRevoke
<1> QED
  BY <1>2, <1>3 DEF Inv

\* Inv is inductive.
LEMMA NextOK == Inv /\ [Next]_vars => Inv'
<1> SUFFICES ASSUME Inv, [Next]_vars PROVE Inv'
  OBVIOUS
<1>1. ASSUME NEW r \in Requests,
             Unidentified(r) \/ Enforce(r) \/ Create(r) \/ FilesDone(r) \/ AuditPage(r)
      PROVE  Inv'
  BY <1>1, RequestMoves, MovesOK
<1>2. ASSUME NEW c \in Callbacks, Verified(c) PROVE Inv'
  BY <1>2, VerifiedOK
<1>3. ASSUME NEW h \in Requests \cup Callbacks, Commit(h) \/ Refuse(h) PROVE Inv'
  BY <1>3, CommitOK, RefuseOK
<1>4. CASE SignIn
  BY <1>4, SignInOK
<1>5. CASE Tick \/ UNCHANGED vars
  BY <1>5, ClockOK
<1>6. CASE Restart
  BY <1>6, RestartOK
<1> QED
  BY <1>1, <1>2, <1>3, <1>4, <1>5, <1>6 DEF Next

\* Inv holds in every behaviour.
LEMMA Invariance == Spec => []Inv
<1> QED
  BY InitOK, NextOK, PTL DEF Spec

-----------------------------------------------------------------------------
(* "An owner can neither remove them nor loosen them" (engine.ts:93): the   *)
(* baseline decides as it does alone, masks its secrets and the sandbox     *)
(* stays under the ceiling, for any rules that owners were ever allowed to  *)
(* store and any settings the server is restarted with.                     *)
THEOREM Guardrails == Spec => []GuardrailsHold
<1>1. Inv => GuardrailsHold
  <2> SUFFICES ASSUME Inv, NEW a \in Agents
               PROVE  LET policy == db.policy[a] IN
                      /\ BaselineDecides(policy) /\ SecretsAreMasked(policy)
                      /\ UnderCeiling(policy) /\ OnlyEnforcingBlocks(policy)
    BY DEF GuardrailsHold
  <2>1. db.policy[a] \in Input /\ GuardrailConfigured
    BY PolicyIsInput DEF Inv, Types, Database
  <2> QED
    BY <2>1, EngineHolds
<1> QED
  BY <1>1, Invariance, PTL

(* The lookup inside the mutation of provisionOidcUser (policy.ts:79) makes *)
(* one user per principal, for any number of logins and crashes.            *)
THEOREM OneUser == Spec => []OneUserPerPrincipal
<1>1. Inv => OneUserPerPrincipal
  BY DEF Inv, UsersOK
<1> QED
  BY <1>1, Invariance, PTL

(* takeOnce (flow-store.ts) lets one callback through per login and one     *)
(* exchange per code: a login ends in at most one session, of its subject.  *)
THEOREM OneSession == Spec => []OneSessionPerLogin
<1>1. Inv => OneSessionPerLogin
  <2> SUFFICES ASSUME Inv PROVE OneSessionPerLogin
    OBVIOUS
  <2>1. ASSUME NEW c \in Callbacks, NEW d \in Callbacks, LoginOf[c] = LoginOf[d],
               delivered[c] > 0, delivered[d] > 0
        PROVE  c = d /\ delivered[c] = 1
    BY <2>1 DEF Inv, OneTaken, Active
  <2>2. ASSUME NEW s \in sessions, s.callback # None
        PROVE  /\ db.users[s.user] = Subject[LoginOf[s.callback]]
               /\ s.taken <= s.minted + HandoffTTL
    BY <2>2 DEF Inv, SessionsOK
  <2> QED
    BY <2>1, <2>2 DEF OneSessionPerLogin
<1> QED
  BY <1>1, Invariance, PTL

(* A request of somebody who is not the owner is let through only by a      *)
(* grant that has not expired and whose revocation was not answered yet,    *)
(* for any grants, revocations and crashes between them (policy.ts:hasScope)*)
THEOREM RevokedRefused == Spec => RevokedIsRefused
<1> DEFINE Justified(r) ==
       decided[r] = None /\ decided'[r] = "allow" /\ db.owner[Ask[r].agent] # actor'[r]
          => \E g \in committed : /\ Ask[g].op = "grant" /\ ~AnsweredRevoke(g)
                                  /\ Ask[g].agent = Ask[r].agent
                                  /\ Action[Ask[r].op] \in Ask[g].grant.scopes
                                  /\ Ask[g].grant.to = actor'[r]
                                  /\ (Ask[g].grant.expires # None
                                         => Ask[g].grant.expires > now)
<1>1. ASSUME Inv, [Next]_vars, NEW r \in Requests PROVE Justified(r)
  <2> SUFFICES ASSUME decided[r] = None, decided'[r] = "allow",
                      db.owner[Ask[r].agent] # actor'[r]
               PROVE  \E g \in committed : /\ Ask[g].op = "grant" /\ ~AnsweredRevoke(g)
                                  /\ Ask[g].agent = Ask[r].agent
                                  /\ Action[Ask[r].op] \in Ask[g].grant.scopes
                                  /\ Ask[g].grant.to = actor'[r]
                                  /\ (Ask[g].grant.expires # None
                                         => Ask[g].grant.expires > now)
    OBVIOUS
  <2>1. decided'[r] # decided[r]
    BY ControlPlaneAssumption
  <2>2. PICK q \in Requests : Enforce(q)
    BY <1>1, <2>1 DEF Next, Unidentified, Create, FilesDone, AuditPage, Verified, Commit,
                      Refuse, SignIn, Tick, Restart, vars, requestVars
  <2>3. PICK u \in Users :
           /\ actor' = [actor EXCEPT ![q] = u]
           /\ decided' = [decided EXCEPT ![q] =
                 IF HasScope(db, u, Ask[q].agent, Action[Ask[q].op]) THEN "allow" ELSE "deny"]
    BY <2>2 DEF Enforce
  <2>4. q = r /\ actor'[r] = u /\ HasScope(db, u, Ask[r].agent, Action[Ask[r].op])
    BY <1>1, <2>1, <2>3 DEF Inv, Types
  <2>5. PICK g \in Requests :
           /\ db.grants[g] # None
           /\ db.grants[g].agent = Ask[r].agent /\ db.grants[g].to = u
           /\ Action[Ask[r].op] \in db.grants[g].scopes
           /\ GrantIsLive(db.grants[g], now)
    BY <2>4 DEF HasScope
  <2> QED
    BY <1>1, <2>4, <2>5 DEF Inv, GrantsOK, GrantIsLive
<1>2. Inv /\ [Next]_vars => [\A r \in Requests : Justified(r)]_vars
  BY <1>1
<1> QED
  BY <1>2, Invariance, PTL DEF Spec, RevokedIsRefused
=============================================================================
