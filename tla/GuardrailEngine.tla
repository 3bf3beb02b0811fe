-------------------------- MODULE GuardrailEngine --------------------------
(***************************************************************************)
(* The guardrail engine (guardrail/engine.ts) and the platform baseline    *)
(* (guardrail/policy-defaults.ts).                                         *)
(*                                                                         *)
(* A prompt, a command, a path or an output is the set of the things a     *)
(* pattern can find in it, and a pattern is the thing it finds: a rule     *)
(* matches a text when its pattern is a member.  An empty text matches     *)
(* nothing.                                                                *)
(***************************************************************************)
EXTENDS Sequences, Naturals, FiniteSets

CONSTANTS
    OwnPatterns,       \* what the owners' rules look for
    Texts,             \* sets of patterns: what a text may hold
    BadPattern,        \* a pattern that is no regular expression
    MaxRules           \* bound of the code: rules in one policy

Kinds == {"prompt_pattern", "command_pattern", "path_pattern", "output_pattern"}
Effects == {"deny", "flag"}
SandboxModes == {"read-only", "workspace-write"}
Modes == {"enforce", "monitor", "off"}

Builtin(kind, pattern, effect) == [kind |-> kind, pattern |-> pattern, effect |-> effect]

Baseline ==
    << Builtin("command_pattern", "recursive delete", "deny"),
       Builtin("command_pattern", "download to shell", "deny"),
       Builtin("command_pattern", "fork bomb", "deny"),
       Builtin("command_pattern", "device write", "deny"),
       Builtin("command_pattern", "credential file", "flag"),
       Builtin("path_pattern", "system path", "deny"),
       Builtin("output_pattern", "openai key", "flag"),
       Builtin("output_pattern", "aws key", "flag"),
       Builtin("output_pattern", "private key", "flag") >>

Secrets == {"openai key", "aws key", "private key"}
Patterns == OwnPatterns \cup {Baseline[i].pattern : i \in DOMAIN Baseline}
Rule == [kind : Kinds, pattern : Patterns, effect : Effects]
Policy == [sandboxMode : SandboxModes, networkAccess : BOOLEAN, rules : Seq(Rule)]

\* What an owner may submit: a pattern may be no regular expression.
Input == [sandboxMode : SandboxModes, networkAccess : BOOLEAN,
          rules : Seq([kind : Kinds, pattern : Patterns \cup {BadPattern}, effect : Effects])]

ASSUME GuardrailAssumption ==
    /\ Texts \subseteq SUBSET Patterns
    /\ BadPattern \notin Patterns
    /\ MaxRules \in Nat

VARIABLES
    mode,              \* GUARDRAIL_MODE
    sandboxCeiling     \* from CODEX_SANDBOX_MODE: both are read at start-up

guardrailVars == <<mode, sandboxCeiling>>

Enforcing == mode = "enforce"

-----------------------------------------------------------------------------
Clean == [proceed |-> TRUE, effect |-> "none"]

DefaultPolicy ==
    [sandboxMode |-> "workspace-write", networkAccess |-> FALSE, rules |-> <<>>]

\* Bug: the owner's rules come first.
OwnRulesFirst(policy) == policy.rules \o Baseline

\* The baseline comes first.
AllRules(policy) == Baseline \o policy.rules

Matching(policy, kind, text) ==
    {i \in DOMAIN AllRules(policy) : /\ AllRules(policy)[i].kind = kind
                                     /\ AllRules(policy)[i].pattern \in text}

FirstIndex(S) == CHOOSE i \in S : \A j \in S : i <= j

\* The first rule that matches decides, whatever a later one says.
FirstMatch(policy, kind, text) ==
    IF Matching(policy, kind, text) = {} THEN Clean
    ELSE LET effect == AllRules(policy)[FirstIndex(Matching(policy, kind, text))].effect
         IN  [proceed |-> ~(effect = "deny" /\ Enforcing), effect |-> effect]

\* The prompt and the instructions are matched as one text.
EvaluatePrompt(policy, prompt, instr) ==
    IF mode = "off" THEN Clean
    ELSE FirstMatch(policy, "prompt_pattern", prompt \cup instr)

\* A change outside the workspace is denied before any rule is asked.
EvaluateAction(policy, kind, text, inside) ==
    CASE mode = "off"            -> Clean
      [] mode # "off" /\ kind = "file_change" /\ ~inside ->
            [proceed |-> ~Enforcing, effect |-> "deny"]
      [] mode # "off" /\ kind = "file_change" /\ inside ->
            FirstMatch(policy, "path_pattern", text)
      [] mode # "off" /\ kind # "file_change" ->
            FirstMatch(policy, "command_pattern", text)

(* Deny rules are asked first, while enforcing; then every rule masks what  *)
(* it finds, deny rules too.                                                *)
ScreenOutput(policy, text) ==
    LET found == Matching(policy, "output_pattern", text)
        denied == \E i \in found : AllRules(policy)[i].effect = "deny"
    IN  IF mode = "off" THEN [proceed |-> TRUE, output |-> text]
        ELSE IF Enforcing /\ denied THEN [proceed |-> FALSE, output |-> text]
        ELSE [proceed |-> TRUE,
              output |-> text \ {AllRules(policy)[i].pattern : i \in found}]

Rank(sandbox) == IF sandbox = "read-only" THEN 0 ELSE 1

\* Also lowers a policy that was stored under a higher ceiling.
ResolveSandbox(policy) ==
    LET sandbox == IF Rank(policy.sandboxMode) <= Rank(sandboxCeiling)
                   THEN policy.sandboxMode ELSE sandboxCeiling
    IN  [sandboxMode |-> sandbox,
         networkAccess |-> sandbox = "workspace-write" /\ policy.networkAccess]

\* normalizePolicyInput answers 400 otherwise; an accepted input is stored.
Acceptable(input) ==
    /\ Rank(input.sandboxMode) <= Rank(sandboxCeiling)
    /\ \A i \in DOMAIN input.rules : input.rules[i].pattern # BadPattern
    /\ Len(input.rules) <= MaxRules

(* What FromConfig makes of the environment.                                *)
GuardrailConfigured == mode \in Modes /\ sandboxCeiling \in SandboxModes
=============================================================================
