-------------------------------- MODULE Policies --------------------------------
(***************************************************************************)
(* What decides about a tool call: the compiled hook policy (protocol,       *)
(* hook_policy.rs), and of the agent's profile the tool policy and the       *)
(* approval policy (animus-config-protocol, agent_types.rs). A policy is      *)
(* built up rule by rule, the kernel's and the author's in any order.        *)
(* Patterns and names are sequences of letters; "*" stands for any.          *)
(***************************************************************************)
EXTENDS Naturals, Sequences, SequencesExt, FiniteSets

CONSTANTS
  Rules,     \* hook policy rules: [events, tools, matchers, decision]
  Patterns,  \* patterns of the profile's lists
  Calls,     \* tool calls: [event, tool, input], input a function from field paths
  Defaults,  \* decisions for when nothing matches
  MaxRules   \* bound on the rules and on each list

VARIABLES
  rules,     \* of the hook policy, in file order
  default,   \* default_decision
  allow, deny,        \* the profile's lists: AgentToolPolicy's and ApprovalPolicy's
  approvalDefault     \* of the approval policy
vars == <<rules, default, allow, deny, approvalDefault>>

\* PolicyDecision in its derived order.
Restrictiveness == [defer |-> 0, allow |-> 1, ask |-> 2, deny |-> 3]

\* Text is a sequence of letters, and a decision is one of those.
IsText(s) == s \in Seq({s[i] : i \in DOMAIN s})
PolicyConstants ==
  /\ \A pattern \in Patterns : IsText(pattern)
  /\ \A call \in Calls : IsText(call.tool)
  /\ \A rule \in Rules : rule.decision \in DOMAIN Restrictiveness
  /\ Defaults \subseteq DOMAIN Restrictiveness

\* What is left of a pattern and of a value is named by where it begins.
Lefts(pattern, value) == (1..(Len(pattern) + 1)) \X (1..(Len(value) + 1))

\* glob_matches: "*" skips any number of letters, every other stands for itself.
GlobMatches(pattern, value) ==
  LET inner[at \in Lefts(pattern, value)] ==
        LET p == at[1] v == at[2] IN
        IF p > Len(pattern) THEN v > Len(value)
        ELSE IF pattern[p] = "*" THEN \E skip \in v..(Len(value) + 1) : inner[<<p + 1, skip>>]
        ELSE v <= Len(value) /\ value[v] = pattern[p] /\ inner[<<p + 1, v + 1>>]
  IN  inner[<<1, 1>>]

\* glob_match of the profile's lists: the star goes on, or takes one letter more.
GlobMatch(pattern, value) ==
  LET inner[at \in Lefts(pattern, value)] ==
        LET p == at[1] v == at[2] IN
        \/ p > Len(pattern) /\ v > Len(value)
        \/ /\ p <= Len(pattern) /\ pattern[p] = "*"
           /\ inner[<<p + 1, v>>] \/ (v <= Len(value) /\ inner[<<p, v + 1>>])
        \/ /\ p <= Len(pattern) /\ v <= Len(value) /\ pattern[p] # "*"
           /\ pattern[p] = value[v] /\ inner[<<p + 1, v + 1>>]
  IN  inner[<<1, 1>>]

\* A matcher is a field and the values its regex matches; an absent field never does.
InputMatcherMatches(matcher, input) ==
  matcher.field \in DOMAIN input /\ input[matcher.field] \in matcher.regex

RuleMatches(rule, call) ==
  /\ rule.events = {} \/ call.event \in rule.events
  /\ rule.tools = {} \/ \E pattern \in rule.tools : GlobMatches(pattern, call.tool)
  /\ \A matcher \in rule.matchers : InputMatcherMatches(matcher, call.input)

\* faulty: the last matching rule wins
WinnerLast(call) ==
  LET winner[i \in 0..Len(rules)] ==
        IF i = 0 THEN 0 ELSE IF RuleMatches(rules[i], call) THEN i ELSE winner[i - 1]
  IN  winner[Len(rules)]

\* The loop of evaluate: the first of the most restrictive rules that match, or 0.
Winner(call) ==
  LET Stricter(i, j) == Restrictiveness[rules[i].decision] > Restrictiveness[rules[j].decision]
      winner[i \in 0..Len(rules)] ==
        IF i = 0 THEN 0
        ELSE IF RuleMatches(rules[i], call) /\ (winner[i - 1] = 0 \/ Stricter(i, winner[i - 1]))
          THEN i ELSE winner[i - 1]
  IN  winner[Len(rules)]

\* A rule that abstains leaves it to the default.
Evaluate(call) ==
  LET winner == Winner(call) IN
  IF winner # 0 /\ rules[winner].decision # "defer"
    THEN [decision |-> rules[winner].decision, rule |-> winner]
    ELSE [decision |-> default, rule |-> 0]

AnyMatches(patterns, tool) == \E i \in DOMAIN patterns : GlobMatch(patterns[i], tool)

IsToolPermitted(tool) == (allow = <<>> \/ AnyMatches(allow, tool)) /\ ~AnyMatches(deny, tool)

\* ApprovalPolicy::evaluate.
Approval(tool) ==
  IF AnyMatches(deny, tool) THEN "deny"
  ELSE IF AnyMatches(allow, tool) THEN "allow"
  ELSE IF approvalDefault = "llm" THEN "evaluate" ELSE approvalDefault

Init ==
  /\ rules = <<>> /\ default \in Defaults
  /\ allow = <<>> /\ deny = <<>>
  /\ approvalDefault \in {"ask", "allow", "deny", "llm"}

\* One more rule, at either end or between: the policy is compiled from several
\* sources.
AddRule ==
  /\ Len(rules) < MaxRules
  /\ \E rule \in Rules, at \in 1..(Len(rules) + 1) : rules' = InsertAt(rules, at, rule)
  /\ UNCHANGED <<default, allow, deny, approvalDefault>>

Allow ==
  /\ Len(allow) < MaxRules /\ \E p \in Patterns : allow' = Append(allow, p)
  /\ UNCHANGED <<rules, default, deny, approvalDefault>>

Deny ==
  /\ Len(deny) < MaxRules /\ \E p \in Patterns : deny' = Append(deny, p)
  /\ UNCHANGED <<rules, default, allow, approvalDefault>>

\* The hook policy and the profile's lists are apart: each is built alone.
Next ==
  \/ allow = <<>> /\ deny = <<>> /\ AddRule
  \/ rules = <<>> /\ (Allow \/ Deny)

Spec == Init /\ [][Next]_vars

--------------------------------------------------------------------------------
(* Properties.                                                             *)

\* What the profile's lists decide, as hook policy rules.
Compiled ==
  [i \in DOMAIN deny |-> [events |-> {}, tools |-> {deny[i]}, matchers |-> {}, decision |-> "deny"]]

\* The two globs are one language; a pattern of the profile that is compiled to a
\* rule of the hook policy denies what the profile denies, no more and no less.
GlobsAgree ==
  \A i \in DOMAIN deny, call \in Calls :
    RuleMatches(Compiled[i], call) <=> GlobMatch(deny[i], call.tool)

\* What one rule denies stays denied, whichever rules are put before or behind it,
\* and so does what a list denies; the verdict is that of the most restrictive rule
\* that matches, and names the first rule of that decision.
DenyStands ==
  \A call \in Calls :
    LET matching == {i \in DOMAIN rules : RuleMatches(rules[i], call)}
        verdict == Evaluate(call)
    IN  /\ \A i \in matching : Restrictiveness[verdict.decision] >= Restrictiveness[rules[i].decision]
        /\ verdict.rule # 0 =>
             /\ verdict.rule \in matching /\ rules[verdict.rule].decision = verdict.decision
             /\ \A i \in matching : i < verdict.rule => rules[i].decision # verdict.decision
        /\ (\E i \in DOMAIN deny : GlobMatch(deny[i], call.tool)) =>
             ~IsToolPermitted(call.tool) /\ Approval(call.tool) = "deny"
================================================================================
