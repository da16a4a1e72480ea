--------------------------- MODULE DecisionEngine ---------------------------
(***************************************************************************)
(* complylayer/engine/evaluation.py: how the answers of the single rules   *)
(* are combined into one decision.  A rule set is a set of rules; what the *)
(* interpreter made of each rule is a function from rules to Results.      *)
(* matched_rules is a set here: its order in the response is that of       *)
(* sort_key, a function of the set.                                        *)
(***************************************************************************)
EXTENDS Naturals

Severities == {"block", "flag", "allow_with_note"}
Outcomes   == {"allow", "flag", "block"}
Results    == {"match", "no_match", "error"}

DEFAULT_FALLBACK == [block |-> "closed", flag |-> "open", allow_with_note |-> "open"]

SEVERITY_OUTCOME == [block |-> "block", flag |-> "flag", allow_with_note |-> "allow"]

\* {**DEFAULT_FALLBACK, **fallback}: what the tenant configured wins.
policy_of(fallback) ==
    [s \in Severities |-> IF s \in DOMAIN fallback THEN fallback[s] ELSE DEFAULT_FALLBACK[s]]

active(ruleset) == {rule \in ruleset : rule.state = "active"}
shadow(ruleset) == {rule \in ruleset : rule.state = "shadow"}

\* sort_key compares (priority, id); ids are numbers here.
SortsBefore(a, b) ==
    \/ a.priority < b.priority
    \/ a.priority = b.priority /\ a.id < b.id

\* Mutant: the errors of shadow rules fail closed like those of live ones.
deciding_with_shadow(ruleset, result, policy) ==
    {rule \in active(ruleset) : result[rule] = "match"}
      \cup {rule \in ruleset : result[rule] = "error" /\ policy[rule.severity] = "closed"}

\* Mutant: a rule that could not be evaluated is a rule that did not match.
deciding_ignores_errors(ruleset, result, policy) ==
    {rule \in active(ruleset) : result[rule] = "match"}

\* The live rules that matched, and those that could not be evaluated and whose
\* severity fails closed.
deciding(ruleset, result, policy) ==
    {rule \in active(ruleset) :
        \/ result[rule] = "match"
        \/ result[rule] = "error" /\ policy[rule.severity] = "closed"}

combine(matched) ==
    IF \E rule \in matched : rule.severity = "block" THEN "block"
    ELSE IF \E rule \in matched : rule.severity = "flag" THEN "flag"
    ELSE "allow"

\* At most one element: the first match, in the order of sort_key, whose
\* severity is the outcome.  It gives the reason and the customer's message.
deciding_rule(matched, outcome) ==
    LET candidates == {rule \in matched : SEVERITY_OUTCOME[rule.severity] = outcome}
    IN {rule \in candidates : \A other \in candidates \ {rule} : SortsBefore(rule, other)}

ids(ruleset) == {rule.id : rule \in ruleset}

decide(ruleset, result, fallback) ==
    LET matched == deciding(ruleset, result, policy_of(fallback))
        outcome == combine(matched)
        errored == {rule \in active(ruleset) \cup shadow(ruleset) : result[rule] = "error"}
    IN [ outcome        |-> outcome,
         matched_rules  |-> ids(matched),
         shadow_matches |-> ids({rule \in shadow(ruleset) : result[rule] = "match"}),
         errored_rules  |-> ids(errored),
         degraded       |-> errored # {},
         reason         |-> ids(deciding_rule(matched, outcome)) ]
=============================================================================
