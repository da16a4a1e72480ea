----------------------------- MODULE RuleHistory -----------------------------
(***************************************************************************)
(* Rules from their first draft to the reports about them: a rule is       *)
(* written as text, as JSON or with the dashboard's builder, validated and *)
(* published; decisions are taken and stored with the facts they rested    *)
(* on; and the stored rows are read back by a backtest and a replay        *)
(* (backtest/replay.py; its divergence report is in DecisionPath).         *)
(*                                                                         *)
(* Versions are RuleLifecycle's subject and storing is DecisionPath's:     *)
(* here every decision is taken with the rules that are published at the   *)
(* time.  The reports only read, so they are operators over the rows.      *)
(***************************************************************************)
EXTENDS RuleLanguage, DecisionEngine

CONSTANTS
    Sources,       \* rules written as text
    Bodies,        \* rules sent as JSON
    Answers,       \* what officers fill in: a shape and its values
    Contexts,      \* the facts, velocity window and hour of a transaction
    Fallbacks,     \* what tenants configure for rules that cannot run
    PublishedAs,   \* severity and state of the rules published
    MaxRules,      \* bounds: rules published,
    MaxDecisions,  \* ... rows stored,
    MaxTogether    \* ... and lexemes, if there is more than one of either

ASSUME HistoryAssumption == {MaxRules, MaxDecisions, MaxTogether} \subseteq Nat

VARIABLES
    rules,      \* the published rules; `body` is the JSON form, if it had one
    decisions,  \* the stored rows, with the live context as a history field
    failed,     \* history: rules whose exception reached a client
    lexemes     \* how much was published

vars == <<rules, decisions, failed, lexemes>>

Init == rules = {} /\ decisions = <<>> /\ failed = {} /\ lexemes = 0

-----------------------------------------------------------------------------
(* dashboard/builder.py.                                                   *)

Fact(name) == Dict([fact |-> name])
FactTest(name, op, value) == Dict([fact |-> name, op |-> op, value |-> value])
CallTest(name, positional, args, op, value) ==
    Dict([call |-> name, positional |-> positional, args |-> args, op |-> op, value |-> value])

Given(values, key) == Has(values, key) /\ truthy(values[key])

amount_limit(values) ==
    FactTest(get(values, "subject", Text("amount_minor"))[2], ">",
             IF values.limit[1] = "str" THEN Fact(values.limit[2]) ELSE values.limit)

velocity_count(values) ==
    CallTest("velocity_count", <<>>,
             <<<<"window", values.window>>>>
               \o IF Given(values, "min_amount_minor")
                  THEN <<<<"min_amount_minor", values.min_amount_minor>>>> ELSE <<>>,
             ">", values.count)

structuring(values) ==
    LET threshold == Fact(get(values, "threshold_fact", Text("reporting_threshold_minor"))[2])
    IN CallTest("velocity_count", <<>>,
                <<<<"window", values.window>>,
                  <<"min_amount_minor",
                    Dict([call |-> "percent_of",
                          positional |-> <<threshold, get(values, "percent", Int_(90))>>])>>,
                  <<"max_amount_minor", threshold>>>>,
                ">=", values.count)

\* _dormant_reactivation and _new_account
aged(fact, op, values) ==
    Dict([all |-> <<CallTest("days_since", <<Fact(fact)>>, <<>>, op, values.days),
                    FactTest("amount_minor", ">", values.amount_minor)>>])

corridor(values) ==
    LET listed == Dict([call |-> "in_list",
                        positional |-> <<Fact("destination_country"),
                                         Fact(get(values, "list_name", Text("high_risk_countries"))[2])>>])
        tier == IF Given(values, "max_kyc_tier")
                THEN <<FactTest("kyc_tier", "<", values.max_kyc_tier)>> ELSE <<>>
        hours == IF Has(values, "from_hour") /\ Has(values, "to_hour")
                 THEN <<Dict([any |-> <<CallTest("hour_of_day", <<>>, <<>>, "<", values.from_hour),
                                        CallTest("hour_of_day", <<>>, <<>>, ">", values.to_hour)>>])>>
                 ELSE <<>>
    IN Dict([all |-> <<listed>> \o tier \o hours])

Required ==
    [ amount_limit |-> {"limit"}, velocity_count |-> {"window", "count"},
      structuring |-> {"window", "count"}, dormant_reactivation |-> {"days", "amount_minor"},
      corridor |-> {}, new_account |-> {"days", "amount_minor"} ]

BUILDERS(shape, values) ==
    CASE shape = "amount_limit"         -> amount_limit(values)
      [] shape = "velocity_count"       -> velocity_count(values)
      [] shape = "structuring"          -> structuring(values)
      [] shape = "dormant_reactivation" ->
            aged(get(values, "since_fact", Text("last_transaction_at"))[2], ">", values)
      [] shape = "corridor"             -> corridor(values)
      [] shape = "new_account"          -> aged("account_created_at", "<", values)

-----------------------------------------------------------------------------
(* Publishing: what validate_source refuses is never stored.               *)

\* No draft, or one, with the tree that validate_source returned.
create_draft(text, body) ==
    LET tree == validate_source(text)
    IN IF tree = Malformed THEN {} ELSE {[tree |-> tree, body |-> body, lexemes |-> Len(text)]}

Written == UNION {create_draft(text, None) : text \in Sources}

Sent(bodies) == UNION {create_draft(to_expression(body), body) : body \in bodies}

\* dashboard/views.py: preview catches the KeyError of a missing answer.
Built ==
    Sent({BUILDERS(answer.shape, answer.values) : answer \in
             {a \in Answers : Required[a.shape] \subseteq DOMAIN a.values}})

SentBodies == Sent(Bodies)

publish(draft) ==
    /\ Cardinality(rules) < MaxRules
    /\ rules = {} \/ lexemes + draft.lexemes <= MaxTogether
    /\ \E as \in PublishedAs :
         rules' = rules \cup {[id |-> Cardinality(rules) + 1, priority |-> 0, severity |-> as.severity,
                               state |-> as.state, tree |-> draft.tree, body |-> draft.body]}
    /\ lexemes' = lexemes + draft.lexemes
    /\ UNCHANGED <<decisions, failed>>

-----------------------------------------------------------------------------
(* Deciding and storing.                                                   *)

live(ctx) == [facts |-> ctx.facts, amounts |-> ctx.amounts, hour |-> ctx.hour,
              functions |-> DOMAIN SPECS]

verdict(value) == IF fails(value) THEN value[1] ELSE IF value[2] THEN "match" ELSE "no_match"

verdicts(ruleset, ctx) == [rule \in ruleset |-> verdict(run(rule.tree, ctx))]

\* Tuples become lists in JSON.
serialisable(facts) ==
    [name \in DOMAIN facts |-> IF facts[name][1] = "tuple" THEN List(facts[name][2]) ELSE facts[name]]

\* One rule's RuleEvaluationError is caught; any other exception ends the request.
Decide(ctx, fallback) ==
    LET results == verdicts(rules, live(ctx))
        raising == {rule \in rules : results[rule] = "raised"}
    IN /\ rules # {}
       /\ Len(decisions) < MaxDecisions
       /\ decisions = <<>> \/ lexemes <= MaxTogether
       /\ IF raising # {}
          THEN failed' = failed \cup raising /\ UNCHANGED decisions
          ELSE /\ decisions' = Append(decisions,
                    [ resolved_facts |-> serialisable(ctx.facts), answer |-> decide(rules, results, fallback),
                      context |-> ctx, ruleset |-> rules, fallback |-> fallback ])
               /\ UNCHANGED failed
       /\ UNCHANGED <<rules, lexemes>>

Next ==
    \/ \E draft \in Written : publish(draft)
    \/ \E draft \in SentBodies : publish(draft)
    \/ \E draft \in Built : publish(draft)
    \/ \E ctx \in Contexts, fallback \in Fallbacks : Decide(ctx, fallback)

Spec == Init /\ [][Next]_vars

-----------------------------------------------------------------------------
(* backtest/replay.py.                                                     *)

Rows == 1..Len(decisions)

\* Mutant: the name of a called function is not a fact.
required_facts_called_apart(tree) ==
    {node[2] : node \in {n \in NodesOf(tree) : n[1] = "Name" /\ n[2] \notin DOMAIN SPECS}}

\* Every name, those of functions too.
required_facts(tree) == {node[2] : node \in {n \in NodesOf(tree) : n[1] = "Name"}}

\* Mutant: lists stay lists.
context_of_lists(row) ==
    [facts |-> row.resolved_facts, amounts |-> None, hour |-> None, functions |-> {}]

\* _context, called without functions everywhere.
context_of(row) ==
    [facts |-> [name \in DOMAIN row.resolved_facts |->
                  IF row.resolved_facts[name][1] = "list" THEN Tuple(row.resolved_facts[name][2])
                  ELSE row.resolved_facts[name]],
     amounts |-> None, hour |-> None, functions |-> {}]

\* Only a RuleEvaluationError is caught: any other exception, in a row that is
\* considered, ends the backtest without a report (None).
backtest(tree) ==
    LET skipped == {i \in Rows : ~ required_facts(tree) \subseteq DOMAIN decisions[i].resolved_facts}
        considered == Rows \ skipped
        found(v) == {i \in considered : verdict(run(tree, context_of(decisions[i]))) = v}
    IN IF found("raised") # {} THEN None ELSE
       [ considered |-> Cardinality(considered), skipped |-> Cardinality(skipped),
         matched |-> Cardinality(found("match")), errored |-> Cardinality(found("error")),
         confidence |-> IF considered = {} /\ skipped # {} THEN "unavailable"
                        ELSE IF skipped # {} THEN "partial" ELSE "exact" ]

\* replay_decision: no functions, and the fallback that nobody configured.
replay_decision(row) == decide(row.ruleset, verdicts(row.ruleset, context_of(row)), <<>>)

-----------------------------------------------------------------------------
(* What the JSON form of a rule says, read directly.  A fact called True   *)
(* or False is that constant; a call of what is no function means nothing. *)

NoMeaning == <<"undefined", "">>

Stops(v) == fails(v) \/ v = NoMeaning

FirstFailure(values) == values[CHOOSE i \in 1..Len(values) :
                                  Stops(values[i]) /\ \A j \in 1..i - 1 : ~Stops(values[j])]

RECURSIVE Denoted(_, _)
Called(node, ctx) ==
    LET given == get(node, "positional", <<>>)
        args == get(node, "args", <<>>)
        n == Len(given)
        values == [i \in 1..n + Len(args) |-> Denoted(IF i <= n THEN given[i] ELSE args[i - n][2], ctx)]
        named == [key \in {args[i][1] : i \in 1..Len(args)} |->
                    values[n + (CHOOSE i \in 1..Len(args) : args[i][1] = key)]]
    IN IF node.call \notin DOMAIN SPECS THEN NoMeaning
       ELSE IF \E i \in DOMAIN values : Stops(values[i]) THEN FirstFailure(values)
       ELSE apply(node.call, SubSeq(values, 1, n), named, ctx)

Denoted(json, ctx) ==
    CASE json[1] = "list" -> Tuple([i \in 1..Len(json[2]) |-> Denoted(json[2][i], ctx)])
      [] json[1] # "dict" -> json
      [] Has(json[2], "call") -> Called(json[2], ctx)
      [] json[2].fact \in {"True", "False"} -> Bool(json[2].fact = "True")
      [] OTHER -> get(ctx.facts, json[2].fact, Error("unknown fact"))

Tested(node, ctx) ==
    LET left == Denoted(Dict(node), ctx)
        right == IF Has(node, "op") THEN Denoted(node.value, ctx) ELSE left
    IN IF Stops(left) \/ Stops(right) THEN FirstFailure(<<left, right>>)
       ELSE IF Has(node, "op") THEN compare(node.op, left, right) ELSE Bool(truthy(left))

\* A group is decided by its first part that settles it.
RECURSIVE Meant(_, _)
Meant(json, ctx) ==
    LET node == json[2]
        group(parts, neutral) ==
            LET settling == {i \in 1..Len(parts) : Meant(parts[i], ctx) # neutral}
            IN IF settling = {} THEN neutral
               ELSE Meant(parts[CHOOSE i \in settling : \A j \in settling : i <= j], ctx)
    IN CASE Has(node, "all") -> group(node.all, "match")
         [] Has(node, "any") -> group(node.any, "no_match")
         [] Has(node, "not") -> LET part == Meant(node.not, ctx)
                                IN IF part = "match" THEN "no_match"
                                   ELSE IF part = "no_match" THEN "match" ELSE part
         [] OTHER -> LET value == Tested(node, ctx)
                     IN IF value = NoMeaning THEN "undefined" ELSE verdict(value)

-----------------------------------------------------------------------------
(* What officers and auditors rely on.                                     *)

\* A rule that came as JSON decides every transaction as its JSON form says:
\* rendering it to text and parsing the text back loses no bracket, no
\* argument and no order (structured.py, parser.py, interpreter.py).  Where
\* the JSON calls `not`, which is no function but makes a text that parses, it
\* has no meaning to compare with.
BuiltAsMeant ==
    \A i \in Rows : \A rule \in {r \in decisions[i].ruleset : r.body # None} :
        LET ctx == live(decisions[i].context)
        IN Meant(rule.body, ctx) \in {verdict(run(rule.tree, ctx)), "undefined"}

Calls(node, names) == node[1] = "Call" /\ node[2][2] \in names
Velocities == {"velocity_count", "velocity_sum"}

\* Where a published rule can still raise what the engine does not catch: a
\* velocity function without its window or with a filter that is no number,
\* and looking for something else than text in a text.
MayRaise(tree) ==
    \E node \in NodesOf(tree) :
        \/ Calls(node, Velocities) /\ \A i \in 1..Len(node[4]) : node[4][i][2] # "window"
        \/ Calls(node, Velocities) /\ \E i \in 1..Len(node[4]) :
               node[4][i][2] # "window" /\ ~(node[4][i][3][1] = "Constant" /\ Numeric(node[4][i][3][2]))
        \/ Calls(node, {"in_list"})
        \/ node = Leaf("in") \/ node = Leaf("not in")

\* A published rule gives an answer or an error the engine catches, in every
\* transaction, except where MayRaise says so; it never runs out of steps and
\* never meets a node the interpreter does not know.
PublishedEvaluates ==
    /\ \A rule \in failed : MayRaise(rule.tree)
    /\ \A i \in Rows : \A rule \in decisions[i].ruleset :
         run(rule.tree, live(decisions[i].context)) \notin {Error("budget"), Error("cannot evaluate")}

\* What a stored row does not give back to a rule: a fact that was a list
\* comes back as a tuple, and a list called like a function makes a row seem
\* complete although no function is bound.
Blurred(tree, ctx) ==
    \E node \in NodesOf(tree) :
        /\ node[1] = "Name" /\ Has(ctx.facts, node[2])
        /\ ctx.facts[node[2]][1] = "list" \/ node[2] \in DOMAIN SPECS

\* A backtest's count is what would have happened: live, on the transactions
\* the rows record, the rule matches and fails as often as reported, but for
\* the rows the report says it skipped and those that blur what it reads.
\* There is no report only if the rule raises live too, or over such a row.
BacktestSound ==
    \A rule \in rules :
        LET impact == backtest(rule.tree)
            lived(v) == {i \in Rows : verdict(run(rule.tree, live(decisions[i].context))) = v}
            blurred == {i \in Rows : Blurred(rule.tree, decisions[i].context)}
            Counts(reported, v) ==
                /\ reported <= Cardinality(lived(v) \cup blurred)
                /\ Cardinality(lived(v) \ blurred) <= reported + impact.skipped
        IN IF impact = None THEN lived("raised") \cup blurred # {}
           ELSE /\ Counts(impact.matched, "match") /\ Counts(impact.errored, "error")
                /\ impact.confidence = "exact" => impact.skipped = 0

Callers(ruleset) == {rule \in ruleset : \E node \in NodesOf(rule.tree) : node[1] = "Call"}

\* A replay against the rules of its own version reproduces a stored answer,
\* if no rule calls a function or reads a fact that was a list, and either
\* every rule ran or the tenant has the default fallback.
ReplayReproduces ==
    \A i \in Rows :
        LET row == decisions[i]
            kept == \A rule \in row.ruleset : ~Blurred(rule.tree, row.context)
        IN Callers(row.ruleset) = {} /\ kept
             /\ (row.answer.degraded => policy_of(row.fallback) = DEFAULT_FALLBACK)
           => replay_decision(row) = row.answer

\* evaluation.py: "One rule failing must not take the decision down with it."
NoTraceback == failed = {}
=============================================================================
