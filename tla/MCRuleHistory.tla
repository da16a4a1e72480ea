--------------------------- MODULE MCRuleHistory ---------------------------
(* Five tests and their groups to two levels; rules written as text that   *)
(* are refused or accepted for one reason each; answers for every shape.   *)
(* One context has a fact that is a list and a list named like a function. *)
EXTENDS RuleHistory

AmountTest == FactTest("amount_minor", ">", Int_(2))
Tests ==
    { AmountTest,
      FactTest("destination_country", "not in", Fact("high_risk_countries")),
      FactTest("destination_country", "<=", Text("GH")),
      Fact("pep") }

VelocityTest == BUILDERS("velocity_count", [window |-> Text("1h"), count |-> Int_(1)])

Pairs(S, T) == {Dict([all |-> <<a, b>>]) : a \in S, b \in T} \cup {Dict([any |-> <<a, b>>]) : a \in S, b \in T}
Nots(S) == {Dict([not |-> a]) : a \in S}

Level1 == Nots(Tests) \cup Pairs(Tests, Tests \cup {VelocityTest})

MCBodies ==
    Tests \cup Level1 \cup Nots(Level1) \cup Pairs(Level1, {AmountTest, Fact("pep")})
      \cup { FactTest("amount_minor", ">=", Int_(-3)),
             FactTest("amount_minor", "in", List(<<Int_(1), Int_(5)>>)),
             Dict([all |-> <<Dict([any |-> <<AmountTest>>])>>]),
             Dict([all |-> <<>>]),
             Dict([fact |-> "pep", op |-> "is", value |-> Int_(1)]),
             FactTest("__class__", "==", Int_(1)),
             FactTest("True", "==", Int_(1)),
             Fact("False"),
             FactTest("not", "==", Int_(1)),
             CallTest("not", <<Fact("amount_minor")>>, <<>>, "==", Int_(5)),
             FactTest("currency", "==", Text("quote")),
             Dict([not |-> Dict([not |-> Dict([not |-> Dict([not |-> Fact("pep")])])])]) }

Amount == Word("amount_minor")
Country == Word("destination_country")

MCSources ==
    { <<Int_(1), Op("<"), Amount, Op("<="), Int_(5)>>,
      <<Op("not"), Amount, Op(">"), Int_(2), Op("or"), Word("pep")>>,
      <<Amount, Op("-"), Int_(1), Op("*"), Int_(2), Op("=="), Int_(3)>>,
      <<Amount, Op("//"), Op("-"), Int_(2), Op("=="), Op("-"), Int_(3)>>,
      <<Amount, Op("%"), Word("pep"), Op("=="), Int_(0)>>,
      <<Amount, Op("*"), Amount, Op("*"), Amount, Op(">"), Int_(9)>>,
      <<Amount, Op("%"), Int_(0), Op("=="), Int_(0)>>,
      <<Amount, Op("/"), Int_(2), Op(">"), Int_(1)>>,
      <<Op("-"), Op("-"), Op("-"), Amount, Op("<"), Int_(0)>>,
      <<Amount, Op("."), Word("real"), Op(">"), Int_(0)>>,
      <<Amount, Op(">")>>,
      <<<<"bool", TRUE>>>>,
      <<Amount, Op(","), Word("pep")>>,
      <<Word("abs"), Op("("), Amount, Op(","), Amount, Op(")"), Op(">"), Int_(2)>>,
      <<Word("max"), Op("("), Amount, Op(","), Int_(3), Op(")"), Op(">"), Word("min"), Op("("),
        Amount, Op(","), Int_(3), Op(")")>>,
      <<Word("velocity_count"), Op("("), Op(")"), Op(">"), Int_(1)>>,
      <<Country, Op("in"), Country>>,
      <<Text("NG"), Op("in"), Country>>,
      <<Amount, Op("in"), Country>>,
      <<Country, Op("in"), Op("("), Text("GH"), Op(","), Text("NG"), Op(")")>>,
      <<Word("velocity_sum"), Op("("), Word("window"), Op("="), Text("1h"), Op(","),
        Word("max_amount_minor"), Op("="), Country, Op(")"), Op(">"), Int_(3)>> }

Answer(shape, values) == [shape |-> shape, values |-> values]

MCAnswers ==
    { Answer("amount_limit", [limit |-> Text("reporting_threshold_minor")]),
      Answer("amount_limit", [limit |-> Int_(2)]),
      Answer("amount_limit", [subject |-> Text("amount_minor")]),
      Answer("velocity_count", [window |-> Text("1h"), count |-> Int_(1), min_amount_minor |-> Int_(3)]),
      Answer("structuring", [window |-> Text("24h"), count |-> Int_(1), percent |-> Int_(50)]),
      Answer("dormant_reactivation", [days |-> Int_(7), amount_minor |-> Int_(2)]),
      Answer("corridor", [max_kyc_tier |-> Int_(3), from_hour |-> Int_(6), to_hour |-> Int_(22)]),
      Answer("corridor", [list_name |-> Text("high_risk_countries")]),
      Answer("new_account", [days |-> Int_(7), amount_minor |-> Int_(2)]) }

Listed == Tuple(<<Text("NG")>>)

MCContexts ==
    { [ facts |-> [ amount_minor |-> Int_(5), destination_country |-> Text("NG"), pep |-> Bool(TRUE),
                    kyc_tier |-> Int_(1), reporting_threshold_minor |-> Int_(4),
                    account_created_at |-> Text("yesterday"), high_risk_countries |-> Listed ],
        amounts |-> <<5, 2>>, hour |-> 23 ],
      [ facts |-> [ amount_minor |-> Int_(1), destination_country |-> Text("GH"), pep |-> Bool(FALSE),
                    kyc_tier |-> Int_(3), last_transaction_at |-> Text("last year"),
                    high_risk_countries |-> Listed ],
        amounts |-> <<1>>, hour |-> 12 ],
      [ facts |-> [ amount_minor |-> Int_(4), destination_country |-> List(<<Text("NG")>>),
                    high_risk_countries |-> Listed, max |-> Listed ],
        amounts |-> None, hour |-> 12 ] }

MCFallbacks == { <<>>, [block |-> "open"] }

MCPublishedAs == { [severity |-> "block", state |-> "active"], [severity |-> "flag", state |-> "active"],
                   [severity |-> "block", state |-> "shadow"] }

MCAge == [t \in {"yesterday", "last year"} |-> IF t = "yesterday" THEN 1 ELSE 365]
MCAlphabet == <<"1h", "24h", "GH", "NG", "last year", "yesterday">>
=============================================================================
