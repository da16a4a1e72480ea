---------------------------- MODULE RuleLanguage ----------------------------
(***************************************************************************)
(* The rule language (complylayer/dsl): a rule arrives as JSON from the    *)
(* visual builder or as text, the JSON is rendered to text, the text is    *)
(* scanned, parsed and validated, and the tree is interpreted for each     *)
(* transaction.                                                            *)
(*                                                                         *)
(* Text is a sequence of lexemes, a value is tagged with its Python type,  *)
(* and what the regular expressions refuse in a name or a text is in the   *)
(* constant NotPlain.  A refusal (RuleSyntaxError) of the renderer is a    *)
(* lexeme that no later stage accepts; why is left out.  An evaluation     *)
(* gives a value, a RuleEvaluationError ("error") or any other exception   *)
(* ("raised").  Where the guards of a CASE overlap the first is meant.  The *)
(* module is recursive: only TLC uses it.                                  *)
(***************************************************************************)
EXTENDS Integers, Sequences, FiniteSets, SequencesExt

CONSTANTS
    MAX_SOURCE,          \* dsl/limits.py, in lexemes
    MAX_NESTING_DEPTH,
    MAX_UNARY_RUN,
    MAX_NODES,
    MAX_STEPS,
    MAX_RESULT_BITS,
    MAX_NUMBER_DIGITS,
    NotPlain,            \* names and texts that are refused at sight
    Alphabet,            \* the texts of the instance, in their order
    Age,                 \* the texts that are dates, and how many days old
    None

ASSUME LimitsAssumption ==
    /\ {MAX_SOURCE, MAX_NESTING_DEPTH, MAX_UNARY_RUN, MAX_NODES, MAX_STEPS,
        MAX_RESULT_BITS, MAX_NUMBER_DIGITS} \subseteq Nat
    /\ MAX_NODES <= MAX_STEPS

Int_(n)   == <<"int", n>>
Text(s)   == <<"str", s>>
Bool(b)   == <<"bool", b>>
Tuple(vs) == <<"tuple", vs>>
List(vs)  == <<"list", vs>>
Dict(d)   == <<"dict", d>>

Has(d, key) == key \in DOMAIN d
get(d, key, default) == IF Has(d, key) THEN d[key] ELSE default

Op(s)   == <<"op", s>>
Word(n) == <<"name", n>>

Magnitude(n) == IF n < 0 THEN -n ELSE n
bit_length(n) == CHOOSE b \in 0..64 : Magnitude(n) < 2^b /\ (b = 0 \/ Magnitude(n) >= 2^(b - 1))

-----------------------------------------------------------------------------
(* dsl/structured.py: JSON to text.                                        *)

COMPARISONS == {">", ">=", "<", "<=", "==", "!=", "in", "not in"}

Refusal == <<<<"refused", "">>>>

Refused(text) == \E i \in 1..Len(text) : text[i] = Refusal[1]

\* The parts with a lexeme between each two.
Joined(parts, between) ==
    FlattenSeq([i \in 1..Len(parts) |-> IF i = 1 THEN parts[i] ELSE <<Op(between)>> \o parts[i]])

\* A plain name is put into the text as it is, and Python reads its keywords
\* there.  Those left out here make a text that is always refused.
identifier(name) ==
    CASE name \in NotPlain                   -> Refusal
      [] name \in {"True", "False"}          -> <<Bool(name = "True")>>
      [] name \in {"and", "or", "not", "in"} -> <<Op(name)>>
      [] OTHER                               -> <<Word(name)>>

RECURSIVE literal(_, _)
literal(value, depth) ==
    CASE depth > MAX_NESTING_DEPTH -> Refusal
      [] value[1] = "int"  -> IF bit_length(value[2]) > MAX_RESULT_BITS THEN Refusal
                              ELSE IF value[2] < 0 THEN <<Op("-"), Int_(-value[2])>> ELSE <<value>>
      [] value[1] = "str"  -> IF value[2] \in NotPlain THEN Refusal ELSE <<value>>
      [] value[1] = "list" -> <<Op("[")>>
                              \o Joined([i \in 1..Len(value[2]) |-> literal(value[2][i], depth + 1)], ",")
                              \o <<Op("]")>>
      [] OTHER             -> Refusal

RECURSIVE render_call(_, _)
render_value(value, depth) ==
    CASE depth > MAX_NESTING_DEPTH -> Refusal
      [] value[1] # "dict"         -> literal(value, depth)
      [] Has(value[2], "call")     -> render_call(value[2], depth)
      [] Has(value[2], "fact")     -> identifier(value[2].fact)
      [] OTHER                     -> Refusal

\* args is a sequence of keys and values: a JSON object keeps its order.
render_call(node, depth) ==
    LET given == get(node, "positional", <<>>)
        args == get(node, "args", <<>>)
        positional == [i \in 1..Len(given) |-> render_value(given[i], depth + 1)]
        named == [i \in 1..Len(args) |->
                    identifier(args[i][1]) \o <<Op("=")>>
                      \o IF args[i][2][1] = "dict" THEN render_value(args[i][2], depth + 1)
                         ELSE literal(args[i][2], 0)]
    IN IF depth > MAX_NESTING_DEPTH THEN Refusal
       ELSE identifier(node.call) \o <<Op("(")>> \o Joined(positional \o named, ",") \o <<Op(")")>>

render_comparison(left, node, depth) ==
    IF ~Has(node, "op") THEN left
    ELSE IF node.op \notin COMPARISONS \/ ~Has(node, "value") THEN Refusal
    ELSE left \o <<Op(node.op)>> \o render_value(node.value, depth + 1)

\* Mutant: a group inside a group is not put in brackets.
grouped_bare(parts, joiner, top) ==
    IF parts = <<>> THEN Refusal ELSE Joined(parts, joiner)

grouped(parts, joiner, top) ==
    CASE parts = <<>>             -> Refusal
      [] Len(parts) = 1           -> parts[1]
      [] Len(parts) > 1 /\ top    -> Joined(parts, joiner)
      [] Len(parts) > 1 /\ ~top   -> <<Op("(")>> \o Joined(parts, joiner) \o <<Op(")")>>

RECURSIVE render(_, _, _)
render(json, top, depth) ==
    LET node == json[2]
        group(parts, joiner) ==
            grouped([i \in 1..Len(parts) |-> render(parts[i], FALSE, depth + 1)], joiner, top)
    IN CASE depth > MAX_NESTING_DEPTH \/ json[1] # "dict" -> Refusal
         [] Has(node, "all")  -> group(node.all, "and")
         [] Has(node, "any")  -> group(node.any, "or")
         [] Has(node, "not")  -> <<Op("not"), Op("(")>> \o render(node.not, FALSE, depth + 1) \o <<Op(")")>>
         [] Has(node, "call") -> render_comparison(render_call(node, depth), node, depth)
         [] Has(node, "fact") -> render_comparison(identifier(node.fact), node, depth)
         [] OTHER             -> Refusal

to_expression(json) ==
    LET text == render(json, TRUE, 0) IN IF Len(text) > MAX_SOURCE THEN Refusal ELSE text

-----------------------------------------------------------------------------
(* dsl/parser.py: the guards that run before the parser.                   *)

Openers == {Op("("), Op("[")}
Closers == {Op(")"), Op("]")}

scan_one(s, lexeme) ==
    CASE lexeme \in Openers ->
           [s EXCEPT !.depth = @ + 1, !.run = 0, !.ok = @ /\ s.depth < MAX_NESTING_DEPTH]
      [] lexeme \in Closers ->
           [s EXCEPT !.depth = IF @ = 0 THEN 0 ELSE @ - 1, !.run = 0]
      [] lexeme \in {Op("-"), Op("+"), Op("not")} ->
           [s EXCEPT !.run = @ + 1, !.ok = @ /\ s.run < MAX_UNARY_RUN]
      [] lexeme = Op("not in") ->
           [s EXCEPT !.run = 0, !.ok = @ /\ s.run < MAX_UNARY_RUN]
      [] OTHER -> [s EXCEPT !.run = 0]

scan(text) == FoldLeft(scan_one, [depth |-> 0, run |-> 0, ok |-> TRUE], text).ok

guard_source(text) == text # <<>> /\ Len(text) <= MAX_SOURCE /\ scan(text)

-----------------------------------------------------------------------------
(* ast.parse in eval mode, for the operators of the language: text is      *)
(* split at the operators of lowest precedence outside brackets.           *)

Malformed == <<"Malformed">>

Count(text, n, S) == Cardinality({i \in 1..n : text[i] \in S})
Outside(text, i) == Count(text, i, Openers) = Count(text, i, Closers)
Places(text, S) == {i \in 1..Len(text) : text[i] \in S /\ Outside(text, i)}

Pieces(text, places) ==
    LET cuts == <<0>> \o SetToSortSeq(places, LAMBDA a, b : a < b) \o <<Len(text) + 1>>
    IN [i \in 1..Len(cuts) - 1 |-> SubSeq(text, cuts[i] + 1, cuts[i + 1] - 1)]

Operators == {Op(s) : s \in COMPARISONS \cup {"and", "or", "not", "+", "-", "*", "/", "//", "%", "(", "[", ",", "="}}

\* The last binary operator of S: one that follows an operand.
Binary(text, S) == {i \in Places(text, S) : i > 1 /\ text[i - 1] \notin Operators}

Latest(places) == CHOOSE i \in places : \A j \in places : j <= i

RECURSIVE test(_)
RECURSIVE arith(_)
items(text) == IF text = <<>> THEN <<>>
               ELSE LET parts == Pieces(text, Places(text, {Op(",")}))
                    IN [i \in 1..Len(parts) |-> test(parts[i])]

\* Arguments: key = value, or a value.
arguments(text) ==
    IF text = <<>> THEN <<>>
    ELSE LET parts == Pieces(text, Places(text, {Op(",")}))
         IN [i \in 1..Len(parts) |->
               IF Len(parts[i]) > 2 /\ parts[i][1][1] = "name" /\ parts[i][2] = Op("=")
               THEN <<"keyword", parts[i][1][2], test(SubSeq(parts[i], 3, Len(parts[i])))>>
               ELSE test(parts[i])]

Keywords(nodes) == SelectSeq(nodes, LAMBDA n : n[1] = "keyword")
Positional(nodes) == SelectSeq(nodes, LAMBDA n : n[1] # "keyword")

binop(text, at) ==
    <<"BinOp", arith(SubSeq(text, 1, at - 1)), text[at][2], arith(SubSeq(text, at + 1, Len(text)))>>

arith(text) ==
    LET n == Len(text)
        sums == Binary(text, {Op("+"), Op("-")})
        terms == Binary(text, {Op("*"), Op("/"), Op("//"), Op("%")})
        closes(i) == Outside(text, n) /\ \A j \in i..n - 1 : ~Outside(text, j)
        inner(i) == SubSeq(text, i + 1, n - 1)
    IN CASE n = 0         -> Malformed
         [] sums # {}     -> binop(text, Latest(sums))
         [] terms # {}    -> binop(text, Latest(terms))
         [] text[1] = Op("-") -> <<"UnaryOp", "-", arith(Tail(text))>>
         [] n = 1         -> IF text[1][1] = "name" THEN <<"Name", text[1][2]>>
                             ELSE IF text[1][1] \in {"int", "str", "bool", "float"} THEN <<"Constant", text[1]>>
                             ELSE Malformed
         [] n > 2 /\ text[n - 1] = Op(".") /\ text[n][1] = "name" ->
                             <<"Attribute", arith(SubSeq(text, 1, n - 2)), text[n][2]>>
         [] n > 1 /\ text[1] = Op("(") /\ text[n] = Op(")") /\ closes(1) ->
                IF Places(inner(1), {Op(",")}) = {} THEN test(inner(1)) ELSE <<"Tuple", items(inner(1))>>
         [] n > 1 /\ text[1] = Op("[") /\ text[n] = Op("]") /\ closes(1) -> <<"List", items(inner(1))>>
         [] n > 2 /\ text[1][1] = "name" /\ text[2] = Op("(") /\ text[n] = Op(")") /\ closes(2) ->
                LET args == arguments(inner(2))
                IN <<"Call", <<"Name", text[1][2]>>, Positional(args), Keywords(args)>>
         [] OTHER         -> Malformed

test(text) ==
    LET boolop(word) == LET parts == Pieces(text, Places(text, {Op(word)}))
                        IN <<"BoolOp", word, [i \in 1..Len(parts) |-> test(parts[i])]>>
        ops == Places(text, {Op(s) : s \in COMPARISONS})
        sides == Pieces(text, ops)
        nodes == [i \in 1..Len(sides) |-> arith(sides[i])]
    IN CASE text = <<>> -> Malformed
         [] Places(text, {Op("or")}) # {}  -> boolop("or")
         [] Places(text, {Op("and")}) # {} -> boolop("and")
         [] text[1] = Op("not")            -> <<"UnaryOp", "not", test(Tail(text))>>
         [] ops # {} -> LET at == SetToSortSeq(ops, LAMBDA a, b : a < b)
                        IN <<"Compare", nodes[1], [i \in 1..Len(at) |-> text[at[i]][2]], Tail(nodes)>>
         [] OTHER    -> arith(text)

\* The children of a node, its operators and contexts among them.
Leaf(op) == <<"operator", op>>
Load == <<"Load">>

Children(node) ==
    CASE node[1] = "BoolOp"    -> <<Leaf(node[2])>> \o node[3]
      [] node[1] = "UnaryOp"   -> <<Leaf(node[2]), node[3]>>
      [] node[1] = "BinOp"     -> <<node[2], Leaf(node[3]), node[4]>>
      [] node[1] = "Compare"   -> <<node[2]>> \o [i \in 1..Len(node[3]) |-> Leaf(node[3][i])] \o node[4]
      [] node[1] = "Call"      -> <<node[2]>> \o node[3] \o node[4]
      [] node[1] = "keyword"   -> <<node[3]>>
      [] node[1] \in {"List", "Tuple"} -> Append(node[2], Load)
      [] node[1] = "Attribute" -> <<node[2], Load>>
      [] node[1] = "Name"      -> <<Load>>
      [] OTHER                 -> <<>>

RECURSIVE walk(_)
walk(node) ==
    LET children == Children(node)
    IN <<node>> \o FlattenSeq([i \in 1..Len(children) |-> walk(children[i])])

NodesOf(tree) == LET nodes == walk(tree) IN {nodes[i] : i \in 1..Len(nodes)}

\* The root, ast.Expression, is one node more.
node_count(tree) == Len(walk(tree)) + 1

\* parse: the tree, or Malformed where the code raises RuleSyntaxError.
parse(text) ==
    LET tree == IF Places(text, {Op(",")}) = {} THEN test(text) ELSE <<"Tuple", items(text)>>
    IN IF guard_source(text) /\ Malformed \notin NodesOf(tree) /\ node_count(tree) <= MAX_NODES
       THEN tree ELSE Malformed

-----------------------------------------------------------------------------
(* dsl/validator.py, with the table of dsl/functions.py.                   *)

VelocityKeys == {"window", "min_amount_minor", "max_amount_minor", "transaction_type"}

Spec_(positional, keywords) == [positional |-> positional, keywords |-> keywords]

SPECS ==
    [ velocity_count |-> Spec_(0, VelocityKeys),
      velocity_sum   |-> Spec_(0, VelocityKeys),
      days_since     |-> Spec_(1, {}),
      in_list        |-> Spec_(2, {}),
      hour_of_day    |-> Spec_(0, {}),
      abs            |-> Spec_(1, {}),
      min            |-> Spec_(2, {}),
      max            |-> Spec_(2, {}),
      percent_of     |-> Spec_(2, {}) ]

ALLOWED_NODES ==
    {"BoolOp", "UnaryOp", "Compare", "BinOp", "Name", "Load", "Constant", "Call", "keyword",
     "List", "Tuple", "operator"}

ALLOWED_OPERATORS == COMPARISONS \cup {"and", "or", "not", "-", "+", "*", "%", "//"}

NotANumber(node) ==
    \/ node[1] = "Constant" /\ node[2][1] # "int"
    \/ node[1] \in {"List", "Tuple"}

visit_Constant(node) ==
    /\ node[2][1] \in {"bool", "int", "str"}
    /\ node[2][1] = "int" => node[2][2] < 10^MAX_NUMBER_DIGITS

visit_BinOp(node) ==
    /\ ~NotANumber(node[2]) /\ ~NotANumber(node[4])
    /\ ~(node[3] \in {"//", "%"} /\ node[4] = <<"Constant", Int_(0)>>)

\* Mutant: the number of arguments is not compared.
arity_ok_unchecked(node) == TRUE

arity_ok(node) == Len(node[3]) = SPECS[node[2][2]].positional

visit_Call(node) ==
    LET keys == [i \in 1..Len(node[4]) |-> node[4][i][2]]
    IN /\ node[2][2] \in DOMAIN SPECS
       /\ arity_ok(node)
       /\ \A i \in 1..Len(keys) : keys[i] \in SPECS[node[2][2]].keywords
       /\ \A i, j \in 1..Len(keys) : i # j => keys[i] # keys[j]

allowed(node) ==
    /\ node[1] \in ALLOWED_NODES
    /\ node[1] = "operator" => node[2] \in ALLOWED_OPERATORS
    /\ node[1] = "Name"     => node[2] \notin NotPlain
    /\ node[1] = "Constant" => visit_Constant(node)
    /\ node[1] = "BinOp"    => visit_BinOp(node)
    /\ node[1] = "Call"     => visit_Call(node)

validate(tree) == (\A node \in NodesOf(tree) : allowed(node)) /\ tree[1] # "Constant"

\* The tree, or Malformed: a malformed tree is not allowed either.
validate_source(text) ==
    LET tree == IF Refused(text) THEN Malformed ELSE parse(text)
    IN IF validate(tree) THEN tree ELSE Malformed

-----------------------------------------------------------------------------
(* dsl/interpreter.py and the implementations of dsl/functions.py.  A      *)
(* context has the facts, the functions it binds, the amounts in the       *)
(* velocity window (None when the fetch failed) and the hour.              *)

Error(why) == <<"error", why>>
Raised == <<"raised", "TypeError">>

fails(v) == v[1] \in {"error", "raised"}

truthy(v) ==
    CASE v[1] = "bool" -> v[2]
      [] v[1] = "int"  -> v[2] # 0
      [] v[1] = "str"  -> v[2] # ""
      [] OTHER         -> v[2] # <<>>

is_number(v) == v[1] = "int"

\* True and 1 are equal.
AsNumber(v) == IF v[1] = "bool" THEN (IF v[2] THEN 1 ELSE 0) ELSE v[2]
Numeric(v) == v[1] \in {"bool", "int"}
Equal(a, b) == IF Numeric(a) /\ Numeric(b) THEN AsNumber(a) = AsNumber(b) ELSE a = b

\* No text of the instance is part of another: `in` a text is equality.
IsIn(item, container) ==
    CASE container[1] = "tuple" -> Bool(\E i \in 1..Len(container[2]) : Equal(item, container[2][i]))
      [] item[1] = "str"        -> Bool(item = container)
      [] OTHER                  -> Raised

Negated(v) == IF v[1] = "bool" THEN Bool(~v[2]) ELSE v

Rank(v) == IF v[1] = "int" THEN v[2] ELSE CHOOSE i \in 1..Len(Alphabet) : Alphabet[i] = v[2]

compare(op, a, b) ==
    CASE op \in {"in", "not in"} /\ b[1] \notin {"tuple", "str"} -> Error("uncomparable")
      [] op = "in"     -> IsIn(a, b)
      [] op = "not in" -> Negated(IsIn(a, b))
      [] op = "=="     -> Bool(Equal(a, b))
      [] op = "!="     -> Bool(~Equal(a, b))
      [] ~(a[1] = b[1] /\ a[1] \in {"int", "str"}) -> Error("uncomparable")
      [] op = "<"      -> Bool(Rank(a) < Rank(b))
      [] op = "<="     -> Bool(Rank(a) <= Rank(b))
      [] op = ">"      -> Bool(Rank(a) > Rank(b))
      [] OTHER         -> Bool(Rank(a) >= Rank(b))

\* Python's // rounds down for either sign; a remainder has the divisor's sign.
FloorDiv(a, b) == IF b > 0 THEN a \div b ELSE (-a) \div (-b)

guard_magnitude(n) == IF bit_length(n) > MAX_RESULT_BITS THEN Error("too large") ELSE Int_(n)

arithmetic(op, a, b) ==
    CASE ~is_number(a) \/ ~is_number(b)    -> Error("not a number")
      [] op \in {"//", "%"} /\ b[2] = 0    -> Error("by zero")
      [] op = "*" /\ bit_length(a[2]) + bit_length(b[2]) > MAX_RESULT_BITS -> Error("too large")
      [] op = "+"  -> guard_magnitude(a[2] + b[2])
      [] op = "-"  -> guard_magnitude(a[2] - b[2])
      [] op = "*"  -> guard_magnitude(a[2] * b[2])
      [] op = "//" -> guard_magnitude(FloorDiv(a[2], b[2]))
      [] OTHER     -> guard_magnitude(a[2] - b[2] * FloorDiv(a[2], b[2]))

Windows == {"1m", "5m", "15m", "1h", "6h", "24h", "7d", "30d"}

\* Window.count and .total: a filter that is not a number cannot be compared.
\* All transactions of the instance are of one type.
velocity(name, named, ctx) ==
    LET bound(key) == IF Has(named, key) THEN {named[key]} ELSE {}
        low == bound("min_amount_minor")
        high == bound("max_amount_minor")
        kept == {i \in 1..Len(ctx.amounts) :
                   /\ \A v \in low : ctx.amounts[i] >= AsNumber(v)
                   /\ \A v \in high : ctx.amounts[i] <= AsNumber(v)}
    IN CASE ~Has(named, "window") -> Raised
         [] named["window"][1] # "str" \/ named["window"][2] \notin Windows -> Error("not a window")
         [] ctx.amounts = None -> Error("unavailable")
         [] \E v \in low \cup high : ~Numeric(v) -> Raised
         [] name = "velocity_count" -> Int_(Cardinality(kept))
         [] OTHER -> Int_(FoldLeft(LAMBDA sum, i : IF i \in kept THEN sum + ctx.amounts[i] ELSE sum,
                                   0, [i \in 1..Len(ctx.amounts) |-> i]))

apply(name, args, named, ctx) ==
    LET whole(f(_)) == IF \E i \in 1..Len(args) : ~is_number(args[i]) THEN Error("not whole")
                       ELSE Int_(f([i \in 1..Len(args) |-> args[i][2]]))
    IN CASE Len(args) # SPECS[name].positional -> Raised
         [] name \in {"velocity_count", "velocity_sum"} -> velocity(name, named, ctx)
         [] name = "days_since" -> IF args[1][1] = "str" /\ args[1][2] \in DOMAIN Age
                                   THEN Int_(Age[args[1][2]]) ELSE Error("not a date")
         [] name = "in_list" -> IF args[2][1] \in {"tuple", "str"} THEN IsIn(args[1], args[2])
                                ELSE Error("not a list")
         [] name = "hour_of_day" -> Int_(ctx.hour)
         [] name = "abs" -> whole(LAMBDA a : Magnitude(a[1]))
         [] name = "min" -> whole(LAMBDA a : IF a[1] <= a[2] THEN a[1] ELSE a[2])
         [] name = "max" -> whole(LAMBDA a : IF a[1] >= a[2] THEN a[1] ELSE a[2])
         [] OTHER        -> whole(LAMBDA a : (a[1] * a[2]) \div 100)

\* Every evaluation gives a value and the steps taken so far.
RECURSIVE eval(_, _, _)

\* The values of the nodes, or the first failure in their place.
RECURSIVE eval_each(_, _, _, _)
eval_each(nodes, ctx, steps, values) ==
    IF nodes = <<>> THEN <<Tuple(values), steps>>
    ELSE LET first == eval(Head(nodes), ctx, steps)
         IN IF fails(first[1]) THEN first
            ELSE eval_each(Tail(nodes), ctx, first[2], Append(values, first[1]))

RECURSIVE eval_boolop(_, _, _, _)
eval_boolop(op, nodes, ctx, steps) ==
    IF nodes = <<>> THEN <<Bool(op = "and"), steps>>
    ELSE LET first == eval(Head(nodes), ctx, steps)
         IN IF fails(first[1]) THEN first
            ELSE IF truthy(first[1]) = (op = "or") THEN <<Bool(op = "or"), first[2]>>
            ELSE eval_boolop(op, Tail(nodes), ctx, first[2])

RECURSIVE eval_compare(_, _, _, _, _)
eval_compare(left, ops, nodes, ctx, steps) ==
    IF ops = <<>> THEN <<Bool(TRUE), steps>>
    ELSE LET right == eval(Head(nodes), ctx, steps)
             result == IF fails(right[1]) THEN right[1] ELSE compare(Head(ops), left, right[1])
         IN IF result # Bool(TRUE) THEN <<result, right[2]>>
            ELSE eval_compare(right[1], Tail(ops), Tail(nodes), ctx, right[2])

eval_unaryop(op, operand) ==
    CASE fails(operand)      -> operand
      [] op = "not"          -> Bool(~truthy(operand))
      [] is_number(operand)  -> Int_(-operand[2])
      [] OTHER               -> Error("not a number")

eval_call(node, ctx, steps) ==
    LET name == node[2][2]
        named == node[4]
        args == eval_each(node[3] \o [i \in 1..Len(named) |-> named[i][3]], ctx, steps, <<>>)
        values == args[1][2]
        n == Len(node[3])
    IN IF name \notin ctx.functions THEN <<Error("not available"), steps>>
       ELSE IF fails(args[1]) THEN args
       ELSE <<apply(name, SubSeq(values, 1, n),
                    [key \in {named[i][2] : i \in 1..Len(named)} |->
                        values[n + (CHOOSE i \in 1..Len(named) : named[i][2] = key)]], ctx), args[2]>>

eval(node, ctx, before) ==
    LET steps == before + 1
        kind == node[1]
    IN CASE steps > MAX_STEPS -> <<Error("budget"), steps>>
         [] kind = "Constant" -> <<node[2], steps>>
         [] kind = "Name"     -> <<IF Has(ctx.facts, node[2]) THEN ctx.facts[node[2]]
                                   ELSE Error("unknown fact"), steps>>
         [] kind = "BoolOp"   -> eval_boolop(node[2], node[3], ctx, steps)
         [] kind = "UnaryOp"  -> LET operand == eval(node[3], ctx, steps)
                                 IN <<eval_unaryop(node[2], operand[1]), operand[2]>>
         [] kind = "Compare"  -> LET left == eval(node[2], ctx, steps)
                                 IN IF fails(left[1]) THEN left
                                    ELSE eval_compare(left[1], node[3], node[4], ctx, left[2])
         [] kind = "BinOp"    -> LET both == eval_each(<<node[2], node[4]>>, ctx, steps, <<>>)
                                 IN IF fails(both[1]) THEN both
                                    ELSE <<arithmetic(node[3], both[1][2][1], both[1][2][2]), both[2]>>
         [] kind = "Call"     -> eval_call(node, ctx, steps)
         [] kind \in {"List", "Tuple"} -> eval_each(node[2], ctx, steps, <<>>)
         [] OTHER             -> <<Error("cannot evaluate"), steps>>

\* Interpreter.run
run(tree, ctx) ==
    LET value == eval(tree, ctx, 0)[1] IN IF fails(value) THEN value ELSE Bool(truthy(value))
=============================================================================
