----------------------------- MODULE MCFrontEnd -----------------------------
(***************************************************************************)
(* Requests for TLC: IFQL programs printed from their trees, PromQL texts  *)
(* with their trees, and queries in JSON.                                  *)
(***************************************************************************)
EXTENDS FrontEnd

Missing == <<"nil">>

Request(lang, text, valid, tree, inlined, q) ==
    [lang |-> lang, text |-> text, valid |-> valid, tree |-> tree, inlined |-> inlined, query |-> q]

-----------------------------------------------------------------------------
(* Trees                                                                   *)

id(n) == <<"Identifier", n>>
int(n) == <<"IntegerLiteral", n>>
str(s) == <<"StringLiteral", s>>
prop(k, v) == <<"Property", id(k), v>>
call(f, args) == <<"CallExpression", f, IF args = <<>> THEN Missing ELSE <<"ObjectExpression", args>>>>
pipe(a, f, args) == <<"PipeExpression", a, call(id(f), args)>>
member(e, p) == <<"MemberExpression", e, id(p)>>
arrow(ps, body) == <<"ArrowFunctionExpression", ps, body>>
infix(op, l, r) == <<IF op \in {"and", "or"} THEN "LogicalExpression" ELSE "BinaryExpression", op, l, r>>
unary(op, e) == <<"UnaryExpression", op, e>>
let(n, e) == <<"VariableDeclaration", id(n), e>>
expr(e) == <<"ExpressionStatement", e>>
program(stmts) == <<"Program", stmts>>

-----------------------------------------------------------------------------
(* Printing, with parentheses where an operand binds looser than its place *)

Level(e) ==
    IF e[1] = "LogicalExpression" THEN 1
    ELSE IF e[1] = "BinaryExpression"
         THEN (CASE e[2] \in {"==", "!=", "=~"} -> 2
                 [] e[2] \in {"<", "<=", ">", ">="} -> 3
                 [] e[2] \in {"+", "-"} -> 4
                 [] e[2] \in {"*", "/"} -> 5)
    ELSE IF e[1] = "UnaryExpression" THEN 6
    ELSE IF e[1] = "PipeExpression" THEN 7
    ELSE IF e[1] = "ArrowFunctionExpression" THEN 8 ELSE 9

Join(ss, sep) ==
    FoldLeft(LAMBDA a, s : IF a = "" THEN s ELSE a \o sep \o s, "", ss)

Digits(n) == Language!FormatInt(n)

RECURSIVE Show(_, _)

\* The text of an expression or a statement, with sep between its tokens.
Show(e, sep) ==
    LET At(x, l) == IF Level(x) < l THEN "(" \o sep \o Show(x, sep) \o sep \o ")" ELSE Show(x, sep)
        Props(ps, eq) ==
            Join([i \in DOMAIN ps |-> ps[i][2][2] \o
                     IF ps[i][3] = Missing THEN "" ELSE sep \o eq \o sep \o At(ps[i][3], 0)],
                 sep \o "," \o sep)
    IN
    CASE e[1] = "Identifier" -> e[2]
      [] e[1] = "IntegerLiteral" -> Digits(e[2])
      [] e[1] = "StringLiteral" -> "\"" \o e[2] \o "\""
      [] e[1] = "FloatLiteral" -> Digits(e[2]) \o "." \o e[3]
      [] e[1] = "DurationLiteral" -> Digits(e[2]) \o "s"
      [] e[1] = "BooleanLiteral" -> IF e[2] THEN "true" ELSE "false"
      [] e[1] = "RegexpLiteral" -> "/" \o e[2] \o "/"
      [] e[1] = "PipeLiteral" -> "<-"
      [] e[1] \in {"BinaryExpression", "LogicalExpression"} ->
             At(e[3], Level(e)) \o sep \o e[2] \o sep \o At(e[4], Level(e) + 1)
      [] e[1] = "UnaryExpression" -> e[2] \o sep \o At(e[3], 7)
      [] e[1] = "PipeExpression" -> At(e[2], 7) \o sep \o "|>" \o sep \o Show(e[3], sep)
      [] e[1] = "MemberExpression" -> Show(e[2], sep) \o sep \o "." \o sep \o e[3][2]
      [] e[1] = "CallExpression" ->
             Show(e[2], sep) \o sep \o "(" \o sep \o
             (IF e[3] = Missing THEN "" ELSE Props(e[3][2], ":")) \o sep \o ")"
      [] e[1] = "ObjectExpression" -> "{" \o sep \o Props(e[2], ":") \o sep \o "}"
      [] e[1] = "ArrayExpression" ->
             "[" \o sep \o Join([i \in DOMAIN e[2] |-> At(e[2][i], 7)], sep \o "," \o sep) \o sep \o "]"
      [] e[1] = "ArrowFunctionExpression" ->
             "(" \o sep \o Props(e[2], "=") \o sep \o ")" \o sep \o "=>" \o sep \o Show(e[3], sep)
      [] e[1] = "BlockStatement" ->
             "{" \o sep \o Join([i \in DOMAIN e[2] |-> Show(e[2][i], sep)], "\n") \o sep \o "}"
      [] e[1] = "VariableDeclaration" -> e[2][2] \o sep \o "=" \o sep \o Show(e[3], sep)
      [] e[1] = "ExpressionStatement" -> Show(e[2], sep)
      [] e[1] = "ReturnStatement" -> "return " \o Show(e[2], sep)
      [] e[1] = "Program" -> Join([i \in DOMAIN e[2] |-> Show(e[2][i], sep)], "\n")

Written(tree, inlined, sep) == Request("ifql", Show(tree, sep), TRUE, tree, inlined, NoQuery)

Garbage(text) == Request("ifql", text, FALSE, Missing, Missing, NoQuery)

-----------------------------------------------------------------------------
MCUnitNanos == [ns |-> 1, us |-> 2, ms |-> 4, s |-> 8, m |-> 16, h |-> 32, d |-> 64, w |-> 128, y |-> 256]

(* Expressions: every pair of operators of different levels, both ways,    *)
(* under each kind of separator.                                           *)

Ops == {"or", "==", "<", "-", "*"}
a == id("a")
b == id("b")
c == id("c")

Expressions ==
    {infix(o, infix(p, a, b), c) : o, p \in Ops} \cup {infix(o, a, infix(p, b, c)) : o, p \in Ops}
    \cup {infix(o, unary(u, a), unary(u, b)) : o \in Ops, u \in {"-", "not"}}
    \cup {unary("-", infix(o, a, b)) : o \in {"or", "*"}}

Shapes ==
    {pipe(pipe(call(id("f"), <<>>), "g", <<prop("n", a)>>), "h", <<>>),
     pipe(infix("+", a, b), "g", <<>>),
     infix("+", a, pipe(b, "g", <<>>)),
     arrow(<<prop("x", Missing), prop("y", int(1)), prop("t", <<"PipeLiteral">>)>>, infix("or", a, b)),
     arrow(<<>>, <<"BlockStatement", <<let("x", a), <<"ReturnStatement", infix("-", b, a)>>>>>>),
     call(member(member(a, "b"), "c"), <<prop("p", arrow(<<prop("r", Missing)>>, member(id("r"), "v")))>>),
     call(call(a, <<>>), <<prop("p", int(0))>>),
     <<"ArrayExpression", <<str("x"), <<"ArrayExpression", <<a>>>>>>>>,
     call(a, <<prop("p", <<"ObjectExpression", <<prop("q", <<"FloatLiteral", 1, "5">>)>>>>),
               prop("s", <<"RegexpLiteral", "x">>)>>),
     infix("and", infix("=~", a, <<"RegexpLiteral", "x">>), <<"BooleanLiteral", TRUE>>),
     infix("/", unary("-", <<"DurationLiteral", 7, 0>>), int(12))}

ExpressionInputs ==
    {Written(program(<<expr(e)>>), Missing, sep) : e \in Expressions, sep \in {" ", " //z\n"}}
    \cup {Written(program(<<expr(e)>>), Missing, sep) : e \in Shapes, sep \in {" ", "\n", " //z\n"}}
    \cup {Garbage(t) : t \in {"a b = ", "a +", "(a", "a = [1", "\"x", "\"\\n\"", "1 = a",
                              "a // b", "1000", "f()[\"a\"]", "a =~ /(/"}}

-----------------------------------------------------------------------------
(* Programs that make queries, and the same without their functions.       *)

secs(n) == unary("-", <<"DurationLiteral", n, 0>>)
from == call(id("from"), <<prop("db", str("x"))>>)
ranged(e, n) == pipe(e, "range", <<prop("start", secs(n))>>)
named(e, n) == pipe(e, "yield", <<prop("name", str(n))>>)
limited(e, n) == pipe(e, "limit", <<prop("n", n)>>)
row(body) == arrow(<<prop("r", Missing)>>, body)
filtered(e, body) == pipe(e, "filter", <<prop("fn", row(body))>>)
col(n) == member(id("r"), n)
piped == prop("t", <<"PipeLiteral">>)
tables(x, y) == <<"ObjectExpression", <<prop("a", x), prop("b", y)>>>>
joined(x, y) == call(id("join"), <<prop("tables", tables(x, y)),
    prop("fn", arrow(<<prop("t", Missing)>>, infix("+", member(id("t"), "a"), member(id("t"), "b"))))>>)

f == let("f", arrow(<<piped, prop("n", int(2))>>, limited(id("t"), id("n"))))
g == let("g", arrow(<<prop("t", Missing), prop("h", Missing)>>, call(id("h"), <<prop("t", id("t"))>>)))
twice == let("f", arrow(<<prop("n", Missing)>>, <<"BlockStatement",
             <<let("m", infix("*", id("n"), int(2))), <<"ReturnStatement", infix("+", id("m"), int(1))>>>>>>))
add == let("add", arrow(<<prop("a", Missing)>>, arrow(<<prop("b", Missing)>>, infix("+", a, b))))
object == let("o", <<"ObjectExpression", <<prop("f", arrow(<<prop("n", int(1))>>, infix("-", id("n"), int(1))))>>>>)
start == ranged(from, 3)
times3(e) == <<expr(limited(start, e))>>

\* Pairs of a program and its inlined form.
Inlined ==
    {<<<<f, expr(pipe(start, "f", <<>>))>>, times3(int(2))>>,
     <<<<f, expr(pipe(start, "f", <<prop("n", int(5))>>))>>, times3(int(5))>>,
     <<<<f, expr(pipe(pipe(from, "f", <<prop("n", int(4))>>), "f", <<>>))>>,
       <<expr(limited(limited(from, int(4)), int(2)))>>>>,
     <<<<f, g, expr(call(id("g"), <<prop("h", id("f")), prop("t", start)>>))>>, times3(int(2))>>,
     <<<<twice>> \o times3(call(id("f"), <<prop("n", int(3))>>)), times3(int(7))>>,
     <<<<add>> \o times3(call(call(id("add"), <<prop("a", int(1))>>), <<prop("b", int(2))>>)), times3(int(3))>>,
     <<<<object>> \o times3(call(member(id("o"), "f"), <<>>)), times3(int(0))>>,
     <<<<let("n", int(5)), f>> \o times3(id("n")), times3(int(5))>>,
     <<<<let("x", infix("+", int(1), infix("*", int(2), int(3)))),
         expr(filtered(start, infix("or", infix(">", col("v"), id("x")), infix("==", col("w"), str("a")))))>>,
       <<expr(filtered(start, infix("or", infix(">", col("v"), int(7)), infix("==", col("w"), str("a")))))>>>>}

\* Tables that several operations use; a filter with a block; and programs that
\* the compiler refuses.
Programs ==
    {<<let("x", from), expr(named(pipe(ranged(id("x"), 3), "sum", <<>>), "p")),
       expr(named(pipe(ranged(id("x"), 5), "count", <<>>), "q"))>>,
     <<let("x", start), expr(joined(limited(id("x"), int(1)), id("x")))>>,
     <<expr(named(joined(start, filtered(ranged(from, 5), infix("<", col("v"), int(1)))), "p"))>>,
     <<expr(pipe(start, "filter", <<prop("fn", row(<<"BlockStatement", <<<<"ReturnStatement", infix("!=", col("v"), int(1))>>>>>>))>>))>>,
     <<let("x", joined(start, from)), expr(named(id("x"), "p")), expr(named(limited(id("x"), int(1)), "q"))>>,
     <<expr(pipe(a, "sum", <<>>))>>,
     <<expr(call(id("from"), <<prop("db", int(1))>>))>>,
     <<expr(call(id("from"), <<prop("db", str("x")), prop("z", int(1))>>))>>,
     <<let("x", infix("/", int(1), int(0)))>>}

ProgramInputs ==
    {Written(program(p[1]), program(p[2]), " ") : p \in Inlined}
    \cup {Written(program(p), Missing, " ") : p \in Programs}

-----------------------------------------------------------------------------
(* PromQL                                                                  *)

MatcherOps == [Equal |-> "=", NotEqual |-> "!=", RegexMatch |-> "=~", RegexNoMatch |-> "!~"]

\* Matchers are triples of a label, a kind and a value of one character.
Matchers == {<<>>, <<<<"b", "Equal", "c">>>>, <<<<"b", "NotEqual", "c">>, <<"d", "RegexNoMatch", "e">>>>,
             <<<<"b", "RegexMatch", "c">>>>}

Length(d) == d[1] * MCUnitNanos[d[2]]

ShowMatchers(ms, quote) ==
    IF ms = <<>> THEN ""
    ELSE "{" \o Join([i \in DOMAIN ms |-> ms[i][1] \o MatcherOps[ms[i][2]] \o quote \o ms[i][3] \o quote], ", ") \o "}"

ShowSelector(s, quote) ==
    "a" \o ShowMatchers(s.ms, quote) \o
    (IF s.rng[1] = 0 THEN "" ELSE "[" \o Digits(s.rng[1]) \o s.rng[2] \o "]") \o
    (IF s.off[1] = 0 THEN "" ELSE " offset " \o Digits(s.off[1]) \o s.off[2])

SelectorTree(s) ==
    [type |-> "Selector", Name |-> "a", Range |-> Length(s.rng), Offset |-> Length(s.off),
     LabelMatchers |-> [i \in DOMAIN s.ms |-> <<"LabelMatcher", s.ms[i][1], s.ms[i][2],
                                                <<"StringLiteral", <<s.ms[i][3]>>>>>>]]

Selectors == [ms : Matchers, rng : {<<0, "s">>, <<5, "m">>, <<63, "h">>}, off : {<<0, "s">>, <<7, "y">>}]

plainSelector == [ms |-> <<>>, rng |-> <<0, "s">>, off |-> <<0, "s">>]

Labels(ls) == [i \in DOMAIN ls |-> <<"Identifier", ls[i]>>]

Groups ==
    {[text |-> "", tree |-> Missing],
     [text |-> "by (x)", tree |-> <<"Aggregate", TRUE, Labels(<<"x">>), FALSE>>],
     [text |-> "BY (x, y) keep_common", tree |-> <<"Aggregate", TRUE, Labels(<<"x", "y">>), TRUE>>],
     [text |-> "without (x)", tree |-> <<"Aggregate", FALSE, Labels(<<"x">>), FALSE>>]}

Aggregates(s) ==
    {Request("promql", t, TRUE,
             [type |-> "AggregateExpr", Op |-> o[2], Arg |-> o[3], Selector |-> SelectorTree(s), Aggregate |-> h.tree],
             Missing, NoQuery) :
       <<o, h, t>> \in UNION {
         LET arg == "(" \o o[4] \o ShowSelector(s, "'") \o ")"
         IN  {<<o, h, o[1] \o " " \o h.text \o arg>>, <<o, h, o[1] \o arg \o " " \o h.text>>} :
           o \in {<<"sum", "sum", Missing, "">>, <<"COUNT", "count", Missing, "">>,
                  <<"topk", "topk", <<"Number", "3">>, "3, ">>},
           h \in Groups}}

PromQLInputs ==
    {Request("promql", ShowSelector(s, q), TRUE, SelectorTree(s), Missing, NoQuery) :
       s \in Selectors, q \in {"'", "\""}}
    \cup Aggregates(plainSelector)
    \cup Aggregates([ms |-> <<<<"b", "Equal", "c">>>>, rng |-> <<5, "m">>, off |-> <<0, "s">>])
    \cup {Request("promql", t, FALSE, [type |-> "none"], Missing, NoQuery) :
            t \in {"a{b='c'", "a{b='c", "a[5]", "sum(a", "a{b=c}", "a[0s]", "a{b='\\q'}"}}

-----------------------------------------------------------------------------
(* Queries in JSON                                                         *)

JSON(ops, edges) ==
    Request("json", "", TRUE, Missing, Missing, [Operations |-> ops, Edges |-> edges])

ID(i) == SubSeq("abcdefghi", i, i)

\* The i-th operation of a query; yields take the name of their operation.
op(i, kind) ==
    CASE kind = "range"  -> [ID |-> ID(i), kind |-> kind, times |-> [Start |-> 3, Stop |-> 8]]
      [] kind = "early"  -> [ID |-> ID(i), kind |-> "range", times |-> [Start |-> 2, Stop |-> 7]]
      [] kind = "filter" -> [ID |-> ID(i), kind |-> kind, block |-> FALSE]
      [] kind = "yield"  -> [ID |-> ID(i), kind |-> kind, name |-> ID(i)]
      [] OTHER           -> [ID |-> ID(i), kind |-> kind]

Pairs == [i \in 1 .. 9 |-> <<ID(1 + ((i - 1) \div 3)), ID(1 + ((i - 1) % 3))>>]

\* Every graph on three operations, and graphs with bad IDs.
Graphs ==
    {JSON(<<op(1, "from"), op(2, "range"), op(3, "map")>>, SelectSeq(Pairs, LAMBDA e : e \in E)) :
       E \in SUBSET Range(Pairs)}
    \cup {JSON(<<op(1, "from"), op(1, "range")>>, <<>>), JSON(<<op(1, "from")>>, <<<<"a", "b">>>>),
          JSON(<<>>, <<>>)}

\* One path.
Chains ==
    {JSON(<<op(1, "from"), op(2, x), op(3, y), op(4, z), op(5, "range")>>,
          <<<<"a", "b">>, <<"b", "c">>, <<"c", "d">>, <<"d", "e">>>>) :
       x, y, z \in {"limit", "filter", "group", "sum", "count", "first", "map"}}

Kinds == {"range", "limit", "filter", "group", "sum", "map"}

\* Two results that share the first operations.
Forks ==
    {JSON(<<op(1, "from"), op(2, "range"), op(3, p), op(4, x), op(5, w), op(6, "yield"),
            op(7, y), op(8, v), op(9, "yield")>>,
          <<<<"a", "b">>, <<"b", "c">>, <<"c", "d">>, <<"d", "e">>, <<"e", "f">>,
            <<"c", "g">>, <<"g", "h">>, <<"h", "i">>>>) :
       p, x, y \in Kinds, w \in {"map", "limit"}, v \in {"filter", "sum"}}

\* Two sources, with ranges of their own, in a join.
Joins ==
    {JSON(<<op(1, "from"), op(2, r), op(3, x), op(4, "from"), op(5, s), op(6, y),
            [ID |-> "g", kind |-> "join", tables |-> {"c", "f"}], op(8, z)>>,
          <<<<"a", "b">>, <<"b", "c">>, <<"d", "e">>, <<"e", "f">>, <<"c", "g">>, <<"f", "g">>, <<"g", "h">>>>) :
       r, s \in {"range", "early"}, x, y \in Kinds \ {"range"}, z \in {"map", "limit"}}

JSONInputs == Graphs \cup Chains \cup Forks \cup Joins

MCInputs == ExpressionInputs \cup ProgramInputs \cup PromQLInputs \cup JSONInputs
=============================================================================
