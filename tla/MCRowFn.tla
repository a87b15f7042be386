------------------------------- MODULE MCRowFn -------------------------------
(***************************************************************************)
(* Row functions for TLC: two threads over a type cache that is filled by  *)
(* both, and one thread with each of the operators on each of the kinds.   *)
(***************************************************************************)
EXTENDS RowFn

MCThread == {"w1", "w2"}

ValueKind == {"Int", "UInt", "Float", "String", "Bool"}
Labels == {"v", "w"}

\* What NewObjectType is asked for; the hash covers the names of the
\* properties only (the kinds are of no fixed size, and binary.Write leaves
\* them out), so that all types with the same names share a bucket.
MCSignature == UNION {[ls -> ValueKind] : ls \in SUBSET Labels}
MCHash == [s \in MCSignature |-> DOMAIN s]
MCIdentity == [s \in MCSignature |-> s]

\* The ends of the ranges of integers of 8 bits, both signs, and floats.
MCSample ==
  [Int |-> {<<"Int", -128>>, <<"Int", -1>>, <<"Int", 0>>, <<"Int", 2>>},
   UInt |-> {<<"UInt", 0>>, <<"UInt", 2>>, <<"UInt", 255>>},
   Float |-> {<<"Float", -1, 2>>, <<"Float", 0, 1>>, <<"Float", 2, 1>>},
   String |-> {<<"String", "a">>, <<"String", "ab">>},
   Bool |-> {<<"Bool", TRUE>>, <<"Bool", FALSE>>}]

ident(n) == <<"IdentifierExpression", n, NoDeclaration>>
col(c) == <<"MemberExpression", ident("r"), c>>
int(n) == <<"IntegerLiteral", n>>
binary(op, a, b) == <<"BinaryExpression", op, a, b>>
logical(op, a, b) == <<"LogicalExpression", op, a, b>>
fn(body) == <<"FunctionExpression", <<<<"FunctionParam", "r", Absent, FALSE>>>>, body>>

Idle == [fn |-> fn(int(0)), use |-> "", parts |-> <<>>, columns |-> {}]
Use(use, body, columns) == [fn |-> fn(body), use |-> use, parts |-> <<>>, columns |-> columns]
Alone(u) == [t \in MCThread |-> IF t = "w1" THEN u ELSE Idle]

v(k) == [c \in {"v"} |-> k]
vw(k, l) == [c \in Labels |-> IF c = "v" THEN k ELSE l]

\* Each operator on columns of each pair of kinds.
Operations ==
  {Alone(Use("map", binary(op, col("v"), col("w")), {vw(k, l)})) :
     op \in Arithmetic \cup Ordering \cup Equality, k, l \in ValueKind \ {"Bool"}}

body1 == logical("and", binary(">", col("v"), int(0)), binary("<", col("w"), int(2)))
body2 == logical("or", <<"UnaryExpression", "not", binary("==", col("v"), int(2))>>,
                       binary("=~", col("w"), <<"RegexpLiteral", "b">>))
body3 == <<"ObjectExpression", <<<<"Property", "a", binary("/", col("v"), col("w"))>>,
                                 <<"Property", "b", <<"UnaryExpression", "-", col("v")>>>>>>>>
body4 == <<"BlockStatement", <<<<"ReturnStatement", binary("!=", col("v"), int(2))>>>>>>
body5 == <<"CallExpression", ident("f"), <<>>>>
body6 == logical("and", col("v"), binary("!~", <<"RegexpLiteral", "a">>, col("w")))

\* Functions with several nodes, on blocks whose columns change.
Functions ==
  {Alone(Use("filter", body1, {vw("Int", "Float"), vw("UInt", "Int"), vw("Int", "String"), v("Int")})),
   Alone(Use("filter", body2, {vw("Int", "String"), vw("Float", "String")})),
   Alone(Use("map", body3, {vw("Int", "Int"), vw("Float", "Float"), vw("UInt", "UInt")})),
   Alone(Use("filter", body4, {v("Int"), v("Float"), v("UInt")})),
   Alone(Use("map", body5, {v("Int")})),
   Alone(Use("filter", col("v"), {v("Int"), v("Bool")})),
   Alone(Use("filter", body6, {vw("Bool", "String"), vw("Int", "String")}))}

\* Two filters in one.
Merges ==
  {Alone([fn |-> mergeArrowFunction(fn(a), fn(b)), use |-> "filter", parts |-> <<fn(a), fn(b)>>,
          columns |-> {vw("Int", "Int"), vw("Float", "UInt")}]) :
     a, b \in {binary("<", col("v"), int(1)), binary(">=", col("w"), int(1)),
               logical("or", binary("==", col("v"), int(2)), binary("==", col("w"), int(2)))}}

\* Two threads that ask for the same types at the same time.
Both == {[t \in MCThread |-> IF t = "w1" THEN Use("filter", binary(">", col("v"), int(1)), cs)
                                          ELSE Use("map", binary("+", col("v"), col("v")), cs)] :
           cs \in {{v("Int")}, {v("Int"), v("Float")}}}

MCSettings == Operations \cup Functions \cup Merges \cup Both
=============================================================================
