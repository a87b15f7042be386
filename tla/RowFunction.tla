---------------------------- MODULE RowFunction ----------------------------
(***************************************************************************)
(* compiler/: a function of a row compiled for the types of its parameters *)
(* and evaluated on a row.  An evaluator is a tuple: its kind of node, the *)
(* type that was known at compile time, and its parts.                     *)
(***************************************************************************)
EXTENDS Interpreter

-----------------------------------------------------------------------------
(* binaryFuncs: one definition per operator                                *)

binarySignatures(op) ==
  CASE op \in Arithmetic -> {<<k, k>> : k \in Number}
    [] op \in Ordering -> Number \X Number
    [] op \in Equality -> (Number \X Number) \cup {<<"String", "String">>}
    [] op \in Matching -> {<<"String", "Regexp">>, <<"Regexp", "String">>}
    [] OTHER -> {}

AdditionOperator(l, r) ==
  CASE l[1] = "Int" -> NewIntValue(l[2] + r[2])
    [] l[1] = "UInt" -> NewUIntValue(l[2] + r[2])
    [] l[1] = "Float" -> FloatAdd(l, r)

SubtractionOperator(l, r) ==
  CASE l[1] = "Int" -> NewIntValue(l[2] - r[2])
    [] l[1] = "UInt" -> NewUIntValue(l[2] - r[2])
    [] l[1] = "Float" -> FloatAdd(l, FloatNegate(r))

MultiplicationOperator(l, r) ==
  CASE l[1] = "Int" -> NewIntValue(l[2] * r[2])
    [] l[1] = "UInt" -> NewUIntValue(l[2] * r[2])
    [] l[1] = "Float" -> FloatMultiply(l, r)

DivisionOperator(l, r) ==
  CASE l[1] = "Float" -> FloatDivide(l, r)
    [] l[1] # "Float" /\ r[2] = 0 -> Panic
    [] l[1] = "Int" /\ r[2] # 0 -> NewIntValue(Quotient(l[2], r[2]))
    [] l[1] = "UInt" /\ r[2] # 0 -> NewUIntValue(Quotient(l[2], r[2]))

\* Two numbers: as floats when one of them is a float; when a negative int
\* meets a uint the answer is fixed, otherwise they are compared as integers.
Compared(l, r, negativeLeft, negativeRight, Ints(_, _), Floats(_, _)) ==
  CASE "Float" \in {l[1], r[1]} -> Floats(Float64(l), Float64(r))
    [] Sig(l, r) = <<"Int", "UInt">> /\ l[2] < 0 -> negativeLeft
    [] Sig(l, r) = <<"UInt", "Int">> /\ r[2] < 0 -> negativeRight
    [] OTHER -> Ints(l[2], r[2])

LessThanEqualOperator(l, r) ==
  Compared(l, r, TRUE, FALSE, LAMBDA a, b : a <= b,
           LAMBDA a, b : FloatLess(a, b) \/ FloatEqual(a, b))

LessThanOperator(l, r) ==
  Compared(l, r, TRUE, FALSE, LAMBDA a, b : a < b, FloatLess)

GreaterThanEqualOperator(l, r) ==
  Compared(l, r, TRUE, FALSE, LAMBDA a, b : a >= b,
           LAMBDA a, b : FloatLess(b, a) \/ FloatEqual(a, b))

GreaterThanOperator(l, r) ==
  Compared(l, r, TRUE, FALSE, LAMBDA a, b : a > b, LAMBDA a, b : FloatLess(b, a))

EqualOperator(l, r) ==
  Compared(l, r, FALSE, FALSE, LAMBDA a, b : a = b, FloatEqual)

NotEqualOperator(l, r) ==
  Compared(l, r, TRUE, TRUE, LAMBDA a, b : a # b, LAMBDA a, b : ~FloatEqual(a, b))

RegexpMatchOperator(l, r) ==
  IF l[1] = "String" THEN MatchString(r[2], l[2]) ELSE MatchString(l[2], r[2])

NotRegexpMatchOperator(l, r) ==
  ~(IF l[1] = "String" THEN MatchString(r[2], l[2]) ELSE MatchString(l[2], r[2]))

binaryFuncs(op, l, r) ==
  CASE op = "+" -> AdditionOperator(l, r)
    [] op = "-" -> SubtractionOperator(l, r)
    [] op = "*" -> MultiplicationOperator(l, r)
    [] op = "/" -> DivisionOperator(l, r)
    [] op = "<=" -> NewBoolValue(LessThanEqualOperator(l, r))
    [] op = "<" -> NewBoolValue(LessThanOperator(l, r))
    [] op = ">=" -> NewBoolValue(GreaterThanEqualOperator(l, r))
    [] op = ">" -> NewBoolValue(GreaterThanOperator(l, r))
    [] op = "==" -> NewBoolValue(EqualOperator(l, r))
    [] op = "!=" -> NewBoolValue(NotEqualOperator(l, r))
    [] op = "=~" -> NewBoolValue(RegexpMatchOperator(l, r))
    [] op = "!~" -> NewBoolValue(NotRegexpMatchOperator(l, r))

-----------------------------------------------------------------------------
(* compile                                                                 *)

RECURSIVE compile(_)

compileAll(ns) == [i \in DOMAIN ns |-> compile(ns[i])]

compileObject(n) ==
  Made(compileAll([i \in DOMAIN n[2] |-> n[2][i][3]]),
       LAMBDA parts : <<"map", TypeOf(n), ObjectOf(n[2], compile)>>)

\* The function of an operator is chosen by the types of the operands.
compileBinary(n) ==
  Made(<<compile(n[3]), compile(n[4])>>, LAMBDA k :
         IF <<k[1][2][1], k[2][2][1]>> \notin binarySignatures(n[2]) THEN Bad
         ELSE <<"binary", TypeOf(n), n[2], k[1], k[2]>>)

\* A call, a function, an array or a duration is an unknown node, and a bare
\* expression a statement that does nothing.
compile(n) ==
  CASE n[1] = "BlockStatement" ->
         Made(compileAll(n[2]), LAMBDA body : <<"block", TypeOf(Last(n[2])[2]), body>>)
    [] n[1] = "ReturnStatement" -> compile(n[2])
    [] n[1] = "NativeVariableDeclaration" ->
         Made(<<compile(n[3])>>, LAMBDA init : <<"declaration", TypeOf(n[3]), n[2], init[1]>>)
    [] n[1] = "ObjectExpression" -> compileObject(n)
    [] n[1] = "IdentifierExpression" -> <<"identifier", TypeOf(n), n[2]>>
    [] n[1] = "MemberExpression" ->
         Made(<<compile(n[2])>>, LAMBDA object : <<"member", TypeOf(n), object[1], n[3]>>)
    [] n[1] \in {"BooleanLiteral", "IntegerLiteral", "FloatLiteral", "StringLiteral",
                  "RegexpLiteral", "DateTimeLiteral"} -> <<"literal", TypeOf(n), doLiteral(n)>>
    [] n[1] = "UnaryExpression" ->
         Made(<<compile(n[3])>>, LAMBDA node : <<"unary", TypeOf(n), node[1]>>)
    [] n[1] = "LogicalExpression" ->
         Made(<<compile(n[3]), compile(n[4])>>, LAMBDA k : <<"logical", TypeOf(n), n[2], k[1], k[2]>>)
    [] n[1] = "BinaryExpression" -> compileBinary(n)
    [] OTHER -> Bad

\* Compile: the function's identifiers without declaration are given the
\* types of the parameters.
CompileFn(f, inTypes) ==
  compile(ApplyNewDeclarations(f, [k \in DOMAIN inTypes |-> <<"external", inTypes[k]>>])[3])

-----------------------------------------------------------------------------
(* Evaluation: an evaluator is asked for a value of a kind                 *)

NilValue == <<"nil">>

\* The type assertion of a value.
As(v, kind) == IF v[1] = kind THEN v ELSE Panic

RECURSIVE EvalAs(_, _, _), evalBlock(_, _, _)

evalValue(e, scope) ==
  IF e[2][1] \in {"Bool", "Int", "UInt", "Float", "String", "Regexp", "Time"}
  THEN EvalAs(e, e[2][1], scope) ELSE NilValue

\* An integer can be taken as an unsigned one.
integerEvaluator(e, kind) == IF kind = "UInt" THEN NewUIntValue(e[3][2]) ELSE As(e[3], kind)

literalEvaluator(e, kind) == IF e[3][1] = "Int" THEN integerEvaluator(e, kind) ELSE As(e[3], kind)

identifierEvaluator(e, kind, scope) ==
  IF e[3] \in DOMAIN scope THEN As(scope[e[3]], kind) ELSE Panic

\* An object that is the property of an object has no value there.
mapEvaluator(e, kind, scope) ==
  LET f == [k \in DOMAIN e[3] |-> evalValue(e[3][k], scope)]
  IN  IF kind # "Object" \/ \E k \in DOMAIN f : f[k] \in {Panic, NilValue} THEN Panic
      ELSE <<"Object", f>>

memberEvaluator(e, kind, scope) ==
  LET object == EvalAs(e[3], "Object", scope)
  IN  IF object = Panic THEN Panic
      ELSE IF e[4] \notin DOMAIN object[2] THEN Panic
      ELSE As(object[2][e[4]], kind)

logicalEvaluator(e, kind, scope) ==
  LET l == EvalAs(e[4], "Bool", scope)
  IN  IF kind # "Bool" \/ l = Panic THEN Panic
      ELSE IF l[2] = (e[3] = "or") THEN l
      ELSE EvalAs(e[5], "Bool", scope)

binaryEvaluator(e, kind, scope) ==
  LET l == EvalAs(e[4], e[4][2][1], scope)
      r == EvalAs(e[5], e[5][2][1], scope)
  IN  IF Panic \in {l, r} \/ kind \in {"Regexp", "Object"} THEN Panic
      ELSE As(binaryFuncs(e[3], l, r), kind)

\* The operator is known by the kind alone: not for a Bool, - for a number.
unaryEvaluator(e, kind, scope) ==
  LET v == EvalAs(e[3], kind, scope)
  IN  CASE v = Panic -> Panic
        [] v # Panic /\ kind = "Bool" -> NewBoolValue(~v[2])
        [] v # Panic /\ kind = "Int" -> NewIntValue(-v[2])
        [] v # Panic /\ kind = "Float" -> FloatNegate(v)
        [] OTHER -> Panic

\* The value of a block is that of its last statement; a declaration sets its
\* variable in the scope.
evalBlock(body, kind, scope) ==
  LET e == Head(body)
      v == IF e[1] = "declaration" THEN evalValue(e[4], scope) ELSE evalValue(e, scope)
  IN  IF v = Panic THEN Panic
      ELSE IF Tail(body) = <<>> THEN As(v, kind)
      ELSE evalBlock(Tail(body), kind, IF e[1] = "declaration" THEN With(scope, e[3], v) ELSE scope)

EvalAs(e, kind, scope) ==
  CASE e[1] = "literal" -> literalEvaluator(e, kind)
    [] e[1] = "identifier" -> identifierEvaluator(e, kind, scope)
    [] e[1] = "member" -> memberEvaluator(e, kind, scope)
    [] e[1] = "map" -> mapEvaluator(e, kind, scope)
    [] e[1] = "logical" -> logicalEvaluator(e, kind, scope)
    [] e[1] = "binary" -> binaryEvaluator(e, kind, scope)
    [] e[1] = "unary" -> unaryEvaluator(e, kind, scope)
    [] e[1] = "block" -> IF e[2][1] # kind THEN Panic ELSE evalBlock(e[3], kind, scope)

\* compiledFn.Eval, once the scope has been found valid.
EvalFn(e, scope) ==
  IF e[2][1] \in {"Bool", "Int", "UInt", "Float", "String", "Regexp", "Time", "Object"}
  THEN EvalAs(e, e[2][1], scope) ELSE Bad

-----------------------------------------------------------------------------
(* functions/filter.go: the function of two filters                        *)

\* A mutant: one of the two filters is enough.
mergeEither(a, b) == [a EXCEPT ![3] = <<"LogicalExpression", "or", a[3], b[3]>>]

\* The body is the conjunction of the two bodies, the parameters are a's.
mergeArrowFunction(a, b) == [a EXCEPT ![3] = <<"LogicalExpression", "and", a[3], b[3]>>]
=============================================================================
