---------------------------- MODULE IFQLTree ----------------------------
(***************************************************************************)
(* The syntax tree of IFQL (ast/ast.go) and the functions of               *)
(* parser/types.go that the actions of the grammar call to build it.       *)
(*                                                                         *)
(* A node is a tuple whose first component is the name of its Go type.     *)
(* Source locations (BaseNode) are left out.  The functions return a value *)
(* and a set of errors; the panic of a failed type assertion is an error   *)
(* too, because the parser recovers it.  Integers and durations have the   *)
(* bounds MaxInt and MaxSeconds in place of the range of an int64.         *)
(***************************************************************************)
EXTENDS PEGForms, Integers, FiniteSets

CONSTANTS
    MaxInt,        \* the largest int64
    MaxSeconds,    \* the largest number of seconds in a time.Duration
    BadRegexp      \* the patterns that regexp.Compile refuses

Chars(s) == {SubSeq(s, i, i) : i \in 1 .. Len(s)}

Digit == Chars("0123456789")

Upper == "ABCDEFGHIJKLMNOPQRSTUVWXYZ"

Small == "abcdefghijklmnopqrstuvwxyz"

\* The letters of the model, for the Unicode class L.
Letter == Chars(Upper) \cup Chars(Small) \cup {"µ", "μ"}

Lower == [c \in Chars(Upper) |->
             LET i == CHOOSE j \in 1 .. Len(Upper) : SubSeq(Upper, j, j) = c
             IN  SubSeq(Small, i, i)]

Value(v) == [val |-> v, errs |-> {}]

Error(e) == [val |-> Nil, errs |-> {e}]

ExpressionNodes ==
    {"Identifier", "StringLiteral", "BooleanLiteral", "IntegerLiteral", "FloatLiteral",
     "DurationLiteral", "DateTimeLiteral", "RegexpLiteral", "PipeLiteral",
     "MemberExpression", "CallExpression", "PipeExpression", "ArrowFunctionExpression",
     "ObjectExpression", "ArrayExpression", "BinaryExpression", "LogicalExpression",
     "UnaryExpression"}

StatementNodes ==
    {"VariableDeclaration", "ReturnStatement", "ExpressionStatement", "BlockStatement"}

IsExpression(v) == v[1] \in ExpressionNodes

IsStatement(v) == v[1] \in StatementNodes

\* The value r if the type assertions before it succeed.
Asserting(p, r) == IF p THEN Value(r) ELSE Error("panic")

OperatorTokens ==
    {"*", "/", "+", "-", "<=", "<", ">=", ">", "startswith", "in", "not", "not empty",
     "empty", "==", "!=", "=~", "!~"}

LogicalOperatorTokens == {"and", "or"}

\* OperatorLookup(strings.ToLower(text)), of the tokens in T.
Lookup(T, text) ==
    CHOOSE o \in T : /\ Len(o) = Len(text)
                     /\ \A i \in 1 .. Len(o) :
                           LET c == SubSeq(text, i, i)
                           IN  SubSeq(o, i, i) = IF c \in DOMAIN Lower THEN Lower[c] ELSE c

-----------------------------------------------------------------------------
\* Statements

program(body) == Value(<<"Program", body>>)

\* tails are whitespace, statement, whitespace.
srcElems(head, tails) ==
    LET elems == <<head>> \o [i \in 1 .. Len(tails) |-> tails[i][2]]
    IN  Asserting(\A i \in DOMAIN elems : IsStatement(elems[i]), elems)

blockstmt(body) ==
    LET stmts == [i \in 1 .. Len(body) |-> body[i][2]]
    IN  Asserting(\A i \in DOMAIN stmts : IsStatement(stmts[i]), <<"BlockStatement", stmts>>)

varstmt(declaration) == Value(declaration)

\* The one VariableDeclarator of the VariableDeclaration.
vardecl(id, init) == Asserting(IsExpression(init), <<"VariableDeclaration", id, init>>)

exprstmt(expr) == Asserting(IsExpression(expr), <<"ExpressionStatement", expr>>)

returnstmt(argument) == Asserting(IsExpression(argument), <<"ReturnStatement", argument>>)

-----------------------------------------------------------------------------
\* Expressions

RECURSIVE pipeExprs(_, _), memberexprs(_, _), callexprs(_, _), leftFold(_, _, _)

\* Each pipe of the tail takes what precedes it as its argument.
pipeExprs(head, tail) ==
    IF tail = <<>> THEN Value(head)
    ELSE LET pe == tail[1][2]
         IN  IF IsExpression(head)
             THEN pipeExprs(<<"PipeExpression", head, pe[3]>>, Tail(tail))
             ELSE Error("panic")

incompletePipeExpr(call) ==
    Asserting(call[1] = "CallExpression", <<"PipeExpression", Nil, call>>)

memberexprs(head, tail) ==
    IF tail = <<>> THEN Value(head)
    ELSE IF IsExpression(tail[1])
         THEN memberexprs(<<"MemberExpression", head, tail[1]>>, Tail(tail))
         ELSE Error("panic")

\* A property in the tail of a call must be an identifier.
memberexpr(object, property) ==
    Asserting(property \in {Nil} \/ property[1] = "Identifier",
              <<"MemberExpression", object, property>>)

callexpr(callee, args) == Value(<<"CallExpression", callee, args>>)

\* Each call or member of the tail applies to what precedes it (nil is the
\* member whose assertion failed).
callexprs(head, tail) ==
    IF tail = <<>> THEN Value(head)
    ELSE IF tail[1] = Nil THEN Error("panic")
    ELSE callexprs([tail[1] EXCEPT ![2] = head], Tail(tail))

arrowfunc(params, body) ==
    Asserting(body # Nil,
              <<"ArrowFunctionExpression", IF params = Nil THEN <<>> ELSE params, body>>)

objectexpr(first, rest) == Value(<<"ObjectExpression", <<first>> \o rest>>)

\* A parameter without default, or a default without value (the empty array),
\* has no value.
property(key, value) == Value(<<"Property", key, value>>)

identifier(text) == Value(<<"Identifier", text>>)

array(first, rest) ==
    LET elements == (IF first = Nil THEN <<>> ELSE <<first>>) \o rest
    IN  Asserting(\A i \in DOMAIN elements : IsExpression(elements[i]),
                  <<"ArrayExpression", elements>>)

\* res op1 right1 op2 right2 ... associates to the left; an element of tails
\* is whitespace, operator, whitespace, operand.
leftFold(node, head, tails) ==
    IF ~ IsExpression(head) THEN Error("panic")
    ELSE IF tails = <<>> THEN Value(head)
    ELSE IF ~ IsExpression(tails[1][4]) THEN Error("panic")
    ELSE leftFold(node, <<node, tails[1][2], head, tails[1][4]>>, Tail(tails))

logicalExpression(head, tails) == leftFold("LogicalExpression", head, tails)

binaryExpression(head, tails) == leftFold("BinaryExpression", head, tails)

unaryExpression(op, argument) ==
    Asserting(IsExpression(argument), <<"UnaryExpression", op, argument>>)

logicalOp(text) == Value(Lookup(LogicalOperatorTokens, text))

operator(text) == Value(Lookup(OperatorTokens, text))

-----------------------------------------------------------------------------
\* Literals

RECURSIVE Number(_, _), Unescape(_), Units(_), Concat(_), Trimmed(_)

\* The number that the decimal digits of s spell, after acc; it stops above
\* MaxInt, where strconv.ParseInt reports a value out of range.
Number(s, acc) ==
    IF s = "" \/ acc > MaxInt THEN acc
    ELSE LET d == CHOOSE i \in 0 .. 9 : SubSeq("0123456789", i + 1, i + 1) = SubSeq(s, 1, 1)
         IN  Number(IF Len(s) = 1 THEN "" ELSE SubSeq(s, 2, Len(s)), 10 * acc + d)

From(s, i) == IF i > Len(s) THEN "" ELSE SubSeq(s, i, Len(s))

Upto(s, i) == IF i < 1 THEN "" ELSE SubSeq(s, 1, i)

\* The length of the longest prefix of s with all characters in C.
Span(s, C) ==
    CHOOSE n \in 0 .. Len(s) : /\ \A i \in 1 .. n : SubSeq(s, i, i) \in C
                               /\ n < Len(s) => SubSeq(s, n + 1, n + 1) \notin C

\* strconv.Unquote: of the escapes the grammar lets through only \" is left.
Unescape(s) ==
    IF s = "" THEN ""
    ELSE IF Upto(s, 1) = "\\" THEN SubSeq(s, 2, 2) \o Unescape(From(s, 3))
    ELSE Upto(s, 1) \o Unescape(From(s, 2))

stringLiteral(text) == Value(<<"StringLiteral", Unescape(SubSeq(text, 2, Len(text) - 1))>>)

pipeLiteral(text) == Value(<<"PipeLiteral">>)

booleanLiteral(b) == Value(<<"BooleanLiteral", b>>)

integerLiteral(text) ==
    LET n == Number(text, 0)
    IN  IF n > MaxInt THEN Error("value out of range") ELSE Value(<<"IntegerLiteral", n>>)

Trimmed(s) == IF Len(s) > 1 /\ SubSeq(s, Len(s), Len(s)) = "0" THEN Trimmed(Upto(s, Len(s) - 1)) ELSE s

\* strconv.ParseFloat: a float is its integer part and the digits of its
\* fraction without trailing zeros.
numberLiteral(text) ==
    LET n == Span(text, Digit)
    IN  Value(<<"FloatLiteral", Number(Upto(text, n), 0), Trimmed(From(text, n + 2))>>)

Concat(ss) == IF ss = <<>> THEN "" ELSE Head(ss) \o Concat(Tail(ss))

regexLiteral(chars) ==
    LET re == Concat(chars)
    IN  IF re \in BadRegexp THEN Error("error parsing regexp") ELSE Value(<<"RegexpLiteral", re>>)

\* The seconds and nanoseconds of one unit of a duration.
UnitOf(u) ==
    CASE u = "h" -> <<3600, 0>> [] u = "m" -> <<60, 0>> [] u = "s" -> <<1, 0>>
      [] u = "ms" -> <<0, 1000000>> [] u \in {"us", "µs", "μs"} -> <<0, 1000>>
      [] u = "ns" -> <<0, 1>>

\* time.ParseDuration: the sum of number * unit, as seconds and nanoseconds.
Units(s) ==
    IF s = "" THEN <<0, 0>>
    ELSE LET n    == Span(s, Digit)
             m    == Span(From(s, n + 1), Letter)
             k    == Number(Upto(s, n), 0)
             u    == UnitOf(SubSeq(s, n + 1, n + m))
             rest == Units(From(s, n + m + 1))
             ns   == k * u[2] + rest[2]
         IN  <<k * u[1] + rest[1] + (ns \div 1000000000), ns % 1000000000>>

durationLiteral(text) ==
    LET d == Units(text)
    IN  IF d[1] > MaxSeconds THEN Error("invalid duration")
        ELSE Value(<<"DurationLiteral", d[1], d[2]>>)

DaysIn(y, m) ==
    CASE m \in {4, 6, 9, 11} -> 30
      [] m = 2 -> IF y % 4 = 0 /\ (y % 100 # 0 \/ y % 400 = 0) THEN 29 ELSE 28
      [] OTHER -> 31

\* time.Parse of an RFC3339 text with the shape the grammar asks for.
datetime(text) ==
    LET f(i, j) == Number(SubSeq(text, i, j), 0)
        y == f(1, 4)  mo == f(6, 7)  d == f(9, 10)
        h == f(12, 13)  mi == f(15, 16)  s == f(18, 19)
    IN  IF mo \in 1 .. 12 /\ d \in 1 .. DaysIn(y, mo) /\ h < 24 /\ mi < 60 /\ s < 60
        THEN Value(<<"DateTimeLiteral", <<y, mo, d, h, mi, s>>, From(text, 20)>>)
        ELSE Error("out of range")
=========================================================================
