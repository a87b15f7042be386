--------------------------- MODULE IFQLGrammar --------------------------
(***************************************************************************)
(* The grammar table of parser/ifql.go with the callbacks of its actions,  *)
(* and the parser it defines.  One definition per rule; what the generator *)
(* has inlined at every use (whitespace, identifiers, the literals, which  *)
(* occur in Primary and again in PipeExpressionHead) is defined once.      *)
(***************************************************************************)
EXTENDS IFQLTree

\* Whitespace and comments.  A comment ends with a newline, so one on the last
\* line of a text that has no newline is not a comment.
Gap ==
    zeroOrMoreExpr(choiceExpr(<<
        charClassMatcher(Chars(" \t\r\n")),
        seqExpr(<<litMatcher("//"), zeroOrMoreExpr(charClassMatcherInverted(Chars("\r\n"))),
                  litMatcher("\n")>>)>>))

Identifier ==
    actionExpr("identifier",
        seqExpr(<<charClassMatcher(Letter \cup {"_"}),
                  zeroOrMoreExpr(charClassMatcher(Letter \cup Digit \cup {"_"}))>>))

StartRule ==
    actionExpr("onStart1",
        seqExpr(<<Gap, labeledExpr("program", ruleRefExpr("Program")), Gap, notExpr(anyMatcher)>>))

Program == actionExpr("program", labeledExpr("body", ruleRefExpr("SourceElements")))

SourceElements ==
    actionExpr("srcElems",
        seqExpr(<<labeledExpr("head", ruleRefExpr("SourceElement")),
                  labeledExpr("tail", zeroOrMoreExpr(
                      seqExpr(<<Gap, ruleRefExpr("SourceElement"), Gap>>)))>>))

SourceElement == ruleRefExpr("Statement")

Statement ==
    choiceExpr(<<ruleRefExpr("VariableStatement"), ruleRefExpr("ReturnStatement"),
                 ruleRefExpr("ExpressionStatement"), ruleRefExpr("BlockStatement")>>)

VariableStatement ==
    actionExpr("varstmt", labeledExpr("declaration", ruleRefExpr("VariableDeclaration")))

ReturnStatement ==
    actionExpr("returnstmt",
        seqExpr(<<litMatcher("return"), Gap, labeledExpr("argument", ruleRefExpr("Expr"))>>))

ExpressionStatement == actionExpr("exprstmt", labeledExpr("expr", ruleRefExpr("Expr")))

BlockStatement ==
    actionExpr("blockstmt",
        seqExpr(<<litMatcher("{"), Gap,
                  labeledExpr("body", zeroOrMoreExpr(
                      seqExpr(<<Gap, ruleRefExpr("Statement"), Gap>>))),
                  Gap, litMatcher("}")>>))

VariableDeclaration ==
    actionExpr("vardecl",
        seqExpr(<<labeledExpr("id", Identifier), Gap, litMatcher("="), Gap,
                  labeledExpr("init", ruleRefExpr("Expr"))>>))

MemberExpressions ==
    actionExpr("memberexprs",
        seqExpr(<<labeledExpr("head", Identifier),
                  labeledExpr("tail", zeroOrMoreExpr(actionExpr("property value",
                      seqExpr(<<Gap, labeledExpr("property",
                                     ruleRefExpr("MemberExpressionProperty"))>>))))>>))

MemberExpressionProperty ==
    choiceExpr(<<
        actionExpr("property value",
            seqExpr(<<litMatcher("."), Gap, labeledExpr("property", Identifier)>>)),
        actionExpr("property value",
            seqExpr(<<litMatcher("["), Gap, labeledExpr("property", ruleRefExpr("Primary")),
                      Gap, litMatcher("]"), Gap>>))>>)

CallExpression ==
    actionExpr("callexprs",
        seqExpr(<<
            labeledExpr("head", actionExpr("callexpr",
                seqExpr(<<labeledExpr("callee", ruleRefExpr("MemberExpressions")), Gap,
                          labeledExpr("args", ruleRefExpr("Arguments"))>>))),
            labeledExpr("tail", zeroOrMoreExpr(choiceExpr(<<
                actionExpr("callexpr of nil",
                    seqExpr(<<Gap, labeledExpr("args", ruleRefExpr("Arguments"))>>)),
                actionExpr("memberexpr of nil",
                    seqExpr(<<Gap, labeledExpr("property",
                                   ruleRefExpr("MemberExpressionProperty"))>>))>>)))>>))

PipeExpression ==
    actionExpr("pipeExprs",
        seqExpr(<<labeledExpr("head", ruleRefExpr("PipeExpressionHead")), Gap,
                  labeledExpr("tail", oneOrMoreExpr(
                      seqExpr(<<Gap, ruleRefExpr("PipeExpressionPipe"), Gap>>)))>>))

-----------------------------------------------------------------------------
\* Literals

\* A backslash is followed by a quote, or by anything with an error.
StringChars ==
    zeroOrMoreExpr(choiceExpr(<<
        seqExpr(<<notExpr(charClassMatcher({"\"", "\\", "\n"})), anyMatcher>>),
        seqExpr(<<litMatcher("\\"), choiceExpr(<<
            litMatcher("\""),
            actionExpr("invalid escape character",
                choiceExpr(<<anyMatcher, litMatcher("\n"), notExpr(anyMatcher)>>))>>)>>)>>))

StringLiteral ==
    actionExpr("stringLiteral", seqExpr(<<litMatcher("\""), StringChars, litMatcher("\"")>>))

OpenString ==
    actionExpr("string literal not terminated",
        seqExpr(<<litMatcher("\""), StringChars,
                  choiceExpr(<<litMatcher("\n"), notExpr(anyMatcher)>>)>>))

TrueLiteral == actionExpr("true", seqExpr(<<Gap, litMatcher("true"), Gap>>))

FalseLiteral == actionExpr("false", seqExpr(<<Gap, litMatcher("false"), Gap>>))

RegexpChar == actionExpr("text", seqExpr(<<notExpr(charClassMatcher(Chars("\n\r"))), anyMatcher>>))

RegexpLiteral ==
    actionExpr("pattern", seqExpr(<<
        litMatcher("/"),
        labeledExpr("pattern", actionExpr("regexLiteral", labeledExpr("chars", oneOrMoreExpr(
            choiceExpr(<<
                actionExpr("re", seqExpr(<<notExpr(charClassMatcher({"\\", "/"})),
                                           labeledExpr("re", RegexpChar)>>)),
                actionExpr("slash", litMatcher("\\/")),
                actionExpr("text", seqExpr(<<litMatcher("\\"), RegexpChar>>))>>))))),
        litMatcher("/")>>))

PipeLiteral == actionExpr("pipeLiteral", litMatcher("<-"))

ADigit == charClassMatcher(Digit)

Integer ==
    choiceExpr(<<litMatcher("0"),
                 seqExpr(<<charClassMatcher(Digit \ {"0"}), zeroOrMoreExpr(ADigit)>>)>>)

DurationLiteral ==
    actionExpr("durationLiteral", oneOrMoreExpr(seqExpr(<<
        Integer,
        choiceExpr(<<litMatcher("ns"), litMatcher("us"), litMatcher("µs"), litMatcher("μs"),
                     litMatcher("ms"), charClassMatcher(Chars("smh"))>>)>>)))

\* yyyy-mm-ddThh:mm:ss
DateAndTime ==
    <<ADigit, ADigit, ADigit, ADigit, litMatcher("-"), ADigit, ADigit, litMatcher("-"),
      ADigit, ADigit, litMatcher("T"), ADigit, ADigit, litMatcher(":"), ADigit, ADigit,
      litMatcher(":"), ADigit, ADigit>>

DateTimeLiteral ==
    actionExpr("datetime", seqExpr(DateAndTime \o <<
        zeroOrOneExpr(seqExpr(<<litMatcher("."), oneOrMoreExpr(ADigit)>>)),
        choiceExpr(<<litMatcher("Z"),
                     seqExpr(<<charClassMatcher(Chars("+-")), ADigit, ADigit, litMatcher(":"),
                               ADigit, ADigit>>)>>)>>))

NumberLiteral ==
    actionExpr("numberLiteral", seqExpr(<<Integer, litMatcher("."), oneOrMoreExpr(ADigit)>>))

IntegerLiteral == actionExpr("integerLiteral", Integer)

Literals ==
    <<StringLiteral, OpenString, TrueLiteral, FalseLiteral, RegexpLiteral, PipeLiteral,
      DurationLiteral, DateTimeLiteral, NumberLiteral, IntegerLiteral>>

PipeExpressionHead ==
    choiceExpr(<<ruleRefExpr("CallExpression")>> \o Literals \o
               <<ruleRefExpr("Array"), ruleRefExpr("MemberExpressions"), Identifier,
                 ruleRefExpr("ObjectExpression"), ruleRefExpr("ArrowFunctionExpression"),
                 ruleRefExpr("Parens")>>)

PipeExpressionPipe ==
    actionExpr("incompletePipeExpr",
        seqExpr(<<litMatcher("|>"), Gap, labeledExpr("call", ruleRefExpr("CallExpression"))>>))

-----------------------------------------------------------------------------
\* Functions, objects, arrays

Arguments ==
    actionExpr("args",
        seqExpr(<<litMatcher("("), Gap,
                  labeledExpr("args", zeroOrOneExpr(ruleRefExpr("ObjectProperties"))),
                  Gap, litMatcher(")")>>))

ArrowFunctionExpression ==
    actionExpr("arrowfunc",
        seqExpr(<<litMatcher("("), Gap,
                  labeledExpr("params", zeroOrOneExpr(ruleRefExpr("ArrowFunctionParams"))),
                  Gap, litMatcher(")"), Gap, litMatcher("=>"), Gap,
                  labeledExpr("body", ruleRefExpr("ArrowFunctionBody")), Gap>>))

ArrowFunctionParams ==
    actionExpr("params",
        seqExpr(<<labeledExpr("first", ruleRefExpr("ArrowFunctionParam")), Gap,
                  labeledExpr("rest", zeroOrMoreExpr(ruleRefExpr("ArrowFunctionParamsRest"))),
                  zeroOrOneExpr(litMatcher(","))>>))

ArrowFunctionParamsRest ==
    actionExpr("arg",
        seqExpr(<<litMatcher(","), Gap, labeledExpr("arg", ruleRefExpr("ArrowFunctionParam")),
                  Gap>>))

ArrowFunctionParam ==
    choiceExpr(<<
        actionExpr("property",
            seqExpr(<<labeledExpr("key", Identifier), Gap, litMatcher("="), Gap,
                      labeledExpr("value", ruleRefExpr("Primary")), Gap>>)),
        actionExpr("property of nil", seqExpr(<<labeledExpr("key", Identifier), Gap>>))>>)

ArrowFunctionBody ==
    choiceExpr(<<actionExpr("body", labeledExpr("body", ruleRefExpr("Expr"))),
                 actionExpr("body", labeledExpr("body", ruleRefExpr("BlockStatement")))>>)

ObjectExpression ==
    actionExpr("object",
        seqExpr(<<litMatcher("{"), Gap,
                  labeledExpr("object", zeroOrOneExpr(ruleRefExpr("ObjectProperties"))),
                  Gap, litMatcher("}")>>))

ObjectProperties ==
    actionExpr("objectexpr",
        seqExpr(<<labeledExpr("first", ruleRefExpr("Property")), Gap,
                  labeledExpr("rest", zeroOrMoreExpr(ruleRefExpr("PropertiesRest"))), Gap,
                  zeroOrOneExpr(litMatcher(","))>>))

PropertiesRest ==
    actionExpr("arg",
        seqExpr(<<litMatcher(","), Gap, labeledExpr("arg", ruleRefExpr("Property"))>>))

Property ==
    actionExpr("property",
        seqExpr(<<labeledExpr("key", Identifier), Gap, litMatcher(":"), Gap,
                  labeledExpr("value", ruleRefExpr("Expr"))>>))

-----------------------------------------------------------------------------
\* Operators, from the loosest to the tightest

Expr == ruleRefExpr("LogicalExpression")

\* head (op operand)*
Infix(run, op, operand) ==
    actionExpr(run,
        seqExpr(<<labeledExpr("head", ruleRefExpr(operand)),
                  labeledExpr("tail", zeroOrMoreExpr(
                      seqExpr(<<Gap, op, Gap, ruleRefExpr(operand)>>)))>>))

LogicalExpression ==
    Infix("logicalExpression",
          actionExpr("logicalOp", choiceExpr(<<litMatcherI("or"), litMatcherI("and")>>)),
          "Equality")

Equality ==
    Infix("binaryExpression",
          actionExpr("operator", choiceExpr(<<litMatcher("=="), litMatcher("!="),
                                              litMatcher("=~"), litMatcher("!~")>>)),
          "Relational")

Relational ==
    Infix("binaryExpression",
          actionExpr("operator", choiceExpr(<<
              litMatcher("<="), litMatcher("<"), litMatcher(">="), litMatcher(">"),
              litMatcherI("startswith"), litMatcherI("in"), litMatcherI("not empty"),
              litMatcherI("empty")>>)),
          "Additive")

Additive ==
    Infix("binaryExpression", actionExpr("operator", charClassMatcher(Chars("+-"))),
          "Multiplicative")

\* A mutant: all arithmetic on one level.
MultiplicativeToo ==
    Infix("binaryExpression", actionExpr("operator", charClassMatcher(Chars("+-*/"))),
          "UnaryExpression")

Multiplicative ==
    Infix("binaryExpression", actionExpr("operator", charClassMatcher(Chars("*/"))),
          "UnaryExpression")

UnaryExpression ==
    choiceExpr(<<
        actionExpr("unaryExpression",
            seqExpr(<<Gap, labeledExpr("op", actionExpr("operator",
                                choiceExpr(<<litMatcher("-"), litMatcher("not")>>))),
                      Gap, labeledExpr("argument", ruleRefExpr("Primary")), Gap>>)),
        ruleRefExpr("Primary")>>)

Primary ==
    choiceExpr(<<ruleRefExpr("PipeExpression"), ruleRefExpr("Array")>> \o Literals \o
               <<ruleRefExpr("CallExpression"), ruleRefExpr("MemberExpressions"), Identifier,
                 ruleRefExpr("ObjectExpression"), ruleRefExpr("ArrowFunctionExpression"),
                 ruleRefExpr("Parens")>>)

Parens ==
    actionExpr("expr",
        seqExpr(<<litMatcher("("), Gap, labeledExpr("expr", ruleRefExpr("Expr")), Gap,
                  litMatcher(")")>>))

Array ==
    actionExpr("elements",
        seqExpr(<<litMatcher("["), Gap,
                  labeledExpr("elements", zeroOrOneExpr(ruleRefExpr("ArrayElements"))), Gap,
                  litMatcher("]")>>))

ArrayElements ==
    actionExpr("array",
        seqExpr(<<labeledExpr("first", ruleRefExpr("Primary")), Gap,
                  labeledExpr("rest", zeroOrMoreExpr(ruleRefExpr("ArrayRest")))>>))

ArrayRest ==
    actionExpr("element",
        seqExpr(<<litMatcher(","), Gap, labeledExpr("element", ruleRefExpr("Primary"))>>))

Rules ==
    [Start |-> StartRule, Program |-> Program, SourceElements |-> SourceElements,
     SourceElement |-> SourceElement, Statement |-> Statement,
     VariableStatement |-> VariableStatement, ReturnStatement |-> ReturnStatement,
     ExpressionStatement |-> ExpressionStatement, BlockStatement |-> BlockStatement,
     VariableDeclaration |-> VariableDeclaration, MemberExpressions |-> MemberExpressions,
     MemberExpressionProperty |-> MemberExpressionProperty, CallExpression |-> CallExpression,
     PipeExpression |-> PipeExpression, PipeExpressionHead |-> PipeExpressionHead,
     PipeExpressionPipe |-> PipeExpressionPipe, Arguments |-> Arguments,
     ArrowFunctionExpression |-> ArrowFunctionExpression,
     ArrowFunctionParams |-> ArrowFunctionParams,
     ArrowFunctionParamsRest |-> ArrowFunctionParamsRest,
     ArrowFunctionParam |-> ArrowFunctionParam, ArrowFunctionBody |-> ArrowFunctionBody,
     ObjectExpression |-> ObjectExpression, ObjectProperties |-> ObjectProperties,
     PropertiesRest |-> PropertiesRest, Property |-> Property, Expr |-> Expr,
     LogicalExpression |-> LogicalExpression, Equality |-> Equality,
     Relational |-> Relational, Additive |-> Additive, Multiplicative |-> Multiplicative,
     UnaryExpression |-> UnaryExpression, Primary |-> Primary, Parens |-> Parens,
     Array |-> Array, ArrayElements |-> ArrayElements, ArrayRest |-> ArrayRest]

-----------------------------------------------------------------------------
\* The callbacks of the actions, in the order of the file.

RunStatement(run, l) ==
    CASE run = "onStart1"   -> Value(l.program)
      [] run = "program"    -> program(l.body)
      [] run = "srcElems"   -> srcElems(l.head, l.tail)
      [] run = "varstmt"    -> varstmt(l.declaration)
      [] run = "returnstmt" -> returnstmt(l.argument)
      [] run = "exprstmt"   -> exprstmt(l.expr)
      [] run = "blockstmt"  -> blockstmt(l.body)
      [] run = "vardecl"    -> vardecl(l.id, l.init)

RunMember(run, l) ==
    CASE run = "memberexprs"       -> memberexprs(l.head, l.tail)
      [] run = "property value"    -> Value(l.property)
      [] run = "callexpr"          -> callexpr(l.callee, l.args)
      [] run = "callexpr of nil"   -> callexpr(Nil, l.args)
      [] run = "memberexpr of nil" -> memberexpr(Nil, l.property)
      [] run = "callexprs"         -> callexprs(l.head, l.tail)
      [] run = "pipeExprs"         -> pipeExprs(l.head, l.tail)

RunString(run, l, text) ==
    CASE run = "invalid escape character"      -> Error(run)
      [] run = "stringLiteral"                 -> stringLiteral(text)
      [] run = "string literal not terminated" -> Error(run)
      [] run = "true"         -> booleanLiteral(TRUE)
      [] run = "false"        -> booleanLiteral(FALSE)
      [] run = "text"         -> Value(text)
      [] run = "re"           -> Value(l.re)
      [] run = "slash"        -> Value("/")
      [] run = "regexLiteral" -> regexLiteral(l.chars)
      [] run = "pattern"      -> Value(l.pattern)

RunLiteral(run, text) ==
    CASE run = "pipeLiteral"     -> pipeLiteral(text)
      [] run = "durationLiteral" -> durationLiteral(text)
      [] run = "datetime"        -> datetime(text)
      [] run = "numberLiteral"   -> numberLiteral(text)
      [] run = "integerLiteral"  -> integerLiteral(text)
      [] run = "identifier"      -> identifier(text)

RunFunction(run, l) ==
    CASE run = "incompletePipeExpr" -> incompletePipeExpr(l.call)
      [] run = "args"            -> Value(l.args)
      [] run = "arrowfunc"       -> arrowfunc(l.params, l.body)
      [] run = "params"          -> Value(<<l.first>> \o l.rest)
      [] run = "arg"             -> Value(l.arg)
      [] run = "property"        -> property(l.key, l.value)
      [] run = "property of nil" -> property(l.key, Nil)
      [] run = "body"            -> Value(l.body)
      [] run = "object"          -> Value(l.object)
      [] run = "objectexpr"      -> objectexpr(l.first, l.rest)

RunOperator(run, l, text) ==
    CASE run = "logicalOp"         -> logicalOp(text)
      [] run = "operator"          -> operator(text)
      [] run = "logicalExpression" -> logicalExpression(l.head, l.tail)
      [] run = "binaryExpression"  -> binaryExpression(l.head, l.tail)
      [] run = "unaryExpression"   -> unaryExpression(l.op, l.argument)

RunElement(run, l) ==
    CASE run = "expr"     -> Value(l.expr)
      [] run = "elements" -> Value(l.elements)
      [] run = "array"    -> array(l.first, l.rest)
      [] run = "element"  -> Value(l.element)

RunAction(run, l, text) ==
    CASE run \in {"onStart1", "program", "srcElems", "varstmt", "returnstmt", "exprstmt",
                  "blockstmt", "vardecl"} -> RunStatement(run, l)
      [] run \in {"memberexprs", "property value", "callexpr", "callexpr of nil",
                  "memberexpr of nil", "callexprs", "pipeExprs"} -> RunMember(run, l)
      [] run \in {"pipeLiteral", "durationLiteral", "datetime", "numberLiteral",
                  "integerLiteral", "identifier"} -> RunLiteral(run, text)
      [] run \in {"incompletePipeExpr", "args", "arrowfunc", "params", "arg", "property",
                  "property of nil", "body", "object", "objectexpr"} -> RunFunction(run, l)
      [] run \in {"logicalOp", "operator", "logicalExpression", "binaryExpression",
                  "unaryExpression"} -> RunOperator(run, l, text)
      [] run \in {"expr", "elements", "array", "element"} -> RunElement(run, l)
      [] OTHER -> RunString(run, l, text)

Engine ==
    INSTANCE PEG WITH Start <- "Start", Steps <- <<"Primary", "Expr", "Statement">>,
                      Run <- RunAction

\* NewAST: the syntax tree of a text, read with its table.
NewAST(T, text) == Engine!parse(T, text)
=========================================================================
