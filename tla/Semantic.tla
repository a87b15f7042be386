------------------------------ MODULE Semantic ------------------------------
(***************************************************************************)
(* semantic/graph.go: from the syntax tree of a program (IFQLTree) to the  *)
(* graph that is interpreted and compiled.  Pipes become calls, and every  *)
(* identifier is bound to the declaration that is in scope:                *)
(*   <<"none">>, <<"external", type>> or <<"native", name, init>>.         *)
(* A type is a tuple: its kind, and for an object the types of its         *)
(* properties, for an array its element type, for a function the parameter *)
(* that takes a piped value.                                               *)
(***************************************************************************)
EXTENDS Operators, FiniteSets, SequencesExt

Bad == <<"Bad">>           \* an error of the analysis
Absent == <<"nil">>        \* a nil node
NoDeclaration == <<"none">>
Invalid == <<"Invalid">>
NilType == <<"nil type">>  \* the type of a property the object does not have

\* The node made of parts, unless one of them is an error.
Made(parts, Node(_)) == IF \E i \in DOMAIN parts : parts[i] = Bad THEN Bad ELSE Node(parts)

\* strconv.FormatInt: a number of the model has one digit or two.
FormatInt(n) ==
  LET digit(d) == SubSeq("0123456789", d + 1, d + 1)
  IN  IF n < 10 THEN digit(n) ELSE digit(n \div 10) \o digit(n % 10)

With(f, k, v) == [x \in DOMAIN f \cup {k} |-> IF x = k THEN v ELSE f[x]]

Find(D, name) == IF name \in DOMAIN D THEN D[name] ELSE NoDeclaration

LiteralKind ==
  [IntegerLiteral |-> "Int", FloatLiteral |-> "Float", BooleanLiteral |-> "Bool",
   StringLiteral |-> "String", RegexpLiteral |-> "Regexp", DurationLiteral |-> "Duration",
   DateTimeLiteral |-> "Time", UnsignedIntegerLiteral |-> "UInt"]

-----------------------------------------------------------------------------
(* Types                                                                   *)

PropertyType(t, name) == IF name \in DOMAIN t[2] THEN t[2][name] ELSE NilType

PipeArgument(params) ==
  LET piped == {i \in DOMAIN params : params[i][4]}
  IN  IF piped = {} THEN "" ELSE params[CHOOSE i \in piped : \A j \in piped : i <= j][2]

\* The last property of a name is the one that counts.
ObjectOf(props, Val(_)) ==
  [k \in {props[i][2] : i \in DOMAIN props} |->
     Val(props[CHOOSE i \in DOMAIN props : props[i][2] = k
                 /\ \A j \in DOMAIN props : props[j][2] = k => j <= i][3])]

RECURSIVE TypeOf(_)

\* A call has the type of its callee, an operation that of its argument.
TypeOf(e) ==
  CASE e[1] \in DOMAIN LiteralKind -> <<LiteralKind[e[1]]>>
    [] e[1] = "IdentifierExpression" ->
         (CASE e[3][1] = "none" -> Invalid
            [] e[3][1] = "external" -> e[3][2]
            [] e[3][1] = "native" -> TypeOf(e[3][3]))
    [] e[1] = "FunctionExpression" -> <<"Function", PipeArgument(e[2])>>
    [] e[1] = "CallExpression" -> TypeOf(e[2])
    [] e[1] = "MemberExpression" ->
         LET t == TypeOf(e[2]) IN IF t[1] = "Object" THEN PropertyType(t, e[3]) ELSE Invalid
    [] e[1] = "ObjectExpression" -> <<"Object", ObjectOf(e[2], TypeOf)>>
    [] e[1] = "ArrayExpression" ->
         <<"Array", IF e[2] = <<>> THEN <<"Nil">> ELSE TypeOf(e[2][1])>>
    [] e[1] = "LogicalExpression" -> <<"Bool">>
    [] e[1] = "UnaryExpression" -> TypeOf(e[3])
    [] e[1] = "BinaryExpression" -> <<binaryTypesLookup(e[2], TypeOf(e[3])[1], TypeOf(e[4])[1])>>

\* The declaration behind a chain of identifiers, Bad when one has none.
RECURSIVE resolveDeclaration(_)
resolveDeclaration(e) ==
  CASE e[1] # "IdentifierExpression" -> Bad
    [] e[3][1] = "none" -> Bad
    [] e[3][1] = "external" -> e[3]
    [] e[3][1] = "native" ->
         IF e[3][3][1] = "IdentifierExpression" THEN resolveDeclaration(e[3][3]) ELSE e[3]

InitType(d) == IF d[1] = "external" THEN d[2] ELSE TypeOf(d[3])

-----------------------------------------------------------------------------
(* New declarations for the identifiers that have none                     *)

RECURSIVE Apply(_, _)

ApplyAll(ns, D) == [i \in DOMAIN ns |-> Apply(ns[i], D)]

\* The walk does not go into an identifier's declaration.
Apply(n, D) ==
  CASE n[1] = "IdentifierExpression" ->
         IF n[3] = NoDeclaration THEN [n EXCEPT ![3] = Find(D, n[2])] ELSE n
    [] n[1] \in {"FunctionExpression"} -> [n EXCEPT ![3] = Apply(n[3], D)]
    [] n[1] \in {"BlockStatement", "ObjectExpression", "ArrayExpression"} ->
         [n EXCEPT ![2] = ApplyAll(n[2], D)]
    [] n[1] \in {"ExpressionStatement", "ReturnStatement", "MemberExpression"} ->
         [n EXCEPT ![2] = Apply(n[2], D)]
    [] n[1] \in {"NativeVariableDeclaration", "Property", "UnaryExpression"} ->
         [n EXCEPT ![3] = Apply(n[3], D)]
    [] n[1] \in {"BinaryExpression", "LogicalExpression"} ->
         [n EXCEPT ![3] = Apply(n[3], D), ![4] = Apply(n[4], D)]
    [] n[1] = "CallExpression" ->
         [n EXCEPT ![2] = Apply(n[2], D), ![3] = ApplyAll(n[3], D)]
    [] OTHER -> n

ApplyNewDeclarations(n, D) == IF n = Bad THEN Bad ELSE Apply(n, D)

-----------------------------------------------------------------------------
(* The analysis.  D holds the declarations in scope.                       *)

RECURSIVE analyzeExpression(_, _), analyzeStatements(_, _, _), analyzeParams(_, _, _),
          afterParam(_, _, _, _), afterStatement(_, _, _, _)

analyzeAll(ns, D) == [i \in DOMAIN ns |-> analyzeExpression(ns[i], D)]

analyzeProperty(p, D) ==
  Made(<<analyzeExpression(p[3], D)>>, LAMBDA v : <<"Property", p[2][2], v[1]>>)

analyzeObjectExpression(props, D) == [i \in DOMAIN props |-> analyzeProperty(props[i], D)]

\* A parameter with a default hides an outer declaration of its name; one
\* without default does not.
analyzeParams(params, D, acc) ==
  IF params = <<>> THEN [params |-> acc, D |-> D]
  ELSE LET p == Head(params)
           none == p[3] \in {Absent, <<"PipeLiteral">>}
       IN  afterParam(params, IF none THEN Absent ELSE analyzeExpression(p[3], D), D, acc)

afterParam(params, def, D, acc) ==
  LET p == Head(params)
      name == p[2][2]
      param(v) == <<"FunctionParam", name, def, p[3] = <<"PipeLiteral">>>>
  IN  analyzeParams(Tail(params),
                    IF def = Absent THEN D ELSE With(D, name, <<"native", name, def>>),
                    Append(acc, Made(<<def>>, param)))

\* A block has declarations of its own and ends in a return statement (of an
\* empty one the last statement is looked up at -1, and panics).
analyzeBlockStatement(block, D) ==
  IF block[2] = <<>> THEN Bad
  ELSE IF Last(block[2])[1] # "ReturnStatement" THEN Bad
  ELSE Made(analyzeStatements(block[2], D, <<>>), LAMBDA body : <<"BlockStatement", body>>)

analyzeStatement(s, D) ==
  CASE s[1] = "BlockStatement" -> analyzeBlockStatement(s, D)
    [] s[1] = "VariableDeclaration" ->
         Made(<<analyzeExpression(s[3], D)>>,
              LAMBDA init : <<"NativeVariableDeclaration", s[2][2], init[1]>>)
    [] s[1] \in {"ExpressionStatement", "ReturnStatement"} ->
         Made(<<analyzeExpression(s[2], D)>>, LAMBDA e : <<s[1], e[1]>>)

\* A declaration is in scope from the statement after it on.
analyzeStatements(stmts, D, acc) ==
  IF stmts = <<>> THEN acc
  ELSE afterStatement(Tail(stmts), analyzeStatement(Head(stmts), D), D, acc)

afterStatement(stmts, node, D, acc) ==
  analyzeStatements(stmts,
    IF node[1] = "NativeVariableDeclaration"
      THEN With(D, node[2], <<"native", node[2], node[3]>>) ELSE D,
    Append(acc, node))

\* The body sees the declarations of the parameters, r.
functionOf(body, r) ==
  Made(Append(r.params, IF body[1] = "BlockStatement" THEN analyzeBlockStatement(body, r.D)
                        ELSE analyzeExpression(body, r.D)),
       LAMBDA parts : <<"FunctionExpression", r.params, Last(parts)>>)

analyzeArrowFunctionExpression(arrow, D) ==
  IF Cardinality({i \in DOMAIN arrow[2] : arrow[2][i][3] = <<"PipeLiteral">>}) > 1
  THEN Bad   \* only a single argument may be piped
  ELSE functionOf(arrow[3], analyzeParams(arrow[2], D, <<>>))

\* The arguments become declarations of the callee's undeclared identifiers.
callOf(callee, args, D) ==
  LET argDecls == ObjectOf(args, LAMBDA v : <<"native", "", v>>)
      new == [k \in DOMAIN D \cup DOMAIN argDecls |->
                IF k \in DOMAIN argDecls THEN argDecls[k] ELSE D[k]]
  IN  <<"CallExpression", ApplyNewDeclarations(callee, new), args>>

analyzeCallExpression(call, D) ==
  Made(Append(IF call[3] = Absent THEN <<>> ELSE analyzeObjectExpression(call[3][2], D),
              analyzeExpression(call[2], D)),
       LAMBDA parts : callOf(Last(parts), Front(parts), D))

analyzeMemberExpression(member, D) ==
  IF member[3][1] \notin {"Identifier", "StringLiteral", "IntegerLiteral"} THEN Bad
  ELSE Made(<<analyzeExpression(member[2], D)>>, LAMBDA obj :
         <<"MemberExpression", obj[1],
           IF member[3][1] = "IntegerLiteral" THEN FormatInt(member[3][2]) ELSE member[3][2]>>)

\* The piped value takes the place of an argument of the pipe's name, or
\* becomes the last argument.
pipedCall(call, fnTyp, value) ==
  LET key == fnTyp[2]
      same == {i \in DOMAIN call[3] : call[3][i][2] = key}
      property == <<"Property", key, value>>
  IN  IF fnTyp[1] # "Function" THEN Bad
      ELSE IF key = "" THEN Bad
      ELSE IF same = {} THEN [call EXCEPT ![3] = Append(@, property)]
      ELSE [call EXCEPT ![3][CHOOSE i \in same : \A j \in same : i <= j] = property]

analyzePipeExpression(pipe, D) ==
  Made(<<analyzeCallExpression(pipe[3], D)>>, LAMBDA call :
    Made(<<resolveDeclaration(call[1][2])>>, LAMBDA decl :
      Made(<<analyzeExpression(pipe[2], D)>>, LAMBDA value :
        pipedCall(call[1], InitType(decl[1]), value[1]))))

\* The number of the digits before and after the point.
analyzeFloatLiteral(e) ==
  LET digit(i) == CHOOSE d \in 0..9 : FormatInt(d) = SubSeq(e[3], i, i)
      n == Len(e[3])
      tail == FoldLeft(LAMBDA k, i : 10 * k + digit(i), 0, [i \in 1..n |-> i])
  IN  <<"FloatLiteral">> \o Tail(Fraction(e[2] * 10^n + tail, 10^n))

analyzeOperands(e, D) ==
  Made(analyzeAll(SubSeq(e, 3, Len(e)), D), LAMBDA operands : <<e[1], e[2]>> \o operands)

analyzeExpression(e, D) ==
  CASE e[1] = "ArrowFunctionExpression" -> analyzeArrowFunctionExpression(e, D)
    [] e[1] = "CallExpression" -> analyzeCallExpression(e, D)
    [] e[1] = "MemberExpression" -> analyzeMemberExpression(e, D)
    [] e[1] = "PipeExpression" -> analyzePipeExpression(e, D)
    [] e[1] \in {"BinaryExpression", "LogicalExpression", "UnaryExpression"} -> analyzeOperands(e, D)
    [] e[1] = "ObjectExpression" ->
         Made(analyzeObjectExpression(e[2], D), LAMBDA props : <<"ObjectExpression", props>>)
    [] e[1] = "ArrayExpression" ->
         Made(analyzeAll(e[2], D), LAMBDA elems : <<"ArrayExpression", elems>>)
    [] e[1] = "Identifier" -> <<"IdentifierExpression", e[2], Find(D, e[2])>>
    [] e[1] = "FloatLiteral" -> analyzeFloatLiteral(e)
    [] e[1] \in DOMAIN LiteralKind -> e
    [] OTHER -> Bad   \* a pipe literal, or no expression at all

\* semantic.New: the program's statements, or Bad.
New(prog, D) ==
  Made(analyzeStatements(prog[2], D, <<>>), LAMBDA body : <<"Program", body>>)
=============================================================================
