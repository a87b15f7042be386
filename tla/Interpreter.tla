----------------------------- MODULE Interpreter -----------------------------
(***************************************************************************)
(* interpreter/interpreter.go and query/compile.go: the evaluation of a    *)
(* semantic graph, which calls the functions that add operations to a      *)
(* query, and the query.Spec that comes of them.                           *)
(*                                                                         *)
(* The evaluation is a function of a machine m:                            *)
(*   scopes  the scopes made so far: [parent, values, return]; scope 1 is  *)
(*           the builtin one, and a parent of 0 is nil                     *)
(*   ops     the operations of the queryDomain, in order of creation       *)
(*   id      its counter of IDs                                            *)
(*   err     "", "error" or "panic"                                        *)
(* and gives a value and a machine.  Values are those of Numbers.tla and   *)
(* functions <<"Function", e, scope>>, <<"Builtin", name>>, arrays, objects*)
(* and tables: <<"Table", i>> is the result of the i-th operation.         *)
(***************************************************************************)
EXTENDS Semantic

NoValue == <<"Invalid">>
Result(v, m) == [v |-> v, m |-> m]
Fails(m) == Result(NoValue, [m EXCEPT !.err = "error"])
Panics(m) == Result(NoValue, [m EXCEPT !.err = "panic"])

\* The rest K of a computation, unless the first part failed.
Then(r, K(_, _)) == IF r.m.err # "" THEN r ELSE K(r.v, r.m)

-----------------------------------------------------------------------------
(* Scopes                                                                  *)

NewScope(parent) == [parent |-> parent, values |-> [x \in {} |-> x], return |-> NoValue]

RECURSIVE Lookup(_, _, _)
Lookup(m, s, name) ==
  IF s = 0 THEN NoValue
  ELSE IF name \in DOMAIN m.scopes[s].values THEN m.scopes[s].values[name]
  ELSE Lookup(m, m.scopes[s].parent, name)

Set(m, s, name, v) == [m EXCEPT !.scopes[s].values = With(@, name, v)]

SetReturn(m, s, v) == [m EXCEPT !.scopes[s].return = v]

Nest(m, s) == [m EXCEPT !.scopes = Append(@, NewScope(s))]

-----------------------------------------------------------------------------
(* Values                                                                  *)

RECURSIVE ValueType(_)
ValueType(v) ==
  CASE v[1] \in {"Function", "Builtin"} -> <<"Function">>
    [] v[1] = "Array" -> <<"Array", v[2]>>
    [] v[1] = "Object" -> <<"Object", [k \in DOMAIN v[2] |-> ValueType(v[2][k])]>>
    [] v[1] = "Table" -> <<"Table">>
    [] OTHER -> <<v[1]>>

\* A table is an object with the type TableObjectType.
Kind(v) == IF v[1] = "Table" THEN "Object" ELSE ValueType(v)[1]

doLiteral(e) == <<LiteralKind[e[1]]>> \o Tail(e)

Property(v, name, m) ==
  CASE v[1] = "Object" /\ name \in DOMAIN v[2] -> Result(v[2][name], m)
    [] v[1] = "Array" /\ \E i \in DOMAIN v[3] : FormatInt(i - 1) = name ->
         Result(v[3][CHOOSE i \in DOMAIN v[3] : FormatInt(i - 1) = name], m)
    [] OTHER -> Fails(m)

doUnary(op, v, m) ==
  CASE op = "not" /\ v[1] = "Bool" -> Result(NewBoolValue(~v[2]), m)
    [] op = "-" /\ v[1] = "Int" -> Result(NewIntValue(-v[2]), m)
    [] op = "-" /\ v[1] = "Float" -> Result(FloatNegate(v), m)
    [] op = "-" /\ v[1] = "Duration" -> Result(<<"Duration", -v[2], -v[3]>>, m)
    [] OTHER -> Fails(m)

doBinary(op, l, r, m) ==
  LET v == binaryFuncLookup(op, l, r)
  IN  IF v = NoFunc THEN Fails(m) ELSE IF v = Panic THEN Panics(m) ELSE Result(v, m)

-----------------------------------------------------------------------------
(* Resolve: a function of which nothing but its parameters is free         *)

RECURSIVE resolveIdentifiers(_, _, _, _), resolveValue(_, _)

resolveAll(ns, ps, s, m) == [i \in DOMAIN ns |-> resolveIdentifiers(ns[i], ps, s, m)]

\* The graph of function ps in scope s with the values of its free identifiers
\* in their place; neither a callee nor the object of a member is looked at.
resolveIdentifiers(n, ps, s, m) ==
  LET re(k) == resolveIdentifiers(k, ps, s, m)
  IN
  CASE n[1] = "IdentifierExpression" ->
         IF n[2] \in ps THEN n
         ELSE LET v == Lookup(m, s, n[2]) IN IF v = NoValue THEN Bad ELSE resolveValue(v, m)
    [] n[1] \in {"BlockStatement", "ArrayExpression", "ObjectExpression"} ->
         Made(resolveAll(n[2], ps, s, m), LAMBDA ks : <<n[1], ks>>)
    [] n[1] \in {"ExpressionStatement", "ReturnStatement"} ->
         Made(<<re(n[2])>>, LAMBDA k : <<n[1], k[1]>>)
    [] n[1] \in {"NativeVariableDeclaration", "Property", "UnaryExpression", "FunctionExpression"} ->
         Made(<<re(n[3])>>, LAMBDA k : <<n[1], n[2], k[1]>>)
    [] n[1] = "CallExpression" ->
         Made(resolveAll(n[3], ps, s, m), LAMBDA ks : <<n[1], n[2], ks>>)
    [] n[1] \in {"BinaryExpression", "LogicalExpression"} ->
         Made(<<re(n[3]), re(n[4])>>, LAMBDA k : <<n[1], n[2], k[1], k[2]>>)
    [] OTHER -> n

Params(f) == {f[2][i][2] : i \in DOMAIN f[2]}

\* arrowFunc.Resolve; a builtin function cannot be resolved.
Resolve(v, m) == IF v[1] = "Function" THEN resolveIdentifiers(v[2], Params(v[2]), v[3], m) ELSE Bad

Literal == [k \in {LiteralKind[n] : n \in DOMAIN LiteralKind} |->
              CHOOSE n \in DOMAIN LiteralKind : LiteralKind[n] = k]

\* The type of an array or an object is a pointer and never equal to the kinds
\* Array and Object, so that the cases for them are not taken.
resolveValue(v, m) ==
  CASE v[1] \in DOMAIN Literal -> <<Literal[v[1]]>> \o Tail(v)
    [] v[1] \in {"Function", "Builtin"} -> Resolve(v, m)
    [] OTHER -> Bad

-----------------------------------------------------------------------------
(* The builtin functions: functions/*.go                                   *)

Required(args, name, kind) == name \in DOMAIN args /\ Kind(args[name]) = kind

Optional(args, name, kind) == name \in DOMAIN args => Kind(args[name]) = kind

OptionalStrings(args, name) ==
  name \in DOMAIN args => args[name][1] = "Array" /\ args[name][2] = <<"String">>

\* AddParentFromArgs: an object that is not a table is refused.
HasTable(args) == "table" \in DOMAIN args /\ args.table[1] = "Table"

\* An operation's parents and what the planner needs of its arguments.
Spec(parents, arg) == <<"Spec", parents, arg>>

IsTime(v) == v[1] \in {"Time", "Duration", "Int"}

ToQueryTime(v) == IF v[1] = "Duration" THEN <<"relative", v[2]>> ELSE <<"absolute", v[2]>>

createFromOpSpec(args) ==
  IF Required(args, "db", "String") /\ OptionalStrings(args, "hosts") THEN Spec({}, NoValue) ELSE Bad

\* The stop time is now unless given.
createRangeOpSpec(args) ==
  IF HasTable(args) /\ "start" \in DOMAIN args /\ IsTime(args.start)
     /\ ("stop" \in DOMAIN args => IsTime(args.stop))
  THEN Spec({args.table[2]},
            [Start |-> ToQueryTime(args.start),
             Stop |-> IF "stop" \in DOMAIN args THEN ToQueryTime(args.stop) ELSE <<"relative", 0>>])
  ELSE Bad

\* filter and map: the function is resolved when the operation is made.
createFnOpSpec(args, m) ==
  IF HasTable(args) /\ Required(args, "fn", "Function") /\ Resolve(args.fn, m) # Bad
  THEN Spec({args.table[2]}, Resolve(args.fn, m)) ELSE Bad

createLimitOpSpec(args) ==
  IF HasTable(args) /\ Required(args, "n", "Int") THEN Spec({args.table[2]}, args.n[2]) ELSE Bad

createGroupOpSpec(args) ==
  IF /\ HasTable(args)
     /\ \A k \in {"by", "keep", "except"} : OptionalStrings(args, k)
     /\ ~({"by", "except"} \subseteq DOMAIN args)
  THEN Spec({args.table[2]}, NoValue) ELSE Bad

createSumOpSpec(args) == IF HasTable(args) THEN Spec({args.table[2]}, NoValue) ELSE Bad

createFirstOpSpec(args) ==
  IF HasTable(args) /\ Optional(args, "column", "String") /\ Optional(args, "useRowTime", "Bool")
  THEN Spec({args.table[2]}, NoValue) ELSE Bad

createYieldOpSpec(args) ==
  IF HasTable(args) /\ Optional(args, "name", "String")
  THEN Spec({args.table[2]}, IF "name" \in DOMAIN args THEN args.name[2] ELSE "_result") ELSE Bad

\* The tables are an object whose properties are tables.
createJoinOpSpec(args, m) ==
  LET tables == IF "tables" \in DOMAIN args THEN args.tables[2] ELSE <<>>
  IN  IF /\ Required(args, "fn", "Function") /\ Resolve(args.fn, m) # Bad
         /\ OptionalStrings(args, "on")
         /\ "tables" \in DOMAIN args => args.tables[1] = "Object"
                                        /\ \A k \in DOMAIN tables : tables[k][1] = "Table"
      THEN Spec({tables[k][2] : k \in DOMAIN tables}, NoValue) ELSE Bad

\* The arguments that a function reads.
Reads ==
  [from |-> {"db", "hosts"}, range |-> {"table", "start", "stop"}, filter |-> {"table", "fn"},
   map |-> {"table", "fn"}, limit |-> {"table", "n"}, group |-> {"table", "by", "keep", "except"},
   sum |-> {"table"}, count |-> {"table"}, first |-> {"table", "column", "useRowTime"},
   last |-> {"table", "column", "useRowTime"}, yield |-> {"table", "name"},
   join |-> {"fn", "on", "tables"}]

createOpSpec(name, args, m) ==
  CASE name = "from" -> createFromOpSpec(args)
    [] name = "range" -> createRangeOpSpec(args)
    [] name \in {"filter", "map"} -> createFnOpSpec(args, m)
    [] name = "limit" -> createLimitOpSpec(args)
    [] name = "group" -> createGroupOpSpec(args)
    [] name \in {"sum", "count"} -> createSumOpSpec(args)
    [] name \in {"first", "last"} -> createFirstOpSpec(args)
    [] name = "yield" -> createYieldOpSpec(args)
    [] name = "join" -> createJoinOpSpec(args, m)

\* RegisterFunction: of the builtins all but from and join take a piped table.
builtinDeclarations ==
  [n \in DOMAIN Reads |-> <<"external", <<"Function", IF n \in {"from", "join"} THEN "" ELSE "table">>>>]

Alphabet == "0123456789abcdefghijklmnopqrstuvwxyz"

IDLess(a, b) ==
  LET rank(s, i) == CHOOSE r \in 1..Len(Alphabet) : SubSeq(Alphabet, r, r) = SubSeq(s, i, i)
      common(n) == \A i \in 1..n : SubSeq(a, i, i) = SubSeq(b, i, i)
  IN  \E n \in 0..Len(a) : n < Len(b) /\ common(n) /\ (n = Len(a) \/ rank(a, n + 1) < rank(b, n + 1))

\* function.Call: the ID is taken before the arguments are read, and the
\* parents are put in the order of their IDs.
builtinCall(name, args, m) ==
  LET id == name \o FormatInt(m.id)
      spec == createOpSpec(name, args, m)
      parents == SetToSortSeq({m.ops[i].ID : i \in spec[2]}, IDLess)
      m1 == [m EXCEPT !.id = @ + 1]
  IN  IF spec = Bad THEN Fails(m1)
      ELSE Result(<<"Table", Len(m.ops) + 1>>,
                  [m1 EXCEPT !.ops = Append(@, [ID |-> id, kind |-> name, parents |-> parents,
                                               arg |-> spec[3]])])

-----------------------------------------------------------------------------
(* Evaluation                                                              *)

RECURSIVE doExpression(_, _, _), doAll(_, _, _, _), doStatement(_, _, _), doBlock(_, _, _),
          setParams(_, _, _, _), setParamsDefault(_, _, _, _)

\* The values of expressions, from left to right.
doAll(es, s, m, vs) ==
  IF es = <<>> THEN Result(vs, m)
  ELSE Then(doExpression(Head(es), s, m), LAMBDA v, m1 : doAll(Tail(es), s, m1, Append(vs, v)))

doArray(e, s, m) ==
  Then(doAll(e[2], s, m, <<>>), LAMBDA vs, m1 :
    IF \E i \in DOMAIN vs : ValueType(vs[i]) # ValueType(vs[1]) THEN Fails(m1)
    ELSE Result(<<"Array", IF vs = <<>> THEN <<"Nil">> ELSE ValueType(vs[1]), vs>>, m1))

\* The named values of an object or of arguments: no name comes twice.
doProperties(props, s, m) ==
  LET names == [i \in DOMAIN props |-> props[i][2]]
  IN  Then(doAll([i \in DOMAIN props |-> props[i][3]], s, m, <<>>), LAMBDA vs, m1 :
        IF \E i, j \in DOMAIN names : i # j /\ names[i] = names[j] THEN Fails(m1)
        ELSE Result([k \in Range(names) |-> vs[CHOOSE i \in DOMAIN names : names[i] = k]], m1))

doObject(e, s, m) ==
  Then(doProperties(e[2], s, m), LAMBDA f, m1 : Result(<<"Object", f>>, m1))

\* The right operand is evaluated only when the left one does not decide.
doLogical(e, s, m) ==
  Then(doExpression(e[3], s, m), LAMBDA l, m1 :
    CASE l[1] # "Bool" -> Fails(m1)
      [] l[1] = "Bool" /\ l[2] = (e[2] = "or") -> Result(l, m1)
      [] OTHER -> Then(doExpression(e[4], s, m1), LAMBDA r, m2 :
                    IF r[1] = "Bool" THEN Result(r, m2) ELSE Fails(m2)))

\* A mutant: a default goes before an argument.
setParamsDefault(ps, args, s, m) ==
  IF ps = <<>> THEN Result(NoValue, m)
  ELSE LET p == Head(ps)
       IN  Then(CASE p[3] # Absent -> doExpression(p[3], s, m)
                  [] p[3] = Absent /\ p[2] \in DOMAIN args -> Result(args[p[2]], m)
                  [] OTHER -> Fails(m),
                LAMBDA v, m1 : setParams(Tail(ps), args, s, Set(m1, s, p[2], v)))

\* The parameters are set in the scope that the function was made with.
setParams(ps, args, s, m) ==
  IF ps = <<>> THEN Result(NoValue, m)
  ELSE LET p == Head(ps)
       IN  Then(CASE p[2] \in DOMAIN args -> Result(args[p[2]], m)
                  [] p[2] \notin DOMAIN args /\ p[3] = Absent -> Fails(m)
                  [] OTHER -> doExpression(p[3], s, m),
                LAMBDA v, m1 : setParams(Tail(ps), args, s, Set(m1, s, p[2], v)))

arrowCall(f, args, m) ==
  LET s == f[3]
      body == f[2][3]
  IN  Then(setParams(f[2][2], args, s, m), LAMBDA v, m1 :
        IF body[1] # "BlockStatement" THEN doExpression(body, s, m1)
        ELSE Then(doStatement(body, s, m1), LAMBDA w, m2 :
               IF m2.scopes[s].return = NoValue THEN Fails(m2)
               ELSE Result(m2.scopes[s].return, m2)))

\* A call that succeeds has used every argument.
doCall(e, s, m) ==
  Then(doExpression(e[2], s, m), LAMBDA f, m1 :
    IF ValueType(f) # <<"Function">> THEN Fails(m1)
    ELSE Then(doProperties(e[3], s, m1), LAMBDA args, m2 :
      LET used == IF f[1] = "Builtin" THEN Reads[f[2]] ELSE Params(f[2])
      IN  Then(IF f[1] = "Builtin" THEN builtinCall(f[2], args, m2) ELSE arrowCall(f, args, m2),
               LAMBDA v, m3 :
                 IF DOMAIN args \subseteq used THEN Result(v, m3) ELSE Fails(m3))))

\* A function value gets a scope of its own when the expression is evaluated.
doExpression(e, s, m) ==
  CASE e[1] \in DOMAIN LiteralKind -> Result(doLiteral(e), m)
    [] e[1] = "ArrayExpression" -> doArray(e, s, m)
    [] e[1] = "ObjectExpression" -> doObject(e, s, m)
    [] e[1] = "IdentifierExpression" ->
         LET v == Lookup(m, s, e[2]) IN IF v = NoValue THEN Fails(m) ELSE Result(v, m)
    [] e[1] = "CallExpression" -> doCall(e, s, m)
    [] e[1] = "MemberExpression" ->
         Then(doExpression(e[2], s, m), LAMBDA v, m1 : Property(v, e[3], m1))
    [] e[1] = "UnaryExpression" ->
         Then(doExpression(e[3], s, m), LAMBDA v, m1 : doUnary(e[2], v, m1))
    [] e[1] = "BinaryExpression" ->
         Then(doAll(<<e[3], e[4]>>, s, m, <<>>), LAMBDA vs, m1 : doBinary(e[2], vs[1], vs[2], m1))
    [] e[1] = "LogicalExpression" -> doLogical(e, s, m)
    [] e[1] = "FunctionExpression" ->
         LET m1 == Nest(m, s) IN Result(<<"Function", e, Len(m1.scopes)>>, m1)

\* The statements of a block; a return must be its last one.
doBlock(stmts, s, m) ==
  IF stmts = <<>> THEN Result(NoValue, m)
  ELSE Then(doStatement(Head(stmts), s, m), LAMBDA v, m1 :
         IF Head(stmts)[1] = "ReturnStatement" /\ Len(stmts) > 1 THEN Fails(m1)
         ELSE doBlock(Tail(stmts), s, m1))

doVariableDeclaration(d, s, m) ==
  Then(doExpression(d[3], s, m), LAMBDA v, m1 : Result(NoValue, Set(m1, s, d[2], v)))

doStatement(stmt, s, m) ==
  LET m0 == SetReturn(m, s, NoValue)
      nested == Len(m.scopes) + 1
  IN
  CASE stmt[1] = "NativeVariableDeclaration" -> doVariableDeclaration(stmt, s, m0)
    [] stmt[1] \in {"ExpressionStatement", "ReturnStatement"} ->
         Then(doExpression(stmt[2], s, m0), LAMBDA v, m1 : Result(NoValue, SetReturn(m1, s, v)))
    [] stmt[1] = "BlockStatement" ->
         Then(doBlock(stmt[2], nested, Nest(m0, s)), LAMBDA v, m1 :
           Result(NoValue, SetReturn(m1, s, m1.scopes[nested].return)))

\* The statements of a program, one after the other.
eval(program, s, m) ==
  FoldLeft(LAMBDA r, stmt : Then(r, LAMBDA v, m1 : doStatement(stmt, s, m1)),
           Result(NoValue, m), program)

-----------------------------------------------------------------------------
(* query.Compile                                                           *)

\* A new query domain over the builtin scope.
NewDomain(builtins) ==
  [scopes |-> <<[NewScope(0) EXCEPT !.values = builtins]>>, ops |-> <<>>, id |-> 0, err |-> ""]

builtinScope == [n \in DOMAIN Reads |-> <<"Builtin", n>>]

RECURSIVE buildSpec(_, _, _)

\* The parents of an operation come before it.
buildSpec(t, ops, spec) ==
  LET addParent(sp, p) ==
        LET sp1 == IF p \in sp.visited THEN sp
                   ELSE buildSpec(ops[CHOOSE i \in DOMAIN ops : ops[i].ID = p], ops, sp)
        IN  [sp1 EXCEPT !.Edges = Append(@, <<p, t.ID>>)]
      up == FoldLeft(addParent, spec, t.parents)
  IN  [up EXCEPT !.visited = @ \cup {t.ID}, !.Operations = Append(@, t)]

ToSpec(ops) ==
  FoldLeft(LAMBDA sp, t : buildSpec(t, ops, sp),
           [Operations |-> <<>>, Edges |-> <<>>, visited |-> {}], ops)

\* What a program becomes: [err, spec].
Compile(program) ==
  LET evaluated(graph) ==
        IF graph = Bad THEN Fails(NewDomain(builtinScope))
        ELSE eval(graph[2], 2, Nest(NewDomain(builtinScope), 1))
      query(r) == [err |-> r.m.err, spec |-> ToSpec(r.m.ops)]
  IN  query(evaluated(New(program, builtinDeclarations)))
=============================================================================
