-------------------------------- MODULE RowFn --------------------------------
(***************************************************************************)
(* query/execute/row_fn.go: the functions that filter and map apply to     *)
(* every row of a block, each in the thread that runs its transformation,  *)
(* with the compilation cache of each (compiler/compiler.go) and the type  *)
(* cache that they share (TypeCache).  A block is its columns, a function  *)
(* from labels to kinds; rows come one after the other.                    *)
(***************************************************************************)
EXTENDS RowFunction, TypeCache

CONSTANTS
  Settings,   \* what the threads run: [Thread -> [fn, use, parts, columns]]
  Sample      \* the values of a kind that a row may hold

VARIABLES
  run,        \* of each thread: its function, the use of it (filter, map, or ""
              \* for none), the functions it was merged from, and the columns
              \* that its blocks may have
  phase,      \* idle, preparing, ready, typing, failed
  cols,       \* the columns of the block at hand
  compiled,   \* the compilation cache: from type pointers to evaluators
  prepared,   \* the prepared function and the type it was compiled for
  record,     \* the row's object: values, property types, typ (0 is nil)
  result      \* the last row and the value it gave

rowVars == <<run, phase, cols, compiled, prepared, record, result>>
vars == <<cacheVars, rowVars>>

NoRow == [x \in {} |-> x]
NoResult == [row |-> NoRow, v |-> <<"none">>]

RECURSIVE colReferences(_, _)

\* Visit: the properties of the record that the function reads.
colReferences(n, name) ==
  LET all(ns) == UNION {colReferences(ns[i], name) : i \in DOMAIN ns}
  IN
  CASE n[1] = "MemberExpression" ->
         IF n[2][1] = "IdentifierExpression" THEN IF n[2][2] = name THEN {n[3]} ELSE {}
         ELSE colReferences(n[2], name)
    [] n[1] \in {"BlockStatement", "ObjectExpression", "ArrayExpression"} -> all(n[2])
    [] n[1] \in {"ExpressionStatement", "ReturnStatement"} -> colReferences(n[2], name)
    [] n[1] \in {"NativeVariableDeclaration", "Property", "UnaryExpression", "FunctionExpression"} ->
         colReferences(n[3], name)
    [] n[1] \in {"BinaryExpression", "LogicalExpression"} -> all(<<n[3], n[4]>>)
    [] n[1] = "CallExpression" -> colReferences(n[2], name) \cup all(n[3])
    [] OTHER -> {}

recordName(t) == run[t].fn[2][1][2]

References(t) == colReferences(run[t].fn, recordName(t))

\* The properties of the type behind a pointer.
Properties(p) ==
  LET h == CHOOSE h \in Bucket : \E i \in DOMAIN m[h] : m[h][i].ptr = p
      i == CHOOSE i \in DOMAIN m[h] : m[h][i].ptr = p
  IN  m[h][i].sig

CompileFor(t, p) ==
  CompileFn(run[t].fn, [n \in {recordName(t)} |->
                          <<"Object", [c \in DOMAIN Properties(p) |-> <<Properties(p)[c]>>]>>])

RowInit ==
  /\ CacheInit
  /\ run \in Settings
  /\ phase = [t \in Thread |-> IF run[t].use = "" THEN "failed" ELSE "idle"]
  /\ cols = [t \in Thread |-> NoRow]
  /\ compiled = [t \in Thread |-> NoRow]
  /\ prepared = [t \in Thread |-> [e |-> Bad, typ |-> 0]]
  /\ record = [t \in Thread |-> [values |-> NoRow, types |-> NoRow, typ |-> 0]]
  /\ result = [t \in Thread |-> NoResult]

\* prepare: the types of the columns that are referenced; one that the block
\* does not have ends the query.
Prepare(t, c) ==
  /\ phase[t] = "idle"
  /\ cols' = [cols EXCEPT ![t] = c]
  /\ IF References(t) \subseteq DOMAIN c
     THEN /\ NewType(t, [r \in References(t) |-> c[r]])
          /\ phase' = [phase EXCEPT ![t] = "preparing"]
     ELSE /\ phase' = [phase EXCEPT ![t] = "failed"]
          /\ UNCHANGED cacheVars
  /\ result' = [result EXCEPT ![t] = NoResult]
  /\ UNCHANGED <<run, compiled, prepared, record>>

\* The compilation cache of the function, by the type of the record.
Cached(t, p) == IF p \in DOMAIN compiled[t] THEN compiled[t][p] ELSE CompileFor(t, p)

\* The function for the types: a filter's must give a boolean.
Prepared(t) ==
  /\ phase[t] = "preparing"
  /\ Return(t)
  /\ LET e == Cached(t, got[t])
     IN  /\ compiled' = [compiled EXCEPT ![t] = With(@, got[t], e)]
         /\ IF e = Bad
            THEN phase' = [phase EXCEPT ![t] = "failed"] /\ UNCHANGED prepared
            ELSE /\ prepared' = [prepared EXCEPT ![t] = [e |-> e, typ |-> got[t]]]
                 /\ phase' = [phase EXCEPT ![t] =
                      IF run[t].use = "filter" /\ e[2] # <<"Bool">> THEN "failed" ELSE "ready"]
  /\ UNCHANGED <<run, cols, record, result>>

\* A mutant: the object keeps its type when a property's type changes.
SetRecordKeepingTyp(t, row, kinds) == [values |-> row, types |-> kinds, typ |-> record[t].typ]

\* Object.Set for every property: a property of another type than before
\* makes the object's type unknown.
SetRecord(t, row, kinds) ==
  [values |-> row, types |-> kinds, typ |-> IF kinds = record[t].types THEN record[t].typ ELSE 0]

Rejected == <<"rejected">>

\* validate, then the evaluation; a row that is refused is left out.
Evaluate(t, rec, typ) ==
  IF typ # prepared[t].typ THEN Rejected
  ELSE EvalFn(prepared[t].e, [n \in {recordName(t)} |-> <<"Object", rec.values>>])

\* eval: the record is filled and, when it has no type, asked for it.
Row(t, row) ==
  /\ phase[t] = "ready"
  /\ DOMAIN row = References(t)
  /\ LET kinds == [r \in References(t) |-> cols[t][r]]
         rec == SetRecord(t, row, kinds)
     IN  /\ record' = [record EXCEPT ![t] = rec]
         /\ IF rec.typ = 0
            THEN /\ NewType(t, kinds)
                 /\ phase' = [phase EXCEPT ![t] = "typing"]
                 /\ UNCHANGED result
            ELSE /\ result' = [result EXCEPT ![t] = [row |-> row, v |-> Evaluate(t, rec, rec.typ)]]
                 /\ UNCHANGED <<phase, cacheVars>>
  /\ UNCHANGED <<run, cols, compiled, prepared>>

Typed(t) ==
  /\ phase[t] = "typing"
  /\ Return(t)
  /\ record' = [record EXCEPT ![t].typ = got[t]]
  /\ result' = [result EXCEPT ![t] = [row |-> record[t].values, v |-> Evaluate(t, record[t], got[t])]]
  /\ phase' = [phase EXCEPT ![t] = "ready"]
  /\ UNCHANGED <<run, cols, compiled, prepared>>

\* The rows of the block have been seen.
NextBlock(t) ==
  /\ phase[t] = "ready"
  /\ phase' = [phase EXCEPT ![t] = "idle"]
  /\ UNCHANGED <<cacheVars, run, cols, compiled, prepared, record, result>>

RowsOf(c, refs) == {row \in [refs -> UNION {Sample[c[r]] : r \in refs}] : \A r \in refs : row[r] \in Sample[c[r]]}

InCall(t) == CacheStep(t) /\ UNCHANGED rowVars

RowNext ==
  \E t \in Thread :
    \/ \E c \in run[t].columns : Prepare(t, c)
    \/ Prepared(t)
    \/ phase[t] = "ready" /\ \E row \in RowsOf(cols[t], References(t)) : Row(t, row)
    \/ Typed(t)
    \/ NextBlock(t)
    \/ InCall(t)

RowSpec == RowInit /\ [][RowNext]_vars

-----------------------------------------------------------------------------

\* No row is lost to the type check of compiledFn.validate: after Prepare has
\* accepted the columns of a block, the record that eval fills from them has
\* the very type, by pointer, for which the function was compiled, whatever
\* blocks came before and whatever other threads add to the type cache.
RowsEvaluated == \A t \in Thread : result[t].v # Rejected

\* The function as the interpreter runs it on a row.
Interpreted(f, row) ==
  arrowCall(<<"Function", f, 2>>, [n \in {f[2][1][2]} |-> <<"Object", row>>],
            Nest(NewDomain(builtinScope), 1))

\* A compiled function means what the interpreted one means: on every row the
\* evaluators of compiler/runtime.go give the value that interpreter.go gives,
\* and panic where it panics.
CompiledMeansInterpreted ==
  \A t \in Thread : result[t] # NoResult =>
    LET r == Interpreted(run[t].fn, result[t].row)
    IN  /\ r.m.err = "" => result[t].v = r.v
        /\ r.m.err = "panic" => result[t].v = Panic

\* Pushing a filter into another one keeps both: a row passes the merged
\* function of mergeArrowFunction if and only if it passes the two filters one
\* after the other, given that they call the row by the same name.
MergedFiltersBothHold ==
  \A t \in Thread : run[t].parts # <<>> /\ result[t] # NoResult =>
    LET passes(f) == Interpreted(f, result[t].row).v = <<"Bool", TRUE>>
    IN  result[t].v = <<"Bool", TRUE>> <=> passes(run[t].parts[1]) /\ passes(run[t].parts[2])

=============================================================================
