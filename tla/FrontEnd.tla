------------------------------ MODULE FrontEnd ------------------------------
(***************************************************************************)
(* From what a client sends to a physical plan: query/compile.go runs the  *)
(* IFQL parser, the semantic analysis and the interpreter; promql/query.go *)
(* the PromQL parser and its builders; a query in JSON is a graph already  *)
(* (cmd/ifqld/main.go).  The controller validates the graph and hands it   *)
(* to the planners.                                                        *)
(*                                                                         *)
(* An input is [lang, text, valid, tree, inlined, query].  Besides the     *)
(* text, or the query of a JSON input, it has what the properties compare  *)
(* with: whether the text is a program, the tree that it was printed from, *)
(* and for some IFQL programs the program in which the calls of its        *)
(* functions are replaced by hand.                                         *)
(***************************************************************************)
EXTENDS Planner

CONSTANTS
    Inputs,        \* what clients send
    MaxInt, MaxSeconds, BadRegexp,    \* see IFQLTree
    IntWidth,                         \* see Numbers
    Width, UnitNanos                  \* see PromQLTree

VARIABLES
    input,      \* the request at hand
    stage,      \* parse, compile, validate, plan, ended
    table,      \* what the parser has found out so far (see PEG)
    parsed      \* the parser's answer

frontVars == <<vars, input, stage, table, parsed>>

IFQL == INSTANCE IFQLGrammar

PromQL == INSTANCE PromQLGrammar

Language == INSTANCE Interpreter

NoQuery == [Operations |-> <<>>, Edges |-> <<>>]

NotParsed == [ok |-> FALSE, val |-> <<"nil">>, errs |-> {}]

FrontInit ==
    /\ Init
    /\ input \in Inputs
    /\ query = IF input.lang = "json" THEN input.query ELSE NoQuery
    /\ stage = IF input.lang = "json" THEN "validate" ELSE "parse"
    /\ table = IF input.lang = "promql" THEN PromQL!Engine!NoTable ELSE IFQL!Engine!NoTable
    /\ parsed = NotParsed

Tabulated ==
    IF input.lang = "ifql" THEN IFQL!Engine!Tabulated(table, input.text)
    ELSE PromQL!Engine!Tabulated(table, input.text)

Tabulate ==
    /\ stage = "parse" /\ ~ Tabulated
    /\ table' = IF input.lang = "ifql" THEN IFQL!Engine!Tabulate(table, input.text)
                ELSE PromQL!Engine!Tabulate(table, input.text)
    /\ UNCHANGED <<vars, input, stage, parsed>>

\* A text that does not parse is refused.
Parse ==
    /\ stage = "parse" /\ Tabulated
    /\ parsed' = IF input.lang = "ifql" THEN IFQL!NewAST(table, input.text)
                 ELSE PromQL!ParsePromQL(table, input.text)
    /\ stage' = IF parsed'.ok THEN "compile" ELSE "ended"
    /\ UNCHANGED <<vars, input, table>>

\* query.Time.Time
ToTime(t) == IF t[1] = "relative" THEN Now + t[2] ELSE t[2]

\* The operation of a compiled program, with what the planner reads of it.
ToOperation(o) ==
    CASE o.kind = "range"  -> [ID |-> o.ID, kind |-> o.kind,
                               times |-> [Start |-> ToTime(o.arg.Start), Stop |-> ToTime(o.arg.Stop)]]
      [] o.kind = "filter" -> [ID |-> o.ID, kind |-> o.kind, block |-> o.arg[3][1] = "BlockStatement"]
      [] o.kind = "join"   -> [ID |-> o.ID, kind |-> o.kind, tables |-> Range(o.parents)]
      [] o.kind = "yield"  -> [ID |-> o.ID, kind |-> o.kind, name |-> o.arg]
      [] OTHER             -> [ID |-> o.ID, kind |-> o.kind]

ToQuery(spec) ==
    [Operations |-> [i \in DOMAIN spec.Operations |-> ToOperation(spec.Operations[i])],
     Edges |-> spec.Edges]

\* query.Compile after the parser.
CompileIFQL ==
    /\ stage = "compile" /\ input.lang = "ifql"
    /\ \E c \in {Language!Compile(parsed.val)} :
           IF c.err # "" THEN stage' = "ended" /\ UNCHANGED query
           ELSE stage' = "validate" /\ query' = ToQuery(c.spec)
    /\ UNCHANGED <<phase, plan, todo, results, input, table, parsed>>

\* promql.Build after the parser.
BuildPromQL ==
    /\ stage = "compile" /\ input.lang = "promql"
    /\ LET s == PromQL!Build(parsed)
       IN  IF ~ s.ok THEN stage' = "ended" /\ UNCHANGED query
           ELSE stage' = "validate" /\ query' = [Operations |-> s.Operations, Edges |-> s.Edges]
    /\ UNCHANGED <<phase, plan, todo, results, input, table, parsed>>

\* Spec.Validate.  (The daemon has no route for PromQL: Build's caller gets
\* the specification.)
Validate ==
    /\ stage = "validate"
    /\ stage' = IF prepare(query).err = "" /\ input.lang # "promql" THEN "plan" ELSE "ended"
    /\ UNCHANGED <<vars, input, table, parsed>>

Planning ==
    /\ stage = "plan"
    /\ Plan
    /\ stage' = IF phase' \in {"done", "failed"} THEN "ended" ELSE "plan"
    /\ UNCHANGED <<input, table, parsed>>

\* The request has been answered, or the plan has reached the bound of the
\* model.
Stopped ==
    \/ stage = "ended"
    \/ phase \in {"push", "rewrite"} /\ todo = <<>> /\ Len(plan.Order) > MaxOrder

Rest == Stopped /\ UNCHANGED frontVars

FrontNext == Tabulate \/ Parse \/ CompileIFQL \/ BuildPromQL \/ Validate \/ Planning \/ Rest

\* A request is worked on by one goroutine, which the Go scheduler runs.  (This
\* is weak fairness of FrontNext: it has a step that changes something if and
\* only if not Stopped.)
FrontSpec ==
    /\ FrontInit /\ [][FrontNext]_frontVars
    /\ []<>Stopped \/ []<><<TRUE>>_frontVars

-----------------------------------------------------------------------------
(* Queries whose plan can be relied on                                     *)

Ancestors(q, id) == {a \in IDs(q) : id \in Descendants(q, a)}

Feature(o) == IF o.kind \in {"sum", "count"} THEN "aggregate"
              ELSE IF o.kind \in {"first", "last"} THEN "selector" ELSE o.kind

\* On no path a `from' is asked twice for the same feature, or for both a
\* grouping and an aggregate; and a query branches once, and not after a
\* grouping.  (Of other queries the planner loses operations, panics, or does
\* not end: README.)
Plain(q) ==
    /\ ValidDAG(q)
    /\ \A y \in IDs(q) : \A x \in Ancestors(q, y) :
         LET F(id) == Feature(Operation(q, id))
             both(f, G) == f \in {F(x), F(y)} /\ {F(x), F(y)} \cap G # {}
         IN  /\ F(x) = F(y) => F(x) \notin {"range", "limit", "group", "aggregate", "selector"}
             /\ ~ both("group", {"aggregate", "selector"})
             /\ ~ both("selector", {"range", "limit", "aggregate"})
    /\ \A id \in IDs(q) :
         /\ Len(Children(q, id)) <= 2
         /\ Len(Children(q, id)) = 2 =>
               /\ \A a \in {id} \cup Ancestors(q, id) : Operation(q, a).kind # "group"
               /\ \A d \in Descendants(q, id) : Len(Children(q, d)) <= 1

\* The operations whose effect is in the table of a procedure.
RECURSIVE Applied(_, _)
Applied(P, id) ==
    LET s == P.Procedures[id].Spec
        own == IF s.kind = "from"
               THEN {s.op} \cup s.bounds \cup s.filter \cup s.limit \cup s.group \cup s.agg \cup s.desc
               ELSE IF s.kind = "filter" THEN s.fns ELSE {s.op}
    IN  own \cup UNION {Applied(P, p) : p \in Range(P.Procedures[id].Parents)}

\* The operations that a result is asked to have: all before its yield, or all
\* of a query without yields.
Asked(n) ==
    LET yields == {id \in IDs(query) : Operation(query, id).kind = "yield"
                                       /\ Operation(query, id).name = n}
    IN  IF yields = {} THEN IDs(query) ELSE UNION {Ancestors(query, y) : y \in yields}

-----------------------------------------------------------------------------
(* Properties                                                              *)

\* What is written is what is read: the tree that NewAST and ParsePromQL build
\* is the tree the text was printed from, with parentheses only where the
\* precedence of operators asks for them and whatever white space or comments
\* stand between the tokens; a text that is no program is refused.
ParsedAsWritten ==
    stage \in {"compile", "ended"} /\ input.lang # "json" =>
        /\ parsed.ok = input.valid
        /\ parsed.ok => parsed.val = input.tree

\* The order that prepare leaves for Walk is topological: every operation that
\* can be reached from a root occurs once, after those of its parents that can
\* be reached; and prepare refuses no valid DAG.
WalkIsTopological ==
    stage = "validate" =>
        LET w == prepare(query)
            R == Reached(query, Range(Roots(query)))
        IN  /\ w.err = "" =>
                 /\ Range(w.sorted) = R /\ Len(w.sorted) = Cardinality(R)
                 /\ \A i \in DOMAIN w.sorted :
                      Range(Parents(query, w.sorted[i])) \cap R \subseteq
                          {w.sorted[j] : j \in 1 .. i - 1}
            /\ ValidDAG(query) => w.err = ""

\* A call of a function means its body: the query of a program with functions,
\* with piped parameters, defaults and functions as arguments among them, is
\* the query of the program in which each call has been replaced by the body
\* with the arguments in it.
FunctionsInline ==
    stage = "compile" /\ input.inlined # <<"nil">> =>
        [err |-> "", spec |-> Language!Compile(input.inlined).spec] = Language!Compile(parsed.val)

\* The planner follows no link to a procedure that it has removed, and the
\* graph of a finished plan is consistent: the order lists its procedures,
\* parents before children; links lead to procedures of the plan and agree in
\* both directions; and every result is a procedure of the plan.
PlanWellFormed ==
    /\ phase = "failed" /\ Plain(query) => plan.err # "panic"
    /\ phase = "done" /\ Plain(query) =>
        LET P == plan.Procedures
            count(s, x) == Len(SelectSeq(s, LAMBDA y : y = x))
        IN  /\ Range(plan.Order) = DOMAIN P /\ Len(plan.Order) = Cardinality(DOMAIN P)
            /\ \A i \in DOMAIN P : Range(P[i].Parents) \cup Range(P[i].Children) \subseteq DOMAIN P
            /\ \A i, j \in DOMAIN P : count(P[i].Children, j) = count(P[j].Parents, i)
            /\ \A i \in DOMAIN plan.Order :
                 Range(P[plan.Order[i]].Parents) \subseteq {plan.Order[j] : j \in 1 .. i - 1}
            /\ \A n \in DOMAIN results.Results : results.Results[n] \in DOMAIN P

\* Planning keeps the meaning of the query: each result has had applied exactly
\* the operations that lead to it in the query, whether they were pushed down
\* into a `from', merged, duplicated with a branch, or left in place.
OperationsKept ==
    phase = "done" /\ Plain(query) =>
        \A n \in DOMAIN results.Results : Applied(plan, results.Results[n]) = Asked(n)

\* The time bounds that the plan is executed with include those of every range
\* of the query.
BoundsCover ==
    phase = "done" /\ Plain(query) =>
        \A id \in IDs(query) : Operation(query, id).kind = "range" =>
            LET t == Operation(query, id).times
            IN  results.Bounds.Start <= t.Start /\ results.Bounds.Stop >= t.Stop

\* Every request is answered: the parser, the interpreter and the planner's
\* two loops, which run for as long as they modify the plan, come to an end.
Answered ==
    [](stage = "plan" /\ phase = "logical" => Plain(query)) => <>(stage = "ended")
=============================================================================
