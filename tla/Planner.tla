---------------------------- MODULE Planner -----------------------------
(***************************************************************************)
(* The planners: query/plan/logical.go makes one procedure of every        *)
(* operation that Walk passes; query/plan/physical.go pushes procedures    *)
(* down into the `from' they read, rewrites grouped aggregates, and finds  *)
(* the results and the time bounds of the plan.                            *)
(*                                                                         *)
(* One step treats one procedure of a pass; a pass goes over a copy of the *)
(* plan's order.  (The rewrite pass of the code goes over the order itself *)
(* while RemoveBranch shifts it in place, which can defer a `from' to the  *)
(* next pass or meet it a second time; both are without effect.)           *)
(***************************************************************************)
EXTENDS QuerySpec, PlanGraph

CONSTANT MaxOrder     \* bound on the length of a plan's order

VARIABLES
    query,      \* the query.Spec being planned
    phase,      \* where the planner is: logical, push, rewrite, results, done, failed
    plan,       \* the plan (see PlanGraph)
    todo,       \* what is left of the current pass
    results     \* Results and Bounds of the finished plan

vars == <<query, phase, plan, todo, results>>

EmptyPlan == [Procedures |-> [i \in {} |-> i], Order |-> <<>>, modified |-> FALSE, err |-> ""]

NoResults == [Results |-> [n \in {} |-> n], Bounds |-> NoBounds]

DefaultYieldName == "_result"

-----------------------------------------------------------------------------
(* The logical plan.                                                       *)

\* The procedure specs that the new*Procedure functions make of an operation.
createSpec(o) ==
    CASE o.kind = "from"   -> [kind |-> "from", op |-> o.ID, bounds |-> {}, times |-> NoBounds,
                               filter |-> {}, limit |-> {}, desc |-> {}, group |-> {}, agg |-> {}]
      [] o.kind = "range"  -> [kind |-> "range", op |-> o.ID, times |-> o.times]
      [] o.kind = "filter" -> [kind |-> "filter", op |-> o.ID, fns |-> {o.ID}, block |-> o.block]
      [] o.kind = "join"   -> [kind |-> "join", op |-> o.ID,
                               tables |-> [i \in {ProcedureIDFromOperationID(p) : p \in o.tables}
                                              |-> i[1]]]
      [] o.kind = "yield"  -> [kind |-> "yield", op |-> o.ID, name |-> o.name]
      [] OTHER             -> [kind |-> o.kind, op |-> o.ID]

\* walkQuery: a procedure linked to the procedures of its parents, which Walk
\* has passed before (else parentPr is nil).
walkQuery(P, o) ==
    LET id == ProcedureIDFromOperationID(o.ID)
        up == Parents(query, o.ID)
        ps == [i \in DOMAIN up |-> ProcedureIDFromOperationID(up[i])]
        Q  == [Put(P, [ID |-> id, Parents |-> ps, Children |-> <<>>, Spec |-> createSpec(o)])
                  EXCEPT !.Order = Append(@, id)]
        times(i) == Len(SelectSeq(ps, LAMBDA x : x = i))
    IN  IF P.err # "" THEN P
        ELSE IF ~ Range(ps) \subseteq DOMAIN P.Procedures THEN Fail(P, "panic")
        ELSE [Q EXCEPT !.Procedures =
                 [i \in DOMAIN @ |->
                     [@[i] EXCEPT !.Children = @ \o [n \in 1 .. times(i) |-> id]]]]

LogicalPlan ==
    LET w == prepare(query)
    IN  IF w.err # "" THEN Fail(EmptyPlan, "error")
        ELSE FoldLeft(LAMBDA P, id : walkQuery(P, Operation(query, id)), EmptyPlan, w.sorted)

-----------------------------------------------------------------------------
(* What the procedures say of their own push down (PushDownRules).         *)

Rule(root, through) == [Root |-> root, Through |-> through]

PushDownRules(kind) ==
    CASE kind = "range"  -> <<Rule("from", {"group", "limit", "filter"})>>
      [] kind = "limit"  -> <<Rule("from", {"group", "range", "filter"})>>
      [] kind = "group"  -> <<Rule("from", {"limit", "range", "filter"})>>
      [] kind = "filter" -> <<Rule("from", {"group", "limit", "range"}),
                              Rule("filter", {"group", "limit", "range"})>>
      [] kind \in {"first", "last"} -> <<Rule("from", {"group", "limit", "filter"})>>
      [] kind \in {"sum", "count"}  -> <<Rule("from", {})>>
      [] OTHER -> <<>>

Match(spec, root) ==
    CASE spec.kind \in {"group", "first", "last"} -> root.agg = {}
      [] spec.kind \in {"sum", "count"} -> root.group = {}
      [] spec.kind = "filter" -> ~ spec.block /\ (root.kind = "filter" => ~ root.block)
      [] OTHER -> TRUE

\* A feature that is already set is left as it is; instead the whole graph below
\* the root is copied under a root in which the feature is unset.
PushOrDup(P, id, isSet, set, unset) ==
    LET n == ProcedureIDForDuplicate(id)
        Q == duplicate(P, id, FALSE, {})
    IN  IF ~ isSet THEN [P EXCEPT !.Procedures[id].Spec = set]
        ELSE IF Q.err # "" THEN Q
        ELSE [Q EXCEPT !.Procedures[n].Spec = unset]

PushDownRange(P, s, id) ==
    LET f == P.Procedures[id].Spec
    IN  PushOrDup(P, id, f.bounds # {}, [f EXCEPT !.bounds = {s.op}, !.times = s.times],
                  [Copy(f) EXCEPT !.bounds = {}, !.times = NoBounds])

PushDownLimit(P, s, id) ==
    LET f == P.Procedures[id].Spec
    IN  PushOrDup(P, id, f.limit # {}, [f EXCEPT !.limit = {s.op}], [Copy(f) EXCEPT !.limit = {}])

PushDownGroup(P, s, id) ==
    LET f == P.Procedures[id].Spec
    IN  PushOrDup(P, id, f.group # {}, [f EXCEPT !.group = {s.op}], [Copy(f) EXCEPT !.group = {}])

PushDownAggregate(P, s, id) ==
    LET f == P.Procedures[id].Spec
    IN  PushOrDup(P, id, f.agg # {}, [f EXCEPT !.agg = {s.op}], [Copy(f) EXCEPT !.agg = {}])

PushDownSelector(P, s, id) ==
    LET f == P.Procedures[id].Spec
    IN  PushOrDup(P, id, f.bounds # {} \/ f.limit # {} \/ f.desc # {},
                  [f EXCEPT !.bounds = {s.op}, !.times = [Start |-> MinTime, Stop |-> Now],
                            !.limit = {s.op}, !.desc = {s.op}],
                  [Copy(f) EXCEPT !.bounds = {}, !.times = NoBounds, !.limit = {}, !.desc = {}])

\* A mutant: the filter replaces the one that was pushed down before.
PushDownFilterOver(P, s, id) ==
    IF P.Procedures[id].Spec.kind = "from"
    THEN [P EXCEPT !.Procedures[id].Spec.filter = s.fns]
    ELSE [P EXCEPT !.Procedures[id].Spec.fns = @ \cup s.fns]

\* Filters are merged, into the `from' or into an earlier filter.
PushDownFilter(P, s, id) ==
    IF P.Procedures[id].Spec.kind = "from"
    THEN [P EXCEPT !.Procedures[id].Spec.filter = @ \cup s.fns]
    ELSE [P EXCEPT !.Procedures[id].Spec.fns = @ \cup s.fns]

PushDown(P, s, id) ==
    CASE s.kind = "range"  -> PushDownRange(P, s, id)
      [] s.kind = "limit"  -> PushDownLimit(P, s, id)
      [] s.kind = "group"  -> PushDownGroup(P, s, id)
      [] s.kind = "filter" -> PushDownFilter(P, s, id)
      [] s.kind \in {"first", "last"} -> PushDownSelector(P, s, id)
      [] s.kind \in {"sum", "count"}  -> PushDownAggregate(P, s, id)

-----------------------------------------------------------------------------
(* The push down loop.                                                     *)

RECURSIVE pushDownAndSearch(_, _, _, _, _, _)

\* The parents of pr from the i-th on: push spec down into a parent that is a
\* root of the rule, and search on above one that the rule goes through (what
\* that search matched is not reported).  The search stops when a parent had to
\* be isolated; the duplicate is met in the next pass.
pushDownAndSearch(P, pr, i, rule, spec, matched) ==
    LET id  == pr.Parents[i]
        pp  == P.Procedures[id]
        iso == IsolatePath(P, id, pr)
        up  == pushDownAndSearch(P, pp, 1, rule, spec, FALSE)
    IN  IF i > Len(pr.Parents) \/ P.err # "" THEN [plan |-> P, matched |-> matched]
        ELSE IF ~ Has(P, id) THEN [plan |-> Fail(P, "panic"), matched |-> FALSE]
        ELSE IF pp.Spec.kind = rule.Root
             THEN IF ~ Match(spec, pp.Spec) THEN pushDownAndSearch(P, pr, i + 1, rule, spec, matched)
                  ELSE IF iso.plan.err # "" \/ iso.id # id
                       THEN [plan |-> iso.plan, matched |-> FALSE]
                  ELSE pushDownAndSearch(PushDown(P, spec, id), pr, i + 1, rule, spec, TRUE)
        ELSE IF pp.Spec.kind \in rule.Through
             THEN pushDownAndSearch(up.plan, pr, i + 1, rule, spec, matched)
        ELSE pushDownAndSearch(P, pr, i + 1, rule, spec, matched)

\* A mutant: a procedure that was pushed down stays in the plan as well.
ApplyRuleKeep(P, pr, rule) == pushDownAndSearch(P, pr, 1, rule, pr.Spec, FALSE).plan

\* One rule for the procedure pr; pr is removed when the rule matched.
ApplyRule(P, pr, rule) ==
    LET pushed(r) ==
          IF r.plan.err # "" \/ ~ r.matched THEN r.plan
          ELSE removeProcedure(r.plan, IF Has(r.plan, pr.ID) THEN r.plan.Procedures[pr.ID] ELSE pr)
    IN  IF P.err # "" THEN P
        ELSE pushed(pushDownAndSearch(P, pr, 1, rule, pr.Spec, FALSE))

PushDownProcedure(P, id) ==
    IF ~ Has(P, id) THEN P
    ELSE LET pr == P.Procedures[id]
         IN  FoldLeft(LAMBDA Q, rule : ApplyRule(Q, pr, rule), P, PushDownRules(pr.Spec.kind))

-----------------------------------------------------------------------------
(* AggregateGroupRewriteRule.                                              *)

IsAggregate(spec) == spec.kind \in {"sum", "count"}

\* The aggregate that is the only child of procedure `from' is pushed down into
\* it, it is removed with all that follows it, and what re-aggregates the groups
\* takes its place.
RewriteIsolated(P, from) ==
    LET agg == P.Procedures[P.Procedures[from].Children[1]]
        regroup(R) == IF R.err # "" THEN R
                      ELSE AddChild(R, from, [kind |-> "sum", op |-> agg.Spec.op])
    IN  IF P.err # "" THEN P
        ELSE regroup(RemoveBranch([P EXCEPT !.Procedures[from].Spec.agg = {agg.Spec.op}], agg))

Rewrite(P, id) ==
    LET pr   == P.Procedures[id]
        aggs == SelectSeq(pr.Children, LAMBDA c : Has(P, c) /\ IsAggregate(P.Procedures[c].Spec))
        rewritten(iso) == RewriteIsolated(iso.plan, iso.id)
    IN  IF ~ Has(P, id) \/ pr.Spec.kind # "from" THEN P
        ELSE IF ~ Range(pr.Children) \subseteq DOMAIN P.Procedures THEN Fail(P, "panic")
        ELSE IF aggs = <<>> \/ pr.Spec.agg # {} THEN P
        ELSE rewritten(IsolatePath(P, id, P.Procedures[Last(aggs)]))

\* Plan ignores an error of Rewrite, but not a panic.
RewriteProcedure(P, id) ==
    LET kept(R) == IF R.err = "error" THEN Fail(R, "") ELSE R IN kept(Rewrite(P, id))

-----------------------------------------------------------------------------
(* Results and time bounds.                                                *)

\* A mutant: the bounds of the procedure met last.
UnionLast(b, o) == IF o.Start = NoTime THEN b ELSE o

Union(b, o) ==
    [Start |-> IF b.Start = NoTime \/ (o.Start # NoTime /\ o.Start < b.Start)
               THEN o.Start ELSE b.Start,
     Stop  |-> IF b.Stop = NoTime \/ (o.Start # NoTime /\ o.Stop > b.Stop)
               THEN o.Stop ELSE b.Stop]

\* One round of the loop over the order: r collects the results, the yield
\* procedures and the other leaves.
Collect(P, r, id) ==
    LET pr == P.Procedures[id]
        s  == pr.Spec
        b  == IF s.kind \in {"from", "range"} THEN Union(r.Bounds, s.times) ELSE r.Bounds
    IN  IF r.err # "" THEN r
        ELSE IF ~ Has(P, id) THEN [r EXCEPT !.err = "panic"]
        ELSE IF s.kind # "yield"
             THEN [r EXCEPT !.Bounds = b,
                            !.leaves = IF pr.Children = <<>> THEN Append(@, id) ELSE @]
        ELSE IF Len(pr.Parents) # 1 \/ s.name \in DOMAIN r.Results
             THEN [r EXCEPT !.err = "error"]
        ELSE [r EXCEPT !.yields = Append(@, pr),
                       !.Results = [n \in DOMAIN @ \cup {s.name} |->
                                       IF n = s.name THEN pr.Parents[1] ELSE @[n]]]

Collected(P) ==
    FoldLeft(LAMBDA r, id : Collect(P, r, id),
             [Results |-> [n \in {} |-> n], Bounds |-> NoBounds, leaves |-> <<>>,
              yields |-> <<>>, err |-> ""],
             P.Order)

\* The yields are removed as they stand in the plan by then; an error of
\* removeProcedure is ignored.
RemoveYields(P, yields) ==
    FoldLeft(LAMBDA Q, y : IF Q.err = "panic" THEN Q
                           ELSE removeProcedure(Fail(Q, ""),
                                    IF Has(Q, y.ID) THEN Q.Procedures[y.ID] ELSE y),
             P, yields)

-----------------------------------------------------------------------------
Init ==
    /\ phase = "logical"
    /\ plan = EmptyPlan
    /\ todo = <<>>
    /\ results = NoResults

\* The logical plan, copied into the physical one.
Logical ==
    /\ phase = "logical"
    /\ plan' = [LogicalPlan EXCEPT !.modified = FALSE]
    /\ phase' = IF plan'.err = "" THEN "push" ELSE "failed"
    /\ todo' = plan'.Order
    /\ UNCHANGED <<query, results>>

\* The body of the push down loop for one procedure.
PushStep ==
    /\ phase = "push" /\ todo # <<>>
    /\ plan' = PushDownProcedure(plan, Head(todo))
    /\ phase' = IF plan'.err = "" THEN "push" ELSE "failed"
    /\ todo' = Tail(todo)
    /\ UNCHANGED <<query, results>>

RewriteStep ==
    /\ phase = "rewrite" /\ todo # <<>>
    /\ plan' = RewriteProcedure(plan, Head(todo))
    /\ phase' = IF plan'.err = "" THEN "rewrite" ELSE "failed"
    /\ todo' = Tail(todo)
    /\ UNCHANGED <<query, results>>

\* The next pass of a loop that modified the plan, or the next loop.
NextPass ==
    /\ phase \in {"push", "rewrite"} /\ todo = <<>>
    /\ Len(plan.Order) <= MaxOrder
    /\ plan' = [plan EXCEPT !.modified = FALSE]
    /\ phase' = IF plan.modified THEN phase
                ELSE IF phase = "push" THEN "rewrite" ELSE "results"
    /\ todo' = IF phase' = "results" THEN <<>> ELSE plan.Order
    /\ UNCHANGED <<query, results>>

FindResults ==
    /\ phase = "results"
    /\ LET r == Collected(plan)
           P == RemoveYields(plan, r.yields)
           named == DOMAIN r.Results # {}
       IN  IF r.err # "" THEN
                /\ phase' = "failed"
                /\ plan' = Fail(plan, r.err)
                /\ UNCHANGED results
           ELSE IF P.err = "panic" \/ (~ named /\ Len(r.leaves) # 1)
                   \/ (r.Bounds.Start = NoTime /\ r.Bounds.Stop = NoTime) THEN
                /\ phase' = "failed"
                /\ plan' = Fail(P, IF P.err = "panic" THEN "panic" ELSE "error")
                /\ UNCHANGED results
           ELSE /\ phase' = "done"
                /\ plan' = Fail(P, "")
                /\ results' = [Results |-> IF named THEN r.Results
                                           ELSE [n \in {DefaultYieldName} |-> r.leaves[1]],
                               Bounds |-> r.Bounds]
    /\ UNCHANGED <<query, todo>>

Plan == Logical \/ PushStep \/ RewriteStep \/ NextPass \/ FindResults
=========================================================================
