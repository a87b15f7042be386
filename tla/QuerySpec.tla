--------------------------- MODULE QuerySpec ----------------------------
(***************************************************************************)
(* query/query.go: a query as a graph of operations, its validation and    *)
(* the order in which Walk passes the operations to the logical planner.   *)
(*                                                                         *)
(* A query is [Operations, Edges]: a sequence of records with a field ID   *)
(* and a sequence of <<parent, child>> pairs.  The maps that prepare       *)
(* builds and the field sorted are the components of its result; an error  *)
(* is named by its kind.                                                   *)
(***************************************************************************)
EXTENDS Naturals, Sequences, FiniteSets, SequencesExt

IDs(q) == {q.Operations[i].ID : i \in DOMAIN q.Operations}

Operation(q, id) == q.Operations[CHOOSE i \in DOMAIN q.Operations : q.Operations[i].ID = id]

\* computeLookup and the loop over the edges: the first problem met.
EdgeError(q) ==
    IF Cardinality(IDs(q)) < Len(q.Operations) THEN "duplicate operation"
    ELSE IF \E i \in DOMAIN q.Edges : ~ {q.Edges[i][1], q.Edges[i][2]} \subseteq IDs(q)
         THEN "unknown operation"
         ELSE ""

\* The maps of determineParentsChildrenAndRoots, in the order of the edges.
Parents(q, id) ==
    LET in == SelectSeq(q.Edges, LAMBDA e : e[2] = id) IN [i \in DOMAIN in |-> in[i][1]]

Children(q, id) ==
    LET out == SelectSeq(q.Edges, LAMBDA e : e[1] = id) IN [i \in DOMAIN out |-> out[i][2]]

Roots(q) ==
    LET r == SelectSeq(q.Operations, LAMBDA o : Parents(q, o.ID) = <<>>)
    IN  [i \in DOMAIN r |-> r[i].ID]

RECURSIVE visit(_, _, _, _), visitAll(_, _, _, _)

\* Depth first from an operation; path has the temporary marks, and the
\* operations in sorted are the ones with a permanent mark.
visit(q, path, w, id) ==
    IF id \in path THEN [w EXCEPT !.err = "cycle"]
    ELSE IF id \in Range(w.sorted) THEN w
    ELSE LET c == visitAll(q, path \cup {id}, w, Children(q, id))
         IN  IF c.err # "" THEN c ELSE [c EXCEPT !.sorted = Append(@, id)]

visitAll(q, path, w, ids) ==
    IF ids = <<>> \/ w.err # "" THEN w
    ELSE visitAll(q, path, visit(q, path, w, Head(ids)), Tail(ids))

\* A mutant: children before parents.
prepareUnreversed(q) ==
    IF EdgeError(q) # "" THEN [err |-> EdgeError(q), sorted |-> <<>>]
    ELSE IF Roots(q) = <<>> THEN [err |-> "no root", sorted |-> <<>>]
    ELSE visitAll(q, {}, [err |-> "", sorted |-> <<>>], Roots(q))

\* prepare, which is also Validate: an error, or the order of Walk.
prepare(q) ==
    IF EdgeError(q) # "" THEN [err |-> EdgeError(q), sorted |-> <<>>]
    ELSE IF Roots(q) = <<>> THEN [err |-> "no root", sorted |-> <<>>]
    ELSE LET w == visitAll(q, {}, [err |-> "", sorted |-> <<>>], Roots(q))
         IN  [w EXCEPT !.sorted = Reverse(@)]

-----------------------------------------------------------------------------
\* The operations that can be reached from a set along the edges.  (The bound
\* variable makes TLC evaluate every set on the way once.)
RECURSIVE Reached(_, _)
Reached(q, S) ==
    UNION {IF T = S THEN S ELSE Reached(q, T) :
             T \in {S \cup {q.Edges[i][2] : i \in {j \in DOMAIN q.Edges : q.Edges[j][1] \in S}}}}

Descendants(q, id) == Reached(q, Range(Children(q, id)))

\* What "a valid DAG" means: the edges join operations of the query, IDs are
\* unique, and no operation is a descendant of its own.
ValidDAG(q) ==
    /\ EdgeError(q) = ""
    /\ q.Operations # <<>>
    /\ \A id \in IDs(q) : id \notin Descendants(q, id)
=============================================================================
