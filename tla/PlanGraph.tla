--------------------------- MODULE PlanGraph ----------------------------
(***************************************************************************)
(* The graph that the physical planner (query/plan/physical.go) edits, and *)
(* the procedures' own part in push down and rewriting (functions/*.go).   *)
(*                                                                         *)
(* A plan is [Procedures, Order, modified, err]: a function from IDs to    *)
(* [ID, Parents, Children, Spec], the order of the IDs, the planner's flag *)
(* modified, and "" or how planning failed: "error", or "panic" where the  *)
(* code follows a nil pointer.  IDs are UUIDs computed from an operation's *)
(* ID, and the ID of a copy from the ID of the original: <<o, n>> is what  *)
(* n hashings make of the ID of operation o's procedure.                   *)
(*                                                                         *)
(* A spec is a record with its kind and op, the operation it comes from.   *)
(* A `from' has for each of its features (bounds, filter, limit, group,    *)
(* agg) the set of the operations pushed down into it: empty when the Go   *)
(* field XxxSet is false.  What a feature's value is besides (names of     *)
(* columns, functions) is left out; bounds carry their times.              *)
(***************************************************************************)
EXTENDS Integers, Sequences, FiniteSets, SequencesExt

NoTime == 0    \* the zero time

NoBounds == [Start |-> NoTime, Stop |-> NoTime]

\* first and last read from MinTime to Now.
MinTime == 1

Now == 9

ProcedureIDFromOperationID(o) == <<o, 0>>

\* ProcedureIDForDuplicate and ProcedureIDFromParentID are the same function.
ProcedureIDForDuplicate(id) == <<id[1], id[2] + 1>>

ProcedureIDFromParentID(id) == <<id[1], id[2] + 1>>

\* Without the ID the list becomes empty.
removeID(ids, id) ==
    IF id \notin Range(ids) THEN <<>>
    ELSE LET i == CHOOSE j \in DOMAIN ids : ids[j] = id /\ \A h \in 1 .. j - 1 : ids[h] # id
         IN  SubSeq(ids, 1, i - 1) \o SubSeq(ids, i + 1, Len(ids))

insertAfter(ids, after, new) ==
    IF after \notin Range(ids) THEN <<>>
    ELSE LET i == CHOOSE j \in DOMAIN ids : ids[j] = after /\ \A h \in 1 .. j - 1 : ids[h] # after
         IN  SubSeq(ids, 1, i) \o <<new>> \o SubSeq(ids, i + 1, Len(ids))

Fail(P, e) == [P EXCEPT !.err = e]

Has(P, id) == id \in DOMAIN P.Procedures

Put(P, pr) ==
    [P EXCEPT !.Procedures = [i \in DOMAIN @ \cup {pr.ID} |-> IF i = pr.ID THEN pr ELSE @[i]]]

Delete(P, id) ==
    [P EXCEPT !.Procedures = [i \in DOMAIN @ \ {id} |-> @[i]],
              !.Order = removeID(@, id),
              !.modified = TRUE]

\* The specs that know their parents (ParentAwareProcedureSpec): a join.
ParentChanged(spec, old, new) ==
    IF spec.kind = "join" /\ old \in DOMAIN spec.tables
    THEN [spec EXCEPT !.tables = [i \in (DOMAIN @ \ {old}) \cup {new} |->
                                     IF i = new THEN @[old] ELSE @[i]]]
    ELSE spec

\* FromProcedureSpec.Copy leaves the grouping behind, MergeJoinProcedureSpec.Copy
\* the names of the tables.
Copy(spec) ==
    CASE spec.kind = "from" -> [spec EXCEPT !.group = {}]
      [] spec.kind = "join" -> [spec EXCEPT !.tables = <<>>]
      [] OTHER -> spec

-----------------------------------------------------------------------------
\* A mutant: the children keep the link to pr.
removeProcedureHalf(P, pr) ==
    LET R == Delete(P, pr.ID)
        relink(i) ==
            [R.Procedures[i] EXCEPT !.Children = IF i \in Range(pr.Parents)
                                                 THEN removeID(@, pr.ID) \o pr.Children ELSE @]
    IN  IF Len(pr.Parents) > 1 THEN Fail(P, "error")
        ELSE [R EXCEPT !.Procedures = [i \in DOMAIN @ |-> relink(i)]]

\* removeProcedure: the children of pr become children of its parent.
removeProcedure(P, pr) ==
    LET R == Delete(P, pr.ID)
        spec(c) == IF Len(pr.Parents) = 1
                   THEN ParentChanged(R.Procedures[c].Spec, pr.ID, pr.Parents[1])
                   ELSE R.Procedures[c].Spec
        relink(i) ==
            LET p == R.Procedures[i] IN
            [p EXCEPT !.Children = IF i \in Range(pr.Parents)
                                   THEN removeID(@, pr.ID) \o pr.Children ELSE @,
                      !.Parents  = IF i \in Range(pr.Children)
                                   THEN removeID(@, pr.ID) \o pr.Parents ELSE @,
                      !.Spec     = IF i \in Range(pr.Children) THEN spec(i) ELSE @]
    IN  IF Len(pr.Parents) > 1 THEN Fail(P, "error")
        ELSE IF ~ (Range(pr.Parents) \cup Range(pr.Children)) \subseteq DOMAIN R.Procedures
             THEN Fail(R, "panic")
        ELSE [R EXCEPT !.Procedures = [i \in DOMAIN @ |-> relink(i)]]

RECURSIVE RemoveBranch(_, _), RemoveBranches(_, _),
          duplicate(_, _, _, _), duplicateChildren(_, _, _, _, _)

\* RemoveBranch: pr and all that comes after it.
RemoveBranch(P, pr) ==
    LET R == Delete(P, pr.ID)
        S == [R EXCEPT !.Procedures =
                 [i \in DOMAIN @ |-> IF i \in Range(pr.Parents)
                                     THEN [@[i] EXCEPT !.Children = removeID(@, pr.ID)]
                                     ELSE @[i]]]
    IN  IF Len(pr.Parents) > 1 THEN Fail(P, "error") ELSE RemoveBranches(S, pr.Children)

RemoveBranches(P, ids) ==
    IF ids = <<>> \/ P.err # "" THEN P
    ELSE IF ~ Has(P, Head(ids)) THEN Fail(P, "panic")
    ELSE RemoveBranches(RemoveBranch(P, P.Procedures[Head(ids)]), Tail(ids))

\* duplicate: a copy of the procedure and of all that comes after it, or only of
\* the branches of some children (when only is not empty).
duplicate(P, id, skipParents, only) ==
    LET pr == P.Procedures[id]
        n  == ProcedureIDForDuplicate(id)
        np == [pr EXCEPT !.ID = n, !.Spec = Copy(@)]
        Q  == [Put(P, np) EXCEPT !.Order = insertAfter(@, id, n), !.modified = TRUE]
        R  == IF skipParents THEN Q
              ELSE [Q EXCEPT !.Procedures =
                       [i \in DOMAIN @ |-> IF i \in Range(np.Parents)
                                           THEN [@[i] EXCEPT !.Children = Append(@, n)]
                                           ELSE @[i]]]
        branches == SelectSeq(np.Children, LAMBDA c : only = {} \/ c \in only)
    IN  duplicateChildren(R, id, n, branches, <<>>)

duplicateChildren(P, id, n, ids, new) ==
    IF P.err # "" THEN P
    ELSE IF ids = <<>> THEN [P EXCEPT !.Procedures[n].Children = new]
    ELSE IF ~ Has(P, Head(ids)) THEN Fail(P, "panic")
    ELSE LET c == ProcedureIDForDuplicate(Head(ids))
             Q == duplicate(P, Head(ids), TRUE, {})
         IN  IF Q.err # "" THEN Q
             ELSE duplicateChildren(
                    [Q EXCEPT !.Procedures[c].Parents = Append(removeID(@, id), n),
                              !.Procedures[c].Spec = ParentChanged(@, id, n)],
                    id, n, Tail(ids), Append(new, c))

AddChild(P, id, spec) ==
    LET c == ProcedureIDFromParentID(id)
        Q == [P EXCEPT !.Procedures[id].Children = Append(@, c)]
    IN  [Put(Q, [ID |-> c, Parents |-> <<id>>, Children |-> <<>>, Spec |-> spec])
            EXCEPT !.Order = insertAfter(@, id, c)]

\* IsolatePath: the plan and the ID of the parent whose only child is now the
\* child given, or its duplicate.
IsolatePath(P, parent, child) ==
    IF Len(P.Procedures[parent].Children) = 1 THEN [plan |-> P, id |-> parent]
    ELSE LET Q == duplicate(P, parent, TRUE, {child.ID})
         IN  [plan |-> IF Q.err # "" THEN Q ELSE RemoveBranch(Q, child),
              id   |-> ProcedureIDForDuplicate(parent)]
=========================================================================
