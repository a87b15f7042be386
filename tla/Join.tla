-------------------------------- MODULE Join --------------------------------
(***************************************************************************)
(* The join of two tables, mergeJoinTransformation of functions/join.go:   *)
(* the workers of its two parents fill a pair of tables per block, the     *)
(* least of the parents' watermarks lets its dataset join them, and what   *)
(* is left is joined when both parents have finished.  Every method holds  *)
(* the mutex; a worker whose call fails comes back with Finish.            *)
(*                                                                         *)
(* A row is <<time, value, tag>>: its columns in their order in the        *)
(* tables, the tag being one of the keys of the join that is not common to *)
(* a block.  A parent sends no block that its watermark has passed.        *)
(***************************************************************************)
EXTENDS Integers, Sequences, FiniteSets, SequencesExt, FiniteSetsExt, Trigger

CONSTANTS
    JoinBlock,    \* the keys of blocks: bounds and common tags
    JoinStop,     \* JoinStop[k], where the bounds of block k end
    JoinRow,      \* JoinRow[k], the rows of block k
    MaxJoinRows   \* bound on the rows that one parent sends

\* The watermarks of the parents are 0 before they come: an earlier block would
\* not wait for both of them.
ASSUME JoinAssumption == JoinStop \in [JoinBlock -> Nat \ {0}]

Side == {"left", "right"}

VARIABLES
    tables,     \* tables[k][side], the rows in the builders of joinTables
    made,       \* the keys of cache.data
    marks,      \* parentState[side].mark
    worker,     \* a parent's: "running", "failed" with an error to report, or "finished"
    downstream, \* the calls on the transformations after the join
    received    \* received[k][side], all the rows that came

joinVars == <<tables, made, marks, worker, downstream, received>>

NoTables == [side \in Side |-> <<>>]

JoinInit ==
    /\ tables = [k \in JoinBlock |-> NoTables] /\ made = {}
    /\ marks = [side \in Side |-> 0]
    /\ worker = [side \in Side |-> "running"]
    /\ downstream = <<>>
    /\ received = [k \in JoinBlock |-> NoTables]

-----------------------------------------------------------------------------
\* joinTables.Join.

rowKey(row) == [Time |-> row[1], Tag |-> row[3]]

Less(k, o) == IF k.Time = o.Time /\ k.Tag # o.Tag THEN k.Tag < o.Tag ELSE k.Time < o.Time

\* Both tables are sorted by all columns of the left one.
rowBefore(x, y) == \E j \in 1..3 : x[j] < y[j] /\ \A i \in 1..(j - 1) : x[i] = y[i]

\* The rows from the offset on that have the same key, up to the returned offset.
advanced(table, offset) ==
    IF offset = Len(table) THEN offset
    ELSE CHOOSE n \in (offset + 1)..Len(table) :
            /\ \A i \in (offset + 1)..n : rowKey(table[i]) = rowKey(table[offset + 1])
            /\ n < Len(table) => rowKey(table[n + 1]) # rowKey(table[n])

RECURSIVE mergeFrom(_, _, _, _)
mergeFrom(left, l, right, r) ==
    IF l = Len(left) \/ r = Len(right) THEN <<>>
    ELSE LET leftKey == rowKey(left[l + 1])
             rightKey == rowKey(right[r + 1])
             ls == SubSeq(left, l + 1, advanced(left, l))
             rs == SubSeq(right, r + 1, advanced(right, r))
         IN  CASE leftKey = rightKey ->
                    FlattenSeq([i \in DOMAIN ls |-> [j \in DOMAIN rs |-> <<ls[i], rs[j]>>]])
                    \o mergeFrom(left, advanced(left, l), right, advanced(right, r))
               [] leftKey # rightKey /\ Less(leftKey, rightKey) -> mergeFrom(left, advanced(left, l), right, r)
               [] leftKey # rightKey /\ ~Less(leftKey, rightKey) -> mergeFrom(left, l, right, advanced(right, r))

Joined(t) == mergeFrom(SortSeq(t["left"], rowBefore), 0, SortSeq(t["right"], rowBefore), 0)

\* A table that no block came for lacks the columns that the function refers to.
Prepares(t) == t["left"] # <<>> /\ t["right"] # <<>>

-----------------------------------------------------------------------------
\* The dataset: it joins the tables in an order that is not determined, up to
\* the first that fails.

Failing(order) == {i \in DOMAIN order : ~Prepares(tables[order[i]])}
Failure(order) == IF Failing(order) = {} THEN Len(order) + 1 ELSE CHOOSE i \in Failing(order) : \A j \in Failing(order) : i <= j

JoinedBlocks(order) ==
    [i \in 1..(Failure(order) - 1) |-> [call |-> "Process", key |-> order[i], rows |-> Joined(tables[order[i]])]]

Tried(order) == {order[i] : i \in {j \in DOMAIN order : j <= Failure(order)}}

ExpireBlocks(keys) ==
    /\ made' = made \ keys
    /\ tables' = [k \in JoinBlock |-> IF k \in keys THEN NoTables ELSE tables[k]]

FinishCall(err) == [call |-> "Finish", err |-> err]

-----------------------------------------------------------------------------
\* mergeJoinTransformation.

ProcessSide(side, k, row) ==
    /\ worker[side] = "running"
    /\ JoinStop[k] > marks[side]
    /\ FoldSet(LAMBDA b, n : n + Len(received[b][side]), 0, JoinBlock) < MaxJoinRows
    /\ tables' = [tables EXCEPT ![k][side] = Append(@, row)]
    /\ made' = made \cup {k}
    /\ received' = [received EXCEPT ![k][side] = Append(@, row)]
    /\ UNCHANGED <<marks, worker, downstream>>

\* A mutant: the parent that is ahead decides.
minMarkMax(m) == IF m["left"] > m["right"] THEN m["left"] ELSE m["right"]

minMark(m) == IF m["left"] < m["right"] THEN m["left"] ELSE m["right"]

\* The default trigger fires when the watermark passes a block, and has finished.
Passed(mark) ==
    {k \in made : LET c == [stop |-> JoinStop[k], count |-> 0, watermark |-> mark, processingTime |-> 0]
                      t == NewTriggerFromSpec([kind |-> "watermark", lateness |-> 0])
                  IN  Triggered(t, c) /\ Finished(AfterTriggered(t, c))}

UpdateWatermark(side, mark) ==
    /\ worker[side] = "running" /\ mark > marks[side]
    /\ marks' = [marks EXCEPT ![side] = mark]
    /\ \E order \in SetToSeqs(Passed(minMark(marks'))) :
         LET ok == Failing(order) = {}
         IN  /\ ExpireBlocks(Tried(order))
             /\ downstream' = downstream \o JoinedBlocks(order)
                    \o IF ok THEN <<[call |-> "UpdateWatermark", mark |-> minMark(marks')]>> ELSE <<>>
             /\ worker' = [worker EXCEPT ![side] = IF ok THEN @ ELSE "failed"]
    /\ UNCHANGED received

\* With an error, that of the parent or its own, the dataset is finished at once;
\* and when both parents are done, with all that is left.
Finish(side, err) ==
    /\ worker[side] = IF err = "failed" THEN "failed" ELSE "running"
    /\ worker' = [worker EXCEPT ![side] = "finished"]
    /\ \E order \in IF \A s \in Side : worker'[s] = "finished" THEN SetToSeqs(made) ELSE {<<>>} :
         /\ ExpireBlocks(Tried(order))
         /\ downstream' = downstream
              \o (IF err = "nil" THEN <<>> ELSE <<FinishCall("error")>>)
              \o JoinedBlocks(order)
              \o (IF \A s \in Side : worker'[s] = "finished"
                    THEN <<FinishCall(IF Failing(order) = {} THEN "nil" ELSE "error")>> ELSE <<>>)
    /\ UNCHANGED <<marks, received>>

JoinNext ==
    \E side \in Side :
        \/ \E k \in JoinBlock : \E row \in JoinRow[k] : ProcessSide(side, k, row)
        \/ \E k \in JoinBlock : UpdateWatermark(side, JoinStop[k])
        \/ \E err \in {"nil", "upstream", "failed"} : Finish(side, err)

JoinSpec == JoinInit /\ [][JoinNext]_joinVars

-----------------------------------------------------------------------------

Occurrences(table, row) == Cardinality({i \in DOMAIN table : table[i] = row})

\* All pairs of rows with the same time and tag, as often as they came.
IsJoinOf(pairs, t, k) ==
    \A x, y \in JoinRow[k] :
        Occurrences(pairs, <<x, y>>) =
            IF rowKey(x) = rowKey(y) THEN Occurrences(t["left"], x) * Occurrences(t["right"], y) ELSE 0

\* The tags of the rows of a time are in the order of their values.
SortAgrees(table) ==
    \A i, j \in DOMAIN table :
        table[i][1] = table[j][1] /\ table[i][3] < table[j][3] => table[i][2] <= table[j][2]

\* A transport hears nothing after the first Finish.
Heard ==
    LET ends == {i \in DOMAIN downstream : downstream[i].call = "Finish"}
    IN  IF ends = {} THEN downstream ELSE SubSeq(downstream, 1, Min(ends))

Completes(c, k) ==
    \/ c.call = "UpdateWatermark" /\ c.mark >= JoinStop[k]
    \/ c.call = "Finish" /\ c.err = "nil"

(* When the join tells the transformations after it that a block is         *)
(* complete, by a watermark or by a Finish without an error, they have got  *)
(* the block once, with every pair of rows of the two parents that agree on *)
(* time and tag: in whatever order the workers of the parents come, and     *)
(* whether one of them is far ahead, has finished or has failed.  (Of       *)
(* tables for which the sorting by all columns is one by the key.)          *)
JoinComplete ==
    \A n \in DOMAIN Heard : \A k \in JoinBlock :
        Completes(Heard[n], k) /\ (\A side \in Side : SortAgrees(received[k][side])) =>
            LET sentAs == {i \in 1..(n - 1) : Heard[i].call = "Process" /\ Heard[i].key = k}
            IN  /\ \A i \in sentAs : sentAs = {i} /\ IsJoinOf(Heard[i].rows, received[k], k)
                /\ sentAs = {} => IsJoinOf(<<>>, received[k], k)
=============================================================================
