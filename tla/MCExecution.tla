---------------------------- MODULE MCExecution ----------------------------
(***************************************************************************)
(* The queries and capacities for which Execution is checked.              *)
(***************************************************************************)
EXTENDS Execution

Setting(results, depth, n, sinkCap, workCap, faults) ==
    [results |-> results, depth |-> depth, blocks |-> n, sinkCap |-> sinkCap,
     workCap |-> workCap, faults |-> faults]

CONSTANTS r1, r2

\* One result behind two transformations and a sink that fills up, with failing
\* transformations or writes and an impatient reader; with panics in transformations
\* and sources; with one block, where a panic, a cancellation and a failed read meet.
\* And two results read one after the other, whose sinks have room for a whole
\* result.  d.work has one entry for two transports.
MCSettings ==
    {Setting({r1}, 2, 2, 1, 1, {"error", "write error", "cancel"}),
     Setting({r1}, 2, 2, 1, 1, {"panic", "source panic"}),
     Setting({r1}, 2, 1, 1, 1, {"panic", "cancel", "read error"}),
     Setting({r1, r2}, 1, 1, 2, 1, {"panic"})}

MCReadError == {Setting({r1}, 2, 2, 2, 2, {"read error"})}
=============================================================================
