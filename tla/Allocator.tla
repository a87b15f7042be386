------------------------------ MODULE Allocator ------------------------------
(***************************************************************************)
(* The accounting of a query's memory (query/execute/allocator.go) by the  *)
(* workers that append to the columns of their builders, copy them to      *)
(* blocks and release blocks of each other, one action per atomic access   *)
(* to shared memory.  Elements have size 1.                                *)
(***************************************************************************)
EXTENDS Sums

CONSTANTS
    Worker,   \* the workers of the pool; each fills the builder of one column
    Limit,    \* a.Limit
    Chunk,    \* how many values an append may add
    MaxLen    \* bound on the length of a column

ASSUME AllocatorAssumption ==
    /\ IsFiniteSet(Worker)
    /\ Limit \in Nat
    /\ Chunk \subseteq Nat
    /\ MaxLen \in Nat

VARIABLES
    bytesAllocated,  \* a.bytesAllocated
    maxAllocated,    \* a.maxAllocated
    column,          \* column[w], the length and the capacity of the slice of w's builder
    block,           \* block[w], the size of the copy of it that is downstream, or 0
    call,            \* call[w], what w asks the allocator for and has read from it
    peak             \* the largest value that bytesAllocated has had

allocVars == <<bytesAllocated, maxAllocated, column, block, call, peak>>

\* The calls of account: on behalf of which operation, how much, and the column
\* there will be.  Free and the second count of account give the amount back.
NoCall == [pc |-> "idle", op |-> "none", n |-> 0, len |-> 0, c |-> 0, max |-> 0]

AllocInit ==
    /\ bytesAllocated = 0 /\ maxAllocated = 0 /\ peak = 0
    /\ column = [w \in Worker |-> [len |-> 0, cap |-> 0]]
    /\ block = [w \in Worker |-> 0]
    /\ call = [w \in Worker |-> NoCall]

\* The loop of count goes on with the value that the addition returned.
countAdd(w, n, k) ==
    /\ bytesAllocated' = bytesAllocated + n
    /\ peak' = IF bytesAllocated' > peak THEN bytesAllocated' ELSE peak
    /\ call' = [call EXCEPT ![w] = [k EXCEPT !.pc = "load", !.c = bytesAllocated']]
    /\ UNCHANGED maxAllocated

countLoad(w) ==
    /\ call[w].pc = "load"
    /\ call' = [call EXCEPT ![w].max = maxAllocated,
                            ![w].pc = IF call[w].c > maxAllocated THEN "swap" ELSE "counted"]
    /\ UNCHANGED <<bytesAllocated, maxAllocated, column, block, peak>>

\* A mutant: a store without a comparison.
countStore(w) ==
    /\ call[w].pc = "swap"
    /\ maxAllocated' = call[w].c /\ call' = [call EXCEPT ![w].pc = "counted"]
    /\ UNCHANGED <<bytesAllocated, column, block, peak>>

countSwap(w) ==
    /\ call[w].pc = "swap"
    /\ IF maxAllocated = call[w].max
         THEN maxAllocated' = call[w].c /\ call' = [call EXCEPT ![w].pc = "counted"]
         ELSE UNCHANGED maxAllocated /\ call' = [call EXCEPT ![w].pc = "load"]
    /\ UNCHANGED <<bytesAllocated, column, block, peak>>

\* The capacity that append of the language's runtime gives a slice.
grown(s, n) ==
    IF s.len + n <= s.cap THEN s.cap
    ELSE IF 2 * s.cap > s.len + n THEN 2 * s.cap ELSE s.len + n

\* AppendInts and the like: without a call of account while there is more room than needed.
AppendFits(w, n) ==
    /\ call[w].pc = "idle" /\ column[w].len + n <= MaxLen
    /\ column[w].cap - column[w].len > n
    /\ column' = [column EXCEPT ![w].len = @ + n]
    /\ UNCHANGED <<bytesAllocated, maxAllocated, block, call, peak>>

AppendGrows(w, n) ==
    /\ call[w].pc = "idle" /\ column[w].len + n <= MaxLen
    /\ column[w].cap - column[w].len <= n
    /\ LET diff == grown(column[w], n) - column[w].cap
       IN  countAdd(w, diff, [NoCall EXCEPT !.op = "append", !.n = diff, !.len = column[w].len + n])
    /\ UNCHANGED <<column, block>>

\* The copy of a column, for the block that Process of the next transformation gets.
CopyColumn(w) ==
    /\ call[w].pc = "idle" /\ column[w].len > 0 /\ block[w] = 0
    /\ LET l == column[w].len
       IN  countAdd(w, l, [NoCall EXCEPT !.op = "copy", !.n = l, !.len = l])
    /\ UNCHANGED <<column, block>>

\* The last reference to a block is released, by any worker, and clears its columns.
ClearBlock(w, v) ==
    /\ call[w].pc = "idle" /\ block[v] > 0
    /\ block' = [block EXCEPT ![v] = 0]
    /\ countAdd(w, -block[v], [NoCall EXCEPT !.op = "free"])
    /\ UNCHANGED column

\* A mutant: the limit is not looked at.
GrantUnchecked(w) ==
    /\ call[w].pc = "counted" /\ call[w].op # "refused"
    /\ column' = IF call[w].op # "append" THEN column
                 ELSE [column EXCEPT ![w] = [len |-> call[w].len, cap |-> @.cap + call[w].n]]
    /\ block' = IF call[w].op # "copy" THEN block ELSE [block EXCEPT ![w] = call[w].n]
    /\ call' = [call EXCEPT ![w] = NoCall]
    /\ UNCHANGED <<bytesAllocated, maxAllocated, peak>>

\* The end of account, or of Free.
Grant(w) ==
    /\ call[w].pc = "counted"
    /\ call[w].op # "refused"
    /\ call[w].op \in {"append", "copy"} => call[w].c <= Limit
    /\ column' = IF call[w].op # "append" THEN column
                 ELSE [column EXCEPT ![w] = [len |-> call[w].len, cap |-> @.cap + call[w].n]]
    /\ block' = IF call[w].op # "copy" THEN block ELSE [block EXCEPT ![w] = call[w].n]
    /\ call' = [call EXCEPT ![w] = NoCall]
    /\ UNCHANGED <<bytesAllocated, maxAllocated, peak>>

\* Too much: the amount is given back,
GiveBack(w) ==
    /\ call[w].pc = "counted" /\ call[w].op \in {"append", "copy"} /\ call[w].c > Limit
    /\ countAdd(w, -call[w].n, [call[w] EXCEPT !.op = "refused"])
    /\ UNCHANGED <<column, block>>

\* and the worker panics.
Panic(w) ==
    /\ call[w].pc = "counted" /\ call[w].op = "refused"
    /\ call' = [call EXCEPT ![w].pc = "panicked"]
    /\ UNCHANGED <<bytesAllocated, maxAllocated, column, block, peak>>

AllocNext ==
    \E w \in Worker :
        \/ countLoad(w) \/ countSwap(w)
        \/ \E n \in Chunk : AppendFits(w, n) \/ AppendGrows(w, n)
        \/ CopyColumn(w)
        \/ \E v \in Worker : ClearBlock(w, v)
        \/ Grant(w) \/ GiveBack(w) \/ Panic(w)

AllocSpec == AllocInit /\ [][AllocNext]_allocVars

-----------------------------------------------------------------------------

(* However the calls of account and Free interleave, what the workers have  *)
(* been granted and not given back stays within the limit of the query;     *)
(* amounts that are counted before they are refused never let another call  *)
(* through, and a block that is cleared makes room for its size only.       *)
WithinLimit ==
    SumOver([w \in Worker |-> column[w].cap + block[w]], Worker) <= Limit

Counting(w) == call[w].pc \in {"load", "swap"}

(* When no worker is inside count, Max reports the largest amount that was  *)
(* ever counted: no race between the addition and the comparison and swap   *)
(* of the loop loses a maximum or overwrites it with a smaller one.         *)
MaxReached ==
    (\A w \in Worker : ~Counting(w)) => maxAllocated = peak
=============================================================================
