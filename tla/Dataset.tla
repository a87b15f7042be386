------------------------------- MODULE Dataset -------------------------------
(***************************************************************************)
(* A dataset (query/execute/dataset.go) with its cache of blocks under     *)
(* construction (blockBuilderCache of query/execute/block.go), between the *)
(* transformation that fills it and the N transports downstream.           *)
(*                                                                         *)
(* The calls of the transformation come from one worker, the consumer of   *)
(* its transport; when one returns an error the transport calls Finish     *)
(* with it.  The downstream transports are served by other workers, so     *)
(* every call on one of them is a step of its own.                         *)
(*                                                                         *)
(* A row is a number, a block the set of its rows.  stream[d] is           *)
(* everything that was pushed to transport d; the first done[d] messages   *)
(* have been processed.                                                    *)
(***************************************************************************)
EXTENDS Integers, Sequences, FiniteSets

CONSTANTS
    Key,            \* block keys
    StopOf,         \* StopOf[k], the end of the bounds of block k
    Settings,       \* how datasets are made, see setting
    Time,           \* watermarks and processing times that come
    WatermarkSpecs, \* those that fire whenever the watermark has passed the block
    MaxRows,        \* bound on the number of rows
    Live(_),        \* the states between two evaluations of a trigger of a spec
    New(_),         \* NewTriggerFromSpec
    Fires(_, _),    \* the result of Triggered
    Fired(_, _),    \* the trigger after Triggered
    Ends(_),        \* the result of Finished
    Ended(_),       \* the trigger after Finished
    NoKey           \* no key

VARIABLES
    setting,         \* what is fixed when the dataset is made: accMode, triggerSpec, the
                     \* number of transformations in d.ts; and for this case, a bound on
                     \* the updates and which of "upstream" and "downstream" may fail
    watermark,       \* d.watermark
    processingTime,  \* d.processingTime
    blocks,          \* the keys of cache.blocks
    rows,            \* rows[k], the rows of the builder of k
    trigger,         \* trigger[k]; for a k not in blocks, what a new builder would get
    op,              \* the method of the dataset that runs
    pc,              \* where it is
    todo,            \* the keys its loop over the cache has left
    cur,             \* the key its loop is at
    next,            \* the downstream transformation it calls next
    err,             \* its err, "nil" or "error"
    refs,            \* refs[b], the refCount of the b-th block that was sent
    stream,          \* what was pushed to each transport downstream
    done,            \* how much of it has been processed
    down,            \* "open", "failed" or "finished", for each transport downstream
    arrived,         \* number of rows that came
    received,        \* received[k], those of k that have not been retracted
    updates          \* number of updates so far

timeVars == <<watermark, processingTime, updates>>
cacheVars == <<blocks, rows, trigger>>
loopVars == <<op, todo, cur, next, err>>
downVars == <<stream, done, down>>
rowVars == <<arrived, received>>
vars == <<setting, timeVars, cacheVars, loopVars, pc, refs, downVars, rowVars>>

mode == setting.accMode
spec == setting.triggerSpec
N == setting.ts
MaxUpdates == setting.updates
Faults == setting.faults

Down == 1..N

Specs == {s.triggerSpec : s \in Settings}

Contexts == [stop : {StopOf[k] : k \in Key}, count : 0..MaxRows,
             watermark : Time \cup {0}, processingTime : Time \cup {0}]

ASSUME DatasetAssumption ==
    /\ NoKey \notin Key
    /\ MaxRows \in Nat
    /\ \A s \in Settings :
          /\ s.accMode \in {"Discarding", "Accumulating", "AccumulatingRetracting"}
          /\ s.ts \in Nat \ {0}
          /\ s.updates \in Nat
    /\ Time \subseteq Nat
    /\ StopOf \in [Key -> Int]

\* What the dataset relies on: a trigger says that it has finished only when it has just
\* fired, and otherwise goes on.
ASSUME TriggerAssumption ==
    /\ \A s \in Specs : New(s) \in Live(s)
    /\ \A s \in Specs : \A t \in Live(s), c \in Contexts :
          IF Ends(Fired(t, c)) THEN Fires(t, c) ELSE Ended(Fired(t, c)) \in Live(s)
    /\ \A s \in Specs \cap WatermarkSpecs : \A t \in Live(s), c \in Contexts :
          c.watermark >= c.stop => Fires(t, c)

\* Mutant: the two times of the context are swapped.
ContextSwapped(k) == [stop |-> StopOf[k], count |-> Cardinality(rows[k]),
                      watermark |-> processingTime, processingTime |-> watermark]

\* TriggerContext
Context(k) == [stop |-> StopOf[k], count |-> Cardinality(rows[k]),
               watermark |-> watermark, processingTime |-> processingTime]

Init ==
    /\ setting \in Settings
    /\ watermark = 0 /\ processingTime = 0 /\ updates = 0
    /\ blocks = {}
    /\ rows = [k \in Key |-> {}]
    /\ trigger = [k \in Key |-> New(spec)]
    /\ op = "none" /\ pc = "idle" /\ todo = {} /\ cur = NoKey /\ next = 1 /\ err = "nil"
    /\ refs = << >>
    /\ stream = [d \in Down |-> << >>]
    /\ done = [d \in Down |-> 0]
    /\ down = [d \in Down |-> "open"]
    /\ arrived = 0
    /\ received = [k \in Key |-> {}]

-----------------------------------------------------------------------------
(* The block cache.                                                        *)

\* BlockBuilder makes a builder and its trigger if there is none, and a row is appended.
AppendRow(k, r) ==
    /\ blocks' = blocks \cup {k}
    /\ rows' = [rows EXCEPT ![k] = @ \cup {r}]
    /\ UNCHANGED trigger

DiscardBlock(k) == rows' = [rows EXCEPT ![k] = {}] /\ UNCHANGED <<blocks, trigger>>

ExpireBlock(k) ==
    /\ blocks' = blocks \ {k}
    /\ rows' = [rows EXCEPT ![k] = {}]
    /\ trigger' = [trigger EXCEPT ![k] = New(spec)]

-----------------------------------------------------------------------------
(* The calls of the transformation.                                        *)

\* The transformation adds a row to the block of k.
Process(k) ==
    /\ pc = "idle"
    /\ arrived < MaxRows
    /\ AppendRow(k, arrived + 1)
    /\ arrived' = arrived + 1
    /\ received' = [received EXCEPT ![k] = @ \cup {arrived + 1}]
    /\ UNCHANGED <<setting, timeVars, loopVars, pc, refs, downVars>>

\* The start of a loop over the keys ks.
Loop(method, ks) == op' = method /\ pc' = "loop" /\ todo' = ks /\ cur' = NoKey /\ next' = 1

UpdateWatermark(mark) ==
    /\ pc = "idle"
    /\ updates < MaxUpdates
    /\ watermark' = mark
    /\ updates' = updates + 1
    /\ Loop("watermark", blocks)
    /\ UNCHANGED <<setting, processingTime, cacheVars, err, refs, downVars, rowVars>>

UpdateProcessingTime(time) ==
    /\ pc = "idle"
    /\ updates < MaxUpdates
    /\ processingTime' = time
    /\ updates' = updates + 1
    /\ Loop("processing time", blocks)
    /\ UNCHANGED <<setting, watermark, cacheVars, err, refs, downVars, rowVars>>

\* Finish is called with nil, or with the error of the transformation's own input.
Finish(e) ==
    /\ pc = "idle"
    /\ e = "nil" \/ "upstream" \in Faults
    /\ err' = e
    /\ Loop("finish", IF e = "nil" THEN blocks ELSE {})
    /\ UNCHANGED <<setting, timeVars, cacheVars, refs, downVars, rowVars>>

\* The transformation passes on the retraction of a block.  The cache does not look
\* whether it has the block: DiscardBlock of a missing one is a nil dereference.
RetractBlock(k) ==
    /\ pc = "idle"
    /\ mode = "AccumulatingRetracting"
    /\ updates < MaxUpdates
    /\ updates' = updates + 1
    /\ IF k \in blocks
         THEN /\ DiscardBlock(k)
              /\ received' = [received EXCEPT ![k] = @ \ rows[k]]
              /\ op' = "retract" /\ pc' = "forward" /\ cur' = k /\ next' = 1
              /\ UNCHANGED <<todo, err>>
         ELSE pc' = "panic" /\ UNCHANGED <<cacheVars, loopVars, received>>
    /\ UNCHANGED <<setting, watermark, processingTime, refs, downVars, arrived>>

-----------------------------------------------------------------------------
(* The loop over the cache: evalTriggers, or the one of Finish.            *)

\* Mutant: a single reference for all of d.ts.
TriggerBlockOneRef ==
    /\ refs' = Append(refs, 1)
    /\ pc' = IF mode = "AccumulatingRetracting" THEN "retract" ELSE "send"

\* triggerBlock starts with a copy of the block, to which all of d.ts will hold a
\* reference.
TriggerBlock ==
    /\ refs' = Append(refs, N)
    /\ pc' = IF mode = "AccumulatingRetracting" THEN "retract" ELSE "send"

\* One iteration of the loop of evalTriggers.
Evaluate(k) ==
    /\ pc = "loop"
    /\ op \in {"watermark", "processing time"}
    /\ err = "nil"
    /\ k \in todo
    /\ todo' = todo \ {k}
    /\ cur' = k
    /\ next' = 1
    /\ trigger' = [trigger EXCEPT ![k] = Fired(@, Context(k))]
    /\ IF Fires(trigger[k], Context(k)) THEN TriggerBlock ELSE pc' = "check" /\ UNCHANGED refs
    /\ UNCHANGED <<setting, timeVars, blocks, rows, op, err, downVars, rowVars>>

\* One iteration of the loop of Finish.
FinishBlock(k) ==
    /\ pc = "loop"
    /\ op = "finish"
    /\ err = "nil"
    /\ k \in todo
    /\ todo' = todo \ {k}
    /\ cur' = k
    /\ next' = 1
    /\ TriggerBlock
    /\ UNCHANGED <<setting, timeVars, cacheVars, op, err, downVars, rowVars>>

\* A transport accepts a message unless it has finished, and then returns its error.
Push(d, m) == stream' = [stream EXCEPT ![d] = Append(@, m)] /\ UNCHANGED <<done, down>>

\* triggerBlock's loop of RetractBlock.
RetractOld ==
    /\ pc = "retract"
    /\ IF down[next] = "failed"
         THEN err' = "error" /\ pc' = "check" /\ UNCHANGED <<next, downVars>>
         ELSE /\ Push(next, [type |-> "retract", key |-> cur])
              /\ IF next < N THEN next' = next + 1 /\ UNCHANGED pc ELSE next' = 1 /\ pc' = "send"
              /\ UNCHANGED err
    /\ UNCHANGED <<setting, timeVars, cacheVars, op, todo, cur, refs, rowVars>>

\* Mutant: the error of a transport is dropped.
SendForgetsError ==
    /\ pc = "send"
    /\ IF down[next] = "failed"
         THEN pc' = "check" /\ UNCHANGED <<next, downVars, cacheVars>>
         ELSE /\ Push(next, [type |-> "process", key |-> cur, rows |-> rows[cur],
                             block |-> Len(refs)])
              /\ IF next < N
                   THEN next' = next + 1 /\ UNCHANGED <<pc, cacheVars>>
                   ELSE /\ next' = 1 /\ pc' = "check"
                        /\ IF mode = "Discarding" THEN DiscardBlock(cur) ELSE UNCHANGED cacheVars
    /\ UNCHANGED <<setting, timeVars, op, todo, cur, err, refs, rowVars>>

\* triggerBlock's loop of Process.
Send ==
    /\ pc = "send"
    /\ IF down[next] = "failed"
         THEN err' = "error" /\ pc' = "check" /\ UNCHANGED <<next, downVars, cacheVars>>
         ELSE /\ Push(next, [type |-> "process", key |-> cur, rows |-> rows[cur],
                             block |-> Len(refs)])
              /\ IF next < N
                   THEN next' = next + 1 /\ UNCHANGED <<pc, cacheVars>>
                   ELSE /\ next' = 1 /\ pc' = "check"
                        /\ IF mode = "Discarding" THEN DiscardBlock(cur) ELSE UNCHANGED cacheVars
              /\ UNCHANGED err
    /\ UNCHANGED <<setting, timeVars, op, todo, cur, refs, rowVars>>

\* Mutant: every block expires, whether its trigger has finished or not.
CheckExpiresAll ==
    /\ pc = "check"
    /\ ExpireBlock(cur)
    /\ pc' = "loop"
    /\ cur' = NoKey
    /\ UNCHANGED <<setting, timeVars, op, todo, next, err, refs, downVars, rowVars>>

\* The end of an iteration: the block expires if its trigger has finished, and always in
\* Finish; with or without an error.
Check ==
    /\ pc = "check"
    /\ IF op = "finish" \/ Ends(trigger[cur])
         THEN ExpireBlock(cur)
         ELSE trigger' = [trigger EXCEPT ![cur] = Ended(@)] /\ UNCHANGED <<blocks, rows>>
    /\ pc' = "loop"
    /\ cur' = NoKey
    /\ UNCHANGED <<setting, timeVars, op, todo, next, err, refs, downVars, rowVars>>

\* The end of the loop; after an error the rest of the keys is skipped.  An error of an
\* update goes back to the transport of the transformation, which calls Finish with it.
LoopDone ==
    /\ pc = "loop"
    /\ todo = {} \/ err = "error"
    /\ pc' = "forward"
    /\ next' = 1
    /\ op' = IF err = "error" THEN "finish" ELSE op
    /\ todo' = {}
    /\ UNCHANGED <<setting, timeVars, cacheVars, cur, err, refs, downVars, rowVars>>

-----------------------------------------------------------------------------
(* The call is passed on to the transformations downstream.                *)

Forwarded ==
    CASE op = "watermark" -> [type |-> "watermark", mark |-> watermark]
      [] op = "processing time" -> [type |-> "processing time", time |-> processingTime]
      [] op = "retract" -> [type |-> "retract", key |-> cur]
      [] op = "finish" -> [type |-> "finish", err |-> err]

\* The next transformation, or the end of the call: the transformation goes on with its
\* next message, or it has finished.
Advance ==
    IF next < N THEN next' = next + 1 /\ UNCHANGED <<pc, op, cur>>
    ELSE /\ next' = 1 /\ op' = "none" /\ cur' = NoKey
         /\ pc' = IF op = "finish" THEN "done" ELSE "idle"

\* Mutant: Finish gives up at the first transport that refuses.
ForwardGivesUp ==
    /\ pc = "forward"
    /\ IF down[next] # "failed" THEN Push(next, Forwarded) /\ Advance /\ UNCHANGED err
       ELSE /\ op' = "none" /\ pc' = "done" /\ next' = 1 /\ cur' = NoKey
            /\ UNCHANGED <<err, downVars>>
    /\ UNCHANGED <<setting, timeVars, cacheVars, todo, refs, rowVars>>

\* A transport that has failed refuses an update with its error, and the update becomes
\* a Finish; it ignores a Finish.
Forward ==
    /\ pc = "forward"
    /\ IF down[next] # "failed" THEN Push(next, Forwarded) /\ Advance /\ UNCHANGED err
       ELSE IF op = "finish" THEN Advance /\ UNCHANGED <<err, downVars>>
       ELSE /\ op' = "finish" /\ err' = "error" /\ next' = 1 /\ cur' = NoKey
            /\ UNCHANGED <<pc, downVars>>
    /\ UNCHANGED <<setting, timeVars, cacheVars, todo, refs, rowVars>>

-----------------------------------------------------------------------------
(* The transports downstream (processMessages and processMessage).         *)

NextMessage(d) == stream[d][done[d] + 1]

\* A block is released after it has been processed.
Release(m) ==
    refs' = IF m.type = "process" THEN [refs EXCEPT ![m.block] = @ - 1] ELSE refs

Consume(d) ==
    /\ down[d] = "open"
    /\ done[d] < Len(stream[d])
    /\ Release(NextMessage(d))
    /\ done' = [done EXCEPT ![d] = @ + 1]
    /\ down' = [down EXCEPT ![d] = IF NextMessage(d).type = "finish" THEN "finished" ELSE @]
    /\ UNCHANGED <<setting, timeVars, cacheVars, loopVars, pc, stream, rowVars>>

\* The transformation downstream returns an error: its transport is finished.
ConsumeFails(d) ==
    /\ "downstream" \in Faults
    /\ down[d] = "open"
    /\ done[d] < Len(stream[d])
    /\ NextMessage(d).type # "finish"
    /\ Release(NextMessage(d))
    /\ done' = [done EXCEPT ![d] = @ + 1]
    /\ down' = [down EXCEPT ![d] = "failed"]
    /\ UNCHANGED <<setting, timeVars, cacheVars, loopVars, pc, stream, rowVars>>

-----------------------------------------------------------------------------

Upstream ==
    \/ \E k \in Key : Process(k) \/ RetractBlock(k)
    \/ \E t \in Time : UpdateWatermark(t) \/ UpdateProcessingTime(t)
    \/ \E e \in {"nil", "error"} : Finish(e)

Step ==
    \/ \E k \in Key : Evaluate(k) \/ FinishBlock(k)
    \/ RetractOld
    \/ Send
    \/ Check
    \/ LoopDone
    \/ Forward

Next ==
    \/ Upstream
    \/ Step
    \/ \E d \in Down : Consume(d) \/ ConsumeFails(d)

Spec == Init /\ [][Next]_vars

\* The worker that runs the dataset and those downstream go on; the transformation's
\* input ends.
FairSpec ==
    /\ Spec
    /\ WF_vars(Step)
    /\ WF_vars(Finish("nil"))
    /\ WF_vars(\E d \in Down : Consume(d))

-----------------------------------------------------------------------------
(* Properties.                                                             *)

Message ==
    [type : {"process"}, key : Key, rows : SUBSET (1..MaxRows), block : Nat \ {0}]
        \cup [type : {"retract"}, key : Key]
        \cup [type : {"watermark"}, mark : Time]
        \cup [type : {"processing time"}, time : Time]
        \cup [type : {"finish"}, err : {"nil", "error"}]

\* The dataset's fields, its cache and its messages have their types: the method is at a
\* key of the cache whenever it needs one, and a block that was not created holds no row.
TypeOK ==
    /\ setting \in Settings
    /\ watermark \in Time \cup {0} /\ processingTime \in Time \cup {0}
    /\ updates \in 0..MaxUpdates
    /\ blocks \subseteq Key
    /\ rows \in [Key -> SUBSET (1..MaxRows)]
    /\ \A k \in Key \ blocks : rows[k] = {}
    /\ op \in {"none", "watermark", "processing time", "retract", "finish"}
    /\ pc \in {"idle", "loop", "retract", "send", "check", "forward", "done", "panic"}
    /\ todo \subseteq blocks \ {cur}
    /\ pc \in {"retract", "send", "check"} => cur \in blocks
    /\ next \in Down
    /\ err \in {"nil", "error"}
    /\ refs \in Seq(Int)
    /\ stream \in [Down -> Seq(Message)]
    /\ \A d \in Down : done[d] \in 0..Len(stream[d])
    /\ down \in [Down -> {"open", "failed", "finished"}]
    /\ arrived \in 0..MaxRows
    /\ \A k \in Key : rows[k] \subseteq 1..arrived /\ received[k] \subseteq 1..arrived

\* The rows of k in the blocks that were pushed to d.
Delivered(d, k) ==
    UNION {stream[d][i].rows : i \in {j \in 1..Len(stream[d]) :
               stream[d][j].type = "process" /\ stream[d][j].key = k}}

\* As long as no call has failed, every row that was received is in the cache or has been
\* pushed downstream to everyone: triggering, discarding (dataset.go:143) and expiring
\* (dataset.go:124) blocks in whatever order loses none.
NothingLost ==
    err = "nil" =>
        \A d \in Down, k \in Key : received[k] \subseteq rows[k] \cup Delivered(d, k)

\* A downstream transformation that is told Finish(nil) has been sent every row: an error
\* on the way to any of the transformations is not forgotten (dataset.go:179, 186).
FinishIsComplete ==
    \A d \in Down : \A i \in 1..Len(stream[d]) :
        stream[d][i] = [type |-> "finish", err |-> "nil"] =>
            \A k \in Key : received[k] \subseteq Delivered(d, k)

\* The watermark is passed on behind the data: before UpdateWatermark(mark) reaches a
\* transformation downstream, every row received for a block that ends by mark has been
\* pushed to all of them (dataset.go:84-91), if the trigger listens to the watermark.
WatermarkBehindData ==
    pc = "forward" /\ op = "watermark" /\ spec \in WatermarkSpecs =>
        \A k \in Key, d \in Down :
            StopOf[k] <= watermark => received[k] \subseteq Delivered(d, k)

\* A block's columns are cleared when the last reference goes (block.go:775-782): a block
\* that a transport downstream has yet to process, or that is still being handed out, is
\* never cleared.
NoUseAfterClear ==
    /\ \A d \in Down : \A i \in (done[d] + 1)..Len(stream[d]) :
          stream[d][i].type = "process" => refs[stream[d][i].block] > 0
    /\ pc = "send" => refs[Len(refs)] > 0

\* Once Finish has been called, or an update has failed, every transformation downstream
\* finishes or has failed itself.
FinishArrives ==
    op = "finish" ~> \A d \in Down : down[d] \in {"finished", "failed"}
=============================================================================
