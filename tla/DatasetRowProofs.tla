-------------------------- MODULE DatasetRowProofs --------------------------
(***************************************************************************)
(* What a dataset promises to those downstream: Finish(nil) and watermarks *)
(* come behind the data, and a block is cleared when the last transport    *)
(* has processed it and not before.  The inductive invariant DatasetInv    *)
(* has a part for each of the first two (Emptied, Mark); Referenced says   *)
(* that a block is sent at most once to each transport and that its count  *)
(* is the number of those that have not released it.                       *)
(***************************************************************************)
EXTENDS DatasetProofs

USE SMTT(30), ZenonT(30)

\* The blocks that Finish has yet to expire; and who has been told of the end.
Emptied ==
    /\ op = "finish" /\ err = "nil" /\ (pc = "loop" \/ AtKey) => blocks \subseteq todo \cup {cur}
    /\ op = "finish" /\ err = "nil" /\ pc = "forward" => blocks = {}
    /\ \A d \in Down : \A i \in 1..Len(stream[d]) :
          stream[d][i].type = "finish" => pc = "done" \/ (pc = "forward" /\ op = "finish")
    /\ FinishIsComplete

\* No step leaves a block behind Finish.
LEMMA EmptiedStep == Typed /\ Control /\ Kept /\ Emptied /\ [Next]_vars => Emptied'
<1> SUFFICES ASSUME Typed, Control, Kept, Emptied, [Next]_vars PROVE Emptied'
  OBVIOUS
<1>f. Down' = Down /\ NoKey \notin Key /\ blocks \subseteq Key
  BY Fixed, DatasetAssumption DEF Typed, TypedCache
<1>g. \A d \in Down : \A k : Delivered(d, k) \subseteq Delivered(d, k)'
  BY DeliveredGrows
<1> DEFINE Told == \E d \in Down : \E i \in 1..Len(stream[d]) : stream[d][i].type = "finish"
           Over == pc = "done" \/ (pc = "forward" /\ op = "finish")
<1>0. ~Over => ~Told
  BY DEF Emptied
\* A step that pushes no finish and takes no row after one.
<1>1. ASSUME \A d \in Down : \A i \in 1..Len(stream'[d]) :
                stream'[d][i].type = "finish" => i \in 1..Len(stream[d]) /\ stream[d][i] = stream'[d][i],
             Over => Over' /\ UNCHANGED received
      PROVE  /\ \A d \in Down : \A i \in 1..Len(stream'[d]) : stream'[d][i].type = "finish" => Over'
             /\ FinishIsComplete'
  <2>1. ASSUME NEW d \in Down, NEW i \in 1..Len(stream'[d]), stream'[d][i].type = "finish"
        PROVE  Over /\ i \in 1..Len(stream[d]) /\ stream[d][i] = stream'[d][i]
    BY <1>0, <1>1, <2>1
  <2>2. ASSUME NEW d \in Down, NEW i \in 1..Len(stream'[d]), stream'[d][i] = [type |-> "finish", err |-> "nil"]
        PROVE  \A k \in Key : received'[k] \subseteq Delivered(d, k)'
    <3>1. stream'[d][i].type = "finish"
      BY <2>2
    <3>2. Over /\ i \in 1..Len(stream[d]) /\ stream[d][i] = [type |-> "finish", err |-> "nil"]
      BY <2>1, <2>2, <3>1
    <3>3. \A k \in Key : received[k] \subseteq Delivered(d, k)
      BY <3>2 DEF Emptied, FinishIsComplete
    <3>4. QED  BY <1>1, <1>g, <3>2, <3>3
  <2>3. QED  BY <1>f, <1>1, <2>1, <2>2 DEF FinishIsComplete
<1>2. ASSUME UNCHANGED stream, Over => Over' /\ UNCHANGED received
      PROVE  /\ \A d \in Down : \A i \in 1..Len(stream'[d]) : stream'[d][i].type = "finish" => Over'
             /\ FinishIsComplete'
  BY <1>1, <1>2
<1>3. ASSUME NEW m \in Message, Push(next, m), m.type # "finish", Over => Over' /\ UNCHANGED received
      PROVE  /\ \A d \in Down : \A i \in 1..Len(stream'[d]) : stream'[d][i].type = "finish" => Over'
             /\ FinishIsComplete'
  <2>1. /\ next \in Down
        /\ \A d \in Down : d # next => stream'[d] = stream[d]
        /\ Len(stream'[next]) = Len(stream[next]) + 1
        /\ stream'[next][Len(stream[next]) + 1] = m
        /\ \A i \in 1..Len(stream[next]) : stream'[next][i] = stream[next][i]
        /\ Len(stream[next]) \in Nat
    BY <1>3, Fields, PushFacts DEF Push
  <2>2. \A i \in 1..Len(stream'[next]) : i \in 1..Len(stream[next]) \/ i = Len(stream[next]) + 1
    BY <2>1
  <2>3. QED  BY <1>1, <1>3, <2>1, <2>2
<1> HIDE DEF Told
<1>4. CASE Upstream
  <2>1. pc = "idle" /\ UNCHANGED stream /\ (op' = "finish" => pc' = "loop" \/ op = "finish")
    BY <1>4 DEF Upstream, Process, RetractBlock, UpdateWatermark, UpdateProcessingTime, Finish, Loop,
                downVars, loopVars
  <2>2. op' = "finish" => pc' = "loop" /\ UNCHANGED blocks /\ (err' = "nil" => todo' = blocks)
    BY <1>4 DEF Upstream, Process, RetractBlock, UpdateWatermark, UpdateProcessingTime, Finish, Loop, Control,
                cacheVars, loopVars
  <2>a. /\ \A d \in Down : \A i \in 1..Len(stream'[d]) : stream'[d][i].type = "finish" => Over'
        /\ FinishIsComplete'
    BY <1>2, <2>1
  <2>b. QED  BY <1>f, <2>1, <2>2, <2>a DEF Emptied, AtKey
<1>5. ASSUME NEW k \in Key, Evaluate(k) \/ FinishBlock(k) PROVE Emptied'
  <2>1. /\ pc = "loop" /\ cur = NoKey /\ UNCHANGED <<stream, op, err, blocks>> /\ todo' = todo \ {k} /\ cur' = k
        /\ pc' \in {"retract", "send", "check"}
    BY <1>5 DEF Evaluate, FinishBlock, TriggerBlock, downVars, cacheVars, Control
  <2>a. /\ \A d \in Down : \A i \in 1..Len(stream'[d]) : stream'[d][i].type = "finish" => Over'
        /\ FinishIsComplete'
    BY <1>2, <2>1
  <2>b. QED  BY <1>f, <2>1, <2>a DEF Emptied, AtKey
<1>6. CASE RetractOld
  <2>1. /\ pc = "retract" /\ UNCHANGED <<op, blocks, todo, cur>> /\ pc' \in {"retract", "send", "check"}
        /\ err' = "error" \/ UNCHANGED err
        /\ UNCHANGED stream \/ Push(next, Retracted)
    BY <1>6 DEF RetractOld, downVars, cacheVars, Retracted
  <2>2. Retracted \in Message /\ Retracted.type # "finish"
    BY <2>1, HandedOut
  <2>3. \A d \in Down : \A i \in 1..Len(stream'[d]) : stream'[d][i].type = "finish" => Over'
    BY <1>2, <1>3, <2>1, <2>2
  <2>4. FinishIsComplete'
    BY <1>2, <1>3, <2>1, <2>2
  <2>5. QED  BY <1>f, <2>1, <2>3, <2>4 DEF Emptied, AtKey
<1>7. CASE Send
  <2>1. /\ pc = "send" /\ UNCHANGED <<op, blocks, todo, cur>> /\ pc' \in {"send", "check"}
        /\ err' = "error" \/ UNCHANGED err
        /\ UNCHANGED stream \/ Push(next, Sent)
    BY <1>7 DEF Send, DiscardBlock, downVars, cacheVars, Sent
  <2>2. Sent \in Message /\ Sent.type # "finish"
    BY <2>1, HandedOut
  <2>3. \A d \in Down : \A i \in 1..Len(stream'[d]) : stream'[d][i].type = "finish" => Over'
    BY <1>2, <1>3, <2>1, <2>2
  <2>4. FinishIsComplete'
    BY <1>2, <1>3, <2>1, <2>2
  <2>5. QED  BY <1>f, <2>1, <2>3, <2>4 DEF Emptied, AtKey
<1>8. CASE Check
  <2>1. /\ pc = "check" /\ UNCHANGED <<op, err, todo, stream>> /\ pc' = "loop"
        /\ op = "finish" => blocks' = blocks \ {cur}
    BY <1>8 DEF Check, ExpireBlock, downVars
  <2>a. /\ \A d \in Down : \A i \in 1..Len(stream'[d]) : stream'[d][i].type = "finish" => Over'
        /\ FinishIsComplete'
    BY <1>2, <2>1
  <2>b. QED  BY <1>f, <2>1, <2>a DEF Emptied, AtKey
<1>9. CASE LoopDone
  <2>1. /\ pc = "loop" /\ UNCHANGED <<err, stream, blocks>> /\ pc' = "forward" /\ cur = NoKey
        /\ todo = {} \/ err = "error"
        /\ op' = IF err = "error" THEN "finish" ELSE op
    BY <1>9 DEF LoopDone, cacheVars, downVars, Control
  <2>2. op' = "finish" /\ err' = "nil" => blocks' = {}
    BY <1>f, <2>1 DEF Emptied
  <2>a. /\ \A d \in Down : \A i \in 1..Len(stream'[d]) : stream'[d][i].type = "finish" => Over'
        /\ FinishIsComplete'
    BY <1>2, <2>1
  <2>b. QED  BY <1>f, <2>1, <2>2, <2>a DEF Emptied, AtKey
<1>10. CASE Forward
  <2>1. /\ pc = "forward" /\ UNCHANGED <<received, blocks>>
        /\ \/ pc' = "forward" /\ UNCHANGED <<op, err>>
           \/ pc' = "forward" /\ op' = "finish" /\ err' = "error" /\ op # "finish"
           \/ op' = "none" /\ UNCHANGED err /\ pc' = IF op = "finish" THEN "done" ELSE "idle"
        /\ UNCHANGED stream \/ (Push(next, Forwarded) /\ UNCHANGED err)
    BY <1>10 DEF Forward, Advance, cacheVars, downVars, rowVars
  <2>2. Over => Over' /\ UNCHANGED received
    BY <2>1
  <2>3. CASE UNCHANGED stream \/ op # "finish"
    <3>1. Forwarded \in Message /\ (op # "finish" => Forwarded.type # "finish")
      BY <2>1, ForwardedMessage
    <3>2. \A d \in Down : \A i \in 1..Len(stream'[d]) : stream'[d][i].type = "finish" => Over'
      BY <1>2, <1>3, <2>1, <2>2, <2>3, <3>1
    <3>3. FinishIsComplete'
      BY <1>2, <1>3, <2>1, <2>2, <2>3, <3>1
    <3>4. QED  BY <1>f, <2>1, <3>2, <3>3 DEF Emptied, AtKey
  <2>4. CASE Push(next, Forwarded) /\ UNCHANGED err /\ op = "finish"
    <3>1. Over' /\ Forwarded = [type |-> "finish", err |-> err] /\ Forwarded \in Message
      BY <2>1, <2>4, ForwardedMessage
    <3>2. /\ next \in Down
          /\ \A d \in Down : d # next => stream'[d] = stream[d]
          /\ Len(stream'[next]) = Len(stream[next]) + 1
          /\ stream'[next][Len(stream[next]) + 1] = Forwarded
          /\ \A i \in 1..Len(stream[next]) : stream'[next][i] = stream[next][i]
          /\ Len(stream[next]) \in Nat
      BY <2>4, <3>1, Fields, PushFacts DEF Push
    <3>3. \A i \in 1..Len(stream'[next]) : i \in 1..Len(stream[next]) \/ i = Len(stream[next]) + 1
      BY <3>2
    <3>4. ASSUME NEW d \in Down, NEW i \in 1..Len(stream'[d]), stream'[d][i] = [type |-> "finish", err |-> "nil"]
          PROVE  \A k \in Key : received'[k] \subseteq Delivered(d, k)'
      <4>1. CASE i \in 1..Len(stream[d]) /\ stream[d][i] = stream'[d][i]
        <5>1. \A k \in Key : received[k] \subseteq Delivered(d, k)
          BY <3>4, <4>1 DEF Emptied, FinishIsComplete
        <5>2. QED  BY <1>g, <2>1, <5>1
      <4>2. CASE d = next /\ i = Len(stream[d]) + 1
        <5>1. err = "nil"
          BY <3>1, <3>2, <3>4, <4>2
        <5>2. blocks = {}
          BY <2>1, <2>4, <5>1 DEF Emptied
        <5>3. \A k \in Key : rows[k] = {} /\ received[k] \subseteq rows[k] \cup Delivered(d, k)
          BY <5>1, <5>2 DEF Typed, TypedCache, Kept, NothingLost
        <5>4. QED  BY <1>g, <2>1, <5>3
      <4>3. QED  BY <3>2, <3>3, <4>1, <4>2
    <3>5. QED  BY <1>f, <2>1, <2>4, <3>1, <3>4 DEF Emptied, AtKey, FinishIsComplete
  <2>5. QED  BY <2>1, <2>3, <2>4
<1>11. ASSUME UNCHANGED <<stream, received, op, err, pc, todo, cur, blocks>> PROVE Emptied'
  <2>a. /\ \A d \in Down : \A i \in 1..Len(stream'[d]) : stream'[d][i].type = "finish" => Over'
        /\ FinishIsComplete'
    BY <1>2, <1>11
  <2>b. QED  BY <1>f, <1>11, <2>a DEF Emptied, AtKey
<1>12. ASSUME NEW d \in Down, Consume(d) \/ ConsumeFails(d) PROVE Emptied'
  <2>1. UNCHANGED <<stream, received, op, err, pc, todo, cur, blocks>>
    BY <1>12 DEF Consume, ConsumeFails, cacheVars, rowVars, loopVars
  <2>2. QED  BY <1>11, <2>1
<1>13. CASE UNCHANGED vars
  <2>1. UNCHANGED <<stream, received, op, err, pc, todo, cur, blocks>>
    BY <1>13 DEF vars, downVars, cacheVars, rowVars, loopVars
  <2>2. QED  BY <1>11, <2>1
<1>14. QED
  BY <1>4, <1>5, <1>6, <1>7, <1>8, <1>9, <1>10, <1>12, <1>13 DEF Next, Step

-----------------------------------------------------------------------------

\* In UpdateWatermark: the blocks behind the watermark that the loop has dealt with have
\* been delivered.
Mark ==
    op = "watermark" /\ err = "nil" /\ spec \in WatermarkSpecs =>
        \A k \in Key, d \in Down :
            k \notin todo /\ StopOf[k] <= watermark /\ ~(pc \in {"retract", "send"} /\ k = cur)
                => received[k] \subseteq Delivered(d, k)

\* No step passes over such a block.
LEMMA MarkStep == Typed /\ Control /\ Triggers /\ Kept /\ Mark /\ [Next]_vars => Mark'
<1> SUFFICES ASSUME Typed, Control, Triggers, Kept, Mark, [Next]_vars,
                    op' = "watermark", err' = "nil", spec \in WatermarkSpecs,
                    NEW k \in Key, NEW d \in Down, k \notin todo', StopOf[k] <= watermark',
                    ~(pc' \in {"retract", "send"} /\ k = cur')
             PROVE  received'[k] \subseteq Delivered(d, k)'
  BY Fixed DEF Mark
<1>g. Delivered(d, k) \subseteq Delivered(d, k)'
  BY DeliveredGrows
<1>m. ASSUME op = "watermark", err = "nil", k \notin todo, StopOf[k] <= watermark,
             ~(pc \in {"retract", "send"} /\ k = cur)
      PROVE  received[k] \subseteq Delivered(d, k)
  BY <1>m DEF Mark
<1>l. err = "nil" => received[k] \subseteq rows[k] \cup Delivered(d, k)
  BY DEF Kept, NothingLost
<1>1. CASE Upstream
  <2>1. pc = "idle" /\ op = "none" /\ err = "nil"
    BY <1>1 DEF Upstream, Process, RetractBlock, UpdateWatermark, UpdateProcessingTime, Finish, Control
  <2>2. UNCHANGED received /\ todo' = blocks
    BY <1>1, <2>1 DEF Upstream, Process, RetractBlock, UpdateWatermark, UpdateProcessingTime, Finish, Loop,
                      rowVars, loopVars
  <2>3. rows[k] = {}
    BY <2>2 DEF Typed, TypedCache
  <2>4. QED  BY <1>g, <1>l, <2>1, <2>2, <2>3
<1>2. ASSUME NEW j \in Key, Evaluate(j) PROVE received'[k] \subseteq Delivered(d, k)'
  <2>1. /\ pc = "loop" /\ UNCHANGED <<op, err, watermark, received>> /\ todo' = todo \ {j} /\ cur' = j
        /\ Fires(trigger[j], Context(j)) => pc' \in {"retract", "send"}
    BY <1>2 DEF Evaluate, TriggerBlock, timeVars, rowVars
  <2>2. k # j
    BY <1>2, <2>1, EvaluateFacts
  <2>3. QED  BY <1>g, <1>m, <2>1, <2>2
<1>3. ASSUME NEW j \in Key, FinishBlock(j) PROVE FALSE
  BY <1>3 DEF FinishBlock
<1>4. CASE RetractOld
  <2>1. /\ pc = "retract" /\ UNCHANGED <<op, todo, cur, watermark, received>>
        /\ UNCHANGED err /\ pc' \in {"retract", "send"}
    BY <1>4 DEF RetractOld, timeVars, rowVars
  <2>2. QED  BY <1>g, <1>m, <2>1
<1>5. CASE Send
  <2>1. /\ pc = "send" /\ UNCHANGED <<op, todo, cur, watermark, received, err>>
        /\ pc' = "send" \/ (pc' = "check" /\ next = N)
        /\ \A e \in Down, j \in Key : j = cur /\ e <= next => rows[j] \subseteq Delivered(e, j)'
    BY <1>5, SendFacts DEF rowVars
  <2>2. CASE k # cur
    BY <1>g, <1>m, <2>1, <2>2
  <2>3. CASE k = cur
    <3>1. next = N /\ d <= next
      BY <2>1, <2>3, Fields
    <3>2. rows[k] \subseteq Delivered(d, k)'
      BY <2>1, <2>3, <3>1
    <3>3. QED  BY <1>g, <1>l, <2>1, <3>2
  <2>4. QED  BY <2>2, <2>3
<1>6. CASE Check
  <2>1. pc = "check" /\ UNCHANGED <<op, todo, watermark, received, err>>
    BY <1>6 DEF Check, timeVars, rowVars
  <2>2. QED  BY <1>g, <1>m, <2>1
<1>7. CASE LoopDone
  <2>1. pc = "loop" /\ UNCHANGED <<watermark, received, err>> /\ todo = {} /\ op = "watermark"
    BY <1>7 DEF LoopDone, timeVars, rowVars
  <2>2. QED  BY <1>g, <1>m, <2>1
<1>8. CASE Forward
  <2>1. pc = "forward" /\ UNCHANGED <<watermark, received, err, todo, op>>
    BY <1>8 DEF Forward, Advance, timeVars, rowVars
  <2>2. QED  BY <1>g, <1>m, <2>1
<1>9. ASSUME UNCHANGED <<op, err, pc, cur, todo, watermark, received>>
      PROVE  received'[k] \subseteq Delivered(d, k)'
  BY <1>g, <1>m, <1>9
<1>10. ASSUME NEW e \in Down, Consume(e) \/ ConsumeFails(e)
       PROVE  received'[k] \subseteq Delivered(d, k)'
  <2>1. UNCHANGED <<op, err, pc, cur, todo, watermark, received>>
    BY <1>10 DEF Consume, ConsumeFails, timeVars, rowVars, loopVars
  <2>2. QED  BY <1>9, <2>1
<1>11. CASE UNCHANGED vars
  <2>1. UNCHANGED <<op, err, pc, cur, todo, watermark, received>>
    BY <1>11 DEF vars, timeVars, rowVars, loopVars
  <2>2. QED  BY <1>9, <2>1
<1>12. QED
  BY <1>1, <1>2, <1>3, <1>4, <1>5, <1>6, <1>7, <1>8, <1>10, <1>11 DEF Next, Step

-----------------------------------------------------------------------------

\* The inductive invariant.
DatasetInv == BaseInv /\ Emptied /\ Mark

\* Nothing has been received or sent when a dataset starts.
LEMMA DatasetInit == Init => DatasetInv
<1> SUFFICES ASSUME Init PROVE DatasetInv
  OBVIOUS
<1>1. BaseInv
  BY BaseInit
<1>2. /\ \A d \in Down : \A i \in 1..Len(stream[d]) : FALSE
      /\ \A d \in Down : \A i \in 1..done[d] : FALSE
  BY DEF Init
<1>3. Emptied
  BY <1>2 DEF Init, Emptied, FinishIsComplete, AtKey
<1>4. Mark
  BY DEF Init, Mark
<1>5. QED
  BY <1>1, <1>3, <1>4 DEF DatasetInv

\* The invariant holds in every reachable state.
THEOREM DatasetInvariant == Spec => []DatasetInv
<1>1. Init => DatasetInv
  BY DatasetInit
<1>2. DatasetInv /\ [Next]_vars => DatasetInv'
  <2>1. BaseInv => Typed /\ Control /\ Triggers /\ Kept
    BY DEF BaseInv
  <2>2. QED
    BY <2>1, BaseStep, EmptiedStep, MarkStep DEF DatasetInv
<1>3. QED
  BY <1>1, <1>2, PTL DEF Spec

\* Who is told Finish(nil) has been sent every row.
THEOREM FinishesComplete == Spec => []FinishIsComplete
<1>1. DatasetInv => FinishIsComplete
  BY DEF DatasetInv, Emptied
<1>2. QED
  BY <1>1, DatasetInvariant, PTL

\* The watermark is passed on behind the data.
THEOREM WatermarkFollowsData == Spec => []WatermarkBehindData
<1>1. DatasetInv => WatermarkBehindData
  <2>1. SUFFICES ASSUME DatasetInv, pc = "forward", op = "watermark", spec \in WatermarkSpecs,
                        NEW k \in Key, NEW d \in Down, StopOf[k] <= watermark
                 PROVE  received[k] \subseteq Delivered(d, k)
    BY DEF WatermarkBehindData
  <2>2. err = "nil" /\ todo = {}
    BY <2>1 DEF DatasetInv, BaseInv, Control, Typed, TypedLoop
  <2>3. QED
    BY <2>1, <2>2 DEF DatasetInv, BaseInv, Mark
<1>2. QED
  BY <1>1, DatasetInvariant, PTL

-----------------------------------------------------------------------------

\* The i-th message to d is the b-th block that was sent.
Has(d, i, b) == stream[d][i].type = "process" /\ stream[d][i].block = b

\* Who has processed the b-th block.
ReleasedBy(b) == {d \in Down : \E i \in 1..done[d] : Has(d, i, b)}

\* A block is sent at most once to each transport, and its count is the number of those
\* that have not released it.
Referenced ==
    /\ \A d \in Down : \A i \in 1..Len(stream[d]) :
          stream[d][i].type = "process" => stream[d][i].block \in 1..Len(refs)
    /\ \A d \in Down : \A i, j \in 1..Len(stream[d]) : \A b \in 1..Len(refs) :
          Has(d, i, b) /\ Has(d, j, b) => i = j
    /\ pc \in {"retract", "send"} =>
          \A d \in Down : pc = "retract" \/ d >= next =>
              \A i \in 1..Len(stream[d]) : ~Has(d, i, Len(refs))
    /\ \A b \in 1..Len(refs) : refs[b] = N - Cardinality(ReleasedBy(b))

\* The transports that have released a block are some of N.
LEMMA ReleasedSize ==
    ASSUME Typed, NEW b
    PROVE  /\ ReleasedBy(b) \subseteq Down /\ IsFiniteSet(ReleasedBy(b)) /\ Cardinality(ReleasedBy(b)) \in Nat
           /\ \A d \in Down : d \notin ReleasedBy(b) => Cardinality(ReleasedBy(b)) < N
<1>1. Down = 1..N /\ N \in Nat
  BY Fields
<1>2. IsFiniteSet(Down) /\ Cardinality(Down) = N
  BY <1>1, FS_Interval
<1>3. ReleasedBy(b) \subseteq Down
  BY DEF ReleasedBy
<1>4. IsFiniteSet(ReleasedBy(b)) /\ Cardinality(ReleasedBy(b)) \in Nat
  BY <1>2, <1>3, FS_Subset, FS_CardinalityType
<1>5. ASSUME NEW d \in Down, d \notin ReleasedBy(b) PROVE Cardinality(ReleasedBy(b)) < N
  <2>1. ReleasedBy(b) # Down
    BY <1>5
  <2>2. Cardinality(ReleasedBy(b)) <= N /\ (Cardinality(ReleasedBy(b)) = N => ReleasedBy(b) = Down)
    BY <1>2, <1>3, FS_Subset
  <2>3. QED  BY <1>1, <1>4, <2>1, <2>2
<1>6. QED
  BY <1>3, <1>4, <1>5

\* Messages that are yet to be processed do not matter.
LEMMA ReleasedSame ==
    ASSUME Typed, [Next]_vars, UNCHANGED done,
           \A d \in Down : \A i \in 1..Len(stream[d]) : stream'[d][i] = stream[d][i]
    PROVE  \A b : ReleasedBy(b)' = ReleasedBy(b)
<1>1. \A d \in Down : done[d] \in Nat /\ done[d] <= Len(stream[d]) /\ Len(stream[d]) \in Nat
  BY Fields DEF Typed, TypedDown
<1>2. \A d \in Down : \A i \in 1..done[d] : i \in 1..Len(stream[d])
  BY <1>1
<1>3. \A d \in Down : \A i \in 1..done[d] : \A b : Has(d, i, b)' <=> Has(d, i, b)
  BY <1>2 DEF Has
<1>4. Down' = Down
  BY Fixed
<1>5. QED
  BY <1>3, <1>4 DEF ReleasedBy

\* A step that sends and releases nothing.
LEMMA ReferencedSame ==
    ASSUME Typed, Referenced, [Next]_vars, UNCHANGED <<refs, stream, done>>,
           pc' \in {"retract", "send"} => pc \in {"retract", "send"} /\ (pc = "retract" \/ UNCHANGED <<pc, next>>)
    PROVE  Referenced'
<1>1. Down' = Down /\ N' = N /\ \A b : ReleasedBy(b)' = ReleasedBy(b)
  BY Fixed, ReleasedSame
<1>2. \A d, i, b : Has(d, i, b)' <=> Has(d, i, b)
  BY DEF Has
<1>3. (\A b \in 1..Len(refs) : refs[b] = N - Cardinality(ReleasedBy(b)))'
  BY <1>1 DEF Referenced
<1>4. (\A d \in Down : \A i \in 1..Len(stream[d]) :
          stream[d][i].type = "process" => stream[d][i].block \in 1..Len(refs))'
  BY <1>1 DEF Referenced
<1>5. (\A d \in Down : \A i, j \in 1..Len(stream[d]) : \A b \in 1..Len(refs) :
          Has(d, i, b) /\ Has(d, j, b) => i = j)'
  BY <1>1, <1>2 DEF Referenced
<1>6. ASSUME pc' \in {"retract", "send"}, NEW d \in Down, pc' = "retract" \/ d >= next',
             NEW i \in 1..Len(stream[d])
      PROVE  ~Has(d, i, Len(refs))'
  <2>1. pc \in {"retract", "send"} /\ (pc = "retract" \/ d >= next)
    BY <1>6
  <2>2. ~Has(d, i, Len(refs))
    BY <1>6, <2>1 DEF Referenced
  <2>3. QED  BY <2>2 DEF Has
<1>7. (pc \in {"retract", "send"} =>
          \A d \in Down : pc = "retract" \/ d >= next =>
              \A i \in 1..Len(stream[d]) : ~Has(d, i, Len(refs)))'
  BY <1>1, <1>6
<1>8. QED
  BY <1>3, <1>4, <1>5, <1>7 DEF Referenced

\* A new block: no transport has a reference yet, and all of them will.
LEMMA ReferencedNew ==
    ASSUME Typed, Referenced, [Next]_vars, UNCHANGED <<stream, done>>, refs' = Append(refs, N)
    PROVE  Referenced'
<1>1. Down' = Down /\ N' = N /\ N \in Nat /\ \A b : ReleasedBy(b)' = ReleasedBy(b)
  BY Fixed, Fields, ReleasedSame
<1>2. \A d, i, b : Has(d, i, b)' <=> Has(d, i, b)
  BY DEF Has
<1>3. /\ Len(refs) \in Nat /\ Len(refs') = Len(refs) + 1
      /\ refs'[Len(refs) + 1] = N /\ \A b \in 1..Len(refs) : refs'[b] = refs[b]
  <2>1. refs \in Seq(Int)
    BY DEF Typed, TypedDown
  <2>2. QED  BY <1>1, <2>1, NewReference
<1>4. \A b \in 1..Len(refs') : b \in 1..Len(refs) \/ b = Len(refs) + 1
  BY <1>3
<1>5. /\ 1..Len(refs) \subseteq 1..Len(refs') /\ Len(refs) + 1 \notin 1..Len(refs)
  BY <1>3
<1>6. \A d \in Down : \A i \in 1..Len(stream[d]) : ~Has(d, i, Len(refs) + 1)
  BY <1>5 DEF Referenced, Has
<1>7. \A d \in Down : \A i \in 1..done[d] : i \in 1..Len(stream[d])
  <2>1. \A d \in Down : done[d] \in Nat /\ done[d] <= Len(stream[d]) /\ Len(stream[d]) \in Nat
    BY Fields DEF Typed, TypedDown
  <2>2. QED  BY <2>1
<1>8. ReleasedBy(Len(refs) + 1) = {}
  BY <1>6, <1>7 DEF ReleasedBy
<1>9. Cardinality(ReleasedBy(Len(refs) + 1)) = 0
  BY <1>8, FS_EmptySet
<1>10. (\A b \in 1..Len(refs) : refs[b] = N - Cardinality(ReleasedBy(b)))'
  <2>1. ASSUME NEW b \in 1..Len(refs') PROVE refs'[b] = N - Cardinality(ReleasedBy(b)')
    <3>1. CASE b \in 1..Len(refs)
      BY <1>1, <1>3, <3>1 DEF Referenced
    <3>2. CASE b = Len(refs) + 1
      BY <1>1, <1>3, <1>9, <3>2
    <3>3. QED  BY <1>4, <3>1, <3>2
  <2>2. QED  BY <1>1, <2>1
<1>11. (\A d \in Down : \A i \in 1..Len(stream[d]) :
          stream[d][i].type = "process" => stream[d][i].block \in 1..Len(refs))'
  BY <1>1, <1>5 DEF Referenced
<1>12. (\A d \in Down : \A i, j \in 1..Len(stream[d]) : \A b \in 1..Len(refs) :
          Has(d, i, b) /\ Has(d, j, b) => i = j)'
  BY <1>1, <1>2, <1>4, <1>6 DEF Referenced
<1>13. \A d \in Down : \A i \in 1..Len(stream[d]) : ~Has(d, i, Len(refs))'
  BY <1>3, <1>6 DEF Has
<1>14. QED
  BY <1>1, <1>10, <1>11, <1>12, <1>13 DEF Referenced

\* A message is pushed: if it is a block, then the one that is being handed out.
LEMMA ReferencedPush ==
    ASSUME Typed, Control, Referenced, [Next]_vars, NEW m \in Message, Push(next, m), UNCHANGED refs,
           m.type = "process" => pc = "send" /\ m.block = Len(refs) /\ Len(refs) \in Nat \ {0},
           pc' \in {"retract", "send"} =>
               \/ m.type # "process" /\ pc = "retract"
               \/ pc = "send" /\ pc' = "send" /\ next' = next + 1
    PROVE  Referenced'
<1>1. /\ Down' = Down /\ N' = N /\ next \in Down /\ next \in Nat /\ Down \subseteq Nat
      /\ \A d \in Down : d # next => stream'[d] = stream[d]
      /\ Len(stream'[next]) = Len(stream[next]) + 1
      /\ stream'[next][Len(stream[next]) + 1] = m
      /\ \A i \in 1..Len(stream[next]) : stream'[next][i] = stream[next][i]
      /\ Len(stream[next]) \in Nat
  <2>1. /\ \A d \in Down : d # next => stream'[d] = stream[d]
        /\ Len(stream'[next]) = Len(stream[next]) + 1
        /\ stream'[next][Len(stream[next]) + 1] = m
        /\ \A i \in 1..Len(stream[next]) : stream'[next][i] = stream[next][i]
        /\ Len(stream[next]) \in Nat
    BY Fields, PushFacts DEF Push
  <2>2. Down' = Down /\ N' = N /\ next \in Down /\ next \in Nat /\ Down \subseteq Nat
    BY Fields, Fixed
  <2>3. QED  BY <2>1, <2>2
<1>2. \A b : ReleasedBy(b)' = ReleasedBy(b)
  <2>1. \A d \in Down : \A i \in 1..Len(stream[d]) : stream'[d][i] = stream[d][i]
    BY <1>1
  <2>2. UNCHANGED done
    BY DEF Push
  <2>3. QED  BY <2>1, <2>2, ReleasedSame
\* A message is an old one, or the new one.
<1>3. ASSUME NEW d \in Down, NEW i \in 1..Len(stream'[d])
      PROVE  \/ i \in 1..Len(stream[d]) /\ stream'[d][i] = stream[d][i]
             \/ d = next /\ i = Len(stream[next]) + 1 /\ stream'[d][i] = m
  <2>1. CASE d = next
    BY <1>1, <2>1
  <2>2. CASE d # next
    BY <1>1, <2>2
  <2>3. QED  BY <2>1, <2>2
<1>4. (\A b \in 1..Len(refs) : refs[b] = N - Cardinality(ReleasedBy(b)))'
  BY <1>1, <1>2 DEF Referenced
<1>5. (\A d \in Down : \A i \in 1..Len(stream[d]) :
          stream[d][i].type = "process" => stream[d][i].block \in 1..Len(refs))'
  <2>1. m.type = "process" => m.block \in 1..Len(refs)
    OBVIOUS
  <2>2. QED  BY <1>1, <1>3, <2>1 DEF Referenced
<1>6. pc = "send" => \A i \in 1..Len(stream[next]) : ~Has(next, i, Len(refs))
  BY <1>1 DEF Referenced
<1>7. ASSUME NEW d \in Down, NEW i \in 1..Len(stream'[d]), NEW j \in 1..Len(stream'[d]),
             NEW b \in 1..Len(refs),
             Has(d, i, b)', Has(d, j, b)'
      PROVE  i = j
  <2>h. /\ stream'[d][i].type = "process" /\ stream'[d][i].block = b
        /\ stream'[d][j].type = "process" /\ stream'[d][j].block = b
    BY <1>7 DEF Has
  <2>1. CASE /\ i \in 1..Len(stream[d]) /\ stream'[d][i] = stream[d][i]
             /\ j \in 1..Len(stream[d]) /\ stream'[d][j] = stream[d][j]
    BY <2>h, <2>1 DEF Referenced, Has
  <2>2. CASE d = next /\ i = Len(stream[next]) + 1 /\ stream'[d][i] = m
    <3>1. pc = "send" /\ b = Len(refs)
      BY <2>h, <2>2
    <3>2. ~(j \in 1..Len(stream[d]) /\ stream'[d][j] = stream[d][j])
      BY <1>6, <2>h, <2>2, <3>1 DEF Has
    <3>3. QED  BY <1>3, <2>2, <3>2
  <2>3. CASE d = next /\ j = Len(stream[next]) + 1 /\ stream'[d][j] = m
    <3>1. pc = "send" /\ b = Len(refs)
      BY <2>h, <2>3
    <3>2. ~(i \in 1..Len(stream[d]) /\ stream'[d][i] = stream[d][i])
      BY <1>6, <2>h, <2>3, <3>1 DEF Has
    <3>3. QED  BY <1>3, <2>3, <3>2
  <2>4. QED  BY <1>3, <2>1, <2>2, <2>3
<1>8. (\A d \in Down : \A i, j \in 1..Len(stream[d]) : \A b \in 1..Len(refs) :
          Has(d, i, b) /\ Has(d, j, b) => i = j)'
  BY <1>1, <1>7
<1>9. ASSUME pc' \in {"retract", "send"}, NEW d \in Down, pc' = "retract" \/ d >= next',
             NEW i \in 1..Len(stream'[d])
      PROVE  ~Has(d, i, Len(refs))'
  <2>1. CASE i \in 1..Len(stream[d]) /\ stream'[d][i] = stream[d][i]
    <3>1. pc \in {"retract", "send"} /\ (pc = "retract" \/ d >= next)
      BY <1>1, <1>9
    <3>2. ~Has(d, i, Len(refs))
      BY <2>1, <3>1 DEF Referenced
    <3>3. QED  BY <2>1, <3>2 DEF Has
  <2>2. CASE d = next /\ i = Len(stream[next]) + 1 /\ stream'[d][i] = m
    <3>1. m.type # "process"
      BY <1>1, <1>9, <2>2
    <3>2. QED  BY <2>2, <3>1 DEF Has
  <2>3. QED  BY <1>3, <2>1, <2>2
<1>10. (pc \in {"retract", "send"} =>
          \A d \in Down : pc = "retract" \/ d >= next =>
              \A i \in 1..Len(stream[d]) : ~Has(d, i, Len(refs)))'
  BY <1>1, <1>9
<1>11. QED
  BY <1>4, <1>5, <1>8, <1>10 DEF Referenced

\* A block is released by one transport.
LEMMA ReferencedConsume ==
    ASSUME Typed, Control, Referenced, [Next]_vars, NEW d \in Down, Consume(d) \/ ConsumeFails(d)
    PROVE  Referenced'
<1> DEFINE n == done[d] + 1
           m == stream[d][n]
<1>1. /\ UNCHANGED <<stream, pc, next>> /\ done[d] < Len(stream[d]) /\ done' = [done EXCEPT ![d] = @ + 1]
      /\ Len(refs') = Len(refs)
      /\ \A c \in 1..Len(refs) : refs'[c] = IF m.type = "process" /\ c = m.block THEN refs[c] - 1 ELSE refs[c]
  BY ConsumeFacts DEF loopVars, NextMessage
<1>2. Down' = Down /\ N' = N /\ N \in Nat /\ \A e, i, b : Has(e, i, b)' <=> Has(e, i, b)
  BY <1>1, Fixed, Fields DEF Has
<1>3. /\ done \in [Down -> Nat] /\ done[d] \in Nat /\ n \in 1..Len(stream[d])
      /\ \A e \in Down : \A i \in 1..done[e] : i \in 1..Len(stream[e])
  <2>1. done \in [Down -> Nat] /\ \A e \in Down : done[e] <= Len(stream[e]) /\ Len(stream[e]) \in Nat
    BY Fields DEF Typed, TypedDown
  <2>2. done[d] \in Nat /\ done[d] < Len(stream[d]) /\ Len(stream[d]) \in Nat
    BY <1>1, <2>1
  <2>3. n \in 1..Len(stream[d])
    BY <2>2
  <2>4. \A e \in Down : \A i \in 1..done[e] : i \in 1..Len(stream[e])
    BY <2>1
  <2>5. QED  BY <2>1, <2>2, <2>3, <2>4
<1>4. /\ done'[d] = n /\ \A e \in Down : e # d => done'[e] = done[e]
      /\ 1..n = (1..done[d]) \cup {n} /\ n \notin 1..done[d]
  BY <1>1, <1>3
<1>t. m.type = "process" => m.block \in 1..Len(refs)
  BY <1>3 DEF Referenced
<1>h. \A b : Has(d, n, b) <=> m.type = "process" /\ m.block = b
  BY DEF Has
<1> HIDE DEF m, n
<1>5. ASSUME NEW b
      PROVE  ReleasedBy(b)' = IF m.type = "process" /\ m.block = b
                                 THEN ReleasedBy(b) \cup {d} ELSE ReleasedBy(b)
  <2>1. \A e \in Down : e # d => (e \in ReleasedBy(b)' <=> e \in ReleasedBy(b))
    BY <1>2, <1>4 DEF ReleasedBy
  <2>2. d \in ReleasedBy(b)' <=> d \in ReleasedBy(b) \/ Has(d, n, b)
    BY <1>2, <1>4 DEF ReleasedBy
  <2>3. ReleasedBy(b)' \subseteq Down /\ ReleasedBy(b) \subseteq Down
    BY <1>2 DEF ReleasedBy
  <2>4. QED  BY <1>h, <2>1, <2>2, <2>3
<1>6. m.type = "process" => d \notin ReleasedBy(m.block)
  <2>1. SUFFICES ASSUME m.type = "process", NEW i \in 1..done[d], Has(d, i, m.block) PROVE FALSE
    BY DEF ReleasedBy
  <2>2. i \in 1..Len(stream[d]) /\ m.block \in 1..Len(refs) /\ Has(d, n, m.block)
    BY <1>3, <1>t, <1>h, <2>1
  <2>3. i = n
    BY <1>3, <2>1, <2>2 DEF Referenced
  <2>4. QED  BY <1>4, <2>3
<1>7. (\A b \in 1..Len(refs) : refs[b] = N - Cardinality(ReleasedBy(b)))'
  <2>1. ASSUME NEW b \in 1..Len(refs) PROVE refs'[b] = N - Cardinality(ReleasedBy(b)')
    <3>1. refs[b] = N - Cardinality(ReleasedBy(b)) /\ Cardinality(ReleasedBy(b)) \in Nat
      BY ReleasedSize DEF Referenced
    <3>2. CASE m.type = "process" /\ m.block = b
      <4>1. Cardinality(ReleasedBy(b)') = Cardinality(ReleasedBy(b)) + 1
        BY <1>5, <1>6, <3>2, ReleasedSize, FS_AddElement
      <4>2. refs'[b] = refs[b] - 1
        BY <1>1, <3>2
      <4>3. QED  BY <1>2, <3>1, <4>1, <4>2
    <3>3. CASE ~(m.type = "process" /\ m.block = b)
      <4>1. ReleasedBy(b)' = ReleasedBy(b) /\ refs'[b] = refs[b]
        BY <1>1, <1>5, <3>3
      <4>2. QED  BY <3>1, <4>1
    <3>4. QED  BY <3>2, <3>3
  <2>2. QED  BY <1>1, <1>2, <2>1
<1>8. (\A e \in Down : \A i \in 1..Len(stream[e]) :
          stream[e][i].type = "process" => stream[e][i].block \in 1..Len(refs))'
  BY <1>1, <1>2 DEF Referenced
<1>9. (\A e \in Down : \A i, j \in 1..Len(stream[e]) : \A b \in 1..Len(refs) :
          Has(e, i, b) /\ Has(e, j, b) => i = j)'
  BY <1>1, <1>2 DEF Referenced
<1>10. (pc \in {"retract", "send"} =>
          \A e \in Down : pc = "retract" \/ e >= next =>
              \A i \in 1..Len(stream[e]) : ~Has(e, i, Len(refs)))'
  <2>1. \A e, i : Has(e, i, Len(refs))' <=> Has(e, i, Len(refs))
    BY <1>1 DEF Has
  <2>2. QED  BY <1>1, <1>2, <2>1 DEF Referenced
<1>11. QED
  BY <1>7, <1>8, <1>9, <1>10 DEF Referenced

\* Every step keeps the counts.
LEMMA ReferencedStep == Typed /\ Control /\ Referenced /\ [Next]_vars => Referenced'
<1> SUFFICES ASSUME Typed, Control, Referenced, [Next]_vars PROVE Referenced'
  OBVIOUS
<1>1. CASE Upstream
  <2>1. UNCHANGED <<refs, stream, done>> /\ pc = "idle" /\ pc' \in {"idle", "loop", "forward", "panic"}
    BY <1>1 DEF Upstream, Process, RetractBlock, UpdateWatermark, UpdateProcessingTime, Finish, Loop, downVars
  <2>2. QED  BY <2>1, ReferencedSame
<1>2. ASSUME NEW k \in Key, Evaluate(k) \/ FinishBlock(k) PROVE Referenced'
  <2>1. UNCHANGED <<stream, done>> /\ (refs' = Append(refs, N) \/ (UNCHANGED refs /\ pc' = "check"))
    BY <1>2 DEF Evaluate, FinishBlock, TriggerBlock, downVars
  <2>2. QED  BY <2>1, ReferencedSame, ReferencedNew
<1>3. CASE RetractOld
  <2>1. /\ pc = "retract" /\ UNCHANGED refs
        /\ Push(next, Retracted) \/ (UNCHANGED <<stream, done>> /\ pc' = "check")
    BY <1>3 DEF RetractOld, downVars, Retracted
  <2>2. Retracted \in Message /\ Retracted.type # "process"
    BY <2>1, HandedOut
  <2>3. QED  BY <2>1, <2>2, ReferencedSame, ReferencedPush
<1>4. CASE Send
  <2>1. /\ pc = "send" /\ UNCHANGED refs
        /\ \/ Push(next, Sent) /\ (pc' = "check" \/ (pc' = "send" /\ next' = next + 1))
           \/ UNCHANGED <<stream, done>> /\ pc' = "check"
    BY <1>4 DEF Send, downVars, Sent
  <2>2. Sent \in Message /\ Sent.block = Len(refs) /\ Len(refs) \in Nat \ {0}
    BY <2>1, HandedOut
  <2>3. QED  BY <2>1, <2>2, ReferencedSame, ReferencedPush
<1>5. CASE Check \/ LoopDone
  <2>1. UNCHANGED <<refs, stream, done>> /\ pc' \in {"loop", "forward"}
    BY <1>5 DEF Check, LoopDone, downVars
  <2>2. QED  BY <2>1, ReferencedSame
<1>6. CASE Forward
  <2>1. /\ pc = "forward" /\ UNCHANGED refs /\ pc' \in {"forward", "done", "idle"}
        /\ Push(next, Forwarded) \/ UNCHANGED <<stream, done>>
    BY <1>6 DEF Forward, Advance, downVars
  <2>2. Forwarded \in Message /\ Forwarded.type # "process"
    BY <2>1, ForwardedMessage
  <2>3. QED  BY <2>1, <2>2, ReferencedSame, ReferencedPush
<1>7. ASSUME NEW d \in Down, Consume(d) \/ ConsumeFails(d) PROVE Referenced'
  BY <1>7, ReferencedConsume
<1>8. CASE UNCHANGED vars
  <2>1. UNCHANGED <<refs, stream, done, pc, next>>
    BY <1>8 DEF vars, downVars, loopVars
  <2>2. QED  BY <2>1, ReferencedSame
<1>9. QED
  BY <1>1, <1>2, <1>3, <1>4, <1>5, <1>6, <1>7, <1>8 DEF Next, Step

-----------------------------------------------------------------------------

\* No block was sent yet.
LEMMA ReferencedInit == Init => Referenced
<1> SUFFICES ASSUME Init PROVE Referenced
  OBVIOUS
<1>1. \A d \in Down : \A i \in 1..Len(stream[d]) : FALSE
  BY DEF Init
<1>2. Len(refs) = 0 /\ pc = "idle"
  BY DEF Init
<1>3. \A b \in 1..Len(refs) : FALSE
  BY <1>2
<1>4. QED
  BY <1>1, <1>2, <1>3 DEF Referenced

\* The counts are right in every reachable state.
THEOREM CountsAreRight == Spec => []Referenced
<1>1. DatasetInv /\ Referenced /\ [Next]_vars => Referenced'
  BY ReferencedStep DEF DatasetInv, BaseInv
<1>2. QED
  BY <1>1, ReferencedInit, DatasetInvariant, PTL DEF Spec

\* A block that is yet to be processed, or still being handed out, is never cleared.
THEOREM ReferencedIsKept == Spec => []NoUseAfterClear
<1>1. DatasetInv /\ Referenced => NoUseAfterClear
  <2> SUFFICES ASSUME DatasetInv, Referenced PROVE NoUseAfterClear
    OBVIOUS
  <2>0. Typed /\ Control /\ Referenced /\ refs \in Seq(Int) /\ Len(refs) \in Nat
    BY DEF DatasetInv, BaseInv, Typed, TypedDown
  <2>1. /\ Down = 1..N /\ N \in Nat /\ next \in Down
        /\ \A d \in Down : done[d] \in Nat /\ done[d] <= Len(stream[d]) /\ Len(stream[d]) \in Nat
    BY <2>0, Fields DEF Typed, TypedDown
  <2>2. \A d \in Down : \A i \in 1..done[d] : i \in 1..Len(stream[d])
    BY <2>1
  <2>3. ASSUME NEW b \in 1..Len(refs), NEW d \in Down, d \notin ReleasedBy(b) PROVE refs[b] > 0
    <3>1. Cardinality(ReleasedBy(b)) \in Nat /\ Cardinality(ReleasedBy(b)) < N
      BY <2>0, <2>3, ReleasedSize
    <3>2. refs[b] = N - Cardinality(ReleasedBy(b))
      BY <2>0 DEF Referenced
    <3>3. QED  BY <2>1, <3>1, <3>2
  <2>4. ASSUME NEW d \in Down, NEW i \in (done[d] + 1)..Len(stream[d]), stream[d][i].type = "process"
        PROVE  refs[stream[d][i].block] > 0
    <3>1. i \in 1..Len(stream[d]) /\ i \notin 1..done[d]
      BY <2>1
    <3>2. stream[d][i].block \in 1..Len(refs) /\ Has(d, i, stream[d][i].block)
      BY <2>0, <2>4, <3>1 DEF Referenced, Has
    <3>3. d \notin ReleasedBy(stream[d][i].block)
      <4>1. SUFFICES ASSUME NEW j \in 1..done[d], Has(d, j, stream[d][i].block) PROVE FALSE
        BY DEF ReleasedBy
      <4>2. j = i
        BY <2>0, <2>2, <3>1, <3>2, <4>1 DEF Referenced
      <4>3. QED  BY <3>1, <4>2
    <3>4. QED  BY <2>3, <3>2, <3>3
  <2>5. ASSUME pc = "send" PROVE refs[Len(refs)] > 0
    <3>1. Len(refs) \in 1..Len(refs)
      <4>1. Len(refs) > 0
        BY <2>0, <2>5 DEF Control
      <4>2. QED  BY <2>0, <4>1
    <3>2. next >= next
      BY <2>1
    <3>3. \A i \in 1..Len(stream[next]) : ~Has(next, i, Len(refs))
      BY <2>0, <2>1, <2>5, <3>2 DEF Referenced
    <3>4. next \notin ReleasedBy(Len(refs))
      BY <2>1, <2>2, <3>3 DEF ReleasedBy
    <3>5. QED  BY <2>1, <2>3, <3>1, <3>4
  <2>6. QED
    BY <2>4, <2>5 DEF NoUseAfterClear
<1>2. QED
  BY <1>1, DatasetInvariant, CountsAreRight, PTL
=============================================================================
