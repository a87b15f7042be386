---------------------------- MODULE DatasetProofs ----------------------------
(***************************************************************************)
(* A dataset, for every cache, every trigger that keeps its word           *)
(* (TriggerAssumption) and any number of transports downstream: no row is  *)
(* lost.  The inductive invariant BaseInv adds to the types which method   *)
(* runs where (Control), the states of the triggers (Triggers) and which   *)
(* transports have been handed the rows of a block that is going out       *)
(* (Kept).                                                                 *)
(***************************************************************************)
EXTENDS Dataset, FiniteSetTheorems, TLAPS

USE SMTT(30), ZenonT(30)

\* Between the choice of a key of the cache and the end of its iteration.
AtKey == pc \in {"retract", "send", "check"}

\* The types, by what the actions change together.
TypedTimes ==
    /\ setting \in Settings
    /\ watermark \in Time \cup {0} /\ processingTime \in Time \cup {0}
    /\ updates \in 0..MaxUpdates

TypedCache ==
    /\ blocks \subseteq Key
    /\ rows \in [Key -> SUBSET (1..MaxRows)]
    /\ \A k \in Key : k \notin blocks => rows[k] = {}
    /\ DOMAIN trigger = Key
    /\ arrived \in 0..MaxRows
    /\ received \in [Key -> SUBSET (1..MaxRows)]
    /\ \A k \in Key : rows[k] \subseteq 1..arrived /\ received[k] \subseteq 1..arrived

TypedLoop ==
    /\ op \in {"none", "watermark", "processing time", "retract", "finish"}
    /\ pc \in {"idle", "loop", "retract", "send", "check", "forward", "done", "panic"}
    /\ todo \subseteq blocks /\ cur \notin todo
    /\ AtKey => cur \in blocks
    /\ next \in Down
    /\ err \in {"nil", "error"}

TypedDown ==
    /\ refs \in Seq(Int)
    /\ stream \in [Down -> Seq(Message)]
    /\ done \in [Down -> Nat]
    /\ \A d \in Down : done[d] <= Len(stream[d])
    /\ down \in [Down -> {"open", "failed", "finished"}]

Typed == TypedTimes /\ TypedCache /\ TypedLoop /\ TypedDown

\* Which methods run where, and when they have seen an error.
Control ==
    /\ pc = "idle" => op = "none" /\ err = "nil"
    /\ pc \in {"idle", "forward", "done", "panic"} => todo = {}
    /\ pc = "loop" => cur = NoKey
    /\ pc = "loop" \/ AtKey => op \in {"watermark", "processing time", "finish"}
    /\ pc = "forward" => op # "none"
    /\ op = "retract" => pc = "forward" /\ cur \in Key
    /\ op = "watermark" => watermark \in Time
    /\ op = "processing time" => processingTime \in Time
    /\ pc \in {"retract", "send"} => err = "nil" /\ Len(refs) > 0
    /\ pc = "forward" /\ err = "error" => op = "finish"

-----------------------------------------------------------------------------

\* What is fixed when the dataset is made.
LEMMA Fixed ==
    [Next]_vars =>
        /\ setting' = setting /\ N' = N /\ Down' = Down /\ spec' = spec /\ mode' = mode
        /\ MaxUpdates' = MaxUpdates
<1> SUFFICES ASSUME [Next]_vars PROVE setting' = setting
  BY DEF N, Down, spec, mode, MaxUpdates
<1>1. CASE Upstream
  BY <1>1 DEF Upstream, Process, RetractBlock, UpdateWatermark, UpdateProcessingTime, Finish
<1>2. CASE Step
  BY <1>2 DEF Step, Evaluate, FinishBlock, RetractOld, Send, Check, LoopDone, Forward
<1>3. CASE \E d \in Down : Consume(d) \/ ConsumeFails(d)
  BY <1>3 DEF Consume, ConsumeFails
<1>4. QED
  BY <1>1, <1>2, <1>3 DEF Next, vars

\* Settings are what the code can be configured with.
LEMMA SettingTyped ==
    ASSUME setting \in Settings
    PROVE  /\ N \in Nat \ {0} /\ MaxUpdates \in Nat /\ Down = 1..N
           /\ spec \in Specs
           /\ mode \in {"Discarding", "Accumulating", "AccumulatingRetracting"}
BY DatasetAssumption DEF N, MaxUpdates, Down, spec, mode, Specs

\* The messages.
LEMMA Messages ==
    /\ \A k \in Key, R \in SUBSET (1..MaxRows), b \in Nat \ {0} :
          [type |-> "process", key |-> k, rows |-> R, block |-> b] \in Message
    /\ \A k \in Key : [type |-> "retract", key |-> k] \in Message
    /\ \A t \in Time : [type |-> "watermark", mark |-> t] \in Message
    /\ \A t \in Time : [type |-> "processing time", time |-> t] \in Message
    /\ \A e \in {"nil", "error"} : [type |-> "finish", err |-> e] \in Message
BY DEF Message

\* What is sent of the block the loop is at.
Sent == [type |-> "process", key |-> cur, rows |-> rows[cur], block |-> Len(refs)]
Retracted == [type |-> "retract", key |-> cur]

\* While a block is handed out, these are messages.
LEMMA HandedOut ==
    ASSUME Typed, Control, pc \in {"retract", "send"}
    PROVE  /\ cur \in Key /\ Len(refs) \in Nat \ {0}
           /\ Retracted \in Message /\ Retracted.type = "retract"
           /\ Sent \in Message /\ Sent.type = "process" /\ Sent.key = cur /\ Sent.rows = rows[cur]
           /\ Sent.block = Len(refs)
<1>1. cur \in Key /\ rows[cur] \in SUBSET (1..MaxRows)
  BY DEF Typed, TypedLoop, TypedCache, AtKey
<1>2. Len(refs) > 0 /\ refs \in Seq(Int)
  BY DEF Control, Typed, TypedDown
<1>3. Len(refs) \in Nat \ {0}
  BY <1>2
<1>4. Retracted \in Message /\ Sent \in Message
  BY <1>1, <1>3, Messages DEF Retracted, Sent
<1>5. QED
  BY <1>1, <1>3, <1>4 DEF Retracted, Sent

\* A message goes to the end of one stream.
LEMMA PushFacts ==
    ASSUME stream \in [Down -> Seq(Message)], NEW e \in Down, NEW m \in Message,
           stream' = [stream EXCEPT ![e] = Append(@, m)]
    PROVE  /\ stream' \in [Down -> Seq(Message)]
           /\ \A d \in Down : d # e => stream'[d] = stream[d]
           /\ Len(stream'[e]) = Len(stream[e]) + 1
           /\ stream'[e][Len(stream[e]) + 1] = m
           /\ \A i \in 1..Len(stream[e]) : stream'[e][i] = stream[e][i]
           /\ \A d \in Down : Len(stream[d]) \in Nat
<1>1. stream[e] \in Seq(Message) /\ \A d \in Down : stream[d] \in Seq(Message)
  OBVIOUS
<1>2. Append(stream[e], m) \in Seq(Message)
  BY <1>1
<1>3. stream'[e] = Append(stream[e], m) /\ \A d \in Down : d # e => stream'[d] = stream[d]
  OBVIOUS
<1>4. stream' \in [Down -> Seq(Message)]
  BY <1>2
<1>5. /\ Len(Append(stream[e], m)) = Len(stream[e]) + 1
      /\ Append(stream[e], m)[Len(stream[e]) + 1] = m
      /\ \A i \in 1..Len(stream[e]) : Append(stream[e], m)[i] = stream[e][i]
  BY <1>1
<1>6. QED
  BY <1>1, <1>3, <1>4, <1>5

\* What a call passes on is a message, and only Finish passes on a finish.
LEMMA ForwardedMessage ==
    ASSUME Typed, Control, pc = "forward"
    PROVE  /\ Forwarded \in Message
           /\ Forwarded.type # "process"
           /\ Forwarded.type = "finish" => op = "finish"
           /\ op = "finish" => Forwarded = [type |-> "finish", err |-> err]
<1>1. op \in {"watermark", "processing time", "retract", "finish"}
  BY DEF Typed, TypedLoop, Control
<1>2. CASE op = "watermark"
  <2>1. Forwarded = [type |-> "watermark", mark |-> watermark]
    BY <1>2 DEF Forwarded
  <2>2. QED  BY <1>2, <2>1, Messages DEF Control
<1>3. CASE op = "processing time"
  <2>1. Forwarded = [type |-> "processing time", time |-> processingTime]
    BY <1>3 DEF Forwarded
  <2>2. QED  BY <1>3, <2>1, Messages DEF Control
<1>4. CASE op = "retract"
  <2>1. Forwarded = [type |-> "retract", key |-> cur]
    BY <1>4 DEF Forwarded
  <2>2. QED  BY <1>4, <2>1, Messages DEF Control
<1>5. CASE op = "finish"
  <2>1. Forwarded = [type |-> "finish", err |-> err]
    BY <1>5 DEF Forwarded
  <2>2. QED  BY <1>5, <2>1, Messages DEF Typed, TypedLoop
<1>6. QED
  BY <1>1, <1>2, <1>3, <1>4, <1>5

\* These are the types of module Dataset.
LEMMA TypedTypeOK == Typed => TypeOK
<1> SUFFICES ASSUME Typed PROVE TypeOK
  OBVIOUS
<1>1. \A d \in Down : done[d] \in 0..Len(stream[d])
  BY DEF Typed, TypedDown
<1>2. QED
  BY <1>1 DEF Typed, TypedTimes, TypedCache, TypedLoop, TypedDown, TypeOK, AtKey

\* The types of the fields that a call uses.
LEMMA Fields ==
    ASSUME Typed
    PROVE  /\ N \in Nat \ {0} /\ MaxUpdates \in Nat /\ Down = 1..N
           /\ next \in 1..N /\ 1 \in Down
           /\ stream \in [Down -> Seq(Message)]
           /\ \A d \in Down : stream[d] \in Seq(Message) /\ Len(stream[d]) \in Nat
<1>1. N \in Nat \ {0} /\ MaxUpdates \in Nat /\ Down = 1..N
  BY SettingTyped DEF Typed, TypedTimes
<1>2. next \in Down
  BY DEF Typed, TypedLoop
<1>6. 1 \in Down /\ next \in 1..N
  BY <1>1, <1>2
<1>3. stream \in [Down -> Seq(Message)]
  BY DEF Typed, TypedDown
<1>4. \A d \in Down : stream[d] \in Seq(Message) /\ Len(stream[d]) \in Nat
  BY <1>3
<1>5. QED
  BY <1>1, <1>2, <1>6, <1>3, <1>4

\* Steps that leave a part alone.
LEMMA TypedSame ==
    ASSUME Typed, [Next]_vars
    PROVE  /\ UNCHANGED timeVars => TypedTimes'
           /\ UNCHANGED <<cacheVars, rowVars>> => TypedCache'
           /\ UNCHANGED <<refs, downVars>> => TypedDown'
<1>1. UNCHANGED timeVars => TypedTimes'
  BY Fixed DEF Typed, TypedTimes, timeVars
<1>2. UNCHANGED <<cacheVars, rowVars>> => TypedCache'
  BY DEF Typed, TypedCache, cacheVars, rowVars
<1>3. UNCHANGED <<refs, downVars>> => TypedDown'
  BY Fixed DEF Typed, TypedDown, downVars
<1>4. QED  BY <1>1, <1>2, <1>3

\* Every step keeps the types of the times and of the cache.
LEMMA TypedCacheStep == Typed /\ Control /\ [Next]_vars => TypedTimes' /\ TypedCache'
<1> SUFFICES ASSUME Typed, Control, [Next]_vars PROVE TypedTimes' /\ TypedCache'
  OBVIOUS
<1>d. NoKey \notin Key /\ MaxRows \in Nat
  BY DatasetAssumption
<1>1. ASSUME NEW k \in Key, Process(k) PROVE TypedTimes' /\ TypedCache'
  <2>1. arrived \in 0..MaxRows /\ arrived < MaxRows
    BY <1>1 DEF Process, Typed, TypedCache
  <2>2. arrived + 1 \in 1..MaxRows /\ 1..arrived \subseteq 1..(arrived + 1) /\ arrived + 1 \in 1..(arrived + 1)
    BY <2>1, <1>d
  <2>3. /\ rows' = [rows EXCEPT ![k] = @ \cup {arrived + 1}] /\ arrived' = arrived + 1
        /\ received' = [received EXCEPT ![k] = @ \cup {arrived + 1}]
        /\ blocks' = blocks \cup {k} /\ trigger' = trigger
    BY <1>1 DEF Process, AppendRow
  <2>4. \A j \in Key : rows'[j] \subseteq rows[j] \cup {arrived + 1}
                           /\ received'[j] \subseteq received[j] \cup {arrived + 1}
    BY <2>3 DEF Typed, TypedCache
  <2>5. \A j \in Key : rows'[j] \subseteq 1..arrived' /\ received'[j] \subseteq 1..arrived'
    BY <2>2, <2>3, <2>4 DEF Typed, TypedCache
  <2>6. rows' \in [Key -> SUBSET (1..MaxRows)] /\ received' \in [Key -> SUBSET (1..MaxRows)]
    BY <2>2, <2>3 DEF Typed, TypedCache
  <2>7. blocks' \subseteq Key /\ \A j \in Key : j \notin blocks' => rows'[j] = {}
    BY <2>3 DEF Typed, TypedCache
  <2>8. arrived' \in 0..MaxRows /\ DOMAIN trigger' = Key
    BY <1>d, <2>1, <2>3 DEF Typed, TypedCache
  <2>9. TypedCache'
    BY <2>5, <2>6, <2>7, <2>8 DEF TypedCache
  <2>10. QED
    BY <1>1, <2>9, TypedSame DEF Process
<1>2. ASSUME NEW k \in Key, RetractBlock(k) PROVE TypedTimes' /\ TypedCache'
  <2>1. TypedTimes'
    BY <1>2, Fixed, Fields DEF RetractBlock, Typed, TypedTimes
  <2>2. CASE k \in blocks
    <3>1. /\ rows' = [rows EXCEPT ![k] = {}] /\ received' = [received EXCEPT ![k] = @ \ rows[k]]
          /\ UNCHANGED <<blocks, trigger, arrived>>
      BY <1>2, <2>2 DEF RetractBlock, DiscardBlock
    <3>2. /\ rows' \in [Key -> SUBSET (1..MaxRows)] /\ received' \in [Key -> SUBSET (1..MaxRows)]
          /\ \A j \in Key : rows'[j] \subseteq rows[j] /\ received'[j] \subseteq received[j]
      BY <3>1 DEF Typed, TypedCache
    <3>3. QED  BY <2>1, <3>1, <3>2 DEF Typed, TypedCache
  <2>3. CASE k \notin blocks
    BY <1>2, <2>1, <2>3, TypedSame DEF RetractBlock, rowVars
  <2>4. QED  BY <2>2, <2>3
<1>3. ASSUME NEW t \in Time, UpdateWatermark(t) \/ UpdateProcessingTime(t)
      PROVE  TypedTimes' /\ TypedCache'
  <2>0. /\ watermark' \in {watermark, t} /\ processingTime' \in {processingTime, t}
        /\ updates < MaxUpdates /\ updates' = updates + 1
    BY <1>3 DEF UpdateWatermark, UpdateProcessingTime
  <2>1. TypedTimes'
    BY <2>0, Fixed, Fields DEF Typed, TypedTimes
  <2>2. UNCHANGED <<cacheVars, rowVars>>
    BY <1>3 DEF UpdateWatermark, UpdateProcessingTime
  <2>3. QED  BY <2>1, <2>2, TypedSame
<1>4. ASSUME NEW e \in {"nil", "error"}, Finish(e) PROVE TypedTimes' /\ TypedCache'
  BY <1>4, TypedSame DEF Finish
<1>5. ASSUME NEW k \in Key, Evaluate(k) PROVE TypedTimes' /\ TypedCache'
  <2>1. UNCHANGED <<timeVars, blocks, rows, rowVars>> /\ DOMAIN trigger' = DOMAIN trigger
    BY <1>5 DEF Evaluate
  <2>2. QED
    BY <2>1, TypedSame DEF Typed, TypedCache, rowVars
<1>6. ASSUME NEW k \in Key, FinishBlock(k) PROVE TypedTimes' /\ TypedCache'
  BY <1>6, TypedSame DEF FinishBlock
<1>7. CASE RetractOld \/ LoopDone \/ Forward
  BY <1>7, TypedSame DEF RetractOld, LoopDone, Forward
<1>8. CASE Send \/ Check
  <2>1. /\ UNCHANGED <<timeVars, rowVars>> /\ rows' \in {rows, [rows EXCEPT ![cur] = {}]}
        /\ DOMAIN trigger' = DOMAIN trigger /\ blocks' \subseteq blocks
        /\ \A j \in Key : j \in blocks \ blocks' => j = cur /\ rows' = [rows EXCEPT ![cur] = {}]
    BY <1>8 DEF Send, Check, DiscardBlock, ExpireBlock, cacheVars
  <2>2. /\ rows' \in [Key -> SUBSET (1..MaxRows)] /\ \A j \in Key : rows'[j] \subseteq rows[j]
        /\ \A j \in Key : j \in blocks \ blocks' => rows'[j] = {}
    BY <2>1 DEF Typed, TypedCache
  <2>3. TypedCache'
    BY <2>1, <2>2 DEF Typed, TypedCache, rowVars
  <2>4. QED  BY <2>1, <2>3, TypedSame
<1>9. ASSUME NEW d \in Down, Consume(d) \/ ConsumeFails(d) PROVE TypedTimes' /\ TypedCache'
  BY <1>9, TypedSame DEF Consume, ConsumeFails
<1>10. CASE UNCHANGED vars
  BY <1>10, TypedSame DEF vars
<1>11. QED
  BY <1>1, <1>2, <1>3, <1>4, <1>5, <1>6, <1>7, <1>8, <1>9, <1>10 DEF Next, Upstream, Step

\* A push to the next transport.
LEMMA PushTyped ==
    ASSUME Typed, Control, [Next]_vars, NEW m \in Message, Push(next, m),
           Len(refs') \in Nat, refs' \in Seq(Int)
    PROVE  TypedDown'
<1>1. /\ stream' \in [Down -> Seq(Message)]
      /\ \A d \in Down : d # next => stream'[d] = stream[d]
      /\ Len(stream'[next]) = Len(stream[next]) + 1
      /\ \A d \in Down : Len(stream[d]) \in Nat
  BY Fields, PushFacts DEF Push
<1>2. \A d \in Down : done[d] \in Nat /\ done[d] <= Len(stream[d])
  BY DEF Typed, TypedDown
<1>3. \A d \in Down : done[d] <= Len(stream'[d])
  BY <1>1, <1>2
<1>4. QED
  BY <1>1, <1>3, Fixed DEF Push, Typed, TypedDown

\* A new block.
LEMMA NewReference ==
    ASSUME refs \in Seq(Int), NEW n \in Int
    PROVE  /\ Append(refs, n) \in Seq(Int) /\ Len(Append(refs, n)) = Len(refs) + 1
           /\ Append(refs, n)[Len(refs) + 1] = n
           /\ \A b \in 1..Len(refs) : Append(refs, n)[b] = refs[b]
OBVIOUS

\* Releasing a reference.
LEMMA ReleaseTyped ==
    ASSUME refs \in Seq(Int), NEW b
    PROVE  [refs EXCEPT ![b] = @ - 1] \in Seq(Int)
<1>1. Len(refs) \in Nat /\ refs \in [1..Len(refs) -> Int]
  OBVIOUS
<1>2. CASE b \in 1..Len(refs)
  <2>1. \A n \in Int : [refs EXCEPT ![b] = n] \in Seq(Int)
    BY <1>1, <1>2
  <2>2. refs[b] - 1 \in Int /\ [refs EXCEPT ![b] = @ - 1] = [refs EXCEPT ![b] = refs[b] - 1]
    BY <1>1, <1>2
  <2>3. QED  BY <2>1, <2>2
<1>3. CASE b \notin 1..Len(refs)
  <2>1. [refs EXCEPT ![b] = @ - 1] = refs
    BY <1>1, <1>3
  <2>2. QED  BY <2>1
<1>4. QED  BY <1>2, <1>3

\* Every step keeps the types of the method and of the streams.
LEMMA TypedLoopStep == Typed /\ Control /\ [Next]_vars => TypedLoop' /\ TypedDown'
<1> SUFFICES ASSUME Typed, Control, [Next]_vars PROVE TypedLoop' /\ TypedDown'
  OBVIOUS
<1>f. Down' = Down /\ N \in Nat \ {0} /\ Down = 1..N /\ next \in 1..N /\ 1 \in Down
  BY Fixed, Fields
<1>d. NoKey \notin Key /\ MaxRows \in Nat /\ blocks \subseteq Key
  BY DatasetAssumption DEF Typed, TypedCache
<1>1. ASSUME NEW k \in Key, Process(k) PROVE TypedLoop' /\ TypedDown'
  <2>1. UNCHANGED <<loopVars, pc, refs, downVars>> /\ blocks \subseteq blocks'
    BY <1>1 DEF Process, AppendRow
  <2>2. TypedLoop'
    BY <1>f, <2>1 DEF Typed, TypedLoop, loopVars, AtKey
  <2>3. QED  BY <2>1, <2>2, TypedSame
<1>2. ASSUME NEW k \in Key, RetractBlock(k) PROVE TypedLoop' /\ TypedDown'
  <2>1. UNCHANGED <<refs, downVars>> /\ todo = {} /\ pc = "idle"
    BY <1>2 DEF RetractBlock, Control
  <2>2. CASE k \in blocks
    <3>1. /\ UNCHANGED <<blocks, todo, err>> /\ op' = "retract" /\ pc' = "forward" /\ cur' = k /\ next' = 1
      BY <1>2, <2>2 DEF RetractBlock, DiscardBlock
    <3>2. TypedLoop'
      BY <1>f, <2>1, <3>1 DEF Typed, TypedLoop, AtKey
    <3>3. QED  BY <2>1, <3>2, TypedSame
  <2>3. CASE k \notin blocks
    <3>1. UNCHANGED <<blocks, op, todo, cur, next, err>> /\ pc' = "panic"
      BY <1>2, <2>3 DEF RetractBlock, cacheVars, loopVars
    <3>2. TypedLoop'
      BY <1>f, <2>1, <3>1 DEF Typed, TypedLoop, AtKey
    <3>3. QED  BY <2>1, <3>2, TypedSame
  <2>4. QED  BY <2>2, <2>3
<1>3. ASSUME NEW t \in Time, UpdateWatermark(t) \/ UpdateProcessingTime(t)
      PROVE  TypedLoop' /\ TypedDown'
  <2>1. /\ UNCHANGED <<blocks, err, refs, downVars>> /\ todo' = blocks /\ cur' = NoKey /\ next' = 1
        /\ pc' = "loop" /\ op' \in {"watermark", "processing time"}
    BY <1>3 DEF UpdateWatermark, UpdateProcessingTime, Loop, cacheVars
  <2>2. TypedLoop'
    BY <1>f, <1>d, <2>1 DEF Typed, TypedLoop, AtKey
  <2>3. QED  BY <2>1, <2>2, TypedSame
<1>4. ASSUME NEW e \in {"nil", "error"}, Finish(e) PROVE TypedLoop' /\ TypedDown'
  <2>1. /\ UNCHANGED <<blocks, refs, downVars>> /\ todo' \subseteq blocks /\ cur' = NoKey /\ next' = 1
        /\ pc' = "loop" /\ op' = "finish" /\ err' = e
    BY <1>4 DEF Finish, Loop, cacheVars
  <2>2. TypedLoop'
    BY <1>f, <1>d, <2>1 DEF Typed, TypedLoop, AtKey
  <2>3. QED  BY <2>1, <2>2, TypedSame
<1>5. ASSUME NEW k \in Key, Evaluate(k) \/ FinishBlock(k) PROVE TypedLoop' /\ TypedDown'
  <2>1. /\ todo' = todo \ {k} /\ k \in todo /\ cur' = k /\ next' = 1
        /\ UNCHANGED <<blocks, op, err, downVars>> /\ (UNCHANGED refs \/ refs' = Append(refs, N))
        /\ pc' \in {"retract", "send", "check"}
    BY <1>5 DEF Evaluate, FinishBlock, TriggerBlock, cacheVars
  <2>2. TypedLoop'
    BY <1>f, <2>1 DEF Typed, TypedLoop, AtKey
  <2>3. refs' \in Seq(Int)
    <3>1. refs \in Seq(Int) /\ N \in Int
      BY <1>f DEF Typed, TypedDown
    <3>2. QED  BY <2>1, <3>1, NewReference
  <2>4. TypedDown'
    BY <1>f, <2>1, <2>3 DEF Typed, TypedDown, downVars
  <2>5. QED  BY <2>2, <2>4
<1>6. CASE RetractOld
  <2>0. UNCHANGED <<blocks, op, todo, cur, refs>> /\ pc = "retract"
    BY <1>6 DEF RetractOld, cacheVars
  <2>1. cur \in blocks /\ err \in {"nil", "error"} /\ next \in Down
    BY <2>0 DEF Typed, TypedLoop, AtKey
  <2>r. refs \in Seq(Int) /\ refs' \in Seq(Int) /\ Len(refs') \in Nat /\ Len(refs) \in Nat \ {0}
    <3>1. refs \in Seq(Int)
      BY DEF Typed, TypedDown
    <3>2. Len(refs) > 0
      BY <2>0 DEF Control
    <3>3. QED  BY <2>0, <3>1, <3>2
  <2>2. /\ next' \in Down /\ pc' \in {"retract", "send", "check"} /\ err' \in {"nil", "error"}
    <3>1. next' \in {1, next} \/ (next < N /\ next' = next + 1)
      BY <1>6 DEF RetractOld
    <3>2. pc' \in {"retract", "send", "check"} /\ err' \in {"nil", "error"}
      BY <1>6, <2>1 DEF RetractOld
    <3>3. QED  BY <1>f, <2>1, <3>1, <3>2
  <2>3. TypedLoop'
    BY <1>f, <2>0, <2>1, <2>2 DEF Typed, TypedLoop, AtKey
  <2>4. Retracted \in Message
    BY <2>0, HandedOut
  <2>5. TypedDown'
    BY <1>6, <2>r, <2>0, <2>4, PushTyped, TypedSame DEF RetractOld, Retracted
  <2>6. QED  BY <2>3, <2>5
<1>7. CASE Send
  <2>0. UNCHANGED <<blocks, op, todo, cur, refs>> /\ pc = "send"
    BY <1>7 DEF Send, DiscardBlock, cacheVars
  <2>1. cur \in blocks /\ err \in {"nil", "error"} /\ next \in Down
    BY <2>0 DEF Typed, TypedLoop, AtKey
  <2>r. refs \in Seq(Int) /\ refs' \in Seq(Int) /\ Len(refs') \in Nat /\ Len(refs) \in Nat \ {0}
    <3>1. refs \in Seq(Int)
      BY DEF Typed, TypedDown
    <3>2. Len(refs) > 0
      BY <2>0 DEF Control
    <3>3. QED  BY <2>0, <3>1, <3>2
  <2>2. /\ next' \in Down /\ pc' \in {"retract", "send", "check"} /\ err' \in {"nil", "error"}
    <3>1. next' \in {1, next} \/ (next < N /\ next' = next + 1)
      BY <1>7 DEF Send
    <3>2. pc' \in {"retract", "send", "check"} /\ err' \in {"nil", "error"}
      BY <1>7, <2>1 DEF Send
    <3>3. QED  BY <1>f, <2>1, <3>1, <3>2
  <2>3. TypedLoop'
    BY <1>f, <2>0, <2>1, <2>2 DEF Typed, TypedLoop, AtKey
  <2>4. Sent \in Message
    BY <2>0, HandedOut
  <2>5. TypedDown'
    BY <1>7, <2>r, <2>0, <2>4, PushTyped, TypedSame DEF Send, Sent
  <2>6. QED  BY <2>3, <2>5
<1>8. CASE Check
  <2>1. /\ UNCHANGED <<op, todo, next, err, refs, downVars>> /\ pc' = "loop" /\ cur' = NoKey
        /\ blocks \ {cur} \subseteq blocks'
    BY <1>8 DEF Check, ExpireBlock
  <2>2. TypedLoop'
    BY <1>f, <1>d, <2>1 DEF Typed, TypedLoop, AtKey
  <2>3. QED  BY <2>1, <2>2, TypedSame
<1>9. CASE LoopDone
  <2>1. /\ UNCHANGED <<blocks, cur, err, refs, downVars>> /\ pc' = "forward" /\ todo' = {} /\ next' = 1
        /\ op' \in {"finish", op}
    BY <1>9 DEF LoopDone, cacheVars
  <2>2. TypedLoop'
    BY <1>f, <2>1 DEF Typed, TypedLoop, AtKey
  <2>3. QED  BY <2>1, <2>2, TypedSame
<1>10. CASE Forward
  <2>1. /\ UNCHANGED <<blocks, todo, refs>> /\ pc = "forward" /\ todo = {}
    BY <1>10 DEF Forward, cacheVars, Control
  <2>r. refs' \in Seq(Int) /\ Len(refs') \in Nat
    BY <2>1 DEF Typed, TypedDown
  <2>2. \/ Advance /\ UNCHANGED err
        \/ next' = 1 /\ op' = "finish" /\ err' = "error" /\ UNCHANGED pc
    BY <1>10 DEF Forward
  <2>3. /\ next' \in Down /\ pc' \in {"forward", "done", "idle"}
        /\ op' \in {"none", "watermark", "processing time", "retract", "finish"}
        /\ err' \in {"nil", "error"}
    <3>1. next \in Down /\ err \in {"nil", "error"} 
          /\ op \in {"none", "watermark", "processing time", "retract", "finish"}
      BY DEF Typed, TypedLoop
    <3>2. CASE Advance /\ UNCHANGED err
      <4>1. next' = 1 \/ (next < N /\ next' = next + 1)
        BY <3>2 DEF Advance
      <4>2. next' \in Down
        <5>1. N \in Nat \ {0} /\ next \in 1..N /\ Down = 1..N
          BY <1>f
        <5>2. QED  BY <4>1, <5>1
      <4>3. pc' \in {"forward", "done", "idle"} /\ op' \in {"none", op} /\ err' = err
        BY <2>1, <3>2 DEF Advance
      <4>4. QED  BY <3>1, <4>2, <4>3
    <3>3. CASE next' = 1 /\ op' = "finish" /\ err' = "error" /\ UNCHANGED pc
      BY <1>f, <2>1, <3>3
    <3>4. QED  BY <2>2, <3>2, <3>3
  <2>4. TypedLoop'
    BY <1>f, <2>1, <2>3 DEF Typed, TypedLoop, AtKey
  <2>5. Forwarded \in Message
    BY <2>1, ForwardedMessage
  <2>6. TypedDown'
    BY <1>10, <2>1, <2>r, <2>5, PushTyped, TypedSame DEF Forward
  <2>7. QED  BY <2>4, <2>6
<1>11. ASSUME NEW d \in Down, Consume(d) \/ ConsumeFails(d) PROVE TypedLoop' /\ TypedDown'
  <2>1. UNCHANGED <<blocks, loopVars, pc, stream>>
    BY <1>11 DEF Consume, ConsumeFails, cacheVars
  <2>2. TypedLoop'
    BY <1>f, <2>1 DEF Typed, TypedLoop, loopVars, AtKey
  <2>3. /\ done' = [done EXCEPT ![d] = @ + 1] /\ done[d] < Len(stream[d])
        /\ \E x \in {"failed", "finished", down[d]} : down' = [down EXCEPT ![d] = x]
    BY <1>11 DEF Consume, ConsumeFails
  <2>4. refs' \in Seq(Int)
    <3> DEFINE m == NextMessage(d)
    <3>1. refs' = IF m.type = "process" THEN [refs EXCEPT ![m.block] = @ - 1] ELSE refs
      BY <1>11 DEF Consume, ConsumeFails, Release
    <3>2. refs \in Seq(Int)
      BY DEF Typed, TypedDown
    <3> HIDE DEF m
    <3>3. QED  BY <3>1, <3>2, ReleaseTyped
  <2>5. /\ done' \in [Down -> Nat] /\ \A e \in Down : done'[e] <= Len(stream[e])
    BY <2>3, Fields DEF Typed, TypedDown
  <2>6. down' \in [Down -> {"open", "failed", "finished"}]
    BY <2>3 DEF Typed, TypedDown
  <2>7. TypedDown'
    BY <1>f, <2>1, <2>4, <2>5, <2>6 DEF Typed, TypedDown
  <2>8. QED  BY <2>2, <2>7
<1>12. CASE UNCHANGED vars
  <2>1. TypedLoop'
    BY <1>12, <1>f DEF Typed, TypedLoop, AtKey, vars, cacheVars, loopVars
  <2>2. QED  BY <1>12, <2>1, TypedSame DEF vars
<1>13. QED
  BY <1>1, <1>2, <1>3, <1>4, <1>5, <1>6, <1>7, <1>8, <1>9, <1>10, <1>11, <1>12
     DEF Next, Upstream, Step

-----------------------------------------------------------------------------

\* Releasing a reference changes one count.
LEMMA ReleaseFacts ==
    ASSUME refs \in Seq(Int), NEW b
    PROVE  LET r == [refs EXCEPT ![b] = @ - 1]
           IN /\ r \in Seq(Int) /\ Len(r) = Len(refs)
              /\ \A c \in 1..Len(refs) : r[c] = IF c = b THEN refs[c] - 1 ELSE refs[c]
<1> DEFINE r == [refs EXCEPT ![b] = @ - 1]
<1>1. Len(refs) \in Nat /\ DOMAIN refs = 1..Len(refs)
  OBVIOUS
<1>2. r \in Seq(Int) /\ DOMAIN r = DOMAIN refs
  BY ReleaseTyped
<1>3. \A c \in DOMAIN refs : r[c] = IF c = b THEN refs[c] - 1 ELSE refs[c]
  OBVIOUS
<1>4. Len(r) \in Nat /\ DOMAIN r = 1..Len(r)
  <2> HIDE DEF r
  <2> QED  BY <1>2
<1>5. Len(r) = Len(refs)
  <2> HIDE DEF r
  <2> QED  BY <1>1, <1>2, <1>4
<1>6. QED
  BY <1>1, <1>2, <1>3, <1>5

\* What a step downstream does.
LEMMA ConsumeFacts ==
    ASSUME Typed, NEW d \in Down, Consume(d) \/ ConsumeFails(d)
    PROVE  /\ UNCHANGED <<timeVars, cacheVars, loopVars, pc, stream, rowVars>>
           /\ down[d] = "open" /\ done[d] < Len(stream[d])
           /\ done' = [done EXCEPT ![d] = @ + 1]
           /\ refs' \in Seq(Int) /\ Len(refs') = Len(refs)
           /\ \A c \in 1..Len(refs) :
                 refs'[c] = IF NextMessage(d).type = "process" /\ c = NextMessage(d).block
                              THEN refs[c] - 1 ELSE refs[c]
<1> DEFINE m == NextMessage(d)
<1>1. /\ UNCHANGED <<timeVars, cacheVars, loopVars, pc, stream, rowVars>>
      /\ down[d] = "open" /\ done[d] < Len(stream[d]) /\ done' = [done EXCEPT ![d] = @ + 1]
      /\ refs' = IF m.type = "process" THEN [refs EXCEPT ![m.block] = @ - 1] ELSE refs
  BY DEF Consume, ConsumeFails, Release
<1>2. refs \in Seq(Int)
  BY DEF Typed, TypedDown
<1> HIDE DEF m
<1>3. /\ refs' \in Seq(Int) /\ Len(refs') = Len(refs)
      /\ \A c \in 1..Len(refs) : refs'[c] = IF m.type = "process" /\ c = m.block THEN refs[c] - 1 ELSE refs[c]
  <2>1. CASE m.type = "process"
    <3>1. refs' = [refs EXCEPT ![m.block] = @ - 1]
      BY <1>1, <2>1
    <3>2. QED
      BY ONLY <1>2, <2>1, <3>1, ReleaseFacts
  <2>2. CASE m.type # "process"
    BY <1>1, <1>2, <2>2
  <2>3. QED  BY <2>1, <2>2
<1>4. QED
  BY <1>1, <1>3 DEF m

\* Every step keeps Control.
LEMMA ControlStep == Typed /\ Control /\ [Next]_vars => Control'
<1> SUFFICES ASSUME Typed, Control, [Next]_vars PROVE Control'
  OBVIOUS
<1>r. refs \in Seq(Int) /\ Len(refs) \in Nat /\ N \in Nat \ {0}
  BY Fields DEF Typed, TypedDown
<1>1. ASSUME NEW k \in Key, Process(k) PROVE Control'
  <2>1. UNCHANGED <<loopVars, pc, refs, watermark, processingTime>>
    BY <1>1 DEF Process, timeVars
  <2>2. QED  BY <2>1 DEF Control, AtKey, loopVars
<1>2. ASSUME NEW k \in Key, RetractBlock(k) PROVE Control'
  <2>1. pc = "idle" /\ todo = {} /\ op = "none" /\ err = "nil"
    BY <1>2 DEF RetractBlock, Control
  <2>2. /\ pc' \in {"forward", "panic"} /\ todo' = {} /\ err' = "nil"
        /\ op' = IF pc' = "forward" THEN "retract" ELSE "none"
        /\ pc' = "forward" => cur' = k
    BY <1>2, <2>1 DEF RetractBlock, loopVars
  <2>3. QED  BY <2>2 DEF Control, AtKey
<1>3. ASSUME NEW t \in Time, UpdateWatermark(t) PROVE Control'
  <2>1. op' = "watermark" /\ pc' = "loop" /\ watermark' = t /\ cur' = NoKey
    BY <1>3 DEF UpdateWatermark, Loop
  <2>2. QED  BY <2>1 DEF Control, AtKey
<1>4. ASSUME NEW t \in Time, UpdateProcessingTime(t) PROVE Control'
  <2>1. op' = "processing time" /\ pc' = "loop" /\ processingTime' = t /\ cur' = NoKey
    BY <1>4 DEF UpdateProcessingTime, Loop
  <2>2. QED  BY <2>1 DEF Control, AtKey
<1>5. ASSUME NEW e \in {"nil", "error"}, Finish(e) PROVE Control'
  <2>1. op' = "finish" /\ pc' = "loop" /\ cur' = NoKey
    BY <1>5 DEF Finish, Loop
  <2>2. QED  BY <2>1 DEF Control, AtKey
<1>6. ASSUME NEW k \in Key, Evaluate(k) \/ FinishBlock(k) PROVE Control'
  <2>1. /\ pc = "loop" /\ UNCHANGED <<op, err, watermark, processingTime>> /\ err = "nil"
        /\ pc' = "check" \/ (pc' \in {"retract", "send"} /\ refs' = Append(refs, N))
    BY <1>6 DEF Evaluate, FinishBlock, TriggerBlock, timeVars
  <2>2. pc' # "check" => Len(refs') > 0
    <3>1. CASE refs' = Append(refs, N)
      <4>1. Len(refs') = Len(refs) + 1
        BY <1>r, <3>1, NewReference
      <4>2. QED  BY <1>r, <4>1
    <3>2. QED  BY <2>1, <3>1
  <2>3. QED  BY <2>1, <2>2 DEF Control, AtKey
<1>7. CASE RetractOld \/ Send
  <2>1. /\ pc \in {"retract", "send"} /\ UNCHANGED <<op, refs, watermark, processingTime>>
        /\ pc' = "check" \/ (pc' \in {"retract", "send"} /\ UNCHANGED err)
    BY <1>7 DEF RetractOld, Send, timeVars
  <2>2. QED  BY <2>1 DEF Control, AtKey
<1>8. CASE Check
  <2>1. pc = "check" /\ pc' = "loop" /\ cur' = NoKey /\ UNCHANGED <<op, watermark, processingTime>>
    BY <1>8 DEF Check, timeVars
  <2>2. QED  BY <2>1 DEF Control, AtKey
<1>9. CASE LoopDone
  <2>1. /\ pc = "loop" /\ pc' = "forward" /\ todo' = {} /\ UNCHANGED <<watermark, processingTime, err>>
        /\ op' = IF err = "error" THEN "finish" ELSE op
    BY <1>9 DEF LoopDone, timeVars
  <2>2. QED  BY <2>1 DEF Control, AtKey
<1>10. CASE Forward
  <2>1. /\ pc = "forward" /\ UNCHANGED <<todo, watermark, processingTime>>
        /\ \/ pc' = "forward" /\ UNCHANGED <<op, cur, err>>
           \/ pc' = "forward" /\ op' = "finish"
           \/ op' = "none" /\ UNCHANGED err /\ pc' = IF op = "finish" THEN "done" ELSE "idle"
    BY <1>10 DEF Forward, Advance, timeVars
  <2>2. err \in {"nil", "error"}
    BY DEF Typed, TypedLoop
  <2>3. QED  BY <2>1, <2>2 DEF Control, AtKey
<1>11. ASSUME NEW d \in Down, Consume(d) \/ ConsumeFails(d) PROVE Control'
  <2>1. UNCHANGED <<loopVars, pc, watermark, processingTime>> /\ Len(refs') = Len(refs)
    BY <1>11, ConsumeFacts DEF timeVars
  <2>2. QED  BY <2>1 DEF Control, AtKey, loopVars
<1>12. CASE UNCHANGED vars
  BY <1>12 DEF Control, AtKey, vars, loopVars, timeVars
<1>13. QED
  BY <1>1, <1>2, <1>3, <1>4, <1>5, <1>6, <1>7, <1>8, <1>9, <1>10, <1>11, <1>12
     DEF Next, Upstream, Step

\* What a trigger is given.
LEMMA ContextTyped ==
    ASSUME Typed, NEW k \in Key
    PROVE  Context(k) \in Contexts
<1>1. IsFiniteSet(1..MaxRows) /\ Cardinality(1..MaxRows) = MaxRows /\ MaxRows \in Nat
  <2>1. MaxRows \in Nat
    BY DatasetAssumption
  <2>2. QED  BY <2>1, FS_Interval
<1>2. rows[k] \subseteq 1..MaxRows
  BY DEF Typed, TypedCache
<1>3. Cardinality(rows[k]) \in Nat /\ Cardinality(rows[k]) <= MaxRows
  BY <1>1, <1>2, FS_Subset, FS_CardinalityType
<1>4. Cardinality(rows[k]) \in 0..MaxRows
  BY <1>1, <1>3
<1>5. watermark \in Time \cup {0} /\ processingTime \in Time \cup {0}
  BY DEF Typed, TypedTimes
<1>6. QED
  BY <1>4, <1>5 DEF Context, Contexts

\* Between two evaluations a trigger is one of its spec's live states; the one of the
\* block the loop is at is about to be asked whether it has finished.
Triggers ==
    /\ \A k \in Key : (AtKey /\ k = cur) \/ trigger[k] \in Live(spec)
    /\ AtKey /\ op # "finish" => Ends(trigger[cur]) \/ Ended(trigger[cur]) \in Live(spec)

\* What an evaluation does.
LEMMA EvaluateFacts ==
    ASSUME Typed, Triggers, NEW k \in Key, Evaluate(k)
    PROVE  /\ DOMAIN trigger = Key /\ trigger' = [trigger EXCEPT ![k] = Fired(@, Context(k))]
           /\ trigger'[k] = Fired(trigger[k], Context(k))
           /\ Ends(trigger'[k]) => Fires(trigger[k], Context(k))
           /\ Ends(trigger'[k]) \/ Ended(trigger'[k]) \in Live(spec)
           /\ spec \in WatermarkSpecs /\ StopOf[k] <= watermark => Fires(trigger[k], Context(k))
<1>1. DOMAIN trigger = Key /\ trigger' = [trigger EXCEPT ![k] = Fired(@, Context(k))]
  BY DEF Evaluate, Typed, TypedCache
<1>2. trigger'[k] = Fired(trigger[k], Context(k))
  BY <1>1
<1>3. trigger[k] \in Live(spec) /\ spec \in Specs /\ Context(k) \in Contexts
  BY ContextTyped, SettingTyped DEF Evaluate, Triggers, AtKey, Typed, TypedTimes
<1>4. IF Ends(Fired(trigger[k], Context(k)))
        THEN Fires(trigger[k], Context(k)) ELSE Ended(Fired(trigger[k], Context(k))) \in Live(spec)
  BY <1>3, TriggerAssumption
<1>5. spec \in WatermarkSpecs /\ StopOf[k] <= watermark => Fires(trigger[k], Context(k))
  <2>1. Context(k).watermark = watermark /\ Context(k).stop = StopOf[k]
    BY DEF Context
  <2>2. StopOf[k] \in Int /\ watermark \in Int
    BY DatasetAssumption DEF Typed, TypedTimes
  <2>3. spec \in WatermarkSpecs /\ Context(k).watermark >= Context(k).stop => Fires(trigger[k], Context(k))
    BY <1>3, TriggerAssumption
  <2>4. QED  BY <2>1, <2>2, <2>3
<1>6. QED
  BY <1>1, <1>2, <1>4, <1>5

\* Every step keeps the triggers live.
LEMMA TriggersStep == Typed /\ Control /\ Triggers /\ [Next]_vars => Triggers'
<1> SUFFICES ASSUME Typed, Control, Triggers, [Next]_vars PROVE Triggers'
  OBVIOUS
<1>f. spec' = spec /\ DOMAIN trigger = Key /\ New(spec) \in Live(spec)
  BY Fixed, SettingTyped, TriggerAssumption DEF Typed, TypedTimes, TypedCache
<1>1. CASE UNCHANGED trigger /\ ~AtKey /\ ~AtKey'
  BY <1>f, <1>1 DEF Triggers
<1>2. CASE UNCHANGED <<trigger, cur, op>> /\ AtKey /\ AtKey'
  BY <1>f, <1>2 DEF Triggers
<1>3. CASE Upstream
  <2>1. trigger' = trigger /\ pc = "idle" /\ pc' \notin {"retract", "send", "check"}
    BY <1>3 DEF Upstream, Process, AppendRow, RetractBlock, DiscardBlock, UpdateWatermark, UpdateProcessingTime,
                Finish, Loop, cacheVars
  <2>2. QED  BY <1>1, <2>1 DEF AtKey
<1>4. ASSUME NEW k \in Key, Evaluate(k) PROVE Triggers'
  <2>1. pc = "loop" /\ cur' = k /\ AtKey'
    BY <1>4 DEF Evaluate, TriggerBlock, AtKey
  <2>2. \A j \in Key : j # k => trigger'[j] = trigger[j]
    BY <1>4, EvaluateFacts
  <2>3. QED
    BY <1>4, <1>f, <2>1, <2>2, EvaluateFacts DEF Triggers, AtKey
<1>5. ASSUME NEW k \in Key, FinishBlock(k) PROVE Triggers'
  <2>1. pc = "loop" /\ op = "finish" /\ UNCHANGED <<trigger, op>> /\ cur' = k
    BY <1>5 DEF FinishBlock, cacheVars
  <2>2. QED  BY <1>f, <2>1 DEF Triggers, AtKey
<1>6. CASE RetractOld \/ Send
  <2>1. trigger' = trigger /\ UNCHANGED <<cur, op>> /\ AtKey /\ AtKey'
    BY <1>6 DEF RetractOld, Send, DiscardBlock, AtKey, cacheVars
  <2>2. QED  BY <1>2, <2>1
<1>7. CASE Check
  <2>1. pc = "check" /\ pc' = "loop"
    BY <1>7 DEF Check
  <2>2. \E v \in Live(spec) : trigger' = [trigger EXCEPT ![cur] = v]
    BY <1>f, <1>7, <2>1 DEF Check, ExpireBlock, Triggers, AtKey
  <2>3. QED  BY <1>f, <2>1, <2>2 DEF Triggers, AtKey
<1>8. CASE LoopDone \/ Forward
  <2>1. trigger' = trigger /\ pc \in {"loop", "forward"} /\ pc' \in {"forward", "done", "idle"}
    BY <1>8 DEF LoopDone, Forward, Advance, cacheVars
  <2>2. QED  BY <1>1, <2>1 DEF AtKey
<1>9. ASSUME NEW d \in Down, Consume(d) \/ ConsumeFails(d) PROVE Triggers'
  <2>1. UNCHANGED <<trigger, cur, op, pc>>
    BY <1>9 DEF Consume, ConsumeFails, cacheVars, loopVars
  <2>2. QED  BY <1>1, <1>2, <2>1 DEF AtKey
<1>10. CASE UNCHANGED vars
  <2>1. UNCHANGED <<trigger, cur, op, pc>>
    BY <1>10 DEF vars, cacheVars, loopVars
  <2>2. QED  BY <1>1, <1>2, <2>1 DEF AtKey
<1>11. QED
  BY <1>3, <1>4, <1>5, <1>6, <1>7, <1>8, <1>9, <1>10 DEF Next, Step

-----------------------------------------------------------------------------

\* A row is delivered in a message.
LEMMA DeliveredRow ==
    ASSUME NEW d, NEW k, NEW r
    PROVE  r \in Delivered(d, k) <=>
               \E i \in 1..Len(stream[d]) :
                  stream[d][i].type = "process" /\ stream[d][i].key = k /\ r \in stream[d][i].rows
BY ZenonT(30) DEF Delivered

\* The same, of the state after a step.
LEMMA DeliveredRowNext ==
    ASSUME NEW d, NEW k, NEW r
    PROVE  r \in Delivered(d, k)' <=>
               \E i \in 1..Len(stream'[d]) :
                  stream'[d][i].type = "process" /\ stream'[d][i].key = k /\ r \in stream'[d][i].rows
BY ZenonT(30) DEF Delivered

\* A push adds the rows of its message.
LEMMA DeliveredPush ==
    ASSUME Typed, NEW m \in Message, Push(next, m)
    PROVE  /\ \A d \in Down : \A k : Delivered(d, k) \subseteq Delivered(d, k)'
           /\ \A d, k : m.type = "process" /\ d = next /\ k = m.key =>
                 m.rows \subseteq Delivered(d, k)'
<1>1. /\ next \in Down
      /\ \A d \in Down : d # next => stream'[d] = stream[d]
      /\ Len(stream'[next]) = Len(stream[next]) + 1
      /\ stream'[next][Len(stream[next]) + 1] = m
      /\ \A i \in 1..Len(stream[next]) : stream'[next][i] = stream[next][i]
      /\ Len(stream[next]) \in Nat
  BY Fields, PushFacts DEF Push
<1>2. 1..Len(stream[next]) \subseteq 1..Len(stream'[next]) /\ Len(stream[next]) + 1 \in 1..Len(stream'[next])
  BY <1>1
<1>3. ASSUME NEW d \in Down, NEW k, NEW r \in Delivered(d, k) PROVE r \in Delivered(d, k)'
  <2>1. PICK i \in 1..Len(stream[d]) :
            stream[d][i].type = "process" /\ stream[d][i].key = k /\ r \in stream[d][i].rows
    BY <1>3, DeliveredRow
  <2>2. i \in 1..Len(stream'[d]) /\ stream'[d][i] = stream[d][i]
    BY <1>1, <1>2
  <2>3. QED
    BY <2>1, <2>2, DeliveredRowNext
<1>4. ASSUME NEW d, NEW k, m.type = "process", d = next, k = m.key, NEW r \in m.rows
      PROVE  r \in Delivered(d, k)'
  BY <1>1, <1>2, <1>4, DeliveredRowNext
<1>5. QED
  BY <1>3, <1>4

\* If no stream changes, nor does what was delivered.
LEMMA DeliveredSame ==
    ASSUME UNCHANGED stream
    PROVE  \A d, k : Delivered(d, k)' = Delivered(d, k)
BY DEF Delivered

\* What was delivered stays delivered.
LEMMA DeliveredGrows ==
    ASSUME Typed, Control, [Next]_vars
    PROVE  \A d \in Down : \A k : Delivered(d, k) \subseteq Delivered(d, k)'
<1>1. CASE UNCHANGED stream
  BY <1>1, DeliveredSame
<1>2. CASE RetractOld
  <2>1. pc = "retract" /\ (UNCHANGED stream \/ Push(next, Retracted))
    BY <1>2 DEF RetractOld, downVars, Retracted
  <2>2. Retracted \in Message
    BY <2>1, HandedOut
  <2>3. QED  BY <1>1, <2>1, <2>2, DeliveredPush
<1>3. CASE Send
  <2>1. pc = "send" /\ (UNCHANGED stream \/ Push(next, Sent))
    BY <1>3 DEF Send, downVars, Sent
  <2>2. Sent \in Message
    BY <2>1, HandedOut
  <2>3. QED  BY <1>1, <2>1, <2>2, DeliveredPush
<1>4. CASE Forward
  <2>1. pc = "forward" /\ (UNCHANGED stream \/ Push(next, Forwarded))
    BY <1>4 DEF Forward, downVars
  <2>2. QED  BY <1>1, <2>1, ForwardedMessage, DeliveredPush
<1>5. ~(RetractOld \/ Send \/ Forward) => UNCHANGED stream
  <2>1. Upstream => UNCHANGED stream
    BY DEF Upstream, Process, RetractBlock, UpdateWatermark, UpdateProcessingTime, Finish, downVars
  <2>2. Step => UNCHANGED stream \/ RetractOld \/ Send \/ Forward
    BY DEF Step, Evaluate, FinishBlock, Check, LoopDone, downVars
  <2>3. ASSUME NEW d \in Down, Consume(d) \/ ConsumeFails(d) PROVE UNCHANGED stream
    BY <2>3 DEF Consume, ConsumeFails
  <2>4. QED  BY <2>1, <2>2, <2>3 DEF Next, vars, downVars
<1>6. QED
  BY <1>1, <1>2, <1>3, <1>4, <1>5

-----------------------------------------------------------------------------

\* No row is lost; while a block is handed out, the transports that were served have its
\* rows, and so have all of them when it is about to expire.
Kept ==
    /\ NothingLost
    /\ pc = "send" => \A d \in Down, k \in Key : k = cur /\ d < next => rows[k] \subseteq Delivered(d, k)
    /\ pc = "check" /\ err = "nil" /\ (op = "finish" \/ Ends(trigger[cur])) =>
          \A d \in Down, k \in Key : k = cur => rows[k] \subseteq Delivered(d, k)

\* What handing out a block does.
LEMMA SendFacts ==
    ASSUME Typed, Control, Kept, [Next]_vars, Send
    PROVE  /\ pc = "send" /\ cur \in Key /\ UNCHANGED <<op, todo, cur, rowVars, watermark, blocks, trigger>>
           /\ \/ err' = "error" /\ pc' = "check" /\ UNCHANGED <<rows, stream>>
              \/ /\ UNCHANGED err
                 /\ \A d \in Down, k \in Key : k = cur /\ d <= next => rows[k] \subseteq Delivered(d, k)'
                 /\ \/ pc' = "send" /\ next < N /\ next' = next + 1 /\ UNCHANGED rows
                    \/ pc' = "check" /\ next = N /\ rows' \in {rows, [rows EXCEPT ![cur] = {}]}
<1>1. pc = "send" /\ UNCHANGED <<op, todo, cur, rowVars, watermark, blocks, trigger>>
  BY DEF Send, DiscardBlock, cacheVars, timeVars
<1>2. cur \in Key /\ rows[cur] \in SUBSET (1..MaxRows)
  BY <1>1 DEF Typed, TypedLoop, TypedCache, AtKey
<1>3. CASE down[next] = "failed"
  <2>1. err' = "error" /\ pc' = "check" /\ UNCHANGED <<rows, stream>>
    BY <1>3 DEF Send, cacheVars, downVars
  <2>2. QED  BY <1>1, <1>2, <2>1
<1>4. CASE down[next] # "failed"
  <2>1. /\ UNCHANGED err /\ Push(next, Sent)
        /\ \/ pc' = "send" /\ next < N /\ next' = next + 1 /\ UNCHANGED rows
           \/ pc' = "check" /\ ~(next < N) /\ rows' \in {rows, [rows EXCEPT ![cur] = {}]}
    BY <1>1, <1>4 DEF Send, DiscardBlock, cacheVars, Sent
  <2>2. /\ Sent \in Message /\ Sent.type = "process" /\ Sent.key = cur /\ Sent.rows = rows[cur]
    BY <1>1, HandedOut
  <2>3. next \in 1..N /\ N \in Nat /\ Down = 1..N
    BY Fields
  <2>5. ASSUME NEW d \in Down, NEW k \in Key, k = cur, d <= next
        PROVE  rows[k] \subseteq Delivered(d, k)'
    <3>1. CASE d = next
      BY <2>1, <2>2, <2>5, <3>1, DeliveredPush
    <3>2. CASE d < next
      <4>1. rows[k] \subseteq Delivered(d, k)
        BY <1>1, <2>5, <3>2 DEF Kept
      <4>2. QED  BY <4>1, DeliveredGrows
    <3>3. QED  BY <2>3, <2>5, <3>1, <3>2
  <2>6. ~(next < N) => next = N
    BY <2>3
  <2>7. QED
    BY <1>1, <1>2, <2>1, <2>5, <2>6
<1>5. QED
  BY <1>3, <1>4

\* No step loses a row.
LEMMA KeptStep == Typed /\ Control /\ Triggers /\ Kept /\ [Next]_vars => Kept'
<1> SUFFICES ASSUME Typed, Control, Triggers, Kept, [Next]_vars PROVE Kept'
  OBVIOUS
<1>f. Down' = Down /\ Down = 1..N /\ N \in Nat \ {0} /\ next \in 1..N
  BY Fixed, Fields
<1>g. \A d \in Down : \A k : Delivered(d, k) \subseteq Delivered(d, k)'
  BY DeliveredGrows
<1>t. /\ rows \in [Key -> SUBSET (1..MaxRows)] /\ received \in [Key -> SUBSET (1..MaxRows)]
      /\ \A k \in Key : k \notin blocks => rows[k] = {}
  BY DEF Typed, TypedCache
<1>l. err = "nil" => \A d \in Down, k \in Key : received[k] \subseteq rows[k] \cup Delivered(d, k)
  BY DEF Kept, NothingLost
<1>1. ASSUME NEW k \in Key, Process(k) PROVE Kept'
  <2>1. /\ pc' = "idle" /\ err' = err /\ rows' = [rows EXCEPT ![k] = @ \cup {arrived + 1}]
        /\ received' = [received EXCEPT ![k] = @ \cup {arrived + 1}]
    BY <1>1 DEF Process, AppendRow, loopVars
  <2>2. ASSUME err = "nil", NEW d \in Down, NEW j \in Key
        PROVE  received'[j] \subseteq rows'[j] \cup Delivered(d, j)'
    BY <1>l, <1>g, <1>t, <2>1, <2>2
  <2>3. QED  BY <1>f, <2>1, <2>2 DEF Kept, NothingLost
<1>2. ASSUME NEW k \in Key, RetractBlock(k) PROVE Kept'
  <2>1. /\ pc' \in {"forward", "panic"} /\ err' = err
        /\ \/ UNCHANGED <<rows, received>>
           \/ rows' = [rows EXCEPT ![k] = {}] /\ received' = [received EXCEPT ![k] = @ \ rows[k]]
    BY <1>2 DEF RetractBlock, DiscardBlock, cacheVars, loopVars
  <2>2. ASSUME err = "nil", NEW d \in Down, NEW j \in Key
        PROVE  received'[j] \subseteq rows'[j] \cup Delivered(d, j)'
    BY <1>l, <1>g, <1>t, <2>1, <2>2
  <2>3. QED  BY <1>f, <2>1, <2>2 DEF Kept, NothingLost
<1>3. CASE /\ UNCHANGED <<rows, received>> /\ (err' = "nil" => err = "nil")
           /\ pc' \notin {"send", "check"}
  BY <1>f, <1>g, <1>l, <1>3 DEF Kept, NothingLost
<1>4. ASSUME NEW k \in Key, Evaluate(k) PROVE Kept'
  <2>1. /\ UNCHANGED <<rows, received, op, err>> /\ cur' = k /\ next' = 1 /\ op # "finish"
    BY <1>4 DEF Evaluate, rowVars
  <2>c. pc' = "check" => ~Fires(trigger[k], Context(k))
    BY <1>4 DEF Evaluate, TriggerBlock
  <2>n. \A d \in Down : ~(d < next')
    BY <1>f, <2>1
  <2>2. pc' = "check" => ~Ends(trigger'[cur'])
    BY <1>4, <2>1, <2>c, EvaluateFacts
  <2>3. QED  BY <1>f, <1>g, <1>l, <2>1, <2>2, <2>n DEF Kept, NothingLost
<1>5. ASSUME NEW k \in Key, FinishBlock(k) PROVE Kept'
  <2>1. /\ UNCHANGED <<rows, received, err>> /\ next' = 1 /\ pc' \in {"retract", "send"}
        /\ \A d \in Down : ~(d < next')
    BY <1>5, <1>f DEF FinishBlock, TriggerBlock, cacheVars, rowVars
  <2>2. QED  BY <1>f, <1>g, <1>l, <2>1 DEF Kept, NothingLost
<1>6. CASE RetractOld
  <2>1. /\ UNCHANGED <<rows, received>>
        /\ \/ err' = "error"
           \/ UNCHANGED err /\ pc' = "retract"
           \/ UNCHANGED err /\ pc' = "send" /\ next' = 1 /\ \A d \in Down : ~(d < next')
    BY <1>6, <1>f DEF RetractOld, cacheVars, rowVars
  <2>2. err' = "error" => pc' = "check"
    BY <1>6 DEF RetractOld, Control
  <2>3. QED  BY <1>f, <1>g, <1>l, <2>1, <2>2 DEF Kept, NothingLost
<1>7. CASE Send
  <2>1. CASE err' = "error" /\ pc' = "check" /\ UNCHANGED <<rows, stream>>
    BY <2>1 DEF Kept, NothingLost
  <2>2. CASE /\ UNCHANGED err /\ pc' = "send" /\ next < N /\ next' = next + 1 /\ UNCHANGED rows
             /\ \A d \in Down, k \in Key : k = cur /\ d <= next => rows[k] \subseteq Delivered(d, k)'
    <3>1. UNCHANGED <<cur, received>>
      BY <1>7, SendFacts DEF rowVars
    <3>2. \A d \in Down : d < next' => d <= next
      BY <1>f, <2>2
    <3>3. QED  BY <1>f, <1>g, <1>l, <2>2, <3>1, <3>2 DEF Kept, NothingLost
  <2>3. CASE /\ UNCHANGED err /\ pc' = "check" /\ next = N /\ rows' \in {rows, [rows EXCEPT ![cur] = {}]}
             /\ \A d \in Down, k \in Key : k = cur /\ d <= next => rows[k] \subseteq Delivered(d, k)'
    <3>1. UNCHANGED <<cur, received>> /\ cur \in Key
      BY <1>7, SendFacts DEF rowVars
    <3>2. \A d \in Down : d <= next
      BY <1>f, <2>3
    <3>3. ASSUME NEW d \in Down, NEW k \in Key, k = cur
          PROVE  rows'[k] \subseteq rows[k] /\ rows[k] \subseteq Delivered(d, k)'
      BY <1>t, <2>3, <3>1, <3>2, <3>3
    <3>4. ASSUME err = "nil", NEW d \in Down, NEW k \in Key
          PROVE  received'[k] \subseteq rows'[k] \cup Delivered(d, k)'
      <4>1. CASE k = cur
        BY <1>l, <1>g, <3>1, <3>3, <3>4, <4>1
      <4>2. CASE k # cur
        BY <1>l, <1>g, <1>t, <2>3, <3>1, <3>4, <4>2
      <4>3. QED  BY <4>1, <4>2
    <3>5. \A d \in Down, k \in Key : k = cur => rows'[k] \subseteq Delivered(d, k)'
      BY <3>3
    <3>6. QED  BY <1>f, <2>3, <3>1, <3>4, <3>5 DEF Kept, NothingLost
  <2>4. QED  BY <1>7, <2>1, <2>2, <2>3, SendFacts
<1>8. CASE Check
  <2>1. /\ pc = "check" /\ pc' = "loop" /\ UNCHANGED <<received, err>> /\ cur \in Key
        /\ \/ rows' = rows
           \/ (op = "finish" \/ Ends(trigger[cur])) /\ rows' = [rows EXCEPT ![cur] = {}]
    BY <1>8 DEF Check, ExpireBlock, rowVars, Typed, TypedLoop, TypedCache, AtKey
  <2>2. ASSUME err = "nil", NEW d \in Down, NEW k \in Key
        PROVE  received'[k] \subseteq rows'[k] \cup Delivered(d, k)'
    <3>1. CASE rows' = rows
      BY <1>l, <1>g, <2>1, <2>2, <3>1
    <3>2. CASE (op = "finish" \/ Ends(trigger[cur])) /\ rows' = [rows EXCEPT ![cur] = {}]
      <4>1. k = cur => rows[k] \subseteq Delivered(d, k)
        BY <2>1, <2>2, <3>2 DEF Kept
      <4>2. k # cur => rows'[k] = rows[k]
        BY <1>t, <3>2
      <4>3. QED  BY <1>l, <1>g, <2>1, <2>2, <4>1, <4>2
    <3>3. QED  BY <2>1, <3>1, <3>2
  <2>3. QED  BY <1>f, <2>1, <2>2 DEF Kept, NothingLost
<1>9. ASSUME UNCHANGED <<rows, received, err, op, pc, next, cur, trigger>> PROVE Kept'
  BY <1>f, <1>g, <1>9 DEF Kept, NothingLost
<1>10. CASE LoopDone \/ Forward
  <2>1. /\ UNCHANGED <<rows, received>> /\ (err' = "nil" => err = "nil") /\ pc' \notin {"send", "check"}
    BY <1>10 DEF LoopDone, Forward, Advance, cacheVars, rowVars
  <2>2. QED  BY <1>3, <2>1
<1>11. ASSUME NEW t \in Time, UpdateWatermark(t) \/ UpdateProcessingTime(t) PROVE Kept'
  <2>1. UNCHANGED <<rows, received, err>> /\ pc' = "loop"
    BY <1>11 DEF UpdateWatermark, UpdateProcessingTime, Loop, cacheVars, rowVars
  <2>2. QED  BY <1>3, <2>1
<1>12. ASSUME NEW e \in {"nil", "error"}, Finish(e) PROVE Kept'
  <2>1. UNCHANGED <<rows, received>> /\ pc' = "loop" /\ err = "nil"
    BY <1>12 DEF Finish, Loop, cacheVars, rowVars, Control
  <2>2. QED  BY <1>3, <2>1
<1>13. ASSUME NEW d \in Down, Consume(d) \/ ConsumeFails(d) PROVE Kept'
  <2>1. UNCHANGED <<rows, received, err, op, pc, next, cur, trigger>>
    BY <1>13 DEF Consume, ConsumeFails, cacheVars, rowVars, loopVars
  <2>2. QED  BY <1>9, <2>1
<1>14. CASE UNCHANGED vars
  <2>1. UNCHANGED <<rows, received, err, op, pc, next, cur, trigger>>
    BY <1>14 DEF vars, cacheVars, rowVars, loopVars
  <2>2. QED  BY <1>9, <2>1
<1>15. QED
  BY <1>1, <1>2, <1>4, <1>5, <1>6, <1>7, <1>8, <1>10, <1>11, <1>12, <1>13, <1>14 DEF Next, Upstream, Step

-----------------------------------------------------------------------------

\* The inductive invariant: the types, where the method is, the triggers, and the rows.
BaseInv == Typed /\ Control /\ Triggers /\ Kept

\* A dataset starts with an empty cache and empty streams.
LEMMA BaseInit == Init => BaseInv
<1> SUFFICES ASSUME Init PROVE BaseInv
  OBVIOUS
<1>1. /\ N \in Nat \ {0} /\ MaxUpdates \in Nat /\ Down = 1..N /\ spec \in Specs
      /\ NoKey \notin Key /\ MaxRows \in Nat /\ 1 \in Down
  <2>1. N \in Nat \ {0} /\ MaxUpdates \in Nat /\ Down = 1..N /\ spec \in Specs
    BY SettingTyped DEF Init
  <2>2. QED  BY <2>1, DatasetAssumption
<1>2. \A d \in Down : stream[d] = << >> /\ Len(stream[d]) = 0 /\ done[d] = 0
  BY DEF Init
<1>4. TypedTimes /\ TypedCache
  BY <1>1 DEF Init, TypedTimes, TypedCache
<1>5. TypedLoop
  BY <1>1 DEF Init, TypedLoop, AtKey
<1>6. TypedDown
  <2>1. refs \in Seq(Int) /\ stream \in [Down -> Seq(Message)]
    BY DEF Init
  <2>2. done \in [Down -> Nat] /\ down \in [Down -> {"open", "failed", "finished"}]
    BY DEF Init
  <2>3. QED  BY <1>2, <2>1, <2>2 DEF TypedDown
<1>7. Control
  BY <1>1 DEF Init, Control, AtKey
<1>8. Triggers
  BY <1>1, TriggerAssumption DEF Init, Triggers, AtKey
<1>9. Kept
  BY DEF Init, Kept, NothingLost
<1>10. QED
  BY <1>4, <1>5, <1>6, <1>7, <1>8, <1>9 DEF BaseInv, Typed

\* Every step of a dataset keeps them.
LEMMA BaseStep == BaseInv /\ [Next]_vars => BaseInv'
<1>1. Typed /\ Control /\ [Next]_vars => Typed'
  BY TypedCacheStep, TypedLoopStep DEF Typed
<1>2. QED
  BY <1>1, ControlStep, TriggersStep, KeptStep DEF BaseInv

\* The fields have their types: the method is at a key of the cache whenever it needs one.
THEOREM DatasetTypes == Spec => []TypeOK
<1>1. BaseInv => TypeOK
  BY TypedTypeOK DEF BaseInv
<1>2. QED
  BY <1>1, BaseInit, BaseStep, PTL DEF Spec

\* Triggering, discarding and expiring blocks in whatever order loses no row, as long as
\* no call has failed.
THEOREM RowsAreKept == Spec => []NothingLost
<1>1. BaseInv => NothingLost
  BY DEF BaseInv, Kept
<1>2. QED
  BY <1>1, BaseInit, BaseStep, PTL DEF Spec
=============================================================================
