--------------------------- MODULE TransportProofs ---------------------------
(***************************************************************************)
(* consecutiveTransport, for any number of producers and workers and any   *)
(* throughput: a single consumer, one scheduled entry, no lost wake-up,    *)
(* and the messages of each producer in the order of its calls.            *)
(*                                                                         *)
(* The argument follows a token.  Whoever moves schedulerState from idle   *)
(* to running owns the token; it travels with that goroutine into the work *)
(* channel and from there to a worker, and is given up by the transition   *)
(* to idle or to finished (Token).  The wake-up argument needs one more    *)
(* fact: how far inflight lags behind the queue (InflightCount).           *)
(***************************************************************************)
EXTENDS Transport, FiniteSetTheorems, TLAPS

USE SMTT(30), ZenonT(30)

Owner(w) == wpc[w] \in Owning
Sender(p) == ppc[p] = "send"

\* The token is in at most one place, and schedulerState says it exists.
Token ==
    /\ work \in {0, 1}
    /\ \A v, w \in Worker : Owner(v) /\ Owner(w) => v = w
    /\ \A p, q \in Producer : Sender(p) /\ Sender(q) => p = q
    /\ \A w \in Worker, p \in Producer : ~(Owner(w) /\ Sender(p))
    /\ work = 1 => (\A w \in Worker : ~Owner(w)) /\ (\A p \in Producer : ~Sender(p))
    /\ work = 1 => schedulerState = "running"
    /\ \A w \in Worker : Owner(w) => schedulerState = "running"
    /\ \A p \in Producer : Sender(p) => schedulerState = "running"

\* Producers that have pushed and not yet counted, workers that have popped
\* and not yet discounted.
Adding == {p \in Producer : ppc[p] = "add"}
Decrementing == {w \in Worker : wpc[w] = "dec"}

InflightCount ==
    inflight = Len(queue) + Cardinality(Decrementing) - Cardinality(Adding)

\* Between t's Finish and the end of the transport: the worker that called it
\* is on its way to the transition to finished, or has panicked.
Ending(w) ==
    \/ wpc[w] \in {"setErr", "tryFinish"} /\ wres[w] = "finish"
    \/ wpc[w] = "dead"

Finishing ==
    /\ \A i \in 1..Len(delivered) : delivered[i].kind = "finish" => i = Len(delivered)
    /\ LastIsFinish => schedulerState = "finished" \/ \E w \in Worker : Ending(w)
    /\ schedulerState = "finished" => LastIsFinish
    /\ \A w \in Worker :
         wpc[w] \in {"setErr", "tryFinish"} /\ wres[w] = "finish" => LastIsFinish
    /\ closed = "yes" => schedulerState = "finished"
    /\ \A w \in Worker : wpc[w] = "close" => schedulerState = "finished" /\ closed = "no"
    /\ \A v, w \in Worker : wpc[v] = "close" /\ wpc[w] = "close" => v = w

Inv == TypeOK /\ Token /\ InflightCount /\ NoLostWakeup /\ Finishing

-----------------------------------------------------------------------------

\* A new transport is well typed.
LEMMA TypeInit == Init => TypeOK
BY ThroughputAssumption, MaxCallsAssumption
   DEF Init, TypeOK, ProducerLabel, WorkerLabel, Owning, Message

\* A queue of messages stays one when a message is appended.
LEMMA AppendMessage ==
    ASSUME NEW s \in Seq(Message), NEW m \in Message
    PROVE  Append(s, m) \in Seq(Message)
OBVIOUS

\* Every step keeps the types.
LEMMA TypeStep == TypeOK /\ [Next]_vars => TypeOK'
<1> SUFFICES ASSUME TypeOK, [Next]_vars PROVE TypeOK'
  OBVIOUS
<1> USE MaxCallsAssumption DEF TypeOK, ProducerLabel, WorkerLabel, Owning
<1>1. ASSUME NEW p \in Producer, Producing(p) PROVE TypeOK'
  <2>1. CASE Refuse(p)
    BY <2>1 DEF Refuse, queueVars, stateVars, workerVars
  <2>2. ASSUME NEW k \in Kind, Accept(p, k) PROVE TypeOK'
    <3>1. [src |-> p, n |-> calls[p] + 1, kind |-> k] \in Message
      BY <2>2 DEF Accept, Message
    <3>2. QED
      BY <2>2, <3>1 DEF Accept, queueVars, stateVars, workerVars
  <2>3. CASE Push(p)
    BY <2>3 DEF Push, stateVars, workerVars
  <2>4. CASE Add(p)
    BY <2>4 DEF Add, stateVars, workerVars
  <2>5. CASE Schedule(p)
    BY ZenonT(30), <2>5 DEF Schedule, queueVars, workerVars
  <2>6. CASE Send(p)
    BY <2>6 DEF Send, queueVars, stateVars, workerVars
  <2>7. QED
    BY <1>1, <2>1, <2>2, <2>3, <2>4, <2>5, <2>6 DEF Producing, Pushing
<1>2. ASSUME NEW w \in Worker, Processing(w) PROVE TypeOK'
  <2> USE DEF Goto
  <2>1. CASE Receive(w)
    BY <2>1 DEF Receive, queueVars, stateVars, producerVars
  <2>2. CASE PopNil(w)
    BY <2>2 DEF PopNil, queueVars, stateVars, producerVars
  <2>3. CASE Pop(w)
    <3>1. Head(queue) \in Message /\ Tail(queue) \in Seq(Message)
      BY <2>3 DEF Pop
    <3>2. QED
      BY <2>3, <3>1 DEF Pop, stateVars, producerVars
  <2>4. CASE Dec(w)
    BY <2>4 DEF Dec, stateVars, producerVars
  <2>5. CASE ProcessOK(w)
    BY <2>5 DEF ProcessOK, NextMessage, queueVars, stateVars, producerVars
  <2>6. CASE ProcessError(w)
    BY <2>6 DEF ProcessError, queueVars, stateVars, producerVars
  <2>7. CASE ProcessFinish(w)
    BY <2>7 DEF ProcessFinish, queueVars, stateVars, producerVars
  <2>8. CASE Panic(w)
    BY <2>8 DEF Panic, queueVars, stateVars, producerVars
  <2>9. CASE SetErr(w)
    BY <2>9 DEF SetErr, queueVars, producerVars
  <2>10. CASE TryFinish(w)
    <3>1. FinishCall(wmsg[w]) \in Message
      BY <2>10 DEF TryFinish, Message, Kind, FinishCall
    <3>2. CASE schedulerState = "running"
      <4>1. delivered' \in {delivered, Append(delivered, FinishCall(wmsg[w]))}
        BY <2>10, <3>2 DEF TryFinish
      <4>2. wpc' = [wpc EXCEPT ![w] = "close"] /\ schedulerState' = "finished" /\ UNCHANGED wi
        BY <2>10, <3>2 DEF TryFinish
      <4>3. delivered' \in Seq(Message)
        <5>1. Append(delivered, FinishCall(wmsg[w])) \in Seq(Message)
          BY <3>1, AppendMessage
        <5>2. QED
          BY ZenonT(30), <4>1, <5>1
      <4>4. QED
        BY <2>10, <4>2, <4>3 DEF TryFinish, queueVars, producerVars
    <3>3. CASE schedulerState # "running"
      <4>1. NextMessage(w) /\ UNCHANGED <<schedulerState, delivered>>
        BY <2>10, <3>3 DEF TryFinish
      <4>2. QED
        BY <2>10, <4>1 DEF TryFinish, NextMessage, queueVars, producerVars
    <3>4. QED
      BY <3>2, <3>3
  <2>11. CASE Close(w)
    BY <2>11 DEF Close, queueVars, producerVars
  <2>12. CASE Yield(w)
    BY <2>12 DEF Yield, queueVars, producerVars
  <2>13. CASE Reschedule(w)
    BY ZenonT(30), <2>13 DEF Reschedule, queueVars, producerVars
  <2>14. CASE SendAgain(w)
    BY <2>14 DEF SendAgain, queueVars, stateVars, producerVars
  <2>15. CASE Rest(w)
    BY <2>15 DEF Rest, queueVars, producerVars
  <2>16. CASE Load(w)
    <3>1. CASE inflight > 0
      BY <2>16, <3>1 DEF Load, queueVars, stateVars, producerVars
    <3>2. CASE ~(inflight > 0)
      BY <2>16, <3>2 DEF Load, queueVars, stateVars, producerVars
    <3>3. QED
      BY <3>1, <3>2
  <2>17. CASE Resume(w)
    <3>1. CASE schedulerState = "idle"
      <4>1. /\ schedulerState' = "running"
            /\ wi' = [wi EXCEPT ![w] = 0] /\ wpc' = [wpc EXCEPT ![w] = "pop"]
        BY <2>17, <3>1 DEF Resume
      <4>2. QED
        BY <2>17, <4>1 DEF Resume, queueVars, producerVars
    <3>2. CASE schedulerState # "idle"
      BY ZenonT(30), <2>17, <3>2 DEF Resume, queueVars, producerVars
    <3>3. QED
      BY <3>1, <3>2
  <2>18. QED
    BY ZenonT(30), <1>2, <2>1, <2>2, <2>3, <2>4, <2>5, <2>6, <2>7, <2>8, <2>9, <2>10,
       <2>11, <2>12, <2>13, <2>14, <2>15, <2>16, <2>17 DEF Processing
<1>3. CASE UNCHANGED vars
  BY <1>3 DEF vars, queueVars, stateVars, producerVars, workerVars
<1>4. QED
  BY <1>1, <1>2, <1>3 DEF Next

-----------------------------------------------------------------------------
(* The token.                                                              *)

\* A new transport has no token.
LEMMA TokenInit == Init => Token
BY DEF Init, Token, Owner, Sender, Owning

\* The token is made by tryTransition(idle, running), moved, or given up, never copied.
LEMMA TokenStep == TypeOK /\ Token /\ [Next]_vars => Token'
<1> SUFFICES ASSUME TypeOK, Token, [Next]_vars PROVE Token'
  OBVIOUS
<1>0. /\ ppc \in [Producer -> ProducerLabel] /\ wpc \in [Worker -> WorkerLabel]
      /\ work \in Nat
  BY DEF TypeOK
<1> USE <1>0 DEF Token, Owner, Sender, Owning
<1>1. ASSUME NEW p \in Producer, Producing(p) PROVE Token'
  <2>1. CASE Refuse(p)
    BY <2>1 DEF Refuse, stateVars, workerVars
  <2>2. ASSUME NEW k \in Kind, Accept(p, k) PROVE Token'
    BY <2>2 DEF Accept, stateVars, workerVars
  <2>3. CASE Push(p)
    BY <2>3 DEF Push, stateVars, workerVars
  <2>4. CASE Add(p)
    BY <2>4 DEF Add, stateVars, workerVars
  <2>5. CASE Schedule(p)
    BY <2>5 DEF Schedule, workerVars
  <2>6. CASE Send(p)
    BY <2>6 DEF Send, stateVars, workerVars
  <2>7. QED
    BY <1>1, <2>1, <2>2, <2>3, <2>4, <2>5, <2>6 DEF Producing, Pushing
<1>2. ASSUME NEW w \in Worker, Processing(w) PROVE Token'
  <2> USE DEF Goto
  <2>1. CASE Receive(w)
    BY <2>1 DEF Receive, stateVars, producerVars
  <2>2. CASE PopNil(w)
    BY <2>2 DEF PopNil, stateVars, producerVars
  <2>3. CASE Pop(w)
    BY <2>3 DEF Pop, stateVars, producerVars
  <2>4. CASE Dec(w)
    BY <2>4 DEF Dec, stateVars, producerVars
  <2>5. CASE ProcessOK(w)
    BY <2>5 DEF ProcessOK, NextMessage, stateVars, producerVars
  <2>6. CASE ProcessError(w)
    BY <2>6 DEF ProcessError, stateVars, producerVars
  <2>7. CASE ProcessFinish(w)
    BY <2>7 DEF ProcessFinish, stateVars, producerVars
  <2>8. CASE Panic(w)
    BY <2>8 DEF Panic, stateVars, producerVars
  <2>9. CASE SetErr(w)
    BY <2>9 DEF SetErr, producerVars
  <2>10. CASE TryFinish(w)
    BY <2>10 DEF TryFinish, NextMessage, producerVars
  <2>11. CASE Close(w)
    BY <2>11 DEF Close, producerVars
  <2>12. CASE Yield(w)
    BY <2>12 DEF Yield, producerVars
  <2>13. CASE Reschedule(w)
    BY <2>13 DEF Reschedule, producerVars
  <2>14. CASE SendAgain(w)
    BY <2>14 DEF SendAgain, stateVars, producerVars
  <2>15. CASE Rest(w)
    BY <2>15 DEF Rest, producerVars
  <2>16. CASE Load(w)
    BY <2>16 DEF Load, stateVars, producerVars
  <2>17. CASE Resume(w)
    BY <2>17 DEF Resume, producerVars
  <2>18. QED
    BY ZenonT(30), <1>2, <2>1, <2>2, <2>3, <2>4, <2>5, <2>6, <2>7, <2>8, <2>9, <2>10,
       <2>11, <2>12, <2>13, <2>14, <2>15, <2>16, <2>17 DEF Processing
<1>3. CASE UNCHANGED vars
  BY <1>3 DEF vars, stateVars, producerVars, workerVars
<1>4. QED
  BY <1>1, <1>2, <1>3 DEF Next

-----------------------------------------------------------------------------
(* How far inflight lags behind the queue.                                 *)

\* The goroutines between a queue operation and its count are finitely many.
LEMMA LaggingFinite ==
    /\ IsFiniteSet(Adding) /\ Cardinality(Adding) \in Nat
    /\ IsFiniteSet(Decrementing) /\ Cardinality(Decrementing) \in Nat
BY FiniteAssumption, FS_Subset, FS_CardinalityType DEF Adding, Decrementing

\* A new transport counts nothing.
LEMMA InflightInit == Init => InflightCount
<1> SUFFICES ASSUME Init PROVE InflightCount
  OBVIOUS
<1>1. Adding = {} /\ Decrementing = {}
  BY DEF Init, Adding, Decrementing
<1>2. QED
  BY <1>1, FS_EmptySet DEF Init, InflightCount

\* A step that moves no goroutine to or from the two lagging labels.
LEMMA InflightUnmoved ==
    ASSUME InflightCount, UNCHANGED queueVars,
           \A p \in Producer : ppc'[p] = "add" <=> ppc[p] = "add",
           \A w \in Worker : wpc'[w] = "dec" <=> wpc[w] = "dec"
    PROVE  InflightCount'
<1>1. Adding' = Adding /\ Decrementing' = Decrementing
  BY DEF Adding, Decrementing
<1>2. QED
  BY <1>1 DEF InflightCount, queueVars

\* Push, Pop and the two atomic counts keep the lag of inflight.
LEMMA InflightStep == TypeOK /\ InflightCount /\ [Next]_vars => InflightCount'
<1> SUFFICES ASSUME TypeOK, InflightCount, [Next]_vars PROVE InflightCount'
  OBVIOUS
<1>0. /\ ppc \in [Producer -> ProducerLabel] /\ wpc \in [Worker -> WorkerLabel]
      /\ queue \in Seq(Message) /\ inflight \in Int
  BY DEF TypeOK
<1> USE <1>0
<1>1. ASSUME NEW p \in Producer, Producing(p) PROVE InflightCount'
  <2>1. CASE Refuse(p)
    BY <2>1, InflightUnmoved DEF Refuse, workerVars
  <2>2. ASSUME NEW k \in Kind, Accept(p, k) PROVE InflightCount'
    BY <2>2, InflightUnmoved DEF Accept, workerVars
  <2>3. CASE Push(p)
    <3>1. Adding' = Adding \cup {p} /\ p \notin Adding /\ Decrementing' = Decrementing
      BY <2>3 DEF Push, Adding, Decrementing, workerVars
    <3>2. Cardinality(Adding') = Cardinality(Adding) + 1
      BY ZenonT(30), <3>1, LaggingFinite, FS_AddElement
    <3>3. Len(queue') = Len(queue) + 1 /\ inflight' = inflight
      <4>1. pmsg[p] \in Message
        BY <2>3 DEF Push, TypeOK
      <4>2. QED
        BY <2>3, <4>1 DEF Push
    <3>4. Cardinality(Decrementing') = Cardinality(Decrementing)
      BY <3>1
    <3>5. Len(queue) \in Nat
      OBVIOUS
    <3>6. inflight = Len(queue) + Cardinality(Decrementing) - Cardinality(Adding)
      BY DEF InflightCount
    <3>7. inflight' = Len(queue') + Cardinality(Decrementing') - Cardinality(Adding')
      BY <3>2, <3>3, <3>4, <3>5, <3>6, LaggingFinite
    <3>8. QED
      BY <3>7 DEF InflightCount
  <2>4. CASE Add(p)
    <3>1. Adding' = Adding \ {p} /\ p \in Adding /\ Decrementing' = Decrementing
      BY <2>4 DEF Add, Adding, Decrementing, workerVars
    <3>2. Cardinality(Adding') = Cardinality(Adding) - 1
      BY ZenonT(30), <3>1, LaggingFinite, FS_RemoveElement
    <3>3. queue' = queue /\ inflight' = inflight + 1
      BY <2>4 DEF Add
    <3>4. QED
      BY <3>1, <3>2, <3>3, LaggingFinite DEF InflightCount
  <2>5. CASE Schedule(p)
    BY <2>5, InflightUnmoved DEF Schedule, workerVars
  <2>6. CASE Send(p)
    BY <2>6, InflightUnmoved DEF Send, workerVars
  <2>7. QED
    BY <1>1, <2>1, <2>2, <2>3, <2>4, <2>5, <2>6 DEF Producing, Pushing
<1>2. ASSUME NEW w \in Worker, Processing(w) PROVE InflightCount'
  <2>1. CASE Pop(w)
    <3>1. Decrementing' = Decrementing \cup {w} /\ w \notin Decrementing /\ Adding' = Adding
      BY <2>1 DEF Pop, Goto, Adding, Decrementing, producerVars
    <3>2. Cardinality(Decrementing') = Cardinality(Decrementing) + 1
      BY ZenonT(30), <3>1, LaggingFinite, FS_AddElement
    <3>3. Len(queue') = Len(queue) - 1 /\ inflight' = inflight
      <4>1. queue # <<>> /\ queue' = Tail(queue) /\ inflight' = inflight
        BY <2>1 DEF Pop
      <4>2. QED
        BY <4>1
    <3>4. QED
      BY <3>1, <3>2, <3>3, LaggingFinite DEF InflightCount
  <2>2. CASE Dec(w)
    <3>1. Decrementing' = Decrementing \ {w} /\ w \in Decrementing /\ Adding' = Adding
      BY <2>2 DEF Dec, Goto, Adding, Decrementing, producerVars
    <3>2. Cardinality(Decrementing') = Cardinality(Decrementing) - 1
      BY ZenonT(30), <3>1, LaggingFinite, FS_RemoveElement
    <3>3. queue' = queue /\ inflight' = inflight - 1
      BY <2>2 DEF Dec
    <3>4. QED
      BY <3>1, <3>2, <3>3, LaggingFinite DEF InflightCount
  <2>3. CASE Receive(w)
    BY <2>3, InflightUnmoved DEF Receive, Goto, producerVars
  <2>4. CASE PopNil(w)
    BY <2>4, InflightUnmoved DEF PopNil, Goto, producerVars
  <2>5. CASE ProcessOK(w)
    BY <2>5, InflightUnmoved DEF ProcessOK, NextMessage, Goto, producerVars
  <2>6. CASE ProcessError(w)
    BY <2>6, InflightUnmoved DEF ProcessError, Goto, producerVars
  <2>7. CASE ProcessFinish(w)
    BY <2>7, InflightUnmoved DEF ProcessFinish, Goto, producerVars
  <2>8. CASE Panic(w)
    BY <2>8, InflightUnmoved DEF Panic, Goto, producerVars
  <2>9. CASE SetErr(w)
    BY <2>9, InflightUnmoved DEF SetErr, Goto, producerVars
  <2>10. CASE TryFinish(w)
    BY <2>10, InflightUnmoved DEF TryFinish, NextMessage, Goto, producerVars
  <2>11. CASE Close(w)
    BY <2>11, InflightUnmoved DEF Close, Goto, producerVars
  <2>12. CASE Yield(w)
    BY <2>12, InflightUnmoved DEF Yield, Goto, producerVars
  <2>13. CASE Reschedule(w)
    BY <2>13, InflightUnmoved DEF Reschedule, Goto, producerVars
  <2>14. CASE SendAgain(w)
    BY <2>14, InflightUnmoved DEF SendAgain, Goto, producerVars
  <2>15. CASE Rest(w)
    BY <2>15, InflightUnmoved DEF Rest, Goto, producerVars
  <2>16. CASE Load(w)
    BY <2>16, InflightUnmoved DEF Load, Goto, producerVars
  <2>17. CASE Resume(w)
    BY <2>17, InflightUnmoved DEF Resume, Goto, producerVars
  <2>18. QED
    BY <1>2, <2>1, <2>2, <2>3, <2>4, <2>5, <2>6, <2>7, <2>8, <2>9, <2>10,
       <2>11, <2>12, <2>13, <2>14, <2>15, <2>16, <2>17 DEF Processing
<1>3. CASE UNCHANGED vars
  BY <1>3, InflightUnmoved DEF vars, producerVars, workerVars
<1>4. QED
  BY <1>1, <1>2, <1>3 DEF Next

-----------------------------------------------------------------------------
(* No lost wake-up.                                                        *)

\* A new transport has no message to be woken for.
LEMMA WakeupInit == Init => NoLostWakeup
BY DEF Init, NoLostWakeup

\* In the idle state no worker is between its pop and its decrement, so with
\* every producer past its increment inflight counts the queue exactly.
LEMMA IdleInflight ==
    ASSUME TypeOK, InflightCount, queue # <<>>,
           \A w \in Worker : wpc[w] # "dec",
           \A p \in Producer : ppc[p] # "add"
    PROVE  inflight > 0
<1>1. Adding = {} /\ Decrementing = {}
  BY DEF Adding, Decrementing
<1>2. Cardinality(Adding) = 0 /\ Cardinality(Decrementing) = 0
  BY <1>1, FS_EmptySet
<1>3. Len(queue) \in Nat /\ Len(queue) > 0
  BY DEF TypeOK
<1>4. QED
  BY <1>2, <1>3 DEF InflightCount

\* Whoever leaves a message behind in the idle state is about to look again.
LEMMA WakeupStep ==
    TypeOK /\ Token /\ InflightCount /\ NoLostWakeup /\ [Next]_vars => NoLostWakeup'
<1> SUFFICES ASSUME TypeOK, Token, InflightCount, NoLostWakeup, [Next]_vars,
                    schedulerState' = "idle", queue' # <<>>
             PROVE  NoLostWakeup'
  BY DEF NoLostWakeup
<1>0. /\ ppc \in [Producer -> ProducerLabel] /\ wpc \in [Worker -> WorkerLabel]
      /\ inflight \in Int
  BY DEF TypeOK
<1> USE <1>0
<1>1. ASSUME NEW p \in Producer, Producing(p) PROVE NoLostWakeup'
  <2>1. CASE Refuse(p)
    BY <2>1 DEF Refuse, NoLostWakeup, queueVars, stateVars, workerVars
  <2>2. ASSUME NEW k \in Kind, Accept(p, k) PROVE NoLostWakeup'
    <3>1. /\ ppc' = [ppc EXCEPT ![p] = "push"] /\ ppc[p] = "ready"
          /\ UNCHANGED <<queue, inflight, schedulerState, wpc>>
      BY <2>2 DEF Accept, queueVars, stateVars, workerVars
    <3>2. QED
      BY <3>1 DEF NoLostWakeup
  <2>3. CASE Push(p)
    BY <2>3 DEF Push, NoLostWakeup
  <2>4. CASE Add(p)
    BY <2>4 DEF Add, NoLostWakeup
  <2>5. CASE Schedule(p)
    BY <2>5 DEF Schedule, NoLostWakeup
  <2>6. CASE Send(p)
    BY <2>6 DEF Send, NoLostWakeup, Token, Sender, queueVars, stateVars, workerVars
  <2>7. QED
    BY <1>1, <2>1, <2>2, <2>3, <2>4, <2>5, <2>6 DEF Producing, Pushing
<1>2. ASSUME NEW w \in Worker, Processing(w) PROVE NoLostWakeup'
  <2>1. CASE Owner(w)
    \* An owner keeps the transport running, or gives it up and looks again.
    <3>1. schedulerState = "running" /\ \A v \in Worker : Owner(v) => v = w
      BY <2>1 DEF Token
    <3>2. CASE Yield(w)
      BY <3>2 DEF Yield, Goto, NoLostWakeup
    <3>3. CASE Rest(w)
      <4>1. \A v \in Worker : wpc[v] # "dec"
        BY <3>1, <3>3 DEF Rest, Owner, Owning
      <4>2. queue # <<>> /\ UNCHANGED <<ppc, inflight>> /\ wpc'[w] = "load"
        BY <3>3 DEF Rest, Goto, queueVars, producerVars
      <4>3. CASE \E p \in Producer : ppc[p] = "add"
        BY <4>2, <4>3 DEF NoLostWakeup
      <4>4. CASE \A p \in Producer : ppc[p] # "add"
        <5>1. inflight > 0
          BY <4>1, <4>2, <4>4, IdleInflight
        <5>2. QED
          BY <4>2, <5>1 DEF NoLostWakeup
      <4>5. QED
        BY <4>3, <4>4
    <3>4. ASSUME ~Yield(w), ~Rest(w) PROVE FALSE
      BY <1>2, <2>1, <3>1, <3>4
         DEF Processing, Owner, Owning, Receive, PopNil, Pop, Dec, ProcessOK, ProcessError,
             ProcessFinish, Panic, SetErr, TryFinish, Close, Reschedule, SendAgain, Load,
             Resume, stateVars
    <3>5. QED
      BY <3>2, <3>3, <3>4
  <2>2. CASE ~Owner(w)
    <3>1. CASE Receive(w)
      BY <3>1 DEF Receive, Goto, NoLostWakeup, queueVars, stateVars, producerVars
    <3>2. CASE Close(w)
      BY <3>2 DEF Close, Goto, NoLostWakeup, queueVars, producerVars
    <3>3. CASE Reschedule(w)
      BY <3>3 DEF Reschedule, Goto, NoLostWakeup, queueVars, producerVars
    <3>4. CASE Load(w)
      <4>1. /\ schedulerState = "idle" /\ queue # <<>>
            /\ UNCHANGED <<queue, inflight, ppc, schedulerState>>
        BY <3>4 DEF Load, queueVars, stateVars, producerVars
      <4>2. CASE inflight > 0
        BY <3>4, <4>1, <4>2 DEF Load, Goto, NoLostWakeup
      <4>3. CASE ~(inflight > 0)
        <5>1. \A v \in Worker : wpc[v] # "dec"
          BY <4>1 DEF Token, Owner, Owning
        <5>2. \E p \in Producer : ppc[p] = "add"
          BY <4>1, <4>3, <5>1, IdleInflight
        <5>3. QED
          BY <4>1, <5>2 DEF NoLostWakeup
      <4>4. QED
        BY <4>2, <4>3
    <3>5. CASE Resume(w)
      BY <3>5 DEF Resume, Goto, NoLostWakeup, queueVars, producerVars
    <3>6. QED
      BY <1>2, <2>2, <3>1, <3>2, <3>3, <3>4, <3>5
         DEF Processing, Owner, Owning, PopNil, Pop, Dec, ProcessOK, ProcessError,
             ProcessFinish, Panic, SetErr, TryFinish, Yield, SendAgain, Rest
  <2>3. QED
    BY <2>1, <2>2
<1>3. CASE UNCHANGED vars
  BY <1>3 DEF vars, queueVars, stateVars, producerVars, workerVars, NoLostWakeup
<1>4. QED
  BY <1>1, <1>2, <1>3 DEF Next

-----------------------------------------------------------------------------
(* One Finish, the last call; one close.                                   *)

\* Nothing is finished at first.
LEMMA FinishInit == Init => Finishing
BY DEF Init, Finishing, LastIsFinish, Ending

\* Appending a call to a sequence of calls none of which is a Finish.
LEMMA AppendCall ==
    ASSUME NEW s \in Seq(Message), NEW m \in Message,
           \A i \in 1..Len(s) : s[i].kind # "finish"
    PROVE  /\ Append(s, m) # <<>>
           /\ Append(s, m)[Len(Append(s, m))] = m
           /\ \A i \in 1..Len(Append(s, m)) :
                Append(s, m)[i].kind = "finish" => i = Len(Append(s, m))
OBVIOUS
\* Before t has been finished no call is a Finish.
LEMMA NoneIsFinish ==
    ASSUME TypeOK, Finishing, ~LastIsFinish
    PROVE  \A i \in 1..Len(delivered) : delivered[i].kind # "finish"
BY DEF Finishing, LastIsFinish, TypeOK

\* A step that makes no call and moves no worker to or from the labels that
\* Finishing speaks of.
LEMMA FinishUnmoved ==
    ASSUME Finishing, UNCHANGED <<delivered, closed>>,
           schedulerState' = "finished" <=> schedulerState = "finished",
           \A w \in Worker :
               /\ wpc'[w] = "dead" <=> wpc[w] = "dead"
               /\ wpc'[w] = "close" <=> wpc[w] = "close"
               /\ wpc'[w] \in {"setErr", "tryFinish"} /\ wres'[w] = "finish"
                   <=> wpc[w] \in {"setErr", "tryFinish"} /\ wres[w] = "finish"
    PROVE  Finishing'
<1>1. LastIsFinish' <=> LastIsFinish
  BY DEF LastIsFinish
<1>2. \A w \in Worker : Ending(w)' <=> Ending(w)
  BY DEF Ending
<1>3. QED
  BY <1>1, <1>2 DEF Finishing

\* A worker about to call t is the owner, so t has not been finished.
LEMMA NotFinishedYet ==
    ASSUME TypeOK, Token, Finishing, NEW w \in Worker, Owner(w), ~Ending(w)
    PROVE  ~LastIsFinish
<1>1. schedulerState = "running" /\ \A v \in Worker : Owner(v) => v = w
  BY DEF Token
<1>2. \A v \in Worker : Ending(v) => Owner(v)
  BY DEF Ending, Owner, Owning
<1>3. QED
  BY <1>1, <1>2 DEF Finishing

\* Every step keeps t's Finish the last call, and the channel closed once.
LEMMA FinishStep == TypeOK /\ Token /\ Finishing /\ [Next]_vars => Finishing'
<1> SUFFICES ASSUME TypeOK, Token, Finishing, [Next]_vars PROVE Finishing'
  OBVIOUS
<1>0. /\ wpc \in [Worker -> WorkerLabel] /\ wres \in [Worker -> {"ok", "error", "finish"}]
      /\ delivered \in Seq(Message)
  BY DEF TypeOK
<1>1. ASSUME NEW p \in Producer, Producing(p) PROVE Finishing'
  <2>1. UNCHANGED <<delivered, closed, wpc, wres>>
    BY <1>1 DEF Producing, Pushing, Refuse, Accept, Push, Add, Schedule, Send, stateVars,
                workerVars
  <2>2. schedulerState' = "finished" <=> schedulerState = "finished"
    BY <1>1 DEF Producing, Pushing, Refuse, Accept, Push, Add, Schedule, Send, stateVars
  <2>3. QED
    BY <2>1, <2>2, FinishUnmoved
<1>2. ASSUME NEW w \in Worker, Processing(w) PROVE Finishing'
  <2>0. \A v \in Worker : Owner(v) => schedulerState = "running"
    BY DEF Token
  <2> USE <1>0
  <2>1. ASSUME Owner(w), ~Ending(w), wmsg[w] \in Message, wpc[w] = "process",
               delivered' = Append(delivered, wmsg[w]), UNCHANGED <<schedulerState, closed>>,
               \E l \in WorkerLabel : wpc' = [wpc EXCEPT ![w] = l] /\ l # "close",
               LastIsFinish' => Ending(w)',
               wpc'[w] \in {"setErr", "tryFinish"} /\ wres'[w] = "finish" => LastIsFinish',
               \A v \in Worker : v # w => wres'[v] = wres[v]
        PROVE  Finishing'
    <3>0. Owner(w) /\ ~Ending(w)
      BY ZenonT(30), <2>1
    <3>1. ~LastIsFinish /\ schedulerState = "running"
      <4>1. ~LastIsFinish
        BY <3>0, NotFinishedYet
      <4>2. schedulerState = "running"
        BY <2>0, <3>0
      <4> QED  BY <4>1, <4>2
    <3>2. \A i \in 1..Len(delivered') : delivered'[i].kind = "finish" => i = Len(delivered')
      <4>1. \A i \in 1..Len(delivered) : delivered[i].kind # "finish"
        BY <3>1, NoneIsFinish
      <4>2. wmsg[w] \in Message /\ delivered' = Append(delivered, wmsg[w])
        BY <2>1
      <4> DEFINE d == Append(delivered, wmsg[w])
      <4>3. \A i \in 1..Len(d) : d[i].kind = "finish" => i = Len(d)
        BY <4>1, <4>2, AppendCall
      <4> QED  BY <4>2, <4>3
    <3>3. \A v \in Worker : v # w => ~Owner(v)
      BY <2>1 DEF Token
    <3>4. \A v \in Worker : v # w => wpc'[v] = wpc[v] /\ wpc[v] \notin {"setErr", "tryFinish"}
      BY <2>1, <3>3 DEF Owner, Owning
    <3>5. \A v \in Worker : wpc'[v] # "close"
      BY <2>1, <3>1, <3>4 DEF Finishing
    <3>6. closed = "no"
      BY <3>1 DEF Finishing, TypeOK
    <3>7. QED
      BY ZenonT(30), <2>1, <3>1, <3>2, <3>4, <3>5, <3>6 DEF Finishing
  <2>2. CASE Receive(w)
    BY <2>0, <2>2, FinishUnmoved DEF Receive, Goto, Owner, Owning, stateVars
  <2>3. CASE PopNil(w)
    BY <2>0, <2>3, FinishUnmoved DEF PopNil, Goto, Owner, Owning, stateVars
  <2>4. CASE Pop(w)
    BY <2>0, <2>4, FinishUnmoved DEF Pop, Goto, Owner, Owning, stateVars
  <2>5. CASE Dec(w)
    BY <2>0, <2>5, FinishUnmoved DEF Dec, Goto, Owner, Owning, stateVars
  <2>6. CASE SetErr(w)
    BY <2>0, <2>6, FinishUnmoved DEF SetErr, Goto, Owner, Owning, stateVars
  <2>7. CASE Yield(w)
    BY <2>0, <2>7, FinishUnmoved DEF Yield, Goto, Owner, Owning, stateVars
  <2>8. CASE Reschedule(w)
    BY <2>0, <2>8, FinishUnmoved DEF Reschedule, Goto, Owner, Owning, stateVars
  <2>9. CASE SendAgain(w)
    BY <2>0, <2>9, FinishUnmoved DEF SendAgain, Goto, Owner, Owning, stateVars
  <2>10. CASE Rest(w)
    BY <2>0, <2>10, FinishUnmoved DEF Rest, Goto, Owner, Owning, stateVars
  <2>11. CASE Load(w)
    BY <2>0, <2>11, FinishUnmoved DEF Load, Goto, Owner, Owning, stateVars
  <2>12. CASE Resume(w)
    BY <2>0, <2>12, FinishUnmoved DEF Resume, Goto, Owner, Owning, stateVars
  <2>13. CASE ProcessOK(w)
    <3>1. /\ Owner(w) /\ ~Ending(w) /\ wmsg[w] \in Message /\ wmsg[w].kind = "data"
      BY <2>13 DEF ProcessOK, Owner, Owning, Ending, TypeOK
    <3>2. /\ delivered' = Append(delivered, wmsg[w]) /\ UNCHANGED <<schedulerState, closed, wres>>
          /\ \E l \in {"yield", "pop"} : wpc' = [wpc EXCEPT ![w] = l]
      BY ZenonT(30), <2>13 DEF ProcessOK, NextMessage, Goto, stateVars
    <3>3. ~LastIsFinish'
      BY <3>1, <3>2, NotFinishedYet, NoneIsFinish, AppendCall DEF LastIsFinish
    <3>4. QED
      BY ZenonT(30), <2>1, <2>13, <3>1, <3>2, <3>3 DEF ProcessOK, WorkerLabel, Owning
  <2>14. CASE ProcessError(w)
    <3>1. /\ Owner(w) /\ ~Ending(w) /\ wmsg[w] \in Message /\ wmsg[w].kind = "data"
      BY <2>14 DEF ProcessError, Owner, Owning, Ending, TypeOK
    <3>2. /\ delivered' = Append(delivered, wmsg[w]) /\ UNCHANGED <<schedulerState, closed>>
          /\ wpc' = [wpc EXCEPT ![w] = "setErr"] /\ wres' = [wres EXCEPT ![w] = "error"]
      BY <2>14 DEF ProcessError, Goto, stateVars
    <3>3. ~LastIsFinish'
      BY <3>1, <3>2, NotFinishedYet, NoneIsFinish, AppendCall DEF LastIsFinish
    <3>4. QED
      BY ZenonT(30), <2>1, <2>14, <3>1, <3>2, <3>3 DEF ProcessError, WorkerLabel, Owning
  <2>15. CASE ProcessFinish(w)
    <3>1. /\ Owner(w) /\ ~Ending(w) /\ wmsg[w] \in Message /\ wmsg[w].kind = "finish"
      BY <2>15 DEF ProcessFinish, Owner, Owning, Ending, TypeOK
    <3>2. /\ delivered' = Append(delivered, wmsg[w]) /\ UNCHANGED <<schedulerState, closed>>
          /\ wpc' = [wpc EXCEPT ![w] = "setErr"] /\ wres' = [wres EXCEPT ![w] = "finish"]
      BY <2>15 DEF ProcessFinish, Goto, stateVars
    <3>3. LastIsFinish'
      BY <3>1, <3>2, NotFinishedYet, NoneIsFinish, AppendCall DEF LastIsFinish
    <3>4. Ending(w)'
      BY <3>2 DEF Ending
    <3>5. QED
      BY <2>1, <2>15, <3>1, <3>2, <3>3, <3>4 DEF ProcessFinish, WorkerLabel, Owning
  <2>16. CASE Panic(w)
    <3>1. /\ Owner(w) /\ ~Ending(w) /\ wmsg[w] \in Message
      BY <2>16 DEF Panic, Owner, Owning, Ending, TypeOK
    <3>2. /\ delivered' = Append(delivered, wmsg[w]) /\ UNCHANGED <<schedulerState, closed, wres>>
          /\ wpc' = [wpc EXCEPT ![w] = "dead"]
      BY <2>16 DEF Panic, Goto, stateVars
    <3>3. Ending(w)'
      BY <3>2 DEF Ending
    <3>4. QED
      BY <2>1, <2>16, <3>1, <3>2, <3>3 DEF Panic, WorkerLabel, Owning
  <2>17. CASE TryFinish(w)
    <3>1. Owner(w) /\ schedulerState = "running" /\ wmsg[w] \in Message
      BY <2>0, <2>17 DEF TryFinish, Owner, Owning, TypeOK
    <3>2. /\ schedulerState' = "finished" /\ UNCHANGED <<closed, wres>>
          /\ wpc' = [wpc EXCEPT ![w] = "close"]
          /\ delivered' = IF wres[w] = "finish" THEN delivered
                          ELSE Append(delivered, FinishCall(wmsg[w]))
      BY <2>17, <3>1 DEF TryFinish, Goto
    <3>3. FinishCall(wmsg[w]) \in Message /\ FinishCall(wmsg[w]).kind = "finish"
      BY ZenonT(30), <3>1 DEF FinishCall, Message, Kind
    <3>4. /\ \A i \in 1..Len(delivered') : delivered'[i].kind = "finish" => i = Len(delivered')
          /\ LastIsFinish'
      <4>1. CASE wres[w] = "finish"
        BY <2>17, <3>2, <4>1 DEF TryFinish, Finishing, LastIsFinish
      <4>2. CASE wres[w] # "finish"
        <5>1. ~LastIsFinish
          BY <2>17, <3>1, <4>2, NotFinishedYet DEF TryFinish, Ending
        <5>2. delivered' = Append(delivered, FinishCall(wmsg[w]))
          BY <3>2, <4>2
        <5>3. QED
          BY <3>3, <5>1, <5>2, NoneIsFinish, AppendCall DEF LastIsFinish
      <4>3. QED
        BY <4>1, <4>2
    <3>5. closed = "no" /\ \A v \in Worker : wpc[v] # "close"
      BY ZenonT(30), <3>1 DEF Finishing, TypeOK
    <3>6. QED
      BY <3>2, <3>4, <3>5 DEF Finishing
  <2>18. CASE Close(w)
    <3>1. /\ closed' = "yes" /\ wpc' = [wpc EXCEPT ![w] = "select"] /\ wpc[w] = "close"
          /\ UNCHANGED <<schedulerState, wres, delivered>>
      BY <2>18 DEF Close, Goto
    <3>2. LastIsFinish' <=> LastIsFinish
      BY <3>1 DEF LastIsFinish
    <3>3. schedulerState = "finished" /\ \A v \in Worker : wpc'[v] # "close"
      BY <3>1 DEF Finishing
    <3>4. QED
      BY <3>1, <3>2, <3>3 DEF Finishing
  <2>19. QED
    BY <1>2, <2>2, <2>3, <2>4, <2>5, <2>6, <2>7, <2>8, <2>9, <2>10, <2>11, <2>12,
       <2>13, <2>14, <2>15, <2>16, <2>17, <2>18 DEF Processing
<1>3. CASE UNCHANGED vars
  BY <1>3, FinishUnmoved DEF vars, stateVars, workerVars
<1>4. QED
  BY <1>1, <1>2, <1>3 DEF Next

-----------------------------------------------------------------------------

\* The inductive invariant holds throughout.
LEMMA Invariance == Spec => []Inv
<1>1. Init => Inv
  BY TypeInit, TokenInit, InflightInit, WakeupInit, FinishInit DEF Inv
<1>2. Inv /\ [Next]_vars => Inv'
  BY TypeStep, TokenStep, InflightStep, WakeupStep, FinishStep DEF Inv
<1>3. QED
  BY <1>1, <1>2, PTL DEF Spec

\* The state of a transport is always well typed; inflight is an integer, not
\* a natural number, because a pop may be counted before its push.
THEOREM TransportTyped == Spec => []TypeOK
BY Invariance, PTL DEF Inv

\* For any number of producers and workers the compare-and-swap on
\* schedulerState admits one worker at a time to processMessages' loop.
THEOREM OneConsumer == Spec => []SingleConsumer
<1>1. Inv => SingleConsumer
  BY DEF Inv, Token, Owner, Owning, SingleConsumer, Consuming
<1>2. QED
  BY <1>1, Invariance, PTL

\* A transport never has two entries in the dispatcher's work channel.
THEOREM OneEntry == Spec => []ScheduledOnce
<1>1. Inv => ScheduledOnce
  BY DEF Inv, Token, Owner, ScheduledOnce
<1>2. QED
  BY <1>1, Invariance, PTL

\* schedule and the last check of processMessages lose no message.
THEOREM NoWakeupLost == Spec => []NoLostWakeup
BY Invariance, PTL DEF Inv

\* t hears Finish once and last, and t.finished is closed once, after it.
THEOREM FinishesOnce == Spec => []FinishedOnce
<1>1. Inv => FinishedOnce
  BY DEF Inv, Finishing, FinishedOnce
<1>2. QED
  BY <1>1, Invariance, PTL

-----------------------------------------------------------------------------
(* The order of the calls.                                                 *)
(*                                                                         *)
(* While the transport lives, a message carries the number of its          *)
(* producer's messages up to and including it, wherever it is: in pushMsg, *)
(* in the queue, in the hands of the one worker that owns the transport,   *)
(* or with t (Numbered).  When the transport is finished only what t has   *)
(* seen still matters, and after an error its last call repeats the number *)
(* of the message that failed (Answering).                                 *)

\* A worker that holds a message t has not seen.
Carries(w) == wpc[w] \in {"dec", "process"}

\* How many of p's messages a worker holds, have left the queue, have been pushed.
Carried(p) == IF \E w \in Worker : Carries(w) /\ wmsg[w].src = p THEN 1 ELSE 0
Taken(p) == CallsOf(delivered, p, Len(delivered)) + Carried(p)
Pushed(p) == Taken(p) + CallsOf(queue, p, Len(queue))

\* Until the transport is finished every message carries the number of its producer's
\* messages up to it, wherever it is between pushMsg and t.
NumberedCalls ==
    \A i \in 1..Len(delivered) : delivered[i].n = CallsOf(delivered, delivered[i].src, i)

NumberedHand ==
    \A w \in Worker : Carries(w) =>
        wmsg[w].n = CallsOf(delivered, wmsg[w].src, Len(delivered)) + 1

NumberedQueue ==
    \A k \in 1..Len(queue) :
        queue[k].n = Taken(queue[k].src) + CallsOf(queue, queue[k].src, k)

NumberedPush ==
    \A p \in Producer :
        IF ppc[p] = "push" THEN /\ calls[p] = Pushed(p) + 1
                                /\ pmsg[p].src = p /\ pmsg[p].n = calls[p]
                           ELSE calls[p] = Pushed(p)

Numbered == NumberedCalls /\ NumberedHand /\ NumberedQueue /\ NumberedPush

\* A worker that reports an error or a finish has just handed its message to t.
Answering ==
    \A w \in Worker : wpc[w] \in {"setErr", "tryFinish"} =>
        /\ delivered # <<>>
        /\ delivered[Len(delivered)].src = wmsg[w].src
        /\ delivered[Len(delivered)].n = wmsg[w].n
        /\ wres[w] \in {"error", "finish"}
        /\ wpc[w] = "tryFinish" /\ wres[w] = "error" => errValue = "error"

Flow ==
    /\ Answering
    /\ schedulerState # "finished" => Numbered
    /\ schedulerState = "finished" => InOrder

-----------------------------------------------------------------------------
\* Counting the messages of a producer, one message at a time.
LEMMA CountZero == \A s, p : CallsOf(s, p, 0) = 0
<1> SUFFICES ASSUME NEW s, NEW p PROVE CallsOf(s, p, 0) = 0
  OBVIOUS
<1>1. {j \in 1..0 : s[j].src = p} = {}
  OBVIOUS
<1>2. QED
  BY <1>1, FS_EmptySet DEF CallsOf

\* Such a count is a natural number.
LEMMA CountNat ==
    ASSUME NEW s, NEW p, NEW i \in Nat
    PROVE  IsFiniteSet({j \in 1..i : s[j].src = p}) /\ CallsOf(s, p, i) \in Nat
<1> DEFINE C == {j \in 1..i : s[j].src = p}
<1>1. IsFiniteSet(1..i) /\ C \subseteq 1..i
  BY FS_Interval
<1> HIDE DEF C
<1>2. IsFiniteSet(C) /\ Cardinality(C) \in Nat
  BY ZenonT(30), <1>1, FS_Subset, FS_CardinalityType
<1>3. QED
  BY <1>2 DEF C, CallsOf

\* The message at i + 1 adds one to its producer's count and nothing to another's.
LEMMA CountNext ==
    ASSUME NEW s, NEW p, NEW i \in Nat
    PROVE  CallsOf(s, p, i + 1) = CallsOf(s, p, i) + IF s[i + 1].src = p THEN 1 ELSE 0
<1> DEFINE C(k) == {j \in 1..k : s[j].src = p}
<1>1. IsFiniteSet(C(i)) /\ Cardinality(C(i)) \in Nat
  BY CountNat DEF CallsOf
<1>2. CASE s[i + 1].src = p
  <2>1. C(i + 1) = C(i) \cup {i + 1} /\ i + 1 \notin C(i)
    BY <1>2
  <2>2. Cardinality(C(i + 1)) = Cardinality(C(i)) + 1
    <3> HIDE DEF C
    <3> QED  BY <1>1, <2>1, FS_AddElement
  <2>3. QED
    BY <1>2, <2>2 DEF CallsOf
<1>3. CASE s[i + 1].src # p
  <2>1. C(i + 1) = C(i)
    BY <1>3
  <2>2. CallsOf(s, p, i + 1) = Cardinality(C(i)) /\ CallsOf(s, p, i) = Cardinality(C(i))
    BY ZenonT(30), <2>1 DEF CallsOf
  <2> HIDE DEF C
  <2>3. QED
    BY <1>1, <1>3, <2>2
<1>4. QED
  BY <1>2, <1>3

\* The counts depend on the producers of the messages only.
LEMMA CountSame ==
    ASSUME NEW s, NEW t, NEW p, NEW i \in Nat, \A j \in 1..i : s[j].src = t[j].src
    PROVE  CallsOf(s, p, i) = CallsOf(t, p, i)
<1>1. {j \in 1..i : s[j].src = p} = {j \in 1..i : t[j].src = p}
  OBVIOUS
<1>2. QED
  BY ZenonT(30), <1>1 DEF CallsOf

\* Append leaves the counts up to the old end alone and adds its message at the new end.
LEMMA CountAppend ==
    ASSUME NEW s \in Seq(Message), NEW m \in Message, NEW p
    PROVE  /\ \A i \in 0..Len(s) : CallsOf(Append(s, m), p, i) = CallsOf(s, p, i)
           /\ CallsOf(Append(s, m), p, Len(s) + 1)
                = CallsOf(s, p, Len(s)) + IF m.src = p THEN 1 ELSE 0
<1>1. Len(s) \in Nat /\ Append(s, m)[Len(s) + 1] = m
  OBVIOUS
<1>2. \A j \in 1..Len(s) : Append(s, m)[j] = s[j]
  OBVIOUS
<1> DEFINE t == Append(s, m)
<1> HIDE DEF t
<1>3. ASSUME NEW i \in 0..Len(s) PROVE CallsOf(t, p, i) = CallsOf(s, p, i)
  <2>1. i \in Nat /\ \A j \in 1..i : t[j].src = s[j].src
    BY <1>1, <1>2 DEF t
  <2>2. QED
    BY <2>1, CountSame
<1>4. CallsOf(t, p, Len(s) + 1) = CallsOf(t, p, Len(s)) + IF t[Len(s) + 1].src = p THEN 1 ELSE 0
  BY <1>1, CountNext
<1>5. QED
  BY <1>1, <1>3, <1>4 DEF t

\* Without its head a sequence has the same counts one place earlier, less the head's; by a
\* smallest counterexample.
LEMMA CountTail ==
    ASSUME NEW s \in Seq(Message), s # <<>>, NEW p, NEW i \in 0..(Len(s) - 1)
    PROVE  CallsOf(s, p, i + 1) = CallsOf(Tail(s), p, i) + IF Head(s).src = p THEN 1 ELSE 0
<1> DEFINE t == Tail(s)
           Bad == {k \in 0..(Len(s) - 1) :
                     CallsOf(s, p, k + 1) # CallsOf(t, p, k) + IF Head(s).src = p THEN 1 ELSE 0}
<1>0. Len(s) \in Nat /\ Len(s) > 0 /\ Head(s) = s[1]
  OBVIOUS
<1>1. \A j \in 1..(Len(s) - 1) : t[j] = s[j + 1]
  OBVIOUS
<1> HIDE DEF t
<1>2. ASSUME NEW k \in 0..(Len(s) - 1), k \in Bad PROVE k # 0 /\ k - 1 \in Bad
  <2>1. CallsOf(s, p, 0 + 1) = CallsOf(s, p, 0) + IF s[0 + 1].src = p THEN 1 ELSE 0
    BY CountNext
  <2>2. k # 0
    BY <1>0, <1>2, <2>1, CountZero
  <2>3. k - 1 \in Nat /\ k \in Nat /\ k + 1 \in Nat
    BY <1>0, <2>2
  <2>4. /\ CallsOf(s, p, k + 1) = CallsOf(s, p, k) + IF s[k + 1].src = p THEN 1 ELSE 0
        /\ CallsOf(t, p, (k - 1) + 1) = CallsOf(t, p, k - 1) + IF t[(k - 1) + 1].src = p THEN 1 ELSE 0
    BY <2>3, CountNext
  <2>5. (k - 1) + 1 = k /\ t[k] = s[k + 1]
    BY <1>0, <1>1, <2>2, <2>3
  <2>6. /\ CallsOf(s, p, k) \in Nat /\ CallsOf(s, p, k + 1) \in Nat
        /\ CallsOf(t, p, k) \in Nat /\ CallsOf(t, p, k - 1) \in Nat
    BY ZenonT(30), <2>3, CountNat
  <2>7. CallsOf(t, p, k) = CallsOf(t, p, k - 1) + IF s[k + 1].src = p THEN 1 ELSE 0
    BY <2>4, <2>5
  <2>8. CallsOf(s, p, k) # CallsOf(t, p, k - 1) + IF Head(s).src = p THEN 1 ELSE 0
    BY <1>2, <2>4, <2>6, <2>7
  <2>9. QED
    BY <1>0, <2>2, <2>3, <2>5, <2>8
<1>3. Bad = {}
  <2>1. SUFFICES ASSUME Bad # {} PROVE FALSE
    OBVIOUS
  <2>2. Bad \subseteq Nat
    BY <1>0
  <2> HIDE DEF Bad
  <2>3. PICK k \in Bad : \A y \in Bad : <<y, k>> \notin OpToRel(<, Nat)
    BY ZenonT(30), <2>1, <2>2, NatLessThanWellFounded, WFMin
  <2>4. k - 1 \in Bad
    BY ZenonT(30), <1>2, <2>2, <2>3 DEF Bad
  <2>5. k \in Nat /\ k - 1 \in Nat /\ k - 1 < k
    BY <2>2, <2>4
  <2>6. <<k - 1, k>> \in OpToRel(<, Nat)
    BY <2>5 DEF OpToRel
  <2>7. QED
    BY ZenonT(30), <2>3, <2>4, <2>6
<1>4. QED
  BY <1>3 DEF t

-----------------------------------------------------------------------------

\* A new transport has no messages to number.
LEMMA FlowInit == Init => Flow
<1> SUFFICES ASSUME Init PROVE Flow
  OBVIOUS
<1>1. \A p \in Producer : Pushed(p) = 0
  BY CountZero DEF Init, Pushed, Taken, Carried, Carries
<1>2. Numbered
  BY <1>1 DEF Init, Numbered, NumberedCalls, NumberedHand, NumberedQueue, NumberedPush, Carries
<1>3. QED
  BY <1>2 DEF Init, Flow, Answering

\* A step that leaves the messages where they are.
LEMMA FlowUnmoved ==
    ASSUME Flow, UNCHANGED <<queue, delivered, wmsg, calls, pmsg>>,
           schedulerState' = "finished" <=> schedulerState = "finished",
           UNCHANGED errValue \/ schedulerState # "finished",
           \A p \in Producer : ppc'[p] = "push" <=> ppc[p] = "push",
           \A w \in Worker : Carries(w)' <=> Carries(w),
           Answering'
    PROVE  Flow'
<1>1. \A p : Carried(p)' = Carried(p)
  BY DEF Carried
<1>2. \A p : Taken(p)' = Taken(p) /\ Pushed(p)' = Pushed(p)
  BY <1>1 DEF Taken, Pushed
<1>3. CASE schedulerState # "finished"
  <2>1. Numbered
    BY <1>3 DEF Flow
  <2>2. NumberedCalls' /\ NumberedHand'
    BY <2>1 DEF Numbered, NumberedCalls, NumberedHand
  <2>3. NumberedQueue' /\ NumberedPush'
    BY <1>2, <2>1 DEF Numbered, NumberedQueue, NumberedPush
  <2>4. QED
    BY <1>3, <2>2, <2>3 DEF Flow, Numbered
<1>4. CASE schedulerState = "finished"
  BY <1>4 DEF Flow, InOrder
<1>5. QED
  BY <1>3, <1>4

\* Appending to a sequence keeps what it has and adds the new last element.
LEMMA AppendOf ==
    ASSUME NEW S, NEW q \in Seq(S), NEW e \in S, NEW r, r = Append(q, e)
    PROVE  /\ Len(q) \in Nat /\ Len(r) = Len(q) + 1 /\ r[Len(q) + 1] = e
           /\ \A j \in 1..Len(q) : r[j] = q[j]
OBVIOUS

\* What the counts are made of.
LEMMA CountsTyped ==
    ASSUME TypeOK, NEW p
    PROVE  /\ Carried(p) \in Nat /\ Taken(p) \in Nat /\ Pushed(p) \in Nat
           /\ CallsOf(delivered, p, Len(delivered)) \in Nat
           /\ CallsOf(queue, p, Len(queue)) \in Nat
<1>1. Len(delivered) \in Nat /\ Len(queue) \in Nat
  BY DEF TypeOK
<1>2. /\ CallsOf(delivered, p, Len(delivered)) \in Nat
      /\ CallsOf(queue, p, Len(queue)) \in Nat
  BY ZenonT(30), <1>1, CountNat
<1>3. Carried(p) \in Nat
  BY DEF Carried
<1>4. QED
  BY <1>2, <1>3 DEF Taken, Pushed

\* The call of a producer that finds the transport open gets the next number.
LEMMA FlowAccept ==
    ASSUME TypeOK, Finishing, Flow, NEW q \in Producer, NEW k \in Kind, Accept(q, k)
    PROVE  Flow'
<1>1. /\ ppc[q] = "ready" /\ ppc' = [ppc EXCEPT ![q] = "push"]
      /\ calls' = [calls EXCEPT ![q] = @ + 1]
      /\ pmsg' = [pmsg EXCEPT ![q] = [src |-> q, n |-> calls[q] + 1, kind |-> k]]
      /\ UNCHANGED <<queue, delivered, wpc, wmsg, wres, errValue, schedulerState>>
  BY DEF Accept, queueVars, stateVars, workerVars
<1>2. \A p : Pushed(p)' = Pushed(p) /\ Taken(p)' = Taken(p)
  BY <1>1 DEF Pushed, Taken, Carried, Carries
<1>3. Answering'
  BY <1>1 DEF Flow, Answering
<1>4. CASE schedulerState # "finished"
  <2>1. Numbered
    BY <1>4 DEF Flow
  <2>2. NumberedCalls' /\ NumberedHand' /\ NumberedQueue'
    BY <1>1, <1>2, <2>1 DEF Numbered, NumberedCalls, NumberedHand, NumberedQueue, Carries
  <2>3. NumberedPush'
    <3> SUFFICES ASSUME NEW p \in Producer
                 PROVE  IF ppc'[p] = "push" THEN /\ calls'[p] = Pushed(p) + 1
                                                 /\ pmsg'[p].src = p /\ pmsg'[p].n = calls'[p]
                                            ELSE calls'[p] = Pushed(p)
      BY <1>2 DEF NumberedPush
    <3>1. IF ppc[p] = "push" THEN /\ calls[p] = Pushed(p) + 1
                                  /\ pmsg[p].src = p /\ pmsg[p].n = calls[p]
                             ELSE calls[p] = Pushed(p)
      BY <2>1 DEF Numbered, NumberedPush
    <3>2. CASE p = q
      BY <1>1, <3>1, <3>2 DEF TypeOK
    <3>3. CASE p # q
      BY <1>1, <3>1, <3>3 DEF TypeOK
    <3>4. QED
      BY <3>2, <3>3
  <2>4. QED
    BY <1>1, <1>3, <1>4, <2>2, <2>3 DEF Flow, Numbered
<1>5. CASE schedulerState = "finished"
  BY <1>1, <1>3, <1>5 DEF Flow, InOrder
<1>6. QED
  BY <1>4, <1>5

\* Push moves the message to the end of the queue.
LEMMA FlowPush ==
    ASSUME TypeOK, Flow, NEW q \in Producer, Push(q)
    PROVE  Flow'
<1>1. /\ ppc[q] = "push" /\ ppc' = [ppc EXCEPT ![q] = "add"]
      /\ queue' = Append(queue, pmsg[q])
      /\ UNCHANGED <<calls, pmsg, delivered, wpc, wmsg, wres, errValue, schedulerState>>
  BY DEF Push, stateVars, workerVars
<1>2. \A p : Taken(p)' = Taken(p)
  BY <1>1 DEF Taken, Carried, Carries
<1>3. Answering'
  BY <1>1 DEF Flow, Answering
<1>4. pmsg[q] \in Message /\ queue \in Seq(Message) /\ Len(queue) \in Nat
  BY <1>1 DEF TypeOK
<1>5. CASE schedulerState # "finished"
  <2>1. Numbered
    BY <1>5 DEF Flow
  <2>2. NumberedCalls' /\ NumberedHand'
    BY <1>1, <2>1 DEF Numbered, NumberedCalls, NumberedHand, Carries
  <2>3. pmsg[q].src = q /\ pmsg[q].n = Pushed(q) + 1 /\ calls[q] = Pushed(q) + 1
    BY <1>1, <2>1 DEF Numbered, NumberedPush
  <2>4. /\ Len(queue') = Len(queue) + 1 /\ queue'[Len(queue) + 1] = pmsg[q]
        /\ \A j \in 1..Len(queue) : queue'[j] = queue[j]
    BY <1>1, <1>4
  <2>5. ASSUME NEW p
        PROVE  /\ \A i \in 0..Len(queue) : CallsOf(queue', p, i) = CallsOf(queue, p, i)
               /\ CallsOf(queue', p, Len(queue) + 1)
                    = CallsOf(queue, p, Len(queue)) + IF q = p THEN 1 ELSE 0
    <3>1. /\ \A i \in 0..Len(queue) : CallsOf(Append(queue, pmsg[q]), p, i) = CallsOf(queue, p, i)
          /\ CallsOf(Append(queue, pmsg[q]), p, Len(queue) + 1)
               = CallsOf(queue, p, Len(queue)) + IF pmsg[q].src = p THEN 1 ELSE 0
      BY <1>4, CountAppend
    <3>2. QED
      BY <1>1, <2>3, <3>1
  <2>6. NumberedQueue'
    <3> SUFFICES ASSUME NEW k \in 1..(Len(queue) + 1)
                 PROVE  queue'[k].n = Taken(queue'[k].src) + CallsOf(queue', queue'[k].src, k)
      BY <1>2, <2>4 DEF NumberedQueue
    <3>1. CASE k \in 1..Len(queue)
      <4>1. queue[k].n = Taken(queue[k].src) + CallsOf(queue, queue[k].src, k)
        BY <2>1, <3>1 DEF Numbered, NumberedQueue
      <4>2. k \in 0..Len(queue)
        BY <1>4, <3>1
      <4>3. QED
        BY ZenonT(30), <2>4, <2>5, <3>1, <4>1, <4>2
    <3>2. CASE k = Len(queue) + 1
      <4>1. queue'[k] = pmsg[q] /\ pmsg[q].src = q
        BY <2>3, <2>4, <3>2
      <4>2. CallsOf(queue', q, k) = CallsOf(queue, q, Len(queue)) + 1
        BY <2>5, <3>2
      <4>3. pmsg[q].n = Taken(q) + CallsOf(queue, q, Len(queue)) + 1
        BY <2>3 DEF Pushed
      <4>4. QED
        BY <4>1, <4>2, <4>3, CountsTyped
    <3>3. QED
      BY <1>4, <3>1, <3>2
  <2>7. \A p : Pushed(p)' = Pushed(p) + IF q = p THEN 1 ELSE 0
    <3> SUFFICES ASSUME NEW p PROVE Pushed(p)' = Pushed(p) + IF q = p THEN 1 ELSE 0
      OBVIOUS
    <3>1. Pushed(p)' = Taken(p) + (CallsOf(queue, p, Len(queue)) + IF q = p THEN 1 ELSE 0)
      BY <1>2, <2>4, <2>5 DEF Pushed
    <3>2. QED
      BY <3>1, CountsTyped DEF Pushed
  <2>8. NumberedPush'
    <3> SUFFICES ASSUME NEW p \in Producer
                 PROVE  IF ppc'[p] = "push" THEN /\ calls[p] = Pushed(p)' + 1
                                                 /\ pmsg[p].src = p /\ pmsg[p].n = calls[p]
                                            ELSE calls[p] = Pushed(p)'
      BY <1>1 DEF NumberedPush
    <3>1. CASE p = q
      BY <1>1, <2>3, <2>7, <3>1 DEF TypeOK
    <3>2. CASE p # q
      <4>1. Pushed(p)' = Pushed(p) /\ ppc'[p] = ppc[p]
        BY <1>1, <2>7, <3>2, CountsTyped DEF TypeOK
      <4>2. QED
        BY <2>1, <4>1 DEF Numbered, NumberedPush
    <3>3. QED
      BY <3>1, <3>2
  <2>9. QED
    BY <1>1, <1>3, <1>5, <2>2, <2>6, <2>8 DEF Flow, Numbered
<1>6. CASE schedulerState = "finished"
  BY <1>1, <1>3, <1>6 DEF Flow, InOrder
<1>7. QED
  BY <1>5, <1>6

\* Pop moves the message at the head of the queue into the hands of the only worker that
\* can have one.
LEMMA FlowPop ==
    ASSUME TypeOK, Token, Flow, NEW w \in Worker, Pop(w)
    PROVE  Flow'
<1>1. /\ wpc[w] = "pop" /\ wpc' = [wpc EXCEPT ![w] = "dec"]
      /\ queue # <<>> /\ queue' = Tail(queue) /\ wmsg' = [wmsg EXCEPT ![w] = Head(queue)]
      /\ UNCHANGED <<ppc, calls, pmsg, delivered, wres, errValue, schedulerState>>
  BY DEF Pop, Goto, stateVars, producerVars
<1>2. /\ schedulerState = "running" /\ \A v \in Worker : v # w => wpc[v] \notin Owning
  BY <1>1 DEF Token, Owner, Owning
<1>3. Answering'
  <2>1. \A v \in Worker : wpc'[v] \notin {"setErr", "tryFinish"}
    BY <1>1, <1>2 DEF TypeOK, Owning
  <2>2. QED
    BY <2>1 DEF Answering
<1>4. /\ \A v \in Worker : ~Carries(v)
      /\ \A v \in Worker : Carries(v)' <=> v = w
      /\ wmsg'[w] = Head(queue)
  BY <1>1, <1>2 DEF Carries, Owning, TypeOK
<1>5. \A p : Carried(p) = 0 /\ Carried(p)' = IF Head(queue).src = p THEN 1 ELSE 0
  BY <1>4 DEF Carried
<1>6. /\ queue \in Seq(Message) /\ Len(queue) \in Nat /\ Len(queue) > 0
      /\ Head(queue) = queue[1] /\ Head(queue) \in Message
      /\ Len(queue') = Len(queue) - 1
      /\ \A k \in 1..(Len(queue) - 1) : queue'[k] = queue[k + 1]
  BY <1>1 DEF TypeOK
<1>7. ASSUME NEW p
      PROVE  Taken(p)' = Taken(p) + IF Head(queue).src = p THEN 1 ELSE 0
  <2>1. CallsOf(delivered', p, Len(delivered')) = CallsOf(delivered, p, Len(delivered))
    BY <1>1
  <2>2. Taken(p) \in Nat
    BY CountsTyped
  <2>3. /\ Taken(p) = CallsOf(delivered, p, Len(delivered)) + Carried(p)
        /\ Taken(p)' = CallsOf(delivered, p, Len(delivered)) + Carried(p)'
    BY <2>1 DEF Taken
  <2>4. CallsOf(delivered, p, Len(delivered)) \in Nat
    BY CountsTyped
  <2>5. QED
    BY <1>5, <2>3, <2>4
<1>8. ASSUME NEW p, NEW i \in 0..(Len(queue) - 1)
      PROVE  /\ CallsOf(queue, p, i + 1)
                  = CallsOf(queue', p, i) + IF Head(queue).src = p THEN 1 ELSE 0
             /\ CallsOf(queue', p, i) \in Nat
  <2>1. CallsOf(queue, p, i + 1) = CallsOf(Tail(queue), p, i) + IF Head(queue).src = p THEN 1 ELSE 0
    BY <1>1, <1>6, CountTail
  <2>2. i \in Nat
    BY <1>6
  <2>3. QED
    BY ZenonT(30), <1>1, <2>1, <2>2, CountNat
<1>9. Numbered
  BY <1>2 DEF Flow
<1>10. NumberedCalls'
  BY <1>1, <1>9 DEF Numbered, NumberedCalls
<1>11. NumberedHand'
  <2>1. queue[1].n = Taken(queue[1].src) + CallsOf(queue, queue[1].src, 1)
    BY <1>6, <1>9 DEF Numbered, NumberedQueue
  <2>2. CallsOf(queue, queue[1].src, 0 + 1) = CallsOf(queue, queue[1].src, 0) + 1
    BY CountNext
  <2>3. CallsOf(queue, queue[1].src, 1) = 1
    BY <2>2, CountZero
  <2>4. Head(queue).n = CallsOf(delivered, Head(queue).src, Len(delivered)) + 1
    BY <1>5, <1>6, <2>1, <2>3, CountsTyped DEF Taken
  <2>5. QED
    BY <1>1, <1>4, <2>4 DEF NumberedHand
<1>12. NumberedQueue'
  <2> SUFFICES ASSUME NEW k \in 1..(Len(queue) - 1)
               PROVE  (queue[k].n = Taken(queue[k].src) + CallsOf(queue, queue[k].src, k))'
    BY <1>6 DEF NumberedQueue
  <2>0. PICK p : p = queue'[k].src
    OBVIOUS
  <2>1. queue'[k] = queue[k + 1] /\ k + 1 \in 1..Len(queue) /\ k \in 0..(Len(queue) - 1)
    BY <1>6
  <2>2. queue[k + 1].n = Taken(p) + CallsOf(queue, p, k + 1)
    BY <1>9, <2>0, <2>1 DEF Numbered, NumberedQueue
  <2>3. /\ CallsOf(queue, p, k + 1)
            = CallsOf(queue', p, k) + IF Head(queue).src = p THEN 1 ELSE 0
        /\ CallsOf(queue', p, k) \in Nat
    BY <1>8, <2>1
  <2>4. Taken(p)' = Taken(p) + IF Head(queue).src = p THEN 1 ELSE 0
    BY <1>7
  <2>5. Taken(p) \in Nat
    BY CountsTyped
  <2>6. queue'[k].n = Taken(p)' + CallsOf(queue', p, k)
    BY <2>1, <2>2, <2>3, <2>4, <2>5
  <2>7. QED
    BY <2>0, <2>6 DEF Taken, Carried
<1>13. \A p : Pushed(p)' = Pushed(p)
  <2> SUFFICES ASSUME NEW p PROVE Pushed(p)' = Pushed(p)
    OBVIOUS
  <2>1. /\ CallsOf(queue, p, (Len(queue) - 1) + 1)
            = CallsOf(queue', p, Len(queue) - 1) + IF Head(queue).src = p THEN 1 ELSE 0
        /\ CallsOf(queue', p, Len(queue) - 1) \in Nat
    <3>1. Len(queue) - 1 \in 0..(Len(queue) - 1)
      BY <1>6
    <3>2. QED
      BY <1>8, <3>1
  <2>2. (Len(queue) - 1) + 1 = Len(queue)
    BY <1>6
  <2>3. Pushed(p)' = Taken(p)' + CallsOf(queue', p, Len(queue) - 1)
    BY <1>6 DEF Pushed
  <2>4. QED
    BY <1>7, <2>1, <2>2, <2>3, CountsTyped DEF Pushed
<1>14. NumberedPush'
  BY <1>1, <1>9, <1>13 DEF Numbered, NumberedPush
<1>15. QED
  BY <1>1, <1>2, <1>3, <1>10, <1>11, <1>12, <1>14 DEF Flow, Numbered

\* t gets the message in hand.
LEMMA FlowProcess ==
    ASSUME TypeOK, Token, Flow, NEW w \in Worker,
           ProcessOK(w) \/ ProcessError(w) \/ ProcessFinish(w) \/ Panic(w)
    PROVE  Flow'
<1>1. /\ wpc[w] = "process" /\ delivered' = Append(delivered, wmsg[w])
      /\ \E l \in {"yield", "pop", "setErr", "dead"} : wpc' = [wpc EXCEPT ![w] = l]
      /\ UNCHANGED <<queue, ppc, calls, pmsg, wmsg, errValue, schedulerState>>
  BY DEF ProcessOK, ProcessError, ProcessFinish, Panic, NextMessage, Goto, queueVars, stateVars,
         producerVars
<1>2. /\ schedulerState = "running" /\ \A v \in Worker : v # w => wpc[v] \notin Owning
  BY <1>1 DEF Token, Owner, Owning
<1>3. /\ delivered \in Seq(Message) /\ wmsg[w] \in Message /\ Len(delivered) \in Nat
      /\ Len(delivered') = Len(delivered) + 1 /\ delivered'[Len(delivered) + 1] = wmsg[w]
      /\ \A j \in 1..Len(delivered) : delivered'[j] = delivered[j]
  <2>1. delivered \in Seq(Message)
    BY DEF TypeOK
  <2>2. wmsg[w] \in Message
    BY <1>1 DEF TypeOK
  <2>3. delivered' = Append(delivered, wmsg[w])
    BY <1>1
  <2>4. /\ Len(delivered) \in Nat
        /\ Len(delivered') = Len(delivered) + 1 /\ delivered'[Len(delivered) + 1] = wmsg[w]
        /\ \A j \in 1..Len(delivered) : delivered'[j] = delivered[j]
    BY ONLY <2>1, <2>2, <2>3, AppendOf
  <2>5. QED
    BY ONLY <2>1, <2>2, <2>4
<1>4. Answering'
  <2>1. \A v \in Worker : v # w => wpc'[v] \notin {"setErr", "tryFinish"}
    BY <1>1, <1>2 DEF TypeOK, Owning
  <2>2. wpc'[w] = "setErr" => wres'[w] \in {"error", "finish"}
    BY <1>1 DEF ProcessOK, ProcessError, ProcessFinish, Panic, NextMessage, Goto, TypeOK
  <2>3. wpc'[w] # "tryFinish"
    BY <1>1 DEF TypeOK
  <2>4. delivered' # <<>>
    BY <1>1, <1>3
  <2>5. QED
    BY <1>1, <1>3, <2>1, <2>2, <2>3, <2>4 DEF Answering
<1>5. /\ \A v \in Worker : Carries(v) <=> v = w
      /\ \A v \in Worker : ~Carries(v)'
  BY <1>1, <1>2 DEF Carries, Owning, TypeOK
<1>6. \A p : Carried(p)' = 0 /\ Carried(p) = IF wmsg[w].src = p THEN 1 ELSE 0
  BY <1>5 DEF Carried
<1>7. ASSUME NEW p
      PROVE  /\ \A i \in 0..Len(delivered) : CallsOf(delivered', p, i) = CallsOf(delivered, p, i)
             /\ CallsOf(delivered', p, Len(delivered) + 1)
                  = CallsOf(delivered, p, Len(delivered)) + IF wmsg[w].src = p THEN 1 ELSE 0
  <2>1. /\ \A i \in 0..Len(delivered) :
             CallsOf(Append(delivered, wmsg[w]), p, i) = CallsOf(delivered, p, i)
        /\ CallsOf(Append(delivered, wmsg[w]), p, Len(delivered) + 1)
             = CallsOf(delivered, p, Len(delivered)) + IF wmsg[w].src = p THEN 1 ELSE 0
    BY <1>3, CountAppend
  <2>2. QED
    BY <1>1, <2>1
<1>8. \A p : Taken(p)' = Taken(p)
  <2> SUFFICES ASSUME NEW p PROVE Taken(p)' = Taken(p)
    OBVIOUS
  <2>1. Taken(p)' = CallsOf(delivered', p, Len(delivered) + 1) + 0
    BY <1>3, <1>6 DEF Taken
  <2>2. Taken(p) = CallsOf(delivered, p, Len(delivered)) + IF wmsg[w].src = p THEN 1 ELSE 0
    BY <1>6 DEF Taken
  <2>3. QED
    BY <1>7, <2>1, <2>2, CountsTyped
<1>9. \A p : Pushed(p)' = Pushed(p)
  BY <1>1, <1>8 DEF Pushed
<1>10. Numbered
  BY <1>2 DEF Flow
<1>11. NumberedCalls'
  <2> SUFFICES ASSUME NEW i \in 1..(Len(delivered) + 1)
               PROVE  delivered'[i].n = CallsOf(delivered', delivered'[i].src, i)
    BY <1>3 DEF NumberedCalls
  <2>1. CASE i \in 1..Len(delivered)
    <3>1. delivered[i].n = CallsOf(delivered, delivered[i].src, i) /\ i \in 0..Len(delivered)
      BY <1>3, <1>10, <2>1 DEF Numbered, NumberedCalls
    <3>2. QED
      BY <1>3, <1>7, <2>1, <3>1
  <2>2. CASE i = Len(delivered) + 1
    <3>1. wmsg[w].n = CallsOf(delivered, wmsg[w].src, Len(delivered)) + 1
      BY <1>5, <1>10 DEF Numbered, NumberedHand
    <3>2. QED
      BY <1>3, <1>7, <2>2, <3>1
  <2>3. QED
    BY <1>3, <2>1, <2>2
<1>12. NumberedHand'
  BY <1>5 DEF NumberedHand
<1>13. NumberedQueue' /\ NumberedPush'
  BY <1>1, <1>8, <1>9, <1>10 DEF Numbered, NumberedQueue, NumberedPush
<1>14. QED
  BY <1>1, <1>2, <1>4, <1>11, <1>12, <1>13 DEF Flow, Numbered

\* After an error t.Finish repeats the number of the message that failed.
LEMMA FlowFinish ==
    ASSUME TypeOK, Token, Flow, NEW w \in Worker, TryFinish(w)
    PROVE  Flow'
<1>1. wpc[w] = "tryFinish" /\ schedulerState = "running"
  BY DEF TryFinish, Token, Owner, Owning
<1>2. /\ schedulerState' = "finished" /\ wpc' = [wpc EXCEPT ![w] = "close"]
      /\ delivered' = IF wres[w] = "finish" THEN delivered
                      ELSE Append(delivered, FinishCall(wmsg[w]))
      /\ UNCHANGED errValue
  BY <1>1 DEF TryFinish, Goto
<1>3. Answering'
  <2>1. \A v \in Worker : wpc'[v] \notin {"setErr", "tryFinish"}
    BY <1>1, <1>2 DEF Token, Owner, TypeOK, Owning
  <2>2. QED
    BY <2>1 DEF Answering
<1>4. NumberedCalls
  BY <1>1 DEF Flow, Numbered
<1>5. CASE wres[w] = "finish"
  <2>1. delivered' = delivered
    BY <1>2, <1>5
  <2>2. InOrder'
    BY ZenonT(30), <1>4, <2>1 DEF NumberedCalls, InOrder
  <2>3. QED
    BY <1>2, <1>3, <2>2 DEF Flow
<1>6. CASE wres[w] # "finish"
  <2> DEFINE m == FinishCall(wmsg[w])
             l == Len(delivered)
  <2>1. /\ delivered # <<>> /\ delivered[l].src = wmsg[w].src /\ delivered[l].n = wmsg[w].n
        /\ errValue = "error"
    BY <1>1, <1>6 DEF Flow, Answering
  <2>2. m \in Message /\ m.src = delivered[l].src /\ m.n = delivered[l].n /\ m.kind = "finish"
    BY <1>1, <2>1 DEF TypeOK, FinishCall, Message, Kind
  <2> HIDE DEF m
  <2>3. delivered' = Append(delivered, m)
    BY <1>2, <1>6 DEF m
  <2>4. /\ delivered \in Seq(Message) /\ l \in Nat /\ l > 0
        /\ Len(delivered') = l + 1 /\ delivered'[l + 1] = m
        /\ \A j \in 1..l : delivered'[j] = delivered[j]
    <3>1. delivered \in Seq(Message)
      BY DEF TypeOK
    <3>2. /\ Len(delivered) \in Nat /\ Len(delivered') = Len(delivered) + 1
          /\ delivered'[Len(delivered) + 1] = m
          /\ \A j \in 1..Len(delivered) : delivered'[j] = delivered[j]
      BY <2>2, <2>3, <3>1, AppendOf
    <3>3. Len(delivered) > 0
      BY <2>1, <3>1
    <3>4. QED
      BY <3>1, <3>2, <3>3
  <2>5. ASSUME NEW p
        PROVE  /\ \A i \in 0..l : CallsOf(delivered', p, i) = CallsOf(delivered, p, i)
               /\ CallsOf(delivered', p, l + 1)
                    = CallsOf(delivered, p, l) + IF m.src = p THEN 1 ELSE 0
    <3>1. /\ \A i \in 0..l : CallsOf(Append(delivered, m), p, i) = CallsOf(delivered, p, i)
          /\ CallsOf(Append(delivered, m), p, l + 1)
               = CallsOf(delivered, p, l) + IF m.src = p THEN 1 ELSE 0
      BY <2>2, <2>4, CountAppend
    <3>2. QED
      BY <2>3, <3>1
  <2>6. InOrder'
    <3> SUFFICES ASSUME NEW i \in 1..(l + 1)
                 PROVE  \/ delivered'[i].n = CallsOf(delivered', delivered'[i].src, i)
                        \/ /\ errValue' = "error" /\ i = Len(delivered')
                           /\ delivered'[i].kind = "finish"
                           /\ delivered'[i].n = CallsOf(delivered', delivered'[i].src, i) - 1
      BY <2>4 DEF InOrder
    <3>1. CASE i \in 1..l
      <4>1. delivered[i].n = CallsOf(delivered, delivered[i].src, i) /\ i \in 0..l
        BY <1>4, <2>4, <3>1 DEF NumberedCalls
      <4>2. QED
        BY <2>4, <2>5, <3>1, <4>1
    <3>2. CASE i = l + 1
      <4>1. m.n = CallsOf(delivered, m.src, l)
        BY <1>4, <2>2, <2>4 DEF NumberedCalls
      <4>2. CallsOf(delivered', m.src, l + 1) = CallsOf(delivered, m.src, l) + 1
        BY <2>5
      <4>3. CallsOf(delivered, m.src, l) \in Nat
        BY ZenonT(30), <2>4, CountNat
      <4>4. m.n = CallsOf(delivered', m.src, l + 1) - 1
        BY <4>1, <4>2, <4>3
      <4>5. QED
        BY <1>2, <2>1, <2>2, <2>4, <3>2, <4>4
    <3>3. QED
      BY <2>4, <3>1, <3>2
  <2>7. QED
    BY <1>2, <1>3, <2>6 DEF Flow
<1>7. QED
  BY <1>5, <1>6

\* Every step keeps the numbers in order.
LEMMA FlowStep == TypeOK /\ Token /\ Finishing /\ Flow /\ [Next]_vars => Flow'
<1> SUFFICES ASSUME TypeOK, Token, Finishing, Flow, [Next]_vars PROVE Flow'
  OBVIOUS
<1>0. /\ ppc \in [Producer -> ProducerLabel] /\ wpc \in [Worker -> WorkerLabel]
      /\ \A v \in Worker : Owner(v) => schedulerState = "running"
  BY DEF TypeOK, Token
<1>1. ASSUME NEW p \in Producer, Producing(p) PROVE Flow'
  <2>1. CASE Refuse(p)
    <3>1. schedulerState = "finished" /\ InOrder
      BY <2>1 DEF Refuse, Finishing, Flow
    <3>2. UNCHANGED <<queueVars, stateVars, workerVars, delivered>>
      BY <2>1 DEF Refuse
    <3>3. Answering' /\ InOrder' /\ schedulerState' = "finished"
      BY <3>1, <3>2 DEF Flow, Answering, InOrder, workerVars, stateVars
    <3>4. QED
      BY <3>3 DEF Flow
  <2>2. ASSUME NEW k \in Kind, Accept(p, k) PROVE Flow'
    BY <2>2, FlowAccept
  <2>3. CASE Push(p)
    BY <2>3, FlowPush
  <2>4. CASE Add(p) \/ Schedule(p) \/ Send(p)
    <3>1. UNCHANGED <<queue, errValue, calls, pmsg, workerVars, delivered>>
      BY <2>4 DEF Add, Schedule, Send, queueVars, stateVars
    <3>2. schedulerState' = "finished" <=> schedulerState = "finished"
      BY <2>4 DEF Add, Schedule, Send, stateVars
    <3>3. \A q \in Producer : ppc'[q] = "push" <=> ppc[q] = "push"
      BY <1>0, <2>4 DEF Add, Schedule, Send
    <3>4. Answering' /\ \A w \in Worker : Carries(w)' <=> Carries(w)
      BY <3>1 DEF Flow, Answering, Carries, workerVars
    <3>5. QED
      BY <3>1, <3>2, <3>3, <3>4, FlowUnmoved DEF workerVars
  <2>5. QED
    BY <1>1, <2>1, <2>2, <2>3, <2>4 DEF Producing, Pushing
<1>2. ASSUME NEW w \in Worker, Processing(w) PROVE Flow'
  <2>1. ASSUME UNCHANGED <<queue, delivered, wmsg, wres, producerVars>>,
               schedulerState' = "finished" <=> schedulerState = "finished",
               UNCHANGED errValue,
               \E l \in WorkerLabel \ {"setErr", "tryFinish"} : wpc' = [wpc EXCEPT ![w] = l],
               Carries(w)' <=> Carries(w)
        PROVE  Flow'
    <3>1. Answering' /\ \A v \in Worker : Carries(v)' <=> Carries(v)
      BY <1>0, <2>1 DEF Flow, Answering, Carries
    <3>2. QED
      BY <2>1, <3>1, FlowUnmoved DEF producerVars
  <2>2. CASE Receive(w) \/ PopNil(w) \/ Dec(w) \/ SendAgain(w) \/ Load(w)
    <3>1. /\ UNCHANGED <<queue, delivered, wmsg, wres, producerVars>>
          /\ UNCHANGED <<schedulerState, errValue>>
      BY <2>2 DEF Receive, PopNil, Dec, SendAgain, Load, queueVars, stateVars
    <3>2. \E l \in WorkerLabel \ {"setErr", "tryFinish"} : wpc' = [wpc EXCEPT ![w] = l]
      BY <2>2 DEF Receive, PopNil, Dec, SendAgain, Load, Goto, WorkerLabel, Owning
    <3>3. Carries(w)' <=> Carries(w)
      BY <1>0, <2>2 DEF Receive, PopNil, Dec, SendAgain, Load, Goto, Carries
    <3>4. QED
      BY ZenonT(30), <2>1, <3>1, <3>2, <3>3
  <2>3. CASE Close(w) \/ Yield(w) \/ Reschedule(w) \/ Rest(w) \/ Resume(w)
    <3>1. UNCHANGED <<queue, delivered, wmsg, wres, producerVars>> /\ UNCHANGED errValue
      BY <2>3 DEF Close, Yield, Reschedule, Rest, Resume, queueVars
    <3>2. \E l \in WorkerLabel \ {"setErr", "tryFinish"} : wpc' = [wpc EXCEPT ![w] = l]
      BY <2>3 DEF Close, Yield, Reschedule, Rest, Resume, Goto, WorkerLabel, Owning
    <3>3. Carries(w)' <=> Carries(w)
      BY <1>0, <2>3 DEF Close, Yield, Reschedule, Rest, Resume, Goto, Carries
    <3>4. schedulerState' = "finished" <=> schedulerState = "finished"
      BY <1>0, <2>3 DEF Close, Yield, Reschedule, Rest, Resume, Owner, Owning
    <3>5. QED
      BY ZenonT(30), <2>1, <3>1, <3>2, <3>3, <3>4
  <2>4. CASE Pop(w)
    BY <2>4, FlowPop
  <2>5. CASE ProcessOK(w) \/ ProcessError(w) \/ ProcessFinish(w) \/ Panic(w)
    BY <2>5, FlowProcess
  <2>6. CASE SetErr(w)
    <3>1. /\ wpc[w] = "setErr" /\ wpc' = [wpc EXCEPT ![w] = "tryFinish"]
          /\ errValue' = IF wres[w] = "error" THEN "error" ELSE "nil"
          /\ UNCHANGED <<queue, delivered, wmsg, wres, calls, pmsg, ppc, schedulerState>>
      BY ZenonT(30), <2>6 DEF SetErr, Goto, queueVars, producerVars
    <3>2. /\ schedulerState = "running" /\ \A v \in Worker : v # w => wpc[v] \notin Owning
      BY <3>1 DEF Token, Owner, Owning
    <3>3. Answering' /\ \A v \in Worker : Carries(v)' <=> Carries(v)
      BY <1>0, <3>1, <3>2 DEF Flow, Answering, Carries, Owning
    <3>4. QED
      BY ZenonT(30), <3>1, <3>2, <3>3, FlowUnmoved
  <2>7. CASE TryFinish(w)
    BY <2>7, FlowFinish
  <2>8. QED
    BY <1>2, <2>2, <2>3, <2>4, <2>5, <2>6, <2>7 DEF Processing
<1>3. CASE UNCHANGED vars
  <2>1. UNCHANGED <<queue, errValue, schedulerState, calls, ppc, pmsg, wpc, wmsg, wres, delivered>>
    BY <1>3 DEF vars, queueVars, stateVars, producerVars, workerVars
  <2>2. Answering' /\ \A w \in Worker : Carries(w)' <=> Carries(w)
    BY <2>1 DEF Flow, Answering, Carries
  <2>3. QED
    BY <2>1, <2>2, FlowUnmoved
<1>4. QED
  BY <1>1, <1>2, <1>3 DEF Next

\* Flow says InOrder while the transport lives and after it.
LEMMA FlowInOrder == Flow => InOrder
BY DEF Flow, Numbered, NumberedCalls, InOrder

\* Flow is an invariant.
LEMMA FlowInvariant == Spec => []Flow
<1>1. Init => Flow
  BY FlowInit
<1>2. Inv /\ Flow /\ [Next]_vars => Flow'
  BY FlowStep DEF Inv
<1>3. QED
  BY <1>1, <1>2, Invariance, PTL DEF Spec

\* t gets the messages of each producer in the order of its calls to the transport,
\* none skipped and none twice, whichever workers carry them.
THEOREM CallsInOrder == Spec => []InOrder
BY FlowInvariant, FlowInOrder, PTL
=============================================================================
