------------------------------ MODULE Transport ------------------------------
(***************************************************************************)
(* consecutiveTransport of query/execute/transport.go: the edge between    *)
(* two transformations.  Producers (a source, or the worker running the    *)
(* upstream transformation) push messages and wake the transport up;       *)
(* workers of the dispatcher's pool run processMessages, which hands the   *)
(* messages to the downstream transformation t.                            *)
(*                                                                         *)
(* One action per access to shared state: the atomics schedulerState and   *)
(* inflight, the channel finished, errValue, the message queue (module     *)
(* FIFO, implemented by module MessageQueue) and the dispatcher's work     *)
(* channel, of which this transport sees its own entries only.             *)
(***************************************************************************)
EXTENDS Integers, Sequences, FiniteSets

CONSTANTS
    Producer,     \* goroutines that call the Transformation methods
    Worker,       \* goroutines of the dispatcher's pool
    Throughput,   \* messages per call of processMessages
    MaxCalls,     \* bound on the calls each producer makes
    Outcome,      \* how t may answer a message: "ok", "error", "panic"
    NoMessage     \* the nil Message

ASSUME FiniteAssumption == IsFiniteSet(Producer) /\ IsFiniteSet(Worker)
ASSUME ThroughputAssumption == Throughput \in Nat \ {0}
ASSUME MaxCallsAssumption == MaxCalls \in Nat
ASSUME OutcomeAssumption == Outcome \subseteq {"ok", "error", "panic"}

VARIABLES
    queue,          \* t.messages
    inflight,       \* atomic count of queued messages
    schedulerState, \* "idle", "running" or "finished"
    closed,         \* "yes" once the channel t.finished is closed
    errValue,       \* "nil" or "error"
    work,           \* entries of t.processMessages in d.work
    calls,          \* calls made so far, per producer
    ppc,            \* where a producer is in pushMsg
    pmsg,           \* the message a producer is pushing
    wpc,            \* where a worker is in processMessages
    wmsg,           \* the message a worker has popped
    wi,             \* processMessages' local i
    wres,           \* what processMessage returned: "ok", "error", "finish"
    delivered       \* the calls t has received, in order

queueVars    == <<queue, inflight>>
stateVars    == <<schedulerState, closed, errValue>>
producerVars == <<calls, ppc, pmsg>>
workerVars   == <<wpc, wmsg, wi, wres>>
vars == <<queueVars, stateVars, work, producerVars, workerVars, delivered>>

\* RetractBlock, Process, UpdateWatermark and UpdateProcessingTime differ only
\* in the method they end up in: they are the "data" messages.
Kind == {"data", "finish"}
Message == [src : Producer, n : 1..MaxCalls, kind : Kind]

Init ==
    /\ queue = <<>>
    /\ inflight = 0
    /\ schedulerState = "idle"
    /\ closed = "no"
    /\ errValue = "nil"
    /\ work = 0
    /\ calls = [p \in Producer |-> 0]
    /\ ppc = [p \in Producer |-> "ready"]
    /\ pmsg = [p \in Producer |-> NoMessage]
    /\ wpc = [w \in Worker |-> "select"]
    /\ wmsg = [w \in Worker |-> NoMessage]
    /\ wi = [w \in Worker |-> 0]
    /\ wres = [w \in Worker |-> "ok"]
    /\ delivered = <<>>

-----------------------------------------------------------------------------
(* Producers: a Transformation method of the transport, then pushMsg.      *)

\* The select on t.finished: a finished transport refuses the call.
Refuse(p) ==
    /\ ppc[p] = "ready"
    /\ calls[p] < MaxCalls
    /\ closed = "yes"
    /\ calls' = [calls EXCEPT ![p] = @ + 1]
    /\ UNCHANGED <<queueVars, stateVars, work, ppc, pmsg, workerVars, delivered>>

Accept(p, k) ==
    /\ ppc[p] = "ready"
    /\ calls[p] < MaxCalls
    /\ closed = "no"
    /\ calls' = [calls EXCEPT ![p] = @ + 1]
    /\ pmsg' = [pmsg EXCEPT ![p] = [src |-> p, n |-> calls[p] + 1, kind |-> k]]
    /\ ppc' = [ppc EXCEPT ![p] = "push"]
    /\ UNCHANGED <<queueVars, stateVars, work, workerVars, delivered>>

Push(p) ==
    /\ ppc[p] = "push"
    /\ queue' = Append(queue, pmsg[p])
    /\ ppc' = [ppc EXCEPT ![p] = "add"]
    /\ UNCHANGED <<inflight, stateVars, work, calls, pmsg, workerVars, delivered>>

Add(p) ==
    /\ ppc[p] = "add"
    /\ inflight' = inflight + 1
    /\ ppc' = [ppc EXCEPT ![p] = "schedule"]
    /\ UNCHANGED <<queue, stateVars, work, calls, pmsg, workerVars, delivered>>

\* schedule: tryTransition(idle, running) ...
Schedule(p) ==
    /\ ppc[p] = "schedule"
    /\ IF schedulerState = "idle"
         THEN schedulerState' = "running" /\ ppc' = [ppc EXCEPT ![p] = "send"]
         ELSE UNCHANGED schedulerState /\ ppc' = [ppc EXCEPT ![p] = "ready"]
    /\ UNCHANGED <<queueVars, closed, errValue, work, calls, pmsg, workerVars, delivered>>

\* ... and dispatcher.Schedule: the send on d.work.
Send(p) ==
    /\ ppc[p] = "send"
    /\ work' = work + 1
    /\ ppc' = [ppc EXCEPT ![p] = "ready"]
    /\ UNCHANGED <<queueVars, stateVars, calls, pmsg, workerVars, delivered>>

-----------------------------------------------------------------------------
(* Workers: processMessages(throughput).                                   *)

Goto(w, l) == wpc' = [wpc EXCEPT ![w] = l]

\* poolDispatcher.run receives this transport's function from d.work.
Receive(w) ==
    /\ wpc[w] = "select"
    /\ work > 0
    /\ work' = work - 1
    /\ wi' = [wi EXCEPT ![w] = 0]
    /\ Goto(w, "pop")
    /\ UNCHANGED <<queueVars, stateVars, producerVars, wmsg, wres, delivered>>

PopNil(w) ==
    /\ wpc[w] = "pop"
    /\ queue = <<>>
    /\ Goto(w, "rest")
    /\ UNCHANGED <<queueVars, stateVars, work, producerVars, wmsg, wi, wres, delivered>>

\* Variant of Pop that takes the newest message.
PopNewest(w) ==
    /\ wpc[w] = "pop"
    /\ queue # <<>>
    /\ wmsg' = [wmsg EXCEPT ![w] = queue[Len(queue)]]
    /\ queue' = SubSeq(queue, 1, Len(queue) - 1)
    /\ Goto(w, "dec")
    /\ UNCHANGED <<inflight, stateVars, work, producerVars, wi, wres, delivered>>

Pop(w) ==
    /\ wpc[w] = "pop"
    /\ queue # <<>>
    /\ wmsg' = [wmsg EXCEPT ![w] = Head(queue)]
    /\ queue' = Tail(queue)
    /\ Goto(w, "dec")
    /\ UNCHANGED <<inflight, stateVars, work, producerVars, wi, wres, delivered>>

Dec(w) ==
    /\ wpc[w] = "dec"
    /\ inflight' = inflight - 1
    /\ Goto(w, "process")
    /\ UNCHANGED <<queue, stateVars, work, producerVars, wmsg, wi, wres, delivered>>

\* i++, and the test against throughput.
NextMessage(w) ==
    /\ wi' = [wi EXCEPT ![w] = @ + 1]
    /\ Goto(w, IF wi[w] + 1 >= Throughput THEN "yield" ELSE "pop")

\* A data message that t accepts.
ProcessOK(w) ==
    /\ wpc[w] = "process"
    /\ wmsg[w].kind = "data"
    /\ "ok" \in Outcome
    /\ delivered' = Append(delivered, wmsg[w])
    /\ NextMessage(w)
    /\ UNCHANGED <<queueVars, stateVars, work, producerVars, wmsg, wres>>

\* A data message that t answers with an error.
ProcessError(w) ==
    /\ wpc[w] = "process"
    /\ wmsg[w].kind = "data"
    /\ "error" \in Outcome
    /\ delivered' = Append(delivered, wmsg[w])
    /\ wres' = [wres EXCEPT ![w] = "error"]
    /\ Goto(w, "setErr")
    /\ UNCHANGED <<queueVars, stateVars, work, producerVars, wmsg, wi>>

\* t.Finish.
ProcessFinish(w) ==
    /\ wpc[w] = "process"
    /\ wmsg[w].kind = "finish"
    /\ delivered' = Append(delivered, wmsg[w])
    /\ wres' = [wres EXCEPT ![w] = "finish"]
    /\ Goto(w, "setErr")
    /\ UNCHANGED <<queueVars, stateVars, work, producerVars, wmsg, wi>>

\* A panic in t unwinds processMessages; the worker goroutine recovers, reports
\* it to the dispatcher and exits.
Panic(w) ==
    /\ wpc[w] = "process"
    /\ "panic" \in Outcome
    /\ delivered' = Append(delivered, wmsg[w])
    /\ Goto(w, "dead")
    /\ UNCHANGED <<queueVars, stateVars, work, producerVars, wmsg, wi, wres>>

\* t.setErr(err): a finish message leaves err nil.
SetErr(w) ==
    /\ wpc[w] = "setErr"
    /\ errValue' = IF wres[w] = "error" THEN "error" ELSE "nil"
    /\ Goto(w, "tryFinish")
    /\ UNCHANGED <<queueVars, schedulerState, closed, work, producerVars, wmsg, wi, wres,
                   delivered>>

\* The call t.Finish(m.SrcDatasetID(), err).
FinishCall(m) == [src |-> m.src, n |-> m.n, kind |-> "finish"]

\* Variant of TryFinish that calls t.Finish after a finish message too.
TryFinishAlways(w) ==
    /\ wpc[w] = "tryFinish"
    /\ IF schedulerState = "running"
         THEN /\ schedulerState' = "finished"
              /\ delivered' = Append(delivered, FinishCall(wmsg[w]))
              /\ Goto(w, "close")
              /\ UNCHANGED wi
         ELSE /\ NextMessage(w)
              /\ UNCHANGED <<schedulerState, delivered>>
    /\ UNCHANGED <<queueVars, closed, errValue, work, producerVars, wmsg, wres>>

\* tryTransition(running, finished).  After an error t.Finish is still owed.
TryFinish(w) ==
    /\ wpc[w] = "tryFinish"
    /\ IF schedulerState = "running"
         THEN /\ schedulerState' = "finished"
              /\ delivered' = IF wres[w] = "finish" THEN delivered
                              ELSE Append(delivered, FinishCall(wmsg[w]))
              /\ Goto(w, "close")
              /\ UNCHANGED wi
         ELSE /\ NextMessage(w)
              /\ UNCHANGED <<schedulerState, delivered>>
    /\ UNCHANGED <<queueVars, closed, errValue, work, producerVars, wmsg, wres>>

Close(w) ==
    /\ wpc[w] = "close"
    /\ closed' = "yes"
    /\ Goto(w, "select")
    /\ UNCHANGED <<queueVars, schedulerState, errValue, work, producerVars, wmsg, wi, wres,
                   delivered>>

\* Enough work done: transition(idle) ...
Yield(w) ==
    /\ wpc[w] = "yield"
    /\ schedulerState' = "idle"
    /\ Goto(w, "reschedule")
    /\ UNCHANGED <<queueVars, closed, errValue, work, producerVars, wmsg, wi, wres, delivered>>

\* Variant of Reschedule that leaves the rest of the queue to the next producer.
RescheduleNever(w) ==
    /\ wpc[w] = "reschedule"
    /\ Goto(w, "select")
    /\ UNCHANGED <<queueVars, stateVars, work, producerVars, wmsg, wi, wres, delivered>>

\* ... and schedule().
Reschedule(w) ==
    /\ wpc[w] = "reschedule"
    /\ IF schedulerState = "idle"
         THEN schedulerState' = "running" /\ Goto(w, "send")
         ELSE UNCHANGED schedulerState /\ Goto(w, "select")
    /\ UNCHANGED <<queueVars, closed, errValue, work, producerVars, wmsg, wi, wres, delivered>>

SendAgain(w) ==
    /\ wpc[w] = "send"
    /\ work' = work + 1
    /\ Goto(w, "select")
    /\ UNCHANGED <<queueVars, stateVars, producerVars, wmsg, wi, wres, delivered>>

\* The queue was empty: transition(idle) ...
Rest(w) ==
    /\ wpc[w] = "rest"
    /\ schedulerState' = "idle"
    /\ Goto(w, "load")
    /\ UNCHANGED <<queueVars, closed, errValue, work, producerVars, wmsg, wi, wres, delivered>>

\* Variant of Load that misses a single message.
LoadOffByOne(w) ==
    /\ wpc[w] = "load"
    /\ Goto(w, IF inflight > 1 THEN "resume" ELSE "select")
    /\ UNCHANGED <<queueVars, stateVars, work, producerVars, wmsg, wi, wres, delivered>>

\* ... then look once more, in the idle state.
Load(w) ==
    /\ wpc[w] = "load"
    /\ Goto(w, IF inflight > 0 THEN "resume" ELSE "select")
    /\ UNCHANGED <<queueVars, stateVars, work, producerVars, wmsg, wi, wres, delivered>>

\* Variant of Resume with a store in place of the compare-and-swap.
ResumeUnguarded(w) ==
    /\ wpc[w] = "resume"
    /\ schedulerState' = "running"
    /\ wi' = [wi EXCEPT ![w] = 0]
    /\ Goto(w, "pop")
    /\ UNCHANGED <<queueVars, closed, errValue, work, producerVars, wmsg, wres, delivered>>

Resume(w) ==
    /\ wpc[w] = "resume"
    /\ IF schedulerState = "idle"
         THEN /\ schedulerState' = "running"
              /\ wi' = [wi EXCEPT ![w] = 0]
              /\ Goto(w, "pop")
         ELSE /\ Goto(w, "select")
              /\ UNCHANGED <<schedulerState, wi>>
    /\ UNCHANGED <<queueVars, closed, errValue, work, producerVars, wmsg, wres, delivered>>

-----------------------------------------------------------------------------

Pushing(p) == Push(p) \/ Add(p) \/ Schedule(p) \/ Send(p)

Producing(p) == Refuse(p) \/ (\E k \in Kind : Accept(p, k)) \/ Pushing(p)

Processing(w) ==
    \/ Receive(w) \/ PopNil(w) \/ Pop(w) \/ Dec(w)
    \/ ProcessOK(w) \/ ProcessError(w) \/ ProcessFinish(w) \/ Panic(w)
    \/ SetErr(w) \/ TryFinish(w) \/ Close(w)
    \/ Yield(w) \/ Reschedule(w) \/ SendAgain(w)
    \/ Rest(w) \/ Load(w) \/ Resume(w)

Next ==
    \/ \E p \in Producer : Producing(p)
    \/ \E w \in Worker : Processing(w)

Spec == Init /\ [][Next]_vars

\* Goroutines are scheduled: a producer inside pushMsg and a worker with
\* something to do go on.  Nothing makes a producer call again.
Fairness ==
    /\ \A p \in Producer : WF_vars(Pushing(p))
    /\ \A w \in Worker : WF_vars(Processing(w))

FairSpec == Spec /\ Fairness

-----------------------------------------------------------------------------
(* Properties.                                                             *)

ProducerLabel == {"ready", "push", "add", "schedule", "send"}

\* Labels at which a worker owns the transport: it came here by a transition
\* to running and has not left that state again.
Owning == {"pop", "dec", "process", "setErr", "tryFinish", "yield", "rest", "send", "dead"}

WorkerLabel == Owning \cup {"select", "close", "reschedule", "load", "resume"}

\* The fields of the transport and the locals of its goroutines have their types;
\* a goroutine that is about to use a message has one.
TypeOK ==
    /\ queue \in Seq(Message)
    /\ inflight \in Int
    /\ schedulerState \in {"idle", "running", "finished"}
    /\ closed \in {"no", "yes"}
    /\ errValue \in {"nil", "error"}
    /\ work \in Nat
    /\ calls \in [Producer -> 0..MaxCalls]
    /\ ppc \in [Producer -> ProducerLabel]
    /\ pmsg \in [Producer -> Message \cup {NoMessage}]
    /\ \A p \in Producer : ppc[p] = "push" => pmsg[p] \in Message
    /\ wpc \in [Worker -> WorkerLabel]
    /\ wmsg \in [Worker -> Message \cup {NoMessage}]
    /\ \A w \in Worker :
         wpc[w] \in {"dec", "process", "setErr", "tryFinish"} => wmsg[w] \in Message
    /\ wi \in [Worker -> Nat]
    /\ wres \in [Worker -> {"ok", "error", "finish"}]
    /\ delivered \in Seq(Message)

Consuming == {"pop", "dec", "process", "setErr", "tryFinish", "yield", "rest"}

\* The queue's contract "must have a single consumer calling Pop" is kept by
\* the compare-and-swap on schedulerState alone: at no time are two workers
\* inside the loop of processMessages, so t never runs twice at once either.
SingleConsumer ==
    \A v, w \in Worker : wpc[v] \in Consuming /\ wpc[w] \in Consuming => v = w

\* No lost wake-up: an idle transport with messages in its queue has someone
\* about to look at it, a producer that has not reached its compare-and-swap
\* or a worker that has not done its last check.  inflight, which lags behind
\* the queue on both sides and may even be negative, is enough for that check.
NoLostWakeup ==
    schedulerState = "idle" /\ queue # <<>> =>
        \/ \E p \in Producer : ppc[p] \in {"add", "schedule"}
        \/ \E w \in Worker : wpc[w] \in {"reschedule", "resume"}
        \/ \E w \in Worker : wpc[w] = "load" /\ inflight > 0

\* At most one entry of the transport is in the dispatcher's work channel, and
\* none while a worker is processing: a channel with room for one entry per
\* transport never blocks a producer or a worker in Schedule.
ScheduledOnce ==
    /\ work <= 1
    /\ work = 1 => \A w \in Worker : wpc[w] \notin Owning

\* How many of the first i messages of s are producer p's.
CallsOf(s, p, i) == Cardinality({j \in 1..i : s[j].src = p})

\* t sees every producer's messages in the order of the calls, none skipped,
\* none twice: the k-th call it gets from a producer is that producer's k-th
\* message (only the Finish that follows an error repeats the failed message).
InOrder ==
    \A i \in 1..Len(delivered) :
        LET k == CallsOf(delivered, delivered[i].src, i) IN
        \/ delivered[i].n = k
        \/ /\ errValue = "error" /\ i = Len(delivered)
           /\ delivered[i].kind = "finish" /\ delivered[i].n = k - 1

LastIsFinish == delivered # <<>> /\ delivered[Len(delivered)].kind = "finish"

\* t is finished at most once and hears nothing afterwards; the channel
\* t.finished is closed only after that, and never twice (which would panic).
FinishedOnce ==
    /\ \A i \in 1..Len(delivered) : delivered[i].kind = "finish" => i = Len(delivered)
    /\ closed = "yes" => LastIsFinish
    /\ \A w \in Worker : wpc[w] = "close" => closed = "no" /\ LastIsFinish

\* Whatever is pushed is processed, unless the transport finishes first or the
\* worker that serves it dies of a panic in t: at rest the queue is empty, or the
\* transport has closed t.finished, or its worker is gone.
Drains ==
    <>[](queue = <<>> \/ closed = "yes" \/ \E w \in Worker : wpc[w] = "dead")
=============================================================================
