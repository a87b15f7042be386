----------------------------- MODULE Controller -----------------------------
(***************************************************************************)
(* The query controller: query/control/controller.go with the priority     *)
(* queue of query/control/queue.go and the gauges of metrics.go.           *)
(*                                                                         *)
(* One goroutine, run, owns the priority queue and the resource counters.  *)
(* It talks over the unbuffered channels newQueries and queryDone to the   *)
(* clients (one goroutine per query, HandleQuery of cmd/ifqld or doQuery   *)
(* of the REPL), to goroutines that call Cancel, and to the goroutines it  *)
(* starts itself to report an error (go q.setErr).  Every query has a      *)
(* mutex q.mu; finish sends on queryDone while holding it.                 *)
(*                                                                         *)
(* One action per critical section of q.mu, channel operation or call into *)
(* the planner and the executor.  A query stands for itself as its ID:     *)
(* module QueryID is about how IDs are handed out.                         *)
(***************************************************************************)
EXTENDS Sums

CONSTANTS
    Query,            \* the queries submitted
    None,             \* no query
    ConcurrencyQuota, \* Config.ConcurrencyQuota
    MemoryQuota,      \* Config.MemoryBytesQuota
    Priority,         \* priorities clients use
    Concurrency,      \* concurrency quotas a plan may ask for
    Memory,           \* memory quotas a plan may ask for
    Unlimited,        \* math.MaxInt64 as a memory quota
    Failures,         \* steps that may fail: "compile", "validate", "plan", "execute"
    ClientOps         \* what clients do beyond HandleQuery: "cancel", "early done"

ASSUME QueryAssumption == IsFiniteSet(Query) /\ None \notin Query /\ None \notin Nat
ASSUME QuotaAssumption == ConcurrencyQuota \in Nat /\ MemoryQuota \in Nat
ASSUME PriorityAssumption == Priority \subseteq Nat
ASSUME PlanAssumption ==
    /\ Concurrency \subseteq Nat
    /\ Unlimited \notin Int
    /\ Memory \subseteq Nat \cup {Unlimited}

VARIABLES
    \* fields of a Query
    state, mu, ready, closed, err,
    plan,                   \* the concurrency quota in q.plan; None: q.plan is nil
    conc, mem, prio,
    \* the run goroutine
    lpc,                    \* where it is
    lq,                     \* the query it is processing
    top, rest,              \* the heap: its root, and everything below it
    availableConcurrency, availableMemory,
    queries,                \* c.queries
    \* everybody else
    cpc,                    \* where a query's client is
    fpc,                    \* where a call of Done, Cancel or setErr is
    crashed,                \* a goroutine without recover has panicked
    gauge                   \* the Prometheus gauges

fieldVars  == <<state, ready, closed, err>>
planVars   == <<plan, conc, mem>>
heapVars   == <<top, rest>>
quotaVars  == <<availableConcurrency, availableMemory>>
vars == <<fieldVars, mu, planVars, prio, lpc, lq, heapVars, quotaVars, queries, cpc, fpc,
          crashed, gauge>>

State == {"Created", "Compiling", "Queueing", "Planning", "Requeueing", "Executing",
          "Errored", "Finished", "Canceled"}

\* The methods that end in finish().
Finisher == {"Done", "Cancel", "setErr"}

Gauge == {"Compiling", "Queueing", "Planning", "Requeueing", "Executing"}

Init ==
    /\ state = [q \in Query |-> "Created"]
    /\ mu = [q \in Query |-> "free"]
    /\ ready = [q \in Query |-> 0]
    /\ closed = {}
    /\ err = {}
    /\ plan = [q \in Query |-> None]
    /\ conc = [q \in Query |-> 0]
    /\ mem = [q \in Query |-> 0]
    /\ prio = [q \in Query |-> 0]
    /\ lpc = "select"
    /\ lq = None
    /\ top = None
    /\ rest = {}
    /\ availableConcurrency = ConcurrencyQuota
    /\ availableMemory = MemoryQuota
    /\ queries = {}
    /\ cpc = [q \in Query |-> "new"]
    /\ fpc = [f \in Finisher |-> [q \in Query |-> "idle"]]
    /\ crashed = "no"
    /\ gauge = [g \in Gauge |-> 0]

-----------------------------------------------------------------------------
(* Helpers.                                                                *)

SetState(q, s) == state' = [state EXCEPT ![q] = s]

\* The gauges when a query leaves s for t; "" for a state without a gauge.
MoveGauge(s, t) ==
    gauge' = [g \in Gauge |->
                gauge[g] + (IF g = t THEN 1 ELSE 0) - (IF g = s THEN 1 ELSE 0)]

IsOK(q) == state[q] \notin {"Canceled", "Errored"}

\* Variant of HeapPush that leaves the root alone.
HeapPushBelow(q) ==
    IF top = None THEN top' = q /\ UNCHANGED rest
    ELSE rest' = rest \cup {q} /\ UNCHANGED top

\* heap.Push: only a strictly smaller priority displaces the root.
HeapPush(q) ==
    IF top = None THEN top' = q /\ UNCHANGED rest
    ELSE IF prio[q] < prio[top] THEN top' = q /\ rest' = rest \cup {top}
    ELSE rest' = rest \cup {q} /\ UNCHANGED top

\* heap.Pop: a query of the least priority becomes the root.  container/heap
\* is not stable, so any of them may.
HeapPop ==
    IF rest = {} THEN top' = None /\ UNCHANGED rest
    ELSE \E n \in rest : /\ \A r \in rest : prio[n] <= prio[r]
                         /\ top' = n
                         /\ rest' = rest \ {n}

Queued == rest \cup ({top} \ {None})

Limited(m) == IF m = Unlimited THEN 0 ELSE m

\* Variant of Consume that forgets the memory.
ConsumeConcurrency(q) ==
    /\ availableConcurrency' = availableConcurrency - conc[q]
    /\ UNCHANGED availableMemory

Consume(q) ==
    /\ availableConcurrency' = availableConcurrency - conc[q]
    /\ availableMemory' = availableMemory - Limited(mem[q])

Free(q) ==
    /\ availableConcurrency' = availableConcurrency + conc[q]
    /\ availableMemory' = availableMemory + Limited(mem[q])

\* Variant of Check that forgets the memory.
CheckConcurrency(q) == availableConcurrency >= conc[q]

Check(q) ==
    /\ availableConcurrency >= conc[q]
    /\ mem[q] # Unlimited => availableMemory >= mem[q]

-----------------------------------------------------------------------------
(* Clients: Query and QueryWithCompile.  Nobody else has the query yet.    *)

Compile(q) ==
    /\ cpc[q] = "new"
    /\ SetState(q, "Compiling")
    /\ MoveGauge("", "Compiling")
    /\ cpc' = [cpc EXCEPT ![q] = "compiling"]
    /\ UNCHANGED <<mu, ready, closed, err, planVars, prio, lpc, lq, heapVars, quotaVars,
                   queries, fpc, crashed>>

CompileFails(q) ==
    /\ cpc[q] = "compiling"
    /\ "compile" \in Failures
    /\ cpc' = [cpc EXCEPT ![q] = "rejected"]
    /\ UNCHANGED <<fieldVars, mu, planVars, prio, lpc, lq, heapVars, quotaVars, queries,
                   fpc, crashed, gauge>>

\* enqueueQuery up to the send: queue() and Validate().
Enqueue(q, p) ==
    /\ cpc[q] \in {"new", "compiling"}
    /\ SetState(q, "Queueing")
    /\ MoveGauge(state[q], "Queueing")
    /\ prio' = [prio EXCEPT ![q] = p]
    /\ cpc' = [cpc EXCEPT ![q] = "submitting"]
    /\ UNCHANGED <<mu, ready, closed, err, planVars, lpc, lq, heapVars, quotaVars,
                   queries, fpc, crashed>>

ValidateFails(q) ==
    /\ cpc[q] = "submitting"
    /\ "validate" \in Failures
    /\ cpc' = [cpc EXCEPT ![q] = "rejected"]
    /\ UNCHANGED <<fieldVars, mu, planVars, prio, lpc, lq, heapVars, quotaVars, queries,
                   fpc, crashed, gauge>>

\* The receive on q.Ready delivers results ...
ReceiveResults(q) ==
    /\ cpc[q] = "waiting"
    /\ ready[q] > 0
    /\ ready' = [ready EXCEPT ![q] = @ - 1]
    /\ cpc' = [cpc EXCEPT ![q] = "results"]
    /\ UNCHANGED <<state, closed, err, mu, planVars, prio, lpc, lq, heapVars, quotaVars,
                   queries, fpc, crashed, gauge>>

\* ... or finds the channel closed; then the client asks Err().
ReceiveClosed(q) ==
    /\ cpc[q] = "waiting"
    /\ ready[q] = 0
    /\ q \in closed
    /\ mu[q] = "free"
    /\ cpc' = [cpc EXCEPT ![q] = "failed"]
    /\ UNCHANGED <<fieldVars, mu, planVars, prio, lpc, lq, heapVars, quotaVars, queries,
                   fpc, crashed, gauge>>

Call(f, q) ==
    /\ fpc[f][q] = "idle"
    /\ fpc' = [fpc EXCEPT ![f][q] = "called"]

\* The deferred q.Done(): after an answer, or before with "early done".
CallDone(q) ==
    /\ \/ cpc[q] \in {"results", "failed"}
       \/ cpc[q] = "waiting" /\ "early done" \in ClientOps
    /\ Call("Done", q)
    /\ cpc' = [cpc EXCEPT ![q] = "gone"]
    /\ UNCHANGED <<fieldVars, mu, planVars, prio, lpc, lq, heapVars, quotaVars, queries,
                   crashed, gauge>>

CallCancel(q) ==
    /\ "cancel" \in ClientOps
    /\ cpc[q] \in {"waiting", "results", "failed", "gone"}
    /\ Call("Cancel", q)
    /\ UNCHANGED <<fieldVars, mu, planVars, prio, lpc, lq, heapVars, quotaVars, queries,
                   cpc, crashed, gauge>>

-----------------------------------------------------------------------------
(* Done, Cancel and setErr: take q.mu, decide, and finish().               *)

GotoF(f, q, l) == fpc' = [fpc EXCEPT ![f][q] = l]

LockForFinish(f, q) ==
    /\ mu' = [mu EXCEPT ![q] = f]
    /\ GotoF(f, q, "send")

\* Variant of Done without the early returns of the switch.
DoneAlways(q) ==
    /\ fpc["Done"][q] = "called"
    /\ mu[q] = "free"
    /\ LockForFinish("Done", q)
    /\ MoveGauge(state[q], "")
    /\ IF state[q] = "Executing" THEN SetState(q, "Finished") ELSE UNCHANGED state
    /\ UNCHANGED <<ready, closed, err, planVars, prio, lpc, lq, heapVars, quotaVars, queries,
                   cpc, crashed>>

\* Done, by the state it finds.
Done(q) ==
    /\ fpc["Done"][q] = "called"
    /\ mu[q] = "free"
    /\ CASE state[q] \in {"Queueing", "Planning", "Requeueing"} ->
              LockForFinish("Done", q) /\ MoveGauge(state[q], "") /\ UNCHANGED state
         [] state[q] = "Executing" ->
              LockForFinish("Done", q) /\ MoveGauge("Executing", "") /\ SetState(q, "Finished")
         [] state[q] \in {"Errored", "Canceled"} ->
              GotoF("Done", q, "returned") /\ UNCHANGED <<mu, gauge, state>>
         [] OTHER ->
              GotoF("Done", q, "panicked") /\ UNCHANGED <<mu, gauge, state>>
    /\ UNCHANGED <<ready, closed, err, planVars, prio, lpc, lq, heapVars, quotaVars, queries,
                   cpc, crashed>>

\* Variant of Cancel that does not spare an Errored query.
CancelAlways(q) ==
    /\ fpc["Cancel"][q] = "called"
    /\ mu[q] = "free"
    /\ SetState(q, "Canceled")
    /\ LockForFinish("Cancel", q)
    /\ UNCHANGED <<ready, closed, err, planVars, prio, lpc, lq, heapVars, quotaVars, queries,
                   cpc, crashed, gauge>>

Cancel(q) ==
    /\ fpc["Cancel"][q] = "called"
    /\ mu[q] = "free"
    /\ IF state[q] # "Errored" THEN SetState(q, "Canceled") ELSE UNCHANGED state
    /\ LockForFinish("Cancel", q)
    /\ UNCHANGED <<ready, closed, err, planVars, prio, lpc, lq, heapVars, quotaVars, queries,
                   cpc, crashed, gauge>>

SetErr(q) ==
    /\ fpc["setErr"][q] = "called"
    /\ mu[q] = "free"
    /\ err' = err \cup {q}
    /\ SetState(q, "Errored")
    /\ LockForFinish("setErr", q)
    /\ UNCHANGED <<ready, closed, planVars, prio, lpc, lq, heapVars, quotaVars, queries,
                   cpc, crashed, gauge>>

\* finish, after the send: close(q.ready), and the deferred unlock.  Closing a
\* closed channel panics; net/http recovers that in a client, but nothing does
\* in the goroutine of setErr.
Close(f, q) ==
    /\ fpc[f][q] = "close"
    /\ mu' = [mu EXCEPT ![q] = "free"]
    /\ closed' = closed \cup {q}
    /\ GotoF(f, q, IF q \in closed THEN "panicked" ELSE "returned")
    /\ crashed' = IF q \in closed /\ f = "setErr" THEN "yes" ELSE crashed
    /\ UNCHANGED <<state, ready, err, planVars, prio, lpc, lq, heapVars, quotaVars, queries,
                   cpc, gauge>>

-----------------------------------------------------------------------------
(* The run goroutine.                                                      *)

\* Variant of ReceiveDone that does not look at the queue afterwards.
ReceiveDoneOnly(f, q) ==
    /\ lpc = "select"
    /\ fpc[f][q] = "send"
    /\ GotoF(f, q, "close")
    /\ Free(q)
    /\ queries' = queries \ {q}
    /\ UNCHANGED <<fieldVars, mu, planVars, prio, lpc, lq, heapVars, cpc, crashed, gauge>>

\* case q := <-c.queryDone
ReceiveDone(f, q) ==
    /\ lpc = "select"
    /\ fpc[f][q] = "send"
    /\ GotoF(f, q, "close")
    /\ Free(q)
    /\ queries' = queries \ {q}
    /\ lpc' = "peek"
    /\ UNCHANGED <<fieldVars, mu, planVars, prio, lq, heapVars, cpc, crashed, gauge>>

\* case q := <-c.newQueries
ReceiveNew(q) ==
    /\ lpc = "select"
    /\ cpc[q] = "submitting"
    /\ cpc' = [cpc EXCEPT ![q] = "waiting"]
    /\ HeapPush(q)
    /\ queries' = queries \cup {q}
    /\ lpc' = "peek"
    /\ UNCHANGED <<fieldVars, mu, planVars, prio, lq, quotaVars, fpc, crashed, gauge>>

\* pq.Peek: isOK locks the root's mutex; queries that are not OK are dropped.
PeekEmpty ==
    /\ lpc = "peek"
    /\ top = None
    /\ lpc' = "select"
    /\ UNCHANGED <<fieldVars, mu, planVars, prio, lq, heapVars, quotaVars, queries, cpc, fpc,
                   crashed, gauge>>

Peek ==
    /\ lpc = "peek"
    /\ top # None
    /\ mu[top] = "free"
    /\ IF IsOK(top) THEN lpc' = "tryPlan" /\ lq' = top /\ UNCHANGED heapVars
                    ELSE HeapPop /\ UNCHANGED <<lpc, lq>>
    /\ UNCHANGED <<fieldVars, mu, planVars, prio, quotaVars, queries, cpc, fpc, crashed, gauge>>

\* processQuery.
TryPlan ==
    /\ lpc = "tryPlan"
    /\ mu[lq] = "free"
    /\ IF state[lq] = "Queueing"
         THEN SetState(lq, "Planning") /\ MoveGauge("Queueing", "Planning") /\ lpc' = "plan"
         ELSE lpc' = "check" /\ UNCHANGED <<state, gauge>>
    /\ UNCHANGED <<ready, closed, err, mu, planVars, prio, lq, heapVars, quotaVars, queries,
                   cpc, fpc, crashed>>

\* Both planners; the concurrency is cut to the controller's, the memory is not.
Plan(c, m) ==
    /\ lpc = "plan"
    /\ plan' = [plan EXCEPT ![lq] = c]
    /\ conc' = [conc EXCEPT ![lq] = IF c > ConcurrencyQuota THEN ConcurrencyQuota ELSE c]
    /\ mem' = [mem EXCEPT ![lq] = m]
    /\ lpc' = "check"
    /\ UNCHANGED <<fieldVars, mu, prio, lq, heapVars, quotaVars, queries, cpc, fpc, crashed,
                   gauge>>

\* An error of processQuery: go q.setErr(err), and back to the select.
ReportError ==
    /\ Call("setErr", lq)
    /\ lpc' = "select"
    /\ lq' = None

PlanFails ==
    /\ lpc = "plan"
    /\ "plan" \in Failures
    /\ ReportError
    /\ UNCHANGED <<fieldVars, mu, planVars, prio, heapVars, quotaVars, queries, cpc, crashed,
                   gauge>>

Admit ==
    /\ lpc = "check"
    /\ Check(lq)
    /\ Consume(lq)
    /\ lpc' = "pop"
    /\ UNCHANGED <<fieldVars, mu, planVars, prio, lq, heapVars, queries, cpc, fpc, crashed,
                   gauge>>

\* Variant of Refuse that has taken the query out of the queue before the check.
RefusePopped ==
    /\ lpc = "check"
    /\ ~Check(lq)
    /\ HeapPop
    /\ lpc' = "tryRequeue"
    /\ UNCHANGED <<fieldVars, mu, planVars, prio, lq, quotaVars, queries, cpc, fpc, crashed,
                   gauge>>

Refuse ==
    /\ lpc = "check"
    /\ ~Check(lq)
    /\ lpc' = "tryRequeue"
    /\ UNCHANGED <<fieldVars, mu, planVars, prio, lq, heapVars, quotaVars, queries, cpc, fpc,
                   crashed, gauge>>

TryRequeue ==
    /\ lpc = "tryRequeue"
    /\ mu[lq] = "free"
    /\ IF state[lq] = "Planning"
         THEN SetState(lq, "Requeueing") /\ MoveGauge("Planning", "Requeueing")
         ELSE UNCHANGED <<state, gauge>>
    /\ lpc' = "select"
    /\ lq' = None
    /\ UNCHANGED <<ready, closed, err, mu, planVars, prio, heapVars, quotaVars, queries, cpc,
                   fpc, crashed>>

\* Variant of Pop that leaves the query in the queue.
PopNothing ==
    /\ lpc = "pop"
    /\ lpc' = "tryExec"
    /\ UNCHANGED <<fieldVars, mu, planVars, prio, lq, heapVars, quotaVars, queries, cpc, fpc,
                   crashed, gauge>>

\* pq.Pop: pops until a query is OK, not until it meets the one just admitted.
Pop ==
    /\ lpc = "pop"
    /\ IF top = None THEN lpc' = "tryExec" /\ UNCHANGED heapVars
       ELSE /\ mu[top] = "free"
            /\ HeapPop
            /\ lpc' = IF IsOK(top) THEN "tryExec" ELSE "pop"
    /\ UNCHANGED <<fieldVars, mu, planVars, prio, lq, quotaVars, queries, cpc, fpc, crashed,
                   gauge>>

TryExec ==
    /\ lpc = "tryExec"
    /\ mu[lq] = "free"
    /\ IF state[lq] \in {"Requeueing", "Planning"}
         THEN /\ SetState(lq, "Executing")
              /\ MoveGauge(state[lq], "Executing")
              /\ lpc' = "execute"
              /\ UNCHANGED lq
         ELSE /\ lpc' = "select"
              /\ lq' = None
              /\ UNCHANGED <<state, gauge>>
    /\ UNCHANGED <<ready, closed, err, mu, planVars, prio, heapVars, quotaVars, queries, cpc,
                   fpc, crashed>>

\* executor.Execute dereferences the plan, in the run goroutine, and starts as many
\* workers as the plan's quota says.
Execute ==
    /\ lpc = "execute"
    /\ IF plan[lq] # None THEN lpc' = "setResults" /\ UNCHANGED crashed
                          ELSE crashed' = "yes" /\ UNCHANGED lpc
    /\ UNCHANGED <<fieldVars, mu, planVars, prio, lq, heapVars, quotaVars, queries, cpc, fpc,
                   gauge>>

ExecuteFails ==
    /\ lpc = "execute"
    /\ plan[lq] # None
    /\ "execute" \in Failures
    /\ ReportError
    /\ UNCHANGED <<fieldVars, mu, planVars, prio, heapVars, quotaVars, queries, cpc, crashed,
                   gauge>>

\* setResults; a send on a closed channel panics.
SetResults ==
    /\ lpc = "setResults"
    /\ mu[lq] = "free"
    /\ IF state[lq] # "Executing" THEN UNCHANGED <<ready, crashed>>
       ELSE IF lq \in closed THEN crashed' = "yes" /\ UNCHANGED ready
       ELSE ready' = [ready EXCEPT ![lq] = @ + 1] /\ UNCHANGED crashed
    /\ lpc' = "select"
    /\ lq' = None
    /\ UNCHANGED <<state, closed, err, mu, planVars, prio, heapVars, quotaVars, queries, cpc,
                   fpc, gauge>>

-----------------------------------------------------------------------------

Client(q) ==
    \/ Compile(q) \/ CompileFails(q)
    \/ \E p \in Priority : Enqueue(q, p)
    \/ ValidateFails(q) \/ ReceiveResults(q) \/ ReceiveClosed(q)
    \/ CallDone(q) \/ CallCancel(q)

Finish(q) ==
    \/ Done(q) \/ Cancel(q) \/ SetErr(q)
    \/ \E f \in Finisher : Close(f, q)

Receive(q) ==
    \/ \E f \in Finisher : ReceiveDone(f, q)
    \/ ReceiveNew(q)

Process ==
    \/ PeekEmpty \/ Peek \/ TryPlan
    \/ \E c \in Concurrency, m \in Memory : Plan(c, m)
    \/ PlanFails \/ Admit \/ Refuse \/ TryRequeue \/ Pop
    \/ TryExec \/ Execute \/ ExecuteFails \/ SetResults

\* A panic outside the clients ends the process.
Next ==
    /\ crashed = "no"
    /\ \/ \E q \in Query : Client(q) \/ Finish(q) \/ Receive(q)
       \/ Process

Spec == Init /\ [][Next]_vars

\* The run goroutine keeps going, a goroutine that can take q.mu or has sent
\* goes on, and a client that waits on Ready takes what comes and then calls Done.
Loop == Process \/ \E q \in Query : Receive(q)
Answer(q) == ReceiveResults(q) \/ ReceiveClosed(q) \/ (cpc[q] # "waiting" /\ CallDone(q))

Fairness ==
    /\ WF_vars(crashed = "no" /\ Loop)
    /\ \A q \in Query : /\ WF_vars(crashed = "no" /\ Finish(q))
                        /\ WF_vars(crashed = "no" /\ Answer(q))

FairSpec == Spec /\ Fairness

-----------------------------------------------------------------------------
(* Properties of every client, cancelling and impatient ones included.     *)

\* Types of the fields, and the values a program counter can have.
TypeOK ==
    /\ state \in [Query -> State]
    /\ mu \in [Query -> Finisher \cup {"free"}]
    /\ ready \in [Query -> 0..1]
    /\ closed \subseteq Query
    /\ err \subseteq Query
    /\ plan \in [Query -> Nat \cup {None}]
    /\ conc \in [Query -> 0..ConcurrencyQuota]
    /\ mem \in [Query -> Nat \cup {Unlimited}]
    /\ prio \in [Query -> Nat]
    /\ lpc \in {"select", "peek", "tryPlan", "plan", "check", "tryRequeue", "pop", "tryExec",
                "execute", "setResults"}
    /\ lq \in Query \cup {None}
    /\ (lq = None) <=> lpc \in {"select", "peek"}
    /\ top \in Query \cup {None}
    /\ rest \subseteq Query
    /\ availableConcurrency \in Int
    /\ availableMemory \in Int
    /\ queries \subseteq Query
    /\ cpc \in [Query -> {"new", "compiling", "submitting", "rejected", "waiting", "results",
                          "failed", "gone"}]
    /\ fpc \in [Finisher -> [Query -> {"idle", "called", "send", "close", "returned",
                                       "panicked"}]]
    /\ crashed \in {"no", "yes"}
    /\ gauge \in [Gauge -> Int]

\* Err() reports an error exactly for the Errored queries, whatever the order in
\* which Cancel, Done and setErr get hold of q.mu.
ErrIffErrored == err = {q \in Query : state[q] = "Errored"}

\* The controller never hands out more than it has, whatever its clients do
\* (it may come to have more than its quotas: a query that is cancelled before it
\* is admitted gives back what it never took).
NotOverdrawn == availableConcurrency >= 0 /\ availableMemory >= 0

-----------------------------------------------------------------------------
(* Properties of clients that wait for the answer, as HandleQuery and      *)
(* doQuery do, when planning succeeds.                                     *)

InFinish(f, q) == fpc[f][q] \in {"send", "close"}

\* The queries whose resources are taken: admitted, and finish() not yet
\* received by the run goroutine.
Held == {q \in Query :
            \/ q = lq /\ lpc \in {"pop", "tryExec"}
            \/ state[q] = "Executing"
            \/ \E f \in Finisher : fpc[f][q] = "send"}

\* consume and free balance: what is available and what the admitted queries hold
\* add up to the quotas, nothing is freed twice or without having been consumed,
\* and the controller never hands out more than it has.
QuotaAccounting ==
    /\ availableConcurrency = ConcurrencyQuota - SumOver(conc, Held)
    /\ availableMemory = MemoryQuota - SumOver([q \in Query |-> Limited(mem[q])], Held)
    /\ availableConcurrency >= 0
    /\ availableMemory >= 0

\* finish() runs at most once for a query, however Done and setErr race, so
\* close(q.ready) never panics and the resources are freed once.
SingleFinish ==
    /\ \A q \in Query, f \in Finisher : InFinish(f, q) =>
            q \notin closed /\ \A g \in Finisher \ {f} : ~InFinish(g, q)
    /\ \A q \in Query, f \in Finisher : fpc[f][q] # "panicked"
    /\ crashed = "no"

\* A client that waits on Ready is not forgotten: its query is in the priority
\* queue, in the hands of the run goroutine, answered, or being finished.
NoQueryLost ==
    \A q \in Query : cpc[q] = "waiting" =>
        \/ q \in Queued
        \/ q = lq
        \/ ready[q] = 1
        \/ q \in closed
        \/ \E f \in Finisher : fpc[f][q] \in {"called", "send", "close"}

\* The query whose mutex the run goroutine is about to lock.
Wanted ==
    CASE lpc \in {"peek", "pop"} -> top
      [] lpc \in {"tryPlan", "tryRequeue", "tryExec", "setResults"} -> lq
      [] OTHER -> None

\* finish() sends on queryDone while holding q.mu, and only the run goroutine
\* receives: it never waits for the mutex of a query that is waiting for it.
NoLockCycle == \A q \in Query, f \in Finisher : fpc[f][q] = "send" => Wanted # q

\* A client that finds Ready closed finds an error in Err(): HandleQuery calls
\* err.Error() on it without a test.
FailedHasError == \A q \in Query : cpc[q] = "failed" => q \in err

\* "Queries with a lower value will move to the front of the priority queue": when
\* a query starts to execute, none with a lower value is waiting.
PriorityOrder ==
    [][\A q, r \in Query :
          /\ state[q] # "Executing" /\ state'[q] = "Executing"
          /\ r # q /\ cpc[r] = "waiting"
          /\ state[r] \in {"Queueing", "Planning", "Requeueing"}
          => prio[q] <= prio[r]]_vars

\* "Ready is a channel that will deliver the query results", or is closed: a
\* client that waits on it gets an answer.
Answered == \A q \in Query : cpc[q] = "waiting" ~> cpc[q] # "waiting"

=============================================================================
