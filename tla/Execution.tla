----------------------------- MODULE Execution -----------------------------
(***************************************************************************)
(* The execution of one query: executionState.do and its wait goroutine    *)
(* (query/execute/executor.go), the sources (source.go), the worker pool   *)
(* (dispatcher.go), the result sinks (result.go) and the handler that      *)
(* reads them (cmd/ifqld/main.go).                                         *)
(*                                                                         *)
(* createNode builds a separate chain for every result: a source, then     *)
(* Depth transformations, each behind a transport, then the sink.  Only    *)
(* the pool is shared.  A transport is what module Transport shows it to   *)
(* be: a queue that at most one worker serves, with at most one entry in   *)
(* d.work.  A transformation hands every block on.                         *)
(***************************************************************************)
EXTENDS Integers, Sequences, FiniteSets

CONSTANTS
    Result,    \* names of results
    Worker,    \* goroutines of the pool
    NoJob,
    Settings   \* the queries and capacities to consider, one of which Init chooses

\* A setting: the results of the query, transformations per result, blocks each
\* source reads, the capacity of resultSink.blocks and of d.work, and what may go
\* wrong ("error", "panic", "source panic", "read error", "cancel", "write error").
ASSUME SettingsAssumption ==
    /\ IsFiniteSet(Result)
    /\ \A s \in Settings : /\ s.results \subseteq Result
                           /\ {s.depth, s.sinkCap, s.workCap} \subseteq Nat \ {0}
                           /\ s.blocks \in Nat

VARIABLES
    setting,
    unread,    \* blocks a source has still to send; -1: it has finished
    pending,   \* data messages in a transport's queue
    fin,       \* its finish message: "none", "ok" or "error"
    sched,     \* "idle", "waiting" (for room in d.work), "queued" (in d.work),
               \* "running" or "finished"
    entering,  \* pairs of a worker or a source and the transport it is scheduling
    wpc,       \* worker: "select", "run", "yield", "reschedule", "recover" or "done"
    job,       \* the transport a worker is running
    derr,      \* d.err: "nil" or "error"
    errC,      \* errors in the channel d.errC
    closing,   \* d.closing closed: "no" or "yes"
    ctx,       \* the query's context: "live" or "done"
    left,      \* transports the wait goroutine has still to wait for
    gpc,       \* wait goroutine: "wait", "stopping" (in Stop, holding d.mu) or "done"
    blocks,    \* a sink's channel: a sequence of "block" and "error"
    eof,       \* sinks whose channel is closed
    abortErr,  \* sinks with an error in abortErr
    aborted,   \* sinks whose channel aborted is closed
    reading,   \* per result: "no", "yes", then "ok" or "error"
    got        \* blocks the handler has received

queueVars == <<pending, fin, sched, entering>>
poolVars  == <<wpc, job>>
errVars   == <<derr, errC>>
waitVars  == <<left, gpc, closing>>
sinkVars  == <<blocks, eof>>
abortVars == <<abortErr, aborted>>
readVars  == <<reading, got>>
vars == <<setting, unread, queueVars, poolVars, errVars, ctx, waitVars, sinkVars, abortVars,
          readVars>>

Results == setting.results
Depth   == setting.depth
Blocks  == setting.blocks
Faults  == setting.faults

T == Results \X (1..Depth)

\* es.transports: the chains in the order of a map iteration, each from its source on.
Orders ==
    LET n == Cardinality(Results) IN
    {[i \in 1..(n * Depth) |-> <<p[((i - 1) \div Depth) + 1], ((i - 1) % Depth) + 1>>] :
        p \in {f \in [1..n -> Results] : \A i, j \in 1..n : f[i] = f[j] => i = j}}

Init ==
    /\ setting \in Settings
    /\ unread = [r \in Results |-> Blocks]
    /\ pending = [t \in T |-> 0]
    /\ fin = [t \in T |-> "none"]
    /\ sched = [t \in T |-> "idle"]
    /\ entering = {}
    /\ wpc = [w \in Worker |-> "select"]
    /\ job = [w \in Worker |-> NoJob]
    /\ derr = "nil"
    /\ errC = 0
    /\ closing = "no"
    /\ ctx = "live"
    /\ left \in Orders
    /\ gpc = "wait"
    /\ blocks = [r \in Results |-> <<>>]
    /\ eof = {}
    /\ abortErr = {}
    /\ aborted = {}
    /\ reading = [r \in Results |-> "no"]
    /\ got = [r \in Results |-> 0]

-----------------------------------------------------------------------------
(* Pushing to a transport, and aborting the sinks.                         *)

\* Once d.closing is closed Schedule may drop an entry instead of sending it; the
\* workers are then leaving and an entry nobody takes is the same.
Room ==
    closing = "yes" \/ Cardinality({t \in T : sched[t] = "queued"}) < setting.workCap

\* schedule() of a transport after a push: if it is idle it goes to d.work, for which
\* the caller waits while the channel is full.
Woken(t) == IF sched[t] # "idle" THEN sched[t] ELSE IF Room THEN "queued" ELSE "waiting"

Scheduling(t, caller) ==
    entering' = IF Woken(t) = "waiting" /\ sched[t] = "idle"
                THEN entering \cup {<<caller, t>>} ELSE entering

Waits(caller) == \E e \in entering : e[1] = caller

\* The send on d.work of a caller that had to wait.
Enter(caller) ==
    \E e \in entering :
        /\ e[1] = caller
        /\ Room
        /\ sched' = [sched EXCEPT ![e[2]] = "queued"]
        /\ entering' = entering \ {e}
        /\ UNCHANGED <<unread, pending, fin, poolVars, errVars, ctx, waitVars, sinkVars,
                       abortVars, readVars>>

\* es.abort: every sink that is not aborted yet gets the error.
Abort ==
    /\ abortErr' = abortErr \cup (Results \ aborted)
    /\ aborted' = Results

-----------------------------------------------------------------------------
(* Sources: Run.                                                           *)

\* The end of Run: t.Finish, which a finished transport ignores.
SourceFinish(r, err) ==
    LET t == <<r, 1>> IN
    /\ unread' = [unread EXCEPT ![r] = -1]
    /\ IF sched[t] = "finished" THEN UNCHANGED <<fin, sched, entering>>
       ELSE /\ fin' = [fin EXCEPT ![t] = err]
            /\ sched' = [sched EXCEPT ![t] = Woken(t)]
            /\ Scheduling(t, r)
    /\ UNCHANGED pending

\* A block for the first transport; if that has finished, Process returns an error
\* and so does run.
SourceBlock(r) ==
    LET t == <<r, 1>> IN
    /\ ~ Waits(r)
    /\ unread[r] > 0
    /\ IF sched[t] = "finished" THEN SourceFinish(r, "error")
       ELSE /\ unread' = [unread EXCEPT ![r] = @ - 1]
            /\ pending' = [pending EXCEPT ![t] = @ + 1]
            /\ sched' = [sched EXCEPT ![t] = Woken(t)]
            /\ Scheduling(t, r)
            /\ UNCHANGED fin
    /\ UNCHANGED <<poolVars, errVars, ctx, waitVars, sinkVars, abortVars, readVars>>

SourceEnd(r) ==
    /\ ~ Waits(r)
    /\ unread[r] = 0
    /\ SourceFinish(r, "ok")
    /\ UNCHANGED <<poolVars, errVars, ctx, waitVars, sinkVars, abortVars, readVars>>

\* Next logs a failed read and reports the end of the data.
SourceReadError(r) ==
    /\ "read error" \in Faults
    /\ ~ Waits(r)
    /\ unread[r] > 0
    /\ SourceFinish(r, "ok")
    /\ UNCHANGED <<poolVars, errVars, ctx, waitVars, sinkVars, abortVars, readVars>>

\* The recover of do: abort, and nobody calls Finish.
SourcePanic(r) ==
    /\ "source panic" \in Faults
    /\ ~ Waits(r)
    /\ unread[r] >= 0
    /\ unread' = [unread EXCEPT ![r] = -1]
    /\ Abort
    /\ UNCHANGED <<queueVars, poolVars, errVars, ctx, waitVars, sinkVars, readVars>>

-----------------------------------------------------------------------------
(* Workers: run and processMessages.                                       *)

Release(w) ==
    /\ wpc' = [wpc EXCEPT ![w] = "select"]
    /\ job' = [job EXCEPT ![w] = NoJob]

Take(w, t) ==
    /\ wpc[w] = "select" /\ ~ Waits(w)
    /\ sched[t] = "queued"
    /\ sched' = [sched EXCEPT ![t] = "running"]
    /\ wpc' = [wpc EXCEPT ![w] = "run"]
    /\ job' = [job EXCEPT ![w] = t]
    /\ UNCHANGED <<unread, pending, fin, entering, errVars, ctx, waitVars, sinkVars, abortVars,
                   readVars>>

\* ctx.Done() or d.closing.
Exit(w) ==
    /\ wpc[w] = "select" /\ ~ Waits(w)
    /\ ctx = "done" \/ closing = "yes"
    /\ wpc' = [wpc EXCEPT ![w] = "done"]
    /\ UNCHANGED <<unread, queueVars, job, errVars, ctx, waitVars, sinkVars, abortVars, readVars>>

\* A block has been handed on: the worker goes on with its transport, or has reached
\* its throughput, makes the transport idle and schedules it again.
Again(w, pc) == wpc' = [wpc EXCEPT ![w] = pc] /\ UNCHANGED job

Yield(w) ==
    /\ wpc[w] = "yield" /\ ~ Waits(w)
    /\ sched' = [sched EXCEPT ![job[w]] = "idle"]
    /\ Again(w, "reschedule")
    /\ UNCHANGED <<unread, pending, fin, entering, errVars, ctx, waitVars, sinkVars, abortVars,
                   readVars>>

Reschedule(w) ==
    /\ wpc[w] = "reschedule"
    /\ sched' = [sched EXCEPT ![job[w]] = Woken(job[w])]
    /\ Scheduling(job[w], w)
    /\ Release(w)
    /\ UNCHANGED <<unread, pending, fin, errVars, ctx, waitVars, sinkVars, abortVars, readVars>>

\* A block for the next transport of the chain.
HandOn(w, pc) ==
    LET t == job[w] d == <<t[1], t[2] + 1>> IN
    /\ wpc[w] = "run" /\ ~ Waits(w)
    /\ t[2] < Depth
    /\ pending[t] > 0
    /\ sched[d] # "finished"
    /\ pending' = [pending EXCEPT ![t] = @ - 1, ![d] = @ + 1]
    /\ sched' = [sched EXCEPT ![d] = Woken(d)]
    /\ Scheduling(d, w)
    /\ Again(w, pc)
    /\ UNCHANGED <<unread, fin, errVars, ctx, waitVars, sinkVars, abortVars, readVars>>

\* Variant of Emit that sends without a look at aborted.
EmitBlocking(w, pc) ==
    LET t == job[w] r == t[1] IN
    /\ wpc[w] = "run" /\ ~ Waits(w)
    /\ t[2] = Depth
    /\ pending[t] > 0
    /\ Len(blocks[r]) < setting.sinkCap
    /\ blocks' = [blocks EXCEPT ![r] = Append(@, "block")]
    /\ pending' = [pending EXCEPT ![t] = @ - 1]
    /\ Again(w, pc)
    /\ UNCHANGED <<unread, fin, sched, entering, errVars, ctx, waitVars, eof, abortVars, readVars>>

\* A block for the sink: its Process waits for room, or drops the block once
\* the sink is aborted.
Emit(w, pc) ==
    LET t == job[w] r == t[1] IN
    /\ wpc[w] = "run" /\ ~ Waits(w)
    /\ t[2] = Depth
    /\ pending[t] > 0
    /\ \/ Len(blocks[r]) < setting.sinkCap /\ blocks' = [blocks EXCEPT ![r] = Append(@, "block")]
       \/ r \in aborted /\ UNCHANGED blocks
    /\ pending' = [pending EXCEPT ![t] = @ - 1]
    /\ Again(w, pc)
    /\ UNCHANGED <<unread, fin, sched, entering, errVars, ctx, waitVars, eof, abortVars, readVars>>

\* Variant of SinkFinish that does not pass the error on.
SinkFinishSilent(r, err) ==
    /\ eof' = eof \cup {r}
    /\ UNCHANGED blocks

\* The sink's Finish: an error goes in front of the end.
SinkFinish(r, err) ==
    /\ \/ err = "ok" /\ UNCHANGED blocks
       \/ err = "error" /\ Len(blocks[r]) < setting.sinkCap
                        /\ blocks' = [blocks EXCEPT ![r] = Append(@, "error")]
       \/ err = "error" /\ r \in aborted /\ UNCHANGED blocks
    /\ eof' = eof \cup {r}

\* Variant of FinishJob that leaves the transport idle instead of finished.
FinishJobIdle(w, err) ==
    LET t == job[w] d == <<t[1], t[2] + 1>> IN
    /\ IF t[2] = Depth
         THEN /\ SinkFinish(t[1], err)
              /\ sched' = [sched EXCEPT ![t] = "idle"]
              /\ UNCHANGED <<fin, entering>>
         ELSE /\ sched' = [sched EXCEPT ![t] = "idle", ![d] = Woken(d)]
              /\ Scheduling(d, w)
              /\ fin' = IF sched[d] = "finished" THEN fin ELSE [fin EXCEPT ![d] = err]
              /\ UNCHANGED sinkVars
    /\ Release(w)
    /\ UNCHANGED <<unread, pending, errVars, ctx, waitVars, abortVars, readVars>>

\* Transport t finishes: its transformation's Finish reaches the next transport, which
\* ignores it when it has finished itself, or the sink.
FinishJob(w, err) ==
    LET t == job[w] d == <<t[1], t[2] + 1>> IN
    /\ IF t[2] = Depth
         THEN /\ SinkFinish(t[1], err)
              /\ sched' = [sched EXCEPT ![t] = "finished"]
              /\ UNCHANGED <<fin, entering>>
         ELSE /\ sched' = [sched EXCEPT ![t] = "finished", ![d] = Woken(d)]
              /\ Scheduling(d, w)
              /\ fin' = IF sched[d] = "finished" THEN fin ELSE [fin EXCEPT ![d] = err]
              /\ UNCHANGED sinkVars
    /\ Release(w)
    /\ UNCHANGED <<unread, pending, errVars, ctx, waitVars, abortVars, readVars>>

\* The finish message comes last.
ProcessFinish(w) ==
    /\ wpc[w] = "run" /\ ~ Waits(w)
    /\ pending[job[w]] = 0
    /\ fin[job[w]] # "none"
    /\ FinishJob(w, fin[job[w]])

\* Processing a block fails in the transformation ...
ProcessError(w) ==
    /\ "error" \in Faults
    /\ wpc[w] = "run" /\ ~ Waits(w)
    /\ pending[job[w]] > 0
    /\ FinishJob(w, "error")

\* ... or because the next transport has finished and refuses the block.
ProcessRefused(w) ==
    LET t == job[w] IN
    /\ wpc[w] = "run" /\ ~ Waits(w)
    /\ pending[t] > 0
    /\ t[2] < Depth
    /\ sched[<<t[1], t[2] + 1>>] = "finished"
    /\ FinishJob(w, "error")

\* The queue is empty.
Rest(w) ==
    LET t == job[w] IN
    /\ wpc[w] = "run" /\ ~ Waits(w)
    /\ pending[t] = 0
    /\ fin[t] = "none"
    /\ sched' = [sched EXCEPT ![t] = "idle"]
    /\ Release(w)
    /\ UNCHANGED <<unread, pending, fin, entering, errVars, ctx, waitVars, sinkVars, abortVars,
                   readVars>>

\* The transformation panics; the transport stays in state running.
Panic(w) ==
    /\ "panic" \in Faults
    /\ wpc[w] = "run" /\ ~ Waits(w)
    /\ pending[job[w]] > 0 \/ fin[job[w]] # "none"
    /\ wpc' = [wpc EXCEPT ![w] = "recover"]
    /\ UNCHANGED <<unread, queueVars, job, errVars, ctx, waitVars, sinkVars, abortVars, readVars>>

\* The deferred recover and wg.Done: setErr keeps the first error only.
Recover(w) ==
    /\ wpc[w] = "recover"
    /\ gpc # "stopping"
    /\ derr' = "error"
    /\ errC' = IF derr = "nil" THEN errC + 1 ELSE errC
    /\ wpc' = [wpc EXCEPT ![w] = "done"]
    /\ UNCHANGED <<unread, queueVars, job, ctx, waitVars, sinkVars, abortVars, readVars>>

-----------------------------------------------------------------------------
(* The wait goroutine of do.                                               *)

WaitFinished ==
    /\ gpc = "wait"
    /\ left # <<>>
    /\ sched[Head(left)] = "finished"
    /\ left' = Tail(left)
    /\ UNCHANGED <<unread, queueVars, poolVars, errVars, ctx, gpc, closing, sinkVars, abortVars,
                   readVars>>

\* Variant of WaitContext that does not abort the sinks.
WaitContextSilent ==
    /\ gpc = "wait"
    /\ left # <<>>
    /\ ctx = "done"
    /\ left' = Tail(left)
    /\ UNCHANGED <<unread, queueVars, poolVars, errVars, ctx, gpc, closing, sinkVars, abortVars,
                   readVars>>

WaitContext ==
    /\ gpc = "wait"
    /\ left # <<>>
    /\ ctx = "done"
    /\ left' = Tail(left)
    /\ Abort
    /\ UNCHANGED <<unread, queueVars, poolVars, errVars, ctx, gpc, closing, sinkVars, readVars>>

\* Variant of WaitErr that ignores the error.
WaitErrSilent ==
    /\ gpc = "wait"
    /\ left # <<>>
    /\ errC > 0
    /\ errC' = errC - 1
    /\ left' = Tail(left)
    /\ UNCHANGED <<unread, queueVars, poolVars, derr, ctx, gpc, closing, sinkVars, abortVars,
                   readVars>>

\* The error takes the place of one transport.
WaitErr ==
    /\ gpc = "wait"
    /\ left # <<>>
    /\ errC > 0
    /\ errC' = errC - 1
    /\ left' = Tail(left)
    /\ Abort
    /\ UNCHANGED <<unread, queueVars, poolVars, derr, ctx, gpc, closing, sinkVars, readVars>>

\* Stop takes d.mu, closes d.closing and waits for the workers ...
Stop ==
    /\ gpc = "wait"
    /\ left = <<>>
    /\ gpc' = "stopping"
    /\ closing' = "yes"
    /\ UNCHANGED <<unread, queueVars, poolVars, errVars, ctx, left, sinkVars, abortVars, readVars>>

\* ... and its error, if any, aborts the results.
Stopped ==
    /\ gpc = "stopping"
    /\ \A w \in Worker : wpc[w] = "done"
    /\ gpc' = "done"
    /\ IF derr = "error" THEN Abort ELSE UNCHANGED abortVars
    /\ UNCHANGED <<unread, queueVars, poolVars, errVars, ctx, left, closing, sinkVars, readVars>>

-----------------------------------------------------------------------------
(* The handler: reads one result after the other, in map order, with       *)
(* resultSink.Do, and returns.                                             *)

Open(r) ==
    /\ reading[r] = "no"
    /\ \A q \in Results : reading[q] # "yes"
    /\ reading' = [reading EXCEPT ![r] = "yes"]
    /\ UNCHANGED <<unread, queueVars, poolVars, errVars, ctx, waitVars, sinkVars, abortVars, got>>

ReadAbort(r) ==
    /\ reading[r] = "yes"
    /\ r \in abortErr
    /\ abortErr' = abortErr \ {r}
    /\ reading' = [reading EXCEPT ![r] = "error"]
    /\ UNCHANGED <<unread, queueVars, poolVars, errVars, ctx, waitVars, sinkVars, aborted, got>>

ReadMessage(r) ==
    /\ reading[r] = "yes"
    /\ blocks[r] # <<>>
    /\ blocks' = [blocks EXCEPT ![r] = Tail(@)]
    /\ IF Head(blocks[r]) = "error"
         THEN reading' = [reading EXCEPT ![r] = "error"] /\ UNCHANGED got
         ELSE got' = [got EXCEPT ![r] = @ + 1] /\ UNCHANGED reading
    /\ UNCHANGED <<unread, queueVars, poolVars, errVars, ctx, waitVars, eof, abortVars>>

\* The callback fails, for instance because the client has gone away.
WriteError(r) ==
    /\ "write error" \in Faults
    /\ reading[r] = "yes"
    /\ blocks[r] # <<>>
    /\ Head(blocks[r]) = "block"
    /\ blocks' = [blocks EXCEPT ![r] = Tail(@)]
    /\ reading' = [reading EXCEPT ![r] = "error"]
    /\ UNCHANGED <<unread, queueVars, poolVars, errVars, ctx, waitVars, eof, abortVars, got>>

ReadEnd(r) ==
    /\ reading[r] = "yes"
    /\ blocks[r] = <<>>
    /\ r \in eof
    /\ reading' = [reading EXCEPT ![r] = "ok"]
    /\ UNCHANGED <<unread, queueVars, poolVars, errVars, ctx, waitVars, sinkVars, abortVars, got>>

\* The request's context ends with the handler, or before.
Return ==
    /\ ctx = "live"
    /\ \A r \in Results : reading[r] \in {"ok", "error"}
    /\ ctx' = "done"
    /\ UNCHANGED <<setting, unread, queueVars, poolVars, errVars, waitVars, sinkVars, abortVars,
                   readVars>>

CancelContext ==
    /\ "cancel" \in Faults
    /\ ctx = "live"
    /\ ctx' = "done"
    /\ UNCHANGED <<unread, queueVars, poolVars, errVars, waitVars, sinkVars, abortVars, readVars>>

-----------------------------------------------------------------------------

Source(r) ==
    r \in Results /\ (SourceBlock(r) \/ SourceEnd(r) \/ Enter(r)) /\ UNCHANGED setting

Work(w) ==
    /\ \/ \E t \in T : Take(w, t)
       \/ Exit(w) \/ ProcessFinish(w) \/ ProcessRefused(w) \/ Rest(w) \/ Recover(w)
       \/ \E pc \in {"run", "yield"} : HandOn(w, pc) \/ Emit(w, pc)
       \/ Yield(w) \/ Reschedule(w) \/ Enter(w)
    /\ UNCHANGED setting

Wait == (WaitFinished \/ WaitContext \/ WaitErr \/ Stop \/ Stopped) /\ UNCHANGED setting

Read(r) ==
    r \in Results /\ (Open(r) \/ ReadAbort(r) \/ ReadMessage(r) \/ ReadEnd(r)) /\ UNCHANGED setting

Fault ==
    /\ \/ \E r \in Results : SourceReadError(r) \/ SourcePanic(r) \/ WriteError(r)
       \/ \E w \in Worker : ProcessError(w) \/ Panic(w)
       \/ CancelContext
    /\ UNCHANGED setting

Next ==
    \/ \E r \in Result : Source(r) \/ Read(r)
    \/ \E w \in Worker : Work(w)
    \/ Wait
    \/ Return
    \/ Fault

Spec == Init /\ [][Next]_vars

\* Goroutines are scheduled, and the handler reads on and returns.  No fault has
\* to happen.
Fairness ==
    /\ \A r \in Result : WF_vars(Source(r)) /\ WF_vars(Read(r))
    /\ \A w \in Worker : WF_vars(Work(w))
    /\ WF_vars(Wait)
    /\ WF_vars(Return)

FairSpec == Spec /\ Fairness

-----------------------------------------------------------------------------
(* Properties.                                                             *)

\* The variables have their types and a worker has a job exactly while it runs one
\* or has died of it.
TypeOK ==
    /\ unread \in [Results -> -1..Blocks]
    /\ pending \in [T -> 0..Blocks]
    /\ fin \in [T -> {"none", "ok", "error"}]
    /\ sched \in [T -> {"idle", "waiting", "queued", "running", "finished"}]
    /\ entering \subseteq (Worker \cup Results) \X {t \in T : sched[t] = "waiting"}
    /\ wpc \in [Worker -> {"select", "run", "yield", "reschedule", "recover", "done"}]
    /\ job \in [Worker -> T \cup {NoJob}]
    /\ \A w \in Worker : wpc[w] \in {"run", "yield", "reschedule", "recover"} => job[w] \in T
    /\ derr \in {"nil", "error"}
    /\ errC \in 0..1
    /\ closing \in {"no", "yes"}
    /\ ctx \in {"live", "done"}
    /\ left \in Seq(T)
    /\ gpc \in {"wait", "stopping", "done"}
    /\ \A r \in Results : blocks[r] \in Seq({"block", "error"}) /\ Len(blocks[r]) <= setting.sinkCap
    /\ eof \subseteq Results
    /\ abortErr \subseteq aborted
    /\ aborted \subseteq Results
    /\ reading \in [Results -> {"no", "yes", "ok", "error"}]
    /\ got \in [Results -> 0..Blocks]

\* A result that the handler reads to its end without an error is complete, whatever
\* a transformation, a source or the client does on the way, unless it was aborted
\* or a read from storage failed.
CompleteUnlessAborted ==
    "read error" \in Faults \/ \A r \in Results : reading[r] = "ok" /\ r \notin aborted => got[r] = Blocks

\* "We had a panic, abort the entire execution", and "complete and correct results":
\* the same for every result, aborted ones included.
CompleteResults == \A r \in Results : reading[r] = "ok" => got[r] = Blocks

\* close(s.blocks) happens once and no block is sent after it, either of which
\* would panic: no worker runs the last transformation of a result that has ended.
SinkOpen ==
    \A w \in Worker : wpc[w] = "run" /\ job[w][2] = Depth => job[w][1] \notin eof

\* A worker's panic is not swallowed: every sink hears of it, even if the pool
\* never stops and whatever the wait goroutine was doing.
PanicReported == derr = "error" ~> aborted = Results

\* The handler is not left hanging: every result ends, although a worker that pushes
\* to a transport waits for room in d.work and it is the workers that make room.
ReaderEnds == \A r \in Result : <>(r \in Results => reading[r] \in {"ok", "error"})

\* "Stop the dispatcher": the pool is shut down in the end and no goroutine of the
\* execution outlives it, unless a transformation panics (a worker that panics
\* while Stop is waiting needs the mutex d.mu, which Stop holds).
PoolStops ==
    \/ <>(\E w \in Worker : wpc[w] = "recover")
    \/ <>(gpc = "done" /\ \A w \in Worker : wpc[w] = "done")
=============================================================================
