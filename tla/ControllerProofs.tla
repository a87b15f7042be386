-------------------------- MODULE ControllerProofs --------------------------
(***************************************************************************)
(* The controller of query/control/controller.go, for any number of        *)
(* queries, any quotas and any plans.  First what holds whatever clients   *)
(* do; then, for clients that wait for their answer as HandleQuery and     *)
(* doQuery do and planners that succeed, the life cycle of a query: every  *)
(* query is in one of seven phases, and every step takes it from one to    *)
(* the next.                                                               *)
(***************************************************************************)
EXTENDS Controller, TLAPS

USE SMTT(30), ZenonT(30)

-----------------------------------------------------------------------------
(* Any client.                                                             *)

\* Where a client is before run has received its query.
Early == {"new", "compiling", "submitting", "rejected"}

\* The states of a query that has been executed or given up.
Late == {"Executing", "Errored", "Finished", "Canceled"}

\* Nobody but its client knows a query that run has not received.
Untouched ==
    \A q \in Query : cpc[q] \in Early =>
        /\ state[q] \in {"Created", "Compiling", "Queueing"}
        /\ cpc[q] = "submitting" => state[q] = "Queueing"
        /\ q # top /\ q \notin rest /\ q # lq
        /\ \A f \in Finisher : fpc[f][q] = "idle"

\* A query has results only once it has been executed, and it is executed once.
ExecutedOnce ==
    /\ \A q \in Query : ready[q] > 0 => state[q] \in Late
    /\ lpc \in {"execute", "setResults"} => ready[lq] = 0 /\ state[lq] \in Late

AnyInv == TypeOK /\ Untouched /\ ExecutedOnce /\ ErrIffErrored /\ NotOverdrawn

-----------------------------------------------------------------------------
(* Type correctness, action by action.                                     *)

\* A new controller, before any query.
LEMMA InitAny == Init => AnyInv
BY QueryAssumption, QuotaAssumption
   DEF Init, AnyInv, TypeOK, Untouched, ExecutedOnce, ErrIffErrored, NotOverdrawn, State,
       Finisher, Gauge, Early, Late

\* Inc and Dec leave every gauge a number.
LEMMA GaugesTyped ==
    ASSUME TypeOK, NEW s, NEW t, MoveGauge(s, t)
    PROVE  gauge' \in [Gauge -> Int]
BY DEF TypeOK, MoveGauge

\* What Done does, by the state it finds.
LEMMA DoneCases ==
    ASSUME NEW q \in Query, Done(q), TypeOK
    PROVE  /\ fpc["Done"][q] = "called" /\ mu[q] = "free"
           /\ UNCHANGED <<ready, closed, err, plan, conc, mem, prio, lpc, lq, top, rest,
                          availableConcurrency, availableMemory, queries, cpc, crashed>>
           /\ \/ /\ state[q] \in {"Queueing", "Planning", "Requeueing"}
                 /\ LockForFinish("Done", q) /\ MoveGauge(state[q], "") /\ UNCHANGED state
              \/ /\ state[q] = "Executing"
                 /\ LockForFinish("Done", q) /\ MoveGauge("Executing", "")
                 /\ SetState(q, "Finished")
              \/ /\ state[q] \in {"Errored", "Canceled"}
                 /\ GotoF("Done", q, "returned") /\ UNCHANGED <<mu, gauge, state>>
              \/ /\ state[q] \in {"Created", "Compiling", "Finished"}
                 /\ GotoF("Done", q, "panicked") /\ UNCHANGED <<mu, gauge, state>>
<1>1. UNCHANGED <<ready, closed, err, plan, conc, mem, prio, lpc, lq, top, rest,
                  availableConcurrency, availableMemory, queries, cpc, crashed>>
  BY ZenonT(30) DEF Done, planVars, heapVars, quotaVars
<1>2. state[q] \in State
  BY DEF TypeOK
<1>3. QED
  BY ZenonT(30), <1>1, <1>2 DEF Done, State

\* Every step keeps the types.
LEMMA TypeStep == AnyInv /\ Next => TypeOK'
<1> SUFFICES ASSUME AnyInv, Next PROVE TypeOK'
  OBVIOUS
<1> USE DEF fieldVars, planVars, heapVars, quotaVars
<1>1. TypeOK /\ ExecutedOnce
  BY DEF AnyInv
<1>2. ASSUME NEW q \in Query, Compile(q) PROVE TypeOK'
  BY ZenonT(30), <1>1, <1>2, GaugesTyped, QueryAssumption DEF Compile, TypeOK, SetState, State
<1>3. ASSUME NEW q \in Query, CompileFails(q) PROVE TypeOK'
  BY <1>1, <1>3, QueryAssumption DEF CompileFails, TypeOK
<1>4. ASSUME NEW q \in Query, ValidateFails(q) PROVE TypeOK'
  BY <1>1, <1>4, QueryAssumption DEF ValidateFails, TypeOK
<1>5. ASSUME NEW q \in Query, ReceiveResults(q) PROVE TypeOK'
  BY <1>1, <1>5, QueryAssumption DEF ReceiveResults, TypeOK
<1>6. ASSUME NEW q \in Query, ReceiveClosed(q) PROVE TypeOK'
  BY <1>1, <1>6, QueryAssumption DEF ReceiveClosed, TypeOK
<1>7. ASSUME NEW q \in Query, CallDone(q) PROVE TypeOK'
  BY ZenonT(30), <1>1, <1>7, QueryAssumption DEF CallDone, TypeOK, Call, Finisher
<1>8. ASSUME NEW q \in Query, CallCancel(q) PROVE TypeOK'
  BY <1>1, <1>8, QueryAssumption DEF CallCancel, TypeOK, Call, Finisher
<1>9. ASSUME NEW q \in Query, Done(q) PROVE TypeOK'
  <2>1. UNCHANGED <<ready, closed, err, plan, conc, mem, prio, lpc, lq, top, rest,
                    availableConcurrency, availableMemory, queries, cpc, crashed>>
    BY ZenonT(30), <1>1, <1>9, DoneCases
  <2>2. /\ state' \in [Query -> State]
        /\ mu' \in [Query -> Finisher \cup {"free"}]
        /\ gauge' \in [Gauge -> Int]
        /\ fpc' \in [Finisher -> [Query -> {"idle", "called", "send", "close", "returned",
                                            "panicked"}]]
    <3>1. CASE LockForFinish("Done", q) /\ MoveGauge(state[q], "") /\ UNCHANGED state
      BY ZenonT(30), <1>1, <3>1, GaugesTyped DEF TypeOK, LockForFinish, GotoF, Finisher
    <3>2. CASE LockForFinish("Done", q) /\ MoveGauge("Executing", "") /\ SetState(q, "Finished")
      BY ZenonT(30), <1>1, <3>2, GaugesTyped DEF TypeOK, LockForFinish, GotoF, Finisher, SetState, State
    <3>3. CASE GotoF("Done", q, "returned") /\ UNCHANGED <<mu, gauge, state>>
      BY <1>1, <3>3 DEF TypeOK, GotoF, Finisher
    <3>4. CASE GotoF("Done", q, "panicked") /\ UNCHANGED <<mu, gauge, state>>
      BY <1>1, <3>4 DEF TypeOK, GotoF, Finisher
    <3>5. QED
      BY ZenonT(30), <1>1, <1>9, <3>1, <3>2, <3>3, <3>4, DoneCases
  <2>3. QED
    BY <1>1, <2>1, <2>2 DEF TypeOK
<1>10. ASSUME NEW q \in Query, Cancel(q) PROVE TypeOK'
  BY <1>1, <1>10, QueryAssumption
     DEF Cancel, TypeOK, SetState, State, LockForFinish, GotoF, Finisher
<1>11. ASSUME NEW q \in Query, SetErr(q) PROVE TypeOK'
  BY <1>1, <1>11, QueryAssumption
     DEF SetErr, TypeOK, SetState, State, LockForFinish, GotoF, Finisher
<1>12. ASSUME NEW q \in Query, ReceiveNew(q) PROVE TypeOK'
  BY <1>1, <1>12, QueryAssumption DEF ReceiveNew, TypeOK, HeapPush
<1>13. ASSUME NEW q \in Query, NEW p \in Priority, Enqueue(q, p) PROVE TypeOK'
  BY <1>1, <1>13, GaugesTyped, PriorityAssumption DEF Enqueue, TypeOK, SetState, State
<1>14. ASSUME NEW q \in Query, NEW f \in Finisher, Close(f, q) PROVE TypeOK'
  BY <1>1, <1>14 DEF Close, TypeOK, GotoF, Finisher
<1>15. ASSUME NEW q \in Query, NEW f \in Finisher, ReceiveDone(f, q) PROVE TypeOK'
  BY <1>1, <1>15 DEF ReceiveDone, TypeOK, GotoF, Free, Limited
<1>16. ASSUME NEW c \in Concurrency, NEW m \in Memory, Plan(c, m) PROVE TypeOK'
  BY <1>1, <1>16, QueryAssumption, QuotaAssumption, PlanAssumption DEF Plan, TypeOK
<1>17. CASE PeekEmpty
  BY <1>1, <1>17, QueryAssumption DEF PeekEmpty, TypeOK
<1>18. CASE Peek
  BY <1>1, <1>18, QueryAssumption DEF Peek, TypeOK, HeapPop
<1>19. CASE TryPlan
  BY <1>1, <1>19, GaugesTyped, QueryAssumption DEF TryPlan, TypeOK, SetState, State
<1>20. CASE PlanFails
  BY <1>1, <1>20, QueryAssumption DEF PlanFails, TypeOK, ReportError, Call, Finisher
<1>21. CASE Admit
  BY <1>1, <1>21, QueryAssumption DEF Admit, TypeOK, Consume, Limited
<1>22. CASE Refuse
  BY <1>1, <1>22, QueryAssumption DEF Refuse, TypeOK
<1>23. CASE TryRequeue
  BY <1>1, <1>23, GaugesTyped, QueryAssumption DEF TryRequeue, TypeOK, SetState, State
<1>24. CASE Pop
  BY <1>1, <1>24, QueryAssumption DEF Pop, TypeOK, HeapPop
<1>25. CASE TryExec
  BY <1>1, <1>25, GaugesTyped, QueryAssumption DEF TryExec, TypeOK, SetState, State
<1>26. CASE Execute
  BY <1>1, <1>26, QueryAssumption DEF Execute, TypeOK
<1>27. CASE ExecuteFails
  BY <1>1, <1>27, QueryAssumption DEF ExecuteFails, TypeOK, ReportError, Call, Finisher
<1>28. CASE SetResults
  BY <1>1, <1>28, QueryAssumption DEF SetResults, TypeOK, ExecutedOnce
<1>29. QED
  BY <1>2, <1>3, <1>4, <1>5, <1>6, <1>7, <1>8, <1>9, <1>10, <1>11, <1>12, <1>13, <1>14, <1>15, <1>16, <1>17, <1>18, <1>19, <1>20, <1>21, <1>22, <1>23, <1>24, <1>25, <1>26, <1>27, <1>28
     DEF Next, Client, Finish, Receive, Process

\* ... and the other parts of the invariant.
LEMMA RestStep ==
    AnyInv /\ Next => (Untouched /\ ExecutedOnce /\ ErrIffErrored /\ NotOverdrawn)'
<1> DEFINE Rest == Untouched /\ ExecutedOnce /\ ErrIffErrored /\ NotOverdrawn
<1> SUFFICES ASSUME AnyInv, Next PROVE Rest'
  OBVIOUS
<1> USE DEF fieldVars, planVars, heapVars, quotaVars
<1>1. TypeOK /\ Rest
  BY DEF AnyInv
<1>2. ASSUME NEW q \in Query, Compile(q) PROVE Rest'
  BY ZenonT(30), <1>1, <1>2
     DEF Compile, TypeOK, Untouched, ExecutedOnce, ErrIffErrored, NotOverdrawn, Early, Late,
         SetState
<1>3. ASSUME NEW q \in Query, CompileFails(q) PROVE Rest'
  BY <1>1, <1>3
     DEF CompileFails, TypeOK, Untouched, ExecutedOnce, ErrIffErrored, NotOverdrawn, Early,
         Late
<1>4. ASSUME NEW q \in Query, ValidateFails(q) PROVE Rest'
  BY <1>1, <1>4
     DEF ValidateFails, TypeOK, Untouched, ExecutedOnce, ErrIffErrored, NotOverdrawn, Early,
         Late
<1>5. ASSUME NEW q \in Query, ReceiveResults(q) PROVE Rest'
  BY <1>1, <1>5
     DEF ReceiveResults, TypeOK, Untouched, ExecutedOnce, ErrIffErrored, NotOverdrawn,
         Early, Late
<1>6. ASSUME NEW q \in Query, ReceiveClosed(q) PROVE Rest'
  BY <1>1, <1>6
     DEF ReceiveClosed, TypeOK, Untouched, ExecutedOnce, ErrIffErrored, NotOverdrawn, Early,
         Late
<1>7. ASSUME NEW q \in Query, CallDone(q) PROVE Rest'
  <2>1. cpc[q] \notin Early /\ cpc' = [cpc EXCEPT ![q] = "gone"]
    BY ZenonT(30), <1>1, <1>7 DEF CallDone, Early
  <2>2. \A g \in Finisher, r \in Query : r # q => fpc'[g][r] = fpc[g][r]
    BY ZenonT(30), <1>1, <1>7 DEF CallDone, Call, TypeOK, Finisher
  <2>3. UNCHANGED <<state, ready, err, lpc, lq, top, rest, availableConcurrency, availableMemory>>
    BY ZenonT(30), <1>7 DEF CallDone
  <2>4. QED
    BY <1>1, <2>1, <2>2, <2>3
       DEF TypeOK, Untouched, ExecutedOnce, ErrIffErrored, NotOverdrawn, Early, Late
<1>8. ASSUME NEW q \in Query, CallCancel(q) PROVE Rest'
  BY <1>1, <1>8
     DEF CallCancel, TypeOK, Untouched, ExecutedOnce, ErrIffErrored, NotOverdrawn, Early,
         Late, Call, Finisher
<1>9. ASSUME NEW q \in Query, Done(q) PROVE Rest'
  <2>1. UNCHANGED <<ready, closed, err, plan, conc, mem, prio, lpc, lq, top, rest,
                    availableConcurrency, availableMemory, queries, cpc, crashed>>
    BY ZenonT(30), <1>1, <1>9, DoneCases
  <2>2. /\ fpc["Done"][q] = "called"
        /\ \A g \in Finisher, r \in Query : r # q => fpc'[g][r] = fpc[g][r]
    <3>1. \E l \in {"send", "returned", "panicked"} : GotoF("Done", q, l)
      BY ZenonT(30), <1>1, <1>9, DoneCases DEF LockForFinish
    <3>2. fpc["Done"][q] = "called"
      BY ZenonT(30), <1>1, <1>9, DoneCases
    <3>3. QED
      BY <1>1, <3>1, <3>2 DEF TypeOK, GotoF, Finisher
  <2>3. UNCHANGED state \/ (state[q] = "Executing" /\ state' = [state EXCEPT ![q] = "Finished"])
    BY ZenonT(30), <1>1, <1>9, DoneCases DEF SetState
  <2>4. QED
    BY <1>1, <2>1, <2>2, <2>3
       DEF TypeOK, Untouched, ExecutedOnce, ErrIffErrored, NotOverdrawn, Early, Late,
           Finisher
<1>10. ASSUME NEW q \in Query, Cancel(q) PROVE Rest'
  BY <1>1, <1>10
     DEF Cancel, TypeOK, Untouched, ExecutedOnce, ErrIffErrored, NotOverdrawn, Early, Late,
         SetState, LockForFinish, GotoF, Finisher
<1>11. ASSUME NEW q \in Query, SetErr(q) PROVE Rest'
  BY <1>1, <1>11
     DEF SetErr, TypeOK, Untouched, ExecutedOnce, ErrIffErrored, NotOverdrawn, Early, Late,
         SetState, LockForFinish, GotoF, Finisher
<1>12. ASSUME NEW q \in Query, ReceiveNew(q) PROVE Rest'
  BY <1>1, <1>12
     DEF ReceiveNew, TypeOK, Untouched, ExecutedOnce, ErrIffErrored, NotOverdrawn, Early,
         Late, HeapPush
<1>13. ASSUME NEW q \in Query, NEW p \in Priority, Enqueue(q, p) PROVE Rest'
  BY <1>1, <1>13
     DEF Enqueue, TypeOK, Untouched, ExecutedOnce, ErrIffErrored, NotOverdrawn, Early, Late,
         SetState
<1>14. ASSUME NEW q \in Query, NEW f \in Finisher, Close(f, q) PROVE Rest'
  BY <1>1, <1>14
     DEF Close, TypeOK, Untouched, ExecutedOnce, ErrIffErrored, NotOverdrawn, Early, Late,
         GotoF, Finisher
<1>15. ASSUME NEW q \in Query, NEW f \in Finisher, ReceiveDone(f, q) PROVE Rest'
  BY <1>1, <1>15
     DEF ReceiveDone, TypeOK, Untouched, ExecutedOnce, ErrIffErrored, NotOverdrawn, Early,
         Late, GotoF, Free, Limited, Finisher
<1>16. ASSUME NEW c \in Concurrency, NEW m \in Memory, Plan(c, m) PROVE Rest'
  BY <1>1, <1>16
     DEF Plan, TypeOK, Untouched, ExecutedOnce, ErrIffErrored, NotOverdrawn, Early, Late
<1>17. CASE PeekEmpty
  BY <1>1, <1>17, QueryAssumption
     DEF PeekEmpty, TypeOK, Untouched, ExecutedOnce, ErrIffErrored, NotOverdrawn, Early,
         Late
<1>18. CASE Peek
  BY <1>1, <1>18, QueryAssumption
     DEF Peek, TypeOK, Untouched, ExecutedOnce, ErrIffErrored, NotOverdrawn, Early, Late,
         HeapPop
<1>19. CASE TryPlan
  BY <1>1, <1>19, QueryAssumption
     DEF TryPlan, TypeOK, Untouched, ExecutedOnce, ErrIffErrored, NotOverdrawn, Early, Late,
         SetState
<1>20. CASE PlanFails
  BY <1>1, <1>20, QueryAssumption
     DEF PlanFails, TypeOK, Untouched, ExecutedOnce, ErrIffErrored, NotOverdrawn, Early,
         Late, ReportError, Call, Finisher
<1>21. CASE Admit
  BY <1>1, <1>21, QueryAssumption, PlanAssumption
     DEF Admit, TypeOK, Untouched, ExecutedOnce, ErrIffErrored, NotOverdrawn, Early, Late,
         Check, Consume, Limited
<1>22. CASE Refuse
  BY <1>1, <1>22, QueryAssumption
     DEF Refuse, TypeOK, Untouched, ExecutedOnce, ErrIffErrored, NotOverdrawn, Early, Late
<1>23. CASE TryRequeue
  BY <1>1, <1>23, QueryAssumption
     DEF TryRequeue, TypeOK, Untouched, ExecutedOnce, ErrIffErrored, NotOverdrawn, Early,
         Late, SetState
<1>24. CASE Pop
  BY <1>1, <1>24, QueryAssumption
     DEF Pop, TypeOK, Untouched, ExecutedOnce, ErrIffErrored, NotOverdrawn, Early, Late,
         HeapPop
<1>25. CASE TryExec
  BY <1>1, <1>25, QueryAssumption
     DEF TryExec, TypeOK, Untouched, ExecutedOnce, ErrIffErrored, NotOverdrawn, Early, Late,
         SetState
<1>26. CASE Execute
  BY <1>1, <1>26, QueryAssumption
     DEF Execute, TypeOK, Untouched, ExecutedOnce, ErrIffErrored, NotOverdrawn, Early, Late
<1>27. CASE ExecuteFails
  BY <1>1, <1>27, QueryAssumption
     DEF ExecuteFails, TypeOK, Untouched, ExecutedOnce, ErrIffErrored, NotOverdrawn, Early,
         Late, ReportError, Call, Finisher
<1>28. CASE SetResults
  BY <1>1, <1>28, QueryAssumption
     DEF SetResults, TypeOK, Untouched, ExecutedOnce, ErrIffErrored, NotOverdrawn, Early,
         Late
<1>29. QED
  BY <1>2, <1>3, <1>4, <1>5, <1>6, <1>7, <1>8, <1>9, <1>10, <1>11, <1>12, <1>13, <1>14, <1>15, <1>16, <1>17, <1>18, <1>19, <1>20, <1>21, <1>22, <1>23, <1>24, <1>25, <1>26, <1>27, <1>28
     DEF Next, Client, Finish, Receive, Process

-----------------------------------------------------------------------------

\* Whatever its clients do and its planners return, the controller's fields keep
\* their types, Err() belongs to the Errored queries and the counters of available
\* resources never go below zero.
THEOREM AnyClient == Spec => [](TypeOK /\ ErrIffErrored /\ NotOverdrawn)
<1>1. AnyInv /\ [Next]_vars => AnyInv'
  <2>1. CASE Next
    BY <2>1, TypeStep, RestStep DEF AnyInv
  <2>2. CASE UNCHANGED vars
    BY <2>2 DEF vars, fieldVars, planVars, heapVars, quotaVars, AnyInv, TypeOK, Untouched,
                ExecutedOnce, ErrIffErrored, NotOverdrawn
  <2>3. QED
    BY <2>1, <2>2
<1>2. AnyInv => TypeOK /\ ErrIffErrored /\ NotOverdrawn
  BY DEF AnyInv
<1>3. QED
  BY InitAny, <1>1, <1>2, PTL DEF Spec

\* In particular Check and consume never hand out more than there is.
THEOREM NeverOverdrawn == Spec => []NotOverdrawn
BY AnyClient, PTL

-----------------------------------------------------------------------------
(* Clients that wait, and plans that succeed.                              *)

Polite == ClientOps = {} /\ "plan" \notin Failures

Idle(q) == \A f \in Finisher : fpc[f][q] = "idle"

\* The life of a query, one predicate per phase.
Fresh(q) == cpc[q] \in Early /\ q \notin closed /\ ready[q] = 0

InQueue(q) ==
    /\ q = top \/ q \in rest
    /\ cpc[q] = "waiting" /\ q \notin closed /\ ready[q] = 0 /\ Idle(q)
    /\ state[q] \in {"Queueing", "Planning", "Requeueing"}

InHand(q) ==
    /\ q = lq /\ lpc \in {"tryExec", "execute", "setResults"}
    /\ q # top /\ q \notin rest
    /\ cpc[q] = "waiting" /\ q \notin closed /\ ready[q] = 0 /\ Idle(q)
    /\ IF lpc = "tryExec" THEN state[q] \in {"Planning", "Requeueing"} ELSE state[q] = "Executing"

Away(q) == q # lq /\ q # top /\ q \notin rest /\ fpc["Cancel"][q] = "idle"

Running(q) ==
    /\ Away(q) /\ state[q] = "Executing" /\ q \notin closed /\ fpc["setErr"][q] = "idle"
    /\ \/ cpc[q] = "waiting" /\ ready[q] = 1 /\ fpc["Done"][q] = "idle"
       \/ cpc[q] = "results" /\ ready[q] = 0 /\ fpc["Done"][q] = "idle"
       \/ cpc[q] = "gone" /\ ready[q] = 0 /\ fpc["Done"][q] = "called"

Failing(q) ==
    /\ Away(q) /\ cpc[q] = "waiting" /\ q \notin closed /\ ready[q] = 0
    /\ fpc["Done"][q] = "idle"
    /\ \/ state[q] = "Executing" /\ fpc["setErr"][q] = "called"
       \/ state[q] = "Errored" /\ fpc["setErr"][q] \in {"send", "close"}

Failed(q) ==
    /\ Away(q) /\ state[q] = "Errored" /\ q \in closed /\ ready[q] = 0
    /\ fpc["setErr"][q] = "returned"
    /\ \/ cpc[q] \in {"waiting", "failed"} /\ fpc["Done"][q] = "idle"
       \/ cpc[q] = "gone" /\ fpc["Done"][q] \in {"called", "returned"}

Ending(q) ==
    /\ Away(q) /\ state[q] = "Finished" /\ cpc[q] = "gone" /\ ready[q] = 0
    /\ fpc["setErr"][q] = "idle"
    /\ \/ q \notin closed /\ fpc["Done"][q] \in {"send", "close"}
       \/ q \in closed /\ fpc["Done"][q] = "returned"

Life(q) ==
    \/ Fresh(q) \/ InQueue(q) \/ InHand(q) \/ Running(q)
    \/ Failing(q) \/ Failed(q) \/ Ending(q)

LifeCycle == \A q \in Query : Life(q)

\* The run goroutine works on the root of the heap until it has popped it, and on a
\* query that is not in the heap afterwards; what it goes on to check has a plan.
RootInHand ==
    /\ top \notin rest
    /\ lpc \in {"tryPlan", "plan", "check", "tryRequeue", "pop"} => lq = top
    /\ lpc \in {"tryExec", "execute", "setResults"} => lq # top /\ lq \notin rest
    /\ lpc = "plan" => state[lq] = "Planning"
    /\ lpc \in {"check", "tryRequeue", "pop"} => state[lq] \in {"Planning", "Requeueing"}
    /\ \A q \in Query :
          /\ state[q] \in {"Planning", "Requeueing", "Executing"}
          /\ ~(q = lq /\ lpc = "plan")
          => plan[q] # None

PoliteInv == LifeCycle /\ RootInHand /\ crashed = "no"

-----------------------------------------------------------------------------
(* The life cycle of a query, for clients that wait.                       *)

\* Every query starts its life in the hands of its client.
LEMMA PoliteInit == Init => PoliteInv
BY QueryAssumption
   DEF Init, PoliteInv, LifeCycle, Life, Fresh, Early, RootInHand

\* What a step leaves of a query r that it is not about.
Kept(r) ==
    /\ state'[r] = state[r] /\ ready'[r] = ready[r] /\ cpc'[r] = cpc[r]
    /\ r \in closed' <=> r \in closed
    /\ \A f \in Finisher : fpc'[f][r] = fpc[f][r]
    /\ (r = top' \/ r \in rest') <=> (r = top \/ r \in rest)
    /\ r = lq' => r = lq \/ r = top' \/ r \in rest'
    /\ r = lq /\ lpc \in {"tryExec", "execute", "setResults"} => lq' = lq /\ lpc' = lpc

\* A query stays in its phase during the steps that are not about it.
LEMMA LifeKept ==
    ASSUME NEW r \in Query, Life(r), Kept(r)
    PROVE  Life(r)'
<1>1. CASE Fresh(r)
  BY ZenonT(30), <1>1 DEF Kept, Life, Fresh
<1>2. CASE InQueue(r)
  BY <1>2 DEF Kept, Life, InQueue, Idle
<1>3. CASE InHand(r)
  BY <1>3 DEF Kept, Life, InHand, Idle
<1>4. Away(r) => Away(r)'
  BY DEF Kept, Away, Finisher
<1>5. CASE Running(r)
  BY <1>4, <1>5 DEF Kept, Life, Running, Finisher
<1>6. CASE Failing(r)
  BY <1>4, <1>6 DEF Kept, Life, Failing, Finisher
<1>7. CASE Failed(r)
  BY <1>4, <1>7 DEF Kept, Life, Failed, Finisher
<1>8. CASE Ending(r)
  BY ZenonT(30), <1>4, <1>8 DEF Kept, Life, Ending, Finisher
<1>9. QED
  BY <1>1, <1>2, <1>3, <1>5, <1>6, <1>7, <1>8 DEF Life

\* A finisher's step moves it alone.
LEMMA OneFinisherMoves ==
    ASSUME TypeOK, NEW f \in Finisher, NEW q \in Query, NEW l, GotoF(f, q, l)
    PROVE  /\ fpc'[f][q] = l
           /\ \A g \in Finisher \ {f} : fpc'[g][q] = fpc[g][q]
           /\ \A g \in Finisher, r \in Query : r # q => fpc'[g][r] = fpc[g][r]
BY DEF TypeOK, GotoF

\* Where a query is in its life follows from where its client or a finisher is.
LEMMA WhichPhase ==
    ASSUME NEW q \in Query, Life(q), Untouched
    PROVE  /\ cpc[q] \in Early => Fresh(q)
           /\ cpc[q] = "waiting" /\ ready[q] > 0 => Running(q)
           /\ cpc[q] = "waiting" /\ q \in closed => Failed(q)
           /\ cpc[q] = "results" => Running(q)
           /\ cpc[q] = "failed" => Failed(q)
           /\ fpc["Cancel"][q] = "idle"
           /\ fpc["Done"][q] = "called" => Running(q) \/ Failed(q)
           /\ fpc["setErr"][q] = "called" => Failing(q)
           /\ \A f \in Finisher : fpc[f][q] \in {"send", "close"} =>
                  \/ f = "setErr" /\ Failing(q)
                  \/ f = "Done" /\ Ending(q)
<1>1. CASE Fresh(q)
  <2>1. \A f \in Finisher : fpc[f][q] = "idle"
    BY <1>1 DEF Untouched, Fresh
  <2>2. QED
    BY ZenonT(30), <1>1, <2>1 DEF Fresh, Early, Finisher
<1>2. CASE InQueue(q)
  BY <1>2 DEF InQueue, Idle, Finisher, Early
<1>3. CASE InHand(q)
  BY <1>3 DEF InHand, Idle, Finisher, Early
<1>4. CASE Running(q)
  BY <1>4 DEF Running, Away, Finisher, Early
<1>5. CASE Failing(q)
  BY <1>5 DEF Failing, Away, Finisher, Early
<1>6. CASE Failed(q)
  BY <1>6 DEF Failed, Away, Finisher, Early
<1>7. CASE Ending(q)
  BY <1>7 DEF Ending, Away, Finisher, Early
<1>8. QED
  BY ZenonT(30), <1>1, <1>2, <1>3, <1>4, <1>5, <1>6, <1>7 DEF Life

\* A query that its client compiles or submits stays fresh.
LEMMA PoliteCompile ==
    ASSUME Polite, AnyInv, PoliteInv, NEW q \in Query, cpc[q] \in Early, Compile(q) \/ (\E p \in Priority : Enqueue(q, p))
    PROVE  PoliteInv'
<1> USE DEF fieldVars, planVars, heapVars, quotaVars
<1>0. TypeOK /\ Untouched /\ RootInHand /\ crashed = "no" /\ \A r \in Query : Life(r)
  BY DEF AnyInv, PoliteInv, LifeCycle
<1>1. Fresh(q) /\ q # lq /\ q # top /\ q \notin rest
  BY ZenonT(30), <1>0, WhichPhase DEF Untouched
<1>2. /\ \E s \in {"Compiling", "Queueing"} : state' = [state EXCEPT ![q] = s]
      /\ \E l \in {"compiling", "submitting"} : cpc' = [cpc EXCEPT ![q] = l]
      /\ UNCHANGED <<ready, closed, plan, lpc, lq, top, rest, fpc, crashed>>
  BY ZenonT(30) DEF Compile, Enqueue, SetState
<1>3. Life(q)'
  BY <1>0, <1>1, <1>2 DEF TypeOK, Life, Fresh, Early
<1>4. ASSUME NEW r \in Query, r # q PROVE Life(r)'
  <2>1. Kept(r)
    BY <1>0, <1>2, <1>4 DEF Kept, TypeOK
  <2>2. QED
    BY <1>0, <2>1, LifeKept
<1>5. RootInHand' /\ crashed' = "no"
  BY <1>0, <1>1, <1>2 DEF RootInHand, TypeOK
<1>6. QED
  BY <1>3, <1>4, <1>5 DEF PoliteInv, LifeCycle

\* A query whose compilation or validation fails stays fresh.
LEMMA PoliteReject ==
    ASSUME Polite, AnyInv, PoliteInv, NEW q \in Query, CompileFails(q) \/ ValidateFails(q)
    PROVE  PoliteInv'
<1> USE DEF fieldVars, planVars, heapVars, quotaVars
<1>0. TypeOK /\ Untouched /\ RootInHand /\ crashed = "no" /\ \A r \in Query : Life(r)
  BY DEF AnyInv, PoliteInv, LifeCycle
<1>1. Fresh(q)
  BY ZenonT(30), <1>0, WhichPhase DEF CompileFails, ValidateFails, Early
<1>2. /\ cpc' = [cpc EXCEPT ![q] = "rejected"]
      /\ UNCHANGED <<state, ready, closed, plan, lpc, lq, top, rest, fpc, crashed>>
  BY DEF CompileFails, ValidateFails
<1>3. Life(q)'
  BY <1>0, <1>1, <1>2 DEF TypeOK, Life, Fresh, Early
<1>4. ASSUME NEW r \in Query, r # q PROVE Life(r)'
  <2>1. Kept(r)
    BY <1>0, <1>2, <1>4 DEF Kept, TypeOK
  <2>2. QED
    BY <1>0, <2>1, LifeKept
<1>5. RootInHand' /\ crashed' = "no"
  BY ZenonT(30), <1>0, <1>2 DEF RootInHand
<1>6. QED
  BY <1>3, <1>4, <1>5 DEF PoliteInv, LifeCycle

\* A client that receives the results has a running query.
LEMMA PoliteResults ==
    ASSUME Polite, AnyInv, PoliteInv, NEW q \in Query, ReceiveResults(q)
    PROVE  PoliteInv'
<1> USE DEF fieldVars, planVars, heapVars, quotaVars
<1>0. TypeOK /\ Untouched /\ RootInHand /\ crashed = "no" /\ \A r \in Query : Life(r)
  BY DEF AnyInv, PoliteInv, LifeCycle
<1>1. Running(q)
  BY ZenonT(30), <1>0, WhichPhase DEF ReceiveResults
<1>2. /\ cpc[q] = "waiting" /\ cpc' = [cpc EXCEPT ![q] = "results"]
      /\ ready' = [ready EXCEPT ![q] = @ - 1]
      /\ UNCHANGED <<state, closed, plan, lpc, lq, top, rest, fpc, crashed>>
  BY DEF ReceiveResults
<1>3. Life(q)'
  BY <1>0, <1>1, <1>2 DEF TypeOK, Life, Running, Away
<1>4. ASSUME NEW r \in Query, r # q PROVE Life(r)'
  <2>1. Kept(r)
    BY <1>0, <1>2, <1>4 DEF Kept, TypeOK
  <2>2. QED
    BY <1>0, <2>1, LifeKept
<1>5. RootInHand' /\ crashed' = "no"
  BY <1>0, <1>2 DEF RootInHand
<1>6. QED
  BY <1>3, <1>4, <1>5 DEF PoliteInv, LifeCycle

\* A client that finds Ready closed has a failed query.
LEMMA PoliteClosed ==
    ASSUME Polite, AnyInv, PoliteInv, NEW q \in Query, ReceiveClosed(q)
    PROVE  PoliteInv'
<1> USE DEF fieldVars, planVars, heapVars, quotaVars
<1>0. TypeOK /\ Untouched /\ RootInHand /\ crashed = "no" /\ \A r \in Query : Life(r)
  BY DEF AnyInv, PoliteInv, LifeCycle
<1>1. Failed(q)
  BY ZenonT(30), <1>0, WhichPhase DEF ReceiveClosed
<1>2. /\ cpc[q] = "waiting" /\ cpc' = [cpc EXCEPT ![q] = "failed"]
      /\ UNCHANGED <<state, ready, closed, plan, lpc, lq, top, rest, fpc, crashed>>
  BY ZenonT(30) DEF ReceiveClosed
<1>3. Life(q)'
  BY <1>0, <1>1, <1>2 DEF TypeOK, Life, Failed, Away
<1>4. ASSUME NEW r \in Query, r # q PROVE Life(r)'
  <2>1. Kept(r)
    BY <1>0, <1>2, <1>4 DEF Kept, TypeOK
  <2>2. QED
    BY <1>0, <2>1, LifeKept
<1>5. RootInHand' /\ crashed' = "no"
  BY <1>0, <1>2 DEF RootInHand
<1>6. QED
  BY <1>3, <1>4, <1>5 DEF PoliteInv, LifeCycle

\* Done is called for a running query with its results, or for a failed one.
LEMMA PoliteCallDone ==
    ASSUME Polite, AnyInv, PoliteInv, NEW q \in Query, CallDone(q)
    PROVE  PoliteInv'
<1> USE DEF fieldVars, planVars, heapVars, quotaVars
<1>0. TypeOK /\ Untouched /\ RootInHand /\ crashed = "no" /\ \A r \in Query : Life(r)
  BY DEF AnyInv, PoliteInv, LifeCycle
<1>1. /\ Running(q) \/ Failed(q)
      /\ cpc[q] \in {"results", "failed"}
  BY ZenonT(30), <1>0, WhichPhase DEF CallDone, Polite
<1>2. /\ fpc["Done"][q] = "idle" /\ GotoF("Done", q, "called")
      /\ cpc' = [cpc EXCEPT ![q] = "gone"]
      /\ UNCHANGED <<state, ready, closed, plan, lpc, lq, top, rest, crashed>>
  BY ZenonT(30) DEF CallDone, Call, GotoF
<1>3. /\ fpc'["Done"][q] = "called"
      /\ \A g \in Finisher \ {"Done"} : fpc'[g][q] = fpc[g][q]
      /\ \A g \in Finisher, r \in Query : r # q => fpc'[g][r] = fpc[g][r]
  BY <1>0, <1>2, OneFinisherMoves DEF Finisher
<1>4. Life(q)'
  <2>1. cpc'[q] = "gone"
    BY <1>0, <1>2 DEF TypeOK
  <2>a. fpc'["Cancel"][q] = fpc["Cancel"][q] /\ fpc'["setErr"][q] = fpc["setErr"][q]
    BY <1>3 DEF Finisher
  <2>b. Away(q) => Away(q)'
    BY <1>2, <2>a DEF Away
  <2>2. CASE Running(q)
    <3>1. Running(q)'
      BY ZenonT(30), <1>1, <1>2, <1>3, <2>1, <2>2, <2>a, <2>b DEF Running
    <3>2. QED
      BY <3>1 DEF Life
  <2>3. CASE Failed(q)
    <3>1. Failed(q)'
      BY ZenonT(30), <1>1, <1>2, <1>3, <2>1, <2>3, <2>a, <2>b DEF Failed
    <3>2. QED
      BY <3>1 DEF Life
  <2>4. QED
    BY <1>1, <2>2, <2>3
<1>5. ASSUME NEW r \in Query, r # q PROVE Life(r)'
  <2>1. Kept(r)
    BY <1>0, <1>2, <1>3, <1>5 DEF Kept, TypeOK
  <2>2. QED
    BY <1>0, <2>1, LifeKept
<1>6. RootInHand' /\ crashed' = "no"
  BY ZenonT(30), <1>0, <1>2 DEF RootInHand
<1>7. QED
  BY <1>4, <1>5, <1>6 DEF PoliteInv, LifeCycle

\* Waiting clients do not call Cancel.
LEMMA PoliteNoCallCancel ==
    ASSUME Polite, AnyInv, PoliteInv, NEW q \in Query, CallCancel(q)
    PROVE  FALSE
BY DEF CallCancel, Polite

\* Without a call, no Cancel runs.
LEMMA PoliteNoCancel ==
    ASSUME Polite, AnyInv, PoliteInv, NEW q \in Query, Cancel(q)
    PROVE  FALSE
<1> USE DEF fieldVars, planVars, heapVars, quotaVars
<1>0. TypeOK /\ Untouched /\ RootInHand /\ crashed = "no" /\ \A r \in Query : Life(r)
  BY DEF AnyInv, PoliteInv, LifeCycle
<1>1. QED
  BY ZenonT(30), <1>0, WhichPhase DEF Cancel

\* Done ends a running query and only returns for a failed one.
LEMMA PoliteDone ==
    ASSUME Polite, AnyInv, PoliteInv, NEW q \in Query, Done(q)
    PROVE  PoliteInv'
<1> USE DEF fieldVars, planVars, heapVars, quotaVars
<1>0. TypeOK /\ Untouched /\ RootInHand /\ crashed = "no" /\ \A r \in Query : Life(r)
  BY DEF AnyInv, PoliteInv, LifeCycle
<1>1. /\ fpc["Done"][q] = "called"
      /\ UNCHANGED <<ready, closed, plan, lpc, lq, top, rest, cpc, crashed>>
  BY ZenonT(30), <1>0, DoneCases
<1>2. Running(q) \/ Failed(q)
  BY ZenonT(30), <1>0, <1>1, WhichPhase
<1>3. CASE Running(q)
  <2>1. state' = [state EXCEPT ![q] = "Finished"] /\ GotoF("Done", q, "send")
    BY ZenonT(30), <1>0, <1>3, DoneCases DEF LockForFinish, SetState, Running
  <2>2. /\ fpc'["Done"][q] = "send"
        /\ \A g \in Finisher \ {"Done"} : fpc'[g][q] = fpc[g][q]
        /\ \A g \in Finisher, r \in Query : r # q => fpc'[g][r] = fpc[g][r]
    BY <1>0, <2>1, OneFinisherMoves DEF Finisher
  <2>3. Life(q)'
    <3>1. state'[q] = "Finished"
      BY <1>0, <2>1 DEF TypeOK
    <3>2. QED
      BY <1>1, <1>3, <2>2, <3>1 DEF Life, Running, Ending, Away, Finisher
  <2>4. ASSUME NEW r \in Query, r # q PROVE Life(r)'
    <3>1. Kept(r)
      BY <1>0, <1>1, <2>1, <2>2, <2>4 DEF Kept, TypeOK
    <3>2. QED
      BY <1>0, <3>1, LifeKept
  <2>5. RootInHand' /\ crashed' = "no"
    BY <1>0, <1>1, <1>3, <2>1 DEF RootInHand, TypeOK, Running, Away
  <2>6. QED
    BY <2>3, <2>4, <2>5 DEF PoliteInv, LifeCycle
<1>4. CASE Failed(q)
  <2>1. UNCHANGED state /\ GotoF("Done", q, "returned")
    BY ZenonT(30), <1>0, <1>4, DoneCases DEF Failed
  <2>2. /\ fpc'["Done"][q] = "returned"
        /\ \A g \in Finisher \ {"Done"} : fpc'[g][q] = fpc[g][q]
        /\ \A g \in Finisher, r \in Query : r # q => fpc'[g][r] = fpc[g][r]
    BY <1>0, <2>1, OneFinisherMoves DEF Finisher
  <2>3. Life(q)'
    BY <1>1, <1>4, <2>1, <2>2 DEF Life, Failed, Away, Finisher
  <2>4. ASSUME NEW r \in Query, r # q PROVE Life(r)'
    <3>1. Kept(r)
      BY ZenonT(30), <1>1, <2>1, <2>2, <2>4 DEF Kept
    <3>2. QED
      BY <1>0, <3>1, LifeKept
  <2>5. RootInHand' /\ crashed' = "no"
    BY ZenonT(30), <1>0, <1>1, <2>1 DEF RootInHand
  <2>6. QED
    BY <2>3, <2>4, <2>5 DEF PoliteInv, LifeCycle
<1>5. QED
  BY <1>2, <1>3, <1>4

\* setErr runs for a query whose execution failed.
LEMMA PoliteSetErr ==
    ASSUME Polite, AnyInv, PoliteInv, NEW q \in Query, SetErr(q)
    PROVE  PoliteInv'
<1> USE DEF fieldVars, planVars, heapVars, quotaVars
<1>0. TypeOK /\ Untouched /\ RootInHand /\ crashed = "no" /\ \A r \in Query : Life(r)
  BY DEF AnyInv, PoliteInv, LifeCycle
<1>1. Failing(q)
  BY ZenonT(30), <1>0, WhichPhase DEF SetErr
<1>2. /\ state' = [state EXCEPT ![q] = "Errored"] /\ GotoF("setErr", q, "send")
      /\ UNCHANGED <<ready, closed, plan, lpc, lq, top, rest, cpc, crashed>>
  BY ZenonT(30) DEF SetErr, SetState, LockForFinish
<1>3. /\ fpc'["setErr"][q] = "send"
      /\ \A g \in Finisher \ {"setErr"} : fpc'[g][q] = fpc[g][q]
      /\ \A g \in Finisher, r \in Query : r # q => fpc'[g][r] = fpc[g][r]
  <2>1. "setErr" \in Finisher
    BY DEF Finisher
  <2>2. QED
    BY ZenonT(30), <1>0, <1>2, <2>1, OneFinisherMoves
<1>4. Life(q)'
  <2>1. state'[q] = "Errored"
    BY <1>0, <1>2 DEF TypeOK
  <2>2. QED
    BY ZenonT(30), <1>1, <1>2, <1>3, <2>1 DEF Life, Failing, Away, Finisher
<1>5. ASSUME NEW r \in Query, r # q PROVE Life(r)'
  <2>1. Kept(r)
    BY ZenonT(30), <1>0, <1>2, <1>3, <1>5 DEF Kept, TypeOK
  <2>2. QED
    BY <1>0, <2>1, LifeKept
<1>6. RootInHand' /\ crashed' = "no"
  BY <1>0, <1>1, <1>2 DEF RootInHand, TypeOK, Failing, Away
<1>7. QED
  BY <1>4, <1>5, <1>6 DEF PoliteInv, LifeCycle

\* Ready is closed once, by the only finisher of the query.
LEMMA PoliteClose ==
    ASSUME Polite, AnyInv, PoliteInv, NEW q \in Query, NEW f \in Finisher, Close(f, q)
    PROVE  PoliteInv'
<1> USE DEF fieldVars, planVars, heapVars, quotaVars
<1>0. TypeOK /\ Untouched /\ RootInHand /\ crashed = "no" /\ \A r \in Query : Life(r)
  BY DEF AnyInv, PoliteInv, LifeCycle
<1>1. (f = "setErr" /\ Failing(q)) \/ (f = "Done" /\ Ending(q))
  BY ZenonT(30), <1>0, WhichPhase DEF Close
<1>2. fpc[f][q] = "close" /\ q \notin closed /\ q # lq /\ q # top /\ q \notin rest
  BY ZenonT(30), <1>1 DEF Close, Failing, Ending, Away, Finisher
<1>3. /\ closed' = closed \cup {q} /\ GotoF(f, q, "returned") /\ crashed' = crashed
      /\ UNCHANGED <<state, ready, plan, lpc, lq, top, rest, cpc>>
  BY <1>2 DEF Close
<1>4. /\ fpc'[f][q] = "returned"
      /\ \A g \in Finisher \ {f} : fpc'[g][q] = fpc[g][q]
      /\ \A g \in Finisher, r \in Query : r # q => fpc'[g][r] = fpc[g][r]
  BY <1>0, <1>3, OneFinisherMoves
<1>5. Life(q)'
  <2>1. CASE f = "setErr" /\ Failing(q)
    BY ZenonT(30), <1>2, <1>3, <1>4, <2>1 DEF Life, Failing, Failed, Away, Finisher
  <2>2. CASE f = "Done" /\ Ending(q)
    BY ZenonT(30), <1>2, <1>3, <1>4, <2>2 DEF Life, Ending, Away, Finisher
  <2>3. QED
    BY <1>1, <2>1, <2>2
<1>6. ASSUME NEW r \in Query, r # q PROVE Life(r)'
  <2>1. Kept(r)
    BY <1>3, <1>4, <1>6 DEF Kept
  <2>2. QED
    BY <1>0, <2>1, LifeKept
<1>7. RootInHand' /\ crashed' = "no"
  BY <1>0, <1>3 DEF RootInHand
<1>8. QED
  BY <1>5, <1>6, <1>7 DEF PoliteInv, LifeCycle

-----------------------------------------------------------------------------
(* The steps of the run goroutine keep every query in a phase of its life. *)

\* Between Pop and setResults the query of the run goroutine is nobody else's.
LEMMA PoppedInHand ==
    ASSUME TypeOK, Untouched, LifeCycle, RootInHand,
           lpc \in {"tryExec", "execute", "setResults"}
    PROVE  lq \in Query /\ InHand(lq)
<1>1. lq \in Query
  BY DEF TypeOK
<1>2. Life(lq) /\ lq # top /\ lq \notin rest /\ cpc[lq] \notin Early
  BY <1>1 DEF LifeCycle, RootInHand, Untouched
<1>3. QED
  BY ZenonT(30), <1>1, <1>2 DEF Life, Fresh, InQueue, Running, Failing, Failed, Ending, Away

\* A query in the heap waits there.
LEMMA HeapWaits ==
    ASSUME NEW q \in Query, Life(q), Untouched, q = top \/ q \in rest
    PROVE  InQueue(q)
BY DEF Life, Untouched, Fresh, InHand, Running, Failing, Failed, Ending, Away

\* The run goroutine receives a finished query.
LEMMA PoliteReceiveDone ==
    ASSUME Polite, AnyInv, PoliteInv, NEW q \in Query, NEW f \in Finisher, ReceiveDone(f, q)
    PROVE  PoliteInv'
<1> USE DEF fieldVars, planVars, heapVars, quotaVars
<1>0. TypeOK /\ Untouched /\ RootInHand /\ crashed = "no" /\ \A r \in Query : Life(r)
  BY DEF AnyInv, PoliteInv, LifeCycle
<1>1. (f = "setErr" /\ Failing(q)) \/ (f = "Done" /\ Ending(q))
  BY ZenonT(30), <1>0, WhichPhase DEF ReceiveDone
<1>2. /\ lpc = "select" /\ lpc' = "peek" /\ fpc[f][q] = "send" /\ GotoF(f, q, "close")
      /\ UNCHANGED <<state, ready, closed, plan, lq, top, rest, cpc, crashed>>
  BY ZenonT(30) DEF ReceiveDone
<1>3. /\ fpc'[f][q] = "close"
      /\ \A g \in Finisher \ {f} : fpc'[g][q] = fpc[g][q]
      /\ \A g \in Finisher, r \in Query : r # q => fpc'[g][r] = fpc[g][r]
  BY <1>0, <1>2, OneFinisherMoves
<1>4. Life(q)'
  <2>1. CASE f = "setErr" /\ Failing(q)
    BY <1>2, <1>3, <2>1 DEF Life, Failing, Away, Finisher
  <2>2. CASE f = "Done" /\ Ending(q)
    BY <1>2, <1>3, <2>2 DEF Life, Ending, Away, Finisher
  <2>3. QED
    BY <1>1, <2>1, <2>2
<1>5. ASSUME NEW r \in Query, r # q PROVE Life(r)'
  <2>1. Kept(r)
    BY ZenonT(30), <1>2, <1>3, <1>5 DEF Kept
  <2>2. QED
    BY <1>0, <2>1, LifeKept
<1>6. RootInHand' /\ crashed' = "no"
  BY <1>0, <1>2 DEF RootInHand
<1>7. QED
  BY <1>4, <1>5, <1>6 DEF PoliteInv, LifeCycle

\* A new query enters the heap.
LEMMA PoliteReceiveNew ==
    ASSUME Polite, AnyInv, PoliteInv, NEW q \in Query, ReceiveNew(q)
    PROVE  PoliteInv'
<1> USE DEF fieldVars, planVars, heapVars, quotaVars
<1>0. TypeOK /\ Untouched /\ RootInHand /\ crashed = "no" /\ \A r \in Query : Life(r)
  BY DEF AnyInv, PoliteInv, LifeCycle
<1>1. /\ cpc[q] = "submitting" /\ cpc' = [cpc EXCEPT ![q] = "waiting"]
      /\ lpc = "select" /\ lpc' = "peek" /\ HeapPush(q)
      /\ UNCHANGED <<state, ready, closed, plan, lq, fpc, crashed>>
  BY DEF ReceiveNew
<1>2. Fresh(q) /\ Idle(q) /\ q # top /\ q \notin rest /\ state[q] = "Queueing"
  BY ZenonT(30), <1>0, <1>1, WhichPhase DEF Untouched, Early, Idle
<1>3. /\ top' \notin rest' /\ (q = top' \/ q \in rest')
      /\ \A r \in Query : r # q => ((r = top' \/ r \in rest') <=> (r = top \/ r \in rest))
  BY <1>0, <1>1, <1>2, QueryAssumption DEF HeapPush, RootInHand, TypeOK
<1>4. Life(q)'
  <2>1. cpc'[q] = "waiting"
    BY <1>0, <1>1 DEF TypeOK
  <2>2. QED
    BY ZenonT(30), <1>1, <1>2, <1>3, <2>1 DEF Life, InQueue, Idle, Fresh
<1>5. ASSUME NEW r \in Query, r # q PROVE Life(r)'
  <2>1. Kept(r)
    BY <1>0, <1>1, <1>3, <1>5 DEF Kept, TypeOK
  <2>2. QED
    BY <1>0, <2>1, LifeKept
<1>6. RootInHand' /\ crashed' = "no"
  BY <1>0, <1>1, <1>3 DEF RootInHand, TypeOK
<1>7. QED
  BY <1>4, <1>5, <1>6 DEF PoliteInv, LifeCycle

\* A plan changes the phase of no query.
LEMMA PolitePlan ==
    ASSUME Polite, AnyInv, PoliteInv, NEW c \in Concurrency, NEW m \in Memory, Plan(c, m)
    PROVE  PoliteInv'
<1> USE DEF fieldVars, planVars, heapVars, quotaVars
<1>0. TypeOK /\ Untouched /\ RootInHand /\ crashed = "no" /\ \A r \in Query : Life(r)
  BY DEF AnyInv, PoliteInv, LifeCycle
<1>1. /\ lpc = "plan" /\ lpc' = "check" /\ plan' = [plan EXCEPT ![lq] = c]
      /\ UNCHANGED <<state, ready, closed, lq, top, rest, cpc, fpc, crashed>>
  BY DEF Plan
<1>2. ASSUME NEW r \in Query PROVE Life(r)'
  <2>1. Kept(r)
    BY <1>1 DEF Kept
  <2>2. QED
    BY <1>0, <2>1, LifeKept
<1>3. c # None
  BY QueryAssumption, PlanAssumption
<1>4. RootInHand' /\ crashed' = "no"
  BY <1>0, <1>1, <1>3 DEF RootInHand, TypeOK
<1>5. QED
  BY <1>2, <1>4 DEF PoliteInv, LifeCycle

\* Looking at an empty heap and checking the quotas change the phase of no query.
LEMMA PoliteLook ==
    ASSUME Polite, AnyInv, PoliteInv, PeekEmpty \/ Admit \/ Refuse
    PROVE  PoliteInv'
<1> USE DEF fieldVars, planVars, heapVars, quotaVars
<1>0. TypeOK /\ Untouched /\ RootInHand /\ crashed = "no" /\ \A r \in Query : Life(r)
  BY DEF AnyInv, PoliteInv, LifeCycle
<1>1. /\ \/ lpc = "peek" /\ lpc' = "select"
         \/ lpc = "check" /\ lpc' \in {"pop", "tryRequeue"}
      /\ UNCHANGED <<state, ready, closed, plan, lq, top, rest, cpc, fpc, crashed>>
  BY DEF PeekEmpty, Admit, Refuse
<1>2. ASSUME NEW r \in Query PROVE Life(r)'
  <2>1. Kept(r)
    BY ZenonT(30), <1>1 DEF Kept
  <2>2. QED
    BY <1>0, <2>1, LifeKept
<1>3. RootInHand' /\ crashed' = "no"
  BY <1>0, <1>1 DEF RootInHand
<1>4. QED
  BY <1>2, <1>3 DEF PoliteInv, LifeCycle

\* The root of the heap is always a query that waits.
LEMMA PolitePeek ==
    ASSUME Polite, AnyInv, PoliteInv, Peek
    PROVE  PoliteInv'
<1> USE DEF fieldVars, planVars, heapVars, quotaVars
<1>0. TypeOK /\ Untouched /\ RootInHand /\ crashed = "no" /\ \A r \in Query : Life(r)
  BY DEF AnyInv, PoliteInv, LifeCycle
<1>1. lpc = "peek" /\ top \in Query
  BY <1>0 DEF Peek, TypeOK
<1>2. IsOK(top)
  BY <1>0, <1>1, HeapWaits DEF IsOK, InQueue
<1>3. /\ lpc' = "tryPlan" /\ lq' = top
      /\ UNCHANGED <<state, ready, closed, plan, top, rest, cpc, fpc, crashed>>
  BY <1>2 DEF Peek
<1>4. ASSUME NEW r \in Query PROVE Life(r)'
  <2>1. Kept(r)
    BY <1>1, <1>3 DEF Kept
  <2>2. QED
    BY <1>0, <2>1, LifeKept
<1>5. RootInHand' /\ crashed' = "no"
  BY <1>0, <1>1, <1>3 DEF RootInHand, TypeOK
<1>6. QED
  BY <1>4, <1>5 DEF PoliteInv, LifeCycle

\* tryPlan and tryRequeue leave the query in the heap.
LEMMA PoliteTryPlan ==
    ASSUME Polite, AnyInv, PoliteInv, TryPlan \/ TryRequeue
    PROVE  PoliteInv'
<1> USE DEF fieldVars, planVars, heapVars, quotaVars
<1>0. TypeOK /\ Untouched /\ RootInHand /\ crashed = "no" /\ \A r \in Query : Life(r)
  BY DEF AnyInv, PoliteInv, LifeCycle
<1>1. lpc \in {"tryPlan", "tryRequeue"} /\ lq = top /\ lq \in Query /\ InQueue(lq)
  BY <1>0, HeapWaits DEF TryPlan, TryRequeue, RootInHand, TypeOK
<1>2. /\ \/ lpc = "tryPlan" /\ lq' = lq /\ state[lq] = "Queueing" /\ lpc' = "plan"
            /\ state' = [state EXCEPT ![lq] = "Planning"]
         \/ lpc = "tryPlan" /\ lq' = lq /\ state[lq] # "Queueing" /\ lpc' = "check"
            /\ state' = state
         \/ lpc = "tryRequeue" /\ lq' = None /\ lpc' = "select" /\ state[lq] = "Planning"
            /\ state' = [state EXCEPT ![lq] = "Requeueing"]
         \/ lpc = "tryRequeue" /\ lq' = None /\ lpc' = "select" /\ state' = state
      /\ UNCHANGED <<ready, closed, plan, top, rest, cpc, fpc, crashed>>
  BY DEF TryPlan, TryRequeue, SetState
<1>3. /\ state'[lq] \in {"Queueing", "Planning", "Requeueing"}
      /\ \A r \in Query : r # lq => state'[r] = state[r]
  BY <1>0, <1>1, <1>2 DEF TypeOK, InQueue
<1>4. ASSUME NEW r \in Query, r = lq PROVE Life(r)'
  BY <1>1, <1>2, <1>3, <1>4 DEF Life, InQueue, Idle
<1>5. ASSUME NEW r \in Query, r # lq PROVE Life(r)'
  <2>1. Kept(r)
    BY <1>2, <1>3, <1>5, QueryAssumption DEF Kept
  <2>2. QED
    BY <1>0, <2>1, LifeKept
<1>6. RootInHand' /\ crashed' = "no"
  <2>1. \A q \in Query :
           /\ state'[q] \in {"Planning", "Requeueing", "Executing"}
           /\ ~(q = lq' /\ lpc' = "plan")
           => plan[q] # None
    BY <1>0, <1>1, <1>2, <1>3 DEF RootInHand, TypeOK
  <2>2. /\ lpc' = "plan" => state'[lq'] = "Planning"
        /\ lpc' = "check" => state'[lq'] \in {"Planning", "Requeueing"}
    BY <1>0, <1>1, <1>2 DEF TypeOK, InQueue
  <2>3. QED
    BY <1>0, <1>1, <1>2, <2>1, <2>2 DEF RootInHand
<1>7. QED
  BY <1>4, <1>5, <1>6 DEF PoliteInv, LifeCycle

\* Planning does not fail.
LEMMA PoliteNoPlanError ==
    ASSUME Polite, AnyInv, PoliteInv, PlanFails
    PROVE  PoliteInv'
BY DEF PlanFails, Polite

\* The admitted query leaves the heap for the hands of run.
LEMMA PolitePop ==
    ASSUME Polite, AnyInv, PoliteInv, Pop
    PROVE  PoliteInv'
<1> USE DEF fieldVars, planVars, heapVars, quotaVars
<1>0. TypeOK /\ Untouched /\ RootInHand /\ crashed = "no" /\ \A r \in Query : Life(r)
  BY DEF AnyInv, PoliteInv, LifeCycle
<1>1. lpc = "pop" /\ lq = top /\ top \in Query /\ top \notin rest
  BY <1>0, QueryAssumption DEF Pop, TypeOK, RootInHand
<1>2. InQueue(top) /\ state[top] \in {"Planning", "Requeueing"}
  BY <1>0, <1>1, HeapWaits DEF RootInHand
<1>3. /\ lpc' = "tryExec" /\ HeapPop
      /\ UNCHANGED <<state, ready, closed, plan, lq, cpc, fpc, crashed>>
  BY <1>1, <1>2, QueryAssumption DEF Pop, IsOK
<1>4. /\ top' # top /\ top' \notin rest' /\ top \notin rest'
      /\ \A r \in Query : r # top => ((r = top' \/ r \in rest') <=> r \in rest)
  BY <1>0, <1>1, <1>3, QueryAssumption DEF HeapPop, TypeOK
<1>5. ASSUME NEW r \in Query, r = lq PROVE Life(r)'
  BY ZenonT(30), <1>1, <1>2, <1>3, <1>4, <1>5 DEF Life, InHand, InQueue, Idle
<1>6. ASSUME NEW r \in Query, r # lq PROVE Life(r)'
  <2>1. Kept(r)
    BY ZenonT(30), <1>1, <1>3, <1>4, <1>6 DEF Kept
  <2>2. QED
    BY <1>0, <2>1, LifeKept
<1>7. RootInHand' /\ crashed' = "no"
  BY <1>0, <1>1, <1>2, <1>3, <1>4 DEF RootInHand, TypeOK
<1>8. QED
  BY <1>5, <1>6, <1>7 DEF PoliteInv, LifeCycle

\* tryExec keeps the query in hand.
LEMMA PoliteTryExec ==
    ASSUME Polite, AnyInv, PoliteInv, TryExec
    PROVE  PoliteInv'
<1> USE DEF fieldVars, planVars, heapVars, quotaVars
<1>0. TypeOK /\ Untouched /\ RootInHand /\ crashed = "no" /\ \A r \in Query : Life(r)
  BY DEF AnyInv, PoliteInv, LifeCycle
<1>1. lpc = "tryExec" /\ lq \in Query /\ InHand(lq)
  BY ZenonT(30), <1>0, PoppedInHand DEF TryExec, LifeCycle
<1>2. /\ lpc' = "execute" /\ state' = [state EXCEPT ![lq] = "Executing"]
      /\ UNCHANGED <<ready, closed, plan, lq, top, rest, cpc, fpc, crashed>>
  BY <1>1 DEF TryExec, SetState, InHand
<1>3. ASSUME NEW r \in Query, r = lq PROVE Life(r)'
  BY <1>0, <1>1, <1>2, <1>3 DEF TypeOK, Life, InHand, Idle
<1>4. ASSUME NEW r \in Query, r # lq PROVE Life(r)'
  <2>1. Kept(r)
    BY <1>0, <1>2, <1>4 DEF Kept, TypeOK
  <2>2. QED
    BY <1>0, <2>1, LifeKept
<1>5. RootInHand' /\ crashed' = "no"
  BY <1>0, <1>1, <1>2 DEF RootInHand, TypeOK, InHand
<1>6. QED
  BY <1>3, <1>4, <1>5 DEF PoliteInv, LifeCycle

\* Execute keeps the query in hand.
LEMMA PoliteExecute ==
    ASSUME Polite, AnyInv, PoliteInv, Execute
    PROVE  PoliteInv'
<1> USE DEF fieldVars, planVars, heapVars, quotaVars
<1>0. TypeOK /\ Untouched /\ RootInHand /\ crashed = "no" /\ \A r \in Query : Life(r)
  BY DEF AnyInv, PoliteInv, LifeCycle
<1>1. lpc = "execute" /\ lq \in Query /\ InHand(lq)
  BY <1>0, PoppedInHand DEF Execute, LifeCycle
<1>2. plan[lq] # None
  BY <1>0, <1>1 DEF RootInHand, InHand
<1>3. /\ lpc' = "setResults"
      /\ UNCHANGED <<state, ready, closed, plan, lq, top, rest, cpc, fpc, crashed>>
  BY <1>2 DEF Execute
<1>4. ASSUME NEW r \in Query, r = lq PROVE Life(r)'
  BY <1>1, <1>3, <1>4 DEF Life, InHand, Idle
<1>5. ASSUME NEW r \in Query, r # lq PROVE Life(r)'
  <2>1. Kept(r)
    BY <1>3, <1>5 DEF Kept
  <2>2. QED
    BY <1>0, <2>1, LifeKept
<1>6. RootInHand' /\ crashed' = "no"
  BY <1>0, <1>1, <1>3 DEF RootInHand
<1>7. QED
  BY <1>4, <1>5, <1>6 DEF PoliteInv, LifeCycle

\* A failed execution starts a setErr for a query that nobody else has.
LEMMA PoliteExecuteFails ==
    ASSUME Polite, AnyInv, PoliteInv, ExecuteFails
    PROVE  PoliteInv'
<1> USE DEF fieldVars, planVars, heapVars, quotaVars
<1>0. TypeOK /\ Untouched /\ RootInHand /\ crashed = "no" /\ \A r \in Query : Life(r)
  BY DEF AnyInv, PoliteInv, LifeCycle
<1>1. lpc = "execute" /\ lq \in Query /\ InHand(lq)
  BY <1>0, PoppedInHand DEF ExecuteFails, LifeCycle
<1>2. /\ lpc' = "select" /\ lq' = None /\ GotoF("setErr", lq, "called")
      /\ UNCHANGED <<state, ready, closed, plan, top, rest, cpc, crashed>>
  BY DEF ExecuteFails, ReportError, Call, GotoF
<1>3. /\ fpc'["setErr"][lq] = "called"
      /\ \A g \in Finisher \ {"setErr"} : fpc'[g][lq] = fpc[g][lq]
      /\ \A g \in Finisher, r \in Query : r # lq => fpc'[g][r] = fpc[g][r]
  BY <1>0, <1>1, <1>2, OneFinisherMoves DEF Finisher
<1>4. ASSUME NEW r \in Query, r = lq PROVE Life(r)'
  <2>1. /\ fpc'["Done"][r] = "idle" /\ fpc'["Cancel"][r] = "idle"
        /\ fpc'["setErr"][r] = "called"
    BY <1>1, <1>3, <1>4 DEF InHand, Idle, Finisher
  <2>2. Failing(r)'
    BY <1>1, <1>2, <1>4, <2>1, QueryAssumption DEF InHand, Failing, Away
  <2>3. QED
    BY <2>2 DEF Life
<1>5. ASSUME NEW r \in Query, r # lq PROVE Life(r)'
  <2>1. Kept(r)
    BY ZenonT(30), <1>2, <1>3, <1>5, QueryAssumption DEF Kept
  <2>2. QED
    BY <1>0, <2>1, LifeKept
<1>6. RootInHand' /\ crashed' = "no"
  BY <1>0, <1>1, <1>2, QueryAssumption DEF RootInHand, InHand
<1>7. QED
  BY <1>4, <1>5, <1>6 DEF PoliteInv, LifeCycle

\* setResults makes the query a running one.
LEMMA PoliteSetResults ==
    ASSUME Polite, AnyInv, PoliteInv, SetResults
    PROVE  PoliteInv'
<1> USE DEF fieldVars, planVars, heapVars, quotaVars
<1>0. TypeOK /\ Untouched /\ RootInHand /\ crashed = "no" /\ \A r \in Query : Life(r)
  BY DEF AnyInv, PoliteInv, LifeCycle
<1>1. lpc = "setResults" /\ lq \in Query /\ InHand(lq)
  BY ZenonT(30), <1>0, PoppedInHand DEF SetResults, LifeCycle
<1>2. /\ lpc' = "select" /\ lq' = None /\ ready' = [ready EXCEPT ![lq] = @ + 1]
      /\ UNCHANGED <<state, closed, plan, top, rest, cpc, fpc, crashed>>
  BY <1>1 DEF SetResults, InHand
<1>3. ASSUME NEW r \in Query, r = lq PROVE Life(r)'
  <2>1. ready'[r] = 1
    BY <1>0, <1>1, <1>2, <1>3 DEF TypeOK, InHand
  <2>2. QED
    BY <1>1, <1>2, <1>3, <2>1, QueryAssumption
       DEF Life, InHand, Running, Away, Idle, Finisher
<1>4. ASSUME NEW r \in Query, r # lq PROVE Life(r)'
  <2>1. Kept(r)
    BY <1>0, <1>2, <1>4, QueryAssumption DEF Kept, TypeOK
  <2>2. QED
    BY <1>0, <2>1, LifeKept
<1>5. RootInHand' /\ crashed' = "no"
  BY <1>0, <1>1, <1>2, QueryAssumption DEF RootInHand, InHand
<1>6. QED
  BY <1>3, <1>4, <1>5 DEF PoliteInv, LifeCycle

\* Every step takes a query from one phase of its life to the next.
LEMMA PoliteStep == Polite /\ AnyInv /\ PoliteInv /\ Next => PoliteInv'
<1>1. \A q \in Query : Compile(q) \/ (\E p \in Priority : Enqueue(q, p)) => cpc[q] \in Early
  BY ZenonT(30) DEF Compile, Enqueue, Early
<1>2. QED
  BY <1>1, PoliteCompile, PoliteReject, PoliteResults, PoliteClosed, PoliteCallDone,
     PoliteNoCallCancel, PoliteNoCancel, PoliteDone, PoliteSetErr, PoliteClose,
     PoliteReceiveDone, PoliteReceiveNew, PolitePlan, PoliteLook, PolitePeek,
     PoliteTryPlan, PoliteNoPlanError, PolitePop, PoliteTryExec, PoliteExecute,
     PoliteExecuteFails, PoliteSetResults
     DEF Next, Client, Finish, Receive, Process

\* A query that is being finished, has been abandoned by a panic or whose client
\* has seen Ready closed is in one of the last phases of its life.
LEMMA PoliteFacts ==
    ASSUME AnyInv, PoliteInv
    PROVE  SingleFinish /\ NoLockCycle /\ FailedHasError
<1>1. TypeOK /\ Untouched /\ ErrIffErrored /\ LifeCycle /\ RootInHand /\ crashed = "no"
  BY DEF AnyInv, PoliteInv
<1>2. ASSUME NEW q \in Query PROVE
          /\ \A f \in Finisher : InFinish(f, q) =>
                /\ q \notin closed /\ q # top /\ q # lq
                /\ \A g \in Finisher \ {f} : ~InFinish(g, q)
          /\ \A f \in Finisher : fpc[f][q] # "panicked"
          /\ cpc[q] = "failed" => state[q] = "Errored"
  <2>1. CASE Fresh(q)
    BY <1>1, <2>1 DEF Untouched, Fresh, Early, InFinish
  <2>2. CASE InQueue(q) \/ InHand(q)
    BY <2>2 DEF InQueue, InHand, Idle, InFinish
  <2>3. CASE Running(q)
    BY <2>3 DEF Running, Away, Finisher, InFinish
  <2>4. CASE Failing(q)
    BY <2>4 DEF Failing, Away, Finisher, InFinish
  <2>5. CASE Failed(q)
    BY <2>5 DEF Failed, Away, Finisher, InFinish
  <2>6. CASE Ending(q)
    BY <2>6 DEF Ending, Away, Finisher, InFinish
  <2>7. QED
    BY ZenonT(30), <1>1, <2>1, <2>2, <2>3, <2>4, <2>5, <2>6 DEF LifeCycle, Life
<1>3. SingleFinish
  BY <1>1, <1>2 DEF SingleFinish
<1>4. Wanted \in {top, lq, None}
  BY DEF Wanted
<1>5. NoLockCycle
  BY <1>2, <1>4, QueryAssumption DEF NoLockCycle, InFinish
<1>6. FailedHasError
  BY <1>1, <1>2 DEF FailedHasError, ErrIffErrored
<1>7. QED
  BY <1>3, <1>5, <1>6
=============================================================================
