----------------------- MODULE ControllerQuotaProofs -----------------------
(***************************************************************************)
(* What follows from the life cycle of a query, for clients that wait: the *)
(* quotas are handed back exactly (Accounts), the heap is served in order  *)
(* (HeapOrder), every query finishes at most once and none is forgotten.   *)
(***************************************************************************)
EXTENDS ControllerProofs, AccountingProofs

USE SMTT(30), ZenonT(30)

-----------------------------------------------------------------------------
(* The quotas, for clients that wait.                                      *)

\* The memory that the sums count; an unlimited query counts for nothing.
Limits == [q \in Query |-> Limited(mem[q])]

\* What is available and what is held add up to the quotas.
Accounts ==
    /\ availableConcurrency = ConcurrencyQuota - SumOver(conc, Held)
    /\ availableMemory = MemoryQuota - SumOver(Limits, Held)

\* What the sums are taken over and of.
LEMMA HeldTyped ==
    ASSUME TypeOK
    PROVE  /\ IsFiniteSet(Held) /\ Held \subseteq Query
           /\ \A q \in Query : conc[q] \in Int /\ Limits[q] \in Int
           /\ SumOver(conc, Held) \in Int /\ SumOver(Limits, Held) \in Int
<1>1. IsFiniteSet(Held) /\ Held \subseteq Query
  BY QueryAssumption, FS_Subset DEF Held
<1>2. \A q \in Query : conc[q] \in Int /\ Limits[q] \in Int
  BY QuotaAssumption DEF TypeOK, Limits, Limited
<1>3. QED
  BY <1>1, <1>2, SumInt

\* Queries that are held before and after a step, with the same needs, and no
\* consume or free: the accounts still balance.
LEMMA AccountsKept ==
    ASSUME TypeOK, Accounts, Held' = Held,
           UNCHANGED <<availableConcurrency, availableMemory>>,
           \A q \in Held : conc'[q] = conc[q] /\ mem'[q] = mem[q]
    PROVE  Accounts'
<1>1. \A q \in Held : Limits'[q] = Limits[q]
  BY HeldTyped DEF Limits
<1>2. IsFiniteSet(Held)
  BY HeldTyped
<1> DEFINE L == Limits'
<1>3. SumOver(conc', Held) = SumOver(conc, Held)
  BY <1>2, SumSame
<1>4. SumOver(L, Held) = SumOver(Limits, Held)
  <2> HIDE DEF L
  <2>1. \A q \in Held : L[q] = Limits[q]
    BY <1>1 DEF L
  <2>2. QED
    BY <1>2, <2>1, SumSame
<1>5. QED
  BY <1>3, <1>4 DEF Accounts

\* What a step leaves alone of a query that it neither admits nor finishes.
Same(r) ==
    /\ state'[r] = state[r]
    /\ \A f \in Finisher : fpc'[f][r] = fpc[f][r]
    /\ r = lq' /\ lpc' \in {"pop", "tryExec"} <=> r = lq /\ lpc \in {"pop", "tryExec"}

\* Such a query is held after the step if it was before.
LEMMA HeldSame ==
    ASSUME NEW r \in Query, Same(r)
    PROVE  r \in Held' <=> r \in Held
BY DEF Held, Same

\* consume takes what the admitted query needs.
LEMMA AccountsAdmit ==
    ASSUME AnyInv, PoliteInv, Accounts, Admit
    PROVE  Accounts'
<1>0. TypeOK /\ Untouched /\ RootInHand /\ \A r \in Query : Life(r)
  BY DEF AnyInv, PoliteInv, LifeCycle
<1>1. /\ lpc = "check" /\ lpc' = "pop" /\ lq \in Query /\ lq' = lq /\ Consume(lq)
      /\ UNCHANGED <<state, fpc, conc, mem>>
  BY <1>0 DEF Admit, TypeOK, fieldVars, planVars
<1>2. InQueue(lq) /\ state[lq] \in {"Planning", "Requeueing"}
  BY <1>0, <1>1, HeapWaits DEF RootInHand
<1>3. lq \notin Held
  BY <1>1, <1>2 DEF Held, InQueue, Idle
<1>4. Held' = Held \cup {lq}
  <2>1. \A r \in Query : r # lq => (r \in Held' <=> r \in Held)
    BY <1>1, HeldSame DEF Same
  <2>2. lq \in Held'
    BY <1>1 DEF Held
  <2>3. Held \subseteq Query /\ Held' \subseteq Query
    BY DEF Held
  <2>4. QED
    BY <1>1, <2>1, <2>2, <2>3
<1>5. /\ SumOver(conc, Held \cup {lq}) = conc[lq] + SumOver(conc, Held)
      /\ SumOver(Limits, Held \cup {lq}) = Limits[lq] + SumOver(Limits, Held)
  BY <1>0, <1>1, <1>3, HeldTyped, SumAdd
<1>6. conc' = conc /\ Limits' = Limits
  BY <1>1 DEF Limits
<1>7. /\ availableConcurrency' = availableConcurrency - conc[lq]
      /\ availableMemory' = availableMemory - Limits[lq]
  BY <1>1 DEF Consume, Limits
<1>8. QED
  BY <1>0, <1>1, <1>4, <1>5, <1>6, <1>7, HeldTyped, QuotaAssumption DEF Accounts

\* free gives back what the finished query had taken.
LEMMA AccountsFree ==
    ASSUME AnyInv, PoliteInv, Accounts, NEW f \in Finisher, NEW q \in Query, ReceiveDone(f, q)
    PROVE  Accounts'
<1>0. TypeOK /\ Untouched /\ RootInHand /\ \A r \in Query : Life(r)
  BY DEF AnyInv, PoliteInv, LifeCycle
<1>1. /\ lpc = "select" /\ lpc' = "peek" /\ lq' = lq /\ fpc[f][q] = "send"
      /\ GotoF(f, q, "close") /\ Free(q)
      /\ UNCHANGED <<state, conc, mem>>
  BY ZenonT(30) DEF ReceiveDone, fieldVars, planVars
<1>2. (f = "setErr" /\ Failing(q)) \/ (f = "Done" /\ Ending(q))
  BY ZenonT(30), <1>0, <1>1, WhichPhase
<1>3. /\ fpc'[f][q] = "close"
      /\ \A g \in Finisher \ {f} : fpc'[g][q] = fpc[g][q]
      /\ \A g \in Finisher, r \in Query : r # q => fpc'[g][r] = fpc[g][r]
  BY ZenonT(30), <1>0, <1>1, OneFinisherMoves
<1>4. /\ state[q] # "Executing"
      /\ \A g \in Finisher \ {f} : fpc[g][q] # "send"
  BY <1>1, <1>2 DEF Failing, Ending, Away, Finisher
<1>5. q \in Held
  BY <1>1 DEF Held
<1>6. Held' = Held \ {q}
  <2>1. \A r \in Query : r # q => (r \in Held' <=> r \in Held)
    BY <1>1, <1>3, HeldSame DEF Same
  <2>2. q \notin Held'
    BY <1>1, <1>3, <1>4 DEF Held
  <2>3. Held \subseteq Query /\ Held' \subseteq Query
    BY DEF Held
  <2>4. QED
    BY <2>1, <2>2, <2>3
<1>7. /\ SumOver(conc, Held) = conc[q] + SumOver(conc, Held \ {q})
      /\ SumOver(Limits, Held) = Limits[q] + SumOver(Limits, Held \ {q})
  <2>1. IsFiniteSet(Held) /\ \A r \in Held : conc[r] \in Int /\ Limits[r] \in Int
    BY <1>0, HeldTyped
  <2>2. QED
    BY <1>5, <2>1, SumRemove
<1>8. /\ SumOver(conc, Held \ {q}) \in Int /\ SumOver(Limits, Held \ {q}) \in Int
  <2>1. IsFiniteSet(Held \ {q})
    BY <1>0, HeldTyped, FS_RemoveElement
  <2>2. \A r \in Held \ {q} : conc[r] \in Int /\ Limits[r] \in Int
    BY <1>0, HeldTyped
  <2>3. QED
    BY <2>1, <2>2, SumInt
<1>9. conc' = conc /\ Limits' = Limits
  BY <1>1 DEF Limits
<1>10. /\ availableConcurrency' = availableConcurrency + conc[q]
       /\ availableMemory' = availableMemory + Limits[q]
  BY <1>1 DEF Free, Limits
<1>11. conc[q] \in Int /\ Limits[q] \in Int
  BY <1>0, HeldTyped
<1>12. QED
  BY <1>6, <1>7, <1>8, <1>9, <1>10, <1>11, QuotaAssumption DEF Accounts

\* Planning sets the needs of a query that holds nothing yet.
LEMMA AccountsPlan ==
    ASSUME AnyInv, PoliteInv, Accounts, NEW c \in Concurrency, NEW m \in Memory, Plan(c, m)
    PROVE  Accounts'
<1>0. TypeOK /\ Untouched /\ RootInHand /\ \A r \in Query : Life(r)
  BY DEF AnyInv, PoliteInv, LifeCycle
<1>1. /\ lpc = "plan" /\ lpc' = "check" /\ lq \in Query /\ lq' = lq
      /\ \A r \in Query : r # lq => conc'[r] = conc[r] /\ mem'[r] = mem[r]
      /\ UNCHANGED <<state, fpc, availableConcurrency, availableMemory>>
  BY <1>0 DEF Plan, TypeOK, fieldVars, quotaVars
<1>2. InQueue(lq) /\ state[lq] = "Planning"
  BY ZenonT(30), <1>0, <1>1, HeapWaits DEF RootInHand
<1>3. lq \notin Held
  BY ZenonT(30), <1>1, <1>2 DEF Held, InQueue, Idle
<1>4. Held' = Held
  <2>1. \A r \in Query : r \in Held' <=> r \in Held
    BY <1>1, HeldSame DEF Same
  <2>2. QED
    BY <2>1 DEF Held
<1>5. \A q \in Held : conc'[q] = conc[q] /\ mem'[q] = mem[q]
  BY <1>0, <1>1, <1>3, HeldTyped
<1>6. QED
  BY ZenonT(30), <1>0, <1>1, <1>4, <1>5, AccountsKept

\* A step that neither consumes nor frees, and what it does to one query.
LEMMA AccountsOne ==
    ASSUME TypeOK, Accounts, NEW q \in Query, q \in Held' <=> q \in Held,
           \A r \in Query : r # q => Same(r),
           UNCHANGED <<conc, mem, availableConcurrency, availableMemory>>
    PROVE  Accounts'
<1>1. \A r \in Query : r \in Held' <=> r \in Held
  BY HeldSame
<1>2. Held' = Held
  BY <1>1 DEF Held
<1>3. QED
  BY <1>2, AccountsKept

\* The clients and the finishers neither consume nor free.
LEMMA AccountsClient ==
    ASSUME Polite, AnyInv, PoliteInv, Accounts, NEW q \in Query,
           Client(q) \/ Finish(q) \/ ReceiveNew(q)
    PROVE  Accounts'
<1> USE DEF fieldVars, planVars, heapVars, quotaVars
<1>0. TypeOK /\ Untouched /\ RootInHand /\ \A r \in Query : Life(r)
  BY DEF AnyInv, PoliteInv, LifeCycle
<1>1. ASSUME Compile(q) \/ \E p \in Priority : Enqueue(q, p) PROVE Accounts'
  <2>1. /\ cpc[q] \in Early
        /\ \E s \in {"Compiling", "Queueing"} : state' = [state EXCEPT ![q] = s]
        /\ UNCHANGED <<lpc, lq, fpc, conc, mem, availableConcurrency, availableMemory>>
    BY ZenonT(30), <1>1 DEF Compile, Enqueue, SetState, Early
  <2>2. state[q] # "Executing" /\ state'[q] # "Executing"
    BY <1>0, <2>1 DEF Untouched, TypeOK
  <2>3. q \in Held' <=> q \in Held
    BY ZenonT(30), <2>1, <2>2 DEF Held
  <2>4. \A r \in Query : r # q => Same(r)
    BY <1>0, <2>1 DEF Same, TypeOK
  <2>5. QED
    BY <1>0, <2>1, <2>3, <2>4, AccountsOne
<1>2. ASSUME CompileFails(q) \/ ValidateFails(q) \/ ReceiveResults(q) \/ ReceiveClosed(q)
             \/ ReceiveNew(q)
      PROVE  Accounts'
  <2>1. /\ (lpc \notin {"pop", "tryExec"} /\ lpc' \notin {"pop", "tryExec"}) \/ lpc' = lpc
        /\ UNCHANGED <<lq, state, fpc, conc, mem, availableConcurrency, availableMemory>>
    BY ZenonT(30), <1>2 DEF CompileFails, ValidateFails, ReceiveResults, ReceiveClosed, ReceiveNew
  <2>2. \A r \in Query : Same(r)
    BY <2>1 DEF Same
  <2>3. QED
    BY <1>0, <2>1, <2>2, HeldSame, AccountsOne
<1>3. ASSUME CallDone(q) \/ CallCancel(q) PROVE Accounts'
  <2>1. PICK f \in Finisher : GotoF(f, q, "called") /\ fpc[f][q] = "idle"
    BY ZenonT(30), <1>3 DEF CallDone, CallCancel, Call, GotoF, Finisher
  <2>2. /\ fpc'[f][q] = "called" /\ \A g \in Finisher \ {f} : fpc'[g][q] = fpc[g][q]
        /\ \A g \in Finisher, r \in Query : r # q => fpc'[g][r] = fpc[g][r]
    <3>1. TypeOK /\ GotoF(f, q, "called")
      BY <1>0, <2>1
    <3>2. QED
      BY <3>1, OneFinisherMoves
  <2>3. UNCHANGED <<lpc, lq, state, conc, mem, availableConcurrency, availableMemory>>
    BY ZenonT(30), <1>3 DEF CallDone, CallCancel
  <2>4. (q \in Held' <=> q \in Held) /\ \A r \in Query : r # q => Same(r)
    BY <2>1, <2>2, <2>3 DEF Held, Same
  <2>5. QED
    BY <1>0, <2>3, <2>4, AccountsOne
<1>4. ASSUME NEW f \in Finisher, Close(f, q) PROVE Accounts'
  <2>1. PICK l \in {"panicked", "returned"} : GotoF(f, q, l)
    BY ZenonT(30), <1>4 DEF Close
  <2>2. /\ fpc'[f][q] = l /\ \A g \in Finisher \ {f} : fpc'[g][q] = fpc[g][q]
        /\ \A g \in Finisher, r \in Query : r # q => fpc'[g][r] = fpc[g][r]
    BY <1>0, <2>1 DEF TypeOK, GotoF
  <2>3. /\ UNCHANGED <<lpc, lq, state, conc, mem, availableConcurrency, availableMemory>>
        /\ fpc[f][q] = "close"
    BY ZenonT(30), <1>4 DEF Close
  <2>4. (q \in Held' <=> q \in Held) /\ \A r \in Query : r # q => Same(r)
    BY ZenonT(30), <2>2, <2>3 DEF Held, Same
  <2>5. QED
    BY ZenonT(30), <1>0, <2>3, <2>4, AccountsOne
<1>5. ASSUME Done(q) PROVE Accounts'
  <2>1. /\ fpc["Done"][q] = "called"
        /\ UNCHANGED <<lpc, lq, conc, mem, availableConcurrency, availableMemory>>
    BY ZenonT(30), <1>0, <1>5, DoneCases
  <2>2. Running(q) \/ Failed(q)
    BY ZenonT(30), <1>0, <2>1, WhichPhase
  <2>3. \/ Running(q) /\ state' = [state EXCEPT ![q] = "Finished"] /\ GotoF("Done", q, "send")
        \/ Failed(q) /\ UNCHANGED state /\ GotoF("Done", q, "returned")
    <3>1. CASE Running(q)
      <4>1. state[q] = "Executing"
        BY ZenonT(30), <3>1 DEF Running
      <4>2. QED
        BY ZenonT(30), <1>0, <1>5, <3>1, <4>1, DoneCases DEF LockForFinish, SetState
    <3>2. CASE Failed(q)
      <4>1. state[q] = "Errored"
        BY ZenonT(30), <3>2 DEF Failed
      <4>2. QED
        BY ZenonT(30), <1>0, <1>5, <3>2, <4>1, DoneCases
    <3>3. QED
      BY <2>2, <3>1, <3>2
  <2>4. /\ fpc'["Done"][q] = IF Running(q) THEN "send" ELSE "returned"
        /\ \A g \in Finisher \ {"Done"} : fpc'[g][q] = fpc[g][q]
        /\ \A g \in Finisher, r \in Query : r # q => fpc'[g][r] = fpc[g][r]
    <3>1. "Done" \in Finisher
      BY DEF Finisher
    <3>2. Failed(q) => ~Running(q)
      BY ZenonT(30) DEF Running, Failed
    <3>3. CASE Running(q)
      <4>1. TypeOK /\ GotoF("Done", q, "send")
        BY <1>0, <2>3, <3>2, <3>3
      <4>2. QED
        BY <3>1, <3>3, <4>1, OneFinisherMoves
    <3>4. CASE Failed(q)
      <4>1. TypeOK /\ GotoF("Done", q, "returned")
        BY <1>0, <2>3, <3>2, <3>4
      <4>2. QED
        BY <3>1, <3>2, <3>4, <4>1, OneFinisherMoves
    <3>5. QED
      BY <2>2, <3>3, <3>4
  <2>5. q \in Held' <=> q \in Held
    <3>1. CASE Running(q)
      <4>1. q \in Held
        BY ZenonT(30), <3>1 DEF Held, Running
      <4>2. q \in Held'
        BY ZenonT(30), <2>4, <3>1 DEF Held, Finisher
      <4>3. QED
        BY <4>1, <4>2
    <3>2. CASE ~Running(q)
      <4>1. Failed(q) /\ state' = state
        BY <2>3, <3>2
      <4>2. QED
        BY ZenonT(30), <2>1, <2>4, <3>2, <4>1 DEF Held, Finisher
    <3>3. QED
      BY <3>1, <3>2
  <2>6. \A r \in Query : r # q => Same(r)
    BY ZenonT(30), <1>0, <2>1, <2>3, <2>4 DEF Same, TypeOK
  <2>7. QED
    BY ZenonT(30), <1>0, <2>1, <2>5, <2>6, AccountsOne
<1>6. ASSUME SetErr(q) PROVE Accounts'
  <2>1. /\ fpc["setErr"][q] = "called" /\ GotoF("setErr", q, "send")
        /\ state' = [state EXCEPT ![q] = "Errored"]
        /\ UNCHANGED <<lpc, lq, conc, mem, availableConcurrency, availableMemory>>
    BY <1>6 DEF SetErr, LockForFinish, SetState
  <2>2. state[q] = "Executing"
    <3>1. Failing(q)
      BY ZenonT(30), <1>0, <2>1, WhichPhase
    <3>2. QED
      BY ZenonT(30), <2>1, <3>1 DEF Failing
  <2>3. /\ fpc'["setErr"][q] = "send"
        /\ \A g \in Finisher, r \in Query : r # q => fpc'[g][r] = fpc[g][r]
    <3>1. "setErr" \in Finisher
      BY DEF Finisher
    <3>2. TypeOK /\ GotoF("setErr", q, "send")
      BY <1>0, <2>1
    <3>3. QED
      BY <3>1, <3>2, OneFinisherMoves
  <2>4. q \in Held /\ q \in Held'
    BY ZenonT(30), <2>2, <2>3 DEF Held, Finisher
  <2>5. \A r \in Query : r # q => Same(r)
    BY ZenonT(30), <1>0, <2>1, <2>3 DEF Same, TypeOK
  <2>6. QED
    BY ZenonT(30), <1>0, <2>1, <2>4, <2>5, AccountsOne
<1>7. ~Cancel(q)
  BY PoliteNoCancel
<1>8. QED
  BY <1>1, <1>2, <1>3, <1>4, <1>5, <1>6, <1>7 DEF Client, Finish

\* Neither do the steps of the run goroutine other than Admit and ReceiveDone.
LEMMA AccountsProcess ==
    ASSUME Polite, AnyInv, PoliteInv, Accounts, Process
    PROVE  Accounts'
<1> USE DEF fieldVars, planVars, heapVars, quotaVars
<1>0. TypeOK /\ Untouched /\ RootInHand /\ LifeCycle /\ \A r \in Query : Life(r)
  BY DEF AnyInv, PoliteInv, LifeCycle
<1>1. ASSUME PeekEmpty \/ Peek \/ Refuse \/ Pop \/ Execute \/ SetResults PROVE Accounts'
  <2>1. UNCHANGED <<state, fpc, conc, mem, availableConcurrency, availableMemory>>
    BY ZenonT(30), <1>1 DEF PeekEmpty, Peek, Refuse, Pop, Execute, SetResults
  <2>2. \/ lpc \notin {"pop", "tryExec"} /\ lpc' \notin {"pop", "tryExec"}
        \/ lpc \in {"pop", "tryExec"} /\ lpc' \in {"pop", "tryExec"} /\ lq' = lq
    BY ZenonT(30), <1>1 DEF PeekEmpty, Peek, Refuse, Pop, Execute, SetResults
  <2>3. \A r \in Query : Same(r)
    BY <2>1, <2>2 DEF Same
  <2>4. Held' = Held
    BY ZenonT(30), <2>3, HeldSame DEF Held
  <2>5. QED
    BY ZenonT(30), <1>0, <2>1, <2>4, AccountsKept
<1>2. ASSUME TryPlan \/ TryRequeue PROVE Accounts'
  <2>1. lq \in Query /\ lpc \in {"tryPlan", "tryRequeue"} /\ lpc' \in {"plan", "check", "select"}
    BY ZenonT(30), <1>0, <1>2 DEF TryPlan, TryRequeue, TypeOK
  <2>2. /\ \/ state' = state
           \/ state[lq] \in {"Queueing", "Planning"}
              /\ \E s \in {"Planning", "Requeueing"} : state' = [state EXCEPT ![lq] = s]
        /\ UNCHANGED <<fpc, conc, mem, availableConcurrency, availableMemory>>
    BY <1>2 DEF TryPlan, TryRequeue, SetState
  <2>3. /\ state'[lq] = "Executing" <=> state[lq] = "Executing"
        /\ \A r \in Query : r # lq => state'[r] = state[r]
    BY <1>0, <2>1, <2>2 DEF TypeOK
  <2>4. lq \in Held' <=> lq \in Held
    BY ZenonT(30), <2>1, <2>2, <2>3 DEF Held
  <2>5. \A r \in Query : r # lq => Same(r)
    BY <2>1, <2>2, <2>3 DEF Same
  <2>6. QED
    BY <1>0, <2>1, <2>2, <2>4, <2>5, AccountsOne
<1>3. ASSUME TryExec PROVE Accounts'
  <2>1. lpc = "tryExec" /\ lq \in Query /\ InHand(lq)
    BY <1>0, <1>3, PoppedInHand DEF TryExec
  <2>2. /\ lpc' = "execute" /\ lq' = lq /\ state' = [state EXCEPT ![lq] = "Executing"]
        /\ UNCHANGED <<fpc, conc, mem, availableConcurrency, availableMemory>>
    BY <1>3, <2>1 DEF TryExec, SetState, InHand
  <2>3. /\ state'[lq] = "Executing"
        /\ \A r \in Query : r # lq => state'[r] = state[r]
    BY <1>0, <2>1, <2>2 DEF TypeOK
  <2>4. lq \in Held' /\ lq \in Held
    BY ZenonT(30), <2>1, <2>3 DEF Held
  <2>5. \A r \in Query : r # lq => Same(r)
    BY <2>1, <2>2, <2>3 DEF Same
  <2>6. QED
    BY <1>0, <2>1, <2>2, <2>4, <2>5, AccountsOne
<1>4. ASSUME ExecuteFails PROVE Accounts'
  <2>1. lpc = "execute" /\ lq \in Query /\ InHand(lq)
    BY <1>0, <1>4, PoppedInHand DEF ExecuteFails
  <2>2. /\ lpc' = "select" /\ GotoF("setErr", lq, "called")
        /\ UNCHANGED <<state, conc, mem, availableConcurrency, availableMemory>>
    BY <1>4 DEF ExecuteFails, ReportError, Call, GotoF
  <2>3. \A g \in Finisher, r \in Query : r # lq => fpc'[g][r] = fpc[g][r]
    <3>1. "setErr" \in Finisher
      BY DEF Finisher
    <3>2. QED
      BY <1>0, <2>1, <2>2, <3>1, OneFinisherMoves
  <2>4. lq \in Held' /\ lq \in Held
    BY <2>1, <2>2 DEF Held, InHand
  <2>5. \A r \in Query : r # lq => Same(r)
    BY <2>1, <2>2, <2>3 DEF Same
  <2>6. QED
    BY <1>0, <2>1, <2>2, <2>4, <2>5, AccountsOne
<1>5. ~PlanFails
  BY DEF PlanFails, Polite
<1>6. QED
  BY <1>1, <1>2, <1>3, <1>4, <1>5, AccountsAdmit, AccountsPlan DEF Process

-----------------------------------------------------------------------------
(* The order of the heap, for clients that wait.                           *)

\* The root of the heap has the least priority value, and so had the query that run
\* has popped and not yet started.
HeapOrder ==
    /\ top = None => rest = {}
    /\ \A r \in rest : prio[top] <= prio[r]
    /\ lpc = "tryExec" => \A r \in Query : r = top \/ r \in rest => prio[lq] <= prio[r]

\* A query enters the heap below one that is before it.
LEMMA OrderPush ==
    ASSUME AnyInv, PoliteInv, HeapOrder, NEW q \in Query, ReceiveNew(q)
    PROVE  HeapOrder'
<1>1. TypeOK
  BY DEF AnyInv
<1>2. lpc' = "peek" /\ prio' = prio /\ HeapPush(q)
  BY DEF ReceiveNew
<1>3. \A r \in Query : prio[r] \in Nat
  BY <1>1 DEF TypeOK
<1>4. rest \subseteq Query /\ top \in Query \cup {None}
  BY <1>1 DEF TypeOK
<1>5. CASE top = None
  BY <1>2, <1>3, <1>4, <1>5, QueryAssumption DEF HeapPush, HeapOrder
<1>6. CASE top # None /\ prio[q] < prio[top]
  BY <1>2, <1>3, <1>4, <1>6, QueryAssumption DEF HeapPush, HeapOrder
<1>7. CASE top # None /\ ~(prio[q] < prio[top])
  BY <1>2, <1>3, <1>4, <1>7, QueryAssumption DEF HeapPush, HeapOrder
<1>8. QED
  BY <1>5, <1>6, <1>7

\* The least of what is left becomes the root, and nothing left is before what is popped.
LEMMA OrderPop ==
    ASSUME AnyInv, PoliteInv, HeapOrder, Pop
    PROVE  HeapOrder'
<1>0. TypeOK /\ Untouched /\ RootInHand /\ \A r \in Query : Life(r)
  BY DEF AnyInv, PoliteInv, LifeCycle
<1>1. lpc = "pop" /\ lq = top /\ top \in Query
  BY <1>0, QueryAssumption DEF Pop, TypeOK, RootInHand
<1>2. InQueue(top)
  BY <1>0, <1>1, HeapWaits
<1>3. lpc' = "tryExec" /\ lq' = lq /\ prio' = prio /\ HeapPop
  BY ZenonT(30), <1>1, <1>2, QueryAssumption DEF Pop, IsOK, InQueue
<1>4. rest \subseteq Query /\ \A r \in Query : prio[r] \in Nat
  BY <1>0 DEF TypeOK
<1>5. CASE rest = {}
  BY <1>1, <1>3, <1>4, <1>5, QueryAssumption DEF HeapPop, HeapOrder
<1>6. CASE rest # {}
  BY <1>1, <1>3, <1>4, <1>6, QueryAssumption DEF HeapPop, HeapOrder
<1>7. QED
  BY <1>5, <1>6

\* No other step changes the heap or the priority of a query in it.
LEMMA OrderStep == Polite /\ AnyInv /\ PoliteInv /\ HeapOrder /\ Next => HeapOrder'
<1> SUFFICES ASSUME Polite, AnyInv, PoliteInv, HeapOrder, Next PROVE HeapOrder'
  OBVIOUS
<1> USE DEF fieldVars, planVars, heapVars, quotaVars
<1>0. TypeOK /\ Untouched /\ RootInHand /\ LifeCycle /\ \A r \in Query : Life(r)
  BY DEF AnyInv, PoliteInv, LifeCycle
<1>1. ASSUME NEW q \in Query, NEW p \in Priority, Enqueue(q, p) PROVE HeapOrder'
  <2>1. /\ cpc[q] \in Early /\ prio' = [prio EXCEPT ![q] = p]
        /\ UNCHANGED <<lpc, lq, top, rest>>
    BY ZenonT(30), <1>1 DEF Enqueue, Early
  <2>2. q # top /\ q \notin rest /\ q # lq
    BY ZenonT(30), <1>0, <2>1 DEF Untouched
  <2>3. \A r : r # q => prio'[r] = prio[r]
    BY <1>0, <2>1 DEF TypeOK
  <2>4. QED
    BY <1>0, <2>1, <2>2, <2>3 DEF HeapOrder, TypeOK
<1>2. ASSUME NEW q \in Query, ReceiveNew(q) PROVE HeapOrder'
  BY <1>2, OrderPush
<1>3. ASSUME Peek PROVE HeapOrder'
  <2>1. lpc = "peek" /\ top \in Query
    BY <1>0, <1>3 DEF Peek, TypeOK
  <2>2. IsOK(top)
    BY <1>0, <2>1, HeapWaits DEF IsOK, InQueue
  <2>3. lpc' = "tryPlan" /\ UNCHANGED <<top, rest, prio>>
    BY <1>3, <2>2 DEF Peek
  <2>4. QED
    BY <2>3 DEF HeapOrder
<1>4. CASE Pop
  BY <1>4, OrderPop
<1>5. ASSUME UNCHANGED <<top, rest, prio, lpc, lq>> PROVE HeapOrder'
  BY <1>5 DEF HeapOrder
<1>6. ASSUME UNCHANGED <<top, rest, prio>>, lpc' # "tryExec" PROVE HeapOrder'
  BY <1>6 DEF HeapOrder
<1>7. ASSUME NEW q \in Query, Client(q) PROVE HeapOrder'
  <2>1. (\E p \in Priority : Enqueue(q, p)) \/ UNCHANGED <<top, rest, prio, lpc, lq>>
    BY ZenonT(30), <1>7 DEF Client, Compile, CompileFails, ValidateFails, ReceiveResults, ReceiveClosed,
                CallDone, CallCancel
  <2>2. QED
    BY <1>1, <1>5, <2>1
<1>8. ASSUME NEW q \in Query, Finish(q) PROVE HeapOrder'
  <2>1. UNCHANGED <<top, rest, prio, lpc, lq>>
    BY ZenonT(30), <1>0, <1>8, DoneCases DEF Finish, Cancel, SetErr, Close
  <2>2. QED
    BY <1>5, <2>1
<1>9. ASSUME NEW q \in Query, Receive(q) PROVE HeapOrder'
  <2>1. ReceiveNew(q) \/ (UNCHANGED <<top, rest, prio>> /\ lpc' = "peek")
    BY ZenonT(30), <1>9 DEF Receive, ReceiveDone
  <2>2. QED
    BY <1>2, <1>6, <2>1
<1>10. ASSUME Process PROVE HeapOrder'
  <2>1. \/ Peek \/ Pop
        \/ UNCHANGED <<top, rest, prio>> /\ lpc' # "tryExec"
    <3>1. ASSUME NEW c \in Concurrency, NEW m \in Memory, Plan(c, m)
          PROVE  UNCHANGED <<top, rest, prio>> /\ lpc' # "tryExec"
      BY <3>1 DEF Plan
    <3>2. ASSUME PeekEmpty \/ TryPlan \/ PlanFails \/ Admit \/ Refuse
          PROVE  UNCHANGED <<top, rest, prio>> /\ lpc' # "tryExec"
      BY ZenonT(30), <3>2 DEF PeekEmpty, TryPlan, PlanFails, ReportError, Admit, Refuse
    <3>3. ASSUME TryRequeue \/ TryExec \/ Execute \/ ExecuteFails \/ SetResults
          PROVE  UNCHANGED <<top, rest, prio>> /\ lpc' # "tryExec"
      BY ZenonT(30), <3>3 DEF TryRequeue, TryExec, Execute, ExecuteFails, ReportError, SetResults
    <3>4. QED
      BY <1>10, <3>1, <3>2, <3>3 DEF Process
  <2>2. QED
    BY <1>3, <1>4, <1>6, <2>1
<1>11. QED
  BY <1>7, <1>8, <1>9, <1>10 DEF Next

\* Only tryExec makes a query Executing.
LEMMA StartsInTryExec ==
    ASSUME TypeOK, Next, NEW q \in Query, state[q] # "Executing", state'[q] = "Executing"
    PROVE  TryExec /\ q = lq
<1> USE DEF fieldVars
<1>1. ASSUME NEW r \in Query, Client(r) PROVE FALSE
  <2>1. UNCHANGED state \/ \E s \in {"Compiling", "Queueing"} : state' = [state EXCEPT ![r] = s]
    BY ZenonT(30), <1>1 DEF Client, Compile, CompileFails, Enqueue, ValidateFails, ReceiveResults,
                ReceiveClosed, CallDone, CallCancel, SetState
  <2>2. QED
    BY <2>1 DEF TypeOK
<1>2. ASSUME NEW r \in Query, Finish(r) PROVE FALSE
  <2>1. \/ UNCHANGED state
        \/ \E s \in {"Finished", "Canceled", "Errored"} : state' = [state EXCEPT ![r] = s]
    BY ZenonT(30), <1>2, DoneCases DEF Finish, Cancel, SetErr, Close, SetState
  <2>2. QED
    BY <2>1 DEF TypeOK
<1>3. ASSUME NEW r \in Query, Receive(r) PROVE FALSE
  BY ZenonT(30), <1>3 DEF Receive, ReceiveDone, ReceiveNew
<1>4. ASSUME Process, ~TryExec PROVE FALSE
  <2>1. UNCHANGED state \/ \E s \in {"Planning", "Requeueing"} : state' = [state EXCEPT ![lq] = s]
    BY ZenonT(30), <1>4 DEF Process, PeekEmpty, Peek, TryPlan, Plan, PlanFails, Admit, Refuse, TryRequeue,
                Pop, Execute, ExecuteFails, SetResults, SetState
  <2>2. QED
    BY <2>1 DEF TypeOK
<1>5. TryExec
  BY <1>1, <1>2, <1>3, <1>4 DEF Next
<1>6. state' = state \/ state' = [state EXCEPT ![lq] = "Executing"]
  BY <1>5 DEF TryExec, SetState
<1>7. QED
  BY <1>5, <1>6 DEF TypeOK

\* A query that waits to be executed and that run has not popped is in the heap.
LEMMA OrderedStart ==
    ASSUME AnyInv, PoliteInv, HeapOrder, Next, NEW q \in Query, NEW r \in Query,
           state[q] # "Executing", state'[q] = "Executing",
           r # q, cpc[r] = "waiting", state[r] \in {"Queueing", "Planning", "Requeueing"}
    PROVE  prio[q] <= prio[r]
<1>0. TypeOK /\ RootInHand /\ \A x \in Query : Life(x)
  BY DEF AnyInv, PoliteInv, LifeCycle
<1>1. TryExec /\ q = lq
  BY ZenonT(30), <1>0, StartsInTryExec
<1>2. lpc = "tryExec"
  BY ZenonT(30), <1>1 DEF TryExec
<1>3. InQueue(r)
  BY ZenonT(30), <1>0, <1>1, <1>2 DEF Life, Fresh, Early, InHand, Running, Failing, Failed, Ending
<1>4. QED
  BY <1>1, <1>2, <1>3 DEF HeapOrder, InQueue

-----------------------------------------------------------------------------

\* The invariant of a controller whose clients wait.
WaitInv == AnyInv /\ PoliteInv /\ Accounts /\ HeapOrder

\* It holds at the start and every step keeps it.
LEMMA WaitInvariant ==
    ASSUME Polite
    PROVE  Spec => []WaitInv
<1>1. Init => WaitInv
  <2>1. Init => AnyInv /\ PoliteInv
    BY InitAny, PoliteInit
  <2>2. Init => Held = {} /\ HeapOrder
    <3>1. Init => Held = {}
      BY DEF Init, Held, Finisher
    <3>2. Init => HeapOrder
      BY DEF Init, HeapOrder
    <3>3. QED
      BY <3>1, <3>2
  <2>3. Init /\ Held = {} => Accounts
    BY SumEmpty, QuotaAssumption DEF Init, Accounts
  <2>4. QED
    BY <2>1, <2>2, <2>3 DEF WaitInv
<1>2. WaitInv /\ [Next]_vars => WaitInv'
  <2> SUFFICES ASSUME WaitInv, [Next]_vars PROVE WaitInv'
    OBVIOUS
  <2>0. AnyInv /\ PoliteInv /\ Accounts /\ HeapOrder
    BY DEF WaitInv
  <2>1. CASE Next
    <3>1. AnyInv'
      BY <2>0, <2>1, TypeStep, RestStep DEF AnyInv
    <3>2. PoliteInv' /\ HeapOrder'
      BY <2>0, <2>1, PoliteStep, OrderStep
    <3>3. Accounts'
      BY <2>0, <2>1, AccountsClient, AccountsProcess, AccountsFree DEF Next, Receive
    <3>4. QED
      BY <3>1, <3>2, <3>3 DEF WaitInv
  <2>2. CASE UNCHANGED vars
    <3>1. UNCHANGED <<state, ready, closed, err, plan, conc, mem, prio, lpc, lq, top, rest, cpc,
                      fpc, crashed, mu, queries, gauge, availableConcurrency, availableMemory>>
      BY <2>2 DEF vars, fieldVars, planVars, heapVars, quotaVars
    <3>2. AnyInv'
      BY ZenonT(30), <2>0, <3>1 DEF AnyInv, TypeOK, Untouched, ExecutedOnce, ErrIffErrored, NotOverdrawn
    <3>3. PoliteInv'
      <4>1. ASSUME NEW r \in Query PROVE Kept(r)
        BY ZenonT(30), <3>1 DEF Kept
      <4>2. LifeCycle'
        BY <2>0, <4>1, LifeKept DEF LifeCycle, PoliteInv
      <4>3. RootInHand'
        BY <2>0, <3>1 DEF RootInHand, PoliteInv
      <4>4. QED
        BY <2>0, <3>1, <4>2, <4>3 DEF PoliteInv
    <3>4. Accounts' /\ HeapOrder'
      BY ZenonT(30), <2>0, <3>1 DEF Accounts, Held, Limits, HeapOrder
    <3>5. QED
      BY <3>2, <3>3, <3>4 DEF WaitInv
  <2>3. QED
    BY <2>1, <2>2
<1>3. QED
  BY <1>1, <1>2, PTL DEF Spec

\* With clients that wait for their answer and planners that succeed, every query
\* is finished at most once and nothing panics, the run goroutine never waits for a
\* mutex whose holder waits for it, and a client that finds Ready closed finds an
\* error: for any number of queries, priorities, quotas and failing executions.
THEOREM WaitingClients ==
    ASSUME Polite
    PROVE  Spec => [](SingleFinish /\ NoLockCycle /\ FailedHasError)
<1>1. WaitInv => SingleFinish /\ NoLockCycle /\ FailedHasError
  BY PoliteFacts DEF WaitInv
<1>2. QED
  BY <1>1, WaitInvariant, PTL

\* In particular finish() runs at most once for a query, so close(q.ready) never panics
\* and no resources are freed twice.
THEOREM FinishedAtMostOnce ==
    ASSUME Polite
    PROVE  Spec => []SingleFinish
BY WaitingClients, PTL

\* consume and free balance, for any number of queries, any quotas and any plans: what
\* is available and what the queries between their admission and the receipt of their
\* finish() hold add up to the quotas.
THEOREM QuotasBalance ==
    ASSUME Polite
    PROVE  Spec => []QuotaAccounting
<1>1. WaitInv => QuotaAccounting
  BY DEF WaitInv, AnyInv, NotOverdrawn, Accounts, Limits, QuotaAccounting
<1>2. QED
  BY <1>1, WaitInvariant, PTL

\* A client that waits has a query in one of the phases that lead to an answer.
LEMMA WhereWaiting ==
    ASSUME AnyInv, PoliteInv
    PROVE  NoQueryLost
<1>0. QueryAssumption /\ TypeOK /\ \A x \in Query : Life(x)
  BY QueryAssumption DEF AnyInv, PoliteInv, LifeCycle
<1> SUFFICES ASSUME NEW q \in Query, cpc[q] = "waiting"
             PROVE  \/ q \in Queued \/ q = lq \/ ready[q] = 1 \/ q \in closed
                    \/ \E f \in Finisher : fpc[f][q] \in {"called", "send", "close"}
  BY DEF NoQueryLost
<1>1. CASE Fresh(q)
  BY <1>1 DEF Fresh, Early
<1>2. CASE InQueue(q)
  BY <1>2, QueryAssumption DEF InQueue, Queued
<1>3. CASE InHand(q)
  BY <1>3 DEF InHand
<1>4. CASE Running(q)
  BY <1>4 DEF Running
<1>5. CASE Failing(q)
  BY <1>5 DEF Failing, Finisher
<1>6. CASE Failed(q) \/ Ending(q)
  BY <1>6 DEF Failed, Ending
<1>7. QED
  BY ZenonT(30), <1>0, <1>1, <1>2, <1>3, <1>4, <1>5, <1>6 DEF Life

\* The query of a client that waits on Ready is in the heap, in the hands of run,
\* answered or being finished.
THEOREM NobodyForgotten ==
    ASSUME Polite
    PROVE  Spec => []NoQueryLost
<1>1. WaitInv => NoQueryLost
  BY WhereWaiting DEF WaitInv
<1>2. QED
  BY <1>1, WaitInvariant, PTL

\* "Queries with a lower value will move to the front of the priority queue": no query
\* starts to execute while one with a lower value waits.
THEOREM LowerValueFirst ==
    ASSUME Polite
    PROVE  Spec => PriorityOrder
<1> DEFINE Ordered ==
        \A q, r \in Query :
          /\ state[q] # "Executing" /\ state'[q] = "Executing"
          /\ r # q /\ cpc[r] = "waiting"
          /\ state[r] \in {"Queueing", "Planning", "Requeueing"}
          => prio[q] <= prio[r]
<1>1. WaitInv /\ [Next]_vars => [Ordered]_vars
  <2> SUFFICES ASSUME WaitInv, Next PROVE Ordered
    OBVIOUS
  <2>1. QED
    BY OrderedStart DEF WaitInv
<1>2. PriorityOrder <=> [][Ordered]_vars
  BY DEF PriorityOrder
<1> HIDE DEF Ordered
<1>3. QED
  BY <1>1, <1>2, WaitInvariant, PTL DEF Spec
=============================================================================
