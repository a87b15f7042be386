-------------------------- MODULE ExecutionProofs --------------------------
(***************************************************************************)
(* For any results, chains, capacities, workers and faults: a sink is      *)
(* closed once and gets no block afterwards, and a result that is read to  *)
(* its end without an error is complete.                                   *)
(***************************************************************************)
EXTENDS Execution, TLAPS

USE SMTT(30), ZenonT(30)

-----------------------------------------------------------------------------
(* Who owns a transport.                                                   *)

\* The types, by what the actions change together.
TypedQueue ==
    /\ setting \in Settings
    /\ unread \in [Results -> Nat \cup {-1}]
    /\ pending \in [T -> Nat]
    /\ fin \in [T -> {"none", "ok", "error"}]
    /\ sched \in [T -> {"idle", "waiting", "queued", "running", "finished"}]
    /\ \A e \in entering : e = <<e[1], e[2]>> /\ e[2] \in T

TypedPool ==
    /\ wpc \in [Worker -> {"select", "run", "yield", "reschedule", "recover", "done"}]
    /\ DOMAIN job = Worker
    /\ \A w \in Worker : wpc[w] \in {"run", "yield", "reschedule", "recover"} => job[w] \in T

TypedSink ==
    /\ blocks \in [Results -> Seq({"block", "error"})]
    /\ eof \subseteq Results /\ aborted \subseteq Results
    /\ reading \in [Results -> {"no", "yes", "ok", "error"}]
    /\ got \in [Results -> Nat]

\* A worker that has taken a transport from d.work and not given it back.
Holding == {"run", "yield", "recover"}

\* A transport in state running has at most one worker; one caller waits to send it; a
\* sink is closed by the end of its last transport.
Token ==
    /\ \A w \in Worker : wpc[w] \in Holding => sched[job[w]] = "running"
    /\ \A w, v \in Worker :
          wpc[w] \in Holding /\ wpc[v] \in Holding /\ job[w] = job[v] => w = v
    /\ \A e \in entering : sched[e[2]] = "waiting"
    /\ \A e, g \in entering : e[2] = g[2] => e = g
    /\ \A r \in eof : sched[<<r, Depth>>] = "finished"

PoolInv == TypedQueue /\ TypedPool /\ TypedSink /\ Token

\* The query is chosen once.
LEMMA SettingFixed ==
    ASSUME [Next]_vars
    PROVE  /\ setting' = setting /\ T' = T /\ Results' = Results /\ Depth' = Depth
           /\ Blocks' = Blocks /\ Faults' = Faults
<1>1. setting' = setting
  BY DEF Next, vars, Source, Read, Work, Wait, Return, Fault
<1>2. QED
  BY <1>1 DEF T, Results, Depth, Blocks, Faults

\* What transports are.
LEMMA Chain ==
    ASSUME setting \in Settings
    PROVE  /\ Depth \in Nat /\ Depth > 0 /\ Blocks \in Nat
           /\ \A r \in Results, i \in 1..Depth : <<r, i>> \in T
           /\ \A r \in Results : <<r, 1>> \in T /\ <<r, Depth>> \in T
           /\ \A t \in T : t[1] \in Results /\ t[2] \in 1..Depth /\ t = <<t[1], t[2]>>
           /\ \A t \in T : t[2] # Depth => t[2] + 1 \in 1..Depth
<1>1. Depth \in Nat /\ Depth > 0 /\ Blocks \in Nat
  BY SettingsAssumption DEF Depth, Blocks
<1>2. 1 \in 1..Depth /\ Depth \in 1..Depth /\ \A i \in 1..Depth : i # Depth => i + 1 \in 1..Depth
  BY <1>1
<1>3. /\ \A r \in Results, i \in 1..Depth : <<r, i>> \in T
      /\ \A t \in T : t[1] \in Results /\ t[2] \in 1..Depth /\ t = <<t[1], t[2]>>
  BY DEF T
<1>4. QED
  BY <1>1, <1>2, <1>3

\* What schedule() makes of the state of a transport.
LEMMA WokenState ==
    ASSUME TypedQueue, NEW t \in T
    PROVE  /\ Woken(t) \in {"idle", "waiting", "queued", "running", "finished"}
           /\ sched[t] # "idle" => Woken(t) = sched[t]
           /\ sched[t] = "idle" => Woken(t) \in {"queued", "waiting"}
BY DEF TypedQueue, Woken

\* What it makes of the callers that wait.
LEMMA EnteringPush ==
    ASSUME TypedQueue, Token, NEW d \in T, NEW c, Scheduling(d, c), sched'[d] = Woken(d),
           \A x \in T : x # d /\ sched[x] = "waiting" => sched'[x] = "waiting"
    PROVE  /\ \A e \in entering' : e = <<e[1], e[2]>> /\ e[2] \in T
           /\ \A e \in entering' : sched'[e[2]] = "waiting"
           /\ \A e, g \in entering' : e[2] = g[2] => e = g
<1>1. CASE Woken(d) = "waiting" /\ sched[d] = "idle"
  <2>1. entering' = entering \cup {<<c, d>>}
    BY <1>1 DEF Scheduling
  <2>2. \A e \in entering : e[2] # d /\ e[2] \in T /\ sched[e[2]] = "waiting" /\ e = <<e[1], e[2]>>
    BY <1>1 DEF Token, TypedQueue
  <2>3. \A e, g \in entering : e[2] = g[2] => e = g
    BY DEF Token
  <2>4. \A e \in entering' : e \in entering \/ e = <<c, d>>
    BY <2>1
  <2>5. QED
    BY <1>1, <2>2, <2>3, <2>4
<1>2. CASE ~(Woken(d) = "waiting" /\ sched[d] = "idle")
  <2>1. entering' = entering
    BY <1>2 DEF Scheduling
  <2>2. sched[d] = "waiting" => sched'[d] = "waiting"
    BY WokenState
  <2>3. QED
    BY <2>1, <2>2 DEF Token, TypedQueue
<1>3. QED
  BY <1>1, <1>2

\* The owners stay as they are when nobody takes a transport.
LEMMA TokenKept ==
    ASSUME PoolInv, Depth' = Depth,
           \A v \in Worker : wpc'[v] \in Holding =>
               wpc[v] \in Holding /\ job'[v] = job[v] /\ sched'[job[v]] = sched[job[v]],
           \A e \in entering' : sched'[e[2]] = "waiting",
           \A e, g \in entering' : e[2] = g[2] => e = g,
           \A x \in T : sched[x] = "finished" => sched'[x] = "finished",
           \A r \in eof' : r \in eof \/ sched'[<<r, Depth>>] = "finished"
    PROVE  Token'
<1>1. \A r \in eof : <<r, Depth>> \in T /\ sched[<<r, Depth>>] = "finished"
  <2>1. setting \in Settings /\ eof \subseteq Results
    BY DEF PoolInv, TypedSink, TypedQueue
  <2>2. \A r \in eof : sched[<<r, Depth>>] = "finished"
    BY DEF PoolInv, Token
  <2>3. QED
    BY <2>1, <2>2, Chain
<1>2. \A r \in eof' : sched'[<<r, Depth>>] = "finished"
  BY <1>1
<1>3. \A w, v \in Worker :
          wpc'[w] \in Holding /\ wpc'[v] \in Holding /\ job'[w] = job'[v] => w = v
  BY DEF PoolInv, Token
<1>4. \A w \in Worker : wpc'[w] \in Holding => sched'[job'[w]] = "running"
  BY DEF PoolInv, Token
<1>5. QED
  BY <1>2, <1>3, <1>4 DEF Token

\* Scheduling a transport after a push takes it from nobody.
LEMMA PoolPush ==
    ASSUME PoolInv, T' = T, Depth' = Depth, NEW d \in T, NEW c,
           sched' = [sched EXCEPT ![d] = Woken(d)], Scheduling(d, c), eof' = eof,
           \A v \in Worker : wpc'[v] \in Holding => wpc[v] \in Holding /\ job'[v] = job[v]
    PROVE  /\ sched' \in [T -> {"idle", "waiting", "queued", "running", "finished"}]
           /\ \A e \in entering' : e = <<e[1], e[2]>> /\ e[2] \in T
           /\ Token'
<1>1. TypedQueue /\ Token /\ TypedPool
  BY DEF PoolInv
<1>2. sched \in [T -> {"idle", "waiting", "queued", "running", "finished"}]
  BY <1>1 DEF TypedQueue
<1>3. /\ sched' \in [T -> {"idle", "waiting", "queued", "running", "finished"}]
      /\ sched'[d] = Woken(d) /\ \A x \in T : x # d => sched'[x] = sched[x]
  BY <1>1, <1>2, WokenState
<1>4. \A x \in T : sched[x] # "idle" => sched'[x] = sched[x]
  BY <1>1, <1>3, WokenState
<1>5. /\ \A e \in entering' : e = <<e[1], e[2]>> /\ e[2] \in T
      /\ \A e \in entering' : sched'[e[2]] = "waiting"
      /\ \A e, g \in entering' : e[2] = g[2] => e = g
  BY <1>1, <1>3, EnteringPush
<1>6. \A v \in Worker : wpc[v] \in Holding => job[v] \in T /\ sched[job[v]] = "running"
  BY <1>1 DEF Holding, TypedPool, Token
<1>7. Token'
  BY <1>4, <1>5, <1>6, TokenKept
<1>8. QED
  BY <1>3, <1>5, <1>7

\* A source sends a block or its end to the first transport.
LEMMA PoolSource ==
    ASSUME PoolInv, NEW r \in Results, setting' = setting, T' = T, Results' = Results,
           Depth' = Depth, SourceBlock(r) \/ SourceEnd(r) \/ SourceReadError(r)
    PROVE  PoolInv'
<1> DEFINE t == <<r, 1>>
<1>1. t \in T /\ unread[r] \in Nat
  <2>1. setting \in Settings /\ unread[r] \in Nat \cup {-1}
    BY DEF PoolInv, TypedQueue
  <2>2. unread[r] > 0 \/ unread[r] = 0
    BY ZenonT(30) DEF SourceBlock, SourceEnd, SourceReadError
  <2>3. QED
    BY <2>1, <2>2, Chain
<1>2. UNCHANGED <<wpc, job, blocks, eof, aborted, reading, got>>
  BY ZenonT(30) DEF SourceBlock, SourceEnd, SourceReadError, poolVars, sinkVars, abortVars, readVars
<1>3. TypedPool' /\ TypedSink'
  BY <1>2 DEF PoolInv, TypedPool, TypedSink
<1>4. /\ unread' \in [Results -> Nat \cup {-1}]
      /\ pending' \in [T -> Nat]
      /\ fin' \in [T -> {"none", "ok", "error"}]
  <2>1. CASE SourceBlock(r)
    BY <1>1, <2>1 DEF SourceBlock, SourceFinish, PoolInv, TypedQueue
  <2>2. CASE SourceEnd(r) \/ SourceReadError(r)
    BY ZenonT(30), <1>1, <2>2 DEF SourceEnd, SourceReadError, SourceFinish, PoolInv, TypedQueue
  <2>3. QED
    BY <2>1, <2>2
<1>5. CASE sched[t] = "finished"
  <2>1. UNCHANGED <<sched, entering>>
    BY ZenonT(30), <1>5 DEF SourceBlock, SourceEnd, SourceReadError, SourceFinish
  <2>2. Token'
    BY <1>2, <2>1, TokenKept DEF PoolInv, Token
  <2>3. QED
    BY <1>3, <1>4, <2>1, <2>2 DEF PoolInv, TypedQueue
<1>6. CASE sched[t] # "finished"
  <2>1. sched' = [sched EXCEPT ![t] = Woken(t)] /\ Scheduling(t, r)
    BY ZenonT(30), <1>6 DEF SourceBlock, SourceEnd, SourceReadError, SourceFinish
  <2> HIDE DEF t
  <2>2. QED
    BY ZenonT(30), <1>1, <1>2, <1>3, <1>4, <2>1, PoolPush DEF PoolInv, TypedQueue
<1>7. QED
  BY <1>5, <1>6

\* A caller that waited for room sends.
LEMMA PoolEnter ==
    ASSUME PoolInv, setting' = setting, T' = T, Results' = Results, Depth' = Depth,
           NEW c, Enter(c)
    PROVE  PoolInv'
<1>1. PICK e \in entering : /\ sched' = [sched EXCEPT ![e[2]] = "queued"]
                            /\ entering' = entering \ {e}
  BY ZenonT(30) DEF Enter
<1>2. UNCHANGED <<unread, pending, fin, wpc, job, blocks, eof, aborted, reading, got>>
  BY DEF Enter, poolVars, sinkVars, abortVars, readVars
<1>3. /\ e[2] \in T /\ sched[e[2]] = "waiting"
      /\ \A g \in entering : g # e => g[2] # e[2] /\ g[2] \in T /\ sched[g[2]] = "waiting"
  BY DEF PoolInv, Token, TypedQueue
<1>4. sched \in [T -> {"idle", "waiting", "queued", "running", "finished"}]
  BY DEF PoolInv, TypedQueue
<1>5. /\ sched' \in [T -> {"idle", "waiting", "queued", "running", "finished"}]
      /\ \A x \in T : x # e[2] => sched'[x] = sched[x]
  BY <1>1, <1>3, <1>4
<1>6. \A v \in Worker : wpc[v] \in Holding => job[v] \in T /\ sched[job[v]] = "running"
  BY DEF PoolInv, Holding, TypedPool, Token
<1>7. \A g \in entering' : sched'[g[2]] = "waiting"
  BY <1>1, <1>3, <1>5
<1>8. \A g, h \in entering' : g[2] = h[2] => g = h
  BY <1>1 DEF PoolInv, Token
<1>9. Token'
  BY <1>2, <1>3, <1>5, <1>6, <1>7, <1>8, TokenKept
<1>10. QED
  BY <1>1, <1>2, <1>5, <1>9 DEF PoolInv, TypedQueue, TypedPool, TypedSink

\* A worker takes a transport that no worker has.
LEMMA PoolTake ==
    ASSUME PoolInv, setting' = setting, T' = T, Results' = Results, Depth' = Depth,
           NEW w \in Worker, NEW t \in T, Take(w, t)
    PROVE  PoolInv'
<1>1. /\ wpc[w] = "select" /\ sched[t] = "queued"
      /\ sched' = [sched EXCEPT ![t] = "running"]
      /\ wpc' = [wpc EXCEPT ![w] = "run"] /\ job' = [job EXCEPT ![w] = t]
  BY DEF Take
<1>2. UNCHANGED <<unread, pending, fin, entering, blocks, eof, aborted, reading, got>>
  BY DEF Take, sinkVars, abortVars, readVars
<1>3. /\ sched \in [T -> {"idle", "waiting", "queued", "running", "finished"}]
      /\ wpc \in [Worker -> {"select", "run", "yield", "reschedule", "recover", "done"}]
      /\ DOMAIN job = Worker
  BY DEF PoolInv, TypedQueue, TypedPool
<1>4. /\ sched' \in [T -> {"idle", "waiting", "queued", "running", "finished"}]
      /\ sched'[t] = "running" /\ \A x \in T : x # t => sched'[x] = sched[x]
  BY <1>1, <1>3
<1>5. /\ wpc' \in [Worker -> {"select", "run", "yield", "reschedule", "recover", "done"}]
      /\ DOMAIN job' = Worker /\ job'[w] = t /\ wpc'[w] = "run"
      /\ \A v \in Worker : v # w => wpc'[v] = wpc[v] /\ job'[v] = job[v]
  BY <1>1, <1>3
<1>6. \A v \in Worker : wpc[v] \in Holding =>
          v # w /\ job[v] \in T /\ sched[job[v]] = "running" /\ job[v] # t
  BY <1>1 DEF PoolInv, Holding, TypedPool, Token
<1>7. Token'
  <2>1. \A v \in Worker : wpc'[v] \in Holding => sched'[job'[v]] = "running"
    BY <1>4, <1>5, <1>6
  <2>2. \A u, v \in Worker :
            wpc'[u] \in Holding /\ wpc'[v] \in Holding /\ job'[u] = job'[v] => u = v
    BY <1>5, <1>6 DEF PoolInv, Token
  <2>3. \A e \in entering : e[2] \in T /\ sched[e[2]] = "waiting"
    BY DEF PoolInv, Token, TypedQueue
  <2>4. \A r \in eof : <<r, Depth>> \in T /\ sched[<<r, Depth>>] = "finished"
    <3>1. setting \in Settings /\ eof \subseteq Results
      BY DEF PoolInv, TypedSink, TypedQueue
    <3>2. \A r \in eof : sched[<<r, Depth>>] = "finished"
      BY DEF PoolInv, Token
    <3>3. QED
      BY <3>1, <3>2, Chain
  <2>5. \A e \in entering' : sched'[e[2]] = "waiting"
    BY <1>1, <1>2, <1>4, <2>3
  <2>6. \A r \in eof' : sched'[<<r, Depth'>>] = "finished"
    BY <1>1, <1>2, <1>4, <2>4
  <2>7. \A e, g \in entering' : e[2] = g[2] => e = g
    BY <1>2 DEF PoolInv, Token
  <2>8. QED
    BY <2>1, <2>2, <2>5, <2>6, <2>7 DEF Token
<1>8. TypedPool'
  BY <1>5 DEF PoolInv, TypedPool
<1>9. QED
  BY <1>2, <1>4, <1>7, <1>8 DEF PoolInv, TypedQueue, TypedSink

\* What is known of a worker that runs a transport.
LEMMA Owns ==
    ASSUME PoolInv, NEW w \in Worker, wpc[w] \in Holding
    PROVE  /\ job[w] \in T /\ job[w][1] \in Results /\ job[w][2] \in 1..Depth
           /\ job[w] = <<job[w][1], job[w][2]>>
           /\ sched[job[w]] = "running"
           /\ \A v \in Worker : v # w /\ wpc[v] \in Holding => job[v] # job[w]
           /\ \A e \in entering : e[2] # job[w]
           /\ \A r \in eof : <<r, Depth>> # job[w]
<1>1. job[w] \in T /\ sched[job[w]] = "running"
  BY DEF PoolInv, TypedPool, Holding, Token
<1>2. /\ \A v \in Worker : v # w /\ wpc[v] \in Holding => job[v] # job[w]
      /\ \A e \in entering : e[2] # job[w]
      /\ \A r \in eof : <<r, Depth>> # job[w]
  BY ZenonT(30), <1>1 DEF PoolInv, Token
<1>3. QED
  BY <1>1, <1>2, Chain DEF PoolInv, TypedQueue

\* How a worker moves on.
LEMMA Moves ==
    ASSUME TypedPool, T' = T, NEW w \in Worker, NEW l, wpc' = [wpc EXCEPT ![w] = l],
           l \in {"select", "run", "yield", "reschedule", "recover", "done"},
           \/ job' = job /\ (l = "done" \/ job[w] \in T)
           \/ l = "select" /\ job' = [job EXCEPT ![w] = NoJob]
    PROVE  /\ TypedPool'
           /\ wpc'[w] = l /\ \A v \in Worker : v # w => wpc'[v] = wpc[v] /\ job'[v] = job[v]
           /\ l # "select" => job' = job
<1>1. /\ wpc' \in [Worker -> {"select", "run", "yield", "reschedule", "recover", "done"}]
      /\ wpc'[w] = l /\ \A v \in Worker : v # w => wpc'[v] = wpc[v]
  BY DEF TypedPool
<1>2. DOMAIN job' = Worker /\ \A v \in Worker : v # w => job'[v] = job[v]
  BY DEF TypedPool
<1>3. \A v \in Worker : wpc'[v] \in {"run", "yield", "reschedule", "recover"} => job'[v] \in T
  BY <1>1, <1>2 DEF TypedPool
<1>4. QED
  BY <1>1, <1>2, <1>3 DEF TypedPool

\* A worker leaves its transport, idle or finished.
LEMMA PoolLeave ==
    ASSUME PoolInv, Depth' = Depth, T' = T, NEW w \in Worker, wpc[w] \in Holding, wpc'[w] \notin Holding,
           \A v \in Worker : v # w => wpc'[v] = wpc[v] /\ job'[v] = job[v],
           NEW s \in {"idle", "finished"}, sched' = [sched EXCEPT ![job[w]] = s],
           entering' = entering,
           \A r \in eof' : r \in eof \/ (s = "finished" /\ <<r, Depth>> = job[w])
    PROVE  /\ sched' \in [T -> {"idle", "waiting", "queued", "running", "finished"}]
           /\ Token'
<1>1. /\ job[w] \in T /\ sched[job[w]] = "running"
      /\ \A v \in Worker : v # w /\ wpc[v] \in Holding => job[v] # job[w] /\ job[v] \in T
      /\ \A e \in entering : e[2] # job[w] /\ e[2] \in T
  BY Owns DEF PoolInv, TypedQueue
<1>2. sched \in [T -> {"idle", "waiting", "queued", "running", "finished"}]
  BY DEF PoolInv, TypedQueue
<1>3. /\ sched' \in [T -> {"idle", "waiting", "queued", "running", "finished"}]
      /\ sched'[job[w]] = s /\ \A x \in T : x # job[w] => sched'[x] = sched[x]
  BY <1>1, <1>2
<1>4. \A v \in Worker : wpc'[v] \in Holding =>
          wpc[v] \in Holding /\ job'[v] = job[v] /\ sched'[job[v]] = sched[job[v]]
  BY <1>1, <1>3
<1>5. /\ \A e \in entering' : sched'[e[2]] = "waiting"
      /\ \A e, g \in entering' : e[2] = g[2] => e = g
  BY <1>1, <1>3 DEF PoolInv, Token
<1>6. \A x \in T : sched[x] = "finished" => sched'[x] = "finished"
  BY <1>1, <1>3
<1>7. \A r \in eof' : r \in eof \/ sched'[<<r, Depth>>] = "finished"
  BY <1>3
<1>8. QED
  BY <1>3, <1>4, <1>5, <1>6, <1>7, TokenKept

\* Exit, a panic and its recovery leave the transports alone.
LEMMA PoolExit ==
    ASSUME PoolInv, setting' = setting, T' = T, Results' = Results, Depth' = Depth,
           NEW w \in Worker, Exit(w) \/ Panic(w) \/ Recover(w)
    PROVE  PoolInv'
<1>1. UNCHANGED <<unread, pending, fin, sched, entering, job, blocks, eof, aborted,
                  reading, got>>
  BY DEF Exit, Panic, Recover, queueVars, sinkVars, abortVars, readVars
<1>2. PICK l \in {"recover", "done"} :
          wpc' = [wpc EXCEPT ![w] = l] /\ (l = "recover" => wpc[w] \in Holding)
  BY DEF Exit, Panic, Recover, Holding
<1>3. TypedPool /\ (l = "recover" => job[w] \in T)
  BY <1>2, Owns DEF PoolInv
<1>4. TypedPool' /\ wpc'[w] = l /\ \A v \in Worker : v # w => wpc'[v] = wpc[v]
  BY ZenonT(30), <1>1, <1>2, <1>3, Moves
<1>5. \A v \in Worker : wpc'[v] \in Holding => wpc[v] \in Holding
  BY <1>2, <1>4 DEF Holding
<1>6. Token'
  BY <1>1, <1>5, TokenKept DEF PoolInv, Token
<1>7. QED
  BY <1>1, <1>4, <1>6 DEF PoolInv, TypedQueue, TypedSink

\* A worker rests, or yields and schedules its transport again.
LEMMA PoolRest ==
    ASSUME PoolInv, setting' = setting, T' = T, Results' = Results, Depth' = Depth,
           NEW w \in Worker, Rest(w) \/ Yield(w)
    PROVE  PoolInv'
<1>1. /\ wpc[w] \in Holding /\ sched' = [sched EXCEPT ![job[w]] = "idle"]
      /\ UNCHANGED <<unread, pending, fin, entering, blocks, eof, aborted, reading, got>>
  BY DEF Rest, Yield, Holding, sinkVars, abortVars, readVars
<1>2. PICK l \in {"select", "reschedule"} :
          /\ wpc' = [wpc EXCEPT ![w] = l]
          /\ IF l = "select" THEN job' = [job EXCEPT ![w] = NoJob] ELSE job' = job
  BY DEF Rest, Yield, Release, Again
<1>3. TypedPool /\ job[w] \in T
  BY <1>1, Owns DEF PoolInv
<1>4. TypedPool' /\ wpc'[w] = l /\ \A v \in Worker : v # w => wpc'[v] = wpc[v] /\ job'[v] = job[v]
  BY ZenonT(30), <1>2, <1>3, Moves
<1>5. wpc'[w] \notin Holding
  BY <1>2, <1>4 DEF Holding
<1>6. /\ sched' \in [T -> {"idle", "waiting", "queued", "running", "finished"}]
      /\ Token'
  BY ZenonT(30), <1>1, <1>4, <1>5, PoolLeave
<1>7. QED
  BY <1>1, <1>4, <1>6 DEF PoolInv, TypedQueue, TypedSink

\* The second half of a yield.
LEMMA PoolReschedule ==
    ASSUME PoolInv, setting' = setting, T' = T, Results' = Results, Depth' = Depth,
           NEW w \in Worker, Reschedule(w)
    PROVE  PoolInv'
<1>1. /\ wpc[w] = "reschedule" /\ sched' = [sched EXCEPT ![job[w]] = Woken(job[w])]
      /\ Scheduling(job[w], w)
      /\ wpc' = [wpc EXCEPT ![w] = "select"] /\ job' = [job EXCEPT ![w] = NoJob]
      /\ UNCHANGED <<unread, pending, fin, blocks, eof, aborted, reading, got>>
  BY DEF Reschedule, Release, sinkVars, abortVars, readVars
<1>2. TypedPool /\ job[w] \in T
  BY <1>1 DEF PoolInv, TypedPool
<1>3. /\ TypedPool' /\ wpc'[w] = "select"
      /\ \A v \in Worker : v # w => wpc'[v] = wpc[v] /\ job'[v] = job[v]
  BY ZenonT(30), <1>1, <1>2, Moves
<1>4. \A v \in Worker : wpc'[v] \in Holding => wpc[v] \in Holding /\ job'[v] = job[v]
  BY <1>3 DEF Holding
<1>5. /\ sched' \in [T -> {"idle", "waiting", "queued", "running", "finished"}]
      /\ \A e \in entering' : e = <<e[1], e[2]>> /\ e[2] \in T
      /\ Token'
  BY ZenonT(30), <1>1, <1>2, <1>4, PoolPush
<1>6. QED
  BY <1>1, <1>3, <1>5 DEF PoolInv, TypedQueue, TypedSink

\* A worker hands a block to the next transport.
LEMMA PoolHandOn ==
    ASSUME PoolInv, setting' = setting, T' = T, Results' = Results, Depth' = Depth,
           NEW w \in Worker, NEW l \in {"run", "yield"}, HandOn(w, l)
    PROVE  PoolInv'
<1> DEFINE t == job[w]
           d == <<t[1], t[2] + 1>>
<1>1. /\ wpc[w] \in Holding /\ t[2] < Depth /\ pending[t] > 0
      /\ pending' = [pending EXCEPT ![t] = @ - 1, ![d] = @ + 1]
      /\ sched' = [sched EXCEPT ![d] = Woken(d)] /\ Scheduling(d, w)
      /\ wpc' = [wpc EXCEPT ![w] = l] /\ job' = job
      /\ UNCHANGED <<unread, fin, blocks, eof, aborted, reading, got>>
  BY DEF HandOn, Again, Holding, sinkVars, abortVars, readVars
<1>2. /\ t \in T /\ t[1] \in Results /\ t[2] \in 1..Depth
  BY <1>1, Owns
<1>3. d \in T
  <2>1. t[2] + 1 \in 1..Depth
    BY <1>1, <1>2, Chain DEF PoolInv, TypedQueue
  <2>2. QED
    BY <1>2, <2>1, Chain DEF PoolInv, TypedQueue
<1>4. /\ TypedPool' /\ wpc'[w] = l
      /\ \A v \in Worker : v # w => wpc'[v] = wpc[v]
  BY ZenonT(30), <1>1, <1>2, Moves DEF PoolInv
<1> HIDE DEF d
<1>5. pending' \in [T -> Nat]
  <2>1. pending \in [T -> Nat] /\ t # d
    BY <1>2 DEF PoolInv, TypedQueue, d
  <2>2. QED
    BY <1>1, <1>2, <1>3, <2>1
<1>6. \A v \in Worker : wpc'[v] \in Holding => wpc[v] \in Holding /\ job'[v] = job[v]
  BY <1>1, <1>4
<1>7. /\ sched' \in [T -> {"idle", "waiting", "queued", "running", "finished"}]
      /\ \A e \in entering' : e = <<e[1], e[2]>> /\ e[2] \in T
      /\ Token'
  BY ZenonT(30), <1>1, <1>3, <1>6, PoolPush
<1>8. QED
  BY <1>1, <1>4, <1>5, <1>7 DEF PoolInv, TypedQueue, TypedSink

\* A worker hands a block to the sink.
LEMMA PoolEmit ==
    ASSUME PoolInv, setting' = setting, T' = T, Results' = Results, Depth' = Depth,
           NEW w \in Worker, NEW l \in {"run", "yield"}, Emit(w, l)
    PROVE  PoolInv'
<1> DEFINE t == job[w]
           r == t[1]
<1>1. /\ wpc[w] \in Holding /\ pending[t] > 0
      /\ pending' = [pending EXCEPT ![t] = @ - 1]
      /\ blocks' = [blocks EXCEPT ![r] = Append(@, "block")] \/ blocks' = blocks
      /\ wpc' = [wpc EXCEPT ![w] = l] /\ job' = job
      /\ UNCHANGED <<unread, fin, sched, entering, eof, aborted, reading, got>>
  BY DEF Emit, Again, Holding, abortVars, readVars
<1>2. t \in T /\ r \in Results
  BY <1>1, Owns
<1>3. TypedPool' /\ wpc'[w] = l /\ \A v \in Worker : v # w => wpc'[v] = wpc[v]
  BY ZenonT(30), <1>1, <1>2, Moves DEF PoolInv
<1>4. pending' \in [T -> Nat]
  BY <1>1, <1>2 DEF PoolInv, TypedQueue
<1>5. blocks' \in [Results -> Seq({"block", "error"})]
  <2>1. blocks \in [Results -> Seq({"block", "error"})]
    BY DEF PoolInv, TypedSink
  <2>2. Append(blocks[r], "block") \in Seq({"block", "error"})
    BY <1>2, <2>1
  <2>3. QED
    BY ZenonT(30), <1>1, <1>2, <2>1, <2>2
<1>6. \A v \in Worker : wpc'[v] \in Holding => wpc[v] \in Holding
  BY <1>1, <1>3
<1>7. Token'
  BY <1>1, <1>6, TokenKept DEF PoolInv, Token
<1>8. QED
  BY <1>1, <1>3, <1>4, <1>5, <1>7 DEF PoolInv, TypedQueue, TypedSink

\* What the end of a transport does, in one place for its three causes.
LEMMA EndsJob ==
    ASSUME PoolInv, NEW w \in Worker, ProcessFinish(w) \/ ProcessError(w) \/ ProcessRefused(w)
    PROVE  /\ wpc[w] = "run"
           /\ \E err \in {"ok", "error"} :
                 /\ FinishJob(w, err)
                 /\ err = "ok" => pending[job[w]] = 0 /\ fin[job[w]] = "ok"
<1>1. wpc[w] = "run"
  BY DEF ProcessFinish, ProcessError, ProcessRefused
<1>2. job[w] \in T /\ fin[job[w]] \in {"none", "ok", "error"}
  BY <1>1 DEF PoolInv, TypedPool, TypedQueue
<1>3. CASE ProcessFinish(w)
  BY <1>1, <1>2, <1>3 DEF ProcessFinish
<1>4. CASE ProcessError(w) \/ ProcessRefused(w)
  BY <1>1, <1>4 DEF ProcessError, ProcessRefused
<1>5. QED
  BY <1>3, <1>4

\* A worker finishes its transport, and tells the next one or the sink.
LEMMA PoolFinish ==
    ASSUME PoolInv, setting' = setting, T' = T, Results' = Results, Depth' = Depth,
           NEW w \in Worker, NEW err \in {"ok", "error"}, wpc[w] = "run", FinishJob(w, err)
    PROVE  PoolInv'
<1> DEFINE t == job[w]
           r == t[1]
           d == <<t[1], t[2] + 1>>
<1>1. wpc[w] \in Holding
  BY DEF Holding
<1>2. /\ t \in T /\ r \in Results /\ t[2] \in 1..Depth /\ t = <<r, t[2]>> /\ sched[t] = "running"
      /\ \A e \in entering : e[2] # t
  BY <1>1, Owns
<1>3. /\ wpc' = [wpc EXCEPT ![w] = "select"] /\ job' = [job EXCEPT ![w] = NoJob]
      /\ UNCHANGED <<unread, pending, aborted, reading, got>>
  BY DEF FinishJob, Release, abortVars, readVars
<1>4. /\ TypedPool' /\ wpc'[w] = "select"
      /\ \A v \in Worker : v # w => wpc'[v] = wpc[v] /\ job'[v] = job[v]
  BY ZenonT(30), <1>3, Moves DEF PoolInv
<1>5. CASE t[2] = Depth
  <2>1. /\ SinkFinish(r, err) /\ sched' = [sched EXCEPT ![t] = "finished"]
        /\ UNCHANGED <<fin, entering>>
    BY <1>5 DEF FinishJob
  <2>2. /\ eof' = eof \cup {r}
        /\ blocks' = [blocks EXCEPT ![r] = Append(@, "error")] \/ blocks' = blocks
    BY <2>1 DEF SinkFinish
  <2>3. TypedSink'
    <3>1. blocks \in [Results -> Seq({"block", "error"})]
      BY DEF PoolInv, TypedSink
    <3>2. Append(blocks[r], "error") \in Seq({"block", "error"})
      BY <1>2, <3>1
    <3>3. blocks' \in [Results -> Seq({"block", "error"})]
      BY ZenonT(30), <1>2, <2>2, <3>1, <3>2
    <3>4. QED
      BY <1>2, <1>3, <2>2, <3>3 DEF PoolInv, TypedSink
  <2>4. /\ wpc'[w] \notin Holding
        /\ \A q \in eof' : q \in eof \/ <<q, Depth>> = t
    BY <1>2, <1>4, <1>5, <2>2 DEF Holding
  <2> HIDE DEF r
  <2>5. sched' \in [T -> {"idle", "waiting", "queued", "running", "finished"}] /\ Token'
    BY ZenonT(30), <1>1, <1>4, <2>1, <2>4, PoolLeave
  <2>6. QED
    BY <1>3, <1>4, <2>1, <2>3, <2>5 DEF PoolInv, TypedQueue
<1>6. CASE t[2] # Depth
  <2>1. /\ sched' = [sched EXCEPT ![t] = "finished", ![d] = Woken(d)] /\ Scheduling(d, w)
        /\ fin' = fin \/ fin' = [fin EXCEPT ![d] = err]
        /\ UNCHANGED <<blocks, eof>>
    BY <1>6 DEF FinishJob, sinkVars
  <2>2. d \in T /\ d # t
    <3>1. setting \in Settings
      BY DEF PoolInv, TypedQueue
    <3>2. t[2] + 1 \in 1..Depth /\ t[2] \in Int
      BY <1>2, <1>6, <3>1, Chain
    <3>3. d \in T
      BY <1>2, <3>1, <3>2, Chain
    <3>4. QED
      BY <1>2, <3>2, <3>3
  <2> HIDE DEF d, r
  <2>3. TypedQueue /\ Token /\ TypedPool
    BY DEF PoolInv
  <2>4. /\ sched' \in [T -> {"idle", "waiting", "queued", "running", "finished"}]
        /\ sched'[t] = "finished" /\ sched'[d] = Woken(d)
        /\ \A x \in T : x # t /\ x # d => sched'[x] = sched[x]
    BY <1>2, <2>1, <2>2, <2>3, WokenState DEF TypedQueue
  <2>5. \A x \in T : x # t /\ sched[x] # "idle" => sched'[x] = sched[x]
    BY <2>3, <2>4, WokenState
  <2>6. /\ \A e \in entering' : e = <<e[1], e[2]>> /\ e[2] \in T
        /\ \A e \in entering' : sched'[e[2]] = "waiting"
        /\ \A e, g \in entering' : e[2] = g[2] => e = g
    BY <1>2, <2>1, <2>2, <2>3, <2>4, EnteringPush
  <2>7. \A v \in Worker : wpc'[v] \in Holding =>
            wpc[v] \in Holding /\ job'[v] = job[v] /\ sched'[job[v]] = sched[job[v]]
    <3>1. \A v \in Worker : wpc'[v] \in Holding => v # w /\ wpc[v] \in Holding /\ job'[v] = job[v]
      BY <1>4 DEF Holding
    <3>2. \A v \in Worker : v # w /\ wpc[v] \in Holding =>
              job[v] \in T /\ job[v] # t /\ sched[job[v]] = "running"
      BY <1>1, Owns
    <3>3. QED
      BY <2>5, <3>1, <3>2
  <2>8. \A x \in T : sched[x] = "finished" => sched'[x] = "finished"
    BY <2>4, <2>5
  <2>9. Token'
    BY ZenonT(30), <2>1, <2>6, <2>7, <2>8, TokenKept
  <2>10. fin' \in [T -> {"none", "ok", "error"}]
    BY <2>1, <2>2, <2>3 DEF TypedQueue
  <2>11. QED
    BY ZenonT(30), <1>3, <1>4, <2>1, <2>4, <2>6, <2>9, <2>10 DEF PoolInv, TypedQueue, TypedSink
<1>7. QED
  BY <1>5, <1>6

\* The wait goroutine, the handler and a source that panics have no transport.
Outside ==
    \/ Wait \/ Return
    \/ \E r \in Results : Read(r) \/ SourcePanic(r) \/ WriteError(r)
    \/ CancelContext

\* They leave queues and workers alone, and abort all sinks or none.
LEMMA OutsideFrame ==
    ASSUME Outside
    PROVE  /\ UNCHANGED <<pending, fin, sched, entering, wpc, job, eof>>
           /\ aborted' = aborted \/ aborted' = Results
<1> USE DEF queueVars, poolVars, sinkVars, abortVars, readVars
<1>1. CASE Wait
  BY <1>1 DEF Wait, WaitFinished, WaitContext, WaitErr, Stop, Stopped, Abort
<1>2. CASE Return \/ CancelContext
  BY <1>2 DEF Return, CancelContext
<1>3. CASE \E r \in Results : Read(r)
  BY <1>3 DEF Read, Open, ReadAbort, ReadMessage, ReadEnd
<1>4. CASE \E r \in Results : SourcePanic(r) \/ WriteError(r)
  BY ZenonT(30), <1>4 DEF SourcePanic, WriteError, Abort
<1>5. QED
  BY <1>1, <1>2, <1>3, <1>4 DEF Outside

\* What they do to the sources, the sinks and the reader.
LEMMA OutsideEffect ==
    ASSUME PoolInv, Outside
    PROVE  \/ UNCHANGED <<unread, blocks, reading, got>>
           \/ \E r \in Results :
                 /\ unread[r] >= 0 /\ unread' = [unread EXCEPT ![r] = -1]
                 /\ aborted' = Results /\ UNCHANGED <<blocks, reading, got>>
           \/ \E r \in Results :
                 /\ reading[r] = "no" /\ reading' = [reading EXCEPT ![r] = "yes"]
                 /\ UNCHANGED <<unread, blocks, got>>
           \/ \E r \in Results :
                 /\ reading[r] = "yes" /\ reading' = [reading EXCEPT ![r] = "error"]
                 /\ blocks' = blocks \/ (blocks[r] # <<>> /\ blocks' = [blocks EXCEPT ![r] = Tail(@)])
                 /\ UNCHANGED <<unread, got>>
           \/ \E r \in Results :
                 /\ reading[r] = "yes" /\ blocks[r] # <<>> /\ Head(blocks[r]) # "error"
                 /\ blocks' = [blocks EXCEPT ![r] = Tail(@)] /\ got' = [got EXCEPT ![r] = @ + 1]
                 /\ UNCHANGED <<unread, reading>>
           \/ \E r \in Results :
                 /\ reading[r] = "yes" /\ blocks[r] = <<>> /\ r \in eof
                 /\ reading' = [reading EXCEPT ![r] = "ok"] /\ UNCHANGED <<unread, blocks, got>>
<1> USE DEF queueVars, poolVars, sinkVars, abortVars, readVars
<1>1. CASE Wait
  BY <1>1 DEF Wait, WaitFinished, WaitContext, WaitErr, Stop, Stopped
<1>2. CASE Return \/ CancelContext
  BY <1>2 DEF Return, CancelContext
<1>3. ASSUME NEW r \in Results, Open(r) PROVE reading[r] = "no" /\ reading' = [reading EXCEPT ![r] = "yes"] /\ UNCHANGED <<unread, blocks, got>>
  BY <1>3 DEF Open
<1>4. ASSUME NEW r \in Results, ReadAbort(r) \/ WriteError(r)
      PROVE  /\ reading[r] = "yes" /\ reading' = [reading EXCEPT ![r] = "error"]
             /\ blocks' = blocks \/ (blocks[r] # <<>> /\ blocks' = [blocks EXCEPT ![r] = Tail(@)])
             /\ UNCHANGED <<unread, got>>
  BY ZenonT(30), <1>4 DEF ReadAbort, WriteError
<1>5. ASSUME NEW r \in Results, ReadMessage(r), Head(blocks[r]) = "error"
      PROVE  /\ reading[r] = "yes" /\ reading' = [reading EXCEPT ![r] = "error"]
             /\ blocks[r] # <<>> /\ blocks' = [blocks EXCEPT ![r] = Tail(@)]
             /\ UNCHANGED <<unread, got>>
  BY <1>5 DEF ReadMessage
<1>6. ASSUME NEW r \in Results, ReadMessage(r), Head(blocks[r]) # "error"
      PROVE  /\ reading[r] = "yes" /\ blocks[r] # <<>>
             /\ blocks' = [blocks EXCEPT ![r] = Tail(@)] /\ got' = [got EXCEPT ![r] = @ + 1]
             /\ UNCHANGED <<unread, reading>>
  BY <1>6 DEF ReadMessage
<1>7. ASSUME NEW r \in Results, ReadEnd(r)
      PROVE  /\ reading[r] = "yes" /\ blocks[r] = <<>> /\ r \in eof
             /\ reading' = [reading EXCEPT ![r] = "ok"] /\ UNCHANGED <<unread, blocks, got>>
  BY <1>7 DEF ReadEnd
<1>8. ASSUME NEW r \in Results, SourcePanic(r)
      PROVE  /\ unread[r] >= 0 /\ unread' = [unread EXCEPT ![r] = -1]
             /\ aborted' = Results /\ UNCHANGED <<blocks, reading, got>>
  BY ZenonT(30), <1>8 DEF SourcePanic, Abort
<1>9. QED
  BY <1>1, <1>2, <1>3, <1>4, <1>5, <1>6, <1>7, <1>8 DEF Outside, Read

\* So the owners and the types stay.
LEMMA PoolOutside ==
    ASSUME PoolInv, setting' = setting, T' = T, Results' = Results, Depth' = Depth, Outside
    PROVE  PoolInv'
<1>1. /\ UNCHANGED <<pending, fin, sched, entering, wpc, job, eof>>
      /\ aborted' = aborted \/ aborted' = Results
  BY OutsideFrame
<1>2. Token' /\ TypedPool'
  BY <1>1 DEF PoolInv, Token, TypedPool
<1>3. /\ unread \in [Results -> Nat \cup {-1}] /\ got \in [Results -> Nat]
      /\ blocks \in [Results -> Seq({"block", "error"})]
      /\ reading \in [Results -> {"no", "yes", "ok", "error"}]
  BY DEF PoolInv, TypedQueue, TypedSink
<1>4. ASSUME NEW r \in Results, blocks[r] # <<>>, blocks' = [blocks EXCEPT ![r] = Tail(@)]
      PROVE  blocks' \in [Results -> Seq({"block", "error"})]
  <2>1. Tail(blocks[r]) \in Seq({"block", "error"})
    BY <1>3, <1>4
  <2>2. QED
    BY <1>3, <1>4, <2>1
<1>5. /\ unread' \in [Results -> Nat \cup {-1}] /\ got' \in [Results -> Nat]
      /\ reading' \in [Results -> {"no", "yes", "ok", "error"}]
      /\ \/ blocks' = blocks
         \/ \E r \in Results : blocks[r] # <<>> /\ blocks' = [blocks EXCEPT ![r] = Tail(@)]
  <2>1. unread' = unread \/ \E r \in Results : unread' = [unread EXCEPT ![r] = -1]
    BY OutsideEffect
  <2>2. got' = got \/ \E r \in Results : got' = [got EXCEPT ![r] = @ + 1]
    BY OutsideEffect
  <2>3. \/ reading' = reading
        \/ \E r \in Results, s \in {"yes", "error", "ok"} : reading' = [reading EXCEPT ![r] = s]
    BY OutsideEffect
  <2>4. \/ blocks' = blocks
        \/ \E r \in Results : blocks[r] # <<>> /\ blocks' = [blocks EXCEPT ![r] = Tail(@)]
    BY OutsideEffect
  <2>5. unread' \in [Results -> Nat \cup {-1}]
    BY <1>3, <2>1
  <2>6. got' \in [Results -> Nat]
    BY <1>3, <2>2
  <2>7. reading' \in [Results -> {"no", "yes", "ok", "error"}]
    BY ZenonT(30), <1>3, <2>3
  <2>8. QED
    BY <2>4, <2>5, <2>6, <2>7
<1>6. blocks' \in [Results -> Seq({"block", "error"})]
  BY ZenonT(30), <1>3, <1>4, <1>5
<1>7. QED
  BY <1>1, <1>2, <1>5, <1>6 DEF PoolInv, TypedQueue, TypedSink

\* The steps, with the actors that take them.
LEMMA Steps ==
    ASSUME Next
    PROVE  \/ \E r \in Results : SourceBlock(r) \/ SourceEnd(r) \/ SourceReadError(r)
           \/ \E c : Enter(c)
           \/ \E w \in Worker : \E t \in T : Take(w, t)
           \/ \E w \in Worker : Exit(w) \/ Panic(w) \/ Recover(w)
           \/ \E w \in Worker : Rest(w) \/ Yield(w)
           \/ \E w \in Worker : Reschedule(w)
           \/ \E w \in Worker : \E l \in {"run", "yield"} : HandOn(w, l)
           \/ \E w \in Worker : \E l \in {"run", "yield"} : Emit(w, l)
           \/ \E w \in Worker : ProcessFinish(w) \/ ProcessError(w) \/ ProcessRefused(w)
           \/ Outside
BY ZenonT(30) DEF Next, Source, Work, Fault, Outside, Read

\* Init satisfies the invariant.
LEMMA PoolInit == Init => PoolInv
<1> SUFFICES ASSUME Init PROVE PoolInv
  OBVIOUS
<1>1. setting \in Settings /\ Blocks \in Nat
  BY Chain DEF Init
<1>2. TypedQueue
  BY <1>1 DEF Init, TypedQueue
<1>3. TypedPool
  BY DEF Init, TypedPool
<1>4. TypedSink
  BY DEF Init, TypedSink
<1>5. Token
  BY DEF Init, Token, Holding
<1>6. QED
  BY <1>2, <1>3, <1>4, <1>5 DEF PoolInv

\* Every step preserves it.
LEMMA PoolStep ==
    ASSUME PoolInv, [Next]_vars
    PROVE  PoolInv'
<1>1. setting' = setting /\ T' = T /\ Results' = Results /\ Depth' = Depth
  BY SettingFixed
<1>2. CASE UNCHANGED vars
  BY <1>1, <1>2 DEF vars, queueVars, poolVars, sinkVars, abortVars, readVars, PoolInv, TypedQueue,
                    TypedPool, TypedSink, Token
<1>3. CASE Next
  <2>1. CASE \E w \in Worker : ProcessFinish(w) \/ ProcessError(w) \/ ProcessRefused(w)
    <3>1. PICK w \in Worker : ProcessFinish(w) \/ ProcessError(w) \/ ProcessRefused(w)
      BY <2>1
    <3>2. wpc[w] = "run" /\ \E err \in {"ok", "error"} : FinishJob(w, err)
      BY <3>1, EndsJob
    <3>3. QED
      BY <1>1, <3>2, PoolFinish
  <2>2. QED
    BY <1>1, <1>3, <2>1, Steps, PoolSource, PoolEnter, PoolTake, PoolExit, PoolRest,
       PoolReschedule, PoolHandOn, PoolEmit, PoolOutside
<1>4. QED
  BY <1>2, <1>3

\* No worker runs the last transformation of a result whose sink is closed: close(s.blocks)
\* happens once and nothing is sent after it.
THEOREM SinkStaysOpen == Spec => []SinkOpen
<1>1. PoolInv => SinkOpen
  <2> SUFFICES ASSUME PoolInv, NEW w \in Worker, wpc[w] = "run", job[w][2] = Depth
               PROVE  job[w][1] \notin eof
    BY DEF SinkOpen
  <2>1. job[w] = <<job[w][1], job[w][2]>> /\ \A r \in eof : <<r, Depth>> # job[w]
    BY Owns DEF Holding
  <2>2. QED
    BY <2>1
<1>2. QED
  BY <1>1, PoolInit, PoolStep, PTL DEF Spec

-----------------------------------------------------------------------------
(* The blocks of a result.                                                 *)

\* Why a result need not be complete.
Excused(r) ==
    r \in aborted \/ reading[r] = "error" \/ \E k \in 1..Len(blocks[r]) : blocks[r][k] = "error"

\* f[i] is the number of blocks that have not left the i-th transport, f[0] those that the
\* source has not sent, including what it abandoned because the first transport refused it:
\* each transport adds what is in its queue, nothing is before a transport that is told of
\* a good end, and what has left the last one is with the sink or the handler.
Counts(r, f) ==
    /\ f[0] = unread[r] \/ (unread[r] = -1 /\ (f[0] = 0 \/ fin[<<r, 1>>] # "ok"))
    /\ \A i \in 1..Depth : f[i] = f[i - 1] + pending[<<r, i>>]
    /\ \A i \in 1..Depth : fin[<<r, i>>] = "ok" => f[i - 1] = 0
    /\ fin[<<r, 1>>] # "none" => unread[r] = -1
    /\ Excused(r) \/ f[Depth] + Len(blocks[r]) + got[r] = Blocks
    /\ Excused(r) \/ r \notin eof \/ f[Depth] = 0
    /\ reading[r] = "ok" => r \in eof /\ blocks[r] = <<>>

Flow(r) == \E f \in [0..Depth -> Nat] : Counts(r, f)

\* A step that is none of a result's business, except that it may be aborted.
LEMMA FlowSame ==
    ASSUME NEW r \in Results, Flow(r), Depth' = Depth, Blocks' = Blocks, PoolInv,
           unread'[r] = unread[r], blocks'[r] = blocks[r], got'[r] = got[r],
           reading'[r] = reading[r], r \in aborted => r \in aborted', r \in eof' <=> r \in eof,
           \A i \in 1..Depth : /\ pending'[<<r, i>>] = pending[<<r, i>>]
                               /\ fin'[<<r, i>>] = fin[<<r, i>>]
    PROVE  Flow(r)'
<1>1. PICK f \in [0..Depth -> Nat] : Counts(r, f)
  BY DEF Flow
<1>2. 1 \in 1..Depth
  BY Chain DEF PoolInv, TypedQueue
<1>3. Excused(r) => Excused(r)'
  BY DEF Excused
<1>4. Counts(r, f)'
  BY <1>1, <1>2, <1>3 DEF Counts
<1>5. QED
  BY <1>1, <1>4 DEF Flow

\* A source's steps.
LEMMA FlowSource ==
    ASSUME PoolInv, Depth' = Depth, Blocks' = Blocks, NEW r \in Results, Flow(r),
           NEW q \in Results, SourceBlock(q) \/ SourceEnd(q)
    PROVE  Flow(r)'
<1>1. UNCHANGED <<blocks, eof, aborted, reading, got>>
  BY DEF SourceBlock, SourceEnd, sinkVars, abortVars, readVars
<1>2. /\ unread \in [Results -> Nat \cup {-1}] /\ pending \in [T -> Nat]
      /\ DOMAIN fin = T /\ <<q, 1>> \in T /\ setting \in Settings
  BY Chain DEF PoolInv, TypedQueue
<1>3. \/ /\ unread[q] > 0 /\ unread' = [unread EXCEPT ![q] = @ - 1] /\ fin' = fin
         /\ pending' = [pending EXCEPT ![<<q, 1>>] = @ + 1]
      \/ /\ unread[q] > 0 /\ unread' = [unread EXCEPT ![q] = -1] /\ fin' = fin /\ pending' = pending
      \/ /\ unread[q] = 0 /\ unread' = [unread EXCEPT ![q] = -1] /\ pending' = pending
         /\ fin' = fin \/ fin' = [fin EXCEPT ![<<q, 1>>] = "ok"]
  BY DEF SourceBlock, SourceEnd, SourceFinish
<1>4. CASE q # r
  <2>1. unread'[r] = unread[r]
    BY <1>2, <1>3, <1>4
  <2>2. \A i \in 1..Depth : <<r, i>> # <<q, 1>> /\ <<r, i>> \in T
    BY <1>2, <1>4, Chain
  <2>3. \A i \in 1..Depth : pending'[<<r, i>>] = pending[<<r, i>>] /\ fin'[<<r, i>>] = fin[<<r, i>>]
    BY <1>2, <1>3, <2>2
  <2>4. QED
    BY ZenonT(30), <1>1, <2>1, <2>3, FlowSame
<1>5. CASE q = r
  <2>1. PICK f \in [0..Depth -> Nat] : Counts(r, f)
    BY DEF Flow
  <2>2. Excused(r)' <=> Excused(r)
    BY <1>1 DEF Excused
  <2>3. /\ Depth \in Nat /\ Depth > 0 /\ 1 \in 1..Depth /\ 0 \in 0..Depth /\ Depth # 0
        /\ \A i \in 1..Depth : <<r, i>> \in T /\ (i # 1 => <<r, i>> # <<r, 1>>)
        /\ unread[r] \in Nat /\ unread[r] # -1
    BY <1>2, <1>3, <1>5, Chain
  <2>4. f[0] = unread[r] /\ fin[<<r, 1>>] = "none"
    BY <2>1, <2>3 DEF Counts
  <2>5. CASE /\ unread[r] > 0 /\ unread' = [unread EXCEPT ![r] = @ - 1] /\ fin' = fin
             /\ pending' = [pending EXCEPT ![<<r, 1>>] = @ + 1]
    <3> DEFINE h == [f EXCEPT ![0] = @ - 1]
    <3>1. /\ h \in [0..Depth -> Nat] /\ h[0] = f[0] - 1 /\ h[Depth] = f[Depth]
          /\ \A i \in 1..Depth : h[i] = f[i]
      BY <2>1, <2>3, <2>4, <2>5
    <3>2. /\ unread'[r] = unread[r] - 1 /\ pending'[<<r, 1>>] = pending[<<r, 1>>] + 1
          /\ \A i \in 1..Depth : i # 1 => pending'[<<r, i>>] = pending[<<r, i>>]
          /\ \A i \in 1..Depth : pending[<<r, i>>] \in Nat
      BY <1>2, <2>3, <2>5
    <3> HIDE DEF h
    <3>3. \A i \in 1..Depth : i # 1 => i - 1 \in 1..Depth
      BY <2>3
    <3>4. \A i \in 1..Depth : h[i] = h[i - 1] + pending'[<<r, i>>]
      <4>1. h[1] = h[0] + pending'[<<r, 1>>]
        <5>1. f[1] = f[0] + pending[<<r, 1>>]
          BY <2>1, <2>3 DEF Counts
        <5>2. QED
          BY <2>3, <2>4, <3>1, <3>2, <5>1
      <4>2. ASSUME NEW i \in 1..Depth, i # 1 PROVE h[i] = h[i - 1] + pending'[<<r, i>>]
        BY <2>1, <3>1, <3>2, <3>3, <4>2 DEF Counts
      <4>3. QED
        BY <4>1, <4>2
    <3>5. \A i \in 1..Depth : fin'[<<r, i>>] = "ok" => h[i - 1] = 0
      BY <2>1, <2>4, <2>5, <3>1, <3>3 DEF Counts
    <3>6. Counts(r, h)'
      <4>1. h[0] = unread'[r] /\ fin'[<<r, 1>>] = "none"
        BY <2>4, <2>5, <3>1, <3>2
      <4>2. /\ Excused(r)' \/ h[Depth] + Len(blocks[r]) + got[r] = Blocks
            /\ Excused(r)' \/ r \notin eof \/ h[Depth] = 0
            /\ reading[r] = "ok" => r \in eof /\ blocks[r] = <<>>
        BY <2>1, <2>2, <3>1 DEF Counts
      <4>3. QED
        BY <1>1, <3>4, <3>5, <4>1, <4>2 DEF Counts
    <3>7. QED
      BY <3>1, <3>6 DEF Flow
  <2>6. CASE /\ unread[r] > 0 /\ unread' = [unread EXCEPT ![r] = -1] /\ fin' = fin
             /\ pending' = pending
    <3>1. unread'[r] = -1
      BY <1>2, <2>6
    <3>2. Counts(r, f)'
      BY ZenonT(30), <1>1, <2>1, <2>2, <2>4, <2>6, <3>1 DEF Counts
    <3>3. QED
      BY <2>1, <3>2 DEF Flow
  <2>7. CASE /\ unread[r] = 0 /\ unread' = [unread EXCEPT ![r] = -1] /\ pending' = pending
             /\ fin' = fin \/ fin' = [fin EXCEPT ![<<r, 1>>] = "ok"]
    <3>1. unread'[r] = -1 /\ f[0] = 0
      BY <1>2, <2>4, <2>7
    <3>2. \A i \in 1..Depth : fin'[<<r, i>>] = "ok" => f[i - 1] = 0
      <4>1. ASSUME NEW i \in 1..Depth, i # 1 PROVE fin'[<<r, i>>] = fin[<<r, i>>]
        <5>1. <<r, i>> \in T /\ <<r, i>> # <<r, 1>> /\ DOMAIN fin = T
          BY <1>2, <2>3, <4>1
        <5>2. fin' = fin \/ fin' = [fin EXCEPT ![<<r, 1>>] = "ok"]
          BY <2>7
        <5>3. QED
          BY <5>1, <5>2
      <4>2. QED
        BY <2>1, <3>1, <4>1 DEF Counts
    <3>3. Counts(r, f)'
      BY <1>1, <2>1, <2>2, <2>7, <3>1, <3>2 DEF Counts
    <3>4. QED
      BY <2>1, <3>3 DEF Flow
  <2>8. QED
    BY <1>3, <1>5, <2>5, <2>6, <2>7
<1>6. QED
  BY <1>4, <1>5

\* A block moves down the chain.
LEMMA FlowHandOn ==
    ASSUME PoolInv, Depth' = Depth, Blocks' = Blocks, NEW r \in Results, Flow(r),
           NEW w \in Worker, NEW l \in {"run", "yield"}, HandOn(w, l)
    PROVE  Flow(r)'
<1>1. wpc[w] \in Holding /\ UNCHANGED <<unread, fin, blocks, eof, aborted, reading, got>>
  BY DEF HandOn, Holding, sinkVars, abortVars, readVars
<1>2. PICK q \in Results, n \in 1..Depth : job[w] = <<q, n>>
  BY <1>1, Owns
<1>3. /\ n < Depth /\ pending[<<q, n>>] > 0
      /\ pending' = [pending EXCEPT ![<<q, n>>] = @ - 1, ![<<q, n + 1>>] = @ + 1]
  <2>1. job[w] = <<q, n>> /\ job[w][1] = q /\ job[w][2] = n
    BY <1>2
  <2>2. /\ job[w][2] < Depth /\ pending[job[w]] > 0
        /\ pending' = [pending EXCEPT ![job[w]] = @ - 1, ![<<job[w][1], job[w][2] + 1>>] = @ + 1]
    BY DEF HandOn
  <2>3. QED
    BY <2>1, <2>2
<1>4. /\ Depth \in Nat /\ Depth > 0 /\ n + 1 \in 1..Depth /\ n + 1 # n
      /\ \A p \in Results, i \in 1..Depth : <<p, i>> \in T
      /\ pending \in [T -> Nat]
  BY <1>2, <1>3, Chain DEF PoolInv, TypedQueue
<1>5. /\ pending'[<<q, n>>] = pending[<<q, n>>] - 1
      /\ pending'[<<q, n + 1>>] = pending[<<q, n + 1>>] + 1
      /\ \A i \in 1..Depth : i # n /\ i # n + 1 => pending'[<<q, i>>] = pending[<<q, i>>]
      /\ \A p \in Results, i \in 1..Depth : p # q => pending'[<<p, i>>] = pending[<<p, i>>]
  BY <1>2, <1>3, <1>4
<1>6. CASE q # r
  BY <1>1, <1>5, <1>6, FlowSame
<1>7. CASE q = r
  <2>1. PICK f \in [0..Depth -> Nat] : Counts(r, f)
    BY DEF Flow
  <2>2. Excused(r)' <=> Excused(r)
    BY <1>1 DEF Excused
  <2>3. /\ f[n] = f[n - 1] + pending[<<r, n>>]
        /\ f[n + 1] = f[n] + pending[<<r, n + 1>>]
    <3>1. (n + 1) - 1 = n
      BY <1>2
    <3>2. QED
      BY <1>2, <1>4, <2>1, <3>1 DEF Counts
  <2>4. /\ n \in Int /\ n - 1 \in 0..Depth /\ n \in 0..Depth /\ n + 1 \in 0..Depth /\ n # Depth
        /\ \A i \in 1..Depth : i \in 0..Depth /\ i - 1 \in 0..Depth /\ i \in Int
        /\ \A i \in 0..Depth : f[i] \in Nat
        /\ \A i \in 1..Depth : pending[<<r, i>>] \in Nat
    BY <1>2, <1>3, <1>4, <2>1
  <2>5. f[n] > 0
    <3>1. f[n - 1] \in Nat /\ pending[<<r, n>>] \in Nat /\ pending[<<r, n>>] > 0
      BY <1>2, <1>3, <1>7, <2>4
    <3>2. QED
      BY <2>3, <3>1
  <2>6. PICK h \in [0..Depth -> Nat] : h[n] = f[n] - 1 /\ \A i \in 0..Depth : i # n => h[i] = f[i]
    <3> DEFINE g == [f EXCEPT ![n] = @ - 1]
    <3>1. g \in [0..Depth -> Nat] /\ g[n] = f[n] - 1 /\ \A i \in 0..Depth : i # n => g[i] = f[i]
      BY <2>1, <2>4, <2>5
    <3> HIDE DEF g
    <3>2. QED
      BY ZenonT(30), <3>1
  <2>7. \A i \in 1..Depth : h[i] = h[i - 1] + pending'[<<r, i>>]
    <3> SUFFICES ASSUME NEW i \in 1..Depth PROVE h[i] = h[i - 1] + pending'[<<r, i>>]
      BY ZenonT(30)
    <3>1. CASE i = n
      <4>1. h[n - 1] = f[n - 1] /\ f[n - 1] \in Nat /\ pending[<<r, n>>] \in Nat
        BY <1>2, <2>4, <2>6
      <4>2. QED
        BY <1>5, <1>7, <2>3, <2>6, <3>1, <4>1
    <3>2. CASE i = n + 1
      <4>1. /\ h[n + 1] = f[n + 1] /\ f[n] \in Nat /\ pending[<<r, n + 1>>] \in Nat /\ i - 1 = n
        <5>1. n + 1 \in 0..Depth /\ n \in 0..Depth /\ n + 1 # n /\ i - 1 = n
          BY <1>4, <2>4, <3>2
        <5>2. f[n] \in Nat /\ pending[<<r, n + 1>>] \in Nat
          BY <1>4, <2>4
        <5>3. QED
          BY <2>6, <5>1, <5>2
      <4>2. pending'[<<r, n + 1>>] = pending[<<r, n + 1>>] + 1
        BY <1>5, <1>7
      <4>3. QED
        BY <2>3, <2>6, <3>2, <4>1, <4>2
    <3>3. CASE i # n /\ i # n + 1
      <4>1. i - 1 # n /\ h[i] = f[i] /\ h[i - 1] = f[i - 1]
        BY <2>4, <2>6, <3>3
      <4>2. f[i] = f[i - 1] + pending[<<r, i>>]
        BY <2>1 DEF Counts
      <4>3. QED
        BY <1>5, <1>7, <3>3, <4>1, <4>2
    <3>4. QED
      BY <3>1, <3>2, <3>3
  <2>8. \A i \in 1..Depth : fin'[<<r, i>>] = "ok" => h[i - 1] = 0
    <3> SUFFICES ASSUME NEW i \in 1..Depth, fin[<<r, i>>] = "ok" PROVE h[i - 1] = 0
      BY <1>1
    <3>1. f[i - 1] = 0
      BY <2>1 DEF Counts
    <3>2. QED
      BY <2>4, <2>5, <2>6, <3>1
  <2>9. h[0] = f[0] /\ h[Depth] = f[Depth]
    BY <1>2, <1>4, <2>4, <2>6
  <2>10. Counts(r, h)'
    BY <1>1, <2>1, <2>2, <2>7, <2>8, <2>9 DEF Counts
  <2>11. QED
    BY <2>6, <2>10 DEF Flow
<1>8. QED
  BY <1>6, <1>7

\* A block leaves the chain.
LEMMA FlowEmit ==
    ASSUME PoolInv, Depth' = Depth, Blocks' = Blocks, NEW r \in Results, Flow(r),
           NEW w \in Worker, NEW l \in {"run", "yield"}, Emit(w, l)
    PROVE  Flow(r)'
<1>1. wpc[w] \in Holding /\ UNCHANGED <<unread, fin, eof, aborted, reading, got>>
  BY ZenonT(30) DEF Emit, Holding, abortVars, readVars
<1>2. PICK q \in Results : job[w] = <<q, Depth>> /\ q \notin eof
  BY ZenonT(30), <1>1, Owns DEF Emit
<1>3. /\ pending[<<q, Depth>>] > 0
      /\ pending' = [pending EXCEPT ![<<q, Depth>>] = @ - 1]
      /\ \/ blocks' = [blocks EXCEPT ![q] = Append(@, "block")]
         \/ q \in aborted /\ blocks' = blocks
  <2>1. job[w] = <<q, Depth>> /\ job[w][1] = q
    BY <1>2
  <2>2. /\ pending[job[w]] > 0 /\ pending' = [pending EXCEPT ![job[w]] = @ - 1]
        /\ \/ blocks' = [blocks EXCEPT ![job[w][1]] = Append(@, "block")]
           \/ job[w][1] \in aborted /\ blocks' = blocks
    BY ZenonT(30) DEF Emit
  <2>3. QED
    BY <2>1, <2>2
<1>4. /\ Depth \in Nat /\ Depth > 0 /\ Depth \in 1..Depth
      /\ \A p \in Results, i \in 1..Depth : <<p, i>> \in T
      /\ pending \in [T -> Nat] /\ blocks \in [Results -> Seq({"block", "error"})]
  BY <1>2, <1>3, Chain DEF PoolInv, TypedQueue, TypedSink
<1>5. /\ pending'[<<q, Depth>>] = pending[<<q, Depth>>] - 1
      /\ \A i \in 1..Depth : i # Depth => pending'[<<q, i>>] = pending[<<q, i>>]
      /\ \A p \in Results, i \in 1..Depth : p # q => pending'[<<p, i>>] = pending[<<p, i>>]
      /\ \A p \in Results : p # q => blocks'[p] = blocks[p]
  BY <1>2, <1>3, <1>4
<1>6. CASE q # r
  BY <1>1, <1>5, <1>6, FlowSame
<1>7. CASE q = r
  <2>1. PICK f \in [0..Depth -> Nat] : Counts(r, f)
    BY DEF Flow
  <2>2. reading[r] # "ok"
    BY <1>2, <1>7, <2>1 DEF Counts
  <2>3. /\ \A i \in 1..Depth : i \in 0..Depth /\ i - 1 \in 0..Depth /\ i \in Int
        /\ \A i \in 0..Depth : f[i] \in Nat
        /\ \A i \in 1..Depth : pending[<<r, i>>] \in Nat
        /\ got[r] \in Nat
    BY <1>4, <2>1 DEF PoolInv, TypedSink
  <2>4. f[Depth] = f[Depth - 1] + pending[<<r, Depth>>] /\ f[Depth] > 0
    <3>1. f[Depth] = f[Depth - 1] + pending[<<r, Depth>>]
      BY ZenonT(30), <1>4, <2>1 DEF Counts
    <3>2. f[Depth - 1] \in Nat /\ pending[<<r, Depth>>] \in Nat /\ pending[<<r, Depth>>] > 0
      <4>1. Depth \in 1..Depth /\ Depth - 1 \in 0..Depth
        BY <1>4
      <4>2. pending[<<r, Depth>>] > 0
        BY <1>3, <1>7
      <4>3. QED
        BY <2>3, <4>1, <4>2
    <3>3. QED
      BY ONLY <3>1, <3>2
  <2>5. PICK h \in [0..Depth -> Nat] :
            h[Depth] = f[Depth] - 1 /\ \A i \in 0..Depth : i # Depth => h[i] = f[i]
    <3> DEFINE g == [f EXCEPT ![Depth] = @ - 1]
    <3>1. /\ g \in [0..Depth -> Nat] /\ g[Depth] = f[Depth] - 1
          /\ \A i \in 0..Depth : i # Depth => g[i] = f[i]
      BY <1>4, <2>1, <2>3, <2>4
    <3> HIDE DEF g
    <3>2. QED
      BY ZenonT(30), <3>1
  <2>6. \A i \in 1..Depth : h[i - 1] = f[i - 1]
    BY <1>4, <2>3, <2>5
  <2>7. \A i \in 1..Depth : h[i] = h[i - 1] + pending'[<<r, i>>]
    <3> SUFFICES ASSUME NEW i \in 1..Depth PROVE h[i] = h[i - 1] + pending'[<<r, i>>]
      BY ZenonT(30)
    <3>1. f[i] = f[i - 1] + pending[<<r, i>>]
      BY <2>1 DEF Counts
    <3>2. f[i] \in Nat /\ f[i - 1] \in Nat /\ pending[<<r, i>>] \in Nat
      BY <2>3
    <3>3. QED
      <4>1. CASE i = Depth
        BY <1>5, <1>7, <2>5, <2>6, <3>1, <3>2, <4>1
      <4>2. CASE i # Depth
        BY <1>5, <1>7, <2>3, <2>5, <2>6, <3>1, <4>2
      <4>3. QED
        BY <4>1, <4>2
  <2>8. \A i \in 1..Depth : fin'[<<r, i>>] = "ok" => h[i - 1] = 0
    BY <1>1, <2>1, <2>6 DEF Counts
  <2>9. h[0] = f[0]
    BY <1>4, <2>5
  <2>10. Excused(r)' \/ h[Depth] + Len(blocks'[r]) + got'[r] = Blocks
    <3>1. CASE blocks' = [blocks EXCEPT ![r] = Append(@, "block")]
      <4>1. blocks[r] \in Seq({"block", "error"}) /\ blocks'[r] = Append(blocks[r], "block")
        BY <1>4, <3>1
      <4>2. /\ Len(blocks[r]) \in Nat /\ Len(blocks'[r]) = Len(blocks[r]) + 1
            /\ \A k \in 1..Len(blocks[r]) : blocks'[r][k] = blocks[r][k]
        BY <4>1
      <4>3. Excused(r) => Excused(r)'
        BY <1>1, <4>2 DEF Excused
      <4>4. CASE ~Excused(r)
        <5>1. f[Depth] + Len(blocks[r]) + got[r] = Blocks
          BY <2>1, <4>4 DEF Counts
        <5>2. f[Depth] \in Nat /\ got[r] \in Nat /\ Len(blocks[r]) \in Nat
          BY <1>4, <2>3, <4>2
        <5>3. /\ h[Depth] = f[Depth] - 1 /\ got'[r] = got[r]
              /\ Len(blocks'[r]) = Len(blocks[r]) + 1
          BY <1>1, <2>5, <4>2
        <5>4. QED
          BY <5>1, <5>2, <5>3
      <4>5. QED
        BY <4>3, <4>4
    <3>2. CASE r \in aborted
      BY <1>1, <3>2 DEF Excused
    <3>3. blocks' = [blocks EXCEPT ![r] = Append(@, "block")] \/ r \in aborted
      BY <1>3, <1>7
    <3>4. QED
      BY <3>1, <3>2, <3>3
  <2>11. Counts(r, h)'
    BY <1>1, <1>2, <1>7, <2>1, <2>2, <2>7, <2>8, <2>9, <2>10 DEF Counts
  <2>12. QED
    BY <2>5, <2>11 DEF Flow
<1>8. QED
  BY <1>6, <1>7

\* A transport ends: what it tells the next one, or the sink, is true.
LEMMA FlowFinish ==
    ASSUME PoolInv, Depth' = Depth, Blocks' = Blocks, NEW r \in Results, Flow(r),
           NEW w \in Worker, NEW err \in {"ok", "error"}, wpc[w] = "run", FinishJob(w, err),
           err = "ok" => pending[job[w]] = 0 /\ fin[job[w]] = "ok"
    PROVE  Flow(r)'
<1>1. wpc[w] \in Holding /\ UNCHANGED <<unread, pending, aborted, reading, got>>
  BY ZenonT(30) DEF FinishJob, Holding, abortVars, readVars
<1>2. PICK q \in Results, n \in 1..Depth : job[w] = <<q, n>> /\ (n = Depth => q \notin eof)
  BY <1>1, Owns
<1>3. /\ Depth \in Nat /\ Depth > 0 /\ 1 \in 1..Depth /\ Depth \in 1..Depth
      /\ \A p \in Results, i \in 1..Depth : <<p, i>> \in T
      /\ DOMAIN fin = T /\ blocks \in [Results -> Seq({"block", "error"})]
  BY Chain DEF PoolInv, TypedQueue, TypedSink
<1>4. ASSUME NEW f \in [0..Depth -> Nat], Counts(q, f), err = "ok" PROVE f[n] = 0
  <2>1. f[n] = f[n - 1] + pending[<<q, n>>] /\ f[n - 1] = 0 /\ pending[<<q, n>>] = 0
    <3>1. pending[<<q, n>>] = 0 /\ fin[<<q, n>>] = "ok"
      BY <1>2, <1>4
    <3>2. /\ f[n] = f[n - 1] + pending[<<q, n>>]
          /\ fin[<<q, n>>] = "ok" => f[n - 1] = 0
      BY ZenonT(30), <1>4 DEF Counts
    <3>3. QED
      BY ZenonT(30), <3>1, <3>2
  <2>2. QED
    BY ONLY <2>1
<1>5. CASE n = Depth
  <2>1. fin' = fin /\ SinkFinish(q, err)
    <3>1. job[w][1] = q /\ job[w][2] = Depth
      BY <1>2, <1>5
    <3>2. QED
      BY <3>1 DEF FinishJob
  <2>2. /\ eof' = eof \cup {q}
        /\ \/ err = "ok" /\ blocks' = blocks
           \/ blocks' = [blocks EXCEPT ![q] = Append(@, "error")]
           \/ q \in aborted /\ blocks' = blocks
    BY <2>1 DEF SinkFinish
  <2>3. CASE q # r
    <3>1. blocks'[r] = blocks[r] /\ (r \in eof' <=> r \in eof)
      BY <1>3, <2>2, <2>3
    <3>2. QED
      BY <1>1, <2>1, <3>1, FlowSame
  <2>4. CASE q = r
    <3>1. PICK f \in [0..Depth -> Nat] : Counts(r, f)
      BY DEF Flow
    <3>2. reading[r] # "ok"
      BY <1>2, <1>5, <2>4, <3>1 DEF Counts
    <3>3. CASE Excused(r)'
      BY ZenonT(30), <1>1, <2>1, <3>1, <3>2, <3>3 DEF Flow, Counts
    <3>4. CASE ~Excused(r)'
      <4>1. blocks' # [blocks EXCEPT ![r] = Append(@, "error")]
        <5>1. SUFFICES ASSUME blocks' = [blocks EXCEPT ![r] = Append(@, "error")] PROVE FALSE
          OBVIOUS
        <5>2. blocks[r] \in Seq({"block", "error"}) /\ blocks'[r] = Append(blocks[r], "error")
          BY <1>3, <5>1
        <5>3. /\ Len(blocks'[r]) \in 1..Len(blocks'[r])
              /\ blocks'[r][Len(blocks'[r])] = "error"
          BY <5>2
        <5>4. QED
          BY <3>4, <5>3 DEF Excused
      <4>2. r \notin aborted
        BY <1>1, <3>4 DEF Excused
      <4>3. err = "ok" /\ blocks' = blocks
        BY <2>2, <2>4, <4>1, <4>2
      <4>4. f[Depth] = 0
        BY <1>4, <1>5, <2>4, <3>1, <4>3
      <4>5. ~Excused(r)
        BY <1>1, <3>4, <4>3 DEF Excused
      <4>6. Counts(r, f)'
        BY <1>1, <2>1, <3>1, <3>2, <4>3, <4>4, <4>5 DEF Counts
      <4>7. QED
        BY <3>1, <4>6 DEF Flow
    <3>5. QED
      BY <3>3, <3>4
  <2>5. QED
    BY <2>3, <2>4
<1>6. CASE n # Depth
  <2>1. /\ UNCHANGED <<blocks, eof>>
        /\ fin' = fin \/ fin' = [fin EXCEPT ![<<q, n + 1>>] = err]
    <3>1. job[w][1] = q /\ job[w][2] = n
      BY <1>2
    <3>2. /\ UNCHANGED <<blocks, eof>>
          /\ fin' = fin \/ fin' = [fin EXCEPT ![<<job[w][1], job[w][2] + 1>>] = err]
      BY <1>6, <3>1 DEF FinishJob, sinkVars
    <3>3. QED
      BY <3>1, <3>2
  <2>2. n + 1 \in 1..Depth /\ n + 1 # 1 /\ <<q, n + 1>> \in T /\ n \in Int
    <3>1. n + 1 \in 1..Depth /\ n + 1 # 1 /\ n \in Int
      BY <1>2, <1>3, <1>6
    <3>2. QED
      BY <1>2, <1>3, <3>1
  <2>3. CASE q # r
    <3>1. \A i \in 1..Depth : fin'[<<r, i>>] = fin[<<r, i>>]
      BY <1>3, <2>1, <2>2, <2>3
    <3>2. QED
      BY <1>1, <2>1, <3>1, FlowSame
  <2>4. CASE q = r
    <3>1. PICK f \in [0..Depth -> Nat] : Counts(r, f)
      BY DEF Flow
    <3>2. \A i \in 1..Depth : i # n + 1 => fin'[<<r, i>>] = fin[<<r, i>>]
      BY <1>3, <2>1, <2>2, <2>4
    <3>3. fin'[<<r, n + 1>>] = "ok" => fin[<<r, n + 1>>] = "ok" \/ err = "ok"
      BY <1>3, <2>1, <2>2, <2>4
    <3>4. \A i \in 1..Depth : fin'[<<r, i>>] = "ok" => f[i - 1] = 0
      <4>1. ASSUME NEW i \in 1..Depth, i # n + 1, fin'[<<r, i>>] = "ok" PROVE f[i - 1] = 0
        BY <3>1, <3>2, <4>1 DEF Counts
      <4>2. ASSUME fin'[<<r, n + 1>>] = "ok" PROVE f[(n + 1) - 1] = 0
        <5>1. (n + 1) - 1 = n
          BY <2>2
        <5>2. fin[<<r, n + 1>>] = "ok" => f[(n + 1) - 1] = 0
          BY <2>2, <3>1 DEF Counts
        <5>3. err = "ok" => f[n] = 0
          BY ZenonT(30), <1>4, <2>4, <3>1
        <5>4. QED
          BY <3>3, <4>2, <5>1, <5>2, <5>3
      <4>3. QED
        BY <4>1, <4>2
    <3>5. fin'[<<r, 1>>] = fin[<<r, 1>>]
      BY <1>3, <2>2, <3>2
    <3>6. Excused(r)' <=> Excused(r)
      BY ZenonT(30), <1>1, <2>1 DEF Excused
    <3>7. Counts(r, f)'
      BY ZenonT(30), <1>1, <2>1, <3>1, <3>4, <3>5, <3>6 DEF Counts
    <3>8. QED
      BY <3>1, <3>7 DEF Flow
  <2>5. QED
    BY <2>3, <2>4
<1>7. QED
  BY <1>5, <1>6

\* What Head and Tail leave of a sequence.
LEMMA TailOf ==
    ASSUME NEW S, NEW q \in Seq(S), q # <<>>
    PROVE  /\ Len(q) \in Nat /\ Len(q) > 0 /\ Len(Tail(q)) = Len(q) - 1 /\ Head(q) = q[1]
           /\ \A k \in 1..Len(Tail(q)) : Tail(q)[k] = q[k + 1]
OBVIOUS

\* One more with the handler is one less in the sink.
LEMMA OneFurther ==
    ASSUME NEW a \in Nat, NEW b \in Nat, NEW c \in Nat
    PROVE  a + (b - 1) + (c + 1) = a + b + c
OBVIOUS

\* The handler takes the first message of a sink.
LEMMA Taken ==
    ASSUME TypedSink, NEW r \in Results, blocks[r] # <<>>, blocks' = [blocks EXCEPT ![r] = Tail(@)]
    PROVE  /\ Len(blocks[r]) \in Nat /\ Len(blocks[r]) > 0 /\ Len(blocks'[r]) = Len(blocks[r]) - 1
           /\ Head(blocks[r]) = blocks[r][1]
           /\ \A k \in 1..Len(blocks'[r]) : blocks'[r][k] = blocks[r][k + 1]
<1>1. blocks[r] \in Seq({"block", "error"}) /\ blocks'[r] = Tail(blocks[r])
  BY DEF TypedSink
<1>2. QED
  BY ZenonT(30), <1>1, TailOf

\* Reading, waiting and aborting lose no block of a result that is not excused.
LEMMA FlowOutside ==
    ASSUME PoolInv, Depth' = Depth, Blocks' = Blocks, NEW r \in Results, Flow(r), Outside
    PROVE  Flow(r)'
<1>1. /\ UNCHANGED <<pending, fin, eof>> /\ (r \in aborted => r \in aborted')
  BY OutsideFrame DEF PoolInv, TypedSink
<1>2. PICK f \in [0..Depth -> Nat] : Counts(r, f)
  BY DEF Flow
<1>3. /\ unread \in [Results -> Nat \cup {-1}] /\ got \in [Results -> Nat]
      /\ blocks \in [Results -> Seq({"block", "error"})] /\ TypedSink
      /\ reading \in [Results -> {"no", "yes", "ok", "error"}]
      /\ Depth \in Nat /\ Depth > 0
  BY Chain DEF PoolInv, TypedQueue, TypedSink
<1>4. CASE UNCHANGED <<unread, blocks, reading, got>>
  BY <1>1, <1>4, FlowSame
<1>5. CASE \E q \in Results :
               /\ unread[q] >= 0 /\ unread' = [unread EXCEPT ![q] = -1]
               /\ aborted' = Results /\ UNCHANGED <<blocks, reading, got>>
  <2>1. PICK q \in Results :
               /\ unread[q] >= 0 /\ unread' = [unread EXCEPT ![q] = -1]
               /\ aborted' = Results /\ UNCHANGED <<blocks, reading, got>>
    BY ZenonT(30), <1>5
  <2>2. CASE q # r
    BY <1>1, <1>3, <2>1, <2>2, FlowSame
  <2>3. CASE q = r
    <3>1. unread'[r] = -1 /\ unread[r] # -1 /\ Excused(r)'
      BY <1>3, <2>1, <2>3 DEF Excused
    <3>2. fin[<<r, 1>>] = "none"
      BY <1>2, <3>1 DEF Counts
    <3>3. Counts(r, f)'
      BY <1>1, <1>2, <2>1, <3>1, <3>2 DEF Counts
    <3>4. QED
      BY <1>2, <3>3 DEF Flow
  <2>4. QED
    BY <2>2, <2>3
<1>6. CASE \E q \in Results :
               /\ reading[q] = "no" /\ reading' = [reading EXCEPT ![q] = "yes"]
               /\ UNCHANGED <<unread, blocks, got>>
  <2>1. PICK q \in Results :
               /\ reading[q] = "no" /\ reading' = [reading EXCEPT ![q] = "yes"]
               /\ UNCHANGED <<unread, blocks, got>>
    BY ZenonT(30), <1>6
  <2>2. CASE q # r
    BY <1>1, <1>3, <2>1, <2>2, FlowSame
  <2>3. CASE q = r
    <3>1. reading'[r] = "yes" /\ (Excused(r) => Excused(r)')
      BY <1>1, <1>3, <2>1, <2>3 DEF Excused
    <3>2. Counts(r, f)'
      BY <1>1, <1>2, <2>1, <3>1 DEF Counts
    <3>3. QED
      BY <1>2, <3>2 DEF Flow
  <2>4. QED
    BY <2>2, <2>3
<1>7. CASE \E q \in Results :
               /\ reading[q] = "yes" /\ reading' = [reading EXCEPT ![q] = "error"]
               /\ blocks' = blocks \/ (blocks[q] # <<>> /\ blocks' = [blocks EXCEPT ![q] = Tail(@)])
               /\ UNCHANGED <<unread, got>>
  <2>1. PICK q \in Results :
               /\ reading[q] = "yes" /\ reading' = [reading EXCEPT ![q] = "error"]
               /\ blocks' = blocks \/ (blocks[q] # <<>> /\ blocks' = [blocks EXCEPT ![q] = Tail(@)])
               /\ UNCHANGED <<unread, got>>
    BY ZenonT(30), <1>7
  <2>2. CASE q # r
    <3>1. blocks'[r] = blocks[r] /\ reading'[r] = reading[r]
      BY <1>3, <2>1, <2>2
    <3>2. QED
      BY ZenonT(30), <1>1, <2>1, <3>1, FlowSame
  <2>3. CASE q = r
    <3>1. reading'[r] = "error" /\ Excused(r)'
      BY <1>3, <2>1, <2>3 DEF Excused
    <3>2. Counts(r, f)'
      BY ZenonT(30), <1>1, <1>2, <2>1, <3>1 DEF Counts
    <3>3. QED
      BY <1>2, <3>2 DEF Flow
  <2>4. QED
    BY <2>2, <2>3
<1>8. CASE \E q \in Results :
               /\ reading[q] = "yes" /\ blocks[q] # <<>> /\ Head(blocks[q]) # "error"
               /\ blocks' = [blocks EXCEPT ![q] = Tail(@)] /\ got' = [got EXCEPT ![q] = @ + 1]
               /\ UNCHANGED <<unread, reading>>
  <2>1. PICK q \in Results :
               /\ reading[q] = "yes" /\ blocks[q] # <<>> /\ Head(blocks[q]) # "error"
               /\ blocks' = [blocks EXCEPT ![q] = Tail(@)] /\ got' = [got EXCEPT ![q] = @ + 1]
               /\ UNCHANGED <<unread, reading>>
    BY ZenonT(30), <1>8
  <2>2. CASE q # r
    <3>1. blocks'[r] = blocks[r] /\ got'[r] = got[r]
      BY <1>3, <2>1, <2>2
    <3>2. QED
      BY <1>1, <2>1, <3>1, FlowSame
  <2>3. CASE q = r
    <3>1. /\ Len(blocks[r]) \in Nat /\ Len(blocks[r]) > 0 /\ Len(blocks'[r]) = Len(blocks[r]) - 1
          /\ blocks[r][1] # "error"
          /\ \A k \in 1..Len(blocks'[r]) : blocks'[r][k] = blocks[r][k + 1]
      BY <1>3, <2>1, <2>3, Taken
    <3>2. Excused(r) => Excused(r)'
      <4>1. ASSUME NEW k \in 1..Len(blocks[r]), blocks[r][k] = "error"
            PROVE  k - 1 \in 1..Len(blocks'[r]) /\ blocks'[r][k - 1] = "error"
        <5>1. k # 1 /\ k \in Int
          BY <3>1, <4>1
        <5>2. k - 1 \in 1..Len(blocks'[r]) /\ (k - 1) + 1 = k
          BY <3>1, <4>1, <5>1
        <5>3. QED
          BY <3>1, <4>1, <5>2
      <4>2. QED
        BY ZenonT(30), <1>1, <2>1, <4>1 DEF Excused
    <3>3. got[r] \in Nat /\ got'[r] = got[r] + 1 /\ f[Depth] \in Nat /\ reading[r] = "yes"
      BY <1>2, <1>3, <2>1, <2>3
    <3>4. Excused(r)' \/ f[Depth] + Len(blocks'[r]) + got'[r] = Blocks
      <4>1. Excused(r) \/ f[Depth] + Len(blocks[r]) + got[r] = Blocks
        BY <1>2 DEF Counts
      <4>2. CASE f[Depth] + Len(blocks[r]) + got[r] = Blocks
        <5>1. /\ f[Depth] \in Nat /\ Len(blocks[r]) \in Nat /\ got[r] \in Nat
              /\ Len(blocks'[r]) = Len(blocks[r]) - 1 /\ got'[r] = got[r] + 1
          BY <3>1, <3>3
        <5>2. f[Depth] + (Len(blocks[r]) - 1) + (got[r] + 1) = Blocks
          BY ZenonT(30), <4>2, <5>1, OneFurther
        <5>3. QED
          BY ONLY <5>1, <5>2
      <4>3. QED
        BY <3>2, <4>1, <4>2
    <3>5. Counts(r, f)'
      BY ZenonT(30), <1>1, <1>2, <2>1, <3>2, <3>3, <3>4 DEF Counts
    <3>6. QED
      BY <1>2, <3>5 DEF Flow
  <2>4. QED
    BY <2>2, <2>3
<1>9. CASE \E q \in Results :
               /\ reading[q] = "yes" /\ blocks[q] = <<>> /\ q \in eof
               /\ reading' = [reading EXCEPT ![q] = "ok"] /\ UNCHANGED <<unread, blocks, got>>
  <2>1. PICK q \in Results :
               /\ reading[q] = "yes" /\ blocks[q] = <<>> /\ q \in eof
               /\ reading' = [reading EXCEPT ![q] = "ok"] /\ UNCHANGED <<unread, blocks, got>>
    BY ZenonT(30), <1>9
  <2>2. CASE q # r
    BY <1>1, <1>3, <2>1, <2>2, FlowSame
  <2>3. CASE q = r
    <3>1. reading'[r] = "ok" /\ reading[r] = "yes" /\ (Excused(r) => Excused(r)')
      BY <1>1, <1>3, <2>1, <2>3 DEF Excused
    <3>2. Counts(r, f)'
      BY ZenonT(30), <1>1, <1>2, <2>1, <2>3, <3>1 DEF Counts
    <3>3. QED
      BY <1>2, <3>2 DEF Flow
  <2>4. QED
    BY <2>2, <2>3
<1>10. QED
  BY <1>4, <1>5, <1>6, <1>7, <1>8, <1>9, OutsideEffect

\* The invariant: as long as reads of storage do not fail, the blocks of every result are
\* accounted for.
ExecInv == PoolInv /\ ("read error" \in Faults \/ \A r \in Results : Flow(r))

\* It holds at the start, when the source has all the blocks.
LEMMA ExecInit == Init => ExecInv
<1> SUFFICES ASSUME Init, NEW r \in Results PROVE Flow(r)
  BY ZenonT(30), PoolInit DEF ExecInv
<1>1. /\ Depth \in Nat /\ Depth > 0 /\ Blocks \in Nat
      /\ \A i \in 1..Depth : <<r, i>> \in T /\ i \in 0..Depth /\ i - 1 \in 0..Depth
  BY Chain DEF Init
<1>2. PICK f \in [0..Depth -> Nat] : \A i \in 0..Depth : f[i] = Blocks
  <2>1. [i \in 0..Depth |-> Blocks] \in [0..Depth -> Nat]
    BY <1>1
  <2>2. QED
    BY ZenonT(30), <2>1
<1>3. /\ unread[r] = Blocks /\ blocks[r] = <<>> /\ got[r] = 0 /\ reading[r] = "no" /\ r \notin eof
      /\ \A i \in 1..Depth : pending[<<r, i>>] = 0 /\ fin[<<r, i>>] = "none"
  BY <1>1 DEF Init
<1>4. f[0] = Blocks /\ f[Depth] = Blocks /\ Len(blocks[r]) = 0
  BY <1>1, <1>2, <1>3
<1>5. \A i \in 1..Depth : f[i] = f[i - 1] + pending[<<r, i>>]
  BY <1>1, <1>2, <1>3
<1>6. fin[<<r, 1>>] = "none" /\ f[Depth] + Len(blocks[r]) + got[r] = Blocks
  BY <1>1, <1>3, <1>4
<1>7. Counts(r, f)
  BY <1>3, <1>4, <1>5, <1>6 DEF Counts
<1>8. QED
  BY <1>2, <1>7 DEF Flow

\* Steps that touch neither a source, nor a queue, nor a sink.
LEMMA FlowIdle ==
    ASSUME PoolInv, Depth' = Depth, Blocks' = Blocks, NEW r \in Results, Flow(r),
           UNCHANGED <<unread, pending, fin, blocks, eof, aborted, reading, got>>
    PROVE  Flow(r)'
BY FlowSame

\* Every step preserves it.
LEMMA ExecStep ==
    ASSUME ExecInv, [Next]_vars
    PROVE  ExecInv'
<1>1. /\ setting' = setting /\ T' = T /\ Results' = Results /\ Depth' = Depth
      /\ Blocks' = Blocks /\ Faults' = Faults
  BY SettingFixed
<1>2. PoolInv /\ PoolInv'
  BY ZenonT(30), PoolStep DEF ExecInv
<1>3. SUFFICES ASSUME "read error" \notin Faults, NEW r \in Results, Flow(r) PROVE Flow(r)'
  BY ZenonT(30), <1>1, <1>2 DEF ExecInv
<1> USE DEF queueVars, poolVars, sinkVars, abortVars, readVars
<1>4. CASE UNCHANGED vars
  BY ZenonT(30), <1>1, <1>2, <1>3, <1>4, FlowIdle DEF vars
<1>5. ASSUME NEW q \in Results, SourceBlock(q) \/ SourceEnd(q) \/ SourceReadError(q)
      PROVE  Flow(r)'
  BY ZenonT(30), <1>1, <1>2, <1>3, <1>5, FlowSource DEF SourceReadError
<1>6. ASSUME NEW c, Enter(c) PROVE Flow(r)'
  BY ZenonT(30), <1>1, <1>2, <1>3, <1>6, FlowIdle DEF Enter
<1>7. ASSUME NEW w \in Worker, NEW t \in T, Take(w, t) PROVE Flow(r)'
  BY ZenonT(30), <1>1, <1>2, <1>3, <1>7, FlowIdle DEF Take
<1>8. ASSUME NEW w \in Worker, Exit(w) \/ Panic(w) \/ Recover(w) PROVE Flow(r)'
  BY ZenonT(30), <1>1, <1>2, <1>3, <1>8, FlowIdle DEF Exit, Panic, Recover
<1>9. ASSUME NEW w \in Worker, Rest(w) \/ Yield(w) \/ Reschedule(w) PROVE Flow(r)'
  BY ZenonT(30), <1>1, <1>2, <1>3, <1>9, FlowIdle DEF Rest, Yield, Reschedule
<1>10. ASSUME NEW w \in Worker, NEW l \in {"run", "yield"}, HandOn(w, l) \/ Emit(w, l)
       PROVE  Flow(r)'
  BY ZenonT(30), <1>1, <1>2, <1>3, <1>10, FlowHandOn, FlowEmit
<1>11. ASSUME NEW w \in Worker, ProcessFinish(w) \/ ProcessError(w) \/ ProcessRefused(w)
       PROVE  Flow(r)'
  <2>1. PICK err \in {"ok", "error"} : /\ wpc[w] = "run" /\ FinishJob(w, err)
                                       /\ err = "ok" => pending[job[w]] = 0 /\ fin[job[w]] = "ok"
    BY <1>2, <1>11, EndsJob
  <2>2. QED
    BY ZenonT(30), <1>1, <1>2, <1>3, <2>1, FlowFinish
<1>12. CASE Outside
  BY ZenonT(30), <1>1, <1>2, <1>3, <1>12, FlowOutside
<1>13. QED
  BY <1>4, <1>5, <1>6, <1>7, <1>8, <1>9, <1>10, <1>11, <1>12, Steps

\* A result that the handler reads to its end without an error is complete, for every query,
\* pool, capacity and fault, unless it was aborted or a read of storage failed.
THEOREM ReadIsComplete == Spec => []CompleteUnlessAborted
<1>1. ExecInv => CompleteUnlessAborted
  <2> SUFFICES ASSUME ExecInv, "read error" \notin Faults, NEW r \in Results,
                      reading[r] = "ok", r \notin aborted
               PROVE  got[r] = Blocks
    BY ZenonT(30) DEF CompleteUnlessAborted
  <2>1. PICK f \in [0..Depth -> Nat] : Counts(r, f)
    BY ZenonT(30) DEF ExecInv, Flow
  <2>2. r \in eof /\ blocks[r] = <<>>
    BY ZenonT(30), <2>1 DEF Counts
  <2>3. Len(blocks[r]) = 0 /\ got[r] \in Nat
    <3>1. got[r] \in Nat
      BY ZenonT(30) DEF ExecInv, PoolInv, TypedSink
    <3>2. Len(<<>>) = 0
      BY ZenonT(30)
    <3>3. QED
      BY ZenonT(30), <2>2, <3>1, <3>2
  <2>4. ~Excused(r)
    <3>1. \A k \in 1..Len(blocks[r]) : FALSE
      BY ONLY <2>3
    <3>2. QED
      BY ZenonT(30), <3>1 DEF Excused
  <2>5. f[Depth] = 0 /\ f[Depth] + Len(blocks[r]) + got[r] = Blocks
    BY ZenonT(30), <2>1, <2>2, <2>4 DEF Counts
  <2>6. 0 + 0 + got[r] = Blocks
    BY ONLY <2>3, <2>5
  <2>7. QED
    BY ONLY <2>3, <2>6
<1>2. QED
  BY <1>1, ExecInit, ExecStep, PTL DEF Spec
=============================================================================
