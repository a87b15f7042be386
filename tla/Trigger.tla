------------------------------- MODULE Trigger -------------------------------
(***************************************************************************)
(* The triggers of query/execute/trigger.go, which decide when a dataset   *)
(* sends a block on and when it forgets it.  A trigger is a record; the    *)
(* methods Triggered and Finished return a value and change the trigger,   *)
(* so each is a pair of operators: the value, and the trigger afterwards.  *)
(* A context c has the fields stop and count of the block and the          *)
(* dataset's watermark and processingTime.                                 *)
(***************************************************************************)
EXTENDS Integers

\* A spec is [kind |-> "watermark", lateness |-> l], [kind |-> "processing time",
\* duration |-> n], [kind |-> "count", count |-> n], [kind |-> "repeated", t |-> s] or
\* [kind |-> "or finally", main |-> s, finally |-> s].
RECURSIVE NewTriggerFromSpec(_)
NewTriggerFromSpec(s) ==
    CASE s.kind = "watermark" ->
            [kind |-> "watermark", allowedLateness |-> s.lateness, finished |-> FALSE]
      [] s.kind = "repeated" ->
            [kind |-> "repeated", t |-> NewTriggerFromSpec(s.t)]
      [] s.kind = "processing time" ->
            [kind |-> "processing time", duration |-> s.duration, triggerTimeSet |-> FALSE,
             triggerTime |-> 0, current |-> 0]
      [] s.kind = "count" ->
            [kind |-> "count", n |-> 0, atLeast |-> s.count]
      [] s.kind = "or finally" ->
            [kind |-> "or finally", main |-> NewTriggerFromSpec(s.main),
             finally |-> NewTriggerFromSpec(s.finally), finished |-> FALSE]

\* triggerTime after a call of Triggered.
TriggerTime(t, c) == IF t.triggerTimeSet THEN t.triggerTime ELSE c.processingTime + t.duration

\* The value that Triggered returns.
RECURSIVE Triggered(_, _)
Triggered(t, c) ==
    CASE t.kind = "watermark"       -> c.watermark >= c.stop
      [] t.kind = "repeated"        -> Triggered(t.t, c)
      [] t.kind = "processing time" -> c.processingTime >= TriggerTime(t, c)
      [] t.kind = "count"           -> c.count >= t.atLeast
      [] t.kind = "or finally"      -> Triggered(t.finally, c) \/ Triggered(t.main, c)

\* The trigger after a call of Triggered.  An orFinally asks main only if finally did
\* not fire.
RECURSIVE AfterTriggered(_, _)
AfterTriggered(t, c) ==
    CASE t.kind = "watermark" ->
            [t EXCEPT !.finished = @ \/ c.watermark >= c.stop + t.allowedLateness]
      [] t.kind = "repeated" ->
            [t EXCEPT !.t = AfterTriggered(@, c)]
      [] t.kind = "processing time" ->
            [t EXCEPT !.triggerTimeSet = TRUE, !.triggerTime = TriggerTime(t, c),
                      !.current = c.processingTime]
      [] t.kind = "count" ->
            [t EXCEPT !.n = c.count]
      [] t.kind = "or finally" ->
            IF Triggered(t.finally, c)
              THEN [t EXCEPT !.finally = AfterTriggered(@, c), !.finished = TRUE]
              ELSE [t EXCEPT !.finally = AfterTriggered(@, c), !.main = AfterTriggered(@, c)]

\* Reset forgets what a trigger has seen, except that orFinally keeps its children.
RECURSIVE Reset(_)
Reset(t) ==
    CASE t.kind = "watermark"       -> [t EXCEPT !.finished = FALSE]
      [] t.kind = "repeated"        -> [t EXCEPT !.t = Reset(@)]
      [] t.kind = "processing time" -> [t EXCEPT !.triggerTimeSet = FALSE]
      [] t.kind = "count"           -> [t EXCEPT !.n = 0]
      [] t.kind = "or finally"      -> [t EXCEPT !.finished = FALSE]

\* The value that Finished returns.
Finished(t) ==
    CASE t.kind \in {"watermark", "or finally"} -> t.finished
      [] t.kind = "repeated"        -> FALSE
      [] t.kind = "processing time" -> t.triggerTimeSet /\ t.current >= t.triggerTime
      [] t.kind = "count"           -> t.n >= t.atLeast

\* The trigger after a call of Finished: repeatedlyForever starts its trigger again
\* when that has finished (and asks it, which may restart a trigger below).
RECURSIVE AfterFinished(_)
AfterFinished(t) ==
    IF t.kind = "repeated"
      THEN LET u == AfterFinished(t.t) IN
           [t EXCEPT !.t = IF Finished(t.t) THEN Reset(u) ELSE u]
      ELSE t
=============================================================================
