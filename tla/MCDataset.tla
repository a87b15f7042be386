------------------------------ MODULE MCDataset ------------------------------
(***************************************************************************)
(* Two blocks, one of which ends before the other, two transformations     *)
(* downstream, and one trigger of each kind.                               *)
(***************************************************************************)
EXTENDS Dataset, Trigger

MCStopOf == [k \in Key |-> IF k = 1 THEN 1 ELSE 2]

AfterWatermark(l) == [kind |-> "watermark", lateness |-> l]
AfterCount(n) == [kind |-> "count", count |-> n]
AfterProcessingTime(n) == [kind |-> "processing time", duration |-> n]
Repeated(s) == [kind |-> "repeated", t |-> s]
OrFinally(s, f) == [kind |-> "or finally", main |-> s, finally |-> f]

MCWatermarkSpecs ==
    {AfterWatermark(0), AfterWatermark(1), Repeated(AfterWatermark(0)),
     OrFinally(Repeated(AfterCount(1)), AfterWatermark(0))}

MCSpecs ==
    MCWatermarkSpecs \cup
    {AfterCount(2), Repeated(AfterCount(2)), AfterProcessingTime(1), 
     Repeated(OrFinally(AfterProcessingTime(1), AfterCount(2)))}

Case(modes, specs, n, u, faults) ==
    [accMode : modes, triggerSpec : specs, ts : {n}, updates : {u}, faults : {faults}]

MCSettings ==
    Case({"Accumulating"}, MCSpecs, 1, 2, {"upstream"})
        \cup Case({"Discarding", "AccumulatingRetracting"},
                  {AfterWatermark(1), Repeated(AfterCount(2))}, 1, 2, {"upstream"})
        \cup Case({"Accumulating", "Discarding"},
                  {OrFinally(Repeated(AfterCount(1)), AfterWatermark(0))}, 2, 1,
                  {"upstream", "downstream"})

\* The states of a trigger of spec s in this instance.
RECURSIVE StatesOf(_)
StatesOf(s) ==
    CASE s.kind = "watermark" ->
            [kind : {s.kind}, allowedLateness : {s.lateness}, finished : BOOLEAN]
      [] s.kind = "repeated" ->
            [kind : {s.kind}, t : StatesOf(s.t)]
      [] s.kind = "processing time" ->
            [kind : {s.kind}, duration : {s.duration}, triggerTimeSet : BOOLEAN,
             triggerTime : 0..4, current : Time \cup {0}]
      [] s.kind = "count" ->
            [kind : {s.kind}, n : 0..MaxRows, atLeast : {s.count}]
      [] s.kind = "or finally" ->
            [kind : {s.kind}, main : StatesOf(s.main), finally : StatesOf(s.finally),
             finished : BOOLEAN]

MCLive(s) == {t \in StatesOf(s) : ~Finished(t)}
=============================================================================
