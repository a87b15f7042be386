--------------------------- MODULE Transformations ---------------------------
(***************************************************************************)
(* What the transformations of functions/ do with the rows of a block.     *)
(* Process asks the block for an iterator, and the iterator calls it back  *)
(* with one slice of rows after the other, as the block's data arrives.    *)
(* Selectors and aggregates are objects that serve every block of a query, *)
(* and Process resets them; the other transformations keep what they       *)
(* remember in variables of Process.                                       *)
(*                                                                         *)
(* A row has a time and one value; f is the specification of the           *)
(* transformation.  Float values are exact here: quotients are pairs, and  *)
(* where the code takes a root its operands are compared.                  *)
(***************************************************************************)
EXTENDS Integers, Sequences, SequencesExt, FiniteSetsExt

CONSTANTS
    RowTime,     \* the times of rows
    RowValue,    \* their values
    Stop,        \* the stop time of the blocks
    Function,    \* the transformations
    MaxRows,     \* bound on the rows of a block
    MaxSlice,    \* bound on the rows of a slice
    MaxBlocks    \* bound on the blocks that one transformation processes

VARIABLES
    f,       \* the transformation
    state,   \* what it remembers from slice to slice
    reading, \* Process is running
    seen,    \* the rows of the block that the iterator has handed out
    out,     \* the rows that Process has appended to builders
    blocks   \* the blocks so far

transVars == <<f, state, reading, seen, out, blocks>>

Row == [t : RowTime, v : RowValue]
NaN == "NaN"

-----------------------------------------------------------------------------
\* Rational numbers for the aggregates that divide.

Rat(n) == <<n, 1>>
Plus(a, b) == <<a[1] * b[2] + b[1] * a[2], a[2] * b[2]>>
Minus(a, b) == <<a[1] * b[2] - b[1] * a[2], a[2] * b[2]>>
Times(a, b) == <<a[1] * b[1], a[2] * b[2]>>
Over(a, n) == <<a[1], a[2] * n>>

RECURSIVE GCD(_, _)
GCD(a, b) == IF b = 0 THEN a ELSE GCD(b, a % b)
Abs(n) == IF n < 0 THEN -n ELSE n
Reduced(a) == LET d == GCD(Abs(a[1]), a[2]) IN <<a[1] \div d, a[2] \div d>>

-----------------------------------------------------------------------------
\* What a transformation starts a block with: new variables of Process, or its
\* selector or aggregate after reset, for which a sample without a position
\* draws one.

Positions == IF f.op = "sample" THEN IF f.pos < 0 THEN 0..(f.n - 1) ELSE {f.pos} ELSE {0}

Started(pos) ==
    CASE f.op = "limit"               -> [n |-> f.n]
      [] f.op = "sample"              -> [offset |-> pos]
      [] f.op = "first"               -> [selected |-> FALSE]
      [] f.op = "last"                -> [rows |-> <<>>]
      [] f.op \in {"min", "max"}      -> [rows |-> <<>>, set |-> FALSE, best |-> 0]
      [] f.op = "distinct"            -> [values |-> {}]
      [] f.op \in {"difference", "derivative"} -> [first |-> TRUE, t |-> 0, v |-> 0]
      [] f.op = "integral"            -> [first |-> TRUE, t |-> 0, v |-> 0, sum |-> 0]
      [] f.op = "stateTracking"       -> [inState |-> FALSE, start |-> 0, count |-> 0, duration |-> 0]
      [] f.op \in {"count", "sum"}    -> [n |-> 0]
      [] f.op = "mean"                -> [n |-> 0, sum |-> 0]
      [] f.op = "spread"              -> [set |-> FALSE, min |-> 0, max |-> 0]
      [] f.op = "stddev"              -> [n |-> 0, mean |-> Rat(0), m2 |-> Rat(0)]
      [] f.op = "skew"                -> [n |-> 0, m1 |-> Rat(0), m2 |-> Rat(0), m3 |-> Rat(0)]
      [] f.op = "covariance"          -> [n |-> 0, x |-> Rat(0), y |-> Rat(0), xy |-> Rat(0)]
      [] f.op = "percentile"          -> [data |-> <<>>]
      [] f.op \in {"window", "group"} -> [none |-> 0]

-----------------------------------------------------------------------------
\* One slice.  The result is what is remembered and the rows that are appended.

Got(s, rows) == [state |-> s, rows |-> rows]

\* Selectors give a row the time of the row or that of the end of the block.
Selected(rows) == [i \in DOMAIN rows |-> IF f.useRowTime THEN rows[i] ELSE [rows[i] EXCEPT !.t = Stop]]

limitSlice(s, rows) ==
    LET l == Min({Len(rows), s.n})
    IN  Got([n |-> s.n - l], SubSeq(rows, 1, l))

\* A mutant: every slice starts at the offset anew.
selectSampleAnew(s, rows) ==
    LET k == IF s.offset < Len(rows) THEN (Len(rows) - 1 - s.offset) \div f.n + 1 ELSE 0
    IN  Got(s, Selected([i \in 1..k |-> rows[s.offset + (i - 1) * f.n + 1]]))

selectSample(s, rows) ==
    LET k == IF s.offset < Len(rows) THEN (Len(rows) - 1 - s.offset) \div f.n + 1 ELSE 0
    IN  Got([offset |-> s.offset + k * f.n - Len(rows)],
            Selected([i \in 1..k |-> rows[s.offset + (i - 1) * f.n + 1]]))

selectFirst(s, rows) ==
    IF ~s.selected /\ rows # <<>> THEN Got([selected |-> TRUE], Selected(<<rows[1]>>)) ELSE Got(s, <<>>)

selectLast(s, rows) ==
    IF rows # <<>> THEN Got([rows |-> <<Last(rows)>>], <<>>) ELSE Got(s, <<>>)

\* Min and max read the row when they know the best one of the slice.
selectRow(s, rows, Better(_, _)) ==
    LET seek(a, i) ==
          IF ~a.set \/ Better(rows[i].v, a.best) THEN [set |-> TRUE, best |-> rows[i].v, idx |-> i] ELSE a
        a == FoldLeft(seek, [set |-> s.set, best |-> s.best, idx |-> 0], [i \in DOMAIN rows |-> i])
    IN  Got([set |-> a.set, best |-> a.best, rows |-> IF a.idx > 0 THEN <<rows[a.idx]>> ELSE s.rows], <<>>)

selectMin(s, rows) == selectRow(s, rows, LAMBDA v, min : v < min)
selectMax(s, rows) == selectRow(s, rows, LAMBDA v, max : v > max)

countSlice(s, rows) == Got([n |-> s.n + Len(rows)], <<>>)
percentileSlice(s, rows) == Got([data |-> s.data \o [i \in DOMAIN rows |-> rows[i].v]], <<>>)

\* The others go through the slice row by row.
Each(step(_, _), s, rows) == FoldLeft(LAMBDA a, r : step(a, r), Got(s, <<>>), rows)

distinctRow(a, r) ==
    IF r.v \in a.state.values THEN a
    ELSE Got([values |-> a.state.values \cup {r.v}], Append(a.rows, r))

sumRow(a, r) == Got([n |-> a.state.n + r.v], <<>>)
meanRow(a, r) == Got([n |-> a.state.n + 1, sum |-> a.state.sum + r.v], <<>>)

\* The value of a derivative is a quotient.
updateRow(a, r, v) ==
    LET ok == ~a.state.first /\ ~(f.nonNegative /\ r.v < a.state.v)
    IN  Got([first |-> FALSE, t |-> r.t, v |-> r.v],
            IF ok THEN Append(a.rows, [t |-> r.t, v |-> v]) ELSE a.rows)
differenceRow(a, r) == updateRow(a, r, r.v - a.state.v)
derivativeRow(a, r) == updateRow(a, r, <<(r.v - a.state.v) * f.unit, r.t - a.state.t>>)

\* Twice the area.
integralRow(a, r) ==
    Got([first |-> FALSE, t |-> r.t, v |-> r.v,
         sum |-> IF a.state.first THEN 0 ELSE a.state.sum + (r.v + a.state.v) * (r.t - a.state.t)], <<>>)

\* The state is that of rows with a positive value.
stateTrackingRow(a, r) ==
    LET s == a.state
        start == IF s.inState THEN s.start ELSE r.t
        next == IF r.v <= 0 THEN [inState |-> FALSE, start |-> s.start, count |-> -1, duration |-> -1]
                ELSE [inState |-> TRUE, start |-> start,
                      count |-> (IF s.inState THEN s.count ELSE 0) + 1,
                      duration |-> IF f.unit > 0 THEN (r.t - start) \div f.unit
                                   ELSE IF s.inState THEN s.duration ELSE 0]
    IN  Got(next, Append(a.rows, [t |-> r.t, v |-> <<next.count, next.duration>>]))

spreadRow(a, r) ==
    LET s == a.state
    IN  Got([set |-> TRUE, min |-> IF ~s.set \/ r.v < s.min THEN r.v ELSE s.min,
                           max |-> IF ~s.set \/ r.v > s.max THEN r.v ELSE s.max], <<>>)

\* The sums of the powers of the deviations from the mean, kept up to date.
stddevRow(a, r) ==
    LET s == a.state
        delta == Minus(Rat(r.v), s.mean)
        mean == Reduced(Plus(s.mean, Over(delta, s.n + 1)))
        delta2 == Minus(Rat(r.v), mean)
    IN  Got([n |-> s.n + 1, mean |-> mean, m2 |-> Reduced(Plus(s.m2, Times(delta, delta2)))], <<>>)

skewRow(a, r) ==
    LET s == a.state
        n == s.n + 1
        delta == Minus(Rat(r.v), s.m1)
        deltaN == Over(delta, n)
        t == Times(Times(delta, deltaN), Rat(s.n))
    IN  Got([n |-> n, m1 |-> Reduced(Plus(s.m1, deltaN)), m2 |-> Reduced(Plus(s.m2, t)),
             m3 |-> Reduced(Plus(s.m3, Minus(Times(Times(t, deltaN), Rat(n - 2)),
                                             Times(Times(Rat(3), deltaN), s.m2))))], <<>>)

\* The second of the two value columns holds the times.
covarianceRow(a, r) ==
    LET s == a.state
        xdelta == Minus(Rat(r.v), s.x)
        ydelta == Minus(Rat(r.t), s.y)
        y == Reduced(Plus(s.y, Over(ydelta, s.n + 1)))
    IN  Got([n |-> s.n + 1, x |-> Reduced(Plus(s.x, Over(xdelta, s.n + 1))), y |-> y,
             xy |-> Reduced(Plus(s.xy, Times(xdelta, Minus(Rat(r.t), y))))], <<>>)

-----------------------------------------------------------------------------
\* Windows.  Truncate is by the remainder of the language, whose sign is that
\* of t.

remainder(t, d) == IF t >= 0 THEN t % d ELSE -((-t) % d)
Truncate(t, d) == IF d <= 0 THEN t ELSE t - remainder(t, d)

clamped(start, stop) == [Start |-> Max({start, f.bounds.Start}), Stop |-> Min({stop, f.bounds.Stop})]
InBounds(b, t) == t >= b.Start /\ t < b.Stop

RECURSIVE boundsFrom(_, _, _)
boundsFrom(now, start, stop) ==
    IF now < start THEN <<>>
    ELSE (IF InBounds(clamped(start, stop), now) THEN <<clamped(start, stop)>> ELSE <<>>)
         \o boundsFrom(now, start + f.every, stop + f.every)

getWindowBounds(now) ==
    LET offset == f.start - Truncate(f.start, f.every)
        first == Truncate(now, f.every) + offset
        stop == IF now >= first THEN first + f.every ELSE first
    IN  boundsFrom(now, stop - f.period, stop)

windowRow(a, r) ==
    LET bounds == getWindowBounds(r.t)
    IN  Got(a.state, a.rows \o [i \in DOMAIN bounds |-> [block |-> bounds[i], row |-> r]])

-----------------------------------------------------------------------------
\* Groups.  The blocks have a common tag, c, and a tag column, g, whose strings
\* the values stand for; f.by and f.except are sets of tags.

CommonTags == [k \in {"c"} |-> 0]
RowTags(r) == [k \in {"c", "g"} |-> IF k = "c" THEN 0 ELSE r.v]
Tags(tags, keys) == [k \in DOMAIN tags \cap keys |-> tags[k]]

ignoring == f.by = {} /\ f.except # {}

isFanIn == IF ignoring THEN "g" \in f.except ELSE f.by \subseteq DOMAIN CommonTags

\* All rows of a block go to one builder, or each to its own.
fanInTags == IF ignoring THEN Tags(CommonTags, {"c"} \ f.except) ELSE Tags(CommonTags, f.by)
determineRowTags(r) == Tags(RowTags(r), IF ignoring THEN {"c", "g"} \ f.except ELSE f.by)

groupRow(a, r) ==
    Got(a.state, Append(a.rows, [block |-> IF isFanIn THEN fanInTags ELSE determineRowTags(r), row |-> r]))

-----------------------------------------------------------------------------

Slice(s, rows) ==
    CASE f.op = "limit"         -> limitSlice(s, rows)
      [] f.op = "sample"        -> selectSample(s, rows)
      [] f.op = "first"         -> selectFirst(s, rows)
      [] f.op = "last"          -> selectLast(s, rows)
      [] f.op = "min"           -> selectMin(s, rows)
      [] f.op = "max"           -> selectMax(s, rows)
      [] f.op = "count"         -> countSlice(s, rows)
      [] f.op = "percentile"    -> percentileSlice(s, rows)
      [] f.op = "distinct"      -> Each(distinctRow, s, rows)
      [] f.op = "difference"    -> Each(differenceRow, s, rows)
      [] f.op = "derivative"    -> Each(derivativeRow, s, rows)
      [] f.op = "integral"      -> Each(integralRow, s, rows)
      [] f.op = "stateTracking" -> Each(stateTrackingRow, s, rows)
      [] f.op = "sum"           -> Each(sumRow, s, rows)
      [] f.op = "mean"          -> Each(meanRow, s, rows)
      [] f.op = "spread"        -> Each(spreadRow, s, rows)
      [] f.op = "stddev"        -> Each(stddevRow, s, rows)
      [] f.op = "skew"          -> Each(skewRow, s, rows)
      [] f.op = "covariance"    -> Each(covarianceRow, s, rows)
      [] f.op = "window"        -> Each(windowRow, s, rows)
      [] f.op = "group"         -> Each(groupRow, s, rows)

\* The value between the two of a sorted column that f.quantile, a quotient,
\* falls between.  There is no value of an empty column: the access panics.
percentileOf(data) ==
    LET x == f.quantile[1] * (Len(data) - 1)
        x0 == x \div f.quantile[2]
        part == x % f.quantile[2]
    IN  IF data = <<>> THEN "panic"
        ELSE IF part = 0 THEN Rat(data[x0 + 1])
        ELSE <<data[x0 + 1] * (f.quantile[2] - part) + data[x0 + 2] * part, f.quantile[2]>>

meanOf(s) == IF s.n < 1 THEN NaN ELSE Reduced(<<s.sum, s.n>>)
stddevOf(s) == IF s.n < 2 THEN NaN ELSE Reduced(Over(s.m2, s.n - 1))
skewOf(s) == IF s.n < 2 THEN NaN ELSE <<s.n, s.m2, s.m3>>
covarianceOf(s) == IF s.n < 2 THEN NaN ELSE Reduced(Over(s.xy, s.n - 1))

\* What Process appends after the last slice.
Value(s) ==
    CASE f.op = "integral"   -> <<s.sum, 2 * f.unit>>
      [] f.op \in {"count", "sum"} -> s.n
      [] f.op = "mean"       -> meanOf(s)
      [] f.op = "spread"     -> s.max - s.min
      [] f.op = "stddev"     -> stddevOf(s)
      [] f.op = "skew"       -> skewOf(s)
      [] f.op = "covariance" -> covarianceOf(s)
      [] f.op = "percentile" -> percentileOf(SortSeq(s.data, <))

IsAggregate == f.op \in {"integral", "count", "sum", "mean", "spread", "stddev", "skew", "covariance", "percentile"}

Appended(s) ==
    CASE f.op = "last"          -> Selected(s.rows)
      [] f.op \in {"min", "max"} -> Selected(IF s.set THEN s.rows ELSE <<>>)
      [] IsAggregate            -> <<[t |-> Stop, v |-> Value(s)]>>
      [] OTHER                  -> <<>>

-----------------------------------------------------------------------------

TransInit ==
    /\ f \in Function
    /\ state = Started(0)
    /\ reading = FALSE /\ seen = <<>> /\ out = <<>> /\ blocks = 0

Process ==
    /\ ~reading /\ blocks < MaxBlocks
    /\ \E pos \in Positions : state' = Started(pos)
    /\ reading' = TRUE /\ seen' = <<>> /\ out' = <<>>
    /\ blocks' = blocks + 1
    /\ UNCHANGED f

\* The iterator hands out a slice, of a block whose rows are in the order of time.
DoTime(rows) ==
    /\ reading
    /\ Len(seen) + Len(rows) <= MaxRows
    /\ LET all == seen \o rows IN \A i \in 2..Len(all) : all[i - 1].t <= all[i].t
    /\ seen' = seen \o rows
    /\ LET got == Slice(state, rows) IN state' = got.state /\ out' = out \o got.rows
    /\ UNCHANGED <<f, reading, blocks>>

Processed ==
    /\ reading
    /\ reading' = FALSE
    /\ out' = out \o Appended(state)
    /\ UNCHANGED <<f, state, seen, blocks>>

TransNext == Process \/ (\E rows \in BoundedSeq(Row, MaxSlice) : DoTime(rows)) \/ Processed

TransSpec == TransInit /\ [][TransNext]_transVars

-----------------------------------------------------------------------------
\* What the transformations mean, on all the rows of a block at once.

Picked(rows, positions) ==
    LET order == SetToSortSeq(positions, <) IN [k \in DOMAIN order |-> rows[order[k]]]

Total(rows, Of(_)) == FoldLeft(LAMBDA a, i : a + Of(i), 0, [i \in DOMAIN rows |-> i])

\* With n times the mean, deviations are whole numbers.
Deviation(rows, i) == Len(rows) * rows[i].v - Total(rows, LAMBDA j : rows[j].v)
Moment2(rows) == Reduced(<<Total(rows, LAMBDA i : Deviation(rows, i)^2), Len(rows)^2>>)
Moment3(rows) == Reduced(<<Total(rows, LAMBDA i : Deviation(rows, i)^3), Len(rows)^3>>)
Comoment(rows) ==
    LET meanT == Total(rows, LAMBDA j : rows[j].t)
    IN  <<Total(rows, LAMBDA i : Deviation(rows, i) * (Len(rows) * rows[i].t - meanT)), Len(rows)^2>>

\* The first row of the positive ones that go on to row i.
RunStart(rows, i) == CHOOSE j \in 1..i : /\ (\A k \in j..i : rows[k].v > 0)
                                        /\ (j = 1 \/ rows[j - 1].v <= 0)

\* The windows of a row end at the times that are a multiple of every away from
\* the start, and last for the period.
Windows(t) ==
    LET stops == {s \in (t + 1)..(t + f.period) : (s - f.start) % f.every = 0}
        order == SetToSortSeq(stops, <)
    IN  SelectSeq([k \in DOMAIN order |-> clamped(order[k] - f.period, order[k])], LAMBDA b : InBounds(b, t))

WholeRows(rows, pos) ==
    LET n == Len(rows)
        value(i) == rows[i].v
        Differ == {i \in 2..n : f.nonNegative => value(i) >= value(i - 1)}
        best(Le(_, _)) == {i \in 1..n : /\ \A j \in 1..n : Le(value(i), value(j))
                                       /\ \A j \in 1..(i - 1) : value(j) # value(i)}
    IN  CASE f.op = "limit"    -> SubSeq(rows, 1, Min({n, f.n}))
          [] f.op = "sample"   -> Selected(Picked(rows, {i \in (pos + 1)..n : (i - 1 - pos) % f.n = 0}))
          [] f.op = "first"    -> Selected(Picked(rows, {i \in {1} : n > 0}))
          [] f.op = "last"     -> Selected(Picked(rows, {i \in {n} : n > 0}))
          [] f.op = "min"      -> Selected(Picked(rows, best(LAMBDA a, b : a <= b)))
          [] f.op = "max"      -> Selected(Picked(rows, best(LAMBDA a, b : a >= b)))
          [] f.op = "distinct" -> Picked(rows, {i \in 1..n : \A j \in 1..(i - 1) : value(j) # value(i)})
          [] f.op = "difference" ->
                Picked([i \in 1..n |-> [t |-> rows[i].t, v |-> value(i) - value(IF i = 1 THEN 1 ELSE i - 1)]], Differ)
          [] f.op = "derivative" ->
                Picked([i \in 1..n |-> LET p == IF i = 1 THEN 1 ELSE i - 1 IN
                          [t |-> rows[i].t, v |-> <<(value(i) - value(p)) * f.unit, rows[i].t - rows[p].t>>]], Differ)
          [] f.op = "stateTracking" ->
                [i \in 1..n |-> [t |-> rows[i].t, v |->
                    IF value(i) <= 0 THEN <<-1, -1>>
                    ELSE LET j == RunStart(rows, i)
                         IN  <<i - j + 1, IF f.unit > 0 THEN (rows[i].t - rows[j].t) \div f.unit ELSE 0>>]]
          [] f.op = "window" ->
                FlattenSeq([i \in 1..n |-> LET bounds == Windows(rows[i].t) IN
                               [k \in DOMAIN bounds |-> [block |-> bounds[k], row |-> rows[i]]]])
          [] f.op = "group" ->
                [i \in 1..n |-> [row |-> rows[i], block |->
                    Tags(RowTags(rows[i]), IF f.except = {} THEN f.by ELSE {"c", "g"} \ f.except)]]

WholeValue(rows) ==
    LET n == Len(rows)
        sum == Total(rows, LAMBDA i : rows[i].v)
        values == {rows[i].v : i \in 1..n}
    IN  CASE f.op = "integral"   -> <<Total(rows, LAMBDA i : IF i = 1 THEN 0
                                        ELSE (rows[i].v + rows[i - 1].v) * (rows[i].t - rows[i - 1].t)), 2 * f.unit>>
          [] f.op = "count"      -> n
          [] f.op = "sum"        -> sum
          [] f.op = "mean"       -> IF n = 0 THEN NaN ELSE Reduced(<<sum, n>>)
          [] f.op = "spread"     -> IF n = 0 THEN 0 ELSE Max(values) - Min(values)
          [] f.op = "stddev"     -> IF n < 2 THEN NaN ELSE Reduced(Over(Moment2(rows), n - 1))
          [] f.op = "skew"       -> IF n < 2 THEN NaN ELSE <<n, Moment2(rows), Moment3(rows)>>
          [] f.op = "covariance" -> IF n < 2 THEN NaN ELSE Reduced(Over(Comoment(rows), n - 1))
          [] f.op = "percentile" -> percentileOf(SortSeq([i \in 1..n |-> rows[i].v], <))

Whole(rows, pos) == IF IsAggregate THEN <<[t |-> Stop, v |-> WholeValue(rows)]>> ELSE WholeRows(rows, pos)

(* What a transformation makes of a block depends on the rows of the block: *)
(* not on the slices in which its iterator hands them out, nor on the       *)
(* blocks that the same selector or aggregate has served before.  It is     *)
(* what the function means for the block as a whole: positions, runs and    *)
(* predecessors go on over the end of a slice, moments that are kept up to  *)
(* date are those of the definition, every row is in the windows and in the *)
(* group that its time and its tags put it in.                              *)
StreamedAsWhole ==
    ~reading /\ blocks > 0 => \E pos \in Positions : out = Whole(seen, pos)
=============================================================================
