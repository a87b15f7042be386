----------------------------- MODULE MCDataPlane -----------------------------
(***************************************************************************)
(* The parts that the data of a query passes through, each on an instance  *)
(* of its own: the queue between transformations, the memory accounting,   *)
(* the storage reader, what the transformations do with a block, and join. *)
(* A behaviour is one of one part; the others stay as they begin.          *)
(***************************************************************************)
EXTENDS MessageQueue, Allocator, StorageReader, Transformations, Join

VARIABLE part

partVars == <<part, vars, allocVars, readVars, transVars, joinVars>>

-----------------------------------------------------------------------------
\* The queue and the memory.

Messages == {"m1", "m2"}
Workers == {"w1", "w2"}

\* The reader: a host sends up to two series, each with no or two points frames,
\* in responses of n frames.  One host alone may also have groups without a key.

Series(h, n, key, typ, count) ==
    <<[data |-> "series", key |-> key, typ |-> typ, kept |-> <<h, n>>]>>
    \o [i \in 1..count |-> [data |-> "points", typ |-> typ, points |-> <<h, n, i>>]]

Responses(frames, n) ==
    [i \in 1..((Len(frames) + n - 1) \div n) |-> SubSeq(frames, (i - 1) * n + 1, Min({i * n, Len(frames)}))]

Host(h, keys, typ) ==
    {<<>>}
    \cup {Series(h, 1, k, "int", c) : k \in keys, c \in {0, 2}}
    \cup UNION {{Series(h, 1, k[1], "int", c[1]) \o Series(h, 2, k[2], typ, c[2]) : c \in {0, 2} \X {0, 2}}
                   : k \in {p \in keys \X keys : p[1] <= p[2]}}

SentSets == UNION {
    {<<Responses(a, n)>> : a \in UNION {Host(1, keys, typ) : keys \in {{NilKey}, {1, 2}}, typ \in {"int", "float"}}}
    \cup {<<Responses(a, n), Responses(b, n)>> :
             a \in Host(1, {1, 2}, "int"), b \in UNION {Host(2, {1, 2}, typ) : typ \in {"int", "float"}}}
    : n \in {1, 2, 10}}

\* The transformations.

Values == {-1, 0, 2}

Functions ==
    UNION {[op : {"limit"}, n : 0..2],
           [op : {"sample"}, n : 1..3, pos : -1..2, useRowTime : {TRUE}],
           [op : {"first", "last", "min", "max"}, useRowTime : BOOLEAN],
           [op : {"distinct", "count", "sum", "mean", "spread", "stddev", "skew", "covariance"}],
           [op : {"difference", "derivative"}, nonNegative : BOOLEAN, unit : {2}],
           [op : {"integral"}, unit : {2}],
           [op : {"stateTracking"}, unit : 0..2],
           [op : {"percentile"}, quantile : {<<1, 2>>, <<1, 1>>, <<1, 3>>}],
           [op : {"window"}, every : {2}, period : 1..3, start : 0..1,
            bounds : {[Start |-> 0, Stop |-> 5], [Start |-> 1, Stop |-> 3]}],
           [op : {"group"}, by : {{}, {"c"}, {"g"}, {"h"}, {"c", "g"}}, except : {{}}],
           [op : {"group"}, by : {{}}, except : {{"c"}, {"g"}, {"h"}, {"c", "g"}}]}

\* Join: two blocks, the first with two times and two tags.

JoinBlocks == {1, 2}
JoinStops == <<3, 4>>
JoinRows == <<{<<1, 1, 1>>, <<1, 2, 1>>, <<1, 2, 2>>, <<2, 1, 1>>}, {<<3, 1, 1>>}>>

-----------------------------------------------------------------------------

PartInit ==
    /\ part \in {"queue", "allocator", "reader", "transformation", "join"}
    /\ part # "reader" => sent = <<<<>>>>
    /\ part # "transformation" => f = [op |-> "count"]
    /\ Init /\ AllocInit /\ ReadInit /\ TransInit /\ JoinInit

PartNext ==
    /\ UNCHANGED part
    /\ \/ part = "queue" /\ Next /\ UNCHANGED <<allocVars, readVars, transVars, joinVars>>
       \/ part = "allocator" /\ AllocNext /\ UNCHANGED <<vars, readVars, transVars, joinVars>>
       \/ part = "reader" /\ ReadNext /\ UNCHANGED <<vars, allocVars, transVars, joinVars>>
       \/ part = "transformation" /\ TransNext /\ UNCHANGED <<vars, allocVars, readVars, joinVars>>
       \/ part = "join" /\ JoinNext /\ UNCHANGED <<vars, allocVars, readVars, transVars>>

PartSpec == PartInit /\ [][PartNext]_partVars
=============================================================================
