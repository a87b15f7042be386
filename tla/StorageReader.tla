---------------------------- MODULE StorageReader ----------------------------
(***************************************************************************)
(* The source of a query: storageBlockIterator of query/execute/storage.go *)
(* merges the streams of frames that the storage hosts send into blocks,   *)
(* and the blocks hand the points out to Process while they are read from  *)
(* the streams.                                                            *)
(*                                                                         *)
(* A series frame has the key of its group, a number for the order of keys *)
(* or NilKey, its data type and the values of the kept tags; a points      *)
(* frame has a type and points.  Each host sends its series in the order   *)
(* of their keys, in responses of one or more frames.  An error of RecvMsg *)
(* ends a stream as its end does.                                          *)
(***************************************************************************)
EXTENDS Integers, Sequences, SequencesExt

CONSTANTS Sent   \* what the hosts may send: sequences, one per host, of sequences of responses

VARIABLES
    sent,      \* what they send
    streams,   \* ms.streams
    msKey,     \* ms.currentKey
    msIdx,     \* ms.i + 1
    phase,     \* Do: "next", "block", or how it has returned: "done", "short read", "panic"
    sblock,    \* the storageBlock that is being read
    given      \* the points frames that blocks have handed out, and the number of the block

readVars == <<sent, streams, msKey, msIdx, phase, sblock, given>>

NilKey == 0
NoBlock == [key |-> NilKey, typ |-> "none", kept |-> NilKey, nr |-> 0]

\* A nil key is always greater.
Compare(k, o) ==
    CASE k = o   -> 0
      [] k = NilKey -> 1
      [] o = NilKey -> -1
      [] OTHER   -> IF k < o THEN -1 ELSE 1

-----------------------------------------------------------------------------
\* streamState.

IsSeries(frame) == frame.data = "series"

computeKey(s) == IF IsSeries(s.frames[1]) THEN [s EXCEPT !.currentKey = s.frames[1].key] ELSE s

\* more answers and may receive a response.
streamMore(s) == ~s.finished /\ (s.frames # <<>> \/ s.coming # <<>>)
streamReceived(s) ==
    IF s.finished \/ s.frames # <<>> THEN s
    ELSE IF s.coming = <<>> THEN [s EXCEPT !.finished = TRUE]
    ELSE computeKey([s EXCEPT !.frames = Head(s.coming), !.coming = Tail(s.coming)])

streamNext(s) ==
    LET rest == [s EXCEPT !.frames = Tail(@)]
    IN  IF rest.frames = <<>> THEN rest ELSE computeKey(rest)

-----------------------------------------------------------------------------
\* mergedStreams.  The operators take and return its fields, M.

With(M, ok) == [M EXCEPT !.ok = ok]

\* The first of the streams that have the least key wins, whoever was last.
determineNewKey(M) ==
    LET S == [i \in DOMAIN M.streams |-> streamReceived(M.streams[i])]
        live == {i \in DOMAIN S : streamMore(M.streams[i]) /\ Compare(S[i].currentKey, NilKey) < 0}
        least == {i \in live : \A j \in live : Compare(S[i].currentKey, S[j].currentKey) <= 0}
        first == CHOOSE i \in least : \A j \in least : i <= j
    IN  IF live = {} THEN [streams |-> S, key |-> NilKey, i |-> 0, ok |-> FALSE]
        ELSE [streams |-> S, key |-> S[first].currentKey, i |-> first, ok |-> TRUE]

RECURSIVE msMore(_)
msAdvance(M) ==
    IF M.i + 1 <= Len(M.streams) THEN msMore([M EXCEPT !.i = @ + 1])
    ELSE LET D == determineNewKey(M) IN IF D.ok THEN msMore(D) ELSE D

msMore(M) ==
    LET here == M.streams[M.i]
        R == [M EXCEPT !.streams[M.i] = streamReceived(@)]
    IN  IF Len(M.streams) = 1 THEN With(R, streamMore(here))
        ELSE IF M.i = 0 THEN With(M, FALSE)
        ELSE IF M.key = NilKey THEN determineNewKey(M)
        ELSE IF ~streamMore(here) THEN msAdvance(R)
        ELSE CASE Compare(R.streams[M.i].currentKey, M.key) = 0  -> With(R, TRUE)
               [] Compare(R.streams[M.i].currentKey, M.key) = 1  -> msAdvance(R)
               [] Compare(R.streams[M.i].currentKey, M.key) = -1 -> [R EXCEPT !.i = -1]

Merged == msMore([streams |-> streams, key |-> msKey, i |-> msIdx, ok |-> FALSE])
peek(M) == M.streams[M.i].frames[1]
next(M) == [M EXCEPT !.streams[M.i] = streamNext(@)]
keyOf(M) == IF Len(M.streams) = 1 THEN M.streams[1].currentKey ELSE M.key
Keep(M) == streams' = M.streams /\ msKey' = M.key /\ msIdx' = M.i

-----------------------------------------------------------------------------

ReadInit ==
    /\ sent \in Sent
    /\ streams = [h \in DOMAIN sent |-> [coming |-> sent[h], frames |-> <<>>, currentKey |-> NilKey, finished |-> FALSE]]
    /\ msKey = NilKey /\ msIdx = 1
    /\ phase = "next" /\ sblock = NoBlock /\ given = <<>>

\* The loop of Do: a block for the next series.
NextBlock ==
    /\ phase = "next"
    /\ \E M \in {Merged} :
         IF M.i = -1 THEN phase' = "panic" /\ UNCHANGED <<streams, msKey, msIdx, sblock>>
         ELSE IF ~M.ok THEN Keep(M) /\ phase' = "done" /\ UNCHANGED sblock
         ELSE IF ~IsSeries(peek(M)) THEN Keep(M) /\ phase' = "short read" /\ UNCHANGED sblock
         ELSE /\ Keep(next(M)) /\ phase' = "block"
              /\ sblock' = [key |-> peek(M).key, typ |-> peek(M).typ, kept |-> peek(M).kept, nr |-> sblock.nr + 1]
    /\ UNCHANGED <<sent, given>>

\* A mutant: the block keeps the tags of its first series.
BlockAdvanceKept(M) ==
    CASE IsSeries(peek(M)) /\ keyOf(M) = sblock.key ->
            Keep(next(M)) /\ UNCHANGED <<sblock, given, phase>>
      [] ~IsSeries(peek(M)) /\ peek(M).typ = sblock.typ ->
            /\ Keep(next(M)) /\ UNCHANGED <<sblock, phase>>
            /\ given' = Append(given, [points |-> peek(M).points, kept |-> sblock.kept, key |-> sblock.key,
                                       nr |-> sblock.nr])
      [] OTHER ->
            Keep(M) /\ phase' = "next" /\ UNCHANGED <<sblock, given>>

\* One pass of the loop of advance, which the block's iterator calls.  The end of
\* the block is where a series of another group begins, or the type changes.
BlockAdvance(M) ==
    CASE IsSeries(peek(M)) /\ keyOf(M) = sblock.key ->
            Keep(next(M)) /\ sblock' = [sblock EXCEPT !.kept = peek(M).kept] /\ UNCHANGED <<given, phase>>
      [] ~IsSeries(peek(M)) /\ peek(M).typ = sblock.typ ->
            /\ Keep(next(M)) /\ UNCHANGED <<sblock, phase>>
            /\ given' = Append(given, [points |-> peek(M).points, kept |-> sblock.kept, key |-> sblock.key,
                                       nr |-> sblock.nr])
      [] OTHER ->
            Keep(M) /\ phase' = "next" /\ UNCHANGED <<sblock, given>>

Advance ==
    /\ phase = "block"
    /\ \E M \in {Merged} :
         IF M.i = -1 THEN phase' = "panic" /\ UNCHANGED <<streams, msKey, msIdx, sblock, given>>
         ELSE IF M.ok THEN BlockAdvance(M)
         ELSE Keep(M) /\ phase' = "next" /\ UNCHANGED <<sblock, given>>
    /\ UNCHANGED sent

ReadNext == NextBlock \/ Advance

ReadSpec == ReadInit /\ [][ReadNext]_readVars

-----------------------------------------------------------------------------
\* What the hosts send, as the points of each series.

Frames(h) == FlattenSeq(sent[h])
SeriesOf(h, i) == Frames(h)[CHOOSE j \in 1..i : /\ IsSeries(Frames(h)[j])
                                                /\ \A k \in (j + 1)..i : ~IsSeries(Frames(h)[k])]
PointsSent ==
    UNION {{<<h, i>> : i \in {j \in DOMAIN Frames(h) : ~IsSeries(Frames(h)[j])}} : h \in DOMAIN sent}

(* When the iterator reports that all is read, every points frame of every  *)
(* host has been handed out once, by a block of the group of its series and *)
(* with the kept tags of its series, and a group has one block: however the *)
(* streams interleave, wherever responses end, also for series without      *)
(* points.  Merging never finds a smaller key.  (A group whose series have  *)
(* different types ends in the error of a short read instead.)              *)
PointsOnce ==
    /\ phase # "panic"
    /\ phase = "done" =>
         /\ \A p \in PointsSent :
               LET frame == Frames(p[1])[p[2]]
                   of == {g \in DOMAIN given : given[g].points = frame.points}
               IN  /\ \E g \in of : of = {g}
                   /\ \A g \in of : /\ given[g].kept = SeriesOf(p[1], p[2]).kept
                                    /\ given[g].key = SeriesOf(p[1], p[2]).key
         /\ \A g, k \in DOMAIN given : given[g].key = given[k].key => given[g].nr = given[k].nr
=============================================================================
