---------------------------- MODULE MessageQueue ----------------------------
(***************************************************************************)
(* The ring buffer behind every transport: unboundedMessageQueue of        *)
(* query/execute/queue.go.                                                 *)
(*                                                                         *)
(* Push is one critical section of q.mu, and so is the second half of Pop; *)
(* each is one action.  Pop's first half reads q.len WITHOUT the mutex, so *)
(* it is an action of its own, and pushes interleave between the halves.   *)
(* There is one consumer, as the interface's comment demands; module       *)
(* Transport shows that its caller keeps that promise.                     *)
(***************************************************************************)
EXTENDS Integers, Sequences

CONSTANTS
    Message,    \* the messages
    Nil,        \* Go's nil
    InitSize,   \* newMessageQueue's n
    MaxPending  \* bound on the messages held at once

ASSUME NilAssumption == Nil \notin Message
ASSUME InitSizeAssumption == InitSize \in Nat \ {0}
ASSUME MaxPendingAssumption == MaxPending \in Nat

VARIABLES
    buf,        \* the slice: a function from 0..size-1
    size,       \* len(q.buf)
    head,       \* slot of the message popped last
    tail,       \* slot of the message pushed last
    len,        \* q.len, the atomic counter
    consumer,   \* "popping" between Pop's two halves, else "idle"
    result      \* what the last completed Pop returned

vars == <<buf, size, head, tail, len, consumer, result>>

Init ==
    /\ buf = [i \in 0..(InitSize - 1) |-> Nil]
    /\ size = InitSize
    /\ head = 0
    /\ tail = 0
    /\ len = 0
    /\ consumer = "idle"
    /\ result = Nil

\* The doubled slice: the slots from head on first, those before head behind
\* them, the new half nil.
Resized ==
    [i \in 0..(2 * size - 1) |->
        CASE i < size - head              -> buf[head + i]
          [] i >= size - head /\ i < size -> buf[i - (size - head)]
          [] OTHER                        -> Nil]

PushFits(m) ==
    LET t == (tail + 1) % size IN
    /\ t # head
    /\ tail' = t
    /\ buf' = [buf EXCEPT ![t] = m]
    /\ UNCHANGED <<size, head>>

PushResizes(m) ==
    /\ (tail + 1) % size = head
    /\ head' = 0
    /\ tail' = size
    /\ buf' = [Resized EXCEPT ![size] = m]
    /\ size' = 2 * size

Push(m) ==
    /\ len < MaxPending
    /\ PushFits(m) \/ PushResizes(m)
    /\ len' = len + 1
    /\ UNCHANGED <<consumer, result>>

\* Pop, first half: the unlocked Len().
PopCheck ==
    /\ consumer = "idle"
    /\ IF len = 0
         THEN result' = Nil /\ UNCHANGED consumer
         ELSE consumer' = "popping" /\ UNCHANGED result
    /\ UNCHANGED <<buf, size, head, tail, len>>

\* Variant of PopTake that takes the newest message.
PopTakeNewest ==
    /\ consumer = "popping"
    /\ tail' = (tail + size - 1) % size
    /\ result' = buf[tail]
    /\ buf' = [buf EXCEPT ![tail] = Nil]
    /\ len' = len - 1
    /\ consumer' = "idle"
    /\ UNCHANGED <<size, head>>

\* Pop, second half: the critical section.
PopTake ==
    /\ consumer = "popping"
    /\ LET h == (head + 1) % size IN
       /\ head' = h
       /\ result' = buf[h]
       /\ buf' = [buf EXCEPT ![h] = Nil]
    /\ len' = len - 1
    /\ consumer' = "idle"
    /\ UNCHANGED <<size, tail>>

Next ==
    \/ \E m \in Message : Push(m)
    \/ PopCheck
    \/ PopTake

Spec == Init /\ [][Next]_vars

-----------------------------------------------------------------------------
(* Properties.                                                             *)

\* The fields of MessageQueue have their types and the indices lie in the slice.
TypeOK ==
    /\ size \in Nat \ {0}
    /\ buf \in [0..(size - 1) -> Message \cup {Nil}]
    /\ head \in 0..(size - 1)
    /\ tail \in 0..(size - 1)
    /\ len \in 0..MaxPending
    /\ consumer \in {"idle", "popping"}
    /\ result \in Message \cup {Nil}

\* The slot at distance i behind head, going round the ring.
Slot(i) == IF head + i < size THEN head + i ELSE head + i - size

\* The messages the ring holds, oldest first.
Pending == [i \in 1..len |-> buf[Slot(i)]]

\* The indices and the atomic counter agree: walking len slots on from head
\* ends at tail, at least one slot is free (so tail = head means empty, never
\* full), and exactly the walked slots hold a message.  This is what lets Push
\* detect a full ring by tail = head, and what Pop's unlocked read of len
\* relies on.
RingInv ==
    /\ len < size
    /\ tail = Slot(len)
    /\ \A i \in 1..len : buf[Slot(i)] \in Message
    /\ \A i \in (len + 1)..size : buf[Slot(i)] = Nil

\* Pop's unlocked test stays true until the lock is taken: a consumer that saw
\* q.Len() # 0 finds a message, whatever was pushed (and however often the
\* ring was reallocated) in between.
PopFindsMessage == consumer = "popping" => len > 0

Abstract == INSTANCE FIFO WITH contents <- Pending

\* The ring implements the queue of module FIFO: a resize loses, duplicates
\* and reorders nothing, and nil is returned only from an empty queue.
ImplementsFIFO == Abstract!Spec
=============================================================================
