-------------------------------- MODULE FIFO --------------------------------
(***************************************************************************)
(* What query/execute/queue.go promises of a MessageQueue: "a concurrency  *)
(* safe queue for messages" with one consumer.  Push appends a message,    *)
(* Pop returns the oldest message still in the queue, or nil when there is *)
(* none.                                                                   *)
(***************************************************************************)
EXTENDS Sequences

CONSTANTS
    Message,    \* the messages
    Nil         \* Go's nil: what Pop returns from an empty queue

VARIABLES
    contents,   \* the messages in the queue, oldest first
    result      \* what the last completed Pop returned

vars == <<contents, result>>

Init ==
    /\ contents = <<>>
    /\ result = Nil

Push(m) ==
    /\ contents' = Append(contents, m)
    /\ UNCHANGED result

PopMessage ==
    /\ contents # <<>>
    /\ result' = Head(contents)
    /\ contents' = Tail(contents)

PopNil ==
    /\ contents = <<>>
    /\ result' = Nil
    /\ UNCHANGED contents

Next ==
    \/ \E m \in Message : Push(m)
    \/ PopMessage
    \/ PopNil

Spec == Init /\ [][Next]_vars
=============================================================================
