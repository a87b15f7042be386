------------------------------ MODULE QueryID ------------------------------
(***************************************************************************)
(* How Controller.nextID of query/control/controller.go hands out IDs.     *)
(* Callers hold queriesMu for reading only, so several of them are inside  *)
(* at once, and lastID++ is a plain load and a plain store: the data race  *)
(* is modelled by the interleavings of the four accesses to lastID.        *)
(* The run goroutine holds queriesMu for writing while it changes queries. *)
(***************************************************************************)
EXTENDS Naturals

CONSTANTS
    Query,     \* one call of nextID each
    NoID

VARIABLES
    lastID,    \* c.lastID
    queries,   \* c.queries: the set of its keys
    pc,        \* where a call is
    reg,       \* the loaded lastID, before the increment is stored
    id         \* the ID of a query

vars == <<lastID, queries, pc, reg, id>>

Init ==
    /\ lastID = 0
    /\ queries = {}
    /\ pc = [q \in Query |-> "new"]
    /\ reg = [q \in Query |-> 0]
    /\ id = [q \in Query |-> NoID]

Reading == {q \in Query : pc[q] \in {"load", "store", "lookup", "return"}}

\* queriesMu.RLock, and the load of c.lastID++.
Load(q) ==
    /\ pc[q] \in {"new", "load"}
    /\ reg' = [reg EXCEPT ![q] = lastID]
    /\ pc' = [pc EXCEPT ![q] = "store"]
    /\ UNCHANGED <<lastID, queries, id>>

\* The store of c.lastID++.
Store(q) ==
    /\ pc[q] = "store"
    /\ lastID' = reg[q] + 1
    /\ pc' = [pc EXCEPT ![q] = "lookup"]
    /\ UNCHANGED <<queries, reg, id>>

\* _, ok = c.queries[c.lastID], and the loop.
Lookup(q) ==
    /\ pc[q] = "lookup"
    /\ pc' = [pc EXCEPT ![q] = IF lastID \in queries THEN "load" ELSE "return"]
    /\ UNCHANGED <<lastID, queries, reg, id>>

\* return c.lastID, and RUnlock.
Return(q) ==
    /\ pc[q] = "return"
    /\ id' = [id EXCEPT ![q] = lastID]
    /\ pc' = [pc EXCEPT ![q] = "created"]
    /\ UNCHANGED <<lastID, queries, reg>>

\* run: c.queries[q.id] = q
Register(q) ==
    /\ pc[q] = "created"
    /\ Reading = {}
    /\ queries' = queries \cup {id[q]}
    /\ pc' = [pc EXCEPT ![q] = "active"]
    /\ UNCHANGED <<lastID, reg, id>>

\* run: delete(c.queries, q.id)
Unregister(q) ==
    /\ pc[q] = "active"
    /\ Reading = {}
    /\ queries' = queries \ {id[q]}
    /\ pc' = [pc EXCEPT ![q] = "done"]
    /\ UNCHANGED <<lastID, reg, id>>

Next ==
    \E q \in Query : \/ Load(q) \/ Store(q) \/ Lookup(q) \/ Return(q)
                     \/ Register(q) \/ Unregister(q)

Spec == Init /\ [][Next]_vars

-----------------------------------------------------------------------------

\* "ID reports an ephemeral unique ID for the query": two queries the controller
\* knows at the same time have different IDs.
UniqueIDs == \A q, r \in Query : pc[q] = "active" /\ pc[r] = "active" /\ id[q] = id[r] => q = r
=============================================================================
