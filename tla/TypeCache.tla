----------------------------- MODULE TypeCache -----------------------------
(***************************************************************************)
(* semantic/types.go: the caches that make two types equal if and only if  *)
(* they are the same pointer (NewArrayType, NewObjectType and              *)
(* NewFunctionType).  A thread looks for its type without the lock, then   *)
(* again with it, and adds it when it is still missing.                    *)
(*   Hash[s]      the bucket in which a signature is looked for            *)
(*   Identity[s]  what equal() compares of it: for an array its element    *)
(*                type, for an object its properties, for a function its   *)
(*                parameters and return type but not its pipe argument     *)
(***************************************************************************)
EXTENDS Naturals, Sequences

CONSTANTS Thread, NoThread, Signature, NoSignature, Hash, Identity

ASSUME CacheAssumption ==
  /\ NoThread \notin Thread
  /\ DOMAIN Hash = Signature
  /\ DOMAIN Identity = Signature

VARIABLES
  m,      \* the buckets: sequences of the types that were made
  lock,   \* the thread that holds the mutex
  at,     \* where a thread is in its call
  want,   \* the signature it asks for
  types,  \* the bucket as it read it under the lock
  got,    \* the pointer that it found or made
  next,   \* the next pointer
  given   \* history: the pointers that calls have returned

cacheVars == <<m, lock, at, want, types, got, next, given>>

Bucket == {Hash[s] : s \in Signature}

\* The types that are equal to s.
Equal(ts, s) == {i \in DOMAIN ts : Identity[ts[i].sig] = Identity[s]}

\* The first of them.
Search(ts, s) == ts[CHOOSE i \in Equal(ts, s) : \A j \in Equal(ts, s) : i <= j].ptr

CacheInit ==
  /\ m = [h \in Bucket |-> <<>>]
  /\ lock = NoThread
  /\ at = [t \in Thread |-> "idle"]
  /\ want = [t \in Thread |-> NoSignature]
  /\ types = [t \in Thread |-> <<>>]
  /\ got = [t \in Thread |-> 0]
  /\ next = 1
  /\ given = {}

Give(t, p) ==
  /\ got' = [got EXCEPT ![t] = p]
  /\ given' = given \cup {[sig |-> want[t], ptr |-> p]}

NewType(t, s) ==
  /\ at[t] = "idle"
  /\ at' = [at EXCEPT ![t] = "load"]
  /\ want' = [want EXCEPT ![t] = s]
  /\ UNCHANGED <<m, lock, types, got, next, given>>

Load(t) ==
  /\ at[t] = "load"
  /\ LET ts == m[Hash[want[t]]]
     IN  IF Equal(ts, want[t]) # {}
         THEN at' = [at EXCEPT ![t] = "returned"] /\ Give(t, Search(ts, want[t]))
         ELSE at' = [at EXCEPT ![t] = "lock"] /\ UNCHANGED <<got, given>>
  /\ UNCHANGED <<m, lock, want, types, next>>

Lock(t) ==
  /\ at[t] = "lock"
  /\ lock = NoThread
  /\ lock' = t
  /\ at' = [at EXCEPT ![t] = "reload"]
  /\ UNCHANGED <<m, want, types, got, next, given>>

\* A mutant: the type is added without a second search.
ReloadOnly(t) ==
  /\ at[t] = "reload"
  /\ types' = [types EXCEPT ![t] = m[Hash[want[t]]]]
  /\ at' = [at EXCEPT ![t] = "store"]
  /\ UNCHANGED <<m, lock, want, got, next, given>>

Reload(t) ==
  /\ at[t] = "reload"
  /\ LET ts == m[Hash[want[t]]]
     IN  IF Equal(ts, want[t]) # {}
         THEN /\ at' = [at EXCEPT ![t] = "unlock"]
              /\ Give(t, Search(ts, want[t]))
              /\ UNCHANGED types
         ELSE /\ types' = [types EXCEPT ![t] = ts]
              /\ at' = [at EXCEPT ![t] = "store"]
              /\ UNCHANGED <<got, given>>
  /\ UNCHANGED <<m, lock, want, next>>

\* The pointer is of this call alone: the address of a type that is found
\* in the cache is never seen.
Store(t) ==
  /\ at[t] = "store"
  /\ m' = [m EXCEPT ![Hash[want[t]]] = Append(types[t], [ptr |-> next, sig |-> want[t]])]
  /\ next' = next + 1
  /\ Give(t, next)
  /\ at' = [at EXCEPT ![t] = "unlock"]
  /\ UNCHANGED <<lock, want, types>>

Unlock(t) ==
  /\ at[t] = "unlock"
  /\ lock' = NoThread
  /\ at' = [at EXCEPT ![t] = "returned"]
  /\ UNCHANGED <<m, want, types, got, next, given>>

\* The caller goes on with the type.
Return(t) ==
  /\ at[t] = "returned"
  /\ at' = [at EXCEPT ![t] = "idle"]
  /\ UNCHANGED <<m, lock, want, types, got, next, given>>

\* The steps inside the call.
CacheStep(t) == Load(t) \/ Lock(t) \/ Reload(t) \/ Store(t) \/ Unlock(t)

CacheNext ==
  \E t \in Thread :
    \/ \E s \in Signature : NewType(t, s)
    \/ CacheStep(t)
    \/ Return(t)

CacheSpec == CacheInit /\ [][CacheNext]_cacheVars

-----------------------------------------------------------------------------

Type == [ptr : Nat \ {0}, sig : Signature]

\* The caches hold types in sequences, and every thread is somewhere in a call.
CacheTypeOK ==
  /\ m \in [Bucket -> Seq(Type)]
  /\ lock \in Thread \cup {NoThread}
  /\ at \in [Thread -> {"idle", "load", "lock", "reload", "store", "unlock", "returned"}]
  /\ want \in [Thread -> Signature \cup {NoSignature}]
  /\ types \in [Thread -> Seq(Type)]
  /\ got \in [Thread -> Nat]
  /\ next \in Nat \ {0}
  /\ given \subseteq [sig : Signature, ptr : Nat]

Same(r, s) == Hash[r] = Hash[s] /\ Identity[r] = Identity[s]

\* Types compare with ==: two calls of NewObjectType, NewArrayType or
\* NewFunctionType by any two threads, however they overlap, return the same
\* pointer if and only if they were asked for the same type ("Two types are
\* equal if they represent identical types.").
Canonical == \A a, b \in given : a.ptr = b.ptr <=> Same(a.sig, b.sig)
=============================================================================
