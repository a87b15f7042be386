------------------------ MODULE SharedStateProofs ------------------------
(***************************************************************************)
(* Two data structures that goroutines share: the caches of types and the  *)
(* ring buffer behind a transport.  They have nothing to do with each      *)
(* other; each has its own inductive invariant below.                      *)
(***************************************************************************)
EXTENDS TypeCache, MessageQueue, WellFoundedInduction, TLAPS

USE SMTT(30), ZenonT(30)

-----------------------------------------------------------------------------
(* The type caches hand out one pointer per type, for any number of threads*)
(* and types and any hash function.  The inductive invariant says that a   *)
(* thread past the lock holds it (Mutex), that the types of a bucket are   *)
(* different and all have the bucket's hash and pointers of their own      *)
(* (Entries, Once), that what a thread is about to add is not in the       *)
(* bucket, which has not changed since it was read (Missing), and that     *)
(* every pointer that was handed out is that of an entry (Held).           *)

\* Who is past the lock holds it.
Mutex == \A t \in Thread : at[t] \in {"reload", "store", "unlock"} => lock = t

Wanted == \A t \in Thread : at[t] # "idle" => want[t] \in Signature

Entries ==
  \A h \in Bucket : \A i \in DOMAIN m[h] : m[h][i].ptr < next /\ Hash[m[h][i].sig] = h

Once ==
  /\ \A h \in Bucket : \A i, j \in DOMAIN m[h] :
       Identity[m[h][i].sig] = Identity[m[h][j].sig] => i = j
  /\ \A g, h \in Bucket : \A i \in DOMAIN m[g] : \A j \in DOMAIN m[h] :
       m[g][i].ptr = m[h][j].ptr => g = h /\ i = j

Missing ==
  \A t \in Thread : at[t] = "store" =>
    /\ types[t] = m[Hash[want[t]]]
    /\ \A i \in DOMAIN types[t] : Identity[types[t][i].sig] # Identity[want[t]]

\* An entry for the signature s has the pointer p.
Entry(s, p) ==
  \E i \in DOMAIN m[Hash[s]] : m[Hash[s]][i].ptr = p /\ Identity[m[Hash[s]][i].sig] = Identity[s]

Held == \A g \in given : Entry(g.sig, g.ptr)

CacheInv == CacheTypeOK /\ Mutex /\ Wanted /\ Entries /\ Once /\ Missing /\ Held

\* Search finds an entry: the least index of a nonempty set of positions.
LEMMA SearchFinds ==
  ASSUME NEW ts \in Seq(Type), NEW s \in Signature, Equal(ts, s) # {}
  PROVE  \E i \in DOMAIN ts : ts[i].ptr = Search(ts, s) /\ Identity[ts[i].sig] = Identity[s]
<1> DEFINE E == Equal(ts, s)
           Less == {p \in Nat \X Nat : p[1] < p[2]}
<1>1. E \subseteq Nat /\ E # {}
  BY DEF Equal
<1>2. IsWellFoundedOn(Less, Nat)
  BY NatLessThanWellFounded, Zenon DEF OpToRel
<1>3. PICK i \in E : \A j \in E : ~(<<j, i>> \in Less)
  <2> HIDE DEF Less, E
  <2> QED BY ZenonT(30), <1>1, <1>2, WFMin
<1>4. \A a, b \in Nat : a < b => <<a, b>> \in Less
  OBVIOUS
<1>5. \A j \in E : i <= j
  <2> HIDE DEF Less, E
  <2> TAKE j \in E
  <2>1. i \in Nat /\ j \in Nat
    BY <1>1
  <2>2. ~(j < i)
    BY ZenonT(30), <2>1, <1>3, <1>4
  <2> QED BY <2>1, <2>2
<1> QED
  BY ZenonT(30), <1>3, <1>5 DEF Equal, Search

USE CacheAssumption

\* The bucket of a signature is a sequence of types.
LEMMA BucketOf ==
  ASSUME CacheTypeOK, NEW s \in Signature
  PROVE  Hash[s] \in Bucket /\ m[Hash[s]] \in Seq(Type)
  BY DEF CacheTypeOK, Bucket

\* What is said of the buckets stays true while they do not change.
LEMMA BucketFrame ==
  ASSUME Entries, Once, UNCHANGED <<m, next>>
  PROVE  Entries' /\ Once'
  BY DEF Entries, Once

LEMMA HeldFrame ==
  ASSUME Held, UNCHANGED <<m, given>>
  PROVE  Held'
  BY DEF Held, Entry

\* What a search finds is an entry, and can be handed out.
LEMMA SearchEntry ==
  ASSUME CacheTypeOK, NEW s \in Signature, Equal(m[Hash[s]], s) # {}
  PROVE  Search(m[Hash[s]], s) \in Nat /\ Entry(s, Search(m[Hash[s]], s))
<1>1. m[Hash[s]] \in Seq(Type)
  BY BucketOf
<1>2. PICK i \in DOMAIN m[Hash[s]] :
        m[Hash[s]][i].ptr = Search(m[Hash[s]], s) /\ Identity[m[Hash[s]][i].sig] = Identity[s]
  BY <1>1, SearchFinds
<1>3. m[Hash[s]][i] \in Type
  BY <1>1, <1>2
<1>4. m[Hash[s]][i].ptr \in Nat
  BY <1>3 DEF Type
<1> QED
  BY <1>2, <1>4 DEF Entry

LEMMA GiveHolds ==
  ASSUME CacheTypeOK, Held, NEW t \in Thread, want[t] \in Signature, NEW p \in Nat,
         Entry(want[t], p)', Give(t, p), want' = want,
         \A g \in given : Entry(g.sig, g.ptr)'
  PROVE  /\ got' \in [Thread -> Nat]
         /\ given' \subseteq [sig : Signature, ptr : Nat]
         /\ Held'
<1>1. got' \in [Thread -> Nat]
  BY DEF Give, CacheTypeOK
<1>2. given' \subseteq [sig : Signature, ptr : Nat]
  BY DEF Give, CacheTypeOK
<1>3. ASSUME NEW g \in given' PROVE Entry(g.sig, g.ptr)'
  <2>1. CASE g \in given
    BY <2>1
  <2>2. CASE g = [sig |-> want[t], ptr |-> p]
    <3>1. g.sig = want[t] /\ g.ptr = p
      BY <2>2
    <3> QED BY ZenonT(30), <3>1 DEF Entry
  <2> QED BY <2>1, <2>2 DEF Give
<1> QED BY <1>1, <1>2, <1>3 DEF Held

\* The same when the buckets do not change.
LEMMA GiveFound ==
  ASSUME CacheTypeOK, Held, NEW t \in Thread, want[t] \in Signature,
         Equal(m[Hash[want[t]]], want[t]) # {},
         Give(t, Search(m[Hash[want[t]]], want[t])), UNCHANGED <<m, want>>
  PROVE  /\ got' \in [Thread -> Nat]
         /\ given' \subseteq [sig : Signature, ptr : Nat]
         /\ Held'
<1>1. PICK p \in Nat : p = Search(m[Hash[want[t]]], want[t]) /\ Entry(want[t], p)
  BY SearchEntry
<1>2. Entry(want[t], p)'
  BY ZenonT(30), <1>1 DEF Entry
<1>3. \A g \in given : Entry(g.sig, g.ptr)'
  BY DEF Held, Entry
<1>4. Give(t, p)
  BY <1>1
<1> QED
  BY <1>2, <1>3, <1>4, GiveHolds

-----------------------------------------------------------------------------
(* One lemma per step of a call                                            *)

LEMMA NewTypeStep ==
  ASSUME CacheInv, NEW t \in Thread, NEW s \in Signature, NewType(t, s)
  PROVE  CacheInv'
<1> USE DEF CacheInv
<1>1. CacheTypeOK' BY DEF CacheTypeOK, NewType
<1>2. Mutex' BY DEF CacheTypeOK, Mutex, NewType
<1>3. Wanted' BY DEF CacheTypeOK, Wanted, NewType
<1>4. Entries' /\ Once' BY BucketFrame DEF NewType
<1>5. Missing' BY DEF CacheTypeOK, Missing, NewType
<1>6. Held' BY HeldFrame DEF NewType
<1> QED BY <1>1, <1>2, <1>3, <1>4, <1>5, <1>6

LEMMA LoadStep ==
  ASSUME CacheInv, NEW t \in Thread, Load(t)
  PROVE  CacheInv'
<1> USE DEF CacheInv
<1>1. want[t] \in Signature BY DEF Wanted, Load
<1>2. /\ got' \in [Thread -> Nat]
      /\ given' \subseteq [sig : Signature, ptr : Nat]
      /\ Held'
  <2>1. CASE Equal(m[Hash[want[t]]], want[t]) # {}
    BY <1>1, <2>1, GiveFound DEF Load
  <2>2. CASE Equal(m[Hash[want[t]]], want[t]) = {}
    BY <2>2, HeldFrame DEF CacheTypeOK, Load
  <2> QED BY <2>1, <2>2
<1>3. at' = [at EXCEPT ![t] = "returned"] \/ at' = [at EXCEPT ![t] = "lock"]
  BY DEF Load
<1>4. CacheTypeOK' BY ZenonT(30), <1>2, <1>3 DEF CacheTypeOK, Load
<1>5. Mutex' BY <1>3 DEF CacheTypeOK, Mutex, Load
<1>6. Wanted' BY <1>1, <1>3 DEF CacheTypeOK, Wanted, Load
<1>7. Entries' /\ Once' BY BucketFrame DEF Load
<1>8. Missing' BY <1>3 DEF CacheTypeOK, Missing, Load
<1> QED BY <1>2, <1>4, <1>5, <1>6, <1>7, <1>8

LEMMA LockStep ==
  ASSUME CacheInv, NEW t \in Thread, Lock(t)
  PROVE  CacheInv'
<1> USE DEF CacheInv
<1>1. CacheTypeOK' BY DEF CacheTypeOK, Lock
<1>2. Mutex' BY DEF CacheTypeOK, Mutex, Lock
<1>3. Wanted' BY DEF CacheTypeOK, Wanted, Lock
<1>4. Entries' /\ Once' BY BucketFrame DEF Lock
<1>5. Missing' BY DEF CacheTypeOK, Missing, Lock
<1>6. Held' BY HeldFrame DEF Lock
<1> QED BY <1>1, <1>2, <1>3, <1>4, <1>5, <1>6

LEMMA ReloadStep ==
  ASSUME CacheInv, NEW t \in Thread, Reload(t)
  PROVE  CacheInv'
<1> USE DEF CacheInv
<1>1. want[t] \in Signature BY DEF Wanted, Reload
<1>2. m[Hash[want[t]]] \in Seq(Type) BY <1>1, BucketOf
<1>3. /\ got' \in [Thread -> Nat]
      /\ given' \subseteq [sig : Signature, ptr : Nat]
      /\ Held'
  <2>1. CASE Equal(m[Hash[want[t]]], want[t]) # {}
    BY <1>1, <2>1, GiveFound DEF Reload
  <2>2. CASE Equal(m[Hash[want[t]]], want[t]) = {}
    BY <2>2, HeldFrame DEF CacheTypeOK, Reload
  <2> QED BY <2>1, <2>2
<1>4. \/ /\ at' = [at EXCEPT ![t] = "unlock"]
         /\ types' = types
      \/ /\ at' = [at EXCEPT ![t] = "store"]
         /\ types' = [types EXCEPT ![t] = m[Hash[want[t]]]]
         /\ \A i \in DOMAIN m[Hash[want[t]]] : Identity[m[Hash[want[t]]][i].sig] # Identity[want[t]]
  BY DEF Reload, Equal
<1>5. CacheTypeOK' BY ZenonT(30), <1>2, <1>3, <1>4 DEF CacheTypeOK, Reload
<1>6. Mutex' BY <1>4 DEF CacheTypeOK, Mutex, Reload
<1>7. Wanted' BY <1>1, <1>4 DEF CacheTypeOK, Wanted, Reload
<1>8. Entries' /\ Once' BY BucketFrame DEF Reload
<1>9. Missing'
  <2> SUFFICES ASSUME NEW u \in Thread, at'[u] = "store"
               PROVE  /\ types'[u] = m[Hash[want[u]]]
                      /\ \A i \in DOMAIN types'[u] : Identity[types'[u][i].sig] # Identity[want[u]]
    BY DEF Missing, Reload
  <2>1. CASE u = t
    BY <2>1, <1>4 DEF CacheTypeOK
  <2>2. CASE u # t
    BY <2>2, <1>4 DEF CacheTypeOK, Missing
  <2> QED BY <2>1, <2>2
<1> QED BY <1>3, <1>5, <1>6, <1>7, <1>8, <1>9

LEMMA UnlockStep ==
  ASSUME CacheInv, NEW t \in Thread, Unlock(t)
  PROVE  CacheInv'
<1> USE DEF CacheInv
<1>1. CacheTypeOK' BY DEF CacheTypeOK, Unlock
<1>2. Mutex' BY DEF CacheTypeOK, Mutex, Unlock
<1>3. Wanted' BY DEF CacheTypeOK, Wanted, Unlock
<1>4. Entries' /\ Once' BY BucketFrame DEF Unlock
<1>5. Missing' BY DEF CacheTypeOK, Missing, Unlock
<1>6. Held' BY HeldFrame DEF Unlock
<1> QED BY <1>1, <1>2, <1>3, <1>4, <1>5, <1>6

LEMMA ReturnStep ==
  ASSUME CacheInv, NEW t \in Thread, Return(t)
  PROVE  CacheInv'
<1> USE DEF CacheInv
<1>1. CacheTypeOK' BY DEF CacheTypeOK, Return
<1>2. Mutex' BY DEF CacheTypeOK, Mutex, Return
<1>3. Wanted' BY DEF CacheTypeOK, Wanted, Return
<1>4. Entries' /\ Once' BY BucketFrame DEF Return
<1>5. Missing' BY DEF CacheTypeOK, Missing, Return
<1>6. Held' BY HeldFrame DEF Return
<1> QED BY <1>1, <1>2, <1>3, <1>4, <1>5, <1>6

\* The one step that changes a bucket: the new type is different from all the
\* others there, and its pointer from all pointers.
LEMMA StoreStep ==
  ASSUME CacheInv, NEW t \in Thread, Store(t)
  PROVE  CacheInv'
<1> USE DEF CacheInv
<1> DEFINE h == Hash[want[t]]
           n == Len(m[h]) + 1
           e == [ptr |-> next, sig |-> want[t]]
<1>1. want[t] \in Signature BY DEF Wanted, Store
<1>2. h \in Bucket /\ m[h] \in Seq(Type) BY <1>1, BucketOf
<1>3. types[t] = m[h] /\ \A i \in DOMAIN m[h] : Identity[m[h][i].sig] # Identity[want[t]]
  BY DEF Missing, Store
<1>4. e \in Type /\ e.ptr = next /\ e.sig = want[t] /\ next \in Nat \ {0}
  BY <1>1 DEF CacheTypeOK, Type
<1>5. m' = [m EXCEPT ![h] = Append(m[h], e)]
  BY <1>3 DEF Store
<1>6. m'[h] = Append(m[h], e) /\ \A g \in Bucket : g # h => m'[g] = m[g]
  BY <1>2, <1>5 DEF CacheTypeOK
<1> HIDE DEF h, e
<1>7. /\ n \in Nat /\ n \in DOMAIN m'[h]
      /\ DOMAIN m'[h] = 1..n
      /\ DOMAIN m[h] = 1..(n - 1)
      /\ m'[h][n] = e
      /\ \A i \in DOMAIN m[h] : i \in DOMAIN m'[h] /\ m'[h][i] = m[h][i]
      /\ \A i \in DOMAIN m'[h] : i = n \/ i \in DOMAIN m[h]
  BY <1>2, <1>4, <1>6
<1> HIDE DEF n
<1>8. \A g \in Bucket : \A i \in DOMAIN m'[g] :
        \/ g = h /\ i = n /\ m'[g][i] = e
        \/ i \in DOMAIN m[g] /\ m'[g][i] = m[g][i]
  BY <1>2, <1>6, <1>7
<1>9. \A g \in Bucket : \A i \in DOMAIN m[g] : i \in DOMAIN m'[g] /\ m'[g][i] = m[g][i]
  BY <1>2, <1>6, <1>7
<1>10. \A g \in Bucket : \A i \in DOMAIN m[g] :
         m[g][i] \in Type /\ m[g][i].ptr < next /\ Hash[m[g][i].sig] = g
  BY DEF CacheTypeOK, Entries
<1>11. Entries'
  <2> SUFFICES ASSUME NEW g \in Bucket, NEW i \in DOMAIN m'[g]
               PROVE  m'[g][i].ptr < next + 1 /\ Hash[m'[g][i].sig] = g
    BY DEF Entries, Store
  <2>1. CASE g = h /\ m'[g][i] = e
    BY <2>1, <1>4 DEF h
  <2>2. CASE i \in DOMAIN m[g] /\ m'[g][i] = m[g][i]
    <3>1. m[g][i].ptr \in Nat BY <2>2, <1>10 DEF Type
    <3> QED BY <3>1, <2>2, <1>4, <1>10
  <2> QED BY <2>1, <2>2, <1>8
<1>12. Once'
  <2>1. ASSUME NEW g \in Bucket, NEW i \in DOMAIN m'[g], NEW j \in DOMAIN m'[g],
               Identity[m'[g][i].sig] = Identity[m'[g][j].sig]
        PROVE  i = j
    BY <2>1, <1>3, <1>4, <1>8 DEF Once
  <2>2. ASSUME NEW f \in Bucket, NEW g \in Bucket, NEW i \in DOMAIN m'[f], NEW j \in DOMAIN m'[g],
               m'[f][i].ptr = m'[g][j].ptr
        PROVE  f = g /\ i = j
    <3>1. \A x \in Bucket : \A k \in DOMAIN m[x] : m[x][k].ptr # next
      <4> TAKE x \in Bucket
      <4> TAKE k \in DOMAIN m[x]
      <4>1. m[x][k].ptr \in Nat /\ m[x][k].ptr < next BY <1>10 DEF Type
      <4> QED BY <4>1, <1>4
    <3> QED BY <2>2, <3>1, <1>4, <1>8 DEF Once
  <2> QED BY <2>1, <2>2 DEF Once
<1>13. Missing'
  <2>1. lock = t BY DEF Mutex, Store
  <2>2. \A u \in Thread : at'[u] # "store" BY <2>1 DEF CacheTypeOK, Mutex, Store
  <2> QED BY <2>2 DEF Missing
<1>14. /\ got' \in [Thread -> Nat]
       /\ given' \subseteq [sig : Signature, ptr : Nat]
       /\ Held'
  <2>0. PICK p \in Nat : p = next BY <1>4
  <2>1. Entry(want[t], p)'
    <3>1. \E i \in DOMAIN m'[h] : m'[h][i].ptr = p /\ Identity[m'[h][i].sig] = Identity[want[t]]
      BY <1>4, <1>7, <2>0
    <3> QED BY ZenonT(30), <3>1 DEF Entry, Store, h
  <2>2. \A g \in given : Entry(g.sig, g.ptr)'
    <3> TAKE g \in given
    <3>1. g.sig \in Signature BY DEF CacheTypeOK
    <3>2. Hash[g.sig] \in Bucket BY <3>1 DEF Bucket
    <3>3. Entry(g.sig, g.ptr) BY DEF Held
    <3> QED BY ZenonT(30), <3>2, <3>3, <1>9 DEF Entry
  <2>3. Give(t, p) /\ want' = want BY <2>0 DEF Store
  <2> QED BY <1>1, <2>1, <2>2, <2>3, GiveHolds
<1>15. CacheTypeOK'
  <2>1. Append(m[h], e) \in Seq(Type) BY <1>2, <1>4
  <2>2. m' \in [Bucket -> Seq(Type)] BY <1>2, <1>5, <2>1 DEF CacheTypeOK
  <2>3. next' \in Nat \ {0} BY <1>4 DEF Store
  <2> QED BY ZenonT(30), <1>14, <2>2, <2>3 DEF CacheTypeOK, Store
<1>16. Mutex' BY DEF CacheTypeOK, Mutex, Store
<1>17. Wanted' BY DEF CacheTypeOK, Wanted, Store
<1> QED BY <1>11, <1>12, <1>13, <1>14, <1>15, <1>16, <1>17

-----------------------------------------------------------------------------

\* The inductive invariant holds: no step of NewArrayType, NewObjectType or
\* NewFunctionType in any thread breaks it.
THEOREM CacheInvariant == CacheSpec => []CacheInv
<1>1. CacheInit => CacheInv
  BY DEF CacheInit, CacheInv, CacheTypeOK, Mutex, Wanted, Entries, Once, Missing, Held
<1>2. CacheInv /\ [CacheNext]_cacheVars => CacheInv'
  <2> SUFFICES ASSUME CacheInv, [CacheNext]_cacheVars PROVE CacheInv'
    OBVIOUS
  <2>1. CASE UNCHANGED cacheVars
    <3>1. UNCHANGED <<m, lock, at, want, types, got, next, given>>
      BY <2>1 DEF cacheVars
    <3>2. CacheTypeOK' /\ Mutex' /\ Wanted'
      BY <3>1 DEF CacheInv, CacheTypeOK, Mutex, Wanted
    <3>3. Entries' /\ Once'
      BY <3>1 DEF CacheInv, Entries, Once
    <3>4. Missing' /\ Held'
      BY <3>1 DEF CacheInv, Missing, Held, Entry
    <3>5. QED
      BY <3>2, <3>3, <3>4 DEF CacheInv
  <2>2. ASSUME NEW t \in Thread, NEW s \in Signature, NewType(t, s) PROVE CacheInv'
    BY <2>2, NewTypeStep
  <2>3. ASSUME NEW t \in Thread, CacheStep(t) PROVE CacheInv'
    BY <2>3, LoadStep, LockStep, ReloadStep, StoreStep, UnlockStep DEF CacheStep
  <2>4. ASSUME NEW t \in Thread, Return(t) PROVE CacheInv'
    BY <2>4, ReturnStep
  <2> QED BY <2>1, <2>2, <2>3, <2>4 DEF CacheNext
<1> QED BY <1>1, <1>2, PTL DEF CacheSpec

\* Types can be compared with ==: whatever threads run in whatever order, and
\* whatever collides in the hash of semantic/types.go, two calls return the
\* same pointer if and only if they ask for the same type.
THEOREM TypesAreCanonical == CacheSpec => []Canonical
<1>1. CacheInv => Canonical
  <2> SUFFICES ASSUME CacheInv, NEW a \in given, NEW b \in given
               PROVE  a.ptr = b.ptr <=> Same(a.sig, b.sig)
    BY DEF Canonical
  <2>1. a.sig \in Signature /\ b.sig \in Signature
    BY DEF CacheInv, CacheTypeOK
  <2>2. Hash[a.sig] \in Bucket /\ Hash[b.sig] \in Bucket
    BY <2>1 DEF Bucket
  <2>3. PICK i \in DOMAIN m[Hash[a.sig]] :
          m[Hash[a.sig]][i].ptr = a.ptr /\ Identity[m[Hash[a.sig]][i].sig] = Identity[a.sig]
    BY ZenonT(30) DEF CacheInv, Held, Entry
  <2>4. PICK j \in DOMAIN m[Hash[b.sig]] :
          m[Hash[b.sig]][j].ptr = b.ptr /\ Identity[m[Hash[b.sig]][j].sig] = Identity[b.sig]
    BY DEF CacheInv, Held, Entry
  <2>5. ASSUME a.ptr = b.ptr PROVE Same(a.sig, b.sig)
    <3>1. Hash[a.sig] = Hash[b.sig] /\ i = j
      BY <2>2, <2>3, <2>4, <2>5 DEF CacheInv, Once
    <3>2. QED
      BY <2>3, <2>4, <3>1 DEF Same
  <2>6. ASSUME Same(a.sig, b.sig) PROVE a.ptr = b.ptr
    <3>1. Hash[a.sig] = Hash[b.sig] /\ Identity[a.sig] = Identity[b.sig]
      BY <2>6 DEF Same
    <3>2. \A x, y \in DOMAIN m[Hash[a.sig]] :
            Identity[m[Hash[a.sig]][x].sig] = Identity[m[Hash[a.sig]][y].sig] => x = y
      BY <2>2 DEF CacheInv, Once
    <3>3. /\ j \in DOMAIN m[Hash[a.sig]] /\ m[Hash[a.sig]][j].ptr = b.ptr
          /\ Identity[m[Hash[a.sig]][j].sig] = Identity[a.sig]
      BY <2>4, <3>1
    <3>4. i = j
      BY <2>3, <3>2, <3>3
    <3>5. QED
      BY <2>3, <3>3, <3>4
  <2> QED
    BY <2>5, <2>6
<1> QED BY <1>1, CacheInvariant, PTL

-----------------------------------------------------------------------------
(* The ring buffer of query/execute/queue.go, for every initial size and   *)
(* every set of messages: its index invariant, and that it implements the  *)
(* queue of module FIFO.                                                   *)

\* Sequences with the same elements are equal.
LEMMA SameSequence ==
    ASSUME NEW S, NEW s \in Seq(S), NEW u \in Seq(S), Len(s) = Len(u),
           \A i \in 1..Len(s) : s[i] = u[i]
    PROVE  s = u
OBVIOUS

\* What Tail leaves.
LEMMA TailOf ==
    ASSUME NEW S, NEW s \in Seq(S), s # << >>
    PROVE  /\ Tail(s) \in Seq(S) /\ Len(Tail(s)) = Len(s) - 1
           /\ \A i \in 1..(Len(s) - 1) : Tail(s)[i] = s[i + 1]
OBVIOUS

\* Stepping an index round the ring: what (x + 1) % size computes.
LEMMA NextIndex ==
    ASSUME NEW s \in Nat \ {0}, NEW x \in 0..(s - 1)
    PROVE  (x + 1) % s = IF x + 1 < s THEN x + 1 ELSE 0
<1>1. CASE x + 1 < s
  BY <1>1
<1>2. CASE x + 1 = s
  BY <1>2
<1>3. QED
  BY <1>1, <1>2

\* The inductive invariant.
Inv == TypeOK /\ RingInv /\ PopFindsMessage

LEMMA InvInit == Init => Inv
BY InitSizeAssumption, MaxPendingAssumption, NilAssumption
   DEF Init, Inv, TypeOK, RingInv, PopFindsMessage, Slot

\* A push into a ring with room writes the slot behind the last message.
LEMMA PushFitsKeepsInv ==
    ASSUME Inv, NEW msg \in Message, PushFits(msg), Push(msg)
    PROVE  Inv'
<1> DEFINE t == (tail + 1) % size
<1>1. t = IF tail + 1 < size THEN tail + 1 ELSE 0
  BY NextIndex DEF Inv, TypeOK
<1>2. len + 1 < size /\ t = Slot(len + 1)
  BY <1>1 DEF Inv, TypeOK, RingInv, Slot, PushFits
<1>3. /\ len' = len + 1 /\ size' = size /\ head' = head /\ tail' = t
      /\ buf' = [buf EXCEPT ![t] = msg] /\ UNCHANGED <<consumer, result>>
  BY DEF PushFits, Push
<1> HIDE DEF t
<1>4. TypeOK'
  BY <1>1, <1>3, MaxPendingAssumption DEF Inv, TypeOK, Push
<1>5. \A i \in 1..size : i # len + 1 => Slot(i) # t
  BY <1>2 DEF Inv, TypeOK, Slot
<1>6. \A i \in 1..size : Slot(i)' = Slot(i) /\ Slot(i) \in 0..(size - 1)
  BY <1>3 DEF Inv, TypeOK, Slot
<1>7. RingInv'
  BY <1>2, <1>3, <1>5, <1>6 DEF Inv, TypeOK, RingInv
<1>8. PopFindsMessage'
  BY <1>3 DEF Inv, TypeOK, PopFindsMessage
<1>9. QED
  BY <1>4, <1>7, <1>8 DEF Inv

\* A push into a full ring: every message keeps its distance from head.
LEMMA ResizeKeepsSlots ==
    ASSUME Inv, NEW msg \in Message, PushResizes(msg), Push(msg)
    PROVE  /\ len + 1 = size
           /\ \A i \in 1..(size - 1) : buf'[i] = buf[Slot(i)]
           /\ buf'[size] = msg
           /\ buf'[0] = Nil
           /\ \A i \in (size + 1)..(2 * size - 1) : buf'[i] = Nil
           /\ buf' \in [0..(2 * size - 1) -> Message \cup {Nil}]
<1>1. (tail + 1) % size = IF tail + 1 < size THEN tail + 1 ELSE 0
  BY NextIndex DEF Inv, TypeOK
<1>2. len + 1 = size
  <2>1. /\ size \in Nat \ {0} /\ head \in 0..(size - 1) /\ tail \in 0..(size - 1)
        /\ len \in Nat /\ len < size
    BY DEF Inv, TypeOK, RingInv
  <2>2. tail = IF head + len < size THEN head + len ELSE head + len - size
    BY DEF Inv, RingInv, Slot
  <2>3. (tail + 1) % size = head
    BY DEF PushResizes
  <2>4. QED
    BY <1>1, <2>1, <2>2, <2>3
<1>3. buf[head] = Nil
  <2>1. size \in Nat \ {0} /\ head \in 0..(size - 1) /\ size \in (len + 1)..size
    BY <1>2 DEF Inv, TypeOK
  <2>2. Slot(size) = head
    BY <2>1 DEF Slot
  <2>3. QED
    BY <2>1, <2>2 DEF Inv, RingInv
<1>4. Resized \in [0..(2 * size - 1) -> Message \cup {Nil}]
  <2>1. ASSUME NEW i \in 0..(2 * size - 1) PROVE Resized[i] \in Message \cup {Nil}
    BY DEF Resized, Inv, TypeOK
  <2>2. QED
    BY <2>1 DEF Resized
<1>5. \A i \in 0..(size - 1) : Resized[i] = buf[Slot(i)]
  <2>1. size \in Nat \ {0} /\ head \in 0..(size - 1)
    BY DEF Inv, TypeOK
  <2>2. SUFFICES ASSUME NEW i \in 0..(size - 1)
                 PROVE  Resized[i] = buf[Slot(i)]
    OBVIOUS
  <2>3. i \in 0..(2 * size - 1)
    BY <2>1
  <2>4. CASE i < size - head
    BY <2>1, <2>3, <2>4 DEF Resized, Slot
  <2>5. CASE ~(i < size - head)
    <3>1. Resized[i] = buf[i - (size - head)]
      BY <2>1, <2>3, <2>5 DEF Resized
    <3>2. Slot(i) = i - (size - head)
      BY <2>1, <2>5 DEF Slot
    <3>3. QED
      BY <3>1, <3>2
  <2>6. QED
    BY <2>4, <2>5
<1>6. \A i \in size..(2 * size - 1) : Resized[i] = Nil
  BY DEF Resized, Inv, TypeOK
<1>7. buf' = [Resized EXCEPT ![size] = msg] /\ size \in 0..(2 * size - 1)
  BY DEF PushResizes, Inv, TypeOK
<1>8. Slot(0) = head
  BY DEF Inv, TypeOK, Slot
<1> HIDE DEF Resized
<1>9. QED
  BY <1>2, <1>3, <1>4, <1>5, <1>6, <1>7, <1>8 DEF Inv, TypeOK

LEMMA PushResizesKeepsInv ==
    ASSUME Inv, NEW msg \in Message, PushResizes(msg), Push(msg)
    PROVE  Inv'
<1>1. /\ len' = len + 1 /\ size' = 2 * size /\ head' = 0 /\ tail' = size
      /\ UNCHANGED <<consumer, result>>
  BY DEF PushResizes, Push
<1>2. TypeOK'
  BY <1>1, ResizeKeepsSlots, MaxPendingAssumption DEF Inv, TypeOK, Push
<1>3. \A i \in 1..size' : Slot(i)' = IF i < size' THEN i ELSE 0
  BY <1>1 DEF Inv, TypeOK, Slot
<1>4. \A i \in 1..len : buf[Slot(i)] \in Message
  BY DEF Inv, RingInv
<1>5. RingInv'
  BY <1>1, <1>3, <1>4, ResizeKeepsSlots DEF Inv, TypeOK, RingInv
<1>6. PopFindsMessage'
  BY <1>1 DEF Inv, TypeOK, PopFindsMessage
<1>7. QED
  BY <1>2, <1>5, <1>6 DEF Inv

\* The consumer's critical section moves head over the oldest message.
LEMMA PopTakeKeepsInv ==
    ASSUME Inv, PopTake
    PROVE  Inv'
<1> DEFINE h == (head + 1) % size
<1>1. h = IF head + 1 < size THEN head + 1 ELSE 0
  BY ZenonT(30), NextIndex DEF Inv, TypeOK
<1>2. len > 0 /\ h = Slot(1)
  BY <1>1 DEF Inv, TypeOK, RingInv, PopFindsMessage, PopTake, Slot
<1>3. /\ len' = len - 1 /\ size' = size /\ head' = h /\ tail' = tail
      /\ buf' = [buf EXCEPT ![h] = Nil] /\ consumer' = "idle" /\ result' = buf[h]
  BY DEF PopTake
<1> HIDE DEF h
<1>4. TypeOK'
  BY <1>1, <1>2, <1>3, MaxPendingAssumption DEF Inv, TypeOK
<1>5. \A i \in 1..(size - 1) : Slot(i)' = Slot(i + 1) /\ Slot(i + 1) # h
  BY <1>1, <1>3 DEF Inv, TypeOK, Slot
<1>6. h \in 0..(size - 1) /\ \A i \in Int : i = size => Slot(i)' = h
  BY <1>1, <1>3 DEF Inv, TypeOK, Slot
<1>7. \A i \in 1..size : Slot(i) \in 0..(size - 1)
  BY DEF Inv, TypeOK, Slot
<1>8. RingInv'
  <2>1. len' < size' /\ tail' = Slot(len)'
    BY <1>1, <1>2, <1>3 DEF Inv, TypeOK, RingInv, Slot
  <2>2. ASSUME NEW i \in Int, 1 <= i, i <= len'
        PROVE  buf'[Slot(i)'] \in Message
    <3>1. i + 1 \in 1..len /\ i \in 1..(size - 1) /\ i + 1 \in 1..size
      BY <1>3, <2>2 DEF Inv, TypeOK, RingInv
    <3>2. Slot(i)' = Slot(i + 1) /\ Slot(i + 1) # h /\ Slot(i + 1) \in 0..(size - 1)
      BY <1>5, <1>7, <3>1
    <3>3. buf[Slot(i + 1)] \in Message
      BY <3>1 DEF Inv, RingInv
    <3>4. QED
      BY <1>3, <3>2, <3>3 DEF Inv, TypeOK
  <2>3. ASSUME NEW i \in Int, len' + 1 <= i, i <= size'
        PROVE  buf'[Slot(i)'] = Nil
    <3>1. CASE i = size
      BY <1>3, <1>6, <3>1 DEF Inv, TypeOK
    <3>2. CASE i < size
      <4>1. i \in 1..(size - 1) /\ i + 1 \in (len + 1)..size /\ i + 1 \in 1..size
        BY <1>2, <1>3, <2>3, <3>2 DEF Inv, TypeOK
      <4>2. Slot(i)' = Slot(i + 1) /\ Slot(i + 1) # h /\ Slot(i + 1) \in 0..(size - 1)
        BY <1>5, <1>7, <4>1
      <4>3. buf[Slot(i + 1)] = Nil
        BY <4>1 DEF Inv, RingInv
      <4>4. QED
        BY <1>3, <4>2, <4>3 DEF Inv, TypeOK
    <3>3. QED
      BY <1>3, <2>3, <3>1, <3>2 DEF Inv, TypeOK
  <2>4. len' \in Int /\ size' \in Int
    BY <1>4 DEF TypeOK
  <2>5. \A i \in 1..len' : buf'[Slot(i)'] \in Message
    BY <2>2, <2>4
  <2>6. \A i \in (len' + 1)..size' : buf'[Slot(i)'] = Nil
    <3>1. TAKE i \in (len' + 1)..size'
    <3>2. i \in Int /\ len' + 1 <= i /\ i <= size'
      BY <1>3, <2>4, <3>1 DEF Inv, TypeOK
    <3>3. QED
      BY <2>3, <3>2
  <2>7. QED
    BY <2>1, <2>5, <2>6 DEF RingInv
<1>9. PopFindsMessage'
  BY <1>3 DEF PopFindsMessage
<1>10. QED
  BY <1>4, <1>8, <1>9 DEF Inv

LEMMA InvStep == Inv /\ [Next]_vars => Inv'
<1> SUFFICES ASSUME Inv, [Next]_vars PROVE Inv'
  OBVIOUS
<1>1. ASSUME NEW msg \in Message, Push(msg) PROVE Inv'
  BY <1>1, PushFitsKeepsInv, PushResizesKeepsInv DEF Push
<1>2. CASE PopCheck
  BY <1>2 DEF PopCheck, Inv, TypeOK, RingInv, PopFindsMessage, Slot
<1>3. CASE PopTake
  BY <1>3, PopTakeKeepsInv
<1>4. CASE UNCHANGED vars
  BY <1>4 DEF vars, Inv, TypeOK, RingInv, PopFindsMessage, Slot
<1>5. QED
  BY <1>1, <1>2, <1>3, <1>4 DEF Next

\* In every reachable state of the ring of queue.go the indices, the slots
\* and the atomic counter agree, and a consumer past its unlocked length test
\* will find a message.
THEOREM RingCorrect == Spec => [](TypeOK /\ RingInv /\ PopFindsMessage)
<1>1. Spec => []Inv
  BY InvInit, InvStep, PTL DEF Spec
<1>2. QED
  BY <1>1, PTL DEF Inv

-----------------------------------------------------------------------------
(* Refinement of module FIFO.                                              *)

LEMMA PendingIsSeq ==
    ASSUME Inv
    PROVE  Pending \in Seq(Message) /\ Len(Pending) = len
BY DEF Inv, TypeOK, RingInv, Pending

\* Either kind of push appends to the messages held.
LEMMA PushAppends ==
    ASSUME Inv, NEW msg \in Message, Push(msg)
    PROVE  Pending' = Append(Pending, msg)
<1>1. Inv'
  BY PushFitsKeepsInv, PushResizesKeepsInv DEF Push
<1>2. len' = len + 1 /\ len \in Nat
  BY DEF Push, Inv, TypeOK
<1>3. ASSUME NEW i \in 1..len PROVE buf'[Slot(i)'] = buf[Slot(i)]
  <2>1. CASE PushFits(msg)
    <3>1. (tail + 1) % size = IF tail + 1 < size THEN tail + 1 ELSE 0
      BY NextIndex DEF Inv, TypeOK
    <3>2. Slot(i)' = Slot(i) /\ Slot(i) # (tail + 1) % size /\ Slot(i) \in 0..(size - 1)
      <4>1. /\ size \in Nat \ {0} /\ head \in 0..(size - 1) /\ tail \in 0..(size - 1)
            /\ len < size
        BY DEF Inv, TypeOK, RingInv
      <4>2. tail = IF head + len < size THEN head + len ELSE head + len - size
        BY DEF Inv, RingInv, Slot
      <4>3. size' = size /\ head' = head /\ (tail + 1) % size # head
        BY <2>1 DEF PushFits
      <4>4. Slot(i)' = Slot(i)
        BY <4>3 DEF Slot
      <4>5. Slot(i) # (tail + 1) % size /\ Slot(i) \in 0..(size - 1)
        BY <1>2, <3>1, <4>1, <4>2, <4>3 DEF Slot
      <4>6. QED
        BY <4>4, <4>5
    <3>3. QED
      BY <2>1, <3>2 DEF PushFits, Inv, TypeOK
  <2>2. CASE PushResizes(msg)
    <3>1. i \in 1..(size - 1)
      BY <2>2, ResizeKeepsSlots DEF Inv, TypeOK
    <3>2. Slot(i)' = i
      BY <2>2, <3>1 DEF PushResizes, Inv, TypeOK, Slot
    <3>3. QED
      BY <2>2, <3>1, <3>2, ResizeKeepsSlots
  <2>3. QED
    BY <2>1, <2>2 DEF Push
<1>4. buf'[tail'] = msg
  BY ResizeKeepsSlots, NextIndex DEF Push, PushFits, PushResizes, Inv, TypeOK
<1>5. tail' = Slot(len)'
  BY <1>1 DEF Inv, RingInv
<1>6. \A i \in 1..len' : Pending'[i] = IF i \in 1..len THEN Pending[i] ELSE msg
  <2>1. TAKE i \in 1..len'
  <2>2. CASE i \in 1..len
    BY <1>2, <1>3, <2>1, <2>2 DEF Pending
  <2>3. CASE i = len'
    BY <1>2, <1>4, <1>5, <2>1, <2>3 DEF Pending, Slot
  <2>4. QED
    BY <1>2, <2>1, <2>2, <2>3 DEF Inv, TypeOK
<1>7. /\ Pending \in Seq(Message) /\ Len(Pending) = len
      /\ Pending' \in Seq(Message) /\ Len(Pending') = len'
  <2>1. Pending \in Seq(Message) /\ Len(Pending) = len
    BY PendingIsSeq
  <2>2. len' \in Nat /\ \A i \in 1..len' : buf'[Slot(i)'] \in Message
    BY <1>1 DEF Inv, TypeOK, RingInv
  <2>3. Pending' = [i \in 1..len' |-> buf'[Slot(i)']]
    BY DEF Pending
  <2>4. QED
    BY <2>1, <2>2, <2>3
<1>8. /\ Append(Pending, msg) \in Seq(Message)
      /\ Len(Append(Pending, msg)) = len + 1
      /\ \A i \in 1..(len + 1) :
           Append(Pending, msg)[i] = IF i \in 1..len THEN Pending[i] ELSE msg
  BY <1>2, <1>7
<1>9. QED
  BY <1>2, <1>6, <1>7, <1>8, SameSequence

\* The critical section of Pop returns the oldest message.
LEMMA PopTakesHead ==
    ASSUME Inv, PopTake
    PROVE  Abstract!PopMessage
<1>1. /\ (head + 1) % size = IF head + 1 < size THEN head + 1 ELSE 0
      /\ len \in Nat /\ len > 0 /\ len' = len - 1
  BY NextIndex DEF PopTake, Inv, TypeOK, PopFindsMessage
<1>2. result' = buf[Slot(1)]
  BY <1>1 DEF PopTake, Inv, TypeOK, Slot
<1>3. Pending \in Seq(Message) /\ Len(Pending) = len /\ Pending # <<>>
  BY <1>1, PendingIsSeq
<1>4. result' = Head(Pending)
  BY <1>1, <1>2, <1>3 DEF Pending
<1>5. ASSUME NEW i \in 1..len' PROVE buf'[Slot(i)'] = buf[Slot(i + 1)]
  <2>1. Slot(i)' = Slot(i + 1) /\ Slot(i + 1) # (head + 1) % size
    BY <1>1 DEF PopTake, Inv, TypeOK, RingInv, Slot
  <2>2. Slot(i + 1) \in 0..(size - 1)
    BY <1>1 DEF Inv, TypeOK, RingInv, Slot
  <2>3. QED
    BY <2>1, <2>2 DEF PopTake, Inv, TypeOK
<1>6. /\ Tail(Pending) \in Seq(Message) /\ Len(Tail(Pending)) = len - 1
      /\ \A i \in 1..(len - 1) : Tail(Pending)[i] = Pending[i + 1]
  BY <1>1, <1>3, TailOf
<1>7. \A i \in 1..(len - 1) : Pending[i + 1] = buf[Slot(i + 1)]
  BY <1>1 DEF Pending
<1>8. /\ Pending' \in Seq(Message) /\ Len(Pending') = len - 1
      /\ \A i \in 1..(len - 1) : Pending'[i] = buf'[Slot(i)']
  BY <1>1, PopTakeKeepsInv DEF Inv, TypeOK, RingInv, Pending
<1>9. Pending' = Tail(Pending)
  BY <1>1, <1>5, <1>6, <1>7, <1>8, SameSequence
<1>10. QED
  BY <1>3, <1>4, <1>9 DEF Abstract!PopMessage

\* The ring buffer of queue.go, resizes and unlocked length test included,
\* implements the queue of module FIFO.
THEOREM RingImplementsFIFO == Spec => ImplementsFIFO
<1>1. Init => Abstract!Init
  BY DEF Init, Abstract!Init, Pending
<1>2. Inv /\ [Next]_vars => [Abstract!Next]_(Abstract!vars)
  <2> SUFFICES ASSUME Inv, [Next]_vars PROVE [Abstract!Next]_(Abstract!vars)
    OBVIOUS
  <2>1. ASSUME NEW msg \in Message, Push(msg) PROVE Abstract!Push(msg)
    BY <2>1, PushAppends DEF Push, Abstract!Push
  <2>2. CASE PopCheck
    <3>1. Pending' = Pending
      BY <2>2 DEF PopCheck, Pending, Slot
    <3>2. CASE len = 0
      <4>1. Pending = <<>>
        BY <3>2, PendingIsSeq
      <4>2. QED
        BY <2>2, <3>1, <3>2, <4>1 DEF PopCheck, Abstract!PopNil, Abstract!Next
    <3>3. CASE len # 0
      BY <2>2, <3>1, <3>3 DEF PopCheck, Abstract!vars
    <3>4. QED
      BY <3>2, <3>3
  <2>3. CASE PopTake
    BY <2>3, PopTakesHead DEF Abstract!Next
  <2>4. CASE UNCHANGED vars
    BY <2>4 DEF vars, Abstract!vars, Pending, Slot
  <2>5. QED
    BY <2>1, <2>2, <2>3, <2>4 DEF Next, Abstract!Next
<1>3. Spec => []Inv
  BY InvInit, InvStep, PTL DEF Spec
<1>4. QED
  BY <1>1, <1>2, <1>3, PTL DEF Spec, Abstract!Spec, ImplementsFIFO
=============================================================================
