------------------------- MODULE AccountingProofs -------------------------
(***************************************************************************)
(* Accounting: what a sum over a finite set does when a part of it         *)
(* changes, and the allocator for any set of workers, any limit and any    *)
(* appends: Max misses no maximum, and account grants no more than the     *)
(* limit.                                                                  *)
(*                                                                         *)
(* The library's induction theorems take an operator, which the provers    *)
(* cannot instantiate; that a set of subsets of a finite set has a minimal *)
(* element is first-order, and every induction below is the search for a   *)
(* smallest counterexample.                                                *)
(***************************************************************************)
EXTENDS Allocator, FiniteSetTheorems, TLAPS

USE SMTT(30), ZenonT(30)

\* Induction over the subsets of a finite set, as the existence of a smallest
\* counterexample: a set of subsets that is not empty has a minimal element.
LEMMA Smallest ==
    ASSUME NEW S, IsFiniteSet(S), NEW X \in SUBSET (SUBSET S), X # {}
    PROVE  \E m \in X : \A y \in X : y \subseteq m => y = m
<1>1. IsWellFoundedOn(StrictSubsetOrdering(S), SUBSET S)
  BY ZenonT(30), FS_StrictSubsetOrderingWellFounded, FS_FiniteSubsetsOfFinite
<1>2. PICK m \in X : \A y \in X : <<y, m>> \notin StrictSubsetOrdering(S)
  BY <1>1, WFMin
<1>3. QED  BY ZenonT(30), <1>2 DEF StrictSubsetOrdering

-----------------------------------------------------------------------------
(* The recursive function inside MapThenSumSet is defined.                 *)

\* The element that is added last.
Pick(s) == CHOOSE x \in s : TRUE

\* g is the sum of f over every subset of S.
SumsUpTo(g, f, S) ==
    g = [s \in SUBSET S |-> IF s = {} THEN 0 ELSE f[Pick(s)] + g[s \ {Pick(s)}]]

\* What an element that is picked is.
LEMMA PickIn == \A s : s # {} => Pick(s) \in s
BY DEF Pick

\* The sums over the subsets of two sets agree where both are defined.
LEMMA SumsAgree ==
    ASSUME NEW f, NEW S, NEW T, IsFiniteSet(S), NEW g, NEW h,
           SumsUpTo(g, f, S), SumsUpTo(h, f, T), NEW s, s \subseteq S, s \subseteq T
    PROVE  g[s] = h[s]
<1> DEFINE X == {u \in SUBSET S : u \subseteq T /\ g[u] # h[u]}
<1>1. SUFFICES ASSUME X # {} PROVE FALSE
  OBVIOUS
<1>2. PICK m \in X : \A y \in X : y \subseteq m => y = m
  <2> HIDE DEF X
  <2>1. X \in SUBSET (SUBSET S)  BY DEF X
  <2>2. QED  BY <1>1, <2>1, Smallest
<1>3. /\ g[m] = IF m = {} THEN 0 ELSE f[Pick(m)] + g[m \ {Pick(m)}]
      /\ h[m] = IF m = {} THEN 0 ELSE f[Pick(m)] + h[m \ {Pick(m)}]
  BY ZenonT(30), <1>2 DEF SumsUpTo
<1>4. m # {}
  BY <1>2, <1>3
<1>5. Pick(m) \in m
  BY <1>4, PickIn
<1>6. g[m \ {Pick(m)}] = h[m \ {Pick(m)}]
  BY <1>2, <1>5
<1>7. QED  BY <1>2, <1>3, <1>6

\* The sums over the subsets of a finite set exist.
LEMMA SumsExists ==
    ASSUME NEW f, NEW S, IsFiniteSet(S)
    PROVE  \E g : SumsUpTo(g, f, S)
<1> DEFINE Bad == {u \in SUBSET S : ~ \E g : SumsUpTo(g, f, u)}
<1>1. SUFFICES ASSUME Bad # {} PROVE FALSE
  OBVIOUS
<1>2. PICK m \in Bad : \A y \in Bad : y \subseteq m => y = m
  <2> HIDE DEF Bad
  <2>1. Bad \in SUBSET (SUBSET S)  BY DEF Bad
  <2>2. QED  BY <1>1, <2>1, Smallest
<1> DEFINE H(u) == CHOOSE g : SumsUpTo(g, f, u)
           G == [s \in SUBSET m |-> IF s = {} THEN 0
                                    ELSE f[Pick(s)] + H(s \ {Pick(s)})[s \ {Pick(s)}]]
<1>3. ASSUME NEW u \in SUBSET m, u # m PROVE SumsUpTo(H(u), f, u)
  BY <1>2, <1>3
<1>4. ASSUME NEW s \in SUBSET m, s # {} PROVE H(s \ {Pick(s)})[s \ {Pick(s)}] = G[s \ {Pick(s)}]
  <2> DEFINE u == s \ {Pick(s)}
  <2>1. u \in SUBSET m /\ u # m
    BY <1>4, PickIn
  <2>2. SumsUpTo(H(u), f, u)
    BY ZenonT(30), <1>3, <2>1
  <2>3. H(u)[u] = IF u = {} THEN 0 ELSE f[Pick(u)] + H(u)[u \ {Pick(u)}]
    BY ZenonT(30), <2>2 DEF SumsUpTo
  <2>4. G[u] = IF u = {} THEN 0 ELSE f[Pick(u)] + H(u \ {Pick(u)})[u \ {Pick(u)}]
    BY <2>1
  <2>5. CASE u = {}
    BY <2>3, <2>4, <2>5
  <2>6. CASE u # {}
    <3> DEFINE v == u \ {Pick(u)}
    <3>1. v \in SUBSET m /\ v # m /\ v \subseteq u
      BY <2>1, <2>6, PickIn
    <3>2. SumsUpTo(H(v), f, v)
      BY ZenonT(30), <1>3, <3>1
    <3>3. IsFiniteSet(u)
      BY <2>1, <1>2, FS_Subset
    <3>4. H(u)[v] = H(v)[v]
      <4> HIDE DEF H, u, v
      <4> QED BY <2>2, <3>1, <3>2, <3>3, SumsAgree
    <3>5. QED  BY <2>3, <2>4, <2>6, <3>4
  <2>7. QED  BY <2>5, <2>6
<1>5. SumsUpTo(G, f, m)
  <2>1. \A s \in SUBSET m : G[s] = IF s = {} THEN 0 ELSE f[Pick(s)] + G[s \ {Pick(s)}]
    <3> SUFFICES ASSUME NEW s \in SUBSET m
                 PROVE  G[s] = IF s = {} THEN 0 ELSE f[Pick(s)] + G[s \ {Pick(s)}]
      BY ZenonT(30)
    <3>1. G[s] = IF s = {} THEN 0 ELSE f[Pick(s)] + H(s \ {Pick(s)})[s \ {Pick(s)}]
      OBVIOUS
    <3>2. s # {} => H(s \ {Pick(s)})[s \ {Pick(s)}] = G[s \ {Pick(s)}]
      BY ZenonT(30), <1>4
    <3> HIDE DEF G, H
    <3>3. QED  BY <3>1, <3>2
  <2>2. G = [s \in SUBSET m |-> G[s]]
    OBVIOUS
  <2> HIDE DEF G
  <2>3. QED  BY ZenonT(30), <2>1, <2>2 DEF SumsUpTo
<1>6. QED  BY <1>2, <1>5

\* SumOver is the value of such a function.
LEMMA SumOverDef ==
    ASSUME NEW f, NEW S, IsFiniteSet(S)
    PROVE  \E g : SumsUpTo(g, f, S) /\ SumOver(f, S) = g[S]
<1>1. SumOver(f, S) = (CHOOSE g : SumsUpTo(g, f, S))[S]
  BY DEF SumOver, MapThenSumSet, MapThenFoldSet, SumsUpTo, Pick
<1>2. QED  BY ZenonT(30), <1>1, SumsExists

\* The recursion that SumOver stands for.
LEMMA SumUnfold ==
    ASSUME NEW f, NEW S, IsFiniteSet(S)
    PROVE  SumOver(f, S) = IF S = {} THEN 0 ELSE f[Pick(S)] + SumOver(f, S \ {Pick(S)})
<1>1. PICK g : SumsUpTo(g, f, S) /\ SumOver(f, S) = g[S]
  BY SumOverDef
<1>2. g[S] = IF S = {} THEN 0 ELSE f[Pick(S)] + g[S \ {Pick(S)}]
  BY ZenonT(30), <1>1 DEF SumsUpTo
<1> DEFINE U == S \ {Pick(S)}
<1>3. IsFiniteSet(U)
  BY FS_Subset
<1> HIDE DEF U
<1>4. PICK h : SumsUpTo(h, f, U) /\ SumOver(f, U) = h[U]
  BY <1>3, SumOverDef
<1>5. g[U] = h[U]
  <2>1. U \subseteq S  BY DEF U
  <2>2. QED  BY <1>1, <1>4, <2>1, SumsAgree
<1>6. QED  BY <1>1, <1>2, <1>4, <1>5 DEF U

-----------------------------------------------------------------------------
(* The facts that proofs cite.                                             *)

\* The sum over nothing.
THEOREM SumEmpty == \A f : SumOver(f, {}) = 0
BY ZenonT(30), SumUnfold, FS_EmptySet

\* A sum of integers is one.
THEOREM SumInt ==
    ASSUME NEW f, NEW S, IsFiniteSet(S), \A x \in S : f[x] \in Int
    PROVE  SumOver(f, S) \in Int
<1> DEFINE Bad == {u \in SUBSET S : SumOver(f, u) \notin Int}
<1>1. SUFFICES ASSUME Bad # {} PROVE FALSE
  OBVIOUS
<1>2. PICK m \in Bad : \A y \in Bad : y \subseteq m => y = m
  <2> HIDE DEF Bad
  <2>1. Bad \in SUBSET (SUBSET S)  BY DEF Bad
  <2>2. QED  BY <1>1, <2>1, Smallest
<1>3. SumOver(f, m) = IF m = {} THEN 0 ELSE f[Pick(m)] + SumOver(f, m \ {Pick(m)})
  BY <1>2, SumUnfold, FS_Subset
<1>4. m # {}
  BY <1>2, <1>3
<1>5. Pick(m) \in m
  BY <1>4, PickIn
<1>6. m \ {Pick(m)} \notin Bad
  BY <1>2, <1>5
<1>7. SumOver(f, m \ {Pick(m)}) \in Int /\ f[Pick(m)] \in Int
  BY <1>2, <1>5, <1>6
<1>8. QED  BY <1>2, <1>3, <1>4, <1>7

\* Any element may be taken out.
THEOREM SumRemove ==
    ASSUME NEW f, NEW S, IsFiniteSet(S), \A y \in S : f[y] \in Int, NEW x \in S
    PROVE  SumOver(f, S) = f[x] + SumOver(f, S \ {x})
<1> DEFINE Bad == {u \in SUBSET S : \E y \in u : SumOver(f, u) # f[y] + SumOver(f, u \ {y})}
<1>1. SUFFICES ASSUME Bad # {} PROVE FALSE
  BY ZenonT(30)
<1>2. PICK m \in Bad : \A y \in Bad : y \subseteq m => y = m
  <2> HIDE DEF Bad
  <2>1. Bad \in SUBSET (SUBSET S)  BY DEF Bad
  <2>2. QED  BY <1>1, <2>1, Smallest
<1>3. PICK y \in m : SumOver(f, m) # f[y] + SumOver(f, m \ {y})
  BY <1>2
<1>4. SumOver(f, m) = f[Pick(m)] + SumOver(f, m \ {Pick(m)})
  BY <1>2, <1>3, SumUnfold, FS_Subset
<1> DEFINE p == Pick(m)
<1>5. p \in m /\ p # y
  BY <1>3, <1>4, PickIn
<1> HIDE DEF p
<1>6. m \ {p} \notin Bad /\ m \ {y} \notin Bad
  BY ZenonT(30), <1>2, <1>3, <1>5
<1>7. /\ SumOver(f, m \ {p}) = f[y] + SumOver(f, (m \ {p}) \ {y})
      /\ SumOver(f, m \ {y}) = f[p] + SumOver(f, (m \ {y}) \ {p})
  BY ZenonT(30), <1>2, <1>3, <1>5, <1>6
<1>8. (m \ {p}) \ {y} = (m \ {y}) \ {p}
  OBVIOUS
<1> DEFINE w == SumOver(f, (m \ {y}) \ {p})
<1>9. w \in Int /\ f[p] \in Int /\ f[y] \in Int
  <2>1. IsFiniteSet((m \ {y}) \ {p})
    BY <1>2, FS_Subset
  <2>2. (m \ {y}) \ {p} \subseteq S /\ p \in S /\ y \in S
    BY <1>2, <1>3, <1>5
  <2>3. QED  BY <2>1, <2>2, SumInt
<1>10. SumOver(f, m) = f[p] + (f[y] + w) /\ SumOver(f, m \ {y}) = f[p] + w
  BY ZenonT(30), <1>4, <1>7, <1>8 DEF p
<1> HIDE DEF w
<1>11. QED  BY <1>3, <1>9, <1>10

\* An element that was not there is added.
THEOREM SumAdd ==
    ASSUME NEW f, NEW S, IsFiniteSet(S), NEW x, x \notin S, f[x] \in Int,
           \A y \in S : f[y] \in Int
    PROVE  SumOver(f, S \cup {x}) = f[x] + SumOver(f, S)
<1>1. IsFiniteSet(S \cup {x})
  BY FS_AddElement
<1>2. (S \cup {x}) \ {x} = S
  OBVIOUS
<1>3. SumOver(f, S \cup {x}) = f[x] + SumOver(f, (S \cup {x}) \ {x})
  BY <1>1, SumRemove
<1>4. QED  BY <1>2, <1>3

\* The sum depends on the values on the set.
THEOREM SumSame ==
    ASSUME NEW f, NEW g, NEW S, IsFiniteSet(S), \A x \in S : f[x] = g[x]
    PROVE  SumOver(f, S) = SumOver(g, S)
<1> DEFINE Bad == {u \in SUBSET S : SumOver(f, u) # SumOver(g, u)}
<1>1. SUFFICES ASSUME Bad # {} PROVE FALSE
  OBVIOUS
<1>2. PICK m \in Bad : \A y \in Bad : y \subseteq m => y = m
  <2> HIDE DEF Bad
  <2>1. Bad \in SUBSET (SUBSET S)  BY DEF Bad
  <2>2. QED  BY <1>1, <2>1, Smallest
<1>3. /\ SumOver(f, m) = IF m = {} THEN 0 ELSE f[Pick(m)] + SumOver(f, m \ {Pick(m)})
      /\ SumOver(g, m) = IF m = {} THEN 0 ELSE g[Pick(m)] + SumOver(g, m \ {Pick(m)})
  BY <1>2, SumUnfold, FS_Subset
<1>4. m # {}
  BY <1>2, <1>3
<1>5. Pick(m) \in m
  BY <1>4, PickIn
<1>6. m \ {Pick(m)} \notin Bad
  BY <1>2, <1>5
<1>7. SumOver(f, m \ {Pick(m)}) = SumOver(g, m \ {Pick(m)}) /\ f[Pick(m)] = g[Pick(m)]
  BY <1>2, <1>5, <1>6
<1>8. QED  BY <1>2, <1>3, <1>4, <1>7

\* One value changes.
THEOREM SumChange ==
    ASSUME NEW f, NEW g, NEW S, IsFiniteSet(S), NEW x \in S,
           \A y \in S : f[y] \in Int /\ g[y] \in Int,
           \A y \in S \ {x} : f[y] = g[y]
    PROVE  SumOver(g, S) = SumOver(f, S) - f[x] + g[x]
<1>1. IsFiniteSet(S \ {x})
  BY FS_RemoveElement
<1>2. /\ SumOver(f, S) = f[x] + SumOver(f, S \ {x})
      /\ SumOver(g, S) = g[x] + SumOver(g, S \ {x})
  BY SumRemove
<1>3. SumOver(f, S \ {x}) = SumOver(g, S \ {x})
  BY <1>1, SumSame
<1>4. SumOver(f, S \ {x}) \in Int
  BY <1>1, SumInt
<1>5. QED  BY <1>2, <1>3, <1>4

\* A sum of natural numbers is one, and not less than any of them.
THEOREM SumNat ==
    ASSUME NEW f, NEW S, IsFiniteSet(S), \A x \in S : f[x] \in Nat
    PROVE  SumOver(f, S) \in Nat /\ \A x \in S : f[x] <= SumOver(f, S)
<1> DEFINE Bad == {u \in SUBSET S : SumOver(f, u) \notin Nat}
<1>1. Bad = {}
  <2>1. SUFFICES ASSUME Bad # {} PROVE FALSE
    OBVIOUS
  <2>2. PICK m \in Bad : \A y \in Bad : y \subseteq m => y = m
    <3> HIDE DEF Bad
    <3>1. Bad \in SUBSET (SUBSET S)  BY DEF Bad
    <3>2. QED  BY <2>1, <3>1, Smallest
  <2>3. SumOver(f, m) = IF m = {} THEN 0 ELSE f[Pick(m)] + SumOver(f, m \ {Pick(m)})
    BY <2>2, SumUnfold, FS_Subset
  <2>4. m # {}
    BY <2>2, <2>3
  <2>5. Pick(m) \in m
    BY <2>4, PickIn
  <2>6. m \ {Pick(m)} \notin Bad
    BY <2>2, <2>5
  <2>7. SumOver(f, m \ {Pick(m)}) \in Nat /\ f[Pick(m)] \in Nat
    BY <2>2, <2>5, <2>6
  <2>8. QED  BY <2>2, <2>3, <2>4, <2>7
<1>2. \A u \in SUBSET S : SumOver(f, u) \in Nat
  BY <1>1
<1>3. ASSUME NEW x \in S PROVE f[x] <= SumOver(f, S)
  <2>1. SumOver(f, S) = f[x] + SumOver(f, S \ {x})
    BY SumRemove
  <2>2. SumOver(f, S \ {x}) \in Nat
    BY <1>2
  <2>3. QED  BY <2>1, <2>2
<1>4. QED  BY <1>2, <1>3

\* A sum of larger values is larger.
THEOREM SumLeq ==
    ASSUME NEW f, NEW g, NEW S, IsFiniteSet(S),
           \A x \in S : f[x] \in Int /\ g[x] \in Int /\ f[x] <= g[x]
    PROVE  SumOver(f, S) <= SumOver(g, S)
<1> DEFINE Bad == {u \in SUBSET S : ~(SumOver(f, u) <= SumOver(g, u))}
<1>1. SUFFICES ASSUME Bad # {} PROVE FALSE
  OBVIOUS
<1>2. PICK m \in Bad : \A y \in Bad : y \subseteq m => y = m
  <2> HIDE DEF Bad
  <2>1. Bad \in SUBSET (SUBSET S)  BY DEF Bad
  <2>2. QED  BY <1>1, <2>1, Smallest
<1>3. IsFiniteSet(m)
  BY <1>2, FS_Subset
<1>4. m # {}
  <2>1. SumOver(f, {}) = 0 /\ SumOver(g, {}) = 0
    BY SumEmpty
  <2>2. ~(SumOver(f, m) <= SumOver(g, m))
    BY <1>2
  <2> HIDE DEF Bad
  <2>3. QED  BY <2>1, <2>2
<1>5. PICK x : x \in m
  BY <1>4
<1>6. /\ SumOver(f, m) = f[x] + SumOver(f, m \ {x})
      /\ SumOver(g, m) = g[x] + SumOver(g, m \ {x})
  BY <1>2, <1>3, <1>5, SumRemove
<1>7. SumOver(f, m \ {x}) \in Int /\ SumOver(g, m \ {x}) \in Int
  <2>1. IsFiniteSet(m \ {x}) /\ \A y \in m \ {x} : f[y] \in Int /\ g[y] \in Int
    BY <1>2, <1>3, FS_RemoveElement
  <2>2. QED  BY <2>1, SumInt
<1>8. SumOver(f, m \ {x}) <= SumOver(g, m \ {x})
  <2>1. m \ {x} \notin Bad
    BY <1>2, <1>5
  <2>2. QED  BY <1>2, <2>1
<1>9. f[x] \in Int /\ g[x] \in Int /\ f[x] <= g[x]
  BY <1>2, <1>5
<1>10. ~(SumOver(f, m) <= SumOver(g, m))
  BY <1>2
<1> HIDE DEF Bad
<1>11. QED  BY <1>6, <1>7, <1>8, <1>9, <1>10

\* A sum of zeros.
THEOREM SumZero ==
    ASSUME NEW f, NEW S, IsFiniteSet(S), \A x \in S : f[x] = 0
    PROVE  SumOver(f, S) = 0
<1> DEFINE Bad == {u \in SUBSET S : SumOver(f, u) # 0}
<1>1. SUFFICES ASSUME Bad # {} PROVE FALSE
  OBVIOUS
<1>2. PICK m \in Bad : \A y \in Bad : y \subseteq m => y = m
  <2> HIDE DEF Bad
  <2>1. Bad \in SUBSET (SUBSET S)  BY DEF Bad
  <2>2. QED  BY <1>1, <2>1, Smallest
<1>3. SumOver(f, m) = IF m = {} THEN 0 ELSE f[Pick(m)] + SumOver(f, m \ {Pick(m)})
  BY <1>2, SumUnfold, FS_Subset
<1>4. m # {}
  BY <1>2, <1>3
<1>5. Pick(m) \in m
  BY <1>4, PickIn
<1>6. m \ {Pick(m)} \notin Bad
  BY <1>2, <1>5
<1>7. SumOver(f, m \ {Pick(m)}) = 0 /\ f[Pick(m)] = 0
  BY <1>2, <1>5, <1>6
<1>8. QED  BY <1>2, <1>3, <1>4, <1>7

-----------------------------------------------------------------------------
(* The largest amount that was counted.                                    *)

\* What a worker asks the allocator for.
AllocCall ==
    [pc : {"idle", "load", "swap", "counted", "panicked"},
     op : {"none", "append", "copy", "free", "refused"},
     n : Int, len : Int, c : Int, max : Int]

\* The types of the counters and of what the workers hold.
AllocTypeOK ==
    /\ bytesAllocated \in Int /\ maxAllocated \in Int /\ peak \in Int
    /\ column \in [Worker -> [len : Int, cap : Int]]
    /\ block \in [Worker -> Int]
    /\ call \in [Worker -> AllocCall]

\* A maximum that is not in maxAllocated yet is in the hands of a worker that
\* goes on trying to put it there, and no worker has a value above the maximum.
MaxInv ==
    /\ AllocTypeOK
    /\ maxAllocated <= peak
    /\ \A w \in Worker : Counting(w) => call[w].c <= peak
    /\ \A w \in Worker : call[w].pc = "swap" => call[w].max < call[w].c
    /\ maxAllocated = peak \/ \E w \in Worker : Counting(w) /\ call[w].c = peak

\* A worker that asks for nothing.
LEMMA NoCallTyped == NoCall \in AllocCall
BY DEF NoCall, AllocCall

\* The records of calls that the actions make.
LEMMA CallTyped ==
    ASSUME NEW k \in AllocCall, NEW x \in Int, NEW y \in Int
    PROVE  /\ [k EXCEPT !.pc = "load", !.c = x] \in AllocCall
           /\ [k EXCEPT !.op = "append", !.n = x, !.len = y] \in AllocCall
           /\ [k EXCEPT !.op = "copy", !.n = x, !.len = y] \in AllocCall
BY Zenon DEF AllocCall

\* The records of calls that change their purpose or their place.
LEMMA CallMarked ==
    ASSUME NEW k \in AllocCall
    PROVE  /\ [k EXCEPT !.op = "free"] \in AllocCall
           /\ [k EXCEPT !.op = "refused"] \in AllocCall
           /\ [k EXCEPT !.pc = "panicked"] \in AllocCall
BY DEF AllocCall

\* The steps of the loop.
LEMMA CallMoved ==
    ASSUME NEW k \in AllocCall, NEW x \in Int, NEW p \in {"load", "swap", "counted"}
    PROVE  /\ [k EXCEPT !.pc = p] \in AllocCall
           /\ [k EXCEPT !.max = x, !.pc = p] \in AllocCall
BY Zenon DEF AllocCall

\* The addition of count: the only step that raises the peak leaves the worker
\* with the new peak.
LEMMA CountAddKeeps ==
    ASSUME MaxInv, NEW w \in Worker, NEW n \in Int,
           NEW k \in AllocCall,
           countAdd(w, n, k),
           ~Counting(w),
           column' \in [Worker -> [len : Int, cap : Int]],
           block' \in [Worker -> Int]
    PROVE  MaxInv'
<1>0. AllocTypeOK
  BY DEF MaxInv
<1>1. AllocTypeOK'
  <2>1. bytesAllocated' \in Int /\ maxAllocated' \in Int /\ peak' \in Int
    BY <1>0 DEF countAdd, AllocTypeOK
  <2>2. [k EXCEPT !.pc = "load", !.c = bytesAllocated'] \in AllocCall
    BY <2>1, CallTyped, Zenon
  <2>3. call' \in [Worker -> AllocCall]
    BY <1>0, <2>2, Zenon DEF countAdd, AllocTypeOK
  <2> QED  BY <2>1, <2>3 DEF AllocTypeOK
<1> USE DEF MaxInv, AllocTypeOK, Counting
<1>2. /\ call'[w].pc = "load" /\ call'[w].c = bytesAllocated'
      /\ \A v \in Worker \ {w} : call'[v] = call[v]
  BY DEF countAdd, AllocCall
<1>3. peak' >= peak /\ peak' >= bytesAllocated' /\ maxAllocated' = maxAllocated
  BY DEF countAdd
<1>4. peak' = peak \/ peak' = bytesAllocated'
  BY DEF countAdd
<1>5. maxAllocated' = peak' \/ \E v \in Worker : Counting(v)' /\ call'[v].c = peak'
  <2>1. CASE peak' = bytesAllocated'
    BY <2>1, <1>2
  <2>2. CASE peak' = peak
    BY <2>2, <1>2, <1>3
  <2> QED  BY <2>1, <2>2, <1>4
<1>6. \A v \in Worker : Counting(v)' => call'[v].c <= peak'
  <2> SUFFICES ASSUME NEW v \in Worker, Counting(v)'  PROVE call'[v].c <= peak'
    OBVIOUS
  <2>1. CASE v = w
    BY <2>1, <1>2, <1>3
  <2>2. CASE v # w
    BY <2>2, <1>1, <1>2, <1>3 DEF AllocCall
  <2> QED  BY <2>1, <2>2
<1>7. \A v \in Worker : call'[v].pc = "swap" => call'[v].max < call'[v].c
  BY <1>2
<1> QED  BY <1>1, <1>3, <1>5, <1>6, <1>7

\* Steps that count nothing and are taken outside of count.
LEMMA OutsideKeeps ==
    ASSUME MaxInv, NEW w \in Worker,
           NEW k \in AllocCall,
           ~Counting(w), k.pc \notin {"load", "swap"},
           call' = [call EXCEPT ![w] = k],
           UNCHANGED <<bytesAllocated, maxAllocated, peak>>,
           column' \in [Worker -> [len : Int, cap : Int]],
           block' \in [Worker -> Int]
    PROVE  MaxInv'
<1> USE DEF MaxInv, AllocTypeOK, Counting
<1>1. AllocTypeOK'
  BY Zenon
<1>2. call'[w] = k /\ \A v \in Worker \ {w} : call'[v] = call[v]
  OBVIOUS
<1> QED  BY <1>1, <1>2

\* Nothing is counted at first.
LEMMA MaxInvInit == AllocInit => MaxInv
BY NoCallTyped DEF AllocInit, MaxInv, AllocTypeOK, NoCall, Counting

\* Every step keeps the peak in the maximum or in the hands of a worker.
LEMMA MaxInvNext == MaxInv /\ [AllocNext]_allocVars => MaxInv'
<1> SUFFICES ASSUME MaxInv, [AllocNext]_allocVars  PROVE MaxInv'
  OBVIOUS
<1>n. /\ Chunk \subseteq Int
      /\ NoCall \in AllocCall
  BY AllocatorAssumption, NoCallTyped
<1>t. AllocTypeOK
  BY DEF MaxInv
<1>0. CASE UNCHANGED allocVars
  BY <1>0 DEF MaxInv, AllocTypeOK, Counting, allocVars
<1>1. ASSUME NEW w \in Worker, countLoad(w)  PROVE MaxInv'
  <2>1. AllocTypeOK'
    <3> DEFINE p == IF call[w].c > maxAllocated THEN "swap" ELSE "counted"
               k == [call[w] EXCEPT !.max = maxAllocated, !.pc = p]
    <3>1. call[w] \in AllocCall /\ maxAllocated \in Int /\ p \in {"load", "swap", "counted"}
      BY DEF MaxInv, AllocTypeOK
    <3>2. k \in AllocCall
      <4> HIDE DEF p
      <4> QED  BY <3>1, CallMoved, Zenon
    <3>3. call' = [call EXCEPT ![w] = k]
      BY <1>1, Zenon DEF countLoad
    <3>4. call' \in [Worker -> AllocCall]
      <4> HIDE DEF k
      <4> QED  BY <3>2, <3>3 DEF MaxInv, AllocTypeOK
    <3> QED  BY <1>1, <3>4 DEF countLoad, MaxInv, AllocTypeOK
  <2>2. /\ call'[w].c = call[w].c /\ call'[w].max = maxAllocated
        /\ call'[w].pc = IF call[w].c > maxAllocated THEN "swap" ELSE "counted"
        /\ \A v \in Worker \ {w} : call'[v] = call[v]
        /\ call[w].pc = "load"
    BY <1>1 DEF countLoad, MaxInv, AllocTypeOK
  <2>3. UNCHANGED <<maxAllocated, peak>>
    BY <1>1 DEF countLoad
  <2>4. maxAllocated' = peak' \/ \E v \in Worker : Counting(v)' /\ call'[v].c = peak'
    <3>1. CASE maxAllocated = peak
      BY <3>1, <2>3
    <3>2. CASE maxAllocated # peak
      <4>1. PICK v \in Worker : Counting(v) /\ call[v].c = peak
        BY <3>2 DEF MaxInv
      <4>2. CASE v = w
        BY <4>1, <4>2, <3>2, <2>2, <2>3 DEF MaxInv, AllocTypeOK, AllocCall, Counting
      <4>3. CASE v # w
        BY <4>1, <4>3, <2>2, <2>3 DEF Counting
      <4> QED  BY <4>2, <4>3
    <3> QED  BY <3>1, <3>2
  <2> QED  BY <2>1, <2>2, <2>3, <2>4, Zenon DEF MaxInv, AllocTypeOK, Counting
<1>2. ASSUME NEW w \in Worker, countSwap(w)  PROVE MaxInv'
  <2>1. AllocTypeOK'
    <3> DEFINE k(p) == [call[w] EXCEPT !.pc = p]
    <3>1. call[w] \in AllocCall /\ call[w].c \in Int
      BY DEF MaxInv, AllocTypeOK, AllocCall
    <3>2. PICK p \in {"load", "counted"} : call' = [call EXCEPT ![w] = k(p)]
      BY <1>2 DEF countSwap
    <3>3. k(p) \in AllocCall
      BY <3>1, CallMoved, Zenon
    <3>4. call' \in [Worker -> AllocCall]
      <4> HIDE DEF k
      <4> QED  BY <3>2, <3>3 DEF MaxInv, AllocTypeOK
    <3>5. maxAllocated' \in Int /\ UNCHANGED <<bytesAllocated, column, block, peak>>
      BY <1>2, <3>1 DEF countSwap, MaxInv, AllocTypeOK
    <3> QED  BY <3>4, <3>5 DEF MaxInv, AllocTypeOK
  <2>2. /\ call'[w].c = call[w].c /\ call'[w].max = call[w].max
        /\ \A v \in Worker \ {w} : call'[v] = call[v]
        /\ call[w].pc = "swap" /\ call[w].max < call[w].c /\ call[w].c <= peak
        /\ peak' = peak
    BY <1>2 DEF countSwap, MaxInv, AllocTypeOK, AllocCall, Counting
  <2>3. CASE maxAllocated = call[w].max
    <3>1. call'[w].pc = "counted" /\ maxAllocated' = call[w].c
      BY <1>2, <2>3 DEF countSwap, MaxInv, AllocTypeOK, AllocCall
    <3>2. PICK v \in Worker : Counting(v) /\ call[v].c = peak
      BY <2>2, <2>3 DEF MaxInv, AllocTypeOK, AllocCall
    <3>3. maxAllocated' = peak' \/ \E u \in Worker : Counting(u)' /\ call'[u].c = peak'
      BY <2>2, <3>1, <3>2 DEF Counting
    <3> QED  BY <2>1, <2>2, <3>1, <3>3, Zenon DEF MaxInv, AllocTypeOK, Counting
  <2>4. CASE maxAllocated # call[w].max
    <3>1. call'[w].pc = "load" /\ maxAllocated' = maxAllocated
      BY <1>2, <2>4 DEF countSwap, MaxInv, AllocTypeOK, AllocCall
    <3> QED  BY <2>1, <2>2, <3>1, Zenon DEF MaxInv, AllocTypeOK, Counting
  <2> QED  BY <2>3, <2>4
<1>3. ASSUME NEW w \in Worker, NEW n \in Chunk, AppendFits(w, n)  PROVE MaxInv'
  <2>1. column' \in [Worker -> [len : Int, cap : Int]]
    BY <1>3, <1>n DEF AppendFits, MaxInv, AllocTypeOK
  <2> QED  BY <1>3, <2>1 DEF AppendFits, MaxInv, AllocTypeOK, Counting
<1>4. ASSUME NEW w \in Worker, NEW n \in Chunk, AppendGrows(w, n)  PROVE MaxInv'
  <2> DEFINE diff == grown(column[w], n) - column[w].cap
             k == [NoCall EXCEPT !.op = "append", !.n = diff, !.len = column[w].len + n]
  <2>1. diff \in Int
    BY <1>n DEF grown, MaxInv, AllocTypeOK
  <2>2. column[w].len + n \in Int
    BY <1>n, <1>t DEF AllocTypeOK
  <2>3. k \in AllocCall
    <3> HIDE DEF diff
    <3> QED  BY <2>1, <2>2, NoCallTyped, Zenon, CallTyped, Zenon
  <2>4. countAdd(w, diff, k) /\ ~Counting(w) /\ UNCHANGED <<column, block>>
    BY <1>4 DEF AppendGrows, Counting
  <2> HIDE DEF diff, k
  <2> QED  BY <2>1, <2>3, <2>4, CountAddKeeps DEF MaxInv, AllocTypeOK
<1>5. ASSUME NEW w \in Worker, CopyColumn(w)  PROVE MaxInv'
  <2> DEFINE l == column[w].len
             k == [NoCall EXCEPT !.op = "copy", !.n = l, !.len = l]
  <2>1. l \in Int
    BY <1>t DEF AllocTypeOK
  <2>2. k \in AllocCall
    BY <2>1, NoCallTyped, CallTyped, Zenon
  <2>3. countAdd(w, l, k) /\ ~Counting(w) /\ UNCHANGED <<column, block>>
    BY <1>5 DEF CopyColumn, Counting
  <2> HIDE DEF l, k
  <2> QED  BY <2>1, <2>2, <2>3, CountAddKeeps DEF MaxInv, AllocTypeOK
<1>6. ASSUME NEW w \in Worker, NEW v \in Worker, ClearBlock(w, v)  PROVE MaxInv'
  <2> DEFINE k == [NoCall EXCEPT !.op = "free"]
  <2>1. -block[v] \in Int /\ block' \in [Worker -> Int]
    BY <1>6 DEF ClearBlock, MaxInv, AllocTypeOK
  <2>2. k \in AllocCall
    BY NoCallTyped, CallMarked, Zenon
  <2>3. countAdd(w, -block[v], k) /\ ~Counting(w) /\ UNCHANGED column
    BY <1>6 DEF ClearBlock, Counting
  <2> HIDE DEF k
  <2> QED  BY <2>1, <2>2, <2>3, CountAddKeeps DEF MaxInv, AllocTypeOK
<1>7. ASSUME NEW w \in Worker, Grant(w)  PROVE MaxInv'
  <2>1. /\ column' \in [Worker -> [len : Int, cap : Int]]
        /\ block' \in [Worker -> Int]
    BY <1>7 DEF Grant, MaxInv, AllocTypeOK, AllocCall
  <2>2. /\ ~Counting(w) /\ call' = [call EXCEPT ![w] = NoCall]
        /\ UNCHANGED <<bytesAllocated, maxAllocated, peak>>
    BY <1>7 DEF Grant, Counting
  <2>3. NoCall.pc \notin {"load", "swap"}
    BY DEF NoCall
  <2> QED  BY <2>1, <2>2, <2>3, <1>n, OutsideKeeps, Zenon
<1>8. ASSUME NEW w \in Worker, GiveBack(w)  PROVE MaxInv'
  <2> DEFINE k == [call[w] EXCEPT !.op = "refused"]
  <2>1. -call[w].n \in Int
    BY DEF MaxInv, AllocTypeOK, AllocCall
  <2>2. k \in AllocCall
    BY <1>t, CallMarked, Zenon DEF AllocTypeOK
  <2>3. countAdd(w, -call[w].n, k) /\ ~Counting(w) /\ UNCHANGED <<column, block>>
    BY <1>8 DEF GiveBack, Counting
  <2> HIDE DEF k
  <2> QED  BY <2>1, <2>2, <2>3, CountAddKeeps DEF MaxInv, AllocTypeOK
<1>9. ASSUME NEW w \in Worker, Panic(w)  PROVE MaxInv'
  <2> DEFINE k == [call[w] EXCEPT !.pc = "panicked"]
  <2>1. k \in AllocCall
    BY <1>t, CallMarked, Zenon DEF AllocTypeOK
  <2>2. /\ ~Counting(w) /\ call' = [call EXCEPT ![w] = k] /\ k.pc \notin {"load", "swap"}
        /\ UNCHANGED <<bytesAllocated, maxAllocated, peak, column, block>>
    BY <1>9 DEF Panic, Counting, MaxInv, AllocTypeOK
  <2> HIDE DEF k
  <2> QED  BY <2>1, <2>2, <1>t, OutsideKeeps, Zenon DEF AllocTypeOK
<1> QED
  BY <1>0, <1>1, <1>2, <1>3, <1>4, <1>5, <1>6, <1>7, <1>8, <1>9 DEF AllocNext

(* Max reports the largest amount that count ever saw, whenever no worker   *)
(* is inside count: for any number of workers and any sequence of calls.    *)
THEOREM MaxIsReached == AllocSpec => []MaxReached
<1>1. MaxInv => MaxReached
  BY DEF MaxInv, MaxReached
<1> QED
  BY <1>1, MaxInvInit, MaxInvNext, PTL DEF AllocSpec

-----------------------------------------------------------------------------
(* The limit.                                                              *)

\* Between the count and the grant or the refusal of an amount.
Asking(w) == call[w].pc \in {"load", "swap", "counted"} /\ call[w].op \in {"append", "copy"}

\* What each worker has and has counted, and what it has and will be granted.
Charged(w) == column[w].cap + block[w] + IF Asking(w) THEN call[w].n ELSE 0
Assured(w) == column[w].cap + block[w] + IF Asking(w) /\ call[w].c <= Limit THEN call[w].n ELSE 0
Charges == [w \in Worker |-> Charged(w)]
Assurances == [w \in Worker |-> Assured(w)]

\* bytesAllocated is what the workers have and have counted; the amounts among these
\* that will be granted fit.
LimitInv ==
    /\ \A w \in Worker : column[w].cap >= 0 /\ block[w] >= 0 /\ call[w].n >= 0
    /\ \A w \in Worker : Asking(w) /\ call[w].op = "copy" => block[w] = 0
    /\ bytesAllocated = SumOver(Charges, Worker)
    /\ SumOver(Assurances, Worker) <= Limit

\* The charges are natural numbers, and no assurance exceeds its charge.
LEMMA Amounts ==
    ASSUME AllocTypeOK, LimitInv
    PROVE  /\ \A w \in Worker : /\ Charges[w] = Charged(w) /\ Assurances[w] = Assured(w)
                                /\ Charged(w) \in Int /\ Assured(w) \in Int
                                /\ Assured(w) <= Charged(w)
           /\ SumOver(Charges, Worker) \in Int /\ SumOver(Assurances, Worker) \in Int
<1>1. \A w \in Worker : Charges[w] = Charged(w) /\ Assurances[w] = Assured(w)
  BY DEF Charges, Assurances
<1>2. ASSUME NEW w \in Worker
      PROVE  Charged(w) \in Int /\ Assured(w) \in Int /\ Assured(w) <= Charged(w)
  <2>1. /\ column[w].cap \in Int /\ block[w] \in Int /\ call[w].n \in Int /\ call[w].n >= 0
    BY DEF AllocTypeOK, AllocCall, LimitInv
  <2>2. QED
    BY <2>1 DEF Charged, Assured
<1>3. QED
  BY <1>1, <1>2, AllocatorAssumption, SumInt

\* One worker's amounts change.
LEMMA LimitChange ==
    ASSUME AllocTypeOK, AllocTypeOK', LimitInv, NEW x \in Worker,
           \A w \in Worker : column'[w].cap >= 0 /\ block'[w] >= 0 /\ call'[w].n >= 0,
           \A w \in Worker : (Asking(w) /\ call[w].op = "copy" => block[w] = 0)',
           \A w \in Worker \ {x} : Charged(w)' = Charged(w) /\ Assured(w)' = Assured(w),
           bytesAllocated' = bytesAllocated - Charged(x) + Charged(x)',
           Assured(x)' <= Assured(x) \/ bytesAllocated' <= Limit
    PROVE  LimitInv'
<1>1. ASSUME NEW w \in Worker
      PROVE  /\ Charged(w)' \in Int /\ Assured(w)' \in Int /\ Assured(w)' <= Charged(w)'
             /\ Charges'[w] = Charged(w)' /\ Assurances'[w] = Assured(w)'
  <2>1. /\ column'[w].cap \in Int /\ block'[w] \in Int /\ call'[w].n \in Int /\ call'[w].n >= 0
    BY DEF AllocTypeOK, AllocCall
  <2>2. Charged(w)' \in Int /\ Assured(w)' \in Int /\ Assured(w)' <= Charged(w)'
    BY <2>1 DEF Charged, Assured
  <2>3. QED
    BY <2>2 DEF Charges, Assurances
<1>2. SumOver(Charges', Worker) = SumOver(Charges, Worker) - Charged(x) + Charged(x)'
  <2>1. \A w \in Worker : Charges[w] \in Int /\ Charges'[w] \in Int
    BY <1>1, Amounts
  <2>2. \A w \in Worker \ {x} : Charges[w] = Charges'[w]
    BY <1>1, Amounts
  <2>3. SumOver(Charges', Worker) = SumOver(Charges, Worker) - Charges[x] + Charges'[x]
    BY <2>1, <2>2, SumChange, AllocatorAssumption
  <2>4. QED
    BY <1>1, <2>3, Amounts
<1>3. SumOver(Assurances', Worker) = SumOver(Assurances, Worker) - Assured(x) + Assured(x)'
  <2>1. \A w \in Worker : Assurances[w] \in Int /\ Assurances'[w] \in Int
    BY <1>1, Amounts
  <2>2. \A w \in Worker \ {x} : Assurances[w] = Assurances'[w]
    BY <1>1, Amounts
  <2>3. SumOver(Assurances', Worker) = SumOver(Assurances, Worker) - Assurances[x] + Assurances'[x]
    BY <2>1, <2>2, SumChange, AllocatorAssumption
  <2>4. QED
    BY <1>1, <2>3, Amounts
<1>4. bytesAllocated' = SumOver(Charges', Worker)
  BY <1>2 DEF LimitInv
<1>5. SumOver(Assurances', Worker) <= SumOver(Charges', Worker)
  BY <1>1, SumLeq, AllocatorAssumption
<1>6. SumOver(Charges', Worker) \in Int /\ SumOver(Assurances', Worker) \in Int
  BY <1>1, SumInt, AllocatorAssumption
<1>7. SumOver(Assurances', Worker) <= Limit
  <2>1. CASE Assured(x)' <= Assured(x)
    BY <1>1, <1>3, <2>1, Amounts, AllocatorAssumption DEF LimitInv
  <2>2. CASE bytesAllocated' <= Limit
    BY <1>4, <1>5, <1>6, <2>2, AllocatorAssumption
  <2>3. QED
    BY <2>1, <2>2
<1>8. QED
  BY <1>4, <1>7 DEF LimitInv

\* Steps that count nothing and leave every worker's amounts as they are.
LEMMA LimitSame ==
    ASSUME AllocTypeOK, AllocTypeOK', LimitInv, NEW x \in Worker,
           \A w \in Worker : column'[w].cap >= 0 /\ block'[w] >= 0 /\ call'[w].n >= 0,
           \A w \in Worker : (Asking(w) /\ call[w].op = "copy" => block[w] = 0)',
           \A w \in Worker : Charged(w)' = Charged(w) /\ Assured(w)' = Assured(w),
           UNCHANGED bytesAllocated
    PROVE  LimitInv'
<1>1. Charged(x) \in Int /\ Assured(x) \in Int /\ bytesAllocated \in Int
  BY Amounts DEF AllocTypeOK
<1>2. bytesAllocated' = bytesAllocated - Charged(x) + Charged(x)' /\ Assured(x)' <= Assured(x)
  BY <1>1
<1>3. QED
  BY <1>2, LimitChange

\* count: what the worker has counted is charged, and assured if it fits.
LEMMA LimitCount ==
    ASSUME AllocTypeOK, AllocTypeOK', LimitInv, NEW w \in Worker, NEW n \in Int, n >= 0,
           NEW k \in AllocCall, countAdd(w, n, k), UNCHANGED <<column, block>>,
           ~Asking(w), k.op \in {"append", "copy"}, k.n = n,
           k.op = "copy" => block[w] = 0
    PROVE  LimitInv'
<1>1. /\ call'[w].pc = "load" /\ call'[w].op = k.op /\ call'[w].n = n
      /\ call'[w].c = bytesAllocated' /\ bytesAllocated' = bytesAllocated + n
      /\ \A v \in Worker \ {w} : call'[v] = call[v]
  BY DEF countAdd, AllocTypeOK, AllocCall
<1>2. /\ column[w].cap \in Int /\ block[w] \in Int /\ bytesAllocated \in Int
  BY DEF AllocTypeOK
<1>3. Asking(w)' /\ \A v \in Worker \ {w} : Asking(v)' <=> Asking(v)
  BY <1>1 DEF Asking
<1>4. \A v \in Worker \ {w} : Charged(v)' = Charged(v) /\ Assured(v)' = Assured(v)
  BY <1>1, <1>3 DEF Charged, Assured
<1>5. Charged(w) = column[w].cap + block[w] /\ Charged(w)' = column[w].cap + block[w] + n
  BY <1>1, <1>2, <1>3 DEF Charged
<1>6. Assured(w)' <= Assured(w) \/ bytesAllocated' <= Limit
  BY <1>1, <1>2, <1>3, AllocatorAssumption DEF Assured
<1>7. bytesAllocated' = bytesAllocated - Charged(w) + Charged(w)'
  BY <1>1, <1>2, <1>5
<1>8. \A v \in Worker : column'[v].cap >= 0 /\ block'[v] >= 0 /\ call'[v].n >= 0
  BY <1>1 DEF LimitInv
<1>9. \A v \in Worker : (Asking(v) /\ call[v].op = "copy" => block[v] = 0)'
  BY <1>1, <1>3 DEF LimitInv
<1>10. QED
  BY <1>4, <1>6, <1>7, <1>8, <1>9, LimitChange

\* The records that AppendGrows and CopyColumn pass to count.
LEMMA CallFields ==
    ASSUME NEW x \in Int, NEW y \in Int
    PROVE  /\ [NoCall EXCEPT !.op = "append", !.n = x, !.len = y].op = "append"
           /\ [NoCall EXCEPT !.op = "append", !.n = x, !.len = y].n = x
           /\ [NoCall EXCEPT !.op = "copy", !.n = x, !.len = y].op = "copy"
           /\ [NoCall EXCEPT !.op = "copy", !.n = x, !.len = y].n = x
BY DEF NoCall

\* Every step keeps the account of the limit.
LEMMA LimitStep ==
    MaxInv /\ MaxInv' /\ LimitInv /\ [AllocNext]_allocVars => LimitInv'
<1> SUFFICES ASSUME MaxInv, MaxInv', LimitInv, [AllocNext]_allocVars PROVE LimitInv'
  OBVIOUS
<1>t. AllocTypeOK /\ AllocTypeOK'
  BY DEF MaxInv
<1>i. /\ \A w \in Worker : column[w].cap >= 0 /\ block[w] >= 0 /\ call[w].n >= 0
      /\ \A w \in Worker : Asking(w) /\ call[w].op = "copy" => block[w] = 0
  BY DEF LimitInv
<1>n. NoCall \in AllocCall /\ NoCall.n = 0 /\ NoCall.pc = "idle"
  BY NoCallTyped DEF NoCall
<1>0. CASE UNCHANGED allocVars
  <2>1. UNCHANGED <<bytesAllocated, column, block, call>>
    BY <1>0 DEF allocVars
  <2>2. UNCHANGED <<Charges, Assurances>> /\ \A w \in Worker : Asking(w)' <=> Asking(w)
    BY <2>1 DEF Charges, Assurances, Charged, Assured, Asking
  <2>3. QED
    BY <2>1, <2>2 DEF LimitInv
<1>1. ASSUME NEW w \in Worker, countLoad(w) \/ countSwap(w)  PROVE LimitInv'
  <2>1. UNCHANGED <<column, block, bytesAllocated>>
    BY <1>1 DEF countLoad, countSwap
  <2>2. /\ \A v \in Worker : UNCHANGED <<call[v].op, call[v].n, call[v].c>>
        /\ \A v \in Worker : call'[v].pc = call[v].pc
                             \/ {call[v].pc, call'[v].pc} \subseteq {"load", "swap", "counted"}
    <3>1. /\ call[w].pc \in {"load", "swap"} /\ call'[w].pc \in {"load", "swap", "counted"}
          /\ call'[w].op = call[w].op /\ call'[w].n = call[w].n /\ call'[w].c = call[w].c
          /\ \A v \in Worker \ {w} : call'[v] = call[v]
      <4>1. CASE countLoad(w)
        BY <4>1, <1>t DEF countLoad, AllocTypeOK, AllocCall
      <4>2. CASE countSwap(w)
        BY <4>2, <1>t DEF countSwap, AllocTypeOK, AllocCall
      <4>3. QED  BY <1>1, <4>1, <4>2
    <3>2. QED  BY <3>1
  <2>3. \A v \in Worker : Asking(v)' <=> Asking(v)
    BY <2>2 DEF Asking
  <2>4. \A v \in Worker : Charged(v)' = Charged(v) /\ Assured(v)' = Assured(v)
    BY <2>1, <2>2, <2>3 DEF Charged, Assured
  <2>5. QED
    BY <1>t, <1>i, <2>1, <2>2, <2>3, <2>4, LimitSame
<1>2. ASSUME NEW w \in Worker, NEW n \in Chunk, AppendFits(w, n)  PROVE LimitInv'
  <2>1. /\ UNCHANGED <<block, bytesAllocated, call>>
        /\ \A v \in Worker : column'[v].cap = column[v].cap
    BY <1>2, <1>t DEF AppendFits, AllocTypeOK
  <2>2. \A v \in Worker : Asking(v)' <=> Asking(v)
    BY <2>1 DEF Asking
  <2>3. \A v \in Worker : Charged(v)' = Charged(v) /\ Assured(v)' = Assured(v)
    BY <2>1, <2>2 DEF Charged, Assured
  <2>4. QED
    BY <1>t, <1>i, <2>1, <2>2, <2>3, LimitSame
<1>3. ASSUME NEW w \in Worker, NEW n \in Chunk, AppendGrows(w, n)  PROVE LimitInv'
  <2> DEFINE diff == grown(column[w], n) - column[w].cap
             k == [NoCall EXCEPT !.op = "append", !.n = diff, !.len = column[w].len + n]
  <2>1. column[w].len \in Int /\ column[w].cap \in Int /\ column[w].cap >= 0 /\ n \in Int
    BY <1>t, <1>i, AllocatorAssumption DEF AllocTypeOK
  <2>2. diff \in Int /\ diff >= 0 /\ column[w].len + n \in Int
    BY <2>1 DEF grown
  <2>3. countAdd(w, diff, k) /\ ~Asking(w) /\ UNCHANGED <<column, block>>
    BY <1>3 DEF AppendGrows, Asking
  <2>4. k \in AllocCall /\ k.op = "append" /\ k.n = diff
    <3> HIDE DEF diff
    <3>1. k \in AllocCall
      BY ZenonT(30), <1>n, <2>2, CallTyped
    <3>2. k.op = "append" /\ k.n = diff
      BY <2>2, CallFields
    <3>3. QED  BY <3>1, <3>2
  <2> HIDE DEF diff, k
  <2>5. QED
    BY <1>t, <2>2, <2>3, <2>4, LimitCount
<1>4. ASSUME NEW w \in Worker, CopyColumn(w)  PROVE LimitInv'
  <2> DEFINE l == column[w].len
             k == [NoCall EXCEPT !.op = "copy", !.n = l, !.len = l]
  <2>1. l \in Int
    BY <1>t DEF AllocTypeOK
  <2>2. countAdd(w, l, k) /\ ~Asking(w) /\ UNCHANGED <<column, block>> /\ block[w] = 0 /\ l > 0
    BY <1>4 DEF CopyColumn, Asking
  <2>3. k \in AllocCall /\ k.op = "copy" /\ k.n = l
    <3> HIDE DEF l
    <3>1. k \in AllocCall
      BY ZenonT(30), <1>n, <2>1, CallTyped
    <3>2. k.op = "copy" /\ k.n = l
      BY <2>1, CallFields
    <3>3. QED  BY <3>1, <3>2
  <2>4. l >= 0
    BY <2>1, <2>2
  <2> HIDE DEF l, k
  <2>5. QED
    BY <1>t, <2>1, <2>2, <2>3, <2>4, LimitCount
<1>5. ASSUME NEW w \in Worker, NEW v \in Worker, ClearBlock(w, v)  PROVE LimitInv'
  <2>1. /\ call[w].pc = "idle" /\ block[v] > 0 /\ UNCHANGED column
        /\ block' = [block EXCEPT ![v] = 0] /\ bytesAllocated' = bytesAllocated + (-block[v])
        /\ call'[w].op = "free" /\ call'[w].n = 0
        /\ \A u \in Worker \ {w} : call'[u] = call[u]
    BY <1>5, <1>t DEF ClearBlock, countAdd, AllocTypeOK, NoCall
  <2>2. /\ block'[v] = 0 /\ \A u \in Worker \ {v} : block'[u] = block[u]
        /\ column[v].cap \in Int /\ block[v] \in Int /\ call[v].n \in Int /\ bytesAllocated \in Int
    BY <2>1, <1>t DEF AllocTypeOK, AllocCall
  <2>3. \A u \in Worker : Asking(u)' <=> Asking(u)
    BY <2>1 DEF Asking
  <2>4. \A u \in Worker : Asking(u) => call'[u] = call[u]
    BY <2>1 DEF Asking
  <2>5. \A u \in Worker \ {v} : Charged(u)' = Charged(u) /\ Assured(u)' = Assured(u)
    BY <2>1, <2>2, <2>3, <2>4 DEF Charged, Assured
  <2>6. Charged(v)' = Charged(v) - block[v] /\ Assured(v)' = Assured(v) - block[v]
    BY <2>1, <2>2, <2>3, <2>4 DEF Charged, Assured
  <2>7. Charged(v) \in Int /\ Assured(v) \in Int
    BY <1>t, Amounts
  <2>8. bytesAllocated' = bytesAllocated - Charged(v) + Charged(v)' /\ Assured(v)' <= Assured(v)
    BY <2>1, <2>2, <2>6, <2>7
  <2>9. /\ \A u \in Worker : column'[u].cap >= 0 /\ block'[u] >= 0 /\ call'[u].n >= 0
        /\ \A u \in Worker : (Asking(u) /\ call[u].op = "copy" => block[u] = 0)'
    BY <1>i, <2>1, <2>2, <2>3, <2>4
  <2>10. QED
    BY <1>t, <2>5, <2>8, <2>9, LimitChange
<1>6. ASSUME NEW w \in Worker, Grant(w)  PROVE LimitInv'
  <2>1. /\ call[w].pc = "counted" /\ call' = [call EXCEPT ![w] = NoCall]
        /\ call[w].op \in {"append", "copy"} => call[w].c <= Limit
        /\ UNCHANGED bytesAllocated
    BY <1>6 DEF Grant
  <2>2. call'[w] = NoCall /\ \A v \in Worker \ {w} : call'[v] = call[v]
    BY <1>t, <2>1 DEF AllocTypeOK
  <2>3. /\ \A v \in Worker \ {w} : column'[v] = column[v] /\ block'[v] = block[v]
        /\ column'[w].cap = IF call[w].op = "append" THEN column[w].cap + call[w].n
                                                     ELSE column[w].cap
        /\ block'[w] = IF call[w].op = "copy" THEN call[w].n ELSE block[w]
    BY <1>6, <1>t DEF Grant, AllocTypeOK
  <2>4. /\ column[w].cap \in Int /\ block[w] \in Int /\ call[w].n \in Int
    BY <1>t DEF AllocTypeOK, AllocCall
  <2>5. ~Asking(w)' /\ \A v \in Worker \ {w} : Asking(v)' <=> Asking(v)
    BY <1>n, <2>2 DEF Asking
  <2>6. Asking(w) <=> call[w].op \in {"append", "copy"}
    BY <2>1 DEF Asking
  <2>7. \A v \in Worker \ {w} : Charged(v)' = Charged(v) /\ Assured(v)' = Assured(v)
    BY <2>2, <2>3, <2>5 DEF Charged, Assured
  <2>8. Charged(w)' = Charged(w) /\ Assured(w)' = Assured(w)
    BY <1>i, <2>1, <2>3, <2>4, <2>5, <2>6 DEF Charged, Assured
  <2>9. /\ \A u \in Worker : column'[u].cap >= 0 /\ block'[u] >= 0 /\ call'[u].n >= 0
        /\ \A u \in Worker : (Asking(u) /\ call[u].op = "copy" => block[u] = 0)'
    BY <1>i, <1>n, <2>2, <2>3, <2>4, <2>5
  <2>10. QED
    BY <1>t, <2>1, <2>7, <2>8, <2>9, LimitSame
<1>7. ASSUME NEW w \in Worker, GiveBack(w)  PROVE LimitInv'
  <2>1. /\ call[w].pc = "counted" /\ call[w].op \in {"append", "copy"}
        /\ bytesAllocated' = bytesAllocated + (-call[w].n) /\ UNCHANGED <<column, block>>
        /\ call'[w].op = "refused" /\ call'[w].n = call[w].n
        /\ \A v \in Worker \ {w} : call'[v] = call[v]
    BY <1>7, <1>t DEF GiveBack, countAdd, AllocTypeOK, AllocCall
  <2>2. /\ column[w].cap \in Int /\ block[w] \in Int /\ call[w].n \in Int /\ bytesAllocated \in Int
    BY <1>t DEF AllocTypeOK, AllocCall
  <2>3. Asking(w) /\ ~Asking(w)' /\ \A v \in Worker \ {w} : Asking(v)' <=> Asking(v)
    BY <2>1 DEF Asking
  <2>4. \A v \in Worker \ {w} : Charged(v)' = Charged(v) /\ Assured(v)' = Assured(v)
    BY <2>1, <2>3 DEF Charged, Assured
  <2>5. /\ Charged(w) = column[w].cap + block[w] + call[w].n
        /\ Charged(w)' = column[w].cap + block[w] /\ Assured(w)' = column[w].cap + block[w]
        /\ Assured(w)' <= Assured(w)
    BY <1>i, <2>1, <2>2, <2>3 DEF Charged, Assured
  <2>6. bytesAllocated' = bytesAllocated - Charged(w) + Charged(w)'
    BY <2>1, <2>2, <2>5
  <2>7. /\ \A u \in Worker : column'[u].cap >= 0 /\ block'[u] >= 0 /\ call'[u].n >= 0
        /\ \A u \in Worker : (Asking(u) /\ call[u].op = "copy" => block[u] = 0)'
    BY <1>i, <2>1, <2>3
  <2>8. QED
    BY <1>t, <2>4, <2>5, <2>6, <2>7, LimitChange
<1>8. ASSUME NEW w \in Worker, Panic(w)  PROVE LimitInv'
  <2>1. /\ UNCHANGED <<column, block, bytesAllocated>> /\ call[w].op = "refused"
        /\ \A v \in Worker : UNCHANGED <<call[v].op, call[v].n, call[v].c>>
        /\ \A v \in Worker \ {w} : call'[v] = call[v]
    BY <1>8, <1>t DEF Panic, AllocTypeOK, AllocCall
  <2>2. \A v \in Worker : Asking(v)' <=> Asking(v)
    BY <2>1 DEF Asking
  <2>3. \A v \in Worker : Charged(v)' = Charged(v) /\ Assured(v)' = Assured(v)
    BY <2>1, <2>2 DEF Charged, Assured
  <2>4. QED
    BY <1>t, <1>i, <2>1, <2>2, <2>3, LimitSame
<1>9. QED
  BY <1>0, <1>1, <1>2, <1>3, <1>4, <1>5, <1>6, <1>7, <1>8 DEF AllocNext

\* The workers have nothing at first.
LEMMA LimitInit == AllocInit => LimitInv
<1> SUFFICES ASSUME AllocInit PROVE LimitInv
  OBVIOUS
<1>1. /\ bytesAllocated = 0
      /\ \A w \in Worker : column[w].cap = 0 /\ block[w] = 0 /\ call[w].n = 0 /\ call[w].pc = "idle"
  BY DEF AllocInit, NoCall
<1>2. \A w \in Worker : ~Asking(w)
  BY <1>1 DEF Asking
<1>3. \A w \in Worker : Charges[w] = 0 /\ Assurances[w] = 0
  BY <1>1, <1>2 DEF Charges, Assurances, Charged, Assured
<1>4. SumOver(Charges, Worker) = 0 /\ SumOver(Assurances, Worker) = 0
  BY <1>3, SumZero, AllocatorAssumption
<1>5. QED
  BY <1>1, <1>2, <1>4, AllocatorAssumption DEF LimitInv

(* account never grants more than the limit of the query, however the       *)
(* calls of any number of workers interleave with each other and with Free. *)
THEOREM LimitIsKept == AllocSpec => []WithinLimit
<1>1. MaxInv /\ LimitInv => WithinLimit
  <2> SUFFICES ASSUME MaxInv, LimitInv PROVE WithinLimit
    OBVIOUS
  <2> DEFINE G == [w \in Worker |-> column[w].cap + block[w]]
  <2>t. AllocTypeOK
    BY DEF MaxInv
  <2>1. ASSUME NEW w \in Worker
        PROVE  G[w] \in Int /\ Assurances[w] \in Int /\ G[w] <= Assurances[w]
    <3>1. /\ column[w].cap \in Int /\ block[w] \in Int /\ call[w].n \in Int /\ call[w].n >= 0
      BY <2>t DEF AllocTypeOK, AllocCall, LimitInv
    <3>2. QED
      BY <3>1 DEF Assurances, Assured
  <2> HIDE DEF G
  <2>2. SumOver(G, Worker) <= SumOver(Assurances, Worker)
    BY <2>1, SumLeq, AllocatorAssumption
  <2>3. SumOver(G, Worker) \in Int /\ SumOver(Assurances, Worker) \in Int
    BY <2>1, SumInt, AllocatorAssumption
  <2>4. SumOver(G, Worker) <= Limit
    BY <2>2, <2>3, AllocatorAssumption DEF LimitInv
  <2>5. QED
    BY <2>4 DEF G, WithinLimit
<1>2. QED
  BY <1>1, MaxInvInit, MaxInvNext, LimitInit, LimitStep, PTL DEF AllocSpec
=============================================================================
