----------------------------- MODULE SpfProofs ------------------------------
(***************************************************************************)
(* Proofs about the route computations of internal/spf and about a fabric  *)
(* that uses them.                                                         *)
(*                                                                         *)
(* First ComputeSouthbound for every set of nodes and links with positive  *)
(* costs: DijkstraInv is inductive, and when the queue is empty it says    *)
(* that distances and next hops solve the equations of shortest paths.     *)
(* These have one solution: the lengths and first hops of all shortest     *)
(* paths, so that the routes are those that ShortestPaths promises         *)
(* (RoutesOfShortestPaths).  Every choice of the heap among equals is      *)
(* covered, and every order of the maps (AddAllBest).                      *)
(*                                                                         *)
(* Then a fabric of spines and leaves of any size: what its nodes compute  *)
(* from any LSDB in closed form (SpineComputes, LeafComputes), and from    *)
(* that the invariant of Fabric and what it says of the leaves whose links *)
(* have not changed.                                                       *)
(***************************************************************************)
EXTENDS Southbound, Fabric, TLAPS, FiniteSetTheorems, SequenceTheorems

-----------------------------------------------------------------------------
(* Induction: over the subsets of a finite set, and over the numbers *)

\* A set that has a subset of S whenever it has all the smaller ones has all.
LEMMA SetInduction ==
    ASSUME NEW S, IsFiniteSet(S), NEW G,
           \A T \in SUBSET S :
              (\A U \in SUBSET T : U # T => U \in G) => T \in G
    PROVE  \A T \in SUBSET S : T \in G
<1> SUFFICES ASSUME NEW T0 \in SUBSET S, T0 \notin G PROVE FALSE
  OBVIOUS
<1> DEFINE Bad == {T \in SUBSET S : T \notin G}
<1>1. IsWellFoundedOn(StrictSubsetOrdering(S), SUBSET S)
  <2>1. FiniteSubsetsOf(S) = SUBSET S
    BY FS_FiniteSubsetsOfFinite
  <2>2. IsWellFoundedOn(StrictSubsetOrdering(S), FiniteSubsetsOf(S))
    BY FS_StrictSubsetOrderingWellFounded
  <2> QED
    BY <2>1, <2>2
<1>2. PICK T \in Bad : \A U \in Bad : <<U, T>> \notin StrictSubsetOrdering(S)
  <2>1. Bad \subseteq SUBSET S /\ Bad # {}
    OBVIOUS
  <2> HIDE DEF Bad
  <2> QED
    BY <1>1, <2>1, WFMin
<1>3. \A U \in SUBSET T : U # T => U \in G
  BY <1>2 DEF StrictSubsetOrdering
<1> QED
  BY <1>2, <1>3

\* A set that has 0, and n + 1 whenever it has n, has all numbers.
LEMMA NumberInduction ==
    ASSUME NEW G, 0 \in G, \A n \in Nat : n \in G => n + 1 \in G
    PROVE  \A n \in Nat : n \in G
<1> SUFFICES ASSUME NEW k \in Nat, k \notin G PROVE FALSE
  OBVIOUS
<1> DEFINE H == {T \in SUBSET (0..k) : \A n \in 0..k : T = 0..n => n \in G}
           I == 0..k
<1>1. IsFiniteSet(I)
  BY FS_Interval
<1>2. ASSUME NEW T \in SUBSET (0..k), \A U \in SUBSET T : U # T => U \in H
      PROVE  T \in H
  <2> SUFFICES ASSUME NEW n \in 0..k, T = 0..n PROVE n \in G
    OBVIOUS
  <2>1. CASE n = 0
    BY <2>1
  <2>2. CASE n # 0
    <3>1. n - 1 \in 0..k /\ 0..(n - 1) \in SUBSET T /\ 0..(n-1) # T
      <4>1. n \in T /\ n \notin 0..(n-1)
        OBVIOUS
      <4> QED
        BY <4>1, <2>2
    <3>2. n - 1 \in G
      BY <3>1, <1>2
    <3> QED
      BY <3>1, <3>2
  <2> QED
    BY <2>1, <2>2
<1>3. \A T \in SUBSET I : T \in H
  <2>1. \A T \in SUBSET I : (\A U \in SUBSET T : U # T => U \in H) => T \in H
    <3> HIDE DEF H
    <3> QED
      BY <1>2
  <2> HIDE DEF H, I
  <2> QED
    BY <1>1, <2>1, SetInduction
<1>4. I \in H
  <2> HIDE DEF H, I
  <2> QED
    BY <1>3
<1> QED
  BY <1>4

\* A function can be iterated: what a definition by recursion over the numbers
\* relies on.
IsOn(T, A) == T \in [A -> A]
Iterates(f, A, a, T) ==
    f \in [Nat -> A] /\ f[0] = a /\ \A k \in Nat : f[k + 1] = T[f[k]]

\* The iteration of T from a exists.
LEMMA Iteration ==
    ASSUME NEW A, NEW a \in A, NEW T, IsOn(T, A)
    PROVE  \E f : Iterates(f, A, a, T)
<1> USE DEF IsOn
<1> DEFINE Upto(n, h) == /\ h \in [0..n -> A] /\ h[0] = a
                         /\ \A k \in 0..(n - 1) : h[k + 1] = T[h[k]]
           h0 == [i \in 0..0 |-> a]
           H(n) == CHOOSE h : Upto(n, h)
           f == [n \in Nat |-> H(n)[n]]
<1>1. \A n \in Nat : \E h : Upto(n, h)
  <2> DEFINE G == {n \in Nat : \E h : Upto(n, h)}
  <2>1. 0 \in G
    <3>1. h0 \in [0..0 -> A] /\ h0[0] = a
      OBVIOUS
    <3>2. Upto(0, h0)
      BY <3>1
    <3> QED
      BY <3>2
  <2>2. ASSUME NEW n \in Nat, n \in G PROVE n + 1 \in G
    <3>1. PICK h : Upto(n, h)
      BY <2>2
    <3> DEFINE e == [i \in 0..(n + 1) |-> IF i <= n THEN h[i] ELSE T[h[n]]]
    <3>2. \A i \in 0..n : h[i] \in A /\ T[h[i]] \in A
      BY <3>1
    <3>3. e \in [0..(n + 1) -> A] /\ e[0] = a
      BY <3>1, <3>2
    <3>4. \A k \in 0..((n + 1) - 1) : e[k + 1] = T[e[k]]
      <4> SUFFICES ASSUME NEW k \in 0..((n + 1) - 1) PROVE e[k + 1] = T[e[k]]
        OBVIOUS
      <4>1. k \in 0..n /\ k + 1 \in 0..(n + 1) /\ e[k] = h[k]
        OBVIOUS
      <4>2. CASE k = n
        BY <4>1, <4>2
      <4>3. CASE k < n
        BY <4>1, <4>3, <3>1
      <4> QED
        BY <4>1, <4>2, <4>3
    <3>5. Upto(n + 1, e)
      BY <3>3, <3>4
    <3> HIDE DEF Upto, e
    <3> QED
      BY <3>5
  <2> HIDE DEF G
  <2>3. \A n \in Nat : n \in G
    BY <2>1, <2>2, NumberInduction
  <2> HIDE DEF Upto
  <2> QED
    BY <2>3 DEF G
<1>2. \A n \in Nat : Upto(n, H(n))
  <2> HIDE DEF Upto
  <2> QED
    BY <1>1
<1>3. ASSUME NEW n \in Nat, NEW g, NEW h, Upto(n, g), Upto(n + 1, h)
      PROVE  g[n] = h[n]
  <2> DEFINE G == {i \in Nat : i <= n => g[i] = h[i]}
  <2>1. 0 \in G
    BY <1>3
  <2>2. ASSUME NEW i \in Nat, i \in G PROVE i + 1 \in G
    <3> SUFFICES ASSUME i + 1 <= n PROVE g[i + 1] = h[i + 1]
      OBVIOUS
    <3>1. g[i] = h[i] /\ i \in 0..(n - 1) /\ i \in 0..((n + 1) - 1)
      BY <2>2
    <3> QED
      BY <3>1, <1>3
  <2> HIDE DEF G
  <2>3. \A i \in Nat : i \in G
    BY <2>1, <2>2, NumberInduction
  <2> QED
    BY <2>3 DEF G
<1> HIDE DEF Upto, H
<1>4. \A n \in Nat : f[n] = H(n)[n]
  OBVIOUS
<1>5. f \in [Nat -> A]
  <2>1. \A n \in Nat : H(n)[n] \in A
    <3> SUFFICES ASSUME NEW n \in Nat PROVE H(n)[n] \in A
      OBVIOUS
    <3>1. Upto(n, H(n)) /\ n \in 0..n
      BY <1>2
    <3>2. H(n) \in [0..n -> A]
      BY <3>1 DEF Upto
    <3> QED
      BY <3>1, <3>2
  <2> QED
    BY <2>1
<1>6. f[0] = a
  <2>1. Upto(0, H(0)) /\ f[0] = H(0)[0]
    BY <1>2, <1>4
  <2> HIDE DEF f
  <2> QED
    BY <2>1 DEF Upto
<1>7. ASSUME NEW k \in Nat PROVE f[k + 1] = T[f[k]]
  <2>1. Upto(k, H(k)) /\ Upto(k + 1, H(k + 1))
    BY <1>2
  <2>2. f[k] = H(k)[k] /\ f[k + 1] = H(k + 1)[k + 1]
    BY <1>4
  <2> HIDE DEF f
  <2>3. H(k)[k] = H(k + 1)[k]
    BY <2>1, <1>3
  <2>4. H(k + 1)[k + 1] = T[H(k + 1)[k]]
    <3>1. k \in 0..((k + 1) - 1)
      OBVIOUS
    <3>2. \A i \in 0..((k + 1) - 1) : H(k + 1)[i + 1] = T[H(k + 1)[i]]
      BY <2>1 DEF Upto
    <3> QED
      BY <3>1, <3>2
  <2> QED
    BY <2>2, <2>3, <2>4
<1> HIDE DEF f
<1>8. Iterates(f, A, a, T)
  BY <1>5, <1>6, <1>7 DEF Iterates
<1> QED
  BY <1>8
-----------------------------------------------------------------------------
(* addRoute over a set of candidates *)

\* b is what the best of the candidates C have in common: no candidate has a
\* lower type, or the same type and a lower metric, and b has the next hops of
\* all those that are as good.
AsGood(r, b) == r.type = b.type /\ r.metric = b.metric
IsBest(b, C) ==
    /\ b \in Routes
    /\ \E r \in C : AsGood(r, b)
    /\ \A r \in C : b.type < r.type \/ (b.type = r.type /\ b.metric <= r.metric)
    /\ b.nextHops = UNION {r.nextHops : r \in {c \in C : AsGood(c, b)}}

\* There is only one such route.
LEMMA BestIsUnique ==
    ASSUME NEW C \in SUBSET Routes, NEW a, NEW b, IsBest(a, C), IsBest(b, C)
    PROVE  a = b
<1>1. a \in Routes /\ b \in Routes
  BY DEF IsBest
<1>2. a.type = b.type /\ a.metric = b.metric
  BY <1>1 DEF IsBest, AsGood, Routes
<1>3. a.nextHops = b.nextHops
  BY <1>2 DEF IsBest, AsGood
<1> QED
  BY <1>1, <1>2, <1>3 DEF Routes

\* Adding one more candidate keeps the entry the best of those added.
LEMMA AddOne ==
    ASSUME NEW C \in SUBSET Routes, NEW x \in C, NEW b,
           IF C \ {x} = {} THEN b = None ELSE IsBest(b, C \ {x})
    PROVE  IsBest(addRoute(b, x), C)
<1>1. CASE C \ {x} = {}
  <2>1. addRoute(b, x) = x /\ C = {x}
    BY <1>1 DEF addRoute
  <2>2. x.nextHops = UNION {r.nextHops : r \in {c \in C : AsGood(c, x)}}
    BY <2>1 DEF AsGood
  <2>3. x.metric <= x.metric
    BY DEF Routes
  <2> QED
    BY <2>1, <2>2, <2>3 DEF IsBest, AsGood
<1>2. CASE C \ {x} # {}
  <2> DEFINE D == C \ {x}
  <2>1. IsBest(b, D)
    BY <1>2
  <2>2. /\ x \in Routes /\ b \in Routes /\ b # None
        /\ x.type \in Nat /\ b.type \in Nat /\ x.metric \in Nat /\ b.metric \in Nat
    BY <2>1, NoneAssumption DEF IsBest, Routes
  <2>3. \A r \in D : r.type \in Nat /\ r.metric \in Nat
    BY DEF Routes
  <2>4. \A r \in D : b.type < r.type \/ (b.type = r.type /\ b.metric <= r.metric)
    BY <2>1 DEF IsBest
  <2>5. \E r \in D : AsGood(r, b)
    BY <2>1 DEF IsBest
  <2>6. b.nextHops = UNION {r.nextHops : r \in {c \in D : AsGood(c, b)}}
    BY <2>1 DEF IsBest
  <2>7. CASE x.type < b.type \/ (x.type = b.type /\ x.metric < b.metric)
    <3>1. addRoute(b, x) = x
      BY <2>7 DEF addRoute
    <3>2. \A r \in C : x.type < r.type \/ (x.type = r.type /\ x.metric <= r.metric)
      BY <2>2, <2>3, <2>4, <2>7
    <3>3. \A r \in D : ~AsGood(r, x)
      BY <2>2, <2>3, <2>4, <2>7 DEF AsGood
    <3>4. x.nextHops = UNION {r.nextHops : r \in {c \in C : AsGood(c, x)}}
      BY <3>3 DEF AsGood
    <3> QED
      BY <3>1, <3>2, <3>4, <2>2 DEF IsBest, AsGood
  <2>8. CASE x.type = b.type /\ x.metric = b.metric
    <3> DEFINE y == [b EXCEPT !.nextHops = @ \cup x.nextHops]
    <3>1. addRoute(b, x) = y
      BY <2>2, <2>8 DEF addRoute
    <3>2. y \in Routes /\ y.type = b.type /\ y.metric = b.metric
      BY <2>2 DEF Routes
    <3>3. y.nextHops = b.nextHops \cup x.nextHops
      BY <2>2 DEF Routes
    <3> HIDE DEF y
    <3>4. \A r \in C : y.type < r.type \/ (y.type = r.type /\ y.metric <= r.metric)
      BY <2>2, <2>3, <2>4, <2>8, <3>2
    <3>5. \E r \in C : AsGood(r, y)
      BY <2>8, <3>2 DEF AsGood
    <3>6. {c \in C : AsGood(c, y)} = {c \in D : AsGood(c, b)} \cup {x}
      BY <2>8, <3>2 DEF AsGood
    <3>7. y.nextHops = UNION {r.nextHops : r \in {c \in C : AsGood(c, y)}}
      BY <2>6, <3>3, <3>6
    <3> QED
      BY <3>1, <3>2, <3>4, <3>5, <3>7 DEF IsBest
  <2>9. CASE b.type < x.type \/ (b.type = x.type /\ b.metric < x.metric)
    <3>1. addRoute(b, x) = b
      BY <2>2, <2>9 DEF addRoute
    <3>2. \A r \in C : b.type < r.type \/ (b.type = r.type /\ b.metric <= r.metric)
      BY <2>2, <2>4, <2>9
    <3>3. ~AsGood(x, b)
      BY <2>2, <2>9 DEF AsGood
    <3>4. {c \in C : AsGood(c, b)} = {c \in D : AsGood(c, b)}
      BY <3>3
    <3> QED
      BY <3>1, <3>2, <3>4, <2>2, <2>5, <2>6 DEF IsBest
  <2> QED
    BY <2>2, <2>7, <2>8, <2>9
<1> QED
  BY <1>1, <1>2

\* Whatever order the candidates are taken in, the entry ends up as the best
\* of them.
THEOREM AddAllBest ==
    ASSUME NEW C \in SUBSET Routes, IsFiniteSet(C)
    PROVE  IF C = {} THEN addAll(None, C) = None ELSE IsBest(addAll(None, C), C)
<1> DEFINE Pick(s) == CHOOSE x \in s : TRUE
           Good(b, s) == IF s = {} THEN b = None ELSE IsBest(b, s)
           Is(g) == g = [s \in SUBSET C |->
                          IF s = {} THEN None
                          ELSE addRoute(g[s \ {Pick(s)}], Pick(s))]
           f == [s \in SUBSET C |-> CHOOSE b : Good(b, s)]
           g == CHOOSE h : Is(h)
<1>1. addAll(None, C) = g[C]
  BY DEF addAll, FoldSet, MapThenFoldSet
<1>2. ASSUME NEW s \in SUBSET C, s # {} PROVE Pick(s) \in s
  BY <1>2
<1>3. ASSUME NEW s \in SUBSET C, s # {}, NEW b, Good(b, s \ {Pick(s)})
      PROVE  Good(addRoute(b, Pick(s)), s)
  <2> DEFINE x == Pick(s)
  <2>1. x \in s /\ s \in SUBSET Routes
    BY <1>2, <1>3
  <2>2. IF s \ {x} = {} THEN b = None ELSE IsBest(b, s \ {x})
    BY <1>3
  <2> HIDE DEF x
  <2>3. IsBest(addRoute(b, x), s)
    BY <2>1, <2>2, AddOne
  <2> QED
    BY <1>3, <2>3 DEF x
<1> HIDE DEF Pick
<1>4. \A s \in SUBSET C : \E b : Good(b, s)
  <2> DEFINE G == {s \in SUBSET C : \E b : Good(b, s)}
  <2>1. ASSUME NEW T \in SUBSET C, \A U \in SUBSET T : U # T => U \in G
        PROVE  T \in G
    <3>1. CASE T = {}
      BY <3>1
    <3>2. CASE T # {}
      <4>1. T \ {Pick(T)} \in SUBSET T /\ T \ {Pick(T)} # T
        BY <3>2, <1>2
      <4>2. PICK b : Good(b, T \ {Pick(T)})
        BY <4>1, <2>1
      <4>3. Good(addRoute(b, Pick(T)), T)
        BY <4>2, <3>2, <1>3
      <4> HIDE DEF Good
      <4> QED
        BY <4>3
    <3> QED
      BY <3>1, <3>2
  <2>2. \A T \in SUBSET C : (\A U \in SUBSET T : U # T => U \in G) => T \in G
    <3> HIDE DEF G
    <3> QED
      BY <2>1
  <2>3. \A T \in SUBSET C : T \in G
    <3> HIDE DEF G
    <3> QED
      BY <2>2, SetInduction
  <2> HIDE DEF Good
  <2> QED
    BY <2>3
<1>5. ASSUME NEW s \in SUBSET C PROVE Good(f[s], s)
  <2> HIDE DEF Good
  <2> QED
    BY <1>4
<1>6. ASSUME NEW s \in SUBSET C, NEW a, NEW b, Good(a, s), Good(b, s) PROVE a = b
  <2>1. CASE s = {}
    BY <2>1, <1>6
  <2>2. CASE s # {}
    <3>1. s \in SUBSET Routes /\ IsBest(a, s) /\ IsBest(b, s)
      BY <2>2, <1>6
    <3> QED
      BY <3>1, BestIsUnique
  <2> QED
    BY <2>1, <2>2
<1>7. ASSUME NEW s \in SUBSET C
      PROVE  f[s] = IF s = {} THEN None ELSE addRoute(f[s \ {Pick(s)}], Pick(s))
  <2> HIDE DEF f
  <2>1. CASE s = {}
    BY <2>1, <1>5
  <2>2. CASE s # {}
    <3>1. Good(f[s \ {Pick(s)}], s \ {Pick(s)})
      BY <1>5
    <3>2. Good(addRoute(f[s \ {Pick(s)}], Pick(s)), s)
      BY <3>1, <2>2, <1>3
    <3>3. Good(f[s], s)
      BY <1>5
    <3> HIDE DEF Good
    <3> QED
      BY <3>2, <3>3, <1>6, <2>2
  <2> QED
    BY <2>1, <2>2
<1>8. Is(f)
  <2>1. f = [s \in SUBSET C |-> f[s]]
    BY DEF f
  <2> HIDE DEF f
  <2>2. [s \in SUBSET C |-> f[s]] =
          [s \in SUBSET C |-> IF s = {} THEN None
                              ELSE addRoute(f[s \ {Pick(s)}], Pick(s))]
    BY <1>7
  <2> QED
    BY <2>1, <2>2
<1>9. Is(g)
  <2> HIDE DEF Is, f
  <2> QED
    BY <1>8
<1>10. ASSUME NEW s \in SUBSET C
       PROVE  g[s] = IF s = {} THEN None ELSE addRoute(g[s \ {Pick(s)}], Pick(s))
  <2> HIDE DEF g
  <2> QED
    BY <1>9
<1> HIDE DEF g, Is, f
<1>11. \A s \in SUBSET C : Good(g[s], s)
  <2> DEFINE G == {s \in SUBSET C : Good(g[s], s)}
  <2>1. ASSUME NEW T \in SUBSET C, \A U \in SUBSET T : U # T => U \in G
        PROVE  T \in G
    <3>1. CASE T = {}
      BY <3>1, <1>10
    <3>2. CASE T # {}
      <4>1. T \ {Pick(T)} \in SUBSET T /\ T \ {Pick(T)} # T
        BY <3>2, <1>2
      <4>2. Good(g[T \ {Pick(T)}], T \ {Pick(T)})
        BY <4>1, <2>1
      <4>3. Good(addRoute(g[T \ {Pick(T)}], Pick(T)), T)
        BY <4>2, <3>2, <1>3
      <4>4. g[T] = addRoute(g[T \ {Pick(T)}], Pick(T))
        BY <3>2, <1>10
      <4> HIDE DEF Good
      <4> QED
        BY <4>3, <4>4
    <3> QED
      BY <3>1, <3>2
  <2>2. \A T \in SUBSET C : (\A U \in SUBSET T : U # T => U \in G) => T \in G
    <3> HIDE DEF G
    <3> QED
      BY <2>1
  <2>3. \A T \in SUBSET C : T \in G
    <3> HIDE DEF G
    <3> QED
      BY <2>2, SetInduction
  <2> HIDE DEF Good
  <2> QED
    BY <2>3
<1> QED
  BY <1>1, <1>11

\* The image of a finite set is finite.
LEMMA FiniteImage ==
    ASSUME NEW X, IsFiniteSet(X), NEW f
    PROVE  IsFiniteSet({f[x] : x \in X})
<1> DEFINE T == {f[x] : x \in X}
           h == [x \in X |-> f[x]]
<1>1. h \in Surjection(X, T)
  BY DEF Surjection
<1> HIDE DEF h, T
<1>2. IsFiniteSet(T)
  BY <1>1, FS_Surjection
<1> QED
  BY <1>2 DEF T

-----------------------------------------------------------------------------
(* ComputeSouthbound, step by step *)

\* What a turn needs of a queue item: its links are of this node and costly.
LEMMA LinkFacts ==
    ASSUME NEW s \in Snapshots, NEW d \in Locals, NEW item \in d.pq
    PROVE  /\ item.node \in Nodes /\ item.dist \in Nat
           /\ item = Item(item.node, item.dist)
           /\ \A v \in Usable(s, item.node) :
                /\ v \in Nodes
                /\ Cost(s, item.node, v) \in Nat \ {0}
                /\ NewDist(s, item, v) \in Nat
                /\ NewDist(s, item, v) > item.dist
           /\ Better(s, d, item) \cap Equal(s, d, item) = {}
<1>1. item.node \in Nodes /\ item.dist \in Nat /\ item = Item(item.node, item.dist)
  BY DEF Locals, Item
<1>2. \A v \in Usable(s, item.node) :
         v \in Nodes /\ Cost(s, item.node, v) \in Nat \ {0}
  BY <1>1, SnapshotsAssumption
<1>3. \A v \in Usable(s, item.node) :
         NewDist(s, item, v) \in Nat /\ NewDist(s, item, v) > item.dist
  BY <1>1, <1>2 DEF NewDist
<1>4. \A v \in Usable(s, item.node) : d.dist[v] \in Nat \cup {None}
  BY <1>2 DEF Locals
<1>5. Better(s, d, item) \cap Equal(s, d, item) = {}
  BY <1>3, <1>4, NoneAssumption DEF Better, Equal
<1> QED
  BY <1>1, <1>2, <1>3, <1>5

\* A turn that takes a stale item only shortens the queue.
LEMMA StaleVisit ==
    ASSUME NEW s, NEW d \in Locals, NEW item \in d.pq,
           item.dist > d.dist[item.node]
    PROVE  /\ Visit(s, d, item) \in Locals
           /\ Visit(s, d, item).dist = d.dist
           /\ Visit(s, d, item).nextHops = d.nextHops
           /\ Visit(s, d, item).pq = d.pq \ {item}
BY DEF Visit, Locals

\* Any other turn relaxes the links of the node.
LEMMA FreshVisit ==
    ASSUME NEW s \in Snapshots, NEW d \in Locals, NEW item \in d.pq,
           ~(item.dist > d.dist[item.node])
    PROVE  /\ Visit(s, d, item) \in Locals
           /\ Visit(s, d, item).pq = relaxQueue(s, d, item)
           /\ \A v \in Nodes : Visit(s, d, item).dist[v] =
                IF v \in Better(s, d, item) THEN NewDist(s, item, v) ELSE d.dist[v]
           /\ \A v \in Better(s, d, item) :
                Visit(s, d, item).nextHops[v] = HopsVia(s, d, item.node, v)
           /\ \A v \in Equal(s, d, item) : Visit(s, d, item).nextHops[v] =
                d.nextHops[v] \cup HopsVia(s, d, item.node, v)
           /\ \A v \in Nodes \ (Better(s, d, item) \cup Equal(s, d, item)) :
                Visit(s, d, item).nextHops[v] = d.nextHops[v]
<1> DEFINE B == Better(s, d, item)
           E == Equal(s, d, item)
<1>1. B \subseteq Nodes /\ E \subseteq Nodes /\ B \cap E = {}
  BY LinkFacts DEF Better, Equal
<1>2. \A v \in B : NewDist(s, item, v) \in Nat
  BY LinkFacts DEF Better
<1>3. \A v \in Nodes : HopsVia(s, d, item.node, v) \subseteq Nodes
  BY LinkFacts DEF HopsVia, Locals
<1>4. /\ Visit(s, d, item).dist = relaxDist(s, d, item)
      /\ Visit(s, d, item).nextHops = relaxHops(s, d, item)
      /\ Visit(s, d, item).pq = relaxQueue(s, d, item)
      /\ Visit(s, d, item) = [dist |-> relaxDist(s, d, item),
                              nextHops |-> relaxHops(s, d, item),
                              pq |-> relaxQueue(s, d, item)]
  BY DEF Visit
<1> HIDE DEF B, E
<1>5. /\ relaxDist(s, d, item) \in [Nodes -> Nat \cup {None}]
      /\ \A v \in Nodes : relaxDist(s, d, item)[v] =
           IF v \in B THEN NewDist(s, item, v) ELSE d.dist[v]
  BY <1>1, <1>2 DEF relaxDist, Locals, B
<1>6. /\ relaxHops(s, d, item) \in [Nodes -> SUBSET Nodes]
      /\ \A v \in B : relaxHops(s, d, item)[v] = HopsVia(s, d, item.node, v)
      /\ \A v \in E : relaxHops(s, d, item)[v] =
           d.nextHops[v] \cup HopsVia(s, d, item.node, v)
      /\ \A v \in Nodes \ (B \cup E) : relaxHops(s, d, item)[v] = d.nextHops[v]
  <2> DEFINE hop(v) == CASE v \in B -> HopsVia(s, d, item.node, v)
                         [] v \in E -> d.nextHops[v] \cup HopsVia(s, d, item.node, v)
                         [] OTHER -> d.nextHops[v]
  <2>1. relaxHops(s, d, item) = [v \in Nodes |-> hop(v)]
    BY DEF relaxHops, B, E
  <2>2. \A v \in B : hop(v) = HopsVia(s, d, item.node, v)
    BY <1>1
  <2>3. \A v \in E : hop(v) = d.nextHops[v] \cup HopsVia(s, d, item.node, v)
    BY <1>1
  <2>4. \A v \in Nodes \ (B \cup E) : hop(v) = d.nextHops[v]
    OBVIOUS
  <2> HIDE DEF hop
  <2>5. \A v \in Nodes : d.nextHops[v] \subseteq Nodes
    BY DEF Locals
  <2>6. \A v \in Nodes : hop(v) \subseteq Nodes
    BY <1>1, <1>3, <2>2, <2>3, <2>4, <2>5
  <2> QED
    BY <1>1, <2>1, <2>2, <2>3, <2>4, <2>6
<1>7. relaxQueue(s, d, item) \in SUBSET [node : Nodes, dist : Nat]
  BY <1>1, <1>2 DEF relaxQueue, Item, Locals, B
<1>8. Visit(s, d, item) \in Locals
  BY <1>4, <1>5, <1>6, <1>7 DEF Locals
<1> QED
  BY <1>4, <1>5, <1>6, <1>8 DEF B, E

-----------------------------------------------------------------------------
(* The induction *)

\* The inductive invariant: a snapshot of a real database, and what holds
\* between two pops of the main loop.
Inv == snap \in Snapshots /\ DijkstraInv

\* After seeding the queue with this node at distance 0 the invariant holds.
LEMMA InitInv == SpfInit => Inv
<1> SUFFICES ASSUME SpfInit PROVE Inv
  OBVIOUS
<1>1. snap \in Snapshots /\ snap.systemID \in Nodes
  BY SnapshotsAssumption DEF SpfInit
<1>2. /\ spf \in Locals
      /\ \A n \in Nodes : spf.dist[n] = IF n = snap.systemID THEN 0 ELSE None
      /\ spf.pq = {Item(snap.systemID, 0)}
  BY <1>1 DEF SpfInit, StartDijkstra, Locals, Item
<1>3. Reached = {snap.systemID} /\ Settled = {}
  BY <1>1, <1>2, NoneAssumption DEF Reached, Settled
<1>4. \A i \in spf.pq : i.node = snap.systemID /\ i.dist = 0
  BY <1>2 DEF Item
<1> QED
  BY <1>1, <1>2, <1>3, <1>4 DEF Inv, DijkstraInv, SpfTypeOK, SpfInit

\* Dropping a stale item changes nothing that the invariant speaks of.
LEMMA StaleInv ==
    ASSUME Inv, snap' = snap, rib' = rib, NEW item \in spf.pq,
           spf' = Visit(snap, spf, item), item.dist > spf.dist[item.node]
    PROVE  Inv'
<1>1. /\ spf' \in Locals /\ spf'.dist = spf.dist
      /\ spf'.nextHops = spf.nextHops /\ spf'.pq = spf.pq \ {item}
  BY StaleVisit DEF Inv, DijkstraInv, SpfTypeOK
<1>2. \A n \in Nodes : item # Item(n, spf.dist[n])
  BY LinkFacts DEF Inv, DijkstraInv, SpfTypeOK, Item
<1>3. Reached' = Reached
  BY <1>1 DEF Reached
<1>4. Settled' = Settled
  BY <1>1, <1>2, <1>3 DEF Settled, Reached
<1>5. \A u, v \in Nodes : /\ Tight(u, v)' <=> Tight(u, v)
                          /\ HopsVia(snap, spf, u, v)' = HopsVia(snap, spf, u, v)
  BY <1>1 DEF Tight, HopsVia
<1>6. SpfTypeOK'
  BY <1>1 DEF Inv, DijkstraInv, SpfTypeOK
<1>7. ASSUME NEW v \in Reached' \ {snap'.systemID}
      PROVE  LET before == {u \in Settled' : Tight(u, v)'}
             IN  /\ before # {}
                 /\ spf'.nextHops[v] = UNION {HopsVia(snap', spf', u, v) : u \in before}
  <2> DEFINE before == {u \in Settled : Tight(u, v)}
  <2>1. v \in Nodes /\ Settled \subseteq Nodes
    BY <1>3, <1>7 DEF Reached, Settled
  <2>2. {u \in Settled' : Tight(u, v)'} = before
    BY <1>4, <1>5, <2>1
  <2>3. before # {} /\ spf.nextHops[v] = UNION {HopsVia(snap, spf, u, v) : u \in before}
    BY <1>3, <1>7 DEF Inv, DijkstraInv
  <2>4. {HopsVia(snap', spf', u, v) : u \in before} = {HopsVia(snap, spf, u, v) : u \in before}
    BY <1>5, <2>1
  <2> QED
    BY <1>1, <2>2, <2>3, <2>4
<1>8. /\ spf'.dist[snap'.systemID] = 0
      /\ \A i \in spf'.pq : i.node \in Reached' /\ spf'.dist[i.node] <= i.dist
      /\ \A n \in Settled' : \A i \in spf'.pq : spf'.dist[n] <= i.dist
      /\ \A u \in Settled' : \A v \in Usable(snap', u) :
           v \in Reached' /\ spf'.dist[v] <= spf'.dist[u] + Cost(snap', u, v)
  BY <1>1, <1>3, <1>4 DEF Inv, DijkstraInv
<1> QED
  BY <1>6, <1>7, <1>8 DEF Inv, DijkstraInv

\* Visiting a node settles it and no other.  What is relaxed lies beyond every
\* settled node, so that the next hops handed on by those are final.
LEMMA FreshInv ==
    ASSUME Inv, snap' = snap, rib' = rib, NEW item \in Least(spf.pq),
           spf' = Visit(snap, spf, item), ~(item.dist > spf.dist[item.node])
    PROVE  Inv'
<1> DEFINE root == snap.systemID
           u == item.node
           B == Better(snap, spf, item)
           E == Equal(snap, spf, item)
           New(v) == NewDist(snap, item, v)
<1>1. /\ snap \in Snapshots /\ root \in Nodes /\ spf \in Locals
      /\ item \in spf.pq
      /\ \A j \in spf.pq : item.dist <= j.dist
      /\ spf.dist[root] = 0
  BY SnapshotsAssumption DEF Inv, DijkstraInv, SpfTypeOK, Least
<1>2. /\ u \in Nodes /\ item.dist \in Nat /\ item = Item(u, item.dist)
      /\ \A v \in Usable(snap, u) :
           /\ v \in Nodes /\ Cost(snap, u, v) \in Nat \ {0}
           /\ New(v) \in Nat /\ New(v) > item.dist
           /\ New(v) = item.dist + Cost(snap, u, v)
      /\ B \cap E = {}
  BY <1>1, LinkFacts DEF NewDist
<1>3. \A v \in Nodes : spf.dist[v] \in Nat \cup {None}
  BY <1>1 DEF Locals
<1>4. u \in Reached /\ spf.dist[u] = item.dist
  <2>1. u \in Reached /\ spf.dist[u] <= item.dist
    BY <1>1 DEF Inv, DijkstraInv
  <2>2. spf.dist[u] \in Nat
    BY <1>3, <2>1 DEF Reached
  <2> QED
    BY <1>2, <2>1, <2>2
<1>5. /\ Reached \subseteq Nodes /\ Settled \subseteq Reached
      /\ \A n \in Reached : spf.dist[n] \in Nat
      /\ \A n \in Nodes \ Reached : spf.dist[n] = None
  BY <1>3 DEF Reached, Settled
<1>6. u \notin Settled
  BY <1>1, <1>2, <1>4 DEF Settled
<1>7. \A n \in Settled \cup {u} : spf.dist[n] \in Nat /\ spf.dist[n] <= item.dist
  BY <1>1, <1>2, <1>4, <1>5 DEF Inv, DijkstraInv
<1>8. \A v \in B : /\ v \in Usable(snap, u) /\ v \in Nodes
                   /\ v \in Reached => New(v) < spf.dist[v]
  BY <1>2 DEF Better, Reached
<1>9. \A v \in E : v \in Usable(snap, u) /\ v \in Nodes /\ spf.dist[v] = New(v)
  BY <1>2 DEF Equal
<1>10. \A n \in Settled \cup {u, root} : n \notin B /\ n \notin E
  <2>1. \A n \in Settled \cup {u, root} :
           n \in Reached /\ spf.dist[n] \in Nat /\ spf.dist[n] <= item.dist
    BY <1>1, <1>2, <1>4, <1>5, <1>7, NoneAssumption DEF Reached
  <2> QED
    BY <1>2, <1>8, <1>9, <2>1
<1>11. /\ spf' \in Locals
       /\ spf'.pq = (spf.pq \ {item}) \cup {Item(v, New(v)) : v \in B}
       /\ \A v \in Nodes : spf'.dist[v] = IF v \in B THEN New(v) ELSE spf.dist[v]
       /\ \A v \in B : spf'.nextHops[v] = HopsVia(snap, spf, u, v)
       /\ \A v \in E : spf'.nextHops[v] = spf.nextHops[v] \cup HopsVia(snap, spf, u, v)
       /\ \A v \in Nodes \ (B \cup E) : spf'.nextHops[v] = spf.nextHops[v]
  BY <1>1, FreshVisit DEF relaxQueue
<1> HIDE DEF B, E, New
<1>12. Reached' = Reached \cup B
  BY <1>2, <1>5, <1>8, <1>11, NoneAssumption DEF Reached
<1>13. \A v \in Reached : spf'.dist[v] \in Nat /\ spf'.dist[v] <= spf.dist[v]
  BY <1>2, <1>5, <1>8, <1>11
<1>14. Settled' = Settled \cup {u}
  <2>1. \A v \in B : Item(v, spf'.dist[v]) \in spf'.pq
    BY <1>8, <1>11
  <2>2. \A n \in Reached \ B : Item(n, spf'.dist[n]) \in spf'.pq
                             <=> Item(n, spf.dist[n]) \in spf.pq /\ n # u
    <3> SUFFICES ASSUME NEW n \in Reached \ B
                 PROVE  Item(n, spf'.dist[n]) \in spf'.pq
                          <=> Item(n, spf.dist[n]) \in spf.pq /\ n # u
      OBVIOUS
    <3>1. spf'.dist[n] = spf.dist[n]
      BY <1>5, <1>11
    <3>2. \A v \in B : Item(v, New(v)) # Item(n, spf.dist[n])
      BY DEF Item
    <3>3. item = Item(n, spf.dist[n]) <=> n = u
      BY <1>2, <1>4 DEF Item
    <3> QED
      BY <1>11, <3>1, <3>2, <3>3
  <2>3. \A n \in Settled \cup {u} : n \in Reached \ B
    BY <1>4, <1>5, <1>10
  <2> QED
    BY <1>12, <2>1, <2>2, <2>3 DEF Settled
<1>15. \A n \in Settled' : spf'.dist[n] = spf.dist[n] /\ spf'.nextHops[n] = spf.nextHops[n]
  BY <1>2, <1>5, <1>10, <1>11, <1>14
<1>16. \A i \in spf'.pq : /\ i.node \in Reached' /\ spf'.dist[i.node] <= i.dist
                          /\ item.dist <= i.dist
  <2>1. ASSUME NEW i \in spf.pq
        PROVE  /\ i.node \in Reached' /\ spf'.dist[i.node] <= i.dist
               /\ item.dist <= i.dist
    <3>1. i.node \in Reached /\ spf.dist[i.node] <= i.dist /\ i.dist \in Nat
      BY <1>1 DEF Inv, DijkstraInv, Locals
    <3> QED
      BY <1>1, <1>5, <1>12, <1>13, <3>1
  <2>2. ASSUME NEW v \in B
        PROVE  /\ Item(v, New(v)).node \in Reached'
               /\ spf'.dist[Item(v, New(v)).node] <= Item(v, New(v)).dist
               /\ item.dist <= Item(v, New(v)).dist
    BY <1>2, <1>8, <1>11, <1>12 DEF Item
  <2> QED
    BY <1>11, <2>1, <2>2
<1>17. \A n \in Settled' : \A i \in spf'.pq : spf'.dist[n] <= i.dist
  <2>1. \A i \in spf'.pq : i.dist \in Nat
    BY <1>11 DEF Locals
  <2> QED
    BY <1>2, <1>7, <1>14, <1>15, <1>16, <2>1
<1>18. \A n \in Settled' : \A v \in Usable(snap, n) :
          v \in Reached' /\ spf'.dist[v] <= spf'.dist[n] + Cost(snap, n, v)
  <2>1. ASSUME NEW n \in Settled, NEW v \in Usable(snap, n)
        PROVE  v \in Reached' /\ spf'.dist[v] <= spf'.dist[n] + Cost(snap, n, v)
    <3>1. v \in Reached /\ spf.dist[v] <= spf.dist[n] + Cost(snap, n, v)
      BY DEF Inv, DijkstraInv
    <3>2. Cost(snap, n, v) \in Nat
      BY <1>1, <1>5, SnapshotsAssumption
    <3> QED
      BY <1>5, <1>7, <1>12, <1>13, <1>14, <1>15, <3>1, <3>2
  <2>2. ASSUME NEW v \in Usable(snap, u)
        PROVE  v \in Reached' /\ spf'.dist[v] <= spf'.dist[u] + Cost(snap, u, v)
    <3>1. CASE v \in B
      BY <1>2, <1>4, <1>11, <1>12, <1>14, <1>15, <3>1
    <3>2. CASE v \notin B
      <4>1. v \in Reached /\ ~(New(v) < spf.dist[v])
        BY <1>2, <3>2 DEF B, Better, Reached, New
      <4> QED
        BY <1>2, <1>4, <1>5, <1>11, <1>12, <1>14, <1>15, <3>2, <4>1
    <3> QED
      BY <3>1, <3>2
  <2> QED
    BY <1>14, <2>1, <2>2
<1>19. ASSUME NEW v \in Reached' \ {root}
       PROVE  LET before == {n \in Settled' : Tight(n, v)'}
              IN  /\ before # {}
                  /\ spf'.nextHops[v] = UNION {HopsVia(snap, spf', n, v) : n \in before}
  <2> DEFINE old == {n \in Settled : Tight(n, v)}
             new == {n \in Settled' : Tight(n, v)'}
             via(n) == HopsVia(snap, spf, n, v)
  <2>1. v \in Nodes
    BY <1>5, <1>8, <1>12
  <2>2. \A n \in Settled' : HopsVia(snap, spf', n, v) = via(n)
    BY <1>15 DEF HopsVia
  <2>3. \A n \in Settled' : Tight(n, v)' <=>
           v \in Usable(snap, n) /\ spf'.dist[v] = spf.dist[n] + Cost(snap, n, v)
    BY <1>15 DEF Tight
  <2>4. CASE v \in B
    <3>1. \A n \in Settled : ~Tight(n, v)'
      <4> SUFFICES ASSUME NEW n \in Settled, v \in Usable(snap, n),
                          New(v) = spf.dist[n] + Cost(snap, n, v)
                   PROVE  FALSE
        BY <1>11, <1>14, <2>1, <2>3, <2>4
      <4>1. v \in Reached /\ spf.dist[v] <= spf.dist[n] + Cost(snap, n, v)
        BY DEF Inv, DijkstraInv
      <4> QED
        BY <1>2, <1>5, <1>8, <2>4, <4>1
    <3>2. Tight(u, v)'
      BY <1>2, <1>4, <1>8, <1>11, <1>14, <2>1, <2>3, <2>4
    <3>3. new = {u}
      BY <1>14, <3>1, <3>2
    <3> QED
      BY <1>11, <1>14, <2>2, <2>4, <3>3
  <2>5. CASE v \notin B
    <3>1. v \in Reached /\ spf'.dist[v] = spf.dist[v]
      BY <1>11, <1>12, <2>1, <2>5
    <3>2. old # {} /\ spf.nextHops[v] = UNION {via(n) : n \in old}
      BY <3>1, <1>19 DEF Inv, DijkstraInv
    <3>3. \A n \in Settled : Tight(n, v)' <=> Tight(n, v)
      BY <1>14, <2>3, <3>1 DEF Tight
    <3>4. Tight(u, v)' <=> v \in E
      BY <1>2, <1>4, <1>14, <2>3, <3>1 DEF E, Equal, New
    <3>5. CASE v \in E
      <4>1. new = old \cup {u}
        BY <1>14, <3>3, <3>4, <3>5
      <4>2. {HopsVia(snap, spf', n, v) : n \in new} = {via(n) : n \in old} \cup {via(u)}
        BY <1>14, <2>2, <4>1
      <4>3. spf'.nextHops[v] = spf.nextHops[v] \cup via(u)
        BY <1>11, <3>5
      <4> QED
        BY <3>2, <4>1, <4>2, <4>3
    <3>6. CASE v \notin E
      <4>1. new = old
        BY <1>14, <3>3, <3>4, <3>6
      <4>2. {HopsVia(snap, spf', n, v) : n \in new} = {via(n) : n \in old}
        BY <1>14, <2>2, <4>1
      <4>3. spf'.nextHops[v] = spf.nextHops[v]
        BY <1>11, <2>1, <2>5, <3>6
      <4> QED
        BY <3>2, <4>1, <4>2, <4>3
    <3> QED
      BY <3>5, <3>6
  <2> QED
    BY <2>4, <2>5
<1>20. SpfTypeOK'
  BY <1>1, <1>11 DEF Inv, DijkstraInv, SpfTypeOK
<1>21. spf'.dist[root] = 0
  BY <1>1, <1>10, <1>11
<1> QED
  BY <1>16, <1>17, <1>18, <1>19, <1>20, <1>21, <1>1 DEF Inv, DijkstraInv

\* Popping a least entry and relaxing its edges keeps the invariant.
LEMMA StepInv == Inv /\ [SpfNext]_spfVars => Inv'
<1> SUFFICES ASSUME Inv, [SpfNext]_spfVars PROVE Inv'
  OBVIOUS
<1>1. CASE Pop
  <2>1. PICK item \in Least(spf.pq) : spf' = Visit(snap, spf, item)
    BY <1>1 DEF Pop
  <2>2. item \in spf.pq /\ snap' = snap /\ rib' = rib
    BY <1>1 DEF Pop, Least
  <2> QED
    BY <2>1, <2>2, StaleInv, FreshInv
<1>2. CASE snap' = snap /\ spf' = spf /\ (rib' # None => spf.pq = {})
  BY <1>2 DEF Inv, DijkstraInv, SpfTypeOK, Reached, Settled, Tight
<1>3. CASE Attach
  BY <1>2, <1>3 DEF Attach
<1>4. CASE UNCHANGED spfVars
  BY <1>2, <1>4 DEF spfVars, Inv, DijkstraInv, SpfTypeOK
<1> QED
  BY <1>1, <1>3, <1>4 DEF SpfNext

\* DijkstraInv holds all through the loop of ComputeSouthbound, whichever of
\* several equally near items heap.Pop returns.
THEOREM DijkstraInvariance == SpfSpec => []DijkstraInv
<1>1. Inv => DijkstraInv
  BY DEF Inv
<1> QED
  BY InitInv, StepInv, <1>1, PTL DEF SpfSpec

\* The distances and next hops that ComputeSouthbound attaches prefixes with
\* solve the equations of shortest paths, for every graph.
THEOREM EquationsSolved == SpfSpec => []SolvesEquations
<1>1. Inv => SolvesEquations
  <2> SUFFICES ASSUME Inv, spf.pq = {} PROVE SolvesEquations
    BY DEF SolvesEquations
  <2>1. Settled = Reached
    BY DEF Settled
  <2> QED
    BY <2>1 DEF Inv, DijkstraInv, SolvesEquations
<1> QED
  BY InitInv, StepInv, <1>1, PTL DEF SpfSpec

-----------------------------------------------------------------------------
(* The order in which Go iterates over its maps *)

RouteSet == [metric : Int, type : Int, nextHops : SUBSET Nodes]

\* Two candidates for a prefix may be added in either order: what a RIB says
\* depends on the TIEs and not on the order of the maps and of the LSDB.
THEOREM AddRouteCommutes ==
    ASSUME NEW x \in RouteSet \cup {None}, NEW q \in RouteSet, NEW r \in RouteSet,
           None \notin RouteSet
    PROVE  addRoute(addRoute(x, q), r) = addRoute(addRoute(x, r), q)
<1> DEFINE Over(a, b) == b.type < a.type \/ (b.type = a.type /\ b.metric < a.metric)
           Same(a, b) == b.type = a.type /\ b.metric = a.metric
           Is(e, f, hops) == e.type = f.type /\ e.metric = f.metric /\ e.nextHops = hops
           Sum(a, b, e) == /\ e \in RouteSet
                           /\ Over(a, b) => Is(e, b, b.nextHops)
                           /\ Same(a, b) => Is(e, a, a.nextHops \cup b.nextHops)
                           /\ ~Over(a, b) /\ ~Same(a, b) => Is(e, a, a.nextHops)
<1>1. \A a, b \in RouteSet : Sum(a, b, addRoute(a, b))
  BY DEF addRoute, RouteSet
<1>2. \A b \in RouteSet : addRoute(None, b) = b
  BY DEF addRoute
<1>3. \A a, b \in RouteSet : Is(a, b, b.nextHops) => a = b
  BY DEF RouteSet
<1>4. \A a \in RouteSet : a.type \in Int /\ a.metric \in Int
  BY DEF RouteSet
<1>5. ASSUME x = None PROVE addRoute(q, r) = addRoute(r, q)
  <2> DEFINE e == addRoute(q, r)
             f == addRoute(r, q)
  <2>1. Sum(q, r, e) /\ Sum(r, q, f)
    BY <1>1
  <2> HIDE DEF e, f
  <2>2. e.type = f.type /\ e.metric = f.metric
    BY <1>4, <2>1
  <2>3. ASSUME NEW h PROVE h \in e.nextHops <=> h \in f.nextHops
    BY <1>4, <2>1
  <2>4. Is(e, f, f.nextHops)
    BY <2>2, <2>3
  <2> QED
    BY <1>3, <2>1, <2>4 DEF e, f
<1>6. CASE x \in RouteSet
  <2> DEFINE xq == addRoute(x, q)
             xr == addRoute(x, r)
             e == addRoute(xq, r)
             f == addRoute(xr, q)
  <2>1. Sum(x, q, xq) /\ Sum(x, r, xr)
    BY <1>1, <1>6
  <2>2. Sum(xq, r, e) /\ Sum(xr, q, f)
    BY <1>1, <2>1
  <2> HIDE DEF xq, xr, e, f
  <2>3. e.type = f.type /\ e.metric = f.metric
    BY <1>4, <1>6, <2>1, <2>2
  <2>4. ASSUME NEW h PROVE h \in e.nextHops <=> h \in f.nextHops
    BY <1>4, <1>6, <2>1, <2>2
  <2>5. e.nextHops = f.nextHops
    BY <2>4
  <2> QED
    BY <1>3, <2>2, <2>3, <2>5 DEF xq, xr, e, f
<1> QED
  BY <1>2, <1>5, <1>6

-----------------------------------------------------------------------------
(* The equations of shortest paths have one solution: that of all paths *)

\* u is the last node before v on a shortest way to v.
Before(W, d, u, v) == d[u] # None /\ W[u][v] # None /\ d[v] = d[u] + W[u][v]

\* Distances d and next hops H from node r over links W solve the equations.
IsSolution(r, W, d, H) ==
    /\ r \in Nodes
    /\ \A u, v \in Nodes : W[u][v] # None => W[u][v] \in Nat \ {0}
    /\ \A v \in Nodes : d[v] # None => d[v] \in Nat
    /\ d[r] = 0
    /\ \A u, v \in Nodes : d[u] # None /\ W[u][v] # None =>
         d[v] # None /\ d[v] <= d[u] + W[u][v]
    /\ \A v \in Nodes \ {r} : d[v] # None =>
         /\ \E u \in Nodes : Before(W, d, u, v)
         /\ \A h : h \in H[v] <=>
              \E u \in Nodes : Before(W, d, u, v) /\ (IF u = r THEN h = v ELSE h \in H[u])

\* D are the costs up to each of the first k nodes of path p.
AreCosts(W, k, p, D) ==
    D = [i \in 1..k |-> IF i = 1 THEN 0 ELSE D[i - 1] + W[p[i - 1]][p[i]]]

\* There are such costs.
LEMMA CostsExist ==
    ASSUME NEW W, NEW p, NEW k \in Nat
    PROVE  \E D : AreCosts(W, k, p, D)
<1> DEFINE G == {n \in Nat : \E D : AreCosts(W, n, p, D)}
<1>1. 0 \in G
  <2> DEFINE D == [i \in 1..0 |-> 0]
  <2>1. AreCosts(W, 0, p, D)
    BY DEF AreCosts
  <2> QED
    BY <2>1
<1>2. ASSUME NEW n \in Nat, n \in G PROVE n + 1 \in G
  <2>1. PICK D : AreCosts(W, n, p, D)
    BY <1>2
  <2> DEFINE w(i) == W[p[i - 1]][p[i]]
             E == [i \in 1..(n + 1) |-> IF i <= n THEN D[i]
                                        ELSE IF n = 0 THEN 0 ELSE D[n] + w(n + 1)]
  <2>2. \A i \in 1..n : D[i] = IF i = 1 THEN 0 ELSE D[i - 1] + w(i)
    BY <2>1 DEF AreCosts
  <2>3. \A i \in 1..(n + 1) : E[i] = IF i = 1 THEN 0 ELSE E[i - 1] + w(i)
    <3> SUFFICES ASSUME NEW i \in 1..(n + 1)
                 PROVE  E[i] = IF i = 1 THEN 0 ELSE E[i - 1] + w(i)
      OBVIOUS
    <3> HIDE DEF w
    <3>1. CASE i = 1
      BY <3>1, <2>2
    <3>2. CASE i # 1 /\ i <= n
      <4>1. i - 1 \in 1..n /\ i \in 1..n
        BY <3>2
      <4> QED
        BY <3>2, <4>1, <2>2
    <3>3. CASE i # 1 /\ i = n + 1
      <4>1. i - 1 = n /\ n \in 1..n /\ n # 0
        BY <3>3
      <4> QED
        BY <3>3, <4>1
    <3> QED
      BY <3>1, <3>2, <3>3
  <2>4. E = [i \in 1..(n + 1) |-> E[i]]
    OBVIOUS
  <2> HIDE DEF E
  <2>5. AreCosts(W, n + 1, p, E)
    BY <2>3, <2>4 DEF AreCosts
  <2> QED
    BY <2>5
<1>3. \A n \in Nat : n \in G
  <2> HIDE DEF G
  <2> QED
    BY <1>1, <1>2, NumberInduction
<1> QED
  BY <1>3

\* Whatever satisfies the recursive definition of the costs is equal to them.
LEMMA CostsAreUnique ==
    ASSUME NEW W, NEW p, NEW k \in Nat, NEW D, NEW E,
           AreCosts(W, k, p, D), AreCosts(W, k, p, E)
    PROVE  D = E
<1> DEFINE G == {n \in Nat : n \in 1..k => D[n] = E[n]}
           w(i) == W[p[i - 1]][p[i]]
<1>1. \A i \in 1..k : /\ D[i] = IF i = 1 THEN 0 ELSE D[i - 1] + w(i)
                      /\ E[i] = IF i = 1 THEN 0 ELSE E[i - 1] + w(i)
  BY DEF AreCosts
<1>2. D = [i \in 1..k |-> D[i]] /\ E = [i \in 1..k |-> E[i]]
  BY DEF AreCosts
<1> HIDE DEF w
<1>3. 0 \in G
  OBVIOUS
<1>4. ASSUME NEW n \in Nat, n \in G PROVE n + 1 \in G
  <2>1. CASE n = 0
    BY <1>1, <2>1
  <2>2. CASE n # 0 /\ n + 1 \in 1..k
    <3>1. n \in 1..k /\ (n + 1) - 1 = n /\ n + 1 # 1
      BY <2>2
    <3> QED
      BY <1>1, <1>4, <2>2, <3>1
  <2>3. CASE n + 1 \notin 1..k
    BY <2>3
  <2> QED
    BY <2>1, <2>2, <2>3
<1>5. \A n \in Nat : n \in G
  <2> HIDE DEF G
  <2> QED
    BY <1>3, <1>4, NumberInduction
<1>6. \A i \in 1..k : D[i] = E[i]
  BY <1>5
<1> QED
  BY <1>2, <1>6

\* Costs is what its recursive definition says.
LEMMA CostsOfPath ==
    ASSUME NEW W, NEW p, Len(p) \in Nat
    PROVE  AreCosts(W, Len(p), p, Abstract!Costs(W, p))
<1>1. \E D : AreCosts(W, Len(p), p, D)
  BY CostsExist
<1>2. Abstract!Costs(W, p) = CHOOSE D : AreCosts(W, Len(p), p, D)
  BY DEF Abstract!Costs, AreCosts
<1> QED
  BY <1>1, <1>2

\* A sequence of k nodes has length k.
LEMMA LengthIs ==
    ASSUME NEW k \in Nat, NEW p \in [1..k -> Nodes]
    PROVE  Len(p) = k
<1>1. p \in Seq(Nodes)
  BY SeqDef
<1>2. Len(p) \in Nat /\ DOMAIN p = 1..Len(p)
  BY <1>1, LenProperties
<1>3. 1..Len(p) = 1..k
  BY <1>2
<1> QED
  BY <1>2, <1>3

\* No path is shorter than the distance of its end.
LEMMA NoPathIsShorter ==
    ASSUME NEW r, NEW W, NEW d, NEW H, IsSolution(r, W, d, H),
           NEW k \in Nat, NEW p, \A i \in 1..k : p[i] \in Nodes, p[1] = r,
           \A i \in 1..(k - 1) : W[p[i]][p[i + 1]] # None,
           NEW D, AreCosts(W, k, p, D)
    PROVE  \A i \in 1..k : D[i] \in Nat /\ d[p[i]] # None /\ d[p[i]] <= D[i]
<1> DEFINE Good(i) == D[i] \in Nat /\ d[p[i]] # None /\ d[p[i]] <= D[i]
           G == {n \in Nat : n + 1 \in 1..k => Good(n + 1)}
<1>1. \A i \in 1..k : D[i] = IF i = 1 THEN 0 ELSE D[i - 1] + W[p[i - 1]][p[i]]
  BY DEF AreCosts
<1>2. 0 \in G
  <2> SUFFICES ASSUME 1 \in 1..k PROVE Good(1)
    OBVIOUS
  <2>1. D[1] = 0
    BY <1>1
  <2>2. d[p[1]] = 0 /\ 0 # None
    BY NoneAssumption DEF IsSolution
  <2> QED
    BY <2>1, <2>2
<1>3. ASSUME NEW n \in Nat, n \in G PROVE n + 1 \in G
  <2> SUFFICES ASSUME (n + 1) + 1 \in 1..k PROVE Good((n + 1) + 1)
    OBVIOUS
  <2> DEFINE i == n + 1
  <2>1. i \in 1..k /\ i + 1 \in 1..k /\ i \in 1..(k - 1) /\ i + 1 # 1 /\ (i + 1) - 1 = i
    OBVIOUS
  <2>2. Good(i)
    BY <1>3, <2>1
  <2> HIDE DEF i
  <2>3. D[i + 1] = D[i] + W[p[i]][p[i + 1]]
    BY <1>1, <2>1
  <2>4. p[i] \in Nodes /\ p[i + 1] \in Nodes /\ W[p[i]][p[i + 1]] # None
    BY <2>1
  <2>5. /\ W[p[i]][p[i + 1]] \in Nat /\ d[p[i]] \in Nat
        /\ d[p[i + 1]] # None /\ d[p[i + 1]] \in Nat
        /\ d[p[i + 1]] <= d[p[i]] + W[p[i]][p[i + 1]]
    BY <2>2, <2>4 DEF IsSolution
  <2>6. Good(i + 1)
    BY <2>2, <2>3, <2>5
  <2> QED
    BY <2>6 DEF i
<1>4. \A n \in Nat : n \in G
  <2> HIDE DEF G
  <2> QED
    BY <1>2, <1>3, NumberInduction
<1>5. ASSUME NEW i \in 1..k PROVE Good(i)
  <2>1. i - 1 \in Nat /\ (i - 1) + 1 = i
    OBVIOUS
  <2>2. i - 1 \in G
    BY <1>4, <2>1
  <2> HIDE DEF Good
  <2> QED
    BY <2>1, <2>2
<1> QED
  BY <1>5

\* The first hop of a shortest path is a next hop of its end.
LEMMA FirstHopIsNextHop ==
    ASSUME NEW r, NEW W, NEW d, NEW H, IsSolution(r, W, d, H),
           NEW k \in Nat, NEW p, \A i \in 1..k : p[i] \in Nodes, p[1] = r,
           \A i \in 1..(k - 1) : W[p[i]][p[i + 1]] # None,
           \A i \in 2..k : p[i] # r,
           NEW D, AreCosts(W, k, p, D)
    PROVE  \A i \in 2..k : D[i] = d[p[i]] => p[2] \in H[p[i]]
<1> DEFINE Good(i) == D[i] = d[p[i]] => p[2] \in H[p[i]]
           G == {n \in Nat : n + 2 \in 2..k => Good(n + 2)}
<1>1. \A i \in 1..k : D[i] = IF i = 1 THEN 0 ELSE D[i - 1] + W[p[i - 1]][p[i]]
  BY DEF AreCosts
<1>2. \A i \in 1..k : D[i] \in Nat /\ d[p[i]] # None /\ d[p[i]] <= D[i]
  BY NoPathIsShorter
<1>3. ASSUME NEW i \in 1..(k - 1), D[i + 1] = d[p[i + 1]]
      PROVE  D[i] = d[p[i]] /\ Before(W, d, p[i], p[i + 1])
  <2>1. i \in 1..k /\ i + 1 \in 1..k /\ i + 1 # 1 /\ (i + 1) - 1 = i
    OBVIOUS
  <2>2. D[i + 1] = D[i] + W[p[i]][p[i + 1]]
    BY <1>1, <2>1
  <2>3. p[i] \in Nodes /\ p[i + 1] \in Nodes /\ W[p[i]][p[i + 1]] # None
    BY <2>1
  <2>4. D[i] \in Nat /\ d[p[i]] # None /\ d[p[i]] <= D[i]
    BY <1>2, <2>1
  <2>5. /\ W[p[i]][p[i + 1]] \in Nat /\ d[p[i]] \in Nat /\ d[p[i + 1]] \in Nat
        /\ d[p[i + 1]] <= d[p[i]] + W[p[i]][p[i + 1]]
    BY <2>3, <2>4 DEF IsSolution
  <2> QED
    BY <1>3, <2>2, <2>3, <2>4, <2>5 DEF Before
<1>4. ASSUME NEW i \in 1..(k - 1), D[i + 1] = d[p[i + 1]],
             IF i = 1 THEN p[2] = p[i + 1] ELSE p[2] \in H[p[i]]
      PROVE  p[2] \in H[p[i + 1]]
  <2>1. i \in 1..k /\ i + 1 \in 2..k /\ i + 1 \in 1..k
    OBVIOUS
  <2>2. p[i + 1] \in Nodes \ {r} /\ p[i] \in Nodes /\ (p[i] = r <=> i = 1)
    BY <2>1
  <2>3. d[p[i + 1]] # None /\ Before(W, d, p[i], p[i + 1])
    BY <1>2, <1>3, <1>4, <2>1
  <2>4. \A h : h \in H[p[i + 1]] <=>
          \E u \in Nodes : /\ Before(W, d, u, p[i + 1])
                           /\ IF u = r THEN h = p[i + 1] ELSE h \in H[u]
    BY <2>2, <2>3 DEF IsSolution
  <2> QED
    BY <1>4, <2>2, <2>3, <2>4
<1>5. 0 \in G
  <2> SUFFICES ASSUME 2 \in 2..k, D[2] = d[p[2]] PROVE p[2] \in H[p[2]]
    OBVIOUS
  <2>1. 1 \in 1..(k - 1) /\ 1 + 1 = 2
    OBVIOUS
  <2> QED
    BY <1>4, <2>1
<1>6. ASSUME NEW n \in Nat, n \in G PROVE n + 1 \in G
  <2> SUFFICES ASSUME (n + 1) + 2 \in 2..k, D[(n + 1) + 2] = d[p[(n + 1) + 2]]
               PROVE  p[2] \in H[p[(n + 1) + 2]]
    OBVIOUS
  <2> DEFINE i == n + 2
  <2>1. i \in 1..(k - 1) /\ i \in 2..k /\ i # 1 /\ (n + 1) + 2 = i + 1
    OBVIOUS
  <2>2. Good(i)
    BY <1>6, <2>1
  <2> HIDE DEF i
  <2>3. D[i] = d[p[i]]
    BY <1>3, <2>1
  <2>4. p[2] \in H[p[i + 1]]
    BY <1>4, <2>1, <2>2, <2>3
  <2> QED
    BY <2>1, <2>4
<1>7. \A n \in Nat : n \in G
  <2> HIDE DEF G
  <2> QED
    BY <1>5, <1>6, NumberInduction
<1>8. ASSUME NEW i \in 2..k PROVE Good(i)
  <2>1. i - 2 \in Nat /\ (i - 2) + 2 = i
    OBVIOUS
  <2>2. i - 2 \in G
    BY <1>7, <2>1
  <2> HIDE DEF Good
  <2> QED
    BY <2>1, <2>2
<1> QED
  BY <1>8

\* A shortest path to v over k nodes, with the costs D up to each.
IsTrip(r, W, d, k, p, D, v) ==
    /\ k \in Nat \ {0} /\ p \in [1..k -> Nodes] /\ p[1] = r /\ p[k] = v
    /\ \A i \in 1..(k - 1) : W[p[i]][p[i + 1]] # None
    /\ \A i, j \in 1..k : p[i] = p[j] => i = j
    /\ AreCosts(W, k, p, D) /\ D[k] = d[v]
    /\ \A i \in 1..k : d[p[i]] # None /\ d[p[i]] <= d[v]

\* The path of the root alone is one.
LEMMA TripToRoot ==
    ASSUME NEW r, NEW W, NEW d, NEW H, IsSolution(r, W, d, H)
    PROVE  \E p, D : IsTrip(r, W, d, 1, p, D, r)
<1> DEFINE p == [i \in 1..1 |-> r]
           D == [i \in 1..1 |-> 0]
<1>1. /\ p \in [1..1 -> Nodes] /\ p[1] = r /\ D[1] = 0 /\ \A i, j \in 1..1 : i = j
      /\ \A i \in 1..(1 - 1) : FALSE
  BY DEF IsSolution
<1>2. AreCosts(W, 1, p, D)
  BY DEF AreCosts
<1>3. \A i \in 1..1 : p[i] = r
  OBVIOUS
<1>4. d[r] = 0 /\ 0 # None /\ d[r] <= d[r]
  BY NoneAssumption DEF IsSolution
<1> HIDE DEF p, D
<1>5. IsTrip(r, W, d, 1, p, D, r)
  BY <1>1, <1>2, <1>3, <1>4 DEF IsTrip
<1> QED
  BY <1>5

\* A path goes on to a node that is one link farther.
LEMMA LongerTrip ==
    ASSUME NEW r, NEW W, NEW d, NEW H, IsSolution(r, W, d, H),
           NEW u \in Nodes, NEW v \in Nodes, Before(W, d, u, v), d[v] # None,
           NEW k, NEW p, NEW D, IsTrip(r, W, d, k, p, D, u)
    PROVE  \E q, E : /\ IsTrip(r, W, d, k + 1, q, E, v)
                     /\ \A i \in 1..k : q[i] = p[i]
                     /\ q[k + 1] = v
<1> DEFINE n == k + 1
           q == [i \in 1..n |-> IF i <= k THEN p[i] ELSE v]
           E == [i \in 1..n |-> IF i <= k THEN D[i] ELSE d[v]]
<1>1. /\ k \in Nat \ {0} /\ p \in [1..k -> Nodes] /\ p[1] = r /\ p[k] = u
      /\ \A i \in 1..(k - 1) : W[p[i]][p[i + 1]] # None
      /\ \A i, j \in 1..k : p[i] = p[j] => i = j
      /\ AreCosts(W, k, p, D) /\ D[k] = d[u]
      /\ \A i \in 1..k : d[p[i]] # None /\ d[p[i]] <= d[u]
  BY DEF IsTrip
<1>2. /\ W[u][v] \in Nat \ {0} /\ d[u] \in Nat /\ d[v] \in Nat /\ d[v] = d[u] + W[u][v]
      /\ W[u][v] # None
      /\ \A i \in 1..k : d[p[i]] \in Nat /\ d[p[i]] < d[v]
  <2>1. /\ W[u][v] \in Nat \ {0} /\ d[u] \in Nat /\ d[v] \in Nat
        /\ d[v] = d[u] + W[u][v] /\ W[u][v] # None
    BY DEF Before, IsSolution
  <2>2. \A i \in 1..k : p[i] \in Nodes /\ d[p[i]] # None /\ d[p[i]] <= d[u]
    BY <1>1
  <2>3. \A i \in 1..k : d[p[i]] \in Nat
    BY <2>2 DEF IsSolution
  <2> QED
    BY <2>1, <2>2, <2>3
<1>3. \A i \in 1..k : i \in 1..n /\ i <= k
  BY <1>1
<1>4. /\ n \in Nat \ {0} /\ n \in 1..n /\ ~(n <= k) /\ n - 1 = k /\ n # 1 /\ k \in 1..k
      /\ 1 \in 1..k /\ \A i \in 1..n : i \in 1..k \/ i = n
  BY <1>1
<1>5. /\ q \in [1..n -> Nodes] /\ q[n] = v /\ E[n] = d[v]
      /\ \A i \in 1..k : q[i] = p[i] /\ E[i] = D[i]
  BY <1>1, <1>3, <1>4
<1>6. E = [i \in 1..n |-> E[i]]
  OBVIOUS
<1> HIDE DEF n, q, E
<1>7. \A i \in 1..(n - 1) : W[q[i]][q[i + 1]] # None
  <2> SUFFICES ASSUME NEW i \in 1..k PROVE W[q[i]][q[i + 1]] # None
    BY <1>4
  <2>1. CASE i = k
    BY <1>1, <1>2, <1>4, <1>5, <2>1 DEF n
  <2>2. CASE i # k
    <3>1. i \in 1..(k - 1) /\ i + 1 \in 1..k
      BY <1>1, <2>2
    <3> QED
      BY <1>1, <1>5, <3>1
  <2> QED
    BY <2>1, <2>2
<1>8. \A i \in 1..k : p[i] # v
  BY <1>2
<1>9. \A i, j \in 1..n : q[i] = q[j] => i = j
  BY <1>1, <1>4, <1>5, <1>8
<1>10. AreCosts(W, n, q, E)
  <2> SUFFICES ASSUME NEW i \in 1..n
               PROVE  E[i] = IF i = 1 THEN 0 ELSE E[i - 1] + W[q[i - 1]][q[i]]
    BY <1>6 DEF AreCosts
  <2>1. CASE i = n
    BY <1>1, <1>2, <1>4, <1>5, <2>1
  <2>2. CASE i \in 1..k
    <3>1. D[i] = IF i = 1 THEN 0 ELSE D[i - 1] + W[p[i - 1]][p[i]]
      BY <1>1, <2>2 DEF AreCosts
    <3>2. i # 1 => i - 1 \in 1..k
      BY <1>1, <2>2
    <3> QED
      BY <1>5, <2>2, <3>1, <3>2
  <2> QED
    BY <1>4, <2>1, <2>2
<1>11. \A i \in 1..n : d[q[i]] # None /\ d[q[i]] <= d[v]
  BY <1>1, <1>2, <1>4, <1>5
<1>12. q[1] = r
  BY <1>1, <1>4, <1>5
<1>13. IsTrip(r, W, d, n, q, E, v)
  BY <1>4, <1>5, <1>7, <1>9, <1>10, <1>11, <1>12 DEF IsTrip
<1> QED
  BY <1>5, <1>13 DEF n

\* Every next hop of a node is the first hop of a shortest path to it, and a
\* node that is reached has one.
LEMMA NextHopIsFirstHop ==
    ASSUME NEW r, NEW W, NEW d, NEW H, IsSolution(r, W, d, H)
    PROVE  \A v \in Nodes \ {r} : d[v] # None =>
             /\ H[v] # {}
             /\ \A h \in H[v] : \E k, p, D : /\ IsTrip(r, W, d, k, p, D, v)
                                             /\ k >= 2 /\ p[2] = h
<1> DEFINE Good(v) == /\ H[v] # {}
                      /\ \A h \in H[v] : \E k, p, D : /\ IsTrip(r, W, d, k, p, D, v)
                                                      /\ k >= 2 /\ p[2] = h
           G == {n \in Nat : \A v \in Nodes \ {r} : d[v] # None /\ d[v] <= n => Good(v)}
<1>1. ASSUME NEW v \in Nodes \ {r}, d[v] # None
      PROVE  /\ \E u \in Nodes : Before(W, d, u, v)
             /\ \A h : h \in H[v] <=>
                  \E u \in Nodes : /\ Before(W, d, u, v)
                                   /\ IF u = r THEN h = v ELSE h \in H[u]
  BY <1>1 DEF IsSolution
<1>2. ASSUME NEW u \in Nodes, NEW v \in Nodes, d[v] # None, Before(W, d, u, v)
      PROVE  d[u] # None /\ d[u] \in Nat /\ d[v] \in Nat /\ d[u] < d[v]
  BY <1>2 DEF IsSolution, Before
<1>3. ASSUME NEW v \in Nodes \ {r}, d[v] # None,
             \A u \in Nodes \ {r} : Before(W, d, u, v) => Good(u)
      PROVE  Good(v)
  <2>1. H[v] # {}
    <3>1. PICK u \in Nodes : Before(W, d, u, v)
      BY <1>1, <1>3
    <3>2. \E h : IF u = r THEN h = v ELSE h \in H[u]
      BY <1>3, <3>1
    <3> QED
      BY <1>1, <1>3, <3>1, <3>2
  <2>2. ASSUME NEW h \in H[v]
        PROVE  \E k, p, D : IsTrip(r, W, d, k, p, D, v) /\ k >= 2 /\ p[2] = h
    <3>1. PICK u \in Nodes : /\ Before(W, d, u, v)
                             /\ IF u = r THEN h = v ELSE h \in H[u]
      BY <1>1, <1>3
    <3>2. CASE u = r
      <4>1. PICK p, D : IsTrip(r, W, d, 1, p, D, u)
        BY <3>2, TripToRoot
      <4>2. PICK q, E : IsTrip(r, W, d, 1 + 1, q, E, v) /\ q[1 + 1] = v
        BY <1>3, <3>1, <4>1, LongerTrip
      <4> QED
        BY <3>1, <3>2, <4>2
    <3>3. CASE u # r
      <4>1. PICK k, p, D : IsTrip(r, W, d, k, p, D, u) /\ k >= 2 /\ p[2] = h
        BY <1>3, <3>1, <3>3
      <4>2. PICK q, E : IsTrip(r, W, d, k + 1, q, E, v) /\ \A i \in 1..k : q[i] = p[i]
        BY <1>3, <3>1, <4>1, LongerTrip
      <4>3. k \in Nat /\ 2 \in 1..k /\ k + 1 >= 2
        BY <4>1 DEF IsTrip
      <4> QED
        BY <4>1, <4>2, <4>3
    <3> QED
      BY <3>2, <3>3
  <2> QED
    BY <2>1, <2>2
<1> HIDE DEF Good
<1>4. 0 \in G
  <2> SUFFICES ASSUME NEW v \in Nodes \ {r}, d[v] # None, d[v] <= 0 PROVE FALSE
    OBVIOUS
  <2>1. PICK u \in Nodes : Before(W, d, u, v)
    BY <1>1
  <2> QED
    BY <1>2, <2>1
<1>5. ASSUME NEW n \in Nat, n \in G PROVE n + 1 \in G
  <2> SUFFICES ASSUME NEW v \in Nodes \ {r}, d[v] # None, d[v] <= n + 1 PROVE Good(v)
    OBVIOUS
  <2>1. ASSUME NEW u \in Nodes \ {r}, Before(W, d, u, v) PROVE Good(u)
    <3>1. d[u] # None /\ d[u] <= n
      BY <1>2, <2>1
    <3> QED
      BY <1>5, <3>1
  <2> QED
    BY <1>3, <2>1
<1>6. \A n \in Nat : n \in G
  <2> HIDE DEF G
  <2> QED
    BY <1>4, <1>5, NumberInduction
<1>7. ASSUME NEW v \in Nodes \ {r}, d[v] # None PROVE Good(v)
  <2>1. d[v] \in Nat /\ d[v] <= d[v]
    BY <1>7 DEF IsSolution
  <2> QED
    BY <1>6, <1>7, <2>1
<1> QED
  BY <1>7 DEF Good

\* A solution tells of every path that ShortestPaths speaks of: none is shorter
\* than the distance of its end, and the first hops of those that are as short
\* are the next hops of their end, all of them.
LEMMA PathsOfSolution ==
    ASSUME NEW r, NEW W, NEW d, NEW H, IsSolution(r, W, d, H), IsFiniteSet(Nodes)
    PROVE  /\ \A p \in Abstract!Paths(r, W) :
                LET v == p[Len(p)]
                IN  /\ v \in Nodes \ {r} /\ d[v] # None
                    /\ Abstract!Length(W, p) \in Nat /\ d[v] <= Abstract!Length(W, p)
                    /\ d[v] = Abstract!Length(W, p) => p[2] \in H[v]
           /\ \A v \in Nodes \ {r} : d[v] # None =>
                \A h \in H[v] : \E p \in Abstract!Paths(r, W) :
                  p[Len(p)] = v /\ p[2] = h /\ Abstract!Length(W, p) = d[v]
<1>1. Cardinality(Nodes) \in Nat /\ Abstract!Cardinality(Nodes) = Cardinality(Nodes)
  <2>1. Cardinality(Nodes) \in Nat
    BY FS_CardinalityType
  <2>2. Abstract!Cardinality(Nodes) = Cardinality(Nodes)
    BY DEF Abstract!Cardinality, Cardinality
  <2> QED
    BY <2>1, <2>2
<1>2. ASSUME NEW p \in Abstract!Paths(r, W), NEW v, v = p[Len(p)]
      PROVE  /\ v \in Nodes \ {r} /\ d[v] # None
             /\ Abstract!Length(W, p) \in Nat /\ d[v] <= Abstract!Length(W, p)
             /\ d[v] = Abstract!Length(W, p) => p[2] \in H[v]
  <2> DEFINE Of(k) == {q \in [1..k -> Nodes] : Abstract!IsPath(r, W, q)}
             K == 2..Cardinality(Nodes)
  <2>1. PICK k \in 2..Cardinality(Nodes) : p \in [1..k -> Nodes] /\ Abstract!IsPath(r, W, p)
    <3>1. p \in UNION {Of(k) : k \in K}
      BY <1>1 DEF Abstract!Paths
    <3>2. PICK k \in K : p \in Of(k)
      <4> HIDE DEF Of, K
      <4> QED
        BY <3>1
    <3>3. p \in [1..k -> Nodes] /\ Abstract!IsPath(r, W, p)
      <4> DEFINE F == [1..k -> Nodes]
      <4>1. p \in {q \in F : Abstract!IsPath(r, W, q)}
        BY <3>2
      <4> HIDE DEF F
      <4>2. p \in F /\ Abstract!IsPath(r, W, p)
        BY <4>1
      <4> QED
        BY <4>2 DEF F
    <3> QED
      BY <3>2, <3>3
  <2>2. k \in Nat /\ k >= 2 /\ k \in 2..k /\ k \in 1..k /\ 1 \in 1..k
        /\ \A i \in 2..k : i \in 1..k /\ i # 1
    BY <1>1
  <2>3. Len(p) = k
    BY <2>1, <2>2, LengthIs
  <2> DEFINE D == Abstract!Costs(W, p)
  <2>4. AreCosts(W, k, p, D) /\ Abstract!Length(W, p) = D[k]
    BY <2>2, <2>3, CostsOfPath DEF Abstract!Length
  <2> HIDE DEF D
  <2>5. /\ \A i \in 1..k : p[i] \in Nodes
        /\ p[1] = r /\ \A i \in 1..(k - 1) : W[p[i]][p[i + 1]] # None
        /\ \A i, j \in 1..k : p[i] = p[j] => i = j
    BY <2>1, <2>3 DEF Abstract!IsPath
  <2>6. \A i \in 2..k : p[i] # r
    BY <2>2, <2>5
  <2>7. D[k] \in Nat /\ d[p[k]] # None /\ d[p[k]] <= D[k]
    BY <2>2, <2>4, <2>5, NoPathIsShorter
  <2>8. D[k] = d[p[k]] => p[2] \in H[p[k]]
    BY <2>2, <2>4, <2>5, <2>6, FirstHopIsNextHop
  <2> QED
    BY <1>2, <2>2, <2>3, <2>4, <2>5, <2>6, <2>7, <2>8
<1>3. ASSUME NEW v \in Nodes \ {r}, d[v] # None, NEW h \in H[v]
      PROVE  \E p \in Abstract!Paths(r, W) :
               p[Len(p)] = v /\ p[2] = h /\ Abstract!Length(W, p) = d[v]
  <2>1. PICK k, p, D : IsTrip(r, W, d, k, p, D, v) /\ k >= 2 /\ p[2] = h
    BY <1>3, NextHopIsFirstHop
  <2>2. /\ k \in Nat \ {0} /\ p \in [1..k -> Nodes] /\ p[1] = r /\ p[k] = v
        /\ \A i \in 1..(k - 1) : W[p[i]][p[i + 1]] # None
        /\ \A i, j \in 1..k : p[i] = p[j] => i = j
        /\ AreCosts(W, k, p, D) /\ D[k] = d[v]
    BY <2>1 DEF IsTrip
  <2>3. Len(p) = k
    BY <2>2, LengthIs
  <2>4. k \in 2..Cardinality(Nodes)
    <3> DEFINE I == 1..k
    <3>1. p \in Injection(I, Nodes)
      BY <2>2 DEF Injection, IsInjective
    <3>2. Cardinality(I) = k
      BY <2>2, FS_Interval
    <3> HIDE DEF I
    <3>3. Cardinality(I) <= Cardinality(Nodes)
      BY <3>1, FS_Injection
    <3> QED
      BY <1>1, <2>1, <2>2, <3>2, <3>3
  <2>5. Abstract!IsPath(r, W, p)
    BY <2>2, <2>3 DEF Abstract!IsPath
  <2>6. p \in Abstract!Paths(r, W)
    <3> DEFINE Of(n) == {q \in [1..n -> Nodes] : Abstract!IsPath(r, W, q)}
               K == 2..Cardinality(Nodes)
    <3>1. p \in Of(k) /\ k \in K
      BY <2>2, <2>4, <2>5
    <3>2. Abstract!Paths(r, W) = UNION {Of(n) : n \in K}
      BY <1>1 DEF Abstract!Paths
    <3> HIDE DEF Of, K
    <3> QED
      BY <3>1, <3>2
  <2>7. Abstract!Costs(W, p) = D
    BY <2>2, <2>3, CostsOfPath, CostsAreUnique
  <2>8. Abstract!Length(W, p) = d[v]
    BY <2>2, <2>3, <2>7 DEF Abstract!Length
  <2> QED
    BY <2>1, <2>2, <2>3, <2>6, <2>8
<1> QED
  BY <1>2, <1>3

\* When the queue is empty, the loop has solved the equations of the graph that
\* the snapshot describes.
LEMMA LoopSolves ==
    ASSUME Inv, spf.pq = {}
    PROVE  /\ IsSolution(snap.systemID, Links(snap), spf.dist, spf.nextHops)
           /\ \A v \in Nodes : spf.nextHops[v] \subseteq Nodes
<1> DEFINE r == snap.systemID
           W == Links(snap)
           d == spf.dist
           H == spf.nextHops
<1>1. /\ snap \in Snapshots /\ r \in Nodes /\ spf \in Locals /\ d[r] = 0
      /\ Settled = Reached
      /\ \A u \in Nodes : /\ Usable(snap, u) \subseteq Nodes
                          /\ \A v \in Usable(snap, u) : Cost(snap, u, v) \in Nat \ {0}
  BY SnapshotsAssumption DEF Inv, DijkstraInv, SpfTypeOK, Settled
<1>2. /\ \A v \in Nodes : d[v] \in Nat \cup {None} /\ H[v] \subseteq Nodes
      /\ \A v \in Nodes : v \in Reached <=> d[v] # None
      /\ Reached \subseteq Nodes
  BY <1>1 DEF Locals, Reached
<1>3. \A u, v \in Nodes :
        /\ W[u][v] # None <=> v \in Usable(snap, u)
        /\ v \in Usable(snap, u) => W[u][v] = Cost(snap, u, v)
  BY <1>1, NoneAssumption DEF Links
<1> HIDE DEF r, W, d, H
<1>4. ASSUME NEW u \in Nodes, NEW v \in Nodes, d[u] # None, W[u][v] # None
      PROVE  d[v] # None /\ d[v] <= d[u] + W[u][v]
  <2>1. u \in Settled /\ v \in Usable(snap, u) /\ W[u][v] = Cost(snap, u, v)
    BY <1>1, <1>2, <1>3, <1>4
  <2>2. v \in Reached /\ d[v] <= d[u] + Cost(snap, u, v)
    BY <2>1 DEF Inv, DijkstraInv, d
  <2> QED
    BY <1>2, <2>1, <2>2
<1>5. ASSUME NEW v \in Nodes \ {r}, d[v] # None
      PROVE  /\ \E u \in Nodes : Before(W, d, u, v)
             /\ \A h : h \in H[v] <=>
                  \E u \in Nodes : /\ Before(W, d, u, v)
                                   /\ IF u = r THEN h = v ELSE h \in H[u]
  <2> DEFINE before == {u \in Settled : Tight(u, v)}
             via(u) == HopsVia(snap, spf, u, v)
  <2>1. before # {} /\ H[v] = UNION {via(u) : u \in before}
    BY <1>2, <1>5 DEF Inv, DijkstraInv, H, r
  <2>2. \A u : u \in before <=> u \in Nodes /\ Before(W, d, u, v)
    BY <1>1, <1>2, <1>3 DEF Before, Tight, d
  <2>3. \A u : via(u) = IF u = r THEN {v} ELSE H[u]
    BY DEF HopsVia, r, H
  <2> HIDE DEF before, via
  <2>4. \A h : h \in H[v] <=> \E u \in before : h \in via(u)
    BY <2>1
  <2> QED
    BY <2>1, <2>2, <2>3, <2>4
<1>6. IsSolution(r, W, d, H)
  BY <1>1, <1>2, <1>3, <1>4, <1>5 DEF IsSolution, d, r
<1> QED
  BY <1>2, <1>6 DEF r, W, d, H

\* One candidate for each node n of X, at distance d[n] and with the next hops
\* H[n], of a prefix that n has with the metric w[n].
Candidates(X, w, d, H) ==
    {Route(w[n] + d[n], RouteTypeNorthPrefix, H[n]) : n \in X}

\* The best of the candidates is the route of the shortest paths.
LEMMA BestIsShortest ==
    ASSUME NEW r, NEW W, NEW d, NEW H, IsSolution(r, W, d, H), IsFiniteSet(Nodes),
           NEW A, NEW x, NEW X, NEW w,
           X = {n \in Nodes \ {r} : d[n] # None /\ x \in DOMAIN A[n]},
           \A n \in X : w[n] = A[n][x] /\ w[n] \in Nat,
           NEW b, IF X = {} THEN b = None ELSE IsBest(b, Candidates(X, w, d, H))
    PROVE  Untyped(b) = Abstract!ShortestRoute(r, W, A, x)
<1> DEFINE end(p) == p[Len(p)]
           len(p) == Abstract!Length(W, p)
           P == {q \in Abstract!Paths(r, W) : x \in DOMAIN A[q[Len(q)]]}
           way(p) == [hop |-> p[2], metric |-> len(p) + A[end(p)][x]]
           ways == Abstract!Ways(r, W, A, x)
           M == {v.metric : v \in ways}
           best == {v \in ways : v.metric = b.metric}
<1>1. ways = {way(p) : p \in P}
  BY DEF Abstract!Ways
<1>2. ASSUME NEW p \in P
      PROVE  /\ end(p) \in X /\ len(p) \in Nat /\ d[end(p)] <= len(p)
             /\ d[end(p)] = len(p) => p[2] \in H[end(p)]
  <2>1. p \in Abstract!Paths(r, W) /\ x \in DOMAIN A[end(p)]
    OBVIOUS
  <2>2. /\ end(p) \in Nodes \ {r} /\ d[end(p)] # None
        /\ len(p) \in Nat /\ d[end(p)] <= len(p)
        /\ d[end(p)] = len(p) => p[2] \in H[end(p)]
    BY <2>1, PathsOfSolution
  <2> QED
    BY <2>1, <2>2
<1>3. ASSUME NEW n \in X, NEW h \in H[n]
      PROVE  \E p \in P : end(p) = n /\ p[2] = h /\ len(p) = d[n]
  <2>1. n \in Nodes \ {r} /\ d[n] # None /\ x \in DOMAIN A[n]
    OBVIOUS
  <2>2. PICK p \in Abstract!Paths(r, W) : end(p) = n /\ p[2] = h /\ len(p) = d[n]
    BY <2>1, PathsOfSolution
  <2> QED
    BY <2>1, <2>2
<1>4. \A n \in X : d[n] \in Nat /\ H[n] # {} /\ A[n][x] = w[n] /\ w[n] \in Nat
  <2>1. \A n \in X : n \in Nodes \ {r} /\ d[n] # None
    OBVIOUS
  <2>2. \A n \in X : d[n] \in Nat
    BY <2>1 DEF IsSolution
  <2>3. \A n \in X : H[n] # {}
    BY <2>1, NextHopIsFirstHop
  <2> QED
    BY <2>2, <2>3
<1>5. \A p \in P : way(p).hop = p[2] /\ way(p).metric = len(p) + w[end(p)]
  BY <1>2, <1>4
<1> HIDE DEF end, len, P, way
<1>6. \A v : v \in ways <=> \E p \in P : v = way(p)
  BY <1>1
<1> HIDE DEF ways
<1>7. CASE X = {}
  <2>1. ways = {}
    BY <1>2, <1>6, <1>7
  <2> QED
    BY <1>7, <2>1 DEF Abstract!ShortestRoute, Untyped, ways
<1>8. CASE X # {}
  <2> DEFINE cand(n) == Route(w[n] + d[n], RouteTypeNorthPrefix, H[n])
             C == Candidates(X, w, d, H)
  <2>1. /\ b \in Routes
        /\ \E c \in C : AsGood(c, b)
        /\ \A c \in C : b.type < c.type \/ (b.type = c.type /\ b.metric <= c.metric)
        /\ b.nextHops = UNION {c.nextHops : c \in {e \in C : AsGood(e, b)}}
    BY <1>8 DEF IsBest
  <2>2. \A c : c \in C <=> \E n \in X : c = cand(n)
    BY DEF Candidates
  <2>3. \A n \in X : /\ cand(n).metric = w[n] + d[n] /\ cand(n).nextHops = H[n]
                     /\ cand(n).type = RouteTypeNorthPrefix
    BY DEF Route
  <2>4. b.metric \in Nat /\ b # None
    BY <2>1, NoneAssumption DEF Routes
  <2> HIDE DEF C, cand
  <2>5. \A h : h \in b.nextHops <=> \E c \in C : AsGood(c, b) /\ h \in c.nextHops
    BY <2>1
  <2>6. b.type = RouteTypeNorthPrefix
    BY <2>1, <2>2, <2>3 DEF AsGood
  <2>7. /\ \E n \in X : b.metric = w[n] + d[n]
        /\ \A n \in X : b.metric <= w[n] + d[n]
    <3>1. PICK n \in X : AsGood(cand(n), b)
      BY <2>1, <2>2
    <3>2. ASSUME NEW m \in X PROVE b.metric <= w[m] + d[m]
      <4>1. cand(m) \in C
        BY <2>2
      <4> QED
        BY <2>1, <2>3, <2>6, <4>1 DEF RouteTypeNorthPrefix
    <3> QED
      BY <2>3, <3>1, <3>2 DEF AsGood
  <2>8. \A h : h \in b.nextHops <=> \E n \in X : w[n] + d[n] = b.metric /\ h \in H[n]
    <3>1. \A n \in X : AsGood(cand(n), b) <=> w[n] + d[n] = b.metric
      BY <2>3, <2>6 DEF AsGood
    <3>2. \A h : h \in b.nextHops <=>
                   \E n \in X : AsGood(cand(n), b) /\ h \in cand(n).nextHops
      BY <2>2, <2>5
    <3> QED
      BY <2>3, <3>1, <3>2
  <2>9. \A p \in P : /\ way(p).metric \in Nat /\ b.metric <= way(p).metric
                     /\ way(p).metric = b.metric => d[end(p)] = len(p)
    <3> SUFFICES ASSUME NEW p \in P
                 PROVE  /\ way(p).metric \in Nat /\ b.metric <= way(p).metric
                        /\ way(p).metric = b.metric => d[end(p)] = len(p)
      OBVIOUS
    <3>1. end(p) \in X /\ len(p) \in Nat /\ d[end(p)] <= len(p)
      BY <1>2
    <3>2. d[end(p)] \in Nat /\ w[end(p)] \in Nat /\ b.metric <= w[end(p)] + d[end(p)]
      BY <1>4, <2>7, <3>1
    <3>3. way(p).metric = len(p) + w[end(p)]
      BY <1>5
    <3> QED
      BY <2>4, <3>1, <3>2, <3>3
  <2>10. ASSUME NEW n \in X, w[n] + d[n] = b.metric, NEW h \in H[n]
         PROVE  \E p \in P : way(p).metric = b.metric /\ way(p).hop = h
    <3>1. PICK p \in P : end(p) = n /\ p[2] = h /\ len(p) = d[n]
      BY <1>3
    <3>2. way(p).hop = h /\ way(p).metric = d[n] + w[n]
      BY <1>5, <3>1
    <3> QED
      BY <1>4, <2>10, <3>2
  <2>11. \E p \in P : way(p).metric = b.metric
    <3>1. PICK n \in X : b.metric = w[n] + d[n]
      BY <2>7
    <3>2. PICK h : h \in H[n]
      BY <1>4
    <3> QED
      BY <2>10, <3>1, <3>2
  <2>12. /\ ways # {} /\ b.metric \in M /\ M \subseteq Nat
         /\ \A m \in M : b.metric <= m
    BY <1>6, <2>9, <2>11
  <2> HIDE DEF M
  <2>13. Abstract!Min(M) = b.metric
    <3>1. ASSUME NEW m \in M, \A k \in M : m <= k PROVE m = b.metric
      <4>1. m \in Nat /\ m <= b.metric /\ b.metric <= m
        BY <2>12, <3>1
      <4> QED
        BY <2>4, <4>1
    <3> QED
      BY <2>12, <3>1 DEF Abstract!Min
  <2>14. \A h : h \in b.nextHops <=>
                  \E p \in P : way(p).metric = b.metric /\ way(p).hop = h
    <3>1. ASSUME NEW p \in P, way(p).metric = b.metric
          PROVE  way(p).hop \in b.nextHops
      <4>1. d[end(p)] = len(p) /\ end(p) \in X /\ p[2] \in H[end(p)]
        BY <1>2, <2>9, <3>1
      <4>2. way(p).hop = p[2] /\ b.metric = d[end(p)] + w[end(p)]
        BY <1>5, <3>1, <4>1
      <4>3. w[end(p)] + d[end(p)] = b.metric
        BY <1>4, <4>1, <4>2
      <4> QED
        BY <2>8, <4>1, <4>2, <4>3
    <3> QED
      BY <2>8, <2>10, <3>1
  <2>15. b.nextHops = {v.hop : v \in best}
    <3>1. \A v : v \in best <=> \E p \in P : v = way(p) /\ way(p).metric = b.metric
      BY <1>6
    <3> HIDE DEF best
    <3> QED
      BY <2>14, <3>1
  <2>16. Abstract!ShortestRoute(r, W, A, x) =
           [metric |-> Abstract!Min(M),
            nextHops |-> {v.hop : v \in {e \in ways : e.metric = Abstract!Min(M)}}]
    BY <2>12 DEF Abstract!ShortestRoute, M, ways
  <2>17. Untyped(b) = [metric |-> b.metric, nextHops |-> b.nextHops]
    BY <2>4 DEF Untyped
  <2> QED
    BY <2>13, <2>15, <2>16, <2>17
<1> QED
  BY <1>7, <1>8

\* The prefixes of the nodes that were reached become the routes of the
\* shortest paths.
LEMMA AttachIsShortest ==
    ASSUME Inv, spf.pq = {}
    PROVE  /\ AttachPrefixes(snap, spf) \in RIBs
           /\ \A x \in AllPrefixes :
                Untyped(AttachPrefixes(snap, spf)[x]) =
                Abstract!ShortestRoute(snap.systemID, Links(snap), PrefixMetrics(snap), x)
<1> DEFINE r == snap.systemID
           W == Links(snap)
           d == spf.dist
           H == spf.nextHops
           A == PrefixMetrics(snap)
           X(x) == {n \in Nodes \ {r} : d[n] # None /\ x \in DOMAIN A[n]}
           w(x) == [n \in Nodes |-> A[n][x]]
           C(x) == Candidates(X(x), w(x), d, H)
           reached == {n \in Nodes \ {r} : d[n] # None /\ H[n] # {}}
           Attached(x, n) ==
             {Route(e[2] + d[n], RouteTypeNorthPrefix, H[n]) :
                e \in {f \in FindPrefixes(snap, North, n, PrefixTIE) : f[1] = x}}
           cands == [x \in AllPrefixes |-> UNION {Attached(x, n) : n \in reached}]
<1>1. AttachPrefixes(snap, spf) = addRoutes(EmptyRIB, cands)
  BY DEF AttachPrefixes
<1>2. IsSolution(r, W, d, H) /\ (\A v \in Nodes : H[v] \subseteq Nodes) /\ IsFiniteSet(Nodes)
  BY LoopSolves, SnapshotsAssumption
<1>3. \A n \in Nodes :
        /\ \A x \in DOMAIN A[n] : A[n][x] \in Nat
        /\ FindPrefixes(snap, North, n, PrefixTIE) = {<<x, A[n][x]>> : x \in DOMAIN A[n]}
  <2> SUFFICES ASSUME NEW n \in Nodes
               PROVE  /\ \A x \in DOMAIN A[n] : A[n][x] \in Nat
                      /\ FindPrefixes(snap, North, n, PrefixTIE) =
                           {<<x, A[n][x]>> : x \in DOMAIN A[n]}
    OBVIOUS
  <2> DEFINE tie == NorthPrefixes(snap, n)
  <2>1. tie = None \/ \E Q \in SUBSET AllPrefixes : tie \in PrefixElements(Q)
    BY SnapshotsAssumption DEF Inv
  <2>2. /\ A[n] = IF tie = None THEN <<>> ELSE tie
        /\ FindPrefixes(snap, North, n, PrefixTIE) =
             IF tie = None THEN {} ELSE {<<x, tie[x]>> : x \in DOMAIN tie}
    BY DEF PrefixMetrics, FindPrefixes, NorthPrefixes
  <2> HIDE DEF tie, A
  <2>3. CASE tie = None
    <3>1. A[n] = <<>> /\ DOMAIN A[n] = {}
      BY <2>2, <2>3
    <3> QED
      BY <2>2, <2>3, <3>1
  <2>4. CASE tie # None
    <3>1. \A x \in DOMAIN tie : tie[x] \in Nat
      BY <2>1, <2>4 DEF PrefixElements
    <3> QED
      BY <2>2, <2>4, <3>1
  <2> QED
    BY <2>3, <2>4
<1> HIDE DEF r, W, d, H, A
<1>4. \A n \in Nodes \ {r} : d[n] # None => d[n] \in Nat /\ H[n] # {} /\ H[n] \subseteq Nodes
  <2>1. \A n \in Nodes \ {r} : d[n] # None => H[n] # {}
    BY <1>2, NextHopIsFirstHop
  <2>2. \A n \in Nodes : d[n] # None => d[n] \in Nat
    BY <1>2 DEF IsSolution
  <2> QED
    BY <1>2, <2>1, <2>2
<1>5. ASSUME NEW x \in AllPrefixes, NEW n \in Nodes
      PROVE  \A c : c \in Attached(x, n) <=>
               /\ x \in DOMAIN A[n]
               /\ c = Route(A[n][x] + d[n], RouteTypeNorthPrefix, H[n])
  <2> DEFINE E == {f \in FindPrefixes(snap, North, n, PrefixTIE) : f[1] = x}
  <2>1. \A e : e \in E <=> x \in DOMAIN A[n] /\ e = <<x, A[n][x]>>
    BY <1>3
  <2>2. \A c : c \in Attached(x, n) <=>
           \E e \in E : c = Route(e[2] + d[n], RouteTypeNorthPrefix, H[n])
    OBVIOUS
  <2>3. <<x, A[n][x]>>[2] = A[n][x]
    OBVIOUS
  <2> DEFINE one == <<x, A[n][x]>>
             R(e) == Route(e[2] + d[n], RouteTypeNorthPrefix, H[n])
  <2>4. R(one) = Route(A[n][x] + d[n], RouteTypeNorthPrefix, H[n])
    BY <2>3
  <2>5. /\ \A e : e \in E <=> x \in DOMAIN A[n] /\ e = one
        /\ \A c : c \in Attached(x, n) <=> \E e \in E : c = R(e)
    BY <2>1, <2>2
  <2> HIDE DEF E, Attached, one, R
  <2> QED
    BY <2>4, <2>5
<1> HIDE DEF Attached
<1>6. ASSUME NEW x \in AllPrefixes PROVE cands[x] = C(x)
  <2>1. \A c : c \in cands[x] <=> \E n \in reached : c \in Attached(x, n)
    OBVIOUS
  <2>2. \A n : n \in X(x) <=> n \in reached /\ x \in DOMAIN A[n]
    BY <1>4
  <2>3. \A c : c \in C(x) <=>
           \E n \in X(x) : c = Route(w(x)[n] + d[n], RouteTypeNorthPrefix, H[n])
    BY DEF Candidates
  <2>4. \A n \in X(x) : w(x)[n] = A[n][x]
    OBVIOUS
  <2>5. reached \subseteq Nodes
    OBVIOUS
  <2> HIDE DEF X, w, C, cands, reached
  <2>6. \A c : c \in cands[x] <=> c \in C(x)
    BY <1>5, <2>1, <2>2, <2>3, <2>4, <2>5
  <2> QED
    BY <2>6
<1>7. AttachPrefixes(snap, spf) = [x \in AllPrefixes |-> addAll(None, cands[x])]
  BY <1>1 DEF addRoutes, EmptyRIB
<1>8. ASSUME NEW x \in AllPrefixes
      PROVE  /\ addAll(None, cands[x]) \in Routes \cup {None}
             /\ Untyped(addAll(None, cands[x])) = Abstract!ShortestRoute(r, W, A, x)
  <2> DEFINE b == addAll(None, C(x))
             Y == X(x)
             f == w(x)
             D == C(x)
  <2>1. Y = {n \in Nodes \ {r} : d[n] # None /\ x \in DOMAIN A[n]}
    OBVIOUS
  <2>2. \A n \in Y : f[n] = A[n][x] /\ f[n] \in Nat /\ d[n] \in Nat /\ H[n] \subseteq Nodes
    BY <1>3, <1>4
  <2>3. IsFiniteSet(Y)
    BY <1>2, FS_Subset
  <2>4. D = Candidates(Y, f, d, H) /\ b = addAll(None, D)
    OBVIOUS
  <2> HIDE DEF Y, f, D, b
  <2>5. D \in SUBSET Routes
    BY <2>2, <2>4 DEF Candidates, Route, Routes, RouteTypeNorthPrefix
  <2>6. IsFiniteSet(D) /\ (D = {} <=> Y = {})
    <3> DEFINE g == [n \in Y |-> Route(f[n] + d[n], RouteTypeNorthPrefix, H[n])]
    <3>1. D = {g[n] : n \in Y}
      BY <2>4 DEF Candidates
    <3> HIDE DEF g
    <3>2. IsFiniteSet({g[n] : n \in Y})
      BY <2>3, FiniteImage
    <3> QED
      BY <3>1, <3>2
  <2>7. IF D = {} THEN b = None ELSE IsBest(b, D)
    BY <2>4, <2>5, <2>6, AddAllBest
  <2>8. b \in Routes \cup {None}
    BY <2>7 DEF IsBest
  <2>9. IF Y = {} THEN b = None ELSE IsBest(b, Candidates(Y, f, d, H))
    BY <2>4, <2>6, <2>7
  <2>10. Untyped(b) = Abstract!ShortestRoute(r, W, A, x)
    BY <1>2, <2>1, <2>2, <2>9, BestIsShortest
  <2>11. b = addAll(None, cands[x])
    BY <1>6, <2>4 DEF D
  <2> QED
    BY <2>8, <2>10, <2>11
<1> HIDE DEF cands
<1>9. AttachPrefixes(snap, spf) \in RIBs
  BY <1>7, <1>8 DEF RIBs
<1>10. \A x \in AllPrefixes : AttachPrefixes(snap, spf)[x] = addAll(None, cands[x])
  BY <1>7
<1> QED
  BY <1>8, <1>9, <1>10 DEF r, W, A

\* ComputeSouthbound computes the routes of the shortest paths, whatever the
\* graph and whichever of several equally near items heap.Pop returns: the
\* turns of its loop show nothing, and then all routes are there at once, each
\* with the metric of a shortest way to the prefix and exactly the first hops of
\* all of them.
THEOREM RoutesOfShortestPaths == SpfSpec => Abstract!Safety
<1>1. SpfInit => Abstract!Init
  BY DEF SpfInit, Abstract!Init
<1>2. Inv /\ [SpfNext]_spfVars => [Abstract!Compute]_(Abstract!vars)
  <2> SUFFICES ASSUME Inv, [SpfNext]_spfVars
               PROVE  \/ Abstract!Compute
                      \/ snap' = snap /\ rib' = rib
    BY DEF Abstract!vars, Links, PrefixMetrics, Untyped
  <2>1. CASE Pop
    BY <2>1 DEF Pop
  <2>2. CASE Attach
    <3> DEFINE R == AttachPrefixes(snap, spf)
    <3>1. /\ R \in RIBs
          /\ \A x \in AllPrefixes :
               Untyped(R[x]) =
               Abstract!ShortestRoute(snap.systemID, Links(snap), PrefixMetrics(snap), x)
      BY <2>2, AttachIsShortest DEF Attach
    <3>2. rib = None /\ rib' = R /\ snap' = snap /\ R # None
      BY <2>2, <3>1, NoneAssumption DEF Attach
    <3> HIDE DEF R
    <3>3. [x \in AllPrefixes |-> Untyped(R[x])] =
          [x \in AllPrefixes |->
             Abstract!ShortestRoute(snap.systemID, Links(snap), PrefixMetrics(snap), x)]
      BY <3>1
    <3>4. Abstract!Compute
      BY <3>2, <3>3 DEF Abstract!Compute
    <3> QED
      BY <3>4
  <2>3. CASE UNCHANGED spfVars
    BY <2>3 DEF spfVars
  <2> QED
    BY <2>1, <2>2, <2>3 DEF SpfNext
<1> QED
  BY <1>1, <1>2, InitInv, StepInv, PTL DEF SpfSpec, Abstract!Safety

-----------------------------------------------------------------------------
(* What a node computes, on any LSDB of a fabric of spines and leaves *)

Opposite(n) == IF n \in Leaves THEN Spines ELSE Leaves
Twos == UNION {[P -> {2}] : P \in SUBSET Prefixes}

\* What an LSDB may hold: the neighbors of a node are on the other level, and
\* every disaggregated prefix is a link and its metric away.
LSDBs ==
    {db \in [TieIDs -> Version((SUBSET Nodes) \cup Twos)] :
        /\ \A n \in Nodes : db[NodeID(n)] \in Version(SUBSET Opposite(n))
        /\ \A s \in Spines : db[DisaggID(s)] \in Version(Twos)}

\* The neighbors that n's Node TIE lists, and what s disaggregates.
Nbrs(db, n) == IF db[NodeID(n)] = None THEN {} ELSE db[NodeID(n)].content
Disagg(db, s) == IF db[DisaggID(s)] = None THEN {} ELSE DOMAIN db[DisaggID(s)].content

\* The leaves that s reaches, and those that a peer of s does not have.
Below(s, adj, db) == {v \in Leaves : v \in Nbrs(db, s) /\ s \in Nbrs(db, v) /\ v \in adj}
Lost(s, adj, db) ==
    {m \in adj : \E n \in Spines \ {s} : Nbrs(db, n) \cap adj # {} /\ m \notin Nbrs(db, n)}

\* What a spine and a leaf compute.
Hops(s, adj, db, p) == {v \in Below(s, adj, db) : p \in LeafPrefixes[v]}
SpineResult(s, adj, db) ==
    [fib |-> [p \in AllPrefixes |-> Hops(s, adj, db, p)],
     disagg |-> [p \in {q \in Prefixes :
                          Hops(s, adj, db, q) \cap Lost(s, adj, db) # {}} |-> 2]]

Above(l, adj, db) == {m \in adj : l \in Nbrs(db, m)}
LeafResult(l, adj, db) ==
    [fib |-> [p \in AllPrefixes |->
                 IF p = DefaultRoute THEN Above(l, adj, db)
                 ELSE {m \in Above(l, adj, db) : p \in Disagg(db, m)}],
     disagg |-> None]

\* The IDs of the TIEs, and where they are in a snapshot.
LEMMA NodeIDs ==
    /\ \A n \in Nodes : NodeID(n) \in TieIDs /\ NodeID(n).orig = n
                        /\ NodeID(n).type = NodeTIE
    /\ \A s \in Spines : DisaggID(s) \in TieIDs /\ DisaggID(s).orig = s
                         /\ DisaggID(s).type = PosDisaggTIE
    /\ \A n, m \in Nodes : NodeID(n) = NodeID(m) => n = m
    /\ \A n, m \in Spines : DisaggID(n) = DisaggID(m) => n = m
    /\ \A n \in Nodes, s \in Spines : NodeID(n) # DisaggID(s)
    /\ \A id \in TieIDs : \/ \E n \in Nodes : id = NodeID(n)
                          \/ \E s \in Spines : id = DisaggID(s)
<1>1. \A n \in Nodes : NodeID(n) \in TieIDs /\ NodeID(n).orig = n
                        /\ NodeID(n).type = NodeTIE
  BY DEF NodeID, TieIDs
<1>2. \A s \in Spines : DisaggID(s) \in TieIDs /\ DisaggID(s).orig = s
                         /\ DisaggID(s).type = PosDisaggTIE
  BY DEF DisaggID, TieIDs
<1>3. NodeTIE # PosDisaggTIE
  BY DEF NodeTIE, PosDisaggTIE
<1>4. \A id \in TieIDs : \/ \E n \in Nodes : id = NodeID(n)
                         \/ \E s \in Spines : id = DisaggID(s)
  BY DEF TieIDs
<1>5. \A n, m \in Nodes : NodeID(n) = NodeID(m) => n = m
  BY <1>1
<1>6. \A n, m \in Spines : DisaggID(n) = DisaggID(m) => n = m
  BY <1>2
<1>7. \A n \in Nodes, s \in Spines : NodeID(n) # DisaggID(s)
  BY <1>1, <1>2, <1>3
<1> QED
  BY <1>1, <1>2, <1>4, <1>5, <1>6, <1>7

\* The fields of an ID say which TIE it is.
LEMMA FieldsOfIDs ==
    \A id \in TieIDs :
        \/ id.type = NodeTIE /\ id.dir = IF id.orig \in Leaves THEN North ELSE South
        \/ id.type = PosDisaggTIE /\ id.dir = South
<1>1. \A n \in Nodes : /\ NodeID(n).dir = IF n \in Leaves THEN North ELSE South
                       /\ NodeID(n).orig = n /\ NodeID(n).type = NodeTIE
  BY DEF NodeID
<1>2. \A s \in Spines : DisaggID(s).dir = South /\ DisaggID(s).type = PosDisaggTIE
  BY DEF DisaggID
<1> QED
  BY <1>1, <1>2, NodeIDs

\* What the LSDB offers to the computations of the TIEs of a spine.
LEMMA EntriesOfSpine ==
    ASSUME NEW db, NEW s \in Spines
    PROVE  /\ Entries(db)[[dir |-> South, orig |-> s, type |-> NodeTIE]] =
                IF db[NodeID(s)] = None THEN None ELSE NodeElement(NodeID(s), db[NodeID(s)])
           /\ Entries(db)[[dir |-> North, orig |-> s, type |-> NodeTIE]] = None
           /\ Entries(db)[[dir |-> South, orig |-> s, type |-> PrefixTIE]] =
                [p \in {DefaultRoute} |-> 1]
           /\ Entries(db)[[dir |-> North, orig |-> s, type |-> PrefixTIE]] = None
           /\ Entries(db)[[dir |-> South, orig |-> s, type |-> PosDisaggTIE]] =
                IF db[DisaggID(s)] = None THEN None ELSE db[DisaggID(s)].content
<1> DEFINE ID(d, t) == [dir |-> d, orig |-> s, type |-> t]
<1>1. s \in Nodes /\ s \notin Leaves
  BY DEF Spines
<1>2. \A d \in {South, North}, t \in {NodeTIE, PrefixTIE, PosDisaggTIE} :
         /\ ID(d, t) \in TIEID(Nodes)
         /\ ID(d, t).dir = d /\ ID(d, t).orig = s /\ ID(d, t).type = t
  BY <1>1 DEF TIEID
<1>3. /\ ID(South, NodeTIE) = NodeID(s) /\ ID(South, NodeTIE) \in TieIDs
      /\ ID(South, PosDisaggTIE) = DisaggID(s) /\ ID(South, PosDisaggTIE) \in TieIDs
  BY <1>1 DEF NodeID, DisaggID, TieIDs
<1>4. /\ NodeTIE # PrefixTIE /\ PosDisaggTIE # NodeTIE
      /\ PosDisaggTIE # PrefixTIE /\ South # North
  BY DEF NodeTIE, PrefixTIE, PosDisaggTIE, South, North
<1> HIDE DEF ID
<1>5. ID(North, NodeTIE) \notin TieIDs
  BY <1>1, <1>2, <1>4, FieldsOfIDs
<1>6. \A d \in {South, North} : ID(d, PrefixTIE) \notin TieIDs
  BY <1>2, <1>4, FieldsOfIDs
<1>7. Entries(db)[ID(South, NodeTIE)] =
        IF db[NodeID(s)] = None THEN None ELSE NodeElement(NodeID(s), db[NodeID(s)])
  BY <1>2, <1>3, <1>4 DEF Entries
<1>8. Entries(db)[ID(South, PosDisaggTIE)] =
        IF db[DisaggID(s)] = None THEN None ELSE db[DisaggID(s)].content
  BY <1>2, <1>3, <1>4 DEF Entries
<1>9. Entries(db)[ID(North, NodeTIE)] = None
  BY <1>2, <1>5, <1>4 DEF Entries
<1>10. /\ Entries(db)[ID(South, PrefixTIE)] = [p \in {DefaultRoute} |-> 1]
       /\ Entries(db)[ID(North, PrefixTIE)] = None
  BY <1>1, <1>2, <1>6, <1>4 DEF Entries
<1> QED
  BY <1>7, <1>9, <1>10, <1>8 DEF ID

\* What it offers of the TIEs of a leaf.
LEMMA EntriesOfLeaf ==
    ASSUME NEW db, NEW l \in Leaves
    PROVE  /\ Entries(db)[[dir |-> North, orig |-> l, type |-> NodeTIE]] =
                IF db[NodeID(l)] = None THEN None ELSE NodeElement(NodeID(l), db[NodeID(l)])
           /\ Entries(db)[[dir |-> South, orig |-> l, type |-> NodeTIE]] = None
           /\ Entries(db)[[dir |-> North, orig |-> l, type |-> PrefixTIE]] =
                [p \in LeafPrefixes[l] |-> 1]
<1> DEFINE ID(d, t) == [dir |-> d, orig |-> l, type |-> t]
<1>1. l \in Nodes /\ l \notin Spines
  BY FabricConstants DEF Spines
<1>2. \A d \in {South, North}, t \in {NodeTIE, PrefixTIE, PosDisaggTIE} :
         /\ ID(d, t) \in TIEID(Nodes)
         /\ ID(d, t).dir = d /\ ID(d, t).orig = l /\ ID(d, t).type = t
  BY <1>1 DEF TIEID
<1>3. ID(North, NodeTIE) = NodeID(l) /\ ID(North, NodeTIE) \in TieIDs
  BY <1>1 DEF NodeID, DisaggID, TieIDs
<1>4. /\ NodeTIE # PrefixTIE /\ PosDisaggTIE # NodeTIE
      /\ PosDisaggTIE # PrefixTIE /\ South # North
  BY DEF NodeTIE, PrefixTIE, PosDisaggTIE, South, North
<1> HIDE DEF ID
<1>5. ID(South, NodeTIE) \notin TieIDs
  BY <1>1, <1>2, <1>4, FieldsOfIDs
<1>6. ID(North, PrefixTIE) \notin TieIDs
  BY <1>2, <1>4, FieldsOfIDs
<1>7. Entries(db)[ID(North, NodeTIE)] =
        IF db[NodeID(l)] = None THEN None ELSE NodeElement(NodeID(l), db[NodeID(l)])
  BY <1>2, <1>3, <1>4 DEF Entries
<1>8. Entries(db)[ID(South, NodeTIE)] = None
  BY <1>2, <1>5, <1>4 DEF Entries
<1>9. Entries(db)[ID(North, PrefixTIE)] = [p \in LeafPrefixes[l] |-> 1]
  BY <1>1, <1>2, <1>6, <1>4 DEF Entries
<1> QED
  BY <1>7, <1>8, <1>9 DEF ID

\* The element of a Node TIE in terms of its neighbors.
LEMMA ElementOf ==
    ASSUME NEW db \in LSDBs, NEW n \in Nodes, db[NodeID(n)] # None
    PROVE  LET e == NodeElement(NodeID(n), db[NodeID(n)])
           IN  /\ e # None /\ e.level = Level(n) /\ (e.overload <=> n \in Leaves)
               /\ DOMAIN e.neighbors = Nbrs(db, n)
               /\ \A m \in Nbrs(db, n) : /\ e.neighbors[m].level = Level(m)
                                         /\ e.neighbors[m].cost = 1
<1> DEFINE e == NodeElement(NodeID(n), db[NodeID(n)])
           N == db[NodeID(n)].content
           nb == [m \in N |-> [level |-> Level(m), cost |-> 1]]
           ov == NodeID(n).orig \in Leaves
<1>1. N \in SUBSET Nodes /\ Nbrs(db, n) = N
  <2>1. db[NodeID(n)] \in Version(SUBSET Opposite(n))
    BY DEF LSDBs
  <2> QED
    BY <2>1, FabricConstants DEF Version, Opposite, Nbrs, Spines
<1>2. e = [level |-> Level(n), overload |-> ov, neighbors |-> nb]
  BY NodeIDs DEF NodeElement
<1>3. ov <=> n \in Leaves
  BY NodeIDs
<1>4. ov \in BOOLEAN
  OBVIOUS
<1>5. nb \in [N -> [level : Nat, cost : Nat \cup {None}]] /\ Level(n) \in Nat
  BY DEF Level, LeafLevel
<1>6. DOMAIN nb = N /\ \A m \in N : nb[m].level = Level(m) /\ nb[m].cost = 1
  OBVIOUS
<1> HIDE DEF e, N, nb, ov
<1>7. e \in NodeElements(N)
  BY <1>2, <1>4, <1>5 DEF NodeElements
<1>8. e # None
  BY <1>1, <1>7, NoneAssumption
<1>9. e.level = Level(n) /\ e.neighbors = nb
  BY <1>2
<1>10. e.overload = ov
  BY <1>2
<1> QED
  BY <1>1, <1>3, <1>6, <1>8, <1>9, <1>10 DEF e

\* What a snapshot has of the Node TIE of a spine, and of a leaf.
LEMMA SpineTie ==
    ASSUME NEW n, NEW adj, NEW db \in LSDBs, NEW s \in Spines
    PROVE  LET t == FindNodeTIE(Snapshot(n, adj, db), South, s)
           IN  /\ t = None => Nbrs(db, s) = {}
               /\ t # None => /\ t.level = 1 /\ ~t.overload
                              /\ DOMAIN t.neighbors = Nbrs(db, s)
                              /\ \A m \in Nbrs(db, s) : /\ t.neighbors[m].level = 0
                                                        /\ t.neighbors[m].cost = 1
               /\ Nbrs(db, s) \subseteq Leaves
<1> DEFINE t == FindNodeTIE(Snapshot(n, adj, db), South, s)
<1>1. s \in Nodes /\ s \notin Leaves /\ Level(s) = 1 /\ \A m \in Leaves : Level(m) = 0
  BY DEF Spines, Level, LeafLevel
<1>2. t = IF db[NodeID(s)] = None THEN None ELSE NodeElement(NodeID(s), db[NodeID(s)])
  BY EntriesOfSpine DEF FindNodeTIE, Snapshot
<1>3. Nbrs(db, s) \subseteq Leaves
  <2>1. db[NodeID(s)] \in Version(SUBSET Opposite(s))
    BY <1>1 DEF LSDBs
  <2> QED
    BY <2>1, <1>1 DEF Version, Opposite, Nbrs
<1>4. CASE db[NodeID(s)] = None
  BY <1>2, <1>3, <1>4 DEF Nbrs
<1>5. CASE db[NodeID(s)] # None
  <2>1. /\ t # None /\ t.level = 1 /\ ~t.overload
        /\ DOMAIN t.neighbors = Nbrs(db, s)
        /\ \A m \in Nbrs(db, s) : t.neighbors[m].level = 0 /\ t.neighbors[m].cost = 1
    <3> HIDE DEF t
    <3> QED
      BY <1>1, <1>2, <1>3, <1>5, ElementOf
  <2> QED
    BY <2>1, <1>3
<1> QED
  BY <1>4, <1>5

\* The same for a leaf.
LEMMA LeafTie ==
    ASSUME NEW n, NEW adj, NEW db \in LSDBs, NEW l \in Leaves
    PROVE  /\ FindNodeTIE(Snapshot(n, adj, db), South, l) = None
           /\ LET t == FindNodeTIE(Snapshot(n, adj, db), North, l)
              IN  /\ t = None => Nbrs(db, l) = {}
                  /\ t # None => /\ DOMAIN t.neighbors = Nbrs(db, l)
                                 /\ \A m \in Nbrs(db, l) : t.neighbors[m].cost = 1
<1> DEFINE t == FindNodeTIE(Snapshot(n, adj, db), North, l)
<1>1. FindNodeTIE(Snapshot(n, adj, db), South, l) = None
  BY EntriesOfLeaf DEF FindNodeTIE, Snapshot
<1>2. t = IF db[NodeID(l)] = None THEN None ELSE NodeElement(NodeID(l), db[NodeID(l)])
  BY EntriesOfLeaf DEF FindNodeTIE, Snapshot
<1>3. l \in Nodes
  BY FabricConstants
<1>4. CASE db[NodeID(l)] = None
  BY <1>1, <1>2, <1>4 DEF Nbrs
<1>5. CASE db[NodeID(l)] # None
  <2>1. /\ t # None /\ DOMAIN t.neighbors = Nbrs(db, l)
        /\ \A m \in Nbrs(db, l) : t.neighbors[m].cost = 1
    <3> HIDE DEF t
    <3> QED
      BY <1>2, <1>3, <1>5, ElementOf
  <2> QED
    BY <2>1, <1>1
<1> QED
  BY <1>4, <1>5

\* The fields of a snapshot.
LEMMA SnapshotFields ==
    ASSUME NEW n, NEW adj, NEW db
    PROVE  LET s == Snapshot(n, adj, db)
           IN  /\ s.systemID = n /\ s.level = Level(n) /\ s.entries = Entries(db)
               /\ DOMAIN s.adjacencies = adj
               /\ \A m \in adj : s.adjacencies[m] = Level(m)
BY DEF Snapshot

\* The links that Dijkstra's algorithm has: those from the spine itself.
LEMMA UsableLinks ==
    ASSUME NEW s \in Spines, NEW adj \in SUBSET Leaves, NEW db \in LSDBs
    PROVE  /\ Usable(Snapshot(s, adj, db), s) = Below(s, adj, db)
           /\ \A l \in Leaves : Usable(Snapshot(s, adj, db), l) = {}
           /\ \A v \in Below(s, adj, db) : Cost(Snapshot(s, adj, db), s, v) = 1
<1> DEFINE S == Snapshot(s, adj, db)
           t == FindNodeTIE(S, South, s)
           back(v) == FindNodeTIE(S, North, v)
<1>1. S.systemID = s /\ DOMAIN S.adjacencies = adj
  BY SnapshotFields
<1>2. /\ t = None => Nbrs(db, s) = {}
      /\ t # None => /\ t.level = 1 /\ ~t.overload
                     /\ DOMAIN t.neighbors = Nbrs(db, s)
                     /\ \A m \in Nbrs(db, s) : /\ t.neighbors[m].level = 0
                                               /\ t.neighbors[m].cost = 1
      /\ Nbrs(db, s) \subseteq Leaves
  BY SpineTie
<1>3. \A v \in Leaves : (back(v) # None /\ s \in DOMAIN back(v).neighbors) <=> s \in Nbrs(db, v)
  BY LeafTie
<1>4. Usable(S, s) = Below(s, adj, db)
  <2> HIDE DEF S
  <2>1. Usable(S, s) =
          IF t = None \/ t.overload THEN {}
          ELSE {v \in DOMAIN t.neighbors :
                  /\ t.neighbors[v].level < t.level
                  /\ back(v) # None /\ s \in DOMAIN back(v).neighbors
                  /\ s = S.systemID => v \in DOMAIN S.adjacencies}
    BY DEF Usable
  <2> HIDE DEF t, back
  <2>2. CASE t = None
    BY <2>1, <2>2, <1>2 DEF Below
  <2>3. CASE t # None
    <3>1. Usable(S, s) = {v \in Nbrs(db, s) : s \in Nbrs(db, v) /\ v \in adj}
      BY <2>1, <2>3, <1>1, <1>2, <1>3
    <3> QED
      BY <3>1, <1>2 DEF Below
  <2> QED
    BY <2>2, <2>3
<1>5. ASSUME NEW l \in Leaves PROVE Usable(S, l) = {}
  <2>1. FindNodeTIE(S, South, l) = None
    BY LeafTie
  <2> HIDE DEF S
  <2> QED
    BY <2>1 DEF Usable
<1>6. ASSUME NEW v \in Below(s, adj, db) PROVE Cost(S, s, v) = 1
  <2>1. v \in Nbrs(db, s)
    BY DEF Below
  <2> HIDE DEF S
  <2>2. Cost(S, s, v) = LinkCost(t.neighbors[v])
    BY DEF Cost
  <2> HIDE DEF t
  <2> QED
    BY <2>1, <2>2, <1>2 DEF LinkCost, DefaultDistance
<1> QED
  BY <1>4, <1>5, <1>6

\* The locals of the algorithm once the spine itself was visited.
FinalDist(s, B) == [n \in Nodes |-> IF n = s THEN 0 ELSE IF n \in B THEN 1 ELSE None]
FinalHops(B) == [n \in Nodes |-> IF n \in B THEN {n} ELSE {}]
Final(s, B, d) ==
    /\ d \in Locals /\ d.dist = FinalDist(s, B) /\ d.nextHops = FinalHops(B)
    /\ \A i \in d.pq : i.node \in B /\ i.dist = 1

\* The first turn reaches the leaves below.
LEMMA FirstTurn ==
    ASSUME NEW s \in Spines, NEW adj \in SUBSET Leaves, NEW db \in LSDBs
    PROVE  LET S == Snapshot(s, adj, db)
               d == StartDijkstra(S)
           IN  /\ d \in Locals /\ Least(d.pq) = {Item(s, 0)} /\ d.pq # {}
               /\ Final(s, Below(s, adj, db), Visit(S, d, Item(s, 0)))
<1> DEFINE S == Snapshot(s, adj, db)
           B == Below(s, adj, db)
           d == StartDijkstra(S)
           item == Item(s, 0)
<1>1. /\ s \in Nodes /\ s \notin B /\ B \subseteq Nodes /\ S.systemID = s
      /\ Usable(S, s) = B /\ \A v \in B : Cost(S, s, v) = 1
  <2>1. s \in Nodes /\ s \notin B /\ B \subseteq Nodes
    BY FabricConstants DEF Spines, Below
  <2> HIDE DEF B
  <2>2. S.systemID = s
    BY SnapshotFields
  <2>3. Usable(S, s) = B /\ \A v \in B : Cost(S, s, v) = 1
    BY UsableLinks DEF B
  <2> QED
    BY <2>1, <2>2, <2>3
<1> HIDE DEF S, B
<1>2. item.node = s /\ item.dist = 0 /\ item \in [node : Nodes, dist : Nat]
  BY <1>1 DEF Item
<1>3. /\ d.dist = [n \in Nodes |-> IF n = s THEN 0 ELSE None]
      /\ d.nextHops = [n \in Nodes |-> {}] /\ d.pq = {item}
  BY <1>1 DEF StartDijkstra
<1>4. d \in Locals
  BY <1>1, <1>2 DEF StartDijkstra, Locals
<1>5. Least(d.pq) = {item} /\ d.pq # {}
  BY <1>2, <1>3 DEF Least
<1> HIDE DEF d, item
<1>6. \A v \in B : NewDist(S, item, v) = 1
  BY <1>1, <1>2 DEF NewDist
<1>7. Better(S, d, item) = B
  BY <1>1, <1>2, <1>3 DEF Better
<1>8. Equal(S, d, item) = {}
  BY <1>1, <1>2, <1>3, <1>6, NoneAssumption DEF Equal
<1>9. \A v \in B : HopsVia(S, d, s, v) = {v}
  BY <1>1 DEF HopsVia
<1>10. relaxDist(S, d, item) = FinalDist(s, B)
  BY <1>1, <1>3, <1>6, <1>7 DEF relaxDist, FinalDist
<1>11. relaxHops(S, d, item) = FinalHops(B)
  BY <1>1, <1>2, <1>3, <1>7, <1>8, <1>9 DEF relaxHops, FinalHops
<1>12. relaxQueue(S, d, item) = {Item(v, 1) : v \in B}
  BY <1>3, <1>6, <1>7 DEF relaxQueue
<1>13. Visit(S, d, item) = [dist |-> FinalDist(s, B), nextHops |-> FinalHops(B),
                            pq |-> {Item(v, 1) : v \in B}]
  BY <1>1, <1>2, <1>3, <1>10, <1>11, <1>12 DEF Visit
<1>14. /\ FinalDist(s, B) \in [Nodes -> Nat \cup {None}]
       /\ FinalHops(B) \in [Nodes -> SUBSET Nodes]
       /\ {Item(v, 1) : v \in B} \in SUBSET [node : Nodes, dist : Nat]
       /\ \A i \in {Item(v, 1) : v \in B} : i.node \in B /\ i.dist = 1
  BY <1>1 DEF FinalDist, FinalHops, Item
<1>15. Final(s, B, Visit(S, d, item))
  BY <1>13, <1>14 DEF Final, Locals
<1> QED
  BY <1>4, <1>5, <1>15 DEF S, B, d, item

\* A later turn visits a leaf, which has no links southward.
LEMMA LaterTurn ==
    ASSUME NEW s \in Spines, NEW adj \in SUBSET Leaves, NEW db \in LSDBs, NEW d,
           Final(s, Below(s, adj, db), d), NEW item \in d.pq
    PROVE  Final(s, Below(s, adj, db), Visit(Snapshot(s, adj, db), d, item))
<1> DEFINE S == Snapshot(s, adj, db)
           B == Below(s, adj, db)
<1>1. /\ item.node \in B /\ item.dist = 1 /\ B \subseteq Leaves /\ B \subseteq Nodes
      /\ s \notin B
  BY FabricConstants DEF Below, Final, Spines
<1>2. Usable(S, item.node) = {}
  BY <1>1, UsableLinks
<1>3. d \in Locals /\ d.dist = FinalDist(s, B) /\ d.nextHops = FinalHops(B)
      /\ \A i \in d.pq : i.node \in B /\ i.dist = 1
  BY DEF Final
<1> HIDE DEF S, B
<1>4. d.dist[item.node] = 1
  BY <1>1, <1>3 DEF FinalDist
<1>5. Better(S, d, item) = {} /\ Equal(S, d, item) = {}
  BY <1>2 DEF Better, Equal
<1>6. relaxDist(S, d, item) = d.dist
  BY <1>3, <1>5 DEF relaxDist, Locals
<1>7. relaxHops(S, d, item) = d.nextHops
  BY <1>3, <1>5 DEF relaxHops, Locals
<1>8. relaxQueue(S, d, item) = d.pq \ {item}
  BY <1>5 DEF relaxQueue
<1>9. Visit(S, d, item) =
        [dist |-> d.dist, nextHops |-> d.nextHops, pq |-> d.pq \ {item}]
  BY <1>1, <1>4, <1>6, <1>7, <1>8 DEF Visit
<1>10. Final(s, B, Visit(S, d, item))
  BY <1>3, <1>9 DEF Final, Locals
<1> QED
  BY <1>10 DEF S, B

\* However the heap orders the leaves, the loop ends with the same distances and
\* next hops.
LEMMA SouthboundOfSpine ==
    ASSUME NEW s \in Spines, NEW adj \in SUBSET Leaves, NEW db \in LSDBs
    PROVE  /\ ComputeSouthbound(Snapshot(s, adj, db)) # {}
           /\ \A r \in ComputeSouthbound(Snapshot(s, adj, db)) :
                \E d : /\ Final(s, Below(s, adj, db), d)
                       /\ r = AttachPrefixes(Snapshot(s, adj, db), d)
<1> DEFINE S == Snapshot(s, adj, db)
           B == Below(s, adj, db)
           start == StartDijkstra(S)
           Turn(d) == IF d.pq = {} THEN {d}
                      ELSE {e \in {Visit(S, d, item) : item \in Least(d.pq)} :
                              e \in Locals}
           All(D) == UNION {Turn(d) : d \in D}
           Is(g) == g = [k \in Nat |-> IF k = 0 THEN {start} ELSE All(g[k - 1])]
           after == CHOOSE g : Is(g)
           last == 1 + Cardinality(Nodes) * Cardinality(Nodes)
<1>1. ComputeSouthbound(S) = {AttachPrefixes(S, d) : d \in after[last]}
  BY DEF ComputeSouthbound
<1>2. /\ start \in Locals /\ Least(start.pq) = {Item(s, 0)} /\ start.pq # {}
      /\ Final(s, B, Visit(S, start, Item(s, 0)))
  BY FirstTurn
<1>3. ASSUME NEW d, Final(s, B, d), NEW item \in d.pq
      PROVE  Final(s, B, Visit(S, d, item))
  BY <1>3, LaterTurn
<1> HIDE DEF S, B, start
<1>4. ASSUME NEW d \in Locals PROVE Turn(d) \in SUBSET Locals
  OBVIOUS
<1>5. Turn(start) # {} /\ \A d \in Turn(start) : Final(s, B, d)
  <2>1. Visit(S, start, Item(s, 0)) \in Locals
    BY <1>2 DEF Final
  <2>2. Turn(start) = {Visit(S, start, Item(s, 0))}
    BY <1>2, <2>1
  <2> QED
    BY <1>2, <2>2
<1>6. ASSUME NEW d, Final(s, B, d)
      PROVE  Turn(d) # {} /\ \A e \in Turn(d) : Final(s, B, e)
  <2>1. CASE d.pq = {}
    BY <1>6, <2>1
  <2>2. CASE d.pq # {}
    <3>1. Least(d.pq) = d.pq
      BY <1>6 DEF Final, Least
    <3>2. \A item \in d.pq : /\ Final(s, B, Visit(S, d, item))
                             /\ Visit(S, d, item) \in Locals
      BY <1>3, <1>6 DEF Final
    <3>3. Turn(d) = {Visit(S, d, item) : item \in d.pq}
      BY <2>2, <3>1, <3>2
    <3> HIDE DEF Turn
    <3> QED
      BY <2>2, <3>2, <3>3
  <2> QED
    BY <2>1, <2>2
<1> HIDE DEF Turn
<1>7. \E g : Is(g)
  <2> DEFINE T == [D \in SUBSET Locals |-> All(D)]
             A == SUBSET Locals
             a == {start}
  <2>1. IsOn(T, A)
    BY <1>4 DEF IsOn
  <2>2. a \in A
    BY <1>2
  <2>3. \A D \in A : T[D] = All(D)
    OBVIOUS
  <2> HIDE DEF T, A, a
  <2>4. PICK f : Iterates(f, A, a, T)
    BY <2>1, <2>2, Iteration
  <2> HIDE DEF All
  <2>5. \A k \in Nat : f[k] = IF k = 0 THEN {start} ELSE All(f[k - 1])
    <3> SUFFICES ASSUME NEW k \in Nat
                 PROVE  f[k] = IF k = 0 THEN {start} ELSE All(f[k - 1])
      OBVIOUS
    <3>1. CASE k = 0
      BY <3>1, <2>4 DEF a, Iterates
    <3>2. CASE k # 0
      <4>1. k - 1 \in Nat /\ (k - 1) + 1 = k
        BY <3>2
      <4>2. f[k] = T[f[k - 1]] /\ f[k - 1] \in A
        BY <4>1, <2>4 DEF Iterates
      <4> QED
        BY <4>2, <2>3, <3>2
    <3> QED
      BY <3>1, <3>2
  <2>6. Is(f)
    BY <2>4, <2>5 DEF Iterates
  <2> HIDE DEF Is
  <2> QED
    BY <2>6
<1>8. Is(after)
  <2> HIDE DEF Is
  <2> QED
    BY <1>7
<1>9. \A k \in Nat : after[k] = IF k = 0 THEN {start} ELSE All(after[k - 1])
  <2> HIDE DEF after, All
  <2> QED
    BY <1>8
<1> HIDE DEF after, Is
<1>10. \A k \in Nat : after[k + 1] # {} /\ \A d \in after[k + 1] : Final(s, B, d)
  <2> DEFINE G == {k \in Nat : /\ after[k + 1] # {}
                               /\ \A d \in after[k + 1] : Final(s, B, d)}
  <2>1. \A k \in Nat : after[k + 1] = All(after[k])
    <3> HIDE DEF All
    <3> QED
      BY <1>9
  <2>2. after[0] = {start}
    BY <1>9
  <2>3. 0 \in G
    <3>1. after[1] = All(after[0])
      <4> HIDE DEF All
      <4> QED
        BY <1>9
    <3>2. after[1] = Turn(start)
      BY <3>1, <2>2
    <3> QED
      BY <3>2, <1>5
  <2>4. ASSUME NEW k \in Nat, k \in G PROVE k + 1 \in G
    <3>1. after[(k + 1) + 1] = All(after[k + 1])
      BY <2>1
    <3>2. after[k + 1] # {} /\ \A d \in after[k + 1] : Final(s, B, d)
      BY <2>4
    <3>3. \A d \in after[k + 1] :
             Turn(d) # {} /\ \A e \in Turn(d) : Final(s, B, e)
      BY <1>6, <3>2
    <3> QED
      BY <3>1, <3>2, <3>3
  <2> HIDE DEF G
  <2>5. \A k \in Nat : k \in G
    BY <2>3, <2>4, NumberInduction
  <2> QED
    BY <2>5 DEF G
<1>11. after[last] # {} /\ \A d \in after[last] : Final(s, B, d)
  <2>1. Cardinality(Nodes) \in Nat
    BY FabricConstants, FS_CardinalityType
  <2>2. Cardinality(Nodes) * Cardinality(Nodes) \in Nat
    BY <2>1
  <2> QED
    BY <1>10, <2>2
<1> QED
  BY <1>1, <1>11 DEF S, B

\* One candidate for each node of X, all equally good, together make a route
\* over all of X.
LEMMA BestOfEquals ==
    ASSUME NEW X \in SUBSET Nodes, NEW m \in Nat, NEW t \in Nat
    PROVE  /\ {Route(m, t, {n}) : n \in X} \in SUBSET Routes
           /\ IsFiniteSet({Route(m, t, {n}) : n \in X})
           /\ addAll(None, {Route(m, t, {n}) : n \in X}) =
                IF X = {} THEN None ELSE Route(m, t, X)
<1> DEFINE f == [n \in X |-> Route(m, t, {n})]
           C == {Route(m, t, {n}) : n \in X}
           b == addAll(None, C)
<1>1. C \in SUBSET Routes
  BY DEF Route, Routes
<1>2. IsFiniteSet(C)
  <2>1. IsFiniteSet(X)
    BY FabricConstants, FS_Subset
  <2>2. IsFiniteSet({f[n] : n \in X})
    <3> HIDE DEF f
    <3> QED
      BY <2>1, FiniteImage
  <2>3. {f[n] : n \in X} = C
    OBVIOUS
  <2> QED
    BY <2>2, <2>3
<1>3. IF C = {} THEN b = None ELSE IsBest(b, C)
  <2> HIDE DEF C
  <2> QED
    BY <1>1, <1>2, AddAllBest
<1>4. C = {} <=> X = {}
  OBVIOUS
<1>5. \A r \in C : r.type = t /\ r.metric = m
  BY DEF Route
<1>6. UNION {r.nextHops : r \in C} = X
  <2>1. \A n \in X : Route(m, t, {n}).nextHops = {n}
    BY DEF Route
  <2>2. \A n \in X : \E r \in C : n \in r.nextHops
    BY <2>1
  <2>3. ASSUME NEW r \in C PROVE r.nextHops \subseteq X
    <3>1. PICK n \in X : r = Route(m, t, {n})
      OBVIOUS
    <3>2. r.nextHops = {n}
      BY <2>1, <3>1
    <3> HIDE DEF C
    <3> QED
      BY <3>2
  <2> HIDE DEF C
  <2> QED
    BY <2>2, <2>3
<1>7. ASSUME X # {} PROVE b = Route(m, t, X)
  <2> HIDE DEF C, b
  <2>1. IsBest(b, C)
    BY <1>3, <1>4, <1>7
  <2>2. b \in Routes /\ b.type = t /\ b.metric = m
    BY <2>1, <1>5 DEF IsBest, AsGood
  <2>3. {c \in C : AsGood(c, b)} = C
    BY <2>2, <1>5 DEF AsGood
  <2>4. b.nextHops = X
    BY <2>1, <2>3, <1>6 DEF IsBest
  <2> QED
    BY <2>2, <2>4 DEF Route, Routes
<1> HIDE DEF C, b
<1>8. b = IF X = {} THEN None ELSE Route(m, t, X)
  BY <1>3, <1>4, <1>7
<1> QED
  BY <1>1, <1>2, <1>8 DEF C, b

\* The routes of a spine.
SpineRIB(s, adj, db) ==
    [p \in AllPrefixes |->
        IF Hops(s, adj, db, p) = {} THEN None
        ELSE Route(2, RouteTypeNorthPrefix, Hops(s, adj, db, p))]

\* The prefixes of the leaves below are attached, a link and their metric away.
LEMMA AttachOfSpine ==
    ASSUME NEW s \in Spines, NEW adj \in SUBSET Leaves, NEW db \in LSDBs, NEW d,
           Final(s, Below(s, adj, db), d)
    PROVE  AttachPrefixes(Snapshot(s, adj, db), d) = SpineRIB(s, adj, db)
<1> DEFINE S == Snapshot(s, adj, db)
           B == Below(s, adj, db)
           reached == {n \in Nodes \ {S.systemID} : d.dist[n] # None /\ d.nextHops[n] # {}}
           Attached(p, n) ==
             {Route(e[2] + d.dist[n], RouteTypeNorthPrefix, d.nextHops[n]) :
                e \in {f \in FindPrefixes(S, North, n, PrefixTIE) : f[1] = p}}
           X(p) == Hops(s, adj, db, p)
           cands == [p \in AllPrefixes |-> UNION {Attached(p, n) : n \in reached}]
<1>1. AttachPrefixes(S, d) = addRoutes(EmptyRIB, cands)
  BY DEF AttachPrefixes
<1>2. /\ S.systemID = s /\ s \notin B /\ B \subseteq Nodes /\ B \subseteq Leaves
      /\ d.dist = FinalDist(s, B) /\ d.nextHops = FinalHops(B)
  BY SnapshotFields, FabricConstants DEF Below, Spines, Final
<1>3. \A n \in B : d.dist[n] = 1 /\ d.nextHops[n] = {n}
  BY <1>2 DEF FinalDist, FinalHops
<1>4. reached = B
  <2>1. \A n \in Nodes \ B : d.nextHops[n] = {}
    BY <1>2 DEF FinalHops
  <2> QED
    BY <1>2, <1>3, <2>1, NoneAssumption
<1>5. \A n \in B : FindPrefixes(S, North, n, PrefixTIE) = {<<q, 1>> : q \in LeafPrefixes[n]}
  <2> SUFFICES ASSUME NEW n \in B
               PROVE  FindPrefixes(S, North, n, PrefixTIE) = {<<q, 1>> : q \in LeafPrefixes[n]}
    OBVIOUS
  <2> DEFINE tie == [q \in LeafPrefixes[n] |-> 1]
  <2>1. S.entries[[dir |-> North, orig |-> n, type |-> PrefixTIE]] = tie
    <3>1. S.entries = Entries(db)
      BY SnapshotFields
    <3>2. n \in Leaves
      BY <1>2
    <3>3. Entries(db)[[dir |-> North, orig |-> n, type |-> PrefixTIE]] = tie
      BY <3>2, EntriesOfLeaf
    <3> HIDE DEF S, tie
    <3> QED
      BY <3>1, <3>3
  <2>2. LeafPrefixes[n] \in SUBSET AllPrefixes
    BY <1>2, FabricConstants DEF AllPrefixes
  <2>3. tie # None
    <3>1. tie \in PrefixElements(LeafPrefixes[n])
      BY DEF PrefixElements
    <3> QED
      BY <2>2, <3>1, NoneAssumption
  <2>4. DOMAIN tie = LeafPrefixes[n] /\ \A q \in LeafPrefixes[n] : tie[q] = 1
    OBVIOUS
  <2> HIDE DEF tie, S
  <2> QED
    BY <2>1, <2>3, <2>4 DEF FindPrefixes
<1> HIDE DEF S, B
<1>6. ASSUME NEW p \in AllPrefixes, NEW n \in B
      PROVE  Attached(p, n) = IF p \in LeafPrefixes[n]
                              THEN {Route(2, RouteTypeNorthPrefix, {n})} ELSE {}
  <2>1. {f \in FindPrefixes(S, North, n, PrefixTIE) : f[1] = p} =
          IF p \in LeafPrefixes[n] THEN {<<p, 1>>} ELSE {}
    BY <1>5
  <2>2. d.dist[n] = 1 /\ d.nextHops[n] = {n} /\ <<p, 1>>[2] + 1 = 2
    BY <1>3
  <2>3. CASE p \in LeafPrefixes[n]
    <3>1. Attached(p, n) =
            {Route(<<p, 1>>[2] + d.dist[n], RouteTypeNorthPrefix, d.nextHops[n])}
      BY <2>1, <2>3
    <3> QED
      BY <3>1, <2>2, <2>3
  <2>4. CASE p \notin LeafPrefixes[n]
    BY <2>1, <2>4
  <2> QED
    BY <2>3, <2>4
<1> HIDE DEF Attached, reached
<1>7. ASSUME NEW p \in AllPrefixes
      PROVE  cands[p] = {Route(2, RouteTypeNorthPrefix, {n}) : n \in X(p)}
  <2>1. cands[p] = UNION {Attached(p, n) : n \in B}
    BY <1>4
  <2>2. X(p) = {n \in B : p \in LeafPrefixes[n]}
    BY DEF Hops, B
  <2> HIDE DEF X, cands
  <2>3. \A r : r \in cands[p] <=> \E n \in B : r \in Attached(p, n)
    BY <2>1
  <2>4. \A r : r \in cands[p] <=>
           \E n \in B : p \in LeafPrefixes[n] /\ r = Route(2, RouteTypeNorthPrefix, {n})
    <3>1. \A n \in B : \A r : r \in Attached(p, n) <=>
             p \in LeafPrefixes[n] /\ r = Route(2, RouteTypeNorthPrefix, {n})
      BY <1>6
    <3> QED
      BY <2>3, <3>1
  <2> QED
    BY <2>2, <2>4
<1>8. ASSUME NEW p \in AllPrefixes
      PROVE  addAll(None, cands[p]) = SpineRIB(s, adj, db)[p]
  <2>1. X(p) \in SUBSET Nodes
    BY <1>2 DEF Hops, B
  <2>2. SpineRIB(s, adj, db)[p] =
          IF X(p) = {} THEN None ELSE Route(2, RouteTypeNorthPrefix, X(p))
    BY DEF SpineRIB
  <2> HIDE DEF X, cands
  <2> QED
    BY <1>7, <2>1, <2>2, BestOfEquals DEF RouteTypeNorthPrefix
<1> HIDE DEF cands
<1>9. AttachPrefixes(S, d) = [p \in AllPrefixes |-> addAll(None, cands[p])]
  BY <1>1 DEF addRoutes, EmptyRIB
<1>10. AttachPrefixes(S, d) = [p \in AllPrefixes |-> SpineRIB(s, adj, db)[p]]
  BY <1>8, <1>9
<1> QED
  BY <1>10 DEF SpineRIB, S

\* Without candidates an entry stays as it is.
LEMMA AddNothing == ASSUME NEW e PROVE addAll(e, {}) = e
<1> DEFINE Pick(s) == CHOOSE x \in s : TRUE
           Is(g) == g = [s \in SUBSET {} |->
                          IF s = {} THEN e ELSE addRoute(g[s \ {Pick(s)}], Pick(s))]
           f == [s \in SUBSET {} |-> e]
           g == CHOOSE h : Is(h)
<1>1. addAll(e, {}) = g[{}]
  BY DEF addAll, FoldSet, MapThenFoldSet
<1>2. \A s \in SUBSET {} : s = {}
  OBVIOUS
<1> HIDE DEF Pick
<1>3. Is(f)
  BY <1>2
<1>4. Is(g)
  <2> HIDE DEF Is, f
  <2> QED
    BY <1>3
<1>5. g[{}] = e
  <2> HIDE DEF g
  <2> QED
    BY <1>4
<1> QED
  BY <1>1, <1>5

\* A spine has no northbound neighbors.
LEMMA NorthboundOfSpine ==
    ASSUME NEW s \in Spines, NEW adj \in SUBSET Leaves, NEW db
    PROVE  ComputeNorthbound(Snapshot(s, adj, db)) = EmptyRIB
<1> DEFINE S == Snapshot(s, adj, db)
<1>1. /\ S.level = 1 /\ DOMAIN S.adjacencies = adj
      /\ \A m \in adj : S.adjacencies[m] = 0
  <2>1. Level(s) = 1 /\ \A m \in adj : Level(m) = 0
    BY DEF Level, LeafLevel, Spines
  <2> QED
    BY <2>1, SnapshotFields
<1> HIDE DEF S
<1>2. Validated(S) = {}
  BY <1>1 DEF Validated
<1>3. ComputeNorthbound(S) = EmptyRIB
  BY <1>2 DEF ComputeNorthbound
<1> QED
  BY <1>3 DEF S

\* The neighbors that a peer has lost, as the Node TIEs tell.
LEMMA PartialOfSpine ==
    ASSUME NEW s \in Spines, NEW adj \in SUBSET Leaves, NEW db \in LSDBs
    PROVE  PartialNeighbors(Snapshot(s, adj, db)) = Lost(s, adj, db)
<1> DEFINE S == Snapshot(s, adj, db)
           t(n) == FindNodeTIE(S, South, n)
           mine == {m \in DOMAIN S.adjacencies : S.adjacencies[m] < S.level}
<1>1. /\ S.level = 1 /\ S.systemID = s /\ DOMAIN S.adjacencies = adj
      /\ \A m \in adj : S.adjacencies[m] = 0
  <2>1. Level(s) = 1 /\ \A m \in adj : Level(m) = 0
    BY DEF Level, LeafLevel, Spines
  <2> QED
    BY <2>1, SnapshotFields
<1>2. ASSUME NEW n \in Spines
      PROVE  /\ t(n) = None => Nbrs(db, n) = {}
             /\ t(n) # None => t(n).level = 1 /\ SouthOf(t(n), 1) = Nbrs(db, n)
  <2>1. /\ t(n) = None => Nbrs(db, n) = {}
        /\ t(n) # None => /\ t(n).level = 1
                          /\ DOMAIN t(n).neighbors = Nbrs(db, n)
                          /\ \A m \in Nbrs(db, n) : t(n).neighbors[m].level = 0
    BY SpineTie
  <2> HIDE DEF t
  <2> QED
    BY <2>1 DEF SouthOf
<1>3. \A l \in Leaves : t(l) = None
  BY LeafTie
<1> HIDE DEF S
<1>4. mine = adj
  BY <1>1
<1>5. Peers(S, mine) = {n \in Nodes \ {s} : /\ t(n) # None /\ t(n).level = 1
                                            /\ SouthOf(t(n), 1) \cap adj # {}}
  <2> HIDE DEF mine
  <2> QED
    BY <1>1, <1>4 DEF Peers
<1>6. PartialNeighbors(S) =
        {m \in adj : \E n \in Peers(S, mine) : m \notin SouthOf(t(n), 1)}
  BY <1>1, <1>4 DEF PartialNeighbors
<1> HIDE DEF t, mine
<1>7. Peers(S, mine) = {n \in Spines \ {s} : Nbrs(db, n) \cap adj # {}}
  BY <1>2, <1>3, <1>5 DEF Spines
<1>8. \A n \in Peers(S, mine) : SouthOf(t(n), 1) = Nbrs(db, n)
  BY <1>2, <1>7
<1>9. PartialNeighbors(S) = Lost(s, adj, db)
  BY <1>6, <1>7, <1>8 DEF Lost
<1> QED
  BY <1>9 DEF S

\* What a spine computes, whatever its LSDB: the prefixes of the leaves that it
\* shares an adjacency with in both Node TIEs, each over all leaves that have
\* it, and it disaggregates those of leaves that one of its peers has lost.
THEOREM SpineComputes ==
    ASSUME NEW s \in Spines, NEW adj \in SUBSET Leaves, NEW db \in LSDBs
    PROVE  Results(s, adj, db) = {SpineResult(s, adj, db)}
<1> DEFINE S == Snapshot(s, adj, db)
           R == SpineRIB(s, adj, db)
           X(p) == Hops(s, adj, db, p)
           northern == [p \in AllPrefixes |-> {EmptyRIB[p]} \ {None}]
<1>1. ComputeSouthbound(S) = {R}
  <2>1. /\ ComputeSouthbound(S) # {}
        /\ \A r \in ComputeSouthbound(S) :
             \E d : Final(s, Below(s, adj, db), d) /\ r = AttachPrefixes(S, d)
    BY SouthboundOfSpine
  <2>2. \A d : Final(s, Below(s, adj, db), d) => AttachPrefixes(S, d) = R
    BY AttachOfSpine
  <2> HIDE DEF S, R
  <2> QED
    BY <2>1, <2>2
<1>2. ComputeNorthbound(S) = EmptyRIB
  BY NorthboundOfSpine
<1>3. S.level # LeafLevel
  BY SnapshotFields DEF Level, LeafLevel, Spines
<1>4. \A p \in AllPrefixes :
        /\ X(p) \in SUBSET Nodes
        /\ Route(2, RouteTypeNorthPrefix, X(p)) \in Routes
        /\ Route(2, RouteTypeNorthPrefix, X(p)) # None
        /\ Route(2, RouteTypeNorthPrefix, X(p)).nextHops = X(p)
        /\ Route(2, RouteTypeNorthPrefix, X(p)).metric = 2
  <2> SUFFICES ASSUME NEW p \in AllPrefixes
               PROVE  /\ X(p) \in SUBSET Nodes
                      /\ Route(2, RouteTypeNorthPrefix, X(p)) \in Routes
                      /\ Route(2, RouteTypeNorthPrefix, X(p)) # None
                      /\ Route(2, RouteTypeNorthPrefix, X(p)).nextHops = X(p)
                      /\ Route(2, RouteTypeNorthPrefix, X(p)).metric = 2
    OBVIOUS
  <2>1. X(p) \in SUBSET Nodes
    BY FabricConstants DEF Hops, Below
  <2> HIDE DEF X
  <2>2. Route(2, RouteTypeNorthPrefix, X(p)) \in Routes
    BY <2>1 DEF Route, Routes, RouteTypeNorthPrefix
  <2>3. /\ Route(2, RouteTypeNorthPrefix, X(p)).nextHops = X(p)
        /\ Route(2, RouteTypeNorthPrefix, X(p)).metric = 2
    BY DEF Route
  <2> QED
    BY <2>1, <2>2, <2>3, NoneAssumption
<1>5. /\ R \in RIBs /\ R # None
      /\ R = [p \in AllPrefixes |-> R[p]]
      /\ \A p \in AllPrefixes :
           R[p] = IF X(p) = {} THEN None ELSE Route(2, RouteTypeNorthPrefix, X(p))
  <2> HIDE DEF X
  <2>1. R = [p \in AllPrefixes |->
               IF X(p) = {} THEN None ELSE Route(2, RouteTypeNorthPrefix, X(p))]
    BY DEF SpineRIB, X
  <2>2. R \in RIBs
    BY <1>4, <2>1 DEF RIBs
  <2> HIDE DEF R
  <2> QED
    BY <2>1, <2>2, NoneAssumption
<1> HIDE DEF R
<1>6. addRoutes(R, northern) = R
  <2>1. \A p \in AllPrefixes : northern[p] = {}
    BY DEF EmptyRIB
  <2> HIDE DEF northern
  <2>2. \A p \in AllPrefixes : addAll(R[p], northern[p]) = R[p]
    BY <2>1, AddNothing
  <2>3. addRoutes(R, northern) = [p \in AllPrefixes |-> R[p]]
    BY <2>2 DEF addRoutes
  <2> QED
    BY <2>3, <1>5
<1>7. RunEngine(S) = {[rib |-> R, southRIB |-> R]}
  <2>1. RunEngine(S) = {[rib |-> addRoutes(sr, northern), southRIB |-> sr] :
                          sr \in ComputeSouthbound(S)}
    BY <1>2, <1>3 DEF RunEngine
  <2> HIDE DEF S, northern
  <2> QED
    BY <2>1, <1>1, <1>6
<1>8. NextHops(R) = [p \in AllPrefixes |-> X(p)]
  <2> HIDE DEF X
  <2> QED
    BY <1>4, <1>5 DEF NextHops
<1>9. ComputeDisaggregation(S, R) = SpineResult(s, adj, db).disagg
  <2> DEFINE P == PartialNeighbors(S)
             Q == {q \in AllPrefixes : R[q] # None /\ R[q].nextHops \cap P # {}}
             Q2 == {q \in Prefixes : X(q) \cap P # {}}
  <2>1. P = Lost(s, adj, db)
    BY PartialOfSpine
  <2>2. X(DefaultRoute) = {}
    BY FabricConstants DEF Hops, Below
  <2>3. ComputeDisaggregation(S, R) = [p \in Q |-> R[p].metric]
    <3> HIDE DEF S
    <3> QED
      BY DEF ComputeDisaggregation
  <2>4. SpineResult(s, adj, db).disagg = [p \in Q2 |-> 2]
    BY <2>1 DEF SpineResult
  <2> HIDE DEF P, X
  <2>5. Q = Q2
    <3>1. ASSUME NEW q \in AllPrefixes
          PROVE  (R[q] # None /\ R[q].nextHops \cap P # {}) <=> X(q) \cap P # {}
      <4>1. CASE X(q) = {}
        BY <4>1, <1>5
      <4>2. CASE X(q) # {}
        <5>1. R[q] # None /\ R[q].nextHops = X(q)
          BY <4>2, <1>4, <1>5
        <5> QED
          BY <5>1
      <4> QED
        BY <4>1, <4>2
    <3> QED
      BY <3>1, <2>2 DEF AllPrefixes
  <2>6. \A p \in Q : R[p].metric = 2
    BY <1>4, <1>5
  <2> HIDE DEF Q, Q2
  <2> QED
    BY <2>3, <2>4, <2>5, <2>6
<1>10. Computed(S) = {[fib |-> NextHops(R), disagg |-> ComputeDisaggregation(S, R)]}
  <2> HIDE DEF S
  <2> DEFINE res == [rib |-> R, southRIB |-> R]
  <2>1. res.rib = R /\ res.southRIB = R
    OBVIOUS
  <2> HIDE DEF res
  <2>2. RunEngine(S) = {res}
    BY <1>7 DEF res
  <2>3. Computed(S) = {[fib |-> NextHops(res.rib),
                        disagg |-> IF res.southRIB = None THEN None
                                   ELSE ComputeDisaggregation(S, res.southRIB)]}
    BY <2>2 DEF Computed
  <2> QED
    BY <2>1, <2>3, <1>5
<1>11. Results(s, adj, db) = Computed(S)
  <2>1. Results(s, adj, db) = UNION {Computed(q) : q \in {S}}
    BY DEF Results
  <2> HIDE DEF S
  <2> QED
    BY <2>1
<1>12. SpineResult(s, adj, db) =
         [fib |-> NextHops(R), disagg |-> SpineResult(s, adj, db).disagg]
  BY <1>8 DEF SpineResult
<1> QED
  BY <1>9, <1>10, <1>11, <1>12

\* The spines that a leaf may use: those whose Node TIE lists it.
LEMMA ValidatedOfLeaf ==
    ASSUME NEW l \in Leaves, NEW adj \in SUBSET Spines, NEW db \in LSDBs
    PROVE  Validated(Snapshot(l, adj, db)) = Above(l, adj, db)
<1> DEFINE S == Snapshot(l, adj, db)
           t(m) == FindNodeTIE(S, South, m)
<1>1. /\ S.level = 0 /\ S.systemID = l /\ DOMAIN S.adjacencies = adj
      /\ \A m \in adj : S.adjacencies[m] = 1
  <2>1. Level(l) = 0 /\ \A m \in adj : Level(m) = 1
    BY DEF Level, LeafLevel, Spines
  <2> QED
    BY <2>1, SnapshotFields
<1>2. \A m \in adj : (t(m) # None /\ l \in DOMAIN t(m).neighbors) <=> l \in Nbrs(db, m)
  BY SpineTie
<1> HIDE DEF S
<1>3. Validated(S) = {m \in adj : /\ S.adjacencies[m] > S.level
                                  /\ t(m) # None /\ l \in DOMAIN t(m).neighbors}
  BY <1>1 DEF Validated
<1> HIDE DEF t
<1>4. Validated(S) = Above(l, adj, db)
  BY <1>1, <1>2, <1>3 DEF Above
<1> QED
  BY <1>4 DEF S

\* Every spine is a link of cost 1 away.
LEMMA CostOfLeaf ==
    ASSUME NEW l \in Leaves, NEW adj, NEW db \in LSDBs, NEW m
    PROVE  CostNorth(Snapshot(l, adj, db), m) = 1
<1> DEFINE S == Snapshot(l, adj, db)
           own == FindNodeTIE(S, North, l)
<1>1. own # None => /\ DOMAIN own.neighbors = Nbrs(db, l)
                    /\ \A n \in Nbrs(db, l) : own.neighbors[n].cost = 1
  BY LeafTie
<1>2. S.systemID = l
  BY SnapshotFields
<1> HIDE DEF S
<1>3. CostNorth(S, m) = IF own # None /\ m \in DOMAIN own.neighbors
                        THEN LinkCost(own.neighbors[m]) ELSE DefaultDistance
  BY <1>2 DEF CostNorth
<1> HIDE DEF own
<1>4. CostNorth(S, m) = 1
  BY <1>1, <1>3 DEF LinkCost, DefaultDistance
<1> QED
  BY <1>4 DEF S

\* The prefixes that a leaf hears of from spine m: the default route, and those
\* that m disaggregates.
LEMMA PrefixesOfSpine ==
    ASSUME NEW n, NEW adj, NEW db \in LSDBs, NEW m \in Spines
    PROVE  /\ FindPrefixes(Snapshot(n, adj, db), South, m, PrefixTIE) = {<<DefaultRoute, 1>>}
           /\ FindPrefixes(Snapshot(n, adj, db), South, m, PosDisaggTIE) =
                {<<q, 2>> : q \in Disagg(db, m)}
           /\ Disagg(db, m) \subseteq Prefixes
<1> DEFINE S == Snapshot(n, adj, db)
           tie == [p \in {DefaultRoute} |-> 1]
           c == db[DisaggID(m)].content
<1>1. /\ S.entries[[dir |-> South, orig |-> m, type |-> PrefixTIE]] = tie
      /\ S.entries[[dir |-> South, orig |-> m, type |-> PosDisaggTIE]] =
           IF db[DisaggID(m)] = None THEN None ELSE c
  <2>1. S.entries = Entries(db)
    BY SnapshotFields
  <2>2. Entries(db)[[dir |-> South, orig |-> m, type |-> PrefixTIE]] = tie
    BY EntriesOfSpine
  <2>3. Entries(db)[[dir |-> South, orig |-> m, type |-> PosDisaggTIE]] =
          IF db[DisaggID(m)] = None THEN None ELSE c
    BY EntriesOfSpine
  <2> HIDE DEF S, tie, c
  <2> QED
    BY <2>1, <2>2, <2>3
<1>2. tie # None
  <2>1. tie \in PrefixElements({DefaultRoute}) /\ {DefaultRoute} \in SUBSET AllPrefixes
    BY DEF PrefixElements, AllPrefixes
  <2> QED
    BY <2>1, NoneAssumption
<1>3. DOMAIN tie = {DefaultRoute} /\ tie[DefaultRoute] = 1
  OBVIOUS
<1> HIDE DEF S, tie
<1>4. FindPrefixes(S, South, m, PrefixTIE) = {<<DefaultRoute, 1>>}
  BY <1>1, <1>2, <1>3 DEF FindPrefixes
<1>5. db[DisaggID(m)] \in Version(Twos)
  BY DEF LSDBs
<1>6. CASE db[DisaggID(m)] = None
  BY <1>1, <1>4, <1>6 DEF FindPrefixes, Disagg, S
<1>7. CASE db[DisaggID(m)] # None
  <2>1. PICK P \in SUBSET Prefixes : c \in [P -> {2}]
    BY <1>5, <1>7 DEF Version, Twos
  <2>2. DOMAIN c = P /\ (\A q \in P : c[q] = 2) /\ Disagg(db, m) = P
    BY <2>1, <1>7 DEF Disagg
  <2>3. c # None
    <3>1. c \in PrefixElements(P) /\ P \in SUBSET AllPrefixes
      BY <2>1 DEF PrefixElements, AllPrefixes
    <3> QED
      BY <3>1, NoneAssumption
  <2> HIDE DEF c
  <2>4. FindPrefixes(S, South, m, PosDisaggTIE) = {<<q, c[q]>> : q \in P}
    BY <1>1, <1>7, <2>2, <2>3 DEF FindPrefixes
  <2> QED
    BY <1>4, <2>2, <2>4 DEF S
<1> QED
  BY <1>6, <1>7

\* The default route over all spines beats the ones that they announce.
LEMMA BestDefault ==
    ASSUME NEW V \in SUBSET Nodes, V # {}, NEW t \in Nat
    PROVE  addAll(None, {Route(2, t, {m}) : m \in V} \cup {Route(1, t, V)}) = Route(1, t, V)
<1> DEFINE A == {Route(2, t, {m}) : m \in V}
           x == Route(1, t, V)
           C == A \cup {x}
           b == addAll(None, C)
<1>1. A \in SUBSET Routes /\ IsFiniteSet(A)
  <2>1. \A k \in Nat : /\ {Route(k, t, {m}) : m \in V} \in SUBSET Routes
                       /\ IsFiniteSet({Route(k, t, {m}) : m \in V})
    BY BestOfEquals
  <2> QED
    BY <2>1
<1>2. x \in Routes /\ x.type = t /\ x.metric = 1 /\ x.nextHops = V
  BY DEF Route, Routes
<1>3. \A r \in A : r.metric = 2 /\ r.type = t
  BY DEF Route
<1> HIDE DEF A, x
<1>4. C \in SUBSET Routes /\ IsFiniteSet(C) /\ C # {}
  BY <1>1, <1>2, FS_AddElement
<1>5. IsBest(b, C)
  <2> HIDE DEF C
  <2> QED
    BY <1>4, AddAllBest
<1>6. IsBest(x, C)
  <2>1. {c \in C : AsGood(c, x)} = {x}
    BY <1>2, <1>3 DEF AsGood
  <2>2. x.nextHops = UNION {r.nextHops : r \in {c \in C : AsGood(c, x)}}
    BY <2>1
  <2>3. \E r \in C : AsGood(r, x)
    BY <1>2 DEF AsGood
  <2>4. \A r \in C : x.type < r.type \/ (x.type = r.type /\ x.metric <= r.metric)
    BY <1>2, <1>3
  <2> QED
    BY <2>2, <2>3, <2>4, <1>2 DEF IsBest
<1> HIDE DEF b, C
<1>7. b = x
  BY <1>4, <1>5, <1>6, BestIsUnique
<1> QED
  BY <1>7 DEF b, C, A, x

\* What a leaf computes, whatever its LSDB: a default route over all spines that
\* list it, and a route to a prefix over those that disaggregate the prefix.
THEOREM LeafComputes ==
    ASSUME NEW l \in Leaves, NEW adj \in SUBSET Spines, NEW db \in LSDBs
    PROVE  Results(l, adj, db) = {LeafResult(l, adj, db)}
<1> DEFINE S == Snapshot(l, adj, db)
           V == Validated(S)
           T == RouteTypeSouthPrefix
           minCost == Min({CostNorth(S, m) : m \in V})
           default == Route(minCost, T, {m \in V : CostNorth(S, m) = minCost})
           Attached(p, m) ==
             {Route(e[2] + CostNorth(S, m), T, {m}) :
                e \in {f \in FindPrefixes(S, South, m, PrefixTIE)
                             \cup FindPrefixes(S, South, m, PosDisaggTIE) :
                         f[1] = p}}
           cands == [p \in AllPrefixes |->
                       (UNION {Attached(p, m) : m \in V})
                       \cup (IF p = DefaultRoute THEN {default} ELSE {})]
           N == ComputeNorthbound(S)
           Y(p) == {m \in V : p \in Disagg(db, m)}
<1>1. V = Above(l, adj, db) /\ V \subseteq Spines /\ V \subseteq Nodes
  BY ValidatedOfLeaf DEF Above, Spines
<1>2. \A m : CostNorth(S, m) = 1
  BY CostOfLeaf
<1>3. ASSUME NEW m \in V
      PROVE  /\ FindPrefixes(S, South, m, PrefixTIE) = {<<DefaultRoute, 1>>}
             /\ FindPrefixes(S, South, m, PosDisaggTIE) = {<<q, 2>> : q \in Disagg(db, m)}
             /\ Disagg(db, m) \subseteq Prefixes
  BY <1>1, PrefixesOfSpine
<1>4. S.level = LeafLevel
  BY SnapshotFields DEF Level, Spines
<1>5. N = IF V = {} THEN EmptyRIB ELSE addRoutes(EmptyRIB, cands)
  <2> HIDE DEF S
  <2> QED
    BY DEF ComputeNorthbound
<1> HIDE DEF S
<1>6. T \in Nat /\ DefaultRoute \notin Prefixes /\ DefaultRoute \in AllPrefixes
  BY FabricConstants DEF RouteTypeSouthPrefix, AllPrefixes
<1>7. ASSUME NEW m \in V, NEW p \in AllPrefixes
      PROVE  Attached(p, m) = IF p = DefaultRoute THEN {Route(2, T, {m})}
                              ELSE IF p \in Disagg(db, m) THEN {Route(3, T, {m})} ELSE {}
  <2> DEFINE E == {f \in FindPrefixes(S, South, m, PrefixTIE)
                         \cup FindPrefixes(S, South, m, PosDisaggTIE) : f[1] = p}
  <2>1. E = IF p = DefaultRoute THEN {<<p, 1>>}
            ELSE IF p \in Disagg(db, m) THEN {<<p, 2>>} ELSE {}
    BY <1>3, <1>6
  <2>2. CostNorth(S, m) = 1
    BY <1>2
  <2>3. Attached(p, m) = {Route(e[2] + 1, T, {m}) : e \in E}
    <3> HIDE DEF E
    <3>1. Attached(p, m) = {Route(e[2] + CostNorth(S, m), T, {m}) : e \in E}
      BY DEF E
    <3> HIDE DEF Attached
    <3> QED
      BY <3>1, <2>2
  <2> HIDE DEF E, Attached
  <2>4. CASE p = DefaultRoute
    <3>1. Attached(p, m) = {Route(<<p, 1>>[2] + 1, T, {m})}
      BY <2>1, <2>3, <2>4
    <3> QED
      BY <3>1, <2>4
  <2>5. CASE p # DefaultRoute /\ p \in Disagg(db, m)
    <3>1. Attached(p, m) = {Route(<<p, 2>>[2] + 1, T, {m})}
      BY <2>1, <2>3, <2>5
    <3> QED
      BY <3>1, <2>5
  <2>6. CASE p # DefaultRoute /\ p \notin Disagg(db, m)
    BY <2>1, <2>3, <2>6
  <2> QED
    BY <2>4, <2>5, <2>6
<1>8. ASSUME V # {}
      PROVE  default = Route(1, T, V)
  <2>1. {CostNorth(S, m) : m \in V} = {1}
    BY <1>2, <1>8
  <2>2. minCost = 1
    BY <2>1 DEF Min
  <2>3. {m \in V : CostNorth(S, m) = minCost} = V
    BY <1>2, <2>2
  <2> HIDE DEF minCost
  <2> QED
    BY <2>2, <2>3
<1> HIDE DEF Attached, default, V
<1>9. ASSUME V # {}
      PROVE  cands[DefaultRoute] = {Route(2, T, {m}) : m \in V} \cup {Route(1, T, V)}
  <2>1. cands[DefaultRoute] = (UNION {Attached(DefaultRoute, m) : m \in V}) \cup {Route(1, T, V)}
    BY <1>6, <1>8, <1>9
  <2>2. \A m \in V : \A r : r \in Attached(DefaultRoute, m) <=> r = Route(2, T, {m})
    BY <1>6, <1>7
  <2> HIDE DEF cands
  <2>3. \A r : r \in cands[DefaultRoute] <=>
                (\E m \in V : r = Route(2, T, {m})) \/ r = Route(1, T, V)
    <3> DEFINE U == UNION {Attached(DefaultRoute, m) : m \in V}
    <3>1. \A r : r \in U <=> \E m \in V : r = Route(2, T, {m})
      BY <2>2
    <3>2. cands[DefaultRoute] = U \cup {Route(1, T, V)}
      BY <2>1
    <3> HIDE DEF U
    <3> QED
      BY <3>1, <3>2
  <2> QED
    BY <2>3
<1>10. ASSUME NEW p \in Prefixes
       PROVE  cands[p] = {Route(3, T, {m}) : m \in Y(p)}
  <2>1. p \in AllPrefixes /\ p # DefaultRoute
    BY <1>6 DEF AllPrefixes
  <2>2. cands[p] = UNION {Attached(p, m) : m \in V}
    BY <2>1
  <2>3. \A m \in V : \A r : r \in Attached(p, m) <=>
           p \in Disagg(db, m) /\ r = Route(3, T, {m})
    BY <2>1, <1>7
  <2> HIDE DEF cands
  <2>4. \A r : r \in cands[p] <=> \E m \in V : p \in Disagg(db, m) /\ r = Route(3, T, {m})
    BY <2>2, <2>3
  <2> QED
    BY <2>4
<1>11. NextHops(N) = LeafResult(l, adj, db).fib
  <2>1. LeafResult(l, adj, db).fib =
          [p \in AllPrefixes |-> IF p = DefaultRoute THEN V ELSE Y(p)]
    BY <1>1 DEF LeafResult
  <2>2. CASE V = {}
    <3>1. N = EmptyRIB
      BY <1>5, <2>2
    <3>2. NextHops(EmptyRIB) = [p \in AllPrefixes |-> {}]
      BY DEF NextHops, EmptyRIB
    <3>3. \A p \in AllPrefixes : (IF p = DefaultRoute THEN V ELSE Y(p)) = {}
      BY <2>2
    <3> QED
      BY <2>1, <3>1, <3>2, <3>3
  <2>3. CASE V # {}
    <3> HIDE DEF N
    <3>1. N = [p \in AllPrefixes |-> addAll(None, cands[p])]
      <4> HIDE DEF cands
      <4> QED
        BY <1>5, <2>3 DEF addRoutes, EmptyRIB
    <3>2. N[DefaultRoute] = Route(1, T, V)
      <4> HIDE DEF cands, T
      <4>1. addAll(None, cands[DefaultRoute]) = Route(1, T, V)
        BY <1>1, <1>6, <1>9, <2>3, BestDefault
      <4> QED
        BY <3>1, <4>1, <1>6
    <3>3. ASSUME NEW p \in Prefixes
          PROVE  N[p] = IF Y(p) = {} THEN None ELSE Route(3, T, Y(p))
      <4>1. Y(p) \in SUBSET Nodes /\ p \in AllPrefixes
        BY <1>1 DEF AllPrefixes
      <4>2. cands[p] = {Route(3, T, {m}) : m \in Y(p)}
        BY <1>10
      <4> HIDE DEF cands, T, Y
      <4>3. addAll(None, cands[p]) = IF Y(p) = {} THEN None ELSE Route(3, T, Y(p))
        BY <4>1, <4>2, <1>6, BestOfEquals
      <4> QED
        BY <3>1, <4>1, <4>3
    <3>4. ASSUME NEW k \in Nat, NEW H \in SUBSET Nodes
          PROVE  Route(k, T, H) # None /\ Route(k, T, H).nextHops = H
      <4>1. Route(k, T, H) \in Routes /\ Route(k, T, H).nextHops = H
        BY <1>6 DEF Route, Routes
      <4> QED
        BY <4>1, NoneAssumption
    <3> HIDE DEF T
    <3>5. ASSUME NEW p \in AllPrefixes
          PROVE  (IF N[p] = None THEN {} ELSE N[p].nextHops) =
                   IF p = DefaultRoute THEN V ELSE Y(p)
      <4>1. CASE p = DefaultRoute
        BY <4>1, <3>2, <3>4, <1>1
      <4>2. CASE p # DefaultRoute
        <5>1. p \in Prefixes /\ Y(p) \in SUBSET Nodes
          BY <4>2, <1>1 DEF AllPrefixes
        <5> HIDE DEF Y
        <5> QED
          BY <4>2, <5>1, <3>3, <3>4
      <4> QED
        BY <4>1, <4>2
    <3> HIDE DEF Y
    <3> QED
      BY <2>1, <3>5 DEF NextHops
  <2> QED
    BY <2>2, <2>3
<1>12. Computed(S) = {[fib |-> NextHops(N), disagg |-> None]}
  <2> DEFINE res == [rib |-> N, southRIB |-> None]
  <2>1. res.rib = N /\ res.southRIB = None
    OBVIOUS
  <2>2. RunEngine(S) = {res}
    BY <1>4 DEF RunEngine
  <2> HIDE DEF res
  <2>3. Computed(S) = {[fib |-> NextHops(res.rib),
                        disagg |-> IF res.southRIB = None THEN None
                                   ELSE ComputeDisaggregation(S, res.southRIB)]}
    BY <2>2 DEF Computed
  <2> QED
    BY <2>1, <2>3
<1>13. Results(l, adj, db) = Computed(S)
  <2>1. Results(l, adj, db) = UNION {Computed(q) : q \in {S}}
    BY DEF Results, S
  <2> QED
    BY <2>1
<1>14. LeafResult(l, adj, db) = [fib |-> LeafResult(l, adj, db).fib, disagg |-> None]
  BY DEF LeafResult
<1> QED
  BY <1>11, <1>12, <1>13, <1>14

-----------------------------------------------------------------------------
(* The invariant of the fabric, as predicates of the links L that are up and *)
(* the leaves T that were touched                                            *)

SteadyLeaves(T) == Leaves \ T
SteadyPrefixes(T) == {p \in Prefixes : Holders(p) \cap T = {}}

\* Spine s has a link to a holder of p; and it has to say so, for there is a
\* steady leaf below it that has another spine that has none.
Serves(L, s, p) == \E t \in Holders(p) : <<s, t>> \in L
Needed(L, T, s, p) ==
    /\ Serves(L, s, p)
    /\ \E l \in SteadyLeaves(T) : \E r \in Spines :
         <<s, l>> \in L /\ <<r, l>> \in L /\ ~Serves(L, r, p)

\* What is said of the links to steady leaves is true: N are the neighbors of
\* n, and C the prefixes that spine s disaggregates.
Right(L, T, n, N) ==
    \A m \in Opposite(n) : n \in SteadyLeaves(T) \/ m \in SteadyLeaves(T) =>
                             (m \in N <=> LinkOf(n, m) \in L)
Sound(L, T, s, C) ==
    \A p \in SteadyPrefixes(T) : /\ p \in DOMAIN C => Serves(L, s, p)
                                 /\ Needed(L, T, s, p) => p \in DOMAIN C
Correct(L, T, id, C) ==
    IF id.type = NodeTIE THEN Right(L, T, id.orig, C) ELSE Sound(L, T, id.orig, C)

\* A spine has the Node TIEs of its steady leaves and, if it has such a leaf, of
\* all spines; a steady leaf has those of its spines.
Known(L, T, n, db) ==
    /\ n \in Spines => \A l \in SteadyLeaves(T) : <<n, l>> \in L =>
         db[NodeID(l)] # None /\ \A r \in Spines : db[NodeID(r)] # None
    /\ n \in SteadyLeaves(T) => \A s \in Spines : <<s, n>> \in L => db[NodeID(s)] # None
WellInformed(L, T, n, db) ==
    /\ \A id \in TieIDs : db[id] # None => Correct(L, T, id, db[id].content)
    /\ Known(L, T, n, db)

\* A steady leaf has the TIEs of its spines that say what is needed.
Announced(L, T, n, db) ==
    n \in SteadyLeaves(T) => \A s \in Spines : <<s, n>> \in L =>
        \A p \in SteadyPrefixes(T) : Needed(L, T, s, p) => db[DisaggID(s)] # None

\* A spine sends over its links to the holders; a steady leaf over all its
\* spines by default, else over spines that serve, all that need to among them.
WellRouted(L, T, n, f) ==
    /\ n \in Spines => \A p \in SteadyPrefixes(T) :
         f[p] = {t \in Holders(p) : <<n, t>> \in L}
    /\ n \in SteadyLeaves(T) =>
         /\ f[DefaultRoute] = Adjacent(L, n)
         /\ \A p \in SteadyPrefixes(T) :
              /\ \A s \in f[p] : s \in Spines /\ <<s, n>> \in L /\ Serves(L, s, p)
              /\ \A s \in Spines : <<s, n>> \in L /\ Needed(L, T, s, p) => s \in f[p]

FabricTypes ==
    /\ links \in SUBSET Link /\ touched \in SUBSET Leaves
    /\ adjacencies \in [Nodes -> SUBSET Nodes]
    /\ \A n \in Nodes : adjacencies[n] \in SUBSET Opposite(n)
    /\ lsdb \in [Nodes -> LSDBs]
    /\ disaggUpdateCh \in [Spines -> {None} \cup Twos]
    /\ fib \in [Nodes -> [AllPrefixes -> SUBSET Nodes]]
    /\ faults \in [Link -> Nat]

\* A node's own Node TIE lists its adjacencies.
OwnTies == \A n \in Nodes : /\ lsdb[n][NodeID(n)] # None
                            /\ lsdb[n][NodeID(n)].content = adjacencies[n]

\* What a node has of a TIE, its originator has issued.
HeldIsIssued ==
    \A n \in Nodes : \A id \in TieIDs : lsdb[n][id] # None =>
        /\ lsdb[id.orig][id] # None
        /\ lsdb[n][id].seq <= lsdb[id.orig][id].seq
        /\ lsdb[n][id].seq = lsdb[id.orig][id].seq => lsdb[n][id] = lsdb[id.orig][id]

Undisturbed ==
    /\ \A n \in Nodes : /\ Right(links, touched, n, adjacencies[n])
                        /\ WellInformed(links, touched, n, lsdb[n])
                        /\ Announced(links, touched, n, lsdb[n])
                        /\ WellRouted(links, touched, n, fib[n])
    /\ \A s \in Spines : disaggUpdateCh[s] # None =>
         Sound(links, touched, s, disaggUpdateCh[s])

FabricInv == FabricTypes /\ OwnTies /\ HeldIsIssued /\ Undisturbed

-----------------------------------------------------------------------------
(* Links, TIEs and what they may hold *)

\* A link has a spine and a leaf, and is the same link from both.
LEMMA LinksOfNodes ==
    /\ \A s \in Spines, l \in Leaves : /\ LinkOf(s, l) = <<s, l>> /\ LinkOf(l, s) = <<s, l>>
                                       /\ l \in Opposite(s) /\ s \in Opposite(l)
                                       /\ s \in Nodes /\ l \in Nodes
                                       /\ s \notin Leaves /\ l \notin Spines
    /\ \A n \in Nodes : Opposite(n) \in SUBSET Nodes
    /\ \A n \in Nodes : \A m : LinkOf(n, m) \in Link => m \in Opposite(n)
    /\ \A x \in Link : x = <<x[1], x[2]>> /\ x[1] \in Spines /\ x[2] \in Leaves
<1>1. \A s \in Spines : s \in Nodes /\ s \notin Leaves
  BY DEF Spines
<1>2. \A l \in Leaves : l \in Nodes /\ l \notin Spines
  BY FabricConstants DEF Spines
<1>3. \A s \in Spines, l \in Leaves : LinkOf(s, l) = <<s, l>> /\ LinkOf(l, s) = <<s, l>>
  BY <1>2 DEF LinkOf
<1>4. \A s \in Spines, l \in Leaves : l \in Opposite(s) /\ s \in Opposite(l)
  BY <1>1 DEF Opposite
<1>5. \A n \in Nodes : Opposite(n) \in SUBSET Nodes
  BY <1>1, <1>2 DEF Opposite
<1>6. \A n \in Nodes : n \in Leaves \/ n \in Spines
  BY DEF Spines
<1>7. \A n \in Nodes : \A m : LinkOf(n, m) \in Link => m \in Opposite(n)
  BY <1>1, <1>2, <1>6 DEF LinkOf, Link, Opposite
<1>8. \A x \in Link : x = <<x[1], x[2]>> /\ x[1] \in Spines /\ x[2] \in Leaves
  BY DEF Link
<1> QED
  BY <1>1, <1>2, <1>3, <1>4, <1>5, <1>7, <1>8

\* The neighbors over the links L are on the other level.
LEMMA AdjacentNodes ==
    ASSUME NEW L \in SUBSET Link, NEW n \in Nodes
    PROVE  /\ Adjacent(L, n) \in SUBSET Opposite(n)
           /\ Adjacent(L, n) \in SUBSET Nodes
           /\ \A m \in Opposite(n) : m \in Adjacent(L, n) <=> LinkOf(n, m) \in L
<1>1. \A m : m \in Adjacent(L, n) <=> m \in Nodes /\ LinkOf(n, m) \in L
  BY DEF Adjacent
<1>2. \A m : LinkOf(n, m) \in L => m \in Opposite(n)
  BY LinksOfNodes
<1>3. Opposite(n) \in SUBSET Nodes
  BY LinksOfNodes
<1> QED
  BY <1>1, <1>2, <1>3

\* The contents of a TIE.
Contents(id) == IF id.type = NodeTIE THEN SUBSET Opposite(id.orig) ELSE Twos

\* Those of a Node TIE and of a disaggregation TIE.
LEMMA ContentsOf ==
    /\ \A n \in Nodes : Contents(NodeID(n)) = SUBSET Opposite(n)
    /\ \A s \in Spines : Contents(DisaggID(s)) = Twos
    /\ \A id \in TieIDs : Contents(id) \in SUBSET ((SUBSET Nodes) \cup Twos)
<1>1. NodeTIE # PosDisaggTIE
  BY DEF NodeTIE, PosDisaggTIE
<1>2. \A n \in Nodes : Contents(NodeID(n)) = SUBSET Opposite(n)
  BY NodeIDs DEF Contents
<1>3. \A s \in Spines : Contents(DisaggID(s)) = Twos
  BY <1>1, NodeIDs DEF Contents
<1>4. \A n \in Nodes : SUBSET Opposite(n) \in SUBSET ((SUBSET Nodes) \cup Twos)
  BY LinksOfNodes
<1>5. \A id \in TieIDs : Contents(id) \in SUBSET ((SUBSET Nodes) \cup Twos)
  BY <1>2, <1>3, <1>4, NodeIDs
<1> QED
  BY <1>2, <1>3, <1>5

\* The LSDBs, one TIE at a time.
LEMMA LSDBOfTies ==
    ASSUME NEW db
    PROVE  db \in LSDBs <=> /\ db = [id \in TieIDs |-> db[id]]
                            /\ \A id \in TieIDs : db[id] \in Version(Contents(id))
<1> DEFINE All == (SUBSET Nodes) \cup Twos
<1>1. \A C \in SUBSET All : Version(C) \subseteq Version(All)
  BY DEF Version
<1>2. \A id \in TieIDs : Version(Contents(id)) \subseteq Version(All)
  BY <1>1, ContentsOf
<1>3. ASSUME db \in LSDBs
      PROVE  /\ db = [id \in TieIDs |-> db[id]]
             /\ \A id \in TieIDs : db[id] \in Version(Contents(id))
  <2>1. /\ db \in [TieIDs -> Version(All)]
        /\ \A n \in Nodes : db[NodeID(n)] \in Version(SUBSET Opposite(n))
        /\ \A s \in Spines : db[DisaggID(s)] \in Version(Twos)
    BY <1>3 DEF LSDBs
  <2>2. \A id \in TieIDs : db[id] \in Version(Contents(id))
    BY <2>1, ContentsOf, NodeIDs
  <2> QED
    BY <2>1, <2>2
<1>4. ASSUME db = [id \in TieIDs |-> db[id]],
             \A id \in TieIDs : db[id] \in Version(Contents(id))
      PROVE  db \in LSDBs
  <2>1. db \in [TieIDs -> Version(All)]
    <3> HIDE DEF All
    <3> QED
      BY <1>2, <1>4
  <2>2. /\ \A n \in Nodes : db[NodeID(n)] \in Version(SUBSET Opposite(n))
        /\ \A s \in Spines : db[DisaggID(s)] \in Version(Twos)
    BY <1>4, ContentsOf, NodeIDs
  <2> QED
    BY <2>1, <2>2 DEF LSDBs
<1> QED
  BY <1>3, <1>4

\* A version is something.
LEMMA VersionIsNotNone ==
    ASSUME NEW id \in TieIDs, NEW k \in Nat, NEW c \in Contents(id)
    PROVE  LET v == [seq |-> k, content |-> c]
           IN  /\ v \in Version(Contents(id)) /\ v # None
               /\ v.seq = k /\ v.content = c
<1> DEFINE v == [seq |-> k, content |-> c]
<1>1. v \in Version(Contents(id)) /\ v.seq = k /\ v.content = c
  BY DEF Version
<1>2. c \in (SUBSET Nodes) \cup Twos
  BY ContentsOf
<1>3. ASSUME c \in SUBSET Nodes PROVE v # None
  <2>1. v \in [seq : Nat, content : SUBSET Nodes]
    BY <1>3
  <2> HIDE DEF v
  <2> QED
    BY <2>1, FabricConstants
<1>4. ASSUME c \in Twos PROVE v # None
  <2>1. PICK P \in SUBSET Prefixes : c \in [P -> {2}]
    BY <1>4 DEF Twos
  <2>2. c \in PrefixElements(P) /\ P \in SUBSET AllPrefixes
    BY <2>1 DEF PrefixElements, AllPrefixes
  <2>3. v \in [seq : Nat, content : PrefixElements(P)]
    BY <2>2
  <2> HIDE DEF v
  <2> QED
    BY <2>2, <2>3, FabricConstants
<1> QED
  BY <1>1, <1>2, <1>3, <1>4

-----------------------------------------------------------------------------
(* A node that is well informed computes what it should *)

\* What the LSDB of a well-informed node says of a link to a steady leaf.
LEMMA InformedOfNode ==
    ASSUME NEW L, NEW T, NEW n, NEW db, WellInformed(L, T, n, db),
           NEW m \in Nodes, db[NodeID(m)] # None
    PROVE  Nbrs(db, m) = db[NodeID(m)].content /\ Right(L, T, m, Nbrs(db, m))
<1>1. Nbrs(db, m) = db[NodeID(m)].content
  BY DEF Nbrs
<1>2. Correct(L, T, NodeID(m), db[NodeID(m)].content)
  BY NodeIDs DEF WellInformed
<1>3. Right(L, T, m, db[NodeID(m)].content)
  BY <1>2, NodeIDs DEF Correct
<1> QED
  BY <1>1, <1>3

\* What it says of the prefixes that a spine disaggregates.
LEMMA InformedOfDisagg ==
    ASSUME NEW L, NEW T, NEW n, NEW db, WellInformed(L, T, n, db),
           NEW s \in Spines, db[DisaggID(s)] # None
    PROVE  /\ Disagg(db, s) = DOMAIN db[DisaggID(s)].content
           /\ Sound(L, T, s, db[DisaggID(s)].content)
<1>1. Disagg(db, s) = DOMAIN db[DisaggID(s)].content
  BY DEF Disagg
<1>2. Correct(L, T, DisaggID(s), db[DisaggID(s)].content)
  BY NodeIDs DEF WellInformed
<1>3. NodeTIE # PosDisaggTIE
  BY DEF NodeTIE, PosDisaggTIE
<1>4. Sound(L, T, s, db[DisaggID(s)].content)
  BY <1>2, <1>3, NodeIDs DEF Correct
<1> QED
  BY <1>1, <1>4

\* The types of what is computed.
LEMMA ResultTypes ==
    ASSUME NEW n \in Nodes, NEW adj \in SUBSET Nodes, NEW db
    PROVE  /\ SpineResult(n, adj, db).fib \in [AllPrefixes -> SUBSET Nodes]
           /\ SpineResult(n, adj, db).disagg \in Twos
           /\ LeafResult(n, adj, db).fib \in [AllPrefixes -> SUBSET Nodes]
<1>1. \A p : Hops(n, adj, db, p) \in SUBSET Nodes
  BY FabricConstants DEF Hops, Below
<1>2. SpineResult(n, adj, db).fib \in [AllPrefixes -> SUBSET Nodes]
  BY <1>1 DEF SpineResult
<1>3. SpineResult(n, adj, db).disagg \in Twos
  <2> DEFINE D == {q \in Prefixes : Hops(n, adj, db, q) \cap Lost(n, adj, db) # {}}
  <2>1. SpineResult(n, adj, db).disagg = [p \in D |-> 2]
    BY DEF SpineResult
  <2>2. D \in SUBSET Prefixes
    OBVIOUS
  <2> HIDE DEF D
  <2>3. [p \in D |-> 2] \in [D -> {2}]
    OBVIOUS
  <2> QED
    BY <2>1, <2>2, <2>3 DEF Twos
<1>4. LeafResult(n, adj, db).fib \in [AllPrefixes -> SUBSET Nodes]
  BY DEF LeafResult, Above
<1> QED
  BY <1>2, <1>3, <1>4

\* A spine reaches exactly the holders of a steady prefix that it has a link to.
LEMMA SpineReaches ==
    ASSUME NEW L \in SUBSET Link, NEW T, NEW s \in Spines, NEW adj \in SUBSET Leaves,
           NEW db \in LSDBs, Right(L, T, s, adj), WellInformed(L, T, s, db),
           db[NodeID(s)] # None, db[NodeID(s)].content = adj,
           NEW p \in SteadyPrefixes(T)
    PROVE  Hops(s, adj, db, p) = {t \in Holders(p) : <<s, t>> \in L}
<1>1. \A t \in Holders(p) : t \in Leaves /\ t \in SteadyLeaves(T)
  BY DEF SteadyPrefixes, SteadyLeaves, Holders
<1>2. Nbrs(db, s) = adj
  BY DEF Nbrs
<1>3. ASSUME NEW t \in Leaves, t \in SteadyLeaves(T)
      PROVE  t \in Below(s, adj, db) <=> <<s, t>> \in L
  <2>1. LinkOf(s, t) = <<s, t>> /\ LinkOf(t, s) = <<s, t>> /\ t \in Nodes
        /\ t \in Opposite(s) /\ s \in Opposite(t)
    BY LinksOfNodes
  <2>2. t \in adj <=> <<s, t>> \in L
    BY <1>3, <2>1 DEF Right
  <2>3. ASSUME <<s, t>> \in L PROVE s \in Nbrs(db, t)
    <3>1. db[NodeID(t)] # None
      BY <1>3, <2>3 DEF WellInformed, Known
    <3>2. Right(L, T, t, Nbrs(db, t))
      BY <2>1, <3>1, InformedOfNode
    <3> QED
      BY <3>2, <1>3, <2>1, <2>3 DEF Right
  <2> QED
    BY <1>2, <2>2, <2>3 DEF Below
<1>4. \A t : t \in Hops(s, adj, db, p) <=> t \in Below(s, adj, db) /\ t \in Holders(p)
  BY DEF Hops, Below, Holders
<1> QED
  BY <1>1, <1>3, <1>4

\* A spine disaggregates all that it needs to and nothing that it cannot deliver.
LEMMA SpineDisaggregates ==
    ASSUME NEW L \in SUBSET Link, NEW T, NEW s \in Spines, NEW adj \in SUBSET Leaves,
           NEW db \in LSDBs, Right(L, T, s, adj), WellInformed(L, T, s, db),
           db[NodeID(s)] # None, db[NodeID(s)].content = adj
    PROVE  Sound(L, T, s, SpineResult(s, adj, db).disagg)
<1> DEFINE C == SpineResult(s, adj, db).disagg
<1>1. DOMAIN C = {q \in Prefixes : Hops(s, adj, db, q) \cap Lost(s, adj, db) # {}}
  BY DEF SpineResult
<1> HIDE DEF C
<1> SUFFICES ASSUME NEW p \in SteadyPrefixes(T)
             PROVE  /\ p \in DOMAIN C => Serves(L, s, p)
                    /\ Needed(L, T, s, p) => p \in DOMAIN C
  BY DEF Sound, C
<1>2. p \in Prefixes
  BY DEF SteadyPrefixes
<1>3. Hops(s, adj, db, p) = {t \in Holders(p) : <<s, t>> \in L}
  BY SpineReaches
<1>4. p \in DOMAIN C => Serves(L, s, p)
  BY <1>1, <1>3 DEF Serves
<1>5. ASSUME Needed(L, T, s, p) PROVE p \in DOMAIN C
  <2>1. PICK t \in Holders(p) : <<s, t>> \in L
    BY <1>5 DEF Needed, Serves
  <2>2. PICK l \in SteadyLeaves(T), r \in Spines :
          <<s, l>> \in L /\ <<r, l>> \in L /\ ~Serves(L, r, p)
    BY <1>5 DEF Needed
  <2>3. r # s /\ <<r, t>> \notin L
    BY <2>1, <2>2 DEF Serves
  <2>4. t \in Leaves /\ t \in SteadyLeaves(T) /\ l \in Leaves
    BY DEF SteadyPrefixes, SteadyLeaves, Holders
  <2>5. /\ \A v \in {t, l} : /\ LinkOf(s, v) = <<s, v>> /\ LinkOf(r, v) = <<r, v>>
                             /\ v \in Opposite(s) /\ v \in Opposite(r)
        /\ r \in Nodes
    BY <2>4, LinksOfNodes
  <2>6. t \in adj /\ l \in adj
    BY <2>1, <2>2, <2>4, <2>5 DEF Right
  <2>7. db[NodeID(r)] # None
    BY <2>2 DEF WellInformed, Known
  <2>8. Right(L, T, r, Nbrs(db, r))
    BY <2>5, <2>7, InformedOfNode
  <2>9. l \in Nbrs(db, r) /\ t \notin Nbrs(db, r)
    BY <2>2, <2>3, <2>4, <2>5, <2>8 DEF Right
  <2>10. t \in Lost(s, adj, db)
    BY <2>3, <2>6, <2>9 DEF Lost
  <2> QED
    BY <1>1, <1>2, <1>3, <2>1, <2>10
<1> QED
  BY <1>4, <1>5

\* The routes of a spine and of a steady leaf.
LEMMA SpineRoutes ==
    ASSUME NEW L \in SUBSET Link, NEW T, NEW s \in Spines, NEW adj \in SUBSET Leaves,
           NEW db \in LSDBs, Right(L, T, s, adj), WellInformed(L, T, s, db),
           db[NodeID(s)] # None, db[NodeID(s)].content = adj
    PROVE  WellRouted(L, T, s, SpineResult(s, adj, db).fib)
<1>1. s \notin SteadyLeaves(T)
  BY DEF Spines, SteadyLeaves
<1>2. \A p \in AllPrefixes : SpineResult(s, adj, db).fib[p] = Hops(s, adj, db, p)
  BY DEF SpineResult
<1>3. \A p \in SteadyPrefixes(T) : /\ p \in AllPrefixes
                                   /\ Hops(s, adj, db, p) = {t \in Holders(p) : <<s, t>> \in L}
  BY SpineReaches DEF SteadyPrefixes, AllPrefixes
<1> QED
  BY <1>1, <1>2, <1>3 DEF WellRouted

\* A steady leaf sends over spines that deliver.
LEMMA LeafRoutes ==
    ASSUME NEW L \in SUBSET Link, NEW T, NEW l \in SteadyLeaves(T),
           NEW adj \in SUBSET Spines, NEW db \in LSDBs,
           Right(L, T, l, adj), WellInformed(L, T, l, db), Announced(L, T, l, db)
    PROVE  WellRouted(L, T, l, LeafResult(l, adj, db).fib)
<1> DEFINE f == LeafResult(l, adj, db).fib
<1>1. l \in Leaves /\ l \in Nodes /\ l \notin Spines
  BY LinksOfNodes, FabricConstants DEF SteadyLeaves, Spines
<1>2. \A s \in Spines : /\ LinkOf(s, l) = <<s, l>> /\ LinkOf(l, s) = <<s, l>>
                        /\ l \in Opposite(s) /\ s \in Opposite(l) /\ s \in Nodes
  BY <1>1, LinksOfNodes
<1>3. ASSUME NEW s \in Spines PROVE s \in Above(l, adj, db) <=> <<s, l>> \in L
  <2>1. s \in adj <=> <<s, l>> \in L
    BY <1>2 DEF Right
  <2>2. ASSUME <<s, l>> \in L PROVE l \in Nbrs(db, s)
    <3>1. db[NodeID(s)] # None
      BY <2>2 DEF WellInformed, Known
    <3>2. Right(L, T, s, Nbrs(db, s))
      BY <1>2, <3>1, InformedOfNode
    <3> QED
      BY <3>2, <1>2, <2>2 DEF Right
  <2> QED
    BY <2>1, <2>2 DEF Above
<1>4. Above(l, adj, db) \in SUBSET Spines
  BY DEF Above
<1>5. Above(l, adj, db) = Adjacent(L, l)
  <2>1. Adjacent(L, l) \in SUBSET Spines
    BY <1>1, AdjacentNodes DEF Opposite
  <2>2. \A s \in Spines : s \in Adjacent(L, l) <=> <<s, l>> \in L
    BY <1>2 DEF Adjacent
  <2> QED
    BY <1>3, <1>4, <2>1, <2>2
<1>6. DefaultRoute \notin Prefixes
  BY FabricConstants
<1>7. /\ f[DefaultRoute] = Above(l, adj, db)
      /\ \A p \in Prefixes : f[p] = {m \in Above(l, adj, db) : p \in Disagg(db, m)}
  BY <1>6 DEF LeafResult, AllPrefixes
<1> HIDE DEF f
<1>8. ASSUME NEW p \in SteadyPrefixes(T)
      PROVE  /\ \A s \in f[p] : s \in Spines /\ <<s, l>> \in L /\ Serves(L, s, p)
             /\ \A s \in Spines : <<s, l>> \in L /\ Needed(L, T, s, p) => s \in f[p]
  <2>1. f[p] = {m \in Above(l, adj, db) : p \in Disagg(db, m)}
    BY <1>7 DEF SteadyPrefixes
  <2>2. ASSUME NEW s \in f[p] PROVE s \in Spines /\ <<s, l>> \in L /\ Serves(L, s, p)
    <3>1. s \in Spines /\ <<s, l>> \in L /\ p \in Disagg(db, s)
      BY <1>3, <1>4, <2>1
    <3>2. db[DisaggID(s)] # None
      BY <3>1 DEF Disagg
    <3> QED
      BY <3>1, <3>2, InformedOfDisagg DEF Sound
  <2>3. ASSUME NEW s \in Spines, <<s, l>> \in L, Needed(L, T, s, p) PROVE s \in f[p]
    <3>1. db[DisaggID(s)] # None
      BY <2>3 DEF Announced
    <3>2. p \in Disagg(db, s)
      BY <2>3, <3>1, InformedOfDisagg DEF Sound
    <3> QED
      BY <1>3, <2>1, <2>3, <3>2
  <2> QED
    BY <2>2, <2>3
<1> QED
  BY <1>1, <1>5, <1>7, <1>8 DEF WellRouted, f

\* All that is kept when the links of a leaf change and the leaf counts as touched.
Quieter(L, T, L2, T2) ==
    /\ T \subseteq T2
    /\ \A l \in SteadyLeaves(T2), s \in Spines : <<s, l>> \in L2 <=> <<s, l>> \in L

\* Nothing that is right for some links and touched leaves is wrong for quieter ones.
LEMMA QuieterKeeps ==
    ASSUME NEW L \in SUBSET Link, NEW T, NEW L2 \in SUBSET Link, NEW T2,
           Quieter(L, T, L2, T2), NEW n \in Nodes
    PROVE  /\ \A N : Right(L, T, n, N) => Right(L2, T2, n, N)
           /\ \A C : Sound(L, T, n, C) /\ n \in Spines => Sound(L2, T2, n, C)
           /\ \A db : WellInformed(L, T, n, db) => WellInformed(L2, T2, n, db)
           /\ \A db : Announced(L, T, n, db) => Announced(L2, T2, n, db)
           /\ \A f : WellRouted(L, T, n, f) => WellRouted(L2, T2, n, f)
<1>1. /\ SteadyLeaves(T2) \subseteq SteadyLeaves(T) /\ SteadyLeaves(T2) \subseteq Leaves
      /\ \A p \in SteadyPrefixes(T2) : p \in SteadyPrefixes(T)
      /\ \A p \in SteadyPrefixes(T2) : Holders(p) \subseteq SteadyLeaves(T2)
  BY DEF Quieter, SteadyLeaves, SteadyPrefixes, Holders
<1>2. \A l \in SteadyLeaves(T2), s \in Spines : <<s, l>> \in L2 <=> <<s, l>> \in L
  BY DEF Quieter
<1>3. \A p \in SteadyPrefixes(T2), s \in Spines : Serves(L2, s, p) <=> Serves(L, s, p)
  BY <1>1, <1>2 DEF Serves
<1>4. \A p \in SteadyPrefixes(T2), s \in Spines : Needed(L2, T2, s, p) => Needed(L, T, s, p)
  BY <1>1, <1>2, <1>3 DEF Needed
<1>5. ASSUME NEW m \in Nodes, NEW N, Right(L, T, m, N) PROVE Right(L2, T2, m, N)
  <2> SUFFICES ASSUME NEW v \in Opposite(m), m \in SteadyLeaves(T2) \/ v \in SteadyLeaves(T2)
               PROVE  v \in N <=> LinkOf(m, v) \in L2
    BY DEF Right
  <2>1. v \in N <=> LinkOf(m, v) \in L
    BY <1>1, <1>5 DEF Right
  <2>2. PICK s \in Spines, l \in SteadyLeaves(T2) : LinkOf(m, v) = <<s, l>>
    <3>1. CASE m \in SteadyLeaves(T2)
      BY <3>1, <1>1, LinksOfNodes DEF Opposite
    <3>2. CASE v \in SteadyLeaves(T2)
      <4>1. m \in Spines
        BY <3>2, <1>1, LinksOfNodes DEF Opposite, Spines
      <4> QED
        BY <4>1, <3>2, <1>1, LinksOfNodes
    <3> QED
      BY <3>1, <3>2
  <2> QED
    BY <2>1, <2>2, <1>2
<1>6. ASSUME NEW m \in Spines, NEW C, Sound(L, T, m, C) PROVE Sound(L2, T2, m, C)
  BY <1>1, <1>3, <1>4, <1>6 DEF Sound
<1>7. ASSUME NEW db, WellInformed(L, T, n, db) PROVE WellInformed(L2, T2, n, db)
  <2>1. ASSUME NEW id \in TieIDs, db[id] # None PROVE Correct(L2, T2, id, db[id].content)
    <3>1. Correct(L, T, id, db[id].content)
      BY <1>7, <2>1 DEF WellInformed
    <3>2. \/ id.type = NodeTIE /\ id.orig \in Nodes
          \/ id.type # NodeTIE /\ id.orig \in Spines
      BY NodeIDs DEF NodeTIE, PosDisaggTIE
    <3> QED
      BY <1>5, <1>6, <3>1, <3>2 DEF Correct
  <2>2. Known(L, T, n, db)
    BY <1>7 DEF WellInformed
  <2>3. Known(L2, T2, n, db)
    BY <1>1, <1>2, <2>2 DEF Known
  <2> QED
    BY <2>1, <2>3 DEF WellInformed
<1>8. ASSUME NEW f, WellRouted(L, T, n, f) PROVE WellRouted(L2, T2, n, f)
  <2>1. ASSUME n \in Spines, NEW p \in SteadyPrefixes(T2)
        PROVE  f[p] = {t \in Holders(p) : <<n, t>> \in L2}
    <3>1. f[p] = {t \in Holders(p) : <<n, t>> \in L}
      BY <1>1, <1>8, <2>1 DEF WellRouted
    <3>2. \A t \in Holders(p) : <<n, t>> \in L2 <=> <<n, t>> \in L
      BY <1>1, <1>2, <2>1
    <3> QED
      BY <3>1, <3>2
  <2>2. ASSUME n \in SteadyLeaves(T2)
        PROVE  /\ f[DefaultRoute] = Adjacent(L2, n)
               /\ \A p \in SteadyPrefixes(T2) :
                    /\ \A s \in f[p] : s \in Spines /\ <<s, n>> \in L2 /\ Serves(L2, s, p)
                    /\ \A s \in Spines : <<s, n>> \in L2 /\ Needed(L2, T2, s, p) => s \in f[p]
    <3>1. n \in Leaves /\ n \in SteadyLeaves(T)
      BY <1>1, <2>2
    <3>2. /\ f[DefaultRoute] = Adjacent(L, n)
          /\ \A p \in SteadyPrefixes(T) :
               /\ \A s \in f[p] : s \in Spines /\ <<s, n>> \in L /\ Serves(L, s, p)
               /\ \A s \in Spines : <<s, n>> \in L /\ Needed(L, T, s, p) => s \in f[p]
      BY <1>8, <3>1 DEF WellRouted
    <3>3. Adjacent(L2, n) = Adjacent(L, n)
      <4>1. \A m \in Spines : LinkOf(n, m) = <<m, n>> /\ m \in Opposite(n)
        BY <3>1, LinksOfNodes
      <4>2. Adjacent(L2, n) \in SUBSET Spines /\ Adjacent(L, n) \in SUBSET Spines
        BY <3>1, AdjacentNodes DEF Opposite
      <4>3. \A m \in Spines : m \in Adjacent(L2, n) <=> m \in Adjacent(L, n)
        BY <4>1, <1>2, <2>2, AdjacentNodes
      <4> QED
        BY <4>2, <4>3
    <3> QED
      BY <1>1, <1>2, <1>3, <1>4, <2>2, <3>2, <3>3
  <2> QED
    BY <2>1, <2>2 DEF WellRouted
<1>9. ASSUME NEW db, Announced(L, T, n, db) PROVE Announced(L2, T2, n, db)
  BY <1>1, <1>2, <1>4, <1>9 DEF Announced
<1> QED
  BY <1>5, <1>6, <1>7, <1>8, <1>9

-----------------------------------------------------------------------------
(* Every step keeps the invariant *)

\* The step of one node's LSDB: it has a new version v of a TIE.
Installs(n, id, v) ==
    /\ lsdb' \in [Nodes -> LSDBs] /\ lsdb'[n][id] = v
    /\ \A m \in Nodes, j \in TieIDs : m # n \/ j # id => lsdb'[m][j] = lsdb[m][j]

\* The version of a TIE that a node has.
LEMMA HeldVersion ==
    ASSUME FabricTypes, NEW n \in Nodes, NEW id \in TieIDs
    PROVE  /\ lsdb[n] \in LSDBs /\ lsdb[n][id] \in Version(Contents(id))
           /\ lsdb[n][id] # None => /\ lsdb[n][id].seq \in Nat
                                    /\ lsdb[n][id].content \in Contents(id)
<1>1. lsdb[n] \in LSDBs
  BY DEF FabricTypes
<1>2. lsdb[n][id] \in Version(Contents(id))
  BY <1>1, LSDBOfTies
<1> QED
  BY <1>1, <1>2 DEF Version

\* A node puts a version of a TIE into its LSDB.
LEMMA InstallTypes ==
    ASSUME FabricTypes, NEW n \in Nodes, NEW id \in TieIDs, NEW v \in Version(Contents(id)),
           lsdb' = [lsdb EXCEPT ![n] = [lsdb[n] EXCEPT ![id] = v]]
    PROVE  Installs(n, id, v)
<1> DEFINE new == [lsdb[n] EXCEPT ![id] = v]
<1>1. lsdb[n] \in LSDBs /\ lsdb \in [Nodes -> LSDBs]
  BY HeldVersion DEF FabricTypes
<1>2. lsdb[n] = [j \in TieIDs |-> lsdb[n][j]]
      /\ \A j \in TieIDs : lsdb[n][j] \in Version(Contents(j))
  BY <1>1, LSDBOfTies
<1>3. /\ new[id] = v /\ \A j \in TieIDs : j # id => new[j] = lsdb[n][j]
      /\ new = [j \in TieIDs |-> new[j]]
  BY <1>2
<1>4. lsdb' = [lsdb EXCEPT ![n] = new]
  OBVIOUS
<1> HIDE DEF new
<1>5. \A j \in TieIDs : new[j] \in Version(Contents(j))
  BY <1>2, <1>3
<1>6. new \in LSDBs
  BY <1>3, <1>5, LSDBOfTies
<1>7. lsdb' \in [Nodes -> LSDBs] /\ lsdb'[n] = new
      /\ \A m \in Nodes : m # n => lsdb'[m] = lsdb[m]
  BY <1>1, <1>4, <1>6
<1> QED
  BY <1>3, <1>7 DEF Installs

\* insertSelfOriginated: a newer version.
LEMMA IssueTypes ==
    ASSUME FabricTypes, NEW n \in Nodes, NEW id \in TieIDs, NEW c \in Contents(id),
           lsdb' = [lsdb EXCEPT ![n] = insertSelfOriginated(lsdb[n], id, c)]
    PROVE  \E v : /\ Installs(n, id, v) /\ v # None /\ v.content = c
                  /\ lsdb[n][id] # None => v.seq > lsdb[n][id].seq
<1> DEFINE k == IF lsdb[n][id] = None THEN 1 ELSE lsdb[n][id].seq + 1
           v == [seq |-> k, content |-> c]
<1>1. k \in Nat /\ (lsdb[n][id] # None => k > lsdb[n][id].seq)
  BY HeldVersion
<1>2. lsdb[n] = [j \in TieIDs |-> lsdb[n][j]]
  BY HeldVersion, LSDBOfTies
<1>3. insertSelfOriginated(lsdb[n], id, c) = [lsdb[n] EXCEPT ![id] = v]
  BY <1>2 DEF insertSelfOriginated
<1>4. v \in Version(Contents(id)) /\ v # None /\ v.seq = k /\ v.content = c
  <2> HIDE DEF k
  <2> QED
    BY <1>1, VersionIsNotNone
<1> HIDE DEF k, v
<1>5. Installs(n, id, v)
  BY <1>3, <1>4, InstallTypes
<1> QED
  BY <1>1, <1>4, <1>5

\* A correct TIE that is installed leaves every node well informed.
LEMMA InstallInforms ==
    ASSUME FabricInv, NEW n \in Nodes, NEW id \in TieIDs, NEW v, v # None,
           Installs(n, id, v), Correct(links, touched, id, v.content)
    PROVE  \A m \in Nodes : /\ WellInformed(links, touched, m, lsdb'[m])
                            /\ Announced(links, touched, m, lsdb'[m])
<1> SUFFICES ASSUME NEW m \in Nodes
             PROVE  /\ WellInformed(links, touched, m, lsdb'[m])
                    /\ Announced(links, touched, m, lsdb'[m])
  OBVIOUS
<1>1. WellInformed(links, touched, m, lsdb[m]) /\ Announced(links, touched, m, lsdb[m])
  BY DEF FabricInv, Undisturbed
<1>2. \A j \in TieIDs : lsdb'[m][j] = lsdb[m][j] \/ (j = id /\ lsdb'[m][j] = v)
  BY DEF Installs
<1>3. \A j \in TieIDs : lsdb'[m][j] # None => Correct(links, touched, j, lsdb'[m][j].content)
  BY <1>1, <1>2 DEF WellInformed
<1>4. \A j \in TieIDs : lsdb[m][j] # None => lsdb'[m][j] # None
  BY <1>2
<1>5. Known(links, touched, m, lsdb[m])
  BY <1>1 DEF WellInformed
<1>6. \A x \in Nodes : lsdb[m][NodeID(x)] # None => lsdb'[m][NodeID(x)] # None
  BY <1>4, NodeIDs
<1>7. \A x \in Spines : lsdb[m][DisaggID(x)] # None => lsdb'[m][DisaggID(x)] # None
  BY <1>4, NodeIDs
<1>8. Known(links, touched, m, lsdb'[m])
  <2>1. (\A x \in Spines : x \in Nodes) /\ \A x \in SteadyLeaves(touched) : x \in Nodes
    BY FabricConstants DEF Spines, SteadyLeaves
  <2> QED
    BY <1>5, <1>6, <2>1 DEF Known
<1>9. Announced(links, touched, m, lsdb'[m])
  BY <1>1, <1>7 DEF Announced
<1> QED
  BY <1>3, <1>8, <1>9 DEF WellInformed

\* Versions that are held stay issued, when the originator issues a newer one
\* and when a node takes over what another has.
LEMMA IssueKeepsHeld ==
    ASSUME FabricInv, NEW n \in Nodes, NEW id \in TieIDs, NEW v, v # None,
           id.orig = n, Installs(n, id, v), lsdb[n][id] # None => v.seq > lsdb[n][id].seq
    PROVE  HeldIsIssued'
<1>1. v.seq \in Nat
  <2>1. lsdb'[n] \in LSDBs /\ lsdb'[n][id] = v
    BY DEF Installs
  <2>2. v \in Version(Contents(id))
    BY <2>1, LSDBOfTies
  <2> QED
    BY <2>2 DEF Version
<1> SUFFICES ASSUME NEW m \in Nodes, NEW j \in TieIDs, lsdb'[m][j] # None
             PROVE  /\ lsdb'[j.orig][j] # None
                    /\ lsdb'[m][j].seq <= lsdb'[j.orig][j].seq
                    /\ lsdb'[m][j].seq = lsdb'[j.orig][j].seq => lsdb'[m][j] = lsdb'[j.orig][j]
  BY DEF HeldIsIssued
<1>2. j.orig \in Nodes
  BY NodeIDs DEF Spines
<1>3. CASE j # id
  BY <1>2, <1>3 DEF FabricInv, HeldIsIssued, Installs
<1>4. CASE j = id /\ m = n
  BY <1>1, <1>4 DEF Installs
<1>5. CASE j = id /\ m # n
  <2>1. lsdb'[m][j] = lsdb[m][j] /\ lsdb'[n][j] = v
    BY <1>5 DEF Installs
  <2>2. lsdb[n][j] # None /\ lsdb[m][j].seq <= lsdb[n][j].seq
    BY <1>5, <2>1 DEF FabricInv, HeldIsIssued
  <2>3. lsdb[m][j].seq \in Nat /\ lsdb[n][j].seq \in Nat
    BY <2>1, <2>2, HeldVersion DEF FabricInv
  <2> QED
    BY <1>1, <1>5, <2>1, <2>2, <2>3
<1> QED
  BY <1>3, <1>4, <1>5

\* The same when node m takes over what n has.
LEMMA CopyKeepsHeld ==
    ASSUME FabricInv, NEW n \in Nodes, NEW m \in Nodes, NEW id \in TieIDs,
           lsdb[n][id] # None, id.orig # m, Installs(m, id, lsdb[n][id])
    PROVE  HeldIsIssued'
<1> SUFFICES ASSUME NEW k \in Nodes, NEW j \in TieIDs, lsdb'[k][j] # None
             PROVE  /\ lsdb'[j.orig][j] # None
                    /\ lsdb'[k][j].seq <= lsdb'[j.orig][j].seq
                    /\ lsdb'[k][j].seq = lsdb'[j.orig][j].seq => lsdb'[k][j] = lsdb'[j.orig][j]
  BY DEF HeldIsIssued
<1>1. j.orig \in Nodes
  BY NodeIDs DEF Spines
<1>2. lsdb'[j.orig][j] = lsdb[j.orig][j]
  BY <1>1 DEF Installs
<1>3. lsdb'[k][j] = lsdb[k][j] \/ (j = id /\ lsdb'[k][j] = lsdb[n][j])
  BY DEF Installs
<1> QED
  BY <1>2, <1>3 DEF FabricInv, HeldIsIssued

\* A link changes: its leaf is no longer steady, and nothing else is said.
LEMMA LinkChangesInv ==
    ASSUME FabricInv, NEW l \in Link, LinkChanges(l)
    PROVE  FabricInv'
<1>1. /\ l = <<l[1], l[2]>> /\ l[2] \in Leaves
      /\ links' \in SUBSET Link /\ touched' = touched \cup {l[2]}
      /\ \A x : x # l => (x \in links' <=> x \in links)
  BY LinksOfNodes DEF LinkChanges, FabricInv, FabricTypes
<1>2. /\ adjacencies' = adjacencies /\ lsdb' = lsdb
      /\ disaggUpdateCh' = disaggUpdateCh /\ fib' = fib
  BY DEF LinkChanges
<1>3. FabricTypes'
  <2>1. faults' \in [Link -> Nat]
    BY DEF LinkChanges, FabricInv, FabricTypes
  <2>2. touched' \in SUBSET Leaves
    BY <1>1 DEF FabricInv, FabricTypes
  <2> QED
    BY <1>1, <1>2, <2>1, <2>2 DEF FabricInv, FabricTypes
<1>4. OwnTies' /\ HeldIsIssued'
  BY <1>2 DEF FabricInv, OwnTies, HeldIsIssued
<1>5. Quieter(links, touched, links', touched')
  <2>1. \A x \in SteadyLeaves(touched'), s \in Spines : <<s, x>> # l
    BY <1>1 DEF SteadyLeaves
  <2> QED
    BY <1>1, <2>1 DEF Quieter
<1>6. ASSUME NEW n \in Nodes
      PROVE  /\ Right(links', touched', n, adjacencies'[n])
             /\ WellInformed(links', touched', n, lsdb'[n])
             /\ Announced(links', touched', n, lsdb'[n])
             /\ WellRouted(links', touched', n, fib'[n])
  <2>1. /\ Right(links, touched, n, adjacencies[n])
        /\ WellInformed(links, touched, n, lsdb[n])
        /\ Announced(links, touched, n, lsdb[n])
        /\ WellRouted(links, touched, n, fib[n])
    BY DEF FabricInv, Undisturbed
  <2>2. links \in SUBSET Link
    BY DEF FabricInv, FabricTypes
  <2> QED
    BY <1>1, <1>2, <1>5, <2>1, <2>2, QuieterKeeps
<1>7. ASSUME NEW s \in Spines, disaggUpdateCh'[s] # None
      PROVE  Sound(links', touched', s, disaggUpdateCh'[s])
  <2>1. Sound(links, touched, s, disaggUpdateCh[s])
    BY <1>2, <1>7 DEF FabricInv, Undisturbed
  <2>2. links \in SUBSET Link /\ s \in Nodes
    BY DEF FabricInv, FabricTypes, Spines
  <2> QED
    BY <1>1, <1>2, <1>5, <2>1, <2>2, QuieterKeeps
<1>8. Undisturbed'
  BY <1>6, <1>7 DEF Undisturbed
<1> QED
  BY <1>3, <1>4, <1>8 DEF FabricInv

\* An adjacency follows its link: the link is one of a touched leaf, for what
\* is said of the others is right already.
LEMMA AdjChangeInv ==
    ASSUME FabricInv, NEW n \in Nodes, NEW m \in Nodes, handleAdjChange(n, m)
    PROVE  FabricInv'
<1> DEFINE A == IF m \in adjacencies[n] THEN adjacencies[n] \ {m} ELSE adjacencies[n] \cup {m}
<1>1. /\ links' = links /\ touched' = touched /\ faults' = faults
      /\ disaggUpdateCh' = disaggUpdateCh /\ fib' = fib
  BY DEF handleAdjChange
<1>2. /\ adjacencies \in [Nodes -> SUBSET Nodes] /\ adjacencies[n] \in SUBSET Opposite(n)
      /\ links \in SUBSET Link
  BY DEF FabricInv, FabricTypes
<1>3. m \in Opposite(n)
  <2>1. m \in adjacencies[n] \/ LinkOf(n, m) \in links
    BY DEF handleAdjChange
  <2> QED
    BY <1>2, <2>1, LinksOfNodes
<1>4. adjacencies' = [adjacencies EXCEPT ![n] = A]
  BY <1>2 DEF handleAdjChange
<1>5. A \in SUBSET Opposite(n) /\ A \in SUBSET Nodes
  BY <1>2, <1>3
<1>6. adjacencies'[n] = A /\ \A k \in Nodes : k # n => adjacencies'[k] = adjacencies[k]
  <2> HIDE DEF A
  <2> QED
    BY <1>2, <1>4
<1>7. lsdb' = [lsdb EXCEPT ![n] = insertSelfOriginated(lsdb[n], NodeID(n), A)]
  <2>1. lsdb \in [Nodes -> LSDBs]
    BY DEF FabricInv, FabricTypes
  <2>2. lsdb' = [lsdb EXCEPT ![n] = insertSelfOriginated(lsdb[n], NodeID(n), adjacencies'[n])]
    BY <2>1 DEF handleAdjChange
  <2> HIDE DEF A
  <2> QED
    BY <1>6, <2>2
<1>8. Right(links, touched, n, A)
  <2>1. Right(links, touched, n, adjacencies[n])
    BY DEF FabricInv, Undisturbed
  <2>2. ~(n \in SteadyLeaves(touched) \/ m \in SteadyLeaves(touched))
    BY <1>3, <2>1 DEF Right, handleAdjChange
  <2>3. \A k \in Opposite(n) : k # m => (k \in A <=> k \in adjacencies[n])
    OBVIOUS
  <2> HIDE DEF A
  <2> QED
    BY <2>1, <2>2, <2>3 DEF Right
<1> HIDE DEF A
<1>9. /\ NodeID(n) \in TieIDs /\ A \in Contents(NodeID(n))
      /\ NodeID(n).orig = n /\ NodeID(n).type = NodeTIE
  BY <1>5, NodeIDs, ContentsOf
<1>10. PICK v : /\ Installs(n, NodeID(n), v) /\ v # None /\ v.content = A
                /\ lsdb[n][NodeID(n)] # None => v.seq > lsdb[n][NodeID(n)].seq
  BY <1>7, <1>9, IssueTypes DEF FabricInv
<1>11. Correct(links, touched, NodeID(n), v.content)
  BY <1>8, <1>9, <1>10 DEF Correct
<1>12. FabricTypes'
  <2>1. \A k \in Nodes : adjacencies'[k] \in SUBSET Opposite(k)
    BY <1>5, <1>6 DEF FabricInv, FabricTypes
  <2>2. adjacencies' \in [Nodes -> SUBSET Nodes]
    BY <1>2, <1>4, <1>5
  <2>3. lsdb' \in [Nodes -> LSDBs]
    BY <1>10 DEF Installs
  <2> QED
    BY <1>1, <2>1, <2>2, <2>3 DEF FabricInv, FabricTypes
<1>13. OwnTies'
  <2>1. \A k \in Nodes : k # n => lsdb'[k][NodeID(k)] = lsdb[k][NodeID(k)]
    BY <1>10, NodeIDs DEF Installs
  <2>2. lsdb'[n][NodeID(n)] = v
    BY <1>10 DEF Installs
  <2> QED
    BY <1>6, <1>10, <2>1, <2>2 DEF FabricInv, OwnTies
<1>14. HeldIsIssued'
  BY <1>9, <1>10, IssueKeepsHeld
<1>15. Undisturbed'
  <2>1. \A k \in Nodes : /\ WellInformed(links, touched, k, lsdb'[k])
                         /\ Announced(links, touched, k, lsdb'[k])
    BY <1>9, <1>10, <1>11, InstallInforms
  <2>2. \A k \in Nodes : Right(links, touched, k, adjacencies'[k])
    BY <1>6, <1>8 DEF FabricInv, Undisturbed
  <2> QED
    BY <1>1, <2>1, <2>2 DEF FabricInv, Undisturbed
<1> QED
  BY <1>12, <1>13, <1>14, <1>15 DEF FabricInv

\* A TIE is flooded: it was correct where it was.
LEMMA FloodInv ==
    ASSUME FabricInv, NEW n \in Nodes, NEW m \in Nodes, NEW id \in TieIDs, Flood(n, m, id)
    PROVE  FabricInv'
<1>1. /\ links' = links /\ touched' = touched /\ faults' = faults
      /\ disaggUpdateCh' = disaggUpdateCh /\ fib' = fib /\ adjacencies' = adjacencies
      /\ lsdb[n][id] # None /\ id.orig # m
  BY DEF Flood
<1>2. Installs(m, id, lsdb[n][id])
  <2>1. lsdb \in [Nodes -> LSDBs] /\ FabricTypes
    BY DEF FabricInv, FabricTypes
  <2>2. lsdb' = [lsdb EXCEPT ![m] = [lsdb[m] EXCEPT ![id] = lsdb[n][id]]]
    BY <2>1 DEF Flood
  <2>3. lsdb[n][id] \in Version(Contents(id))
    BY <2>1, HeldVersion
  <2> QED
    BY <2>1, <2>2, <2>3, InstallTypes
<1>3. Correct(links, touched, id, lsdb[n][id].content)
  BY <1>1 DEF FabricInv, Undisturbed, WellInformed
<1>4. FabricTypes'
  BY <1>1, <1>2 DEF FabricInv, FabricTypes, Installs
<1>5. OwnTies'
  <2>1. \A k \in Nodes : lsdb'[k][NodeID(k)] = lsdb[k][NodeID(k)]
    BY <1>1, <1>2, NodeIDs DEF Installs
  <2> QED
    BY <1>1, <2>1 DEF FabricInv, OwnTies
<1>6. HeldIsIssued'
  BY <1>1, <1>2, CopyKeepsHeld
<1>7. \A k \in Nodes : /\ WellInformed(links, touched, k, lsdb'[k])
                       /\ Announced(links, touched, k, lsdb'[k])
  BY <1>1, <1>2, <1>3, InstallInforms
<1>8. Undisturbed'
  BY <1>1, <1>7 DEF FabricInv, Undisturbed
<1> QED
  BY <1>4, <1>5, <1>6, <1>8 DEF FabricInv

\* The disaggregation TIE is issued anew: the update was sound.
LEMMA DisaggUpdateInv ==
    ASSUME FabricInv, NEW n \in Spines, handleDisaggUpdate(n)
    PROVE  FabricInv'
<1> DEFINE c == disaggUpdateCh[n]
<1>1. /\ links' = links /\ touched' = touched /\ faults' = faults
      /\ fib' = fib /\ adjacencies' = adjacencies /\ c # None
      /\ disaggUpdateCh' = [disaggUpdateCh EXCEPT ![n] = None]
  BY DEF handleDisaggUpdate
<1>2. /\ disaggUpdateCh \in [Spines -> {None} \cup Twos] /\ lsdb \in [Nodes -> LSDBs]
      /\ n \in Nodes
  BY DEF FabricInv, FabricTypes, Spines
<1>3. c \in Twos /\ Sound(links, touched, n, c)
  BY <1>1, <1>2 DEF FabricInv, Undisturbed
<1>4. \/ lsdb' = lsdb
      \/ lsdb' = [lsdb EXCEPT ![n] = insertSelfOriginated(lsdb[n], DisaggID(n), c)]
  BY <1>2 DEF handleDisaggUpdate
<1>5. /\ disaggUpdateCh' \in [Spines -> {None} \cup Twos]
      /\ \A s \in Spines : disaggUpdateCh'[s] = None \/ disaggUpdateCh'[s] = disaggUpdateCh[s]
  BY <1>1, <1>2
<1> HIDE DEF c
<1>6. \A s \in Spines : disaggUpdateCh'[s] # None =>
        Sound(links', touched', s, disaggUpdateCh'[s])
  BY <1>1, <1>5 DEF FabricInv, Undisturbed
<1>7. CASE lsdb' = lsdb
  <2>1. FabricTypes' /\ OwnTies' /\ HeldIsIssued'
    BY <1>1, <1>5, <1>7 DEF FabricInv, FabricTypes, OwnTies, HeldIsIssued
  <2>2. Undisturbed'
    BY <1>1, <1>6, <1>7 DEF FabricInv, Undisturbed
  <2> QED
    BY <2>1, <2>2 DEF FabricInv
<1>8. CASE lsdb' = [lsdb EXCEPT ![n] = insertSelfOriginated(lsdb[n], DisaggID(n), c)]
  <2>1. /\ DisaggID(n) \in TieIDs /\ c \in Contents(DisaggID(n))
        /\ DisaggID(n).orig = n /\ DisaggID(n).type # NodeTIE
    BY <1>3, NodeIDs, ContentsOf DEF NodeTIE, PosDisaggTIE
  <2>2. PICK v : /\ Installs(n, DisaggID(n), v) /\ v # None /\ v.content = c
                 /\ lsdb[n][DisaggID(n)] # None => v.seq > lsdb[n][DisaggID(n)].seq
    BY <1>2, <1>8, <2>1, IssueTypes DEF FabricInv
  <2>3. Correct(links, touched, DisaggID(n), v.content)
    BY <1>3, <2>1, <2>2 DEF Correct
  <2>4. FabricTypes'
    BY <1>1, <1>5, <2>2 DEF FabricInv, FabricTypes, Installs
  <2>5. OwnTies'
    <3>1. \A k \in Nodes : lsdb'[k][NodeID(k)] = lsdb[k][NodeID(k)]
      BY <2>2, NodeIDs DEF Installs
    <3> QED
      BY <1>1, <3>1 DEF FabricInv, OwnTies
  <2>6. HeldIsIssued'
    BY <1>2, <2>1, <2>2, IssueKeepsHeld
  <2>7. \A k \in Nodes : /\ WellInformed(links, touched, k, lsdb'[k])
                         /\ Announced(links, touched, k, lsdb'[k])
    BY <1>2, <2>1, <2>2, <2>3, InstallInforms
  <2>8. Undisturbed'
    BY <1>1, <1>6, <2>7 DEF FabricInv, Undisturbed
  <2> QED
    BY <2>4, <2>5, <2>6, <2>8 DEF FabricInv
<1> QED
  BY <1>4, <1>7, <1>8

\* What node n computes is right.
LEMMA ComputesRight ==
    ASSUME NEW L \in SUBSET Link, NEW T \in SUBSET Leaves, NEW n \in Nodes,
           NEW adj \in SUBSET Opposite(n), NEW db \in LSDBs,
           Right(L, T, n, adj), WellInformed(L, T, n, db), Announced(L, T, n, db),
           db[NodeID(n)] # None, db[NodeID(n)].content = adj,
           NEW r \in Results(n, adj, db)
    PROVE  /\ r.fib \in [AllPrefixes -> SUBSET Nodes] /\ WellRouted(L, T, n, r.fib)
           /\ n \in Spines => r.disagg \in Twos /\ Sound(L, T, n, r.disagg)
<1>1. CASE n \in Spines
  <2>1. adj \in SUBSET Leaves
    BY <1>1 DEF Opposite, Spines
  <2>2. r = SpineResult(n, adj, db)
    BY <1>1, <2>1, SpineComputes
  <2> QED
    BY <1>1, <2>1, <2>2, LinksOfNodes, ResultTypes, SpineRoutes, SpineDisaggregates
<1>2. CASE n \in Leaves
  <2>1. adj \in SUBSET Spines /\ n \notin Spines
    BY <1>2 DEF Opposite, Spines
  <2>2. r = LeafResult(n, adj, db)
    BY <1>2, <2>1, LeafComputes
  <2>3. r.fib \in [AllPrefixes -> SUBSET Nodes]
    BY <2>2, LinksOfNodes, ResultTypes
  <2>4. CASE n \in SteadyLeaves(T)
    BY <2>1, <2>2, <2>3, <2>4, LeafRoutes
  <2>5. CASE n \notin SteadyLeaves(T)
    BY <2>1, <2>3, <2>5 DEF WellRouted
  <2> QED
    BY <2>4, <2>5
<1> QED
  BY <1>1, <1>2 DEF Spines

\* An SPF run: the routes and the update are right.
LEMMA RunInv ==
    ASSUME FabricInv, NEW n \in Nodes, Run(n)
    PROVE  FabricInv'
<1>1. PICK r \in Results(n, adjacencies[n], lsdb[n]) :
        /\ fib' = [fib EXCEPT ![n] = r.fib]
        /\ disaggUpdateCh' = runDisaggregation(n, r.disagg)
        /\ UNCHANGED <<links, adjacencies, lsdb, touched, faults>>
  BY DEF Run
<1>2. /\ fib \in [Nodes -> [AllPrefixes -> SUBSET Nodes]]
      /\ disaggUpdateCh \in [Spines -> {None} \cup Twos]
      /\ links \in SUBSET Link /\ touched \in SUBSET Leaves
      /\ adjacencies[n] \in SUBSET Opposite(n) /\ lsdb[n] \in LSDBs
  BY DEF FabricInv, FabricTypes
<1>3. /\ Right(links, touched, n, adjacencies[n])
      /\ WellInformed(links, touched, n, lsdb[n])
      /\ Announced(links, touched, n, lsdb[n])
      /\ lsdb[n][NodeID(n)] # None /\ lsdb[n][NodeID(n)].content = adjacencies[n]
  BY DEF FabricInv, Undisturbed, OwnTies
<1>4. /\ r.fib \in [AllPrefixes -> SUBSET Nodes] /\ WellRouted(links, touched, n, r.fib)
      /\ n \in Spines => r.disagg \in Twos /\ Sound(links, touched, n, r.disagg)
  BY <1>2, <1>3, ComputesRight
<1>5. \/ disaggUpdateCh' = disaggUpdateCh
      \/ n \in Spines /\ disaggUpdateCh' = [disaggUpdateCh EXCEPT ![n] = r.disagg]
  BY <1>1 DEF runDisaggregation, Spines
<1>6. /\ disaggUpdateCh' \in [Spines -> {None} \cup Twos]
      /\ \A s \in Spines : \/ disaggUpdateCh'[s] = disaggUpdateCh[s]
                           \/ s = n /\ disaggUpdateCh'[s] = r.disagg
  BY <1>2, <1>4, <1>5
<1>7. /\ fib' \in [Nodes -> [AllPrefixes -> SUBSET Nodes]] /\ fib'[n] = r.fib
      /\ \A k \in Nodes : k # n => fib'[k] = fib[k]
  BY <1>1, <1>2, <1>4
<1>8. FabricTypes' /\ OwnTies' /\ HeldIsIssued'
  BY <1>1, <1>6, <1>7 DEF FabricInv, FabricTypes, OwnTies, HeldIsIssued
<1>9. \A k \in Nodes : WellRouted(links, touched, k, fib'[k])
  BY <1>4, <1>7 DEF FabricInv, Undisturbed
<1>10. \A s \in Spines : disaggUpdateCh'[s] # None =>
         Sound(links, touched, s, disaggUpdateCh'[s])
  BY <1>4, <1>6 DEF FabricInv, Undisturbed
<1>11. Undisturbed'
  BY <1>1, <1>9, <1>10 DEF FabricInv, Undisturbed
<1> QED
  BY <1>8, <1>11 DEF FabricInv

\* What is always true while links fail and recover.
LEMMA FabricStep ==
    FabricInv /\ [Next]_vars => FabricInv'
<1> SUFFICES ASSUME FabricInv, [Next]_vars PROVE FabricInv'
  OBVIOUS
<1>1. ASSUME NEW l \in Link, LinkChanges(l) PROVE FabricInv'
  BY <1>1, LinkChangesInv
<1>2. ASSUME NEW n \in Nodes, NEW m \in Nodes, handleAdjChange(n, m) PROVE FabricInv'
  BY <1>2, AdjChangeInv
<1>3. ASSUME NEW n \in Nodes, NEW m \in Nodes, NEW id \in TieIDs, Flood(n, m, id)
      PROVE  FabricInv'
  BY <1>3, FloodInv
<1>4. ASSUME NEW n \in Spines, handleDisaggUpdate(n) PROVE FabricInv'
  BY <1>4, DisaggUpdateInv
<1>5. ASSUME NEW n \in Nodes, Run(n) PROVE FabricInv'
  BY <1>5, RunInv
<1>6. ASSUME UNCHANGED vars PROVE FabricInv'
  BY <1>6 DEF vars, FabricInv, FabricTypes, OwnTies, HeldIsIssued, Undisturbed
<1> QED
  BY <1>1, <1>2, <1>3, <1>4, <1>5, <1>6 DEF Next, Progress

-----------------------------------------------------------------------------
(* The settled fabric, and the theorems *)

\* The Node TIEs of a settled fabric are correct, and they are enough for a
\* spine to compute what it disaggregates.
LEMMA SettledNodes ==
    ASSUME NEW L \in SUBSET Link, NEW n \in Nodes
    PROVE  /\ SettledNodeTies(L, n) \in LSDBs
           /\ \A k \in Nodes : LET v == SettledNodeTies(L, n)[NodeID(k)]
                               IN  /\ v # None => /\ v = [seq |-> 1, content |-> Adjacent(L, k)]
                                                /\ v.content = Adjacent(L, k)
                                   /\ k = n \/ k \in Adjacent(L, n) => v # None
                                   /\ k \in Spines /\ Adjacent(L, n) # {} => v # None
           /\ \A s \in Spines : SettledNodeTies(L, n)[DisaggID(s)] = None
<1> DEFINE db == SettledNodeTies(L, n)
           cond(k) == \/ k \in {n} \cup Adjacent(L, n)
                      \/ NodeID(k).dir = South /\ Adjacent(L, n) # {}
           v(k) == [seq |-> 1, content |-> Adjacent(L, k)]
<1>1. db = [id \in TieIDs |-> db[id]]
  BY DEF SettledNodeTies
<1>2. ASSUME NEW s \in Spines PROVE db[DisaggID(s)] = None
  BY NodeIDs DEF SettledNodeTies, NodeTIE, PosDisaggTIE
<1>3. ASSUME NEW k \in Nodes PROVE db[NodeID(k)] = IF cond(k) THEN v(k) ELSE None
  BY NodeIDs DEF SettledNodeTies
<1>4. ASSUME NEW k \in Nodes
      PROVE  /\ v(k) \in Version(Contents(NodeID(k))) /\ v(k) # None
             /\ v(k).seq = 1 /\ v(k).content = Adjacent(L, k)
  <2>1. Adjacent(L, k) \in Contents(NodeID(k)) /\ NodeID(k) \in TieIDs
    BY AdjacentNodes, ContentsOf, NodeIDs
  <2> QED
    BY <2>1, VersionIsNotNone
<1>5. \A k \in Spines : NodeID(k).dir = South
  BY DEF NodeID, Spines
<1> HIDE DEF db, v
<1>6. ASSUME NEW id \in TieIDs PROVE db[id] \in Version(Contents(id))
  <2>1. None \in Version(Contents(id))
    BY DEF Version
  <2>2. CASE \E s \in Spines : id = DisaggID(s)
    BY <1>2, <2>1, <2>2
  <2>3. CASE \E k \in Nodes : id = NodeID(k)
    <3>1. PICK k \in Nodes : id = NodeID(k)
      BY <2>3
    <3> HIDE DEF cond
    <3> QED
      BY <1>3, <1>4, <2>1, <3>1
  <2> QED
    BY <2>2, <2>3, NodeIDs
<1>7. db \in LSDBs
  BY <1>1, <1>6, LSDBOfTies
<1>8. \A k \in Nodes : /\ db[NodeID(k)] # None =>
                            /\ db[NodeID(k)] = v(k)
                            /\ db[NodeID(k)].content = Adjacent(L, k)
                       /\ k = n \/ k \in Adjacent(L, n) => db[NodeID(k)] # None
                       /\ k \in Spines /\ Adjacent(L, n) # {} => db[NodeID(k)] # None
  BY <1>3, <1>4, <1>5
<1> QED
  BY <1>2, <1>7, <1>8 DEF db, v

\* Nothing is wrong with neighbors that are those of the links.
LEMMA AdjacentIsRight ==
    ASSUME NEW L \in SUBSET Link, NEW T, NEW n \in Nodes
    PROVE  Right(L, T, n, Adjacent(L, n))
BY AdjacentNodes DEF Right

\* What a spine disaggregates in a settled fabric is sound.
LEMMA SettledSpine ==
    ASSUME NEW L \in SUBSET Link, NEW s \in Spines
    PROVE  Disaggregated(L, s) \in Twos /\ Sound(L, {}, s, Disaggregated(L, s))
<1> DEFINE db == SettledNodeTies(L, s)
           adj == Adjacent(L, s)
<1>1. /\ s \in Nodes /\ adj \in SUBSET Opposite(s) /\ adj \in SUBSET Leaves
      /\ \A l \in Leaves : l \in Nodes /\ (l \in adj <=> <<s, l>> \in L)
  <2>1. s \in Nodes /\ Opposite(s) = Leaves
    BY DEF Spines, Opposite
  <2>2. \A l \in Leaves : l \in Nodes /\ LinkOf(s, l) = <<s, l>>
    BY LinksOfNodes
  <2> QED
    BY <2>1, <2>2, AdjacentNodes
<1>2. /\ db \in LSDBs
      /\ \A k \in Nodes : /\ db[NodeID(k)] # None => db[NodeID(k)].content = Adjacent(L, k)
                          /\ k = s \/ k \in adj => db[NodeID(k)] # None
                          /\ k \in Spines /\ adj # {} => db[NodeID(k)] # None
      /\ \A r \in Spines : db[DisaggID(r)] = None
  BY <1>1, SettledNodes
<1>3. Disaggregated(L, s) = SpineResult(s, adj, db).disagg
  <2>1. Results(s, adj, db) = {SpineResult(s, adj, db)}
    <3> HIDE DEF adj, db
    <3> QED
      BY <1>1, <1>2, SpineComputes
  <2>2. (CHOOSE r \in Results(s, adj, db) : TRUE) = SpineResult(s, adj, db)
    <3> HIDE DEF adj, db
    <3> QED
      BY <2>1
  <2>3. Disaggregated(L, s) = (CHOOSE r \in Results(s, adj, db) : TRUE).disagg
    BY DEF Disaggregated
  <2> HIDE DEF adj, db
  <2> QED
    BY <2>2, <2>3
<1>4. Right(L, {}, s, adj)
  BY <1>1, AdjacentIsRight
<1> HIDE DEF db
<1>5. WellInformed(L, {}, s, db)
  <2>1. ASSUME NEW id \in TieIDs, db[id] # None PROVE Correct(L, {}, id, db[id].content)
    <3>1. PICK k \in Nodes : id = NodeID(k)
      BY <1>2, <2>1, NodeIDs
    <3>2. db[id].content = Adjacent(L, k) /\ id.type = NodeTIE /\ id.orig = k
      BY <1>2, <2>1, <3>1, NodeIDs
    <3> QED
      BY <3>2, AdjacentIsRight DEF Correct
  <2>2. s \notin SteadyLeaves({}) /\ SteadyLeaves({}) = Leaves
    BY DEF SteadyLeaves, Spines
  <2>3. ASSUME NEW l \in Leaves, <<s, l>> \in L
        PROVE  db[NodeID(l)] # None /\ \A r \in Spines : db[NodeID(r)] # None
    <3>1. l \in adj
      BY <1>1, <2>3
    <3> HIDE DEF adj
    <3> QED
      BY <1>1, <1>2, <3>1 DEF Spines
  <2>4. Known(L, {}, s, db)
    BY <2>2, <2>3 DEF Known
  <2> QED
    BY <2>1, <2>4 DEF WellInformed
<1>6. /\ db[NodeID(s)] # None /\ db[NodeID(s)].content = adj
  BY <1>1, <1>2
<1>7. Sound(L, {}, s, SpineResult(s, adj, db).disagg)
  <2> HIDE DEF adj
  <2> QED
    BY <1>1, <1>2, <1>4, <1>5, <1>6, SpineDisaggregates
<1>8. SpineResult(s, adj, db).disagg \in Twos
  BY <1>1, LinksOfNodes, ResultTypes
<1> QED
  BY <1>3, <1>7, <1>8

\* The TIEs of a settled fabric.
LEMMA SettledAll ==
    ASSUME NEW L \in SUBSET Link, NEW n \in Nodes
    PROVE  /\ SettledTies(L, n) \in LSDBs
           /\ \A k \in Nodes : LET v == SettledTies(L, n)[NodeID(k)]
                               IN  /\ v # None => /\ v = [seq |-> 1, content |-> Adjacent(L, k)]
                                                  /\ v.content = Adjacent(L, k)
                                   /\ k = n \/ k \in Adjacent(L, n) => v # None
                                   /\ k \in Spines /\ Adjacent(L, n) # {} => v # None
           /\ \A s \in Spines :
                LET v == SettledTies(L, n)[DisaggID(s)]
                IN  /\ v # None => /\ v = [seq |-> 1, content |-> Disaggregated(L, s)]
                                   /\ v.content = Disaggregated(L, s)
                    /\ v # None <=> /\ s = n \/ s \in Adjacent(L, n)
                                    /\ DOMAIN Disaggregated(L, s) # {}
<1> DEFINE db == SettledTies(L, n)
           nodes == SettledNodeTies(L, n)
           cond(s) == /\ s \in {n} \cup Adjacent(L, n)
                      /\ DOMAIN Disaggregated(L, s) # {}
           v(s) == [seq |-> 1, content |-> Disaggregated(L, s)]
<1>1. db = [id \in TieIDs |-> db[id]]
  BY DEF SettledTies
<1>2. ASSUME NEW k \in Nodes PROVE db[NodeID(k)] = nodes[NodeID(k)]
  BY NodeIDs DEF SettledTies, NodeTIE, PosDisaggTIE
<1>3. nodes \in LSDBs /\ \A s \in Spines : nodes[DisaggID(s)] = None
  BY SettledNodes
<1> HIDE DEF nodes
<1>4. ASSUME NEW s \in Spines PROVE db[DisaggID(s)] = IF cond(s) THEN v(s) ELSE None
  <2>1. db[DisaggID(s)] = IF cond(s) THEN v(s) ELSE nodes[DisaggID(s)]
    BY NodeIDs DEF SettledTies, nodes
  <2> HIDE DEF db, cond, v
  <2> QED
    BY <1>3, <2>1
<1>5. ASSUME NEW s \in Spines
      PROVE  /\ v(s) \in Version(Contents(DisaggID(s))) /\ v(s) # None
             /\ v(s).seq = 1 /\ v(s).content = Disaggregated(L, s)
  <2>1. Disaggregated(L, s) \in Contents(DisaggID(s)) /\ DisaggID(s) \in TieIDs
    BY SettledSpine, ContentsOf, NodeIDs
  <2> QED
    BY <2>1, VersionIsNotNone
<1> HIDE DEF db, v
<1>6. ASSUME NEW id \in TieIDs PROVE db[id] \in Version(Contents(id))
  <2>1. None \in Version(Contents(id))
    BY DEF Version
  <2>2. CASE \E s \in Spines : id = DisaggID(s)
    <3>1. PICK s \in Spines : id = DisaggID(s)
      BY <2>2
    <3> HIDE DEF cond
    <3> QED
      BY <1>4, <1>5, <2>1, <3>1
  <2>3. CASE \E k \in Nodes : id = NodeID(k)
    BY <1>2, <1>3, <2>3, LSDBOfTies
  <2> QED
    BY <2>2, <2>3, NodeIDs
<1>7. db \in LSDBs
  BY <1>1, <1>6, LSDBOfTies
<1>8. \A s \in Spines : /\ db[DisaggID(s)] # None =>
                             /\ db[DisaggID(s)] = v(s)
                             /\ db[DisaggID(s)].content = Disaggregated(L, s)
                        /\ db[DisaggID(s)] # None <=> /\ s = n \/ s \in Adjacent(L, n)
                                                      /\ DOMAIN Disaggregated(L, s) # {}
  BY <1>4, <1>5
<1>9. ASSUME NEW k \in Nodes
      PROVE  /\ db[NodeID(k)] # None =>
                  /\ db[NodeID(k)] = [seq |-> 1, content |-> Adjacent(L, k)]
                  /\ db[NodeID(k)].content = Adjacent(L, k)
             /\ k = n \/ k \in Adjacent(L, n) => db[NodeID(k)] # None
             /\ k \in Spines /\ Adjacent(L, n) # {} => db[NodeID(k)] # None
  <2>1. /\ nodes[NodeID(k)] # None =>
             /\ nodes[NodeID(k)] = [seq |-> 1, content |-> Adjacent(L, k)]
             /\ nodes[NodeID(k)].content = Adjacent(L, k)
        /\ k = n \/ k \in Adjacent(L, n) => nodes[NodeID(k)] # None
        /\ k \in Spines /\ Adjacent(L, n) # {} => nodes[NodeID(k)] # None
    BY SettledNodes DEF nodes
  <2> QED
    BY <1>2, <2>1
<1> QED
  BY <1>7, <1>8, <1>9 DEF db, v

\* Every node of a settled fabric is well informed.
LEMMA SettledInforms ==
    ASSUME NEW L \in SUBSET Link, NEW n \in Nodes
    PROVE  /\ WellInformed(L, {}, n, SettledTies(L, n))
           /\ Announced(L, {}, n, SettledTies(L, n))
<1> DEFINE db == SettledTies(L, n)
<1>1. /\ \A k \in Nodes : /\ db[NodeID(k)] # None => db[NodeID(k)].content = Adjacent(L, k)
                          /\ k = n \/ k \in Adjacent(L, n) => db[NodeID(k)] # None
                          /\ k \in Spines /\ Adjacent(L, n) # {} => db[NodeID(k)] # None
  BY SettledAll
<1>2. \A s \in Spines : /\ db[DisaggID(s)] # None =>
                             db[DisaggID(s)].content = Disaggregated(L, s)
                        /\ /\ s = n \/ s \in Adjacent(L, n)
                           /\ DOMAIN Disaggregated(L, s) # {}
                           => db[DisaggID(s)] # None
  BY SettledAll
<1> HIDE DEF db
<1>3. ASSUME NEW id \in TieIDs, db[id] # None PROVE Correct(L, {}, id, db[id].content)
  <2>1. CASE \E k \in Nodes : id = NodeID(k)
    <3>1. PICK k \in Nodes : id = NodeID(k)
      BY <2>1
    <3>2. db[id].content = Adjacent(L, k) /\ id.type = NodeTIE /\ id.orig = k
      BY <1>1, <1>3, <3>1, NodeIDs
    <3> QED
      BY <3>2, AdjacentIsRight DEF Correct
  <2>2. CASE \E s \in Spines : id = DisaggID(s)
    <3>1. PICK s \in Spines : id = DisaggID(s)
      BY <2>2
    <3>2. db[id].content = Disaggregated(L, s) /\ id.type # NodeTIE /\ id.orig = s
      BY <1>2, <1>3, <3>1, NodeIDs DEF NodeTIE, PosDisaggTIE
    <3> QED
      BY <3>2, SettledSpine DEF Correct
  <2> QED
    BY <2>1, <2>2, NodeIDs
<1>4. SteadyLeaves({}) = Leaves
  BY DEF SteadyLeaves
<1>5. \A s \in Spines, l \in Leaves :
        /\ <<s, l>> \in L => l \in Adjacent(L, s) /\ s \in Adjacent(L, l)
        /\ s \in Nodes /\ l \in Nodes
  BY LinksOfNodes, AdjacentNodes
<1>6. Known(L, {}, n, db)
  <2>1. ASSUME n \in Spines, NEW l \in Leaves, <<n, l>> \in L
        PROVE  db[NodeID(l)] # None /\ \A r \in Spines : db[NodeID(r)] # None
    <3>1. l \in Adjacent(L, n) /\ l \in Nodes /\ \A r \in Spines : r \in Nodes
      BY <1>5, <2>1
    <3> QED
      BY <1>1, <3>1
  <2>2. ASSUME n \in Leaves, NEW s \in Spines, <<s, n>> \in L PROVE db[NodeID(s)] # None
    BY <1>1, <1>5, <2>2
  <2> QED
    BY <1>4, <2>1, <2>2 DEF Known
<1>7. Announced(L, {}, n, db)
  <2> SUFFICES ASSUME n \in Leaves, NEW s \in Spines, <<s, n>> \in L,
                      NEW p \in SteadyPrefixes({}), Needed(L, {}, s, p)
               PROVE  db[DisaggID(s)] # None
    BY <1>4 DEF Announced
  <2>1. p \in DOMAIN Disaggregated(L, s)
    BY SettledSpine DEF Sound
  <2>2. s \in Adjacent(L, n)
    BY <1>5
  <2> QED
    BY <1>2, <2>1, <2>2
<1> QED
  BY <1>3, <1>6, <1>7 DEF WellInformed, db

\* A settled fabric satisfies the invariant.
LEMMA FabricStart ==
    Init => FabricInv
<1> SUFFICES ASSUME Init PROVE FabricInv
  OBVIOUS
<1>1. links \in SUBSET Link /\ faults \in [Link -> Nat] /\ touched = {}
  BY FabricConstants DEF Init
<1>2. /\ adjacencies = [n \in Nodes |-> Adjacent(links, n)]
      /\ lsdb = [n \in Nodes |-> SettledTies(links, n)]
      /\ disaggUpdateCh = [s \in Spines |-> None]
      /\ fib = [n \in Nodes |->
                  (CHOOSE r \in Results(n, adjacencies[n], lsdb[n]) : TRUE).fib]
  BY DEF Init
<1>3. ASSUME NEW n \in Nodes
      PROVE  /\ adjacencies[n] = Adjacent(links, n) /\ lsdb[n] = SettledTies(links, n)
             /\ adjacencies[n] \in SUBSET Opposite(n) /\ adjacencies[n] \in SUBSET Nodes
             /\ lsdb[n] \in LSDBs
  BY <1>1, <1>2, AdjacentNodes, SettledAll
<1>4. ASSUME NEW n \in Nodes
      PROVE  lsdb[n][NodeID(n)] # None /\ lsdb[n][NodeID(n)].content = adjacencies[n]
  BY <1>1, <1>3, SettledAll
<1>5. ASSUME NEW n \in Nodes
      PROVE  /\ Right(links, touched, n, adjacencies[n])
             /\ WellInformed(links, touched, n, lsdb[n])
             /\ Announced(links, touched, n, lsdb[n])
  BY <1>1, <1>3, AdjacentIsRight, SettledInforms
<1>6. ASSUME NEW n \in Nodes
      PROVE  /\ fib[n] \in [AllPrefixes -> SUBSET Nodes]
             /\ WellRouted(links, touched, n, fib[n])
  <2> DEFINE R == Results(n, adjacencies[n], lsdb[n])
             r == CHOOSE x \in R : TRUE
  <2>1. R # {}
    <3>1. CASE n \in Spines
      <4>1. adjacencies[n] \in SUBSET Leaves
        BY <1>3, <3>1 DEF Opposite, Spines
      <4> QED
        BY <1>3, <3>1, <4>1, SpineComputes
    <3>2. CASE n \in Leaves
      <4>1. adjacencies[n] \in SUBSET Spines
        BY <1>3, <3>2 DEF Opposite
      <4> QED
        BY <1>3, <3>2, <4>1, LeafComputes
    <3> QED
      BY <3>1, <3>2 DEF Spines
  <2>2. r \in R
    <3> HIDE DEF R
    <3> QED
      BY <2>1
  <2>3. fib[n] = r.fib
    BY <1>2
  <2> HIDE DEF r
  <2>4. touched \in SUBSET Leaves
    BY <1>1
  <2>5. /\ adjacencies[n] \in SUBSET Opposite(n) /\ lsdb[n] \in LSDBs
        /\ Right(links, touched, n, adjacencies[n])
        /\ WellInformed(links, touched, n, lsdb[n]) /\ Announced(links, touched, n, lsdb[n])
        /\ lsdb[n][NodeID(n)] # None /\ lsdb[n][NodeID(n)].content = adjacencies[n]
    BY <1>3, <1>4, <1>5
  <2>6. /\ r.fib \in [AllPrefixes -> SUBSET Nodes]
        /\ WellRouted(links, touched, n, r.fib)
    BY <1>1, <2>2, <2>4, <2>5, ComputesRight
  <2> QED
    BY <2>3, <2>6
<1>7. FabricTypes
  <2>1. adjacencies \in [Nodes -> SUBSET Nodes] /\ lsdb \in [Nodes -> LSDBs]
    BY <1>2, <1>3
  <2>2. fib \in [Nodes -> [AllPrefixes -> SUBSET Nodes]]
    BY <1>2, <1>6
  <2>3. disaggUpdateCh \in [Spines -> {None} \cup Twos]
    BY <1>2
  <2> QED
    BY <1>1, <1>3, <2>1, <2>2, <2>3 DEF FabricTypes
<1>8. HeldIsIssued
  <2> SUFFICES ASSUME NEW n \in Nodes, NEW id \in TieIDs, lsdb[n][id] # None
               PROVE  /\ lsdb[id.orig][id] # None
                      /\ lsdb[n][id].seq <= lsdb[id.orig][id].seq
                      /\ lsdb[n][id] = lsdb[id.orig][id]
    BY DEF HeldIsIssued
  <2>1. lsdb[id.orig][id] # None /\ lsdb[n][id] = lsdb[id.orig][id]
    <3>1. CASE \E k \in Nodes : id = NodeID(k)
      <4>1. PICK k \in Nodes : id = NodeID(k)
        BY <3>1
      <4>2. id.orig = k
        BY <4>1, NodeIDs
      <4>3. lsdb[n] = SettledTies(links, n) /\ lsdb[k] = SettledTies(links, k)
        BY <1>3
      <4>4. SettledTies(links, k)[id] # None
        BY <1>1, <4>1, SettledAll
      <4>5. SettledTies(links, n)[id] = [seq |-> 1, content |-> Adjacent(links, k)]
        BY <1>1, <4>1, <4>3, SettledAll
      <4>6. SettledTies(links, k)[id] = [seq |-> 1, content |-> Adjacent(links, k)]
        BY <1>1, <4>1, <4>4, SettledAll
      <4> QED
        BY <4>2, <4>3, <4>4, <4>5, <4>6
    <3>2. CASE \E s \in Spines : id = DisaggID(s)
      <4>1. PICK s \in Spines : id = DisaggID(s)
        BY <3>2
      <4>2. id.orig = s /\ s \in Nodes
        BY <4>1, NodeIDs DEF Spines
      <4>3. lsdb[n] = SettledTies(links, n) /\ lsdb[s] = SettledTies(links, s)
        BY <1>3, <4>2
      <4>4. DOMAIN Disaggregated(links, s) # {}
        <5>1. SettledTies(links, n)[DisaggID(s)] # None
          BY <4>1, <4>3
        <5> QED
          BY <1>1, <5>1, SettledAll
      <4>5. SettledTies(links, s)[id] # None
        BY <1>1, <4>1, <4>2, <4>4, SettledAll
      <4>6. SettledTies(links, n)[id] = [seq |-> 1, content |-> Disaggregated(links, s)]
        BY <1>1, <4>1, <4>3, SettledAll
      <4>7. SettledTies(links, s)[id] = [seq |-> 1, content |-> Disaggregated(links, s)]
        BY <1>1, <4>1, <4>2, <4>5, SettledAll
      <4> QED
        BY <4>2, <4>3, <4>5, <4>6, <4>7
    <3> QED
      BY <3>1, <3>2, NodeIDs
  <2>2. lsdb[n][id].seq \in Nat
    BY <1>7, HeldVersion
  <2> QED
    BY <2>1, <2>2
<1>9. Undisturbed
  BY <1>2, <1>5, <1>6 DEF Undisturbed
<1> QED
  BY <1>4, <1>7, <1>8, <1>9 DEF FabricInv, OwnTies

\* For every fabric and whatever links fail and recover: a node's own TIE is
\* true to its adjacencies, nothing that is held was not issued, and whatever
\* the TIEs, the updates under way and the routes say of links that did not
\* change is true.
THEOREM FabricInvariant == Spec => []FabricInv
<1>1. Init => FabricInv
  BY FabricStart
<1>2. FabricInv /\ [Next]_vars => FabricInv'
  BY FabricStep
<1> QED
  BY <1>1, <1>2, PTL DEF Spec

\* What the invariant says of the versions that are held.
LEMMA FabricInvTypes == FabricInv => TypeOK
<1> SUFFICES ASSUME FabricInv PROVE TypeOK
  OBVIOUS
<1>1. \A C, D : C \subseteq D => Version(C) \subseteq Version(D)
  BY DEF Version
<1>2. Twos \subseteq Metrics
  BY DEF Twos, Metrics
<1>3. ASSUME NEW n \in Nodes, NEW id \in TieIDs
      PROVE  lsdb[n][id] \in IF id.type = NodeTIE THEN Version(SUBSET Nodes)
                             ELSE Version(Metrics)
  <2>1. lsdb[n][id] \in Version(Contents(id))
    BY HeldVersion DEF FabricInv
  <2>2. CASE id.type = NodeTIE
    <3>1. id.orig \in Nodes
      BY NodeIDs DEF Spines
    <3>2. Contents(id) \subseteq SUBSET Nodes
      BY <2>2, <3>1, LinksOfNodes DEF Contents
    <3> QED
      BY <1>1, <2>1, <2>2, <3>2
  <2>3. CASE id.type # NodeTIE
    <3>1. Contents(id) \subseteq Metrics
      BY <1>2, <2>3 DEF Contents
    <3> QED
      BY <1>1, <2>1, <2>3, <3>1
  <2> QED
    BY <2>2, <2>3
<1>4. disaggUpdateCh \in [Spines -> {None} \cup Metrics]
  <2>1. disaggUpdateCh \in [Spines -> {None} \cup Twos]
    BY DEF FabricInv, FabricTypes
  <2> QED
    BY <1>2, <2>1
<1>5. ASSUME NEW n \in Nodes, NEW id \in TieIDs
      PROVE  /\ lsdb[n][id] # None => /\ lsdb[id.orig][id] # None
                                      /\ lsdb[n][id].seq <= lsdb[id.orig][id].seq
             /\ lsdb[n][id] # None /\ lsdb[n][id].seq = lsdb[id.orig][id].seq =>
                  lsdb[n][id] = lsdb[id.orig][id]
  BY DEF FabricInv, HeldIsIssued
<1>6. /\ links \subseteq Link /\ touched \subseteq Leaves
      /\ adjacencies \in [Nodes -> SUBSET Nodes]
      /\ fib \in [Nodes -> [AllPrefixes -> SUBSET Nodes]]
      /\ faults \in [Link -> Nat]
  BY DEF FabricInv, FabricTypes
<1> QED
  BY <1>3, <1>4, <1>5, <1>6 DEF TypeOK

\* The variables keep their types, and a node has of no TIE (insertSelfOriginated,
\* flooding) a version that its originator has not issued, nor one newer than
\* the originator's own, nor another content under the originator's number.
THEOREM FabricTypeOK == Spec => []TypeOK
<1>1. FabricInv => TypeOK
  BY FabricInvTypes
<1> QED
  BY <1>1, FabricInvariant, PTL

\* What the invariant says of a leaf that was not touched.
LEMMA FabricInvDelivers == FabricInv => BystandersUndisturbed
<1> SUFFICES ASSUME FabricInv, NEW l \in Leaves \ touched
             PROVE  /\ fib[l][DefaultRoute] = Adjacent(links, l)
                    /\ \A p \in Prefixes \ LeafPrefixes[l] :
                         Holders(p) \cap touched = {} /\ Reachable(l, p) => Arrives(l, p)
  BY DEF BystandersUndisturbed
<1>1. /\ l \in Leaves /\ l \in Nodes /\ l \in SteadyLeaves(touched) /\ links \in SUBSET Link
      /\ WellRouted(links, touched, l, fib[l])
  BY FabricConstants DEF SteadyLeaves, FabricInv, FabricTypes, Undisturbed
<1>2. fib[l][DefaultRoute] = Adjacent(links, l)
  BY <1>1 DEF WellRouted
<1>3. ASSUME NEW p \in Prefixes, Holders(p) \cap touched = {}, Reachable(l, p)
      PROVE  Arrives(l, p)
  <2>1. p \in SteadyPrefixes(touched)
    BY <1>3 DEF SteadyPrefixes
  <2>2. /\ \A s \in fib[l][p] : s \in Spines /\ <<s, l>> \in links /\ Serves(links, s, p)
        /\ \A s \in Spines : <<s, l>> \in links /\ Needed(links, touched, s, p) => s \in fib[l][p]
    BY <1>1, <2>1 DEF WellRouted
  <2>3. ASSUME NEW s \in Spines, Serves(links, s, p)
        PROVE  /\ fib[s][p] # {}
               /\ \A t \in fib[s][p] : <<s, t>> \in links /\ p \in LeafPrefixes[t]
    <3>1. WellRouted(links, touched, s, fib[s])
      BY DEF FabricInv, Undisturbed, Spines
    <3>2. fib[s][p] = {t \in Holders(p) : <<s, t>> \in links}
      BY <2>1, <3>1 DEF WellRouted
    <3> QED
      BY <2>3, <3>2 DEF Serves, Holders
  <2>4. PICK s0 \in Spines : <<s0, l>> \in links /\ Serves(links, s0, p)
    BY <1>3 DEF Reachable, Serves
  <2>5. \A s : s \in Adjacent(links, l) <=> s \in Spines /\ <<s, l>> \in links
    <3>1. Opposite(l) = Spines
      BY <1>1 DEF Opposite
    <3>2. \A s \in Spines : LinkOf(l, s) = <<s, l>>
      BY <1>1, LinksOfNodes
    <3> QED
      BY <1>1, <3>1, <3>2, AdjacentNodes
  <2>6. Via(l, p) # {} /\ \A s \in Via(l, p) : s \in Spines /\ <<s, l>> \in links
                                              /\ Serves(links, s, p)
    <3>1. CASE fib[l][p] # {}
      BY <2>2, <3>1 DEF Via
    <3>2. CASE fib[l][p] = {}
      <4>1. Via(l, p) = Adjacent(links, l)
        BY <1>2, <3>2 DEF Via
      <4>2. ASSUME NEW s \in Spines, <<s, l>> \in links PROVE Serves(links, s, p)
        <5>1. ~Needed(links, touched, s0, p)
          BY <2>2, <2>4, <3>2
        <5> QED
          BY <1>1, <2>4, <4>2, <5>1 DEF Needed
      <4> QED
        BY <2>4, <2>5, <4>1, <4>2
    <3> QED
      BY <3>1, <3>2
  <2> QED
    BY <2>3, <2>6 DEF Arrives
<1> QED
  BY <1>2, <1>3

\* While links fail and recover elsewhere, in whatever order adjacencies, TIEs,
\* SPF runs and disaggregation follow, a leaf whose links did not change keeps
\* all its spines for the default route, and its packets for prefixes of leaves
\* whose links did not change either arrive at every moment.
THEOREM FabricBystanders == Spec => []BystandersUndisturbed
<1>1. FabricInv => BystandersUndisturbed
  BY FabricInvDelivers
<1> QED
  BY <1>1, FabricInvariant, PTL
=============================================================================
