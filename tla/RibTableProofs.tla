--------------------------- MODULE RibTableProofs ---------------------------
(***************************************************************************)
(* Lemmas about the operators of RibTable, for any routes and any masks:   *)
(* an entry stays a Vec without repetitions, and what an operation on the  *)
(* table does to each pair of a bit and a route.                           *)
(***************************************************************************)
EXTENDS RibTable, FiniteSetTheorems, WellFoundedInduction, TLAPS

(* Some router's bit b is in the mask of route r of the entry e.           *)
Uses(e, b, r) == \E x \in e : x.route = r /\ b \in x.mask

(* The elements of an entry, with routes of R.                             *)
Element(R) == [mask : SUBSET Nat, route : R, pos : Nat]

(* An entry, e, at the prefix p, with routes of R and masks of bits m.     *)
EntryOK(e, p, m, R) ==
  /\ e \subseteq Element(R) /\ IsFiniteSet(e) /\ IsVec(e)
  /\ e # {}
  /\ \A x \in e : x.route.prefix = p /\ x.mask # {} /\ x.mask \subseteq m
  /\ \A x, y \in e : x.route = y.route => x = y
NoneOrOK(e, p, m, R) == e = {} \/ EntryOK(e, p, m, R)

-----------------------------------------------------------------------------
(* The best route of an entry and the loop of Iterator::max.               *)

(* Induction over numbers: a set of them has a least one, because there is *)
(* no infinite descent among the finite sets 0 .. n.                       *)
LEMMA LeastOfNumbers ==
  ASSUME NEW T \in SUBSET Nat, T # {}
  PROVE  \E n \in T : \A m \in T : n <= m
<1> DEFINE upto(n) == 0 .. n
           U == { upto(n) : n \in T }
           R == StrictSubsetOrdering(Nat)
           S == FiniteSubsetsOf(Nat)
<1>1. IsWellFoundedOn(R, S)
  BY FS_StrictSubsetOrderingWellFounded
<1>2. U \subseteq S /\ U # {}
  <2>1. ASSUME NEW n \in T
        PROVE  upto(n) \in S
    BY FS_Interval DEF FiniteSubsetsOf
  <2> QED BY <2>1
<1>3. \E x \in U : \A y \in U : <<y, x>> \notin R
  <2> HIDE DEF U, R, S
  <2> QED BY <1>1, <1>2, WFMin
<1>4. PICK n \in T : \A m \in T : <<upto(m), upto(n)>> \notin R
  BY <1>3
<1>5. ASSUME NEW m \in T, m < n
      PROVE  FALSE
  <2>1. upto(m) \subseteq upto(n)
    BY <1>5
  <2>2. n \in upto(n) /\ n \notin upto(m)
    BY <1>5
  <2>3. upto(m) \in SUBSET Nat /\ upto(n) \in SUBSET Nat
    OBVIOUS
  <2> QED BY <2>1, <2>2, <2>3, <1>4 DEF StrictSubsetOrdering
<1>6. \A m \in T : n <= m
  BY <1>5
<1> QED BY <1>6

(* The routes of an entry can be compared.                                 *)
Comparable(e) ==
  \A x \in e : x.route.peer \in Nat /\ x.route.path \in Seq(Nat)

(* Each position of a Vec has one element.                                 *)
LEMMA VecPositions ==
  ASSUME NEW e, IsFiniteSet(e), IsVec(e), NEW i \in 1 .. Cardinality(e)
  PROVE  \E x \in e : x.pos = i
<1> DEFINE n == Cardinality(e)
           S == 1 .. n
           f == [x \in e |-> x.pos]
           P == { x.pos : x \in e }
<1>1. n \in Nat
  BY FS_CardinalityType
<1>2. IsFiniteSet(S) /\ Cardinality(S) = n
  BY <1>1, FS_Interval
<1>3. P \in SUBSET S
  BY DEF IsVec
<1>4. f \in Bijection(e, P)
  BY DEF IsVec, Bijection, Injection, Surjection, IsInjective
<1>5. IsFiniteSet(P) /\ Cardinality(P) = n
  <2>1. ExistsBijection(e, P)
    BY <1>4 DEF ExistsBijection
  <2> QED BY <2>1, FS_Bijection
<1>6. P = S
  BY <1>1, <1>2, <1>3, <1>5, FS_Subset
<1> QED BY <1>6

LEMMA AtPosition ==
  ASSUME NEW e, IsVec(e), NEW x \in e
  PROVE  At(e, x.pos) = x.route
<1> DEFINE y == CHOOSE y \in e : y.pos = x.pos
<1>1. y \in e /\ y.pos = x.pos
  OBVIOUS
<1>2. y = x
  BY <1>1 DEF IsVec
<1> QED BY <1>2 DEF At

(* The elements that the loop has seen after i of them.                    *)
FirstOf(e, i) == { x \in e : x.pos <= i }

(* One turn of the loop.                                                   *)
LEMMA LoopTurn ==
  ASSUME NEW e, Comparable(e), IsVec(e), Cardinality(e) \in Nat,
         NEW y \in e, NEW b, Calculate(FirstOf(e, y.pos - 1)) = {b}
  PROVE  Calculate(FirstOf(e, y.pos)) = {Later(b, y.route)}
<1> DEFINE before == FirstOf(e, y.pos - 1)
           now == FirstOf(e, y.pos)
           isMax(x, v) == \A z \in v : /\ ~ Less(x.route, z.route)
                                       /\ Less(z.route, x.route) \/ z.pos <= x.pos
<1>1. \A x \in e : x.pos \in Nat
  BY DEF IsVec
<1>2. now = before \cup {y} /\ y \notin before
  BY <1>1 DEF FirstOf, IsVec
<1>3. \A x \in before : x \in e /\ x.pos < y.pos
  BY <1>1 DEF FirstOf
<1>4. \A v : Calculate(v) = { x.route : x \in { x \in v : isMax(x, v) } }
  BY DEF Calculate
<1>5. PICK m \in before : m.route = b /\ isMax(m, before)
  <2>1. b \in { x.route : x \in { x \in before : isMax(x, before) } }
    BY <1>4
  <2> QED BY <2>1
<1>6. \A x \in before : isMax(x, before) => x.route = b
  <2>1. { x.route : x \in { x \in before : isMax(x, before) } } = {b}
    BY <1>4
  <2> QED BY <2>1
<1>7. \A x, z, w \in e :
        /\ Less(x.route, z.route) /\ ~ Less(w.route, z.route) => Less(x.route, w.route)
        /\ ~ Less(x.route, x.route)
        /\ Less(x.route, z.route) => ~ Less(z.route, x.route)
  <2> DEFINE p(x) == x.route.peer
             l(x) == Len(x.route.path)
  <2>1. \A x \in e : p(x) \in Nat /\ l(x) \in Nat
    BY DEF Comparable
  <2>2. \A x, z \in e : Less(x.route, z.route) <=>
          l(x) > l(z) \/ (l(x) = l(z) /\ p(x) < p(z))
    BY DEF Less
  <2> HIDE DEF p, l
  <2> QED BY <2>1, <2>2
<1>8. CASE Less(y.route, b)
  <2>1. isMax(m, now)
    BY <1>2, <1>3, <1>5, <1>7, <1>8
  <2>2. \A x \in now : isMax(x, now) => x.route = b
    BY <1>2, <1>5, <1>6, <1>8
  <2>3. { x.route : x \in { x \in now : isMax(x, now) } } = {b}
    BY <2>1, <2>2, <1>2, <1>5
  <2> QED BY <2>3, <1>4, <1>8 DEF Later
<1>9. CASE ~ Less(y.route, b)
  <2>1. \A z \in before : ~ Less(y.route, z.route)
    BY <1>3, <1>5, <1>7, <1>9
  <2>2. isMax(y, now)
    BY <1>1, <1>2, <1>3, <1>7, <2>1
  <2>3. \A x \in before : ~ isMax(x, now)
    BY <1>1, <1>2, <1>3, <2>1
  <2>4. { x.route : x \in { x \in now : isMax(x, now) } } = {y.route}
    BY <2>2, <2>3, <1>2
  <2> QED BY <2>4, <1>4, <1>9 DEF Later
<1> QED BY <1>8, <1>9

(* The first turn.                                                         *)
LEMMA LoopStart ==
  ASSUME NEW e, Comparable(e), IsVec(e), NEW y \in e, y.pos = 1
  PROVE  Calculate(FirstOf(e, 1)) = {y.route}
<1>1. FirstOf(e, 1) = {y}
  BY DEF FirstOf, IsVec
<1>2. ~ Less(y.route, y.route) /\ y.pos <= y.pos
  <2>1. y.route.peer \in Nat /\ Len(y.route.path) \in Nat
    BY DEF Comparable
  <2> QED BY <2>1 DEF Less
<1> QED BY <1>1, <1>2 DEF Calculate

(* After each turn the best of the elements seen is one route.             *)
LEMMA LoopHasOne ==
  ASSUME NEW e, IsFiniteSet(e), IsVec(e), Comparable(e), NEW i \in 1 .. Cardinality(e)
  PROVE  \E b : Calculate(FirstOf(e, i)) = {b}
<1> DEFINE one(j) == \E b : Calculate(FirstOf(e, j)) = {b}
           T == { j \in 1 .. Cardinality(e) : ~ one(j) }
<1>1. Cardinality(e) \in Nat
  BY FS_CardinalityType
<1>2. ASSUME T # {}
      PROVE  FALSE
  <2>1. PICK j \in T : \A k \in T : j <= k
    <3>1. T \in SUBSET Nat
      OBVIOUS
    <3> HIDE DEF T
    <3> QED BY <3>1, <1>2, LeastOfNumbers
  <2>2. PICK y \in e : y.pos = j
    BY VecPositions
  <2>3. CASE j = 1
    BY <2>1, <2>2, <2>3, LoopStart
  <2>4. CASE j # 1
    <3>1. j - 1 \in 1 .. Cardinality(e) /\ j - 1 \notin T
      <4>1. j \in 1 .. Cardinality(e)
        OBVIOUS
      <4> HIDE DEF T
      <4> QED BY <1>1, <2>1, <2>4, <4>1
    <3>2. PICK b : Calculate(FirstOf(e, y.pos - 1)) = {b}
      BY <3>1, <2>2
    <3>3. one(j)
      BY <1>1, <2>2, <3>2, LoopTurn
    <3> QED BY <2>1, <3>3
  <2> QED BY <2>3, <2>4
<1> QED BY <1>2

(* The equation of the loop in FoldMax.                                    *)
Loop(v, best) ==
  [i \in 1 .. Cardinality(v) |->
     IF i = 1 THEN At(v, 1) ELSE Later(best[i - 1], At(v, i))]

LEMMA FoldMaxIsLoop ==
  ASSUME NEW v, NEW g, g = Loop(v, g)
  PROVE  \E best : FoldMax(v) = best[Cardinality(v)] /\ best = Loop(v, best)
<1> DEFINE best == CHOOSE h : h = Loop(v, h)
<1>1. FoldMax(v) = best[Cardinality(v)]
  BY DEF FoldMax, Loop
<1>2. best = Loop(v, best)
  BY Zenon
<1> QED BY <1>1, <1>2, Zenon

(* The loop of Iterator::max ends with the route that Calculate picks, of  *)
(* any number of elements.                                                 *)
THEOREM CalculateIsLoop ==
  ASSUME NEW e, IsFiniteSet(e), IsVec(e), e # {}, Comparable(e)
  PROVE  Calculate(e) = {FoldMax(e)}
<1> DEFINE n == Cardinality(e)
           best == [i \in 1 .. n |-> CHOOSE b : Calculate(FirstOf(e, i)) = {b}]
<1>1. n \in Nat /\ n # 0
  BY FS_CardinalityType, FS_EmptySet
<1>2. \A i \in 1 .. n : Calculate(FirstOf(e, i)) = {best[i]}
  BY LoopHasOne, Zenon
<1>3. \A i \in 1 .. n : At(e, i) \in { x.route : x \in e } /\ \A y \in e : y.pos = i => At(e, i) = y.route
  BY VecPositions, AtPosition
<1>4. best = Loop(e, best)
  <2>1. ASSUME NEW i \in 1 .. n
        PROVE  best[i] = IF i = 1 THEN At(e, 1) ELSE Later(best[i - 1], At(e, i))
    <3>1. PICK y \in e : y.pos = i
      BY VecPositions
    <3>2. At(e, i) = y.route
      BY <1>3, <3>1
    <3>3. Calculate(FirstOf(e, i)) = {best[i]}
      BY <1>2
    <3> HIDE DEF best
    <3>4. CASE i = 1
      BY <3>1, <3>2, <3>3, <3>4, LoopStart
    <3>5. CASE i # 1
      <4>1. i - 1 \in 1 .. n
        BY <1>1, <3>5
      <4>2. Calculate(FirstOf(e, y.pos - 1)) = {best[i - 1]}
        BY <1>2, <3>1, <4>1
      <4>3. Calculate(FirstOf(e, y.pos)) = {Later(best[i - 1], y.route)}
        BY <1>1, <4>2, LoopTurn
      <4> QED BY <3>1, <3>2, <3>3, <3>5, <4>3
    <3> QED BY <3>4, <3>5
  <2>2. best = [i \in 1 .. n |-> best[i]]
    OBVIOUS
  <2> HIDE DEF best
  <2> QED BY <2>1, <2>2 DEF Loop
<1> HIDE DEF best
<1>5. PICK f : FoldMax(e) = f[n] /\ f = Loop(e, f)
  BY <1>4, FoldMaxIsLoop
<1> DEFINE T == { i \in 1 .. n : f[i] # best[i] }
<1>6. ASSUME T # {}
      PROVE  FALSE
  <2>1. PICK j \in T : \A k \in T : j <= k
    <3>1. T \in SUBSET Nat
      OBVIOUS
    <3> HIDE DEF T
    <3> QED BY <3>1, <1>6, LeastOfNumbers
  <2>2. /\ f[j] = IF j = 1 THEN At(e, 1) ELSE Later(f[j - 1], At(e, j))
        /\ best[j] = IF j = 1 THEN At(e, 1) ELSE Later(best[j - 1], At(e, j))
    BY <1>4, <1>5 DEF Loop
  <2>3. CASE j = 1
    BY <2>1, <2>2, <2>3
  <2>4. CASE j # 1
    <3>1. j - 1 \in 1 .. n /\ j - 1 \notin T
      BY <1>1, <2>1, <2>4
    <3> QED BY <2>1, <2>2, <2>4, <3>1
  <2> QED BY <2>3, <2>4
<1>7. FoldMax(e) = best[n]
  BY <1>1, <1>5, <1>6
<1>8. FirstOf(e, n) = e
  BY DEF FirstOf, IsVec
<1> QED BY <1>1, <1>2, <1>7, <1>8

-----------------------------------------------------------------------------
(* Reindexing.                                                             *)

Before(e, x) == { y \in e : y.pos <= x.pos }

LEMMA BeforeIsSmaller ==
  ASSUME NEW R, NEW e, IsFiniteSet(e), e \subseteq Element(R), NEW x \in e
  PROVE  Cardinality(Before(e, x)) \in 1 .. Cardinality(e)
<1>1. Before(e, x) \in SUBSET e
  BY DEF Before
<1>2. x \in Before(e, x)
  BY DEF Before, Element
<1>3. /\ IsFiniteSet(Before(e, x))
      /\ Cardinality(Before(e, x)) <= Cardinality(e)
  BY <1>1, FS_Subset
<1>4. Cardinality(Before(e, x)) \in Nat /\ Cardinality(e) \in Nat
  BY <1>3, FS_CardinalityType
<1>5. Cardinality(Before(e, x)) # 0
  BY <1>2, <1>3, FS_EmptySet
<1> QED BY <1>3, <1>4, <1>5

LEMMA BeforeIsInjective ==
  ASSUME NEW R, NEW e, IsFiniteSet(e), e \subseteq Element(R), NEW x \in e, NEW y \in e,
         Cardinality(Before(e, x)) = Cardinality(Before(e, y))
  PROVE  x.pos = y.pos
<1>1. x.pos \in Nat /\ y.pos \in Nat
  BY DEF Element
<1>2. ASSUME NEW u \in e, NEW v \in e, u.pos < v.pos
      PROVE  Cardinality(Before(e, u)) # Cardinality(Before(e, v))
  <2>1. \A w \in e : w.pos \in Nat
    BY DEF Element
  <2>2. Before(e, u) \in SUBSET Before(e, v)
    BY <1>2, <2>1 DEF Before
  <2>3. v \in Before(e, v) /\ v \notin Before(e, u)
    BY <1>2, <2>1 DEF Before
  <2>4. IsFiniteSet(Before(e, v))
    <3>1. Before(e, v) \in SUBSET e
      BY DEF Before
    <3> QED BY <3>1, FS_Subset
  <2> QED BY <2>2, <2>3, <2>4, FS_Subset
<1> QED BY <1>1, <1>2

(* The elements that are left when some are removed form a Vec again, with *)
(* the same masks and routes.                                              *)
LEMMA ReindexIsVec ==
  ASSUME NEW R, NEW e, IsFiniteSet(e), e \subseteq Element(R),
         \A x, y \in e : x.pos = y.pos => x = y
  PROVE  /\ Reindex(e) \subseteq Element(R) /\ IsFiniteSet(Reindex(e))
         /\ IsVec(Reindex(e))
         /\ \A x \in e : \E y \in Reindex(e) : y.mask = x.mask /\ y.route = x.route
         /\ \A x, y \in Reindex(e) : \E u, v \in e :
              /\ u.mask = x.mask /\ u.route = x.route
              /\ v.mask = y.mask /\ v.route = y.route
              /\ u = v => x = y
<1> DEFINE new(x) == [x EXCEPT !.pos = Cardinality(Before(e, x))]
           f == [x \in e |-> new(x)]
<1>1. Reindex(e) = { f[x] : x \in e }
  BY DEF Reindex, Before
<1>2. \A x \in e : /\ f[x] \in Element(R)
                   /\ f[x].pos = Cardinality(Before(e, x))
                   /\ f[x].mask = x.mask /\ f[x].route = x.route
  <2>1. \A x \in e : Cardinality(Before(e, x)) \in Nat
    BY BeforeIsSmaller, FS_CardinalityType
  <2> QED BY <2>1 DEF Element
<1>3. \A x, y \in e : f[x].pos = f[y].pos => x = y
  BY <1>2, BeforeIsInjective
<1> HIDE DEF f
<1>4. f \in Bijection(e, Reindex(e))
  BY <1>1, <1>3 DEF f, Bijection, Injection, Surjection, IsInjective
<1>5. IsFiniteSet(Reindex(e)) /\ Cardinality(Reindex(e)) = Cardinality(e)
  BY <1>4, FS_Bijection DEF ExistsBijection
<1>6. IsVec(Reindex(e))
  <2>1. \A x \in e : f[x].pos \in 1 .. Cardinality(Reindex(e))
    BY <1>2, <1>5, BeforeIsSmaller
  <2>2. \A y \in Reindex(e) : \E x \in e : y = f[x]
    BY <1>1
  <2> QED BY <1>3, <2>1, <2>2 DEF IsVec
<1> QED BY <1>1, <1>2, <1>5, <1>6

(* The new positions are in the order of the old ones.                     *)
LEMMA ReindexOrder ==
  ASSUME NEW R, NEW e, IsFiniteSet(e), e \subseteq Element(R), NEW x \in e, NEW y \in e
  PROVE  x.pos <= y.pos <=> Cardinality(Before(e, x)) <= Cardinality(Before(e, y))
<1>1. \A z \in e : z.pos \in Nat /\ Cardinality(Before(e, z)) \in Nat
  <2>1. Cardinality(e) \in Nat
    BY FS_CardinalityType
  <2> QED BY <2>1, BeforeIsSmaller DEF Element
<1>2. ASSUME NEW u \in e, NEW v \in e, u.pos <= v.pos
      PROVE  Cardinality(Before(e, u)) <= Cardinality(Before(e, v))
  <2>1. Before(e, u) \in SUBSET Before(e, v)
    <3>1. \A z \in e : z.pos \in Nat
      BY <1>1
    <3> QED BY <3>1, <1>2 DEF Before
  <2>2. IsFiniteSet(Before(e, v))
    <3>1. Before(e, v) \in SUBSET e
      BY DEF Before
    <3> QED BY <3>1, FS_Subset
  <2> QED BY <2>1, <2>2, FS_Subset
<1>3. ASSUME ~ x.pos <= y.pos, Cardinality(Before(e, x)) <= Cardinality(Before(e, y))
      PROVE  FALSE
  <2>1. Cardinality(Before(e, y)) <= Cardinality(Before(e, x))
    BY <1>1, <1>2, <1>3
  <2>2. Cardinality(Before(e, y)) = Cardinality(Before(e, x))
    BY <1>1, <1>3, <2>1
  <2> QED BY <1>1, <1>3, <2>2, BeforeIsInjective
<1> QED BY <1>2, <1>3

(* Taking elements out of a Vec, in order, changes nothing of which of the *)
(* others is the best.                                                     *)
LEMMA ReindexKeepsBest ==
  ASSUME NEW R, NEW e, IsFiniteSet(e), e \subseteq Element(R)
  PROVE  Calculate(Reindex(e)) = Calculate(e)
<1> DEFINE f == [x \in e |-> [x EXCEPT !.pos = Cardinality(Before(e, x))]]
           best(x) == \A y \in e : /\ ~ Less(x.route, y.route)
                                   /\ Less(y.route, x.route) \/ y.pos <= x.pos
           bestNew(z) == \A y \in Reindex(e) : /\ ~ Less(z.route, y.route)
                                               /\ Less(y.route, z.route) \/ y.pos <= z.pos
<1>1. \A x \in e : f[x] \in Reindex(e)
  BY DEF Reindex, Before
<1>2. \A z \in Reindex(e) : \E x \in e : z = f[x]
  BY DEF Reindex, Before
<1>3. \A x \in e : /\ f[x].pos = Cardinality(Before(e, x))
                   /\ f[x].route = x.route
  BY DEF Element
<1>4. \A x \in e : x.pos \in Nat /\ Cardinality(Before(e, x)) \in Nat
  <2>1. Cardinality(e) \in Nat
    BY FS_CardinalityType
  <2> QED BY <2>1, BeforeIsSmaller DEF Element
<1> HIDE DEF f
<1>6. ASSUME NEW x \in e, NEW y \in e
      PROVE  x.pos <= y.pos <=> f[x].pos <= f[y].pos
  BY <1>3, ReindexOrder
<1>7. \A x \in e : best(x) <=> bestNew(f[x])
  BY <1>1, <1>2, <1>3, <1>6
<1>8. /\ Calculate(e) = { x.route : x \in { x \in e : best(x) } }
      /\ Calculate(Reindex(e)) = { z.route : z \in { z \in Reindex(e) : bestNew(z) } }
  BY DEF Calculate
<1> HIDE DEF best, bestNew
<1> QED BY <1>1, <1>2, <1>3, <1>7, <1>8

-----------------------------------------------------------------------------
(* The entry's operations.                                                 *)

(* insert keeps the entry in order and adds the route for the bits of m.   *)
LEMMA InsertEntry ==
  ASSUME NEW R, NEW e, NEW p, NEW used, NEW m \in SUBSET Nat, m # {}, m \subseteq used,
         NEW route \in R, route.prefix = p,
         NoneOrOK(e, p, used, R)
  PROVE  /\ EntryOK(EntryInsert(e, m, route), p, used, R)
         /\ \A b, r : Uses(EntryInsert(e, m, route), b, r)
                     <=> Uses(e, b, r) \/ (r = route /\ b \in m)
<1> DEFINE n == EntryInsert(e, m, route)
<1>1. /\ e \subseteq Element(R) /\ IsFiniteSet(e) /\ IsVec(e)
      /\ \A x \in e : x.route.prefix = p /\ x.mask # {} /\ x.mask \subseteq used
      /\ \A x, y \in e : x.route = y.route => x = y
  BY FS_EmptySet DEF NoneOrOK, EntryOK, IsVec
<1>2. Cardinality(e) \in Nat
  BY <1>1, FS_CardinalityType
<1>3. CASE \E x \in e : x.route = route
  <2> DEFINE Joined(x) == IF x.route = route THEN [x EXCEPT !.mask = @ \cup m] ELSE x
             f == [x \in e |-> Joined(x)]
             Match(y, x) ==
               /\ y \in Element(R) /\ y.pos = x.pos /\ y.route = x.route
               /\ y.mask = IF x.route = route THEN x.mask \cup m ELSE x.mask
  <2>1. n = { f[x] : x \in e }
    BY <1>3 DEF EntryInsert
  <2>2. \A x \in e : Match(f[x], x)
    BY <1>1 DEF Element
  <2>3. /\ \A y \in n : \E x \in e : y = f[x]
        /\ \A x \in e : f[x] \in n
    BY <2>1
  <2>4. ASSUME NEW x \in n, NEW y \in n, x.pos = y.pos \/ x.route = y.route
        PROVE  x = y
    <3> HIDE DEF f, n
    <3>1. PICK u \in e, v \in e : x = f[u] /\ y = f[v]
      BY <2>3
    <3>2. /\ x.pos = u.pos /\ x.route = u.route
          /\ y.pos = v.pos /\ y.route = v.route
      BY <2>2, <3>1
    <3>3. u = v
      BY <1>1, <2>4, <3>2 DEF IsVec
    <3> QED BY <3>1, <3>3
  <2>5. f \in Bijection(e, n)
    <3>1. ASSUME NEW x \in e, NEW y \in e, f[x] = f[y] PROVE x = y
      <4> HIDE DEF f, n
      <4>1. f[x].route = x.route /\ f[y].route = y.route
        BY <2>2
      <4> QED BY <1>1, <3>1, <4>1
    <3> QED BY <2>1, <3>1 DEF Bijection, Injection, Surjection, IsInjective
  <2>6. IsFiniteSet(n) /\ Cardinality(n) = Cardinality(e)
    BY <1>1, <2>5, FS_Bijection DEF ExistsBijection
  <2> HIDE DEF f, n
  <2>7. ASSUME NEW y \in n
        PROVE  /\ y \in Element(R) /\ y.pos \in 1 .. Cardinality(n)
               /\ y.route.prefix = p /\ y.mask # {} /\ y.mask \subseteq used
    <3>1. PICK x \in e : Match(y, x)
      BY <2>2, <2>3
    <3> QED BY <1>1, <2>6, <3>1 DEF IsVec
  <2>8. IsVec(n)
    BY <2>4, <2>7 DEF IsVec
  <2>9. n # {}
    BY <1>3, <2>3
  <2>10. \A b, r : Uses(n, b, r) <=> Uses(e, b, r) \/ (r = route /\ b \in m)
    <3>1. ASSUME NEW b, NEW r, Uses(n, b, r)
          PROVE  Uses(e, b, r) \/ (r = route /\ b \in m)
      <4>1. PICK y \in n : y.route = r /\ b \in y.mask
        BY <3>1 DEF Uses
      <4>2. PICK x \in e : Match(y, x)
        BY <2>2, <2>3
      <4> QED BY <4>1, <4>2 DEF Uses
    <3>2. ASSUME NEW b, NEW r, NEW x \in e, x.route = r,
                 b \in x.mask \/ (r = route /\ b \in m)
          PROVE  Uses(n, b, r)
      <4>1. Match(f[x], x) /\ f[x] \in n
        BY <2>2, <2>3
      <4>2. f[x].route = r /\ b \in f[x].mask
        BY <3>2, <4>1
      <4> QED BY <4>1, <4>2 DEF Uses
    <3>3. ASSUME NEW b, NEW r, Uses(e, b, r) PROVE Uses(n, b, r)
      <4>1. PICK x \in e : x.route = r /\ b \in x.mask
        BY <3>3 DEF Uses
      <4> QED BY <3>2, <4>1
    <3>4. ASSUME NEW b \in m PROVE Uses(n, b, route)
      BY <1>3, <3>2
    <3> HIDE DEF n
    <3> QED BY <3>1, <3>3, <3>4
  <2> QED BY <2>4, <2>6, <2>7, <2>8, <2>9, <2>10 DEF EntryOK, n
<1>4. CASE ~ \E x \in e : x.route = route
  <2> DEFINE new == [mask |-> m, route |-> route, pos |-> Cardinality(e) + 1]
  <2>1. n = e \cup {new}
    BY <1>4 DEF EntryInsert
  <2>2. /\ new \in Element(R) /\ new \notin e
        /\ new.mask = m /\ new.route = route /\ new.pos = Cardinality(e) + 1
    BY <1>2, <1>4 DEF Element
  <2> HIDE DEF new, n
  <2>3. IsFiniteSet(n) /\ Cardinality(n) = Cardinality(e) + 1
    BY <1>1, <2>1, <2>2, FS_AddElement
  <2>4. IsVec(n)
    BY <1>1, <1>2, <2>1, <2>2, <2>3 DEF IsVec
  <2>5. \A b, r : Uses(n, b, r) <=> Uses(e, b, r) \/ (r = route /\ b \in m)
    BY <2>1, <2>2 DEF Uses
  <2>6. /\ \A x \in n : x.route.prefix = p /\ x.mask # {} /\ x.mask \subseteq used
        /\ \A x, y \in n : x.route = y.route => x = y
    BY <1>1, <1>4, <2>1, <2>2
  <2> QED BY <1>1, <2>1, <2>2, <2>3, <2>4, <2>5, <2>6 DEF EntryOK, n
<1> QED BY <1>3, <1>4

(* withdraw keeps what is left of the entry in order and takes the routes  *)
(* of the withdrawal's peer away for the bit of m and for no other.        *)
LEMMA WithdrawEntry ==
  ASSUME NEW R, NEW e, NEW p, NEW used, NEW bit, NEW route,
         EntryOK(e, p, used, R)
  PROVE  LET n == EntryWithdraw(e, {bit}, route) IN
         /\ n = {} \/ EntryOK(n, p, used, R)
         /\ \A b, r : Uses(n, b, r)
                     <=> Uses(e, b, r) /\ ~ (b = bit /\ SameSource(r, route))
<1> DEFINE kept == Retained(e, {bit}, route)
           f == [x \in kept |-> Unmask(x, {bit}, route)]
           left == { f[x] : x \in kept }
           n == EntryWithdraw(e, {bit}, route)
           Match(y, x) ==
             /\ y \in Element(R) /\ y.pos = x.pos /\ y.route = x.route
             /\ y.mask = IF SameSource(x.route, route) THEN x.mask \ {bit} ELSE x.mask
             /\ y.mask # {} /\ y.mask \subseteq used
<1>1. /\ e \subseteq Element(R) /\ IsFiniteSet(e) /\ IsVec(e)
      /\ \A x \in e : x.route.prefix = p /\ x.mask # {} /\ x.mask \subseteq used
      /\ \A x, y \in e : x.route = y.route => x = y
  BY DEF EntryOK
<1>2. n = Reindex(left)
  BY DEF EntryWithdraw
<1>3. kept \in SUBSET e
  BY DEF Retained
<1>4. \A x \in kept : Match(f[x], x)
  BY <1>1, <1>3 DEF Unmask, Retained, Element
<1>5. /\ \A y \in left : \E x \in kept : y = f[x]
      /\ \A x \in kept : f[x] \in left
  OBVIOUS
<1>6. IsFiniteSet(left)
  <2>1. f \in Surjection(kept, left)
    BY DEF Surjection
  <2>2. IsFiniteSet(kept)
    BY <1>1, <1>3, FS_Subset
  <2> HIDE DEF f, kept, left
  <2> QED BY <2>1, <2>2, FS_Surjection
<1>7. /\ left \subseteq Element(R)
      /\ \A x \in left : x.route.prefix = p /\ x.mask # {} /\ x.mask \subseteq used
      /\ \A x, y \in left : x.pos = y.pos \/ x.route = y.route => x = y
  <2> HIDE DEF f, kept, left
  <2>1. ASSUME NEW y \in left
        PROVE  /\ y \in Element(R)
               /\ y.route.prefix = p /\ y.mask # {} /\ y.mask \subseteq used
    <3>1. PICK x \in kept : Match(y, x)
      BY <1>4, <1>5
    <3> QED BY <1>1, <1>3, <3>1
  <2>2. ASSUME NEW x \in left, NEW y \in left, x.pos = y.pos \/ x.route = y.route
        PROVE  x = y
    <3>1. PICK u \in kept, v \in kept : x = f[u] /\ y = f[v]
      BY <1>5
    <3>2. /\ x.pos = u.pos /\ x.route = u.route
          /\ y.pos = v.pos /\ y.route = v.route
      BY <1>4, <3>1
    <3>3. u = v
      BY <1>1, <1>3, <2>2, <3>2 DEF IsVec
    <3> QED BY <3>1, <3>3
  <2> QED BY <2>1, <2>2
<1>8. \A b, r : Uses(left, b, r)
               <=> Uses(e, b, r) /\ ~ (b = bit /\ SameSource(r, route))
  <2> HIDE DEF f, left
  <2>1. ASSUME NEW b, NEW r, Uses(left, b, r)
        PROVE  Uses(e, b, r) /\ ~ (b = bit /\ SameSource(r, route))
    <3>1. PICK y \in left : y.route = r /\ b \in y.mask
      BY <2>1 DEF Uses
    <3>2. PICK x \in kept : Match(y, x)
      BY <1>4, <1>5
    <3> HIDE DEF kept
    <3> QED BY <1>3, <3>1, <3>2 DEF Uses
  <2>2. ASSUME NEW b, NEW r, Uses(e, b, r), ~ (b = bit /\ SameSource(r, route))
        PROVE  Uses(left, b, r)
    <3>1. PICK x \in e : x.route = r /\ b \in x.mask
      BY <2>2 DEF Uses
    <3>2. x \in kept
      BY <2>2, <3>1 DEF Retained
    <3>3. Match(f[x], x) /\ f[x] \in left
      BY <1>4, <1>5, <3>2
    <3> HIDE DEF kept
    <3> QED BY <2>2, <3>1, <3>3 DEF Uses
  <2> QED BY <2>1, <2>2
<1> HIDE DEF f, kept, left, n
<1>9. /\ n \subseteq Element(R) /\ IsFiniteSet(n) /\ IsVec(n)
      /\ \A x \in left : \E y \in n : y.mask = x.mask /\ y.route = x.route
      /\ \A x, y \in n : \E u, v \in left :
           /\ u.mask = x.mask /\ u.route = x.route
           /\ v.mask = y.mask /\ v.route = y.route
           /\ u = v => x = y
  BY <1>2, <1>6, <1>7, ReindexIsVec
<1>10. n = {} \/ EntryOK(n, p, used, R)
  <2>1. \A x \in n : x.route.prefix = p /\ x.mask # {} /\ x.mask \subseteq used
    BY <1>7, <1>9
  <2>2. \A x, y \in n : x.route = y.route => x = y
    BY <1>7, <1>9
  <2> QED BY <1>9, <2>1, <2>2 DEF EntryOK
<1>11. \A b, r : Uses(n, b, r) <=> Uses(left, b, r)
  <2>1. \A y \in n : \E x \in left : x.mask = y.mask /\ x.route = y.route
    BY <1>9
  <2>2. \A b, r : Uses(n, b, r) => Uses(left, b, r)
    BY <2>1 DEF Uses
  <2>3. \A x \in left : \E y \in n : y.mask = x.mask /\ y.route = x.route
    BY <1>9
  <2>4. \A b, r : Uses(left, b, r) => Uses(n, b, r)
    BY <2>3 DEF Uses
  <2> QED BY <2>2, <2>4
<1> QED BY <1>8, <1>10, <1>11 DEF n

-----------------------------------------------------------------------------
(* The table's operations.                                                 *)

TableOK(t, used, R) ==
  /\ DOMAIN t \subseteq Prefix
  /\ t = [p \in DOMAIN t |-> t[p]]
  /\ \A p \in DOMAIN t : EntryOK(t[p], p, used, R)

UsesIn(t, b, r) == \E p \in DOMAIN t : Uses(t[p], b, r)

LEMMA InsertTable ==
  ASSUME NEW R \in SUBSET Routes, NEW t, NEW used, TableOK(t, used, R), NEW bit \in Nat, bit \in used,
         NEW route \in R
  PROVE  LET n == TableInsert(t, {bit}, route) IN
         /\ TableOK(n, used, R)
         /\ \A b, r : UsesIn(n, b, r) <=> UsesIn(t, b, r) \/ (r = route /\ b = bit)
<1> DEFINE p == route.prefix
           e == EntryAt(t, p)
           n == TableInsert(t, {bit}, route)
<1>1. p \in Prefix
  BY DEF Routes
<1>2. NoneOrOK(e, p, used, R)
  BY DEF EntryAt, TableOK, NoneOrOK
<1>3. /\ EntryOK(EntryInsert(e, {bit}, route), p, used, R)
      /\ \A b, r : Uses(EntryInsert(e, {bit}, route), b, r)
                  <=> Uses(e, b, r) \/ (r = route /\ b \in {bit})
  <2> HIDE DEF p, e
  <2>1. route.prefix = p
    BY DEF p
  <2>2. {bit} \in SUBSET Nat /\ {bit} # {} /\ {bit} \subseteq used
    OBVIOUS
  <2> QED BY <1>2, <2>1, <2>2, InsertEntry
<1>4. /\ DOMAIN n = DOMAIN t \cup {p}
      /\ n[p] = EntryInsert(e, {bit}, route)
      /\ \A q \in DOMAIN t : q # p => n[q] = t[q]
      /\ n = [q \in DOMAIN n |-> n[q]]
  BY DEF TableInsert
<1>5. \A b, r : Uses(e, b, r) <=> p \in DOMAIN t /\ Uses(t[p], b, r)
  BY DEF EntryAt, Uses
<1> HIDE DEF p, e, n
<1>6. TableOK(n, used, R)
  BY <1>1, <1>3, <1>4 DEF TableOK
<1>7. \A b, r : UsesIn(n, b, r) <=> UsesIn(t, b, r) \/ (r = route /\ b = bit)
  BY <1>3, <1>4, <1>5 DEF UsesIn
<1> QED BY <1>6, <1>7 DEF n

LEMMA RemoveTable ==
  ASSUME NEW R, NEW t, NEW used, TableOK(t, used, R), NEW bit, NEW route
  PROVE  LET n == TableRemove(t, {bit}, route) IN
         /\ TableOK(n, used, R)
         /\ \A b, r : UsesIn(n, b, r)
                     <=> UsesIn(t, b, r) /\ ~ (b = bit /\ SameSource(r, route))
<1> DEFINE p == route.prefix
           e == EntryWithdraw(EntryAt(t, p), {bit}, route)
           n == TableRemove(t, {bit}, route)
<1>1. \A q \in DOMAIN t : \A b, r : Uses(t[q], b, r) => r.prefix = q
  BY DEF TableOK, EntryOK, Uses
<1>2. CASE p \in DOMAIN t
  <2>1. /\ e = {} \/ EntryOK(e, p, used, R)
        /\ \A b, r : Uses(e, b, r)
                    <=> Uses(t[p], b, r) /\ ~ (b = bit /\ SameSource(r, route))
    <3>1. EntryOK(t[p], p, used, R) /\ e = EntryWithdraw(t[p], {bit}, route)
      BY <1>2 DEF TableOK, EntryAt
    <3> HIDE DEF p, e
    <3> QED BY <3>1, WithdrawEntry
  <2>2. /\ DOMAIN n = IF e = {} THEN DOMAIN t \ {p} ELSE DOMAIN t
        /\ e # {} => n[p] = e
        /\ \A q \in DOMAIN t : q # p => n[q] = t[q]
        /\ n = [q \in DOMAIN n |-> n[q]]
    BY <1>2 DEF TableRemove
  <2>3. \A b, r : SameSource(r, route) => r.prefix = p
    BY DEF SameSource
  <2>4. \A b, r : e = {} => ~ Uses(e, b, r)
    BY DEF Uses
  <2> HIDE DEF p, e, n
  <2>5. TableOK(n, used, R)
    BY <2>1, <2>2 DEF TableOK
  <2>6. ASSUME NEW b, NEW r
        PROVE  UsesIn(n, b, r)
                 <=> UsesIn(t, b, r) /\ ~ (b = bit /\ SameSource(r, route))
    <3>1. \A q \in DOMAIN t : q # p => (Uses(t[q], b, r) => ~ SameSource(r, route))
      BY <1>1, <2>3
    <3>2. UsesIn(n, b, r)
            <=> Uses(e, b, r) \/ \E q \in DOMAIN t : q # p /\ Uses(t[q], b, r)
      BY <1>2, <2>2, <2>4 DEF UsesIn
    <3>3. UsesIn(t, b, r)
            <=> Uses(t[p], b, r) \/ \E q \in DOMAIN t : q # p /\ Uses(t[q], b, r)
      BY <1>2 DEF UsesIn
    <3> QED BY <2>1, <3>1, <3>2, <3>3
  <2> QED BY <2>5, <2>6 DEF n
<1>3. CASE p \notin DOMAIN t
  <2>1. DOMAIN n = DOMAIN t /\ n = [q \in DOMAIN t |-> t[q]]
    BY <1>3 DEF TableRemove
  <2>2. n = t
    BY <2>1 DEF TableOK
  <2>3. \A b, r : UsesIn(t, b, r) => ~ SameSource(r, route)
    BY <1>1, <1>3 DEF UsesIn, SameSource
  <2> QED BY <2>2, <2>3
<1> QED BY <1>2, <1>3

LEMMA EmptyTableOK == ASSUME NEW R, NEW used PROVE TableOK(EmptyTable, used, R)
BY DEF TableOK, EmptyTable
-----------------------------------------------------------------------------
(* The order of the routes in an entry.                                    *)

(* The routes that are in e and in n are in the same order in both.        *)
KeepsOrder(e, n) ==
  \A x, y \in e, u, v \in n :
    x.route = u.route /\ y.route = v.route => (x.pos <= y.pos <=> u.pos <= v.pos)

(* A router that joins a route leaves it where it is, a new one is last.   *)
LEMMA InsertKeepsOrder ==
  ASSUME NEW R, NEW e, NEW p, NEW used, NoneOrOK(e, p, used, R), NEW m, NEW route
  PROVE  KeepsOrder(e, EntryInsert(e, m, route))
<1> DEFINE n == EntryInsert(e, m, route)
<1>1. \A x, y \in e : x.route = y.route => x = y
  BY DEF NoneOrOK, EntryOK
<1>2. \A x \in e : x \in Element(R)
  BY DEF NoneOrOK, EntryOK
<1>3. ASSUME NEW x \in e, NEW u \in n, x.route = u.route
      PROVE  x.pos = u.pos
  <2>1. CASE \E y \in e : y.route = route
    <3>1. PICK y \in e : u = IF y.route = route THEN [y EXCEPT !.mask = @ \cup m] ELSE y
      BY <2>1 DEF EntryInsert
    <3>2. u.route = y.route /\ u.pos = y.pos
      BY <1>2, <3>1 DEF Element
    <3> QED BY <1>1, <1>3, <3>2
  <2>2. CASE ~ \E y \in e : y.route = route
    <3>1. u \in e \/ u.route = route
      BY <2>2 DEF EntryInsert
    <3> QED BY <1>1, <1>3, <2>2, <3>1
  <2> QED BY <2>1, <2>2
<1> HIDE DEF n
<1>4. KeepsOrder(e, n)
  BY <1>3 DEF KeepsOrder
<1> QED BY <1>4 DEF n

(* A withdrawal takes elements out of the Vec, and the others move up.     *)
LEMMA WithdrawKeepsOrder ==
  ASSUME NEW R, NEW e, NEW p, NEW used, EntryOK(e, p, used, R), NEW m, NEW route
  PROVE  KeepsOrder(e, EntryWithdraw(e, m, route))
<1> DEFINE kept == Retained(e, m, route)
           f == [x \in kept |-> Unmask(x, m, route)]
           left == { f[x] : x \in kept }
           n == EntryWithdraw(e, m, route)
<1>1. /\ e \subseteq Element(R) /\ IsFiniteSet(e)
      /\ \A x, y \in e : x.route = y.route => x = y
  BY DEF EntryOK
<1>2. n = Reindex(left)
  BY DEF EntryWithdraw
<1>3. kept \in SUBSET e
  BY DEF Retained
<1>4. \A x \in kept : /\ f[x] \in Element(R)
                      /\ f[x].pos = x.pos /\ f[x].route = x.route
  BY <1>1, <1>3 DEF Unmask, Element
<1>5. IsFiniteSet(left) /\ left \subseteq Element(R)
  <2>1. f \in Surjection(kept, left)
    BY DEF Surjection
  <2>2. left \subseteq Element(R)
    BY <1>4
  <2>3. IsFiniteSet(kept)
    BY <1>1, <1>3, FS_Subset
  <2> HIDE DEF f, kept, left
  <2> QED BY <2>1, <2>2, <2>3, FS_Surjection
<1>6. \A z \in left : \E x \in e : z.pos = x.pos /\ z.route = x.route
  <2>1. \A z \in left : \E x \in kept : z = f[x]
    OBVIOUS
  <2> HIDE DEF f, kept, left
  <2> QED BY <1>3, <1>4, <2>1
<1> HIDE DEF f, kept, left
<1>7. \A u \in n : \E z \in left :
        u.pos = Cardinality(Before(left, z)) /\ u.route = z.route
  <2>1. \A u \in n : \E z \in left : u = [z EXCEPT !.pos = Cardinality(Before(left, z))]
    BY <1>2 DEF Reindex, Before
  <2> QED BY <1>5, <2>1 DEF Element
<1> HIDE DEF n
<1>8. ASSUME NEW x \in e, NEW y \in e, NEW u \in n, NEW v \in n,
             x.route = u.route, y.route = v.route
      PROVE  x.pos <= y.pos <=> u.pos <= v.pos
  <2>1. PICK w \in left : u.pos = Cardinality(Before(left, w)) /\ u.route = w.route
    BY <1>7
  <2>2. PICK z \in left : v.pos = Cardinality(Before(left, z)) /\ v.route = z.route
    BY <1>7
  <2>3. w.pos = x.pos /\ z.pos = y.pos
    BY <1>1, <1>6, <1>8, <2>1, <2>2
  <2>4. w.pos <= z.pos
          <=> Cardinality(Before(left, w)) <= Cardinality(Before(left, z))
    BY <1>5, ReindexOrder
  <2> QED BY <2>1, <2>2, <2>3, <2>4
<1>9. KeepsOrder(e, n)
  BY <1>8 DEF KeepsOrder
<1> QED BY <1>9 DEF n

(* A step that leaves an entry alone keeps its order.                      *)
LEMMA SameOrder ==
  ASSUME NEW R, NEW e, NEW p, NEW used, NoneOrOK(e, p, used, R)
  PROVE  KeepsOrder(e, e)
<1>1. \A x, y \in e : x.route = y.route => x = y
  BY DEF NoneOrOK, EntryOK
<1> QED BY <1>1 DEF KeepsOrder

(* On the table the operations keep the order of every entry.              *)
LEMMA InsertTableKeepsOrder ==
  ASSUME NEW R, NEW t, NEW used, TableOK(t, used, R), NEW m, NEW route, NEW q
  PROVE  KeepsOrder(EntryAt(t, q), EntryAt(TableInsert(t, m, route), q))
<1>1. NoneOrOK(EntryAt(t, q), q, used, R)
  BY DEF EntryAt, TableOK, NoneOrOK
<1>2. CASE q = route.prefix
  <2>1. EntryAt(TableInsert(t, m, route), q) = EntryInsert(EntryAt(t, q), m, route)
    BY <1>2 DEF TableInsert, EntryAt
  <2> QED BY <1>1, <2>1, InsertKeepsOrder
<1>3. CASE q # route.prefix
  <2>1. EntryAt(TableInsert(t, m, route), q) = EntryAt(t, q)
    BY <1>3 DEF TableInsert, EntryAt
  <2> QED BY <1>1, <2>1, SameOrder
<1> QED BY <1>2, <1>3

LEMMA RemoveTableKeepsOrder ==
  ASSUME NEW R, NEW t, NEW used, TableOK(t, used, R), NEW m, NEW route, NEW q
  PROVE  KeepsOrder(EntryAt(t, q), EntryAt(TableRemove(t, m, route), q))
<1> DEFINE w == EntryWithdraw(EntryAt(t, route.prefix), m, route)
           n == TableRemove(t, m, route)
<1>1. CASE q \in DOMAIN t /\ q = route.prefix
  <2>1. EntryAt(t, q) = t[q] /\ EntryOK(t[q], q, used, R)
    BY <1>1 DEF EntryAt, TableOK
  <2>2. KeepsOrder(EntryAt(t, q), w)
    BY <1>1, <2>1, WithdrawKeepsOrder
  <2>3. EntryAt(n, q) = w
    BY <1>1 DEF TableRemove, EntryAt
  <2> QED BY <2>2, <2>3
<1>2. CASE q \in DOMAIN t /\ q # route.prefix
  <2>1. EntryAt(n, q) = EntryAt(t, q)
    BY <1>2 DEF TableRemove, EntryAt
  <2>2. NoneOrOK(EntryAt(t, q), q, used, R)
    BY DEF EntryAt, TableOK, NoneOrOK
  <2> QED BY <2>1, <2>2, SameOrder
<1>3. CASE q \notin DOMAIN t
  <2>1. EntryAt(t, q) = {}
    BY <1>3 DEF EntryAt
  <2> QED BY <2>1 DEF KeepsOrder
<1> QED BY <1>1, <1>2, <1>3
=============================================================================
