------------------------------ MODULE SumProofs ------------------------------
(***************************************************************************)
(* What the models add up with: SumFunctionOnSet of Functions, a recursive *)
(* function over the subsets of its indices.  Its recursion is shown to    *)
(* have a solution, and the sum to be a number that does not depend on the *)
(* order the elements are taken in.                                        *)
(*                                                                         *)
(* The induction is over sets of numbers, where every nonempty one has a   *)
(* least element.                                                          *)
(***************************************************************************)
EXTENDS WellFoundedInduction, FiniteSetTheorems, Functions, Sequences, RankOrder, TLAPS

LEMMA LeastNumber ==
  ASSUME NEW T \in SUBSET Nat, T # {}
  PROVE  \E x \in T : \A y \in T : x <= y
<1> DEFINE R == OpToRel(<, Nat)
<1>1. \A x, y \in Nat : y < x => <<y, x>> \in R
  BY DEF OpToRel
<1>2. IsWellFoundedOn(R, Nat)
  BY NatLessThanWellFounded
<1> HIDE DEF R
<1>3. PICK x \in T : \A y \in T : ~(<<y, x>> \in R)
  BY <1>2, WFMin
<1>4. ASSUME NEW y \in T PROVE x <= y
  <2>1. x \in Nat /\ y \in Nat
    OBVIOUS
  <2>2. ~(y < x)
    BY <1>1, <1>3, <2>1
  <2> QED
    BY <2>1, <2>2
<1> QED
  BY <1>4

\* A set with zero and every successor holds every number.
LEMMA NumberInduction ==
  ASSUME NEW T \in SUBSET Nat, 0 \in T, \A n \in T : n + 1 \in T
  PROVE  T = Nat
<1> SUFFICES ASSUME T # Nat PROVE FALSE
  OBVIOUS
<1>1. PICK n \in Nat \ T : \A m \in Nat \ T : n <= m
  BY LeastNumber
<1>2. n # 0 /\ n - 1 \in Nat
  OBVIOUS
<1>3. n - 1 \in T
  BY <1>1, <1>2
<1>4. (n - 1) + 1 \in T
  BY <1>3
<1> QED
  BY <1>4

LEMMA OneLess ==
  ASSUME NEW A, IsFiniteSet(A), NEW n \in Nat, Cardinality(A) = n + 1
  PROVE  A # {} /\ \A x \in A : IsFiniteSet(A \ {x}) /\ Cardinality(A \ {x}) = n
<1>1. A # {}
  BY FS_EmptySet
<1>2. \A x \in A : IsFiniteSet(A \ {x}) /\ Cardinality(A \ {x}) = Cardinality(A) - 1
  BY FS_RemoveElement
<1>3. (n + 1) - 1 = n
  OBVIOUS
<1> QED
  BY <1>1, <1>2, <1>3

\* A set of subsets of S that holds {}, and every one all of whose elements can
\* be taken away, holds all of them.
LEMMA SubsetInduction ==
  ASSUME NEW S, IsFiniteSet(S), NEW T \in SUBSET SUBSET S,
         {} \in T,
         \A A \in SUBSET S : A # {} /\ (\A x \in A : A \ {x} \in T) => A \in T
  PROVE  T = SUBSET S
<1> DEFINE N == {n \in Nat : \A A \in SUBSET S : Cardinality(A) = n => A \in T}
<1>1. \A A \in SUBSET S : IsFiniteSet(A) /\ Cardinality(A) \in Nat
  BY FS_Subset, FS_CardinalityType
<1>2. 0 \in N
  BY <1>1, FS_EmptySet
<1>3. ASSUME NEW n \in N PROVE n + 1 \in N
  <2> SUFFICES ASSUME NEW A \in SUBSET S, Cardinality(A) = n + 1 PROVE A \in T
    OBVIOUS
  <2>1. n \in Nat /\ IsFiniteSet(A)
    BY <1>1
  <2>2. A # {} /\ \A x \in A : Cardinality(A \ {x}) = n
    BY <2>1, OneLess
  <2>3. \A x \in A : A \ {x} \in T
    BY <2>2
  <2> QED
    BY <2>2, <2>3
<1> HIDE DEF N
<1>4. N = Nat
  <2>1. N \in SUBSET Nat
    BY DEF N
  <2> QED
    BY <2>1, <1>2, <1>3, NumberInduction
<1>5. ASSUME NEW A \in SUBSET S PROVE A \in T
  <2>1. Cardinality(A) \in N
    BY <1>1, <1>4
  <2> QED
    BY <2>1 DEF N
<1> QED
  BY <1>5
-----------------------------------------------------------------------------
(* Finite sets                                                             *)

LEMMA UnionIsFinite ==
  \A S, T : IsFiniteSet(S) /\ IsFiniteSet(T) => IsFiniteSet(S \cup T)
BY FS_Union

LEMMA DisjointUnionCounts ==
  ASSUME NEW S, NEW T, IsFiniteSet(S), IsFiniteSet(T), S \cap T = {}
  PROVE  /\ IsFiniteSet(S \cup T)
         /\ Cardinality(S \cup T) = Cardinality(S) + Cardinality(T)
<1>1. /\ IsFiniteSet(S \cup T)
      /\ Cardinality(S \cup T) = Cardinality(S) + Cardinality(T) - Cardinality(S \cap T)
  BY FS_Union
<1>2. Cardinality(S \cap T) = 0
  BY FS_EmptySet
<1>3. Cardinality(S) \in Nat /\ Cardinality(T) \in Nat
  BY FS_CardinalityType
<1> QED
  BY <1>1, <1>2, <1>3

LEMMA PairIsFinite ==
  ASSUME NEW x, NEW y
  PROVE  IsFiniteSet({x}) /\ IsFiniteSet({x, y})
<1>1. {x, y} = {x} \cup {y}
  OBVIOUS
<1>2. IsFiniteSet({x}) /\ IsFiniteSet({y})
  BY FS_Singleton
<1> QED
  BY <1>1, <1>2, UnionIsFinite

LEMMA ImageIsFinite ==
  ASSUME NEW S, NEW f, IsFiniteSet(S)
  PROVE  IsFiniteSet({f[x] : x \in S})
<1> DEFINE T == {f[x] : x \in S}
           g == [x \in S |-> f[x]]
<1>1. g \in Surjection(S, T)
  BY DEF Surjection
<1> QED
  BY <1>1, FS_Surjection

LEMMA ImageHasAsMany ==
  ASSUME NEW S, NEW f, IsFiniteSet(S), \A x, y \in S : f[x] = f[y] => x = y
  PROVE  /\ IsFiniteSet({f[x] : x \in S})
         /\ Cardinality({f[x] : x \in S}) = Cardinality(S)
<1> DEFINE T == {f[x] : x \in S}
           g == [x \in S |-> f[x]]
<1>1. g \in Injection(S, T)
  <2>1. g \in [S -> T] /\ IsInjective(g)
    BY DEF IsInjective
  <2> HIDE DEF g, T
  <2> QED
    BY <2>1 DEF Injection
<1>2. g \in Surjection(S, T)
  BY DEF Surjection
<1> HIDE DEF g, T
<1>3. g \in Bijection(S, T)
  BY <1>1, <1>2 DEF Bijection
<1>4. IsFiniteSet(T) /\ Cardinality(T) = Cardinality(S)
  BY <1>3, FS_Bijection DEF ExistsBijection
<1> QED
  BY <1>4 DEF T

LEMMA UnionOfImagesIsFinite ==
  ASSUME NEW S, NEW f, IsFiniteSet(S), \A x \in S : IsFiniteSet(f[x])
  PROVE  IsFiniteSet(UNION {f[x] : x \in S})
<1>1. PICK T : T = {f[x] : x \in S}
  OBVIOUS
<1>2. IsFiniteSet(T) /\ \A A \in T : IsFiniteSet(A)
  BY <1>1, ImageIsFinite
<1> QED
  BY <1>1, <1>2, FS_UNION

-----------------------------------------------------------------------------
(* Ranks: how many elements of a finite set come before one                *)

TotallyOrders(R, S) ==
  /\ \A x \in S : <<x, x>> \notin R
  /\ \A x, y, z \in S : <<x, y>> \in R /\ <<y, z>> \in R => <<x, z>> \in R
  /\ \A x, y \in S : x = y \/ <<x, y>> \in R \/ <<y, x>> \in R

RanksUnder(R, S) == [x \in S |-> Cardinality({y \in S : <<y, x>> \in R})]

\* Each of the numbers below the size of S is the rank of one element.
RanksEach(rank, S) ==
  /\ \A x \in S : rank[x] \in 0..(Cardinality(S) - 1)
  /\ \A x, z \in S : rank[x] = rank[z] => x = z
  /\ \A n \in 0..(Cardinality(S) - 1) : \E x \in S : rank[x] = n

\* Under a strict total order every rank is taken, by one element.
LEMMA RanksAreTaken ==
  ASSUME NEW S, IsFiniteSet(S), NEW R, TotallyOrders(R, S)
  PROVE  RanksEach(RanksUnder(R, S), S)
<1> USE DEF TotallyOrders
<1> DEFINE Below(x) == {y \in S : <<y, x>> \in R}
           T == 0..(Cardinality(S) - 1)
           f == [x \in S |-> Cardinality(Below(x))]
<1>1. Cardinality(S) \in Nat
  BY FS_CardinalityType
<1>2. \A x : Below(x) \in SUBSET S /\ IsFiniteSet(Below(x)) /\ Cardinality(Below(x)) \in Nat
  BY FS_Subset, FS_CardinalityType
<1>3. ASSUME NEW x \in S, NEW z \in S, <<x, z>> \in R
      PROVE  Cardinality(Below(x)) < Cardinality(Below(z))
  <2>1. Below(x) \in SUBSET Below(z) /\ x \in Below(z) /\ x \notin Below(x)
    BY <1>3
  <2> HIDE DEF Below
  <2>2. Cardinality(Below(x)) <= Cardinality(Below(z)) /\ Below(x) # Below(z)
    BY <2>1, <1>2, FS_Subset
  <2>3. Cardinality(Below(x)) # Cardinality(Below(z))
    BY <2>1, <2>2, <1>2, FS_Subset
  <2> QED
    BY <2>2, <2>3, <1>2
<1>4. \A x \in S : Cardinality(Below(x)) \in T
  <2> SUFFICES ASSUME NEW x \in S PROVE Cardinality(Below(x)) \in T
    OBVIOUS
  <2>1. Below(x) \in SUBSET S /\ x \notin Below(x)
    OBVIOUS
  <2> HIDE DEF Below
  <2>2. Cardinality(Below(x)) <= Cardinality(S) /\ Cardinality(Below(x)) # Cardinality(S)
    BY <2>1, FS_Subset
  <2> QED
    BY <2>2, <1>1, <1>2
<1>5. \A x, z \in S : Cardinality(Below(x)) = Cardinality(Below(z)) => x = z
  <2> SUFFICES ASSUME NEW x \in S, NEW z \in S, x # z
               PROVE  Cardinality(Below(x)) # Cardinality(Below(z))
    OBVIOUS
  <2>1. <<x, z>> \in R \/ <<z, x>> \in R
    OBVIOUS
  <2>2. \/ Cardinality(Below(x)) < Cardinality(Below(z))
        \/ Cardinality(Below(z)) < Cardinality(Below(x))
    BY <2>1, <1>3
  <2> HIDE DEF Below
  <2> QED
    BY <2>2, <1>2
<1>6. f \in Injection(S, T)
  <2> HIDE DEF Below, T
  <2>1. f \in [S -> T] /\ IsInjective(f)
    BY <1>4, <1>5 DEF IsInjective
  <2> QED
    BY <2>1 DEF Injection
<1>7. IsFiniteSet(T) /\ Cardinality(T) = Cardinality(S)
  <2>1. /\ IsFiniteSet(T)
        /\ Cardinality(T) = IF 0 > Cardinality(S) - 1 THEN 0 ELSE Cardinality(S) - 1 - 0 + 1
    BY <1>1, FS_Interval
  <2> HIDE DEF T
  <2> QED
    BY <2>1, <1>1
<1> HIDE DEF T, f
<1>8. f \in Surjection(S, T)
  BY <1>6, <1>7, FS_Injection
<1>9. \A n \in T : \E x \in S : f[x] = n
  BY <1>8 DEF Surjection
<1>10. f = RanksUnder(R, S)
  BY DEF f, RanksUnder
<1>11. \A x \in S : f[x] = Cardinality(Below(x))
  BY DEF f
<1> HIDE DEF Below
<1> QED
  BY <1>4, <1>5, <1>9, <1>10, <1>11 DEF RanksEach, T

\* Counted by a strict total order, the elements in their order are all of them.
LEMMA ElementsInOrder ==
  ASSUME NEW S, IsFiniteSet(S), NEW R, TotallyOrders(R, S),
         NEW before, before = RanksUnder(R, S),
         NEW order, order = InOrder(before)
  PROVE  /\ order \in Seq(S) /\ Len(order) = Cardinality(S)
         /\ \A x \in S : \E n \in DOMAIN order : order[n] = x
         /\ \A n \in DOMAIN order : before[order[n]] = n - 1
<1> DEFINE size == Cardinality(S)
<1>1. size \in Nat
  BY FS_CardinalityType
<1>2. /\ \A x \in S : before[x] \in 0..(size - 1)
      /\ \A x, z \in S : before[x] = before[z] => x = z
      /\ \A n \in 0..(size - 1) : \E x \in S : before[x] = n
  BY RanksAreTaken DEF RanksEach
<1>3. order = [n \in 1..size |-> CHOOSE x \in S : before[x] = n - 1]
  <2>1. DOMAIN before = S
    BY DEF RanksUnder
  <2> QED
    BY <2>1 DEF InOrder
<1> HIDE DEF size
<1>4. ASSUME NEW n \in 1..size PROVE order[n] \in S /\ before[order[n]] = n - 1
  <2>1. n - 1 \in 0..(size - 1)
    BY <1>1
  <2>2. \E x \in S : before[x] = n - 1
    BY <2>1, <1>2
  <2> QED
    BY <2>2, <1>3
<1>5. order \in Seq(S) /\ Len(order) = size
  <2>1. \A n \in 1..size : order[n] \in S
    BY <1>4
  <2>2. order \in [1..size -> S]
    BY <2>1, <1>3
  <2> QED
    BY <2>2, <1>1
<1>6. ASSUME NEW x \in S PROVE \E n \in DOMAIN order : order[n] = x
  <2>1. PICK n \in 1..size : before[x] = n - 1
    <3>1. before[x] + 1 \in 1..size /\ before[x] = (before[x] + 1) - 1
      BY <1>1, <1>2
    <3> QED
      BY <3>1
  <2>2. order[n] \in S /\ before[order[n]] = before[x]
    BY <2>1, <1>4
  <2>3. order[n] = x
    BY <2>2, <1>2
  <2> QED
    BY <2>3, <1>3
<1>7. \A n \in DOMAIN order : before[order[n]] = n - 1
  BY <1>3, <1>4
<1> QED
  BY <1>5, <1>6, <1>7 DEF size

-----------------------------------------------------------------------------
(* The sum                                                                 *)

Sum(f, S) == SumFunctionOnSet(f, S)
First(s) == CHOOSE x \in s : TRUE

\* g is a solution of the recursion over the subsets of S in the set Dom.
Adds(g, f, Dom) ==
  g = [s \in Dom |-> IF s = {} THEN 0 ELSE f[First(s)] + g[s \ {First(s)}]]

LEMMA SumIsSolution ==
  ASSUME NEW f, NEW S
  PROVE  Sum(f, S) = (CHOOSE g : Adds(g, f, SUBSET S))[S]
BY DEF Sum, SumFunctionOnSet, FoldFunctionOnSet, MapThenFoldSet, Adds, First

LEMMA FirstIn == \A s : s # {} => First(s) \in s
BY DEF First

\* The recursion has a solution: first for the sets of at most n elements.
LEMMA SolutionExists ==
  ASSUME NEW f, NEW S, IsFiniteSet(S)
  PROVE  \E g : Adds(g, f, SUBSET S)
<1> DEFINE UpTo(n) == {A \in SUBSET S : Cardinality(A) <= n}
           N == {n \in Nat : \E g : Adds(g, f, UpTo(n))}
<1>1. \A A \in SUBSET S : IsFiniteSet(A) /\ Cardinality(A) \in Nat
  BY FS_Subset, FS_CardinalityType
<1>2. \A A \in SUBSET S : A # {} =>
         A \ {First(A)} \in SUBSET S /\ Cardinality(A \ {First(A)}) = Cardinality(A) - 1
  BY <1>1, FirstIn, FS_RemoveElement
<1>3. 0 \in N
  <2> DEFINE g == [s \in UpTo(0) |-> 0]
  <2>1. \A s \in UpTo(0) : s = {}
    BY <1>1, FS_EmptySet
  <2>2. Adds(g, f, UpTo(0))
    BY <2>1 DEF Adds
  <2> QED
    BY <2>2
<1>4. ASSUME NEW n \in N PROVE n + 1 \in N
  <2>1. n \in Nat
    OBVIOUS
  <2>2. PICK g : Adds(g, f, UpTo(n))
    OBVIOUS
  <2> DEFINE h == [s \in UpTo(n + 1) |->
                     IF s = {} THEN 0 ELSE f[First(s)] + g[s \ {First(s)}]]
  <2>3. \A s \in UpTo(n + 1) : s # {} => s \ {First(s)} \in UpTo(n)
    BY <1>1, <1>2, <2>1
  <2>4. \A s \in UpTo(n) : s \in UpTo(n + 1) /\ h[s] = g[s]
    <3> TAKE s \in UpTo(n)
    <3>1. s \in UpTo(n + 1)
      BY <1>1, <2>1
    <3>2. g[s] = IF s = {} THEN 0 ELSE f[First(s)] + g[s \ {First(s)}]
      BY <2>2 DEF Adds
    <3> QED
      BY <3>1, <3>2
  <2>5. Adds(h, f, UpTo(n + 1))
    <3>1. \A s \in UpTo(n + 1) : s # {} => g[s \ {First(s)}] = h[s \ {First(s)}]
      BY <2>3, <2>4
    <3> HIDE DEF UpTo
    <3> QED
      BY <3>1 DEF Adds
  <2> HIDE DEF UpTo, h
  <2> QED
    BY <2>1, <2>5
<1>5. N = Nat
  <2>1. N \in SUBSET Nat
    OBVIOUS
  <2> HIDE DEF N
  <2> QED
    BY <2>1, <1>3, <1>4, NumberInduction
<1>6. PICK g : Adds(g, f, UpTo(Cardinality(S)))
  BY <1>1, <1>5
<1>7. UpTo(Cardinality(S)) = SUBSET S
  BY <1>1, FS_Subset
<1> QED
  BY <1>6, <1>7

LEMMA SolutionUnique ==
  ASSUME NEW f, NEW S, NEW R \in SUBSET S, IsFiniteSet(R)
  PROVE  \A g, h : Adds(g, f, SUBSET R) /\ Adds(h, f, SUBSET S) => g[R] = h[R]
<1> SUFFICES ASSUME NEW g, NEW h, Adds(g, f, SUBSET R), Adds(h, f, SUBSET S)
             PROVE  g[R] = h[R]
  OBVIOUS
<1> DEFINE T == {A \in SUBSET R : g[A] = h[A]}
<1>1. \A A \in SUBSET R :
        /\ g[A] = IF A = {} THEN 0 ELSE f[First(A)] + g[A \ {First(A)}]
        /\ h[A] = IF A = {} THEN 0 ELSE f[First(A)] + h[A \ {First(A)}]
  <2> TAKE A \in SUBSET R
  <2>1. A \in SUBSET S
    OBVIOUS
  <2>2. g[A] = IF A = {} THEN 0 ELSE f[First(A)] + g[A \ {First(A)}]
    BY DEF Adds
  <2>3. h[A] = IF A = {} THEN 0 ELSE f[First(A)] + h[A \ {First(A)}]
    BY <2>1 DEF Adds
  <2> QED
    BY <2>2, <2>3
<1>2. {} \in T
  BY <1>1
<1>3. ASSUME NEW A \in SUBSET R, A # {}, \A x \in A : A \ {x} \in T PROVE A \in T
  BY <1>1, <1>3, FirstIn
<1> HIDE DEF T
<1>4. T = SUBSET R
  <2>1. T \in SUBSET SUBSET R
    BY DEF T
  <2> QED
    BY <2>1, <1>2, <1>3, SubsetInduction
<1> QED
  BY <1>4 DEF T

LEMMA SumSolution ==
  ASSUME NEW f, NEW S, IsFiniteSet(S)
  PROVE  \E g : Adds(g, f, SUBSET S) /\ Sum(f, S) = g[S]
<1> DEFINE g == CHOOSE k : Adds(k, f, SUBSET S)
<1>1. Adds(g, f, SUBSET S)
  BY SolutionExists
<1>2. Sum(f, S) = g[S]
  BY SumIsSolution
<1> QED
  BY <1>1, <1>2

LEMMA SumRecursion ==
  ASSUME NEW f, NEW S, IsFiniteSet(S)
  PROVE  Sum(f, S) = IF S = {} THEN 0 ELSE f[First(S)] + Sum(f, S \ {First(S)})
<1>1. PICK R : R = S \ {First(S)}
  OBVIOUS
<1>2. IsFiniteSet(R) /\ R \in SUBSET S
  BY <1>1, FS_Subset
<1>3. PICK g : Adds(g, f, SUBSET S) /\ Sum(f, S) = g[S]
  BY SumSolution
<1>4. PICK h : Adds(h, f, SUBSET R) /\ Sum(f, R) = h[R]
  BY <1>2, SumSolution
<1>5. g[S] = IF S = {} THEN 0 ELSE f[First(S)] + g[R]
  BY <1>1, <1>3 DEF Adds
<1>6. h[R] = g[R]
  BY <1>2, <1>3, <1>4, SolutionUnique
<1> QED
  BY <1>1, <1>3, <1>4, <1>5, <1>6

LEMMA SumEmpty == \A f : Sum(f, {}) = 0
BY FS_EmptySet, SumRecursion

\* The sum of numbers over a finite set is a number, and any element may be
\* taken first.
LEMMA SumType ==
  ASSUME NEW S, IsFiniteSet(S), NEW f, \A x \in S : f[x] \in Nat
  PROVE  Sum(f, S) \in Nat
<1> DEFINE T == {A \in SUBSET S : Sum(f, A) \in Nat}
<1>1. \A A \in SUBSET S : IsFiniteSet(A)
  BY FS_Subset
<1>2. {} \in T
  BY SumEmpty
<1>3. ASSUME NEW A \in SUBSET S, A # {}, \A x \in A : A \ {x} \in T PROVE A \in T
  <2>1. First(A) \in A
    BY <1>3, FirstIn
  <2>2. Sum(f, A) = f[First(A)] + Sum(f, A \ {First(A)})
    BY <1>1, <1>3, SumRecursion
  <2>3. f[First(A)] \in Nat /\ Sum(f, A \ {First(A)}) \in Nat
    BY <1>3, <2>1
  <2> QED
    BY <2>2, <2>3
<1> HIDE DEF T
<1>4. T = SUBSET S
  <2>1. T \in SUBSET SUBSET S
    BY DEF T
  <2> QED
    BY <2>1, <1>2, <1>3, SubsetInduction
<1> QED
  BY <1>4 DEF T

LEMMA SumRemove ==
  ASSUME NEW S, IsFiniteSet(S), NEW f, \A y \in S : f[y] \in Nat, NEW x \in S
  PROVE  Sum(f, S) = f[x] + Sum(f, S \ {x})
<1> DEFINE T == {A \in SUBSET S : \A y \in A : Sum(f, A) = f[y] + Sum(f, A \ {y})}
<1>1. \A A \in SUBSET S : IsFiniteSet(A)
  BY FS_Subset
<1>2. {} \in T
  OBVIOUS
<1>3. ASSUME NEW A \in SUBSET S, A # {}, \A z \in A : A \ {z} \in T PROVE A \in T
  <2> SUFFICES ASSUME NEW y \in A PROVE Sum(f, A) = f[y] + Sum(f, A \ {y})
    OBVIOUS
  <2> DEFINE p == First(A)
             B == (A \ {y}) \ {p}
  <2>1. p \in A
    BY FirstIn
  <2>2. Sum(f, A) = f[p] + Sum(f, A \ {p})
    BY <1>1, SumRecursion
  <2> HIDE DEF p
  <2>3. CASE y # p
    <3>1. (A \ {p}) \ {y} = B
      OBVIOUS
    <3>2. Sum(f, A \ {p}) = f[y] + Sum(f, B)
      BY <1>3, <2>1, <2>3, <3>1
    <3>3. Sum(f, A \ {y}) = f[p] + Sum(f, B)
      BY <1>3, <2>1, <2>3
    <3>4. Sum(f, B) \in Nat
      <4>1. B \in SUBSET S
        OBVIOUS
      <4> QED
        BY <4>1, <1>1, SumType
    <3>5. f[p] \in Nat /\ f[y] \in Nat
      BY <2>1
    <3> HIDE DEF B
    <3> QED
      BY <2>2, <3>2, <3>3, <3>4, <3>5
  <2> QED
    BY <2>2, <2>3
<1> HIDE DEF T
<1>4. T = SUBSET S
  <2>1. T \in SUBSET SUBSET S
    BY DEF T
  <2> QED
    BY <2>1, <1>2, <1>3, SubsetInduction
<1> QED
  BY <1>4 DEF T

LEMMA SumZero ==
  ASSUME NEW S, IsFiniteSet(S), NEW f, \A x \in S : f[x] = 0
  PROVE  Sum(f, S) = 0
<1> DEFINE T == {A \in SUBSET S : Sum(f, A) = 0}
<1>1. \A A \in SUBSET S : IsFiniteSet(A)
  BY FS_Subset
<1>2. {} \in T
  BY SumEmpty
<1>3. ASSUME NEW A \in SUBSET S, A # {}, \A x \in A : A \ {x} \in T PROVE A \in T
  <2>1. First(A) \in A
    BY <1>3, FirstIn
  <2>2. Sum(f, A) = f[First(A)] + Sum(f, A \ {First(A)})
    BY <1>1, <1>3, SumRecursion
  <2>3. f[First(A)] = 0 /\ Sum(f, A \ {First(A)}) = 0
    BY <1>3, <2>1
  <2> QED
    BY <2>2, <2>3
<1> HIDE DEF T
<1>4. T = SUBSET S
  <2>1. T \in SUBSET SUBSET S
    BY DEF T
  <2> QED
    BY <2>1, <1>2, <1>3, SubsetInduction
<1> QED
  BY <1>4 DEF T

\* Of two functions that agree on S the sums agree.
LEMMA SumAgree ==
  ASSUME NEW S, IsFiniteSet(S), NEW f, NEW g, \A x \in S : f[x] = g[x]
  PROVE  Sum(f, S) = Sum(g, S)
<1> DEFINE T == {A \in SUBSET S : Sum(f, A) = Sum(g, A)}
<1>1. \A A \in SUBSET S : IsFiniteSet(A)
  BY FS_Subset
<1>2. {} \in T
  BY SumEmpty
<1>3. ASSUME NEW A \in SUBSET S, A # {}, \A x \in A : A \ {x} \in T PROVE A \in T
  <2>1. First(A) \in A
    BY <1>3, FirstIn
  <2>2. /\ Sum(f, A) = f[First(A)] + Sum(f, A \ {First(A)})
        /\ Sum(g, A) = g[First(A)] + Sum(g, A \ {First(A)})
    BY <1>1, <1>3, SumRecursion
  <2> QED
    BY <1>3, <2>1, <2>2
<1> HIDE DEF T
<1>4. T = SUBSET S
  <2>1. T \in SUBSET SUBSET S
    BY DEF T
  <2> QED
    BY <2>1, <1>2, <1>3, SubsetInduction
<1> QED
  BY <1>4 DEF T

\* Sums of two summands are added, and larger summands have a larger sum.
LEMMA SumPlus ==
  ASSUME NEW S, IsFiniteSet(S), NEW f, NEW g, NEW h,
         \A x \in S : f[x] \in Nat /\ g[x] \in Nat /\ h[x] = f[x] + g[x]
  PROVE  Sum(h, S) = Sum(f, S) + Sum(g, S)
<1> DEFINE T == {A \in SUBSET S : Sum(h, A) = Sum(f, A) + Sum(g, A)}
<1>1. \A A \in SUBSET S : IsFiniteSet(A)
  BY FS_Subset
<1>2. ASSUME NEW A \in SUBSET S, A # {}, \A x \in A : A \ {x} \in T PROVE A \in T
  <2>1. PICK x \in A, B \in SUBSET S : x = First(A) /\ B = A \ {x}
    BY <1>2, FirstIn
  <2>2. /\ Sum(f, A) = f[x] + Sum(f, B) /\ Sum(g, A) = g[x] + Sum(g, B)
        /\ Sum(h, A) = h[x] + Sum(h, B)
    BY <1>1, <1>2, <2>1, SumRecursion
  <2>3. Sum(f, B) \in Nat /\ Sum(g, B) \in Nat
    BY <1>1, SumType
  <2>4. Sum(h, B) = Sum(f, B) + Sum(g, B)
    BY <1>2, <2>1
  <2>5. f[x] \in Nat /\ g[x] \in Nat /\ h[x] = f[x] + g[x]
    OBVIOUS
  <2>6. Sum(h, A) = Sum(f, A) + Sum(g, A)
    BY <2>2, <2>3, <2>4, <2>5
  <2> QED
    BY <2>6
<1>3. {} \in T
  BY SumEmpty
<1> HIDE DEF T
<1>4. T = SUBSET S
  <2>1. T \in SUBSET SUBSET S
    BY DEF T
  <2> QED
    BY <2>1, <1>2, <1>3, SubsetInduction
<1> QED
  BY <1>4 DEF T

LEMMA SumAtLeast ==
  ASSUME NEW S, IsFiniteSet(S), NEW f, NEW g, \A x \in S : f[x] \in Nat /\ g[x] \in Nat /\ f[x] <= g[x]
  PROVE  Sum(f, S) <= Sum(g, S)
<1> DEFINE d == [x \in S |-> g[x] - f[x]]
<1>1. \A x \in S : f[x] \in Nat /\ d[x] \in Nat /\ g[x] = f[x] + d[x]
  OBVIOUS
<1> HIDE DEF d
<1>2. Sum(g, S) = Sum(f, S) + Sum(d, S)
  BY <1>1, SumPlus
<1>3. Sum(f, S) \in Nat /\ Sum(d, S) \in Nat
  BY <1>1, SumType
<1> QED
  BY <1>2, <1>3

\* A sum of numbers is zero only if each of them is.
LEMMA SumIsZero ==
  ASSUME NEW S, IsFiniteSet(S), NEW f, \A x \in S : f[x] \in Nat, Sum(f, S) = 0
  PROVE  \A x \in S : f[x] = 0
<1> SUFFICES ASSUME NEW x \in S PROVE f[x] = 0
  OBVIOUS
<1>1. Sum(f, S) = f[x] + Sum(f, S \ {x})
  BY SumRemove
<1>2. Sum(f, S \ {x}) \in Nat
  <2>1. IsFiniteSet(S \ {x})
    BY FS_Subset
  <2> QED
    BY <2>1, SumType
<1> QED
  BY <1>1, <1>2

\* Of summands of at least one there are no more than their sum.
LEMMA SumCounts ==
  ASSUME NEW S, IsFiniteSet(S), NEW f, \A x \in S : f[x] \in Nat \ {0}
  PROVE  Cardinality(S) <= Sum(f, S)
<1> DEFINE T == {A \in SUBSET S : Cardinality(A) <= Sum(f, A)}
<1>1. \A A \in SUBSET S : IsFiniteSet(A)
  BY FS_Subset
<1>2. ASSUME NEW A \in SUBSET S, A # {}, \A x \in A : A \ {x} \in T PROVE A \in T
  <2>1. PICK x \in A, B \in SUBSET S : x = First(A) /\ B = A \ {x}
    BY <1>2, FirstIn
  <2>2. Sum(f, A) = f[x] + Sum(f, B)
    BY <1>1, <1>2, <2>1, SumRecursion
  <2>3. Cardinality(B) = Cardinality(A) - 1
    BY <1>1, <2>1, FS_RemoveElement
  <2>4. Sum(f, B) \in Nat /\ Cardinality(A) \in Nat /\ Cardinality(B) \in Nat
    BY <1>1, SumType, FS_CardinalityType
  <2>5. Cardinality(B) <= Sum(f, B) /\ f[x] \in Nat \ {0}
    BY <1>2, <2>1
  <2>6. Cardinality(A) <= Sum(f, A)
    BY <2>2, <2>3, <2>4, <2>5
  <2> QED
    BY <2>6
<1>3. {} \in T
  BY SumEmpty, FS_EmptySet
<1> HIDE DEF T
<1>4. T = SUBSET S
  <2>1. T \in SUBSET SUBSET S
    BY DEF T
  <2> QED
    BY <2>1, <1>2, <1>3, SubsetInduction
<1> QED
  BY <1>4 DEF T

\* One summand changes the sum by what it changes itself.
LEMMA SumExcept ==
  ASSUME NEW S, IsFiniteSet(S), NEW f \in [S -> Nat], NEW x \in S, NEW v \in Nat
  PROVE  /\ Sum(f, S) \in Nat
         /\ Sum([f EXCEPT ![x] = v], S) + f[x] = Sum(f, S) + v
<1> DEFINE g == [f EXCEPT ![x] = v]
           R == S \ {x}
<1>1. IsFiniteSet(R)
  BY FS_Subset
<1>2. g \in [S -> Nat] /\ g[x] = v /\ \A y \in R : g[y] = f[y]
  OBVIOUS
<1> HIDE DEF g
<1>3. Sum(f, S) = f[x] + Sum(f, R) /\ Sum(g, S) = v + Sum(g, R)
  BY <1>2, SumRemove
<1>4. Sum(f, R) = Sum(g, R) /\ Sum(f, R) \in Nat
  BY <1>1, <1>2, SumAgree, SumType
<1>5. f[x] \in Nat
  OBVIOUS
<1> QED
  BY <1>3, <1>4, <1>5 DEF g

\* A set that is divided into parts has as many elements as they have together.
LEMMA PartsCount ==
  ASSUME NEW I, IsFiniteSet(I), NEW part, \A i \in I : IsFiniteSet(part[i]),
         \A i, j \in I : i # j => part[i] \cap part[j] = {},
         NEW S, S = UNION {part[i] : i \in I},
         NEW count, \A i \in I : count[i] = Cardinality(part[i])
  PROVE  IsFiniteSet(S) /\ Sum(count, I) = Cardinality(S)
<1> DEFINE Parts(A) == UNION {part[i] : i \in A}
           T == {A \in SUBSET I : IsFiniteSet(Parts(A)) /\ Sum(count, A) = Cardinality(Parts(A))}
<1>1. \A A \in SUBSET I : IsFiniteSet(A)
  BY FS_Subset
<1>2. {} \in T
  <2>1. Parts({}) = {}
    OBVIOUS
  <2> QED
    BY <2>1, SumEmpty, FS_EmptySet
<1>3. ASSUME NEW A \in SUBSET I, A # {}, \A x \in A : A \ {x} \in T PROVE A \in T
  <2>1. PICK i \in A, B \in SUBSET I : i = First(A) /\ B = A \ {i}
    BY <1>3, FirstIn
  <2>2. Sum(count, A) = count[i] + Sum(count, B)
    BY <1>1, <1>3, <2>1, SumRecursion
  <2>3. IsFiniteSet(Parts(B)) /\ Sum(count, B) = Cardinality(Parts(B))
    BY <1>3, <2>1
  <2>4. IsFiniteSet(part[i]) /\ count[i] = Cardinality(part[i])
    OBVIOUS
  <2>5. Parts(A) = part[i] \cup Parts(B) /\ part[i] \cap Parts(B) = {}
    BY <2>1
  <2> HIDE DEF Parts
  <2>6. /\ IsFiniteSet(part[i] \cup Parts(B))
        /\ Cardinality(part[i] \cup Parts(B)) = Cardinality(part[i]) + Cardinality(Parts(B))
    BY <2>3, <2>4, <2>5, DisjointUnionCounts
  <2> QED
    BY <2>2, <2>3, <2>4, <2>5, <2>6
<1> HIDE DEF T
<1>4. T = SUBSET I
  <2>1. T \in SUBSET SUBSET I
    BY DEF T
  <2> QED
    BY <2>1, <1>2, <1>3, SubsetInduction
<1> QED
  BY <1>4 DEF T
===============================================================================
