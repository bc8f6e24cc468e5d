------------------------------ MODULE SumProofs ------------------------------
(***************************************************************************)
(* Sums over finite sets, SumFunctionOnSet of the module Functions: what   *)
(* the accounting proofs of the other modules rest on.                     *)
(*                                                                         *)
(* The sum is a recursive function on the subsets of its index set, so its *)
(* facts need an induction.  The induction theorems of the library take an *)
(* operator; the theorem on minimal elements, WFMin, takes a set, and each *)
(* induction below is the minimal counterexample of that theorem.          *)
(***************************************************************************)
EXTENDS Integers, Functions, FiniteSetTheorems, TLAPS

\* A nonempty set of finite sets has a member with no proper subset in it.
LEMMA MinimalSet ==
    ASSUME NEW S, IsFiniteSet(S), NEW X \in SUBSET (SUBSET S), X # {}
    PROVE  \E T \in X : \A U \in X : ~(U \subseteq T /\ U # T)
<1>1. FiniteSubsetsOf(S) = SUBSET S
    BY FS_FiniteSubsetsOfFinite
<1>2. IsWellFoundedOn(StrictSubsetOrdering(S), SUBSET S)
    BY <1>1, FS_StrictSubsetOrderingWellFounded
<1>3. PICK T \in X : \A U \in X : ~(<<U, T>> \in StrictSubsetOrdering(S))
    BY <1>2, WFMin
<1>4. QED
    BY <1>3 DEF StrictSubsetOrdering

-----------------------------------------------------------------------------
(* The recursive function exists *)

\* The member that the fold takes out of T first.
First(T) == CHOOSE x \in T : TRUE

\* The equation of the fold, as a property of a function on the subsets of S.
IsFold(g, f, S) ==
    g = [T \in SUBSET S |-> IF T = {} THEN 0 ELSE f[First(T)] + g[T \ {First(T)}]]

\* A sum is the value of any function that satisfies the equation.
LEMMA SumChosen ==
    ASSUME NEW f, NEW S
    PROVE  SumFunctionOnSet(f, S) = (CHOOSE g : IsFold(g, f, S))[S]
    BY DEF SumFunctionOnSet, FoldFunctionOnSet, MapThenFoldSet, IsFold, First

\* A member of T is taken out, and what is left is a proper subset.
LEMMA FirstFacts ==
    ASSUME NEW T, T # {}
    PROVE  First(T) \in T /\ T \ {First(T)} \subseteq T /\ T \ {First(T)} # T
<1>1. First(T) \in T
    BY DEF First
<1>2. QED
    BY <1>1

\* Two such functions agree wherever both are defined.
LEMMA FoldUnique ==
    ASSUME NEW f, NEW S, IsFiniteSet(S), NEW R, NEW g, NEW h,
           IsFold(g, f, S), IsFold(h, f, R)
    PROVE  \A U \in SUBSET S : U \subseteq R => g[U] = h[U]
<1> DEFINE X == {U \in SUBSET S : U \subseteq R /\ g[U] # h[U]}
<1>1. SUFFICES ASSUME X # {} PROVE FALSE
    OBVIOUS
<1>2. PICK T \in X : \A U \in X : ~(U \subseteq T /\ U # T)
  <2>1. X \in SUBSET (SUBSET S)
      OBVIOUS
  <2> HIDE DEF X
  <2>2. QED
      BY <1>1, <2>1, MinimalSet
<1>3. T \subseteq S /\ T \subseteq R /\ g[T] # h[T]
    BY <1>2
<1>4. CASE T = {}
    BY <1>3, <1>4 DEF IsFold
<1>5. CASE T # {}
  <2> DEFINE V == T \ {First(T)}
  <2>1. V \subseteq T /\ V # T
      BY <1>5, FirstFacts
  <2>2. g[V] = h[V]
      BY <1>2, <1>3, <2>1
  <2>3. g[T] = f[First(T)] + g[V]
      BY <1>3, <1>5 DEF IsFold
  <2>4. h[T] = f[First(T)] + h[V]
      BY <1>3, <1>5 DEF IsFold
  <2>5. QED
      BY <1>3, <2>2, <2>3, <2>4
<1>6. QED
    BY <1>4, <1>5

\* There is such a function for every finite set.
LEMMA FoldExists ==
    ASSUME NEW f, NEW S, IsFiniteSet(S)
    PROVE  \E g : IsFold(g, f, S)
<1> DEFINE X == {U \in SUBSET S : ~\E g : IsFold(g, f, U)}
<1>1. SUFFICES ASSUME X # {} PROVE FALSE
    OBVIOUS
<1>2. PICK T \in X : \A U \in X : ~(U \subseteq T /\ U # T)
  <2>1. X \in SUBSET (SUBSET S)
      OBVIOUS
  <2> HIDE DEF X
  <2>2. QED
      BY <1>1, <2>1, MinimalSet
<1>3. T \subseteq S /\ ~\E g : IsFold(g, f, T)
    BY <1>2
<1> DEFINE v(U) == (CHOOSE g : IsFold(g, f, U))[U]
           G == [U \in SUBSET T |-> IF U = {} THEN 0 ELSE f[First(U)] + v(U \ {First(U)})]
<1>4. ASSUME NEW V \in SUBSET T, V # T
      PROVE  G[V] = v(V)
  <2> DEFINE gV == CHOOSE g : IsFold(g, f, V)
  <2>1. \E g : IsFold(g, f, V)
      BY <1>2, <1>3, <1>4
  <2>2. IsFold(gV, f, V)
      BY <2>1
  <2>3. CASE V = {}
    <3>1. gV[V] = 0
        BY <2>2, <2>3 DEF IsFold
    <3>2. QED
        BY <2>3, <3>1
  <2>4. CASE V # {}
    <3> DEFINE W == V \ {First(V)}
               gW == CHOOSE g : IsFold(g, f, W)
    <3>1. W \subseteq V /\ W # V
        BY <2>4, FirstFacts
    <3>2. IsFiniteSet(V) /\ W \subseteq T /\ W # T
        BY <1>3, <3>1, FS_Subset
    <3>3. \E g : IsFold(g, f, W)
        BY <1>2, <1>3, <3>2
    <3>4. IsFold(gW, f, W)
        BY <3>3
    <3> HIDE DEF gV, gW
    <3>5. gV[W] = gW[W]
        BY <2>2, <3>1, <3>2, <3>4, FoldUnique
    <3>6. gV[V] = f[First(V)] + gV[W]
        BY <2>2, <2>4 DEF IsFold
    <3>7. G[V] = f[First(V)] + v(W)
        BY <2>4
    <3>8. v(W) = gW[W] /\ v(V) = gV[V]
        BY DEF gV, gW
    <3> HIDE DEF G, v, W
    <3>9. QED
        BY <3>5, <3>6, <3>7, <3>8
  <2>5. QED
      BY <2>3, <2>4
<1>5. ASSUME NEW U \in SUBSET T, U # {}
      PROVE  v(U \ {First(U)}) = G[U \ {First(U)}]
  <2>1. U \ {First(U)} \in SUBSET T /\ U \ {First(U)} # T
      BY <1>5, FirstFacts
  <2> HIDE DEF G, v
  <2>2. QED
      BY <1>4, <2>1
<1>6. G = [U \in SUBSET T |-> IF U = {} THEN 0 ELSE f[First(U)] + G[U \ {First(U)}]]
  <2>1. ASSUME NEW U \in SUBSET T
        PROVE  G[U] = IF U = {} THEN 0 ELSE f[First(U)] + G[U \ {First(U)}]
    <3>1. G[U] = IF U = {} THEN 0 ELSE f[First(U)] + v(U \ {First(U)})
        OBVIOUS
    <3> HIDE DEF G, v
    <3>2. QED
        BY <3>1, <1>5
  <2>2. G = [U \in SUBSET T |-> G[U]]
      OBVIOUS
  <2> HIDE DEF G
  <2>3. QED
      BY <2>1, <2>2
<1>7. IsFold(G, f, T)
  <2> HIDE DEF G
  <2>1. QED
      BY <1>6 DEF IsFold
<1>8. QED
    BY <1>3, <1>7

-----------------------------------------------------------------------------
(* What a sum is *)

\* The sum over no members is 0, and any other is the first member's value and
\* the sum of the rest.
LEMMA SumUnfolds ==
    ASSUME NEW f, NEW S, IsFiniteSet(S)
    PROVE  /\ S = {} => SumFunctionOnSet(f, S) = 0
           /\ S # {} => SumFunctionOnSet(f, S)
                          = f[First(S)] + SumFunctionOnSet(f, S \ {First(S)})
<1> DEFINE V == S \ {First(S)}
           g == CHOOSE h : IsFold(h, f, S)
           k == CHOOSE h : IsFold(h, f, V)
<1>1. SumFunctionOnSet(f, S) = g[S] /\ SumFunctionOnSet(f, V) = k[V]
    BY SumChosen
<1>2. IsFold(g, f, S)
    BY FoldExists
<1>3. IsFiniteSet(V)
    BY FS_RemoveElement
<1>4. \E h : IsFold(h, f, V)
  <2> HIDE DEF V
  <2>1. QED
      BY <1>3, FoldExists
<1>5. IsFold(k, f, V)
    BY <1>4
<1> HIDE DEF g, k
<1>6. V \in SUBSET S
    OBVIOUS
<1>7. g[V] = k[V]
  <2> HIDE DEF V
  <2>1. QED
      BY <1>2, <1>5, <1>6, FoldUnique
<1>8. g[S] = IF S = {} THEN 0 ELSE f[First(S)] + g[V]
    BY <1>2 DEF IsFold
<1>9. QED
    BY <1>1, <1>7, <1>8

\* The sum over no members.
LEMMA SumEmpty ==
    ASSUME NEW f
    PROVE  SumFunctionOnSet(f, {}) = 0
    BY SumUnfolds, FS_EmptySet

\* A sum of integers is an integer, whatever the order in which they are taken.
LEMMA SumInt ==
    ASSUME NEW S, IsFiniteSet(S), NEW f, \A s \in S : f[s] \in Int
    PROVE  SumFunctionOnSet(f, S) \in Int
<1> DEFINE X == {U \in SUBSET S : SumFunctionOnSet(f, U) \notin Int}
<1>1. SUFFICES ASSUME X # {} PROVE FALSE
    OBVIOUS
<1>2. PICK T \in X : \A U \in X : ~(U \subseteq T /\ U # T)
  <2>1. X \in SUBSET (SUBSET S)
      OBVIOUS
  <2> HIDE DEF X
  <2>2. QED
      BY <1>1, <2>1, MinimalSet
<1>3. T \subseteq S /\ SumFunctionOnSet(f, T) \notin Int /\ IsFiniteSet(T)
    BY <1>2, FS_Subset
<1>4. T # {}
    BY <1>3, SumEmpty
<1> DEFINE V == T \ {First(T)}
<1>5. V \subseteq T /\ V # T /\ First(T) \in T
    BY <1>4, FirstFacts
<1>6. SumFunctionOnSet(f, V) \in Int
    BY <1>2, <1>3, <1>5
<1>7. SumFunctionOnSet(f, T) = f[First(T)] + SumFunctionOnSet(f, V)
    BY <1>3, <1>4, SumUnfolds
<1>8. f[First(T)] \in Int
    BY <1>3, <1>5
<1> HIDE DEF V
<1>9. QED
    BY <1>3, <1>6, <1>7, <1>8

\* Any member may be taken out of a sum.
LEMMA SumRemove ==
    ASSUME NEW S, IsFiniteSet(S), NEW f, \A s \in S : f[s] \in Int, NEW e \in S
    PROVE  SumFunctionOnSet(f, S) = f[e] + SumFunctionOnSet(f, S \ {e})
<1> DEFINE sum(U) == SumFunctionOnSet(f, U)
           X == {U \in SUBSET S : \E y \in U : sum(U) # f[y] + sum(U \ {y})}
<1>1. SUFFICES ASSUME X # {} PROVE FALSE
    OBVIOUS
<1>2. PICK T \in X : \A U \in X : ~(U \subseteq T /\ U # T)
  <2>1. X \in SUBSET (SUBSET S)
      OBVIOUS
  <2> HIDE DEF X
  <2>2. QED
      BY <1>1, <2>1, MinimalSet
<1>3. PICK y \in T : sum(T) # f[y] + sum(T \ {y})
    BY <1>2
<1>4. T \subseteq S /\ IsFiniteSet(T) /\ T # {}
    BY <1>2, FS_Subset
<1> DEFINE x == First(T)
           V == T \ {x}
           W == T \ {y}
           B == T \ {x, y}
<1>5. x \in T
    BY <1>4, FirstFacts
<1>6. sum(T) = f[x] + sum(V)
    BY <1>4, SumUnfolds
<1>7. x # y
    BY <1>3, <1>6
<1>8. V \in SUBSET S /\ W \in SUBSET S /\ y \in V /\ x \in W
    BY <1>4, <1>5, <1>7
<1>9. V \subseteq T /\ V # T /\ W \subseteq T /\ W # T
    BY <1>5
<1>10. V \ {y} = B /\ W \ {x} = B /\ B \subseteq S
    BY <1>4
<1>11. V \notin X /\ W \notin X
    BY <1>2, <1>9
<1>12. sum(V) = f[y] + sum(V \ {y})
    BY <1>8, <1>11
<1>13. sum(W) = f[x] + sum(W \ {x})
    BY <1>8, <1>11
<1>14. IsFiniteSet(B)
    BY <1>10, FS_Subset
<1>15. sum(B) \in Int
  <2>1. \A s \in B : f[s] \in Int
      BY <1>10
  <2> HIDE DEF B
  <2>2. QED
      BY <1>14, <2>1, SumInt
<1>16. f[x] \in Int /\ f[y] \in Int
    BY <1>4, <1>5
<1> HIDE DEF sum, x, V, W, B, X
<1>17. sum(V) = f[y] + sum(B) /\ sum(W) = f[x] + sum(B)
    BY <1>10, <1>12, <1>13
<1>18. sum(T) = f[y] + sum(W)
    BY <1>6, <1>15, <1>16, <1>17
<1>19. QED
    BY <1>3, <1>18 DEF W

\* One more member adds its value.
LEMMA SumAdd ==
    ASSUME NEW S, IsFiniteSet(S), NEW f, NEW e, e \notin S,
           \A s \in S : f[s] \in Int, f[e] \in Int
    PROVE  SumFunctionOnSet(f, S \cup {e}) = SumFunctionOnSet(f, S) + f[e]
<1> DEFINE R == S \cup {e}
<1>1. IsFiniteSet(R) /\ e \in R /\ R \ {e} = S /\ \A s \in R : f[s] \in Int
    BY FS_AddElement
<1>2. SumFunctionOnSet(f, S) \in Int
    BY SumInt
<1> HIDE DEF R
<1>3. SumFunctionOnSet(f, R) = f[e] + SumFunctionOnSet(f, R \ {e})
    BY <1>1, SumRemove
<1>4. f[e] \in Int /\ SumFunctionOnSet(f, R) = f[e] + SumFunctionOnSet(f, S)
    BY <1>1, <1>3
<1>5. SumFunctionOnSet(f, R) = SumFunctionOnSet(f, S) + f[e]
    BY <1>2, <1>4
<1>6. QED
    BY <1>5 DEF R

-----------------------------------------------------------------------------
(* Two sums compared *)

\* A sum depends on the values of its members alone.
LEMMA SumSame ==
    ASSUME NEW S, IsFiniteSet(S), NEW f, NEW g,
           \A s \in S : f[s] \in Int, \A s \in S : f[s] = g[s]
    PROVE  SumFunctionOnSet(f, S) = SumFunctionOnSet(g, S)
<1> DEFINE X == {U \in SUBSET S : SumFunctionOnSet(f, U) # SumFunctionOnSet(g, U)}
<1>1. SUFFICES ASSUME X # {} PROVE FALSE
    OBVIOUS
<1>2. PICK T \in X : \A U \in X : ~(U \subseteq T /\ U # T)
  <2>1. X \in SUBSET (SUBSET S)
      OBVIOUS
  <2> HIDE DEF X
  <2>2. QED
      BY <1>1, <2>1, MinimalSet
<1>3. T \subseteq S /\ SumFunctionOnSet(f, T) # SumFunctionOnSet(g, T) /\ IsFiniteSet(T)
    BY <1>2, FS_Subset
<1>4. T # {}
    BY <1>3, SumEmpty
<1> DEFINE V == T \ {First(T)}
<1>5. V \subseteq T /\ V # T /\ First(T) \in T
    BY <1>4, FirstFacts
<1>6. SumFunctionOnSet(f, V) = SumFunctionOnSet(g, V)
    BY <1>2, <1>3, <1>5
<1>7. /\ SumFunctionOnSet(f, T) = f[First(T)] + SumFunctionOnSet(f, V)
      /\ SumFunctionOnSet(g, T) = g[First(T)] + SumFunctionOnSet(g, V)
    BY <1>3, <1>4, SumUnfolds
<1>8. f[First(T)] = g[First(T)]
    BY <1>3, <1>5
<1> HIDE DEF V
<1>9. QED
    BY <1>3, <1>6, <1>7, <1>8

\* A sum grows with the values of its members.
LEMMA SumMonotone ==
    ASSUME NEW S, IsFiniteSet(S), NEW f, NEW g,
           \A s \in S : f[s] \in Int /\ g[s] \in Int /\ f[s] <= g[s]
    PROVE  SumFunctionOnSet(f, S) <= SumFunctionOnSet(g, S)
<1> DEFINE X == {U \in SUBSET S : ~(SumFunctionOnSet(f, U) <= SumFunctionOnSet(g, U))}
<1>1. SUFFICES ASSUME X # {} PROVE FALSE
    OBVIOUS
<1>2. PICK T \in X : \A U \in X : ~(U \subseteq T /\ U # T)
  <2>1. X \in SUBSET (SUBSET S)
      OBVIOUS
  <2> HIDE DEF X
  <2>2. QED
      BY <1>1, <2>1, MinimalSet
<1>3. /\ T \subseteq S /\ IsFiniteSet(T)
      /\ ~(SumFunctionOnSet(f, T) <= SumFunctionOnSet(g, T))
    BY <1>2, FS_Subset
<1>4. T # {}
    BY <1>3, SumEmpty
<1> DEFINE V == T \ {First(T)}
<1>5. V \subseteq T /\ V # T /\ First(T) \in T
    BY <1>4, FirstFacts
<1>6. SumFunctionOnSet(f, V) <= SumFunctionOnSet(g, V)
    BY <1>2, <1>3, <1>5
<1>7. /\ SumFunctionOnSet(f, T) = f[First(T)] + SumFunctionOnSet(f, V)
      /\ SumFunctionOnSet(g, T) = g[First(T)] + SumFunctionOnSet(g, V)
    BY <1>3, <1>4, SumUnfolds
<1>8. /\ f[First(T)] \in Int /\ g[First(T)] \in Int /\ f[First(T)] <= g[First(T)]
      /\ IsFiniteSet(V) /\ V \subseteq S
    BY <1>3, <1>5, FS_Subset
<1> HIDE DEF V
<1>9. SumFunctionOnSet(f, V) \in Int /\ SumFunctionOnSet(g, V) \in Int
    BY <1>8, SumInt
<1>10. QED
    BY <1>3, <1>6, <1>7, <1>8, <1>9

\* A sum of naturals is a natural.
LEMMA SumNat ==
    ASSUME NEW S, IsFiniteSet(S), NEW f, \A s \in S : f[s] \in Nat
    PROVE  SumFunctionOnSet(f, S) \in Nat
<1> DEFINE X == {U \in SUBSET S : SumFunctionOnSet(f, U) \notin Nat}
<1>1. SUFFICES ASSUME X # {} PROVE FALSE
    OBVIOUS
<1>2. PICK T \in X : \A U \in X : ~(U \subseteq T /\ U # T)
  <2>1. X \in SUBSET (SUBSET S)
      OBVIOUS
  <2> HIDE DEF X
  <2>2. QED
      BY <1>1, <2>1, MinimalSet
<1>3. T \subseteq S /\ SumFunctionOnSet(f, T) \notin Nat /\ IsFiniteSet(T)
    BY <1>2, FS_Subset
<1>4. T # {}
    BY <1>3, SumEmpty
<1> DEFINE V == T \ {First(T)}
<1>5. V \subseteq T /\ V # T /\ First(T) \in T
    BY <1>4, FirstFacts
<1>6. SumFunctionOnSet(f, V) \in Nat
    BY <1>2, <1>3, <1>5
<1>7. SumFunctionOnSet(f, T) = f[First(T)] + SumFunctionOnSet(f, V)
    BY <1>3, <1>4, SumUnfolds
<1>8. f[First(T)] \in Nat
    BY <1>3, <1>5
<1> HIDE DEF V
<1>9. QED
    BY <1>3, <1>6, <1>7, <1>8

\* A sum in which only the value of e changes.
LEMMA SumChange ==
    ASSUME NEW S, IsFiniteSet(S), NEW f, NEW g, NEW e \in S,
           \A s \in S : f[s] \in Int /\ g[s] \in Int,
           \A s \in S : s # e => f[s] = g[s]
    PROVE  SumFunctionOnSet(g, S) = SumFunctionOnSet(f, S) - f[e] + g[e]
<1> DEFINE R == S \ {e}
<1>1. IsFiniteSet(R) /\ \A s \in R : f[s] \in Int /\ f[s] = g[s]
    BY FS_RemoveElement
<1>2. /\ SumFunctionOnSet(f, S) = f[e] + SumFunctionOnSet(f, R)
      /\ SumFunctionOnSet(g, S) = g[e] + SumFunctionOnSet(g, R)
    BY SumRemove
<1> HIDE DEF R
<1>3. SumFunctionOnSet(f, R) = SumFunctionOnSet(g, R) /\ SumFunctionOnSet(f, R) \in Int
    BY <1>1, SumSame, SumInt
<1>4. QED
    BY <1>2, <1>3

\* The sum over a set that only e may have joined, left or changed its value in.
LEMMA SumSwap ==
    ASSUME NEW S, IsFiniteSet(S), NEW T, NEW f, NEW g, NEW e,
           \A s : s # e => (s \in S <=> s \in T),
           \A s \in S : f[s] \in Int, \A s \in T : g[s] \in Int,
           \A s \in S : s # e => f[s] = g[s]
    PROVE  SumFunctionOnSet(g, T) = SumFunctionOnSet(f, S) - (IF e \in S THEN f[e] ELSE 0)
                                                           + (IF e \in T THEN g[e] ELSE 0)
<1> DEFINE R == S \ {e}
<1>1. R = T \ {e} /\ IsFiniteSet(R) /\ IsFiniteSet(T)
  <2>1. R = T \ {e} /\ T \subseteq S \cup {e}
      OBVIOUS
  <2>2. QED
      BY <2>1, FS_RemoveElement, FS_AddElement, FS_Subset
<1>2. \A s \in R : f[s] \in Int /\ f[s] = g[s]
    OBVIOUS
<1> HIDE DEF R
<1>3. SumFunctionOnSet(f, R) \in Int /\ SumFunctionOnSet(g, R) = SumFunctionOnSet(f, R)
    BY <1>1, <1>2, SumInt, SumSame
<1>4. SumFunctionOnSet(f, S) = SumFunctionOnSet(f, R) + (IF e \in S THEN f[e] ELSE 0)
  <2>1. CASE e \in S
      BY <1>3, <2>1, SumRemove DEF R
  <2>2. CASE e \notin S
    <3>1. R = S
        BY <2>2 DEF R
    <3>2. QED
        BY <1>3, <2>2, <3>1
  <2>3. QED
      BY <2>1, <2>2
<1>5. SumFunctionOnSet(g, T) = SumFunctionOnSet(g, R) + (IF e \in T THEN g[e] ELSE 0)
  <2>1. CASE e \in T
    <3>1. SumFunctionOnSet(g, T) = g[e] + SumFunctionOnSet(g, T \ {e})
        BY <1>1, <2>1, SumRemove
    <3>2. QED
        BY <1>1, <1>3, <2>1, <3>1
  <2>2. CASE e \notin T
    <3>1. R = T
        BY <1>1, <2>2
    <3>2. QED
        BY <1>3, <2>2, <3>1
  <2>3. QED
      BY <2>1, <2>2
<1>6. (IF e \in S THEN f[e] ELSE 0) \in Int /\ (IF e \in T THEN g[e] ELSE 0) \in Int
    OBVIOUS
<1>7. QED
    BY <1>3, <1>4, <1>5, <1>6

\* Members whose value is zero do not count.
LEMMA SumZeros ==
    ASSUME NEW T, IsFiniteSet(T), NEW S \in SUBSET T, NEW f,
           \A s \in T : f[s] \in Int, \A s \in T \ S : f[s] = 0
    PROVE  SumFunctionOnSet(f, T) = SumFunctionOnSet(f, S)
<1> DEFINE sum(U) == SumFunctionOnSet(f, U)
           X == {U \in SUBSET T : S \subseteq U /\ sum(U) # sum(S)}
<1>1. SUFFICES ASSUME X # {} PROVE FALSE
    OBVIOUS
<1>2. PICK U \in X : \A V \in X : ~(V \subseteq U /\ V # U)
  <2>1. X \in SUBSET (SUBSET T)
      OBVIOUS
  <2> HIDE DEF X
  <2>2. QED
      BY <1>1, <2>1, MinimalSet
<1>3. PICK e \in U : e \notin S
    OBVIOUS
<1>4. sum(U \ {e}) = sum(S)
    BY <1>2, <1>3
<1>5. IsFiniteSet(U) /\ f[e] = 0 /\ \A s \in U : f[s] \in Int
    BY <1>3, FS_Subset
<1>6. IsFiniteSet(S) /\ sum(S) \in Int
    BY FS_Subset, SumInt
<1>7. sum(U) = f[e] + sum(U \ {e})
    BY <1>5, SumRemove
<1>8. QED
    BY <1>4, <1>5, <1>6, <1>7

\* A part of a sum of natural numbers is at most the whole.
LEMMA SumPart ==
    ASSUME NEW T, IsFiniteSet(T), NEW S \in SUBSET T, NEW f, \A s \in T : f[s] \in Nat
    PROVE  SumFunctionOnSet(f, S) <= SumFunctionOnSet(f, T)
<1> DEFINE g == [s \in T |-> IF s \in S THEN f[s] ELSE 0]
<1>1. /\ \A s \in T : f[s] \in Int /\ g[s] \in Int /\ g[s] <= f[s]
      /\ \A s \in T : g[s] \in Int
      /\ \A s \in T \ S : g[s] = 0
      /\ \A s \in S : g[s] \in Int
      /\ \A s \in S : g[s] = f[s]
    OBVIOUS
<1>2. \A s \in T : g[s] \in Int /\ f[s] \in Int /\ g[s] <= f[s]
    BY <1>1
<1> HIDE DEF g
<1>3. IsFiniteSet(S)
    BY FS_Subset
<1>4. SumFunctionOnSet(g, S) = SumFunctionOnSet(f, S)
    BY <1>1, <1>3, SumSame
<1>5. SumFunctionOnSet(g, T) = SumFunctionOnSet(g, S)
    BY <1>1, SumZeros
<1>6. SumFunctionOnSet(g, T) <= SumFunctionOnSet(f, T)
    BY <1>2, SumMonotone
<1>7. QED
    BY <1>4, <1>5, <1>6

\* The sum of two functions added member by member.
LEMMA SumPlus ==
    ASSUME NEW S, IsFiniteSet(S), NEW f, NEW g, NEW h,
           \A s \in S : f[s] \in Int /\ g[s] \in Int /\ h[s] = f[s] + g[s]
    PROVE  SumFunctionOnSet(h, S) = SumFunctionOnSet(f, S) + SumFunctionOnSet(g, S)
<1> DEFINE sum(k, U) == SumFunctionOnSet(k, U)
           X == {U \in SUBSET S : sum(h, U) # sum(f, U) + sum(g, U)}
<1>1. SUFFICES ASSUME X # {} PROVE FALSE
    OBVIOUS
<1>2. PICK T \in X : \A U \in X : ~(U \subseteq T /\ U # T)
  <2>1. X \in SUBSET (SUBSET S)
      OBVIOUS
  <2> HIDE DEF X
  <2>2. QED
      BY <1>1, <2>1, MinimalSet
<1>3. T \subseteq S /\ IsFiniteSet(T) /\ sum(h, T) # sum(f, T) + sum(g, T)
    BY <1>2, FS_Subset
<1>4. T # {}
    BY <1>3, SumEmpty
<1> DEFINE V == T \ {First(T)}
<1>5. V \subseteq T /\ V # T /\ First(T) \in T
    BY <1>4, FirstFacts
<1>6. sum(h, V) = sum(f, V) + sum(g, V)
    BY <1>2, <1>3, <1>5
<1>7. /\ sum(h, T) = h[First(T)] + sum(h, V)
      /\ sum(f, T) = f[First(T)] + sum(f, V)
      /\ sum(g, T) = g[First(T)] + sum(g, V)
    BY <1>3, <1>4, SumUnfolds
<1>8. /\ f[First(T)] \in Int /\ g[First(T)] \in Int
      /\ h[First(T)] = f[First(T)] + g[First(T)]
      /\ IsFiniteSet(V) /\ V \subseteq S
    BY <1>3, <1>5, FS_Subset
<1>9. sum(f, V) \in Int /\ sum(g, V) \in Int
  <2> HIDE DEF V
  <2>1. QED
      BY <1>8, SumInt
<1> HIDE DEF sum, V, X
<1>10. QED
    BY <1>3, <1>6, <1>7, <1>8, <1>9

\* A sum of values that are at most c.
LEMMA SumAtMost ==
    ASSUME NEW S, IsFiniteSet(S), NEW f, NEW c \in Nat,
           \A s \in S : f[s] \in Int /\ f[s] <= c
    PROVE  SumFunctionOnSet(f, S) <= Cardinality(S) * c
<1> DEFINE X == {U \in SUBSET S : ~(SumFunctionOnSet(f, U) <= Cardinality(U) * c)}
<1>1. SUFFICES ASSUME X # {} PROVE FALSE
    OBVIOUS
<1>2. PICK T \in X : \A U \in X : ~(U \subseteq T /\ U # T)
  <2>1. X \in SUBSET (SUBSET S)
      OBVIOUS
  <2> HIDE DEF X
  <2>2. QED
      BY <1>1, <2>1, MinimalSet
<1>3. T \subseteq S /\ IsFiniteSet(T) /\ ~(SumFunctionOnSet(f, T) <= Cardinality(T) * c)
    BY <1>2, FS_Subset
<1>4. T # {}
    BY <1>3, SumEmpty, FS_EmptySet
<1> DEFINE V == T \ {First(T)}
<1>5. V \subseteq T /\ V # T /\ First(T) \in T
    BY <1>4, FirstFacts
<1>6. SumFunctionOnSet(f, V) <= Cardinality(V) * c
    BY <1>2, <1>3, <1>5
<1>7. SumFunctionOnSet(f, T) = f[First(T)] + SumFunctionOnSet(f, V)
    BY <1>3, <1>4, SumUnfolds
<1>8. IsFiniteSet(V) /\ Cardinality(V) = Cardinality(T) - 1 /\ Cardinality(T) \in Nat
    BY <1>3, <1>5, FS_RemoveElement, FS_CardinalityType
<1>9. /\ f[First(T)] \in Int /\ f[First(T)] <= c
      /\ \A s \in V : f[s] \in Int
    BY <1>3, <1>5
<1> HIDE DEF V, X
<1>10. SumFunctionOnSet(f, V) \in Int
    BY <1>8, <1>9, SumInt
<1>11. (Cardinality(T) - 1) * c = Cardinality(T) * c - c
  <2>1. \A n \in Nat : (n - 1) * c = n * c - c
      OBVIOUS
  <2>2. QED
      BY <1>8, <2>1
<1>12. Cardinality(T) * c \in Int
  <2>1. \A n \in Nat : n * c \in Int
      OBVIOUS
  <2>2. QED
      BY <1>8, <2>1
<1>13. QED
    BY <1>3, <1>6, <1>7, <1>8, <1>9, <1>10, <1>11, <1>12

\* A sum whose members have each a member of T of their own, of no less value.
LEMMA SumInjects ==
    ASSUME NEW S, IsFiniteSet(S), NEW T, IsFiniteSet(T), NEW f, NEW g, NEW m,
           \A s \in S : f[s] \in Int, \A s \in T : g[s] \in Nat,
           \A s \in S : f[s] # 0 => m[s] \in T /\ f[s] <= g[m[s]],
           \A s, z \in S : f[s] # 0 /\ f[z] # 0 /\ m[s] = m[z] => s = z
    PROVE  SumFunctionOnSet(f, S) <= SumFunctionOnSet(g, T)
<1> DEFINE M(U) == {m[s] : s \in {z \in U : f[z] # 0}}
           X == {U \in SUBSET S : ~(SumFunctionOnSet(f, U) <= SumFunctionOnSet(g, M(U)))}
<1>1. M(S) \subseteq T /\ SumFunctionOnSet(g, M(S)) <= SumFunctionOnSet(g, T)
  <2>1. M(S) \in SUBSET T
      OBVIOUS
  <2> HIDE DEF M
  <2>2. QED
      BY <2>1, SumPart
<1>2. ASSUME NEW U \in SUBSET S
      PROVE  /\ IsFiniteSet(U) /\ IsFiniteSet(M(U)) /\ \A s \in M(U) : g[s] \in Int
             /\ SumFunctionOnSet(f, U) \in Int /\ SumFunctionOnSet(g, M(U)) \in Int
  <2>1. M(U) \subseteq T
      OBVIOUS
  <2> HIDE DEF M
  <2>2. IsFiniteSet(U) /\ IsFiniteSet(M(U)) /\ \A s \in M(U) : g[s] \in Int
      BY <2>1, FS_Subset
  <2>3. \A s \in U : f[s] \in Int
      OBVIOUS
  <2>4. QED
      BY <2>2, <2>3, SumInt
<1>3. ASSUME X # {} PROVE FALSE
  <2>1. PICK U \in X : \A V \in X : ~(V \subseteq U /\ V # U)
    <3>1. X \in SUBSET (SUBSET S)
        OBVIOUS
    <3> HIDE DEF X
    <3>2. QED
        BY <1>3, <3>1, MinimalSet
  <2>2. U \in SUBSET S /\ ~(SumFunctionOnSet(f, U) <= SumFunctionOnSet(g, M(U)))
      BY <2>1
  <2>3. U # {}
    <3>1. ASSUME U = {} PROVE M(U) = {}
        BY <3>1
    <3> HIDE DEF M
    <3>2. QED
        BY <2>2, <3>1, SumEmpty
  <2> DEFINE e == First(U)
             V == U \ {e}
  <2>4. e \in U /\ V \in SUBSET S /\ V \subseteq U /\ V # U
      BY <2>2, <2>3, FirstFacts
  <2>5. SumFunctionOnSet(f, V) <= SumFunctionOnSet(g, M(V))
      BY <2>1, <2>4
  <2>6. SumFunctionOnSet(f, U) = f[e] + SumFunctionOnSet(f, V)
      BY <1>2, <2>2, <2>3, SumUnfolds
  <2>7. CASE f[e] = 0
    <3>1. M(U) = M(V)
        BY <2>4, <2>7
    <3>2. QED
      <4> HIDE DEF M, V, e, X
      <4>1. QED
          BY <1>2, <2>2, <2>4, <2>5, <2>6, <2>7, <3>1
  <2>8. CASE f[e] # 0
    <3>1. m[e] \notin M(V) /\ M(U) = M(V) \cup {m[e]}
        BY <2>2, <2>4, <2>8
    <3>2. /\ f[e] \in Int /\ g[m[e]] \in Int /\ f[e] <= g[m[e]]
        BY <2>2, <2>4, <2>8
    <3>3. SumFunctionOnSet(g, M(V) \cup {m[e]}) = SumFunctionOnSet(g, M(V)) + g[m[e]]
      <4> DEFINE A == M(V)
                 y == m[e]
      <4>1. IsFiniteSet(A) /\ (\A s \in A : g[s] \in Int) /\ y \notin A /\ g[y] \in Int
        <5> HIDE DEF M, V, e, X
        <5>1. QED
            BY <1>2, <2>4, <3>1, <3>2
      <4> HIDE DEF A, y
      <4>2. SumFunctionOnSet(g, A \cup {y}) = SumFunctionOnSet(g, A) + g[y]
          BY <4>1, SumAdd
      <4>3. QED
          BY <4>2 DEF A, y
    <3>4. QED
      <4> HIDE DEF M, V, e, X
      <4>1. QED
          BY <1>2, <2>2, <2>4, <2>5, <2>6, <3>1, <3>2, <3>3
  <2>9. QED
      BY <2>7, <2>8
<1>4. SumFunctionOnSet(f, S) <= SumFunctionOnSet(g, M(S))
    BY <1>3
<1>5. SumFunctionOnSet(g, T) \in Int
    BY SumNat
<1>6. S \in SUBSET S
    OBVIOUS
<1> HIDE DEF M, X
<1>7. QED
    BY <1>1, <1>2, <1>4, <1>5, <1>6

\* The size of a set that only e may have joined or left.
LEMMA CardSwap ==
    ASSUME NEW S, IsFiniteSet(S), NEW T, NEW e, \A s : s # e => (s \in S <=> s \in T)
    PROVE  /\ IsFiniteSet(T) /\ Cardinality(S) \in Nat /\ Cardinality(T) \in Nat
           /\ Cardinality(T) = Cardinality(S) - (IF e \in S THEN 1 ELSE 0)
                                              + (IF e \in T THEN 1 ELSE 0)
<1>1. Cardinality(S) \in Nat
    BY FS_CardinalityType
<1>2. CASE e \in S /\ e \in T
  <2>1. S = T
      BY <1>2
  <2>2. QED
      BY <1>1, <1>2, <2>1
<1>3. CASE e \notin S /\ e \notin T
  <2>1. S = T
      BY <1>3
  <2>2. QED
      BY <1>1, <1>3, <2>1
<1>4. CASE e \in S /\ e \notin T
  <2>1. T = S \ {e}
      BY <1>4
  <2>2. IsFiniteSet(T) /\ Cardinality(T) = Cardinality(S) - 1
      BY <1>4, <2>1, FS_RemoveElement
  <2>3. Cardinality(T) \in Nat
      BY <2>2, FS_CardinalityType
  <2>4. QED
      BY <1>1, <1>4, <2>2, <2>3
<1>5. CASE e \notin S /\ e \in T
  <2>1. T = S \cup {e}
      BY <1>5
  <2>2. IsFiniteSet(T) /\ Cardinality(T) = Cardinality(S) + 1
      BY <1>5, <2>1, FS_AddElement
  <2>3. Cardinality(T) \in Nat
      BY <2>2, FS_CardinalityType
  <2>4. QED
      BY <1>1, <1>5, <2>2, <2>3
<1>6. QED
    BY <1>2, <1>3, <1>4, <1>5
=============================================================================
