-------------------------------- MODULE Sums --------------------------------
(***************************************************************************)
(* Sums of natural numbers over a finite set, as the components write them *)
(* with the community modules: SumFunctionOnSet(f, S), which folds f over  *)
(* S in an order that CHOOSE picks.                                        *)
(*                                                                         *)
(* The library states nothing of that fold, and its induction theorems     *)
(* cannot be instantiated here.  The induction is done instead on the set  *)
(* of counterexamples: were there one, there would be a smallest           *)
(* (SmallestSet).  What it shows is that the sum counts something: f[x]    *)
(* pairs for each x of S (SumCountsUnits).  Everything else follows from   *)
(* the theorems about cardinalities, and is what the other proof modules   *)
(* cite: SumType, SumOfNone, SumOfZeros, SumAdd, SumUpdate, SumSame,       *)
(* SumWithin.                                                              *)
(***************************************************************************)
EXTENDS Functions, FiniteSetTheorems, TLAPS

\* g computes, for every subset of S, what the fold does.
Iteration(f, S, g) ==
  g = [T \in SUBSET S |-> IF T = {} THEN 0
                          ELSE f[CHOOSE x \in T : TRUE] + g[T \ {CHOOSE x \in T : TRUE}]]

\* f[x] different things for each x of S.
Units(f, S) == UNION {{x} \X (1..f[x]) : x \in S}

\* The definition of the fold, unfolded once and for all.
LEMMA SumIsIteration ==
  ASSUME NEW f, NEW S
  PROVE  SumFunctionOnSet(f, S) = (CHOOSE g : Iteration(f, S, g))[S]
  BY DEF SumFunctionOnSet, FoldFunctionOnSet, MapThenFoldSet, Iteration

-----------------------------------------------------------------------------
\* Nothing to count.
LEMMA NoUnits == ASSUME NEW f PROVE Units(f, {}) = {}
  BY DEF Units

\* One more element brings as many units as its value.
LEMMA UnitsAdd ==
  ASSUME NEW f, NEW S, IsFiniteSet(S), NEW x, x \notin S, f[x] \in Nat, IsFiniteSet(Units(f, S))
  PROVE  /\ IsFiniteSet(Units(f, S \cup {x}))
         /\ Cardinality(Units(f, S \cup {x})) = f[x] + Cardinality(Units(f, S))
  <1> DEFINE new == {x} \X (1..f[x])
  <1>1. IsFiniteSet({x}) /\ Cardinality({x}) = 1
    BY FS_Singleton
  <1>2. IsFiniteSet(1..f[x]) /\ Cardinality(1..f[x]) = f[x]
    BY FS_Interval
  <1>3. IsFiniteSet(new) /\ Cardinality(new) = f[x]
    <2> DEFINE one == {x}
               upto == 1..f[x]
    <2>1. IsFiniteSet(one) /\ IsFiniteSet(upto) /\ Cardinality(one) = 1 /\ Cardinality(upto) = f[x]
      BY <1>1, <1>2
    <2>2. new = one \X upto
      OBVIOUS
    <2> HIDE DEF one, upto, new
    <2>3. IsFiniteSet(one \X upto) /\ Cardinality(one \X upto) = Cardinality(one) * Cardinality(upto)
      BY <2>1, FS_Product
    <2> QED BY <2>1, <2>2, <2>3
  <1>4. Units(f, S \cup {x}) = Units(f, S) \cup new
    BY DEF Units
  <1>5. Units(f, S) \cap new = {}
    BY DEF Units
  <1>6. Cardinality({}) = 0
    BY FS_EmptySet
  <1>7. Cardinality(Units(f, S)) \in Nat
    BY FS_CardinalityType
  <1> HIDE DEF new
  <1>8. /\ IsFiniteSet(Units(f, S) \cup new)
        /\ Cardinality(Units(f, S) \cup new) = Cardinality(Units(f, S)) + Cardinality(new) - 0
    BY <1>3, <1>5, <1>6, FS_Union
  <1>9. Cardinality(Units(f, S \cup {x})) = Cardinality(Units(f, S)) + f[x] - 0
    BY <1>3, <1>4, <1>8
  <1>10. IsFiniteSet(Units(f, S \cup {x}))
    BY <1>4, <1>8
  <1>11. Cardinality(Units(f, S)) + f[x] - 0 = f[x] + Cardinality(Units(f, S))
    BY <1>7
  <1> QED BY <1>9, <1>10, <1>11

\* Among subsets of a finite set that are not none, one holds no other.
LEMMA SmallestSet ==
  ASSUME NEW S, IsFiniteSet(S), NEW C, C \subseteq SUBSET S, C # {}
  PROVE  \E T \in C : \A U \in C : U \subseteq T => U = T
  <1>1. C \subseteq FiniteSubsetsOf(S)
    BY FS_Subset DEF FiniteSubsetsOf
  <1>2. PICK T \in C : \A U \in C : <<U, T>> \notin StrictSubsetOrdering(S)
    BY <1>1, FS_StrictSubsetOrderingWellFounded, WFMin
  <1> QED BY <1>2 DEF StrictSubsetOrdering

\* The fold counts the units, whatever order it takes the elements in.
LEMMA SumCountsUnits ==
  ASSUME NEW f, NEW S, IsFiniteSet(S), \A x \in S : f[x] \in Nat
  PROVE  /\ IsFiniteSet(Units(f, S))
         /\ SumFunctionOnSet(f, S) = Cardinality(Units(f, S))
  <1> DEFINE count  == [T \in SUBSET S |-> Cardinality(Units(f, T))]
             any(T) == CHOOSE x \in T : TRUE
  <1>1. \A T \in SUBSET S : IsFiniteSet(T)
    BY FS_Subset
  <1>2. \A T \in SUBSET S : IsFiniteSet(Units(f, T))
    <2> DEFINE bad == {T \in SUBSET S : ~IsFiniteSet(Units(f, T))}
    <2>1. SUFFICES ASSUME bad # {} PROVE FALSE
      OBVIOUS
    <2>2. PICK T \in bad : \A U \in bad : U \subseteq T => U = T
      <3>1. bad \subseteq SUBSET S
        OBVIOUS
      <3> HIDE DEF bad
      <3> QED BY <2>1, <3>1, SmallestSet
    <2>3. PICK x \in T : TRUE
      BY NoUnits, FS_EmptySet
    <2>4. IsFiniteSet(Units(f, T \ {x})) /\ x \notin T \ {x} /\ T = (T \ {x}) \cup {x}
      BY <2>2, <2>3
    <2> QED BY <1>1, <2>3, <2>4, UnitsAdd
  <1>3. ASSUME NEW T \in SUBSET S, T # {}
        PROVE  /\ any(T) \in T /\ T \ {any(T)} \in SUBSET S
               /\ count[T] = f[any(T)] + count[T \ {any(T)}]
    <2>1. any(T) \in T /\ T \ {any(T)} \in SUBSET S
      BY <1>3
    <2>2. T = (T \ {any(T)}) \cup {any(T)} /\ any(T) \notin T \ {any(T)}
      BY <2>1
    <2> HIDE DEF any
    <2>3. Cardinality(Units(f, T)) = f[any(T)] + Cardinality(Units(f, T \ {any(T)}))
      BY <1>1, <1>2, <2>1, <2>2, UnitsAdd
    <2> QED BY <2>1, <2>3
  <1>4. count[{}] = 0
    BY NoUnits, FS_EmptySet
  <1>5. Iteration(f, S, count)
    BY <1>3, <1>4 DEF Iteration
  <1> DEFINE iter == CHOOSE g : Iteration(f, S, g)
  <1>6. Iteration(f, S, iter)
    BY <1>5
  <1>7. iter[S] = count[S]
    <2> DEFINE bad == {T \in SUBSET S : iter[T] # count[T]}
    <2> HIDE DEF iter, count, any
    <2>1. SUFFICES ASSUME bad # {} PROVE FALSE
      OBVIOUS
    <2>2. PICK T \in bad : \A U \in bad : U \subseteq T => U = T
      <3>1. bad \subseteq SUBSET S
        OBVIOUS
      <3> HIDE DEF bad
      <3> QED BY <2>1, <3>1, SmallestSet
    <2>3. T # {}
      BY <1>4, <1>6 DEF Iteration
    <2>4. iter[T] = f[any(T)] + iter[T \ {any(T)}]
      BY <1>6, <2>3 DEF Iteration, any
    <2>5. iter[T \ {any(T)}] = count[T \ {any(T)}]
      BY <1>3, <2>2, <2>3
    <2> QED BY <1>3, <2>3, <2>4, <2>5
  <1> QED BY <1>2, <1>7, SumIsIteration

-----------------------------------------------------------------------------
\* A sum of natural numbers is one.
LEMMA SumType ==
  ASSUME NEW f, NEW S, IsFiniteSet(S), \A x \in S : f[x] \in Nat
  PROVE  SumFunctionOnSet(f, S) \in Nat
  BY SumCountsUnits, FS_CardinalityType

\* The sum over nothing.
LEMMA SumOfNone == ASSUME NEW f PROVE SumFunctionOnSet(f, {}) = 0
  BY NoUnits, SumCountsUnits, FS_EmptySet

\* One element more.
LEMMA SumAdd ==
  ASSUME NEW f, NEW S, IsFiniteSet(S), \A x \in S : f[x] \in Nat,
         NEW x, x \notin S, f[x] \in Nat
  PROVE  SumFunctionOnSet(f, S \cup {x}) = f[x] + SumFunctionOnSet(f, S)
  <1>1. IsFiniteSet(S \cup {x}) /\ \A y \in S \cup {x} : f[y] \in Nat
    BY FS_AddElement
  <1>2. /\ SumFunctionOnSet(f, S) = Cardinality(Units(f, S)) /\ IsFiniteSet(Units(f, S))
        /\ SumFunctionOnSet(f, S \cup {x}) = Cardinality(Units(f, S \cup {x}))
    BY <1>1, SumCountsUnits
  <1> QED BY <1>2, UnitsAdd

\* The sum depends on the values in the set only.
LEMMA SumSame ==
  ASSUME NEW f, NEW g, NEW S, IsFiniteSet(S), \A x \in S : f[x] \in Nat /\ g[x] = f[x]
  PROVE  SumFunctionOnSet(g, S) = SumFunctionOnSet(f, S)
  <1>1. Units(g, S) = Units(f, S)
    BY DEF Units
  <1>2. \A x \in S : g[x] \in Nat
    OBVIOUS
  <1> QED BY <1>1, <1>2, SumCountsUnits

\* Of fewer elements and smaller values the sum is no larger.
LEMMA SumWithin ==
  ASSUME NEW f, NEW g, NEW S, IsFiniteSet(S), NEW T \in SUBSET S,
         \A x \in S : g[x] \in Nat, \A x \in T : f[x] \in Nat /\ f[x] <= g[x]
  PROVE  SumFunctionOnSet(f, T) <= SumFunctionOnSet(g, S)
  <1>1. IsFiniteSet(T)
    BY FS_Subset
  <1>2. /\ SumFunctionOnSet(f, T) = Cardinality(Units(f, T))
        /\ SumFunctionOnSet(g, S) = Cardinality(Units(g, S)) /\ IsFiniteSet(Units(g, S))
    BY <1>1, SumCountsUnits
  <1>3. Units(f, T) \in SUBSET Units(g, S)
    BY DEF Units
  <1>4. Cardinality(Units(f, T)) <= Cardinality(Units(g, S))
    BY <1>2, <1>3, FS_Subset
  <1> QED BY <1>2, <1>4

\* One value is replaced.
LEMMA SumUpdate ==
  ASSUME NEW f, NEW g, NEW S, IsFiniteSet(S), \A x \in S : f[x] \in Nat,
         NEW x \in S, g[x] \in Nat, \A y \in S \ {x} : g[y] = f[y]
  PROVE  SumFunctionOnSet(g, S) = SumFunctionOnSet(f, S) - f[x] + g[x]
  <1> DEFINE R == S \ {x}
  <1>1. IsFiniteSet(R) /\ S = R \cup {x} /\ x \notin R
    BY FS_RemoveElement
  <1>2. \A y \in R : f[y] \in Nat /\ g[y] = f[y] /\ g[y] \in Nat
    OBVIOUS
  <1> HIDE DEF R
  <1>3. SumFunctionOnSet(g, R) = SumFunctionOnSet(f, R) /\ SumFunctionOnSet(f, R) \in Nat
    BY <1>1, <1>2, SumSame, SumType
  <1>4. SumFunctionOnSet(g, S) = g[x] + SumFunctionOnSet(g, R)
    BY <1>1, <1>2, SumAdd
  <1>5. SumFunctionOnSet(f, S) = f[x] + SumFunctionOnSet(f, R)
    BY <1>1, <1>2, SumAdd
  <1>6. f[x] \in Nat
    OBVIOUS
  <1> QED BY <1>3, <1>4, <1>5, <1>6

\* A sum of zeros.
LEMMA SumOfZeros ==
  ASSUME NEW f, NEW S, IsFiniteSet(S), \A x \in S : f[x] = 0
  PROVE  SumFunctionOnSet(f, S) = 0
  <1>1. Units(f, S) = {}
    BY DEF Units
  <1> QED BY <1>1, SumCountsUnits, FS_EmptySet

\* A set computed from a finite set, element by element, is finite.
LEMMA FiniteImage ==
  ASSUME NEW S, IsFiniteSet(S), NEW f
  PROVE  IsFiniteSet({f[x] : x \in S})
  <1> DEFINE T == {f[x] : x \in S}
             g == [x \in S |-> f[x]]
  <1>1. g \in Surjection(S, T)
    BY DEF Surjection
  <1> HIDE DEF g, T
  <1>2. IsFiniteSet(T)
    BY <1>1, FS_Surjection
  <1> QED BY <1>2 DEF T
=============================================================================
