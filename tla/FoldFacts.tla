------------------------------- MODULE FoldFacts -------------------------------
(***************************************************************************)
(* What the folds of the community modules compute, for any operation: the *)
(* recursive function behind MapThenFoldSet exists on every finite set, so *)
(* its equation may be used.  An operation is a constant of this module, a *)
(* module that needs the facts for one of its own INSTANCEs it.  The facts *)
(* about sums are for an operation that adds.                              *)
(***************************************************************************)
EXTENDS Integers, FiniteSets, Folds, FiniteSetTheorems, WellFoundedInduction, TLAPS

CONSTANTS Op(_, _), Base, Pick(_)

\* The equation of the fold of f over the subsets of S.
Rest(T) == T \ {Pick(T)}
Equation(f, S, g) ==
    g = [T \in SUBSET S |-> IF T = {} THEN Base ELSE Op(f[Pick(T)], g[Rest(T)])]

Picks(S) == \A T \in SUBSET S : T # {} => Pick(T) \in T

\* If some subset of a finite set is in a set of subsets, a smallest one is.
LEMMA Smallest ==
    ASSUME NEW S, IsFiniteSet(S), NEW Bad \in SUBSET (SUBSET S), Bad # {}
    PROVE  \E T \in Bad : \A U \in SUBSET T : U # T => U \notin Bad
<1>1. IsWellFoundedOn(StrictSubsetOrdering(S), FiniteSubsetsOf(S))
    BY FS_StrictSubsetOrderingWellFounded
<1>2. \A T \in Bad : IsFiniteSet(T) /\ T \in SUBSET S
    BY FS_Subset
<1>3. Bad \subseteq FiniteSubsetsOf(S)
    BY <1>2 DEF FiniteSubsetsOf
<1>4. PICK T \in Bad : \A U \in Bad : <<U, T>> \notin StrictSubsetOrdering(S)
    BY <1>1, <1>3, WFMin
<1>5. ASSUME NEW U \in SUBSET T, U # T, U \in Bad
      PROVE  FALSE
    BY <1>4, <1>5 DEF StrictSubsetOrdering
<1> QED BY <1>5

\* Two solutions agree where both are defined.
LEMMA SolutionsAgree ==
    ASSUME NEW S1, NEW S2, IsFiniteSet(S1), Picks(S1), NEW f, NEW g, NEW h,
           Equation(f, S1, g), Equation(f, S2, h), S1 \subseteq S2
    PROVE  \A T \in SUBSET S1 : g[T] = h[T]
<1> DEFINE Bad == {T \in SUBSET S1 : g[T] # h[T]}
<1> SUFFICES ASSUME Bad # {} PROVE FALSE
    OBVIOUS
<1>0. Bad \in SUBSET (SUBSET S1)
    OBVIOUS
<1> HIDE DEF Bad
<1>1. PICK T \in Bad : \A U \in SUBSET T : U # T => U \notin Bad
    BY <1>0, Smallest
<1> USE DEF Bad
<1>2. T \in SUBSET S1 /\ T \in SUBSET S2 /\ g[T] # h[T]
    OBVIOUS
<1>3. /\ g[T] = IF T = {} THEN Base ELSE Op(f[Pick(T)], g[Rest(T)])
      /\ h[T] = IF T = {} THEN Base ELSE Op(f[Pick(T)], h[Rest(T)])
    BY <1>2 DEF Equation
<1>4. T # {} => Rest(T) \in SUBSET T /\ Rest(T) # T
    BY <1>2 DEF Picks, Rest
<1>5. T # {} => g[Rest(T)] = h[Rest(T)]
    BY <1>1, <1>2, <1>4
<1> QED BY <1>2, <1>3, <1>5

\* There is a solution for every finite set.
LEMMA SolutionExists ==
    ASSUME NEW S, IsFiniteSet(S), Picks(S), NEW f
    PROVE  \E g : Equation(f, S, g)
<1> DEFINE Bad == {T \in SUBSET S : ~ \E g : Equation(f, T, g)}
<1> SUFFICES ASSUME Bad # {} PROVE FALSE
    <2>1. S \in SUBSET S
        OBVIOUS
    <2> QED BY <2>1
<1>0. Bad \in SUBSET (SUBSET S)
    OBVIOUS
<1> HIDE DEF Bad
<1>1. PICK T \in Bad : \A U \in SUBSET T : U # T => U \notin Bad
    BY <1>0, Smallest
<1> USE DEF Bad
<1>2. T \in SUBSET S /\ ~ \E g : Equation(f, T, g)
    OBVIOUS
<1>3. \A U \in SUBSET T : U # T => \E g : Equation(f, U, g)
    BY <1>1, <1>2
<1> HIDE DEF Bad
<1> DEFINE sol(U) == CHOOSE g : Equation(f, U, g)
           below == [U \in SUBSET T |-> sol(U)[U]]
           whole == [U \in SUBSET T |-> IF U # T THEN below[U]
                         ELSE IF T = {} THEN Base ELSE Op(f[Pick(T)], below[Rest(T)])]
<1>4. \A U \in SUBSET T : IsFiniteSet(U) /\ Picks(U)
    BY <1>2, FS_Subset DEF Picks
<1>5. \A U \in SUBSET T : U # T => Equation(f, U, sol(U))
    BY <1>3
<1> HIDE DEF sol
<1>6. ASSUME NEW U \in SUBSET T, U # T, U # {}
      PROVE  below[U] = Op(f[Pick(U)], below[Rest(U)])
    <2>1. Rest(U) \in SUBSET U /\ Rest(U) # T /\ Rest(U) \in SUBSET T
        BY <1>6 DEF Rest
    <2>2. sol(U)[U] = Op(f[Pick(U)], sol(U)[Rest(U)])
        <3>1. sol(U) = [V \in SUBSET U |->
                            IF V = {} THEN Base ELSE Op(f[Pick(V)], sol(U)[Rest(V)])]
            BY <1>5, <1>6 DEF Equation
        <3>2. U \in SUBSET U
            OBVIOUS
        <3> QED BY <1>6, <3>1, <3>2
    <2>3. \A V \in SUBSET Rest(U) : sol(Rest(U))[V] = sol(U)[V]
        <3>1. Equation(f, Rest(U), sol(Rest(U))) /\ Equation(f, U, sol(U))
            BY <1>5, <1>6, <2>1
        <3>2. IsFiniteSet(Rest(U)) /\ Picks(Rest(U))
            BY <1>4, <2>1
        <3> QED BY <2>1, <3>1, <3>2, SolutionsAgree
    <2>4. sol(Rest(U))[Rest(U)] = sol(U)[Rest(U)]
        BY <2>3
    <2> QED BY <2>1, <2>2, <2>4
<1>7. ASSUME {} # T
      PROVE  below[{}] = Base
    <2>1. {} \in SUBSET T /\ {} \in SUBSET {}
        OBVIOUS
    <2>2. Equation(f, {}, sol({}))
        BY <1>5, <1>7, <2>1
    <2>3. sol({})[{}] = Base
        BY <2>1, <2>2 DEF Equation
    <2> QED BY <2>1, <2>3
<1> HIDE DEF below
<1>8. \A U \in SUBSET T : whole[U] = IF U = {} THEN Base ELSE Op(f[Pick(U)], whole[Rest(U)])
    <2> TAKE U \in SUBSET T
    <2>1. U # {} => Rest(U) \in SUBSET T /\ Rest(U) # T
        BY <1>4 DEF Rest, Picks
    <2>2. U # {} => whole[Rest(U)] = below[Rest(U)]
        BY <2>1
    <2>3. CASE U = T
        BY <2>2, <2>3
    <2>4. CASE U # T /\ U = {}
        <3>1. whole[U] = below[U]
            BY <2>4
        <3> QED BY <1>7, <2>4, <3>1
    <2>5. CASE U # T /\ U # {}
        <3>1. whole[U] = below[U]
            BY <2>5
        <3> HIDE DEF whole
        <3>2. below[U] = Op(f[Pick(U)], below[Rest(U)])
            BY <1>6, <2>5
        <3> QED BY <2>2, <2>5, <3>1, <3>2
    <2> QED BY <2>3, <2>4, <2>5
<1>9. Equation(f, T, whole)
    <2>1. DOMAIN whole = SUBSET T
        OBVIOUS
    <2>2. whole = [U \in SUBSET T |-> whole[U]]
        OBVIOUS
    <2> HIDE DEF whole
    <2> QED BY <1>8, <2>1, <2>2 DEF Equation
<1> QED BY <1>2, <1>9

Fold(f, S) == MapThenFoldSet(Op, Base, LAMBDA x : f[x], Pick, S)

\* The fold over a set is that over the rest of it, then the element picked.
THEOREM FoldEquation ==
    ASSUME NEW S, IsFiniteSet(S), Picks(S), NEW f
    PROVE  Fold(f, S) = IF S = {} THEN Base ELSE Op(f[Pick(S)], Fold(f, Rest(S)))
<1> DEFINE sol(T) == CHOOSE g : Equation(f, T, g)
<1>1. \A T : Fold(f, T) = sol(T)[T]
    BY DEF Fold, MapThenFoldSet, Equation, Rest
<1>2. Equation(f, S, sol(S))
    BY SolutionExists
<1>3. S # {} => IsFiniteSet(Rest(S)) /\ Picks(Rest(S)) /\ Rest(S) \subseteq S
    BY FS_Subset DEF Rest, Picks
<1>4. S # {} => Equation(f, Rest(S), sol(Rest(S)))
    BY <1>3, SolutionExists
<1> HIDE DEF sol
<1>5. S # {} => sol(Rest(S))[Rest(S)] = sol(S)[Rest(S)]
    BY <1>2, <1>3, <1>4, SolutionsAgree
<1>6. sol(S)[S] = IF S = {} THEN Base ELSE Op(f[Pick(S)], sol(S)[Rest(S)])
    <2>1. sol(S) = [T \in SUBSET S |-> IF T = {} THEN Base ELSE Op(f[Pick(T)], sol(S)[Rest(T)])]
        BY <1>2 DEF Equation
    <2>2. S \in SUBSET S
        OBVIOUS
    <2> QED BY <2>1, <2>2
<1> QED BY <1>1, <1>5, <1>6

\* It is in a set that the operation does not leave.
THEOREM FoldType ==
    ASSUME NEW S, IsFiniteSet(S), Picks(S), NEW f, NEW V, Base \in V,
           \A x \in S, v \in V : Op(f[x], v) \in V
    PROVE  Fold(f, S) \in V
<1> DEFINE Bad == {T \in SUBSET S : Fold(f, T) \notin V}
<1> SUFFICES ASSUME Bad # {} PROVE FALSE
    <2>1. S \in SUBSET S
        OBVIOUS
    <2> QED BY <2>1
<1>0. Bad \in SUBSET (SUBSET S)
    OBVIOUS
<1> HIDE DEF Bad
<1>1. PICK T \in Bad : \A U \in SUBSET T : U # T => U \notin Bad
    BY <1>0, Smallest
<1> USE DEF Bad
<1>2. T \in SUBSET S /\ Fold(f, T) \notin V /\ IsFiniteSet(T) /\ Picks(T)
    BY FS_Subset DEF Picks
<1>3. Fold(f, T) = IF T = {} THEN Base ELSE Op(f[Pick(T)], Fold(f, Rest(T)))
    BY <1>2, FoldEquation
<1>4. T # {} => Pick(T) \in S /\ Rest(T) \in SUBSET T /\ Rest(T) # T /\ Rest(T) \in SUBSET S
    BY <1>2 DEF Picks, Rest
<1>5. T # {} => Fold(f, Rest(T)) \in V
    BY <1>1, <1>4
<1> HIDE DEF Bad
<1> QED BY <1>2, <1>3, <1>4, <1>5

\* The operation stays in V, and the order of two elements does not matter.
Exchanges(f, S, V) ==
    /\ Base \in V /\ \A x \in S, v \in V : Op(f[x], v) \in V
    /\ \A x, y \in S, v \in V : Op(f[x], Op(f[y], v)) = Op(f[y], Op(f[x], v))

\* Where the order does not matter, any element may be taken first.
THEOREM FoldSplit ==
    ASSUME NEW S, IsFiniteSet(S), Picks(S), NEW f, NEW V, Exchanges(f, S, V), NEW z \in S
    PROVE  Fold(f, S) = Op(f[z], Fold(f, S \ {z}))
<1> DEFINE Splits(T) == \A y \in T : Fold(f, T) = Op(f[y], Fold(f, T \ {y}))
           Bad == {T \in SUBSET S : ~Splits(T)}
<1> SUFFICES ASSUME Bad # {} PROVE FALSE
    <2>1. S \in SUBSET S
        OBVIOUS
    <2> QED BY <2>1
<1>0. Bad \in SUBSET (SUBSET S)
    OBVIOUS
<1> HIDE DEF Bad
<1>1. PICK T \in Bad : \A U \in SUBSET T : U # T => U \notin Bad
    BY <1>0, Smallest
<1> USE DEF Bad
<1>2. T \in SUBSET S /\ ~Splits(T)
    OBVIOUS
<1>3. \A U \in SUBSET T : U # T => Splits(U)
    BY <1>1, <1>2
<1> HIDE DEF Bad
<1>4. \A U \in SUBSET T : IsFiniteSet(U) /\ Picks(U)
    BY <1>2, FS_Subset DEF Picks
<1>5. PICK y \in T : Fold(f, T) # Op(f[y], Fold(f, T \ {y}))
    BY <1>2
<1> DEFINE p == Pick(T)
           U == T \ {p, y}
<1>6. /\ p \in T /\ T # {} /\ Rest(T) = T \ {p} /\ T \ {p} \in SUBSET T /\ T \ {y} \in SUBSET T
      /\ T \ {p} # T /\ T \ {y} # T /\ U \in SUBSET T
    BY <1>2, <1>4, <1>5 DEF Picks, Rest
<1>7. Fold(f, T) = Op(f[p], Fold(f, T \ {p}))
    <2>1. T \in SUBSET T
        OBVIOUS
    <2> QED BY <1>4, <1>6, <2>1, FoldEquation
<1>8. p # y
    BY <1>5, <1>7
<1>9. /\ Fold(f, T \ {p}) = Op(f[y], Fold(f, U))
      /\ Fold(f, T \ {y}) = Op(f[p], Fold(f, U))
    <2>1. y \in T \ {p} /\ p \in T \ {y}
        BY <1>5, <1>6, <1>8
    <2>2. (T \ {p}) \ {y} = U /\ (T \ {y}) \ {p} = U
        OBVIOUS
    <2> HIDE DEF U, p
    <2>3. Splits(T \ {p}) /\ Splits(T \ {y})
        BY <1>3, <1>6
    <2>4. /\ Fold(f, T \ {p}) = Op(f[y], Fold(f, (T \ {p}) \ {y}))
          /\ Fold(f, T \ {y}) = Op(f[p], Fold(f, (T \ {y}) \ {p}))
        BY <2>1, <2>3
    <2> QED BY <2>2, <2>4
<1>10. Fold(f, U) \in V
    <2>1. IsFiniteSet(U) /\ Picks(U)
        BY <1>4, <1>6
    <2>2. Base \in V /\ \A x \in U, v \in V : Op(f[x], v) \in V
        BY <1>2, <1>6 DEF Exchanges
    <2> HIDE DEF U
    <2> QED BY <2>1, <2>2, FoldType
<1>11. p \in S /\ y \in S
    BY <1>2, <1>5, <1>6
<1> HIDE DEF p, U
<1>12. Op(f[p], Op(f[y], Fold(f, U))) = Op(f[y], Op(f[p], Fold(f, U)))
    BY <1>10, <1>11 DEF Exchanges
<1> QED BY <1>5, <1>7, <1>9, <1>12

\* Only the values on the set matter.
THEOREM FoldSame ==
    ASSUME NEW S, IsFiniteSet(S), Picks(S), NEW f, NEW h, \A x \in S : f[x] = h[x]
    PROVE  Fold(f, S) = Fold(h, S)
<1> DEFINE Bad == {T \in SUBSET S : Fold(f, T) # Fold(h, T)}
<1> SUFFICES ASSUME Bad # {} PROVE FALSE
    <2>1. S \in SUBSET S
        OBVIOUS
    <2> QED BY <2>1
<1>0. Bad \in SUBSET (SUBSET S)
    OBVIOUS
<1> HIDE DEF Bad
<1>1. PICK T \in Bad : \A U \in SUBSET T : U # T => U \notin Bad
    BY <1>0, Smallest
<1> USE DEF Bad
<1>2. T \in SUBSET S /\ Fold(f, T) # Fold(h, T) /\ IsFiniteSet(T) /\ Picks(T)
    BY FS_Subset DEF Picks
<1>3. /\ Fold(f, T) = IF T = {} THEN Base ELSE Op(f[Pick(T)], Fold(f, Rest(T)))
      /\ Fold(h, T) = IF T = {} THEN Base ELSE Op(h[Pick(T)], Fold(h, Rest(T)))
    BY <1>2, FoldEquation
<1>4. T # {} => Pick(T) \in S /\ Rest(T) \in SUBSET T /\ Rest(T) # T /\ Rest(T) \in SUBSET S
    BY <1>2 DEF Picks, Rest
<1>5. T # {} => Fold(f, Rest(T)) = Fold(h, Rest(T))
    BY <1>1, <1>4
<1> HIDE DEF Bad
<1> QED BY <1>2, <1>3, <1>4, <1>5

\* Some positions of a sequence have a last one.
LEMMA LastPosition ==
    ASSUME NEW k \in Nat, NEW T \in SUBSET (1 .. k), T # {}
    PROVE  \E m \in T : \A i \in T : i <= m
<1> DEFINE R == OpToRel(<, Nat)
           U == {k - m : m \in T}
<1>1. IsWellFoundedOn(R, Nat)
    BY NatLessThanWellFounded
<1>2. \A x, y \in Nat : <<x, y>> \in R <=> x < y
    BY DEF OpToRel
<1>3. U \subseteq Nat /\ U # {}
    OBVIOUS
<1> HIDE DEF R, U
<1>4. PICK x \in U : \A y \in U : <<y, x>> \notin R
    BY <1>1, <1>3, WFMin
<1>5. ASSUME NEW y \in U PROVE x <= y
    <2>1. x \in Nat /\ y \in Nat /\ ~(y < x)
        BY <1>2, <1>3, <1>4
    <2> QED BY <2>1
<1> USE DEF U
<1>6. PICK m \in T : x = k - m
    OBVIOUS
<1>7. ASSUME NEW i \in T PROVE i <= m
    <2>1. k - m <= k - i
        BY <1>5, <1>6
    <2> QED BY <2>1
<1> QED BY <1>7

\* The fold over a sequence from its last element: what an Append adds to it.
THEOREM FoldAppend ==
    ASSUME NEW k \in Nat, Picks(1 .. k + 1), Pick(1 .. k + 1) = k + 1,
           NEW f, NEW h, \A i \in 1 .. k : f[i] = h[i]
    PROVE  Fold(f, 1 .. k + 1) = Op(f[k + 1], Fold(h, 1 .. k))
<1>1. IsFiniteSet(1 .. k + 1) /\ IsFiniteSet(1 .. k)
    BY FS_Interval
<1>2. Rest(1 .. k + 1) = 1 .. k /\ 1 .. k + 1 # {} /\ 1 .. k \subseteq 1 .. k + 1
    BY DEF Rest
<1>3. Picks(1 .. k)
    BY <1>2 DEF Picks
<1>4. Fold(f, 1 .. k) = Fold(h, 1 .. k)
    BY <1>1, <1>3, FoldSame
<1>5. Fold(f, 1 .. k + 1) = Op(f[k + 1], Fold(f, 1 .. k))
    BY <1>1, <1>2, FoldEquation
<1> QED BY <1>4, <1>5

------------------------------------------------------------------------------
(* Sums.                                                                   *)

Adds == Base = 0 /\ \A a, b \in Int : Op(a, b) = a + b

\* A sum of integers is one, a sum of naturals too, and a sum of zeros is zero.
LEMMA SumType ==
    ASSUME Adds, NEW S, IsFiniteSet(S), Picks(S), NEW f
    PROVE  /\ f \in [S -> Int] => Fold(f, S) \in Int
           /\ f \in [S -> Nat] => Fold(f, S) \in Nat
           /\ f \in [S -> {0}] => Fold(f, S) = 0
<1>1. ASSUME f \in [S -> Int] PROVE Fold(f, S) \in Int
    <2>1. Base \in Int /\ \A x \in S, v \in Int : Op(f[x], v) \in Int
        BY <1>1 DEF Adds
    <2> QED BY <2>1, FoldType
<1>2. ASSUME f \in [S -> Nat] PROVE Fold(f, S) \in Nat
    <2>1. Base \in Nat /\ \A x \in S, v \in Nat : Op(f[x], v) \in Nat
        BY <1>2 DEF Adds
    <2> QED BY <2>1, FoldType
<1>3. ASSUME f \in [S -> {0}] PROVE Fold(f, S) = 0
    <2>1. Base \in {0} /\ \A x \in S, v \in {0} : Op(f[x], v) \in {0}
        BY <1>3 DEF Adds
    <2>2. Fold(f, S) \in {0}
        BY <2>1, FoldType
    <2> QED BY <2>2
<1> QED BY <1>1, <1>2, <1>3

\* Any value may be taken out of the sum.
THEOREM SumSplit ==
    ASSUME Adds, NEW S, IsFiniteSet(S), Picks(S), NEW f \in [S -> Int], NEW s \in S,
           NEW g \in [S \ {s} -> Int], \A r \in S \ {s} : g[r] = f[r]
    PROVE  Fold(f, S) = f[s] + Fold(g, S \ {s})
<1> DEFINE R == S \ {s}
<1>1. IsFiniteSet(R) /\ Picks(R)
    BY FS_Subset DEF Picks
<1>2. Exchanges(f, S, Int)
    <2>1. Base \in Int /\ \A x \in S, v \in Int : f[x] \in Int /\ Op(f[x], v) = f[x] + v
        BY DEF Adds
    <2> QED BY <2>1 DEF Exchanges
<1>3. Fold(f, S) = Op(f[s], Fold(f, R))
    BY <1>2, FoldSplit
<1>4. Fold(f, R) = Fold(g, R)
    <2>1. \A x \in R : f[x] = g[x]
        OBVIOUS
    <2> HIDE DEF R
    <2> QED BY <1>1, <2>1, FoldSame
<1>5. Fold(g, R) \in Int
    BY <1>1, SumType
<1> HIDE DEF R
<1>6. Op(f[s], Fold(g, R)) = f[s] + Fold(g, R)
    BY <1>5 DEF Adds
<1> QED BY <1>3, <1>4, <1>6 DEF R

\* The sum follows the one value that changes.
THEOREM SumMoves ==
    ASSUME Adds, NEW S, IsFiniteSet(S), Picks(S), NEW f \in [S -> Int], NEW h \in [S -> Int],
           NEW s \in S, \A r \in S \ {s} : h[r] = f[r]
    PROVE  Fold(h, S) = Fold(f, S) + (h[s] - f[s])
<1> DEFINE R == S \ {s}
           g == [x \in R |-> f[x]]
<1>1. g \in [R -> Int] /\ \A r \in R : g[r] = f[r] /\ g[r] = h[r]
    OBVIOUS
<1> HIDE DEF g
<1>2. Fold(f, S) = f[s] + Fold(g, R) /\ Fold(h, S) = h[s] + Fold(g, R)
    BY <1>1, SumSplit
<1>3. Fold(g, R) \in Int
    <2>1. IsFiniteSet(R) /\ Picks(R)
        BY FS_Subset DEF Picks
    <2> QED BY <1>1, <2>1, SumType
<1>4. f[s] \in Int /\ h[s] \in Int
    OBVIOUS
<1> QED BY <1>2, <1>3, <1>4

\* A sum over what is not empty is what is picked and the sum over the rest.
LEMMA SumStep ==
    ASSUME Adds, NEW S, IsFiniteSet(S), Picks(S), NEW f \in [S -> Int], NEW T \in SUBSET S
    PROVE  /\ Fold(f, T) \in Int /\ Fold(f, Rest(T)) \in Int
           /\ T = {} => Fold(f, T) = 0
           /\ T # {} => /\ Pick(T) \in T /\ Rest(T) = T \ {Pick(T)}
                        /\ Fold(f, T) = f[Pick(T)] + Fold(f, Rest(T))
<1> DEFINE U == Rest(T)
<1>1. U \in SUBSET S /\ U = T \ {Pick(T)} /\ (T # {} => Pick(T) \in T)
    BY DEF Rest, Picks
<1> HIDE DEF U
<1>2. \A V \in SUBSET S : Fold(f, V) \in Int
    <2> SUFFICES ASSUME NEW V \in SUBSET S PROVE Fold(f, V) \in Int
        OBVIOUS
    <2>1. IsFiniteSet(V) /\ Picks(V)
        BY FS_Subset DEF Picks
    <2>2. Base \in Int /\ \A x \in V, v \in Int : Op(f[x], v) \in Int
        BY DEF Adds
    <2> QED BY <2>1, <2>2, FoldType
<1>3. IsFiniteSet(T) /\ Picks(T)
    BY FS_Subset DEF Picks
<1>4. Fold(f, T) = IF T = {} THEN Base ELSE Op(f[Pick(T)], Fold(f, U))
    BY <1>3, FoldEquation DEF U
<1>5. CASE T = {}
    BY <1>1, <1>2, <1>4, <1>5 DEF Adds, U
<1>6. CASE T # {}
    <2>1. f[Pick(T)] \in Int /\ Fold(f, U) \in Int
        BY <1>1, <1>2, <1>6
    <2>2. Op(f[Pick(T)], Fold(f, U)) = f[Pick(T)] + Fold(f, U)
        BY <2>1 DEF Adds
    <2> QED BY <1>1, <1>2, <1>4, <1>6, <2>2 DEF U
<1> QED BY <1>5, <1>6

\* The sum falls by one for each value that falls by one.
THEOREM SumFalls ==
    ASSUME Adds, NEW S, IsFiniteSet(S), Picks(S), NEW f \in [S -> Int], NEW h \in [S -> Int],
           \A r \in S : h[r] = f[r] - 1
    PROVE  Fold(h, S) = Fold(f, S) - Cardinality(S)
<1> DEFINE Bad == {T \in SUBSET S : Fold(h, T) # Fold(f, T) - Cardinality(T)}
<1>1. SUFFICES ASSUME Bad # {} PROVE FALSE
    <2>1. S \in SUBSET S
        OBVIOUS
    <2> QED BY <1>1, <2>1
<1>2. Bad \in SUBSET (SUBSET S)
    OBVIOUS
<1> HIDE DEF Bad
<1>3. PICK T \in Bad : \A V \in SUBSET T : V # T => V \notin Bad
    BY <1>1, <1>2, Smallest
<1> DEFINE U == Rest(T)
           p == Pick(T)
<1> USE DEF Bad
<1>4. T \in SUBSET S /\ Fold(h, T) # Fold(f, T) - Cardinality(T)
    OBVIOUS
<1>5. \A V \in SUBSET T : V # T => Fold(h, V) = Fold(f, V) - Cardinality(V)
    BY <1>3, <1>4
<1> HIDE DEF Bad
<1>6. /\ Fold(f, T) \in Int /\ Fold(f, U) \in Int
      /\ T = {} => Fold(f, T) = 0 /\ Fold(h, T) = 0
      /\ T # {} => /\ p \in T /\ U = T \ {p}
                   /\ Fold(f, T) = f[p] + Fold(f, U) /\ Fold(h, T) = h[p] + Fold(h, U)
    BY <1>4, SumStep
<1> HIDE DEF U, p
<1>7. CASE T = {}
    BY <1>4, <1>6, <1>7, FS_EmptySet
<1>8. CASE T # {}
    <2>1. IsFiniteSet(T)
        BY <1>4, FS_Subset
    <2>2. Cardinality(U) = Cardinality(T) - 1 /\ Cardinality(T) \in Nat
        BY <1>6, <1>8, <2>1, FS_RemoveElement, FS_CardinalityType
    <2>3. Fold(h, U) = Fold(f, U) - Cardinality(U)
        BY <1>5, <1>6, <1>8
    <2>4. f[p] \in Int /\ h[p] = f[p] - 1
        BY <1>4, <1>6, <1>8
    <2> QED BY <1>4, <1>6, <1>8, <2>2, <2>3, <2>4
<1> QED BY <1>7, <1>8

\* The sum is monotonic in the values.
THEOREM SumMonotonic ==
    ASSUME Adds, NEW S, IsFiniteSet(S), Picks(S), NEW f \in [S -> Int], NEW h \in [S -> Int],
           \A r \in S : f[r] <= h[r]
    PROVE  Fold(f, S) <= Fold(h, S)
<1> DEFINE Bad == {T \in SUBSET S : ~(Fold(f, T) <= Fold(h, T))}
<1>1. SUFFICES ASSUME Bad # {} PROVE FALSE
    <2>1. S \in SUBSET S
        OBVIOUS
    <2> QED BY <1>1, <2>1
<1>2. Bad \in SUBSET (SUBSET S)
    OBVIOUS
<1> HIDE DEF Bad
<1>3. PICK T \in Bad : \A V \in SUBSET T : V # T => V \notin Bad
    BY <1>1, <1>2, Smallest
<1> DEFINE U == Rest(T)
           p == Pick(T)
<1> USE DEF Bad
<1>4. T \in SUBSET S /\ ~(Fold(f, T) <= Fold(h, T))
    OBVIOUS
<1>5. \A V \in SUBSET T : V # T => Fold(f, V) <= Fold(h, V)
    BY <1>3, <1>4
<1> HIDE DEF Bad
<1>6. /\ Fold(f, U) \in Int /\ Fold(h, U) \in Int
      /\ T = {} => Fold(f, T) = 0 /\ Fold(h, T) = 0
      /\ T # {} => /\ p \in T /\ U = T \ {p}
                   /\ Fold(f, T) = f[p] + Fold(f, U) /\ Fold(h, T) = h[p] + Fold(h, U)
    BY <1>4, SumStep
<1> HIDE DEF U, p
<1>7. CASE T = {}
    BY <1>4, <1>6, <1>7
<1>8. CASE T # {}
    <2>1. Fold(f, U) <= Fold(h, U)
        BY <1>5, <1>6, <1>8
    <2>2. f[p] \in Int /\ h[p] \in Int /\ f[p] <= h[p]
        BY <1>4, <1>6, <1>8
    <2> QED BY <1>4, <1>6, <1>8, <2>1, <2>2
<1> QED BY <1>7, <1>8
==============================================================================
