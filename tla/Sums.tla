-------------------------------- MODULE Sums --------------------------------
(***************************************************************************)
(* Facts about sums over finite sets, which the folds of the community     *)
(* modules compute by taking one element after another in an order that is *)
(* nowhere said.  A sum is a count: of the units in the elements that are  *)
(* positive, less those owed by the elements that are negative.  Counts    *)
(* need no order, so they say what a sum is without one.                   *)
(***************************************************************************)
EXTENDS Integers, Functions, FiniteSets, FiniteSetTheorems, TLAPS

(* Every subset of S is in a family that a subset belongs to as soon as    *)
(* those smaller by one element do.                                        *)
LEMMA SubsetInduction ==
  ASSUME NEW S, IsFiniteSet(S), NEW G,
         \A T \in SUBSET S : (\A x \in T : T \ {x} \in G) => T \in G
  PROVE  SUBSET S \subseteq G
<1> DEFINE R == StrictSubsetOrdering(S)
<1> DEFINE Rest == (SUBSET S) \ G
<1>1. IsWellFoundedOn(R, SUBSET S)
  BY FS_StrictSubsetOrderingWellFounded, FS_FiniteSubsetsOfFinite
<1>2. SUFFICES ASSUME Rest # {} PROVE FALSE
  OBVIOUS
<1> HIDE DEF R
<1>3. PICK T \in Rest : \A U \in Rest : ~(<<U, T>> \in R)
  BY <1>1, <1>2, WFMin
<1>4. ASSUME NEW x \in T PROVE T \ {x} \in G
  <2>1. T \ {x} \in SUBSET S /\ T \ {x} # T
    BY <1>4
  <2>2. <<T \ {x}, T>> \in R
    BY <2>1 DEF R, StrictSubsetOrdering
  <2> QED BY <1>3, <2>1, <2>2
<1> QED BY <1>4

(* The same upwards: a family that has the empty set, and with a subset    *)
(* those larger by one element.                                            *)
LEMMA SubsetGrowth ==
  ASSUME NEW S, IsFiniteSet(S), NEW G,
         {} \in G,
         \A T \in SUBSET S : \A x \in S \ T : T \in G => T \cup {x} \in G
  PROVE  SUBSET S \subseteq G
<1>1. ASSUME NEW T \in SUBSET S, \A x \in T : T \ {x} \in G PROVE T \in G
  <2>1. CASE T = {}
    BY <2>1
  <2>2. ASSUME NEW x \in T PROVE T \in G
    <3>1. T \ {x} \in SUBSET S /\ x \in S \ (T \ {x}) /\ (T \ {x}) \cup {x} = T
      BY <2>2
    <3> QED BY <1>1, <2>2, <3>1
  <2> QED BY <2>1, <2>2
<1> QED BY <1>1, SubsetInduction

-----------------------------------------------------------------------------
(* Counting. *)

(* The units of the elements of T by the weights w. *)
Units(w, T) == {p \in T \X Nat : p[2] < w[p[1]]}

Minus(w) == [i \in DOMAIN w |-> -w[i]]

Weight(w, T) == Cardinality(Units(w, T)) - Cardinality(Units(Minus(w), T))

Above0(n) == IF n > 0 THEN n ELSE 0

(* The units of one element. *)
LEMMA UnitsOfOne ==
  ASSUME NEW w, NEW x, w[x] \in Int
  PROVE  /\ IsFiniteSet(Units(w, {x}))
         /\ Cardinality(Units(w, {x})) = Above0(w[x])
<1> DEFINE n == Above0(w[x])
<1> DEFINE f == [k \in 1..n |-> <<x, k - 1>>]
<1>1. n \in Nat
  BY DEF Above0
<1>2. f \in Bijection(1..n, Units(w, {x}))
  <2>1. f \in [1..n -> Units(w, {x})]
    BY DEF Units, Above0
  <2>2. \A a, b \in 1..n : f[a] = f[b] => a = b
    OBVIOUS
  <2>3. \A p \in Units(w, {x}) : \E k \in 1..n : f[k] = p
    <3> SUFFICES ASSUME NEW p \in Units(w, {x}) PROVE \E k \in 1..n : f[k] = p
      OBVIOUS
    <3>1. p = <<x, p[2]>> /\ p[2] \in Nat /\ p[2] < w[x]
      BY DEF Units
    <3>2. p[2] + 1 \in 1..n
      BY <3>1 DEF Above0
    <3>3. f[p[2] + 1] = p
      BY <3>1, <3>2
    <3> QED BY <3>2, <3>3
  <2> HIDE DEF f, n
  <2> QED BY <2>1, <2>2, <2>3 DEF Bijection, Injection, Surjection, IsInjective
<1>3. IsFiniteSet(1..n) /\ Cardinality(1..n) = n
  BY <1>1, FS_Interval
<1> QED BY <1>2, <1>3, FS_Bijection DEF ExistsBijection

(* An element adds its units to those of the others. *)
LEMMA UnitsAddElement ==
  ASSUME NEW w, NEW T, IsFiniteSet(Units(w, T)), NEW x, x \notin T, w[x] \in Int
  PROVE  /\ IsFiniteSet(Units(w, T \cup {x}))
         /\ Cardinality(Units(w, T \cup {x})) = Cardinality(Units(w, T)) + Above0(w[x])
<1> DEFINE A == Units(w, T)
<1> DEFINE B == Units(w, {x})
<1>1. Units(w, T \cup {x}) = A \cup B
  BY DEF Units
<1>2. A \cap B = {}
  BY DEF Units
<1>3. IsFiniteSet(B) /\ Cardinality(B) = Above0(w[x])
  BY UnitsOfOne
<1> HIDE DEF A, B
<1>4. IsFiniteSet(A \cup B) /\ Cardinality(A \cup B) = Cardinality(A) + Cardinality(B) - Cardinality(A \cap B)
  BY <1>3, FS_Union DEF A
<1>5. Cardinality(A \cap B) = 0
  BY <1>2, FS_EmptySet
<1>6. Cardinality(A) \in Nat /\ Cardinality(B) \in Nat
  BY <1>3, FS_CardinalityType DEF A
<1>7. Cardinality(A \cup B) = Cardinality(A) + Cardinality(B)
  BY <1>4, <1>5, <1>6
<1> QED BY <1>1, <1>3, <1>4, <1>7 DEF A

(* No element, no units. *)
LEMMA UnitsOfNone == \A w : IsFiniteSet(Units(w, {})) /\ Cardinality(Units(w, {})) = 0
<1>1. \A w : Units(w, {}) = {}
  BY DEF Units
<1> QED BY <1>1, FS_EmptySet

(* The units of finitely many elements are finitely many. *)
LEMMA UnitsFinite ==
  ASSUME NEW S, IsFiniteSet(S), NEW w, \A i \in S : w[i] \in Int
  PROVE  \A T \in SUBSET S : IsFiniteSet(Units(w, T))
<1> DEFINE G == {T \in SUBSET S : IsFiniteSet(Units(w, T))}
<1>1. {} \in G
  BY UnitsOfNone
<1>2. ASSUME NEW T \in SUBSET S, NEW x \in S \ T, T \in G PROVE T \cup {x} \in G
  BY <1>2, UnitsAddElement
<1> HIDE DEF G
<1>3. SUBSET S \subseteq G
  BY <1>1, <1>2, SubsetGrowth
<1> QED BY <1>3 DEF G

(* Nothing weighs nothing. *)
LEMMA WeightOfNone == \A w : Weight(w, {}) = 0
BY UnitsOfNone DEF Weight

(* An element adds its own to the weight of the others. *)
LEMMA WeightAddElement ==
  ASSUME NEW S, IsFiniteSet(S), NEW w, S \subseteq DOMAIN w, \A i \in S : w[i] \in Int,
         NEW T \in SUBSET S, NEW x \in S \ T
  PROVE  Weight(w, T \cup {x}) = Weight(w, T) + w[x]
<1>1. \A i \in S : Minus(w)[i] = -w[i] /\ -w[i] \in Int
  BY DEF Minus
<1>2. IsFiniteSet(Units(w, T)) /\ IsFiniteSet(Units(Minus(w), T))
  BY <1>1, UnitsFinite
<1>3. Cardinality(Units(w, T \cup {x})) = Cardinality(Units(w, T)) + Above0(w[x])
  BY <1>2, UnitsAddElement
<1>4. Cardinality(Units(Minus(w), T \cup {x})) = Cardinality(Units(Minus(w), T)) + Above0(-w[x])
  BY <1>1, <1>2, UnitsAddElement
<1>5. Cardinality(Units(w, T)) \in Int /\ Cardinality(Units(Minus(w), T)) \in Int
  BY <1>2, FS_CardinalityType
<1> QED BY <1>3, <1>4, <1>5 DEF Weight, Above0

(* A weight is a number. *)
LEMMA WeightType ==
  ASSUME NEW S, IsFiniteSet(S), NEW w, S \subseteq DOMAIN w, \A i \in S : w[i] \in Int
  PROVE  \A T \in SUBSET S : Weight(w, T) \in Int
<1>1. \A i \in S : Minus(w)[i] \in Int
  BY DEF Minus
<1>2. \A T \in SUBSET S : IsFiniteSet(Units(w, T)) /\ IsFiniteSet(Units(Minus(w), T))
  BY <1>1, UnitsFinite
<1> QED BY <1>2, FS_CardinalityType DEF Weight

-----------------------------------------------------------------------------
(* Folds. *)

(* The element the folds take next. *)
Pick(T) == CHOOSE x \in T : TRUE

(* It is one of the elements. *)
LEMMA PickIsIn == \A T : T # {} => Pick(T) \in T
BY DEF Pick

(* The equation that the folds solve. *)
Folds(f, w, S) ==
  f = [T \in SUBSET S |-> IF T = {} THEN 0 ELSE w[Pick(T)] + f[T \ {Pick(T)}]]

(* A weight is that of the element taken next and of the rest. *)
LEMMA WeightUnfolds ==
  ASSUME NEW S, IsFiniteSet(S), NEW w, S \subseteq DOMAIN w, \A i \in S : w[i] \in Int,
         NEW T \in SUBSET S, T # {}
  PROVE  Weight(w, T) = w[Pick(T)] + Weight(w, T \ {Pick(T)})
<1> DEFINE x == Pick(T)
<1>1. x \in T
  BY PickIsIn
<1> HIDE DEF x
<1> DEFINE U == T \ {x}
<1>2. U \in SUBSET S /\ x \in S \ U /\ T = U \cup {x}
  BY <1>1
<1> HIDE DEF U
<1>3. Weight(w, U \cup {x}) = Weight(w, U) + w[x]
  BY <1>2, WeightAddElement
<1>4. Weight(w, U) \in Int /\ w[x] \in Int
  BY <1>2, WeightType
<1>5. Weight(w, U \cup {x}) = w[x] + Weight(w, U)
  BY <1>3, <1>4
<1>6. Weight(w, T) = w[x] + Weight(w, U)
  BY <1>2, <1>5, Zenon
<1> QED BY <1>6 DEF x, U

(* The weights solve it, *)
LEMMA WeightFolds ==
  ASSUME NEW S, IsFiniteSet(S), NEW w, S \subseteq DOMAIN w, \A i \in S : w[i] \in Int
  PROVE  Folds([T \in SUBSET S |-> Weight(w, T)], w, S)
<1> DEFINE g == [T \in SUBSET S |-> Weight(w, T)]
           h == [T \in SUBSET S |-> IF T = {} THEN 0 ELSE w[Pick(T)] + g[T \ {Pick(T)}]]
<1>1. ASSUME NEW T \in SUBSET S PROVE g[T] = h[T]
  <2>1. CASE T = {}
    BY <2>1, WeightOfNone
  <2>2. CASE T # {}
    BY <2>2, WeightUnfolds
  <2> QED BY <2>1, <2>2
<1>2. g = [T \in SUBSET S |-> g[T]]
  OBVIOUS
<1> HIDE DEF g
<1> QED BY <1>1, <1>2 DEF g, Folds

(* and nothing else does. *)
LEMMA FoldIsWeight ==
  ASSUME NEW S, IsFiniteSet(S), NEW w, S \subseteq DOMAIN w, \A i \in S : w[i] \in Int,
         NEW f, Folds(f, w, S)
  PROVE  f[S] = Weight(w, S)
<1> DEFINE G == {T \in SUBSET S : f[T] = Weight(w, T)}
<1>1. ASSUME NEW T \in SUBSET S
      PROVE  f[T] = IF T = {} THEN 0 ELSE w[Pick(T)] + f[T \ {Pick(T)}]
  BY DEF Folds
<1>2. ASSUME NEW T \in SUBSET S, \A x \in T : T \ {x} \in G PROVE T \in G
  <2>1. CASE T = {}
    BY <1>1, <2>1, WeightOfNone
  <2>2. CASE T # {}
    <3>1. f[T \ {Pick(T)}] = Weight(w, T \ {Pick(T)})
      BY <1>2, <2>2, PickIsIn
    <3>2. Weight(w, T) = w[Pick(T)] + Weight(w, T \ {Pick(T)})
      BY <2>2, WeightUnfolds
    <3> QED BY <1>1, <2>2, <3>1, <3>2
  <2> QED BY <2>1, <2>2
<1> HIDE DEF G
<1>3. SUBSET S \subseteq G
  BY <1>2, SubsetInduction
<1> QED BY <1>3 DEF G

(* The sum of the community modules is the weight. *)
LEMMA SumIsWeight ==
  ASSUME NEW S, IsFiniteSet(S), NEW w, S \subseteq DOMAIN w, \A i \in S : w[i] \in Int
  PROVE  SumFunctionOnSet(w, S) = Weight(w, S)
<1> DEFINE f == CHOOSE f : Folds(f, w, S)
<1>1. SumFunctionOnSet(w, S) = f[S]
  BY DEF SumFunctionOnSet, FoldFunctionOnSet, MapThenFoldSet, Folds, Pick
<1>2. Folds(f, w, S)
  BY WeightFolds, Zenon
<1> HIDE DEF f
<1> QED BY <1>1, <1>2, FoldIsWeight

-----------------------------------------------------------------------------
(* Sums. *)

(* The sum over no element. *)
LEMMA SumOfNone == \A w : SumFunctionOnSet(w, {}) = 0
BY FS_EmptySet, SumIsWeight, WeightOfNone

(* A sum is a number. *)
LEMMA SumType ==
  ASSUME NEW S, IsFiniteSet(S), NEW w, S \subseteq DOMAIN w, \A i \in S : w[i] \in Int
  PROVE  SumFunctionOnSet(w, S) \in Int
BY SumIsWeight, WeightType

(* Without debts a sum is a count. *)
LEMMA SumOfNaturals ==
  ASSUME NEW S, IsFiniteSet(S), NEW w, S \subseteq DOMAIN w, \A i \in S : w[i] \in Nat
  PROVE  SumFunctionOnSet(w, S) \in Nat
<1>1. SumFunctionOnSet(w, S) = Weight(w, S)
  BY SumIsWeight
<1>2. Units(Minus(w), S) = {}
  BY DEF Units, Minus
<1>3. Cardinality(Units(w, S)) \in Nat
  BY UnitsFinite, FS_CardinalityType
<1> QED BY <1>1, <1>2, <1>3, FS_EmptySet DEF Weight

(* An element adds its own. *)
LEMMA SumAddElement ==
  ASSUME NEW S, IsFiniteSet(S), NEW x, x \notin S,
         NEW w, S \cup {x} \subseteq DOMAIN w, \A i \in S \cup {x} : w[i] \in Int
  PROVE  SumFunctionOnSet(w, S \cup {x}) = SumFunctionOnSet(w, S) + w[x]
<1>1. IsFiniteSet(S \cup {x})
  BY FS_AddElement
<1>2. Weight(w, S \cup {x}) = Weight(w, S) + w[x]
  BY <1>1, WeightAddElement
<1>3. SumFunctionOnSet(w, S) = Weight(w, S)
  BY SumIsWeight
<1>4. SumFunctionOnSet(w, S \cup {x}) = Weight(w, S \cup {x})
  BY <1>1, SumIsWeight
<1> QED BY <1>2, <1>3, <1>4

(* Only the weights of the elements count. *)
LEMMA SumAgrees ==
  ASSUME NEW S, IsFiniteSet(S),
         NEW w, S \subseteq DOMAIN w, \A i \in S : w[i] \in Int,
         NEW v, S \subseteq DOMAIN v, \A i \in S : v[i] = w[i]
  PROVE  SumFunctionOnSet(v, S) = SumFunctionOnSet(w, S)
<1>1. Units(v, S) = Units(w, S) /\ Units(Minus(v), S) = Units(Minus(w), S)
  BY DEF Units, Minus
<1>2. SumFunctionOnSet(v, S) = Weight(v, S) /\ SumFunctionOnSet(w, S) = Weight(w, S)
  BY SumIsWeight
<1> QED BY <1>1, <1>2 DEF Weight

(* The sum over a set in two parts. *)
LEMMA SumOfParts ==
  ASSUME NEW S, IsFiniteSet(S), NEW T, IsFiniteSet(T), S \cap T = {},
         NEW w, S \cup T \subseteq DOMAIN w, \A i \in S \cup T : w[i] \in Int
  PROVE  SumFunctionOnSet(w, S \cup T) = SumFunctionOnSet(w, S) + SumFunctionOnSet(w, T)
<1> DEFINE Sum(U) == SumFunctionOnSet(w, U)
<1> DEFINE G == {U \in SUBSET T : Sum(S \cup U) = Sum(S) + Sum(U)}
<1>1. /\ Sum({}) = 0
      /\ \A U \in SUBSET (S \cup T) : IsFiniteSet(U) => Sum(U) \in Int
  BY SumOfNone, SumType
<1>2. ASSUME NEW U \in SUBSET (S \cup T), IsFiniteSet(U), NEW x \in S \cup T, x \notin U
      PROVE  Sum(U \cup {x}) = Sum(U) + w[x]
  BY <1>2, SumAddElement
<1> HIDE DEF Sum
<1>3. {} \in G
  <2>1. S \cup {} = S
    OBVIOUS
  <2>2. Sum(S) = Sum(S) + Sum({})
    BY <1>1
  <2> QED BY <2>1, <2>2
<1>4. ASSUME NEW U \in SUBSET T, NEW x \in T \ U, U \in G PROVE U \cup {x} \in G
  <2>1. IsFiniteSet(U) /\ IsFiniteSet(S \cup U)
    BY FS_Subset, FS_Union
  <2>2. Sum(U \cup {x}) = Sum(U) + w[x]
    BY <1>2, <2>1
  <2> DEFINE V == S \cup U
  <2>3. S \cup (U \cup {x}) = V \cup {x} /\ V \in SUBSET (S \cup T) /\ x \in S \cup T /\ x \notin V
    OBVIOUS
  <2>4. IsFiniteSet(V) /\ Sum(V) = Sum(S) + Sum(U)
    BY <1>4, <2>1
  <2> HIDE DEF V
  <2>5. Sum(V \cup {x}) = Sum(V) + w[x]
    BY <1>2, <2>3, <2>4
  <2>6. Sum(S) \in Int /\ Sum(U) \in Int /\ w[x] \in Int
    BY <1>1, <2>1
  <2>7. Sum(V \cup {x}) = Sum(S) + Sum(U \cup {x})
    BY <2>2, <2>4, <2>5, <2>6
  <2>8. Sum(S \cup (U \cup {x})) = Sum(S) + Sum(U \cup {x})
    BY <2>3, <2>7, Zenon
  <2> QED BY <2>8
<1> HIDE DEF G
<1>5. SUBSET T \subseteq G
  <2>1. \A U \in SUBSET T : \A x \in T \ U : U \in G => U \cup {x} \in G
    BY <1>4
  <2> QED BY ONLY IsFiniteSet(T), <1>3, <2>1, SubsetGrowth
<1> QED BY <1>5 DEF G, Sum

(* The sum of differences is the difference of the sums. *)
LEMMA SumOfDifferences ==
  ASSUME NEW S, IsFiniteSet(S),
         NEW v, S \subseteq DOMAIN v, \A i \in S : v[i] \in Int,
         NEW w, S \subseteq DOMAIN w, \A i \in S : w[i] \in Int,
         NEW d, S \subseteq DOMAIN d, \A i \in S : d[i] = v[i] - w[i]
  PROVE  SumFunctionOnSet(d, S) = SumFunctionOnSet(v, S) - SumFunctionOnSet(w, S)
<1> DEFINE G == {T \in SUBSET S : SumFunctionOnSet(d, T) = SumFunctionOnSet(v, T) - SumFunctionOnSet(w, T)}
<1>1. {} \in G
  BY SumOfNone
<1>2. ASSUME NEW T \in SUBSET S, NEW x \in S \ T, T \in G PROVE T \cup {x} \in G
  <2>1. IsFiniteSet(T)
    BY FS_Subset
  <2>2. \A i \in S : d[i] \in Int
    OBVIOUS
  <2>3. /\ SumFunctionOnSet(d, T \cup {x}) = SumFunctionOnSet(d, T) + d[x]
        /\ SumFunctionOnSet(v, T \cup {x}) = SumFunctionOnSet(v, T) + v[x]
        /\ SumFunctionOnSet(w, T \cup {x}) = SumFunctionOnSet(w, T) + w[x]
    BY <2>1, <2>2, SumAddElement
  <2>4. /\ SumFunctionOnSet(v, T) \in Int /\ SumFunctionOnSet(w, T) \in Int
        /\ v[x] \in Int /\ w[x] \in Int /\ d[x] = v[x] - w[x]
    BY <2>1, SumType
  <2>5. SumFunctionOnSet(d, T) = SumFunctionOnSet(v, T) - SumFunctionOnSet(w, T)
    BY <1>2
  <2> QED BY <2>3, <2>4, <2>5
<1> HIDE DEF G
<1>3. SUBSET S \subseteq G
  BY <1>1, <1>2, SubsetGrowth
<1> QED BY <1>3 DEF G

-----------------------------------------------------------------------------
(* Maxima. *)

(* Some number in a finite set is as large as any. *)
LEMMA FiniteMaximum ==
  ASSUME NEW S, IsFiniteSet(S), S # {}, S \subseteq Int
  PROVE  \E m \in S : \A n \in S : n <= m
<1> DEFINE G == {T \in SUBSET S : T # {} => \E m \in T : \A n \in T : n <= m}
<1>1. {} \in G
  OBVIOUS
<1>2. ASSUME NEW T \in SUBSET S, NEW x \in S \ T, T \in G PROVE T \cup {x} \in G
  <2>1. CASE T = {}
    BY <2>1
  <2>2. CASE T # {}
    <3>1. PICK m \in T : \A n \in T : n <= m
      BY <1>2, <2>2
    <3>2. m \in Int /\ x \in Int
      OBVIOUS
    <3>3. CASE x <= m
      BY <3>1, <3>3
    <3>4. CASE m < x
      <4>1. \A n \in T \cup {x} : n <= x
        BY <3>1, <3>2, <3>4
      <4> QED BY <4>1
    <3> QED BY <3>2, <3>3, <3>4
  <2> QED BY <2>1, <2>2
<1> HIDE DEF G
<1>3. SUBSET S \subseteq G
  BY <1>1, <1>2, SubsetGrowth
<1> QED BY <1>3 DEF G

(* What v gives for each class of D is the sum over the elements of S that *)
(* c puts in it.                                                           *)
SumsClasses(v, D, c, w, S) ==
  /\ \A i \in S : c[i] \in D
  /\ \A d \in D : v[d] = SumFunctionOnSet(w, {i \in S : c[i] = d})

(* The sum over the values that c takes on S of the sums over the elements *)
(* of each value is the sum over S.                                        *)
LEMMA SumOfClasses ==
  ASSUME NEW S, NEW w, NEW c, NEW D, NEW v, SumsClasses(v, D, c, w, S),
         IsFiniteSet(S), S \subseteq DOMAIN w, \A i \in S : w[i] \in Int,
         IsFiniteSet(D), D \subseteq DOMAIN v
  PROVE  SumFunctionOnSet(v, D) = SumFunctionOnSet(w, S)
<1> DEFINE Of(T) == {i \in S : c[i] \in T}
           G == {T \in SUBSET D : SumFunctionOnSet(v, T) = SumFunctionOnSet(w, Of(T))}
<1>0. /\ \A i \in S : c[i] \in D
      /\ \A d \in D : v[d] = SumFunctionOnSet(w, {i \in S : c[i] = d})
  BY DEF SumsClasses
<1>1. \A T : Of(T) \in SUBSET S
  OBVIOUS
<1>2. ASSUME NEW T \in SUBSET S
      PROVE  /\ IsFiniteSet(T) /\ T \subseteq DOMAIN w /\ \A i \in T : w[i] \in Int
             /\ SumFunctionOnSet(w, T) \in Int
  <2>1. IsFiniteSet(T) /\ T \subseteq DOMAIN w /\ \A i \in T : w[i] \in Int
    BY FS_Subset
  <2> QED BY <2>1, SumType
<1>3. \A d \in D : v[d] \in Int
  <2> SUFFICES ASSUME NEW d \in D PROVE v[d] \in Int
    OBVIOUS
  <2>1. {i \in S : c[i] = d} \in SUBSET S
    OBVIOUS
  <2> QED BY <1>0, <1>2, <2>1
<1>4. {} \in G
  <2>1. Of({}) = {}
    OBVIOUS
  <2> HIDE DEF Of
  <2>2. SumFunctionOnSet(v, {}) = SumFunctionOnSet(w, Of({}))
    BY <2>1, SumOfNone
  <2> QED BY <2>2
<1>5. ASSUME NEW T \in SUBSET D, NEW x \in D \ T, T \in G PROVE T \cup {x} \in G
  <2> DEFINE One == {i \in S : c[i] = x}
             Many == Of(T)
  <2>1. Of(T \cup {x}) = Many \cup One /\ Many \cap One = {} /\ One \in SUBSET S
        /\ Many \in SUBSET S /\ Many \cup One \in SUBSET S
    OBVIOUS
  <2>2. v[x] = SumFunctionOnSet(w, One) /\ SumFunctionOnSet(v, T) = SumFunctionOnSet(w, Many)
    BY <1>0, <1>5
  <2> HIDE DEF One, Many, Of
  <2>3. SumFunctionOnSet(w, Many \cup One) = SumFunctionOnSet(w, Many) + SumFunctionOnSet(w, One)
    BY <1>2, <2>1, SumOfParts
  <2>4. SumFunctionOnSet(v, T \cup {x}) = SumFunctionOnSet(v, T) + v[x]
    <3>1. IsFiniteSet(T) /\ T \cup {x} \subseteq DOMAIN v /\ \A d \in T \cup {x} : v[d] \in Int
      BY <1>3, FS_Subset
    <3> QED BY <3>1, SumAddElement
  <2>5. SumFunctionOnSet(v, T \cup {x}) = SumFunctionOnSet(w, Of(T \cup {x}))
    BY <2>1, <2>2, <2>3, <2>4
  <2> QED BY <2>5
<1>6. Of(D) = S
  BY <1>0
<1> HIDE DEF Of, G
<1>7. SUBSET D \subseteq G
  <2>1. \A T \in SUBSET D : \A x \in D \ T : T \in G => T \cup {x} \in G
    BY <1>5
  <2> QED BY ONLY IsFiniteSet(D), <1>4, <2>1, SubsetGrowth
<1> QED BY <1>6, <1>7 DEF G
-----------------------------------------------------------------------------
(* Folds in an order. *)

(* What holds of zero, and after n of n + 1, holds of every number. *)
LEMMA NaturalGrowth ==
  ASSUME NEW G, 0 \in G, \A n \in Nat : n \in G => n + 1 \in G
  PROVE  Nat \subseteq G
<1> SUFFICES ASSUME NEW n \in Nat, n \notin G PROVE FALSE
  OBVIOUS
<1> DEFINE H == {k \in 0..n : 0..k \subseteq G}
<1>1. IsFiniteSet(H)
  <2>1. IsFiniteSet(0..n) /\ H \in SUBSET (0..n)
    BY FS_Interval
  <2> QED BY <2>1, FS_Subset
<1>2. 0 \in H /\ H \subseteq Int
  OBVIOUS
<1>3. PICK m \in H : \A k \in H : k <= m
  <2> HIDE DEF H
  <2> QED BY <1>1, <1>2, FiniteMaximum
<1>4. m \in 0..n /\ 0..m \subseteq G
  OBVIOUS
<1>5. m # n /\ m + 1 \in 0..n /\ m + 1 \in G
  BY <1>4
<1>6. 0..(m + 1) \subseteq G
  BY <1>4, <1>5
<1>7. m + 1 \in H
  BY <1>5, <1>6
<1> QED BY <1>3, <1>4, <1>7

(* The same of the numbers up to n. *)
LEMMA IntervalGrowth ==
  ASSUME NEW n \in Nat, NEW G, 0 \in G, \A k \in 1..n : k - 1 \in G => k \in G
  PROVE  0..n \subseteq G
<1> DEFINE H == {k \in Nat : k <= n => k \in G}
<1>1. 0 \in H
  OBVIOUS
<1>2. ASSUME NEW k \in Nat, k \in H PROVE k + 1 \in H
  <2>1. CASE k + 1 <= n
    <3>1. k + 1 \in 1..n /\ (k + 1) - 1 = k /\ k \in G
      BY <1>2, <2>1
    <3> QED BY <3>1
  <2>2. CASE ~(k + 1 <= n)
    BY <2>2
  <2> QED BY <2>1, <2>2
<1> HIDE DEF H
<1>3. Nat \subseteq H
  BY <1>1, <1>2, NaturalGrowth
<1> QED BY <1>3 DEF H

(* How f folds the subsets of S by steps that take the element last[T].    *)
TakesFrom(last, S) == \A T \in SUBSET S : T # {} => last[T] \in T

FoldsBy(f, S, last, base, step) ==
  \A T \in SUBSET S : f[T] = IF T = {} THEN base ELSE step[<<f[T \ {last[T]}], last[T]>>]

(* There is a fold over a finite set, whatever element it takes last, as   *)
(* long as its steps stay in a set A.                                      *)
LEMMA FoldExists ==
  ASSUME NEW S, IsFiniteSet(S), NEW last, TakesFrom(last, S),
         NEW A, NEW base \in A, NEW step \in [A \X S -> A]
  PROVE  \E f \in [SUBSET S -> A] : FoldsBy(f, S, last, base, step)
<1> DEFINE Small(k) == {T \in SUBSET S : Cardinality(T) <= k}
           Then(f, T) == step[<<f[T \ {last[T]}], last[T]>>]
           Solves(f, k) == \A T \in Small(k) : f[T] = IF T = {} THEN base ELSE Then(f, T)
           Has(k) == \E f \in [Small(k) -> A] : Solves(f, k)
           G == {k \in Nat : Has(k)}
<1>1. \A T \in SUBSET S : /\ IsFiniteSet(T) /\ Cardinality(T) \in Nat
                          /\ Cardinality(T) <= Cardinality(S)
  BY FS_Subset, FS_CardinalityType
<1>2. Cardinality({}) = 0
  BY FS_EmptySet
<1>3. ASSUME NEW T \in SUBSET S, T # {}, NEW k \in Nat, T \in Small(k + 1)
      PROVE  T \ {last[T]} \in Small(k) /\ last[T] \in S
  <2>1. last[T] \in T
    BY <1>3 DEF TakesFrom
  <2>2. Cardinality(T \ {last[T]}) = Cardinality(T) - 1 /\ Cardinality(T) \in Nat
    BY <1>1, <2>1, FS_RemoveElement
  <2>3. T \ {last[T]} \in SUBSET S /\ Cardinality(T) <= k + 1
    BY <1>3
  <2>4. Cardinality(T \ {last[T]}) <= k
    BY <2>2, <2>3
  <2> QED BY <2>1, <2>3, <2>4
<1>4. ASSUME NEW f, NEW U, f[U] \in A, NEW x \in S
      PROVE  step[<<f[U], x>>] \in A
  BY <1>4
<1>5. 0 \in G
  <2> DEFINE f == [T \in Small(0) |-> base]
  <2>1. \A T \in Small(0) : T = {}
    BY <1>1, FS_EmptySet
  <2>2. Solves(f, 0) /\ f \in [Small(0) -> A]
    BY <2>1
  <2>3. Has(0)
    <3> HIDE DEF Small, Solves, f
    <3> QED BY <2>2
  <2> HIDE DEF Has
  <2> QED BY <2>3
<1>6. ASSUME NEW k \in Nat, k \in G PROVE k + 1 \in G
  <2>1. PICK f \in [Small(k) -> A] : Solves(f, k)
    BY <1>6
  <2> DEFINE g == [T \in Small(k + 1) |-> IF Cardinality(T) <= k THEN f[T] ELSE Then(f, T)]
  <2>2. \A T \in Small(k) : T \in Small(k + 1) /\ g[T] = f[T] /\ f[T] \in A
    BY <1>1
  <2>3. ASSUME NEW T \in Small(k + 1), T # {}
        PROVE  Then(g, T) = Then(f, T) /\ Then(f, T) \in A
    <3> DEFINE U == T \ {last[T]}
    <3>1. T \in SUBSET S
      OBVIOUS
    <3>2. U \in Small(k) /\ last[T] \in S
      <4> HIDE DEF Small
      <4> QED BY <1>3, <2>3, <3>1
    <3> HIDE DEF U, g, Small
    <3>3. g[U] = f[U] /\ f[U] \in A
      BY <2>2, <3>2
    <3>4. step[<<f[U], last[T]>>] \in A
      BY <1>4, <3>2, <3>3
    <3> QED BY <3>3, <3>4 DEF U
  <2>4. ASSUME NEW T \in Small(k + 1)
        PROVE  g[T] = (IF T = {} THEN base ELSE Then(g, T)) /\ g[T] \in A
    <3>1. CASE Cardinality(T) <= k
      <4>1. T \in Small(k)
        BY <3>1
      <4>2. g[T] = f[T] /\ f[T] \in A
        BY <2>2, <4>1
      <4>3. f[T] = IF T = {} THEN base ELSE Then(f, T)
        BY <2>1, <4>1
      <4> HIDE DEF g, Small, Then
      <4> QED BY <2>3, <4>2, <4>3
    <3>2. CASE ~(Cardinality(T) <= k)
      <4>1. T # {}
        <5>1. 0 <= k
          OBVIOUS
        <5> QED BY <1>2, <3>2, <5>1, Zenon
      <4>2. g[T] = Then(f, T)
        BY <3>2
      <4> HIDE DEF g, Small, Then
      <4> QED BY <2>3, <4>1, <4>2
    <3> QED BY <3>1, <3>2
  <2>5. g \in [Small(k + 1) -> A] /\ Solves(g, k + 1)
    <3>1. g = [T \in Small(k + 1) |-> g[T]]
      OBVIOUS
    <3> HIDE DEF g, Small, Then
    <3> QED BY <2>4, <3>1
  <2>6. Has(k + 1)
    <3> HIDE DEF Small, Solves, g
    <3> QED BY <2>5
  <2> HIDE DEF Has
  <2> QED BY <2>6
<1> HIDE DEF G
<1>7. Nat \subseteq G
  <2>1. \A k \in Nat : k \in G => k + 1 \in G
    BY <1>6
  <2> QED BY <1>5, <2>1, NaturalGrowth
<1> DEFINE n == Cardinality(S)
<1>8. n \in G /\ Small(n) = SUBSET S
  BY <1>1, <1>7
<1> HIDE DEF n, Small
<1>9. PICK f \in [Small(n) -> A] : Solves(f, n)
  BY <1>8 DEF G
<1> QED BY <1>8, <1>9 DEF FoldsBy
=============================================================================
