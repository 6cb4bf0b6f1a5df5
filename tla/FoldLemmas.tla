----------------------------- MODULE FoldLemmas -----------------------------
(***************************************************************************)
(* What a recursively defined function computes, for every input.          *)
(*                                                                         *)
(* The folds of the community modules are recursive functions over the     *)
(* subsets of a finite set.  That such a function exists and meets its     *)
(* equation, and whatever is shown of it by induction, comes here from     *)
(* smallest counterexamples: a nonempty set of subsets has a least member. *)
(***************************************************************************)
EXTENDS Integers, Functions, FiniteSets, FiniteSetTheorems, WellFoundedInduction, TLAPS

LEMMA LeastMember ==
  ASSUME NEW S \in SUBSET Nat, S # {}
  PROVE  \E n \in S : \A m \in S : n <= m
<1>1. IsWellFoundedOn(OpToRel(<, Nat), Nat)
  BY NatLessThanWellFounded
<1>2. PICK n \in S : \A m \in S : ~ (<<m, n>> \in OpToRel(<, Nat))
  BY <1>1, WFMin
<1>3. \A m \in S : ~ (m < n)
  BY <1>2 DEF OpToRel
<1> QED
  BY <1>3

LEMMA SmallestSet ==
  ASSUME NEW S, IsFiniteSet(S), NEW Bad \in SUBSET SUBSET S, Bad # {}
  PROVE  \E T \in Bad : \A U \in Bad : U \subseteq T => U = T
<1> DEFINE Sizes == {Cardinality(T) : T \in Bad}
<1>1. PICK n \in Sizes : \A m \in Sizes : n <= m
  <2>1. Sizes \in SUBSET Nat
    BY FS_Subset, FS_CardinalityType
  <2>2. Sizes # {}
    OBVIOUS
  <2> HIDE DEF Sizes
  <2> QED
    BY <2>1, <2>2, LeastMember
<1>2. PICK T \in Bad : n = Cardinality(T)
  BY <1>1
<1>3. ASSUME NEW U \in Bad, U \subseteq T PROVE U = T
  <2>1. IsFiniteSet(T)
    BY FS_Subset
  <2>2. Cardinality(U) <= Cardinality(T) /\ (Cardinality(T) = Cardinality(U) => T = U)
    BY <2>1, <1>3, FS_Subset
  <2>3. n <= Cardinality(U) /\ Cardinality(U) \in Nat /\ Cardinality(T) \in Nat
    BY <1>1, <2>1, <1>3, FS_Subset, FS_CardinalityType
  <2> QED BY <2>2, <2>3, <1>2
<1> QED
  BY <1>3, <1>2

Folds(g, U, d, step, b, V) ==
  /\ g \in [SUBSET U -> V]
  /\ \A T \in SUBSET U : g[T] = IF T = {} THEN b ELSE step[<<d[T], g[T \ {d[T]}]>>]

LEMMA OneFold ==
  ASSUME NEW S, IsFiniteSet(S), NEW d, \A T \in SUBSET S : T # {} => d[T] \in T,
         NEW V, NEW b, NEW step,
         NEW U \in SUBSET S, NEW W \in SUBSET S, NEW g, NEW h,
         Folds(g, U, d, step, b, V), Folds(h, W, d, step, b, V),
         NEW T \in SUBSET (U \cap W)
  PROVE  g[T] = h[T]
<1> DEFINE Bad == {X \in SUBSET (U \cap W) : g[X] # h[X]}
<1>1. SUFFICES ASSUME Bad # {} PROVE FALSE
  OBVIOUS
<1>2. PICK X \in Bad : \A Y \in Bad : Y \subseteq X => Y = X
  <2>1. Bad \in SUBSET SUBSET S
    OBVIOUS
  <2> HIDE DEF Bad
  <2> QED
    BY <2>1, <1>1, SmallestSet
<1>3. CASE X = {}
  BY <1>3 DEF Folds
<1>4. CASE X # {}
  <2> DEFINE Y == X \ {d[X]}
  <2>1. d[X] \in X /\ Y \subseteq X /\ Y # X
    BY <1>4
  <2>2. g[Y] = h[Y]
    BY <2>1, <1>2
  <2> QED
    BY <2>1, <2>2, <1>4 DEF Folds
<1> QED
  BY <1>3, <1>4

LEMMA AFold ==
  ASSUME NEW S, IsFiniteSet(S), NEW d, \A T \in SUBSET S : T # {} => d[T] \in T,
         NEW V, NEW b \in V, NEW step \in [S \X V -> V]
  PROVE  \E g : Folds(g, S, d, step, b, V)
<1> DEFINE Bad == {U \in SUBSET S : ~ \E g : Folds(g, U, d, step, b, V)}
<1>1. SUFFICES ASSUME Bad # {} PROVE FALSE
  OBVIOUS
<1>2. PICK U \in Bad : \A Y \in Bad : Y \subseteq U => Y = U
  <2>1. Bad \in SUBSET SUBSET S
    OBVIOUS
  <2> HIDE DEF Bad
  <2> QED
    BY <2>1, <1>1, SmallestSet
<1> DEFINE On(T) == CHOOSE g : Folds(g, T, d, step, b, V)
           g == [T \in SUBSET U |-> IF T = {} THEN b
                  ELSE step[<<d[T], On(T \ {d[T]})[T \ {d[T]}]>>]]
<1>3. \A T \in SUBSET U : T # U => Folds(On(T), T, d, step, b, V)
  BY <1>2
<1>4. ASSUME NEW T \in SUBSET U, T # U PROVE g[T] = On(T)[T]
  <2> HIDE DEF On
  <2> DEFINE Y == T \ {d[T]}
  <2>1. CASE T = {}
    BY <2>1, <1>3, <1>4 DEF Folds
  <2>2. CASE T # {}
    <3>1. d[T] \in T /\ Y \in SUBSET T /\ Y # U /\ Y \in SUBSET U
      BY <2>2, <1>4
    <3>2. Folds(On(T), T, d, step, b, V) /\ Folds(On(Y), Y, d, step, b, V)
      BY <1>3, <1>4, <3>1
    <3>3. T \in SUBSET S /\ Y \in SUBSET S /\ Y \in SUBSET (T \cap Y)
      BY <3>1
    <3> HIDE DEF Y
    <3>5. On(T)[Y] = On(Y)[Y]
      BY <3>2, <3>3, OneFold
    <3>4. On(T)[T] = step[<<d[T], On(T)[Y]>>]
      <4>1. On(T)[T] = step[<<d[T], On(T)[T \ {d[T]}]>>]
        BY <3>2, <2>2 DEF Folds
      <4> QED
        BY <4>1 DEF Y
    <3> QED BY <3>5, <3>4, <2>2 DEF Y
  <2> QED
    BY <2>1, <2>2
<1>5. ASSUME NEW T \in SUBSET U, T # {}
      PROVE  /\ g[T] = step[<<d[T], g[T \ {d[T]}]>>]
             /\ g[T] \in V
  <2> DEFINE Y == T \ {d[T]}
  <2>1. d[T] \in T /\ d[T] \in S /\ Y \in SUBSET U /\ Y # U
    BY <1>5
  <2>2. g[Y] = On(Y)[Y]
    BY <2>1, <1>4
  <2>3. On(Y)[Y] \in V
    <3> HIDE DEF On, Y
    <3>1. Folds(On(Y), Y, d, step, b, V)
      BY <2>1, <1>3
    <3>2. On(Y) \in [SUBSET Y -> V]
      BY <3>1 DEF Folds
    <3> QED
      BY <3>2
  <2>4. g[T] = step[<<d[T], On(Y)[Y]>>]
    BY <1>5
  <2> QED
    BY <2>1, <2>2, <2>3, <2>4
<1>6. g[{}] = b
  OBVIOUS
<1>7. g \in [SUBSET U -> V]
  <2>1. \A T \in SUBSET U : g[T] \in V
    BY <1>5, <1>6
  <2>2. g = [T \in SUBSET U |-> g[T]]
    OBVIOUS
  <2> HIDE DEF g
  <2> QED BY <2>1, <2>2
<1>8. Folds(g, U, d, step, b, V)
  <2> HIDE DEF g
  <2> QED
    BY <1>5, <1>6, <1>7 DEF Folds
<1> QED
  BY <1>8, <1>2

AnyOf(S) == [T \in SUBSET S |-> CHOOSE x \in T : TRUE]
Adding(f, S) == [xv \in S \X Nat |-> f[xv[1]] + xv[2]]
SumIter(f, S) == CHOOSE iter : iter = [s \in SUBSET S |-> IF s = {} THEN 0 ELSE f[CHOOSE x \in s : TRUE] + iter[s \ {CHOOSE x \in s : TRUE}]]

LEMMA SumFolds ==
  ASSUME NEW S, IsFiniteSet(S), NEW f, \A x \in S : f[x] \in Nat
  PROVE  /\ Folds(SumIter(f, S), S, AnyOf(S), Adding(f, S), 0, Nat)
         /\ SumFunctionOnSet(f, S) = SumIter(f, S)[S]
<1>1. Adding(f, S) \in [S \X Nat -> Nat]
  BY DEF Adding
<1>2. \A T \in SUBSET S : T # {} => AnyOf(S)[T] \in T
  BY DEF AnyOf
<1>3. PICK g : Folds(g, S, AnyOf(S), Adding(f, S), 0, Nat)
  BY <1>1, <1>2, AFold
<1>4. g = [s \in SUBSET S |-> IF s = {} THEN 0 ELSE f[CHOOSE x \in s : TRUE] + g[s \ {CHOOSE x \in s : TRUE}]]
  <2>1. ASSUME NEW T \in SUBSET S, T # {}
        PROVE  g[T] = f[CHOOSE x \in T : TRUE] + g[T \ {CHOOSE x \in T : TRUE}]
    BY <2>1, <1>3 DEF Folds, AnyOf, Adding
  <2> QED BY <2>1, <1>3 DEF Folds
<1>5. SumIter(f, S) = [s \in SUBSET S |-> IF s = {} THEN 0 ELSE f[CHOOSE x \in s : TRUE] + SumIter(f, S)[s \ {CHOOSE x \in s : TRUE}]]
  BY <1>4 DEF SumIter
<1>6. SumIter(f, S) = g
  <2> DEFINE h   == SumIter(f, S)
             Bad == {T \in SUBSET S : h[T] # g[T]}
  <2>1. SUFFICES ASSUME Bad # {} PROVE FALSE
    <3> HIDE DEF SumIter
    <3>1. h = [T \in SUBSET S |-> h[T]] /\ g = [T \in SUBSET S |-> g[T]]
      BY <1>4, <1>5
    <3> QED
      BY <3>1
  <2>2. PICK T \in Bad : \A Y \in Bad : Y \subseteq T => Y = T
    <3>1. Bad \in SUBSET SUBSET S
      OBVIOUS
    <3> HIDE DEF Bad
    <3> QED
      BY <3>1, <2>1, SmallestSet
  <2> DEFINE x == CHOOSE x \in T : TRUE
  <2>3. CASE T = {}
    BY <2>3, <1>4, <1>5
  <2>4. CASE T # {}
    <3>1. x \in T
      BY <2>4
    <3>2. h[T \ {x}] = g[T \ {x}]
      BY <3>1, <2>2
    <3>3. h[T] = f[x] + h[T \ {x}] /\ g[T] = f[x] + g[T \ {x}]
      BY <2>4, <1>4, <1>5
    <3> QED
      BY <3>2, <3>3
  <2> QED
    BY <2>3, <2>4
<1>7. SumFunctionOnSet(f, S) = SumIter(f, S)[S]
  BY DEF SumFunctionOnSet, FoldFunctionOnSet, MapThenFoldSet, SumIter
<1> QED BY <1>6, <1>7, <1>3

LEMMA SumUnfolds ==
  ASSUME NEW S, IsFiniteSet(S), NEW f, \A x \in S : f[x] \in Nat, NEW T \in SUBSET S
  PROVE  /\ SumFunctionOnSet(f, T) \in Nat
         /\ T = {} => SumFunctionOnSet(f, T) = 0
         /\ T # {} => \E c \in T : SumFunctionOnSet(f, T) = f[c] + SumFunctionOnSet(f, T \ {c})
<1>1. ASSUME NEW U \in SUBSET S
      PROVE  /\ SumFunctionOnSet(f, U) = SumIter(f, S)[U]
             /\ SumFunctionOnSet(f, U) \in Nat
  <2>1. IsFiniteSet(U)
    BY FS_Subset
  <2>2. /\ Folds(SumIter(f, U), U, AnyOf(U), Adding(f, U), 0, Nat)
        /\ SumFunctionOnSet(f, U) = SumIter(f, U)[U]
    BY <2>1, SumFolds
  <2>3. Folds(SumIter(f, S), S, AnyOf(S), Adding(f, S), 0, Nat)
    BY SumFolds
  <2>4. Folds(SumIter(f, U), U, AnyOf(S), Adding(f, S), 0, Nat)
    <3> DEFINE h == SumIter(f, U)
    <3> HIDE DEF h
    <3>1. ASSUME NEW T1 \in SUBSET U, T1 # {}
          PROVE  h[T1] = Adding(f, S)[<<AnyOf(S)[T1], h[T1 \ {AnyOf(S)[T1]}]>>]
      <4> DEFINE c == CHOOSE x \in T1 : TRUE
      <4>1. c \in T1
        BY <3>1
      <4>2. AnyOf(S)[T1] = c /\ AnyOf(U)[T1] = c
        BY DEF AnyOf
      <4> HIDE DEF c
      <4>3. h[T1 \ {c}] \in Nat /\ h[T1] = Adding(f, U)[<<c, h[T1 \ {c}]>>]
        BY <2>2, <4>2, <3>1 DEF Folds, h
      <4> QED
        BY <4>1, <4>2, <4>3 DEF Adding
    <3> QED
      BY <3>1, <2>2 DEF Folds, h
  <2>5. \A T1 \in SUBSET S : T1 # {} => AnyOf(S)[T1] \in T1
    BY DEF AnyOf
  <2>6. SumIter(f, U)[U] = SumIter(f, S)[U]
    BY <2>3, <2>4, <2>5, OneFold
  <2>7. SumIter(f, U)[U] \in Nat
    BY <2>2 DEF Folds
  <2> QED
    BY <2>2, <2>6, <2>7
<1>2. Folds(SumIter(f, S), S, AnyOf(S), Adding(f, S), 0, Nat)
  BY SumFolds
<1>3. CASE T = {}
  BY <1>1, <1>2, <1>3 DEF Folds
<1>4. CASE T # {}
  <2> DEFINE c == CHOOSE x \in T : TRUE
             U == T \ {c}
  <2>1. c \in T /\ U \in SUBSET S
    BY <1>4
  <2>2. AnyOf(S)[T] = c
    BY DEF AnyOf
  <2> HIDE DEF c
  <2>3. SumIter(f, S)[T] = Adding(f, S)[<<c, SumIter(f, S)[U]>>]
    BY <1>2, <1>4, <2>2 DEF Folds
  <2>4. SumIter(f, S)[U] \in Nat
    BY <1>1, <2>1
  <2>5. SumIter(f, S)[T] = f[c] + SumIter(f, S)[U]
    BY <2>1, <2>3, <2>4 DEF Adding
  <2>6. SumFunctionOnSet(f, T) = f[c] + SumFunctionOnSet(f, U)
    BY <1>1, <2>1, <2>5
  <2> QED
    BY <1>1, <1>4, <2>1, <2>6
<1> QED
  BY <1>3, <1>4

(* Any element may be taken out first. *)
LEMMA SumRemove ==
  ASSUME NEW S, IsFiniteSet(S), NEW f, \A x \in S : f[x] \in Nat, NEW y \in S
  PROVE  SumFunctionOnSet(f, S) = f[y] + SumFunctionOnSet(f, S \ {y})
<1> DEFINE Sum(T) == SumFunctionOnSet(f, T)
           Bad    == {T \in SUBSET S : \E x \in T : Sum(T) # f[x] + Sum(T \ {x})}
<1>1. SUFFICES ASSUME Bad # {} PROVE FALSE
  OBVIOUS
<1>2. PICK T \in Bad : \A U \in Bad : U \subseteq T => U = T
  <2>1. Bad \in SUBSET SUBSET S
    OBVIOUS
  <2> HIDE DEF Bad
  <2> QED
    BY <2>1, <1>1, SmallestSet
<1>3. PICK x \in T : Sum(T) # f[x] + Sum(T \ {x})
  OBVIOUS
<1>4. PICK c \in T : Sum(T) = f[c] + Sum(T \ {c})
  BY <1>3, SumUnfolds
<1>5. x # c
  BY <1>3, <1>4
<1>6. Sum(T \ {c}) = f[x] + Sum((T \ {c}) \ {x})
  <2>1. T \ {c} \notin Bad /\ x \in T \ {c} /\ T \ {c} \in SUBSET S
    BY <1>2, <1>3, <1>4, <1>5
  <2> QED
    BY <2>1
<1>7. Sum(T \ {x}) = f[c] + Sum((T \ {x}) \ {c})
  <2>1. T \ {x} \notin Bad /\ c \in T \ {x} /\ T \ {x} \in SUBSET S
    BY <1>2, <1>3, <1>4, <1>5
  <2> QED
    BY <2>1
<1>8. (T \ {c}) \ {x} = (T \ {x}) \ {c}
  OBVIOUS
<1>9. f[x] \in Nat /\ f[c] \in Nat /\ Sum((T \ {x}) \ {c}) \in Nat
  <2>1. x \in S /\ c \in S /\ (T \ {x}) \ {c} \in SUBSET S
    BY <1>3, <1>4
  <2> QED
    BY <2>1, SumUnfolds
<1> HIDE DEF Sum
<1> DEFINE R == Sum((T \ {x}) \ {c})
<1>10. Sum(T \ {c}) = f[x] + R /\ Sum(T \ {x}) = f[c] + R /\ R \in Nat
  BY <1>6, <1>7, <1>8, <1>9
<1> HIDE DEF R, Bad
<1>11. Sum(T) = f[x] + Sum(T \ {x})
  BY <1>4, <1>9, <1>10
<1> QED
  BY <1>3, <1>11

LEMMA SumMonotone ==
  ASSUME NEW S, IsFiniteSet(S), NEW f, NEW g, \A x \in S : f[x] \in Nat, \A x \in S : g[x] \in Nat,
         \A x \in S : f[x] <= g[x]
  PROVE  SumFunctionOnSet(f, S) <= SumFunctionOnSet(g, S)
<1> DEFINE Bad == {T \in SUBSET S : ~ SumFunctionOnSet(f, T) <= SumFunctionOnSet(g, T)}
<1>1. SUFFICES ASSUME Bad # {} PROVE FALSE
  OBVIOUS
<1>2. PICK T \in Bad : \A U \in Bad : U \subseteq T => U = T
  <2>1. Bad \in SUBSET SUBSET S
    OBVIOUS
  <2> HIDE DEF Bad
  <2> QED
    BY <2>1, <1>1, SmallestSet
<1>3. T \in SUBSET S /\ IsFiniteSet(T)
  BY FS_Subset
<1>4. T # {}
  <2>1. SumFunctionOnSet(f, {}) = 0 /\ SumFunctionOnSet(g, {}) = 0
    <3>1. {} \in SUBSET S
      OBVIOUS
    <3> QED
      BY <3>1, SumUnfolds
  <2> QED
    BY <2>1
<1>5. PICK c \in T : TRUE
  BY <1>4
<1> DEFINE U == T \ {c}
<1>6. /\ SumFunctionOnSet(f, T) = f[c] + SumFunctionOnSet(f, U)
      /\ SumFunctionOnSet(g, T) = g[c] + SumFunctionOnSet(g, U)
  <2>1. (\A x \in T : f[x] \in Nat) /\ (\A x \in T : g[x] \in Nat)
    BY <1>3
  <2> QED
    BY <2>1, <1>3, SumRemove
<1>7. U \in SUBSET S /\ U \subseteq T /\ U # T
  BY <1>3
<1> HIDE DEF U
<1>8. SumFunctionOnSet(f, U) <= SumFunctionOnSet(g, U)
  BY <1>7, <1>2
<1>9. /\ SumFunctionOnSet(f, U) \in Nat /\ SumFunctionOnSet(g, U) \in Nat
      /\ f[c] \in Nat /\ g[c] \in Nat /\ f[c] <= g[c]
  BY <1>3, <1>7, SumUnfolds
<1>10. ~ SumFunctionOnSet(f, T) <= SumFunctionOnSet(g, T)
  OBVIOUS
<1> HIDE DEF Bad
<1> QED
  BY <1>6, <1>8, <1>9, <1>10

(* Only what is not zero counts. *)
LEMMA SumPart ==
  ASSUME NEW S, IsFiniteSet(S), NEW f, \A x \in S : f[x] \in Nat,
         NEW T \in SUBSET S, \A x \in S \ T : f[x] = 0
  PROVE  SumFunctionOnSet(f, S) = SumFunctionOnSet(f, T)
<1> DEFINE Sum(U) == SumFunctionOnSet(f, U)
           Bad    == {U \in SUBSET S : T \subseteq U /\ Sum(U) # Sum(T)}
<1>1. SUFFICES ASSUME Bad # {} PROVE FALSE
  OBVIOUS
<1>2. PICK U \in Bad : \A W \in Bad : W \subseteq U => W = U
  <2>1. Bad \in SUBSET SUBSET S
    OBVIOUS
  <2> HIDE DEF Bad
  <2> QED
    BY <2>1, <1>1, SmallestSet
<1>3. PICK x \in U \ T : TRUE
  OBVIOUS
<1>4. U \ {x} \notin Bad /\ U \ {x} \in SUBSET S /\ T \subseteq U \ {x}
  BY <1>2, <1>3
<1>5. Sum(U \ {x}) = Sum(T)
  BY <1>4
<1>6. Sum(U) = f[x] + Sum(U \ {x}) /\ Sum(U \ {x}) \in Nat
  <2>1. IsFiniteSet(U) /\ x \in U /\ \A y \in U : f[y] \in Nat
    BY <1>3, FS_Subset
  <2>2. U \ {x} \in SUBSET S
    OBVIOUS
  <2>3. Sum(U) = f[x] + Sum(U \ {x})
    BY <2>1, SumRemove
  <2>4. Sum(U \ {x}) \in Nat
    BY <2>2, SumUnfolds
  <2> QED
    BY <2>3, <2>4
<1>7. f[x] = 0
  BY <1>3
<1> HIDE DEF Sum
<1> QED
  BY <1>2, <1>5, <1>6, <1>7

-----------------------------------------------------------------------------
(***************************************************************************)
(* Sets of numbers, and recursion over them.                               *)
(***************************************************************************)
MaxOf == [T \in SUBSET Nat |-> CHOOSE x \in T : \A y \in T : x >= y]

(* A bounded set of naturals has a largest member. *)
LEMMA LargestMember ==
  ASSUME NEW n \in Nat, NEW T \in SUBSET (0 .. n), T # {}
  PROVE  /\ \E x \in T : \A y \in T : x >= y
         /\ MaxOf[T] \in T /\ \A y \in T : MaxOf[T] >= y
<1> DEFINE S == {n - t : t \in T}
<1>1. S \in SUBSET Nat /\ S # {}
  <2>1. \A t \in T : n - t \in Nat
    OBVIOUS
  <2>2. PICK t \in T : TRUE
    OBVIOUS
  <2>3. n - t \in S
    OBVIOUS
  <2> QED BY <2>1, <2>3
<1> HIDE DEF S
<1>2. PICK a \in S : \A b \in S : a <= b
  BY <1>1, LeastMember
<1>3. PICK x \in T : a = n - x
  BY DEF S
<1>4. \A y \in T : x >= y
  <2> SUFFICES ASSUME NEW y \in T PROVE x >= y
    OBVIOUS
  <2>1. n - x <= n - y
    BY <1>2, <1>3 DEF S
  <2> QED BY <2>1
<1>5. T \in SUBSET Nat
  OBVIOUS
<1> QED BY <1>4, <1>5 DEF MaxOf

(* A fold that takes the largest member first, over 1 .. n: one step for   *)
(* every number in turn.                                                   *)
LEMMA PrefixSteps ==
  ASSUME NEW n \in Nat, NEW i \in 1 .. n
  PROVE  /\ 1 .. i \in SUBSET (1 .. n) /\ 1 .. i # {} /\ 1 .. 0 = {}
         /\ MaxOf[1 .. i] = i /\ (1 .. i) \ {i} = 1 .. i - 1
         /\ (CHOOSE x \in 1 .. i : \A y \in 1 .. i : x >= y) = i
<1>1. 1 .. i \in SUBSET (1 .. n) /\ i \in 1 .. i /\ (1 .. i) \ {i} = 1 .. i - 1 /\ 1 .. 0 = {}
  OBVIOUS
<1>2. 1 .. i \in SUBSET (0 .. n) /\ 1 .. i \in SUBSET Nat
  OBVIOUS
<1>3. MaxOf[1 .. i] \in 1 .. i /\ MaxOf[1 .. i] >= i
  BY <1>1, <1>2, LargestMember
<1>4. MaxOf[1 .. i] = CHOOSE x \in 1 .. i : \A y \in 1 .. i : x >= y
  BY <1>2 DEF MaxOf
<1>5. MaxOf[1 .. i] = i
  BY <1>3
<1> QED BY <1>1, <1>4, <1>5

LEMMA MaxChooses ==
  ASSUME NEW n \in Nat
  PROVE  IsFiniteSet(1 .. n) /\ \A T \in SUBSET (1 .. n) : T # {} => MaxOf[T] \in T
<1>1. \A T \in SUBSET (1 .. n) : T # {} => MaxOf[T] \in T
  <2> SUFFICES ASSUME NEW T \in SUBSET (1 .. n), T # {} PROVE MaxOf[T] \in T
    OBVIOUS
  <2>1. T \in SUBSET (0 .. n)
    OBVIOUS
  <2> QED BY <2>1, LargestMember
<1> QED BY <1>1, FS_Interval

(* Induction up to m: P is the set of numbers it is true of.               *)
LEMMA UpTo ==
  ASSUME NEW m \in Nat, NEW P, 0 \in P, \A i \in 1 .. m : i - 1 \in P => i \in P
  PROVE  \A i \in 0 .. m : i \in P
<1> DEFINE Bad == {i \in 0 .. m : i \notin P}
<1>1. SUFFICES ASSUME Bad # {} PROVE FALSE
  OBVIOUS
<1>2. PICK n \in Bad : \A i \in Bad : n <= i
  <2>1. Bad \in SUBSET Nat
    OBVIOUS
  <2> HIDE DEF Bad
  <2> QED BY <1>1, <2>1, LeastMember
<1>3. n \in 1 .. m /\ n - 1 \in 0 .. m /\ ~ n <= n - 1
  OBVIOUS
<1>4. n - 1 \in P
  <2>1. n - 1 \notin Bad
    BY <1>2, <1>3
  <2> QED BY <1>3, <2>1
<1>5. n \in P
  BY <1>3, <1>4
<1> QED BY <1>5

(* A function on the naturals that is given by its first value and a step. *)
LEMMA ARecursion ==
  ASSUME NEW V, NEW b \in V, NEW step \in [V -> V]
  PROVE  \E g \in [Nat -> V] : g[0] = b /\ \A n \in Nat \ {0} : g[n] = step[g[n - 1]]
<1> DEFINE st(n)   == [xv \in (1 .. n) \X V |-> step[xv[2]]]
           all     == [xv \in Nat \X V |-> step[xv[2]]]
           Is(g,n) == Folds(g, 1 .. n, MaxOf, all, b, V)
           On(n)   == CHOOSE g : Is(g, n)
           h       == [n \in Nat |-> On(n)[1 .. n]]
<1>1. ASSUME NEW n \in Nat PROVE Is(On(n), n)
  <2>1. st(n) \in [(1 .. n) \X V -> V]
    OBVIOUS
  <2>2. PICK g : Folds(g, 1 .. n, MaxOf, st(n), b, V)
    <3> HIDE DEF st
    <3> QED BY <2>1, MaxChooses, AFold
  <2>3. ASSUME NEW T \in SUBSET (1 .. n), T # {}
        PROVE  st(n)[<<MaxOf[T], g[T \ {MaxOf[T]}]>>] = all[<<MaxOf[T], g[T \ {MaxOf[T]}]>>]
    <3>1. MaxOf[T] \in 1 .. n /\ g[T \ {MaxOf[T]}] \in V
      BY <2>2, <2>3, MaxChooses DEF Folds
    <3> QED BY <3>1
  <2>4. Is(g, n)
    BY <2>2, <2>3 DEF Folds
  <2> HIDE DEF Is
  <2> QED BY <2>4
<1>2. ASSUME NEW n \in Nat PROVE h[n] \in V
  <2> HIDE DEF On
  <2>1. On(n) \in [SUBSET (1 .. n) -> V]
    BY <1>1 DEF Folds
  <2> QED BY <2>1
<1>3. h[0] = b
  <2> HIDE DEF On
  <2>1. On(0)[{}] = b
    BY <1>1 DEF Folds
  <2> QED BY <2>1
<1>4. ASSUME NEW n \in Nat \ {0} PROVE h[n] = step[h[n - 1]]
  <2> HIDE DEF On
  <2>1. n \in 1 .. n /\ n - 1 \in Nat
    OBVIOUS
  <2>2. On(n)[1 .. n] = all[<<n, On(n)[1 .. n - 1]>>]
    <3>0. 1 .. n \in SUBSET (1 .. n) /\ 1 .. n # {}
      BY <2>1
    <3> HIDE DEF all
    <3>1. On(n)[1 .. n] = all[<<MaxOf[1 .. n], On(n)[(1 .. n) \ {MaxOf[1 .. n]}]>>]
      <4>1. Folds(On(n), 1 .. n, MaxOf, all, b, V)
        BY <1>1, <2>1
      <4> QED BY <3>0, <4>1 DEF Folds
    <3>2. MaxOf[1 .. n] = n /\ (1 .. n) \ {n} = 1 .. n - 1
      BY <2>1, PrefixSteps
    <3> QED BY <3>1, <3>2
  <2>3. On(n)[1 .. n - 1] = On(n - 1)[1 .. n - 1]
    <3> DEFINE A == 1 .. n
               B == 1 .. n - 1
               f == On(n)
               e == On(n - 1)
    <3>1. Folds(f, A, MaxOf, all, b, V)
      BY <1>1, <2>1
    <3>2. Folds(e, B, MaxOf, all, b, V)
      BY <1>1, <2>1
    <3>3. IsFiniteSet(A) 
      BY <2>1, MaxChooses
    <3>4. \A T \in SUBSET A : T # {} => MaxOf[T] \in T
      BY <2>1, MaxChooses
    <3>5. A \in SUBSET A /\ B \in SUBSET A /\ B \in SUBSET (A \cap B)
      BY <2>1
    <3> HIDE DEF all, A, B, f, e
    <3>6. f[B] = e[B]
      BY <3>1, <3>2, <3>3, <3>4, <3>5, OneFold
    <3> QED BY <3>6 DEF f, e, B
  <2>4. On(n)[1 .. n - 1] \in V
    BY <1>2, <2>1, <2>3
  <2>5. On(n)[1 .. n] = step[On(n - 1)[1 .. n - 1]]
    BY <2>2, <2>3, <2>4
  <2> QED BY <2>1, <2>5
<1>5. h \in [Nat -> V]
  BY <1>2
<1> HIDE DEF h
<1> QED BY <1>3, <1>4, <1>5

(* Of finitely many numbered values, the first of the greatest.            *)
IsFirstBest(v, U, i) == i \in U /\ \A j \in U : v[j] <= v[i] /\ (j < i => v[j] < v[i])

LEMMA SmallestWithoutBest ==
  ASSUME NEW S, IsFiniteSet(S), NEW v, S # {}, ~ \E i \in S : IsFirstBest(v, S, i)
  PROVE  \E U \in SUBSET S :
           /\ U # {} /\ ~ \E i \in S : IsFirstBest(v, U, i)
           /\ \A Y \in SUBSET S : Y # {} /\ Y \subseteq U /\ Y # U => \E i \in S : IsFirstBest(v, Y, i)
<1> DEFINE Bad == {U \in SUBSET S : U # {} /\ ~ \E i \in S : IsFirstBest(v, U, i)}
<1>1. Bad # {}
  OBVIOUS
<1>2. PICK U \in Bad : \A Y \in Bad : Y \subseteq U => Y = U
  <2>1. Bad \in SUBSET SUBSET S
    OBVIOUS
  <2> HIDE DEF Bad
  <2> QED BY <1>1, <2>1, SmallestSet
<1> QED BY <1>2

Numbered(v, S) == S \in SUBSET Int /\ \A i \in S : v[i] \in Int

LEMMA FirstOfGreatest ==
  ASSUME NEW S, IsFiniteSet(S), NEW v, Numbered(v, S), S # {}
  PROVE  \E i \in S : IsFirstBest(v, S, i)
<1>1. SUFFICES ASSUME ~ \E i \in S : IsFirstBest(v, S, i) PROVE FALSE
  OBVIOUS
<1>2. PICK U \in SUBSET S :
           /\ U # {} /\ ~ \E i \in S : IsFirstBest(v, U, i)
           /\ \A Y \in SUBSET S : Y # {} /\ Y \subseteq U /\ Y # U => \E i \in S : IsFirstBest(v, Y, i)
  BY <1>1, SmallestWithoutBest
<1>3. PICK x \in U : TRUE
  BY <1>2
<1>4. CASE U = {x}
  <2>1. x \in S /\ IsFirstBest(v, U, x)
    <3>1. x \in Int /\ v[x] \in Int
      BY <1>3 DEF Numbered
    <3> QED BY <1>3, <1>4, <3>1 DEF IsFirstBest
  <2> QED BY <1>2, <2>1
<1>5. CASE U # {x}
  <2>2. PICK i \in S : IsFirstBest(v, U \ {x}, i)
    BY <1>2, <1>3, <1>5
  <2>3. i \in U \ {x} /\ \A j \in U \ {x} : v[j] <= v[i] /\ (j < i => v[j] < v[i])
    BY <2>2 DEF IsFirstBest
  <2>4. i \in Int /\ x \in Int /\ v[i] \in Int /\ v[x] \in Int /\ \A j \in U : v[j] \in Int /\ j \in Int
    BY <1>3, <2>3 DEF Numbered
  <2>5. CASE v[x] > v[i] \/ (v[x] = v[i] /\ x < i)
    <3>1. IsFirstBest(v, U, x)
      BY <1>3, <2>3, <2>4, <2>5 DEF IsFirstBest
    <3> QED BY <1>2, <1>3, <3>1
  <2>6. CASE v[x] < v[i] \/ (v[x] = v[i] /\ i < x)
    <3>1. IsFirstBest(v, U, i)
      BY <2>3, <2>4, <2>6 DEF IsFirstBest
    <3> QED BY <1>2, <3>1
  <2>7. x # i
    BY <2>3
  <2> QED BY <2>4, <2>5, <2>6, <2>7
<1> QED BY <1>4, <1>5

-----------------------------------------------------------------------------
(***************************************************************************)
(* Sorting by the number of those that come before.  R is a strict order   *)
(* in which any two of S are comparable.                                   *)
(***************************************************************************)
StrictOrder(R, S) ==
  /\ \A x \in S : <<x, x>> \notin R
  /\ \A x, y, z \in S : <<x, y>> \in R /\ <<y, z>> \in R => <<x, z>> \in R
  /\ \A x, y \in S : x = y \/ <<x, y>> \in R \/ <<y, x>> \in R

Preceding(R, S, x) == {z \in S : <<z, x>> \in R}

LEMMA FewerBefore ==
  ASSUME NEW S, IsFiniteSet(S), NEW R, StrictOrder(R, S), NEW x \in S, NEW y \in S, <<x, y>> \in R
  PROVE  Cardinality(Preceding(R, S, x)) < Cardinality(Preceding(R, S, y))
<1> DEFINE A == Preceding(R, S, x)
           B == Preceding(R, S, y)
<1>1. A \subseteq B /\ x \in B /\ x \notin A /\ B \in SUBSET S
  BY DEF StrictOrder, Preceding
<1> HIDE DEF A, B
<1>2. IsFiniteSet(B)
  BY <1>1, FS_Subset
<1>3. Cardinality(A) <= Cardinality(B) /\ (Cardinality(A) = Cardinality(B) => A = B)
      /\ IsFiniteSet(A)
  BY <1>1, <1>2, FS_Subset
<1>4. Cardinality(A) \in Nat /\ Cardinality(B) \in Nat /\ A # B
  BY <1>1, <1>2, <1>3, FS_CardinalityType
<1>5. Cardinality(A) < Cardinality(B)
  BY <1>3, <1>4
<1> QED BY <1>5 DEF A, B

LEMMA EveryPlaceTaken ==
  ASSUME NEW S, IsFiniteSet(S), NEW R, StrictOrder(R, S)
  PROVE  /\ Cardinality(S) \in Nat
         /\ \A n \in 1 .. Cardinality(S) : \E x \in S : Cardinality(Preceding(R, S, x)) = n - 1
<1> DEFINE N == Cardinality(S)
           f == [x \in S |-> Cardinality(Preceding(R, S, x)) + 1]
<1>1. N \in Nat
  BY FS_CardinalityType
<1>2. ASSUME NEW x \in S
      PROVE  Cardinality(Preceding(R, S, x)) \in 0 .. N - 1
  <2> DEFINE A == Preceding(R, S, x)
  <2>1. A \in SUBSET S /\ x \notin A
    BY DEF StrictOrder, Preceding
  <2> HIDE DEF A
  <2>2. IsFiniteSet(A) /\ Cardinality(A) <= N /\ (Cardinality(A) = N => A = S)
    BY <2>1, FS_Subset
  <2>3. Cardinality(A) \in Nat /\ A # S
    BY <2>1, <2>2, FS_CardinalityType
  <2>4. Cardinality(A) \in 0 .. N - 1
    BY <1>1, <2>2, <2>3
  <2> QED BY <2>4 DEF A
<1>3. f \in [S -> 1 .. N]
  <2> SUFFICES ASSUME NEW x \in S PROVE Cardinality(Preceding(R, S, x)) + 1 \in 1 .. N
    OBVIOUS
  <2>1. Cardinality(Preceding(R, S, x)) \in 0 .. N - 1
    BY <1>2
  <2> HIDE DEF N
  <2> QED BY <1>1, <2>1
<1>4. ASSUME NEW x \in S, NEW y \in S, x # y PROVE f[x] # f[y]
  <2>1. Cardinality(Preceding(R, S, x)) \in Int /\ Cardinality(Preceding(R, S, y)) \in Int
    BY <1>2
  <2>2. <<x, y>> \in R \/ <<y, x>> \in R
    BY <1>4 DEF StrictOrder
  <2>3. \/ Cardinality(Preceding(R, S, x)) < Cardinality(Preceding(R, S, y))
        \/ Cardinality(Preceding(R, S, y)) < Cardinality(Preceding(R, S, x))
    BY <2>2, FewerBefore
  <2> QED BY <2>1, <2>3
<1> HIDE DEF N
<1>5. f \in Injection(S, 1 .. N)
  <2> HIDE DEF f
  <2> QED BY <1>3, <1>4 DEF Injection, IsInjective
<1>6. IsFiniteSet(1 .. N) /\ Cardinality(1 .. N) = N
  BY <1>1, FS_Interval
<1>7. f \in Surjection(S, 1 .. N)
  <2> HIDE DEF f
  <2> QED BY <1>5, <1>6, FS_Injection DEF N
<1>8. \A n \in 1 .. N : \E x \in S : f[x] = n
  <2> HIDE DEF f
  <2> QED BY <1>7 DEF Surjection
<1>9. ASSUME NEW n \in 1 .. N PROVE \E x \in S : Cardinality(Preceding(R, S, x)) = n - 1
  <2>1. PICK x \in S : f[x] = n
    BY <1>8
  <2>2. Cardinality(Preceding(R, S, x)) + 1 = n /\ Cardinality(Preceding(R, S, x)) \in Int
    BY <1>2, <2>1
  <2>3. Cardinality(Preceding(R, S, x)) = n - 1
    BY <2>2
  <2> QED BY <2>3
<1> QED BY <1>1, <1>9 DEF N
=============================================================================
