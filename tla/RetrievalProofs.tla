-------------------------- MODULE RetrievalProofs --------------------------
(***************************************************************************)
(* Theorems about Retrieval: what a search keeps to whatever the index     *)
(* does meanwhile, and what its algorithms compute for every input: the    *)
(* order of the pool, the gate, the selection by marginal relevance and    *)
(* the window around a hit.                                                *)
(***************************************************************************)
EXTENDS Retrieval, FoldLemmas, SequenceTheorems

-----------------------------------------------------------------------------
(***************************************************************************)
(* Sorting.                                                                *)
(***************************************************************************)
Places(b, S, R) ==
  /\ DOMAIN b = 1 .. Cardinality(S)
  /\ \A n \in DOMAIN b : b[n] \in S /\ Cardinality(Preceding(R, S, b[n])) = n - 1

(* Whatever stands at the place its predecessors leave it is in order, and *)
(* everything stands somewhere.                                            *)
LEMMA InOrder ==
  ASSUME NEW S, IsFiniteSet(S), NEW R, StrictOrder(R, S), NEW b, Places(b, S, R)
  PROVE  /\ \A m, n \in DOMAIN b : m < n => <<b[m], b[n]>> \in R
         /\ \A x \in S : \E n \in DOMAIN b : b[n] = x
<1>0. Cardinality(S) \in Nat
  BY FS_CardinalityType
<1>1. ASSUME NEW m \in DOMAIN b, NEW n \in DOMAIN b, m < n PROVE <<b[m], b[n]>> \in R
  <2>2. m \in Int /\ n \in Int
    BY <1>0 DEF Places
  <2> DEFINE Count(x) == Cardinality(Preceding(R, S, x))
             x == b[m]
             y == b[n]
  <2> HIDE DEF Count
  <2>0. x \in S /\ Count(x) = m - 1 /\ y \in S /\ Count(y) = n - 1
    BY DEF Places, Count
  <2> HIDE DEF x, y
  <2>3. x # y
    BY <1>1, <2>0, <2>2
  <2>1. x \in S /\ y \in S /\ Cardinality(Preceding(R, S, x)) = m - 1
        /\ Cardinality(Preceding(R, S, y)) = n - 1
    BY <2>0 DEF Count
  <2>4. CASE <<y, x>> \in R
    <3>1. Cardinality(Preceding(R, S, y)) < Cardinality(Preceding(R, S, x))
      BY <2>1, <2>4, FewerBefore
    <3>2. n - 1 < m - 1
      BY <2>1, <3>1
    <3> QED BY <1>1, <2>2, <3>2
  <2>5. <<x, y>> \in R \/ <<y, x>> \in R
    BY <2>1, <2>3 DEF StrictOrder
  <2> QED BY <2>4, <2>5 DEF x, y
<1>2. ASSUME NEW x \in S PROVE \E n \in DOMAIN b : b[n] = x
  <2> DEFINE A == Preceding(R, S, x)
             c == Cardinality(A) + 1
             y == b[c]
  <2>1. A \in SUBSET S /\ x \notin A
    BY DEF StrictOrder, Preceding
  <2> HIDE DEF A
  <2>2. IsFiniteSet(A) /\ Cardinality(A) <= Cardinality(S) /\ (Cardinality(A) = Cardinality(S) => A = S)
    BY <2>1, FS_Subset
  <2>3. Cardinality(A) \in Nat /\ A # S
    BY <2>1, <2>2, FS_CardinalityType
  <2>4. c \in DOMAIN b /\ c - 1 = Cardinality(A)
    BY <1>0, <2>2, <2>3 DEF Places
  <2> HIDE DEF c
  <2>5. y \in S /\ Cardinality(Preceding(R, S, y)) = Cardinality(A)
    BY <2>4 DEF Places
  <2> HIDE DEF y
  <2>6. ~ <<x, y>> \in R /\ ~ <<y, x>> \in R
    <3>1. ASSUME <<x, y>> \in R PROVE FALSE
      <4>1. Cardinality(Preceding(R, S, x)) < Cardinality(Preceding(R, S, y))
        BY <2>5, <3>1, FewerBefore
      <4> QED BY <2>3, <2>5, <4>1 DEF A
    <3>2. ASSUME <<y, x>> \in R PROVE FALSE
      <4>1. Cardinality(Preceding(R, S, y)) < Cardinality(Preceding(R, S, x))
        BY <2>5, <3>2, FewerBefore
      <4> QED BY <2>3, <2>5, <4>1 DEF A
    <3> QED BY <3>1, <3>2
  <2>7. x = y
    BY <2>5, <2>6 DEF StrictOrder
  <2> QED BY <2>4, <2>7 DEF y
<1> QED BY <1>1, <1>2

ByIdOrder(S) == {pq \in S \X S : pq[1].id < pq[2].id}

(* Points of different ids are ordered by them.                            *)
LEMMA PoolInOrder ==
  ASSUME NEW S, IsFiniteSet(S), \A p \in S : p.id \in Nat, \A p, q \in S : p.id = q.id => p = q
  PROVE  StrictOrder(ByIdOrder(S), S) /\ Places(ById(S), S, ByIdOrder(S))
<1> DEFINE R == ByIdOrder(S)
<1>1. StrictOrder(R, S)
  BY DEF StrictOrder, ByIdOrder
<1>2. ASSUME NEW n \in 1 .. Cardinality(S)
      PROVE  /\ ById(S)[n] \in S
             /\ Cardinality(Preceding(R, S, ById(S)[n])) = n - 1
  <2>1. PICK x \in S : Cardinality(Preceding(R, S, x)) = n - 1
    BY <1>1, EveryPlaceTaken
  <2>2. \A y \in S : Preceding(R, S, y) = {z \in S : z.id < y.id}
    BY DEF ByIdOrder, Preceding
  <2> HIDE DEF R
  <2>3. Cardinality({z \in S : z.id < x.id}) = n - 1
    BY <2>1, <2>2
  <2>4. ById(S)[n] = CHOOSE y \in S : Cardinality({z \in S : z.id < y.id}) = n - 1
    BY DEF ById, Sorted
  <2> DEFINE c == CHOOSE y \in S : Cardinality({z \in S : z.id < y.id}) = n - 1
  <2>5. c \in S /\ Cardinality({z \in S : z.id < c.id}) = n - 1
    BY <2>3
  <2> HIDE DEF c
  <2>6. Preceding(R, S, c) = {z \in S : z.id < c.id}
    BY <2>2, <2>5
  <2>7. ById(S)[n] = c
    BY <2>4 DEF c
  <2> QED BY <2>5, <2>6, <2>7
<1>3. DOMAIN ById(S) = 1 .. Cardinality(S)
  BY DEF ById, Sorted
<1> QED BY <1>1, <1>2, <1>3 DEF Places

RankOrder(sc) == {ij \in (DOMAIN sc) \X (DOMAIN sc) : Before(sc, ij[1], ij[2])}

(* Candidates are ordered by their scores, and by place where those tie.   *)
LEMMA RankInOrder ==
  ASSUME NEW N \in Nat, NEW sc \in [1 .. N -> Nat]
  PROVE  StrictOrder(RankOrder(sc), 1 .. N) /\ Places(Ranking(sc), 1 .. N, RankOrder(sc))
<1> DEFINE S == 1 .. N
           R == RankOrder(sc)
<1>1. StrictOrder(R, S)
  <2>1. DOMAIN sc = S /\ \A i \in S : sc[i] \in Nat /\ i \in Nat
    OBVIOUS
  <2>2. \A i, j \in S : <<i, j>> \in R <=> Before(sc, i, j)
    BY <2>1 DEF RankOrder
  <2> HIDE DEF R, S
  <2>3. \A x \in S : <<x, x>> \notin R
    BY <2>1, <2>2 DEF Before
  <2>4. ASSUME NEW x \in S, NEW y \in S, NEW z \in S, <<x, y>> \in R, <<y, z>> \in R PROVE <<x, z>> \in R
    <3>1. Before(sc, x, y) /\ Before(sc, y, z)
      BY <2>2, <2>4
    <3>2. Before(sc, x, z)
      BY <2>1, <3>1 DEF Before
    <3> QED BY <2>2, <3>2
  <2>5. ASSUME NEW x \in S, NEW y \in S, x # y PROVE <<x, y>> \in R \/ <<y, x>> \in R
    <3>1. Before(sc, x, y) \/ Before(sc, y, x)
      BY <2>1, <2>5 DEF Before
    <3> QED BY <2>2, <3>1
  <2> QED BY <2>3, <2>4, <2>5 DEF StrictOrder
<1>2. IsFiniteSet(S) /\ Cardinality(S) = N /\ DOMAIN sc = S
  BY FS_Interval
<1>5. \A i \in 1 .. Cardinality(S) : \E x \in S : Cardinality(Preceding(R, S, x)) = i - 1
  <2>1. IsFiniteSet(S)
    BY <1>2
  <2> HIDE DEF R, S
  <2> QED BY <1>1, <2>1, EveryPlaceTaken
<1>3. ASSUME NEW n \in 1 .. Cardinality(S)
      PROVE  /\ Ranking(sc)[n] \in S
             /\ Cardinality(Preceding(R, S, Ranking(sc)[n])) = n - 1
  <2>2. \A y \in S : Preceding(R, S, y) = {z \in S : Before(sc, z, y)}
    BY <1>2 DEF RankOrder, Preceding
  <2>0. n \in 1 .. Cardinality(S)
    OBVIOUS
  <2> HIDE DEF R, S
  <2>1. PICK x \in S : Cardinality(Preceding(R, S, x)) = n - 1
    BY <1>5, <2>0
  <2>3. Cardinality({z \in S : Before(sc, z, x)}) = n - 1
    BY <2>1, <2>2
  <2>4. Ranking(sc)[n] = CHOOSE y \in S : Cardinality({z \in S : Before(sc, z, y)}) = n - 1
    BY <1>2, <1>3 DEF Ranking, Sorted
  <2> DEFINE c == CHOOSE y \in S : Cardinality({z \in S : Before(sc, z, y)}) = n - 1
  <2>5. c \in S /\ Cardinality({z \in S : Before(sc, z, c)}) = n - 1
    BY <2>3
  <2> HIDE DEF c
  <2>6. Preceding(R, S, c) = {z \in S : Before(sc, z, c)}
    BY <2>2, <2>5
  <2>7. Ranking(sc)[n] = c
    BY <2>4 DEF c
  <2> QED BY <2>5, <2>6, <2>7
<1>4. DOMAIN Ranking(sc) = 1 .. Cardinality(S)
  BY <1>2 DEF Ranking, Sorted
<1> QED BY <1>1, <1>3, <1>4 DEF Places

-----------------------------------------------------------------------------
(***************************************************************************)
(* Widening.                                                               *)
(***************************************************************************)
Alone(p) == [places |-> {p.nr}, words |-> Meta(p).words]

TakeIter(p, at) ==
  CHOOSE iter : iter = [s \in SUBSET (DOMAIN Nearest(p)) |->
    IF s = {} THEN Alone(p) ELSE Take(iter[s \ {Max(s)}], Nearest(p)[Max(s)], at)]

ChosenOf(p, at) ==
  FoldLeft(LAMBDA c, n : Take(c, n, at), [places |-> {p.nr}, words |-> Meta(p).words], Nearest(p))

LEMMA WindowOf ==
  ASSUME NEW p, NEW at
  PROVE  /\ Window(p, at) = {at[n] : n \in ChosenOf(p, at).places}
         /\ ChosenOf(p, at) = TakeIter(p, at)[DOMAIN Nearest(p)]
<1>1. Window(p, at) = {at[n] : n \in ChosenOf(p, at).places}
  BY DEF Window, ChosenOf
<1>2. ChosenOf(p, at) = TakeIter(p, at)[DOMAIN Nearest(p)]
  BY DEF ChosenOf, TakeIter, FoldLeft, MapThenFoldSet, Alone
<1> QED BY <1>1, <1>2

PickIter(rel, sim, One, LN, LD) ==
  CHOOSE pick : pick = [n \in Nat |->
          IF n = 0 THEN <<>>
          ELSE LET q      == pick[n - 1]
                   picked == {q[m] : m \in DOMAIN q}
                   rest   == DOMAIN rel \ picked IN
               IF rest = {} THEN q
               ELSE Append(q, BestOf([i \in rest |->
                      Marginal(rel, sim, i, picked, One, LN, LD)]))]

LEMMA MmrOf ==
  ASSUME NEW rel, NEW sim, NEW n, NEW One, NEW LN, NEW LD
  PROVE  Mmr(rel, sim, n, One, LN, LD) = IF n <= 0 THEN <<>> ELSE PickIter(rel, sim, One, LN, LD)[n]
BY DEF Mmr, PickIter

Laid(p, at) ==
  /\ p \in Point /\ p.nr \in DOMAIN at /\ at[p.nr] = p
  /\ \A n \in DOMAIN at : n \in Int /\ at[n] \in Point /\ at[n].nr = n

Choice(at) == [places : SUBSET DOMAIN at, words : Nat]

(* The neighbours' places, each of them once.                              *)
LEMMA NearestPlaces ==
  ASSUME NEW p, p.nr \in Int
  PROVE  /\ DOMAIN Nearest(p) = 1 .. 2 * Expand /\ 2 * Expand \in Nat
         /\ \A n \in 1 .. 2 * Expand : /\ Nearest(p)[n] \in p.nr - Expand .. p.nr + Expand
                                       /\ Nearest(p)[n] # p.nr
         /\ \A m, n \in 1 .. 2 * Expand : m < n => Nearest(p)[m] # Nearest(p)[n]
<1>1. Expand \in Nat
  BY RetrievalAssumption
<1>2. ASSUME NEW n \in 1 .. 2 * Expand
      PROVE  /\ n % 2 = 1 => \E i \in 1 .. Expand : n = 2 * i - 1 /\ Nearest(p)[n] = p.nr - i
             /\ n % 2 # 1 => \E i \in 1 .. Expand : n = 2 * i /\ Nearest(p)[n] = p.nr + i
  <2>1. CASE n % 2 = 1
    <3>1. (n + 1) \div 2 \in 1 .. Expand /\ n = 2 * ((n + 1) \div 2) - 1
      BY <1>1, <2>1
    <3> QED BY <2>1, <3>1 DEF Nearest
  <2>2. CASE n % 2 # 1
    <3>1. n \div 2 \in 1 .. Expand /\ n = 2 * (n \div 2)
      BY <1>1, <2>2
    <3> QED BY <2>2, <3>1 DEF Nearest
  <2> QED BY <2>1, <2>2
<1>3. DOMAIN Nearest(p) = 1 .. 2 * Expand
  BY DEF Nearest
<1>4. ASSUME NEW n \in 1 .. 2 * Expand
      PROVE Nearest(p)[n] \in p.nr - Expand .. p.nr + Expand /\ Nearest(p)[n] # p.nr
  <2>1. PICK i \in 1 .. Expand : Nearest(p)[n] = p.nr - i \/ Nearest(p)[n] = p.nr + i
    BY <1>2
  <2> QED BY <1>1, <2>1
<1>5. ASSUME NEW m \in 1 .. 2 * Expand, NEW n \in 1 .. 2 * Expand, m < n
      PROVE  Nearest(p)[m] # Nearest(p)[n]
  <2>1. PICK i \in 1 .. Expand : \/ m = 2 * i - 1 /\ Nearest(p)[m] = p.nr - i
                                 \/ m = 2 * i /\ Nearest(p)[m] = p.nr + i
    BY <1>2
  <2>2. PICK j \in 1 .. Expand : \/ n = 2 * j - 1 /\ Nearest(p)[n] = p.nr - j
                                 \/ n = 2 * j /\ Nearest(p)[n] = p.nr + j
    BY <1>2
  <2> QED BY <1>1, <1>5, <2>1, <2>2
<1> QED BY <1>1, <1>3, <1>4, <1>5

LEMMA TakeType ==
  ASSUME NEW p, NEW at, Laid(p, at), NEW c \in Choice(at), NEW n
  PROVE  Take(c, n, at) \in Choice(at)
<1>1. CASE n \in DOMAIN at /\ Fits(c.words, Meta(at[n]).words)
  <2>1. Meta(at[n]).words \in Nat /\ c.words \in Nat /\ c.places \in SUBSET DOMAIN at
    BY <1>1, PointAssumption DEF Laid, Choice, Meta
  <2>2. c.words + Meta(at[n]).words \in Nat /\ c.places \cup {n} \in SUBSET DOMAIN at
    BY <1>1, <2>1
  <2> QED BY <1>1, <2>2 DEF Take, Choice
<1>2. CASE ~ (n \in DOMAIN at /\ Fits(c.words, Meta(at[n]).words))
  BY <1>2 DEF Take
<1> QED BY <1>1, <1>2

(* Neighbours are taken one after the other, the nearest first.            *)
LEMMA ChosenSteps ==
  ASSUME NEW p, NEW at, Laid(p, at)
  PROVE  \E g \in [0 .. 2 * Expand -> Choice(at)] :
           /\ g[0] = Alone(p)
           /\ \A i \in 1 .. 2 * Expand : g[i] = Take(g[i - 1], Nearest(p)[i], at)
           /\ g[2 * Expand] = ChosenOf(p, at)
<1> DEFINE M == 2 * Expand
           S == 1 .. M
           V == Choice(at)
           step == [xv \in S \X V |-> Take(xv[2], Nearest(p)[xv[1]], at)]
           h == TakeIter(p, at)
           g == [i \in 0 .. M |-> h[1 .. i]]
<1>1. p.nr \in Int /\ DOMAIN Nearest(p) = S /\ M \in Nat
  BY NearestPlaces DEF Laid
<1>2. Alone(p) \in V
  BY PointAssumption DEF Laid, Alone, Choice, Meta
<1>3. step \in [S \X V -> V]
  BY TakeType
<1>4. IsFiniteSet(S) /\ \A T \in SUBSET S : T # {} => MaxOf[T] \in T
  <2> HIDE DEF M
  <2> QED BY <1>1, MaxChooses
<1>5. PICK f : Folds(f, S, MaxOf, step, Alone(p), V)
  <2> HIDE DEF S, V, step
  <2> QED BY <1>2, <1>3, <1>4, AFold
<1>6. \A T \in SUBSET S : MaxOf[T] = Max(T)
  <2>1. S \in SUBSET Nat
    BY <1>1
  <2> QED BY <2>1 DEF MaxOf, Max
<1>7. f = [s \in SUBSET S |-> IF s = {} THEN Alone(p) ELSE Take(f[s \ {Max(s)}], Nearest(p)[Max(s)], at)]
  <2>1. ASSUME NEW T \in SUBSET S, T # {}
        PROVE  f[T] = Take(f[T \ {Max(T)}], Nearest(p)[Max(T)], at)
    <3> DEFINE x == MaxOf[T]
               U == T \ {x}
    <3>1. x \in S /\ U \in SUBSET S
      BY <1>4, <2>1
    <3>2. f[U] \in V /\ f[T] = step[<<x, f[U]>>]
      <4> HIDE DEF step, V, S
      <4> QED BY <1>5, <2>1, <3>1 DEF Folds
    <3> HIDE DEF x, V, S
    <3>3. f[T] = Take(f[U], Nearest(p)[x], at)
      BY <3>1, <3>2
    <3> QED BY <1>6, <3>3 DEF x, S
  <2> HIDE DEF S, V, step
  <2> QED BY <1>5, <2>1 DEF Folds
<1>8. h = [s \in SUBSET S |-> IF s = {} THEN Alone(p) ELSE Take(h[s \ {Max(s)}], Nearest(p)[Max(s)], at)]
  BY <1>1, <1>7 DEF TakeIter
<1> HIDE DEF h
<1>9. g[0] = Alone(p)
  <2>1. 1 .. 0 = {} /\ 0 \in 0 .. M
    BY <1>1
  <2>2. {} \in SUBSET S
    OBVIOUS
  <2> QED BY <1>8, <2>1, <2>2
<1>10. ASSUME NEW i \in 1 .. M PROVE g[i] = Take(g[i - 1], Nearest(p)[i], at)
  <2> HIDE DEF M
  <2>1. /\ 1 .. i \in SUBSET S /\ 1 .. i # {} /\ Max(1 .. i) = i /\ (1 .. i) \ {i} = 1 .. i - 1
    BY <1>1, PrefixSteps DEF Max
  <2>2. i \in 0 .. M /\ i - 1 \in 0 .. M
    BY <1>1
  <2> HIDE DEF S
  <2>3. h[1 .. i] = Take(h[1 .. i - 1], Nearest(p)[i], at)
    BY <1>8, <2>1
  <2> QED BY <2>2, <2>3
<1>11. g \in [0 .. M -> V]
  <2> DEFINE P == {i \in 0 .. M : g[i] \in V}
  <2>1. 0 \in P
    BY <1>1, <1>2, <1>9
  <2>2. \A i \in 1 .. M : i - 1 \in P => i \in P
    <3> HIDE DEF V, g, M
    <3> SUFFICES ASSUME NEW i \in 1 .. M, i - 1 \in P PROVE i \in P
      OBVIOUS
    <3>1. g[i] \in V
      BY <1>10, TakeType DEF V
    <3> QED BY <1>1, <3>1
  <2> HIDE DEF P
  <2>3. \A i \in 0 .. M : i \in P
    <3> HIDE DEF M
    <3> QED BY <1>1, <2>1, <2>2, UpTo
  <2> HIDE DEF V
  <2> QED BY <2>3 DEF P
<1>12. g[M] = ChosenOf(p, at)
  <2>1. M \in 0 .. M
    BY <1>1
  <2> HIDE DEF M
  <2> QED BY <1>1, <2>1, WindowOf DEF h
<1> HIDE DEF g, V
<1>13. \A i \in 1 .. M : g[i] = Take(g[i - 1], Nearest(p)[i], at)
  BY <1>10
<1> QED BY <1>9, <1>11, <1>12, <1>13 DEF V

WordCount == [q \in Point |-> Meta(q).words]

WordsOf(S) == SumFunctionOnSet(WordCount, S)

LEMMA WordsAdd ==
  ASSUME NEW S \in SUBSET Point, NEW p \in Point, p \notin S
  PROVE  /\ WordsOf(S) \in Nat /\ WordsOf({}) = 0
         /\ WordsOf(S \cup {p}) = WordsOf(S) + Meta(p).words
<1>1. IsFiniteSet(Point) /\ \A q \in Point : WordCount[q] \in Nat
  BY PointAssumption DEF WordCount, Meta
<1>2. WordsOf(S) \in Nat /\ WordsOf({}) = 0
  <2>1. {} \in SUBSET Point
    OBVIOUS
  <2> QED BY <1>1, <2>1, SumUnfolds DEF WordsOf
<1>3. WordsOf(S \cup {p}) = WordCount[p] + WordsOf((S \cup {p}) \ {p})
  <2> DEFINE T == S \cup {p}
  <2>1. T \in SUBSET Point /\ p \in T
    OBVIOUS
  <2> HIDE DEF T
  <2>2. IsFiniteSet(T) /\ \A q \in T : WordCount[q] \in Nat
    BY <1>1, <2>1, FS_Subset
  <2>3. WordsOf(T) = WordCount[p] + WordsOf(T \ {p})
    BY <2>1, <2>2, SumRemove DEF WordsOf
  <2> QED BY <2>3 DEF T
<1>4. (S \cup {p}) \ {p} = S
  OBVIOUS
<1>5. WordCount[p] = Meta(p).words /\ WordCount[p] \in Nat
  BY <1>1 DEF WordCount
<1> QED BY <1>2, <1>3, <1>4, <1>5

(* What has been taken when the nearest i places have been looked at.      *)
TakenTo(p, at, c, i) ==
  /\ c \in Choice(at) /\ p.nr \in c.places
  /\ c.words = WordsOf({at[n] : n \in c.places})
  /\ c.places = {p.nr} \/ c.words <= ExpandMax
  /\ \A n \in c.places : n = p.nr \/ \E j \in 1 .. i : n = Nearest(p)[j]

LEMMA TakenStep ==
  ASSUME NEW p, NEW at, Laid(p, at), NEW c, NEW i \in 1 .. 2 * Expand, TakenTo(p, at, c, i - 1)
  PROVE  TakenTo(p, at, Take(c, Nearest(p)[i], at), i)
<1> DEFINE n == Nearest(p)[i]
           d == Take(c, n, at)
<1>0. SUFFICES TakenTo(p, at, d, i)
  OBVIOUS
<1>1. c \in Choice(at) /\ c.places \in SUBSET DOMAIN at /\ c.words \in Nat
  BY DEF TakenTo, Choice
<1>2. d \in Choice(at)
  BY <1>1, TakeType
<1>3. p.nr \in Int /\ 2 * Expand \in Nat
  BY NearestPlaces DEF Laid
<1>4. \A m \in c.places : m = p.nr \/ \E j \in 1 .. i : m = Nearest(p)[j]
  <2>1. \A j \in 1 .. i - 1 : j \in 1 .. i
    BY <1>3
  <2> QED BY <2>1 DEF TakenTo
<1>5. CASE n \in DOMAIN at /\ Fits(c.words, Meta(at[n]).words)
  <2>1. d.places = c.places \cup {n} /\ d.words = c.words + Meta(at[n]).words
    BY <1>5 DEF Take
  <2>2. n \notin c.places
    <3>1. n # p.nr /\ \A j \in 1 .. i - 1 : Nearest(p)[j] # n
      <4>1. \A j \in 1 .. i - 1 : j \in 1 .. 2 * Expand /\ j < i
        BY <1>3
      <4> QED BY <1>3, <4>1, NearestPlaces
    <3> QED BY <3>1 DEF TakenTo
  <2>3. d.words <= ExpandMax
    BY <1>5, <2>1 DEF Fits
  <2>4. d.words = WordsOf({at[m] : m \in d.places})
    <3> DEFINE S == {at[m] : m \in c.places}
    <3>1. S \in SUBSET Point /\ at[n] \in Point
      BY <1>1, <1>5 DEF Laid
    <3>2. at[n] \notin S
      <4>1. \A m \in c.places : at[m].nr = m /\ at[n].nr = n
        BY <1>1, <1>5 DEF Laid
      <4> QED BY <2>2, <4>1
    <3>3. {at[m] : m \in d.places} = S \cup {at[n]}
      BY <2>1
    <3>4. c.words = WordsOf(S)
      BY DEF TakenTo
    <3> HIDE DEF S, n, d
    <3> QED BY <2>1, <3>1, <3>2, <3>3, <3>4, WordsAdd
  <2>5. p.nr \in d.places
    BY <2>1 DEF TakenTo
  <2>6. \A m \in d.places : m = p.nr \/ \E j \in 1 .. i : m = Nearest(p)[j]
    <3>1. i \in 1 .. i
      BY <1>3
    <3> QED BY <1>4, <2>1, <3>1
  <2> HIDE DEF d
  <2> QED BY <1>2, <2>3, <2>4, <2>5, <2>6 DEF TakenTo
<1>6. CASE ~ (n \in DOMAIN at /\ Fits(c.words, Meta(at[n]).words))
  <2>1. d = c
    BY <1>6 DEF Take
  <2> HIDE DEF d
  <2> QED BY <1>4, <2>1 DEF TakenTo
<1> HIDE DEF n, d
<1> QED BY <1>5, <1>6

LEMMA Taken ==
  ASSUME NEW p, NEW at, Laid(p, at)
  PROVE  TakenTo(p, at, ChosenOf(p, at), 2 * Expand)
<1> DEFINE M == 2 * Expand
<1>1. p.nr \in Int /\ M \in Nat
  BY NearestPlaces DEF Laid
<1>2. PICK g \in [0 .. M -> Choice(at)] :
           /\ g[0] = Alone(p)
           /\ \A i \in 1 .. M : g[i] = Take(g[i - 1], Nearest(p)[i], at)
           /\ g[M] = ChosenOf(p, at)
  BY ChosenSteps
<1> DEFINE P == {i \in 0 .. M : TakenTo(p, at, g[i], i)}
<1>3. 0 \in P
  <2>1. g[0].places = {p.nr} /\ g[0].words = Meta(p).words /\ g[0] \in Choice(at) /\ 0 \in 0 .. M
    <3>1. 0 \in 0 .. M
      BY <1>1
    <3>2. g[0] \in Choice(at)
      BY <1>2, <3>1
    <3> QED BY <1>2, <3>1, <3>2 DEF Alone
  <2>2. {at[n] : n \in g[0].places} = {} \cup {p}
    BY <2>1 DEF Laid
  <2>3. WordsOf({} \cup {p}) = 0 + Meta(p).words /\ Meta(p).words \in Nat
    <3>1. {} \in SUBSET Point /\ p \in Point /\ p \notin {}
      BY DEF Laid
    <3> QED BY <3>1, WordsAdd, PointAssumption DEF Meta
  <2>4. g[0].words = WordsOf({at[n] : n \in g[0].places})
    <3>1. 0 + Meta(p).words = Meta(p).words
      BY <2>3
    <3> QED BY <2>1, <2>2, <2>3, <3>1
  <2>5. TakenTo(p, at, g[0], 0)
    <3> HIDE DEF M
    <3> QED BY <2>1, <2>4 DEF TakenTo
  <2> QED BY <2>1, <2>5
<1>4. \A i \in 1 .. M : i - 1 \in P => i \in P
  <2> SUFFICES ASSUME NEW i \in 1 .. M, i - 1 \in P PROVE i \in P
    OBVIOUS
  <2>1. TakenTo(p, at, g[i - 1], i - 1)
    OBVIOUS
  <2>2. TakenTo(p, at, g[i], i)
    BY <1>2, <2>1, TakenStep
  <2> QED BY <1>1, <2>2
<1> HIDE DEF P
<1>5. \A i \in 0 .. M : i \in P
  <2> HIDE DEF M
  <2> QED BY <1>1, <1>3, <1>4, UpTo
<1>6. M \in P
  BY <1>1, <1>5
<1> QED BY <1>2, <1>6 DEF P

AddIter(b) ==
  CHOOSE iter : iter = [s \in SUBSET (DOMAIN b) |->
    IF s = {} THEN 0 ELSE iter[s \ {Max(s)}] + Meta(b[Max(s)]).words]

WordsInAll(b) == FoldLeft(LAMBDA t, p : t + Meta(p).words, 0, b)

(* Adding up along a sequence is adding up over what is in it.             *)
LEMMA SequenceWords ==
  ASSUME NEW N \in Nat, NEW b \in [1 .. N -> Point], \A m, n \in 1 .. N : m < n => b[m] # b[n]
  PROVE  WordsInAll(b) = WordsOf({b[i] : i \in 1 .. N})
<1> DEFINE S == 1 .. N
           W(x) == Meta(b[x]).words
           step == [xv \in S \X Nat |-> xv[2] + W(xv[1])]
           h == AddIter(b)
<1>1. DOMAIN b = S /\ WordsInAll(b) = h[S]
  BY DEF WordsInAll, AddIter, FoldLeft, MapThenFoldSet
<1>2. \A x \in S : W(x) \in Nat
  BY PointAssumption DEF Meta
<1> HIDE DEF W
<1>3. step \in [S \X Nat -> Nat]
  BY <1>2
<1>4. IsFiniteSet(S) /\ \A T \in SUBSET S : T # {} => MaxOf[T] \in T
  BY MaxChooses
<1>5. PICK f : Folds(f, S, MaxOf, step, 0, Nat)
  <2>1. 0 \in Nat
    OBVIOUS
  <2> HIDE DEF S, step
  <2> QED BY <1>3, <1>4, <2>1, AFold
<1>6. \A T \in SUBSET S : MaxOf[T] = Max(T)
  <2>1. S \in SUBSET Nat
    OBVIOUS
  <2> QED BY <2>1 DEF MaxOf, Max
<1>7. f = [s \in SUBSET S |-> IF s = {} THEN 0 ELSE f[s \ {Max(s)}] + W(Max(s))]
  <2>1. ASSUME NEW T \in SUBSET S, T # {}
        PROVE  f[T] = f[T \ {Max(T)}] + W(Max(T))
    <3> DEFINE x == MaxOf[T]
               U == T \ {x}
    <3>1. x \in S /\ U \in SUBSET S
      BY <1>4, <2>1
    <3>2. f[U] \in Nat /\ f[T] = step[<<x, f[U]>>]
      <4> HIDE DEF step, S
      <4> QED BY <1>5, <2>1, <3>1 DEF Folds
    <3> HIDE DEF x, S
    <3>3. f[T] = f[U] + W(x)
      BY <3>1, <3>2
    <3> QED BY <1>6, <3>3 DEF x, S
  <2> HIDE DEF S, step
  <2> QED BY <1>5, <2>1 DEF Folds
<1>8. h = [s \in SUBSET S |-> IF s = {} THEN 0 ELSE h[s \ {Max(s)}] + W(Max(s))]
  BY <1>1, <1>7 DEF AddIter, W
<1> HIDE DEF h
<1> DEFINE B(i) == {b[j] : j \in 1 .. i}
           P == {i \in 0 .. N : h[1 .. i] = WordsOf(B(i)) /\ h[1 .. i] \in Nat}
<1>9. 0 \in P
  <2>1. 1 .. 0 = {} /\ {} \in SUBSET S /\ B(0) = {}
    OBVIOUS
  <2>2. h[{}] = 0
    BY <1>8, <2>1
  <2>3. WordsOf({}) = 0
    <3>1. {} \in SUBSET Point
      OBVIOUS
    <3> QED BY <3>1, PointAssumption, SumUnfolds DEF WordsOf, WordCount, Meta
  <2>4. h[1 .. 0] = 0 /\ WordsOf(B(0)) = 0 /\ 0 \in 0 .. N
    <3> HIDE DEF B
    <3> QED BY <2>1, <2>2, <2>3
  <2> HIDE DEF B
  <2> QED BY <2>4
<1>10. ASSUME NEW i \in 1 .. N, i - 1 \in P PROVE i \in P
  <2>1. /\ 1 .. i \in SUBSET S /\ 1 .. i # {} /\ Max(1 .. i) = i /\ (1 .. i) \ {i} = 1 .. i - 1
    BY PrefixSteps DEF Max
  <2>2. h[1 .. i] = h[1 .. i - 1] + W(i)
    BY <1>8, <2>1
  <2>3. B(i - 1) \in SUBSET Point /\ b[i] \in Point /\ b[i] \notin B(i - 1) /\ B(i) = B(i - 1) \cup {b[i]}
    <3>1. \A j \in 1 .. i - 1 : j \in 1 .. N /\ j < i
      OBVIOUS
    <3>2. \A j \in 1 .. i : j = i \/ j \in 1 .. i - 1
      OBVIOUS
    <3>3. i \in 1 .. i /\ \A j \in 1 .. i - 1 : j \in 1 .. i
      OBVIOUS
    <3> QED BY <3>1, <3>2, <3>3
  <2>4. h[1 .. i - 1] = WordsOf(B(i - 1)) /\ h[1 .. i - 1] \in Nat /\ W(i) \in Nat
    BY <1>2, <1>10
  <2>5. WordsOf(B(i)) = WordsOf(B(i - 1)) + W(i)
    <3> HIDE DEF B
    <3> QED BY <2>3, WordsAdd DEF W
  <2> HIDE DEF B
  <2> QED BY <2>2, <2>4, <2>5
<1>11. N \in P
  <2>1. \A i \in 1 .. N : i - 1 \in P => i \in P
    BY <1>10
  <2> HIDE DEF P
  <2>2. \A i \in 0 .. N : i \in P
    BY <1>9, <2>1, UpTo
  <2> QED BY <2>2
<1>12. h[1 .. N] = WordsOf(B(N))
  <2> HIDE DEF B
  <2> QED BY <1>11
<1> HIDE DEF B
<1> QED BY <1>1, <1>12 DEF B

Passage(w) ==
  /\ \A p, q \in w : p.nr = q.nr => p = q
  /\ Expand <= 1 => \E p \in w : {q.nr : q \in w} = p.nr .. p.nr + Cardinality(w) - 1
  /\ Cardinality(w) > 1 => WordsInAll(ById(w)) <= ExpandMax

(* One to three places in a row.                                           *)
LEMMA NoGap ==
  ASSUME NEW n \in Int, NEW N, n \in N, N \in SUBSET (n - 1 .. n + 1)
  PROVE  \E m \in N : N = m .. m + Cardinality(N) - 1
<1>0. \A x \in N : x \in Int /\ (x = n - 1 \/ x = n \/ x = n + 1)
  OBVIOUS
<1>1. \E m \in {n - 1, n}, l \in {n, n + 1} : N = m .. l
  <2>1. CASE n - 1 \in N /\ n + 1 \in N
    <3>0. \A x \in n - 1 .. n + 1 : x = n - 1 \/ x = n \/ x = n + 1
      OBVIOUS
    <3>1. (\A x \in n - 1 .. n + 1 : x \in N) /\ (\A x \in N : x \in n - 1 .. n + 1)
      <4>1. \A x \in n - 1 .. n + 1 : x \in N
        BY <3>0, <2>1
      <4>2. \A x \in N : x \in n - 1 .. n + 1
        BY <1>0, <2>1
      <4> QED BY <4>1, <4>2
    <3>2. N = n - 1 .. n + 1
      BY <3>1
    <3> QED BY <3>2
  <2>2. CASE n - 1 \in N /\ n + 1 \notin N
    <3>0. \A x \in n - 1 .. n : x = n - 1 \/ x = n
      OBVIOUS
    <3>1. (\A x \in n - 1 .. n : x \in N) /\ (\A x \in N : x \in n - 1 .. n)
      <4>1. \A x \in n - 1 .. n : x \in N
        BY <3>0, <2>2
      <4>2. \A x \in N : x \in n - 1 .. n
        BY <1>0, <2>2
      <4> QED BY <4>1, <4>2
    <3>2. N = n - 1 .. n
      BY <3>1
    <3> QED BY <3>2
  <2>3. CASE n - 1 \notin N /\ n + 1 \in N
    <3>0. \A x \in n .. n + 1 : x = n \/ x = n + 1
      OBVIOUS
    <3>1. (\A x \in n .. n + 1 : x \in N) /\ (\A x \in N : x \in n .. n + 1)
      <4>1. \A x \in n .. n + 1 : x \in N
        BY <3>0, <2>3
      <4>2. \A x \in N : x \in n .. n + 1
        BY <1>0, <2>3
      <4> QED BY <4>1, <4>2
    <3>2. N = n .. n + 1
      BY <3>1
    <3> QED BY <3>2
  <2>4. CASE n - 1 \notin N /\ n + 1 \notin N
    <3>0. \A x \in n .. n : x = n
      OBVIOUS
    <3>1. (\A x \in n .. n : x \in N) /\ (\A x \in N : x \in n .. n)
      <4>1. \A x \in n .. n : x \in N
        BY <3>0, <2>4
      <4>2. \A x \in N : x \in n .. n
        BY <1>0, <2>4
      <4> QED BY <4>1, <4>2
    <3>2. N = n .. n
      BY <3>1
    <3> QED BY <3>2
  <2> QED BY <2>1, <2>2, <2>3, <2>4
<1>2. PICK m \in {n - 1, n}, l \in {n, n + 1} : N = m .. l
  BY <1>1
<1>3. Cardinality(N) = l - m + 1
  BY <1>2, FS_Interval
<1>4. m \in N /\ m + Cardinality(N) - 1 = l
  BY <1>2, <1>3
<1> QED BY <1>2, <1>4

(* A hit is widened to one passage around it, from what was found and the  *)
(* hit itself, in place of whatever was found there.                       *)
LEMMA AWindow ==
  ASSUME NEW p \in Point, NEW found \in SUBSET Point, Index!OnePerId(found), NEW at \in ByPlace(p, found)
  PROVE  LET w == Window(p, at) IN
         /\ w \in SUBSET (found \cup {p})
         /\ {q \in w : q.nr = p.nr} = {p}
         /\ Passage(w)
<1> DEFINE c == ChosenOf(p, at)
           w == Window(p, at)
           N == c.places
<1>1. /\ at \in [{q.nr : q \in found} \cup {p.nr} -> found \cup {p}]
      /\ at[p.nr] = p /\ \A n \in DOMAIN at : at[n].nr = n
  BY DEF ByPlace
<1>2. Laid(p, at) /\ p.nr \in Int
  <2>1. \A q \in Point : q.nr \in Int
    BY PointAssumption
  <2>2. \A n \in DOMAIN at : n \in Int /\ at[n] \in Point
    BY <1>1, <2>1
  <2> QED BY <1>1, <2>1, <2>2 DEF Laid
<1>3. TakenTo(p, at, c, 2 * Expand)
  BY <1>2, Taken
<1>4. N \in SUBSET DOMAIN at /\ p.nr \in N /\ w = {at[n] : n \in N}
  <2>1. w = {at[n] : n \in N}
    BY WindowOf
  <2> HIDE DEF c, w
  <2> QED BY <1>3, <2>1 DEF TakenTo, Choice
<1>5. c.words = WordsOf(w) /\ (N = {p.nr} \/ c.words <= ExpandMax)
  <2> HIDE DEF c, w
  <2> QED BY <1>3, <1>4 DEF TakenTo
<1>6. N \in SUBSET (p.nr - Expand .. p.nr + Expand)
  <2>1. Expand \in Nat
    BY RetrievalAssumption
  <2>2. \A j \in 1 .. 2 * Expand : Nearest(p)[j] \in p.nr - Expand .. p.nr + Expand
    BY <1>2, NearestPlaces
  <2>3. p.nr \in p.nr - Expand .. p.nr + Expand
    BY <1>2, <2>1
  <2> HIDE DEF c
  <2> QED BY <1>3, <2>2, <2>3 DEF TakenTo
<1> HIDE DEF c, w, N
<1>7. \A n \in N : at[n] \in found \cup {p} /\ at[n].nr = n
  BY <1>1, <1>4
<1>8. w \in SUBSET (found \cup {p}) /\ p \in w /\ \A q \in w : q.nr \in N /\ at[q.nr] = q
  BY <1>1, <1>4, <1>7
<1>9. {q \in w : q.nr = p.nr} = {p}
  BY <1>1, <1>8
<1>10. \A q, r \in w : q.nr = r.nr => q = r
  BY <1>8
<1>11. {q.nr : q \in w} = N
  <2>1. \A n \in N : at[n] \in w /\ at[n].nr = n
    BY <1>4, <1>7
  <2> QED BY <1>8, <2>1
<1>12. IsFiniteSet(w) /\ w \in SUBSET Point
  <2>1. w \in SUBSET Point
    BY <1>8
  <2> QED BY <2>1, PointAssumption, FS_Subset
<1>13. Cardinality(w) = Cardinality(N) /\ IsFiniteSet(N)
  <2> DEFINE f == [q \in w |-> q.nr]
  <2>1. f \in [w -> N] /\ \A q, r \in w : f[q] = f[r] => q = r
    BY <1>8, <1>10
  <2>2. \A n \in N : \E q \in w : f[q] = n
    BY <1>4, <1>7
  <2>3. f \in Bijection(w, N)
    <3> HIDE DEF f
    <3> QED BY <2>1, <2>2 DEF Bijection, Injection, Surjection, IsInjective
  <2>4. ExistsBijection(w, N)
    BY <2>3 DEF ExistsBijection
  <2> QED BY <1>12, <2>4, FS_Bijection
<1>14. Expand <= 1 => \E q \in w : {r.nr : r \in w} = q.nr .. q.nr + Cardinality(w) - 1
  <2> SUFFICES ASSUME Expand <= 1 PROVE \E q \in w : N = q.nr .. q.nr + Cardinality(N) - 1
    BY <1>11, <1>13
  <2>1. N \in SUBSET (p.nr - 1 .. p.nr + 1)
    <3>1. Expand \in Nat
      BY RetrievalAssumption
    <3> QED BY <1>2, <1>6, <3>1
  <2>2. PICK m \in N : N = m .. m + Cardinality(N) - 1
    BY <1>2, <1>4, <2>1, NoGap
  <2>3. at[m] \in w /\ at[m].nr = m
    BY <1>4, <1>7
  <2> QED BY <2>2, <2>3
<1>15. Cardinality(w) > 1 => WordsInAll(ById(w)) <= ExpandMax
  <2> SUFFICES ASSUME Cardinality(w) > 1 PROVE WordsInAll(ById(w)) <= ExpandMax
    OBVIOUS
  <2>1. N # {p.nr}
    <3>1. Cardinality({p.nr}) = 1
      BY FS_Singleton
    <3> QED BY <1>13, <3>1
  <2>2. \A q \in w : q.id \in Nat
    BY <1>12, PointAssumption
  <2>3. \A q, r \in w : q.id = r.id => q = r
    <3> SUFFICES ASSUME NEW q \in w, NEW r \in w, q.id = r.id PROVE q = r
      OBVIOUS
    <3>1. q.nr = r.nr
      BY <1>12, PointAssumption
    <3> QED BY <1>10, <3>1
  <2>4. StrictOrder(ByIdOrder(w), w) /\ Places(ById(w), w, ByIdOrder(w))
    BY <1>12, <2>2, <2>3, PoolInOrder
  <2> DEFINE b == ById(w)
             C == Cardinality(w)
  <2>5. C \in Nat
    BY <1>12, FS_CardinalityType
  <2>6. DOMAIN b = 1 .. C /\ \A i \in 1 .. C : b[i] \in w
    BY <2>4 DEF Places
  <2>7. /\ \A m, n \in DOMAIN b : m < n => <<b[m], b[n]>> \in ByIdOrder(w)
        /\ \A x \in w : \E n \in DOMAIN b : b[n] = x
    <3> HIDE DEF b
    <3>1. Places(b, w, ByIdOrder(w))
      BY <2>4 DEF b
    <3> QED BY <1>12, <2>4, <3>1, InOrder
  <2>8. b = [i \in 1 .. C |-> b[i]]
    <3>1. b = [i \in DOMAIN b |-> b[i]]
      <4> DEFINE place(n) == CHOOSE x \in w : Cardinality({y \in w : y.id < x.id}) = n - 1
      <4>1. b = [n \in 1 .. Cardinality(w) |-> place(n)]
        BY DEF ById, Sorted
      <4> HIDE DEF place, b
      <4> QED BY <4>1
    <3> HIDE DEF b
    <3> QED BY <2>6, <3>1
  <2> HIDE DEF b, C
  <2>9. b \in [1 .. C -> Point]
    BY <1>12, <2>6, <2>8
  <2>10. \A m, n \in 1 .. C : m < n => b[m] # b[n]
    <3> SUFFICES ASSUME NEW m \in 1 .. C, NEW n \in 1 .. C, m < n PROVE b[m] # b[n]
      OBVIOUS
    <3>1. <<b[m], b[n]>> \in ByIdOrder(w)
      BY <2>6, <2>7
    <3>2. <<b[m], b[m]>> \notin ByIdOrder(w)
      BY <2>4, <2>6 DEF StrictOrder
    <3> QED BY <3>1, <3>2
  <2>11. WordsInAll(b) = WordsOf({b[i] : i \in 1 .. C})
    BY <2>5, <2>9, <2>10, SequenceWords
  <2>12. {b[i] : i \in 1 .. C} = w
    BY <2>6, <2>7
  <2>13. WordsInAll(b) = c.words
    BY <1>5, <2>11, <2>12
  <2> QED BY <1>5, <2>1, <2>13 DEF b
<1> QED BY <1>8, <1>9, <1>10, <1>14, <1>15 DEF w, Passage

-----------------------------------------------------------------------------
(***************************************************************************)
(* The gate.                                                               *)
(***************************************************************************)
Descending(s) == \A i, j \in DOMAIN s : i < j => s[i] >= s[j]

LEMMA Prefix ==
  ASSUME NEW V, NEW s \in Seq(V), NEW n \in 0 .. Len(s)
  PROVE  /\ SubSeq(s, 1, n) \in Seq(V) /\ Len(SubSeq(s, 1, n)) = n
         /\ \A i \in 1 .. n : SubSeq(s, 1, n)[i] = s[i]
<1>1. \A i \in 1 .. n : s[i] \in V
  OBVIOUS
<1>2. /\ SubSeq(s, 1, n) \in Seq(V)
      /\ Len(SubSeq(s, 1, n)) = IF 1 <= n THEN n - 1 + 1 ELSE 0
      /\ \A i \in 1 .. n - 1 + 1 : SubSeq(s, 1, n)[i] = s[1 + i - 1]
  <2>1. 1 \in Int /\ n \in Int
    OBVIOUS
  <2> QED BY <1>1, <2>1, SubSeqProperties
<1> QED BY <1>2

(* What passes the floor is just the candidates that score at least that.  *)
LEMMA WhatSurvives ==
  ASSUME NEW s \in Seq(Nat), Descending(s)
  PROVE  /\ Survivors(s) \in Seq(Nat) /\ Len(Survivors(s)) <= Len(s)
         /\ \A i \in DOMAIN Survivors(s) : Survivors(s)[i] = s[i]
         /\ Descending(Survivors(s))
         /\ \A i \in DOMAIN s : s[i] >= MinScore <=> i <= Len(Survivors(s))
<1> DEFINE T == {i \in DOMAIN s : s[i] >= MinScore}
           m == Cardinality(T)
           r == Survivors(s)
<1>0. MinScore \in Nat /\ Len(s) \in Nat /\ DOMAIN s = 1 .. Len(s) /\ \A i \in DOMAIN s : s[i] \in Nat
  BY GateAssumption
<1>1. \E l \in 0 .. Len(s) : T = 1 .. l
  <2>1. CASE T = {}
    <3>1. T = 1 .. 0 /\ 0 \in 0 .. Len(s)
      BY <1>0, <2>1
    <3> QED BY <3>1
  <2>2. CASE T # {}
    <3>1. T \in SUBSET (0 .. Len(s))
      BY <1>0
    <3> HIDE DEF T
    <3>2. PICK l \in T : \A y \in T : l >= y
      BY <1>0, <2>2, <3>1, LargestMember
    <3>3. l \in 0 .. Len(s) /\ l \in DOMAIN s /\ s[l] >= MinScore
      BY <3>1, <3>2 DEF T
    <3>4. \A i \in 1 .. l : i \in T
      <4> SUFFICES ASSUME NEW i \in 1 .. l PROVE i \in T
        OBVIOUS
      <4>1. i \in DOMAIN s /\ (i = l \/ i < l)
        BY <1>0, <3>3
      <4>2. s[i] >= s[l]
        BY SMTT(30), <1>0, <3>3, <4>1 DEF Descending
      <4> QED BY <1>0, <3>3, <4>1, <4>2 DEF T
    <3>5. \A i \in T : i \in 1 .. l
      BY <1>0, <3>2, <3>3 DEF T
    <3>6. T = 1 .. l
      BY <3>4, <3>5
    <3> QED BY <3>3, <3>6
  <2> QED BY <2>1, <2>2
<1>2. m \in 0 .. Len(s) /\ T = 1 .. m
  <2>1. PICK l \in 0 .. Len(s) : T = 1 .. l
    BY <1>1
  <2> HIDE DEF T
  <2>2. m = l
    BY <1>0, <2>1, FS_Interval
  <2> QED BY <2>1, <2>2
<1>3. r = SubSeq(s, 1, m)
  BY DEF Survivors
<1> HIDE DEF m, r
<1>4. r \in Seq(Nat) /\ Len(r) = m /\ \A i \in 1 .. m : r[i] = s[i]
  BY <1>2, <1>3, Prefix
<1>5. \A i \in DOMAIN r : r[i] = s[i] /\ i \in DOMAIN s
  BY <1>0, <1>2, <1>4
<1>6. Descending(r)
  BY <1>5 DEF Descending
<1>7. \A i \in DOMAIN s : s[i] >= MinScore <=> i <= m
  BY <1>0, <1>2
<1> QED BY <1>0, <1>2, <1>4, <1>5, <1>6, <1>7 DEF r

(* The knee is below a drop at least as steep as the line from the first   *)
(* score to the last.                                                      *)
LEMMA SteepAtKnee ==
  ASSUME NEW s \in Seq(Nat), NEW j \in DOMAIN s, IsKnee(s, j)
  PROVE  /\ j - 1 \in 1 .. Len(s) - 1 /\ Span(s) > 0
         /\ (s[j - 1] - s[j]) * (Len(s) - 1) >= Span(s)
         /\ s[j - 1] > s[j]
<1> DEFINE D == Len(s) - 1
           a == s[1]
           x == s[j - 1]
           y == s[j]
           S == Span(s)
<1>1. /\ Len(s) \in Nat /\ Len(s) >= 3 /\ j \in 2 .. Len(s) - 1
      /\ S > 0 /\ Chord(s, j) > 0
      /\ j - 1 \in Interior(s) => Chord(s, j - 1) < Chord(s, j)
  <2>1. /\ Len(s) >= 3 /\ S > 0 /\ j \in Interior(s) /\ Chord(s, j) > 0
        /\ \A i \in Interior(s) : i < j => Chord(s, i) < Chord(s, j)
    BY DEF IsKnee, IsElbow
  <2>2. j \in 2 .. Len(s) - 1 /\ j - 1 < j
    BY <2>1 DEF Interior
  <2> HIDE DEF S
  <2> QED BY <2>1, <2>2
<1>2. a \in Nat /\ x \in Nat /\ y \in Nat /\ D \in Nat /\ D > 0
  BY SMTT(30), <1>1
<1>3. S \in Int
  BY <1>1 DEF Span
<1>4. Chord(s, j) = (a - y) * D - S * (j - 1) /\ Chord(s, j - 1) = (a - x) * D - S * (j - 2)
  <2>1. j - 1 - 1 = j - 2
    BY <1>1
  <2> QED BY <2>1 DEF Chord
<1>5. (a - x) * D - S * (j - 2) < (a - y) * D - S * (j - 1)
  <2>1. CASE j = 2
    <3>1. a - x = 0 /\ j - 2 = 0
      BY <1>2, <2>1
    <3>2. (a - x) * D - S * (j - 2) = 0
      <4> HIDE DEF a, x, S, D
      <4> QED BY <1>2, <1>3, <3>1
    <3> HIDE DEF a, x, y, S, D
    <3> QED BY <1>1, <1>4, <3>2
  <2>2. CASE j # 2
    <3>1. j - 1 \in Interior(s)
      BY <1>1, <2>2 DEF Interior
    <3> HIDE DEF a, x, y, S, D
    <3> QED BY <1>1, <1>4, <3>1
  <2> QED BY <2>1, <2>2
<1>6. (x - y) * D > S
  <2> HIDE DEF a, x, y, S, D
  <2>0. j \in Int
    BY <1>1
  <2>1. (a - y) * D = a * D - y * D /\ (a - x) * D = a * D - x * D /\ (x - y) * D = x * D - y * D
    BY <1>2
  <2>2. S * (j - 1) = S * j - S /\ S * (j - 2) = S * j - 2 * S
    BY <1>3, <2>0
  <2>3. a * D \in Int /\ y * D \in Int /\ x * D \in Int /\ S * j \in Int
    BY <1>2, <1>3, <2>0
  <2> DEFINE p == a * D
             q == y * D
             r == x * D
             u == S * j
  <2>4. p - r - (u - 2 * S) < p - q - (u - S)
    BY <1>5, <2>1, <2>2
  <2>5. p \in Int /\ q \in Int /\ r \in Int /\ u \in Int /\ (x - y) * D = r - q
    BY <2>1, <2>3
  <2> HIDE DEF p, q, r, u
  <2> QED BY <1>3, <2>4, <2>5
<1>7. x > y
  <2> HIDE DEF a, x, y, S, D
  <2>1. SUFFICES ASSUME x <= y PROVE FALSE
    BY <1>2
  <2>2. x - y <= 0 /\ x - y \in Int
    BY <1>2, <2>1
  <2>3. (x - y) * D <= 0
    BY <1>2, <2>2
  <2>4. (x - y) * D \in Int
    BY <1>2
  <2> QED BY <1>1, <1>3, <1>6, <2>3, <2>4
<1>8. j - 1 \in 1 .. Len(s) - 1
  BY <1>1
<1>9. (x - y) * D >= S
  <2>1. (x - y) * D \in Int
    BY <1>2
  <2> HIDE DEF x, y, S, D
  <2> QED BY <1>3, <1>6, <2>1
<1> QED BY <1>1, <1>7, <1>8, <1>9

(* What the cut leaves: a prefix, not empty, that ends above a drop.       *)
LEMMA WhatIsCut ==
  ASSUME NEW s \in Seq(Nat)
  PROVE  LET n == Len(Cut(s)) IN
         /\ n \in 0 .. Len(s) /\ Cut(s) \in Seq(Nat)
         /\ Len(s) > 0 => n > 0
         /\ n < Len(s) => /\ n > 0
                          /\ (s[n] - s[n + 1]) * (Len(s) - 1) >= Span(s)
                          /\ s[n] > s[n + 1]
<1>1. CASE Armed(s) /\ HasKnee(s)
  <2> DEFINE j == KneeOf(s)
             n == j - 1
  <2>1. j \in DOMAIN s /\ IsKnee(s, j)
    BY <1>1 DEF HasKnee, KneeOf
  <2> HIDE DEF j
  <2>2. /\ n \in 1 .. Len(s) - 1
        /\ (s[n] - s[n + 1]) * (Len(s) - 1) >= Span(s) /\ s[n] > s[n + 1]
    <3>1. n + 1 = j
      BY <2>1
    <3> QED BY <2>1, <3>1, SteepAtKnee
  <2> HIDE DEF n
  <2>3. Cut(s) = SubSeq(s, 1, n)
    BY <1>1 DEF Cut, j, n
  <2>4. n \in 0 .. Len(s) /\ n > 0
    BY <2>2
  <2>5. Len(Cut(s)) = n /\ Cut(s) \in Seq(Nat)
    BY <2>3, <2>4, Prefix
  <2> QED BY <2>2, <2>4, <2>5
<1>2. CASE ~ (Armed(s) /\ HasKnee(s))
  <2>1. Cut(s) = s
    BY <1>2 DEF Cut
  <2> QED BY <2>1
<1> QED BY <1>1, <1>2

(* The gate keeps a prefix, no more than was asked for, and something if   *)
(* anything passes the floor.                                              *)
LEMMA WhatIsKept ==
  ASSUME NEW s \in Seq(Nat), Descending(s), NEW l \in Int
  PROVE  /\ Gate(s, l) \in 0 .. Len(s)
         /\ l > 0 => Gate(s, l) <= l
         /\ l > 0 /\ (\E i \in DOMAIN s : s[i] >= MinScore) => Gate(s, l) > 0
<1> DEFINE r == Survivors(s)
           c == Cut(r)
           m == IF l >= Len(c) THEN Len(c) ELSE IF l >= 0 THEN l
                ELSE IF Len(c) + l > 0 THEN Len(c) + l ELSE 0
<1>1. /\ r \in Seq(Nat) /\ Len(r) <= Len(s) /\ Len(r) \in Nat /\ Len(s) \in Nat
      /\ \A i \in DOMAIN s : s[i] >= MinScore => Len(r) > 0
  <2>1. r \in Seq(Nat) /\ Len(r) <= Len(s) /\ \A i \in DOMAIN s : s[i] >= MinScore <=> i <= Len(r)
    BY WhatSurvives
  <2> HIDE DEF r
  <2>2. Len(r) \in Nat /\ Len(s) \in Nat /\ \A i \in DOMAIN s : i \in Nat /\ i > 0
    BY <2>1
  <2> QED BY <2>1, <2>2
<1> HIDE DEF r
<1>2. c \in Seq(Nat) /\ Len(c) \in 0 .. Len(r) /\ (Len(r) > 0 => Len(c) > 0)
  BY <1>1, WhatIsCut
<1> HIDE DEF c
<1>3. m \in 0 .. Len(c) /\ (l > 0 => m <= l) /\ (l > 0 /\ Len(c) > 0 => m > 0)
  BY SMTT(30), <1>1, <1>2
<1>4. Gate(s, l) = Len(SubSeq(c, 1, m))
  BY DEF Gate, Slice, c, r
<1> HIDE DEF m
<1>5. Gate(s, l) = m
  BY <1>2, <1>3, <1>4, Prefix
<1> QED BY <1>1, <1>2, <1>3, <1>5

-----------------------------------------------------------------------------
(***************************************************************************)
(* The selection by maximal marginal relevance.                            *)
(***************************************************************************)
LEMMA TheGreatest ==
  ASSUME NEW S, NEW x \in S, S \in SUBSET Int, \A y \in S : y <= x
  PROVE  Greatest(S) = x
<1>1. Greatest(S) \in S /\ \A y \in S : y <= Greatest(S)
  BY DEF Greatest
<1>2. Greatest(S) \in Int /\ x \in Int /\ Greatest(S) <= x /\ x <= Greatest(S)
  BY <1>1
<1> QED BY <1>2

(* The greatest of the scores and 0. *)
TopOf(rel) == Greatest({0} \cup {rel[j] : j \in DOMAIN rel})

LEMMA TopIs ==
  ASSUME NEW rel \in Seq(Nat)
  PROVE  TopOf(rel) \in Nat /\ \A j \in DOMAIN rel : rel[j] <= TopOf(rel)
<1> DEFINE D == DOMAIN rel
           S == {0} \cup {rel[j] : j \in D}
<1>1. D = 1 .. Len(rel) /\ Len(rel) \in Nat /\ \A j \in D : rel[j] \in Nat
  OBVIOUS
<1>2. S \in SUBSET Nat /\ 0 \in S /\ \A j \in D : rel[j] \in S
  BY <1>1
<1>3. \E x \in S : \A y \in S : y <= x
  <2>1. CASE D = {}
    <3>1. S = {0}
      BY <2>1
    <3>2. 0 \in S /\ \A y \in S : y <= 0
      BY <3>1
    <3> QED BY <3>2
  <2>2. CASE D # {}
    <3>1. Numbered(rel, D) /\ IsFiniteSet(D)
      BY <1>1, FS_Interval DEF Numbered
    <3> HIDE DEF D
    <3>2. PICK i \in D : IsFirstBest(rel, D, i)
      BY <2>2, <3>1, FirstOfGreatest
    <3>3. \A j \in D : rel[j] <= rel[i]
      BY <3>2 DEF IsFirstBest
    <3>4. rel[i] \in S /\ rel[i] \in Nat
      BY <1>1
    <3>5. \A y \in S : y <= rel[i]
      BY <3>3, <3>4
    <3> QED BY <3>4, <3>5
  <2> QED BY <2>1, <2>2
<1>4. PICK x \in S : \A y \in S : y <= x
  BY <1>3
<1>5. Greatest(S) = x
  <2>1. S \in SUBSET Int
    BY <1>2
  <2> HIDE DEF S
  <2> QED BY <1>4, <2>1, TheGreatest
<1>6. TopOf(rel) = x
  BY <1>5 DEF TopOf
<1> HIDE DEF S
<1> QED BY <1>2, <1>4, <1>6

(* Where similarity is 1 for twins and 0 for others, a candidate is        *)
(* redundant when a twin of it has been picked.                            *)
LEMMA RedundancyIs ==
  ASSUME NEW i, NEW picked, NEW sim, \A j \in picked : sim[<<i, j>>] \in {0, 1}
  PROVE  Redundancy(i, picked, sim) = IF \E j \in picked : sim[<<i, j>>] = 1 THEN 1 ELSE 0
<1> DEFINE S == {0} \cup {sim[<<i, j>>] : j \in picked}
<1>1. CASE \E j \in picked : sim[<<i, j>>] = 1
  <2>0. 1 \in S /\ \A y \in S : y \in {0, 1}
    BY <1>1
  <2>1. 1 \in S /\ S \in SUBSET Int /\ \A y \in S : y <= 1
    <3> HIDE DEF S
    <3> QED BY <2>0
  <2> HIDE DEF S
  <2>2. Greatest(S) = 1
    BY <2>1, TheGreatest
  <2> QED BY <1>1, <2>2 DEF S, Redundancy
<1>2. CASE ~ \E j \in picked : sim[<<i, j>>] = 1
  <2>1. 0 \in S /\ S \in SUBSET Int /\ \A y \in S : y <= 0
    BY <1>2
  <2> HIDE DEF S
  <2>2. Greatest(S) = 0
    BY <2>1, TheGreatest
  <2> QED BY <1>2, <2>2 DEF S, Redundancy
<1> QED BY <1>1, <1>2

(* Of two candidates the one without a picked twin is worth more.          *)
LEMMA FreshIsWorthMore ==
  ASSUME NEW rel \in Seq(Nat), NEW sim, NEW picked, NEW i \in DOMAIN rel, NEW j \in DOMAIN rel,
         \A m \in picked : sim[<<i, m>>] = 0,
         \A m \in picked : sim[<<j, m>>] \in {0, 1},
         \E m \in picked : sim[<<j, m>>] = 1,
         2 * LNum < LDen
  PROVE  Marginal(rel, sim, i, picked, 1, LNum, LDen) > Marginal(rel, sim, j, picked, 1, LNum, LDen)
<1> DEFINE t == TopOf(rel)
           d == IF t = 0 THEN 1 ELSE t
<1>1. LNum \in Nat /\ LDen \in Nat
  BY RetrievalAssumption
<1>2. t \in Nat /\ rel[i] \in Nat /\ rel[j] \in Nat /\ rel[j] <= t
  BY TopIs
<1>3. Redundancy(i, picked, sim) = 0 /\ Redundancy(j, picked, sim) = 1
  BY RedundancyIs
<1>4. /\ Marginal(rel, sim, i, picked, 1, LNum, LDen) = LNum * rel[i] * 1 - (LDen - LNum) * d * 0
      /\ Marginal(rel, sim, j, picked, 1, LNum, LDen) = LNum * rel[j] * 1 - (LDen - LNum) * d * 1
  BY <1>3 DEF Marginal, TopOf
<1> HIDE DEF t
<1>5. d \in Nat /\ d > 0 /\ rel[j] <= d
  BY <1>2
<1> HIDE DEF d
<1> DEFINE a == rel[i]
           b == rel[j]
           u == LNum
           v == LDen - LNum
<1>6. a \in Nat /\ b \in Nat /\ b <= d /\ u \in Nat /\ v \in Nat /\ u < v
  BY <1>1, <1>2, <1>5
<1> HIDE DEF a, b, u, v
<1>7. u * a * 1 - v * d * 0 > u * b * 1 - v * d * 1
  <2>1. u * a >= 0 /\ u * a \in Int /\ u * b \in Int /\ u * d \in Int /\ v * d \in Int
    BY <1>5, <1>6
  <2>2. u * b <= u * d
    BY <1>5, <1>6
  <2>3. u * d < v * d
    BY <1>5, <1>6
  <2>4. u * a * 1 = u * a /\ u * b * 1 = u * b /\ v * d * 0 = 0 /\ v * d * 1 = v * d
    BY <2>1
  <2> QED BY <2>1, <2>2, <2>3, <2>4
<1> QED BY <1>4, <1>7 DEF a, b, u, v

Similar(sim, D) == \A i, j \in D : sim[<<i, j>>] \in {0, 1}

Worth(rel, sim, i, picked) == Marginal(rel, sim, i, picked, 1, LNum, LDen)

LEMMA WorthType ==
  ASSUME NEW rel \in Seq(Nat), NEW sim, Similar(sim, DOMAIN rel), NEW picked \in SUBSET DOMAIN rel, NEW i \in DOMAIN rel
  PROVE  Worth(rel, sim, i, picked) \in Int
<1> DEFINE t == TopOf(rel)
           d == IF t = 0 THEN 1 ELSE t
           e == Redundancy(i, picked, sim)
<1>1. \A j \in picked : sim[<<i, j>>] \in {0, 1}
  BY DEF Similar
<1>2. e \in {0, 1}
  BY <1>1, RedundancyIs
<1>3. t \in Nat /\ rel[i] \in Nat /\ LNum \in Nat /\ LDen \in Nat
  BY TopIs, RetrievalAssumption
<1>4. Worth(rel, sim, i, picked) = LNum * rel[i] * 1 - (LDen - LNum) * d * e
  BY DEF Worth, Marginal, TopOf
<1> HIDE DEF e, t
<1>5. d \in Nat
  BY <1>3
<1> HIDE DEF d
<1>6. LNum * rel[i] * 1 \in Int /\ (LDen - LNum) * d \in Int
  BY <1>3, <1>5
<1>7. (LDen - LNum) * d * e \in Int
  BY <1>2, <1>6
<1> QED BY <1>4, <1>6, <1>7

BestBut(rel, sim, picked) ==
  BestOf([i \in DOMAIN rel \ picked |-> Marginal(rel, sim, i, picked, 1, LNum, LDen)])

NextPick(rel, sim, q) ==
  LET picked == {q[m] : m \in DOMAIN q} IN
  IF DOMAIN rel \ picked = {} THEN q ELSE Append(q, BestBut(rel, sim, picked))

(* What is picked next is worth most of what is left.                      *)
LEMMA BestOfRest ==
  ASSUME NEW rel \in Seq(Nat), NEW sim, Similar(sim, DOMAIN rel), NEW picked \in SUBSET DOMAIN rel,
         DOMAIN rel \ picked # {}
  PROVE  /\ BestBut(rel, sim, picked) \in DOMAIN rel \ picked
         /\ \A i \in DOMAIN rel \ picked :
              Worth(rel, sim, i, picked) <= Worth(rel, sim, BestBut(rel, sim, picked), picked)
<1> DEFINE rest == DOMAIN rel \ picked
           v == [i \in rest |-> Marginal(rel, sim, i, picked, 1, LNum, LDen)]
           b == BestOf(v)
<1>1. rest \in SUBSET (1 .. Len(rel)) /\ Len(rel) \in Nat
  OBVIOUS
<1>2. IsFiniteSet(rest) /\ rest \in SUBSET Int
  <2> HIDE DEF rest
  <2>1. IsFiniteSet(1 .. Len(rel))
    BY <1>1, FS_Interval
  <2>2. rest \in SUBSET Int
    BY <1>1
  <2> QED BY <1>1, <2>1, <2>2, FS_Subset
<1>3. \A i \in rest : v[i] = Worth(rel, sim, i, picked) /\ v[i] \in Int
  BY WorthType DEF Worth
<1>4. DOMAIN v = rest
  OBVIOUS
<1>5. rest # {}
  OBVIOUS
<1> HIDE DEF rest, v
<1>6. PICK x \in rest : IsFirstBest(v, rest, x)
  <2>1. Numbered(v, rest)
    BY <1>2, <1>3 DEF Numbered
  <2> QED BY <1>2, <1>5, <2>1, FirstOfGreatest
<1>7. b \in rest /\ \A j \in rest : v[j] <= v[b]
  <2>1. \E y \in DOMAIN v : \A j \in DOMAIN v : v[j] <= v[y] /\ (j < y => v[j] < v[y])
    BY <1>4, <1>6 DEF IsFirstBest
  <2>2. b \in DOMAIN v /\ \A j \in DOMAIN v : v[j] <= v[b] /\ (j < b => v[j] < v[b])
    BY <2>1 DEF BestOf
  <2> QED BY <1>4, <2>2
<1> HIDE DEF b
<1>8. b \in rest /\ \A i \in rest : Worth(rel, sim, i, picked) <= Worth(rel, sim, b, picked)
  BY <1>3, <1>7
<1>9. b = BestBut(rel, sim, picked)
  BY DEF b, v, rest, BestBut
<1> QED BY <1>8, <1>9 DEF rest

Earlier(q, n) == {q[l] : l \in 1 .. n - 1}

(* Every pick is new, and worth most of what was left when it was made.    *)
FairPicks(rel, sim, q) ==
  /\ q \in Seq(DOMAIN rel)
  /\ \A n \in DOMAIN q :
       /\ q[n] \notin Earlier(q, n)
       /\ \A i \in DOMAIN rel \ Earlier(q, n) :
            Worth(rel, sim, i, Earlier(q, n)) <= Worth(rel, sim, q[n], Earlier(q, n))

LEMMA FairStep ==
  ASSUME NEW rel \in Seq(Nat), NEW sim, Similar(sim, DOMAIN rel), NEW q, FairPicks(rel, sim, q)
  PROVE  FairPicks(rel, sim, NextPick(rel, sim, q)) /\ Len(NextPick(rel, sim, q)) <= Len(q) + 1
<1> DEFINE D == DOMAIN rel
           picked == {q[m] : m \in DOMAIN q}
           b == BestBut(rel, sim, picked)
           r == Append(q, b)
<1>1. q \in Seq(D) /\ picked \in SUBSET D /\ Len(q) \in Nat /\ DOMAIN q = 1 .. Len(q)
  BY DEF FairPicks
<1>2. CASE D \ picked = {}
  <2>1. NextPick(rel, sim, q) = q
    BY <1>2 DEF NextPick
  <2> QED BY <1>1, <2>1
<1>3. CASE D \ picked # {}
  <2>1. NextPick(rel, sim, q) = r
    BY <1>3 DEF NextPick
  <2>2. b \in D \ picked /\ \A i \in D \ picked : Worth(rel, sim, i, picked) <= Worth(rel, sim, b, picked)
    <3> HIDE DEF picked
    <3> QED BY <1>1, <1>3, BestOfRest
  <2> HIDE DEF b
  <2>3. r \in Seq(D) /\ Len(r) = Len(q) + 1 /\ \A n \in 1 .. Len(q) : r[n] = q[n]
    BY <1>1, <2>2
  <2>4. r[Len(q) + 1] = b
    BY <1>1, <2>2
  <2> HIDE DEF r
  <2>5. ASSUME NEW n \in DOMAIN r
        PROVE  /\ r[n] \notin Earlier(r, n)
               /\ \A i \in D \ Earlier(r, n) : Worth(rel, sim, i, Earlier(r, n)) <= Worth(rel, sim, r[n], Earlier(r, n))
    <3>1. n \in 1 .. Len(q) + 1
      BY <1>1, <2>3
    <3>2. CASE n \in 1 .. Len(q)
      <4>1. \A l \in 1 .. n - 1 : l \in 1 .. Len(q)
        BY <1>1, <3>2
      <4>2. Earlier(r, n) = Earlier(q, n)
        BY <2>3, <4>1 DEF Earlier
      <4>3. r[n] = q[n] /\ n \in DOMAIN q
        BY <1>1, <2>3, <3>2
      <4> HIDE DEF D, picked
      <4> QED BY <4>2, <4>3 DEF FairPicks, D
    <3>3. CASE n = Len(q) + 1
      <4>1. Earlier(r, n) = picked
        <5>1. 1 .. n - 1 = 1 .. Len(q)
          BY <1>1, <3>3
        <5> QED BY <1>1, <2>3, <5>1 DEF Earlier
      <4> HIDE DEF D, picked
      <4> QED BY <2>2, <2>4, <3>3, <4>1
    <3> QED BY <1>1, <3>1, <3>2, <3>3
  <2>6. FairPicks(rel, sim, r)
    BY <2>3, <2>5 DEF FairPicks
  <2> QED BY <1>1, <2>1, <2>3, <2>6
<1> QED BY <1>2, <1>3

Scored(rel, sim) == rel \in Seq(Nat) /\ Similar(sim, DOMAIN rel)

LEMMA PickSteps ==
  ASSUME NEW rel, NEW sim, Scored(rel, sim)
  PROVE  LET g == PickIter(rel, sim, 1, LNum, LDen) IN
         g[0] = <<>> /\ \A n \in Nat \ {0} : g[n] = NextPick(rel, sim, g[n - 1])
<1> DEFINE V == {q \in Seq(DOMAIN rel) : FairPicks(rel, sim, q)}
           step == [q \in V |-> NextPick(rel, sim, q)]
<1>1. <<>> \in V
  BY DEF FairPicks
<1>2. step \in [V -> V]
  <2>1. \A q \in V : NextPick(rel, sim, q) \in V
    BY FairStep DEF FairPicks, Scored
  <2> QED BY <2>1
<1>3. PICK f \in [Nat -> V] : f[0] = <<>> /\ \A n \in Nat \ {0} : f[n] = step[f[n - 1]]
  <2> DEFINE none == <<>>
  <2>1. none \in V
    BY <1>1
  <2> HIDE DEF V, step, none
  <2>2. \E f \in [Nat -> V] : f[0] = none /\ \A n \in Nat \ {0} : f[n] = step[f[n - 1]]
    BY <1>2, <2>1, ARecursion
  <2> QED BY <2>2 DEF none
<1>4. \A n \in Nat \ {0} : f[n] = NextPick(rel, sim, f[n - 1])
  <2> SUFFICES ASSUME NEW n \in Nat \ {0} PROVE f[n] = NextPick(rel, sim, f[n - 1])
    OBVIOUS
  <2>1. f[n - 1] \in V
    <3>1. n - 1 \in Nat
      OBVIOUS
    <3> HIDE DEF V
    <3> QED BY <1>3, <3>1
  <2> HIDE DEF V
  <2> QED BY <1>3, <2>1
<1>5. f = [n \in Nat |-> IF n = 0 THEN <<>> ELSE NextPick(rel, sim, f[n - 1])]
  <2>1. f = [n \in Nat |-> f[n]]
    <3> HIDE DEF V
    <3> QED BY <1>3
  <2> QED BY <1>3, <1>4, <2>1
<1> DEFINE g == CHOOSE pick : pick = [n \in Nat |-> IF n = 0 THEN <<>> ELSE NextPick(rel, sim, pick[n - 1])]
<1>6. g = [n \in Nat |-> IF n = 0 THEN <<>> ELSE NextPick(rel, sim, g[n - 1])]
  BY <1>5
<1>7. PickIter(rel, sim, 1, LNum, LDen) = g
  BY DEF PickIter, NextPick, BestBut
<1> HIDE DEF g
<1>8. g[0] = <<>> /\ \A n \in Nat \ {0} : g[n] = NextPick(rel, sim, g[n - 1])
  BY <1>6
<1> QED BY <1>7, <1>8

(* Mmr answers with fair picks, no more than were asked for.               *)
LEMMA MmrPicks ==
  ASSUME NEW rel \in Seq(Nat), NEW sim, Similar(sim, DOMAIN rel), NEW n \in Int
  PROVE  LET q == Mmr(rel, sim, n, 1, LNum, LDen) IN
         FairPicks(rel, sim, q) /\ (n > 0 => Len(q) <= n)
<1> DEFINE g == PickIter(rel, sim, 1, LNum, LDen)
           P == {m \in Nat : FairPicks(rel, sim, g[m]) /\ Len(g[m]) <= m}
<1>1. g[0] = <<>> /\ \A m \in Nat \ {0} : g[m] = NextPick(rel, sim, g[m - 1])
  BY PickSteps DEF Scored
<1>2. FairPicks(rel, sim, <<>>)
  BY DEF FairPicks
<1> HIDE DEF g
<1>3. 0 \in P
  BY <1>1, <1>2
<1>4. ASSUME NEW m \in Nat \ {0}, m - 1 \in P PROVE m \in P
  <2>1. FairPicks(rel, sim, g[m - 1]) /\ Len(g[m - 1]) <= m - 1 /\ g[m] = NextPick(rel, sim, g[m - 1])
    BY <1>1, <1>4
  <2>2. FairPicks(rel, sim, g[m]) /\ Len(g[m]) <= Len(g[m - 1]) + 1
    BY <2>1, FairStep
  <2>3. Len(g[m - 1]) \in Nat /\ Len(g[m]) \in Nat
    BY <2>1, <2>2 DEF FairPicks
  <2> QED BY <2>1, <2>2, <2>3
<1> HIDE DEF P
<1>5. CASE n <= 0
  <2>1. Mmr(rel, sim, n, 1, LNum, LDen) = <<>>
    BY <1>5, MmrOf
  <2> QED BY <1>2, <1>5, <2>1
<1>6. CASE n > 0
  <2>1. Mmr(rel, sim, n, 1, LNum, LDen) = g[n]
    BY <1>6, MmrOf DEF g
  <2>2. n \in Nat /\ n \in 0 .. n /\ \A m \in 1 .. n : m \in Nat \ {0}
    BY <1>6
  <2>3. \A m \in 0 .. n : m \in P
    BY <1>3, <1>4, <2>2, UpTo
  <2>4. n \in P
    BY <2>2, <2>3
  <2> QED BY <2>1, <2>4 DEF P
<1> QED BY <1>5, <1>6

-----------------------------------------------------------------------------
(***************************************************************************)
(* The call.                                                               *)
(***************************************************************************)
Answered == [hit : Point, window : SUBSET Point, calm : BOOLEAN]

AnswerOK(a) ==
  /\ {q \in a.window : q.nr = a.hit.nr} = {a.hit}
  /\ Passage(a.window)
  /\ a.calm => \A p \in a.window : p.content = a.hit.content

IndexOK == /\ target \in Collection \cup {NoCollection} /\ served \in SUBSET Point
           /\ Index!OnePerId(served)

CallOK == /\ pc \in {"idle", "query", "rank", "select", "expand"}
          /\ rerank \in BOOLEAN /\ k \in Int /\ still \in BOOLEAN /\ changes \in 0 .. MaxChanges

PoolOK == /\ pool \in Seq(Point) /\ scores \in Seq(Score)
          /\ pc = "select" => Len(scores) = Len(pool) /\ Descending(scores)

HitsOK == /\ selected \in Seq(Point) /\ answer \in Seq(Answered)
          /\ k > 0 => Len(selected) + Len(answer) <= k
          /\ pc # "expand" => selected = <<>> /\ answer = <<>>

CalmOK == still => /\ \A n \in DOMAIN pool : pool[n] \in served
                   /\ \A n \in DOMAIN selected : selected[n] \in served

AnswersOK == \A n \in DOMAIN answer : AnswerOK(answer[n])

SearchInv == IndexOK /\ CallOK /\ PoolOK /\ HitsOK /\ CalmOK /\ AnswersOK

LEMMA IndexStays ==
  ASSUME IndexOK, Index!Next, served' \in SUBSET Point
  PROVE  Index!OnePerId(served')
<1>1. CASE Index!Change
  <2>1. CASE Index!Publish
    <3>1. PICK p \in Point : (\A q \in served : q.id # p.id) /\ served' = served \cup {p}
      BY <2>1 DEF Index!Publish
    <3> QED BY <3>1 DEF IndexOK, Index!OnePerId
  <2>2. CASE Index!Withdraw
    BY <2>2 DEF Index!Withdraw, IndexOK, Index!OnePerId
  <2>3. CASE Index!Rename
    BY <2>3 DEF Index!Rename
  <2> QED BY <1>1, <2>1, <2>2, <2>3 DEF Index!Change
<1>2. CASE Index!Replace
  BY <1>2 DEF Index!Replace
<1>3. CASE Index!DropLegacy
  BY <1>3 DEF Index!DropLegacy, Index!OnePerId
<1> QED BY <1>1, <1>2, <1>3 DEF Index!Next

LEMMA StartsWell == Init => SearchInv
<1> SUFFICES ASSUME Init PROVE SearchInv
  OBVIOUS
<1>1. IndexOK
  BY RetrievalAssumption DEF Init, Index!Init, IndexOK
<1>2. CallOK
  BY RetrievalAssumption DEF Init, CallOK
<1>3. PoolOK /\ CalmOK
  BY DEF Init, PoolOK, CalmOK
<1>4. HitsOK /\ AnswersOK
  <2>1. selected = <<>> /\ answer = <<>> /\ k \in Int
    BY RetrievalAssumption DEF Init
  <2> QED BY <2>1 DEF HitsOK, AnswersOK
<1> QED BY <1>1, <1>2, <1>3, <1>4 DEF SearchInv

LEMMA IndexChangesOK == SearchInv /\ IndexChanges => SearchInv'
<1> SUFFICES ASSUME SearchInv, IndexChanges PROVE SearchInv'
  OBVIOUS
<1>1. IndexOK'
  BY IndexStays DEF SearchInv, IndexChanges, IndexOK
<1>2. CallOK'
  <2>1. CallOK /\ changes < MaxChanges /\ changes' = changes + 1 /\ still' = FALSE
        /\ pc' = pc /\ rerank' = rerank /\ k' = k
    BY DEF SearchInv, IndexChanges, search
  <2>2. changes' \in 0 .. MaxChanges
    BY <2>1, RetrievalAssumption DEF CallOK
  <2> QED BY <2>1, <2>2 DEF CallOK
<1>3. PoolOK' /\ CalmOK'
  BY DEF SearchInv, IndexChanges, PoolOK, CalmOK, search, Descending
<1>4. HitsOK' /\ AnswersOK'
  BY DEF SearchInv, IndexChanges, HitsOK, AnswersOK, search
<1> QED BY <1>1, <1>2, <1>3, <1>4 DEF SearchInv

LEMMA IdSequence ==
  ASSUME NEW S \in SUBSET Point, Index!OnePerId(S)
  PROVE  ById(S) \in Seq(S) /\ \A n \in DOMAIN ById(S) : ById(S)[n] \in S
<1>1. IsFiniteSet(S) /\ \A p \in S : p.id \in Nat
  BY PointAssumption, FS_Subset
<1>2. Places(ById(S), S, ByIdOrder(S))
  BY <1>1, PoolInOrder DEF Index!OnePerId
<1>3. Cardinality(S) \in Nat
  BY <1>1, FS_CardinalityType
<1> DEFINE place(n) == CHOOSE x \in S : Cardinality({y \in S : y.id < x.id}) = n - 1
           b == ById(S)
<1>4. b = [n \in 1 .. Cardinality(S) |-> place(n)]
  BY DEF ById, Sorted
<1> HIDE DEF place
<1>5. DOMAIN b = 1 .. Cardinality(S) /\ \A n \in DOMAIN b : b[n] \in S
  BY <1>2 DEF Places
<1>6. b = [n \in 1 .. Cardinality(S) |-> b[n]]
  <2> HIDE DEF b
  <2> QED BY <1>4
<1> HIDE DEF b
<1>7. b \in [1 .. Cardinality(S) -> S]
  BY <1>5, <1>6
<1>8. b \in Seq(S)
  BY <1>3, <1>7
<1> QED BY <1>5, <1>8 DEF b

LEMMA QueryPointsOK == SearchInv /\ QueryPoints => SearchInv'
<1> SUFFICES ASSUME SearchInv, QueryPoints PROVE SearchInv'
  OBVIOUS
<1>1. /\ pc = "query" /\ pc' = "rank" /\ still' = TRUE
      /\ UNCHANGED <<target, served, rerank, k, changes, scores, selected, answer>>
  BY DEF QueryPoints, Goes, index
<1>2. PICK found \in SUBSET served : pool' = ById(found)
  BY DEF QueryPoints
<1>3. found \in SUBSET Point /\ Index!OnePerId(found)
  BY DEF SearchInv, IndexOK, Index!OnePerId
<1>4. pool' \in Seq(found) /\ \A n \in DOMAIN pool' : pool'[n] \in found
  BY <1>2, <1>3, IdSequence
<1>5. IndexOK' /\ CallOK'
  BY <1>1 DEF SearchInv, IndexOK, CallOK, Index!OnePerId
<1>6. PoolOK'
  <2>1. pool' \in Seq(Point)
    BY <1>3, <1>4
  <2> QED BY <1>1, <2>1 DEF SearchInv, PoolOK
<1>7. HitsOK' /\ AnswersOK'
  BY <1>1 DEF SearchInv, HitsOK, AnswersOK
<1>8. CalmOK'
  <2>1. selected' = <<>>
    BY <1>1 DEF SearchInv, HitsOK
  <2> QED BY <1>1, <1>4, <2>1 DEF CalmOK
<1> QED BY <1>5, <1>6, <1>7, <1>8 DEF SearchInv

LEMMA RankPairsOK == SearchInv /\ RankPairs => SearchInv'
<1> SUFFICES ASSUME SearchInv, RankPairs PROVE SearchInv'
  OBVIOUS
<1>1. /\ pc = "rank" /\ pc' = "select"
      /\ UNCHANGED <<target, served, rerank, k, changes, selected, answer, still>>
  BY DEF RankPairs, Goes, index
<1> DEFINE N == Len(pool)
<1>2. N \in Nat /\ DOMAIN pool = 1 .. N /\ pool \in Seq(Point)
  BY DEF SearchInv, PoolOK
<1>3. PICK sc \in [DOMAIN pool -> Score] :
        /\ pool'   = [n \in DOMAIN Ranking(sc) |-> pool[Ranking(sc)[n]]]
        /\ scores' = [n \in DOMAIN Ranking(sc) |-> sc[Ranking(sc)[n]]]
  BY DEF RankPairs
<1> DEFINE r == Ranking(sc)
           R == RankOrder(sc)
<1>4. sc \in [1 .. N -> Nat] /\ \A i \in 1 .. N : sc[i] \in Score /\ sc[i] \in Nat
  BY <1>2, RetrievalAssumption
<1> HIDE DEF N
<1>5. StrictOrder(R, 1 .. N) /\ Places(r, 1 .. N, R)
  BY <1>2, <1>4, RankInOrder
<1>6. IsFiniteSet(1 .. N) /\ Cardinality(1 .. N) = N
  BY <1>2, FS_Interval
<1> HIDE DEF r
<1>7. DOMAIN r = 1 .. N /\ \A n \in 1 .. N : r[n] \in 1 .. N
  BY <1>5, <1>6 DEF Places
<1>8. \A m, n \in DOMAIN r : m < n => <<r[m], r[n]>> \in R
  <2> HIDE DEF R
  <2> QED BY <1>5, <1>6, InOrder
<1>9. pool' = [n \in 1 .. N |-> pool[r[n]]] /\ scores' = [n \in 1 .. N |-> sc[r[n]]]
  BY <1>3, <1>7 DEF r
<1>10. pool' \in Seq(Point) /\ scores' \in Seq(Score) /\ Len(pool') = N /\ Len(scores') = N
  <2>1. \A n \in 1 .. N : pool[r[n]] \in Point /\ sc[r[n]] \in Score
    BY <1>2, <1>4, <1>7
  <2> QED BY <1>2, <1>9, <2>1
<1>11. Descending(scores')
  <2> SUFFICES ASSUME NEW m \in 1 .. N, NEW n \in 1 .. N, m < n PROVE sc[r[m]] >= sc[r[n]]
    BY <1>9 DEF Descending
  <2>1. Before(sc, r[m], r[n])
    BY <1>7, <1>8 DEF RankOrder
  <2>2. sc[r[m]] \in Nat /\ sc[r[n]] \in Nat
    BY <1>4, <1>7
  <2> QED BY <2>1, <2>2 DEF Before
<1>12. PoolOK'
  BY <1>1, <1>10, <1>11 DEF PoolOK, Descending
<1>13. IndexOK' /\ CallOK'
  BY <1>1 DEF SearchInv, IndexOK, CallOK, Index!OnePerId
<1>14. HitsOK' /\ AnswersOK'
  BY <1>1 DEF SearchInv, HitsOK, AnswersOK
<1>15. CalmOK'
  <2>1. selected' = <<>>
    BY <1>1 DEF SearchInv, HitsOK
  <2>2. still => \A n \in 1 .. N : pool'[n] \in served
    BY <1>2, <1>7, <1>9 DEF SearchInv, CalmOK
  <2>3. DOMAIN pool' = 1 .. N
    BY <1>9
  <2> QED BY <1>1, <2>1, <2>2, <2>3 DEF CalmOK
<1> QED BY <1>12, <1>13, <1>14, <1>15 DEF SearchInv

LEMMA NearlySame ==
  ASSUME SearchInv, pc = "select"
  PROVE  /\ scores \in Seq(Nat) /\ Descending(scores) /\ DOMAIN scores = DOMAIN pool
         /\ Similar(Cosine, DOMAIN scores)
         /\ \A i, j \in DOMAIN pool : Cosine[<<i, j>>] = Cosine[<<j, i>>]
<1>1. scores \in Seq(Score) /\ Len(scores) = Len(pool) /\ pool \in Seq(Point) /\ Descending(scores)
  BY DEF SearchInv, PoolOK
<1>2. scores \in Seq(Nat)
  <2>1. \A i \in 1 .. Len(scores) : scores[i] \in Nat
    <3>1. \A i \in 1 .. Len(scores) : scores[i] \in Score
      BY <1>1
    <3> QED BY <3>1, RetrievalAssumption
  <2>2. scores = [i \in 1 .. Len(scores) |-> scores[i]] /\ Len(scores) \in Nat
    BY <1>1
  <2> QED BY <2>1, <2>2
<1>3. DOMAIN scores = DOMAIN pool /\ \A i \in DOMAIN pool : pool[i] \in Point
  BY <1>1
<1>4. \A i, j \in DOMAIN pool : Cosine[<<i, j>>] = IF <<pool[i], pool[j]>> \in Twins THEN 1 ELSE 0
  BY DEF Cosine
<1>5. \A i, j \in DOMAIN pool : <<pool[i], pool[j]>> \in Twins <=> <<pool[j], pool[i]>> \in Twins
  BY <1>3, RetrievalAssumption
<1>6. \A i, j \in DOMAIN pool : Cosine[<<i, j>>] = Cosine[<<j, i>>]
  BY ZenonT(40), <1>4, <1>5
<1>7. \A i, j \in DOMAIN pool : Cosine[<<i, j>>] \in {0, 1}
  BY <1>4
<1> QED BY <1>1, <1>2, <1>3, <1>6, <1>7 DEF Similar

LEMMA ThePicks ==
  ASSUME SearchInv, pc = "select"
  PROVE  Picks \in Seq(DOMAIN pool) /\ (k > 0 => Len(Picks) <= k)
<1>1. /\ scores \in Seq(Nat) /\ Descending(scores) /\ DOMAIN scores = DOMAIN pool
      /\ Similar(Cosine, DOMAIN scores) /\ k \in Int
  BY NearlySame DEF SearchInv, CallOK
<1>2. CASE rerank
  <2> DEFINE g == Gate(scores, k)
  <2>1. g \in 0 .. Len(scores) /\ (k > 0 => g <= k)
    BY <1>1, WhatIsKept
  <2>2. Picks = [n \in 1 .. g |-> n]
    BY <1>2 DEF Picks
  <2> HIDE DEF g
  <2>3. \A n \in 1 .. g : n \in DOMAIN pool
    BY <1>1, <2>1
  <2>4. g \in Nat
    BY <1>1, <2>1
  <2>5. [n \in 1 .. g |-> n] \in Seq(DOMAIN pool) /\ Len([n \in 1 .. g |-> n]) = g
    BY <2>3, <2>4
  <2> QED BY <2>1, <2>2, <2>5
<1>3. CASE ~ rerank
  <2> DEFINE q == Mmr(scores, Cosine, k, 1, LNum, LDen)
  <2>1. FairPicks(scores, Cosine, q) /\ (k > 0 => Len(q) <= k)
    BY <1>1, MmrPicks
  <2>2. Picks = q
    BY <1>3 DEF Picks
  <2> HIDE DEF q
  <2> QED BY <1>1, <2>1, <2>2 DEF FairPicks
<1> QED BY <1>2, <1>3

LEMMA SelectOK == SearchInv /\ Select => SearchInv'
<1> SUFFICES ASSUME SearchInv, Select PROVE SearchInv'
  OBVIOUS
<1>1. /\ pc = "select" /\ pc' = "expand" /\ pool' = <<>> /\ scores' = <<>>
      /\ UNCHANGED <<target, served, rerank, k, changes, answer, still>>
      /\ selected' = [n \in DOMAIN Picks |-> pool[Picks[n]]]
  BY DEF Select, Goes, index
<1>2. Picks \in Seq(DOMAIN pool) /\ (k > 0 => Len(Picks) <= k)
  BY <1>1, ThePicks
<1>3. pool \in Seq(Point) /\ answer = <<>> /\ k \in Int
  BY <1>1 DEF SearchInv, PoolOK, HitsOK, CallOK
<1>4. \A n \in DOMAIN Picks : Picks[n] \in DOMAIN pool /\ pool[Picks[n]] \in Point
  BY <1>2, <1>3
<1>5. selected' \in Seq(Point) /\ Len(selected') = Len(Picks) /\ Len(Picks) \in Nat
  BY <1>1, <1>2, <1>4
<1>6. HitsOK' /\ AnswersOK'
  BY <1>1, <1>2, <1>3, <1>5 DEF SearchInv, HitsOK, AnswersOK
<1>7. CalmOK'
  BY <1>1, <1>4 DEF SearchInv, CalmOK
<1>8. IndexOK' /\ CallOK' /\ PoolOK'
  BY <1>1 DEF SearchInv, IndexOK, CallOK, PoolOK, Index!OnePerId
<1> QED BY <1>6, <1>7, <1>8 DEF SearchInv

LEMMA ExpandHitOK == SearchInv /\ ExpandHit => SearchInv'
<1> SUFFICES ASSUME SearchInv, ExpandHit PROVE SearchInv'
  OBVIOUS
<1> DEFINE p == Head(selected)
<1>1. /\ pc = "expand" /\ pc' = "expand" /\ selected # <<>> /\ selected' = Tail(selected)
      /\ UNCHANGED <<target, served, rerank, k, changes, pool, scores, still>>
  BY DEF ExpandHit, Goes, index
<1>2. selected \in Seq(Point) /\ answer \in Seq(Answered) /\ k \in Int
      /\ (k > 0 => Len(selected) + Len(answer) <= k)
      /\ still \in BOOLEAN /\ served \in SUBSET Point /\ Index!OnePerId(served)
  BY DEF SearchInv, HitsOK, CallOK, IndexOK
<1>3. /\ p \in Point /\ selected' \in Seq(Point) /\ Len(selected') = Len(selected) - 1
      /\ \A n \in DOMAIN selected' : n + 1 \in DOMAIN selected /\ selected'[n] = selected[n + 1]
      /\ p = selected[1] /\ 1 \in DOMAIN selected
  BY <1>1, <1>2
<1>4. still => p \in served /\ \A n \in DOMAIN selected' : selected'[n] \in served
  BY <1>3 DEF SearchInv, CalmOK
<1> HIDE DEF p
<1>5. \E w \in SUBSET Point : answer' = Append(answer, Hit(p, w)) /\ AnswerOK(Hit(p, w))
  <2>1. CASE Widens(p)
    <3>1. PICK found \in SUBSET {q \in served : Matches(p, q)} :
            \E at \in ByPlace(p, found) : answer' = Append(answer, Hit(p, Window(p, at)))
      BY <2>1 DEF ExpandHit, p
    <3>2. PICK at \in ByPlace(p, found) : answer' = Append(answer, Hit(p, Window(p, at)))
      BY <3>1
    <3> DEFINE w == Window(p, at)
    <3>3. found \in SUBSET Point /\ Index!OnePerId(found)
      BY <1>2 DEF Index!OnePerId
    <3>4. w \in SUBSET (found \cup {p}) /\ {q \in w : q.nr = p.nr} = {p} /\ Passage(w)
      BY <1>3, <3>3, AWindow
    <3> HIDE DEF w
    <3>5. w \in SUBSET Point
      BY <1>3, <3>3, <3>4
    <3>6. still /\ Unambiguous => \A q \in w : q.content = p.content
      <4> SUFFICES ASSUME still, Unambiguous, NEW q \in w PROVE q.content = p.content
        OBVIOUS
      <4>1. CASE q = p
        BY <4>1
      <4>2. CASE q \in found
        <5>1. q \in served /\ BaseName[q.name] = BaseName[p.name]
          BY <4>2 DEF Matches
        <5> QED BY <1>4, <5>1 DEF Unambiguous
      <4> QED BY <3>4, <4>1, <4>2
    <3>7. AnswerOK(Hit(p, w))
      BY <3>4, <3>6 DEF AnswerOK, Hit
    <3> QED BY <3>2, <3>5, <3>7 DEF w
  <2>2. CASE ~ Widens(p)
    <3>1. answer' = Append(answer, Hit(p, {p}))
      BY <2>2 DEF ExpandHit, p
    <3>2. {p} \in SUBSET Point /\ {q \in {p} : q.nr = p.nr} = {p}
      BY <1>3
    <3>3. Cardinality({p}) = 1 /\ p.nr \in Int
      BY <1>3, FS_Singleton, PointAssumption
    <3>4. {q.nr : q \in {p}} = p.nr .. p.nr + Cardinality({p}) - 1
      <4>1. p.nr + 1 - 1 = p.nr
        BY <3>3
      <4>2. \A x \in p.nr .. p.nr : x = p.nr
        BY <3>3
      <4>3. p.nr \in p.nr .. p.nr
        BY <3>3
      <4> QED BY <3>3, <4>1, <4>2, <4>3
    <3>5. Passage({p})
      BY <3>3, <3>4 DEF Passage
    <3>6. AnswerOK(Hit(p, {p}))
      BY <3>2, <3>5 DEF AnswerOK, Hit
    <3> QED BY <3>1, <3>2, <3>6
  <2> QED BY <2>1, <2>2
<1>6. PICK w \in SUBSET Point : answer' = Append(answer, Hit(p, w)) /\ AnswerOK(Hit(p, w))
  BY <1>5
<1>7. Hit(p, w) \in Answered
  BY <1>2, <1>3 DEF Hit, Answered, Unambiguous
<1> DEFINE a == Hit(p, w)
<1> HIDE DEF a
<1>8. answer' \in Seq(Answered) /\ Len(answer') = Len(answer) + 1
      /\ \A n \in DOMAIN answer' : answer'[n] = a \/ (n \in DOMAIN answer /\ answer'[n] = answer[n])
  BY <1>2, <1>6, <1>7 DEF a
<1>9. AnswersOK'
  <2>1. \A n \in DOMAIN answer : AnswerOK(answer[n])
    BY DEF SearchInv, AnswersOK
  <2>2. AnswerOK(a)
    BY <1>6 DEF a
  <2>3. \A n \in DOMAIN answer' : AnswerOK(answer'[n])
    BY <1>8, <2>1, <2>2
  <2> QED BY <2>3 DEF AnswersOK
<1>10. HitsOK'
  <2>1. Len(selected) \in Nat /\ Len(answer) \in Nat
    BY <1>2
  <2> QED BY <1>1, <1>2, <1>3, <1>8, <2>1 DEF HitsOK
<1>11. CalmOK'
  BY <1>1, <1>4 DEF SearchInv, CalmOK
<1>12. IndexOK' /\ CallOK' /\ PoolOK'
  BY <1>1 DEF SearchInv, IndexOK, CallOK, PoolOK, Index!OnePerId
<1> QED BY <1>9, <1>10, <1>11, <1>12 DEF SearchInv

LEMMA ClearedOK == SearchInv /\ Cleared => SearchInv'
<1> SUFFICES ASSUME SearchInv, Cleared PROVE SearchInv'
  OBVIOUS
<1>1. /\ pc' = "idle" /\ pool' = <<>> /\ scores' = <<>> /\ selected' = <<>> /\ answer' = <<>>
      /\ still' = TRUE /\ UNCHANGED <<target, served, rerank, k, changes>> /\ k \in Int
  BY DEF Cleared, index, SearchInv, CallOK
<1>2. HitsOK' /\ AnswersOK'
  BY <1>1 DEF HitsOK, AnswersOK
<1>3. IndexOK' /\ CallOK' /\ PoolOK' /\ CalmOK'
  BY <1>1 DEF SearchInv, IndexOK, CallOK, PoolOK, CalmOK, Index!OnePerId
<1> QED BY <1>2, <1>3 DEF SearchInv

LEMMA SearchStays == SearchInv /\ [Next]_vars => SearchInv'
<1> SUFFICES ASSUME SearchInv, [Next]_vars PROVE SearchInv'
  OBVIOUS
<1>1. CASE EmbedQuery
  <2>1. /\ pc = "idle" /\ pc' = "query"
        /\ UNCHANGED <<target, served, rerank, k, changes, pool, scores, selected, answer, still>>
    BY <1>1 DEF EmbedQuery, Goes, index
  <2>2. IndexOK' /\ CallOK' /\ PoolOK' /\ CalmOK'
    BY <2>1 DEF SearchInv, IndexOK, CallOK, PoolOK, CalmOK, Index!OnePerId
  <2>3. HitsOK' /\ AnswersOK'
    BY <2>1 DEF SearchInv, HitsOK, AnswersOK
  <2> QED BY <2>2, <2>3 DEF SearchInv
<1>2. CASE UNCHANGED vars
  <2>1. UNCHANGED <<target, served, pc, rerank, k, changes, pool, scores, selected, answer, still>>
    BY <1>2 DEF vars, index, search
  <2>2. IndexOK' /\ CallOK' /\ PoolOK' /\ CalmOK'
    BY <2>1 DEF SearchInv, IndexOK, CallOK, PoolOK, CalmOK, Index!OnePerId, Descending
  <2>3. HitsOK' /\ AnswersOK'
    BY <2>1 DEF SearchInv, HitsOK, AnswersOK
  <2> QED BY <2>2, <2>3 DEF SearchInv
<1> QED BY <1>1, <1>2, IndexChangesOK, QueryPointsOK, RankPairsOK, SelectOK, ExpandHitOK, ClearedOK
        DEF Next, Reply, Fail

LEMMA SearchAlways == Spec => []SearchInv
<1>1. Init => SearchInv
  BY StartsWell
<1>2. SearchInv /\ [Next]_vars => SearchInv'
  BY SearchStays
<1> QED BY <1>1, <1>2, PTL DEF Spec

-----------------------------------------------------------------------------
(* Every variable keeps its type: in particular a search answers with no   *)
(* more hits than were asked for, whatever fails and however the index     *)
(* changes (search_corpus, server.py).                                     *)
THEOREM SearchTypes == Spec => []TypeOK
<1>1. SearchInv => TypeOK
  <2> SUFFICES ASSUME SearchInv PROVE TypeOK
    OBVIOUS
  <2>1. \A n \in DOMAIN answer : answer[n].hit \in Point /\ answer[n].window \subseteq Point
    <3>1. \A n \in DOMAIN answer : answer[n] \in Answered
      BY DEF SearchInv, HitsOK
    <3> QED BY <3>1 DEF Answered
  <2> QED BY <2>1 DEF SearchInv, IndexOK, CallOK, PoolOK, HitsOK, TypeOK
<1> QED BY <1>1, SearchAlways, PTL

LEMMA KneeInv == SearchInv => KneeIsADrop
<1> SUFFICES ASSUME SearchInv, pc = "select", rerank
             PROVE  LET s == Survivors(scores)
                        n == Len(Cut(s)) IN
                    n < Len(s) => /\ n > 0
                                  /\ (s[n] - s[n + 1]) * (Len(s) - 1) >= Span(s)
                                  /\ s[n] > s[n + 1]
  BY DEF KneeIsADrop
<1>1. Survivors(scores) \in Seq(Nat)
  BY NearlySame, WhatSurvives
<1> QED BY <1>1, WhatIsCut

LEMMA BestInv == SearchInv => BestStay
<1> SUFFICES ASSUME SearchInv, pc = "select", rerank, k > 0
             PROVE  LET kept == Gate(scores, k) IN
                    /\ \A i \in 1 .. kept, j \in DOMAIN scores : j > kept => scores[i] >= scores[j]
                    /\ (\E i \in DOMAIN scores : scores[i] >= MinScore) => kept > 0
  BY DEF BestStay
<1> DEFINE kept == Gate(scores, k)
<1>1. scores \in Seq(Nat) /\ Descending(scores) /\ k \in Int
  BY NearlySame DEF SearchInv, CallOK
<1>2. /\ kept \in 0 .. Len(scores)
      /\ (\E i \in DOMAIN scores : scores[i] >= MinScore) => kept > 0
  BY <1>1, WhatIsKept
<1> HIDE DEF kept
<1>3. ASSUME NEW i \in 1 .. kept, NEW j \in DOMAIN scores, j > kept PROVE scores[i] >= scores[j]
  <2>1. i \in DOMAIN scores /\ i < j
    BY <1>1, <1>2, <1>3
  <2> QED BY <1>1, <2>1 DEF Descending
<1> QED BY <1>2, <1>3 DEF kept

LEMMA ClusterInv ==
  ASSUME 2 * LNum < LDen
  PROVE  SearchInv => OnePerCluster
<1> DEFINE sim == Cosine
           q == Picks
<1> SUFFICES ASSUME SearchInv, pc = "select", ~ rerank,
                    NEW m \in DOMAIN q, NEW n \in DOMAIN q, m < n, sim[<<q[m], q[n]>>] = 1,
                    NEW i \in DOMAIN pool
             PROVE  \E l \in 1 .. n - 1 : i = q[l] \/ sim[<<q[l], i>>] = 1
  BY DEF OnePerCluster
<1>1. /\ scores \in Seq(Nat) /\ DOMAIN scores = DOMAIN pool /\ Similar(sim, DOMAIN scores) /\ k \in Int
      /\ \A h, j \in DOMAIN pool : sim[<<h, j>>] = sim[<<j, h>>]
  BY NearlySame DEF SearchInv, CallOK
<1>2. FairPicks(scores, sim, q)
  BY <1>1, MmrPicks DEF Picks
<1> HIDE DEF q, sim
<1>3. SUFFICES ASSUME \A l \in 1 .. n - 1 : i # q[l] /\ sim[<<q[l], i>>] # 1 PROVE FALSE
  OBVIOUS
<1> DEFINE picked == Earlier(q, n)
<1>4. q \in Seq(DOMAIN pool) /\ n \in Nat /\ m \in 1 .. n - 1 /\ \A l \in 1 .. n - 1 : l \in DOMAIN q
  <2>1. q \in Seq(DOMAIN pool)
    BY <1>1, <1>2 DEF FairPicks
  <2>2. DOMAIN q = 1 .. Len(q) /\ Len(q) \in Nat /\ m \in DOMAIN q /\ n \in DOMAIN q /\ m < n
    BY <2>1
  <2> QED BY <2>1, <2>2
<1>5. q[n] \in DOMAIN pool /\ \A x \in picked : x \in DOMAIN pool
  BY <1>4 DEF Earlier
<1>6. q[m] \in picked /\ i \notin picked
  BY <1>3, <1>4 DEF Earlier
<1>7. \A x \in picked : sim[<<i, x>>] = 0
  <2> SUFFICES ASSUME NEW x \in picked PROVE sim[<<i, x>>] = 0
    OBVIOUS
  <2>1. sim[<<x, i>>] # 1
    BY <1>3 DEF Earlier
  <2> HIDE DEF picked
  <2>2. sim[<<i, x>>] = sim[<<x, i>>] /\ sim[<<i, x>>] \in {0, 1}
    BY <1>1, <1>5 DEF Similar
  <2> QED BY <2>1, <2>2
<1> HIDE DEF picked
<1>8. \A x \in picked : sim[<<q[n], x>>] \in {0, 1}
  BY <1>1, <1>5 DEF Similar
<1>9. sim[<<q[n], q[m]>>] = 1
  BY <1>1, <1>5, <1>6
<1>10. Worth(scores, sim, i, picked) > Worth(scores, sim, q[n], picked)
  BY <1>1, <1>5, <1>6, <1>7, <1>8, <1>9, FreshIsWorthMore DEF Worth
<1>11. Worth(scores, sim, i, picked) <= Worth(scores, sim, q[n], picked)
  BY <1>1, <1>2, <1>6 DEF FairPicks, picked
<1>12. Worth(scores, sim, i, picked) \in Int /\ Worth(scores, sim, q[n], picked) \in Int
  BY <1>1, <1>5, WorthType
<1> QED BY <1>10, <1>11, <1>12

(* The selection is sound for every pool and every score: the gate cuts    *)
(* only at a drop and keeps the best (_kneedle_cut and its caller), and    *)
(* the older selection gives a cluster a second representative only when   *)
(* nothing fresh is left (_mmr), as long as novelty weighs more than       *)
(* relevance: RAG_MMR_LAMBDA < 0.5; it is 0.3 as shipped.                  *)
THEOREM SelectsSoundly ==
  ASSUME 2 * LNum < LDen
  PROVE  Spec => []SelectionIsSound
<1>1. SearchInv => SelectionIsSound
  BY KneeInv, BestInv, ClusterInv DEF SelectionIsSound
<1> QED BY <1>1, SearchAlways, PTL

(* Whatever the index has become between the query and the widening, a hit *)
(* is answered as it was scored, alone at its place in a passage without   *)
(* repetition, within the cap on words (_expand).                     *)
THEOREM PassageQuoted == Spec => []QuotesAPassage
<1>1. SearchInv => QuotesAPassage
  <2> SUFFICES ASSUME SearchInv PROVE QuotesAPassage
    OBVIOUS
  <2>1. ScoredIsQuoted
    BY DEF SearchInv, AnswersOK, AnswerOK, ScoredIsQuoted
  <2>2. \A n \in DOMAIN answer : Passage(answer[n].window)
    BY DEF SearchInv, AnswersOK, AnswerOK
  <2>3. WindowIsAPassage
    BY <2>2 DEF WindowIsAPassage, Passage, WordsInAll
  <2> QED BY <2>1, <2>3 DEF QuotesAPassage
<1> QED BY <1>1, SearchAlways, PTL

(* No text of another content comes with a hit when the index has not      *)
(* changed since the query and no two files go by one name.                *)
THEOREM CalmAnswers == Spec => []NoUnrelatedTextWhenCalm
<1>1. SearchInv => NoUnrelatedTextWhenCalm
  BY DEF SearchInv, AnswersOK, AnswerOK, NoUnrelatedTextWhenCalm
<1> QED BY <1>1, SearchAlways, PTL
=============================================================================
