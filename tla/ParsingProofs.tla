---------------------------- MODULE ParsingProofs ----------------------------
(***************************************************************************)
(* The chunks of a text tell the text, whatever its lines, headings and    *)
(* sizes: what Chunking's folds compute is followed along the text. The    *)
(* records of a sheet tell its rows, whatever its rows, cells and columns: *)
(* what SheetTables' folds compute is followed along the rows of a region. *)
(***************************************************************************)
EXTENDS Parsing, FoldLemmas, SequenceTheorems

Blank     == " "
Separator == {Blank, "\n"}
Sentence == [line : Nat, at : Nat, words : Nat, sep : Separator]
Block    == [text : Seq(Sentence), from : Nat, to : Nat]

(* A function on places that is given step by step keeps to its type.      *)
LEMMA Along ==
  ASSUME NEW n \in Nat, NEW V, NEW g, g[0] \in V, \A i \in 1 .. n : g[i - 1] \in V => g[i] \in V
  PROVE  \A i \in 0 .. n : g[i] \in V
<1> DEFINE P == {i \in 0 .. n : g[i] \in V}
<1>1. 0 \in P
  OBVIOUS
<1>2. \A i \in 1 .. n : i - 1 \in P => i \in P
  OBVIOUS
<1> HIDE DEF P
<1>3. \A i \in 0 .. n : i \in P
  BY <1>1, <1>2, UpTo
<1> QED BY <1>3 DEF P

LastOf(T) == CHOOSE x \in T : \A y \in T : x >= y

(* A fold along a sequence: it takes the last place of each set of places. *)
IsLeftFold(f, n, V, b, step) ==
  /\ f \in [SUBSET (1 .. n) -> V]
  /\ f[{}] = b
  /\ \A T \in SUBSET (1 .. n) : T # {} =>
       /\ LastOf(T) \in 1 .. n /\ f[T \ {LastOf(T)}] \in V
       /\ f[T] = step[<<LastOf(T), f[T \ {LastOf(T)}]>>]

LEMMA LeftFold ==
  ASSUME NEW n \in Nat, NEW V, NEW b \in V, NEW step \in [(1 .. n) \X V -> V]
  PROVE  \E f : IsLeftFold(f, n, V, b, step)
<1> DEFINE S == 1 .. n
<1>1. IsFiniteSet(S) /\ \A T \in SUBSET S : T # {} => MaxOf[T] \in T
  BY MaxChooses
<1>2. PICK f : Folds(f, S, MaxOf, step, b, V)
  <2> HIDE DEF S
  <2> QED BY <1>1, AFold DEF S
<1>3. \A T \in SUBSET S : MaxOf[T] = LastOf(T)
  <2>1. S \in SUBSET Nat
    OBVIOUS
  <2> QED BY <2>1 DEF MaxOf, LastOf
<1>4. ASSUME NEW T \in SUBSET S, T # {}
      PROVE  /\ LastOf(T) \in S /\ f[T \ {LastOf(T)}] \in V
             /\ f[T] = step[<<LastOf(T), f[T \ {LastOf(T)}]>>]
  <2>1. MaxOf[T] \in S /\ MaxOf[T] = LastOf(T)
    BY <1>1, <1>3, <1>4
  <2>2. T \ {MaxOf[T]} \in SUBSET S
    OBVIOUS
  <2> HIDE DEF S
  <2>3. f[T \ {MaxOf[T]}] \in V /\ f[T] = step[<<MaxOf[T], f[T \ {MaxOf[T]}]>>]
    BY <1>2, <1>4, <2>2 DEF Folds
  <2> QED BY <2>1, <2>3
<1>5. f \in [SUBSET S -> V] /\ f[{}] = b
  BY <1>2 DEF Folds
<1> HIDE DEF S
<1>6. IsLeftFold(f, n, V, b, step)
  BY <1>4, <1>5 DEF IsLeftFold, S
<1> QED BY <1>6

(* The places up to i, and the last of them.                               *)
LEMMA UpToPlace ==
  ASSUME NEW n \in Nat, NEW i \in 1 .. n
  PROVE  /\ 1 .. i \in SUBSET (1 .. n) /\ 1 .. i # {}
         /\ Max(1 .. i) = i /\ (1 .. i) \ {i} = 1 .. i - 1
BY PrefixSteps DEF Max

-----------------------------------------------------------------------------
(***************************************************************************)
(* Words.                                                                  *)
(***************************************************************************)
Sums(t, g) ==
  /\ g \in [0 .. Len(t) -> Nat]
  /\ g[0] = 0
  /\ \A i \in 1 .. Len(t) : g[i] = g[i - 1] + t[i].words

WordsIter(t) ==
  CHOOSE iter : iter = [s \in SUBSET (DOMAIN t) |->
    IF s = {} THEN 0 ELSE iter[s \ {Max(s)}] + t[Max(s)].words]

LEMMA WordsSteps ==
  ASSUME NEW t \in Seq(Sentence)
  PROVE  \E g : Sums(t, g) /\ g[Len(t)] = Words(t)
<1> DEFINE n == Len(t)
           S == 1 .. n
           step == [xv \in S \X Nat |-> xv[2] + t[xv[1]].words]
           h == WordsIter(t)
           g == [i \in 0 .. n |-> h[1 .. i]]
<1>1. n \in Nat /\ DOMAIN t = S /\ \A i \in S : t[i].words \in Nat
  <2>1. n \in Nat /\ DOMAIN t = S
    BY LenProperties
  <2>2. \A i \in S : t[i] \in Sentence
    BY ElementOfSeq
  <2> QED BY <2>1, <2>2 DEF Sentence
<1>2. Words(t) = h[S]
  BY <1>1 DEF Words, WordsIter, FoldLeft, MapThenFoldSet
<1> HIDE DEF n
<1>3. step \in [S \X Nat -> Nat]
  BY <1>1
<1>4. PICK f : IsLeftFold(f, n, Nat, 0, step)
  <2> HIDE DEF step
  <2> QED BY <1>1, <1>3, LeftFold
<1>5. f = [s \in SUBSET S |-> IF s = {} THEN 0 ELSE f[s \ {Max(s)}] + t[Max(s)].words]
  <2>1. ASSUME NEW T \in SUBSET S, T # {} PROVE f[T] = f[T \ {LastOf(T)}] + t[LastOf(T)].words
    <3> DEFINE x == LastOf(T)
               v == f[T \ {x}]
    <3>1. x \in S /\ v \in Nat /\ f[T] = step[<<x, v>>]
      <4> HIDE DEF step
      <4> QED BY <1>4, <2>1 DEF IsLeftFold
    <3> HIDE DEF x, v
    <3>2. f[T] = v + t[x].words
      BY <3>1
    <3> QED BY <3>2 DEF x, v
  <2>2. f \in [SUBSET S -> Nat] /\ f[{}] = 0
    BY <1>4 DEF IsLeftFold
  <2> HIDE DEF S, step
  <2> QED BY <2>1, <2>2 DEF LastOf, Max
<1>6. h = [s \in SUBSET S |-> IF s = {} THEN 0 ELSE h[s \ {Max(s)}] + t[Max(s)].words]
  <2> HIDE DEF S, step
  <2> QED BY <1>1, <1>5 DEF WordsIter
<1> HIDE DEF h
<1>7. g[0] = 0
  <2>1. 1 .. 0 = {} /\ {} \in SUBSET S /\ 0 \in 0 .. n
    BY <1>1
  <2> QED BY <1>6, <2>1
<1>8. ASSUME NEW i \in 1 .. n PROVE g[i] = g[i - 1] + t[i].words
  <2>1. i \in 0 .. n /\ i - 1 \in 0 .. n
    BY <1>1
  <2>2. 1 .. i \in SUBSET S /\ 1 .. i # {} /\ Max(1 .. i) = i /\ (1 .. i) \ {i} = 1 .. i - 1
    BY <1>1, UpToPlace
  <2> HIDE DEF S
  <2>3. h[1 .. i] = h[1 .. i - 1] + t[i].words
    BY <1>6, <2>2
  <2> QED BY <2>1, <2>3
<1>9. g \in [0 .. n -> Nat]
  <2>1. ASSUME NEW i \in 1 .. n, g[i - 1] \in Nat PROVE g[i] \in Nat
    <3> HIDE DEF g, n
    <3>1. t[i].words \in Nat /\ g[i] = g[i - 1] + t[i].words
      BY <1>1, <1>8
    <3> QED BY <2>1, <3>1
  <2>2. g[0] \in Nat
    BY <1>7
  <2> HIDE DEF g
  <2>3. \A i \in 0 .. n : g[i] \in Nat
    BY <1>1, <2>1, <2>2, Along
  <2> QED BY <2>3 DEF g
<1>10. g[n] = Words(t)
  BY <1>1, <1>2
<1> HIDE DEF g
<1>11. Sums(t, g)
  BY <1>7, <1>8, <1>9 DEF Sums, n
<1> QED BY <1>10, <1>11 DEF n

(* Sums grow along a text.                                                 *)
LEMMA SumsGrow ==
  ASSUME NEW t \in Seq(Sentence), NEW g, Sums(t, g), NEW a \in 0 .. Len(t), NEW z \in a .. Len(t)
  PROVE  g[a] \in Nat /\ g[z] \in Nat /\ g[a] <= g[z]
<1>1. Len(t) \in Nat /\ \A i \in 1 .. Len(t) : t[i].words \in Nat
  <2>1. \A i \in 1 .. Len(t) : t[i] \in Sentence
    BY ElementOfSeq
  <2> QED BY <2>1, LenProperties DEF Sentence
<1> DEFINE n == Len(t)
           P == {i \in 0 .. n : i >= a => g[a] <= g[i]}
<1>2. n \in Nat /\ a \in 0 .. n /\ z \in a .. n
  BY <1>1
<1>3. g \in [0 .. n -> Nat] /\ \A i \in 1 .. n : g[i] = g[i - 1] + t[i].words
  BY DEF Sums
<1>4. \A i \in 1 .. n : t[i].words \in Nat
  BY <1>1
<1> HIDE DEF n
<1>5. 0 \in P
  BY <1>2, <1>3
<1>6. ASSUME NEW i \in 1 .. n, i - 1 \in P PROVE i \in P
  <2>0. i \in 0 .. n /\ i - 1 \in 0 .. n
    BY <1>2
  <2>1. g[i] \in Nat /\ g[i - 1] \in Nat /\ g[a] \in Nat /\ g[i - 1] <= g[i]
    <3>1. g[i] \in Nat /\ g[i - 1] \in Nat /\ g[a] \in Nat
      BY <1>2, <1>3, <2>0
    <3>2. t[i].words \in Nat /\ g[i] = g[i - 1] + t[i].words
      BY <1>3, <1>4
    <3> HIDE DEF P
    <3> QED BY <3>1, <3>2
  <2>2. i \in 0 .. n /\ (i >= a => i = a \/ i - 1 >= a)
    BY <1>2
  <2>3. i - 1 >= a => g[a] <= g[i - 1]
    BY <1>6
  <2>4. i >= a => g[a] <= g[i]
    BY <2>1, <2>2, <2>3
  <2> QED BY <2>2, <2>4
<1> HIDE DEF P
<1>7. \A i \in 0 .. n : i \in P
  BY <1>2, <1>5, <1>6, UpTo
<1> QED BY <1>2, <1>3, <1>7 DEF P

-----------------------------------------------------------------------------
(***************************************************************************)
(* Parts of a text.  t is what stands in B from place a + 1 to place z,    *)
(* however its sentences are separated.                                    *)
(***************************************************************************)
Part(B, t, a, z) ==
  /\ t \in Seq(Sentence) /\ a \in Nat /\ z \in a .. Len(B) /\ Len(t) = z - a
  /\ \A i \in 1 .. z - a : /\ t[i].line  = B[a + i].line
                           /\ t[i].at    = B[a + i].at
                           /\ t[i].words = B[a + i].words

LEMMA Separated ==
  ASSUME NEW e \in Sentence, NEW sep \in Separator
  PROVE  LET d == [e EXCEPT !.sep = sep] IN
         d \in Sentence /\ d.sep = sep /\ d.line = e.line /\ d.at = e.at /\ d.words = e.words
BY DEF Sentence

LEMMA PartConcat ==
  ASSUME NEW B \in Seq(Sentence), NEW s, NEW t, NEW a, NEW m, NEW z,
         Part(B, s, a, m), Part(B, t, m, z)
  PROVE  /\ Part(B, s \o t, a, z)
         /\ \A i \in 1 .. Len(s) : (s \o t)[i] = s[i]
<1>1. s \in Seq(Sentence) /\ t \in Seq(Sentence) /\ a \in Nat /\ m \in Nat /\ z \in Nat
      /\ Len(s) = m - a /\ Len(t) = z - m /\ a <= m /\ m <= z /\ z <= Len(B) /\ Len(B) \in Nat
  BY LenProperties DEF Part
<1> DEFINE u == s \o t
<1>2. /\ u \in Seq(Sentence) /\ Len(u) = Len(s) + Len(t)
      /\ \A i \in 1 .. Len(s) + Len(t) : u[i] = IF i <= Len(s) THEN s[i] ELSE t[i - Len(s)]
  BY <1>1, ConcatProperties
<1> HIDE DEF u
<1>3. \A i \in 1 .. z - a : u[i] = IF i <= m - a THEN s[i] ELSE t[i - (m - a)]
  BY <1>1, <1>2
<1>4. ASSUME NEW i \in 1 .. z - a
      PROVE /\ u[i].line  = B[a + i].line
            /\ u[i].at    = B[a + i].at
            /\ u[i].words = B[a + i].words
  <2>1. CASE i <= m - a
    <3>1. i \in 1 .. m - a /\ u[i] = s[i]
      BY <1>1, <1>3, <2>1
    <3> QED BY <3>1 DEF Part
  <2>2. CASE ~ i <= m - a
    <3>1. i - (m - a) \in 1 .. z - m /\ u[i] = t[i - (m - a)] /\ m + (i - (m - a)) = a + i
      BY <1>1, <1>3, <2>2
    <3> QED BY <3>1 DEF Part
  <2> QED BY <2>1, <2>2
<1>5. Part(B, u, a, z)
  <2>1. Len(u) = z - a /\ z \in a .. Len(B)
    BY <1>1, <1>2
  <2> QED BY <1>1, <1>2, <1>4, <2>1 DEF Part
<1>6. \A i \in 1 .. Len(s) : u[i] = s[i]
  BY <1>1, <1>2
<1> QED BY <1>5, <1>6 DEF u

(* Another separator in front.                                             *)
LEMMA PartSeparated ==
  ASSUME NEW B \in Seq(Sentence), NEW t, NEW a, NEW z, NEW sep \in Separator,
         Part(B, t, a, z), t # <<>>
  PROVE  Part(B, [t EXCEPT ![1].sep = sep], a, z)
<1>1. t \in Seq(Sentence) /\ a \in Nat /\ z \in a .. Len(B) /\ Len(t) = z - a /\ Len(B) \in Nat
  BY LenProperties DEF Part
<1>2. 1 \in 1 .. Len(t) /\ t[1] \in Sentence
  BY <1>1, EmptySeq, ElementOfSeq
<1> DEFINE e == [t[1] EXCEPT !.sep = sep]
           u == [t EXCEPT ![1] = e]
<1>3. e \in Sentence /\ e.line = t[1].line /\ e.at = t[1].at /\ e.words = t[1].words
  BY <1>2 DEF Sentence
<1> HIDE DEF e
<1>4. u \in Seq(Sentence) /\ Len(u) = Len(t) /\ \A j \in 1 .. Len(t) : u[j] = IF j = 1 THEN e ELSE t[j]
  BY <1>1, <1>2, <1>3, ExceptSeq
<1> HIDE DEF u
<1>5. \A i \in 1 .. z - a : u[i].line = t[i].line /\ u[i].at = t[i].at /\ u[i].words = t[i].words
  BY <1>1, <1>3, <1>4
<1>6. Part(B, u, a, z)
  BY <1>1, <1>4, <1>5 DEF Part
<1> QED BY <1>6 DEF u, e

(* The end of a part is a part, with blanks as with what separated it.     *)
LEMMA PartTail ==
  ASSUME NEW B \in Seq(Sentence), NEW t, NEW a, NEW z, Part(B, t, a, z), NEW k \in 1 .. Len(t) + 1
  PROVE  /\ Part(B, SubSeq(t, k, Len(t)), a + k - 1, z)
         /\ \A i \in 1 .. Len(t) - k + 1 : SubSeq(t, k, Len(t))[i] = t[k + i - 1]
<1>1. t \in Seq(Sentence) /\ a \in Nat /\ z \in a .. Len(B) /\ Len(t) = z - a /\ Len(B) \in Nat
  BY LenProperties DEF Part
<1> DEFINE u == SubSeq(t, k, Len(t))
<1>2. /\ u \in Seq(Sentence) /\ Len(u) = Len(t) - k + 1
      /\ \A i \in 1 .. Len(t) - k + 1 : u[i] = t[k + i - 1]
  <2>1. k \in Int /\ Len(t) \in Int /\ \A i \in k .. Len(t) : t[i] \in Sentence
    BY <1>1, ElementOfSeq
  <2>2. /\ SubSeq(t, k, Len(t)) \in Seq(Sentence)
        /\ Len(SubSeq(t, k, Len(t))) = IF k <= Len(t) THEN Len(t) - k + 1 ELSE 0
        /\ \A i \in 1 .. Len(t) - k + 1 : SubSeq(t, k, Len(t))[i] = t[k + i - 1]
    BY <2>1, SubSeqProperties
  <2>3. (IF k <= Len(t) THEN Len(t) - k + 1 ELSE 0) = Len(t) - k + 1
    BY <1>1
  <2> QED BY <2>2, <2>3
<1> HIDE DEF u
<1>3. a + k - 1 \in Nat /\ z \in a + k - 1 .. Len(B) /\ Len(u) = z - (a + k - 1)
  BY <1>1, <1>2
<1>4. ASSUME NEW i \in 1 .. z - (a + k - 1)
      PROVE  u[i] = t[k + i - 1] /\ k + i - 1 \in 1 .. z - a /\ a + (k + i - 1) = (a + k - 1) + i
  BY <1>1, <1>2
<1>5. Part(B, u, a + k - 1, z)
  <2> SUFFICES ASSUME NEW i \in 1 .. z - (a + k - 1)
               PROVE  /\ u[i].line  = B[(a + k - 1) + i].line
                      /\ u[i].at    = B[(a + k - 1) + i].at
                      /\ u[i].words = B[(a + k - 1) + i].words
    BY <1>2, <1>3 DEF Part
  <2> QED BY <1>4 DEF Part
<1> QED BY <1>2, <1>5 DEF u

Blanked(t) == [i \in DOMAIN t |-> [t[i] EXCEPT !.sep = " "]]

LEMMA PartBlanked ==
  ASSUME NEW B \in Seq(Sentence), NEW t, NEW a, NEW z, Part(B, t, a, z)
  PROVE  /\ Part(B, Blanked(t), a, z)
         /\ \A i \in 1 .. Len(t) : Blanked(t)[i].sep = " "
<1>1. t \in Seq(Sentence) /\ a \in Nat /\ z \in a .. Len(B) /\ Len(t) = z - a /\ Len(B) \in Nat
  BY LenProperties DEF Part
<1>2. DOMAIN t = 1 .. Len(t) /\ Len(t) \in Nat /\ \A i \in 1 .. Len(t) : t[i] \in Sentence
  BY <1>1, LenProperties, ElementOfSeq
<1> DEFINE u == Blanked(t)
<1>3. ASSUME NEW i \in 1 .. Len(t)
      PROVE  /\ u[i] \in Sentence /\ u[i].sep = " "
             /\ u[i].line = t[i].line /\ u[i].at = t[i].at /\ u[i].words = t[i].words
  <2>1. u[i] = [t[i] EXCEPT !.sep = " "] /\ t[i] \in Sentence
    BY <1>2 DEF Blanked
  <2> HIDE DEF u
  <2> DEFINE e == t[i]
  <2>2. u[i] = [e EXCEPT !.sep = " "] /\ e \in Sentence
    BY <2>1
  <2> HIDE DEF e
  <2>3. LET d == [e EXCEPT !.sep = " "] IN
        d \in Sentence /\ d.sep = " " /\ d.line = e.line /\ d.at = e.at /\ d.words = e.words
    <3>1. " " \in Separator
      BY DEF Separator, Blank
    <3> QED BY <2>2, <3>1, Separated
  <2> QED BY <2>2, <2>3 DEF e
<1>4. u \in Seq(Sentence) /\ Len(u) = Len(t)
  <2>1. u \in [1 .. Len(t) -> Sentence]
    <3>1. DOMAIN u = 1 .. Len(t) /\ u = [i \in 1 .. Len(t) |-> u[i]]
      BY <1>2 DEF Blanked
    <3> HIDE DEF u
    <3> QED BY <1>3, <3>1
  <2> HIDE DEF u
  <2> QED BY <1>2, <2>1
<1> HIDE DEF u
<1>5. Part(B, u, a, z)
  BY <1>1, <1>3, <1>4 DEF Part
<1> QED BY <1>3, <1>5 DEF u

(* A part stays where it is when the text goes on.                         *)
LEMMA PartStays ==
  ASSUME NEW B \in Seq(Sentence), NEW C \in Seq(Sentence), NEW t, NEW a, NEW z, Part(B, t, a, z)
  PROVE  Part(B \o C, t, a, z)
<1>1. /\ Len(B \o C) = Len(B) + Len(C) /\ Len(B) \in Nat /\ Len(C) \in Nat
      /\ \A i \in 1 .. Len(B) : (B \o C)[i] = B[i]
  BY ConcatProperties, LenProperties
<1>2. \A i \in 1 .. z - a : (B \o C)[a + i] = B[a + i]
  BY <1>1 DEF Part
<1>3. z \in a .. Len(B \o C)
  BY <1>1 DEF Part
<1> QED BY <1>2, <1>3 DEF Part

(* The words of a part.                                                    *)
LEMMA PartWords ==
  ASSUME NEW B \in Seq(Sentence), NEW W, Sums(B, W), NEW t, NEW a, NEW z, Part(B, t, a, z)
  PROVE  Words(t) = W[z] - W[a] /\ Words(t) \in Nat /\ W[a] \in Nat /\ W[z] \in Nat
<1>1. t \in Seq(Sentence) /\ a \in Nat /\ z \in a .. Len(B) /\ Len(t) = z - a /\ Len(B) \in Nat
  BY LenProperties DEF Part
<1>2. PICK g : Sums(t, g) /\ g[Len(t)] = Words(t)
  BY <1>1, WordsSteps
<1> DEFINE n == z - a
           P == {i \in 0 .. n : g[i] = W[a + i] - W[a]}
<1>3. n \in Nat /\ g \in [0 .. n -> Nat] /\ g[0] = 0 /\ g[n] = Words(t)
      /\ \A i \in 1 .. n : g[i] = g[i - 1] + t[i].words
  BY <1>1, <1>2 DEF Sums
<1>4. W \in [0 .. Len(B) -> Nat] /\ \A i \in 1 .. Len(B) : W[i] = W[i - 1] + B[i].words
  BY DEF Sums
<1>5. 0 \in P
  <2>1. a + 0 = a /\ a \in 0 .. Len(B) /\ 0 \in 0 .. n
    BY <1>1, <1>3
  <2>2. W[a] \in Nat
    BY <1>4, <2>1
  <2> QED BY <1>3, <2>1, <2>2
<1>6. ASSUME NEW i \in 1 .. n, i - 1 \in P PROVE i \in P
  <2>1. a + i \in 1 .. Len(B) /\ (a + i) - 1 = a + (i - 1) /\ i \in 0 .. n /\ a + (i - 1) \in 0 .. Len(B) /\ a \in 0 .. Len(B)
    BY <1>1, <1>3
  <2>2. W[a + i] = W[a + (i - 1)] + B[a + i].words /\ W[a + i] \in Nat /\ W[a + (i - 1)] \in Nat /\ W[a] \in Nat
    <3>1. W[a + i] = W[a + (i - 1)] + B[a + i].words
      BY <1>4, <2>1
    <3>2. a + i \in 0 .. Len(B)
      BY <1>1, <2>1
    <3> QED BY <1>4, <2>1, <3>1, <3>2
  <2>3. t[i].words = B[a + i].words /\ B[a + i].words \in Nat
    <3>1. B[a + i] \in Sentence
      BY <2>1, ElementOfSeq
    <3> QED BY <3>1 DEF Part, Sentence
  <2>4. g[i - 1] = W[a + (i - 1)] - W[a] /\ g[i] = g[i - 1] + t[i].words
    BY <1>3, <1>6
  <2>5. g[i] = W[a + i] - W[a]
    BY <2>2, <2>3, <2>4
  <2> QED BY <2>1, <2>5
<1> HIDE DEF P
<1>7. n \in P
  <2>1. n \in 0 .. n
    BY <1>3
  <2> HIDE DEF n
  <2>2. \A i \in 0 .. n : i \in P
    BY <1>3, <1>5, <1>6, UpTo
  <2> QED BY <2>1, <2>2
<1>8. a + n = z /\ a \in 0 .. Len(B) /\ z \in 0 .. Len(B)
  BY <1>1
<1> QED BY <1>3, <1>4, <1>7, <1>8 DEF P

-----------------------------------------------------------------------------
(***************************************************************************)
(* The folds along texts, blocks and sections, step by step.               *)
(***************************************************************************)
Joined(all, t, sep) == IF all = <<>> THEN t ELSE all \o [t EXCEPT ![1].sep = sep]

JoinIter(q, sep) ==
  CHOOSE iter : iter = [s \in SUBSET (DOMAIN q) |->
    IF s = {} THEN <<>> ELSE Joined(iter[s \ {Max(s)}], q[Max(s)], sep)]

(* Joining.                                                                *)
LEMMA JoinSteps ==
  ASSUME NEW sep, NEW q \in Seq(Seq(Sentence)), NEW V, <<>> \in V,
         \A v \in V : \A i \in 1 .. Len(q) : Joined(v, q[i], sep) \in V
  PROVE  \E g \in [0 .. Len(q) -> V] :
           /\ g[0] = <<>>
           /\ \A i \in 1 .. Len(q) : g[i] = Joined(g[i - 1], q[i], sep)
           /\ g[Len(q)] = Join(q, sep)
<1> DEFINE n == Len(q)
           S == 1 .. n
           step == [xv \in S \X V |-> Joined(xv[2], q[xv[1]], sep)]
           h == JoinIter(q, sep)
           g == [i \in 0 .. n |-> h[1 .. i]]
<1>1. n \in Nat /\ DOMAIN q = S
  BY LenProperties
<1>2. Join(q, sep) = h[S]
  BY <1>1 DEF Join, Joined, JoinIter, FoldLeft, MapThenFoldSet
<1>3. step \in [S \X V -> V]
  OBVIOUS
<1> HIDE DEF n
<1>4. PICK f : IsLeftFold(f, n, V, <<>>, step)
  <2> HIDE DEF step
  <2> QED BY <1>1, <1>3, LeftFold
<1>5. f = [s \in SUBSET S |-> IF s = {} THEN <<>> ELSE Joined(f[s \ {Max(s)}], q[Max(s)], sep)]
  <2>1. ASSUME NEW T \in SUBSET S, T # {}
        PROVE  f[T] = Joined(f[T \ {LastOf(T)}], q[LastOf(T)], sep)
    <3> DEFINE x == LastOf(T)
               v == f[T \ {x}]
    <3>1. x \in S /\ v \in V /\ f[T] = step[<<x, v>>]
      <4> HIDE DEF step
      <4> QED BY <1>4, <2>1 DEF IsLeftFold
    <3> HIDE DEF x, v
    <3>2. f[T] = Joined(v, q[x], sep)
      BY <3>1
    <3> QED BY <3>2 DEF x, v
  <2>2. f \in [SUBSET S -> V] /\ f[{}] = <<>>
    BY <1>4 DEF IsLeftFold
  <2> HIDE DEF S, step
  <2> QED BY <2>1, <2>2 DEF LastOf, Max
<1>6. h = [s \in SUBSET S |-> IF s = {} THEN <<>> ELSE Joined(h[s \ {Max(s)}], q[Max(s)], sep)]
  <2> HIDE DEF S, step
  <2> QED BY <1>1, <1>5 DEF JoinIter
<1> HIDE DEF h
<1>7. g[0] = <<>>
  <2>1. 1 .. 0 = {} /\ {} \in SUBSET S /\ 0 \in 0 .. n
    BY <1>1
  <2> QED BY <1>6, <2>1
<1>8. ASSUME NEW i \in 1 .. n PROVE g[i] = Joined(g[i - 1], q[i], sep)
  <2>1. i \in 0 .. n /\ i - 1 \in 0 .. n
    BY <1>1
  <2>2. 1 .. i \in SUBSET S /\ 1 .. i # {} /\ Max(1 .. i) = i /\ (1 .. i) \ {i} = 1 .. i - 1
    BY <1>1, UpToPlace
  <2> HIDE DEF S
  <2>3. h[1 .. i] = Joined(h[1 .. i - 1], q[i], sep)
    BY <1>6, <2>2
  <2> QED BY <2>1, <2>3
<1>9. g \in [0 .. n -> V]
  <2>1. \A i \in 1 .. n : g[i - 1] \in V => g[i] \in V
    <3> HIDE DEF g
    <3> QED BY <1>1, <1>8 DEF n
  <2>2. g[0] \in V
    BY <1>7
  <2> HIDE DEF g
  <2>3. \A i \in 0 .. n : g[i] \in V
    BY <1>1, <2>1, <2>2, Along
  <2> QED BY <2>3 DEF g
<1>10. g[n] = Join(q, sep)
  BY <1>1, <1>2
<1>11. \A i \in 1 .. n : g[i] = Joined(g[i - 1], q[i], sep)
  BY <1>8
<1> HIDE DEF g
<1> QED BY <1>7, <1>9, <1>10, <1>11 DEF n

Split(b) ==
  [i \in DOMAIN b.text |-> [b EXCEPT !.text = <<[b.text[i] EXCEPT !.sep = " "]>>]]
WithUnits(us, b) == IF Words(b.text) <= Ceiling THEN Append(us, b) ELSE us \o Split(b)

UnitsIter(q) ==
  CHOOSE iter : iter = [s \in SUBSET (DOMAIN q) |->
    IF s = {} THEN <<>> ELSE WithUnits(iter[s \ {Max(s)}], q[Max(s)])]

(* Cutting paragraphs that are too long into sentences.                    *)
LEMMA UnitsSteps ==
  ASSUME NEW q \in Seq(Block), NEW V, <<>> \in V,
         \A v \in V : \A i \in 1 .. Len(q) : WithUnits(v, q[i]) \in V
  PROVE  \E g \in [0 .. Len(q) -> V] :
           /\ g[0] = <<>>
           /\ \A i \in 1 .. Len(q) : g[i] = WithUnits(g[i - 1], q[i])
           /\ g[Len(q)] = Units(q)
<1> DEFINE n == Len(q)
           S == 1 .. n
           step == [xv \in S \X V |-> WithUnits(xv[2], q[xv[1]])]
           h == UnitsIter(q)
           g == [i \in 0 .. n |-> h[1 .. i]]
<1>1. n \in Nat /\ DOMAIN q = S
  BY LenProperties
<1>2. Units(q) = h[S]
  BY <1>1 DEF Units, WithUnits, Split, UnitsIter, FoldLeft, MapThenFoldSet
<1>3. step \in [S \X V -> V]
  OBVIOUS
<1> HIDE DEF n
<1>4. PICK f : IsLeftFold(f, n, V, <<>>, step)
  <2> HIDE DEF step
  <2> QED BY <1>1, <1>3, LeftFold
<1>5. f = [s \in SUBSET S |-> IF s = {} THEN <<>> ELSE WithUnits(f[s \ {Max(s)}], q[Max(s)])]
  <2>1. ASSUME NEW T \in SUBSET S, T # {}
        PROVE  f[T] = WithUnits(f[T \ {LastOf(T)}], q[LastOf(T)])
    <3> DEFINE x == LastOf(T)
               v == f[T \ {x}]
    <3>1. x \in S /\ v \in V /\ f[T] = step[<<x, v>>]
      <4> HIDE DEF step
      <4> QED BY <1>4, <2>1 DEF IsLeftFold
    <3> HIDE DEF x, v
    <3>2. f[T] = WithUnits(v, q[x])
      BY <3>1
    <3> QED BY <3>2 DEF x, v
  <2>2. f \in [SUBSET S -> V] /\ f[{}] = <<>>
    BY <1>4 DEF IsLeftFold
  <2> HIDE DEF S, step
  <2> QED BY <2>1, <2>2 DEF LastOf, Max
<1>6. h = [s \in SUBSET S |-> IF s = {} THEN <<>> ELSE WithUnits(h[s \ {Max(s)}], q[Max(s)])]
  <2> HIDE DEF S, step
  <2> QED BY <1>1, <1>5 DEF UnitsIter
<1> HIDE DEF h
<1>7. g[0] = <<>>
  <2>1. 1 .. 0 = {} /\ {} \in SUBSET S /\ 0 \in 0 .. n
    BY <1>1
  <2> QED BY <1>6, <2>1
<1>8. ASSUME NEW i \in 1 .. n PROVE g[i] = WithUnits(g[i - 1], q[i])
  <2>1. i \in 0 .. n /\ i - 1 \in 0 .. n
    BY <1>1
  <2>2. 1 .. i \in SUBSET S /\ 1 .. i # {} /\ Max(1 .. i) = i /\ (1 .. i) \ {i} = 1 .. i - 1
    BY <1>1, UpToPlace
  <2> HIDE DEF S
  <2>3. h[1 .. i] = WithUnits(h[1 .. i - 1], q[i])
    BY <1>6, <2>2
  <2> QED BY <2>1, <2>3
<1>9. g \in [0 .. n -> V]
  <2>1. \A i \in 1 .. n : g[i - 1] \in V => g[i] \in V
    <3> HIDE DEF g
    <3> QED BY <1>1, <1>8 DEF n
  <2>2. g[0] \in V
    BY <1>7
  <2> HIDE DEF g
  <2>3. \A i \in 0 .. n : g[i] \in V
    BY <1>1, <2>1, <2>2, Along
  <2> QED BY <2>3 DEF g
<1>10. g[n] = Units(q)
  BY <1>1, <1>2
<1>11. \A i \in 1 .. n : g[i] = WithUnits(g[i - 1], q[i])
  BY <1>8
<1> HIDE DEF g
<1> QED BY <1>7, <1>9, <1>10, <1>11 DEF n

PackIter(q) ==
  CHOOSE iter : iter = [s \in SUBSET (DOMAIN q) |->
    IF s = {} THEN Packer ELSE Pack(iter[s \ {Max(s)}], q[Max(s)])]

(* Packing.                                                                *)
LEMMA PackSteps ==
  ASSUME NEW q \in Seq(Block), NEW V, Packer \in V,
         \A v \in V : \A i \in 1 .. Len(q) : Pack(v, q[i]) \in V
  PROVE  \E g \in [0 .. Len(q) -> V] :
           /\ g[0] = Packer
           /\ \A i \in 1 .. Len(q) : g[i] = Pack(g[i - 1], q[i])
           /\ g[Len(q)] = FoldLeft(Pack, Packer, q)
<1> DEFINE n == Len(q)
           S == 1 .. n
           step == [xv \in S \X V |-> Pack(xv[2], q[xv[1]])]
           h == PackIter(q)
           g == [i \in 0 .. n |-> h[1 .. i]]
<1>1. n \in Nat /\ DOMAIN q = S
  BY LenProperties
<1>2. FoldLeft(Pack, Packer, q) = h[S]
  BY <1>1 DEF PackIter, FoldLeft, MapThenFoldSet
<1>3. step \in [S \X V -> V]
  OBVIOUS
<1> HIDE DEF n
<1>4. PICK f : IsLeftFold(f, n, V, Packer, step)
  <2> HIDE DEF step
  <2> QED BY <1>1, <1>3, LeftFold
<1>5. f = [s \in SUBSET S |-> IF s = {} THEN Packer ELSE Pack(f[s \ {Max(s)}], q[Max(s)])]
  <2>1. ASSUME NEW T \in SUBSET S, T # {}
        PROVE  f[T] = Pack(f[T \ {LastOf(T)}], q[LastOf(T)])
    <3> DEFINE x == LastOf(T)
               v == f[T \ {x}]
    <3>1. x \in S /\ v \in V /\ f[T] = step[<<x, v>>]
      <4> HIDE DEF step
      <4> QED BY <1>4, <2>1 DEF IsLeftFold
    <3> HIDE DEF x, v
    <3>2. f[T] = Pack(v, q[x])
      BY <3>1
    <3> QED BY <3>2 DEF x, v
  <2>2. f \in [SUBSET S -> V] /\ f[{}] = Packer
    BY <1>4 DEF IsLeftFold
  <2> HIDE DEF S, step
  <2> QED BY <2>1, <2>2 DEF LastOf, Max
<1>6. h = [s \in SUBSET S |-> IF s = {} THEN Packer ELSE Pack(h[s \ {Max(s)}], q[Max(s)])]
  <2> HIDE DEF S, step
  <2> QED BY <1>1, <1>5 DEF PackIter
<1> HIDE DEF h
<1>7. g[0] = Packer
  <2>1. 1 .. 0 = {} /\ {} \in SUBSET S /\ 0 \in 0 .. n
    BY <1>1
  <2> QED BY <1>6, <2>1
<1>8. ASSUME NEW i \in 1 .. n PROVE g[i] = Pack(g[i - 1], q[i])
  <2>1. i \in 0 .. n /\ i - 1 \in 0 .. n
    BY <1>1
  <2>2. 1 .. i \in SUBSET S /\ 1 .. i # {} /\ Max(1 .. i) = i /\ (1 .. i) \ {i} = 1 .. i - 1
    BY <1>1, UpToPlace
  <2> HIDE DEF S
  <2>3. h[1 .. i] = Pack(h[1 .. i - 1], q[i])
    BY <1>6, <2>2
  <2> QED BY <2>1, <2>3
<1>9. g \in [0 .. n -> V]
  <2>1. \A i \in 1 .. n : g[i - 1] \in V => g[i] \in V
    <3> HIDE DEF g
    <3> QED BY <1>1, <1>8 DEF n
  <2>2. g[0] \in V
    BY <1>7
  <2> HIDE DEF g
  <2>3. \A i \in 0 .. n : g[i] \in V
    BY <1>1, <2>1, <2>2, Along
  <2> QED BY <2>3 DEF g
<1>10. g[n] = FoldLeft(Pack, Packer, q)
  BY <1>1, <1>2
<1>11. \A i \in 1 .. n : g[i] = Pack(g[i - 1], q[i])
  BY <1>8
<1> HIDE DEF g
<1> QED BY <1>7, <1>9, <1>10, <1>11 DEF n

TotalIter(q) ==
  CHOOSE iter : iter = [s \in SUBSET (DOMAIN q) |->
    IF s = {} THEN 0 ELSE (iter[s \ {Max(s)}] + Words(q[Max(s)].text))]

(* The words of a section.                                                 *)
LEMMA TotalSteps ==
  ASSUME NEW q \in Seq(Block), NEW V, 0 \in V,
         \A v \in V : \A i \in 1 .. Len(q) : (v + Words(q[i].text)) \in V
  PROVE  \E g \in [0 .. Len(q) -> V] :
           /\ g[0] = 0
           /\ \A i \in 1 .. Len(q) : g[i] = (g[i - 1] + Words(q[i].text))
           /\ g[Len(q)] = Total(q)
<1> DEFINE n == Len(q)
           S == 1 .. n
           step == [xv \in S \X V |-> (xv[2] + Words(q[xv[1]].text))]
           h == TotalIter(q)
           g == [i \in 0 .. n |-> h[1 .. i]]
<1>1. n \in Nat /\ DOMAIN q = S
  BY LenProperties
<1>2. Total(q) = h[S]
  BY <1>1 DEF Total, TotalIter, FoldLeft, MapThenFoldSet
<1>3. step \in [S \X V -> V]
  OBVIOUS
<1> HIDE DEF n
<1>4. PICK f : IsLeftFold(f, n, V, 0, step)
  <2> HIDE DEF step
  <2> QED BY <1>1, <1>3, LeftFold
<1>5. f = [s \in SUBSET S |-> IF s = {} THEN 0 ELSE (f[s \ {Max(s)}] + Words(q[Max(s)].text))]
  <2>1. ASSUME NEW T \in SUBSET S, T # {}
        PROVE  f[T] = (f[T \ {LastOf(T)}] + Words(q[LastOf(T)].text))
    <3> DEFINE x == LastOf(T)
               v == f[T \ {x}]
    <3>1. x \in S /\ v \in V /\ f[T] = step[<<x, v>>]
      <4> HIDE DEF step
      <4> QED BY <1>4, <2>1 DEF IsLeftFold
    <3> HIDE DEF x, v
    <3>2. f[T] = (v + Words(q[x].text))
      BY <3>1
    <3> QED BY <3>2 DEF x, v
  <2>2. f \in [SUBSET S -> V] /\ f[{}] = 0
    BY <1>4 DEF IsLeftFold
  <2> HIDE DEF S, step
  <2> QED BY <2>1, <2>2 DEF LastOf, Max
<1>6. h = [s \in SUBSET S |-> IF s = {} THEN 0 ELSE (h[s \ {Max(s)}] + Words(q[Max(s)].text))]
  <2> HIDE DEF S, step
  <2> QED BY <1>1, <1>5 DEF TotalIter
<1> HIDE DEF h
<1>7. g[0] = 0
  <2>1. 1 .. 0 = {} /\ {} \in SUBSET S /\ 0 \in 0 .. n
    BY <1>1
  <2> QED BY <1>6, <2>1
<1>8. ASSUME NEW i \in 1 .. n PROVE g[i] = (g[i - 1] + Words(q[i].text))
  <2>1. i \in 0 .. n /\ i - 1 \in 0 .. n
    BY <1>1
  <2>2. 1 .. i \in SUBSET S /\ 1 .. i # {} /\ Max(1 .. i) = i /\ (1 .. i) \ {i} = 1 .. i - 1
    BY <1>1, UpToPlace
  <2> HIDE DEF S
  <2>3. h[1 .. i] = (h[1 .. i - 1] + Words(q[i].text))
    BY <1>6, <2>2
  <2> QED BY <2>1, <2>3
<1>9. g \in [0 .. n -> V]
  <2>1. \A i \in 1 .. n : g[i - 1] \in V => g[i] \in V
    <3> HIDE DEF g
    <3> QED BY <1>1, <1>8 DEF n
  <2>2. g[0] \in V
    BY <1>7
  <2> HIDE DEF g
  <2>3. \A i \in 0 .. n : g[i] \in V
    BY <1>1, <2>1, <2>2, Along
  <2> QED BY <2>3 DEF g
<1>10. g[n] = Total(q)
  BY <1>1, <1>2
<1>11. \A i \in 1 .. n : g[i] = (g[i - 1] + Words(q[i].text))
  BY <1>8
<1> HIDE DEF g
<1> QED BY <1>7, <1>9, <1>10, <1>11 DEF n

Section == [sec : Title \cup {NoTitle}, sub : Title \cup {NoTitle}, blocks : Seq(Block)]
Titled(s) == [i \in DOMAIN Pieces(s.blocks) |-> WithTitle(<<s.sec, s.sub>>, Pieces(s.blocks)[i])]

EmitIter(q) ==
  CHOOSE iter : iter = [s \in SUBSET (DOMAIN q) |->
    IF s = {} THEN <<>> ELSE (iter[s \ {Max(s)}] \o Titled(q[Max(s)]))]

(* One section after the other.                                            *)
LEMMA EmitSteps ==
  ASSUME NEW q \in Seq(Section), NEW V, <<>> \in V,
         \A v \in V : \A i \in 1 .. Len(q) : (v \o Titled(q[i])) \in V
  PROVE  \E g \in [0 .. Len(q) -> V] :
           /\ g[0] = <<>>
           /\ \A i \in 1 .. Len(q) : g[i] = (g[i - 1] \o Titled(q[i]))
           /\ g[Len(q)] = EmitSections(q)
<1> DEFINE n == Len(q)
           S == 1 .. n
           step == [xv \in S \X V |-> (xv[2] \o Titled(q[xv[1]]))]
           h == EmitIter(q)
           g == [i \in 0 .. n |-> h[1 .. i]]
<1>1. n \in Nat /\ DOMAIN q = S
  BY LenProperties
<1>2. EmitSections(q) = h[S]
  BY <1>1 DEF EmitSections, Titled, EmitIter, FoldLeft, MapThenFoldSet
<1>3. step \in [S \X V -> V]
  OBVIOUS
<1> HIDE DEF n
<1>4. PICK f : IsLeftFold(f, n, V, <<>>, step)
  <2> HIDE DEF step
  <2> QED BY <1>1, <1>3, LeftFold
<1>5. f = [s \in SUBSET S |-> IF s = {} THEN <<>> ELSE (f[s \ {Max(s)}] \o Titled(q[Max(s)]))]
  <2>1. ASSUME NEW T \in SUBSET S, T # {}
        PROVE  f[T] = (f[T \ {LastOf(T)}] \o Titled(q[LastOf(T)]))
    <3> DEFINE x == LastOf(T)
               v == f[T \ {x}]
    <3>1. x \in S /\ v \in V /\ f[T] = step[<<x, v>>]
      <4> HIDE DEF step
      <4> QED BY <1>4, <2>1 DEF IsLeftFold
    <3> HIDE DEF x, v
    <3>2. f[T] = (v \o Titled(q[x]))
      BY <3>1
    <3> QED BY <3>2 DEF x, v
  <2>2. f \in [SUBSET S -> V] /\ f[{}] = <<>>
    BY <1>4 DEF IsLeftFold
  <2> HIDE DEF S, step
  <2> QED BY <2>1, <2>2 DEF LastOf, Max
<1>6. h = [s \in SUBSET S |-> IF s = {} THEN <<>> ELSE (h[s \ {Max(s)}] \o Titled(q[Max(s)]))]
  <2> HIDE DEF S, step
  <2> QED BY <1>1, <1>5 DEF EmitIter
<1> HIDE DEF h
<1>7. g[0] = <<>>
  <2>1. 1 .. 0 = {} /\ {} \in SUBSET S /\ 0 \in 0 .. n
    BY <1>1
  <2> QED BY <1>6, <2>1
<1>8. ASSUME NEW i \in 1 .. n PROVE g[i] = (g[i - 1] \o Titled(q[i]))
  <2>1. i \in 0 .. n /\ i - 1 \in 0 .. n
    BY <1>1
  <2>2. 1 .. i \in SUBSET S /\ 1 .. i # {} /\ Max(1 .. i) = i /\ (1 .. i) \ {i} = 1 .. i - 1
    BY <1>1, UpToPlace
  <2> HIDE DEF S
  <2>3. h[1 .. i] = (h[1 .. i - 1] \o Titled(q[i]))
    BY <1>6, <2>2
  <2> QED BY <2>1, <2>3
<1>9. g \in [0 .. n -> V]
  <2>1. \A i \in 1 .. n : g[i - 1] \in V => g[i] \in V
    <3> HIDE DEF g
    <3> QED BY <1>1, <1>8 DEF n
  <2>2. g[0] \in V
    BY <1>7
  <2> HIDE DEF g
  <2>3. \A i \in 0 .. n : g[i] \in V
    BY <1>1, <2>1, <2>2, Along
  <2> QED BY <2>3 DEF g
<1>10. g[n] = EmitSections(q)
  BY <1>1, <1>2
<1>11. \A i \in 1 .. n : g[i] = (g[i - 1] \o Titled(q[i]))
  BY <1>8
<1> HIDE DEF g
<1> QED BY <1>7, <1>9, <1>10, <1>11 DEF n

-----------------------------------------------------------------------------
(***************************************************************************)
(* Parts one after the other.  Part i ends at c[i] and begins after        *)
(* c[i - 1]; none is empty.                                                *)
(***************************************************************************)
IsCut(B, c, n, a, z) ==
  /\ n \in Nat /\ a \in Nat /\ z \in 0 .. Len(B)
  /\ c \in [0 .. n -> 0 .. Len(B)] /\ c[0] = a /\ c[n] = z
  /\ \A i \in 1 .. n : c[i - 1] < c[i]

LEMMA CutGrows ==
  ASSUME NEW B \in Seq(Sentence), NEW c, NEW n, NEW a, NEW z, IsCut(B, c, n, a, z),
         NEW i \in 0 .. n, NEW j \in i .. n
  PROVE  c[i] \in Nat /\ c[j] \in Nat /\ c[i] <= c[j] /\ (i < j => c[i] < c[j])
<1> DEFINE P == {k \in 0 .. n : k >= i => c[i] <= c[k] /\ (i < k => c[i] < c[k])}
<1>1. n \in Nat /\ Len(B) \in Nat /\ c \in [0 .. n -> Nat] /\ \A k \in 1 .. n : c[k - 1] < c[k]
  <2>1. Len(B) \in Nat
    BY LenProperties
  <2> QED BY <2>1 DEF IsCut
<1>2. 0 \in P
  BY <1>1
<1>3. ASSUME NEW k \in 1 .. n, k - 1 \in P PROVE k \in P
  <2>1. k \in 0 .. n /\ k - 1 \in 0 .. n /\ c[k - 1] < c[k] /\ c[k] \in Nat /\ c[k - 1] \in Nat /\ c[i] \in Nat
    BY <1>1
  <2>2. k - 1 >= i => c[i] <= c[k - 1]
    BY <1>3
  <2> QED BY <1>1, <2>1, <2>2
<1> HIDE DEF P
<1>4. \A k \in 0 .. n : k \in P
  BY <1>1, <1>2, <1>3, UpTo
<1>5. j \in P /\ j >= i /\ j \in 0 .. n
  BY <1>1, <1>4
<1> QED BY <1>1, <1>5 DEF P

(* Every place is in one of the parts.                                     *)
LEMMA CutCovers ==
  ASSUME NEW B \in Seq(Sentence), NEW c, NEW n, NEW a, NEW z, IsCut(B, c, n, a, z),
         NEW p \in a + 1 .. z
  PROVE  \E i \in 1 .. n : p \in c[i - 1] + 1 .. c[i]
<1> DEFINE P == {k \in 0 .. n : p <= c[k] => \E i \in 1 .. n : p \in c[i - 1] + 1 .. c[i]}
<1>1. n \in Nat /\ a \in Nat /\ Len(B) \in Nat /\ c \in [0 .. n -> Nat] /\ c[0] = a /\ c[n] = z
  <2>1. Len(B) \in Nat
    BY LenProperties
  <2> QED BY <2>1 DEF IsCut
<1>2. 0 \in P
  BY <1>1
<1>3. ASSUME NEW k \in 1 .. n, k - 1 \in P PROVE k \in P
  <2>1. k \in 0 .. n /\ k - 1 \in 0 .. n /\ c[k] \in Nat /\ c[k - 1] \in Nat /\ p \in Int
    BY <1>1
  <2>2. CASE p <= c[k - 1]
    BY <1>3, <2>1, <2>2
  <2>3. CASE ~ p <= c[k - 1]
    <3>1. p <= c[k] => p \in c[k - 1] + 1 .. c[k]
      BY <2>1, <2>3
    <3> QED BY <2>1, <3>1
  <2> QED BY <2>2, <2>3
<1> HIDE DEF P
<1>4. \A k \in 0 .. n : k \in P
  BY <1>1, <1>2, <1>3, UpTo
<1>5. n \in P /\ p <= c[n]
  BY <1>1, <1>4
<1> QED BY <1>5 DEF P

AreOne(B, e, c, m, d, n, a, z) ==
  /\ IsCut(B, e, m + n, a, z)
  /\ \A i \in 0 .. m : e[i] = c[i]
  /\ \A i \in 0 .. n : e[m + i] = d[i]

(* Cuts of neighbouring parts are one cut.                                 *)
LEMMA CutConcat ==
  ASSUME NEW B \in Seq(Sentence), NEW c, NEW d, NEW m, NEW n, NEW a, NEW b, NEW z,
         IsCut(B, c, m, a, b), IsCut(B, d, n, b, z)
  PROVE  \E e : AreOne(B, e, c, m, d, n, a, z)
<1> DEFINE e == [i \in 0 .. m + n |-> IF i <= m THEN c[i] ELSE d[i - m]]
           L == 0 .. Len(B)
<1>1. /\ m \in Nat /\ n \in Nat /\ c \in [0 .. m -> L] /\ d \in [0 .. n -> L] /\ L \subseteq Nat
      /\ c[0] = a /\ c[m] = b /\ d[0] = b /\ d[n] = z /\ a \in Nat /\ z \in L
  <2>1. Len(B) \in Nat
    BY LenProperties
  <2> QED BY <2>1 DEF IsCut
<1> HIDE DEF L
<1>2. \A i \in 0 .. m : e[i] = c[i]
  BY <1>1
<1>3. ASSUME NEW i \in 0 .. n PROVE e[m + i] = d[i]
  <2>1. m + i \in 0 .. m + n
    BY <1>1
  <2>2. CASE i = 0
    BY <1>1, <2>1, <2>2
  <2>3. CASE i # 0
    <3>1. ~ m + i <= m /\ (m + i) - m = i
      BY <1>1, <2>3
    <3> QED BY <2>1, <3>1
  <2> QED BY <2>2, <2>3
<1>4. e \in [0 .. m + n -> L]
  <2> SUFFICES ASSUME NEW i \in 0 .. m + n PROVE (IF i <= m THEN c[i] ELSE d[i - m]) \in L
    OBVIOUS
  <2>1. i <= m => i \in 0 .. m
    BY <1>1
  <2>2. ~ i <= m => i - m \in 0 .. n
    BY <1>1
  <2> QED BY <1>1, <2>1, <2>2
<1> HIDE DEF e
<1>5. ASSUME NEW i \in 1 .. m + n PROVE e[i - 1] < e[i]
  <2>1. CASE i <= m
    <3>1. i \in 1 .. m /\ i \in 0 .. m /\ i - 1 \in 0 .. m
      BY <1>1, <2>1
    <3> QED BY <1>2, <3>1 DEF IsCut
  <2>2. CASE ~ i <= m
    <3> DEFINE k == i - m
    <3>1. k \in 1 .. n /\ k \in 0 .. n /\ k - 1 \in 0 .. n /\ m + k = i /\ m + (k - 1) = i - 1
      BY <1>1, <2>2
    <3> HIDE DEF k
    <3>2. e[m + k] = d[k] /\ e[m + (k - 1)] = d[k - 1]
      BY <1>3, <3>1
    <3>3. d[k - 1] < d[k]
      BY <3>1 DEF IsCut
    <3> QED BY <3>1, <3>2, <3>3
  <2> QED BY <2>1, <2>2
<1>6. e[0] = a /\ e[m + n] = z /\ m + n \in Nat
  <2>1. e[0] = c[0] /\ e[m + n] = d[n]
    BY <1>1, <1>2, <1>3
  <2> QED BY <1>1, <2>1
<1>7. IsCut(B, e, m + n, a, z)
  BY <1>1, <1>4, <1>5, <1>6 DEF IsCut, L
<1>8. AreOne(B, e, c, m, d, n, a, z)
  BY <1>2, <1>3, <1>7 DEF AreOne
<1> QED BY <1>8

Pieced(B, ts, c, a, z) ==
  /\ ts \in Seq(Seq(Sentence)) /\ IsCut(B, c, Len(ts), a, z)
  /\ \A i \in 1 .. Len(ts) : Part(B, ts[i], c[i - 1], c[i])

JoinedTo(B, v, ts, a, z, i) ==
  /\ Part(B, v, a, z)
  /\ i >= 1 => Len(ts[1]) <= Len(v) /\ \A k \in 1 .. Len(ts[1]) : v[k] = ts[1][k]

(* Joined, the parts are one part, that opens as the first of them does.   *)
LEMMA JoinTells ==
  ASSUME NEW B \in Seq(Sentence), NEW ts, NEW c, NEW a, NEW z, Pieced(B, ts, c, a, z),
         NEW sep \in Separator
  PROVE  /\ Part(B, Join(ts, sep), a, z)
         /\ Len(ts) > 0 => \A k \in 1 .. Len(ts[1]) : Join(ts, sep)[k] = ts[1][k]
<1> DEFINE n == Len(ts)
           V == Seq(Sentence)
<1>1. ts \in Seq(Seq(Sentence)) /\ n \in Nat /\ \A i \in 1 .. n : ts[i] \in Seq(Sentence)
  BY LenProperties, ElementOfSeq DEF Pieced
<1>2. ASSUME NEW i \in 1 .. n
      PROVE  /\ Part(B, ts[i], c[i - 1], c[i]) /\ c[i - 1] \in Nat /\ c[i] \in Nat /\ c[i - 1] < c[i]
             /\ ts[i] # <<>> /\ Len(ts[i]) \in Nat
  <2>1. Part(B, ts[i], c[i - 1], c[i]) /\ c[i - 1] < c[i] /\ i \in 0 .. n /\ i - 1 \in 0 .. n
    BY <1>1 DEF Pieced, IsCut
  <2>2. c[i - 1] \in Nat /\ c[i] \in Nat
    <3>1. Len(B) \in Nat
      BY LenProperties
    <3>2. c \in [0 .. n -> 0 .. Len(B)]
      BY DEF Pieced, IsCut
    <3> QED BY <2>1, <3>1, <3>2
  <2>3. Len(ts[i]) = c[i] - c[i - 1]
    BY <2>1 DEF Part
  <2>4. ts[i] # <<>>
    BY <2>1, <2>2, <2>3, EmptySeq
  <2> QED BY <2>1, <2>2, <2>3, <2>4
<1>3. ASSUME NEW v \in V, NEW i \in 1 .. n PROVE Joined(v, ts[i], sep) \in V
  <2>1. Part(B, [ts[i] EXCEPT ![1].sep = sep], c[i - 1], c[i])
    BY <1>2, PartSeparated
  <2>2. [ts[i] EXCEPT ![1].sep = sep] \in Seq(Sentence)
    BY <2>1 DEF Part
  <2> QED BY <1>1, <2>2, ConcatProperties DEF Joined
<1>4. PICK g \in [0 .. n -> V] :
           /\ g[0] = <<>>
           /\ \A i \in 1 .. n : g[i] = Joined(g[i - 1], ts[i], sep)
           /\ g[n] = Join(ts, sep)
  <2>1. <<>> \in V
    BY EmptySeq
  <2> HIDE DEF V
  <2> QED BY <1>1, <1>3, <2>1, JoinSteps
<1> DEFINE P == {i \in 0 .. n : JoinedTo(B, g[i], ts, a, c[i], i)}
<1>5. c[0] = a /\ c[n] = z /\ a \in 0 .. Len(B) /\ Len(B) \in Nat
  <2>1. Len(B) \in Nat /\ 0 \in 0 .. n
    BY <1>1, LenProperties
  <2> QED BY <2>1 DEF Pieced, IsCut
<1>6. 0 \in P
  <2>1. Part(B, <<>>, a, a)
    <3>1. <<>> \in Seq(Sentence) /\ Len(<<>>) = 0
      BY EmptySeq
    <3>2. a - a = 0 /\ 1 .. 0 = {} /\ a \in a .. Len(B) /\ a \in Nat
      BY <1>5
    <3> QED BY <3>1, <3>2 DEF Part
  <2> QED BY <1>1, <1>4, <1>5, <2>1 DEF JoinedTo
<1>7. ASSUME NEW i \in 1 .. n, i - 1 \in P PROVE i \in P
  <2>0. JoinedTo(B, g[i - 1], ts, a, c[i - 1], i - 1) /\ i \in 0 .. n
    BY <1>1, <1>7
  <2>1. Part(B, g[i - 1], a, c[i - 1]) /\ g[i] = Joined(g[i - 1], ts[i], sep) /\ i \in 0 .. n
    BY <1>4, <2>0 DEF JoinedTo
  <2>2. CASE i = 1
    <3>1. g[i] = ts[1] /\ c[i - 1] = a
      BY <1>4, <1>5, <2>1, <2>2 DEF Joined
    <3>2. Part(B, ts[1], a, c[1]) /\ Len(ts[1]) \in Nat
      BY <1>2, <2>2, <3>1
    <3> QED BY <2>1, <2>2, <3>1, <3>2 DEF JoinedTo
  <2>3. CASE i # 1
    <3> DEFINE u == [ts[i] EXCEPT ![1].sep = sep]
    <3>1. /\ Len(ts[1]) <= Len(g[i - 1]) /\ Len(ts[1]) \in Nat /\ Len(ts[1]) > 0
          /\ \A k \in 1 .. Len(ts[1]) : g[i - 1][k] = ts[1][k]
      <4>1. 1 \in 1 .. n /\ i - 1 >= 1
        BY <1>1, <2>3
      <4>2. Len(ts[1]) \in Nat /\ ts[1] \in Seq(Sentence) /\ ts[1] # <<>>
        BY <1>1, <1>2, <4>1
      <4>3. Len(ts[1]) > 0
        BY <4>2, EmptySeq
      <4> QED BY <2>0, <4>1, <4>2, <4>3 DEF JoinedTo
    <3>2. g[i - 1] \in Seq(Sentence) /\ Len(g[i - 1]) \in Nat
      BY <2>1, LenProperties DEF Part
    <3>3. g[i - 1] # <<>>
      BY <3>1, <3>2, EmptySeq
    <3>4. g[i] = g[i - 1] \o u
      BY <2>1, <3>3 DEF Joined
    <3>5. Part(B, u, c[i - 1], c[i])
      BY <1>2, PartSeparated
    <3> HIDE DEF u
    <3>6. Part(B, g[i], a, c[i]) /\ \A k \in 1 .. Len(g[i - 1]) : g[i][k] = g[i - 1][k]
      BY <2>1, <3>4, <3>5, PartConcat
    <3>7. Len(g[i]) >= Len(g[i - 1])
      <4>1. u \in Seq(Sentence)
        BY <3>5 DEF Part
      <4>2. Len(g[i]) = Len(g[i - 1]) + Len(u) /\ Len(u) \in Nat
        BY <3>2, <3>4, <4>1, ConcatProperties, LenProperties
      <4> QED BY <3>2, <4>2
    <3>8. Len(g[i]) \in Nat
      <4>1. g[i] \in Seq(Sentence)
        BY <3>6 DEF Part
      <4> QED BY <4>1, LenProperties
    <3>9. \A k \in 1 .. Len(ts[1]) : g[i][k] = ts[1][k]
      BY <3>1, <3>2, <3>6
    <3>10. Len(ts[1]) <= Len(g[i])
      BY <3>1, <3>2, <3>7, <3>8
    <3> QED BY <2>1, <3>6, <3>9, <3>10 DEF JoinedTo
  <2> QED BY <2>2, <2>3
<1> HIDE DEF P
<1>8. n \in P
  <2>1. \A i \in 0 .. n : i \in P
    BY <1>1, <1>6, <1>7, UpTo
  <2> QED BY <1>1, <2>1
<1>9. Part(B, g[n], a, z) /\ (n >= 1 => \A k \in 1 .. Len(ts[1]) : g[n][k] = ts[1][k])
  BY <1>5, <1>8 DEF P, JoinedTo
<1>10. n > 0 => n >= 1
  BY <1>1
<1> QED BY <1>4, <1>9, <1>10

-----------------------------------------------------------------------------
(***************************************************************************)
(* Blocks, one after the other; each cites lines that its sentences are on.*)
(***************************************************************************)
Cites(B, b, a, z) == \A p \in a + 1 .. z : B[p].line \in b.from .. b.to

Laid(B, bs, c, a, z) ==
  /\ bs \in Seq(Block) /\ IsCut(B, c, Len(bs), a, z)
  /\ \A i \in 1 .. Len(bs) : Part(B, bs[i].text, c[i - 1], c[i]) /\ Cites(B, bs[i], c[i - 1], c[i])

(* The lines blocks cite do not go back.                                   *)
Rising(bs) ==
  \A i, j \in 1 .. Len(bs) : i < j => bs[i].from <= bs[j].from /\ bs[i].to <= bs[j].to

LEMMA LaidBlocks ==
  ASSUME NEW B \in Seq(Sentence), NEW bs, NEW c, NEW a, NEW z, Laid(B, bs, c, a, z)
  PROVE  /\ Len(bs) \in Nat /\ bs \in Seq(Block) /\ DOMAIN bs = 1 .. Len(bs)
         /\ a \in Nat /\ z \in Nat /\ z <= Len(B) /\ c[0] = a /\ c[Len(bs)] = z
         /\ \A i \in 1 .. Len(bs) :
              /\ bs[i] \in Block /\ bs[i].text # <<>> /\ bs[i].text \in Seq(Sentence)
              /\ c[i - 1] \in Nat /\ c[i] \in Nat /\ c[i - 1] < c[i] /\ c[i] <= Len(B)
              /\ Part(B, bs[i].text, c[i - 1], c[i]) /\ Cites(B, bs[i], c[i - 1], c[i])
<1> DEFINE n == Len(bs)
<1>1. /\ n \in Nat /\ bs \in Seq(Block) /\ DOMAIN bs = 1 .. n /\ \A i \in 1 .. n : bs[i] \in Block
      /\ Len(B) \in Nat
  BY LenProperties, ElementOfSeq DEF Laid
<1>2. /\ a \in Nat /\ z \in 0 .. Len(B) /\ c[0] = a /\ c[n] = z /\ c \in [0 .. n -> 0 .. Len(B)]
      /\ \A i \in 1 .. n : c[i - 1] < c[i]
  BY DEF Laid, IsCut
<1>3. ASSUME NEW i \in 1 .. n
      PROVE  /\ bs[i] \in Block /\ bs[i].text # <<>> /\ bs[i].text \in Seq(Sentence)
             /\ c[i - 1] \in Nat /\ c[i] \in Nat /\ c[i - 1] < c[i] /\ c[i] <= Len(B)
             /\ Part(B, bs[i].text, c[i - 1], c[i]) /\ Cites(B, bs[i], c[i - 1], c[i])
  <2>1. c[i - 1] < c[i] /\ i \in 0 .. n /\ i - 1 \in 0 .. n
    BY <1>1, <1>2
  <2>2. c[i - 1] \in Nat /\ c[i] \in Nat /\ c[i] <= Len(B)
    <3> DEFINE m == Len(B)
    <3>1. c[i - 1] \in 0 .. m /\ c[i] \in 0 .. m
      <4> HIDE DEF n, m
      <4> QED BY <1>2, <2>1 DEF m
    <3> HIDE DEF n
    <3> QED BY <1>1, <3>1
  <2>3. Part(B, bs[i].text, c[i - 1], c[i]) /\ Cites(B, bs[i], c[i - 1], c[i])
    BY DEF Laid
  <2>4. bs[i].text \in Seq(Sentence) /\ Len(bs[i].text) = c[i] - c[i - 1]
    BY <2>3 DEF Part
  <2>5. bs[i].text # <<>>
    BY <2>1, <2>2, <2>4, EmptySeq
  <2> QED BY <1>1, <2>1, <2>2, <2>3, <2>4, <2>5
<1>4. z \in Nat /\ z <= Len(B)
  BY <1>1, <1>2
<1> QED BY <1>1, <1>2, <1>3, <1>4

LEMMA TextsPieced ==
  ASSUME NEW B \in Seq(Sentence), NEW bs, NEW c, NEW a, NEW z, Laid(B, bs, c, a, z)
  PROVE  /\ Pieced(B, Texts(bs), c, a, z)
         /\ Len(Texts(bs)) = Len(bs)
<1> DEFINE n == Len(bs)
           ts == Texts(bs)
<1>1. n \in Nat /\ DOMAIN bs = 1 .. n
      /\ \A i \in 1 .. n : bs[i].text \in Seq(Sentence) /\ Part(B, bs[i].text, c[i - 1], c[i])
  BY LaidBlocks
<1>2. ts = [i \in 1 .. n |-> bs[i].text]
  BY <1>1 DEF Texts
<1> HIDE DEF ts, n
<1>3. ts \in [1 .. n -> Seq(Sentence)]
  BY <1>1, <1>2
<1>4. ts \in Seq(Seq(Sentence)) /\ Len(ts) = n
  BY <1>1, <1>3
<1>5. \A i \in 1 .. n : Part(B, ts[i], c[i - 1], c[i])
  BY <1>1, <1>2
<1>6. IsCut(B, c, n, a, z)
  BY DEF Laid, n
<1> QED BY <1>4, <1>5, <1>6 DEF Pieced, ts, n

LEMMA TotalWords ==
  ASSUME NEW B \in Seq(Sentence), NEW W, Sums(B, W), NEW bs, NEW c, NEW a, NEW z, Laid(B, bs, c, a, z)
  PROVE  Total(bs) = W[z] - W[a]
<1> DEFINE n == Len(bs)
<1>1. n \in Nat /\ bs \in Seq(Block) /\ c[0] = a /\ c[n] = z /\ a \in Nat /\ z \in Nat /\ z <= Len(B)
  BY LaidBlocks
<1>2. ASSUME NEW i \in 1 .. n
      PROVE  /\ Words(bs[i].text) \in Nat /\ Words(bs[i].text) = W[c[i]] - W[c[i - 1]]
             /\ W[c[i]] \in Nat /\ W[c[i - 1]] \in Nat
  <2>1. Part(B, bs[i].text, c[i - 1], c[i])
    BY LaidBlocks
  <2> QED BY <2>1, PartWords
<1>3. PICK g \in [0 .. n -> Nat] :
           /\ g[0] = 0
           /\ \A i \in 1 .. n : g[i] = g[i - 1] + Words(bs[i].text)
           /\ g[n] = Total(bs)
  <2>1. \A v \in Nat : \A i \in 1 .. n : v + Words(bs[i].text) \in Nat
    BY <1>2
  <2>2. 0 \in Nat
    OBVIOUS
  <2> QED BY <1>1, <2>1, <2>2, TotalSteps
<1> DEFINE P == {i \in 0 .. n : g[i] = W[c[i]] - W[a]}
<1>4. W[a] \in Nat
  <2>1. a <= Len(B) /\ Len(B) \in Nat
    <3>1. IsCut(B, c, n, a, z) /\ 0 \in 0 .. n /\ Len(B) \in Nat
      BY <1>1, LenProperties DEF Laid
    <3> QED BY <3>1 DEF IsCut
  <2>2. a \in 0 .. Len(B)
    BY <1>1, <2>1
  <2> QED BY <2>2 DEF Sums
<1>5. 0 \in P
  BY <1>1, <1>3, <1>4
<1>6. ASSUME NEW i \in 1 .. n, i - 1 \in P PROVE i \in P
  <2>1. i \in 0 .. n /\ g[i - 1] = W[c[i - 1]] - W[a] /\ g[i] = g[i - 1] + Words(bs[i].text)
    BY <1>1, <1>3, <1>6
  <2> DEFINE w == Words(bs[i].text)
             x == W[c[i]]
             y == W[c[i - 1]]
             o == W[a]
  <2>3. w \in Nat /\ w = x - y /\ x \in Nat /\ y \in Nat
    BY <1>2
  <2>4. g[i - 1] = y - o /\ g[i] = g[i - 1] + w /\ o \in Nat
    BY <1>4, <2>1
  <2> HIDE DEF w, x, y, o
  <2>5. g[i] = x - o
    BY <2>3, <2>4
  <2>2. g[i] = W[c[i]] - W[a]
    BY <2>5 DEF x, o
  <2> QED BY <2>1, <2>2
<1> HIDE DEF P
<1>7. n \in P
  <2>1. \A i \in 0 .. n : i \in P
    BY <1>1, <1>5, <1>6, UpTo
  <2> QED BY <1>1, <2>1
<1> QED BY <1>1, <1>3, <1>7 DEF P

LEMMA LaidConcat ==
  ASSUME NEW B \in Seq(Sentence), NEW us, NEW vs, NEW d, NEW e, NEW a, NEW m, NEW z,
         Laid(B, us, d, a, m), Laid(B, vs, e, m, z)
  PROVE  /\ \E c : Laid(B, us \o vs, c, a, z)
         /\ Len(us \o vs) = Len(us) + Len(vs)
         /\ \A k \in 1 .. Len(us) : (us \o vs)[k] = us[k]
         /\ \A k \in Len(us) + 1 .. Len(us) + Len(vs) : (us \o vs)[k] = vs[k - Len(us)]
<1> DEFINE l == Len(us)
           n == Len(vs)
           ws == us \o vs
<1>1. us \in Seq(Block) /\ vs \in Seq(Block) /\ l \in Nat /\ n \in Nat
  BY LaidBlocks
<1>2. /\ ws \in Seq(Block) /\ Len(ws) = l + n
      /\ \A i \in 1 .. l + n : ws[i] = IF i <= l THEN us[i] ELSE vs[i - l]
  BY <1>1, ConcatProperties
<1>0. PICK c : AreOne(B, c, d, l, e, n, a, z)
  <2>1. IsCut(B, d, l, a, m) /\ IsCut(B, e, n, m, z)
    BY DEF Laid
  <2> HIDE DEF l, n
  <2> QED BY <2>1, CutConcat
<1>3. /\ IsCut(B, c, l + n, a, z)
      /\ \A i \in 0 .. l : c[i] = d[i]
      /\ \A i \in 0 .. n : c[l + i] = e[i]
  BY <1>0 DEF AreOne
<1>4. \A k \in 1 .. l : ws[k] = us[k]
  <2> HIDE DEF ws
  <2> QED BY <1>1, <1>2
<1>5. \A k \in l + 1 .. l + n : ws[k] = vs[k - l]
  <2> SUFFICES ASSUME NEW k \in l + 1 .. l + n PROVE ws[k] = vs[k - l]
    OBVIOUS
  <2> HIDE DEF ws, l, n
  <2>1. k \in 1 .. l + n /\ ~ k <= l
    BY <1>1
  <2> QED BY <1>2, <2>1
<1>6. ASSUME NEW k \in 1 .. l + n
      PROVE  Part(B, ws[k].text, c[k - 1], c[k]) /\ Cites(B, ws[k], c[k - 1], c[k])
  <2>1. CASE k <= l
    <3>1. k \in 1 .. l /\ k \in 0 .. l /\ k - 1 \in 0 .. l
      BY <1>1, <2>1
    <3>2. ws[k] = us[k] /\ c[k] = d[k] /\ c[k - 1] = d[k - 1]
      BY <1>3, <1>4, <3>1
    <3>3. Part(B, us[k].text, d[k - 1], d[k]) /\ Cites(B, us[k], d[k - 1], d[k])
      BY <3>1, LaidBlocks
    <3> HIDE DEF ws
    <3> QED BY <3>2, <3>3
  <2>2. CASE ~ k <= l
    <3> DEFINE j == k - l
    <3>1. j \in 1 .. n /\ j \in 0 .. n /\ j - 1 \in 0 .. n /\ l + j = k /\ l + (j - 1) = k - 1
          /\ k \in l + 1 .. l + n
      BY <1>1, <2>2
    <3>2. ws[k] = vs[j]
      BY <1>5, <3>1
    <3> HIDE DEF j, ws
    <3>3. c[k] = e[j] /\ c[k - 1] = e[j - 1]
      BY <1>3, <3>1
    <3>4. Part(B, vs[j].text, e[j - 1], e[j]) /\ Cites(B, vs[j], e[j - 1], e[j])
      BY <3>1, LaidBlocks
    <3> QED BY <3>2, <3>3, <3>4
  <2> QED BY <2>1, <2>2
<1> HIDE DEF ws
<1>7. Laid(B, ws, c, a, z)
  BY <1>2, <1>3, <1>6 DEF Laid
<1> QED BY <1>2, <1>4, <1>5, <1>7 DEF ws

(* One block is laid out where it stands.                                  *)
LEMMA LaidOne ==
  ASSUME NEW B \in Seq(Sentence), NEW b \in Block, NEW a, NEW z, Part(B, b.text, a, z), a < z,
         Cites(B, b, a, z)
  PROVE  Laid(B, <<b>>, [i \in 0 .. 1 |-> IF i = 0 THEN a ELSE z], a, z)
<1> DEFINE bs == <<b>>
           c == [i \in 0 .. 1 |-> IF i = 0 THEN a ELSE z]
<1>1. bs \in Seq(Block) /\ Len(bs) = 1 /\ bs[1] = b
  OBVIOUS
<1>2. a \in Nat /\ z \in a .. Len(B) /\ Len(B) \in Nat
  BY LenProperties DEF Part
<1>3. c \in [0 .. 1 -> 0 .. Len(B)] /\ c[0] = a /\ c[1] = z /\ 1 - 1 = 0
  BY <1>2
<1> HIDE DEF bs, c
<1>4. \A i \in 1 .. 1 : i = 1
  OBVIOUS
<1>5. \A i \in 1 .. 1 : c[i - 1] < c[i]
  BY <1>3, <1>4
<1>6. z \in 0 .. Len(B) /\ 1 \in Nat
  BY <1>2
<1>7. IsCut(B, c, 1, a, z)
  BY <1>2, <1>3, <1>5, <1>6 DEF IsCut
<1>8. \A i \in 1 .. 1 : Part(B, bs[i].text, c[i - 1], c[i]) /\ Cites(B, bs[i], c[i - 1], c[i])
  BY <1>1, <1>3, <1>4
<1>9. Laid(B, bs, c, a, z)
  BY <1>1, <1>7, <1>8 DEF Laid
<1> QED BY <1>9 DEF bs, c

(* Its sentences are, too, when it is split.                               *)
LEMMA LaidSplit ==
  ASSUME NEW B \in Seq(Sentence), NEW b \in Block, NEW a, NEW z, Part(B, b.text, a, z), a < z,
         Cites(B, b, a, z)
  PROVE  /\ \E c : Laid(B, Split(b), c, a, z)
         /\ \A k \in 1 .. Len(Split(b)) : /\ Split(b)[k].from = b.from /\ Split(b)[k].to = b.to
                                        /\ Len(Split(b)[k].text) = 1
<1> DEFINE n == z - a
           us == Split(b)
           c == [i \in 0 .. n |-> a + i]
<1>1. a \in Nat /\ z \in Nat /\ z <= Len(B) /\ Len(B) \in Nat /\ n \in Nat /\ Len(b.text) = n
      /\ b.text \in Seq(Sentence) /\ DOMAIN b.text = 1 .. n
  BY LenProperties DEF Part
<1>2. \A i \in 1 .. n : b.text[i] \in Sentence
  BY <1>1, ElementOfSeq
<1> DEFINE s(i) == [b.text[i] EXCEPT !.sep = " "]
           u(i) == [b EXCEPT !.text = <<s(i)>>]
<1>3. us = [i \in 1 .. n |-> u(i)]
  BY <1>1 DEF Split
<1>4. ASSUME NEW i \in 1 .. n
      PROVE  /\ u(i) \in Block /\ u(i).from = b.from /\ u(i).to = b.to /\ Len(u(i).text) = 1
             /\ Part(B, u(i).text, a + (i - 1), a + i)
  <2>1. /\ s(i) \in Sentence /\ s(i).line = b.text[i].line /\ s(i).at = b.text[i].at
        /\ s(i).words = b.text[i].words
    <3>1. " " \in Separator
      BY DEF Separator, Blank
    <3> QED BY <1>2, <3>1, Separated
  <2> DEFINE t == <<s(i)>>
  <2> HIDE DEF s
  <2>2. t \in Seq(Sentence) /\ Len(t) = 1 /\ t[1] = s(i)
    BY <2>1
  <2> HIDE DEF t
  <2>3. [b EXCEPT !.text = t] \in Block /\ [b EXCEPT !.text = t].text = t
        /\ [b EXCEPT !.text = t].from = b.from /\ [b EXCEPT !.text = t].to = b.to
    BY <2>2 DEF Block
  <2>4. Part(B, t, a + (i - 1), a + i)
    <3>1. (a + i) - (a + (i - 1)) = 1 /\ a + (i - 1) \in Nat /\ a + i \in a + (i - 1) .. Len(B)
          /\ (a + (i - 1)) + 1 = a + i /\ i \in 1 .. z - a
      BY <1>1
    <3>2. \A j \in 1 .. 1 : j = 1
      OBVIOUS
    <3>3. /\ b.text[i].line = B[a + i].line /\ b.text[i].at = B[a + i].at
          /\ b.text[i].words = B[a + i].words
      BY <3>1 DEF Part
    <3> QED BY <2>1, <2>2, <3>1, <3>2, <3>3 DEF Part
  <2> QED BY <2>2, <2>3, <2>4 DEF t
<1> HIDE DEF us, u
<1>5. us \in Seq(Block) /\ Len(us) = n
  <2>1. us \in [1 .. n -> Block]
    BY <1>3, <1>4
  <2> HIDE DEF n
  <2> QED BY <1>1, <2>1
<1>6. \A k \in 1 .. n : us[k].from = b.from /\ us[k].to = b.to /\ Len(us[k].text) = 1
  BY <1>3, <1>4
<1>7. IsCut(B, c, n, a, z)
  <2>1. c \in [0 .. n -> 0 .. Len(B)] /\ c[0] = a /\ c[n] = z /\ z \in 0 .. Len(B)
    BY <1>1
  <2>2. \A i \in 1 .. n : c[i - 1] < c[i]
    BY <1>1
  <2> HIDE DEF c, n
  <2> QED BY <1>1, <2>1, <2>2 DEF IsCut
<1>8. ASSUME NEW i \in 1 .. n
      PROVE  Part(B, us[i].text, c[i - 1], c[i]) /\ Cites(B, us[i], c[i - 1], c[i])
  <2>1. us[i] = u(i) /\ c[i - 1] = a + (i - 1) /\ c[i] = a + i
    BY <1>1, <1>3
  <2>2. Part(B, us[i].text, c[i - 1], c[i])
    BY <1>4, <2>1
  <2>3. \A p \in a + (i - 1) + 1 .. a + i : p \in a + 1 .. z
    BY <1>1
  <2>4. us[i].from = b.from /\ us[i].to = b.to
    BY <1>6
  <2> HIDE DEF c
  <2> QED BY <2>1, <2>2, <2>3, <2>4 DEF Cites
<1> HIDE DEF c, n
<1>9. Laid(B, us, c, a, z)
  BY <1>5, <1>7, <1>8 DEF Laid
<1> QED BY <1>5, <1>6, <1>9 DEF us

Small(u) == Words(u.text) <= Ceiling \/ Len(u.text) = 1

UnitsTo(B, us, bs, a, z, i) ==
  /\ \E d : Laid(B, us, d, a, z)
  /\ Rising(us)
  /\ \A k \in 1 .. Len(us) :
       Small(us[k]) /\ \E j \in 1 .. i : us[k].from = bs[j].from /\ us[k].to = bs[j].to

(* What is to be packed is the section, in units that are small or cannot  *)
(* be split.                                                               *)
LEMMA UnitsTell ==
  ASSUME NEW B \in Seq(Sentence), NEW bs, NEW c, NEW a, NEW z, Laid(B, bs, c, a, z), Rising(bs)
  PROVE  UnitsTo(B, Units(bs), bs, a, z, Len(bs))
<1> DEFINE n == Len(bs)
           V == Seq(Block)
           new(i) == IF Words(bs[i].text) <= Ceiling THEN <<bs[i]>> ELSE Split(bs[i])
<1>1. /\ n \in Nat /\ bs \in Seq(Block) /\ c[0] = a /\ c[n] = z /\ a \in Nat
      /\ \A i \in 1 .. n : bs[i] \in Block /\ Part(B, bs[i].text, c[i - 1], c[i])
                          /\ c[i - 1] < c[i] /\ Cites(B, bs[i], c[i - 1], c[i])
  BY LaidBlocks
<1>2. ASSUME NEW i \in 1 .. n
      PROVE  /\ \E d : Laid(B, new(i), d, c[i - 1], c[i])
             /\ \A k \in 1 .. Len(new(i)) : /\ new(i)[k].from = bs[i].from /\ new(i)[k].to = bs[i].to
                                          /\ Small(new(i)[k])
             /\ \A v \in V : WithUnits(v, bs[i]) = v \o new(i)
  <2>1. CASE Words(bs[i].text) <= Ceiling
    <3>1. new(i) = <<bs[i]>> /\ \A v \in V : WithUnits(v, bs[i]) = Append(v, bs[i])
      BY <2>1 DEF WithUnits
    <3>2. \E d : Laid(B, <<bs[i]>>, d, c[i - 1], c[i])
      BY <1>1, LaidOne
    <3>3. Len(<<bs[i]>>) = 1 /\ <<bs[i]>>[1] = bs[i] /\ \A k \in 1 .. 1 : k = 1
      OBVIOUS
    <3>4. \A v \in V : Append(v, bs[i]) = v \o <<bs[i]>>
      BY <1>1
    <3> HIDE DEF new
    <3> QED BY <2>1, <3>1, <3>2, <3>3, <3>4 DEF Small
  <2>2. CASE ~ Words(bs[i].text) <= Ceiling
    <3>1. new(i) = Split(bs[i]) /\ \A v \in V : WithUnits(v, bs[i]) = v \o Split(bs[i])
      BY <2>2 DEF WithUnits
    <3> HIDE DEF new
    <3>2. \E d : Laid(B, Split(bs[i]), d, c[i - 1], c[i])
      BY <1>1, LaidSplit
    <3>3. \A k \in 1 .. Len(Split(bs[i])) :
             /\ Split(bs[i])[k].from = bs[i].from /\ Split(bs[i])[k].to = bs[i].to
             /\ Len(Split(bs[i])[k].text) = 1
      BY <1>1, LaidSplit
    <3> QED BY <3>1, <3>2, <3>3 DEF Small
  <2> QED BY <2>1, <2>2
<1> HIDE DEF new
<1>3. PICK g \in [0 .. n -> V] :
           /\ g[0] = <<>>
           /\ \A i \in 1 .. n : g[i] = WithUnits(g[i - 1], bs[i])
           /\ g[n] = Units(bs)
  <2>1. ASSUME NEW v \in V, NEW i \in 1 .. n PROVE WithUnits(v, bs[i]) \in V
    <3>1. new(i) \in Seq(Block)
      BY <1>2 DEF Laid
    <3> QED BY <1>2, <3>1, ConcatProperties
  <2>2. <<>> \in V
    BY EmptySeq
  <2> HIDE DEF V
  <2> QED BY <1>1, <2>1, <2>2, UnitsSteps
<1> DEFINE P == {i \in 0 .. n : UnitsTo(B, g[i], bs, a, c[i], i)}
<1>4. 0 \in P
  <2> DEFINE d == [i \in 0 .. 0 |-> a]
  <2>1. Len(<<>>) = 0 /\ <<>> \in Seq(Block) /\ 1 .. 0 = {}
    BY EmptySeq
  <2>2. a \in 0 .. Len(B)
    <3>1. IsCut(B, c, n, a, z) /\ 0 \in 0 .. n
      BY <1>1 DEF Laid
    <3> QED BY <3>1 DEF IsCut
  <2>3. IsCut(B, d, 0, a, a)
    BY <1>1, <2>1, <2>2 DEF IsCut
  <2> HIDE DEF d
  <2>4. Laid(B, <<>>, d, a, a)
    BY <2>1, <2>3 DEF Laid
  <2>5. UnitsTo(B, <<>>, bs, a, a, 0)
    BY <2>1, <2>4 DEF UnitsTo, Rising
  <2> QED BY <1>1, <1>3, <2>5
<1>5. ASSUME NEW i \in 1 .. n, i - 1 \in P PROVE i \in P
  <2>0. i \in 0 .. n /\ i - 1 \in 0 .. n
    BY <1>1
  <2>1. UnitsTo(B, g[i - 1], bs, a, c[i - 1], i - 1)
    BY <1>5
  <2>2. g[i] = g[i - 1] \o new(i)
    BY <1>2, <1>3, <2>0
  <2> DEFINE us == g[i - 1]
             vs == new(i)
             ws == us \o vs
             l  == Len(us)
             m  == Len(vs)
  <2>3. PICK d : Laid(B, us, d, a, c[i - 1])
    BY <2>1 DEF UnitsTo
  <2>4. PICK e : Laid(B, vs, e, c[i - 1], c[i])
    BY <1>2
  <2> HIDE DEF us, vs
  <2>5. l \in Nat /\ m \in Nat
    BY <2>3, <2>4, LaidBlocks
  <2>6. /\ \E f : Laid(B, ws, f, a, c[i])
        /\ Len(ws) = l + m
        /\ \A k \in 1 .. l : ws[k] = us[k]
        /\ \A k \in l + 1 .. l + m : ws[k] = vs[k - l]
    BY <2>3, <2>4, LaidConcat
  <2> HIDE DEF ws, l, m
  <2>7. ASSUME NEW k \in 1 .. l
        PROVE  Small(ws[k]) /\ \E j \in 1 .. i - 1 : ws[k].from = bs[j].from /\ ws[k].to = bs[j].to
    <3>1. \A h \in 1 .. l : /\ Small(us[h])
                            /\ \E j \in 1 .. i - 1 : us[h].from = bs[j].from /\ us[h].to = bs[j].to
      BY <2>1 DEF UnitsTo, us, l
    <3>2. ws[k] = us[k]
      BY <2>6
    <3> QED BY <3>1, <3>2
  <2>8. ASSUME NEW k \in l + 1 .. l + m
        PROVE  Small(ws[k]) /\ ws[k].from = bs[i].from /\ ws[k].to = bs[i].to
    <3>1. k - l \in 1 .. m /\ ws[k] = vs[k - l]
      BY <2>5, <2>6
    <3> QED BY <1>2, <3>1 DEF vs, m
  <2>9. ASSUME NEW k \in 1 .. l + m
        PROVE  k \in 1 .. l \/ k \in l + 1 .. l + m
    BY <2>5
  <2>10. ASSUME NEW k \in 1 .. l + m
         PROVE  Small(ws[k]) /\ \E j \in 1 .. i : ws[k].from = bs[j].from /\ ws[k].to = bs[j].to
    <3>1. CASE k \in 1 .. l
      <4>1. \A j \in 1 .. i - 1 : j \in 1 .. i
        BY <2>0
      <4> QED BY <2>7, <3>1, <4>1
    <3>2. CASE k \in l + 1 .. l + m
      <4>1. i \in 1 .. i
        BY <2>0
      <4> QED BY <2>8, <3>2, <4>1
    <3> QED BY <2>9, <3>1, <3>2
  <2>11. ASSUME NEW k \in 1 .. l + m, NEW q \in 1 .. l + m, k < q
         PROVE  ws[k].from <= ws[q].from /\ ws[k].to <= ws[q].to
    <3>0. \A j \in 1 .. n : bs[j].from \in Nat /\ bs[j].to \in Nat
      BY <1>1 DEF Block
    <3>1. CASE q \in 1 .. l
      <4>1. k \in 1 .. l
        BY <2>5, <2>11, <3>1
      <4>2. ws[k] = us[k] /\ ws[q] = us[q]
        BY <2>6, <3>1, <4>1
      <4> QED BY <2>1, <2>11, <3>1, <4>1, <4>2 DEF UnitsTo, Rising, us, l
    <3>2. CASE q \in l + 1 .. l + m /\ k \in l + 1 .. l + m
      BY <2>8, <3>0, <3>2
    <3>3. CASE q \in l + 1 .. l + m /\ k \in 1 .. l
      <4>1. PICK j \in 1 .. i - 1 : ws[k].from = bs[j].from /\ ws[k].to = bs[j].to
        BY <2>7, <3>3
      <4>2. j \in 1 .. n /\ j < i
        BY <1>1
      <4>3. bs[j].from <= bs[i].from /\ bs[j].to <= bs[i].to
        BY <4>2 DEF Rising
      <4> QED BY <2>8, <3>3, <4>1, <4>3
    <3> QED BY <2>9, <3>1, <3>2, <3>3
  <2>12. UnitsTo(B, ws, bs, a, c[i], i)
    BY <2>6, <2>10, <2>11 DEF UnitsTo, Rising
  <2> QED BY <2>0, <2>2, <2>12 DEF ws, us, vs
<1> HIDE DEF P
<1>6. n \in P
  <2>1. \A i \in 0 .. n : i \in P
    BY <1>1, <1>4, <1>5, UpTo
  <2> QED BY <1>1, <2>1
<1> QED BY <1>1, <1>3, <1>6 DEF P

-----------------------------------------------------------------------------
(***************************************************************************)
(* What is carried over.                                                   *)
(***************************************************************************)
LEMMA TailPlace ==
  ASSUME NEW t \in Seq(Sentence), t # <<>>
  PROVE  /\ TailFrom(t) \in 1 .. Len(t)
         /\ TailFrom(t) = Len(t) \/ Words(SubSeq(t, TailFrom(t), Len(t))) <= Overlap
<1> DEFINE n == Len(t)
           w(i) == Words(SubSeq(t, i, n))
           Fits(i) == i = n \/ w(i) <= Overlap
           G == {i \in 1 .. n : Fits(i)}
<1>1. n \in Nat /\ n > 0 /\ DOMAIN t = 1 .. n
  BY EmptySeq, LenProperties
<1>2. ASSUME NEW i \in 1 .. n PROVE w(i) \in Nat
  <2>1. SubSeq(t, i, n) \in Seq(Sentence)
    <3>1. i \in Int /\ n \in Int /\ \A j \in i .. n : t[j] \in Sentence
      BY <1>1, ElementOfSeq
    <3> QED BY <3>1, SubSeqProperties
  <2>2. PICK g : Sums(SubSeq(t, i, n), g) /\ g[Len(SubSeq(t, i, n))] = w(i)
    BY <2>1, WordsSteps
  <2>3. Len(SubSeq(t, i, n)) \in Nat
    BY <2>1, LenProperties
  <2> HIDE DEF w
  <2> QED BY <2>2, <2>3 DEF Sums
<1>3. Overlap \in Nat
  BY ChunkAssumption
<1> HIDE DEF w
<1>4. PICK i \in G : \A j \in G : i <= j
  <2>1. G \in SUBSET Nat /\ n \in G
    BY <1>1
  <2> HIDE DEF G
  <2> QED BY <2>1, LeastMember
<1>5. i \in 1 .. n /\ Fits(i)
  OBVIOUS
<1>6. i > 1 => w(i - 1) > Overlap
  <2> SUFFICES ASSUME i > 1 PROVE w(i - 1) > Overlap
    OBVIOUS
  <2>1. i - 1 \in 1 .. n /\ ~ i <= i - 1
    <3> HIDE DEF n, G, Fits
    <3>1. i \in Nat /\ n \in Nat /\ i <= n
      BY <1>1, <1>5
    <3> QED BY <3>1
  <2>2. ~ Fits(i - 1)
    BY <1>4, <2>1
  <2>3. w(i - 1) \in Nat
    BY <1>2, <2>1
  <2> QED BY <1>3, <2>2, <2>3
<1> HIDE DEF G
<1>7. \E j \in DOMAIN t :
         /\ j = Len(t) \/ Words(SubSeq(t, j, Len(t))) <= Overlap
         /\ j > 1 => Words(SubSeq(t, j - 1, Len(t))) > Overlap
  BY <1>1, <1>5, <1>6 DEF w
<1> HIDE DEF n
<1> QED BY <1>1, <1>7 DEF TailFrom

(* The tail of a part: its last sentences, joined with blanks, and within  *)
(* the overlap if there are several.                                       *)
LEMMA TailTells ==
  ASSUME NEW B \in Seq(Sentence), NEW W, Sums(B, W), NEW t, NEW a, NEW z, Part(B, t, a, z), a < z
  PROVE  \E x \in a .. z - 1 :
           /\ Part(B, OverlapTail(t), x, z)
           /\ \A i \in 1 .. z - x : OverlapTail(t)[i].sep = " "
           /\ x = z - 1 \/ W[z] - W[x] <= Overlap
<1>1. t \in Seq(Sentence) /\ a \in Nat /\ z \in Nat /\ Len(t) = z - a
  <2>1. Len(B) \in Nat
    BY LenProperties
  <2> QED BY <2>1 DEF Part
<1>2. t # <<>> /\ Len(t) \in Nat
  BY <1>1, EmptySeq
<1> DEFINE k == TailFrom(t)
           u == SubSeq(t, k, Len(t))
           x == a + k - 1
<1>3. k \in 1 .. Len(t) /\ (k = Len(t) \/ Words(u) <= Overlap)
  BY <1>1, <1>2, TailPlace
<1>4. OverlapTail(t) = Blanked(u)
  BY DEF OverlapTail, Blanked
<1> HIDE DEF k
<1>5. Part(B, u, x, z)
  <2>1. k \in 1 .. Len(t) + 1
    BY <1>2, <1>3
  <2> QED BY <2>1, PartTail
<1>6. x \in a .. z - 1 /\ (k = Len(t) => x = z - 1)
  BY <1>1, <1>3
<1> HIDE DEF u, x
<1>9. Part(B, Blanked(u), x, z) /\ \A i \in 1 .. Len(u) : Blanked(u)[i].sep = " "
  BY <1>5, PartBlanked
<1>7. Len(u) = z - x
  BY <1>5 DEF Part
<1>8. Words(u) = W[z] - W[x]
  BY <1>5, PartWords
<1> QED BY <1>3, <1>4, <1>6, <1>7, <1>8, <1>9

-----------------------------------------------------------------------------
(***************************************************************************)
(* The packer.                                                             *)
(***************************************************************************)
Text  == Seq(Sentence) \ {<<>>}
Told  == [text : Seq(Sentence), carried : Nat, from : Nat, to : Nat]
State == [buf : Seq(Text), words : Nat, from : Nat, to : Nat, carried : Nat,
          prev : Seq(Sentence), out : Seq(Told)]

Rec(b, w, f, t, c, p, o) ==
  [buf |-> b, words |-> w, from |-> f, to |-> t, carried |-> c, prev |-> p, out |-> o]

Added(s, u) ==
  Rec(Append(s.buf, u.text), s.words + Words(u.text), s.from, u.to, s.carried, s.prev, s.out)

Opening(text, out, u) ==
  LET tail == IF text = <<>> THEN <<>> ELSE OverlapTail(text) IN
  Rec(Append(IF tail = <<>> THEN <<>> ELSE <<tail>>, u.text), Words(tail) + Words(u.text),
      u.from, u.to, Len(tail), text, out)

LEMMA StateIs ==
  ASSUME NEW s \in State
  PROVE  s = Rec(s.buf, s.words, s.from, s.to, s.carried, s.prev, s.out)
BY DEF State, Rec

LEMMA CloseIs ==
  ASSUME NEW b, NEW w, NEW f, NEW t, NEW c, NEW p, NEW o
  PROVE  LET text == Join(b, "\n") IN
         Close(Rec(b, w, f, t, c, p, o))
           = Rec(<<>>, 0, f, t, c, text,
                 Append(o, [text |-> text, carried |-> c, from |-> f, to |-> t]))
<1> DEFINE r == Rec(b, w, f, t, c, p, o)
           text == Join(b, "\n")
           new == [text |-> text, carried |-> c, from |-> f, to |-> t]
<1>1. r.buf = b /\ Chunk(text, r) = new
  BY DEF Rec, Chunk
<1>2. Close(r) = [r EXCEPT !.buf = <<>>, !.words = 0, !.prev = text, !.out = Append(r.out, new)]
  <2> HIDE DEF r, new
  <2> QED BY <1>1 DEF Close
<1> HIDE DEF text, new
<1>3. Close(r) = Rec(<<>>, 0, f, t, c, text, Append(o, new))
  BY <1>2 DEF Rec
<1> QED BY <1>3 DEF text, new

LEMMA OpenedIs ==
  ASSUME NEW b, NEW w, NEW f, NEW t, NEW c, NEW p, NEW o, NEW u, b = <<>>
  PROVE  LET tail == IF p = <<>> THEN <<>> ELSE OverlapTail(p) IN
         Opened(Rec(b, w, f, t, c, p, o), u)
           = Rec(IF tail = <<>> THEN <<>> ELSE <<tail>>, Words(tail), u.from, t, Len(tail), p, o)
<1> DEFINE r == Rec(b, w, f, t, c, p, o)
           tail == IF p = <<>> THEN <<>> ELSE OverlapTail(p)
<1>1. r.buf = <<>> /\ r.prev = p
  BY DEF Rec
<1>2. Opened(r, u) = [r EXCEPT !.buf = IF tail = <<>> THEN <<>> ELSE <<tail>>,
                               !.words = Words(tail), !.carried = Len(tail), !.from = u.from]
  <2> HIDE DEF r
  <2> QED BY <1>1 DEF Opened
<1> HIDE DEF tail
<1>3. Opened(r, u) = Rec(IF tail = <<>> THEN <<>> ELSE <<tail>>, Words(tail), u.from, t, Len(tail), p, o)
  BY <1>2 DEF Rec
<1> QED BY <1>3 DEF tail

AddedTo(t, u) == [t EXCEPT !.buf = Append(@, u.text), !.words = @ + Words(u.text), !.to = u.to]

Refilled(r, v, m, z) == [r EXCEPT !.buf = v, !.words = m, !.to = z]

LEMMA RefilledIs ==
  ASSUME NEW b, NEW w, NEW f, NEW t, NEW c, NEW p, NEW o, NEW v, NEW m, NEW z
  PROVE  Refilled(Rec(b, w, f, t, c, p, o), v, m, z) = Rec(v, m, f, z, c, p, o)
<1>1. [Rec(b, w, f, t, c, p, o) EXCEPT !.buf = v] = Rec(v, w, f, t, c, p, o)
  BY DEF Rec
<1>2. [Rec(v, w, f, t, c, p, o) EXCEPT !.words = m] = Rec(v, m, f, t, c, p, o)
  BY DEF Rec
<1>3. [Rec(v, m, f, t, c, p, o) EXCEPT !.to = z] = Rec(v, m, f, z, c, p, o)
  BY DEF Rec
<1>4. [Rec(b, w, f, t, c, p, o) EXCEPT !.buf = v, !.words = m, !.to = z]
        = [[[Rec(b, w, f, t, c, p, o) EXCEPT !.buf = v] EXCEPT !.words = m] EXCEPT !.to = z]
  OBVIOUS
<1> QED BY <1>1, <1>2, <1>3, <1>4 DEF Refilled

LEMMA AddedIs ==
  ASSUME NEW b, NEW w, NEW f, NEW t, NEW c, NEW p, NEW o, NEW u
  PROVE  AddedTo(Rec(b, w, f, t, c, p, o), u)
           = Rec(Append(b, u.text), w + Words(u.text), f, u.to, c, p, o)
<1>1. Rec(b, w, f, t, c, p, o).buf = b /\ Rec(b, w, f, t, c, p, o).words = w
  BY DEF Rec
<1>2. AddedTo(Rec(b, w, f, t, c, p, o), u)
        = Refilled(Rec(b, w, f, t, c, p, o), Append(b, u.text), w + Words(u.text), u.to)
  BY <1>1 DEF AddedTo, Refilled
<1>3. Refilled(Rec(b, w, f, t, c, p, o), Append(b, u.text), w + Words(u.text), u.to)
        = Rec(Append(b, u.text), w + Words(u.text), f, u.to, c, p, o)
  BY RefilledIs
<1> QED BY <1>2, <1>3

(* One turn of the loop.                                                   *)
LEMMA PackIs ==
  ASSUME NEW s \in State, NEW u
  PROVE  /\ s.buf = <<>> => Pack(s, u) = Opening(s.prev, s.out, u)
         /\ s.buf # <<>> /\ Full(s, u) =>
              LET text == Join(s.buf, "\n") IN
              Pack(s, u) = Opening(text, Append(s.out, [text |-> text, carried |-> s.carried,
                                                        from |-> s.from, to |-> s.to]), u)
         /\ s.buf # <<>> /\ ~ Full(s, u) => Pack(s, u) = Added(s, u)
<1> DEFINE text == Join(s.buf, "\n")
           o == Append(s.out, [text |-> text, carried |-> s.carried, from |-> s.from, to |-> s.to])
           ready == IF Full(s, u) THEN Close(s) ELSE s
<1>0. Pack(s, u) = AddedTo(Opened(ready, u), u)
  BY DEF Pack, AddedTo
<1>1. s = Rec(s.buf, s.words, s.from, s.to, s.carried, s.prev, s.out)
  BY StateIs
<1>2. ASSUME NEW w, NEW f, NEW t, NEW c, NEW p, NEW q
      PROVE  AddedTo(Opened(Rec(<<>>, w, f, t, c, p, q), u), u) = Opening(p, q, u)
  <2> DEFINE tail == IF p = <<>> THEN <<>> ELSE OverlapTail(p)
             b == IF tail = <<>> THEN <<>> ELSE <<tail>>
  <2>1. Opened(Rec(<<>>, w, f, t, c, p, q), u) = Rec(b, Words(tail), u.from, t, Len(tail), p, q)
    BY OpenedIs
  <2> HIDE DEF b, tail
  <2>2. AddedTo(Rec(b, Words(tail), u.from, t, Len(tail), p, q), u)
          = Rec(Append(b, u.text), Words(tail) + Words(u.text), u.from, u.to, Len(tail), p, q)
    BY AddedIs
  <2> QED BY <2>1, <2>2 DEF Opening, b, tail
<1>3. ASSUME s.buf = <<>> PROVE Pack(s, u) = Opening(s.prev, s.out, u)
  <2>1. ready = s
    BY <1>3 DEF Full
  <2>2. s = Rec(<<>>, s.words, s.from, s.to, s.carried, s.prev, s.out)
    BY <1>1, <1>3
  <2> HIDE DEF ready
  <2>3. AddedTo(Opened(Rec(<<>>, s.words, s.from, s.to, s.carried, s.prev, s.out), u), u)
          = Opening(s.prev, s.out, u)
    BY <1>2
  <2> QED BY <1>0, <2>1, <2>2, <2>3
<1>4. ASSUME s.buf # <<>>, Full(s, u) PROVE Pack(s, u) = Opening(text, o, u)
  <2>1. ready = Close(s)
    BY <1>4
  <2>2. Close(s) = Rec(<<>>, 0, s.from, s.to, s.carried, text, o)
    <3>1. Close(Rec(s.buf, s.words, s.from, s.to, s.carried, s.prev, s.out))
            = Rec(<<>>, 0, s.from, s.to, s.carried, text, o)
      BY CloseIs
    <3> HIDE DEF text, o
    <3> QED BY <1>1, <3>1
  <2> HIDE DEF ready, text, o
  <2>3. AddedTo(Opened(Rec(<<>>, 0, s.from, s.to, s.carried, text, o), u), u) = Opening(text, o, u)
    BY <1>2
  <2> QED BY <1>0, <2>1, <2>2, <2>3
<1>5. ASSUME s.buf # <<>>, ~ Full(s, u) PROVE Pack(s, u) = Added(s, u)
  <2>1. ready = s /\ Opened(s, u) = s
    BY <1>5 DEF Opened
  <2>2. AddedTo(Rec(s.buf, s.words, s.from, s.to, s.carried, s.prev, s.out), u) = Added(s, u)
    BY AddedIs DEF Added
  <2> HIDE DEF ready
  <2> QED BY <1>0, <1>1, <2>1, <2>2
<1> QED BY <1>3, <1>4, <1>5

LEMMA JoinType ==
  ASSUME NEW ts \in Seq(Seq(Sentence)), NEW sep \in Separator
  PROVE  Join(ts, sep) \in Seq(Sentence)
<1> DEFINE n == Len(ts)
           V == Seq(Sentence)
<1>1. n \in Nat /\ \A i \in 1 .. n : ts[i] \in V
  BY LenProperties, ElementOfSeq
<1>2. ASSUME NEW v \in V, NEW i \in 1 .. n PROVE Joined(v, ts[i], sep) \in V
  <2> DEFINE t == ts[i]
  <2>1. t \in Seq(Sentence)
    BY <1>1
  <2> HIDE DEF t
  <2>2. CASE v = <<>>
    BY <2>1, <2>2 DEF Joined, t
  <2>3. CASE v # <<>>
    <3>1. [t EXCEPT ![1].sep = sep] \in Seq(Sentence)
      <4>1. CASE t = <<>>
        <5>1. DOMAIN t = {}
          BY <4>1
        <5>2. [t EXCEPT ![1].sep = sep] = t
          BY <2>1, <4>1, <5>1
        <5> QED BY <2>1, <5>2
      <4>2. CASE t # <<>>
        <5>1. 1 \in 1 .. Len(t) /\ t[1] \in Sentence
          BY <2>1, <4>2, EmptySeq, LenProperties, ElementOfSeq
        <5>2. [t[1] EXCEPT !.sep = sep] \in Sentence
          BY <5>1 DEF Sentence
        <5>3. [t EXCEPT ![1] = [t[1] EXCEPT !.sep = sep]] \in Seq(Sentence)
          BY <2>1, <5>1, <5>2, ExceptSeq
        <5> QED BY <5>3
      <4> QED BY <4>1, <4>2
    <3>2. v \o [t EXCEPT ![1].sep = sep] \in Seq(Sentence)
      BY <3>1, ConcatProperties
    <3> QED BY <2>3, <3>2 DEF Joined, t
  <2> QED BY <2>2, <2>3
<1>3. <<>> \in V
  BY EmptySeq
<1>4. \E g \in [0 .. n -> V] : g[n] = Join(ts, sep)
  <2> HIDE DEF V
  <2> QED BY <1>2, <1>3, JoinSteps DEF V
<1>5. n \in 0 .. n
  BY <1>1
<1> QED BY <1>4, <1>5

LEMMA WordsType == ASSUME NEW t \in Seq(Sentence) PROVE Words(t) \in Nat
<1>1. PICK g : Sums(t, g) /\ g[Len(t)] = Words(t)
  BY WordsSteps
<1>2. Len(t) \in 0 .. Len(t)
  BY LenProperties
<1> QED BY <1>1, <1>2 DEF Sums

LEMMA TailType == ASSUME NEW t \in Text PROVE OverlapTail(t) \in Text
<1>1. t \in Seq(Sentence) /\ Len(t) \in Nat /\ 0 < Len(t)
  BY EmptySeq, LenProperties DEF Text
<1>2. PICK g : Sums(t, g) /\ g[Len(t)] = Words(t)
  BY <1>1, WordsSteps
<1>3. Part(t, t, 0, Len(t))
  BY <1>1 DEF Part
<1>4. PICK x \in 0 .. Len(t) - 1 : Part(t, OverlapTail(t), x, Len(t))
  BY <1>1, <1>2, <1>3, TailTells
<1>5. OverlapTail(t) \in Seq(Sentence) /\ Len(OverlapTail(t)) # 0
  BY <1>1, <1>4 DEF Part
<1> QED BY <1>5, EmptySeq DEF Text

LEMMA RecType ==
  ASSUME NEW b \in Seq(Text), NEW w \in Nat, NEW f \in Nat, NEW t \in Nat, NEW c \in Nat,
         NEW p \in Seq(Sentence), NEW o \in Seq(Told)
  PROVE  Rec(b, w, f, t, c, p, o) \in State
BY DEF Rec, State

LEMMA OpeningType ==
  ASSUME NEW text \in Seq(Sentence), NEW out \in Seq(Told), NEW u \in Block, u.text # <<>>
  PROVE  Opening(text, out, u) \in State
<1> DEFINE tail == IF text = <<>> THEN <<>> ELSE OverlapTail(text)
           b == Append(IF tail = <<>> THEN <<>> ELSE <<tail>>, u.text)
<1>1. u.text \in Text /\ u.from \in Nat /\ u.to \in Nat /\ Words(u.text) \in Nat
  BY WordsType DEF Block, Text
<1>2. tail \in Seq(Sentence)
  BY TailType, EmptySeq DEF Text
<1>3. Words(tail) \in Nat /\ Len(tail) \in Nat
  <2> HIDE DEF tail
  <2> QED BY <1>2, WordsType, LenProperties
<1>4. b \in Seq(Text)
  <2> HIDE DEF tail
  <2>1. tail # <<>> => tail \in Text
    BY <1>2 DEF Text
  <2>2. (IF tail = <<>> THEN <<>> ELSE <<tail>>) \in Seq(Text)
    BY <2>1, EmptySeq
  <2> QED BY <1>1, <2>2
<1> HIDE DEF tail, b
<1>5. Rec(b, Words(tail) + Words(u.text), u.from, u.to, Len(tail), text, out) \in State
  <2>1. Words(tail) + Words(u.text) \in Nat
    BY <1>1, <1>3
  <2> QED BY <1>1, <1>3, <1>4, <2>1, RecType
<1> QED BY <1>5 DEF Opening, tail, b

LEMMA StateFields ==
  ASSUME NEW s \in State
  PROVE  /\ s.buf \in Seq(Text) /\ s.words \in Nat /\ s.from \in Nat /\ s.to \in Nat
         /\ s.carried \in Nat /\ s.prev \in Seq(Sentence) /\ s.out \in Seq(Told)
         /\ s.buf \in Seq(Seq(Sentence))
<1>1. s.buf \in Seq(Text) /\ s.words \in Nat /\ s.from \in Nat /\ s.to \in Nat
      /\ s.carried \in Nat /\ s.prev \in Seq(Sentence) /\ s.out \in Seq(Told)
  BY DEF State
<1>2. Text \subseteq Seq(Sentence)
  BY DEF Text
<1>3. s.buf \in Seq(Seq(Sentence))
  BY <1>1, <1>2
<1> QED BY <1>1, <1>3

LEMMA ToldType ==
  ASSUME NEW s \in State
  PROVE  /\ Join(s.buf, "\n") \in Seq(Sentence)
         /\ [text |-> Join(s.buf, "\n"), carried |-> s.carried, from |-> s.from, to |-> s.to] \in Told
<1>1. "\n" \in Separator
  BY DEF Separator
<1>2. Join(s.buf, "\n") \in Seq(Sentence)
  BY <1>1, StateFields, JoinType
<1> QED BY <1>2, StateFields DEF Told

LEMMA PackType ==
  ASSUME NEW s \in State, NEW u \in Block, u.text # <<>>
  PROVE  Pack(s, u) \in State
<1> DEFINE text == Join(s.buf, "\n")
           new == [text |-> text, carried |-> s.carried, from |-> s.from, to |-> s.to]
<1>1. text \in Seq(Sentence) /\ new \in Told
  BY ToldType
<1> HIDE DEF text, new
<1>2. CASE s.buf = <<>>
  BY <1>2, PackIs, OpeningType, StateFields
<1>3. CASE s.buf # <<>> /\ Full(s, u)
  <2>1. Append(s.out, new) \in Seq(Told)
    BY <1>1, StateFields
  <2>2. Opening(text, Append(s.out, new), u) \in State
    BY <1>1, <2>1, OpeningType
  <2> QED BY <1>3, <2>2, PackIs DEF text, new
<1>4. CASE s.buf # <<>> /\ ~ Full(s, u)
  <2>1. u.text \in Text /\ u.to \in Nat /\ Words(u.text) \in Nat
    BY WordsType DEF Block, Text
  <2>2. Append(s.buf, u.text) \in Seq(Text) /\ s.words + Words(u.text) \in Nat
    BY <2>1, StateFields
  <2>3. Added(s, u) \in State
    BY <2>1, <2>2, StateFields, RecType DEF Added
  <2> QED BY <1>4, <2>3, PackIs
<1> QED BY <1>2, <1>3, <1>4

-----------------------------------------------------------------------------
(***************************************************************************)
(* The open chunk is what stands from q to z, after what it carries.       *)
(***************************************************************************)
Within(x, lo, hi) == x.from \in lo .. hi /\ x.to \in lo .. hi

Opens(B, W, s, e, q, z) ==
  /\ s.buf # <<>> /\ q \in Nat /\ s.carried <= q /\ q < z
  /\ Pieced(B, s.buf, e, q - s.carried, z)
  /\ s.carried > 0 => /\ Len(s.buf[1]) = s.carried
                      /\ \A k \in 1 .. s.carried : s.buf[1][k].sep = " "
  /\ s.words = W[z] - W[q - s.carried]
  /\ W[z] - W[q] <= Ceiling \/ z = q + 1
  /\ s.carried <= 1 \/ W[q] - W[q - s.carried] <= Overlap
  /\ Cites(B, s, q, z)

IsPiece(B, W, x, q, z) ==
  /\ x.carried \in Nat /\ q \in Nat /\ x.carried <= q /\ q < z
  /\ Part(B, x.text, q - x.carried, z)
  /\ \A k \in 1 .. x.carried : x.text[k].sep = Blank
  /\ W[z] - W[q] <= Ceiling \/ z = q + 1
  /\ x.carried <= 1 \/ W[q] - W[q - x.carried] <= Overlap
  /\ Cites(B, x, q, z)

LEMMA CloseTells ==
  ASSUME NEW B \in Seq(Sentence), NEW W, NEW s \in State, NEW e, NEW q, NEW z, Opens(B, W, s, e, q, z)
  PROVE  IsPiece(B, W, [text |-> Join(s.buf, "\n"), carried |-> s.carried,
                        from |-> s.from, to |-> s.to], q, z)
<1> DEFINE text == Join(s.buf, "\n")
           x == [text |-> text, carried |-> s.carried, from |-> s.from, to |-> s.to]
<1>1. "\n" \in Separator
  BY DEF Separator
<1>2. /\ s.buf # <<>> /\ q \in Nat /\ s.carried <= q /\ q < z
      /\ Pieced(B, s.buf, e, q - s.carried, z)
      /\ s.carried > 0 => Len(s.buf[1]) = s.carried /\ \A k \in 1 .. s.carried : s.buf[1][k].sep = " "
      /\ W[z] - W[q] <= Ceiling \/ z = q + 1
      /\ s.carried <= 1 \/ W[q] - W[q - s.carried] <= Overlap
      /\ Cites(B, s, q, z)
  BY DEF Opens
<1>3. s.buf \in Seq(Text) /\ Len(s.buf) > 0 /\ s.carried \in Nat
  <2>1. s.buf \in Seq(Text) /\ s.carried \in Nat
    BY StateFields
  <2>2. s.buf # <<>>
    BY <1>2
  <2>3. Len(s.buf) \in Nat \ {0}
    BY <2>1, <2>2, EmptySeq
  <2> QED BY <2>1, <2>3
<1>4. /\ Part(B, text, q - s.carried, z)
      /\ \A k \in 1 .. Len(s.buf[1]) : text[k] = s.buf[1][k]
  <2> DEFINE ts == s.buf
             p  == q - s.carried
  <2>1. ts \in Seq(Text) /\ Len(ts) > 0 /\ Pieced(B, ts, e, p, z)
    BY <1>2, <1>3
  <2> HIDE DEF ts, p
  <2>2. /\ Part(B, Join(ts, "\n"), p, z)
        /\ \A k \in 1 .. Len(ts[1]) : Join(ts, "\n")[k] = ts[1][k]
    BY <1>1, <2>1, JoinTells
  <2> QED BY <2>2 DEF ts, p
<1> HIDE DEF text
<1>5. \A k \in 1 .. s.carried : text[k].sep = " "
  <2> SUFFICES ASSUME NEW k \in 1 .. s.carried PROVE text[k].sep = " "
    OBVIOUS
  <2>1. s.carried > 0
    BY <1>3
  <2>2. k \in 1 .. Len(s.buf[1]) /\ s.buf[1][k].sep = " "
    BY <1>2, <2>1
  <2> QED BY <1>4, <2>2
<1>6. x.text = text /\ x.carried = s.carried /\ x.from = s.from /\ x.to = s.to
  OBVIOUS
<1> HIDE DEF x
<1>7. IsPiece(B, W, x, q, z)
  BY <1>2, <1>3, <1>4, <1>5, <1>6 DEF IsPiece, Cites, Blank
<1> QED BY <1>7 DEF x, text

(* One part, and one more.                                                 *)
LEMMA CutOne ==
  ASSUME NEW B \in Seq(Sentence), NEW a \in Nat, NEW z \in Nat, a < z, z <= Len(B)
  PROVE  IsCut(B, [i \in 0 .. 1 |-> IF i = 0 THEN a ELSE z], 1, a, z)
<1> DEFINE c == [i \in 0 .. 1 |-> IF i = 0 THEN a ELSE z]
<1>1. Len(B) \in Nat
  BY LenProperties
<1>2. c \in [0 .. 1 -> 0 .. Len(B)] /\ c[0] = a /\ c[1] = z /\ 1 - 1 = 0
  BY <1>1
<1> HIDE DEF c
<1>3. \A i \in 1 .. 1 : i = 1
  OBVIOUS
<1>4. \A i \in 1 .. 1 : c[i - 1] < c[i]
  BY <1>2, <1>3
<1>5. z \in 0 .. Len(B) /\ 1 \in Nat
  BY <1>1
<1>6. IsCut(B, c, 1, a, z)
  BY <1>2, <1>4, <1>5 DEF IsCut
<1> QED BY <1>6 DEF c

LEMMA PiecedOne ==
  ASSUME NEW B \in Seq(Sentence), NEW t, NEW a, NEW z, Part(B, t, a, z), a < z
  PROVE  \E e : Pieced(B, <<t>>, e, a, z)
<1> DEFINE c == [i \in 0 .. 1 |-> IF i = 0 THEN a ELSE z]
           ts == <<t>>
<1>1. a \in Nat /\ z \in Nat /\ z <= Len(B) /\ t \in Seq(Sentence)
  <2>1. Len(B) \in Nat
    BY LenProperties
  <2> QED BY <2>1 DEF Part
<1>2. IsCut(B, c, 1, a, z)
  BY <1>1, CutOne
<1>3. ts \in Seq(Seq(Sentence)) /\ Len(ts) = 1 /\ ts[1] = t
  BY <1>1
<1>4. c[0] = a /\ c[1] = z /\ 1 - 1 = 0 /\ \A i \in 1 .. 1 : i = 1
  OBVIOUS
<1> HIDE DEF c, ts
<1>5. \A i \in 1 .. 1 : Part(B, ts[i], c[i - 1], c[i])
  BY <1>3, <1>4
<1>6. Pieced(B, ts, c, a, z)
  BY <1>2, <1>3, <1>5 DEF Pieced
<1> QED BY <1>6 DEF ts

LEMMA PiecedMore ==
  ASSUME NEW B \in Seq(Sentence), NEW ts, NEW c, NEW a, NEW m, Pieced(B, ts, c, a, m),
         NEW t, NEW z, Part(B, t, m, z), m < z
  PROVE  \E e : Pieced(B, Append(ts, t), e, a, z)
<1> DEFINE n == Len(ts)
           d == [i \in 0 .. 1 |-> IF i = 0 THEN m ELSE z]
           us == Append(ts, t)
<1>1. m \in Nat /\ z \in Nat /\ z <= Len(B) /\ t \in Seq(Sentence)
  <2>1. Len(B) \in Nat
    BY LenProperties
  <2> QED BY <2>1 DEF Part
<1>2. IsCut(B, d, 1, m, z)
  BY <1>1, CutOne
<1>3. ts \in Seq(Seq(Sentence)) /\ IsCut(B, c, n, a, m) /\ n \in Nat
      /\ \A i \in 1 .. n : Part(B, ts[i], c[i - 1], c[i])
  BY LenProperties DEF Pieced
<1>4. /\ us \in Seq(Seq(Sentence)) /\ Len(us) = n + 1
      /\ \A i \in 1 .. n : us[i] = ts[i]
      /\ us[n + 1] = t
  BY <1>1, <1>3, AppendProperties
<1>5. d[0] = m /\ d[1] = z
  OBVIOUS
<1> HIDE DEF d, us
<1>6. PICK e : AreOne(B, e, c, n, d, 1, a, z)
  BY <1>2, <1>3, CutConcat
<1>7. IsCut(B, e, n + 1, a, z) /\ (\A i \in 0 .. n : e[i] = c[i]) /\ \A i \in 0 .. 1 : e[n + i] = d[i]
  BY <1>6 DEF AreOne
<1>8. e[n] = m /\ e[n + 1] = z
  <2>1. e[n + 0] = d[0] /\ e[n + 1] = d[1] /\ n + 0 = n
    BY <1>3, <1>7
  <2> QED BY <1>5, <2>1
<1>9. ASSUME NEW i \in 1 .. n + 1 PROVE Part(B, us[i], e[i - 1], e[i])
  <2>1. CASE i <= n
    <3>1. i \in 1 .. n /\ i \in 0 .. n /\ i - 1 \in 0 .. n
      BY <1>3, <2>1
    <3> QED BY <1>3, <1>4, <1>7, <3>1
  <2>2. CASE ~ i <= n
    <3>1. i = n + 1 /\ i - 1 = n
      BY <1>3, <2>2
    <3> QED BY <1>4, <1>8, <3>1
  <2> QED BY <2>1, <2>2
<1>10. Pieced(B, us, e, a, z)
  BY <1>4, <1>7, <1>9 DEF Pieced
<1> QED BY <1>10 DEF us

(* A unit added within the target.                                         *)
LEMMA OpensMore ==
  ASSUME NEW B \in Seq(Sentence), NEW W, Sums(B, W), Target <= Ceiling,
         NEW s \in State, NEW e, NEW q, NEW z, Opens(B, W, s, e, q, z),
         NEW u \in Block, ~ Full(s, u), NEW y, Part(B, u.text, z, y), z < y, Cites(B, u, z, y),
         s.from <= u.from, s.to <= u.to
  PROVE  \E f : Opens(B, W, Added(s, u), f, q, y)
<1>1. /\ s.buf # <<>> /\ q \in Nat /\ s.carried <= q /\ q < z
      /\ Pieced(B, s.buf, e, q - s.carried, z)
      /\ s.carried > 0 => Len(s.buf[1]) = s.carried /\ \A k \in 1 .. s.carried : s.buf[1][k].sep = " "
      /\ s.words = W[z] - W[q - s.carried]
      /\ s.carried <= 1 \/ W[q] - W[q - s.carried] <= Overlap
      /\ Cites(B, s, q, z)
  BY DEF Opens
<1>2. /\ z \in Nat /\ y \in Nat /\ y <= Len(B) /\ Len(B) \in Nat /\ u.text \in Seq(Sentence)
      /\ s.carried \in Nat /\ s.buf \in Seq(Text) /\ Target \in Nat /\ Ceiling \in Nat
  <2>1. Len(B) \in Nat
    BY LenProperties
  <2> QED BY <2>1, StateFields, ChunkAssumption DEF Part
<1>0. /\ q \in Nat /\ z \in Nat /\ y \in Nat /\ Len(B) \in Nat /\ s.carried \in Nat
      /\ s.carried <= q /\ q < z /\ z < y /\ y <= Len(B)
  <2>1. s.carried <= q /\ q < z /\ q \in Nat
    BY <1>1
  <2> QED BY <1>2, <2>1
<1> DEFINE v == Added(s, u)
<1>3. /\ v.buf = Append(s.buf, u.text) /\ v.words = s.words + Words(u.text) /\ v.from = s.from
      /\ v.to = u.to /\ v.carried = s.carried
  BY DEF Added, Rec
<1> HIDE DEF v
<1>4. PICK f : Pieced(B, Append(s.buf, u.text), f, q - s.carried, y)
  BY <1>1, PiecedMore
<1>5. Append(s.buf, u.text) # <<>> /\ Append(s.buf, u.text)[1] = s.buf[1]
  <2>1. u.text \in Text
    <3>1. Len(u.text) = y - z
      BY DEF Part
    <3> QED BY <1>2, <3>1, EmptySeq DEF Text
  <2>2. Len(s.buf) \in Nat /\ Len(s.buf) # 0
    BY <1>1, <1>2, EmptySeq, LenProperties
  <2>3. /\ Append(s.buf, u.text) \in Seq(Text) /\ Len(Append(s.buf, u.text)) = Len(s.buf) + 1
        /\ \A i \in 1 .. Len(s.buf) : Append(s.buf, u.text)[i] = s.buf[i]
    BY <1>2, <2>1, AppendProperties
  <2>4. 1 \in 1 .. Len(s.buf) /\ Len(s.buf) + 1 # 0
    BY <2>2
  <2> QED BY <2>3, <2>4, EmptySeq
<1>6. /\ Words(u.text) = W[y] - W[z] /\ W[y] \in Nat /\ W[z] \in Nat /\ W[q] \in Nat
      /\ W[q - s.carried] \in Nat /\ W[q - s.carried] <= W[q]
  <2>1. q - s.carried \in 0 .. Len(B) /\ q \in q - s.carried .. Len(B)
    BY <1>0
  <2> QED BY <2>1, PartWords, SumsGrow
<1>7. v.words = W[y] - W[q - s.carried] /\ W[y] - W[q] <= Ceiling
  <2>1. s.words = W[z] - W[q - s.carried] /\ s.buf # <<>>
    BY <1>1
  <2>2. s.words + Words(u.text) <= Target
    <3>1. ~ (s.words + Words(u.text) > Target)
      BY <2>1 DEF Full
    <3>2. s.words \in Int /\ Words(u.text) \in Int /\ Target \in Int
      BY <1>2, <1>6, <2>1
    <3> QED BY <3>1, <3>2
  <2>3. v.words = W[y] - W[q - s.carried]
    <3>1. v.words = s.words + Words(u.text)
      BY <1>3
    <3> HIDE DEF v
    <3> QED BY <1>6, <2>1, <3>1
  <2>4. W[y] - W[q - s.carried] <= Target
    BY <1>6, <2>1, <2>2
  <2>5. W[y] - W[q] <= Target
    <3> DEFINE w == W[q - s.carried]
               x == W[q]
    <3>1. w \in Nat /\ x \in Nat /\ w <= x /\ W[y] - w <= Target /\ W[y] \in Nat /\ Target \in Int
      BY <1>2, <1>6, <2>4
    <3> HIDE DEF w, x, v
    <3>2. W[y] - x <= Target
      BY <3>1
    <3> QED BY <3>2 DEF x
  <2>6. W[y] - W[q] <= Ceiling
    BY <1>2, <1>6, <2>5
  <2> QED BY <2>3, <2>6
<1>8. Cites(B, v, q, y)
  <2> SUFFICES ASSUME NEW p \in q + 1 .. y PROVE B[p].line \in s.from .. u.to
    BY <1>3 DEF Cites
  <2>0. p \in 1 .. Len(B) /\ s.from \in Nat /\ s.to \in Nat /\ u.from \in Nat /\ u.to \in Nat
    <3>1. p \in 1 .. Len(B)
      BY <1>0
    <3> QED BY <3>1, StateFields DEF Block
  <2>1. CASE p <= z
    <3>1. p \in q + 1 .. z
      BY <1>0, <2>1
    <3>2. B[p].line \in s.from .. s.to
      BY <1>1, <3>1 DEF Cites
    <3> QED BY <2>0, <3>2
  <2>2. CASE ~ p <= z
    <3>1. p \in z + 1 .. y
      BY <1>0, <2>2
    <3>2. B[p].line \in u.from .. u.to
      BY <3>1 DEF Cites
    <3> QED BY <2>0, <3>2
  <2> QED BY <2>1, <2>2
<1>9. q < y
  BY <1>0
<1>10. Opens(B, W, v, f, q, y)
  BY <1>1, <1>3, <1>4, <1>5, <1>7, <1>8, <1>9 DEF Opens
<1> QED BY <1>10 DEF v

(* A chunk that opens with the tail of the one before it, or as the first  *)
(* of its section.                                                         *)
LEMMA OpensNext ==
  ASSUME NEW B \in Seq(Sentence), NEW W, Sums(B, W),
         NEW text, NEW x, NEW q, Part(B, text, x, q), x < q, NEW out,
         NEW u \in Block, NEW y, Part(B, u.text, q, y), q < y, Cites(B, u, q, y), Small(u)
  PROVE  /\ \E f : Opens(B, W, Opening(text, out, u), f, q, y)
         /\ Opening(text, out, u).carried <= Len(text)
<1> DEFINE tail == OverlapTail(text)
           v == Opening(text, out, u)
<1>1. /\ x \in Nat /\ q \in Nat /\ y \in Nat /\ y <= Len(B) /\ Len(B) \in Nat
      /\ u.text \in Seq(Sentence) /\ text # <<>> /\ Len(text) = q - x
  <2>1. Len(B) \in Nat /\ Len(text) = q - x /\ text \in Seq(Sentence)
    BY LenProperties DEF Part
  <2>2. x \in Nat /\ q \in Nat /\ y \in Nat /\ y <= Len(B) /\ u.text \in Seq(Sentence)
    BY <2>1 DEF Part
  <2> QED BY <2>1, <2>2, EmptySeq
<1>2. PICK k \in x .. q - 1 :
           /\ Part(B, tail, k, q)
           /\ \A i \in 1 .. q - k : tail[i].sep = " "
           /\ k = q - 1 \/ W[q] - W[k] <= Overlap
  BY TailTells
<1> HIDE DEF tail
<1>3. k \in Nat /\ k < q /\ Len(tail) = q - k /\ tail \in Seq(Sentence) /\ tail # <<>>
  <2>1. Len(tail) = q - k /\ tail \in Seq(Sentence)
    BY <1>2 DEF Part
  <2>2. k \in Nat /\ k < q
    BY <1>1
  <2> QED BY <1>1, <2>1, <2>2, EmptySeq
<1>4. /\ v.buf = Append(<<tail>>, u.text) /\ v.words = Words(tail) + Words(u.text)
      /\ v.from = u.from /\ v.to = u.to /\ v.carried = Len(tail)
  BY <1>1, <1>3 DEF Opening, Rec, tail
<1> HIDE DEF v
<1>5. PICK e : Pieced(B, <<tail>>, e, k, q)
  BY <1>2, <1>3, PiecedOne
<1>6. PICK f : Pieced(B, Append(<<tail>>, u.text), f, k, y)
  BY <1>5, PiecedMore
<1>7. Append(<<tail>>, u.text) # <<>> /\ Append(<<tail>>, u.text)[1] = tail
  OBVIOUS
<1>8. /\ Words(u.text) = W[y] - W[q] /\ Words(tail) = W[q] - W[k]
      /\ W[y] \in Nat /\ W[q] \in Nat /\ W[k] \in Nat
  <2>1. Words(u.text) = W[y] - W[q] /\ W[y] \in Nat /\ W[q] \in Nat
    BY PartWords
  <2>2. Words(tail) = W[q] - W[k] /\ W[k] \in Nat
    <3>1. Part(B, tail, k, q)
      BY <1>2
    <3> QED BY <3>1, PartWords
  <2> QED BY <2>1, <2>2
<1>9. q - v.carried = k /\ v.carried <= q /\ v.carried <= Len(text)
  <2>1. v.carried = q - k
    BY <1>3, <1>4
  <2>2. k \in Nat /\ q \in Nat /\ x \in Nat /\ k < q /\ x <= k /\ Len(text) = q - x
    BY <1>1, <1>3
  <2> QED BY <2>1, <2>2
<1>10. v.words = W[y] - W[k]
  BY <1>4, <1>8
<1>11. W[y] - W[q] <= Ceiling \/ y = q + 1
  <2>1. Len(u.text) = y - q
    BY DEF Part
  <2> QED BY <1>1, <1>8, <2>1 DEF Small
<1>12. v.carried <= 1 \/ W[q] - W[k] <= Overlap
  <2>1. v.carried = q - k /\ k \in Nat /\ q \in Nat
    BY <1>1, <1>3, <1>4
  <2>2. k = q - 1 \/ W[q] - W[k] <= Overlap
    BY <1>2
  <2> QED BY <2>1, <2>2
<1>13. Cites(B, v, q, y)
  BY <1>4 DEF Cites
<1>14. \A i \in 1 .. v.carried : tail[i].sep = " "
  BY <1>2, <1>3, <1>4
<1>15. Opens(B, W, v, f, q, y)
  BY <1>1, <1>4, <1>6, <1>7, <1>9, <1>10, <1>11, <1>12, <1>13, <1>14 DEF Opens
<1> QED BY <1>9, <1>15 DEF v

LEMMA OpensFirst ==
  ASSUME NEW B \in Seq(Sentence), NEW W, Sums(B, W), NEW out,
         NEW u \in Block, NEW q, NEW y, Part(B, u.text, q, y), q < y, Cites(B, u, q, y), Small(u)
  PROVE  /\ \E f : Opens(B, W, Opening(<<>>, out, u), f, q, y)
         /\ Opening(<<>>, out, u).carried = 0
<1> DEFINE v == Opening(<<>>, out, u)
<1>1. /\ q \in Nat /\ y \in Nat /\ y <= Len(B) /\ Len(B) \in Nat /\ u.text \in Seq(Sentence)
  <2>1. Len(B) \in Nat
    BY LenProperties
  <2> QED BY <2>1 DEF Part
<1>2. Len(<<>>) = 0 /\ Words(<<>>) = 0
  <2>1. <<>> \in Seq(Sentence) /\ Len(<<>>) = 0
    BY EmptySeq
  <2>2. PICK g : Sums(<<>>, g) /\ g[Len(<<>>)] = Words(<<>>)
    BY <2>1, WordsSteps
  <2> QED BY <2>1, <2>2 DEF Sums
<1>3. /\ v.buf = <<u.text>> /\ v.words = Words(<<>>) + Words(u.text)
      /\ v.from = u.from /\ v.to = u.to /\ v.carried = Len(<<>>)
  <2>1. Append(<<>>, u.text) = <<u.text>>
    OBVIOUS
  <2> QED BY <2>1 DEF Opening, Rec
<1> HIDE DEF v
<1>4. PICK f : Pieced(B, <<u.text>>, f, q, y)
  BY PiecedOne
<1>5. <<u.text>> # <<>>
  OBVIOUS
<1>6. Words(u.text) = W[y] - W[q] /\ W[y] \in Nat /\ W[q] \in Nat
  BY PartWords
<1>7. v.carried = 0 /\ q - v.carried = q /\ v.words = W[y] - W[q] /\ v.carried <= q
  BY <1>1, <1>2, <1>3, <1>6
<1>8. W[y] - W[q] <= Ceiling \/ y = q + 1
  <2>1. Len(u.text) = y - q
    BY DEF Part
  <2> QED BY <1>1, <1>6, <2>1 DEF Small
<1>9. Cites(B, v, q, y)
  BY <1>3 DEF Cites
<1>10. Opens(B, W, v, f, q, y)
  BY <1>1, <1>3, <1>4, <1>5, <1>7, <1>8, <1>9 DEF Opens
<1> QED BY <1>7, <1>10 DEF v

-----------------------------------------------------------------------------
(***************************************************************************)
(* Chunks, one after the other.                                            *)
(***************************************************************************)
Run(B, W, out, o, a, z) ==
  /\ IsCut(B, o, Len(out), a, z)
  /\ \A k \in 1 .. Len(out) : IsPiece(B, W, out[k], o[k - 1], o[k])

(* What is carried over is from the chunk before.                          *)
Carries(out) ==
  \A k \in 1 .. Len(out) : out[k].carried > 0 => k > 1 /\ out[k].carried <= Len(out[k - 1].text)

AllWithin(out, lo, hi) == \A k \in 1 .. Len(out) : Within(out[k], lo, hi)

Row(B, W, out, a, z, lo, hi) ==
  (\E o : Run(B, W, out, o, a, z)) /\ Carries(out) /\ AllWithin(out, lo, hi)

LEMMA EmptyRow ==
  ASSUME NEW B \in Seq(Sentence), NEW W, NEW a \in 0 .. Len(B), NEW lo, NEW hi
  PROVE  Row(B, W, <<>>, a, a, lo, hi)
<1> DEFINE o == [i \in 0 .. 0 |-> a]
<1>1. Len(<<>>) = 0 /\ 1 .. 0 = {} /\ a \in Nat
  BY EmptySeq, LenProperties
<1>2. IsCut(B, o, 0, a, a)
  BY <1>1 DEF IsCut
<1> HIDE DEF o
<1>3. Run(B, W, <<>>, o, a, a)
  BY <1>1, <1>2 DEF Run
<1> QED BY <1>1, <1>3 DEF Row, Carries, AllWithin

LEMMA RunConcat ==
  ASSUME NEW B \in Seq(Sentence), NEW W, NEW S, NEW out \in Seq(S), NEW more \in Seq(S),
         NEW o, NEW d, NEW a, NEW m, NEW z, Run(B, W, out, o, a, m), Run(B, W, more, d, m, z)
  PROVE  \E e : Run(B, W, out \o more, e, a, z)
<1> DEFINE l == Len(out)
           n == Len(more)
           all == out \o more
<1>1. /\ l \in Nat /\ n \in Nat /\ Len(all) = l + n
      /\ \A i \in 1 .. l + n : all[i] = IF i <= l THEN out[i] ELSE more[i - l]
  BY ConcatProperties, LenProperties
<1>2. IsCut(B, o, l, a, m) /\ IsCut(B, d, n, m, z)
  BY DEF Run
<1> HIDE DEF all
<1>3. PICK e : AreOne(B, e, o, l, d, n, a, z)
  <2> HIDE DEF l, n
  <2> QED BY <1>2, CutConcat
<1>4. /\ IsCut(B, e, l + n, a, z)
      /\ \A i \in 0 .. l : e[i] = o[i]
      /\ \A i \in 0 .. n : e[l + i] = d[i]
  BY <1>3 DEF AreOne
<1>5. ASSUME NEW k \in 1 .. l + n PROVE IsPiece(B, W, all[k], e[k - 1], e[k])
  <2>1. CASE k <= l
    <3>1. k \in 1 .. l /\ k \in 0 .. l /\ k - 1 \in 0 .. l
      BY <1>1, <2>1
    <3>2. all[k] = out[k] /\ e[k] = o[k] /\ e[k - 1] = o[k - 1]
      BY <1>1, <1>4, <2>1, <3>1
    <3> QED BY <3>1, <3>2 DEF Run
  <2>2. CASE ~ k <= l
    <3> DEFINE j == k - l
    <3>1. j \in 1 .. n /\ j \in 0 .. n /\ j - 1 \in 0 .. n /\ l + j = k /\ l + (j - 1) = k - 1
      BY <1>1, <2>2
    <3>2. all[k] = more[j]
      BY <1>1, <2>2
    <3> HIDE DEF j
    <3>3. e[k] = d[j] /\ e[k - 1] = d[j - 1]
      BY <1>4, <3>1
    <3>4. IsPiece(B, W, more[j], d[j - 1], d[j])
      BY <3>1 DEF Run
    <3> QED BY <3>2, <3>3, <3>4
  <2> QED BY <2>1, <2>2
<1>6. Run(B, W, all, e, a, z)
  BY <1>1, <1>4, <1>5 DEF Run
<1> QED BY <1>6 DEF all

LEMMA RunOne ==
  ASSUME NEW B \in Seq(Sentence), NEW W, NEW x, NEW a, NEW z, IsPiece(B, W, x, a, z)
  PROVE  \E o : Run(B, W, <<x>>, o, a, z)
<1> DEFINE c == [i \in 0 .. 1 |-> IF i = 0 THEN a ELSE z]
           xs == <<x>>
<1>1. a \in Nat /\ z \in Nat /\ z <= Len(B) /\ a < z
  <2>1. Len(B) \in Nat
    BY LenProperties
  <2>2. x.carried \in Nat /\ a \in Nat /\ x.carried <= a /\ a < z /\ Part(B, x.text, a - x.carried, z)
    BY DEF IsPiece
  <2>3. z \in a - x.carried .. Len(B) /\ a - x.carried \in Nat
    BY <2>2 DEF Part
  <2> QED BY <2>1, <2>2, <2>3
<1>2. IsCut(B, c, 1, a, z)
  BY <1>1, CutOne
<1>3. Len(xs) = 1 /\ xs[1] = x
  OBVIOUS
<1>4. c[0] = a /\ c[1] = z /\ 1 - 1 = 0 /\ \A i \in 1 .. 1 : i = 1
  OBVIOUS
<1> HIDE DEF c, xs
<1>5. \A i \in 1 .. 1 : IsPiece(B, W, xs[i], c[i - 1], c[i])
  BY <1>3, <1>4
<1>6. Run(B, W, xs, c, a, z)
  BY <1>2, <1>3, <1>5 DEF Run
<1> QED BY <1>6 DEF xs

LEMMA RowMore ==
  ASSUME NEW B \in Seq(Sentence), NEW W, NEW out \in Seq(Told), NEW a, NEW m, NEW z, NEW lo, NEW hi,
         Row(B, W, out, a, m, lo, hi), NEW x \in Told, IsPiece(B, W, x, m, z), Within(x, lo, hi),
         x.carried > 0 => out # <<>> /\ x.carried <= Len(out[Len(out)].text)
  PROVE  Row(B, W, Append(out, x), a, z, lo, hi)
<1> DEFINE l == Len(out)
           all == Append(out, x)
<1>1. /\ l \in Nat /\ all \in Seq(Told) /\ Len(all) = l + 1
      /\ \A i \in 1 .. l : all[i] = out[i]
      /\ all[l + 1] = x
      /\ all = out \o <<x>> /\ <<x>> \in Seq(Told)
      /\ out # <<>> => l > 0
  BY AppendProperties, LenProperties, EmptySeq
<1>2. PICK o : Run(B, W, out, o, a, m)
  BY DEF Row
<1>3. PICK d : Run(B, W, <<x>>, d, m, z)
  BY RunOne
<1>4. \E e : Run(B, W, all, e, a, z)
  BY <1>1, <1>2, <1>3, RunConcat
<1> HIDE DEF all
<1>5. Carries(out) /\ AllWithin(out, lo, hi)
  BY DEF Row
<1>6. ASSUME NEW k \in 1 .. l + 1
      PROVE  /\ Within(all[k], lo, hi)
             /\ all[k].carried > 0 => k > 1 /\ all[k].carried <= Len(all[k - 1].text)
  <2>1. CASE k <= l
    <3>1. k \in 1 .. l /\ (k > 1 => k - 1 \in 1 .. l)
      BY <1>1, <2>1
    <3> QED BY <1>1, <1>5, <3>1 DEF Carries, AllWithin
  <2>2. CASE ~ k <= l
    <3>1. k = l + 1 /\ k - 1 = l
      BY <1>1, <2>2
    <3>2. l > 0 => k > 1 /\ all[k - 1] = out[l]
      BY <1>1, <3>1
    <3> QED BY <1>1, <3>1, <3>2
  <2> QED BY <2>1, <2>2
<1>7. Carries(all) /\ AllWithin(all, lo, hi)
  BY <1>1, <1>6 DEF Carries, AllWithin
<1> QED BY <1>4, <1>7 DEF Row, all

Ending(s) == [text |-> Join(s.buf, "\n"), carried |-> s.carried, from |-> s.from, to |-> s.to]

PackOK(B, W, s, a, z, lo, hi) ==
  /\ \E q, e : Row(B, W, s.out, a, q, lo, hi) /\ Opens(B, W, s, e, q, z)
  /\ s.carried > 0 => s.out # <<>> /\ s.carried <= Len(s.out[Len(s.out)].text)
  /\ Within(s, lo, hi)

LEMMA EndRow ==
  ASSUME NEW B \in Seq(Sentence), NEW W, NEW s \in State, NEW a, NEW z, NEW lo, NEW hi,
         PackOK(B, W, s, a, z, lo, hi)
  PROVE  /\ Row(B, W, Append(s.out, Ending(s)), a, z, lo, hi)
         /\ Ending(s) \in Told /\ Append(s.out, Ending(s)) \in Seq(Told)
         /\ \E q : IsPiece(B, W, Ending(s), q, z)
<1>1. PICK q, e : Row(B, W, s.out, a, q, lo, hi) /\ Opens(B, W, s, e, q, z)
  BY DEF PackOK
<1>2. IsPiece(B, W, Ending(s), q, z)
  BY <1>1, CloseTells DEF Ending
<1>3. Ending(s) \in Told /\ s.out \in Seq(Told)
  BY ToldType, StateFields DEF Ending
<1>4. Within(Ending(s), lo, hi) /\ Ending(s).carried = s.carried
  BY DEF PackOK, Within, Ending
<1>5. Ending(s).carried > 0 => s.out # <<>> /\ Ending(s).carried <= Len(s.out[Len(s.out)].text)
  BY <1>4 DEF PackOK
<1>6. Row(B, W, Append(s.out, Ending(s)), a, z, lo, hi)
  BY <1>1, <1>2, <1>3, <1>4, <1>5, RowMore
<1> QED BY <1>2, <1>3, <1>6

LEMMA OpeningIs ==
  ASSUME NEW text, NEW out, NEW u
  PROVE  Opening(text, out, u).from = u.from /\ Opening(text, out, u).to = u.to
         /\ Opening(text, out, u).out = out
BY DEF Opening, Rec

(* One turn of the loop keeps to that.                                     *)
LEMMA PackStep ==
  ASSUME NEW B \in Seq(Sentence), NEW W, Sums(B, W), Target <= Ceiling,
         NEW s \in State, NEW a, NEW z, NEW lo, NEW hi, PackOK(B, W, s, a, z, lo, hi),
         NEW u \in Block, NEW y, Part(B, u.text, z, y), z < y, Cites(B, u, z, y), Small(u),
         Within(u, lo, hi), s.from <= u.from, s.to <= u.to
  PROVE  /\ PackOK(B, W, Pack(s, u), a, y, lo, hi)
         /\ Pack(s, u).from <= u.from /\ Pack(s, u).to = u.to
<1>1. PICK q, e : Row(B, W, s.out, a, q, lo, hi) /\ Opens(B, W, s, e, q, z)
  BY DEF PackOK
<1>2. s.buf # <<>>
  BY <1>1 DEF Opens
<1>3. u.from \in Nat /\ u.to \in Nat
  BY DEF Block
<1>4. CASE Full(s, u)
  <2> DEFINE x == Ending(s)
             out == Append(s.out, x)
             v == Opening(x.text, out, u)
  <2>1. Pack(s, u) = v
    BY <1>2, <1>4, PackIs DEF Ending
  <2>2. Row(B, W, out, a, z, lo, hi) /\ x \in Told /\ out \in Seq(Told)
    BY EndRow
  <2>3. PICK r : IsPiece(B, W, x, r, z)
    BY EndRow
  <2>4. out # <<>> /\ out[Len(out)] = x
    <3>1. s.out \in Seq(Told)
      BY StateFields
    <3> HIDE DEF x
    <3> QED BY <2>2, <3>1
  <2> HIDE DEF x
  <2>5. Part(B, x.text, r - x.carried, z) /\ r - x.carried < z
    <3>1. Part(B, x.text, r - x.carried, z) /\ r \in Nat /\ x.carried \in Nat /\ r < z
      BY <2>3 DEF IsPiece
    <3>2. z \in Nat
      <4>1. Len(B) \in Nat
        BY LenProperties
      <4> QED BY <4>1 DEF Part
    <3> QED BY <3>1, <3>2
  <2> HIDE DEF out
  <2>6. (\E f : Opens(B, W, v, f, z, y)) /\ v.carried <= Len(x.text)
    BY <2>5, OpensNext
  <2>7. v.from = u.from /\ v.to = u.to /\ v.out = out
    BY OpeningIs
  <2> HIDE DEF v
  <2>8. PackOK(B, W, v, a, y, lo, hi)
    BY <2>2, <2>4, <2>6, <2>7 DEF PackOK, Within
  <2> QED BY <1>3, <2>1, <2>7, <2>8
<1>5. CASE ~ Full(s, u)
  <2>1. Pack(s, u) = Added(s, u)
    BY <1>2, <1>5, PackIs
  <2>2. \E f : Opens(B, W, Added(s, u), f, q, y)
    BY <1>1, <1>5, OpensMore
  <2>3. /\ Added(s, u).from = s.from /\ Added(s, u).to = u.to
        /\ Added(s, u).carried = s.carried /\ Added(s, u).out = s.out
    BY DEF Added, Rec
  <2>4. Within(Added(s, u), lo, hi)
    BY <2>3 DEF PackOK, Within
  <2>5. PackOK(B, W, Added(s, u), a, y, lo, hi)
    BY <1>1, <2>2, <2>3, <2>4 DEF PackOK
  <2> QED BY <2>1, <2>3, <2>5
<1> QED BY <1>4, <1>5

LEMMA PackFirst ==
  ASSUME NEW B \in Seq(Sentence), NEW W, Sums(B, W), NEW lo, NEW hi,
         NEW u \in Block, NEW a, NEW y, Part(B, u.text, a, y), a < y, Cites(B, u, a, y), Small(u),
         Within(u, lo, hi)
  PROVE  /\ PackOK(B, W, Pack(Packer, u), a, y, lo, hi)
         /\ Pack(Packer, u).from <= u.from /\ Pack(Packer, u).to = u.to
<1> DEFINE v == Opening(<<>>, <<>>, u)
<1>0. a \in 0 .. Len(B) /\ u.from \in Nat
  <2>1. Len(B) \in Nat
    BY LenProperties
  <2> QED BY <2>1 DEF Part, Block
<1>1. Packer \in State /\ Packer.buf = <<>> /\ Packer.prev = <<>> /\ Packer.out = <<>>
  BY EmptySeq DEF Packer, State
<1>2. Pack(Packer, u) = v
  BY <1>1, PackIs
<1>3. (\E f : Opens(B, W, v, f, a, y)) /\ v.carried = 0
  BY OpensFirst
<1>4. v.from = u.from /\ v.to = u.to /\ v.out = <<>>
  BY OpeningIs
<1>5. Row(B, W, <<>>, a, a, lo, hi)
  BY <1>0, EmptyRow
<1> HIDE DEF v
<1>6. PackOK(B, W, v, a, y, lo, hi)
  BY <1>3, <1>4, <1>5 DEF PackOK, Within
<1> QED BY <1>0, <1>2, <1>4, <1>6

(* A section that is over the ceiling.                                     *)
LEMMA BlocksTold ==
  ASSUME NEW B \in Seq(Sentence), NEW W, Sums(B, W), Target <= Ceiling,
         NEW bs, NEW c, NEW a, NEW z, Laid(B, bs, c, a, z), Rising(bs), a < z,
         NEW lo, NEW hi, AllWithin(bs, lo, hi)
  PROVE  /\ Row(B, W, ChunkBlocks(bs), a, z, lo, hi)
         /\ ChunkBlocks(bs) \in Seq(Told)
<1> DEFINE us == Units(bs)
           n == Len(us)
<1>1. UnitsTo(B, us, bs, a, z, Len(bs))
  BY UnitsTell
<1> HIDE DEF us
<1>2. PICK d : Laid(B, us, d, a, z)
  BY <1>1 DEF UnitsTo
<1>3. /\ n \in Nat /\ us \in Seq(Block) /\ d[0] = a /\ d[n] = z /\ a \in Nat /\ z \in Nat
      /\ \A i \in 1 .. n :
           /\ us[i] \in Block /\ us[i].text # <<>>
           /\ d[i - 1] \in Nat /\ d[i] \in Nat /\ d[i - 1] < d[i]
           /\ Part(B, us[i].text, d[i - 1], d[i]) /\ Cites(B, us[i], d[i - 1], d[i])
  BY <1>2, LaidBlocks
<1>4. n > 0
  <2>1. n # 0
    BY <1>3
  <2> QED BY <1>3, <2>1
<1>5. ASSUME NEW i \in 1 .. n PROVE Small(us[i]) /\ Within(us[i], lo, hi)
  <2>1. Small(us[i]) /\ \E j \in 1 .. Len(bs) : us[i].from = bs[j].from /\ us[i].to = bs[j].to
    BY <1>1 DEF UnitsTo
  <2> QED BY <2>1 DEF AllWithin, Within
<1>6. \A i, j \in 1 .. n : i < j => us[i].from <= us[j].from /\ us[i].to <= us[j].to
  BY <1>1 DEF UnitsTo, Rising
<1>7. PICK g \in [0 .. n -> State] :
           /\ g[0] = Packer
           /\ \A i \in 1 .. n : g[i] = Pack(g[i - 1], us[i])
           /\ g[n] = FoldLeft(Pack, Packer, us)
  <2>1. Packer \in State
    BY EmptySeq DEF Packer, State
  <2>2. \A s \in State : \A i \in 1 .. n : Pack(s, us[i]) \in State
    BY <1>3, PackType
  <2> QED BY <1>3, <2>1, <2>2, PackSteps
<1> DEFINE P == {i \in 0 .. n : i > 0 => /\ PackOK(B, W, g[i], a, d[i], lo, hi)
                                       /\ g[i].from <= us[i].from /\ g[i].to = us[i].to}
<1>8. 0 \in P
  BY <1>3
<1>9. ASSUME NEW i \in 1 .. n, i - 1 \in P PROVE i \in P
  <2>0. i \in 0 .. n /\ i - 1 \in 0 .. n /\ i \in Nat /\ i > 0
    BY <1>3
  <2>1. /\ us[i] \in Block /\ Part(B, us[i].text, d[i - 1], d[i]) /\ d[i - 1] < d[i]
        /\ Cites(B, us[i], d[i - 1], d[i]) /\ Small(us[i]) /\ Within(us[i], lo, hi)
    BY <1>3, <1>5
  <2>2. g[i] = Pack(g[i - 1], us[i]) /\ g[i - 1] \in State
    BY <1>7, <2>0
  <2>3. CASE i = 1
    <3>1. g[i] = Pack(Packer, us[i]) /\ d[i - 1] = a
      BY <1>3, <1>7, <2>2, <2>3
    <3>2. /\ PackOK(B, W, Pack(Packer, us[i]), a, d[i], lo, hi)
          /\ Pack(Packer, us[i]).from <= us[i].from /\ Pack(Packer, us[i]).to = us[i].to
      BY <2>1, <3>1, PackFirst
    <3> QED BY <2>0, <3>1, <3>2
  <2>4. CASE i # 1
    <3>1. i - 1 > 0 /\ i - 1 \in 1 .. n /\ i - 1 < i
      BY <1>3, <2>0, <2>4
    <3>2. /\ PackOK(B, W, g[i - 1], a, d[i - 1], lo, hi)
          /\ g[i - 1].from <= us[i - 1].from /\ g[i - 1].to = us[i - 1].to
      BY <1>9, <3>1
    <3>3. us[i - 1].from <= us[i].from /\ us[i - 1].to <= us[i].to
      BY <1>6, <3>1
    <3>4. /\ us[i - 1].from \in Nat /\ us[i].from \in Nat /\ us[i - 1].to \in Nat
          /\ us[i].to \in Nat /\ g[i - 1].from \in Nat
      BY <1>3, <2>2, <3>1, StateFields DEF Block
    <3>5. g[i - 1].from <= us[i].from /\ g[i - 1].to <= us[i].to
      BY <3>2, <3>3, <3>4
    <3>6. /\ PackOK(B, W, Pack(g[i - 1], us[i]), a, d[i], lo, hi)
          /\ Pack(g[i - 1], us[i]).from <= us[i].from /\ Pack(g[i - 1], us[i]).to = us[i].to
      BY <2>1, <2>2, <3>2, <3>5, PackStep
    <3> QED BY <2>0, <2>2, <3>6
  <2> QED BY <2>3, <2>4
<1> HIDE DEF P
<1>10. n \in P
  <2>1. \A i \in 0 .. n : i \in P
    BY <1>3, <1>8, <1>9, UpTo
  <2> QED BY <1>3, <2>1
<1> DEFINE s == g[n]
<1>11. PackOK(B, W, s, a, z, lo, hi) /\ s \in State
  <2>1. n \in 0 .. n
    BY <1>3
  <2> QED BY <1>3, <1>4, <1>7, <1>10, <2>1 DEF P
<1>12. Close(s).out = Append(s.out, Ending(s))
  <2> HIDE DEF s
  <2>1. Close(Rec(s.buf, s.words, s.from, s.to, s.carried, s.prev, s.out)).out
          = Append(s.out, [text |-> Join(s.buf, "\n"), carried |-> s.carried, from |-> s.from, to |-> s.to])
    <3>1. Close(Rec(s.buf, s.words, s.from, s.to, s.carried, s.prev, s.out))
            = Rec(<<>>, 0, s.from, s.to, s.carried, Join(s.buf, "\n"),
                  Append(s.out, [text |-> Join(s.buf, "\n"), carried |-> s.carried,
                                 from |-> s.from, to |-> s.to]))
      BY CloseIs
    <3> QED BY <3>1 DEF Rec
  <2>2. s = Rec(s.buf, s.words, s.from, s.to, s.carried, s.prev, s.out)
    BY <1>11, StateIs
  <2> QED BY <2>1, <2>2 DEF Ending
<1>13. ChunkBlocks(bs) = Append(s.out, Ending(s))
  BY <1>7, <1>12 DEF ChunkBlocks, us
<1> HIDE DEF s
<1> QED BY <1>11, <1>13, EndRow

(* A section, of whatever size.                                            *)
LEMMA PiecesTold ==
  ASSUME NEW B \in Seq(Sentence), NEW W, Sums(B, W), Target <= Ceiling,
         NEW bs, NEW c, NEW a, NEW z, Laid(B, bs, c, a, z), Rising(bs), a < z,
         NEW lo, NEW hi, AllWithin(bs, lo, hi)
  PROVE  Row(B, W, Pieces(bs), a, z, lo, hi) /\ Pieces(bs) \in Seq(Told)
<1> DEFINE n == Len(bs)
           text == Join(Texts(bs), "\n")
           x == [text |-> text, carried |-> 0, from |-> bs[1].from, to |-> bs[n].to]
<1>1. CASE ~ Total(bs) <= Ceiling
  BY <1>1, BlocksTold DEF Pieces
<1>2. CASE Total(bs) <= Ceiling
  <2>1. Pieces(bs) = <<x>>
    BY <1>2 DEF Pieces
  <2>2. /\ n \in Nat /\ c[0] = a /\ c[n] = z /\ a \in Nat /\ z \in Nat /\ z <= Len(B)
        /\ \A i \in 1 .. n : bs[i] \in Block /\ Cites(B, bs[i], c[i - 1], c[i])
    BY LaidBlocks
  <2>3. n > 0 /\ 1 \in 1 .. n /\ n \in 1 .. n
    <3>1. n # 0
      BY <2>2
    <3> QED BY <2>2, <3>1
  <2>4. bs[1].from \in Nat /\ bs[n].to \in Nat /\ \A i \in 1 .. n : bs[i].from \in Nat /\ bs[i].to \in Nat
    BY <2>2, <2>3 DEF Block
  <2>5. Part(B, text, a, z)
    <3>1. "\n" \in Separator
      BY DEF Separator, Blank
    <3>2. Pieced(B, Texts(bs), c, a, z)
      BY TextsPieced
    <3> QED BY <3>1, <3>2, JoinTells
  <2>6. W[z] - W[a] <= Ceiling
    BY <1>2, TotalWords
  <2> HIDE DEF text
  <2>7. x \in Told
    <3>1. text \in Seq(Sentence)
      BY <2>5 DEF Part
    <3> QED BY <2>4, <3>1 DEF Told
  <2>8. x.text = text /\ x.carried = 0 /\ x.from = bs[1].from /\ x.to = bs[n].to
    OBVIOUS
  <2> HIDE DEF x
  <2>9. Cites(B, x, a, z)
    <3> SUFFICES ASSUME NEW p \in a + 1 .. z PROVE B[p].line \in bs[1].from .. bs[n].to
      BY <2>8 DEF Cites
    <3>1. PICK i \in 1 .. n : p \in c[i - 1] + 1 .. c[i]
      <4>1. IsCut(B, c, n, a, z)
        BY DEF Laid
      <4> HIDE DEF n
      <4> QED BY <4>1, CutCovers
    <3>2. B[p].line \in bs[i].from .. bs[i].to
      BY <2>2, <3>1 DEF Cites
    <3>3. bs[1].from <= bs[i].from /\ bs[i].to <= bs[n].to
      <4>1. 1 < i => bs[1].from <= bs[i].from
        BY <2>3 DEF Rising
      <4>2. i < n => bs[i].to <= bs[n].to
        BY <2>3 DEF Rising
      <4>3. (1 < i \/ i = 1) /\ (i < n \/ i = n)
        BY <2>2, <2>3
      <4> QED BY <2>4, <4>1, <4>2, <4>3
    <3>4. B[p].line \in Int /\ bs[i].from <= B[p].line /\ B[p].line <= bs[i].to
      BY <2>4, <3>2
    <3>5. bs[1].from <= B[p].line /\ B[p].line <= bs[n].to
      <4> HIDE DEF n
      <4>1. bs[1].from \in Nat /\ bs[i].from \in Nat /\ bs[i].to \in Nat /\ bs[n].to \in Nat
        BY <2>4
      <4> QED BY <3>3, <3>4, <4>1
    <3> QED BY <2>4, <3>4, <3>5
  <2>10. IsPiece(B, W, x, a, z)
    <3>1. a - 0 = a /\ 0 \in Nat /\ 0 <= a /\ 0 <= 1 /\ 1 .. 0 = {}
      BY <2>2
    <3> QED BY <2>2, <2>5, <2>6, <2>8, <2>9, <3>1 DEF IsPiece
  <2>11. Within(x, lo, hi)
    BY <2>3, <2>8 DEF AllWithin, Within
  <2>12. Row(B, W, <<>>, a, a, lo, hi)
    <3>1. a \in 0 .. Len(B)
      <4>1. Len(B) \in Nat
        BY LenProperties
      <4> QED BY <2>2, <4>1
    <3> QED BY <3>1, EmptyRow
  <2>13. Row(B, W, Append(<<>>, x), a, z, lo, hi)
    <3>1. <<>> \in Seq(Told)
      BY EmptySeq
    <3>2. ~ x.carried > 0
      BY <2>8
    <3> QED BY <2>7, <2>10, <2>11, <2>12, <3>1, <3>2, RowMore
  <2>14. Append(<<>>, x) = <<x>> /\ <<x>> \in Seq(Told)
    BY <2>7
  <2> QED BY <2>1, <2>13, <2>14
<1> QED BY <1>1, <1>2

-----------------------------------------------------------------------------
(***************************************************************************)
(* Sections, one after the other, each with its title.                     *)
(***************************************************************************)
Chunked == [title : (Title \cup {NoTitle}) \X (Title \cup {NoTitle}),
            text : Seq(Sentence), carried : Nat, from : Nat, to : Nat]

LEMMA TitledIs ==
  ASSUME NEW x, NEW p \in Told
  PROVE  LET c == WithTitle(x, p) IN
         /\ c.title = x /\ c.text = p.text /\ c.carried = p.carried
         /\ c.from = p.from /\ c.to = p.to
BY DEF WithTitle

LEMMA TitledPieces ==
  ASSUME NEW s \in Section, Pieces(s.blocks) \in Seq(Told)
  PROVE  /\ Titled(s) \in Seq(Chunked) /\ Len(Titled(s)) = Len(Pieces(s.blocks))
         /\ \A i \in 1 .. Len(Titled(s)) : LET c == Titled(s)[i]
                                             p == Pieces(s.blocks)[i] IN
              /\ c.title = <<s.sec, s.sub>> /\ c.text = p.text /\ c.carried = p.carried
              /\ c.from = p.from /\ c.to = p.to
<1> DEFINE ps == Pieces(s.blocks)
           n == Len(ps)
           x == <<s.sec, s.sub>>
           c(i) == WithTitle(x, ps[i])
<1>1. n \in Nat /\ DOMAIN ps = 1 .. n /\ \A i \in 1 .. n : ps[i] \in Told
  BY LenProperties, ElementOfSeq
<1>2. x \in (Title \cup {NoTitle}) \X (Title \cup {NoTitle})
  BY DEF Section
<1>3. Titled(s) = [i \in 1 .. n |-> c(i)]
  BY <1>1 DEF Titled
<1>4. ASSUME NEW i \in 1 .. n
      PROVE  /\ c(i) \in Chunked /\ c(i).title = x /\ c(i).text = ps[i].text
             /\ c(i).carried = ps[i].carried /\ c(i).from = ps[i].from /\ c(i).to = ps[i].to
  <2>1. ps[i] \in Told
    BY <1>1
  <2> DEFINE p == ps[i]
  <2> HIDE DEF ps, x
  <2>2. c(i) \in Chunked
    BY <1>2, <2>1 DEF Chunked, Told, WithTitle
  <2> QED BY <2>1, <2>2, TitledIs
<1> HIDE DEF c
<1>5. Titled(s) \in [1 .. n -> Chunked]
  BY <1>3, <1>4
<1>6. Titled(s) \in Seq(Chunked) /\ Len(Titled(s)) = n
  <2> HIDE DEF n
  <2> QED BY <1>1, <1>5
<1>7. \A i \in 1 .. n : Titled(s)[i] = c(i)
  BY <1>3
<1> HIDE DEF n, ps
<1> QED BY <1>4, <1>6, <1>7 DEF n, ps

SectionOK(B, s, a, z) == (\E c : Laid(B, s.blocks, c, a, z)) /\ Rising(s.blocks)

SectionsLaid(B, ss, sc, z) ==
  /\ ss \in Seq(Section) /\ IsCut(B, sc, Len(ss), 0, z)
  /\ \A i \in 1 .. Len(ss) : SectionOK(B, ss[i], sc[i - 1], sc[i])
  /\ \A i, j \in 1 .. Len(ss) : i < j =>
       \A k \in 1 .. Len(ss[i].blocks), l \in 1 .. Len(ss[j].blocks) :
         ss[i].blocks[k].to < ss[j].blocks[l].from

Lo(s) == s.blocks[1].from
Hi(s) == s.blocks[Len(s.blocks)].to

SameTitle(out) == \A k \in 1 .. Len(out) : out[k].carried > 0 => out[k - 1].title = out[k].title

InTurn(out) ==
  \A k, l \in 1 .. Len(out) : k < l => out[k].title = out[l].title \/ out[k].to < out[l].from

Telling(B, W, out, z) ==
  (\E o : Run(B, W, out, o, 0, z)) /\ Carries(out) /\ SameTitle(out) /\ InTurn(out)

Issued(B, W, out, ss, m, z) ==
  /\ Telling(B, W, out, z)
  /\ \A k \in 1 .. Len(out) : \E i \in 1 .. m : Within(out[k], Lo(ss[i]), Hi(ss[i]))

(* The pieces of one section.                                              *)
LEMMA SectionTold ==
  ASSUME NEW B \in Seq(Sentence), NEW W, Sums(B, W), Target <= Ceiling,
         NEW s \in Section, NEW a, NEW z, a < z, SectionOK(B, s, a, z)
  PROVE  /\ Titled(s) \in Seq(Chunked)
         /\ \E o : Run(B, W, Titled(s), o, a, z)
         /\ Carries(Titled(s)) /\ AllWithin(Titled(s), Lo(s), Hi(s))
         /\ \A k \in 1 .. Len(Titled(s)) : Titled(s)[k].title = <<s.sec, s.sub>>
         /\ Len(s.blocks) \in Nat /\ Len(s.blocks) > 0
<1> DEFINE bs == s.blocks
           n == Len(bs)
           ps == Pieces(bs)
           ts == Titled(s)
<1>1. PICK c : Laid(B, bs, c, a, z)
  BY DEF SectionOK
<1>2. Rising(bs)
  BY DEF SectionOK
<1>3. /\ n \in Nat /\ c[0] = a /\ c[n] = z /\ a \in Nat /\ z \in Nat
      /\ \A i \in 1 .. n : bs[i] \in Block /\ c[i - 1] < c[i] /\ Cites(B, bs[i], c[i - 1], c[i])
                          /\ c[i - 1] \in Nat /\ c[i] \in Nat
  BY <1>1, LaidBlocks
<1>4. n > 0 /\ 1 \in 1 .. n /\ n \in 1 .. n
  <2>1. n # 0
    BY <1>3
  <2> QED BY <1>3, <2>1
<1>5. AllWithin(bs, Lo(s), Hi(s))
  <2> SUFFICES ASSUME NEW i \in 1 .. n
               PROVE  bs[i].from \in bs[1].from .. bs[n].to /\ bs[i].to \in bs[1].from .. bs[n].to
    BY DEF AllWithin, Within, Lo, Hi
  <2>1. /\ bs[1].from \in Nat /\ bs[n].to \in Nat /\ bs[i].from \in Nat /\ bs[i].to \in Nat
    BY <1>3, <1>4 DEF Block
  <2>2. bs[1].from <= bs[i].from /\ bs[i].to <= bs[n].to
    <3>1. 1 < i => bs[1].from <= bs[i].from
      BY <1>2, <1>4 DEF Rising
    <3>2. i < n => bs[i].to <= bs[n].to
      BY <1>2, <1>4 DEF Rising
    <3>3. (1 < i \/ i = 1) /\ (i < n \/ i = n)
      BY <1>3, <1>4
    <3> QED BY <2>1, <3>1, <3>2, <3>3
  <2>3. bs[i].from <= bs[i].to
    <3>1. c[i] \in c[i - 1] + 1 .. c[i]
      BY <1>3
    <3>2. B[c[i]].line \in bs[i].from .. bs[i].to
      BY <1>3, <3>1 DEF Cites
    <3> QED BY <2>1, <3>2
  <2> QED BY <2>1, <2>2, <2>3
<1>6. Row(B, W, ps, a, z, Lo(s), Hi(s)) /\ ps \in Seq(Told)
  BY <1>1, <1>2, <1>5, PiecesTold
<1>7. /\ ts \in Seq(Chunked) /\ Len(ts) = Len(ps)
      /\ \A i \in 1 .. Len(ts) : /\ ts[i].title = <<s.sec, s.sub>> /\ ts[i].text = ps[i].text
                                 /\ ts[i].carried = ps[i].carried
                                 /\ ts[i].from = ps[i].from /\ ts[i].to = ps[i].to
  BY <1>6, TitledPieces
<1> HIDE DEF ts, ps
<1>8. PICK o : Run(B, W, ps, o, a, z)
  BY <1>6 DEF Row
<1>9. Run(B, W, ts, o, a, z)
  <2>1. IsCut(B, o, Len(ts), a, z)
    BY <1>7, <1>8 DEF Run
  <2>2. ASSUME NEW k \in 1 .. Len(ts) PROVE IsPiece(B, W, ts[k], o[k - 1], o[k])
    <3>1. IsPiece(B, W, ps[k], o[k - 1], o[k])
      BY <1>7, <1>8 DEF Run
    <3> QED BY <1>7, <3>1 DEF IsPiece, Cites
  <2> QED BY <2>1, <2>2 DEF Run
<1>10. Carries(ts)
  <2> SUFFICES ASSUME NEW k \in 1 .. Len(ts), ts[k].carried > 0
               PROVE  k > 1 /\ ts[k].carried <= Len(ts[k - 1].text)
    BY DEF Carries
  <2>1. k > 1 /\ ps[k].carried <= Len(ps[k - 1].text)
    BY <1>6, <1>7 DEF Row, Carries
  <2>2. k - 1 \in 1 .. Len(ts)
    <3>1. Len(ts) \in Nat
      BY <1>7, LenProperties
    <3> QED BY <2>1, <3>1
  <2> QED BY <1>7, <2>1, <2>2
<1>11. AllWithin(ts, Lo(s), Hi(s))
  BY <1>6, <1>7 DEF Row, AllWithin, Within
<1> QED BY <1>3, <1>4, <1>7, <1>9, <1>10, <1>11 DEF ts

LEMMA IssuedStep ==
  ASSUME NEW B \in Seq(Sentence), NEW W, Sums(B, W), Target <= Ceiling,
         NEW ss, NEW sc, NEW z, SectionsLaid(B, ss, sc, z), NEW m \in 1 .. Len(ss),
         NEW out \in Seq(Chunked), Issued(B, W, out, ss, m - 1, sc[m - 1])
  PROVE  Issued(B, W, out \o Titled(ss[m]), ss, m, sc[m])
<1> DEFINE s == ss[m]
           more == Titled(s)
           all == out \o more
           l == Len(out)
           n == Len(more)
<1>1. Len(ss) \in Nat /\ s \in Section /\ SectionOK(B, s, sc[m - 1], sc[m]) /\ sc[m - 1] < sc[m]
  <2>1. ss \in Seq(Section) /\ IsCut(B, sc, Len(ss), 0, z)
    BY DEF SectionsLaid
  <2>2. Len(ss) \in Nat /\ s \in Section
    BY <2>1, LenProperties, ElementOfSeq
  <2> QED BY <2>1, <2>2 DEF SectionsLaid, IsCut
<1>2. /\ more \in Seq(Chunked) /\ \E o : Run(B, W, more, o, sc[m - 1], sc[m])
      /\ Carries(more) /\ AllWithin(more, Lo(s), Hi(s))
      /\ \A k \in 1 .. n : more[k].title = <<s.sec, s.sub>>
      /\ Len(s.blocks) \in Nat /\ Len(s.blocks) > 0
  BY <1>1, SectionTold
<1>3. /\ l \in Nat /\ n \in Nat /\ Len(all) = l + n
      /\ \A i \in 1 .. l + n : all[i] = IF i <= l THEN out[i] ELSE more[i - l]
  BY <1>2, ConcatProperties, LenProperties
<1>4. \E e : Run(B, W, all, e, 0, sc[m])
  <2>1. PICK o : Run(B, W, out, o, 0, sc[m - 1])
    BY DEF Issued, Telling
  <2>2. PICK d : Run(B, W, more, d, sc[m - 1], sc[m])
    BY <1>2
  <2> HIDE DEF more
  <2> QED BY <1>2, <2>1, <2>2, RunConcat
<1>5. /\ Carries(out) /\ SameTitle(out) /\ InTurn(out)
      /\ \A k \in 1 .. l : \E i \in 1 .. m - 1 : Within(out[k], Lo(ss[i]), Hi(ss[i]))
  BY DEF Issued, Telling
<1>6. ASSUME NEW i \in 1 .. m - 1 PROVE Hi(ss[i]) < Lo(s) /\ Hi(ss[i]) \in Nat /\ Lo(s) \in Nat
  <2>1. i \in 1 .. Len(ss) /\ i < m
    BY <1>1
  <2>2. ss[i] \in Section /\ SectionOK(B, ss[i], sc[i - 1], sc[i]) /\ sc[i - 1] < sc[i]
    <3>1. ss \in Seq(Section) /\ IsCut(B, sc, Len(ss), 0, z)
      BY DEF SectionsLaid
    <3>2. ss[i] \in Section
      BY <2>1, <3>1, ElementOfSeq
    <3> QED BY <2>1, <3>1, <3>2 DEF SectionsLaid, IsCut
  <2>3. Len(ss[i].blocks) \in Nat /\ Len(ss[i].blocks) > 0
    BY <2>2, SectionTold
  <2>4. Len(ss[i].blocks) \in 1 .. Len(ss[i].blocks) /\ 1 \in 1 .. Len(s.blocks)
    BY <1>2, <2>3
  <2>5. Hi(ss[i]) < Lo(s)
    BY <2>1, <2>4 DEF SectionsLaid, Lo, Hi
  <2>6. ss[i].blocks[Len(ss[i].blocks)] \in Block /\ s.blocks[1] \in Block
    <3>1. ss[i].blocks \in Seq(Block) /\ s.blocks \in Seq(Block)
      BY <1>1, <2>2 DEF Section
    <3> QED BY <2>4, <3>1, ElementOfSeq
  <2> QED BY <2>5, <2>6 DEF Lo, Hi, Block
<1> HIDE DEF more, all, s
<1>7. ASSUME NEW k \in 1 .. l + n
      PROVE  \/ k \in 1 .. l /\ all[k] = out[k]
             \/ k \in l + 1 .. l + n /\ k - l \in 1 .. n /\ all[k] = more[k - l]
  <2>1. CASE k <= l
    BY <1>3, <2>1
  <2>2. CASE ~ k <= l
    BY <1>3, <2>2
  <2> QED BY <2>1, <2>2
<1>8. ASSUME NEW k \in 1 .. l + n, all[k].carried > 0
      PROVE  k > 1 /\ all[k].carried <= Len(all[k - 1].text) /\ all[k - 1].title = all[k].title
  <2>1. CASE k \in 1 .. l /\ all[k] = out[k]
    <3>1. k > 1 /\ out[k].carried <= Len(out[k - 1].text) /\ out[k - 1].title = out[k].title
      BY <1>5, <1>8, <2>1 DEF Carries, SameTitle
    <3>2. k - 1 \in 1 .. l + n /\ k - 1 <= l
      BY <1>3, <2>1, <3>1
    <3>3. all[k - 1] = out[k - 1]
      BY <1>3, <3>2
    <3> QED BY <2>1, <3>1, <3>3
  <2>2. CASE k \in l + 1 .. l + n /\ k - l \in 1 .. n /\ all[k] = more[k - l]
    <3>1. k - l > 1 /\ more[k - l].carried <= Len(more[(k - l) - 1].text)
      BY <1>2, <1>8, <2>2 DEF Carries
    <3>2. k - 1 \in 1 .. l + n /\ ~ k - 1 <= l /\ (k - 1) - l = (k - l) - 1 /\ (k - l) - 1 \in 1 .. n /\ k > 1
      BY <1>3, <2>2, <3>1
    <3>3. all[k - 1] = more[(k - l) - 1]
      BY <1>3, <3>2
    <3>4. more[(k - l) - 1].title = more[k - l].title
      BY <1>2, <2>2, <3>2
    <3> QED BY <2>2, <3>1, <3>2, <3>3, <3>4
  <2> QED BY <1>7, <2>1, <2>2
<1>9. ASSUME NEW k \in 1 .. l + n PROVE \E i \in 1 .. m : Within(all[k], Lo(ss[i]), Hi(ss[i]))
  <2>1. CASE k \in 1 .. l /\ all[k] = out[k]
    <3>1. \A i \in 1 .. m - 1 : i \in 1 .. m
      BY <1>1
    <3> QED BY <1>5, <2>1, <3>1
  <2>2. CASE k - l \in 1 .. n /\ all[k] = more[k - l]
    <3>1. Within(more[k - l], Lo(s), Hi(s)) /\ m \in 1 .. m
      BY <1>1, <1>2, <2>2 DEF AllWithin
    <3> QED BY <2>2, <3>1 DEF s
  <2> QED BY <1>7, <2>1, <2>2
<1>10. ASSUME NEW k \in 1 .. l + n, NEW j \in 1 .. l + n, k < j
       PROVE  all[k].title = all[j].title \/ all[k].to < all[j].from
  <2>1. CASE j \in 1 .. l /\ all[j] = out[j]
    <3>1. k \in 1 .. l /\ all[k] = out[k]
      BY <1>3, <1>7, <1>10, <2>1
    <3> QED BY <1>5, <1>10, <2>1, <3>1 DEF InTurn
  <2>2. CASE k - l \in 1 .. n /\ all[k] = more[k - l] /\ j - l \in 1 .. n /\ all[j] = more[j - l]
    BY <1>2, <2>2
  <2>3. CASE k \in 1 .. l /\ all[k] = out[k] /\ j - l \in 1 .. n /\ all[j] = more[j - l]
    <3>1. PICK i \in 1 .. m - 1 : Within(out[k], Lo(ss[i]), Hi(ss[i]))
      BY <1>5, <2>3
    <3>2. Within(more[j - l], Lo(s), Hi(s))
      BY <1>2, <2>3 DEF AllWithin
    <3>3. Hi(ss[i]) < Lo(s) /\ Hi(ss[i]) \in Nat /\ Lo(s) \in Nat
      BY <1>6
    <3>4. out[k].to \in Int /\ out[k].to <= Hi(ss[i])
      BY <3>1 DEF Within
    <3>5. more[j - l].from \in Int /\ Lo(s) <= more[j - l].from
      BY <3>2 DEF Within
    <3>6. out[k].to < more[j - l].from
      <4> DEFINE x == out[k].to
                 y == more[j - l].from
      <4>1. x \in Int /\ x <= Hi(ss[i]) /\ y \in Int /\ Lo(s) <= y
        BY <3>4, <3>5
      <4> HIDE DEF x, y
      <4>2. x < y
        BY <3>3, <4>1
      <4> QED BY <4>2 DEF x, y
    <3> QED BY <2>3, <3>6
  <2> QED BY <1>7, <2>1, <2>2, <2>3
<1>11. Telling(B, W, all, sc[m])
  BY <1>3, <1>4, <1>8, <1>10 DEF Telling, Carries, SameTitle, InTurn
<1>12. Issued(B, W, all, ss, m, sc[m])
  BY <1>3, <1>9, <1>11 DEF Issued
<1> QED BY <1>12 DEF all, more, s

(* All sections.                                                           *)
LEMMA EmitTells ==
  ASSUME NEW B \in Seq(Sentence), NEW W, Sums(B, W), Target <= Ceiling,
         NEW ss, NEW sc, NEW z, SectionsLaid(B, ss, sc, z)
  PROVE  Issued(B, W, EmitSections(ss), ss, Len(ss), z) /\ EmitSections(ss) \in Seq(Chunked)
<1> DEFINE n == Len(ss)
           V == Seq(Chunked)
<1>1. /\ ss \in Seq(Section) /\ n \in Nat /\ IsCut(B, sc, n, 0, z)
  BY LenProperties DEF SectionsLaid
<1>2. ASSUME NEW i \in 1 .. n PROVE Titled(ss[i]) \in V
  <2>1. ss[i] \in Section
    BY <1>1, ElementOfSeq
  <2>2. SectionOK(B, ss[i], sc[i - 1], sc[i]) /\ sc[i - 1] < sc[i]
    BY <1>1 DEF SectionsLaid, IsCut
  <2> QED BY <2>1, <2>2, SectionTold
<1>3. PICK g \in [0 .. n -> V] :
           /\ g[0] = <<>>
           /\ \A i \in 1 .. n : g[i] = (g[i - 1] \o Titled(ss[i]))
           /\ g[n] = EmitSections(ss)
  <2>1. \A v \in V : \A i \in 1 .. n : (v \o Titled(ss[i])) \in V
    BY <1>2, ConcatProperties
  <2>2. <<>> \in V
    BY EmptySeq
  <2> HIDE DEF V
  <2> QED BY <1>1, <2>1, <2>2, EmitSteps
<1> DEFINE P == {i \in 0 .. n : Issued(B, W, g[i], ss, i, sc[i])}
<1>4. 0 \in P
  <2>1. 0 \in 0 .. Len(B) /\ sc[0] = 0 /\ 0 \in 0 .. n
    <3>1. Len(B) \in Nat
      BY LenProperties
    <3> QED BY <1>1, <3>1 DEF IsCut
  <2>2. Row(B, W, <<>>, 0, 0, 0, 0)
    BY <2>1, EmptyRow
  <2>3. Len(<<>>) = 0 /\ 1 .. 0 = {}
    BY EmptySeq
  <2>4. Issued(B, W, <<>>, ss, 0, 0)
    BY <2>2, <2>3 DEF Issued, Telling, Row, Carries, SameTitle, InTurn
  <2> QED BY <1>3, <2>1, <2>4
<1>5. ASSUME NEW i \in 1 .. n, i - 1 \in P PROVE i \in P
  <2>1. i \in 0 .. n /\ i - 1 \in 0 .. n /\ Issued(B, W, g[i - 1], ss, i - 1, sc[i - 1])
    BY <1>1, <1>5
  <2>2. g[i - 1] \in Seq(Chunked)
    BY <2>1
  <2>3. Issued(B, W, g[i - 1] \o Titled(ss[i]), ss, i, sc[i])
    BY <2>1, <2>2, IssuedStep
  <2> QED BY <1>3, <2>1, <2>3
<1> HIDE DEF P
<1>6. n \in P /\ n \in 0 .. n
  <2>1. \A i \in 0 .. n : i \in P
    BY <1>1, <1>4, <1>5, UpTo
  <2> QED BY <1>1, <2>1
<1>7. sc[n] = z
  BY <1>1 DEF IsCut
<1> QED BY <1>3, <1>6, <1>7 DEF P

-----------------------------------------------------------------------------
(***************************************************************************)
(* What chunks that are such a run tell.                                   *)
(***************************************************************************)
Pairs == Nat \X Nat

LEMMA PartHead ==
  ASSUME NEW B \in Seq(Sentence), NEW t, NEW a, NEW z, Part(B, t, a, z), NEW k \in 0 .. Len(t)
  PROVE  Part(B, SubSeq(t, 1, k), a, a + k)
<1>1. /\ t \in Seq(Sentence) /\ a \in Nat /\ Len(t) = z - a /\ z \in a .. Len(B)
      /\ Len(B) \in Nat /\ z \in Nat
  BY LenProperties DEF Part
<1>2. k \in Nat /\ k <= Len(t) /\ a + k \in a .. Len(B) /\ k \in Int /\ 1 \in Int
  BY <1>1
<1> DEFINE u == SubSeq(t, 1, k)
<1>3. u \in Seq(Sentence) /\ Len(u) = k /\ \A i \in 1 .. k : u[i] = t[i]
  <2>1. \A i \in 1 .. k : t[i] \in Sentence
    BY <1>1, <1>2, ElementOfSeq
  <2>2. /\ u \in Seq(Sentence) /\ Len(u) = IF 1 <= k THEN k - 1 + 1 ELSE 0
        /\ \A i \in 1 .. k - 1 + 1 : u[i] = t[1 + i - 1]
    BY <1>2, <2>1, SubSeqProperties
  <2> HIDE DEF u
  <2> QED BY <1>2, <2>2
<1> HIDE DEF u
<1>4. ASSUME NEW i \in 1 .. a + k - a
      PROVE  u[i].line = B[a + i].line /\ u[i].at = B[a + i].at /\ u[i].words = B[a + i].words
  <2>1. i \in 1 .. k /\ i \in 1 .. z - a
    BY <1>1, <1>2
  <2> QED BY <1>3, <2>1 DEF Part
<1>5. Len(u) = a + k - a
  BY <1>1, <1>2, <1>3
<1>6. Part(B, u, a, a + k)
  BY <1>1, <1>2, <1>3, <1>4, <1>5 DEF Part
<1> QED BY <1>6 DEF u

(* The sentences of a part, by line and place.                             *)
LEMMA KeysAre ==
  ASSUME NEW t \in Seq(Sentence)
  PROVE  /\ Key(t) \in Seq(Pairs) /\ Len(Key(t)) = Len(t)
         /\ \A i \in 1 .. Len(t) : Key(t)[i] = <<t[i].line, t[i].at>>
<1>1. Len(t) \in Nat /\ DOMAIN t = 1 .. Len(t) /\ \A i \in 1 .. Len(t) : t[i] \in Sentence
  BY LenProperties, ElementOfSeq
<1>2. \A i \in 1 .. Len(t) : Key(t)[i] = <<t[i].line, t[i].at>>
  BY <1>1 DEF Key
<1>3. \A i \in 1 .. Len(t) : Key(t)[i] \in Pairs
  <2> SUFFICES ASSUME NEW i \in 1 .. Len(t) PROVE Key(t)[i] \in Pairs
    OBVIOUS
  <2>1. t[i].line \in Nat /\ t[i].at \in Nat
    BY <1>1 DEF Sentence
  <2>2. Key(t)[i] = <<t[i].line, t[i].at>>
    BY <1>2
  <2> QED BY <2>1, <2>2 DEF Pairs
<1>4. Key(t) \in [1 .. Len(t) -> Pairs]
  BY <1>1, <1>3 DEF Key
<1>5. Key(t) \in Seq(Pairs) /\ Len(Key(t)) = Len(t)
  BY <1>1, <1>4
<1> QED BY <1>2, <1>5

LEMMA PartKeys ==
  ASSUME NEW B \in Seq(Sentence), NEW t, NEW a, NEW z, Part(B, t, a, z)
  PROVE  /\ Key(t) = SubSeq(Key(B), a + 1, z)
         /\ Key(t) \in Seq(Pairs) /\ Len(Key(t)) = z - a
         /\ \A i \in 1 .. z - a : Key(t)[i] = Key(B)[a + i]
<1>1. /\ t \in Seq(Sentence) /\ a \in Nat /\ Len(t) = z - a /\ z \in a .. Len(B)
      /\ Len(B) \in Nat /\ z \in Nat
  BY LenProperties DEF Part
<1> DEFINE u == SubSeq(Key(B), a + 1, z)
           K == Key(B)
<1>2. Key(t) \in Seq(Pairs) /\ Len(Key(t)) = z - a
  BY <1>1, KeysAre
<1>3. ASSUME NEW i \in 1 .. z - a PROVE Key(t)[i] = Key(B)[a + i]
  <2>1. a + i \in 1 .. Len(B) /\ i \in 1 .. Len(t)
    BY <1>1
  <2>2. Key(t)[i] = <<t[i].line, t[i].at>> /\ Key(B)[a + i] = <<B[a + i].line, B[a + i].at>>
    BY <1>1, <2>1, KeysAre
  <2> QED BY <2>2 DEF Part
<1>4. u \in Seq(Pairs) /\ Len(u) = z - a /\ \A i \in 1 .. z - a : u[i] = Key(B)[a + i]
  <2>1. K \in Seq(Pairs) /\ Len(K) = Len(B)
    BY KeysAre
  <2>2. \A i \in a + 1 .. z : K[i] \in Pairs
    <3>1. \A i \in a + 1 .. z : i \in 1 .. Len(K)
      BY <1>1, <2>1
    <3> HIDE DEF K
    <3> QED BY <2>1, <3>1, ElementOfSeq
  <2>3. a + 1 \in Int /\ z \in Int
    BY <1>1
  <2> HIDE DEF K
  <2>4. /\ SubSeq(K, a + 1, z) \in Seq(Pairs)
        /\ Len(SubSeq(K, a + 1, z)) = IF a + 1 <= z THEN z - (a + 1) + 1 ELSE 0
        /\ \A i \in 1 .. z - (a + 1) + 1 : SubSeq(K, a + 1, z)[i] = K[(a + 1) + i - 1]
    BY <2>2, <2>3, SubSeqProperties
  <2>5. u \in Seq(Pairs) /\ Len(u) = IF a + 1 <= z THEN z - (a + 1) + 1 ELSE 0
    BY <2>4 DEF K
  <2>6. \A i \in 1 .. z - a : u[i] = Key(B)[a + i]
    <3> SUFFICES ASSUME NEW i \in 1 .. z - a PROVE u[i] = Key(B)[a + i]
      OBVIOUS
    <3>1. i \in 1 .. z - (a + 1) + 1 /\ (a + 1) + i - 1 = a + i
      BY <1>1
    <3> QED BY <2>4, <3>1 DEF K
  <2> HIDE DEF u
  <2> QED BY <1>1, <2>5, <2>6
<1> HIDE DEF u, K
<1>5. Key(t) = u
  BY <1>2, <1>3, <1>4, SeqEqual
<1> QED BY <1>2, <1>3, <1>5 DEF u

LEMMA FirstKey ==
  ASSUME NEW B \in Seq(Sentence), NEW t, NEW a, NEW z, Part(B, t, a, z), a < z
  PROVE  Key(t)[1] = Key(B)[a + 1]
<1>1. a \in Nat /\ z \in Nat
  BY LenProperties DEF Part
<1>2. 1 \in 1 .. z - a
  BY <1>1
<1> QED BY <1>2, PartKeys

(* What is new in a chunk, and what it carries over.                       *)
LEMMA PieceHalves ==
  ASSUME NEW B \in Seq(Sentence), NEW W, NEW x, NEW q, NEW z, IsPiece(B, W, x, q, z)
  PROVE  /\ Part(B, Fresh(x), q, z) /\ Part(B, Carried(x), q - x.carried, q)
         /\ x.carried \in Nat /\ q \in Nat /\ z \in Nat /\ q < z /\ x.carried <= q
         /\ Len(x.text) = z - q + x.carried
<1>1. /\ x.carried \in Nat /\ q \in Nat /\ x.carried <= q /\ q < z
      /\ Part(B, x.text, q - x.carried, z) /\ x.text \in Seq(Sentence)
      /\ Len(x.text) = z - (q - x.carried) /\ Len(x.text) \in Nat /\ z \in Nat
  <2>1. Len(B) \in Nat
    BY LenProperties
  <2>2. /\ x.carried \in Nat /\ q \in Nat /\ x.carried <= q /\ q < z
        /\ Part(B, x.text, q - x.carried, z)
    BY DEF IsPiece
  <2>3. x.text \in Seq(Sentence) /\ Len(x.text) = z - (q - x.carried) /\ z \in q - x.carried .. Len(B)
    BY <2>2 DEF Part
  <2> QED BY <2>1, <2>2, <2>3, LenProperties
<1>2. x.carried + 1 \in 1 .. Len(x.text) + 1 /\ x.carried \in 0 .. Len(x.text)
      /\ (q - x.carried) + (x.carried + 1) - 1 = q /\ (q - x.carried) + x.carried = q
      /\ Len(x.text) = z - q + x.carried
  <2> DEFINE l == Len(x.text)
             c == x.carried
  <2>1. c \in Nat /\ q \in Nat /\ z \in Nat /\ l \in Nat /\ c <= q /\ q < z /\ l = z - (q - c)
    BY <1>1
  <2> HIDE DEF l, c
  <2>2. c + 1 \in 1 .. l + 1 /\ c \in 0 .. l /\ (q - c) + (c + 1) - 1 = q /\ (q - c) + c = q
    BY <2>1
  <2>3. l = z - q + c
    BY <2>1
  <2> QED BY <2>2, <2>3 DEF l, c
<1>3. Part(B, Fresh(x), q, z)
  <2>1. Part(B, SubSeq(x.text, x.carried + 1, Len(x.text)), (q - x.carried) + (x.carried + 1) - 1, z)
    BY <1>1, <1>2, PartTail
  <2> QED BY <1>2, <2>1 DEF Fresh
<1>4. Part(B, Carried(x), q - x.carried, q)
  <2>1. Part(B, SubSeq(x.text, 1, x.carried), q - x.carried, (q - x.carried) + x.carried)
    BY <1>1, <1>2, PartHead
  <2> QED BY <1>2, <2>1 DEF Carried
<1> QED BY <1>1, <1>2, <1>3, <1>4

FlatIter(q) ==
  CHOOSE iter : iter = [i \in 1 .. Len(q) |-> IF i = 1 THEN q[i] ELSE iter[i - 1] \o q[i]]

LEMMA FlattenIs ==
  ASSUME NEW S, NEW q \in Seq(Seq(S)), NEW g \in [0 .. Len(q) -> Seq(S)], g[0] = <<>>,
         \A i \in 1 .. Len(q) : g[i] = g[i - 1] \o q[i]
  PROVE  FlattenSeq(q) = g[Len(q)]
<1> DEFINE n == Len(q)
           h == FlatIter(q)
           F == [i \in 1 .. n |-> g[i]]
<1>1. n \in Nat
  BY LenProperties
<1>2. CASE n = 0
  <2>1. q = <<>>
    BY <1>2, EmptySeq
  <2> QED BY <1>2, <2>1 DEF FlattenSeq
<1>3. CASE n # 0
  <2>1. FlattenSeq(q) = h[n]
    BY <1>3 DEF FlattenSeq, FlatIter
  <2>2. F = [i \in 1 .. n |-> IF i = 1 THEN q[i] ELSE F[i - 1] \o q[i]]
    <3> SUFFICES ASSUME NEW i \in 1 .. n
                 PROVE  g[i] = IF i = 1 THEN q[i] ELSE F[i - 1] \o q[i]
      OBVIOUS
    <3>1. g[i] = g[i - 1] \o q[i]
      OBVIOUS
    <3>2. CASE i = 1
      <4>0. i - 1 = 0
        BY <3>2
      <4>1. g[i] = <<>> \o q[i]
        BY <3>1, <4>0
      <4>2. q[i] \in Seq(S)
        BY ElementOfSeq
      <4>3. <<>> \o q[i] = q[i]
        BY <4>2, ConcatEmptySeq
      <4> QED BY <3>2, <4>1, <4>3
    <3>3. CASE i # 1
      <4>1. i - 1 \in 1 .. n
        BY <1>1, <3>3
      <4>2. F[i - 1] = g[i - 1]
        BY <4>1
      <4> HIDE DEF F
      <4> QED BY <3>1, <3>3, <4>2
    <3> QED BY <3>2, <3>3
  <2> HIDE DEF F
  <2>3. h = [i \in 1 .. n |-> IF i = 1 THEN q[i] ELSE h[i - 1] \o q[i]]
    BY <2>2 DEF FlatIter
  <2>4. ASSUME NEW i \in 1 .. n PROVE h[i] = IF i = 1 THEN q[i] ELSE h[i - 1] \o q[i]
    <3> HIDE DEF h, n
    <3> QED BY <2>3
  <2>5. ASSUME NEW i \in 1 .. n PROVE g[i] = IF i = 1 THEN q[i] ELSE g[i - 1] \o q[i]
    <3>1. F[i] = g[i] /\ (i # 1 => i - 1 \in 1 .. n /\ F[i - 1] = g[i - 1])
      <4>1. i # 1 => i - 1 \in 1 .. n
        BY <1>1
      <4> QED BY <4>1 DEF F
    <3> HIDE DEF n
    <3>2. F[i] = IF i = 1 THEN q[i] ELSE F[i - 1] \o q[i]
      BY <2>2
    <3> QED BY <3>1, <3>2
  <2> DEFINE P == {i \in 0 .. n : i >= 1 => h[i] = g[i]}
  <2> HIDE DEF h
  <2>6. 0 \in P
    BY <1>1
  <2>7. ASSUME NEW i \in 1 .. n, i - 1 \in P PROVE i \in P
    <3>1. i \in 0 .. n /\ (i # 1 => i - 1 >= 1)
      BY <1>1
    <3>2. i # 1 => h[i - 1] = g[i - 1]
      BY <2>7, <3>1
    <3>3. h[i] = g[i]
      BY <2>4, <2>5, <3>2
    <3> QED BY <3>1, <3>3
  <2> HIDE DEF P
  <2>8. n \in P /\ n >= 1
    <3>1. \A i \in 0 .. n : i \in P
      BY <1>1, <2>6, <2>7, UpTo
    <3> QED BY <1>1, <1>3, <3>1
  <2> QED BY <2>1, <2>8 DEF P
<1> QED BY <1>2, <1>3

(* Nothing is lost.                                                        *)
LEMMA RunTellsAll ==
  ASSUME NEW B \in Seq(Sentence), NEW W, NEW out \in Seq(Chunked), NEW o, Run(B, W, out, o, 0, Len(B))
  PROVE  FlattenSeq([i \in DOMAIN out |-> Key(Fresh(out[i]))]) = Key(B)
<1> DEFINE n == Len(out)
           K == Key(B)
           q == [i \in DOMAIN out |-> Key(Fresh(out[i]))]
           g == [i \in 0 .. n |-> SubSeq(K, 1, o[i])]
<1>1. n \in Nat /\ DOMAIN out = 1 .. n
  BY LenProperties
<1>2. K \in Seq(Pairs) /\ Len(K) = Len(B) /\ Len(B) \in Nat
  BY KeysAre, LenProperties
<1>3. IsCut(B, o, n, 0, Len(B)) /\ \A i \in 1 .. n : IsPiece(B, W, out[i], o[i - 1], o[i])
  BY DEF Run
<1>4. /\ o[0] = 0 /\ o[n] = Len(B)
      /\ \A i \in 0 .. n : o[i] \in 0 .. Len(B)
      /\ \A i \in 1 .. n : o[i - 1] < o[i]
  BY <1>3 DEF IsCut
<1> HIDE DEF n
<1>5. ASSUME NEW i \in 1 .. n
      PROVE  q[i] \in Seq(Pairs) /\ q[i] = SubSeq(K, o[i - 1] + 1, o[i])
  <2>1. Part(B, Fresh(out[i]), o[i - 1], o[i])
    BY <1>3, PieceHalves
  <2>2. q[i] = Key(Fresh(out[i]))
    BY <1>1
  <2> HIDE DEF q
  <2> QED BY <2>1, <2>2, PartKeys
<1>6. q \in Seq(Seq(Pairs)) /\ Len(q) = n
  <2>1. q \in [1 .. n -> Seq(Pairs)]
    <3>1. DOMAIN q = 1 .. n /\ q = [i \in 1 .. n |-> q[i]]
      BY <1>1
    <3> HIDE DEF q
    <3> QED BY <1>5, <3>1
  <2> HIDE DEF q
  <2> QED BY <1>1, <2>1
<1> HIDE DEF q, K
<1>7. ASSUME NEW i \in 0 .. n PROVE SubSeq(K, 1, o[i]) \in Seq(Pairs)
  <2>1. \A p \in 1 .. o[i] : K[p] \in Pairs
    <3>1. \A p \in 1 .. o[i] : p \in 1 .. Len(K)
      BY <1>2, <1>4
    <3> QED BY <1>2, <3>1, ElementOfSeq
  <2>2. 1 \in Int /\ o[i] \in Int
    BY <1>4
  <2> QED BY <2>1, <2>2, SubSeqProperties
<1>8. g \in [0 .. Len(q) -> Seq(Pairs)]
  BY <1>6, <1>7
<1>9. g[0] = <<>>
  <2>1. g[0] = SubSeq(K, 1, 0)
    BY <1>1, <1>4
  <2>2. 1 \in Int /\ 0 \in Int /\ 0 < 1
    OBVIOUS
  <2>3. SubSeq(K, 1, 0) = <<>>
    BY <2>2, SubSeqEmpty
  <2> QED BY <2>1, <2>3
<1>10. ASSUME NEW i \in 1 .. n PROVE g[i] = g[i - 1] \o q[i]
  <2>1. i \in 0 .. n /\ i - 1 \in 0 .. n
    BY <1>1
  <2>2. /\ 1 \in 1 .. Len(K) + 1 /\ o[i - 1] \in 1 - 1 .. Len(K) /\ o[i] \in o[i - 1] .. Len(K)
    <3>1. o[i - 1] \in 0 .. Len(B) /\ o[i] \in 0 .. Len(B) /\ o[i - 1] < o[i]
      BY <1>4, <2>1
    <3> QED BY <1>2, <3>1
  <2>3. SubSeq(K, 1, o[i - 1]) \o SubSeq(K, o[i - 1] + 1, o[i]) = SubSeq(K, 1, o[i])
    BY <1>2, <2>2, ConcatAdjacentSubSeq
  <2> QED BY <1>5, <2>1, <2>3
<1>11. g[n] = K
  <2>1. g[n] = SubSeq(K, 1, Len(K))
    <3>1. n \in 0 .. n
      BY <1>1
    <3> QED BY <1>2, <1>4, <3>1
  <2> QED BY <1>2, <2>1, SubSeqFull
<1> HIDE DEF g
<1>12. FlattenSeq(q) = g[n]
  <2>1. \A i \in 1 .. Len(q) : g[i] = g[i - 1] \o q[i]
    BY <1>6, <1>10
  <2>2. FlattenSeq(q) = g[Len(q)]
    BY <1>6, <1>8, <1>9, <2>1, FlattenIs
  <2> QED BY <1>6, <2>2
<1> QED BY <1>11, <1>12 DEF q, K

(* Sentences are told apart.                                               *)
ToldApart(B) == \A p, r \in 1 .. Len(B) : Key(B)[p] = Key(B)[r] => p = r

LEMMA SuffixIs ==
  ASSUME NEW S, NEW s \in Seq(S), NEW t \in Seq(S), Len(s) <= Len(t),
         \A i \in 1 .. Len(s) : s[i] = t[Len(t) - Len(s) + i]
  PROVE  IsSuffix(s, t)
<1> DEFINE m == Len(s)
           n == Len(t)
           rs == Reverse(s)
           rt == Reverse(t)
<1>1. m \in Nat /\ n \in Nat /\ m <= n
  BY LenProperties
<1>2. rs = [i \in 1 .. m |-> s[(m - i) + 1]] /\ rt = [i \in 1 .. n |-> t[(n - i) + 1]]
  BY DEF Reverse
<1>3. \A i \in 1 .. m : s[(m - i) + 1] \in S
  <2>1. \A i \in 1 .. m : (m - i) + 1 \in 1 .. m
    BY <1>1
  <2> QED BY <2>1, ElementOfSeq
<1>4. \A i \in 1 .. n : t[(n - i) + 1] \in S
  <2>1. \A i \in 1 .. n : (n - i) + 1 \in 1 .. n
    BY <1>1
  <2> QED BY <2>1, ElementOfSeq
<1>5. ASSUME NEW i \in 1 .. m PROVE s[(m - i) + 1] = t[(n - i) + 1]
  <2>1. (m - i) + 1 \in 1 .. m /\ n - m + ((m - i) + 1) = (n - i) + 1
    BY <1>1
  <2>2. s[(m - i) + 1] = t[n - m + ((m - i) + 1)]
    BY <2>1
  <2> QED BY <2>1, <2>2
<1> HIDE DEF m, n, rs, rt
<1>6. rs \in Seq(S) /\ Len(rs) = m /\ \A i \in 1 .. m : rs[i] = s[(m - i) + 1]
  <2>1. rs \in [1 .. m -> S]
    BY <1>2, <1>3
  <2> QED BY <1>1, <1>2, <2>1
<1>7. rt \in Seq(S) /\ Len(rt) = n /\ \A i \in 1 .. n : rt[i] = t[(n - i) + 1]
  <2>1. rt \in [1 .. n -> S]
    BY <1>2, <1>4
  <2> QED BY <1>1, <1>2, <2>1
<1>8. \A i \in 1 .. m : i \in 1 .. n /\ rs[i] = rt[i]
  <2>1. \A i \in 1 .. m : i \in 1 .. n
    BY <1>1
  <2> QED BY <1>5, <1>6, <1>7, <2>1
<1>9. SubSeq(rs, 1, m) = rs
  BY <1>6, SubSeqFull
<1>10. SubSeq(rt, 1, m) = rs
  <2> DEFINE u == SubSeq(rt, 1, m)
  <2>1. \A i \in 1 .. m : rt[i] \in S
    BY <1>7, <1>8, ElementOfSeq
  <2>2. m \in Int /\ 1 \in Int
    BY <1>1
  <2>3. /\ u \in Seq(S) /\ Len(u) = IF 1 <= m THEN m - 1 + 1 ELSE 0
        /\ \A i \in 1 .. m - 1 + 1 : u[i] = rt[1 + i - 1]
    BY <2>1, <2>2, SubSeqProperties
  <2> HIDE DEF u
  <2>4. Len(u) = m /\ \A i \in 1 .. m : u[i] = rt[i]
    BY <1>1, <2>3
  <2>5. \A i \in 1 .. Len(u) : u[i] = rs[i]
    BY <1>8, <2>4
  <2>6. u = rs
    BY <1>6, <2>3, <2>4, <2>5, SeqEqual
  <2> QED BY <2>6 DEF u
<1>11. IsPrefix(rs, rt)
  BY <1>1, <1>6, <1>7, <1>9, <1>10 DEF IsPrefix
<1> QED BY <1>11 DEF IsSuffix, rs, rt

(* What stands before a chunk is the end of the chunk before it.           *)
LEMMA Neighbours ==
  ASSUME NEW B \in Seq(Sentence), NEW W, NEW out \in Seq(Chunked), NEW o,
         Run(B, W, out, o, 0, Len(B)), NEW i \in 1 .. Len(out), i > 1
  PROVE  \E p, q, z \in Nat :
           /\ Part(B, out[i - 1].text, p, q) /\ IsPiece(B, W, out[i], q, z)
           /\ i - 1 \in 1 .. Len(out) /\ Len(out[i - 1].text) = q - p
<1>1. Len(out) \in Nat /\ Len(B) \in Nat
  BY LenProperties
<1>2. IsCut(B, o, Len(out), 0, Len(B)) /\ \A k \in 1 .. Len(out) : IsPiece(B, W, out[k], o[k - 1], o[k])
  BY DEF Run
<1>3. i - 1 \in 1 .. Len(out)
  BY <1>1
<1>4. o[i - 1] \in Nat /\ o[i] \in Nat
  <2>1. i - 1 \in 0 .. Len(out) /\ i \in 0 .. Len(out)
    BY <1>1
  <2>2. o[i - 1] \in 0 .. Len(B) /\ o[i] \in 0 .. Len(B)
    BY <1>2, <2>1 DEF IsCut
  <2> QED BY <2>2
<1>5. IsPiece(B, W, out[i - 1], o[i - 1 - 1], o[i - 1])
  BY <1>2, <1>3
<1> DEFINE p == o[i - 1 - 1] - out[i - 1].carried
<1>6. Part(B, out[i - 1].text, p, o[i - 1])
  BY <1>5 DEF IsPiece
<1>7. p \in Nat /\ Len(out[i - 1].text) = o[i - 1] - p
  BY <1>6 DEF Part
<1> HIDE DEF p
<1>8. IsPiece(B, W, out[i], o[i - 1], o[i])
  BY <1>2
<1> QED BY <1>3, <1>4, <1>6, <1>7, <1>8

(* It cites its lines and keeps to its size.                               *)
LEMMA PieceTells ==
  ASSUME NEW B \in Seq(Sentence), NEW W, Sums(B, W), NEW x, NEW q, NEW z, IsPiece(B, W, x, q, z)
  PROVE  /\ \A n \in DOMAIN Fresh(x) : Fresh(x)[n].line \in x.from .. x.to
         /\ Words(Fresh(x)) <= Ceiling \/ Len(Fresh(x)) = 1
         /\ x.carried = 1 \/ x.carried = 0 \/ Words(Carried(x)) <= Overlap
<1> DEFINE f == Fresh(x)
           d == Carried(x)
<1>1. /\ Part(B, f, q, z) /\ Part(B, d, q - x.carried, q)
      /\ x.carried \in Nat /\ q \in Nat /\ z \in Nat /\ q < z
  BY PieceHalves
<1> HIDE DEF f, d
<1>2. f \in Seq(Sentence) /\ Len(f) = z - q /\ DOMAIN f = 1 .. Len(f)
  BY <1>1, LenProperties DEF Part
<1>3. ASSUME NEW n \in DOMAIN f PROVE f[n].line \in x.from .. x.to
  <2>1. n \in 1 .. z - q /\ q + n \in q + 1 .. z
    BY <1>1, <1>2
  <2>2. f[n].line = B[q + n].line
    BY <1>1, <2>1 DEF Part
  <2>3. B[q + n].line \in x.from .. x.to
    BY <2>1 DEF IsPiece, Cites
  <2> QED BY <2>2, <2>3
<1>4. Words(f) = W[z] - W[q]
  BY <1>1, PartWords
<1>5. Words(f) <= Ceiling \/ Len(f) = 1
  <2>1. W[z] - W[q] <= Ceiling \/ z = q + 1
    BY DEF IsPiece
  <2>2. z = q + 1 => z - q = 1
    BY <1>1
  <2> QED BY <1>2, <1>4, <2>1, <2>2
<1>6. Words(d) = W[q] - W[q - x.carried]
  BY <1>1, PartWords
<1>7. x.carried = 1 \/ x.carried = 0 \/ Words(d) <= Overlap
  <2>1. x.carried <= 1 \/ W[q] - W[q - x.carried] <= Overlap
    BY DEF IsPiece
  <2> QED BY <1>1, <1>6, <2>1
<1> QED BY <1>3, <1>5, <1>7 DEF f, d

(* What it carries over is the end of the chunk before it.                 *)
LEMMA TailIsCarried ==
  ASSUME NEW B \in Seq(Sentence), NEW W, NEW a, NEW x, NEW p \in Nat, NEW q \in Nat, NEW z,
         Part(B, a, p, q), IsPiece(B, W, x, q, z), x.carried <= Len(a)
  PROVE  IsSuffix(Key(Carried(x)), Key(a))
<1> DEFINE s == Key(Carried(x))
           t == Key(a)
           c == x.carried
<1>1. Part(B, Carried(x), q - c, q) /\ c \in Nat /\ c <= q
  BY PieceHalves
<1>2. Len(a) = q - p /\ p <= q
  BY DEF Part
<1>3. c <= q - p
  BY <1>2
<1> HIDE DEF c
<1>4. /\ s \in Seq(Pairs) /\ Len(s) = q - (q - c)
      /\ \A i \in 1 .. q - (q - c) : s[i] = Key(B)[(q - c) + i]
  <2> DEFINE d == Carried(x)
             y == q - c
  <2>1. Part(B, d, y, q)
    BY <1>1
  <2> HIDE DEF d, y
  <2>2. /\ Key(d) \in Seq(Pairs) /\ Len(Key(d)) = q - y
        /\ \A i \in 1 .. q - y : Key(d)[i] = Key(B)[y + i]
    BY <2>1, PartKeys
  <2> QED BY <2>2 DEF d, y
<1>5. t \in Seq(Pairs) /\ Len(t) = q - p /\ \A i \in 1 .. q - p : t[i] = Key(B)[p + i]
  <2> HIDE DEF t
  <2>1. \A i \in 1 .. q - p : Key(a)[i] = Key(B)[p + i]
    BY PartKeys, SMTT(60)
  <2>2. a \in Seq(Sentence) /\ Len(a) = q - p
    BY DEF Part
  <2>3. Key(a) \in Seq(Pairs) /\ Len(Key(a)) = q - p
    BY <2>2, KeysAre
  <2> QED BY <2>1, <2>3 DEF t
<1> HIDE DEF s, t
<1>6. ASSUME NEW i \in 1 .. Len(s) PROVE s[i] = t[Len(t) - Len(s) + i]
  <2>1. /\ i \in 1 .. q - (q - c) /\ Len(t) - Len(s) + i \in 1 .. q - p
        /\ p + (Len(t) - Len(s) + i) = (q - c) + i
    BY <1>1, <1>3, <1>4, <1>5
  <2>2. t[Len(t) - Len(s) + i] = Key(B)[p + (Len(t) - Len(s) + i)]
    BY <1>5, <2>1
  <2> QED BY <1>4, <2>1, <2>2
<1>7. Len(s) <= Len(t)
  BY <1>1, <1>3, <1>4, <1>5
<1>8. IsSuffix(s, t)
  BY <1>4, <1>5, <1>6, <1>7, SuffixIs
<1> QED BY <1>8 DEF s, t

LEMMA KeyConcat ==
  ASSUME NEW s \in Seq(Sentence), NEW t \in Seq(Sentence)
  PROVE  Key(s \o t) = Key(s) \o Key(t)
<1> DEFINE k == Key(s \o t)
           l == Key(s) \o Key(t)
           m == Len(s)
           n == Len(t)
<1>1. m \in Nat /\ n \in Nat
  BY LenProperties
<1>2. /\ s \o t \in Seq(Sentence) /\ Len(s \o t) = m + n
      /\ \A i \in 1 .. m + n : (s \o t)[i] = IF i <= m THEN s[i] ELSE t[i - m]
  BY ConcatProperties
<1>3. /\ k \in Seq(Pairs) /\ Len(k) = m + n
      /\ \A i \in 1 .. m + n : k[i] = <<(s \o t)[i].line, (s \o t)[i].at>>
  BY <1>2, KeysAre
<1>4. /\ Key(s) \in Seq(Pairs) /\ Len(Key(s)) = m /\ \A i \in 1 .. m : Key(s)[i] = <<s[i].line, s[i].at>>
      /\ Key(t) \in Seq(Pairs) /\ Len(Key(t)) = n /\ \A i \in 1 .. n : Key(t)[i] = <<t[i].line, t[i].at>>
  BY KeysAre
<1>5. /\ l \in Seq(Pairs) /\ Len(l) = m + n
      /\ \A i \in 1 .. m + n : l[i] = IF i <= m THEN Key(s)[i] ELSE Key(t)[i - m]
  <2> DEFINE u == Key(s)
             v == Key(t)
  <2> HIDE DEF l, m, n
  <2>1. u \in Seq(Pairs) /\ Len(u) = m /\ v \in Seq(Pairs) /\ Len(v) = n
    BY <1>4
  <2> HIDE DEF u, v
  <2>2. /\ u \o v \in Seq(Pairs) /\ Len(u \o v) = Len(u) + Len(v)
        /\ \A i \in 1 .. Len(u) + Len(v) : (u \o v)[i] = IF i <= Len(u) THEN u[i] ELSE v[i - Len(u)]
    BY <2>1, ConcatProperties
  <2>3. /\ u \o v \in Seq(Pairs) /\ Len(u \o v) = m + n
        /\ \A i \in 1 .. m + n : (u \o v)[i] = IF i <= m THEN u[i] ELSE v[i - m]
    BY <2>1, <2>2
  <2> QED BY <2>3 DEF l, u, v
<1> HIDE DEF k, l, m, n
<1>6. ASSUME NEW i \in 1 .. m + n PROVE k[i] = l[i]
  <2>1. CASE i <= m
    <3>1. i \in 1 .. m
      BY <1>1, <2>1
    <3>2. (s \o t)[i] = s[i] /\ l[i] = Key(s)[i]
      BY <1>2, <1>5, <2>1
    <3> QED BY <1>3, <1>4, <3>1, <3>2
  <2>2. CASE ~ i <= m
    <3>1. i - m \in 1 .. n
      BY <1>1, <2>2
    <3>2. l[i] = Key(t)[i - m] /\ (s \o t)[i] = t[i - m]
      BY <1>2, <1>5, <2>2
    <3> QED BY <1>3, <1>4, <3>1, <3>2
  <2> QED BY <2>1, <2>2
<1>7. k = l
  BY <1>3, <1>5, <1>6, SeqEqual
<1> QED BY <1>7 DEF k, l

LEMMA MinOf == ASSUME NEW i \in Nat, NEW j \in Nat PROVE Min({i, j}) = IF i <= j THEN i ELSE j
BY DEF Min

LEMMA GreaterOf == ASSUME NEW c \in Nat PROVE Max({0, c}) = c
<1>1. c \in {0, c} /\ \A y \in {0, c} : c >= y
  <2>1. c >= c /\ c >= 0
    OBVIOUS
  <2> QED BY <2>1
<1>2. Max({0, c}) \in {0, c} /\ \A y \in {0, c} : Max({0, c}) >= y
  BY <1>1 DEF Max
<1> QED BY <1>2

(* Neighbours that overlap are joined without repeating.                   *)
LEMMA BorderIs ==
  ASSUME NEW B \in Seq(Sentence), ToldApart(B), NEW W, NEW a, NEW x,
         NEW p \in Nat, NEW q \in Nat, NEW z,
         Part(B, a, p, q), IsPiece(B, W, x, q, z), x.carried > 0, x.carried <= Len(a),
         \A n \in 2 .. x.carried : SubSeq(a, Len(a) - x.carried + 1, Len(a))[n].sep = Blank
  PROVE  Border(a, x.text) = x.carried
<1> DEFINE c == x.carried
           b == x.text
           upper == Min({Len(a), Len(b)})
           end(n) == SubSeq(a, Len(a) - n + 1, Len(a))
           start(n) == SubSeq(b, 1, n)
           N == {n \in 1 .. upper : Same(end(n), start(n))}
<1>1. /\ c \in Nat /\ z \in Nat /\ q < z /\ c <= q /\ Len(b) = z - q + c
      /\ Part(B, b, q - c, z) /\ Len(b) \in Nat
  <2>1. c \in Nat /\ z \in Nat /\ q < z /\ c <= q /\ Len(b) = z - q + c
    BY PieceHalves
  <2>2. Part(B, b, q - c, z)
    BY DEF IsPiece
  <2> HIDE DEF b, c
  <2> QED BY <2>1, <2>2
<1>2. Len(a) = q - p /\ p <= q /\ Len(a) \in Nat /\ q <= Len(B) /\ Len(B) \in Nat /\ z <= Len(B)
  <2>1. Len(B) \in Nat /\ a \in Seq(Sentence) /\ q \in p .. Len(B) /\ Len(a) = q - p
    BY LenProperties DEF Part
  <2>2. z \in q - c .. Len(B)
    BY <1>1 DEF Part
  <2> QED BY <2>1, <2>2, LenProperties
<1>3. c > 0 /\ c <= Len(a)
  OBVIOUS
<1>4. \A n \in 2 .. c : end(c)[n].sep = Blank
  OBVIOUS
<1>5. \A k \in 1 .. c : b[k].sep = Blank
  BY DEF IsPiece
<1>6. upper \in Nat /\ upper <= Len(a) /\ upper <= Len(b) /\ c <= upper
  <2>1. upper = IF Len(a) <= Len(b) THEN Len(a) ELSE Len(b)
    BY <1>1, <1>2, MinOf
  <2> HIDE DEF upper, c
  <2> QED BY <1>1, <1>2, <1>3, <2>1
<1>7. Border(a, b) = Max({0} \cup N)
  BY DEF Border
<1> HIDE DEF upper, c, b
<1>8. ASSUME NEW n \in 1 .. upper
      PROVE  Part(B, end(n), q - n, q) /\ Part(B, start(n), q - c, q - c + n) /\ n \in Nat /\ n > 0
  <2>1. Len(a) - n + 1 \in 1 .. Len(a) + 1 /\ p + (Len(a) - n + 1) - 1 = q - n /\ n \in 0 .. Len(b)
    BY <1>1, <1>2, <1>6
  <2>2. Part(B, end(n), q - n, q)
    <3>1. Part(B, SubSeq(a, Len(a) - n + 1, Len(a)), p + (Len(a) - n + 1) - 1, q)
      BY <2>1, PartTail
    <3> QED BY <2>1, <3>1
  <2>3. Part(B, start(n), q - c, q - c + n)
    BY <1>1, <2>1, PartHead
  <2> QED BY <2>2, <2>3
<1> HIDE DEF end, start
<1>9. ASSUME NEW n \in N PROVE n = c
  <2>0. n \in 1 .. upper
    OBVIOUS
  <2>1. Key(end(n)) = Key(start(n))
    BY DEF Same
  <2>2. Key(end(n))[1] = Key(B)[(q - n) + 1] /\ Key(start(n))[1] = Key(B)[(q - c) + 1]
    <3>1. Part(B, end(n), q - n, q) /\ Part(B, start(n), q - c, q - c + n)
      BY <1>8, <2>0
    <3>2. q - n < q /\ q - c < q - c + n
      BY <1>1, <2>0
    <3>3. Key(end(n))[1] = Key(B)[(q - n) + 1]
      BY <3>1, <3>2, FirstKey
    <3>4. Key(start(n))[1] = Key(B)[(q - c) + 1]
      BY <3>1, <3>2, FirstKey
    <3> QED BY <3>3, <3>4
  <2>3. /\ (q - n) + 1 \in 1 .. Len(B) /\ (q - c) + 1 \in 1 .. Len(B)
    BY <1>1, <1>2, <1>3, <1>6, <2>0
  <2>4. Key(B)[(q - n) + 1] = Key(B)[(q - c) + 1]
    BY <2>1, <2>2, <2>3
  <2>5. (q - n) + 1 = (q - c) + 1
    BY <2>3, <2>4 DEF ToldApart
  <2> QED BY <1>1, <2>0, <2>5
<1>10. c \in N
  <2>1. c \in 1 .. upper
    BY <1>1, <1>3, <1>6
  <2>2. Part(B, end(c), q - c, q) /\ Part(B, start(c), q - c, q - c + c)
    BY <1>8, <2>1
  <2>3. q - c + c = q /\ q - (q - c) = c
    BY <1>1
  <2>4. Key(end(c)) = SubSeq(Key(B), q - c + 1, q) /\ Key(start(c)) = SubSeq(Key(B), q - c + 1, q)
    <3> DEFINE e == end(c)
               d == start(c)
               w == q - c
    <3>1. Part(B, e, w, q) /\ Part(B, d, w, q)
      BY <2>2, <2>3
    <3> HIDE DEF e, d, w
    <3>2. Key(e) = SubSeq(Key(B), w + 1, q)
      BY <3>1, PartKeys
    <3>3. Key(d) = SubSeq(Key(B), w + 1, q)
      BY <3>1, PartKeys
    <3> QED BY <3>2, <3>3 DEF e, d, w
  <2>5. end(c) \in Seq(Sentence) /\ Len(end(c)) = c /\ DOMAIN end(c) = 1 .. c
    BY <2>2, <2>3, LenProperties DEF Part
  <2>6. ASSUME NEW i \in 1 .. c PROVE start(c)[i] = b[i]
    <3>1. \A k \in 1 .. c : b[k] \in Sentence
      <4>1. b \in Seq(Sentence)
        BY <1>1 DEF Part
      <4>2. \A k \in 1 .. c : k \in 1 .. Len(b)
        BY <1>1, <1>6
      <4> QED BY <4>1, <4>2, ElementOfSeq
    <3>2. 1 \in Int /\ c \in Int /\ i \in 1 .. c - 1 + 1 /\ 1 + i - 1 = i
      BY <1>1
    <3>3. SubSeq(b, 1, c)[i] = b[1 + i - 1]
      BY <3>1, <3>2, SubSeqProperties
    <3> QED BY <3>2, <3>3 DEF start
  <2>7. \A i \in DOMAIN end(c) : i > 1 => end(c)[i].sep = start(c)[i].sep
    <3> SUFFICES ASSUME NEW i \in 1 .. c, i > 1 PROVE end(c)[i].sep = start(c)[i].sep
      BY <2>5
    <3>1. i \in 2 .. c
      BY <1>1
    <3> QED BY <1>4, <1>5, <2>6, <3>1
  <2>8. Same(end(c), start(c))
    BY <2>4, <2>7 DEF Same
  <2> QED BY <2>1, <2>8
<1>11. {0} \cup N = {0, c}
  <2> HIDE DEF N
  <2> QED BY <1>9, <1>10
<1> HIDE DEF N
<1>12. Border(a, b) = c
  BY <1>1, <1>7, <1>11, GreaterOf
<1> QED BY <1>12 DEF b, c

OneParagraph(a, c) == \A n \in 2 .. c : SubSeq(a, Len(a) - c + 1, Len(a))[n].sep = Blank

Follows(B, W, a, x) ==
  /\ x.carried > 0 /\ x.carried <= Len(a)
  /\ \E p, q, z \in Nat : Part(B, a, p, q) /\ IsPiece(B, W, x, q, z)

LEMMA Rejoined ==
  ASSUME NEW B \in Seq(Sentence), ToldApart(B), NEW W, NEW a, NEW x, Follows(B, W, a, x),
         OneParagraph(a, x.carried)
  PROVE  Key(ConcatDedup(a, x.text)) = Key(a) \o Key(Fresh(x))
<1>0. PICK p \in Nat, q \in Nat, z \in Nat : Part(B, a, p, q) /\ IsPiece(B, W, x, q, z)
  BY DEF Follows
<1>1. ConcatDedup(a, x.text) = a \o Fresh(x)
  <2>1. Border(a, x.text) = x.carried
    BY <1>0, BorderIs DEF OneParagraph, Follows
  <2> QED BY <2>1 DEF ConcatDedup, Fresh
<1>2. a \in Seq(Sentence) /\ Fresh(x) \in Seq(Sentence)
  <2>1. Part(B, Fresh(x), q, z)
    BY <1>0, PieceHalves
  <2> QED BY <1>0, <2>1 DEF Part
<1> QED BY <1>1, <1>2, KeyConcat

-----------------------------------------------------------------------------
(***************************************************************************)
(* Reading.  The closed sections tell the text up to place x, the blocks   *)
(* of the open one up to y, the open paragraph the rest; line lo is where  *)
(* the open section begins.                                                *)
(***************************************************************************)
Filed(B, ss, x, m) ==
  /\ \E sc : SectionsLaid(B, ss, sc, x)
  /\ \A i \in 1 .. Len(ss) : \A k \in 1 .. Len(ss[i].blocks) : ss[i].blocks[k].to < m

BlocksKept(B, bs, x, y, lo, n) ==
  (\E c : Laid(B, bs, c, x, y)) /\ Rising(bs) /\ AllWithin(bs, lo, n)

ParaKept(B, bs, ps, start, y, lo, n) ==
  /\ \E d : Pieced(B, ps, d, y, Len(B))
  /\ ps # <<>> => /\ start \in lo .. n
                  /\ \A p \in y + 1 .. Len(B) : B[p].line \in start .. n
                  /\ \A k \in 1 .. Len(bs) : bs[k].from <= start

LEMMA BlocksMore ==
  ASSUME NEW B \in Seq(Sentence), NEW bs, NEW x, NEW y, NEW lo \in Nat, NEW n \in Nat,
         BlocksKept(B, bs, x, y, lo, n), NEW m \in Nat, n <= m,
         NEW b \in Block, NEW z, Part(B, b.text, y, z), y < z, Cites(B, b, y, z), Within(b, lo, m),
         \A k \in 1 .. Len(bs) : bs[k].from <= b.from, b.to = m
  PROVE  BlocksKept(B, Append(bs, b), x, z, lo, m)
<1>1. PICK c : Laid(B, bs, c, x, y)
  BY DEF BlocksKept
<1>2. bs \in Seq(Block) /\ Len(bs) \in Nat
  BY <1>1, LaidBlocks
<1> DEFINE d == [i \in 0 .. 1 |-> IF i = 0 THEN y ELSE z]
           one == <<b>>
           all == bs \o one
           l == Len(bs)
<1>3. Laid(B, one, d, y, z)
  BY LaidOne
<1>4. Len(one) = 1 /\ one[1] = b
  OBVIOUS
<1>5. Append(bs, b) = all
  BY <1>2, AppendIsConcat
<1> HIDE DEF d, one
<1>6. /\ \E e : Laid(B, all, e, x, z)
      /\ Len(all) = l + 1 /\ \A k \in 1 .. l : all[k] = bs[k]
      /\ all[l + 1] = b
  <2>1. /\ \E e : Laid(B, bs \o one, e, x, z)
        /\ Len(bs \o one) = Len(bs) + Len(one)
        /\ \A k \in 1 .. Len(bs) : (bs \o one)[k] = bs[k]
        /\ \A k \in Len(bs) + 1 .. Len(bs) + Len(one) : (bs \o one)[k] = one[k - Len(bs)]
    BY <1>1, <1>3, LaidConcat
  <2>2. l + 1 \in l + 1 .. l + 1 /\ (l + 1) - l = 1
    BY <1>2
  <2>3. all[l + 1] = one[(l + 1) - l]
    BY <1>4, <2>1, <2>2
  <2>4. all[l + 1] = b
    BY <1>4, <2>2, <2>3
  <2> QED BY <1>4, <2>1, <2>4
<1> HIDE DEF all
<1>7. ASSUME NEW k \in 1 .. l PROVE bs[k].from \in lo .. n /\ bs[k].to \in lo .. n
  BY DEF BlocksKept, AllWithin, Within
<1>8. b.from \in lo .. m /\ b.to \in lo .. m /\ b.to = m
  BY DEF Within
<1>9. ASSUME NEW k \in 1 .. l + 1 PROVE k \in 1 .. l \/ k = l + 1
  BY <1>2
<1>10. AllWithin(all, lo, m)
  <2> SUFFICES ASSUME NEW k \in 1 .. l + 1 PROVE all[k].from \in lo .. m /\ all[k].to \in lo .. m
    BY <1>6 DEF AllWithin, Within
  <2>1. CASE k \in 1 .. l
    BY <1>6, <1>7, <2>1
  <2>2. CASE k = l + 1
    BY <1>6, <1>8, <2>2
  <2> QED BY <1>9, <2>1, <2>2
<1>11. Rising(all)
  <2> SUFFICES ASSUME NEW i \in 1 .. l + 1, NEW j \in 1 .. l + 1, i < j
               PROVE  all[i].from <= all[j].from /\ all[i].to <= all[j].to
    BY <1>6 DEF Rising
  <2>1. i \in 1 .. l
    BY <1>2
  <2>2. CASE j \in 1 .. l
    BY <1>6, <2>1, <2>2 DEF BlocksKept, Rising
  <2>3. CASE j = l + 1
    <3>1. all[i] = bs[i] /\ all[j] = b
      BY <1>6, <2>1, <2>3
    <3>2. bs[i].from <= b.from
      BY <2>1
    <3>3. bs[i].to <= b.to
      BY <1>7, <1>8, <2>1
    <3> QED BY <3>1, <3>2, <3>3
  <2> QED BY <1>9, <2>2, <2>3
<1> QED BY <1>5, <1>6, <1>10, <1>11 DEF BlocksKept

FlushP(bs, ps, start, n) ==
  IF ps = <<>> THEN bs ELSE Append(bs, [text |-> Join(ps, " "), from |-> start, to |-> n])

(* Closing a paragraph.                                                    *)
LEMMA ParaFlushed ==
  ASSUME NEW B \in Seq(Sentence), NEW bs, NEW ps, NEW start \in Nat, NEW x, NEW y, NEW lo \in Nat,
         NEW n \in Nat, BlocksKept(B, bs, x, y, lo, n), ParaKept(B, bs, ps, start, y, lo, n)
  PROVE  BlocksKept(B, FlushP(bs, ps, start, n), x, Len(B), lo, n)
<1>1. PICK d : Pieced(B, ps, d, y, Len(B))
  BY DEF ParaKept
<1>2. ps \in Seq(Seq(Sentence)) /\ IsCut(B, d, Len(ps), y, Len(B)) /\ Len(ps) \in Nat
  BY <1>1, LenProperties DEF Pieced
<1>3. CASE ps = <<>>
  <2>1. Len(ps) = 0
    BY <1>3, EmptySeq
  <2>2. y = Len(B)
    BY <1>2, <2>1 DEF IsCut
  <2> QED BY <1>3, <2>2 DEF FlushP
<1>4. CASE ps # <<>>
  <2> DEFINE text == Join(ps, " ")
             b == [text |-> text, from |-> start, to |-> n]
  <2>1. Part(B, text, y, Len(B))
    <3>1. " " \in Separator
      BY DEF Separator, Blank
    <3> QED BY <1>1, <3>1, JoinTells
  <2>2. y < Len(B)
    <3>1. Len(ps) > 0
      BY <1>2, <1>4, EmptySeq
    <3>2. 0 \in 0 .. Len(ps) /\ Len(ps) \in 0 .. Len(ps) /\ 0 < Len(ps)
      BY <1>2, <3>1
    <3>3. d[0] < d[Len(ps)]
      BY <1>2, <3>2, CutGrows
    <3> QED BY <1>2, <3>3 DEF IsCut
  <2>3. start \in lo .. n /\ (\A p \in y + 1 .. Len(B) : B[p].line \in start .. n)
        /\ (\A k \in 1 .. Len(bs) : bs[k].from <= start) /\ n \in lo .. n
    BY <1>4 DEF ParaKept
  <2>4. text \in Seq(Sentence)
    BY <2>1 DEF Part
  <2> HIDE DEF text
  <2>5. b \in Block /\ b.text = text /\ b.from = start /\ b.to = n
    BY <2>4 DEF Block
  <2> HIDE DEF b
  <2>6. Cites(B, b, y, Len(B)) /\ Within(b, lo, n)
    BY <2>3, <2>5 DEF Cites, Within
  <2>7. n <= n /\ Part(B, b.text, y, Len(B)) /\ \A k \in 1 .. Len(bs) : bs[k].from <= b.from
    BY <2>1, <2>3, <2>5
  <2>8. BlocksKept(B, Append(bs, b), x, Len(B), lo, n)
    BY <2>2, <2>5, <2>6, <2>7, BlocksMore
  <2> QED BY <1>4, <2>8 DEF FlushP, b, text
<1> QED BY <1>3, <1>4

FlushS(ss, bs, x, y) == IF bs = <<>> THEN ss ELSE Append(ss, [sec |-> x, sub |-> y, blocks |-> bs])

(* Closing a section.                                                      *)
LEMMA SectionFlushed ==
  ASSUME NEW B \in Seq(Sentence), NEW ss, NEW bs, NEW x, NEW z, NEW lo \in Nat, NEW n \in Nat,
         Filed(B, ss, x, lo), BlocksKept(B, bs, x, z, lo, n), lo <= n + 1,
         NEW title \in Title \cup {NoTitle}, NEW under \in Title \cup {NoTitle}
  PROVE  Filed(B, FlushS(ss, bs, title, under), z, n + 1)
<1>1. PICK c : Laid(B, bs, c, x, z)
  BY DEF BlocksKept
<1>2. /\ bs \in Seq(Block) /\ Len(bs) \in Nat /\ IsCut(B, c, Len(bs), x, z)
      /\ x \in Nat /\ z \in Nat /\ z <= Len(B)
  <2>1. IsCut(B, c, Len(bs), x, z)
    BY <1>1 DEF Laid
  <2> QED BY <1>1, <2>1, LaidBlocks
<1>3. PICK sc : SectionsLaid(B, ss, sc, x)
  BY DEF Filed
<1>4. /\ ss \in Seq(Section) /\ Len(ss) \in Nat /\ IsCut(B, sc, Len(ss), 0, x)
      /\ \A i \in 1 .. Len(ss) : ss[i] \in Section
  <2>1. ss \in Seq(Section) /\ IsCut(B, sc, Len(ss), 0, x)
    BY <1>3 DEF SectionsLaid
  <2> QED BY <2>1, LenProperties, ElementOfSeq
<1>5. ASSUME NEW i \in 1 .. Len(ss), NEW k \in 1 .. Len(ss[i].blocks)
      PROVE  ss[i].blocks[k].to < lo /\ ss[i].blocks[k].to \in Nat
  <2>1. ss[i].blocks[k].to < lo
    BY DEF Filed
  <2>2. ss[i].blocks \in Seq(Block)
    BY <1>4 DEF Section
  <2>3. ss[i].blocks[k] \in Block
    BY <2>2, ElementOfSeq
  <2> QED BY <2>1, <2>3 DEF Block
<1>6. CASE bs = <<>>
  <2>1. x = z
    <3>1. Len(bs) = 0
      BY <1>6, EmptySeq
    <3> QED BY <1>2, <3>1 DEF IsCut
  <2>2. \A i \in 1 .. Len(ss) : \A k \in 1 .. Len(ss[i].blocks) : ss[i].blocks[k].to < n + 1
    BY <1>5
  <2> QED BY <1>3, <1>6, <2>1, <2>2 DEF FlushS, Filed
<1>7. CASE bs # <<>>
  <2> DEFINE s == [sec |-> title, sub |-> under, blocks |-> bs]
             all == Append(ss, s)
             l == Len(ss)
             d == [i \in 0 .. 1 |-> IF i = 0 THEN x ELSE z]
  <2>1. s \in Section /\ s.blocks = bs
    BY <1>2 DEF Section
  <2> HIDE DEF s
  <2>2. /\ all \in Seq(Section) /\ Len(all) = l + 1 /\ (\A i \in 1 .. l : all[i] = ss[i])
        /\ all[l + 1] = s
    BY <1>4, <2>1, AppendProperties
  <2> HIDE DEF all
  <2>3. x < z
    <3>1. Len(bs) > 0
      BY <1>2, <1>7, EmptySeq
    <3>2. 0 \in 0 .. Len(bs) /\ Len(bs) \in 0 .. Len(bs) /\ 0 < Len(bs)
      BY <1>2, <3>1
    <3>3. c[0] < c[Len(bs)]
      BY <1>2, <3>2, CutGrows
    <3> QED BY <1>2, <3>3 DEF IsCut
  <2>4. IsCut(B, d, 1, x, z)
    BY <1>2, <2>3, CutOne
  <2>5. d[0] = x /\ d[1] = z
    OBVIOUS
  <2> HIDE DEF d
  <2>6. PICK e : AreOne(B, e, sc, l, d, 1, 0, z)
    BY <1>4, <2>4, CutConcat
  <2>7. IsCut(B, e, l + 1, 0, z) /\ (\A i \in 0 .. l : e[i] = sc[i]) /\ e[l] = x /\ e[l + 1] = z
    <3>1. /\ IsCut(B, e, l + 1, 0, z) /\ (\A i \in 0 .. l : e[i] = sc[i])
          /\ \A i \in 0 .. 1 : e[l + i] = d[i]
      BY <2>6 DEF AreOne
    <3>2. l \in 0 .. l /\ sc[l] = x /\ 1 \in 0 .. 1
      BY <1>4 DEF IsCut
    <3> QED BY <2>5, <3>1, <3>2
  <2>8. ASSUME NEW i \in 1 .. l + 1 PROVE i \in 1 .. l \/ i = l + 1
    BY <1>4
  <2>9. ASSUME NEW i \in 1 .. l + 1 PROVE SectionOK(B, all[i], e[i - 1], e[i])
    <3>1. CASE i \in 1 .. l
      <4>1. i - 1 \in 0 .. l /\ i \in 0 .. l
        BY <1>4, <3>1
      <4>2. SectionOK(B, ss[i], sc[i - 1], sc[i])
        BY <1>3, <3>1 DEF SectionsLaid
      <4> QED BY <2>2, <2>7, <3>1, <4>1, <4>2
    <3>2. CASE i = l + 1
      <4>1. (l + 1) - 1 = l
        BY <1>4
      <4>2. SectionOK(B, s, x, z)
        BY <1>1, <2>1 DEF SectionOK, BlocksKept
      <4> QED BY <2>2, <2>7, <3>2, <4>1, <4>2
    <3> QED BY <2>8, <3>1, <3>2
  <2>10. ASSUME NEW k \in 1 .. Len(bs) PROVE bs[k].from \in lo .. n /\ bs[k].to \in lo .. n
    BY DEF BlocksKept, AllWithin, Within
  <2>11. ASSUME NEW i \in 1 .. l + 1, NEW j \in 1 .. l + 1, i < j,
                NEW k \in 1 .. Len(all[i].blocks), NEW h \in 1 .. Len(all[j].blocks)
         PROVE  all[i].blocks[k].to < all[j].blocks[h].from
    <3>1. i \in 1 .. l /\ all[i] = ss[i]
      <4>1. i \in 1 .. l
        BY <1>4, <2>11
      <4> QED BY <2>2, <4>1
    <3>2. CASE j \in 1 .. l
      BY <1>3, <2>2, <2>11, <3>1, <3>2 DEF SectionsLaid
    <3>3. CASE j = l + 1
      <4>1. all[j].blocks = bs
        BY <2>1, <2>2, <3>3
      <4>2. bs[h].from \in lo .. n
        BY <2>10, <4>1
      <4>3. ss[i].blocks[k].to < lo /\ ss[i].blocks[k].to \in Nat
        BY <1>5, <3>1
      <4>4. ss[i].blocks[k].to < bs[h].from
        <5> DEFINE before == ss[i].blocks[k].to
                   after  == bs[h].from
        <5>1. before < lo /\ before \in Nat /\ after \in lo .. n /\ lo \in Int
          BY <4>2, <4>3
        <5> HIDE DEF before, after
        <5>2. before < after
          BY <5>1
        <5> QED BY <5>2 DEF before, after
      <4> QED BY <3>1, <4>1, <4>4
    <3> QED BY <2>8, <3>2, <3>3
  <2>12. SectionsLaid(B, all, e, z)
    BY <2>2, <2>7, <2>9, <2>11 DEF SectionsLaid
  <2>13. ASSUME NEW i \in 1 .. Len(all), NEW k \in 1 .. Len(all[i].blocks)
         PROVE  all[i].blocks[k].to < n + 1
    <3>1. CASE i \in 1 .. l
      <4>1. all[i] = ss[i]
        BY <2>2, <3>1
      <4>2. ss[i].blocks[k].to < lo /\ ss[i].blocks[k].to \in Nat
        BY <1>5, <3>1, <4>1
      <4>3. ss[i].blocks[k].to < n + 1
        BY <4>2
      <4> QED BY <4>1, <4>3
    <3>2. CASE i = l + 1
      <4>1. all[i].blocks = bs
        BY <2>1, <2>2, <3>2
      <4>2. bs[k].to \in lo .. n
        BY <2>10, <4>1
      <4>3. bs[k].to < n + 1
        BY <4>2
      <4> QED BY <4>1, <4>3
    <3> QED BY <2>2, <2>8, <3>1, <3>2
  <2>14. Filed(B, all, z, n + 1)
    BY <2>12, <2>13 DEF Filed
  <2> QED BY <1>7, <2>14 DEF FlushS, s, all
<1> QED BY <1>6, <1>7

(* Reading on changes nothing of what was read.                            *)
LEMMA LongerText ==
  ASSUME NEW B \in Seq(Sentence), NEW C \in Seq(Sentence)
  PROVE  /\ B \o C \in Seq(Sentence) /\ Len(B \o C) = Len(B) + Len(C)
         /\ Len(B) \in Nat /\ Len(C) \in Nat
         /\ \A p \in 1 .. Len(B) : (B \o C)[p] = B[p]
         /\ \A p \in 1 .. Len(C) : (B \o C)[Len(B) + p] = C[p]
<1> DEFINE A == B \o C
           l == Len(B)
           n == Len(C)
<1>1. l \in Nat /\ n \in Nat
  BY LenProperties
<1>2. /\ A \in Seq(Sentence) /\ Len(A) = l + n
      /\ \A p \in 1 .. l + n : A[p] = IF p <= l THEN B[p] ELSE C[p - l]
  BY ConcatProperties
<1> HIDE DEF A, l, n
<1>3. ASSUME NEW p \in 1 .. l PROVE A[p] = B[p]
  <2>1. p \in 1 .. l + n /\ p <= l
    BY <1>1
  <2> QED BY <1>2, <2>1
<1>4. ASSUME NEW p \in 1 .. n PROVE A[l + p] = C[p]
  <2>1. l + p \in 1 .. l + n /\ ~ l + p <= l /\ (l + p) - l = p
    BY <1>1
  <2> QED BY <1>2, <2>1
<1> QED BY <1>1, <1>2, <1>3, <1>4 DEF A, l, n

LEMMA CutStays ==
  ASSUME NEW B \in Seq(Sentence), NEW C \in Seq(Sentence), NEW c, NEW n, NEW a, NEW z,
         IsCut(B, c, n, a, z)
  PROVE  /\ IsCut(B \o C, c, n, a, z)
         /\ \A i \in 0 .. n : c[i] \in 0 .. Len(B)
<1> DEFINE l == Len(B)
           m == Len(B \o C)
<1>1. l \in Nat /\ m \in Nat /\ l <= m
  BY LongerText
<1>2. /\ n \in Nat /\ a \in Nat /\ z \in 0 .. l /\ c \in [0 .. n -> 0 .. l] /\ c[0] = a /\ c[n] = z
      /\ \A i \in 1 .. n : c[i - 1] < c[i]
  BY DEF IsCut
<1> HIDE DEF l, m
<1>3. 0 .. l \subseteq 0 .. m
  BY <1>1
<1>4. c \in [0 .. n -> 0 .. m] /\ z \in 0 .. m
  BY <1>2, <1>3
<1>5. IsCut(B \o C, c, n, a, z)
  BY <1>2, <1>4 DEF IsCut, m
<1> QED BY <1>2, <1>5 DEF l

LEMMA PiecedStays ==
  ASSUME NEW B \in Seq(Sentence), NEW C \in Seq(Sentence), NEW ts, NEW c, NEW a, NEW z,
         Pieced(B, ts, c, a, z)
  PROVE  Pieced(B \o C, ts, c, a, z)
<1>1. ts \in Seq(Seq(Sentence)) /\ IsCut(B, c, Len(ts), a, z)
      /\ \A i \in 1 .. Len(ts) : Part(B, ts[i], c[i - 1], c[i])
  BY DEF Pieced
<1>2. IsCut(B \o C, c, Len(ts), a, z)
  BY <1>1, CutStays
<1>3. \A i \in 1 .. Len(ts) : Part(B \o C, ts[i], c[i - 1], c[i])
  BY <1>1, PartStays
<1> QED BY <1>1, <1>2, <1>3 DEF Pieced

LEMMA LaidStays ==
  ASSUME NEW B \in Seq(Sentence), NEW C \in Seq(Sentence), NEW bs, NEW c, NEW a, NEW z,
         Laid(B, bs, c, a, z)
  PROVE  Laid(B \o C, bs, c, a, z)
<1> DEFINE A == B \o C
<1>1. bs \in Seq(Block) /\ IsCut(B, c, Len(bs), a, z) /\ Len(bs) \in Nat
      /\ \A i \in 1 .. Len(bs) : Part(B, bs[i].text, c[i - 1], c[i]) /\ Cites(B, bs[i], c[i - 1], c[i])
  BY LenProperties DEF Laid
<1>2. IsCut(A, c, Len(bs), a, z) /\ \A i \in 0 .. Len(bs) : c[i] \in 0 .. Len(B)
  BY <1>1, CutStays
<1>3. \A i \in 1 .. Len(bs) : Part(A, bs[i].text, c[i - 1], c[i])
  BY <1>1, PartStays
<1>4. (\A p \in 1 .. Len(B) : A[p] = B[p]) /\ Len(B) \in Nat
  BY LongerText
<1> HIDE DEF A
<1>5. ASSUME NEW i \in 1 .. Len(bs) PROVE Cites(A, bs[i], c[i - 1], c[i])
  <2> SUFFICES ASSUME NEW p \in c[i - 1] + 1 .. c[i] PROVE A[p].line \in bs[i].from .. bs[i].to
    BY DEF Cites
  <2>1. i \in 0 .. Len(bs) /\ i - 1 \in 0 .. Len(bs)
    BY <1>1
  <2>2. c[i - 1] \in 0 .. Len(B) /\ c[i] \in 0 .. Len(B)
    BY <1>2, <2>1
  <2>3. p \in 1 .. Len(B)
    BY <1>4, <2>2
  <2>4. B[p].line \in bs[i].from .. bs[i].to
    BY <1>1 DEF Cites
  <2> QED BY <1>4, <2>3, <2>4
<1>6. Laid(A, bs, c, a, z)
  BY <1>1, <1>2, <1>3, <1>5 DEF Laid
<1> QED BY <1>6 DEF A

LEMMA FiledStays ==
  ASSUME NEW B \in Seq(Sentence), NEW C \in Seq(Sentence), NEW ss, NEW x, NEW m, Filed(B, ss, x, m)
  PROVE  Filed(B \o C, ss, x, m)
<1> DEFINE A == B \o C
<1>1. PICK sc : SectionsLaid(B, ss, sc, x)
  BY DEF Filed
<1>2. ss \in Seq(Section) /\ IsCut(B, sc, Len(ss), 0, x)
  BY <1>1 DEF SectionsLaid
<1>3. IsCut(A, sc, Len(ss), 0, x)
  BY <1>2, CutStays
<1>4. ASSUME NEW i \in 1 .. Len(ss) PROVE SectionOK(A, ss[i], sc[i - 1], sc[i])
  <2>1. SectionOK(B, ss[i], sc[i - 1], sc[i])
    BY <1>1 DEF SectionsLaid
  <2>2. PICK c : Laid(B, ss[i].blocks, c, sc[i - 1], sc[i])
    BY <2>1 DEF SectionOK
  <2>3. Laid(A, ss[i].blocks, c, sc[i - 1], sc[i])
    BY <2>2, LaidStays
  <2> HIDE DEF A
  <2> QED BY <2>1, <2>3 DEF SectionOK
<1> HIDE DEF A
<1>5. SectionsLaid(A, ss, sc, x)
  BY <1>1, <1>2, <1>3, <1>4 DEF SectionsLaid
<1>6. Filed(A, ss, x, m)
  BY <1>5 DEF Filed
<1> QED BY <1>6 DEF A

LEMMA NoPieces ==
  ASSUME NEW B \in Seq(Sentence), NEW y \in 0 .. Len(B)
  PROVE  /\ \E d : Pieced(B, <<>>, d, y, y)
         /\ \E d : Laid(B, <<>>, d, y, y)
         /\ \E d : SectionsLaid(B, <<>>, d, 0)
<1> DEFINE c(x) == [i \in 0 .. 0 |-> x]
<1>1. ASSUME NEW x \in 0 .. Len(B) PROVE IsCut(B, c(x), 0, x, x)
  <2>1. Len(B) \in Nat
    BY LenProperties
  <2>2. /\ 0 \in Nat /\ x \in Nat /\ c(x) \in [0 .. 0 -> 0 .. Len(B)]
        /\ c(x)[0] = x /\ \A i \in 1 .. 0 : c(x)[i - 1] < c(x)[i]
    BY <2>1
  <2> HIDE DEF c
  <2> QED BY <2>2 DEF IsCut
<1> HIDE DEF c
<1>2. /\ <<>> \in Seq(Seq(Sentence)) /\ <<>> \in Seq(Block) /\ <<>> \in Seq(Section) /\ Len(<<>>) = 0
      /\ 1 .. 0 = {}
  BY EmptySeq
<1>3. 0 \in 0 .. Len(B)
  BY LenProperties
<1>4. Pieced(B, <<>>, c(y), y, y) /\ Laid(B, <<>>, c(y), y, y)
  BY <1>1, <1>2 DEF Pieced, Laid
<1>5. SectionsLaid(B, <<>>, c(0), 0)
  BY <1>1, <1>2, <1>3 DEF SectionsLaid
<1> QED BY <1>4, <1>5

LEMMA NoBlocks ==
  ASSUME NEW B \in Seq(Sentence), NEW y \in 0 .. Len(B), NEW lo, NEW n
  PROVE  BlocksKept(B, <<>>, y, y, lo, n)
<1>1. Len(<<>>) = 0 /\ 1 .. 0 = {}
  OBVIOUS
<1>2. Rising(<<>>) /\ AllWithin(<<>>, lo, n)
  BY <1>1 DEF Rising, AllWithin
<1> QED BY <1>2, NoPieces DEF BlocksKept

LEMMA NoPara ==
  ASSUME NEW B \in Seq(Sentence), NEW bs, NEW start, NEW lo, NEW n
  PROVE  ParaKept(B, bs, <<>>, start, Len(B), lo, n)
<1>1. Len(B) \in 0 .. Len(B)
  BY LenProperties
<1> QED BY <1>1, NoPieces DEF ParaKept

LEMMA BlocksLater ==
  ASSUME NEW B, NEW bs, NEW x, NEW y, NEW lo \in Nat, NEW n \in Nat, NEW m \in Nat, n <= m,
         BlocksKept(B, bs, x, y, lo, n)
  PROVE  BlocksKept(B, bs, x, y, lo, m)
<1>1. \A i \in lo .. n : i \in lo .. m
  OBVIOUS
<1> QED BY <1>1 DEF BlocksKept, AllWithin, Within

Kept(B, ss, bs, ps, start, n) ==
  /\ B \in Seq(Sentence) /\ ToldApart(B) /\ n \in Nat /\ start \in Nat
  /\ \A p \in 1 .. Len(B) : B[p].line \in 1 .. n
  /\ \E x, y, lo \in Nat : /\ Filed(B, ss, x, lo) /\ lo <= n + 1
                          /\ BlocksKept(B, bs, x, y, lo, n)
                          /\ ParaKept(B, bs, ps, start, y, lo, n)

LEMMA KeptFirst == Kept(<<>>, <<>>, <<>>, <<>>, 0, 0)
<1>1. <<>> \in Seq(Sentence) /\ Len(<<>>) = 0 /\ 1 .. 0 = {} /\ 0 \in 0 .. 0
  BY EmptySeq
<1>2. ToldApart(<<>>)
  BY <1>1 DEF ToldApart
<1>3. Filed(<<>>, <<>>, 0, 0)
  BY <1>1, NoPieces DEF Filed
<1>4. BlocksKept(<<>>, <<>>, 0, 0, 0, 0) /\ ParaKept(<<>>, <<>>, <<>>, 0, 0, 0, 0)
  <2>1. ParaKept(<<>>, <<>>, <<>>, 0, Len(<<>>), 0, 0)
    BY <1>1, NoPara
  <2> QED BY <1>1, <2>1, NoBlocks
<1>5. 0 \in Nat /\ 0 <= 0 + 1
  OBVIOUS
<1> QED BY <1>1, <1>2, <1>3, <1>4, <1>5 DEF Kept

(* A blank line.                                                           *)
LEMMA KeptBlank ==
  ASSUME NEW B, NEW ss, NEW bs, NEW ps, NEW start, NEW n, Kept(B, ss, bs, ps, start, n)
  PROVE  Kept(B, ss, FlushP(bs, ps, start, n), <<>>, 0, n + 1)
<1>1. /\ B \in Seq(Sentence) /\ ToldApart(B) /\ n \in Nat /\ start \in Nat
      /\ \A p \in 1 .. Len(B) : B[p].line \in 1 .. n
  BY DEF Kept
<1>2. PICK x \in Nat, y \in Nat, lo \in Nat :
           /\ Filed(B, ss, x, lo) /\ lo <= n + 1
           /\ BlocksKept(B, bs, x, y, lo, n) /\ ParaKept(B, bs, ps, start, y, lo, n)
  BY DEF Kept
<1> DEFINE cs == FlushP(bs, ps, start, n)
<1>3. BlocksKept(B, cs, x, Len(B), lo, n)
  BY <1>1, <1>2, ParaFlushed
<1> HIDE DEF cs
<1>4. n + 1 \in Nat /\ n <= n + 1 /\ lo <= (n + 1) + 1 /\ Len(B) \in Nat /\ 0 \in Nat
  BY <1>1, <1>2, LenProperties
<1>5. BlocksKept(B, cs, x, Len(B), lo, n + 1)
  BY <1>1, <1>3, <1>4, BlocksLater
<1>6. ParaKept(B, cs, <<>>, 0, Len(B), lo, n + 1)
  BY <1>1, NoPara
<1>7. \A p \in 1 .. Len(B) : B[p].line \in 1 .. n + 1
  BY <1>1
<1>8. Kept(B, ss, cs, <<>>, 0, n + 1)
  BY <1>1, <1>2, <1>4, <1>5, <1>6, <1>7 DEF Kept
<1> QED BY <1>8 DEF cs

LEMMA AllFiled ==
  ASSUME NEW B, NEW ss, NEW bs, NEW ps, NEW start, NEW n, Kept(B, ss, bs, ps, start, n),
         NEW title \in Title \cup {NoTitle}, NEW under \in Title \cup {NoTitle}
  PROVE  Filed(B, FlushS(ss, FlushP(bs, ps, start, n), title, under), Len(B), n + 1)
<1>1. B \in Seq(Sentence) /\ n \in Nat /\ start \in Nat
  BY DEF Kept
<1>2. PICK x \in Nat, y \in Nat, lo \in Nat :
           /\ Filed(B, ss, x, lo) /\ lo <= n + 1
           /\ BlocksKept(B, bs, x, y, lo, n) /\ ParaKept(B, bs, ps, start, y, lo, n)
  BY DEF Kept
<1> DEFINE cs == FlushP(bs, ps, start, n)
<1>3. BlocksKept(B, cs, x, Len(B), lo, n)
  BY <1>1, <1>2, ParaFlushed
<1> HIDE DEF cs
<1>4. Filed(B, FlushS(ss, cs, title, under), Len(B), n + 1)
  BY <1>1, <1>2, <1>3, SectionFlushed
<1> QED BY <1>4 DEF cs

(* A heading.                                                              *)
LEMMA KeptHeading ==
  ASSUME NEW B, NEW ss, NEW bs, NEW ps, NEW start, NEW n, Kept(B, ss, bs, ps, start, n),
         NEW title \in Title \cup {NoTitle}, NEW under \in Title \cup {NoTitle}
  PROVE  Kept(B, FlushS(ss, FlushP(bs, ps, start, n), title, under), <<>>, <<>>, 0, n + 1)
<1>1. /\ B \in Seq(Sentence) /\ ToldApart(B) /\ n \in Nat
      /\ \A p \in 1 .. Len(B) : B[p].line \in 1 .. n
  BY DEF Kept
<1> DEFINE ts == FlushS(ss, FlushP(bs, ps, start, n), title, under)
<1>2. Filed(B, ts, Len(B), n + 1)
  BY AllFiled
<1> HIDE DEF ts
<1>3. Len(B) \in Nat /\ Len(B) \in 0 .. Len(B) /\ n + 1 \in Nat /\ n + 1 <= (n + 1) + 1 /\ 0 \in Nat
  BY <1>1, LenProperties
<1>4. BlocksKept(B, <<>>, Len(B), Len(B), n + 1, n + 1) /\ ParaKept(B, <<>>, <<>>, 0, Len(B), n + 1, n + 1)
  BY <1>1, <1>3, NoBlocks, NoPara
<1>5. \A p \in 1 .. Len(B) : B[p].line \in 1 .. n + 1
  BY <1>1
<1>6. Kept(B, ts, <<>>, <<>>, 0, n + 1)
  BY <1>1, <1>2, <1>3, <1>4, <1>5 DEF Kept
<1> QED BY <1>6 DEF ts

SentencesOf(ws, n) == [i \in DOMAIN ws |-> [line |-> n + 1, at |-> i, words |-> ws[i], sep |-> " "]]

(* The sentences of a line are unlike any other.                           *)
LEMMA LineRead ==
  ASSUME NEW B \in Seq(Sentence), ToldApart(B), NEW n \in Nat,
         \A p \in 1 .. Len(B) : B[p].line \in 1 .. n,
         NEW ws \in Line
  PROVE  LET C == SentencesOf(ws, n)
             A == B \o C IN
         /\ C \in Seq(Sentence) /\ A \in Seq(Sentence) /\ Part(A, C, Len(B), Len(A))
         /\ Len(B) \in Nat /\ Len(B) < Len(A)
         /\ \A p \in Len(B) + 1 .. Len(A) : A[p].line = n + 1
         /\ \A p \in 1 .. Len(A) : A[p].line \in 1 .. n + 1
         /\ ToldApart(A)
<1> DEFINE C == SentencesOf(ws, n)
           A == B \o C
           l == Len(B)
           k == Len(ws)
<1>1. ws \in Seq(Nat \ {0}) /\ ws # <<>>
  BY ChunkAssumption
<1>2. k \in Nat /\ k > 0 /\ DOMAIN ws = 1 .. k /\ \A i \in 1 .. k : ws[i] \in Nat
  BY <1>1, EmptySeq, LenProperties, ElementOfSeq
<1> HIDE DEF k
<1>3. ASSUME NEW i \in 1 .. k
      PROVE  C[i] \in Sentence /\ C[i].line = n + 1 /\ C[i].at = i
  <2>1. C[i] = [line |-> n + 1, at |-> i, words |-> ws[i], sep |-> Blank]
    BY <1>2 DEF SentencesOf, Blank
  <2>2. n + 1 \in Nat /\ i \in Nat /\ ws[i] \in Nat /\ Blank \in Separator
    <3>1. Blank \in Separator
      BY DEF Separator
    <3>2. n + 1 \in Nat /\ i \in Nat
      BY <1>2
    <3> QED BY <1>2, <3>1, <3>2
  <2> HIDE DEF C
  <2>3. [line |-> n + 1, at |-> i, words |-> ws[i], sep |-> Blank] \in Sentence
    BY <2>2 DEF Sentence
  <2> QED BY <2>1, <2>3
<1>4. C \in Seq(Sentence) /\ Len(C) = k
  <2>1. C \in [1 .. k -> Sentence]
    <3>1. DOMAIN C = 1 .. k /\ C = [i \in 1 .. k |-> C[i]]
      BY <1>2 DEF SentencesOf
    <3> HIDE DEF C
    <3> QED BY <1>3, <3>1
  <2> HIDE DEF C
  <2> QED BY <1>2, <2>1
<1> HIDE DEF C
<1>5. /\ A \in Seq(Sentence) /\ Len(A) = l + k /\ l \in Nat
      /\ \A p \in 1 .. l : A[p] = B[p]
      /\ \A p \in 1 .. k : A[l + p] = C[p]
  BY <1>4, LongerText
<1> HIDE DEF A, l
<1>6. ASSUME NEW p \in 1 .. l + k
      PROVE  \/ p \in 1 .. l /\ A[p] = B[p] /\ A[p].line \in 1 .. n
             \/ p - l \in 1 .. k /\ A[p] = C[p - l] /\ A[p].line = n + 1 /\ A[p].at = p - l
  <2>1. CASE p \in 1 .. l
    <3>1. A[p] = B[p]
      BY <1>5, <2>1
    <3>2. B[p].line \in 1 .. n
      BY <2>1 DEF l
    <3> QED BY <2>1, <3>1, <3>2
  <2>2. CASE p \notin 1 .. l
    <3>1. p - l \in 1 .. k /\ l + (p - l) = p
      BY <1>2, <1>5, <2>2
    <3>2. A[l + (p - l)] = C[p - l]
      BY <1>5, <3>1
    <3> QED BY <1>3, <3>1, <3>2
  <2> QED BY <2>1, <2>2
<1>7. Part(A, C, l, l + k)
  <2>1. l + k \in l .. Len(A) /\ Len(C) = l + k - l
    BY <1>2, <1>4, <1>5
  <2>2. ASSUME NEW i \in 1 .. l + k - l
        PROVE C[i].line = A[l + i].line /\ C[i].at = A[l + i].at /\ C[i].words = A[l + i].words
    <3>1. i \in 1 .. k
      BY <1>2, <1>5
    <3> QED BY <1>5, <3>1
  <2> QED BY <1>4, <1>5, <2>1, <2>2 DEF Part
<1>8. \A p \in l + 1 .. l + k : A[p].line = n + 1
  <2> SUFFICES ASSUME NEW p \in l + 1 .. l + k PROVE A[p].line = n + 1
    OBVIOUS
  <2>1. p \in 1 .. l + k /\ p \notin 1 .. l
    BY <1>2, <1>5
  <2> QED BY <1>6, <2>1
<1>9. \A p \in 1 .. l + k : A[p].line \in 1 .. n + 1
  <2>1. n + 1 \in 1 .. n + 1 /\ \A i \in 1 .. n : i \in 1 .. n + 1
    OBVIOUS
  <2> QED BY <1>6, <2>1
<1>10. ToldApart(A)
  <2> SUFFICES ASSUME NEW p \in 1 .. l + k, NEW r \in 1 .. l + k, Key(A)[p] = Key(A)[r] PROVE p = r
    BY <1>5 DEF ToldApart
  <2>1. A[p].line = A[r].line /\ A[p].at = A[r].at
    <3>1. Key(A)[p] = <<A[p].line, A[p].at>> /\ Key(A)[r] = <<A[r].line, A[r].at>>
      BY <1>5, KeysAre
    <3>2. <<A[p].line, A[p].at>> = <<A[r].line, A[r].at>>
      BY <3>1
    <3> QED BY <3>2
  <2>2. CASE A[p].line = n + 1
    <3>1. A[p].line \notin 1 .. n /\ A[r].line \notin 1 .. n
      BY <2>1, <2>2
    <3>2. A[p].at = p - l /\ A[r].at = r - l
      BY <1>6, <3>1
    <3>3. p - l = r - l
      BY <2>1, <3>2
    <3> QED BY <1>2, <1>5, <3>3
  <2>3. CASE A[p].line # n + 1
    <3>1. p \in 1 .. l /\ r \in 1 .. l /\ A[p] = B[p] /\ A[r] = B[r]
      BY <1>6, <2>1, <2>3
    <3>2. Key(B)[p] = <<B[p].line, B[p].at>> /\ Key(B)[r] = <<B[r].line, B[r].at>>
      BY <3>1, KeysAre DEF l
    <3>3. Key(B)[p] = Key(B)[r]
      BY <2>1, <3>1, <3>2
    <3> QED BY <3>1, <3>3 DEF ToldApart, l
  <2> QED BY <2>2, <2>3
<1>11. l < l + k
  BY <1>2, <1>5
<1> QED BY <1>4, <1>5, <1>7, <1>8, <1>9, <1>10, <1>11 DEF A, C, l

(* A line of a paragraph.                                                  *)
LEMMA KeptLine ==
  ASSUME NEW B, NEW ss, NEW bs, NEW ps, NEW start, NEW n, Kept(B, ss, bs, ps, start, n),
         NEW ws \in Line
  PROVE  Kept(B \o SentencesOf(ws, n), ss, bs, Append(ps, SentencesOf(ws, n)),
              IF ps = <<>> THEN n + 1 ELSE start, n + 1)
<1> DEFINE C == SentencesOf(ws, n)
           A == B \o C
           qs == Append(ps, C)
           first == IF ps = <<>> THEN n + 1 ELSE start
<1>1. /\ B \in Seq(Sentence) /\ ToldApart(B) /\ n \in Nat /\ start \in Nat
      /\ \A p \in 1 .. Len(B) : B[p].line \in 1 .. n
  BY DEF Kept
<1>2. PICK x \in Nat, y \in Nat, lo \in Nat :
           /\ Filed(B, ss, x, lo) /\ lo <= n + 1
           /\ BlocksKept(B, bs, x, y, lo, n) /\ ParaKept(B, bs, ps, start, y, lo, n)
  BY DEF Kept
<1>3. /\ C \in Seq(Sentence) /\ A \in Seq(Sentence) /\ Part(A, C, Len(B), Len(A))
      /\ Len(B) \in Nat /\ Len(B) < Len(A) /\ Len(A) \in Nat
      /\ \A p \in Len(B) + 1 .. Len(A) : A[p].line = n + 1
      /\ \A p \in 1 .. Len(A) : A[p].line \in 1 .. n + 1
      /\ ToldApart(A)
  <2>1. Len(A) \in Nat
    <3>1. C \in Seq(Sentence)
      BY <1>1, LineRead
    <3> HIDE DEF C
    <3> QED BY <1>1, <3>1, LongerText
  <2> HIDE DEF A
  <2> QED BY <1>1, <2>1, LineRead DEF A
<1> HIDE DEF C
<1>4. \A p \in 1 .. Len(B) : A[p] = B[p]
  BY <1>1, <1>3, LongerText
<1>5. Filed(A, ss, x, lo)
  BY <1>1, <1>2, <1>3, FiledStays
<1>6. BlocksKept(A, bs, x, y, lo, n + 1)
  <2>1. PICK c : Laid(B, bs, c, x, y)
    BY <1>2 DEF BlocksKept
  <2>2. Laid(A, bs, c, x, y)
    BY <1>1, <1>3, <2>1, LaidStays
  <2> HIDE DEF A
  <2>3. BlocksKept(A, bs, x, y, lo, n)
    BY <1>2, <2>2 DEF BlocksKept
  <2>4. n <= n + 1 /\ n + 1 \in Nat
    BY <1>1
  <2> QED BY <1>1, <2>3, <2>4, BlocksLater
<1>7. PICK d : Pieced(B, ps, d, y, Len(B))
  BY <1>2 DEF ParaKept
<1>8. Pieced(A, ps, d, y, Len(B))
  BY <1>1, <1>3, <1>7, PiecedStays
<1> HIDE DEF A
<1>9. \E e : Pieced(A, qs, e, y, Len(A))
  BY <1>3, <1>8, PiecedMore
<1>10. ps \in Seq(Seq(Sentence)) /\ IsCut(B, d, Len(ps), y, Len(B))
  BY <1>7 DEF Pieced
<1>11. first \in lo .. n + 1 /\ first \in Nat
  <2>1. CASE ps = <<>>
    BY <1>1, <1>2, <2>1
  <2>2. CASE ps # <<>>
    <3>1. start \in lo .. n
      BY <1>2, <2>2 DEF ParaKept
    <3> QED BY <1>1, <2>2, <3>1
  <2> QED BY <2>1, <2>2
<1>12. ASSUME NEW p \in y + 1 .. Len(A) PROVE A[p].line \in first .. n + 1
  <2>1. CASE p \in Len(B) + 1 .. Len(A)
    <3>1. A[p].line = n + 1
      BY <1>3, <2>1
    <3>2. n + 1 \in first .. n + 1
      <4> HIDE DEF first
      <4> QED BY <1>1, <1>11
    <3> QED BY <3>1, <3>2
  <2>2. CASE p \notin Len(B) + 1 .. Len(A)
    <3>1. p \in y + 1 .. Len(B)
      BY <1>2, <1>3, <2>2
    <3>2. ps # <<>>
      <4>1. ps = <<>> => Len(ps) = 0
        BY EmptySeq
      <4>2. Len(ps) = 0 => y = Len(B)
        BY <1>10 DEF IsCut
      <4> QED BY <1>2, <1>3, <3>1, <4>1, <4>2
    <3>3. B[p].line \in start .. n
      BY <1>2, <3>1, <3>2 DEF ParaKept
    <3>4. A[p] = B[p]
      <4>1. p \in 1 .. Len(B)
        BY <1>2, <1>3, <3>1
      <4> QED BY <1>4, <4>1
    <3> QED BY <1>1, <3>2, <3>3, <3>4
  <2> QED BY <2>1, <2>2
<1>13. ASSUME NEW k \in 1 .. Len(bs) PROVE bs[k].from <= first
  <2>1. CASE ps = <<>>
    <3>1. bs[k].from \in lo .. n
      BY <1>2 DEF BlocksKept, AllWithin, Within
    <3> QED BY <1>1, <2>1, <3>1
  <2>2. CASE ps # <<>>
    BY <1>2, <2>2 DEF ParaKept
  <2> QED BY <2>1, <2>2
<1> HIDE DEF first, qs
<1>14. ParaKept(A, bs, qs, first, y, lo, n + 1)
  BY <1>9, <1>11, <1>12, <1>13 DEF ParaKept
<1>15. n + 1 \in Nat /\ lo <= (n + 1) + 1
  BY <1>1, <1>2
<1>16. Kept(A, ss, bs, qs, first, n + 1)
  BY <1>2, <1>3, <1>5, <1>6, <1>11, <1>14, <1>15 DEF Kept
<1> QED BY <1>16 DEF A, C, qs, first

(* A paragraph of a docx file is a block.                                  *)
LEMMA KeptParagraph ==
  ASSUME NEW B, NEW ss, NEW bs, NEW start, NEW n, Kept(B, ss, bs, <<>>, start, n),
         NEW ws \in Line
  PROVE  Kept(B \o SentencesOf(ws, n), ss,
              Append(bs, [text |-> SentencesOf(ws, n), from |-> n + 1, to |-> n + 1]),
              <<>>, start, n + 1)
<1> DEFINE C == SentencesOf(ws, n)
           A == B \o C
           b == [text |-> C, from |-> n + 1, to |-> n + 1]
           m == n + 1
<1>1. /\ B \in Seq(Sentence) /\ ToldApart(B) /\ n \in Nat /\ start \in Nat
      /\ \A p \in 1 .. Len(B) : B[p].line \in 1 .. n
  BY DEF Kept
<1>2. PICK x \in Nat, y \in Nat, lo \in Nat :
           /\ Filed(B, ss, x, lo) /\ lo <= n + 1
           /\ BlocksKept(B, bs, x, y, lo, n) /\ ParaKept(B, bs, <<>>, start, y, lo, n)
  BY DEF Kept
<1>3. /\ C \in Seq(Sentence) /\ A \in Seq(Sentence) /\ Part(A, C, Len(B), Len(A))
      /\ Len(B) \in Nat /\ Len(B) < Len(A)
      /\ \A p \in Len(B) + 1 .. Len(A) : A[p].line = n + 1
      /\ \A p \in 1 .. Len(A) : A[p].line \in 1 .. n + 1
      /\ ToldApart(A)
  BY <1>1, LineRead
<1> HIDE DEF C
<1>4. m \in Nat /\ n <= m /\ lo <= m /\ m \in lo .. m /\ lo <= m + 1
  BY <1>1, <1>2
<1>5. b \in Block /\ b.text = C /\ b.from = m /\ b.to = m
  BY <1>3, <1>4 DEF Block
<1>6. Filed(A, ss, x, lo)
  BY <1>1, <1>2, <1>3, FiledStays
<1>7. y = Len(B)
  <2>1. PICK d : Pieced(B, <<>>, d, y, Len(B))
    BY <1>2 DEF ParaKept
  <2>2. IsCut(B, d, Len(<<>>), y, Len(B))
    BY <2>1 DEF Pieced
  <2>3. Len(<<>>) = 0
    OBVIOUS
  <2> QED BY <2>2, <2>3 DEF IsCut
<1>8. BlocksKept(A, bs, x, y, lo, n)
  <2>1. PICK c : Laid(B, bs, c, x, y)
    BY <1>2 DEF BlocksKept
  <2>2. Laid(A, bs, c, x, y)
    BY <1>1, <1>3, <2>1, LaidStays
  <2> HIDE DEF A
  <2> QED BY <1>2, <2>2 DEF BlocksKept
<1> HIDE DEF A, b, m
<1>9. Part(A, b.text, y, Len(A)) /\ y < Len(A)
  BY <1>3, <1>5, <1>7
<1>10. Cites(A, b, y, Len(A))
  <2> SUFFICES ASSUME NEW p \in Len(B) + 1 .. Len(A) PROVE A[p].line \in m .. m
    BY <1>5, <1>7 DEF Cites
  <2>1. A[p].line = m
    BY <1>3 DEF m
  <2> QED BY <1>4, <2>1
<1>11. Within(b, lo, m)
  BY <1>4, <1>5 DEF Within
<1>12. ASSUME NEW k \in 1 .. Len(bs) PROVE bs[k].from <= b.from
  <2>1. bs[k].from \in lo .. n
    BY <1>2 DEF BlocksKept, AllWithin, Within
  <2> QED BY <1>1, <1>2, <1>4, <1>5, <2>1
<1>13. BlocksKept(A, Append(bs, b), x, Len(A), lo, m)
  BY <1>1, <1>2, <1>3, <1>4, <1>5, <1>8, <1>9, <1>10, <1>11, <1>12, BlocksMore
<1>14. ParaKept(A, Append(bs, b), <<>>, start, Len(A), lo, m)
  BY <1>3, NoPara
<1>15. Len(A) \in Nat
  BY <1>3, LenProperties
<1>16. \A p \in 1 .. Len(A) : A[p].line \in 1 .. m
  BY <1>3 DEF m
<1>17. Kept(A, ss, Append(bs, b), <<>>, start, m)
  BY <1>1, <1>2, <1>3, <1>4, <1>6, <1>13, <1>14, <1>15, <1>16 DEF Kept
<1> QED BY <1>17 DEF A, C, b, m

-----------------------------------------------------------------------------
(***************************************************************************)
(* ChunksTellTheText, of any text and any chunks.                          *)
(***************************************************************************)
LinesCited(out) ==
  \A i, j \in DOMAIN out :
    /\ \A n \in DOMAIN Fresh(out[i]) : Fresh(out[i])[n].line \in out[i].from .. out[i].to
    /\ i < j /\ out[i].title # out[j].title => out[i].to < out[j].from

TailsCarried(out) ==
  \A i \in DOMAIN out :
    out[i].carried > 0 =>
      /\ i > 1 /\ out[i - 1].title = out[i].title
      /\ IsSuffix(Key(Carried(out[i])), Key(out[i - 1].text))
      /\ out[i].carried = 1 \/ Words(Carried(out[i])) <= Overlap

SizesKept(out) ==
  \A i \in DOMAIN out : Words(Fresh(out[i])) <= Ceiling \/ Len(Fresh(out[i])) = 1

Rejoins(out) ==
  \A i \in DOMAIN out \ {1} :
    out[i].carried > 0
    /\ (\A n \in 2 .. out[i].carried :
          SubSeq(out[i - 1].text, Len(out[i - 1].text) - out[i].carried + 1,
                 Len(out[i - 1].text))[n].sep = Blank) =>
      Key(ConcatDedup(out[i - 1].text, out[i].text)) = Key(out[i - 1].text) \o Key(Fresh(out[i]))

TellText(out, B, done) ==
  /\ done => FlattenSeq([i \in DOMAIN out |-> Key(Fresh(out[i]))]) = Key(B)
  /\ LinesCited(out) /\ TailsCarried(out) /\ SizesKept(out) /\ Rejoins(out)

LEMMA ToldIsTellText ==
  /\ ChunksTellTheText  <=> TellText(chunks, body, parsed)
  /\ ChunksTellTheText' <=> TellText(chunks', body', parsed')
<1>1. /\ CitesItsLines  <=> LinesCited(chunks)
      /\ CitesItsLines' <=> LinesCited(chunks')
  BY DEF CitesItsLines, LinesCited
<1>2. /\ CarriesTheTail  <=> TailsCarried(chunks)
      /\ CarriesTheTail' <=> TailsCarried(chunks')
  BY DEF CarriesTheTail, TailsCarried
<1>3. /\ WithinCeiling  <=> SizesKept(chunks)
      /\ WithinCeiling' <=> SizesKept(chunks')
  BY DEF WithinCeiling, SizesKept
<1>4. /\ RejoinsWithoutRepeating  <=> Rejoins(chunks)
      /\ RejoinsWithoutRepeating' <=> Rejoins(chunks')
  BY DEF RejoinsWithoutRepeating, Rejoins, Blank
<1>5. /\ NothingLost  <=> (parsed => FlattenSeq([i \in DOMAIN chunks |-> Key(Fresh(chunks[i]))]) = Key(body))
      /\ NothingLost' <=> (parsed' => FlattenSeq([i \in DOMAIN chunks' |-> Key(Fresh(chunks'[i]))]) = Key(body'))
  BY DEF NothingLost
<1> QED BY <1>1, <1>2, <1>3, <1>4, <1>5 DEF ChunksTellTheText, TellText

LEMMA TellingTells ==
  ASSUME NEW B \in Seq(Sentence), ToldApart(B), NEW W, Sums(B, W), NEW out \in Seq(Chunked),
         Telling(B, W, out, Len(B)), NEW done
  PROVE  TellText(out, B, done)
<1>1. PICK o : Run(B, W, out, o, 0, Len(B))
  BY DEF Telling
<1>2. Carries(out) /\ SameTitle(out) /\ InTurn(out)
  BY DEF Telling
<1>3. DOMAIN out = 1 .. Len(out) /\ Len(out) \in Nat
  BY LenProperties
<1>4. \A i \in 1 .. Len(out) : IsPiece(B, W, out[i], o[i - 1], o[i])
  BY <1>1 DEF Run
<1>5. ASSUME NEW i \in 1 .. Len(out)
      PROVE  /\ \A n \in DOMAIN Fresh(out[i]) : Fresh(out[i])[n].line \in out[i].from .. out[i].to
             /\ Words(Fresh(out[i])) <= Ceiling \/ Len(Fresh(out[i])) = 1
             /\ out[i].carried = 1 \/ out[i].carried = 0 \/ Words(Carried(out[i])) <= Overlap
  <2> DEFINE x == out[i]
             q == o[i - 1]
             z == o[i]
  <2>1. IsPiece(B, W, x, q, z)
    BY <1>4
  <2> HIDE DEF x, q, z
  <2>2. /\ \A n \in DOMAIN Fresh(x) : Fresh(x)[n].line \in x.from .. x.to
        /\ Words(Fresh(x)) <= Ceiling \/ Len(Fresh(x)) = 1
        /\ x.carried = 1 \/ x.carried = 0 \/ Words(Carried(x)) <= Overlap
    BY <2>1, PieceTells
  <2> QED BY <2>2 DEF x
<1>6. LinesCited(out)
  <2>1. ASSUME NEW i \in 1 .. Len(out), NEW j \in 1 .. Len(out), i < j, out[i].title # out[j].title
        PROVE  out[i].to < out[j].from
    BY <1>2, <2>1 DEF InTurn
  <2> QED BY <1>3, <1>5, <2>1 DEF LinesCited
<1>7. SizesKept(out)
  BY <1>3, <1>5 DEF SizesKept
<1>8. ASSUME NEW i \in 1 .. Len(out), out[i].carried > 0
      PROVE  /\ i > 1 /\ out[i].carried <= Len(out[i - 1].text)
             /\ \E p, q, z \in Nat : /\ Part(B, out[i - 1].text, p, q)
                                    /\ IsPiece(B, W, out[i], q, z)
  <2>1. i > 1 /\ out[i].carried <= Len(out[i - 1].text)
    BY <1>2, <1>8 DEF Carries
  <2> QED BY <1>1, <2>1, Neighbours
<1>9. TailsCarried(out)
  <2> SUFFICES ASSUME NEW i \in 1 .. Len(out), out[i].carried > 0
               PROVE  /\ i > 1 /\ out[i - 1].title = out[i].title
                      /\ IsSuffix(Key(Carried(out[i])), Key(out[i - 1].text))
                      /\ out[i].carried = 1 \/ Words(Carried(out[i])) <= Overlap
    BY <1>3 DEF TailsCarried
  <2>1. i > 1 /\ out[i].carried <= Len(out[i - 1].text)
    BY <1>8
  <2>2. PICK p \in Nat, q \in Nat, z \in Nat :
             Part(B, out[i - 1].text, p, q) /\ IsPiece(B, W, out[i], q, z)
    BY <1>8
  <2>3. IsSuffix(Key(Carried(out[i])), Key(out[i - 1].text))
    BY <2>1, <2>2, TailIsCarried
  <2>4. out[i - 1].title = out[i].title
    BY <1>2 DEF SameTitle
  <2>5. out[i].carried # 0
    OBVIOUS
  <2> QED BY <1>5, <2>1, <2>3, <2>4, <2>5
<1>10. Rejoins(out)
  <2> SUFFICES ASSUME NEW i \in 1 .. Len(out), out[i].carried > 0,
                      \A n \in 2 .. out[i].carried :
                        SubSeq(out[i - 1].text, Len(out[i - 1].text) - out[i].carried + 1,
                               Len(out[i - 1].text))[n].sep = Blank
               PROVE  Key(ConcatDedup(out[i - 1].text, out[i].text))
                        = Key(out[i - 1].text) \o Key(Fresh(out[i]))
    BY <1>3 DEF Rejoins
  <2>1. out[i].carried <= Len(out[i - 1].text)
    BY <1>8
  <2>2. PICK p \in Nat, q \in Nat, z \in Nat :
             Part(B, out[i - 1].text, p, q) /\ IsPiece(B, W, out[i], q, z)
    BY <1>8
  <2> DEFINE a == out[i - 1].text
             x == out[i]
  <2>3. Follows(B, W, a, x) /\ OneParagraph(a, x.carried)
    BY <2>1, <2>2 DEF Follows, OneParagraph
  <2> HIDE DEF a, x
  <2>4. Key(ConcatDedup(a, x.text)) = Key(a) \o Key(Fresh(x))
    BY <2>3, Rejoined
  <2> QED BY <2>4 DEF a, x
<1>11. FlattenSeq([i \in DOMAIN out |-> Key(Fresh(out[i]))]) = Key(B)
  BY <1>1, RunTellsAll
<1> QED BY <1>6, <1>7, <1>9, <1>10, <1>11 DEF TellText

LEMMA NothingTold ==
  ASSUME NEW B, NEW done, done => B = <<>>
  PROVE  TellText(<<>>, B, done)
<1>1. DOMAIN <<>> = {} /\ Len(<<>>) = 0
  OBVIOUS
<1>2. LinesCited(<<>>) /\ TailsCarried(<<>>) /\ SizesKept(<<>>) /\ Rejoins(<<>>)
  BY <1>1 DEF LinesCited, TailsCarried, SizesKept, Rejoins
<1>3. [i \in DOMAIN <<>> |-> Key(Fresh(<<>>[i]))] = <<>>
  BY <1>1
<1>4. FlattenSeq(<<>>) = <<>>
  BY <1>1 DEF FlattenSeq
<1>5. Key(<<>>) = <<>>
  BY <1>1 DEF Key
<1> QED BY <1>2, <1>3, <1>4, <1>5 DEF TellText

-----------------------------------------------------------------------------
(***************************************************************************)
(* The file.                                                               *)
(***************************************************************************)
Unread ==
  /\ chunks = <<>> /\ Kept(body, sections, blocks, para, paraStart, nr)
  /\ sec \in Title \cup {NoTitle} /\ sub \in Title \cup {NoTitle}
  /\ format = "docx" => para = <<>>
  /\ ~ IsProse => body = <<>>

TextInv == ChunksTellTheText /\ (~ parsed => Unread)

LEMMA ReadingOn ==
  ASSUME ~ parsed, chunks = <<>>, chunks' = chunks, parsed' = parsed, Unread'
  PROVE  TextInv'
<1>1. TellText(chunks', body', parsed')
  <2>1. chunks' = <<>> /\ (parsed' => body' = <<>>)
    OBVIOUS
  <2> QED BY <2>1, NothingTold
<1> QED BY <1>1, ToldIsTellText DEF TextInv

LEMMA TextFirst == Init => TextInv
<1> SUFFICES ASSUME Init PROVE TextInv
  OBVIOUS
<1>1. /\ nr = 0 /\ sec = NoTitle /\ sub = NoTitle /\ para = <<>> /\ paraStart = 0 /\ blocks = <<>>
      /\ sections = <<>> /\ body = <<>> /\ chunks = <<>> /\ parsed = FALSE
  BY DEF Init, ProseInit
<1>2. Unread
  BY <1>1, KeptFirst DEF Unread
<1>3. TellText(chunks, body, parsed)
  BY <1>1, NothingTold
<1> QED BY <1>2, <1>3, ToldIsTellText DEF TextInv

LEMMA Flushing ==
  /\ FlushedPara(nr) = FlushP(blocks, para, paraStart, nr)
  /\ \A bs : FlushedSection(bs) = FlushS(sections, bs, sec, sub)
  /\ \A ws : Sentences(ws) = SentencesOf(ws, nr)
BY DEF FlushedPara, FlushP, FlushedSection, FlushS, Sentences, SentencesOf

LEMMA HeadingKeeps ==
  ASSUME TextInv, IsProse, NEW level, NEW title \in Title, ReadHeading(level, title)
  PROVE  TextInv'
<1>1. /\ ~ parsed /\ nr' = nr + 1 /\ format' = format /\ chunks' = chunks /\ parsed' = parsed
      /\ sections' = FlushedSection(FlushedPara(nr)) /\ blocks' = <<>> /\ para' = <<>>
      /\ paraStart' = 0 /\ body' = body
  BY DEF ReadHeading, Reading
<1>2. Unread
  BY <1>1 DEF TextInv
<1>3. sec' \in Title \cup {NoTitle} /\ sub' \in Title \cup {NoTitle}
  BY <1>2 DEF ReadHeading, Folded, Unread
<1>4. sections' = FlushS(sections, FlushP(blocks, para, paraStart, nr), sec, sub)
  BY <1>1, Flushing
<1>5. Kept(body', sections', blocks', para', paraStart', nr')
  <2>1. Kept(body, sections', <<>>, <<>>, 0, nr + 1)
    BY <1>2, <1>4, KeptHeading DEF Unread
  <2> QED BY <1>1, <2>1
<1>6. Unread'
  BY <1>1, <1>2, <1>3, <1>5 DEF Unread, IsProse
<1> QED BY <1>1, <1>2, <1>6, ReadingOn DEF Unread

LEMMA BlankKeeps ==
  ASSUME TextInv, IsProse, ReadBlank
  PROVE  TextInv'
<1>1. /\ ~ parsed /\ nr' = nr + 1 /\ format' = format /\ chunks' = chunks /\ parsed' = parsed
      /\ blocks' = FlushedPara(nr) /\ para' = <<>> /\ paraStart' = 0
      /\ sec' = sec /\ sub' = sub /\ sections' = sections /\ body' = body
  BY DEF ReadBlank, Reading, heading
<1>2. Unread
  BY <1>1 DEF TextInv
<1>3. Kept(body', sections', blocks', para', paraStart', nr')
  <2>1. Kept(body, sections, FlushP(blocks, para, paraStart, nr), <<>>, 0, nr + 1)
    BY <1>2, KeptBlank DEF Unread
  <2>2. blocks' = FlushP(blocks, para, paraStart, nr)
    BY <1>1, Flushing
  <2> QED BY <1>1, <2>1, <2>2
<1>4. Unread'
  BY <1>1, <1>2, <1>3 DEF Unread, IsProse
<1> QED BY <1>1, <1>2, <1>4, ReadingOn DEF Unread

LEMMA LineKeeps ==
  ASSUME TextInv, IsProse, NEW ws \in Line, ReadLine(ws)
  PROVE  TextInv'
<1>1. /\ ~ parsed /\ nr' = nr + 1 /\ format' = format /\ chunks' = chunks /\ parsed' = parsed
      /\ format # "docx" /\ body' = body \o Sentences(ws) /\ para' = Append(para, Sentences(ws))
      /\ paraStart' = (IF para = <<>> THEN nr + 1 ELSE paraStart)
      /\ sec' = sec /\ sub' = sub /\ blocks' = blocks /\ sections' = sections
  BY DEF ReadLine, Reading, heading
<1>2. Unread
  BY <1>1 DEF TextInv
<1>3. Kept(body', sections', blocks', para', paraStart', nr')
  <2>1. Kept(body \o SentencesOf(ws, nr), sections, blocks, Append(para, SentencesOf(ws, nr)),
             IF para = <<>> THEN nr + 1 ELSE paraStart, nr + 1)
    BY <1>2, KeptLine DEF Unread
  <2>2. Sentences(ws) = SentencesOf(ws, nr)
    BY Flushing
  <2> QED BY <1>1, <2>1, <2>2
<1>4. Unread'
  BY <1>1, <1>2, <1>3 DEF Unread, IsProse
<1> QED BY <1>1, <1>2, <1>4, ReadingOn DEF Unread

LEMMA ParagraphKeeps ==
  ASSUME TextInv, IsProse, NEW ws \in Line, ReadParagraph(ws)
  PROVE  TextInv'
<1>1. /\ ~ parsed /\ nr' = nr + 1 /\ format' = format /\ chunks' = chunks /\ parsed' = parsed
      /\ format = "docx" /\ body' = body \o Sentences(ws)
      /\ blocks' = Append(blocks, [text |-> Sentences(ws), from |-> nr + 1, to |-> nr + 1])
      /\ sec' = sec /\ sub' = sub /\ para' = para /\ paraStart' = paraStart /\ sections' = sections
  BY DEF ReadParagraph, Reading, heading
<1>2. Unread
  BY <1>1 DEF TextInv
<1>3. para = <<>>
  BY <1>1, <1>2 DEF Unread
<1>4. Kept(body', sections', blocks', para', paraStart', nr')
  <2>1. Kept(body, sections, blocks, <<>>, paraStart, nr)
    BY <1>2, <1>3 DEF Unread
  <2>2. Kept(body \o SentencesOf(ws, nr), sections,
             Append(blocks, [text |-> SentencesOf(ws, nr), from |-> nr + 1, to |-> nr + 1]),
             <<>>, paraStart, nr + 1)
    BY <2>1, KeptParagraph
  <2>3. Sentences(ws) = SentencesOf(ws, nr)
    BY Flushing
  <2> QED BY <1>1, <1>3, <2>2, <2>3
<1>5. Unread'
  BY <1>1, <1>2, <1>3, <1>4 DEF Unread, IsProse
<1> QED BY <1>1, <1>2, <1>5, ReadingOn DEF Unread

LEMMA EndTells ==
  ASSUME Target <= Ceiling, TextInv, EndOfText
  PROVE  TextInv'
<1>1. /\ ~ parsed /\ parsed' = TRUE /\ sections' = FlushedSection(FlushedPara(nr))
      /\ chunks' = EmitSections(sections') /\ body' = body
  BY DEF EndOfText
<1>2. Unread
  BY <1>1 DEF TextInv
<1> DEFINE ss == FlushS(sections, FlushP(blocks, para, paraStart, nr), sec, sub)
<1>3. sections' = ss
  BY <1>1, Flushing
<1>4. Filed(body, ss, Len(body), nr + 1)
  BY <1>2, AllFiled DEF Unread
<1> HIDE DEF ss
<1>5. PICK sc : SectionsLaid(body, ss, sc, Len(body))
  BY <1>4 DEF Filed
<1>6. body \in Seq(Sentence) /\ ToldApart(body)
  BY <1>2 DEF Unread, Kept
<1>7. PICK W : Sums(body, W)
  BY <1>6, WordsSteps
<1>8. Telling(body, W, EmitSections(ss), Len(body)) /\ EmitSections(ss) \in Seq(Chunked)
  BY <1>5, <1>6, <1>7, EmitTells DEF Issued
<1>9. TellText(EmitSections(ss), body, TRUE)
  BY <1>6, <1>7, <1>8, TellingTells
<1>10. TellText(chunks', body', parsed')
  BY <1>1, <1>3, <1>9
<1> QED BY <1>1, <1>10, ToldIsTellText DEF TextInv

LEMMA SkipTells ==
  ASSUME TextInv, SkipFile
  PROVE  TextInv'
<1>1. ~ parsed /\ parsed' = TRUE /\ ~ IsProse /\ chunks' = chunks /\ body' = body
  BY DEF SkipFile
<1>2. chunks' = <<>> /\ body' = <<>>
  BY <1>1 DEF TextInv, Unread
<1>3. TellText(chunks', body', parsed')
  BY <1>2, NothingTold
<1> QED BY <1>1, <1>3, ToldIsTellText DEF TextInv

LEMMA TextUntouched ==
  ASSUME TextInv, UNCHANGED proseVars
  PROVE  TextInv'
<1>1. /\ format' = format /\ nr' = nr /\ sec' = sec /\ sub' = sub /\ para' = para
      /\ paraStart' = paraStart /\ blocks' = blocks /\ sections' = sections /\ body' = body
      /\ chunks' = chunks /\ parsed' = parsed
  BY DEF proseVars, heading, open
<1>2. ChunksTellTheText'
  BY <1>1, ToldIsTellText DEF TextInv
<1>3. Unread => Unread'
  BY <1>1 DEF Unread, IsProse
<1> QED BY <1>1, <1>2, <1>3 DEF TextInv

LEMMA TextStep ==
  ASSUME Target <= Ceiling, TextInv, [Next]_fileVars
  PROVE  TextInv'
<1>1. CASE ReadSheet
  BY <1>1, TextUntouched DEF ReadSheet
<1>2. CASE ReadProse
  <2>1. IsProse /\ ProseNext
    BY <1>2 DEF ReadProse
  <2>2. ASSUME NEW level \in 1 .. 2, NEW title \in Title, ReadHeading(level, title) PROVE TextInv'
    BY <2>1, <2>2, HeadingKeeps
  <2>3. CASE ReadBlank
    BY <2>1, <2>3, BlankKeeps
  <2>4. ASSUME NEW ws \in Line, ReadLine(ws) PROVE TextInv'
    BY <2>1, <2>4, LineKeeps
  <2>5. ASSUME NEW ws \in Line, ReadParagraph(ws) PROVE TextInv'
    BY <2>1, <2>5, ParagraphKeeps
  <2>6. CASE EndOfText
    BY <2>6, EndTells
  <2> QED BY <2>1, <2>2, <2>3, <2>4, <2>5, <2>6 DEF ProseNext
<1>3. CASE SkipFile
  BY <1>3, SkipTells
<1>4. CASE UNCHANGED fileVars
  <2>1. UNCHANGED proseVars
    BY <1>4 DEF fileVars
  <2> QED BY <2>1, TextUntouched
<1> QED BY <1>1, <1>2, <1>3, <1>4 DEF Next

(* The chunks of a file are its text (ingester.py, _chunk_blocks and what  *)
(* it is called with): nothing is lost or doubled, the lines a chunk cites *)
(* are those of its sentences, a chunk keeps to the ceiling unless it is   *)
(* one long sentence, what it carries over is the end of the chunk before  *)
(* it, and retrieval joins the two without repeating it; for every text,   *)
(* every format and every target that is not above the ceiling.            *)
THEOREM ChunksTell ==
  ASSUME Target <= Ceiling
  PROVE  Spec => []ChunksTellTheText
<1>1. TextInv /\ [Next]_fileVars => TextInv'
  BY TextStep
<1>2. TextInv => ChunksTellTheText
  BY DEF TextInv
<1> QED BY <1>1, <1>2, TextFirst, PTL DEF Spec

-----------------------------------------------------------------------------
(***************************************************************************)
(* Sheets.  Where the values of a record come from; the records of rows up *)
(* to hi, of tables up to t, each once and in the order of the sheet.      *)
(***************************************************************************)
Cells == UNION {[D -> Nat] : D \in SUBSET Col}
Entry == [table : Nat, row : Nat, from : Cells]

Listed(out, hi, t) ==
  /\ out \in Seq(Entry)
  /\ \A i \in 1 .. Len(out) :
       /\ out[i].row \in 1 .. hi /\ out[i].table \in 0 .. t
       /\ \A c \in DOMAIN out[i].from : out[i].from[c] \in 0 .. out[i].row
  /\ \A i, j \in 1 .. Len(out) :
       i < j => out[i].row < out[j].row /\ out[i].table <= out[j].table

AsItStands(r) == [c \in Filled(r) |-> r]
UnderLabels(h, r) == [c \in Filled(h) |-> IF c \in Filled(r) THEN r ELSE 0]

WithRaw(out, r) == Emitted(out, r, AsItStands(r))
WithKeyed(out, r) == Emitted(out, r, UnderLabels(KeyedHeader, r))

RawRows(q) == FoldLeft(LAMBDA out, r : Emitted(out, r, [c \in Filled(r) |-> r]), records, q)
KeyedRows(q) ==
  FoldLeft(LAMBDA out, r :
             Emitted(out, r, [c \in Filled(KeyedHeader) |-> IF c \in Filled(r) THEN r ELSE 0]),
           records, q)
RowsBelow(q, t) == FoldLeft(LAMBDA s, r : EmitRow(s, r, t), [carry |-> 0, out |-> records], q)

RawIter(q) ==
  CHOOSE iter : iter = [s \in SUBSET (DOMAIN q) |->
    IF s = {} THEN records ELSE WithRaw(iter[s \ {Max(s)}], q[Max(s)])]

(* Rows as they stand, one after the other. *)
LEMMA RawSteps ==
  ASSUME NEW q \in Seq(Nat), NEW V, records \in V,
         \A v \in V : \A i \in 1 .. Len(q) : WithRaw(v, q[i]) \in V
  PROVE  \E g \in [0 .. Len(q) -> V] :
           /\ g[0] = records
           /\ \A i \in 1 .. Len(q) : g[i] = WithRaw(g[i - 1], q[i])
           /\ g[Len(q)] = RawRows(q)
<1> DEFINE n == Len(q)
           S == 1 .. n
           step == [xv \in S \X V |-> WithRaw(xv[2], q[xv[1]])]
           h == RawIter(q)
           g == [i \in 0 .. n |-> h[1 .. i]]
<1>1. n \in Nat /\ DOMAIN q = S
  BY LenProperties
<1>2. RawRows(q) = h[S]
  BY <1>1 DEF RawRows, WithRaw, AsItStands, RawIter, FoldLeft, MapThenFoldSet
<1>3. step \in [S \X V -> V]
  OBVIOUS
<1> HIDE DEF n
<1>4. PICK f : IsLeftFold(f, n, V, records, step)
  <2> HIDE DEF step
  <2> QED BY <1>1, <1>3, LeftFold
<1>5. f = [s \in SUBSET S |-> IF s = {} THEN records ELSE WithRaw(f[s \ {Max(s)}], q[Max(s)])]
  <2>1. ASSUME NEW T \in SUBSET S, T # {}
        PROVE  f[T] = WithRaw(f[T \ {LastOf(T)}], q[LastOf(T)])
    <3> DEFINE x == LastOf(T)
               v == f[T \ {x}]
    <3>1. x \in S /\ v \in V /\ f[T] = step[<<x, v>>]
      <4> HIDE DEF step
      <4> QED BY <1>4, <2>1 DEF IsLeftFold
    <3> HIDE DEF x, v
    <3>2. f[T] = WithRaw(v, q[x])
      BY <3>1
    <3> QED BY <3>2 DEF x, v
  <2>2. f \in [SUBSET S -> V] /\ f[{}] = records
    BY <1>4 DEF IsLeftFold
  <2> HIDE DEF S, step
  <2> QED BY <2>1, <2>2 DEF LastOf, Max
<1>6. h = [s \in SUBSET S |-> IF s = {} THEN records ELSE WithRaw(h[s \ {Max(s)}], q[Max(s)])]
  <2> HIDE DEF S, step
  <2> QED BY <1>1, <1>5 DEF RawIter
<1> HIDE DEF h
<1>7. g[0] = records
  <2>1. 1 .. 0 = {} /\ {} \in SUBSET S /\ 0 \in 0 .. n
    BY <1>1
  <2> QED BY <1>6, <2>1
<1>8. ASSUME NEW i \in 1 .. n PROVE g[i] = WithRaw(g[i - 1], q[i])
  <2>1. i \in 0 .. n /\ i - 1 \in 0 .. n
    BY <1>1
  <2>2. 1 .. i \in SUBSET S /\ 1 .. i # {} /\ Max(1 .. i) = i /\ (1 .. i) \ {i} = 1 .. i - 1
    BY <1>1, UpToPlace
  <2> HIDE DEF S
  <2>3. h[1 .. i] = WithRaw(h[1 .. i - 1], q[i])
    BY <1>6, <2>2
  <2> QED BY <2>1, <2>3
<1>9. g \in [0 .. n -> V]
  <2>1. \A i \in 1 .. n : g[i - 1] \in V => g[i] \in V
    <3> HIDE DEF g
    <3> QED BY <1>1, <1>8 DEF n
  <2>2. g[0] \in V
    BY <1>7
  <2> HIDE DEF g
  <2>3. \A i \in 0 .. n : g[i] \in V
    BY <1>1, <2>1, <2>2, Along
  <2> QED BY <2>3 DEF g
<1>10. g[n] = RawRows(q)
  BY <1>1, <1>2
<1>11. \A i \in 1 .. n : g[i] = WithRaw(g[i - 1], q[i])
  BY <1>8
<1> HIDE DEF g
<1> QED BY <1>7, <1>9, <1>10, <1>11 DEF n

KeyedIter(q) ==
  CHOOSE iter : iter = [s \in SUBSET (DOMAIN q) |->
    IF s = {} THEN records ELSE WithKeyed(iter[s \ {Max(s)}], q[Max(s)])]

(* Rows under the labels of a plain table. *)
LEMMA KeyedSteps ==
  ASSUME NEW q \in Seq(Nat), NEW V, records \in V,
         \A v \in V : \A i \in 1 .. Len(q) : WithKeyed(v, q[i]) \in V
  PROVE  \E g \in [0 .. Len(q) -> V] :
           /\ g[0] = records
           /\ \A i \in 1 .. Len(q) : g[i] = WithKeyed(g[i - 1], q[i])
           /\ g[Len(q)] = KeyedRows(q)
<1> DEFINE n == Len(q)
           S == 1 .. n
           step == [xv \in S \X V |-> WithKeyed(xv[2], q[xv[1]])]
           h == KeyedIter(q)
           g == [i \in 0 .. n |-> h[1 .. i]]
<1>1. n \in Nat /\ DOMAIN q = S
  BY LenProperties
<1>2. KeyedRows(q) = h[S]
  BY <1>1 DEF KeyedRows, WithKeyed, UnderLabels, KeyedIter, FoldLeft, MapThenFoldSet
<1>3. step \in [S \X V -> V]
  OBVIOUS
<1> HIDE DEF n
<1>4. PICK f : IsLeftFold(f, n, V, records, step)
  <2> HIDE DEF step
  <2> QED BY <1>1, <1>3, LeftFold
<1>5. f = [s \in SUBSET S |-> IF s = {} THEN records ELSE WithKeyed(f[s \ {Max(s)}], q[Max(s)])]
  <2>1. ASSUME NEW T \in SUBSET S, T # {}
        PROVE  f[T] = WithKeyed(f[T \ {LastOf(T)}], q[LastOf(T)])
    <3> DEFINE x == LastOf(T)
               v == f[T \ {x}]
    <3>1. x \in S /\ v \in V /\ f[T] = step[<<x, v>>]
      <4> HIDE DEF step
      <4> QED BY <1>4, <2>1 DEF IsLeftFold
    <3> HIDE DEF x, v
    <3>2. f[T] = WithKeyed(v, q[x])
      BY <3>1
    <3> QED BY <3>2 DEF x, v
  <2>2. f \in [SUBSET S -> V] /\ f[{}] = records
    BY <1>4 DEF IsLeftFold
  <2> HIDE DEF S, step
  <2> QED BY <2>1, <2>2 DEF LastOf, Max
<1>6. h = [s \in SUBSET S |-> IF s = {} THEN records ELSE WithKeyed(h[s \ {Max(s)}], q[Max(s)])]
  <2> HIDE DEF S, step
  <2> QED BY <1>1, <1>5 DEF KeyedIter
<1> HIDE DEF h
<1>7. g[0] = records
  <2>1. 1 .. 0 = {} /\ {} \in SUBSET S /\ 0 \in 0 .. n
    BY <1>1
  <2> QED BY <1>6, <2>1
<1>8. ASSUME NEW i \in 1 .. n PROVE g[i] = WithKeyed(g[i - 1], q[i])
  <2>1. i \in 0 .. n /\ i - 1 \in 0 .. n
    BY <1>1
  <2>2. 1 .. i \in SUBSET S /\ 1 .. i # {} /\ Max(1 .. i) = i /\ (1 .. i) \ {i} = 1 .. i - 1
    BY <1>1, UpToPlace
  <2> HIDE DEF S
  <2>3. h[1 .. i] = WithKeyed(h[1 .. i - 1], q[i])
    BY <1>6, <2>2
  <2> QED BY <2>1, <2>3
<1>9. g \in [0 .. n -> V]
  <2>1. \A i \in 1 .. n : g[i - 1] \in V => g[i] \in V
    <3> HIDE DEF g
    <3> QED BY <1>1, <1>8 DEF n
  <2>2. g[0] \in V
    BY <1>7
  <2> HIDE DEF g
  <2>3. \A i \in 0 .. n : g[i] \in V
    BY <1>1, <2>1, <2>2, Along
  <2> QED BY <2>3 DEF g
<1>10. g[n] = KeyedRows(q)
  BY <1>1, <1>2
<1>11. \A i \in 1 .. n : g[i] = WithKeyed(g[i - 1], q[i])
  BY <1>8
<1> HIDE DEF g
<1> QED BY <1>7, <1>9, <1>10, <1>11 DEF n

RowIter(q, t) ==
  CHOOSE iter : iter = [s \in SUBSET (DOMAIN q) |->
    IF s = {} THEN [carry |-> 0, out |-> records] ELSE EmitRow(iter[s \ {Max(s)}], q[Max(s)], t)]

(* Rows below a header. *)
LEMMA RowSteps ==
  ASSUME NEW q \in Seq(Nat), NEW t, NEW V, [carry |-> 0, out |-> records] \in V,
         \A v \in V : \A i \in 1 .. Len(q) : EmitRow(v, q[i], t) \in V
  PROVE  \E g \in [0 .. Len(q) -> V] :
           /\ g[0] = [carry |-> 0, out |-> records]
           /\ \A i \in 1 .. Len(q) : g[i] = EmitRow(g[i - 1], q[i], t)
           /\ g[Len(q)] = RowsBelow(q, t)
<1> DEFINE n == Len(q)
           S == 1 .. n
           step == [xv \in S \X V |-> EmitRow(xv[2], q[xv[1]], t)]
           h == RowIter(q, t)
           g == [i \in 0 .. n |-> h[1 .. i]]
<1>1. n \in Nat /\ DOMAIN q = S
  BY LenProperties
<1>2. RowsBelow(q, t) = h[S]
  BY <1>1 DEF RowsBelow, RowIter, FoldLeft, MapThenFoldSet
<1>3. step \in [S \X V -> V]
  OBVIOUS
<1> HIDE DEF n
<1>4. PICK f : IsLeftFold(f, n, V, [carry |-> 0, out |-> records], step)
  <2> HIDE DEF step
  <2> QED BY <1>1, <1>3, LeftFold
<1>5. f = [s \in SUBSET S |-> IF s = {} THEN [carry |-> 0, out |-> records] ELSE EmitRow(f[s \ {Max(s)}], q[Max(s)], t)]
  <2>1. ASSUME NEW T \in SUBSET S, T # {}
        PROVE  f[T] = EmitRow(f[T \ {LastOf(T)}], q[LastOf(T)], t)
    <3> DEFINE x == LastOf(T)
               v == f[T \ {x}]
    <3>1. x \in S /\ v \in V /\ f[T] = step[<<x, v>>]
      <4> HIDE DEF step
      <4> QED BY <1>4, <2>1 DEF IsLeftFold
    <3> HIDE DEF x, v
    <3>2. f[T] = EmitRow(v, q[x], t)
      BY <3>1
    <3> QED BY <3>2 DEF x, v
  <2>2. f \in [SUBSET S -> V] /\ f[{}] = [carry |-> 0, out |-> records]
    BY <1>4 DEF IsLeftFold
  <2> HIDE DEF S, step
  <2> QED BY <2>1, <2>2 DEF LastOf, Max
<1>6. h = [s \in SUBSET S |-> IF s = {} THEN [carry |-> 0, out |-> records] ELSE EmitRow(h[s \ {Max(s)}], q[Max(s)], t)]
  <2> HIDE DEF S, step
  <2> QED BY <1>1, <1>5 DEF RowIter
<1> HIDE DEF h
<1>7. g[0] = [carry |-> 0, out |-> records]
  <2>1. 1 .. 0 = {} /\ {} \in SUBSET S /\ 0 \in 0 .. n
    BY <1>1
  <2> QED BY <1>6, <2>1
<1>8. ASSUME NEW i \in 1 .. n PROVE g[i] = EmitRow(g[i - 1], q[i], t)
  <2>1. i \in 0 .. n /\ i - 1 \in 0 .. n
    BY <1>1
  <2>2. 1 .. i \in SUBSET S /\ 1 .. i # {} /\ Max(1 .. i) = i /\ (1 .. i) \ {i} = 1 .. i - 1
    BY <1>1, UpToPlace
  <2> HIDE DEF S
  <2>3. h[1 .. i] = EmitRow(h[1 .. i - 1], q[i], t)
    BY <1>6, <2>2
  <2> QED BY <2>1, <2>3
<1>9. g \in [0 .. n -> V]
  <2>1. \A i \in 1 .. n : g[i - 1] \in V => g[i] \in V
    <3> HIDE DEF g
    <3> QED BY <1>1, <1>8 DEF n
  <2>2. g[0] \in V
    BY <1>7
  <2> HIDE DEF g
  <2>3. \A i \in 0 .. n : g[i] \in V
    BY <1>1, <2>1, <2>2, Along
  <2> QED BY <2>3 DEF g
<1>10. g[n] = RowsBelow(q, t)
  BY <1>1, <1>2
<1>11. \A i \in 1 .. n : g[i] = EmitRow(g[i - 1], q[i], t)
  BY <1>8
<1> HIDE DEF g
<1> QED BY <1>7, <1>9, <1>10, <1>11 DEF n

-----------------------------------------------------------------------------
LEMMA ListedLater ==
  ASSUME NEW out, NEW hi \in Nat, NEW t \in Int, Listed(out, hi, t),
         NEW k \in Nat, hi <= k, NEW u \in Int, t <= u
  PROVE  Listed(out, k, u)
<1>1. ASSUME NEW i \in 1 .. Len(out) PROVE out[i].row \in 1 .. k /\ out[i].table \in 0 .. u
  <2>1. out[i].row \in 1 .. hi /\ out[i].table \in 0 .. t
    BY DEF Listed
  <2> QED BY <2>1
<1> QED BY <1>1 DEF Listed

(* One more record.                                                        *)
LEMMA RecordIs ==
  ASSUME tnum \in Nat, NEW r \in Nat, NEW f \in Cells
  PROVE  /\ Record(r, f) \in Entry
         /\ Record(r, f).row = r /\ Record(r, f).table = tnum /\ Record(r, f).from = f
BY DEF Record, Entry

LEMMA EmittedKeeps ==
  ASSUME NEW out, NEW hi \in Nat, NEW t \in Int, Listed(out, hi, t), tnum \in Nat, t <= tnum,
         NEW r \in Nat, hi < r, NEW f \in Cells, \A c \in DOMAIN f : f[c] \in 0 .. r
  PROVE  Listed(Emitted(out, r, f), r, tnum)
<1> DEFINE x == Record(r, f)
           l == Len(out)
           more == Append(out, x)
<1>1. x \in Entry /\ x.row = r /\ x.table = tnum /\ x.from = f
  BY RecordIs
<1> HIDE DEF x
<1>2. Emitted(out, r, f) = out \/ Emitted(out, r, f) = more
  BY DEF Emitted, x
<1>3. Listed(out, r, tnum)
  BY ListedLater
<1>4. out \in Seq(Entry) /\ l \in Nat
  BY LenProperties DEF Listed
<1>5. /\ more \in Seq(Entry) /\ Len(more) = l + 1 /\ more[l + 1] = x
      /\ \A i \in 1 .. l : more[i] = out[i]
  BY <1>1, <1>4, AppendProperties
<1>6. \A i \in 1 .. l + 1 : i \in 1 .. l \/ i = l + 1
  BY <1>4
<1> HIDE DEF more
<1>7. ASSUME NEW i \in 1 .. l PROVE out[i].row < r /\ out[i].table <= tnum
  <2>1. out[i].row \in 1 .. hi /\ out[i].table \in 0 .. t
    BY DEF Listed
  <2> QED BY <2>1
<1>8. ASSUME NEW i \in 1 .. l + 1
      PROVE  /\ more[i].row \in 1 .. r /\ more[i].table \in 0 .. tnum
             /\ \A c \in DOMAIN more[i].from : more[i].from[c] \in 0 .. more[i].row
  <2>1. CASE i \in 1 .. l
    BY <1>3, <1>5, <2>1 DEF Listed
  <2>2. CASE i = l + 1
    <3>1. r \in 1 .. r /\ tnum \in 0 .. tnum
      OBVIOUS
    <3> QED BY <1>1, <1>5, <2>2, <3>1
  <2> QED BY <1>6, <2>1, <2>2
<1>9. ASSUME NEW i \in 1 .. l + 1, NEW j \in 1 .. l + 1, i < j
      PROVE  more[i].row < more[j].row /\ more[i].table <= more[j].table
  <2>1. i \in 1 .. l
    BY <1>4, <1>9
  <2>2. CASE j \in 1 .. l
    BY <1>5, <1>9, <2>1, <2>2 DEF Listed
  <2>3. CASE j = l + 1
    BY <1>1, <1>5, <1>7, <2>1, <2>3
  <2> QED BY <1>6, <2>2, <2>3
<1>10. Listed(more, r, tnum)
  BY <1>5, <1>8, <1>9 DEF Listed
<1> QED BY <1>2, <1>3, <1>10

(* Where a value comes from.                                               *)
Typed == sheet \in Seq(RowKind) /\ (sheet # <<>> => sheet[1].up = {})

LEMMA MergeTopIs ==
  ASSUME Typed, NEW r \in 1 .. Rows, NEW c
  PROVE  MergeTop(r, c) \in 1 .. r
<1> DEFINE T == {t \in 1 .. r : c \notin sheet[t].up}
<1>1. Rows \in Nat /\ r \in Nat /\ 1 \in 1 .. r /\ sheet[1].up = {}
  <2>1. Rows \in Nat
    BY LenProperties DEF Typed, Rows
  <2>2. sheet # <<>>
    BY <2>1, EmptySeq DEF Rows
  <2> QED BY <2>1, <2>2 DEF Typed
<1>2. 1 \in T /\ T \in SUBSET (0 .. r)
  BY <1>1
<1>3. PICK t \in T : \A y \in T : t >= y
  <2> HIDE DEF T
  <2> QED BY <1>1, <1>2, LargestMember
<1>4. ASSUME NEW q \in t + 1 .. r PROVE c \in sheet[q].up
  <2>1. q \in 1 .. r /\ ~ t >= q
    BY <1>1, <1>2
  <2> QED BY <1>3, <2>1
<1>5. t \in 1 .. r /\ c \notin sheet[t].up /\ \A q \in t + 1 .. r : c \in sheet[q].up
  BY <1>4
<1> QED BY <1>5 DEF MergeTop

LEMMA SourceIs ==
  ASSUME Typed, NEW r \in 1 .. Rows, NEW c, NEW c1, NEW c2
  PROVE  Source(r, c, c1, c2) \in 0 .. r
<1>1. Rows \in Nat /\ r \in 0 .. r /\ 0 \in 0 .. r
  BY LenProperties DEF Typed, Rows
<1>2. MergeTop(r, c) \in 0 .. r
  BY <1>1, MergeTopIs
<1> QED BY <1>1, <1>2 DEF Source

-----------------------------------------------------------------------------
(***************************************************************************)
(* One row below a header, of a table t.                                   *)
(***************************************************************************)
TableOK(t) ==
  /\ DOMAIN t.keys \subseteq Col /\ t.carries \subseteq DOMAIN t.keys
  /\ t.carries # {} => \E c : t.carries = {c}

Own(r, t)     == [c \in DOMAIN t.keys |-> Source(r, c, t.c1, t.c2)]
From(s, r, t) == [c \in DOMAIN t.keys |-> IF c \in t.carries /\ Own(r, t)[c] = 0 THEN s.carry
                                          ELSE Own(r, t)[c]]
Held(r, t)    == \E c \in t.carries : Own(r, t)[c] # 0
IsKept(r, t)  == \/ IF t.anchored THEN RowIsData(r, t.anchors) ELSE HasToken(r)
                 \/ t.carries \cap Filled(r) # {}
NextCarry(s, r, t) == IF Held(r, t) THEN Own(r, t)[Min(t.carries)] ELSE s.carry
NextOut(s, r, t)   == IF IsKept(r, t) THEN Emitted(s.out, r, From(s, r, t)) ELSE s.out

LEMMA EmitRowIs ==
  ASSUME NEW s, NEW r, NEW t
  PROVE  EmitRow(s, r, t) =
           IF BlankIn(r, t.c1, t.c2) THEN [s EXCEPT !.carry = 0]
           ELSE [carry |-> NextCarry(s, r, t), out |-> NextOut(s, r, t)]
<1>1. DOMAIN Own(r, t) = DOMAIN t.keys
  BY DEF Own
<1> QED BY <1>1 DEF EmitRow, AfterBlank, NextCarry, NextOut, Held, IsKept, From, Own

Emission == [carry : Nat, out : Seq(Entry)]

LEMMA EmitRowKeeps ==
  ASSUME Typed, tnum \in Nat, NEW t, TableOK(t), NEW r \in 1 .. Rows, NEW s \in Emission
  PROVE  /\ EmitRow(s, r, t) \in Emission
         /\ s.carry \in 0 .. r => EmitRow(s, r, t).carry \in 0 .. r
         /\ \A hi \in Nat, u \in Int :
              s.carry \in 0 .. r /\ Listed(s.out, hi, u) /\ u <= tnum /\ hi < r
                => Listed(EmitRow(s, r, t).out, r, tnum)
<1> DEFINE own == Own(r, t)
           f   == From(s, r, t)
<1>1. r \in Nat /\ s.carry \in Nat /\ s.out \in Seq(Entry)
  <2>1. Rows \in Nat
    BY LenProperties DEF Typed, Rows
  <2> QED BY <2>1 DEF Emission
<1>2. own \in [DOMAIN t.keys -> 0 .. r]
  BY SourceIs DEF Own
<1>3. f \in [DOMAIN t.keys -> Nat] /\ (s.carry \in 0 .. r => \A c \in DOMAIN f : f[c] \in 0 .. r)
  <2> HIDE DEF own
  <2>1. f = [c \in DOMAIN t.keys |-> IF c \in t.carries /\ own[c] = 0 THEN s.carry ELSE own[c]]
    BY DEF From, own
  <2> HIDE DEF f
  <2> QED BY <1>1, <1>2, <2>1
<1>4. f \in Cells
  BY <1>3 DEF Cells, TableOK
<1>5. NextCarry(s, r, t) \in Nat /\ (s.carry \in 0 .. r => NextCarry(s, r, t) \in 0 .. r)
  <2>1. CASE Held(r, t)
    <3>1. PICK c : t.carries = {c}
      BY <2>1 DEF Held, TableOK
    <3>2. Min({c}) = c
      BY DEF Min
    <3>3. own[c] \in 0 .. r
      BY <1>2, <3>1 DEF TableOK
    <3> QED BY <1>1, <2>1, <3>1, <3>2, <3>3 DEF NextCarry
  <2>2. CASE ~ Held(r, t)
    BY <1>1, <2>2 DEF NextCarry
  <2> QED BY <2>1, <2>2
<1> HIDE DEF own, f
<1>6. Emitted(s.out, r, f) \in Seq(Entry)
  <2>1. Record(r, f) \in Entry
    BY <1>1, <1>4, RecordIs
  <2> QED BY <1>1, <2>1, AppendProperties DEF Emitted
<1>7. NextOut(s, r, t) \in Seq(Entry)
  BY <1>1, <1>6 DEF NextOut, f
<1>8. EmitRow(s, r, t) \in Emission
  BY <1>1, <1>5, <1>7, EmitRowIs DEF Emission
<1>9. ASSUME s.carry \in 0 .. r PROVE EmitRow(s, r, t).carry \in 0 .. r
  <2>1. CASE BlankIn(r, t.c1, t.c2)
    <3>1. EmitRow(s, r, t).carry = 0 /\ 0 \in 0 .. r
      BY <1>1, <2>1, EmitRowIs DEF Emission
    <3> QED BY <3>1
  <2>2. CASE ~ BlankIn(r, t.c1, t.c2)
    BY <1>5, <1>9, <2>2, EmitRowIs
  <2> QED BY <2>1, <2>2
<1>10. ASSUME NEW hi \in Nat, NEW u \in Int, s.carry \in 0 .. r, Listed(s.out, hi, u),
              u <= tnum, hi < r
       PROVE  Listed(EmitRow(s, r, t).out, r, tnum)
  <2>1. Listed(Emitted(s.out, r, f), r, tnum)
    BY <1>1, <1>3, <1>4, <1>10, EmittedKeeps
  <2>2. Listed(s.out, r, tnum)
    BY <1>1, <1>10, ListedLater
  <2>3. EmitRow(s, r, t).out = s.out \/ EmitRow(s, r, t).out = Emitted(s.out, r, f)
    BY EmitRowIs DEF Emission, NextOut, f
  <2> QED BY <2>1, <2>2, <2>3
<1> QED BY <1>8, <1>9, <1>10

-----------------------------------------------------------------------------
(* The rows of a region without a header, and of a plain table.            *)
LEMMA RawTold ==
  ASSUME tnum \in Nat, NEW u \in Int, u <= tnum, NEW h \in Nat, NEW m \in Nat,
         Listed(records, h, u)
  PROVE  Listed(RawRows([i \in 1 .. m |-> h + i]), h + m, tnum)
<1> DEFINE q == [i \in 1 .. m |-> h + i]
           V == Seq(Entry)
<1>1. q \in Seq(Nat) /\ Len(q) = m /\ \A i \in 1 .. m : q[i] = h + i
  <2>1. q \in [1 .. m -> Nat]
    OBVIOUS
  <2> QED BY <2>1
<1> HIDE DEF q
<1>2. ASSUME NEW r \in Nat PROVE \E f \in Cells : (\A c \in DOMAIN f : f[c] \in 0 .. r) /\ \A v : WithRaw(v, r) = Emitted(v, r, f)
  <2> DEFINE f == AsItStands(r)
             D == Filled(r)
  <2>1. D \in SUBSET Col
    BY DEF Filled
  <2> HIDE DEF D
  <2>2. f \in [D -> Nat] /\ \A c \in DOMAIN f : f[c] \in 0 .. r
    BY DEF AsItStands, D
  <2> HIDE DEF f
  <2>3. f \in Cells
    BY <2>1, <2>2 DEF Cells
  <2> QED BY <2>2, <2>3 DEF WithRaw, f
<1>3. ASSUME NEW v \in V, NEW i \in 1 .. m PROVE WithRaw(v, q[i]) \in V
  <2>1. q[i] \in Nat
    BY <1>1
  <2>2. PICK f \in Cells : WithRaw(v, q[i]) = Emitted(v, q[i], f)
    BY <1>2, <2>1
  <2>3. Record(q[i], f) \in Entry
    BY <2>1, RecordIs
  <2> QED BY <2>2, <2>3, AppendProperties DEF Emitted
<1>4. records \in V
  BY DEF Listed
<1>5. PICK g \in [0 .. m -> V] :
           /\ g[0] = records
           /\ \A i \in 1 .. m : g[i] = WithRaw(g[i - 1], q[i])
           /\ g[m] = RawRows(q)
  <2> HIDE DEF V
  <2> QED BY <1>1, <1>3, <1>4, RawSteps
<1> DEFINE P == {i \in 0 .. m : Listed(g[i], h + i, tnum)}
<1>6. 0 \in P
  <2>1. 0 \in 0 .. m /\ h + 0 = h
    OBVIOUS
  <2>2. Listed(records, h, tnum)
    BY ListedLater
  <2> QED BY <1>5, <2>1, <2>2
<1>7. ASSUME NEW i \in 1 .. m, i - 1 \in P PROVE i \in P
  <2>1. Listed(g[i - 1], h + (i - 1), tnum) /\ i \in 0 .. m
    BY <1>7
  <2>2. h + i \in Nat /\ h + (i - 1) \in Nat /\ h + (i - 1) < h + i /\ tnum \in Int /\ tnum <= tnum
    OBVIOUS
  <2>3. PICK f \in Cells : /\ \A c \in DOMAIN f : f[c] \in 0 .. h + i
                          /\ \A v : WithRaw(v, h + i) = Emitted(v, h + i, f)
    BY <1>2, <2>2
  <2>4. Listed(Emitted(g[i - 1], h + i, f), h + i, tnum)
    BY <2>1, <2>2, <2>3, EmittedKeeps
  <2>5. g[i] = WithRaw(g[i - 1], h + i)
    BY <1>1, <1>5
  <2> QED BY <2>1, <2>3, <2>4, <2>5
<1> HIDE DEF P
<1>8. m \in P
  <2>1. \A i \in 0 .. m : i \in P
    BY <1>6, <1>7, UpTo
  <2> QED BY <2>1
<1> QED BY <1>5, <1>8 DEF P, q

LEMMA KeyedTold ==
  ASSUME tnum \in Nat, NEW u \in Int, u <= tnum, NEW h \in Nat, NEW m \in Nat,
         Listed(records, h, u)
  PROVE  Listed(KeyedRows([i \in 1 .. m |-> h + i]), h + m, tnum)
<1> DEFINE q == [i \in 1 .. m |-> h + i]
           V == Seq(Entry)
<1>1. q \in Seq(Nat) /\ Len(q) = m /\ \A i \in 1 .. m : q[i] = h + i
  <2>1. q \in [1 .. m -> Nat]
    OBVIOUS
  <2> QED BY <2>1
<1> HIDE DEF q
<1>2. ASSUME NEW r \in Nat PROVE \E f \in Cells : (\A c \in DOMAIN f : f[c] \in 0 .. r) /\ \A v : WithKeyed(v, r) = Emitted(v, r, f)
  <2> DEFINE k == KeyedHeader
             f == UnderLabels(k, r)
             D == Filled(k)
  <2> HIDE DEF k
  <2>1. D \in SUBSET Col
    BY DEF Filled
  <2> HIDE DEF D
  <2>2. f \in [D -> Nat] /\ \A c \in DOMAIN f : f[c] \in 0 .. r
    BY DEF UnderLabels, D
  <2> HIDE DEF f
  <2>3. f \in Cells
    BY <2>1, <2>2 DEF Cells
  <2> QED BY <2>2, <2>3 DEF WithKeyed, f, k
<1>3. ASSUME NEW v \in V, NEW i \in 1 .. m PROVE WithKeyed(v, q[i]) \in V
  <2>1. q[i] \in Nat
    BY <1>1
  <2>2. PICK f \in Cells : WithKeyed(v, q[i]) = Emitted(v, q[i], f)
    BY <1>2, <2>1
  <2>3. Record(q[i], f) \in Entry
    BY <2>1, RecordIs
  <2> QED BY <2>2, <2>3, AppendProperties DEF Emitted
<1>4. records \in V
  BY DEF Listed
<1>5. PICK g \in [0 .. m -> V] :
           /\ g[0] = records
           /\ \A i \in 1 .. m : g[i] = WithKeyed(g[i - 1], q[i])
           /\ g[m] = KeyedRows(q)
  <2> HIDE DEF V
  <2> QED BY <1>1, <1>3, <1>4, KeyedSteps
<1> DEFINE P == {i \in 0 .. m : Listed(g[i], h + i, tnum)}
<1>6. 0 \in P
  <2>1. 0 \in 0 .. m /\ h + 0 = h
    OBVIOUS
  <2>2. Listed(records, h, tnum)
    BY ListedLater
  <2> QED BY <1>5, <2>1, <2>2
<1>7. ASSUME NEW i \in 1 .. m, i - 1 \in P PROVE i \in P
  <2>1. Listed(g[i - 1], h + (i - 1), tnum) /\ i \in 0 .. m
    BY <1>7
  <2>2. h + i \in Nat /\ h + (i - 1) \in Nat /\ h + (i - 1) < h + i /\ tnum \in Int /\ tnum <= tnum
    OBVIOUS
  <2>3. PICK f \in Cells : /\ \A c \in DOMAIN f : f[c] \in 0 .. h + i
                          /\ \A v : WithKeyed(v, h + i) = Emitted(v, h + i, f)
    BY <1>2, <2>2
  <2>4. Listed(Emitted(g[i - 1], h + i, f), h + i, tnum)
    BY <2>1, <2>2, <2>3, EmittedKeeps
  <2>5. g[i] = WithKeyed(g[i - 1], h + i)
    BY <1>1, <1>5
  <2> QED BY <2>1, <2>3, <2>4, <2>5
<1> HIDE DEF P
<1>8. m \in P
  <2>1. \A i \in 0 .. m : i \in P
    BY <1>6, <1>7, UpTo
  <2> QED BY <2>1
<1> QED BY <1>5, <1>8 DEF P, q

(* The rows below a header.                                                *)
LEMMA BelowTold ==
  ASSUME Typed, tnum \in Nat, NEW u \in Int, u <= tnum, NEW h \in Nat, NEW m \in Nat,
         h + m <= Rows, Listed(records, h, u), NEW t, TableOK(t)
  PROVE  Listed(RowsBelow([i \in 1 .. m |-> h + i], t).out, h + m, tnum)
<1> DEFINE q == [i \in 1 .. m |-> h + i]
           V == Emission
           b == [carry |-> 0, out |-> records]
<1>0. Rows \in Nat
  BY LenProperties DEF Typed, Rows
<1>1. q \in Seq(Nat) /\ Len(q) = m /\ \A i \in 1 .. m : q[i] = h + i
  <2>1. q \in [1 .. m -> Nat]
    OBVIOUS
  <2> QED BY <2>1
<1> HIDE DEF q
<1>2. ASSUME NEW i \in 1 .. m PROVE h + i \in 1 .. Rows
  BY <1>0
<1>3. ASSUME NEW v \in V, NEW i \in 1 .. m PROVE EmitRow(v, q[i], t) \in V
  BY <1>1, <1>2, EmitRowKeeps
<1>4. b \in V /\ b.carry = 0 /\ b.out = records
  BY DEF Listed, Emission
<1>5. PICK g \in [0 .. m -> V] :
           /\ g[0] = b
           /\ \A i \in 1 .. m : g[i] = EmitRow(g[i - 1], q[i], t)
           /\ g[m] = RowsBelow(q, t)
  <2> HIDE DEF V
  <2>1. [carry |-> 0, out |-> records] \in V /\ \A v \in V : \A i \in 1 .. Len(q) : EmitRow(v, q[i], t) \in V
    BY <1>1, <1>3, <1>4
  <2>2. \E g \in [0 .. Len(q) -> V] :
           /\ g[0] = [carry |-> 0, out |-> records]
           /\ \A i \in 1 .. Len(q) : g[i] = EmitRow(g[i - 1], q[i], t)
           /\ g[Len(q)] = RowsBelow(q, t)
    BY <1>1, <2>1, RowSteps
  <2> QED BY <1>1, <2>2
<1> HIDE DEF b
<1> DEFINE P == {i \in 0 .. m : g[i].carry \in 0 .. h + i /\ Listed(g[i].out, h + i, tnum)}
<1>6. 0 \in P
  <2>1. 0 \in 0 .. m /\ h + 0 = h /\ 0 \in 0 .. h
    OBVIOUS
  <2>2. Listed(records, h, tnum)
    BY ListedLater
  <2> QED BY <1>4, <1>5, <2>1, <2>2
<1>7. ASSUME NEW i \in 1 .. m, i - 1 \in P PROVE i \in P
  <2> DEFINE s == g[i - 1]
  <2>1. s.carry \in 0 .. h + (i - 1) /\ Listed(s.out, h + (i - 1), tnum) /\ i \in 0 .. m
    BY <1>7
  <2>2. h + i \in Nat /\ h + (i - 1) \in Nat /\ h + (i - 1) < h + i /\ tnum \in Int /\ tnum <= tnum
    OBVIOUS
  <2>3. s \in Emission /\ g[i] = EmitRow(s, h + i, t)
    <3>1. i - 1 \in 0 .. m
      OBVIOUS
    <3> QED BY <1>1, <1>5, <3>1
  <2> HIDE DEF s
  <2>4. s.carry \in 0 .. h + i
    BY <2>1, <2>2
  <2>5. EmitRow(s, h + i, t).carry \in 0 .. h + i /\ Listed(EmitRow(s, h + i, t).out, h + i, tnum)
    BY <1>2, <2>1, <2>2, <2>3, <2>4, EmitRowKeeps
  <2> QED BY <2>1, <2>3, <2>5
<1> HIDE DEF P
<1>8. m \in P
  <2>1. \A i \in 0 .. m : i \in P
    BY <1>6, <1>7, UpTo
  <2> QED BY <2>1
<1> QED BY <1>5, <1>8 DEF P, q

-----------------------------------------------------------------------------
LEMMA MinIs ==
  ASSUME NEW S \in SUBSET Nat, S # {}
  PROVE  Min(S) \in S /\ \A x \in S : Min(S) <= x
BY LeastMember DEF Min

LEMMA MaxIs ==
  ASSUME NEW n \in Nat, NEW S \in SUBSET (0 .. n), S # {}
  PROVE  Max(S) \in S /\ \A x \in S : Max(S) >= x
BY LargestMember DEF Max

(* Which rows of a plain table are told: of those up to hi, the ones with a value under a label. *)
Tells(out, r) == \E i \in 1 .. Len(out) : out[i].row = r
ToldBelow(out, h, hi) ==
  \A r \in Nat : Tells(out, r) <=> r \in h + 1 .. hi /\ Filled(h) \cap Filled(r) # {}

LEMMA TellsOne ==
  ASSUME tnum \in Nat, NEW out \in Seq(Entry), NEW h \in Nat, NEW r \in Nat, h < r,
         ToldBelow(out, h, r - 1)
  PROVE  ToldBelow(Emitted(out, r, UnderLabels(h, r)), h, r)
<1> DEFINE f == UnderLabels(h, r)
           x == Record(r, f)
           l == Len(out)
           more == Append(out, x)
<1>1. x.row = r
  BY DEF Record
<1>2. l \in Nat
  BY LenProperties
<1> HIDE DEF x
<1>3. Len(more) = l + 1 /\ more[l + 1] = x /\ \A i \in 1 .. l : more[i] = out[i]
  BY <1>2
<1> HIDE DEF more
<1>4. Filled(h) \cap Filled(r) # {} <=> \E c \in DOMAIN f : f[c] # 0
  BY DEF UnderLabels
<1> HIDE DEF f
<1>5. Emitted(out, r, f) = IF Filled(h) \cap Filled(r) # {} THEN more ELSE out
  BY <1>4 DEF Emitted, more, x
<1>6. ASSUME NEW q \in Nat PROVE Tells(more, q) <=> Tells(out, q) \/ q = r
  <2>1. ASSUME Tells(more, q) PROVE Tells(out, q) \/ q = r
    <3>1. PICK i \in 1 .. l + 1 : more[i].row = q
      BY <1>3, <2>1 DEF Tells
    <3>2. i \in 1 .. l \/ i = l + 1
      BY <1>2
    <3> QED BY <1>1, <1>3, <3>1, <3>2 DEF Tells
  <2>2. ASSUME Tells(out, q) PROVE Tells(more, q)
    <3>1. PICK i \in 1 .. l : out[i].row = q
      BY <2>2 DEF Tells
    <3>2. i \in 1 .. l + 1
      BY <1>2
    <3> QED BY <1>3, <3>1, <3>2 DEF Tells
  <2>3. ASSUME q = r PROVE Tells(more, q)
    <3>1. l + 1 \in 1 .. l + 1
      BY <1>2
    <3> QED BY <1>1, <1>3, <2>3, <3>1 DEF Tells
  <2> QED BY <2>1, <2>2, <2>3
<1>7. \A q \in Nat : q \in h + 1 .. r <=> q \in h + 1 .. r - 1 \/ q = r
  OBVIOUS
<1>8. ~ r \in h + 1 .. r - 1
  OBVIOUS
<1> QED BY <1>5, <1>6, <1>7, <1>8 DEF ToldBelow, f

LEMMA KeyedExactly ==
  ASSUME tnum \in Nat, KeyedHeader \in Nat, NEW m \in Nat, records = <<>>
  PROVE  ToldBelow(KeyedRows([i \in 1 .. m |-> KeyedHeader + i]), KeyedHeader, KeyedHeader + m)
<1> DEFINE h == KeyedHeader
           q == [i \in 1 .. m |-> h + i]
           V == Seq(Entry)
<1>0. \A v, r : WithKeyed(v, r) = Emitted(v, r, UnderLabels(h, r))
  BY DEF WithKeyed
<1> HIDE DEF h
<1>1. q \in Seq(Nat) /\ Len(q) = m /\ \A i \in 1 .. m : q[i] = h + i
  <2>1. q \in [1 .. m -> Nat]
    BY DEF h
  <2> QED BY <2>1
<1> HIDE DEF q
<1>2. ASSUME NEW v \in V, NEW i \in 1 .. m PROVE WithKeyed(v, q[i]) \in V
  <2> DEFINE f == UnderLabels(h, q[i])
             D == Filled(h)
  <2>0. D \in SUBSET Col
    BY DEF Filled
  <2>1. D \in SUBSET Col /\ q[i] \in Nat
    BY <1>1, <2>0
  <2> HIDE DEF D
  <2>2. f \in [D -> Nat]
    BY <2>1 DEF UnderLabels, D
  <2> HIDE DEF f
  <2>3. f \in Cells
    BY <2>1, <2>2 DEF Cells
  <2>4. Record(q[i], f) \in Entry
    BY <2>1, <2>3, RecordIs
  <2> QED BY <1>0, <2>4, AppendProperties DEF Emitted, f
<1>3. records \in V
  OBVIOUS
<1>4. PICK g \in [0 .. m -> V] :
           /\ g[0] = records
           /\ \A i \in 1 .. m : g[i] = WithKeyed(g[i - 1], q[i])
           /\ g[m] = KeyedRows(q)
  <2> HIDE DEF V
  <2> QED BY <1>1, <1>2, <1>3, KeyedSteps
<1> DEFINE P == {i \in 0 .. m : ToldBelow(g[i], h, h + i)}
<1>5. 0 \in P
  <2>1. 0 \in 0 .. m /\ h + 0 = h /\ h + 1 .. h = {} /\ Len(<<>>) = 0 /\ 1 .. 0 = {}
    BY DEF h
  <2>2. ToldBelow(<<>>, h, h)
    BY <2>1 DEF ToldBelow, Tells
  <2> QED BY <1>4, <2>1, <2>2
<1>6. ASSUME NEW i \in 1 .. m, i - 1 \in P PROVE i \in P
  <2> DEFINE r == h + i
  <2>1. r \in Nat /\ h < r /\ r - 1 = h + (i - 1) /\ i \in 0 .. m /\ i - 1 \in 0 .. m /\ h \in Nat
    BY DEF h
  <2>2. g[i - 1] \in Seq(Entry) /\ ToldBelow(g[i - 1], h, r - 1)
    BY <1>4, <1>6, <2>1
  <2>3. g[i] = Emitted(g[i - 1], r, UnderLabels(h, r))
    BY <1>0, <1>1, <1>4
  <2> HIDE DEF r
  <2>4. ToldBelow(g[i], h, r)
    BY <2>1, <2>2, <2>3, TellsOne
  <2> QED BY <2>1, <2>4 DEF r
<1> HIDE DEF P
<1>7. m \in P
  <2>1. \A i \in 0 .. m : i \in P
    BY <1>5, <1>6, UpTo
  <2> QED BY <2>1
<1> QED BY <1>4, <1>7 DEF P, q, h

(* The header of a plain table. *)
LEMMA KeyedHeaderIs ==
  ASSUME Typed
  PROVE  /\ KeyedHeader \in 1 .. Rows + 1
         /\ format = "csv" => /\ \A q \in 1 .. KeyedHeader - 1 : Filled(q) = {}
                              /\ KeyedHeader <= Rows => Filled(KeyedHeader) # {}
<1> DEFINE F == {r \in 1 .. Rows : Filled(r) # {}}
           S == {Rows + 1} \cup F
<1>1. Rows \in Nat
  BY LenProperties DEF Typed, Rows
<1>2. S \in SUBSET Nat /\ S # {}
  BY <1>1
<1>3. Min(S) \in S /\ \A x \in S : Min(S) <= x
  <2> HIDE DEF S
  <2> QED BY <1>2, MinIs
<1>4. CASE format = "csv"
  <2> DEFINE h == Min(S)
  <2>1. KeyedHeader = h
    BY <1>4 DEF KeyedHeader
  <2> HIDE DEF h
  <2>2. h \in S /\ \A x \in S : h <= x
    BY <1>3 DEF h
  <2>3. h \in 1 .. Rows + 1 /\ (h <= Rows => Filled(h) # {})
    BY <1>1, <2>2
  <2>4. ASSUME NEW q \in 1 .. h - 1 PROVE Filled(q) = {}
    <3>1. q \in 1 .. Rows /\ ~ h <= q
      BY <1>1, <2>3
    <3> QED BY <2>2, <3>1
  <2> QED BY <2>1, <2>3, <2>4
<1>5. CASE format # "csv"
  BY <1>1, <1>5 DEF KeyedHeader
<1> QED BY <1>4, <1>5

-----------------------------------------------------------------------------
(***************************************************************************)
(* Where a region ends, and the rows that are told of it.                  *)
(***************************************************************************)
LEMMA AfterIs ==
  ASSUME ri \in Nat, NEW end \in Nat
  PROVE  After(end) \in {end + 1, ri + 1} /\ After(end) >= end + 1 /\ After(end) >= ri + 1
<1> DEFINE S == {end + 1, ri + 1}
<1>1. S \in SUBSET (0 .. end + ri + 1) /\ S # {} /\ end + ri + 1 \in Nat
  OBVIOUS
<1>2. Max(S) \in S /\ \A x \in S : Max(S) >= x
  <2> HIDE DEF S
  <2> QED BY <1>1, MaxIs
<1> QED BY <1>2 DEF After

LEMMA RegionEndIs ==
  ASSUME Rows \in Nat, NEW h \in Nat, h <= Rows, NEW c1, NEW c2
  PROVE  RegionEnd(h, c1, c2) \in h .. Rows
<1> DEFINE B == {q \in h + 1 .. Rows : Boundary(q, c1, c2)}
           S == {Rows} \cup {r - 1 : r \in B}
<1>1. S \in SUBSET (h .. Rows) /\ S \in SUBSET Nat /\ S # {}
  OBVIOUS
<1>2. Min(S) \in S
  <2> HIDE DEF S
  <2> QED BY <1>1, MinIs
<1>3. RegionEnd(h, c1, c2) = Min(S)
  BY DEF RegionEnd
<1> HIDE DEF S
<1> QED BY <1>1, <1>2, <1>3

LEMMA LastDataRowIs ==
  ASSUME NEW h \in Nat, NEW end \in Nat, h <= end, NEW anchors
  PROVE  LastDataRow(anchors, h, end) \in h .. end
<1> DEFINE data  == {r \in h + 1 .. end : RowIsData(r, anchors)}
           token == {r \in h + 1 .. end : HasToken(r)}
           S == {h} \cup IF data # {} THEN data ELSE token
<1>1. S \in SUBSET (h .. end) /\ S \in SUBSET (0 .. end) /\ S # {}
  OBVIOUS
<1>2. Max(S) \in S
  <2> HIDE DEF S
  <2> QED BY <1>1, MaxIs
<1>3. LastDataRow(anchors, h, end) = Max(S)
  BY DEF LastDataRow
<1> HIDE DEF S
<1> QED BY <1>1, <1>2, <1>3

LEMMA CarryColsAre ==
  ASSUME NEW keys, DOMAIN keys \in SUBSET Col, NumCols \in Nat, NEW h, NEW end
  PROVE  /\ CarryCols(keys, h, end) \subseteq DOMAIN keys
         /\ CarryCols(keys, h, end) # {} => \E c : CarryCols(keys, h, end) = {c}
<1> DEFINE D == DOMAIN keys
           first == Min(D)
<1>1. CarryCols(keys, h, end) = {} \/ (CarryCols(keys, h, end) = {first} /\ Cardinality(D) >= 2)
  BY DEF CarryCols, Count
<1>2. ASSUME Cardinality(D) >= 2 PROVE first \in D
  <2>1. D # {}
    BY <1>2, FS_EmptySet
  <2>2. D \in SUBSET Nat
    BY DEF Col
  <2> HIDE DEF D
  <2> QED BY <2>1, <2>2, MinIs
<1> HIDE DEF first, D
<1> QED BY <1>1, <1>2 DEF D

LEMMA EmitRowsTold ==
  ASSUME Typed, tnum \in Nat, NumCols \in Nat, NEW u \in Int, u <= tnum,
         NEW keys, DOMAIN keys \in SUBSET Col, NEW c1, NEW c2,
         NEW h \in Nat, NEW end \in Nat, h <= end, end <= Rows, NEW single \in BOOLEAN,
         Listed(records, h, u)
  PROVE  Listed(EmitRows(keys, c1, c2, h, end, single), end, tnum)
<1> DEFINE anchors == Anchors(keys)
           last    == LastDataRow(anchors, h, end)
           carries == IF single THEN CarryCols(keys, h, last) ELSE {}
           t == [keys |-> keys, c1 |-> c1, c2 |-> c2, anchors |-> anchors, carries  |-> carries,
                 anchored |-> \E r \in h + 1 .. last : RowIsData(r, anchors)]
           q == [i \in 1 .. last - h |-> h + i]
<1>1. EmitRows(keys, c1, c2, h, end, single) = RowsBelow(q, t).out
  BY DEF EmitRows, RowsBelow
<1>2. TableOK(t)
  <2>1. t.keys = keys /\ t.carries = carries
    OBVIOUS
  <2> HIDE DEF t
  <2>2. carries \subseteq DOMAIN keys /\ (carries # {} => \E c : carries = {c})
    BY CarryColsAre
  <2> HIDE DEF carries
  <2> QED BY <2>1, <2>2 DEF TableOK
<1> HIDE DEF t
<1>3. last \in h .. end
  BY LastDataRowIs
<1> HIDE DEF last
<1>4. Rows \in Nat
  BY LenProperties DEF Typed, Rows
<1> DEFINE m == last - h
<1>5. m \in Nat /\ h + m = last /\ h + m <= Rows /\ last \in Nat
  BY <1>3, <1>4
<1> HIDE DEF m
<1>6. Listed(RowsBelow([i \in 1 .. m |-> h + i], t).out, h + m, tnum)
  BY <1>2, <1>5, BelowTold
<1>7. Listed(RowsBelow(q, t).out, last, tnum)
  BY <1>5, <1>6 DEF m
<1> QED BY <1>1, <1>3, <1>5, <1>7, ListedLater

-----------------------------------------------------------------------------
(* The best row by its score is one of the rows that were scored.          *)
LEMMA ShareIs ==
  ASSUME NumCols \in Nat, Parts \in Nat, NEW r, Filled(r) # {}, NEW S \in SUBSET Filled(r)
  PROVE  Share(S, r) \in Int
<1>1. IsFiniteSet(Col)
  BY FS_Interval DEF Col
<1>2. Filled(r) \in SUBSET Col
  BY DEF Filled
<1>3. IsFiniteSet(Filled(r)) /\ IsFiniteSet(S)
  BY <1>1, <1>2, FS_Subset
<1> DEFINE a == Cardinality(S)
           b == Cardinality(Filled(r))
<1>4. a \in Nat /\ b \in Nat /\ b # 0
  BY <1>3, FS_CardinalityType, FS_EmptySet
<1>5. Share(S, r) = (Parts * a) \div b
  BY DEF Share, Count
<1> HIDE DEF a, b
<1> DEFINE c == Parts * a
<1>6. c \in Int /\ b \in Nat \ {0}
  BY <1>4
<1> HIDE DEF c
<1>7. c \div b \in Int
  BY <1>6
<1> QED BY <1>5, <1>7 DEF c

LEMMA HeaderScoreIs ==
  ASSUME NumCols \in Nat, Parts \in Nat, NEW r, Filled(r) # {}, NEW density
  PROVE  HeaderScore(r, density) \in Int
<1> DEFINE a == Share({c \in Filled(r) : Value(r, c) # "num"}, r)
           b == Share({c \in Filled(r) : Value(r, c) # "note"}, r)
           d == Distinct(r, r + 1)
           e == Distinct(r, r - 1)
           f == Share({c \in Filled(r) : IsBold(r, c)}, r)
           g == IF 10 * Count(Filled(r)) >= 6 * density THEN 20 * Parts ELSE 0
<1>1. a \in Int /\ b \in Int /\ f \in Int
  BY ShareIs
<1>2. d \in Int
  BY ShareIs DEF Distinct
<1>3. e \in Int
  BY ShareIs DEF Distinct
<1>4. g \in Int
  OBVIOUS
<1>5. HeaderScore(r, density) = 20 * a + 10 * b + 15 * d + 8 * e + 5 * f + g
  BY DEF HeaderScore
<1> HIDE DEF a, b, d, e, f, g
<1> QED BY <1>1, <1>2, <1>3, <1>4, <1>5

LEMMA DetectHeaderIs ==
  ASSUME NumCols \in Nat, Parts \in Nat, ScanRows \in Nat, Rows \in Nat,
         NEW top \in 1 .. Rows, Filled(top) # {}
  PROVE  DetectHeader(top) \in top .. Rows /\ Filled(DetectHeader(top)) # {}
<1> DEFINE E == {top + ScanRows, Rows}
           stop == Min(E)
           S == {q \in top .. stop : Filled(q) # {}}
           density == Density(top)
           v == [r \in S |-> HeaderScore(r, density)]
<1>1. stop \in {top + ScanRows, Rows} /\ stop <= Rows
  <2>1. E \in SUBSET Nat /\ E # {}
    OBVIOUS
  <2>2. Min(E) \in E /\ \A x \in E : Min(E) <= x
    <3> HIDE DEF E
    <3> QED BY <2>1, MinIs
  <2> QED BY <2>2
<1> HIDE DEF stop
<1>2. stop \in top .. Rows /\ top \in Nat
  BY <1>1
<1>3. IsFiniteSet(S)
  <2>1. IsFiniteSet(top .. stop) /\ S \in SUBSET (top .. stop)
    BY <1>2, FS_Interval
  <2> QED BY <2>1, FS_Subset
<1>4. top \in S /\ S \in SUBSET (top .. Rows) /\ S \in SUBSET Nat
  BY <1>2
<1> HIDE DEF density
<1>5. Numbered(v, S)
  <2>1. \A r \in S : v[r] \in Int
    BY HeaderScoreIs
  <2> HIDE DEF v
  <2> QED BY <1>4, <2>1 DEF Numbered
<1>6. DOMAIN v = S /\ Scores(top) = v
  BY DEF Scores, density, stop
<1>7. \A q \in S : Filled(q) # {}
  OBVIOUS
<1> HIDE DEF S, v
<1>8. PICK i \in S : IsFirstBest(v, S, i)
  BY <1>3, <1>4, <1>5, FirstOfGreatest
<1> DEFINE T == {r \in S : \A q \in S : v[q] <= v[r]}
<1>9. i \in T
  BY <1>8 DEF IsFirstBest
<1>10. Min(T) \in T
  <2>1. T \in SUBSET Nat /\ T # {}
    BY <1>4, <1>9
  <2> HIDE DEF T
  <2> QED BY <2>1, MinIs
<1>11. DetectHeader(top) = Min(T)
  BY <1>6 DEF DetectHeader
<1>12. Min(T) \in S
  BY <1>10
<1> QED BY <1>4, <1>7, <1>11, <1>12

-----------------------------------------------------------------------------
(* One region: its rows are told, and the driver is past it.               *)
Passed(end) == Listed(records', end, tnum) /\ ri' = After(end) /\ end \in Nat /\ end <= Rows

LEMMA HeaderlessTold ==
  ASSUME Typed, tnum \in Nat, ri \in 1 .. Rows, Listed(records, ri - 1, tnum - 1),
         NEW end \in ri .. Rows, EmitHeaderless(ri, end)
  PROVE  Passed(end)
<1> DEFINE h == ri - 1
           m == end - ri + 1
           p == [i \in 1 .. m |-> ri + i - 1]
           q == [i \in 1 .. m |-> h + i]
<1>1. Rows \in Nat
  BY LenProperties DEF Typed, Rows
<1>2. h \in Nat /\ m \in Nat /\ h + m = end /\ end \in Nat
  BY <1>1
<1>3. p = q
  BY <1>1
<1>4. records' = RawRows(p) /\ ri' = After(end)
  BY DEF EmitHeaderless, RawRows
<1> HIDE DEF h, m, p
<1>5. Listed(records, h, tnum - 1) /\ tnum - 1 \in Int /\ tnum - 1 <= tnum
  BY DEF h
<1>6. Listed(RawRows(q), h + m, tnum)
  BY <1>2, <1>5, RawTold
<1> HIDE DEF q
<1> QED BY <1>1, <1>2, <1>3, <1>4, <1>6 DEF Passed

LEMMA OverIs ==
  ASSUME NEW f, NEW g
  PROVE  DOMAIN Over(f, g) = DOMAIN f \cup DOMAIN g
BY DEF Over

LEMMA SingleTold ==
  ASSUME Typed, SheetAssumption, tnum \in Nat, ri \in 1 .. Rows, Filled(ri) # {},
         DOMAIN prevSingle \in SUBSET Col, Listed(records, ri - 1, tnum - 1), EmitSingle(ri)
  PROVE  /\ \E end \in ri .. Rows : Passed(end)
         /\ DOMAIN prevSingle' \in SUBSET Col /\ prevMulti' = prevMulti
<1> DEFINE h   == DetectHeader(ri)
           c1  == Min(Filled(h))
           c2  == Max(Filled(h))
           end == RegionEnd(h, c1, c2)
           own   == Labels(h, Filled(h))
           extra == Reused(own, c2, h, end)
           keys  == Over(own, [c \in extra |-> prevSingle[c]])
           wide  == Max({c2} \cup extra)
<1>1. Rows \in Nat /\ NumCols \in Nat /\ Parts \in Nat /\ ScanRows \in Nat
  BY LenProperties DEF Typed, Rows, SheetAssumption
<1>2. IF Headerless(h, c1, c2, end) THEN EmitHeaderless(ri, end)
      ELSE /\ records' = EmitRows(keys, c1, wide, h, end, TRUE)
           /\ prevSingle' = keys /\ ri' = After(end) /\ prevMulti' = prevMulti
  BY DEF EmitSingle
<1>3. DOMAIN own \in SUBSET Col /\ extra \subseteq DOMAIN prevSingle
  <2>1. DOMAIN own = Filled(h)
    BY DEF Labels
  <2>2. Filled(h) \in SUBSET Col
    BY DEF Filled
  <2>3. extra \subseteq DOMAIN prevSingle
    BY DEF Reused
  <2> QED BY <2>1, <2>2, <2>3
<1>4. DOMAIN keys \in SUBSET Col
  <2>1. DOMAIN keys = DOMAIN own \cup extra
    BY OverIs
  <2> HIDE DEF keys, own, extra
  <2> QED BY <1>3, <2>1
<1> HIDE DEF own, extra, keys, wide
<1>5. h \in ri .. Rows
  BY <1>1, DetectHeaderIs
<1> HIDE DEF h
<1>6. h \in Nat /\ h <= Rows /\ ri - 1 <= h /\ ri - 1 \in Nat
  BY <1>1, <1>5
<1> HIDE DEF c1, c2
<1>7. end \in h .. Rows
  BY <1>1, <1>6, RegionEndIs
<1> HIDE DEF end
<1>8. end \in ri .. Rows /\ end \in Nat /\ h <= end /\ end <= Rows
  BY <1>1, <1>5, <1>6, <1>7
<1>9. CASE Headerless(h, c1, c2, end)
  <2>1. Passed(end)
    BY <1>2, <1>8, <1>9, HeaderlessTold
  <2>2. prevSingle' = prevSingle /\ prevMulti' = prevMulti
    BY <1>2, <1>9 DEF EmitHeaderless
  <2> QED BY <1>8, <2>1, <2>2
<1>10. CASE ~ Headerless(h, c1, c2, end)
  <2>1. tnum - 1 \in Int /\ tnum - 1 <= tnum
    OBVIOUS
  <2>2. Listed(records, h, tnum - 1)
    BY <1>6, <2>1, ListedLater
  <2>3. Listed(EmitRows(keys, c1, wide, h, end, TRUE), end, tnum)
    BY <1>1, <1>4, <1>6, <1>8, <2>1, <2>2, EmitRowsTold
  <2>4. Passed(end)
    BY <1>2, <1>8, <1>10, <2>3 DEF Passed
  <2> QED BY <1>2, <1>4, <1>8, <1>10, <2>4
<1> QED BY <1>9, <1>10

-----------------------------------------------------------------------------
(* Headers of several rows.                                                *)
IsHeader(x) ==
  \E k, a, b : x = [keys |-> k, c1 |-> a, c2 |-> b] /\ DOMAIN k \in SUBSET Col /\ a \in Col

LEMMA WithGroupIs ==
  ASSUME NumCols \in Nat, NEW x, IsHeader(x), NEW bottom, NEW end
  PROVE  IsHeader(WithGroup(x, bottom, end))
<1>1. PICK k, a, b : x = [keys |-> k, c1 |-> a, c2 |-> b] /\ DOMAIN k \in SUBSET Col /\ a \in Col
  BY DEF IsHeader
<1>2. x.keys = k /\ x.c1 = a
  BY <1>1
<1> DEFINE S == {a} \cup {c \in 1 .. a - 1 : \A d \in c .. a - 1 : Absorbed(d, bottom, end)}
           left == Min(S)
           new == Over([c \in {left} |-> "group"], k)
<1>3. S \in SUBSET Col /\ S # {} /\ Col \in SUBSET Nat
  BY <1>1 DEF Col
<1>4. left \in Col
  <2> HIDE DEF S
  <2> QED BY <1>3, MinIs
<1>5. DOMAIN new \in SUBSET Col
  <2> DEFINE g == [c \in {left} |-> "group"]
  <2>0. DOMAIN g = {left} /\ new = Over(g, k)
    OBVIOUS
  <2> HIDE DEF g, new
  <2>1. DOMAIN new = {left} \cup DOMAIN k
    BY <2>0, OverIs
  <2> QED BY <1>1, <1>4, <2>1
<1>6. WithGroup(x, bottom, end) =
        IF left = a \/ left \in DOMAIN k THEN x ELSE [x EXCEPT !.keys = new, !.c1 = left]
  BY <1>2 DEF WithGroup
<1> HIDE DEF new, left, S
<1>7. [x EXCEPT !.keys = new, !.c1 = left] = [keys |-> new, c1 |-> left, c2 |-> b]
  <2> DEFINE y == [keys |-> k, c1 |-> a, c2 |-> b]
  <2>1. [y EXCEPT !.keys = new] = [keys |-> new, c1 |-> a, c2 |-> b]
    OBVIOUS
  <2>2. [y EXCEPT !.keys = new, !.c1 = left] = [[y EXCEPT !.keys = new] EXCEPT !.c1 = left]
    OBVIOUS
  <2>3. [[keys |-> new, c1 |-> a, c2 |-> b] EXCEPT !.c1 = left] = [keys |-> new, c1 |-> left, c2 |-> b]
    OBVIOUS
  <2> HIDE DEF y
  <2> QED BY <1>1, <2>1, <2>2, <2>3 DEF y
<1> QED BY <1>4, <1>5, <1>6, <1>7 DEF IsHeader

LEMMA TableTold ==
  ASSUME Typed, SheetAssumption, tnum \in Nat, ri \in 1 .. Rows, Listed(records, ri - 1, tnum - 1),
         prevMulti = NoHeader \/ IsHeader(prevMulti),
         NEW x, IsHeader(x), NEW data \in ri .. Rows, NEW reused \in BOOLEAN,
         EmitTable(x, data - 1, data, reused)
  PROVE  /\ \E end \in 0 .. Rows : Passed(end)
         /\ prevMulti' = NoHeader \/ IsHeader(prevMulti')
<1> DEFINE S == {Rows} \cup {r - 1 : r \in {q \in data .. Rows : IsTitle(q)}}
           end == Min(S)
           full == WithGroup(x, data - 1, end)
<1>1. Rows \in Nat /\ NumCols \in Nat
  BY LenProperties DEF Typed, Rows, SheetAssumption
<1>2. end \in data - 1 .. Rows
  <2>1. S \in SUBSET (data - 1 .. Rows) /\ S \in SUBSET Nat /\ S # {}
    BY <1>1
  <2> HIDE DEF S
  <2> QED BY <2>1, MinIs
<1>3. IsHeader(full)
  BY <1>1, WithGroupIs
<1>4. /\ records' = EmitRows(full.keys, full.c1, full.c2, data - 1, end, FALSE)
      /\ prevMulti' = IF reused THEN prevMulti
                      ELSE [full EXCEPT !.keys = [c \in {d \in DOMAIN @ : @[d] # "group"} |-> @[c]]]
      /\ ri' = After(end)
  BY DEF EmitTable
<1> HIDE DEF full, end
<1>5. PICK k, a, b : full = [keys |-> k, c1 |-> a, c2 |-> b] /\ DOMAIN k \in SUBSET Col /\ a \in Col
  BY <1>3 DEF IsHeader
<1>6. full.keys = k
  BY <1>5
<1> DEFINE own == [c \in {d \in DOMAIN k : k[d] # "group"} |-> k[c]]
<1>7. prevMulti' = NoHeader \/ IsHeader(prevMulti')
  <2>1. [full EXCEPT !.keys = [c \in {d \in DOMAIN @ : @[d] # "group"} |-> @[c]]]
          = [keys |-> own, c1 |-> a, c2 |-> b]
    BY <1>5
  <2>2. DOMAIN own \in SUBSET Col
    BY <1>5
  <2> HIDE DEF own
  <2>3. IsHeader([keys |-> own, c1 |-> a, c2 |-> b])
    BY <1>5, <2>2 DEF IsHeader
  <2> QED BY <1>4, <2>1, <2>3
<1>8. data - 1 \in Nat /\ ri - 1 \in Nat /\ ri - 1 <= data - 1 /\ end \in Nat /\ data - 1 <= end
      /\ end <= Rows /\ end \in 0 .. Rows /\ tnum - 1 \in Int /\ tnum - 1 <= tnum
  BY <1>1, <1>2
<1>9. Listed(records, data - 1, tnum - 1)
  BY <1>8, ListedLater
<1>10. DOMAIN full.keys \in SUBSET Col
  BY <1>5, <1>6
<1>11. Listed(records', end, tnum)
  BY <1>1, <1>4, <1>8, <1>9, <1>10, EmitRowsTold
<1> QED BY <1>4, <1>7, <1>8, <1>11 DEF Passed

LEMMA BelowIs ==
  ASSUME Rows \in Nat, NEW top \in 1 .. Rows
  PROVE  Below(top) \in top .. Rows + 1
<1> DEFINE S == {Rows + 1} \cup {r \in top .. Rows : ~ IsTitle(r)}
<1>1. S \in SUBSET (top .. Rows + 1) /\ S \in SUBSET Nat /\ S # {}
  OBVIOUS
<1>2. Min(S) \in S
  <2> HIDE DEF S
  <2> QED BY <1>1, MinIs
<1>3. Below(top) = Min(S)
  BY DEF Below
<1> HIDE DEF S
<1> QED BY <1>1, <1>2, <1>3

LEMMA FirstDataIs ==
  ASSUME Rows \in Nat, ProbeRows \in Nat, NEW r \in 1 .. Rows
  PROVE  FirstData(r) = 0 \/ FirstData(r) \in r .. Rows
<1> DEFINE E == {r + ProbeRows, Rows}
           stop == Min(E)
           tokens == {q \in r .. stop : HasToken(q)}
<1>1. stop \in E /\ \A x \in E : stop <= x
  <2>1. E \in SUBSET Nat /\ E # {}
    OBVIOUS
  <2> HIDE DEF E
  <2> QED BY <2>1, MinIs
<1>2. FirstData(r) = IF tokens = {} THEN 0 ELSE Min(tokens)
  BY DEF FirstData
<1> HIDE DEF stop
<1>3. tokens \in SUBSET (r .. Rows) /\ tokens \in SUBSET Nat
  BY <1>1
<1> HIDE DEF tokens
<1> QED BY <1>2, <1>3, MinIs

LEMMA ComposedIs ==
  ASSUME NEW top, NEW bottom
  PROVE  DOMAIN Composed(top, bottom) \in SUBSET Col
BY DEF Composed

LEMMA MultiTold ==
  ASSUME Typed, SheetAssumption, tnum \in Nat, ri \in 1 .. Rows, Listed(records, ri - 1, tnum - 1),
         prevMulti = NoHeader \/ IsHeader(prevMulti), EmitMulti(ri)
  PROVE  /\ \E end \in 0 .. Rows : Passed(end) \/ (records' = records /\ ri' = After(end))
         /\ prevMulti' = NoHeader \/ IsHeader(prevMulti')
         /\ prevSingle' = prevSingle
<1> DEFINE r    == Below(ri)
           data == FirstData(r)
           keys == Composed(r, data - 1)
           new  == [keys |-> keys, c1 |-> Min(DOMAIN keys), c2 |-> Max(DOMAIN keys)]
           nothing(end) == ri' = After(end) /\ prevMulti' = prevMulti /\ records' = records
<1>1. Rows \in Nat /\ NumCols \in Nat /\ ProbeRows \in Nat
  BY LenProperties DEF Typed, Rows, SheetAssumption
<1>2. /\ IF r > Rows THEN nothing(Rows)
         ELSE IF data = 0 THEN nothing(r)
         ELSE IF Reuse(r, data) THEN EmitTable(prevMulti, r - 1, data, TRUE)
         ELSE IF DOMAIN keys = {} THEN nothing(data)
         ELSE EmitTable(new, data - 1, data, FALSE)
      /\ prevSingle' = prevSingle
  BY DEF EmitMulti
<1>3. r \in ri .. Rows + 1
  BY <1>1, BelowIs
<1>4. DOMAIN keys \in SUBSET Col
  BY ComposedIs
<1>5. ASSUME DOMAIN keys # {} PROVE IsHeader(new)
  <2>1. DOMAIN keys \in SUBSET Nat
    BY <1>1, <1>4 DEF Col
  <2> HIDE DEF keys
  <2>2. Min(DOMAIN keys) \in DOMAIN keys
    BY <1>5, <2>1, MinIs
  <2> QED BY <1>4, <2>2 DEF IsHeader
<1> HIDE DEF r, keys, new
<1>6. ASSUME ~ r > Rows PROVE r \in ri .. Rows /\ (data = 0 \/ data \in r .. Rows)
  <2>1. r \in ri .. Rows /\ r \in 1 .. Rows
    BY <1>1, <1>3, <1>6
  <2> QED BY <1>1, <2>1, FirstDataIs
<1> HIDE DEF data
<1>7. CASE r > Rows
  BY <1>1, <1>2, <1>7
<1>8. CASE ~ r > Rows /\ data = 0
  <2>1. r \in 0 .. Rows
    BY <1>1, <1>6, <1>8
  <2> QED BY <1>2, <1>8, <2>1
<1>9. CASE ~ r > Rows /\ data # 0 /\ Reuse(r, data)
  <2>1. r - 1 = data - 1 /\ IsHeader(prevMulti) /\ data \in ri .. Rows
    BY <1>1, <1>6, <1>9 DEF Reuse
  <2>2. EmitTable(prevMulti, data - 1, data, TRUE)
    BY <1>2, <1>9, <2>1
  <2>3. /\ \E end \in 0 .. Rows : Passed(end)
        /\ prevMulti' = NoHeader \/ IsHeader(prevMulti')
    BY <2>1, <2>2, TableTold
  <2> QED BY <1>2, <2>3
<1>10. CASE ~ r > Rows /\ data # 0 /\ ~ Reuse(r, data) /\ DOMAIN keys = {}
  <2>1. data \in 0 .. Rows
    BY <1>1, <1>6, <1>10
  <2> QED BY <1>2, <1>10, <2>1
<1>11. CASE ~ r > Rows /\ data # 0 /\ ~ Reuse(r, data) /\ DOMAIN keys # {}
  <2>1. data \in ri .. Rows
    BY <1>1, <1>6, <1>11
  <2>2. EmitTable(new, data - 1, data, FALSE) /\ IsHeader(new)
    BY <1>2, <1>5, <1>11
  <2>3. /\ \E end \in 0 .. Rows : Passed(end)
        /\ prevMulti' = NoHeader \/ IsHeader(prevMulti')
    BY <2>1, <2>2, TableTold
  <2> QED BY <1>2, <2>3
<1> QED BY <1>7, <1>8, <1>9, <1>10, <1>11

-----------------------------------------------------------------------------
(***************************************************************************)
(* A sheet that is read: what was told is of the rows before the driver.   *)
(***************************************************************************)
Untold == ri = 1 /\ tnum = 0 /\ records = <<>>

HeadersOK == DOMAIN prevSingle \in SUBSET Col /\ (prevMulti = NoHeader \/ IsHeader(prevMulti))

SheetInv ==
  /\ Typed /\ complete \in BOOLEAN
  /\ ri \in 1 .. Rows + 1 /\ tnum \in 0 .. MaxTables
  /\ HeadersOK
  /\ Listed(records, ri - 1, tnum - 1)
  /\ ~ complete => Untold
  /\ format # "xlsx" => Untold \/ ri = Rows + 1
  /\ KeyedRowsComplete

LEMMA NothingListed ==
  ASSUME NEW hi, NEW t
  PROVE  Listed(<<>>, hi, t)
<1>1. Len(<<>>) = 0 /\ 1 .. 0 = {} /\ <<>> \in Seq(Entry)
  BY EmptySeq
<1> QED BY <1>1 DEF Listed

LEMMA Sized ==
  ASSUME Typed
  PROVE  Rows \in Nat /\ (sheet = <<>> <=> Rows = 0) /\ \A i \in 1 .. Rows : sheet[i] \in RowKind
BY LenProperties, EmptySeq DEF Typed, Rows

LEMMA SheetFirst == Init => SheetInv
<1> SUFFICES ASSUME Init PROVE SheetInv
  OBVIOUS
<1>1. /\ sheet = <<>> /\ complete = FALSE /\ ri = 1 /\ tnum = 0
      /\ prevMulti = NoHeader /\ prevSingle = NoKeys /\ records = <<>>
  BY DEF Init, SheetInit
<1>2. Typed /\ Rows = 0
  BY <1>1, EmptySeq DEF Typed, Rows
<1>3. HeadersOK
  <2>1. DOMAIN <<>> = {}
    OBVIOUS
  <2> QED BY <1>1, <2>1 DEF HeadersOK, NoKeys
<1>4. Listed(records, ri - 1, tnum - 1)
  BY <1>1, NothingListed
<1>5. MaxTables \in Nat
  BY SheetAssumption DEF SheetAssumption
<1>6. KeyedRowsComplete
  BY <1>1 DEF KeyedRowsComplete
<1>7. complete \in BOOLEAN /\ ~ complete /\ ri \in 1 .. Rows + 1 /\ tnum \in 0 .. MaxTables /\ Untold
  <2>1. complete \in BOOLEAN /\ ~ complete
    BY <1>1
  <2>2. ri \in 1 .. Rows + 1
    BY <1>1, <1>2
  <2>3. tnum \in 0 .. MaxTables
    BY <1>1, <1>5
  <2>4. Untold
    BY <1>1 DEF Untold
  <2> QED BY <2>1, <2>2, <2>3, <2>4
<1> QED BY <1>2, <1>3, <1>4, <1>6, <1>7 DEF SheetInv

LEMMA AddRowKeeps ==
  ASSUME SheetInv, NEW k \in RowKind, AddRow(k), format' = format
  PROVE  SheetInv'
<1>1. /\ ~ complete /\ complete' = complete /\ ri' = ri /\ tnum' = tnum /\ records' = records
      /\ prevMulti' = prevMulti /\ prevSingle' = prevSingle
      /\ sheet' = Append(sheet, k) /\ (k.up # {} => sheet # <<>>)
  BY DEF AddRow
<1>2. Rows \in Nat /\ (sheet = <<>> <=> Rows = 0) /\ sheet \in Seq(RowKind)
  BY Sized DEF SheetInv, Typed
<1>3. Untold /\ Untold'
  BY <1>1 DEF SheetInv, Untold
<1>4. sheet' \in Seq(RowKind) /\ Rows' = Rows + 1 /\ sheet'[1] = IF Rows = 0 THEN k ELSE sheet[1]
  <2>1. Rows' = Len(sheet')
    BY DEF Rows
  <2> QED BY <1>1, <1>2, <2>1, AppendProperties DEF Rows
<1>5. Typed'
  <2>1. sheet'[1].up = {}
    BY <1>1, <1>2, <1>4 DEF SheetInv, Typed
  <2> QED BY <1>4, <2>1 DEF Typed
<1>6. ri' \in 1 .. Rows' + 1
  BY <1>2, <1>3, <1>4 DEF Untold
<1>7. Listed(records', ri' - 1, tnum' - 1)
  BY <1>1 DEF SheetInv
<1>8. HeadersOK'
  BY <1>1 DEF SheetInv, HeadersOK
<1>9. KeyedRowsComplete'
  BY <1>1 DEF KeyedRowsComplete
<1>10. complete' \in BOOLEAN /\ ~ complete' /\ tnum' \in 0 .. MaxTables
  BY <1>1 DEF SheetInv
<1> QED BY <1>3, <1>5, <1>6, <1>7, <1>8, <1>9, <1>10 DEF SheetInv

(* What depends on the rows alone. *)
LEMMA SameRows ==
  ASSUME sheet' = sheet
  PROVE  /\ Rows' = Rows /\ (Typed <=> Typed')
         /\ KeyedRowsComplete' <=>
              (format' = "csv" /\ complete' /\ ri' > Rows =>
                \A r \in 1 .. Rows :
                  (\E i \in DOMAIN records' : records'[i].row = r) <=>
                  (\E h \in 1 .. r - 1 : /\ Filled(h) \cap Filled(r) # {}
                                         /\ \A q \in 1 .. h - 1 : Filled(q) = {}))
<1>1. Rows' = Rows
  BY DEF Rows
<1>2. \A r : Filled(r)' = Filled(r)
  BY DEF Filled, Value
<1>3. Typed <=> Typed'
  BY DEF Typed
<1> QED BY <1>1, <1>2, <1>3 DEF KeyedRowsComplete

LEMMA OpenKeeps ==
  ASSUME SheetInv, OpenSheet, format' = format
  PROVE  SheetInv'
<1>1. /\ ~ complete /\ complete' = TRUE /\ sheet' = sheet /\ ri' = ri /\ tnum' = tnum
      /\ records' = records /\ prevMulti' = prevMulti /\ prevSingle' = prevSingle
  BY DEF OpenSheet
<1>2. Rows' = Rows /\ Typed' /\ Rows \in Nat
  BY <1>1, SameRows, Sized DEF SheetInv
<1>3. Untold /\ Untold'
  BY <1>1 DEF SheetInv, Untold
<1>4. KeyedRowsComplete'
  <2>1. ri' > Rows => 1 .. Rows = {}
    BY <1>2, <1>3 DEF Untold
  <2> QED BY <1>1, <2>1, SameRows
<1>5. HeadersOK'
  BY <1>1 DEF SheetInv, HeadersOK
<1>6. Listed(records', ri' - 1, tnum' - 1) /\ ri' \in 1 .. Rows' + 1 /\ tnum' \in 0 .. MaxTables
  BY <1>1, <1>2 DEF SheetInv
<1> QED BY <1>1, <1>2, <1>3, <1>4, <1>5, <1>6 DEF SheetInv

LEMMA SkipKeeps ==
  ASSUME SheetInv, SkipBlank, format' = format, format = "xlsx"
  PROVE  SheetInv'
<1>1. /\ complete /\ complete' = complete /\ sheet' = sheet /\ ri' = ri + 1 /\ ri <= Rows
      /\ tnum' = tnum /\ records' = records /\ prevMulti' = prevMulti /\ prevSingle' = prevSingle
  BY DEF SkipBlank
<1>2. Rows' = Rows /\ Typed' /\ Rows \in Nat
  BY <1>1, SameRows, Sized DEF SheetInv
<1>3. ri \in 1 .. Rows + 1 /\ tnum \in 0 .. MaxTables /\ MaxTables \in Nat
  BY SheetAssumption DEF SheetInv, SheetAssumption
<1>4. ri' \in 1 .. Rows' + 1 /\ tnum' \in 0 .. MaxTables
  BY <1>1, <1>2, <1>3
<1>5. Listed(records', ri' - 1, tnum' - 1)
  <2>1. ri - 1 \in Nat /\ ri' - 1 \in Nat /\ ri - 1 <= ri' - 1 /\ tnum - 1 \in Int /\ tnum - 1 <= tnum - 1
    BY <1>1, <1>2, <1>3
  <2>2. Listed(records, ri - 1, tnum - 1)
    BY DEF SheetInv
  <2>3. Listed(records, ri' - 1, tnum - 1)
    BY <2>1, <2>2, ListedLater
  <2> QED BY <1>1, <2>3
<1>6. HeadersOK' /\ complete' \in BOOLEAN /\ complete'
  BY <1>1 DEF SheetInv, HeadersOK
<1>7. KeyedRowsComplete'
  BY <1>1, SameRows
<1> QED BY <1>2, <1>4, <1>5, <1>6, <1>7 DEF SheetInv

LEMMA RegionKeeps ==
  ASSUME SheetInv, EmitRegion, format' = format, format = "xlsx"
  PROVE  SheetInv'
<1>1. /\ complete /\ complete' = complete /\ sheet' = sheet /\ ri <= Rows /\ tnum < MaxTables
      /\ Filled(ri) # {} /\ tnum' = tnum + 1
      /\ IF IsMulti(ri) THEN EmitMulti(ri) ELSE EmitSingle(ri)
  BY DEF EmitRegion
<1>2. Rows' = Rows /\ Typed /\ Typed' /\ Rows \in Nat
  BY <1>1, SameRows, Sized DEF SheetInv
<1>3. ri \in 1 .. Rows /\ tnum \in 0 .. MaxTables /\ MaxTables \in Nat /\ tnum \in Nat
  BY <1>1, <1>2, SheetAssumption DEF SheetInv, SheetAssumption
<1>4. tnum' \in 0 .. MaxTables /\ tnum' - 1 = tnum
  BY <1>1, <1>3
<1>5. /\ HeadersOK'
      /\ \E end \in 0 .. Rows : Passed(end) \/ (records' = records /\ ri' = After(end))
  <2>1. CASE IsMulti(ri)
    BY <1>1, <1>2, <1>3, <2>1, MultiTold, SheetAssumption DEF SheetInv, HeadersOK
  <2>2. CASE ~ IsMulti(ri)
    <3>1. /\ \E end \in ri .. Rows : Passed(end)
          /\ DOMAIN prevSingle' \in SUBSET Col /\ prevMulti' = prevMulti
      BY <1>1, <1>2, <1>3, <2>2, SingleTold, SheetAssumption DEF SheetInv, HeadersOK
    <3>2. \A end \in ri .. Rows : end \in 0 .. Rows
      BY <1>3
    <3> QED BY <3>1, <3>2 DEF SheetInv, HeadersOK
  <2> QED BY <2>1, <2>2
<1>6. PICK end \in 0 .. Rows : Passed(end) \/ (records' = records /\ ri' = After(end))
  BY <1>5
<1>7. PICK x : x = After(end) /\ ri' = x
  BY <1>6 DEF Passed
<1>8. x \in 1 .. Rows + 1 /\ x >= end + 1 /\ x >= ri + 1
  <2>1. end \in Nat /\ end <= Rows /\ ri \in Nat
    BY <1>2, <1>3
  <2>2. After(end) \in {end + 1, ri + 1} /\ After(end) >= end + 1 /\ After(end) >= ri + 1
    BY <2>1, AfterIs
  <2> QED BY <1>2, <1>3, <1>7, <2>1, <2>2
<1>9. Listed(records', x - 1, tnum)
  <2>1. x - 1 \in Nat /\ end \in Nat /\ end <= x - 1 /\ ri - 1 \in Nat /\ ri - 1 <= x - 1
    BY <1>2, <1>3, <1>8
  <2>2. tnum \in Int /\ tnum - 1 \in Int /\ tnum <= tnum /\ tnum - 1 <= tnum
    BY <1>3
  <2>3. CASE Passed(end)
    <3>1. Listed(records', end, tnum)
      BY <2>3 DEF Passed
    <3> QED BY <2>1, <2>2, <3>1, ListedLater
  <2>4. CASE records' = records
    <3>1. Listed(records, ri - 1, tnum - 1)
      BY DEF SheetInv
    <3>2. Listed(records, x - 1, tnum)
      BY <2>1, <2>2, <3>1, ListedLater
    <3> QED BY <2>4, <3>2
  <2> QED BY <1>6, <2>3, <2>4
<1>10. KeyedRowsComplete' /\ complete' \in BOOLEAN /\ complete'
  BY <1>1, SameRows DEF SheetInv
<1> QED BY <1>2, <1>4, <1>5, <1>7, <1>8, <1>9, <1>10 DEF SheetInv

-----------------------------------------------------------------------------
(* A plain table: told exactly, and read to its end.                       *)
LEMMA KeyedTableTold ==
  ASSUME Typed, tnum \in Nat, records = <<>>, NEW h \in 1 .. Rows + 1, h = KeyedHeader
  PROVE  LET out == KeyedRows([i \in 1 .. Rows - h |-> h + i]) IN
         /\ Listed(out, Rows, tnum)
         /\ \A r \in 1 .. Rows : Tells(out, r) <=> h < r /\ Filled(h) \cap Filled(r) # {}
<1> DEFINE m == IF h <= Rows THEN Rows - h ELSE 0
           b == IF h <= Rows THEN h ELSE 0
           q == [i \in 1 .. Rows - h |-> h + i]
           p == [i \in 1 .. m |-> h + i]
           s == [i \in 1 .. m |-> b + i]
           out == KeyedRows(q)
<1>1. Rows \in Nat /\ h \in Nat
  BY Sized
<1>2. m \in Nat /\ b \in Nat /\ b + m <= Rows /\ b + m \in Nat /\ (h <= Rows => h + m = Rows) /\ KeyedHeader \in Nat
  BY <1>1
<1>3. q = p /\ p = s
  <2>1. CASE h <= Rows
    BY <2>1
  <2>2. CASE ~ h <= Rows
    <3>1. 1 .. Rows - h = {} /\ 1 .. m = {}
      BY <1>1, <2>2
    <3> QED BY <3>1
  <2> QED BY <2>1, <2>2
<1> HIDE DEF m, b
<1>4. Listed(out, Rows, tnum)
  <2>1. Listed(records, b, tnum) /\ tnum \in Int /\ tnum <= tnum
    BY NothingListed
  <2>2. Listed(KeyedRows(s), b + m, tnum)
    BY <1>2, <2>1, KeyedTold
  <2> HIDE DEF q, p, s
  <2>3. Listed(KeyedRows(s), Rows, tnum)
    BY <1>1, <1>2, <2>1, <2>2, ListedLater
  <2> QED BY <1>3, <2>3
<1>5. ToldBelow(out, h, h + m)
  <2>1. ToldBelow(KeyedRows(p), h, h + m)
    <3>1. ToldBelow(KeyedRows([i \in 1 .. m |-> KeyedHeader + i]), KeyedHeader, KeyedHeader + m)
      BY <1>2, KeyedExactly
    <3> QED BY <3>1
  <2> HIDE DEF q, p, s
  <2> QED BY <1>3, <2>1
<1> HIDE DEF out
<1>6. ASSUME NEW r \in 1 .. Rows PROVE r \in h + 1 .. h + m <=> h < r
  <2>1. CASE h <= Rows
    BY <1>1, <1>2, <2>1
  <2>2. CASE ~ h <= Rows
    <3>1. m = 0 /\ ~ h < r
      BY <1>1, <2>2 DEF m
    <3> QED BY <1>1, <3>1
  <2> QED BY <2>1, <2>2
<1>7. \A r \in 1 .. Rows : r \in Nat
  OBVIOUS
<1>8. \A r \in 1 .. Rows : Tells(out, r) <=> h < r /\ Filled(h) \cap Filled(r) # {}
  BY <1>5, <1>6, <1>7 DEF ToldBelow
<1> QED BY <1>4, <1>8 DEF out

LEMMA KeyedKeeps ==
  ASSUME SheetInv, ReadKeyedTable, format' = format
  PROVE  SheetInv'
<1> DEFINE h == KeyedHeader
           out == KeyedRows([i \in 1 .. Rows - h |-> h + i])
<1>1. /\ format \in {"csv", "docx"} /\ complete /\ complete' = complete /\ sheet' = sheet /\ ri <= Rows
      /\ ri' = Rows + 1 /\ tnum' = tnum + 1 /\ prevMulti' = prevMulti /\ prevSingle' = prevSingle
  BY DEF ReadKeyedTable
<1>2. records' = out
  BY DEF ReadKeyedTable, KeyedRows
<1>3. Rows' = Rows /\ Typed /\ Typed' /\ Rows \in Nat
  BY <1>1, SameRows, Sized DEF SheetInv
<1>4. ri = 1 /\ tnum = 0 /\ records = <<>>
  <2>1. ri # Rows + 1
    BY <1>1, <1>3 DEF SheetInv
  <2> QED BY <1>1, <2>1 DEF SheetInv, Untold
<1>5. /\ h \in 1 .. Rows + 1
      /\ format = "csv" => /\ \A q \in 1 .. h - 1 : Filled(q) = {}
                           /\ h <= Rows => Filled(h) # {}
  BY <1>3, KeyedHeaderIs
<1>6. /\ Listed(out, Rows, tnum)
      /\ \A r \in 1 .. Rows : Tells(out, r) <=> h < r /\ Filled(h) \cap Filled(r) # {}
  BY <1>3, <1>4, <1>5, KeyedTableTold
<1> HIDE DEF h, out
<1>7. ri' \in 1 .. Rows' + 1 /\ ri' = Rows' + 1 /\ ri' - 1 = Rows /\ tnum' - 1 = tnum
  BY <1>1, <1>3, <1>4
<1>8. tnum' \in 0 .. MaxTables
  BY <1>1, <1>4, SheetAssumption DEF SheetAssumption
<1>9. HeadersOK' /\ complete' \in BOOLEAN /\ complete'
  BY <1>1 DEF SheetInv, HeadersOK
<1>10. KeyedRowsComplete'
  <2>1. ASSUME format = "csv", NEW r \in 1 .. Rows
        PROVE  h < r /\ Filled(h) \cap Filled(r) # {} <=>
               \E k \in 1 .. r - 1 : /\ Filled(k) \cap Filled(r) # {}
                                     /\ \A q \in 1 .. k - 1 : Filled(q) = {}
    <3>1. ASSUME h < r, Filled(h) \cap Filled(r) # {}
          PROVE  \E k \in 1 .. r - 1 : /\ Filled(k) \cap Filled(r) # {}
                                       /\ \A q \in 1 .. k - 1 : Filled(q) = {}
      <4>1. h \in 1 .. r - 1
        BY <1>3, <1>5, <3>1
      <4> QED BY <1>5, <2>1, <3>1, <4>1
    <3>2. ASSUME NEW k \in 1 .. r - 1, Filled(k) \cap Filled(r) # {},
                 \A q \in 1 .. k - 1 : Filled(q) = {}
          PROVE  h < r /\ Filled(h) \cap Filled(r) # {}
      <4>1. Filled(k) # {}
        BY <3>2
      <4>2. ~ k \in 1 .. h - 1
        BY <1>5, <2>1, <4>1
      <4>3. h <= k /\ h <= Rows /\ k \in Nat /\ h \in Nat /\ h \in 1 .. Rows + 1
        BY <1>3, <1>5, <4>2
      <4>4. Filled(h) # {}
        BY <1>5, <2>1, <4>3
      <4>5. ~ h \in 1 .. k - 1
        BY <3>2, <4>4
      <4>6. h = k
        BY <4>3, <4>5
      <4> QED BY <3>2, <4>6
    <3> QED BY <3>1, <3>2
  <2>2. \A r \in 1 .. Rows : Tells(out, r) <=> \E i \in DOMAIN records' : records'[i].row = r
    <3>1. DOMAIN out = 1 .. Len(out)
      BY <1>6, LenProperties DEF Listed
    <3> QED BY <1>2, <3>1 DEF Tells
  <2>3. \A r \in 1 .. Rows :
          format = "csv" =>
          ((\E i \in DOMAIN records' : records'[i].row = r) <=>
           (\E k \in 1 .. r - 1 : /\ Filled(k) \cap Filled(r) # {}
                                  /\ \A q \in 1 .. k - 1 : Filled(q) = {}))
    BY <1>6, <2>1, <2>2
  <2> QED BY <1>1, <2>3, SameRows
<1> QED BY <1>2, <1>3, <1>6, <1>7, <1>8, <1>9, <1>10 DEF SheetInv

LEMMA SheetUntouched ==
  ASSUME SheetInv, UNCHANGED sheetVars, format' = format
  PROVE  SheetInv'
<1>1. /\ sheet' = sheet /\ complete' = complete /\ ri' = ri /\ tnum' = tnum
      /\ prevMulti' = prevMulti /\ prevSingle' = prevSingle /\ records' = records
  BY DEF sheetVars
<1>2. Rows' = Rows /\ Typed' /\ KeyedRowsComplete'
  <2>1. KeyedRowsComplete' <=> KeyedRowsComplete
    BY <1>1, SameRows DEF KeyedRowsComplete
  <2> QED BY <1>1, <2>1, SameRows DEF SheetInv
<1>3. HeadersOK' /\ (Untold <=> Untold')
  BY <1>1 DEF SheetInv, HeadersOK, Untold
<1> QED BY <1>1, <1>2, <1>3 DEF SheetInv

LEMMA FormatStays ==
  ASSUME [Next]_fileVars
  PROVE  format' = format
<1>1. CASE UNCHANGED fileVars
  BY <1>1 DEF fileVars, proseVars
<1>2. CASE ReadSheet
  BY <1>2 DEF ReadSheet, proseVars
<1>3. CASE ReadProse
  <2>1. ASSUME ProseNext PROVE format' = format
    BY <2>1 DEF ProseNext, ReadHeading, ReadBlank, ReadLine, ReadParagraph, EndOfText, Reading
  <2> QED BY <1>3, <2>1 DEF ReadProse
<1>4. CASE SkipFile
  BY <1>4 DEF SkipFile
<1> QED BY <1>1, <1>2, <1>3, <1>4 DEF Next

LEMMA SheetStep ==
  ASSUME SheetInv, [Next]_fileVars
  PROVE  SheetInv'
<1>1. format' = format
  BY FormatStays
<1>2. CASE UNCHANGED sheetVars
  BY <1>1, <1>2, SheetUntouched
<1>3. CASE ReadSheet
  <2>1. ASSUME NEW k \in RowKind, AddRow(k) PROVE SheetInv'
    BY <1>1, <2>1, AddRowKeeps
  <2>2. CASE OpenSheet
    BY <1>1, <2>2, OpenKeeps
  <2>3. CASE format = "xlsx" /\ SkipBlank
    BY <1>1, <2>3, SkipKeeps
  <2>4. CASE format = "xlsx" /\ EmitRegion
    BY <1>1, <2>4, RegionKeeps
  <2>5. CASE ReadKeyedTable
    BY <1>1, <2>5, KeyedKeeps
  <2> QED BY <1>3, <2>1, <2>2, <2>3, <2>4, <2>5 DEF ReadSheet
<1>4. CASE ReadProse
  BY <1>2, <1>4 DEF ReadProse
<1>5. CASE SkipFile
  BY <1>2, <1>5 DEF SkipFile, sheetVars
<1>6. CASE UNCHANGED fileVars
  BY <1>2, <1>6 DEF fileVars
<1> QED BY <1>3, <1>4, <1>5, <1>6 DEF Next

(* The records of a sheet (xlsx_tables.py, _iter_sheet_tables): however    *)
(* its regions are bounded, headers reused and groups absorbed, no row is  *)
(* told twice and rows and tables keep the order of the sheet; and of a    *)
(* csv file every row below the first row with labels that has a labelled  *)
(* value is told, and no other.                                            *)
THEOREM RowsAreTold == Spec => []RowsTellTheSheet
<1>1. SheetInv => RowsTellTheSheet
  <2> SUFFICES ASSUME SheetInv PROVE EachRowOnce /\ KeyedRowsComplete
    BY DEF RowsTellTheSheet
  <2>1. DOMAIN records = 1 .. Len(records)
    BY LenProperties DEF SheetInv, Listed
  <2> QED BY <2>1 DEF SheetInv, Listed, EachRowOnce
<1>2. SheetInv /\ [Next]_fileVars => SheetInv'
  BY SheetStep
<1> QED BY <1>1, <1>2, SheetFirst, PTL DEF Spec

-----------------------------------------------------------------------------
(***************************************************************************)
(* The types of a text that is read.  The lines that blocks cite are       *)
(* counted from one.                                                       *)
(***************************************************************************)
FromOne(bs)  == \A k \in 1 .. Len(bs) : bs[k].from >= 1
AllFromOne(ss) == \A i \in 1 .. Len(ss) : FromOne(ss[i].blocks)

LEMMA FromOneMore ==
  ASSUME NEW bs \in Seq(Block), FromOne(bs), NEW text, NEW from \in Nat \ {0}, NEW to
  PROVE  FromOne(Append(bs, [text |-> text, from |-> from, to |-> to]))
<1> DEFINE b == [text |-> text, from |-> from, to |-> to]
           n == Len(bs)
           more == Append(bs, b)
<1>1. b.from >= 1
  OBVIOUS
<1> HIDE DEF b
<1>2. n \in Nat /\ Len(more) = n + 1 /\ more[n + 1] = b /\ \A k \in 1 .. n : more[k] = bs[k]
  BY LenProperties
<1> HIDE DEF more
<1>3. ASSUME NEW k \in 1 .. n + 1 PROVE more[k].from >= 1
  <2>1. k \in 1 .. n \/ k = n + 1
    BY <1>2
  <2> QED BY <1>1, <1>2, <2>1 DEF FromOne
<1> QED BY <1>2, <1>3 DEF FromOne, more, b

LEMMA FlushedFromOne ==
  ASSUME NEW bs \in Seq(Block), FromOne(bs), NEW ps, NEW start \in Nat, ps = <<>> <=> start = 0, NEW n
  PROVE  FromOne(FlushP(bs, ps, start, n))
BY FromOneMore DEF FlushP

LEMMA SectionsFromOne ==
  ASSUME NEW ss \in Seq(Section), AllFromOne(ss), NEW bs, FromOne(bs), NEW title, NEW under
  PROVE  AllFromOne(FlushS(ss, bs, title, under))
<1> DEFINE s == [sec |-> title, sub |-> under, blocks |-> bs]
           n == Len(ss)
           more == Append(ss, s)
<1>1. s.blocks = bs
  OBVIOUS
<1>2. FlushS(ss, bs, title, under) = ss \/ FlushS(ss, bs, title, under) = more
  BY DEF FlushS
<1> HIDE DEF s
<1>3. n \in Nat /\ Len(more) = n + 1 /\ more[n + 1] = s /\ \A k \in 1 .. n : more[k] = ss[k]
  BY LenProperties
<1> HIDE DEF more
<1>4. ASSUME NEW k \in 1 .. n + 1 PROVE FromOne(more[k].blocks)
  <2>1. k \in 1 .. n \/ k = n + 1
    BY <1>3
  <2> QED BY <1>1, <1>3, <2>1 DEF AllFromOne
<1>5. AllFromOne(more)
  BY <1>3, <1>4 DEF AllFromOne
<1> QED BY <1>2, <1>5

(* The places a chunk cites, and how much it carries over. *)
ChunkOK(x, n) == /\ x.from \in 1 .. n /\ x.to \in 1 .. n
                 /\ x.carried \in 0 .. Len(x.text) - 1

LEMMA ChunksTyped ==
  ASSUME NEW B \in Seq(Sentence), NEW W, NEW n \in Nat, \A p \in 1 .. Len(B) : B[p].line \in 1 .. n,
         NEW ss, NEW sc, SectionsLaid(B, ss, sc, Len(B)), AllFromOne(ss),
         \A i \in 1 .. Len(ss) : \A k \in 1 .. Len(ss[i].blocks) : ss[i].blocks[k].to < n + 1,
         NEW out, Issued(B, W, out, ss, Len(ss), Len(B)), NEW k \in 1 .. Len(out)
  PROVE  ChunkOK(out[k], n)
<1> DEFINE x == out[k]
<1>1. PICK o : Run(B, W, out, o, 0, Len(B))
  BY DEF Issued, Telling
<1> DEFINE q == o[k - 1]
           z == o[k]
<1>2. IsPiece(B, W, x, q, z)
  BY <1>1 DEF Run
<1>3. PICK i \in 1 .. Len(ss) : Within(x, Lo(ss[i]), Hi(ss[i]))
  BY DEF Issued
<1> HIDE DEF x, q, z
<1>4. /\ x.carried \in Nat /\ q \in Nat /\ z \in Nat /\ q < z /\ Len(x.text) = z - q + x.carried
      /\ z \in q .. Len(B) /\ Len(B) \in Nat
  <2>1. Part(B, Fresh(x), q, z)
    BY <1>2, PieceHalves
  <2>2. x.carried \in Nat /\ q \in Nat /\ z \in Nat /\ q < z /\ Len(x.text) = z - q + x.carried
    BY <1>2, PieceHalves
  <2>3. z \in q .. Len(B)
    BY <2>1 DEF Part
  <2>4. Len(B) \in Nat
    BY LenProperties
  <2> QED BY <2>2, <2>3, <2>4
<1>5. x.carried \in 0 .. Len(x.text) - 1
  <2> DEFINE c == x.carried
             l == Len(x.text)
  <2>1. c \in Nat /\ l = z - q + c
    BY <1>4
  <2> HIDE DEF c, l
  <2>2. c \in 0 .. l - 1
    BY <1>4, <2>1
  <2> QED BY <2>2 DEF c, l
<1>6. z \in q + 1 .. z /\ z \in 1 .. Len(B)
  BY <1>4
<1> DEFINE line == B[z].line
           f == x.from
           t == x.to
<1>7. line \in f .. t /\ line \in 1 .. n
  BY <1>2, <1>6 DEF IsPiece, Cites
<1>8. ss[i].blocks[1].from >= 1 /\ ss[i].blocks[Len(ss[i].blocks)].to < n + 1
      /\ ss[i].blocks[1] \in Block /\ ss[i].blocks[Len(ss[i].blocks)] \in Block
  <2>1. SectionOK(B, ss[i], sc[i - 1], sc[i]) /\ sc[i - 1] < sc[i]
    BY DEF SectionsLaid, IsCut
  <2>2. PICK c : Laid(B, ss[i].blocks, c, sc[i - 1], sc[i])
    BY <2>1 DEF SectionOK
  <2>3. /\ Len(ss[i].blocks) \in Nat /\ c[0] = sc[i - 1] /\ c[Len(ss[i].blocks)] = sc[i]
        /\ \A m \in 1 .. Len(ss[i].blocks) : ss[i].blocks[m] \in Block
    BY <2>2, LaidBlocks
  <2>4. Len(ss[i].blocks) # 0
    <3>1. sc[i - 1] \in Int
      BY <2>2, LaidBlocks
    <3> QED BY <2>1, <2>3, <3>1
  <2>5. 1 \in 1 .. Len(ss[i].blocks) /\ Len(ss[i].blocks) \in 1 .. Len(ss[i].blocks)
    BY <2>3, <2>4
  <2> QED BY <2>3, <2>5 DEF AllFromOne, FromOne
<1>9. f \in Lo(ss[i]) .. Hi(ss[i]) /\ t \in Lo(ss[i]) .. Hi(ss[i])
  BY <1>3 DEF Within
<1> DEFINE lo == Lo(ss[i])
           hi == Hi(ss[i])
<1>10. lo \in Nat /\ hi \in Nat /\ lo >= 1 /\ hi < n + 1
  BY <1>8 DEF Lo, Hi, Block
<1>11. f \in Int /\ t \in Int /\ lo <= f /\ t <= hi /\ line \in Int /\ f <= line /\ line <= t
  BY <1>7, <1>9
<1> HIDE DEF f, t, line, lo, hi
<1>12. f \in 1 .. n /\ t \in 1 .. n
  BY <1>7, <1>10, <1>11
<1> QED BY <1>5, <1>12 DEF ChunkOK, x, f, t

-----------------------------------------------------------------------------
(* The text so far, and what was made of it. *)
Counted == ~ parsed => FromOne(blocks) /\ AllFromOne(sections)

ProseInv == ProseTypeOK /\ Counted

LEMMA UnreadTyped ==
  ASSUME Unread
  PROVE  /\ blocks \in Seq(Block) /\ sections \in Seq(Section) /\ paraStart \in Nat
         /\ para \in Seq(Seq(Sentence)) /\ chunks = <<>>
BY DEF Unread, Kept, Filed, SectionsLaid, BlocksKept, Laid, ParaKept, Pieced

LEMMA Chunkless ==
  ASSUME chunks' = <<>>
  PROVE  \A i \in DOMAIN chunks' :
           /\ chunks'[i].from \in 1 .. nr' /\ chunks'[i].to \in 1 .. nr'
           /\ chunks'[i].carried \in 0 .. Len(chunks'[i].text) - 1
<1>1. DOMAIN <<>> = {}
  OBVIOUS
<1> QED BY <1>1

LEMMA ProseFirst == Init => ProseInv
<1> SUFFICES ASSUME Init PROVE ProseInv
  OBVIOUS
<1>1. /\ format \in Format /\ nr = 0 /\ sec = NoTitle /\ sub = NoTitle /\ para = <<>> /\ paraStart = 0
      /\ blocks = <<>> /\ sections = <<>> /\ chunks = <<>>
  BY DEF Init, ProseInit
<1>2. Len(<<>>) = 0 /\ 1 .. 0 = {} /\ DOMAIN <<>> = {}
  OBVIOUS
<1>3. Counted
  BY <1>1, <1>2 DEF Counted, FromOne, AllFromOne
<1>4. 0 \in 0 .. MaxLines
  BY ChunkAssumption DEF ChunkAssumption
<1>5. \A i \in DOMAIN chunks :
        /\ chunks[i].from \in 1 .. nr /\ chunks[i].to \in 1 .. nr
        /\ chunks[i].carried \in 0 .. Len(chunks[i].text) - 1
  BY <1>1, <1>2
<1> QED BY <1>1, <1>3, <1>4, <1>5 DEF ProseInv, ProseTypeOK

LEMMA ReadingTyped ==
  ASSUME Reading, ProseTypeOK
  PROVE  nr' \in 0 .. MaxLines /\ format' \in Format /\ ~ parsed /\ nr' = nr + 1 /\ chunks' = chunks
BY ChunkAssumption DEF Reading, ProseTypeOK, ChunkAssumption

LEMMA HeadingTyped ==
  ASSUME ProseInv, Unread, NEW level, NEW title \in Title, ReadHeading(level, title)
  PROVE  ProseInv'
<1>1. /\ Reading /\ sections' = FlushedSection(FlushedPara(nr)) /\ blocks' = <<>>
      /\ para' = <<>> /\ paraStart' = 0 /\ Folded(level, title)
  BY DEF ReadHeading
<1>2. nr' \in 0 .. MaxLines /\ format' \in Format /\ ~ parsed /\ chunks' = <<>>
  BY <1>1, ReadingTyped, UnreadTyped DEF ProseInv
<1>3. sec' \in Title \cup {NoTitle} /\ sub' \in Title \cup {NoTitle} /\ (sub' # NoTitle => sec' # NoTitle)
  BY <1>1 DEF Folded, ProseInv, ProseTypeOK
<1>4. FromOne(blocks')
  <2>1. Len(<<>>) = 0 /\ 1 .. 0 = {}
    OBVIOUS
  <2> QED BY <1>1, <2>1 DEF FromOne
<1>5. AllFromOne(sections')
  <2>1. FromOne(FlushP(blocks, para, paraStart, nr))
    BY <1>2, UnreadTyped, FlushedFromOne DEF ProseInv, Counted, ProseTypeOK
  <2> DEFINE bs == FlushP(blocks, para, paraStart, nr)
  <2>2. sections' = FlushS(sections, bs, sec, sub)
    BY <1>1, Flushing
  <2> HIDE DEF bs
  <2>3. FromOne(bs)
    BY <2>1 DEF bs
  <2> QED BY <1>2, <2>2, <2>3, UnreadTyped, SectionsFromOne DEF ProseInv, Counted
<1>6. ProseTypeOK'
  BY <1>1, <1>2, <1>3, Chunkless DEF ProseTypeOK
<1> QED BY <1>4, <1>5, <1>6 DEF ProseInv, Counted

LEMMA BlankTyped ==
  ASSUME ProseInv, Unread, ReadBlank
  PROVE  ProseInv'
<1>1. /\ Reading /\ blocks' = FlushedPara(nr) /\ para' = <<>> /\ paraStart' = 0
      /\ sec' = sec /\ sub' = sub /\ sections' = sections
  BY DEF ReadBlank, heading
<1>2. nr' \in 0 .. MaxLines /\ format' \in Format /\ ~ parsed /\ chunks' = <<>>
  BY <1>1, ReadingTyped, UnreadTyped DEF ProseInv
<1>3. FromOne(blocks')
  BY <1>1, <1>2, Flushing, UnreadTyped, FlushedFromOne DEF ProseInv, Counted, ProseTypeOK
<1>4. ProseTypeOK'
  BY <1>1, <1>2, Chunkless DEF ProseTypeOK, ProseInv
<1> QED BY <1>1, <1>2, <1>3, <1>4 DEF ProseInv, Counted

LEMMA LineTyped ==
  ASSUME ProseInv, Unread, NEW ws \in Line, ReadLine(ws)
  PROVE  ProseInv'
<1>1. /\ Reading /\ para' = Append(para, Sentences(ws))
      /\ paraStart' = IF para = <<>> THEN nr + 1 ELSE paraStart
      /\ sec' = sec /\ sub' = sub /\ blocks' = blocks /\ sections' = sections
  BY DEF ReadLine, heading
<1>2. nr' \in 0 .. MaxLines /\ format' \in Format /\ ~ parsed /\ chunks' = <<>>
  BY <1>1, ReadingTyped, UnreadTyped DEF ProseInv
<1>3. para' # <<>>
  <2>1. para \in Seq(Seq(Sentence))
    BY UnreadTyped
  <2>2. Len(Append(para, Sentences(ws))) = Len(para) + 1 /\ Len(para) \in Nat
    BY <2>1, LenProperties
  <2>3. Len(<<>>) = 0
    OBVIOUS
  <2> QED BY <1>1, <2>2, <2>3
<1>4. paraStart' # 0
  <2>1. nr \in Nat
    BY ChunkAssumption DEF ProseInv, ProseTypeOK, ChunkAssumption
  <2> QED BY <1>1, <2>1 DEF ProseInv, ProseTypeOK
<1>5. ProseTypeOK'
  BY <1>1, <1>2, <1>3, <1>4, Chunkless DEF ProseTypeOK, ProseInv
<1> QED BY <1>1, <1>2, <1>5 DEF ProseInv, Counted

LEMMA ParagraphTyped ==
  ASSUME ProseInv, Unread, NEW ws \in Line, ReadParagraph(ws)
  PROVE  ProseInv'
<1>1. /\ Reading /\ blocks' = Append(blocks, [text |-> Sentences(ws), from |-> nr + 1, to |-> nr + 1])
      /\ sec' = sec /\ sub' = sub /\ para' = para /\ paraStart' = paraStart /\ sections' = sections
  BY DEF ReadParagraph, heading
<1>2. nr' \in 0 .. MaxLines /\ format' \in Format /\ ~ parsed /\ chunks' = <<>>
  BY <1>1, ReadingTyped, UnreadTyped DEF ProseInv
<1>3. FromOne(blocks')
  <2>1. nr + 1 \in Nat \ {0}
    BY ChunkAssumption DEF ProseInv, ProseTypeOK, ChunkAssumption
  <2> QED BY <1>1, <1>2, <2>1, UnreadTyped, FromOneMore DEF ProseInv, Counted
<1>4. ProseTypeOK'
  BY <1>1, <1>2, Chunkless DEF ProseTypeOK, ProseInv
<1> QED BY <1>1, <1>2, <1>3, <1>4 DEF ProseInv, Counted

LEMMA EndTyped ==
  ASSUME Target <= Ceiling, ProseInv, Unread, EndOfText
  PROVE  ProseInv'
<1>1. /\ parsed' = TRUE /\ sections' = FlushedSection(FlushedPara(nr))
      /\ chunks' = EmitSections(sections') /\ para' = <<>> /\ paraStart' = 0
      /\ format' = format /\ nr' = nr /\ sec' = sec /\ sub' = sub /\ ~ parsed
  BY DEF EndOfText, heading
<1> DEFINE bs == FlushP(blocks, para, paraStart, nr)
           ss == FlushS(sections, bs, sec, sub)
<1>2. FromOne(bs)
  BY <1>1, UnreadTyped, FlushedFromOne DEF ProseInv, Counted, ProseTypeOK
<1>3. sections' = ss
  BY <1>1, Flushing
<1>4. AllFromOne(ss)
  <2> HIDE DEF bs
  <2> QED BY <1>1, <1>2, UnreadTyped, SectionsFromOne DEF ProseInv, Counted
<1>5. Filed(body, ss, Len(body), nr + 1)
  BY AllFiled DEF Unread
<1>6. body \in Seq(Sentence) /\ nr \in Nat /\ \A p \in 1 .. Len(body) : body[p].line \in 1 .. nr
  BY DEF Unread, Kept
<1> HIDE DEF ss
<1>7. PICK sc : SectionsLaid(body, ss, sc, Len(body))
  BY <1>5 DEF Filed
<1>8. \A i \in 1 .. Len(ss) : \A k \in 1 .. Len(ss[i].blocks) : ss[i].blocks[k].to < nr + 1
  BY <1>5 DEF Filed
<1>9. PICK W : Sums(body, W)
  BY <1>6, WordsSteps
<1> DEFINE out == EmitSections(ss)
<1>10. Issued(body, W, out, ss, Len(ss), Len(body)) /\ out \in Seq(Chunked)
  BY <1>6, <1>7, <1>9, EmitTells
<1> HIDE DEF out
<1>11. ASSUME NEW k \in DOMAIN out PROVE ChunkOK(out[k], nr)
  <2>1. k \in 1 .. Len(out)
    BY <1>10, LenProperties
  <2> QED BY <1>4, <1>6, <1>7, <1>8, <1>10, <2>1, ChunksTyped
<1>12. chunks' = out
  BY <1>1, <1>3 DEF out
<1>13. ProseTypeOK'
  BY <1>1, <1>11, <1>12 DEF ProseInv, ProseTypeOK, ChunkOK
<1> QED BY <1>1, <1>13 DEF ProseInv, Counted

LEMMA ProseStep ==
  ASSUME Target <= Ceiling, ProseInv, TextInv, [Next]_fileVars
  PROVE  ProseInv'
<1>1. CASE UNCHANGED proseVars
  <2>1. /\ format' = format /\ nr' = nr /\ sec' = sec /\ sub' = sub /\ para' = para /\ paraStart' = paraStart
        /\ blocks' = blocks /\ sections' = sections /\ chunks' = chunks /\ parsed' = parsed
    BY <1>1 DEF proseVars, heading, open
  <2> QED BY <2>1 DEF ProseInv, ProseTypeOK, Counted
<1>2. CASE ReadSheet
  BY <1>1, <1>2 DEF ReadSheet
<1>3. CASE ReadProse
  <2>1. ProseNext
    BY <1>3 DEF ReadProse
  <2>2. ASSUME ~ parsed PROVE Unread
    BY <2>2 DEF TextInv
  <2>3. ASSUME NEW level \in 1 .. 2, NEW title \in Title, ReadHeading(level, title) PROVE ProseInv'
    BY <2>2, <2>3, HeadingTyped DEF ReadHeading, Reading
  <2>4. CASE ReadBlank
    BY <2>2, <2>4, BlankTyped DEF ReadBlank, Reading
  <2>5. ASSUME NEW ws \in Line, ReadLine(ws) PROVE ProseInv'
    BY <2>2, <2>5, LineTyped DEF ReadLine, Reading
  <2>6. ASSUME NEW ws \in Line, ReadParagraph(ws) PROVE ProseInv'
    BY <2>2, <2>6, ParagraphTyped DEF ReadParagraph, Reading
  <2>7. CASE EndOfText
    BY <2>2, <2>7, EndTyped DEF EndOfText
  <2> QED BY <2>1, <2>3, <2>4, <2>5, <2>6, <2>7 DEF ProseNext
<1>4. CASE SkipFile
  <2>1. /\ format' = format /\ nr' = nr /\ sec' = sec /\ sub' = sub /\ para' = para /\ paraStart' = paraStart
        /\ chunks' = chunks /\ parsed'
    BY <1>4 DEF SkipFile, heading, open
  <2> QED BY <2>1 DEF ProseInv, ProseTypeOK, Counted
<1>5. CASE UNCHANGED fileVars
  BY <1>1, <1>5 DEF fileVars
<1> QED BY <1>2, <1>3, <1>4, <1>5 DEF Next

(* Types: the lines a chunk cites are lines of the text, it carries over   *)
(* less than it holds (ingester.py, _chunk_blocks); a record is of a row   *)
(* the driver is past and of a table it has counted, its values are from   *)
(* that row or one above; the driver stops at MAX_TABLES_PER_SHEET.        *)
THEOREM ParsingTypes ==
  ASSUME Target <= Ceiling
  PROVE  Spec => []TypeOK
<1>1. SheetInv => SheetTypeOK
  <2> SUFFICES ASSUME SheetInv PROVE SheetTypeOK
    OBVIOUS
  <2>1. DOMAIN records = 1 .. Len(records)
    BY LenProperties DEF SheetInv, Listed
  <2> QED BY <2>1 DEF SheetInv, Listed, SheetTypeOK, Typed
<1> DEFINE Inv == SheetInv /\ TextInv /\ ProseInv
<1>2. Init => Inv
  BY SheetFirst, TextFirst, ProseFirst
<1>3. Inv /\ [Next]_fileVars => Inv'
  BY SheetStep, TextStep, ProseStep
<1>4. Inv => TypeOK
  BY <1>1 DEF ProseInv, TypeOK
<1> QED BY <1>2, <1>3, <1>4, PTL DEF Spec
=============================================================================
