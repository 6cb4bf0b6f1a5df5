---------------------------- MODULE RelevanceGate ----------------------------
(***************************************************************************)
(* What services/rag-retrieval keeps of a pool of candidates: the gate     *)
(* behind the cross-encoder (a floor, a Kneedle cut, the top k) and the    *)
(* older selection by maximal marginal relevance.                          *)
(*                                                                         *)
(* Scores are naturals, so a fraction of the score span or of a weight is  *)
(* compared after multiplying out; what rounding of floating point numbers *)
(* can do to two nearly equal scores is left out.                          *)
(***************************************************************************)
EXTENDS Integers, Sequences, FiniteSets

CONSTANTS
    Kneedle,            \* RAG_GATE_KNEEDLE
    MinScore,           \* RAG_MIN_SCORE
    MinSet,             \* RAG_GATE_MIN_SET
    WeakNum, WeakDen    \* RAG_GATE_WEAK_KNEE, as a fraction

ASSUME GateAssumption ==
    /\ Kneedle \in BOOLEAN /\ MinScore \in Nat /\ MinSet \in Nat
    /\ WeakNum \in Nat /\ WeakDen \in Nat \ {0}

BugSlice(s, k) == s                     \* mutant: k is not looked at

(* Python's s[:k]. *)
Slice(s, k) ==
    SubSeq(s, 1, IF k >= Len(s) THEN Len(s)
                 ELSE IF k >= 0 THEN k
                 ELSE IF Len(s) + k > 0 THEN Len(s) + k ELSE 0)

-----------------------------------------------------------------------------
(* How far below the line from the first to the last score the score at j  *)
(* is, times the length of that line.                                      *)
Span(s)     == s[1] - s[Len(s)]
Chord(s, j) == (s[1] - s[j]) * (Len(s) - 1) - Span(s) * (j - 1)

Interior(s) == 2 .. Len(s) - 1

(* The elbow is the first of the deepest places that lie below the line. *)
IsElbow(s, j) ==
    /\ j \in Interior(s) /\ Chord(s, j) > 0
    /\ \A i \in Interior(s) : /\ Chord(s, i) <= Chord(s, j)
                              /\ i < j => Chord(s, i) < Chord(s, j)

Strong(s, j) == Chord(s, j) * WeakDen >= WeakNum * Span(s) * (Len(s) - 1)

(* _kneedle_cut returns j - 1, how many scores stay. *)
IsKnee(s, j) ==
    /\ Len(s) >= MinSet /\ Len(s) >= 3
    /\ Span(s) > 0
    /\ IsElbow(s, j) /\ Strong(s, j)

HasKnee(s) == \E j \in DOMAIN s : IsKnee(s, j)
KneeOf(s)  == CHOOSE j \in DOMAIN s : IsKnee(s, j)

(* The gate.  Scores descend, so what passes the floor is a prefix. *)
Survivors(s) == SubSeq(s, 1, Cardinality({i \in DOMAIN s : s[i] >= MinScore}))

Armed(s) == Kneedle /\ Len(s) > MinSet

BugCut(s) == IF Armed(s) /\ HasKnee(s)  \* mutant: the elbow stays in
             THEN SubSeq(s, 1, KneeOf(s)) ELSE s

Cut(s) == IF Armed(s) /\ HasKnee(s) THEN SubSeq(s, 1, KneeOf(s) - 1) ELSE s

(* How many of the ranked candidates are answered with. *)
Gate(s, k) == Len(Slice(Cut(Survivors(s)), k))

-----------------------------------------------------------------------------
(***************************************************************************)
(* Maximal marginal relevance over candidates 1 .. Len(rel): rel are their *)
(* fused scores, sim[<<i, j>>] in 0 .. One their cosines, 0 where a vector *)
(* is missing.  RAG_MMR_LAMBDA = LNum / LDen.                              *)
(***************************************************************************)
Greatest(S) == CHOOSE x \in S : \A y \in S : y <= x

Redundancy(i, picked, sim) == Greatest({0} \cup {sim[<<i, j>>] : j \in picked})

(* lambda * rel / top - (1 - lambda) * redundancy, times LDen, One and top *)
Marginal(rel, sim, i, picked, One, LNum, LDen) ==
    LET top == Greatest({0} \cup {rel[j] : j \in DOMAIN rel}) IN
    LNum * rel[i] * One
      - (LDen - LNum) * (IF top = 0 THEN 1 ELSE top) * Redundancy(i, picked, sim)

(* The first of the best. *)
BestOf(value) ==
    CHOOSE i \in DOMAIN value : \A j \in DOMAIN value :
      value[j] <= value[i] /\ (j < i => value[j] < value[i])

Mmr(rel, sim, k, One, LNum, LDen) ==
    LET pick[n \in Nat] ==
          IF n = 0 THEN <<>>
          ELSE LET q      == pick[n - 1]
                   picked == {q[m] : m \in DOMAIN q}
                   rest   == DOMAIN rel \ picked IN
               IF rest = {} THEN q
               ELSE Append(q, BestOf([i \in rest |->
                      Marginal(rel, sim, i, picked, One, LNum, LDen)]))
    IN  IF k <= 0 THEN <<>> ELSE pick[k]
=============================================================================
