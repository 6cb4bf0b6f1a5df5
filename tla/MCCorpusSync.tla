---------------------------- MODULE MCCorpusSync ----------------------------
(* Small instances of CorpusSync for TLC. *)
EXTENDS CorpusSync, TLC

CONSTANTS a, b, w, m, new1, new2, old

(* b needs two batches, so a pass can die between two upserts. *)
MCContent    == {a, b}
MCNumBatches == [c \in MCContent |-> IF c = b THEN 2 ELSE 1]
(* The names of new collections are interchangeable. *)
MCSymmetry == Permutations({new1, new2})

MCLegacyPoints == {[id |-> 1, content |-> a, name |-> 1]}
=============================================================================
