----------------------------- MODULE MCRetrieval -----------------------------
(* Small instances of Retrieval: a file of three chunks, its next version  *)
(* of one, and another file; none of them has headings.                    *)
EXTENDS Retrieval

CONSTANTS v1, v2, other, here, there, old, new1

MCContent == {v1, v2, other}
Text(w)   == [section |-> "s", sub |-> "", words |-> w, prose |-> TRUE]
MCChunk   == [c \in MCContent |->
                CASE c = v1    -> <<Text(2), Text(2), Text(3)>>
                  [] c = v2    -> <<Text(4)>>
                  [] c = other -> <<Text(1)>>]
MCNumBatches == [c \in MCContent |-> Len(MCChunk[c])]

At(c, n, i) == [id |-> i, content |-> c, name |-> n, nr |-> i % 10]
MCPoint == {At(v1, here, 1), At(v1, here, 2), At(v1, here, 3),
            At(v2, here, 11), At(other, there, 21)}
MCBaseName == [f \in {here, there} |-> f]
MCTwins == {pq \in MCPoint \X MCPoint : pq[1].nr = pq[2].nr}

(* Also what a model may ask for by mistake. *)
MCTopK == {-1, 2, 5}
=============================================================================
