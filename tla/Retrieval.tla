------------------------------ MODULE Retrieval ------------------------------
(***************************************************************************)
(* One search_corpus call of services/rag-retrieval while the ingester     *)
(* works.  The service keeps nothing and takes no lock: it embeds the      *)
(* question, reads a pool of candidates, has them scored, selects, and     *)
(* then reads the index again for every hit to widen it with its           *)
(* neighbours.  Between any two of these the index may have changed in     *)
(* the ways CorpusIndex allows, and any of the calls may fail.             *)
(*                                                                         *)
(* A point is one chunk: place nr in the chunks of a content.  The pool    *)
(* comes in the order of the points' ids: the order of fusion only breaks  *)
(* ties of the cross-encoder.                                              *)
(***************************************************************************)
EXTENDS RelevanceGate, FiniteSets, SequencesExt

CONSTANTS
    Content, NumBatches, Point, Collection, Legacy, NoCollection,
    Chunk,          \* content -> its chunks: section, sub, words, prose
    BaseName,       \* file -> the part of its path that payloads keep
    UseRerank,      \* RAG_USE_RERANKER: the values it may have
    Candidates,     \* RAG_CANDIDATES; RAG_PREFETCH is as large
    Expand,         \* RAG_EXPAND_NEIGHBORS
    ExpandMax,      \* RAG_EXPAND_MAX_WORDS
    TopK,           \* the values of k that callers give
    Score,          \* what the cross-encoder or the fusion answers with
    LNum, LDen,     \* RAG_MMR_LAMBDA
    Twins,          \* pairs of points whose vectors are nearly the same
    MaxChanges      \* bound: changes of the index

ASSUME RetrievalAssumption ==
    /\ Candidates \in Nat /\ Expand \in Nat /\ ExpandMax \in Nat
    /\ TopK \subseteq Int /\ Score \subseteq Nat /\ UseRerank \subseteq BOOLEAN
    /\ LNum \in Nat /\ LDen \in Nat /\ MaxChanges \in Nat
    /\ Legacy \in Collection /\ NoCollection \notin Collection
    /\ \A p, q \in Point : <<p, q>> \in Twins => <<q, p>> \in Twins

(* There are finitely many points.  A point is a chunk, and keeps its id   *)
(* and its place when it is told another file name.                        *)
ASSUME PointAssumption ==
    /\ IsFiniteSet(Point)
    /\ \A p \in Point : /\ p.id \in Nat /\ p.nr \in Int
                        /\ Chunk[p.content][p.nr].words \in Nat
    /\ \A p, q \in Point : p.id = q.id => p.nr = q.nr

VARIABLES
    target, served, \* the index, as in CorpusIndex
    pc,             \* where the call is
    rerank,         \* does this service use the cross-encoder?
    k,
    pool,           \* what query_points returned
    scores,         \* the pool's scores, place by place
    selected,       \* hits to be widened
    answer,         \* hits widened: [hit, window, calm]
    still,          \* history: the index is the one that was queried
    changes

index  == <<target, served>>
search == <<pc, rerank, k, pool, scores, selected, answer>>
vars   == <<index, search, still, changes>>

Index == INSTANCE CorpusIndex

Meta(p)     == Chunk[p.content][p.nr]

Init ==
    /\ Index!Init
    /\ pc = "idle" /\ rerank \in UseRerank /\ k \in TopK
    /\ pool = <<>> /\ scores = <<>> /\ selected = <<>> /\ answer = <<>>
    /\ still = TRUE /\ changes = 0

IndexChanges ==
    /\ changes < MaxChanges /\ changes' = changes + 1
    /\ target' \in Collection \cup {NoCollection}
    /\ served' \in SUBSET Point
    /\ index' # index /\ Index!Next
    /\ still' = FALSE
    /\ UNCHANGED search

Goes(from, to) == pc = from /\ pc' = to /\ UNCHANGED <<index, rerank, k, changes>>

EmbedQuery ==
    /\ Goes("idle", "query")
    /\ UNCHANGED <<pool, scores, selected, answer, still>>

Limit == Max({Candidates, k})

(* The dense branch finds Candidates points if there are as many; fusion   *)
(* may add others from the sparse branch.                                  *)
Sorted(S, Less(_, _)) ==
    [n \in 1 .. Cardinality(S) |->
       CHOOSE x \in S : Cardinality({y \in S : Less(y, x)}) = n - 1]

ById(S) == Sorted(S, LAMBDA p, q : p.id < q.id)

QueryPoints ==
    /\ Goes("query", "rank")
    /\ target # NoCollection
    /\ \E found \in SUBSET served :
         /\ Cardinality(found) <= Limit
         /\ Cardinality(found) >= Min({Cardinality(served), Candidates})
         /\ pool' = ById(found)
    /\ still' = TRUE
    /\ UNCHANGED <<scores, selected, answer>>

(* One score per candidate; then they are sorted, best first.  The legacy  *)
(* selection takes them as the fusion ranked them.                         *)
Before(sc, i, j)    == sc[i] > sc[j] \/ (sc[i] = sc[j] /\ i < j)

Ranking(sc) == Sorted(DOMAIN sc, LAMBDA i, j : Before(sc, i, j))

RankPairs ==
    /\ Goes("rank", "select")
    /\ \E sc \in [DOMAIN pool -> Score] :
         LET r == Ranking(sc) IN
         /\ pool'   = [n \in DOMAIN r |-> pool[r[n]]]
         /\ scores' = [n \in DOMAIN r |-> sc[r[n]]]
    /\ UNCHANGED <<selected, answer, still>>

Cosine == [ij \in (DOMAIN pool) \X (DOMAIN pool) |->
             IF <<pool[ij[1]], pool[ij[2]]>> \in Twins THEN 1 ELSE 0]

Picks == IF rerank THEN [n \in 1 .. Gate(scores, k) |-> n]
         ELSE Mmr(scores, Cosine, k, 1, LNum, LDen)

Select ==
    /\ Goes("select", "expand")
    /\ LET picks == Picks IN selected' = [n \in DOMAIN picks |-> pool[picks[n]]]
    /\ pool' = <<>> /\ scores' = <<>>
    /\ UNCHANGED <<answer, still>>

-----------------------------------------------------------------------------
(***************************************************************************)
(* Widening.  The neighbours of a hit are looked up by file name, section  *)
(* title and place; of two at one place the later overwrites the earlier,  *)
(* and the hit itself overwrites both.                                     *)
(***************************************************************************)
Widens(p) == Expand > 0 /\ Meta(p).prose

BugMatches(p, q) ==                 \* mutant: any file
    Meta(q).prose /\ Meta(q).section = Meta(p).section /\ q.nr \in p.nr - Expand .. p.nr + Expand
Matches(p, q) ==
    /\ BaseName[q.name] = BaseName[p.name]
    /\ Meta(q).prose /\ Meta(q).section = Meta(p).section
    /\ q.nr \in p.nr - Expand .. p.nr + Expand

BugByPlace(p, found) ==             \* mutant: the hit is not put back
    LET places == {q.nr : q \in found} \cup {p.nr} IN
    {b \in [places -> found \cup {p}] : \A n \in places : b[n].nr = n}
ByPlace(p, found) ==
    LET places == {q.nr : q \in found} \cup {p.nr} IN
    {b \in [places -> found \cup {p}] : b[p.nr] = p /\ \A n \in places : b[n].nr = n}

(* The nearest first, on either side, as long as the words fit. *)
Nearest(p) == [n \in 1 .. 2 * Expand |->
                 IF n % 2 = 1 THEN p.nr - (n + 1) \div 2 ELSE p.nr + n \div 2]

Fits(words, more)    == words + more <= ExpandMax

Take(chosen, n, at) ==
    IF n \in DOMAIN at /\ Fits(chosen.words, Meta(at[n]).words)
    THEN [places |-> chosen.places \cup {n}, words |-> chosen.words + Meta(at[n]).words]
    ELSE chosen

Window(p, at) ==
    LET chosen == FoldLeft(LAMBDA c, n : Take(c, n, at),
                           [places |-> {p.nr}, words |-> Meta(p).words], Nearest(p))
    IN  {at[n] : n \in chosen.places}

(* History: is there just one content under every file name? *)
Unambiguous == \A p, q \in served : BaseName[p.name] = BaseName[q.name] => p.content = q.content

Hit(p, w) == [hit |-> p, window |-> w, calm |-> still /\ Unambiguous]

ExpandHit ==
    LET p == Head(selected) IN
    /\ selected # <<>>
    /\ Goes("expand", "expand")
    /\ selected' = Tail(selected)
    /\ IF Widens(p)
       THEN /\ target # NoCollection
            /\ LET near == {q \in served : Matches(p, q)} IN
               \E found \in SUBSET near :
                 /\ Cardinality(found) = Min({Cardinality(near), 2 * Expand + 1})
                 /\ \E at \in ByPlace(p, found) :
                      answer' = Append(answer, Hit(p, Window(p, at)))
       ELSE answer' = Append(answer, Hit(p, {p}))
    /\ UNCHANGED <<pool, scores, still>>

Cleared == /\ pc' = "idle"
           /\ pool' = <<>> /\ scores' = <<>> /\ selected' = <<>> /\ answer' = <<>>
           /\ still' = TRUE
           /\ UNCHANGED <<index, rerank, k, changes>>

Reply == pc = "expand" /\ selected = <<>> /\ Cleared

(* The embedder, the reranker or the vector store answers with an error,   *)
(* or the name resolves to nothing: the tool call fails.                   *)
Fail == pc \in {"query", "rank", "expand"} /\ Cleared

Next ==
    \/ IndexChanges
    \/ EmbedQuery \/ QueryPoints \/ RankPairs \/ Select \/ ExpandHit
    \/ Reply \/ Fail

Spec == Init /\ [][Next]_vars

-----------------------------------------------------------------------------
(* The type of every variable. *)
TypeOK ==
    /\ target \in Collection \cup {NoCollection} /\ served \subseteq Point
    /\ pc \in {"idle", "query", "rank", "select", "expand"}
    /\ rerank \in BOOLEAN /\ k \in Int
    /\ pool \in Seq(Point) /\ selected \in Seq(Point) /\ scores \in Seq(Score)
    /\ k > 0 => Len(selected) + Len(answer) <= k
    /\ \A n \in DOMAIN answer : answer[n].hit \in Point /\ answer[n].window \subseteq Point
    /\ still \in BOOLEAN /\ changes \in 0 .. MaxChanges

(* The knee falls between two scores, never between equals, and where the  *)
(* scores drop at least as steeply as they do on average: of candidates    *)
(* that the cross-encoder cannot tell apart none is dropped by the cut.    *)
KneeIsADrop ==
    pc = "select" /\ rerank =>
      LET s == Survivors(scores)
          n == Len(Cut(s)) IN
      n < Len(s) => /\ n > 0
                    /\ (s[n] - s[n + 1]) * (Len(s) - 1) >= Span(s)
                    /\ s[n] > s[n + 1]

(* What is dropped is never better than what is kept, and floor and cut    *)
(* together leave something whenever anything passes the floor.            *)
BestStay ==
    pc = "select" /\ rerank /\ k > 0 =>
      LET kept == Gate(scores, k) IN
      /\ \A i \in 1 .. kept, j \in DOMAIN scores : j > kept => scores[i] >= scores[j]
      /\ (\E i \in DOMAIN scores : scores[i] >= MinScore) => kept > 0

(* A cluster of near-identical chunks contributes one representative       *)
(* (server.py 183-186): a second of the cluster is picked only when every  *)
(* candidate left is near something that was picked.                       *)
OnePerCluster ==
    pc = "select" /\ ~ rerank =>
      LET picks   == Picks
          near    == Cosine
          Near(i, j) == near[<<i, j>>] = 1 IN
      \A m, n \in DOMAIN picks : m < n /\ Near(picks[m], picks[n]) =>
        \A i \in DOMAIN pool : \E l \in 1 .. n - 1 : i = picks[l] \/ Near(picks[l], i)

(* The selection, by either of its two ways. *)
SelectionIsSound == KneeIsADrop /\ BestStay /\ OnePerCluster

(* What was scored is what is quoted: whatever the index holds by then, a  *)
(* hit is in its own window, and nothing else is at its place.             *)
ScoredIsQuoted ==
    \A n \in DOMAIN answer : LET a == answer[n] IN
      {q \in a.window : q.nr = a.hit.nr} = {a.hit}

(* Neighbours are joined each place once, within the cap on words unless   *)
(* the hit alone is over it, and, with one on either side as shipped,      *)
(* without a gap.  (With more, one that does not fit or is not there is    *)
(* passed over and a farther one taken.)                                   *)
WindowIsAPassage ==
    \A n \in DOMAIN answer : LET w == answer[n].window IN
      /\ \A p, q \in w : p.nr = q.nr => p = q
      /\ Expand <= 1 =>
           \E p \in w : {q.nr : q \in w} = p.nr .. p.nr + Cardinality(w) - 1
      /\ Cardinality(w) > 1 =>
           FoldLeft(LAMBDA t, p : t + Meta(p).words, 0, ById(w)) <= ExpandMax

(* A hit is answered as one passage around what was scored. *)
QuotesAPassage == ScoredIsQuoted /\ WindowIsAPassage

(* "Never crosses a section boundary, so no unrelated text leaks in"       *)
(* (server.py 226), where it holds: the index is the one that was queried, *)
(* and has one content under every file name.                              *)
NoUnrelatedTextWhenCalm ==
    \A n \in DOMAIN answer : LET a == answer[n] IN
      a.calm => \A p \in a.window : p.content = a.hit.content
=============================================================================
