----------------------------- MODULE CorpusIndex -----------------------------
(***************************************************************************)
(* What a query can find while the ingester works: the points behind the   *)
(* name `corpus`, whatever collections, manifest rows, locks and passes    *)
(* there are.  ADR-0006 promises that the name never goes dark and that a  *)
(* rebuild takes effect at once and whole; between rebuilds the index      *)
(* changes a batch, a row or a name at a time.  CorpusSync implements it,  *)
(* Retrieval searches it.                                                  *)
(*                                                                         *)
(* The actions say what the next index may be, not who brings it about.    *)
(***************************************************************************)
EXTENDS Naturals, FiniteSets

CONSTANTS
    Content,        \* what a file can hold
    NumBatches,     \* how many points a content is embedded in
    Point,          \* records with fields id, content and name (its file)
    Collection,     \* physical collections
    Legacy,         \* the one that has the name itself, without an alias
    NoCollection

VARIABLES
    target,     \* the collection the name resolves to, or NoCollection
    served      \* the points in it

vars == <<target, served>>

OneContent(S) == \A p, q \in S : p.content = q.content
OneName(S)    == \A p, q \in S : p.name = q.name

(* The vector store keeps one point under an id. *)
OnePerId(S) == \A p, q \in S : p.id = q.id => p = q

(* Every file that is there is there once, and whole. *)
FileOf(S, f) == {p \in S : p.name = f}
Whole(S) ==
    \A p \in S : LET file == FileOf(S, p.name) IN
      OneContent(file) /\ Cardinality(file) = NumBatches[p.content]

Init ==
    /\ target \in {Legacy, NoCollection}
    /\ served \in SUBSET Point /\ OnePerId(served)
    /\ target = NoCollection => served = {}

(* A batch of a file has been embedded. *)
Publish ==
    \E p \in Point : /\ \A q \in served : q.id # p.id
                     /\ served' = served \cup {p}

(* What one row recorded goes, by the ids it recorded. *)
Withdraw ==
    /\ served' \subseteq served
    /\ OneContent(served \ served')

(* A row's points are told the name their file has now. *)
Rename ==
    LET before == served \ served'
        after  == served' \ served IN
    /\ {p.id : p \in before} = {p.id : p \in after}
    /\ OneContent(before \cup after) /\ OneName(after) /\ OnePerId(served')

Change ==
    /\ target # NoCollection /\ UNCHANGED target
    /\ Publish \/ Withdraw \/ Rename

(* The alias is pointed at a rebuilt collection. *)
Replace ==
    /\ target' \in Collection \ {target, Legacy}
    /\ served' \in SUBSET Point /\ Whole(served') /\ OnePerId(served')

(* The one blackout: a legacy collection goes before its name is free. *)
DropLegacy ==
    /\ target = Legacy
    /\ target' = NoCollection /\ served' = {}

Next == Change \/ Replace \/ DropLegacy

Spec == Init /\ [][Next]_vars
=============================================================================
