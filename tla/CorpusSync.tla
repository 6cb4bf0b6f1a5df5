----------------------------- MODULE CorpusSync -----------------------------
(***************************************************************************)
(* Content-addressed corpus sync: the passes of services/ingester, which   *)
(* bring a vector store in line with a directory tree through a SQLite     *)
(* manifest (checksum -> point UUIDs).                                     *)
(*                                                                         *)
(* Three kinds of pass take turns under one advisory lock:                 *)
(*   "watch"    incremental(grace = GRACE), run by the watcher process     *)
(*   "manual"   incremental(grace = None), run from the command line       *)
(*   "rebuild"  recreate(), run from the command line                      *)
(* Every call that reads the tree, the manifest or the vector store is a   *)
(* step of its own, because the tree changes and a pass can die between    *)
(* any two of them.                                                        *)
(*                                                                         *)
(* Abstractions.  A file's bytes are a member of Content and stand for     *)
(* their own blake2b checksum.  A batch of at most 64 chunks is one point. *)
(* A uuid4 is any identifier nothing refers to.  Time is relative: an age  *)
(* in ticks, saturating, instead of an epoch timestamp.                    *)
(***************************************************************************)
EXTENDS Integers, FiniteSets

CONSTANTS
    Content,        \* possible file contents
    NoFile,         \* what an empty path holds
    NumPaths,       \* the tree has paths 1 .. NumPaths, in sorted order
    Indexable,      \* the paths whose suffix iter_file routes to a parser
    NumBatches,     \* how many batches a content is embedded in; may be 0
    Collection,     \* names of physical collections
    Legacy,         \* the one of them that is named like the alias
    NoCollection,
    LegacyPoints,   \* what a collection older than the manifest holds
    PointId,
    Watcher,        \* the --watch process
    Manuals,        \* command-line runs of the ingester
    Nobody,         \* the lock is free
    Grace,          \* INGEST_DELETE_GRACE, in ticks
    MaxLag,         \* bound: ticks a pass spends between `now` and its end
    MaxEdits,       \* bound: changes made to the tree
    MaxAborts,      \* bound: passes that die
    LiveEdits       \* may the tree change while a pass runs?

Path   == 1 .. NumPaths
NoPath == 0
Proc   == {Watcher} \cup Manuals
AgeCap == Grace + MaxLag

Point  == [id : PointId, content : Content, name : Path]

ASSUME ContentAssumption    == NoFile \notin Content
ASSUME PathAssumption       == NumPaths \in Nat \ {0} /\ Indexable \subseteq Path
ASSUME BatchAssumption      == NumBatches \in [Content -> Nat]
ASSUME CollectionAssumption == /\ Legacy \in Collection
                               /\ NoCollection \notin Collection
ASSUME LegacyAssumption     == /\ LegacyPoints \subseteq Point
                               /\ \A pt, qt \in LegacyPoints :
                                    pt.id = qt.id => pt = qt    \* keyed by id
ASSUME ProcAssumption       == Nobody \notin Proc /\ Watcher \notin Manuals
ASSUME BoundAssumption      == /\ Grace \in Nat /\ MaxLag \in Nat
                               /\ MaxEdits \in Nat /\ MaxAborts \in Nat
                               /\ LiveEdits \in BOOLEAN

VARIABLES
    disk,       \* path -> content: the corpus directory
    manifest,   \* checksum -> row: the table `files`
    colls,      \* the physical collections that exist
    points,     \* collection -> the points it holds
    alias,      \* the collection the alias names, or NoCollection
    lock,       \* who holds the flock on manifest.db.lock
    pass,       \* process -> the local state of the pass it runs
    edits,      \* how often the tree was changed
    aborts,     \* how many passes died
    gone,       \* history: content -> ticks since it was last on disk
    steady      \* history: paths untouched since the running pass began

vars == <<disk, manifest, colls, points, alias, lock, pass,
          edits, aborts, gone, steady>>

tree  == <<disk, edits, gone>>
store == <<colls, points, alias>>

-----------------------------------------------------------------------------
(***************************************************************************)
(* Rows of the manifest.  A checksum without a row has NoRow, which is     *)
(* told by its path: put always writes one.  `departed` is the time since  *)
(* departed_at, or NotDeparted for NULL.                                   *)
(***************************************************************************)
NotDeparted == -1
Age   == 0 .. AgeCap
Row   == [uuids : SUBSET PointId, path : Path \cup {NoPath},
          departed : Age \cup {NotDeparted}]
NoRow == [uuids |-> {}, path |-> NoPath, departed |-> NotDeparted]
NoRows == [c \in Content |-> NoRow]

Recorded(rows)  == {c \in Content : rows[c].path # NoPath}
UuidsOf(rows)   == UNION {rows[c].uuids : c \in Content}
FreshRow(ids, f) == [uuids |-> ids, path |-> f, departed |-> NotDeparted]

Older(age) == IF age < AgeCap THEN age + 1 ELSE age

(* The tree. *)
Files       == {f \in Path : disk[f] # NoFile}
OnDisk      == {disk[f] : f \in Files}
SteadyContent == {disk[f] : f \in steady \cap Files}

(* live_collection: the alias, or the legacy collection of that name. *)
Live       == IF alias # NoCollection THEN alias ELSE Legacy
LiveExists == alias # NoCollection \/ Legacy \in colls

(***************************************************************************)
(* The local state of a pass:                                              *)
(*   col      the collection it writes       listing  paths left to hash   *)
(*   scan     scan_disk's dict               db       its copy of rows     *)
(*   todo     what its loop has left         cur      the checksum at hand *)
(*   got      the bytes ingest_file read     left     batches to upsert    *)
(*   ids      point ids at hand              rows     recreate's row list  *)
(*   lag      ticks since it took `now`                                    *)
(***************************************************************************)
Phase == {"idle", "scan", "add", "ingest", "reconcile", "rename", "repath",
          "prune", "drop", "mark", "reap", "unrecord",
          "switch", "migrate", "retire", "done"}
Mode  == {"watch", "manual", "rebuild"}

NoScan == [c \in Content |-> NoPath]
Blank  == [pc |-> "idle", mode |-> "watch", col |-> NoCollection,
           listing |-> {}, scan |-> NoScan, db |-> NoRows, todo |-> {},
           cur |-> NoFile, got |-> NoFile, left |-> 0, ids |-> {},
           rows |-> NoRows, lag |-> 0]

Scanned(p) == {c \in Content : pass[p].scan[c] # NoPath}

(* uuid.uuid4(): an identifier that no collection, row or pass refers to. *)
UsedIds == {pt.id : pt \in UNION {points[k] : k \in Collection}}
             \cup UuidsOf(manifest)
             \cup UNION {pass[p].ids \cup UuidsOf(pass[p].db)
                           \cup UuidsOf(pass[p].rows) : p \in Proc}
FreshId == CHOOSE i \in PointId : i \notin UsedIds

-----------------------------------------------------------------------------
(***************************************************************************)
(* A new deployment has no collection.  One older than the manifest has a  *)
(* physical collection named like the alias, with points nobody recorded.  *)
(***************************************************************************)
Init ==
    /\ disk \in [Path -> Content \cup {NoFile}]
    /\ manifest = NoRows
    /\ \/ colls = {}       /\ points = [k \in Collection |-> {}]
       \/ colls = {Legacy} /\ points = [k \in Collection |->
                                IF k = Legacy THEN LegacyPoints ELSE {}]
    /\ alias = NoCollection
    /\ lock = Nobody
    /\ pass = [p \in Proc |-> Blank]
    /\ edits = 0
    /\ aborts = 0
    /\ gone = [c \in Content |-> IF c \in OnDisk THEN 0 ELSE AgeCap]
    /\ steady = {}

(***************************************************************************)
(* The environment: people and programs change the tree; time passes.      *)
(***************************************************************************)
Edit(new, touched) ==
    /\ edits < MaxEdits
    /\ LiveEdits \/ lock = Nobody
    /\ disk' = new
    /\ edits' = edits + 1
    /\ gone' = [c \in Content |->
                  IF \E f \in Path : c \in {disk[f], new[f]} THEN 0 ELSE gone[c]]
    /\ steady' = steady \ touched
    /\ UNCHANGED <<manifest, colls, points, alias, lock, pass, aborts>>

WriteFile(f, c) == disk[f] # c /\ Edit([disk EXCEPT ![f] = c], {f})

RemoveFile(f) == f \in Files /\ Edit([disk EXCEPT ![f] = NoFile], {f})

RenameFile(f, g) ==
    /\ f \in Files /\ f # g
    /\ Edit([disk EXCEPT ![f] = NoFile, ![g] = disk[f]], {f, g})

(* A pass reads the clock once, when it gets to departed content; MaxLag   *)
(* bounds how long it may take from there to its end.                      *)
TimedPhase == {"mark", "reap", "unrecord"}

Tick ==
    /\ \A p \in Proc : pass[p].pc \in TimedPhase => pass[p].lag < MaxLag
    /\ gone' = [c \in Content |-> IF c \in OnDisk THEN 0 ELSE Older(gone[c])]
    /\ manifest' = [c \in Content |->
                      IF manifest[c].departed = NotDeparted THEN manifest[c]
                      ELSE [manifest[c] EXCEPT !.departed = Older(@)]]
    /\ pass' = [p \in Proc |->
                  IF pass[p].pc \in TimedPhase
                  THEN [pass[p] EXCEPT !.lag = @ + 1] ELSE pass[p]]
    /\ UNCHANGED <<disk, colls, points, alias, lock, edits, aborts, steady>>

-----------------------------------------------------------------------------
(***************************************************************************)
(* Beginning and ending a pass.  The lock is an flock: one holder, given   *)
(* back by the kernel when its holder dies.  The watcher asks for it       *)
(* without blocking, a command-line run waits for it: neither proceeds     *)
(* while it is taken.  With neither alias nor legacy collection            *)
(* live_collection exits and incremental does nothing.                     *)
(***************************************************************************)
Local(p, s) == pass' = [pass EXCEPT ![p] = s]

BugLockFree == TRUE                              \* mutant: shared lock

LockFree    == lock = Nobody

Acquire(p) ==
    /\ LockFree /\ pass[p].pc = "idle"
    /\ lock' = p
    /\ steady' = Path

BeginIncremental(p) ==
    /\ Acquire(p)
    /\ LiveExists
    /\ Local(p, [Blank EXCEPT !.pc = "scan", !.col = Live, !.listing = Files,
                   !.mode = IF p = Watcher THEN "watch" ELSE "manual"])
    /\ UNCHANGED <<tree, manifest, store, aborts>>

BeginRebuild(p, k) ==
    /\ p \in Manuals
    /\ Acquire(p)
    /\ k \notin colls \cup {Legacy}     \* corpus_<ts>_<uuid8> is a new name
    /\ colls' = colls \cup {k}
    /\ Local(p, [Blank EXCEPT !.pc = "scan", !.col = k, !.listing = Files,
                   !.mode = "rebuild"])
    /\ UNCHANGED <<tree, manifest, points, alias, aborts>>

Release(p) ==
    /\ pass[p].pc = "done"
    /\ lock' = Nobody
    /\ Local(p, Blank)
    /\ steady' = {}
    /\ UNCHANGED <<tree, manifest, store, aborts>>

Die(p) ==
    /\ lock' = Nobody
    /\ Local(p, Blank)
    /\ steady' = {}
    /\ UNCHANGED <<tree, manifest, store>>

(* The process is killed, or a call to the embedder, the vector store or   *)
(* the manifest raises: the pass ends where it is.                         *)
Abort(p) ==
    /\ pass[p].pc # "idle"
    /\ aborts < MaxAborts
    /\ aborts' = aborts + 1
    /\ Die(p)

(* scan_disk: the sorted listing, hashed one file at a time.  A path that  *)
(* has gone by then is skipped; of identical files the last path wins.     *)
NextListed(p, f) ==
    /\ pass[p].pc = "scan"
    /\ f \in pass[p].listing /\ \A g \in pass[p].listing : f <= g

HashNext(p, f) ==
    /\ NextListed(p, f)
    /\ Local(p, [pass[p] EXCEPT
                   !.listing = @ \ {f},
                   !.scan = [c \in Content |->
                               IF c = disk[f] THEN f ELSE @[c]]])
    /\ UNCHANGED <<tree, manifest, store, lock, aborts, steady>>

(* The file goes between is_file() and open(): the scan raises.            *)
HashVanished(p, f) ==
    /\ NextListed(p, f) /\ f \notin Files
    /\ Die(p)
    /\ UNCHANGED aborts

AllHashed(p)    == pass[p].listing = {}

(* man.all(); what is on disk without a row is to be added.  recreate does *)
(* not look at the manifest and adds everything.                           *)
ReadManifest(p) ==
    /\ pass[p].pc = "scan" /\ AllHashed(p)
    /\ Local(p, IF pass[p].mode = "rebuild"
                THEN [pass[p] EXCEPT !.pc = "add", !.todo = Scanned(p)]
                ELSE [pass[p] EXCEPT !.pc = "add", !.db = manifest,
                        !.todo = Scanned(p) \ Recorded(manifest)])
    /\ UNCHANGED <<tree, manifest, store, lock, aborts, steady>>

-----------------------------------------------------------------------------
(***************************************************************************)
(* Adding content: ingest_file opens the path the scan noted and embeds    *)
(* what it finds there now; then the row is written.                       *)
(***************************************************************************)
OpenFile(p, c) ==
    LET f == pass[p].scan[c] IN
    /\ pass[p].pc = "add" /\ c \in pass[p].todo
    /\ f \in Files
    /\ Local(p, [pass[p] EXCEPT !.pc = "ingest", !.cur = c, !.got = disk[f],
                   !.left = IF f \in Indexable THEN NumBatches[disk[f]] ELSE 0])
    /\ UNCHANGED <<tree, manifest, store, lock, aborts, steady>>

(* The file has gone since the scan: open raises and the pass ends. *)
FileVanished(p, c) ==
    /\ pass[p].pc = "add" /\ c \in pass[p].todo
    /\ pass[p].scan[c] \notin Files
    /\ Die(p)
    /\ UNCHANGED aborts

BugExtraBatch(s)   == s.left >= 0       \* mutant: one batch too many
BugLastBatch(s)    == s.left > 1        \* mutant: the last batch is not flushed
BugCollected(s, i) == {i}               \* mutant: forgets earlier batches

MoreToEmbed(s)  == s.left > 0
Collected(s, i) == s.ids \cup {i}

UpsertBatch(p) ==
    LET s == pass[p]
        i == FreshId IN
    /\ s.pc = "ingest" /\ MoreToEmbed(s)
    /\ PointId \ UsedIds # {}
    /\ points' = [points EXCEPT ![s.col] =
                    @ \cup {[id |-> i, content |-> s.got, name |-> s.scan[s.cur]]}]
    /\ Local(p, [s EXCEPT !.left = @ - 1, !.ids = Collected(s, i)])
    /\ UNCHANGED <<tree, manifest, colls, alias, lock, aborts, steady>>

BugNextFile(s) == [s EXCEPT !.pc = "add", !.todo = @ \ {s.cur}, !.cur = NoFile,
                     !.got = NoFile]    \* mutant: ids carried over

NextFile(s) == [s EXCEPT !.pc = "add", !.todo = @ \ {s.cur}, !.cur = NoFile,
                  !.got = NoFile, !.ids = {}]

RecordRow(p) ==
    LET s   == pass[p]
        row == FreshRow(s.ids, s.scan[s.cur])
        t   == NextFile(s) IN
    /\ s.pc = "ingest" /\ ~ MoreToEmbed(s)
    /\ IF s.mode = "rebuild"
       THEN /\ Local(p, [t EXCEPT !.rows = [@ EXCEPT ![s.cur] = row]])
            /\ UNCHANGED manifest
       ELSE /\ Local(p, t)
            /\ manifest' = [manifest EXCEPT ![s.cur] = row]
    /\ UNCHANGED <<tree, store, lock, aborts, steady>>

BugAllAdded(p) == TRUE                  \* mutant: goes on too early

AllAdded(p) == pass[p].todo = {}

EndAdd(p) ==
    /\ pass[p].pc = "add" /\ AllAdded(p) /\ pass[p].mode # "rebuild"
    /\ Local(p, [pass[p] EXCEPT !.pc = "reconcile",
                   !.todo = Scanned(p) \cap Recorded(pass[p].db)])
    /\ UNCHANGED <<tree, manifest, store, lock, aborts, steady>>

-----------------------------------------------------------------------------
(***************************************************************************)
(* Reconciling content that is still there: cancel its departure; if it    *)
(* has another path, refresh the payload, then the row.                    *)
(***************************************************************************)
BugReturned(row) == row                 \* mutant: departure not cancelled

Returned(row)  == [row EXCEPT !.departed = NotDeparted]

Reconcile(p, c) ==
    LET s == pass[p] IN
    /\ s.pc = "reconcile" /\ c \in s.todo
    /\ manifest' = IF s.db[c].departed = NotDeparted THEN manifest
                   ELSE [manifest EXCEPT ![c] = Returned(@)]
    /\ Local(p, IF s.db[c].path = s.scan[c] THEN [s EXCEPT !.todo = @ \ {c}]
                ELSE [s EXCEPT !.pc = "rename", !.cur = c])
    /\ UNCHANGED <<tree, store, lock, aborts, steady>>

RefreshName(p) ==
    LET s == pass[p] IN
    /\ s.pc = "rename"
    /\ points' = [points EXCEPT ![s.col] =
                    {IF pt.id \in s.db[s.cur].uuids
                     THEN [pt EXCEPT !.name = s.scan[s.cur]] ELSE pt : pt \in @}]
    /\ Local(p, [s EXCEPT !.pc = "repath"])
    /\ UNCHANGED <<tree, manifest, colls, alias, lock, aborts, steady>>

SetPath(p) ==
    LET s == pass[p] IN
    /\ s.pc = "repath"
    /\ manifest' = [manifest EXCEPT ![s.cur].path = s.scan[s.cur]]
    /\ Local(p, [s EXCEPT !.pc = "reconcile", !.todo = @ \ {s.cur}, !.cur = NoFile])
    /\ UNCHANGED <<tree, store, lock, aborts, steady>>

EndReconcile(p) ==
    /\ pass[p].pc = "reconcile" /\ pass[p].todo = {}
    /\ Local(p, [pass[p] EXCEPT
                   !.pc = IF pass[p].mode = "watch" THEN "mark" ELSE "prune",
                   !.db = NoRows,
                   !.todo = Recorded(pass[p].db) \ Scanned(p)])
    /\ UNCHANGED <<tree, manifest, store, lock, aborts, steady>>

-----------------------------------------------------------------------------
(***************************************************************************)
(* Departed content.  A manual run deletes the row, then its points; the   *)
(* watcher marks the row, and reaps rows marked at least Grace ago in the  *)
(* other order.                                                            *)
(***************************************************************************)
BugWithout(pts, ids) == {}              \* mutant: deletes everything

Without(pts, ids) == {pt \in pts : pt.id \notin ids}

BugRecordedUuids(c) == {}               \* mutant: read after the row is gone

RecordedUuids(c) == manifest[c].uuids

DropRow(p, c) ==
    LET s == pass[p] IN
    /\ s.pc = "prune" /\ c \in s.todo
    /\ manifest' = [manifest EXCEPT ![c] = NoRow]
    /\ Local(p, [s EXCEPT !.pc = "drop", !.todo = @ \ {c},
                   !.ids = RecordedUuids(c)])
    /\ UNCHANGED <<tree, store, lock, aborts, steady>>

DropPoints(p) ==
    LET s == pass[p] IN
    /\ s.pc = "drop"
    /\ points' = [points EXCEPT ![s.col] = Without(@, s.ids)]
    /\ Local(p, [s EXCEPT !.pc = "prune", !.ids = {}])
    /\ UNCHANGED <<tree, manifest, colls, alias, lock, aborts, steady>>

BugCoalesce(departed, age) == age       \* mutant: every pass marks anew

Coalesce(departed, age) == IF departed = NotDeparted THEN age ELSE departed

MarkDeparted(p, c) ==
    LET s == pass[p] IN
    /\ s.pc = "mark" /\ c \in s.todo
    /\ manifest' = [manifest EXCEPT ![c].departed = Coalesce(@, s.lag)]
    /\ Local(p, [s EXCEPT !.todo = @ \ {c}])
    /\ UNCHANGED <<tree, store, lock, aborts, steady>>

BugDepartedDue(p) ==                    \* mutant: reaps what was just marked
    {c \in Recorded(manifest) : manifest[c].departed # NotDeparted}

DepartedDue(p) ==
    {c \in Recorded(manifest) : /\ manifest[c].departed # NotDeparted
                                /\ manifest[c].departed - pass[p].lag >= Grace}

EndMark(p) ==
    /\ pass[p].pc = "mark" /\ pass[p].todo = {}
    /\ Local(p, [pass[p] EXCEPT !.pc = "reap", !.db = manifest,
                   !.todo = DepartedDue(p)])
    /\ UNCHANGED <<tree, manifest, store, lock, aborts, steady>>

ReapPoints(p, c) ==
    LET s == pass[p] IN
    /\ s.pc = "reap" /\ c \in s.todo
    /\ points' = [points EXCEPT ![s.col] = Without(@, s.db[c].uuids)]
    /\ Local(p, [s EXCEPT !.pc = "unrecord", !.cur = c])
    /\ UNCHANGED <<tree, manifest, colls, alias, lock, aborts, steady>>

ReapRow(p) ==
    LET s == pass[p] IN
    /\ s.pc = "unrecord"
    /\ manifest' = [manifest EXCEPT ![s.cur] = NoRow]
    /\ Local(p, [s EXCEPT !.pc = "reap", !.todo = @ \ {s.cur}, !.cur = NoFile])
    /\ UNCHANGED <<tree, store, lock, aborts, steady>>

EndIncremental(p) ==
    /\ pass[p].pc \in {"prune", "reap"} /\ pass[p].todo = {}
    /\ Local(p, [pass[p] EXCEPT !.pc = "done"])
    /\ UNCHANGED <<tree, manifest, store, lock, aborts, steady>>

-----------------------------------------------------------------------------
(***************************************************************************)
(* The end of recreate: the manifest is replaced in one transaction, then  *)
(* the alias is repointed in one call, then the old collection goes.  The  *)
(* legacy collection has to go before an alias can take its name.          *)
(***************************************************************************)

Replacement(p)   == pass[p].rows

ReplaceAll(p) ==
    /\ pass[p].pc = "add" /\ AllAdded(p) /\ pass[p].mode = "rebuild"
    /\ manifest' = Replacement(p)
    /\ Local(p, [pass[p] EXCEPT !.pc = "switch", !.rows = NoRows])
    /\ UNCHANGED <<tree, store, lock, aborts, steady>>

BugAtSwitch(p) == pass[p].mode = "rebuild" /\ pass[p].pc \in {"scan", "switch"}
                                        \* mutant: switches before embedding

AtSwitch(p)      == pass[p].pc = "switch"

DropLegacy(p) ==
    /\ AtSwitch(p)
    /\ alias = NoCollection /\ Legacy \in colls
    /\ colls' = colls \ {Legacy}
    /\ points' = [points EXCEPT ![Legacy] = {}]
    /\ Local(p, [pass[p] EXCEPT !.pc = "migrate"])
    /\ UNCHANGED <<tree, manifest, alias, lock, aborts, steady>>

CreateAlias(p) ==
    /\ pass[p].pc = "migrate"
    /\ alias' = pass[p].col
    /\ Local(p, [pass[p] EXCEPT !.pc = "done"])
    /\ UNCHANGED <<tree, manifest, colls, points, lock, aborts, steady>>

BugOldCollection(p) == pass[p].col      \* mutant: drops the new collection

OldCollection(p) == alias

(* Delete-alias and create-alias in one atomic call; `old`, the collection *)
(* it named, is kept in col for the deletion that follows.                 *)
SwitchAlias(p) ==
    /\ AtSwitch(p)
    /\ alias # NoCollection \/ Legacy \notin colls
    /\ alias' = pass[p].col
    /\ Local(p, IF alias = NoCollection THEN [pass[p] EXCEPT !.pc = "done"]
                ELSE [pass[p] EXCEPT !.pc = "retire", !.col = OldCollection(p)])
    /\ UNCHANGED <<tree, manifest, colls, points, lock, aborts, steady>>

DropOld(p) ==
    LET former == pass[p].col IN
    /\ pass[p].pc = "retire"
    /\ colls' = colls \ {former}
    /\ points' = [points EXCEPT ![former] = {}]
    /\ Local(p, [pass[p] EXCEPT !.pc = "done", !.col = alias])
    /\ UNCHANGED <<tree, manifest, alias, lock, aborts, steady>>

-----------------------------------------------------------------------------
Environment ==
    \/ \E f \in Path, c \in Content : WriteFile(f, c)
    \/ \E f \in Path : RemoveFile(f)
    \/ \E f, g \in Path : RenameFile(f, g)
    \/ Tick

(* What a running pass does next, unless it dies. *)
Progress(p) ==
    \/ \E f \in Path : HashNext(p, f)
    \/ \E f \in Path : HashVanished(p, f)
    \/ ReadManifest(p)
    \/ \E c \in Content : OpenFile(p, c)
    \/ \E c \in Content : FileVanished(p, c)
    \/ UpsertBatch(p)
    \/ RecordRow(p)
    \/ EndAdd(p)
    \/ \E c \in Content : Reconcile(p, c)
    \/ RefreshName(p)
    \/ SetPath(p)
    \/ EndReconcile(p)
    \/ \E c \in Content : DropRow(p, c)
    \/ DropPoints(p)
    \/ \E c \in Content : MarkDeparted(p, c)
    \/ EndMark(p)
    \/ \E c \in Content : ReapPoints(p, c)
    \/ ReapRow(p)
    \/ EndIncremental(p)
    \/ ReplaceAll(p)
    \/ DropLegacy(p)
    \/ CreateAlias(p)
    \/ SwitchAlias(p)
    \/ DropOld(p)
    \/ Release(p)

Next ==
    \/ Environment
    \/ \E p \in Proc : BeginIncremental(p)
    \/ \E p \in Proc, k \in Collection : BeginRebuild(p, k)
    \/ \E p \in Proc : Progress(p)
    \/ \E p \in Proc : Abort(p)

Spec == Init /\ [][Next]_vars

(***************************************************************************)
(* Time passes (strongly fair, because MaxLag holds it back at times), a   *)
(* pass that has begun goes on, and the watcher's backstop scan begins a   *)
(* pass whenever the lock stays free.  Nothing obliges       *)
(* anybody to edit the tree or to run the ingester by hand.                *)
(***************************************************************************)
FairSpec == /\ Spec
            /\ SF_vars(Tick)
            /\ WF_vars(BeginIncremental(Watcher))
            /\ \A p \in Proc : WF_vars(Progress(p))

-----------------------------------------------------------------------------
(***************************************************************************)
(*                              Properties                                 *)
(***************************************************************************)
Ids(pts)   == {pt.id : pt \in pts}
LiveIds    == Ids(points[Live])
Running    == {p \in Proc : pass[p].pc # "idle"}

PassState ==
    [pc : Phase, mode : Mode, col : Collection \cup {NoCollection},
     listing : SUBSET Path, scan : [Content -> Path \cup {NoPath}],
     db : [Content -> Row], todo : SUBSET Content,
     cur : Content \cup {NoFile}, got : Content \cup {NoFile}, left : Nat,
     ids : SUBSET PointId, rows : [Content -> Row], lag : 0 .. MaxLag]

(* The type of every variable. *)
TypeOK ==
    /\ disk \in [Path -> Content \cup {NoFile}]
    /\ manifest \in [Content -> Row]
    /\ colls \subseteq Collection
    /\ points \in [Collection -> SUBSET Point]
    /\ alias \in Collection \cup {NoCollection}
    /\ lock \in Proc \cup {Nobody}
    /\ pass \in [Proc -> PassState]
    /\ edits \in 0 .. MaxEdits
    /\ aborts \in 0 .. MaxAborts
    /\ gone \in [Content -> Age]
    /\ steady \subseteq Path

(* ADR-0006 section 6: a manual run and the watcher never write the store  *)
(* and the manifest concurrently.  Whoever runs a pass holds the lock,     *)
(* also after passes that died, and nobody else runs one.                  *)
OneWriter == \A p \in Proc : p \in Running <=> lock = p

(* corpus_manifest.py: old and new versions of a file share no ids.  No    *)
(* point is recorded under two checksums.                                  *)
UuidsDisjoint ==
    \A c, d \in Content : c # d => manifest[c].uuids \cap manifest[d].uuids = {}

(* "Blind delete-by-recorded-UUID is always safe": a step that takes       *)
(* points out of a collection that stays takes none that a row goes on     *)
(* recording, the row being reaped excepted (its points go first).         *)
OwnPointsOnly ==
    [][\A k \in colls \cap colls', c \in Content :
         LET removed == Ids(points[k]) \ Ids(points'[k]) IN
           removed \cap manifest'[c].uuids # {} =>
             \E p \in Proc : pass'[p].pc = "unrecord" /\ pass'[p].cur = c]_vars

(* Embed before prune: an incremental pass takes a row out of the manifest *)
(* only when everything its scan saw has one, so a file whose content      *)
(* changed is never without both its old and its new version.              *)
EmbedBeforePrune ==
    [][\A p \in Running :
         Recorded(manifest) \ Recorded(manifest') # {}
           /\ pass[p].mode # "rebuild"
         => Scanned(p) \subseteq Recorded(manifest)]_vars

(* A path nobody touched while a pass ran keeps what it has: no pass       *)
(* prunes, marks or reaps its content, whatever moves around it.           *)
SteadyContentKept ==
    \A p \in Running :
      pass[p].pc \in {"prune", "mark", "reap"} =>
        pass[p].todo \cap SteadyContent = {}

(* A pass that reaches its end has served every path that stood still      *)
(* meanwhile: its content has a row, all of whose points are in the live   *)
(* collection, and the row's departure is cancelled.                       *)
SteadyContentServed ==
    \A p \in Running : pass[p].pc = "done" =>
      \A c \in SteadyContent : /\ c \in Recorded(manifest)
                               /\ manifest[c].uuids \subseteq LiveIds
                               /\ manifest[c].departed = NotDeparted

(* What stands still is safe from a pass all the way, not only at its end. *)
SteadyContentSafe == SteadyContentKept /\ SteadyContentServed

(* The alias never dangles: what it names exists, so a query that goes     *)
(* through it finds a collection.                                          *)
AliasResolves == alias # NoCollection => alias \in colls

(* Zero blackout: once there is an alias it stays, and when it moves, the  *)
(* collection it comes to name holds exactly the points the manifest       *)
(* records, all of them.                                                   *)
SwitchIsComplete ==
    [][alias' # alias =>
         /\ alias' # NoCollection
         /\ Ids(points'[alias']) = UuidsOf(manifest')]_vars

(* ADR-0006, Consequences: a rebuild re-establishes "the manifest matches  *)
(* the vector store" from disk truth, whatever crashes came before it.     *)
RebuildResets ==
    \A p \in Running : pass[p].pc = "done" /\ pass[p].mode = "rebuild" =>
      /\ LiveIds = UuidsOf(manifest)
      /\ Recorded(manifest) = Scanned(p)
      /\ \A c \in Scanned(p), pt \in points[Live] :
           pt.id \in manifest[c].uuids => pt.name = manifest[c].path

(* Every row's points are in the collection that answers queries. *)
RowsAreServed == lock = Nobody => UuidsOf(manifest) \subseteq LiveIds

(* No orphans: behind an alias, every point is recorded by some row, so    *)
(* that some later pass can find and delete it.                            *)
NoOrphans == lock = Nobody /\ alias # NoCollection => LiveIds \subseteq UuidsOf(manifest)

(* A row's points were made from the content the row is about, all of it.  *)
RowsHoldTheirContent ==
    \A c \in Recorded(manifest) :
      /\ Cardinality(manifest[c].uuids) = NumBatches[c]
      /\ \A k \in Collection : \A pt \in points[k] :
           pt.id \in manifest[c].uuids => pt.content = c

(* The watcher takes points away only of content that was off the disk for *)
(* the whole grace period.  Stated for a tree that changed once: a file    *)
(* that comes back and leaves again between two passes keeps its mark.     *)
GraceHonoured ==
    \A p \in Running :
      pass[p].pc = "unrecord" /\ edits <= 1 => gone[pass[p].cur] >= Grace

(* A manual run prunes departed files at once: when it ends, an aliased    *)
(* collection answers with nothing its scan did not see, unless a pass     *)
(* that died left points that no row records.                              *)
ManualPrunesAll ==
    \A p \in Running :
      pass[p].pc = "done" /\ pass[p].mode = "manual"
        /\ alias # NoCollection /\ aborts = 0 =>
        {pt.content : pt \in points[Live]} \subseteq Scanned(p)

(* A pass that looks at everything puts everything right: what a rebuild   *)
(* re-establishes and what a manual run prunes, at the end of each.        *)
FullPassPutsRight == RebuildResets /\ ManualPrunesAll

(* What is on disk, and nothing else, is recorded, under a path it is at.  *)
InSync ==
    /\ Recorded(manifest) = OnDisk
    /\ \A c \in OnDisk : /\ disk[manifest[c].path] = c
                         /\ manifest[c].departed = NotDeparted
    /\ RowsAreServed

(* "Never permanent drift": once the tree is left alone, the passes bring  *)
(* the manifest and the live collection in line with it, for good.  Before *)
(* the first rebuild there may be no collection to bring in line.          *)
Converges == <>[](lock = Nobody /\ LiveExists => InSync)

(* What a query can find, as CorpusIndex specifies it. *)
Resolved == IF alias # NoCollection THEN alias
            ELSE IF Legacy \in colls THEN Legacy ELSE NoCollection

Index == INSTANCE CorpusIndex WITH
           target <- Resolved,
           served <- IF Resolved \in colls THEN points[Resolved] ELSE {}

(* However many rows, locks, collections and passes there are, what stands *)
(* behind the name `corpus` changes by a batch, a row or a name at a time, *)
(* or becomes, at once, the whole of a rebuilt collection; and it goes     *)
(* dark only while a collection older than the alias makes way for it.     *)
ImplementsIndex == Index!Spec

-----------------------------------------------------------------------------
(***************************************************************************)
(* The inductive invariant: what makes the safety properties above hold    *)
(* step by step.                                                           *)
(***************************************************************************)

(* A pass works on content its scan saw, in a collection it was given.     *)
PassPhase(p) ==
    LET s == pass[p] IN
    /\ s.pc \notin {"idle", "done"} => s.col \in Collection
    /\ s.pc \in {"add", "ingest", "reconcile", "rename", "repath"} =>
         s.todo \subseteq Scanned(p)
    /\ s.pc \in {"ingest", "rename", "repath", "unrecord"} => s.cur \in s.todo
    /\ s.pc = "ingest" => s.got \in Content

PhaseOK == \A p \in Proc : PassPhase(p)

(* Ids at hand are in no row yet (while adding) or in none any more (while *)
(* pruning); the rows a rebuild collects share none either; what the       *)
(* reaper is about to delete is still what the manifest records.           *)
RowsDisjoint(rows) ==
    \A c, d \in Content : c # d => rows[c].uuids \cap rows[d].uuids = {}

PassUuids(p) ==
    LET s == pass[p] IN
    /\ RowsDisjoint(s.rows)
    /\ s.pc \in {"scan", "add", "ingest"} =>
         s.ids \cap (UuidsOf(s.rows) \cup UuidsOf(manifest)) = {}
    /\ s.pc = "drop" => s.ids \cap UuidsOf(manifest) = {}
    /\ s.pc \in {"reap", "unrecord"} =>
         \A c \in s.todo : s.db[c].uuids = manifest[c].uuids

UuidsApart == UuidsDisjoint /\ \A p \in Proc : PassUuids(p)

(* A rebuild's collection is neither the live one nor the legacy one until *)
(* the switch; what it retires is not what the alias names then.           *)
PassAlias(p) ==
    LET s == pass[p] IN
    /\ s.pc \in {"switch", "migrate", "retire"} => s.mode = "rebuild"
    /\ s.mode = "rebuild" /\ s.pc \in {"scan", "add", "ingest", "switch", "migrate"} =>
         s.col \in colls \ {alias, Legacy}
    /\ s.pc = "migrate" => alias = NoCollection
    /\ s.pc = "retire" => s.col # alias

AliasSafe == AliasResolves /\ \A p \in Proc : PassAlias(p)

IInv == TypeOK /\ OneWriter /\ PhaseOK /\ UuidsApart /\ AliasSafe
=============================================================================
