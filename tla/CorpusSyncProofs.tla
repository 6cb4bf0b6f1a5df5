-------------------------- MODULE CorpusSyncProofs --------------------------
(***************************************************************************)
(* What holds of CorpusSync for every tree, every number of processes,     *)
(* collections, edits and crashes.  First the lock, the ids and the alias; *)
(* then what a query can find; then what the manifest's rows are worth.    *)
(***************************************************************************)
EXTENDS CorpusSync, TLAPS, FiniteSetTheorems

(* The assumptions about the constants, under one name. *)
LEMMA Constants ==
    /\ NoFile \notin Content
    /\ NumPaths \in Nat /\ Path \subseteq Nat /\ NoPath \notin Path
    /\ NumBatches \in [Content -> Nat]
    /\ Legacy \in Collection /\ NoCollection \notin Collection
    /\ LegacyPoints \subseteq Point
    /\ Nobody \notin Proc /\ Watcher \notin Manuals
    /\ Grace \in Nat /\ MaxLag \in Nat /\ MaxEdits \in Nat /\ MaxAborts \in Nat
    /\ AgeCap \in Nat /\ MaxLag <= AgeCap
BY ContentAssumption, PathAssumption, BatchAssumption, CollectionAssumption,
   LegacyAssumption, ProcAssumption, BoundAssumption
   DEF Path, NoPath, AgeCap

(* Replacing one process's local state leaves the others' alone. *)
LEMMA LocalStep ==
    ASSUME pass \in [Proc -> PassState], NEW p \in Proc, NEW s, Local(p, s)
    PROVE  /\ pass'[p] = s
           /\ \A q \in Proc : q # p => pass'[q] = pass[q]
           /\ s \in PassState => pass' \in [Proc -> PassState]
BY DEF Local

LEMMA NoRowsType == NoRow \in Row /\ NoRows \in [Content -> Row]
BY DEF NoRow, NoRows, Row, NotDeparted

LEMMA BlankType == Blank \in PassState
BY NoRowsType, Constants DEF Blank, PassState, Phase, Mode, NoScan

LEMMA InitType == Init => TypeOK
BY Constants, NoRowsType, BlankType
   DEF Init, TypeOK, Age, Files, OnDisk

(* What a pass writes is typed; the rest of a step is. *)
LEMMA EnvironmentType == TypeOK /\ Environment => TypeOK'
<1> SUFFICES ASSUME TypeOK, Environment PROVE TypeOK'
  OBVIOUS
<1> USE Constants
<1>1. ASSUME NEW new \in [Path -> Content \cup {NoFile}], NEW touched, Edit(new, touched)
      PROVE  TypeOK'
  <2>1. edits' \in 0 .. MaxEdits
    BY <1>1 DEF TypeOK, Edit
  <2>2. gone' \in [Content -> Age]
    BY <1>1 DEF TypeOK, Edit, Age
  <2>3. steady' \subseteq Path
    BY <1>1 DEF TypeOK, Edit
  <2> QED BY <1>1, <2>1, <2>2, <2>3 DEF TypeOK, Edit
<1>2. ASSUME NEW f \in Path, NEW c \in Content, WriteFile(f, c) PROVE TypeOK'
  BY <1>1, <1>2 DEF WriteFile, TypeOK
<1>3. ASSUME NEW f \in Path, RemoveFile(f) PROVE TypeOK'
  BY <1>1, <1>3 DEF RemoveFile, TypeOK
<1>4. ASSUME NEW f \in Path, NEW g \in Path, RenameFile(f, g) PROVE TypeOK'
  BY <1>1, <1>4 DEF RenameFile, TypeOK
<1>5. ASSUME Tick PROVE TypeOK'
  <2>1. \A x \in Age : Older(x) \in Age
    BY DEF Age, Older
  <2>2. gone' \in [Content -> Age]
    BY <1>5, <2>1 DEF Tick, TypeOK, Age
  <2>3. manifest' \in [Content -> Row]
    BY <1>5, <2>1 DEF Tick, TypeOK, Row
  <2>4. ASSUME NEW p \in Proc PROVE pass'[p] \in PassState
    <3>1. CASE pass[p].pc \in TimedPhase
      <4>1. pass[p].lag < MaxLag /\ pass'[p] = [pass[p] EXCEPT !.lag = @ + 1]
        BY <1>5, <3>1 DEF Tick
      <4>2. pass[p] \in PassState
        BY DEF TypeOK
      <4> QED BY <4>1, <4>2 DEF PassState
    <3>2. CASE pass[p].pc \notin TimedPhase
      BY <1>5, <3>2 DEF Tick, TypeOK
    <3> QED BY <3>1, <3>2
  <2>5. pass' \in [Proc -> PassState]
    BY <1>5, <2>4 DEF Tick
  <2> QED BY <1>5, <2>2, <2>3, <2>5 DEF Tick, TypeOK
<1> QED BY <1>2, <1>3, <1>4, <1>5 DEF Environment

(***************************************************************************)
(* The steps of a pass.  Each replaces the local state of p by another     *)
(* typed one, and writes at most the manifest and the store.               *)
(***************************************************************************)
LEMMA PassStepType ==
    ASSUME TypeOK, NEW p \in Proc, NEW s \in PassState, Local(p, s),
           manifest' \in [Content -> Row],
           colls' \subseteq Collection,
           points' \in [Collection -> SUBSET Point],
           alias' \in Collection \cup {NoCollection},
           lock' \in Proc \cup {Nobody},
           aborts' \in 0 .. MaxAborts,
           steady' \subseteq Path,
           UNCHANGED tree
    PROVE  TypeOK'
BY LocalStep DEF TypeOK, tree

LEMMA BeginType ==
    ASSUME TypeOK, NEW p \in Proc,
           BeginIncremental(p) \/ \E k \in Collection : BeginRebuild(p, k)
    PROVE  TypeOK'
<1> USE Constants, BlankType
<1>0. Files \subseteq Path
  BY DEF Files
<1>1. CASE BeginIncremental(p)
  <2>1. [Blank EXCEPT !.pc = "scan", !.col = Live, !.listing = Files,
           !.mode = IF p = Watcher THEN "watch" ELSE "manual"] \in PassState
    BY ZenonT(40), <1>0 DEF TypeOK, Live, PassState, Phase, Mode
  <2> QED BY <1>1, <2>1, PassStepType
          DEF BeginIncremental, Acquire, TypeOK, store
<1>2. ASSUME NEW k \in Collection, BeginRebuild(p, k) PROVE TypeOK'
  <2>1. [Blank EXCEPT !.pc = "scan", !.col = k, !.listing = Files,
           !.mode = "rebuild"] \in PassState
    BY <1>0 DEF TypeOK, PassState, Phase, Mode
  <2> QED BY <1>2, <2>1, PassStepType
          DEF BeginRebuild, Acquire, TypeOK
<1> QED BY <1>1, <1>2

LEMMA EndType ==
    ASSUME TypeOK, NEW p \in Proc,
           \/ Release(p) \/ Abort(p)
           \/ \E f \in Path : HashVanished(p, f)
           \/ \E c \in Content : FileVanished(p, c)
    PROVE  TypeOK'
<1> USE Constants, BlankType
<1>1. CASE Release(p)
  BY <1>1, PassStepType DEF Release, TypeOK, store
<1>2. CASE Abort(p)
  BY <1>2, PassStepType DEF Abort, Die, TypeOK, store
<1>3. ASSUME NEW c \in Content, FileVanished(p, c) PROVE TypeOK'
  BY <1>3, PassStepType DEF FileVanished, Die, TypeOK, store
<1>4. ASSUME NEW f \in Path, HashVanished(p, f) PROVE TypeOK'
  BY <1>4, PassStepType DEF HashVanished, Die, TypeOK, store
<1> QED BY <1>1, <1>2, <1>3, <1>4

LEMMA ScanType ==
    ASSUME TypeOK, NEW p \in Proc,
           \/ \E f \in Path : HashNext(p, f)
           \/ ReadManifest(p)
    PROVE  TypeOK'
<1> USE Constants
<1>0. pass[p] \in PassState /\ Scanned(p) \subseteq Content
  BY DEF TypeOK, Scanned
<1>1. ASSUME NEW f \in Path, HashNext(p, f) PROVE TypeOK'
  <2> DEFINE s == [pass[p] EXCEPT
                     !.listing = @ \ {f},
                     !.scan = [c \in Content |->
                                 IF c = disk[f] THEN f ELSE @[c]]]
  <2>1. s \in PassState
    BY <1>0 DEF PassState
  <2>2. Local(p, s)
    BY <1>1 DEF HashNext, NextListed
  <2> QED BY <1>1, <2>1, <2>2, PassStepType DEF HashNext, NextListed, TypeOK, store
<1>2. CASE ReadManifest(p)
  <2> DEFINE s == IF pass[p].mode = "rebuild"
                  THEN [pass[p] EXCEPT !.pc = "add", !.todo = Scanned(p)]
                  ELSE [pass[p] EXCEPT !.pc = "add", !.db = manifest,
                          !.todo = Scanned(p) \ Recorded(manifest)]
  <2>1. s \in PassState
    BY <1>0 DEF PassState, Phase, TypeOK
  <2>2. Local(p, s)
    BY <1>2 DEF ReadManifest
  <2> QED BY <1>2, <2>1, <2>2, PassStepType DEF ReadManifest, TypeOK, store
<1> QED BY <1>1, <1>2

(* A new uuid is one of PointId that nothing refers to. *)
LEMMA FreshIdIsFresh ==
    PointId \ UsedIds # {} => FreshId \in PointId \ UsedIds
BY DEF FreshId

LEMMA AddType ==
    ASSUME TypeOK, PhaseOK, NEW p \in Proc,
           \/ \E c \in Content : OpenFile(p, c)
           \/ UpsertBatch(p) \/ RecordRow(p) \/ EndAdd(p)
    PROVE  TypeOK'
<1> USE Constants
<1>0. pass[p] \in PassState /\ Scanned(p) \subseteq Content
  BY DEF TypeOK, Scanned
<1>1. ASSUME NEW c \in Content, OpenFile(p, c) PROVE TypeOK'
  <2> DEFINE f == pass[p].scan[c]
             s == [pass[p] EXCEPT !.pc = "ingest", !.cur = c, !.got = disk[f],
                     !.left = IF f \in Indexable THEN NumBatches[disk[f]] ELSE 0]
  <2>1. f \in Path /\ disk[f] \in Content
    BY <1>1 DEF OpenFile, Files, TypeOK
  <2>2. s \in PassState
    BY <1>0, <2>1 DEF PassState, Phase
  <2>3. Local(p, s)
    BY <1>1 DEF OpenFile
  <2> QED BY <1>1, <2>2, <2>3, PassStepType DEF OpenFile, TypeOK, store
<1>2. ASSUME pass[p].pc = "ingest"
      PROVE  /\ pass[p].col \in Collection /\ pass[p].got \in Content
             /\ pass[p].cur \in Content /\ pass[p].scan[pass[p].cur] \in Path
  <2>1. /\ pass[p].col \in Collection /\ pass[p].got \in Content
        /\ pass[p].cur \in Scanned(p)
    BY <1>2 DEF PhaseOK, PassPhase
  <2> QED BY <1>0, <2>1 DEF Scanned, PassState
<1>3. CASE UpsertBatch(p)
  <2> DEFINE i  == FreshId
             pt == [id |-> i, content |-> pass[p].got,
                    name |-> pass[p].scan[pass[p].cur]]
             s  == [pass[p] EXCEPT !.left = @ - 1, !.ids = Collected(pass[p], i)]
  <2>1. i \in PointId /\ pass[p].pc = "ingest" /\ pass[p].left > 0
    BY <1>3, FreshIdIsFresh DEF UpsertBatch, MoreToEmbed
  <2>2. pt \in Point
    BY <1>2, <2>1 DEF Point
  <2>3. points' \in [Collection -> SUBSET Point]
    BY <1>3, <2>2 DEF UpsertBatch, TypeOK
  <2>4. s \in PassState
    <3>1. pass[p].left - 1 \in Nat /\ Collected(pass[p], i) \subseteq PointId
      BY <1>0, <2>1 DEF PassState, Collected
    <3> HIDE DEF i
    <3> QED BY <1>0, <3>1 DEF PassState
  <2>5. Local(p, s)
    BY <1>3 DEF UpsertBatch
  <2> QED BY <1>3, <2>3, <2>4, <2>5, PassStepType DEF UpsertBatch, TypeOK
<1>4. CASE RecordRow(p)
  <2> DEFINE row == FreshRow(pass[p].ids, pass[p].scan[pass[p].cur])
             t   == NextFile(pass[p])
  <2>1. pass[p].pc = "ingest"
    BY <1>4 DEF RecordRow
  <2>2. row \in Row
    BY <1>0, <1>2, <2>1 DEF FreshRow, Row, PassState, NotDeparted
  <2>3. t \in PassState /\ t.rows = pass[p].rows
    BY <1>0 DEF NextFile, PassState, Phase
  <2>4. [t EXCEPT !.rows = [@ EXCEPT ![pass[p].cur] = row]] \in PassState
    <3>1. [t.rows EXCEPT ![pass[p].cur] = row] \in [Content -> Row]
      BY <2>2, <2>3 DEF PassState
    <3> QED BY <2>3, <3>1 DEF PassState
  <2>5. manifest' \in [Content -> Row]
    BY <1>4, <2>2 DEF RecordRow, TypeOK
  <2>6. \/ Local(p, [t EXCEPT !.rows = [@ EXCEPT ![pass[p].cur] = row]])
        \/ Local(p, t)
    BY <1>4 DEF RecordRow
  <2> HIDE DEF t, row
  <2> QED BY <1>4, <2>3, <2>4, <2>5, <2>6, PassStepType
          DEF RecordRow, TypeOK, store
<1>5. CASE EndAdd(p)
  <2>1. [pass[p] EXCEPT !.pc = "reconcile",
           !.todo = Scanned(p) \cap Recorded(pass[p].db)] \in PassState
    BY <1>0 DEF PassState, Phase
  <2> QED BY <1>5, <2>1, PassStepType DEF EndAdd, TypeOK, store
<1> QED BY <1>1, <1>3, <1>4, <1>5

LEMMA ReconcileType ==
    ASSUME TypeOK, PhaseOK, NEW p \in Proc,
           \/ \E c \in Content : Reconcile(p, c)
           \/ RefreshName(p) \/ SetPath(p) \/ EndReconcile(p)
    PROVE  TypeOK'
<1> USE Constants
<1>0. pass[p] \in PassState /\ Scanned(p) \subseteq Content
  BY DEF TypeOK, Scanned
<1>1. ASSUME NEW c \in Content, Reconcile(p, c) PROVE TypeOK'
  <2>1. manifest' \in [Content -> Row]
    BY ZenonT(40), <1>1 DEF Reconcile, Returned, TypeOK, Row
  <2>2. [pass[p] EXCEPT !.todo = @ \ {c}] \in PassState
    BY <1>0 DEF PassState
  <2>3. [pass[p] EXCEPT !.pc = "rename", !.cur = c] \in PassState
    BY <1>0 DEF PassState, Phase
  <2> QED BY <1>1, <2>1, <2>2, <2>3, PassStepType DEF Reconcile, TypeOK, store
<1>2. ASSUME pass[p].pc \in {"rename", "repath"}
      PROVE  /\ pass[p].col \in Collection /\ pass[p].cur \in Content
             /\ pass[p].scan[pass[p].cur] \in Path
  <2>1. pass[p].col \in Collection /\ pass[p].cur \in Scanned(p)
    BY <1>2 DEF PhaseOK, PassPhase
  <2> QED BY <1>0, <2>1 DEF Scanned, PassState
<1>3. CASE RefreshName(p)
  <2> DEFINE s == pass[p]
             renamed == {IF pt.id \in s.db[s.cur].uuids
                         THEN [pt EXCEPT !.name = s.scan[s.cur]] ELSE pt :
                           pt \in points[s.col]}
  <2>1. s.pc = "rename"
    BY <1>3 DEF RefreshName
  <2>2. renamed \subseteq Point
    <3>1. points[s.col] \subseteq Point
      BY <1>2, <2>1 DEF TypeOK
    <3>2. \A pt \in Point : [pt EXCEPT !.name = s.scan[s.cur]] \in Point
      BY <1>2, <2>1 DEF Point
    <3> QED BY <3>1, <3>2
  <2>3. points' = [points EXCEPT ![s.col] = renamed]
    BY <1>3 DEF RefreshName
  <2>4. points' \in [Collection -> SUBSET Point]
    BY <2>2, <2>3 DEF TypeOK
  <2>5. [s EXCEPT !.pc = "repath"] \in PassState
    BY <1>0 DEF PassState, Phase
  <2> QED BY <1>3, <2>4, <2>5, PassStepType DEF RefreshName, TypeOK
<1>4. CASE SetPath(p)
  <2>1. pass[p].pc = "repath"
    BY <1>4 DEF SetPath
  <2>2. manifest' \in [Content -> Row]
    BY SMTT(30), <1>2, <1>4, <2>1 DEF SetPath, TypeOK, Row
  <2>3. [pass[p] EXCEPT !.pc = "reconcile", !.todo = @ \ {pass[p].cur},
           !.cur = NoFile] \in PassState
    BY <1>0 DEF PassState, Phase
  <2> QED BY <1>4, <2>2, <2>3, PassStepType DEF SetPath, TypeOK, store
<1>5. CASE EndReconcile(p)
  <2>1. [pass[p] EXCEPT
           !.pc = IF pass[p].mode = "watch" THEN "mark" ELSE "prune",
           !.db = NoRows,
           !.todo = Recorded(pass[p].db) \ Scanned(p)] \in PassState
    <3>1. Recorded(pass[p].db) \ Scanned(p) \subseteq Content
      BY DEF Recorded
    <3>2. (IF pass[p].mode = "watch" THEN "mark" ELSE "prune") \in Phase
      BY DEF Phase
    <3> QED BY <1>0, <3>1, <3>2, NoRowsType DEF PassState
  <2> QED BY <1>5, <2>1, PassStepType DEF EndReconcile, TypeOK, store
<1> QED BY <1>1, <1>3, <1>4, <1>5

LEMMA PruneType ==
    ASSUME TypeOK, PhaseOK, NEW p \in Proc,
           \/ \E c \in Content : DropRow(p, c)
           \/ DropPoints(p)
           \/ \E c \in Content : MarkDeparted(p, c)
           \/ EndMark(p)
           \/ \E c \in Content : ReapPoints(p, c)
           \/ ReapRow(p) \/ EndIncremental(p)
    PROVE  TypeOK'
<1> USE Constants, NoRowsType
<1>0. pass[p] \in PassState
  BY DEF TypeOK
<1>1. ASSUME NEW k \in Collection, NEW ids
      PROVE  [points EXCEPT ![k] = Without(@, ids)] \in [Collection -> SUBSET Point]
  BY DEF TypeOK, Without
<1>2. ASSUME NEW c \in Content, DropRow(p, c) PROVE TypeOK'
  <2>1. manifest' \in [Content -> Row]
    BY <1>2 DEF DropRow, TypeOK
  <2>2. RecordedUuids(c) \subseteq PointId
    BY DEF RecordedUuids, TypeOK, Row
  <2>3. [pass[p] EXCEPT !.pc = "drop", !.todo = @ \ {c},
           !.ids = RecordedUuids(c)] \in PassState
    BY <1>0, <2>2 DEF PassState, Phase
  <2> QED BY <1>2, <2>1, <2>3, PassStepType DEF DropRow, TypeOK, store
<1>3. CASE DropPoints(p)
  <2>1. pass[p].col \in Collection
    BY <1>3 DEF DropPoints, PhaseOK, PassPhase
  <2>2. points' \in [Collection -> SUBSET Point]
    BY <1>1, <1>3, <2>1 DEF DropPoints
  <2>3. [pass[p] EXCEPT !.pc = "prune", !.ids = {}] \in PassState
    BY <1>0 DEF PassState, Phase
  <2> QED BY <1>3, <2>2, <2>3, PassStepType DEF DropPoints, TypeOK
<1>4. ASSUME NEW c \in Content, MarkDeparted(p, c) PROVE TypeOK'
  <2>1. pass[p].lag \in Age
    BY <1>0 DEF PassState, Age
  <2>2. manifest' \in [Content -> Row]
    BY <1>4, <2>1 DEF MarkDeparted, Coalesce, TypeOK, Row
  <2>3. [pass[p] EXCEPT !.todo = @ \ {c}] \in PassState
    BY <1>0 DEF PassState
  <2> QED BY <1>4, <2>2, <2>3, PassStepType DEF MarkDeparted, TypeOK, store
<1>5. CASE EndMark(p)
  <2>1. DepartedDue(p) \subseteq Content
    BY DEF DepartedDue, Recorded
  <2>2. [pass[p] EXCEPT !.pc = "reap", !.db = manifest,
           !.todo = DepartedDue(p)] \in PassState
    BY <1>0, <2>1 DEF PassState, Phase, TypeOK
  <2> QED BY <1>5, <2>2, PassStepType DEF EndMark, TypeOK, store
<1>6. ASSUME NEW c \in Content, ReapPoints(p, c) PROVE TypeOK'
  <2>1. pass[p].col \in Collection
    BY <1>6 DEF ReapPoints, PhaseOK, PassPhase
  <2>2. points' \in [Collection -> SUBSET Point]
    BY <1>1, <1>6, <2>1 DEF ReapPoints
  <2>3. [pass[p] EXCEPT !.pc = "unrecord", !.cur = c] \in PassState
    BY <1>0 DEF PassState, Phase
  <2> QED BY <1>6, <2>2, <2>3, PassStepType DEF ReapPoints, TypeOK
<1>7. CASE ReapRow(p)
  <2>1. manifest' \in [Content -> Row]
    BY <1>7 DEF ReapRow, TypeOK
  <2>2. [pass[p] EXCEPT !.pc = "reap", !.todo = @ \ {pass[p].cur},
           !.cur = NoFile] \in PassState
    BY <1>0 DEF PassState, Phase
  <2> QED BY <1>7, <2>1, <2>2, PassStepType DEF ReapRow, TypeOK, store
<1>8. CASE EndIncremental(p)
  <2>1. [pass[p] EXCEPT !.pc = "done"] \in PassState
    BY <1>0 DEF PassState, Phase
  <2> QED BY <1>8, <2>1, PassStepType DEF EndIncremental, TypeOK, store
<1> QED BY <1>2, <1>3, <1>4, <1>5, <1>6, <1>7, <1>8

LEMMA RebuildEndType ==
    ASSUME TypeOK, PhaseOK, NEW p \in Proc,
           \/ ReplaceAll(p) \/ DropLegacy(p) \/ CreateAlias(p)
           \/ SwitchAlias(p) \/ DropOld(p)
    PROVE  TypeOK'
<1> USE Constants, NoRowsType
<1>0. pass[p] \in PassState
      /\ (pass[p].pc \notin {"idle", "done"} => pass[p].col \in Collection)
  BY DEF TypeOK, PhaseOK, PassPhase
<1>1. CASE ReplaceAll(p)
  <2>1. manifest' \in [Content -> Row]
    BY <1>0, <1>1 DEF ReplaceAll, Replacement, PassState
  <2>2. [pass[p] EXCEPT !.pc = "switch", !.rows = NoRows] \in PassState
    BY <1>0 DEF PassState, Phase
  <2> QED BY <1>1, <2>1, <2>2, PassStepType DEF ReplaceAll, TypeOK, store
<1>2. CASE DropLegacy(p)
  <2>1. [pass[p] EXCEPT !.pc = "migrate"] \in PassState
    BY <1>0 DEF PassState, Phase
  <2> QED BY <1>2, <2>1, PassStepType DEF DropLegacy, TypeOK
<1>3. CASE CreateAlias(p)
  <2>1. [pass[p] EXCEPT !.pc = "done"] \in PassState
    BY <1>0 DEF PassState, Phase
  <2> QED BY <1>0, <1>3, <2>1, PassStepType DEF CreateAlias, TypeOK
<1>4. CASE SwitchAlias(p)
  <2>1. [pass[p] EXCEPT !.pc = "done"] \in PassState
    BY <1>0 DEF PassState, Phase
  <2>2. [pass[p] EXCEPT !.pc = "retire", !.col = OldCollection(p)] \in PassState
    BY <1>0 DEF PassState, Phase, OldCollection, TypeOK
  <2> QED BY <1>0, <1>4, <2>1, <2>2, PassStepType
          DEF SwitchAlias, AtSwitch, TypeOK
<1>5. CASE DropOld(p)
  <2>1. [pass[p] EXCEPT !.pc = "done", !.col = alias] \in PassState
    BY <1>0 DEF PassState, Phase, TypeOK
  <2> QED BY <1>0, <1>5, <2>1, PassStepType DEF DropOld, TypeOK
<1> QED BY <1>1, <1>2, <1>3, <1>4, <1>5

-----------------------------------------------------------------------------
(***************************************************************************)
(* One writer.  The steps within a pass leave the lock and everybody       *)
(* else's pass alone.                                                      *)
(***************************************************************************)
WorkStep(p) ==
    \/ (\E f \in Path : HashNext(p, f)) \/ ReadManifest(p)
    \/ (\E c \in Content : OpenFile(p, c))
    \/ UpsertBatch(p) \/ RecordRow(p) \/ EndAdd(p)
    \/ (\E c \in Content : Reconcile(p, c))
    \/ RefreshName(p) \/ SetPath(p) \/ EndReconcile(p)
    \/ (\E c \in Content : DropRow(p, c)) \/ DropPoints(p)
    \/ (\E c \in Content : MarkDeparted(p, c)) \/ EndMark(p)
    \/ (\E c \in Content : ReapPoints(p, c))
    \/ ReapRow(p) \/ EndIncremental(p)
    \/ ReplaceAll(p) \/ DropLegacy(p) \/ CreateAlias(p)
    \/ SwitchAlias(p) \/ DropOld(p)

EndStep(p) == \/ Release(p) \/ Abort(p)
              \/ \E f \in Path : HashVanished(p, f)
              \/ \E c \in Content : FileVanished(p, c)

BeginStep(p) == BeginIncremental(p) \/ \E k \in Collection : BeginRebuild(p, k)

LEMMA NextCases ==
    Next => \/ Environment
            \/ \E p \in Proc : BeginStep(p) \/ WorkStep(p) \/ EndStep(p)
BY DEF Next, Progress, BeginStep, WorkStep, EndStep

LEMMA TypeStep ==
    ASSUME TypeOK, PhaseOK, [Next]_vars PROVE TypeOK'
<1>1. ASSUME NEW p \in Proc, WorkStep(p) PROVE TypeOK'
  BY <1>1, ScanType, AddType, ReconcileType, PruneType, RebuildEndType DEF WorkStep
<1>2. CASE UNCHANGED vars
  BY <1>2 DEF vars, TypeOK
<1> QED BY <1>1, <1>2, NextCases, EnvironmentType, BeginType, EndType
        DEF BeginStep, EndStep

Keeps(p) == /\ lock' = lock /\ UNCHANGED tree
            /\ pass[p].pc # "idle" /\ pass'[p].pc # "idle"
            /\ \A q \in Proc : q # p => pass'[q] = pass[q]

LEMMA WorkStepLocal ==
    ASSUME TypeOK, NEW p \in Proc, WorkStep(p)
    PROVE  Keeps(p)
<1> USE DEF Keeps
<1>0. pass \in [Proc -> PassState] /\ pass[p] \in PassState
  BY DEF TypeOK
<1> USE <1>0 DEF Local, PassState
<1>1. CASE \E f \in Path : HashNext(p, f)
  BY <1>1 DEF HashNext, NextListed
<1>2. CASE ReadManifest(p)
  BY <1>2 DEF ReadManifest
<1>3. CASE \E c \in Content : OpenFile(p, c)
  BY <1>3 DEF OpenFile
<1>4. CASE UpsertBatch(p)
  BY <1>4 DEF UpsertBatch
<1>5. CASE RecordRow(p)
  <2> DEFINE t == NextFile(pass[p])
             r == [t.rows EXCEPT ![pass[p].cur] =
                     FreshRow(pass[p].ids, pass[p].scan[pass[p].cur])]
  <2>1. t.pc = "add" /\ DOMAIN t = DOMAIN pass[p] /\ "pc" \in DOMAIN pass[p]
    BY DEF NextFile
  <2>2. Local(p, [t EXCEPT !.rows = r]) \/ Local(p, t)
    BY <1>5 DEF RecordRow
  <2>3. [t EXCEPT !.rows = r].pc = "add"
    BY <2>1
  <2> HIDE DEF t, r
  <2> QED BY <1>5, <2>1, <2>2, <2>3 DEF RecordRow
<1>6. CASE EndAdd(p)
  BY <1>6 DEF EndAdd
<1>7. CASE \E c \in Content : Reconcile(p, c)
  BY <1>7 DEF Reconcile
<1>8. CASE RefreshName(p)
  BY <1>8 DEF RefreshName
<1>9. CASE SetPath(p)
  BY <1>9 DEF SetPath
<1>10. CASE EndReconcile(p)
  BY <1>10 DEF EndReconcile
<1>11. CASE \E c \in Content : DropRow(p, c)
  BY <1>11 DEF DropRow
<1>12. CASE DropPoints(p)
  BY <1>12 DEF DropPoints
<1>13. CASE \E c \in Content : MarkDeparted(p, c)
  BY <1>13 DEF MarkDeparted
<1>14. CASE EndMark(p)
  BY <1>14 DEF EndMark
<1>15. CASE \E c \in Content : ReapPoints(p, c)
  BY <1>15 DEF ReapPoints
<1>16. CASE ReapRow(p)
  BY <1>16 DEF ReapRow
<1>17. CASE EndIncremental(p)
  BY <1>17 DEF EndIncremental
<1>18. CASE ReplaceAll(p)
  BY <1>18 DEF ReplaceAll
<1>19. CASE DropLegacy(p)
  BY <1>19 DEF DropLegacy, AtSwitch
<1>20. CASE CreateAlias(p)
  BY <1>20 DEF CreateAlias
<1>21. CASE SwitchAlias(p)
  BY <1>21 DEF SwitchAlias, AtSwitch
<1>22. CASE DropOld(p)
  BY <1>22 DEF DropOld
<1> QED BY <1>1, <1>2, <1>3, <1>4, <1>5, <1>6, <1>7, <1>8, <1>9, <1>10, <1>11,
           <1>12, <1>13, <1>14, <1>15, <1>16, <1>17, <1>18, <1>19, <1>20, <1>21, <1>22 DEF WorkStep

LEMMA BlankIsIdle == Blank.pc = "idle"
BY DEF Blank

LEMMA BeginStepLocal ==
    ASSUME TypeOK, OneWriter, NEW p \in Proc, BeginStep(p)
    PROVE  /\ lock = Nobody /\ lock' = p /\ UNCHANGED tree
           /\ pass'[p].pc = "scan" /\ manifest' = manifest
           /\ pass'[p].scan = NoScan /\ pass'[p].rows = NoRows
           /\ pass'[p].ids = {} /\ pass'[p].col \in Collection
           /\ \A q \in Proc : pass[q].pc = "idle"
           /\ \A q \in Proc : q # p => pass'[q] = pass[q]
<1>0. pass \in [Proc -> PassState] /\ lock \in Proc \cup {Nobody}
  BY DEF TypeOK
<1>1. CASE BeginIncremental(p)
  BY <1>0, <1>1, Constants DEF BeginIncremental, Acquire, LockFree, OneWriter, Running,
                    Local, Blank, Live, TypeOK
<1>2. ASSUME NEW k \in Collection, BeginRebuild(p, k)
      PROVE  /\ lock = Nobody /\ lock' = p /\ UNCHANGED tree
             /\ pass'[p].pc = "scan" /\ manifest' = manifest
             /\ pass'[p].scan = NoScan /\ pass'[p].rows = NoRows
             /\ pass'[p].ids = {} /\ pass'[p].col \in Collection
             /\ \A q \in Proc : pass[q].pc = "idle"
             /\ \A q \in Proc : q # p => pass'[q] = pass[q]
  BY <1>0, <1>2, Constants DEF BeginRebuild, Acquire, LockFree, OneWriter, Running, Local, Blank
<1> QED BY <1>1, <1>2 DEF BeginStep

LEMMA EndStepLocal ==
    ASSUME TypeOK, NEW p \in Proc, EndStep(p)
    PROVE  /\ pass[p].pc # "idle" /\ lock' = Nobody
           /\ UNCHANGED <<tree, manifest, store>>
           /\ pass' = [pass EXCEPT ![p] = Blank]
BY DEF EndStep, Release, Abort, HashVanished, NextListed, FileVanished, Die, Local

(* Time passing and edits leave every pass where it is. *)
LEMMA EnvironmentLocal ==
    ASSUME TypeOK, Environment
    PROVE  /\ UNCHANGED <<colls, points, alias, lock>>
           /\ \A c \in Content : /\ manifest'[c].uuids = manifest[c].uuids
                                 /\ manifest'[c].path = manifest[c].path
           /\ \A q \in Proc :
                \/ pass'[q] = pass[q]
                \/ pass'[q] = [pass[q] EXCEPT !.lag = pass[q].lag + 1]
<1>0. manifest \in [Content -> Row] /\ pass \in [Proc -> PassState]
  BY DEF TypeOK
<1>1. CASE Tick
  <2>1. \A c \in Content : /\ manifest'[c].uuids = manifest[c].uuids
                           /\ manifest'[c].path = manifest[c].path
    BY <1>0, <1>1 DEF Tick, Row
  <2>2. \A q \in Proc : \/ pass'[q] = pass[q]
                        \/ pass'[q] = [pass[q] EXCEPT !.lag = pass[q].lag + 1]
    BY <1>0, <1>1 DEF Tick
  <2> QED BY <1>1, <2>1, <2>2 DEF Tick
<1>2. CASE ~ Tick
  BY <1>2 DEF Environment, WriteFile, RemoveFile, RenameFile, Edit
<1> QED BY <1>1, <1>2

LEMMA EnvironmentFields ==
    ASSUME TypeOK, Environment, NEW q \in Proc
    PROVE  /\ pass'[q].pc = pass[q].pc /\ pass'[q].mode = pass[q].mode
           /\ pass'[q].col = pass[q].col /\ pass'[q].todo = pass[q].todo
           /\ pass'[q].ids = pass[q].ids /\ pass'[q].rows = pass[q].rows
           /\ pass'[q].db = pass[q].db
<1>0. pass[q] \in PassState
  BY DEF TypeOK
<1>1. CASE pass'[q] = pass[q]
  BY <1>1
<1>2. CASE pass'[q] = [pass[q] EXCEPT !.lag = pass[q].lag + 1]
  BY <1>0, <1>2 DEF PassState
<1> QED BY <1>1, <1>2, EnvironmentLocal

LEMMA OneWriterStep ==
    ASSUME TypeOK, OneWriter, [Next]_vars PROVE OneWriter'
<1>0. pass \in [Proc -> PassState]
  BY DEF TypeOK
<1>1. ASSUME NEW p \in Proc, WorkStep(p) PROVE OneWriter'
  BY <1>1, WorkStepLocal DEF OneWriter, Running, Keeps
<1>2. ASSUME NEW p \in Proc, BeginStep(p) PROVE OneWriter'
  BY <1>2, BeginStepLocal DEF OneWriter, Running
<1>3. ASSUME NEW p \in Proc, EndStep(p) PROVE OneWriter'
  BY <1>0, <1>3, EndStepLocal, BlankIsIdle, Constants DEF OneWriter, Running
<1>4. CASE Environment
  <2>1. \A q \in Proc : pass'[q].pc = pass[q].pc
    BY <1>4, EnvironmentFields
  <2> QED BY <1>4, <2>1, EnvironmentLocal DEF OneWriter, Running
<1>5. CASE UNCHANGED vars
  BY <1>5 DEF vars, OneWriter, Running
<1> QED BY <1>1, <1>2, <1>3, <1>4, <1>5, NextCases

-----------------------------------------------------------------------------
(***************************************************************************)
(* Phases.                                                                 *)
(***************************************************************************)
LEMMA PhaseWork ==
    ASSUME TypeOK, PhaseOK, NEW p \in Proc, WorkStep(p)
    PROVE  PassPhase(p)'
<1>0. pass \in [Proc -> PassState] /\ pass[p] \in PassState /\ PassPhase(p)
  BY DEF TypeOK, PhaseOK
<1> USE <1>0 DEF Local, PassState, PassPhase, Scanned
<1>1. CASE \E f \in Path : HashNext(p, f)
  BY <1>1 DEF HashNext, NextListed
<1>2. CASE ReadManifest(p)
  BY <1>2 DEF ReadManifest
<1>3. CASE \E c \in Content : OpenFile(p, c)
  <2>1. PICK c \in Content : OpenFile(p, c)
    BY <1>3
  <2>2. c \in pass[p].todo /\ disk[pass[p].scan[c]] \in Content
    BY <2>1 DEF OpenFile, Files, TypeOK
  <2> QED BY <2>1, <2>2 DEF OpenFile
<1>4. CASE UpsertBatch(p)
  BY <1>4 DEF UpsertBatch
<1>5. CASE RecordRow(p)
  <2> DEFINE t == NextFile(pass[p])
             r == [t.rows EXCEPT ![pass[p].cur] =
                     FreshRow(pass[p].ids, pass[p].scan[pass[p].cur])]
             u == [t EXCEPT !.rows = r]
  <2>1. /\ t.pc = "add" /\ t.todo = pass[p].todo \ {pass[p].cur}
        /\ t.scan = pass[p].scan /\ t.col = pass[p].col
    BY DEF NextFile
  <2>2. /\ u.pc = t.pc /\ u.todo = t.todo /\ u.scan = t.scan /\ u.col = t.col
    BY DEF NextFile
  <2>3. Local(p, u) \/ Local(p, t)
    BY <1>5 DEF RecordRow
  <2>4. pass[p].pc = "ingest"
    BY <1>5 DEF RecordRow
  <2> HIDE DEF t, r, u
  <2>5. pass'[p] = u \/ pass'[p] = t
    BY <2>3
  <2> QED BY <2>1, <2>2, <2>4, <2>5
<1>6. CASE EndAdd(p)
  BY <1>6 DEF EndAdd
<1>7. CASE \E c \in Content : Reconcile(p, c)
  BY <1>7 DEF Reconcile
<1>8. CASE RefreshName(p)
  BY <1>8 DEF RefreshName
<1>9. CASE SetPath(p)
  BY <1>9 DEF SetPath
<1>10. CASE EndReconcile(p)
  BY <1>10 DEF EndReconcile
<1>11. CASE \E c \in Content : DropRow(p, c)
  BY <1>11 DEF DropRow
<1>12. CASE DropPoints(p)
  BY <1>12 DEF DropPoints
<1>13. CASE \E c \in Content : MarkDeparted(p, c)
  BY <1>13 DEF MarkDeparted
<1>14. CASE EndMark(p)
  BY <1>14 DEF EndMark
<1>15. CASE \E c \in Content : ReapPoints(p, c)
  BY <1>15 DEF ReapPoints
<1>16. CASE ReapRow(p)
  BY <1>16 DEF ReapRow
<1>17. CASE EndIncremental(p)
  BY <1>17 DEF EndIncremental
<1>18. CASE ReplaceAll(p)
  BY <1>18 DEF ReplaceAll
<1>19. CASE DropLegacy(p)
  BY <1>19 DEF DropLegacy, AtSwitch
<1>20. CASE CreateAlias(p)
  BY <1>20 DEF CreateAlias
<1>21. CASE SwitchAlias(p)
  BY <1>21 DEF SwitchAlias, AtSwitch, OldCollection, TypeOK
<1>22. CASE DropOld(p)
  BY <1>22 DEF DropOld
<1> QED BY <1>1, <1>2, <1>3, <1>4, <1>5, <1>6, <1>7, <1>8, <1>9, <1>10, <1>11,
           <1>12, <1>13, <1>14, <1>15, <1>16, <1>17, <1>18, <1>19, <1>20, <1>21, <1>22 DEF WorkStep

LEMMA PhaseStep ==
    ASSUME TypeOK, OneWriter, PhaseOK, [Next]_vars PROVE PhaseOK'
<1>0. pass \in [Proc -> PassState]
  BY DEF TypeOK
<1> SUFFICES ASSUME NEW q \in Proc PROVE PassPhase(q)'
  BY DEF PhaseOK
<1>1. PassPhase(q)
  BY DEF PhaseOK
<1>2. CASE pass'[q] = pass[q]
  BY <1>1, <1>2 DEF PassPhase, Scanned
<1>3. ASSUME NEW p \in Proc, WorkStep(p) PROVE PassPhase(q)'
  BY <1>2, <1>3, PhaseWork, WorkStepLocal DEF Keeps
<1>4. ASSUME NEW p \in Proc, BeginStep(p) PROVE PassPhase(q)'
  <2>1. CASE q = p
    BY <1>4, <2>1, BeginStepLocal DEF PassPhase
  <2> QED BY <1>2, <1>4, <2>1, BeginStepLocal
<1>5. ASSUME NEW p \in Proc, EndStep(p) PROVE PassPhase(q)'
  <2>1. CASE q = p
    BY <1>0, <1>5, <2>1, EndStepLocal, BlankIsIdle DEF PassPhase
  <2> QED BY <1>0, <1>2, <1>5, <2>1, EndStepLocal
<1>6. CASE Environment
  <2>1. CASE pass'[q] = [pass[q] EXCEPT !.lag = pass[q].lag + 1]
    BY <1>0, <1>1, <2>1 DEF PassState, PassPhase, Scanned
  <2> QED BY <1>2, <1>6, <2>1, EnvironmentLocal
<1>7. CASE UNCHANGED vars
  BY <1>2, <1>7 DEF vars
<1> QED BY <1>3, <1>4, <1>5, <1>6, <1>7, NextCases

-----------------------------------------------------------------------------
(***************************************************************************)
(* The alias.  Only its own process runs, so that nobody else's collection *)
(* is at risk in a step.                                                   *)
(***************************************************************************)
LEMMA OthersIdle ==
    ASSUME OneWriter, NEW p \in Proc, pass[p].pc # "idle", NEW q \in Proc, q # p
    PROVE  pass[q].pc = "idle"
BY DEF OneWriter, Running

LEMMA AliasWork ==
    ASSUME TypeOK, PhaseOK, AliasSafe, NEW p \in Proc, WorkStep(p)
    PROVE  AliasResolves' /\ PassAlias(p)'
<1>0. /\ pass \in [Proc -> PassState] /\ pass[p] \in PassState
      /\ PassPhase(p) /\ PassAlias(p) /\ AliasResolves
      /\ alias \in Collection \cup {NoCollection}
  BY DEF TypeOK, PhaseOK, AliasSafe
<1> USE <1>0, Constants DEF Local, PassState, PassAlias, AliasResolves, store
<1>1. CASE \E f \in Path : HashNext(p, f)
  BY <1>1 DEF HashNext, NextListed
<1>2. CASE ReadManifest(p)
  BY <1>2 DEF ReadManifest
<1>3. CASE \E c \in Content : OpenFile(p, c)
  BY <1>3 DEF OpenFile
<1>4. CASE UpsertBatch(p)
  BY <1>4 DEF UpsertBatch
<1>5. CASE RecordRow(p)
  <2> DEFINE t == NextFile(pass[p])
             r == [t.rows EXCEPT ![pass[p].cur] =
                     FreshRow(pass[p].ids, pass[p].scan[pass[p].cur])]
             u == [t EXCEPT !.rows = r]
  <2>1. t.pc = "add" /\ t.mode = pass[p].mode /\ t.col = pass[p].col
    BY DEF NextFile
  <2>2. u.pc = t.pc /\ u.mode = t.mode /\ u.col = t.col
    BY DEF NextFile
  <2>3. Local(p, u) \/ Local(p, t)
    BY <1>5 DEF RecordRow
  <2>4. pass[p].pc = "ingest" /\ UNCHANGED store
    BY <1>5 DEF RecordRow
  <2> HIDE DEF t, r, u
  <2>5. pass'[p] = u \/ pass'[p] = t
    BY <2>3
  <2> QED BY <2>1, <2>2, <2>4, <2>5
<1>6. CASE EndAdd(p)
  BY <1>6 DEF EndAdd
<1>7. CASE \E c \in Content : Reconcile(p, c)
  BY <1>7 DEF Reconcile
<1>8. CASE RefreshName(p)
  BY <1>8 DEF RefreshName
<1>9. CASE SetPath(p)
  BY <1>9 DEF SetPath
<1>10. CASE EndReconcile(p)
  BY <1>10 DEF EndReconcile
<1>11. CASE \E c \in Content : DropRow(p, c)
  BY <1>11 DEF DropRow
<1>12. CASE DropPoints(p)
  BY <1>12 DEF DropPoints
<1>13. CASE \E c \in Content : MarkDeparted(p, c)
  BY <1>13 DEF MarkDeparted
<1>14. CASE EndMark(p)
  BY <1>14 DEF EndMark
<1>15. CASE \E c \in Content : ReapPoints(p, c)
  BY <1>15 DEF ReapPoints
<1>16. CASE ReapRow(p)
  BY <1>16 DEF ReapRow
<1>17. CASE EndIncremental(p)
  BY <1>17 DEF EndIncremental
<1>18. CASE ReplaceAll(p)
  BY <1>18 DEF ReplaceAll
<1>19. CASE DropLegacy(p)
  BY <1>19 DEF DropLegacy, AtSwitch, PassPhase
<1>20. CASE CreateAlias(p)
  BY <1>20 DEF CreateAlias, PassPhase
<1>21. CASE SwitchAlias(p)
  BY <1>21 DEF SwitchAlias, AtSwitch, OldCollection, PassPhase
<1>22. CASE DropOld(p)
  BY <1>22 DEF DropOld, PassPhase
<1> QED BY <1>1, <1>2, <1>3, <1>4, <1>5, <1>6, <1>7, <1>8, <1>9, <1>10, <1>11,
           <1>12, <1>13, <1>14, <1>15, <1>16, <1>17, <1>18, <1>19, <1>20, <1>21, <1>22 DEF WorkStep

LEMMA AliasStep ==
    ASSUME TypeOK, OneWriter, PhaseOK, AliasSafe, [Next]_vars PROVE AliasSafe'
<1>0. pass \in [Proc -> PassState]
  BY DEF TypeOK
<1>1. AliasResolves /\ \A q \in Proc : PassAlias(q)
  BY DEF AliasSafe
<1>2. ASSUME NEW q \in Proc, pass[q].pc = "idle", pass'[q] = pass[q]
      PROVE  PassAlias(q)'
  BY <1>2 DEF PassAlias
<1>3. ASSUME NEW p \in Proc, WorkStep(p) PROVE AliasSafe'
  <2>1. \A q \in Proc : q # p => PassAlias(q)'
    BY <1>2, <1>3, WorkStepLocal, OthersIdle DEF Keeps
  <2> QED BY <1>3, <2>1, AliasWork DEF AliasSafe
<1>4. ASSUME NEW p \in Proc, BeginStep(p) PROVE AliasSafe'
  <2>1. \A q \in Proc : q # p => PassAlias(q)'
    BY <1>2, <1>4, BeginStepLocal
  <2>2. CASE BeginIncremental(p)
    <3>1. pass'[p].mode # "rebuild" /\ pass'[p].pc = "scan" /\ UNCHANGED store
      BY <1>0, <2>2 DEF BeginIncremental, Local, Blank
    <3> QED BY <1>1, <2>1, <3>1 DEF AliasSafe, PassAlias, AliasResolves, store
  <2>3. ASSUME NEW k \in Collection, BeginRebuild(p, k) PROVE AliasSafe'
    <3>1. /\ pass'[p].col = k /\ pass'[p].pc = "scan" /\ pass'[p].mode = "rebuild"
          /\ k \notin colls \cup {Legacy} /\ colls' = colls \cup {k}
          /\ alias' = alias
      BY <1>0, <2>3 DEF BeginRebuild, Local, Blank
    <3>2. k # alias
      BY <1>1, <3>1, Constants DEF AliasResolves
    <3>3. PassAlias(p)' /\ AliasResolves'
      BY <1>1, <3>1, <3>2 DEF PassAlias, AliasResolves
    <3> QED BY <2>1, <3>3 DEF AliasSafe
  <2> QED BY <1>4, <2>2, <2>3 DEF BeginStep
<1>5. ASSUME NEW p \in Proc, EndStep(p) PROVE AliasSafe'
  <2>1. \A q \in Proc : q # p => PassAlias(q)'
    BY <1>0, <1>2, <1>5, EndStepLocal, OthersIdle
  <2>2. PassAlias(p)'
    BY <1>0, <1>5, EndStepLocal, BlankIsIdle DEF PassAlias
  <2>3. AliasResolves'
    BY <1>1, <1>5, EndStepLocal DEF AliasResolves, store
  <2> QED BY <2>1, <2>2, <2>3 DEF AliasSafe
<1>6. CASE Environment
  <2>1. \A q \in Proc : /\ pass'[q].pc = pass[q].pc /\ pass'[q].mode = pass[q].mode
                        /\ pass'[q].col = pass[q].col
    BY <1>6, EnvironmentFields
  <2>2. \A q \in Proc : PassAlias(q)'
    BY <1>1, <1>6, <2>1, EnvironmentLocal DEF PassAlias
  <2> QED BY <1>1, <1>6, <2>2, EnvironmentLocal DEF AliasSafe, AliasResolves
<1>7. CASE UNCHANGED vars
  BY <1>1, <1>7 DEF vars, AliasSafe, PassAlias, AliasResolves
<1> QED BY <1>3, <1>4, <1>5, <1>6, <1>7, NextCases

-----------------------------------------------------------------------------
(***************************************************************************)
(* The ids of points.                                                      *)
(***************************************************************************)
LEMMA InUuidsOf ==
    ASSUME NEW rows, NEW i
    PROVE  i \in UuidsOf(rows) <=> \E c \in Content : i \in rows[c].uuids
BY DEF UuidsOf

LEMMA NoRowsHaveNoUuids == RowsDisjoint(NoRows) /\ UuidsOf(NoRows) = {}
<1>1. \A c \in Content : NoRows[c].uuids = {}
  BY DEF NoRows, NoRow
<1>2. \A i : i \notin UuidsOf(NoRows)
  BY <1>1, InUuidsOf
<1> QED BY <1>1, <1>2 DEF RowsDisjoint

LEMMA FreshIsUnused ==
    ASSUME PointId \ UsedIds # {}, NEW p \in Proc
    PROVE  FreshId \notin UuidsOf(manifest) \cup UuidsOf(pass[p].rows)
BY FreshIdIsFresh DEF UsedIds

(* Recording ids that are in no other row keeps the rows apart.            *)
LEMMA RecordApart ==
    ASSUME NEW rows \in [Content -> Row], RowsDisjoint(rows),
           NEW c \in Content, NEW row \in Row,
           row.uuids \cap UuidsOf(rows) = {}
    PROVE  RowsDisjoint([rows EXCEPT ![c] = row])
<1>1. \A d \in Content : row.uuids \cap rows[d].uuids = {}
  BY InUuidsOf
<1> QED BY <1>1 DEF RowsDisjoint

(* What another row may hold after a row is replaced.                      *)
LEMMA RecordUuids ==
    ASSUME NEW rows \in [Content -> Row], NEW c \in Content, NEW row \in Row
    PROVE  UuidsOf([rows EXCEPT ![c] = row]) \subseteq UuidsOf(rows) \cup row.uuids
<1>1. ASSUME NEW i, i \in UuidsOf([rows EXCEPT ![c] = row])
      PROVE  i \in UuidsOf(rows) \cup row.uuids
  <2>1. PICK d \in Content : i \in [rows EXCEPT ![c] = row][d].uuids
    BY <1>1, InUuidsOf
  <2>2. CASE d = c
    BY <2>1, <2>2
  <2>3. CASE d # c
    BY <2>1, <2>3, InUuidsOf
  <2> QED BY <2>2, <2>3
<1> QED BY <1>1

LEMMA SameUuids ==
    ASSUME NEW rows, NEW rows2, \A c \in Content : rows2[c].uuids = rows[c].uuids
    PROVE  /\ RowsDisjoint(rows) => RowsDisjoint(rows2)
           /\ UuidsOf(rows2) = UuidsOf(rows)
<1>1. \A i : i \in UuidsOf(rows2) <=> i \in UuidsOf(rows)
  BY InUuidsOf
<1> QED BY <1>1 DEF RowsDisjoint

Adding == {"scan", "add", "ingest"}
Reaping == {"reap", "unrecord"}

(* Steps that neither record nor forget ids. *)
LEMMA UuidsKept ==
    ASSUME UuidsApart, NEW p \in Proc,
           \A c \in Content : manifest'[c].uuids = manifest[c].uuids,
           pass'[p].rows = pass[p].rows, pass'[p].ids = pass[p].ids,
           pass'[p].pc \in Adding => pass[p].pc \in Adding,
           pass'[p].pc = "drop" => pass[p].pc = "drop",
           pass'[p].pc \in Reaping =>
             /\ pass[p].pc \in Reaping
             /\ pass'[p].todo \subseteq pass[p].todo /\ pass'[p].db = pass[p].db,
           pass[p].todo \subseteq Content
    PROVE  UuidsDisjoint' /\ PassUuids(p)'
<1>1. UuidsDisjoint /\ PassUuids(p)
  BY DEF UuidsApart
<1>2. UuidsOf(manifest') = UuidsOf(manifest)
  BY SameUuids
<1>3. UuidsDisjoint'
  BY <1>1 DEF UuidsDisjoint
<1> QED BY <1>1, <1>2, <1>3 DEF PassUuids, Adding, Reaping

LEMMA UuidsWork ==
    ASSUME TypeOK, PhaseOK, UuidsApart, NEW p \in Proc, WorkStep(p)
    PROVE  UuidsDisjoint' /\ PassUuids(p)'
<1>0. /\ pass \in [Proc -> PassState] /\ pass[p] \in PassState
      /\ manifest \in [Content -> Row]
      /\ pass[p].todo \subseteq Content
  BY DEF TypeOK, PassState
<1>a. UuidsDisjoint /\ PassUuids(p) /\ RowsDisjoint(manifest) /\ PassPhase(p)
  BY DEF UuidsApart, UuidsDisjoint, RowsDisjoint, PhaseOK
<1>1. CASE \E f \in Path : HashNext(p, f)
  BY <1>0, <1>1, UuidsKept DEF HashNext, NextListed, Local, PassState, Adding, Reaping
<1>2. CASE ReadManifest(p)
  BY <1>0, <1>2, UuidsKept DEF ReadManifest, Local, PassState, Adding, Reaping
<1>3. CASE \E c \in Content : OpenFile(p, c)
  BY <1>0, <1>3, UuidsKept DEF OpenFile, Local, PassState, Adding, Reaping
<1>4. CASE UpsertBatch(p)
  <2> DEFINE i == FreshId
             s == [pass[p] EXCEPT !.left = @ - 1, !.ids = Collected(pass[p], i)]
  <2>1. Local(p, s) /\ pass[p].pc = "ingest" /\ manifest' = manifest
        /\ PointId \ UsedIds # {}
    BY <1>4 DEF UpsertBatch
  <2>2. s.pc = pass[p].pc /\ s.rows = pass[p].rows /\ s.ids = pass[p].ids \cup {i}
    BY <1>0 DEF PassState, Collected
  <2>3. i \notin UuidsOf(manifest) \cup UuidsOf(pass[p].rows)
    BY <2>1, FreshIsUnused
  <2> HIDE DEF i, s
  <2>4. pass'[p] = s
    BY <1>0, <2>1 DEF Local
  <2> QED BY <1>a, <2>1, <2>2, <2>3, <2>4 DEF PassUuids, UuidsDisjoint
<1>5. CASE RecordRow(p)
  <2> DEFINE row == FreshRow(pass[p].ids, pass[p].scan[pass[p].cur])
             t   == NextFile(pass[p])
             r   == [t.rows EXCEPT ![pass[p].cur] = row]
             u   == [t EXCEPT !.rows = r]
             m   == [manifest EXCEPT ![pass[p].cur] = row]
  <2>1. /\ pass[p].pc = "ingest" /\ pass[p].cur \in Content
        /\ pass[p].scan[pass[p].cur] \in Path
    <3>1. pass[p].pc = "ingest"
      BY <1>5 DEF RecordRow
    <3>2. pass[p].cur \in Scanned(p)
      BY <1>a, <3>1 DEF PassPhase
    <3> QED BY <1>0, <3>1, <3>2 DEF Scanned, PassState
  <2>2. /\ row \in Row /\ row.uuids = pass[p].ids
        /\ row.uuids \cap UuidsOf(pass[p].rows) = {}
        /\ row.uuids \cap UuidsOf(manifest) = {}
        /\ RowsDisjoint(pass[p].rows) /\ pass[p].rows \in [Content -> Row]
    BY <1>0, <1>a, <2>1 DEF FreshRow, Row, PassState, NotDeparted, PassUuids
  <2>3. t.pc = "add" /\ t.ids = {} /\ t.rows = pass[p].rows
    BY <1>0 DEF NextFile, PassState
  <2>4. u.pc = t.pc /\ u.ids = t.ids /\ u.rows = r
    BY <1>0 DEF NextFile, PassState
  <2>5. \/ Local(p, u) /\ manifest' = manifest
        \/ Local(p, t) /\ manifest' = m
    BY <1>5 DEF RecordRow
  <2> HIDE DEF row, t, u
  <2>6. RowsDisjoint(r) /\ RowsDisjoint(m)
    BY <1>0, <1>a, <2>1, <2>2, <2>3, RecordApart
  <2> HIDE DEF r, m
  <2>7. \/ pass'[p] = u /\ manifest' = manifest
        \/ pass'[p] = t /\ manifest' = m
    BY <1>0, <2>5 DEF Local
  <2> QED BY <1>a, <2>2, <2>3, <2>4, <2>6, <2>7
          DEF PassUuids, UuidsDisjoint, RowsDisjoint
<1>6. CASE EndAdd(p)
  BY <1>0, <1>6, UuidsKept DEF EndAdd, Local, PassState, Adding, Reaping
<1>7. CASE \E c \in Content : Reconcile(p, c)
  <2>1. PICK c \in Content : Reconcile(p, c)
    BY <1>7
  <2>2. \A d \in Content : manifest'[d].uuids = manifest[d].uuids
    BY <1>0, <2>1 DEF Reconcile, Returned, Row
  <2> QED BY <1>0, <2>1, <2>2, UuidsKept DEF Reconcile, Local, PassState, Adding, Reaping
<1>8. CASE RefreshName(p)
  BY <1>0, <1>8, UuidsKept DEF RefreshName, Local, PassState, Adding, Reaping
<1>9. CASE SetPath(p)
  <2>1. \A d \in Content : manifest'[d].uuids = manifest[d].uuids
    BY <1>0, <1>9 DEF SetPath, Row
  <2> QED BY <1>0, <1>9, <2>1, UuidsKept DEF SetPath, Local, PassState, Adding, Reaping
<1>10. CASE EndReconcile(p)
  BY <1>0, <1>10, UuidsKept DEF EndReconcile, Local, PassState, Adding, Reaping
<1>11. CASE \E c \in Content : DropRow(p, c)
  <2>1. PICK c \in Content : DropRow(p, c)
    BY <1>11
  <2>2. /\ manifest' = [manifest EXCEPT ![c] = NoRow] /\ NoRow.uuids = {}
        /\ pass'[p].pc = "drop" /\ pass'[p].rows = pass[p].rows
        /\ pass'[p].ids = manifest[c].uuids
    BY <1>0, <2>1 DEF DropRow, Local, PassState, RecordedUuids, NoRow
  <2>3. \A d \in Content : manifest'[d].uuids = IF d = c THEN {} ELSE manifest[d].uuids
    BY <1>0, <2>2
  <2>4. UuidsDisjoint'
    BY <1>a, <2>3 DEF UuidsDisjoint
  <2>5. \A d \in Content : manifest[c].uuids \cap manifest'[d].uuids = {}
    BY <1>a, <2>3 DEF UuidsDisjoint
  <2>6. manifest[c].uuids \cap UuidsOf(manifest') = {}
    BY <2>5, InUuidsOf
  <2> QED BY <1>a, <2>2, <2>4, <2>6 DEF PassUuids
<1>12. CASE DropPoints(p)
  <2>1. /\ manifest' = manifest /\ pass'[p].pc = "prune"
        /\ pass'[p].rows = pass[p].rows
    BY <1>0, <1>12 DEF DropPoints, Local, PassState
  <2> QED BY <1>a, <2>1 DEF PassUuids, UuidsDisjoint
<1>13. CASE \E c \in Content : MarkDeparted(p, c)
  <2>1. PICK c \in Content : MarkDeparted(p, c)
    BY <1>13
  <2>2. \A d \in Content : manifest'[d].uuids = manifest[d].uuids
    BY <1>0, <2>1 DEF MarkDeparted, Row
  <2> QED BY <1>0, <2>1, <2>2, UuidsKept DEF MarkDeparted, Local, PassState, Adding, Reaping
<1>14. CASE EndMark(p)
  <2>1. /\ manifest' = manifest /\ pass'[p].pc = "reap"
        /\ pass'[p].rows = pass[p].rows /\ pass'[p].db = manifest
    BY <1>0, <1>14 DEF EndMark, Local, PassState
  <2> QED BY <1>a, <2>1 DEF PassUuids, UuidsDisjoint
<1>15. CASE \E c \in Content : ReapPoints(p, c)
  BY <1>0, <1>15, UuidsKept DEF ReapPoints, Local, PassState, Adding, Reaping
<1>16. CASE ReapRow(p)
  <2>1. /\ manifest' = [manifest EXCEPT ![pass[p].cur] = NoRow] /\ NoRow.uuids = {}
        /\ pass[p].pc = "unrecord" /\ pass'[p].pc = "reap"
        /\ pass'[p].rows = pass[p].rows /\ pass'[p].db = pass[p].db
        /\ pass'[p].todo = pass[p].todo \ {pass[p].cur}
    BY <1>0, <1>16 DEF ReapRow, Local, PassState, NoRow
  <2>2. \A d \in Content : manifest'[d].uuids =
                            IF d = pass[p].cur THEN {} ELSE manifest[d].uuids
    BY <1>0, <2>1
  <2>3. UuidsDisjoint'
    BY <1>a, <2>2 DEF UuidsDisjoint
  <2>4. \A d \in pass'[p].todo : pass'[p].db[d].uuids = manifest'[d].uuids
    BY <1>0, <1>a, <2>1, <2>2 DEF PassUuids
  <2> QED BY <1>a, <2>1, <2>3, <2>4 DEF PassUuids
<1>17. CASE EndIncremental(p)
  BY <1>0, <1>17, UuidsKept DEF EndIncremental, Local, PassState, Adding, Reaping
<1>18. CASE ReplaceAll(p)
  <2>1. /\ manifest' = pass[p].rows /\ pass'[p].pc = "switch"
        /\ pass'[p].rows = NoRows
    BY <1>0, <1>18 DEF ReplaceAll, Replacement, Local, PassState
  <2> QED BY <1>a, <2>1, NoRowsHaveNoUuids DEF PassUuids, UuidsDisjoint, RowsDisjoint
<1>19. CASE DropLegacy(p)
  BY <1>0, <1>19, UuidsKept DEF DropLegacy, AtSwitch, Local, PassState, Adding, Reaping
<1>20. CASE CreateAlias(p)
  BY <1>0, <1>20, UuidsKept DEF CreateAlias, Local, PassState, Adding, Reaping
<1>21. CASE SwitchAlias(p)
  BY <1>0, <1>21, UuidsKept DEF SwitchAlias, AtSwitch, Local, PassState, Adding, Reaping
<1>22. CASE DropOld(p)
  BY <1>0, <1>22, UuidsKept DEF DropOld, Local, PassState, Adding, Reaping
<1> QED BY <1>1, <1>2, <1>3, <1>4, <1>5, <1>6, <1>7, <1>8, <1>9, <1>10, <1>11,
           <1>12, <1>13, <1>14, <1>15, <1>16, <1>17, <1>18, <1>19, <1>20, <1>21, <1>22 DEF WorkStep

LEMMA UuidsStep ==
    ASSUME TypeOK, OneWriter, PhaseOK, UuidsApart, [Next]_vars PROVE UuidsApart'
<1>0. pass \in [Proc -> PassState]
  BY DEF TypeOK
<1>1. UuidsDisjoint /\ \A q \in Proc : PassUuids(q)
  BY DEF UuidsApart
<1>2. ASSUME NEW q \in Proc, pass[q].pc = "idle", pass'[q] = pass[q]
      PROVE  PassUuids(q)'
  BY <1>1, <1>2 DEF PassUuids
<1>3. ASSUME NEW p \in Proc, WorkStep(p) PROVE UuidsApart'
  <2>1. \A q \in Proc : q # p => PassUuids(q)'
    BY <1>2, <1>3, WorkStepLocal, OthersIdle DEF Keeps
  <2> QED BY <1>3, <2>1, UuidsWork DEF UuidsApart
<1>4. ASSUME NEW p \in Proc, BeginStep(p) PROVE UuidsApart'
  <2>1. \A q \in Proc : q # p => PassUuids(q)'
    BY <1>2, <1>4, BeginStepLocal
  <2>2. PassUuids(p)' /\ UuidsDisjoint'
    BY <1>1, <1>4, BeginStepLocal, NoRowsHaveNoUuids DEF PassUuids, UuidsDisjoint
  <2> QED BY <2>1, <2>2 DEF UuidsApart
<1>5. ASSUME NEW p \in Proc, EndStep(p) PROVE UuidsApart'
  <2>1. \A q \in Proc : q # p => PassUuids(q)'
    BY <1>0, <1>2, <1>5, EndStepLocal, OthersIdle
  <2>2. Blank.rows = NoRows
    BY DEF Blank
  <2>3. PassUuids(p)' /\ UuidsDisjoint'
    BY <1>0, <1>1, <1>5, <2>2, EndStepLocal, BlankIsIdle, NoRowsHaveNoUuids
       DEF PassUuids, UuidsDisjoint
  <2> QED BY <2>1, <2>3 DEF UuidsApart
<1>6. CASE Environment
  <2>1. ASSUME NEW q \in Proc PROVE UuidsDisjoint' /\ PassUuids(q)'
    <3>1. pass[q].todo \subseteq Content
      BY <1>0 DEF PassState
    <3> QED BY <1>6, <3>1, EnvironmentFields, EnvironmentLocal, UuidsKept
  <2>2. UuidsDisjoint'
    BY <1>1, <1>6, EnvironmentLocal DEF UuidsDisjoint
  <2> QED BY <2>1, <2>2 DEF UuidsApart
<1>7. CASE UNCHANGED vars
  BY <1>1, <1>7 DEF vars, UuidsApart, PassUuids, UuidsDisjoint
<1> QED BY <1>3, <1>4, <1>5, <1>6, <1>7, NextCases

-----------------------------------------------------------------------------
(***************************************************************************)
(* The inductive invariant.                                                *)
(***************************************************************************)
LEMMA InitIInv == Init => IInv
<1> SUFFICES ASSUME Init PROVE IInv
  OBVIOUS
<1>1. \A p \in Proc : pass[p] = Blank
  BY DEF Init
<1>2. Blank.pc = "idle" /\ Blank.rows = NoRows /\ Blank.mode = "watch"
  BY DEF Blank
<1>3. OneWriter
  BY <1>1, <1>2, Constants DEF Init, OneWriter, Running
<1>4. PhaseOK
  BY <1>1, <1>2 DEF PhaseOK, PassPhase
<1>5. UuidsApart
  BY <1>1, <1>2, NoRowsHaveNoUuids
     DEF Init, UuidsApart, UuidsDisjoint, PassUuids, RowsDisjoint
<1>6. AliasSafe
  BY <1>1, <1>2 DEF Init, AliasSafe, AliasResolves, PassAlias
<1> QED BY InitType, <1>3, <1>4, <1>5, <1>6 DEF IInv

LEMMA IInvStep == IInv /\ [Next]_vars => IInv'
BY TypeStep, OneWriterStep, PhaseStep, UuidsStep, AliasStep DEF IInv

(* The invariant that makes the rest hold step by step is an invariant.    *)
THEOREM Inductive == Spec => []IInv
BY InitIInv, IInvStep, PTL DEF Spec

(* Every variable keeps its type: no pass writes the store or the manifest *)
(* anything but points and rows, whatever it finds in them.                *)
THEOREM TypeCorrect == Spec => []TypeOK
<1>1. IInv => TypeOK
  BY DEF IInv
<1> QED BY <1>1, Inductive, PTL

(* pass_lock: the watcher and the command-line runs, however many, never   *)
(* run passes at the same time, also after passes that died.               *)
THEOREM MutualExclusion == Spec => []OneWriter
<1>1. IInv => OneWriter
  BY DEF IInv
<1> QED BY <1>1, Inductive, PTL

(* corpus_manifest.py: no point is recorded under two checksums, whatever  *)
(* runs and crashes there were, so that deleting what one row records      *)
(* cannot take what another row promises.                                  *)
THEOREM DisjointUuids == Spec => []UuidsDisjoint
<1>1. IInv => UuidsDisjoint
  BY DEF IInv, UuidsApart
<1> QED BY <1>1, Inductive, PTL

(* recreate: whatever rebuilds and crashes there were, the alias names a   *)
(* collection that exists.                                                 *)
THEOREM AliasNeverDangles == Spec => []AliasResolves
<1>1. IInv => AliasResolves
  BY DEF IInv, AliasSafe
<1> QED BY <1>1, Inductive, PTL

-----------------------------------------------------------------------------
(***************************************************************************)
(* Blind deletion is safe: a step takes only points of its own.            *)
(***************************************************************************)
Takes(k, c) == (Ids(points[k]) \ Ids(points'[k])) \cap manifest'[c].uuids

OwnPointsStep ==
    \A k \in colls \cap colls', c \in Content :
      Takes(k, c) # {} => \E p \in Proc : pass'[p].pc = "unrecord" /\ pass'[p].cur = c

(* Where points only grow, nothing is taken. *)
LEMMA NothingTaken ==
    ASSUME \A k \in colls \cap colls' : Ids(points[k]) \subseteq Ids(points'[k])
    PROVE  OwnPointsStep
BY DEF OwnPointsStep, Takes

LEMMA SamePoints == ASSUME points' = points PROVE OwnPointsStep
BY NothingTaken

(* Deleting by id takes no other ids. *)
LEMMA WithoutTakes ==
    ASSUME NEW pts, NEW ids PROVE Ids(pts) \ Ids(Without(pts, ids)) \subseteq ids
BY DEF Ids, Without

LEMMA OwnPointsWork ==
    ASSUME IInv, NEW p \in Proc, WorkStep(p) PROVE OwnPointsStep
<1>0. /\ pass \in [Proc -> PassState] /\ pass[p] \in PassState
      /\ points \in [Collection -> SUBSET Point] /\ colls \subseteq Collection
      /\ PassPhase(p) /\ PassUuids(p) /\ UuidsDisjoint
  BY DEF IInv, TypeOK, PhaseOK, UuidsApart
<1>1. CASE \E f \in Path : HashNext(p, f)
  BY <1>1, SamePoints DEF HashNext, NextListed, store
<1>2. CASE ReadManifest(p)
  BY <1>2, SamePoints DEF ReadManifest, store
<1>3. CASE \E c \in Content : OpenFile(p, c)
  BY <1>3, SamePoints DEF OpenFile, store
<1>4. CASE UpsertBatch(p)
  <2>1. PICK pt : points' = [points EXCEPT ![pass[p].col] = @ \cup {pt}]
    BY <1>4 DEF UpsertBatch
  <2> QED BY <1>0, <2>1, NothingTaken DEF Ids
<1>5. CASE RecordRow(p)
  BY <1>5, SamePoints DEF RecordRow, store
<1>6. CASE EndAdd(p)
  BY <1>6, SamePoints DEF EndAdd, store
<1>7. CASE \E c \in Content : Reconcile(p, c)
  BY <1>7, SamePoints DEF Reconcile, store
<1>8. CASE RefreshName(p)
  <2>1. \A k \in colls : Ids(points[k]) \subseteq Ids(points'[k])
    <3> DEFINE s == pass[p]
               new(pt) == IF pt.id \in s.db[s.cur].uuids
                          THEN [pt EXCEPT !.name = s.scan[s.cur]] ELSE pt
    <3>1. points' = [points EXCEPT ![s.col] = {new(pt) : pt \in @}]
      BY <1>8 DEF RefreshName
    <3>2. \A pt \in Point : new(pt).id = pt.id
      BY DEF Point
    <3> HIDE DEF new, s
    <3>3. ASSUME NEW k \in colls, NEW pt \in points[k]
          PROVE  \E qt \in points'[k] : qt.id = pt.id
      <4>1. pt \in Point
        BY <1>0, <3>3
      <4>2. CASE k = s.col
        BY <1>0, <3>1, <3>2, <4>1, <4>2
      <4>3. CASE k # s.col
        BY <1>0, <3>1, <4>3
      <4> QED BY <4>2, <4>3
    <3> QED BY <3>3 DEF Ids
  <2> QED BY <2>1, NothingTaken
<1>9. CASE SetPath(p)
  BY <1>9, SamePoints DEF SetPath, store
<1>10. CASE EndReconcile(p)
  BY <1>10, SamePoints DEF EndReconcile, store
<1>11. CASE \E c \in Content : DropRow(p, c)
  BY <1>11, SamePoints DEF DropRow, store
<1>12. CASE DropPoints(p)
  <2>1. /\ points' = [points EXCEPT ![pass[p].col] = Without(@, pass[p].ids)]
        /\ manifest' = manifest /\ pass[p].pc = "drop"
    BY <1>12 DEF DropPoints
  <2>2. \A c \in Content : pass[p].ids \cap manifest[c].uuids = {}
    BY <1>0, <2>1, InUuidsOf DEF PassUuids
  <2>3. ASSUME NEW k \in colls \cap colls', NEW c \in Content PROVE Takes(k, c) = {}
    <3>1. CASE k = pass[p].col
      BY <1>0, <2>1, <2>2, <3>1, WithoutTakes DEF Takes
    <3>2. CASE k # pass[p].col
      BY <1>0, <2>1, <3>2 DEF Takes
    <3> QED BY <3>1, <3>2
  <2> QED BY <2>3 DEF OwnPointsStep
<1>13. CASE \E c \in Content : MarkDeparted(p, c)
  BY <1>13, SamePoints DEF MarkDeparted, store
<1>14. CASE EndMark(p)
  BY <1>14, SamePoints DEF EndMark, store
<1>15. CASE \E c \in Content : ReapPoints(p, c)
  <2>1. PICK d \in Content : ReapPoints(p, d)
    BY <1>15
  <2>2. /\ points' = [points EXCEPT ![pass[p].col] = Without(@, pass[p].db[d].uuids)]
        /\ manifest' = manifest /\ pass[p].pc = "reap" /\ d \in pass[p].todo
        /\ pass'[p].pc = "unrecord" /\ pass'[p].cur = d
    BY <1>0, <2>1 DEF ReapPoints, Local, PassState
  <2>3. pass[p].db[d].uuids = manifest[d].uuids
    BY <1>0, <2>2 DEF PassUuids
  <2>4. ASSUME NEW k \in colls \cap colls', NEW c \in Content, c # d
        PROVE  Takes(k, c) = {}
    <3>1. manifest[d].uuids \cap manifest[c].uuids = {}
      BY <1>0, <2>4 DEF UuidsDisjoint
    <3>2. CASE k = pass[p].col
      BY <1>0, <2>2, <2>3, <3>1, <3>2, WithoutTakes DEF Takes
    <3>3. CASE k # pass[p].col
      BY <1>0, <2>2, <3>3 DEF Takes
    <3> QED BY <3>2, <3>3
  <2> QED BY <2>2, <2>4 DEF OwnPointsStep
<1>16. CASE ReapRow(p)
  BY <1>16, SamePoints DEF ReapRow, store
<1>17. CASE EndIncremental(p)
  BY <1>17, SamePoints DEF EndIncremental, store
<1>18. CASE ReplaceAll(p)
  BY <1>18, SamePoints DEF ReplaceAll, store
<1>19. CASE DropLegacy(p)
  <2>1. points' = [points EXCEPT ![Legacy] = {}] /\ colls' = colls \ {Legacy}
    BY <1>19 DEF DropLegacy
  <2>2. \A k \in colls \cap colls' : points'[k] = points[k]
    BY <1>0, <2>1
  <2> QED BY <2>2, NothingTaken
<1>20. CASE CreateAlias(p)
  BY <1>20, SamePoints DEF CreateAlias, store
<1>21. CASE SwitchAlias(p)
  BY <1>21, SamePoints DEF SwitchAlias, store
<1>22. CASE DropOld(p)
  <2>1. points' = [points EXCEPT ![pass[p].col] = {}] /\ colls' = colls \ {pass[p].col}
    BY <1>22 DEF DropOld
  <2>2. \A k \in colls \cap colls' : points'[k] = points[k]
    BY <1>0, <2>1
  <2> QED BY <2>2, NothingTaken
<1> QED BY <1>1, <1>2, <1>3, <1>4, <1>5, <1>6, <1>7, <1>8, <1>9, <1>10, <1>11,
           <1>12, <1>13, <1>14, <1>15, <1>16, <1>17, <1>18, <1>19, <1>20, <1>21, <1>22 DEF WorkStep

(* "Blind delete-by-recorded-UUID is always safe" (corpus_manifest.py): no *)
(* pass of any kind ever deletes a point that a row goes on recording,     *)
(* except for the row it is reaping, in a collection that stays.           *)
THEOREM BlindDeletionIsSafe == Spec => OwnPointsOnly
<1>1. ASSUME IInv, [Next]_vars PROVE OwnPointsStep
  <2>1. ASSUME NEW p \in Proc, BeginStep(p) PROVE OwnPointsStep
    BY <2>1, SamePoints DEF BeginStep, BeginIncremental, BeginRebuild, store
  <2>2. ASSUME NEW p \in Proc, EndStep(p) PROVE OwnPointsStep
    BY <1>1, <2>2, EndStepLocal, SamePoints DEF store, IInv
  <2>3. CASE Environment
    BY <1>1, <2>3, EnvironmentLocal, SamePoints DEF IInv
  <2>4. CASE UNCHANGED vars
    BY <2>4, SamePoints DEF vars
  <2> QED BY <1>1, <2>1, <2>2, <2>3, <2>4, OwnPointsWork, NextCases
<1>2. IInv /\ [Next]_vars => [OwnPointsStep]_vars
  BY <1>1
<1>3. Spec => [][OwnPointsStep]_vars
  BY <1>2, Inductive, PTL DEF Spec
<1> QED BY <1>3 DEF OwnPointsOnly, OwnPointsStep, Takes

-----------------------------------------------------------------------------
(***************************************************************************)
(* The grace period.  Two histories are followed at once, that of the      *)
(* absence of a content and that of its mark, for a tree that changes      *)
(* once: what is so before the change, and what after it.                  *)
(***************************************************************************)
Marked(c) == manifest[c].departed # NotDeparted

(* A mark is on a row, a pass's list of rows has none, and a pass reads    *)
(* the clock when it gets to departed content; until then it goes by rows  *)
(* the manifest still has.                                                 *)
PassKept(p) ==
    LET s == pass[p] IN
    /\ \A c \in Content : s.rows[c].departed = NotDeparted
    /\ s.pc \notin TimedPhase \cup {"done"} => s.lag = 0
    /\ s.pc \in {"scan", "add", "ingest", "reconcile", "rename", "repath"} =>
         \A c \in Content : s.db[c].path # NoPath => manifest[c].path # NoPath
    /\ s.pc = "mark" => \A c \in s.todo : manifest[c].path # NoPath

KeptOK == /\ \A c \in Content : Marked(c) => manifest[c].path # NoPath
          /\ \A p \in Proc : pass[p].pc # "idle" => PassKept(p)

(* A pass begins with what it listed, and with empty hands.                *)
LEMMA BeginFresh ==
    ASSUME TypeOK, NEW p \in Proc, BeginStep(p)
    PROVE  /\ pass'[p].db = NoRows /\ pass'[p].lag = 0 /\ pass'[p].listing = Files
           /\ pass'[p].todo = {} /\ edits' = edits
<1>0. pass \in [Proc -> PassState]
  BY DEF TypeOK
<1>1. CASE BeginIncremental(p)
  BY <1>0, <1>1 DEF BeginIncremental, Local, Blank, tree
<1>2. ASSUME NEW k \in Collection, BeginRebuild(p, k)
      PROVE  /\ pass'[p].db = NoRows /\ pass'[p].lag = 0 /\ pass'[p].listing = Files
             /\ pass'[p].todo = {} /\ edits' = edits
  BY <1>0, <1>2 DEF BeginRebuild, Local, Blank, tree
<1> QED BY <1>1, <1>2 DEF BeginStep

(* What a pass does, one step after another.                               *)
LEMMA KeptWork ==
    ASSUME TypeOK, PhaseOK, KeptOK, NEW p \in Proc, WorkStep(p)
    PROVE  (\A c \in Content : Marked(c)' => manifest'[c].path # NoPath) /\ PassKept(p)'
<1>0. /\ pass \in [Proc -> PassState] /\ pass[p] \in PassState
      /\ manifest \in [Content -> Row] /\ pass[p].pc # "idle"
      /\ PassPhase(p) /\ PassKept(p)
      /\ \A c \in Content : Marked(c) => manifest[c].path # NoPath
  BY WorkStepLocal DEF TypeOK, PhaseOK, KeptOK, Keeps
<1>a. NoPath \notin Path /\ \A c \in Content : NoRows[c] = NoRow /\ NoRow.departed = NotDeparted
  BY Constants DEF NoRows, NoRow
<1> USE <1>0, <1>a DEF Local, PassState, PassKept, Marked, TimedPhase
<1>1. CASE \E f \in Path : HashNext(p, f)
  BY <1>1 DEF HashNext, NextListed
<1>2. CASE ReadManifest(p)
  BY <1>2 DEF ReadManifest
<1>3. CASE \E c \in Content : OpenFile(p, c)
  BY <1>3 DEF OpenFile
<1>4. CASE UpsertBatch(p)
  BY <1>4 DEF UpsertBatch
<1>5. CASE RecordRow(p)
  <2> DEFINE s == pass[p]
             t == NextFile(s)
             row == FreshRow(s.ids, s.scan[s.cur])
             r == [t.rows EXCEPT ![s.cur] = row]
             u == [t EXCEPT !.rows = r]
  <2>1. s.pc = "ingest" /\ s.cur \in s.todo /\ s.todo \subseteq Scanned(p)
    BY <1>5 DEF RecordRow, PassPhase
  <2>2. s.cur \in Content /\ s.scan[s.cur] # NoPath
    BY <2>1 DEF Scanned
  <2>3. /\ t.pc = "add" /\ t.rows = s.rows /\ t.lag = s.lag /\ t.db = s.db
        /\ u.pc = "add" /\ u.rows = r /\ u.lag = s.lag /\ u.db = s.db
    BY DEF NextFile
  <2>4. row.departed = NotDeparted /\ row.path # NoPath
    BY <2>2 DEF FreshRow
  <2>5. \A c \in Content : r[c].departed = NotDeparted
    BY <2>3, <2>4
  <2>6. \/ pass'[p] = u /\ manifest' = manifest
        \/ pass'[p] = t /\ manifest' = [manifest EXCEPT ![s.cur] = row]
    BY <1>5 DEF RecordRow
  <2> HIDE DEF s, t, u, r, row
  <2>7. CASE pass'[p] = u /\ manifest' = manifest
    BY <2>1, <2>3, <2>5, <2>7 DEF s
  <2>8. CASE pass'[p] = t /\ manifest' = [manifest EXCEPT ![s.cur] = row]
    BY <2>1, <2>2, <2>3, <2>4, <2>8 DEF s
  <2> QED BY <2>6, <2>7, <2>8
<1>6. CASE EndAdd(p)
  BY <1>6 DEF EndAdd
<1>7. CASE \E c \in Content : Reconcile(p, c)
  BY <1>7 DEF Reconcile, Returned, Row
<1>8. CASE RefreshName(p)
  BY <1>8 DEF RefreshName
<1>9. CASE SetPath(p)
  <2>1. /\ pass[p].pc = "repath" /\ pass[p].cur \in Content
        /\ pass[p].scan[pass[p].cur] # NoPath
    BY <1>9 DEF SetPath, PassPhase, Scanned
  <2>2. \A c \in Content : /\ manifest'[c].departed = manifest[c].departed
                           /\ manifest[c].path # NoPath => manifest'[c].path # NoPath
    BY <1>9, <2>1 DEF SetPath, Row
  <2>3. /\ pass'[p].pc = "reconcile" /\ pass'[p].rows = pass[p].rows
        /\ pass'[p].lag = pass[p].lag /\ pass'[p].db = pass[p].db
    BY <1>9 DEF SetPath
  <2> QED BY <2>1, <2>2, <2>3
<1>10. CASE EndReconcile(p)
  <2> DEFINE late == Recorded(pass[p].db) \ Scanned(p)
  <2>1. /\ pass[p].pc = "reconcile" /\ manifest' = manifest
        /\ pass'[p].pc \in {"mark", "prune"} /\ pass'[p].rows = pass[p].rows
        /\ pass'[p].lag = pass[p].lag /\ pass'[p].todo = late
    BY <1>10 DEF EndReconcile
  <2>2. \A c \in late : c \in Content /\ pass[p].db[c].path # NoPath
    BY DEF Recorded
  <2> HIDE DEF late
  <2> QED BY <2>1, <2>2
<1>11. CASE \E c \in Content : DropRow(p, c)
  BY <1>11 DEF DropRow
<1>12. CASE DropPoints(p)
  BY <1>12 DEF DropPoints
<1>13. CASE \E c \in Content : MarkDeparted(p, c)
  BY <1>13 DEF MarkDeparted, Coalesce, Row
<1>14. CASE EndMark(p)
  BY <1>14 DEF EndMark
<1>15. CASE \E c \in Content : ReapPoints(p, c)
  BY <1>15 DEF ReapPoints
<1>16. CASE ReapRow(p)
  BY <1>16 DEF ReapRow
<1>17. CASE EndIncremental(p)
  BY <1>17 DEF EndIncremental
<1>18. CASE ReplaceAll(p)
  BY <1>18 DEF ReplaceAll, Replacement
<1>19. CASE DropLegacy(p)
  BY <1>19 DEF DropLegacy, AtSwitch
<1>20. CASE CreateAlias(p)
  BY <1>20 DEF CreateAlias
<1>21. CASE SwitchAlias(p)
  BY <1>21 DEF SwitchAlias, AtSwitch
<1>22. CASE DropOld(p)
  BY <1>22 DEF DropOld
<1> QED BY <1>1, <1>2, <1>3, <1>4, <1>5, <1>6, <1>7, <1>8, <1>9, <1>10, <1>11,
           <1>12, <1>13, <1>14, <1>15, <1>16, <1>17, <1>18, <1>19, <1>20, <1>21, <1>22 DEF WorkStep

(* A tick ages what is marked and the passes that have read the clock.     *)
LEMMA TickFields ==
    ASSUME TypeOK, Tick
    PROVE  /\ UNCHANGED <<disk, edits>>
           /\ \A c \in Content : /\ manifest'[c].path = manifest[c].path
                                 /\ Marked(c)' <=> Marked(c)
                                 /\ Marked(c) => manifest'[c].departed = Older(manifest[c].departed)
                                 /\ c \notin OnDisk => gone'[c] = Older(gone[c])
           /\ \A q \in Proc :
                /\ pass'[q].pc = pass[q].pc /\ pass'[q].mode = pass[q].mode
                /\ pass'[q].listing = pass[q].listing /\ pass'[q].scan = pass[q].scan
                /\ pass'[q].db = pass[q].db /\ pass'[q].rows = pass[q].rows
                /\ pass'[q].todo = pass[q].todo /\ pass'[q].cur = pass[q].cur
                /\ pass[q].pc \in TimedPhase => /\ pass'[q].lag = pass[q].lag + 1
                                                /\ pass[q].lag < MaxLag
                /\ pass[q].pc \notin TimedPhase => pass'[q].lag = pass[q].lag
<1>0. pass \in [Proc -> PassState] /\ manifest \in [Content -> Row] /\ gone \in [Content -> Age]
  BY DEF TypeOK
<1>1. ASSUME NEW c \in Content
      PROVE  /\ manifest'[c].path = manifest[c].path
             /\ Marked(c)' <=> Marked(c)
             /\ Marked(c) => manifest'[c].departed = Older(manifest[c].departed)
             /\ c \notin OnDisk => gone'[c] = Older(gone[c])
  <2>1. manifest[c] \in Row
    BY <1>0
  <2>2. CASE ~ Marked(c)
    <3>1. manifest'[c] = manifest[c] /\ (c \notin OnDisk => gone'[c] = Older(gone[c]))
      BY <2>2 DEF Tick, Marked
    <3> QED BY <2>2, <3>1 DEF Marked
  <2>3. CASE Marked(c)
    <3>1. /\ manifest'[c] = [manifest[c] EXCEPT !.departed = Older(@)]
          /\ c \notin OnDisk => gone'[c] = Older(gone[c])
      BY <2>3 DEF Tick, Marked
    <3>2. manifest[c].departed \in Nat
      BY <2>1, <2>3, Constants DEF Row, Age, Marked
    <3>3. Older(manifest[c].departed) \in Nat
      BY <3>2 DEF Older
    <3> QED BY <2>1, <2>3, <3>1, <3>3 DEF Marked, Row, NotDeparted
  <2> QED BY <2>2, <2>3
<1>2. ASSUME NEW q \in Proc
      PROVE  /\ pass'[q].pc = pass[q].pc /\ pass'[q].mode = pass[q].mode
             /\ pass'[q].listing = pass[q].listing /\ pass'[q].scan = pass[q].scan
             /\ pass'[q].db = pass[q].db /\ pass'[q].rows = pass[q].rows
             /\ pass'[q].todo = pass[q].todo /\ pass'[q].cur = pass[q].cur
             /\ pass[q].pc \in TimedPhase => /\ pass'[q].lag = pass[q].lag + 1
                                             /\ pass[q].lag < MaxLag
             /\ pass[q].pc \notin TimedPhase => pass'[q].lag = pass[q].lag
  <2>1. pass[q] \in PassState
    BY <1>0
  <2>2. pass'[q] = IF pass[q].pc \in TimedPhase
                   THEN [pass[q] EXCEPT !.lag = @ + 1] ELSE pass[q]
    BY DEF Tick
  <2>3. pass[q].pc \in TimedPhase => pass[q].lag < MaxLag
    BY DEF Tick
  <2> QED BY <2>1, <2>2, <2>3 DEF PassState
<1> QED BY <1>1, <1>2 DEF Tick

LEMMA EditFields ==
    ASSUME TypeOK, Environment, ~ Tick
    PROVE  edits' = edits + 1 /\ UNCHANGED <<manifest, pass>>
BY DEF Environment, WriteFile, RemoveFile, RenameFile, Edit

LEMMA KeptStep ==
    ASSUME IInv, KeptOK, [Next]_vars PROVE KeptOK'
<1>0. /\ TypeOK /\ OneWriter /\ PhaseOK /\ pass \in [Proc -> PassState]
      /\ \A c \in Content : Marked(c) => manifest[c].path # NoPath
  BY DEF IInv, TypeOK, KeptOK
<1>1. ASSUME NEW p \in Proc, WorkStep(p) PROVE KeptOK'
  <2>1. ASSUME NEW q \in Proc, q # p PROVE pass'[q].pc = "idle"
    BY <1>0, <1>1, <2>1, OthersIdle, WorkStepLocal DEF Keeps
  <2> QED BY <1>0, <1>1, <2>1, KeptWork DEF KeptOK
<1>2. ASSUME NEW p \in Proc, BeginStep(p) PROVE KeptOK'
  <2>1. ASSUME NEW q \in Proc, q # p PROVE pass'[q].pc = "idle"
    BY <1>0, <1>2, <2>1, BeginStepLocal
  <2>2. PassKept(p)'
    BY <1>0, <1>2, BeginFresh, BeginStepLocal, Constants
       DEF PassKept, TimedPhase, NoRows, NoRow
  <2>3. manifest' = manifest
    BY <1>0, <1>2, BeginStepLocal
  <2> QED BY <1>0, <2>1, <2>2, <2>3 DEF KeptOK, Marked
<1>3. ASSUME NEW p \in Proc, EndStep(p) PROVE KeptOK'
  <2>1. manifest' = manifest /\ pass[p].pc # "idle" /\ pass' = [pass EXCEPT ![p] = Blank]
    BY <1>0, <1>3, EndStepLocal
  <2>2. ASSUME NEW q \in Proc PROVE pass'[q].pc = "idle"
    BY <1>0, <2>1, OthersIdle, BlankIsIdle
  <2> QED BY <1>0, <2>1, <2>2 DEF KeptOK, Marked
<1>4. CASE Environment
  <2>1. CASE Tick
    <3>1. \A c \in Content : Marked(c)' => manifest'[c].path # NoPath
      BY <1>0, <2>1, TickFields
    <3>2. ASSUME NEW q \in Proc, pass'[q].pc # "idle" PROVE PassKept(q)'
      <4>1. pass[q].pc # "idle" /\ PassKept(q)
        BY <1>0, <2>1, <3>2, TickFields DEF KeptOK
      <4>2. /\ pass'[q].rows = pass[q].rows /\ pass'[q].pc = pass[q].pc
            /\ pass'[q].db = pass[q].db /\ pass'[q].todo = pass[q].todo
            /\ pass[q].pc \notin TimedPhase => pass'[q].lag = pass[q].lag
            /\ \A c \in Content : manifest'[c].path = manifest[c].path
        BY <1>0, <2>1, TickFields
      <4>3. pass[q].todo \subseteq Content
        BY <1>0 DEF PassState
      <4> QED BY <4>1, <4>2, <4>3 DEF PassKept
    <3> QED BY <3>1, <3>2 DEF KeptOK
  <2>2. CASE ~ Tick
    BY <1>0, <1>4, <2>2, EditFields DEF KeptOK, PassKept, Marked
  <2> QED BY <2>1, <2>2
<1>5. CASE UNCHANGED vars
  BY <1>5 DEF vars, KeptOK, PassKept, Marked
<1> QED BY <1>1, <1>2, <1>3, <1>4, <1>5, NextCases

-----------------------------------------------------------------------------
(* While the tree is as it was at first, a scan that is complete has all   *)
(* of it, nothing else has a row, and nothing is marked.                   *)
PassStill(p) ==
    LET s == pass[p] IN
    /\ \A c \in Content : /\ s.scan[c] # NoPath => c \in OnDisk
                          /\ s.db[c].path # NoPath => c \in OnDisk
                          /\ s.rows[c].path # NoPath => c \in OnDisk
    /\ s.pc = "scan" => \A f \in Files : f \in s.listing \/ s.scan[disk[f]] # NoPath
    /\ s.pc # "scan" => \A c \in OnDisk : s.scan[c] # NoPath
    /\ s.pc \in TimedPhase => s.todo = {}

StillOK == /\ \A c \in Content : ~ Marked(c) /\ (manifest[c].path # NoPath => c \in OnDisk)
           /\ \A p \in Proc : pass[p].pc # "idle" => PassStill(p)

LEMMA StillWork ==
    ASSUME TypeOK, PhaseOK, KeptOK, StillOK, NEW p \in Proc, WorkStep(p)
    PROVE  /\ \A c \in Content : ~ Marked(c)' /\ (manifest'[c].path # NoPath => c \in OnDisk)
           /\ PassStill(p)'
<1>0. /\ pass \in [Proc -> PassState] /\ pass[p] \in PassState
      /\ manifest \in [Content -> Row] /\ pass[p].pc # "idle"
      /\ PassPhase(p) /\ PassStill(p) /\ PassKept(p)
      /\ \A c \in Content : ~ Marked(c) /\ (manifest[c].path # NoPath => c \in OnDisk)
      /\ OnDisk' = OnDisk /\ Files' = Files /\ disk' = disk
  BY WorkStepLocal DEF TypeOK, PhaseOK, StillOK, KeptOK, Keeps, OnDisk, Files, tree
<1>a. /\ NoPath \notin Path /\ OnDisk \subseteq Content
      /\ \A f \in Files : f \in Path /\ disk[f] \in OnDisk
      /\ \A c \in Content : NoRows[c] = NoRow /\ NoRow.departed = NotDeparted /\ NoRow.path = NoPath
  BY Constants DEF NoRows, NoRow, OnDisk, Files, TypeOK
<1> USE <1>0, <1>a DEF Local, PassState, PassStill, Marked, TimedPhase
<1>1. CASE \E f \in Path : HashNext(p, f)
  <2>1. PICK f \in Path : HashNext(p, f)
    BY <1>1
  <2> DEFINE next == [c \in Content |-> IF c = disk[f] THEN f ELSE pass[p].scan[c]]
  <2>2. /\ pass[p].pc = "scan" /\ pass'[p].pc = "scan" /\ manifest' = manifest
        /\ pass'[p].listing = pass[p].listing \ {f} /\ pass'[p].scan = next
        /\ pass'[p].db = pass[p].db /\ pass'[p].rows = pass[p].rows
    BY <2>1 DEF HashNext, NextListed
  <2>3. disk[f] \in Content => f \in Files
    BY <1>0, Constants DEF Files, TypeOK
  <2>4. \A c \in Content : next[c] # NoPath => c \in OnDisk
    BY <2>3
  <2>5. \A g \in Files : g \in pass[p].listing \ {f} \/ next[disk[g]] # NoPath
    BY <2>2
  <2> HIDE DEF next
  <2> QED BY <2>2, <2>4, <2>5
<1>2. CASE ReadManifest(p)
  <2>1. /\ pass[p].pc = "scan" /\ pass[p].listing = {} /\ manifest' = manifest
        /\ pass'[p].pc = "add" /\ pass'[p].scan = pass[p].scan /\ pass'[p].rows = pass[p].rows
        /\ pass'[p].db \in {manifest, pass[p].db}
    BY <1>2 DEF ReadManifest, AllHashed
  <2>2. \A c \in OnDisk : pass[p].scan[c] # NoPath
    BY <2>1 DEF OnDisk
  <2> QED BY <2>1, <2>2
<1>3. CASE \E c \in Content : OpenFile(p, c)
  BY <1>3 DEF OpenFile
<1>4. CASE UpsertBatch(p)
  BY <1>4 DEF UpsertBatch
<1>5. CASE RecordRow(p)
  <2> DEFINE s == pass[p]
             t == NextFile(s)
             row == FreshRow(s.ids, s.scan[s.cur])
             r == [t.rows EXCEPT ![s.cur] = row]
             u == [t EXCEPT !.rows = r]
  <2>1. s.pc = "ingest" /\ s.cur \in s.todo /\ s.todo \subseteq Scanned(p)
    BY <1>5 DEF RecordRow, PassPhase
  <2>2. s.cur \in Content /\ s.scan[s.cur] # NoPath /\ s.cur \in OnDisk
    BY <2>1 DEF Scanned
  <2>3. /\ t.pc = "add" /\ t.rows = s.rows /\ t.scan = s.scan /\ t.db = s.db
        /\ u.pc = "add" /\ u.rows = r /\ u.scan = s.scan /\ u.db = s.db
    BY DEF NextFile
  <2>4. row.departed = NotDeparted
    BY DEF FreshRow
  <2>5. \A c \in Content : r[c].path # NoPath => c \in OnDisk
    BY <2>2, <2>3
  <2>6. \/ pass'[p] = u /\ manifest' = manifest
        \/ pass'[p] = t /\ manifest' = [manifest EXCEPT ![s.cur] = row]
    BY <1>5 DEF RecordRow
  <2> HIDE DEF s, t, u, r, row
  <2>7. CASE pass'[p] = u /\ manifest' = manifest
    BY <2>1, <2>3, <2>5, <2>7 DEF s
  <2>8. CASE pass'[p] = t /\ manifest' = [manifest EXCEPT ![s.cur] = row]
    BY <2>1, <2>2, <2>3, <2>4, <2>8 DEF s
  <2> QED BY <2>6, <2>7, <2>8
<1>6. CASE EndAdd(p)
  BY <1>6 DEF EndAdd
<1>7. CASE \E c \in Content : Reconcile(p, c)
  BY <1>7 DEF Reconcile, Returned, Row
<1>8. CASE RefreshName(p)
  BY <1>8 DEF RefreshName
<1>9. CASE SetPath(p)
  <2>1. /\ pass[p].pc = "repath" /\ pass[p].cur \in Content
        /\ pass[p].scan[pass[p].cur] # NoPath
    BY <1>9 DEF SetPath, PassPhase, Scanned
  <2>2. \A c \in Content : /\ manifest'[c].departed = manifest[c].departed
                           /\ manifest'[c].path # NoPath => c \in OnDisk
    BY <1>9, <2>1 DEF SetPath, Row
  <2>3. /\ pass'[p].pc = "reconcile" /\ pass'[p].rows = pass[p].rows
        /\ pass'[p].scan = pass[p].scan /\ pass'[p].db = pass[p].db
    BY <1>9 DEF SetPath
  <2> QED BY <2>1, <2>2, <2>3
<1>10. CASE EndReconcile(p)
  <2> DEFINE late == Recorded(pass[p].db) \ Scanned(p)
  <2>1. /\ pass[p].pc = "reconcile" /\ manifest' = manifest
        /\ pass'[p].pc # "scan" /\ pass'[p].rows = pass[p].rows
        /\ pass'[p].scan = pass[p].scan /\ pass'[p].todo = late /\ pass'[p].db = NoRows
    BY <1>10 DEF EndReconcile
  <2>2. late = {}
    BY <2>1 DEF Recorded, Scanned
  <2> HIDE DEF late
  <2> QED BY <2>1, <2>2
<1>11. CASE \E c \in Content : DropRow(p, c)
  BY <1>11 DEF DropRow
<1>12. CASE DropPoints(p)
  BY <1>12 DEF DropPoints
<1>13. CASE \E c \in Content : MarkDeparted(p, c)
  BY <1>13 DEF MarkDeparted
<1>14. CASE EndMark(p)
  BY <1>14 DEF EndMark, DepartedDue, Recorded
<1>15. CASE \E c \in Content : ReapPoints(p, c)
  BY <1>15 DEF ReapPoints
<1>16. CASE ReapRow(p)
  BY <1>16 DEF ReapRow
<1>17. CASE EndIncremental(p)
  BY <1>17 DEF EndIncremental
<1>18. CASE ReplaceAll(p)
  BY <1>18 DEF ReplaceAll, Replacement, PassKept
<1>19. CASE DropLegacy(p)
  BY <1>19 DEF DropLegacy, AtSwitch
<1>20. CASE CreateAlias(p)
  BY <1>20 DEF CreateAlias
<1>21. CASE SwitchAlias(p)
  BY <1>21 DEF SwitchAlias, AtSwitch
<1>22. CASE DropOld(p)
  BY <1>22 DEF DropOld
<1> QED BY <1>1, <1>2, <1>3, <1>4, <1>5, <1>6, <1>7, <1>8, <1>9, <1>10, <1>11,
           <1>12, <1>13, <1>14, <1>15, <1>16, <1>17, <1>18, <1>19, <1>20, <1>21, <1>22 DEF WorkStep

LEMMA StillStep ==
    ASSUME IInv, KeptOK, StillOK, [Next]_vars, edits' = edits PROVE StillOK'
<1>0. /\ TypeOK /\ OneWriter /\ PhaseOK /\ pass \in [Proc -> PassState] /\ edits \in Nat
      /\ \A c \in Content : ~ Marked(c) /\ (manifest[c].path # NoPath => c \in OnDisk)
  BY DEF IInv, TypeOK, StillOK
<1>1. ASSUME NEW p \in Proc, WorkStep(p) PROVE StillOK'
  <2>1. ASSUME NEW q \in Proc, q # p PROVE pass'[q].pc = "idle"
    BY <1>0, <1>1, <2>1, OthersIdle, WorkStepLocal DEF Keeps
  <2>2. OnDisk' = OnDisk
    BY <1>0, <1>1, WorkStepLocal DEF Keeps, OnDisk, Files, tree
  <2> QED BY <1>0, <1>1, <2>1, <2>2, StillWork DEF StillOK
<1>2. ASSUME NEW p \in Proc, BeginStep(p) PROVE StillOK'
  <2>1. ASSUME NEW q \in Proc, q # p PROVE pass'[q].pc = "idle"
    BY <1>0, <1>2, <2>1, BeginStepLocal
  <2>2. /\ manifest' = manifest /\ OnDisk' = OnDisk /\ Files' = Files /\ disk' = disk
        /\ pass'[p].pc = "scan" /\ pass'[p].scan = NoScan /\ pass'[p].rows = NoRows
        /\ pass'[p].db = NoRows /\ pass'[p].listing = Files
    BY <1>0, <1>2, BeginStepLocal, BeginFresh DEF OnDisk, Files, tree
  <2>3. PassStill(p)'
    BY <2>2 DEF PassStill, TimedPhase, NoRows, NoRow, NoScan
  <2> QED BY <1>0, <2>1, <2>2, <2>3 DEF StillOK, Marked
<1>3. ASSUME NEW p \in Proc, EndStep(p) PROVE StillOK'
  <2>1. /\ manifest' = manifest /\ pass[p].pc # "idle" /\ pass' = [pass EXCEPT ![p] = Blank]
        /\ OnDisk' = OnDisk
    BY <1>0, <1>3, EndStepLocal DEF OnDisk, Files, tree
  <2>2. ASSUME NEW q \in Proc PROVE pass'[q].pc = "idle"
    BY <1>0, <2>1, OthersIdle, BlankIsIdle
  <2> QED BY <1>0, <2>1, <2>2 DEF StillOK, Marked
<1>4. CASE Environment
  <2>1. CASE Tick
    <3>1. OnDisk' = OnDisk /\ Files' = Files /\ disk' = disk
      BY <1>0, <2>1, TickFields DEF OnDisk, Files
    <3> QED BY <1>0, <2>1, <3>1, TickFields DEF StillOK, PassStill
  <2>2. CASE ~ Tick
    BY <1>0, <1>4, <2>2, EditFields
  <2> QED BY <2>1, <2>2
<1>5. CASE UNCHANGED vars
  BY <1>5 DEF vars, StillOK, PassStill, Marked, OnDisk, Files
<1> QED BY <1>1, <1>2, <1>3, <1>4, <1>5, NextCases

-----------------------------------------------------------------------------
(* A mark is no older than the absence.  Content that is on disk and       *)
(* marked (its file was moved past a scan) is seen by the next pass, which *)
(* takes the mark away before it looks for what is due, or was marked by   *)
(* the pass that missed it.                                                *)
WillReturn(p, c) ==
    LET s == pass[p] IN
    /\ s.pc = "scan" => s.scan[c] # NoPath \/ \E f \in s.listing : disk[f] = c
    /\ s.pc \in {"add", "ingest"} /\ s.mode # "rebuild" =>
         s.scan[c] # NoPath /\ s.db[c].path # NoPath /\ s.db[c].departed # NotDeparted
    /\ s.pc = "reconcile" => c \in s.todo /\ s.db[c].departed # NotDeparted
    /\ s.pc \in {"rename", "repath"} =>
         c \in s.todo \ {s.cur} /\ s.db[c].departed # NotDeparted
    /\ s.pc = "mark" => manifest[c].departed <= s.lag

Overdue(c) == Grace = 0 \/ (c \notin OnDisk /\ gone[c] >= Grace)

PassMarks(p) ==
    LET s == pass[p] IN
    /\ \A c \in OnDisk : Marked(c) => WillReturn(p, c)
    /\ s.pc = "mark" => \A c \in s.todo : c \notin OnDisk => s.lag <= gone[c]
    /\ s.pc \in {"reap", "unrecord"} => \A c \in s.todo : Overdue(c)

NoneTooOld == \A c \in Content : c \notin OnDisk /\ Marked(c) => manifest[c].departed <= gone[c]

MarksOK == NoneTooOld /\ \A p \in Proc : pass[p].pc # "idle" => PassMarks(p)

LEMMA MarksWork ==
    ASSUME TypeOK, PhaseOK, KeptOK, MarksOK, NEW p \in Proc, WorkStep(p)
    PROVE  NoneTooOld' /\ PassMarks(p)'
<1>0. /\ pass \in [Proc -> PassState] /\ pass[p] \in PassState
      /\ manifest \in [Content -> Row] /\ pass[p].pc # "idle"
      /\ PassPhase(p) /\ PassMarks(p) /\ PassKept(p) /\ NoneTooOld
      /\ \A c \in Content : Marked(c) => manifest[c].path # NoPath
      /\ OnDisk' = OnDisk /\ disk' = disk /\ gone' = gone
  BY WorkStepLocal DEF TypeOK, PhaseOK, MarksOK, KeptOK, Keeps, OnDisk, Files, tree
<1>a. /\ OnDisk \subseteq Content /\ gone \in [Content -> Nat] /\ NoPath \notin Path
      /\ NotDeparted \notin Nat /\ Grace \in Nat
      /\ \A c \in Content : NoRows[c] = NoRow /\ NoRow.departed = NotDeparted /\ NoRow.path = NoPath
      /\ \A c \in Content : Marked(c) => manifest[c].departed \in Nat
  BY Constants DEF NoRows, NoRow, OnDisk, Files, TypeOK, Age, Row, NotDeparted, Marked
<1>b. \A c \in Content : Overdue(c)' <=> Overdue(c)
  BY <1>0 DEF Overdue
<1> USE <1>0, <1>a, <1>b DEF Local, PassState, PassMarks, Marked, WillReturn, NoneTooOld
<1>1. CASE \E f \in Path : HashNext(p, f)
  <2>1. PICK f \in Path : HashNext(p, f)
    BY <1>1
  <2> DEFINE next == [c \in Content |-> IF c = disk[f] THEN f ELSE pass[p].scan[c]]
  <2>2. /\ pass[p].pc = "scan" /\ pass'[p].pc = "scan" /\ manifest' = manifest
        /\ pass'[p].listing = pass[p].listing \ {f} /\ pass'[p].scan = next
    BY <2>1 DEF HashNext, NextListed
  <2>3. \A c \in OnDisk : Marked(c) => next[c] # NoPath \/ \E g \in pass[p].listing \ {f} : disk[g] = c
    BY <2>2
  <2> HIDE DEF next
  <2> QED BY <2>2, <2>3
<1>2. CASE ReadManifest(p)
  <2>1. /\ pass[p].pc = "scan" /\ pass[p].listing = {} /\ manifest' = manifest
        /\ pass'[p].pc = "add" /\ pass'[p].scan = pass[p].scan
        /\ pass'[p].mode = pass[p].mode
        /\ pass[p].mode # "rebuild" => pass'[p].db = manifest
    BY <1>2 DEF ReadManifest, AllHashed
  <2> QED BY <2>1
<1>3. CASE \E c \in Content : OpenFile(p, c)
  BY <1>3 DEF OpenFile
<1>4. CASE UpsertBatch(p)
  BY <1>4 DEF UpsertBatch
<1>5. CASE RecordRow(p)
  <2> DEFINE s == pass[p]
             t == NextFile(s)
             row == FreshRow(s.ids, s.scan[s.cur])
             r == [t.rows EXCEPT ![s.cur] = row]
             u == [t EXCEPT !.rows = r]
  <2>1. s.pc = "ingest"
    BY <1>5 DEF RecordRow
  <2>3. /\ t.pc = "add" /\ t.scan = s.scan /\ t.db = s.db /\ t.mode = s.mode
        /\ u.pc = "add" /\ u.scan = s.scan /\ u.db = s.db /\ u.mode = s.mode
    BY DEF NextFile
  <2>4. row.departed = NotDeparted
    BY DEF FreshRow
  <2>6. \/ pass'[p] = u /\ manifest' = manifest
        \/ pass'[p] = t /\ manifest' = [manifest EXCEPT ![s.cur] = row]
    <3> HIDE DEF PassMarks, Marked, WillReturn, NoneTooOld
    <3> QED BY <1>5 DEF RecordRow
  <2> HIDE DEF s, t, u, r, row
  <2>7. CASE pass'[p] = u /\ manifest' = manifest
    BY <2>1, <2>3, <2>7 DEF s
  <2>8. CASE pass'[p] = t /\ manifest' = [manifest EXCEPT ![s.cur] = row]
    BY <2>1, <2>3, <2>4, <2>8 DEF s
  <2> QED BY <2>6, <2>7, <2>8
<1>6. CASE EndAdd(p)
  <2>1. /\ pass[p].pc = "add" /\ pass[p].mode # "rebuild" /\ manifest' = manifest
        /\ pass'[p].pc = "reconcile" /\ pass'[p].db = pass[p].db
        /\ pass'[p].todo = Scanned(p) \cap Recorded(pass[p].db)
    BY <1>6 DEF EndAdd
  <2> QED BY <2>1 DEF Scanned, Recorded
<1>7. CASE \E c \in Content : Reconcile(p, c)
  <2>1. PICK c \in Content : Reconcile(p, c)
    BY <1>7
  <2>2. /\ pass[p].pc = "reconcile" /\ c \in pass[p].todo
        /\ pass'[p].db = pass[p].db
        /\ \/ pass'[p].pc = "reconcile" /\ pass'[p].todo = pass[p].todo \ {c}
           \/ pass'[p].pc = "rename" /\ pass'[p].cur = c /\ pass'[p].todo = pass[p].todo
    BY <2>1 DEF Reconcile
  <2>3. /\ \A d \in Content : d # c => manifest'[d] = manifest[d]
        /\ pass[p].db[c].departed # NotDeparted => manifest'[c].departed = NotDeparted
        /\ manifest'[c].departed \in {manifest[c].departed, NotDeparted}
    BY <2>1 DEF Reconcile, Returned, Row
  <2>4. \A d \in OnDisk : Marked(d)' => Marked(d) /\ d # c
    BY <2>2, <2>3
  <2> QED BY <2>2, <2>3, <2>4
<1>8. CASE RefreshName(p)
  BY <1>8 DEF RefreshName
<1>9. CASE SetPath(p)
  <2>1. \A c \in Content : manifest'[c].departed = manifest[c].departed
    BY <1>9 DEF SetPath, Row
  <2>2. /\ pass[p].pc = "repath" /\ pass'[p].pc = "reconcile"
        /\ pass'[p].todo = pass[p].todo \ {pass[p].cur} /\ pass'[p].db = pass[p].db
    BY <1>9 DEF SetPath
  <2> QED BY <2>1, <2>2
<1>10. CASE EndReconcile(p)
  <2>1. /\ pass[p].pc = "reconcile" /\ pass[p].todo = {} /\ manifest' = manifest
        /\ pass'[p].pc \in {"mark", "prune"} /\ pass'[p].lag = pass[p].lag
    BY <1>10 DEF EndReconcile
  <2>2. pass[p].lag = 0
    BY <2>1 DEF PassKept, TimedPhase
  <2>3. \A c \in pass'[p].todo : c \in Content
    BY <1>10 DEF EndReconcile, Recorded
  <2>4. \A c \in OnDisk : ~ Marked(c)'
    BY <2>1
  <2>5. \A c \in pass'[p].todo : pass'[p].lag <= gone[c]
    BY <2>1, <2>2, <2>3
  <2> QED BY <2>1, <2>4, <2>5
<1>11. CASE \E c \in Content : DropRow(p, c)
  BY <1>11 DEF DropRow
<1>12. CASE DropPoints(p)
  BY <1>12 DEF DropPoints
<1>13. CASE \E c \in Content : MarkDeparted(p, c)
  <2>1. PICK c \in Content : MarkDeparted(p, c)
    BY <1>13
  <2>2. /\ pass[p].pc = "mark" /\ c \in pass[p].todo /\ pass'[p].pc = "mark"
        /\ pass'[p].todo = pass[p].todo \ {c} /\ pass'[p].lag = pass[p].lag
        /\ pass[p].lag \in Nat
    BY <2>1, Constants DEF MarkDeparted
  <2>3. /\ \A d \in Content : d # c => manifest'[d] = manifest[d]
        /\ Marked(c) => manifest'[c].departed = manifest[c].departed
        /\ ~ Marked(c) => manifest'[c].departed = pass[p].lag
    BY <2>1 DEF MarkDeparted, Coalesce, Row
  <2>4. NoneTooOld'
    BY <2>2, <2>3
  <2>5. \A d \in OnDisk : Marked(d)' => manifest'[d].departed <= pass'[p].lag
    BY <2>2, <2>3
  <2> QED BY <2>2, <2>4, <2>5
<1>14. CASE EndMark(p)
  <2>1. /\ pass[p].pc = "mark" /\ manifest' = manifest /\ pass'[p].pc = "reap"
        /\ pass'[p].todo = DepartedDue(p) /\ pass[p].lag \in Nat
    BY <1>14, Constants DEF EndMark
  <2>2. ASSUME NEW c \in DepartedDue(p) PROVE Overdue(c)
    <3>1. c \in Content /\ Marked(c) /\ manifest[c].departed - pass[p].lag >= Grace
      BY DEF DepartedDue, Recorded
    <3>2. CASE c \in OnDisk
      BY <2>1, <3>1, <3>2 DEF Overdue
    <3>3. CASE c \notin OnDisk
      BY <2>1, <3>1, <3>3 DEF Overdue
    <3> QED BY <3>2, <3>3
  <2>3. \A c \in DepartedDue(p) : Overdue(c)'
    BY <2>2 DEF DepartedDue, Recorded
  <2> QED BY <2>1, <2>3
<1>15. CASE \E c \in Content : ReapPoints(p, c)
  BY <1>15 DEF ReapPoints
<1>16. CASE ReapRow(p)
  BY <1>16 DEF ReapRow
<1>17. CASE EndIncremental(p)
  BY <1>17 DEF EndIncremental
<1>18. CASE ReplaceAll(p)
  BY <1>18 DEF ReplaceAll, Replacement, PassKept
<1>19. CASE DropLegacy(p)
  BY <1>19 DEF DropLegacy, AtSwitch
<1>20. CASE CreateAlias(p)
  BY <1>20 DEF CreateAlias
<1>21. CASE SwitchAlias(p)
  BY <1>21 DEF SwitchAlias, AtSwitch
<1>22. CASE DropOld(p)
  BY <1>22 DEF DropOld
<1> QED BY <1>1, <1>2, <1>3, <1>4, <1>5, <1>6, <1>7, <1>8, <1>9, <1>10, <1>11,
           <1>12, <1>13, <1>14, <1>15, <1>16, <1>17, <1>18, <1>19, <1>20, <1>21, <1>22 DEF WorkStep

(* Time adds as much to an absence as to a mark, and no less than to a     *)
(* pass's reading of the clock.                                            *)
LEMMA MarksTick ==
    ASSUME TypeOK, MarksOK, Tick PROVE MarksOK'
<1>0. /\ OnDisk' = OnDisk /\ disk' = disk /\ OnDisk \subseteq Content
      /\ pass \in [Proc -> PassState] /\ manifest \in [Content -> Row] /\ gone \in [Content -> Age]
      /\ Grace \in Nat /\ AgeCap \in Nat /\ MaxLag \in Nat /\ MaxLag <= AgeCap /\ Grace <= AgeCap
  BY TickFields, Constants DEF TypeOK, OnDisk, Files, AgeCap
<1>1. \A c \in Content : /\ gone[c] \in 0 .. AgeCap
                         /\ Marked(c) => manifest[c].departed \in 0 .. AgeCap
  BY <1>0 DEF Age, Row, Marked
<1>2. NoneTooOld'
  BY <1>0, <1>1, TickFields DEF NoneTooOld, MarksOK, Older
<1>3. ASSUME NEW p \in Proc, pass'[p].pc # "idle" PROVE PassMarks(p)'
  <2>1. PassMarks(p) /\ pass[p].pc # "idle" /\ pass[p].todo \subseteq Content /\ pass[p].lag \in 0 .. MaxLag
    BY <1>0, <1>3, TickFields DEF MarksOK, PassState
  <2>2. /\ pass'[p].pc = pass[p].pc /\ pass'[p].mode = pass[p].mode
        /\ pass'[p].listing = pass[p].listing /\ pass'[p].scan = pass[p].scan
        /\ pass'[p].db = pass[p].db /\ pass'[p].todo = pass[p].todo /\ pass'[p].cur = pass[p].cur
        /\ pass[p].pc = "mark" => pass'[p].lag = pass[p].lag + 1 /\ pass[p].lag < MaxLag
    BY TickFields DEF TimedPhase
  <2>3. ASSUME NEW c \in OnDisk, Marked(c)' PROVE WillReturn(p, c)'
    <3>1. c \in Content /\ Marked(c) /\ manifest'[c].departed = Older(manifest[c].departed)
      BY <1>0, <2>3, TickFields
    <3>2. WillReturn(p, c)
      BY <2>1, <3>1 DEF PassMarks
    <3>3. pass[p].pc = "mark" => manifest'[c].departed <= pass'[p].lag
      BY <1>1, <2>1, <2>2, <3>1, <3>2 DEF WillReturn, Older
    <3> QED BY <1>0, <2>2, <3>2, <3>3 DEF WillReturn
  <2>4. pass[p].pc = "mark" =>
          \A c \in pass[p].todo : c \notin OnDisk => pass[p].lag + 1 <= Older(gone[c])
    BY <1>0, <1>1, <2>1, <2>2 DEF PassMarks, Older
  <2>5. \A c \in Content : Overdue(c) => Overdue(c)'
    BY <1>0, <1>1, TickFields DEF Overdue, Older
  <2>6. \A c \in Content : c \notin OnDisk => gone'[c] = Older(gone[c])
    BY TickFields
  <2> QED BY <1>0, <2>1, <2>2, <2>3, <2>4, <2>5, <2>6 DEF PassMarks
<1> QED BY <1>2, <1>3 DEF MarksOK

(* At the first edit nothing is marked, and nothing about to be.           *)
LEMMA FirstEdit ==
    ASSUME TypeOK', StillOK, manifest' = manifest, pass' = pass PROVE MarksOK'
<1>1. \A c \in Content : ~ Marked(c)'
  BY DEF StillOK, Marked
<1>2. OnDisk' \subseteq Content
  BY DEF TypeOK, OnDisk, Files
<1>3. ASSUME NEW p \in Proc, pass'[p].pc # "idle" PROVE PassMarks(p)'
  <2>1. pass[p].pc \in TimedPhase => pass[p].todo = {}
    BY <1>3 DEF StillOK, PassStill
  <2> QED BY <1>1, <1>2, <2>1 DEF PassMarks, TimedPhase
<1> QED BY <1>1, <1>3 DEF MarksOK, NoneTooOld

(* The inductive invariant of the grace period, together with IInv.        *)
GraceInv == KeptOK /\ (edits = 0 => StillOK) /\ (edits <= 1 => MarksOK)

LEMMA MarksStep ==
    ASSUME IInv, KeptOK, MarksOK, [Next]_vars, edits' = edits PROVE MarksOK'
<1>0. /\ TypeOK /\ OneWriter /\ PhaseOK /\ pass \in [Proc -> PassState] /\ edits \in Nat
      /\ NoneTooOld
  BY DEF IInv, TypeOK, MarksOK
<1>1. ASSUME NEW p \in Proc, WorkStep(p) PROVE MarksOK'
  <2>1. ASSUME NEW q \in Proc, q # p PROVE pass'[q].pc = "idle"
    BY <1>0, <1>1, <2>1, OthersIdle, WorkStepLocal DEF Keeps
  <2> QED BY <1>0, <1>1, <2>1, MarksWork DEF MarksOK
<1>2. ASSUME NEW p \in Proc, BeginStep(p) PROVE MarksOK'
  <2>1. ASSUME NEW q \in Proc, q # p PROVE pass'[q].pc = "idle"
    BY <1>0, <1>2, <2>1, BeginStepLocal
  <2>2. /\ manifest' = manifest /\ OnDisk' = OnDisk /\ gone' = gone /\ disk' = disk
        /\ pass'[p].pc = "scan" /\ pass'[p].listing = Files
    BY <1>0, <1>2, BeginStepLocal, BeginFresh DEF OnDisk, Files, tree
  <2>3. PassMarks(p)'
    BY <2>2 DEF PassMarks, WillReturn, OnDisk
  <2> QED BY <1>0, <2>1, <2>2, <2>3 DEF MarksOK, Marked, NoneTooOld
<1>3. ASSUME NEW p \in Proc, EndStep(p) PROVE MarksOK'
  <2>1. /\ manifest' = manifest /\ pass[p].pc # "idle" /\ pass' = [pass EXCEPT ![p] = Blank]
        /\ OnDisk' = OnDisk /\ gone' = gone
    BY <1>0, <1>3, EndStepLocal DEF OnDisk, Files, tree
  <2>2. ASSUME NEW q \in Proc PROVE pass'[q].pc = "idle"
    BY <1>0, <2>1, OthersIdle, BlankIsIdle
  <2> QED BY <1>0, <2>1, <2>2 DEF MarksOK, Marked, NoneTooOld
<1>4. CASE Environment
  BY <1>0, <1>4, MarksTick, EditFields
<1>5. CASE UNCHANGED vars
  <2>1. OnDisk' = OnDisk /\ gone' = gone /\ manifest' = manifest /\ pass' = pass /\ disk' = disk
    BY <1>5 DEF vars, OnDisk, Files
  <2> QED BY <2>1 DEF MarksOK, PassMarks, Marked, NoneTooOld, WillReturn, Overdue
<1> QED BY <1>1, <1>2, <1>3, <1>4, <1>5, NextCases

(* Only the tree's changes are counted.                                    *)
LEMMA EditsCount ==
    ASSUME IInv, [Next]_vars
    PROVE  edits' = edits \/ (edits' = edits + 1 /\ manifest' = manifest /\ pass' = pass)
<1>0. TypeOK /\ OneWriter
  BY DEF IInv
<1>1. ASSUME NEW p \in Proc, WorkStep(p) \/ BeginStep(p) \/ EndStep(p) PROVE edits' = edits
  BY <1>0, <1>1, WorkStepLocal, BeginStepLocal, EndStepLocal DEF Keeps, tree
<1>2. CASE Environment
  BY <1>0, <1>2, TickFields, EditFields
<1>3. CASE UNCHANGED vars
  BY <1>3 DEF vars
<1> QED BY <1>1, <1>2, <1>3, NextCases

LEMMA GraceStep == IInv /\ GraceInv /\ [Next]_vars => GraceInv'
<1> SUFFICES ASSUME IInv, GraceInv, [Next]_vars PROVE GraceInv'
  OBVIOUS
<1>0. edits \in Nat /\ KeptOK /\ KeptOK' /\ TypeOK'
  <2>1. IInv'
    BY IInvStep
  <2> QED BY <2>1, KeptStep DEF GraceInv, IInv, TypeOK
<1>1. CASE edits' = edits
  <2>1. edits = 0 => StillOK'
    BY <1>1, StillStep DEF GraceInv
  <2>2. edits <= 1 => MarksOK'
    BY <1>1, MarksStep, <1>0 DEF GraceInv
  <2> QED BY <1>0, <1>1, <2>1, <2>2 DEF GraceInv
<1>2. CASE edits' = edits + 1 /\ manifest' = manifest /\ pass' = pass
  <2>1. edits = 0 => MarksOK'
    BY <1>0, <1>2, FirstEdit DEF GraceInv
  <2>2. edits' # 0 /\ (edits' <= 1 => edits = 0)
    BY <1>0, <1>2
  <2> QED BY <1>0, <2>1, <2>2 DEF GraceInv
<1> QED BY <1>1, <1>2, EditsCount

LEMMA GraceStart == Init => GraceInv
<1> SUFFICES ASSUME Init PROVE GraceInv
  OBVIOUS
<1>1. \A p \in Proc : pass[p].pc = "idle"
  BY BlankIsIdle DEF Init
<1>2. \A c \in Content : ~ Marked(c) /\ manifest[c].path = NoPath
  BY DEF Init, NoRows, NoRow, Marked
<1> QED BY <1>1, <1>2 DEF GraceInv, KeptOK, StillOK, MarksOK, NoneTooOld

(* What the watcher reaps was off the disk for the whole grace period, for *)
(* a tree that changed once, before, during or between passes, and however *)
(* many passes were killed: marks are never older than the absence, and a  *)
(* file moved past a scan is not reaped for it (corpus_manifest.py,        *)
(* mark_departed and departed_due).                                        *)
THEOREM GraceIsKept == Spec => []GraceHonoured
<1>1. IInv /\ GraceInv => GraceHonoured
  <2> SUFFICES ASSUME IInv, GraceInv, NEW p \in Running, pass[p].pc = "unrecord", edits <= 1
               PROVE  gone[pass[p].cur] >= Grace
    BY DEF GraceHonoured
  <2>1. p \in Proc /\ PassMarks(p) /\ PassPhase(p)
    BY DEF Running, GraceInv, MarksOK, IInv, PhaseOK
  <2>2. pass[p].cur \in pass[p].todo /\ pass[p].todo \subseteq Content
    BY <2>1 DEF PassPhase, IInv, TypeOK, PassState
  <2>3. Overdue(pass[p].cur) /\ gone[pass[p].cur] \in Nat
    BY <2>1, <2>2, Constants DEF PassMarks, IInv, TypeOK, Age
  <2> QED BY <2>3 DEF Overdue
<1>2. Init => IInv /\ GraceInv
  BY InitIInv, GraceStart
<1>3. IInv /\ GraceInv /\ [Next]_vars => (IInv /\ GraceInv)'
  BY IInvStep, GraceStep
<1> QED BY <1>1, <1>2, <1>3, PTL DEF Spec

-----------------------------------------------------------------------------
(***************************************************************************)
(* What a query can find, for every tree, every number of processes,       *)
(* collections, edits and crashes: CorpusSync implements CorpusIndex, a    *)
(* rebuilt collection is complete when the alias comes to name it, and a   *)
(* rebuild puts manifest and index right.  And what the rows of the        *)
(* manifest are worth: a pass takes nothing away that stood still; as long *)
(* as no pass was killed, what rows record is what answers queries; as     *)
(* long as passes see a tree that stands still, a row records all of its   *)
(* content and of no other.                                                *)
(***************************************************************************)

(* A collection keeps one point under an id, and nothing is left of one    *)
(* that is gone.  An incremental pass works on what answers queries; each  *)
(* kind of pass goes through phases of its own.                            *)
KeyedById(pts) == \A pt, qt \in pts : pt.id = qt.id => pt = qt

Replaced == {"switch", "migrate", "retire", "done"}

PassStore(p) ==
    LET s == pass[p] IN
    /\ s.pc # "idle" /\ s.mode # "rebuild" => s.col = Live /\ s.col \in colls
    /\ s.mode = "rebuild" => s.pc \in Adding \cup Replaced
    /\ s.pc \in {"mark", "reap", "unrecord"} => s.mode = "watch"

StoreOK ==
    /\ \A k \in Collection : KeyedById(points[k])
    /\ \A k \in Collection \ colls : points[k] = {}
    /\ \A p \in Proc : PassStore(p)

(* A path is hashed once, so it stands for one content.                    *)
PassScan(p) ==
    /\ \A c, d \in Scanned(p) : pass[p].scan[c] = pass[p].scan[d] => c = d
    /\ \A c \in Scanned(p) : pass[p].scan[c] \notin pass[p].listing

ScanOK == \A p \in Proc : PassScan(p)

(* Where there is no row there are no ids.  A rebuild has a row for what   *)
(* it has added, under the path of the scan; then the manifest has.        *)
Bare(rows) == \A c \in Content : rows[c].path = NoPath => rows[c].uuids = {}

PassRows(p) ==
    LET s == pass[p] IN
    /\ Bare(s.rows)
    /\ s.pc \in {"idle", "scan", "add"} => s.ids = {}
    /\ s.pc \in {"idle", "scan"} => s.rows = NoRows
    /\ s.mode = "rebuild" /\ s.pc \in {"add", "ingest"} =>
         \A c \in Content :
           s.rows[c].path = IF c \in Scanned(p) \ s.todo THEN s.scan[c] ELSE NoPath
    /\ s.mode = "rebuild" /\ s.pc \in Replaced =>
         \A c \in Content : manifest[c].path = s.scan[c]

RowsOK == Bare(manifest) /\ \A p \in Proc : PassRows(p)

(* Points of a rebuild are those that rows record and those of the file at *)
(* hand, and have their names.                                             *)
Holds(pts, rows, ids) == Ids(pts) = UuidsOf(rows) \cup ids

Named(pts, rows) ==
    \A c \in Content, pt \in pts : pt.id \in rows[c].uuids => pt.name = rows[c].path

PassPoints(p) ==
    LET s == pass[p] IN
    s.mode = "rebuild" =>
      /\ s.pc \in Adding =>
           /\ Holds(points[s.col], s.rows, s.ids) /\ Named(points[s.col], s.rows)
           /\ \A pt \in points[s.col] : pt.id \in s.ids => pt.name = s.scan[s.cur]
      /\ s.pc \in {"switch", "migrate"} =>
           Holds(points[s.col], manifest, {}) /\ Named(points[s.col], manifest)
      /\ s.pc \in {"retire", "done"} =>
           /\ alias # NoCollection
           /\ Holds(points[alias], manifest, {}) /\ Named(points[alias], manifest)

PointsOK == \A p \in Proc : PassPoints(p)

(* Each file of a rebuild is there once, and whole; the one at hand lacks  *)
(* what is left of it.                                                     *)
File(S, f) == {q \in S : q.name = f}

WholeBut(S, f) ==
    \A pt \in S : pt.name # f =>
      /\ \A qt \in File(S, pt.name) : qt.content = pt.content
      /\ Cardinality(File(S, pt.name)) = NumBatches[pt.content]

Partial(S, f, c, left) ==
    /\ IsFiniteSet(File(S, f)) /\ \A qt \in File(S, f) : qt.content = c
    /\ \/ File(S, f) = {} /\ left = 0
       \/ Cardinality(File(S, f)) + left = NumBatches[c]

PassFiles(p) ==
    LET s == pass[p] IN
    s.mode = "rebuild" =>
      /\ s.pc \in {"scan", "add", "switch", "migrate"} => WholeBut(points[s.col], NoPath)
      /\ s.pc = "ingest" => /\ WholeBut(points[s.col], s.scan[s.cur])
                            /\ Partial(points[s.col], s.scan[s.cur], s.got, s.left)

FilesOK == \A p \in Proc : PassFiles(p)

(* The ids of a row, or at hand, were made from one content.  Until it     *)
(* prunes, an incremental pass goes by ids the manifest still has, and     *)
(* what it is to add has no row.                                           *)
OneContentOf(held, ids) ==
    \A k \in Collection : \A pt, qt \in held[k] :
      pt.id \in ids /\ qt.id \in ids => pt.content = qt.content

Made(held, ids, c) ==
    \A k \in Collection : \A pt \in held[k] : pt.id \in ids => pt.content = c

Comparing == {"add", "ingest", "reconcile", "rename", "repath"}

PassContent(p) ==
    LET s == pass[p] IN
    /\ \A c \in Content : OneContentOf(points, s.rows[c].uuids)
    /\ s.pc = "ingest" => Made(points, s.ids, s.got)
    /\ s.pc = "drop" => OneContentOf(points, s.ids)

PassDb(p) ==
    LET s == pass[p] IN
    s.pc \in Comparing /\ s.mode # "rebuild" =>
      /\ \A c \in Recorded(s.db) : s.db[c].uuids = manifest[c].uuids
      /\ s.pc \in {"add", "ingest"} =>
           s.todo \cap (Recorded(s.db) \cup Recorded(manifest)) = {}
      /\ s.pc \notin {"add", "ingest"} => s.todo \subseteq Recorded(s.db)

ContentOK ==
    /\ \A c \in Content : OneContentOf(points, manifest[c].uuids)
    /\ \A p \in Proc : PassContent(p) /\ PassDb(p)

-----------------------------------------------------------------------------
(***************************************************************************)
(* What the steps of a pass do, field by field.                            *)
(***************************************************************************)

(* A step is the environment's or one process's, while the others idle.    *)
LEMMA OneActs ==
    ASSUME TypeOK, OneWriter, [Next]_vars
    PROVE  \/ UNCHANGED vars
           \/ Environment
           \/ \E p \in Proc :
                /\ BeginStep(p) \/ WorkStep(p) \/ EndStep(p)
                /\ \A q \in Proc \ {p} : pass[q].pc = "idle" /\ pass'[q] = pass[q]
<1>0. pass \in [Proc -> PassState]
  BY DEF TypeOK
<1>1. ASSUME NEW p \in Proc, WorkStep(p)
      PROVE  \A q \in Proc \ {p} : pass[q].pc = "idle" /\ pass'[q] = pass[q]
  BY <1>1, WorkStepLocal, OthersIdle DEF Keeps
<1>2. ASSUME NEW p \in Proc, BeginStep(p)
      PROVE  \A q \in Proc \ {p} : pass[q].pc = "idle" /\ pass'[q] = pass[q]
  BY <1>2, BeginStepLocal
<1>3. ASSUME NEW p \in Proc, EndStep(p)
      PROVE  \A q \in Proc \ {p} : pass[q].pc = "idle" /\ pass'[q] = pass[q]
  BY <1>0, <1>3, EndStepLocal, OthersIdle
<1> QED BY <1>1, <1>2, <1>3, NextCases

LEMMA WorkFrame ==
    ASSUME TypeOK, NEW p \in Proc, WorkStep(p)
    PROVE  /\ pass'[p].mode = pass[p].mode
           /\ UNCHANGED <<aborts, steady, disk, edits, gone>>
<1>0. pass \in [Proc -> PassState] /\ pass[p] \in PassState
  BY DEF TypeOK
<1> USE <1>0 DEF Local, PassState
<1>1. CASE \E f \in Path : HashNext(p, f)
  BY <1>1 DEF HashNext, NextListed, tree
<1>2. CASE ReadManifest(p)
  BY <1>2 DEF ReadManifest, tree
<1>3. CASE \E c \in Content : OpenFile(p, c)
  BY <1>3 DEF OpenFile, tree
<1>4. CASE UpsertBatch(p)
  BY <1>4 DEF UpsertBatch, tree
<1>5. CASE RecordRow(p)
  <2> DEFINE t == NextFile(pass[p])
             r == [t.rows EXCEPT ![pass[p].cur] =
                     FreshRow(pass[p].ids, pass[p].scan[pass[p].cur])]
  <2>1. t.mode = pass[p].mode /\ [t EXCEPT !.rows = r].mode = t.mode
    BY DEF NextFile
  <2>2. Local(p, [t EXCEPT !.rows = r]) \/ Local(p, t)
    BY <1>5 DEF RecordRow
  <2> HIDE DEF t, r
  <2> QED BY <1>5, <2>1, <2>2 DEF RecordRow, tree
<1>6. CASE EndAdd(p)
  BY <1>6 DEF EndAdd, tree
<1>7. CASE \E c \in Content : Reconcile(p, c)
  BY <1>7 DEF Reconcile, tree
<1>8. CASE RefreshName(p)
  BY <1>8 DEF RefreshName, tree
<1>9. CASE SetPath(p)
  BY <1>9 DEF SetPath, tree
<1>10. CASE EndReconcile(p)
  BY <1>10 DEF EndReconcile, tree
<1>11. CASE \E c \in Content : DropRow(p, c)
  BY <1>11 DEF DropRow, tree
<1>12. CASE DropPoints(p)
  BY <1>12 DEF DropPoints, tree
<1>13. CASE \E c \in Content : MarkDeparted(p, c)
  BY <1>13 DEF MarkDeparted, tree
<1>14. CASE EndMark(p)
  BY <1>14 DEF EndMark, tree
<1>15. CASE \E c \in Content : ReapPoints(p, c)
  BY <1>15 DEF ReapPoints, tree
<1>16. CASE ReapRow(p)
  BY <1>16 DEF ReapRow, tree
<1>17. CASE EndIncremental(p)
  BY <1>17 DEF EndIncremental, tree
<1>18. CASE ReplaceAll(p)
  BY <1>18 DEF ReplaceAll, tree
<1>19. CASE DropLegacy(p)
  BY <1>19 DEF DropLegacy, AtSwitch, tree
<1>20. CASE CreateAlias(p)
  BY <1>20 DEF CreateAlias, tree
<1>21. CASE SwitchAlias(p)
  BY <1>21 DEF SwitchAlias, AtSwitch, tree
<1>22. CASE DropOld(p)
  BY <1>22 DEF DropOld, tree
<1> QED BY <1>1, <1>2, <1>3, <1>4, <1>5, <1>6, <1>7, <1>8, <1>9, <1>10, <1>11,
           <1>12, <1>13, <1>14, <1>15, <1>16, <1>17, <1>18, <1>19, <1>20, <1>21, <1>22 DEF WorkStep

(* The file at hand is one the scan saw.                                   *)
LEMMA AtHandScanned ==
    ASSUME TypeOK, PhaseOK, NEW p \in Proc,
           pass[p].pc \in {"ingest", "rename", "repath"}
    PROVE  /\ pass[p].cur \in Content /\ pass[p].cur \in Scanned(p)
           /\ pass[p].cur \in pass[p].todo
           /\ pass[p].scan[pass[p].cur] \in Path
           /\ pass[p].col \in Collection
           /\ pass[p].pc = "ingest" => pass[p].got \in Content
<1>1. pass[p] \in PassState
  BY DEF TypeOK
<1>2. PassPhase(p)
  BY DEF PhaseOK
<1> QED BY <1>1, <1>2 DEF PassPhase, PassState, Scanned

LEMMA RecordRowDoes ==
    ASSUME TypeOK, PhaseOK, NEW p \in Proc, RecordRow(p)
    PROVE  LET s == pass[p]
               t == pass'[p]
           IN
           /\ s.pc = "ingest" /\ s.left = 0 /\ t.pc = "add"
           /\ t.mode = s.mode /\ t.col = s.col /\ t.listing = s.listing
           /\ t.scan = s.scan /\ t.db = s.db /\ t.todo = s.todo \ {s.cur}
           /\ t.ids = {} /\ UNCHANGED <<tree, store, steady, aborts>>
           /\ \E row \in Row :
                /\ row.uuids = s.ids /\ row.path = s.scan[s.cur]
                /\ row.departed = NotDeparted
                /\ s.mode = "rebuild" => /\ t.rows = [s.rows EXCEPT ![s.cur] = row]
                                         /\ manifest' = manifest
                /\ s.mode # "rebuild" => /\ t.rows = s.rows
                                         /\ manifest' = [manifest EXCEPT ![s.cur] = row]
<1> DEFINE s   == pass[p]
           t   == NextFile(s)
           row == FreshRow(s.ids, s.scan[s.cur])
           r   == [t.rows EXCEPT ![s.cur] = row]
           u   == [t EXCEPT !.rows = r]
<1>0. pass \in [Proc -> PassState] /\ s \in PassState
  BY DEF TypeOK
<1>1. s.pc = "ingest" /\ s.left = 0
  BY <1>0 DEF RecordRow, MoreToEmbed, PassState
<1>2. s.cur \in Content /\ s.scan[s.cur] \in Path
  BY <1>1, AtHandScanned
<1>3. /\ row \in Row /\ row.uuids = s.ids /\ row.path = s.scan[s.cur]
      /\ row.departed = NotDeparted
  BY <1>0, <1>2 DEF FreshRow, Row, PassState, NotDeparted
<1>4. /\ t.pc = "add" /\ t.mode = s.mode /\ t.col = s.col /\ t.listing = s.listing
      /\ t.scan = s.scan /\ t.db = s.db /\ t.todo = s.todo \ {s.cur}
      /\ t.ids = {} /\ t.rows = s.rows
  BY <1>0 DEF NextFile, PassState
<1>5. /\ u.pc = t.pc /\ u.mode = t.mode /\ u.col = t.col /\ u.listing = t.listing
      /\ u.scan = t.scan /\ u.db = t.db /\ u.todo = t.todo
      /\ u.ids = t.ids /\ u.rows = r
  BY <1>0 DEF NextFile, PassState
<1>6. /\ UNCHANGED <<tree, store, steady, aborts>>
      /\ s.mode = "rebuild" => Local(p, u) /\ manifest' = manifest
      /\ s.mode # "rebuild" => Local(p, t) /\ manifest' = [manifest EXCEPT ![s.cur] = row]
  BY DEF RecordRow
<1> HIDE DEF t, u, row
<1>7. /\ s.mode = "rebuild" => pass'[p] = u
      /\ s.mode # "rebuild" => pass'[p] = t
  BY <1>0, <1>6 DEF Local
<1>8. r = [s.rows EXCEPT ![s.cur] = row]
  BY <1>4
<1> HIDE DEF s, r
<1>9. CASE s.mode = "rebuild"
  BY <1>1, <1>3, <1>4, <1>5, <1>6, <1>7, <1>8, <1>9 DEF s
<1>10. CASE s.mode # "rebuild"
  BY <1>1, <1>3, <1>4, <1>6, <1>7, <1>10 DEF s
<1> QED BY <1>9, <1>10

LEMMA UpsertBatchDoes ==
    ASSUME TypeOK, PhaseOK, NEW p \in Proc, UpsertBatch(p)
    PROVE  LET s == pass[p]
               t == pass'[p]
           IN
           /\ s.pc = "ingest" /\ s.left \in Nat \ {0} /\ t.pc = "ingest"
           /\ t.mode = s.mode /\ t.col = s.col /\ t.listing = s.listing
           /\ t.scan = s.scan /\ t.db = s.db /\ t.todo = s.todo
           /\ t.cur = s.cur /\ t.got = s.got /\ t.rows = s.rows
           /\ t.left = s.left - 1
           /\ UNCHANGED <<tree, manifest, colls, alias, steady, aborts>>
           /\ \E pt \in Point :
                /\ pt.content = s.got /\ pt.name = s.scan[s.cur]
                /\ t.ids = s.ids \cup {pt.id}
                /\ points' = [points EXCEPT ![s.col] = @ \cup {pt}]
                /\ \A k \in Collection : \A qt \in points[k] : qt.id # pt.id
                /\ pt.id \notin s.ids \cup UuidsOf(manifest) \cup UuidsOf(s.rows)
<1> DEFINE s  == pass[p]
           i  == FreshId
           pt == [id |-> i, content |-> s.got, name |-> s.scan[s.cur]]
           t  == [s EXCEPT !.left = @ - 1, !.ids = Collected(s, i)]
<1>0. pass \in [Proc -> PassState] /\ s \in PassState
  BY DEF TypeOK
<1>1. /\ s.pc = "ingest" /\ s.left \in Nat \ {0}
      /\ points' = [points EXCEPT ![s.col] = @ \cup {pt}]
      /\ Local(p, t)
      /\ UNCHANGED <<tree, manifest, colls, alias, steady, aborts>>
  BY <1>0 DEF UpsertBatch, MoreToEmbed, PassState
<1>2. i \in PointId \ UsedIds
  BY FreshIdIsFresh DEF UpsertBatch
<1>3. pt \in Point /\ pt.id = i /\ pt.content = s.got /\ pt.name = s.scan[s.cur]
  BY <1>1, <1>2, AtHandScanned DEF Point
<1>4. ASSUME NEW k \in Collection, NEW qt \in points[k] PROVE qt.id # i
  BY <1>2 DEF UsedIds
<1>5. i \notin s.ids \cup UuidsOf(manifest) \cup UuidsOf(s.rows)
  BY <1>2 DEF UsedIds
<1>6. /\ t.pc = s.pc /\ t.mode = s.mode /\ t.col = s.col /\ t.listing = s.listing
      /\ t.scan = s.scan /\ t.db = s.db /\ t.todo = s.todo
      /\ t.cur = s.cur /\ t.got = s.got /\ t.rows = s.rows
      /\ t.left = s.left - 1 /\ t.ids = s.ids \cup {i}
  BY <1>0 DEF PassState, Collected
<1>7. pass'[p] = t
  BY <1>0, <1>1 DEF Local
<1> HIDE DEF t, pt, i
<1> QED BY <1>1, <1>3, <1>4, <1>5, <1>6, <1>7

(* Refreshing a name touches no id and no content.                         *)
Told(pt, ids, f) == IF pt.id \in ids THEN [pt EXCEPT !.name = f] ELSE pt

LEMMA ToldKeeps ==
    ASSUME NEW pt \in Point, NEW ids, NEW f \in Path
    PROVE  /\ Told(pt, ids, f) \in Point
           /\ Told(pt, ids, f).id = pt.id /\ Told(pt, ids, f).content = pt.content
           /\ pt.id \in ids => Told(pt, ids, f).name = f
           /\ pt.id \notin ids => Told(pt, ids, f) = pt
BY DEF Told, Point

LEMMA RefreshNameDoes ==
    ASSUME TypeOK, PhaseOK, NEW p \in Proc, RefreshName(p)
    PROVE  LET s == pass[p]
               t == pass'[p]
           IN
           /\ s.pc = "rename" /\ t.pc = "repath"
           /\ t.mode = s.mode /\ t.col = s.col /\ t.listing = s.listing
           /\ t.scan = s.scan /\ t.db = s.db /\ t.todo = s.todo
           /\ t.cur = s.cur /\ t.ids = s.ids /\ t.rows = s.rows
           /\ points' = [points EXCEPT ![s.col] =
                {Told(pt, s.db[s.cur].uuids, s.scan[s.cur]) : pt \in @}]
           /\ UNCHANGED <<tree, manifest, colls, alias, steady, aborts>>
<1>0. pass \in [Proc -> PassState] /\ pass[p] \in PassState
  BY DEF TypeOK
<1>1. points' = [points EXCEPT ![pass[p].col] =
        {Told(pt, pass[p].db[pass[p].cur].uuids, pass[p].scan[pass[p].cur]) : pt \in @}]
  BY DEF RefreshName, Told
<1>2. /\ Local(p, [pass[p] EXCEPT !.pc = "repath"]) /\ pass[p].pc = "rename"
      /\ UNCHANGED <<tree, manifest, colls, alias, steady, aborts>>
  BY DEF RefreshName
<1> QED BY <1>0, <1>1, <1>2 DEF Local, PassState

(* Every point after a refresh is one before, and the other way round.     *)
LEMMA RefreshPoints ==
    ASSUME TypeOK, PhaseOK, NEW p \in Proc, RefreshName(p), NEW k \in Collection
    PROVE  /\ \A qt \in points'[k] : \E pt \in points[k] :
                /\ pt.id = qt.id /\ pt.content = qt.content
                /\ qt = IF k = pass[p].col
                        THEN Told(pt, pass[p].db[pass[p].cur].uuids,
                                  pass[p].scan[pass[p].cur])
                        ELSE pt
           /\ \A pt \in points[k] : \E qt \in points'[k] :
                /\ pt.id = qt.id /\ pt.content = qt.content
                /\ qt = IF k = pass[p].col
                        THEN Told(pt, pass[p].db[pass[p].cur].uuids,
                                  pass[p].scan[pass[p].cur])
                        ELSE pt
<1> DEFINE ids == pass[p].db[pass[p].cur].uuids
           f   == pass[p].scan[pass[p].cur]
<1>1. pass[p].pc = "rename" /\ points \in [Collection -> SUBSET Point]
  BY RefreshNameDoes DEF TypeOK
<1>2. f \in Path /\ pass[p].col \in Collection
  BY <1>1, AtHandScanned
<1>3. points' = [points EXCEPT ![pass[p].col] = {Told(pt, ids, f) : pt \in @}]
  BY RefreshNameDoes
<1> HIDE DEF ids, f
<1>4. \A pt \in points[k] : /\ Told(pt, ids, f).id = pt.id
                            /\ Told(pt, ids, f).content = pt.content
  BY <1>1, <1>2, ToldKeeps
<1>5. CASE k = pass[p].col
  <2>1. points'[k] = {Told(pt, ids, f) : pt \in points[k]}
    BY <1>1, <1>2, <1>3, <1>5
  <2> QED BY <1>4, <1>5, <2>1 DEF ids, f
<1>6. CASE k # pass[p].col
  <2>1. points'[k] = points[k]
    BY <1>1, <1>2, <1>3, <1>6
  <2> QED BY <1>6, <2>1
<1> QED BY <1>5, <1>6

(* A rebuild takes ten kinds of steps, an incremental pass the others.     *)
LEMMA RebuildWork ==
    ASSUME TypeOK, StoreOK, NEW p \in Proc, WorkStep(p), pass[p].mode = "rebuild"
    PROVE  \/ \E f \in Path : HashNext(p, f)
           \/ ReadManifest(p)
           \/ \E c \in Content : OpenFile(p, c)
           \/ UpsertBatch(p) \/ RecordRow(p) \/ ReplaceAll(p)
           \/ DropLegacy(p) \/ CreateAlias(p) \/ SwitchAlias(p) \/ DropOld(p)
<1>1. pass[p].pc \in Adding \cup Replaced
  BY DEF StoreOK, PassStore
<1> QED BY <1>1 DEF WorkStep, EndAdd, Reconcile, RefreshName, SetPath, EndReconcile,
                    DropRow, DropPoints, MarkDeparted, EndMark, ReapPoints, ReapRow,
                    EndIncremental, Adding, Replaced

LEMMA IncrementalWork ==
    ASSUME TypeOK, AliasSafe, NEW p \in Proc, WorkStep(p), pass[p].mode # "rebuild"
    PROVE  \/ \E f \in Path : HashNext(p, f)
           \/ ReadManifest(p)
           \/ \E c \in Content : OpenFile(p, c)
           \/ UpsertBatch(p) \/ RecordRow(p) \/ EndAdd(p)
           \/ \E c \in Content : Reconcile(p, c)
           \/ RefreshName(p) \/ SetPath(p) \/ EndReconcile(p)
           \/ \E c \in Content : DropRow(p, c)
           \/ DropPoints(p)
           \/ \E c \in Content : MarkDeparted(p, c)
           \/ EndMark(p)
           \/ \E c \in Content : ReapPoints(p, c)
           \/ ReapRow(p) \/ EndIncremental(p)
<1>1. pass[p].pc \notin {"switch", "migrate", "retire"}
  BY DEF AliasSafe, PassAlias
<1> QED BY <1>1 DEF WorkStep, ReplaceAll, DropLegacy, AtSwitch, CreateAlias,
                    SwitchAlias, DropOld

-----------------------------------------------------------------------------
(***************************************************************************)
(* The store: collections keyed by id, and what each pass writes.          *)
(***************************************************************************)
LEMMA InitStore == Init => StoreOK /\ ScanOK
<1> SUFFICES ASSUME Init PROVE StoreOK /\ ScanOK
  OBVIOUS
<1>1. \A p \in Proc : pass[p] = Blank
  BY DEF Init
<1>2. Blank.pc = "idle" /\ Blank.mode = "watch" /\ Blank.scan = NoScan
  BY DEF Blank
<1>3. \A k \in Collection : KeyedById(points[k]) /\ (k \notin colls => points[k] = {})
  BY LegacyAssumption DEF Init, KeyedById
<1>4. \A p \in Proc : PassStore(p)
  BY <1>1, <1>2 DEF PassStore
<1>5. \A p \in Proc : PassScan(p)
  BY <1>1, <1>2 DEF PassScan, Scanned, NoScan
<1> QED BY <1>3, <1>4, <1>5 DEF StoreOK, ScanOK

LEMMA WithoutKeyed ==
    ASSUME NEW pts, NEW ids, KeyedById(pts) PROVE KeyedById(Without(pts, ids))
BY DEF KeyedById, Without

(* What a step must leave of the collections.                              *)
CollsOK == /\ \A k \in Collection : KeyedById(points[k])
           /\ \A k \in Collection \ colls : points[k] = {}

LEMMA StoreWork ==
    ASSUME IInv, StoreOK, NEW p \in Proc, WorkStep(p)
    PROVE  CollsOK' /\ PassStore(p)'
<1>0. /\ pass \in [Proc -> PassState] /\ pass[p] \in PassState
      /\ points \in [Collection -> SUBSET Point] /\ colls \subseteq Collection
      /\ PassStore(p) /\ PassPhase(p) /\ PassAlias(p) /\ AliasResolves /\ CollsOK
      /\ TypeOK /\ PhaseOK /\ AliasSafe
  BY DEF IInv, TypeOK, StoreOK, PhaseOK, AliasSafe, CollsOK
<1>a. pass[p].mode \in Mode
  BY <1>0 DEF PassState
<1> USE <1>0, <1>a
<1> USE DEF PassStore, Adding, Replaced
<1>b. ASSUME UNCHANGED store PROVE CollsOK' /\ Live' = Live
  BY <1>b DEF CollsOK, store, Live
<1>c. ASSUME NEW pts \in SUBSET Point, points' = [points EXCEPT ![pass[p].col] = pts],
             UNCHANGED <<colls, alias>>, KeyedById(pts),
             pass[p].col \in colls \/ pts = {}
      PROVE  CollsOK' /\ Live' = Live
  BY <1>c DEF CollsOK, Live
<1>1. CASE \E f \in Path : HashNext(p, f)
  BY <1>1, <1>b DEF HashNext, NextListed, Local, PassState, store
<1>2. CASE ReadManifest(p)
  BY <1>2, <1>b DEF ReadManifest, Local, PassState, store
<1>3. CASE \E c \in Content : OpenFile(p, c)
  BY <1>3, <1>b DEF OpenFile, Local, PassState, store
<1>4. CASE UpsertBatch(p)
  <2>1. PICK pt \in Point :
          /\ points' = [points EXCEPT ![pass[p].col] = @ \cup {pt}]
          /\ \A k \in Collection : \A qt \in points[k] : qt.id # pt.id
    BY <1>4, UpsertBatchDoes
  <2>2. /\ pass[p].pc = "ingest" /\ pass'[p].pc = "ingest"
        /\ pass'[p].mode = pass[p].mode /\ pass'[p].col = pass[p].col
        /\ UNCHANGED <<colls, alias>>
    BY <1>4, UpsertBatchDoes
  <2>3. pass[p].col \in colls
    BY <2>2 DEF PassAlias
  <2>4. KeyedById(points[pass[p].col] \cup {pt})
    BY <2>1, <2>3 DEF CollsOK, KeyedById
  <2>5. CollsOK' /\ Live' = Live
    BY <1>c, <2>1, <2>2, <2>3, <2>4
  <2> QED BY <2>2, <2>5
<1>5. CASE RecordRow(p)
  <2>1. /\ pass[p].pc = "ingest" /\ pass'[p].pc = "add" /\ UNCHANGED store
        /\ pass'[p].mode = pass[p].mode /\ pass'[p].col = pass[p].col
    BY <1>5, RecordRowDoes
  <2> QED BY <1>b, <2>1 DEF store
<1>6. CASE EndAdd(p)
  BY <1>6, <1>b DEF EndAdd, Local, PassState, store
<1>7. CASE \E c \in Content : Reconcile(p, c)
  BY <1>7, <1>b DEF Reconcile, Local, PassState, store
<1>8. CASE RefreshName(p)
  <2>1. /\ pass[p].pc = "rename" /\ pass'[p].pc = "repath"
        /\ pass'[p].mode = pass[p].mode /\ pass'[p].col = pass[p].col
        /\ UNCHANGED <<colls, alias>>
    BY <1>8, RefreshNameDoes
  <2>2. ASSUME NEW k \in Collection PROVE KeyedById(points'[k])
    <3> SUFFICES ASSUME NEW qt \in points'[k], NEW qt2 \in points'[k], qt.id = qt2.id
                 PROVE  qt = qt2
      BY DEF KeyedById
    <3> DEFINE told(pt) == IF k = pass[p].col
                           THEN Told(pt, pass[p].db[pass[p].cur].uuids,
                                     pass[p].scan[pass[p].cur])
                           ELSE pt
    <3>1. PICK pt \in points[k] : pt.id = qt.id /\ qt = told(pt)
      BY <1>8, RefreshPoints
    <3>2. PICK pt2 \in points[k] : pt2.id = qt2.id /\ qt2 = told(pt2)
      BY <1>8, RefreshPoints
    <3> HIDE DEF told
    <3> QED BY <3>1, <3>2 DEF CollsOK, KeyedById
  <2>3. ASSUME NEW k \in Collection \ colls PROVE points'[k] = {}
    BY <1>8, <2>3, RefreshPoints DEF CollsOK
  <2> QED BY <2>1, <2>2, <2>3 DEF CollsOK, Live
<1>9. CASE SetPath(p)
  BY <1>9, <1>b DEF SetPath, Local, PassState, store
<1>10. CASE EndReconcile(p)
  BY <1>10, <1>b DEF EndReconcile, Local, PassState, store, Mode
<1>11. CASE \E c \in Content : DropRow(p, c)
  BY <1>11, <1>b DEF DropRow, Local, PassState, store
<1>12. CASE DropPoints(p)
  <2>1. /\ pass[p].pc = "drop" /\ pass[p].mode # "rebuild" /\ pass'[p].pc = "prune"
        /\ pass'[p].mode = pass[p].mode /\ pass'[p].col = pass[p].col
        /\ points' = [points EXCEPT ![pass[p].col] = Without(@, pass[p].ids)]
        /\ UNCHANGED <<colls, alias>>
    BY <1>12 DEF DropPoints, Local, PassState
  <2>2. /\ KeyedById(Without(points[pass[p].col], pass[p].ids))
        /\ Without(points[pass[p].col], pass[p].ids) \in SUBSET Point
    BY <2>1, WithoutKeyed DEF CollsOK, Without
  <2>3. CollsOK' /\ Live' = Live
    BY <1>c, <2>1, <2>2
  <2> QED BY <2>1, <2>3
<1>13. CASE \E c \in Content : MarkDeparted(p, c)
  BY <1>13, <1>b DEF MarkDeparted, Local, PassState, store
<1>14. CASE EndMark(p)
  BY <1>14, <1>b DEF EndMark, Local, PassState, store
<1>15. CASE \E c \in Content : ReapPoints(p, c)
  <2>1. PICK c \in Content : ReapPoints(p, c)
    BY <1>15
  <2>2. /\ pass[p].pc = "reap" /\ pass'[p].pc = "unrecord"
        /\ pass'[p].mode = pass[p].mode /\ pass'[p].col = pass[p].col
        /\ points' = [points EXCEPT ![pass[p].col] = Without(@, pass[p].db[c].uuids)]
        /\ UNCHANGED <<colls, alias>>
    BY <2>1 DEF ReapPoints, Local, PassState
  <2>3. /\ KeyedById(Without(points[pass[p].col], pass[p].db[c].uuids))
        /\ Without(points[pass[p].col], pass[p].db[c].uuids) \in SUBSET Point
    BY <2>2, WithoutKeyed DEF CollsOK, Without
  <2>4. CollsOK' /\ Live' = Live
    BY <1>c, <2>2, <2>3
  <2> QED BY <2>2, <2>4
<1>16. CASE ReapRow(p)
  BY <1>16, <1>b DEF ReapRow, Local, PassState, store
<1>17. CASE EndIncremental(p)
  BY <1>17, <1>b DEF EndIncremental, Local, PassState, store
<1>18. CASE ReplaceAll(p)
  BY <1>18, <1>b DEF ReplaceAll, Local, PassState, store
<1>19. CASE DropLegacy(p)
  <2>1. /\ colls' = colls \ {Legacy} /\ points' = [points EXCEPT ![Legacy] = {}]
        /\ pass[p].pc = "switch" /\ pass'[p].pc = "migrate"
        /\ pass'[p].mode = pass[p].mode
    BY <1>19 DEF DropLegacy, AtSwitch, Local, PassState
  <2>2. CollsOK'
    BY <2>1 DEF CollsOK, KeyedById
  <2> QED BY <2>1, <2>2 DEF PassAlias
<1>20. CASE CreateAlias(p)
  <2>1. /\ UNCHANGED <<colls, points>> /\ pass[p].pc = "migrate"
        /\ pass'[p].pc = "done" /\ pass'[p].mode = pass[p].mode
    BY <1>20 DEF CreateAlias, Local, PassState
  <2> QED BY <2>1 DEF PassAlias, CollsOK
<1>21. CASE SwitchAlias(p)
  <2>1. /\ UNCHANGED <<colls, points>> /\ pass[p].pc = "switch"
        /\ pass'[p].pc \in {"done", "retire"} /\ pass'[p].mode = pass[p].mode
    BY <1>21 DEF SwitchAlias, AtSwitch, Local, PassState
  <2> QED BY <2>1 DEF PassAlias, CollsOK
<1>22. CASE DropOld(p)
  <2>1. /\ colls' = colls \ {pass[p].col}
        /\ points' = [points EXCEPT ![pass[p].col] = {}]
        /\ pass[p].pc = "retire" /\ pass'[p].pc = "done"
        /\ pass'[p].mode = pass[p].mode
    BY <1>22 DEF DropOld, Local, PassState
  <2>2. CollsOK'
    BY <2>1 DEF CollsOK, KeyedById
  <2> QED BY <2>1, <2>2 DEF PassAlias
<1> QED BY <1>1, <1>2, <1>3, <1>4, <1>5, <1>6, <1>7, <1>8, <1>9, <1>10, <1>11,
           <1>12, <1>13, <1>14, <1>15, <1>16, <1>17, <1>18, <1>19, <1>20, <1>21, <1>22 DEF WorkStep

(* Time passing and edits change nothing of a pass but its lag.            *)
LEMMA EnvironmentKeeps ==
    ASSUME TypeOK, Environment, NEW q \in Proc
    PROVE  /\ pass'[q].pc = pass[q].pc /\ pass'[q].mode = pass[q].mode
           /\ pass'[q].col = pass[q].col /\ pass'[q].listing = pass[q].listing
           /\ pass'[q].scan = pass[q].scan /\ pass'[q].db = pass[q].db
           /\ pass'[q].todo = pass[q].todo /\ pass'[q].cur = pass[q].cur
           /\ pass'[q].got = pass[q].got /\ pass'[q].left = pass[q].left
           /\ pass'[q].ids = pass[q].ids /\ pass'[q].rows = pass[q].rows
<1>0. pass[q] \in PassState
  BY DEF TypeOK
<1>1. CASE pass'[q] = pass[q]
  BY <1>1
<1>2. CASE pass'[q] = [pass[q] EXCEPT !.lag = pass[q].lag + 1]
  BY <1>0, <1>2 DEF PassState
<1> QED BY <1>1, <1>2, EnvironmentLocal

LEMMA StoreStep ==
    ASSUME IInv, StoreOK, [Next]_vars PROVE StoreOK'
<1>0. /\ TypeOK /\ OneWriter /\ pass \in [Proc -> PassState]
      /\ CollsOK /\ AliasResolves
      /\ \A q \in Proc : PassStore(q)
  BY DEF IInv, TypeOK, StoreOK, CollsOK, AliasSafe
<1>1. SUFFICES CollsOK' /\ \A q \in Proc : PassStore(q)'
  BY DEF StoreOK, CollsOK
<1>2. CASE UNCHANGED vars
  BY <1>0, <1>2 DEF vars, CollsOK, PassStore, Live
<1>3. CASE Environment
  <2>1. CollsOK' /\ Live' = Live /\ colls' = colls
    BY <1>0, <1>3, EnvironmentLocal DEF CollsOK, Live
  <2>2. ASSUME NEW q \in Proc PROVE PassStore(q)'
    BY <1>0, <1>3, <2>1, EnvironmentKeeps DEF PassStore
  <2> QED BY <2>1, <2>2
<1>4. ASSUME NEW p \in Proc,
             \A q \in Proc \ {p} : pass[q].pc = "idle" /\ pass'[q] = pass[q]
      PROVE  \A q \in Proc \ {p} : PassStore(q)'
  BY <1>0, <1>4 DEF PassStore
<1>5. ASSUME NEW p \in Proc, BeginStep(p) PROVE CollsOK' /\ PassStore(p)'
  <2>1. CASE BeginIncremental(p)
    <3>1. /\ pass'[p].pc = "scan" /\ pass'[p].mode # "rebuild"
          /\ pass'[p].col = Live /\ LiveExists /\ UNCHANGED <<colls, points, alias>>
      BY <1>0, <2>1 DEF BeginIncremental, Local, Blank, store
    <3> QED BY <1>0, <3>1 DEF CollsOK, PassStore, Live, LiveExists, AliasResolves
  <2>2. ASSUME NEW k \in Collection, BeginRebuild(p, k) PROVE CollsOK' /\ PassStore(p)'
    <3>1. /\ pass'[p].pc = "scan" /\ pass'[p].mode = "rebuild"
          /\ colls' = colls \cup {k} /\ UNCHANGED points
      BY <1>0, <2>2 DEF BeginRebuild, Local, Blank
    <3> QED BY <1>0, <3>1 DEF CollsOK, PassStore, Adding
  <2> QED BY <1>5, <2>1, <2>2 DEF BeginStep
<1>6. ASSUME NEW p \in Proc, EndStep(p) PROVE CollsOK' /\ PassStore(p)'
  <2>1. /\ pass'[p] = Blank /\ UNCHANGED <<colls, points, alias>>
    BY <1>0, <1>6, EndStepLocal DEF store
  <2>2. Blank.pc = "idle" /\ Blank.mode = "watch"
    BY DEF Blank
  <2> QED BY <1>0, <2>1, <2>2 DEF CollsOK, PassStore
<1>7. ASSUME NEW p \in Proc, WorkStep(p) PROVE CollsOK' /\ PassStore(p)'
  BY <1>7, StoreWork
<1> QED BY <1>0, <1>2, <1>3, <1>4, <1>5, <1>6, <1>7, OneActs

LEMMA ScanKept ==
    ASSUME NEW p \in Proc, ScanOK,
           pass'[p].scan = pass[p].scan, pass'[p].listing = pass[p].listing
    PROVE  PassScan(p)'
BY DEF ScanOK, PassScan, Scanned

LEMMA ScanWork ==
    ASSUME IInv, ScanOK, NEW p \in Proc, WorkStep(p) PROVE PassScan(p)'
<1>0. /\ pass \in [Proc -> PassState] /\ pass[p] \in PassState
      /\ PassScan(p) /\ TypeOK /\ PhaseOK
  BY DEF IInv, TypeOK, ScanOK
<1> USE <1>0, ScanKept DEF Local, PassState
<1>1. CASE \E f \in Path : HashNext(p, f)
  <2>1. PICK f \in Path : HashNext(p, f)
    BY <1>1
  <2>2. /\ f \in pass[p].listing /\ pass'[p].listing = pass[p].listing \ {f}
        /\ pass'[p].scan = [c \in Content |->
                              IF c = disk[f] THEN f ELSE pass[p].scan[c]]
    BY <2>1 DEF HashNext, NextListed
  <2>3. NoPath \notin Path
    BY Constants
  <2> QED BY <2>2, <2>3 DEF PassScan, Scanned
<1>2. CASE ReadManifest(p)
  BY <1>2 DEF ReadManifest
<1>3. CASE \E c \in Content : OpenFile(p, c)
  BY <1>3 DEF OpenFile
<1>4. CASE UpsertBatch(p)
  BY <1>4, UpsertBatchDoes
<1>5. CASE RecordRow(p)
  BY <1>5, RecordRowDoes
<1>6. CASE EndAdd(p)
  BY <1>6 DEF EndAdd
<1>7. CASE \E c \in Content : Reconcile(p, c)
  BY <1>7 DEF Reconcile
<1>8. CASE RefreshName(p)
  BY <1>8, RefreshNameDoes
<1>9. CASE SetPath(p)
  BY <1>9 DEF SetPath
<1>10. CASE EndReconcile(p)
  BY <1>10 DEF EndReconcile
<1>11. CASE \E c \in Content : DropRow(p, c)
  BY <1>11 DEF DropRow
<1>12. CASE DropPoints(p)
  BY <1>12 DEF DropPoints
<1>13. CASE \E c \in Content : MarkDeparted(p, c)
  BY <1>13 DEF MarkDeparted
<1>14. CASE EndMark(p)
  BY <1>14 DEF EndMark
<1>15. CASE \E c \in Content : ReapPoints(p, c)
  BY <1>15 DEF ReapPoints
<1>16. CASE ReapRow(p)
  BY <1>16 DEF ReapRow
<1>17. CASE EndIncremental(p)
  BY <1>17 DEF EndIncremental
<1>18. CASE ReplaceAll(p)
  BY <1>18 DEF ReplaceAll
<1>19. CASE DropLegacy(p)
  BY <1>19 DEF DropLegacy, AtSwitch
<1>20. CASE CreateAlias(p)
  BY <1>20 DEF CreateAlias
<1>21. CASE SwitchAlias(p)
  BY <1>21 DEF SwitchAlias, AtSwitch
<1>22. CASE DropOld(p)
  BY <1>22 DEF DropOld
<1> QED BY <1>1, <1>2, <1>3, <1>4, <1>5, <1>6, <1>7, <1>8, <1>9, <1>10, <1>11,
           <1>12, <1>13, <1>14, <1>15, <1>16, <1>17, <1>18, <1>19, <1>20, <1>21, <1>22 DEF WorkStep

LEMMA ScanStep ==
    ASSUME IInv, ScanOK, [Next]_vars PROVE ScanOK'
<1>0. TypeOK /\ OneWriter /\ pass \in [Proc -> PassState] /\ \A q \in Proc : PassScan(q)
  BY DEF IInv, TypeOK, ScanOK
<1>1. ASSUME NEW q \in Proc, pass'[q] = pass[q] PROVE PassScan(q)'
  BY <1>1, ScanKept
<1>2. CASE UNCHANGED vars
  BY <1>1, <1>2 DEF vars, ScanOK
<1>3. CASE Environment
  BY <1>0, <1>3, EnvironmentKeeps, ScanKept DEF ScanOK
<1>4. ASSUME NEW p \in Proc, BeginStep(p) PROVE PassScan(p)'
  BY <1>0, <1>4, BeginStepLocal DEF PassScan, Scanned, NoScan
<1>5. ASSUME NEW p \in Proc, EndStep(p) PROVE PassScan(p)'
  <2>1. pass'[p] = Blank /\ Blank.scan = NoScan
    BY <1>0, <1>5, EndStepLocal DEF Blank
  <2> QED BY <2>1 DEF PassScan, Scanned, NoScan
<1>6. ASSUME NEW p \in Proc, BeginStep(p) \/ WorkStep(p) \/ EndStep(p),
             \A q \in Proc \ {p} : pass[q].pc = "idle" /\ pass'[q] = pass[q]
      PROVE  ScanOK'
  BY <1>1, <1>4, <1>5, <1>6, ScanWork DEF ScanOK
<1> QED BY <1>0, <1>2, <1>3, <1>6, OneActs

-----------------------------------------------------------------------------
(***************************************************************************)
(* Rows: what a rebuild collects, and what is in the manifest then.        *)
(***************************************************************************)
LEMMA NoRowsAreBare == Bare(NoRows) /\ \A c \in Content : NoRows[c].path = NoPath
BY DEF Bare, NoRows, NoRow

LEMMA InitRows == Init => RowsOK
<1>1. Blank.pc = "idle" /\ Blank.mode = "watch" /\ Blank.rows = NoRows /\ Blank.ids = {}
  BY DEF Blank
<1> QED BY <1>1, NoRowsAreBare DEF Init, RowsOK, PassRows

(* Recording a row leaves the others bare where they were.                 *)
LEMMA RecordBare ==
    ASSUME NEW rows \in [Content -> Row], Bare(rows), NEW c \in Content,
           NEW row \in Row, row.path # NoPath
    PROVE  Bare([rows EXCEPT ![c] = row])
BY DEF Bare

LEMMA SameBare ==
    ASSUME Bare(manifest),
           \A c \in Content : /\ manifest'[c].uuids = manifest[c].uuids
                              /\ manifest'[c].path = manifest[c].path
    PROVE  Bare(manifest)'
BY DEF Bare

LEMMA RowsWork ==
    ASSUME IInv, StoreOK, RowsOK, NEW p \in Proc, WorkStep(p)
    PROVE  Bare(manifest)' /\ PassRows(p)'
<1>0. /\ pass \in [Proc -> PassState] /\ pass[p] \in PassState
      /\ manifest \in [Content -> Row]
      /\ PassRows(p) /\ Bare(manifest) /\ TypeOK /\ PhaseOK /\ AliasSafe /\ PassAlias(p)
  BY DEF IInv, TypeOK, RowsOK, AliasSafe
<1> USE <1>0 DEF Local, PassState, PassRows, Scanned, Replaced
<1>1. CASE \E f \in Path : HashNext(p, f)
  BY <1>1 DEF HashNext, NextListed
<1>2. CASE ReadManifest(p)
  BY <1>2, NoRowsAreBare DEF ReadManifest
<1>3. CASE \E c \in Content : OpenFile(p, c)
  BY <1>3 DEF OpenFile
<1>4. CASE UpsertBatch(p)
  BY <1>4, UpsertBatchDoes
<1>5. CASE RecordRow(p)
  <2> DEFINE s == pass[p]
             t == pass'[p]
  <2>1. PICK row \in Row :
          /\ row.path = s.scan[s.cur]
          /\ s.mode = "rebuild" => /\ t.rows = [s.rows EXCEPT ![s.cur] = row]
                                   /\ manifest' = manifest
          /\ s.mode # "rebuild" => /\ t.rows = s.rows
                                   /\ manifest' = [manifest EXCEPT ![s.cur] = row]
    <3> HIDE DEF Local, PassState, PassRows, Scanned
    <3> QED BY <1>5, RecordRowDoes
  <2>2. /\ s.pc = "ingest" /\ t.pc = "add" /\ t.mode = s.mode /\ t.scan = s.scan
        /\ t.todo = s.todo \ {s.cur} /\ t.ids = {}
    BY <1>5, RecordRowDoes
  <2>3. /\ s.cur \in Content /\ s.cur \in Scanned(p) /\ s.scan[s.cur] \in Path
        /\ NoPath \notin Path /\ s.rows \in [Content -> Row]
    BY <2>2, AtHandScanned, Constants
  <2>4. Bare(t.rows) /\ Bare(manifest)'
    BY <2>1, <2>3, RecordBare
  <2>5. ASSUME s.mode = "rebuild", NEW c \in Content
        PROVE  t.rows[c].path = IF c \in Scanned(p)' \ t.todo THEN t.scan[c] ELSE NoPath
    BY <2>1, <2>2, <2>3, <2>5
  <2> QED BY <2>2, <2>4, <2>5
<1>6. CASE EndAdd(p)
  BY <1>6 DEF EndAdd
<1>7. CASE \E c \in Content : Reconcile(p, c)
  <2>1. PICK c \in Content : Reconcile(p, c)
    BY <1>7
  <2>2. \A d \in Content : /\ manifest'[d].uuids = manifest[d].uuids
                           /\ manifest'[d].path = manifest[d].path
    BY <2>1 DEF Reconcile, Returned, Row
  <2> QED BY <2>1, <2>2, SameBare DEF Reconcile
<1>8. CASE RefreshName(p)
  BY <1>8, RefreshNameDoes
<1>9. CASE SetPath(p)
  <2>1. pass[p].pc = "repath"
    BY <1>9 DEF SetPath
  <2>2. pass[p].cur \in Content /\ pass[p].scan[pass[p].cur] \in Path /\ NoPath \notin Path
    BY <2>1, AtHandScanned, Constants
  <2>3. Bare(manifest)'
    BY <1>9, <2>2 DEF SetPath, Row, Bare
  <2> QED BY <1>9, <2>3 DEF SetPath
<1>10. CASE EndReconcile(p)
  BY <1>10 DEF EndReconcile
<1>11. CASE \E c \in Content : DropRow(p, c)
  BY <1>11 DEF DropRow, Bare, NoRow
<1>12. CASE DropPoints(p)
  BY <1>12 DEF DropPoints
<1>13. CASE \E c \in Content : MarkDeparted(p, c)
  <2>1. PICK c \in Content : MarkDeparted(p, c)
    BY <1>13
  <2>2. \A d \in Content : /\ manifest'[d].uuids = manifest[d].uuids
                           /\ manifest'[d].path = manifest[d].path
    BY <2>1 DEF MarkDeparted, Row
  <2> QED BY <2>1, <2>2, SameBare DEF MarkDeparted
<1>14. CASE EndMark(p)
  BY <1>14 DEF EndMark
<1>15. CASE \E c \in Content : ReapPoints(p, c)
  BY <1>15 DEF ReapPoints
<1>16. CASE ReapRow(p)
  BY <1>16 DEF ReapRow, Bare, NoRow
<1>17. CASE EndIncremental(p)
  <2>1. pass[p].pc \in {"prune", "reap"} /\ pass'[p].pc = "done" /\ manifest' = manifest
        /\ pass'[p].rows = pass[p].rows /\ pass'[p].mode = pass[p].mode
    BY <1>17 DEF EndIncremental
  <2>2. pass[p].mode # "rebuild"
    BY <2>1 DEF StoreOK, PassStore, Adding
  <2> QED BY <2>1, <2>2
<1>18. CASE ReplaceAll(p)
  <2>1. /\ pass[p].mode = "rebuild" /\ pass[p].pc = "add" /\ pass[p].todo = {}
        /\ manifest' = pass[p].rows /\ pass'[p].rows = NoRows
        /\ pass'[p].pc = "switch" /\ pass'[p].scan = pass[p].scan
    BY <1>18 DEF ReplaceAll, AllAdded, Replacement
  <2> QED BY <2>1, NoRowsAreBare
<1>19. CASE DropLegacy(p)
  BY <1>19 DEF DropLegacy, AtSwitch
<1>20. CASE CreateAlias(p)
  BY <1>20 DEF CreateAlias
<1>21. CASE SwitchAlias(p)
  BY <1>21 DEF SwitchAlias, AtSwitch
<1>22. CASE DropOld(p)
  BY <1>22 DEF DropOld
<1> QED BY <1>1, <1>2, <1>3, <1>4, <1>5, <1>6, <1>7, <1>8, <1>9, <1>10, <1>11,
           <1>12, <1>13, <1>14, <1>15, <1>16, <1>17, <1>18, <1>19, <1>20, <1>21, <1>22 DEF WorkStep

LEMMA RowsStep ==
    ASSUME IInv, StoreOK, RowsOK, [Next]_vars PROVE RowsOK'
<1>0. TypeOK /\ OneWriter /\ pass \in [Proc -> PassState]
      /\ Bare(manifest) /\ \A q \in Proc : PassRows(q)
  BY DEF IInv, TypeOK, RowsOK
<1>1. ASSUME NEW q \in Proc, pass[q].pc = "idle", pass'[q] = pass[q] PROVE PassRows(q)'
  BY <1>0, <1>1 DEF PassRows, Replaced
<1>2. CASE UNCHANGED vars
  BY <1>0, <1>2 DEF vars, RowsOK, PassRows, Scanned
<1>3. CASE Environment
  <2>1. \A c \in Content : /\ manifest'[c].uuids = manifest[c].uuids
                           /\ manifest'[c].path = manifest[c].path
    BY <1>0, <1>3, EnvironmentLocal
  <2>2. ASSUME NEW q \in Proc PROVE PassRows(q)'
    BY <1>0, <1>3, <2>1, EnvironmentKeeps DEF PassRows, Scanned
  <2> QED BY <1>0, <2>1, <2>2, SameBare DEF RowsOK
<1>4. ASSUME NEW p \in Proc, BeginStep(p) PROVE Bare(manifest)' /\ PassRows(p)'
  BY <1>0, <1>4, BeginStepLocal, NoRowsAreBare DEF PassRows, Replaced
<1>5. ASSUME NEW p \in Proc, EndStep(p) PROVE Bare(manifest)' /\ PassRows(p)'
  <2>1. pass'[p] = Blank /\ manifest' = manifest
    BY <1>0, <1>5, EndStepLocal
  <2>2. Blank.pc = "idle" /\ Blank.mode = "watch" /\ Blank.rows = NoRows /\ Blank.ids = {}
    BY DEF Blank
  <2> QED BY <1>0, <2>1, <2>2, NoRowsAreBare DEF PassRows
<1>6. ASSUME NEW p \in Proc, BeginStep(p) \/ WorkStep(p) \/ EndStep(p),
             \A q \in Proc \ {p} : pass[q].pc = "idle" /\ pass'[q] = pass[q]
      PROVE  RowsOK'
  BY <1>1, <1>4, <1>5, <1>6, RowsWork DEF RowsOK
<1> QED BY <1>0, <1>2, <1>3, <1>6, OneActs

-----------------------------------------------------------------------------
(***************************************************************************)
(* The points of a rebuild are those of its rows.                          *)
(***************************************************************************)
LEMMA AddedUuids ==
    ASSUME NEW rows \in [Content -> Row], NEW c \in Content, NEW row \in Row,
           rows[c].uuids = {}
    PROVE  UuidsOf([rows EXCEPT ![c] = row]) = UuidsOf(rows) \cup row.uuids
<1> DEFINE new == [rows EXCEPT ![c] = row]
<1>1. \A d \in Content : new[d].uuids = IF d = c THEN row.uuids ELSE rows[d].uuids
  OBVIOUS
<1> HIDE DEF new
<1>2. \A i : i \in UuidsOf(new) <=> i \in UuidsOf(rows) \cup row.uuids
  BY <1>1, InUuidsOf
<1> QED BY <1>2 DEF new

LEMMA IdsOfAdded ==
    ASSUME NEW pts, NEW pt PROVE Ids(pts \cup {pt}) = Ids(pts) \cup {pt.id}
BY DEF Ids

(* The file at hand gets its row.                                          *)
LEMMA RecordedPoints ==
    ASSUME NEW pts, NEW rows \in [Content -> Row], NEW c \in Content, NEW row \in Row,
           Holds(pts, rows, row.uuids), Named(pts, rows),
           \A qt \in pts : qt.id \in row.uuids => qt.name = row.path,
           rows[c].uuids = {}
    PROVE  /\ Holds(pts, [rows EXCEPT ![c] = row], {})
           /\ Named(pts, [rows EXCEPT ![c] = row])
<1>1. Named(pts, [rows EXCEPT ![c] = row])
  BY DEF Named
<1> QED BY <1>1, AddedUuids DEF Holds

LEMMA SameHolds ==
    ASSUME NEW pts, NEW rows, NEW rows2, NEW ids,
           \A c \in Content : /\ rows2[c].uuids = rows[c].uuids
                              /\ rows2[c].path = rows[c].path
    PROVE  /\ Holds(pts, rows, ids) => Holds(pts, rows2, ids)
           /\ Named(pts, rows) => Named(pts, rows2)
BY SameUuids DEF Holds, Named

LEMMA PointsWork ==
    ASSUME IInv, StoreOK, RowsOK, PointsOK, NEW p \in Proc, WorkStep(p)
    PROVE  PassPoints(p)'
<1> DEFINE s == pass[p]
           t == pass'[p]
<1>0. /\ pass \in [Proc -> PassState] /\ s \in PassState
      /\ points \in [Collection -> SUBSET Point]
      /\ PassPoints(p) /\ PassRows(p) /\ TypeOK /\ PhaseOK /\ PassPhase(p) /\ PassAlias(p)
      /\ PassStore(p)
  BY DEF IInv, TypeOK, RowsOK, PointsOK, AliasSafe, PhaseOK, StoreOK
<1>a. CASE s.mode # "rebuild"
  BY <1>0, <1>a, WorkFrame DEF PassPoints
<1> SUFFICES ASSUME s.mode = "rebuild" PROVE PassPoints(p)'
  BY <1>a
<1>b. t.mode = "rebuild"
  BY <1>0, WorkFrame
<1> USE <1>0
<1>1. CASE \E f \in Path : HashNext(p, f)
  <2>1. /\ s.pc = "scan" /\ t.pc = "scan" /\ t.col = s.col /\ t.rows = s.rows
        /\ t.ids = s.ids /\ points' = points
    BY <1>1 DEF HashNext, NextListed, store, Local, PassState
  <2> QED BY <2>1 DEF PassPoints, PassRows, Adding, Replaced
<1>2. CASE ReadManifest(p)
  <2>1. /\ s.pc = "scan" /\ t.pc = "add" /\ t.col = s.col /\ t.rows = s.rows
        /\ t.ids = s.ids /\ points' = points
    BY <1>2 DEF ReadManifest, store, Local, PassState
  <2> QED BY <2>1 DEF PassPoints, PassRows, Adding, Replaced
<1>3. CASE \E c \in Content : OpenFile(p, c)
  <2>1. /\ s.pc = "add" /\ t.pc = "ingest" /\ t.col = s.col /\ t.rows = s.rows
        /\ t.ids = s.ids /\ points' = points
    BY <1>3 DEF OpenFile, store, Local, PassState
  <2> QED BY <2>1 DEF PassPoints, PassRows, Adding, Replaced
<1>4. CASE UpsertBatch(p)
  <2>1. PICK pt \in Point :
          /\ pt.name = s.scan[s.cur] /\ t.ids = s.ids \cup {pt.id}
          /\ points' = [points EXCEPT ![s.col] = @ \cup {pt}]
          /\ \A k \in Collection : \A qt \in points[k] : qt.id # pt.id
          /\ pt.id \notin UuidsOf(s.rows)
    BY <1>4, UpsertBatchDoes
  <2>2. /\ s.pc = "ingest" /\ t.pc = "ingest" /\ t.col = s.col
        /\ t.rows = s.rows /\ t.scan = s.scan /\ t.cur = s.cur
    BY <1>4, UpsertBatchDoes
  <2>3. s.col \in Collection
    BY <2>2, AtHandScanned
  <2>4. points'[s.col] = points[s.col] \cup {pt}
    BY <2>1, <2>3
  <2>5. /\ Holds(points[s.col], s.rows, s.ids) /\ Named(points[s.col], s.rows)
        /\ \A qt \in points[s.col] : qt.id \in s.ids => qt.name = s.scan[s.cur]
    BY <2>2 DEF PassPoints, Adding
  <2>6. /\ Holds(points'[s.col], s.rows, t.ids) /\ Named(points'[s.col], s.rows)
    <3> DEFINE pts == points[s.col]
               rows == s.rows
               ids == s.ids
               f == s.scan[s.cur]
    <3>1. /\ Holds(pts, rows, ids) /\ Named(pts, rows)
          /\ \A qt \in pts : qt.id \in ids => qt.name = f
          /\ pt.name = f /\ pt.id \notin UuidsOf(rows)
      BY <2>1, <2>5
    <3> HIDE DEF pts, rows, ids, f
    <3>2. Holds(pts \cup {pt}, rows, ids \cup {pt.id})
      BY <3>1, IdsOfAdded DEF Holds
    <3>3. Named(pts \cup {pt}, rows)
      BY <3>1, InUuidsOf DEF Named
    <3> QED BY <2>1, <2>4, <3>2, <3>3 DEF pts, rows, ids
  <2>7. \A qt \in points'[s.col] : qt.id \in t.ids => qt.name = s.scan[s.cur]
    BY <2>1, <2>3, <2>4, <2>5
  <2> HIDE DEF s, t
  <2> QED BY <1>b, <2>2, <2>6, <2>7 DEF PassPoints, Adding, s, t
<1>5. CASE RecordRow(p)
  <2>1. PICK row \in Row :
          /\ row.uuids = s.ids /\ row.path = s.scan[s.cur]
          /\ t.rows = [s.rows EXCEPT ![s.cur] = row]
    BY <1>5, RecordRowDoes
  <2>2. /\ s.pc = "ingest" /\ t.pc = "add" /\ t.col = s.col /\ t.ids = {}
        /\ points' = points
    BY <1>5, RecordRowDoes DEF store
  <2>3. s.cur \in Content /\ s.cur \in s.todo /\ s.rows \in [Content -> Row]
    BY <2>2, AtHandScanned DEF PassState
  <2>4. s.rows[s.cur].uuids = {}
    BY <2>2, <2>3 DEF PassRows, Bare
  <2>5. /\ Holds(points[s.col], s.rows, s.ids) /\ Named(points[s.col], s.rows)
        /\ \A qt \in points[s.col] : qt.id \in s.ids => qt.name = s.scan[s.cur]
    BY <2>2 DEF PassPoints, Adding
  <2>6. Holds(points[s.col], t.rows, {}) /\ Named(points[s.col], t.rows)
    BY <2>1, <2>3, <2>4, <2>5, RecordedPoints
  <2> HIDE DEF s, t
  <2> QED BY <1>b, <2>2, <2>6 DEF PassPoints, Adding, s, t
<1>6. CASE ReplaceAll(p)
  <2>1. /\ s.pc = "add" /\ t.pc = "switch" /\ t.col = s.col /\ points' = points
        /\ manifest' = s.rows /\ s.ids = {}
    BY <1>6 DEF ReplaceAll, Replacement, store, Local, PassState, PassRows
  <2> QED BY <2>1 DEF PassPoints, Adding
<1>7. CASE DropLegacy(p)
  <2>1. /\ s.pc = "switch" /\ t.pc = "migrate" /\ t.col = s.col
        /\ points' = [points EXCEPT ![Legacy] = {}] /\ manifest' = manifest
    BY <1>7 DEF DropLegacy, AtSwitch, Local, PassState
  <2>2. points'[s.col] = points[s.col]
    BY <2>1 DEF PassAlias
  <2> QED BY <2>1, <2>2 DEF PassPoints, Adding
<1>8. CASE CreateAlias(p)
  <2>1. /\ s.pc = "migrate" /\ t.pc = "done" /\ points' = points
        /\ manifest' = manifest /\ alias' = s.col
    BY <1>8 DEF CreateAlias, Local, PassState
  <2>2. s.col \in Collection /\ NoCollection \notin Collection
    BY <2>1, Constants DEF PassPhase
  <2> QED BY <2>1, <2>2 DEF PassPoints, Adding
<1>9. CASE SwitchAlias(p)
  <2>1. /\ s.pc = "switch" /\ t.pc \in {"done", "retire"} /\ points' = points
        /\ manifest' = manifest /\ alias' = s.col
    BY <1>9 DEF SwitchAlias, AtSwitch, Local, PassState
  <2>2. s.col \in Collection /\ NoCollection \notin Collection
    BY <2>1, Constants DEF PassPhase
  <2> QED BY <2>1, <2>2 DEF PassPoints, Adding
<1>10. CASE DropOld(p)
  <2>1. /\ s.pc = "retire" /\ t.pc = "done" /\ alias' = alias
        /\ points' = [points EXCEPT ![s.col] = {}] /\ manifest' = manifest
    BY <1>10 DEF DropOld, Local, PassState
  <2>2. points'[alias] = points[alias]
    BY <2>1 DEF PassAlias
  <2> QED BY <2>1, <2>2 DEF PassPoints, Adding
<1> QED BY <1>1, <1>2, <1>3, <1>4, <1>5, <1>6, <1>7, <1>8, <1>9, <1>10, RebuildWork

LEMMA PointsStep ==
    ASSUME IInv, StoreOK, RowsOK, PointsOK, [Next]_vars PROVE PointsOK'
<1>0. /\ TypeOK /\ OneWriter /\ pass \in [Proc -> PassState] /\ AliasResolves
      /\ points \in [Collection -> SUBSET Point]
      /\ \A k \in Collection \ colls : points[k] = {}
      /\ \A q \in Proc : PassPoints(q) /\ PassStore(q)
  BY DEF IInv, TypeOK, StoreOK, PointsOK, AliasSafe
<1>1. ASSUME NEW q \in Proc, pass[q].pc = "idle", pass'[q] = pass[q] PROVE PassPoints(q)'
  BY <1>0, <1>1 DEF PassPoints, PassStore, Replaced, Adding
<1>2. CASE UNCHANGED vars
  BY <1>0, <1>2 DEF vars, PointsOK, PassPoints
<1>3. CASE Environment
  <2>1. \A c \in Content : /\ manifest'[c].uuids = manifest[c].uuids
                           /\ manifest'[c].path = manifest[c].path
    BY <1>0, <1>3, EnvironmentLocal
  <2>2. UNCHANGED <<points, alias>>
    BY <1>0, <1>3, EnvironmentLocal
  <2>3. ASSUME NEW q \in Proc PROVE PassPoints(q)'
    <3>0. UuidsOf(manifest') = UuidsOf(manifest)
      BY <2>1, SameUuids
    <3>1. ASSUME NEW pts
          PROVE  /\ Holds(pts, manifest, {}) => Holds(pts, manifest', {})
                 /\ Named(pts, manifest) => Named(pts, manifest')
      BY <2>1, <3>0 DEF Holds, Named
    <3>1a. LET k == pass[q].col IN
           /\ Holds(points[k], manifest, {}) => Holds(points[k], manifest', {})
           /\ Named(points[k], manifest) => Named(points[k], manifest')
           /\ Holds(points[alias], manifest, {}) => Holds(points[alias], manifest', {})
           /\ Named(points[alias], manifest) => Named(points[alias], manifest')
      BY <3>1
    <3>2. /\ pass'[q].pc = pass[q].pc /\ pass'[q].mode = pass[q].mode
          /\ pass'[q].col = pass[q].col /\ pass'[q].scan = pass[q].scan
          /\ pass'[q].cur = pass[q].cur
          /\ pass'[q].ids = pass[q].ids /\ pass'[q].rows = pass[q].rows
      BY <1>0, <1>3, EnvironmentKeeps
    <3>3. PassPoints(q)
      BY <1>0
    <3>4. CASE pass[q].mode = "rebuild" /\ pass[q].pc \in Adding
      BY <2>2, <3>2, <3>3, <3>4 DEF PassPoints, Adding
    <3>5. CASE pass[q].mode = "rebuild" /\ pass[q].pc \in {"switch", "migrate"}
      BY <2>2, <3>1a, <3>2, <3>3, <3>5 DEF PassPoints, Adding
    <3>6. CASE pass[q].mode = "rebuild" /\ pass[q].pc \in {"retire", "done"}
      BY <2>2, <3>1a, <3>2, <3>3, <3>6 DEF PassPoints, Adding
    <3> QED BY <3>2, <3>4, <3>5, <3>6 DEF PassPoints
  <2> QED BY <2>3 DEF PointsOK
<1>4. ASSUME NEW p \in Proc, BeginStep(p) PROVE PassPoints(p)'
  <2>1. CASE BeginIncremental(p)
    <3>1. pass'[p].mode # "rebuild"
      BY <1>0, <2>1 DEF BeginIncremental, Local, Blank
    <3> QED BY <3>1 DEF PassPoints
  <2>2. ASSUME NEW k \in Collection, BeginRebuild(p, k) PROVE PassPoints(p)'
    <3>1. /\ pass'[p].col = k /\ pass'[p].pc = "scan" /\ k \notin colls
          /\ points' = points /\ pass'[p].rows = NoRows /\ pass'[p].ids = {}
      BY <1>0, <2>2 DEF BeginRebuild, Local, Blank
    <3>2. points'[k] = {} /\ UuidsOf(NoRows) = {}
      BY <1>0, <3>1, NoRowsHaveNoUuids
    <3> QED BY <3>1, <3>2 DEF PassPoints, Holds, Named, Ids, Adding
  <2> QED BY <1>4, <2>1, <2>2 DEF BeginStep
<1>5. ASSUME NEW p \in Proc, EndStep(p) PROVE PassPoints(p)'
  <2>1. pass'[p] = Blank /\ Blank.mode = "watch"
    BY <1>0, <1>5, EndStepLocal DEF Blank
  <2> QED BY <2>1 DEF PassPoints
<1>6. ASSUME NEW p \in Proc, BeginStep(p) \/ WorkStep(p) \/ EndStep(p),
             \A q \in Proc \ {p} : pass[q].pc = "idle" /\ pass'[q] = pass[q]
      PROVE  PointsOK'
  BY <1>1, <1>4, <1>5, <1>6, PointsWork DEF PointsOK
<1> QED BY <1>0, <1>2, <1>3, <1>6, OneActs

LEMMA InitPoints == Init => PointsOK /\ FilesOK
<1>1. Blank.mode = "watch"
  BY DEF Blank
<1> QED BY <1>1 DEF Init, PointsOK, PassPoints, FilesOK, PassFiles

-----------------------------------------------------------------------------
(***************************************************************************)
(* The files of a rebuild are whole.                                       *)
(***************************************************************************)

(* Nothing of a file is there before it is opened.                         *)
LEMMA NotThereYet ==
    ASSUME IInv, RowsOK, ScanOK, PointsOK, NEW p \in Proc, NEW c \in pass[p].todo,
           pass[p].mode = "rebuild", pass[p].pc = "add"
    PROVE  File(points[pass[p].col], pass[p].scan[c]) = {}
<1> DEFINE s == pass[p]
           S == points[s.col]
<1>0. /\ PassPhase(p) /\ PassRows(p) /\ PassScan(p) /\ PassPoints(p)
      /\ Scanned(p) \subseteq Content
  BY DEF IInv, PhaseOK, RowsOK, ScanOK, PointsOK, Scanned
<1>1. c \in Scanned(p) /\ s.ids = {} /\ Bare(s.rows)
      /\ Ids(S) = UuidsOf(s.rows) /\ Named(S, s.rows)
  BY <1>0 DEF PassPhase, PassRows, PassPoints, Holds, Adding
<1>2. ASSUME NEW qt \in S PROVE qt.name # s.scan[c]
  <2>1. qt.id \in UuidsOf(s.rows)
    BY <1>1 DEF Ids
  <2>2. PICK d \in Content : qt.id \in s.rows[d].uuids
    BY <2>1, InUuidsOf
  <2>3. qt.name = s.rows[d].path /\ s.rows[d].path # NoPath
    BY <1>1, <2>2 DEF Named, Bare
  <2>4. d \in Scanned(p) \ s.todo /\ qt.name = s.scan[d]
    BY <1>0, <2>3 DEF PassRows
  <2> QED BY <1>0, <1>1, <2>4 DEF PassScan
<1> QED BY <1>2 DEF File

(* Where nothing of a file is there, the others are as whole as before.    *)
LEMMA OpenedFile ==
    ASSUME NEW S \in SUBSET Point, WholeBut(S, NoPath), NEW f, File(S, f) = {},
           NEW c \in Content, NEW left, left = 0 \/ left = NumBatches[c]
    PROVE  WholeBut(S, f) /\ Partial(S, f, c, left)
<1>1. \A pt \in S : pt.name # NoPath
  BY Constants DEF Point
<1>2. IsFiniteSet({}) /\ Cardinality({}) = 0
  BY FS_EmptySet
<1>3. NumBatches[c] \in Nat
  BY Constants
<1> QED BY <1>1, <1>2, <1>3 DEF WholeBut, Partial

(* A batch adds one point to its file.                                     *)
LEMMA AddedBatch ==
    ASSUME NEW S, NEW pt, pt \notin S, NEW f, pt.name = f,
           WholeBut(S, f), NEW left \in Nat \ {0}, Partial(S, f, pt.content, left),
           NumBatches[pt.content] \in Nat
    PROVE  WholeBut(S \cup {pt}, f) /\ Partial(S \cup {pt}, f, pt.content, left - 1)
<1>1. File(S \cup {pt}, f) = File(S, f) \cup {pt} /\ pt \notin File(S, f)
  BY DEF File
<1>2. \A g : g # f => File(S \cup {pt}, g) = File(S, g)
  BY DEF File
<1>3. IsFiniteSet(File(S, f)) /\ Cardinality(File(S, f)) + left = NumBatches[pt.content]
  BY DEF Partial
<1>4. /\ Cardinality(File(S, f) \cup {pt}) = Cardinality(File(S, f)) + 1
      /\ IsFiniteSet(File(S, f) \cup {pt}) /\ Cardinality(File(S, f)) \in Nat
  BY <1>1, <1>3, FS_AddElement, FS_CardinalityType
<1>5. WholeBut(S \cup {pt}, f)
  BY <1>2 DEF WholeBut
<1>6. Cardinality(File(S \cup {pt}, f)) + (left - 1) = NumBatches[pt.content]
  <2> DEFINE n == Cardinality(File(S, f))
             m == Cardinality(File(S \cup {pt}, f))
             b == NumBatches[pt.content]
  <2>1. n \in Nat /\ n + left = b /\ m = n + 1
    BY <1>1, <1>3, <1>4
  <2> HIDE DEF n, m, b
  <2>2. m + (left - 1) = b
    BY <2>1
  <2> QED BY <2>2 DEF m, b
<1>7. \A qt \in File(S \cup {pt}, f) : qt.content = pt.content
  BY <1>1 DEF Partial
<1> QED BY <1>1, <1>4, <1>5, <1>6, <1>7 DEF Partial

(* Once nothing is left of it, the file is whole.                          *)
LEMMA FinishedFile ==
    ASSUME NEW S, NEW f, NEW c, WholeBut(S, f), Partial(S, f, c, 0)
    PROVE  WholeBut(S, NoPath)
<1> SUFFICES ASSUME NEW pt \in S
             PROVE  /\ \A qt \in File(S, pt.name) : qt.content = pt.content
                    /\ Cardinality(File(S, pt.name)) = NumBatches[pt.content]
  BY DEF WholeBut
<1>1. CASE pt.name # f
  BY <1>1 DEF WholeBut
<1>2. CASE pt.name = f
  <2>1. pt \in File(S, f)
    BY <1>2 DEF File
  <2>2. pt.content = c /\ Cardinality(File(S, f)) + 0 = NumBatches[c]
        /\ IsFiniteSet(File(S, f))
    BY <2>1 DEF Partial
  <2>3. Cardinality(File(S, f)) \in Nat
    BY <2>2, FS_CardinalityType
  <2>4. Cardinality(File(S, f)) = NumBatches[c]
    BY <2>2, <2>3
  <2> QED BY <1>2, <2>2, <2>4 DEF Partial
<1> QED BY <1>1, <1>2

LEMMA FilesWork ==
    ASSUME IInv, StoreOK, ScanOK, RowsOK, PointsOK, FilesOK, NEW p \in Proc, WorkStep(p)
    PROVE  PassFiles(p)'
<1> DEFINE s == pass[p]
           t == pass'[p]
<1>0. /\ pass \in [Proc -> PassState] /\ s \in PassState
      /\ points \in [Collection -> SUBSET Point]
      /\ PassFiles(p) /\ TypeOK /\ PhaseOK /\ PassPhase(p) /\ PassAlias(p)
  BY DEF IInv, TypeOK, FilesOK, AliasSafe, PhaseOK
<1>a. CASE s.mode # "rebuild"
  BY <1>0, <1>a, WorkFrame DEF PassFiles
<1> SUFFICES ASSUME s.mode = "rebuild" PROVE PassFiles(p)'
  BY <1>a
<1>b. t.mode = "rebuild"
  BY <1>0, WorkFrame
<1> USE <1>0
<1>1. CASE \E f \in Path : HashNext(p, f)
  <2>1. s.pc = "scan" /\ t.pc = "scan" /\ t.col = s.col /\ points' = points
    BY <1>1 DEF HashNext, NextListed, store, Local, PassState
  <2> QED BY <2>1 DEF PassFiles
<1>2. CASE ReadManifest(p)
  <2>1. s.pc = "scan" /\ t.pc = "add" /\ t.col = s.col /\ points' = points
    BY <1>2 DEF ReadManifest, store, Local, PassState
  <2> QED BY <2>1 DEF PassFiles
<1>3. CASE \E c \in Content : OpenFile(p, c)
  <2>1. PICK c \in Content : OpenFile(p, c)
    BY <1>3
  <2>2. /\ s.pc = "add" /\ t.pc = "ingest" /\ t.col = s.col /\ points' = points
        /\ t.scan = s.scan /\ t.cur = c /\ t.got = disk[s.scan[c]]
        /\ t.left = 0 \/ t.left = NumBatches[t.got]
        /\ c \in s.todo /\ s.scan[c] \in Files
    BY <2>1 DEF OpenFile, store, Local, PassState
  <2>3. t.got \in Content
    BY <2>2 DEF Files, TypeOK
  <2>4. WholeBut(points[s.col], NoPath) /\ points[s.col] \in SUBSET Point
    BY <2>2 DEF PassFiles, PassPhase
  <2>5. File(points[s.col], s.scan[c]) = {}
    BY <2>2, NotThereYet
  <2> HIDE DEF s, t
  <2>6. /\ WholeBut(points[s.col], s.scan[c])
        /\ Partial(points[s.col], s.scan[c], t.got, t.left)
    BY <2>2, <2>3, <2>4, <2>5, OpenedFile
  <2> QED BY <2>2, <2>6 DEF PassFiles, s, t
<1>4. CASE UpsertBatch(p)
  <2>1. PICK pt \in Point :
          /\ pt.content = s.got /\ pt.name = s.scan[s.cur]
          /\ points' = [points EXCEPT ![s.col] = @ \cup {pt}]
          /\ \A k \in Collection : \A qt \in points[k] : qt.id # pt.id
    BY <1>4, UpsertBatchDoes
  <2>2. /\ s.pc = "ingest" /\ s.left \in Nat \ {0} /\ t.pc = "ingest" /\ t.col = s.col
        /\ t.scan = s.scan /\ t.cur = s.cur /\ t.got = s.got /\ t.left = s.left - 1
    BY <1>4, UpsertBatchDoes
  <2>3. s.col \in Collection /\ s.got \in Content
    BY <2>2, AtHandScanned
  <2>4. points'[s.col] = points[s.col] \cup {pt} /\ pt \notin points[s.col]
    BY <2>1, <2>3
  <2>5. /\ WholeBut(points[s.col], s.scan[s.cur])
        /\ Partial(points[s.col], s.scan[s.cur], s.got, s.left)
    BY <2>2 DEF PassFiles
  <2> DEFINE S == points[s.col]
             f == s.scan[s.cur]
             left == s.left
  <2>6. /\ pt \notin S /\ pt.name = f /\ WholeBut(S, f) /\ left \in Nat \ {0}
        /\ Partial(S, f, pt.content, left) /\ NumBatches[pt.content] \in Nat
    BY <2>1, <2>2, <2>3, <2>4, <2>5, Constants
  <2> HIDE DEF S, f, left
  <2>7. WholeBut(S \cup {pt}, f) /\ Partial(S \cup {pt}, f, pt.content, left - 1)
    BY <2>6, AddedBatch
  <2> QED BY <2>1, <2>2, <2>4, <2>7 DEF PassFiles, S, f, left
<1>5. CASE RecordRow(p)
  <2>1. /\ s.pc = "ingest" /\ t.pc = "add" /\ t.col = s.col /\ s.left = 0
        /\ points' = points
    BY <1>5, RecordRowDoes DEF store
  <2>2. WholeBut(points[s.col], s.scan[s.cur])
        /\ Partial(points[s.col], s.scan[s.cur], s.got, 0)
    BY <2>1 DEF PassFiles
  <2>3. WholeBut(points[s.col], NoPath)
    BY <2>2, FinishedFile
  <2> QED BY <2>1, <2>3 DEF PassFiles
<1>6. CASE ReplaceAll(p)
  <2>1. s.pc = "add" /\ t.pc = "switch" /\ t.col = s.col /\ points' = points
    BY <1>6 DEF ReplaceAll, store, Local, PassState
  <2> QED BY <2>1 DEF PassFiles
<1>7. CASE DropLegacy(p)
  <2>1. /\ s.pc = "switch" /\ t.pc = "migrate" /\ t.col = s.col
        /\ points' = [points EXCEPT ![Legacy] = {}]
    BY <1>7 DEF DropLegacy, AtSwitch, Local, PassState
  <2>2. points'[s.col] = points[s.col]
    BY <2>1 DEF PassAlias
  <2> QED BY <2>1, <2>2 DEF PassFiles
<1>8. CASE CreateAlias(p)
  BY <1>8 DEF CreateAlias, Local, PassState, PassFiles
<1>9. CASE SwitchAlias(p)
  BY <1>9 DEF SwitchAlias, AtSwitch, Local, PassState, PassFiles
<1>10. CASE DropOld(p)
  BY <1>10 DEF DropOld, Local, PassState, PassFiles
<1> QED BY <1>1, <1>2, <1>3, <1>4, <1>5, <1>6, <1>7, <1>8, <1>9, <1>10, RebuildWork

LEMMA FilesStep ==
    ASSUME IInv, StoreOK, ScanOK, RowsOK, PointsOK, FilesOK, [Next]_vars PROVE FilesOK'
<1>0. /\ TypeOK /\ OneWriter /\ pass \in [Proc -> PassState]
      /\ \A k \in Collection \ colls : points[k] = {}
      /\ \A q \in Proc : PassFiles(q)
  BY DEF IInv, TypeOK, StoreOK, FilesOK
<1>1. ASSUME NEW q \in Proc, pass[q].pc = "idle", pass'[q] = pass[q] PROVE PassFiles(q)'
  BY <1>0, <1>1 DEF PassFiles
<1>2. CASE UNCHANGED vars
  BY <1>0, <1>2 DEF vars, FilesOK, PassFiles
<1>3. CASE Environment
  <2>1. points' = points
    BY <1>0, <1>3, EnvironmentLocal
  <2>2. ASSUME NEW q \in Proc PROVE PassFiles(q)'
    <3>1. /\ pass'[q].pc = pass[q].pc /\ pass'[q].mode = pass[q].mode
          /\ pass'[q].col = pass[q].col /\ pass'[q].scan = pass[q].scan
          /\ pass'[q].cur = pass[q].cur
          /\ pass'[q].got = pass[q].got /\ pass'[q].left = pass[q].left
      BY <1>0, <1>3, EnvironmentKeeps
    <3> QED BY <1>0, <2>1, <3>1 DEF PassFiles
  <2> QED BY <2>2 DEF FilesOK
<1>4. ASSUME NEW p \in Proc, BeginStep(p) PROVE PassFiles(p)'
  <2>1. CASE BeginIncremental(p)
    <3>1. pass'[p].mode # "rebuild"
      BY <1>0, <2>1 DEF BeginIncremental, Local, Blank
    <3> QED BY <3>1 DEF PassFiles
  <2>2. ASSUME NEW k \in Collection, BeginRebuild(p, k) PROVE PassFiles(p)'
    <3>1. /\ pass'[p].col = k /\ pass'[p].pc = "scan" /\ k \notin colls
          /\ points' = points
      BY <1>0, <2>2 DEF BeginRebuild, Local, Blank
    <3>2. points'[k] = {}
      BY <1>0, <3>1
    <3> QED BY <3>1, <3>2 DEF PassFiles, WholeBut
  <2> QED BY <1>4, <2>1, <2>2 DEF BeginStep
<1>5. ASSUME NEW p \in Proc, EndStep(p) PROVE PassFiles(p)'
  <2>1. pass'[p] = Blank /\ Blank.mode = "watch"
    BY <1>0, <1>5, EndStepLocal DEF Blank
  <2> QED BY <2>1 DEF PassFiles
<1>6. ASSUME NEW p \in Proc, BeginStep(p) \/ WorkStep(p) \/ EndStep(p),
             \A q \in Proc \ {p} : pass[q].pc = "idle" /\ pass'[q] = pass[q]
      PROVE  FilesOK'
  BY <1>1, <1>4, <1>5, <1>6, FilesWork DEF FilesOK
<1> QED BY <1>0, <1>2, <1>3, <1>6, OneActs

-----------------------------------------------------------------------------
(***************************************************************************)
(* What rows record was made from one content.                             *)
(***************************************************************************)

(* Steps other than an upsert give no id to anything new.                  *)
Thinner(held, held2) ==
    \A k \in Collection : \A qt \in held2[k] : \E pt \in held[k] :
      pt.id = qt.id /\ pt.content = qt.content

LEMMA ThinnerKeeps ==
    ASSUME NEW held, NEW held2, Thinner(held, held2), NEW ids
    PROVE  /\ OneContentOf(held, ids) => OneContentOf(held2, ids)
           /\ \A c \in Content : Made(held, ids, c) => Made(held2, ids, c)
<1>1. OneContentOf(held, ids) => OneContentOf(held2, ids)
  BY DEF Thinner, OneContentOf
<1>2. \A c \in Content : Made(held, ids, c) => Made(held2, ids, c)
  BY DEF Thinner, Made
<1> QED BY <1>1, <1>2

LEMMA MadeIsOne ==
    ASSUME NEW held, NEW ids, NEW c, Made(held, ids, c) PROVE OneContentOf(held, ids)
BY DEF Made, OneContentOf

LEMMA NoIds ==
    ASSUME NEW held, NEW c PROVE OneContentOf(held, {}) /\ Made(held, {}, c)
BY DEF Made, OneContentOf

LEMMA SamePointsThinner == ASSUME points' = points PROVE Thinner(points, points')
BY DEF Thinner

LEMMA FewerThinner ==
    ASSUME TypeOK, NEW k, NEW pts,
           points' = [points EXCEPT ![k] = pts],
           k \in Collection => pts \subseteq points[k]
    PROVE  Thinner(points, points')
BY DEF Thinner, TypeOK

LEMMA ThinnerWork ==
    ASSUME TypeOK, PhaseOK, NEW p \in Proc, WorkStep(p), ~ UpsertBatch(p)
    PROVE  Thinner(points, points')
<1>1. CASE \E f \in Path : HashNext(p, f)
  BY <1>1, SamePointsThinner DEF HashNext, NextListed, store
<1>2. CASE ReadManifest(p)
  BY <1>2, SamePointsThinner DEF ReadManifest, store
<1>3. CASE \E c \in Content : OpenFile(p, c)
  BY <1>3, SamePointsThinner DEF OpenFile, store
<1>5. CASE RecordRow(p)
  BY <1>5, SamePointsThinner DEF RecordRow, store
<1>6. CASE EndAdd(p)
  BY <1>6, SamePointsThinner DEF EndAdd, store
<1>7. CASE \E c \in Content : Reconcile(p, c)
  BY <1>7, SamePointsThinner DEF Reconcile, store
<1>8. CASE RefreshName(p)
  BY <1>8, RefreshPoints DEF Thinner
<1>9. CASE SetPath(p)
  BY <1>9, SamePointsThinner DEF SetPath, store
<1>10. CASE EndReconcile(p)
  BY <1>10, SamePointsThinner DEF EndReconcile, store
<1>11. CASE \E c \in Content : DropRow(p, c)
  BY <1>11, SamePointsThinner DEF DropRow, store
<1>12. CASE DropPoints(p)
  <2>1. points' = [points EXCEPT ![pass[p].col] =
                     Without(points[pass[p].col], pass[p].ids)]
    BY <1>12 DEF DropPoints
  <2> QED BY <2>1, FewerThinner DEF Without
<1>13. CASE \E c \in Content : MarkDeparted(p, c)
  BY <1>13, SamePointsThinner DEF MarkDeparted, store
<1>14. CASE EndMark(p)
  BY <1>14, SamePointsThinner DEF EndMark, store
<1>15. CASE \E c \in Content : ReapPoints(p, c)
  <2>1. PICK c \in Content : ReapPoints(p, c)
    BY <1>15
  <2>2. points' = [points EXCEPT ![pass[p].col] =
                     Without(points[pass[p].col], pass[p].db[c].uuids)]
    BY <2>1 DEF ReapPoints
  <2> QED BY <2>2, FewerThinner DEF Without
<1>16. CASE ReapRow(p)
  BY <1>16, SamePointsThinner DEF ReapRow, store
<1>17. CASE EndIncremental(p)
  BY <1>17, SamePointsThinner DEF EndIncremental, store
<1>18. CASE ReplaceAll(p)
  BY <1>18, SamePointsThinner DEF ReplaceAll, store
<1>19. CASE DropLegacy(p)
  BY <1>19, FewerThinner DEF DropLegacy
<1>20. CASE CreateAlias(p)
  BY <1>20, SamePointsThinner DEF CreateAlias
<1>21. CASE SwitchAlias(p)
  BY <1>21, SamePointsThinner DEF SwitchAlias
<1>22. CASE DropOld(p)
  BY <1>22, FewerThinner DEF DropOld
<1> QED BY <1>1, <1>2, <1>3, <1>5, <1>6, <1>7, <1>8, <1>9, <1>10, <1>11,
           <1>12, <1>13, <1>14, <1>15, <1>16, <1>17, <1>18, <1>19, <1>20, <1>21, <1>22 DEF WorkStep

(* A new point, under an id that is not among them, leaves ids alone.      *)
LEMMA UpsertElsewhere ==
    ASSUME points \in [Collection -> SUBSET Point], NEW k \in Collection,
           NEW pt, points' = [points EXCEPT ![k] = @ \cup {pt}], NEW ids, pt.id \notin ids
    PROVE  /\ OneContentOf(points, ids) => OneContentOf(points', ids)
           /\ \A c \in Content : Made(points, ids, c) => Made(points', ids, c)
<1>1. \A j \in Collection : \A qt \in points'[j] : qt = pt \/ qt \in points[j]
  OBVIOUS
<1>2. OneContentOf(points, ids) => OneContentOf(points', ids)
  BY <1>1 DEF OneContentOf
<1>3. \A c \in Content : Made(points, ids, c) => Made(points', ids, c)
  BY <1>1 DEF Made
<1> QED BY <1>2, <1>3

LEMMA UpsertHere ==
    ASSUME points \in [Collection -> SUBSET Point], NEW k \in Collection,
           NEW pt, points' = [points EXCEPT ![k] = @ \cup {pt}], NEW ids,
           \A j \in Collection : \A qt \in points[j] : qt.id # pt.id,
           Made(points, ids, pt.content)
    PROVE  Made(points', ids \cup {pt.id}, pt.content)
<1>1. \A j \in Collection : \A qt \in points'[j] : qt = pt \/ qt \in points[j]
  OBVIOUS
<1> QED BY <1>1 DEF Made

LEMMA ContentWork ==
    ASSUME IInv, RowsOK, ContentOK, NEW p \in Proc, WorkStep(p)
    PROVE  (\A c \in Content : OneContentOf(points, manifest[c].uuids))' /\ PassContent(p)'
<1> DEFINE s == pass[p]
           t == pass'[p]
           AsBefore == \A c \in Content : OneContentOf(points', manifest[c].uuids)
<1>0. /\ pass \in [Proc -> PassState] /\ s \in PassState /\ manifest \in [Content -> Row]
      /\ points \in [Collection -> SUBSET Point]
      /\ PassRows(p) /\ TypeOK /\ PhaseOK /\ PassContent(p) /\ PassPhase(p)
      /\ \A c \in Content : OneContentOf(points, manifest[c].uuids)
  BY DEF IInv, TypeOK, ContentOK, PhaseOK, RowsOK
<1> USE <1>0
<1>a. ASSUME ~ UpsertBatch(p), NEW ids
      PROVE  /\ OneContentOf(points, ids) => OneContentOf(points', ids)
             /\ \A c \in Content : Made(points, ids, c) => Made(points', ids, c)
  BY <1>a, ThinnerWork, ThinnerKeeps
<1>b. ASSUME ~ UpsertBatch(p)
      PROVE  /\ AsBefore
             /\ \A c \in Content : OneContentOf(points', s.rows[c].uuids)
             /\ s.pc = "ingest" => OneContentOf(points', s.ids)
  <2>1. AsBefore
    <3> SUFFICES ASSUME NEW c \in Content PROVE OneContentOf(points', manifest[c].uuids)
      OBVIOUS
    <3> QED BY <1>a, <1>b
  <2>2. ASSUME NEW c \in Content PROVE OneContentOf(points', s.rows[c].uuids)
    <3>1. OneContentOf(points, s.rows[c].uuids)
      BY DEF PassContent
    <3> QED BY <1>a, <1>b, <3>1
  <2>3. ASSUME s.pc = "ingest" PROVE OneContentOf(points', s.ids)
    <3>1. OneContentOf(points, s.ids)
      BY <2>3, MadeIsOne DEF PassContent
    <3> QED BY <1>a, <1>b, <3>1
  <2> QED BY <2>1, <2>2, <2>3
(* Steps that record nothing new and take nothing in hand. *)
<1>c. ASSUME ~ UpsertBatch(p), t.rows = s.rows, t.pc \notin {"ingest", "drop"},
             \A c \in Content : manifest'[c].uuids \in {manifest[c].uuids, {}}
      PROVE  (\A c \in Content : OneContentOf(points, manifest[c].uuids))' /\ PassContent(p)'
  <2>1. \A c \in Content : OneContentOf(points', manifest'[c].uuids)
    BY <1>b, <1>c, NoIds
  <2>2. \A c \in Content : OneContentOf(points', t.rows[c].uuids)
    BY <1>b, <1>c
  <2> QED BY <1>c, <2>1, <2>2 DEF PassContent
<1>1. CASE \E f \in Path : HashNext(p, f)
  <2>1. s.pc = "scan" /\ t.pc = "scan" /\ t.rows = s.rows /\ manifest' = manifest
    BY <1>1 DEF HashNext, NextListed, Local, PassState
  <2> QED BY <1>c, <2>1 DEF UpsertBatch
<1>2. CASE ReadManifest(p)
  <2>1. s.pc = "scan" /\ t.pc = "add" /\ t.rows = s.rows /\ manifest' = manifest
    BY <1>2 DEF ReadManifest, Local, PassState
  <2> QED BY <1>c, <2>1 DEF UpsertBatch
<1>3. CASE \E c \in Content : OpenFile(p, c)
  <2>1. /\ s.pc = "add" /\ t.pc = "ingest" /\ t.rows = s.rows /\ manifest' = manifest
        /\ t.ids = s.ids
    BY <1>3 DEF OpenFile, Local, PassState
  <2>2. t.ids = {} /\ ~ UpsertBatch(p)
    BY <2>1 DEF PassRows, UpsertBatch
  <2> QED BY <1>b, <2>1, <2>2, NoIds DEF PassContent
<1>4. CASE UpsertBatch(p)
  <2>1. PICK pt \in Point :
          /\ pt.content = s.got /\ t.ids = s.ids \cup {pt.id}
          /\ points' = [points EXCEPT ![s.col] = @ \cup {pt}]
          /\ \A k \in Collection : \A qt \in points[k] : qt.id # pt.id
          /\ pt.id \notin s.ids \cup UuidsOf(manifest) \cup UuidsOf(s.rows)
    BY <1>4, UpsertBatchDoes
  <2>2. /\ s.pc = "ingest" /\ t.pc = "ingest" /\ t.rows = s.rows /\ t.got = s.got
        /\ manifest' = manifest
    BY <1>4, UpsertBatchDoes
  <2>3. s.col \in Collection
    BY <2>2, AtHandScanned
  <2>4. ASSUME NEW ids, pt.id \notin ids, OneContentOf(points, ids)
        PROVE  OneContentOf(points', ids)
    BY <2>1, <2>3, <2>4, UpsertElsewhere
  <2>5. ASSUME NEW c \in Content PROVE OneContentOf(points', manifest[c].uuids)
    <3>1. pt.id \notin manifest[c].uuids
      BY <2>1, InUuidsOf
    <3> QED BY <2>4, <3>1
  <2>6. ASSUME NEW c \in Content PROVE OneContentOf(points', s.rows[c].uuids)
    <3>1. pt.id \notin s.rows[c].uuids
      BY <2>1, InUuidsOf
    <3>2. OneContentOf(points, s.rows[c].uuids)
      BY DEF PassContent
    <3> QED BY <2>4, <3>1, <3>2
  <2>7. Made(points', t.ids, t.got)
    <3> DEFINE ids == s.ids
    <3>1. Made(points, ids, pt.content)
      BY <2>1, <2>2 DEF PassContent
    <3> HIDE DEF ids
    <3>2. Made(points', ids \cup {pt.id}, pt.content)
      BY <2>1, <2>3, <3>1, UpsertHere
    <3> QED BY <2>1, <2>2, <3>2 DEF ids
  <2> QED BY <2>2, <2>5, <2>6, <2>7 DEF PassContent
<1>5. CASE RecordRow(p)
  <2>1. PICK row \in Row :
          /\ row.uuids = s.ids
          /\ s.mode = "rebuild" => /\ t.rows = [s.rows EXCEPT ![s.cur] = row]
                                   /\ manifest' = manifest
          /\ s.mode # "rebuild" => /\ t.rows = s.rows
                                   /\ manifest' = [manifest EXCEPT ![s.cur] = row]
    BY <1>5, RecordRowDoes
  <2>2. s.pc = "ingest" /\ t.pc = "add" /\ s.rows \in [Content -> Row] /\ points' = points
    BY <1>5, RecordRowDoes DEF PassState, store
  <2>3. ~ UpsertBatch(p)
    <3>1. s.left = 0
      BY <1>5, RecordRowDoes
    <3> QED BY <3>1 DEF UpsertBatch, MoreToEmbed
  <2>4. /\ AsBefore /\ OneContentOf(points', row.uuids)
        /\ \A c \in Content : OneContentOf(points', s.rows[c].uuids)
    BY <1>b, <2>1, <2>2, <2>3
  <2>5. ASSUME NEW c \in Content
        PROVE  /\ manifest'[c].uuids \in {manifest[c].uuids, row.uuids}
               /\ t.rows[c].uuids \in {s.rows[c].uuids, row.uuids}
    <3>1. CASE s.mode = "rebuild"
      BY <2>1, <2>2, <3>1
    <3>2. CASE s.mode # "rebuild"
      BY <2>1, <2>2, <3>2
    <3> QED BY <3>1, <3>2
  <2>6. \A c \in Content : OneContentOf(points', manifest'[c].uuids)
    BY <2>4, <2>5
  <2>7. \A c \in Content : OneContentOf(points', t.rows[c].uuids)
    BY <2>4, <2>5
  <2> QED BY <2>2, <2>6, <2>7 DEF PassContent
<1>6. CASE EndAdd(p)
  <2>1. s.pc = "add" /\ t.pc = "reconcile" /\ t.rows = s.rows /\ manifest' = manifest
    BY <1>6 DEF EndAdd, Local, PassState
  <2> QED BY <1>c, <2>1 DEF UpsertBatch
<1>7. CASE \E c \in Content : Reconcile(p, c)
  <2>1. /\ s.pc = "reconcile" /\ t.pc \in {"reconcile", "rename"} /\ t.rows = s.rows
        /\ \A d \in Content : manifest'[d].uuids = manifest[d].uuids
    BY <1>7 DEF Reconcile, Returned, Row, Local, PassState
  <2> QED BY <1>c, <2>1 DEF UpsertBatch
<1>8. CASE RefreshName(p)
  <2>1. s.pc = "rename" /\ t.pc = "repath" /\ t.rows = s.rows /\ manifest' = manifest
    BY <1>8, RefreshNameDoes
  <2> QED BY <1>c, <2>1 DEF UpsertBatch
<1>9. CASE SetPath(p)
  <2>1. /\ s.pc = "repath" /\ t.pc = "reconcile" /\ t.rows = s.rows
        /\ \A d \in Content : manifest'[d].uuids = manifest[d].uuids
    BY <1>9 DEF SetPath, Row, Local, PassState
  <2> QED BY <1>c, <2>1 DEF UpsertBatch
<1>10. CASE EndReconcile(p)
  <2>1. /\ s.pc = "reconcile" /\ t.pc \in {"mark", "prune"} /\ t.rows = s.rows
        /\ manifest' = manifest
    BY <1>10 DEF EndReconcile, Local, PassState
  <2> QED BY <1>c, <2>1 DEF UpsertBatch
<1>11. CASE \E c \in Content : DropRow(p, c)
  <2>1. PICK c \in Content : DropRow(p, c)
    BY <1>11
  <2>2. /\ s.pc = "prune" /\ t.pc = "drop" /\ t.rows = s.rows
        /\ manifest' = [manifest EXCEPT ![c] = NoRow] /\ t.ids = manifest[c].uuids
    BY <2>1 DEF DropRow, RecordedUuids, Local, PassState
  <2>3. ~ UpsertBatch(p) /\ NoRow.uuids = {}
    BY <2>2 DEF UpsertBatch, NoRow
  <2>4. AsBefore /\ \A d \in Content : OneContentOf(points', s.rows[d].uuids)
    BY <1>b, <2>3
  <2>5. \A d \in Content : manifest'[d].uuids \in {manifest[d].uuids, {}}
    BY <2>2, <2>3
  <2>6. \A d \in Content : OneContentOf(points', manifest'[d].uuids)
    BY <2>4, <2>5, NoIds
  <2> QED BY <2>2, <2>4, <2>6 DEF PassContent
<1>12. CASE DropPoints(p)
  <2>1. s.pc = "drop" /\ t.pc = "prune" /\ t.rows = s.rows /\ manifest' = manifest
    BY <1>12 DEF DropPoints, Local, PassState
  <2> QED BY <1>c, <2>1 DEF UpsertBatch
<1>13. CASE \E c \in Content : MarkDeparted(p, c)
  <2>1. /\ s.pc = "mark" /\ t.pc = "mark" /\ t.rows = s.rows
        /\ \A d \in Content : manifest'[d].uuids = manifest[d].uuids
    BY <1>13 DEF MarkDeparted, Row, Local, PassState
  <2> QED BY <1>c, <2>1 DEF UpsertBatch
<1>14. CASE EndMark(p)
  <2>1. s.pc = "mark" /\ t.pc = "reap" /\ t.rows = s.rows /\ manifest' = manifest
    BY <1>14 DEF EndMark, Local, PassState
  <2> QED BY <1>c, <2>1 DEF UpsertBatch
<1>15. CASE \E c \in Content : ReapPoints(p, c)
  <2>1. s.pc = "reap" /\ t.pc = "unrecord" /\ t.rows = s.rows /\ manifest' = manifest
    BY <1>15 DEF ReapPoints, Local, PassState
  <2> QED BY <1>c, <2>1 DEF UpsertBatch
<1>16. CASE ReapRow(p)
  <2>1. /\ s.pc = "unrecord" /\ t.pc = "reap" /\ t.rows = s.rows
        /\ manifest' = [manifest EXCEPT ![s.cur] = NoRow] /\ NoRow.uuids = {}
    BY <1>16 DEF ReapRow, Local, PassState, NoRow
  <2>2. \A c \in Content : manifest'[c].uuids \in {manifest[c].uuids, {}}
    BY <2>1
  <2> QED BY <1>c, <2>1, <2>2 DEF UpsertBatch
<1>17. CASE EndIncremental(p)
  <2>1. /\ s.pc \in {"prune", "reap"} /\ t.pc = "done" /\ t.rows = s.rows
        /\ manifest' = manifest
    BY <1>17 DEF EndIncremental, Local, PassState
  <2> QED BY <1>c, <2>1 DEF UpsertBatch
<1>18. CASE ReplaceAll(p)
  <2>1. /\ s.pc = "add" /\ t.pc = "switch" /\ t.rows = NoRows
        /\ manifest' = s.rows
    BY <1>18 DEF ReplaceAll, Replacement, Local, PassState
  <2>2. \A c \in Content : NoRows[c].uuids = {}
    BY DEF NoRows, NoRow
  <2>3. ~ UpsertBatch(p)
    BY <2>1 DEF UpsertBatch
  <2> QED BY <1>b, <2>1, <2>2, <2>3, NoIds DEF PassContent
<1>19. CASE DropLegacy(p)
  <2>1. s.pc = "switch" /\ t.pc = "migrate" /\ t.rows = s.rows /\ manifest' = manifest
    BY <1>19 DEF DropLegacy, AtSwitch, Local, PassState
  <2> QED BY <1>c, <2>1 DEF UpsertBatch
<1>20. CASE CreateAlias(p)
  <2>1. s.pc = "migrate" /\ t.pc = "done" /\ t.rows = s.rows /\ manifest' = manifest
    BY <1>20 DEF CreateAlias, Local, PassState
  <2> QED BY <1>c, <2>1 DEF UpsertBatch
<1>21. CASE SwitchAlias(p)
  <2>1. /\ s.pc = "switch" /\ t.pc \in {"done", "retire"} /\ t.rows = s.rows
        /\ manifest' = manifest
    BY <1>21 DEF SwitchAlias, AtSwitch, Local, PassState
  <2> QED BY <1>c, <2>1 DEF UpsertBatch
<1>22. CASE DropOld(p)
  <2>1. s.pc = "retire" /\ t.pc = "done" /\ t.rows = s.rows /\ manifest' = manifest
    BY <1>22 DEF DropOld, Local, PassState
  <2> QED BY <1>c, <2>1 DEF UpsertBatch
<1> QED BY <1>1, <1>2, <1>3, <1>4, <1>5, <1>6, <1>7, <1>8, <1>9, <1>10, <1>11,
           <1>12, <1>13, <1>14, <1>15, <1>16, <1>17, <1>18, <1>19, <1>20, <1>21, <1>22 DEF WorkStep

LEMMA DbWork ==
    ASSUME IInv, ContentOK, NEW p \in Proc, WorkStep(p)
    PROVE  PassDb(p)'
<1> DEFINE s == pass[p]
           t == pass'[p]
<1>0. /\ pass \in [Proc -> PassState] /\ s \in PassState /\ manifest \in [Content -> Row]
      /\ TypeOK /\ PhaseOK /\ PassDb(p) /\ PassPhase(p) /\ AliasSafe
  BY DEF IInv, TypeOK, ContentOK, PhaseOK
<1> USE <1>0
<1>a. CASE t.pc \notin Comparing
  BY <1>a DEF PassDb
<1>b. CASE t.mode = "rebuild"
  BY <1>b DEF PassDb
<1>c. t.mode = s.mode
  BY WorkFrame
<1> SUFFICES ASSUME s.mode # "rebuild" PROVE PassDb(p)'
  BY <1>b, <1>c
(* Steps that change no row's ids or path, with less or nothing new to do. *)
<1>d. ASSUME s.pc \in Comparing, t.db = s.db, t.todo \subseteq s.todo,
             t.pc \in {"add", "ingest"} <=> s.pc \in {"add", "ingest"},
             \A c \in Content : /\ manifest'[c].uuids = manifest[c].uuids
                                /\ manifest'[c].path = NoPath <=> manifest[c].path = NoPath
      PROVE  PassDb(p)'
  <2>1. /\ Recorded(manifest)' = Recorded(manifest) /\ Recorded(t.db) = Recorded(s.db)
        /\ Recorded(s.db) \subseteq Content
    BY <1>d DEF Recorded
  <2> QED BY <1>d, <2>1 DEF PassDb
<1>1. CASE \E f \in Path : HashNext(p, f)
  <2>1. t.pc = "scan"
    BY <1>1 DEF HashNext, NextListed, Local, PassState
  <2> QED BY <1>a, <2>1 DEF Comparing
<1>2. CASE ReadManifest(p)
  <2>1. /\ t.pc = "add" /\ t.db = manifest /\ manifest' = manifest
        /\ t.todo = Scanned(p) \ Recorded(manifest)
    BY <1>2 DEF ReadManifest, Local, PassState
  <2> QED BY <2>1 DEF PassDb
<1>3. CASE \E c \in Content : OpenFile(p, c)
  <2>1. /\ s.pc = "add" /\ t.pc = "ingest" /\ t.db = s.db /\ t.todo = s.todo
        /\ manifest' = manifest
    BY <1>3 DEF OpenFile, Local, PassState
  <2> QED BY <1>d, <2>1 DEF Comparing
<1>4. CASE UpsertBatch(p)
  <2>1. /\ s.pc = "ingest" /\ t.pc = "ingest" /\ t.db = s.db /\ t.todo = s.todo
        /\ manifest' = manifest
    BY <1>4, UpsertBatchDoes
  <2> QED BY <1>d, <2>1 DEF Comparing
<1>5. CASE RecordRow(p)
  <2>1. PICK row \in Row : manifest' = [manifest EXCEPT ![s.cur] = row]
    BY <1>5, RecordRowDoes
  <2>2. /\ s.pc = "ingest" /\ t.pc = "add" /\ t.db = s.db /\ t.todo = s.todo \ {s.cur}
    BY <1>5, RecordRowDoes
  <2>3. s.cur \in s.todo /\ s.cur \in Content
    BY <2>2, AtHandScanned
  <2>4. /\ s.todo \cap (Recorded(s.db) \cup Recorded(manifest)) = {}
        /\ \A c \in Recorded(s.db) : s.db[c].uuids = manifest[c].uuids
    BY <2>2 DEF PassDb, Comparing
  <2>5. \A c \in Content : c # s.cur => manifest'[c] = manifest[c]
    BY <2>1
  <2>6. Recorded(manifest)' \subseteq Recorded(manifest) \cup {s.cur}
    BY <2>5 DEF Recorded
  <2>7. \A c \in Recorded(s.db) : s.db[c].uuids = manifest'[c].uuids
    BY <2>3, <2>4, <2>5 DEF Recorded
  <2> QED BY <2>2, <2>4, <2>6, <2>7 DEF PassDb
<1>6. CASE EndAdd(p)
  <2>1. /\ s.pc = "add" /\ t.pc = "reconcile" /\ t.db = s.db
        /\ t.todo = Scanned(p) \cap Recorded(s.db) /\ manifest' = manifest
    BY <1>6 DEF EndAdd, Local, PassState
  <2> QED BY <2>1 DEF PassDb, Comparing
<1>7. CASE \E c \in Content : Reconcile(p, c)
  <2>1. /\ s.pc = "reconcile" /\ t.pc \in {"reconcile", "rename"} /\ t.db = s.db
        /\ t.todo \subseteq s.todo
        /\ \A d \in Content : /\ manifest'[d].uuids = manifest[d].uuids
                              /\ manifest'[d].path = manifest[d].path
    BY <1>7 DEF Reconcile, Returned, Row, Local, PassState
  <2> QED BY <1>d, <2>1 DEF Comparing
<1>8. CASE RefreshName(p)
  <2>1. /\ s.pc = "rename" /\ t.pc = "repath" /\ t.db = s.db /\ t.todo = s.todo
        /\ manifest' = manifest
    BY <1>8, RefreshNameDoes
  <2> QED BY <1>d, <2>1 DEF Comparing
<1>9. CASE SetPath(p)
  <2>1. /\ s.pc = "repath" /\ t.pc = "reconcile" /\ t.db = s.db
        /\ t.todo \subseteq s.todo
        /\ manifest' = [manifest EXCEPT ![s.cur].path = s.scan[s.cur]]
    BY <1>9 DEF SetPath, Local, PassState
  <2>2. s.todo \subseteq Recorded(s.db)
        /\ \A c \in Recorded(s.db) : s.db[c].uuids = manifest[c].uuids
    BY <2>1 DEF PassDb, Comparing
  <2>3. \A c \in Content : manifest'[c].uuids = manifest[c].uuids
    BY <2>1 DEF Row
  <2>4. Recorded(s.db) \subseteq Content
    BY DEF Recorded
  <2> QED BY <2>1, <2>2, <2>3, <2>4 DEF PassDb
<1>10. CASE EndReconcile(p)
  <2>1. t.pc \in {"mark", "prune"}
    BY <1>10 DEF EndReconcile, Local, PassState
  <2> QED BY <1>a, <2>1 DEF Comparing
<1>11. CASE \E c \in Content : DropRow(p, c)
  <2>1. t.pc = "drop"
    BY <1>11 DEF DropRow, Local, PassState
  <2> QED BY <1>a, <2>1 DEF Comparing
<1>12. CASE DropPoints(p)
  <2>1. t.pc = "prune"
    BY <1>12 DEF DropPoints, Local, PassState
  <2> QED BY <1>a, <2>1 DEF Comparing
<1>13. CASE \E c \in Content : MarkDeparted(p, c)
  <2>1. t.pc = "mark"
    BY <1>13 DEF MarkDeparted, Local, PassState
  <2> QED BY <1>a, <2>1 DEF Comparing
<1>14. CASE EndMark(p)
  <2>1. t.pc = "reap"
    BY <1>14 DEF EndMark, Local, PassState
  <2> QED BY <1>a, <2>1 DEF Comparing
<1>15. CASE \E c \in Content : ReapPoints(p, c)
  <2>1. t.pc = "unrecord"
    BY <1>15 DEF ReapPoints, Local, PassState
  <2> QED BY <1>a, <2>1 DEF Comparing
<1>16. CASE ReapRow(p)
  <2>1. t.pc = "reap"
    BY <1>16 DEF ReapRow, Local, PassState
  <2> QED BY <1>a, <2>1 DEF Comparing
<1>17. CASE EndIncremental(p)
  <2>1. t.pc = "done"
    BY <1>17 DEF EndIncremental, Local, PassState
  <2> QED BY <1>a, <2>1 DEF Comparing
<1> QED BY <1>1, <1>2, <1>3, <1>4, <1>5, <1>6, <1>7, <1>8, <1>9, <1>10, <1>11,
           <1>12, <1>13, <1>14, <1>15, <1>16, <1>17, IncrementalWork

LEMMA IdleContent ==
    ASSUME NEW q \in Proc, pass'[q].pc = "idle", pass'[q].rows = NoRows
    PROVE  PassContent(q)' /\ PassDb(q)'
<1>1. \A c \in Content : NoRows[c].uuids = {}
  BY DEF NoRows, NoRow
<1> QED BY <1>1, NoIds DEF PassContent, PassDb, Comparing

LEMMA InitContent == Init => ContentOK
<1> SUFFICES ASSUME Init PROVE ContentOK
  OBVIOUS
<1>1. Blank.pc = "idle" /\ Blank.rows = NoRows
  BY DEF Blank
<1>2. \A c \in Content : NoRows[c].uuids = {}
  BY DEF NoRows, NoRow
<1>3. manifest = NoRows /\ \A q \in Proc : pass[q] = Blank
  BY DEF Init
<1> QED BY <1>1, <1>2, <1>3, NoIds DEF ContentOK, PassContent, PassDb, Comparing

LEMMA ContentStep ==
    ASSUME IInv, RowsOK, ContentOK, [Next]_vars PROVE ContentOK'
<1> DEFINE AllOne == \A c \in Content : OneContentOf(points, manifest[c].uuids)
<1>0. /\ TypeOK /\ OneWriter /\ pass \in [Proc -> PassState] /\ AllOne
      /\ \A q \in Proc : PassContent(q) /\ PassDb(q) /\ PassRows(q)
  BY DEF IInv, TypeOK, RowsOK, ContentOK
<1>1. ASSUME NEW q \in Proc, pass[q].pc = "idle", pass'[q] = pass[q]
      PROVE  PassContent(q)' /\ PassDb(q)'
  BY <1>0, <1>1, IdleContent DEF PassRows
<1>2. CASE UNCHANGED vars
  BY <1>0, <1>2 DEF vars, ContentOK, PassContent, PassDb
<1>3. CASE Environment
  <2>1. \A c \in Content : /\ manifest'[c].uuids = manifest[c].uuids
                           /\ manifest'[c].path = manifest[c].path
    BY <1>0, <1>3, EnvironmentLocal
  <2>2. points' = points
    BY <1>0, <1>3, EnvironmentLocal
  <2>3. Recorded(manifest)' = Recorded(manifest)
    BY <2>1 DEF Recorded
  <2>4. ASSUME NEW q \in Proc PROVE PassContent(q)' /\ PassDb(q)'
    <3>1. /\ pass'[q].pc = pass[q].pc /\ pass'[q].mode = pass[q].mode
          /\ pass'[q].db = pass[q].db /\ pass'[q].todo = pass[q].todo
          /\ pass'[q].got = pass[q].got
          /\ pass'[q].ids = pass[q].ids /\ pass'[q].rows = pass[q].rows
      BY <1>0, <1>3, EnvironmentKeeps
    <3>2. PassContent(q)'
      BY <1>0, <2>2, <3>1 DEF PassContent
    <3>3. \A c \in Recorded(pass[q].db) : c \in Content
      BY DEF Recorded
    <3>4. PassDb(q)'
      BY <1>0, <2>1, <2>3, <3>1, <3>3 DEF PassDb
    <3> QED BY <3>2, <3>4
  <2>5. AllOne'
    BY <1>0, <2>1, <2>2
  <2> HIDE DEF AllOne
  <2>6. ContentOK' <=> AllOne' /\ \A q \in Proc : PassContent(q)' /\ PassDb(q)'
    BY DEF ContentOK, AllOne
  <2> QED BY <2>4, <2>5, <2>6
<1>4. ASSUME NEW p \in Proc, BeginStep(p) PROVE AllOne' /\ PassContent(p)' /\ PassDb(p)'
  <2>1. /\ pass'[p].pc = "scan" /\ pass'[p].rows = NoRows /\ manifest' = manifest
    BY <1>0, <1>4, BeginStepLocal
  <2>2. points' = points
    BY <1>4 DEF BeginStep, BeginIncremental, BeginRebuild, store
  <2>3. \A c \in Content : NoRows[c].uuids = {}
    BY DEF NoRows, NoRow
  <2> QED BY <1>0, <2>1, <2>2, <2>3, NoIds DEF PassContent, PassDb, Comparing
<1>5. ASSUME NEW p \in Proc, EndStep(p) PROVE AllOne' /\ PassContent(p)' /\ PassDb(p)'
  <2>1. pass'[p] = Blank /\ manifest' = manifest /\ points' = points
    BY <1>0, <1>5, EndStepLocal DEF store
  <2>2. Blank.pc = "idle" /\ Blank.rows = NoRows
    BY DEF Blank
  <2> QED BY <1>0, <2>1, <2>2, IdleContent
<1>6. ASSUME NEW p \in Proc, BeginStep(p) \/ WorkStep(p) \/ EndStep(p),
             \A q \in Proc \ {p} : pass[q].pc = "idle" /\ pass'[q] = pass[q]
      PROVE  ContentOK'
  <2>1. AllOne' /\ PassContent(p)' /\ PassDb(p)'
    BY <1>4, <1>5, <1>6, ContentWork, DbWork
  <2>2. \A q \in Proc : PassContent(q)' /\ PassDb(q)'
    BY <1>1, <1>6, <2>1
  <2> QED BY <2>1, <2>2 DEF ContentOK
<1> QED BY <1>0, <1>2, <1>3, <1>6, OneActs

-----------------------------------------------------------------------------
(***************************************************************************)
(* All of it together, and what it says of the switch and of rebuilds.     *)
(***************************************************************************)
IndexInv == IInv /\ StoreOK /\ ScanOK /\ RowsOK /\ PointsOK /\ FilesOK /\ ContentOK

(* What makes the index behave is an invariant: whose points a collection  *)
(* holds, under which names, how many of each file.                        *)
THEOREM IndexInductive == Spec => []IndexInv
<1>1. Init => IndexInv
  BY InitIInv, InitStore, InitRows, InitPoints, InitContent DEF IndexInv
<1>2. IndexInv /\ [Next]_vars => IndexInv'
  BY IInvStep, StoreStep, ScanStep, RowsStep, PointsStep, FilesStep, ContentStep
     DEF IndexInv
<1> QED BY <1>1, <1>2, PTL DEF Spec

(* Only a rebuild moves the alias.                                         *)
LEMMA AliasMoves ==
    ASSUME TypeOK, OneWriter, [Next]_vars, alias' # alias
    PROVE  \E p \in Proc : CreateAlias(p) \/ SwitchAlias(p)
<1>1. ASSUME NEW p \in Proc, WorkStep(p) PROVE CreateAlias(p) \/ SwitchAlias(p)
  BY <1>1 DEF WorkStep, HashNext, NextListed, ReadManifest, OpenFile, UpsertBatch,
              RecordRow, EndAdd, Reconcile, RefreshName, SetPath, EndReconcile, DropRow,
              DropPoints, MarkDeparted, EndMark, ReapPoints, ReapRow, EndIncremental,
              ReplaceAll, DropLegacy, DropOld, store
<1>2. ASSUME NEW p \in Proc, BeginStep(p) PROVE FALSE
  BY <1>2 DEF BeginStep, BeginIncremental, BeginRebuild, store
<1>3. ASSUME NEW p \in Proc, EndStep(p) PROVE FALSE
  BY <1>3, EndStepLocal DEF store
<1>4. CASE Environment
  BY <1>4, EnvironmentLocal
<1>5. CASE UNCHANGED vars
  BY <1>5 DEF vars
<1> QED BY <1>1, <1>2, <1>3, <1>4, <1>5, NextCases

LEMMA MovesTo ==
    ASSUME IndexInv, NEW p \in Proc, CreateAlias(p) \/ SwitchAlias(p)
    PROVE  /\ pass[p].mode = "rebuild" /\ pass[p].pc \in {"switch", "migrate"}
           /\ pass[p].col \in Collection \ {alias, Legacy} /\ pass[p].col \in colls
           /\ alias' = pass[p].col /\ UNCHANGED <<manifest, points, colls>>
<1>1. PassAlias(p) /\ PassPhase(p) /\ colls \subseteq Collection
  BY DEF IndexInv, IInv, AliasSafe, PhaseOK, TypeOK
<1>2. /\ pass[p].pc \in {"switch", "migrate"} /\ alias' = pass[p].col
      /\ UNCHANGED <<manifest, points, colls>>
  BY DEF CreateAlias, SwitchAlias, AtSwitch
<1> QED BY <1>1, <1>2 DEF PassAlias, PassPhase

SwitchStep == alias' # alias => /\ alias' # NoCollection
                                /\ Ids(points'[alias']) = UuidsOf(manifest')

(* Zero blackout (ADR-0006 section 4, recreate): however many rebuilds     *)
(* died before, when the alias moves, the collection it comes to name      *)
(* holds the points the manifest records, all of them and no others; and   *)
(* an alias never goes away.                                               *)
THEOREM SwitchesAreComplete == Spec => SwitchIsComplete
<1>1. ASSUME IndexInv, [Next]_vars PROVE SwitchStep
  <2> SUFFICES ASSUME alias' # alias
               PROVE  alias' # NoCollection /\ Ids(points'[alias']) = UuidsOf(manifest')
    BY DEF SwitchStep
  <2>1. TypeOK /\ OneWriter /\ PointsOK
    BY <1>1 DEF IndexInv, IInv
  <2>2. PICK p \in Proc : CreateAlias(p) \/ SwitchAlias(p)
    BY <1>1, <2>1, AliasMoves
  <2>3. /\ pass[p].mode = "rebuild" /\ pass[p].pc \in {"switch", "migrate"}
        /\ pass[p].col \in Collection
        /\ alias' = pass[p].col /\ UNCHANGED <<manifest, points>>
    BY <1>1, <2>2, MovesTo
  <2>4. Ids(points[pass[p].col]) = UuidsOf(manifest) \cup {}
    BY <2>1, <2>3 DEF PointsOK, PassPoints, Holds, Adding
  <2> QED BY <2>3, <2>4, Constants
<1>2. IndexInv /\ [Next]_vars => [SwitchStep]_vars
  BY <1>1
<1>3. Spec => [][SwitchStep]_vars
  BY <1>2, IndexInductive, PTL DEF Spec
<1> QED BY <1>3 DEF SwitchIsComplete, SwitchStep

(* ADR-0006, Consequences: whatever crashes came before it, a rebuild that *)
(* reaches its end leaves the manifest with what its scan saw, and behind  *)
(* the alias the points of those rows, no others, under their files' names.*)
THEOREM RebuildsReset == Spec => []RebuildResets
<1>1. IndexInv => RebuildResets
  <2> SUFFICES ASSUME IndexInv, NEW p \in Proc, pass[p].pc = "done",
                      pass[p].mode = "rebuild"
               PROVE  /\ LiveIds = UuidsOf(manifest)
                      /\ Recorded(manifest) = Scanned(p)
                      /\ \A c \in Scanned(p), pt \in points[Live] :
                           pt.id \in manifest[c].uuids => pt.name = manifest[c].path
    BY DEF RebuildResets, Running
  <2>1. PassPoints(p) /\ PassRows(p)
    BY DEF IndexInv, PointsOK, RowsOK
  <2>2. /\ alias # NoCollection /\ Ids(points[alias]) = UuidsOf(manifest) \cup {}
        /\ Named(points[alias], manifest)
    BY <2>1 DEF PassPoints, Holds, Adding
  <2>3. \A c \in Content : manifest[c].path = pass[p].scan[c]
    BY <2>1 DEF PassRows, Replaced
  <2>4. Recorded(manifest) = Scanned(p) /\ Scanned(p) \subseteq Content
    BY <2>3 DEF Recorded, Scanned
  <2> QED BY <2>2, <2>4 DEF LiveIds, Live, Named
<1> QED BY <1>1, IndexInductive, PTL

-----------------------------------------------------------------------------
(***************************************************************************)
(* CorpusSync implements CorpusIndex.                                      *)
(***************************************************************************)
Served == IF Resolved \in colls THEN points[Resolved] ELSE {}

LEMMA ServedType ==
    TypeOK => /\ Served \in SUBSET Point /\ Resolved \in Collection \cup {NoCollection}
              /\ Resolved = NoCollection => Served = {}
BY Constants DEF TypeOK, Served, Resolved

(* What nobody can see is no step of the index. *)
IndexSame == Resolved' = Resolved /\ Served' = Served

LEMMA StoreSame == ASSUME UNCHANGED store PROVE IndexSame
BY DEF store, IndexSame, Served, Resolved

LEMMA IndexStutter == IndexSame => [Index!Next]_(Index!vars)
BY DEF IndexSame, Served, Index!vars

(* A change of what is served, to the points of one collection.            *)
LEMMA ChangeElsewhere ==
    ASSUME TypeOK, NEW k, k # Resolved, NEW pts, points' = [points EXCEPT ![k] = pts],
           UNCHANGED <<colls, alias>>
    PROVE  IndexSame
<1>1. Resolved' = Resolved
  BY DEF Resolved
<1>2. Resolved \in colls => points'[Resolved] = points[Resolved]
  BY DEF TypeOK
<1> QED BY <1>1, <1>2 DEF IndexSame, Served

LEMMA ChangeHere ==
    ASSUME TypeOK, NEW k \in colls, k = Resolved, NEW pts,
           points' = [points EXCEPT ![k] = pts], UNCHANGED <<colls, alias>>
    PROVE  /\ Resolved' = Resolved /\ Resolved # NoCollection
           /\ Served = points[k] /\ Served' = pts
<1>1. Resolved' = Resolved /\ k \in Collection
  BY DEF Resolved, TypeOK
<1>2. points'[k] = pts
  BY <1>1 DEF TypeOK
<1> QED BY <1>1, <1>2, Constants DEF Served

(* An incremental pass works on the collection the name resolves to.       *)
LEMMA WorksOnResolved ==
    ASSUME IndexInv, NEW p \in Proc, pass[p].pc # "idle", pass[p].mode # "rebuild"
    PROVE  pass[p].col \in colls /\ pass[p].col = Resolved
<1>1. pass[p].col = Live /\ pass[p].col \in colls
  BY DEF IndexInv, StoreOK, PassStore
<1> QED BY <1>1 DEF Live, Resolved

(* Withdrawing ids made from one content. *)
LEMMA WithdrawStep ==
    ASSUME IndexInv, NEW p \in Proc, pass[p].pc # "idle", pass[p].mode # "rebuild",
           NEW ids, OneContentOf(points, ids),
           points' = [points EXCEPT ![pass[p].col] = Without(points[pass[p].col], ids)],
           UNCHANGED <<colls, alias>>
    PROVE  Index!Next
<1> DEFINE k == pass[p].col
<1>0. TypeOK /\ k \in colls /\ k = Resolved /\ k \in Collection
  BY WorksOnResolved DEF IndexInv, IInv, TypeOK
<1>1. /\ Resolved' = Resolved /\ Resolved # NoCollection
      /\ Served = points[k] /\ Served' = Without(points[k], ids)
  BY <1>0, ChangeHere
<1>2. Served' \subseteq Served
  BY <1>1 DEF Without
<1>3. \A pt \in Served \ Served' : pt \in points[k] /\ pt.id \in ids
  BY <1>1 DEF Without
<1>4. \A pt, qt \in Served \ Served' : pt.content = qt.content
  BY <1>0, <1>3 DEF OneContentOf
<1>5. Index!Withdraw
  BY <1>2, <1>4 DEF Index!Withdraw, Index!OneContent, Served
<1> QED BY <1>1, <1>5 DEF Index!Next, Index!Change

LEMMA PublishStep ==
    ASSUME IndexInv, NEW p \in Proc, UpsertBatch(p)
    PROVE  [Index!Next]_(Index!vars)
<1> DEFINE k == pass[p].col
<1>0. TypeOK /\ PhaseOK /\ PassAlias(p)
  BY DEF IndexInv, IInv, AliasSafe
<1>1. PICK pt \in Point :
        /\ points' = [points EXCEPT ![k] = @ \cup {pt}]
        /\ \A j \in Collection : \A qt \in points[j] : qt.id # pt.id
  BY <1>0, UpsertBatchDoes
<1>2. UNCHANGED <<colls, alias>> /\ pass[p].pc = "ingest" /\ k \in Collection
  BY <1>0, UpsertBatchDoes, AtHandScanned
<1>3. points' = [points EXCEPT ![k] = points[k] \cup {pt}]
  BY <1>1
<1>4. CASE pass[p].mode = "rebuild"
  <2>1. k # Resolved
    BY <1>0, <1>2, <1>4, Constants DEF PassAlias, Resolved
  <2> HIDE DEF k
  <2> QED BY <1>0, <1>2, <1>3, <2>1, ChangeElsewhere, IndexStutter
<1>5. CASE pass[p].mode # "rebuild"
  <2>1. k \in colls /\ k = Resolved
    BY <1>2, <1>5, WorksOnResolved
  <2>2. /\ Resolved' = Resolved /\ Resolved # NoCollection
        /\ Served = points[k] /\ Served' = points[k] \cup {pt}
    BY <1>0, <1>2, <1>3, <2>1, ChangeHere
  <2>3. \A qt \in Served : qt.id # pt.id
    BY <1>1, <1>2, <2>2
  <2>4. Index!Publish
    BY <2>2, <2>3 DEF Index!Publish, Served
  <2> QED BY <2>2, <2>4 DEF Index!Next, Index!Change
<1> QED BY <1>4, <1>5

LEMMA RenameStep ==
    ASSUME IndexInv, NEW p \in Proc, RefreshName(p)
    PROVE  Index!Next
<1> DEFINE s   == pass[p]
           k   == s.col
           ids == s.db[s.cur].uuids
           f   == s.scan[s.cur]
<1>0. /\ TypeOK /\ PhaseOK /\ StoreOK /\ ContentOK /\ PassDb(p)
      /\ points \in [Collection -> SUBSET Point] /\ PassAlias(p) /\ PassStore(p)
  BY DEF IndexInv, IInv, AliasSafe, ContentOK, StoreOK, TypeOK
<1>1. /\ s.pc = "rename" /\ UNCHANGED <<colls, alias>>
      /\ points' = [points EXCEPT ![k] = {Told(pt, ids, f) : pt \in @}]
  BY <1>0, RefreshNameDoes
<1>2. s.mode # "rebuild"
  BY <1>0, <1>1 DEF PassStore, Adding, Replaced
<1>3. k \in colls /\ k = Resolved /\ k \in Collection
  BY <1>0, <1>1, <1>2, WorksOnResolved DEF TypeOK
<1>4. f \in Path /\ s.cur \in s.todo /\ s.cur \in Content
  BY <1>0, <1>1, AtHandScanned
<1>5. ids = manifest[s.cur].uuids
  BY <1>0, <1>1, <1>2, <1>4 DEF PassDb, Comparing
<1>6. OneContentOf(points, ids)
  BY <1>0, <1>4, <1>5 DEF ContentOK
<1>7. KeyedById(points[k]) /\ points[k] \subseteq Point
  BY <1>0, <1>3 DEF StoreOK
<1> DEFINE S == points[k]
           T == {Told(pt, ids, f) : pt \in S}
<1>8. /\ Resolved' = Resolved /\ Resolved # NoCollection /\ Served = S /\ Served' = T
  <2> HIDE DEF ids, f
  <2>1. points' = [points EXCEPT ![k] = T]
    BY <1>1
  <2> HIDE DEF T, k
  <2> QED BY <1>0, <1>1, <1>3, <2>1, ChangeHere
<1>9. \A pt \in S : /\ Told(pt, ids, f).id = pt.id /\ Told(pt, ids, f).content = pt.content
                    /\ pt.id \in ids => Told(pt, ids, f).name = f
                    /\ pt.id \notin ids => Told(pt, ids, f) = pt
  BY <1>4, <1>7, ToldKeeps
<1> HIDE DEF ids, f, k, S
<1> DEFINE before == S \ T
           after  == T \ S
<1>10. \A pt \in before : pt \in S /\ pt.id \in ids /\ Told(pt, ids, f) \in after
  <2> SUFFICES ASSUME NEW pt \in before
               PROVE  pt \in S /\ pt.id \in ids /\ Told(pt, ids, f) \in after
    OBVIOUS
  <2>1. pt \in S /\ Told(pt, ids, f) \in T /\ Told(pt, ids, f) # pt
    OBVIOUS
  <2>2. pt.id \in ids
    BY <1>9, <2>1
  <2>3. Told(pt, ids, f) \notin S
    BY <1>7, <1>9, <2>1 DEF KeyedById, S
  <2> QED BY <2>1, <2>2, <2>3
<1>11. \A qt \in after : \E pt \in before : qt = Told(pt, ids, f) /\ pt.id \in ids
  <2> SUFFICES ASSUME NEW qt \in after
               PROVE  \E pt \in before : qt = Told(pt, ids, f) /\ pt.id \in ids
    OBVIOUS
  <2>1. PICK pt \in S : qt = Told(pt, ids, f)
    OBVIOUS
  <2>2. qt # pt /\ pt.id \in ids
    BY <1>9, <2>1
  <2>3. pt \notin T
    <3> SUFFICES ASSUME pt \in T PROVE FALSE
      OBVIOUS
    <3>1. PICK pt2 \in S : pt = Told(pt2, ids, f)
      OBVIOUS
    <3>2. pt2.id = pt.id
      BY <1>9, <3>1
    <3>3. pt2 = pt
      BY <1>7, <3>2 DEF KeyedById, S
    <3> QED BY <2>1, <2>2, <3>1, <3>3
  <2> QED BY <2>1, <2>2, <2>3
<1>12. {pt.id : pt \in before} = {pt.id : pt \in after}
  <2>1. \A pt \in before : \E qt \in after : qt.id = pt.id
    BY <1>9, <1>10
  <2>2. \A qt \in after : \E pt \in before : qt.id = pt.id
    BY <1>9, <1>11
  <2> HIDE DEF before, after
  <2> QED BY <2>1, <2>2
<1>13. \A qt \in before \cup after : \E pt \in S : /\ pt.id \in ids
                                                   /\ qt.content = pt.content
  BY <1>9, <1>10, <1>11
<1>14. \A pt, qt \in before \cup after : pt.content = qt.content
  <2> HIDE DEF before, after
  <2> QED BY <1>3, <1>6, <1>13 DEF OneContentOf, S
<1>15. \A pt, qt \in after : pt.name = qt.name
  BY <1>9, <1>11
<1>16. Index!Rename
  <2>1. before = Served \ Served' /\ after = Served' \ Served
    BY <1>8
  <2>2. \A pt, qt \in T : pt.id = qt.id => pt = qt
    BY <1>7, <1>9 DEF KeyedById, S
  <2>3. Index!OnePerId(Served')
    BY <1>8, <2>2 DEF Index!OnePerId
  <2> HIDE DEF before, after
  <2> QED BY <1>12, <1>14, <1>15, <2>1, <2>3
          DEF Index!Rename, Index!OneContent, Index!OneName, Served
<1> QED BY <1>8, <1>16 DEF Index!Next, Index!Change

LEMMA WholeCollection ==
    ASSUME NEW S, WholeBut(S, NoPath), \A pt \in S : pt.name # NoPath
    PROVE  Index!Whole(S)
<1>1. ASSUME NEW pt \in S
      PROVE  /\ Index!OneContent(Index!FileOf(S, pt.name))
             /\ Cardinality(Index!FileOf(S, pt.name)) = NumBatches[pt.content]
  <2>1. Index!FileOf(S, pt.name) = File(S, pt.name)
    BY DEF Index!FileOf, File
  <2>2. /\ \A qt \in File(S, pt.name) : qt.content = pt.content
        /\ Cardinality(File(S, pt.name)) = NumBatches[pt.content]
    BY DEF WholeBut
  <2>3. Index!OneContent(File(S, pt.name))
    BY <2>2 DEF Index!OneContent
  <2> QED BY <2>1, <2>2, <2>3
<1>2. \A pt \in S : /\ Index!OneContent(Index!FileOf(S, pt.name))
                    /\ Cardinality(Index!FileOf(S, pt.name)) = NumBatches[pt.content]
  BY <1>1
<1>3. \A T : Index!Cardinality(T) = Cardinality(T)
  BY DEF Cardinality, Index!Cardinality
<1> HIDE DEF File
<1> QED BY <1>2, <1>3 DEF Index!Whole

LEMMA ReplaceStep ==
    ASSUME IndexInv, NEW p \in Proc, CreateAlias(p) \/ SwitchAlias(p)
    PROVE  Index!Next
<1> DEFINE k == pass[p].col
<1>0. TypeOK /\ PassFiles(p) /\ PassAlias(p) /\ StoreOK
  BY DEF IndexInv, IInv, FilesOK, AliasSafe
<1>1. /\ pass[p].mode = "rebuild" /\ pass[p].pc \in {"switch", "migrate"}
      /\ k \in Collection \ {alias, Legacy} /\ k \in colls
      /\ alias' = k /\ UNCHANGED <<manifest, points, colls>>
  BY MovesTo
<1>2. Resolved' = k /\ k # Resolved /\ Served' = points[k]
  BY <1>1, Constants DEF Resolved, Served
<1>3. WholeBut(points[k], NoPath) /\ points[k] \subseteq Point
  BY <1>0, <1>1 DEF PassFiles, TypeOK
<1>4. \A pt \in points[k] : pt.name # NoPath
  BY <1>3, Constants DEF Point
<1>5. Index!Whole(points[k])
  <2> HIDE DEF k
  <2> QED BY <1>3, <1>4, WholeCollection
<1>6. Index!OnePerId(Served')
  BY <1>0, <1>1, <1>2 DEF Index!OnePerId, StoreOK, KeyedById
<1>7. Index!Replace
  BY <1>1, <1>2, <1>3, <1>5, <1>6 DEF Index!Replace, Served, k
<1> QED BY <1>7 DEF Index!Next

LEMMA IndexWork ==
    ASSUME IndexInv, NEW p \in Proc, WorkStep(p)
    PROVE  [Index!Next]_(Index!vars)
<1>0. /\ TypeOK /\ PhaseOK /\ PassContent(p) /\ PassUuids(p) /\ PassAlias(p)
      /\ PassStore(p) /\ PassPoints(p) /\ PassPhase(p) /\ AliasResolves
      /\ \A c \in Content : OneContentOf(points, manifest[c].uuids)
      /\ pass[p] \in PassState
  BY DEF IndexInv, IInv, AliasSafe, ContentOK, UuidsApart, StoreOK, PointsOK, TypeOK, PhaseOK
<1>a. ASSUME UNCHANGED store PROVE [Index!Next]_(Index!vars)
  BY <1>a, StoreSame, IndexStutter
<1>1. CASE \E f \in Path : HashNext(p, f)
  BY <1>1, <1>a DEF HashNext, NextListed
<1>2. CASE ReadManifest(p)
  BY <1>2, <1>a DEF ReadManifest
<1>3. CASE \E c \in Content : OpenFile(p, c)
  BY <1>3, <1>a DEF OpenFile
<1>4. CASE UpsertBatch(p)
  BY <1>4, PublishStep
<1>5. CASE RecordRow(p)
  BY <1>5, <1>a DEF RecordRow
<1>6. CASE EndAdd(p)
  BY <1>6, <1>a DEF EndAdd
<1>7. CASE \E c \in Content : Reconcile(p, c)
  BY <1>7, <1>a DEF Reconcile
<1>8. CASE RefreshName(p)
  BY <1>8, RenameStep
<1>9. CASE SetPath(p)
  BY <1>9, <1>a DEF SetPath
<1>10. CASE EndReconcile(p)
  BY <1>10, <1>a DEF EndReconcile
<1>11. CASE \E c \in Content : DropRow(p, c)
  BY <1>11, <1>a DEF DropRow
<1>12. CASE DropPoints(p)
  <2>1. /\ pass[p].pc = "drop" /\ UNCHANGED <<colls, alias>>
        /\ points' = [points EXCEPT ![pass[p].col] =
                        Without(points[pass[p].col], pass[p].ids)]
    BY <1>12 DEF DropPoints
  <2>2. pass[p].mode # "rebuild" /\ OneContentOf(points, pass[p].ids)
    BY <1>0, <2>1 DEF PassStore, PassContent, Adding, Replaced
  <2> QED BY <2>1, <2>2, WithdrawStep
<1>13. CASE \E c \in Content : MarkDeparted(p, c)
  BY <1>13, <1>a DEF MarkDeparted
<1>14. CASE EndMark(p)
  BY <1>14, <1>a DEF EndMark
<1>15. CASE \E c \in Content : ReapPoints(p, c)
  <2>1. PICK c \in Content : ReapPoints(p, c)
    BY <1>15
  <2>2. /\ pass[p].pc = "reap" /\ UNCHANGED <<colls, alias>> /\ c \in pass[p].todo
        /\ points' = [points EXCEPT ![pass[p].col] =
                        Without(points[pass[p].col], pass[p].db[c].uuids)]
    BY <2>1 DEF ReapPoints
  <2>3. pass[p].db[c].uuids = manifest[c].uuids
    BY <1>0, <2>2 DEF PassUuids
  <2>4. pass[p].mode # "rebuild" /\ OneContentOf(points, pass[p].db[c].uuids)
    BY <1>0, <2>2, <2>3 DEF PassStore, Adding, Replaced
  <2> QED BY <2>2, <2>4, WithdrawStep
<1>16. CASE ReapRow(p)
  BY <1>16, <1>a DEF ReapRow
<1>17. CASE EndIncremental(p)
  BY <1>17, <1>a DEF EndIncremental
<1>18. CASE ReplaceAll(p)
  BY <1>18, <1>a DEF ReplaceAll
<1>19. CASE DropLegacy(p)
  <2>1. /\ alias = NoCollection /\ Legacy \in colls /\ alias' = alias
        /\ colls' = colls \ {Legacy}
    BY <1>19 DEF DropLegacy
  <2>2. /\ Resolved = Legacy /\ Resolved' = NoCollection
    BY <2>1 DEF Resolved
  <2>3. Served' = {}
    BY <1>0, <2>1, <2>2, Constants DEF Served, TypeOK
  <2> QED BY <2>2, <2>3 DEF Index!Next, Index!DropLegacy, Served
<1>20. CASE CreateAlias(p)
  BY <1>20, ReplaceStep
<1>21. CASE SwitchAlias(p)
  BY <1>21, ReplaceStep
<1>22. CASE DropOld(p)
  <2>1. /\ pass[p].pc = "retire" /\ alias' = alias /\ colls' = colls \ {pass[p].col}
        /\ points' = [points EXCEPT ![pass[p].col] = {}]
    BY <1>22 DEF DropOld
  <2>2. alias # NoCollection /\ pass[p].col # alias /\ alias \in colls
    BY <1>0, <2>1 DEF PassAlias, PassPoints, AliasResolves
  <2>3. Resolved = alias /\ Resolved' = alias /\ alias \in colls'
    BY <2>1, <2>2 DEF Resolved
  <2>4. points'[alias] = points[alias]
    BY <1>0, <2>1, <2>2 DEF TypeOK
  <2>5. IndexSame
    BY <2>2, <2>3, <2>4 DEF IndexSame, Served
  <2> QED BY <2>5, IndexStutter
<1> QED BY <1>1, <1>2, <1>3, <1>4, <1>5, <1>6, <1>7, <1>8, <1>9, <1>10, <1>11,
           <1>12, <1>13, <1>14, <1>15, <1>16, <1>17, <1>18, <1>19, <1>20, <1>21, <1>22 DEF WorkStep

LEMMA InitIndex == Init => Index!Init
<1> SUFFICES ASSUME Init PROVE Index!Init
  OBVIOUS
<1>1. TypeOK /\ alias = NoCollection
  BY InitType DEF Init
<1>2. Resolved \in {Legacy, NoCollection}
  BY <1>1 DEF Resolved
<1>3. Served \in SUBSET Point /\ (Resolved = NoCollection => Served = {})
  BY <1>1, ServedType
<1>4. Index!OnePerId(Served)
  <2>1. \A k \in Collection : KeyedById(points[k])
    BY InitStore DEF StoreOK
  <2> QED BY <1>1, <2>1 DEF Index!OnePerId, KeyedById, Served, TypeOK
<1> QED BY <1>2, <1>3, <1>4 DEF Index!Init, Served

LEMMA IndexStep ==
    ASSUME IndexInv, [Next]_vars PROVE [Index!Next]_(Index!vars)
<1>0. TypeOK /\ OneWriter /\ AliasResolves
  BY DEF IndexInv, IInv, AliasSafe
<1>1. ASSUME UNCHANGED store PROVE [Index!Next]_(Index!vars)
  BY <1>1, StoreSame, IndexStutter
<1>2. ASSUME NEW p \in Proc, BeginStep(p) PROVE [Index!Next]_(Index!vars)
  <2>1. CASE BeginIncremental(p)
    BY <1>1, <2>1 DEF BeginIncremental
  <2>2. ASSUME NEW k \in Collection, BeginRebuild(p, k) PROVE [Index!Next]_(Index!vars)
    <3>1. /\ k \notin colls \cup {Legacy} /\ colls' = colls \cup {k}
          /\ UNCHANGED <<points, alias>>
      BY <2>2 DEF BeginRebuild
    <3>2. Resolved' = Resolved /\ k # Resolved
      BY <1>0, <3>1, Constants DEF Resolved, AliasResolves
    <3>3. IndexSame
      BY <3>1, <3>2 DEF IndexSame, Served
    <3> QED BY <3>3, IndexStutter
  <2> QED BY <1>2, <2>1, <2>2 DEF BeginStep
<1>3. ASSUME NEW p \in Proc, EndStep(p) PROVE [Index!Next]_(Index!vars)
  BY <1>0, <1>1, <1>3, EndStepLocal
<1>4. CASE Environment
  BY <1>0, <1>1, <1>4, EnvironmentLocal DEF store
<1>5. CASE UNCHANGED vars
  BY <1>1, <1>5 DEF vars, store
<1> QED BY <1>2, <1>3, <1>4, <1>5, IndexWork, NextCases

(* CorpusSync implements CorpusIndex, for every tree, any number of        *)
(* command-line runs and collections, and passes that die anywhere: what a *)
(* query finds under the name `corpus` changes by one batch, one row or    *)
(* one name at a time, or becomes the whole of a rebuilt collection at     *)
(* once, and goes dark only while a legacy collection makes way.           *)
THEOREM SyncImplementsIndex == Spec => ImplementsIndex
<1>1. IndexInv /\ [Next]_vars => [Index!Next]_(Index!vars)
  BY IndexStep
<1>2. Spec => Index!Spec
  BY <1>1, InitIndex, IndexInductive, PTL DEF Spec, Index!Spec
<1> QED BY <1>2 DEF ImplementsIndex

-----------------------------------------------------------------------------
(***************************************************************************)
(* Rows, and what they are worth.                                          *)
(***************************************************************************)
(* What stands still while a pass runs is in its listing or in its scan.   *)
PassSteady(p) ==
    /\ pass[p].pc = "scan" =>
         \A f \in steady \cap Files : f \in pass[p].listing \/ disk[f] \in Scanned(p)
    /\ pass[p].pc \notin {"idle", "scan"} => SteadyContent \subseteq Scanned(p)

Pruning == {"prune", "drop", "mark", "reap", "unrecord", "done"}

Stays(c) == c \in Recorded(manifest) /\ manifest[c].departed = NotDeparted

(* An incremental pass: what the scan saw is recorded, and marked as       *)
(* departed at most until it is reconciled; what is pruned it did not see. *)
PassIncremental(p) ==
    LET s == pass[p] IN
    s.mode # "rebuild" =>
      /\ s.pc \in Comparing =>
           /\ \A c \in Recorded(s.db) :
                /\ c \in Recorded(manifest)
                /\ s.db[c].departed = NotDeparted => manifest[c].departed = NotDeparted
           /\ Recorded(manifest) \subseteq Recorded(s.db) \cup Scanned(p)
           /\ \A c \in Scanned(p) : Stays(c) \/ c \in Recorded(s.db) \/ c \in s.todo
      /\ s.pc \in {"reconcile", "rename", "repath"} =>
           \A c \in Scanned(p) : Stays(c) \/ c \in s.todo
      /\ s.pc \in {"rename", "repath"} => Stays(s.cur)
      /\ s.pc \in Pruning =>
           /\ s.todo \cap Scanned(p) = {}
           /\ \A c \in Scanned(p) : Stays(c)
      /\ s.mode = "manual" /\ s.pc \in {"prune", "drop", "done"} =>
           Recorded(manifest) \subseteq Scanned(p) \cup s.todo
      /\ s.pc = "done" => s.todo = {}

(* A rebuild marks nothing as departed.                                    *)
PassRebuilt(p) ==
    LET s == pass[p] IN
    s.mode = "rebuild" =>
      /\ s.pc \in Adding => \A c \in Content : s.rows[c].departed = NotDeparted
      /\ s.pc \in Replaced => \A c \in Content : manifest[c].departed = NotDeparted

SteadyOK == \A p \in Proc : PassSteady(p) /\ PassIncremental(p) /\ PassRebuilt(p)

(* What rows record answers queries, except between the transaction that   *)
(* replaces the manifest and the switch, and of the row whose points were  *)
(* reaped; what answers queries is recorded, or at hand.                   *)
AtHand(p) == IF pass[p].mode # "rebuild" /\ pass[p].pc \in {"ingest", "drop"}
             THEN pass[p].ids ELSE {}

PassServed(p) ==
    LET s == pass[p] IN
    /\ s.pc = "ingest" => AtHand(p) \subseteq LiveIds
    /\ s.pc \notin {"switch", "migrate"} =>
         /\ \A c \in Content : \/ manifest[c].uuids \subseteq LiveIds
                               \/ s.pc = "unrecord" /\ s.cur = c
         /\ s.pc = "unrecord" => manifest[s.cur].uuids \cap LiveIds = {}
         /\ alias # NoCollection => LiveIds \subseteq UuidsOf(manifest) \cup AtHand(p)

ServedOK == aborts = 0 => \A p \in Proc : lock \in {p, Nobody} => PassServed(p)

(* While the tree stands still, a path of the scan holds what it held, so  *)
(* a row's points are made from the content the row is about.              *)
PassMade(p) ==
    LET s == pass[p] IN
    /\ s.pc # "idle" => \A c \in Scanned(p) : disk[s.scan[c]] = c
    /\ \A c \in Content : Made(points, s.rows[c].uuids, c)
    /\ s.pc = "ingest" => s.got = s.cur

MadeOK ==
    ~ LiveEdits =>
      /\ \A c \in Content : Made(points, manifest[c].uuids, c)
      /\ \A p \in Proc : PassMade(p)

(* Where every file has a parser, a row has an id for each batch.          *)
Counted(rows) ==
    \A c \in Recorded(rows) : /\ IsFiniteSet(rows[c].uuids)
                              /\ Cardinality(rows[c].uuids) = NumBatches[c]

PassCounts(p) ==
    LET s == pass[p] IN
    /\ Counted(s.rows)
    /\ s.pc = "ingest" => /\ IsFiniteSet(s.ids)
                          /\ Cardinality(s.ids) + s.left = NumBatches[s.got]

CountsOK ==
    ~ LiveEdits /\ Indexable = Path =>
      Counted(manifest) /\ \A p \in Proc : PassCounts(p)

-----------------------------------------------------------------------------
(***************************************************************************)
(* A pass takes nothing away that stood still.                             *)
(***************************************************************************)
LEMMA ScanFrame ==
    ASSUME TypeOK, PhaseOK, NEW p \in Proc, WorkStep(p)
    PROVE  \/ \E f \in Path : HashNext(p, f)
           \/ /\ pass[p].pc = "scan" /\ pass[p].listing = {}
              /\ pass'[p].pc = "add" /\ pass'[p].scan = pass[p].scan
           \/ /\ pass[p].pc \notin {"idle", "scan"} /\ pass'[p].pc \notin {"idle", "scan"}
              /\ pass'[p].scan = pass[p].scan
<1>0. pass \in [Proc -> PassState] /\ pass[p] \in PassState
  BY DEF TypeOK
<1> USE <1>0 DEF Local, PassState
<1>2. CASE ReadManifest(p)
  BY <1>2 DEF ReadManifest, AllHashed
<1>3. CASE \E c \in Content : OpenFile(p, c)
  BY <1>3 DEF OpenFile
<1>4. CASE UpsertBatch(p)
  BY <1>4, UpsertBatchDoes
<1>5. CASE RecordRow(p)
  BY <1>5, RecordRowDoes
<1>6. CASE EndAdd(p)
  BY <1>6 DEF EndAdd
<1>7. CASE \E c \in Content : Reconcile(p, c)
  BY <1>7 DEF Reconcile
<1>8. CASE RefreshName(p)
  BY <1>8, RefreshNameDoes
<1>9. CASE SetPath(p)
  BY <1>9 DEF SetPath
<1>10. CASE EndReconcile(p)
  BY <1>10 DEF EndReconcile
<1>11. CASE \E c \in Content : DropRow(p, c)
  BY <1>11 DEF DropRow
<1>12. CASE DropPoints(p)
  BY <1>12 DEF DropPoints
<1>13. CASE \E c \in Content : MarkDeparted(p, c)
  BY <1>13 DEF MarkDeparted
<1>14. CASE EndMark(p)
  BY <1>14 DEF EndMark
<1>15. CASE \E c \in Content : ReapPoints(p, c)
  BY <1>15 DEF ReapPoints
<1>16. CASE ReapRow(p)
  BY <1>16 DEF ReapRow
<1>17. CASE EndIncremental(p)
  BY <1>17 DEF EndIncremental
<1>18. CASE ReplaceAll(p)
  BY <1>18 DEF ReplaceAll
<1>19. CASE DropLegacy(p)
  BY <1>19 DEF DropLegacy, AtSwitch
<1>20. CASE CreateAlias(p)
  BY <1>20 DEF CreateAlias
<1>21. CASE SwitchAlias(p)
  BY <1>21 DEF SwitchAlias, AtSwitch
<1>22. CASE DropOld(p)
  BY <1>22 DEF DropOld
<1> QED BY <1>2, <1>3, <1>4, <1>5, <1>6, <1>7, <1>8, <1>9, <1>10, <1>11, <1>12,
           <1>13, <1>14, <1>15, <1>16, <1>17, <1>18, <1>19, <1>20, <1>21, <1>22 DEF WorkStep

LEMMA SteadyWork ==
    ASSUME IInv, NEW p \in Proc, PassSteady(p), WorkStep(p) PROVE PassSteady(p)'
<1>0. /\ pass \in [Proc -> PassState] /\ pass[p] \in PassState
      /\ TypeOK /\ PhaseOK /\ disk \in [Path -> Content \cup {NoFile}]
      /\ NoFile \notin Content /\ NoPath \notin Path
  BY Constants DEF IInv, TypeOK
<1>1. disk' = disk /\ steady' = steady /\ Files' = Files /\ SteadyContent' = SteadyContent
  BY <1>0, WorkFrame DEF Files, SteadyContent
<1>2. CASE \E f \in Path : HashNext(p, f)
  <2>1. PICK f \in Path : HashNext(p, f)
    BY <1>2
  <2>2. /\ pass[p].pc = "scan" /\ pass'[p].pc = "scan"
        /\ pass'[p].listing = pass[p].listing \ {f}
        /\ pass'[p].scan = [c \in Content |->
                              IF c = disk[f] THEN f ELSE pass[p].scan[c]]
    BY <1>0, <2>1 DEF HashNext, NextListed, Local, PassState
  <2>3. Scanned(p) \subseteq Scanned(p)'
    BY <1>0, <2>2 DEF Scanned
  <2>4. f \in Files => disk[f] \in Scanned(p)'
    BY <1>0, <2>2 DEF Scanned, Files
  <2>5. \A g \in steady \cap Files : g \in pass[p].listing \/ disk[g] \in Scanned(p)
    BY <2>2 DEF PassSteady
  <2>6. \A g \in steady \cap Files : g \in pass'[p].listing \/ disk[g] \in Scanned(p)'
    BY <2>2, <2>3, <2>4, <2>5
  <2> QED BY <1>1, <2>2, <2>6 DEF PassSteady
<1>3. CASE /\ pass[p].pc = "scan" /\ pass[p].listing = {}
           /\ pass'[p].pc = "add" /\ pass'[p].scan = pass[p].scan
  <2>1. Scanned(p)' = Scanned(p)
    BY <1>3 DEF Scanned
  <2>2. SteadyContent \subseteq Scanned(p)
    BY <1>3 DEF PassSteady, SteadyContent
  <2> QED BY <1>1, <1>3, <2>1, <2>2 DEF PassSteady
<1>4. CASE /\ pass[p].pc \notin {"idle", "scan"} /\ pass'[p].pc \notin {"idle", "scan"}
           /\ pass'[p].scan = pass[p].scan
  <2>1. Scanned(p)' = Scanned(p)
    BY <1>4 DEF Scanned
  <2> QED BY <1>1, <1>4, <2>1 DEF PassSteady
<1> QED BY <1>0, <1>2, <1>3, <1>4, ScanFrame

(* Whatever the tree does to a path, the path no longer stands still.      *)
LEMMA SteadyFiles ==
    ASSUME TypeOK, Environment
    PROVE  /\ steady' \subseteq steady
           /\ \A f \in steady' : disk'[f] = disk[f]
<1>0. disk \in [Path -> Content \cup {NoFile}] /\ steady \subseteq Path
  BY DEF TypeOK
<1>1. ASSUME NEW f \in Path, NEW c \in Content, WriteFile(f, c)
      PROVE  steady' \subseteq steady /\ \A g \in steady' : disk'[g] = disk[g]
  BY <1>0, <1>1 DEF WriteFile, Edit
<1>2. ASSUME NEW f \in Path, RemoveFile(f)
      PROVE  steady' \subseteq steady /\ \A g \in steady' : disk'[g] = disk[g]
  BY <1>0, <1>2 DEF RemoveFile, Edit
<1>3. ASSUME NEW f \in Path, NEW g \in Path, RenameFile(f, g)
      PROVE  steady' \subseteq steady /\ \A h \in steady' : disk'[h] = disk[h]
  BY <1>0, <1>3 DEF RenameFile, Edit
<1>4. CASE Tick
  BY <1>4 DEF Tick
<1> QED BY <1>1, <1>2, <1>3, <1>4 DEF Environment

LEMMA SteadyEnvironment ==
    ASSUME TypeOK, Environment, NEW q \in Proc, PassSteady(q) PROVE PassSteady(q)'
<1>0. steady \subseteq Path
  BY DEF TypeOK
<1>1. /\ pass'[q].pc = pass[q].pc /\ pass'[q].listing = pass[q].listing
      /\ pass'[q].scan = pass[q].scan
  BY EnvironmentKeeps
<1>2. Scanned(q)' = Scanned(q)
  BY <1>1 DEF Scanned
<1>3. steady' \subseteq steady /\ \A f \in steady' : disk'[f] = disk[f]
  BY SteadyFiles
<1>4. \A f \in steady' \cap Files' : f \in steady \cap Files /\ disk'[f] = disk[f]
  BY <1>0, <1>3 DEF Files
<1>5. SteadyContent' \subseteq SteadyContent
  BY <1>4 DEF SteadyContent
<1> QED BY <1>1, <1>2, <1>4, <1>5 DEF PassSteady

LEMMA SteadyBegin ==
    ASSUME TypeOK, NEW p \in Proc, BeginStep(p) PROVE PassSteady(p)'
<1>1. pass \in [Proc -> PassState] /\ disk' = disk
  BY DEF TypeOK, BeginStep, BeginIncremental, BeginRebuild, tree
<1>2. pass'[p].pc = "scan" /\ pass'[p].listing = Files
  <2>1. CASE BeginIncremental(p)
    BY <1>1, <2>1 DEF BeginIncremental, Local, Blank
  <2>2. ASSUME NEW k \in Collection, BeginRebuild(p, k)
        PROVE  pass'[p].pc = "scan" /\ pass'[p].listing = Files
    BY <1>1, <2>2 DEF BeginRebuild, Local, Blank
  <2> QED BY <2>1, <2>2 DEF BeginStep
<1>3. Files' = Files
  BY <1>1 DEF Files
<1> QED BY <1>2, <1>3 DEF PassSteady

LEMMA CompareWork ==
    ASSUME IInv, StoreOK, ContentOK, NEW p \in Proc, PassIncremental(p), WorkStep(p)
    PROVE  PassIncremental(p)'
<1> DEFINE s == pass[p]
           t == pass'[p]
<1>0. /\ pass \in [Proc -> PassState] /\ s \in PassState /\ manifest \in [Content -> Row]
      /\ TypeOK /\ PhaseOK /\ PassDb(p) /\ PassStore(p) /\ PassPhase(p) /\ AliasSafe
      /\ NoPath \notin Path /\ NotDeparted \notin 0 .. MaxLag
  BY Constants DEF IInv, TypeOK, ContentOK, PhaseOK, StoreOK, NotDeparted
<1>b. t.mode = s.mode
  BY <1>0, WorkFrame
<1> SUFFICES ASSUME s.mode # "rebuild" PROVE PassIncremental(p)'
  BY <1>b DEF PassIncremental
<1>i. PassIncremental(p)
  OBVIOUS
<1>1. CASE \E f \in Path : HashNext(p, f)
  <2>1. t.pc = "scan"
    BY <1>0, <1>1 DEF HashNext, NextListed, Local, PassState
  <2> QED BY <2>1 DEF PassIncremental, Comparing, Pruning
<1>2. CASE ReadManifest(p)
  <2>1. /\ t.pc = "add" /\ t.db = manifest /\ manifest' = manifest
        /\ t.todo = Scanned(p) \ Recorded(manifest) /\ t.scan = s.scan
    BY <1>0, <1>2 DEF ReadManifest, Local, PassState
  <2>2. Scanned(p)' = Scanned(p)
    BY <2>1 DEF Scanned
  <2> QED BY <2>1, <2>2 DEF PassIncremental, Comparing, Pruning
(* Steps on the way to the end of adding that leave the manifest alone.    *)
<1>c. ASSUME s.pc \in {"add", "ingest"}, t.pc \in {"add", "ingest"}, t.db = s.db,
             t.todo = s.todo, t.scan = s.scan, manifest' = manifest
      PROVE  PassIncremental(p)'
  <2>1. Scanned(p)' = Scanned(p) /\ \A c \in Content : Stays(c)' <=> Stays(c)
    BY <1>c DEF Scanned, Stays, Recorded
  <2>2. Scanned(p) \subseteq Content
    BY DEF Scanned
  <2> QED BY <1>c, <1>i, <2>1, <2>2 DEF PassIncremental, Comparing, Pruning
<1>3. CASE \E c \in Content : OpenFile(p, c)
  <2>1. /\ s.pc = "add" /\ t.pc = "ingest" /\ t.db = s.db /\ t.todo = s.todo
        /\ t.scan = s.scan /\ manifest' = manifest
    BY <1>0, <1>3 DEF OpenFile, Local, PassState
  <2> QED BY <1>c, <2>1
<1>4. CASE UpsertBatch(p)
  <2>1. /\ s.pc = "ingest" /\ t.pc = "ingest" /\ t.db = s.db /\ t.todo = s.todo
        /\ t.scan = s.scan /\ manifest' = manifest
    BY <1>0, <1>4, UpsertBatchDoes
  <2> QED BY <1>c, <2>1
<1>5. CASE RecordRow(p)
  <2>1. PICK row \in Row : /\ manifest' = [manifest EXCEPT ![s.cur] = row]
                           /\ row.path = s.scan[s.cur] /\ row.departed = NotDeparted
    BY <1>0, <1>5, RecordRowDoes
  <2>2. /\ s.pc = "ingest" /\ t.pc = "add" /\ t.db = s.db /\ t.todo = s.todo \ {s.cur}
        /\ t.scan = s.scan
    BY <1>0, <1>5, RecordRowDoes
  <2>3. s.cur \in Scanned(p) /\ s.cur \in Content /\ s.scan[s.cur] \in Path
    BY <1>0, <2>2, AtHandScanned
  <2>a. PICK e \in Scanned(p) : e = s.cur /\ e \in Content
    BY <2>3
  <2>4. /\ \A c \in Content : c # e => manifest'[c] = manifest[c]
        /\ manifest'[e].path # NoPath /\ manifest'[e].departed = NotDeparted
    BY <1>0, <2>1, <2>3, <2>a
  <2>5. Recorded(manifest') = Recorded(manifest) \cup {e}
    BY <1>0, <2>a, <2>4 DEF Recorded
  <2>6. /\ \A c \in Recorded(s.db) :
             /\ c \in Recorded(manifest')
             /\ s.db[c].departed = NotDeparted => manifest'[c].departed = NotDeparted
        /\ Recorded(manifest') \subseteq Recorded(s.db) \cup Scanned(p)
    BY <1>i, <2>2, <2>a, <2>4, <2>5 DEF PassIncremental, Comparing, Recorded
  <2>7. Stays(e)' /\ \A c \in Scanned(p) : Stays(c) => Stays(c)'
    BY <2>4, <2>5 DEF Stays, Scanned
  <2>8. \A c \in Scanned(p) : Stays(c)' \/ c \in Recorded(s.db) \/ c \in t.todo
    BY <1>i, <2>2, <2>a, <2>7 DEF PassIncremental, Comparing
  <2>9. Scanned(p)' = Scanned(p)
    BY <2>2 DEF Scanned
  <2> QED BY <2>2, <2>6, <2>8, <2>9 DEF PassIncremental, Comparing, Pruning
<1>6. CASE EndAdd(p)
  <2>1. /\ s.pc = "add" /\ t.pc = "reconcile" /\ t.db = s.db /\ t.scan = s.scan
        /\ s.todo = {} /\ t.todo = Scanned(p) \cap Recorded(s.db) /\ manifest' = manifest
    BY <1>0, <1>6 DEF EndAdd, AllAdded, Local, PassState
  <2>2. Scanned(p)' = Scanned(p) /\ \A c \in Content : Stays(c)' <=> Stays(c)
    BY <2>1 DEF Scanned, Stays, Recorded
  <2>3. Scanned(p) \subseteq Content
    BY DEF Scanned
  <2> QED BY <1>i, <2>1, <2>2, <2>3 DEF PassIncremental, Comparing, Pruning
<1>7. CASE \E c \in Content : Reconcile(p, c)
  <2>1. PICK c \in Content : Reconcile(p, c)
    BY <1>7
  <2>2. /\ s.pc = "reconcile" /\ c \in s.todo /\ t.db = s.db /\ t.scan = s.scan
        /\ \/ t.pc = "reconcile" /\ t.todo = s.todo \ {c}
           \/ t.pc = "rename" /\ t.todo = s.todo /\ t.cur = c
    BY <1>0, <2>1 DEF Reconcile, Local, PassState
  <2>3. /\ \A d \in Content : manifest'[d].path = manifest[d].path
        /\ \A d \in Content : d # c => manifest'[d] = manifest[d]
        /\ \/ manifest'[c].departed = NotDeparted
           \/ s.db[c].departed = NotDeparted /\ manifest' = manifest
    BY <1>0, <2>1 DEF Reconcile, Returned, Row
  <2>4. c \in Recorded(s.db)
    BY <1>0, <2>2 DEF PassDb, Comparing
  <2>5. manifest'[c].departed = NotDeparted
    BY <1>i, <2>2, <2>3, <2>4 DEF PassIncremental, Comparing
  <2>6. Recorded(manifest') = Recorded(manifest)
    BY <2>3 DEF Recorded
  <2>7. Stays(c)'
    BY <1>i, <2>2, <2>4, <2>5, <2>6 DEF Stays, PassIncremental, Comparing
  <2>8. \A d \in Content : Stays(d) => Stays(d)'
    BY <2>3, <2>6, <2>7 DEF Stays
  <2>9. Scanned(p)' = Scanned(p) /\ Scanned(p) \subseteq Content
    BY <2>2 DEF Scanned
  <2>10. /\ \A d \in Recorded(s.db) :
              /\ d \in Recorded(manifest')
              /\ s.db[d].departed = NotDeparted => manifest'[d].departed = NotDeparted
         /\ Recorded(manifest') \subseteq Recorded(s.db) \cup Scanned(p)
    BY <1>i, <2>2, <2>3, <2>5, <2>6 DEF PassIncremental, Comparing, Recorded
  <2>11. \A d \in Scanned(p) : Stays(d)' \/ d \in t.todo
    BY <1>i, <2>2, <2>7, <2>8, <2>9 DEF PassIncremental
  <2>12. t.pc \in {"reconcile", "rename"} /\ (t.pc = "rename" => t.cur = c)
    BY <2>2
  <2> QED BY <2>2, <2>7, <2>9, <2>10, <2>11, <2>12 DEF PassIncremental, Comparing, Pruning
<1>8. CASE RefreshName(p)
  <2>1. /\ s.pc = "rename" /\ t.pc = "repath" /\ t.db = s.db /\ t.todo = s.todo
        /\ t.scan = s.scan /\ t.cur = s.cur /\ manifest' = manifest
    BY <1>0, <1>8, RefreshNameDoes
  <2>2. Scanned(p)' = Scanned(p) /\ \A c : Stays(c)' <=> Stays(c)
    BY <2>1 DEF Scanned, Stays, Recorded
  <2> QED BY <1>i, <2>1, <2>2 DEF PassIncremental, Comparing, Pruning
<1>9. CASE SetPath(p)
  <2>1. /\ s.pc = "repath" /\ t.pc = "reconcile" /\ t.db = s.db /\ t.scan = s.scan
        /\ t.todo = s.todo \ {s.cur}
        /\ manifest' = [manifest EXCEPT ![s.cur].path = s.scan[s.cur]]
    BY <1>0, <1>9 DEF SetPath, Local, PassState
  <2>2. s.cur \in Content /\ s.scan[s.cur] \in Path /\ Stays(s.cur)
    BY <1>0, <1>i, <2>1, AtHandScanned DEF PassIncremental
  <2>3. \A c \in Content : /\ c # s.cur => manifest'[c] = manifest[c]
                           /\ manifest'[c].departed = manifest[c].departed
    BY <1>0, <2>1 DEF Row
  <2>4. Recorded(manifest') = Recorded(manifest)
    <3>1. manifest'[s.cur].path = s.scan[s.cur] /\ manifest[s.cur].path # NoPath
      BY <1>0, <2>1, <2>2 DEF Row, Stays, Recorded
    <3> QED BY <1>0, <2>2, <2>3, <3>1 DEF Recorded
  <2>5. \A c \in Content : Stays(c)' <=> Stays(c)
    BY <2>3, <2>4 DEF Stays
  <2>6. Scanned(p)' = Scanned(p) /\ Scanned(p) \subseteq Content
        /\ Recorded(s.db) \subseteq Content
    BY <2>1 DEF Scanned, Recorded
  <2>7. /\ \A c \in Recorded(s.db) :
             /\ c \in Recorded(manifest')
             /\ s.db[c].departed = NotDeparted => manifest'[c].departed = NotDeparted
        /\ Recorded(manifest') \subseteq Recorded(s.db) \cup Scanned(p)
    BY <1>i, <2>1, <2>3, <2>4, <2>6 DEF PassIncremental, Comparing
  <2>8. \A c \in Scanned(p) : Stays(c)' \/ c \in t.todo
    BY <1>i, <2>1, <2>2, <2>5, <2>6 DEF PassIncremental
  <2> QED BY <2>1, <2>6, <2>7, <2>8 DEF PassIncremental, Comparing, Pruning
<1>10. CASE EndReconcile(p)
  <2>1. /\ s.pc = "reconcile" /\ t.pc = (IF s.mode = "watch" THEN "mark" ELSE "prune")
        /\ t.scan = s.scan /\ s.todo = {} /\ t.todo = Recorded(s.db) \ Scanned(p)
        /\ manifest' = manifest
    BY <1>0, <1>10 DEF EndReconcile, Local, PassState
  <2>2. Scanned(p)' = Scanned(p) /\ \A c : Stays(c)' <=> Stays(c)
    BY <2>1 DEF Scanned, Stays, Recorded
  <2> QED BY <1>i, <1>b, <2>1, <2>2 DEF PassIncremental, Comparing, Pruning
(* Rows go of what was not scanned, and stay otherwise.                    *)
<1>d. ASSUME s.pc \in Pruning, t.pc \in Pruning \ {"done"}, t.scan = s.scan,
             t.todo \cap Scanned(p) = {},
             \A c \in Scanned(p) : Stays(c) => Stays(c)',
             s.mode = "manual" /\ t.pc \in {"prune", "drop"} =>
               Recorded(manifest') \subseteq Scanned(p) \cup t.todo
      PROVE  PassIncremental(p)'
  <2>1. Scanned(p)' = Scanned(p)
    BY <1>d DEF Scanned
  <2>2. \A c \in Scanned(p) : Stays(c)'
    BY <1>d, <1>i DEF PassIncremental
  <2>3. t.pc \notin Comparing /\ t.pc \notin {"reconcile", "rename", "repath", "done"}
    BY <1>d DEF Pruning, Comparing
  <2> QED BY <1>b, <1>d, <2>1, <2>2, <2>3 DEF PassIncremental
<1>e. s.pc \in Pruning => s.todo \cap Scanned(p) = {} /\ Scanned(p) \subseteq Content
  BY <1>i DEF PassIncremental, Scanned
<1>11. CASE \E c \in Content : DropRow(p, c)
  <2>1. PICK c \in Content : DropRow(p, c)
    BY <1>11
  <2>2. /\ s.pc = "prune" /\ c \in s.todo /\ t.pc = "drop" /\ t.scan = s.scan
        /\ t.todo = s.todo \ {c} /\ manifest' = [manifest EXCEPT ![c] = NoRow]
    BY <1>0, <2>1 DEF DropRow, Local, PassState
  <2>3. c \notin Scanned(p) /\ Scanned(p) \subseteq Content
    BY <1>e, <2>2 DEF Pruning
  <2>4. Recorded(manifest') = Recorded(manifest) \ {c}
    BY <1>0, <2>2 DEF Recorded, NoRow
  <2>5. \A d \in Scanned(p) : Stays(d) => Stays(d)'
    BY <1>0, <2>2, <2>3, <2>4 DEF Stays
  <2>6. s.mode = "manual" => Recorded(manifest') \subseteq Scanned(p) \cup t.todo
    BY <1>i, <2>2, <2>4 DEF PassIncremental
  <2> QED BY <1>d, <1>e, <2>2, <2>5, <2>6 DEF Pruning
<1>12. CASE DropPoints(p)
  <2>1. /\ s.pc = "drop" /\ t.pc = "prune" /\ t.scan = s.scan /\ t.todo = s.todo
        /\ manifest' = manifest
    BY <1>0, <1>12 DEF DropPoints, Local, PassState
  <2>2. \A c : Stays(c)' <=> Stays(c)
    BY <2>1 DEF Stays, Recorded
  <2>3. s.mode = "manual" => Recorded(manifest') \subseteq Scanned(p) \cup t.todo
    BY <1>i, <2>1 DEF PassIncremental
  <2> QED BY <1>d, <1>e, <2>1, <2>2, <2>3 DEF Pruning
<1>13. CASE \E c \in Content : MarkDeparted(p, c)
  <2>1. PICK c \in Content : MarkDeparted(p, c)
    BY <1>13
  <2>2. /\ s.pc = "mark" /\ c \in s.todo /\ t.pc = "mark" /\ t.scan = s.scan
        /\ t.todo = s.todo \ {c}
    BY <1>0, <2>1 DEF MarkDeparted, Local, PassState
  <2>3. \A d \in Content : /\ manifest'[d].path = manifest[d].path
                           /\ d # c => manifest'[d] = manifest[d]
    BY <1>0, <2>1 DEF MarkDeparted, Row
  <2>4. c \notin Scanned(p) /\ Scanned(p) \subseteq Content
    BY <1>e, <2>2 DEF Pruning
  <2>5. Recorded(manifest') = Recorded(manifest)
    BY <2>3 DEF Recorded
  <2>6. \A d \in Scanned(p) : Stays(d) => Stays(d)'
    BY <2>3, <2>4, <2>5 DEF Stays
  <2> QED BY <1>d, <1>e, <2>2, <2>6 DEF Pruning
<1>14. CASE EndMark(p)
  <2>1. /\ s.pc = "mark" /\ t.pc = "reap" /\ t.scan = s.scan /\ t.todo = DepartedDue(p)
        /\ manifest' = manifest
    BY <1>0, <1>14 DEF EndMark, Local, PassState
  <2>2. \A c : Stays(c)' <=> Stays(c)
    BY <2>1 DEF Stays, Recorded
  <2>3. DepartedDue(p) \cap Scanned(p) = {}
    BY <1>i, <2>1 DEF PassIncremental, DepartedDue, Stays, Pruning
  <2> QED BY <1>d, <2>1, <2>2, <2>3 DEF Pruning
<1>15. CASE \E c \in Content : ReapPoints(p, c)
  <2>1. /\ s.pc = "reap" /\ t.pc = "unrecord" /\ t.scan = s.scan /\ t.todo = s.todo
        /\ manifest' = manifest
    BY <1>0, <1>15 DEF ReapPoints, Local, PassState
  <2>2. \A c : Stays(c)' <=> Stays(c)
    BY <2>1 DEF Stays, Recorded
  <2> QED BY <1>d, <1>e, <2>1, <2>2 DEF Pruning
<1>16. CASE ReapRow(p)
  <2>1. /\ s.pc = "unrecord" /\ t.pc = "reap" /\ t.scan = s.scan
        /\ t.todo = s.todo \ {s.cur} /\ manifest' = [manifest EXCEPT ![s.cur] = NoRow]
    BY <1>0, <1>16 DEF ReapRow, Local, PassState
  <2>2. s.cur \notin Scanned(p)
    BY <1>0, <1>e, <2>1 DEF PassPhase, Pruning
  <2>3. \A c \in Scanned(p) : manifest'[c] = manifest[c] /\ c \in Content
    BY <1>0, <2>1, <2>2 DEF Scanned
  <2>4. \A c \in Scanned(p) : Stays(c) => Stays(c)'
    BY <2>3 DEF Stays, Recorded
  <2> QED BY <1>d, <1>e, <2>1, <2>4 DEF Pruning
<1>17. CASE EndIncremental(p)
  <2>1. /\ s.pc \in {"prune", "reap"} /\ t.pc = "done" /\ t.scan = s.scan
        /\ s.todo = {} /\ t.todo = {} /\ manifest' = manifest
    BY <1>0, <1>17 DEF EndIncremental, Local, PassState
  <2>2. Scanned(p)' = Scanned(p) /\ \A c : Stays(c)' <=> Stays(c)
    BY <2>1 DEF Scanned, Stays, Recorded
  <2>3. s.mode = "manual" => s.pc = "prune"
    BY <1>0, <2>1 DEF PassStore
  <2>4. /\ \A c \in Scanned(p) : Stays(c)
        /\ s.mode = "manual" => Recorded(manifest) \subseteq Scanned(p)
    BY <1>i, <2>1, <2>3 DEF PassIncremental, Pruning
  <2> QED BY <1>b, <2>1, <2>2, <2>4 DEF PassIncremental, Comparing, Pruning
<1> QED BY <1>0, <1>1, <1>2, <1>3, <1>4, <1>5, <1>6, <1>7, <1>8, <1>9, <1>10, <1>11,
           <1>12, <1>13, <1>14, <1>15, <1>16, <1>17, IncrementalWork

LEMMA RebuiltWork ==
    ASSUME IInv, StoreOK, NEW p \in Proc, PassRebuilt(p), WorkStep(p)
    PROVE  PassRebuilt(p)'
<1> DEFINE s == pass[p]
           t == pass'[p]
<1>0. /\ pass \in [Proc -> PassState] /\ s \in PassState /\ manifest \in [Content -> Row]
      /\ TypeOK /\ PhaseOK
  BY DEF IInv, TypeOK
<1>b. t.mode = s.mode
  BY <1>0, WorkFrame
<1> SUFFICES ASSUME s.mode = "rebuild" PROVE PassRebuilt(p)'
  BY <1>b DEF PassRebuilt
<1>c. ASSUME s.pc \in Adding, t.pc \in Adding, t.rows = s.rows PROVE PassRebuilt(p)'
  BY <1>c DEF PassRebuilt, Adding, Replaced
<1>d. ASSUME s.pc \in Replaced, t.pc \in Replaced, manifest' = manifest PROVE PassRebuilt(p)'
  BY <1>d DEF PassRebuilt, Adding, Replaced
<1>1. CASE \E f \in Path : HashNext(p, f)
  <2>1. s.pc = "scan" /\ t.pc = "scan" /\ t.rows = s.rows
    BY <1>0, <1>1 DEF HashNext, NextListed, Local, PassState
  <2> QED BY <1>c, <2>1 DEF Adding
<1>2. CASE ReadManifest(p)
  <2>1. s.pc = "scan" /\ t.pc = "add" /\ t.rows = s.rows
    BY <1>0, <1>2 DEF ReadManifest, Local, PassState
  <2> QED BY <1>c, <2>1 DEF Adding
<1>3. CASE \E c \in Content : OpenFile(p, c)
  <2>1. s.pc = "add" /\ t.pc = "ingest" /\ t.rows = s.rows
    BY <1>0, <1>3 DEF OpenFile, Local, PassState
  <2> QED BY <1>c, <2>1 DEF Adding
<1>4. CASE UpsertBatch(p)
  <2>1. s.pc = "ingest" /\ t.pc = "ingest" /\ t.rows = s.rows
    BY <1>0, <1>4, UpsertBatchDoes
  <2> QED BY <1>c, <2>1 DEF Adding
<1>5. CASE RecordRow(p)
  <2>1. PICK row \in Row : t.rows = [s.rows EXCEPT ![s.cur] = row]
                           /\ row.departed = NotDeparted
    BY <1>0, <1>5, RecordRowDoes
  <2>2. s.pc = "ingest" /\ t.pc = "add" /\ s.rows \in [Content -> Row]
    BY <1>0, <1>5, RecordRowDoes DEF PassState
  <2>3. \A c \in Content : t.rows[c].departed = NotDeparted
    BY <2>1, <2>2 DEF PassRebuilt, Adding
  <2> QED BY <2>2, <2>3 DEF PassRebuilt, Replaced
<1>6. CASE ReplaceAll(p)
  <2>1. s.pc = "add" /\ t.pc = "switch" /\ manifest' = s.rows
    BY <1>0, <1>6 DEF ReplaceAll, Replacement, Local, PassState
  <2> QED BY <2>1 DEF PassRebuilt, Adding
<1>7. CASE DropLegacy(p)
  <2>1. s.pc = "switch" /\ t.pc = "migrate" /\ manifest' = manifest
    BY <1>0, <1>7 DEF DropLegacy, AtSwitch, Local, PassState
  <2> QED BY <1>d, <2>1 DEF Replaced
<1>8. CASE CreateAlias(p)
  <2>1. s.pc = "migrate" /\ t.pc = "done" /\ manifest' = manifest
    BY <1>0, <1>8 DEF CreateAlias, Local, PassState
  <2> QED BY <1>d, <2>1 DEF Replaced
<1>9. CASE SwitchAlias(p)
  <2>1. s.pc = "switch" /\ t.pc \in {"retire", "done"} /\ manifest' = manifest
    BY <1>0, <1>9 DEF SwitchAlias, AtSwitch, Local, PassState
  <2> QED BY <1>d, <2>1 DEF Replaced
<1>10. CASE DropOld(p)
  <2>1. s.pc = "retire" /\ t.pc = "done" /\ manifest' = manifest
    BY <1>0, <1>10 DEF DropOld, Local, PassState
  <2> QED BY <1>d, <2>1 DEF Replaced
<1> QED BY <1>0, <1>1, <1>2, <1>3, <1>4, <1>5, <1>6, <1>7, <1>8, <1>9, <1>10, RebuildWork

(* Time touches neither what is recorded nor what is marked.               *)
LEMMA EnvironmentRows ==
    ASSUME TypeOK, Environment
    PROVE  /\ \A c \in Content :
                /\ manifest'[c].uuids = manifest[c].uuids
                /\ manifest'[c].path = manifest[c].path
                /\ manifest'[c].departed = NotDeparted <=> manifest[c].departed = NotDeparted
           /\ Recorded(manifest') = Recorded(manifest)
           /\ \A c : Stays(c)' <=> Stays(c)
<1>1. \A c \in Content : /\ manifest'[c].uuids = manifest[c].uuids
                         /\ manifest'[c].path = manifest[c].path
  BY EnvironmentLocal
<1>2. Recorded(manifest') = Recorded(manifest)
  BY <1>1 DEF Recorded
<1>3. ASSUME NEW c \in Content
      PROVE  manifest'[c].departed = NotDeparted <=> manifest[c].departed = NotDeparted
  <2>1. CASE Tick
    <3>1. manifest[c] \in Row /\ AgeCap \in Nat
      BY Constants DEF TypeOK
    <3>2. \A age \in Age : Older(age) # NotDeparted
      BY <3>1 DEF Age, Older, NotDeparted
    <3>3. manifest'[c] = IF manifest[c].departed = NotDeparted THEN manifest[c]
                         ELSE [manifest[c] EXCEPT !.departed = Older(@)]
      BY <2>1 DEF Tick
    <3> QED BY <3>1, <3>2, <3>3 DEF Row
  <2>2. CASE ~ Tick
    BY <2>2 DEF Environment, WriteFile, RemoveFile, RenameFile, Edit
  <2> QED BY <2>1, <2>2
<1> QED BY <1>1, <1>2, <1>3 DEF Stays, Recorded

LEMMA CompareEnvironment ==
    ASSUME TypeOK, Environment, NEW q \in Proc, PassIncremental(q), PassRebuilt(q)
    PROVE  PassIncremental(q)' /\ PassRebuilt(q)'
<1>1. /\ pass'[q].pc = pass[q].pc /\ pass'[q].mode = pass[q].mode
      /\ pass'[q].scan = pass[q].scan /\ pass'[q].db = pass[q].db
      /\ pass'[q].todo = pass[q].todo /\ pass'[q].cur = pass[q].cur
      /\ pass'[q].rows = pass[q].rows
  BY EnvironmentKeeps
<1>2. Scanned(q)' = Scanned(q)
  BY <1>1 DEF Scanned
<1>3. /\ Recorded(manifest') = Recorded(manifest)
      /\ \A c \in Content :
           manifest'[c].departed = NotDeparted <=> manifest[c].departed = NotDeparted
      /\ \A c : Stays(c)' <=> Stays(c)
  BY EnvironmentRows
<1>4. Recorded(pass[q].db) \subseteq Content
  BY DEF Recorded
<1>5. PassIncremental(q)'
  <2>1. \A c : c = pass[q].cur => (Stays(c)' <=> Stays(c))
    BY <1>3
  <2> QED BY <1>1, <1>2, <1>3, <1>4, <2>1 DEF PassIncremental
<1>6. PassRebuilt(q)'
  BY <1>1, <1>3 DEF PassRebuilt
<1> QED BY <1>5, <1>6

LEMMA IdleSteady ==
    ASSUME NEW q \in Proc, pass'[q].pc = "idle"
    PROVE  PassSteady(q)' /\ PassIncremental(q)' /\ (pass'[q].mode # "rebuild" => PassRebuilt(q)')
BY DEF PassSteady, PassIncremental, PassRebuilt, Comparing, Pruning

LEMMA InitSteady == Init => SteadyOK
<1> SUFFICES ASSUME Init, NEW p \in Proc
             PROVE  PassSteady(p) /\ PassIncremental(p) /\ PassRebuilt(p)
  BY DEF SteadyOK
<1>1. pass[p].pc = "idle" /\ pass[p].mode = "watch"
  BY DEF Init, Blank
<1> QED BY <1>1 DEF PassSteady, PassIncremental, PassRebuilt, Comparing, Pruning

LEMMA SteadyStep ==
    ASSUME IndexInv, SteadyOK, [Next]_vars PROVE SteadyOK'
<1>0. /\ IInv /\ TypeOK /\ OneWriter /\ StoreOK /\ ContentOK /\ pass \in [Proc -> PassState]
      /\ \A q \in Proc : PassSteady(q) /\ PassIncremental(q) /\ PassRebuilt(q)
  BY DEF IndexInv, IInv, TypeOK, SteadyOK
<1>1. CASE UNCHANGED vars
  BY <1>0, <1>1 DEF vars, SteadyOK, PassSteady, PassIncremental, PassRebuilt, Scanned,
                    Files, SteadyContent, Stays, Recorded
<1>2. CASE Environment
  BY <1>0, <1>2, SteadyEnvironment, CompareEnvironment DEF SteadyOK
<1>3. ASSUME NEW q \in Proc, pass[q].pc = "idle", pass'[q] = pass[q]
      PROVE  PassSteady(q)' /\ PassIncremental(q)' /\ PassRebuilt(q)'
  BY <1>0, <1>3 DEF PassSteady, PassIncremental, PassRebuilt, Comparing, Pruning, StoreOK,
                    PassStore, Adding, Replaced
<1>4. ASSUME NEW p \in Proc, BeginStep(p)
      PROVE  PassSteady(p)' /\ PassIncremental(p)' /\ PassRebuilt(p)'
  <2>1. pass'[p].pc = "scan" /\ pass'[p].rows = NoRows
    BY <1>0, <1>4, BeginStepLocal
  <2>2. \A c \in Content : NoRows[c].departed = NotDeparted
    BY DEF NoRows, NoRow
  <2> QED BY <1>0, <1>4, <2>1, <2>2, SteadyBegin
          DEF PassIncremental, PassRebuilt, Comparing, Pruning, Replaced
<1>5. ASSUME NEW p \in Proc, EndStep(p)
      PROVE  PassSteady(p)' /\ PassIncremental(p)' /\ PassRebuilt(p)'
  <2>1. pass'[p].pc = "idle" /\ pass'[p].mode = "watch"
    BY <1>0, <1>5, EndStepLocal DEF Blank
  <2> QED BY <2>1, IdleSteady
<1>6. ASSUME NEW p \in Proc, BeginStep(p) \/ WorkStep(p) \/ EndStep(p),
             \A q \in Proc \ {p} : pass[q].pc = "idle" /\ pass'[q] = pass[q]
      PROVE  SteadyOK'
  <2>1. PassSteady(p)' /\ PassIncremental(p)' /\ PassRebuilt(p)'
    BY <1>0, <1>4, <1>5, <1>6, SteadyWork, CompareWork, RebuiltWork
  <2> QED BY <1>3, <1>6, <2>1 DEF SteadyOK
<1> QED BY <1>0, <1>1, <1>2, <1>6, OneActs

-----------------------------------------------------------------------------
(***************************************************************************)
(* What rows record answers queries, and nothing else does.                *)
(***************************************************************************)
(* Steps that leave the ids of rows, those behind the name and those at    *)
(* hand as they are.                                                       *)
LEMMA ServedKept ==
    ASSUME NEW p \in Proc, PassServed(p), LiveIds' = LiveIds, alias' = alias,
           \A c \in Content : manifest'[c].uuids = manifest[c].uuids,
           pass[p].pc \notin {"switch", "migrate", "unrecord"},
           pass'[p].pc # "unrecord",
           pass'[p].pc = "ingest" =>
             pass[p].pc = "ingest" \/ AtHand(p)' = {},
           AtHand(p)' = AtHand(p)
    PROVE  PassServed(p)'
<1>1. UuidsOf(manifest') = UuidsOf(manifest)
  BY SameUuids
<1>2. /\ \A c \in Content : manifest[c].uuids \subseteq LiveIds
      /\ alias # NoCollection => LiveIds \subseteq UuidsOf(manifest) \cup AtHand(p)
      /\ pass[p].pc = "ingest" => AtHand(p) \subseteq LiveIds
  BY DEF PassServed
<1> QED BY <1>1, <1>2 DEF PassServed

LEMMA LiveWithout ==
    ASSUME TypeOK, Live \in Collection, NEW ids,
           points' = [points EXCEPT ![Live] = Without(points[Live], ids)], alias' = alias
    PROVE  LiveIds' = LiveIds \ ids
<1>1. Live' = Live
  BY DEF Live
<1>2. points'[Live] = Without(points[Live], ids)
  BY DEF TypeOK
<1> QED BY <1>1, <1>2 DEF LiveIds, Ids, Without

LEMMA ServedByIncremental ==
    ASSUME IInv, StoreOK, RowsOK, ContentOK, aborts = 0,
           NEW p \in Proc, PassServed(p), WorkStep(p), pass[p].mode # "rebuild"
    PROVE  PassServed(p)'
<1> DEFINE s == pass[p]
           t == pass'[p]
<1>0. /\ pass \in [Proc -> PassState] /\ s \in PassState /\ manifest \in [Content -> Row]
      /\ points \in [Collection -> SUBSET Point]
      /\ TypeOK /\ PhaseOK /\ AliasSafe /\ PassDb(p) /\ PassRows(p) /\ PassUuids(p)
      /\ Bare(manifest) /\ PassPhase(p) /\ UuidsDisjoint
  BY DEF IInv, TypeOK, ContentOK, RowsOK, UuidsApart, PhaseOK
<1>m. t.mode = s.mode /\ t.mode # "rebuild"
  BY <1>0, WorkFrame
<1>p. s.pc # "idle" /\ t.pc # "idle"
  BY <1>0, WorkStepLocal DEF Keeps
<1>l. s.col = Live /\ Live \in Collection
  BY <1>0, <1>p DEF StoreOK, PassStore, TypeOK
<1>h. /\ AtHand(p) = IF s.pc \in {"ingest", "drop"} THEN s.ids ELSE {}
      /\ AtHand(p)' = IF t.pc \in {"ingest", "drop"} THEN t.ids ELSE {}
  BY <1>m DEF AtHand
<1>k. LiveIds' = LiveIds \/ alias' # alias \/ points' # points
  BY DEF LiveIds, Live
<1>c. ASSUME UNCHANGED <<points, alias>>,
             s.pc \notin {"drop", "unrecord"}, t.pc \notin {"drop", "unrecord"},
             s.pc \notin {"switch", "migrate"},
             s.pc = "ingest" <=> t.pc = "ingest", t.ids = s.ids,
             \A c \in Content : manifest'[c].uuids = manifest[c].uuids
      PROVE  PassServed(p)'
  BY <1>c, <1>h, <1>k, ServedKept
<1>1. CASE \E f \in Path : HashNext(p, f)
  BY <1>0, <1>1, <1>c DEF HashNext, NextListed, Local, PassState, store
<1>2. CASE ReadManifest(p)
  BY <1>0, <1>2, <1>c DEF ReadManifest, Local, PassState, store
<1>3. CASE \E c \in Content : OpenFile(p, c)
  <2>1. /\ s.pc = "add" /\ t.pc = "ingest" /\ t.ids = s.ids /\ s.ids = {}
        /\ manifest' = manifest /\ UNCHANGED <<points, alias>>
    BY <1>0, <1>3 DEF OpenFile, Local, PassState, PassRows, store
  <2> QED BY <1>h, <1>k, <2>1, ServedKept
<1>4. CASE UpsertBatch(p)
  <2>1. PICK pt \in Point : /\ t.ids = s.ids \cup {pt.id}
                            /\ points' = [points EXCEPT ![s.col] = @ \cup {pt}]
    BY <1>0, <1>4, UpsertBatchDoes
  <2>2. s.pc = "ingest" /\ t.pc = "ingest" /\ manifest' = manifest /\ alias' = alias
    BY <1>0, <1>4, UpsertBatchDoes
  <2>3. Live' = Live /\ points'[Live] = points[Live] \cup {pt}
    BY <1>0, <1>l, <2>1, <2>2 DEF Live
  <2>4. LiveIds' = LiveIds \cup {pt.id}
    BY <2>3, IdsOfAdded DEF LiveIds
  <2> QED BY <1>h, <2>1, <2>2, <2>4 DEF PassServed
<1>5. CASE RecordRow(p)
  <2>1. PICK row \in Row : /\ manifest' = [manifest EXCEPT ![s.cur] = row]
                           /\ row.uuids = s.ids
    BY <1>0, <1>5, RecordRowDoes
  <2>2. s.pc = "ingest" /\ t.pc = "add" /\ UNCHANGED store
    BY <1>0, <1>5, RecordRowDoes
  <2>3. s.cur \in Content /\ s.cur \in s.todo
    BY <1>0, <2>2, AtHandScanned
  <2>4. manifest[s.cur].uuids = {}
    BY <1>0, <2>2, <2>3 DEF PassDb, Comparing, Recorded, Bare
  <2>5. UuidsOf(manifest') = UuidsOf(manifest) \cup s.ids
    <3>1. UuidsOf([manifest EXCEPT ![s.cur] = row]) = UuidsOf(manifest) \cup row.uuids
      <4> HIDE DEF s
      <4> QED BY <1>0, <2>3, <2>4, AddedUuids
    <3> QED BY <2>1, <3>1
  <2>6. LiveIds' = LiveIds /\ alias' = alias
    BY <1>k, <2>2 DEF store
  <2>7. \A c \in Content : manifest'[c].uuids \subseteq LiveIds
    BY <1>0, <1>h, <2>1, <2>2, <2>3 DEF PassServed
  <2> QED BY <1>h, <2>2, <2>5, <2>6, <2>7 DEF PassServed
<1>6. CASE EndAdd(p)
  BY <1>0, <1>6, <1>c DEF EndAdd, Local, PassState, store
<1>7. CASE \E c \in Content : Reconcile(p, c)
  <2>1. /\ s.pc = "reconcile" /\ t.pc \in {"reconcile", "rename"} /\ t.ids = s.ids
        /\ UNCHANGED store
        /\ \A d \in Content : manifest'[d].uuids = manifest[d].uuids
    BY <1>0, <1>7 DEF Reconcile, Returned, Row, Local, PassState
  <2> QED BY <1>c, <2>1 DEF store
<1>8. CASE RefreshName(p)
  <2>1. s.pc = "rename" /\ t.pc = "repath" /\ manifest' = manifest /\ alias' = alias
    BY <1>0, <1>8, RefreshNameDoes
  <2>2. /\ \A qt \in points'[Live] : \E pt \in points[Live] : pt.id = qt.id
        /\ \A pt \in points[Live] : \E qt \in points'[Live] : pt.id = qt.id
    BY <1>0, <1>8, <1>l, RefreshPoints
  <2>3. LiveIds' = LiveIds
    BY <2>1, <2>2 DEF LiveIds, Ids, Live
  <2> QED BY <1>h, <2>1, <2>3, ServedKept
<1>9. CASE SetPath(p)
  <2>1. /\ s.pc = "repath" /\ t.pc = "reconcile" /\ t.ids = s.ids /\ UNCHANGED store
        /\ \A c \in Content : manifest'[c].uuids = manifest[c].uuids
    BY <1>0, <1>9 DEF SetPath, Row, Local, PassState
  <2> QED BY <1>c, <2>1 DEF store
<1>10. CASE EndReconcile(p)
  <2>1. /\ s.pc = "reconcile" /\ t.pc \in {"mark", "prune"} /\ t.ids = s.ids
        /\ UNCHANGED store /\ manifest' = manifest
    BY <1>0, <1>10 DEF EndReconcile, Local, PassState
  <2> QED BY <1>c, <2>1 DEF store
<1>11. CASE \E c \in Content : DropRow(p, c)
  <2>1. PICK c \in Content : DropRow(p, c)
    BY <1>11
  <2>2. /\ s.pc = "prune" /\ t.pc = "drop" /\ t.ids = manifest[c].uuids
        /\ manifest' = [manifest EXCEPT ![c] = NoRow] /\ UNCHANGED store
    BY <1>0, <2>1 DEF DropRow, RecordedUuids, Local, PassState
  <2>3. \A d \in Content : manifest'[d].uuids = IF d = c THEN {} ELSE manifest[d].uuids
    BY <1>0, <2>2 DEF NoRow
  <2>4. UuidsOf(manifest) \subseteq UuidsOf(manifest') \cup manifest[c].uuids
    BY <2>3 DEF UuidsOf
  <2>5. LiveIds' = LiveIds /\ alias' = alias
    BY <1>k, <2>2 DEF store
  <2> QED BY <1>h, <2>2, <2>3, <2>4, <2>5 DEF PassServed
<1>12. CASE DropPoints(p)
  <2>1. /\ s.pc = "drop" /\ t.pc = "prune" /\ manifest' = manifest /\ alias' = alias
        /\ points' = [points EXCEPT ![Live] = Without(points[Live], s.ids)]
    BY <1>0, <1>l, <1>12 DEF DropPoints, Local, PassState
  <2>2. LiveIds' = LiveIds \ s.ids
    BY <1>0, <1>l, <2>1, LiveWithout
  <2>3. \A c \in Content : manifest[c].uuids \cap s.ids = {}
    BY <1>0, <2>1, InUuidsOf DEF PassUuids
  <2> QED BY <1>h, <2>1, <2>2, <2>3 DEF PassServed
<1>13. CASE \E c \in Content : MarkDeparted(p, c)
  <2>1. /\ s.pc = "mark" /\ t.pc = "mark" /\ t.ids = s.ids /\ UNCHANGED store
        /\ \A d \in Content : manifest'[d].uuids = manifest[d].uuids
    BY <1>0, <1>13 DEF MarkDeparted, Row, Local, PassState
  <2> QED BY <1>c, <2>1 DEF store
<1>14. CASE EndMark(p)
  BY <1>0, <1>14, <1>c DEF EndMark, Local, PassState, store
<1>15. CASE \E c \in Content : ReapPoints(p, c)
  <2>1. PICK c \in Content : ReapPoints(p, c)
    BY <1>15
  <2>2. /\ s.pc = "reap" /\ t.pc = "unrecord" /\ t.cur = c /\ c \in s.todo
        /\ manifest' = manifest /\ alias' = alias
        /\ points' = [points EXCEPT ![Live] = Without(points[Live], s.db[c].uuids)]
    BY <1>0, <1>l, <2>1 DEF ReapPoints, Local, PassState
  <2>3. s.db[c].uuids = manifest[c].uuids
    BY <1>0, <2>2 DEF PassUuids
  <2>4. LiveIds' = LiveIds \ manifest[c].uuids
    BY <1>0, <1>l, <2>2, <2>3, LiveWithout
  <2>5. \A d \in Content \ {c} : manifest[d].uuids \cap manifest[c].uuids = {}
    BY <1>0 DEF UuidsDisjoint
  <2> QED BY <1>h, <2>2, <2>4, <2>5 DEF PassServed
<1>16. CASE ReapRow(p)
  <2>1. /\ s.pc = "unrecord" /\ t.pc = "reap" /\ UNCHANGED store
        /\ manifest' = [manifest EXCEPT ![s.cur] = NoRow]
    BY <1>0, <1>16 DEF ReapRow, Local, PassState
  <2>2. \A c \in Content : manifest'[c].uuids = IF c = s.cur THEN {} ELSE manifest[c].uuids
    BY <1>0, <2>1 DEF NoRow
  <2>3. s.cur \in Content
    BY <1>0, <2>1 DEF PassPhase, PassState
  <2>4. manifest[s.cur].uuids \cap LiveIds = {}
    BY <2>1 DEF PassServed
  <2>5. UuidsOf(manifest) \cap LiveIds \subseteq UuidsOf(manifest')
    BY <2>2, <2>3, <2>4 DEF UuidsOf
  <2>6. LiveIds' = LiveIds /\ alias' = alias
    BY <1>k, <2>1 DEF store
  <2> QED BY ZenonT(40), <1>h, <2>1, <2>2, <2>5, <2>6 DEF PassServed
<1>17. CASE EndIncremental(p)
  BY <1>0, <1>17, <1>c DEF EndIncremental, Local, PassState, store
<1> QED BY <1>0, <1>1, <1>2, <1>3, <1>4, <1>5, <1>6, <1>7, <1>8, <1>9, <1>10, <1>11,
           <1>12, <1>13, <1>14, <1>15, <1>16, <1>17, IncrementalWork

(* A rebuild's collection is not behind the name before the switch; then   *)
(* it holds what the manifest records.                                     *)
LEMMA ServedByRebuild ==
    ASSUME IndexInv, NEW p \in Proc, PassServed(p), WorkStep(p), pass[p].mode = "rebuild"
    PROVE  PassServed(p)'
<1> DEFINE s == pass[p]
           t == pass'[p]
<1>0. /\ pass \in [Proc -> PassState] /\ s \in PassState /\ manifest \in [Content -> Row]
      /\ points \in [Collection -> SUBSET Point]
      /\ IInv /\ StoreOK /\ TypeOK /\ PhaseOK /\ PassPoints(p) /\ PassAlias(p)
  BY DEF IndexInv, IInv, TypeOK, PointsOK, AliasSafe
<1>m. t.mode = "rebuild" /\ AtHand(p) = {} /\ AtHand(p)' = {}
  BY <1>0, WorkFrame DEF AtHand
<1>k. LiveIds' = LiveIds \/ alias' # alias \/ points' # points
  BY DEF LiveIds, Live
<1>c. ASSUME UNCHANGED <<points, alias, manifest>>,
             s.pc \notin {"unrecord", "switch", "migrate"}, t.pc # "unrecord"
      PROVE  PassServed(p)'
  BY <1>c, <1>m, <1>k, ServedKept
<1>d. ASSUME t.pc \in {"switch", "migrate"} PROVE PassServed(p)'
  BY <1>d DEF PassServed
<1>1. CASE \E f \in Path : HashNext(p, f)
  BY <1>0, <1>1, <1>c DEF HashNext, NextListed, Local, PassState, store
<1>2. CASE ReadManifest(p)
  BY <1>0, <1>2, <1>c DEF ReadManifest, Local, PassState, store
<1>3. CASE \E c \in Content : OpenFile(p, c)
  BY <1>0, <1>3, <1>c DEF OpenFile, Local, PassState, store
<1>4. CASE UpsertBatch(p)
  <2>1. PICK pt \in Point : points' = [points EXCEPT ![s.col] = @ \cup {pt}]
    BY <1>0, <1>4, UpsertBatchDoes
  <2>2. s.pc = "ingest" /\ t.pc = "ingest" /\ manifest' = manifest /\ alias' = alias
    BY <1>0, <1>4, UpsertBatchDoes
  <2>3. s.col # Live /\ Live' = Live
    BY <1>0, <2>2 DEF PassAlias, Live
  <2>4. points'[Live] = points[Live] \/ Live \notin Collection
    BY <1>0, <2>1, <2>3
  <2>5. Live \in Collection
    BY <1>0, Constants DEF Live, TypeOK
  <2>6. LiveIds' = LiveIds
    BY <2>3, <2>4, <2>5 DEF LiveIds
  <2> QED BY <1>m, <2>2, <2>6, ServedKept
<1>5. CASE RecordRow(p)
  <2>1. s.pc = "ingest" /\ t.pc = "add" /\ UNCHANGED store /\ manifest' = manifest
    BY <1>0, <1>5, RecordRowDoes
  <2> QED BY <1>c, <2>1 DEF store
<1>6. CASE ReplaceAll(p)
  <2>1. t.pc = "switch"
    BY <1>0, <1>6 DEF ReplaceAll, Local, PassState
  <2> QED BY <1>d, <2>1
<1>7. CASE DropLegacy(p)
  <2>1. t.pc = "migrate"
    BY <1>0, <1>7 DEF DropLegacy, Local, PassState
  <2> QED BY <1>d, <2>1
<1>8. CASE CreateAlias(p) \/ SwitchAlias(p)
  <2>1. /\ s.pc \in {"switch", "migrate"} /\ s.col \in Collection
        /\ alias' = s.col /\ UNCHANGED <<manifest, points>>
    BY <1>8, MovesTo
  <2>2. t.pc \in {"done", "retire"}
    <3>1. CASE CreateAlias(p)
      BY <1>0, <3>1 DEF CreateAlias, Local, PassState
    <3>2. CASE SwitchAlias(p)
      BY <1>0, <3>2 DEF SwitchAlias, Local, PassState
    <3> QED BY <1>8, <3>1, <3>2
  <2>3. LiveIds' = Ids(points[s.col])
    BY <2>1, Constants DEF LiveIds, Live
  <2>4. LiveIds' = UuidsOf(manifest)
    BY <1>0, <2>1, <2>3 DEF PassPoints, Holds
  <2>5. /\ UuidsOf(manifest') = UuidsOf(manifest)
        /\ \A c \in Content : manifest'[c].uuids \subseteq UuidsOf(manifest)
    BY <2>1 DEF UuidsOf
  <2> QED BY <1>m, <2>2, <2>4, <2>5 DEF PassServed
<1>9. CASE DropOld(p)
  <2>1. /\ s.pc = "retire" /\ t.pc = "done" /\ UNCHANGED <<manifest, alias>>
        /\ points' = [points EXCEPT ![s.col] = {}]
    BY <1>0, <1>9 DEF DropOld, Local, PassState
  <2>2. s.col # alias /\ alias # NoCollection /\ alias \in Collection
    BY <1>0, <2>1 DEF PassAlias, PassPoints, TypeOK
  <2>3. Live = alias /\ Live' = alias /\ points'[alias] = points[alias]
    BY <1>0, <2>1, <2>2 DEF Live
  <2>4. LiveIds' = LiveIds
    BY <2>3 DEF LiveIds
  <2> QED BY <1>m, <2>1, <2>4, ServedKept
<1> QED BY <1>0, <1>1, <1>2, <1>3, <1>4, <1>5, <1>6, <1>7, <1>8, <1>9, RebuildWork

LEMMA InitServed == Init => ServedOK
<1> SUFFICES ASSUME Init, NEW p \in Proc PROVE PassServed(p)
  BY DEF ServedOK
<1>1. pass[p].pc = "idle" /\ alias = NoCollection /\ manifest = NoRows
  BY DEF Init, Blank
<1>2. \A c \in Content : manifest[c].uuids = {}
  BY <1>1 DEF NoRows, NoRow
<1> QED BY <1>1, <1>2 DEF PassServed

(* A pass that ends before its end without being killed has nothing at     *)
(* hand.                                                                   *)
LEMMA ServedEnd ==
    ASSUME IndexInv, aborts' = 0, NEW p \in Proc, PassServed(p), EndStep(p),
           NEW q \in Proc
    PROVE  PassServed(q)'
<1>0. TypeOK /\ OneWriter /\ pass \in [Proc -> PassState] /\ aborts \in Nat /\ PassRows(p)
  BY Constants DEF IndexInv, IInv, TypeOK, RowsOK
<1>1. /\ pass[p].pc # "idle" /\ UNCHANGED <<tree, manifest, store>>
      /\ pass' = [pass EXCEPT ![p] = Blank]
  BY <1>0, EndStepLocal
<1>2. ~ Abort(p)
  BY <1>0 DEF Abort
<1>3. pass[p].pc \in {"scan", "add", "done"}
  BY <1>2 DEF EndStep, Release, HashVanished, NextListed, FileVanished
<1>4. pass'[q].pc = "idle"
  BY <1>0, <1>1, OthersIdle, BlankIsIdle
<1>5. LiveIds' = LiveIds /\ alias' = alias /\ manifest' = manifest
  BY <1>1 DEF LiveIds, Live, store
<1>6. AtHand(p) = {}
  BY <1>3 DEF AtHand
<1> QED BY <1>3, <1>4, <1>5, <1>6 DEF PassServed

LEMMA ServedStep ==
    ASSUME IndexInv, ServedOK, [Next]_vars PROVE ServedOK'
<1>0. /\ IInv /\ TypeOK /\ OneWriter /\ StoreOK /\ RowsOK /\ ContentOK
      /\ pass \in [Proc -> PassState] /\ Nobody \notin Proc /\ aborts \in Nat
  BY Constants DEF IndexInv, IInv, TypeOK
<1>1. CASE UNCHANGED vars
  BY <1>1 DEF vars, ServedOK, PassServed, AtHand, LiveIds, Live
<1>2. CASE Environment
  <2> SUFFICES ASSUME aborts' = 0, NEW q \in Proc, lock' \in {q, Nobody}
               PROVE  PassServed(q)'
    BY DEF ServedOK
  <2>1. /\ pass'[q].pc = pass[q].pc /\ pass'[q].mode = pass[q].mode
        /\ pass'[q].cur = pass[q].cur /\ pass'[q].ids = pass[q].ids
    BY <1>0, <1>2, EnvironmentKeeps
  <2>2. /\ UNCHANGED <<points, alias, lock>>
        /\ \A c \in Content : manifest'[c].uuids = manifest[c].uuids
    BY <1>0, <1>2, EnvironmentLocal
  <2>3. aborts' = aborts
    BY <1>2 DEF Environment, WriteFile, RemoveFile, RenameFile, Edit, Tick
  <2>4. PassServed(q)
    BY <2>2, <2>3 DEF ServedOK
  <2>5. LiveIds' = LiveIds /\ AtHand(q)' = AtHand(q)
    BY <2>1, <2>2 DEF LiveIds, Live, AtHand
  <2>6. UuidsOf(manifest') = UuidsOf(manifest)
    BY <2>2, SameUuids
  <2>7. CASE pass[q].pc = "unrecord"
    <3>1. pass[q].cur \in Content
      BY <1>0, <2>7 DEF IInv, PhaseOK, PassPhase, TypeOK, PassState
    <3> QED BY <2>1, <2>2, <2>4, <2>5, <2>6, <2>7, <3>1 DEF PassServed
  <2>8. CASE pass[q].pc # "unrecord"
    BY <2>1, <2>2, <2>4, <2>5, <2>6, <2>8 DEF PassServed
  <2> QED BY <2>7, <2>8
<1>3. ASSUME NEW p \in Proc, BeginStep(p) PROVE ServedOK'
  <2> SUFFICES ASSUME aborts' = 0, NEW q \in Proc, lock' \in {q, Nobody}
               PROVE  PassServed(q)'
    BY DEF ServedOK
  <2>1. /\ lock = Nobody /\ lock' = p /\ pass'[p].pc = "scan" /\ pass'[p].ids = {}
        /\ manifest' = manifest /\ pass[p].pc = "idle"
    BY <1>0, <1>3, BeginStepLocal
  <2>2. q = p
    BY <1>0, <2>1
  <2>3. UNCHANGED <<points, alias, aborts>>
    BY <1>3 DEF BeginStep, BeginIncremental, BeginRebuild, store
  <2>4. PassServed(p)
    BY <2>1, <2>3 DEF ServedOK
  <2>5. LiveIds' = LiveIds /\ AtHand(p) = {} /\ AtHand(p)' = {}
    BY <2>1, <2>3 DEF LiveIds, Live, AtHand
  <2> QED BY <2>1, <2>2, <2>3, <2>4, <2>5, ServedKept
<1>4. ASSUME NEW p \in Proc, WorkStep(p) PROVE ServedOK'
  <2> SUFFICES ASSUME aborts' = 0, NEW q \in Proc, lock' \in {q, Nobody}
               PROVE  PassServed(q)'
    BY DEF ServedOK
  <2>1. pass[p].pc # "idle" /\ lock' = lock /\ aborts' = aborts
    BY <1>0, <1>4, WorkStepLocal, WorkFrame DEF Keeps
  <2>2. lock = p /\ q = p
    BY <1>0, <2>1 DEF OneWriter, Running
  <2>3. PassServed(p)
    BY <2>1, <2>2 DEF ServedOK
  <2> QED BY <1>0, <1>4, <2>1, <2>2, <2>3, ServedByIncremental, ServedByRebuild
<1>5. ASSUME NEW p \in Proc, EndStep(p) PROVE ServedOK'
  <2> SUFFICES ASSUME aborts' = 0, NEW q \in Proc PROVE PassServed(q)'
    BY DEF ServedOK
  <2>1. aborts = 0
    BY <1>0, <1>5 DEF EndStep, Release, Abort, HashVanished, FileVanished
  <2>2. lock = p
    BY <1>0, <1>5, EndStepLocal DEF OneWriter, Running
  <2>3. PassServed(p)
    BY <2>1, <2>2 DEF ServedOK
  <2> QED BY <1>5, <2>3, ServedEnd
<1> QED BY <1>0, <1>1, <1>2, <1>3, <1>4, <1>5, OneActs

-----------------------------------------------------------------------------
(***************************************************************************)
(* While the tree stands still, a row records its content, all of it.      *)
(***************************************************************************)
(* Nobody edits the tree while a pass runs, and time does not touch it.    *)
LEMMA QuietTree ==
    ASSUME TypeOK, OneWriter, ~ LiveEdits, Environment, NEW q \in Proc, pass[q].pc # "idle"
    PROVE  disk' = disk
<1>1. lock # Nobody
  BY Constants DEF OneWriter, Running
<1> QED BY <1>1 DEF Environment, WriteFile, RemoveFile, RenameFile, Edit, Tick

LEMMA MadeWork ==
    ASSUME IndexInv, ~ LiveEdits, MadeOK, NEW p \in Proc, WorkStep(p)
    PROVE  /\ \A c \in Content : Made(points', manifest'[c].uuids, c)
           /\ PassMade(p)'
<1> DEFINE s == pass[p]
           t == pass'[p]
<1>0. /\ pass \in [Proc -> PassState] /\ s \in PassState /\ manifest \in [Content -> Row]
      /\ points \in [Collection -> SUBSET Point] /\ disk' = disk
      /\ TypeOK /\ PhaseOK /\ PassMade(p) /\ PassContent(p) /\ PassRows(p)
      /\ \A c \in Content : Made(points, manifest[c].uuids, c)
      /\ s.pc # "idle" /\ t.pc # "idle" /\ NoPath \notin Path
  BY Constants, WorkFrame, WorkStepLocal
     DEF IndexInv, IInv, TypeOK, MadeOK, ContentOK, RowsOK, Keeps
(* Ids that an old row, or nothing, recorded.                              *)
<1>a. ~ UpsertBatch(p) =>
        \A ids, c : c \in Content /\ Made(points, ids, c) => Made(points', ids, c)
  <2> SUFFICES ASSUME ~ UpsertBatch(p), NEW ids, NEW c \in Content, Made(points, ids, c)
               PROVE  Made(points', ids, c)
    OBVIOUS
  <2>1. Thinner(points, points')
    BY <1>0, ThinnerWork
  <2> QED BY <2>1, ThinnerKeeps
<1>b. \A c : Made(points', {}, c)
  BY NoIds
<1>c. ASSUME t.scan = s.scan PROVE \A c \in Scanned(p)' : disk'[t.scan[c]] = c
  BY <1>0, <1>c DEF PassMade, Scanned
<1>d. ASSUME ~ UpsertBatch(p), t.scan = s.scan, t.rows \in {s.rows, NoRows},
             t.pc = "ingest" => t.got = t.cur,
             \A c \in Content : manifest'[c].uuids \in {manifest[c].uuids, {}}
      PROVE  /\ \A c \in Content : Made(points', manifest'[c].uuids, c)
             /\ PassMade(p)'
  <2>1. \A c \in Content : NoRows[c].uuids = {}
    BY DEF NoRows, NoRow
  <2>2. \A c \in Content : Made(points', t.rows[c].uuids, c)
    BY <1>0, <1>a, <1>b, <1>d, <2>1 DEF PassMade
  <2>3. \A c \in Content : Made(points', manifest'[c].uuids, c)
    BY <1>0, <1>a, <1>b, <1>d
  <2> QED BY <1>c, <1>d, <2>2, <2>3 DEF PassMade
<1>1. CASE \E f \in Path : HashNext(p, f)
  <2>1. PICK f \in Path : HashNext(p, f)
    BY <1>1
  <2>2. /\ s.pc = "scan" /\ t.pc = "scan" /\ t.rows = s.rows /\ manifest' = manifest
        /\ t.scan = [c \in Content |-> IF c = disk[f] THEN f ELSE s.scan[c]]
        /\ points' = points
    BY <1>0, <2>1 DEF HashNext, NextListed, Local, PassState, store
  <2>3. \A c \in Scanned(p)' : disk'[t.scan[c]] = c
    BY <1>0, <2>2 DEF PassMade, Scanned
  <2> QED BY <1>0, <2>2, <2>3 DEF PassMade
<1>2. CASE ReadManifest(p)
  <2>1. /\ s.pc = "scan" /\ t.pc = "add" /\ t.scan = s.scan /\ t.rows = s.rows
        /\ manifest' = manifest
    BY <1>0, <1>2 DEF ReadManifest, Local, PassState
  <2> QED BY <1>d, <2>1 DEF UpsertBatch
<1>3. CASE \E c \in Content : OpenFile(p, c)
  <2>1. PICK c \in Content : OpenFile(p, c)
    BY <1>3
  <2>2. /\ s.pc = "add" /\ c \in s.todo /\ t.pc = "ingest" /\ t.scan = s.scan
        /\ t.rows = s.rows /\ t.cur = c /\ t.got = disk[s.scan[c]] /\ manifest' = manifest
    BY <1>0, <2>1 DEF OpenFile, Local, PassState
  <2>3. c \in Scanned(p)
    BY <1>0, <2>2 DEF PhaseOK, PassPhase
  <2>4. t.got = t.cur
    BY <1>0, <2>2, <2>3 DEF PassMade
  <2> QED BY <1>d, <2>2, <2>4 DEF UpsertBatch
<1>4. CASE UpsertBatch(p)
  <2>1. PICK pt \in Point : /\ points' = [points EXCEPT ![s.col] = @ \cup {pt}]
                            /\ pt.id \notin s.ids \cup UuidsOf(manifest) \cup UuidsOf(s.rows)
    BY <1>0, <1>4, UpsertBatchDoes
  <2>2. /\ s.pc = "ingest" /\ t.pc = "ingest" /\ t.scan = s.scan /\ t.rows = s.rows
        /\ t.cur = s.cur /\ t.got = s.got /\ manifest' = manifest
    BY <1>0, <1>4, UpsertBatchDoes
  <2>3. s.col \in Collection
    BY <1>0, <2>2, AtHandScanned
  <2>4. ASSUME NEW c \in Content
        PROVE  Made(points', manifest[c].uuids, c) /\ Made(points', s.rows[c].uuids, c)
    <3>1. pt.id \notin manifest[c].uuids /\ pt.id \notin s.rows[c].uuids
      BY <2>1, InUuidsOf
    <3>2. Made(points, manifest[c].uuids, c) /\ Made(points, s.rows[c].uuids, c)
      BY <1>0 DEF PassMade
    <3> DEFINE k == s.col
               ids1 == manifest[c].uuids
               ids2 == s.rows[c].uuids
    <3>3. k \in Collection /\ points' = [points EXCEPT ![k] = @ \cup {pt}]
          /\ pt.id \notin ids1 /\ pt.id \notin ids2
      BY <2>1, <2>3, <3>1
    <3> HIDE DEF k, ids1, ids2
    <3>4. Made(points, ids1, c) => Made(points', ids1, c)
      BY <1>0, <3>3, UpsertElsewhere
    <3>5. Made(points, ids2, c) => Made(points', ids2, c)
      BY <1>0, <3>3, UpsertElsewhere
    <3> QED BY <3>2, <3>4, <3>5 DEF ids1, ids2
  <2> QED BY <1>0, <1>c, <2>2, <2>4 DEF PassMade
<1>5. CASE RecordRow(p)
  <2>1. /\ s.pc = "ingest" /\ t.pc = "add" /\ t.scan = s.scan /\ UNCHANGED store
    BY <1>0, <1>5, RecordRowDoes
  <2>2. PICK row \in Row :
          /\ row.uuids = s.ids
          /\ s.mode = "rebuild" => /\ t.rows = [s.rows EXCEPT ![s.cur] = row]
                                   /\ manifest' = manifest
          /\ s.mode # "rebuild" => /\ t.rows = s.rows
                                   /\ manifest' = [manifest EXCEPT ![s.cur] = row]
    BY <1>0, <1>5, RecordRowDoes
  <2>3. points' = points /\ Made(points, s.ids, s.cur) /\ s.cur \in Content
    BY <1>0, <2>1, AtHandScanned DEF PassContent, PassMade, store
  <2>4. /\ \A c \in Content : Made(points, manifest'[c].uuids, c)
        /\ \A c \in Content : Made(points, t.rows[c].uuids, c)
    <3>1. CASE s.mode = "rebuild"
      BY <1>0, <2>2, <2>3, <3>1 DEF PassMade, PassState
    <3>2. CASE s.mode # "rebuild"
      BY <1>0, <2>2, <2>3, <3>2 DEF PassMade, PassState
    <3> QED BY <3>1, <3>2
  <2> QED BY <1>c, <2>1, <2>3, <2>4 DEF PassMade
<1>6. CASE EndAdd(p)
  <2>1. /\ s.pc = "add" /\ t.pc = "reconcile" /\ t.scan = s.scan /\ t.rows = s.rows
        /\ manifest' = manifest
    BY <1>0, <1>6 DEF EndAdd, Local, PassState
  <2> QED BY <1>d, <2>1 DEF UpsertBatch
<1>7. CASE \E c \in Content : Reconcile(p, c)
  <2>1. /\ s.pc = "reconcile" /\ t.pc \in {"reconcile", "rename"} /\ t.scan = s.scan
        /\ t.rows = s.rows
        /\ \A d \in Content : manifest'[d].uuids = manifest[d].uuids
    BY <1>0, <1>7 DEF Reconcile, Returned, Row, Local, PassState
  <2> QED BY <1>d, <2>1 DEF UpsertBatch
<1>8. CASE RefreshName(p)
  <2>1. /\ s.pc = "rename" /\ t.pc = "repath" /\ t.scan = s.scan /\ t.rows = s.rows
        /\ manifest' = manifest
    BY <1>0, <1>8, RefreshNameDoes
  <2> QED BY <1>d, <2>1 DEF UpsertBatch
<1>9. CASE SetPath(p)
  <2>1. /\ s.pc = "repath" /\ t.pc = "reconcile" /\ t.scan = s.scan /\ t.rows = s.rows
        /\ \A c \in Content : manifest'[c].uuids = manifest[c].uuids
    BY <1>0, <1>9 DEF SetPath, Row, Local, PassState
  <2> QED BY <1>d, <2>1 DEF UpsertBatch
<1>10. CASE EndReconcile(p)
  <2>1. /\ s.pc = "reconcile" /\ t.pc \in {"mark", "prune"} /\ t.scan = s.scan
        /\ t.rows = s.rows /\ manifest' = manifest
    BY <1>0, <1>10 DEF EndReconcile, Local, PassState
  <2> QED BY <1>d, <2>1 DEF UpsertBatch
<1>11. CASE \E c \in Content : DropRow(p, c)
  <2>1. /\ s.pc = "prune" /\ t.pc = "drop" /\ t.scan = s.scan /\ t.rows = s.rows
        /\ \A d \in Content : manifest'[d].uuids \in {manifest[d].uuids, {}}
    BY <1>0, <1>11 DEF DropRow, NoRow, Local, PassState
  <2> QED BY <1>d, <2>1 DEF UpsertBatch
<1>12. CASE DropPoints(p)
  <2>1. /\ s.pc = "drop" /\ t.pc = "prune" /\ t.scan = s.scan /\ t.rows = s.rows
        /\ manifest' = manifest
    BY <1>0, <1>12 DEF DropPoints, Local, PassState
  <2> QED BY <1>d, <2>1 DEF UpsertBatch
<1>13. CASE \E c \in Content : MarkDeparted(p, c)
  <2>1. /\ s.pc = "mark" /\ t.pc = "mark" /\ t.scan = s.scan /\ t.rows = s.rows
        /\ \A d \in Content : manifest'[d].uuids = manifest[d].uuids
    BY <1>0, <1>13 DEF MarkDeparted, Row, Local, PassState
  <2> QED BY <1>d, <2>1 DEF UpsertBatch
<1>14. CASE EndMark(p)
  <2>1. /\ s.pc = "mark" /\ t.pc = "reap" /\ t.scan = s.scan /\ t.rows = s.rows
        /\ manifest' = manifest
    BY <1>0, <1>14 DEF EndMark, Local, PassState
  <2> QED BY <1>d, <2>1 DEF UpsertBatch
<1>15. CASE \E c \in Content : ReapPoints(p, c)
  <2>1. /\ s.pc = "reap" /\ t.pc = "unrecord" /\ t.scan = s.scan /\ t.rows = s.rows
        /\ manifest' = manifest
    BY <1>0, <1>15 DEF ReapPoints, Local, PassState
  <2> QED BY <1>d, <2>1 DEF UpsertBatch
<1>16. CASE ReapRow(p)
  <2>1. /\ s.pc = "unrecord" /\ t.pc = "reap" /\ t.scan = s.scan /\ t.rows = s.rows
        /\ manifest' = [manifest EXCEPT ![s.cur] = NoRow]
    BY <1>0, <1>16 DEF ReapRow, Local, PassState
  <2>2. \A d \in Content : manifest'[d].uuids \in {manifest[d].uuids, {}}
    BY <1>0, <2>1 DEF NoRow
  <2> QED BY <1>d, <2>1, <2>2 DEF UpsertBatch
<1>17. CASE EndIncremental(p)
  <2>1. /\ s.pc \in {"prune", "reap"} /\ t.pc = "done" /\ t.scan = s.scan
        /\ t.rows = s.rows /\ manifest' = manifest
    BY <1>0, <1>17 DEF EndIncremental, Local, PassState
  <2> QED BY <1>d, <2>1 DEF UpsertBatch
<1>18. CASE ReplaceAll(p)
  <2>1. /\ s.pc = "add" /\ t.pc = "switch" /\ t.scan = s.scan /\ t.rows = NoRows
        /\ manifest' = s.rows /\ points' = points
    BY <1>0, <1>18 DEF ReplaceAll, Replacement, Local, PassState, store
  <2>2. \A c \in Content : NoRows[c].uuids = {}
    BY DEF NoRows, NoRow
  <2> QED BY <1>0, <1>b, <1>c, <2>1, <2>2 DEF PassMade
<1>19. CASE DropLegacy(p)
  <2>1. /\ s.pc = "switch" /\ t.pc = "migrate" /\ t.scan = s.scan /\ t.rows = s.rows
        /\ manifest' = manifest
    BY <1>0, <1>19 DEF DropLegacy, AtSwitch, Local, PassState
  <2> QED BY <1>d, <2>1 DEF UpsertBatch
<1>20. CASE CreateAlias(p)
  <2>1. /\ s.pc = "migrate" /\ t.pc = "done" /\ t.scan = s.scan /\ t.rows = s.rows
        /\ manifest' = manifest
    BY <1>0, <1>20 DEF CreateAlias, Local, PassState
  <2> QED BY <1>d, <2>1 DEF UpsertBatch
<1>21. CASE SwitchAlias(p)
  <2>1. /\ s.pc = "switch" /\ t.pc \in {"retire", "done"} /\ t.scan = s.scan
        /\ t.rows = s.rows /\ manifest' = manifest
    BY <1>0, <1>21 DEF SwitchAlias, AtSwitch, Local, PassState
  <2> QED BY <1>d, <2>1 DEF UpsertBatch
<1>22. CASE DropOld(p)
  <2>1. /\ s.pc = "retire" /\ t.pc = "done" /\ t.scan = s.scan /\ t.rows = s.rows
        /\ manifest' = manifest
    BY <1>0, <1>22 DEF DropOld, Local, PassState
  <2> QED BY <1>d, <2>1 DEF UpsertBatch
<1> QED BY <1>1, <1>2, <1>3, <1>4, <1>5, <1>6, <1>7, <1>8, <1>9, <1>10, <1>11,
           <1>12, <1>13, <1>14, <1>15, <1>16, <1>17, <1>18, <1>19, <1>20, <1>21, <1>22 DEF WorkStep

LEMMA InitMade == Init => MadeOK
<1> SUFFICES ASSUME Init PROVE MadeOK
  OBVIOUS
<1>1. manifest = NoRows /\ \A p \in Proc : pass[p].pc = "idle" /\ pass[p].rows = NoRows
  BY DEF Init, Blank
<1>2. \A c \in Content : NoRows[c].uuids = {}
  BY DEF NoRows, NoRow
<1>3. \A c \in Content : Made(points, NoRows[c].uuids, c)
  BY <1>2, NoIds
<1> QED BY <1>1, <1>3 DEF MadeOK, PassMade

LEMMA MadeStep ==
    ASSUME IndexInv, MadeOK, [Next]_vars PROVE MadeOK'
<1> SUFFICES ASSUME ~ LiveEdits
             PROVE  /\ \A c \in Content : Made(points', manifest'[c].uuids, c)
                    /\ \A q \in Proc : PassMade(q)'
  <2> HIDE DEF PassMade
  <2> QED BY DEF MadeOK
<1>0. /\ TypeOK /\ OneWriter /\ pass \in [Proc -> PassState] /\ RowsOK
      /\ \A c \in Content : Made(points, manifest[c].uuids, c)
      /\ \A q \in Proc : PassMade(q)
  BY DEF IndexInv, IInv, TypeOK, MadeOK
<1>n. \A c \in Content : NoRows[c].uuids = {}
  BY DEF NoRows, NoRow
<1>i. ASSUME NEW q \in Proc, pass'[q].pc = "idle", pass'[q].rows = NoRows
      PROVE  PassMade(q)'
  BY <1>n, <1>i, NoIds DEF PassMade
<1>j. ASSUME NEW q \in Proc, pass[q].pc = "idle", pass'[q] = pass[q] PROVE PassMade(q)'
  BY <1>0, <1>i, <1>j DEF RowsOK, PassRows
<1>1. CASE UNCHANGED vars
  BY <1>0, <1>1 DEF vars, PassMade, Scanned
<1>2. CASE Environment
  <2>1. /\ points' = points
        /\ \A c \in Content : manifest'[c].uuids = manifest[c].uuids
    BY <1>0, <1>2, EnvironmentLocal
  <2>2. ASSUME NEW q \in Proc PROVE PassMade(q)'
    <3>1. /\ pass'[q].pc = pass[q].pc /\ pass'[q].scan = pass[q].scan
          /\ pass'[q].got = pass[q].got /\ pass'[q].cur = pass[q].cur
          /\ pass'[q].rows = pass[q].rows
      BY <1>0, <1>2, EnvironmentKeeps
    <3>2. pass[q].pc # "idle" => disk' = disk
      BY <1>0, <1>2, QuietTree
    <3> QED BY <1>0, <2>1, <3>1, <3>2 DEF PassMade, Scanned
  <2> QED BY <1>0, <2>1, <2>2
<1>3. ASSUME NEW p \in Proc, BeginStep(p)
      PROVE  PassMade(p)' /\ \A c \in Content : Made(points', manifest'[c].uuids, c)
  <2>1. /\ pass'[p].pc = "scan" /\ pass'[p].scan = NoScan /\ pass'[p].rows = NoRows
        /\ manifest' = manifest
    BY <1>0, <1>3, BeginStepLocal
  <2>2. points' = points
    BY <1>3 DEF BeginStep, BeginIncremental, BeginRebuild, store
  <2>3. Scanned(p)' = {}
    BY <2>1 DEF Scanned, NoScan
  <2>4. \A c \in Content : Made(points', pass'[p].rows[c].uuids, c)
    BY <1>n, <2>1, NoIds
  <2>5. PassMade(p)'
    BY <2>1, <2>3, <2>4 DEF PassMade
  <2> QED BY <1>0, <2>1, <2>2, <2>5
<1>4. ASSUME NEW p \in Proc, EndStep(p)
      PROVE  PassMade(p)' /\ \A c \in Content : Made(points', manifest'[c].uuids, c)
  <2>1. UNCHANGED <<manifest, points>> /\ pass'[p] = Blank
    BY <1>0, <1>4, EndStepLocal DEF store
  <2> QED BY <1>0, <1>i, <2>1 DEF Blank
<1>5. ASSUME NEW p \in Proc, BeginStep(p) \/ WorkStep(p) \/ EndStep(p),
             \A q \in Proc \ {p} : pass[q].pc = "idle" /\ pass'[q] = pass[q]
      PROVE  /\ \A c \in Content : Made(points', manifest'[c].uuids, c)
             /\ \A q \in Proc : PassMade(q)'
  BY <1>3, <1>4, <1>5, <1>j, MadeWork
<1> QED BY <1>0, <1>1, <1>2, <1>5, OneActs

(* How many ids a row and the file at hand have.                           *)
LEMMA MoreCounted ==
    ASSUME NEW ids, IsFiniteSet(ids), NEW left \in Nat \ {0}, NEW n,
           Cardinality(ids) + left = n, NEW i, i \notin ids
    PROVE  IsFiniteSet(ids \cup {i}) /\ Cardinality(ids \cup {i}) + (left - 1) = n
<1>1. /\ IsFiniteSet(ids \cup {i}) /\ Cardinality(ids \cup {i}) = Cardinality(ids) + 1
      /\ Cardinality(ids) \in Nat
  BY FS_AddElement, FS_CardinalityType
<1> DEFINE a == Cardinality(ids)
           b == Cardinality(ids \cup {i})
<1>2. b = a + 1 /\ a \in Nat /\ a + left = n
  BY <1>1
<1> HIDE DEF a, b
<1>3. b + (left - 1) = n
  BY <1>2
<1> QED BY <1>1, <1>3 DEF b

LEMMA NothingCounted == Counted(NoRows)
BY DEF Counted, Recorded, NoRows, NoRow

LEMMA RecordCounted ==
    ASSUME NEW rows \in [Content -> Row], Counted(rows), NEW c \in Content,
           NEW row \in Row, IsFiniteSet(row.uuids), Cardinality(row.uuids) = NumBatches[c]
    PROVE  Counted([rows EXCEPT ![c] = row])
<1> DEFINE new == [rows EXCEPT ![c] = row]
<1>1. new[c] = row /\ \A d \in Content : d # c => new[d] = rows[d]
  OBVIOUS
<1> HIDE DEF new
<1> SUFFICES ASSUME NEW d \in Recorded(new)
             PROVE  IsFiniteSet(new[d].uuids) /\ Cardinality(new[d].uuids) = NumBatches[d]
  BY DEF Counted, new
<1>2. CASE d = c
  BY <1>1, <1>2
<1>3. CASE d # c
  BY <1>1, <1>3 DEF Counted, Recorded
<1> QED BY <1>2, <1>3

(* Rows are as they were, or gone, and no path is new.                     *)
LEMMA CountedKept ==
    ASSUME NEW rows, NEW rows2, Counted(rows),
           \A c \in Content : rows2[c].path = NoPath \/ /\ rows2[c].uuids = rows[c].uuids
                                                        /\ rows[c].path # NoPath
    PROVE  Counted(rows2)
BY DEF Counted, Recorded

LEMMA CountsWork ==
    ASSUME IndexInv, SteadyOK, MadeOK, CountsOK, ~ LiveEdits, Indexable = Path,
           NEW p \in Proc, WorkStep(p)
    PROVE  Counted(manifest)' /\ PassCounts(p)'
<1> DEFINE s == pass[p]
           t == pass'[p]
<1>0. /\ pass \in [Proc -> PassState] /\ s \in PassState /\ manifest \in [Content -> Row]
      /\ TypeOK /\ PhaseOK /\ PassMade(p) /\ PassCounts(p) /\ PassRows(p)
      /\ Counted(manifest) /\ NoPath \notin Path
  BY Constants DEF IndexInv, IInv, TypeOK, MadeOK, CountsOK, RowsOK
(* Steps that record nothing and have no file at hand.                     *)
<1>a. ASSUME t.pc # "ingest", t.rows \in {s.rows, NoRows},
             \A c \in Content :
               \/ manifest'[c].path = NoPath
               \/ /\ manifest'[c].uuids = manifest[c].uuids
                  /\ manifest[c].path # NoPath
      PROVE  Counted(manifest)' /\ PassCounts(p)'
  <2>1. Counted(manifest)'
    BY <1>0, <1>a, CountedKept
  <2>2. Counted(s.rows) /\ Counted(NoRows)
    BY <1>0, NothingCounted DEF PassCounts
  <2>3. Counted(t.rows)
    BY <1>a, <2>2
  <2> QED BY <1>a, <2>1, <2>3 DEF PassCounts
<1>b. ASSUME t.pc # "ingest", t.rows = s.rows, manifest' = manifest
      PROVE  Counted(manifest)' /\ PassCounts(p)'
  BY <1>a, <1>b
<1>1. CASE \E f \in Path : HashNext(p, f)
  <2>1. t.pc = "scan" /\ t.rows = s.rows /\ manifest' = manifest
    BY <1>0, <1>1 DEF HashNext, NextListed, Local, PassState
  <2> QED BY <1>b, <2>1
<1>2. CASE ReadManifest(p)
  <2>1. t.pc = "add" /\ t.rows = s.rows /\ manifest' = manifest
    BY <1>0, <1>2 DEF ReadManifest, Local, PassState
  <2> QED BY <1>b, <2>1
<1>3. CASE \E c \in Content : OpenFile(p, c)
  <2>1. PICK c \in Content : OpenFile(p, c)
    BY <1>3
  <2>2. /\ s.pc = "add" /\ c \in s.todo /\ t.ids = s.ids /\ t.rows = s.rows
        /\ manifest' = manifest /\ s.scan[c] \in Files /\ t.got = disk[s.scan[c]]
        /\ t.left = IF s.scan[c] \in Indexable THEN NumBatches[disk[s.scan[c]]] ELSE 0
    BY <1>0, <2>1 DEF OpenFile, Local, PassState
  <2>3. t.left = NumBatches[t.got] /\ t.got \in Content
    BY <1>0, <2>2 DEF Files, TypeOK
  <2>4. t.ids = {}
    BY <1>0, <2>2 DEF PassRows
  <2>5. IsFiniteSet(t.ids) /\ Cardinality(t.ids) + t.left = NumBatches[t.got]
    <3>1. NumBatches[t.got] \in Nat
      BY <2>3, Constants
    <3> HIDE DEF t
    <3>2. 0 + t.left = NumBatches[t.got]
      BY <2>3, <3>1
    <3> QED BY <2>4, <3>2, FS_EmptySet
  <2> QED BY <1>0, <2>2, <2>5 DEF PassCounts
<1>4. CASE UpsertBatch(p)
  <2>1. PICK pt \in Point : t.ids = s.ids \cup {pt.id} /\ pt.id \notin s.ids
    BY <1>0, <1>4, UpsertBatchDoes
  <2>2. /\ s.pc = "ingest" /\ s.left \in Nat \ {0} /\ t.pc = "ingest"
        /\ t.got = s.got /\ t.rows = s.rows /\ t.left = s.left - 1 /\ manifest' = manifest
    BY <1>0, <1>4, UpsertBatchDoes
  <2>3. IsFiniteSet(s.ids) /\ Cardinality(s.ids) + s.left = NumBatches[s.got]
    BY <1>0, <2>2 DEF PassCounts
  <2>4. IsFiniteSet(t.ids) /\ Cardinality(t.ids) + t.left = NumBatches[t.got]
    <3> HIDE DEF s, t
    <3> QED BY <2>1, <2>2, <2>3, MoreCounted
  <2> QED BY <1>0, <2>2, <2>4 DEF PassCounts
<1>5. CASE RecordRow(p)
  <2>1. s.pc = "ingest" /\ s.left = 0 /\ t.pc = "add"
    BY <1>0, <1>5, RecordRowDoes
  <2>2. PICK row \in Row :
          /\ row.uuids = s.ids
          /\ s.mode = "rebuild" => /\ t.rows = [s.rows EXCEPT ![s.cur] = row]
                                   /\ manifest' = manifest
          /\ s.mode # "rebuild" => /\ t.rows = s.rows
                                   /\ manifest' = [manifest EXCEPT ![s.cur] = row]
    BY <1>0, <1>5, RecordRowDoes
  <2>3. s.cur \in Content /\ s.got = s.cur
    BY <1>0, <2>1, AtHandScanned DEF PassMade
  <2>4. IsFiniteSet(s.ids) /\ Cardinality(s.ids) = NumBatches[s.cur]
    <3>1. IsFiniteSet(s.ids) /\ Cardinality(s.ids) + 0 = NumBatches[s.cur]
      BY <1>0, <2>1, <2>3 DEF PassCounts
    <3> DEFINE n == Cardinality(s.ids)
    <3>2. n \in Nat
      BY <3>1, FS_CardinalityType
    <3>3. n + 0 = NumBatches[s.cur]
      BY <3>1
    <3> HIDE DEF n
    <3>4. n = NumBatches[s.cur]
      BY <3>2, <3>3
    <3> QED BY <3>1, <3>4 DEF n
  <2>5. s.rows \in [Content -> Row] /\ Counted(s.rows)
    BY <1>0 DEF PassCounts, PassState
  <2>6. /\ Counted([s.rows EXCEPT ![s.cur] = row])
        /\ Counted([manifest EXCEPT ![s.cur] = row])
    <3> DEFINE r == s.rows
               c == s.cur
    <3>1. /\ r \in [Content -> Row] /\ Counted(r) /\ c \in Content
          /\ IsFiniteSet(row.uuids) /\ Cardinality(row.uuids) = NumBatches[c]
      BY <2>2, <2>3, <2>4, <2>5
    <3> HIDE DEF r, c
    <3>2. Counted([r EXCEPT ![c] = row])
      BY <3>1, RecordCounted
    <3>3. Counted([manifest EXCEPT ![c] = row])
      BY <1>0, <3>1, RecordCounted
    <3> QED BY <3>2, <3>3 DEF r, c
  <2>7. CASE s.mode = "rebuild"
    BY <1>0, <2>1, <2>2, <2>6, <2>7 DEF PassCounts
  <2>8. CASE s.mode # "rebuild"
    BY <1>0, <2>1, <2>2, <2>5, <2>6, <2>8 DEF PassCounts
  <2> QED BY <2>7, <2>8
<1>6. CASE EndAdd(p)
  <2>1. t.pc = "reconcile" /\ t.rows = s.rows /\ manifest' = manifest
    BY <1>0, <1>6 DEF EndAdd, Local, PassState
  <2> QED BY <1>b, <2>1
(* The marks of rows may change.                                           *)
<1>c. ASSUME t.pc # "ingest", t.rows = s.rows,
             \A c \in Content : /\ manifest'[c].uuids = manifest[c].uuids
                                /\ manifest'[c].path = manifest[c].path
      PROVE  Counted(manifest)' /\ PassCounts(p)'
  BY <1>a, <1>c
<1>7. CASE \E c \in Content : Reconcile(p, c)
  <2>1. /\ t.pc \in {"reconcile", "rename"} /\ t.rows = s.rows
        /\ \A d \in Content : /\ manifest'[d].uuids = manifest[d].uuids
                              /\ manifest'[d].path = manifest[d].path
    BY <1>0, <1>7 DEF Reconcile, Returned, Row, Local, PassState
  <2> QED BY <1>c, <2>1
<1>8. CASE RefreshName(p)
  <2>1. t.pc = "repath" /\ t.rows = s.rows /\ manifest' = manifest
    BY <1>0, <1>8, RefreshNameDoes
  <2> QED BY <1>b, <2>1
<1>9. CASE SetPath(p)
  <2>1. /\ s.pc = "repath" /\ t.pc = "reconcile" /\ t.rows = s.rows
        /\ manifest' = [manifest EXCEPT ![s.cur].path = s.scan[s.cur]]
    BY <1>0, <1>9 DEF SetPath, Local, PassState
  <2>2. s.mode # "rebuild"
    BY <2>1 DEF IndexInv, StoreOK, PassStore, Adding, Replaced
  <2>3. manifest[s.cur].path # NoPath
    BY <2>1, <2>2 DEF SteadyOK, PassIncremental, Stays, Recorded
  <2>4. \A c \in Content : /\ manifest'[c].uuids = manifest[c].uuids
                           /\ c # s.cur => manifest'[c] = manifest[c]
    BY <1>0, <2>1 DEF Row
  <2> QED BY <1>a, <2>1, <2>3, <2>4
<1>10. CASE EndReconcile(p)
  <2>1. t.pc \in {"mark", "prune"} /\ t.rows = s.rows /\ manifest' = manifest
    BY <1>0, <1>10 DEF EndReconcile, Local, PassState
  <2> QED BY <1>b, <2>1
<1>11. CASE \E c \in Content : DropRow(p, c)
  <2>1. /\ t.pc = "drop" /\ t.rows = s.rows
        /\ \A d \in Content : manifest'[d].path = NoPath \/ manifest'[d] = manifest[d]
    BY <1>0, <1>11 DEF DropRow, NoRow, Local, PassState
  <2> QED BY <1>a, <2>1
<1>12. CASE DropPoints(p)
  <2>1. t.pc = "prune" /\ t.rows = s.rows /\ manifest' = manifest
    BY <1>0, <1>12 DEF DropPoints, Local, PassState
  <2> QED BY <1>b, <2>1
<1>13. CASE \E c \in Content : MarkDeparted(p, c)
  <2>1. /\ t.pc = "mark" /\ t.rows = s.rows
        /\ \A d \in Content : /\ manifest'[d].uuids = manifest[d].uuids
                              /\ manifest'[d].path = manifest[d].path
    BY <1>0, <1>13 DEF MarkDeparted, Row, Local, PassState
  <2> QED BY <1>c, <2>1
<1>14. CASE EndMark(p)
  <2>1. t.pc = "reap" /\ t.rows = s.rows /\ manifest' = manifest
    BY <1>0, <1>14 DEF EndMark, Local, PassState
  <2> QED BY <1>b, <2>1
<1>15. CASE \E c \in Content : ReapPoints(p, c)
  <2>1. t.pc = "unrecord" /\ t.rows = s.rows /\ manifest' = manifest
    BY <1>0, <1>15 DEF ReapPoints, Local, PassState
  <2> QED BY <1>b, <2>1
<1>16. CASE ReapRow(p)
  <2>1. /\ t.pc = "reap" /\ t.rows = s.rows
        /\ manifest' = [manifest EXCEPT ![s.cur] = NoRow]
    BY <1>0, <1>16 DEF ReapRow, Local, PassState
  <2>2. \A d \in Content : manifest'[d].path = NoPath \/ manifest'[d] = manifest[d]
    BY <1>0, <2>1 DEF NoRow
  <2> QED BY <1>a, <2>1, <2>2
<1>17. CASE EndIncremental(p)
  <2>1. t.pc = "done" /\ t.rows = s.rows /\ manifest' = manifest
    BY <1>0, <1>17 DEF EndIncremental, Local, PassState
  <2> QED BY <1>b, <2>1
<1>18. CASE ReplaceAll(p)
  <2>1. t.pc = "switch" /\ t.rows = NoRows /\ manifest' = s.rows
    BY <1>0, <1>18 DEF ReplaceAll, Replacement, Local, PassState
  <2> QED BY <1>0, <2>1, NothingCounted DEF PassCounts
<1>19. CASE DropLegacy(p)
  <2>1. t.pc = "migrate" /\ t.rows = s.rows /\ manifest' = manifest
    BY <1>0, <1>19 DEF DropLegacy, AtSwitch, Local, PassState
  <2> QED BY <1>b, <2>1
<1>20. CASE CreateAlias(p)
  <2>1. t.pc = "done" /\ t.rows = s.rows /\ manifest' = manifest
    BY <1>0, <1>20 DEF CreateAlias, Local, PassState
  <2> QED BY <1>b, <2>1
<1>21. CASE SwitchAlias(p)
  <2>1. t.pc \in {"retire", "done"} /\ t.rows = s.rows /\ manifest' = manifest
    BY <1>0, <1>21 DEF SwitchAlias, AtSwitch, Local, PassState
  <2> QED BY <1>b, <2>1
<1>22. CASE DropOld(p)
  <2>1. t.pc = "done" /\ t.rows = s.rows /\ manifest' = manifest
    BY <1>0, <1>22 DEF DropOld, Local, PassState
  <2> QED BY <1>b, <2>1
<1> QED BY <1>1, <1>2, <1>3, <1>4, <1>5, <1>6, <1>7, <1>8, <1>9, <1>10, <1>11,
           <1>12, <1>13, <1>14, <1>15, <1>16, <1>17, <1>18, <1>19, <1>20, <1>21, <1>22 DEF WorkStep

LEMMA InitCounts == Init => CountsOK
<1> SUFFICES ASSUME Init PROVE CountsOK
  OBVIOUS
<1>1. manifest = NoRows /\ \A p \in Proc : pass[p].pc = "idle" /\ pass[p].rows = NoRows
  BY DEF Init, Blank
<1> QED BY <1>1, NothingCounted DEF CountsOK, PassCounts

LEMMA CountsStep ==
    ASSUME IndexInv, SteadyOK, MadeOK, CountsOK, [Next]_vars PROVE CountsOK'
<1> SUFFICES ASSUME ~ LiveEdits, Indexable = Path
             PROVE  Counted(manifest)' /\ \A q \in Proc : PassCounts(q)'
  BY DEF CountsOK
<1>0. /\ TypeOK /\ OneWriter /\ pass \in [Proc -> PassState] /\ Counted(manifest)
      /\ \A q \in Proc : PassCounts(q)
  BY DEF IndexInv, IInv, TypeOK, CountsOK
<1>1. CASE UNCHANGED vars
  BY <1>0, <1>1 DEF vars, PassCounts
<1>2. CASE Environment
  <2>1. \A c \in Content : /\ manifest'[c].uuids = manifest[c].uuids
                           /\ manifest'[c].path = manifest[c].path
    BY <1>0, <1>2, EnvironmentLocal
  <2>2. Counted(manifest)'
    BY <1>0, <2>1, CountedKept
  <2>3. ASSUME NEW q \in Proc PROVE PassCounts(q)'
    BY <1>0, <1>2, EnvironmentKeeps DEF PassCounts
  <2> QED BY <2>2, <2>3
<1>3. ASSUME NEW p \in Proc, BeginStep(p) \/ EndStep(p)
      PROVE  PassCounts(p)' /\ Counted(manifest)'
  <2>1. pass'[p].pc # "ingest" /\ pass'[p].rows = NoRows /\ manifest' = manifest
    BY <1>0, <1>3, BeginStepLocal, EndStepLocal DEF Blank
  <2> QED BY <1>0, <2>1, NothingCounted DEF PassCounts
<1>4. ASSUME NEW p \in Proc, BeginStep(p) \/ WorkStep(p) \/ EndStep(p),
             \A q \in Proc \ {p} : pass[q].pc = "idle" /\ pass'[q] = pass[q]
      PROVE  Counted(manifest)' /\ \A q \in Proc : PassCounts(q)'
  <2>1. Counted(manifest)' /\ PassCounts(p)'
    BY <1>3, <1>4, CountsWork
  <2>2. ASSUME NEW q \in Proc \ {p} PROVE PassCounts(q)'
    BY <1>0, <1>4 DEF PassCounts
  <2> QED BY <2>1, <2>2
<1> QED BY <1>0, <1>1, <1>2, <1>4, OneActs

-----------------------------------------------------------------------------
RowsInv == IndexInv /\ SteadyOK /\ ServedOK /\ MadeOK /\ CountsOK

(* What makes rows trustworthy is an invariant, under the hypotheses that  *)
(* its parts state.                                                        *)
THEOREM RowsInductive == Spec => []RowsInv
<1>1. Init => RowsInv
  BY InitIInv, InitStore, InitRows, InitPoints, InitContent, InitSteady, InitServed,
     InitMade, InitCounts DEF IndexInv, RowsInv
<1>2. RowsInv /\ [Next]_vars => RowsInv'
  <2>1. IndexInv /\ [Next]_vars => IndexInv'
    BY IInvStep, StoreStep, ScanStep, RowsStep, PointsStep, FilesStep, ContentStep
       DEF IndexInv
  <2> QED BY <2>1, SteadyStep, ServedStep, MadeStep, CountsStep DEF RowsInv
<1> QED BY <1>1, <1>2, PTL DEF Spec

LEMMA KeepsSteady == IndexInv /\ SteadyOK => SteadyContentKept
<1> SUFFICES ASSUME IndexInv, SteadyOK, NEW p \in Proc,
                    pass[p].pc \in {"prune", "mark", "reap"}
             PROVE  pass[p].todo \cap SteadyContent = {}
  BY DEF SteadyContentKept, Running
<1>1. pass[p].mode # "rebuild"
  BY DEF IndexInv, StoreOK, PassStore, Adding, Replaced
<1>2. pass[p].todo \cap Scanned(p) = {}
  BY <1>1 DEF SteadyOK, PassIncremental, Pruning
<1>3. SteadyContent \subseteq Scanned(p)
  BY DEF SteadyOK, PassSteady
<1> QED BY <1>2, <1>3

(* A pass that is about to prune, mark or reap is about to do so to        *)
(* nothing that stood still on disk since it began: with edits, crashes    *)
(* and other passes at any time.                                           *)
THEOREM SteadyIsKept == Spec => []SteadyContentKept
<1>1. RowsInv => SteadyContentKept
  BY KeepsSteady DEF RowsInv
<1> QED BY <1>1, RowsInductive, PTL

(* Whoever runs alone has the lock or nobody has.                          *)
LEMMA Trustworthy ==
    ASSUME RowsInv, aborts = 0, NEW p \in Proc, pass[p].pc = "done"
    PROVE  /\ \A c \in Content : manifest[c].uuids \subseteq LiveIds
           /\ alias # NoCollection => LiveIds \subseteq UuidsOf(manifest)
<1>1. lock = p
  BY DEF RowsInv, IndexInv, IInv, OneWriter, Running
<1>2. PassServed(p)
  BY <1>1 DEF RowsInv, ServedOK
<1>3. AtHand(p) = {}
  BY DEF AtHand
<1> QED BY <1>2, <1>3 DEF PassServed

(* Until a pass is killed, a pass that reaches its end has served all that *)
(* stood still, and takes none of it away before: recreate and incremental *)
(* alike.  (A rebuild that dies between replacing the manifest and moving  *)
(* the alias leaves rows whose points the next pass does not look for.)    *)
THEOREM SteadyIsSafe == Spec => [](aborts = 0 => SteadyContentSafe)
<1>1. RowsInv /\ aborts = 0 => SteadyContentServed
  <2> SUFFICES ASSUME RowsInv, aborts = 0, NEW p \in Proc, pass[p].pc = "done",
                      NEW c \in SteadyContent
               PROVE  /\ c \in Recorded(manifest)
                      /\ manifest[c].uuids \subseteq LiveIds
                      /\ manifest[c].departed = NotDeparted
    BY DEF SteadyContentServed, Running
  <2>1. c \in Scanned(p) /\ c \in Content
    BY DEF RowsInv, SteadyOK, PassSteady, Scanned
  <2>2. manifest[c].uuids \subseteq LiveIds
    BY <2>1, Trustworthy
  <2>3. CASE pass[p].mode # "rebuild"
    <3>1. Stays(c)
      BY <2>1, <2>3 DEF RowsInv, SteadyOK, PassIncremental, Pruning
    <3> QED BY <2>2, <3>1 DEF Stays
  <2>4. CASE pass[p].mode = "rebuild"
    <3>1. manifest[c].path = pass[p].scan[c]
      BY <2>1, <2>4 DEF RowsInv, IndexInv, RowsOK, PassRows, Replaced
    <3>2. manifest[c].departed = NotDeparted
      BY <2>1, <2>4 DEF RowsInv, SteadyOK, PassRebuilt, Replaced
    <3> QED BY <2>1, <2>2, <3>1, <3>2 DEF Recorded, Scanned
  <2> QED BY <2>3, <2>4
<1>2. RowsInv => (aborts = 0 => SteadyContentSafe)
  BY <1>1, KeepsSteady DEF RowsInv, SteadyContentSafe
<1> QED BY <1>2, RowsInductive, PTL

(* Between passes, until one is killed, every id a row records is behind   *)
(* the name a query resolves.                                              *)
THEOREM RowsAnswer == Spec => [](aborts = 0 => RowsAreServed)
<1>1. RowsInv => (aborts = 0 => RowsAreServed)
  <2> SUFFICES ASSUME RowsInv, aborts = 0, lock = Nobody, NEW c \in Content
               PROVE  manifest[c].uuids \subseteq LiveIds
    BY DEF RowsAreServed, UuidsOf
  <2>1. Watcher \in Proc /\ PassServed(Watcher)
    BY DEF RowsInv, ServedOK, Proc
  <2>2. pass[Watcher].pc = "idle"
    BY <2>1, Constants DEF RowsInv, IndexInv, IInv, OneWriter, Running
  <2> QED BY <2>1, <2>2 DEF PassServed
<1> QED BY <1>1, RowsInductive, PTL

(* And behind an alias there is no point that no row records, which no     *)
(* later pass could find and delete.                                       *)
THEOREM NothingIsOrphaned == Spec => [](aborts = 0 => NoOrphans)
<1>1. RowsInv => (aborts = 0 => NoOrphans)
  <2> SUFFICES ASSUME RowsInv, aborts = 0, lock = Nobody, alias # NoCollection
               PROVE  LiveIds \subseteq UuidsOf(manifest)
    BY DEF NoOrphans
  <2>1. Watcher \in Proc /\ PassServed(Watcher)
    BY DEF RowsInv, ServedOK, Proc
  <2>2. pass[Watcher].pc = "idle"
    BY <2>1, Constants DEF RowsInv, IndexInv, IInv, OneWriter, Running
  <2> QED BY <2>1, <2>2 DEF PassServed, AtHand
<1> QED BY <1>1, RowsInductive, PTL

(* Where passes see a tree that stands still and each suffix has a parser, *)
(* a row has an id for every batch of its content, and the points under    *)
(* its ids, in whatever collection, were made from that content: also      *)
(* after passes that were killed half-way.                                 *)
THEOREM RowsAreWhole ==
    Spec => [](~ LiveEdits /\ Indexable = Path => RowsHoldTheirContent)
<1>1. RowsInv => (~ LiveEdits /\ Indexable = Path => RowsHoldTheirContent)
  BY DEF RowsInv, CountsOK, Counted, MadeOK, Made, Recorded, RowsHoldTheirContent
<1> QED BY <1>1, RowsInductive, PTL

(* A pass that looks at everything puts everything right: after a rebuild, *)
(* whatever happened before, manifest and index agree; after a manual run  *)
(* nothing answers queries that its scan did not see, if no pass died.     *)
THEOREM FullPasses == Spec => [](~ LiveEdits => FullPassPutsRight)
<1>1. RowsInv => (~ LiveEdits => ManualPrunesAll)
  <2> SUFFICES ASSUME RowsInv, ~ LiveEdits, NEW p \in Proc, pass[p].pc = "done",
                      pass[p].mode = "manual", alias # NoCollection, aborts = 0,
                      NEW pt \in points[Live]
               PROVE  pt.content \in Scanned(p)
    BY DEF ManualPrunesAll, Running
  <2>1. pt.id \in UuidsOf(manifest)
    BY Trustworthy DEF LiveIds, Ids
  <2>2. PICK c \in Content : pt.id \in manifest[c].uuids
    BY <2>1, InUuidsOf
  <2>3. c \in Recorded(manifest)
    BY <2>2 DEF RowsInv, IndexInv, RowsOK, Bare, Recorded
  <2>4. c \in Scanned(p)
    BY <2>3 DEF RowsInv, SteadyOK, PassIncremental
  <2>5. Live \in Collection /\ Made(points, manifest[c].uuids, c)
    BY <2>2, Constants DEF RowsInv, MadeOK, IndexInv, IInv, TypeOK, Live
  <2> QED BY <2>2, <2>4, <2>5 DEF Made
<1> QED BY <1>1, RowsInductive, RebuildsReset, PTL DEF FullPassPutsRight

-----------------------------------------------------------------------------
EmbedStep ==
    \A p \in Running :
      Recorded(manifest) \ Recorded(manifest') # {} /\ pass[p].mode # "rebuild"
        => Scanned(p) \subseteq Recorded(manifest)

LEMMA EmbedWork ==
    ASSUME RowsInv, NEW p \in Proc, pass[p].mode # "rebuild", WorkStep(p)
    PROVE  \/ Recorded(manifest) \subseteq Recorded(manifest')
           \/ Scanned(p) \subseteq Recorded(manifest)
<1>0. /\ IInv /\ TypeOK /\ PhaseOK /\ AliasSafe /\ PassIncremental(p)
      /\ pass \in [Proc -> PassState] /\ manifest \in [Content -> Row]
  BY DEF RowsInv, SteadyOK, IndexInv, IInv, TypeOK
<1>a. (\A c \in Content : manifest'[c].path = manifest[c].path)
        => Recorded(manifest) \subseteq Recorded(manifest')
  BY DEF Recorded
<1>b. pass[p].pc \in Pruning => Scanned(p) \subseteq Recorded(manifest)
  BY <1>0 DEF PassIncremental, Stays
<1>1. CASE \E f \in Path : HashNext(p, f)
  BY <1>1, <1>a DEF HashNext
<1>2. CASE ReadManifest(p)
  BY <1>2, <1>a DEF ReadManifest
<1>3. CASE \E c \in Content : OpenFile(p, c)
  BY <1>3, <1>a DEF OpenFile
<1>4. CASE UpsertBatch(p)
  BY <1>4, <1>a DEF UpsertBatch
<1>5. CASE RecordRow(p)
  <2>1. PICK row \in Row : /\ manifest' = [manifest EXCEPT ![pass[p].cur] = row]
                           /\ row.path = pass[p].scan[pass[p].cur]
    BY <1>0, <1>5, RecordRowDoes
  <2>2. pass[p].scan[pass[p].cur] # NoPath
    BY <1>0, <1>5, AtHandScanned, Constants DEF RecordRow
  <2>3. \A c \in Content : manifest'[c] = manifest[c] \/ manifest'[c].path # NoPath
    BY <1>0, <2>1, <2>2
  <2> QED BY <2>3 DEF Recorded
<1>6. CASE EndAdd(p)
  BY <1>6, <1>a DEF EndAdd
<1>7. CASE \E c \in Content : Reconcile(p, c)
  <2>1. \A c \in Content : manifest'[c].path = manifest[c].path
    BY <1>0, <1>7 DEF Reconcile, Returned, Row
  <2> QED BY <1>a, <2>1
<1>8. CASE RefreshName(p)
  BY <1>8, <1>a DEF RefreshName
<1>9. CASE SetPath(p)
  <2>1. manifest' = [manifest EXCEPT ![pass[p].cur].path = pass[p].scan[pass[p].cur]]
    BY <1>9 DEF SetPath
  <2>2. pass[p].scan[pass[p].cur] # NoPath
    BY <1>0, <1>9, AtHandScanned, Constants DEF SetPath
  <2>3. \A c \in Content : manifest'[c] = manifest[c] \/ manifest'[c].path # NoPath
    BY <1>0, <2>1, <2>2 DEF Row
  <2> QED BY <2>3 DEF Recorded
<1>10. CASE EndReconcile(p)
  BY <1>10, <1>a DEF EndReconcile
<1>11. CASE \E c \in Content : DropRow(p, c)
  BY <1>11, <1>b DEF DropRow, Pruning
<1>12. CASE DropPoints(p)
  BY <1>12, <1>a DEF DropPoints
<1>13. CASE \E c \in Content : MarkDeparted(p, c)
  <2>1. \A c \in Content : manifest'[c].path = manifest[c].path
    BY <1>0, <1>13 DEF MarkDeparted, Row
  <2> QED BY <1>a, <2>1
<1>14. CASE EndMark(p)
  BY <1>14, <1>a DEF EndMark
<1>15. CASE \E c \in Content : ReapPoints(p, c)
  BY <1>15, <1>a DEF ReapPoints
<1>16. CASE ReapRow(p)
  BY <1>16, <1>b DEF ReapRow, Pruning
<1>17. CASE EndIncremental(p)
  BY <1>17, <1>a DEF EndIncremental
<1> QED BY <1>0, <1>1, <1>2, <1>3, <1>4, <1>5, <1>6, <1>7, <1>8, <1>9, <1>10, <1>11,
           <1>12, <1>13, <1>14, <1>15, <1>16, <1>17, IncrementalWork

(* "Embed before prune": whatever happens to the tree, to other passes and *)
(* to earlier ones, an incremental pass takes a row away only when all     *)
(* that its scan saw has one.                                              *)
THEOREM PrunesLast == Spec => EmbedBeforePrune
<1>1. ASSUME RowsInv, [Next]_vars PROVE EmbedStep
  <2> SUFFICES ASSUME NEW p \in Proc, pass[p].pc # "idle", pass[p].mode # "rebuild",
                      ~ (Recorded(manifest) \subseteq Recorded(manifest'))
               PROVE  Scanned(p) \subseteq Recorded(manifest)
    BY DEF EmbedStep, Running
  <2>0. TypeOK /\ OneWriter
    BY <1>1 DEF RowsInv, IndexInv, IInv
  <2>1. CASE UNCHANGED vars
    BY <2>1 DEF vars
  <2>2. CASE Environment
    BY <2>0, <2>2, EnvironmentRows
  <2>3. ASSUME NEW q \in Proc, BeginStep(q) \/ EndStep(q) PROVE FALSE
    <3>1. manifest' = manifest
      BY <2>0, <2>3, BeginStepLocal, EndStepLocal
    <3> QED BY <3>1
  <2>4. ASSUME NEW q \in Proc, WorkStep(q)
        PROVE  Scanned(p) \subseteq Recorded(manifest)
    <3>1. pass[q].pc # "idle"
      BY <2>0, <2>4, WorkStepLocal DEF Keeps
    <3>2. p = q
      BY <2>0, <3>1, OthersIdle
    <3> QED BY <1>1, <2>4, <3>2, EmbedWork
  <2> QED BY <1>1, <2>0, <2>1, <2>2, <2>3, <2>4, NextCases
<1>2. RowsInv /\ [Next]_vars => [EmbedStep]_vars
  BY <1>1
<1>3. Spec => [][EmbedStep]_vars
  BY <1>2, RowsInductive, PTL DEF Spec
<1> QED BY <1>3 DEF EmbedBeforePrune, EmbedStep
=============================================================================
