# ragfarm: models, checks and proofs

ragfarm is a single-box retrieval-augmented chat system: documents are embedded
into a vector store and kept in line with a directory, one or two language models
are served by vLLM, a chat front end is provisioned with presets and tools, and a
handful of tool servers give the models a view of the data centre. This directory
holds TLA+ models of the parts of it that keep state and change it in steps, the
configurations TLC checks them under, and proofs checked by TLAPS.

Paths below are relative to `src/`. `tlc -config X.cfg M.tla` reproduces a run,
`tlapm M.tla` the proofs of the modules named `...Proofs`.

## 1. Inventory

| Part | Code | State it keeps | Operations |
|---|---|---|---|
| Corpus sync | `services/ingester/ingester.py`, `corpus_manifest.py` | manifest (SQLite, checksum -> point ids), Qdrant collections and alias, `manifest.db.lock` | incremental pass (by hand or by the watcher), `--recreate` |
| Corpus watcher | `ingester.py` `watch()`, `manifests/ragfarm-ingester-watcher.service` | dirty flag, time of last event, time of last scan | observer callback, debounce, backstop scan, pass under a non-blocking lock |
| LLM slots | `scripts/activate_llm.py`, `scripts/fetch_llm.py`, `models/llm/active.json`, `manifests/ragfarm-vllm@.service` | registry, `.env.slotN`, units, checkpoints on disk | bind, clear, status, add, sync, verify |
| Open WebUI provisioning | `infra/openwebui/setup_openwebui.py` | endpoints, presets, tool servers in Open WebUI's database | one convergent run: endpoints, tool, upsert presets, prune |
| Retrieval | `services/rag-retrieval/server.py` | none of its own (model handles) | embed, hybrid query, rerank, gate, expand with neighbours |
| Guarded reboot | `infra/openwebui/tools/reboot_guarded.py`, `services/mcp-host-control/server.py` | none between calls | plan, ask a person, execute (drain and reboot) |
| Agent harness | `scripts/agent.py` | the conversation of a turn | rounds of completion and tool calls, context bounding |
| Stack lifecycle | `scripts/stack.sh`, `scripts/mcpo-heal.sh`, `infra/compose.yaml` | units and containers | ordered start, stop, health, healing the tool gateway |
| Parsers | `ingester.py` chunking, `xlsx_tables.py` | none | text to chunks, sheets to row records |
| Read-only tool and model servers | `services/mcp-placement`, `mcp-fs`, `embedder` | none | request, response |
| Regression harness, deployment, tracing, diagrams | `tests/`, `scripts/` | none | one-shot tools |

How they interact. The watcher and a person at a terminal run the same sync code
in different processes and exclude each other by an advisory lock. The sync writes
the collection that retrieval reads through an alias, at the same time and without
a lock. `activate_llm.py` and `fetch_llm.py` share one JSON file with no lock at
all; `activate_llm.py` ends by running `setup_openwebui.py`, which reads that file
anew. systemd restarts units, and reads `.env.slotN` each time it does.

What is hard here, and what makes each part correct:

* **Corpus sync.** A pass is hundreds of calls to a file system, an embedder, a
  vector store and SQLite, none of them in one transaction; the tree changes while
  it runs and it can die between any two. Correct means: rows and points match;
  nothing that stood still is lost; old content goes after new content is there;
  a rebuild is never visible half-done; drift is repaired in the end.
* **Watcher.** Two threads share three fields without a lock; events may be
  missed; passes fail or are skipped. Correct means: no lost wake-up, staleness
  bounded by the scan interval, no pass that triggers the next one.
* **LLM slots.** One command makes four writes (registry, slot file, unit,
  presets), and may be killed between them; `active[]` is positional; GPU memory
  is shared by instances that do not know of each other. Correct means: the four
  agree, the sum of memory shares stays below the ceiling, presets name models
  that are served.
* **Parsers.** Where a paragraph, section or table ends is decided by shape and
  style, and text is carried from one chunk into the next. Correct means: nothing
  lost, nothing told twice, the cited lines and columns are the right ones.
* **Retrieval.** A query is several reads while a pass may replace what it reads.
  Correct means: what was scored is what is quoted, a passage has no gap, the cut
  never falls between equals.
* **Guarded reboot.** What a person approved and what is executed are computed
  separately; a call that timed out may have happened. Correct means: one approval,
  at most one reboot, and an answer that says what happened.
* **Agent harness.** Every tool call keeps exactly one result, however much of the
  conversation is elided.
* **Stack lifecycle.** The gateway mounts only the backends that listen when it
  starts; slots must not allocate GPU memory at the same time. Correct means: the
  healed gateway has every backend, slots start one by one, and a command ends.

The hazards, each at its line and with the properties that would catch it, are
listed in `PROJECT.json`.

## 2. Modules

| Module | Content |
|---|---|
| `CorpusIndex` | what a query can find while the ingester works: the abstract specification of the sync |
| `CorpusSync` | passes, manifest, vector store, alias, lock, tree; implements `CorpusIndex` |
| `CorpusSyncProofs` | inductive invariant and safety theorems of `CorpusSync`, the grace period; what collections hold: `CorpusSync` implements `CorpusIndex`, switches and rebuilds are complete; what rows are worth: served, whole, never taken from what stands still |
| `WatchLoop` | the watcher's threads, flags, lock, service restarts |
| `Chunking` | text to sections, paragraphs and overlapping chunks, and the joining of neighbours |
| `SheetTables` | worksheets to tables and row records |
| `Parsing` | `iter_file`: composes the two, and has csv and docx tables |
| `RelevanceGate` | floor, Kneedle cut, top k; maximal marginal relevance: operators only |
| `Retrieval` | one search in steps, against `CorpusIndex` as its environment |
| `LlmSlots` | registry commands, slot files, units, endpoints and presets |
| `GuardedReboot` | plan, decision, execution, from two clients |
| `AgentLoop` | the terminal agent; extends `GuardedReboot`, whose one client it is |
| `StackBoot` | `stack.sh`, the stack unit, the healer, the gateway |
| `WatchLoopProofs` | type, lost wake-ups and staleness of `WatchLoop` |
| `AgentLoopProofs` | approvals and answers of `AgentLoop` (and so of `GuardedReboot`'s actions), and its message list |
| `LlmSlotsProofs` | agreement, presets, what commands leave alone, types and memory in `LlmSlots` |
| `StackBootProofs` | what the gateway mounts and who allocates in `StackBoot` |
| `FoldLemmas` | what folds and recursive functions compute, for every input |
| `ParsingProofs` | the chunks of a text tell the text, and the records of a sheet its rows: followed through the folds of `Chunking` and `SheetTables` |
| `RetrievalProofs` | the algorithms of `RelevanceGate` and of the window around a hit, and every safety property of `Retrieval` |
| `MCCorpusSync`, `MCLlmSlots`, `MCRetrieval`, `MCParsing`, `MCStackBoot` | small instances for TLC |

How they compose. `CorpusSync` implements `CorpusIndex` (`ImplementsIndex`, with the
refinement mapping `target <- Resolved`, `served <-` the points of the collection
the name resolves to), and `Retrieval` takes a step of `CorpusIndex` for any change
of the index: so what a search may meet is what the sync may do, and no more.
`AgentLoop` extends `GuardedReboot` and runs its "cli" client inside a tool call,
while the front end's client goes on beside it. `Parsing` extends both parsers.
`CorpusSync` and `WatchLoop` are two views of one program: `CorpusSync` has every
step of a pass and lets the watcher start one whenever the lock is free; `WatchLoop`
has every step of the loop that decides *when*, and takes a pass for one read of the
tree followed by its effect. What `WatchLoop` takes for granted (a pass that ends
well has synced what it read) is what `CorpusSync` checks (`SteadyContentSafe`,
`Converges`); what `CorpusSync` takes for granted (a pass is begun again and again)
is what `WatchLoop` checks (`Settles`).

The operators whose names begin with `Bug` are the deliberate errors that
`PROJECT.json` "mutants" puts in place of a definition to see that a property
notices; nothing else refers to them.

### CorpusSync

| Variable | Code |
|---|---|
| `disk` | the corpus directory; `1 .. NumPaths` in the order `sorted(rglob)` gives |
| `manifest` | table `files`: `uuids`, `path`, `departed_at` by checksum |
| `colls`, `points` | Qdrant collections and what they hold |
| `alias` | what the alias names; before the first rebuild none, and a physical collection of that name (`Legacy`) may exist |
| `lock` | holder of the flock in `pass_lock` |
| `pass` | locals of `incremental` or `recreate` in each process |
| `edits`, `aborts` | bounds |
| `gone`, `steady` | history: how long content has been off the disk; the paths nobody touched since the pass began |

The actions follow the code from top to bottom: `Acquire` in `BeginIncremental`
or `BeginRebuild`; `HashNext` for each listed path (`HashVanished` when the file
goes between `is_file` and `open`); `ReadManifest`; per new content `OpenFile`,
`UpsertBatch` per batch, `RecordRow`; per content still there `Reconcile`,
`RefreshName`, `SetPath`; by hand `DropRow` then `DropPoints`; in the watcher
`MarkDeparted`, then `ReapPoints` before `ReapRow`; in a rebuild `ReplaceAll`,
then `SwitchAlias` and `DropOld`, or `DropLegacy` and `CreateAlias` the first
time. `Abort` is a killed process or a call that raises, anywhere.

Abstractions: bytes stand for their own blake2b checksum; 64 chunks are one point;
a uuid4 is any id that nothing refers to; departure is an age instead of a time
stamp, so that time need not be absolute; a path is its place in the sort order.
`Indexable` are the paths whose suffix `iter_file` knows: other content gets a row
without points, as in the code.

### CorpusIndex

Two variables: the collection the name `corpus` resolves to, and the points in it.
A batch of one file is published under ids that were free, what one row recorded is
withdrawn, a file's points are renamed, a rebuilt collection takes over whole, and a
legacy collection goes before its name is free (the one blackout). An id is one point
throughout (`OnePerId`): upserts are keyed by id, and the search relies on it. It has
neither manifest nor lock nor passes: those are how the sync brings it about.

### WatchLoop

`version` counts the changes of the tree. `events`, `armed` are the observer's
queue and the handler between its two assignments; `dirty`, `eventAge`, `scanAge`
are the fields of `state`, the time stamps as ages that saturate where they are
compared; `pc` is the loop. `observer` says, for a whole behaviour, whether events
can be missed. `synced`, `waiting`, `missed` are history. The handler's
two assignments are two steps and the loop may look in between.

### LlmSlots

`registry` is `active.json` with `active[]` positional and `null` as `Hole`;
`disk` the checkpoints; `env`, `unit`, `enabled` per slot; `endpoints`, `presets`
what Open WebUI has. `admin` holds the commands that run: each reads the registry
once, keeps that copy and writes it back. `torn` holds the slots that a command
has begun to change and not finished, `rebound` says that presets were rebound
since the registry changed; both are history, and both heal when a command runs
to its end. A behaviour begins without a registry, or with the one the repository
ships (`active.json`), whose bound slots are then `torn`: nothing on the machine is
set up for them yet. `AutoStart` is the set of slots that `activate_llm(1)` enables at
boot, slot 0. `validate` makes directory, alias and preset name of an entry unique,
so one model value stands for the three. Memory shares are small integers.
systemd is external: a unit that dies waits as `activating` and is started again
from the `.env.slotN` of that moment; `Type=` is not set, so it counts as active
the moment it is executed.

### Chunking, SheetTables, Parsing

A text is a sequence of sentences, each with its line, its number of words and the
separator before it. The parser's variables are the locals of
`_sections_from_lines` (`sec`, `sub`, `para`, `paraStart`, `blocks`, `sections`), one
action per kind of line; `EndOfText` flushes and then computes all chunks as the
generators do. `Pack` is one turn of the loop of `_chunk_blocks`. `ConcatDedup` is
the code of `rag-retrieval` that undoes the overlap.

A worksheet is a sequence of rows; a cell has a kind of value (number, text, long
text, address, identity label, nothing) and a style, a row its horizontal and
vertical merges. `ri`, `tnum`, `prevMulti`, `prevSingle` are the driver's locals, and
one step is one region. Scores of `_detect_header_row` are kept, as whole numbers:
shares of a row are counted in `Parts`, a number every possible count of cells divides
(12 for up to 4 columns), so that nothing is rounded. What labels say is left out, but for "is it an identity
column"; a record says which row each of its values comes from.

### RelevanceGate and Retrieval

`RelevanceGate` is pure; fractions are multiplied out. `Retrieval` has the steps of
`search_corpus`: embed, query, score, select, widen hit by hit, reply, and failure at
each call out. `rerank` chooses between the two selections, `k` is what the caller
asked for, negative values included. Any scoring of the pool is possible. `still`
and `changes` are history and bound. The scroll that looks for neighbours may return
any of the matches when there are more than its limit, and any of two at one place
wins.

### GuardedReboot and AgentLoop

`call` holds for each client the call it is in, or its last: where it is, whether it
was approved, how often the host was rebooted for it, whether an execution nobody
waits for is still under way, and what was answered. `allow` is the allow list, which a
restart of the service may change. `AgentLoop` adds `messages`, the tools that were
loaded, and the position in the turn; a message is a role, the calls it makes or the
call it answers, and whether its body was elided.

### StackBoot

`pc`, `next`, `tries` are `stack.sh`; `unit` the host units, a slot being off,
allocating, serving, waiting for its restart or failed; `stack` and `healTries` the
oneshot unit and its healer; `up`, `gateway`, `mounted` the containers. `Table` is
one look at all the rows.

## 3. What the runs check

Runs check for deadlock, except `Parsing`, where a file ends, and `Agent`, where the
program may.

| Run | Instance | What it shows |
|---|---|---|
| `SyncCrashes` | 2 paths, 2 contents, 3 collections, 2 deaths, 1 change between passes | one writer; no point in two rows; the alias resolves; a rebuild or a manual run puts right whatever came before; rows stand for the whole content; nothing is reaped early; deletions take only one's own points; the switch is complete; `CorpusIndex` is implemented |
| `SyncRaces` | the same tree, 2 changes at any time, time passes in the middle of passes, a legacy collection with a point | content that stood still is neither marked, pruned nor reaped and is served when a pass ends; rows and points match; nothing is pruned before what the scan saw is embedded |
| `SyncConverges` | 1 change at any time, fairness | drift is repaired for good |
| `WatchTree` | debounce 2, interval 4, passes up to 2, 2 changes, 1 failure, 1 kill, 1 manual run, sound and lossy observers, possibly no collection | no lost wake-up when events arrive; staleness at most interval plus pass when they do not; everything is synced in the end; passes do not feed themselves |
| `SlotCommands` | 2 slots, 2 models, any number of killed commands, unit deaths, boots | registry, slot file, unit, autostart agree; memory stays within the ceiling; presets follow; slots do not move; registered checkpoints are not deleted |
| `Search` | pools of up to 4 of 5 points, 3 scores, k of -1, 2 and 5, either selection, 1 change of the index anywhere | the cut is at a real drop, keeps the best, leaves something; the other selection takes one of a cluster; quotes are passages around what was scored; no text of another file while the index is still |
| `Parsing` | texts of up to 5 lines of 1 to 3 sentences, with headings; sheets of up to 3 rows of 11 kinds, and 5 layouts of up to 7 rows | chunks are the text; records are the rows |
| `Agent` | 2 turns of 2 rounds of up to 2 calls, one host, 2 clients | every call has its result whenever the model is asked; only the oldest are elided; what was said stays; at most one reboot for one approval; answers are true |
| `Stack` | 2 slots, 1 service, 3 backends, 2 faults, waits of 1 or 2 looks | the healed gateway mounts everything; slots allocate one at a time; a command ends |

Why these bounds are enough to be interesting. Two paths hold the same content, swap
contents or are renamed onto each other; two contents, one in two batches, let a
pass die between batches and between files; three collections let a rebuild die
and another succeed beside the live one; two deaths let one pass die after another
that died; `Grace` of one tick separates marking from reaping, and `MaxLag` lets a
tick fall between the pass's reading of the clock and its use. `PointId` has as many
ids as a behaviour can need before an older one is free. The watcher's interval is
longer than its debounce and its passes, as the defaults are (600 s, 10 s), and
`MaxWait` counts past the bound checked. Two slots have a hole when the first
is cleared; both models fit together, the larger one twice does not. In `Search` one
file has three chunks and a new version of one chunk, so that a hit can lose its
neighbours, or find a stranger in its place, between two reads; four candidates are
enough for a knee, and the gate's `MinSet` is 2. With a target of 3 words, a ceiling
of 4 and lines of 1 to 4 words, sections are split within paragraphs, between them
and not at all, and overlaps are one sentence over the budget, within it, or none.
The sheets' layouts are the ones the code's comments name: stacked tables, titles
with and without a header, bands after a blank row, trailing totals. Two calls of a
completion and `Keep` of 2 make elision cut through the results of one message. Two
faults let the gateway lose a backend after it was healed, or the host go down in the
middle of a start.

Properties that hold only under a condition say so in their formula: `NoLostWakeup`
if the observer delivers events, `FullPassPutsRight` for a manual run if no pass died,
`GraceHonoured` if the tree changed once, `WithinBudget` and `SlotsAgree` where no slot
is left half-changed, `NoUnrelatedTextWhenCalm` if the index stood still and no two
files share a name, `MountsEverything` if the healer saw all backends and none died
since, `OneAllocation` unless a wait ran out or a slot came back by itself,
`TablesReadAsWritten`, but for what is borrowed, for sheets as `Stacked` and `Sectioned`
describe them.
`SlotCommands` has one terminal; `FetchRace` has two.

### Where the code and its documentation disagree

| Run | Property that fails | In short |
|---|---|---|
| `DriftRace` | `RowsHoldTheirContent` | a file rewritten between hashing and embedding is recorded under the old checksum |
| `CrashRebuild` | `RowsAreServed` | a rebuild that dies between `replace_all` and the alias switch leaves a manifest for a collection that is not live |
| `FetchRace` | `SlotsAgree` | `fetch_llm.py` writes back the registry it read before its download |

Seen while modelling, and left to conditions or notes:

* Sync. A pass that dies between an upsert and its row, or between a row and its
  points in a manual prune, leaves points no incremental pass finds; a file that
  blinks back between two passes keeps its first departure mark; content first seen
  under an unknown suffix is not embedded after a rename; an incremental pass accepts
  a legacy collection where ADR-0006 says it refuses; the watcher's first pass and
  its backstop do not wait for quiescence; a pass skipped for the lock waits for the
  backstop, not for the next tick (`ingester.py:754` resets the flags before the
  lock is tried); `SystemExit` from `live_collection` ends the watcher, which systemd
  starts again.
* Slots. A model bound to one slot can be bound to another (`activate_llm.py:373`),
  after which `validate` refuses every command; `RAGFARM_KV_GIB` for one command
  counts for all slots in its sum (`activate_llm.py:368`), not what they were
  granted; `fetch_llm.py --sync` raises on a hole in `active[]`; clearing the last
  slot writes the built-in table's presets.
* Prose. The overlap is joined with blanks where the paragraphs were joined with
  newlines, so `_concat_dedup` finds no border over several paragraphs and repeats
  them; a chunk with its overlap can be larger than the "hard ceiling".
* Sheets. A row whose identity cell is in a vertical merge is dropped, although the
  merge would fill it (`_row_is_data` reads the raw cell); notes and totals that have
  something in the identity column stay; a narrow table above a wide one can lose its
  header, and a header under a bold band can score below the last row; data right
  under a title with no header before loses a row; tables beyond
  `MAX_TABLES_PER_SHEET` are left out silently.
* Retrieval. Payloads keep a file's name without its directory: two `README.md` are one
  file to `_expand`, whatever its comment says of unrelated text. With
  `RAG_EXPAND_NEIGHBORS` of 2 or more (1 as shipped), a neighbour that is missing or does
  not fit the cap is passed over and a farther one taken (the loop at `server.py:251`, for
  its comment "nearest neighbors, until the word cap"), so the passage has a gap:
  `WindowIsAPassage` asks for none with `Expand <= 1`.
* Reboot. The front end's tool does not look at the HTTP status, so an error of the
  gateway after the host was rebooted reads "could not proceed"; a declined call says
  that no changes were made although an earlier one, timed out, may be under way.
* Stack. `health` does not look at host-control's mount, the one the healer's comment
  names; `stack.sh start` on a stack unit that is active heals nothing.

### Fairness

`CorpusSync!FairSpec`: a pass that has begun goes on (`WF` of `Progress`: the code
never waits inside a pass except for calls that return or raise); the watcher begins
a pass whenever the lock stays free (`WF` of `BeginIncremental(Watcher)`: the
backstop of `watch()`, every `INGEST_SCAN_INTERVAL`); time passes (`SF` of `Tick`,
strong only because `MaxLag` disables it inside a pass). No edit and no manual run
is ever obliged to happen.

`WatchLoop!Spec`: the loop, the clock, the observer's queue and its handler are
threads that run; a command-line run ends; systemd restarts the service
(`Restart=on-failure`). Failures and kills are bounded, changes too: the question is
what happens after the last one.

`StackBoot!Spec`: the script goes on, and so does the unit that compose and the healer
run in; both only ever make bounded numbers of looks. Nothing that is waited for is
assumed to happen. The other modules state no fairness and no liveness.

## 4. What is proved

`CorpusSyncProofs` proves, for every tree, content, number of batches, set of
processes and collections, grace period and bound:

| Theorem | Property |
|---|---|
| `Inductive` | `IInv` |
| `TypeCorrect` | `TypeOK` |
| `MutualExclusion` | `OneWriter` |
| `DisjointUuids` | `UuidsDisjoint` |
| `AliasNeverDangles` | `AliasResolves` |
| `BlindDeletionIsSafe` | `OwnPointsOnly` |
| `GraceIsKept` | `GraceHonoured` |

Assumptions are those `CorpusSync` names on its constants: `NoFile`, `NoCollection`
and `Nobody` are not members of the sets they stand outside of, the watcher is not a
command-line run, `NumBatches` is a function to the naturals, bounds are naturals.
None is on sizes, and TLC evaluates them in every run.

The argument. None of the properties is inductive by itself: that deleting recorded
ids is safe depends on ids at hand being in no row, which depends on there being one
writer, which depends on every pass that is not idle holding the lock. The
inductive invariant `IInv` is the conjunction

* `TypeOK`;
* `OneWriter`: a process runs a pass exactly when it holds the lock, so in the step
  of one pass all others are idle and say nothing;
* `PhaseOK`: what a pass has at hand was seen by its scan, and its collection is set;
* `UuidsApart`: rows share no ids, ids being collected or pruned are in no row,
  and what the reaper will delete is still what the manifest records;
* `AliasSafe`: the alias names a collection that exists, a rebuild works on one that
  is neither the live nor the legacy one, and what it retires is not live.

The lemmas go by part of the invariant and by group of actions (`EnvironmentType`,
`BeginType`, `ScanType`, ...; `PhaseWork`, `AliasWork`, `UuidsWork`, ...); inside each,
one step per action. The only fact
about fresh ids that is used is that they are in use nowhere. `OwnPointsOnly` is an
action property and follows from the invariant before the step.

`GraceIsKept` needs more than `IInv`, because whether a mark is as old as the absence it
stands for depends on everything a pass read before it set one. `GraceInv` is
`KeptOK` (a mark is on a row, the clock a pass goes by was read in it, what it still works
through is in the manifest), `StillOK` as long as nothing was edited (a finished scan has all
of the tree, nothing else has a row and nothing is marked) and `MarksOK` up to the first
edit (a mark is no older than the absence; content that is on disk and marked all the
same is among what the pass at work will reconcile; what is about to be reaped is
overdue). The second implies the third, which is the step of the edit itself
(`MarksStep`, `EditsCount`). With a second edit it is false: a file that comes
back between two passes keeps its first mark.

The second part of `CorpusSyncProofs` goes on from there, to what the collections hold, with no further
hypothesis than that a collection older than the manifest is keyed by id like any other
(`LegacyAssumption`):

| Theorem | Property |
|---|---|
| `IndexInductive` | `IndexInv` |
| `SwitchesAreComplete` | `SwitchIsComplete` |
| `RebuildsReset` | `RebuildResets`, the half of `FullPassPutsRight` about rebuilds |
| `SyncImplementsIndex` | `ImplementsIndex` |

`IndexInv` adds to `IInv`

* `StoreOK`: a collection keeps one point under an id, one that is gone is empty, an
  incremental pass works on what answers queries, and each kind of pass keeps to its
  phases;
* `ScanOK`: a path of the scan stands for one content, and is not to be hashed again;
* `RowsOK`: no row, no ids; a rebuild's row list has the contents it has added, under
  the paths of the scan, and after `ReplaceAll` the manifest has;
* `PointsOK`: a rebuild's collection holds exactly the ids of its row list and of the
  file at hand, under those files' names; from `ReplaceAll` on, those of the manifest;
* `FilesOK`: each file of a rebuild is in its collection once and whole, and the file at
  hand lacks as many batches as are left;
* `ContentOK`: points under one row's ids, or at hand, were made from one content, and
  until it prunes an incremental pass goes by ids the manifest still has.

`FilesOK` and `ContentOK` are there for the refinement alone: `Index!Replace` asks for a
collection in which every file is whole, `Index!Withdraw` and `Index!Rename` for points of
one content. The refinement has one lemma per kind of step (`PublishStep`, `WithdrawStep`,
`RenameStep`, `ReplaceStep`); steps that touch neither the alias nor the collection
behind it map to stutters. It holds with edits during passes: a file rewritten between
hashing and embedding is recorded under a wrong checksum, but its points still come from
one reading of it.

The third part proves what the manifest's rows are worth, with edits, other passes and
bounds as they may be. What does not hold of the code as it is holds under a
hypothesis, which is part of the theorem, and a run has the counterexample without it:

| Theorem | Property | As long as |
|---|---|---|
| `RowsInductive` | `RowsInv` | |
| `SteadyIsKept` | `SteadyContentKept` | |
| `PrunesLast` | `EmbedBeforePrune` | |
| `SteadyIsSafe` | `SteadyContentSafe` | no pass was killed (`aborts = 0`) |
| `RowsAnswer` | `RowsAreServed` | no pass was killed: `CrashRebuild` |
| `NothingIsOrphaned` | `NoOrphans` | no pass was killed |
| `RowsAreWhole` | `RowsHoldTheirContent` | the tree stands still during passes (`~ LiveEdits`: `DriftRace`) and each suffix has a parser (`Indexable = Path`) |
| `FullPasses` | `FullPassPutsRight` | the tree stands still during passes |

A pass that loses a file between scan and embedding and so ends early is not "killed": it
leaves nothing at hand, and these theorems hold of it. The parts of `RowsInv` are `SteadyOK` (what
stands still is in the listing or the scan; what the scan saw is recorded, and marked as
departed only until it is reconciled; what is pruned the scan did not see), `ServedOK` (ids of
rows are behind the name, except between `ReplaceAll` and the switch and for the row whose
points were just reaped; ids behind the name are in rows or at hand), `MadeOK` and
`CountsOK` (points of a row are made from its content; a row has as many as the content has
batches). The
exceptions in `ServedOK` are the windows in which a kill does the damage: the order of
writes inside them is what a test would have to hit.

`WatchLoopProofs` proves, for every debounce, interval, length of passes and numbers of
changes, failures, kills and manual runs, from `ConstantsAssumption`:

| Theorem | Property |
|---|---|
| `TypeCorrect` | `TypeOK` |
| `NoWakeupIsLost` | `NoLostWakeup` |
| `StalenessIsBounded` | `BoundedStaleness` |

`NoLostWakeup` is inductive together with `ScanOK` (what is synced is no newer than what
the pass at work has read, and that no newer than the tree) and `LockOK` (the lock is the
loop's only while it is in a pass, and nobody else's once the manual runs are spent): a
change while a pass works leaves an event or the flag, because the flag was cleared before
the tree was read. `StalenessIsBounded` has one assumption of
its own, `MaxPass < ScanInterval`, which the run meets: with longer passes the next scan is
due before the last one ended. Its invariant `Waits` relates three clocks: outside a
pass, what waits has waited no longer than since the last flag; in a pass, no longer
than an interval before the pass began; and what the pass missed is younger than the pass.

`AgentLoopProofs` proves, for every set of hosts and tools and any
number of turns, rounds, parallel calls and kept results, from `BoundsAssumption`:

| Theorem | Property |
|---|---|
| `EveryRebootApproved` | `OneRebootPerApproval` |
| `AnswersAreTrue` | `SaysWhatHappened` |
| `CallsAreAnswered` | `EveryCallAnswered` |
| `NothingIsDropped` | `HistoryKept` |
| `OldestGoFirst` | `OldestElided` |

For the first two the invariant is `CallOK`: for each client, `Stage` says what can have
happened at each position of a call (nothing before the execution, only after a
yes; what comes late belongs to a call that was given up and has done nothing). For
the history it is `HistoryOK`: `Told` says that behind each completion stand its results
and nothing else, as far as there are messages, `Waits` that only the last completion
lacks any, namely as many as there are calls pending, and `SystemFirst` that what a reset keeps is
the system message. It is proved for an arbitrary list, one lemma for each way of adding a message and one
for the elision. `OldestElided` needs `GoneOK` besides: the elided bodies are a prefix of
the results with `Keep` others behind them, and during a turn all lie before its
prompt. That step counts, with `FiniteSetTheorems`, the results behind one that goes.

`LlmSlotsProofs` proves, for any number of slots and models, any weights, ceiling and
tables, from `SlotsAssumption` and `ShippedAssumption` (the registry that comes with the
repository is one `validate` accepts the shape of):

| Theorem | Property |
|---|---|
| `SlotsAlwaysAgree` | `SlotsAgree` |
| `PresetsAlwaysFollow` | `PresetsFollowSlots` |
| `CommandsKeepApart` | `CommandsKeepToTheirOwn` |
| `SlotTypes` | `TypeOK` |
| `BudgetHolds` | `WithinBudget` |

Each assumes `OneTerminal`, that `Admin` has at most one member. Without it they are
false: `FetchRace` is the counterexample with two, and the code has no lock that would
exclude it. The invariant has two parts. `World` is about what stays when a command is
killed: the registry is `Sound` (each index in `active[]` points into `downloaded[]`), slots
agree, and presets follow once rebound. `Work` is about the command that runs: up to its
write, the copy it goes by is still the registry, and after it, each later position says
which of the four writes are done, for a slot that is in `torn`. Most of the rest is what
binding, clearing (`Padded`, `Trimmed`) and appending do to the slots they are not about,
for sequences of any length.

Types are not as simple as elsewhere: that a grant is at most `Ceiling` and a
registry has no more than `NumSlots` places is what commands check. `SizedInv` adds that
no model is in the registry twice (`Proper`) and that a command past its check has one it may
grant (`Admitted`); it assumes `SizesAssumption`: models are finitely many, and the registry
that is shipped has none twice and no more places than there are slots. `BudgetHolds` assumes further that one share for the KV cache is used
throughout (`OneTarget`): the command computes the sum of all slots with its own
`RAGFARM_KV_GIB` and not with what the others were granted, so with two values the sum
it compares is of something else. `BudgetInv` says what that sum bounds: from `bind` on, the
registry that will be written is `Affordable`; a registry that is not has all its
slots in `torn`; each slot file grants what its model needs. From there the sum over the
running units is one over fewer and smaller terms (`SumMonotone`, `SumPart`).

`StackBootProofs` proves, for any number of slots, services and backends and any patience,
from `StackAssumption` (`Slots` and `Services` are sequences, not both empty):

| Theorem | Property |
|---|---|
| `HealedGatewayHasAll` | `MountsEverything` |
| `SlotsAllocateInTurn` | `OneAllocation` |

`MountOK`: while no backend died since the healer saw them all, all are up, so whatever
starts the gateway again mounts them all. `AllocOK`: until a wait runs out, what allocates
is the slot whose `Turn` it is, the one the script waits for, or before its turn the one a
boot has started.

`FoldLemmas` has no theorem about the code; it is how the others speak of what a recursive
definition computes for *every* input. The library's induction theorems take an operator
and cannot be used, but its well-foundedness of the naturals can: a nonempty set of sizes
has a least member (`LeastMember`), so what is shown of each size from smaller ones
holds of all (`UpTo`, `SmallestSet`). A fold of the community modules is a
`CHOOSE` of a function that meets its equation on all subsets; `AFold` and `ARecursion` show
there is one. The rest says how sums over sets, maxima, greedy choices and sorting by
counting predecessors behave.

`RetrievalProofs` proves, for every set of points, scores, callers' `k`, candidates,
expansion and cap, and with the index changing at any time as `CorpusIndex` lets it:

| Theorem | Property | As long as |
|---|---|---|
| `SearchTypes` | `TypeOK` | |
| `SelectsSoundly` | `SelectionIsSound` | `RAG_MMR_LAMBDA` below one half; 0.3 as shipped |
| `PassageQuoted` | `QuotesAPassage` | |
| `CalmAnswers` | `NoUnrelatedTextWhenCalm` | |

Assumptions are `RetrievalAssumption` (bounds and scores are naturals, similarity is
symmetric) and `PointAssumption` (points are finitely many, their ids, places and words are
numbers, and a point keeps its place under its id). The algorithms come first, each
for every input: the pool is in order and nothing is left out (`PoolInOrder`,
`RankInOrder`); what survives the floor is a prefix, and where the knee is the scores drop by at
least the average slope (`WhatSurvives`, `SteepAtKnee`); the greedy choice of `Mmr` takes
the worthiest of the rest at every turn (`MmrPicks`), and below one half a fresh one is
worth more than a repetition (`FreshIsWorthMore`), which is all of `OnePerCluster`; the
window around a hit stays within the cap and skips nothing when it looks one place to
each side (`AWindow`, `NoGap`). The invariant `SearchInv` then is short: `IndexOK` (an id is one point),
`CallOK`, `PoolOK` (scores and candidates match and descend), `HitsOK` (no more hits than asked for),
`CalmOK` (what was read is still there while the index is still) and `AnswersOK` (each
answer is a passage around its hit).

`ParsingProofs` proves, for every text of any lines and headings, in every format, and for
every ceiling and overlap; and for every sheet of any number of columns, with any rows,
cells, styles and merges:

| Theorem | Property | As long as |
|---|---|---|
| `ChunksTell` | `ChunksTellTheText` | `Target <= Ceiling`; 300 and 480 words as shipped |
| `RowsAreTold` | `RowsTellTheSheet` | |
| `ParsingTypes` | `TypeOK` | `Target <= Ceiling` |

Beside that it uses `ChunkAssumption`: a line has a sentence and a sentence a word, no
heading is empty, bounds are naturals; and `SheetAssumption`: rows are as wide as the
sheet, which has a column, and a sheet may have a table. Chunks come out of nested folds (lines to
paragraphs, those to blocks and units, those to a packer, its chunks to sections), which
are first turned into step-by-step equations (`JoinSteps`, `UnitsSteps`, `PackSteps`,
`TotalSteps`, `EmitSteps`). What they are followed along is the text: a `Part` of it stands
from one place to another, whatever separates its sentences, and a `Cut` is a row of
places between parts. `UnitsTell` says that units are cuts of their section and
small, or one sentence. `Opens` is the loop invariant of the packer: the open chunk is what
stands from where it began up to the last unit, after the tail it carries, and what is
closed lies before it, chunk by chunk (`PackStep`). `BlocksTold`, `SectionTold` and
`EmitTells` go from one section to all of them, and `TellingTells` from there to the
five parts of the property; `BorderIs` among them shows that the longest common border is
just what was carried: every sentence is unlike any other, so a longer one cannot match. While a file is read, the
invariant is `Kept`: closed sections tell the text up to one place, the blocks of the
open one up to the next, the open paragraph the rest, and the lines they cite do not go
back. `Target <= Ceiling` is needed: a chunk is closed at the target, and nothing else in
the packer would keep it below the ceiling.

For sheets the invariant is `SheetInv`: what was told is of rows before `ri`, in tables
before `tnum`, with rows and tables in order (`Listed`), and the headers kept for reuse are
of columns of the sheet. A region only appends rows between its own first row and its
end, and the driver goes past that end, never back (`Passed`); so all the code decides by
shape and style, that is where a header is, how many rows it has, which labels are
borrowed from an earlier one and where the region stops, is followed just as far as the
rows it may choose from (`BelowIs`, `FirstDataIs`, `LastDataRowIs`). The folds over
rows become step-by-step equations here too (`RawSteps`, `KeyedSteps`, `RowSteps`). A plain
table has its own argument (`KeyedExactly`): every row below the header adds one record or
none, and whether it does is what `KeyedRowsComplete` says. `ParsingTypes` adds that a
chunk begins on a line of the text, and that what it carries is shorter than the chunk.

Only model-checked: all liveness (`Converges`, `Settles`, `EventPassesStop`,
`CommandEnds`), which with fairness is out of this prover's reach; and of `Parsing`
`TablesReadAsWritten`. That says the heuristics recognise the tables people write, which is
so for the layouts and rows of `MCParsing` and not for arbitrary ones: with headers that
score badly, or bands and merges elsewhere, the code does lose rows (section 3, Sheets),
so there is no theorem of that form for every `RowKind`.

## 5. Not modelled, and why

* Errors of Qdrant that are swallowed: `resolve_alias` takes any for "no alias". In
  the model an error ends the pass. What would follow depends on how the vector store
  answers `collection_exists` and a deletion under the name of an alias, which nothing
  under `src/` shows.
* Two instances of vLLM profiling GPU memory at the same time: `LlmSlots` and
  `StackBoot` have the waits that are to prevent it, not the profiling.
* The wording of table labels (duplicates, band names in front of them), Markdown
  stripping, language detection: formatting.
* Rounding of floating point scores: two nearly equal scores may be ordered either
  way.
* Open WebUI provisioning beyond endpoints and presets: tool servers and the reboot
  tool are written by single idempotent calls, the tuning table is data.
* `stack.sh` without an installed stack unit, and host units that are not installed;
  `TimeoutStartSec=300` against a healer that takes longer.
* Read-only tool servers, embedder: no state. Regression harness, deployment,
  tracing, diagrams: one-shot scripts, I/O and formatting.

## 6. Plan

What remains worth doing, in this order: the rest of the provisioning; an alias that
cannot be read (`resolve_alias` under errors), once the vector store's answers are pinned
by a test.
