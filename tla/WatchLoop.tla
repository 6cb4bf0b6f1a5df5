------------------------------ MODULE WatchLoop ------------------------------
(***************************************************************************)
(* When the corpus watcher runs a pass: ingester.py watch(), its observer  *)
(* thread, the lock it shares with command-line runs, and the service      *)
(* manager that restarts it.  What a pass does is CorpusSync; here it      *)
(* reads the tree once and ends by having synced what it read.             *)
(*                                                                         *)
(* The tree is a version number: every change makes a new one.  Time is    *)
(* relative: `now - last_event` and `now - last_scan`, in seconds of the   *)
(* loop's sleep, saturating at the value they are compared with.           *)
(***************************************************************************)
EXTENDS Naturals

CONSTANTS
    Debounce,       \* INGEST_DEBOUNCE
    ScanInterval,   \* INGEST_SCAN_INTERVAL
    MaxPass,        \* bound: seconds a pass takes
    MaxVersion,     \* bound: changes made to the tree
    MaxManuals,     \* bound: command-line runs
    MaxFails,       \* bound: passes that raise
    MaxKills,       \* bound: times the process is killed
    MaxWait,        \* bound: seconds of staleness that are counted
    Observers       \* does the observer miss events?  "sound", "lossy"

Version == 0 .. MaxVersion

ASSUME ConstantsAssumption ==
    /\ Debounce \in Nat \ {0} /\ ScanInterval \in Nat \ {0}
    /\ MaxPass \in Nat /\ MaxVersion \in Nat /\ MaxManuals \in Nat
    /\ MaxFails \in Nat /\ MaxKills \in Nat /\ MaxWait \in Nat
    /\ Observers \subseteq {"sound", "lossy"}

VARIABLES
    version,    \* the tree
    observer,   \* whether the observer can miss events; never changes
    events,     \* kinds of event the observer has queued
    armed,      \* the handler has set dirty, last_event comes next
    dirty,      \* state["dirty"]
    eventAge,   \* now - state["last_event"]
    scanAge,    \* now - state["last_scan"]
    pc,         \* where the loop is
    slept,      \* time.sleep(1.0) is over
    cause,      \* what the last pass was due to: an event or the backstop
    passAge,    \* seconds the running pass has taken
    seen,       \* the version the running pass has read
    lock,       \* who holds pass_lock
    ready,      \* a collection, or alias, to sync exists
    budget,     \* what is left of the bounds
    synced,     \* history: the last version a finished pass had read
    waiting,    \* history: seconds the oldest unsynced change has waited
    missed      \* history: ... the oldest change the running pass has not read

source  == <<version, observer>>
watched == <<events, armed>>
flags   == <<dirty, eventAge, scanAge>>
loop    == <<pc, slept, cause, passAge, seen>>
history == <<synced, waiting, missed>>
vars    == <<source, watched, flags, loop, lock, ready, budget, history>>

TypeOK ==
    /\ version \in Version /\ observer \in Observers
    /\ events \subseteq {"mutate", "read"} /\ armed \in BOOLEAN
    /\ dirty \in BOOLEAN
    /\ eventAge \in 0 .. Debounce /\ scanAge \in 0 .. ScanInterval
    /\ pc \in {"sleep", "decide", "flag", "try", "scan", "work", "down"}
    /\ slept \in BOOLEAN /\ cause \in {"event", "scan"}
    /\ passAge \in 0 .. MaxPass /\ seen \in Version
    /\ lock \in {"free", "watch", "manual"} /\ ready \in BOOLEAN
    /\ budget \in [manuals : 0 .. MaxManuals, fails : 0 .. MaxFails,
                   kills : 0 .. MaxKills]
    /\ synced \in Version /\ waiting \in 0 .. MaxWait /\ missed \in 0 .. MaxWait

FullBudget == [manuals |-> MaxManuals, fails |-> MaxFails, kills |-> MaxKills]

(* watch() starts dirty, with both timestamps in the distant past. *)
Init ==
    /\ version = 0 /\ observer \in Observers
    /\ events = {} /\ armed = FALSE
    /\ dirty = TRUE /\ eventAge = Debounce /\ scanAge = ScanInterval
    /\ pc = "sleep" /\ slept = FALSE /\ cause = "event"
    /\ passAge = 0 /\ seen = 0
    /\ lock = "free" /\ ready \in BOOLEAN
    /\ budget = FullBudget
    /\ synced = 0 /\ waiting = 0 /\ missed = 0

-----------------------------------------------------------------------------
(***************************************************************************)
(* The tree and its observer.  Opening a file for writing, closing,        *)
(* removing or renaming one is a new version and a mutating event.  A      *)
(* watcher that is down observes nothing.                                  *)
(***************************************************************************)
Emit(kind) == events' = IF pc = "down" THEN events ELSE events \cup {kind}

Change ==
    /\ version < MaxVersion
    /\ version' = version + 1
    /\ \/ Emit("mutate")
       \/ observer = "lossy" /\ UNCHANGED events
    /\ UNCHANGED <<observer, armed, flags, loop, lock, ready, budget, history>>

(* on_any_event: bare reads are ignored; dirty and last_event are two      *)
(* assignments, and the loop's thread may look between them.               *)
BugMutating == {"mutate", "read"}               \* mutant: reacts to reads
Mutating    == {"mutate"}

OnEvent(kind) ==
    /\ kind \in events /\ ~ armed /\ pc # "down"
    /\ events' = events \ {kind}
    /\ IF kind \in Mutating THEN armed' = TRUE /\ dirty' = TRUE
                            ELSE UNCHANGED <<armed, dirty>>
    /\ UNCHANGED <<source, eventAge, scanAge, loop, lock, ready, budget, history>>

StampEvent ==
    /\ armed /\ pc # "down"
    /\ armed' = FALSE
    /\ eventAge' = 0
    /\ UNCHANGED <<source, events, dirty, scanAge, loop, lock, ready, budget, history>>

-----------------------------------------------------------------------------
(***************************************************************************)
(* The loop.                                                               *)
(***************************************************************************)
Sleep == pc' = "sleep" /\ slept' = FALSE

Wake ==
    /\ pc = "sleep" /\ slept
    /\ pc' = "decide"
    /\ UNCHANGED <<source, watched, flags, slept, cause, passAge, seen, lock,
                   ready, budget, history>>

BugDueScan == FALSE                             \* mutant: no backstop
DueScan    == scanAge >= ScanInterval
DueEvent   == dirty /\ eventAge >= Debounce

Decide ==
    /\ pc = "decide"
    /\ IF DueEvent \/ DueScan
       THEN /\ pc' = "flag"
            /\ cause' = IF DueScan THEN "scan" ELSE "event"
            /\ UNCHANGED slept
       ELSE Sleep /\ UNCHANGED cause
    /\ UNCHANGED <<source, watched, flags, passAge, seen, lock, ready, budget, history>>

(* Both flags are reset before the pass, so that an event during the pass  *)
(* counts for the next one.                                                *)
Flag ==
    /\ pc = "flag"
    /\ dirty' = FALSE /\ scanAge' = 0
    /\ pc' = "try" /\ passAge' = 0
    /\ UNCHANGED <<source, watched, eventAge, slept, cause, seen, lock, ready,
                   budget, history>>

(* pass_lock(blocking=False): skip if a command-line run holds it.         *)
SkipPass ==
    /\ pc = "try" /\ lock # "free"
    /\ Sleep
    /\ UNCHANGED <<source, watched, flags, cause, passAge, seen, lock, ready,
                   budget, history>>

StartPass ==
    /\ pc = "try" /\ lock = "free" /\ ready
    /\ lock' = "watch" /\ pc' = "scan"
    /\ UNCHANGED <<source, watched, flags, slept, cause, passAge, seen, ready,
                   budget, history>>

(* live_collection raises SystemExit, which `except Exception` does not    *)
(* catch: the process ends.                                                *)
ExitPass ==
    /\ pc = "try" /\ lock = "free" /\ ~ ready
    /\ pc' = "down"
    /\ events' = {} /\ armed' = FALSE
    /\ UNCHANGED <<source, flags, slept, cause, passAge, seen, lock, ready,
                   budget, history>>

ReadTree ==
    /\ pc = "scan"
    /\ seen' = version
    /\ Emit("read")
    /\ pc' = "work"
    /\ missed' = 0
    /\ UNCHANGED <<source, armed, flags, slept, cause, passAge, lock, ready,
                   budget, synced, waiting>>

BugEndPass ==                                   \* mutant: resets the flag again
    /\ pc = "work"
    /\ Sleep /\ lock' = "free" /\ dirty' = FALSE
    /\ synced' = seen
    /\ waiting' = missed /\ missed' = 0
    /\ UNCHANGED <<source, watched, eventAge, scanAge, cause, passAge, seen, ready,
                   budget>>

EndPass ==
    /\ pc = "work"
    /\ Sleep /\ lock' = "free"
    /\ synced' = seen
    /\ waiting' = missed /\ missed' = 0
    /\ UNCHANGED <<source, watched, flags, cause, passAge, seen, ready, budget>>

(* The pass raises; the exception is logged and the loop goes on.          *)
FailPass ==
    /\ pc \in {"scan", "work"}
    /\ budget.fails > 0
    /\ budget' = [budget EXCEPT !.fails = @ - 1]
    /\ Sleep /\ lock' = "free"
    /\ UNCHANGED <<source, watched, flags, cause, passAge, seen, ready, history>>

-----------------------------------------------------------------------------
(* The process dies, and systemd (Restart=on-failure) starts it anew.      *)
Kill ==
    /\ pc # "down" /\ budget.kills > 0
    /\ budget' = [budget EXCEPT !.kills = @ - 1]
    /\ pc' = "down" /\ events' = {} /\ armed' = FALSE
    /\ lock' = IF lock = "watch" THEN "free" ELSE lock
    /\ UNCHANGED <<source, flags, slept, cause, passAge, seen, ready, history>>

Restart ==
    /\ pc = "down"
    /\ Sleep
    /\ dirty' = TRUE /\ eventAge' = Debounce /\ scanAge' = ScanInterval
    /\ cause' = "event" /\ passAge' = 0 /\ seen' = 0
    /\ UNCHANGED <<source, watched, lock, ready, budget, history>>

(* A command-line run, which may be the first --recreate. *)
BeginManual ==
    /\ lock = "free" /\ budget.manuals > 0
    /\ lock' = "manual"
    /\ budget' = [budget EXCEPT !.manuals = @ - 1]
    /\ UNCHANGED <<source, watched, flags, loop, ready, history>>

EndManual ==
    /\ lock = "manual"
    /\ lock' = "free"
    /\ ready' \in {ready, TRUE}
    /\ UNCHANGED <<source, watched, flags, loop, budget, history>>

Unsynced == synced # version

(* No pass has failed, been skipped or been killed so far. *)
Undisturbed == budget = FullBudget

(* A second passes: while the loop sleeps, or in a pass, not in between.   *)
Older(x, cap) == IF x < cap THEN x + 1 ELSE x

Tick ==
    /\ \/ pc = "sleep" /\ ~ slept
       \/ pc \in {"scan", "work"} /\ passAge < MaxPass
       \/ pc = "down"
    /\ slept' = (pc = "sleep")
    /\ passAge' = IF pc \in {"scan", "work"} THEN passAge + 1 ELSE passAge
    /\ eventAge' = Older(eventAge, Debounce)
    /\ scanAge' = Older(scanAge, ScanInterval)
    /\ waiting' = IF Unsynced /\ Undisturbed THEN Older(waiting, MaxWait) ELSE 0
    /\ missed' = IF pc = "work" /\ seen # version /\ Undisturbed
                 THEN Older(missed, MaxWait) ELSE 0
    /\ UNCHANGED <<source, watched, dirty, pc, cause, seen, lock, ready, budget,
                   synced>>

Loop == Wake \/ Decide \/ Flag \/ SkipPass \/ StartPass \/ ExitPass
          \/ ReadTree \/ EndPass \/ Restart

Next == \/ Change
        \/ \E kind \in {"mutate", "read"} : OnEvent(kind)
        \/ StampEvent
        \/ Loop \/ FailPass \/ Kill
        \/ BeginManual \/ EndManual \/ Tick

(* The loop and the observer are threads that run, a command-line run      *)
(* ends, seconds pass.  Nobody has to change the tree.                     *)
Spec == /\ Init /\ [][Next]_vars
        /\ WF_vars(Loop) /\ WF_vars(Tick) /\ WF_vars(EndManual)
        /\ WF_vars(StampEvent)
        /\ \A kind \in {"mutate", "read"} : WF_vars(OnEvent(kind))

-----------------------------------------------------------------------------
(* The flag is cleared before the tree is read, so no change falls between *)
(* two passes: if the observer delivers every event and passes end well, a *)
(* tree that is not synced always has a pass coming or running that will   *)
(* read it.                                                                *)
NoLostWakeup ==
    observer = "sound" /\ Unsynced
      /\ budget.fails = MaxFails /\ budget.manuals = MaxManuals =>
        \/ dirty \/ "mutate" \in events
        \/ pc \in {"flag", "try", "scan", "down"}
        \/ pc = "work" /\ seen = version

(* ADR-0006 section 5: a missed event costs at most one scan interval and  *)
(* the pass that ends it, whatever the observer misses, as long as the     *)
(* process lives, there is a collection to sync, nobody else takes the     *)
(* lock, and passes end well and are shorter than the interval.            *)
StalenessBound == ScanInterval + MaxPass
BoundedStaleness ==
    ready /\ Undisturbed => waiting <= StalenessBound

(* Whatever is missed, skipped, failed or killed, a tree that is left      *)
(* alone is synced in the end, once there is a collection to sync.         *)
Settles == <>ready => <>[](synced = version)

(* No self-feeding loop: once the tree is left alone, only the backstop    *)
(* starts passes, although every pass reads the files it watches.          *)
EventPassesStop == <>[](pc = "flag" => cause = "scan")
=============================================================================
