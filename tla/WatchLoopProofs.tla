--------------------------- MODULE WatchLoopProofs ---------------------------
(***************************************************************************)
(* What holds of WatchLoop for every debounce, interval, number of changes *)
(* and faults: no change is lost between the flag and the scan, and an     *)
(* observer that misses events costs one interval and one pass.            *)
(***************************************************************************)
EXTENDS WatchLoop, TLAPS

Kind == {"mutate", "read"}

(* The steps that move neither the loop nor its fields, those of the loop, *)
(* and the rest.                                                           *)
Around == \/ Change \/ (\E kind \in Kind : OnEvent(kind)) \/ StampEvent
          \/ BeginManual \/ EndManual
Faulty == FailPass \/ Kill

LEMMA Steps == Next => Around \/ Loop \/ Faulty \/ Tick
BY DEF Next, Around, Faulty, Kind

LEMMA Ends == /\ 0 \in 0 .. Debounce /\ 0 \in 0 .. ScanInterval /\ 0 \in 0 .. MaxPass
              /\ 0 \in 0 .. MaxWait /\ 0 \in Version
              /\ Debounce \in 0 .. Debounce /\ ScanInterval \in 0 .. ScanInterval
BY ConstantsAssumption DEF Version

LEMMA InitType == Init => TypeOK
<1> SUFFICES ASSUME Init PROVE TypeOK
  OBVIOUS
<1> USE ConstantsAssumption DEF Init
<1>1. budget \in [manuals : 0 .. MaxManuals, fails : 0 .. MaxFails, kills : 0 .. MaxKills]
  BY DEF FullBudget
<1>2. version \in Version /\ seen \in Version /\ synced \in Version
  BY DEF Version
<1>3. /\ eventAge \in 0 .. Debounce /\ scanAge \in 0 .. ScanInterval
      /\ passAge \in 0 .. MaxPass /\ waiting \in 0 .. MaxWait /\ missed \in 0 .. MaxWait
  OBVIOUS
<1> QED BY <1>1, <1>2, <1>3 DEF TypeOK

LEMMA AroundType == TypeOK /\ Around => TypeOK'
<1> SUFFICES ASSUME TypeOK, Around PROVE TypeOK'
  OBVIOUS
<1> USE ConstantsAssumption
<1>1. CASE Change
  <2>1. version' \in Version
    BY <1>1 DEF Change, TypeOK, Version
  <2>2. events' \subseteq Kind
    BY <1>1 DEF Change, Emit, TypeOK, Kind
  <2>3. UNCHANGED <<observer, armed, dirty, eventAge, scanAge, pc, slept, cause, passAge,
                    seen, lock, ready, budget, synced, waiting, missed>>
    BY <1>1 DEF Change, flags, loop, history
  <2> QED
    BY <2>1, <2>2, <2>3 DEF TypeOK, Kind
<1>2. ASSUME NEW kind \in Kind, OnEvent(kind) PROVE TypeOK'
  BY <1>2 DEF OnEvent, TypeOK, Mutating, source, loop, history, Kind
<1>3. CASE StampEvent
  <2>1. armed' = FALSE /\ eventAge' = 0
    BY <1>3 DEF StampEvent
  <2>2. UNCHANGED <<version, observer, events, dirty, scanAge, pc, slept, cause, passAge, seen,
                    lock, ready, budget, synced, waiting, missed>>
    BY <1>3 DEF StampEvent, source, loop, history
  <2> QED BY <2>1, <2>2, Ends DEF TypeOK
<1>4. CASE BeginManual
  <2>1. budget' \in [manuals : 0 .. MaxManuals, fails : 0 .. MaxFails, kills : 0 .. MaxKills]
    BY <1>4 DEF BeginManual, TypeOK
  <2>2. /\ lock' = "manual"
        /\ UNCHANGED <<version, observer, events, armed, dirty, eventAge, scanAge, pc, slept,
                       cause, passAge, seen, ready, synced, waiting, missed>>
    BY <1>4 DEF BeginManual, source, watched, flags, loop, history
  <2> QED
    BY <2>1, <2>2 DEF TypeOK
<1>5. CASE EndManual
  BY <1>5 DEF EndManual, TypeOK, source, watched, flags, loop, history
<1> QED BY <1>1, <1>2, <1>3, <1>4, <1>5 DEF Around

LEMMA LoopType == TypeOK /\ Loop => TypeOK'
<1> SUFFICES ASSUME TypeOK, Loop PROVE TypeOK'
  OBVIOUS
<1> USE Ends DEF TypeOK, source, watched, flags, history, Sleep
<1>1. CASE Wake
  BY <1>1 DEF Wake
<1>2. CASE Decide
  <2>1. pc' \in {"flag", "sleep"} /\ cause' \in {"event", "scan"} /\ slept' \in BOOLEAN
    BY <1>2 DEF Decide
  <2>2. UNCHANGED <<version, observer, events, armed, dirty, eventAge, scanAge, passAge, seen,
                    lock, ready, budget, synced, waiting, missed>>
    BY <1>2 DEF Decide
  <2> QED BY <2>1, <2>2
<1>3. CASE Flag
  <2>1. /\ dirty' = FALSE /\ scanAge' = 0 /\ pc' = "try" /\ passAge' = 0
        /\ UNCHANGED <<version, observer, events, armed, eventAge, slept, cause, seen, lock,
                       ready, budget, synced, waiting, missed>>
    BY <1>3 DEF Flag
  <2> QED BY <2>1
<1>4. CASE SkipPass
  BY <1>4 DEF SkipPass
<1>5. CASE StartPass
  BY <1>5 DEF StartPass
<1>6. CASE ExitPass
  BY <1>6 DEF ExitPass
<1>7. CASE ReadTree
  BY <1>7 DEF ReadTree, Emit
<1>8. CASE EndPass
  BY <1>8 DEF EndPass
<1>9. CASE Restart
  <2>1. /\ pc' = "sleep" /\ slept' = FALSE /\ dirty' = TRUE /\ cause' = "event"
        /\ eventAge' = Debounce /\ scanAge' = ScanInterval /\ passAge' = 0 /\ seen' = 0
        /\ UNCHANGED <<version, observer, events, armed, lock, ready, budget, synced, waiting,
                       missed>>
    BY <1>9 DEF Restart
  <2> QED BY <2>1
<1> QED BY <1>1, <1>2, <1>3, <1>4, <1>5, <1>6, <1>7, <1>8, <1>9 DEF Loop

LEMMA FaultyType == TypeOK /\ Faulty => TypeOK'
<1> SUFFICES ASSUME TypeOK, Faulty PROVE TypeOK'
  OBVIOUS
<1> USE ConstantsAssumption
<1>1. budget' \in [manuals : 0 .. MaxManuals, fails : 0 .. MaxFails, kills : 0 .. MaxKills]
  BY DEF Faulty, FailPass, Kill, TypeOK
<1>2. CASE FailPass
  BY <1>1, <1>2 DEF FailPass, TypeOK, Sleep, source, watched, flags, history
<1>3. CASE Kill
  BY <1>1, <1>3 DEF Kill, TypeOK, source, flags, history
<1> QED BY <1>2, <1>3 DEF Faulty

LEMMA OlderType == ASSUME NEW cap \in Nat, NEW x \in 0 .. cap
                   PROVE  Older(x, cap) \in 0 .. cap
BY DEF Older

LEMMA TickType == TypeOK /\ Tick => TypeOK'
<1> SUFFICES ASSUME TypeOK, Tick PROVE TypeOK'
  OBVIOUS
<1> USE ConstantsAssumption
<1>1. eventAge' \in 0 .. Debounce /\ scanAge' \in 0 .. ScanInterval
  BY OlderType DEF Tick, TypeOK
<1>2. waiting' \in 0 .. MaxWait /\ missed' \in 0 .. MaxWait
  BY SMTT(30), OlderType DEF Tick, TypeOK
<1>3. passAge' \in 0 .. MaxPass
  BY DEF Tick, TypeOK
<1>4. slept' \in BOOLEAN
  BY DEF Tick
<1> QED BY <1>1, <1>2, <1>3, <1>4 DEF Tick, TypeOK, source, watched

LEMMA StutterType == TypeOK /\ UNCHANGED vars => TypeOK'
BY DEF TypeOK, vars, source, watched, flags, loop, history

(* TypeOK holds: no age runs past its cap, no bound below nothing. *)
THEOREM TypeCorrect == Spec => []TypeOK
<1>1. TypeOK /\ [Next]_vars => TypeOK'
  BY Steps, AroundType, LoopType, FaultyType, TickType, StutterType
<1> QED BY InitType, <1>1, PTL DEF Spec

-----------------------------------------------------------------------------
(***************************************************************************)
(* Nothing is lost between the flag and the scan.  A pass is only skipped  *)
(* for a command-line run, and only a pass that ends well or raises gives  *)
(* up what it has read.                                                    *)
(***************************************************************************)
LockOK ==
    /\ lock = "watch" => pc \in {"scan", "work"}
    /\ budget.manuals = MaxManuals => lock # "manual"

Quiet   == observer = "sound" /\ budget.fails = MaxFails /\ budget.manuals = MaxManuals
Pending == \/ dirty \/ "mutate" \in events
           \/ pc \in {"flag", "try", "scan", "down"}
           \/ pc = "work" /\ seen = version

(* What was synced is no newer than what is being synced. *)
ScanOK == synced <= version /\ (pc = "work" => synced <= seen /\ seen <= version)

LEMMA ScanInOrder == TypeOK /\ ScanOK /\ [Next]_vars => ScanOK'
<1> SUFFICES ASSUME TypeOK, ScanOK, [Next]_vars PROVE ScanOK'
  OBVIOUS
<1> USE ConstantsAssumption DEF ScanOK
<1>1. version \in Nat /\ synced \in Nat /\ seen \in Nat
  BY DEF TypeOK, Version
<1>2. CASE Change
  <2>1. version' = version + 1 /\ UNCHANGED <<synced, seen, pc>>
    BY <1>2 DEF Change, loop, history
  <2> QED BY <1>1, <2>1
<1>3. CASE ReadTree
  <2>1. seen' = version /\ version' = version /\ synced' = synced
    BY <1>3 DEF ReadTree, source
  <2> QED BY <1>1, <2>1
<1>4. CASE EndPass
  <2>1. pc = "work" /\ pc' = "sleep" /\ synced' = seen /\ version' = version
    BY <1>4 DEF EndPass, Sleep, source
  <2> QED BY <1>1, <2>1
<1>5. CASE Wake \/ Decide \/ Flag \/ SkipPass \/ StartPass \/ ExitPass \/ Restart \/ Faulty
  <2>1. pc' # "work" /\ UNCHANGED <<version, synced>>
    BY <1>5 DEF Wake, Decide, Flag, SkipPass, StartPass, ExitPass, Restart, Faulty, FailPass,
                Kill, Sleep, source, history
  <2> QED BY <2>1
<1>6. CASE (\E kind \in Kind : OnEvent(kind)) \/ StampEvent \/ BeginManual \/ EndManual
             \/ Tick \/ UNCHANGED vars
  <2>1. UNCHANGED <<version, synced, seen, pc>>
    BY <1>6 DEF OnEvent, StampEvent, BeginManual, EndManual, Tick, vars, source, loop, history
  <2> QED BY <2>1
<1> QED BY <1>2, <1>3, <1>4, <1>5, <1>6, Steps DEF Around, Loop

LEMMA WakeupIsPending == NoLostWakeup <=> (Quiet /\ Unsynced => Pending)
BY DEF NoLostWakeup, Quiet, Pending

LEMMA InitLock == Init => LockOK /\ ScanOK /\ NoLostWakeup
BY DEF Init, LockOK, ScanOK, NoLostWakeup, Unsynced

LEMMA AroundLock == TypeOK /\ LockOK /\ Around => LockOK'
<1> SUFFICES ASSUME TypeOK, LockOK, Around PROVE LockOK'
  OBVIOUS
<1>1. CASE BeginManual
  <2>1. budget.manuals \in 1 .. MaxManuals /\ budget'.manuals = budget.manuals - 1
    BY <1>1, ConstantsAssumption DEF BeginManual, TypeOK
  <2> QED BY <1>1, <2>1, ConstantsAssumption DEF BeginManual, LockOK
<1>2. CASE EndManual
  BY <1>2 DEF EndManual, LockOK
<1>3. CASE Change \/ (\E kind \in Kind : OnEvent(kind)) \/ StampEvent
  <2>1. UNCHANGED <<pc, lock, budget>>
    BY <1>3 DEF Change, OnEvent, StampEvent, loop
  <2> QED BY <2>1 DEF LockOK
<1> QED BY <1>1, <1>2, <1>3 DEF Around

LEMMA LoopLock == TypeOK /\ LockOK /\ Loop => LockOK'
BY DEF LockOK, Loop, Sleep, Wake, Decide, Flag, SkipPass, StartPass, ExitPass, ReadTree,
       EndPass, Restart

LEMMA FaultyLock == TypeOK /\ LockOK /\ Faulty => LockOK'
<1> SUFFICES ASSUME TypeOK, LockOK, Faulty PROVE LockOK'
  OBVIOUS
<1>1. budget'.manuals = budget.manuals
  BY DEF Faulty, FailPass, Kill, TypeOK
<1> QED BY <1>1 DEF Faulty, FailPass, Kill, Sleep, LockOK

LEMMA TickLock == LockOK /\ (Tick \/ UNCHANGED vars) => LockOK'
BY DEF LockOK, Tick, vars, loop

LEMMA AroundWakeup == TypeOK /\ NoLostWakeup /\ Around => NoLostWakeup'
<1> SUFFICES ASSUME TypeOK, NoLostWakeup, Around, (Quiet /\ Unsynced)' PROVE Pending'
  BY DEF NoLostWakeup, Quiet, Pending
<1>1. CASE Change
  BY <1>1 DEF Change, Emit, Quiet, Pending, loop, TypeOK
<1>2. CASE BeginManual
  <2>1. budget.manuals \in 1 .. MaxManuals /\ budget'.manuals = budget.manuals - 1
    BY <1>2, ConstantsAssumption DEF BeginManual, TypeOK
  <2>2. budget'.manuals = MaxManuals
    BY DEF Quiet
  <2> QED BY <2>1, <2>2, ConstantsAssumption
<1>3. CASE (\E kind \in Kind : OnEvent(kind)) \/ StampEvent \/ EndManual
  <2>1. UNCHANGED <<source, loop, budget, synced>>
    BY <1>3 DEF OnEvent, StampEvent, EndManual, history
  <2>2. Pending
    BY <2>1, WakeupIsPending DEF Quiet, Unsynced, source
  <2>3. (dirty \/ "mutate" \in events) => (dirty \/ "mutate" \in events)'
    <3>1. CASE \E kind \in Kind : OnEvent(kind)
      BY <3>1 DEF OnEvent, Mutating, Kind
    <3>2. CASE StampEvent \/ EndManual
      BY <3>2 DEF StampEvent, EndManual, watched, flags
    <3> QED BY <1>3, <3>1, <3>2
  <2> QED BY <2>1, <2>2, <2>3 DEF Pending, source, loop
<1> QED BY <1>1, <1>2, <1>3 DEF Around

LEMMA LoopWakeup == TypeOK /\ LockOK /\ ScanOK /\ NoLostWakeup /\ Loop => NoLostWakeup'
<1> SUFFICES ASSUME TypeOK, LockOK, ScanOK, NoLostWakeup, Loop, (Quiet /\ Unsynced)' PROVE Pending'
  BY DEF NoLostWakeup, Quiet, Pending
<1>1. UNCHANGED <<source, budget>>
  BY DEF Loop, Wake, Decide, Flag, SkipPass, StartPass, ExitPass, ReadTree, EndPass, Restart
<1>2. Quiet
  BY <1>1 DEF Quiet, source
<1>3. CASE Flag \/ StartPass \/ ExitPass \/ ReadTree \/ Restart
  BY <1>1, <1>3 DEF Flag, StartPass, ExitPass, ReadTree, Restart, Pending, source
<1>4. CASE EndPass
  <2>1. Unsynced => Pending
    BY <1>2, WakeupIsPending
  <2>2. seen # version
    <3>1. version' = version /\ synced' = seen
      BY <1>4 DEF EndPass, source
    <3> QED BY <3>1 DEF Unsynced
  <2>3. Unsynced => dirty \/ "mutate" \in events
    <3>1. pc = "work"
      BY <1>4 DEF EndPass
    <3> QED BY <2>1, <2>2, <3>1 DEF Pending
  <2>4. UNCHANGED <<dirty, events>>
    BY <1>4 DEF EndPass, watched, flags
  <2>5. Unsynced
    <3>1. pc = "work" /\ version \in Nat /\ synced \in Nat /\ seen \in Nat
      BY <1>4, ConstantsAssumption DEF EndPass, TypeOK, Version
    <3> QED BY <2>2, <3>1 DEF ScanOK, Unsynced
  <2> QED BY <2>3, <2>4, <2>5 DEF Pending
<1>5. CASE Wake \/ Decide \/ SkipPass
  <2>1. ~ SkipPass
    BY <1>2 DEF SkipPass, LockOK, Quiet, TypeOK
  <2>2. UNCHANGED <<watched, dirty, synced>>
    BY <1>5 DEF Wake, Decide, SkipPass, flags, history
  <2>3. Pending
    BY <1>1, <1>2, <2>2, WakeupIsPending DEF Unsynced, source
  <2>4. pc \in {"sleep", "decide"}
    BY <1>5, <2>1 DEF Wake, Decide
  <2> QED BY <2>2, <2>3, <2>4 DEF Pending, watched
<1> QED BY <1>3, <1>4, <1>5 DEF Loop

LEMMA FaultyWakeup == TypeOK /\ NoLostWakeup /\ Faulty => NoLostWakeup'
<1> SUFFICES ASSUME TypeOK, NoLostWakeup, Faulty, (Quiet /\ Unsynced)' PROVE Pending'
  BY DEF NoLostWakeup, Quiet, Pending
<1>1. CASE FailPass
  <2>1. budget.fails \in 1 .. MaxFails /\ budget'.fails = budget.fails - 1
    BY <1>1, ConstantsAssumption DEF FailPass, TypeOK
  <2>2. budget'.fails = MaxFails
    BY DEF Quiet
  <2> QED BY <2>1, <2>2, ConstantsAssumption
<1>2. CASE Kill
  BY <1>2 DEF Kill, Pending
<1> QED BY <1>1, <1>2 DEF Faulty

LEMMA TickWakeup == NoLostWakeup /\ (Tick \/ UNCHANGED vars) => NoLostWakeup'
BY DEF NoLostWakeup, Unsynced, Tick, vars, source, watched, flags, loop, history

(* NoLostWakeup holds: a tree that is not synced has a pass coming. *)
THEOREM NoWakeupIsLost == Spec => []NoLostWakeup
<1>1. TypeOK /\ LockOK /\ ScanOK /\ NoLostWakeup /\ [Next]_vars
        => (LockOK /\ ScanOK /\ NoLostWakeup)'
  BY Steps, ScanInOrder, AroundLock, LoopLock, FaultyLock, TickLock,
     AroundWakeup, LoopWakeup, FaultyWakeup, TickWakeup
<1> QED BY InitLock, <1>1, TypeCorrect, PTL DEF Spec

-----------------------------------------------------------------------------
(***************************************************************************)
(* Staleness.  As long as the process lives and passes end well, what has  *)
(* waited waits no longer than since the last flag, and in a pass no       *)
(* longer than one interval before it; passes are shorter than intervals,  *)
(* so that the loop never sleeps on a scan that is due.                    *)
(***************************************************************************)
Waits ==
    /\ pc # "down"
    /\ pc \in {"sleep", "decide", "flag"} => waiting <= scanAge
    /\ pc = "sleep" /\ ~ slept => scanAge < ScanInterval \/ waiting = 0
    /\ pc \in {"try", "scan", "work"} =>
         waiting <= ScanInterval + passAge /\ passAge = scanAge
    /\ pc = "work" => missed <= passAge

Calm       == ready /\ Undisturbed
WaitsCalm  == Calm => Waits

LEMMA InitWaits == Init => WaitsCalm
BY ConstantsAssumption DEF Init, WaitsCalm, Waits

LEMMA BoundsWaiting == TypeOK /\ WaitsCalm => BoundedStaleness
BY ConstantsAssumption DEF TypeOK, WaitsCalm, Waits, Calm, BoundedStaleness, StalenessBound

(* Calm was calm before. *)
LEMMA CalmBefore == TypeOK /\ LockOK /\ Next /\ Calm' => Calm /\ UNCHANGED <<ready, budget>>
<1> SUFFICES ASSUME TypeOK, LockOK, Next, Calm' PROVE Calm /\ UNCHANGED <<ready, budget>>
  OBVIOUS
<1> USE ConstantsAssumption
<1>1. ~ BeginManual
  <2> SUFFICES ASSUME BeginManual PROVE FALSE
    OBVIOUS
  <2>1. budget.manuals \in 1 .. MaxManuals /\ budget'.manuals = budget.manuals - 1
    BY DEF BeginManual, TypeOK
  <2>2. budget'.manuals = MaxManuals
    BY DEF Calm, Undisturbed, FullBudget
  <2> QED BY <2>1, <2>2
<1>2. ~ FailPass
  <2> SUFFICES ASSUME FailPass PROVE FALSE
    OBVIOUS
  <2>1. budget.fails \in 1 .. MaxFails /\ budget'.fails = budget.fails - 1
    BY DEF FailPass, TypeOK
  <2>2. budget'.fails = MaxFails
    BY DEF Calm, Undisturbed, FullBudget
  <2> QED BY <2>1, <2>2
<1>3. ~ Kill
  <2> SUFFICES ASSUME Kill PROVE FALSE
    OBVIOUS
  <2>1. budget.kills \in 1 .. MaxKills /\ budget'.kills = budget.kills - 1
    BY DEF Kill, TypeOK
  <2>2. budget'.kills = MaxKills
    BY DEF Calm, Undisturbed, FullBudget
  <2> QED BY <2>1, <2>2
<1>4. ~ EndManual
  BY DEF EndManual, LockOK, Calm, Undisturbed, FullBudget
<1>5. UNCHANGED <<ready, budget>>
  BY <1>1, <1>2, <1>3, <1>4 DEF Next, Loop, Change, OnEvent, StampEvent, Tick, Wake, Decide,
     Flag, SkipPass, StartPass, ExitPass, ReadTree, EndPass, Restart
<1> QED BY <1>5 DEF Calm, Undisturbed

LEMMA TickWaits ==
    ASSUME MaxPass < ScanInterval, TypeOK, Calm, Waits, Tick
    PROVE  Waits'
<1> USE ConstantsAssumption
<1>1. waiting \in Nat /\ waiting' \in Nat /\ waiting' <= waiting + 1
  BY DEF TypeOK, Tick, Older
<1>2. CASE pc = "sleep" /\ ~ slept
  <2>1. pc' = "sleep" /\ slept'
    BY <1>2 DEF Tick
  <2>2. waiting' <= scanAge'
    BY <1>1, <1>2 DEF TypeOK, Waits, Tick, Older
  <2> QED BY <2>1, <2>2 DEF Waits
<1>3. CASE pc \in {"scan", "work"} /\ passAge < MaxPass
  <2>1. pc' = pc /\ passAge' = passAge + 1
    BY <1>3 DEF Tick
  <2>2. passAge' = scanAge'
    BY <1>3, <2>1 DEF TypeOK, Waits, Tick, Older
  <2>3. waiting' <= ScanInterval + passAge'
    BY <1>1, <1>3, <2>1 DEF TypeOK, Waits
  <2>4. pc = "work" => missed' <= passAge'
    BY <1>3, <2>1 DEF TypeOK, Waits, Tick, Older
  <2> QED BY <1>3, <2>1, <2>2, <2>3, <2>4 DEF Waits
<1> QED BY <1>2, <1>3 DEF Tick, Waits

LEMMA LoopWaits ==
    ASSUME MaxPass < ScanInterval, TypeOK, LockOK, Calm, Waits, Loop
    PROVE  Waits'
<1> USE ConstantsAssumption
<1>1. lock # "manual"
  BY DEF LockOK, Calm, Undisturbed, FullBudget
<1>2. CASE Wake
  BY <1>2 DEF Wake, Waits, flags, history
<1>3. CASE Decide
  <2>1. UNCHANGED <<scanAge, waiting, passAge, missed>> /\ pc = "decide"
    BY <1>3 DEF Decide, flags, history
  <2>2. pc' = "flag" \/ (pc' = "sleep" /\ scanAge < ScanInterval)
    BY <1>3 DEF Decide, DueScan, TypeOK, Sleep
  <2> QED BY <2>1, <2>2 DEF Waits
<1>4. CASE Flag
  <2>1. pc' = "try" /\ scanAge' = 0 /\ passAge' = 0 /\ waiting' = waiting /\ pc = "flag"
    BY <1>4 DEF Flag, history
  <2>2. waiting <= ScanInterval
    BY <2>1 DEF Waits, TypeOK
  <2> QED BY <2>1, <2>2 DEF Waits, TypeOK
<1>5. ~ SkipPass
  BY <1>1 DEF SkipPass, LockOK, TypeOK
<1>6. CASE StartPass
  BY <1>6 DEF StartPass, Waits, flags, history
<1>7. ~ ExitPass /\ ~ Restart
  BY DEF ExitPass, Restart, Calm, Waits
<1>8. CASE ReadTree
  <2>1. pc = "scan" /\ pc' = "work" /\ missed' = 0 /\ UNCHANGED <<scanAge, passAge, waiting>>
    BY <1>8 DEF ReadTree, flags
  <2> QED BY <2>1 DEF Waits, TypeOK
<1>9. CASE EndPass
  <2>1. pc = "work" /\ pc' = "sleep" /\ waiting' = missed /\ UNCHANGED <<scanAge, passAge>>
    BY <1>9 DEF EndPass, Sleep, flags
  <2>2. scanAge <= MaxPass /\ missed <= scanAge
    BY <2>1 DEF Waits, TypeOK
  <2> QED BY <2>1, <2>2 DEF Waits, TypeOK
<1> QED BY <1>2, <1>3, <1>4, <1>5, <1>6, <1>7, <1>8, <1>9 DEF Loop

LEMMA AroundWaits ==
    ASSUME Waits, Around
    PROVE  Waits'
<1>1. UNCHANGED <<pc, slept, passAge, scanAge, waiting, missed>>
  BY DEF Around, Change, OnEvent, StampEvent, BeginManual, EndManual, flags, loop, history
<1> QED BY <1>1 DEF Waits

LEMMA WaitsStep ==
    ASSUME MaxPass < ScanInterval, TypeOK, LockOK, WaitsCalm, [Next]_vars
    PROVE  WaitsCalm'
<1> SUFFICES ASSUME Calm' PROVE Waits'
  BY DEF WaitsCalm
<1>1. CASE Next
  <2>1. Calm /\ UNCHANGED <<ready, budget>>
    BY <1>1, CalmBefore
  <2>2. Waits
    BY <2>1 DEF WaitsCalm
  <2>3. ~ Faulty
    <3>1. budget.fails \in Nat /\ budget.kills \in Nat
      BY ConstantsAssumption DEF TypeOK
    <3> QED BY <2>1, <3>1 DEF Faulty, FailPass, Kill, TypeOK
  <2> QED BY <1>1, <2>1, <2>2, <2>3, Steps, AroundWaits, LoopWaits, TickWaits
<1>2. CASE UNCHANGED vars
  BY <1>2 DEF WaitsCalm, Waits, Calm, Undisturbed, vars, flags, loop, history
<1> QED BY <1>1, <1>2

(* BoundedStaleness holds whatever the observer misses, if passes are      *)
(* shorter than the interval of the backstop.                              *)
THEOREM StalenessIsBounded ==
    ASSUME MaxPass < ScanInterval
    PROVE  Spec => []BoundedStaleness
<1>1. TypeOK /\ LockOK /\ [Next]_vars => LockOK'
  BY Steps, AroundLock, LoopLock, FaultyLock, TickLock
<1>2. TypeOK /\ LockOK /\ WaitsCalm /\ [Next]_vars => WaitsCalm'
  BY WaitsStep
<1> QED BY InitLock, InitWaits, BoundsWaiting, <1>1, <1>2, TypeCorrect, PTL DEF Spec
=============================================================================
