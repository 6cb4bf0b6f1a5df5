--------------------------- MODULE StackBootProofs ---------------------------
(***************************************************************************)
(* What holds of StackBoot for any number of slots, services and backends, *)
(* and any patience: the gateway that was healed mounts everything, and    *)
(* slots allocate one after another.                                       *)
(***************************************************************************)
EXTENDS StackBoot, FiniteSetTheorems, TLAPS

(* The steps of the host units, of the containers and the stack unit, and  *)
(* those of the command that move neither.                                 *)
OfUnits == \E s \in Slot : Serve(s) \/ Dies(s) \/ ComesBack(s)
OfBoxes == \/ ComposeUp \/ HealLooks \/ HealRestarts \/ Mount \/ ComposeFails
           \/ \E b \in Backend : Listen(b) \/ BackendDies(b)
Quietly == Start \/ StartStack \/ StackStarted \/ Table

LEMMA Steps ==
    Next => OfUnits \/ OfBoxes \/ Quietly \/ Stop \/ StartUnit \/ WaitSlot \/ StopUnit \/ Reboot
BY DEF Next, Command, Activate, OfUnits, OfBoxes, Quietly

-----------------------------------------------------------------------------
(***************************************************************************)
(* The gateway.  Since the healer saw all backends none has died, so that  *)
(* whatever starts the gateway again mounts them all.                      *)
(***************************************************************************)
MountOK ==
    /\ up \subseteq Backend
    /\ calm => up = Backend /\ (gateway = "up" => mounted = Backend)

LEMMA MountStep == MountOK /\ [Next]_stackVars => MountOK'
<1> SUFFICES ASSUME MountOK, [Next]_stackVars PROVE MountOK'
  OBVIOUS
<1> USE DEF MountOK
<1>1. CASE OfUnits
  BY <1>1 DEF OfUnits, Serve, Dies, ComesBack, boxes
<1>2. CASE OfBoxes
  <2>1. CASE ComposeUp
    BY <2>1 DEF ComposeUp
  <2>2. CASE HealLooks
    BY <2>2 DEF HealLooks, boxes
  <2>3. CASE HealRestarts
    BY <2>3 DEF HealRestarts, BackendsListen
  <2>4. CASE Mount
    BY <2>4 DEF Mount
  <2>5. CASE ComposeFails
    BY <2>5 DEF ComposeFails
  <2>6. ASSUME NEW b \in Backend, Listen(b) PROVE MountOK'
    BY <2>6 DEF Listen
  <2>7. ASSUME NEW b \in Backend, BackendDies(b) PROVE MountOK'
    BY <2>7 DEF BackendDies
  <2> QED BY <1>2, <2>1, <2>2, <2>3, <2>4, <2>5, <2>6, <2>7 DEF OfBoxes
<1>3. CASE Quietly \/ StartUnit \/ WaitSlot \/ StopUnit \/ UNCHANGED stackVars
  <2>1. UNCHANGED boxes
    BY <1>3 DEF Quietly, Start, StartStack, StackStarted, Table, StartUnit, WaitSlot, StopUnit,
                stackVars
  <2> QED BY <2>1 DEF boxes
<1>4. CASE Stop \/ Reboot
  BY <1>4 DEF Stop, Reboot
<1> QED BY <1>1, <1>2, <1>3, <1>4, Steps

(* MountsEverything holds: a healed gateway has every backend.             *)
THEOREM HealedGatewayHasAll == Spec => []MountsEverything
<1>1. Init => MountOK
  BY DEF Init, MountOK
<1>2. MountOK => MountsEverything
  BY DEF MountOK, MountsEverything
<1>3. Spec => Init /\ [][Next]_stackVars
  BY DEF Spec
<1> QED BY <1>1, <1>2, <1>3, MountStep, PTL

-----------------------------------------------------------------------------
(***************************************************************************)
(* Allocation.  Unless a wait has run out, what allocates is the slot that *)
(* is waited for, or the first one before its turn comes: the one that a   *)
(* boot has started.                                                       *)
(***************************************************************************)
Index == 1 .. Len(HostUnits)
State == {"off", "allocating", "serving", "retry", "failed"}
Turn  == IF pc = "wait" THEN {Current}
         ELSE IF pc \in {"idle", "stop"} \/ (pc = "unit" /\ next = 1) THEN {HostUnits[1]}
         ELSE {}

UnitsOK  == /\ unit \in [ToSet(HostUnits) -> State]
            /\ pc \in {"unit", "wait", "stop"} => next \in Index
AllocOK  == ~ ranOut => Allocating \subseteq Turn

LEMMA Units ==
    /\ Len(HostUnits) \in Nat \ {0} /\ 1 \in Index /\ Len(HostUnits) \in Index
    /\ \A i \in Index : HostUnits[i] \in ToSet(HostUnits)
    /\ Slot \subseteq ToSet(HostUnits)
    /\ Slot # {} => HostUnits[1] = Slots[1]
<1> DEFINE A == ToSet(Slots)
           B == ToSet(Services)
<1>1. Slots \in Seq(A) /\ Services \in Seq(B) /\ Slots \o Services # <<>>
  BY StackAssumption
<1>2. A = {Slots[i] : i \in DOMAIN Slots}
  BY DEF ToSet
<1> HIDE DEF A, B
<1>3. HostUnits \in Seq(A \cup B) /\ Len(HostUnits) = Len(Slots) + Len(Services)
      /\ Len(Slots) \in Nat /\ Len(Services) \in Nat
      /\ \A i \in 1 .. Len(Slots) : HostUnits[i] = Slots[i]
  <2>1. Slots \in Seq(A \cup B) /\ Services \in Seq(A \cup B)
    BY <1>1
  <2> QED BY <2>1 DEF HostUnits
<1>4. HostUnits # <<>>
  BY <1>1 DEF HostUnits
<1>5. Len(HostUnits) # 0
  BY <1>3, <1>4
<1>6. DOMAIN HostUnits = Index /\ DOMAIN Slots = 1 .. Len(Slots)
  BY <1>1, <1>3 DEF Index
<1>7. ToSet(HostUnits) = {HostUnits[i] : i \in Index}
  BY <1>6 DEF ToSet
<1>8. Slot = {Slots[i] : i \in 1 .. Len(Slots)}
  BY <1>2, <1>6 DEF Slot, A
<1> QED BY <1>3, <1>5, <1>7, <1>8 DEF Index

LEMMA InitAlloc == Init => UnitsOK /\ AllocOK
<1> SUFFICES ASSUME Init PROVE UnitsOK /\ AllocOK
  OBVIOUS
<1>1. UnitsOK
  BY DEF Init, UnitsOK, State
<1>2. Allocating = {}
  BY Units DEF Init, Allocating
<1> QED BY <1>1, <1>2 DEF AllocOK

(* The command goes on to the next unit with nothing allocating. *)
LEMMA AfterUnitOK ==
    ASSUME UnitsOK, pc \in {"unit", "wait"}, AfterUnit, unit' \in [ToSet(HostUnits) -> State],
           ~ ranOut' => Allocating' = {}
    PROVE  UnitsOK' /\ AllocOK'
<1>1. next \in Index /\ Len(HostUnits) \in Nat \ {0}
  BY Units DEF UnitsOK
<1>2. UnitsOK'
  BY <1>1, Units DEF UnitsOK, AfterUnit, Goto, Index
<1> QED BY <1>2 DEF AllocOK

LEMMA OfUnitsOK == UnitsOK /\ AllocOK /\ OfUnits => (UnitsOK /\ AllocOK)'
<1> SUFFICES ASSUME UnitsOK, AllocOK, NEW s \in Slot, Serve(s) \/ Dies(s) \/ ComesBack(s)
             PROVE  UnitsOK' /\ AllocOK'
  BY DEF OfUnits
<1>1. s \in ToSet(HostUnits) /\ Slot \subseteq ToSet(HostUnits)
  BY Units
<1>2. UNCHANGED command
  BY DEF Serve, Dies, ComesBack
<1>3. UnitsOK'
  BY <1>1, <1>2 DEF UnitsOK, Serve, Dies, ComesBack, State, command
<1>4. Turn' = Turn
  BY <1>2 DEF Turn, Current, command
<1>5. CASE Serve(s) \/ Dies(s)
  <2>1. Allocating' \subseteq Allocating /\ ranOut' = ranOut
    BY <1>1, <1>5 DEF Serve, Dies, Allocating, UnitsOK
  <2> QED BY <2>1, <1>3, <1>4 DEF AllocOK
<1>6. CASE ComesBack(s)
  <2>1. Allocating' = Allocating \cup {s}
    BY <1>1, <1>6 DEF ComesBack, Allocating, UnitsOK
  <2>2. ~ ranOut' => ~ ranOut /\ pc = "wait" /\ Current = s
    BY <1>6 DEF ComesBack
  <2>3. ~ ranOut' => Allocating' \subseteq Turn
    BY <2>1, <2>2 DEF AllocOK, Turn
  <2> QED BY <2>3, <1>3, <1>4 DEF AllocOK
<1> QED BY <1>5, <1>6

LEMMA StartUnitOK == UnitsOK /\ AllocOK /\ StartUnit => (UnitsOK /\ AllocOK)'
<1> SUFFICES ASSUME UnitsOK, AllocOK, StartUnit PROVE UnitsOK' /\ AllocOK'
  OBVIOUS
<1>1. next \in Index /\ Current \in ToSet(HostUnits) /\ Slot \subseteq ToSet(HostUnits)
  BY Units DEF StartUnit, UnitsOK, Current
<1>2. unit' \in [ToSet(HostUnits) -> State]
  BY <1>1 DEF StartUnit, Started, UnitsOK, State
<1>3. Allocating' \subseteq Allocating \cup (IF Current \in Slot THEN {Current} ELSE {})
  BY <1>1 DEF StartUnit, Started, UnitsOK, Allocating
<1>4. ~ ranOut => Allocating \subseteq (IF next = 1 THEN {HostUnits[1]} ELSE {})
  BY DEF AllocOK, Turn, StartUnit
<1>5. ranOut' = ranOut /\ pc = "unit"
  BY DEF StartUnit
<1>6. CASE Current \in Slot
  <2>1. pc' = "wait" /\ next' = next
    BY <1>6 DEF StartUnit, Waits, Goto
  <2>2. Turn' = {Current}
    BY <2>1 DEF Turn, Current
  <2>3. ~ ranOut' => Allocating' \subseteq {Current}
    BY <1>3, <1>4, <1>5 DEF Current
  <2> QED BY <1>1, <1>2, <2>1, <2>2, <2>3 DEF UnitsOK, AllocOK
<1>7. CASE Current \notin Slot
  <2>1. AfterUnit
    BY <1>7 DEF StartUnit, Waits
  <2>2. ~ ranOut' => Allocating' = {}
    <3>1. Allocating \subseteq Slot
      BY DEF Allocating
    <3>2. next = 1 => HostUnits[1] \notin Slot
      BY <1>7 DEF Current
    <3> QED BY <1>3, <1>4, <1>5, <1>7, <3>1, <3>2
  <2> QED BY <1>2, <1>5, <2>1, <2>2, AfterUnitOK
<1> QED BY <1>6, <1>7

LEMMA WaitSlotOK == UnitsOK /\ AllocOK /\ WaitSlot => (UnitsOK /\ AllocOK)'
<1> SUFFICES ASSUME UnitsOK, AllocOK, WaitSlot PROVE UnitsOK' /\ AllocOK'
  OBVIOUS
<1>1. pc = "wait" /\ unit' = unit /\ Allocating' = Allocating /\ next \in Index
  BY DEF WaitSlot, Allocating, UnitsOK
<1>2. CASE AfterUnit /\ ranOut' = (ranOut \/ unit[Current] \notin {"serving", "failed"})
  <2>1. ~ ranOut' => Allocating' = {}
    BY <1>1, <1>2 DEF AllocOK, Turn, Allocating
  <2> QED BY <1>1, <1>2, <2>1, AfterUnitOK DEF UnitsOK
<1>3. CASE UNCHANGED <<pc, next, ranOut>>
  BY <1>1, <1>3 DEF UnitsOK, AllocOK, Turn, Current
<1> QED BY <1>2, <1>3 DEF WaitSlot

LEMMA StopUnitOK == UnitsOK /\ AllocOK /\ StopUnit => (UnitsOK /\ AllocOK)'
<1> SUFFICES ASSUME UnitsOK, AllocOK, StopUnit PROVE UnitsOK' /\ AllocOK'
  OBVIOUS
<1>1. next \in Index /\ Current \in ToSet(HostUnits) /\ Slot \subseteq ToSet(HostUnits)
  BY Units DEF StopUnit, UnitsOK, Current
<1>2. UnitsOK'
  BY <1>1, Units DEF StopUnit, UnitsOK, Goto, State, Index
<1>3. Allocating' \subseteq Allocating /\ ranOut' = ranOut
  BY <1>1 DEF StopUnit, Allocating, UnitsOK
<1>4. Turn = {HostUnits[1]} /\ Turn' = {HostUnits[1]}
  BY DEF StopUnit, Goto, Turn
<1> QED BY <1>2, <1>3, <1>4 DEF AllocOK

LEMMA RebootOK == UnitsOK /\ AllocOK /\ Reboot => (UnitsOK /\ AllocOK)'
<1> SUFFICES ASSUME UnitsOK, Reboot PROVE UnitsOK' /\ AllocOK'
  OBVIOUS
<1>1. DOMAIN unit = ToSet(HostUnits) /\ pc' = "idle"
  BY DEF UnitsOK, Reboot
<1>2. unit' \in [ToSet(HostUnits) -> State]
  BY <1>1 DEF Reboot, State
<1>3. Allocating' \subseteq {HostUnits[1]}
  BY <1>1, Units DEF Allocating, Reboot
<1> QED BY <1>1, <1>2, <1>3 DEF UnitsOK, AllocOK, Turn

(* The rest of the command moves from a position where nothing allocates   *)
(* but the first slot to another.                                          *)
LEMMA QuietlyOK == UnitsOK /\ AllocOK /\ (Quietly \/ Stop) => (UnitsOK /\ AllocOK)'
<1> SUFFICES ASSUME UnitsOK, AllocOK, Quietly \/ Stop PROVE UnitsOK' /\ AllocOK'
  OBVIOUS
<1>1. UNCHANGED units /\ Allocating' = Allocating
  BY DEF Quietly, Stop, Start, StartStack, StackStarted, Table, units, Allocating
<1>2. CASE Start
  BY <1>1, <1>2, Units DEF Start, Goto, UnitsOK, AllocOK, Turn, units
<1>3. CASE Stop
  BY <1>1, <1>3, Units DEF Stop, Goto, UnitsOK, AllocOK, Turn, units
<1>4. CASE StartStack \/ StackStarted \/ Table
  <2>1. pc \in {"stack", "await", "table"} /\ pc' \in {"await", "table", "idle"}
    BY <1>4 DEF StartStack, StackStarted, Table, Goto
  <2> QED BY <1>1, <2>1 DEF UnitsOK, AllocOK, Turn, units
<1> QED BY <1>2, <1>3, <1>4 DEF Quietly

LEMMA AllocStep == UnitsOK /\ AllocOK /\ [Next]_stackVars => (UnitsOK /\ AllocOK)'
<1> SUFFICES ASSUME UnitsOK, AllocOK, OfBoxes \/ UNCHANGED stackVars
             PROVE  UnitsOK' /\ AllocOK'
  BY Steps, OfUnitsOK, StartUnitOK, WaitSlotOK, StopUnitOK, RebootOK, QuietlyOK
<1>1. UNCHANGED <<command, units>>
  BY DEF OfBoxes, ComposeUp, HealLooks, HealRestarts, Mount, ComposeFails, Listen, BackendDies,
         stackVars
<1> QED BY <1>1 DEF UnitsOK, AllocOK, Turn, Allocating, Current, command, units

(* OneAllocation holds: slots allocate their memory one after another.     *)
THEOREM SlotsAllocateInTurn == Spec => []OneAllocation
<1>1. AllocOK => OneAllocation
  <2> SUFFICES ASSUME AllocOK, ~ ranOut PROVE Cardinality(Allocating) <= 1
    BY DEF OneAllocation
  <2>1. PICK u : Allocating \subseteq {u}
    BY DEF AllocOK, Turn
  <2>2. IsFiniteSet({u}) /\ Cardinality({u}) = 1
    BY FS_Singleton
  <2>3. Cardinality(Allocating) <= Cardinality({u})
    BY <2>1, <2>2, FS_Subset
  <2> QED BY <2>2, <2>3
<1>2. Spec => Init /\ [][Next]_stackVars
  BY DEF Spec
<1> QED BY <1>1, <1>2, InitAlloc, AllocStep, PTL
=============================================================================
