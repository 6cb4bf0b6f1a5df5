------------------------------ MODULE StackBoot ------------------------------
(***************************************************************************)
(* scripts/stack.sh start and stop, scripts/mcpo-heal.sh and the unit      *)
(* manifests/ragfarm-stack.service: host units one after another, then the *)
(* containers, then the tool gateway (mcpo) once more, so that it mounts   *)
(* every backend.                                                          *)
(*                                                                         *)
(* The gateway and the backends are external: the gateway mounts whatever  *)
(* listens when it starts, and loses a backend that is restarted.          *)
(***************************************************************************)
EXTENDS Naturals, Sequences, FiniteSets, SequencesExt

CONSTANTS
    Slots,          \* bound slots of the registry, in order
    Services,       \* the other host units, in start order
    Backend,        \* what the healer waits for and the gateway mounts
    Probed,         \* backends whose mount depth_mcpo looks at
    SlotTries,      \* bound: looks at a slot, 120 in the code
    HealTries,      \* bound: looks at the backends, 45 in the code
    EndTries,       \* bound: looks at the endpoints, 40 in the code
    MaxFaults       \* bound: deaths, reboots, failures of compose

ASSUME StackAssumption ==
    /\ Slots \in Seq(ToSet(Slots)) /\ Services \in Seq(ToSet(Services))
    /\ Slots \o Services # <<>>

VARIABLES
    pc,             \* what stack.sh is doing
    next,           \* index in HostUnits
    tries,
    unit,           \* host unit -> state
    restarted,      \* slot -> systemd's restarts in its window
    stack,          \* the stack unit: "inactive", "activating", "active", "failed"
    healTries,
    up,             \* backends that listen
    started,        \* containers of the stack are started
    gateway,        \* "down", "starting", "up"
    mounted,
    faults,
    ranOut,         \* history: a wait for a slot ran out, or one came back late
    calm            \* history: nothing died since the healer saw all backends

command  == <<pc, next, tries>>
units    == <<unit, restarted, ranOut>>
boxes    == <<up, started, gateway, mounted, calm>>
stackVars == <<command, units, stack, healTries, boxes, faults>>

HostUnits  == Slots \o Services
Slot       == ToSet(Slots)
Current    == HostUnits[next]

Init ==
    /\ pc = "idle" /\ next = 1 /\ tries = 0
    /\ unit = [u \in ToSet(HostUnits) |-> "off"]
    /\ restarted = [s \in Slot |-> 0]
    /\ stack = "inactive" /\ healTries = 0
    /\ up = {} /\ started = FALSE /\ gateway = "down" /\ mounted = {}
    /\ faults = 0 /\ ranOut = FALSE /\ calm = FALSE

-----------------------------------------------------------------------------
(***************************************************************************)
(* Host units.  systemctl start of a slot returns at once; the slot then   *)
(* allocates its share of the GPU, and serves or dies.  systemd starts it  *)
(* again, up to StartLimitBurst times.                                     *)
(***************************************************************************)
Allocating == {s \in Slot : unit[s] = "allocating"}

Started(u) == IF unit[u] \notin {"off", "failed"} THEN unit
              ELSE [unit EXCEPT ![u] = IF u \in Slot THEN "allocating" ELSE "serving"]

Serve(s) ==
    /\ unit[s] = "allocating" /\ unit' = [unit EXCEPT ![s] = "serving"]
    /\ UNCHANGED <<command, restarted, ranOut, stack, healTries, boxes, faults>>

Dies(s) ==
    /\ faults < MaxFaults /\ faults' = faults + 1
    /\ unit[s] \in {"allocating", "serving"}
    /\ unit' = [unit EXCEPT ![s] = IF restarted[s] < 2 THEN "retry" ELSE "failed"]
    /\ UNCHANGED <<command, restarted, ranOut, stack, healTries, boxes>>

(* A slot that comes back by itself waits for nobody. *)
ComesBack(s) ==
    /\ unit[s] = "retry"
    /\ unit' = [unit EXCEPT ![s] = "allocating"]
    /\ restarted' = [restarted EXCEPT ![s] = @ + 1]
    /\ ranOut' = (ranOut \/ ~ (pc = "wait" /\ Current = s))
    /\ UNCHANGED <<command, stack, healTries, boxes, faults>>

-----------------------------------------------------------------------------
(* Containers. *)
Listen(b) ==
    /\ started /\ b \notin up /\ up' = up \cup {b}
    /\ UNCHANGED <<command, units, stack, healTries, started, gateway, mounted, calm, faults>>

BackendDies(b) ==
    /\ faults < MaxFaults /\ faults' = faults + 1
    /\ b \in up /\ up' = up \ {b} /\ mounted' = mounted \ {b} /\ calm' = FALSE
    /\ UNCHANGED <<command, units, stack, healTries, started, gateway>>

Mount ==
    /\ gateway = "starting" /\ gateway' = "up" /\ mounted' = up
    /\ UNCHANGED <<command, units, stack, healTries, up, started, calm, faults>>

(* The stack unit: compose up, then the healer, which restarts the gateway *)
(* when all backends listen or its patience is at an end.                  *)
ComposeUp ==
    /\ stack = "activating" /\ ~ started
    /\ started' = TRUE /\ gateway' = "starting" /\ healTries' = 0
    /\ UNCHANGED <<command, units, stack, up, mounted, calm, faults>>

(* Some of the containers may have been started by then, or all. *)
ComposeFails ==
    /\ faults < MaxFaults /\ faults' = faults + 1
    /\ stack = "activating" /\ ~ started /\ stack' = "failed"
    /\ started' \in BOOLEAN /\ gateway' = (IF started' THEN "starting" ELSE gateway)
    /\ UNCHANGED <<command, units, healTries, up, mounted, calm>>

BugBackendsListen(listening) == listening # {}          \* mutant: one is enough
BackendsListen(listening)    == Backend \subseteq listening

BugHealGivesUp(n) == FALSE                              \* mutant: for ever
HealGivesUp(n)    == n = HealTries

HealLooks ==
    /\ stack = "activating" /\ started
    /\ ~ BackendsListen(up) /\ ~ HealGivesUp(healTries)
    /\ healTries' = IF healTries < HealTries THEN healTries + 1 ELSE healTries
    /\ UNCHANGED <<command, units, stack, boxes, faults>>

HealRestarts ==
    /\ stack = "activating" /\ started
    /\ BackendsListen(up) \/ HealGivesUp(healTries)
    /\ gateway' = "starting" /\ mounted' = {}
    /\ calm' = BackendsListen(up)
    /\ stack' = "active"
    /\ UNCHANGED <<command, units, healTries, up, started, faults>>

-----------------------------------------------------------------------------
(* The host goes down.  At boot systemd starts the first slot, the other   *)
(* services and the stack unit, side by side; docker starts the containers *)
(* that ran.                                                               *)
Reboot ==
    /\ faults < MaxFaults /\ faults' = faults + 1
    /\ pc' = "idle" /\ next' = 1 /\ tries' = 0
    /\ unit' = [u \in DOMAIN unit |-> IF u = Slots[1] THEN "allocating"
                                      ELSE IF u \in Slot THEN "off" ELSE "serving"]
    /\ restarted' = [s \in Slot |-> 0]
    /\ up' = {} /\ mounted' = {} /\ calm' = FALSE
    /\ gateway' = (IF started THEN "starting" ELSE "down")
    /\ stack' = "activating" /\ healTries' = 0 /\ ranOut' = FALSE
    /\ UNCHANGED started

-----------------------------------------------------------------------------
(* stack.sh start. *)
Goto(p, n) == pc' = p /\ next' = n /\ tries' = 0
AfterUnit  == IF next = Len(HostUnits) THEN Goto("stack", 1) ELSE Goto("unit", next + 1)

Start == /\ pc = "idle" /\ Goto("unit", 1)
         /\ UNCHANGED <<units, stack, healTries, boxes, faults>>

BugWaits(u) == FALSE                    \* mutant: start them all at once
Waits(u)    == u \in Slot

StartUnit ==
    /\ pc = "unit"
    /\ unit' = Started(Current)
    /\ restarted' = IF Current \in Slot /\ unit[Current] \in {"off", "failed"}
                    THEN [restarted EXCEPT ![Current] = 0] ELSE restarted
    /\ IF Waits(Current) THEN Goto("wait", next) ELSE AfterUnit
    /\ UNCHANGED <<ranOut, stack, healTries, boxes, faults>>

(* Until it serves, systemd has given it up, or ten minutes are over. *)
WaitSlot ==
    /\ pc = "wait"
    /\ IF unit[Current] \in {"serving", "failed"} \/ tries = SlotTries
       THEN AfterUnit /\ ranOut' = (ranOut \/ unit[Current] \notin {"serving", "failed"})
       ELSE tries' = tries + 1 /\ UNCHANGED <<pc, next, ranOut>>
    /\ UNCHANGED <<unit, restarted, stack, healTries, boxes, faults>>

(* systemctl start returns when the unit is active or has failed; if it is *)
(* active already, at once, and nothing is healed.                         *)
StartStack ==
    /\ pc = "stack" /\ Goto("await", 1)
    /\ stack' = (IF stack = "active" THEN stack ELSE "activating")
    /\ healTries' = (IF stack \in {"active", "activating"} THEN healTries ELSE 0)
    /\ UNCHANGED <<units, boxes, faults>>

StackStarted ==
    /\ pc = "await" /\ stack # "activating" /\ Goto("table", 1)
    /\ UNCHANGED <<units, stack, healTries, boxes, faults>>

(* The table, taken as one look: host-control's mount is not part of it. *)
AllOk == /\ \A u \in DOMAIN unit : unit[u] = "serving"
         /\ up = Backend /\ gateway = "up" /\ Probed \subseteq mounted

Table ==
    /\ pc = "table"
    /\ IF AllOk \/ tries = EndTries THEN Goto("idle", 1)
       ELSE tries' = tries + 1 /\ UNCHANGED <<pc, next>>
    /\ UNCHANGED <<units, stack, healTries, boxes, faults>>

(* stack.sh stop: the containers, then the host units in reverse order. *)
Stop ==
    /\ pc = "idle"
    /\ Goto("stop", Len(HostUnits))
    /\ stack' = "inactive" /\ started' = FALSE
    /\ up' = {} /\ gateway' = "down" /\ mounted' = {} /\ calm' = FALSE
    /\ UNCHANGED <<units, healTries, faults>>

StopUnit ==
    /\ pc = "stop"
    /\ unit' = [unit EXCEPT ![Current] = "off"]
    /\ IF next = 1 THEN Goto("idle", 1) ELSE Goto("stop", next - 1)
    /\ UNCHANGED <<restarted, ranOut, stack, healTries, boxes, faults>>

-----------------------------------------------------------------------------
Command  == StartUnit \/ WaitSlot \/ StartStack \/ StackStarted \/ Table \/ StopUnit
Activate == ComposeUp \/ HealLooks \/ HealRestarts

Next ==
    \/ Start \/ Stop \/ Command \/ Activate
    \/ Mount \/ ComposeFails \/ Reboot
    \/ \E s \in Slot : Serve(s) \/ Dies(s) \/ ComesBack(s)
    \/ \E b \in Backend : Listen(b) \/ BackendDies(b)

(* The command and systemd go on; whether anything ever listens or serves  *)
(* is not assumed.                                                         *)
Fairness == WF_stackVars(Command) /\ WF_stackVars(Activate)
Spec     == Init /\ [][Next]_stackVars /\ Fairness

-----------------------------------------------------------------------------
(* However the containers came up, once the stack unit is active and the   *)
(* gateway has started, every backend is mounted, host-control included;   *)
(* unless one died since the healer saw them all, or it never did.         *)
MountsEverything ==
    stack = "active" /\ calm /\ gateway = "up" => mounted = Backend

(* Two slots allocate at the same time only after a wait that ran out, or  *)
(* when one of them came back by itself.                                   *)
OneAllocation == ~ ranOut => Cardinality(Allocating) <= 1

(* A command ends, whatever does not come up.                              *)
CommandEnds == pc # "idle" ~> pc = "idle"
=============================================================================
