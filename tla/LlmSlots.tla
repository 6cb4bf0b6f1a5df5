------------------------------ MODULE LlmSlots ------------------------------
(***************************************************************************)
(* Which model is served in which vLLM slot: the registry active.json and  *)
(* the commands that read it, change it and write it back                  *)
(*   activate_llm.py -s N -m M      bind a model to a slot                 *)
(*   activate_llm.py -s N --clear   free the slot                          *)
(*   fetch_llm.py -m M, --sync      download models                        *)
(* with what they leave behind: .env.slotN, the unit ragfarm-vllm@N, and   *)
(* Open WebUI's endpoints and presets (setup_openwebui.py).                *)
(*                                                                         *)
(* Abstractions.  validate() makes directory, alias and preset of a        *)
(* registered model unique, so a model stands for all three.  Memory is    *)
(* counted in whole units of the GPU fraction.  A registered model has its *)
(* size_gib, as every entry fetch_llm writes has.  The Hub's file list of  *)
(* a model is a checkpoint that is absent, partial or complete on disk.    *)
(***************************************************************************)
EXTENDS Integers, Sequences, FiniteSets, Functions

CONSTANTS
    Model,
    NoModel,
    NumSlots,
    Weight,         \* model -> size_gib
    KvTarget,       \* values RAGFARM_KV_GIB is given, overhead included
    Ceiling,        \* BUDGET_CEILING
    Shipped,        \* the registry a clone of the repository comes with
    LegacyPreset,   \* the presets of MODEL_TUNING["models"]
    AutoStart,      \* slots that may be enabled at boot; the manual's is {0}
    Admin           \* terminals from which commands are run

Slot == 0 .. NumSlots - 1

ASSUME SlotsAssumption ==
    /\ NoModel \notin Model /\ NumSlots \in Nat \ {0}
    /\ Weight \in [Model -> Nat] /\ KvTarget \subseteq Nat
    /\ Ceiling \in Nat /\ AutoStart \subseteq Slot

(* As validate() wants it: active[] holds indexes into downloaded[]. *)
ASSUME ShippedAssumption ==
    /\ Shipped.active \in Seq(-1 .. Len(Shipped.downloaded) - 1)
    /\ Shipped.downloaded \in Seq(Model)
    /\ Shipped = [active |-> Shipped.active, downloaded |-> Shipped.downloaded]

(* There are finitely many models; a registry that ships names none twice  *)
(* and has no more places than there are slots.                            *)
ASSUME SizesAssumption ==
    /\ IsFiniteSet(Model)
    /\ IsInjective(Shipped.downloaded) /\ Len(Shipped.active) <= NumSlots

VARIABLES
    registry,       \* active.json
    disk,           \* model -> state of its checkpoint under models/llm
    env,            \* slot -> what .env.slotN says
    unit,           \* slot -> what ragfarm-vllm@N is doing
    enabled,        \* slots that start at boot
    endpoints,      \* slots whose URL Open WebUI has
    presets,        \* presets Open WebUI has, by their model
    admin,          \* terminal -> the command it runs
    torn,           \* history: slots a command has begun to change
    rebound         \* history: the presets were rebound since the last change

host  == <<disk, env, unit, enabled>>
webui == <<endpoints, presets, rebound>>
vars  == <<registry, host, webui, admin, torn>>

-----------------------------------------------------------------------------
(***************************************************************************)
(* The registry.  downloaded[] is only appended to; active[] holds indexes *)
(* into it, counted from 0, and is positional: an empty slot below a bound *)
(* one is a hole (null).                                                   *)
(***************************************************************************)
Hole == -1
NoRegistry == [active |-> <<>>, downloaded |-> <<>>]

Index(reg, m) == (CHOOSE i \in DOMAIN reg.downloaded : reg.downloaded[i] = m) - 1

BugKnown(reg) == {}                             \* mutant: registers twice
Known(reg)    == Range(reg.downloaded)

Bound(reg, s) ==
    IF s + 1 \in DOMAIN reg.active /\ reg.active[s + 1] # Hole
    THEN reg.downloaded[reg.active[s + 1] + 1] ELSE NoModel

BoundSlots(reg)  == {s \in Slot : Bound(reg, s) # NoModel}
BoundModels(reg) == {Bound(reg, s) : s \in BoundSlots(reg)}

(* validate: each model in one slot at most. *)
Valid(reg) == \A s, t \in BoundSlots(reg) : Bound(reg, s) = Bound(reg, t) => s = t

Padded(active, s) ==
    [i \in DOMAIN active \cup 1 .. s + 1 |->
       IF i \in DOMAIN active THEN active[i] ELSE Hole]

BugTrimmed(active) == SelectSeq(active, LAMBDA i : i # Hole)  \* mutant: all holes

Trimmed(active) ==
    CHOOSE a \in {SubSeq(active, 1, n) : n \in 0 .. Len(active)} :
      /\ a # <<>> => a[Len(a)] # Hole
      /\ \A i \in DOMAIN active : i > Len(a) => active[i] = Hole

Binding(reg, s, i) == [reg EXCEPT !.active = [Padded(@, s) EXCEPT ![s + 1] = i]]

(* util_for, summed over the slots that would be bound. *)
Util(m, kv) == Weight[m] + kv

BugBudget(reg, kv) ==                           \* mutant: the largest slot only
    CHOOSE n \in {0} \cup {Util(m, kv) : m \in BoundModels(reg)} :
      \A m \in BoundModels(reg) : Util(m, kv) <= n

Budget(reg, kv) ==
    SumFunctionOnSet([s \in BoundSlots(reg) |-> Util(Bound(reg, s), kv)], BoundSlots(reg))

-----------------------------------------------------------------------------
(***************************************************************************)
(* A command is a process that reads the registry once, at its start, and  *)
(* writes that copy back.                                                  *)
(***************************************************************************)
NoEnv == [model |-> NoModel, grant |-> 0]
Down  == [state |-> "down", model |-> NoModel, grant |-> 0]
Idle  == [pc |-> "idle", reg |-> NoRegistry, slot |-> 0, model |-> NoModel,
          kv |-> 0, slots |-> {}, models |-> {}, keep |-> {},
          changed |-> FALSE]

Phase == {"idle", "check", "bind", "writeenv", "wait", "clear", "unlink", "stop",
          "disable", "rebind", "presets", "upsert", "download", "transfer",
          "append", "sync", "refetch", "resave", "strays"}

Registry ==
    [active : UNION {[1 .. n -> {Hole} \cup (0 .. Cardinality(Model) - 1)] :
                       n \in 0 .. NumSlots},
     downloaded : UNION {[1 .. n -> Model] : n \in 0 .. Cardinality(Model)}]

Grant == 0 .. Ceiling

TypeOK ==
    /\ registry \in Registry
    /\ disk \in [Model -> {"absent", "partial", "complete"}]
    /\ env \in [Slot -> [model : Model \cup {NoModel}, grant : Grant]]
    /\ unit \in [Slot -> [state : {"down", "active", "activating"},
                          model : Model \cup {NoModel}, grant : Grant]]
    /\ enabled \subseteq Slot /\ endpoints \subseteq Slot
    /\ presets \subseteq Model \cup LegacyPreset
    /\ admin \in [Admin -> [pc : Phase, reg : Registry, slot : Slot,
                            model : Model \cup {NoModel}, kv : {0} \cup KvTarget,
                            slots : SUBSET Slot, models : SUBSET Model,
                            keep : SUBSET (Model \cup LegacyPreset),
                            changed : BOOLEAN]]
    /\ torn \subseteq Slot /\ rebound \in BOOLEAN

(* A fresh box: no registry or the one that is under version control,      *)
(* whose slots nobody has set up here; no checkpoint.  Open WebUI knows    *)
(* the first endpoint from its environment.                                *)
Init ==
    /\ registry \in {NoRegistry, Shipped}
    /\ disk = [m \in Model |-> "absent"]
    /\ env = [s \in Slot |-> NoEnv]
    /\ unit = [s \in Slot |-> Down]
    /\ enabled = {} /\ endpoints = {0} /\ presets = {}
    /\ admin = [x \in Admin |-> Idle]
    /\ torn = BoundSlots(registry) /\ rebound = FALSE

Step(x, c) == admin' = [admin EXCEPT ![x] = c]
At(x, pc)  == admin[x].pc = pc

(* Killed, or interrupted at a prompt. *)
Die(x) ==
    /\ ~ At(x, "idle")
    /\ Step(x, Idle)
    /\ UNCHANGED <<registry, host, webui, torn>>

-----------------------------------------------------------------------------
(***************************************************************************)
(* activate_llm.py -s N -m M                                               *)
(***************************************************************************)
LoadActivate(x, s, m, kv) ==
    /\ At(x, "idle")
    /\ Valid(registry)                  \* else every command refuses
    /\ m \in Known(registry)
    /\ Step(x, [Idle EXCEPT !.pc = "check", !.reg = registry, !.slot = s,
                  !.model = m, !.kv = kv])
    /\ UNCHANGED <<registry, host, webui, torn>>

Proposed(x) == LET c == admin[x] IN Binding(c.reg, c.slot, Index(c.reg, c.model))

Admissible(x) == /\ disk[admin[x].model] = "complete"
                 /\ Budget(Proposed(x), admin[x].kv) <= Ceiling

Admit(x) ==
    /\ At(x, "check")
    /\ Step(x, IF Admissible(x) THEN [admin[x] EXCEPT !.pc = "bind"] ELSE Idle)
    /\ UNCHANGED <<registry, host, webui, torn>>

SaveBinding(x) ==
    /\ At(x, "bind")
    /\ registry' = Proposed(x)
    /\ Step(x, [admin[x] EXCEPT !.pc = "writeenv", !.reg = Proposed(x)])
    /\ torn' = torn \cup {admin[x].slot} /\ rebound' = FALSE
    /\ UNCHANGED <<host, endpoints, presets>>

(* With --no-restart that is all: the unit keeps running what it runs.     *)
WriteEnv(x) ==
    LET c == admin[x] IN
    /\ c.pc = "writeenv"
    /\ env' = [env EXCEPT ![c.slot] = [model |-> c.model, grant |-> Util(c.model, c.kv)]]
    /\ \/ Step(x, [Idle EXCEPT !.pc = "wait", !.slot = c.slot,
                                !.slots = BoundSlots(c.reg) \ {c.slot}])
       \/ Step(x, Idle)
    /\ UNCHANGED <<registry, disk, unit, enabled, webui, torn>>

(* Each other slot in turn: wait while systemd calls it activating, for    *)
(* half an hour at most.                                                   *)
Awaited(x, o) == At(x, "wait") /\ o \in admin[x].slots
                   /\ \A t \in admin[x].slots : o <= t

OtherReady(x, o) ==
    /\ Awaited(x, o) /\ unit[o].state # "activating"
    /\ Step(x, [admin[x] EXCEPT !.slots = @ \ {o}])
    /\ UNCHANGED <<registry, host, webui, torn>>

GiveUpWaiting(x, o) ==
    /\ Awaited(x, o) /\ unit[o].state = "activating"
    /\ Step(x, Idle)
    /\ UNCHANGED <<registry, host, webui, torn>>

(* The unit reads .env.slotN when it starts and cannot start without it.   *)
Started(s) == IF env[s] = NoEnv THEN Down
              ELSE [state |-> "active", model |-> env[s].model, grant |-> env[s].grant]

RestartUnit(x) ==
    LET s == admin[x].slot IN
    /\ At(x, "wait") /\ admin[x].slots = {}
    /\ unit' = [unit EXCEPT ![s] = Started(s)]
    /\ torn' = torn \ {s}
    /\ Step(x, [Idle EXCEPT !.pc = "rebind"])
    /\ UNCHANGED <<registry, disk, env, enabled, webui>>

-----------------------------------------------------------------------------
(***************************************************************************)
(* activate_llm.py -s N --clear                                            *)
(***************************************************************************)
LoadClear(x, s) ==
    /\ At(x, "idle")
    /\ Valid(registry)
    /\ Step(x, [Idle EXCEPT !.pc = "clear", !.reg = registry, !.slot = s])
    /\ UNCHANGED <<registry, host, webui, torn>>

SaveCleared(x) ==
    LET c   == admin[x]
        reg == [c.reg EXCEPT !.active = Trimmed(Binding(c.reg, c.slot, Hole).active)] IN
    /\ c.pc = "clear"
    /\ registry' = reg
    /\ Step(x, [Idle EXCEPT !.pc = "unlink", !.slot = c.slot])
    /\ torn' = torn \cup {c.slot} /\ rebound' = FALSE
    /\ UNCHANGED <<host, endpoints, presets>>

BugNextEnv(s) == env                    \* mutant: .env.slotN stays
NextEnv(s)    == [env EXCEPT ![s] = NoEnv]

UnlinkEnv(x) ==
    LET c == admin[x] IN
    /\ c.pc = "unlink"
    /\ env' = NextEnv(c.slot)
    /\ Step(x, [c EXCEPT !.pc = "stop"]) \/ Step(x, Idle)
    /\ UNCHANGED <<registry, disk, unit, enabled, webui, torn>>

StopUnit(x) ==
    /\ At(x, "stop")
    /\ unit' = [unit EXCEPT ![admin[x].slot] = Down]
    /\ Step(x, [admin[x] EXCEPT !.pc = "disable"])
    /\ UNCHANGED <<registry, disk, env, enabled, webui, torn>>

DisableUnit(x) ==
    /\ At(x, "disable")
    /\ enabled' = enabled \ {admin[x].slot}
    /\ torn' = torn \ {admin[x].slot}
    /\ Step(x, [Idle EXCEPT !.pc = "rebind"])
    /\ UNCHANGED <<registry, disk, env, unit, webui>>

-----------------------------------------------------------------------------
(***************************************************************************)
(* rebind_openwebui runs setup_openwebui.py, which reads the registry      *)
(* anew.  If it fails, the command warns and ends.                         *)
(***************************************************************************)
RebindFails(x) ==
    /\ admin[x].pc \in {"rebind", "presets", "upsert"}
    /\ Step(x, Idle)
    /\ UNCHANGED <<registry, host, webui, torn>>

(* The first slot's URL is always in the list; a list of one is not sent.  *)
SlotUrls == {0} \cup BoundSlots(registry)

RegisterEndpoints(x) ==
    /\ At(x, "rebind")
    /\ endpoints' = IF Cardinality(SlotUrls) > 1 THEN SlotUrls ELSE endpoints
    /\ Step(x, [admin[x] EXCEPT !.pc = "presets"])
    /\ UNCHANGED <<registry, host, presets, rebound, torn>>

(* One preset per bound slot; with no slot bound, the built-in table's.    *)
RegistryPresets == IF BoundModels(registry) # {} THEN BoundModels(registry)
                                                 ELSE LegacyPreset

ReadSlots(x) ==
    /\ At(x, "presets")
    /\ Step(x, [admin[x] EXCEPT !.pc = "upsert", !.keep = RegistryPresets])
    /\ UNCHANGED <<registry, host, webui, torn>>

UpsertPreset(x, m) ==
    /\ At(x, "upsert") /\ m \in admin[x].keep \ presets
    /\ presets' = presets \cup {m}
    /\ UNCHANGED <<registry, host, endpoints, rebound, admin, torn>>

(* Only presets of these tools are pruned: the registry's and the table's. *)
BugStale(keep) == LegacyPreset \ keep           \* mutant: forgets the registry's
Stale(keep)    == (Known(registry) \cup LegacyPreset) \ keep

PrunePresets(x) ==
    /\ At(x, "upsert") /\ admin[x].keep \subseteq presets
    /\ presets' = presets \ Stale(admin[x].keep)
    /\ rebound' = TRUE
    /\ Step(x, Idle)
    /\ UNCHANGED <<registry, host, endpoints, torn>>

-----------------------------------------------------------------------------
(***************************************************************************)
(* fetch_llm.py -m M: register a model once its download is verified.  It  *)
(* does not validate the registry it reads.                                *)
(***************************************************************************)
LoadAdd(x, m) ==
    /\ At(x, "idle")
    /\ m \notin Known(registry)
    /\ Step(x, [Idle EXCEPT !.pc = "download", !.reg = registry, !.model = m])
    /\ UNCHANGED <<registry, host, webui, torn>>

(* curl resumes what is there; a complete checkpoint stays complete.       *)
Begun(m) == [disk EXCEPT ![m] = IF @ = "complete" THEN @ ELSE "partial"]

BeginDownload(x) ==
    /\ At(x, "download")
    /\ disk' = Begun(admin[x].model)
    /\ Step(x, [admin[x] EXCEPT !.pc = "transfer"])
    /\ UNCHANGED <<registry, env, unit, enabled, webui, torn>>

EndDownload(x) ==
    /\ At(x, "transfer")
    /\ disk' = [disk EXCEPT ![admin[x].model] = "complete"]
    /\ Step(x, [admin[x] EXCEPT !.pc = "append"])
    /\ UNCHANGED <<registry, env, unit, enabled, webui, torn>>

FailDownload(x) ==
    /\ At(x, "transfer")
    /\ Step(x, Idle)
    /\ UNCHANGED <<registry, host, webui, torn>>

SaveAppended(x) ==
    /\ At(x, "append")
    /\ registry' = [admin[x].reg EXCEPT !.downloaded = Append(@, admin[x].model)]
    /\ Step(x, Idle)
    /\ UNCHANGED <<host, webui, torn>>

-----------------------------------------------------------------------------
(***************************************************************************)
(* fetch_llm.py --sync [--yes]: fetch what is registered and incomplete,   *)
(* then delete what is on disk and not registered.  A hole in active[]     *)
(* raises at once.                                                         *)
(***************************************************************************)
LoadSync(x) ==
    /\ At(x, "idle")
    /\ Hole \notin Range(registry.active)
    /\ Step(x, [Idle EXCEPT !.pc = "sync", !.reg = registry,
                  !.models = Known(registry)])
    /\ UNCHANGED <<registry, host, webui, torn>>

SyncEntry(x, m) ==
    LET c == [admin[x] EXCEPT !.models = @ \ {m}] IN
    /\ At(x, "sync") /\ m \in admin[x].models
    /\ disk' = Begun(m)
    /\ Step(x, IF disk[m] = "complete" THEN c
               ELSE [c EXCEPT !.pc = "refetch", !.model = m])
    /\ UNCHANGED <<registry, env, unit, enabled, webui, torn>>

Refetch(x) ==
    LET c == [admin[x] EXCEPT !.pc = "sync", !.model = NoModel] IN
    /\ At(x, "refetch")
    /\ \/ /\ disk' = [disk EXCEPT ![admin[x].model] = "complete"]
          /\ Step(x, [c EXCEPT !.changed = TRUE])
       \/ Step(x, c) /\ UNCHANGED disk
    /\ UNCHANGED <<registry, env, unit, enabled, webui, torn>>

KnownDirs(reg)    == Known(reg)

Strays(reg) == {m \in Model : disk[m] # "absent"} \ KnownDirs(reg)

SaveSynced(x) ==
    LET c == admin[x] IN
    /\ c.pc = "sync" /\ c.models = {}
    /\ registry' = IF c.changed THEN c.reg ELSE registry
    /\ Step(x, [Idle EXCEPT !.pc = "strays", !.models = Strays(c.reg)])
    /\ UNCHANGED <<host, webui, torn>>

DeleteStray(x, m) ==
    /\ At(x, "strays") /\ m \in admin[x].models
    /\ disk' = [disk EXCEPT ![m] = "absent"]
    /\ Step(x, [admin[x] EXCEPT !.models = @ \ {m}])
    /\ UNCHANGED <<registry, env, unit, enabled, webui, torn>>

(* Also without --yes, which only reports the strays. *)
EndSync(x) ==
    /\ At(x, "strays")
    /\ Step(x, Idle)
    /\ UNCHANGED <<registry, host, webui, torn>>

-----------------------------------------------------------------------------
(***************************************************************************)
(* systemd.  The unit has the default Type, so it is active as soon as it  *)
(* is executed and activating only while it waits to be started again.     *)
(***************************************************************************)
UnitDies(s) ==
    /\ unit[s].state = "active"
    /\ unit' = [unit EXCEPT ![s] = [Down EXCEPT !.state = "activating"]]
    /\ UNCHANGED <<registry, disk, env, enabled, webui, admin, torn>>

(* After RestartSec; or the start limit is reached. *)
UnitReturns(s) ==
    /\ unit[s].state = "activating"
    /\ \E u \in {Started(s), Down} : unit' = [unit EXCEPT ![s] = u]
    /\ UNCHANGED <<registry, disk, env, enabled, webui, admin, torn>>

(* activate_llm(1), AUTOSTART AT BOOT: by hand, for a slot that is set up. *)
StartUnit(s) ==
    /\ unit[s] = Down /\ env[s] # NoEnv
    /\ unit' = [unit EXCEPT ![s] = Started(s)]
    /\ UNCHANGED <<registry, disk, env, enabled, webui, admin, torn>>

EnableUnit(s) ==
    /\ s \in AutoStart /\ env[s] # NoEnv /\ s \notin enabled
    /\ enabled' = enabled \cup {s}
    /\ UNCHANGED <<registry, disk, env, unit, webui, admin, torn>>

Reboot ==
    /\ \A x \in Admin : At(x, "idle")
    /\ unit' = [s \in Slot |-> IF s \in enabled THEN Started(s) ELSE Down]
    /\ UNCHANGED <<registry, disk, env, enabled, webui, admin, torn>>

-----------------------------------------------------------------------------
Activate(x) ==
    \/ \E s \in Slot, m \in Model, kv \in KvTarget :
         LoadActivate(x, s, m, kv)
    \/ Admit(x) \/ SaveBinding(x) \/ WriteEnv(x)
    \/ \E o \in Slot : OtherReady(x, o) \/ GiveUpWaiting(x, o)
    \/ RestartUnit(x)

Clear(x) ==
    \/ \E s \in Slot : LoadClear(x, s)
    \/ SaveCleared(x) \/ UnlinkEnv(x) \/ StopUnit(x) \/ DisableUnit(x)

Rebind(x) ==
    \/ RebindFails(x) \/ RegisterEndpoints(x) \/ ReadSlots(x) \/ PrunePresets(x)
    \/ \E m \in Model \cup LegacyPreset : UpsertPreset(x, m)

Fetch(x) ==
    \/ \E m \in Model : LoadAdd(x, m)
    \/ BeginDownload(x) \/ EndDownload(x) \/ FailDownload(x) \/ SaveAppended(x)
    \/ LoadSync(x) \/ Refetch(x) \/ SaveSynced(x) \/ EndSync(x)
    \/ \E m \in Model : SyncEntry(x, m) \/ DeleteStray(x, m)

Systemd ==
    \/ \E s \in Slot : UnitDies(s) \/ UnitReturns(s) \/ StartUnit(s) \/ EnableUnit(s)
    \/ Reboot

Next == \/ \E x \in Admin : Activate(x) \/ Clear(x) \/ Rebind(x) \/ Fetch(x) \/ Die(x)
        \/ Systemd

Spec == Init /\ [][Next]_vars

-----------------------------------------------------------------------------
(***************************************************************************)
(*                              Properties                                 *)
(***************************************************************************)

(* Registry, .env.slotN, unit and autostart are four writes of a command.  *)
(* They agree for every slot that is not half-changed (by a command that   *)
(* was killed, or by a registry that came with the repository): a slot     *)
(* that is bound runs, if it runs, the model and the memory share it was   *)
(* given; one that is not has no .env.slotN to start from, is down and     *)
(* stays down at the next boot.  A command that runs to its end repairs    *)
(* its slot, whatever was killed before.                                   *)
SlotAgrees(s) ==
    IF Bound(registry, s) = NoModel
    THEN env[s] = NoEnv /\ unit[s] = Down /\ s \notin enabled
    ELSE /\ env[s].model = Bound(registry, s)
         /\ unit[s].state = "active" => unit[s] = Started(s)

SlotsAgree == \A s \in Slot \ torn : SlotAgrees(s)

(* "It refuses to activate if the sum across slots would exceed            *)
(* BUDGET_CEILING": the memory the running instances were granted together *)
(* stays within the ceiling, as long as no slot is left half-changed.      *)
WithinBudget ==
    torn = {} => SumFunctionOnSet([s \in Slot |-> unit[s].grant], Slot) <= Ceiling

(* active[] is positional: no command moves a model to another slot or     *)
(* unbinds a slot other than its own, where clearing leaves a hole.        *)
OthersKeepTheirSlots ==
    [][\A s \in Slot : Bound(registry', s) # Bound(registry, s) =>
         \E x \in Admin : /\ admin[x].slot = s
                          /\ admin[x].pc \in {"bind", "clear"}]_vars

(* Once a command has rebound Open WebUI, every slot's endpoint is there   *)
(* and the presets are those of the bound models: none that nothing        *)
(* serves, none missing, whatever failed or was killed before.  (With no   *)
(* slot bound at all the built-in table's presets are written.)            *)
PresetsFollowSlots ==
    rebound /\ BoundSlots(registry) # {} =>
      presets = BoundModels(registry) /\ BoundSlots(registry) \subseteq endpoints

(* Deleting strays never takes the checkpoint of a registered model, such  *)
(* as one a slot is bound to.                                              *)
RegisteredStay ==
    [][\A m \in Model : disk[m] # "absent" /\ disk'[m] = "absent" =>
         m \notin Known(registry)]_vars

(* A command touches what it is about and nothing else. *)
CommandsKeepToTheirOwn == OthersKeepTheirSlots /\ RegisteredStay
=============================================================================
