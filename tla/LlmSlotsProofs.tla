--------------------------- MODULE LlmSlotsProofs ---------------------------
(***************************************************************************)
(* What holds of LlmSlots for any number of slots and models when commands *)
(* are run from one terminal: registry, slot file, unit and autostart      *)
(* agree, presets and endpoints follow, and a command keeps to its own.    *)
(***************************************************************************)
EXTENDS LlmSlots, FoldLemmas, FiniteSetTheorems, SequenceTheorems, TLAPS

OneTerminal == \A x, y \in Admin : x = y

-----------------------------------------------------------------------------
(***************************************************************************)
(* Registries.                                                             *)
(***************************************************************************)
Sound(reg) ==
    /\ reg \in [active : Seq(Int), downloaded : Seq(Model)]
    /\ \A i \in 1 .. Len(reg.active) :
         reg.active[i] = Hole \/ reg.active[i] \in 0 .. Len(reg.downloaded) - 1

LEMMA SlotType == \A s \in Slot : s \in Nat /\ s + 1 \in Nat \ {0} /\ (s + 1) - 1 = s
BY SlotsAssumption DEF Slot

LEMMA EmptySound == Sound(NoRegistry)
<1>1. <<>> \in Seq(Int) /\ <<>> \in Seq(Model) /\ Len(<<>>) = 0
  OBVIOUS
<1> QED BY <1>1 DEF Sound, NoRegistry

LEMMA ShippedSound == Sound(Shipped)
<1> DEFINE a == Shipped.active
           d == Shipped.downloaded
<1>1. a \in Seq(-1 .. Len(d) - 1) /\ d \in Seq(Model)
      /\ Shipped = [active |-> a, downloaded |-> d]
  BY ShippedAssumption
<1> HIDE DEF a, d
<1>2. Len(d) \in Nat /\ -1 .. Len(d) - 1 \subseteq Int
  BY <1>1
<1>3. a \in Seq(Int) /\ \A i \in 1 .. Len(a) : a[i] \in -1 .. Len(d) - 1
  BY <1>1, <1>2
<1> QED BY <1>1, <1>2, <1>3 DEF Sound, Hole

LEMMA BoundType ==
    ASSUME NEW reg, Sound(reg), NEW s \in Slot
    PROVE  Bound(reg, s) \in Model \cup {NoModel}
<1>1. reg.active \in Seq(Int) /\ reg.downloaded \in Seq(Model) /\ Len(reg.downloaded) \in Nat
  BY DEF Sound
<1>2. CASE s + 1 \in DOMAIN reg.active /\ reg.active[s + 1] # Hole
  <2>1. reg.active[s + 1] \in 0 .. Len(reg.downloaded) - 1
    BY <1>1, <1>2 DEF Sound
  <2>2. reg.active[s + 1] + 1 \in 1 .. Len(reg.downloaded)
    BY <1>1, <2>1
  <2> QED BY <1>1, <1>2, <2>2 DEF Bound
<1> QED BY <1>2 DEF Bound

LEMMA KnownIndex ==
    ASSUME NEW reg, Sound(reg), NEW m \in Known(reg)
    PROVE  /\ m \in Model
           /\ Index(reg, m) \in 0 .. Len(reg.downloaded) - 1
           /\ reg.downloaded[Index(reg, m) + 1] = m
<1>1. reg.downloaded \in Seq(Model) /\ DOMAIN reg.downloaded = 1 .. Len(reg.downloaded)
      /\ Len(reg.downloaded) \in Nat
  BY DEF Sound
<1>2. PICK i \in DOMAIN reg.downloaded : reg.downloaded[i] = m
  BY DEF Known, Range
<1> DEFINE j == CHOOSE k \in DOMAIN reg.downloaded : reg.downloaded[k] = m
<1>3. j \in DOMAIN reg.downloaded /\ reg.downloaded[j] = m
  BY <1>2
<1>4. Index(reg, m) = j - 1
  BY DEF Index
<1> HIDE DEF j
<1> QED BY <1>1, <1>3, <1>4

LEMMA PaddedOK ==
    ASSUME NEW active \in Seq(Int), NEW s \in Slot
    PROVE  /\ Padded(active, s) \in Seq(Int)
           /\ s + 1 \in DOMAIN Padded(active, s)
           /\ DOMAIN active \subseteq DOMAIN Padded(active, s)
           /\ \A i \in DOMAIN active : Padded(active, s)[i] = active[i]
           /\ \A i \in DOMAIN Padded(active, s) \ DOMAIN active : Padded(active, s)[i] = Hole
<1> DEFINE n == IF Len(active) > s + 1 THEN Len(active) ELSE s + 1
<1>1. s + 1 \in Nat /\ s + 1 >= 1
  BY SlotType
<1>2. DOMAIN active = 1 .. Len(active) /\ Len(active) \in Nat
  OBVIOUS
<1>3. n \in Nat /\ DOMAIN active \cup 1 .. s + 1 = 1 .. n
  BY <1>1, <1>2
<1> HIDE DEF n
<1>4. Padded(active, s) = [i \in 1 .. n |-> IF i \in DOMAIN active THEN active[i] ELSE Hole]
  BY <1>3 DEF Padded
<1>5. \A i \in 1 .. n : (IF i \in DOMAIN active THEN active[i] ELSE Hole) \in Int
  BY DEF Hole
<1>6. Padded(active, s) \in [1 .. n -> Int]
  BY <1>4, <1>5
<1>7. Padded(active, s) \in Seq(Int)
  BY <1>3, <1>6
<1>8. s + 1 \in 1 .. n
  BY <1>1, <1>3
<1> QED BY <1>3, <1>4, <1>7, <1>8

(* A slot that is bound or freed, and all others as they were. *)
LEMMA BindingOK ==
    ASSUME NEW reg, Sound(reg), NEW s \in Slot,
           NEW i \in {Hole} \cup 0 .. Len(reg.downloaded) - 1
    PROVE  /\ Sound(Binding(reg, s, i))
           /\ Binding(reg, s, i).downloaded = reg.downloaded
           /\ Bound(Binding(reg, s, i), s) = IF i = Hole THEN NoModel ELSE reg.downloaded[i + 1]
           /\ \A t \in Slot \ {s} : Bound(Binding(reg, s, i), t) = Bound(reg, t)
<1> DEFINE b == Binding(reg, s, i)
           p == Padded(reg.active, s)
           a == [p EXCEPT ![s + 1] = i]
<1>1. reg.active \in Seq(Int) /\ reg.downloaded \in Seq(Model) /\ Len(reg.downloaded) \in Nat
  BY DEF Sound
<1>2. /\ p \in Seq(Int) /\ s + 1 \in DOMAIN p /\ DOMAIN reg.active \subseteq DOMAIN p
      /\ \A k \in DOMAIN reg.active : p[k] = reg.active[k]
      /\ \A k \in DOMAIN p \ DOMAIN reg.active : p[k] = Hole
  BY <1>1, PaddedOK
<1>3. b = [active |-> a, downloaded |-> reg.downloaded]
  <2>1. b = [reg EXCEPT !.active = a]
    BY DEF Binding
  <2> HIDE DEF a, b
  <2> QED BY <2>1 DEF Sound
<1> HIDE DEF p, b
<1>4. i \in Int
  BY DEF Hole
<1>5. a \in Seq(Int) /\ Len(a) = Len(p) /\ DOMAIN a = DOMAIN p /\ DOMAIN p = 1 .. Len(p)
  BY <1>2, <1>4
<1>6. a[s + 1] = i /\ \A k \in DOMAIN p \ {s + 1} : a[k] = p[k]
  BY <1>2, <1>5
<1> HIDE DEF a
<1>7. b.active = a /\ b.downloaded = reg.downloaded
  BY <1>3
<1>8. \A k \in DOMAIN p : a[k] = Hole \/ a[k] \in 0 .. Len(reg.downloaded) - 1
  <2> SUFFICES ASSUME NEW k \in DOMAIN p, k # s + 1
               PROVE  p[k] = Hole \/ p[k] \in 0 .. Len(reg.downloaded) - 1
    BY <1>6
  <2>1. CASE k \in DOMAIN reg.active
    BY SMTT(30), <1>1, <1>2, <2>1 DEF Sound
  <2> QED BY <1>2, <2>1
<1>9. Sound(b)
  BY <1>1, <1>3, <1>5, <1>7, <1>8 DEF Sound
<1>10. Bound(b, s) = IF i = Hole THEN NoModel ELSE reg.downloaded[i + 1]
  BY <1>2, <1>5, <1>6, <1>7 DEF Bound
<1>11. ASSUME NEW t \in Slot \ {s} PROVE Bound(b, t) = Bound(reg, t)
  <2>1. t + 1 # s + 1
    BY SlotType
  <2>2. CASE t + 1 \in DOMAIN reg.active
    BY <1>2, <1>5, <1>6, <1>7, <2>1, <2>2 DEF Bound
  <2>3. CASE t + 1 \in DOMAIN p \ DOMAIN reg.active
    BY <1>2, <1>5, <1>6, <1>7, <2>1, <2>3 DEF Bound
  <2>4. CASE t + 1 \notin DOMAIN p
    BY <1>2, <1>5, <1>7, <2>4 DEF Bound
  <2> QED BY <2>2, <2>3, <2>4
<1> QED BY <1>7, <1>9, <1>10, <1>11 DEF b

(* Trimming takes holes, and only from the end. *)
LEMMA TrimmedOK ==
    ASSUME NEW active \in Seq(Int)
    PROVE  \E n \in 0 .. Len(active) :
             /\ Trimmed(active) = SubSeq(active, 1, n)
             /\ \A i \in DOMAIN active : i > n => active[i] = Hole
<1>1. Len(active) \in Nat /\ DOMAIN active = 1 .. Len(active)
  OBVIOUS
<1> DEFINE K == {i \in DOMAIN active : \E j \in DOMAIN active : j >= i /\ active[j] # Hole}
           n == Cardinality(K)
<1>2. IsFiniteSet(K) /\ n \in Nat
  <2>1. K \subseteq 1 .. Len(active) /\ IsFiniteSet(1 .. Len(active))
    BY <1>1, FS_Interval
  <2> QED BY <2>1, FS_Subset, FS_CardinalityType
<1>3. \A i \in K : i <= n
  <2> SUFFICES ASSUME NEW i \in K PROVE i <= n
    OBVIOUS
  <2>1. 1 .. i \subseteq K
    BY <1>1
  <2>2. i \in Nat /\ i >= 1
    BY <1>1
  <2> HIDE DEF K
  <2>3. Cardinality(1 .. i) = i
    BY <2>2, FS_Interval
  <2> QED BY <1>2, <2>1, <2>3, FS_Subset
<1>4. \A i \in DOMAIN active \ K : n < i
  <2> SUFFICES ASSUME NEW i \in DOMAIN active \ K PROVE n < i
    OBVIOUS
  <2>1. i \in Nat /\ i >= 1
    BY <1>1
  <2>2. K \subseteq 1 .. i - 1
    BY <1>1
  <2> HIDE DEF K
  <2>3. IsFiniteSet(1 .. i - 1) /\ Cardinality(1 .. i - 1) = i - 1
    <3>1. 1 \in Int /\ i - 1 \in Int
      BY <2>1
    <3>2. IsFiniteSet(1 .. i - 1)
          /\ Cardinality(1 .. i - 1) = IF 1 > i - 1 THEN 0 ELSE (i - 1) - 1 + 1
      BY <3>1, FS_Interval
    <3> QED BY <2>1, <3>2
  <2>4. n <= i - 1
    BY <2>2, <2>3, FS_Subset
  <2> QED BY <1>2, <2>1, <2>4
<1>5. n \in 0 .. Len(active)
  <2>1. IsFiniteSet(1 .. Len(active)) /\ Cardinality(1 .. Len(active)) = Len(active)
    BY SMTT(30), <1>1, FS_Interval
  <2>2. K \subseteq 1 .. Len(active)
    BY <1>1
  <2> HIDE DEF K
  <2>3. Cardinality(K) <= Len(active)
    BY <2>1, <2>2, FS_Subset
  <2> QED BY <1>1, <1>2, <2>3
<1>6. \A i \in DOMAIN active : i > n => active[i] = Hole
  <2> SUFFICES ASSUME NEW i \in DOMAIN active, active[i] # Hole, i > n PROVE FALSE
    OBVIOUS
  <2>1. i \in K
    BY <1>1
  <2> HIDE DEF K
  <2> QED BY <1>1, <1>2, <1>3, <2>1
<1>7. n # 0 => active[n] # Hole
  <2> SUFFICES ASSUME n # 0 PROVE active[n] # Hole
    OBVIOUS
  <2>1. n \in DOMAIN active /\ ~ (n < n)
    <3> HIDE DEF K, n
    <3> QED BY <1>1, <1>5
  <2>2. n \in K
    <3> HIDE DEF K, n
    <3> QED BY <1>4, <2>1
  <2>3. PICK j \in DOMAIN active : j >= n /\ active[j] # Hole
    BY <2>2
  <2>4. j \in K
    BY <1>1, <2>3
  <2>5. j = n
    <3> HIDE DEF K, n
    <3> QED BY <1>1, <1>3, <1>5, <2>3, <2>4
  <2> HIDE DEF K
  <2> QED BY <2>3, <2>5
<1> HIDE DEF K, n
<1> DEFINE a == SubSeq(active, 1, n)
<1>8. a \in Seq(Int) /\ Len(a) = n /\ \A i \in 1 .. n : a[i] = active[i]
  BY <1>1, <1>5, SubSeqProperties
<1>9. a # <<>> => a[Len(a)] # Hole
  <2> HIDE DEF a
  <2>1. a # <<>> => n # 0 /\ n \in 1 .. n
    BY <1>5, <1>8
  <2> QED BY <1>8, <1>7, <2>1
<1> DEFINE P(s) == /\ s # <<>> => s[Len(s)] # Hole
                   /\ \A i \in DOMAIN active : i > Len(s) => active[i] = Hole
           C    == {SubSeq(active, 1, k) : k \in 0 .. Len(active)}
<1>10. a \in C /\ P(a)
  <2>1. a \in C
    BY <1>5
  <2> QED BY <1>8, <1>9, <1>6, <2>1
<1>11. Trimmed(active) = CHOOSE s \in C : P(s)
  BY DEF Trimmed
<1>12. Trimmed(active) \in C /\ P(Trimmed(active))
  <2> HIDE DEF P, C, a
  <2> QED BY <1>10, <1>11
<1>13. PICK k \in 0 .. Len(active) : Trimmed(active) = SubSeq(active, 1, k)
  BY <1>12
<1>14. Len(Trimmed(active)) = k
  BY <1>1, <1>13, SubSeqProperties
<1> QED BY <1>12, <1>13, <1>14

Freed(reg, s) == [reg EXCEPT !.active = Trimmed(Binding(reg, s, Hole).active)]

LEMMA FreedOK ==
    ASSUME NEW reg, Sound(reg), NEW s \in Slot
    PROVE  /\ Sound(Freed(reg, s)) /\ Freed(reg, s).downloaded = reg.downloaded
           /\ Bound(Freed(reg, s), s) = NoModel
           /\ \A t \in Slot \ {s} : Bound(Freed(reg, s), t) = Bound(reg, t)
<1> DEFINE b   == Binding(reg, s, Hole)
           new == Freed(reg, s)
<1>1. /\ Sound(b) /\ b.downloaded = reg.downloaded /\ Bound(b, s) = NoModel
      /\ \A t \in Slot \ {s} : Bound(b, t) = Bound(reg, t)
  BY BindingOK
<1> HIDE DEF b
<1>2. b.active \in Seq(Int) /\ DOMAIN b.active = 1 .. Len(b.active) /\ Len(b.active) \in Nat
  BY <1>1 DEF Sound
<1>3. PICK n \in 0 .. Len(b.active) :
         /\ Trimmed(b.active) = SubSeq(b.active, 1, n)
         /\ \A i \in DOMAIN b.active : i > n => b.active[i] = Hole
  BY <1>2, TrimmedOK
<1> DEFINE a == SubSeq(b.active, 1, n)
<1>4. a \in Seq(Int) /\ Len(a) = n /\ DOMAIN a = 1 .. n /\ \A i \in 1 .. n : a[i] = b.active[i]
  BY <1>2, SubSeqProperties
<1>5. new = [active |-> a, downloaded |-> reg.downloaded]
  <2>1. new = [reg EXCEPT !.active = a]
    BY <1>3 DEF b, Freed
  <2> HIDE DEF a, new
  <2> QED BY <2>1 DEF Sound
<1> HIDE DEF a, new
<1>6. new.active = a /\ new.downloaded = reg.downloaded
  BY <1>5
<1>7. Sound(new)
  <2>1. new \in [active : Seq(Int), downloaded : Seq(Model)]
    BY <1>4, <1>5 DEF Sound
  <2>2. \A i \in 1 .. n : a[i] = Hole \/ a[i] \in 0 .. Len(reg.downloaded) - 1
    <3>1. \A i \in 1 .. Len(b.active) :
            b.active[i] = Hole \/ b.active[i] \in 0 .. Len(b.downloaded) - 1
      BY <1>1 DEF Sound
    <3>2. 1 .. n \subseteq 1 .. Len(b.active)
      BY <1>2
    <3> QED BY <1>1, <1>4, <3>1, <3>2
  <2> QED BY <1>4, <1>6, <2>1, <2>2 DEF Sound
<1>8. ASSUME NEW t \in Slot PROVE Bound(new, t) = Bound(b, t)
  <2>1. CASE t + 1 \in 1 .. n
    BY SMTT(30), <1>1, <1>2, <1>4, <1>6, <2>1 DEF Bound
  <2>2. CASE t + 1 \notin 1 .. n
    <3>1. t + 1 \in DOMAIN b.active => b.active[t + 1] = Hole
      BY <1>2, <1>3, <2>2, SlotType
    <3> QED BY <1>4, <1>6, <2>2, <3>1 DEF Bound
  <2> QED BY <2>1, <2>2
<1> QED BY <1>1, <1>6, <1>7, <1>8 DEF new

Grown(reg, m) == [reg EXCEPT !.downloaded = Append(@, m)]

LEMMA GrownOK ==
    ASSUME NEW reg, Sound(reg), NEW m \in Model
    PROVE  /\ Sound(Grown(reg, m)) /\ Known(Grown(reg, m)) = Known(reg) \cup {m}
           /\ \A s \in Slot : Bound(Grown(reg, m), s) = Bound(reg, s)
<1> DEFINE d   == Append(reg.downloaded, m)
           new == Grown(reg, m)
<1>1. reg.active \in Seq(Int) /\ reg.downloaded \in Seq(Model) /\ Len(reg.downloaded) \in Nat
      /\ DOMAIN reg.downloaded = 1 .. Len(reg.downloaded)
  BY DEF Sound
<1>2. d \in Seq(Model) /\ Len(d) = Len(reg.downloaded) + 1 /\ DOMAIN d = 1 .. Len(d)
      /\ d[Len(d)] = m /\ \A i \in DOMAIN reg.downloaded : d[i] = reg.downloaded[i]
  BY <1>1
<1>3. new = [active |-> reg.active, downloaded |-> d]
  <2>1. new = [reg EXCEPT !.downloaded = d]
    BY DEF Grown
  <2> HIDE DEF d, new
  <2> QED BY <2>1 DEF Sound
<1> HIDE DEF d, new
<1>4. new.active = reg.active /\ new.downloaded = d
  BY <1>3
<1>5. Sound(new)
  <2>1. new \in [active : Seq(Int), downloaded : Seq(Model)]
    BY <1>1, <1>2, <1>3
  <2>2. \A i \in 1 .. Len(reg.active) :
          reg.active[i] = Hole \/ reg.active[i] \in 0 .. Len(reg.downloaded) - 1
    BY DEF Sound
  <2>3. 0 .. Len(reg.downloaded) - 1 \subseteq 0 .. Len(d) - 1
    BY <1>1, <1>2
  <2> QED BY <1>4, <2>1, <2>2, <2>3 DEF Sound
<1>6. Known(new) = Known(reg) \cup {m}
  <2>1. DOMAIN d = DOMAIN reg.downloaded \cup {Len(d)}
    BY <1>1, <1>2
  <2>2. Range(d) = {d[i] : i \in DOMAIN d}
        /\ Range(reg.downloaded) = {reg.downloaded[i] : i \in DOMAIN reg.downloaded}
    BY DEF Range
  <2>3. Range(d) = Range(reg.downloaded) \cup {m}
    BY <1>2, <2>1, <2>2
  <2> QED BY <1>4, <2>3 DEF Known
<1>7. ASSUME NEW s \in Slot PROVE Bound(new, s) = Bound(reg, s)
  <2>1. CASE s + 1 \in DOMAIN reg.active /\ reg.active[s + 1] # Hole
    <3>1. s + 1 \in 1 .. Len(reg.active)
      BY <1>1, <2>1
    <3>2. reg.active[s + 1] \in 0 .. Len(reg.downloaded) - 1
      BY <2>1, <3>1 DEF Sound
    <3>3. reg.active[s + 1] + 1 \in DOMAIN reg.downloaded
      BY <1>1, <3>2
    <3> QED BY <1>2, <1>4, <2>1, <3>3 DEF Bound
  <2> QED BY <1>4, <2>1 DEF Bound
<1> QED BY <1>5, <1>6, <1>7 DEF new

-----------------------------------------------------------------------------
(***************************************************************************)
(* The invariant.  World holds of what is on disk, in systemd and in Open  *)
(* WebUI; Work says of a command how far it has got, and that the copy it  *)
(* goes by is still the registry: which is so when nobody else writes it.  *)
(***************************************************************************)
Setting == [model : Model \cup {NoModel}, grant : Nat]
Instance == [state : {"down", "active", "activating"}, model : Model \cup {NoModel}, grant : Nat]
Command == [pc : Phase, reg : [active : Seq(Int), downloaded : Seq(Model)], slot : Slot,
            model : Model \cup {NoModel}, kv : {0} \cup KvTarget, slots : SUBSET Slot,
            models : SUBSET Model, keep : SUBSET (Model \cup LegacyPreset), changed : BOOLEAN]

HostType ==
    /\ disk \in [Model -> {"absent", "partial", "complete"}]
    /\ env \in [Slot -> Setting] /\ unit \in [Slot -> Instance]
    /\ enabled \subseteq Slot /\ torn \subseteq Slot

WebuiOK ==
    /\ presets \subseteq Known(registry) \cup LegacyPreset
    /\ 0 \in endpoints /\ rebound \in BOOLEAN
    /\ PresetsFollowSlots

Copies   == {"check", "bind", "writeenv", "clear", "download", "transfer", "append",
             "sync", "refetch"}
Changing == {"writeenv", "wait", "unlink", "stop", "disable"}

World ==
    /\ Sound(registry) /\ admin \in [Admin -> Command]
    /\ HostType /\ WebuiOK /\ SlotsAgree

Work(x) ==
    /\ admin[x].pc \in Copies => admin[x].reg = registry
    /\ admin[x].pc \in {"check", "bind"} => admin[x].model \in Known(registry)
    /\ admin[x].pc \in {"writeenv", "download", "transfer", "append", "refetch"} =>
         admin[x].model \in Model
    /\ admin[x].pc = "strays" => admin[x].models \cap Known(registry) = {}
    /\ admin[x].pc = "writeenv" => admin[x].model = Bound(registry, admin[x].slot)
    /\ admin[x].pc = "wait" => /\ Bound(registry, admin[x].slot) \in Model
                               /\ env[admin[x].slot].model = Bound(registry, admin[x].slot)
    /\ admin[x].pc \in {"unlink", "stop", "disable"} => Bound(registry, admin[x].slot) = NoModel
    /\ admin[x].pc \in {"stop", "disable"} => env[admin[x].slot] = NoEnv
    /\ admin[x].pc = "disable" => unit[admin[x].slot] = Down
    /\ admin[x].pc \in Changing => admin[x].slot \in torn
    /\ admin[x].pc \in Changing \cup {"rebind", "presets", "upsert"} => ~ rebound
    /\ admin[x].pc \in {"presets", "upsert"} => BoundSlots(registry) \subseteq endpoints
    /\ admin[x].pc = "upsert" => admin[x].keep = RegistryPresets

IInv == World /\ \A x \in Admin : Work(x)

LEMMA IdleType == Idle \in Command /\ Idle.pc = "idle"
<1>1. NoRegistry \in [active : Seq(Int), downloaded : Seq(Model)]
  BY EmptySound DEF Sound
<1>2. 0 \in Slot
  BY SlotsAssumption DEF Slot
<1> QED BY <1>1, <1>2 DEF Idle, Command, Phase

LEMMA StepTo ==
    ASSUME admin \in [Admin -> Command], NEW x \in Admin, NEW c \in Command, Step(x, c)
    PROVE  admin' \in [Admin -> Command] /\ admin'[x] = c
BY DEF Step

LEMMA IdleWork ==
    ASSUME IInv, NEW x \in Admin, Step(x, Idle)
    PROVE  admin' \in [Admin -> Command] /\ Work(x)'
BY IdleType, StepTo DEF IInv, World, Work, Copies, Changing

LEMMA SameWorld ==
    ASSUME World, UNCHANGED <<registry, host, webui, torn>>, admin' \in [Admin -> Command]
    PROVE  World'
BY DEF World, HostType, WebuiOK, PresetsFollowSlots, SlotsAgree, SlotAgrees, BoundSlots,
       BoundModels, Started, host, webui

LEMMA KnownModels == ASSUME NEW reg, Sound(reg) PROVE Known(reg) \subseteq Model
BY KnownIndex

(* Steps of a command that change nothing outside it. *)
Inside(x) ==
    \/ \E s \in Slot, m \in Model, kv \in KvTarget : LoadActivate(x, s, m, kv)
    \/ Admit(x) \/ \E o \in Slot : OtherReady(x, o) \/ GiveUpWaiting(x, o)
    \/ \E s \in Slot : LoadClear(x, s)
    \/ RebindFails(x) \/ ReadSlots(x)
    \/ \E m \in Model : LoadAdd(x, m)
    \/ FailDownload(x) \/ LoadSync(x) \/ EndSync(x) \/ Die(x)

LEMMA InsideOK ==
    ASSUME IInv, NEW x \in Admin, Inside(x)
    PROVE  World' /\ Work(x)'
<1>1. World /\ Work(x) /\ Sound(registry) /\ admin \in [Admin -> Command]
  BY DEF IInv, World
<1>2. UNCHANGED <<registry, host, webui, torn>>
  BY DEF Inside, LoadActivate, Admit, OtherReady, GiveUpWaiting, LoadClear, RebindFails,
         ReadSlots, LoadAdd, FailDownload, LoadSync, EndSync, Die
<1>3. SUFFICES admin' \in [Admin -> Command] /\ Work(x)'
  BY <1>1, <1>2, SameWorld
<1>4. CASE Step(x, Idle)
  BY <1>4, IdleWork
<1>5. admin[x] \in Command /\ registry \in [active : Seq(Int), downloaded : Seq(Model)]
      /\ Known(registry) \subseteq Model
  BY <1>1, KnownModels DEF Sound
<1>6. ASSUME NEW s \in Slot, NEW m \in Model, NEW kv \in KvTarget, LoadActivate(x, s, m, kv)
      PROVE  admin' \in [Admin -> Command] /\ Work(x)'
  <2> DEFINE c == [Idle EXCEPT !.pc = "check", !.reg = registry, !.slot = s, !.model = m, !.kv = kv]
  <2>1. c \in Command /\ c.pc = "check" /\ c.reg = registry /\ c.model = m
    BY <1>5, IdleType DEF Command, Phase
  <2>2. Step(x, c) /\ m \in Known(registry)
    BY <1>6 DEF LoadActivate
  <2> HIDE DEF c
  <2>3. admin' \in [Admin -> Command] /\ admin'[x] = c
    BY <1>1, <2>1, <2>2, StepTo
  <2> QED BY <1>2, <2>1, <2>2, <2>3 DEF Work, Copies, Changing
<1>7. CASE Admit(x) /\ ~ Step(x, Idle)
  <2> DEFINE c == [admin[x] EXCEPT !.pc = "bind"]
  <2>1. c \in Command /\ c.pc = "bind" /\ c.reg = admin[x].reg /\ c.model = admin[x].model
    BY <1>5 DEF Command, Phase
  <2>2. Step(x, c) /\ admin[x].pc = "check"
    BY <1>7 DEF Admit, At
  <2> HIDE DEF c
  <2>3. admin' \in [Admin -> Command] /\ admin'[x] = c
    BY <1>1, <2>1, <2>2, StepTo
  <2> QED BY <1>1, <1>2, <2>1, <2>2, <2>3 DEF Work, Copies, Changing
<1>8. ASSUME NEW o \in Slot, OtherReady(x, o) PROVE admin' \in [Admin -> Command] /\ Work(x)'
  <2> DEFINE c == [admin[x] EXCEPT !.slots = @ \ {o}]
  <2>1. c \in Command /\ c.pc = admin[x].pc /\ c.slot = admin[x].slot
    BY <1>5 DEF Command
  <2>2. Step(x, c) /\ admin[x].pc = "wait"
    BY <1>8 DEF OtherReady, Awaited, At
  <2> HIDE DEF c
  <2>3. admin' \in [Admin -> Command] /\ admin'[x] = c
    BY <1>1, <2>1, <2>2, StepTo
  <2> QED BY <1>1, <1>2, <2>1, <2>2, <2>3 DEF Work, Copies, Changing, host, webui
<1>9. ASSUME NEW s \in Slot, LoadClear(x, s) PROVE admin' \in [Admin -> Command] /\ Work(x)'
  <2> DEFINE c == [Idle EXCEPT !.pc = "clear", !.reg = registry, !.slot = s]
  <2>1. c \in Command /\ c.pc = "clear" /\ c.reg = registry
    BY <1>5, IdleType DEF Command, Phase
  <2>2. Step(x, c)
    BY <1>9 DEF LoadClear
  <2> HIDE DEF c
  <2>3. admin' \in [Admin -> Command] /\ admin'[x] = c
    BY <1>1, <2>1, <2>2, StepTo
  <2> QED BY <1>2, <2>1, <2>3 DEF Work, Copies, Changing
<1>10. CASE ReadSlots(x)
  <2> DEFINE c == [admin[x] EXCEPT !.pc = "upsert", !.keep = RegistryPresets]
  <2>1. RegistryPresets \subseteq Model \cup LegacyPreset
    <3>1. BoundModels(registry) \subseteq Model
      BY <1>1, BoundType DEF BoundModels, BoundSlots
    <3> QED BY <3>1 DEF RegistryPresets
  <2>2. c \in Command /\ c.pc = "upsert" /\ c.keep = RegistryPresets
    <3> HIDE DEF RegistryPresets
    <3> QED BY <1>5, <2>1 DEF Command, Phase
  <2>3. Step(x, c) /\ admin[x].pc = "presets"
    BY <1>10 DEF ReadSlots, At
  <2> HIDE DEF c
  <2>4. admin' \in [Admin -> Command] /\ admin'[x] = c
    BY <1>1, <2>2, <2>3, StepTo
  <2>5. ~ rebound /\ BoundSlots(registry) \subseteq endpoints
    BY <1>1, <2>3 DEF Work, Changing
  <2>6. RegistryPresets' = RegistryPresets
    BY <1>2 DEF RegistryPresets, BoundModels, BoundSlots
  <2> QED BY <1>2, <2>2, <2>4, <2>5, <2>6 DEF Work, Copies, Changing, webui
<1>11. ASSUME NEW m \in Model, LoadAdd(x, m) PROVE admin' \in [Admin -> Command] /\ Work(x)'
  <2> DEFINE c == [Idle EXCEPT !.pc = "download", !.reg = registry, !.model = m]
  <2>1. c \in Command /\ c.pc = "download" /\ c.reg = registry /\ c.model = m
    BY <1>5, IdleType DEF Command, Phase
  <2>2. Step(x, c)
    BY <1>11 DEF LoadAdd
  <2> HIDE DEF c
  <2>3. admin' \in [Admin -> Command] /\ admin'[x] = c
    BY <1>1, <2>1, <2>2, StepTo
  <2> QED BY <1>2, <2>1, <2>3 DEF Work, Copies, Changing
<1>12. CASE LoadSync(x)
  <2> DEFINE c == [Idle EXCEPT !.pc = "sync", !.reg = registry, !.models = Known(registry)]
  <2>1. c \in Command /\ c.pc = "sync" /\ c.reg = registry
    <3> HIDE DEF Known
    <3> QED BY <1>5, IdleType DEF Command, Phase
  <2>2. Step(x, c)
    BY <1>12 DEF LoadSync
  <2> HIDE DEF c
  <2>3. admin' \in [Admin -> Command] /\ admin'[x] = c
    BY <1>1, <2>1, <2>2, StepTo
  <2> QED BY <1>2, <2>1, <2>3 DEF Work, Copies, Changing
<1>13. CASE \/ (\E o \in Slot : GiveUpWaiting(x, o)) \/ RebindFails(x) \/ FailDownload(x)
            \/ EndSync(x) \/ Die(x)
  BY <1>4, <1>13 DEF GiveUpWaiting, RebindFails, FailDownload, EndSync, Die
<1> QED BY <1>4, <1>6, <1>7, <1>8, <1>9, <1>10, <1>11, <1>12, <1>13 DEF Inside

-----------------------------------------------------------------------------
(***************************************************************************)
(* What a change leaves as it was.                                         *)
(***************************************************************************)
SameSlot(t) ==
    /\ Bound(registry', t) = Bound(registry, t)
    /\ env'[t] = env[t] /\ unit'[t] = unit[t] /\ (t \in enabled' <=> t \in enabled)

LEMMA StillAgree ==
    ASSUME SlotsAgree, \A t \in Slot \ torn' : t \notin torn /\ SameSlot(t)
    PROVE  SlotsAgree'
<1> SUFFICES ASSUME NEW t \in Slot \ torn' PROVE SlotAgrees(t)'
  BY DEF SlotsAgree
<1>1. SlotAgrees(t) /\ SameSlot(t)
  BY DEF SlotsAgree
<1> QED BY <1>1 DEF SlotAgrees, SameSlot, Started

LEMMA SameBound ==
    ASSUME \A t \in Slot : Bound(registry', t) = Bound(registry, t)
    PROVE  /\ BoundSlots(registry') = BoundSlots(registry)
           /\ BoundModels(registry') = BoundModels(registry)
<1>1. BoundSlots(registry') = BoundSlots(registry)
  BY DEF BoundSlots
<1> QED BY <1>1 DEF BoundModels, BoundSlots

(* Presets need not follow as long as they are not rebound, and need not   *)
(* be rebound as long as slots hold what they held.                        *)
LEMMA WebuiKept ==
    ASSUME WebuiOK, UNCHANGED <<endpoints, presets>>, Known(registry) \subseteq Known(registry'),
           \/ rebound' = FALSE
           \/ UNCHANGED rebound /\ \A t \in Slot : Bound(registry', t) = Bound(registry, t)
    PROVE  WebuiOK'
<1>1. presets' \subseteq Known(registry') \cup LegacyPreset /\ 0 \in endpoints' /\ rebound' \in BOOLEAN
  BY DEF WebuiOK
<1>2. CASE rebound' = FALSE
  BY <1>1, <1>2 DEF WebuiOK, PresetsFollowSlots
<1>3. CASE UNCHANGED rebound /\ \A t \in Slot : Bound(registry', t) = Bound(registry, t)
  BY <1>1, <1>3, SameBound DEF WebuiOK, PresetsFollowSlots
<1> QED BY <1>2, <1>3

LEMMA RestKnown == registry' = registry => Known(registry) \subseteq Known(registry')
OBVIOUS

-----------------------------------------------------------------------------
(***************************************************************************)
(* Activation.                                                             *)
(***************************************************************************)
LEMMA ProposedOK ==
    ASSUME IInv, NEW x \in Admin, admin[x].pc \in {"check", "bind"}
    PROVE  /\ admin[x].slot \in Slot /\ admin[x].model \in Model
           /\ Sound(Proposed(x)) /\ Proposed(x).downloaded = registry.downloaded
           /\ Bound(Proposed(x), admin[x].slot) = admin[x].model
           /\ \A t \in Slot \ {admin[x].slot} : Bound(Proposed(x), t) = Bound(registry, t)
<1> DEFINE m == admin[x].model
           s == admin[x].slot
           i == Index(registry, m)
<1>1. Sound(registry) /\ admin[x].reg = registry /\ m \in Known(registry) /\ s \in Slot
  BY DEF IInv, World, Work, Copies, Command
<1>2. m \in Model /\ i \in 0 .. Len(registry.downloaded) - 1 /\ registry.downloaded[i + 1] = m
  BY <1>1, KnownIndex
<1>3. Proposed(x) = Binding(registry, s, i)
  BY <1>1 DEF Proposed
<1> HIDE DEF m, s, i
<1>4. i # Hole
  BY <1>2 DEF Hole
<1>5. /\ Sound(Binding(registry, s, i))
      /\ Binding(registry, s, i).downloaded = registry.downloaded
      /\ Bound(Binding(registry, s, i), s) = m
      /\ \A t \in Slot \ {s} : Bound(Binding(registry, s, i), t) = Bound(registry, t)
  BY <1>1, <1>2, <1>4, BindingOK
<1> QED BY <1>1, <1>2, <1>3, <1>5 DEF m, s

LEMMA SaveBindingOK ==
    ASSUME IInv, NEW x \in Admin, SaveBinding(x)
    PROVE  World' /\ Work(x)'
<1> DEFINE c == [admin[x] EXCEPT !.pc = "writeenv", !.reg = Proposed(x)]
           s == admin[x].slot
<1>1. World /\ Work(x) /\ admin[x] \in Command /\ admin \in [Admin -> Command]
  BY DEF IInv, World
<1>2. /\ admin[x].pc = "bind" /\ registry' = Proposed(x) /\ Step(x, c)
      /\ torn' = torn \cup {s} /\ rebound' = FALSE
      /\ UNCHANGED <<disk, env, unit, enabled, endpoints, presets>>
  BY DEF SaveBinding, At, host
<1>3. /\ s \in Slot /\ admin[x].model \in Model
      /\ Sound(Proposed(x)) /\ Proposed(x).downloaded = registry.downloaded
      /\ Bound(Proposed(x), s) = admin[x].model
      /\ \A t \in Slot \ {s} : Bound(Proposed(x), t) = Bound(registry, t)
  BY <1>2, ProposedOK
<1>4. c \in Command /\ c.pc = "writeenv" /\ c.reg = Proposed(x) /\ c.slot = s
      /\ c.model = admin[x].model
  <2>1. Proposed(x) \in [active : Seq(Int), downloaded : Seq(Model)]
    BY <1>3 DEF Sound
  <2> HIDE DEF Proposed
  <2> QED BY <1>1, <2>1 DEF Command, Phase
<1> HIDE DEF c, s
<1>5. admin' \in [Admin -> Command] /\ admin'[x] = c
  BY <1>1, <1>2, <1>4, StepTo
<1>6. Work(x)'
  BY <1>2, <1>3, <1>4, <1>5 DEF Work, Copies, Changing
<1>7. WebuiOK'
  <2>1. Known(registry') = Known(registry)
    BY <1>2, <1>3 DEF Known
  <2> QED BY <1>1, <1>2, <2>1, WebuiKept DEF World
<1>8. SlotsAgree'
  <2>1. \A t \in Slot \ torn' : t \notin torn /\ SameSlot(t)
    BY <1>2, <1>3 DEF SameSlot
  <2> QED BY <1>1, <2>1, StillAgree DEF World
<1>9. HostType'
  BY <1>1, <1>2, <1>3 DEF World, HostType
<1> QED BY <1>2, <1>3, <1>5, <1>6, <1>7, <1>8, <1>9 DEF World

LEMMA WriteEnvOK ==
    ASSUME IInv, NEW x \in Admin, WriteEnv(x)
    PROVE  World' /\ Work(x)'
<1> DEFINE s == admin[x].slot
           c == [Idle EXCEPT !.pc = "wait", !.slot = s,
                             !.slots = BoundSlots(admin[x].reg) \ {s}]
           e == [model |-> admin[x].model, grant |-> Util(admin[x].model, admin[x].kv)]
<1>1. World /\ Work(x) /\ admin[x] \in Command /\ admin \in [Admin -> Command] /\ s \in Slot
  BY DEF IInv, World, Command
<1>2. /\ admin[x].pc = "writeenv" /\ env' = [env EXCEPT ![s] = e]
      /\ Step(x, c) \/ Step(x, Idle)
      /\ UNCHANGED <<registry, disk, unit, enabled, endpoints, presets, rebound, torn>>
  BY DEF WriteEnv, webui
<1>3. /\ admin[x].model \in Model /\ admin[x].model = Bound(registry, s)
      /\ s \in torn /\ ~ rebound
  BY <1>1, <1>2 DEF Work, Changing
<1>4. e \in Setting /\ e.model = admin[x].model
  <2>1. admin[x].kv \in {0} \cup KvTarget
    BY <1>1 DEF Command
  <2>2. admin[x].kv \in Nat
    BY <2>1, SlotsAssumption
  <2>3. Weight[admin[x].model] \in Nat
    BY <1>3, SlotsAssumption
  <2> QED BY <1>3, <2>2, <2>3 DEF Setting, Util
<1>5. c \in Command /\ c.pc = "wait" /\ c.slot = s
  <2>1. BoundSlots(admin[x].reg) \ {s} \subseteq Slot
    BY DEF BoundSlots
  <2> QED BY <1>1, <2>1, IdleType DEF Command, Phase
<1> HIDE DEF c, s, e
<1>6. env' \in [Slot -> Setting] /\ env'[s] = e
  BY <1>1, <1>2, <1>4 DEF World, HostType
<1>7. admin' \in [Admin -> Command] /\ Work(x)'
  <2>1. CASE Step(x, Idle)
    BY <2>1, IdleWork
  <2>2. CASE Step(x, c)
    <3>1. admin' \in [Admin -> Command] /\ admin'[x] = c
      BY <1>1, <1>5, <2>2, StepTo
    <3> QED BY <1>2, <1>3, <1>4, <1>5, <1>6, <3>1 DEF Work, Copies, Changing
  <2> QED BY <1>2, <2>1, <2>2
<1>8. WebuiOK'
  BY <1>1, <1>2, RestKnown, WebuiKept DEF World
<1>9. SlotsAgree'
  <2>1. \A t \in Slot \ torn' : t \notin torn /\ SameSlot(t)
    BY <1>1, <1>2, <1>3 DEF SameSlot, World, HostType
  <2> QED BY <1>1, <2>1, StillAgree DEF World
<1> QED BY <1>1, <1>2, <1>6, <1>7, <1>8, <1>9 DEF World, HostType

LEMMA StartedType == ASSUME HostType, NEW s \in Slot PROVE Started(s) \in Instance
BY DEF HostType, Started, Down, Setting, Instance

(* A step of the terminal's command that changes nothing but units and     *)
(* what is torn, for one slot.                                             *)
LEMMA RestartUnitOK ==
    ASSUME IInv, NEW x \in Admin, RestartUnit(x)
    PROVE  World' /\ Work(x)'
<1> DEFINE s == admin[x].slot
           c == [Idle EXCEPT !.pc = "rebind"]
<1>1. World /\ Work(x) /\ admin \in [Admin -> Command] /\ s \in Slot
  BY DEF IInv, World, Command
<1>2. /\ admin[x].pc = "wait" /\ unit' = [unit EXCEPT ![s] = Started(s)] /\ torn' = torn \ {s}
      /\ Step(x, c)
      /\ UNCHANGED <<registry, disk, env, enabled, endpoints, presets, rebound>>
  BY DEF RestartUnit, At, webui
<1>3. /\ Bound(registry, s) \in Model /\ env[s].model = Bound(registry, s) /\ ~ rebound
  BY <1>1, <1>2 DEF Work, Changing
<1>4. c \in Command /\ c.pc = "rebind"
  BY IdleType DEF Command, Phase
<1> HIDE DEF c, s
<1>5. Started(s) \in Instance
  BY <1>1, StartedType DEF World
<1>6. unit' \in [Slot -> Instance] /\ unit'[s] = Started(s) /\ \A t \in Slot \ {s} : unit'[t] = unit[t]
  BY <1>1, <1>2, <1>5 DEF World, HostType
<1>7. admin' \in [Admin -> Command] /\ Work(x)'
  <2>1. admin' \in [Admin -> Command] /\ admin'[x] = c
    BY <1>1, <1>2, <1>4, StepTo
  <2> QED BY <1>2, <1>3, <1>4, <2>1 DEF Work, Copies, Changing
<1>8. WebuiOK'
  BY <1>1, <1>2, RestKnown, WebuiKept DEF World
<1>9. SlotsAgree'
  <2> SUFFICES ASSUME NEW t \in Slot \ torn' PROVE SlotAgrees(t)'
    BY DEF SlotsAgree
  <2>1. CASE t = s
    <3>1. Bound(registry, s) # NoModel
      BY <1>3, SlotsAssumption
    <3> QED BY <1>2, <1>3, <1>6, <2>1, <3>1 DEF SlotAgrees, Started
  <2>2. CASE t # s
    <3>1. t \notin torn /\ SlotAgrees(t)
      BY <1>1, <1>2, <2>2 DEF World, SlotsAgree
    <3> QED BY <1>2, <1>6, <2>2, <3>1 DEF SlotAgrees, Started
  <2> QED BY <2>1, <2>2
<1> QED BY <1>1, <1>2, <1>6, <1>7, <1>8, <1>9 DEF World, HostType

-----------------------------------------------------------------------------
(***************************************************************************)
(* Clearing.                                                               *)
(***************************************************************************)
LEMMA SaveClearedOK ==
    ASSUME IInv, NEW x \in Admin, SaveCleared(x)
    PROVE  /\ World' /\ Work(x)' /\ registry'.downloaded = registry.downloaded
           /\ \A t \in Slot \ {admin[x].slot} : Bound(registry', t) = Bound(registry, t)
<1> DEFINE s == admin[x].slot
           c == [Idle EXCEPT !.pc = "unlink", !.slot = s]
<1>1. World /\ Work(x) /\ admin \in [Admin -> Command] /\ s \in Slot /\ Sound(registry)
  BY DEF IInv, World, Command
<1>2. /\ admin[x].pc = "clear" /\ registry' = Freed(admin[x].reg, s) /\ Step(x, c)
      /\ torn' = torn \cup {s} /\ rebound' = FALSE
      /\ UNCHANGED <<disk, env, unit, enabled, endpoints, presets>>
  BY DEF SaveCleared, Freed, host
<1>3. admin[x].reg = registry
  BY <1>1, <1>2 DEF Work, Copies
<1>4. c \in Command /\ c.pc = "unlink" /\ c.slot = s
  BY <1>1, IdleType DEF Command, Phase
<1> HIDE DEF c, s
<1>5. /\ Sound(registry') /\ registry'.downloaded = registry.downloaded
      /\ Bound(registry', s) = NoModel
      /\ \A t \in Slot \ {s} : Bound(registry', t) = Bound(registry, t)
  BY <1>1, <1>2, <1>3, FreedOK
<1>6. admin' \in [Admin -> Command] /\ Work(x)'
  <2>1. admin' \in [Admin -> Command] /\ admin'[x] = c
    BY <1>1, <1>2, <1>4, StepTo
  <2> QED BY <1>2, <1>4, <1>5, <2>1 DEF Work, Copies, Changing
<1>7. WebuiOK'
  <2>1. Known(registry') = Known(registry)
    BY <1>5 DEF Known
  <2> QED BY <1>1, <1>2, <2>1, WebuiKept DEF World
<1>8. SlotsAgree'
  <2>1. \A t \in Slot \ torn' : t \notin torn /\ SameSlot(t)
    BY <1>2, <1>5 DEF SameSlot
  <2> QED BY <1>1, <2>1, StillAgree DEF World
<1>9. HostType'
  BY <1>1, <1>2 DEF World, HostType
<1> QED BY <1>5, <1>6, <1>7, <1>8, <1>9 DEF World, s

(* The steps after it find the slot unbound and torn. *)
LEMMA UnlinkEnvOK ==
    ASSUME IInv, NEW x \in Admin, UnlinkEnv(x)
    PROVE  World' /\ Work(x)'
<1> DEFINE s == admin[x].slot
           c == [admin[x] EXCEPT !.pc = "stop"]
<1>1. World /\ Work(x) /\ admin \in [Admin -> Command] /\ admin[x] \in Command /\ s \in Slot
  BY DEF IInv, World, Command
<1>2. /\ admin[x].pc = "unlink" /\ env' = [env EXCEPT ![s] = NoEnv]
      /\ Step(x, c) \/ Step(x, Idle)
      /\ UNCHANGED <<registry, disk, unit, enabled, endpoints, presets, rebound, torn>>
  BY DEF UnlinkEnv, NextEnv, webui
<1>3. Bound(registry, s) = NoModel /\ s \in torn /\ ~ rebound
  BY <1>1, <1>2 DEF Work, Changing
<1>4. c \in Command /\ c.pc = "stop" /\ c.slot = s
  BY <1>1 DEF Command, Phase
<1> HIDE DEF c, s
<1>5. env' \in [Slot -> Setting] /\ env'[s] = NoEnv /\ \A t \in Slot \ {s} : env'[t] = env[t]
  BY <1>1, <1>2 DEF World, HostType, NoEnv, Setting
<1>6. admin' \in [Admin -> Command] /\ Work(x)'
  <2>1. CASE Step(x, Idle)
    BY <2>1, IdleWork
  <2>2. CASE Step(x, c)
    <3>1. admin' \in [Admin -> Command] /\ admin'[x] = c
      BY <1>1, <1>4, <2>2, StepTo
    <3> QED BY <1>2, <1>3, <1>4, <1>5, <3>1 DEF Work, Copies, Changing
  <2> QED BY <1>2, <2>1, <2>2
<1>7. WebuiOK'
  BY <1>1, <1>2, RestKnown, WebuiKept DEF World
<1>8. SlotsAgree'
  <2>1. \A t \in Slot \ torn' : t \notin torn /\ SameSlot(t)
    BY <1>2, <1>3, <1>5 DEF SameSlot
  <2> QED BY <1>1, <2>1, StillAgree DEF World
<1> QED BY <1>1, <1>2, <1>5, <1>6, <1>7, <1>8 DEF World, HostType

LEMMA StopUnitOK ==
    ASSUME IInv, NEW x \in Admin, StopUnit(x)
    PROVE  World' /\ Work(x)'
<1> DEFINE s == admin[x].slot
           c == [admin[x] EXCEPT !.pc = "disable"]
<1>1. World /\ Work(x) /\ admin \in [Admin -> Command] /\ admin[x] \in Command /\ s \in Slot
  BY DEF IInv, World, Command
<1>2. /\ admin[x].pc = "stop" /\ unit' = [unit EXCEPT ![s] = Down] /\ Step(x, c)
      /\ UNCHANGED <<registry, disk, env, enabled, endpoints, presets, rebound, torn>>
  BY DEF StopUnit, At, webui
<1>3. Bound(registry, s) = NoModel /\ env[s] = NoEnv /\ s \in torn /\ ~ rebound
  BY <1>1, <1>2 DEF Work, Changing
<1>4. c \in Command /\ c.pc = "disable" /\ c.slot = s
  BY <1>1 DEF Command, Phase
<1> HIDE DEF c, s
<1>5. unit' \in [Slot -> Instance] /\ unit'[s] = Down /\ \A t \in Slot \ {s} : unit'[t] = unit[t]
  BY <1>1, <1>2 DEF World, HostType, Down, Instance
<1>6. admin' \in [Admin -> Command] /\ Work(x)'
  <2>1. admin' \in [Admin -> Command] /\ admin'[x] = c
    BY <1>1, <1>2, <1>4, StepTo
  <2> QED BY <1>2, <1>3, <1>4, <1>5, <2>1 DEF Work, Copies, Changing
<1>7. WebuiOK'
  BY <1>1, <1>2, RestKnown, WebuiKept DEF World
<1>8. SlotsAgree'
  <2>1. \A t \in Slot \ torn' : t \notin torn /\ SameSlot(t)
    BY <1>2, <1>3, <1>5 DEF SameSlot
  <2> QED BY <1>1, <2>1, StillAgree DEF World
<1> QED BY <1>1, <1>2, <1>5, <1>6, <1>7, <1>8 DEF World, HostType

LEMMA DisableUnitOK ==
    ASSUME IInv, NEW x \in Admin, DisableUnit(x)
    PROVE  World' /\ Work(x)'
<1> DEFINE s == admin[x].slot
           c == [Idle EXCEPT !.pc = "rebind"]
<1>1. World /\ Work(x) /\ admin \in [Admin -> Command] /\ s \in Slot
  BY DEF IInv, World, Command
<1>2. /\ admin[x].pc = "disable" /\ enabled' = enabled \ {s} /\ torn' = torn \ {s}
      /\ Step(x, c)
      /\ UNCHANGED <<registry, disk, env, unit, endpoints, presets, rebound>>
  BY DEF DisableUnit, At, webui
<1>3. Bound(registry, s) = NoModel /\ env[s] = NoEnv /\ unit[s] = Down /\ ~ rebound
  BY <1>1, <1>2 DEF Work, Changing
<1>4. c \in Command /\ c.pc = "rebind"
  BY IdleType DEF Command, Phase
<1> HIDE DEF c, s
<1>5. admin' \in [Admin -> Command] /\ Work(x)'
  <2>1. admin' \in [Admin -> Command] /\ admin'[x] = c
    BY <1>1, <1>2, <1>4, StepTo
  <2> QED BY <1>2, <1>3, <1>4, <2>1 DEF Work, Copies, Changing
<1>6. WebuiOK'
  BY <1>1, <1>2, RestKnown, WebuiKept DEF World
<1>7. SlotsAgree'
  <2> SUFFICES ASSUME NEW t \in Slot \ torn' PROVE SlotAgrees(t)'
    BY DEF SlotsAgree
  <2>1. CASE t = s
    BY <1>2, <1>3, <2>1 DEF SlotAgrees
  <2>2. CASE t # s
    <3>1. t \notin torn /\ SlotAgrees(t)
      BY <1>1, <1>2, <2>2 DEF World, SlotsAgree
    <3> QED BY <1>2, <2>2, <3>1 DEF SlotAgrees, Started
  <2> QED BY <2>1, <2>2
<1> QED BY <1>1, <1>2, <1>5, <1>6, <1>7 DEF World, HostType

-----------------------------------------------------------------------------
(***************************************************************************)
(* Rebinding Open WebUI.                                                   *)
(***************************************************************************)
LEMMA BoundKnown ==
    ASSUME NEW reg, Sound(reg) PROVE BoundModels(reg) \subseteq Known(reg)
<1> SUFFICES ASSUME NEW s \in Slot, Bound(reg, s) # NoModel PROVE Bound(reg, s) \in Known(reg)
  BY DEF BoundModels, BoundSlots
<1>1. DOMAIN reg.downloaded = 1 .. Len(reg.downloaded) /\ Len(reg.downloaded) \in Nat
      /\ DOMAIN reg.active = 1 .. Len(reg.active)
  BY DEF Sound
<1>2. s + 1 \in DOMAIN reg.active /\ reg.active[s + 1] # Hole
      /\ Bound(reg, s) = reg.downloaded[reg.active[s + 1] + 1]
  BY DEF Bound
<1>3. reg.active[s + 1] \in 0 .. Len(reg.downloaded) - 1
  BY <1>1, <1>2 DEF Sound
<1>4. reg.active[s + 1] + 1 \in DOMAIN reg.downloaded
  BY <1>1, <1>3
<1> QED BY <1>2, <1>4 DEF Known, Range

(* A list of one URL is the first slot's. *)
LEMMA OneUrl == Cardinality(SlotUrls) > 1 \/ SlotUrls = {0}
<1>1. SlotUrls \subseteq 0 .. NumSlots - 1 /\ 0 \in SlotUrls
  BY SlotsAssumption DEF SlotUrls, BoundSlots, Slot
<1>2. IsFiniteSet(SlotUrls) /\ Cardinality(SlotUrls) \in Nat
  <2>1. IsFiniteSet(0 .. NumSlots - 1)
    BY SlotsAssumption, FS_Interval
  <2> QED BY <1>1, <2>1, FS_Subset, FS_CardinalityType
<1> SUFFICES ASSUME NEW t \in SlotUrls, t # 0 PROVE Cardinality(SlotUrls) > 1
  BY <1>1
<1>3. IsFiniteSet({0}) /\ Cardinality({0}) = 1
  BY FS_Singleton
<1>4. IsFiniteSet({0} \cup {t}) /\ Cardinality({0} \cup {t}) = 2
  BY <1>3, FS_AddElement
<1>5. {0} \cup {t} \subseteq SlotUrls
  BY <1>1
<1>6. Cardinality({0} \cup {t}) <= Cardinality(SlotUrls)
  BY <1>2, <1>5, FS_Subset
<1> QED BY <1>2, <1>4, <1>6

LEMMA RegisterEndpointsOK ==
    ASSUME IInv, NEW x \in Admin, RegisterEndpoints(x)
    PROVE  World' /\ Work(x)'
<1> DEFINE c == [admin[x] EXCEPT !.pc = "presets"]
<1>1. World /\ Work(x) /\ admin \in [Admin -> Command] /\ admin[x] \in Command
  BY DEF IInv, World
<1>2. /\ admin[x].pc = "rebind" /\ Step(x, c)
      /\ endpoints' = IF Cardinality(SlotUrls) > 1 THEN SlotUrls ELSE endpoints
      /\ UNCHANGED <<registry, disk, env, unit, enabled, presets, rebound, torn>>
  BY DEF RegisterEndpoints, At, host
<1>3. ~ rebound
  BY <1>1, <1>2 DEF Work, Changing
<1>4. c \in Command /\ c.pc = "presets"
  BY <1>1 DEF Command, Phase
<1> HIDE DEF c
<1>5. SlotUrls \subseteq endpoints'
  BY <1>1, <1>2, OneUrl DEF World, WebuiOK
<1>6. 0 \in endpoints' /\ BoundSlots(registry') \subseteq endpoints'
  BY <1>2, <1>5 DEF SlotUrls
<1>7. admin' \in [Admin -> Command] /\ Work(x)'
  <2>1. admin' \in [Admin -> Command] /\ admin'[x] = c
    BY <1>1, <1>2, <1>4, StepTo
  <2> QED BY <1>2, <1>3, <1>4, <1>6, <2>1 DEF Work, Copies, Changing
<1>8. WebuiOK'
  BY <1>1, <1>2, <1>3, <1>6 DEF World, WebuiOK, PresetsFollowSlots
<1>9. SlotsAgree'
  <2>1. \A t \in Slot \ torn' : t \notin torn /\ SameSlot(t)
    BY <1>2 DEF SameSlot
  <2> QED BY <1>1, <2>1, StillAgree DEF World
<1> QED BY <1>1, <1>2, <1>7, <1>8, <1>9 DEF World, HostType

(* What is being written are presets of the registry or of the table. *)
LEMMA KeepKnown ==
    ASSUME IInv, NEW x \in Admin, admin[x].pc = "upsert"
    PROVE  /\ admin[x].keep \subseteq Known(registry) \cup LegacyPreset
           /\ BoundSlots(registry) # {} => admin[x].keep = BoundModels(registry)
           /\ BoundSlots(registry) \subseteq endpoints /\ ~ rebound
<1>1. /\ admin[x].keep = RegistryPresets /\ Sound(registry)
      /\ BoundSlots(registry) \subseteq endpoints /\ ~ rebound
  BY DEF IInv, World, Work, Changing
<1>2. BoundModels(registry) \subseteq Known(registry)
  BY <1>1, BoundKnown
<1>3. BoundSlots(registry) # {} => BoundModels(registry) # {}
  BY DEF BoundModels
<1> QED BY <1>1, <1>2, <1>3 DEF RegistryPresets

LEMMA UpsertPresetOK ==
    ASSUME IInv, NEW x \in Admin, NEW m \in Model \cup LegacyPreset, UpsertPreset(x, m)
    PROVE  World' /\ Work(x)'
<1>1. World /\ Work(x)
  BY DEF IInv
<1>2. /\ admin[x].pc = "upsert" /\ m \in admin[x].keep /\ presets' = presets \cup {m}
      /\ UNCHANGED <<registry, disk, env, unit, enabled, endpoints, rebound, admin, torn>>
  BY DEF UpsertPreset, At, host
<1>3. m \in Known(registry) \cup LegacyPreset /\ ~ rebound
  BY <1>2, KeepKnown
<1>4. Work(x)'
  <2>1. BoundSlots(registry') = BoundSlots(registry) /\ RegistryPresets' = RegistryPresets
    BY <1>2 DEF BoundSlots, RegistryPresets, BoundModels
  <2> QED BY <1>1, <1>2, <2>1 DEF Work, Copies, Changing
<1>5. WebuiOK'
  BY <1>1, <1>2, <1>3 DEF World, WebuiOK, PresetsFollowSlots
<1>6. SlotsAgree'
  <2>1. \A t \in Slot \ torn' : t \notin torn /\ SameSlot(t)
    BY <1>2 DEF SameSlot
  <2> QED BY <1>1, <2>1, StillAgree DEF World
<1> QED BY <1>1, <1>2, <1>4, <1>5, <1>6 DEF World, HostType

LEMMA PrunePresetsOK ==
    ASSUME IInv, NEW x \in Admin, PrunePresets(x)
    PROVE  World' /\ Work(x)'
<1>1. World /\ Work(x)
  BY DEF IInv
<1>2. /\ admin[x].pc = "upsert" /\ admin[x].keep \subseteq presets /\ Step(x, Idle)
      /\ presets' = presets \ Stale(admin[x].keep) /\ rebound' = TRUE
      /\ UNCHANGED <<registry, disk, env, unit, enabled, endpoints, torn>>
  BY DEF PrunePresets, At, host
<1>3. presets' = admin[x].keep
  BY <1>1, <1>2 DEF World, WebuiOK, Stale
<1>4. WebuiOK'
  <2>1. UNCHANGED <<BoundSlots(registry), BoundModels(registry), Known(registry)>>
    BY <1>2
  <2> QED BY <1>1, <1>2, <1>3, <2>1, KeepKnown DEF World, WebuiOK, PresetsFollowSlots
<1>5. SlotsAgree'
  <2>1. \A t \in Slot \ torn' : t \notin torn /\ SameSlot(t)
    BY <1>2 DEF SameSlot
  <2> QED BY <1>1, <2>1, StillAgree DEF World
<1>6. admin' \in [Admin -> Command] /\ Work(x)'
  BY <1>2, IdleWork
<1> QED BY <1>1, <1>2, <1>4, <1>5, <1>6 DEF World, HostType

-----------------------------------------------------------------------------
(***************************************************************************)
(* Fetching.                                                               *)
(***************************************************************************)
LEMMA DiskOnly ==
    ASSUME World, UNCHANGED <<registry, env, unit, enabled, webui, torn>>,
           disk' \in [Model -> {"absent", "partial", "complete"}], admin' \in [Admin -> Command]
    PROVE  World'
<1>1. WebuiOK'
  BY RestKnown, WebuiKept DEF World, webui
<1>2. SlotsAgree'
  <2>1. \A t \in Slot \ torn' : t \notin torn /\ SameSlot(t)
    BY DEF SameSlot
  <2> QED BY <2>1, StillAgree DEF World
<1> QED BY <1>1, <1>2 DEF World, HostType

LEMMA BegunType ==
    ASSUME HostType, NEW m \in Model
    PROVE  /\ Begun(m) \in [Model -> {"absent", "partial", "complete"}]
           /\ [disk EXCEPT ![m] = "complete"] \in [Model -> {"absent", "partial", "complete"}]
           /\ [disk EXCEPT ![m] = "absent"] \in [Model -> {"absent", "partial", "complete"}]
BY DEF HostType, Begun

LEMMA DownloadOK ==
    ASSUME IInv, NEW x \in Admin, BeginDownload(x) \/ EndDownload(x)
    PROVE  World' /\ Work(x)'
<1> DEFINE p == IF admin[x].pc = "download" THEN "transfer" ELSE "append"
           c == [admin[x] EXCEPT !.pc = p]
<1>1. World /\ Work(x) /\ HostType /\ admin \in [Admin -> Command] /\ admin[x] \in Command
  BY DEF IInv, World
<1>2. /\ admin[x].pc \in {"download", "transfer"} /\ Step(x, c)
      /\ disk' = Begun(admin[x].model) \/ disk' = [disk EXCEPT ![admin[x].model] = "complete"]
      /\ UNCHANGED <<registry, env, unit, enabled, webui, torn>>
  BY DEF BeginDownload, EndDownload, At
<1>3. admin[x].model \in Model /\ admin[x].reg = registry
  BY <1>1, <1>2 DEF Work, Copies
<1>4. c \in Command /\ c.pc \in {"transfer", "append"} /\ c.reg = registry /\ c.model = admin[x].model
  BY <1>1, <1>3 DEF Command, Phase
<1> HIDE DEF c
<1>5. admin' \in [Admin -> Command] /\ admin'[x] = c
  BY <1>1, <1>2, <1>4, StepTo
<1>6. Work(x)'
  BY <1>2, <1>3, <1>4, <1>5 DEF Work, Copies, Changing
<1> QED BY <1>1, <1>2, <1>3, <1>5, <1>6, BegunType, DiskOnly

LEMMA SaveAppendedOK ==
    ASSUME IInv, NEW x \in Admin, SaveAppended(x)
    PROVE  /\ World' /\ Work(x)' /\ Known(registry) \subseteq Known(registry')
           /\ \A t \in Slot : Bound(registry', t) = Bound(registry, t)
<1>1. World /\ Work(x) /\ Sound(registry)
  BY DEF IInv, World
<1>2. /\ admin[x].pc = "append" /\ registry' = Grown(admin[x].reg, admin[x].model)
      /\ Step(x, Idle)
      /\ UNCHANGED <<disk, env, unit, enabled, endpoints, presets, rebound, torn>>
  BY DEF SaveAppended, At, Grown, host, webui
<1>3. admin[x].model \in Model /\ admin[x].reg = registry
  BY <1>1, <1>2 DEF Work, Copies
<1>4. /\ Sound(registry') /\ Known(registry) \subseteq Known(registry')
      /\ \A t \in Slot : Bound(registry', t) = Bound(registry, t)
  BY <1>1, <1>2, <1>3, GrownOK
<1>5. WebuiOK'
  BY <1>1, <1>2, <1>4, WebuiKept DEF World
<1>6. SlotsAgree'
  <2>1. \A t \in Slot \ torn' : t \notin torn /\ SameSlot(t)
    BY <1>2, <1>4 DEF SameSlot
  <2> QED BY <1>1, <2>1, StillAgree DEF World
<1>7. admin' \in [Admin -> Command] /\ Work(x)'
  BY <1>2, IdleWork
<1> QED BY <1>1, <1>2, <1>4, <1>5, <1>6, <1>7 DEF World, HostType

LEMMA SyncEntryOK ==
    ASSUME IInv, NEW x \in Admin, NEW m \in Model, SyncEntry(x, m)
    PROVE  World' /\ Work(x)'
<1> DEFINE c == [admin[x] EXCEPT !.models = @ \ {m}]
           d == [c EXCEPT !.pc = "refetch", !.model = m]
<1>1. World /\ Work(x) /\ HostType /\ admin \in [Admin -> Command] /\ admin[x] \in Command
  BY DEF IInv, World
<1>2. /\ admin[x].pc = "sync" /\ disk' = Begun(m) /\ (Step(x, c) \/ Step(x, d))
      /\ UNCHANGED <<registry, env, unit, enabled, webui, torn>>
  BY DEF SyncEntry, At
<1>3. admin[x].reg = registry
  BY <1>1, <1>2 DEF Work, Copies
<1>4. c \in Command /\ c.pc = "sync" /\ c.reg = registry
  BY <1>1, <1>2, <1>3 DEF Command, Phase
<1>5. d \in Command /\ d.pc = "refetch" /\ d.reg = registry /\ d.model = m
  <2> HIDE DEF c
  <2> QED BY <1>4 DEF Command, Phase
<1> HIDE DEF c, d
<1>6. PICK e \in {c, d} : admin' \in [Admin -> Command] /\ admin'[x] = e
  BY <1>1, <1>2, <1>4, <1>5, StepTo
<1>7. Work(x)'
  BY <1>2, <1>4, <1>5, <1>6 DEF Work, Copies, Changing
<1> QED BY <1>1, <1>2, <1>6, <1>7, BegunType, DiskOnly

LEMMA RefetchOK ==
    ASSUME IInv, NEW x \in Admin, Refetch(x)
    PROVE  World' /\ Work(x)'
<1> DEFINE c == [admin[x] EXCEPT !.pc = "sync", !.model = NoModel]
           d == [c EXCEPT !.changed = TRUE]
<1>1. World /\ Work(x) /\ HostType /\ admin \in [Admin -> Command] /\ admin[x] \in Command
  BY DEF IInv, World
<1>2. /\ admin[x].pc = "refetch" /\ (Step(x, c) \/ Step(x, d))
      /\ disk' = disk \/ disk' = [disk EXCEPT ![admin[x].model] = "complete"]
      /\ UNCHANGED <<registry, env, unit, enabled, webui, torn>>
  BY DEF Refetch, At
<1>3. admin[x].reg = registry /\ admin[x].model \in Model
  BY <1>1, <1>2 DEF Work, Copies
<1>4. c \in Command /\ c.pc = "sync" /\ c.reg = registry
  BY <1>1, <1>3 DEF Command, Phase
<1>5. d \in Command /\ d.pc = "sync" /\ d.reg = registry
  <2> HIDE DEF c
  <2> QED BY <1>4 DEF Command, Phase
<1> HIDE DEF c, d
<1>6. PICK e \in {c, d} : admin' \in [Admin -> Command] /\ admin'[x] = e
  BY <1>1, <1>2, <1>4, <1>5, StepTo
<1>7. Work(x)'
  BY <1>2, <1>4, <1>5, <1>6 DEF Work, Copies, Changing
<1>8. disk' \in [Model -> {"absent", "partial", "complete"}]
  BY <1>1, <1>2, <1>3, BegunType DEF HostType
<1> QED BY <1>1, <1>2, <1>6, <1>7, <1>8, DiskOnly

LEMMA SaveSyncedOK ==
    ASSUME IInv, NEW x \in Admin, SaveSynced(x)
    PROVE  World' /\ Work(x)' /\ registry' = registry
<1> DEFINE c == [Idle EXCEPT !.pc = "strays", !.models = Strays(admin[x].reg)]
<1>1. World /\ Work(x) /\ admin \in [Admin -> Command]
  BY DEF IInv, World
<1>2. /\ admin[x].pc = "sync" /\ Step(x, c) /\ UNCHANGED <<host, webui, torn>>
      /\ registry' = IF admin[x].changed THEN admin[x].reg ELSE registry
  BY DEF SaveSynced
<1>3. admin[x].reg = registry /\ registry' = registry
  BY <1>1, <1>2 DEF Work, Copies
<1>4. c \in Command /\ c.pc = "strays" /\ c.models = Strays(registry)
  <2>1. Strays(registry) \subseteq Model
    BY DEF Strays
  <2> HIDE DEF Strays
  <2> QED BY <1>3, <2>1, IdleType DEF Command, Phase
<1> HIDE DEF c
<1>5. admin' \in [Admin -> Command] /\ admin'[x] = c
  BY <1>1, <1>2, <1>4, StepTo
<1>6. c.models \cap Known(registry) = {}
  BY <1>4 DEF Strays, KnownDirs
<1>7. Work(x)'
  BY <1>3, <1>4, <1>5, <1>6 DEF Work, Copies, Changing
<1> QED BY <1>1, <1>2, <1>3, <1>5, <1>7, SameWorld

LEMMA DeleteStrayOK ==
    ASSUME IInv, NEW x \in Admin, NEW m \in Model, DeleteStray(x, m)
    PROVE  World' /\ Work(x)' /\ m \notin Known(registry)
<1> DEFINE c == [admin[x] EXCEPT !.models = @ \ {m}]
<1>1. World /\ Work(x) /\ HostType /\ admin \in [Admin -> Command] /\ admin[x] \in Command
  BY DEF IInv, World
<1>2. /\ admin[x].pc = "strays" /\ m \in admin[x].models /\ Step(x, c)
      /\ disk' = [disk EXCEPT ![m] = "absent"]
      /\ UNCHANGED <<registry, env, unit, enabled, webui, torn>>
  BY DEF DeleteStray, At
<1>3. admin[x].models \cap Known(registry) = {}
  BY <1>1, <1>2 DEF Work
<1>4. c \in Command /\ c.pc = "strays" /\ c.models = admin[x].models \ {m}
  BY <1>1, <1>2 DEF Command
<1> HIDE DEF c
<1>5. admin' \in [Admin -> Command] /\ admin'[x] = c
  BY <1>1, <1>2, <1>4, StepTo
<1>6. Work(x)'
  <2>1. c.models \cap Known(registry') = {}
    BY <1>2, <1>3, <1>4
  <2> QED BY <1>4, <1>5, <2>1 DEF Work, Copies, Changing
<1> QED BY <1>1, <1>2, <1>3, <1>5, <1>6, BegunType, DiskOnly

-----------------------------------------------------------------------------
(***************************************************************************)
(* systemd starts a unit only where there is a .env.slotN, so what a       *)
(* command has cleared stays down.                                         *)
(***************************************************************************)
LEMMA UnitsOnly ==
    ASSUME IInv, UNCHANGED <<registry, disk, env, webui, admin, torn>>,
           unit' \in [Slot -> Instance], enabled' \subseteq Slot,
           \A t \in Slot : unit'[t] = unit[t] \/ unit'[t].state # "active"
                              \/ unit'[t] = Started(t),
           \A t \in Slot : env[t] = NoEnv /\ unit[t] = Down => unit'[t] = Down,
           \A t \in Slot : env[t] = NoEnv /\ t \notin enabled => t \notin enabled'
    PROVE  IInv'
<1>1. World /\ \A y \in Admin : Work(y)
  BY DEF IInv
<1>2. WebuiOK'
  BY <1>1, RestKnown, WebuiKept DEF World, webui
<1>3. SlotsAgree'
  <2> SUFFICES ASSUME NEW t \in Slot \ torn' PROVE SlotAgrees(t)'
    BY DEF SlotsAgree
  <2>1. SlotAgrees(t)
    BY <1>1 DEF World, SlotsAgree
  <2>2. CASE Bound(registry, t) = NoModel
    BY <2>1, <2>2 DEF SlotAgrees
  <2>3. CASE Bound(registry, t) # NoModel
    <3>1. Started(t)' = Started(t)
      BY DEF Started
    <3> QED BY <2>1, <2>3, <3>1 DEF SlotAgrees
  <2> QED BY <2>2, <2>3
<1>4. ASSUME NEW y \in Admin PROVE Work(y)'
  <2>1. Work(y) /\ admin[y].slot \in Slot
    BY <1>1 DEF World, Command
  <2>2. RegistryPresets' = RegistryPresets /\ BoundSlots(registry') = BoundSlots(registry)
    BY DEF RegistryPresets, BoundModels, BoundSlots
  <2> QED BY <2>1, <2>2 DEF Work, Changing, webui
<1> QED BY <1>1, <1>2, <1>3, <1>4 DEF IInv, World, HostType

LEMMA SystemdOK == IInv /\ Systemd => IInv'
<1> SUFFICES ASSUME IInv, Systemd PROVE IInv'
  OBVIOUS
<1>1. HostType /\ UNCHANGED <<registry, disk, env, webui, admin, torn>>
  BY DEF IInv, World, Systemd, UnitDies, UnitReturns, StartUnit, EnableUnit, Reboot
<1>2. \A t \in Slot : Started(t) \in Instance /\ (env[t] = NoEnv => Started(t) = Down)
  BY <1>1, StartedType DEF Started
<1>3. Down \in Instance /\ Down.state # "active"
  BY DEF Down, Instance
<1>4. ASSUME NEW s \in Slot, UnitDies(s) PROVE IInv'
  <2> DEFINE u == [Down EXCEPT !.state = "activating"]
  <2>1. u \in Instance /\ u.state = "activating"
    BY DEF Down, Instance
  <2>2. unit[s].state = "active" /\ unit' = [unit EXCEPT ![s] = u] /\ enabled' = enabled
    BY <1>4 DEF UnitDies
  <2> HIDE DEF u
  <2>3. unit' \in [Slot -> Instance] /\ unit'[s] = u /\ \A t \in Slot \ {s} : unit'[t] = unit[t]
    BY <1>1, <2>1, <2>2 DEF HostType
  <2> QED BY <1>1, <1>3, <2>1, <2>2, <2>3, UnitsOnly DEF HostType
<1>5. ASSUME NEW s \in Slot, UnitReturns(s) \/ StartUnit(s) PROVE IInv'
  <2>1. PICK u \in {Started(s), Down} : unit' = [unit EXCEPT ![s] = u] /\ enabled' = enabled
    BY <1>5 DEF UnitReturns, StartUnit
  <2>2. unit' \in [Slot -> Instance] /\ unit'[s] = u /\ \A t \in Slot \ {s} : unit'[t] = unit[t]
    BY <1>1, <1>2, <1>3, <2>1 DEF HostType
  <2> QED BY <1>1, <1>2, <1>3, <2>1, <2>2, UnitsOnly DEF HostType
<1>6. ASSUME NEW s \in Slot, EnableUnit(s) PROVE IInv'
  <2>1. unit' = unit /\ enabled' = enabled \cup {s} /\ env[s] # NoEnv
    BY <1>6 DEF EnableUnit
  <2> QED BY <1>1, <2>1, UnitsOnly DEF HostType
<1>7. CASE Reboot
  <2>1. unit' = [s \in Slot |-> IF s \in enabled THEN Started(s) ELSE Down] /\ enabled' = enabled
    BY <1>7 DEF Reboot
  <2>2. unit' \in [Slot -> Instance] /\ \A t \in Slot : unit'[t] \in {Started(t), Down}
                                       /\ (env[t] = NoEnv => unit'[t] = Down)
    BY <1>2, <1>3, <2>1
  <2> QED BY <1>1, <1>3, <2>1, <2>2, UnitsOnly DEF HostType
<1> QED BY <1>4, <1>5, <1>6, <1>7 DEF Systemd

-----------------------------------------------------------------------------
(***************************************************************************)
(* One terminal: the step of its command is the only one that writes.      *)
(***************************************************************************)
LEMMA CommandOK ==
    ASSUME IInv, NEW x \in Admin, Activate(x) \/ Clear(x) \/ Rebind(x) \/ Fetch(x) \/ Die(x)
    PROVE  World' /\ Work(x)'
<1>1. CASE Activate(x)
  BY <1>1, InsideOK, SaveBindingOK, WriteEnvOK, RestartUnitOK DEF Activate, Inside
<1>2. CASE Clear(x)
  BY <1>2, InsideOK, SaveClearedOK, UnlinkEnvOK, StopUnitOK, DisableUnitOK DEF Clear, Inside
<1>3. CASE Rebind(x)
  BY <1>3, InsideOK, RegisterEndpointsOK, UpsertPresetOK, PrunePresetsOK DEF Rebind, Inside
<1>4. CASE Fetch(x)
  BY <1>4, InsideOK, DownloadOK, SaveAppendedOK, SyncEntryOK, RefetchOK, SaveSyncedOK,
     DeleteStrayOK DEF Fetch, Inside
<1>5. CASE Die(x)
  BY <1>5, InsideOK DEF Inside
<1> QED BY <1>1, <1>2, <1>3, <1>4, <1>5

LEMMA Invariance ==
    ASSUME OneTerminal
    PROVE  IInv /\ [Next]_vars => IInv'
<1> SUFFICES ASSUME IInv, [Next]_vars PROVE IInv'
  OBVIOUS
<1>1. ASSUME NEW x \in Admin, Activate(x) \/ Clear(x) \/ Rebind(x) \/ Fetch(x) \/ Die(x)
      PROVE  IInv'
  <2>1. World' /\ Work(x)'
    BY <1>1, CommandOK
  <2>2. \A y \in Admin : y = x
    BY DEF OneTerminal
  <2> QED BY <2>1, <2>2 DEF IInv
<1>2. CASE UNCHANGED vars
  <2>1. UNCHANGED <<registry, disk, env, unit, enabled, webui, admin, torn>>
    BY <1>2 DEF vars, host
  <2>2. HostType
    BY DEF IInv, World
  <2> QED BY <2>1, <2>2, UnitsOnly DEF HostType
<1> QED BY <1>1, <1>2, SystemdOK DEF Next

LEMMA InitOK == Init => IInv
<1> SUFFICES ASSUME Init PROVE IInv
  OBVIOUS
<1>1. /\ registry \in {NoRegistry, Shipped}
      /\ disk = [m \in Model |-> "absent"] /\ env = [s \in Slot |-> NoEnv]
      /\ unit = [s \in Slot |-> Down] /\ enabled = {} /\ endpoints = {0} /\ presets = {}
      /\ admin = [x \in Admin |-> Idle] /\ torn = BoundSlots(registry) /\ rebound = FALSE
  BY DEF Init
<1>2. Sound(registry)
  BY <1>1, EmptySound, ShippedSound
<1>3. Idle \in Command /\ Idle.pc = "idle" /\ admin \in [Admin -> Command]
  BY <1>1, IdleType
<1>4. HostType
  BY <1>1 DEF HostType, Setting, Instance, NoEnv, Down, BoundSlots
<1>5. WebuiOK
  BY <1>1 DEF WebuiOK, PresetsFollowSlots
<1>6. SlotsAgree
  <2> SUFFICES ASSUME NEW s \in Slot \ torn PROVE SlotAgrees(s)
    BY DEF SlotsAgree
  <2> QED BY <1>1 DEF SlotAgrees, BoundSlots
<1>7. \A x \in Admin : Work(x)
  BY <1>1, <1>3 DEF Work, Copies, Changing
<1> QED BY <1>2, <1>3, <1>4, <1>5, <1>6, <1>7 DEF IInv, World

-----------------------------------------------------------------------------
(***************************************************************************)
(* What a step leaves alone.                                               *)
(***************************************************************************)
LEMMA RegistryWriters ==
    ASSUME [Next]_vars, registry' # registry
    PROVE  \E x \in Admin : SaveBinding(x) \/ SaveCleared(x) \/ SaveAppended(x) \/ SaveSynced(x)
BY ZenonT(40) DEF Next, vars, Activate, Clear, Rebind, Fetch, Die, Systemd,
   LoadActivate, Admit, WriteEnv, OtherReady, GiveUpWaiting, RestartUnit,
   LoadClear, UnlinkEnv, StopUnit, DisableUnit, RebindFails, RegisterEndpoints,
   ReadSlots, UpsertPreset, PrunePresets, LoadAdd, BeginDownload, EndDownload,
   FailDownload, LoadSync, SyncEntry, Refetch, DeleteStray, EndSync, UnitDies,
   UnitReturns, StartUnit, EnableUnit, Reboot

(* Who changes what a slot is given, and what its unit runs. *)
LEMMA HostWriters ==
    ASSUME [Next]_vars, HostType, admin \in [Admin -> Command], NEW s \in Slot
    PROVE  \/ UNCHANGED <<env, unit>>
           \/ \E x \in Admin : WriteEnv(x) \/ UnlinkEnv(x)
           \/ /\ env' = env
              /\ \/ unit'[s] = unit[s] \/ unit'[s] \in {Started(s), Down}
                 \/ unit'[s] = [Down EXCEPT !.state = "activating"]
<1>1. ASSUME NEW x \in Admin, RestartUnit(x) \/ StopUnit(x)
      PROVE  env' = env /\ (unit'[s] = unit[s] \/ unit'[s] \in {Started(s), Down})
  BY <1>1 DEF RestartUnit, StopUnit, HostType
<1>2. ASSUME NEW t \in Slot, UnitDies(t) \/ UnitReturns(t) \/ StartUnit(t)
      PROVE  env' = env /\ (\/ unit'[s] = unit[s] \/ unit'[s] \in {Started(s), Down}
                            \/ unit'[s] = [Down EXCEPT !.state = "activating"])
  BY <1>2 DEF UnitDies, UnitReturns, StartUnit, HostType
<1>3. ASSUME Reboot PROVE env' = env /\ unit'[s] \in {Started(s), Down}
  BY <1>3 DEF Reboot
<1>4. ASSUME NEW x \in Admin, Activate(x)
      PROVE  UNCHANGED <<env, unit>> \/ WriteEnv(x) \/ RestartUnit(x)
  BY <1>4 DEF Activate, host, LoadActivate, Admit, SaveBinding, OtherReady, GiveUpWaiting
<1>5. ASSUME NEW x \in Admin, Clear(x)
      PROVE  UNCHANGED <<env, unit>> \/ UnlinkEnv(x) \/ StopUnit(x)
  BY <1>5 DEF Clear, host, LoadClear, SaveCleared, DisableUnit
<1>6. ASSUME NEW x \in Admin, Rebind(x) \/ Fetch(x) \/ Die(x)
      PROVE  UNCHANGED <<env, unit>>
  BY <1>6 DEF Rebind, Fetch, Die, host, RebindFails, RegisterEndpoints, ReadSlots, UpsertPreset,
     PrunePresets, LoadAdd, BeginDownload, EndDownload, FailDownload, SaveAppended, LoadSync,
     SyncEntry, Refetch, SaveSynced, DeleteStray, EndSync
<1>7. CASE Systemd
  BY <1>2, <1>3, <1>7 DEF Systemd, EnableUnit
<1>8. CASE UNCHANGED vars
  BY <1>8 DEF vars, host
<1> QED
  BY <1>1, <1>4, <1>5, <1>6, <1>7, <1>8 DEF Next

LEMMA OnlyItsSlot ==
    ASSUME IInv, [Next]_vars, NEW s \in Slot, Bound(registry', s) # Bound(registry, s)
    PROVE  \E x \in Admin : admin[x].slot = s /\ admin[x].pc \in {"bind", "clear"}
<1>1. PICK x \in Admin : \/ SaveBinding(x) \/ SaveCleared(x)
                         \/ SaveAppended(x) \/ SaveSynced(x)
  BY RegistryWriters
<1>2. ~ SaveAppended(x) /\ ~ SaveSynced(x)
  BY SaveAppendedOK, SaveSyncedOK
<1>3. CASE SaveBinding(x)
  <2>1. admin[x].pc = "bind" /\ registry' = Proposed(x)
    BY <1>3 DEF SaveBinding, At
  <2>2. \A t \in Slot \ {admin[x].slot} : Bound(Proposed(x), t) = Bound(registry, t)
    BY <2>1, ProposedOK
  <2> QED BY <2>1, <2>2
<1>4. CASE SaveCleared(x)
  <2>1. admin[x].pc = "clear" /\ registry' = Freed(admin[x].reg, admin[x].slot)
    BY <1>4 DEF SaveCleared, Freed
  <2>2. Sound(registry) /\ admin[x].reg = registry /\ admin[x].slot \in Slot
    BY <2>1 DEF IInv, World, Work, Copies, Command
  <2>3. \A t \in Slot \ {admin[x].slot} : Bound(registry', t) = Bound(registry, t)
    BY <2>1, <2>2, FreedOK
  <2> QED BY <2>1, <2>3
<1> QED BY <1>1, <1>2, <1>3, <1>4

LEMMA OnlyStrays ==
    ASSUME IInv, [Next]_vars, NEW m \in Model, disk[m] # "absent", disk'[m] = "absent"
    PROVE  m \notin Known(registry)
<1>1. disk \in [Model -> {"absent", "partial", "complete"}]
  BY DEF IInv, World, HostType
<1>2. PICK x \in Admin : \/ BeginDownload(x) \/ EndDownload(x) \/ Refetch(x)
                         \/ \E n \in Model : SyncEntry(x, n) \/ DeleteStray(x, n)
  <2>1. disk' # disk
    OBVIOUS
  <2> QED
    BY ZenonT(40), <2>1 DEF Next, vars, host, Activate, Clear, Rebind, Fetch, Die, Systemd,
       LoadActivate, Admit, SaveBinding, WriteEnv, OtherReady, GiveUpWaiting,
       RestartUnit, LoadClear, SaveCleared, UnlinkEnv, StopUnit, DisableUnit,
       RebindFails, RegisterEndpoints, ReadSlots, UpsertPreset, PrunePresets, LoadAdd,
       FailDownload, SaveAppended, LoadSync, SaveSynced, EndSync, UnitDies,
       UnitReturns, StartUnit, EnableUnit, Reboot
<1>3. \A n : Begun(n)[m] # "absent" /\ [disk EXCEPT ![n] = "complete"][m] # "absent"
  BY <1>1 DEF Begun
<1>4. ~ BeginDownload(x) /\ ~ EndDownload(x) /\ ~ Refetch(x) /\ \A n \in Model : ~ SyncEntry(x, n)
  BY <1>3 DEF BeginDownload, EndDownload, Refetch, SyncEntry
<1>5. PICK n \in Model : DeleteStray(x, n)
  BY <1>2, <1>4
<1>6. disk' = [disk EXCEPT ![n] = "absent"] /\ n \notin Known(registry)
  BY <1>5, DeleteStrayOK DEF DeleteStray
<1> QED BY <1>1, <1>6

-----------------------------------------------------------------------------
LEMMA Inductive == ASSUME OneTerminal PROVE Spec => []IInv
<1> QED BY InitOK, Invariance, PTL DEF Spec

(* Registry, .env.slotN, unit and autostart agree for every slot that no   *)
(* command has half-changed, whatever was killed, whatever systemd did and *)
(* whatever registry the clone came with.                                  *)
THEOREM SlotsAlwaysAgree ==
    ASSUME OneTerminal
    PROVE  Spec => []SlotsAgree
<1>1. IInv => SlotsAgree
  BY DEF IInv, World
<1> QED BY <1>1, Inductive, PTL

(* After a rebind Open WebUI has the endpoints of all bound slots and the  *)
(* presets of the bound models, until a slot changes again.                *)
THEOREM PresetsAlwaysFollow ==
    ASSUME OneTerminal
    PROVE  Spec => []PresetsFollowSlots
<1>1. IInv => PresetsFollowSlots
  BY DEF IInv, World, WebuiOK
<1> QED BY <1>1, Inductive, PTL

(* Slots change their model only by a command on that slot, and a download *)
(* that is deleted as a stray is in no registry.                           *)
THEOREM CommandsKeepApart ==
    ASSUME OneTerminal
    PROVE  Spec => CommandsKeepToTheirOwn
<1>1. IInv /\ [Next]_vars =>
        [\A s \in Slot : Bound(registry', s) # Bound(registry, s) =>
           \E x \in Admin : /\ admin[x].slot = s
                            /\ admin[x].pc \in {"bind", "clear"}]_vars
  BY OnlyItsSlot
<1>2. IInv /\ [Next]_vars =>
        [\A m \in Model : disk[m] # "absent" /\ disk'[m] = "absent" =>
           m \notin Known(registry)]_vars
  BY OnlyStrays
<1> QED
  BY <1>1, <1>2, Inductive, PTL DEF Spec, CommandsKeepToTheirOwn, OthersKeepTheirSlots,
     RegisteredStay
-----------------------------------------------------------------------------
(***************************************************************************)
(* Sizes.  A registry has no more places than there are slots and no model *)
(* twice, so its indexes are bounded by the number of models; and what a   *)
(* slot is granted is part of a sum that was compared with the ceiling.    *)
(***************************************************************************)
Proper(reg) ==
    /\ Len(reg.active) <= NumSlots
    /\ IsInjective(reg.downloaded)

Admitted(c) ==
    /\ Sound(c.reg) /\ Proper(c.reg)
    /\ c.pc \in {"check", "bind", "writeenv"} => c.kv \in KvTarget
    /\ c.pc \in {"bind", "writeenv"} => Util(c.model, c.kv) <= Ceiling
    /\ c.pc \in {"download", "transfer", "append"} => c.model \notin Known(c.reg)

SizedInv ==
    /\ Proper(registry) /\ endpoints \subseteq Slot
    /\ \A s \in Slot : env[s].grant <= Ceiling /\ unit[s].grant <= Ceiling
    /\ \A x \in Admin : Admitted(admin[x])

LEMMA SlotsFinite == IsFiniteSet(Slot)
BY SlotsAssumption, FS_Interval DEF Slot

LEMMA UtilType == ASSUME NEW m \in Model, NEW kv \in KvTarget PROVE Util(m, kv) \in Nat
<1>1. Weight[m] \in Nat /\ kv \in Nat
  BY SlotsAssumption
<1> QED BY <1>1 DEF Util

(* A budget, as a sum over all slots. *)
Cost(reg, kv) == [s \in Slot |-> IF Bound(reg, s) = NoModel THEN 0 ELSE Util(Bound(reg, s), kv)]

LEMMA CostType ==
    ASSUME NEW reg, Sound(reg), NEW kv \in KvTarget
    PROVE  \A s \in Slot : Cost(reg, kv)[s] \in Nat
<1> SUFFICES ASSUME NEW s \in Slot PROVE Cost(reg, kv)[s] \in Nat
  OBVIOUS
<1>1. Bound(reg, s) \in Model \cup {NoModel}
  BY BoundType
<1>2. CASE Bound(reg, s) = NoModel
  BY <1>2 DEF Cost
<1>3. CASE Bound(reg, s) # NoModel
  BY <1>1, <1>3, UtilType DEF Cost
<1> QED BY <1>2, <1>3

LEMMA BudgetSum ==
    ASSUME NEW reg, Sound(reg), NEW kv \in KvTarget
    PROVE  Budget(reg, kv) = SumFunctionOnSet(Cost(reg, kv), Slot) /\ Budget(reg, kv) \in Nat
<1> DEFINE T == BoundSlots(reg)
           f == Cost(reg, kv)
           g == [s \in T |-> Util(Bound(reg, s), kv)]
<1>1. T \in SUBSET Slot /\ IsFiniteSet(Slot) /\ IsFiniteSet(T)
  BY SlotsFinite, FS_Subset DEF BoundSlots
<1>2. \A s \in Slot : f[s] \in Nat
  BY CostType
<1>3. \A s \in Slot \ T : f[s] = 0
  BY DEF Cost, BoundSlots
<1>4. \A s \in T : f[s] = g[s]
  BY DEF Cost, BoundSlots
<1>5. Budget(reg, kv) = SumFunctionOnSet(g, T)
  BY DEF Budget
<1> HIDE DEF f, g, T
<1>6. (\A s \in T : f[s] \in Nat) /\ (\A s \in T : g[s] \in Nat)
      /\ (\A s \in T : f[s] <= g[s]) /\ (\A s \in T : g[s] <= f[s])
  BY <1>1, <1>2, <1>4
<1>7. SumFunctionOnSet(f, T) <= SumFunctionOnSet(g, T)
  BY <1>1, <1>6, SumMonotone
<1>8. SumFunctionOnSet(g, T) <= SumFunctionOnSet(f, T)
  BY <1>1, <1>6, SumMonotone
<1>9. SumFunctionOnSet(f, T) \in Nat /\ SumFunctionOnSet(g, T) \in Nat
  BY <1>1, <1>6, SumUnfolds
<1>10. SumFunctionOnSet(f, Slot) = SumFunctionOnSet(f, T)
  BY <1>1, <1>2, <1>3, SumPart
<1> QED BY <1>5, <1>7, <1>8, <1>9, <1>10 DEF f

(* Slots that are freed make a budget no larger. *)
LEMMA BudgetLess ==
    ASSUME NEW reg, Sound(reg), NEW new, Sound(new), NEW kv \in KvTarget,
           \A s \in Slot : Bound(new, s) \in {NoModel, Bound(reg, s)}
    PROVE  Budget(new, kv) <= Budget(reg, kv)
<1>1. (\A s \in Slot : Cost(reg, kv)[s] \in Nat) /\ (\A s \in Slot : Cost(new, kv)[s] \in Nat)
  BY CostType
<1>2. \A s \in Slot : Cost(new, kv)[s] <= Cost(reg, kv)[s]
  <2> SUFFICES ASSUME NEW s \in Slot PROVE Cost(new, kv)[s] <= Cost(reg, kv)[s]
    OBVIOUS
  <2>1. CASE Bound(new, s) = NoModel
    <3>1. Cost(new, kv)[s] = 0
      BY <2>1 DEF Cost
    <3> QED BY <1>1, <3>1
  <2>2. CASE Bound(new, s) = Bound(reg, s)
    <3>1. Cost(new, kv)[s] = Cost(reg, kv)[s]
      BY <2>2 DEF Cost
    <3> QED BY <1>1, <3>1
  <2> QED BY <2>1, <2>2
<1>3. SumFunctionOnSet(Cost(new, kv), Slot) <= SumFunctionOnSet(Cost(reg, kv), Slot)
  BY <1>1, <1>2, SlotsFinite, SumMonotone
<1> QED BY <1>3, BudgetSum

LEMMA BudgetPart ==
    ASSUME NEW reg, Sound(reg), NEW kv \in KvTarget, NEW s \in Slot, Bound(reg, s) \in Model
    PROVE  Util(Bound(reg, s), kv) <= Budget(reg, kv)
<1> DEFINE f == Cost(reg, kv)
<1>1. \A t \in Slot : f[t] \in Nat
  BY CostType
<1>2. f[s] = Util(Bound(reg, s), kv)
  BY SlotsAssumption DEF Cost
<1> HIDE DEF f
<1>3. SumFunctionOnSet(f, Slot) = f[s] + SumFunctionOnSet(f, Slot \ {s})
  BY <1>1, SlotsFinite, SumRemove
<1>4. SumFunctionOnSet(f, Slot \ {s}) \in Nat /\ f[s] \in Nat
  <2>1. Slot \ {s} \in SUBSET Slot
    OBVIOUS
  <2> QED BY <1>1, <2>1, SlotsFinite, SumUnfolds
<1>5. Budget(reg, kv) = SumFunctionOnSet(f, Slot)
  BY BudgetSum DEF f
<1> QED BY <1>2, <1>3, <1>4, <1>5

LEMMA ProperBinding ==
    ASSUME NEW reg, Sound(reg), Proper(reg), NEW s \in Slot,
           NEW i \in {Hole} \cup 0 .. Len(reg.downloaded) - 1
    PROVE  Proper(Binding(reg, s, i))
<1> DEFINE p == Padded(reg.active, s)
           a == [p EXCEPT ![s + 1] = i]
<1>1. reg.active \in Seq(Int) /\ DOMAIN reg.active = 1 .. Len(reg.active) /\ Len(reg.active) \in Nat
  BY DEF Sound
<1>2. s + 1 \in 1 .. NumSlots /\ NumSlots \in Nat /\ s + 1 \in Nat
  BY SlotsAssumption, SlotType DEF Slot
<1>3. p \in Seq(Int)
  BY <1>1, PaddedOK
<1>4. DOMAIN p \subseteq 1 .. NumSlots
  <2>1. DOMAIN p = 1 .. Len(reg.active) \cup 1 .. s + 1
    BY <1>1 DEF Padded
  <2>2. Len(reg.active) <= NumSlots
    BY DEF Proper
  <2> HIDE DEF p
  <2> QED BY <1>1, <1>2, <2>1, <2>2
<1> HIDE DEF p
<1>5. Len(p) \in Nat /\ DOMAIN p = 1 .. Len(p)
  BY <1>3
<1>6. Len(p) <= NumSlots
  BY <1>2, <1>4, <1>5
<1>7. Len(a) = Len(p)
  BY <1>3, <1>5
<1>8. Binding(reg, s, i) = [active |-> a, downloaded |-> reg.downloaded]
  <2>1. Binding(reg, s, i) = [reg EXCEPT !.active = a]
    BY DEF Binding, p
  <2> HIDE DEF a
  <2> QED BY <2>1 DEF Sound
<1> HIDE DEF a
<1> QED BY <1>6, <1>7, <1>8 DEF Proper

LEMMA ProperFreed ==
    ASSUME NEW reg, Sound(reg), Proper(reg), NEW s \in Slot
    PROVE  Proper(Freed(reg, s))
<1> DEFINE b == Binding(reg, s, Hole)
<1>1. Sound(b) /\ Proper(b)
  BY BindingOK, ProperBinding
<1> HIDE DEF b
<1>2. b.active \in Seq(Int) /\ Len(b.active) \in Nat /\ Len(b.active) <= NumSlots
  BY <1>1 DEF Sound, Proper
<1>3. PICK n \in 0 .. Len(b.active) : Trimmed(b.active) = SubSeq(b.active, 1, n)
  BY <1>2, TrimmedOK
<1>4. Len(Trimmed(b.active)) = n
  BY <1>2, <1>3, SubSeqProperties
<1>5. Freed(reg, s) = [active |-> Trimmed(b.active), downloaded |-> reg.downloaded]
  BY DEF Freed, Sound, b
<1>6. Len(Trimmed(b.active)) <= NumSlots
  BY <1>2, <1>3, <1>4, SlotsAssumption
<1> QED BY <1>5, <1>6 DEF Proper

LEMMA ProperGrown ==
    ASSUME NEW reg, Sound(reg), Proper(reg), NEW m \in Model, m \notin Known(reg)
    PROVE  Proper(Grown(reg, m))
<1> DEFINE d == Append(reg.downloaded, m)
<1>1. reg.downloaded \in Seq(Model) /\ Len(reg.downloaded) \in Nat
      /\ DOMAIN reg.downloaded = 1 .. Len(reg.downloaded)
  BY DEF Sound
<1>2. /\ DOMAIN d = 1 .. Len(reg.downloaded) + 1 /\ d[Len(reg.downloaded) + 1] = m
      /\ \A i \in DOMAIN reg.downloaded : d[i] = reg.downloaded[i]
  BY <1>1
<1>3. Grown(reg, m) = [active |-> reg.active, downloaded |-> d]
  <2>1. Grown(reg, m) = [reg EXCEPT !.downloaded = d]
    BY DEF Grown
  <2> HIDE DEF d
  <2> QED BY <2>1 DEF Sound
<1> HIDE DEF d
<1>4. \A i \in DOMAIN reg.downloaded : reg.downloaded[i] # m
  BY DEF Known, Range
<1>5. ASSUME NEW i \in DOMAIN d, NEW j \in DOMAIN d, d[i] = d[j] PROVE i = j
  <2>1. i \in DOMAIN reg.downloaded \/ i = Len(reg.downloaded) + 1
    BY <1>1, <1>2
  <2>2. j \in DOMAIN reg.downloaded \/ j = Len(reg.downloaded) + 1
    BY <1>1, <1>2
  <2>3. CASE i \in DOMAIN reg.downloaded /\ j \in DOMAIN reg.downloaded
    BY <1>2, <1>5, <2>3 DEF Proper, IsInjective
  <2> QED BY <1>2, <1>4, <1>5, <2>1, <2>2, <2>3
<1>6. IsInjective(d)
  BY <1>5 DEF IsInjective
<1> QED BY <1>3, <1>6 DEF Proper

LEMMA ProperStart == Proper(NoRegistry) /\ Proper(Shipped) /\ Admitted(Idle)
<1>1. Len(<<>>) = 0 /\ DOMAIN <<>> = {}
  OBVIOUS
<1>2. Proper(NoRegistry)
  BY <1>1, SlotsAssumption DEF Proper, NoRegistry, IsInjective
<1>3. Proper(Shipped)
  BY SizesAssumption DEF Proper
<1> QED BY <1>2, <1>3, EmptySound DEF Admitted, Idle

(* What a command goes by stays proper, whichever step it takes. *)
LEMMA AdmittedStays ==
    ASSUME IInv, SizedInv, NEW x \in Admin,
           Activate(x) \/ Clear(x) \/ Rebind(x) \/ Fetch(x) \/ Die(x)
    PROVE  Admitted(admin'[x])
<1> DEFINE c == admin[x]
<1>1. admin \in [Admin -> Command] /\ c \in Command /\ Work(x) /\ Admitted(c) /\ Sound(registry)
      /\ Proper(registry)
  BY DEF IInv, World, SizedInv
<1>2. \A d : Step(x, d) => admin'[x] = d
  BY <1>1 DEF Step
<1>3. Sound(NoRegistry) /\ Proper(NoRegistry) /\ Admitted(Idle) /\ Idle.reg = NoRegistry
  BY ProperStart, EmptySound DEF Idle
<1>4. ASSUME NEW d, Sound(d.reg), Proper(d.reg), d.pc \notin {"check", "bind", "writeenv", "download",
                                                  "transfer", "append"}
      PROVE  Admitted(d)
  BY <1>4 DEF Admitted
<1>5. CASE Activate(x)
  <2>1. ASSUME NEW s \in Slot, NEW m \in Model, NEW kv \in KvTarget, LoadActivate(x, s, m, kv)
        PROVE  Admitted(admin'[x])
    BY ZenonT(40), <1>1, <1>2, <2>1 DEF LoadActivate, Admitted, Idle
  <2>2. CASE Admit(x)
    <3>1. CASE admin'[x] = Idle
      BY <1>3, <3>1
    <3>2. CASE Admissible(x) /\ admin'[x] = [c EXCEPT !.pc = "bind"]
      <4>1. c.pc = "check" /\ c.kv \in KvTarget
        BY <1>1, <2>2 DEF Admit, At, Admitted
      <4>2. /\ c.slot \in Slot /\ c.model \in Model /\ Sound(Proposed(x))
            /\ Bound(Proposed(x), c.slot) = c.model
        BY <4>1, ProposedOK
      <4>3. Util(c.model, c.kv) <= Budget(Proposed(x), c.kv)
        BY <4>1, <4>2, BudgetPart
      <4>4. Budget(Proposed(x), c.kv) \in Nat /\ Util(c.model, c.kv) \in Nat
        BY <4>1, <4>2, BudgetSum, UtilType
      <4>5. Budget(Proposed(x), c.kv) <= Ceiling
        BY <3>2 DEF Admissible
      <4>6. Util(c.model, c.kv) <= Ceiling
        BY <4>3, <4>4, <4>5, SlotsAssumption
      <4> QED BY <1>1, <3>2, <4>1, <4>6 DEF Admitted, Command
    <3> QED BY <1>2, <2>2, <3>1, <3>2 DEF Admit
  <2>3. CASE SaveBinding(x)
    <3>1. c.pc = "bind" /\ admin'[x] = [c EXCEPT !.pc = "writeenv", !.reg = Proposed(x)]
      BY <1>2, <2>3 DEF SaveBinding, At
    <3>2. Proper(Proposed(x)) /\ Sound(Proposed(x))
      <4>1. c.reg = registry /\ c.model \in Known(registry) /\ c.slot \in Slot
        BY <1>1, <3>1 DEF Work, Copies, Command
      <4>2. Index(registry, c.model) \in 0 .. Len(registry.downloaded) - 1
        BY <1>1, <4>1, KnownIndex
      <4> QED BY <1>1, <3>1, <4>1, <4>2, ProperBinding, ProposedOK DEF Proposed
    <3> HIDE DEF Proposed
    <3> QED BY <1>1, <3>1, <3>2 DEF Admitted, Command
  <2>4. CASE WriteEnv(x)
    <3>1. \/ admin'[x] = Idle
          \/ admin'[x] = [Idle EXCEPT !.pc = "wait", !.slot = c.slot,
                                       !.slots = BoundSlots(c.reg) \ {c.slot}]
      BY <1>2, <2>4 DEF WriteEnv
    <3> QED BY <1>3, <1>4, <3>1 DEF Idle
  <2>5. ASSUME NEW o \in Slot, OtherReady(x, o) \/ GiveUpWaiting(x, o)
        PROVE  Admitted(admin'[x])
    <3>1. c.pc = "wait" /\ (admin'[x] = Idle \/ admin'[x] = [c EXCEPT !.slots = @ \ {o}])
      BY <1>2, <2>5 DEF OtherReady, GiveUpWaiting, Awaited, At
    <3> QED BY <1>1, <1>3, <3>1 DEF Admitted, Command
  <2>6. CASE RestartUnit(x)
    BY <1>2, <1>3, <1>4, <2>6 DEF RestartUnit, Idle
  <2> QED BY <1>5, <2>1, <2>2, <2>3, <2>4, <2>5, <2>6 DEF Activate
<1>6. CASE Clear(x)
  <2>1. ASSUME NEW s \in Slot, LoadClear(x, s) PROVE Admitted(admin'[x])
    BY ZenonT(40), <1>1, <1>2, <2>1 DEF LoadClear, Admitted, Idle
  <2>2. CASE SaveCleared(x)
    <3>1. admin'[x] = [Idle EXCEPT !.pc = "unlink", !.slot = c.slot]
      BY <1>2, <2>2 DEF SaveCleared
    <3> QED BY <1>3, <1>4, <3>1 DEF Idle
  <2>3. CASE UnlinkEnv(x)
    <3>1. admin'[x] = Idle \/ admin'[x] = [c EXCEPT !.pc = "stop"]
      BY <1>2, <2>3 DEF UnlinkEnv
    <3> QED BY <1>1, <1>3, <3>1 DEF Admitted, Command
  <2>4. CASE StopUnit(x)
    BY <1>1, <1>2, <2>4 DEF StopUnit, Admitted, Command
  <2>5. CASE DisableUnit(x)
    BY <1>2, <1>3, <1>4, <2>5 DEF DisableUnit, Idle
  <2> QED BY <1>6, <2>1, <2>2, <2>3, <2>4, <2>5 DEF Clear
<1>7. CASE Rebind(x)
  <2>1. CASE RebindFails(x) \/ PrunePresets(x)
    BY <1>2, <1>3, <2>1 DEF RebindFails, PrunePresets
  <2>2. CASE RegisterEndpoints(x)
    BY <1>1, <1>2, <2>2 DEF RegisterEndpoints, Admitted, Command
  <2>3. CASE ReadSlots(x)
    <3>1. admin'[x] = [c EXCEPT !.pc = "upsert", !.keep = RegistryPresets]
      BY <1>2, <2>3 DEF ReadSlots
    <3> HIDE DEF RegistryPresets
    <3> QED BY <1>1, <3>1 DEF Admitted, Command
  <2>4. ASSUME NEW m \in Model \cup LegacyPreset, UpsertPreset(x, m) PROVE Admitted(admin'[x])
    BY <1>1, <2>4 DEF UpsertPreset
  <2> QED BY <1>7, <2>1, <2>2, <2>3, <2>4 DEF Rebind
<1>8. CASE Fetch(x)
  <2>1. ASSUME NEW m \in Model, LoadAdd(x, m) PROVE Admitted(admin'[x])
    BY ZenonT(40), <1>1, <1>2, <2>1 DEF LoadAdd, Admitted, Idle
  <2>2. CASE BeginDownload(x) \/ EndDownload(x)
    <3>1. /\ c.pc \in {"download", "transfer"}
          /\ \E p \in {"transfer", "append"} : admin'[x] = [c EXCEPT !.pc = p]
      BY <1>2, <2>2 DEF BeginDownload, EndDownload, At
    <3> QED BY <1>1, <3>1 DEF Admitted, Command
  <2>3. CASE FailDownload(x) \/ SaveAppended(x) \/ EndSync(x)
    BY <1>2, <1>3, <2>3 DEF FailDownload, SaveAppended, EndSync
  <2>4. CASE LoadSync(x)
    <3>1. admin'[x] = [Idle EXCEPT !.pc = "sync", !.reg = registry, !.models = Known(registry)]
      BY <1>2, <2>4 DEF LoadSync
    <3> QED BY <1>1, <1>4, <3>1 DEF Idle
  <2>5. CASE Refetch(x)
    <3> DEFINE e == [c EXCEPT !.pc = "sync", !.model = NoModel]
    <3>2. c.pc = "refetch" /\ (admin'[x] = e \/ admin'[x] = [e EXCEPT !.changed = TRUE])
      BY <1>2, <2>5 DEF Refetch, At
    <3>3. e.pc = "sync" /\ e.reg = c.reg /\ e \in Command
      BY <1>1 DEF Command, Phase
    <3> HIDE DEF e
    <3>1. c.pc = "refetch" /\ admin'[x].pc = "sync" /\ admin'[x].reg = c.reg
      BY <3>2, <3>3 DEF Command
    <3> QED BY <1>1, <1>4, <3>1 DEF Admitted
  <2>6. CASE SaveSynced(x)
    <3>1. admin'[x] = [Idle EXCEPT !.pc = "strays", !.models = Strays(c.reg)]
      BY <1>2, <2>6 DEF SaveSynced
    <3> QED BY <1>3, <1>4, <3>1 DEF Idle
  <2>7. ASSUME NEW m \in Model, SyncEntry(x, m) \/ DeleteStray(x, m) PROVE Admitted(admin'[x])
    <3>1. /\ c.pc \in {"sync", "strays"} /\ admin'[x].reg = c.reg
          /\ admin'[x].pc \in {"sync", "refetch", "strays"}
      BY <1>1, <1>2, <2>7 DEF SyncEntry, DeleteStray, At, Command
    <3> QED BY <1>1, <1>4, <3>1 DEF Admitted
  <2> QED BY <1>8, <2>1, <2>2, <2>3, <2>4, <2>5, <2>6, <2>7 DEF Fetch
<1>9. CASE Die(x)
  BY <1>2, <1>3, <1>9 DEF Die
<1> QED BY <1>5, <1>6, <1>7, <1>8, <1>9

(* Four steps write the registry, and none makes it improper. *)
LEMMA ProperStays == ASSUME IInv, SizedInv, [Next]_vars PROVE Proper(registry')
<1>1. Sound(registry) /\ Proper(registry)
  BY DEF IInv, World, SizedInv
<1>2. CASE registry' = registry
  BY <1>1, <1>2
<1>3. CASE registry' # registry
  <2>1. PICK x \in Admin : \/ SaveBinding(x) \/ SaveCleared(x)
                           \/ SaveAppended(x) \/ SaveSynced(x)
    BY <1>3, RegistryWriters
  <2>2. Work(x) /\ Admitted(admin[x]) /\ admin[x].slot \in Slot
    BY DEF IInv, World, SizedInv, Command
  <2>3. CASE SaveBinding(x)
    <3>1. admin[x].pc = "bind" /\ registry' = Proposed(x)
      BY <2>3 DEF SaveBinding, At
    <3>2. admin[x].reg = registry /\ admin[x].model \in Known(registry)
      BY <2>2, <3>1 DEF Work, Copies
    <3>3. Index(registry, admin[x].model) \in 0 .. Len(registry.downloaded) - 1
      BY <1>1, <3>2, KnownIndex
    <3> QED BY <1>1, <2>2, <3>1, <3>2, <3>3, ProperBinding DEF Proposed
  <2>4. CASE SaveCleared(x)
    <3>1. admin[x].pc = "clear" /\ registry' = Freed(admin[x].reg, admin[x].slot)
      BY <2>4 DEF SaveCleared, Freed
    <3>2. admin[x].reg = registry
      BY <2>2, <3>1 DEF Work, Copies
    <3> QED BY <1>1, <2>2, <3>1, <3>2, ProperFreed
  <2>5. CASE SaveAppended(x)
    <3>1. admin[x].pc = "append" /\ registry' = Grown(admin[x].reg, admin[x].model)
      BY <2>5 DEF SaveAppended, At, Grown
    <3>2. /\ admin[x].reg = registry /\ admin[x].model \in Model
          /\ admin[x].model \notin Known(admin[x].reg)
      BY <2>2, <3>1 DEF Work, Copies, Admitted
    <3> QED BY <1>1, <3>1, <3>2, ProperGrown
  <2>6. CASE SaveSynced(x)
    BY <1>1, <2>6, SaveSyncedOK
  <2> QED BY <2>1, <2>3, <2>4, <2>5, <2>6
<1> QED BY <1>2, <1>3

(* A grant is what a command was admitted with, or one of an earlier       *)
(* instance.                                                               *)
LEMMA GrantsStay ==
    ASSUME IInv, SizedInv, [Next]_vars, NEW s \in Slot
    PROVE  env'[s].grant <= Ceiling /\ unit'[s].grant <= Ceiling
<1>1. /\ HostType /\ env[s].grant <= Ceiling /\ unit[s].grant <= Ceiling /\ 0 <= Ceiling
      /\ admin \in [Admin -> Command]
  BY SlotsAssumption DEF IInv, World, SizedInv
<1>2. \A t \in Slot : Started(t).grant <= Ceiling /\ Down.grant = 0
  BY <1>1 DEF Started, Down, SizedInv
<1>3. CASE UNCHANGED <<env, unit>>
  BY <1>1, <1>3
<1>4. ASSUME NEW x \in Admin, WriteEnv(x) PROVE env'[s].grant <= Ceiling /\ unit'[s].grant <= Ceiling
  <2>1. /\ admin[x].pc = "writeenv" /\ unit' = unit
        /\ env' = [env EXCEPT ![admin[x].slot] =
                     [model |-> admin[x].model, grant |-> Util(admin[x].model, admin[x].kv)]]
    BY <1>4 DEF WriteEnv
  <2>2. Util(admin[x].model, admin[x].kv) <= Ceiling
    BY <2>1 DEF SizedInv, Admitted
  <2>3. \/ env'[s] = env[s]
        \/ env'[s] = [model |-> admin[x].model, grant |-> Util(admin[x].model, admin[x].kv)]
    BY <1>1, <2>1 DEF HostType
  <2> QED BY <1>1, <2>1, <2>2, <2>3
<1>5. ASSUME NEW x \in Admin, UnlinkEnv(x) PROVE env'[s].grant <= Ceiling /\ unit'[s].grant <= Ceiling
  <2>1. unit' = unit /\ env' = [env EXCEPT ![admin[x].slot] = NoEnv]
    BY <1>5 DEF UnlinkEnv, NextEnv
  <2>2. env'[s] = env[s] \/ env'[s] = NoEnv
    BY <1>1, <2>1 DEF HostType
  <2> QED BY <1>1, <2>1, <2>2 DEF NoEnv
<1>6. CASE /\ env' = env
           /\ \/ unit'[s] = unit[s] \/ unit'[s] \in {Started(s), Down}
              \/ unit'[s] = [Down EXCEPT !.state = "activating"]
  BY <1>1, <1>2, <1>6 DEF Down
<1> QED
  BY <1>1, <1>3, <1>4, <1>5, <1>6, HostWriters

LEMMA EndpointsStay ==
    ASSUME SizedInv, [Next]_vars
    PROVE  endpoints' \subseteq Slot
<1>1. endpoints \subseteq Slot
  BY DEF SizedInv
<1>2. CASE \E x \in Admin : RegisterEndpoints(x)
  <2>1. SlotUrls \subseteq Slot
    BY SlotsAssumption DEF SlotUrls, BoundSlots, Slot
  <2> QED BY <1>1, <1>2, <2>1 DEF RegisterEndpoints
<1>3. CASE endpoints' = endpoints
  BY <1>1, <1>3
<1>4. (\E x \in Admin : RegisterEndpoints(x)) \/ endpoints' = endpoints
  BY ZenonT(40) DEF Next, vars, webui, Activate, Clear, Rebind, Fetch, Die, Systemd,
     LoadActivate, Admit, SaveBinding, WriteEnv, OtherReady, GiveUpWaiting, RestartUnit,
     LoadClear, SaveCleared, UnlinkEnv, StopUnit, DisableUnit, RebindFails,
     ReadSlots, UpsertPreset, PrunePresets, LoadAdd, BeginDownload, EndDownload,
     FailDownload, SaveAppended, LoadSync, SyncEntry, Refetch, SaveSynced, DeleteStray,
     EndSync, UnitDies, UnitReturns, StartUnit, EnableUnit, Reboot
<1> QED BY <1>2, <1>3, <1>4

LEMMA SizedInvariance ==
    ASSUME OneTerminal
    PROVE  IInv /\ SizedInv /\ [Next]_vars => SizedInv'
<1> SUFFICES ASSUME IInv, SizedInv, [Next]_vars PROVE SizedInv'
  OBVIOUS
<1>1. Proper(registry')
  BY ProperStays
<1>2. \A s \in Slot : env'[s].grant <= Ceiling /\ unit'[s].grant <= Ceiling
  BY GrantsStay
<1>3. ASSUME NEW x \in Admin PROVE Admitted(admin'[x])
  <2>1. CASE Activate(x) \/ Clear(x) \/ Rebind(x) \/ Fetch(x) \/ Die(x)
    BY <2>1, AdmittedStays
  <2>2. CASE admin' = admin
    BY <2>2 DEF SizedInv
  <2>3. \A y \in Admin : y = x
    BY DEF OneTerminal
  <2> QED BY <2>1, <2>2, <2>3 DEF Next, vars, Systemd, UnitDies, UnitReturns, StartUnit, EnableUnit, Reboot
<1> QED BY <1>1, <1>2, <1>3, EndpointsStay DEF SizedInv

LEMMA SizedStart == Init => SizedInv
<1> SUFFICES ASSUME Init PROVE SizedInv
  OBVIOUS
<1>1. /\ registry \in {NoRegistry, Shipped} /\ env = [s \in Slot |-> NoEnv]
      /\ unit = [s \in Slot |-> Down] /\ admin = [x \in Admin |-> Idle] /\ endpoints = {0}
  BY DEF Init
<1>2. 0 <= Ceiling /\ 0 \in Slot
  BY SlotsAssumption DEF Slot
<1> QED BY <1>1, <1>2, ProperStart DEF SizedInv, NoEnv, Down

(* No registry is longer than there are models. *)
LEMMA RegistryType ==
    ASSUME NEW reg, Sound(reg), Proper(reg)
    PROVE  reg \in Registry
<1> DEFINE a == reg.active
           d == reg.downloaded
           N == Cardinality(Model)
<1>1. /\ a \in Seq(Int) /\ d \in Seq(Model) /\ reg = [active |-> a, downloaded |-> d]
      /\ Len(a) \in Nat /\ Len(d) \in Nat /\ DOMAIN a = 1 .. Len(a) /\ DOMAIN d = 1 .. Len(d)
  BY DEF Sound
<1>2. d \in [1 .. Len(d) -> Model]
  BY <1>1
<1>3. Len(d) <= N /\ N \in Nat
  <2>1. Cardinality(1 .. Len(d)) = Len(d)
    <3>1. \A n \in Nat : Cardinality(1 .. n) = n
      BY FS_Interval
    <3> QED BY <1>1, <3>1
  <2>2. \A i, j \in 1 .. Len(d) : d[i] = d[j] => i = j
    BY <1>1 DEF Proper, IsInjective
  <2>3. d \in Injection(1 .. Len(d), Model)
    BY <1>2, <2>2 DEF Injection, IsInjective
  <2>4. Cardinality(1 .. Len(d)) <= Cardinality(Model)
    BY <2>3, SizesAssumption, FS_Injection DEF ExistsInjection
  <2> QED BY <2>1, <2>4, SizesAssumption, FS_CardinalityType
<1>4. \A i \in 1 .. Len(a) : a[i] \in {Hole} \cup (0 .. N - 1)
  <2> SUFFICES ASSUME NEW i \in 1 .. Len(a), a[i] # Hole PROVE a[i] \in 0 .. N - 1
    OBVIOUS
  <2>1. a[i] \in 0 .. Len(d) - 1
    BY DEF Sound
  <2> QED BY <1>1, <1>3, <2>1
<1>5. Len(a) \in 0 .. NumSlots
  BY <1>1, SlotsAssumption DEF Proper
<1>6. a \in [1 .. Len(a) -> {Hole} \cup (0 .. N - 1)]
  BY <1>1, <1>4
<1> HIDE DEF a, d, N
<1> QED BY SMTT(30), <1>1, <1>2, <1>3, <1>5, <1>6 DEF Registry, N

(* A command's copy is a registry, and what it was given has its type. *)
LEMMA SizedTypes == IInv /\ SizedInv => TypeOK
<1> SUFFICES ASSUME IInv, SizedInv PROVE TypeOK
  OBVIOUS
<1>1. /\ Sound(registry) /\ Proper(registry) /\ HostType /\ WebuiOK
      /\ admin \in [Admin -> Command]
  BY DEF IInv, World, SizedInv
<1>2. registry \in Registry
  BY <1>1, RegistryType
<1>3. \A x \in Admin : admin[x] \in Command /\ admin[x].reg \in Registry
  BY <1>1, RegistryType DEF SizedInv, Admitted
<1>4. ASSUME NEW x \in Admin
      PROVE  admin[x] \in [pc : Phase, reg : Registry, slot : Slot,
                            model : Model \cup {NoModel}, kv : {0} \cup KvTarget,
                            slots : SUBSET Slot, models : SUBSET Model,
                            keep : SUBSET (Model \cup LegacyPreset), changed : BOOLEAN]
  BY <1>3 DEF Command
<1>5. ASSUME NEW s \in Slot
      PROVE  /\ env[s] \in [model : Model \cup {NoModel}, grant : Grant]
             /\ unit[s] \in [state : {"down", "active", "activating"},
                             model : Model \cup {NoModel}, grant : Grant]
  <2>1. /\ env[s] \in Setting /\ unit[s] \in Instance
        /\ env[s].grant <= Ceiling /\ unit[s].grant <= Ceiling
    BY <1>1 DEF HostType, SizedInv
  <2>2. env[s].grant \in Grant /\ unit[s].grant \in Grant
    BY <2>1, SlotsAssumption DEF Setting, Instance, Grant
  <2> QED BY <2>1, <2>2 DEF Setting, Instance
<1>6. presets \subseteq Model \cup LegacyPreset
  BY <1>1, KnownModels DEF WebuiOK
<1>7. endpoints \subseteq Slot /\ rebound \in BOOLEAN
  BY <1>1 DEF SizedInv, WebuiOK
<1>8. /\ env \in [Slot -> [model : Model \cup {NoModel}, grant : Grant]]
      /\ unit \in [Slot -> [state : {"down", "active", "activating"},
                            model : Model \cup {NoModel}, grant : Grant]]
  BY <1>1, <1>5 DEF HostType
<1>9. admin \in [Admin -> [pc : Phase, reg : Registry, slot : Slot,
                            model : Model \cup {NoModel}, kv : {0} \cup KvTarget,
                            slots : SUBSET Slot, models : SUBSET Model,
                            keep : SUBSET (Model \cup LegacyPreset), changed : BOOLEAN]]
  BY <1>1, <1>4
<1> QED BY <1>1, <1>2, <1>6, <1>7, <1>8, <1>9 DEF TypeOK, HostType

LEMMA InductiveSizes == ASSUME OneTerminal PROVE Spec => [](IInv /\ SizedInv)
<1>1. Init => IInv /\ SizedInv
  BY InitOK, SizedStart
<1>2. IInv /\ SizedInv /\ [Next]_vars => (IInv /\ SizedInv)'
  BY Invariance, SizedInvariance
<1> QED BY <1>1, <1>2, PTL DEF Spec

(* Every state keeps to its type: the registry never names a model twice   *)
(* or has more places than slots, a grant is never above the ceiling.      *)
THEOREM SlotTypes ==
    ASSUME OneTerminal
    PROVE  Spec => []TypeOK
<1> QED BY InductiveSizes, SizedTypes, PTL

-----------------------------------------------------------------------------
(***************************************************************************)
(* The budget.  A command compares the sum over all slots that would be    *)
(* bound with the ceiling before it changes anything, and computes it from *)
(* the registry.  That this bounds what the instances were granted takes   *)
(* one share for the KV cache throughout: a slot is not granted anew when  *)
(* another one is activated with a different RAGFARM_KV_GIB.               *)
(***************************************************************************)
OneTarget == \A k, l \in KvTarget : k = l

Affordable(reg) == \A kv \in KvTarget : Budget(reg, kv) <= Ceiling

Granted(s) ==
    /\ env[s] # NoEnv => \E kv \in KvTarget : env[s].grant = Util(env[s].model, kv)
    /\ unit[s].state # "active" => unit[s].grant = 0

BudgetInv ==
    /\ \A s \in Slot : Granted(s)
    /\ BoundSlots(registry) \subseteq torn \/ Affordable(registry)
    /\ \A x \in Admin : /\ At(x, "bind") => Affordable(Proposed(x))
                        /\ admin[x].pc \in {"writeenv", "wait"} => Affordable(registry)

LEMMA AffordableLess ==
    ASSUME NEW reg, Sound(reg), Affordable(reg), NEW new, Sound(new),
           \A s \in Slot : Bound(new, s) \in {NoModel, Bound(reg, s)}
    PROVE  Affordable(new)
<1> SUFFICES ASSUME NEW kv \in KvTarget PROVE Budget(new, kv) <= Ceiling
  BY DEF Affordable
<1>1. Budget(reg, kv) <= Ceiling /\ Budget(new, kv) <= Budget(reg, kv)
  BY BudgetLess DEF Affordable
<1>2. Budget(reg, kv) \in Nat /\ Budget(new, kv) \in Nat /\ Ceiling \in Nat
  BY BudgetSum, SlotsAssumption
<1> QED BY <1>1, <1>2

(* Which step brings a command to the phases that the budget speaks of. *)
LEMMA HowFar ==
    ASSUME IInv, NEW x \in Admin, Activate(x) \/ Clear(x) \/ Rebind(x) \/ Fetch(x) \/ Die(x)
    PROVE  /\ admin'[x].pc = "bind" => Admit(x)
           /\ admin'[x].pc = "writeenv" => SaveBinding(x)
           /\ admin'[x].pc = "wait" =>
                registry' = registry /\ admin[x].pc \in {"writeenv", "wait"}
<1> DEFINE c == admin[x]
           d == admin'[x]
<1>1. admin \in [Admin -> Command] /\ c \in Command /\ Idle.pc = "idle"
  BY IdleType DEF IInv, World
<1>2. \A e : Step(x, e) => d = e
  BY <1>1 DEF Step
<1>3. CASE Activate(x)
  <2>1. ASSUME NEW s \in Slot, NEW m \in Model, NEW kv \in KvTarget, LoadActivate(x, s, m, kv)
        PROVE  d.pc = "check"
    BY <1>2, <2>1 DEF LoadActivate, Idle
  <2>2. CASE Admit(x)
    <3>1. d = Idle \/ d = [c EXCEPT !.pc = "bind"]
      BY <1>2, <2>2 DEF Admit
    <3> QED BY <1>1, <2>2, <3>1 DEF Command
  <2>3. CASE SaveBinding(x)
    <3>1. d = [c EXCEPT !.pc = "writeenv", !.reg = Proposed(x)]
      BY <1>2, <2>3 DEF SaveBinding
    <3> HIDE DEF Proposed
    <3>2. d.pc = "writeenv"
      BY <1>1, <3>1 DEF Command
    <3> QED BY <2>3, <3>2
  <2>4. CASE WriteEnv(x)
    <3>1. c.pc = "writeenv" /\ registry' = registry
          /\ \/ d = Idle
             \/ d = [Idle EXCEPT !.pc = "wait", !.slot = c.slot,
                                 !.slots = BoundSlots(c.reg) \ {c.slot}]
      BY <1>2, <2>4 DEF WriteEnv
    <3> QED BY <1>1, <3>1 DEF Idle
  <2>5. ASSUME NEW o \in Slot, OtherReady(x, o) \/ GiveUpWaiting(x, o)
        PROVE  registry' = registry /\ c.pc = "wait" /\ d.pc \in {"wait", "idle"}
    <3>1. c.pc = "wait" /\ registry' = registry /\ (d = Idle \/ d = [c EXCEPT !.slots = @ \ {o}])
      BY <1>2, <2>5 DEF OtherReady, GiveUpWaiting, Awaited, At
    <3> QED BY <1>1, <3>1 DEF Command
  <2>6. CASE RestartUnit(x)
    BY <1>2, <2>6 DEF RestartUnit, Idle
  <2> QED BY <1>3, <2>1, <2>2, <2>3, <2>4, <2>5, <2>6 DEF Activate
<1>4. CASE Clear(x)
  <2>1. ASSUME NEW s \in Slot, LoadClear(x, s) PROVE d.pc = "clear"
    BY <1>2, <2>1 DEF LoadClear, Idle
  <2>2. CASE SaveCleared(x)
    <3>1. d = [Idle EXCEPT !.pc = "unlink", !.slot = c.slot]
      BY <1>2, <2>2 DEF SaveCleared
    <3> QED BY <3>1 DEF Idle
  <2>3. CASE UnlinkEnv(x)
    <3>1. d = Idle \/ d = [c EXCEPT !.pc = "stop"]
      BY <1>2, <2>3 DEF UnlinkEnv
    <3> QED BY <1>1, <3>1 DEF Command
  <2>4. CASE StopUnit(x)
    BY <1>1, <1>2, <2>4 DEF StopUnit, Command
  <2>5. CASE DisableUnit(x)
    BY <1>2, <2>5 DEF DisableUnit, Idle
  <2> QED BY <1>4, <2>1, <2>2, <2>3, <2>4, <2>5 DEF Clear
<1>5. CASE Rebind(x)
  <2>1. CASE RebindFails(x) \/ PrunePresets(x)
    BY <1>1, <1>2, <2>1 DEF RebindFails, PrunePresets
  <2>2. CASE RegisterEndpoints(x)
    BY <1>1, <1>2, <2>2 DEF RegisterEndpoints, Command
  <2>3. CASE ReadSlots(x)
    <3>1. d = [c EXCEPT !.pc = "upsert", !.keep = RegistryPresets]
      BY <1>2, <2>3 DEF ReadSlots
    <3> HIDE DEF RegistryPresets
    <3> QED BY <1>1, <3>1 DEF Command
  <2>4. ASSUME NEW m \in Model \cup LegacyPreset, UpsertPreset(x, m) PROVE d = c /\ c.pc = "upsert"
    BY <2>4 DEF UpsertPreset, At
  <2> QED BY <1>5, <2>1, <2>2, <2>3, <2>4 DEF Rebind
<1>6. CASE Fetch(x)
  <2>1. ASSUME NEW m \in Model, LoadAdd(x, m) PROVE d.pc = "download"
    BY <1>2, <2>1 DEF LoadAdd, Idle
  <2>2. CASE BeginDownload(x) \/ EndDownload(x)
    BY <1>1, <1>2, <2>2 DEF BeginDownload, EndDownload, Command
  <2>3. CASE FailDownload(x) \/ SaveAppended(x) \/ EndSync(x)
    BY <1>1, <1>2, <2>3 DEF FailDownload, SaveAppended, EndSync
  <2>4. CASE LoadSync(x)
    <3>1. d = [Idle EXCEPT !.pc = "sync", !.reg = registry, !.models = Known(registry)]
      BY <1>2, <2>4 DEF LoadSync
    <3> QED BY <3>1 DEF Idle
  <2>5. CASE Refetch(x)
    <3> DEFINE e == [c EXCEPT !.pc = "sync", !.model = NoModel]
    <3>1. d = e \/ d = [e EXCEPT !.changed = TRUE]
      BY <1>2, <2>5 DEF Refetch
    <3>2. e.pc = "sync" /\ e \in Command
      BY <1>1 DEF Command, Phase
    <3> HIDE DEF e
    <3> QED BY <3>1, <3>2 DEF Command
  <2>6. CASE SaveSynced(x)
    <3>1. d = [Idle EXCEPT !.pc = "strays", !.models = Strays(c.reg)]
      BY <1>2, <2>6 DEF SaveSynced
    <3> QED BY <3>1 DEF Idle
  <2>7. ASSUME NEW m \in Model, SyncEntry(x, m) \/ DeleteStray(x, m)
        PROVE  d.pc \in {"sync", "refetch", "strays"}
    BY <1>1, <1>2, <2>7 DEF SyncEntry, DeleteStray, At, Command
  <2> QED BY <1>6, <2>1, <2>2, <2>3, <2>4, <2>5, <2>6, <2>7 DEF Fetch
<1>7. CASE Die(x)
  BY <1>1, <1>2, <1>7 DEF Die
<1> QED BY <1>3, <1>4, <1>5, <1>6, <1>7

LEMMA GrantedStays ==
    ASSUME IInv, SizedInv, BudgetInv, [Next]_vars, NEW s \in Slot
    PROVE  Granted(s)'
<1>1. HostType /\ admin \in [Admin -> Command] /\ Granted(s)
  BY DEF IInv, World, BudgetInv
<1>2. CASE UNCHANGED <<env, unit>>
  BY <1>1, <1>2 DEF Granted
<1>3. ASSUME NEW x \in Admin, WriteEnv(x) PROVE Granted(s)'
  <2>1. /\ admin[x].pc = "writeenv" /\ unit' = unit
        /\ env' = [env EXCEPT ![admin[x].slot] =
                     [model |-> admin[x].model, grant |-> Util(admin[x].model, admin[x].kv)]]
    BY <1>3 DEF WriteEnv
  <2>2. admin[x].kv \in KvTarget
    BY <2>1 DEF SizedInv, Admitted
  <2>3. \/ env'[s] = env[s]
        \/ env'[s] = [model |-> admin[x].model, grant |-> Util(admin[x].model, admin[x].kv)]
    BY <1>1, <2>1 DEF HostType
  <2> QED BY <1>1, <2>1, <2>2, <2>3 DEF Granted
<1>4. ASSUME NEW x \in Admin, UnlinkEnv(x) PROVE Granted(s)'
  <2>1. unit' = unit /\ env' = [env EXCEPT ![admin[x].slot] = NoEnv]
    BY <1>4 DEF UnlinkEnv, NextEnv
  <2>2. env'[s] = env[s] \/ env'[s] = NoEnv
    BY <1>1, <2>1 DEF HostType
  <2> QED BY <1>1, <2>1, <2>2 DEF Granted
<1>5. CASE /\ env' = env
           /\ \/ unit'[s] = unit[s] \/ unit'[s] \in {Started(s), Down}
              \/ unit'[s] = [Down EXCEPT !.state = "activating"]
  BY <1>1, <1>5 DEF Granted, Started, Down
<1> QED BY <1>1, <1>2, <1>3, <1>4, <1>5, HostWriters

(* A slot that is given to a command's end was bound within the budget. *)
LEMMA AffordableStays ==
    ASSUME IInv, BudgetInv, [Next]_vars
    PROVE  (BoundSlots(registry) \subseteq torn \/ Affordable(registry))'
<1>1. /\ Sound(registry) /\ \A x \in Admin : Work(x) /\ admin[x].slot \in Slot
      /\ BoundSlots(registry) \subseteq torn \/ Affordable(registry)
  BY DEF IInv, World, BudgetInv, Command
<1>2. CASE registry' = registry
  <2>1. CASE torn \subseteq torn'
    BY <1>1, <1>2, <2>1 DEF BoundSlots, Affordable, Budget
  <2>2. CASE \E x \in Admin : RestartUnit(x)
    <3>1. Affordable(registry)
      BY <2>2 DEF BudgetInv, RestartUnit, At
    <3> QED BY <1>2, <3>1 DEF Affordable, Budget, BoundSlots
  <2>3. ASSUME NEW x \in Admin, DisableUnit(x)
        PROVE  (BoundSlots(registry) \subseteq torn \/ Affordable(registry))'
    <3>1. Bound(registry, admin[x].slot) = NoModel /\ torn' = torn \ {admin[x].slot}
      BY <1>1, <2>3 DEF DisableUnit, At, Work
    <3>2. admin[x].slot \notin BoundSlots(registry)
      BY <3>1 DEF BoundSlots
    <3>3. BoundSlots(registry)' = BoundSlots(registry) /\ (Affordable(registry) => Affordable(registry)')
      BY <1>2 DEF BoundSlots, Affordable, Budget
    <3> QED BY <1>1, <3>1, <3>2, <3>3
  <2>4. torn \subseteq torn' \/ \E x \in Admin : RestartUnit(x) \/ DisableUnit(x)
    BY ZenonT(40) DEF Next, vars, Activate, Clear, Rebind, Fetch, Die, Systemd,
       LoadActivate, Admit, SaveBinding, WriteEnv, OtherReady, GiveUpWaiting,
       LoadClear, SaveCleared, UnlinkEnv, StopUnit, RebindFails, RegisterEndpoints,
       ReadSlots, UpsertPreset, PrunePresets, LoadAdd, BeginDownload, EndDownload,
       FailDownload, SaveAppended, LoadSync, SyncEntry, Refetch, SaveSynced, DeleteStray,
       EndSync, UnitDies, UnitReturns, StartUnit, EnableUnit, Reboot
  <2> QED BY <2>1, <2>2, <2>3, <2>4
<1>3. CASE registry' # registry
  <2>1. PICK x \in Admin : \/ SaveBinding(x) \/ SaveCleared(x)
                           \/ SaveAppended(x) \/ SaveSynced(x)
    BY <1>3, RegistryWriters
  <2>2. ASSUME Sound(registry'), torn \subseteq torn',
               \A s \in Slot : Bound(registry', s) \in {NoModel, Bound(registry, s)}
        PROVE  (BoundSlots(registry) \subseteq torn \/ Affordable(registry))'
    <3>1. BoundSlots(registry') \subseteq BoundSlots(registry)
      BY <2>2 DEF BoundSlots
    <3>2. Affordable(registry) => Affordable(registry')
      BY <1>1, <2>2, AffordableLess
    <3> QED BY <1>1, <2>2, <3>1, <3>2
  <2>3. CASE SaveBinding(x)
    <3>1. Affordable(Proposed(x)) /\ registry' = Proposed(x)
      BY <2>3 DEF SaveBinding, BudgetInv
    <3> QED BY <3>1
  <2>4. CASE SaveCleared(x)
    <3>1. /\ admin[x].pc = "clear" /\ registry' = Freed(admin[x].reg, admin[x].slot)
          /\ torn \subseteq torn'
      BY <2>4 DEF SaveCleared, Freed
    <3>2. admin[x].reg = registry
      BY <1>1, <3>1 DEF Work, Copies
    <3>3. /\ Sound(registry') /\ Bound(registry', admin[x].slot) = NoModel
          /\ \A t \in Slot \ {admin[x].slot} : Bound(registry', t) = Bound(registry, t)
      BY <1>1, <3>1, <3>2, FreedOK
    <3> QED BY <2>2, <3>1, <3>3
  <2>5. CASE SaveAppended(x)
    <3>1. /\ admin[x].pc = "append" /\ registry' = Grown(admin[x].reg, admin[x].model)
          /\ torn' = torn
      BY <2>5 DEF SaveAppended, At, Grown
    <3>2. admin[x].reg = registry /\ admin[x].model \in Model
      BY <1>1, <3>1 DEF Work, Copies
    <3>3. Sound(registry') /\ \A t \in Slot : Bound(registry', t) = Bound(registry, t)
      BY <1>1, <3>1, <3>2, GrownOK
    <3> QED BY <2>2, <3>1, <3>3
  <2>6. CASE SaveSynced(x)
    BY <1>3, <2>6, SaveSyncedOK
  <2> QED BY <2>1, <2>3, <2>4, <2>5, <2>6
<1> QED BY <1>2, <1>3

LEMMA BudgetInvariance ==
    ASSUME OneTerminal, OneTarget
    PROVE  IInv /\ SizedInv /\ BudgetInv /\ [Next]_vars => BudgetInv'
<1> SUFFICES ASSUME IInv, SizedInv, BudgetInv, [Next]_vars PROVE BudgetInv'
  OBVIOUS
<1>1. ASSUME NEW s \in Slot PROVE Granted(s)'
  BY GrantedStays
<1>2. ASSUME NEW x \in Admin
      PROVE  /\ At(x, "bind")' => Affordable(Proposed(x))'
             /\ admin'[x].pc \in {"writeenv", "wait"} => Affordable(registry)'
  <2>1. CASE Activate(x) \/ Clear(x) \/ Rebind(x) \/ Fetch(x) \/ Die(x)
    <3>1. /\ admin'[x].pc = "bind" => Admit(x)
          /\ admin'[x].pc = "writeenv" => SaveBinding(x)
          /\ admin'[x].pc = "wait" =>
               registry' = registry /\ admin[x].pc \in {"writeenv", "wait"}
      BY <2>1, HowFar
    <3>2. CASE admin'[x].pc = "bind"
      <4>1. Admit(x) /\ admin[x].pc = "check" /\ admin[x] \in Command /\ admin \in [Admin -> Command]
        BY <3>1, <3>2 DEF Admit, At, IInv, World
      <4>2. admin'[x] = [admin[x] EXCEPT !.pc = "bind"] /\ Admissible(x)
        BY <3>2, <4>1, IdleType DEF Admit, Step
      <4>3. admin[x].kv \in KvTarget
        BY <4>1 DEF SizedInv, Admitted
      <4>4. Affordable(Proposed(x))
        BY <4>2, <4>3 DEF Affordable, Admissible, OneTarget
      <4>5. /\ admin'[x].reg = admin[x].reg /\ admin'[x].slot = admin[x].slot
            /\ admin'[x].model = admin[x].model
        BY <4>1, <4>2 DEF Command
      <4>6. Proposed(x)' = Proposed(x)
        BY <4>5 DEF Proposed
      <4> QED BY <3>2, <4>4, <4>6 DEF Affordable
    <3>3. CASE admin'[x].pc = "writeenv"
      <4>1. At(x, "bind") /\ registry' = Proposed(x)
        BY <3>1, <3>3 DEF SaveBinding
      <4>2. Affordable(registry')
        BY <4>1 DEF BudgetInv
      <4> QED BY <3>3, <4>2 DEF At
    <3>4. CASE admin'[x].pc = "wait"
      <4>1. registry' = registry /\ Affordable(registry)
        BY <3>1, <3>4 DEF BudgetInv
      <4>2. Affordable(registry')
        BY <4>1
      <4> QED BY <3>4, <4>2 DEF At
    <3> QED BY <3>2, <3>3, <3>4 DEF At
  <2>2. CASE UNCHANGED <<admin, registry>>
    <3>1. Proposed(x)' = Proposed(x)
      BY <2>2 DEF Proposed
    <3>2. /\ At(x, "bind") => Affordable(Proposed(x))
          /\ admin[x].pc \in {"writeenv", "wait"} => Affordable(registry)
      BY DEF BudgetInv
    <3>3. Affordable(Proposed(x)) => Affordable(Proposed(x))'
      BY <3>1 DEF Affordable
    <3> QED BY <2>2, <3>2, <3>3 DEF At, Affordable
  <2>3. \A y \in Admin : y = x
    BY DEF OneTerminal
  <2> QED BY <2>1, <2>2, <2>3 DEF Next, vars, Systemd, UnitDies, UnitReturns, StartUnit, EnableUnit, Reboot
<1> QED BY <1>1, <1>2, AffordableStays DEF BudgetInv

LEMMA BudgetStart == Init => BudgetInv
<1> SUFFICES ASSUME Init PROVE BudgetInv
  OBVIOUS
<1>1. /\ env = [s \in Slot |-> NoEnv] /\ unit = [s \in Slot |-> Down]
      /\ admin = [x \in Admin |-> Idle] /\ torn = BoundSlots(registry)
  BY DEF Init
<1>2. \A s \in Slot : Granted(s)
  BY <1>1 DEF Granted, Down
<1>3. \A x \in Admin : admin[x].pc = "idle"
  BY <1>1, IdleType
<1> QED BY <1>1, <1>2, <1>3 DEF BudgetInv, At

LEMMA NothingGranted ==
    ASSUME NEW f, \A s \in Slot : f[s] = 0
    PROVE  SumFunctionOnSet(f, Slot) = 0
<1>1. {} \in SUBSET Slot /\ \A s \in Slot : f[s] \in Nat
  OBVIOUS
<1>2. SumFunctionOnSet(f, Slot) = SumFunctionOnSet(f, {})
  BY <1>1, SlotsFinite, SumPart
<1>3. SumFunctionOnSet(f, {}) = 0
  BY <1>1, SlotsFinite, SumUnfolds
<1> QED BY <1>2, <1>3

(* Granted is at most what the budget counted for the slot. *)
LEMMA BudgetKept ==
    ASSUME OneTarget
    PROVE  IInv /\ BudgetInv => WithinBudget
<1> SUFFICES ASSUME IInv, BudgetInv, torn = {}
             PROVE  SumFunctionOnSet([s \in Slot |-> unit[s].grant], Slot) <= Ceiling
  BY DEF WithinBudget
<1> DEFINE f == [s \in Slot |-> unit[s].grant]
<1>1. /\ Sound(registry) /\ Ceiling \in Nat
      /\ \A s \in Slot : SlotAgrees(s) /\ Granted(s) /\ unit[s].grant \in Nat
  BY SlotsAssumption DEF IInv, World, HostType, Instance, SlotsAgree, BudgetInv
<1>2. ASSUME NEW s \in Slot, f[s] # 0
      PROVE  /\ Bound(registry, s) # NoModel
             /\ \E kv \in KvTarget : f[s] = Util(Bound(registry, s), kv)
  <2>1. unit[s].state = "active" /\ unit[s] # Down /\ SlotAgrees(s) /\ Granted(s)
    BY <1>1, <1>2 DEF Granted, Down
  <2>2. Bound(registry, s) # NoModel /\ env[s].model = Bound(registry, s) /\ unit[s] = Started(s)
    BY <2>1 DEF SlotAgrees
  <2>3. env[s] # NoEnv /\ unit[s].grant = env[s].grant
    BY <2>1, <2>2 DEF Started
  <2> QED BY <2>1, <2>2, <2>3 DEF Granted
<1>3. \A s \in Slot : f[s] \in Nat
  BY <1>1
<1> HIDE DEF f
<1>4. CASE \A s \in Slot : f[s] = 0
  BY <1>1, <1>4, NothingGranted DEF f
<1>5. CASE \E s \in Slot : f[s] # 0
  <2>1. PICK t \in Slot : f[t] # 0
    BY <1>5
  <2>2. PICK kv \in KvTarget : f[t] = Util(Bound(registry, t), kv)
    BY <1>2, <2>1
  <2>3. \A s \in Slot : Cost(registry, kv)[s] \in Nat
    BY <1>1, CostType
  <2>4. ASSUME NEW s \in Slot PROVE f[s] <= Cost(registry, kv)[s]
    <3>1. CASE f[s] = 0
      BY <2>3, <3>1
    <3>2. CASE f[s] # 0
      <4>1. Bound(registry, s) # NoModel /\ f[s] = Util(Bound(registry, s), kv)
        BY <1>2, <3>2 DEF OneTarget
      <4>2. f[s] = Cost(registry, kv)[s]
        BY <4>1 DEF Cost
      <4> QED BY <1>3, <4>2
    <3> QED BY <3>1, <3>2
  <2>5. SumFunctionOnSet(f, Slot) <= Budget(registry, kv)
    <3>1. SumFunctionOnSet(f, Slot) <= SumFunctionOnSet(Cost(registry, kv), Slot)
      BY <1>3, <2>3, <2>4, SlotsFinite, SumMonotone
    <3> QED BY <1>1, <3>1, BudgetSum
  <2>6. Budget(registry, kv) <= Ceiling
    <3>1. t \in BoundSlots(registry)
      BY <1>2, <2>1 DEF BoundSlots
    <3> QED BY <3>1 DEF BudgetInv, Affordable
  <2>7. SumFunctionOnSet(f, Slot) \in Nat /\ Budget(registry, kv) \in Nat
    BY <1>1, <1>3, SlotsFinite, SumUnfolds, BudgetSum
  <2> QED BY <1>1, <2>5, <2>6, <2>7 DEF f
<1> QED BY <1>4, <1>5

(* The memory that the running instances were granted together stays       *)
(* within the ceiling, with no slot left half-changed and one share for    *)
(* the KV cache throughout.                                                *)
THEOREM BudgetHolds ==
    ASSUME OneTerminal, OneTarget
    PROVE  Spec => []WithinBudget
<1>1. Init => BudgetInv
  BY BudgetStart
<1>2. IInv /\ SizedInv /\ BudgetInv /\ [Next]_vars => BudgetInv'
  BY BudgetInvariance
<1>3. IInv /\ BudgetInv => WithinBudget
  BY BudgetKept
<1> QED BY <1>1, <1>2, <1>3, InductiveSizes, PTL DEF Spec
=============================================================================
