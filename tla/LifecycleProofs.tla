-------------------------- MODULE LifecycleProofs ---------------------------
(***************************************************************************)
(* Proofs about Lifecycle for every size of firmware and RAM that           *)
(* LifecycleAssumption allows.                                              *)
(***************************************************************************)
EXTENDS Lifecycle, TLAPS

-----------------------------------------------------------------------------
(* The window register.                                                    *)

LEMMA WindowTypes ==
    Zero \in Windows /\ ChipCommon \in Windows /\ Wrappers \in Windows
BY SMT DEF Zero, ChipCommon, Wrappers, At, Windows, Bytes, Byte

\* RAM windows differ from those of the registers in the high byte.
LEMMA RamWindowType ==
    ASSUME NEW i \in 0 .. 1023
    PROVE  RamWindow(i) \in Windows /\ RamWindow(i)["high"] = 0
<1>1. i \div 4 \in 0 .. 255
  BY SMT
<1>2. (i \div 2) % 2 \in 0 .. 1
  BY SMT
<1>3. 128 * ((i \div 2) % 2) \in 0 .. 255
  BY <1>2, SMT
<1> QED
  BY <1>1, <1>3 DEF RamWindow, At, Windows, Bytes, Byte

\* A lossless setting from a copy that is right reaches the new window.
LEMMA SetInSync ==
    ASSUME NEW cur \in Windows, NEW new \in Windows
    PROVE  SetWindow(cur, cur, new, {}) = new
BY DEF SetWindow, Changed, Windows

\* From the copy that a failed bring-up leaves, with the chip's register reset,
\* an access of the registers changes nothing in the end.
LEMMA StaleAccess ==
    ASSUME NEW t \in {Wrappers, ChipCommon}
    PROVE  SetWindow(SetWindow(Zero, ChipCommon, t, {}), t, ChipCommon, {}) = Zero
BY SMT DEF SetWindow, Changed, Zero, ChipCommon, Wrappers, At, Bytes

\* But the first access of RAM reaches its window.
LEMMA StaleBlock ==
    ASSUME NEW new \in Windows, new["high"] = 0
    PROVE  SetWindow(Zero, ChipCommon, new, {}) = new
<1>1. \A b \in Bytes :
        (IF b \in Changed(ChipCommon, new) \ {} THEN new[b] ELSE Zero[b]) = new[b]
  BY SMT DEF Changed, Zero, ChipCommon, At, Bytes
<1> QED
  BY <1>1 DEF SetWindow, Windows

LEMMA SetType ==
    ASSUME NEW reg \in Windows, NEW cur \in Windows, NEW new \in Windows, NEW lost
    PROVE  SetWindow(reg, cur, new, lost) \in Windows
BY DEF SetWindow, Windows

LEMMA CountType ==
    ASSUME NEW s \in Stages \ Waits
    PROVE  Count[s] \in Nat \ {0}
<1>1. FwBlocks \in Nat \ {0}
  BY LifecycleAssumption, SMT DEF LifecycleAssumption
<1>2. Count[s] = CASE s \in {"disable arm", "disable socram", "arm is up", "remap", "interrupts"} -> 2
                   [] s \in {"reset socram", "reset arm"} -> 7
                   [] s = "firmware" -> FwBlocks
                   [] OTHER -> 1
  BY DEF Count
<1>3. CASE s \in {"disable arm", "disable socram", "arm is up", "remap", "interrupts"}
  <2>1. Count[s] = 2
    BY <1>2, <1>3, Zenon
  <2> QED BY <2>1
<1>4. CASE s \in {"reset socram", "reset arm"}
  <2>1. Count[s] = 7
    BY <1>2, <1>4
  <2> QED BY <2>1
<1>5. CASE s = "firmware"
  BY <1>1, <1>2, <1>5
<1>6. CASE s \notin {"disable arm", "disable socram", "arm is up", "remap", "interrupts",
                    "reset socram", "reset arm", "firmware"}
  <2>1. Count[s] = 1
    BY <1>2, <1>6
  <2> QED BY <2>1
<1> QED BY <1>3, <1>4, <1>5, <1>6

LEMMA TargetType ==
    ASSUME NEW s \in Accesses \cup Downloads, NEW i \in Nat, i < Count[s]
    PROVE  /\ Target(s, i) \in Windows
           /\ s \in BeforeFirmware => Target(s, i) \in {Wrappers, ChipCommon}
           /\ s \in Downloads => Target(s, i)["high"] = 0
<1>1. CASE s = "firmware"
  <2>1. Count[s] = FwBlocks
    BY <1>1 DEF Count, Stages, Waits, Downloads, Accesses
  <2>2. i \in 0 .. 1023
    BY <2>1, LifecycleAssumption DEF LifecycleAssumption
  <2> QED
    BY <1>1, <2>2, RamWindowType DEF Target, BeforeFirmware
<1>2. CASE s \in {"nvram", "nvram size"}
  <2>1. RamBlocks - 1 \in 0 .. 1023
    BY LifecycleAssumption DEF LifecycleAssumption
  <2> QED
    BY <1>2, <2>1, RamWindowType DEF Target, BeforeFirmware
<1>3. CASE s \notin {"firmware", "nvram", "nvram size"}
  BY <1>3, WindowTypes
    DEF Target, Accesses, Downloads, BeforeFirmware, AfterNvram
<1> QED BY <1>1, <1>2, <1>3

-----------------------------------------------------------------------------
(* Types.                                                                  *)

LEMMA AdvanceType ==
    ASSUME pc \in Stages \ Waits, n \in Nat, n < Count[pc], Advance
    PROVE  /\ pc' \in Stages \cup {"config"}
           /\ n' \in Nat /\ IF pc' \in Stages \ Waits THEN n' < Count[pc'] ELSE n' = 0
           /\ pc' = pc \/ pc' = NextStage[pc]
<1>1. CASE n + 1 < Count[pc]
  BY <1>1 DEF Advance
<1>2. CASE ~(n + 1 < Count[pc])
  <2>1. n' = 0 /\ pc' = NextStage[pc]
    BY <1>2 DEF Advance
  <2>2. NextStage[pc] \in Stages \cup {"config"}
    BY DEF NextStage, Stages, Waits, Downloads, Accesses, BeforeFirmware, AfterNvram
  <2>3. \A s \in Stages \ Waits : 0 < Count[s]
    BY CountType
  <2> QED
    BY <2>1, <2>2, <2>3
<1> QED BY <1>1, <1>2

LEMMA SkipType ==
    ASSUME NEW s \in Stages
    PROVE  /\ NextStage[s] \in Stages \cup {"config"}
           /\ NextStage[s] \in Stages \ Waits => 0 < Count[NextStage[s]]
<1>1. NextStage[s] \in Stages \cup {"config"}
  BY DEF NextStage, Stages, Waits, Downloads, Accesses, BeforeFirmware, AfterNvram
<1>2. \A t \in Stages \ Waits : 0 < Count[t]
  BY CountType
<1> QED BY <1>1, <1>2

\* Setting the window once, with what is remembered of it.
LEMMA ReachType ==
    ASSUME TypeOK, pc \in Accesses \cup Downloads,
           NEW lost, Lose(lost), NEW reg, NEW target, Reach(reg, target)
    PROVE  /\ faults' \in 0 .. MaxFaults
           /\ strays' \subseteq Accesses \cup Downloads
           /\ faults' = 0 => lost = {} /\ faults = 0
<1>1. faults' \in 0 .. MaxFaults /\ (faults' = 0 => lost = {} /\ faults = 0)
  BY LifecycleAssumption, SMT DEF TypeOK, Lose, LifecycleAssumption
<1>2. strays' \subseteq Accesses \cup Downloads
  BY DEF TypeOK, Reach
<1> QED BY <1>1, <1>2

\* The effect of an access and of a block, without the actions' quantifiers.
LEMMA AccessEffect ==
    ASSUME TypeOK, Access
    PROVE  /\ pc \in Accesses /\ n \in Nat /\ n < Count[pc]
           /\ Target(pc, n) \in Windows
           /\ window' = ChipCommon /\ chipWindow' \in Windows
           /\ faults' \in 0 .. MaxFaults
           /\ strays' \subseteq Accesses \cup Downloads
           /\ strays \subseteq strays' /\ strays' \subseteq strays \cup {pc}
           /\ faults' = 0 =>
                 LET reg == SetWindow(chipWindow, window, Target(pc, n), {}) IN
                 /\ faults = 0
                 /\ Reach(reg, Target(pc, n))
                 /\ chipWindow' = SetWindow(reg, Target(pc, n), ChipCommon, {})
<1>1. pc \in Accesses /\ pc \in Stages \ Waits /\ n \in Nat /\ n < Count[pc]
  BY DEF TypeOK, Access, Stages, Accesses, Waits, BeforeFirmware, AfterNvram
<1>2. Target(pc, n) \in Windows
  BY <1>1, TargetType
<1> DEFINE target == Target(pc, n)
<1>3. PICK lost \in SUBSET Changed(window, target),
           back \in SUBSET Changed(target, ChipCommon) :
        LET reg == SetWindow(chipWindow, window, target, lost) IN
        /\ Lose(lost \cup back)
        /\ Reach(reg, target)
        /\ chipWindow' = SetWindow(reg, target, ChipCommon, back)
  BY DEF Access
<1> DEFINE reg == SetWindow(chipWindow, window, target, lost)
<1>4. reg \in Windows /\ chipWindow' \in Windows
  BY <1>2, <1>3, SetType, WindowTypes DEF TypeOK
<1>5. /\ faults' \in 0 .. MaxFaults /\ strays' \subseteq Accesses \cup Downloads
      /\ faults' = 0 => lost \cup back = {} /\ faults = 0
  BY <1>1, <1>3, ReachType
<1>6. strays \subseteq strays' /\ strays' \subseteq strays \cup {pc}
  BY <1>3 DEF Reach
<1>7. window' = ChipCommon
  BY DEF Access
<1>8. faults' = 0 => lost = {} /\ back = {}
  BY <1>5
<1> QED
  BY <1>1, <1>2, <1>3, <1>4, <1>5, <1>6, <1>7, <1>8

LEMMA BlockEffect ==
    ASSUME TypeOK, NEW ok \in BOOLEAN, Block(ok)
    PROVE  /\ pc \in Downloads /\ n \in Nat /\ n < Count[pc]
           /\ Target(pc, n) \in Windows
           /\ window' = Target(pc, n) /\ chipWindow' \in Windows
           /\ faults' \in 0 .. MaxFaults
           /\ strays' \subseteq Accesses \cup Downloads
           /\ strays \subseteq strays' /\ strays' \subseteq strays \cup {pc}
           /\ faults' = 0 =>
                 /\ faults = 0
                 /\ chipWindow' = SetWindow(chipWindow, window, Target(pc, n), {})
                 /\ Reach(chipWindow', Target(pc, n))
<1>1. pc \in Downloads /\ pc \in Stages \ Waits /\ n \in Nat /\ n < Count[pc]
  BY DEF TypeOK, Block, Stages, Downloads, Waits
<1>2. Target(pc, n) \in Windows
  BY <1>1, TargetType
<1> DEFINE target == Target(pc, n)
<1>3. PICK lost \in SUBSET Changed(window, target) :
        LET reg == SetWindow(chipWindow, window, target, lost) IN
        /\ Lose(lost)
        /\ Reach(reg, target)
        /\ chipWindow' = reg
  BY DEF Block
<1>4. chipWindow' \in Windows
  BY <1>2, <1>3, SetType DEF TypeOK
<1>5. /\ faults' \in 0 .. MaxFaults /\ strays' \subseteq Accesses \cup Downloads
      /\ faults' = 0 => lost = {} /\ faults = 0
  BY <1>1, <1>3, ReachType
<1>6. strays \subseteq strays' /\ strays' \subseteq strays \cup {pc}
  BY <1>3 DEF Reach
<1>7. window' = target
  BY DEF Block
<1> QED
  BY <1>1, <1>2, <1>3, <1>4, <1>5, <1>6, <1>7

LEMMA InitTypes == Init => TypeOK
<1>1. 0 \in 0 .. MaxFaults
  BY LifecycleAssumption DEF LifecycleAssumption
<1>2. "idle" \notin Stages
  BY DEF Stages, Waits, Downloads, Accesses, BeforeFirmware, AfterNvram
<1> SUFFICES ASSUME Init PROVE TypeOK
  OBVIOUS
<1>3. window \in Windows /\ chipWindow \in Windows
  BY WindowTypes DEF Init
<1>4. /\ pc \in Stages \cup {"idle", "config"}
      /\ n \in Nat /\ IF pc \in Stages \ Waits THEN n < Count[pc] ELSE n = 0
  BY <1>2 DEF Init
<1>5. faults \in 0 .. MaxFaults
  BY <1>1 DEF Init
<1> QED
  BY <1>3, <1>4, <1>5 DEF Init, TypeOK

LEMMA ResetTypes ==
    ASSUME TypeOK, ChipReset
    PROVE  /\ chipWindow' \in Windows
           /\ strays' \subseteq Accesses \cup Downloads /\ broken' \subseteq Downloads
           /\ faults' \in 0 .. MaxFaults /\ guessed' \in BOOLEAN
<1>1. guessed' \in BOOLEAN
  BY Zenon DEF ChipReset
<1> QED
  BY <1>1, WindowTypes, LifecycleAssumption DEF ChipReset, LifecycleAssumption

LEMMA PowerUpTypes ==
    ASSUME TypeOK, PowerUp, call' \in {"init", "deinit", "use"} \cup Itfs
    PROVE  TypeOK'
BY ResetTypes DEF TypeOK, PowerUp, Stages, Waits

LEMMA InitialisedTypes ==
    ASSUME TypeOK, Initialised, call' \in {"init", "deinit", "use"} \cup Itfs,
           netifs' \subseteq Itfs
    PROVE  TypeOK'
BY ResetTypes, WindowTypes DEF TypeOK, Initialised

LEMMA NextTypes ==
    ASSUME TypeOK, [Next]_vars
    PROVE  TypeOK'
<1>1. CASE CywInit
  BY <1>1, InitialisedTypes DEF CywInit, TypeOK
<1>2. CASE CywDeinit
  <2>1. CASE poll
    BY <1>2, <2>1, InitialisedTypes DEF CywDeinit, TypeOK
  <2>2. CASE ~poll
    BY <1>2, <2>2 DEF CywDeinit, TypeOK, bus, driver
  <2> QED BY <2>1, <2>2
<1>3. CASE Use
  <2>1. CASE poll
    BY <1>3, <2>1 DEF Use, TypeOK, bus, driver
  <2>2. CASE ~poll
    BY <1>3, <2>2, PowerUpTypes DEF Use
  <2> QED BY <2>1, <2>2
<1>4. ASSUME NEW itf \in Itfs, SetUp(itf)
      PROVE  TypeOK'
  <2>1. CASE itfState = {} /\ ~poll
    BY <1>4, <2>1, PowerUpTypes DEF SetUp
  <2>2. CASE ~(itfState = {} /\ ~poll)
    BY <1>4, <2>2 DEF SetUp, OpenItf, TypeOK, bus
  <2> QED BY <2>1, <2>2
<1>5. CASE ChipAnswers
  <2>1. pc \in Stages /\ n \in Nat
    BY <1>5 DEF ChipAnswers, TypeOK, Stages
  <2>2. pc' \in Stages \cup {"config"}
    BY <1>5, <2>1, SkipType DEF ChipAnswers
  <2>3. n' = 0
    BY <1>5 DEF ChipAnswers, TypeOK
  <2>4. pc' \in Stages \ Waits => n' < Count[pc']
    BY <2>3, CountType
  <2> QED
    BY <1>5, <2>2, <2>3, <2>4 DEF ChipAnswers, TypeOK, bus, driver
<1>6. CASE GiveUp
  BY <1>6 DEF GiveUp, TypeOK, bus, driver, Stages, Waits, Downloads, Accesses,
     BeforeFirmware, AfterNvram
<1>7. CASE Access
  <2>1. pc \in Stages \ Waits
    BY <1>7 DEF Access, Stages, Accesses, Waits, BeforeFirmware, AfterNvram
  <2>2. /\ pc' \in Stages \cup {"config"}
        /\ n' \in Nat /\ IF pc' \in Stages \ Waits THEN n' < Count[pc'] ELSE n' = 0
    BY <1>7, <2>1, AdvanceType DEF Access, TypeOK
  <2> QED
    BY <1>7, <2>2, AccessEffect, WindowTypes DEF Access, TypeOK, driver
<1>8. ASSUME NEW ok \in BOOLEAN, Block(ok)
      PROVE  TypeOK'
  <2>1. pc \in Stages \ Waits /\ pc \in Downloads
    BY <1>8 DEF Block, Stages, Downloads, Waits
  <2>2. /\ pc' \in Stages \cup {"config"}
        /\ n' \in Nat /\ IF pc' \in Stages \ Waits THEN n' < Count[pc'] ELSE n' = 0
    <3>1. CASE ok
      BY <1>8, <2>1, <3>1, AdvanceType DEF Block, TypeOK
    <3>2. CASE ~ok
      BY <1>8, <2>1, <3>2, SkipType DEF Block
    <3> QED BY <3>1, <3>2
  <2>3. broken' \subseteq Downloads
    BY <1>8, <2>1 DEF Block, TypeOK
  <2> QED
    BY <1>8, <2>2, <2>3, BlockEffect DEF Block, TypeOK, driver
<1>9. CASE Finish
  BY <1>9 DEF Finish, OpenItf, TypeOK, bus, Stages, Waits, Downloads, Accesses,
     BeforeFirmware, AfterNvram
<1>10. CASE UNCHANGED vars
  BY <1>10 DEF vars, bus, driver, TypeOK
<1>11. CASE ReadFails
  <2>1. pc \in Stages /\ n \in Nat
    BY <1>11 DEF ReadFails, TypeOK, Stages
  <2>2. pc' \in Stages \cup {"config"}
    BY <1>11, <2>1, SkipType DEF ReadFails
  <2>3. n' = 0
    BY <1>11 DEF ReadFails, TypeOK
  <2>4. pc' \in Stages \ Waits => n' < Count[pc']
    BY <2>3, CountType
  <2> QED
    BY <1>11, <2>2, <2>3, <2>4 DEF ReadFails, TypeOK, driver
<1>12. CASE NoVersion
  <2>1. pc \in Stages /\ pc \in Downloads
    BY <1>12 DEF NoVersion, Stages, Downloads
  <2>2. pc' \in Stages \cup {"config"}
    BY <1>12, <2>1, SkipType DEF NoVersion
  <2>3. n' = 0
    BY <1>12 DEF NoVersion, TypeOK
  <2>4. pc' \in Stages \ Waits => n' < Count[pc']
    BY <2>3, CountType
  <2> QED
    BY <1>12, <2>1, <2>2, <2>3, <2>4 DEF NoVersion, TypeOK, bus, driver
<1> QED
  BY <1>1, <1>2, <1>3, <1>4, <1>5, <1>6, <1>7, <1>8, <1>9, <1>10, <1>11, <1>12 DEF Next

\* The types of the driver's and the chip's state: the calls and stages of
\* cyw43_init, cyw43_deinit, cyw43_ensure_up and cyw43_ll_bus_init keep them,
\* and no stage makes more accesses than it has.
THEOREM LifecycleTypes == Spec => []TypeOK
<1>1. Init => TypeOK
  BY InitTypes
<1>2. TypeOK /\ [Next]_vars => TypeOK'
  BY NextTypes
<1> QED
  BY <1>1, <1>2, PTL DEF Spec

-----------------------------------------------------------------------------
(* Where the accesses go.  The driver's copy of the window is right, but   *)
(* for the start of a second bring-up, when it still is what the restore   *)
(* after every access has left and the chip's register is zero.            *)

Stale ==
    /\ window = ChipCommon /\ chipWindow = Zero /\ ~fresh
    /\ \/ pc \in {"idle", "bus"} \cup BeforeFirmware
       \/ pc \in {"firmware", "nvram"} /\ n = 0

WindowInv ==
    /\ pc # "idle" => power
    /\ fresh /\ ~power => window = Zero
    /\ pc \notin {"firmware", "nvram", "nvram size"} => window \in {Zero, ChipCommon}
    /\ faults = 0 => /\ window = chipWindow \/ Stale
                     /\ strays \subseteq BeforeFirmware
                     /\ fresh => strays = {}

LEMMA AdvanceStages ==
    ASSUME pc \in Stages \ Waits, pc' = pc \/ pc' = NextStage[pc]
    PROVE  /\ pc \in BeforeFirmware => pc' \in BeforeFirmware \cup {"firmware"}
           /\ pc \in Downloads => pc' \in {"firmware", "nvram", "nvram size"}
           /\ pc' # "idle"
           /\ pc \in BeforeFirmware \cup Downloads \cup {"nvram size", "reset arm", "arm is up"}
                => pc' \notin {"interrupts", "ready", "save restore", "config"}
BY DEF NextStage, Stages, Waits, Downloads, Accesses, BeforeFirmware, AfterNvram

LEMMA WindowsDiffer == ChipCommon # Zero
BY DEF ChipCommon, Zero, At, Bytes

LEMMA AccessWindow ==
    ASSUME TypeOK, WindowInv, Access
    PROVE  WindowInv'
<1> DEFINE t == Target(pc, n)
           reg == SetWindow(chipWindow, window, t, {})
<1>1. /\ pc \in Accesses /\ t \in Windows /\ n \in Nat /\ n < Count[pc]
      /\ window' = ChipCommon
      /\ strays \subseteq strays' /\ strays' \subseteq strays \cup {pc}
      /\ faults' = 0 => /\ faults = 0
                        /\ Reach(reg, t)
                        /\ chipWindow' = SetWindow(reg, t, ChipCommon, {})
  BY AccessEffect
<1>2. pc \in Stages \ Waits /\ pc # "idle"
  BY <1>1 DEF Stages, Accesses, Waits, BeforeFirmware, AfterNvram
<1>3. pc' = pc \/ (pc' = NextStage[pc] /\ n' = 0)
  BY DEF Access, Advance
<1>4. pc' # "idle" /\ power'
  BY <1>2, <1>3, AdvanceStages DEF WindowInv, Access
<1>5. fresh' = fresh
  BY DEF Access
<1>6. ASSUME faults' = 0
      PROVE  /\ window' = chipWindow' \/ Stale'
             /\ strays' \subseteq BeforeFirmware
             /\ fresh' => strays' = {}
  <2>1. CASE window = chipWindow
    <3>1. reg = t
      BY <2>1, <1>1, SetInSync DEF TypeOK
    <3>2. chipWindow' = ChipCommon
      BY <3>1, <1>1, <1>6, SetInSync, WindowTypes
    <3>3. strays' = strays
      BY <3>1, <1>1, <1>6 DEF Reach
    <3> QED
      BY <1>1, <1>5, <1>6, <3>2, <3>3 DEF WindowInv
  <2>2. CASE Stale
    <3>1. pc \in BeforeFirmware
      BY <1>1, <2>2 DEF Stale, Accesses, BeforeFirmware, AfterNvram
    <3>2. t \in {Wrappers, ChipCommon}
      BY <1>1, <3>1, TargetType
    <3>3. chipWindow' = Zero
      BY <1>1, <1>6, <2>2, <3>2, StaleAccess DEF Stale
    <3>4. pc' \in BeforeFirmware \/ (pc' = "firmware" /\ n' = 0)
      BY <1>2, <1>3, <3>1, AdvanceStages DEF BeforeFirmware
    <3>5. Stale'
      BY <1>1, <1>5, <2>2, <3>3, <3>4 DEF Stale
    <3>6. strays' \subseteq BeforeFirmware
      BY <1>1, <1>6, <3>1 DEF WindowInv
    <3> QED
      BY <1>5, <2>2, <3>5, <3>6 DEF Stale
  <2> QED
    BY <1>1, <1>6, <2>1, <2>2 DEF WindowInv
<1> QED
  BY <1>1, <1>4, <1>6 DEF WindowInv

LEMMA BlockWindow ==
    ASSUME TypeOK, WindowInv, NEW ok \in BOOLEAN, Block(ok)
    PROVE  WindowInv'
<1> DEFINE t == Target(pc, n)
<1>1. /\ pc \in Downloads /\ t \in Windows /\ n \in Nat /\ n < Count[pc]
      /\ window' = t
      /\ faults' = 0 => /\ faults = 0
                        /\ chipWindow' = SetWindow(chipWindow, window, t, {})
                        /\ Reach(chipWindow', t)
  BY BlockEffect
<1>2. pc \in Stages \ Waits /\ pc # "idle"
  BY <1>1 DEF Stages, Downloads, Waits
<1>3. pc' = pc \/ pc' = NextStage[pc]
  BY DEF Block, Advance
<1>4. pc' \in {"firmware", "nvram", "nvram size"} /\ pc' # "idle" /\ power'
  BY <1>1, <1>2, <1>3, AdvanceStages DEF WindowInv, Block
<1>5. fresh' = fresh
  BY DEF Block
<1>6. ASSUME faults' = 0
      PROVE  /\ window' = chipWindow'
             /\ strays' \subseteq BeforeFirmware
             /\ fresh' => strays' = {}
  <2>1. chipWindow' = t
    <3>1. CASE window = chipWindow
      BY <1>1, <1>6, <3>1, SetInSync DEF TypeOK
    <3>2. CASE Stale
      <4>1. t["high"] = 0
        BY <1>1, TargetType
      <4> QED
        BY <1>1, <1>6, <3>2, <4>1, StaleBlock DEF Stale
    <3> QED
      BY <1>1, <1>6, <3>1, <3>2 DEF WindowInv
  <2>2. strays' = strays
    BY <1>1, <1>6, <2>1 DEF Reach
  <2> QED
    BY <1>1, <1>5, <1>6, <2>1, <2>2 DEF WindowInv
<1> QED
  BY <1>4, <1>6 DEF WindowInv

LEMMA PowerUpWindow ==
    ASSUME WindowInv, pc = "idle", PowerUp
    PROVE  WindowInv'
<1>1. window' \in {Zero, ChipCommon} /\ (fresh' => window' = Zero)
  BY DEF WindowInv, PowerUp
<1>2. window' = chipWindow' \/ Stale'
  BY <1>1, WindowsDiffer DEF PowerUp, ChipReset, Stale
<1>3. strays' = {} /\ power' /\ pc' = "bus"
  BY DEF PowerUp, ChipReset
<1> QED
  BY <1>1, <1>2, <1>3 DEF WindowInv

LEMMA InitialisedWindow ==
    ASSUME pc = "idle", Initialised
    PROVE  WindowInv'
BY DEF Initialised, ChipReset, WindowInv

LEMMA SameWindow ==
    ASSUME WindowInv, UNCHANGED <<bus, power, pc, n, fresh>>
    PROVE  WindowInv'
BY DEF WindowInv, Stale, bus

LEMMA NextWindow ==
    ASSUME TypeOK, WindowInv, [Next]_vars
    PROVE  WindowInv'
<1>1. CASE CywInit
  BY <1>1, InitialisedWindow DEF CywInit
<1>2. CASE CywDeinit
  BY <1>2, InitialisedWindow, SameWindow DEF CywDeinit
<1>3. CASE Use
  BY <1>3, PowerUpWindow, SameWindow DEF Use
<1>4. ASSUME NEW itf \in Itfs, SetUp(itf)
      PROVE  WindowInv'
  BY <1>4, PowerUpWindow, SameWindow DEF SetUp
<1>5. CASE ChipAnswers
  <2>1. /\ pc = "bus" => pc' = "disable arm"
        /\ pc = "clock" => pc' = "interrupts"
        /\ pc = "ready" => pc' = "save restore"
    BY <1>5 DEF ChipAnswers, NextStage, Stages, Waits
  <2>2. pc \in Waits /\ pc # "idle" /\ UNCHANGED <<bus, power, n, fresh>>
    BY <1>5 DEF ChipAnswers, Waits
  <2>3. Stale => Stale'
    BY <2>1, <2>2 DEF Stale, bus, Waits, BeforeFirmware
  <2> QED
    BY <2>1, <2>2, <2>3 DEF WindowInv, bus, Waits, BeforeFirmware
<1>6. CASE GiveUp
  <2>1. pc \in Waits /\ pc' = "idle" /\ UNCHANGED <<bus, power, n, fresh>>
    BY <1>6 DEF GiveUp
  <2>2. Stale => Stale'
    BY <2>1 DEF Stale, bus
  <2> QED
    BY <2>1, <2>2 DEF WindowInv, bus, Waits
<1>7. CASE Access
  BY <1>7, AccessWindow
<1>8. ASSUME NEW ok \in BOOLEAN, Block(ok)
      PROVE  WindowInv'
  BY <1>8, BlockWindow
<1>9. CASE Finish
  <2>1. pc = "config" /\ pc' = "idle" /\ UNCHANGED <<bus, power, n, fresh>>
    BY <1>9 DEF Finish
  <2>2. Stale => Stale'
    BY <2>1 DEF Stale, bus
  <2> QED
    BY <2>1, <2>2 DEF WindowInv, bus
<1>10. CASE UNCHANGED vars
  BY <1>10, SameWindow DEF vars
<1>11. CASE ReadFails
  <2>1. /\ pc = "bus" => pc' = "disable arm"
        /\ pc = "clock" => pc' = "interrupts"
        /\ pc = "ready" => pc' = "save restore"
    BY <1>11 DEF ReadFails, NextStage, Stages, Waits
  <2>2. /\ pc \in Waits /\ pc # "idle"
        /\ UNCHANGED <<window, chipWindow, strays, faults, power, n, fresh>>
    BY <1>11 DEF ReadFails, Waits
  <2>3. Stale => Stale'
    BY <2>1, <2>2 DEF Stale, Waits, BeforeFirmware
  <2> QED
    BY <2>1, <2>2, <2>3 DEF WindowInv, Waits, BeforeFirmware
<1>12. CASE NoVersion
  <2>1. /\ pc = "firmware" /\ n = 0 /\ pc' = "nvram"
        /\ UNCHANGED <<bus, power, n, fresh>>
    BY <1>12 DEF NoVersion, NextStage, Stages, Downloads
  <2>2. Stale => Stale'
    BY <2>1 DEF Stale, bus
  <2> QED
    BY <2>1, <2>2 DEF WindowInv, bus
<1> QED
  BY <1>1, <1>2, <1>3, <1>4, <1>5, <1>6, <1>7, <1>8, <1>9, <1>10, <1>11, <1>12 DEF Next

LEMMA WindowInvHolds == Spec => []WindowInv
<1>1. Init => WindowInv
  BY DEF Init, WindowInv
<1>2. TypeOK /\ WindowInv /\ [Next]_vars => WindowInv'
  BY NextWindow
<1> QED
  BY <1>1, <1>2, LifecycleTypes, PTL DEF Spec

\* In the first bring-up after cyw43_init cyw43_set_backplane_window leads
\* every access to the window that was meant; in every other one, that of
\* cyw43_ensure_up after a failed one included, the firmware and all that
\* follows it reach their windows.
THEOREM BringUpsLand == Spec => []AccessesLand
<1>1. WindowInv => AccessesLand
  BY DEF WindowInv, AccessesLand
<1> QED
  BY <1>1, WindowInvHolds, PTL

-----------------------------------------------------------------------------
(* What is up when.  A bring-up runs only while cyw43_poll is not set, and *)
(* past the wait for the clock nothing undoes what booting needed.         *)

AfterClock == {"interrupts", "ready", "save restore", "config"}

UpInv ==
    /\ poll => power /\ (Booted \/ guessed)
    /\ pc # "idle" => power /\ ~poll /\ itfState = {} /\ netifs = {}
    /\ pc \in AfterClock => Booted \/ guessed
    /\ InterfacesMatch

LEMMA SameUp ==
    ASSUME UpInv, UNCHANGED <<bus, driver, power, broken>>,
           pc' = pc \/ pc' = "idle" \/ (pc' \notin AfterClock /\ pc # "idle")
    PROVE  UpInv'
BY DEF UpInv, Booted, bus, driver, InterfacesNeedChip, InterfacesMatch, AfterClock

LEMMA PowerUpUp ==
    ASSUME ~poll, PowerUp
    PROVE  UpInv'
BY DEF UpInv, PowerUp, AfterClock, InterfacesNeedChip, InterfacesMatch

LEMMA InitialisedUp ==
    ASSUME pc = "idle", Initialised
    PROVE  UpInv'
BY DEF UpInv, Initialised, AfterClock, InterfacesNeedChip, InterfacesMatch

LEMMA OpenItfUp ==
    ASSUME UpInv, pc = "idle", poll, NEW itf \in Itfs, OpenItf(itf),
           UNCHANGED <<bus, poll, power, pc, broken>>
    PROVE  UpInv'
BY DEF UpInv, OpenItf, Booted, bus, AfterClock, InterfacesNeedChip, InterfacesMatch

LEMMA NextUp ==
    ASSUME TypeOK, UpInv, [Next]_vars
    PROVE  UpInv'
<1>1. CASE CywInit
  BY <1>1, InitialisedUp DEF CywInit
<1>2. CASE CywDeinit
  BY <1>2, InitialisedUp, SameUp DEF CywDeinit
<1>3. CASE Use
  BY <1>3, PowerUpUp, SameUp DEF Use
<1>4. ASSUME NEW itf \in Itfs, SetUp(itf)
      PROVE  UpInv'
  <2>1. CASE itfState = {} /\ ~poll
    BY <1>4, <2>1, PowerUpUp DEF SetUp
  <2>2. CASE ~(itfState = {} /\ ~poll)
    <3>1. poll
      BY <2>2 DEF UpInv, InterfacesMatch, InterfacesNeedChip
    <3> QED
      BY <1>4, <2>2, <3>1, OpenItfUp DEF SetUp
  <2> QED BY <2>1, <2>2
<1>5. CASE ChipAnswers
  <2>1. /\ pc = "bus" => pc' = "disable arm"
        /\ pc = "clock" => pc' = "interrupts" /\ Booted
        /\ pc = "ready" => pc' = "save restore"
    BY <1>5 DEF ChipAnswers, NextStage, Stages, Waits
  <2>2. pc \in Waits /\ pc # "idle" /\ UNCHANGED <<bus, driver, power, broken>>
    BY <1>5 DEF ChipAnswers, Waits
  <2>3. pc' \in AfterClock => Booted' \/ guessed'
    BY <2>1, <2>2 DEF UpInv, Booted, AfterClock, bus, Waits
  <2> QED
    BY <2>2, <2>3 DEF UpInv, driver, InterfacesNeedChip, InterfacesMatch
<1>6. CASE GiveUp
  BY <1>6, SameUp DEF GiveUp
<1>7. CASE Access
  <2>1. /\ pc \in Accesses
        /\ strays \subseteq strays' /\ strays' \subseteq strays \cup {pc}
    BY <1>7, AccessEffect
  <2>2. pc # "idle" /\ pc \in Stages \ Waits
    BY <2>1 DEF Accesses, BeforeFirmware, AfterNvram, Stages, Waits
  <2>3. UNCHANGED <<driver, power, broken, guessed>>
    BY <1>7 DEF Access
  <2>4. pc' = pc \/ pc' = NextStage[pc]
    BY <1>7 DEF Access, Advance
  <2>5. ASSUME pc' \in AfterClock PROVE Booted' \/ guessed'
    <3>1. pc \in {"interrupts", "save restore"}
      BY <2>1, <2>2, <2>4, <2>5, AdvanceStages
        DEF AfterClock, Accesses, BeforeFirmware, AfterNvram
    <3>2. Booted \/ guessed
      BY <3>1 DEF UpInv, AfterClock
    <3> QED
      BY <2>1, <2>3, <3>1, <3>2 DEF Booted
  <2> QED
    BY <2>2, <2>3, <2>5 DEF UpInv, driver, InterfacesNeedChip, InterfacesMatch
<1>8. ASSUME NEW ok \in BOOLEAN, Block(ok)
      PROVE  UpInv'
  <2>1. pc \in Downloads /\ pc # "idle" /\ pc \in Stages \ Waits
    BY <1>8 DEF Block, Downloads, Stages, Waits
  <2>2. UNCHANGED <<driver, power>>
    BY <1>8 DEF Block
  <2>3. pc' = pc \/ pc' = NextStage[pc]
    BY <1>8 DEF Block, Advance
  <2>4. pc' \notin AfterClock
    BY <2>1, <2>3, AdvanceStages DEF AfterClock
  <2> QED
    BY <2>1, <2>2, <2>4 DEF UpInv, driver, InterfacesNeedChip, InterfacesMatch
<1>9. CASE Finish
  <2>1. /\ pc = "config" /\ pc' = "idle" /\ poll'
        /\ UNCHANGED <<bus, power, broken>>
    BY <1>9 DEF Finish
  <2>2. power' /\ (Booted' \/ guessed')
    BY <2>1 DEF UpInv, AfterClock, Booted, bus
  <2>3. netifs' = itfState'
    BY <1>9, <2>1 DEF UpInv, Finish, OpenItf
  <2> QED
    BY <2>1, <2>2, <2>3 DEF UpInv, AfterClock, InterfacesNeedChip, InterfacesMatch
<1>10. CASE UNCHANGED vars
  BY <1>10, SameUp DEF vars
<1>11. CASE ReadFails
  <2>1. /\ pc = "bus" => pc' = "disable arm"
        /\ pc = "clock" => pc' = "interrupts"
        /\ pc = "ready" => pc' = "save restore"
    BY <1>11 DEF ReadFails, NextStage, Stages, Waits
  <2>2. pc = "clock" \/ guessed => guessed'
    BY <1>11, Zenon DEF ReadFails
  <2>3. pc \in Waits /\ pc # "idle" /\ UNCHANGED <<driver, power, broken, strays>>
    BY <1>11 DEF ReadFails, Waits
  <2>4. pc' \in AfterClock => Booted' \/ guessed'
    <3>1. CASE pc = "bus"
      BY <2>1, <3>1 DEF AfterClock
    <3>2. CASE pc = "clock"
      BY <2>2, <3>2
    <3>3. CASE pc = "ready"
      <4>1. Booted \/ guessed
        BY <3>3 DEF UpInv, AfterClock
      <4>2. Booted => Booted'
        BY <2>3 DEF Booted
      <4> QED BY <2>2, <4>1, <4>2
    <3> QED BY <2>3, <3>1, <3>2, <3>3 DEF Waits
  <2> QED
    BY <2>3, <2>4 DEF UpInv, driver, InterfacesNeedChip, InterfacesMatch
<1>12. CASE NoVersion
  <2>1. /\ pc = "firmware" /\ pc' = "nvram"
        /\ UNCHANGED <<driver, power>>
    BY <1>12 DEF NoVersion, NextStage, Stages, Downloads
  <2> QED
    BY <2>1 DEF UpInv, driver, AfterClock, InterfacesNeedChip, InterfacesMatch
<1> QED
  BY <1>1, <1>2, <1>3, <1>4, <1>5, <1>6, <1>7, <1>8, <1>9, <1>10, <1>11, <1>12 DEF Next

LEMMA UpInvHolds == Spec => []UpInv
<1>1. Init => UpInv
  BY DEF Init, UpInv, InterfacesNeedChip, InterfacesMatch, AfterClock
<1>2. TypeOK /\ UpInv /\ [Next]_vars => UpInv'
  BY NextUp
<1> QED
  BY <1>1, <1>2, LifecycleTypes, PTL DEF Spec

\* cyw43_ensure_up sets cyw43_poll only for a chip that has power and has got
\* its firmware, its parameters and the release of its core, unless a read that
\* failed was taken for the HT clock: of all the results that
\* cyw43_ll_bus_init ignores that is the only one to get through.
THEOREM UpIsBooted == Spec => []UpMeansBooted
<1>1. UpInv => UpMeansBooted
  BY DEF UpInv, UpMeansBooted
<1> QED
  BY <1>1, UpInvHolds, PTL

\* itf_state shows no interface unless the chip is up, and while it is up
\* shows those that the TCP/IP stack has open.
THEOREM InterfacesAgree == Spec => []InterfacesMatch
<1>1. UpInv => InterfacesMatch
  BY DEF UpInv
<1> QED
  BY <1>1, UpInvHolds, PTL
=============================================================================
