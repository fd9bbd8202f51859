----------------------------- MODULE Lifecycle ------------------------------
(***************************************************************************)
(* Bringing the chip up and shutting it down: cyw43_init, cyw43_deinit,     *)
(* cyw43_ensure_up with cyw43_ll_bus_init, cyw43_wifi_set_up, and the       *)
(* backplane accesses they consist of.  The driver runs in one thread; what *)
(* can go wrong is that the chip does not answer, that a transfer fails,    *)
(* that a register write gets lost, and that the application then calls     *)
(* again, shuts down, or initialises the driver anew.                       *)
(***************************************************************************)
EXTENDS Backplane

CONSTANTS
    FwBlocks,     \* 16 KB blocks of the firmware, downloaded from address 0
    RamBlocks,    \* 16 KB blocks of RAM; the last one takes the nvram
    MaxFaults     \* bound: accesses of a bring-up in which a window write is lost

\* The firmware fits in a RAM that lies below the first change of the high byte.
ASSUME LifecycleAssumption ==
    /\ RamBlocks \in 1 .. 1024
    /\ FwBlocks \in 1 .. RamBlocks
    /\ MaxFaults \in Nat

Itfs == {"STA", "AP"}

\* The parts of cyw43_ll_bus_init, in order.  The chip is waited for in
\* "bus" (enumeration, backplane, ALP), "clock" (HT) and "ready" (F2).
Waits == {"bus", "clock", "ready"}
Downloads == {"firmware", "nvram"}
BeforeFirmware == {"disable arm", "disable socram", "reset socram", "remap"}
AfterNvram == {"nvram size", "reset arm", "arm is up", "interrupts", "save restore"}
Accesses == BeforeFirmware \cup AfterNvram
Stages == Waits \cup Downloads \cup Accesses

NextStage == [s \in Stages |->
    CASE s = "bus" -> "disable arm"
      [] s = "disable arm" -> "disable socram"
      [] s = "disable socram" -> "reset socram"
      [] s = "reset socram" -> "remap"
      [] s = "remap" -> "firmware"
      [] s = "firmware" -> "nvram"
      [] s = "nvram" -> "nvram size"
      [] s = "nvram size" -> "reset arm"
      [] s = "reset arm" -> "arm is up"
      [] s = "arm is up" -> "clock"
      [] s = "clock" -> "interrupts"
      [] s = "interrupts" -> "ready"
      [] s = "ready" -> "save restore"
      [] s = "save restore" -> "config"]

\* How many accesses or blocks a stage makes.
Count == [s \in Stages \ Waits |->
    CASE s \in {"disable arm", "disable socram", "arm is up", "remap", "interrupts"} -> 2
      [] s \in {"reset socram", "reset arm"} -> 7
      [] s = "firmware" -> FwBlocks
      [] OTHER -> 1]

\* The window of the i-th access or block of a stage.
Target(s, i) ==
    CASE s \in {"remap", "interrupts", "save restore"} -> ChipCommon
      [] s = "firmware" -> RamWindow(i)
      [] s \in {"nvram", "nvram size"} -> RamWindow(RamBlocks - 1)
      [] OTHER -> Wrappers

VARIABLES
    window,      \* cur_backplane_window
    chipWindow,  \* chip: the window register
    power,       \* WL_REG_ON
    pc,          \* the stage of cyw43_ll_bus_init, or "idle"
    n,           \* accesses or blocks done in this stage
    call,        \* the call in progress, or the last one
    poll,        \* cyw43_poll is set
    itfState,    \* itf_state
    netifs,      \* interfaces the TCP/IP stack has open
    strays,      \* history: stages with an access to another window than meant
    broken,      \* history: downloads broken off
    guessed,     \* history: a read that failed ended the wait for the clock
    faults,      \* history: accesses since power up in which a write was lost
    fresh        \* history: this power up is the first since cyw43_ll_init

bus == <<window, chipWindow, strays, faults, guessed>>
driver == <<poll, itfState, netifs>>
vars == <<bus, driver, power, pc, n, call, broken, fresh>>

TypeOK ==
    /\ window \in Windows /\ chipWindow \in Windows
    /\ power \in BOOLEAN /\ poll \in BOOLEAN /\ fresh \in BOOLEAN
    /\ pc \in Stages \cup {"idle", "config"}
    /\ n \in Nat /\ IF pc \in Stages \ Waits THEN n < Count[pc] ELSE n = 0
    /\ call \in {"init", "deinit", "use"} \cup Itfs
    /\ itfState \subseteq Itfs /\ netifs \subseteq Itfs
    /\ strays \subseteq Accesses \cup Downloads /\ broken \subseteq Downloads
    /\ faults \in 0 .. MaxFaults /\ guessed \in BOOLEAN

-----------------------------------------------------------------------------
(* Calls of the application.                                               *)

\* What a power cycle makes of the chip, and of the histories of one.
ChipReset ==
    /\ chipWindow' = Zero
    /\ strays' = {} /\ broken' = {} /\ faults' = 0 /\ guessed' = FALSE

\* cyw43_init, with cyw43_ll_init, but for the interfaces of the TCP/IP stack.
Initialised ==
    /\ power' = FALSE /\ ChipReset
    /\ window' = Zero /\ fresh' = TRUE
    /\ itfState' = {} /\ poll' = FALSE
    /\ UNCHANGED <<pc, n>>

CywInit ==
    /\ pc = "idle"
    /\ call' = "init"
    /\ Initialised
    /\ UNCHANGED netifs

CywDeinit ==
    /\ pc = "idle"
    /\ call' = "deinit"
    /\ IF poll
       THEN Initialised /\ netifs' = {}
       ELSE UNCHANGED <<bus, driver, power, pc, n, broken, fresh>>

\* Mutated form: the TCP/IP stack keeps its interfaces.
PowerUpKeepingNetifs ==
    /\ itfState' = {} /\ UNCHANGED <<netifs, poll>>
    /\ power' = TRUE /\ ChipReset
    /\ UNCHANGED window /\ fresh' = (fresh /\ ~power)
    /\ pc' = "bus" /\ n' = 0

\* cyw43_ensure_up of a driver that is not up: the chip is reset, the state of
\* the low-level driver is not.
PowerUp ==
    /\ netifs' = {} /\ itfState' = {} /\ UNCHANGED poll
    /\ power' = TRUE /\ ChipReset
    /\ UNCHANGED window /\ fresh' = (fresh /\ ~power)
    /\ pc' = "bus" /\ n' = 0

\* The end of cyw43_wifi_set_up(itf, true): the interface is opened once.
OpenItf(itf) ==
    /\ netifs' = netifs \cup {itf}
    /\ itfState' = itfState \cup {itf}

\* Any call that begins with cyw43_ensure_up and leaves this state alone.
Use ==
    /\ pc = "idle"
    /\ call' = "use"
    /\ IF poll THEN UNCHANGED <<bus, driver, power, pc, n, broken, fresh>> ELSE PowerUp

\* cyw43_wifi_set_up(itf, true).  cyw43_wifi_on is called, and so the chip
\* brought up, only if no interface is.
SetUp(itf) ==
    /\ pc = "idle"
    /\ call' = itf
    /\ IF itfState = {} /\ ~poll
       THEN PowerUp
       ELSE OpenItf(itf) /\ UNCHANGED <<bus, poll, power, pc, n, broken, fresh>>

-----------------------------------------------------------------------------
(* cyw43_ll_bus_init.                                                      *)

\* Mutated form: one access or block more.
AdvancePast ==
    IF n < Count[pc] THEN n' = n + 1 /\ UNCHANGED pc
                     ELSE n' = 0 /\ pc' = NextStage[pc]

\* One more access or block of this stage is done.
Advance ==
    IF n + 1 < Count[pc] THEN n' = n + 1 /\ UNCHANGED pc
                         ELSE n' = 0 /\ pc' = NextStage[pc]

\* The chip boots if it has firmware and parameters and its core was released.
Booted == {"firmware", "nvram", "nvram size", "reset arm"} \cap (strays \cup broken) = {}

\* Mutated form: a timeout is ignored like the results of the downloads.
GoOn ==
    /\ pc \in Waits
    /\ pc' = NextStage[pc]
    /\ UNCHANGED <<bus, driver, power, n, call, broken, fresh>>

\* What the driver waits for comes.
ChipAnswers ==
    /\ pc \in Waits
    /\ pc = "clock" => Booted
    /\ pc' = NextStage[pc]
    /\ UNCHANGED <<bus, driver, power, n, call, broken, fresh>>

\* A read of the register that is waited for fails.  The negative error code
\* has the bit that is tested for set, so that the wait ends all the same.
ReadFails ==
    /\ pc \in Waits
    /\ pc' = NextStage[pc]
    /\ guessed' = (guessed \/ pc = "clock")
    /\ UNCHANGED <<window, chipWindow, strays, faults, driver, power, n, call, broken, fresh>>

\* It does not come in time: -CYW43_EIO, with everything left as it is.
GiveUp ==
    /\ pc \in Waits
    /\ pc' = "idle"
    /\ UNCHANGED <<bus, driver, power, n, call, broken, fresh>>

\* Counts an access in which the window writes in lost did not arrive.
Lose(lost) ==
    /\ lost # {} => faults < MaxFaults
    /\ faults' = IF lost = {} THEN faults ELSE faults + 1

\* Where the window register points when an access to target is made.
Reach(reg, target) == strays' = IF reg = target THEN strays ELSE strays \cup {pc}

\* cyw43_read_backplane or cyw43_write_backplane.
Access ==
    /\ pc \in Accesses
    /\ LET target == Target(pc, n) IN
       \E lost \in SUBSET Changed(window, target),
          back \in SUBSET Changed(target, ChipCommon) :
          LET reg == SetWindow(chipWindow, window, target, lost) IN
          /\ Lose(lost \cup back)
          /\ Reach(reg, target)
          /\ chipWindow' = SetWindow(reg, target, ChipCommon, back)
    /\ window' = ChipCommon
    /\ Advance
    /\ UNCHANGED <<driver, power, call, broken, fresh, guessed>>

\* One block of cyw43_download_resource, which leaves the window there.  If the
\* transfer fails the download ends; cyw43_ll_bus_init ignores its result.
Block(ok) ==
    /\ pc \in Downloads
    /\ LET target == Target(pc, n) IN
       /\ \E lost \in SUBSET Changed(window, target) :
          LET reg == SetWindow(chipWindow, window, target, lost) IN
          /\ Lose(lost)
          /\ Reach(reg, target)
          /\ chipWindow' = reg
       /\ window' = target
    /\ IF ok THEN Advance /\ UNCHANGED broken
             ELSE pc' = NextStage[pc] /\ n' = 0 /\ broken' = broken \cup {pc}
    /\ UNCHANGED <<driver, power, call, fresh, guessed>>

\* cyw43_download_resource finds no version in the firmware, and returns before
\* its first block.
NoVersion ==
    /\ pc = "firmware" /\ n = 0
    /\ pc' = NextStage[pc] /\ broken' = broken \cup {pc}
    /\ UNCHANGED <<bus, driver, power, n, call, fresh>>

\* The ioctls at the end, whose results are ignored, and the rest of
\* cyw43_ensure_up and of the call that it was made for.
Finish ==
    /\ pc = "config"
    /\ pc' = "idle" /\ poll' = TRUE
    /\ IF call \in Itfs THEN OpenItf(call) ELSE UNCHANGED <<itfState, netifs>>
    /\ UNCHANGED <<bus, power, n, call, broken, fresh>>

Init ==
    /\ window = Zero /\ chipWindow = Zero /\ power = FALSE
    /\ pc = "idle" /\ n = 0 /\ call = "init"
    /\ poll = FALSE /\ itfState = {} /\ netifs = {}
    /\ strays = {} /\ broken = {} /\ faults = 0 /\ fresh = TRUE /\ guessed = FALSE

Next ==
    \/ CywInit \/ CywDeinit \/ Use
    \/ \E itf \in Itfs : SetUp(itf)
    \/ ChipAnswers \/ ReadFails \/ GiveUp \/ Access
    \/ (\E ok \in BOOLEAN : Block(ok)) \/ NoVersion
    \/ Finish

Spec == Init /\ [][Next]_vars

-----------------------------------------------------------------------------
(* Properties.                                                             *)

\* Every access to the backplane reaches the window that cyw43_set_backplane_window
\* was asked for, wherever a download breaks off (unless a register write is
\* lost).  When a bring-up has failed and cyw43_ensure_up tries again, the chip
\* was reset but cur_backplane_window was not; then the copy is right again only
\* by the first block of the firmware, and stays right.
AccessesLand == faults = 0 => strays \subseteq IF fresh THEN {} ELSE BeforeFirmware

\* itf_state shows an interface only while the chip is up, so that
\* cyw43_wifi_scan and cyw43_wifi_join, which test it, and
\* cyw43_wifi_set_up, which skips cyw43_wifi_on because of it, find it up.
InterfacesNeedChip == itfState # {} => poll

\* And while the chip is up the TCP/IP stack has open what itf_state says, even
\* after cyw43_init was called on a running driver, which closes nothing.
InterfacesMatch == InterfacesNeedChip /\ (poll => netifs = itfState)

\* cyw43_poll is set only if the chip has power and runs its firmware: no
\* download or reset whose failure cyw43_ll_bus_init ignores gets past its last
\* waits, but for a read that failed in the wait for the clock.
UpMeansBooted == poll => power /\ (Booted \/ guessed)

=============================================================================
