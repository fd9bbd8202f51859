------------------------------ MODULE BusPower ------------------------------
(***************************************************************************)
(* Putting the bus to sleep and waking it: cyw43_ll_bus_sleep, cyw43_kso_set *)
(* and the countdown cyw43_sleep, together with the life cycle of the chip.  *)
(* Every transfer is preceded by a wake-up; poll_func lets the bus sleep     *)
(* when the countdown is over.  The driver's idea of the bus can differ from *)
(* the chip's state: register writes get lost, the chip wakes up at its own  *)
(* speed, the driver gives up after some tries, and a power cycle changes    *)
(* everything on the chip's side.                                            *)
(*                                                                           *)
(* act names the loop that an initialised driver is in.  The chip's power    *)
(* management, its frames and the timer that counts cyw43_sleep down are     *)
(* external.                                                                 *)
(***************************************************************************)
EXTENDS Lifecycle

CONSTANTS
    SleepMax,     \* CYW43_SLEEP_MAX
    KsoTries,     \* how often cyw43_kso_set reads the register back
    MaxFrames     \* bound: frames that wait in the chip

ASSUME BusPowerAssumption ==
    SleepMax \in Nat \ {0} /\ KsoTries \in Nat \ {0} /\ MaxFrames \in Nat \ {0}

VARIABLES
    busUp,    \* bus_is_up
    sleep,    \* cyw43_sleep
    had,      \* had_successful_packet
    act,      \* the loop the driver is in
    resume,   \* where it goes on when the bus is awake
    tries,    \* reads of cyw43_kso_set so far
    kso,      \* chip: KEEP_SDIO_ON
    devOn,    \* chip: DEVICE_ON
    frames,   \* chip: frames that wait for the host, and hold its interrupt pin
    quiet,    \* history: ticks since the bus was last used, up to SleepMax
    gaveUp,   \* history: the last wake-up ended before the chip was awake
    lastRead  \* history: what the last read of this call or poll came to

host == <<busUp, sleep, had, lastRead, act, resume, tries>>
card == <<kso, devOn, frames>>
powerVars == <<host, card, quiet, gaveUp>>
allVars == <<vars, powerVars>>

\* "call": an ioctl or a send.  A poll reads "packets", has the rest of one to
\* read if it had to wake the bus first ("reading"), sends the "request"s of
\* events, and comes to its "end".
Loops == {"call", "packets", "reading", "request"}
Acts == {"idle", "waking", "sleeping", "end"} \cup Loops

Awake == kso /\ devOn

-----------------------------------------------------------------------------
(* Waking the bus and letting it sleep.                                    *)

\* Writes of cyw43_kso_set, each of which may be lost.
WriteKso(value) == kso' \in {kso, value}

\* Mutated form: the countdown starts again only if the bus was asleep.
WakeForLate(stage) ==
    IF busUp THEN act' = stage /\ UNCHANGED <<busUp, sleep, resume, tries, kso>>
    ELSE /\ sleep' = SleepMax
         /\ act' = "waking" /\ resume' = stage /\ tries' = 0
         /\ WriteKso(TRUE) /\ UNCHANGED busUp

\* Mutated form: bus_is_up is set, and the chip is not told.
WakeForUntold(stage) ==
    /\ sleep' = SleepMax
    /\ busUp' = TRUE /\ act' = stage
    /\ UNCHANGED <<resume, tries, kso>>

\* cyw43_ll_bus_sleep(false), after which stage goes on.
WakeFor(stage) ==
    /\ sleep' = SleepMax
    /\ IF busUp
       THEN act' = stage /\ UNCHANGED <<busUp, resume, tries, kso>>
       ELSE /\ act' = "waking" /\ resume' = stage /\ tries' = 0
            /\ WriteKso(TRUE) /\ UNCHANGED busUp

\* cyw43_ll_bus_sleep(true), at the end of a poll.
LetSleep ==
    IF busUp
    THEN /\ busUp' = FALSE
         /\ act' = "sleeping" /\ tries' = 0 /\ WriteKso(FALSE)
    ELSE act' = "idle" /\ UNCHANGED <<busUp, tries, kso>>

\* What cyw43_kso_set waits for.
Matches == IF act = "waking" THEN Awake ELSE ~kso

\* The loop of cyw43_kso_set is left, and its caller goes on.
KsoEnd ==
    /\ tries' = 0 /\ resume' = "idle"
    /\ IF act = "waking"
       THEN busUp' = TRUE /\ act' = resume /\ gaveUp' = ~Awake
       ELSE act' = "idle" /\ UNCHANGED <<busUp, gaveUp>>

KsoReached ==
    /\ act \in {"waking", "sleeping"} /\ Matches
    /\ KsoEnd
    /\ UNCHANGED <<vars, sleep, had, lastRead, card, quiet>>

\* Mutated form: it tries for ever.
KsoAgainForever ==
    /\ act \in {"waking", "sleeping"}
    /\ WriteKso(act = "waking")
    /\ tries' = (tries + 1) % KsoTries /\ UNCHANGED <<busUp, act, resume, gaveUp>>
    /\ UNCHANGED <<vars, sleep, had, lastRead, devOn, frames, quiet>>

\* Mutated form: one try too many is counted.
KsoAgainOnce ==
    /\ act \in {"waking", "sleeping"}
    /\ WriteKso(act = "waking")
    /\ IF tries < KsoTries
       THEN tries' = tries + 1 /\ UNCHANGED <<busUp, act, resume, gaveUp>>
       ELSE KsoEnd
    /\ UNCHANGED <<vars, sleep, had, lastRead, devOn, frames, quiet>>

\* The register does not match, or could not be read: it is written once more.
KsoAgain ==
    /\ act \in {"waking", "sleeping"}
    /\ WriteKso(act = "waking")
    /\ IF tries + 1 < KsoTries
       THEN tries' = tries + 1 /\ UNCHANGED <<busUp, act, resume, gaveUp>>
       ELSE KsoEnd
    /\ UNCHANGED <<vars, sleep, had, lastRead, devOn, frames, quiet>>

-----------------------------------------------------------------------------
(* Calls, and the packets that every loop reads.                           *)

\* The bus is used, or its wake-up begins.
Used == quiet' = 0

\* A public call of a driver that is up: cyw43_ensure_up, and what follows.
BeginCall ==
    /\ WakeFor("call") /\ Used
    /\ UNCHANGED <<had, lastRead, devOn, frames, gaveUp>>

\* cyw43_sdpcm_send_common.
Send ==
    /\ act \in {"call", "request"}
    /\ WakeFor(act) /\ Used
    /\ UNCHANGED <<vars, had, lastRead, devOn, frames, gaveUp>>

\* What process_packets does with a header without a packet.
NoPacket(stage) == IF stage = "packets" THEN "end" ELSE stage

\* A packet, or nothing, is read.  A damaged header ends process_packets like no
\* packet at all.
ReadDone(stage) ==
    /\ lastRead' = "ok"
    /\ IF frames > 0
       THEN frames' = frames - 1 /\ had' = TRUE /\ act' \in {stage, NoPacket(stage)}
       ELSE had' = FALSE /\ act' = NoPacket(stage) /\ UNCHANGED frames

\* The read fails, which nobody notices: what is left in hdr, which is never
\* initialised, can be no packet, a damaged one or the header of an old one.
ReadFailed(stage) ==
    /\ frames' \in IF Awake /\ frames > 0 THEN {frames, frames - 1} ELSE {frames}
    /\ had' \in BOOLEAN
    /\ act' \in IF had' THEN {stage, NoPacket(stage)} ELSE {NoPacket(stage)}
    /\ lastRead' = IF act' = NoPacket(stage) THEN "failed" ELSE "stale"

\* The two cyw43_read_bytes and what comes of them.
Receive(stage) == (Awake /\ ReadDone(stage)) \/ ReadFailed(stage)

\* cyw43_ll_sdpcm_poll_device, unless the interrupt pin keeps it away.
PollDevice ==
    /\ act \in {"call", "request", "packets"} /\ (had \/ frames > 0)
    /\ Used
    /\ IF busUp
       THEN sleep' = SleepMax /\ Receive(act) /\ UNCHANGED <<busUp, resume, tries, kso>>
       ELSE WakeFor("reading") /\ UNCHANGED <<had, lastRead, frames>>
    /\ UNCHANGED <<vars, devOn, gaveUp>>

\* The rest of it if it had to wake the bus first.
Read ==
    /\ act = "reading"
    /\ Receive("packets")
    /\ UNCHANGED <<vars, busUp, sleep, resume, tries, kso, devOn, quiet, gaveUp>>

EndCall ==
    /\ act = "call" /\ pc = "idle"
    /\ act' = "idle" /\ lastRead' = "ok"
    /\ UNCHANGED <<vars, busUp, sleep, had, resume, tries, card, quiet, gaveUp>>

-----------------------------------------------------------------------------
(* cyw43_poll_func.                                                        *)

\* Mutated form: a bus that sleeps is not asked for packets.
StartPollAwake ==
    /\ pc = "idle" /\ act = "idle" /\ poll
    /\ act' = IF frames > 0 /\ busUp THEN "packets" ELSE "end"
    /\ UNCHANGED <<vars, busUp, sleep, had, lastRead, resume, tries, card, quiet, gaveUp>>

\* cyw43_ll_has_work looks at the interrupt pin only.  What it has seen is
\* still there when process_packets starts, so the pin ends no poll.
StartPoll ==
    /\ pc = "idle" /\ act = "idle" /\ poll
    /\ act' = IF frames > 0 THEN "packets" ELSE "end"
    /\ UNCHANGED <<vars, busUp, sleep, had, lastRead, resume, tries, card, quiet, gaveUp>>

\* An event has left something to do.
Request ==
    /\ act = "end"
    /\ WakeFor("request") /\ Used
    /\ UNCHANGED <<vars, had, lastRead, devOn, frames, gaveUp>>

EndRequest ==
    /\ act = "request" /\ act' = "end"
    /\ UNCHANGED <<vars, busUp, sleep, had, lastRead, resume, tries, card, quiet, gaveUp>>

EndPoll ==
    /\ act = "end"
    /\ IF sleep = 0 THEN LetSleep ELSE act' = "idle" /\ UNCHANGED <<busUp, tries, kso>>
    /\ lastRead' = "ok"
    /\ UNCHANGED <<vars, sleep, had, resume, devOn, frames, quiet, gaveUp>>

-----------------------------------------------------------------------------
(* The life cycle, as in Lifecycle, and what it does to the bus.           *)

\* A power cycle: the chip is awake until its firmware lets it sleep.
CardReset == kso' = FALSE /\ devOn' = TRUE /\ frames' = 0 /\ gaveUp' = FALSE

\* Mutated form: bus_is_up is not part of what is initialised.
BusInitialisedKeepingUp ==
    /\ CardReset /\ had' = FALSE
    /\ UNCHANGED <<busUp, sleep, lastRead, act, resume, tries, quiet>>

\* cyw43_ll_init in cyw43_init; cyw43_sleep is left alone.
BusInitialised ==
    /\ CardReset /\ busUp' = FALSE /\ had' = FALSE
    /\ UNCHANGED <<sleep, lastRead, act, resume, tries, quiet>>

Restart ==
    /\ act = "idle"
    /\ \/ CywInit /\ BusInitialised
       \/ CywDeinit /\ IF poll THEN BusInitialised ELSE UNCHANGED powerVars

\* A call brings the chip up, or finds it up and uses it.
UseChip ==
    /\ act = "idle"
    /\ Use
    /\ IF poll THEN BeginCall ELSE CardReset /\ UNCHANGED <<host, quiet>>

\* cyw43_wifi_set_up uses a chip that is up only for the first interface and
\* for the AP.
SetUpChip(itf) ==
    /\ act = "idle"
    /\ SetUp(itf)
    /\ IF ~poll THEN CardReset /\ UNCHANGED <<host, quiet>>
       ELSE IF itfState = {} \/ itf = "AP" THEN BeginCall
       ELSE UNCHANGED powerVars

\* The steps of cyw43_ll_bus_init.  When F2 is ready it sets KEEP_SDIO_ON, and
\* after its last access it wakes the bus.
BringUp ==
    /\ \/ ChipAnswers \/ ReadFails \/ GiveUp \/ Access
       \/ (\E ok \in BOOLEAN : Block(ok)) \/ NoVersion
    /\ IF pc' = "config" THEN BeginCall
       ELSE /\ IF pc = "ready" /\ pc' # "idle" THEN WriteKso(TRUE) ELSE UNCHANGED kso
            /\ UNCHANGED <<host, devOn, frames, quiet, gaveUp>>

\* The end of cyw43_ensure_up, with the countdown started.
Finished ==
    /\ act = "call"
    /\ Finish
    /\ sleep' = SleepMax /\ act' = "idle" /\ Used
    /\ UNCHANGED <<busUp, had, lastRead, resume, tries, card, gaveUp>>

-----------------------------------------------------------------------------
(* The chip and the timer (external).                                      *)

\* The firmware runs, and manages the chip's power.
Running == poll \/ pc = "config"

DeviceWakes ==
    /\ kso /\ ~devOn /\ devOn' = TRUE
    /\ UNCHANGED <<vars, host, kso, frames, quiet, gaveUp>>

DeviceSleeps ==
    /\ Running /\ ~kso /\ devOn /\ devOn' = FALSE
    /\ UNCHANGED <<vars, host, kso, frames, quiet, gaveUp>>

FrameComes ==
    /\ Running /\ frames < MaxFrames /\ frames' = frames + 1
    /\ UNCHANGED <<vars, host, kso, devOn, quiet, gaveUp>>

Tick ==
    /\ poll /\ (sleep > 0 \/ quiet < SleepMax)
    /\ sleep' = IF sleep > 0 THEN sleep - 1 ELSE 0
    /\ quiet' = IF quiet < SleepMax THEN quiet + 1 ELSE SleepMax
    /\ UNCHANGED <<vars, busUp, had, lastRead, act, resume, tries, card, gaveUp>>

-----------------------------------------------------------------------------

PowerInit ==
    /\ Init
    /\ busUp = FALSE /\ sleep = 0 /\ had = FALSE /\ lastRead = "ok"
    /\ act = "idle" /\ resume = "idle" /\ tries = 0
    /\ kso = FALSE /\ devOn = TRUE /\ frames = 0
    /\ quiet = 0 /\ gaveUp = FALSE

Kso == KsoReached \/ KsoAgain

PowerNext ==
    \/ Restart \/ UseChip \/ (\E itf \in Itfs : SetUpChip(itf)) \/ BringUp \/ Finished
    \/ Kso \/ Send \/ PollDevice \/ Read \/ EndCall
    \/ StartPoll \/ Request \/ EndRequest \/ EndPoll
    \/ DeviceWakes \/ DeviceSleeps \/ FrameComes \/ Tick

PowerSpec == PowerInit /\ [][PowerNext]_allVars

\* cyw43_poll is called again and again; calls and polls go on and come to their
\* end, a poll sending a request for each of three flags at most.  A chip that
\* is told to wake up does so in the end.
Fairness ==
    /\ SF_allVars(StartPoll) /\ WF_allVars(Kso) /\ WF_allVars(Read)
    /\ WF_allVars(act = "packets" /\ PollDevice)
    /\ WF_allVars(EndCall) /\ WF_allVars(EndRequest) /\ SF_allVars(EndPoll)
    /\ WF_allVars(Finished) /\ WF_allVars(BringUp) /\ WF_allVars(DeviceWakes)

PowerFairSpec == PowerSpec /\ Fairness

-----------------------------------------------------------------------------
(* Properties.                                                             *)

PowerTypeOK ==
    /\ busUp \in BOOLEAN /\ sleep \in 0 .. SleepMax /\ had \in BOOLEAN
    /\ act \in Acts /\ resume \in Loops \cup {"idle"}
    /\ tries \in 0 .. KsoTries - 1
    /\ kso \in BOOLEAN /\ devOn \in BOOLEAN /\ frames \in 0 .. MaxFrames
    /\ quiet \in 0 .. SleepMax /\ gaveUp \in BOOLEAN
    /\ lastRead \in {"ok", "failed", "stale"}
    /\ act \in {"waking", "sleeping"} \/ (tries = 0 /\ resume = "idle")

\* No loop that transfers data runs while bus_is_up is false, or with a chip
\* that is not awake, unless the wake-up before it was given up: in particular
\* no transfer follows a wake-up that was left out because bus_is_up was left
\* from before a power cycle.
TransfersAwake ==
    act \in Loops \ {"packets"} => busUp /\ (Awake \/ gaveUp)

\* The bus counts as up only for a chip that has power and runs its firmware,
\* or of which a read that failed in the wait for its clock said so, although
\* bus_is_up and cyw43_poll are set and cleared in different places.
BusNeedsChip == busUp => power /\ (Booted \/ guessed) /\ Running

\* poll_func lets the bus sleep only if it was not used for the whole countdown,
\* however long a call or a wake-up took.
SleepsWhenIdle ==
    [][act = "end" /\ act' = "sleeping" => quiet = SleepMax]_allVars

\* The driver takes the bus for up, and the chip has been told to sleep.
WakeLost == busUp /\ ~kso

\* A wake-up ends before the chip is awake.
GivesUp == act = "waking" /\ act' # "waking" /\ gaveUp'

\* A frame does not wait for ever while the driver polls and reads none: the
\* pin leads to a read, and the read to a wake-up.  That takes wake-ups that
\* reach the chip: one of which all writes were lost is not repeated as long as
\* the chip calls for it, since each poll starts the countdown again, and a
\* chip that wakes up too late each time can be put to sleep between two polls.
\* And it takes reads that do not fail again and again.
FramesRead ==
    \/ []<>(frames = 0 \/ ~poll \/ WakeLost)
    \/ []<><<frames' < frames>>_frames
    \/ []<><<GivesUp>>_act
    \/ []<>(lastRead # "ok")

\* A poll and a call end: nothing can keep the driver in its loops but a chip that
\* always has another frame, or a bus of which every read fails and leaves the
\* header of an old packet in place.
LoopsEnd == []<>(act = "idle" \/ frames > 0 \/ lastRead = "stale")

=============================================================================
