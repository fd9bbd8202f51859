--------------------------- MODULE BusPowerProofs ---------------------------
(***************************************************************************)
(* Proofs about BusPower: it keeps to Lifecycle, so that what is proved      *)
(* there holds here, and its safety properties, for every size of the       *)
(* downloads, countdown and number of tries.                                *)
(***************************************************************************)
EXTENDS BusPower, LifecycleProofs

-----------------------------------------------------------------------------
(* The life cycle is that of Lifecycle: the sleep of the bus changes none   *)
(* of its variables.                                                       *)

LEMMA NextRefines ==
    ASSUME [PowerNext]_allVars
    PROVE  [Next]_vars
<1>1. CASE Restart
  BY <1>1 DEF Restart, Next
<1>2. CASE UseChip
  BY <1>2 DEF UseChip, Next
<1>3. ASSUME NEW itf \in Itfs, SetUpChip(itf)
      PROVE  [Next]_vars
  BY <1>3 DEF SetUpChip, Next
<1>4. CASE BringUp
  BY <1>4 DEF BringUp, Next
<1>5. CASE Finished
  BY <1>5 DEF Finished, Next
<1>6. CASE KsoReached \/ KsoAgain \/ Send \/ PollDevice \/ Read \/ EndCall
  BY <1>6 DEF KsoReached, KsoAgain, Send, PollDevice, Read, EndCall
<1>7. CASE StartPoll \/ Request \/ EndRequest \/ EndPoll
  BY <1>7 DEF StartPoll, Request, EndRequest, EndPoll
<1>8. CASE DeviceWakes \/ DeviceSleeps \/ FrameComes \/ Tick
  BY <1>8 DEF DeviceWakes, DeviceSleeps, FrameComes, Tick
<1>9. CASE UNCHANGED allVars
  BY <1>9 DEF allVars
<1> QED
  BY <1>1, <1>2, <1>3, <1>4, <1>5, <1>6, <1>7, <1>8, <1>9 DEF PowerNext, Kso

\* Sleeping and waking leave the bring-up, the shut-down and the interfaces as
\* Lifecycle has them.
THEOREM KeepsToLifecycle == PowerSpec => Spec
<1>1. PowerInit => Init
  BY DEF PowerInit
<1>2. [PowerNext]_allVars => [Next]_vars
  BY NextRefines
<1> QED
  BY <1>1, <1>2, PTL DEF PowerSpec, Spec

-----------------------------------------------------------------------------
(* Which chip the bus belongs to.  The driver is in a loop, or takes the    *)
(* bus for up, only while the firmware runs, and a bring-up is none of that *)
(* but for its last stage.                                                 *)

RunInv == act # "idle" \/ busUp => Running

LEMMA BringUpIdle ==
    ASSUME UpInv, RunInv, BringUp
    PROVE  /\ act = "idle" /\ ~busUp /\ ~poll /\ UNCHANGED poll
           /\ pc \notin {"idle", "config"}
<1>1. pc \in Stages
  BY DEF BringUp, ChipAnswers, ReadFails, GiveUp, Access, Block, NoVersion, Stages, Downloads
<1>2. pc \notin {"idle", "config"}
  BY <1>1 DEF Stages, Waits, Downloads, Accesses, BeforeFirmware, AfterNvram
<1>3. UNCHANGED poll
  BY DEF BringUp, ChipAnswers, ReadFails, GiveUp, Access, Block, NoVersion, driver
<1> QED
  BY <1>2, <1>3 DEF UpInv, RunInv, Running

\* What leaves alone what Running depends on.
LEMMA SameRunning ==
    ASSUME RunInv, UNCHANGED <<poll, pc>>, act' # "idle" \/ busUp' => Running
    PROVE  RunInv'
BY DEF RunInv, Running

LEMMA NextRun ==
    ASSUME UpInv, RunInv, [PowerNext]_allVars
    PROVE  RunInv'
<1>1. CASE Restart
  BY <1>1
    DEF Restart, CywInit, CywDeinit, BusInitialised, powerVars, host, driver, RunInv, Running
<1>2. CASE UseChip
  BY <1>2 DEF UseChip, Use, PowerUp, host, driver, RunInv, Running
<1>3. ASSUME NEW itf \in Itfs, SetUpChip(itf)
      PROVE  RunInv'
  BY <1>3 DEF SetUpChip, SetUp, PowerUp, powerVars, host, RunInv, Running
<1>4. CASE BringUp
  BY <1>4, BringUpIdle DEF BringUp, host, RunInv, Running
<1>5. CASE Finished
  BY <1>5 DEF Finished, Finish, RunInv, Running
<1>6. CASE KsoReached \/ KsoAgain \/ Send \/ PollDevice \/ Read \/ EndCall
  <2>1. act # "idle" /\ UNCHANGED <<poll, pc>>
    BY <1>6 DEF KsoReached, KsoAgain, Send, PollDevice, Read, EndCall, vars, driver
  <2> QED
    BY <2>1, SameRunning DEF RunInv
<1>7. CASE StartPoll \/ Request \/ EndRequest \/ EndPoll
  <2>1. Running /\ UNCHANGED <<poll, pc>>
    BY <1>7 DEF StartPoll, Request, EndRequest, EndPoll, vars, driver, RunInv, Running
  <2> QED
    BY <2>1, SameRunning
<1>8. CASE DeviceWakes \/ DeviceSleeps \/ FrameComes \/ Tick
  BY <1>8 DEF DeviceWakes, DeviceSleeps, FrameComes, Tick, vars, driver, host, RunInv, Running
<1>9. CASE UNCHANGED allVars
  BY <1>9 DEF allVars, vars, driver, powerVars, host, RunInv, Running
<1> QED
  BY <1>1, <1>2, <1>3, <1>4, <1>5, <1>6, <1>7, <1>8, <1>9 DEF PowerNext, Kso

LEMMA UpInvUnderPower == PowerSpec => []UpInv
BY KeepsToLifecycle, UpInvHolds, PTL

LEMMA RunInvHolds == PowerSpec => []RunInv
<1>1. PowerInit => RunInv
  BY DEF PowerInit, RunInv
<1>2. UpInv /\ RunInv /\ [PowerNext]_allVars => RunInv'
  BY NextRun
<1> QED
  BY <1>1, <1>2, UpInvUnderPower, PTL DEF PowerSpec

\* bus_is_up is set only for a chip that has power and runs its firmware, or whose
\* clock was taken for ready because a read failed: neither cyw43_deinit nor a
\* bring-up that fails leaves it from an earlier chip.
THEOREM BusHasChip == PowerSpec => []BusNeedsChip
<1>1. UpInv /\ RunInv => BusNeedsChip
  BY DEF UpInv, RunInv, BusNeedsChip, Running, AfterClock
<1> QED
  BY <1>1, UpInvUnderPower, RunInvHolds, PTL

-----------------------------------------------------------------------------
(* Types.                                                                  *)

Busy == {"waking", "sleeping"}    \* act in a loop of cyw43_kso_set

HostType ==
    /\ busUp \in BOOLEAN /\ sleep \in 0 .. SleepMax
    /\ act \in Acts /\ resume \in Loops \cup {"idle"}
    /\ tries \in 0 .. KsoTries - 1 /\ kso \in BOOLEAN
    /\ act \in Busy \/ (tries = 0 /\ resume = "idle")

RestType ==
    /\ had \in BOOLEAN /\ devOn \in BOOLEAN /\ frames \in 0 .. MaxFrames
    /\ quiet \in 0 .. SleepMax /\ gaveUp \in BOOLEAN
    /\ lastRead \in {"ok", "failed", "stale"}

LEMMA Bounds ==
    /\ 0 \in 0 .. SleepMax /\ SleepMax \in 0 .. SleepMax
    /\ 0 \in 0 .. KsoTries - 1 /\ 0 \in 0 .. MaxFrames
BY BusPowerAssumption, SMT DEF BusPowerAssumption

LEMMA Steps ==
    /\ \A i \in 0 .. SleepMax : /\ i > 0 => i - 1 \in 0 .. SleepMax
                               /\ i < SleepMax => i + 1 \in 0 .. SleepMax
    /\ \A i \in 0 .. KsoTries - 1 : i + 1 < KsoTries => i + 1 \in 0 .. KsoTries - 1
    /\ \A i \in 0 .. MaxFrames : /\ i > 0 => i - 1 \in 0 .. MaxFrames
                                /\ i < MaxFrames => i + 1 \in 0 .. MaxFrames
BY BusPowerAssumption, SMT DEF BusPowerAssumption

LEMMA TypeParts == PowerTypeOK <=> HostType /\ RestType
BY DEF PowerTypeOK, HostType, RestType, Busy

LEMMA TypePartsNext == PowerTypeOK' <=> HostType' /\ RestType'
BY DEF PowerTypeOK, HostType, RestType, Busy

LEMMA WakeForType ==
    ASSUME HostType, act \notin Busy, NEW stage \in Loops, WakeFor(stage)
    PROVE  HostType'
BY Bounds, Steps DEF HostType, WakeFor, WriteKso, Busy, Acts, Loops

LEMMA LetSleepType ==
    ASSUME HostType, act \notin Busy, LetSleep, sleep' = sleep, resume' = resume
    PROVE  HostType'
BY Bounds, Steps DEF HostType, LetSleep, WriteKso, Busy, Acts

LEMMA KsoEndType ==
    ASSUME HostType, RestType, act \in Busy, KsoEnd, sleep' = sleep, kso' \in BOOLEAN
    PROVE  HostType' /\ gaveUp' \in BOOLEAN
BY Bounds, Steps DEF HostType, RestType, KsoEnd, Awake, Busy, Acts

\* Where the loop goes on after a read.
LEMMA ReceiveActs ==
    ASSUME NEW stage, Receive(stage)
    PROVE  act' = stage \/ act' = NoPacket(stage)
BY DEF Receive, ReadDone, ReadFailed

LEMMA ReceiveType ==
    ASSUME RestType, NEW stage \in Loops, Receive(stage)
    PROVE  /\ frames' \in 0 .. MaxFrames /\ had' \in BOOLEAN
           /\ lastRead' \in {"ok", "failed", "stale"}
           /\ act' \in {stage, NoPacket(stage)}
<1>1. frames \in 0 .. MaxFrames
  BY DEF RestType
<1>2. frames > 0 => frames - 1 \in 0 .. MaxFrames
  BY <1>1, BusPowerAssumption, SMT DEF BusPowerAssumption
<1>3. CASE ReadDone(stage)
  BY <1>1, <1>2, <1>3 DEF ReadDone
<1>4. CASE ReadFailed(stage)
  <2>1. frames' \in 0 .. MaxFrames
    BY <1>1, <1>2, <1>4 DEF ReadFailed
  <2>2. act' \in {stage, NoPacket(stage)}
    BY <1>4 DEF ReadFailed
  <2> QED BY <1>4, <2>1, <2>2 DEF ReadFailed
<1> QED BY <1>3, <1>4 DEF Receive

LEMMA InitPowerTypes == PowerInit => PowerTypeOK
BY Bounds DEF PowerInit, PowerTypeOK, Acts, Loops

LEMMA BeginCallType ==
    ASSUME HostType, RestType, act \notin Busy, BeginCall
    PROVE  HostType' /\ RestType'
<1>1. HostType'
  BY WakeForType DEF BeginCall, Loops
<1>2. RestType'
  BY Bounds, Steps DEF RestType, BeginCall, Used
<1> QED BY <1>1, <1>2

LEMMA CardResetType ==
    ASSUME HostType, RestType, CardReset,
           busUp' \in BOOLEAN, had' \in BOOLEAN, UNCHANGED <<sleep, lastRead, act, resume, tries, quiet>>
    PROVE  HostType' /\ RestType'
BY Bounds, Steps DEF HostType, RestType, CardReset, Busy

LEMMA SamePowerType ==
    ASSUME HostType, RestType, UNCHANGED powerVars
    PROVE  HostType' /\ RestType'
BY DEF HostType, RestType, powerVars, host, card, Busy

LEMMA NextPowerTypes ==
    ASSUME PowerTypeOK, RunInv, UpInv, [PowerNext]_allVars
    PROVE  PowerTypeOK'
<1> USE TypeParts, TypePartsNext
<1>1. CASE Restart
  BY <1>1, CardResetType, SamePowerType DEF Restart, BusInitialised, Busy
<1>2. CASE UseChip
  <2>1. act \notin Busy
    BY <1>2 DEF UseChip, Busy
  <2>2. CASE poll
    BY <1>2, <2>1, <2>2, BeginCallType DEF UseChip
  <2>3. CASE ~poll
    BY <1>2, <2>3, CardResetType DEF UseChip, host, HostType, RestType
  <2> QED BY <2>2, <2>3
<1>3. ASSUME NEW itf \in Itfs, SetUpChip(itf)
      PROVE  PowerTypeOK'
  <2>1. act \notin Busy
    BY <1>3 DEF SetUpChip, Busy
  <2>2. CASE ~poll
    BY <1>3, <2>2, CardResetType DEF SetUpChip, host, HostType, RestType
  <2>3. CASE poll
    BY <1>3, <2>1, <2>3, BeginCallType, SamePowerType DEF SetUpChip
  <2> QED BY <2>2, <2>3
<1>4. CASE BringUp
  <2>1. CASE pc' = "config"
    <3>1. BeginCall /\ act \notin Busy
      BY <1>4, <2>1, BringUpIdle DEF BringUp, Busy
    <3> QED BY <3>1, BeginCallType
  <2>2. CASE pc' # "config"
    BY <1>4, <2>2 DEF BringUp, WriteKso, host, HostType, RestType, Busy
  <2> QED BY <2>1, <2>2
<1>5. CASE Finished
  BY <1>5, Bounds, Steps DEF Finished, Used, card, HostType, RestType, Busy, Acts
<1>6. CASE KsoReached
  BY <1>6, KsoEndType DEF KsoReached, card, HostType, RestType, Busy
<1>7. CASE KsoAgain
  <2>1. act \in Busy /\ kso' \in BOOLEAN /\ UNCHANGED <<sleep, had, devOn, frames, quiet>>
    BY <1>7 DEF KsoAgain, WriteKso, HostType, Busy
  <2>2. CASE tries + 1 < KsoTries
    BY <1>7, <2>1, <2>2, Bounds, Steps DEF KsoAgain, HostType, RestType, Busy
  <2>3. CASE ~(tries + 1 < KsoTries)
    BY <1>7, <2>1, <2>3, KsoEndType DEF KsoAgain, RestType
  <2> QED BY <2>2, <2>3
<1>8. CASE Send
  <2>1. act \notin Busy /\ act \in Loops
    BY <1>8 DEF Send, Busy, Loops
  <2>2. HostType'
    BY <1>8, <2>1, WakeForType DEF Send
  <2>3. RestType'
    BY <1>8, Bounds, Steps DEF Send, Used, RestType
  <2> QED BY <2>2, <2>3
<1>9. CASE PollDevice
  <2>1. act \notin Busy /\ act \in {"call", "request", "packets"} /\ UNCHANGED <<devOn, gaveUp>>
    BY <1>9 DEF PollDevice, Busy
  <2>2. CASE busUp
    <3>1. Receive(act) /\ sleep' = SleepMax /\ quiet' = 0 /\ UNCHANGED <<busUp, resume, tries, kso>>
      BY <1>9, <2>2 DEF PollDevice, Used
    <3>2. frames' \in 0 .. MaxFrames /\ had' \in BOOLEAN /\ act' \in Loops \cup {"end"}
          /\ lastRead' \in {"ok", "failed", "stale"}
      BY <2>1, <3>1, ReceiveType DEF Loops, NoPacket
    <3> QED
      BY <2>1, <3>1, <3>2, Bounds, Steps DEF HostType, RestType, Busy, Acts
  <2>3. CASE ~busUp
    <3>1. WakeFor("reading") /\ quiet' = 0 /\ UNCHANGED <<had, lastRead, frames>>
      BY <1>9, <2>3 DEF PollDevice, Used
    <3>2. HostType'
      BY <2>1, <3>1, WakeForType DEF Loops
    <3>3. RestType'
      BY <2>1, <3>1, Bounds, Steps DEF RestType
    <3> QED BY <3>2, <3>3
  <2> QED BY <2>2, <2>3
<1>10. CASE Read
  <2>1. /\ act = "reading" /\ Receive("packets")
        /\ UNCHANGED <<busUp, sleep, resume, tries, kso, devOn, quiet, gaveUp>>
    BY <1>10 DEF Read
  <2>2. frames' \in 0 .. MaxFrames /\ had' \in BOOLEAN /\ act' \in Loops \cup {"end"}
        /\ lastRead' \in {"ok", "failed", "stale"}
    BY <2>1, ReceiveType DEF Loops, NoPacket
  <2> QED
    BY <2>1, <2>2 DEF HostType, RestType, Busy, Acts
<1>11. CASE EndCall \/ StartPoll \/ EndRequest
  <2>1. /\ act \notin Busy /\ act' \in Acts /\ UNCHANGED <<busUp, sleep, had, resume, tries>>
        /\ lastRead' = lastRead \/ lastRead' = "ok"
        /\ UNCHANGED <<kso, devOn, frames, quiet, gaveUp>>
    BY <1>11 DEF EndCall, StartPoll, EndRequest, card, Busy, Acts, Loops
  <2> QED BY <2>1 DEF HostType, RestType
<1>12. CASE Request
  <2>1. act \notin Busy
    BY <1>12 DEF Request, Busy
  <2>2. HostType'
    BY <1>12, <2>1, WakeForType DEF Request, Loops
  <2>3. RestType'
    BY <1>12, Bounds, Steps DEF Request, Used, RestType
  <2> QED BY <2>2, <2>3
<1>13. CASE EndPoll
  <2>1. act \notin Busy /\ sleep' = sleep /\ resume' = resume
    BY <1>13 DEF EndPoll, Busy
  <2>2. RestType'
    BY <1>13 DEF EndPoll, RestType
  <2>3. CASE sleep = 0
    BY <1>13, <2>1, <2>2, <2>3, LetSleepType DEF EndPoll
  <2>4. CASE sleep # 0
    BY <1>13, <2>1, <2>2, <2>4 DEF EndPoll, HostType, Busy, Acts
  <2> QED BY <2>3, <2>4
<1>14. CASE DeviceWakes \/ DeviceSleeps
  BY <1>14 DEF DeviceWakes, DeviceSleeps, host, HostType, RestType, Busy
<1>15. CASE FrameComes
  <2>1. frames' \in 0 .. MaxFrames
    <3>1. frames \in 0 .. MaxFrames
      BY DEF RestType
    <3>2. frames < MaxFrames /\ frames' = frames + 1
      BY <1>15 DEF FrameComes
    <3> QED
      BY <3>1, <3>2, BusPowerAssumption, SMT DEF BusPowerAssumption
  <2>2. UNCHANGED <<host, had, kso, devOn, quiet, gaveUp>>
    BY <1>15 DEF FrameComes, host
  <2> QED BY <2>1, <2>2 DEF host, HostType, RestType, Busy
<1>16. CASE Tick
  BY <1>16, Bounds, Steps DEF Tick, card, HostType, RestType, Busy
<1>17. CASE UNCHANGED allVars
  BY <1>17, SamePowerType DEF allVars
<1> QED
  BY <1>1, <1>2, <1>3, <1>4, <1>5, <1>6, <1>7, <1>8, <1>9, <1>10, <1>11, <1>12, <1>13,
     <1>14, <1>15, <1>16, <1>17 DEF PowerNext, Kso

\* The countdown and the tries of cyw43_kso_set stay within their bounds, and a
\* wake-up knows where to go on.
THEOREM PowerTypes == PowerSpec => []PowerTypeOK
<1>1. PowerInit => PowerTypeOK
  BY InitPowerTypes
<1>2. PowerTypeOK /\ RunInv /\ UpInv /\ [PowerNext]_allVars => PowerTypeOK'
  BY NextPowerTypes
<1> QED
  BY <1>1, <1>2, RunInvHolds, UpInvHolds, KeepsToLifecycle, PTL DEF PowerSpec

-----------------------------------------------------------------------------
(* No transfer to a chip that sleeps.                                      *)

AwakeInv ==
    /\ act \in Busy => ~busUp
    /\ act \in {"call", "request", "reading"} => busUp
    /\ busUp => Awake \/ gaveUp

LEMMA WakeForAwake ==
    ASSUME AwakeInv, act \notin Busy, NEW stage \in Loops, WakeFor(stage),
           UNCHANGED <<devOn, gaveUp>>
    PROVE  AwakeInv'
<1>1. CASE busUp
  BY <1>1 DEF WakeFor, AwakeInv, Awake, Loops, Busy
<1>2. CASE ~busUp
  <2>1. act' = "waking" /\ busUp' = busUp
    BY <1>2 DEF WakeFor
  <2> QED BY <1>2, <2>1 DEF AwakeInv
<1> QED BY <1>1, <1>2

\* A loop of cyw43_kso_set ends: the bus counts as up after a wake-up only, and
\* whether the chip is awake is then known.
LEMMA KsoEndAwake ==
    ASSUME AwakeInv, HostType, act \in Busy, KsoEnd, UNCHANGED devOn,
           kso' = kso \/ kso' = (act = "waking")
    PROVE  AwakeInv'
<1>1. CASE act = "waking"
  <2>1. busUp' = TRUE /\ act' = resume /\ gaveUp' = ~Awake
    BY <1>1 DEF KsoEnd
  <2>2. resume \notin Busy
    BY DEF HostType, Loops, Busy
  <2>3. Awake => Awake'
    BY <1>1 DEF Awake
  <2> QED BY <2>1, <2>2, <2>3 DEF AwakeInv
<1>2. CASE act = "sleeping"
  BY <1>2 DEF KsoEnd, AwakeInv, Busy
<1> QED BY <1>1, <1>2 DEF Busy

LEMMA SameAwake ==
    ASSUME AwakeInv, UNCHANGED <<busUp, kso, gaveUp>>, devOn' = devOn \/ ~kso,
           act' = act \/ (act' \in {"idle", "end", "packets"})
    PROVE  AwakeInv'
BY DEF AwakeInv, Awake, Busy

LEMMA CardResetAwake ==
    ASSUME CardReset, ~busUp', act' = "idle"
    PROVE  AwakeInv'
BY DEF AwakeInv, Busy

LEMMA NextAwake ==
    ASSUME PowerTypeOK, UpInv, RunInv, AwakeInv, [PowerNext]_allVars
    PROVE  AwakeInv'
<1>1. CASE Restart
  BY <1>1, CardResetAwake, SameAwake DEF Restart, BusInitialised, powerVars, host, card
<1>2. CASE UseChip
  <2>1. CASE poll
    BY <1>2, <2>1, WakeForAwake DEF UseChip, BeginCall, Busy, Loops
  <2>2. CASE ~poll
    <3>1. ~busUp
      BY <1>2, <2>2 DEF UseChip, Use, RunInv, Running
    <3> QED BY <1>2, <2>2, <3>1, CardResetAwake DEF UseChip, host
  <2> QED BY <2>1, <2>2
<1>3. ASSUME NEW itf \in Itfs, SetUpChip(itf)
      PROVE  AwakeInv'
  <2>1. CASE poll
    BY <1>3, <2>1, WakeForAwake, SameAwake
      DEF SetUpChip, BeginCall, Busy, Loops, powerVars, host, card
  <2>2. CASE ~poll
    <3>1. ~busUp
      BY <1>3, <2>2 DEF SetUpChip, SetUp, RunInv, Running
    <3> QED BY <1>3, <2>2, <3>1, CardResetAwake DEF SetUpChip, host
  <2> QED BY <2>1, <2>2
<1>4. CASE BringUp
  <2>1. act = "idle" /\ ~busUp
    BY <1>4, BringUpIdle
  <2>2. CASE pc' = "config"
    BY <1>4, <2>1, <2>2, WakeForAwake DEF BringUp, BeginCall, Busy, Loops
  <2>3. CASE pc' # "config"
    BY <1>4, <2>1, <2>3 DEF BringUp, host, AwakeInv, Busy
  <2> QED BY <2>2, <2>3
<1>5. CASE Finished
  BY <1>5, SameAwake DEF Finished, card
<1>6. CASE KsoReached
  BY <1>6, KsoEndAwake, TypeParts DEF KsoReached, card, Busy
<1>7. CASE KsoAgain
  <2>1. /\ act \in Busy /\ UNCHANGED devOn
        /\ (kso' = kso \/ kso' = (act = "waking"))
    BY <1>7 DEF KsoAgain, WriteKso, Busy
  <2>2. CASE tries + 1 < KsoTries
    BY <1>7, <2>1, <2>2 DEF KsoAgain, AwakeInv, Busy
  <2>3. CASE ~(tries + 1 < KsoTries)
    <3>1. HostType
      BY TypeParts
    <3>2. KsoEnd
      BY <1>7, <2>3 DEF KsoAgain
    <3> QED BY <2>1, <3>1, <3>2, KsoEndAwake
  <2> QED BY <2>2, <2>3
<1>8. CASE Send
  BY <1>8, WakeForAwake DEF Send, Busy, Loops
<1>9. CASE PollDevice
  <2>1. CASE busUp
    <3>1. Receive(act) /\ act \in {"call", "request", "packets"}
          /\ UNCHANGED <<busUp, kso, devOn, gaveUp>>
      BY <1>9, <2>1 DEF PollDevice
    <3>2. act' = act \/ act' = "end"
      BY <3>1, ReceiveActs DEF NoPacket
    <3> QED BY <3>1, <3>2, SameAwake
  <2>2. CASE ~busUp
    BY <1>9, <2>2, WakeForAwake DEF PollDevice, Busy, Loops
  <2> QED BY <2>1, <2>2
<1>10. CASE Read
  <2>1. act' \in {"packets", "end"} /\ UNCHANGED <<busUp, kso, devOn, gaveUp>>
    BY <1>10, ReceiveActs DEF Read, NoPacket
  <2> QED BY <2>1, SameAwake
<1>11. CASE EndCall \/ StartPoll \/ EndRequest
  BY <1>11, SameAwake DEF EndCall, StartPoll, EndRequest, card
<1>12. CASE Request
  BY <1>12, WakeForAwake DEF Request, Busy, Loops
<1>13. CASE EndPoll
  <2>1. CASE sleep = 0 /\ busUp
    BY <1>13, <2>1 DEF EndPoll, LetSleep, AwakeInv, Busy
  <2>2. CASE ~(sleep = 0 /\ busUp)
    BY <1>13, <2>2, SameAwake DEF EndPoll, LetSleep
  <2> QED BY <2>1, <2>2
<1>14. CASE DeviceWakes
  BY <1>14 DEF DeviceWakes, host, AwakeInv, Awake
<1>15. CASE DeviceSleeps
  BY <1>15, SameAwake DEF DeviceSleeps, host
<1>16. CASE FrameComes \/ Tick
  BY <1>16, SameAwake DEF FrameComes, Tick, host, card
<1>17. CASE UNCHANGED allVars
  BY <1>17, SameAwake DEF allVars, powerVars, host, card
<1> QED
  BY <1>1, <1>2, <1>3, <1>4, <1>5, <1>6, <1>7, <1>8, <1>9, <1>10, <1>11, <1>12, <1>13,
     <1>14, <1>15, <1>16, <1>17 DEF PowerNext, Kso

\* Nothing is sent or read before the wake-up of the bus is over, nor
\* with a chip that sleeps, unless cyw43_kso_set gave up on it.
THEOREM TransfersToTheAwake == PowerSpec => []TransfersAwake
<1>1. PowerInit => AwakeInv
  BY DEF PowerInit, AwakeInv, Busy
<1>2. PowerTypeOK /\ UpInv /\ RunInv /\ AwakeInv /\ [PowerNext]_allVars => AwakeInv'
  BY NextAwake
<1>3. AwakeInv => TransfersAwake
  BY DEF AwakeInv, TransfersAwake, Loops
<1> QED
  BY <1>1, <1>2, <1>3, PowerTypes, UpInvUnderPower, RunInvHolds, PTL DEF PowerSpec

-----------------------------------------------------------------------------
(* The countdown.  Since the bus was last used, as many ticks have passed   *)
(* as the countdown has lost.                                              *)

QuietInv == busUp \/ act = "waking" => sleep + quiet >= SleepMax

LEMMA UsedQuiet ==
    ASSUME sleep' = SleepMax, Used
    PROVE  QuietInv'
<1>1. sleep' + quiet' >= SleepMax
  BY BusPowerAssumption, SMT DEF BusPowerAssumption, Used
<1> QED BY <1>1 DEF QuietInv

LEMMA SameQuiet ==
    ASSUME QuietInv, UNCHANGED <<sleep, quiet>>,
           busUp' \/ act' = "waking" => busUp \/ act = "waking"
    PROVE  QuietInv'
BY DEF QuietInv

LEMMA TickQuiet ==
    ASSUME PowerTypeOK, QuietInv, Tick
    PROVE  QuietInv'
<1>1. sleep \in 0 .. SleepMax /\ quiet \in 0 .. SleepMax
  BY DEF PowerTypeOK
<1>2. /\ sleep' = IF sleep > 0 THEN sleep - 1 ELSE 0
      /\ quiet' = IF quiet < SleepMax THEN quiet + 1 ELSE SleepMax
  BY DEF Tick
<1>3. sleep + quiet >= SleepMax => sleep' + quiet' >= SleepMax
  BY <1>1, <1>2, BusPowerAssumption, SMT DEF BusPowerAssumption
<1> QED BY <1>3 DEF Tick, QuietInv

LEMMA NextQuiet ==
    ASSUME PowerTypeOK, UpInv, RunInv, QuietInv, [PowerNext]_allVars
    PROVE  QuietInv'
<1>1. CASE Restart
  BY <1>1, SameQuiet DEF Restart, BusInitialised, powerVars, host
<1>2. CASE UseChip
  BY <1>2, UsedQuiet, SameQuiet DEF UseChip, BeginCall, WakeFor, host
<1>3. ASSUME NEW itf \in Itfs, SetUpChip(itf)
      PROVE  QuietInv'
  BY <1>3, UsedQuiet, SameQuiet DEF SetUpChip, BeginCall, WakeFor, powerVars, host
<1>4. CASE BringUp
  BY <1>4, UsedQuiet, SameQuiet DEF BringUp, BeginCall, WakeFor, host
<1>5. CASE Finished
  BY <1>5, UsedQuiet DEF Finished
<1>6. CASE KsoReached
  <2>1. busUp' => busUp \/ act = "waking"
    BY <1>6 DEF KsoReached, KsoEnd
  <2>2. act' # "waking" \/ act = "waking"
    BY <1>6 DEF KsoReached, KsoEnd
  <2> QED BY <1>6, <2>1, <2>2, SameQuiet DEF KsoReached
<1>7. CASE KsoAgain
  <2>1. busUp' \/ act' = "waking" => busUp \/ act = "waking"
    BY <1>7 DEF KsoAgain, KsoEnd
  <2> QED BY <1>7, <2>1, SameQuiet DEF KsoAgain
<1>8. CASE Send \/ Request
  BY <1>8, UsedQuiet DEF Send, Request, WakeFor
<1>9. CASE PollDevice
  BY <1>9, UsedQuiet DEF PollDevice, WakeFor
<1>10. CASE Read \/ EndCall \/ StartPoll \/ EndRequest
  <2>1. act' # "waking" /\ UNCHANGED <<busUp, sleep, quiet>>
    BY <1>10, ReceiveActs DEF Read, NoPacket, EndCall, StartPoll, EndRequest
  <2> QED BY <2>1, SameQuiet
<1>11. CASE EndPoll
  BY <1>11, SameQuiet DEF EndPoll, LetSleep
<1>12. CASE DeviceWakes \/ DeviceSleeps \/ FrameComes
  BY <1>12, SameQuiet DEF DeviceWakes, DeviceSleeps, FrameComes, host
<1>13. CASE Tick
  BY <1>13, TickQuiet
<1>14. CASE UNCHANGED allVars
  BY <1>14, SameQuiet DEF allVars, powerVars, host
<1> QED
  BY <1>1, <1>2, <1>3, <1>4, <1>5, <1>6, <1>7, <1>8, <1>9, <1>10, <1>11, <1>12, <1>13,
     <1>14 DEF PowerNext, Kso

LEMMA SleepNeedsQuiet ==
    ASSUME PowerTypeOK, QuietInv, [PowerNext]_allVars, act = "end", act' = "sleeping"
    PROVE  quiet = SleepMax
<1>1. CASE EndPoll
  <2>1. sleep = 0 /\ busUp
    BY <1>1 DEF EndPoll, LetSleep
  <2>2. quiet \in 0 .. SleepMax /\ sleep + quiet >= SleepMax
    BY <2>1 DEF PowerTypeOK, QuietInv
  <2> QED
    BY <2>1, <2>2, BusPowerAssumption, SMT DEF BusPowerAssumption
<1>2. CASE Request
  BY <1>2 DEF Request, WakeFor
<1>3. CASE ~EndPoll /\ ~Request
  BY <1>3 DEF PowerNext, Kso, Restart, BusInitialised, UseChip, SetUpChip, BringUp, Finished,
    KsoReached, KsoAgain, Send, PollDevice, Read, EndCall, StartPoll, EndRequest,
    DeviceWakes, DeviceSleeps, FrameComes, Tick, powerVars, allVars, host, BeginCall, WakeFor
<1> QED BY <1>1, <1>2, <1>3

\* The bus is put to sleep only when the whole countdown has passed since its
\* last use.
THEOREM SleepsOnlyWhenIdle == PowerSpec => SleepsWhenIdle
<1>1. PowerInit => QuietInv
  BY DEF PowerInit, QuietInv
<1>2. PowerTypeOK /\ UpInv /\ RunInv /\ QuietInv /\ [PowerNext]_allVars => QuietInv'
  BY NextQuiet
<1>3. PowerTypeOK /\ QuietInv /\ [PowerNext]_allVars
        => [act = "end" /\ act' = "sleeping" => quiet = SleepMax]_allVars
  BY SleepNeedsQuiet
<1> QED
  BY <1>1, <1>2, <1>3, PowerTypes, UpInvUnderPower, RunInvHolds, PTL
    DEF PowerSpec, SleepsWhenIdle
=============================================================================
