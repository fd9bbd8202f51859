# TLA+ models of the cyw43 driver

This directory specifies the parts of the CYW43 Wi-Fi driver whose behaviour
depends on order, timing and failure, checks them with TLC on small instances,
and proves the most important results with TLAPS for every instance. Paths
below are relative to the root of the repository.

## The system

| Component | State | Operations | Where |
|---|---|---|---|
| SDPCM transport | sequence number, bus credit, flow control, ioctl id, `had_successful_packet`, `spid_buf` | `send_common`, `poll_device`, `process_rx_packet`, `send_ioctl`, `do_ioctl`, `send_ethernet`, `process_packets` | `src/cyw43_ll.c` |
| Joining and link status | `wifi_join_state`, `pend_*`, state of the netifs | `cb_process_async_event`, `poll_func`, `wifi_join`, `wifi_leave`, `link_status` | `src/cyw43_ctrl.c`, `src/cyw43_ll.c` |
| Life cycle | `cyw43_poll`, `itf_state`, netifs, chip power | `cyw43_init`, `deinit`, `ensure_up`, `ll_bus_init`, `wifi_set_up` | `src/cyw43_ctrl.c`, `src/cyw43_ll.c` |
| Backplane | `cur_backplane_window`, the chip's window register, core resets, downloads | `set_backplane_window`, `read/write_backplane`, `download_resource`, `reset_device_core` | `src/cyw43_ll.c` |
| Bus power | `bus_is_up`, `cyw43_sleep`, the chip's KSO bit | `bus_sleep`, `kso_set`, `cb_ensure_awake` | `src/cyw43_ll.c`, `src/cyw43_ctrl.c` |
| Scanning | `wifi_scan_state`, callback and environment | `wifi_scan`, ESCAN_RESULT events, parsing of results | `src/cyw43_ctrl.c`, `src/cyw43_ll.c` |
| Configuration ioctls | settings in the chip, regulatory data | `clm_load`, `wifi_on`, `wifi_pm`, `wifi_get_pm` | `src/cyw43_ll.c`, `src/cyw43_ctrl.c`, `src/cyw43.h` |
| Access point | `ap_ssid`, `ap_auth`, `ap_key`, `ap_channel`, settings in the chip | `wifi_set_up`, `wifi_ap_init`, `wifi_ap_get_stas`, `deinit` | `src/cyw43_ctrl.c`, `src/cyw43_ll.c` |
| gSPI over PIO | PIO program, FIFOs, IRQ flag | `Transmit`, `Receive`, `Read`, `Write` | `src/gspi.adb`, `src/gspi.pio` |
| Ada port | the loops that probe and test the chip | `Initialize` | `src/cyw43.adb`, `src/cyw43-port.adb` |

How they interact. Everything above the bus is synchronous and runs in one
thread: a public call takes the (empty) lock, calls `ensure_up`, and runs one
or more ioctls. An ioctl sends a frame through the SDPCM transport and polls
for its reply; whatever else the poll finds is handled on the spot: an event
goes up to `cyw43_cb_process_async_event`, an Ethernet frame up to the network
stack, which may send frames from inside that upcall. So the concurrency is
between the driver and the chip, and between the driver and itself: callbacks
nest in loops. Events leave requests (`pend_*`) that the next run of
`cyw43_poll_func` turns into ioctls, inside which further events arrive.

What is hard: 8-bit numbers compared for equality only; replies that arrive
after their ioctl timed out; one buffer for sending and receiving; reads of the bus
whose results nobody looks at; events
handled in the middle of the call that they concern; flags that outlive the
connection they belong to; initialisation that fails half way and is tried
again on cached state; settings made by long series of ioctls whose results
nobody looks at; a bus that falls asleep and a chip that wakes up when it likes;
and, below gSPI, two processors that meet in one flag. `PROJECT.json` lists these hazards with their lines.

## Modules

`Sdpcm` is the transport with the chip as its environment. `pc` is the loop
the driver is in: `stall` (the stall loop of `send_common`), `loop` (the loop
of `do_ioctl` or of `process_packets`, told apart by `call`), `upcall` (inside
the network stack) and `upcallStall` (a stall loop nested in an upcall). One
action is one iteration of a loop, with everything the iteration does: reading
a frame and updating flow control and credit, handling an event, leaving the
loop or transmitting. `spidBuf` remembers what the payload of the one buffer
holds: a request, a packet, or what was received last. The chip keeps a FIFO of
frames, each stamped with a credit and a flow control bit when it is queued; it
never takes a credit back and never grants more than `Window` frames ahead. It
answers the ioctl requests it received, in any order and at any later time. A
frame can be damaged on its way, a reply too, and then its credit is lost.

`PollDevice` is the variant of `poll_device` that is compiled, over SDIO. It looks at the
result of neither of its two reads (`src/cyw43_ll.c:968`, `987`), and its header is an
uninitialised local variable. So each call may see what is there (`Sees(FALSE)`) or, when a read
failed, any frame that the header of an earlier call and the bytes of `spid_buf` can make up
(`Sees(TRUE)`, the constant `Leftovers`): the driver's own frame, one that was read before, or
bytes of several; and the chip's frame may be gone or not. `chipGot`, `missed`, `unhandled`,
`readFailed` (the last read of this call failed) and `misled` (a failed read has changed the
credit) are history variables of the properties: a failed read can break each of the credit
and reply properties, so they say exactly when they hold.

`CreditWindow` is what bus credits promise, with plain counters; `Sdpcm` with
`usable <- credit - seq`, `promised <- granted - credit`, `astray <- misled` implements it:
once a failed read has changed the credit nothing is promised any more.

`WifiJoin` is the join state machine. `join` is `wifi_join_state` (a kind and
a set of flags), `pend` the set of raised `pend_*` flags, `netifUp` what the
network stack was told. `pc` names the stage of a call: one per ioctl that
matters (`disassoc`, `wpa`, `rejoin` of a poll, in the order in which
`poll_func` tests the flags; `joinConfig`, `joinSsid` of a join; `leave`). In
each stage but `idle` the driver may handle any number of queued events
(`TakeEvent`), because each ioctl polls. The chip may carry out the command of
an ioctl or never receive it, since the driver ignores the difference; that holds for
the ioctl that sets the WPA mode too (`mode` is then `"lost"`). The chip
authenticates, associates and renews keys, loses the link and starts again, and
reports each of these; its order of events is an assumption about the firmware,
which is not part of the repository.

`LinkStatus` is what the application may rely on of
`cyw43_wifi_link_status` and of the state of the STA interface; `WifiJoin`
implements it.

`Backplane` has the window through which the host reaches the chip's address
space: three address bytes in the chip, and the driver's copy, which decides
which of them a new window needs written. `Lifecycle` brings the chip up and
shuts it down. `pc` is the part of `cyw43_ll_bus_init` under way, `n` the
accesses or 16 KB blocks done in it; an `Access` sets the window, transfers and
restores the window to CHIPCOMMON as `cyw43_read_backplane` and
`cyw43_write_backplane` do, a `Block` leaves the window where it is as
`cyw43_download_resource` does. Any window write may be lost without the
driver's notice, any block may fail (`bus_init` ignores that), and each of the
three waits may time out or end by a read that fails (`GiveUp`, `ReadFails`: a
negative error code has the bit that is tested for set); giving up returns from `cyw43_ensure_up` with
everything left as it is; one wait stands for all early returns before the first
backplane access. `CywInit`, `CywDeinit`, `Use` (any public call that
starts with `ensure_up`) and `SetUp` may come whenever no call is in progress.
That the chip's HT clock comes only if firmware, parameters and the release of
the core have reached it (`Booted`) is the one assumption about the chip, along with its
window register being zero after a reset. `strays` and `broken` are history
variables: what did not reach its window in this power cycle; `guessed` is set
when a failed read ended the wait for that clock.

`BusPower` extends `Lifecycle` by the sleep of the bus, so that power cycles, failed
bring-ups and sleep meet. `busUp`, `sleep` and `had` are `bus_is_up`, `cyw43_sleep`
and `had_successful_packet`; `act` is the loop the driver is in: an ioctl or a
send (`call`), `process_packets` of a poll (`packets`), the requests of a poll
(`request`), and the two loops of `cyw43_kso_set` (`waking`, `sleeping`), after which
`resume` goes on. The chip has the KEEP_SDIO_ON and DEVICE_ON bits and frames that
hold its interrupt pin. Each write of the register may be lost, and any read of a frame may
fail, which leaves the header of the last packet where it was (`lastRead`); the chip wakes
up and falls asleep at its own speed. Only `poll_func` lets the bus sleep; transfers
and the end of a bring-up wake it.

`WifiScan` is the scan: `scanState` is `wifi_scan_state`, `scan` numbers the scans so
that the properties can tell whose results a callback gets, `pc` is the call in
progress. `Handle` handles one event of the queue inside any call. `ScanResult` is
the loop that finds the security of a network in the bytes of a scan result, and
beside it what security a network has (`Truth`). A network is a list of elements, each
a string of bytes, the last of which may be cut off (`IsNetwork`). The loop compares four bytes
of a vendor-specific element without looking at its length (`src/cyw43_ll.c:549`), so a
shorter one is compared with what follows it, be it the next elements or what lies behind the
last (`behind`). `Misread` says when this makes up a WPA that is not there, and `Told` is the
security that the driver tells: the true one, and this.

`Settings` is every call that is a series of ioctls. A call is turned into its list
of requests `todo`; `Done` and `Fail` take the first of them, and `NextRequests` adds
those that depend on what was read (`cyw43_ll_wifi_ap_init` after it has read the
state of the AP) or on a loop (`cyw43_clm_load`). `SetAp` notes one field for the AP, as the
setters do; `Deinit` runs `cyw43_init` again, which empties name and key and goes back to
channel 3 but keeps the security (`InitAp`). An ioctl that fails may have been
carried out or not, or may be refused without the driver's notice; a get that
failed leaves `Junk`. `PmValue` is the word of `cyw43_wifi_pm`. What each ioctl is made
of is `Sdpcm`; how the chip is powered is `Lifecycle`; here a bring-up is its last part.

`Gspi` has two processes. The CPU goes through the stages of a Read or Write (a
script: select, command, data, status, deselect) and, in a stage, through the steps of
`Transmit` or `Receive`, each of which is one access of the PIO. The state machine
(SM) runs one of the two programs of `gspi.pio`, a word at a time; its FIFOs hold
four words. `client` goes through the loops of `Initialize` of `cyw43.adb`, after which
anything may be asked. The chip boots late and may miss a write.

`MCSdpcm`, `MCWifiScan` and `MCSettings` hold the small instances; the other modules
need none. `SdpcmProofs`, `LifecycleProofs`, `BusPowerProofs`, `WifiJoinProofs`, `GspiProofs`,
`WifiScanProofs`, `SettingsProofs` and `PmProofs` hold the proofs.

Operators whose comment says "Mutated form" are not used by the
specifications: each is a plausible bug of the definition that follows it, and
`PROJECT.json` ("mutants") names the property that it breaks.

## Runs

| Run | Expected | Properties | What it shows |
|---|---|---|---|
| `sdpcm_credit` | pass | `TypeOK`, `WithinGrant`, `AcceptsEveryGrant`, `CreditsSpec` | The wrapping sequence number and credit never run past what the chip granted, no grant is refused, and they implement plain counting of credits; sequence numbers modulo 4, a window of 2, frames lost with their credit, and reads that fail and leave any credit behind. |
| `sdpcm_calls` | pass | `ReplyNeedsRequest`, `ReplyNotLost`, `EventsHandled`, `SentIfOk` | An ioctl whose last read worked succeeds only for a request the chip received, its reply is not lost, an event that is read well is handed on by each of the three loops, a send that returns 0 wrote a frame; late replies, timeouts, damaged frames and failed reads included. |
| `sdpcm_return` | pass | `CallsReturn` | Sends and ioctls end under any behaviour of the chip, with frames small, unknown and damaged, with failed reads, with flow control and with a network stack that sends from its upcall. |
| `sdpcm_sent_as_passed` | violation | `SentAsPassed` | A frame composed in spid_buf is overwritten by what the stall loop reads, and cyw43_ll_send_ethernet returns 0. |
| `join_events` | pass | `TypeOK`, `ApLinkTold`, `RejoinUsesWpa`, `LinkSpec`, `UpNeedsAll`, `RequestsServed` | Under every interleaving of events, polls, joins and leaves: a rejoin after an RSN mismatch uses WPA unless the chip never received the request for it, each report of the STA as up is earned by events of its own since the last join or rejoin, the AP's link is told, what the application sees implements LinkStatus, and every request is sent in the end although the ioctls of other requests raise new ones. |
| `join_up_means_linked` | violation | `UpMeansLinked` | The LINK flag of a lost link is still set when the chip authenticates again, and the STA is reported up with no link. |
| `join_keyed_means_up` | violation | `KeyedMeansUp` | Events handled inside the ioctl of a join are overwritten when the join returns, and the connected STA is never reported up. |
| `life_bringup` | pass | `TypeOK`, `AccessesLand`, `InterfacesMatch`, `UpMeansBooted` | Whatever fails in a bring-up, and however the application then calls, initialises or shuts down: backplane accesses land where they are meant to (from the firmware on even in a retry), the driver counts as up only with a booted chip or after a failed read that passed for the HT clock, and interface state, TCP/IP stack and chip agree. |
| `bus_power` | pass | `PowerTypeOK`, `TransfersAwake`, `BusNeedsChip`, `SleepsWhenIdle`, `FramesRead`, `LoopsEnd` | Sleeping, waking, polls, calls, failed bring-ups and power cycles, with register writes that get lost and a chip that wakes up when it likes: transfers go only to a chip that is awake unless a wake-up was given up, bus_is_up outlives no chip, the bus sleeps only after the whole countdown, polls and calls end unless failing reads leave the header of an old packet in place again and again, and a frame that waits is read unless reads fail for ever. |
| `gspi_transfers` | pass | `TypeOK`, `TransfersExact`, `ClockedOnlySelected`, `CallsEnd`, `Initializes` | CPU and state machine at any relative speed: every word of a transfer crosses the wire once and in order while CS is low, every Read and Write ends, and so does Initialize. |
| `scan_results` | pass | `TypeOK`, `ResultsTrue`, `ActiveIsTrue`, `ScanEnds` | Scans that may overlap, events handled inside any call, lost and refused requests, damaged events: a scan that starts with nothing outstanding gives its callback exactly its own results with the right security (a WPA that is misread behind a short vendor element excepted), cyw43_wifi_scan_active tells the truth to an application that waits for it, and a scan ends unless the chip or the bus lost its end. An ASSUME checks the parser against the security of all networks of up to three elements, short vendor elements included. |
| `settings` | pass | `TypeOK`, `ClmWhole`, `BaselineHolds`, `ApAsConfigured`, `AnswersRight`, `ApLeftAlone` | Configuration calls in any order, with an ioctl that goes wrong at any place: the regulatory data arrives once and in order, an open interface means a configured chip but for the settings that were missed, the AP comes up as it is configured now and is left alone while it runs, power management values come back, and the calls that tell a value tell what the chip has if none of their ioctls went wrong. |

### Bounds

`SeqMod`, `IdMod`, the timeouts and the windows are constants, because every
property is about wrapping and comparing, which small moduli show as well:
with `SeqMod = 4` and a window of 2 the sequence number wraps every four
frames, and every relation of sequence number, credit and grant that 256 and 20
allow occurs. The theorems hold for all values with `Window <= CreditJump <
SeqMod`. Time is counted in ticks that may come between any two steps, so a
limit of one tick already gives every order of an answer and a timeout.
`QueueMax` bounds the frames or events the chip holds; two of them are enough
for a stale reply in front of a fresh one, and in `WifiJoin` the chip starts a
report only below the bound while commands add theirs beyond it, so three events
queue up with `QueueMax = 1`. An ioctl's id is not used again while a reply with
that id is outstanding (65536 ioctls later in the code).

`sdpcm_credit` is about credits, so its timeouts are 0, no frame stalls the driver by its flow
control bit, and a failed read may leave any credit behind; a driver that a failed read has misled is not followed further (`CONSTRAINT NotMisled`),
because both properties and the specification end there. `sdpcm_calls` has the ids, the timeouts
and every leftover that the loops tell apart; flow control, which adds only another reason to stall, is left to `sdpcm_return`, whose question is whether the stall ends.

`life_bringup` has the real sizes (24 blocks of the SDIO firmware, 32 of RAM); `MaxFaults` bounds
the lost writes of one bring-up, and two of them can hide and reveal each other.
`BusPower` takes one block of firmware and two of RAM, since sizes matter to
`Lifecycle` only, a countdown of two, so that it can be interrupted in its middle,
two reads of the register, of which either can be the one that matches, and two frames, so
that one can be read while another waits. `MaxFaults` is 0: the window is the subject of
`life_bringup`, and what `BusPower` adds loses its own writes and reads without this bound. `WifiScan` has three scans, because the
stale end of one can end the next only if a third shows what that does, two
results in a queue of two, and networks whose elements tell all branches of the
parser apart; beyond that an ASSUME of `MCWifiScan` compares the parser with `Told`
for all lists of up to three elements, cut off anywhere. `Settings` downloads four
bytes in chunks of two, the case in which the data ends with a full chunk; two
AP configurations whose fields are set one by one give every mixture of both and the
defaults; one ioctl goes wrong at any place between two
power cycles. `Gspi` writes up to six words, so that FIFO and shift register (four
and one) are full while another word waits, and reads up to two.

### Fairness

`Sdpcm!FairSpec` asks that loops iterate, that the clock ticks, and that the
network stack returns from an upcall after a finite number of sends. Nothing is
asked of the chip. `process_packets` is left out of `CallsReturn`: it has no
timeout and runs as long as the chip has packets. `WifiJoin!FairSpec` asks that
`poll_func` is called again and again and that the ioctls of a call end, which is
`CallsReturn`. The driver relies on the former: it hands `cyw43_poll_func` to
`cyw43_schedule_internal_poll_dispatch` and to whoever calls `cyw43_poll`. In this
port the first is a stub (`src/cyw43-port.adb:98`), so the application has to.
`WifiScan!FairSpec` asks for the same and that the chip comes to the end of a scan.
`BusPower!PowerFairSpec` asks that polls come, that the loops of the driver go on, and that
a chip with KEEP_SDIO_ON set wakes up some time, which the comment at
`src/cyw43_ll.c:1275` relies on; strong fairness of `EndPoll` says that a poll does not
send requests for ever, which `WifiJoin` shows for three flags. It does not ask
that register writes get through. `Gspi!FairSpec` asks that the CPU and the SM run and
that the chip boots.

## Findings

The runs with `expect: violation` each refute one statement of a comment or of
the API documentation; `PROJECT.json` quotes the line.

- `SentAsPassed` (`src/cyw43_ll.c:657`): cyw43_ll_send_ethernet composes the frame in spid_buf and passes spid_buf to send_common, whose stall loop calls poll_device, which reads the next frame into the same spid_buf (cyw43_ll.c:987); after the stall the received bytes are sent and 0 is returned. src/cyw43.h:168 says "This method sends a raw ethernet packet." and cyw43.h:173 "buf the data to send", cyw43.h:175 "return 0 on success".
- `UpMeansLinked` (`src/cyw43_ctrl.c:390`): LINK down does not clear WIFI_JOIN_STATE_LINK (and a renewed key sets KEYED while connected): when AUTH is the last of the three flags to come, the test for ALL reports the STA up although the chip has only authenticated. cyw43_ctrl.c:408 says of that branch "// STA connected".
- `KeyedMeansUp` (`src/cyw43_ctrl.c:612`): wifi_join_state is set to ACTIVE after the ioctls of the join, which handle events: AUTH, LINK and PSK_SUP events handled inside the last ioctl (its own reply may be dropped by a nested stall or time out) are overwritten, so the STA is never reported up. cyw43_ctrl.c:610 says "// Wait for responses: EV_AUTH, EV_LINK, EV_SET_SSID, EV_PSK_SUP".

Noticed while modelling, plain to see in the code, and not the subject of a run:

- `cyw43_ll_wifi_join` returns -1 for open security (`src/cyw43_ll.c:2018`, `JoinRefused`),
  though the header has `CYW43_AUTH_OPEN`.
- `cyw43_wifi_link_status` is `CYW43_LINK_JOIN` ("Connected to wifi", `src/cyw43.h:222`)
  from the moment a join is sent.
- `cyw43_deinit` of a driver whose bring-up failed returns at once
  (`src/cyw43_ctrl.c:116`) and leaves the chip powered.
- `cyw43_do_ioctl` ignores the result of `cyw43_send_ioctl` (`src/cyw43_ll.c:1174`): an ioctl
  too long for the buffer is never sent, and the late reply of the ioctl before,
  whose id it still waits for, makes it return 0.
- `cyw43_wifi_leave` does not clear `pend_rejoin` (`src/cyw43_ctrl.c:627`), so a PRUNE handled
  before it makes a later poll join again.
- After a bring-up that failed in its last waits, the copy of the window
  is stale (`src/cyw43_ll.c:317`): the core resets and the SRAM_3 remap of the
  retry go to other addresses. The firmware and what follows land all the same
  (`BringUpsLand`).
- A wake-up of the bus whose writes were all lost is not repeated while the chip has
  frames: `bus_is_up` is set (`src/cyw43_ll.c:1355`), and every poll starts the countdown
  again, so the bus is never put to sleep and woken afresh (`WakeLost` in `FramesRead`).
- A scan that ends with a status other than 0, or whose request fails, stays active
  for ever (`src/cyw43_ctrl.c:325`); `ScanEnds` and `ActiveIsTrue` name these cases.
- `Transmit` clears IRQ 0 before each `Put` (`src/gspi.adb:99`). If it is interrupted
  between the two, the state machine runs dry and sets the flag, and the loop at the end takes
  it for the end of the transfer: the last words of a transfer of several are dropped.
  `cyw43.adb` writes single words, of which none is (`TransfersExact`).
- `This.State` of `gspi.ads` is never assigned, so every transfer loads its program anew;
  the mutant `BeginTracked` shows that this is needed.
- `poll_device` ignores the results of both its reads (`src/cyw43_ll.c:968`, `987`), and
  `cyw43_do_ioctl` that its request was not sent (`src/cyw43_ll.c:1174`). The request is then
  still in `spid_buf`, with the current id: if the header of some frame is read and the read
  of its payload fails, it is taken for its own reply, and the ioctl returns 0 though the
  chip never received it. `ReplyNeedsRequest` excepts this, and `WithinGrant` a credit that is believed the same way.
- The wait for the HT clock tests a bit of what `cyw43_read_reg_u8` returns
  (`src/cyw43_ll.c:1651`), and a negative error code has it set: a read that fails ends
  the wait, and `cyw43_poll` can be set for a chip that never booted (`guessed` in `UpMeansBooted`).
- `cyw43_wifi_get_pm` returns 0 whatever its gets came to (`src/cyw43_ll.c:1804`), and then tells
  what was left in `spid_buf`; `AnswersRight` speaks only of calls whose ioctls went well.
- The periods of `cyw43_pm_value` are bytes whose place in the word has four bits
  (`src/cyw43.h:563`); one of 16 or more spills into the next field, and a listen interval is cut
  (`LongIntervalLost` of `PmProofs`). The documentation names no limit.
- `cyw43_deinit` calls `cyw43_init` to "make sure all state is reset" (`src/cyw43_ctrl.c:133`), which
  does not touch `ap_auth`: the security of the AP outlives it (`InitAp`).
- A failed read can keep `process_packets` going on the header of the packet before
  (`src/cyw43_ll.c:967`), which `LoopsEnd` and `FramesRead` except.
- A vendor-specific element of fewer than four bytes is compared with what follows it
  (`src/cyw43_ll.c:549`), so an open network can be listed as WPA (`Misread`).
- `Initialize` passes its own `State` to `cyw43_init` (`src/cyw43.adb:64`), while
  `cyw43_poll_func` works on the global `cyw43_state`.

## Proofs

`SdpcmProofs` proves, for every value of the constants that satisfies
`SdpcmAssumption`:

- `TypeCorrect`: `TypeOK` is inductive by itself.
- `CreditSafe`, `GrantsAccepted`, `CreditsRefined`, as long as no failed read has changed
  the credit (`misled`). `WithinGrant` relates three
  numbers, but a credit reaches the driver through the queue, so the inductive
  invariant `CreditInv` orders the whole chain: sequence number, credit, the
  credits of the queued frames in their order, and the chip's grant lie in this
  order within one window when measured ahead of the sequence number. Reading a
  frame then moves the credit forward by at most the window, which the test
  `credit <= 20` accepts (`GrantsAccepted`), and transmitting moves the origin by
  one, which keeps the chain because the driver transmits only when its credit
  differs from its sequence number. The refinement follows step by step.
- `RepliesAreAnswers`, `RepliesAreKept`: `ReplyInv` says that the current id is
  outstanding only if the request of this call was received intact, and that it
  is outstanding if it was and its reply has neither been read nor damaged. An ioctl whose
  last read failed is excepted from the first, for it may have taken leftovers for the reply;
  a reply that was damaged, taken by a failed read or dropped in a stall from the second.
- `SendsReachTheChip`: from `TypeOK` and the actions that set the result.
- `EventsReachTheDriver`: `EventsHandled` compares two numbers of events with the number of
  positions of the queue that hold one, so its steps are lemmas on the cardinality of that
  set of positions: appending adds one or none (`EventsAppend`), and removing the head
  shifts the others by a bijection (`EventsTail`).

`LifecycleProofs` proves, for every size of the firmware and the RAM within
`LifecycleAssumption`:

- `LifecycleTypes`: `TypeOK` is inductive by itself.
- `BringUpsLand`: as long as no write is lost, the
  copy of the window equals the chip's register or is in one particular
  state, `Stale`: the copy is CHIPCOMMON, the register zero, and no RAM has been
  addressed in this bring-up. `WindowInv` is that disjunction together with
  what the copy can be between bring-ups. In the stale state an access leaves
  the register at zero again (`StaleAccess`), since only the middle byte is ever
  written; the first block of the firmware needs the high byte, which ends
  the state (`StaleBlock`). In the first bring-up the state cannot arise.
- `UpIsBooted`, `InterfacesAgree`: `UpInv` adds that a bring-up runs only while
  `cyw43_poll` is not set and no interface is open, and that past the wait for the
  clock nothing touches what booting needed.


`PmProofs` proves the packing of power management values: fields that fit come out as they
went in (`FieldsKept`), such fields with a documented sleep time are within the limits
(`FittingKept`), a listen interval of 16 or more is cut to its remainder (`LongIntervalLost`),
and a value given back is given back again (`GivenBackSettles`). The proofs are arithmetic, one
field after the other.

`BusPowerProofs` proves, for every number of retries and length of the countdown within
`BusPowerAssumption`:

- `KeepsToLifecycle`: each step of `BusPower` is one of `Lifecycle` or leaves its variables
  alone, so the theorems of `LifecycleProofs` hold under `PowerSpec` too.
- `BusHasChip`: `RunInv` adds that a poll, a call or an access to the sleep register
  happens only while the driver runs; it needs `UpInv` of `LifecycleProofs` for the bring-ups.
- `PowerTypes`: `PowerTypeOK` is inductive when split into the driver's and the chip's part.
- `TransfersToTheAwake`: `AwakeInv`, a bus that is up has a chip that is awake unless a
  wake-up was given up, and a loop of `cyw43_kso_set` runs only with the bus down.
- `SleepsOnlyWhenIdle`: `QuietInv`, while the bus is up the countdown and the idle time sum
  to at least the whole countdown; every use of the bus restores the countdown.

`WifiJoinProofs` proves, for every length of the queue of events:

- `JoinTypes`: `TypeOK` is inductive by itself.
- `ReportsAreEarned`: `FlagsInv`, the flags of the join state are among those whose events were
  handled since the last join or rejoin was sent and since the STA was last reported up: both
  empty the set of what was heard.
- `RejoinsUseWpa`: `ModeInv`, from the mismatch on WPA is requested or set until the
  configuration of a new join sets the mode again, or the chip never received the request.
- `ApLinkIsTold`: the property speaks of an empty queue only, so `ApInv` follows the last event
  of the AP in the queue: it tells what the AP is, and without one the stack knows already.
- `JoinImplementsLink`: each action maps to a step of `LinkStatus` or to a stutter.

`GspiProofs` proves, for every number of words written and read within
`GspiAssumption`. The invariant `PortInv` has these parts:

- `ShapeInv`, `SelectInv`, `HandInv`: at which step each process can be while the other is where it
  is. Between transfers the SM is blocked with the flag raised, or has no program yet;
  this is what lets the CPU start the next one without a race.
- `QueueInv`, `LineInv`: while the CPU sends, the words put so far are those on the wire, then the one
  in the shift register, then those in the FIFO, in order.
- `GetInv`, `DataInv`: while it receives, the words taken and the one in the FIFO are those that the
  chip drove, and the SM shifts in no more than the CPU asked for.

`PortTypes`, `ClocksOnlySelected` and `TransfersAreExact` follow.

`WifiScanProofs` proves, for every set of networks, number of scans, results and damaged events:

- `ScanTypes`: `TypeOK` is inductive by itself.
- `ActiveMeansScanning`: `ScanInv`, as long as no scan was begun over another, a scan that is not
  active has left no event on the way, and a success is the last event of all. An abort leaves the
  state at 1 and is excepted by the property itself.
- `SecurityFound`: for every network the loop of `cyw43_ll_wifi_parse_scan_result` computes
  `Told`, which is `Truth` unless a short element is misread. That the recursive functions for the walk and for the joined bytes exist is proved
  first (`WalkIs`, from explicit paths; `JoinedExists`, by `SetInduction` on partial
  functions). `Layout` then says at which offset of the bytes each element lies; the walk stops
  exactly at these offsets, and at the header of a last one that was cut off (`WalkLayout`), and what
  it finds whole there are the elements that are `Present` (`WholeLayout`). The four bytes that
  are compared are an element's own if it is long enough (`LongElement`), and are those that
  `Misread` speaks of otherwise.
- `ResultsAreTrue`: for a scan that the property speaks of, `ResultsInv` says that the
  first `n` results that the chip heard were handled, that the callback was given
  the valid ones among them in their order (`GivenUpTo`), and that the queue holds the others in
  order and, if the scan has ended, the success behind them (`Coming`). `Valid` counts the
  valid ones, so a result that is handled goes to the next place of `given`.

`SettingsProofs` proves, for every size of the regulatory data and of a chunk, every set of access points,
power management words and bounds within `SettingsAssumption`. That asks of `Unset` and `Junk` that
they are not numbers, so that what was never set is not taken for a setting. The lemmas on `Asked`, the requests of a series, let the proofs speak
of what a call has yet to ask for without its order; `EndsIn` and `GoEnds` say what comes last where that matters.

- `SettingsTypes`: `TypesInv` adds to `TypeOK` that every request to come is one that the driver has.
- `ClmSentOnce`: `Covers` says that the chunks the chip has received reach up to an offset
  without gap or overlap; `CoversMore` and `CoversWhole` add a chunk. `ClmInv` says that the
  driver is off, or past the download, or about to send the chunk at that offset, which is
  always the first of the requests that are left (`Loads`); no call but a bring-up puts one
  there (`RequestsOther`).
- `OpenMeansConfigured`: `BaselineInv`, what an open interface relies on is in the chip or, until the
  first interface counts as open, among the requests to come; and none of those sets it to
  anything else. A bring-up configures what must outlive the closing of the last interface.
- `OpenedAsConfigured`, `RunningApKept`: `ApInv` has the stages of a call with respect to the AP:
  its state has yet to be read, it is being configured (each setting is right in the chip or will be
  set), it is being closed, or nothing to come touches it. A call that reads that the AP is
  up configures nothing, which is what leaves a running AP alone.
- `AnswersAreRight`: `PmInv`, the chip's power management settings are those of the word last sent or will
  be; `ReadInv` and `CountInv`, a call that tells a value reads it last, and the list of stations
  only once their greatest number is known. Nothing is said of a call whose get failed:
  it tells leftovers.


Every invariant and every action property of the passing runs is stated by a theorem that
`PROJECT.json` lists. Only model-checked are the liveness properties `CallsReturn`,
`RequestsServed`, `ScanEnds`, `CallsEnd`, `Initializes`, `FramesRead` and `LoopsEnd`: liveness
under fairness and ENABLED are out of the prover's reach. No module has RECURSIVE operators. The
library's induction theorems cannot be used, as they take an operator as a parameter; where a
proof needs induction over data it is made over a set (`SetInduction` of `WifiScanProofs`,
from the least element of the numbers that are not in the set).

## Plan

The plan of the project, in the order in which it was carried out:

1. `Sdpcm`, `CreditWindow`, `SdpcmProofs`.
2. `WifiJoin`, `LinkStatus`, `WifiJoinProofs`.
3. `Backplane`, `Lifecycle`, `LifecycleProofs`.
4. `Gspi`, `GspiProofs`: CPU and PIO state machine with FIFOs and the IRQ flag.
5. `ScanResult`, `WifiScan`, `WifiScanProofs`: scan state, callback and environment, a scan inside a scan.
6. `PmValue`, `PmProofs`, `Settings`, `SettingsProofs`: the series of ioctls, the AP.
7. `BusPower`, `BusPowerProofs`: sleep and wake-up of the bus, over `Lifecycle`.

To come: the accesses to the core wrappers with what they do to the cores, and what a scan
promises its caller as a specification of its own that `WifiScan` implements.

## Not modelled

- Firmware blobs, `nvram` tables and generated bindings: data.
- `cyw43_stats.*`: counters for printing. `src/sbrk.c`: boilerplate.
- `src/cyw43-port.adb`: stubs, delays and pins without state of their own.
- What the accesses of the core wrappers do to the cores of the chip, and how the version
  string is searched for in the firmware (that it may not be found is `NoVersion`).
- Code that this build does not compile: the gSPI variant of the bus in `cyw43_ll.c`
  (`CYW43_USE_SPI` is 0) with its `poll_device`, GPIO (`CYW43_GPIO` is 0),
  `CLEAR_SDIO_INT`, the hooks, and the branches for an OTP MAC address with
  `cyw43_ll_wifi_get_mac`, which nothing else calls. `cyw43_wifi_get_mac` reads the HAL and
  needs no model.
