-------------------------------- MODULE Sdpcm --------------------------------
(***************************************************************************)
(* The SDPCM transport of cyw43_ll.c: one driver thread that sends ioctls  *)
(* and Ethernet frames under the chip's bus credits and flow control,      *)
(* reads the chip's frames through the single buffer spid_buf, and waits   *)
(* for ioctl replies; and the chip, which queues frames, grants credits    *)
(* and answers ioctls in its own time.                                     *)
(*                                                                         *)
(* The driver is synchronous: a public call runs to its end, polling the   *)
(* chip in two loops (the stall loop of cyw43_sdpcm_send_common, the reply *)
(* loop of cyw43_do_ioctl) and making upcalls.  pc says where it is, and   *)
(* one action is one iteration of a loop.                                  *)
(***************************************************************************)
EXTENDS Integers, Sequences, FiniteSets

CONSTANTS
    SeqMod,        \* values of the 8-bit sequence number and credit (256)
    IdMod,         \* values of the 16-bit ioctl id (65536)
    CreditJump,    \* largest advance of the credit that is believed (20)
    IoctlTimeout,  \* CYW43_IOCTL_TIMEOUT_US, in ticks of Tick
    StallTimeout,  \* the 1000000 us of the stall loop, in ticks of Tick
    Window,        \* the chip grants at most this many frames ahead
    QueueMax,      \* bound: frames the chip holds for the host
    ChipShapes,    \* bound: the unsolicited frames the chip makes
    FlowBits,      \* bound: the flow control bits the chip sets
    Leftovers      \* bound: the frames that a failed read may leave behind

\* Every way process_rx can classify a frame; "damaged" fails the length
\* check of poll_device itself.
Shapes == {"damaged", "tiny", "credit", "alien", "runt", "reply", "data", "event"}

SeqNumbers == 0 .. SeqMod - 1
Ids == 0 .. IdMod - 1

Frame == [shape: Shapes, credit: SeqNumbers, flow: BOOLEAN, id: Ids]

\* What poll_device takes for "no packets".
NoFrame == [shape |-> "nothing", credit |-> 0, flow |-> FALSE, id |-> 0]

ASSUME SdpcmAssumption ==
    /\ SeqMod \in Nat /\ CreditJump \in Nat /\ Window \in Nat \ {0}
    /\ Window <= CreditJump /\ CreditJump < SeqMod
    /\ IdMod \in Nat /\ IdMod > 1
    /\ IoctlTimeout \in Nat /\ StallTimeout \in Nat
    /\ QueueMax \in Nat
    /\ ChipShapes \subseteq Shapes \ {"reply"} /\ FlowBits \subseteq BOOLEAN
    /\ Leftovers \subseteq Frame

VARIABLES
    seq,          \* wwd_sdpcm_packet_transmit_sequence_number
    credit,       \* wwd_sdpcm_last_bus_data_credit
    flow,         \* wlan_flow_control
    ioctlId,      \* wwd_sdpcm_requested_ioctl_id
    hadPacket,    \* had_successful_packet
    spidBuf,      \* what the payload part of spid_buf holds
    call,         \* the public call in progress, or the last one
    fits,         \* its length passed the check against spid_buf
    pc,           \* where the driver is
    result,       \* what the call returned
    ioctlTime,    \* ticks since cyw43_do_ioctl took its start time
    stallTime,    \* ticks since the stall loop took its start time
    granted,      \* chip: the credit it stamps on its frames
    queue,        \* chip: frames waiting for the host
    pending,      \* chip: ids of the requests it will still answer
    chipGot,      \* history: what the chip received of this call's frame
    missed,       \* history: the reply of this ioctl was damaged or dropped
    unhandled,    \* history: events queued, and neither given to the driver nor
                  \*   lost in a failed read
    readFailed,   \* history: the last read of this call failed
    misled        \* history: a failed read has changed the credit

driverVars == <<seq, credit, flow, ioctlId, hadPacket, spidBuf>>
callVars == <<call, fits, pc, result, ioctlTime, stallTime>>
chipVars == <<granted, queue, pending>>
historyVars == <<chipGot, missed, unhandled, readFailed, misled>>
vars == <<driverVars, callVars, chipVars, historyVars>>

-----------------------------------------------------------------------------
(* Unsigned arithmetic: x + 1 and a - b modulo m.                          *)

\* (Mutated form: the number does not wrap.)
NoWrap(x, m) == x + 1

Succ(x, m) == IF x = m - 1 THEN 0 ELSE x + 1
Ahead(a, b, m) == IF a >= b THEN a - b ELSE a - b + m

\* The ids the chip has still to answer or has answered into its queue.
Outstanding ==
    pending \cup {queue[i].id : i \in {j \in 1 .. Len(queue) : queue[j].shape = "reply"}}

-----------------------------------------------------------------------------
(* Receiving: cyw43_ll_sdpcm_poll_device over SDIO, and                   *)
(* sdpcm_process_rx_packet.                                                *)

\* The header is read and believed (past the return codes -2 and -3).
HasHeader(f) == f.shape \notin {"nothing", "damaged", "tiny"}

\* Channels 0 to 2 carry a credit; "alien" stands for every other channel.
CarriesCredit(f) == HasHeader(f) /\ f.shape # "alien"

\* The frame is longer than the header that send_common rewrites, so that
\* reading it replaces the payload held in spid_buf.
LandsInBuffer(f) == f.shape \in {"alien", "runt", "reply", "data", "event"}

\* (Mutated form: the guard one too small.)
BelieveCreditStrict(f) == Ahead(f.credit, credit, SeqMod) < CreditJump

\* An advance of more than CreditJump is not believed.
BelieveCredit(f) == Ahead(f.credit, credit, SeqMod) <= CreditJump

\* (Mutated forms: no check of the id; the id of the request before.)
NoIdCheck(f) == TRUE
PreviousId(f) == Succ(f.id, IdMod) = ioctlId

IdMatches(f) == f.id = ioctlId

\* What poll_device returns for a frame: "none" is -1, "ignored" is -2 to -11.
RxCode(f) ==
    CASE f.shape \in {"nothing", "damaged"} -> "none"
      [] f.shape = "reply" /\ IdMatches(f) -> "control"
      [] f.shape \in {"data", "event"} -> f.shape
      [] OTHER -> "ignored"

\* The frames that one call of poll_device may see.  It looks at the result of
\* neither of its reads.  When one fails, what it takes for the frame is what
\* the header on its stack and spid_buf hold by then: the frame the driver has
\* composed itself, one read before, or bytes of several.
Sees(failed) ==
    IF failed THEN Leftovers \cup {NoFrame}
    ELSE {NoFrame} \cup {queue[i] : i \in DOMAIN queue \cap {1}}

\* One call of poll_device that sees f.  Without a packet before it, the driver
\* looks only if the interrupt pin is asserted, and the pin may lag the queue; it
\* may also be read asserted when there is nothing to read.  A read that fails
\* may or may not take the head of the queue, and may or may not fill spid_buf.
PollDevice(failed, f) ==
    /\ f = NoFrame /\ ~failed => queue = <<>> \/ ~hadPacket
    /\ hadPacket' = (f # NoFrame)
    /\ IF failed THEN queue' \in {queue} \cup {Tail(queue) : i \in DOMAIN queue \cap {1}}
       ELSE queue' = IF f = NoFrame THEN queue ELSE Tail(queue)
    /\ \/ LandsInBuffer(f) /\ spidBuf' = "received"
       \/ (failed \/ ~LandsInBuffer(f)) /\ spidBuf' = spidBuf
    /\ flow' = IF HasHeader(f) THEN f.flow ELSE flow
    /\ credit' = IF CarriesCredit(f) /\ BelieveCredit(f) THEN f.credit ELSE credit
    /\ readFailed' = failed
    /\ misled' = (misled \/ (failed /\ credit' # credit))

\* The frame at the head of the queue was taken.
Took(shape) == queue' # queue /\ Head(queue).shape = shape

\* (Mutated form: events are dropped like data in a stall.)
HandleEventInLoops(failed, f) ==
    unhandled' = IF \/ ~failed /\ RxCode(f) = "event" /\ pc = "loop"
                    \/ failed /\ Took("event")
                 THEN unhandled - 1 ELSE unhandled

\* cyw43_cb_process_async_event is called for an event in all three loops.  One
\* that a failed read has taken is lost.
HandleEvent(failed, f) ==
    unhandled' = IF (~failed /\ RxCode(f) = "event") \/ (failed /\ Took("event"))
                 THEN unhandled - 1 ELSE unhandled

\* The reply of this ioctl was taken where nobody looks at it: by a failed read,
\* or by a stall loop.
DropReply(failed) ==
    missed' = \/ missed
              \/ /\ Took("reply") /\ Head(queue).id = ioctlId
                 /\ failed \/ pc \in {"stall", "upcallStall"}

-----------------------------------------------------------------------------
(* Sending: cyw43_sdpcm_send_common, on behalf of call c, or of an upcall  *)
(* made inside it (nested).                                                *)

\* (Mutated form: the credit is not looked at.)
StalledByFlowOnly(fl, cr) == fl

\* The host may not send: flow control, or every credit spent.
Stalled(fl, cr) == fl \/ cr = seq

\* (Mutated form: the stall loop has no timeout.)
ExpiresNever == FALSE
StallExpired == stallTime > StallTimeout

\* send_common returns res.  do_ioctl ignores it, takes its start time and
\* enters its loop; send_ethernet passes it on; an upcall goes on.
AfterSend(c, nested, res) ==
    /\ pc' = CASE nested -> "upcall"
               [] ~nested /\ c = "ioctl" -> "loop"
               [] OTHER -> "idle"
    /\ result' = IF ~nested /\ c = "ethernet" THEN res ELSE "none"
    /\ ioctlTime' = IF nested THEN ioctlTime ELSE 0
    /\ stallTime' = 0

\* (Mutated form: the result of the bus write is not passed on.)
AlwaysOk(written) == "ok"
WriteResult(written) == IF written THEN "ok" ELSE "eio"

\* The header goes into spid_buf[0..11] and spid_buf, whose payload is now
\* buf, is written to the chip.  The sequence number advances even if the
\* bus write fails.  An ioctl request the chip can read is answered later.
Transmit(c, nested, buf, id) ==
    \E written \in BOOLEAN :
        /\ seq' = Succ(seq, SeqMod)
        /\ chipGot' = CASE nested -> chipGot
                        [] ~nested /\ ~written -> "no"
                        [] ~nested /\ written /\ buf = "received" -> "garbled"
                        [] OTHER -> "intact"
        /\ pending' = IF written /\ ~nested /\ buf = "request"
                      THEN pending \cup {id} ELSE pending
        /\ AfterSend(c, nested, WriteResult(written))

\* The entry of send_common: transmit at once, or take the start time of the
\* stall loop.
SendCommon(c, nested, buf, id) ==
    IF Stalled(flow, credit)
    THEN /\ pc' = IF nested THEN "upcallStall" ELSE "stall"
         /\ result' = "none"
         /\ stallTime' = 0
         /\ chipGot' = IF nested THEN chipGot ELSE "no"
         /\ UNCHANGED <<seq, ioctlTime, pending>>
    ELSE Transmit(c, nested, buf, id)

\* One iteration of the stall loop.  Events are processed, data frames and
\* replies are dropped.
StallPoll ==
    /\ pc \in {"stall", "upcallStall"}
    /\ \E failed \in BOOLEAN : \E f \in Sees(failed) :
        PollDevice(failed, f) /\ HandleEvent(failed, f) /\ DropReply(failed)
    /\ LET nested == pc = "upcallStall" IN
       \/ /\ ~Stalled(flow', credit')
          /\ Transmit(call, nested, spidBuf', ioctlId)
       \/ /\ Stalled(flow', credit') /\ StallExpired
          /\ AfterSend(call, nested, "timeout")
          /\ UNCHANGED <<seq, pending, chipGot>>
       \/ /\ Stalled(flow', credit') /\ ~StallExpired
          /\ UNCHANGED <<seq, pending, chipGot, pc, result, ioctlTime, stallTime>>
    /\ UNCHANGED <<ioctlId, call, fits, granted>>

-----------------------------------------------------------------------------
(* The public calls.                                                       *)

\* The id of the next request.
NextIoctlId == Succ(ioctlId, IdMod)

\* cyw43_do_ioctl of a request that fits spid_buf.  Bound on lateness: no
\* answer arrives IdMod - 1 requests late.
StartIoctl ==
    /\ pc = "idle"
    /\ Succ(ioctlId, IdMod) \notin Outstanding
    /\ call' = "ioctl"
    /\ fits' = TRUE
    /\ missed' = FALSE /\ readFailed' = FALSE
    /\ ioctlId' = NextIoctlId
    /\ spidBuf' = "request"
    /\ SendCommon("ioctl", FALSE, "request", NextIoctlId)
    /\ UNCHANGED <<credit, flow, hadPacket, granted, queue, unhandled, misled>>

\* cyw43_do_ioctl of a longer request: cyw43_send_ioctl refuses it before it
\* takes an id, and cyw43_do_ioctl waits for the reply all the same.
StartLongIoctl ==
    /\ pc = "idle"
    /\ call' = "ioctl"
    /\ fits' = FALSE
    /\ missed' = FALSE /\ readFailed' = FALSE
    /\ chipGot' = "no"
    /\ AfterSend("ioctl", FALSE, "einval")
    /\ UNCHANGED <<driverVars, chipVars, unhandled, misled>>

\* One iteration of the reply loop of cyw43_do_ioctl.
IoctlPoll ==
    /\ pc = "loop" /\ call = "ioctl" /\ ioctlTime < IoctlTimeout
    /\ \E failed \in BOOLEAN : \E f \in Sees(failed) :
        /\ PollDevice(failed, f) /\ HandleEvent(failed, f) /\ DropReply(failed)
        /\ \/ /\ RxCode(f) = "control"
              /\ pc' = "idle" /\ result' = "ok" /\ ioctlTime' = 0
           \/ /\ RxCode(f) = "data"
              /\ pc' = "upcall" /\ UNCHANGED <<result, ioctlTime>>
           \/ /\ RxCode(f) \notin {"control", "data"}
              /\ UNCHANGED <<pc, result, ioctlTime>>
    /\ UNCHANGED <<seq, ioctlId, call, fits, stallTime, granted, pending, chipGot>>

IoctlGiveUp ==
    /\ pc = "loop" /\ call = "ioctl" /\ ioctlTime >= IoctlTimeout
    /\ pc' = "idle" /\ result' = "timeout" /\ ioctlTime' = 0
    /\ UNCHANGED <<driverVars, call, fits, stallTime, chipVars, historyVars>>

\* cyw43_ll_send_ethernet called by the network stack on its own.
StartEthernet ==
    /\ pc = "idle"
    /\ call' = "ethernet"
    /\ fits' = TRUE
    /\ missed' = FALSE /\ readFailed' = FALSE
    /\ spidBuf' = "packet"
    /\ SendCommon("ethernet", FALSE, "packet", ioctlId)
    /\ UNCHANGED <<credit, flow, ioctlId, hadPacket, granted, queue, unhandled, misled>>

\* cyw43_ll_process_packets, called by cyw43_poll_func.
StartProcess ==
    /\ pc = "idle"
    /\ call' = "process" /\ fits' = TRUE /\ pc' = "loop" /\ result' = "none"
    /\ chipGot' = "no" /\ missed' = FALSE /\ readFailed' = FALSE
    /\ UNCHANGED <<driverVars, ioctlTime, stallTime, chipVars, unhandled, misled>>

\* One iteration of cyw43_ll_process_packets: it ends at the first -1.
ProcessPoll ==
    /\ pc = "loop" /\ call = "process"
    /\ \E failed \in BOOLEAN : \E f \in Sees(failed) :
        /\ PollDevice(failed, f) /\ HandleEvent(failed, f) /\ DropReply(failed)
        /\ pc' = CASE RxCode(f) = "none" -> "idle"
                   [] RxCode(f) = "data" -> "upcall"
                   [] OTHER -> "loop"
    /\ UNCHANGED <<seq, ioctlId, call, fits, result, ioctlTime, stallTime,
                   granted, pending, chipGot>>

\* cyw43_cb_process_ethernet: the stack may answer a frame by sending frames
\* before it returns.
UpcallSend ==
    /\ pc = "upcall"
    /\ spidBuf' = "packet"
    /\ SendCommon(call, TRUE, "packet", ioctlId)
    /\ UNCHANGED <<credit, flow, ioctlId, hadPacket, call, fits, granted,
                   queue, missed, unhandled, readFailed, misled>>

UpcallReturn ==
    /\ pc = "upcall"
    /\ pc' = "loop"
    /\ UNCHANGED <<driverVars, call, fits, result, ioctlTime, stallTime,
                   chipVars, historyVars>>

\* cyw43_hal_ticks_us advances; a time past its limit is not counted on.
Tick ==
    /\ pc # "idle"
    /\ stallTime' = IF pc \in {"stall", "upcallStall"} /\ stallTime <= StallTimeout
                    THEN stallTime + 1 ELSE stallTime
    /\ ioctlTime' = IF call = "ioctl" /\ pc # "stall" /\ ioctlTime < IoctlTimeout
                    THEN ioctlTime + 1 ELSE ioctlTime
    /\ <<stallTime, ioctlTime>>' # <<stallTime, ioctlTime>>
    /\ UNCHANGED <<driverVars, call, fits, pc, result, chipVars, historyVars>>

-----------------------------------------------------------------------------
(* The chip (external): it stamps every frame with its flow control bit    *)
(* and with a credit it never takes back and never runs more than Window   *)
(* ahead of the host.  A host that has run past its credit is granted      *)
(* credits anew.                                                           *)

ChipQueue(shape, id) ==
    /\ Len(queue) < QueueMax
    /\ \E g \in SeqNumbers, fl \in FlowBits :
        /\ Ahead(granted, seq, SeqMod) <= Window
              => Ahead(granted, seq, SeqMod) <= Ahead(g, seq, SeqMod)
        /\ Ahead(g, seq, SeqMod) <= Window
        /\ granted' = g
        /\ queue' = Append(queue, [shape |-> shape, credit |-> g, flow |-> fl, id |-> id])
    /\ UNCHANGED <<driverVars, callVars, chipGot, readFailed, misled>>

ChipSend(shape) ==
    /\ ChipQueue(shape, 0)
    /\ unhandled' = IF shape = "event" THEN unhandled + 1 ELSE unhandled
    /\ UNCHANGED <<pending, missed>>

\* A reply, like any other frame, may be damaged on its way.
ChipReply(id) ==
    /\ \/ ChipQueue("reply", id) /\ UNCHANGED missed
       \/ ChipQueue("damaged", id) /\ missed' = (missed \/ id = ioctlId)
    /\ pending' = pending \ {id}
    /\ UNCHANGED unhandled

-----------------------------------------------------------------------------
\* cyw43_ll_init, and a chip that has just started.
Init ==
    /\ seq = 0 /\ credit = 1 /\ flow = FALSE /\ ioctlId = 0
    /\ hadPacket = FALSE /\ spidBuf = "empty"
    /\ call = "process" /\ fits = TRUE /\ pc = "idle" /\ result = "none"
    /\ ioctlTime = 0 /\ stallTime = 0
    /\ granted \in 1 .. Window
    /\ queue = <<>> /\ pending = {}
    /\ chipGot = "no" /\ missed = FALSE /\ unhandled = 0
    /\ readFailed = FALSE /\ misled = FALSE

DriverNext ==
    \/ StartIoctl \/ StartLongIoctl \/ StartEthernet \/ StartProcess
    \/ StallPoll \/ IoctlPoll \/ IoctlGiveUp \/ ProcessPoll
    \/ UpcallSend \/ UpcallReturn

ChipNext ==
    \/ \E shape \in ChipShapes : ChipSend(shape)
    \/ \E id \in pending : ChipReply(id)

Next == DriverNext \/ Tick \/ ChipNext

Spec == Init /\ [][Next]_vars

\* Loops iterate, time passes, and an upcall returns, however often the stack
\* sends from it.  Nothing is asked of the chip.
Fairness ==
    /\ WF_vars(StallPoll)
    /\ WF_vars(IoctlPoll \/ IoctlGiveUp)
    /\ SF_vars(UpcallReturn)
    /\ WF_vars(Tick)

FairSpec == Spec /\ Fairness
-----------------------------------------------------------------------------
(* Properties.                                                             *)

\* Every variable has its type.
TypeOK ==
    /\ seq \in SeqNumbers /\ credit \in SeqNumbers /\ granted \in SeqNumbers
    /\ flow \in BOOLEAN
    /\ ioctlId \in Ids
    /\ hadPacket \in BOOLEAN
    /\ spidBuf \in {"empty", "request", "packet", "received"}
    /\ call \in {"ioctl", "ethernet", "process"}
    /\ fits \in BOOLEAN
    /\ pc \in {"idle", "stall", "loop", "upcall", "upcallStall"}
    /\ result \in {"none", "ok", "eio", "timeout"}
    /\ ioctlTime \in 0 .. IoctlTimeout
    /\ stallTime \in 0 .. StallTimeout + 1
    /\ queue \in Seq(Frame) /\ Len(queue) <= QueueMax
    /\ pending \subseteq Ids
    /\ chipGot \in {"no", "intact", "garbled"}
    /\ missed \in BOOLEAN /\ readFailed \in BOOLEAN /\ misled \in BOOLEAN
    /\ unhandled \in Int

\* Unless a failed read has left it a wrong credit, the driver never transmits
\* beyond what the chip granted, although it only compares two wrapping 8-bit
\* numbers for equality: its sequence number has not passed its credit, nor its
\* credit the chip's, and all three lie within one window
\* (cyw43_sdpcm_send_common and the credit update of process_rx).
WithinGrant ==
    ~misled =>
        /\ Ahead(credit, seq, SeqMod) <= Ahead(granted, seq, SeqMod)
        /\ Ahead(granted, seq, SeqMod) <= Window

\* The guard "credit <= 20" never refuses a genuine grant, whatever frames were
\* lost before it or taken by failed reads: a frame that carries a credit, if it
\* is read well, makes that credit the driver's.  A driver that a failed read has
\* misled is excepted.
AcceptsEveryGrant ==
    [][queue # <<>> /\ queue' = Tail(queue) /\ ~readFailed' /\ ~misled
       /\ CarriesCredit(Head(queue)) => credit' = Head(queue).credit]_vars

\* The wrapping numbers implement the counting of credits, which goes astray
\* only when a failed read has changed the credit.
Credits == INSTANCE CreditWindow WITH
    usable <- Ahead(credit, seq, SeqMod),
    promised <- Ahead(granted, credit, SeqMod),
    astray <- misled
CreditsSpec == Credits!Spec

\* cyw43_do_ioctl returns 0 for a request that fits only if the chip has
\* received that request intact, or the last read failed: neither the late
\* reply of an ioctl that timed out, nor one read while the request was stalled,
\* can be taken for the reply of a request that was lost or garbled on its way.
ReplyNeedsRequest ==
    call = "ioctl" /\ fits /\ result = "ok" /\ ~readFailed => chipGot = "intact"

\* The reply of the ioctl in progress is not lost: until it is returned it is
\* with the chip or in its queue, unless it was damaged on its way, a failed read
\* has taken it, or the stall loop of a send nested in the reply loop has read
\* and dropped it.
ReplyNotLost ==
    call = "ioctl" /\ chipGot = "intact" /\ result # "ok" /\ ~missed
        => ioctlId \in Outstanding

\* An event that arrives undamaged and is read well is not lost: every event
\* frame that the chip has queued, that is no longer in its queue and that no
\* failed read has taken, went to cyw43_cb_process_async_event, whichever loop
\* read it.
EventsHandled ==
    unhandled = Cardinality({i \in 1 .. Len(queue) : queue[i].shape = "event"})

\* cyw43_ll_send_ethernet returns 0 only if a frame reached the chip.
SentIfOk ==
    call = "ethernet" /\ result = "ok" => chipGot # "no"

\* "return 0 on success" of cyw43_send_ethernet, the frame being "the data to
\* send": what reached the chip is what the caller passed.
SentAsPassed ==
    call = "ethernet" /\ result = "ok" => chipGot = "intact"

\* A send and an ioctl come to an end whatever the chip does or does not do:
\* also when it never grants a credit, never clears flow control, never
\* answers, and when the network stack sends from within the reply loop.
CallsReturn ==
    pc # "idle" /\ call \in {"ioctl", "ethernet"} ~> pc = "idle"
=============================================================================
