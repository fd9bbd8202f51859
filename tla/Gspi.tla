------------------------------- MODULE Gspi --------------------------------
(***************************************************************************)
(* The gSPI port of gspi.adb and its first user, the initialisation of      *)
(* cyw43.adb.  Two processes run at their own speed: the CPU, which may be  *)
(* interrupted between any two accesses of the PIO, and the PIO's state     *)
(* machine (SM), which runs one of the two programs of gspi.pio and clocks  *)
(* a word of 32 bits at a time between the FIFOs and the chip.  They meet   *)
(* in the FIFOs and in IRQ flag 0.                                          *)
(*                                                                          *)
(* The PIO and the chip are external: SM_Initialize halts the SM, empties   *)
(* its FIFOs and leaves it at the start of its program; an empty output     *)
(* shift register is refilled from the FIFO in the cycle a word is there.   *)
(***************************************************************************)
EXTENDS Naturals, Sequences

CONSTANTS
    MaxWrite,   \* bound: words of a Write
    MaxRead,    \* bound: words of a Read
    MaxFaults   \* bound: writes that the chip misses

ASSUME GspiAssumption ==
    MaxWrite \in Nat \ {0} /\ MaxRead \in Nat \ {0} /\ MaxFaults \in Nat

Depth == 4      \* words that a FIFO of the PIO holds

VARIABLES
    \* the CPU
    client,   \* where Initialize of cyw43.adb stands
    req,      \* the Read or Write in progress, or the last one
    stage,    \* its stage, an index of Script, or 0
    step,     \* the next step of the Transmit or Receive of that stage
    n,        \* words that Transmit has put or Receive has got
    data,     \* words got by the Receive of this stage, and of Data at the end
    \* the PIO
    program,  \* what the SM runs: "tx", "rx" or, at first, nothing
    at,       \* where it stands in the program
    osr,      \* the output shift register: a word or Empty
    tx, rx,   \* the FIFOs
    irq,      \* IRQ flag 0
    \* the chip
    selected, \* CS is low
    cmd,      \* the command it was given, or "none"
    rw,       \* its test register REG_TEST_RW
    booted,   \* it answers
    faults,   \* history: writes it has missed
    line,     \* history: words clocked out of the host since CS went low
    driven    \* history: words clocked into the host since CS went low

cpu == <<client, req, stage, step, n, data>>
pio == <<program, at, osr, tx, rx, irq>>
chip == <<selected, cmd, rw, booted, faults>>
wire == <<line, driven>>
vars == <<cpu, pio, chip, wire>>

-----------------------------------------------------------------------------
(* Words.  Swap_32 exchanges the halves of a word; the chip, which starts   *)
(* in 16-bit mode, takes and gives the low half of a word first.            *)

Values == {"zero", "FEED_BEAD", "CAFE_F00D", "other"}
Written == {"CAFE_F00D", "other"}      \* what is ever written
Commands == {"read ro", "read rw", "write rw"}
Words == [what : Values \cup Commands, lowFirst : BOOLEAN]
Empty == [what |-> "empty", lowFirst |-> FALSE]

Word(v) == [what |-> v, lowFirst |-> FALSE]

Swap(w) == [w EXCEPT !.lowFirst = ~w.lowFirst]

-----------------------------------------------------------------------------
(* Read and Write are scripts.  The pause of 15 ms between the two selects  *)
(* of a Read is no step of its own.                                         *)

Requests ==
    [cmd : {"write rw"}, data : UNION {[1 .. k -> Written] : k \in 1 .. MaxWrite}, count : {1}]
    \cup [cmd : {"read ro", "read rw"}, data : {<<>>}, count : 1 .. MaxRead]

WriteScript == <<"select", "command", "data", "status", "deselect">>
\* Mutated form: CS is not taken low again for the data.
ReadUnselected == <<"select", "command", "deselect", "data", "status", "deselect">>

ReadScript == <<"select", "command", "deselect", "select", "data", "status", "deselect">>

IsWrite == req.cmd = "write rw"
Script == IF IsWrite THEN WriteScript ELSE ReadScript
Doing(what) == stage # 0 /\ Script[stage] = what

Transmitting == Doing("command") \/ (Doing("data") /\ IsWrite)
Receiving == Doing("status") \/ (Doing("data") /\ ~IsWrite)

Outgoing == IF Doing("command") THEN <<req.cmd>> ELSE req.data
Expected == IF Doing("data") THEN req.count ELSE 1

\* The call goes on with its next stage.
Advance == stage' = stage + 1 /\ step' = "begin"

Select ==
    /\ Doing("select")
    /\ selected' = TRUE /\ line' = <<>> /\ driven' = <<>>
    /\ Advance
    /\ UNCHANGED <<client, req, n, data, pio, cmd, rw, booted, faults>>

\* The chip forgets a command once it has answered it.
Deselect ==
    /\ Doing("deselect") /\ stage < Len(Script)
    /\ selected' = FALSE
    /\ Advance
    /\ UNCHANGED <<client, req, n, data, pio, cmd, rw, booted, faults, wire>>

\* The exit conditions of the loops of Initialize; after it the port is used
\* for anything.
AfterCall ==
    CASE client = "probe" -> IF data[1] = Word("FEED_BEAD") THEN "write" ELSE "probe"
      [] client = "write" -> "check"
      [] client = "check" -> IF data[1] = Word("CAFE_F00D") THEN "run" ELSE "write"
      [] client = "run" -> "run"

Return ==
    /\ Doing("deselect") /\ stage = Len(Script)
    /\ selected' = FALSE /\ cmd' = "none"
    /\ client' = AfterCall
    /\ stage' = 0 /\ step' = "begin"
    /\ UNCHANGED <<req, n, data, pio, rw, booted, faults, wire>>

\* What Initialize asks for, and what anybody may.
Wanted ==
    CASE client = "probe" -> {[cmd |-> "read ro", data |-> <<>>, count |-> 1]}
      [] client = "write" -> {[cmd |-> "write rw", data |-> <<"CAFE_F00D">>, count |-> 1]}
      [] client = "check" -> {[cmd |-> "read rw", data |-> <<>>, count |-> 1]}
      [] client = "run" -> Requests

Call(r) ==
    /\ stage = 0
    /\ req' = r
    /\ stage' = 1 /\ step' = "begin" /\ data' = <<>>
    /\ UNCHANGED <<client, n, pio, chip, wire>>

-----------------------------------------------------------------------------
(* Transmit and Receive.                                                   *)

\* Loads a program: This.State stays Init for ever, so both do it every time.
Load(p) ==
    /\ program' = p /\ at' = "run"
    /\ osr' = Empty /\ tx' = <<>> /\ rx' = <<>>
    /\ irq' = FALSE

\* Mutated form: This.State is kept, and a second Receive finds it Receiving.
BeginTracked ==
    /\ Transmitting \/ Receiving
    /\ step = "begin"
    /\ IF Transmitting THEN Load("tx") /\ step' = "ack"
       ELSE IF program = "rx" THEN UNCHANGED pio /\ step' = "get"
       ELSE Load("rx") /\ step' = "get"
    /\ n' = 0
    /\ UNCHANGED <<client, req, stage, data, chip, wire>>

Begin ==
    /\ Transmitting \/ Receiving
    /\ step = "begin"
    /\ IF Transmitting THEN Load("tx") /\ step' = "ack" ELSE Load("rx") /\ step' = "get"
    /\ n' = 0
    /\ UNCHANGED <<client, req, stage, data, chip, wire>>

Ack ==
    /\ Transmitting /\ step = "ack"
    /\ irq' = FALSE /\ step' = "put"
    /\ UNCHANGED <<client, req, stage, n, data, program, at, osr, tx, rx, chip, wire>>

\* The word w enters the FIFO, or the shift register if that waits for it.
Push(w) ==
    IF osr = Empty THEN osr' = w /\ UNCHANGED tx ELSE tx' = Append(tx, w) /\ UNCHANGED osr

\* Mutated form: a word is stored whether there is room or not.
RoomUnchecked == TRUE

\* Put waits for room in the FIFO.
Room == Len(tx) < Depth

Put ==
    /\ Transmitting /\ step = "put"
    /\ Room
    /\ Push(Swap(Word(Outgoing[n + 1])))
    /\ n' = n + 1
    /\ step' = IF n + 1 < Len(Outgoing) THEN "ack" ELSE "wait"
    /\ UNCHANGED <<client, req, stage, data, program, at, rx, irq, chip, wire>>

\* The loop at the end of Transmit.
Flushed ==
    /\ Transmitting /\ step = "wait"
    /\ irq
    /\ Advance
    /\ UNCHANGED <<client, req, n, data, pio, chip, wire>>

\* Get waits for a word in the FIFO; the status of a transfer is thrown away.
Get ==
    /\ Receiving /\ step = "get"
    /\ rx # <<>>
    /\ rx' = Tail(rx) /\ n' = n + 1
    /\ data' = IF Doing("data") THEN Append(data, Swap(Head(rx))) ELSE data
    /\ step' = "wait"
    /\ UNCHANGED <<client, req, stage, program, at, osr, tx, irq, chip, wire>>

\* Mutated form: the last word is acknowledged too.
GotAckingAll ==
    /\ Receiving /\ step = "wait"
    /\ irq
    /\ irq' = FALSE
    /\ IF n = Expected THEN Advance ELSE UNCHANGED stage /\ step' = "get"
    /\ UNCHANGED <<client, req, n, data, program, at, osr, tx, rx, chip, wire>>

\* The loop after each Get, and Ack_SM_IRQ unless the word is the last.
Got ==
    /\ Receiving /\ step = "wait"
    /\ irq
    /\ IF n = Expected
       THEN Advance /\ UNCHANGED irq
       ELSE irq' = FALSE /\ step' = "get" /\ UNCHANGED stage
    /\ UNCHANGED <<client, req, n, data, program, at, osr, tx, rx, chip, wire>>

-----------------------------------------------------------------------------
(* The programs of gspi.pio, a word at a time.                             *)

\* The chip takes a word.  Those in the wrong order make no sense to it.
Seen(w) == IF w.lowFirst THEN w.what ELSE "other"

Take(w) ==
    IF ~booted \/ (cmd = "none" /\ Seen(w) \notin Commands)
    THEN UNCHANGED <<cmd, rw, faults>>
    ELSE IF cmd = "none" THEN cmd' = Seen(w) /\ UNCHANGED <<rw, faults>>
    ELSE /\ UNCHANGED cmd
         /\ \/ /\ rw' = IF Len(line) = 1 THEN Seen(w) ELSE rw
               /\ UNCHANGED faults
            \/ /\ faults < MaxFaults /\ faults' = faults + 1
               /\ UNCHANGED rw

\* write_x_bits: the 32 bits of the register go out, and the next word comes in.
ShiftOut ==
    /\ program = "tx" /\ at = "run"
    /\ osr # Empty
    /\ line' = Append(line, osr)
    /\ Take(osr)
    /\ IF tx = <<>> THEN osr' = Empty /\ UNCHANGED tx
                    ELSE osr' = Head(tx) /\ tx' = Tail(tx)
    /\ at' = "test"
    /\ UNCHANGED <<cpu, program, rx, irq, selected, booted, driven>>

\* jmp !osre, reload.
Test ==
    /\ at = "test"
    /\ at' = IF osr # Empty THEN "run" ELSE "raise"
    /\ UNCHANGED <<cpu, program, osr, tx, rx, irq, chip, wire>>

\* What the chip drives: the register that a read asks for comes first.
Drives ==
    CASE cmd = "none" -> {"zero"}
      [] cmd = "read ro" /\ driven = <<>> -> {"FEED_BEAD"}
      [] cmd = "read rw" /\ driven = <<>> -> {rw}
      [] OTHER -> Values

\* read_x_bits, with the push of the word that is complete.
ShiftIn ==
    /\ program = "rx" /\ at = "run"
    /\ Len(rx) < Depth
    /\ \E v \in Drives : LET w == [what |-> v, lowFirst |-> TRUE] IN
          driven' = Append(driven, w) /\ rx' = Append(rx, w)
    /\ at' = "raise"
    /\ UNCHANGED <<cpu, program, osr, tx, irq, chip, line>>

\* irq wait 0: the flag is set, and the SM blocks until it is cleared.
Raise ==
    /\ at = "raise"
    /\ irq' = TRUE /\ at' = "blocked"
    /\ UNCHANGED <<cpu, program, osr, tx, rx, chip, wire>>

Resume ==
    /\ at = "blocked" /\ ~irq
    /\ at' = "run"
    /\ UNCHANGED <<cpu, program, osr, tx, rx, irq, chip, wire>>

\* The chip has booted, some time after its power came on.
Boot ==
    /\ ~booted /\ booted' = TRUE
    /\ UNCHANGED <<cpu, pio, selected, cmd, rw, faults, wire>>

-----------------------------------------------------------------------------

Init ==
    /\ client = "probe" /\ req = [cmd |-> "read ro", data |-> <<>>, count |-> 1]
    /\ stage = 0 /\ step = "begin" /\ n = 0 /\ data = <<>>
    /\ program = "none" /\ at = "run" /\ osr = Empty /\ tx = <<>> /\ rx = <<>> /\ irq = FALSE
    /\ selected = FALSE /\ cmd = "none" /\ rw = "zero" /\ booted = FALSE /\ faults = 0
    /\ line = <<>> /\ driven = <<>>

InCall ==
    \/ Select \/ Deselect \/ Return
    \/ Begin \/ Ack \/ Put \/ Flushed \/ Get \/ Got

SM == ShiftOut \/ Test \/ ShiftIn \/ Raise \/ Resume

NextCall == \E r \in Wanted : Call(r)

Next == InCall \/ NextCall \/ SM \/ Boot

Spec == Init /\ [][Next]_vars

\* The CPU and the SM run, the chip boots in the end, and Initialize goes on
\* with its loops; later nobody needs to call.
Fairness ==
    /\ WF_vars(InCall) /\ WF_vars(SM) /\ WF_vars(Boot)
    /\ WF_vars(client # "run" /\ NextCall)

FairSpec == Spec /\ Fairness

-----------------------------------------------------------------------------
(* Properties.                                                             *)

TypeOK ==
    /\ client \in {"probe", "write", "check", "run"} /\ req \in Requests
    /\ stage \in 0 .. Len(Script) /\ step \in {"begin", "ack", "put", "wait", "get"}
    /\ n \in Nat /\ data \in Seq(Words)
    /\ program \in {"none", "tx", "rx"} /\ at \in {"run", "test", "raise", "blocked"}
    /\ osr \in Words \cup {Empty} /\ tx \in Seq(Words) /\ rx \in Seq(Words)
    /\ Len(tx) <= Depth /\ Len(rx) <= Depth
    /\ irq \in BOOLEAN /\ selected \in BOOLEAN /\ booted \in BOOLEAN
    /\ cmd \in Commands \cup {"none"} /\ rw \in Values /\ faults \in 0 .. MaxFaults
    /\ line \in Seq(Words) /\ driven \in Seq(Words)

\* The words vs in the order in which they cross the wire.
OnWire(vs) == [i \in 1 .. Len(vs) |-> [what |-> vs[i], lowFirst |-> TRUE]]

\* When CS goes up, as many words have been clocked as the transfer has, each
\* once and in order, and a Read returns those that the chip drove.  The hand
\* shake through IRQ 0 makes one exception: if the CPU is interrupted between
\* Ack_SM_IRQ and Put, Transmit may take the flag that an earlier word raised
\* for the end, and the last words of several are then dropped.  Nothing is
\* dropped of a single word, which is all that cyw43.adb ever writes.
TransfersExact ==
    Doing("deselect") =>
        IF IsWrite
        THEN /\ \E k \in 1 .. Len(req.data) :
                   line = OnWire(<<req.cmd>> \o SubSeq(req.data, 1, k))
             /\ Len(req.data) = 1 => Len(line) = 2
             /\ Len(driven) = 1
        ELSE IF stage < Len(Script)
        THEN line = OnWire(<<req.cmd>>) /\ driven = <<>>
        ELSE /\ line = <<>>
             /\ Len(driven) = req.count + 1 /\ Len(data) = req.count
             /\ \A i \in 1 .. req.count : data[i] = Swap(driven[i])

\* Nothing is clocked while CS is high, whatever state an earlier transfer left
\* the SM in: the chip would take it for the start of a command.
ClockedOnlySelected == [][line' # line \/ driven' # driven => selected']_vars

\* Every Read and Write ends, however the CPU and the SM interleave: neither
\* waits for a flag or a FIFO that the other will never change.
CallsEnd == stage # 0 ~> stage = 0

\* Initialize comes to an end once the chip answers and stores what is written.
Initializes == <>(client = "run")

=============================================================================
