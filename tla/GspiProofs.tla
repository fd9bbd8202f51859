----------------------------- MODULE GspiProofs -----------------------------
(***************************************************************************)
(* What is proved of the gSPI port for every length of a Read or Write: the *)
(* types, that nothing is clocked while CS is high, and that transfers are  *)
(* exact.  The invariant follows each word from the CPU through the FIFO    *)
(* and the shift register to the wire, and back.                            *)
(***************************************************************************)
EXTENDS Gspi, TLAPS

-----------------------------------------------------------------------------
(* The stages by their numbers.                                            *)

Sending == stage = 2 \/ (stage = 3 /\ IsWrite)
Getting == (stage = 4 /\ IsWrite) \/ (stage \in {5, 6} /\ ~IsWrite)

LastStage == IF IsWrite THEN 5 ELSE 7

LEMMA Scripts ==
    /\ Len(Script) = LastStage
    /\ IsWrite => /\ Script[1] = "select" /\ Script[2] = "command" /\ Script[3] = "data"
                  /\ Script[4] = "status" /\ Script[5] = "deselect"
    /\ ~IsWrite => /\ Script[1] = "select" /\ Script[2] = "command" /\ Script[3] = "deselect"
                   /\ Script[4] = "select" /\ Script[5] = "data" /\ Script[6] = "status"
                   /\ Script[7] = "deselect"
<1>1. /\ Len(WriteScript) = 5 /\ WriteScript[1] = "select" /\ WriteScript[2] = "command"
      /\ WriteScript[3] = "data" /\ WriteScript[4] = "status" /\ WriteScript[5] = "deselect"
  BY DEF WriteScript
<1>2. /\ Len(ReadScript) = 7 /\ ReadScript[1] = "select" /\ ReadScript[2] = "command"
      /\ ReadScript[3] = "deselect" /\ ReadScript[4] = "select" /\ ReadScript[5] = "data"
      /\ ReadScript[6] = "status" /\ ReadScript[7] = "deselect"
  BY DEF ReadScript
<1> QED BY <1>1, <1>2 DEF Script, LastStage

LEMMA Doings ==
    ASSUME stage \in 0 .. LastStage
    PROVE  /\ Doing("select") <=> stage = 1 \/ (stage = 4 /\ ~IsWrite)
           /\ Doing("command") <=> stage = 2
           /\ Doing("data") <=> (stage = 3 /\ IsWrite) \/ (stage = 5 /\ ~IsWrite)
           /\ Doing("status") <=> (stage = 4 /\ IsWrite) \/ (stage = 6 /\ ~IsWrite)
           /\ Doing("deselect") <=> (stage = 5 /\ IsWrite) \/ (stage \in {3, 7} /\ ~IsWrite)
           /\ Transmitting <=> Sending
           /\ Receiving <=> Getting
<1>1. CASE IsWrite
  <2>1. stage \in {0, 1, 2, 3, 4, 5}
    BY <1>1 DEF LastStage
  <2> QED BY <1>1, <2>1, Scripts DEF Doing, Transmitting, Receiving, Sending, Getting
<1>2. CASE ~IsWrite
  <2>1. stage \in {0, 1, 2, 3, 4, 5, 6, 7}
    BY <1>2 DEF LastStage
  <2> QED BY <1>2, <2>1, Scripts DEF Doing, Transmitting, Receiving, Sending, Getting
<1> QED BY <1>1, <1>2

-----------------------------------------------------------------------------
(* Requests and their words.                                               *)

\* The i-th word of a transfer, as it is on the wire.
Sent(i) == [what |-> IF i = 1 THEN req.cmd ELSE req.data[i - 1], lowFirst |-> TRUE]

\* Words before those of this stage, and the words of this stage.
Low == stage - 2
Goal == IF stage = 2 THEN 1 ELSE Len(req.data)

LEMMA Counts == \A c \in 1 .. MaxRead : c \in Nat /\ c >= 1
BY GspiAssumption

LEMMA RequestFacts ==
    ASSUME req \in Requests
    PROVE  /\ req.cmd \in Commands
           /\ req.data \in Seq(Written) /\ Len(req.data) \in Nat
           /\ req.count \in Nat /\ req.count >= 1
           /\ IsWrite => Len(req.data) >= 1
           /\ ~IsWrite => req.data = <<>>
<1>1. CASE req \in [cmd : {"write rw"},
                    data : UNION {[1 .. k -> Written] : k \in 1 .. MaxWrite}, count : {1}]
  <2>1. PICK k \in 1 .. MaxWrite : req.data \in [1 .. k -> Written]
    BY <1>1
  <2>2. k \in Nat /\ k >= 1
    BY GspiAssumption
  <2>3. req.data \in Seq(Written) /\ Len(req.data) = k
    BY <2>1, <2>2
  <2>4. req.cmd = "write rw"
    BY <1>1
  <2>5. IsWrite /\ req.cmd \in Commands
    BY <2>4 DEF IsWrite, Commands
  <2>6. Len(req.data) \in Nat /\ Len(req.data) >= 1
    BY <2>2, <2>3
  <2>7. req.count \in Nat /\ req.count >= 1
    <3>1. req.count \in {1}
      BY <1>1
    <3> QED BY <3>1
  <2> QED BY <2>3, <2>5, <2>6, <2>7, Zenon
<1>2. CASE req \in [cmd : {"read ro", "read rw"}, data : {<<>>}, count : 1 .. MaxRead]
  <2>1. req.cmd \in {"read ro", "read rw"} /\ req.data = <<>> /\ req.count \in 1 .. MaxRead
    BY <1>2
  <2>2. <<>> \in Seq(Written) /\ Len(<<>>) = 0
    OBVIOUS
  <2>3. ~IsWrite /\ req.cmd \in Commands
    BY <2>1 DEF IsWrite, Commands
  <2>4. req.count \in Nat /\ req.count >= 1
    BY <2>1, Counts
  <2> QED BY <2>1, <2>2, <2>3, <2>4
<1> QED BY <1>1, <1>2 DEF Requests

LEMMA SentFacts ==
    ASSUME req \in Requests, NEW i \in 1 .. Len(req.data) + 1
    PROVE  Sent(i) \in Words /\ Sent(i) # Empty
<1>1. Sent(i).what \in Values \cup Commands
  <2>1. CASE i = 1
    BY <2>1, RequestFacts DEF Sent
  <2>2. CASE i # 1
    <3>1. i - 1 \in 1 .. Len(req.data)
      BY <2>2, RequestFacts
    <3>2. req.data[i - 1] \in Written
      BY <3>1, RequestFacts
    <3> QED BY <2>2, <3>2 DEF Sent, Written, Values
  <2> QED BY <2>1, <2>2
<1>2. Sent(i) \in Words
  BY <1>1 DEF Sent, Words
<1>3. "empty" \notin Values \cup Commands
  BY DEF Values, Commands
<1>4. Empty.what = "empty"
  BY DEF Empty
<1> QED BY <1>1, <1>2, <1>3, <1>4

LEMMA SwapWord ==
    ASSUME NEW v
    PROVE  Swap(Word(v)) = [what |-> v, lowFirst |-> TRUE]
<1> DEFINE w == [what |-> v, lowFirst |-> FALSE]
<1>1. (~w.lowFirst) = TRUE
  OBVIOUS
<1>2. \A b : [w EXCEPT !.lowFirst = b] = [what |-> v, lowFirst |-> b]
  <2>1. \A a, b : [[what |-> v, lowFirst |-> a] EXCEPT !.lowFirst = b]
                    = [what |-> v, lowFirst |-> b]
    OBVIOUS
  <2> QED BY <2>1, Zenon
<1>3. Swap(w) = [w EXCEPT !.lowFirst = (~w.lowFirst)]
  BY DEF Swap
<1>4. Word(v) = w
  BY DEF Word
<1> HIDE DEF w
<1> QED BY <1>1, <1>2, <1>3, <1>4, Zenon

LEMMA Outgoings ==
    ASSUME req \in Requests, stage \in 0 .. LastStage, Sending
    PROVE  /\ Len(Outgoing) = Goal /\ Goal \in Nat /\ Goal >= 1 /\ Low \in {0, 1}
           /\ Low + Goal <= Len(req.data) + 1
           /\ \A i \in 1 .. Goal : Swap(Word(Outgoing[i])) = Sent(Low + i)
<1>1. CASE stage = 2
  <2>1. Outgoing = <<req.cmd>>
    BY <1>1, Doings DEF Outgoing
  <2>2. Len(Outgoing) = 1 /\ Outgoing[1] = req.cmd
    BY <2>1
  <2> QED BY <1>1, <2>2, SwapWord, RequestFacts DEF Goal, Low, Sent
<1>2. CASE stage = 3 /\ IsWrite
  <2>1. Outgoing = req.data
    BY <1>2, Doings DEF Outgoing
  <2>2. \A i \in 1 .. Len(req.data) : Sent(1 + i) = [what |-> req.data[i], lowFirst |-> TRUE]
    <3>1. \A i \in 1 .. Len(req.data) : 1 + i # 1 /\ (1 + i) - 1 = i
      BY RequestFacts
    <3> QED BY <3>1 DEF Sent
  <2> QED BY <1>2, <2>1, <2>2, SwapWord, RequestFacts DEF Goal, Low
<1> QED BY <1>1, <1>2 DEF Sending

-----------------------------------------------------------------------------
(* What each action of a call does, by the numbers of the stages.          *)

Clients == {"probe", "write", "check", "run"}

ShapeInv ==
    /\ client \in Clients
    /\ req \in Requests /\ stage \in 0 .. LastStage
    /\ step \in {"begin", "ack", "put", "wait", "get"}
    /\ Sending => step # "get"
    /\ Getting => step \notin {"ack", "put"}
    /\ step # "begin" => Sending \/ Getting

LEMMA IsWriteStays == UNCHANGED req => (IsWrite' <=> IsWrite) /\ LastStage' = LastStage
BY DEF IsWrite, LastStage

LEMMA Selects ==
    ASSUME ShapeInv, Select
    PROVE  /\ (stage = 1 /\ stage' = 2) \/ (stage = 4 /\ ~IsWrite /\ stage' = 5)
           /\ step' = "begin" /\ selected' = TRUE /\ line' = <<>> /\ driven' = <<>>
           /\ UNCHANGED <<client, req, n, data, program, at, osr, tx, rx, irq>>
BY Doings DEF Select, ShapeInv, Advance, pio

LEMMA Deselects ==
    ASSUME ShapeInv, Deselect
    PROVE  /\ stage = 3 /\ ~IsWrite /\ stage' = 4
           /\ step' = "begin"
           /\ UNCHANGED <<client, req, n, data, program, at, osr, tx, rx, irq, line, driven>>
<1>1. Doing("deselect") /\ stage < LastStage /\ stage' = stage + 1
  BY Scripts DEF Deselect, Advance
<1>2. stage = 3 /\ ~IsWrite
  BY <1>1, Doings DEF LastStage, ShapeInv
<1> QED BY <1>1, <1>2 DEF Deselect, Advance, pio, wire

LEMMA Begins ==
    ASSUME ShapeInv, Begin
    PROVE  /\ Sending \/ Getting
           /\ step = "begin" /\ n' = 0
           /\ Sending => program' = "tx" /\ step' = "ack"
           /\ ~Sending => program' = "rx" /\ step' = "get"
           /\ at' = "run" /\ osr' = Empty /\ tx' = <<>> /\ rx' = <<>> /\ irq' = FALSE
           /\ UNCHANGED <<client, req, stage, data, selected, line, driven>>
BY Doings DEF Begin, ShapeInv, Load, chip, wire

LEMMA Puts ==
    ASSUME ShapeInv, Put
    PROVE  /\ Sending /\ step = "put" /\ Room
           /\ Push(Swap(Word(Outgoing[n + 1])))
           /\ n' = n + 1
           /\ step' = IF n + 1 < Goal THEN "ack" ELSE "wait"
           /\ UNCHANGED <<client, req, stage, data, program, at, rx, irq, selected, line, driven>>
<1>1. Sending
  BY Doings DEF Put, ShapeInv
<1> QED BY <1>1, Outgoings DEF Put, ShapeInv, chip, wire

LEMMA Acks ==
    ASSUME ShapeInv, Ack
    PROVE  /\ Sending /\ step = "ack" /\ irq' = FALSE /\ step' = "put"
           /\ UNCHANGED <<client, req, stage, n, data, program, at, osr, tx, rx, selected, line, driven>>
BY Doings DEF Ack, ShapeInv, chip, wire

LEMMA Flushes ==
    ASSUME ShapeInv, Flushed
    PROVE  /\ (stage = 2 /\ stage' = 3) \/ (stage = 3 /\ IsWrite /\ stage' = 4)
           /\ step = "wait" /\ step' = "begin" /\ irq
           /\ UNCHANGED <<client, req, n, data, program, at, osr, tx, rx, irq, selected, line, driven>>
BY Doings DEF Flushed, ShapeInv, Advance, Sending, pio, chip, wire

\* The words that this stage expects.
Due == IF stage = 5 THEN req.count ELSE 1

LEMMA Expecteds ==
    ASSUME ShapeInv, Getting
    PROVE  Expected = Due
BY Doings DEF Expected, Due, Getting, ShapeInv

LEMMA Gets ==
    ASSUME ShapeInv, Get
    PROVE  /\ Getting /\ step = "get" /\ step' = "wait"
           /\ rx # <<>> /\ rx' = Tail(rx) /\ n' = n + 1
           /\ data' = IF stage = 5 THEN Append(data, Swap(Head(rx))) ELSE data
           /\ UNCHANGED <<client, req, stage, program, at, osr, tx, irq, selected, line, driven>>
BY Doings DEF Get, ShapeInv, Getting, chip, wire

LEMMA Gots ==
    ASSUME ShapeInv, Got
    PROVE  /\ Getting /\ step = "wait" /\ irq
           /\ \/ n = Due /\ stage' = stage + 1 /\ step' = "begin" /\ UNCHANGED irq
              \/ n # Due /\ stage' = stage /\ step' = "get" /\ irq' = FALSE
           /\ UNCHANGED <<client, req, n, data, program, at, osr, tx, rx, selected, line, driven>>
BY Doings, Expecteds DEF Got, ShapeInv, Advance, chip, wire

LEMMA Returns ==
    ASSUME ShapeInv, Return
    PROVE  /\ stage = LastStage /\ stage' = 0 /\ step' = "begin" /\ client' \in Clients
           /\ UNCHANGED <<req, n, data, program, at, osr, tx, rx, irq, line, driven>>
<1>1. client' \in Clients
  BY DEF Return, AfterCall, ShapeInv, Clients
<1> QED BY <1>1, Scripts DEF Return, pio, wire

\* What Initialize asks for is a Read or a Write like any other.
LEMMA Firsts ==
    /\ [cmd |-> "read ro", data |-> <<>>, count |-> 1] \in Requests
    /\ [cmd |-> "read rw", data |-> <<>>, count |-> 1] \in Requests
    /\ [cmd |-> "write rw", data |-> <<"CAFE_F00D">>, count |-> 1] \in Requests
<1>1. 1 \in 1 .. MaxRead /\ 1 \in 1 .. MaxWrite
  BY GspiAssumption
<1>2. <<"CAFE_F00D">> \in [1 .. 1 -> Written]
  BY DEF Written
<1>3. <<"CAFE_F00D">> \in UNION {[1 .. k -> Written] : k \in 1 .. MaxWrite}
  BY <1>1, <1>2
<1> QED BY <1>1, <1>3 DEF Requests

LEMMA Wants ==
    ASSUME ShapeInv, NEW r \in Wanted
    PROVE  r \in Requests
BY Firsts DEF Wanted, ShapeInv, Clients

LEMMA Calls ==
    ASSUME ShapeInv, NextCall
    PROVE  /\ stage = 0 /\ stage' = 1 /\ step' = "begin" /\ data' = <<>> /\ req' \in Requests
           /\ UNCHANGED <<client, n, program, at, osr, tx, rx, irq, selected, line, driven>>
<1>1. PICK r \in Wanted : Call(r)
  BY DEF NextCall
<1>2. r \in Requests
  BY Wants
<1> QED BY <1>1, <1>2 DEF Call, pio, chip, wire

-----------------------------------------------------------------------------
(* The hand shake: who waits for whom, and in which stage.                 *)

\* Between two transfers of words the SM is blocked with its flag raised.
HandInv ==
    /\ irq => at = "blocked"
    /\ step = "begin" => irq \/ (program = "none" /\ at = "run")
    /\ step # "begin" => program = (IF Sending THEN "tx" ELSE "rx")
    /\ Getting /\ step # "begin" => at # "test"
    /\ Getting /\ step = "get" =>
          IF rx = <<>> THEN at \in {"run", "blocked"} /\ ~irq ELSE at = "raise" \/ irq
    /\ Getting /\ step = "wait" => rx = <<>> /\ (at = "raise" \/ irq)

SelectInv == Sending \/ Getting => selected

\* rx never holds two words.
RxInv == rx \in Seq(Words) /\ Len(rx) <= 1

LEMMA NextShape ==
    ASSUME ShapeInv, [Next]_vars
    PROVE  ShapeInv'
<1> USE IsWriteStays DEF ShapeInv, LastStage, Sending, Getting
<1>1. CASE Select
  <2>1. /\ step' = "begin" /\ UNCHANGED <<client, req>>
        /\ (stage' = 2 \/ (stage' = 5 /\ ~IsWrite))
    BY <1>1, Selects
  <2> QED BY <2>1
<1>2. CASE Deselect
  BY <1>2, Deselects
<1>3. CASE Return
  BY <1>3, Returns
<1>4. CASE Begin
  <2>1. /\ UNCHANGED <<client, req, stage>>
        /\ (Sending /\ step' = "ack") \/ (~Sending /\ Getting /\ step' = "get")
    BY <1>4, Begins
  <2> QED BY <2>1
<1>5. CASE Ack
  BY <1>5, Acks
<1>6. CASE Put
  BY <1>6, Puts
<1>7. CASE Flushed
  BY <1>7, Flushes
<1>8. CASE Get
  BY <1>8, Gets
<1>9. CASE Got
  <2>1. /\ UNCHANGED <<client, req>> /\ Getting
        /\ (stage' = stage + 1 /\ step' = "begin") \/ (stage' = stage /\ step' = "get")
    BY <1>9, Gots
  <2> QED BY <2>1
<1>10. CASE NextCall
  <2>1. stage' = 1 /\ step' = "begin" /\ req' \in Requests /\ client' = client
    BY <1>10, Calls
  <2> QED BY <2>1
<1>11. CASE SM \/ Boot \/ UNCHANGED vars
  <2>1. UNCHANGED cpu
    BY <1>11 DEF SM, ShiftOut, Test, ShiftIn, Raise, Resume, Boot, vars
  <2> QED BY <2>1 DEF cpu
<1> QED
  BY <1>1, <1>2, <1>3, <1>4, <1>5, <1>6, <1>7, <1>8, <1>9, <1>10, <1>11 DEF Next, InCall

LEMMA NextSelect ==
    ASSUME ShapeInv, SelectInv, [Next]_vars
    PROVE  SelectInv'
<1> USE IsWriteStays DEF SelectInv, Sending, Getting
<1>1. CASE Select
  BY <1>1, Selects
<1>2. CASE Deselect
  BY <1>2, Deselects
<1>3. CASE Return
  BY <1>3, Returns
<1>4. CASE Begin
  BY <1>4, Begins
<1>5. CASE Ack
  BY <1>5, Acks
<1>6. CASE Put
  BY <1>6, Puts
<1>7. CASE Flushed
  BY <1>7, Flushes
<1>8. CASE Get
  BY <1>8, Gets
<1>9. CASE Got
  BY <1>9, Gots
<1>10. CASE NextCall
  BY <1>10, Calls
<1>11. CASE SM \/ Boot \/ UNCHANGED vars
  <2>1. UNCHANGED <<cpu, selected>>
    BY <1>11 DEF SM, ShiftOut, Test, ShiftIn, Raise, Resume, Boot, vars, chip
  <2> QED BY <2>1 DEF cpu
<1> QED
  BY <1>1, <1>2, <1>3, <1>4, <1>5, <1>6, <1>7, <1>8, <1>9, <1>10, <1>11 DEF Next, InCall

LEMMA NextHand ==
    ASSUME ShapeInv, HandInv, RxInv, [Next]_vars
    PROVE  HandInv'
<1> USE IsWriteStays DEF HandInv, Sending, Getting
<1>1. CASE Select
  <2>1. step = "begin" /\ step' = "begin" /\ UNCHANGED <<irq, program, at>>
    <3>1. step' = "begin" /\ UNCHANGED <<irq, program, at>> /\ ~Sending /\ ~Getting
      BY <1>1, Selects
    <3> QED BY <3>1 DEF ShapeInv
  <2> QED BY <2>1
<1>2. CASE Deselect
  BY <1>2, Deselects DEF ShapeInv
<1>3. CASE Return
  <2>1. step = "begin" /\ step' = "begin" /\ UNCHANGED <<irq, program, at>>
    BY <1>3, Returns DEF ShapeInv, LastStage
  <2> QED BY <2>1
<1>4. CASE Begin
  BY <1>4, Begins
<1>5. CASE Ack
  BY <1>5, Acks
<1>6. CASE Put
  BY <1>6, Puts
<1>7. CASE Flushed
  BY <1>7, Flushes
<1>8. CASE Get
  <2>1. Tail(rx) = <<>>
    BY <1>8, Gets DEF RxInv
  <2>2. /\ Getting /\ step = "get" /\ step' = "wait" /\ rx # <<>> /\ rx' = <<>>
        /\ UNCHANGED <<req, stage, program, at, irq>>
    BY <1>8, <2>1, Gets
  <2> QED BY <2>2
<1>9. CASE Got
  BY <1>9, Gots
<1>10. CASE NextCall
  BY <1>10, Calls DEF ShapeInv
<1>11. CASE ShiftOut \/ Test \/ Raise \/ Resume
  BY <1>11 DEF ShapeInv, ShiftOut, Test, Raise, Resume, cpu
<1>12. CASE ShiftIn
  <2>1. rx' # <<>>
    BY <1>12 DEF ShiftIn, RxInv
  <2> QED BY <1>12, <2>1 DEF ShapeInv, ShiftIn, cpu
<1>13. CASE Boot \/ UNCHANGED vars
  BY <1>13 DEF Boot, vars, cpu, pio
<1> QED
  BY <1>1, <1>2, <1>3, <1>4, <1>5, <1>6, <1>7, <1>8, <1>9, <1>10, <1>11, <1>12, <1>13
     DEF Next, InCall, SM

-----------------------------------------------------------------------------
(* What each step of the SM does.                                          *)

LEMMA ShiftsOut ==
    ASSUME ShapeInv, HandInv, ShiftOut
    PROVE  /\ Sending /\ step # "begin"
           /\ at = "run" /\ at' = "test" /\ osr # Empty
           /\ line' = Append(line, osr) /\ Take(osr)
           /\ IF tx = <<>> THEN osr' = Empty /\ tx' = tx ELSE osr' = Head(tx) /\ tx' = Tail(tx)
           /\ UNCHANGED <<client, req, stage, step, n, data, program, rx, irq, selected, driven>>
<1>1. program = "tx" /\ at = "run"
  BY DEF ShiftOut
<1>2. ~irq
  BY <1>1 DEF HandInv
<1>3. Sending /\ step # "begin"
  BY <1>1, <1>2 DEF HandInv
<1> QED BY <1>1, <1>3 DEF ShiftOut, cpu

LEMMA ShiftsIn ==
    ASSUME ShapeInv, HandInv, rw \in Values, ShiftIn
    PROVE  /\ Getting /\ step # "begin"
           /\ at = "run" /\ at' = "raise" /\ rx = <<>>
           /\ \E w \in Words : driven' = Append(driven, w) /\ rx' = <<w>>
           /\ UNCHANGED <<client, req, stage, step, n, data, program, osr, tx, irq, selected, line>>
<1>1. program = "rx" /\ at = "run"
  BY DEF ShiftIn
<1>2. ~irq
  BY <1>1 DEF HandInv
<1>3. ~Sending /\ step # "begin"
  BY <1>1, <1>2 DEF HandInv
<1>4. Getting
  BY <1>3 DEF ShapeInv
<1>5. rx = <<>>
  <2>1. step \in {"get", "wait"}
    BY <1>3, <1>4 DEF ShapeInv
  <2> QED BY <1>1, <1>2, <1>4, <2>1 DEF HandInv
<1>6. PICK v \in Drives : LET w == [what |-> v, lowFirst |-> TRUE] IN
          driven' = Append(driven, w) /\ rx' = Append(rx, w)
  BY DEF ShiftIn
<1> DEFINE w == [what |-> v, lowFirst |-> TRUE]
<1>7. v \in Values
  BY DEF Drives, Values
<1>8. w \in Words
  BY <1>7 DEF Words
<1> HIDE DEF w
<1>9. Append(<<>>, w) = <<w>>
  OBVIOUS
<1>10. driven' = Append(driven, w) /\ rx' = <<w>>
  BY <1>5, <1>6, <1>9 DEF w
<1>11. \E x \in Words : driven' = Append(driven, x) /\ rx' = <<x>>
  BY <1>8, <1>10
<1> QED BY <1>1, <1>3, <1>4, <1>5, <1>11 DEF ShiftIn, cpu, chip

\* Steps of the SM between two words.
Between == Test \/ Raise \/ Resume

LEMMA Betweens ==
    ASSUME Between
    PROVE  /\ at # "run"
           /\ UNCHANGED <<client, req, stage, step, n, data, program, osr, tx, rx, selected,
                          line, driven>>
BY DEF Between, Test, Raise, Resume, cpu, chip, wire

LEMMA Idles ==
    ASSUME Boot \/ UNCHANGED vars
    PROVE  UNCHANGED <<client, req, stage, step, n, data, program, at, osr, tx, rx, irq, selected,
                       line, driven>>
BY DEF Boot, cpu, pio, wire, vars, chip

\* Nothing is clocked while CS is high.
LEMMA ClocksSelected ==
    ASSUME ShapeInv, HandInv, SelectInv, rw \in Values, [Next]_vars,
           line' # line \/ driven' # driven
    PROVE  selected'
<1>1. CASE ShiftOut
  BY <1>1, ShiftsOut DEF SelectInv
<1>2. CASE ShiftIn
  BY <1>2, ShiftsIn DEF SelectInv
<1>3. CASE Select
  BY <1>3 DEF Select
<1>4. CASE ~(ShiftOut \/ ShiftIn \/ Select)
  <2>1. UNCHANGED wire
    BY <1>4 DEF Next, InCall, NextCall, SM, Deselect, Return, Begin, Ack, Put, Flushed, Get, Got,
       Call, Test, Raise, Resume, Boot, vars
  <2> QED BY <2>1 DEF wire
<1> QED BY <1>1, <1>2, <1>3, <1>4

-----------------------------------------------------------------------------
(* Words on their way to the chip.                                         *)

LineInv ==
    /\ Sending \/ (stage \in {4, 5} /\ IsWrite) \/ (stage = 3 /\ ~IsWrite) =>
          \A i \in 1 .. Len(line) : line[i] = Sent(i)
    /\ Sending /\ step = "begin" => Len(line) = Low
    /\ stage \in {4, 5} /\ IsWrite => Len(line) \in 2 .. Len(req.data) + 1
    /\ stage = 3 /\ ~IsWrite => Len(line) = 1
    /\ stage \in {5, 6, 7} /\ ~IsWrite => line = <<>>

\* Of the n words that were put, those that are not on the wire wait in the
\* shift register and the FIFO, in their order.
Waiting ==
    IF osr = Empty
    THEN tx = <<>> /\ Len(line) = Low + n
    ELSE /\ Len(line) + 1 + Len(tx) = Low + n
         /\ osr = Sent(Len(line) + 1)
         /\ \A i \in 1 .. Len(tx) : tx[i] = Sent(Len(line) + 1 + i)

QueueInv ==
    Sending /\ step # "begin" =>
        /\ n \in 0 .. Goal
        /\ step \in {"ack", "put"} => n < Goal
        /\ step = "wait" => n = Goal
        /\ Waiting
        /\ Len(line) >= Low
        /\ at # "run" => Len(line) > Low

SentType == line \in Seq(Words) /\ tx \in Seq(Words)

LEMMA SameQueue ==
    ASSUME QueueInv, UNCHANGED <<req, stage, osr, tx, line>>, n' = n,
           step' = step \/ (step = "ack" /\ step' = "put"),
           at' = at \/ at # "run"
    PROVE  QueueInv'
<1>1. (IsWrite' <=> IsWrite) /\ Goal' = Goal /\ Low' = Low /\ \A i : Sent(i)' = Sent(i)
  BY DEF IsWrite, Goal, Low, Sent
<1> QED BY <1>1 DEF QueueInv, Waiting, Sending

LEMMA PutQueue ==
    ASSUME ShapeInv, QueueInv, SentType, Put
    PROVE  QueueInv'
<1>1. /\ Sending /\ step = "put" /\ n' = n + 1
      /\ Push(Swap(Word(Outgoing[n + 1])))
      /\ step' = IF n + 1 < Goal THEN "ack" ELSE "wait"
      /\ UNCHANGED <<req, stage, at, line>>
  BY Puts
<1>2. /\ Goal \in Nat /\ Low \in {0, 1} /\ Low + Goal <= Len(req.data) + 1
      /\ n \in 0 .. Goal /\ n < Goal /\ Len(line) >= Low /\ (at # "run" => Len(line) > Low)
      /\ Waiting /\ Len(line) \in Nat /\ Len(tx) \in Nat
  BY <1>1, Outgoings DEF QueueInv, SentType, ShapeInv
<1>3. Swap(Word(Outgoing[n + 1])) = Sent(Low + (n + 1))
  BY <1>1, <1>2, Outgoings DEF ShapeInv
<1>4. (IsWrite' <=> IsWrite) /\ Goal' = Goal /\ Low' = Low /\ \A i : Sent(i)' = Sent(i)
  BY <1>1 DEF IsWrite, Goal, Low, Sent
<1>5. Sent(Low + (n + 1)) \in Words /\ Sent(Low + (n + 1)) # Empty
  BY <1>2, SentFacts, RequestFacts DEF ShapeInv
<1>6. Waiting'
  <2>1. CASE osr = Empty
    <3>1. osr' = Sent(Low + (n + 1)) /\ tx' = tx /\ tx = <<>> /\ Len(line) = Low + n
      BY <1>1, <1>2, <1>3, <2>1 DEF Push, Waiting
    <3> QED BY <1>1, <1>2, <1>4, <1>5, <3>1 DEF Waiting
  <2>2. CASE osr # Empty
    <3>1. osr' = osr /\ tx' = Append(tx, Sent(Low + (n + 1)))
      BY <1>1, <1>3, <2>2 DEF Push
    <3>2. /\ Len(line) + 1 + Len(tx) = Low + n /\ osr = Sent(Len(line) + 1)
          /\ \A i \in 1 .. Len(tx) : tx[i] = Sent(Len(line) + 1 + i)
      BY <1>2, <2>2 DEF Waiting
    <3>3. /\ Len(tx') = Len(tx) + 1 /\ tx'[Len(tx) + 1] = Sent(Low + (n + 1))
          /\ \A i \in 1 .. Len(tx) : tx'[i] = tx[i]
      BY <1>5, <3>1 DEF SentType
    <3>4. Len(line) + 1 + (Len(tx) + 1) = Low + (n + 1)
      <4>1. n \in Nat /\ Low \in Nat /\ Len(line) \in Nat /\ Len(tx) \in Nat
        BY <1>2
      <4>2. Len(line) + 1 + Len(tx) = Low + n
        BY <3>2
      <4> QED BY <4>1, <4>2
    <3>5. \A i \in 1 .. Len(tx') : tx'[i] = Sent(Len(line) + 1 + i)
      <4>1. \A i \in 1 .. Len(tx') : i \in 1 .. Len(tx) \/ i = Len(tx) + 1
        BY <1>2, <3>3
      <4> QED BY <3>2, <3>3, <3>4, <4>1
    <3> QED BY <1>1, <1>2, <1>4, <2>2, <3>1, <3>2, <3>3, <3>4, <3>5 DEF Waiting
  <2> QED BY <2>1, <2>2
<1>7. (n + 1 < Goal => step' = "ack") /\ (~(n + 1 < Goal) => step' = "wait")
  BY <1>1
<1> QED BY <1>1, <1>2, <1>4, <1>6, <1>7 DEF QueueInv

LEMMA ShiftOutQueue ==
    ASSUME ShapeInv, HandInv, QueueInv, SentType, ShiftOut
    PROVE  QueueInv'
<1>1. /\ Sending /\ step # "begin" /\ osr # Empty /\ line' = Append(line, osr)
      /\ IF tx = <<>> THEN osr' = Empty /\ tx' = tx ELSE osr' = Head(tx) /\ tx' = Tail(tx)
      /\ UNCHANGED <<req, stage, step, n>>
  BY ShiftsOut
<1>2. /\ Low \in {0, 1} /\ n \in Nat /\ Len(line) >= Low /\ Len(line) \in Nat /\ Len(tx) \in Nat
      /\ Len(line) + 1 + Len(tx) = Low + n
      /\ \A i \in 1 .. Len(tx) : tx[i] = Sent(Len(line) + 1 + i)
      /\ Low + n <= Len(req.data) + 1
  BY <1>1, Outgoings DEF QueueInv, Waiting, SentType, ShapeInv
<1>3. (IsWrite' <=> IsWrite) /\ Goal' = Goal /\ Low' = Low /\ \A i : Sent(i)' = Sent(i)
  BY <1>1 DEF IsWrite, Goal, Low, Sent
<1>4. Len(line') = Len(line) + 1
  BY <1>1 DEF SentType
<1>5. Waiting'
  <2>1. CASE tx = <<>>
    <3>1. Len(tx) = 0
      BY <2>1
    <3> QED BY <1>1, <1>2, <1>3, <1>4, <2>1, <3>1 DEF Waiting
  <2>2. CASE tx # <<>>
    <3>1. /\ osr' = tx[1] /\ tx' = Tail(tx) /\ Len(tx') = Len(tx) - 1 /\ Len(tx) >= 1
          /\ \A i \in 1 .. Len(tx) - 1 : tx'[i] = tx[i + 1]
      <4>1. osr' = Head(tx) /\ tx' = Tail(tx)
        BY <1>1, <2>2
      <4>2. Len(tx) >= 1 /\ Head(tx) = tx[1]
        BY <2>2 DEF SentType
      <4>3. Len(Tail(tx)) = Len(tx) - 1 /\ \A i \in 1 .. Len(tx) - 1 : Tail(tx)[i] = tx[i + 1]
        BY <2>2 DEF SentType
      <4> QED BY <4>1, <4>2, <4>3
    <3>2. osr' = Sent(Len(line') + 1) /\ Len(line') + 1 + Len(tx') = Low + n
      <4>1. /\ n \in Nat /\ Low \in Nat /\ Len(line) \in Nat /\ Len(tx) \in Nat
            /\ Len(line) + 1 + Len(tx) = Low + n
        BY <1>2
      <4>2. Len(tx') = Len(tx) - 1 /\ Len(tx) >= 1
        BY <3>1
      <4>3. Len(line') + 1 + Len(tx') = Low + n /\ 1 \in 1 .. Len(tx)
            /\ Len(line) + 1 + 1 = Len(line') + 1
        BY <1>4, <4>1, <4>2
      <4> QED BY <1>2, <3>1, <4>3
    <3>3. Len(line') + 1 \in 1 .. Len(req.data) + 1
      BY <1>2, <1>4, <3>1
    <3>4. osr' # Empty
      BY <3>2, <3>3, SentFacts DEF ShapeInv
    <3>5. \A i \in 1 .. Len(tx') : tx'[i] = Sent(Len(line') + 1 + i)
      <4>1. ASSUME NEW i \in 1 .. Len(tx')
            PROVE  tx'[i] = Sent(Len(line') + 1 + i)
        <5>1. i + 1 \in 1 .. Len(tx) /\ i \in 1 .. Len(tx) - 1
              /\ Len(line') + 1 + i = Len(line) + 1 + (i + 1)
          BY <1>2, <1>4, <3>1
        <5> QED BY <1>2, <3>1, <5>1
      <4> QED BY <4>1
    <3> QED BY <1>1, <1>3, <3>2, <3>4, <3>5 DEF Waiting
  <2> QED BY <2>1, <2>2
<1>6. Len(line') > Low
  BY <1>2, <1>4
<1> QED BY <1>1, <1>2, <1>3, <1>5, <1>6 DEF QueueInv, Sending

LEMMA BeginQueue ==
    ASSUME ShapeInv, LineInv, SentType, Begin
    PROVE  QueueInv'
<1>1. /\ step = "begin" /\ n' = 0 /\ osr' = Empty /\ tx' = <<>> /\ at' = "run"
      /\ (Sending => step' = "ack") /\ UNCHANGED <<req, stage, line>>
  BY Begins
<1>2. (IsWrite' <=> IsWrite) /\ Goal' = Goal /\ Low' = Low
  BY <1>1 DEF IsWrite, Goal, Low
<1>3. CASE Sending
  <2>1. Len(line) = Low /\ Low \in {0, 1} /\ Goal \in Nat /\ Goal >= 1
    BY <1>1, <1>3, Outgoings DEF LineInv, ShapeInv
  <2>2. Waiting'
    BY <1>1, <1>2, <2>1 DEF Waiting
  <2> QED BY <1>1, <1>2, <1>3, <2>1, <2>2 DEF QueueInv
<1>4. CASE ~Sending
  BY <1>1, <1>2, <1>4 DEF QueueInv, Sending
<1> QED BY <1>3, <1>4

LEMMA NextQueue ==
    ASSUME ShapeInv, HandInv, LineInv, QueueInv, SentType, rw \in Values, [Next]_vars
    PROVE  QueueInv'
<1>1. CASE Select
  BY <1>1, Selects DEF QueueInv
<1>2. CASE Deselect
  BY <1>2, Deselects DEF QueueInv
<1>3. CASE Return
  BY <1>3, Returns DEF QueueInv
<1>4. CASE Begin
  BY <1>4, BeginQueue
<1>5. CASE Ack
  <2>1. /\ step = "ack" /\ step' = "put" /\ UNCHANGED <<req, stage, n, at, osr, tx, line>>
    BY <1>5, Acks
  <2> QED BY <2>1, SameQueue
<1>6. CASE Put
  BY <1>6, PutQueue
<1>7. CASE Flushed
  BY <1>7, Flushes DEF QueueInv
<1>8. CASE Get
  <2>1. Getting /\ UNCHANGED <<req, stage>>
    BY <1>8, Gets
  <2> QED BY <2>1, IsWriteStays DEF QueueInv, Sending, Getting
<1>9. CASE Got
  <2>1. Getting /\ UNCHANGED req /\ (step' = "begin" \/ stage' = stage)
    BY <1>9, Gots
  <2> QED BY <2>1, IsWriteStays DEF QueueInv, Sending, Getting
<1>10. CASE NextCall
  BY <1>10, Calls DEF QueueInv
<1>11. CASE ShiftOut
  BY <1>11, ShiftOutQueue
<1>12. CASE ShiftIn
  <2>1. Getting /\ UNCHANGED <<req, stage>>
    BY <1>12, ShiftsIn
  <2> QED BY <2>1, IsWriteStays DEF QueueInv, Sending, Getting
<1>13. CASE Between
  <2>1. /\ at # "run" /\ UNCHANGED <<req, stage, step, n, osr, tx, line>>
    BY <1>13, Betweens
  <2> QED BY <2>1, SameQueue
<1>14. CASE Boot \/ UNCHANGED vars
  BY <1>14, Idles, SameQueue
<1> QED
  BY <1>1, <1>2, <1>3, <1>4, <1>5, <1>6, <1>7, <1>8, <1>9, <1>10, <1>11, <1>12, <1>13, <1>14
     DEF Next, InCall, SM, Between

LEMMA SameLine ==
    ASSUME LineInv, UNCHANGED <<req, stage, line>>, step' = step \/ step' # "begin"
    PROVE  LineInv'
<1>1. /\ IsWrite' <=> IsWrite
      /\ Sending' <=> Sending
      /\ Low' = Low
      /\ \A i : Sent(i)' = Sent(i)
  BY DEF IsWrite, Low, Sent, Sending
<1> QED BY <1>1 DEF LineInv

LEMMA SelectLine ==
    ASSUME ShapeInv, Select
    PROVE  LineInv'
<1>1. /\ (stage' = 2 \/ (stage' = 5 /\ ~IsWrite)) /\ line' = <<>> /\ UNCHANGED req
  BY Selects
<1>2. Len(line') = 0 /\ (IsWrite' <=> IsWrite)
  BY <1>1, IsWriteStays
<1> QED BY <1>1, <1>2 DEF LineInv, Sending, Low

\* All the words of a command are on the wire when Transmit returns, and of the
\* data at least one.
LEMMA FlushedLine ==
    ASSUME ShapeInv, HandInv, LineInv, QueueInv, SentType, Flushed
    PROVE  LineInv'
<1>1. /\ (stage = 2 /\ stage' = 3) \/ (stage = 3 /\ IsWrite /\ stage' = 4)
      /\ step = "wait" /\ step' = "begin" /\ irq /\ UNCHANGED <<req, line>>
  BY Flushes
<1>2. Sending
  BY <1>1 DEF Sending
<1>3. /\ Len(line) > Low /\ n = Goal /\ Waiting
      /\ \A i \in 1 .. Len(line) : line[i] = Sent(i)
  BY <1>1, <1>2 DEF HandInv, QueueInv, LineInv
<1>4. Len(line) \in Nat /\ Len(tx) \in Nat /\ Goal \in Nat /\ Low \in {0, 1}
      /\ Low + Goal <= Len(req.data) + 1
  BY <1>2, Outgoings DEF SentType, ShapeInv
<1>5. Len(line) <= Low + Goal
  <2>1. CASE osr = Empty
    BY <1>3, <1>4, <2>1 DEF Waiting
  <2>2. CASE osr # Empty
    <3>1. Len(line) + 1 + Len(tx) = Low + Goal
      BY <1>3, <2>2 DEF Waiting
    <3> QED BY <1>4, <3>1
  <2> QED BY <2>1, <2>2
<1>6. /\ IsWrite' <=> IsWrite
      /\ \A i : Sent(i)' = Sent(i)
  BY <1>1 DEF IsWrite, Sent
<1>7. CASE stage = 2
  <2>1. Len(line) = 1
    BY <1>3, <1>4, <1>5, <1>7 DEF Low, Goal
  <2> QED BY <1>1, <1>3, <1>6, <1>7, <2>1 DEF LineInv, Sending, Low
<1>8. CASE stage = 3
  <2>1. Len(line) \in 2 .. Len(req.data) + 1
    BY <1>3, <1>4, <1>5, <1>8, RequestFacts DEF Low, Goal, ShapeInv
  <2> QED BY <1>1, <1>3, <1>6, <1>8, <2>1 DEF LineInv, Sending, Low
<1> QED BY <1>1, <1>7, <1>8

LEMMA ShiftOutLine ==
    ASSUME ShapeInv, HandInv, LineInv, QueueInv, SentType, osr \in Words \cup {Empty}, ShiftOut
    PROVE  LineInv'
<1>1. /\ Sending /\ step # "begin" /\ osr # Empty /\ line' = Append(line, osr)
      /\ UNCHANGED <<req, stage, step>>
  BY ShiftsOut
<1>2. osr = Sent(Len(line) + 1) /\ \A i \in 1 .. Len(line) : line[i] = Sent(i)
  BY <1>1 DEF QueueInv, Waiting, LineInv
<1>3. /\ IsWrite' <=> IsWrite
      /\ Sending' <=> Sending
      /\ \A i : Sent(i)' = Sent(i)
  BY <1>1 DEF IsWrite, Sent, Sending
<1>4. \A i \in 1 .. Len(line') : line'[i] = Sent(i)
  <2>1. /\ Len(line') = Len(line) + 1 /\ Len(line) \in Nat /\ line'[Len(line) + 1] = osr
        /\ \A i \in 1 .. Len(line) : line'[i] = line[i]
    BY <1>1 DEF SentType
  <2>2. \A i \in 1 .. Len(line') : i \in 1 .. Len(line) \/ i = Len(line) + 1
    BY <2>1
  <2> QED BY <1>2, <2>1, <2>2
<1>5. Sending => ~(stage \in {4, 5} /\ IsWrite) /\ ~(stage = 3 /\ ~IsWrite)
                 /\ ~(stage \in {5, 6, 7} /\ ~IsWrite)
  BY DEF Sending
<1> QED BY <1>1, <1>3, <1>4, <1>5 DEF LineInv

LEMMA NextLine ==
    ASSUME ShapeInv, HandInv, LineInv, QueueInv, SentType, osr \in Words \cup {Empty},
           rw \in Values, [Next]_vars
    PROVE  LineInv'
<1>1. CASE Select
  BY <1>1, SelectLine
<1>2. CASE Deselect
  <2>1. stage = 3 /\ ~IsWrite /\ stage' = 4 /\ (IsWrite' <=> IsWrite)
    BY <1>2, Deselects, IsWriteStays
  <2> QED BY <2>1 DEF LineInv, Sending
<1>3. CASE Return
  <2>1. stage' = 0
    BY <1>3, Returns
  <2> QED BY <2>1 DEF LineInv, Sending
<1>4. CASE Begin
  <2>1. UNCHANGED <<req, stage, line>> /\ step' # "begin"
    BY <1>4, Begins
  <2> QED BY <2>1, SameLine
<1>5. CASE Ack
  <2>1. UNCHANGED <<req, stage, line>> /\ step' # "begin"
    BY <1>5, Acks
  <2> QED BY <2>1, SameLine
<1>6. CASE Put
  <2>1. UNCHANGED <<req, stage, line>> /\ step' # "begin"
    BY <1>6, Puts
  <2> QED BY <2>1, SameLine
<1>7. CASE Flushed
  BY <1>7, FlushedLine
<1>8. CASE Get
  <2>1. UNCHANGED <<req, stage, line>> /\ step' # "begin"
    BY <1>8, Gets
  <2> QED BY <2>1, SameLine
<1>9. CASE Got
  <2>1. Getting /\ UNCHANGED <<req, line>>
        /\ ((stage' = stage + 1 /\ step' = "begin") \/ (stage' = stage /\ step' = "get"))
    BY <1>9, Gots
  <2>2. CASE stage' = stage /\ step' = "get"
    BY <2>1, <2>2, SameLine
  <2>3. CASE stage' = stage + 1
    <3>1. /\ IsWrite' <=> IsWrite
          /\ ~Sending' /\ ~Sending /\ stage' # 3 /\ stage' # 4
          /\ stage' = 5 => IsWrite /\ stage = 4
          /\ \A i : Sent(i)' = Sent(i)
      BY <2>1, <2>3, IsWriteStays DEF Getting, Sending, Sent
    <3> QED BY <2>1, <2>3, <3>1 DEF LineInv, Getting
  <2> QED BY <2>1, <2>2, <2>3
<1>10. CASE NextCall
  <2>1. stage' = 1
    BY <1>10, Calls
  <2> QED BY <2>1 DEF LineInv, Sending
<1>11. CASE ShiftOut
  BY <1>11, ShiftOutLine
<1>12. CASE ShiftIn
  BY <1>12, ShiftsIn, SameLine
<1>13. CASE Between
  BY <1>13, Betweens, SameLine
<1>14. CASE Boot \/ UNCHANGED vars
  BY <1>14, Idles, SameLine
<1> QED
  BY <1>1, <1>2, <1>3, <1>4, <1>5, <1>6, <1>7, <1>8, <1>9, <1>10, <1>11, <1>12, <1>13, <1>14
     DEF Next, InCall, SM, Between

-----------------------------------------------------------------------------
(* Types.                                                                  *)

WordType ==
    /\ n \in Nat /\ data \in Seq(Words) /\ rx \in Seq(Words) /\ driven \in Seq(Words)
    /\ osr \in Words \cup {Empty}

RoomInv == Len(tx) <= Depth

ChipType ==
    /\ program \in {"none", "tx", "rx"} /\ at \in {"run", "test", "raise", "blocked"}
    /\ cmd \in Commands \cup {"none"} /\ rw \in Values /\ faults \in 0 .. MaxFaults

FlagType == irq \in BOOLEAN /\ selected \in BOOLEAN /\ booted \in BOOLEAN

LEMMA SwapType ==
    ASSUME NEW w \in Words
    PROVE  Swap(w) \in Words
<1> DEFINE b == ~w.lowFirst
<1>1. b \in BOOLEAN
  OBVIOUS
<1>2. Swap(w) = [w EXCEPT !.lowFirst = b]
  BY DEF Swap
<1> HIDE DEF b
<1>3. [w EXCEPT !.lowFirst = b] \in Words
  BY <1>1 DEF Words
<1> QED BY <1>2, <1>3

\* The second word of a transfer is data, since a command has a single word.
LEMMA TakeType ==
    ASSUME ShapeInv, HandInv, QueueInv, SentType, ChipType, WordType, ShiftOut
    PROVE  cmd' \in Commands \cup {"none"} /\ rw' \in Values /\ faults' \in 0 .. MaxFaults
<1>1. Sending /\ step # "begin" /\ Take(osr) /\ osr # Empty
  BY ShiftsOut
<1>2. /\ osr = Sent(Len(line) + 1) /\ Len(line) + 1 + Len(tx) = Low + n /\ n <= Goal
      /\ n \in Nat /\ Len(line) \in Nat /\ Len(tx) \in Nat
  BY <1>1, Outgoings DEF QueueInv, Waiting, SentType, ShapeInv
<1>3. ASSUME Len(line) = 1
      PROVE  Seen(osr) \in Values
  <2>1. stage = 3 /\ IsWrite
    <3>1. ASSUME stage = 2 PROVE FALSE
      <4>1. Low = 0 /\ Goal = 1
        BY <3>1 DEF Low, Goal
      <4> QED BY <1>2, <1>3, <4>1
    <3> QED BY <1>1, <3>1 DEF Sending
  <2>2. Len(req.data) >= 1 /\ 1 \in 1 .. Len(req.data) /\ req.data \in Seq(Written)
    BY <2>1, RequestFacts DEF ShapeInv
  <2>3. req.data[1] \in Written
    BY <2>2
  <2>4. Seen(osr) = req.data[1]
    <3>1. Len(line) + 1 = 2
      BY <1>3
    <3> QED BY <1>2, <3>1 DEF Sent, Seen
  <2> QED BY <2>3, <2>4 DEF Written, Values
<1>4. cmd' \in Commands \cup {"none"}
  BY <1>1 DEF Take, ChipType
<1>5. rw' \in Values
  BY <1>1, <1>3 DEF Take, ChipType
<1>6. faults' \in 0 .. MaxFaults
  <2>1. faults' = faults \/ (faults < MaxFaults /\ faults' = faults + 1)
    BY <1>1 DEF Take
  <2> QED BY <2>1, GspiAssumption DEF ChipType
<1> QED BY <1>4, <1>5, <1>6

LEMMA NextChipType ==
    ASSUME ShapeInv, HandInv, QueueInv, SentType, WordType, ChipType, [Next]_vars
    PROVE  ChipType'
<1>1. UNCHANGED <<cmd, rw, faults>> \/ ShiftOut \/ (cmd' = "none" /\ UNCHANGED <<rw, faults>>)
  BY DEF Next, InCall, NextCall, SM, Select, Deselect, Return, Begin, Ack, Put, Flushed, Get, Got,
     Call, Test, ShiftIn, Raise, Resume, Boot, vars, chip
<1>2. cmd' \in Commands \cup {"none"} /\ rw' \in Values /\ faults' \in 0 .. MaxFaults
  BY <1>1, TakeType DEF ChipType
<1>3. program' \in {"none", "tx", "rx"}
  BY DEF Next, InCall, NextCall, SM, Select, Deselect, Return, Begin, Load, Ack, Put, Flushed,
     Get, Got, Call, ShiftOut, Test, ShiftIn, Raise, Resume, Boot, vars, pio, ChipType
<1>4. at' \in {"run", "test", "raise", "blocked"}
  BY DEF Next, InCall, NextCall, SM, Select, Deselect, Return, Begin, Load, Ack, Put, Flushed,
     Get, Got, Call, ShiftOut, Test, ShiftIn, Raise, Resume, Boot, vars, pio, ChipType
<1> QED BY <1>2, <1>3, <1>4 DEF ChipType

LEMMA NextFlagType ==
    ASSUME FlagType, [Next]_vars
    PROVE  FlagType'
<1>1. UNCHANGED irq \/ irq' \in {TRUE, FALSE}
  BY DEF Next, InCall, NextCall, SM, Select, Deselect, Return, Begin, Load, Ack, Put, Flushed,
     Get, Got, Call, ShiftOut, Test, ShiftIn, Raise, Resume, Boot, vars, pio
<1>2. UNCHANGED selected \/ selected' \in {TRUE, FALSE}
  BY DEF Next, InCall, NextCall, SM, Select, Deselect, Return, Begin, Load, Ack, Put, Flushed,
     Get, Got, Call, ShiftOut, Test, ShiftIn, Raise, Resume, Boot, vars, chip
<1>3. UNCHANGED booted \/ booted' \in {TRUE, FALSE}
  BY DEF Next, InCall, NextCall, SM, Select, Deselect, Return, Begin, Load, Ack, Put, Flushed,
     Get, Got, Call, ShiftOut, Test, ShiftIn, Raise, Resume, Boot, vars, chip
<1> QED BY <1>1, <1>2, <1>3 DEF FlagType

\* The words that a step leaves or moves are words.
LEMMA NextWordType ==
    ASSUME ShapeInv, HandInv, QueueInv, SentType, WordType, RoomInv, ChipType, [Next]_vars
    PROVE  WordType' /\ SentType' /\ RoomInv'
<1> USE DEF WordType, SentType, RoomInv
<1>0. Len(<<>>) <= Depth /\ <<>> \in Seq(Words)
  BY DEF Depth
<1>1. CASE Select
  BY <1>0, <1>1, Selects
<1>2. CASE Deselect \/ Return \/ Ack \/ Flushed \/ Got \/ NextCall
  <2>1. (data' = data \/ data' = <<>>) /\ UNCHANGED <<n, osr, tx, rx, line, driven>>
    BY <1>2, Deselects, Returns, Acks, Flushes, Gots, Calls
  <2> QED BY <1>0, <2>1
<1>3. CASE Begin
  BY <1>0, <1>3, Begins
<1>4. CASE Put
  <2>1. /\ Sending /\ step = "put" /\ Room /\ Push(Swap(Word(Outgoing[n + 1]))) /\ n' = n + 1
        /\ UNCHANGED <<data, rx, line, driven>>
    BY <1>4, Puts
  <2>2. n + 1 \in 1 .. Goal /\ Low \in {0, 1} /\ Low + Goal <= Len(req.data) + 1 /\ Goal \in Nat
    BY <2>1, Outgoings DEF QueueInv, ShapeInv
  <2>3. Low + (n + 1) \in 1 .. Len(req.data) + 1
    BY <2>2, RequestFacts DEF ShapeInv
  <2>4. Swap(Word(Outgoing[n + 1])) \in Words
    BY <2>1, <2>2, <2>3, Outgoings, SentFacts DEF ShapeInv
  <2> DEFINE w == Swap(Word(Outgoing[n + 1]))
  <2>5. (osr' = w /\ tx' = tx) \/ (tx' = Append(tx, w) /\ osr' = osr)
    BY <2>1 DEF Push
  <2> HIDE DEF w
  <2>6. w \in Words
    BY <2>4 DEF w
  <2>7. Len(Append(tx, w)) = Len(tx) + 1 /\ Append(tx, w) \in Seq(Words) /\ Len(tx) + 1 <= Depth
    BY <2>1, <2>6 DEF Room, Depth
  <2>8. n' \in Nat /\ UNCHANGED <<data, rx, line, driven>>
    BY <2>1
  <2>9. osr' \in Words \cup {Empty} /\ tx' \in Seq(Words) /\ Len(tx') <= Depth
    BY <2>5, <2>6, <2>7
  <2> QED BY <2>8, <2>9
<1>5. CASE Get
  <2>1. /\ rx # <<>> /\ rx' = Tail(rx) /\ n' = n + 1
        /\ data' = IF stage = 5 THEN Append(data, Swap(Head(rx))) ELSE data
        /\ UNCHANGED <<osr, tx, line, driven>>
    BY <1>5, Gets
  <2>2. Head(rx) \in Words /\ Tail(rx) \in Seq(Words)
    BY <2>1
  <2>3. Append(data, Swap(Head(rx))) \in Seq(Words)
    BY <2>2, SwapType
  <2> QED BY <2>1, <2>2, <2>3
<1>6. CASE ShiftOut
  <2>1. /\ osr # Empty /\ line' = Append(line, osr)
        /\ IF tx = <<>> THEN osr' = Empty /\ tx' = tx ELSE osr' = Head(tx) /\ tx' = Tail(tx)
        /\ UNCHANGED <<n, data, rx, driven>>
    BY <1>6, ShiftsOut
  <2>2. tx # <<>> => Head(tx) \in Words /\ Tail(tx) \in Seq(Words) /\ Len(Tail(tx)) <= Depth
    BY DEF Depth
  <2>3. Append(line, osr) \in Seq(Words)
    BY <2>1
  <2> QED BY <2>1, <2>2, <2>3
<1>7. CASE ShiftIn
  <2>1. UNCHANGED <<n, data, osr, tx, line>>
    BY <1>7, ShiftsIn DEF ChipType
  <2>2. PICK w \in Words : driven' = Append(driven, w) /\ rx' = <<w>>
    BY <1>7, ShiftsIn DEF ChipType
  <2> QED BY <2>1, <2>2
<1>8. CASE Between \/ Boot \/ UNCHANGED vars
  BY <1>8, Betweens, Idles
<1> QED
  BY <1>1, <1>2, <1>3, <1>4, <1>5, <1>6, <1>7, <1>8 DEF Next, InCall, SM, Between

\* A word is put into rx only when the one before it is gone.
LEMMA NextRx ==
    ASSUME ShapeInv, HandInv, RxInv, ChipType, [Next]_vars
    PROVE  RxInv'
<1> USE DEF RxInv
<1>1. CASE ShiftIn
  <2>1. PICK w \in Words : rx' = <<w>>
    BY <1>1, ShiftsIn DEF ChipType
  <2> QED BY <2>1
<1>2. CASE ~ShiftIn
  <2>1. rx' = rx \/ rx' = <<>> \/ (rx # <<>> /\ rx' = Tail(rx))
    BY <1>2 DEF Next, InCall, NextCall, SM, Select, Deselect, Return, Begin, Load, Ack, Put,
       Flushed, Get, Got, Call, ShiftOut, Test, Raise, Resume, Boot, vars, pio
  <2>2. rx # <<>> => Tail(rx) \in Seq(Words) /\ Len(Tail(rx)) <= 1
    OBVIOUS
  <2>3. <<>> \in Seq(Words) /\ Len(<<>>) <= 1
    OBVIOUS
  <2> QED BY <2>1, <2>2, <2>3
<1> QED BY <1>1, <1>2

-----------------------------------------------------------------------------
(* Words on their way from the chip.                                       *)

\* Words that were driven before this stage.
Base == IF stage = 6 THEN req.count ELSE 0

GetInv ==
    /\ stage \in {2, 3} => driven = <<>>
    /\ Getting /\ step = "begin" => Len(driven) = Base
    /\ Getting /\ step # "begin" => n \in 0 .. Due /\ Len(driven) = Base + n + Len(rx)
    /\ Getting /\ step = "get" => n < Due
    /\ stage = 5 /\ IsWrite => Len(driven) = 1
    /\ stage = 7 /\ ~IsWrite => Len(driven) = req.count + 1

LEMMA GettingStages ==
    ASSUME ShapeInv
    PROVE  /\ Due \in Nat /\ Due >= 1 /\ Base \in Nat
           /\ Getting => stage \in {4, 5, 6} /\ stage \notin {2, 3, 7}
           /\ Getting /\ stage = 4 => IsWrite
           /\ Getting /\ stage # 4 => ~IsWrite
BY RequestFacts DEF Due, Base, Getting, ShapeInv

LEMMA SameGet ==
    ASSUME GetInv, UNCHANGED <<req, stage, step, n, rx, driven>>
    PROVE  GetInv'
<1>1. /\ IsWrite' <=> IsWrite
      /\ Getting' <=> Getting
      /\ Base' = Base
      /\ Due' = Due
  BY DEF IsWrite, Getting, Base, Due
<1> QED BY <1>1 DEF GetInv

\* Steps of a Receive.
LEMMA ReceiveGet ==
    ASSUME ShapeInv, GetInv, Getting, UNCHANGED <<req, stage>>, step' \in {"get", "wait"},
           n' \in 0 .. Due, Len(driven') = Base + n' + Len(rx'), step' = "get" => n' < Due
    PROVE  GetInv'
<1>1. /\ IsWrite' <=> IsWrite
      /\ Getting' <=> Getting
      /\ Base' = Base
      /\ Due' = Due
  BY DEF IsWrite, Getting, Base, Due
<1> QED BY <1>1, GettingStages DEF GetInv

LEMMA GotGet ==
    ASSUME ShapeInv, HandInv, GetInv, WordType, Got
    PROVE  GetInv'
<1>1. /\ Getting /\ step = "wait" /\ UNCHANGED <<req, n, rx, driven>>
      /\ \/ n = Due /\ stage' = stage + 1 /\ step' = "begin"
         \/ n # Due /\ stage' = stage /\ step' = "get"
  BY Gots
<1>2. /\ n \in 0 .. Due /\ Len(driven) = Base + n + Len(rx) /\ Len(rx) = 0
      /\ Due \in Nat /\ Base \in Nat
  BY <1>1, GettingStages DEF GetInv, HandInv
<1>3. CASE n # Due
  <2>1. stage' = stage /\ step' = "get" /\ n < Due
    BY <1>1, <1>2, <1>3
  <2> QED BY <1>1, <1>2, <2>1, ReceiveGet
<1>4. CASE n = Due
  <2>1. stage' = stage + 1 /\ step' = "begin" /\ Len(driven') = Base + Due
    BY <1>1, <1>2, <1>4
  <2>2. IsWrite' <=> IsWrite
    BY <1>1, IsWriteStays
  <2>3. CASE stage = 4
    <3>1. IsWrite /\ stage' = 5 /\ Len(driven') = 1
      BY <1>1, <2>1, <2>3, GettingStages DEF Base, Due
    <3>2. ~Getting'
      BY <2>2, <3>1 DEF Getting
    <3> QED BY <2>2, <3>1, <3>2 DEF GetInv
  <2>4. CASE stage = 5
    <3>1. ~IsWrite /\ stage' = 6 /\ Len(driven') = req.count
      BY <1>1, <2>1, <2>4, GettingStages, RequestFacts DEF Base, Due, ShapeInv
    <3> QED BY <1>1, <2>1, <2>2, <3>1 DEF GetInv, Getting, Base
  <2>5. CASE stage = 6
    <3>1. ~IsWrite /\ stage' = 7 /\ Len(driven') = req.count + 1
      BY <1>1, <2>1, <2>5, GettingStages, RequestFacts DEF Base, Due, ShapeInv
    <3> QED BY <1>1, <2>1, <2>2, <3>1 DEF GetInv, Getting
  <2> QED BY <1>1, <2>3, <2>4, <2>5, GettingStages
<1> QED BY <1>3, <1>4

LEMMA NextGet ==
    ASSUME ShapeInv, HandInv, GetInv, WordType, ChipType, [Next]_vars
    PROVE  GetInv'
<1>1. CASE Select
  <2>1. (stage' = 2 \/ (stage' = 5 /\ ~IsWrite)) /\ driven' = <<>> /\ (IsWrite' <=> IsWrite)
        /\ step' = "begin"
    BY <1>1, Selects, IsWriteStays
  <2> QED BY <2>1 DEF GetInv, Getting, Base
<1>2. CASE Deselect
  <2>1. stage' = 4 /\ ~IsWrite'
    BY <1>2, Deselects, IsWriteStays
  <2> QED BY <2>1 DEF GetInv, Getting
<1>3. CASE Return
  <2>1. stage' = 0
    BY <1>3, Returns
  <2> QED BY <2>1 DEF GetInv, Getting
<1>4. CASE Begin
  <2>1. /\ step = "begin" /\ n' = 0 /\ rx' = <<>> /\ UNCHANGED <<req, stage, driven>>
        /\ (~Sending => Getting /\ step' = "get")
    BY <1>4, Begins
  <2>2. CASE Sending
    <3>1. ~Getting' /\ stage' \notin {5, 7} /\ (stage \in {2, 3} => driven' = <<>>)
      BY <2>1, <2>2, IsWriteStays DEF Sending, Getting, GetInv
    <3> QED BY <2>1, <3>1 DEF GetInv
  <2>3. CASE ~Sending
    <3>1. Len(driven') = Base /\ Len(rx') = 0 /\ Base \in Nat /\ Due \in Nat /\ Due >= 1
      BY <2>1, <2>3, GettingStages DEF GetInv
    <3>2. n' \in 0 .. Due /\ n' < Due /\ Len(driven') = Base + n' + Len(rx')
      BY <2>1, <3>1
    <3> QED BY <2>1, <2>3, <3>2, ReceiveGet
  <2> QED BY <2>2, <2>3
<1>5. CASE Ack \/ Put
  <2>1. Sending /\ UNCHANGED <<req, stage, driven>>
    BY <1>5, Acks, Puts
  <2>2. ~Getting' /\ stage' \notin {5, 7} /\ (stage \in {2, 3} => driven' = <<>>)
    BY <2>1, IsWriteStays DEF Sending, Getting, GetInv
  <2> QED BY <2>1, <2>2 DEF GetInv
<1>6. CASE Flushed
  <2>1. /\ stage \in {2, 3} /\ step' = "begin" /\ UNCHANGED <<req, driven>>
        /\ (stage' = 3 \/ (stage' = 4 /\ IsWrite))
    BY <1>6, Flushes
  <2>2. driven' = <<>> /\ Len(driven') = 0
    BY <2>1 DEF GetInv
  <2>3. CASE stage' = 3
    BY <2>1, <2>2, <2>3 DEF GetInv, Getting
  <2>4. CASE stage' = 4
    <3>1. Base' = 0
      BY <2>4 DEF Base
    <3> QED BY <2>1, <2>2, <2>4, <3>1 DEF GetInv
  <2> QED BY <2>1, <2>3, <2>4
<1>7. CASE Get
  <2>1. /\ Getting /\ step = "get" /\ step' = "wait" /\ rx # <<>> /\ rx' = Tail(rx)
        /\ n' = n + 1 /\ UNCHANGED <<req, stage, driven>>
    BY <1>7, Gets
  <2>2. Len(rx') = Len(rx) - 1 /\ Len(rx) \in Nat
    BY <2>1 DEF WordType
  <2>3. n \in 0 .. Due /\ n < Due /\ Len(driven) = Base + n + Len(rx) /\ Base \in Nat /\ Due \in Nat
    BY <2>1, GettingStages DEF GetInv
  <2>4. n' \in 0 .. Due /\ Len(driven') = Base + n' + Len(rx')
    BY <2>1, <2>2, <2>3
  <2> QED BY <2>1, <2>4, ReceiveGet
<1>8. CASE Got
  BY <1>8, GotGet
<1>9. CASE NextCall
  <2>1. stage' = 1
    BY <1>9, Calls
  <2> QED BY <2>1 DEF GetInv, Getting
<1>10. CASE ShiftOut
  <2>1. Sending /\ UNCHANGED <<req, stage, driven>>
    BY <1>10, ShiftsOut
  <2>2. ~Getting' /\ stage' \notin {5, 7} /\ (stage \in {2, 3} => driven' = <<>>)
    BY <2>1, IsWriteStays DEF Sending, Getting, GetInv
  <2> QED BY <2>1, <2>2 DEF GetInv
<1>11. CASE ShiftIn
  <2>1. /\ Getting /\ step # "begin" /\ rx = <<>> /\ UNCHANGED <<req, stage, step, n>>
        /\ step \in {"get", "wait"}
    BY <1>11, ShiftsIn DEF ChipType, ShapeInv
  <2>2. PICK w \in Words : driven' = Append(driven, w) /\ rx' = <<w>>
    BY <1>11, ShiftsIn DEF ChipType
  <2>3. Len(driven') = Len(driven) + 1 /\ Len(rx) = 0 /\ Len(rx') = 1 /\ Len(driven) \in Nat
    BY <2>1, <2>2 DEF WordType
  <2>4. /\ n \in 0 .. Due /\ Len(driven) = Base + n + Len(rx) /\ Base \in Nat /\ Due \in Nat
        /\ (step = "get" => n < Due)
    BY <2>1, GettingStages DEF GetInv
  <2>5. n' \in 0 .. Due /\ Len(driven') = Base + n' + Len(rx')
    BY <2>1, <2>3, <2>4
  <2> QED BY <2>1, <2>4, <2>5, ReceiveGet
<1>12. CASE Between \/ Boot \/ UNCHANGED vars
  BY <1>12, Betweens, Idles, SameGet
<1> QED
  BY <1>1, <1>2, <1>3, <1>4, <1>5, <1>6, <1>7, <1>8, <1>9, <1>10, <1>11, <1>12
     DEF Next, InCall, SM, Between

-----------------------------------------------------------------------------
(* The words that a Read returns.                                          *)

\* The first k words got are the first k driven.
FirstWords(k) == Len(data) = k /\ \A i \in 1 .. k : data[i] = Swap(driven[i])

DataInv ==
    ~IsWrite =>
        /\ stage \in 1 .. 4 \/ (stage = 5 /\ step = "begin") => data = <<>>
        /\ stage = 5 /\ step # "begin" =>
              FirstWords(n) /\ (rx # <<>> => rx[1] = driven[n + 1])
        /\ stage \in {6, 7} => FirstWords(req.count)

LEMMA SameData ==
    ASSUME DataInv, UNCHANGED <<req, stage, step, n, data, rx, driven>>
    PROVE  DataInv'
<1>1. IsWrite' <=> IsWrite
  BY IsWriteStays
<1> QED BY <1>1 DEF DataInv, FirstWords

LEMMA NextData ==
    ASSUME ShapeInv, HandInv, GetInv, DataInv, WordType, RxInv, ChipType, [Next]_vars
    PROVE  DataInv'
<1>1. CASE Select
  <2>1. /\ stage \in {1, 4} /\ stage' \in {2, 5} /\ step' = "begin" /\ data' = data
        /\ (IsWrite' <=> IsWrite)
    BY <1>1, Selects, IsWriteStays
  <2> QED BY <2>1 DEF DataInv
<1>2. CASE Deselect
  <2>1. stage = 3 /\ stage' = 4 /\ data' = data /\ (IsWrite' <=> IsWrite)
    BY <1>2, Deselects, IsWriteStays
  <2> QED BY <2>1 DEF DataInv
<1>3. CASE Return
  <2>1. stage' = 0
    BY <1>3, Returns
  <2> QED BY <2>1 DEF DataInv
<1>4. CASE Begin
  <2>1. /\ step = "begin" /\ step' # "begin" /\ n' = 0 /\ rx' = <<>>
        /\ UNCHANGED <<req, stage, data, driven>> /\ (IsWrite' <=> IsWrite)
    BY <1>4, Begins, IsWriteStays
  <2>2. ~IsWrite /\ stage = 5 => FirstWords(0)'
    BY <2>1 DEF DataInv, FirstWords
  <2>3. ~IsWrite /\ stage \in {6, 7} => FirstWords(req.count)'
    BY <2>1 DEF DataInv, FirstWords
  <2> QED BY <2>1, <2>2, <2>3 DEF DataInv
<1>5. CASE Ack \/ Put
  <2>1. Sending /\ UNCHANGED <<req, stage, data>> /\ (IsWrite' <=> IsWrite)
    BY <1>5, Acks, Puts, IsWriteStays
  <2> QED BY <2>1 DEF DataInv, Sending
<1>6. CASE Flushed
  <2>1. /\ stage \in {2, 3} /\ (stage' = 3 \/ (stage' = 4 /\ IsWrite))
        /\ UNCHANGED data /\ (IsWrite' <=> IsWrite)
    BY <1>6, Flushes, IsWriteStays
  <2> QED BY <2>1 DEF DataInv
<1>7. CASE Get
  <2>1. /\ Getting /\ step = "get" /\ step' = "wait" /\ rx # <<>> /\ rx' = Tail(rx)
        /\ n' = n + 1 /\ UNCHANGED <<req, stage, driven>> /\ (IsWrite' <=> IsWrite)
        /\ data' = IF stage = 5 THEN Append(data, Swap(Head(rx))) ELSE data
    BY <1>7, Gets, IsWriteStays
  <2>2. CASE stage = 5 /\ ~IsWrite
    <3>1. FirstWords(n) /\ rx[1] = driven[n + 1] /\ n \in Nat
      BY <2>1, <2>2 DEF DataInv, WordType
    <3>2. Head(rx) = rx[1] /\ Swap(Head(rx)) \in Words
      BY <2>1, SwapType DEF WordType
    <3> DEFINE w == Swap(Head(rx))
    <3>3. w = Swap(driven[n + 1]) /\ w \in Words /\ data' = Append(data, w)
      BY <2>1, <2>2, <3>1, <3>2
    <3> HIDE DEF w
    <3>4. /\ Len(data') = n + 1 /\ data'[n + 1] = w
          /\ \A i \in 1 .. n : data'[i] = data[i]
      BY <3>1, <3>3 DEF FirstWords, WordType
    <3>5. \A i \in 1 .. n + 1 : data'[i] = Swap(driven[i])
      <4>1. \A i \in 1 .. n + 1 : i \in 1 .. n \/ i = n + 1
        BY <3>1
      <4> QED BY <3>1, <3>3, <3>4, <4>1 DEF FirstWords
    <3>6. FirstWords(n)'
      BY <2>1, <3>4, <3>5 DEF FirstWords
    <3>7. rx' = <<>>
      BY <2>1 DEF RxInv
    <3> QED BY <2>1, <2>2, <3>6, <3>7 DEF DataInv
  <2>3. CASE stage = 6 /\ ~IsWrite
    BY <2>1, <2>3 DEF DataInv, FirstWords
  <2>4. CASE IsWrite
    BY <2>1, <2>4 DEF DataInv
  <2> QED BY <2>1, <2>2, <2>3, <2>4 DEF Getting
<1>8. CASE Got
  <2>1. /\ Getting /\ step = "wait" /\ UNCHANGED <<req, n, data, rx, driven>>
        /\ (IsWrite' <=> IsWrite)
        /\ \/ n = Due /\ stage' = stage + 1 /\ step' = "begin"
           \/ n # Due /\ stage' = stage /\ step' = "get"
    BY <1>8, Gots, IsWriteStays
  <2>2. CASE stage = 5 /\ ~IsWrite
    <3>1. FirstWords(n)' /\ rx' = <<>> /\ Due = req.count
      BY <2>1, <2>2 DEF DataInv, FirstWords, HandInv, Due
    <3> QED BY <2>1, <2>2, <3>1 DEF DataInv
  <2>3. CASE stage = 6 /\ ~IsWrite
    <3>1. FirstWords(req.count)' /\ stage' \in {6, 7}
      BY <2>1, <2>3 DEF DataInv, FirstWords
    <3> QED BY <2>1, <2>3, <3>1 DEF DataInv
  <2>4. CASE IsWrite
    BY <2>1, <2>4 DEF DataInv
  <2> QED BY <2>1, <2>2, <2>3, <2>4 DEF Getting
<1>9. CASE NextCall
  BY <1>9, Calls DEF DataInv
<1>10. CASE ShiftOut
  BY <1>10, ShiftsOut, SameData
<1>11. CASE ShiftIn
  <2>1. /\ Getting /\ step # "begin" /\ rx = <<>> /\ UNCHANGED <<req, stage, step, n, data>>
        /\ (IsWrite' <=> IsWrite)
    BY <1>11, ShiftsIn, IsWriteStays DEF ChipType
  <2>2. PICK w \in Words : driven' = Append(driven, w) /\ rx' = <<w>>
    BY <1>11, ShiftsIn DEF ChipType
  <2>3. /\ Len(driven) \in Nat /\ driven'[Len(driven) + 1] = w
        /\ \A i \in 1 .. Len(driven) : driven'[i] = driven[i]
    BY <2>2 DEF WordType
  <2>4. Len(driven) = Base + n /\ n \in Nat
    <3>1. Len(rx) = 0 /\ Base \in Nat /\ n \in Nat
      BY <2>1, GettingStages DEF WordType
    <3>2. Len(driven) = Base + n + Len(rx)
      BY <2>1 DEF GetInv
    <3> QED BY <3>1, <3>2
  <2>5. CASE stage = 5 /\ ~IsWrite
    <3>1. Len(driven) = n /\ rx'[1] = w
      BY <2>2, <2>4, <2>5 DEF Base
    <3>2. FirstWords(n)'
      BY <2>1, <2>3, <2>5, <3>1 DEF DataInv, FirstWords
    <3>3. rx'[1] = driven'[n + 1]
      BY <2>3, <3>1
    <3> QED BY <2>1, <2>5, <3>2, <3>3 DEF DataInv
  <2>6. CASE stage = 6 /\ ~IsWrite
    <3>1. req.count \in Nat /\ Len(driven) >= req.count
      BY <2>4, <2>6, RequestFacts DEF Base, ShapeInv
    <3>2. FirstWords(req.count)'
      BY <2>1, <2>3, <2>6, <3>1 DEF DataInv, FirstWords
    <3> QED BY <2>1, <2>6, <3>2 DEF DataInv
  <2>7. CASE IsWrite
    BY <2>1, <2>7 DEF DataInv
  <2> QED BY <2>1, <2>5, <2>6, <2>7 DEF Getting
<1>12. CASE Between \/ Boot \/ UNCHANGED vars
  BY <1>12, Betweens, Idles, SameData
<1> QED
  BY <1>1, <1>2, <1>3, <1>4, <1>5, <1>6, <1>7, <1>8, <1>9, <1>10, <1>11, <1>12
     DEF Next, InCall, SM, Between

-----------------------------------------------------------------------------
(* The theorems.                                                           *)

PortInv ==
    /\ ShapeInv /\ HandInv /\ SelectInv
    /\ SentType /\ WordType /\ RoomInv /\ ChipType /\ FlagType
    /\ RxInv /\ LineInv /\ QueueInv /\ GetInv /\ DataInv

LEMMA InitPort ==
    ASSUME Init
    PROVE  PortInv
<1>1. stage = 0 /\ step = "begin" /\ n = 0
  BY DEF Init
<1>2. ~Sending /\ ~Getting
  BY <1>1 DEF Sending, Getting
<1>3. client = "probe" /\ req \in Requests
  BY Firsts DEF Init
<1>4. 0 \in 0 .. LastStage
  BY DEF LastStage
<1>5. ShapeInv
  BY <1>1, <1>2, <1>3, <1>4 DEF ShapeInv, Clients
<1>6. program = "none" /\ at = "run" /\ irq = FALSE
  BY DEF Init
<1>7. HandInv /\ SelectInv
  BY <1>1, <1>2, <1>6 DEF HandInv, SelectInv
<1>8. data = <<>> /\ tx = <<>> /\ rx = <<>> /\ line = <<>> /\ driven = <<>> /\ osr = Empty
  BY DEF Init
<1>9. <<>> \in Seq(Words) /\ Len(<<>>) = 0
  OBVIOUS
<1>10. SentType /\ WordType /\ RoomInv /\ RxInv
  BY <1>1, <1>8, <1>9 DEF SentType, WordType, RoomInv, RxInv, Depth
<1>11. ChipType
  <2>1. cmd = "none" /\ rw = "zero" /\ faults = 0
    BY DEF Init
  <2> QED BY <1>6, <2>1, GspiAssumption DEF ChipType, Values
<1>12. FlagType
  BY DEF Init, FlagType
<1>13. LineInv /\ QueueInv /\ GetInv /\ DataInv
  BY <1>1, <1>2 DEF LineInv, QueueInv, GetInv, DataInv
<1> QED BY <1>5, <1>7, <1>10, <1>11, <1>12, <1>13 DEF PortInv

LEMMA NextPort ==
    ASSUME PortInv, [Next]_vars
    PROVE  PortInv'
<1>1. /\ ShapeInv /\ HandInv /\ SelectInv
      /\ SentType /\ WordType /\ RoomInv /\ ChipType /\ FlagType
      /\ RxInv /\ LineInv /\ QueueInv /\ GetInv /\ DataInv
  BY DEF PortInv
<1>2. rw \in Values /\ osr \in Words \cup {Empty}
  BY <1>1 DEF ChipType, WordType
<1>3. ShapeInv' /\ HandInv' /\ SelectInv'
  BY <1>1, NextShape, NextHand, NextSelect
<1>4. SentType' /\ WordType' /\ RoomInv' /\ ChipType' /\ FlagType'
  BY <1>1, NextWordType, NextChipType, NextFlagType
<1>5. RxInv' /\ GetInv' /\ DataInv'
  BY <1>1, <1>4, NextRx, NextGet, NextData
<1>6. LineInv' /\ QueueInv'
  BY <1>1, <1>2, NextLine, NextQueue
<1> QED BY <1>3, <1>4, <1>5, <1>6 DEF PortInv

LEMMA PortInvariant == Spec => []PortInv
<1>1. Init => PortInv
  BY InitPort
<1>2. PortInv /\ [Next]_vars => PortInv'
  BY NextPort
<1> QED BY <1>1, <1>2, PTL DEF Spec

\* The FIFOs never hold more than they can, no loop of Transmit or Receive goes
\* past its words, and only data is ever stored in the chip's register.
THEOREM PortTypes == Spec => []TypeOK
<1>1. ASSUME PortInv PROVE TypeOK
  <2>1. /\ client \in {"probe", "write", "check", "run"} /\ req \in Requests
        /\ stage \in 0 .. Len(Script) /\ step \in {"begin", "ack", "put", "wait", "get"}
    BY <1>1, Scripts DEF PortInv, ShapeInv, Clients
  <2>2. Len(rx) <= Depth
    BY <1>1 DEF PortInv, RxInv, Depth
  <2>3. /\ n \in Nat /\ data \in Seq(Words) /\ tx \in Seq(Words) /\ rx \in Seq(Words)
        /\ Len(tx) <= Depth /\ line \in Seq(Words) /\ driven \in Seq(Words)
        /\ osr \in Words \cup {Empty}
    BY <1>1 DEF PortInv, SentType, WordType, RoomInv
  <2>4. ChipType /\ FlagType
    BY <1>1 DEF PortInv
  <2> QED BY <2>1, <2>2, <2>3, <2>4 DEF TypeOK, ChipType, FlagType
<1> QED BY <1>1, PortInvariant, PTL

\* Nothing is clocked while CS is high, whatever state a transfer that was cut
\* short left the SM in.
THEOREM ClocksOnlySelected == Spec => ClockedOnlySelected
<1>1. PortInv /\ [Next]_vars => [line' # line \/ driven' # driven => selected']_vars
  BY ClocksSelected DEF PortInv, ChipType
<1> QED BY <1>1, PortInvariant, PTL DEF Spec, ClockedOnlySelected

\* A line that holds the first words of a Write.
LEMMA LineIsPrefix ==
    ASSUME ShapeInv, SentType, IsWrite, Len(line) \in 2 .. Len(req.data) + 1,
           \A i \in 1 .. Len(line) : line[i] = Sent(i)
    PROVE  \E k \in 1 .. Len(req.data) :
              line = OnWire(<<req.cmd>> \o SubSeq(req.data, 1, k))
<1> DEFINE k == Len(line) - 1
           words == <<req.cmd>> \o SubSeq(req.data, 1, k)
<1>1. req.data \in Seq(Written) /\ Len(req.data) \in Nat /\ Len(line) \in Nat
  BY RequestFacts DEF ShapeInv, SentType
<1>2. k \in 1 .. Len(req.data) /\ Len(line) = k + 1
  BY <1>1
<1>3. SubSeq(req.data, 1, k) \in Seq(Written) /\ Len(SubSeq(req.data, 1, k)) = k
      /\ \A i \in 1 .. k : SubSeq(req.data, 1, k)[i] = req.data[i]
  BY <1>1, <1>2
<1> HIDE DEF k
<1>4. Len(words) = k + 1 /\ words[1] = req.cmd
      /\ \A i \in 2 .. k + 1 : words[i] = req.data[i - 1]
  BY <1>2, <1>3
<1>5. \A i \in 1 .. k + 1 : line[i] = [what |-> words[i], lowFirst |-> TRUE]
  <2>1. \A i \in 1 .. k + 1 : i = 1 \/ (i \in 2 .. k + 1 /\ i # 1)
    BY <1>2
  <2> QED BY <1>2, <1>4, <2>1 DEF Sent
<1> HIDE DEF words
<1>6. line = [i \in 1 .. k + 1 |-> line[i]]
  BY <1>2 DEF SentType
<1>7. line = OnWire(words)
  BY <1>4, <1>5, <1>6 DEF OnWire
<1> QED BY <1>2, <1>7 DEF words

\* A Read returns the words that the chip drove, and a Write of a single word
\* clocks that word, however the CPU and the SM interleave.
THEOREM TransfersAreExact == Spec => []TransfersExact
<1>1. ASSUME PortInv PROVE TransfersExact
  <2> SUFFICES ASSUME Doing("deselect")
               PROVE  IF IsWrite
                      THEN /\ \E k \in 1 .. Len(req.data) :
                                 line = OnWire(<<req.cmd>> \o SubSeq(req.data, 1, k))
                           /\ Len(req.data) = 1 => Len(line) = 2
                           /\ Len(driven) = 1
                      ELSE IF stage < Len(Script)
                      THEN line = OnWire(<<req.cmd>>) /\ driven = <<>>
                      ELSE /\ line = <<>>
                           /\ Len(driven) = req.count + 1 /\ Len(data) = req.count
                           /\ \A i \in 1 .. req.count : data[i] = Swap(driven[i])
    BY DEF TransfersExact
  <2>1. ShapeInv /\ SentType /\ LineInv /\ GetInv /\ DataInv
    BY <1>1 DEF PortInv
  <2>2. (stage = 5 /\ IsWrite) \/ (stage \in {3, 7} /\ ~IsWrite)
    BY <2>1, Doings DEF ShapeInv
  <2>3. CASE stage = 5 /\ IsWrite
    <3>1. /\ Len(line) \in 2 .. Len(req.data) + 1 /\ Len(driven) = 1
          /\ \A i \in 1 .. Len(line) : line[i] = Sent(i)
      BY <2>1, <2>3 DEF LineInv, GetInv
    <3>2. Len(req.data) = 1 => Len(line) = 2
      BY <3>1
    <3> QED BY <2>1, <2>3, <3>1, <3>2, LineIsPrefix
  <2>4. CASE stage = 3 /\ ~IsWrite
    <3>1. Len(line) = 1 /\ line[1] = Sent(1) /\ driven = <<>>
      BY <2>1, <2>4 DEF LineInv, GetInv
    <3>2. stage < Len(Script)
      BY <2>4, Scripts DEF LastStage
    <3>3. line = [i \in 1 .. 1 |-> line[i]]
      BY <2>1, <3>1 DEF SentType
    <3>4. line = OnWire(<<req.cmd>>)
      <4>1. Len(<<req.cmd>>) = 1 /\ <<req.cmd>>[1] = req.cmd
        OBVIOUS
      <4>2. \A i \in 1 .. 1 : line[i] = [what |-> <<req.cmd>>[i], lowFirst |-> TRUE]
        BY <3>1, <4>1 DEF Sent
      <4> QED BY <3>3, <4>1, <4>2 DEF OnWire
    <3> QED BY <2>4, <3>1, <3>2, <3>4
  <2>5. CASE stage = 7 /\ ~IsWrite
    <3>1. line = <<>> /\ Len(driven) = req.count + 1 /\ FirstWords(req.count)
      BY <2>1, <2>5 DEF LineInv, GetInv, DataInv
    <3>2. ~(stage < Len(Script))
      BY <2>5, Scripts DEF LastStage
    <3> QED BY <2>5, <3>1, <3>2 DEF FirstWords
  <2> QED BY <2>2, <2>3, <2>4, <2>5
<1> QED BY <1>1, PortInvariant, PTL

=============================================================================
