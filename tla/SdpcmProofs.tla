---------------------------- MODULE SdpcmProofs ----------------------------
(***************************************************************************)
(* Proofs about Sdpcm for every sequence-number and id width, window,      *)
(* queue bound and timeout that SdpcmAssumption allows.                    *)
(***************************************************************************)
EXTENDS Sdpcm, SequenceTheorems, FiniteSetTheorems, TLAPS

-----------------------------------------------------------------------------
(* Arithmetic of wrapping numbers.                                         *)

LEMMA SuccType ==
    ASSUME NEW m \in Nat \ {0}, NEW a \in 0 .. m - 1
    PROVE  Succ(a, m) \in 0 .. m - 1
BY SMT DEF Succ

LEMMA AheadType ==
    ASSUME NEW m \in Nat \ {0}, NEW a \in 0 .. m - 1, NEW b \in 0 .. m - 1
    PROVE  Ahead(a, b, m) \in 0 .. m - 1
BY SMT DEF Ahead

\* Advancing b by one costs one of the distance to every a it differs from.
LEMMA AheadSucc ==
    ASSUME NEW m \in Nat \ {0}, NEW a \in 0 .. m - 1, NEW b \in 0 .. m - 1, a # b
    PROVE  Ahead(a, Succ(b, m), m) = Ahead(a, b, m) - 1
BY SMT DEF Ahead, Succ

LEMMA AheadZero ==
    ASSUME NEW m \in Nat \ {0}, NEW a \in 0 .. m - 1, NEW b \in 0 .. m - 1
    PROVE  a = b <=> Ahead(a, b, m) = 0
BY SMT DEF Ahead

\* Seen from c, if b is not past a then the distances add up.
LEMMA AheadBetween ==
    ASSUME NEW m \in Nat \ {0}, NEW a \in 0 .. m - 1, NEW b \in 0 .. m - 1,
           NEW c \in 0 .. m - 1, Ahead(b, c, m) <= Ahead(a, c, m)
    PROVE  Ahead(a, b, m) = Ahead(a, c, m) - Ahead(b, c, m)
BY SMT DEF Ahead

-----------------------------------------------------------------------------
(* Taking the head of a queue.                                             *)

LEMMA HeadTail ==
    ASSUME NEW S, NEW q \in Seq(S), q # <<>>
    PROVE  /\ Len(q) \in Nat \ {0}
           /\ Head(q) = q[1] /\ Head(q) \in S
           /\ Tail(q) \in Seq(S) /\ Len(Tail(q)) = Len(q) - 1
           /\ \A i \in 1 .. Len(Tail(q)) : Tail(q)[i] = q[i + 1]
<1>1. Len(q) \in Nat \ {0}
  BY EmptySeq
<1>2. Head(q) = q[1]
  OBVIOUS
<1> QED
  BY <1>1, <1>2, HeadTailProperties

-----------------------------------------------------------------------------
(* The credits.  CreditOK is WithinGrant strengthened with the credits on  *)
(* their way: those stamped on the queued frames lie between the driver's  *)
(* and the chip's, in the order of the queue.  It holds as long as no      *)
(* failed read has changed the credit.                                     *)

CreditOK(sq, cr, gr, q) ==
    /\ Ahead(cr, sq, SeqMod) <= Ahead(gr, sq, SeqMod)
    /\ Ahead(gr, sq, SeqMod) <= Window
    /\ \A i \in 1 .. Len(q) :
        /\ Ahead(cr, sq, SeqMod) <= Ahead(q[i].credit, sq, SeqMod)
        /\ Ahead(q[i].credit, sq, SeqMod) <= Ahead(gr, sq, SeqMod)
    /\ \A i, j \in 1 .. Len(q) : i <= j =>
        Ahead(q[i].credit, sq, SeqMod) <= Ahead(q[j].credit, sq, SeqMod)

CreditInv == ~misled => CreditOK(seq, credit, granted, queue)

\* What a poll may see has a credit and a flow control bit.
LEMMA SeesType ==
    ASSUME TypeOK, NEW failed \in BOOLEAN, NEW f \in Sees(failed)
    PROVE  /\ f \in Frame \cup {NoFrame}
           /\ f.credit \in SeqNumbers /\ f.flow \in BOOLEAN
<1>1. f \in Frame \cup {NoFrame}
  <2>1. Leftovers \subseteq Frame
    BY SdpcmAssumption DEF SdpcmAssumption
  <2>2. \A i \in DOMAIN queue : queue[i] \in Frame
    BY ElementOfSeq, LenProperties DEF TypeOK
  <2> QED
    BY <2>1, <2>2 DEF Sees
<1>2. NoFrame.credit \in SeqNumbers /\ NoFrame.flow \in BOOLEAN
  BY SdpcmAssumption DEF NoFrame, SeqNumbers, SdpcmAssumption
<1> QED
  BY <1>1, <1>2 DEF Frame

\* A poll leaves the queue alone or takes its head; one whose reads succeed takes
\* the head exactly when it sees a frame, which is the head.
LEMMA PollQueue ==
    ASSUME TypeOK, NEW failed \in BOOLEAN, NEW f \in Sees(failed), PollDevice(failed, f)
    PROVE  \/ queue' = queue /\ (~failed => f = NoFrame)
           \/ queue # <<>> /\ queue' = Tail(queue) /\ (~failed => f = Head(queue) /\ f \in Frame)
<1>1. queue \in Seq(Frame)
  BY DEF TypeOK
<1>2. ASSUME NEW i \in DOMAIN queue \cap {1}
      PROVE  queue # <<>> /\ queue[1] \in Frame /\ Head(queue) = queue[1]
  <2>1. queue # <<>>
    BY <1>1, <1>2
  <2> QED
    BY <1>1, <2>1, HeadTail
<1>3. CASE failed
  BY <1>2, <1>3 DEF PollDevice
<1>4. CASE ~failed /\ f = NoFrame
  BY <1>4 DEF PollDevice
<1>5. CASE ~failed /\ f # NoFrame
  <2>1. PICK i \in DOMAIN queue \cap {1} : f = queue[i]
    BY <1>5 DEF Sees
  <2>2. queue' = Tail(queue)
    BY <1>5 DEF PollDevice
  <2> QED
    BY <1>2, <2>1, <2>2
<1> QED
  BY <1>3, <1>4, <1>5

\* A frame is not "no packets".
LEMMA FrameIsFrame ==
    ASSUME NEW f \in Frame
    PROVE  f # NoFrame /\ f.shape # "nothing"
<1>1. f.shape \in Shapes /\ NoFrame.shape = "nothing"
  BY DEF Frame, NoFrame
<1> QED
  BY <1>1 DEF Shapes

\* Polling keeps the types of what it changes.
LEMMA PollType ==
    ASSUME TypeOK, NEW failed \in BOOLEAN, NEW f \in Sees(failed), PollDevice(failed, f)
    PROVE  /\ credit' \in SeqNumbers /\ flow' \in BOOLEAN /\ hadPacket' \in BOOLEAN
           /\ spidBuf' \in {"empty", "request", "packet", "received"}
           /\ queue' \in Seq(Frame) /\ Len(queue') <= QueueMax
           /\ readFailed' \in BOOLEAN /\ misled' \in BOOLEAN
<1>1. queue' \in Seq(Frame) /\ Len(queue') <= QueueMax
  <2>1. CASE queue' = queue
    BY <2>1 DEF TypeOK
  <2>2. CASE queue # <<>> /\ queue' = Tail(queue)
    BY <2>2, HeadTail, SdpcmAssumption DEF TypeOK, SdpcmAssumption
  <2> QED
    BY <2>1, <2>2, PollQueue
<1>2. credit' \in SeqNumbers /\ flow' \in BOOLEAN
  BY SeesType DEF PollDevice, TypeOK
<1>3. spidBuf' \in {"empty", "request", "packet", "received"}
  BY DEF PollDevice, TypeOK
<1>4. hadPacket' \in BOOLEAN /\ readFailed' \in BOOLEAN /\ misled' \in BOOLEAN
  BY Zenon DEF PollDevice
<1> QED
  BY <1>1, <1>2, <1>3, <1>4

\* A poll that does not mislead the driver either reads well or leaves the credit.
LEMMA PollMisleads ==
    ASSUME NEW failed \in BOOLEAN, NEW f, PollDevice(failed, f), ~misled'
    PROVE  ~misled /\ (failed => credit' = credit)
BY Zenon DEF PollDevice

\* Polling believes every credit it reads well, and keeps the credits in order.
LEMMA PollCredit ==
    ASSUME TypeOK, CreditInv, NEW failed \in BOOLEAN, NEW f \in Sees(failed),
           PollDevice(failed, f), ~misled'
    PROVE  /\ CreditOK(seq, credit', granted, queue')
           /\ ~failed /\ f # NoFrame /\ CarriesCredit(f) => credit' = f.credit
           /\ credit' # credit => queue # <<>> /\ credit' = Head(queue).credit
<1>0. ~misled /\ CreditOK(seq, credit, granted, queue) /\ (failed => credit' = credit)
  BY PollMisleads, Zenon DEF CreditInv
<1>1. CASE queue' = queue /\ (failed \/ f = NoFrame)
  <2>1. credit' = credit
    BY <1>0, <1>1 DEF PollDevice, CarriesCredit, HasHeader, NoFrame
  <2> QED
    BY <1>0, <1>1, <2>1
<1>2. CASE queue # <<>> /\ queue' = Tail(queue) /\ (~failed => f = Head(queue) /\ f \in Frame)
  <2> DEFINE h == Head(queue)
  <2>1. /\ queue # <<>> /\ queue \in Seq(Frame) /\ Len(queue) \in Nat \ {0}
        /\ h = queue[1] /\ h \in Frame /\ h.credit \in SeqNumbers
    <3>1. queue # <<>> /\ queue \in Seq(Frame)
      BY <1>2 DEF TypeOK
    <3>2. Len(queue) \in Nat \ {0} /\ h = queue[1] /\ h \in Frame
      BY <3>1, HeadTail
    <3> QED
      BY <3>1, <3>2 DEF Frame
  <2>2. /\ queue' = Tail(queue) /\ Len(queue') = Len(queue) - 1
        /\ \A i \in 1 .. Len(queue') : queue'[i] = queue[i + 1] /\ i + 1 \in 1 .. Len(queue)
    BY <1>2, <2>1, HeadTail
  <2>3. BelieveCredit(h)
    <3>1. Ahead(h.credit, credit, SeqMod)
            = Ahead(h.credit, seq, SeqMod) - Ahead(credit, seq, SeqMod)
      BY <1>0, <2>1, AheadBetween, SdpcmAssumption
        DEF CreditOK, TypeOK, SeqNumbers, SdpcmAssumption
    <3> QED
      <4>1. /\ Ahead(h.credit, seq, SeqMod) <= Window
            /\ Ahead(h.credit, seq, SeqMod) \in Int /\ Ahead(credit, seq, SeqMod) \in Nat
        <5>1. /\ Ahead(h.credit, seq, SeqMod) <= Ahead(granted, seq, SeqMod)
              /\ Ahead(granted, seq, SeqMod) <= Window
          BY <1>0, <2>1 DEF CreditOK
        <5>2. /\ Ahead(h.credit, seq, SeqMod) \in 0 .. SeqMod - 1
              /\ Ahead(granted, seq, SeqMod) \in 0 .. SeqMod - 1
              /\ Ahead(credit, seq, SeqMod) \in 0 .. SeqMod - 1
          <6>1. /\ SeqMod \in Nat \ {0}
                /\ h.credit \in 0 .. SeqMod - 1 /\ granted \in 0 .. SeqMod - 1
                /\ credit \in 0 .. SeqMod - 1 /\ seq \in 0 .. SeqMod - 1
            BY <2>1, SdpcmAssumption DEF TypeOK, SeqNumbers, SdpcmAssumption
          <6> QED
            BY <6>1, AheadType
        <5> QED
          BY <5>1, <5>2, SdpcmAssumption DEF SdpcmAssumption
      <4> QED
        BY <3>1, <4>1, SdpcmAssumption DEF BelieveCredit, SdpcmAssumption
  <2>4. credit' = h.credit \/ credit' = credit
    BY <1>0, <1>2 DEF PollDevice
  <2>5. CreditOK(seq, credit', granted, queue')
    BY <1>0, <2>1, <2>2, <2>4, SMTT(30) DEF CreditOK
  <2>6. ~failed /\ CarriesCredit(f) => credit' = f.credit
    BY <1>2, <2>3 DEF PollDevice
  <2> QED
    BY <1>2, <2>4, <2>5, <2>6
<1> QED
  BY <1>1, <1>2, PollQueue

LEMMA QueuedCredits ==
    ASSUME NEW q \in Seq(Frame), NEW i \in 1 .. Len(q)
    PROVE  q[i].credit \in SeqNumbers
<1>1. q[i] \in Frame
  BY ElementOfSeq
<1> QED
  BY <1>1 DEF Frame

\* A host that has a credit and spends it stays within the window.
LEMMA SendCredit ==
    ASSUME NEW sq \in SeqNumbers, NEW cr \in SeqNumbers, NEW gr \in SeqNumbers,
           NEW q \in Seq(Frame), CreditOK(sq, cr, gr, q), cr # sq
    PROVE  CreditOK(Succ(sq, SeqMod), cr, gr, q)
<1>1. SeqMod \in Nat \ {0} /\ Window \in Nat
  BY SdpcmAssumption DEF SdpcmAssumption
<1>2. \A a \in SeqNumbers : Ahead(a, sq, SeqMod) \in 0 .. SeqMod - 1
  BY <1>1, AheadType DEF SeqNumbers
<1>3. \A a \in SeqNumbers : a = sq <=> Ahead(a, sq, SeqMod) = 0
  BY <1>1, AheadZero DEF SeqNumbers
<1>4. \A a \in SeqNumbers :
        a # sq => Ahead(a, Succ(sq, SeqMod), SeqMod) = Ahead(a, sq, SeqMod) - 1
  BY <1>1, AheadSucc DEF SeqNumbers
<1>5. \A i \in 1 .. Len(q) : q[i].credit \in SeqNumbers
  BY QueuedCredits
<1> DEFINE D(a) == Ahead(a, sq, SeqMod)
           E(a) == Ahead(a, Succ(sq, SeqMod), SeqMod)
<1>6. D(cr) > 0
  BY <1>2, <1>3
<1>7. D(gr) > 0 /\ \A i \in 1 .. Len(q) : D(q[i].credit) > 0
  BY <1>2, <1>5, <1>6 DEF CreditOK
<1>8. /\ E(cr) = D(cr) - 1 /\ E(gr) = D(gr) - 1
      /\ \A i \in 1 .. Len(q) : E(q[i].credit) = D(q[i].credit) - 1
  BY <1>3, <1>4, <1>5, <1>6, <1>7
<1>9. /\ D(cr) \in Int /\ D(gr) \in Int
      /\ \A i \in 1 .. Len(q) : D(q[i].credit) \in Int
  BY <1>2, <1>5
<1>10. /\ D(cr) <= D(gr) /\ D(gr) <= Window
       /\ \A i \in 1 .. Len(q) : D(cr) <= D(q[i].credit) /\ D(q[i].credit) <= D(gr)
       /\ \A i, j \in 1 .. Len(q) : i <= j => D(q[i].credit) <= D(q[j].credit)
  BY DEF CreditOK
<1> HIDE DEF D, E
<1>11. /\ E(cr) <= E(gr) /\ E(gr) <= Window
       /\ \A i \in 1 .. Len(q) : E(cr) <= E(q[i].credit) /\ E(q[i].credit) <= E(gr)
       /\ \A i, j \in 1 .. Len(q) : i <= j => E(q[i].credit) <= E(q[j].credit)
  BY <1>1, <1>8, <1>9, <1>10
<1> QED
  BY <1>11 DEF CreditOK, E

\* The chip queues a frame with a credit not behind its last one.
LEMMA QueueCredit ==
    ASSUME NEW sq \in SeqNumbers, NEW cr \in SeqNumbers, NEW gr \in SeqNumbers,
           NEW q \in Seq(Frame), CreditOK(sq, cr, gr, q),
           NEW f \in Frame,
           Ahead(gr, sq, SeqMod) <= Ahead(f.credit, sq, SeqMod),
           Ahead(f.credit, sq, SeqMod) <= Window
    PROVE  CreditOK(sq, cr, f.credit, Append(q, f))
<1> DEFINE D(a) == Ahead(a, sq, SeqMod)
           r == Append(q, f)
<1>1. SeqMod \in Nat \ {0} /\ f.credit \in SeqNumbers
  BY SdpcmAssumption DEF SdpcmAssumption, Frame
<1>0. \A a \in SeqNumbers : D(a) \in 0 .. SeqMod - 1
  BY <1>1, AheadType DEF SeqNumbers
<1>2. D(cr) \in Int /\ D(gr) \in Int /\ D(f.credit) \in Int
  BY <1>0, <1>1
<1>3. \A i \in 1 .. Len(q) : D(q[i].credit) \in Int
  BY <1>0, QueuedCredits
<1>4. /\ Len(q) \in Nat /\ Len(r) = Len(q) + 1
      /\ \A i \in 1 .. Len(q) : r[i] = q[i]
      /\ r[Len(q) + 1] = f
  BY AppendProperties, LenProperties
<1>5. /\ D(cr) <= D(gr) /\ D(gr) <= D(f.credit) /\ D(f.credit) <= Window
      /\ \A i \in 1 .. Len(q) : D(cr) <= D(q[i].credit) /\ D(q[i].credit) <= D(gr)
      /\ \A i, j \in 1 .. Len(q) : i <= j => D(q[i].credit) <= D(q[j].credit)
  BY DEF CreditOK
<1> HIDE DEF D, r
<1>6. \A i \in 1 .. Len(r) : i \in 1 .. Len(q) \/ i = Len(q) + 1
  BY <1>4
<1>7. D(cr) <= D(f.credit)
  BY <1>2, <1>5
<1>8. \A i \in 1 .. Len(r) : D(cr) <= D(r[i].credit) /\ D(r[i].credit) <= D(f.credit)
  BY <1>2, <1>3, <1>4, <1>5, <1>6, <1>7
<1>9. \A i, j \in 1 .. Len(r) : i <= j => D(r[i].credit) <= D(r[j].credit)
  <2> SUFFICES ASSUME NEW i \in 1 .. Len(r), NEW j \in 1 .. Len(r), i <= j
               PROVE  D(r[i].credit) <= D(r[j].credit)
    OBVIOUS
  <2>1. CASE j \in 1 .. Len(q)
    <3>1. i \in 1 .. Len(q)
      BY <2>1, <1>4
    <3> QED
      BY <2>1, <3>1, <1>4, <1>5
  <2>2. CASE j = Len(q) + 1
    BY <2>2, <1>4, <1>8
  <2> QED
    BY <2>1, <2>2, <1>6
<1> QED
  BY <1>5, <1>7, <1>8, <1>9 DEF CreditOK, D, r
-----------------------------------------------------------------------------
(* Types.                                                                  *)

Calls == {"ioctl", "ethernet", "process"}
Results == {"none", "ok", "eio", "timeout"}
Places == {"idle", "stall", "loop", "upcall", "upcallStall"}

CallType ==
    /\ pc \in Places /\ result \in Results
    /\ ioctlTime \in 0 .. IoctlTimeout /\ stallTime \in 0 .. StallTimeout + 1

LEMMA AfterSendType ==
    ASSUME TypeOK, NEW c \in Calls, NEW nested \in BOOLEAN, NEW res,
           res \in Results \/ c # "ethernet", AfterSend(c, nested, res)
    PROVE  CallType'
<1>1. pc' \in Places
  BY DEF AfterSend, Places
<1>2. result' \in Results
  BY DEF AfterSend, Results
<1>3. 0 \in 0 .. IoctlTimeout /\ 0 \in 0 .. StallTimeout + 1
  BY SdpcmAssumption DEF SdpcmAssumption
<1>4. ioctlTime' \in 0 .. IoctlTimeout /\ stallTime' \in 0 .. StallTimeout + 1
  BY <1>3 DEF AfterSend, TypeOK
<1> QED
  BY <1>1, <1>2, <1>4 DEF CallType

LEMMA TransmitType ==
    ASSUME TypeOK, NEW c \in Calls, NEW nested \in BOOLEAN, NEW buf, NEW id \in Ids,
           Transmit(c, nested, buf, id)
    PROVE  /\ CallType' /\ seq' = Succ(seq, SeqMod) /\ seq' \in SeqNumbers
           /\ pending' \subseteq Ids /\ chipGot' \in {"no", "intact", "garbled"}
<1>1. PICK written \in BOOLEAN :
        /\ seq' = Succ(seq, SeqMod)
        /\ chipGot' = CASE nested -> chipGot
                        [] ~nested /\ ~written -> "no"
                        [] ~nested /\ written /\ buf = "received" -> "garbled"
                        [] OTHER -> "intact"
        /\ pending' = IF written /\ ~nested /\ buf = "request"
                      THEN pending \cup {id} ELSE pending
        /\ AfterSend(c, nested, WriteResult(written))
  BY DEF Transmit
<1>2. CallType'
  BY <1>1, AfterSendType DEF WriteResult, Results
<1>3. seq' \in SeqNumbers
  <2>1. SeqMod \in Nat \ {0} /\ seq \in 0 .. SeqMod - 1
    BY SdpcmAssumption DEF TypeOK, SeqNumbers, SdpcmAssumption
  <2>2. seq' = Succ(seq, SeqMod)  BY <1>1
  <2>3. Succ(seq, SeqMod) \in 0 .. SeqMod - 1  BY <2>1, SuccType
  <2>4. QED  BY <2>2, <2>3 DEF SeqNumbers
<1>4. pending' \subseteq Ids
  BY <1>1 DEF TypeOK
<1>5. chipGot' \in {"no", "intact", "garbled"}
  BY <1>1 DEF TypeOK
<1> QED
  BY <1>1, <1>2, <1>3, <1>4, <1>5

LEMMA SendCommonType ==
    ASSUME TypeOK, NEW c \in Calls, NEW nested \in BOOLEAN, NEW buf, NEW id \in Ids,
           SendCommon(c, nested, buf, id)
    PROVE  /\ CallType' /\ seq' \in SeqNumbers
           /\ pending' \subseteq Ids /\ chipGot' \in {"no", "intact", "garbled"}
<1>1. CASE Stalled(flow, credit)
  <2>1. 0 \in 0 .. StallTimeout + 1
    BY SdpcmAssumption DEF SdpcmAssumption
  <2> QED
    BY <1>1, <2>1 DEF SendCommon, CallType, TypeOK, Places, Results
<1>2. CASE ~Stalled(flow, credit)
  BY <1>2, TransmitType DEF SendCommon
<1> QED
  BY <1>1, <1>2

LEMMA NextIdType ==
    ASSUME TypeOK
    PROVE  NextIoctlId \in Ids
<1>1. IdMod \in Nat \ {0} /\ ioctlId \in 0 .. IdMod - 1
  BY SdpcmAssumption DEF TypeOK, Ids, SdpcmAssumption
<1>2. Succ(ioctlId, IdMod) \in 0 .. IdMod - 1  BY <1>1, SuccType
<1>3. QED  BY <1>2 DEF NextIoctlId, Ids

LEMMA ChipQueueType ==
    ASSUME TypeOK, NEW shape \in Shapes, NEW id \in Ids, ChipQueue(shape, id)
    PROVE  /\ granted' \in SeqNumbers
           /\ queue' \in Seq(Frame) /\ Len(queue') <= QueueMax
<1>1. PICK g \in SeqNumbers, fl \in BOOLEAN :
        /\ granted' = g
        /\ queue' = Append(queue, [shape |-> shape, credit |-> g, flow |-> fl, id |-> id])
  BY SdpcmAssumption DEF ChipQueue, SdpcmAssumption
<1>2. [shape |-> shape, credit |-> g, flow |-> fl, id |-> id] \in Frame
  BY DEF Frame
<1>3. queue \in Seq(Frame) /\ Len(queue) \in Nat /\ Len(queue) < QueueMax /\ QueueMax \in Nat
  BY LenProperties, SdpcmAssumption DEF TypeOK, ChipQueue, SdpcmAssumption
<1>4. queue' \in Seq(Frame) /\ Len(queue') = Len(queue) + 1
  BY <1>1, <1>2, <1>3, AppendProperties
<1> QED
  BY <1>1, <1>3, <1>4

LEMMA InitType ==
    ASSUME Init
    PROVE  TypeOK
<1>1. /\ 0 \in SeqNumbers /\ 1 \in SeqNumbers /\ \A g \in 1 .. Window : g \in SeqNumbers
      /\ 0 \in Ids /\ 0 \in 0 .. IoctlTimeout /\ 0 \in 0 .. StallTimeout + 1
      /\ 0 <= QueueMax
  BY SdpcmAssumption DEF SeqNumbers, Ids, SdpcmAssumption
<1>2. queue \in Seq(Frame) /\ Len(queue) <= QueueMax
  BY <1>1, EmptySeq DEF Init
<1>3. seq \in SeqNumbers /\ credit \in SeqNumbers /\ granted \in SeqNumbers
  BY <1>1 DEF Init
<1>4. /\ ioctlId \in Ids /\ pending \subseteq Ids /\ unhandled \in Int
      /\ ioctlTime \in 0 .. IoctlTimeout /\ stallTime \in 0 .. StallTimeout + 1
  BY <1>1 DEF Init
<1> QED
  BY <1>2, <1>3, <1>4 DEF Init, TypeOK

\* The histories that go with a poll.
LEMMA NotesType ==
    ASSUME TypeOK, NEW failed, NEW f, HandleEvent(failed, f), DropReply(failed)
    PROVE  unhandled' \in Int /\ missed' \in BOOLEAN
<1>1. unhandled' \in Int
  BY DEF HandleEvent, TypeOK
<1>2. missed' \in BOOLEAN
  BY Zenon DEF DropReply
<1> QED
  BY <1>1, <1>2

LEMMA StallPollType ==
    ASSUME TypeOK, StallPoll
    PROVE  TypeOK'
<1>1. PICK failed \in BOOLEAN :
        \E f \in Sees(failed) :
          PollDevice(failed, f) /\ HandleEvent(failed, f) /\ DropReply(failed)
  BY DEF StallPoll
<1>2. /\ credit' \in SeqNumbers /\ flow' \in BOOLEAN /\ hadPacket' \in BOOLEAN
      /\ spidBuf' \in {"empty", "request", "packet", "received"}
      /\ queue' \in Seq(Frame) /\ Len(queue') <= QueueMax
      /\ readFailed' \in BOOLEAN /\ misled' \in BOOLEAN
  BY <1>1, PollType
<1>3. unhandled' \in Int /\ missed' \in BOOLEAN
  BY <1>1, NotesType
<1>4. /\ call \in Calls /\ ioctlId \in Ids
      /\ ioctlId' \in Ids /\ call' \in Calls /\ fits' \in BOOLEAN /\ granted' \in SeqNumbers
  BY DEF StallPoll, TypeOK, Calls
<1>5. /\ CallType' /\ seq' \in SeqNumbers
      /\ pending' \subseteq Ids /\ chipGot' \in {"no", "intact", "garbled"}
  <2> DEFINE nested == pc = "upcallStall"
  <2>1. CASE Transmit(call, nested, spidBuf', ioctlId)
    BY <2>1, <1>4, TransmitType
  <2>2. CASE AfterSend(call, nested, "timeout") /\ UNCHANGED <<seq, pending, chipGot>>
    <3>1. CallType'
      BY <2>2, <1>4, AfterSendType DEF Results
    <3> QED
      BY <2>2, <3>1 DEF TypeOK
  <2>3. CASE UNCHANGED <<seq, pending, chipGot, pc, result, ioctlTime, stallTime>>
    BY <2>3 DEF TypeOK, CallType, Places, Results
  <2> QED
    BY <2>1, <2>2, <2>3 DEF StallPoll
<1> QED
  BY <1>2, <1>3, <1>4, <1>5 DEF TypeOK, CallType, Places, Results, Calls

LEMMA NextType ==
    ASSUME TypeOK, [Next]_vars
    PROVE  TypeOK'
<1> USE DEF Calls
<1>1. CASE StartIoctl
  <2>1. /\ CallType' /\ seq' \in SeqNumbers
        /\ pending' \subseteq Ids /\ chipGot' \in {"no", "intact", "garbled"}
    BY <1>1, NextIdType, SendCommonType DEF StartIoctl
  <2> QED
    BY <1>1, <2>1, NextIdType DEF StartIoctl, TypeOK, CallType, Places, Results
<1>2. CASE StartLongIoctl
  <2>1. CallType'
    BY <1>2, AfterSendType DEF StartLongIoctl
  <2> QED
    BY <1>2, <2>1 DEF StartLongIoctl, TypeOK, CallType, Places, Results, driverVars, chipVars
<1>3. CASE StartEthernet
  <2>1. /\ CallType' /\ seq' \in SeqNumbers
        /\ pending' \subseteq Ids /\ chipGot' \in {"no", "intact", "garbled"}
    BY <1>3, SendCommonType DEF StartEthernet, TypeOK
  <2> QED
    BY <1>3, <2>1 DEF StartEthernet, TypeOK, CallType, Places, Results
<1>4. CASE StartProcess
  BY <1>4 DEF StartProcess, TypeOK, driverVars, chipVars
<1>5. CASE StallPoll
  BY <1>5, StallPollType
<1>6. CASE IoctlPoll
  <2>1. PICK failed \in BOOLEAN :
          \E f \in Sees(failed) :
            PollDevice(failed, f) /\ HandleEvent(failed, f) /\ DropReply(failed)
    BY <1>6 DEF IoctlPoll
  <2>2. 0 \in 0 .. IoctlTimeout
    BY SdpcmAssumption DEF SdpcmAssumption
  <2>3. /\ pc' \in Places /\ result' \in Results /\ ioctlTime' \in 0 .. IoctlTimeout
    BY <1>6, <2>2 DEF IoctlPoll, TypeOK, Places, Results
  <2>4. unhandled' \in Int /\ missed' \in BOOLEAN
    BY <2>1, NotesType
  <2> QED
    BY <1>6, <2>1, <2>3, <2>4, PollType DEF IoctlPoll, TypeOK, Places, Results
<1>7. CASE IoctlGiveUp
  <2>1. 0 \in 0 .. IoctlTimeout
    BY SdpcmAssumption DEF SdpcmAssumption
  <2> QED
    BY <1>7, <2>1 DEF IoctlGiveUp, TypeOK, driverVars, chipVars, historyVars
<1>8. CASE ProcessPoll
  <2>1. PICK failed \in BOOLEAN :
          \E f \in Sees(failed) :
            /\ PollDevice(failed, f) /\ HandleEvent(failed, f) /\ DropReply(failed)
            /\ pc' \in Places
    BY <1>8 DEF ProcessPoll, Places
  <2>2. unhandled' \in Int /\ missed' \in BOOLEAN
    BY <2>1, NotesType
  <2> QED
    BY <1>8, <2>1, <2>2, PollType DEF ProcessPoll, TypeOK, Places
<1>9. CASE UpcallSend
  <2>1. /\ CallType' /\ seq' \in SeqNumbers
        /\ pending' \subseteq Ids /\ chipGot' \in {"no", "intact", "garbled"}
    BY <1>9, SendCommonType DEF UpcallSend, TypeOK
  <2> QED
    BY <1>9, <2>1 DEF UpcallSend, TypeOK, CallType, Places, Results
<1>10. CASE UpcallReturn
  BY <1>10 DEF UpcallReturn, TypeOK, driverVars, chipVars, historyVars
<1>11. CASE Tick
  <2>1. stallTime' \in 0 .. StallTimeout + 1 /\ ioctlTime' \in 0 .. IoctlTimeout
    BY <1>11, SdpcmAssumption DEF Tick, TypeOK, SdpcmAssumption
  <2> QED
    BY <1>11, <2>1 DEF Tick, TypeOK, driverVars, chipVars, historyVars
<1>12. ASSUME NEW shape \in ChipShapes, ChipSend(shape)
       PROVE  TypeOK'
  <2>1. shape \in Shapes /\ 0 \in Ids
    BY SdpcmAssumption DEF SdpcmAssumption, Ids
  <2>2. granted' \in SeqNumbers /\ queue' \in Seq(Frame) /\ Len(queue') <= QueueMax
    BY <1>12, <2>1, ChipQueueType DEF ChipSend
  <2>3. unhandled' \in Int
    BY <1>12 DEF ChipSend, TypeOK
  <2> QED
    BY <1>12, <2>2, <2>3 DEF ChipSend, ChipQueue, TypeOK, driverVars, callVars
<1>13. ASSUME NEW id \in pending, ChipReply(id)
       PROVE  TypeOK'
  <2>1. "reply" \in Shapes /\ "damaged" \in Shapes /\ id \in Ids
    BY DEF Shapes, TypeOK
  <2>2. granted' \in SeqNumbers /\ queue' \in Seq(Frame) /\ Len(queue') <= QueueMax
    BY <1>13, <2>1, ChipQueueType DEF ChipReply
  <2>3. missed' \in BOOLEAN
    BY <1>13, Zenon DEF ChipReply, TypeOK
  <2> QED
    BY <1>13, <2>2, <2>3 DEF ChipReply, ChipQueue, TypeOK, driverVars, callVars
<1>14. CASE UNCHANGED vars
  BY <1>14 DEF TypeOK, vars, driverVars, callVars, chipVars, historyVars
<1> QED
  BY <1>1, <1>2, <1>3, <1>4, <1>5, <1>6, <1>7, <1>8, <1>9, <1>10, <1>11, <1>12,
     <1>13, <1>14 DEF Next, DriverNext, ChipNext

\* Every variable of the driver and of the chip keeps its type.
THEOREM TypeCorrect == Spec => []TypeOK
<1>1. Init => TypeOK
  BY InitType
<1>2. TypeOK /\ [Next]_vars => TypeOK'
  BY NextType
<1> QED
  BY <1>1, <1>2, PTL DEF Spec
-----------------------------------------------------------------------------
(* The credit window.                                                      *)

LEMMA InitCredit ==
    ASSUME Init
    PROVE  CreditInv
<1>1. /\ seq = 0 /\ credit = 1 /\ granted \in 1 .. Window /\ queue = <<>>
      /\ Len(queue) = 0
  BY EmptySeq DEF Init
<1>2. SeqMod \in Nat /\ Window \in Nat /\ Window < SeqMod
  BY SdpcmAssumption DEF SdpcmAssumption
<1> QED
  BY <1>1, <1>2 DEF CreditInv, CreditOK, Ahead

\* A driver that has been misled stays so.
LEMMA MisledStays ==
    ASSUME [Next]_vars, ~misled'
    PROVE  ~misled
<1>1. ASSUME NEW failed, NEW f, PollDevice(failed, f)
      PROVE  ~misled
  BY <1>1, Zenon DEF PollDevice
<1>2. CASE StallPoll \/ IoctlPoll \/ ProcessPoll
  BY <1>1, <1>2, Zenon DEF StallPoll, IoctlPoll, ProcessPoll
<1>3. CASE UNCHANGED misled
  BY <1>3, Zenon
<1>4. ASSUME ~(StallPoll \/ IoctlPoll \/ ProcessPoll)
      PROVE  UNCHANGED misled
  BY <1>4 DEF Next, DriverNext, StartIoctl, StartLongIoctl, StartEthernet, StartProcess,
     IoctlGiveUp, UpcallSend, UpcallReturn, Tick, ChipNext, ChipSend, ChipReply, ChipQueue,
     vars, historyVars
<1> QED
  BY <1>2, <1>3, <1>4

\* Transmit is only ever reached with a credit to spend.
LEMMA TransmitCredit ==
    ASSUME NEW c, NEW nested, NEW buf, NEW id, TypeOK,
           NEW cr \in SeqNumbers, NEW q \in Seq(Frame), NEW fl,
           CreditOK(seq, cr, granted, q), ~Stalled(fl, cr),
           Transmit(c, nested, buf, id)
    PROVE  CreditOK(seq', cr, granted, q)
<1>1. seq' = Succ(seq, SeqMod) /\ cr # seq
  BY DEF Transmit, Stalled
<1> QED
  BY <1>1, SendCredit DEF TypeOK

LEMMA SendCommonCredit ==
    ASSUME NEW c, NEW nested, NEW buf, NEW id, TypeOK, CreditInv,
           SendCommon(c, nested, buf, id), UNCHANGED <<credit, granted, queue>>, ~misled
    PROVE  CreditInv'
<1>0. CreditOK(seq, credit, granted, queue)
  BY DEF CreditInv
<1>1. CASE Stalled(flow, credit)
  BY <1>0, <1>1 DEF SendCommon, CreditInv
<1>2. CASE ~Stalled(flow, credit)
  <2>1. CreditOK(seq', credit, granted, queue)
    BY <1>0, <1>2, TransmitCredit DEF SendCommon, TypeOK
  <2> QED
    BY <2>1 DEF CreditInv
<1> QED
  BY <1>1, <1>2

\* What the chip grants with a frame, as long as the driver is within its grant.
LEMMA ChipGrants ==
    ASSUME TypeOK, CreditOK(seq, credit, granted, queue), NEW shape, NEW id,
           ChipQueue(shape, id)
    PROVE  \E g \in SeqNumbers, fl \in BOOLEAN :
             /\ Ahead(granted, seq, SeqMod) <= Ahead(g, seq, SeqMod)
             /\ Ahead(g, seq, SeqMod) <= Window
             /\ granted' = g
             /\ queue' = Append(queue, [shape |-> shape, credit |-> g, flow |-> fl, id |-> id])
BY SdpcmAssumption DEF ChipQueue, CreditOK, SdpcmAssumption

LEMMA ChipQueueCredit ==
    ASSUME TypeOK, CreditInv, ~misled, NEW shape \in Shapes, NEW id \in Ids,
           ChipQueue(shape, id)
    PROVE  CreditInv'
<1>0. CreditOK(seq, credit, granted, queue)
  BY DEF CreditInv
<1>1. PICK g \in SeqNumbers, fl \in BOOLEAN :
        /\ Ahead(granted, seq, SeqMod) <= Ahead(g, seq, SeqMod)
        /\ Ahead(g, seq, SeqMod) <= Window
        /\ granted' = g
        /\ queue' = Append(queue, [shape |-> shape, credit |-> g, flow |-> fl, id |-> id])
  BY <1>0, ChipGrants
<1> DEFINE f == [shape |-> shape, credit |-> g, flow |-> fl, id |-> id]
<1>2. f \in Frame /\ f.credit = g
  BY DEF Frame
<1>3. CreditOK(seq, credit, g, Append(queue, f))
  <2> HIDE DEF f
  <2>1. CreditOK(seq, credit, f.credit, Append(queue, f))
    BY <1>0, <1>1, <1>2, QueueCredit DEF TypeOK
  <2> QED
    BY <1>2, <2>1
<1>4. seq' = seq /\ credit' = credit
  BY DEF ChipQueue, driverVars
<1> QED
  BY <1>1, <1>3, <1>4 DEF CreditInv

LEMMA NextCredit ==
    ASSUME TypeOK, CreditInv, [Next]_vars
    PROVE  CreditInv'
<1> SUFFICES ASSUME ~misled'
             PROVE  CreditInv'
  BY DEF CreditInv
<1>0. ~misled
  BY MisledStays
<1>1. CASE StartIoctl
  BY <1>0, <1>1, SendCommonCredit DEF StartIoctl
<1>2. CASE StartEthernet
  BY <1>0, <1>2, SendCommonCredit DEF StartEthernet
<1>3. CASE UpcallSend
  BY <1>0, <1>3, SendCommonCredit DEF UpcallSend
<1>4. CASE StallPoll
  <2>1. PICK failed \in BOOLEAN : \E f \in Sees(failed) : PollDevice(failed, f)
    BY <1>4 DEF StallPoll
  <2>2. /\ CreditOK(seq, credit', granted, queue')
        /\ credit' \in SeqNumbers /\ queue' \in Seq(Frame)
    BY <2>1, PollCredit, PollType
  <2>3. granted' = granted
    BY <1>4 DEF StallPoll
  <2> DEFINE nested == pc = "upcallStall"
  <2>4. CASE ~Stalled(flow', credit') /\ Transmit(call, nested, spidBuf', ioctlId)
    BY <2>2, <2>3, <2>4, TransmitCredit DEF CreditInv
  <2>5. CASE UNCHANGED seq
    BY <2>2, <2>3, <2>5 DEF CreditInv
  <2> QED
    BY <1>4, <2>4, <2>5 DEF StallPoll
<1>5. CASE IoctlPoll
  BY <1>5, PollCredit DEF IoctlPoll, CreditInv
<1>6. CASE ProcessPoll
  BY <1>6, PollCredit DEF ProcessPoll, CreditInv
<1>7. ASSUME NEW shape \in ChipShapes, ChipSend(shape)
      PROVE  CreditInv'
  <2>1. shape \in Shapes /\ 0 \in Ids
    BY SdpcmAssumption DEF SdpcmAssumption, Ids
  <2> QED
    BY <1>0, <1>7, <2>1, ChipQueueCredit DEF ChipSend
<1>8. ASSUME NEW id \in pending, ChipReply(id)
      PROVE  CreditInv'
  <2>1. "reply" \in Shapes /\ "damaged" \in Shapes /\ id \in Ids
    BY DEF Shapes, TypeOK
  <2> QED
    BY <1>0, <1>8, <2>1, ChipQueueCredit DEF ChipReply
<1>9. CASE UNCHANGED <<seq, credit, granted, queue>>
  BY <1>0, <1>9 DEF CreditInv
<1>10. ASSUME StartLongIoctl \/ StartProcess \/ IoctlGiveUp \/ UpcallReturn \/ Tick
              \/ UNCHANGED vars
       PROVE  UNCHANGED <<seq, credit, granted, queue>>
  BY <1>10 DEF StartLongIoctl, StartProcess, IoctlGiveUp, UpcallReturn, Tick, vars,
               driverVars, chipVars
<1> QED
  BY <1>1, <1>2, <1>3, <1>4, <1>5, <1>6, <1>7, <1>8, <1>9, <1>10
     DEF Next, DriverNext, ChipNext

\* Unless a failed read has left it a wrong credit, the driver never transmits
\* beyond what the chip granted.
THEOREM CreditSafe == Spec => []WithinGrant
<1>1. Init => TypeOK /\ CreditInv
  BY InitType, InitCredit
<1>2. TypeOK /\ CreditInv /\ [Next]_vars => (TypeOK /\ CreditInv)'
  BY NextType, NextCredit
<1>3. CreditInv => WithinGrant
  BY DEF CreditInv, CreditOK, WithinGrant
<1> QED
  BY <1>1, <1>2, <1>3, PTL DEF Spec
\* A poll that takes a frame off the queue believes its credit.
LEMMA NextAccepts ==
    ASSUME TypeOK, CreditInv, [Next]_vars,
           queue # <<>>, queue' = Tail(queue), ~readFailed', ~misled,
           CarriesCredit(Head(queue))
    PROVE  credit' = Head(queue).credit
<1>1. /\ queue \in Seq(Frame) /\ Len(queue) \in Nat
      /\ Len(queue') = Len(queue) - 1 /\ queue' # queue
  <2>1. queue \in Seq(Frame)
    BY DEF TypeOK
  <2>2. Len(queue) \in Nat \ {0} /\ Len(Tail(queue)) = Len(queue) - 1
    BY <2>1, HeadTail
  <2>3. Tail(queue) # queue
    <3>1. Len(Tail(queue)) # Len(queue)
      <4>1. \A a \in Nat \ {0} : \A b : b = a - 1 => b # a
        OBVIOUS
      <4> QED
        BY <2>2, <4>1, Zenon
    <3> QED
      BY <3>1, Zenon
  <2> QED
    BY <2>1, <2>2, <2>3
<1>2. ASSUME NEW failed \in BOOLEAN, NEW f \in Sees(failed), PollDevice(failed, f)
      PROVE  credit' = Head(queue).credit
  <2>1. ~failed /\ ~misled'
    BY <1>2, Zenon DEF PollDevice
  <2>2. f = Head(queue) /\ f # NoFrame
    BY <1>1, <1>2, <2>1, PollQueue, FrameIsFrame
  <2> QED
    BY <1>2, <2>1, <2>2, PollCredit
<1>3. CASE StallPoll
  BY <1>2, <1>3 DEF StallPoll
<1>4. CASE IoctlPoll
  BY <1>2, <1>4 DEF IoctlPoll
<1>5. CASE ProcessPoll
  BY <1>2, <1>5 DEF ProcessPoll
<1>6. ASSUME NEW shape, NEW id, ChipQueue(shape, id)
      PROVE  FALSE
  <2>1. PICK f : queue' = Append(queue, f)
    BY <1>6 DEF ChipQueue
  <2>2. queue \in Seq(Frame \cup {f})
    BY <1>1, SeqMonotonic
  <2>3. Len(Append(queue, f)) = Len(queue) + 1
    BY <2>2, AppendProperties
  <2>4. Len(queue') = Len(queue) + 1
    BY <2>1, <2>3
  <2>5. Len(queue) - 1 = Len(queue) + 1
    BY <1>1, <2>4, Zenon
  <2>6. Len(queue) \in Nat
    BY <1>1
  <2> QED
    BY <2>5, <2>6
<1>7. ASSUME StartIoctl \/ StartLongIoctl \/ StartEthernet \/ StartProcess \/ IoctlGiveUp
             \/ UpcallSend \/ UpcallReturn \/ Tick \/ UNCHANGED vars
      PROVE  FALSE
  BY <1>1, <1>7 DEF StartIoctl, StartLongIoctl, StartEthernet, StartProcess, IoctlGiveUp,
     UpcallSend, UpcallReturn, Tick, vars, chipVars
<1> QED
  BY <1>3, <1>4, <1>5, <1>6, <1>7 DEF Next, DriverNext, ChipNext, ChipSend, ChipReply

\* The guard on the advance of the credit never refuses a genuine grant to a driver
\* that no failed read has misled.
THEOREM GrantsAccepted == Spec => AcceptsEveryGrant
<1>1. Init => TypeOK /\ CreditInv
  BY InitType, InitCredit
<1>2. TypeOK /\ CreditInv /\ [Next]_vars => (TypeOK /\ CreditInv)'
  BY NextType, NextCredit
<1>3. TypeOK /\ CreditInv /\ [Next]_vars
        => [queue # <<>> /\ queue' = Tail(queue) /\ ~readFailed' /\ ~misled
            /\ CarriesCredit(Head(queue)) => credit' = Head(queue).credit]_vars
  BY NextAccepts
<1> QED
  BY <1>1, <1>2, <1>3, PTL DEF Spec, AcceptsEveryGrant

-----------------------------------------------------------------------------
(* The wrapping numbers implement the counting of CreditWindow.            *)

Usable == Ahead(credit, seq, SeqMod)
Promised == Ahead(granted, credit, SeqMod)

\* What the chip has granted beyond the driver's sequence number.
LEMMA Account ==
    ASSUME TypeOK, CreditInv, ~misled
    PROVE  /\ Usable \in Nat /\ Promised \in Nat
           /\ Usable + Promised = Ahead(granted, seq, SeqMod)
           /\ Usable + Promised <= Window
<1>1. /\ SeqMod \in Nat \ {0}
      /\ credit \in 0 .. SeqMod - 1 /\ seq \in 0 .. SeqMod - 1 /\ granted \in 0 .. SeqMod - 1
  BY SdpcmAssumption DEF TypeOK, SeqNumbers, SdpcmAssumption
<1>2. Usable \in 0 .. SeqMod - 1 /\ Promised \in 0 .. SeqMod - 1
      /\ Ahead(granted, seq, SeqMod) \in 0 .. SeqMod - 1
  BY <1>1, AheadType DEF Usable, Promised
<1>3. Usable <= Ahead(granted, seq, SeqMod) /\ Ahead(granted, seq, SeqMod) <= Window
  BY DEF CreditInv, CreditOK, Usable
<1>4. Promised = Ahead(granted, seq, SeqMod) - Usable
  BY <1>1, <1>3, AheadBetween DEF Usable, Promised
<1> QED
  BY <1>1, <1>2, <1>3, <1>4

\* A poll moves credits from promised to usable.
LEMMA PollLearns ==
    ASSUME TypeOK, CreditInv, NEW failed \in BOOLEAN, NEW f \in Sees(failed),
           PollDevice(failed, f), granted' = granted, ~misled'
    PROVE  \E n \in 0 .. Window :
             /\ n <= Promised
             /\ Ahead(credit', seq, SeqMod) = Usable + n
             /\ Promised' = Promised - n
<1>1. /\ SeqMod \in Nat \ {0} /\ Window \in Nat
      /\ credit \in 0 .. SeqMod - 1 /\ seq \in 0 .. SeqMod - 1 /\ granted \in 0 .. SeqMod - 1
      /\ credit' \in 0 .. SeqMod - 1
  BY PollType, SdpcmAssumption DEF TypeOK, SeqNumbers, SdpcmAssumption
<1> DEFINE u == Ahead(credit', seq, SeqMod)
           g == Ahead(granted, seq, SeqMod)
           n == u - Usable
<1>2. u \in 0 .. SeqMod - 1 /\ g \in 0 .. SeqMod - 1
  BY <1>1, AheadType
<1>0. ~misled
  BY PollMisleads
<1>3. u <= g
  BY PollCredit DEF CreditOK
<1>4. Usable <= u
  <2>1. CASE credit' = credit
    <3>1. u \in Int
      BY <1>2
    <3> QED
      BY <2>1, <3>1 DEF Usable
  <2>2. CASE credit' # credit
    <3>1. queue # <<>> /\ credit' = Head(queue).credit
      BY <2>2, PollCredit
    <3>2. Head(queue) = queue[1] /\ 1 \in 1 .. Len(queue)
      BY <3>1, HeadTail DEF TypeOK
    <3> QED
      BY <1>0, <3>1, <3>2 DEF CreditInv, CreditOK, Usable
  <2> QED
    BY <2>1, <2>2
<1>5. Ahead(granted, credit', SeqMod) = g - u
  BY <1>1, <1>3, AheadBetween
<1>6. Usable \in Nat /\ Promised \in Nat /\ Usable + Promised = g /\ Usable + Promised <= Window
  BY <1>0, Account
<1>7. Promised' = g - u
  BY <1>5 DEF Promised
<1> HIDE DEF u, g
<1>8. n \in 0 .. Window /\ n <= Promised /\ u = Usable + n /\ Promised' = Promised - n
  BY <1>1, <1>2, <1>3, <1>4, <1>6, <1>7
<1> QED
  BY <1>8 DEF u

\* A transmitted frame spends one credit.
LEMMA SpendsOne ==
    ASSUME TypeOK, NEW cr \in SeqNumbers, NEW gr \in SeqNumbers, cr # seq
    PROVE  Ahead(cr, Succ(seq, SeqMod), SeqMod) = Ahead(cr, seq, SeqMod) - 1
BY AheadSucc, SdpcmAssumption DEF TypeOK, SeqNumbers, SdpcmAssumption

CreditStep == \E n \in 0 .. Window :
    \/ /\ Usable + Promised + n <= Window
       /\ Promised' = Promised + n /\ Usable' = Usable
    \/ /\ n <= Promised
       /\ Usable' = Usable + n /\ Promised' = Promised - n
    \/ /\ n <= Promised /\ Usable + n > 0
       /\ Usable' = Usable + n - 1 /\ Promised' = Promised - n

LEMMA SendCommonSpends ==
    ASSUME TypeOK, CreditInv, ~misled, NEW c, NEW nested, NEW buf, NEW id,
           SendCommon(c, nested, buf, id), UNCHANGED <<credit, granted>>
    PROVE  CreditStep \/ UNCHANGED <<Usable, Promised>>
<1>1. CASE Stalled(flow, credit)
  BY <1>1 DEF SendCommon, Usable, Promised
<1>2. CASE ~Stalled(flow, credit)
  <2>1. seq' = Succ(seq, SeqMod) /\ credit # seq
    BY <1>2 DEF SendCommon, Transmit, Stalled
  <2>2. Usable \in Nat /\ Promised \in Nat
    BY Account
  <2>3. Usable' = Usable - 1 /\ Promised' = Promised
    BY <2>1, SpendsOne DEF Usable, Promised, TypeOK
  <2>4. Usable > 0
    BY <2>1, <2>2, AheadZero, SdpcmAssumption
       DEF Usable, TypeOK, SeqNumbers, SdpcmAssumption
  <2>5. 0 \in 0 .. Window
    BY SdpcmAssumption DEF SdpcmAssumption
  <2>6. /\ 0 <= Promised /\ Usable + 0 > 0
        /\ Usable' = Usable + 0 - 1 /\ Promised' = Promised - 0
    BY <2>2, <2>3, <2>4
  <2> QED
    BY <2>5, <2>6 DEF CreditStep
<1> QED
  BY <1>1, <1>2

LEMMA PollSteps ==
    ASSUME TypeOK, CreditInv, NEW failed \in BOOLEAN, NEW f \in Sees(failed),
           PollDevice(failed, f), UNCHANGED <<granted, seq>>, ~misled'
    PROVE  CreditStep
<1>1. PICK n \in 0 .. Window :
        /\ n <= Promised
        /\ Ahead(credit', seq, SeqMod) = Usable + n
        /\ Promised' = Promised - n
  BY PollLearns
<1>2. Usable' = Usable + n
  BY <1>1 DEF Usable
<1> QED
  BY <1>1, <1>2 DEF CreditStep

LEMMA ChipQueueGrants ==
    ASSUME TypeOK, CreditInv, ~misled, NEW shape, NEW id, ChipQueue(shape, id)
    PROVE  CreditStep
<1>1. PICK g \in SeqNumbers :
        /\ Ahead(granted, seq, SeqMod) <= Ahead(g, seq, SeqMod)
        /\ Ahead(g, seq, SeqMod) <= Window
        /\ granted' = g
  BY ChipGrants DEF CreditInv
<1>2. seq' = seq /\ credit' = credit
  BY DEF ChipQueue, driverVars
<1> DEFINE a == Ahead(granted, seq, SeqMod)
           b == Ahead(g, seq, SeqMod)
           n == b - a
<1>3. Usable \in Nat /\ Promised \in Nat /\ Usable + Promised = a
  BY Account
<1>4. /\ SeqMod \in Nat \ {0} /\ Window \in Nat
      /\ credit \in 0 .. SeqMod - 1 /\ seq \in 0 .. SeqMod - 1 /\ g \in 0 .. SeqMod - 1
  BY SdpcmAssumption DEF TypeOK, SeqNumbers, SdpcmAssumption
<1>5. b \in 0 .. SeqMod - 1
  BY <1>4, AheadType
<1>6. a <= b /\ b <= Window
  BY <1>1
<1>7. Usable = Ahead(credit, seq, SeqMod)
  BY DEF Usable
<1>8. Ahead(credit, seq, SeqMod) <= b
  <2> HIDE DEF b, a
  <2> QED
    BY <1>3, <1>5, <1>6, <1>7
<1>9. Ahead(g, credit, SeqMod) = b - Usable
  BY <1>4, <1>7, <1>8, AheadBetween
<1>10. Promised' = b - Usable /\ Usable' = Usable
  BY <1>1, <1>2, <1>9 DEF Promised, Usable
<1> HIDE DEF a, b
<1>11. /\ n \in 0 .. Window /\ Usable + Promised + n <= Window
       /\ Promised' = Promised + n /\ Usable' = Usable
  BY <1>3, <1>4, <1>5, <1>6, <1>10
<1> QED
  BY <1>11 DEF CreditStep

LEMMA NextSteps ==
    ASSUME TypeOK, CreditInv, [Next]_vars, ~misled'
    PROVE  CreditStep \/ UNCHANGED <<Usable, Promised>>
<1>0. ~misled
  BY MisledStays
<1>1. CASE StartIoctl
  BY <1>0, <1>1, SendCommonSpends DEF StartIoctl
<1>2. CASE StartEthernet
  BY <1>0, <1>2, SendCommonSpends DEF StartEthernet
<1>3. CASE UpcallSend
  BY <1>0, <1>3, SendCommonSpends DEF UpcallSend
<1>4. CASE StallPoll
  <2>1. PICK failed \in BOOLEAN : \E f \in Sees(failed) : PollDevice(failed, f)
    BY <1>4 DEF StallPoll
  <2>2. granted' = granted
    BY <1>4 DEF StallPoll
  <2> DEFINE nested == pc = "upcallStall"
  <2>3. CASE ~Stalled(flow', credit') /\ Transmit(call, nested, spidBuf', ioctlId)
    <3>1. PICK n \in 0 .. Window :
            /\ n <= Promised
            /\ Ahead(credit', seq, SeqMod) = Usable + n
            /\ Promised' = Promised - n
      BY <2>1, <2>2, PollLearns
    <3>2. /\ credit' \in SeqNumbers /\ credit' # seq /\ seq' = Succ(seq, SeqMod)
      BY <2>1, <2>3, PollType DEF Transmit, Stalled
    <3>3. Usable' = Ahead(credit', seq, SeqMod) - 1
      BY <3>2, SpendsOne DEF Usable, TypeOK
    <3>4. Ahead(credit', seq, SeqMod) # 0 /\ Usable \in Nat
      BY <1>0, <3>2, Account, AheadZero, SdpcmAssumption DEF TypeOK, SeqNumbers, SdpcmAssumption
    <3>5. Usable + n > 0 /\ Usable' = Usable + n - 1
      BY <3>1, <3>3, <3>4
    <3> QED
      BY <3>1, <3>5 DEF CreditStep
  <2>4. CASE UNCHANGED seq
    BY <2>1, <2>2, <2>4, PollSteps
  <2> QED
    BY <1>4, <2>3, <2>4 DEF StallPoll
<1>5. CASE IoctlPoll
  BY <1>5, PollSteps DEF IoctlPoll
<1>6. CASE ProcessPoll
  BY <1>6, PollSteps DEF ProcessPoll
<1>7. ASSUME NEW shape, NEW id, ChipQueue(shape, id)
      PROVE  CreditStep
  BY <1>0, <1>7, ChipQueueGrants
<1>8. ASSUME StartLongIoctl \/ StartProcess \/ IoctlGiveUp \/ UpcallReturn \/ Tick
             \/ UNCHANGED vars
      PROVE  UNCHANGED <<Usable, Promised>>
  BY <1>8 DEF StartLongIoctl, StartProcess, IoctlGiveUp, UpcallReturn, Tick, vars,
              driverVars, chipVars, Usable, Promised
<1> QED
  BY <1>1, <1>2, <1>3, <1>4, <1>5, <1>6, <1>7, <1>8
     DEF Next, DriverNext, ChipNext, ChipSend, ChipReply

\* The comparison of wrapping 8-bit numbers implements the counting of
\* credits, which goes astray only when a failed read has changed the credit.
THEOREM CreditsRefined == Spec => CreditsSpec
<1>1. Init => TypeOK /\ CreditInv
  BY InitType, InitCredit
<1>2. TypeOK /\ CreditInv /\ [Next]_vars => (TypeOK /\ CreditInv)'
  BY NextType, NextCredit
<1>3. Init => Credits!Init
  <2> SUFFICES ASSUME Init PROVE Credits!Init
    OBVIOUS
  <2>1. seq = 0 /\ credit = 1 /\ granted \in 1 .. Window /\ misled = FALSE
    BY DEF Init
  <2>2. SeqMod \in Nat /\ Window \in Nat /\ Window < SeqMod
    BY SdpcmAssumption DEF SdpcmAssumption
  <2>3. Ahead(credit, seq, SeqMod) = 1 /\ Ahead(granted, credit, SeqMod) \in 0 .. Window - 1
    BY <2>1, <2>2 DEF Ahead
  <2> QED
    BY <2>1, <2>3, Zenon DEF Credits!Init
<1>4. TypeOK /\ CreditInv /\ [Next]_vars => [Credits!Next]_(Credits!creditVars)
  <2> SUFFICES ASSUME TypeOK, CreditInv, [Next]_vars
               PROVE  Credits!Next \/ UNCHANGED Credits!creditVars
    OBVIOUS
  <2>1. CASE misled'
    <3>1. misled' = TRUE
      BY <2>1, NextType, Zenon DEF TypeOK
    <3> QED
      BY <3>1, Zenon DEF Credits!Next
  <2>2. CASE ~misled'
    <3>1. ~misled /\ misled' = misled
      BY <2>2, MisledStays, NextType, Zenon DEF TypeOK
    <3>2. CASE CreditStep
      BY <3>1, <3>2 DEF CreditStep, Usable, Promised, Credits!Next, Credits!Grant,
                  Credits!Learn, Credits!Send
    <3>3. CASE UNCHANGED <<Usable, Promised>>
      BY <3>1, <3>3 DEF Usable, Promised, Credits!creditVars
    <3> QED
      BY <2>2, <3>2, <3>3, NextSteps
  <2> QED
    BY <2>1, <2>2
<1> QED
  BY <1>1, <1>2, <1>3, <1>4, PTL DEF Spec, CreditsSpec, Credits!Spec
-----------------------------------------------------------------------------
(* Requests and replies.                                                   *)

\* The chip owes or has queued a reply to request x.
Awaited(x) ==
    \/ x \in pending
    \/ \E i \in 1 .. Len(queue) : queue[i].shape = "reply" /\ queue[i].id = x

\* A reply to request x is in the queue.
Queued(x) == \E i \in 1 .. Len(queue) : queue[i].shape = "reply" /\ queue[i].id = x

LEMMA OutstandingIs ==
    ASSUME NEW x
    PROVE  x \in Outstanding <=> Awaited(x)
BY DEF Outstanding, Awaited

\* The composed request is in spid_buf until a frame lands on it; nothing is
\* owed for the current id before the chip has received the request intact,
\* and afterwards the reply is owed until it is read or missed.
ReplyInv ==
    /\ pc = "stall" /\ call = "ioctl" => spidBuf \in {"request", "received"}
    /\ pc = "stall" /\ call = "ioctl" => fits
    /\ pc # "idle" => result # "ok"
    /\ pc = "stall" => chipGot = "no"
    /\ call = "ioctl" /\ fits /\ Awaited(ioctlId) => chipGot = "intact"
    /\ call = "ioctl" /\ fits /\ result = "ok" /\ ~readFailed => chipGot = "intact"
    /\ call = "ioctl" /\ chipGot = "intact" /\ result # "ok" /\ ~missed => Awaited(ioctlId)
    /\ call = "ethernet" /\ result = "ok" => chipGot # "no"

\* The reply of the current ioctl is at the head of the queue, and a poll takes it.
TakesReply == queue' # queue /\ Head(queue).shape = "reply" /\ Head(queue).id = ioctlId

\* What a poll takes off the queue, for the reply to the current request.
LEMMA PollAwaited ==
    ASSUME TypeOK, NEW failed \in BOOLEAN, NEW f \in Sees(failed), PollDevice(failed, f),
           UNCHANGED ioctlId
    PROVE  /\ Queued(ioctlId)' => Queued(ioctlId)
           /\ ~failed /\ RxCode(f) = "control" => Queued(ioctlId)
           /\ Queued(ioctlId) => Queued(ioctlId)' \/ TakesReply
           /\ ~failed /\ TakesReply => RxCode(f) = "control"
<1>1. CASE queue' = queue /\ (~failed => f = NoFrame)
  BY <1>1 DEF RxCode, NoFrame, Queued, TakesReply
<1>2. CASE queue # <<>> /\ queue' = Tail(queue) /\ (~failed => f = Head(queue) /\ f \in Frame)
  <2>1. queue # <<>> /\ queue \in Seq(Frame) /\ queue' = Tail(queue)
    BY <1>2 DEF TypeOK
  <2>2. /\ Len(queue) \in Nat \ {0} /\ Head(queue) = queue[1]
        /\ Len(queue') = Len(queue) - 1
        /\ \A i \in 1 .. Len(queue') : queue'[i] = queue[i + 1]
    BY <2>1, HeadTail
  <2>3. \A i \in 1 .. Len(queue') : i + 1 \in 1 .. Len(queue)
    BY <2>2
  <2>4. \A i \in 1 .. Len(queue) : i = 1 \/ i - 1 \in 1 .. Len(queue')
    BY <2>2
  <2>5. \A i \in 1 .. Len(queue) : i # 1 => queue[i] = queue'[i - 1]
    BY <2>2, <2>4
  <2>6. ~failed => (RxCode(f) = "control"
                      <=> queue[1].shape = "reply" /\ queue[1].id = ioctlId)
    BY <1>2, <2>2 DEF RxCode, IdMatches
  <2>7. 1 \in 1 .. Len(queue) /\ queue' # queue
    <3>1. 1 \in 1 .. Len(queue) /\ Len(queue') # Len(queue)
      BY <2>2
    <3> QED
      BY <3>1, Zenon
  <2>8. Queued(ioctlId)' => Queued(ioctlId)
    BY <2>2, <2>3 DEF Queued
  <2>9. ~failed /\ RxCode(f) = "control" => Queued(ioctlId)
    BY <2>6, <2>7 DEF Queued
  <2>10. ASSUME NEW i \in 1 .. Len(queue), queue[i].shape = "reply", queue[i].id = ioctlId
         PROVE  Queued(ioctlId)' \/ TakesReply
    <3>1. CASE i = 1
      BY <2>2, <2>7, <2>10, <3>1 DEF TakesReply
    <3>2. CASE i # 1
      <4>1. i - 1 \in 1 .. Len(queue') /\ queue'[i - 1] = queue[i]
        BY <2>4, <2>5, <3>2
      <4> QED
        BY <2>10, <4>1 DEF Queued
    <3> QED
      BY <3>1, <3>2
  <2>11. ~failed /\ TakesReply => RxCode(f) = "control"
    BY <2>2, <2>6 DEF TakesReply
  <2> QED
    BY <2>8, <2>9, <2>10, <2>11 DEF Queued
<1> QED
  BY <1>1, <1>2, PollQueue

LEMMA AwaitedIs ==
    Awaited(ioctlId) <=> ioctlId \in pending \/ Queued(ioctlId)
BY DEF Awaited, Queued

LEMMA AwaitedIsNext ==
    Awaited(ioctlId)' <=> ioctlId' \in pending' \/ Queued(ioctlId)'
BY DEF Awaited, Queued

\* A frame the chip queues is a reply only for the request it is taken from; a
\* reply that is damaged on its way is missed.
LEMMA ChipAwaited ==
    ASSUME TypeOK, [ChipNext]_vars
    PROVE  /\ Awaited(ioctlId)' => Awaited(ioctlId)
           /\ Awaited(ioctlId) => Awaited(ioctlId)' \/ missed'
           /\ missed => missed'
<1>1. ASSUME NEW shape \in Shapes, NEW id \in Ids, ChipQueue(shape, id)
      PROVE  /\ ioctlId' = ioctlId
             /\ (\E i \in 1 .. Len(queue') : queue'[i].shape = "reply" /\ queue'[i].id = ioctlId)
                <=> \/ \E i \in 1 .. Len(queue) : queue[i].shape = "reply" /\ queue[i].id = ioctlId
                    \/ shape = "reply" /\ id = ioctlId
  <2>1. PICK g \in SeqNumbers, fl \in BOOLEAN :
          queue' = Append(queue, [shape |-> shape, credit |-> g, flow |-> fl, id |-> id])
    BY <1>1, SdpcmAssumption DEF ChipQueue, SdpcmAssumption
  <2> DEFINE f == [shape |-> shape, credit |-> g, flow |-> fl, id |-> id]
  <2>2. f \in Frame /\ f.shape = shape /\ f.id = id
    BY DEF Frame
  <2>3. queue \in Seq(Frame) /\ Len(queue) \in Nat
    BY LenProperties DEF TypeOK
  <2> HIDE DEF f
  <2>4. /\ Len(queue') = Len(queue) + 1
        /\ \A i \in 1 .. Len(queue) : queue'[i] = queue[i]
        /\ queue'[Len(queue) + 1] = f
    BY <2>1, <2>2, <2>3, AppendProperties DEF f
  <2>5. \A i \in 1 .. Len(queue') : i \in 1 .. Len(queue) \/ i = Len(queue) + 1
    BY <2>3, <2>4
  <2>6. (\A i \in 1 .. Len(queue) : i \in 1 .. Len(queue')) /\ Len(queue) + 1 \in 1 .. Len(queue')
    BY <2>3, <2>4
  <2>7. ioctlId' = ioctlId
    BY <1>1 DEF ChipQueue, driverVars
  <2> QED
    BY <2>2, <2>4, <2>5, <2>6, <2>7
<1>2. ASSUME NEW shape \in ChipShapes, ChipSend(shape)
      PROVE  (Awaited(ioctlId)' <=> Awaited(ioctlId)) /\ missed' = missed
  <2>1. shape \in Shapes /\ shape # "reply" /\ 0 \in Ids
    BY SdpcmAssumption DEF SdpcmAssumption, Ids
  <2>2. pending' = pending /\ ChipQueue(shape, 0) /\ missed' = missed
    BY <1>2 DEF ChipSend
  <2> QED
    BY <1>1, <2>1, <2>2 DEF Awaited
<1>3. ASSUME NEW id \in pending, pending' = pending \ {id}, ChipQueue("reply", id)
      PROVE  Awaited(ioctlId)' <=> Awaited(ioctlId)
  <2>1. "reply" \in Shapes /\ id \in Ids
    BY DEF Shapes, TypeOK
  <2> QED
    BY <1>1, <1>3, <2>1 DEF Awaited
<1>4. ASSUME NEW id \in pending, pending' = pending \ {id}, ChipQueue("damaged", id)
      PROVE  /\ Awaited(ioctlId)' => Awaited(ioctlId)
             /\ Awaited(ioctlId) => Awaited(ioctlId)' \/ id = ioctlId
  <2>1. "damaged" \in Shapes /\ id \in Ids
    BY DEF Shapes, TypeOK
  <2> QED
    BY <1>1, <1>4, <2>1 DEF Awaited
<1>5. ASSUME NEW id \in pending, ChipReply(id)
      PROVE  /\ Awaited(ioctlId)' => Awaited(ioctlId)
             /\ Awaited(ioctlId) => Awaited(ioctlId)' \/ missed'
             /\ missed => missed'
  <2>1. pending' = pending \ {id}
    BY <1>5 DEF ChipReply
  <2>2. CASE ChipQueue("reply", id) /\ UNCHANGED missed
    BY <1>3, <2>1, <2>2, Zenon
  <2>3. CASE ChipQueue("damaged", id) /\ missed' = (missed \/ id = ioctlId)
    BY <1>4, <2>1, <2>3, Zenon
  <2> QED
    BY <1>5, <2>2, <2>3 DEF ChipReply
<1>6. CASE UNCHANGED vars
  BY <1>6 DEF vars, driverVars, chipVars, historyVars, Awaited
<1> QED
  BY <1>2, <1>5, <1>6, Zenon DEF ChipNext

\* Transmitting the frame of a call: an ioctl's buffer holds its request or
\* what landed on it, and nothing is owed for it yet.
LEMMA TransmitReply ==
    ASSUME NEW c \in Calls, NEW buf, NEW id, Transmit(c, FALSE, buf, id),
           ioctlId' = id, call' = c,
           c = "ioctl" => /\ buf \in {"request", "received"}
                          /\ id \notin pending /\ ~Queued(id)'
    PROVE  ReplyInv'
<1>1. PICK written \in BOOLEAN :
        /\ chipGot' = CASE FALSE -> chipGot
                        [] ~FALSE /\ ~written -> "no"
                        [] ~FALSE /\ written /\ buf = "received" -> "garbled"
                        [] OTHER -> "intact"
        /\ pending' = IF written /\ ~FALSE /\ buf = "request"
                      THEN pending \cup {id} ELSE pending
        /\ AfterSend(c, FALSE, WriteResult(written))
  BY DEF Transmit
<1>2. pc' = IF c = "ioctl" THEN "loop" ELSE "idle"
  BY <1>1 DEF AfterSend
<1>3. chipGot' = IF ~written THEN "no" ELSE IF buf = "received" THEN "garbled" ELSE "intact"
  BY <1>1
<1>4. CASE c = "ioctl"
  <2>1. result' = "none" /\ call' = "ioctl"
    BY <1>1, <1>4 DEF AfterSend
  <2>2. chipGot' = "intact" <=> written /\ buf = "request"
    BY <1>3, <1>4
  <2>3. Awaited(ioctlId)' <=> written /\ buf = "request"
    BY <1>1, <1>4 DEF Awaited, Queued
  <2> QED
    BY <1>2, <1>4, <2>1, <2>2, <2>3 DEF ReplyInv
<1>5. CASE c # "ioctl"
  <2>1. call' # "ioctl" /\ pc' = "idle"
    BY <1>2, <1>5
  <2>2. result' = "ok" => written
    BY <1>1, <1>5 DEF AfterSend, WriteResult
  <2>3. written => chipGot' # "no"
    BY <1>3
  <2> QED
    BY <2>1, <2>2, <2>3 DEF ReplyInv
<1> QED
  BY <1>4, <1>5

\* A step inside a call, away from its own stall, that returns nothing.
LEMMA QuietReply ==
    ASSUME ReplyInv, pc # "idle", pc' # "stall", result' # "ok",
           UNCHANGED <<call, fits, chipGot>>,
           Awaited(ioctlId)' => Awaited(ioctlId),
           Awaited(ioctlId) => Awaited(ioctlId)' \/ missed',
           missed => missed'
    PROVE  ReplyInv'
BY DEF ReplyInv

\* The entry of send_common for a public call that has just begun.
LEMMA SendCommonReply ==
    ASSUME TypeOK, NEW c \in Calls, NEW buf, NEW id, SendCommon(c, FALSE, buf, id),
           ioctlId' = id, call' = c, fits', spidBuf' = buf, queue' = queue,
           c = "ioctl" => buf = "request" /\ ~Awaited(id)
    PROVE  ReplyInv'
<1>1. CASE Stalled(flow, credit)
  BY <1>1 DEF SendCommon, ReplyInv, Awaited
<1>2. CASE ~Stalled(flow, credit)
  BY <1>2, TransmitReply DEF SendCommon, Awaited, Queued
<1> QED
  BY <1>1, <1>2

\* A stall loop drops the reply it takes.
LEMMA StallReply ==
    ASSUME TypeOK, ReplyInv, StallPoll
    PROVE  ReplyInv'
<1>1. PICK failed \in BOOLEAN : \E f \in Sees(failed) :
        PollDevice(failed, f) /\ DropReply(failed)
  BY DEF StallPoll
<1>2. UNCHANGED <<ioctlId, call, fits, granted>> /\ call \in Calls /\ pc \in {"stall", "upcallStall"}
  BY DEF StallPoll, TypeOK, Calls
<1>3. spidBuf' \in {spidBuf, "received"}
  BY <1>1 DEF PollDevice
<1>4. (missed => missed') /\ (TakesReply => missed')
  BY <1>1, <1>2, Zenon DEF DropReply, Took, TakesReply
<1>6. /\ Queued(ioctlId)' => Queued(ioctlId)
      /\ Queued(ioctlId) => Queued(ioctlId)' \/ missed'
  BY <1>1, <1>2, <1>4, PollAwaited
<1>5. UNCHANGED pending =>
        /\ Awaited(ioctlId)' => Awaited(ioctlId)
        /\ Awaited(ioctlId) => Awaited(ioctlId)' \/ missed'
  BY <1>2, <1>6, AwaitedIs, AwaitedIsNext
<1>7. CASE pc = "upcallStall"
  <2>1. UNCHANGED <<pending, chipGot>> /\ pc' \in {"upcall", "upcallStall"} /\ result' # "ok"
    <3>1. result # "ok"
      BY <1>7 DEF ReplyInv
    <3> QED
      BY <1>7, <3>1 DEF StallPoll, Transmit, AfterSend
  <2> QED
    BY <1>2, <1>4, <1>5, <1>7, <2>1, QuietReply
<1>8. CASE pc = "stall"
  <2>1. result # "ok" /\ chipGot = "no"
    BY <1>8 DEF ReplyInv
  <2>2. CASE Transmit(call, FALSE, spidBuf', ioctlId)
    <3>1. call = "ioctl" => spidBuf' \in {"request", "received"}
      BY <1>3, <1>8 DEF ReplyInv
    <3>2. ASSUME call = "ioctl"
          PROVE  ioctlId \notin pending /\ ~Queued(ioctlId)'
      <4>1. CASE fits
        BY <1>6, <2>1, <3>2, <4>1 DEF ReplyInv, Awaited, Queued
      <4>2. CASE ~fits
        BY <1>8, <3>2, <4>2 DEF ReplyInv
      <4> QED
        BY <4>1, <4>2
    <3> QED
      BY <1>2, <2>2, <3>1, <3>2, TransmitReply
  <2>3. CASE UNCHANGED <<pending, chipGot>> /\ AfterSend(call, FALSE, "timeout")
    <3>1. pc' # "stall" /\ result' # "ok"
      BY <2>3 DEF AfterSend
    <3> QED
      BY <1>2, <1>4, <1>5, <1>8, <2>3, <3>1, QuietReply
  <2>4. CASE UNCHANGED <<pending, chipGot, pc, result>>
    BY <1>2, <1>3, <1>4, <1>5, <1>8, <2>1, <2>4 DEF ReplyInv
  <2> QED
    BY <1>8, <2>2, <2>3, <2>4 DEF StallPoll
<1> QED
  BY <1>7, <1>8 DEF StallPoll

LEMMA NextReply ==
    ASSUME TypeOK, ReplyInv, [Next]_vars
    PROVE  ReplyInv'
<1>1. CASE StartIoctl
  <2>1. ~Awaited(NextIoctlId)
    BY <1>1, OutstandingIs DEF StartIoctl, NextIoctlId
  <2> QED
    BY <1>1, <2>1, SendCommonReply DEF StartIoctl, Calls
<1>2. CASE StartLongIoctl
  BY <1>2 DEF StartLongIoctl, AfterSend, ReplyInv
<1>3. CASE StartEthernet
  BY <1>3, SendCommonReply DEF StartEthernet, Calls
<1>4. CASE StartProcess
  BY <1>4 DEF StartProcess, ReplyInv
<1>5. CASE StallPoll
  BY <1>5, StallReply
<1>6. CASE IoctlPoll
  <2>1. PICK failed \in BOOLEAN : \E f \in Sees(failed) :
          /\ PollDevice(failed, f) /\ DropReply(failed)
          /\ \/ RxCode(f) = "control" /\ pc' = "idle" /\ result' = "ok"
             \/ RxCode(f) # "control" /\ pc' \in {"upcall", "loop"} /\ result' = result
    BY <1>6 DEF IoctlPoll
  <2>2. PICK f \in Sees(failed) :
          /\ PollDevice(failed, f) /\ DropReply(failed)
          /\ \/ RxCode(f) = "control" /\ pc' = "idle" /\ result' = "ok"
             \/ RxCode(f) # "control" /\ pc' \in {"upcall", "loop"} /\ result' = result
    BY <2>1
  <2>3. /\ UNCHANGED <<pending, ioctlId, call, fits, chipGot>>
        /\ pc = "loop" /\ call = "ioctl" /\ result # "ok"
    BY <1>6 DEF IoctlPoll, ReplyInv
  <2>4. /\ Queued(ioctlId)' => Queued(ioctlId)
        /\ ~failed /\ RxCode(f) = "control" => Queued(ioctlId)
        /\ Queued(ioctlId) => Queued(ioctlId)' \/ TakesReply
        /\ ~failed /\ TakesReply => RxCode(f) = "control"
    BY <2>2, <2>3, PollAwaited
  <2>5. (missed => missed') /\ (failed /\ TakesReply => missed')
    BY <2>2, Zenon DEF DropReply, Took, TakesReply
  <2>6. readFailed' = failed
    BY <2>2 DEF PollDevice
  <2>7. Awaited(ioctlId)' => Awaited(ioctlId)
    BY <2>3, <2>4, AwaitedIs, AwaitedIsNext
  <2>8. CASE RxCode(f) = "control"
    <3>1. pc' = "idle" /\ result' = "ok"
      BY <2>2, <2>8
    <3>2. ~failed => Awaited(ioctlId)
      BY <2>4, <2>8, AwaitedIs
    <3>3. /\ fits /\ Awaited(ioctlId)' => chipGot = "intact"
          /\ fits /\ ~readFailed' => chipGot = "intact"
      BY <2>3, <2>6, <2>7, <3>2, Zenon DEF ReplyInv
    <3> QED
      BY <2>3, <3>1, <3>3 DEF ReplyInv
  <2>9. CASE RxCode(f) # "control"
    <3>1. pc' # "stall" /\ result' # "ok"
      BY <2>2, <2>3, <2>9
    <3>2. Awaited(ioctlId) => Awaited(ioctlId)' \/ missed'
      BY <2>3, <2>4, <2>5, <2>9, AwaitedIs, AwaitedIsNext
    <3> QED
      BY <2>3, <2>5, <2>7, <3>1, <3>2, QuietReply
  <2> QED
    BY <2>8, <2>9
<1>7. CASE IoctlGiveUp
  <2>1. Awaited(ioctlId)' <=> Awaited(ioctlId)
    BY <1>7 DEF IoctlGiveUp, driverVars, chipVars, Awaited
  <2> QED
    BY <1>7, <2>1, QuietReply DEF IoctlGiveUp, historyVars
<1>8. CASE ProcessPoll
  <2>1. call = "process" /\ call' = "process" /\ pc = "loop"
        /\ pc' \in {"idle", "upcall", "loop"} /\ result' = result
    BY <1>8 DEF ProcessPoll
  <2>2. result' # "ok"
    BY <2>1 DEF ReplyInv
  <2> QED
    BY <2>1, <2>2 DEF ReplyInv
<1>9. CASE UpcallSend
  <2>1. UNCHANGED <<pending, queue, ioctlId, chipGot, call, fits, missed>>
        /\ pc = "upcall" /\ pc' \in {"upcall", "upcallStall"} /\ result' = "none"
    BY <1>9 DEF UpcallSend, SendCommon, Transmit, AfterSend
  <2>2. Awaited(ioctlId)' <=> Awaited(ioctlId)
    BY <2>1 DEF Awaited
  <2> QED
    BY <2>1, <2>2, QuietReply
<1>10. CASE UpcallReturn
  <2>1. /\ UNCHANGED <<pending, queue, ioctlId, chipGot, call, fits, missed, result>>
        /\ pc = "upcall" /\ pc' = "loop" /\ result # "ok"
    BY <1>10 DEF UpcallReturn, driverVars, chipVars, historyVars, ReplyInv
  <2>2. Awaited(ioctlId)' <=> Awaited(ioctlId)
    BY <2>1 DEF Awaited
  <2> QED
    BY <2>1, <2>2, QuietReply
<1>11. CASE Tick \/ UNCHANGED vars
  <2>1. UNCHANGED <<spidBuf, pending, queue, ioctlId, chipGot, call, fits, missed, result, pc,
                    readFailed>>
    BY <1>11 DEF Tick, vars, driverVars, callVars, chipVars, historyVars
  <2>2. Awaited(ioctlId)' <=> Awaited(ioctlId)
    BY <2>1 DEF Awaited
  <2> QED
    BY <2>1, <2>2 DEF ReplyInv
<1>12. CASE ChipNext
  <2>1. UNCHANGED <<spidBuf, ioctlId, chipGot, call, fits, result, pc, readFailed>>
    BY <1>12 DEF ChipNext, ChipSend, ChipReply, ChipQueue, driverVars, callVars
  <2>2. /\ Awaited(ioctlId)' => Awaited(ioctlId)
        /\ Awaited(ioctlId) => Awaited(ioctlId)' \/ missed'
        /\ missed => missed'
    BY <1>12, ChipAwaited
  <2> QED
    BY <2>1, <2>2 DEF ReplyInv
<1> QED
  BY <1>1, <1>2, <1>3, <1>4, <1>5, <1>6, <1>7, <1>8, <1>9, <1>10, <1>11, <1>12
     DEF Next, DriverNext

LEMMA InitReply ==
    ASSUME Init
    PROVE  ReplyInv
BY DEF Init, ReplyInv

\* An ioctl that fits returns 0 only if the chip received its request, or the
\* read that ended it failed.
THEOREM RepliesAreAnswers == Spec => []ReplyNeedsRequest
<1>1. Init => TypeOK /\ ReplyInv
  BY InitType, InitReply
<1>2. TypeOK /\ ReplyInv /\ [Next]_vars => (TypeOK /\ ReplyInv)'
  BY NextType, NextReply
<1>3. ReplyInv => ReplyNeedsRequest
  BY DEF ReplyInv, ReplyNeedsRequest
<1> QED
  BY <1>1, <1>2, <1>3, PTL DEF Spec

\* Until it is returned, damaged on its way, taken by a failed read or dropped in a
\* nested stall, the reply of the ioctl in progress is with the chip or in its queue.
THEOREM RepliesAreKept == Spec => []ReplyNotLost
<1>1. Init => TypeOK /\ ReplyInv
  BY InitType, InitReply
<1>2. TypeOK /\ ReplyInv /\ [Next]_vars => (TypeOK /\ ReplyInv)'
  BY NextType, NextReply
<1>3. ReplyInv => ReplyNotLost
  BY OutstandingIs DEF ReplyInv, ReplyNotLost
<1> QED
  BY <1>1, <1>2, <1>3, PTL DEF Spec

\* An Ethernet send returns 0 only if a frame reached the chip.
THEOREM SendsReachTheChip == Spec => []SentIfOk
<1>1. Init => TypeOK /\ ReplyInv
  BY InitType, InitReply
<1>2. TypeOK /\ ReplyInv /\ [Next]_vars => (TypeOK /\ ReplyInv)'
  BY NextType, NextReply
<1>3. ReplyInv => SentIfOk
  BY DEF ReplyInv, SentIfOk
<1> QED
  BY <1>1, <1>2, <1>3, PTL DEF Spec

-----------------------------------------------------------------------------
(* Events.                                                                 *)

\* Where the events are in q.
EventsIn(q) == {i \in 1 .. Len(q) : q[i].shape = "event"}

LEMMA EventsFinite ==
    ASSUME NEW q \in Seq(Frame)
    PROVE  IsFiniteSet(EventsIn(q)) /\ Cardinality(EventsIn(q)) \in Nat
<1>1. IsFiniteSet(1 .. Len(q))  BY LenProperties, FS_Interval
<1>2. IsFiniteSet(EventsIn(q))  BY <1>1, FS_Subset DEF EventsIn
<1>3. QED  BY <1>2, FS_CardinalityType

LEMMA EventsAppend ==
    ASSUME NEW q \in Seq(Frame), NEW f \in Frame
    PROVE  Cardinality(EventsIn(Append(q, f)))
             = Cardinality(EventsIn(q)) + (IF f.shape = "event" THEN 1 ELSE 0)
<1>1. /\ Len(q) \in Nat /\ Len(Append(q, f)) = Len(q) + 1
      /\ \A i \in 1 .. Len(q) : Append(q, f)[i] = q[i]
      /\ Append(q, f)[Len(q) + 1] = f
  BY AppendProperties, LenProperties
<1>2. EventsIn(Append(q, f))
        = IF f.shape = "event" THEN EventsIn(q) \cup {Len(q) + 1} ELSE EventsIn(q)
  BY <1>1 DEF EventsIn
<1>3. Len(q) + 1 \notin EventsIn(q)  BY <1>1 DEF EventsIn
<1>4. IsFiniteSet(EventsIn(q)) /\ Cardinality(EventsIn(q)) \in Nat  BY EventsFinite
<1>5. Cardinality(EventsIn(q) \cup {Len(q) + 1})
        = IF Len(q) + 1 \in EventsIn(q) THEN Cardinality(EventsIn(q))
                                        ELSE Cardinality(EventsIn(q)) + 1
  BY <1>4, FS_AddElement, Zenon
<1>6. QED  BY <1>2, <1>3, <1>4, <1>5

LEMMA EventsTail ==
    ASSUME NEW q \in Seq(Frame), q # <<>>
    PROVE  Cardinality(EventsIn(Tail(q)))
             = Cardinality(EventsIn(q)) - (IF Head(q).shape = "event" THEN 1 ELSE 0)
<1> DEFINE late == EventsIn(q) \ {1}
           shift == [i \in EventsIn(Tail(q)) |-> i + 1]
<1>1. /\ Len(q) \in Nat \ {0} /\ Head(q) = q[1] /\ Tail(q) \in Seq(Frame)
      /\ Len(Tail(q)) = Len(q) - 1
      /\ \A i \in 1 .. Len(Tail(q)) : Tail(q)[i] = q[i + 1]
  BY HeadTail
<1>2. \A i \in EventsIn(Tail(q)) : i \in Nat /\ i + 1 \in late  BY <1>1 DEF EventsIn
<1>3. \A j \in late : j \in Nat /\ j - 1 \in EventsIn(Tail(q)) /\ (j - 1) + 1 = j
  BY <1>1 DEF EventsIn
<1>4. 1 \in EventsIn(q) <=> Head(q).shape = "event"  BY <1>1 DEF EventsIn
<1>5. ExistsBijection(EventsIn(Tail(q)), late)
  <2> HIDE DEF late
  <2>1. shift \in [EventsIn(Tail(q)) -> late]  BY <1>2
  <2>2. \A a, b \in EventsIn(Tail(q)) : shift[a] = shift[b] => a = b  BY <1>2
  <2>3. \A j \in late : \E i \in EventsIn(Tail(q)) : shift[i] = j  BY <1>3
  <2>4. shift \in Bijection(EventsIn(Tail(q)), late)
    BY <2>1, <2>2, <2>3 DEF Bijection, Injection, Surjection, IsInjective
  <2>5. QED  BY <2>4 DEF ExistsBijection
<1>6. Cardinality(late) = Cardinality(EventsIn(Tail(q)))
  <2> HIDE DEF late
  <2>1. IsFiniteSet(EventsIn(Tail(q)))  BY <1>1, EventsFinite
  <2>2. QED  BY <1>5, <2>1, FS_Bijection, Zenon
<1>7. Cardinality(late) = IF 1 \in EventsIn(q) THEN Cardinality(EventsIn(q)) - 1
                                               ELSE Cardinality(EventsIn(q))
  BY EventsFinite, FS_RemoveElement, Zenon
<1>8. Cardinality(EventsIn(q)) \in Nat  BY EventsFinite
<1>9. QED  BY <1>4, <1>6, <1>7, <1>8

\* A poll takes an event off the queue exactly when it hands one on or loses it in a
\* failed read.
LEMMA PollEvents ==
    ASSUME TypeOK, EventsHandled, NEW failed \in BOOLEAN, NEW f \in Sees(failed),
           PollDevice(failed, f), HandleEvent(failed, f)
    PROVE  EventsHandled'
<1>1. queue \in Seq(Frame) /\ unhandled = Cardinality(EventsIn(queue))
  BY DEF TypeOK, EventsHandled, EventsIn
<1>2. unhandled' = Cardinality(EventsIn(queue'))
  <2>1. CASE queue' = queue /\ (~failed => f = NoFrame)
    BY <1>1, <2>1 DEF HandleEvent, RxCode, NoFrame, Took
  <2>2. CASE queue # <<>> /\ queue' = Tail(queue) /\ (~failed => f = Head(queue) /\ f \in Frame)
    <3>1. queue' # queue
      <4>1. Len(queue) \in Nat \ {0} /\ Len(queue') = Len(queue) - 1
        BY <1>1, <2>2, HeadTail
      <4>2. Len(queue') # Len(queue)
        BY <4>1
      <4> QED
        BY <4>2, Zenon
    <3>2. ~failed => (RxCode(f) = "event" <=> Head(queue).shape = "event")
      BY <2>2 DEF RxCode
    <3>3. failed => (Took("event") <=> Head(queue).shape = "event")
      BY <3>1 DEF Took
    <3>4. unhandled' = IF Head(queue).shape = "event" THEN unhandled - 1 ELSE unhandled
      BY <3>2, <3>3 DEF HandleEvent
    <3>5. QED  BY <1>1, <2>2, <3>4, EventsFinite, EventsTail
  <2>3. QED  BY <2>1, <2>2, PollQueue
<1>3. QED  BY <1>2 DEF EventsHandled, EventsIn

LEMMA ChipEvents ==
    ASSUME TypeOK, EventsHandled, ChipNext
    PROVE  EventsHandled'
<1>1. queue \in Seq(Frame) /\ unhandled = Cardinality(EventsIn(queue))
  BY DEF TypeOK, EventsHandled, EventsIn
<1>2. ASSUME NEW shape \in Shapes, NEW id \in Ids, ChipQueue(shape, id)
      PROVE  Cardinality(EventsIn(queue'))
               = Cardinality(EventsIn(queue)) + (IF shape = "event" THEN 1 ELSE 0)
  <2>1. PICK g \in SeqNumbers, fl \in BOOLEAN :
          queue' = Append(queue, [shape |-> shape, credit |-> g, flow |-> fl, id |-> id])
    BY <1>2, SdpcmAssumption DEF ChipQueue, SdpcmAssumption
  <2> DEFINE f == [shape |-> shape, credit |-> g, flow |-> fl, id |-> id]
  <2>2. f \in Frame /\ f.shape = shape  BY DEF Frame
  <2> HIDE DEF f
  <2>3. queue' = Append(queue, f)  BY <2>1 DEF f
  <2>4. QED  BY <1>1, <2>2, <2>3, EventsAppend
<1>3. ASSUME NEW shape \in ChipShapes, ChipSend(shape)
      PROVE  unhandled' = Cardinality(EventsIn(queue'))
  <2>1. shape \in Shapes /\ 0 \in Ids  BY SdpcmAssumption DEF SdpcmAssumption, Ids
  <2>2. ChipQueue(shape, 0)  BY <1>3 DEF ChipSend
  <2>3. unhandled' = unhandled + (IF shape = "event" THEN 1 ELSE 0)
    BY <1>1, <1>3, EventsFinite DEF ChipSend
  <2>4. QED  BY <1>1, <1>2, <2>1, <2>2, <2>3
<1>4. ASSUME NEW id \in pending, ChipReply(id)
      PROVE  unhandled' = Cardinality(EventsIn(queue'))
  <2>1. "reply" \in Shapes /\ "damaged" \in Shapes /\ id \in Ids  BY DEF Shapes, TypeOK
  <2>2. (ChipQueue("reply", id) \/ ChipQueue("damaged", id)) /\ unhandled' = unhandled
    BY <1>4 DEF ChipReply
  <2>3. QED  BY <1>1, <1>2, <2>1, <2>2, EventsFinite
<1>5. unhandled' = Cardinality(EventsIn(queue'))  BY <1>3, <1>4 DEF ChipNext
<1>6. QED  BY <1>5 DEF EventsHandled, EventsIn

LEMMA NextEvents ==
    ASSUME TypeOK, EventsHandled, [Next]_vars
    PROVE  EventsHandled'
<1>1. CASE StallPoll \/ IoctlPoll \/ ProcessPoll
  <2>1. PICK failed \in BOOLEAN : \E f \in Sees(failed) :
          PollDevice(failed, f) /\ HandleEvent(failed, f)
    BY <1>1 DEF StallPoll, IoctlPoll, ProcessPoll
  <2>2. QED  BY <2>1, PollEvents
<1>2. CASE ChipNext  BY <1>2, ChipEvents
<1>3. ASSUME ~(StallPoll \/ IoctlPoll \/ ProcessPoll), ~ChipNext
      PROVE  UNCHANGED <<queue, unhandled>>
  BY <1>3 DEF Next, DriverNext, StartIoctl, StartLongIoctl, StartEthernet, StartProcess,
     IoctlGiveUp, UpcallSend, UpcallReturn, Tick, vars, driverVars, callVars, chipVars,
     historyVars
<1>4. CASE UNCHANGED <<queue, unhandled>>  BY <1>4 DEF EventsHandled
<1>5. QED  BY <1>1, <1>2, <1>3, <1>4

\* Whichever of the three loops reads an event well, it is handed on: the events
\* queued, not handed on and not taken by a failed read are those in the queue.
THEOREM EventsReachTheDriver == Spec => []EventsHandled
<1>1. Init => TypeOK  BY InitType
<1>2. Init => EventsHandled
  <2>1. {i \in 1 .. Len(<<>>) : <<>>[i].shape = "event"} = {}  OBVIOUS
  <2>2. QED  BY <2>1, FS_EmptySet DEF Init, EventsHandled
<1>3. TypeOK /\ EventsHandled /\ [Next]_vars => (TypeOK /\ EventsHandled)'
  BY NextType, NextEvents
<1>4. QED  BY <1>1, <1>2, <1>3, PTL DEF Spec
=============================================================================
