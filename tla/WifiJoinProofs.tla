--------------------------- MODULE WifiJoinProofs ---------------------------
(***************************************************************************)
(* What is proved of WifiJoin for every length of the chip's queue and      *)
(* every choice of the events that it reports: the types, the three         *)
(* properties of the events' bookkeeping, and that WifiJoin implements      *)
(* LinkStatus.                                                              *)
(***************************************************************************)
EXTENDS WifiJoin, TLAPS

-----------------------------------------------------------------------------
(* The type invariant, in parts.                                           *)

JoinType == join \in [kind : Kinds, flags : SUBSET Flags]

CallType ==
    /\ pend \subseteq Requests /\ owed \subseteq Requests
    /\ netifUp \subseteq {"STA", "AP"}
    /\ pc \in {"idle", "leave"} \cup PollStages \cup JoinStages
    /\ wanted \in AuthTypes \cup {"none"}
    /\ mode \in {"wpa", "wpa2", "lost"} /\ heard \subseteq Flags

ChipType ==
    /\ air \in {"off", "authed"} \cup Linked
    /\ {target, apUp, mismatch} \subseteq BOOLEAN

QueueType == queue \in Seq(Events)

LEMMA TypeParts == TypeOK <=> JoinType /\ CallType /\ ChipType /\ QueueType
BY DEF TypeOK, JoinType, CallType, ChipType, QueueType

LEMMA TypePartsNext == TypeOK' <=> JoinType' /\ CallType' /\ ChipType' /\ QueueType'
BY DEF TypeOK, JoinType, CallType, ChipType, QueueType

\* The events of a command, or of a step of the chip.
LEMMA EventLists ==
    /\ <<>> \in Seq(Events)
    /\ \A ev \in Events : <<ev>> \in Seq(Events)
    /\ \A ev, ew \in Events : <<ev, ew>> \in Seq(Events)
OBVIOUS

LEMMA LeavingEvents == Leaving \in Seq(Events) /\ Append(Leaving, "DISASSOC") \in Seq(Events)
<1>1. CASE air \in Linked
  BY <1>1 DEF Leaving, Events
<1>2. CASE air \notin Linked
  BY <1>2 DEF Leaving, Events
<1> QED BY <1>1, <1>2

LEMMA StateType ==
    ASSUME NEW kind \in Kinds, NEW flags \in SUBSET Flags
    PROVE  State(kind, flags) \in [kind : Kinds, flags : SUBSET Flags]
BY DEF State

LEMMA JoinAfterType ==
    ASSUME NEW ev \in Events, NEW j \in [kind : Kinds, flags : SUBSET Flags]
    PROVE  /\ JoinAfter(ev, j) \in [kind : Kinds, flags : SUBSET Flags]
           /\ AfterReport(JoinAfter(ev, j)) \in [kind : Kinds, flags : SUBSET Flags]
           /\ Sets(ev) \subseteq Flags /\ Asks(ev) \subseteq Requests
<1>1. Sets(ev) \subseteq Flags /\ Asks(ev) \subseteq Requests
  BY DEF Sets, Asks, Flags, Requests
<1>2. KindAfterAuth(j.kind) \in Kinds
  BY DEF KindAfterAuth, Kinds
<1>3. JoinAfter(ev, j) \in [kind : Kinds, flags : SUBSET Flags]
  BY <1>1, <1>2 DEF JoinAfter, State, Kinds
<1> QED BY <1>1, <1>3 DEF AfterReport, Active, State, Kinds

-----------------------------------------------------------------------------
(* A command leaves the driver alone and adds to the queue.                *)

LEMMA CommandType ==
    ASSUME ChipType, QueueType, CommandDisassoc \/ CommandSsid \/ UNCHANGED chipVars,
           UNCHANGED mismatch \/ mismatch' = FALSE
    PROVE  ChipType' /\ QueueType'
<1>1. air' \in {air, "off"} /\ target' \in {target, TRUE, FALSE} /\ apUp' = apUp
      /\ mismatch' \in {mismatch, FALSE}
  BY DEF CommandDisassoc, CommandSsid, chipVars
<1>2. ChipType'
  BY <1>1 DEF ChipType, Linked
<1>3. \/ queue' = queue
      \/ \E events \in {Leaving, Append(Leaving, "DISASSOC")} : queue' = queue \o events
  BY DEF CommandDisassoc, CommandSsid, chipVars
<1>4. QueueType'
  <2>1. CASE queue' = queue
    BY <2>1 DEF QueueType
  <2>2. ASSUME NEW events \in {Leaving, Append(Leaving, "DISASSOC")}, queue' = queue \o events
        PROVE  QueueType'
    <3>1. events \in Seq(Events)
      BY LeavingEvents
    <3> QED BY <2>2, <3>1 DEF QueueType
  <2> QED BY <1>3, <2>1, <2>2
<1> QED BY <1>2, <1>4

LEMMA TakeEventType ==
    ASSUME JoinType, CallType, ChipType, QueueType, TakeEvent
    PROVE  JoinType' /\ CallType' /\ ChipType' /\ QueueType'
<1> DEFINE ev == Head(queue)
           after == JoinAfter(ev, join)
<1>0. queue \in Seq(Events) /\ queue # <<>>
  BY DEF TakeEvent, QueueType
<1>1. ev \in Events /\ Tail(queue) \in Seq(Events)
  BY <1>0
<1>2. join' = AfterReport(after) /\ JoinType'
  <2>1. join' = AfterReport(after)
    BY DEF TakeEvent
  <2>2. join \in [kind : Kinds, flags : SUBSET Flags]
    BY DEF JoinType
  <2>3. AfterReport(after) \in [kind : Kinds, flags : SUBSET Flags]
    BY <1>1, <2>2, JoinAfterType
  <2> QED BY <2>1, <2>3 DEF JoinType
<1>3. /\ pend' = pend \cup Asks(ev) /\ owed' = owed \cup Asks(ev)
      /\ netifUp' \subseteq netifUp \cup {"STA", "AP"}
      /\ heard' \subseteq heard \cup Sets(ev)
      /\ UNCHANGED <<pc, wanted, mode>>
  BY DEF TakeEvent
<1>4. CallType'
  BY <1>1, <1>3, JoinAfterType DEF CallType, JoinType
<1>5. queue' = Tail(queue) /\ UNCHANGED <<air, target, apUp>> /\ mismatch' \in BOOLEAN
  BY DEF TakeEvent, ChipType
<1>6. ChipType' /\ QueueType'
  BY <1>1, <1>5 DEF ChipType, QueueType
<1> QED BY <1>2, <1>4, <1>6

LEMMA ChipNextType ==
    ASSUME JoinType, CallType, ChipType, QueueType, ChipNext
    PROVE  JoinType' /\ CallType' /\ ChipType' /\ QueueType'
<1>1. UNCHANGED <<driverVars, historyVars>>
  BY DEF ChipNext, ChipAuthenticates, ChipAssociates, ChipKeys, ChipLosesLink, ChipTurnsAp,
         Report
<1>2. \E events \in Seq(Events) : queue' = queue \o events
  BY EventLists DEF ChipNext, ChipAuthenticates, ChipAssociates, ChipKeys, ChipLosesLink,
     ChipTurnsAp, Report, Events
<1>3. air' \in {"off", "authed"} \cup Linked /\ target' \in BOOLEAN /\ apUp' \in BOOLEAN
  BY DEF ChipNext, ChipAuthenticates, ChipAssociates, ChipKeys, ChipLosesLink, ChipTurnsAp,
         ChipType, Linked
<1> QED BY <1>1, <1>2, <1>3 DEF driverVars, historyVars, JoinType, CallType, ChipType, QueueType

LEMMA NextTypes ==
    ASSUME TypeOK, [Next]_vars
    PROVE  TypeOK'
<1> USE TypeParts, TypePartsNext
<1>1. CASE TakeEvent
  BY <1>1, TakeEventType
<1>2. CASE ChipNext
  BY <1>2, ChipNextType
<1>3. ASSUME NEW request \in Requests, Serve(request)
      PROVE  TypeOK'
  <2>1. JoinType' /\ CallType'
    BY <1>3 DEF Serve, Command, CommandMode, Clear, JoinAfterStage, HeardAfterStage, Active, State,
       JoinType, CallType, Kinds, PollStages
  <2>2. CommandDisassoc \/ CommandSsid \/ UNCHANGED chipVars
    BY <1>3 DEF Serve, Command, Requests
  <2> QED BY <1>3, <2>1, <2>2, CommandType DEF Serve
<1>4. CASE StartPoll \/ EndPoll
  BY <1>4 DEF StartPoll, EndPoll, JoinAfterStage, HeardAfterStage, Active, State, Kinds, JoinType, CallType,
     ChipType, QueueType, chipVars, historyVars, PollStages
<1>5. ASSUME NEW auth \in AuthTypes, NEW key \in BOOLEAN, Join(auth, key)
      PROVE  TypeOK'
  <2>1. Effective(auth, key) # "open" => Effective(auth, key) \in {"wpa", "wpa2"}
    BY DEF Effective, AuthTypes
  <2> QED
    BY <1>5, <2>1
      DEF Join, CommandMode, JoinType, CallType, ChipType, QueueType, chipVars, JoinStages
<1>6. CASE JoinRefused \/ LeaveSent
  BY <1>6 DEF JoinRefused, LeaveSent, JoinType, CallType, ChipType, QueueType, chipVars,
     historyVars
<1>7. CASE JoinSent
  BY <1>7 DEF JoinSent, State, Kinds, Flags, JoinType, CallType, ChipType, QueueType, chipVars,
     historyVars
<1>8. CASE JoinSendSsid
  <2>1. JoinType' /\ CallType'
    BY <1>8 DEF JoinSendSsid, JoinType, CallType, JoinStages
  <2> QED BY <1>8, <2>1, CommandType DEF JoinSendSsid
<1>9. CASE Leave
  <2>1. JoinType' /\ CallType'
    BY <1>9 DEF Leave, JoinType, CallType
  <2> QED BY <1>9, <2>1, CommandType DEF Leave
<1>10. CASE UNCHANGED vars
  BY <1>10 DEF vars, driverVars, chipVars, historyVars, JoinType, CallType, ChipType, QueueType
<1> QED
  BY <1>1, <1>2, <1>3, <1>4, <1>5, <1>6, <1>7, <1>8, <1>9, <1>10 DEF Next, PollNext, CallNext

\* Every variable of the joining driver keeps its type, with a queue of any
\* length.
THEOREM JoinTypes == Spec => []TypeOK
<1>1. Init => TypeOK
  <2>1. Init => JoinType
    BY DEF Init, JoinType, State, Kinds
  <2>2. Init => CallType
    BY DEF Init, CallType
  <2>3. Init => ChipType
    BY DEF Init, ChipType
  <2>4. Init => QueueType
    BY DEF Init, QueueType
  <2> QED BY <2>1, <2>2, <2>3, <2>4, TypeParts
<1>2. TypeOK /\ [Next]_vars => TypeOK'
  BY NextTypes
<1> QED BY <1>1, <1>2, PTL DEF Spec

-----------------------------------------------------------------------------
(* Reports of the STA: the flags of wifi_join_state are events that were    *)
(* heard since the last report and the last join or rejoin.                 *)

\* An open network is refused, so that no attempt starts with KEYED set.
FlagsInv ==
    /\ join.flags \subseteq heard
    /\ wanted = "open" => pc \notin {"joinConfig", "joinSsid"}

LEMMA JoinAfterFlags ==
    ASSUME NEW ev, NEW j \in [kind : Kinds, flags : SUBSET Flags]
    PROVE  JoinAfter(ev, j).flags \subseteq j.flags \cup Sets(ev)
BY DEF JoinAfter, State

LEMMA AllFlags == All.flags = Flags
BY DEF All, State

LEMMA NextFlags ==
    ASSUME TypeOK, FlagsInv, [Next]_vars
    PROVE  FlagsInv'
<1> USE DEF FlagsInv
<1>1. CASE TakeEvent
  <2> DEFINE ev == Head(queue)
             after == JoinAfter(ev, join)
  <2>1. join' = AfterReport(after) /\ UNCHANGED <<pc, wanted>>
        /\ heard' = IF after = All THEN {} ELSE heard \cup Sets(ev)
    BY <1>1 DEF TakeEvent
  <2>2. after.flags \subseteq heard \cup Sets(ev)
    BY JoinAfterFlags DEF TypeOK
  <2> HIDE DEF ev, after
  <2>3. CASE after = All
    BY <2>1, <2>3 DEF AfterReport, Active, State
  <2>4. CASE after # All
    BY <2>1, <2>2, <2>4 DEF AfterReport
  <2> QED BY <2>3, <2>4
<1>2. CASE ChipNext
  BY <1>2 DEF ChipNext, ChipAuthenticates, ChipAssociates, ChipKeys, ChipLosesLink, ChipTurnsAp,
     Report, driverVars, historyVars
<1>3. ASSUME NEW request \in Requests, Serve(request)
      PROVE  FlagsInv'
  BY <1>3 DEF Serve, Requests, JoinAfterStage, HeardAfterStage, Active, State
<1>4. CASE StartPoll \/ EndPoll
  BY <1>4
    DEF StartPoll, EndPoll, JoinAfterStage, HeardAfterStage, Active, State, historyVars
<1>5. ASSUME NEW auth \in AuthTypes, NEW key \in BOOLEAN, Join(auth, key)
      PROVE  FlagsInv'
  BY <1>5 DEF Join, Effective
<1>6. CASE JoinRefused \/ LeaveSent \/ JoinSent
  BY <1>6 DEF JoinRefused, LeaveSent, JoinSent, State, historyVars
<1>7. CASE JoinSendSsid \/ Leave
  BY <1>7 DEF JoinSendSsid, Leave
<1>8. CASE UNCHANGED vars
  BY <1>8 DEF vars, driverVars, historyVars
<1> QED
  BY <1>1, <1>2, <1>3, <1>4, <1>5, <1>6, <1>7, <1>8 DEF Next, PollNext, CallNext

\* The interface of the STA is reported up only after an authentication, a link
\* and a key exchange of its own, each of them handled since the join or rejoin
\* that was sent last.
THEOREM ReportsAreEarned == Spec => UpNeedsAll
<1>1. Init => FlagsInv
  BY DEF Init, FlagsInv, State
<1>2. TypeOK /\ FlagsInv /\ [Next]_vars => FlagsInv'
  BY NextFlags
<1>3. TypeOK /\ FlagsInv =>
        [queue # <<>> /\ queue' = Tail(queue) /\ JoinAfter(Head(queue), join) = All
            => heard \cup Sets(Head(queue)) = Flags]_vars
  <2> SUFFICES ASSUME TypeOK, FlagsInv, queue # <<>>, JoinAfter(Head(queue), join) = All
               PROVE  heard \cup Sets(Head(queue)) = Flags
    OBVIOUS
  <2>1. Flags \subseteq join.flags \cup Sets(Head(queue))
    BY JoinAfterFlags, AllFlags DEF TypeOK
  <2>2. Sets(Head(queue)) \subseteq Flags
    BY DEF Sets, Flags
  <2> QED BY <2>1, <2>2 DEF TypeOK, FlagsInv
<1> QED BY <1>1, <1>2, <1>3, JoinTypes, PTL DEF Spec, UpNeedsAll

-----------------------------------------------------------------------------
(* The WPA authentication mode of a rejoin.                                *)

\* From the PRUNE to the next SSID the mode is WPA, as far as the driver can tell,
\* or a request for it is pending; a join that is being sent takes it away, and the PRUNE with it.
ModeInv ==
    /\ mismatch /\ pc # "joinConfig" => "wpa" \in pend \/ mode \in {"wpa", "lost"}
    /\ pc = "wpa" => mode \in {"wpa", "lost"}

LEMMA NextMode ==
    ASSUME TypeOK, ModeInv, [Next]_vars
    PROVE  ModeInv'
<1> USE DEF ModeInv
<1>1. CASE TakeEvent
  <2>1. /\ UNCHANGED <<pc, mode>> /\ pend \subseteq pend'
        /\ Head(queue) = "PRUNE" => "wpa" \in pend'
        /\ mismatch' => mismatch \/ Head(queue) = "PRUNE"
    BY <1>1 DEF TakeEvent, Asks
  <2> QED BY <2>1
<1>2. CASE ChipNext
  <2>1. UNCHANGED <<driverVars, historyVars>>
    BY <1>2 DEF ChipNext, ChipAuthenticates, ChipAssociates, ChipKeys, ChipLosesLink,
       ChipTurnsAp, Report
  <2> QED BY <2>1 DEF driverVars, historyVars
<1>3. ASSUME NEW request \in Requests, Serve(request)
      PROVE  ModeInv'
  <2>1. /\ pc \in PollStages /\ pc' = request /\ pend' = pend \ {request}
        /\ IF request = "wpa" THEN mode' \in {"wpa", "lost"} ELSE UNCHANGED mode
        /\ UNCHANGED mismatch
    BY <1>3 DEF Serve, Clear, Command, CommandMode
  <2> QED BY <2>1 DEF PollStages, Requests
<1>4. CASE StartPoll \/ EndPoll
  BY <1>4 DEF StartPoll, EndPoll, historyVars, PollStages, Requests
<1>5. ASSUME NEW auth \in AuthTypes, NEW key \in BOOLEAN, Join(auth, key)
      PROVE  ModeInv'
  BY <1>5 DEF Join
<1>6. CASE JoinRefused \/ LeaveSent \/ JoinSent
  BY <1>6 DEF JoinRefused, LeaveSent, JoinSent, historyVars
<1>7. CASE JoinSendSsid \/ Leave
  BY <1>7 DEF JoinSendSsid, Leave
<1>8. CASE UNCHANGED vars
  BY <1>8 DEF vars, driverVars, historyVars
<1> QED
  BY <1>1, <1>2, <1>3, <1>4, <1>5, <1>6, <1>7, <1>8 DEF Next, PollNext, CallNext

\* Only Serve starts a rejoin, and only when no earlier request is due.
LEMMA RejoinStarts ==
    ASSUME TypeOK, ModeInv, [Next]_vars, pc # "rejoin", pc' = "rejoin", mismatch
    PROVE  mode \in {"wpa", "lost"}
<1>1. Serve("rejoin")
  <2>1. CASE \E request \in Requests : Serve(request)
    BY <2>1 DEF Serve
  <2>2. CASE ~ \E request \in Requests : Serve(request)
    BY <2>2 DEF Next, PollNext, CallNext, ChipNext, StartPoll, EndPoll, TakeEvent, Join,
       JoinRefused, JoinSendSsid, JoinSent, Leave, LeaveSent, ChipAuthenticates,
       ChipAssociates, ChipKeys, ChipLosesLink, ChipTurnsAp, Report, vars, driverVars
  <2> QED BY <2>1, <2>2
<1>2. pc \in {"packets", "disassoc", "wpa"}
  BY <1>1 DEF Serve, PollStages, Requests
<1>3. CASE pc = "wpa"
  BY <1>3 DEF ModeInv
<1>4. CASE pc # "wpa"
  <2>1. Position("wpa") = 2 /\ Position("rejoin") = 3
    BY DEF Position
  <2>2. Position(pc) \in {0, 1}
    BY <1>2, <1>4 DEF Position
  <2>3. "wpa" \notin Due
    BY <1>1, <2>1 DEF Serve
  <2>4. "wpa" \notin pend
    BY <2>1, <2>2, <2>3 DEF Due
  <2> QED BY <1>2, <2>4 DEF ModeInv
<1> QED BY <1>3, <1>4

\* The rejoin after an RSN mismatch asks for WPA, whatever calls and events came
\* between the PRUNE and the poll that sends it, unless the chip never received
\* the ioctl that sets the mode.
THEOREM RejoinsUseWpa == Spec => RejoinUsesWpa
<1>1. Init => ModeInv
  BY DEF Init, ModeInv
<1>2. TypeOK /\ ModeInv /\ [Next]_vars => ModeInv'
  BY NextMode
<1>3. TypeOK /\ ModeInv /\ [Next]_vars =>
        [pc # "rejoin" /\ pc' = "rejoin" /\ mismatch => mode \in {"wpa", "lost"}]_vars
  BY RejoinStarts
<1> QED BY <1>1, <1>2, <1>3, JoinTypes, PTL DEF Spec, RejoinUsesWpa

-----------------------------------------------------------------------------
(* The access point: what the stack will know when the queue is empty.     *)

ApEvents == {"AP up", "AP down"}

NoAp(s) == \A i \in DOMAIN s : s[i] \notin ApEvents

\* The last event of the access point in s is ev.
LastAp(s, ev) ==
    \E i \in DOMAIN s :
       s[i] = ev /\ ev \in ApEvents /\ \A j \in DOMAIN s : j > i => s[j] \notin ApEvents

LEMMA AddNoAp ==
    ASSUME NEW s \in Seq(Events), NEW t \in Seq(Events), NoAp(t)
    PROVE  /\ NoAp(s \o t) => NoAp(s)
           /\ \A ev \in ApEvents : LastAp(s \o t, ev) => LastAp(s, ev)
<1>1. /\ Len(s \o t) = Len(s) + Len(t) /\ Len(s) \in Nat /\ Len(t) \in Nat
      /\ \A i \in 1 .. Len(s) : (s \o t)[i] = s[i]
      /\ \A i \in Len(s) + 1 .. Len(s) + Len(t) : (s \o t)[i] = t[i - Len(s)]
      /\ DOMAIN s = 1 .. Len(s) /\ DOMAIN t = 1 .. Len(t)
      /\ DOMAIN (s \o t) = 1 .. Len(s) + Len(t)
  OBVIOUS
<1>2. NoAp(s \o t) => NoAp(s)
  BY <1>1 DEF NoAp
<1>3. ASSUME NEW ev \in ApEvents, LastAp(s \o t, ev)
      PROVE  LastAp(s, ev)
  <2>1. PICK i \in 1 .. Len(s) + Len(t) :
           (s \o t)[i] = ev /\ \A j \in 1 .. Len(s) + Len(t) : j > i => (s \o t)[j] \notin ApEvents
    BY <1>1, <1>3 DEF LastAp
  <2>2. i \in 1 .. Len(s)
    <3>1. ASSUME i > Len(s) PROVE FALSE
      <4>1. i - Len(s) \in 1 .. Len(t) /\ (s \o t)[i] = t[i - Len(s)]
        BY <1>1, <3>1
      <4> QED BY <1>1, <2>1, <4>1 DEF NoAp
    <3> QED BY <1>1, <3>1
  <2> QED BY <1>1, <2>1, <2>2 DEF LastAp
<1> QED BY <1>2, <1>3

LEMMA AddAp ==
    ASSUME NEW s \in Seq(Events), NEW ev \in ApEvents
    PROVE  /\ ~NoAp(s \o <<ev>>)
           /\ \A e \in ApEvents : LastAp(s \o <<ev>>, e) => e = ev
<1>1. /\ DOMAIN (s \o <<ev>>) = 1 .. Len(s) + 1 /\ (s \o <<ev>>)[Len(s) + 1] = ev
      /\ Len(s) \in Nat
  <2>1. ev \in Events
    BY DEF Events, ApEvents
  <2>2. <<ev>> \in Seq(Events) /\ Len(<<ev>>) = 1 /\ <<ev>>[1] = ev
    BY <2>1
  <2> QED BY <2>2
<1> QED BY <1>1 DEF NoAp, LastAp

LEMMA HeadGone ==
    ASSUME NEW s \in Seq(Events), s # <<>>
    PROVE  /\ NoAp(Tail(s)) => IF Head(s) \in ApEvents THEN LastAp(s, Head(s)) ELSE NoAp(s)
           /\ \A ev \in ApEvents : LastAp(Tail(s), ev) => LastAp(s, ev)
<1>1. /\ DOMAIN s = 1 .. Len(s) /\ Len(s) \in Nat /\ Len(s) > 0 /\ Head(s) = s[1]
      /\ DOMAIN Tail(s) = 1 .. Len(s) - 1
      /\ \A i \in 1 .. Len(s) - 1 : Tail(s)[i] = s[i + 1]
  OBVIOUS
<1>2. \A j \in 2 .. Len(s) : j - 1 \in 1 .. Len(s) - 1 /\ s[j] = Tail(s)[j - 1]
  BY <1>1
<1>3. ASSUME NoAp(Tail(s))
      PROVE  IF Head(s) \in ApEvents THEN LastAp(s, Head(s)) ELSE NoAp(s)
  <2>1. \A j \in 2 .. Len(s) : s[j] \notin ApEvents
    BY <1>1, <1>2, <1>3 DEF NoAp
  <2>2. 1 \in DOMAIN s /\ \A j \in DOMAIN s : j > 1 => j \in 2 .. Len(s)
    BY <1>1
  <2>3. \A j \in DOMAIN s : j = 1 \/ j \in 2 .. Len(s)
    BY <1>1
  <2> QED BY <1>1, <2>1, <2>2, <2>3 DEF NoAp, LastAp
<1>4. ASSUME NEW ev \in ApEvents, LastAp(Tail(s), ev)
      PROVE  LastAp(s, ev)
  <2>1. PICK i \in 1 .. Len(s) - 1 :
           Tail(s)[i] = ev /\ \A j \in 1 .. Len(s) - 1 : j > i => Tail(s)[j] \notin ApEvents
    BY <1>1, <1>4 DEF LastAp
  <2>2. i + 1 \in DOMAIN s /\ s[i + 1] = ev
    BY <1>1, <2>1
  <2>3. \A j \in DOMAIN s : j > i + 1 => s[j] \notin ApEvents
    <3>1. ASSUME NEW j \in DOMAIN s, j > i + 1
          PROVE  s[j] \notin ApEvents
      <4>1. j \in 2 .. Len(s) /\ j - 1 > i
        BY <1>1, <2>1, <3>1
      <4> QED BY <1>2, <2>1, <4>1
    <3> QED BY <3>1
  <2> QED BY <2>2, <2>3 DEF LastAp
<1> QED BY <1>3, <1>4

ApInv ==
    /\ NoAp(queue) => ("AP" \in netifUp <=> apUp)
    /\ LastAp(queue, "AP up") => apUp
    /\ LastAp(queue, "AP down") => ~apUp

\* A step that tells the driver nothing of the access point.
LEMMA SameAp ==
    ASSUME ApInv, QueueType, NEW t \in Seq(Events), NoAp(t), queue' = queue \o t,
           UNCHANGED <<netifUp, apUp>>
    PROVE  ApInv'
<1>1. /\ NoAp(queue') => NoAp(queue)
      /\ LastAp(queue', "AP up") => LastAp(queue, "AP up")
      /\ LastAp(queue', "AP down") => LastAp(queue, "AP down")
  BY AddNoAp DEF QueueType, ApEvents
<1> QED BY <1>1 DEF ApInv

LEMMA StutterAp ==
    ASSUME ApInv, UNCHANGED <<queue, netifUp, apUp>>
    PROVE  ApInv'
BY DEF ApInv

LEMMA NoApLists ==
    /\ NoAp(Leaving) /\ NoAp(Append(Leaving, "DISASSOC"))
    /\ \A ev \in Events \ ApEvents : NoAp(<<ev>>)
    /\ \A ev, ew \in Events \ ApEvents : NoAp(<<ev, ew>>)
<1>1. /\ NoAp(<<>>)
      /\ \A ev \in Events \ ApEvents : NoAp(<<ev>>)
      /\ \A ev, ew \in Events \ ApEvents : NoAp(<<ev, ew>>)
  BY DEF NoAp
<1>2. NoAp(Leaving) /\ NoAp(Append(Leaving, "DISASSOC"))
  <2>1. Leaving \in Seq(Events) /\ NoAp(Leaving)
    BY <1>1, LeavingEvents DEF Leaving, Events, ApEvents
  <2>2. ASSUME NEW s \in Seq(Events), NoAp(s)
        PROVE  NoAp(Append(s, "DISASSOC"))
    <3>1. "DISASSOC" \in Events \ ApEvents
      BY DEF Events, ApEvents
    <3>2. /\ DOMAIN s = 1 .. Len(s) /\ Len(s) \in Nat
          /\ DOMAIN Append(s, "DISASSOC") = 1 .. Len(s) + 1
          /\ Append(s, "DISASSOC")[Len(s) + 1] = "DISASSOC"
          /\ \A i \in 1 .. Len(s) : Append(s, "DISASSOC")[i] = s[i]
      BY <3>1
    <3> QED BY <2>2, <3>1, <3>2 DEF NoAp
  <2> QED BY <2>1, <2>2
<1> QED BY <1>1, <1>2

LEMMA CommandAp ==
    ASSUME ApInv, QueueType, UNCHANGED netifUp,
           CommandDisassoc \/ CommandSsid \/ UNCHANGED chipVars
    PROVE  ApInv'
<1>1. UNCHANGED apUp
  BY DEF CommandDisassoc, CommandSsid, chipVars
<1>2. \/ queue' = queue
      \/ \E events \in {Leaving, Append(Leaving, "DISASSOC")} : queue' = queue \o events
  BY DEF CommandDisassoc, CommandSsid, chipVars
<1>3. ASSUME NEW events \in {Leaving, Append(Leaving, "DISASSOC")}, queue' = queue \o events
      PROVE  ApInv'
  <2>1. events \in Seq(Events) /\ NoAp(events)
    BY LeavingEvents, NoApLists
  <2> QED BY <1>1, <1>3, <2>1, SameAp
<1> QED BY <1>1, <1>2, <1>3, StutterAp

LEMMA TurnsAp ==
    ASSUME ApInv, QueueType, ChipTurnsAp
    PROVE  ApInv'
<1>1. UNCHANGED netifUp /\ apUp' = ~apUp
      /\ queue' = queue \o (IF apUp THEN <<"AP down">> ELSE <<"AP up">>)
  BY DEF ChipTurnsAp, Report, driverVars
<1>2. CASE apUp
  <2>1. ~NoAp(queue') /\ ~LastAp(queue', "AP up")
    BY <1>1, <1>2, AddAp DEF QueueType, ApEvents
  <2> QED BY <1>1, <1>2, <2>1 DEF ApInv
<1>3. CASE ~apUp
  <2>1. ~NoAp(queue') /\ ~LastAp(queue', "AP down")
    BY <1>1, <1>3, AddAp DEF QueueType, ApEvents
  <2> QED BY <1>1, <1>3, <2>1 DEF ApInv
<1> QED BY <1>2, <1>3

LEMMA TakeEventAp ==
    ASSUME ApInv, QueueType, TakeEvent
    PROVE  ApInv'
<1> DEFINE ev == Head(queue)
<1>1. queue # <<>> /\ queue' = Tail(queue) /\ UNCHANGED apUp
      /\ ("AP" \in netifUp' <=> ("AP" \in netifUp /\ ev # "AP down") \/ ev = "AP up")
  BY DEF TakeEvent, TakesDown
<1>2. /\ NoAp(queue') => IF ev \in ApEvents THEN LastAp(queue, ev) ELSE NoAp(queue)
      /\ LastAp(queue', "AP up") => LastAp(queue, "AP up")
      /\ LastAp(queue', "AP down") => LastAp(queue, "AP down")
  BY <1>1, HeadGone DEF QueueType, ApEvents
<1> HIDE DEF ev
<1>3. NoAp(queue') => ("AP" \in netifUp' <=> apUp')
  <2>1. CASE ev = "AP up"
    BY <1>1, <1>2, <2>1 DEF ApInv, ApEvents
  <2>2. CASE ev = "AP down"
    BY <1>1, <1>2, <2>2 DEF ApInv, ApEvents
  <2>3. CASE ev \notin ApEvents
    BY <1>1, <1>2, <2>3 DEF ApInv, ApEvents
  <2> QED BY <2>1, <2>2, <2>3 DEF ApEvents
<1> QED BY <1>1, <1>2, <1>3 DEF ApInv

LEMMA ChipNextAp ==
    ASSUME ApInv, QueueType, ChipNext
    PROVE  ApInv'
<1>1. CASE ChipTurnsAp
  BY <1>1, TurnsAp
<1>2. CASE ~ChipTurnsAp
  <2>1. UNCHANGED <<netifUp, apUp>>
    BY <1>2 DEF ChipNext, ChipAuthenticates, ChipAssociates, ChipKeys, ChipLosesLink, Report,
       driverVars
  <2>2. \E t \in Seq(Events) : NoAp(t) /\ queue' = queue \o t
    BY <1>2, EventLists, NoApLists DEF ChipNext, ChipAuthenticates, ChipAssociates, ChipKeys,
       ChipLosesLink, Report, Events, ApEvents
  <2> QED BY <2>1, <2>2, SameAp
<1> QED BY <1>1, <1>2

LEMMA NextAp ==
    ASSUME TypeOK, ApInv, [Next]_vars
    PROVE  ApInv'
<1>1. QueueType
  BY TypeParts
<1>2. CASE TakeEvent
  BY <1>1, <1>2, TakeEventAp
<1>3. CASE ChipNext
  BY <1>1, <1>3, ChipNextAp
<1>4. ASSUME NEW request \in Requests, Serve(request)
      PROVE  ApInv'
  <2>1. CommandDisassoc \/ CommandSsid \/ UNCHANGED chipVars
    BY <1>4 DEF Serve, Command, Requests
  <2> QED BY <1>1, <1>4, <2>1, CommandAp DEF Serve
<1>5. CASE JoinSendSsid \/ Leave
  BY <1>1, <1>5, CommandAp DEF JoinSendSsid, Leave
<1>6. CASE StartPoll \/ EndPoll \/ JoinRefused \/ LeaveSent \/ JoinSent \/ UNCHANGED vars
  BY <1>6, StutterAp DEF StartPoll, EndPoll, JoinRefused, LeaveSent, JoinSent, chipVars, vars,
     driverVars
<1>7. ASSUME NEW auth \in AuthTypes, NEW key \in BOOLEAN, Join(auth, key)
      PROVE  ApInv'
  BY <1>7, StutterAp DEF Join, chipVars
<1> QED
  BY <1>2, <1>3, <1>4, <1>5, <1>6, <1>7 DEF Next, PollNext, CallNext

\* The stack knows whether the access point is up as soon as the events are
\* handled, whatever happened to the STA in between.
THEOREM ApLinkIsTold == Spec => []ApLinkTold
<1>1. Init => ApInv
  BY DEF Init, ApInv, LastAp
<1>2. TypeOK /\ ApInv /\ [Next]_vars => ApInv'
  BY NextAp
<1>3. TypeOK /\ ApInv => ApLinkTold
  <2> SUFFICES ASSUME TypeOK, ApInv, queue = <<>>
               PROVE  ("AP" \in netifUp) = apUp
    BY DEF ApLinkTold
  <2>1. NoAp(queue)
    BY DEF NoAp
  <2>2. "AP" \in netifUp <=> apUp
    BY <2>1 DEF ApInv
  <2>3. apUp \in BOOLEAN
    BY DEF TypeOK
  <2> QED BY <2>2, <2>3
<1> QED BY <1>1, <1>2, <1>3, JoinTypes, PTL DEF Spec

-----------------------------------------------------------------------------
(* WifiJoin implements LinkStatus.                                         *)

\* A recovery, a failure, a disassociation or a report, or none of them.
LEMMA TakeEventLink ==
    ASSUME TypeOK, TakeEvent
    PROVE  [Link!Next]_(Link!linkVars)
<1> DEFINE ev == Head(queue)
           after == JoinAfter(ev, join)
<1>1. /\ join' = AfterReport(after) /\ pc' = pc
      /\ netifUp' = (netifUp \ TakesDown(ev))
                        \cup (IF ev = "AP up" THEN {"AP"} ELSE {})
                        \cup (IF after = All THEN {"STA"} ELSE {})
  BY DEF TakeEvent
<1>2. join.kind \in Kinds
  BY DEF TypeOK
<1> DEFINE asking == pc \in {"joinSsid", "rejoin"}
           staUp == "STA" \in netifUp
<1>3. asking' = asking
  BY <1>1
<1>4. CASE after = All
  <2>1. join' = Active /\ "STA" \in netifUp'
    BY <1>1, <1>4 DEF AfterReport
  <2>2. join.kind \in {"active", "badauth"}
    BY <1>4 DEF JoinAfter, All, State, KindAfterAuth
  <2>3. Status' = "JOIN" /\ Status \in {"JOIN", "BADAUTH"}
    BY <2>1, <2>2 DEF Status, Active, State
  <2> QED BY <1>1, <2>1, <2>3 DEF Link!Next, Link!GoUp
<1>5. CASE after # All
  <2>1. join' = after /\ ("STA" \in netifUp' <=> "STA" \in netifUp /\ "STA" \notin TakesDown(ev))
    BY <1>1, <1>5 DEF AfterReport
  <2>2. CASE ev = "DISASSOC"
    <3>1. Status' = "DOWN" /\ "STA" \in TakesDown(ev)
      BY <2>1, <2>2 DEF JoinAfter, State, Status, TakesDown
    <3>2. staUp' = FALSE
      BY <2>1, <3>1
    <3> QED BY <1>3, <3>1, <3>2 DEF Link!Next, Link!Disassociate
  <2>3. CASE ev \in {"SET_SSID nonet", "SET_SSID fail", "AUTH bad", "KEY bad"}
    <3>1. Status' \in {"FAIL", "NONET", "BADAUTH"}
      BY <2>1, <2>3 DEF JoinAfter, State, Status
    <3>2. "STA" \notin TakesDown(ev)
      BY <2>3 DEF TakesDown
    <3>3. staUp' = staUp
      BY <2>1, <3>2
    <3> QED BY <1>3, <3>1, <3>3 DEF Link!Next, Link!Fail, Link!Failures
  <2>4. CASE ev = "AUTH ok"
    <3>1. "STA" \notin TakesDown(ev)
      BY <2>4 DEF TakesDown
    <3>3. staUp' = staUp
      BY <2>1, <3>1
    <3>2. Status' = Status \/ (Status = "BADAUTH" /\ Status' = "JOIN")
      BY <1>2, <2>1, <2>4 DEF JoinAfter, State, Status, KindAfterAuth, Kinds
    <3> QED BY <1>3, <3>2, <3>3 DEF Link!Next, Link!Recover, Link!linkVars
  <2>5. CASE ev \notin {"DISASSOC", "SET_SSID nonet", "SET_SSID fail", "AUTH bad", "KEY bad",
                        "AUTH ok"}
    <3>1. Status' = Status
      BY <2>1, <2>5 DEF JoinAfter, State, Status
    <3>2. staUp' = FALSE \/ staUp' = staUp
      BY <2>1
    <3> QED BY <1>3, <3>1, <3>2 DEF Link!Next, Link!LoseLink, Link!linkVars
  <2> QED BY <2>2, <2>3, <2>4, <2>5
<1> QED BY <1>4, <1>5

LEMMA NextLink ==
    ASSUME TypeOK, [Next]_vars
    PROVE  [Link!Next]_(Link!linkVars)
<1>1. CASE TakeEvent
  BY <1>1, TakeEventLink
<1>2. CASE ChipNext \/ UNCHANGED vars
  <2>1. UNCHANGED driverVars
    BY <1>2 DEF ChipNext, ChipAuthenticates, ChipAssociates, ChipKeys, ChipLosesLink,
       ChipTurnsAp, Report, vars
  <2> QED BY <2>1 DEF driverVars, Link!linkVars, Status
<1>3. ASSUME NEW request \in Requests, Serve(request)
      PROVE  [Link!Next]_(Link!linkVars)
  <2>1. pc # "rejoin"
    BY <1>3 DEF Serve, Due, Position, Requests
  <2>2. join' = join /\ pc' = request /\ UNCHANGED netifUp /\ pc \in PollStages
    BY <1>3, <2>1 DEF Serve, JoinAfterStage
  <2>3. Status' = Status /\ pc \notin {"joinSsid", "rejoin"} /\ pc' # "joinSsid"
    BY <2>1, <2>2 DEF Status, PollStages, Requests
  <2> QED BY <2>2, <2>3 DEF Link!Next, Link!Ask, Link!linkVars
<1>4. CASE EndPoll
  <2>1. pc \in PollStages /\ pc' = "idle" /\ UNCHANGED netifUp
        /\ join' = IF pc = "rejoin" THEN Active ELSE join
    BY <1>4 DEF EndPoll, JoinAfterStage
  <2>2. CASE pc = "rejoin"
    BY <2>1, <2>2 DEF Status, Active, State, Link!Next, Link!Asked
  <2>3. CASE pc # "rejoin"
    BY <2>1, <2>3 DEF Status, PollStages, Requests, Link!linkVars
  <2> QED BY <2>2, <2>3
<1>5. CASE JoinSendSsid
  BY <1>5 DEF JoinSendSsid, Status, Link!Next, Link!Ask
<1>6. CASE JoinSent
  BY <1>6 DEF JoinSent, State, Status, Link!Next, Link!Asked
<1>7. CASE StartPoll \/ JoinRefused \/ Leave \/ LeaveSent
  BY <1>7 DEF StartPoll, JoinRefused, Leave, LeaveSent, Status, Link!linkVars
<1>8. ASSUME NEW auth \in AuthTypes, NEW key \in BOOLEAN, Join(auth, key)
      PROVE  [Link!Next]_(Link!linkVars)
  BY <1>8 DEF Join, Status, Link!linkVars
<1> QED
  BY <1>1, <1>2, <1>3, <1>4, <1>5, <1>6, <1>7, <1>8 DEF Next, PollNext, CallNext

\* What the application sees keeps to the life of a connection that LinkStatus
\* describes, although events of several attempts interleave with its calls.
THEOREM JoinImplementsLink == Spec => LinkSpec
<1>1. Init => Link!Init
  BY DEF Init, Link!Init, Status, State
<1>2. TypeOK /\ [Next]_vars => [Link!Next]_(Link!linkVars)
  BY NextLink
<1> QED BY <1>1, <1>2, JoinTypes, PTL DEF Spec, LinkSpec, Link!Spec

=============================================================================
