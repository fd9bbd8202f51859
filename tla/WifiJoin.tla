------------------------------ MODULE WifiJoin ------------------------------
(***************************************************************************)
(* Joining a network: the part of cyw43_ctrl.c that turns the chip's        *)
(* asynchronous events into the link status and the state of the network    *)
(* interfaces, and the work cyw43_poll_func does on behalf of the events.   *)
(* The chip is up and the STA interface is set up.                          *)
(*                                                                          *)
(* Events are handled wherever the driver reads packets: in poll_func and   *)
(* inside every ioctl.  pc names the stage of the call in progress; each    *)
(* stage but "idle" may take any number of the chip's queued events.        *)
(***************************************************************************)
EXTENDS Naturals, Sequences, Functions

CONSTANTS
    QueueMax,     \* bound: queued events at which the chip reports no more
    ChipEvents    \* bound: the events the chip reports of its own accord

\* Event type, with the status and reason that the handler tells apart.
Events == {"SET_SSID nonet", "SET_SSID fail", "AUTH ok", "AUTH bad",
           "DEAUTH_IND", "DISASSOC", "PRUNE", "LINK up", "LINK down",
           "AP up", "AP down", "KEYED", "KEY timeout", "KEY bad"}

ASSUME WifiJoinAssumption ==
    QueueMax \in Nat \ {0} /\ ChipEvents \subseteq Events

VARIABLES
    join,      \* wifi_join_state: its kind and its flags
    pend,      \* pend_disassoc, pend_rejoin_wpa and pend_rejoin, those set
    netifUp,   \* the interfaces whose last call was tcpip_set_link_up
    pc,        \* the stage of the call in progress
    wanted,    \* auth_type of the cyw43_wifi_join in progress
    air,       \* chip: how far the STA has come with an access point
    target,    \* chip: it has an SSID to connect to
    apUp,      \* chip: its access point is up
    queue,     \* chip: events waiting for the host
    mode,      \* history: the WPA auth mode last asked for, or "lost" if the
               \* chip never received the ioctl
    owed,      \* history: requests made by events and not yet sent
    mismatch,  \* history: a PRUNE was handled since the last join
    heard      \* history: flags set by events since the STA was last reported up
               \* and since a join or a rejoin was last sent

driverVars == <<join, pend, netifUp, pc, wanted>>
chipVars == <<air, target, apUp, queue>>
historyVars == <<mode, owed, mismatch, heard>>
vars == <<driverVars, chipVars, historyVars>>

Kinds == {"none", "active", "fail", "nonet", "badauth"}
Flags == {"AUTH", "LINK", "KEYED"}
Requests == {"disassoc", "wpa", "rejoin"}
PollStages == {"packets"} \cup Requests
JoinStages == {"joinRefuse", "joinConfig", "joinSsid"}
AuthTypes == {"open", "wpa", "wpa2", "auto"}

-----------------------------------------------------------------------------
(* cyw43_cb_process_async_event.                                           *)

State(kind, flags) == [kind |-> kind, flags |-> flags]
Active == State("active", {})
All == State("active", Flags)

\* (Mutated forms: a good authentication revives every failed attempt; the
\* mask of the kind is too narrow.)
KindAfterAuthAlways(kind) == IF kind = "none" THEN kind ELSE "active"
KindAfterAuthMasked(kind) == IF kind = "badauth" THEN "badauth|active" ELSE kind

\* A good authentication after a bad one makes the attempt active again.
KindAfterAuth(kind) == IF kind = "badauth" THEN "active" ELSE kind

\* The flag an event sets.
Sets(ev) ==
    CASE ev = "AUTH ok" -> {"AUTH"} [] ev = "LINK up" -> {"LINK"}
      [] ev = "KEYED" -> {"KEYED"} [] OTHER -> {}

\* wifi_join_state j after the branch for ev, before the test for ALL.
JoinAfter(ev, j) ==
    CASE ev = "DISASSOC" -> State("none", {})
      [] ev = "SET_SSID nonet" -> State("nonet", {})
      [] ev = "SET_SSID fail" -> State("fail", {})
      [] ev \in {"AUTH bad", "KEY bad"} -> State("badauth", {})
      [] ev = "AUTH ok" -> State(KindAfterAuth(j.kind), j.flags \cup Sets(ev))
      [] OTHER -> State(j.kind, j.flags \cup Sets(ev))

\* (Mutated form: the flags stay set.)
StaysAll(j) == j

\* The test for ALL: once reported, the flags start from none again.
AfterReport(j) == IF j = All THEN Active ELSE j

\* The requests that ev leaves to poll_func.
Asks(ev) ==
    CASE ev = "DEAUTH_IND" -> {"disassoc"}
      [] ev = "PRUNE" -> {"wpa", "rejoin"}
      [] ev = "KEY timeout" -> {"rejoin"}
      [] OTHER -> {}

\* (Mutated form: link down is not passed on.)
NeverDown(ev) == IF ev = "DISASSOC" THEN {"STA"} ELSE {}

\* The interfaces ev takes down.
TakesDown(ev) ==
    CASE ev \in {"DISASSOC", "LINK down"} -> {"STA"}
      [] ev = "AP down" -> {"AP"}
      [] OTHER -> {}

\* The event at the head of the queue is handled.
TakeEvent ==
    /\ pc # "idle" /\ queue # <<>>
    /\ queue' = Tail(queue)
    /\ LET ev == Head(queue)
           after == JoinAfter(ev, join)
       IN /\ join' = AfterReport(after)
          /\ netifUp' = (netifUp \ TakesDown(ev))
                            \cup (IF ev = "AP up" THEN {"AP"} ELSE {})
                            \cup (IF after = All THEN {"STA"} ELSE {})
          /\ pend' = pend \cup Asks(ev)
          /\ owed' = owed \cup Asks(ev)
          /\ mismatch' = (mismatch \/ ev = "PRUNE")
          /\ heard' = IF after = All THEN {} ELSE heard \cup Sets(ev)
    /\ UNCHANGED <<pc, wanted, air, target, apUp, mode>>

-----------------------------------------------------------------------------
(* Commands: the chip may carry out an ioctl or never receive it; the       *)
(* driver looks at neither.                                                 *)

Linked == {"linked", "keyed"}

\* What the chip reports when it leaves its access point.
Leaving == IF air \in Linked THEN <<"LINK down">> ELSE <<>>

\* WLC_DISASSOC.
CommandDisassoc ==
    \/ /\ air' = "off" /\ target' = FALSE
       /\ queue' \in {queue \o Leaving, queue \o Append(Leaving, "DISASSOC")}
       /\ UNCHANGED apUp
    \/ UNCHANGED chipVars

\* WLC_SET_SSID.
CommandSsid ==
    \/ /\ air' = "off" /\ target' = TRUE
       /\ queue' = queue \o Leaving
       /\ UNCHANGED apUp
    \/ UNCHANGED chipVars

\* WLC_SET_WPA_AUTH.
CommandMode(given) == mode' \in {given, "lost"}

\* The request for the mode asks for WPA.
Command(request) ==
    /\ CASE request = "disassoc" -> CommandDisassoc
         [] request = "rejoin" -> CommandSsid
         [] request = "wpa" -> UNCHANGED chipVars
    /\ IF request = "wpa" THEN CommandMode("wpa") ELSE UNCHANGED mode

-----------------------------------------------------------------------------
(* cyw43_poll_func.                                                        *)

StartPoll ==
    /\ pc = "idle" /\ pc' = "packets"
    /\ UNCHANGED <<join, pend, netifUp, wanted, chipVars, historyVars>>

\* (Mutated form: the rejoin is tested for before the WPA auth mode.)
RejoinBeforeWpa(stage) ==
    CASE stage = "packets" -> 0 [] stage = "disassoc" -> 1
      [] stage = "rejoin" -> 2 [] OTHER -> 3

\* The order in which poll_func tests the requests.
Position(stage) ==
    CASE stage = "packets" -> 0 [] stage = "disassoc" -> 1
      [] stage = "wpa" -> 2 [] OTHER -> 3

\* The requests poll_func has still to find.
Due == {request \in pend : Position(request) > Position(pc)}

\* wifi_join_state after the stage pc: a rejoin overwrites it.
JoinAfterStage == IF pc = "rejoin" THEN Active ELSE join
HeardAfterStage == IF pc = "rejoin" THEN {} ELSE heard

\* (Mutated form: all the flags are cleared at the first request.)
ClearAll(request) == {}

\* The flag is cleared before the ioctl is sent.
Clear(request) == pend \ {request}

Serve(request) ==
    /\ pc \in PollStages
    /\ request \in Due
    /\ \A other \in Due : Position(request) <= Position(other)
    /\ pc' = request
    /\ pend' = Clear(request)
    /\ owed' = owed \ {request}
    /\ Command(request)
    /\ join' = JoinAfterStage /\ heard' = HeardAfterStage
    /\ UNCHANGED <<netifUp, wanted, mismatch>>

EndPoll ==
    /\ pc \in PollStages /\ Due = {}
    /\ pc' = "idle"
    /\ join' = JoinAfterStage /\ heard' = HeardAfterStage
    /\ UNCHANGED <<pend, netifUp, wanted, chipVars, mode, owed, mismatch>>

-----------------------------------------------------------------------------
(* cyw43_wifi_join and cyw43_wifi_leave.  The application makes a call only *)
(* while the queue is within its bound.                                     *)

\* The security type the chip is asked for.
Effective(auth, key) ==
    IF auth = "auto" THEN (IF key THEN "wpa2" ELSE "open") ELSE auth

\* "ampdu_ba_wsize" is set before the security type is looked at.
Join(auth, key) ==
    /\ pc = "idle" /\ Len(queue) < QueueMax
    /\ wanted' = auth
    /\ \/ Effective(auth, key) = "open" /\ pc' = "joinRefuse" /\ UNCHANGED mode
       \/ Effective(auth, key) # "open" /\ pc' = "joinConfig"
          /\ CommandMode(Effective(auth, key))
    /\ UNCHANGED <<join, pend, netifUp, chipVars, owed, mismatch, heard>>

JoinRefused ==
    /\ pc = "joinRefuse" /\ pc' = "idle" /\ wanted' = "none"
    /\ UNCHANGED <<join, pend, netifUp, chipVars, historyVars>>

JoinSendSsid ==
    /\ pc = "joinConfig" /\ pc' = "joinSsid"
    /\ mismatch' = FALSE
    /\ CommandSsid
    /\ UNCHANGED <<join, pend, netifUp, wanted, mode, owed, heard>>

\* wifi_join_state is assigned when the ioctls are done.
JoinSent ==
    /\ pc = "joinSsid" /\ pc' = "idle" /\ wanted' = "none"
    /\ join' = State("active", IF wanted = "open" THEN {"KEYED"} ELSE {})
    /\ heard' = {}
    /\ UNCHANGED <<pend, netifUp, chipVars, mode, owed, mismatch>>

Leave ==
    /\ pc = "idle" /\ Len(queue) < QueueMax
    /\ pc' = "leave"
    /\ CommandDisassoc
    /\ UNCHANGED <<join, pend, netifUp, wanted, mode, owed, mismatch, heard>>

LeaveSent ==
    /\ pc = "leave" /\ pc' = "idle"
    /\ UNCHANGED <<join, pend, netifUp, wanted, chipVars, historyVars>>

-----------------------------------------------------------------------------
(* The chip (external): it connects to the SSID it was given, again when it *)
(* loses the link, and reports each step.                                   *)

Report(events) ==
    /\ Len(queue) < QueueMax /\ Range(events) \subseteq ChipEvents
    /\ queue' = queue \o events
    /\ UNCHANGED <<driverVars, historyVars>>

ChipAuthenticates ==
    /\ target /\ air = "off"
    /\ \/ Report(<<"AUTH ok">>) /\ air' = "authed" /\ UNCHANGED target
       \/ \E ev \in {"AUTH bad", "PRUNE"} : Report(<<ev>>) /\ UNCHANGED <<air, target>>
       \/ \E ev \in {"SET_SSID nonet", "SET_SSID fail"} :
             Report(<<ev>>) /\ target' = FALSE /\ UNCHANGED air
    /\ UNCHANGED apUp

ChipAssociates ==
    /\ air = "authed"
    /\ Report(<<"LINK up">>) /\ air' = "linked"
    /\ UNCHANGED <<target, apUp>>

\* The key exchange, also when the access point renews the keys.
ChipKeys ==
    /\ air \in Linked
    /\ \/ Report(<<"KEYED">>) /\ air' = "keyed"
       \/ \E ev \in {"KEY timeout", "DEAUTH_IND"} : Report(<<ev>>) /\ UNCHANGED air
       \/ Report(<<"KEY bad", "LINK down">>) /\ air' = "off"
    /\ UNCHANGED <<target, apUp>>

ChipLosesLink ==
    /\ air \in Linked
    /\ Report(<<"LINK down">>) /\ air' = "off"
    /\ UNCHANGED <<target, apUp>>

ChipTurnsAp ==
    /\ Report(IF apUp THEN <<"AP down">> ELSE <<"AP up">>)
    /\ apUp' = ~apUp
    /\ UNCHANGED <<air, target>>

-----------------------------------------------------------------------------
Init ==
    /\ join = State("none", {}) /\ pend = {} /\ netifUp = {}
    /\ pc = "idle" /\ wanted = "none"
    /\ air = "off" /\ target = FALSE /\ apUp = FALSE /\ queue = <<>>
    /\ mode = "wpa2" /\ owed = {} /\ mismatch = FALSE /\ heard = {}

PollNext == StartPoll \/ (\E request \in Requests : Serve(request)) \/ EndPoll

CallNext ==
    \/ \E auth \in AuthTypes, key \in BOOLEAN : Join(auth, key)
    \/ JoinRefused \/ JoinSendSsid \/ JoinSent
    \/ Leave \/ LeaveSent

ChipNext ==
    \/ ChipAuthenticates \/ ChipAssociates \/ ChipKeys
    \/ ChipLosesLink \/ ChipTurnsAp

Next == PollNext \/ CallNext \/ TakeEvent \/ ChipNext

Spec == Init /\ [][Next]_vars

\* poll_func is called again and again, and the ioctls of a call come to an
\* end.  Nothing is asked of the chip.
Fairness ==
    /\ SF_vars(StartPoll)
    /\ WF_vars(EndPoll \/ \E request \in Requests : Serve(request))
    /\ WF_vars(JoinRefused \/ JoinSendSsid \/ JoinSent \/ LeaveSent)

FairSpec == Spec /\ Fairness

-----------------------------------------------------------------------------
(* Properties.                                                             *)

\* Every variable has its type.
TypeOK ==
    /\ join \in [kind : Kinds, flags : SUBSET Flags]
    /\ pend \subseteq Requests /\ owed \subseteq Requests
    /\ netifUp \subseteq {"STA", "AP"}
    /\ pc \in {"idle", "leave"} \cup PollStages \cup JoinStages
    /\ wanted \in AuthTypes \cup {"none"}
    /\ air \in {"off", "authed"} \cup Linked
    /\ {target, apUp, mismatch} \subseteq BOOLEAN
    /\ mode \in {"wpa", "wpa2", "lost"}
    /\ queue \in Seq(Events)
    /\ heard \subseteq Flags

\* cyw43_wifi_link_status of the STA interface.
Status ==
    CASE join.kind = "active" -> "JOIN" [] join.kind = "fail" -> "FAIL"
      [] join.kind = "nonet" -> "NONET" [] join.kind = "badauth" -> "BADAUTH"
      [] OTHER -> "DOWN"

\* What the application sees keeps to the life of a connection, although
\* events of several attempts interleave with its calls.
Link == INSTANCE LinkStatus WITH
    asking <- pc \in {"joinSsid", "rejoin"},
    status <- Status,
    staUp <- "STA" \in netifUp
LinkSpec == Link!Spec

\* The rejoin that follows an RSN mismatch goes out with WPA authentication,
\* whichever ioctl or call handled the PRUNE event, unless the chip never
\* received the ioctl that asks for it.
RejoinUsesWpa ==
    [][pc # "rejoin" /\ pc' = "rejoin" /\ mismatch => mode \in {"wpa", "lost"}]_vars

\* Every report of the STA as up is earned by an AUTH, a LINK and a KEYED event
\* of its own: none of them counts for two reports, and none was handled before
\* the last join or rejoin was sent.
UpNeedsAll ==
    [][queue # <<>> /\ queue' = Tail(queue) /\ JoinAfter(Head(queue), join) = All
        => heard \cup Sets(Head(queue)) = Flags]_vars

\* The network stack is told of the access point's link, and of nothing else,
\* by the LINK events of the AP interface: when the driver has caught up, they
\* agree.
ApLinkTold == queue = <<>> => (("AP" \in netifUp) = apUp)

\* "STA connected": when the driver has caught up with the events, the stack
\* takes the STA interface for connected only if it is.
UpMeansLinked == queue = <<>> /\ "STA" \in netifUp => air \in Linked

\* The events that join waits for are not lost: when the driver has caught up
\* and is idle, a STA that has its keys is reported to the stack.
KeyedMeansUp ==
    queue = <<>> /\ pc = "idle" /\ pend = {} /\ air = "keyed" => "STA" \in netifUp

\* Every request of an event is sent in the end: it is not lost, even when the
\* event is handled inside the ioctl of an earlier request.
RequestsServed ==
    \A request \in Requests : request \in owed ~> request \notin owed
=============================================================================
