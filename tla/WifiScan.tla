------------------------------ MODULE WifiScan ------------------------------
(***************************************************************************)
(* Scanning: cyw43_wifi_scan, the ESCAN_RESULT events and the state that an *)
(* application reads with cyw43_wifi_scan_active.  The driver handles the   *)
(* events of a scan inside its own calls, those of the next scan included;  *)
(* an event does not say which scan it belongs to.                          *)
(*                                                                          *)
(* The chip is external: it may miss the request, refuse it while it scans, *)
(* or give up the scan it is in for the new one, and then reports the end   *)
(* of the old one with a status other than success.                         *)
(***************************************************************************)
EXTENDS ScanResult, FiniteSets

CONSTANTS
    Networks,    \* what the chip may report as a result
    MaxScans,    \* bound: calls of cyw43_wifi_scan
    MaxResults,  \* bound: results of a scan
    MaxQueue,    \* bound: a result is reported only below this length of the queue
    MaxDamage    \* bound: events that are damaged on their way

ASSUME WifiScanAssumption ==
    /\ \A network \in Networks : IsNetwork(network)
    /\ MaxScans \in Nat \ {0} /\ MaxResults \in Nat \ {0}
    /\ MaxQueue \in Nat \ {0} /\ MaxDamage \in Nat

VARIABLES
    \* the driver
    up,        \* itf_state is not 0
    scanState, \* wifi_scan_state
    scan,      \* the scan whose callback is installed; scans are numbered
    given,     \* history: what this callback was given
    pc,        \* the call in progress
    \* the chip
    chipScan,  \* the scan it performs, or 0
    queue,     \* events on their way to the driver
    heard,     \* history: the results of this scan that it reported
    fate,      \* history: what became of the request for the last scan
    damage,    \* history: events damaged in all
    \* history of how the application called
    clean,     \* the last scan began when the chip had nothing left to report
    overlap    \* a scan was begun while another was active

driver == <<up, scanState, scan, given, pc>>
chip == <<chipScan, queue, heard, fate, damage>>
calls == <<clean, overlap>>
vars == <<driver, chip, calls>>

NoNetwork ==
    [elements |-> <<>>, cut |-> 0, behind |-> <<>>, privacy |-> FALSE, fits |-> FALSE]
Event(s, status, network) == [scan |-> s, status |-> status, network |-> network]
Statuses == {"partial", "success", "abort"}

-----------------------------------------------------------------------------
(* The application's calls.                                                *)

\* cyw43_wifi_set_up; before it cyw43_wifi_scan returns -CYW43_EPERM.
SetUp ==
    /\ pc = "idle" /\ ~up
    /\ up' = TRUE
    /\ UNCHANGED <<scanState, scan, given, pc, chip, calls>>

\* Mutated form: wifi_scan_state is not reset.
DeinitKeepingState ==
    /\ pc = "idle" /\ up
    /\ up' = FALSE /\ UNCHANGED scanState
    /\ chipScan' = 0 /\ queue' = <<>> /\ clean' = TRUE /\ overlap' = FALSE
    /\ fate' = "off"
    /\ UNCHANGED <<scan, given, pc, heard, damage>>

\* cyw43_deinit, which ends in cyw43_init; the chip loses its power.
Deinit ==
    /\ pc = "idle" /\ up
    /\ up' = FALSE /\ scanState' = 0
    /\ chipScan' = 0 /\ queue' = <<>> /\ clean' = TRUE /\ overlap' = FALSE
    /\ fate' = "off"
    /\ UNCHANGED <<scan, given, pc, heard, damage>>

\* The history variables of a scan that is begun.
Begun ==
    /\ given' = <<>>
    /\ clean' = (chipScan = 0 /\ queue = <<>>)
    /\ overlap' = (overlap \/ scanState = 1)
    /\ fate' = "asked"

\* cyw43_wifi_scan up to the ioctl.
Scan ==
    /\ pc = "idle" /\ up /\ scan < MaxScans
    /\ scanState' = 1 /\ scan' = scan + 1
    /\ Begun
    /\ pc' = "ask"
    /\ UNCHANGED <<up, chipScan, queue, heard, damage>>

\* The ioctl "escan" ends, well or not: cyw43_ll_wifi_scan returns 0 anyway.
Asked ==
    /\ pc \in {"ask", "answer"}
    /\ pc' = "idle"
    /\ fate' = IF pc = "ask" THEN "lost" ELSE fate
    /\ UNCHANGED <<up, scanState, scan, given, chipScan, queue, heard, damage, calls>>

\* Any other call that runs an ioctl.
OtherCall ==
    /\ pc = "idle" /\ up
    /\ pc' = "other"
    /\ UNCHANGED <<up, scanState, scan, given, chip, calls>>

Poll ==
    /\ pc = "idle" /\ up
    /\ pc' = "poll"
    /\ UNCHANGED <<up, scanState, scan, given, chip, calls>>

\* cyw43_ll_process_packets goes on while there are packets.
Return ==
    /\ pc = "other" \/ (pc = "poll" /\ queue = <<>>)
    /\ pc' = "idle"
    /\ UNCHANGED <<up, scanState, scan, given, chip, calls>>

-----------------------------------------------------------------------------
(* Events.                                                                 *)

\* Mutated form: the lengths of the result are not compared.
ParsedUnchecked(event) == event.status

\* The status after parsing: a result whose lengths disagree becomes invalid.
Parsed(event) ==
    IF event.status = "partial" /\ ~event.network.fits THEN "invalid" ELSE event.status

\* Mutated form: the scan is over at anything that is no result.
AfterStatusOther(status) == IF status # "partial" THEN 2 ELSE 1

\* wifi_scan_state after an event of the active scan.
AfterStatus(status) == IF status = "success" THEN 2 ELSE 1

\* auth_mode of a result.
Found(network) == Security(Bytes(network), network.behind, network.privacy)

\* Mutated form: only a poll hands events on, other calls throw them away.
HandleInPoll ==
    /\ pc # "idle" /\ queue # <<>>
    /\ queue' = Tail(queue)
    /\ LET event == Head(queue) IN
       IF scanState = 1 /\ pc = "poll"
       THEN /\ scanState' = AfterStatus(Parsed(event))
            /\ given' = IF Parsed(event) = "partial"
                        THEN Append(given, [scan |-> event.scan,
                             auth |-> Found(event.network)])
                        ELSE given
       ELSE UNCHANGED <<scanState, given>>
    /\ UNCHANGED <<up, scan, pc, chipScan, heard, fate, damage, calls>>

\* cyw43_cb_process_async_event for an ESCAN_RESULT, in any call that polls.
Handle ==
    /\ pc # "idle" /\ queue # <<>>
    /\ queue' = Tail(queue)
    /\ LET event == Head(queue) IN
       IF scanState = 1
       THEN /\ scanState' = AfterStatus(Parsed(event))
            /\ given' = IF Parsed(event) = "partial"
                        THEN Append(given, [scan |-> event.scan,
                             auth |-> Found(event.network)])
                        ELSE given
       ELSE UNCHANGED <<scanState, given>>
    /\ UNCHANGED <<up, scan, pc, chipScan, heard, fate, damage, calls>>

\* The frame of an event is damaged, and dropped by the transport.
Drop ==
    /\ pc # "idle" /\ queue # <<>> /\ damage < MaxDamage
    /\ queue' = Tail(queue) /\ damage' = damage + 1
    /\ fate' = "damaged"
    /\ UNCHANGED <<driver, chipScan, heard, calls>>

-----------------------------------------------------------------------------
(* The chip.                                                               *)

\* It receives the request, and refuses it, or starts over.
Accept ==
    /\ pc = "ask" /\ pc' = "answer"
    /\ \/ /\ chipScan # 0 /\ fate' = "refused"
          /\ UNCHANGED <<chipScan, queue, heard>>
       \/ /\ chipScan' = scan /\ heard' = <<>> /\ fate' = "running"
          /\ queue' = IF chipScan # 0
                      THEN Append(queue, Event(chipScan, "abort", NoNetwork)) ELSE queue
    /\ UNCHANGED <<up, scanState, scan, given, damage, calls>>

Report(network) ==
    /\ chipScan # 0 /\ Len(heard) < MaxResults /\ Len(queue) < MaxQueue
    /\ heard' = Append(heard, network)
    /\ queue' = Append(queue, Event(chipScan, "partial", network))
    /\ UNCHANGED <<driver, chipScan, fate, damage, calls>>

End ==
    /\ chipScan # 0 /\ chipScan' = 0
    /\ \E status \in {"success", "abort"} :
          /\ queue' = Append(queue, Event(chipScan, status, NoNetwork))
          /\ fate' = IF status = "abort" /\ fate = "running" THEN "aborted" ELSE fate
    /\ UNCHANGED <<driver, heard, damage, calls>>

-----------------------------------------------------------------------------

Init ==
    /\ up = FALSE /\ scanState = 0 /\ scan = 0 /\ given = <<>> /\ pc = "idle"
    /\ chipScan = 0 /\ queue = <<>> /\ heard = <<>> /\ fate = "off" /\ damage = 0
    /\ clean = TRUE /\ overlap = FALSE

Next ==
    \/ SetUp \/ Deinit \/ Scan \/ Asked \/ OtherCall \/ Poll \/ Return
    \/ Handle \/ Drop
    \/ Accept \/ End \/ \E network \in Networks : Report(network)

Spec == Init /\ [][Next]_vars

\* cyw43_poll is called again and again, calls end, a poll reads on, and the
\* chip comes to the end of a scan.
Fairness ==
    /\ SF_vars(Poll) /\ WF_vars(Asked) /\ WF_vars(Return)
    /\ WF_vars(pc = "poll" /\ Handle) /\ WF_vars(End)

FairSpec == Spec /\ Fairness

-----------------------------------------------------------------------------
(* Properties.                                                             *)

TypeOK ==
    /\ up \in BOOLEAN /\ scanState \in 0 .. 2 /\ scan \in 0 .. MaxScans
    /\ given \in Seq([scan : 1 .. MaxScans, auth : 0 .. 7])
    /\ pc \in {"idle", "ask", "answer", "other", "poll"}
    /\ chipScan \in 0 .. MaxScans
    /\ queue \in Seq([scan : 1 .. MaxScans, status : Statuses, network : Networks \cup {NoNetwork}])
    /\ heard \in Seq(Networks) /\ Len(heard) <= MaxResults
    /\ fate \in {"off", "asked", "running", "lost", "refused", "aborted", "damaged"}
    /\ damage \in 0 .. MaxDamage /\ clean \in BOOLEAN /\ overlap \in BOOLEAN
    /\ scanState # 0 => up

\* How many of the first n results are valid, and so to be given.
Valid(n) == Cardinality({i \in 1 .. n : heard[i].fits})

\* A scan that begins when the chip has nothing left to report gives its
\* callback, by the time it counts as complete, every valid result of its own,
\* once, in order and with the security the network has, and no other.  It is
\* the stale events of another scan, and nothing else, that can spoil this; a
\* WPA that the parser misread behind a short element of a vendor is excepted.
ResultsTrue ==
    clean /\ scanState = 2 /\ fate = "running" =>
        /\ Len(given) = Valid(Len(heard))
        /\ \A i \in 1 .. Len(heard) : heard[i].fits =>
              given[Valid(i)] = [scan |-> scan, auth |-> Told(heard[i])]

\* An application that begins a scan only when cyw43_wifi_scan_active is false
\* is told the truth: after a call the state is 1 exactly while the chip scans
\* or the end of its scan is on its way, unless the request or an event was
\* lost or the chip aborted the scan.  Hence such scans never meet.
ActiveIsTrue ==
    /\ ~overlap => clean
    /\ ~overlap /\ pc = "idle" /\ fate = "running" =>
          (scanState = 1 <=> chipScan # 0 \/ \E i \in DOMAIN queue : queue[i].status = "success")

\* A scan does not stay active for ever, however the calls and the events
\* interleave, except when its request is lost or refused, the chip aborts it
\* or an event is damaged: the driver has no timeout for these.
ScanEnds ==
    scanState = 1 ~> scanState # 1 \/ fate \in {"lost", "refused", "aborted", "damaged"}

=============================================================================
