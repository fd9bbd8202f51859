------------------------------ MODULE Settings ------------------------------
(***************************************************************************)
(* The calls that configure the chip: each is a series of ioctls that set   *)
(* or get one setting.  The driver hardly looks at the results.  An ioctl   *)
(* may fail before the chip has acted or after; the chip may refuse one,    *)
(* which the driver does not notice; and a get that failed leaves in the    *)
(* buffer the request, or what was received last.                          *)
(*                                                                          *)
(* That each ioctl has one of these outcomes is what Sdpcm shows.  That a   *)
(* call brings the chip up first, or finds it up, is what Lifecycle shows;  *)
(* here a bring-up is its last part, which uses ioctls.                     *)
(***************************************************************************)
EXTENDS PmValue, Integers, Sequences

CONSTANTS
    ClmLen,     \* size of the regulatory data
    ChunkLen,   \* CLM_CHUNK_LEN
    ApConfigs,  \* records of whose fields the application may set any for the AP
    PmWords,    \* words it may pass to cyw43_wifi_pm
    Stations,   \* stations associated with the AP
    MaxStations,\* what the chip has room for
    MaxFaults,  \* bound: ioctls that go wrong while the chip is up
    Unset,      \* a setting that the driver has not set
    Junk,       \* in the buffer after a get that failed: any value but the right one
    Nothing     \* no value

ASSUME SettingsAssumption ==
    /\ ClmLen \in Nat \ {0} /\ ChunkLen \in Nat \ {0}
    /\ ApConfigs \subseteq [ssid : {"none", "A", "B"}, auth : {"open", "tkip", "aes"},
                            key : {"none", "k", "l"}, channel : 1 .. 14]
    /\ ApConfigs # {} /\ PmWords \subseteq Nat
    /\ Stations \in 0 .. MaxStations /\ MaxStations \in Nat /\ MaxFaults \in Nat
    /\ Unset \notin Nat /\ Junk \notin Nat

VARIABLES
    \* the driver
    on,       \* cyw43_poll is set
    itfs,     \* itf_state, as a set
    ap,       \* ap_ssid, ap_auth, ap_key, ap_channel
    call,     \* the call in progress, or the last one
    busy,     \* it is in progress
    todo,     \* its ioctls that are to come
    told,     \* what its gets have read
    out,      \* what it gave its caller, or Nothing
    \* the chip
    chip,     \* settings
    clm,      \* the chunks of regulatory data it was sent
    \* history
    faults,   \* ioctls that went wrong since the chip came up
    failed,   \* those of this call
    missed,   \* settings whose last ioctl went wrong, and "clmload" if a chunk did
    wasUp,    \* the AP was up in the chip when the call began
    pmSent    \* the word of the last cyw43_wifi_pm, or Nothing if it did not go well

driver == <<on, itfs, ap, call, busy, todo, told, out>>
chipVars == <<chip, clm>>
history == <<faults, failed, missed, wasUp, pmSent>>
vars == <<driver, chipVars, history>>

Itf == {"STA", "AP"}
PmNames == {"pm2_sleep_ret", "bcn_li_bcn", "bcn_li_dtim", "assoc_listen", "pm"}
ApNames == {"ap_ssid", "channel", "ap_wsec", "ap_wpa_auth", "ap_pmk"}
Names == {"txglom", "apsta", "cur_etheraddr", "country", "antdiv", "ampdu_ba_wsize",
          "ampdu_mpdu", "ampdu_rx_factor", "event_msgs", "mcast_list", "up", "gmode", "band",
          "bss", "ap_gmode", "2g_mrate", "dtimprd"} \cup PmNames \cup ApNames

Off == [what \in Names |-> IF what = "bss" THEN 0 ELSE Unset]

\* What the driver may have noted of the AP, and what cyw43_init leaves of it:
\* no name, no key and channel 3.  The security it leaves alone.
ApNotes ==
    [ssid : {"none", "A", "B"}, auth : {"open", "tkip", "aes"}, key : {"none", "k", "l"},
     channel : 1 .. 14]

InitAp(auth) == [ssid |-> "none", auth |-> auth, key |-> "none", channel |-> 3]

-----------------------------------------------------------------------------
(* Requests.  A chunk is a set whose value says where it begins and ends in *)
(* the data, and which of the flags DL_BEGIN and DL_END it carries.         *)

Set(what, value) == [op |-> "set", what |-> what, value |-> value]
Get(what) == [op |-> "get", what |-> what, value |-> 0]

\* Mutated form: the last chunk is marked only if it is short.
ChunkUnlessFull(off) ==
    [from |-> off, to |-> IF off + ChunkLen >= ClmLen THEN ClmLen ELSE off + ChunkLen,
     begin |-> off = 0, end |-> off + ChunkLen > ClmLen]

\* The loop body of cyw43_clm_load at an offset.
Chunk(off) ==
    [from |-> off, to |-> IF off + ChunkLen >= ClmLen THEN ClmLen ELSE off + ChunkLen,
     begin |-> off = 0, end |-> off + ChunkLen >= ClmLen]

-----------------------------------------------------------------------------
(* The calls as series of requests.                                        *)

\* The end of cyw43_ll_bus_init; NextRequests adds the other chunks.
BringUp ==
    <<Set("clmload", Chunk(0)), Get("clmload_status"), Set("txglom", 0), Set("apsta", 1),
      Set("cur_etheraddr", "mac")>>

\* cyw43_ll_wifi_on.
WifiOn ==
    <<Set("country", "XX"), Set("antdiv", 0), Set("txglom", 0), Set("apsta", 1),
      Set("ampdu_ba_wsize", 8), Set("ampdu_mpdu", 4), Set("ampdu_rx_factor", 0),
      Set("event_msgs", "enabled"), Set("mcast_list", "mDNS"), Set("up", 1)>>

\* Mutated form: the sleep time is sent as it was given.
WifiPmUnlimited(v) ==
    <<Set("pm2_sleep_ret", 10 * SleepRetOf(v)), Set("bcn_li_bcn", BcnOf(v)),
      Set("bcn_li_dtim", DtimOf(v)), Set("assoc_listen", AssocOf(v)), Set("pm", ModeOf(v)),
      Set("gmode", "auto"), Set("band", "any")>>

\* cyw43_ll_wifi_pm.
WifiPm(v) ==
    <<Set("pm2_sleep_ret", 10 * Limit(SleepRetOf(v))), Set("bcn_li_bcn", BcnOf(v)),
      Set("bcn_li_dtim", DtimOf(v)), Set("assoc_listen", AssocOf(v)), Set("pm", ModeOf(v)),
      Set("gmode", "auto"), Set("band", "any")>>

WifiGetPm ==
    <<Get("pm2_sleep_ret"), Get("bcn_li_bcn"), Get("bcn_li_dtim"), Get("assoc_listen"), Get("pm")>>

\* cyw43_pm_value(CYW43_PM2_POWERSAVE_MODE, 200, 1, 1, 10).
DefaultPm == PmWord(2, 200, 1, 1, 10)

WpaAuth(auth) == IF auth = "tkip" THEN "WPA" ELSE "WPA and WPA2"

\* Mutated form: the security of the last network is kept for an open one.
ApSecurityUnlessOpen(config) ==
    IF config.auth = "open" THEN <<>>
    ELSE <<Set("ap_wsec", config.auth), Set("ap_wpa_auth", WpaAuth(config.auth)),
           Set("ap_pmk", config.key)>>

ApSecurity(config) ==
    <<Set("ap_wsec", config.auth)>> \o
    IF config.auth = "open" THEN <<>>
    ELSE <<Set("ap_wpa_auth", WpaAuth(config.auth)), Set("ap_pmk", config.key)>>

\* cyw43_ll_wifi_ap_init once it knows that the AP is down.
ApConfiguration(config) ==
    <<Set("ampdu_ba_wsize", 2), Set("ap_ssid", config.ssid), Set("channel", config.channel)>>
    \o ApSecurity(config)
    \o <<Set("ap_gmode", "auto"), Set("2g_mrate", 22), Set("dtimprd", 1)>>

\* Mutated form: the chip is configured when the first interface is the STA.
OpeningIfSta(itf) == IF itfs = {} /\ itf = "STA" THEN WifiOn \o WifiPm(DefaultPm) ELSE <<>>

\* cyw43_wifi_set_up configures the chip for the first interface.
Opening(itf) == IF itfs = {} THEN WifiOn \o WifiPm(DefaultPm) ELSE <<>>

\* cyw43_wifi_set_up with cyw43_wifi_ap_init and cyw43_wifi_ap_set_up.
SetUp(itf, up) ==
    IF up THEN Opening(itf) \o IF itf = "AP" THEN <<Get("bss"), Set("bss", 1)>> ELSE <<>>
    ELSE IF itf = "AP" THEN <<Set("bss", 0)>> ELSE <<>>

\* The requests of a call, as far as they are known when it begins.
Requests(c) ==
    CASE c.name = "set_up" -> SetUp(c.itf, c.up)
      [] c.name = "pm" -> WifiPm(c.word)
      [] c.name = "get_pm" -> WifiGetPm
      [] c.name = "get_stas" -> <<Get("maxassoc"), Get("assoclist")>>
      [] c.name = "get_max_stas" -> <<Get("maxassoc")>>

Calls ==
    [name : {"set_up"}, itf : Itf, up : BOOLEAN]
    \cup [name : {"pm"}, word : PmWords]
    \cup [name : {"get_pm", "get_stas", "get_max_stas"}]

-----------------------------------------------------------------------------
(* The driver.                                                             *)

\* A public call, with cyw43_ensure_up at its beginning.  Closing the STA does
\* nothing at all.
Call(c) ==
    /\ ~busy
    /\ call' = c /\ busy' = TRUE
    /\ LET bringUp == ~on /\ ~(c.name = "set_up" /\ ~c.up /\ c.itf = "STA") IN
       /\ todo' = (IF bringUp THEN BringUp ELSE <<>>) \o Requests(c)
       /\ on' = (on \/ bringUp)
    /\ out' = Nothing /\ failed' = 0 /\ wasUp' = (chip["bss"] = 1)
    /\ pmSent' = IF c.name = "pm" THEN c.word
                 ELSE IF c.name = "set_up" /\ c.up /\ itfs = {} THEN DefaultPm
                 ELSE pmSent
    /\ UNCHANGED <<itfs, ap, told, chipVars, faults, missed>>

\* cyw43_wifi_ap_set_ssid and its like, each of which only notes its value.
SetAp(config, field) ==
    /\ ~busy
    /\ ap' = [ap EXCEPT ![field] = config[field]] /\ call' = [name |-> "ap_set"]
    /\ UNCHANGED <<on, itfs, busy, todo, told, out, chipVars, history>>

\* cyw43_deinit: the chip loses its power, and cyw43_init runs again.
Deinit ==
    /\ ~busy /\ on
    /\ on' = FALSE /\ itfs' = {} /\ ap' = InitAp(ap.auth) /\ call' = [name |-> "deinit"]
    /\ chip' = Off /\ clm' = <<>>
    /\ faults' = 0 /\ failed' = 0 /\ missed' = {} /\ pmSent' = Nothing
    /\ UNCHANGED <<busy, todo, told, out, wasUp>>

\* Mutated form: the download goes on while the offset is not past the end.
NextRequestsToEnd(r, value) ==
    (CASE r.what = "clmload" /\ r.value.from + ChunkLen <= ClmLen ->
              <<Set("clmload", Chunk(r.value.from + ChunkLen))>>
       [] r.op = "get" /\ r.what = "bss" /\ value = 0 -> ApConfiguration(ap)
       [] OTHER -> <<>>)
    \o Tail(todo)

\* Mutated form: the AP is configured whether it is up or not.
NextRequestsAlways(r, value) ==
    (CASE r.what = "clmload" /\ r.value.from + ChunkLen < ClmLen ->
              <<Set("clmload", Chunk(r.value.from + ChunkLen))>>
       [] r.op = "get" /\ r.what = "bss" -> ApConfiguration(ap)
       [] OTHER -> <<>>)
    \o Tail(todo)

\* What is left to do after request r, if it was a get that read value.
NextRequests(r, value) ==
    (CASE r.what = "clmload" /\ r.value.from + ChunkLen < ClmLen ->
              <<Set("clmload", Chunk(r.value.from + ChunkLen))>>
       [] r.op = "get" /\ r.what = "bss" /\ value = 0 -> ApConfiguration(ap)
       [] OTHER -> <<>>)
    \o Tail(todo)

\* What the driver does after an ioctl, whose result it hardly looks at.
Go(r, value) ==
    /\ todo' = NextRequests(r, value)
    /\ told' = IF r.op = "get"
               THEN [what \in DOMAIN told \cup {r.what} |->
                        IF what = r.what THEN value ELSE told[what]]
               ELSE told
    /\ UNCHANGED <<on, itfs, ap, busy, call, out>>

-----------------------------------------------------------------------------
(* The chip.                                                               *)

\* A set that it carries out.
Store(r) ==
    IF r.what = "clmload" THEN clm' = Append(clm, r.value) /\ UNCHANGED chip
    ELSE chip' = [chip EXCEPT ![r.what] = r.value] /\ UNCHANGED clm

\* What it answers to a get.
Answer(r) ==
    CASE r.what = "maxassoc" -> MaxStations
      [] r.what = "assoclist" ->
            IF told["maxassoc"] = Junk THEN Junk
            ELSE IF Stations <= told["maxassoc"] THEN Stations ELSE told["maxassoc"]
      [] r.what = "clmload_status" -> 0
      [] r.what = "bss" -> IF chip["bss"] = 1 THEN 1 ELSE 0
      [] OTHER -> chip[r.what]

\* An ioctl that goes well.
Done ==
    /\ todo # <<>>
    /\ LET r == Head(todo) IN
       /\ IF r.op = "set" THEN Store(r) ELSE UNCHANGED chipVars
       /\ Go(r, Answer(r))
       /\ missed' = IF r.op = "set" /\ r.what # "clmload" THEN missed \ {r.what} ELSE missed
    /\ UNCHANGED <<faults, failed, wasUp, pmSent>>

\* One that goes wrong: the chip does not carry it out, or refuses it, or does
\* carry it out and its answer does not come in time.  What a get finds in the
\* buffer may look like any value.
Fail ==
    /\ todo # <<>> /\ faults < MaxFaults
    /\ LET r == Head(todo) IN
       /\ \/ UNCHANGED chipVars
          \/ r.op = "set" /\ Store(r)
       /\ \E value \in (IF r.what = "bss" THEN {0, Junk} ELSE {Junk}) : Go(r, value)
       /\ missed' = IF r.op = "set" THEN missed \cup {r.what} ELSE missed
       /\ pmSent' = IF r.op = "set" /\ r.what \in PmNames THEN Nothing ELSE pmSent
    /\ faults' = faults + 1 /\ failed' = failed + 1
    /\ UNCHANGED wasUp

-----------------------------------------------------------------------------

\* The word of cyw43_wifi_get_pm.  Settings that were never made count as junk.
PmRead ==
    IF \E what \in PmNames : told[what] \in {Junk, Unset} THEN Junk
    ELSE PmWord(told["pm"], told["pm2_sleep_ret"], told["bcn_li_bcn"], told["bcn_li_dtim"],
                told["assoc_listen"])

\* What a call gives its caller.  None of them looks at the results of its gets,
\* and each returns 0, if it returns anything.
Out ==
    CASE call.name = "get_pm" -> PmRead
      [] call.name = "get_stas" -> told["assoclist"]
      [] call.name = "get_max_stas" -> told["maxassoc"]
      [] OTHER -> Nothing

Return ==
    /\ busy /\ todo = <<>>
    /\ busy' = FALSE
    /\ out' = Out
    /\ itfs' = IF call.name = "set_up" /\ call.up THEN itfs \cup {call.itf} ELSE itfs
    /\ told' = <<>>
    /\ UNCHANGED <<on, ap, call, todo, chipVars, history>>

-----------------------------------------------------------------------------

Init ==
    /\ on = FALSE /\ itfs = {} /\ ap = InitAp("open") /\ call = [name |-> "init"]
    /\ busy = FALSE /\ todo = <<>> /\ told = <<>> /\ out = Nothing
    /\ chip = Off /\ clm = <<>>
    /\ faults = 0 /\ failed = 0 /\ missed = {} /\ wasUp = FALSE
    /\ pmSent = Nothing

Next ==
    \/ \E c \in Calls : Call(c)
    \/ \E config \in ApConfigs, field \in DOMAIN ap : SetAp(config, field)
    \/ Deinit
    \/ Done \/ Fail \/ Return

Spec == Init /\ [][Next]_vars

-----------------------------------------------------------------------------
(* Properties.                                                             *)

TypeOK ==
    /\ on \in BOOLEAN /\ itfs \subseteq Itf /\ ap \in ApNotes /\ busy \in BOOLEAN
    /\ call \in Calls \cup [name : {"init", "ap_set", "deinit"}]
    /\ \A i \in DOMAIN todo : todo[i].op \in {"set", "get"}
    /\ DOMAIN told \subseteq Names \cup {"clmload_status", "maxassoc", "assoclist"}
    /\ DOMAIN chip = Names
    /\ \A i \in DOMAIN clm : clm[i].from \in 0 .. ClmLen - 1 /\ clm[i].to \in 1 .. ClmLen
    /\ faults \in 0 .. MaxFaults /\ failed \in 0 .. faults /\ missed \subseteq Names \cup {"clmload"}
    /\ wasUp \in BOOLEAN /\ pmSent \in PmWords \cup {DefaultPm, Nothing}
    /\ busy \/ todo = <<>>

\* The chunks cover the data once and in order, and the first and the last of
\* them, and no other, are marked.
IsWhole(chunks) ==
    /\ chunks # <<>> /\ chunks[1].from = 0 /\ chunks[Len(chunks)].to = ClmLen
    /\ \A i \in DOMAIN chunks :
          /\ chunks[i].from < chunks[i].to
          /\ chunks[i].begin <=> i = 1
          /\ chunks[i].end <=> i = Len(chunks)
          /\ i < Len(chunks) => chunks[i].to = chunks[i + 1].from

\* When a bring-up is past the download and none of its chunks went wrong, the
\* chip has been sent the regulatory data exactly once.
ClmWhole ==
    on /\ "clmload" \notin missed /\ (\A i \in DOMAIN todo : todo[i].what # "clmload")
        => IsWhole(clm)

\* What the driver relies on for as long as an interface is open.
Baseline ==
    [what \in {"txglom", "apsta", "cur_etheraddr", "country", "antdiv", "ampdu_ba_wsize",
               "ampdu_mpdu", "ampdu_rx_factor", "event_msgs", "mcast_list", "up", "gmode",
               "band"} |->
        CASE what \in {"txglom", "antdiv", "ampdu_rx_factor"} -> {0}
          [] what \in {"apsta", "up"} -> {1}
          [] what = "cur_etheraddr" -> {"mac"}
          [] what = "country" -> {"XX"}
          [] what = "ampdu_ba_wsize" -> {2, 8}
          [] what = "ampdu_mpdu" -> {4}
          [] what = "event_msgs" -> {"enabled"}
          [] what = "mcast_list" -> {"mDNS"}
          [] what = "gmode" -> {"auto"}
          [] what = "band" -> {"any"}]

\* Whichever interface is the first to open, and whatever calls came before, an
\* open interface means a configured chip: each of these settings holds unless
\* the last ioctl for this very setting went wrong.  A setting that was missed
\* is not repeated as long as an interface is open.
BaselineHolds ==
    itfs # {} => \A what \in DOMAIN Baseline \ missed : chip[what] \in Baseline[what]

\* The chip runs an AP as these notes say.
ApIs(notes) ==
    /\ chip["ap_ssid"] = notes.ssid /\ chip["channel"] = notes.channel
    /\ chip["ap_wsec"] = notes.auth
    /\ notes.auth # "open" =>
          chip["ap_wpa_auth"] = WpaAuth(notes.auth) /\ chip["ap_pmk"] = notes.key

\* Opening the AP, if nothing goes wrong, brings it up; and if it was down it
\* comes up as the driver has it noted now, whatever an earlier call that went
\* wrong has left in the chip.  The notes are what the application has set since
\* cyw43_init or cyw43_deinit, and the defaults otherwise; the security alone
\* outlives a cyw43_deinit.
ApAsConfigured ==
    ~busy /\ call = [name |-> "set_up", itf |-> "AP", up |-> TRUE] /\ failed = 0 =>
        chip["bss"] = 1 /\ (~wasUp => ApIs(ap))

\* A running AP is not reconfigured, except by a call that was misled about its
\* state.
ApLeftAlone ==
    [][chip["bss"] = 1 /\ chip'["bss"] = 1 /\ failed = 0 =>
           \A what \in ApNames : chip'[what] = chip[what]]_vars

\* cyw43_wifi_get_pm gives back what cyw43_wifi_pm was given, within its limits,
\* if the ioctls of both went well, whatever else was called in between.
PmGivenBack ==
    call.name = "get_pm" /\ failed = 0 /\ pmSent # Nothing => out = Effective(pmSent)

\* The calls that tell a value tell what the chip has, if no ioctl of theirs went
\* wrong.
AnswersRight ==
    ~busy /\ failed = 0 =>
        /\ PmGivenBack
        /\ call.name = "get_stas" => out = Stations
        /\ call.name = "get_max_stas" => out = MaxStations

=============================================================================
