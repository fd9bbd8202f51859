--------------------------- MODULE SettingsProofs ---------------------------
(***************************************************************************)
(* Proofs about Settings, for every size of the data and of a chunk and     *)
(* whatever calls follow one another: the chip is sent the regulatory data  *)
(* exactly once; an open interface has all the settings it relies on; an    *)
(* access point is as its caller configured it, and a running one is left   *)
(* alone by the other calls; and a call tells what the chip has.            *)
(***************************************************************************)
EXTENDS Settings, PmProofs, SequenceTheorems, TLAPS

-----------------------------------------------------------------------------
(* Requests that have nothing to do with the download.                     *)

\* Any of the notes of the AP is made.
ApNoted == \E config \in ApConfigs, field \in DOMAIN ap : SetAp(config, field)

Other(s) == \E S : s \in Seq(S) /\ \A r \in S : r.what # "clmload"

LEMMA OtherIn ==
    ASSUME NEW s, NEW S, s \in Seq(S), \A r \in S : r.what # "clmload"
    PROVE  Other(s)
BY Zenon DEF Other

LEMMA OtherNone == Other(<<>>)
<1> DEFINE S == {}
<1>1. <<>> \in Seq(S) /\ \A r \in S : r.what # "clmload"  OBVIOUS
<1> HIDE DEF S
<1>2. QED  BY <1>1, OtherIn, Zenon

LEMMA OtherOne ==
    ASSUME NEW r, r.what # "clmload"
    PROVE  Other(<<r>>)
<1> DEFINE S == {r}
<1>1. <<r>> \in Seq(S) /\ \A q \in S : q.what # "clmload"  OBVIOUS
<1> HIDE DEF S
<1>2. QED  BY <1>1, OtherIn, Zenon

LEMMA OtherBoth ==
    ASSUME NEW s, NEW t, Other(s), Other(t)
    PROVE  Other(s \o t)
<1>1. PICK S : s \in Seq(S) /\ \A r \in S : r.what # "clmload"  BY DEF Other
<1>2. PICK T : t \in Seq(T) /\ \A r \in T : r.what # "clmload"  BY DEF Other
<1>3. s \in Seq(S \cup T) /\ t \in Seq(S \cup T)  BY <1>1, <1>2
<1>4. s \o t \in Seq(S \cup T)  BY <1>3
<1>5. \A r \in S \cup T : r.what # "clmload"  BY <1>1, <1>2
<1>6. QED  BY <1>4, <1>5, Zenon DEF Other

LEMMA OtherRest ==
    ASSUME NEW s, Other(s), s # <<>>
    PROVE  Head(s).what # "clmload" /\ Other(Tail(s))
<1>1. PICK S : s \in Seq(S) /\ \A r \in S : r.what # "clmload"  BY DEF Other
<1>2. Head(s) \in S /\ Tail(s) \in Seq(S)  BY <1>1
<1>3. QED  BY <1>1, <1>2, Zenon DEF Other

LEMMA OtherAll ==
    ASSUME NEW s, Other(s)
    PROVE  \A i \in DOMAIN s : s[i].what # "clmload"
BY DEF Other

LEMMA WifiOnOther == Other(WifiOn)
<1> DEFINE S == {Set("country", "XX"), Set("antdiv", 0), Set("txglom", 0), Set("apsta", 1),
      Set("ampdu_ba_wsize", 8), Set("ampdu_mpdu", 4), Set("ampdu_rx_factor", 0),
      Set("event_msgs", "enabled"), Set("mcast_list", "mDNS"), Set("up", 1)}
<1>1. WifiOn \in Seq(S)  BY DEF WifiOn
<1>2. \A r \in S : r.what # "clmload"  BY DEF Set
<1> HIDE DEF S
<1>3. QED  BY <1>1, <1>2, OtherIn, Zenon

LEMMA WifiPmOther ==
    ASSUME NEW v
    PROVE  Other(WifiPm(v))
<1> DEFINE S == {Set("pm2_sleep_ret", 10 * Limit(SleepRetOf(v))), Set("bcn_li_bcn", BcnOf(v)),
      Set("bcn_li_dtim", DtimOf(v)), Set("assoc_listen", AssocOf(v)), Set("pm", ModeOf(v)),
      Set("gmode", "auto"), Set("band", "any")}
<1>1. WifiPm(v) \in Seq(S)  BY DEF WifiPm
<1>2. \A r \in S : r.what # "clmload"  BY DEF Set
<1> HIDE DEF S
<1>3. QED  BY <1>1, <1>2, OtherIn, Zenon

LEMMA WifiGetPmOther == Other(WifiGetPm)
<1> DEFINE S == {Get("pm2_sleep_ret"), Get("bcn_li_bcn"), Get("bcn_li_dtim"),
                 Get("assoc_listen"), Get("pm")}
<1>1. WifiGetPm \in Seq(S)  BY DEF WifiGetPm
<1>2. \A r \in S : r.what # "clmload"  BY DEF Get
<1> HIDE DEF S
<1>3. QED  BY <1>1, <1>2, OtherIn, Zenon

LEMMA ApConfigurationOther ==
    ASSUME NEW config
    PROVE  Other(ApConfiguration(config))
<1> DEFINE S == {Set("ampdu_ba_wsize", 2), Set("ap_ssid", config.ssid),
                 Set("channel", config.channel), Set("ap_wsec", config.auth),
                 Set("ap_wpa_auth", WpaAuth(config.auth)), Set("ap_pmk", config.key),
                 Set("ap_gmode", "auto"), Set("2g_mrate", 22), Set("dtimprd", 1)}
<1>1. <<Set("ampdu_ba_wsize", 2), Set("ap_ssid", config.ssid),
        Set("channel", config.channel)>> \in Seq(S)
  OBVIOUS
<1>2. ApSecurity(config) \in Seq(S)
  <2>1. <<Set("ap_wsec", config.auth)>> \in Seq(S) /\ <<>> \in Seq(S)  OBVIOUS
  <2>2. <<Set("ap_wpa_auth", WpaAuth(config.auth)), Set("ap_pmk", config.key)>> \in Seq(S)
    OBVIOUS
  <2> HIDE DEF S
  <2>3. QED  BY <2>1, <2>2 DEF ApSecurity
<1>3. <<Set("ap_gmode", "auto"), Set("2g_mrate", 22), Set("dtimprd", 1)>> \in Seq(S)
  OBVIOUS
<1>4. \A r \in S : r.what # "clmload"  BY DEF Set
<1> HIDE DEF S
<1>5. ApConfiguration(config) \in Seq(S)  BY <1>1, <1>2, <1>3 DEF ApConfiguration
<1>6. QED  BY <1>4, <1>5, Zenon DEF Other

LEMMA SetUpOther ==
    ASSUME NEW itf, NEW up
    PROVE  Other(SetUp(itf, up))
<1>1. Other(Opening(itf))
  BY WifiOnOther, WifiPmOther, OtherBoth, OtherNone DEF Opening
<1>2. Other(<<Get("bss"), Set("bss", 1)>>)
  <2> DEFINE S == {Get("bss"), Set("bss", 1)}
  <2>1. <<Get("bss"), Set("bss", 1)>> \in Seq(S)  OBVIOUS
  <2>2. \A r \in S : r.what # "clmload"  BY DEF Get, Set
  <2> HIDE DEF S
  <2>3. QED  BY <2>1, <2>2, OtherIn, Zenon
<1>3. Other(<<Set("bss", 0)>>)  BY OtherOne DEF Set
<1>4. QED  BY <1>1, <1>2, <1>3, OtherBoth, OtherNone DEF SetUp

\* No call but the first asks for a download.
LEMMA RequestsOther ==
    ASSUME NEW c \in Calls
    PROVE  Other(Requests(c))
<1>1. CASE c.name = "set_up"  BY <1>1, SetUpOther DEF Requests
<1>2. CASE c.name = "pm"  BY <1>2, WifiPmOther DEF Requests
<1>3. CASE c.name = "get_pm"  BY <1>3, WifiGetPmOther DEF Requests
<1>4. CASE c.name = "get_stas"
  <2> DEFINE S == {Get("maxassoc"), Get("assoclist")}
  <2>1. <<Get("maxassoc"), Get("assoclist")>> \in Seq(S)  OBVIOUS
  <2>2. \A r \in S : r.what # "clmload"  BY DEF Get
  <2> HIDE DEF S
  <2>3. Other(<<Get("maxassoc"), Get("assoclist")>>)  BY <2>1, <2>2, OtherIn, Zenon
  <2>4. QED  BY <1>4, <2>3 DEF Requests
<1>5. CASE c.name = "get_max_stas"  BY <1>5, OtherOne DEF Requests, Get
<1>6. QED  BY <1>1, <1>2, <1>3, <1>4, <1>5 DEF Calls

-----------------------------------------------------------------------------
(* Chunks.                                                                 *)

Chunks == [from : Nat, to : Nat, begin : BOOLEAN, end : BOOLEAN]

\* The chunks cover the data in order up to off, which is not the end.
Covers(chunks, off) ==
    /\ chunks \in Seq(Chunks)
    /\ off = 0 => chunks = <<>>
    /\ off # 0 => chunks # <<>> /\ chunks[1].from = 0 /\ chunks[Len(chunks)].to = off
    /\ \A i \in 1 .. Len(chunks) :
          /\ chunks[i].from < chunks[i].to
          /\ chunks[i].begin <=> i = 1
          /\ ~chunks[i].end
          /\ i < Len(chunks) => chunks[i].to = chunks[i + 1].from

Offsets == {off \in Nat : off < ClmLen}

LEMMA ChunkFacts ==
    ASSUME NEW off \in Offsets
    PROVE  /\ Chunk(off) \in Chunks
           /\ Chunk(off).from = off /\ off < Chunk(off).to
           /\ Chunk(off).begin <=> off = 0
           /\ Chunk(off).end <=> off + ChunkLen >= ClmLen
           /\ IF off + ChunkLen < ClmLen
              THEN off + ChunkLen \in Offsets /\ Chunk(off).to = off + ChunkLen
              ELSE Chunk(off).to = ClmLen
<1> USE DEF Offsets
<1>1. /\ off \in Nat /\ off < ClmLen /\ ClmLen \in Nat /\ ChunkLen \in Nat /\ ChunkLen # 0
      /\ off + ChunkLen \in Nat /\ off < off + ChunkLen
      /\ off + ChunkLen >= ClmLen <=> ~(off + ChunkLen < ClmLen)
  BY SettingsAssumption DEF SettingsAssumption
<1>2. Chunk(off) = [from |-> off, to |-> Chunk(off).to, begin |-> off = 0,
                    end |-> off + ChunkLen >= ClmLen]
      /\ Chunk(off).to = IF off + ChunkLen >= ClmLen THEN ClmLen ELSE off + ChunkLen
  BY DEF Chunk
<1>3. Chunk(off).to \in Nat /\ off < Chunk(off).to  BY <1>1, <1>2
<1>4. Chunk(off) \in Chunks
  <2> DEFINE b == off = 0
             e == off + ChunkLen >= ClmLen
  <2>1. b \in BOOLEAN /\ e \in BOOLEAN  OBVIOUS
  <2>2. Chunk(off) = [from |-> off, to |-> Chunk(off).to, begin |-> b, end |-> e]  BY <1>2
  <2> HIDE DEF b, e
  <2>3. QED  BY <1>1, <1>3, <2>1, <2>2 DEF Chunks
<1>5. Chunk(off).begin <=> off = 0  BY DEF Chunk
<1>6. Chunk(off).end <=> off + ChunkLen >= ClmLen  BY DEF Chunk
<1>7. Chunk(off).from = off  BY DEF Chunk
<1>8. QED  BY <1>1, <1>2, <1>3, <1>4, <1>5, <1>6, <1>7, Zenon

\* One chunk more, if it is not the last.
LEMMA CoversMore ==
    ASSUME NEW off \in Offsets, NEW chunks, Covers(chunks, off), off + ChunkLen < ClmLen
    PROVE  Covers(Append(chunks, Chunk(off)), off + ChunkLen)
<1> DEFINE c == Chunk(off)
           more == Append(chunks, c)
<1>1. c \in Chunks /\ c.from = off /\ off < c.to /\ (c.begin <=> off = 0) /\ ~c.end
      /\ c.to = off + ChunkLen /\ off + ChunkLen # 0
  BY ChunkFacts, SettingsAssumption DEF SettingsAssumption, Offsets
<1>2. chunks \in Seq(Chunks)  BY DEF Covers
<1> HIDE DEF c
<1>3. /\ more \in Seq(Chunks) /\ Len(chunks) \in Nat /\ Len(more) = Len(chunks) + 1
      /\ more[Len(more)] = c /\ \A i \in 1 .. Len(chunks) : more[i] = chunks[i]
  BY <1>1, <1>2
<1>4. Len(chunks) = 0 <=> off = 0  BY <1>2, <1>3 DEF Covers
<1> HIDE DEF more
<1>5. more # <<>> /\ more[1].from = 0
  <2>1. more # <<>>  BY <1>3
  <2>2. CASE off = 0
    <3>1. c.from = 0  BY <1>1, <2>2
    <3>2. Len(more) = 1  BY <1>3, <1>4, <2>2
    <3>3. QED  BY <1>3, <2>1, <3>1, <3>2
  <2>3. CASE off # 0
    <3>1. 1 \in 1 .. Len(chunks) /\ chunks[1].from = 0  BY <1>3, <1>4, <2>3 DEF Covers
    <3>2. QED  BY <1>3, <2>1, <3>1
  <2>4. QED  BY <2>2, <2>3
<1>6. ASSUME NEW i \in 1 .. Len(more)
      PROVE  /\ more[i].from < more[i].to
             /\ more[i].begin <=> i = 1
             /\ ~more[i].end
             /\ i < Len(more) => more[i].to = more[i + 1].from
  <2>1. CASE i \in 1 .. Len(chunks)
    <3>1. i < Len(chunks) => more[i + 1] = chunks[i + 1]  BY <1>3, <2>1
    <3>2. i = Len(chunks) => more[i + 1] = c /\ off # 0 /\ chunks[i].to = off
      BY <1>3, <1>4, <2>1 DEF Covers
    <3>3. i < Len(chunks) \/ i = Len(chunks)  BY <1>3, <2>1
    <3>4. QED  BY <1>1, <1>3, <2>1, <3>1, <3>2, <3>3 DEF Covers
  <2>2. CASE i = Len(more)
    <3>1. i = 1 <=> off = 0  BY <1>3, <1>4, <2>2
    <3>2. QED  BY <1>1, <1>2, <1>3, <2>2, <3>1
  <2>3. QED  BY <1>3, <2>1, <2>2
<1>7. Covers(more, off + ChunkLen)  BY <1>1, <1>3, <1>5, <1>6 DEF Covers
<1>8. QED  BY <1>7 DEF more, c

\* The last chunk.
LEMMA CoversWhole ==
    ASSUME NEW off \in Offsets, NEW chunks, Covers(chunks, off), off + ChunkLen >= ClmLen
    PROVE  IsWhole(Append(chunks, Chunk(off)))
<1> DEFINE c == Chunk(off)
           more == Append(chunks, c)
<1>1. c \in Chunks /\ c.from = off /\ off < c.to /\ (c.begin <=> off = 0) /\ c.end
      /\ c.to = ClmLen
  <2>1. ~(off + ChunkLen < ClmLen)
    BY SettingsAssumption DEF SettingsAssumption, Offsets
  <2>2. QED  BY <2>1, ChunkFacts
<1>2. chunks \in Seq(Chunks)  BY DEF Covers
<1> HIDE DEF c
<1>3. /\ more \in Seq(Chunks) /\ Len(chunks) \in Nat /\ Len(more) = Len(chunks) + 1
      /\ DOMAIN more = 1 .. Len(more)
      /\ more[Len(more)] = c /\ \A i \in 1 .. Len(chunks) : more[i] = chunks[i]
  BY <1>1, <1>2
<1>4. Len(chunks) = 0 <=> off = 0  BY <1>2, <1>3 DEF Covers
<1> HIDE DEF more
<1>5. more # <<>> /\ more[1].from = 0
  <2>1. more # <<>>  BY <1>3
  <2>2. CASE off = 0
    <3>1. c.from = 0  BY <1>1, <2>2
    <3>2. Len(more) = 1  BY <1>3, <1>4, <2>2
    <3>3. QED  BY <1>3, <2>1, <3>1, <3>2
  <2>3. CASE off # 0
    <3>1. 1 \in 1 .. Len(chunks) /\ chunks[1].from = 0  BY <1>3, <1>4, <2>3 DEF Covers
    <3>2. QED  BY <1>3, <2>1, <3>1
  <2>4. QED  BY <2>2, <2>3
<1>6. ASSUME NEW i \in 1 .. Len(more)
      PROVE  /\ more[i].from < more[i].to
             /\ more[i].begin <=> i = 1
             /\ more[i].end <=> i = Len(more)
             /\ i < Len(more) => more[i].to = more[i + 1].from
  <2>1. CASE i \in 1 .. Len(chunks)
    <3>1. i < Len(chunks) => more[i + 1] = chunks[i + 1]  BY <1>3, <2>1
    <3>2. i = Len(chunks) => more[i + 1] = c /\ off # 0 /\ chunks[i].to = off
      BY <1>3, <1>4, <2>1 DEF Covers
    <3>3. (i < Len(chunks) \/ i = Len(chunks)) /\ i # Len(more)  BY <1>3, <2>1
    <3>4. QED  BY <1>1, <1>3, <2>1, <3>1, <3>2, <3>3 DEF Covers
  <2>2. CASE i = Len(more)
    <3>1. i = 1 <=> off = 0  BY <1>3, <1>4, <2>2
    <3>2. QED  BY <1>1, <1>2, <1>3, <2>2, <3>1
  <2>3. QED  BY <1>3, <2>1, <2>2
<1>7. IsWhole(more)  BY <1>1, <1>3, <1>5, <1>6 DEF IsWhole
<1>8. QED  BY <1>7 DEF more, c

-----------------------------------------------------------------------------
(* The requests of a call that is loading: a chunk, then other requests.   *)

Loads(s, off) == \E rest : Other(rest) /\ s = <<Set("clmload", Chunk(off))>> \o rest

LEMMA OneAndRest ==
    ASSUME NEW T, NEW one \in Seq(T), NEW rest \in Seq(T), NEW r \in T, Len(one) = 1, one[1] = r
    PROVE  /\ one \o rest # <<>> /\ Head(one \o rest) = r /\ Tail(one \o rest) = rest
           /\ 1 \in DOMAIN (one \o rest) /\ (one \o rest)[1] = r
<1> DEFINE s == one \o rest
<1>1. /\ s \in Seq(T) /\ Len(s) = Len(rest) + 1 /\ Len(rest) \in Nat /\ DOMAIN s = 1 .. Len(s)
      /\ s[1] = r
      /\ \A i \in 2 .. Len(rest) + 1 : s[i] = rest[i - 1]
  <2>1. s \in Seq(T) /\ Len(s) = Len(one) + Len(rest)
        /\ \A i \in 1 .. Len(one) + Len(rest) :
              s[i] = IF i <= Len(one) THEN one[i] ELSE rest[i - Len(one)]
    BY ConcatProperties, Zenon
  <2> HIDE DEF s
  <2>2. Len(rest) \in Nat /\ DOMAIN s = 1 .. Len(s)  BY <2>1
  <2>3. QED  BY <2>1, <2>2
<1> HIDE DEF s
<1>2. s # <<>> /\ Head(s) = r /\ 1 \in DOMAIN s  BY <1>1
<1>3. Tail(s) = rest
  <2>1. Tail(s) \in Seq(T) /\ Len(Tail(s)) = Len(rest)
        /\ \A i \in 1 .. Len(rest) : Tail(s)[i] = rest[i]
    BY <1>1, <1>2
  <2>2. QED  BY <1>1, <2>1
<1>4. QED  BY <1>1, <1>2, <1>3 DEF s

LEMMA FirstAndRest ==
    ASSUME NEW r, NEW rest, Other(rest)
    PROVE  /\ <<r>> \o rest # <<>> /\ Head(<<r>> \o rest) = r /\ Tail(<<r>> \o rest) = rest
           /\ 1 \in DOMAIN (<<r>> \o rest) /\ (<<r>> \o rest)[1] = r
<1>1. PICK S : rest \in Seq(S)  BY DEF Other
<1> DEFINE T == S \cup {r}
<1>2. <<r>> \in Seq(T) /\ rest \in Seq(T) /\ r \in T /\ Len(<<r>>) = 1 /\ <<r>>[1] = r
  BY <1>1
<1> HIDE DEF T
<1>3. QED  BY <1>2, OneAndRest

LEMMA LoadsFirst ==
    ASSUME NEW s, NEW off, Loads(s, off)
    PROVE  /\ s # <<>> /\ Head(s) = Set("clmload", Chunk(off)) /\ Other(Tail(s))
           /\ 1 \in DOMAIN s /\ s[1].what = "clmload"
<1>1. PICK rest : Other(rest) /\ s = <<Set("clmload", Chunk(off))>> \o rest  BY DEF Loads
<1>2. Set("clmload", Chunk(off)).what = "clmload"  BY DEF Set
<1>3. QED  BY <1>1, <1>2, FirstAndRest

\* The requests of a call that brings the chip up.
LEMMA BringUpLoads ==
    ASSUME NEW s, Other(s)
    PROVE  Loads(BringUp \o s, 0)
<1> DEFINE r == Set("clmload", Chunk(0))
           after == <<Get("clmload_status"), Set("txglom", 0), Set("apsta", 1),
                      Set("cur_etheraddr", "mac")>>
           A == {Get("clmload_status"), Set("txglom", 0), Set("apsta", 1),
                 Set("cur_etheraddr", "mac")}
<1>1. after \in Seq(A) /\ \A q \in A : q.what # "clmload"
  <2>1. after \in Seq(A)  OBVIOUS
  <2>2. \A q \in A : q.what # "clmload"  BY DEF Get, Set
  <2>3. QED  BY <2>1, <2>2
<1>2. BringUp = <<r>> \o after  BY DEF BringUp
<1> HIDE DEF r, after, A
<1>3. Other(after)  BY <1>1, OtherIn, Zenon
<1>4. PICK S : s \in Seq(S)  BY DEF Other
<1>5. (<<r>> \o after) \o s = <<r>> \o (after \o s)
  <2> DEFINE T == A \cup S \cup {r}
             one == <<r>>
  <2>1. one \in Seq(T) /\ after \in Seq(T) /\ s \in Seq(T)  BY <1>1, <1>4
  <2> HIDE DEF T, one
  <2>2. (one \o after) \o s = one \o (after \o s)  BY <2>1
  <2>3. QED  BY <2>2 DEF one
<1>6. Other(after \o s)  BY <1>3, OtherBoth
<1>7. BringUp \o s = <<r>> \o (after \o s)  BY <1>2, <1>5
<1>8. QED  BY <1>6, <1>7, Zenon DEF Loads, r

LEMMA NoneBefore ==
    ASSUME NEW s, Other(s)
    PROVE  <<>> \o s = s
<1>1. PICK S : s \in Seq(S)  BY DEF Other
<1>2. QED  BY <1>1

\* A request other than a chunk adds none.
LEMMA NextOther ==
    ASSUME Other(todo), todo # <<>>, NEW value
    PROVE  Other(NextRequests(Head(todo), value))
<1>1. Head(todo).what # "clmload" /\ Other(Tail(todo))  BY OtherRest
<1>2. \/ NextRequests(Head(todo), value) = ApConfiguration(ap) \o Tail(todo)
      \/ NextRequests(Head(todo), value) = <<>> \o Tail(todo)
  BY <1>1 DEF NextRequests
<1>3. QED  BY <1>1, <1>2, ApConfigurationOther, OtherNone, OtherBoth

\* A chunk adds the next one, if it is not the last.
LEMMA NextLoads ==
    ASSUME NEW off \in Offsets, Loads(todo, off), NEW value
    PROVE  IF off + ChunkLen < ClmLen
           THEN Loads(NextRequests(Head(todo), value), off + ChunkLen)
           ELSE Other(NextRequests(Head(todo), value))
<1> DEFINE r == Head(todo)
<1>1. r.what = "clmload" /\ r.op = "set" /\ r.value = Chunk(off) /\ Other(Tail(todo))
  BY LoadsFirst DEF Set
<1>2. r.value.from = off  BY <1>1, ChunkFacts
<1> HIDE DEF r
<1>3. CASE off + ChunkLen < ClmLen
  <2>1. NextRequests(r, value) = <<Set("clmload", Chunk(off + ChunkLen))>> \o Tail(todo)
    BY <1>1, <1>2, <1>3 DEF NextRequests
  <2>2. QED  BY <1>1, <1>3, <2>1 DEF Loads, r
<1>4. CASE ~(off + ChunkLen < ClmLen)
  <2>1. NextRequests(r, value) = <<>> \o Tail(todo)
    BY <1>1, <1>2, <1>4 DEF NextRequests
  <2>2. QED  BY <1>1, <1>4, <2>1, NoneBefore DEF r
<1>5. QED  BY <1>3, <1>4

-----------------------------------------------------------------------------
(* The download.                                                           *)

Lost == "clmload" \in missed

\* The chip is off, has the data, or is being sent them.
ClmInv ==
    /\ busy \/ todo = <<>>
    /\ \/ ~on /\ clm = <<>> /\ todo = <<>>
       \/ on /\ Other(todo) /\ (~Lost => IsWhole(clm))
       \/ on /\ \E off \in Offsets : Loads(todo, off) /\ (~Lost => Covers(clm, off))

LEMMA CallClm ==
    ASSUME ClmInv, NEW c \in Calls, Call(c)
    PROVE  ClmInv'
<1> DEFINE bringUp == ~on /\ ~(c.name = "set_up" /\ ~c.up /\ c.itf = "STA")
<1>1. /\ ~busy /\ busy' = TRUE /\ UNCHANGED <<clm, missed>>
      /\ todo' = (IF bringUp THEN BringUp ELSE <<>>) \o Requests(c)
      /\ on' = (on \/ bringUp)
  BY DEF Call, chipVars
<1>2. todo = <<>>  BY <1>1 DEF ClmInv
<1>3. Other(Requests(c))  BY RequestsOther
<1>4. CASE bringUp
  <2>1. on' /\ todo' = BringUp \o Requests(c)  BY <1>1, <1>4
  <2>2. Loads(todo', 0)  BY <1>3, <2>1, BringUpLoads
  <2>3. clm' = <<>>  BY <1>1, <1>4 DEF ClmInv
  <2>4. 0 \in Offsets  BY SettingsAssumption DEF SettingsAssumption, Offsets
  <2>5. Covers(clm', 0)  BY <2>3 DEF Covers
  <2>6. Covers(clm, 0)' /\ Loads(todo, 0)'  BY <2>2, <2>5 DEF Covers, Loads
  <2>7. QED  BY <1>1, <2>1, <2>4, <2>6 DEF ClmInv
<1>5. CASE ~on /\ ~bringUp
  <2>1. c.name = "set_up" /\ ~c.up /\ c.itf = "STA"  BY <1>5
  <2>2. Requests(c) = <<>>  BY <2>1 DEF Requests, SetUp
  <2>3. todo' = <<>>  BY <1>1, <1>3, <1>5, <2>2, NoneBefore
  <2>4. ~on' /\ clm' = <<>>  BY <1>1, <1>5 DEF ClmInv
  <2>5. QED  BY <2>3, <2>4 DEF ClmInv
<1>6. CASE on
  <2>1. ~Lost => IsWhole(clm)  BY <1>2, <1>6, LoadsFirst DEF ClmInv
  <2>2. todo' = Requests(c) /\ on'  BY <1>1, <1>3, <1>6, NoneBefore
  <2>3. IsWhole(clm)' <=> IsWhole(clm)  BY <1>1 DEF IsWhole
  <2>4. Other(todo')  BY <1>3, <2>2
  <2>5. Other(todo)'  BY <2>4 DEF Other
  <2>6. QED  BY <1>1, <2>1, <2>2, <2>3, <2>5 DEF ClmInv, Lost
<1>7. QED  BY <1>4, <1>5, <1>6

\* An ioctl, whatever becomes of it.
IoctlClm ==
    \E value :
       /\ Go(Head(todo), value)
       /\ IF Head(todo).what = "clmload"
          THEN ~Lost' => ~Lost /\ clm' = Append(clm, Head(todo).value)
          ELSE UNCHANGED clm /\ (~Lost' => ~Lost)

LEMMA DoneIoctl ==
    ASSUME Done, Head(todo).what = "clmload" => Head(todo).op = "set"
    PROVE  IoctlClm
BY DEF Done, Store, IoctlClm, Lost, chipVars

LEMMA FailIoctl ==
    ASSUME Fail, Head(todo).what = "clmload" => Head(todo).op = "set"
    PROVE  IoctlClm
<1> DEFINE r == Head(todo)
<1>1. /\ \E value : Go(r, value)
      /\ UNCHANGED clm \/ (r.op = "set" /\ Store(r))
      /\ missed' = IF r.op = "set" THEN missed \cup {r.what} ELSE missed
  BY DEF Fail, chipVars
<1>2. r.what = "clmload" => Lost'  BY <1>1 DEF Lost
<1>3. r.what # "clmload" => UNCHANGED clm /\ (Lost => Lost')  BY <1>1 DEF Lost, Store
<1>4. QED  BY <1>1, <1>2, <1>3 DEF IoctlClm

LEMMA IoctlKeeps ==
    ASSUME ClmInv, todo # <<>>, IoctlClm
    PROVE  ClmInv'
<1> DEFINE r == Head(todo)
<1>1. PICK value :
         /\ Go(r, value)
         /\ IF r.what = "clmload"
            THEN ~Lost' => ~Lost /\ clm' = Append(clm, r.value)
            ELSE UNCHANGED clm /\ (~Lost' => ~Lost)
  BY DEF IoctlClm
<1>2. busy /\ busy' /\ on' = on /\ todo' = NextRequests(r, value)  BY <1>1 DEF Go, ClmInv
<1>3. CASE on /\ Other(todo) /\ (~Lost => IsWhole(clm))
  <2>1. UNCHANGED clm /\ (~Lost' => ~Lost)  BY <1>1, <1>3, OtherRest
  <2>2. Other(todo')  BY <1>2, <1>3, NextOther
  <2>3. Other(todo)'  BY <2>2 DEF Other
  <2>4. IsWhole(clm)' <=> IsWhole(clm)  BY <2>1 DEF IsWhole
  <2>5. QED  BY <1>2, <1>3, <2>1, <2>3, <2>4 DEF ClmInv
<1>4. ASSUME on, NEW off \in Offsets, Loads(todo, off), ~Lost => Covers(clm, off)
      PROVE  ClmInv'
  <2>1. r.what = "clmload" /\ r.value = Chunk(off)  BY <1>4, LoadsFirst DEF Set
  <2>2. ~Lost' => Covers(clm, off) /\ clm' = Append(clm, Chunk(off))  BY <1>1, <1>4, <2>1
  <2>3. CASE off + ChunkLen < ClmLen
    <3>1. Loads(todo', off + ChunkLen)  BY <1>2, <1>4, <2>3, NextLoads
    <3>2. ~Lost' => Covers(clm', off + ChunkLen)  BY <2>2, <2>3, CoversMore
    <3>3. off + ChunkLen \in Offsets  BY <2>3, ChunkFacts
    <3>4. QED  BY <1>2, <1>4, <3>1, <3>2, <3>3 DEF ClmInv
  <2>4. CASE ~(off + ChunkLen < ClmLen)
    <3>1. Other(todo')  BY <1>2, <1>4, <2>4, NextLoads
    <3>2. off + ChunkLen >= ClmLen
      BY <2>4, SettingsAssumption DEF SettingsAssumption, Offsets
    <3>3. ~Lost' => IsWhole(clm')  BY <2>2, <3>2, CoversWhole
    <3>4. QED  BY <1>2, <1>4, <3>1, <3>3 DEF ClmInv
  <2>5. QED  BY <2>3, <2>4
<1>5. QED  BY <1>3, <1>4 DEF ClmInv

\* Every step keeps ClmInv.
LEMMA NextClm ==
    ASSUME ClmInv, [Next]_vars
    PROVE  ClmInv'
<1>1. ASSUME NEW c \in Calls, Call(c)
      PROVE  ClmInv'
  BY <1>1, CallClm
<1>2. ASSUME UNCHANGED <<on, todo, clm, missed>>, busy' \/ todo = <<>>
      PROVE  ClmInv'
  BY <1>2 DEF ClmInv, Lost, Other, Loads, IsWhole, Covers
<1>3. CASE ApNoted
  BY <1>2, <1>3 DEF ApNoted, SetAp, chipVars, history, ClmInv
<1>4. CASE Deinit
  BY <1>4 DEF Deinit, ClmInv
<1>5. CASE Done \/ Fail
  <2>1. todo # <<>>  BY <1>5 DEF Done, Fail
  <2>2. Head(todo).what = "clmload" => Head(todo).op = "set"
    BY <2>1, OtherRest, LoadsFirst DEF ClmInv, Set
  <2>3. QED  BY <1>5, <2>1, <2>2, DoneIoctl, FailIoctl, IoctlKeeps
<1>6. CASE Return
  BY <1>2, <1>6 DEF Return, chipVars, history
<1>7. CASE UNCHANGED vars
  BY <1>2, <1>7 DEF vars, driver, chipVars, history, ClmInv
<1>8. QED  BY <1>1, <1>3, <1>4, <1>5, <1>6, <1>7 DEF Next, ApNoted

\* When a bring-up is past the download and none of its chunks went wrong, the
\* chip was sent the regulatory data exactly once, whatever their size and that
\* of a chunk, and whatever calls and failures there were before or after.
THEOREM ClmSentOnce == Spec => []ClmWhole
<1>1. Init => ClmInv
  BY DEF Init, ClmInv
<1>2. ClmInv /\ [Next]_vars => ClmInv'  BY NextClm
<1>3. ClmInv => ClmWhole
  BY LoadsFirst DEF ClmInv, ClmWhole, Lost
<1>4. QED  BY <1>1, <1>2, <1>3, PTL DEF Spec

-----------------------------------------------------------------------------
(* The requests that a series asks for.                                    *)

IsSeries(s) == \E S : s \in Seq(S)
Asked(s) == {s[i] : i \in DOMAIN s}

LEMMA AskedNone == IsSeries(<<>>) /\ Asked(<<>>) = {}
<1>1. <<>> \in Seq({}) /\ DOMAIN <<>> = {}  OBVIOUS
<1>2. QED  BY <1>1 DEF IsSeries, Asked

LEMMA AskedIn ==
    ASSUME NEW S, NEW s \in Seq(S)
    PROVE  IsSeries(s) /\ Asked(s) \subseteq S
<1>1. \A i \in DOMAIN s : s[i] \in S  OBVIOUS
<1>2. QED  BY <1>1, Zenon DEF IsSeries, Asked

LEMMA AskedBoth ==
    ASSUME NEW s, NEW t, IsSeries(s), IsSeries(t)
    PROVE  IsSeries(s \o t) /\ Asked(s \o t) = Asked(s) \cup Asked(t)
<1>1. PICK S : s \in Seq(S)  BY DEF IsSeries
<1>2. PICK T : t \in Seq(T)  BY DEF IsSeries
<1> DEFINE U == S \cup T
           u == s \o t
<1>3. s \in Seq(U) /\ t \in Seq(U)  BY <1>1, <1>2
<1> HIDE DEF U
<1>4. /\ u \in Seq(U) /\ Len(u) = Len(s) + Len(t)
      /\ \A i \in 1 .. Len(s) + Len(t) : u[i] = IF i <= Len(s) THEN s[i] ELSE t[i - Len(s)]
  BY <1>3, ConcatProperties, Zenon
<1>5. /\ Len(s) \in Nat /\ Len(t) \in Nat
      /\ DOMAIN s = 1 .. Len(s) /\ DOMAIN t = 1 .. Len(t) /\ DOMAIN u = 1 .. Len(s) + Len(t)
  <2>1. Len(s) \in Nat /\ Len(t) \in Nat /\ DOMAIN s = 1 .. Len(s) /\ DOMAIN t = 1 .. Len(t)
    BY <1>3
  <2> HIDE DEF u
  <2>2. DOMAIN u = 1 .. Len(u)  BY <1>4
  <2>3. QED  BY <1>4, <2>1, <2>2
<1> HIDE DEF u
<1>6. ASSUME NEW r \in Asked(u)
      PROVE  r \in Asked(s) \cup Asked(t)
  <2>1. PICK i \in DOMAIN u : r = u[i]  BY DEF Asked
  <2>2. \/ i \in DOMAIN s /\ u[i] = s[i]
        \/ i - Len(s) \in DOMAIN t /\ u[i] = t[i - Len(s)]
    BY <1>4, <1>5
  <2>3. QED  BY <2>1, <2>2 DEF Asked
<1>7. ASSUME NEW r \in Asked(s)
      PROVE  r \in Asked(u)
  <2>1. PICK i \in DOMAIN s : r = s[i]  BY DEF Asked
  <2>2. i \in DOMAIN u /\ u[i] = s[i]  BY <1>4, <1>5
  <2>3. QED  BY <2>1, <2>2 DEF Asked
<1>8. ASSUME NEW r \in Asked(t)
      PROVE  r \in Asked(u)
  <2>1. PICK i \in DOMAIN t : r = t[i]  BY DEF Asked
  <2>2. i + Len(s) \in DOMAIN u /\ u[i + Len(s)] = t[i]
    <3>1. i + Len(s) \in 1 .. Len(s) + Len(t) /\ ~(i + Len(s) <= Len(s))
          /\ (i + Len(s)) - Len(s) = i
      BY <1>5
    <3>2. QED  BY <1>4, <1>5, <3>1
  <2>3. QED  BY <2>1, <2>2 DEF Asked
<1>9. IsSeries(u)  BY <1>4 DEF IsSeries
<1>10. QED  BY <1>6, <1>7, <1>8, <1>9 DEF u

LEMMA AskedRest ==
    ASSUME NEW s, IsSeries(s), s # <<>>
    PROVE  IsSeries(Tail(s)) /\ Asked(s) = {Head(s)} \cup Asked(Tail(s))
<1>1. PICK S : s \in Seq(S)  BY DEF IsSeries
<1> DEFINE t == Tail(s)
<1>2. /\ t \in Seq(S) /\ Len(s) \in Nat \ {0} /\ Len(t) = Len(s) - 1 /\ Head(s) = s[1]
      /\ \A i \in 1 .. Len(s) - 1 : t[i] = s[i + 1]
  BY <1>1
<1>3. DOMAIN s = 1 .. Len(s) /\ DOMAIN t = 1 .. Len(s) - 1  BY <1>1, <1>2
<1> HIDE DEF t
<1>4. ASSUME NEW r \in Asked(s)
      PROVE  r \in {Head(s)} \cup Asked(t)
  <2>1. PICK i \in DOMAIN s : r = s[i]  BY DEF Asked
  <2>2. i = 1 \/ (i - 1 \in DOMAIN t /\ t[i - 1] = s[i])  BY <1>2, <1>3
  <2>3. QED  BY <1>2, <2>1, <2>2 DEF Asked
<1>5. Head(s) \in Asked(s)
  <2>1. 1 \in DOMAIN s  BY <1>2, <1>3
  <2>2. QED  BY <1>2, <2>1 DEF Asked
<1>6. ASSUME NEW r \in Asked(t)
      PROVE  r \in Asked(s)
  <2>1. PICK i \in DOMAIN t : r = t[i]  BY DEF Asked
  <2>2. i + 1 \in DOMAIN s /\ t[i] = s[i + 1]  BY <1>2, <1>3
  <2>3. QED  BY <2>1, <2>2 DEF Asked
<1>7. IsSeries(t)  BY <1>2 DEF IsSeries
<1>8. QED  BY <1>4, <1>5, <1>6, <1>7 DEF t

LEMMA AskedOne ==
    ASSUME NEW r
    PROVE  IsSeries(<<r>>) /\ Asked(<<r>>) = {r}
<1>1. <<r>> \in Seq({r}) /\ DOMAIN <<r>> = {1} /\ <<r>>[1] = r  OBVIOUS
<1>2. QED  BY <1>1 DEF IsSeries, Asked

LEMMA AskedWifiOn ==
    /\ IsSeries(WifiOn)
    /\ Asked(WifiOn) =
         {Set("country", "XX"), Set("antdiv", 0), Set("txglom", 0), Set("apsta", 1),
          Set("ampdu_ba_wsize", 8), Set("ampdu_mpdu", 4), Set("ampdu_rx_factor", 0),
          Set("event_msgs", "enabled"), Set("mcast_list", "mDNS"), Set("up", 1)}
<1> DEFINE S == {Set("country", "XX"), Set("antdiv", 0), Set("txglom", 0), Set("apsta", 1),
      Set("ampdu_ba_wsize", 8), Set("ampdu_mpdu", 4), Set("ampdu_rx_factor", 0),
      Set("event_msgs", "enabled"), Set("mcast_list", "mDNS"), Set("up", 1)}
<1>1. WifiOn \in Seq(S)  BY DEF WifiOn
<1>2. DOMAIN WifiOn = 1 .. 10  BY DEF WifiOn
<1>3. S \subseteq Asked(WifiOn)
  <2>1. \A r \in S : \E i \in 1 .. 10 : WifiOn[i] = r  BY DEF WifiOn
  <2>2. QED  BY <1>2, <2>1 DEF Asked
<1>4. QED  BY <1>1, <1>3, AskedIn

LEMMA AskedWifiPm ==
    ASSUME NEW v
    PROVE  /\ IsSeries(WifiPm(v))
           /\ Asked(WifiPm(v)) =
                {Set("pm2_sleep_ret", 10 * Limit(SleepRetOf(v))), Set("bcn_li_bcn", BcnOf(v)),
                 Set("bcn_li_dtim", DtimOf(v)), Set("assoc_listen", AssocOf(v)),
                 Set("pm", ModeOf(v)), Set("gmode", "auto"), Set("band", "any")}
<1> DEFINE S == {Set("pm2_sleep_ret", 10 * Limit(SleepRetOf(v))), Set("bcn_li_bcn", BcnOf(v)),
                 Set("bcn_li_dtim", DtimOf(v)), Set("assoc_listen", AssocOf(v)),
                 Set("pm", ModeOf(v)), Set("gmode", "auto"), Set("band", "any")}
<1>1. WifiPm(v) \in Seq(S)  BY DEF WifiPm
<1>2. DOMAIN WifiPm(v) = 1 .. 7  BY DEF WifiPm
<1>3. S \subseteq Asked(WifiPm(v))
  <2>1. \A r \in S : \E i \in 1 .. 7 : WifiPm(v)[i] = r  BY DEF WifiPm
  <2>2. QED  BY <1>2, <2>1 DEF Asked
<1>4. QED  BY <1>1, <1>3, AskedIn

LEMMA AskedWifiGetPm ==
    IsSeries(WifiGetPm) /\ Asked(WifiGetPm) = {Get(what) : what \in PmNames}
<1> DEFINE S == {Get(what) : what \in PmNames}
<1>1. WifiGetPm \in Seq(S)  BY DEF WifiGetPm, PmNames
<1>2. DOMAIN WifiGetPm = 1 .. 5  BY DEF WifiGetPm
<1>3. S \subseteq Asked(WifiGetPm)
  <2>1. \A what \in PmNames : \E i \in 1 .. 5 : WifiGetPm[i] = Get(what)
    BY DEF WifiGetPm, PmNames
  <2>2. QED  BY <1>2, <2>1 DEF Asked
<1>4. QED  BY <1>1, <1>3, AskedIn

\* The requests of a bring-up but for the chunks.
AfterDownload == {Get("clmload_status"), Set("txglom", 0), Set("apsta", 1),
                  Set("cur_etheraddr", "mac")}

LEMMA AskedBringUp ==
    IsSeries(BringUp) /\ Asked(BringUp) = {Set("clmload", Chunk(0))} \cup AfterDownload
<1> DEFINE S == {Set("clmload", Chunk(0))} \cup AfterDownload
<1>1. BringUp \in Seq(S)  BY DEF BringUp, AfterDownload
<1>2. DOMAIN BringUp = 1 .. 5  BY DEF BringUp
<1>3. S \subseteq Asked(BringUp)
  <2>1. \A r \in S : \E i \in 1 .. 5 : BringUp[i] = r  BY DEF BringUp, AfterDownload
  <2>2. QED  BY <1>2, <2>1 DEF Asked
<1>4. QED  BY <1>1, <1>3, AskedIn

LEMMA AskedApSecurity ==
    ASSUME NEW config
    PROVE  /\ IsSeries(ApSecurity(config))
           /\ Asked(ApSecurity(config)) =
                {Set("ap_wsec", config.auth)} \cup
                (IF config.auth = "open" THEN {}
                 ELSE {Set("ap_wpa_auth", WpaAuth(config.auth)), Set("ap_pmk", config.key)})
<1> DEFINE a == Set("ap_wpa_auth", WpaAuth(config.auth))
           k == Set("ap_pmk", config.key)
<1>1. IsSeries(<<a, k>>) /\ Asked(<<a, k>>) = {a, k}
  <2> HIDE DEF a, k
  <2>1. <<a, k>> \in Seq({a, k}) /\ DOMAIN <<a, k>> = 1 .. 2 /\ <<a, k>>[1] = a /\ <<a, k>>[2] = k
    OBVIOUS
  <2>2. Asked(<<a, k>>) = {a, k}  BY <2>1 DEF Asked
  <2>3. QED  BY <2>1, <2>2 DEF IsSeries
<1> HIDE DEF a, k
<1>2. QED  BY <1>1, AskedOne, AskedNone, AskedBoth DEF ApSecurity, a, k

LEMMA AskedApConfiguration ==
    ASSUME NEW config
    PROVE  /\ IsSeries(ApConfiguration(config))
           /\ Asked(ApConfiguration(config)) =
                {Set("ampdu_ba_wsize", 2), Set("ap_ssid", config.ssid),
                 Set("channel", config.channel)} \cup Asked(ApSecurity(config))
                \cup {Set("ap_gmode", "auto"), Set("2g_mrate", 22), Set("dtimprd", 1)}
<1> DEFINE a == Set("ampdu_ba_wsize", 2)  b == Set("ap_ssid", config.ssid)
           c == Set("channel", config.channel)
           d == Set("ap_gmode", "auto")  e == Set("2g_mrate", 22)  f == Set("dtimprd", 1)
<1> HIDE DEF a, b, c, d, e, f
<1>1. ASSUME NEW p, NEW q, NEW r
      PROVE  IsSeries(<<p, q, r>>) /\ Asked(<<p, q, r>>) = {p, q, r}
  <2>1. /\ <<p, q, r>> \in Seq({p, q, r}) /\ DOMAIN <<p, q, r>> = 1 .. 3
        /\ <<p, q, r>>[1] = p /\ <<p, q, r>>[2] = q /\ <<p, q, r>>[3] = r
    OBVIOUS
  <2>2. Asked(<<p, q, r>>) = {p, q, r}  BY <2>1 DEF Asked
  <2>3. QED  BY <2>1, <2>2 DEF IsSeries
<1> DEFINE x == <<a, b, c>>  y == ApSecurity(config)  z == <<d, e, f>>
<1>2. ApConfiguration(config) = (x \o y) \o z
  BY DEF ApConfiguration, a, b, c, d, e, f
<1>3. IsSeries(x) /\ IsSeries(y) /\ IsSeries(z)  BY <1>1, AskedApSecurity
<1>4. Asked(x) = {a, b, c} /\ Asked(z) = {d, e, f}  BY <1>1
<1> HIDE DEF x, y, z
<1>5. IsSeries(x \o y) /\ Asked(x \o y) = Asked(x) \cup Asked(y)  BY <1>3, AskedBoth
<1>6. IsSeries((x \o y) \o z) /\ Asked((x \o y) \o z) = Asked(x \o y) \cup Asked(z)
  BY <1>3, <1>5, AskedBoth
<1>7. QED  BY <1>2, <1>4, <1>5, <1>6 DEF y, a, b, c, d, e, f

LEMMA AskedTwo ==
    ASSUME NEW p, NEW q
    PROVE  IsSeries(<<p, q>>) /\ Asked(<<p, q>>) = {p, q}
<1>1. <<p, q>> \in Seq({p, q}) /\ DOMAIN <<p, q>> = 1 .. 2 /\ <<p, q>>[1] = p /\ <<p, q>>[2] = q
  OBVIOUS
<1>2. Asked(<<p, q>>) = {p, q}  BY <1>1 DEF Asked
<1>3. QED  BY <1>1, <1>2 DEF IsSeries

LEMMA AskedOpening ==
    ASSUME NEW itf
    PROVE  /\ IsSeries(Opening(itf))
           /\ Asked(Opening(itf)) =
                IF itfs = {} THEN Asked(WifiOn) \cup Asked(WifiPm(DefaultPm)) ELSE {}
BY AskedWifiOn, AskedWifiPm, AskedNone, AskedBoth DEF Opening

\* What a call asks for, the opening of the first interface aside.
AskedFor(c) ==
    CASE c.name = "set_up" ->
            IF c.itf # "AP" THEN {}
            ELSE IF c.up THEN {Get("bss"), Set("bss", 1)} ELSE {Set("bss", 0)}
      [] c.name = "pm" -> Asked(WifiPm(c.word))
      [] c.name = "get_pm" -> {Get(what) : what \in PmNames}
      [] c.name = "get_stas" -> {Get("maxassoc"), Get("assoclist")}
      [] c.name = "get_max_stas" -> {Get("maxassoc")}

Opens(c) == c.name = "set_up" /\ c.up /\ itfs = {}

LEMMA AskedRequests ==
    ASSUME NEW c \in Calls
    PROVE  /\ IsSeries(Requests(c))
           /\ Asked(Requests(c)) =
                AskedFor(c) \cup (IF Opens(c) THEN Asked(WifiOn) \cup Asked(WifiPm(DefaultPm)) ELSE {})
<1>1. CASE c.name = "set_up"
  <2>1. c.up \in BOOLEAN /\ c.itf \in Itf  BY <1>1 DEF Calls
  <2>2. Requests(c) = SetUp(c.itf, c.up)  BY <1>1 DEF Requests
  <2>3. CASE c.up
    <3> DEFINE last == IF c.itf = "AP" THEN <<Get("bss"), Set("bss", 1)>> ELSE <<>>
    <3>1. Requests(c) = Opening(c.itf) \o last  BY <2>2, <2>3 DEF SetUp
    <3>2. IsSeries(last) /\ Asked(last) = AskedFor(c)
      BY <1>1, <2>1, <2>3, AskedTwo, AskedNone DEF AskedFor
    <3> HIDE DEF last
    <3>3. Asked(Opening(c.itf)) =
            IF Opens(c) THEN Asked(WifiOn) \cup Asked(WifiPm(DefaultPm)) ELSE {}
      BY <1>1, <2>3, AskedOpening DEF Opens
    <3>4. QED  BY <3>1, <3>2, <3>3, AskedOpening, AskedBoth
  <2>4. CASE ~c.up
    BY <1>1, <2>1, <2>2, <2>4, AskedOne, AskedNone DEF SetUp, AskedFor, Opens
  <2>5. QED  BY <2>1, <2>3, <2>4
<1>2. CASE c.name = "pm"  BY <1>2, AskedWifiPm DEF Requests, AskedFor, Opens
<1>3. CASE c.name = "get_pm"  BY <1>3, AskedWifiGetPm DEF Requests, AskedFor, Opens
<1>4. CASE c.name = "get_stas"  BY <1>4, AskedTwo DEF Requests, AskedFor, Opens
<1>5. CASE c.name = "get_max_stas"  BY <1>5, AskedOne DEF Requests, AskedFor, Opens
<1>6. QED  BY <1>1, <1>2, <1>3, <1>4, <1>5 DEF Calls

-----------------------------------------------------------------------------
(* What a step makes of the requests.                                      *)

\* What the answer to a request adds.
Added(r, value) ==
    CASE r.what = "clmload" /\ r.value.from + ChunkLen < ClmLen ->
              <<Set("clmload", Chunk(r.value.from + ChunkLen))>>
      [] r.op = "get" /\ r.what = "bss" /\ value = 0 -> ApConfiguration(ap)
      [] OTHER -> <<>>

LEMMA NextAdds ==
    ASSUME NEW r, NEW value
    PROVE  NextRequests(r, value) = Added(r, value) \o Tail(todo)
BY Zenon DEF NextRequests, Added

LEMMA AskedAdded ==
    ASSUME NEW r, NEW value
    PROVE  /\ IsSeries(Added(r, value))
           /\ r.what \notin {"clmload", "bss"} => Added(r, value) = <<>>
           /\ r.op = "set" /\ r.what # "clmload" => Added(r, value) = <<>>
           /\ r.what = "clmload" =>
                Asked(Added(r, value)) \subseteq {Set("clmload", Chunk(r.value.from + ChunkLen))}
           /\ r = Get("bss") =>
                Added(r, value) = IF value = 0 THEN ApConfiguration(ap) ELSE <<>>
<1>1. Get("bss").op = "get" /\ Get("bss").what = "bss"  BY DEF Get
<1>2. IsSeries(Added(r, value))
  BY AskedOne, AskedNone, AskedApConfiguration DEF Added
<1>3. r.what = "clmload" =>
        Asked(Added(r, value)) \subseteq {Set("clmload", Chunk(r.value.from + ChunkLen))}
  BY AskedOne, AskedNone DEF Added
<1>4. QED  BY <1>1, <1>2, <1>3 DEF Added

-----------------------------------------------------------------------------
(* Types.                                                                  *)

Gets == Names \cup {"clmload_status", "maxassoc", "assoclist"}

\* A request that the driver may make.
Known(r) ==
    \/ r.op = "get" /\ r.what \in Gets
    \/ r.op = "set" /\ r.what \in Names
    \/ \E off \in Offsets : r = Set("clmload", Chunk(off))

Parts == {c \in Chunks : c.from \in 0 .. ClmLen - 1 /\ c.to \in 1 .. ClmLen}

TypesInv ==
    /\ TypeOK
    /\ IsSeries(todo) /\ \A r \in Asked(todo) : Known(r)
    /\ clm \in Seq(Parts)

LEMMA KnownSet ==
    ASSUME NEW what \in Names, NEW value
    PROVE  Known(Set(what, value))
BY DEF Known, Set

LEMMA KnownGet ==
    ASSUME NEW what \in Gets
    PROVE  Known(Get(what))
BY DEF Known, Get

LEMMA KnownChunk ==
    ASSUME NEW off \in Offsets
    PROVE  /\ Known(Set("clmload", Chunk(off)))
           /\ Chunk(off) \in Parts
<1>1. Chunk(off) \in Chunks /\ Chunk(off).from = off /\ off < Chunk(off).to
      /\ (off + ChunkLen < ClmLen => Chunk(off).to = off + ChunkLen)
      /\ (~(off + ChunkLen < ClmLen) => Chunk(off).to = ClmLen)
  BY ChunkFacts
<1>2. off \in Nat /\ off < ClmLen /\ ClmLen \in Nat /\ ChunkLen \in Nat
  BY SettingsAssumption DEF SettingsAssumption, Offsets
<1>3. Chunk(off).from \in 0 .. ClmLen - 1  BY <1>1, <1>2
<1>4. Chunk(off).to \in 1 .. ClmLen
  <2> DEFINE to == Chunk(off).to
  <2>1. CASE off + ChunkLen < ClmLen  BY <1>1, <1>2, <2>1
  <2>2. CASE ~(off + ChunkLen < ClmLen)  BY <1>1, <1>2, <2>2
  <2>3. QED  BY <2>1, <2>2
<1>5. QED  BY <1>1, <1>3, <1>4 DEF Known, Parts

LEMMA KnownOp ==
    ASSUME NEW r, Known(r)
    PROVE  /\ r.op \in {"set", "get"}
           /\ r.op = "get" => r.what \in Gets
           /\ r.op = "set" => r.what \in Names \cup {"clmload"}
           /\ r.what = "clmload" => \E off \in Offsets : r = Set("clmload", Chunk(off))
BY DEF Known, Set, Names, PmNames, ApNames, Gets

LEMMA ApConfigurationKnown ==
    ASSUME NEW config
    PROVE  \A r \in Asked(ApConfiguration(config)) : Known(r)
<1>1. \A r \in Asked(ApSecurity(config)) : Known(r)
  BY AskedApSecurity, KnownSet DEF Names, ApNames
<1>2. \A r \in {Set("ampdu_ba_wsize", 2), Set("ap_ssid", config.ssid),
                Set("channel", config.channel)} : Known(r)
  BY KnownSet DEF Names, ApNames
<1>3. \A r \in {Set("ap_gmode", "auto"), Set("2g_mrate", 22), Set("dtimprd", 1)} : Known(r)
  BY KnownSet DEF Names
<1>4. QED  BY <1>1, <1>2, <1>3, AskedApConfiguration

LEMMA WifiOnKnown == \A r \in Asked(WifiOn) : Known(r)
<1>1. {"country", "antdiv", "txglom", "apsta", "ampdu_ba_wsize", "ampdu_mpdu",
       "ampdu_rx_factor", "event_msgs", "mcast_list", "up"} \subseteq Names
  BY DEF Names
<1>2. QED  BY <1>1, AskedWifiOn, KnownSet

LEMMA WifiPmKnown ==
    ASSUME NEW v
    PROVE  \A r \in Asked(WifiPm(v)) : Known(r)
<1>1. {"pm2_sleep_ret", "bcn_li_bcn", "bcn_li_dtim", "assoc_listen", "pm", "gmode", "band"}
        \subseteq Names
  BY DEF Names, PmNames
<1>2. QED  BY <1>1, AskedWifiPm, KnownSet

LEMMA BringUpKnown == \A r \in Asked(BringUp) : Known(r)
<1>1. {"txglom", "apsta", "cur_etheraddr"} \subseteq Names /\ "clmload_status" \in Gets
  BY DEF Names, Gets
<1>2. 0 \in Offsets  BY SettingsAssumption DEF SettingsAssumption, Offsets
<1>3. QED  BY <1>1, <1>2, AskedBringUp, KnownSet, KnownGet, KnownChunk DEF AfterDownload

LEMMA RequestsKnown ==
    ASSUME NEW c \in Calls
    PROVE  \A r \in Asked(Requests(c)) : Known(r)
<1>1. /\ "bss" \in Names
      /\ PmNames \subseteq Gets
      /\ {"bss", "maxassoc", "assoclist"} \subseteq Gets
  BY DEF Names, Gets
<1>2. \A r \in AskedFor(c) : Known(r)
  <2>1. CASE c.name = "set_up"  BY <1>1, <2>1, KnownSet, KnownGet DEF AskedFor
  <2>2. CASE c.name = "pm"  BY <2>2, WifiPmKnown DEF AskedFor
  <2>3. CASE c.name = "get_pm"  BY <1>1, <2>3, KnownGet DEF AskedFor
  <2>4. CASE c.name = "get_stas"  BY <1>1, <2>4, KnownGet DEF AskedFor
  <2>5. CASE c.name = "get_max_stas"  BY <1>1, <2>5, KnownGet DEF AskedFor
  <2>6. QED  BY <2>1, <2>2, <2>3, <2>4, <2>5 DEF Calls
<1>3. QED  BY <1>2, AskedRequests, WifiOnKnown, WifiPmKnown

LEMMA AddedKnown ==
    ASSUME NEW r, NEW value, Known(r)
    PROVE  \A q \in Asked(Added(r, value)) : Known(q)
<1>1. CASE r.what = "clmload"
  <2>1. PICK off \in Offsets : r = Set("clmload", Chunk(off))  BY <1>1, KnownOp
  <2>2. r.value.from = off  BY <2>1, ChunkFacts DEF Set
  <2>3. CASE off + ChunkLen < ClmLen
    <3>1. off + ChunkLen \in Offsets  BY <2>3, ChunkFacts
    <3>2. QED  BY <1>1, <2>2, <3>1, AskedAdded, KnownChunk
  <2>4. CASE ~(off + ChunkLen < ClmLen)
    <3>1. Added(r, value) = <<>>  BY <1>1, <2>1, <2>2, <2>4 DEF Added, Set
    <3>2. QED  BY <3>1, AskedNone
  <2>5. QED  BY <2>3, <2>4
<1>2. CASE r.what # "clmload"
  <2>1. Added(r, value) \in {ApConfiguration(ap), <<>>}  BY <1>2 DEF Added
  <2>2. QED  BY <2>1, AskedNone, ApConfigurationKnown
<1>3. QED  BY <1>1, <1>2

\* What a call asks for.
LEMMA CallAsks ==
    ASSUME TypesInv, NEW c \in Calls, Call(c)
    PROVE  LET bringUp == ~on /\ ~(c.name = "set_up" /\ ~c.up /\ c.itf = "STA") IN
           /\ todo = <<>>
           /\ IsSeries(todo')
           /\ Asked(todo') = (IF bringUp THEN Asked(BringUp) ELSE {}) \cup Asked(Requests(c))
<1> DEFINE bringUp == ~on /\ ~(c.name = "set_up" /\ ~c.up /\ c.itf = "STA")
           first == IF bringUp THEN BringUp ELSE <<>>
<1>1. todo' = first \o Requests(c) /\ todo = <<>>  BY DEF Call, TypesInv, TypeOK
<1>2. IsSeries(first) /\ Asked(first) = IF bringUp THEN Asked(BringUp) ELSE {}
  BY AskedBringUp, AskedNone
<1> HIDE DEF first, bringUp
<1>3. QED  BY <1>1, <1>2, AskedBoth, AskedRequests DEF bringUp

LEMMA TypesCall ==
    ASSUME TypesInv, NEW c \in Calls, Call(c)
    PROVE  TypesInv'
<1>1. /\ busy' = TRUE /\ call' = c /\ on' \in BOOLEAN
      /\ failed' = 0 /\ wasUp' \in BOOLEAN
      /\ UNCHANGED <<itfs, ap, told, chip, clm, faults, missed>>
  BY DEF Call, chipVars, TypesInv, TypeOK
<1>2. IsSeries(todo') /\ \A r \in Asked(todo') : Known(r)
  BY CallAsks, BringUpKnown, RequestsKnown
<1>3. \A i \in DOMAIN todo' : todo'[i].op \in {"set", "get"}
  BY <1>2, KnownOp DEF Asked
<1>4. pmSent' \in PmWords \cup {DefaultPm, Nothing}
  <2>1. pmSent' \in {DefaultPm, pmSent} \/ (c.name = "pm" /\ pmSent' = c.word)  BY DEF Call
  <2>2. c.name = "pm" => c.word \in PmWords  BY DEF Calls
  <2>3. QED  BY <2>1, <2>2 DEF TypesInv, TypeOK
<1>5. TypeOK'
  <2>1. failed' \in 0 .. faults'  BY <1>1, SettingsAssumption DEF TypesInv, TypeOK, SettingsAssumption
  <2>2. QED  BY <1>1, <1>3, <1>4, <2>1 DEF TypesInv, TypeOK
<1>6. QED  BY <1>1, <1>2, <1>5 DEF TypesInv, IsSeries, Asked, Known

\* An ioctl, whatever becomes of it.
LEMMA GoAsks ==
    ASSUME IsSeries(todo), todo # <<>>, NEW value, Go(Head(todo), value)
    PROVE  /\ IsSeries(todo') /\ Head(todo) \in Asked(todo)
           /\ Asked(todo) = {Head(todo)} \cup Asked(Tail(todo))
           /\ Asked(todo') = Asked(Added(Head(todo), value)) \cup Asked(Tail(todo))
<1>1. todo' = Added(Head(todo), value) \o Tail(todo)  BY NextAdds DEF Go
<1>2. QED  BY <1>1, AskedRest, AskedAdded, AskedBoth

LEMMA GoTypes ==
    ASSUME TypesInv, todo # <<>>, NEW value, Go(Head(todo), value)
    PROVE  /\ UNCHANGED <<on, itfs, ap, busy, call, out>> /\ busy = TRUE
           /\ IsSeries(todo') /\ (\A r \in Asked(todo') : Known(r))
           /\ \A i \in DOMAIN todo' : todo'[i].op \in {"set", "get"}
           /\ DOMAIN told' \subseteq Gets
<1> DEFINE r == Head(todo)
<1>1. /\ UNCHANGED <<on, itfs, ap, busy, call, out>>
      /\ DOMAIN told' = IF r.op = "get" THEN DOMAIN told \cup {r.what} ELSE DOMAIN told
  BY DEF Go
<1>2. busy = TRUE  BY DEF TypesInv, TypeOK
<1>3. IsSeries(todo') /\ r \in Asked(todo) /\ Asked(todo) = {r} \cup Asked(Tail(todo))
      /\ Asked(todo') = Asked(Added(r, value)) \cup Asked(Tail(todo))
  BY GoAsks DEF TypesInv
<1>4. Known(r)  BY <1>3 DEF TypesInv
<1> HIDE DEF r
<1>5. \A q \in Asked(todo') : Known(q)  BY <1>3, <1>4, AddedKnown DEF TypesInv
<1>6. \A i \in DOMAIN todo' : todo'[i].op \in {"set", "get"}  BY <1>5, KnownOp DEF Asked
<1>7. DOMAIN told' \subseteq Gets
  <2>1. DOMAIN told \subseteq Gets  BY DEF TypesInv, TypeOK, Gets
  <2>2. QED  BY <1>1, <1>4, <2>1, KnownOp
<1>8. QED  BY <1>1, <1>2, <1>3, <1>5, <1>6, <1>7

LEMMA StoreTypes ==
    ASSUME TypesInv, NEW r, Known(r), r.op = "set", Store(r)
    PROVE  clm' \in Seq(Parts) /\ DOMAIN chip' = Names
<1>1. CASE r.what = "clmload"
  <2>1. r.value \in Parts  BY <1>1, KnownOp, KnownChunk DEF Set
  <2>2. clm' = Append(clm, r.value) /\ chip' = chip  BY <1>1 DEF Store
  <2>3. QED  BY <2>1, <2>2 DEF TypesInv, TypeOK
<1>2. CASE r.what # "clmload"
  BY <1>2 DEF Store, TypesInv, TypeOK
<1>3. QED  BY <1>1, <1>2

\* What TypeOK says of the chip's chunks.
LEMMA PartsTyped ==
    ASSUME NEW s \in Seq(Parts)
    PROVE  \A i \in DOMAIN s : s[i].from \in 0 .. ClmLen - 1 /\ s[i].to \in 1 .. ClmLen
BY DEF Parts

LEMMA TypesDone ==
    ASSUME TypesInv, Done
    PROVE  TypesInv'
<1> DEFINE r == Head(todo)
<1>1. /\ todo # <<>>
      /\ IF r.op = "set" THEN Store(r) ELSE UNCHANGED chipVars
      /\ Go(r, Answer(r))
      /\ missed' \subseteq missed
      /\ UNCHANGED <<faults, failed, wasUp, pmSent>>
  BY DEF Done
<1>2. Known(r)  BY <1>1, GoAsks DEF TypesInv
<1>3. /\ UNCHANGED <<on, itfs, ap, busy, call, out>> /\ busy = TRUE
      /\ IsSeries(todo') /\ (\A q \in Asked(todo') : Known(q))
      /\ \A i \in DOMAIN todo' : todo'[i].op \in {"set", "get"}
      /\ DOMAIN told' \subseteq Gets
  BY <1>1, GoTypes
<1> HIDE DEF r
<1>4. clm' \in Seq(Parts) /\ DOMAIN chip' = Names
  BY <1>1, <1>2, StoreTypes DEF TypesInv, TypeOK, chipVars
<1>5. \A i \in DOMAIN clm' : clm'[i].from \in 0 .. ClmLen - 1 /\ clm'[i].to \in 1 .. ClmLen
  BY <1>4, PartsTyped
<1>6. TypeOK'  BY <1>1, <1>3, <1>4, <1>5 DEF TypesInv, TypeOK, Gets
<1>7. QED  BY <1>3, <1>4, <1>6 DEF TypesInv, IsSeries, Asked, Known

\* What becomes of the chip and of the driver when an ioctl goes wrong.
LEMMA FailSays ==
    ASSUME Fail
    PROVE  /\ todo # <<>> /\ faults < MaxFaults
           /\ \E value : Go(Head(todo), value)
           /\ UNCHANGED chipVars \/ (Head(todo).op = "set" /\ Store(Head(todo)))
           /\ missed' = IF Head(todo).op = "set" THEN missed \cup {Head(todo).what} ELSE missed
           /\ pmSent' = IF Head(todo).op = "set" /\ Head(todo).what \in PmNames THEN Nothing
                        ELSE pmSent
           /\ faults' = faults + 1 /\ failed' = failed + 1 /\ wasUp' = wasUp
BY Zenon DEF Fail

LEMMA TypesFail ==
    ASSUME TypesInv, Fail
    PROVE  TypesInv'
<1> DEFINE r == Head(todo)
<1>1. PICK value : Go(r, value)  BY FailSays, Zenon
<1>2. /\ todo # <<>> /\ faults < MaxFaults
      /\ UNCHANGED chipVars \/ (r.op = "set" /\ Store(r))
      /\ missed' = IF r.op = "set" THEN missed \cup {r.what} ELSE missed
      /\ pmSent' \in {Nothing, pmSent}
      /\ faults' = faults + 1 /\ failed' = failed + 1 /\ wasUp' = wasUp
  BY FailSays
<1>3. Known(r)  BY <1>1, <1>2, GoAsks DEF TypesInv
<1>4. /\ UNCHANGED <<on, itfs, ap, busy, call, out>> /\ busy = TRUE
      /\ IsSeries(todo') /\ (\A q \in Asked(todo') : Known(q))
      /\ \A i \in DOMAIN todo' : todo'[i].op \in {"set", "get"}
      /\ DOMAIN told' \subseteq Gets
  BY <1>1, <1>2, GoTypes
<1> HIDE DEF r
<1>5. clm' \in Seq(Parts) /\ DOMAIN chip' = Names
  BY <1>2, <1>3, StoreTypes DEF TypesInv, TypeOK, chipVars
<1>6. \A i \in DOMAIN clm' : clm'[i].from \in 0 .. ClmLen - 1 /\ clm'[i].to \in 1 .. ClmLen
  BY <1>5, PartsTyped
<1>7. missed' \subseteq Names \cup {"clmload"}  BY <1>2, <1>3, KnownOp DEF TypesInv, TypeOK
<1>8. faults' \in 0 .. MaxFaults /\ failed' \in 0 .. faults'
  BY <1>2, SettingsAssumption DEF TypesInv, TypeOK, SettingsAssumption
<1>9. wasUp' \in BOOLEAN /\ pmSent' \in PmWords \cup {DefaultPm, Nothing}
  BY <1>2 DEF TypesInv, TypeOK
<1>10. TypeOK'  BY <1>4, <1>5, <1>6, <1>7, <1>8, <1>9 DEF TypesInv, TypeOK, Gets
<1>11. QED  BY <1>4, <1>5, <1>10 DEF TypesInv, IsSeries, Asked, Known

\* One note made, and the notes of a driver that has just started.
LEMMA NoteTyped ==
    ASSUME NEW notes \in ApNotes, NEW config \in ApNotes, NEW field \in DOMAIN notes
    PROVE  [notes EXCEPT ![field] = config[field]] \in ApNotes
BY DEF ApNotes

LEMMA InitTyped ==
    ASSUME NEW auth \in {"open", "tkip", "aes"}
    PROVE  InitAp(auth) \in ApNotes
<1>1. 3 \in 1 .. 14  OBVIOUS
<1>2. QED  BY <1>1 DEF InitAp, ApNotes

LEMMA TypesRest ==
    ASSUME TypesInv, ApNoted \/ Deinit \/ Return \/ UNCHANGED vars
    PROVE  TypesInv'
<1>1. UNCHANGED todo /\ (clm' = clm \/ clm' = <<>>)
  BY DEF ApNoted, SetAp, Deinit, Return, vars, driver, chipVars, history
<1>2. clm' \in Seq(Parts)
  <2>1. clm \in Seq(Parts) /\ <<>> \in Seq(Parts)  BY DEF TypesInv
  <2>2. QED  BY <1>1, <2>1, Zenon
<1>3. \A i \in DOMAIN clm' : clm'[i].from \in 0 .. ClmLen - 1 /\ clm'[i].to \in 1 .. ClmLen
  BY <1>2, PartsTyped
<1>4. IsSeries(todo)' /\ (\A r \in Asked(todo) : Known(r))'
  BY <1>1 DEF TypesInv, IsSeries, Asked, Known
<1>5. TypeOK'
  <2>1. CASE ApNoted
    <3>1. ap' \in ApNotes
      <4>1. PICK config \in ApConfigs, field \in DOMAIN ap : SetAp(config, field)
        BY <2>1 DEF ApNoted
      <4>2. config \in ApNotes  BY SettingsAssumption DEF SettingsAssumption, ApNotes
      <4>3. ap' = [ap EXCEPT ![field] = config[field]]  BY <4>1 DEF SetAp
      <4>4. QED  BY <4>2, <4>3, NoteTyped DEF TypesInv, TypeOK
    <3>2. /\ UNCHANGED <<on, itfs, busy, todo, told, out, chip, clm, faults, failed, missed,
                         wasUp, pmSent>>
          /\ call' = [name |-> "ap_set"]
      BY <2>1 DEF ApNoted, SetAp, chipVars, history
    <3>3. QED  BY <3>1, <3>2, <1>3 DEF TypesInv, TypeOK
  <2>2. CASE Deinit
    <3>1. DOMAIN Off = Names  BY DEF Off
    <3>2. 0 \in 0 .. MaxFaults /\ 0 \in 0 .. 0  BY SettingsAssumption DEF SettingsAssumption
    <3>3. InitAp(ap.auth) \in ApNotes  BY InitTyped DEF TypesInv, TypeOK, ApNotes
    <3>4. QED  BY <2>2, <3>1, <3>2, <3>3, <1>3 DEF Deinit, TypesInv, TypeOK
  <2>3. CASE Return
    <3>2. itfs' \subseteq Itf
      <4>1. call.name = "set_up" => call \in Calls
        BY DEF TypesInv, TypeOK
      <4>2. call.name = "set_up" => call.itf \in Itf  BY <4>1 DEF Calls
      <4>3. QED  BY <2>3, <4>2 DEF Return, TypesInv, TypeOK
    <3>3. DOMAIN <<>> = {}  OBVIOUS
    <3>4. QED  BY <2>3, <3>2, <3>3, <1>3 DEF Return, TypesInv, TypeOK, chipVars, history
  <2>4. CASE UNCHANGED vars
    BY <2>4, <1>3 DEF TypesInv, TypeOK, vars, driver, chipVars, history
  <2>5. QED  BY <2>1, <2>2, <2>3, <2>4
<1>6. QED  BY <1>2, <1>4, <1>5 DEF TypesInv

LEMMA TypesInit == Init => TypesInv
<1> SUFFICES ASSUME Init PROVE TypesInv  OBVIOUS
<1>1. DOMAIN <<>> = {} /\ <<>> \in Seq(Parts) /\ DOMAIN Off = Names  BY DEF Off
<1>2. 0 \in 0 .. MaxFaults /\ 0 \in 0 .. 0  BY SettingsAssumption DEF SettingsAssumption
<1>3. InitAp("open") \in ApNotes  BY InitTyped
<1>4. TypeOK  BY <1>1, <1>2, <1>3 DEF Init, TypeOK
<1>5. QED  BY <1>1, <1>4, AskedNone DEF Init, TypesInv

LEMMA TypesNext == TypesInv /\ [Next]_vars => TypesInv'
BY TypesCall, TypesDone, TypesFail, TypesRest DEF Next, ApNoted

\* Every state is of the types that TypeOK states; in particular every request
\* is one that the chip knows.
THEOREM SettingsTypes == Spec => []TypeOK
<1>1. TypesInv => TypeOK  BY DEF TypesInv
<1>2. QED  BY <1>1, TypesInit, TypesNext, PTL DEF Spec

-----------------------------------------------------------------------------
(* The settings that an open interface relies on.                          *)

\* A set of what is still to come.
Coming(what, asked) == \E r \in asked : r.op = "set" /\ r.what = what

\* What cyw43_ll_bus_init sets; the rest of the baseline is set for the first interface.
BringUpNames == {"txglom", "apsta", "cur_etheraddr"}

OpeningFirst == itfs = {} /\ busy /\ call.name = "set_up" /\ call.up

Relied(what) == itfs # {} \/ OpeningFirst \/ (on /\ what \in BringUpNames)

\* Whatever is relied on is in the chip, or is set before the first interface counts
\* as open; and no request that is to come sets it to anything else.
BaselineInv ==
    /\ \A r \in Asked(todo) :
          r.op = "set" /\ r.what \in DOMAIN Baseline => r.value \in Baseline[r.what]
    /\ itfs # {} \/ OpeningFirst => on
    /\ \A what \in DOMAIN Baseline \ missed :
          Relied(what) => \/ chip[what] \in Baseline[what]
                          \/ itfs = {} /\ Coming(what, Asked(todo))

LEMMA BaselineNames ==
    /\ DOMAIN Baseline \subseteq Names
    /\ "bss" \notin DOMAIN Baseline /\ "clmload" \notin DOMAIN Baseline
    /\ DOMAIN Baseline \cap (PmNames \cup ApNames) = {}
BY DEF Baseline, Names, PmNames, ApNames

\* Which values a series of requests sets.
Keeps(asked) ==
    \A r \in asked : r.op = "set" /\ r.what \in DOMAIN Baseline => r.value \in Baseline[r.what]

LEMMA WifiOnKeeps == Keeps(Asked(WifiOn))
BY AskedWifiOn DEF Keeps, Baseline, Set

LEMMA WifiPmKeeps ==
    ASSUME NEW v
    PROVE  Keeps(Asked(WifiPm(v)))
<1>1. /\ "gmode" \in DOMAIN Baseline /\ Baseline["gmode"] = {"auto"}
      /\ "band" \in DOMAIN Baseline /\ Baseline["band"] = {"any"}
  BY DEF Baseline
<1>2. \A what \in PmNames : what \notin DOMAIN Baseline  BY BaselineNames
<1>3. {"pm2_sleep_ret", "bcn_li_bcn", "bcn_li_dtim", "assoc_listen", "pm"} = PmNames
  BY DEF PmNames
<1>4. QED  BY <1>1, <1>2, <1>3, AskedWifiPm DEF Keeps, Set

LEMMA BringUpKeeps == Keeps(Asked(BringUp))
BY AskedBringUp DEF Keeps, AfterDownload, Baseline, Set, Get

LEMMA ApConfigurationKeeps ==
    ASSUME NEW config
    PROVE  Keeps(Asked(ApConfiguration(config)))
<1>1. "ampdu_ba_wsize" \in DOMAIN Baseline /\ Baseline["ampdu_ba_wsize"] = {2, 8}
      /\ {"ap_gmode", "2g_mrate", "dtimprd"} \cap DOMAIN Baseline = {}
  BY DEF Baseline
<1>2. \A what \in ApNames : what \notin DOMAIN Baseline  BY BaselineNames
<1>3. Keeps(Asked(ApSecurity(config)))
  <2>1. {"ap_wsec", "ap_wpa_auth", "ap_pmk"} \subseteq ApNames  BY DEF ApNames
  <2>2. QED  BY <1>2, <2>1, AskedApSecurity DEF Keeps, Set
<1>4. Keeps({Set("ampdu_ba_wsize", 2), Set("ap_ssid", config.ssid),
             Set("channel", config.channel)})
  <2>1. {"ap_ssid", "channel"} \subseteq ApNames  BY DEF ApNames
  <2>2. QED  BY <1>1, <1>2, <2>1 DEF Keeps, Set
<1>5. Keeps({Set("ap_gmode", "auto"), Set("2g_mrate", 22), Set("dtimprd", 1)})
  BY <1>1 DEF Keeps, Set
<1>6. QED  BY <1>3, <1>4, <1>5, AskedApConfiguration DEF Keeps

LEMMA RequestsKeep ==
    ASSUME NEW c \in Calls
    PROVE  Keeps(Asked(Requests(c)))
<1>1. Keeps(AskedFor(c))
  <2>1. CASE c.name = "set_up"  BY <2>1, BaselineNames DEF AskedFor, Keeps, Set, Get
  <2>2. CASE c.name = "pm"  BY <2>2, WifiPmKeeps DEF AskedFor
  <2>4. CASE c.name \in {"get_pm", "get_stas", "get_max_stas"}
    <3>1. \A r \in AskedFor(c) : \E what : r = Get(what)  BY <2>4 DEF AskedFor
    <3>2. QED  BY <3>1 DEF Keeps, Get
  <2>5. QED  BY <2>1, <2>2, <2>4 DEF Calls
<1>2. QED  BY <1>1, AskedRequests, WifiOnKeeps, WifiPmKeeps DEF Keeps

\* The first interface sets all that a bring-up does not.
LEMMA OpeningSets ==
    ASSUME NEW v, NEW what \in DOMAIN Baseline \ BringUpNames
    PROVE  Coming(what, Asked(WifiOn) \cup Asked(WifiPm(v)))
<1>1. what \in {"country", "antdiv", "ampdu_ba_wsize", "ampdu_mpdu", "ampdu_rx_factor",
                "event_msgs", "mcast_list", "up", "gmode", "band"}
  BY DEF Baseline, BringUpNames
<1>2. CASE what \in {"gmode", "band"}
  <2>1. \E r \in Asked(WifiPm(v)) : r.op = "set" /\ r.what = what
    <3>1. Set("gmode", "auto") \in Asked(WifiPm(v)) /\ Set("band", "any") \in Asked(WifiPm(v))
      BY AskedWifiPm, Zenon
    <3>2. QED  BY <1>2, <3>1 DEF Set
  <2>2. QED  BY <2>1 DEF Coming
<1>3. CASE what \notin {"gmode", "band"}
  <2>1. \E r \in Asked(WifiOn) : r.op = "set" /\ r.what = what
    BY <1>1, <1>3, AskedWifiOn DEF Set
  <2>2. QED  BY <2>1 DEF Coming
<1>4. QED  BY <1>2, <1>3

LEMMA BringUpSets ==
    ASSUME NEW what \in BringUpNames
    PROVE  Coming(what, Asked(BringUp))
<1>1. \E r \in Asked(BringUp) : r.op = "set" /\ r.what = what
  BY AskedBringUp DEF BringUpNames, AfterDownload, Set
<1>2. QED  BY <1>1 DEF Coming

LEMMA AddedKeeps ==
    ASSUME NEW r, NEW value, Known(r)
    PROVE  Keeps(Asked(Added(r, value)))
<1>1. CASE r.what = "clmload"
  BY <1>1, AskedAdded, BaselineNames DEF Keeps, Set
<1>2. CASE r.what # "clmload"
  <2>1. Added(r, value) \in {ApConfiguration(ap), <<>>}  BY <1>2 DEF Added
  <2>2. QED  BY <2>1, AskedNone, ApConfigurationKeeps DEF Keeps
<1>3. QED  BY <1>1, <1>2

LEMMA BaselineCall ==
    ASSUME TypesInv, BaselineInv, NEW c \in Calls, Call(c)
    PROVE  BaselineInv'
<1> DEFINE bringUp == ~on /\ ~(c.name = "set_up" /\ ~c.up /\ c.itf = "STA")
           opens == itfs = {} /\ c.name = "set_up" /\ c.up
<1>1. /\ busy' = TRUE /\ call' = c /\ on' = (on \/ bringUp) /\ ~busy
      /\ UNCHANGED <<itfs, chip, missed>>
  BY DEF Call, chipVars
<1>2. /\ todo = <<>>
      /\ Asked(todo') = (IF bringUp THEN Asked(BringUp) ELSE {}) \cup Asked(Requests(c))
  BY CallAsks
<1>3. Keeps(Asked(todo'))  BY <1>2, BringUpKeeps, RequestsKeep DEF Keeps
<1>4. OpeningFirst' <=> opens
  BY <1>1 DEF OpeningFirst
<1>5. opens => on'  BY <1>1
<1>6. itfs' # {} => on'  BY <1>1 DEF BaselineInv
<1>7. \A what : ~Coming(what, Asked(todo))  BY <1>2, AskedNone DEF Coming
<1>8. ASSUME NEW what \in DOMAIN Baseline \ missed, Relied(what)'
      PROVE  chip[what] \in Baseline[what] \/ (itfs = {} /\ Coming(what, Asked(todo')))
  <2>1. CASE itfs # {}
    BY <1>7, <2>1 DEF BaselineInv, Relied
  <2>2. CASE itfs = {} /\ opens /\ what \notin BringUpNames
    <3>1. Coming(what, Asked(WifiOn) \cup Asked(WifiPm(DefaultPm)))  BY <2>2, OpeningSets
    <3>2. Asked(WifiOn) \cup Asked(WifiPm(DefaultPm)) \subseteq Asked(todo')
      BY <1>2, <2>2, AskedRequests DEF Opens
    <3>3. QED  BY <2>2, <3>1, <3>2 DEF Coming
  <2>3. CASE itfs = {} /\ what \in BringUpNames /\ bringUp
    BY <1>2, <2>3, BringUpSets DEF Coming
  <2>4. CASE itfs = {} /\ what \in BringUpNames /\ ~bringUp
    <3>1. on'  BY <1>1, <1>4, <1>5, <1>8, <2>4 DEF Relied
    <3>2. on  BY <1>1, <2>4, <3>1
    <3>3. QED  BY <1>7, <2>4, <3>2 DEF BaselineInv, Relied
  <2>5. QED  BY <1>1, <1>4, <1>8, <2>1, <2>2, <2>3, <2>4 DEF Relied
<1>9. QED  BY <1>1, <1>3, <1>4, <1>5, <1>6, <1>8 DEF BaselineInv, Keeps, Coming, Asked

\* An ioctl leaves what is relied on in the chip or still to come.
LEMMA BaselineIoctl ==
    ASSUME TypesInv, BaselineInv, todo # <<>>, NEW value, Go(Head(todo), value),
           \/ UNCHANGED chipVars
           \/ Head(todo).op = "set" /\ Store(Head(todo)),
           \A what \in DOMAIN Baseline \ missed' :
              IF Head(todo).op = "set" /\ Head(todo).what = what
              THEN Store(Head(todo)) ELSE what \notin missed
    PROVE  BaselineInv'
<1> DEFINE r == Head(todo)
<1>1. IsSeries(todo') /\ r \in Asked(todo) /\ Asked(todo) = {r} \cup Asked(Tail(todo))
      /\ Asked(todo') = Asked(Added(r, value)) \cup Asked(Tail(todo))
  BY GoAsks DEF TypesInv
<1>2. Known(r)  BY <1>1 DEF TypesInv
<1>3. Keeps(Asked(todo'))  BY <1>1, <1>2, AddedKeeps DEF BaselineInv, Keeps
<1>4. UNCHANGED <<on, itfs, call, busy>>  BY DEF Go
<1>5. UNCHANGED OpeningFirst /\ \A what : Relied(what)' <=> Relied(what)
  BY <1>4 DEF OpeningFirst, Relied
<1>6. ASSUME NEW what \in DOMAIN Baseline \ missed', Relied(what)
      PROVE  chip'[what] \in Baseline[what] \/ (itfs = {} /\ Coming(what, Asked(todo')))
  <2>1. CASE r.op = "set" /\ r.what = what
    <3>1. Store(r)  BY <1>6, <2>1
    <3>2. what \in DOMAIN chip /\ what # "clmload"
      BY BaselineNames DEF TypesInv, TypeOK
    <3>3. chip'[what] = r.value  BY <2>1, <3>1, <3>2 DEF Store
    <3>4. r.value \in Baseline[what]  BY <1>1, <2>1 DEF BaselineInv
    <3>5. QED  BY <3>3, <3>4
  <2>2. CASE ~(r.op = "set" /\ r.what = what)
    <3>1. what \notin missed  BY <1>6, <2>2
    <3>2. chip'[what] = chip[what]
      <4>1. what \in DOMAIN chip  BY BaselineNames DEF TypesInv, TypeOK
      <4>2. QED  BY <2>2, <4>1 DEF Store, chipVars
    <3>3. Coming(what, Asked(todo)) => Coming(what, Asked(todo'))
      BY <1>1, <2>2 DEF Coming
    <3>4. QED  BY <1>6, <3>1, <3>2, <3>3 DEF BaselineInv
  <2>3. QED  BY <2>1, <2>2
<1>7. QED  BY <1>3, <1>4, <1>5, <1>6 DEF BaselineInv, Keeps, Coming, Asked

LEMMA BaselineDone ==
    ASSUME TypesInv, BaselineInv, Done
    PROVE  BaselineInv'
<1> DEFINE r == Head(todo)
<1>1. /\ todo # <<>>
      /\ IF r.op = "set" THEN Store(r) ELSE UNCHANGED chipVars
      /\ Go(r, Answer(r))
      /\ missed' = IF r.op = "set" /\ r.what # "clmload" THEN missed \ {r.what} ELSE missed
  BY DEF Done
<1>2. \A what \in DOMAIN Baseline \ missed' :
         IF r.op = "set" /\ r.what = what THEN Store(r) ELSE what \notin missed
  BY <1>1
<1>3. QED  BY <1>1, <1>2, BaselineIoctl DEF chipVars

LEMMA BaselineFail ==
    ASSUME TypesInv, BaselineInv, Fail
    PROVE  BaselineInv'
<1> DEFINE r == Head(todo)
<1>2. PICK value : Go(r, value)  BY FailSays, Zenon
<1>3. /\ todo # <<>>
      /\ UNCHANGED chipVars \/ (r.op = "set" /\ Store(r))
      /\ missed' = IF r.op = "set" THEN missed \cup {r.what} ELSE missed
  BY FailSays
<1>4. \A what \in DOMAIN Baseline \ missed' :
         IF r.op = "set" /\ r.what = what THEN Store(r) ELSE what \notin missed
  BY <1>3
<1>5. QED  BY <1>2, <1>3, <1>4, BaselineIoctl

LEMMA BaselineRest ==
    ASSUME TypesInv, BaselineInv,
           ApNoted \/ Deinit \/ Return \/ UNCHANGED vars
    PROVE  BaselineInv'
<1>1. CASE ApNoted \/ UNCHANGED vars
  <2>1. UNCHANGED <<on, itfs, todo, busy, chip, missed>> /\ (~busy \/ UNCHANGED call)
    BY <1>1 DEF ApNoted, SetAp, vars, driver, chipVars, history
  <2>2. UNCHANGED OpeningFirst  BY <2>1 DEF OpeningFirst
  <2>3. QED  BY <2>1, <2>2 DEF BaselineInv, Relied, Coming, Asked
<1>2. CASE Deinit
  <2>1. itfs' = {} /\ on' = FALSE /\ busy' = FALSE /\ todo' = todo  BY <1>2 DEF Deinit
  <2>2. QED  BY <2>1 DEF BaselineInv, Relied, OpeningFirst, Coming, Asked
<1>3. CASE Return
  <2>1. /\ UNCHANGED <<on, todo, chip, missed>> /\ busy /\ ~busy' /\ todo = <<>>
        /\ itfs' = IF call.name = "set_up" /\ call.up THEN itfs \cup {call.itf} ELSE itfs
    BY <1>3 DEF Return, chipVars, history
  <2>2. \A what : ~Coming(what, Asked(todo))  BY <2>1, AskedNone DEF Coming
  <2>3. itfs' # {} => itfs # {} \/ OpeningFirst  BY <2>1 DEF OpeningFirst
  <2>4. ~OpeningFirst'  BY <2>1 DEF OpeningFirst
  <2>5. \A what : Relied(what)' => Relied(what)  BY <2>1, <2>3, <2>4 DEF Relied
  <2>6. \A what \in DOMAIN Baseline \ missed' : Relied(what)' => chip'[what] \in Baseline[what]
    BY <2>1, <2>2, <2>5 DEF BaselineInv
  <2>7. QED  BY <2>1, <2>3, <2>4, <2>6 DEF BaselineInv, Asked
<1>4. QED  BY <1>1, <1>2, <1>3

LEMMA BaselineNext == TypesInv /\ BaselineInv /\ [Next]_vars => BaselineInv'
BY BaselineCall, BaselineDone, BaselineFail, BaselineRest DEF Next, ApNoted

LEMMA BaselineInit == Init => BaselineInv
BY AskedNone DEF Init, BaselineInv, Relied, OpeningFirst, Coming

\* Whichever interface is the first to open, and whatever calls came before or fail, an
\* open interface means a configured chip, but for settings whose last ioctl went wrong.
THEOREM OpenMeansConfigured == Spec => []BaselineHolds
<1>1. BaselineInv => BaselineHolds
  BY DEF BaselineInv, BaselineHolds, Relied
<1>2. QED  BY <1>1, TypesInit, TypesNext, BaselineInit, BaselineNext, PTL DEF Spec

-----------------------------------------------------------------------------
(* Series that end in a known way.                                         *)

LEMMA EndsIn ==
    ASSUME NEW pre, NEW last, IsSeries(pre), IsSeries(last)
    PROVE  /\ pre = <<>> => pre \o last = last
           /\ pre # <<>> => /\ pre \o last # <<>> /\ Head(pre \o last) = Head(pre)
                            /\ Tail(pre \o last) = Tail(pre) \o last
           /\ last # <<>> => pre \o last # <<>>
           /\ pre \o <<>> = pre
<1>1. PICK S : pre \in Seq(S)  BY DEF IsSeries
<1>2. PICK T : last \in Seq(T)  BY DEF IsSeries
<1> DEFINE U == S \cup T
<1>3. pre \in Seq(U) /\ last \in Seq(U)  BY <1>1, <1>2
<1> HIDE DEF U
<1> DEFINE s == pre \o last
<1>4. /\ s \in Seq(U) /\ Len(s) = Len(pre) + Len(last)
      /\ \A i \in 1 .. Len(pre) + Len(last) : s[i] = IF i <= Len(pre) THEN pre[i] ELSE last[i - Len(pre)]
  BY <1>3, ConcatProperties, Zenon
<1>5. pre = <<>> => s = last  BY <1>3
<1>6. pre \o <<>> = pre  BY <1>3
<1> HIDE DEF s
<1>7. Len(pre) \in Nat /\ Len(last) \in Nat /\ Len(s) \in Nat  BY <1>3, <1>4
<1>8. last # <<>> => s # <<>>
  <2>1. last # <<>> => Len(last) # 0  BY <1>3
  <2>2. Len(s) # 0 => s # <<>>  BY <1>4
  <2>3. QED  BY <1>4, <1>7, <2>1, <2>2
<1>9. ASSUME pre # <<>>
      PROVE  s # <<>> /\ Head(s) = Head(pre) /\ Tail(s) = Tail(pre) \o last
  <2>1. Len(pre) # 0 /\ Head(pre) = pre[1] /\ Tail(pre) \in Seq(U) /\ Len(Tail(pre)) = Len(pre) - 1
        /\ \A i \in 1 .. Len(pre) - 1 : Tail(pre)[i] = pre[i + 1]
    BY <1>3, <1>9
  <2>2. Len(s) # 0 /\ s # <<>> /\ Head(s) = s[1] /\ Tail(s) \in Seq(U) /\ Len(Tail(s)) = Len(s) - 1
        /\ \A i \in 1 .. Len(s) - 1 : Tail(s)[i] = s[i + 1]
    <3>1. Len(s) # 0  BY <1>4, <1>7, <2>1
    <3>2. s # <<>>  BY <1>4, <3>1
    <3>3. QED  BY <1>4, <3>1, <3>2
  <2>3. Head(s) = Head(pre)
    <3>1. 1 \in 1 .. Len(pre) + Len(last) /\ 1 <= Len(pre)  BY <1>7, <2>1
    <3>2. QED  BY <1>4, <2>1, <2>2, <3>1
  <2> DEFINE p == Tail(pre)
             q == Tail(s)
             t == p \o last
  <2>4. /\ t \in Seq(U) /\ Len(t) = Len(p) + Len(last)
        /\ \A i \in 1 .. Len(p) + Len(last) : t[i] = IF i <= Len(p) THEN p[i] ELSE last[i - Len(p)]
    BY <1>3, <2>1, ConcatProperties, Zenon
  <2> HIDE DEF p, q, t
  <2>5. Len(q) = Len(t)  BY <1>4, <1>7, <2>1, <2>2, <2>4 DEF p, q
  <2>6. ASSUME NEW i \in 1 .. Len(t)
        PROVE  q[i] = t[i]
    <3>1. /\ i \in 1 .. Len(s) - 1 /\ i + 1 \in 1 .. Len(pre) + Len(last)
          /\ i \in 1 .. Len(p) + Len(last) /\ (i + 1) - Len(pre) = i - Len(p)
          /\ (i + 1 <= Len(pre) <=> i <= Len(p))
          /\ (i <= Len(p) => i \in 1 .. Len(pre) - 1)
      BY <1>4, <1>7, <2>1, <2>4 DEF p
    <3>2. q[i] = s[i + 1]  BY <2>2, <3>1 DEF q
    <3>3. s[i + 1] = IF i + 1 <= Len(pre) THEN pre[i + 1] ELSE last[(i + 1) - Len(pre)]
      BY <1>4, <3>1
    <3>4. i <= Len(p) => p[i] = pre[i + 1]  BY <2>1, <3>1 DEF p
    <3>5. QED  BY <2>4, <3>1, <3>2, <3>3, <3>4
  <2>7. q = t
    <3>1. q \in Seq(U) /\ t \in Seq(U)  BY <2>2, <2>4 DEF q
    <3>2. QED  BY <2>5, <2>6, <3>1, SeqEqual
  <2>8. QED  BY <2>2, <2>3, <2>7 DEF q, t, p
<1>10. QED  BY <1>5, <1>6, <1>8, <1>9 DEF s

LEMMA Joined ==
    ASSUME NEW p, NEW q, NEW r, IsSeries(p), IsSeries(q), IsSeries(r)
    PROVE  p \o (q \o r) = (p \o q) \o r
<1>1. PICK P : p \in Seq(P)  BY DEF IsSeries
<1>2. PICK Q : q \in Seq(Q)  BY DEF IsSeries
<1>3. PICK R : r \in Seq(R)  BY DEF IsSeries
<1> DEFINE S == P \cup Q \cup R
<1>4. p \in Seq(S) /\ q \in Seq(S) /\ r \in Seq(S)  BY <1>1, <1>2, <1>3
<1> HIDE DEF S
<1>5. QED  BY <1>4

\* An ioctl before the end leaves the end.
LEMMA GoEnds ==
    ASSUME NEW pre, NEW last, IsSeries(pre), IsSeries(last), todo = pre \o last, pre # <<>>,
           NEW value, Go(Head(todo), value)
    PROVE  /\ Head(todo) = Head(pre) /\ Asked(pre) = {Head(todo)} \cup Asked(Tail(pre))
           /\ \E mid : /\ IsSeries(mid) /\ todo' = mid \o last
                       /\ Asked(mid) = Asked(Added(Head(todo), value)) \cup Asked(Tail(pre))
<1> DEFINE add == Added(Head(todo), value)
           mid == add \o Tail(pre)
<1>1. Head(todo) = Head(pre) /\ Tail(todo) = Tail(pre) \o last  BY EndsIn
<1>2. IsSeries(add)  BY AskedAdded
<1>3. IsSeries(Tail(pre)) /\ Asked(pre) = {Head(todo)} \cup Asked(Tail(pre))
  BY <1>1, AskedRest
<1>4. todo' = add \o Tail(todo)  BY NextAdds DEF Go
<1> HIDE DEF add
<1>5. todo' = mid \o last
  <2> DEFINE rest == Tail(pre)
  <2>1. IsSeries(rest) /\ Tail(todo) = rest \o last  BY <1>1, <1>3
  <2> HIDE DEF rest
  <2>2. add \o (rest \o last) = (add \o rest) \o last  BY <1>2, <2>1, Joined
  <2>3. todo' = (add \o rest) \o last  BY <1>4, <2>1, <2>2, Zenon
  <2>4. QED  BY <2>3 DEF rest
<1>6. IsSeries(mid) /\ Asked(mid) = Asked(add) \cup Asked(Tail(pre))  BY <1>2, <1>3, AskedBoth
<1> HIDE DEF mid
<1>7. \E m : IsSeries(m) /\ todo' = m \o last /\ Asked(m) = Asked(add) \cup Asked(Tail(pre))
  BY <1>5, <1>6
<1>8. QED  BY <1>1, <1>3, <1>7 DEF add

-----------------------------------------------------------------------------
(* The access point.                                                       *)

OpensAp == call = [name |-> "set_up", itf |-> "AP", up |-> TRUE]

\* Requests that do not touch the access point.
Quiet(asked) == \A r \in asked : r.what # "bss" /\ ~(r.op = "set" /\ r.what \in ApNames)

\* What the setting of a running AP must be.
Wants(what, value) ==
    /\ what = "ap_ssid" => value = ap.ssid
    /\ what = "channel" => value = ap.channel
    /\ what = "ap_wsec" => value = ap.auth
    /\ ap.auth # "open" => /\ what = "ap_wpa_auth" => value = WpaAuth(ap.auth)
                           /\ what = "ap_pmk" => value = ap.key

\* Sets that configure the AP as the driver has it.
Configures(asked) ==
    \A r \in asked : r.op = "set" /\ r.what \notin {"bss", "clmload"} /\ Wants(r.what, r.value)

ApSeries == <<Get("bss"), Set("bss", 1)>>

\* The state of the AP is still to be read.
ToBeRead ==
    /\ OpensAp
    /\ \E pre : IsSeries(pre) /\ Quiet(Asked(pre)) /\ todo = pre \o ApSeries
    /\ failed = 0 => (wasUp <=> chip["bss"] = 1)

\* It was read, and the AP is being configured if it was down.
BeingConfigured ==
    /\ OpensAp
    /\ \E mid : /\ IsSeries(mid) /\ Configures(Asked(mid)) /\ todo = mid \o <<Set("bss", 1)>>
                /\ failed = 0 =>
                      /\ (\E r \in Asked(mid) : r.what \in ApNames) => chip["bss"] # 1
                      /\ ~wasUp => \A what \in ApNames :
                                      Wants(what, chip[what]) \/ Coming(what, Asked(mid))

BeingClosed ==
    /\ ~OpensAp
    /\ \E mid : IsSeries(mid) /\ Quiet(Asked(mid)) /\ todo = mid \o <<Set("bss", 0)>>

\* Nothing that is to come touches it.
Settled ==
    /\ Quiet(Asked(todo))
    /\ OpensAp /\ failed = 0 =>
          chip["bss"] = 1 /\ (~wasUp => \A what \in ApNames : Wants(what, chip[what]))

ApInv == ToBeRead \/ BeingConfigured \/ BeingClosed \/ Settled

LEMMA WantsIs == (\A what \in ApNames : Wants(what, chip[what])) => ApIs(ap)
<1>1. {"ap_ssid", "channel", "ap_wsec", "ap_wpa_auth", "ap_pmk"} \subseteq ApNames
  BY DEF ApNames
<1>2. QED  BY <1>1 DEF Wants, ApIs

LEMMA WifiOnQuiet == Quiet(Asked(WifiOn))
BY AskedWifiOn DEF Quiet, ApNames, Set

LEMMA WifiPmQuiet ==
    ASSUME NEW v
    PROVE  Quiet(Asked(WifiPm(v)))
BY AskedWifiPm DEF Quiet, ApNames, Set

LEMMA BringUpQuiet == Quiet(Asked(BringUp))
BY AskedBringUp DEF Quiet, AfterDownload, ApNames, Set, Get

\* Only opening and closing the AP touch it.
LEMMA RequestsQuiet ==
    ASSUME NEW c \in Calls, c.name = "set_up" => c.itf # "AP"
    PROVE  Quiet(Asked(Requests(c)))
<1>1. Quiet(AskedFor(c))
  <2>1. CASE c.name = "set_up"  BY <2>1 DEF AskedFor, Quiet
  <2>2. CASE c.name = "pm"  BY <2>2, WifiPmQuiet DEF AskedFor
  <2>3. CASE c.name = "get_pm"
    BY <2>3 DEF AskedFor, Quiet, Get, PmNames
  <2>4. CASE c.name \in {"get_stas", "get_max_stas"}
    BY <2>4 DEF AskedFor, Quiet, Get
  <2>5. QED  BY <2>1, <2>2, <2>3, <2>4 DEF Calls
<1>2. QED  BY <1>1, AskedRequests, WifiOnQuiet, WifiPmQuiet DEF Quiet

LEMMA AddedQuiet ==
    ASSUME NEW r, NEW value, r.what # "bss"
    PROVE  Quiet(Asked(Added(r, value)))
<1>1. CASE r.what = "clmload"
  BY <1>1, AskedAdded DEF Quiet, Set, ApNames
<1>2. CASE r.what # "clmload"
  <2>1. Added(r, value) = <<>>  BY <1>2, AskedAdded
  <2>2. QED  BY <2>1, AskedNone DEF Quiet
<1>3. QED  BY <1>1, <1>2

LEMMA ApConfigurationConfigures ==
    /\ Configures(Asked(ApConfiguration(ap)))
    /\ \A what \in ApNames : (\A value : Wants(what, value)) \/ Coming(what, Asked(ApConfiguration(ap)))
<1> DEFINE asked == Asked(ApConfiguration(ap))
<1>1. asked = {Set("ampdu_ba_wsize", 2), Set("ap_ssid", ap.ssid), Set("channel", ap.channel)}
              \cup Asked(ApSecurity(ap))
              \cup {Set("ap_gmode", "auto"), Set("2g_mrate", 22), Set("dtimprd", 1)}
  BY AskedApConfiguration
<1>2. Asked(ApSecurity(ap)) =
        {Set("ap_wsec", ap.auth)} \cup
        (IF ap.auth = "open" THEN {}
         ELSE {Set("ap_wpa_auth", WpaAuth(ap.auth)), Set("ap_pmk", ap.key)})
  BY AskedApSecurity
<1> HIDE DEF asked
<1>3. Configures(Asked(ApSecurity(ap)))
  BY <1>2 DEF Configures, Wants, Set
<1>4. Configures({Set("ampdu_ba_wsize", 2), Set("ap_ssid", ap.ssid), Set("channel", ap.channel)})
  BY DEF Configures, Wants, Set
<1>5. Configures({Set("ap_gmode", "auto"), Set("2g_mrate", 22), Set("dtimprd", 1)})
  BY DEF Configures, Wants, Set
<1>6. Configures(asked)  BY <1>1, <1>3, <1>4, <1>5 DEF Configures
<1>7. ASSUME NEW what \in ApNames
      PROVE  (\A value : Wants(what, value)) \/ Coming(what, asked)
  <2>1. CASE what \in {"ap_ssid", "channel", "ap_wsec"}
    <3>1. /\ Set("ap_ssid", ap.ssid) \in asked /\ Set("channel", ap.channel) \in asked
          /\ Set("ap_wsec", ap.auth) \in asked
      BY <1>1, <1>2
    <3>2. QED  BY <2>1, <3>1 DEF Coming, Set
  <2>2. CASE what \in {"ap_wpa_auth", "ap_pmk"} /\ ap.auth # "open"
    <3>1. Set("ap_wpa_auth", WpaAuth(ap.auth)) \in asked /\ Set("ap_pmk", ap.key) \in asked
      BY <1>1, <1>2, <2>2
    <3>2. QED  BY <2>2, <3>1 DEF Coming, Set
  <2>3. CASE what \in {"ap_wpa_auth", "ap_pmk"} /\ ap.auth = "open"
    BY <2>3 DEF Wants
  <2>4. QED  BY <2>1, <2>2, <2>3 DEF ApNames
<1>8. QED  BY <1>6, <1>7 DEF asked

LEMMA ApCall ==
    ASSUME TypesInv, ApInv, NEW c \in Calls, Call(c)
    PROVE  ApInv'
<1> DEFINE first == IF ~on /\ ~(c.name = "set_up" /\ ~c.up /\ c.itf = "STA") THEN BringUp ELSE <<>>
<1>1. /\ call' = c /\ failed' = 0 /\ wasUp' = (chip["bss"] = 1) /\ UNCHANGED <<ap, chip>>
      /\ todo' = first \o Requests(c)
  BY DEF Call, chipVars
<1>2. IsSeries(first) /\ Quiet(Asked(first))
  BY AskedBringUp, BringUpQuiet, AskedNone DEF Quiet
<1> HIDE DEF first
<1>3. CASE c.name = "set_up" /\ c.itf = "AP" /\ c.up
  <2> DEFINE pre == first \o Opening(c.itf)
  <2>1. Requests(c) = Opening(c.itf) \o ApSeries
    BY <1>3 DEF Requests, SetUp, ApSeries
  <2>2. IsSeries(Opening(c.itf)) /\ Quiet(Asked(Opening(c.itf)))
    BY AskedOpening, WifiOnQuiet, WifiPmQuiet DEF Quiet
  <2>3. IsSeries(ApSeries)  BY AskedTwo DEF ApSeries
  <2>4. todo' = pre \o ApSeries
    <3> DEFINE opening == Opening(c.itf)
               last == ApSeries
    <3>1. IsSeries(opening) /\ IsSeries(last) /\ Requests(c) = opening \o last
      BY <2>1, <2>2, <2>3
    <3> HIDE DEF opening, last
    <3>2. first \o (opening \o last) = (first \o opening) \o last  BY <1>2, <3>1, Joined
    <3>3. todo' = (first \o opening) \o last  BY <1>1, <3>1, <3>2, Zenon
    <3>4. QED  BY <3>3 DEF opening, last
  <2>5. IsSeries(pre) /\ Quiet(Asked(pre))  BY <1>2, <2>2, AskedBoth DEF Quiet
  <2> HIDE DEF pre
  <2>6. (\E p : IsSeries(p) /\ Quiet(Asked(p)) /\ todo = p \o ApSeries)'
    BY <2>4, <2>5, Zenon DEF IsSeries, Quiet, Asked, ApSeries, Get, Set
  <2>7. OpensAp'
    <3>1. c = [name |-> "set_up", itf |-> "AP", up |-> TRUE]  BY <1>3 DEF Calls
    <3>2. QED  BY <1>1, <3>1 DEF OpensAp
  <2>8. QED  BY <1>1, <2>6, <2>7 DEF ApInv, ToBeRead
<1>4. CASE c.name = "set_up" /\ c.itf = "AP" /\ ~c.up
  <2>1. todo' = first \o <<Set("bss", 0)>>  BY <1>1, <1>4 DEF Requests, SetUp
  <2>2. ~OpensAp'  BY <1>1, <1>4 DEF OpensAp
  <2>3. QED  BY <1>2, <2>1, <2>2 DEF ApInv, BeingClosed
<1>5. CASE c.name = "set_up" => c.itf # "AP"
  <2>1. Quiet(Asked(todo'))
    <3>1. Quiet(Asked(Requests(c))) /\ IsSeries(Requests(c))  BY <1>5, RequestsQuiet, AskedRequests
    <3>2. QED  BY <1>1, <1>2, <3>1, AskedBoth DEF Quiet
  <2>2. ~OpensAp'  BY <1>1, <1>5 DEF OpensAp
  <2>3. QED  BY <2>1, <2>2 DEF ApInv, Settled, Quiet, Asked
<1>6. QED  BY <1>3, <1>4, <1>5

\* An ioctl of which nothing went wrong.
Good(r, value) ==
    /\ failed = 0 /\ value = Answer(r)
    /\ IF r.op = "set" THEN Store(r) ELSE UNCHANGED chipVars

\* A good request that does not touch the AP leaves it.
LEMMA GoodLeaves ==
    ASSUME TypesInv, NEW r, NEW value, Good(r, value), NEW what, ~(r.op = "set" /\ r.what = what)
    PROVE  chip'[what] = chip[what] \/ what \notin Names
BY DEF Good, Store, chipVars, TypesInv, TypeOK

LEMMA ApIoctl ==
    ASSUME TypesInv, ApInv, todo # <<>>, NEW value, Go(Head(todo), value),
           UNCHANGED wasUp, failed' = 0 => Good(Head(todo), value)
    PROVE  ApInv'
<1> DEFINE r == Head(todo)
<1>1. UNCHANGED <<ap, call, wasUp>> /\ (OpensAp' <=> OpensAp)  BY DEF Go, OpensAp
<1>2. \A what, val : Wants(what, val)' <=> Wants(what, val)  BY <1>1 DEF Wants
<1>3. "bss" \in Names /\ ApNames \subseteq Names /\ "bss" \notin ApNames
  BY DEF Names, ApNames
<1>4. ASSUME failed' = 0, NEW what \in Names, ~(r.op = "set" /\ r.what = what)
      PROVE  failed = 0 /\ chip'[what] = chip[what]
  BY <1>4, GoodLeaves DEF Good
<1>5. CASE ToBeRead
  <2>1. PICK pre : IsSeries(pre) /\ Quiet(Asked(pre)) /\ todo = pre \o ApSeries
    BY <1>5 DEF ToBeRead
  <2>2. IsSeries(ApSeries)  BY AskedTwo DEF ApSeries
  <2>3. CASE pre # <<>>
    <3>1. Head(todo) = Head(pre) /\ Asked(pre) = {r} \cup Asked(Tail(pre))
      BY <2>1, <2>2, <2>3, GoEnds
    <3>2. PICK mid : /\ IsSeries(mid) /\ todo' = mid \o ApSeries
                     /\ Asked(mid) = Asked(Added(r, value)) \cup Asked(Tail(pre))
      BY <2>1, <2>2, <2>3, GoEnds
    <3>3. r.what # "bss"  BY <2>1, <3>1 DEF Quiet
    <3>4. Quiet(Asked(mid))  BY <2>1, <3>1, <3>2, <3>3, AddedQuiet DEF Quiet
    <3>5. failed' = 0 => failed = 0 /\ chip'["bss"] = chip["bss"]
      BY <1>3, <1>4, <3>3
    <3>6. (\E p : IsSeries(p) /\ Quiet(Asked(p)) /\ todo = p \o ApSeries)'
      BY <3>2, <3>4, Zenon DEF IsSeries, Quiet, Asked, ApSeries, Get, Set
    <3>7. (failed = 0 => (wasUp <=> chip["bss"] = 1))'  BY <1>1, <1>5, <3>5 DEF ToBeRead
    <3>8. OpensAp'  BY <1>1, <1>5 DEF ToBeRead
    <3>9. ToBeRead'  BY <3>6, <3>7, <3>8 DEF ToBeRead
    <3>10. QED  BY <3>9 DEF ApInv
  <2>4. CASE pre = <<>>
    <3>1. todo = ApSeries  BY <2>1, <2>2, <2>4, EndsIn
    <3>2. r = Get("bss") /\ Tail(todo) = <<Set("bss", 1)>>  BY <3>1 DEF ApSeries
    <3> DEFINE mid == Added(r, value)
    <3>3. mid = IF value = 0 THEN ApConfiguration(ap) ELSE <<>>  BY <3>2, AskedAdded
    <3>4. todo' = mid \o <<Set("bss", 1)>>  BY <3>2, NextAdds DEF Go
    <3> HIDE DEF mid
    <3>5. IsSeries(mid) /\ Configures(Asked(mid))
      BY <3>3, AskedNone, AskedApConfiguration, ApConfigurationConfigures DEF Configures
    <3>6. r.op = "get" /\ r.what = "bss"  BY <3>2 DEF Get
    <3>7. ASSUME failed' = 0
          PROVE  /\ value = IF chip["bss"] = 1 THEN 1 ELSE 0
                 /\ wasUp <=> chip["bss"] = 1
                 /\ UNCHANGED chip
      BY <1>5, <3>6, <3>7 DEF Good, Answer, chipVars, ToBeRead
    <3>8. ASSUME failed' = 0
          PROVE  /\ (\E q \in Asked(mid) : q.what \in ApNames) => chip'["bss"] # 1
                 /\ ~wasUp' => \A what \in ApNames :
                                  Wants(what, chip'[what]) \/ Coming(what, Asked(mid))
      <4>1. CASE wasUp
        <5>1. Asked(mid) = {}  BY <3>3, <3>7, <3>8, <4>1, AskedNone
        <5>2. QED  BY <1>1, <4>1, <5>1
      <4>2. CASE ~wasUp
        <5>1. mid = ApConfiguration(ap) /\ chip'["bss"] # 1  BY <3>3, <3>7, <3>8, <4>2
        <5>2. QED  BY <5>1, ApConfigurationConfigures
      <4>3. QED  BY <4>1, <4>2
    <3>9. QED
      BY <1>1, <1>2, <1>5, <3>4, <3>5, <3>8
      DEF ApInv, BeingConfigured, ToBeRead, Configures
  <2>5. QED  BY <2>3, <2>4
<1>6. CASE BeingConfigured
  <2>1. PICK mid : /\ IsSeries(mid) /\ Configures(Asked(mid)) /\ todo = mid \o <<Set("bss", 1)>>
                   /\ failed = 0 =>
                         /\ (\E q \in Asked(mid) : q.what \in ApNames) => chip["bss"] # 1
                         /\ ~wasUp => \A what \in ApNames :
                                         Wants(what, chip[what]) \/ Coming(what, Asked(mid))
    BY <1>6 DEF BeingConfigured
  <2> DEFINE last == <<Set("bss", 1)>>
  <2>2. IsSeries(last)  BY AskedOne
  <2>3. CASE mid # <<>>
    <3> HIDE DEF last
    <3>0. todo = mid \o last  BY <2>1 DEF last
    <3>1. Head(todo) = Head(mid) /\ Asked(mid) = {r} \cup Asked(Tail(mid))
      BY <2>1, <2>2, <2>3, <3>0, GoEnds
    <3>2. PICK rest : /\ IsSeries(rest) /\ todo' = rest \o last
                      /\ Asked(rest) = Asked(Added(r, value)) \cup Asked(Tail(mid))
      BY <2>1, <2>2, <2>3, <3>0, GoEnds
    <3>3. r.op = "set" /\ r.what \notin {"bss", "clmload"} /\ Wants(r.what, r.value)
      BY <2>1, <3>1 DEF Configures
    <3>4. Asked(rest) = Asked(Tail(mid))  BY <3>2, <3>3, AskedAdded, AskedNone
    <3>5. Configures(Asked(rest))  BY <2>1, <3>1, <3>4 DEF Configures
    <3>6. ASSUME failed' = 0
          PROVE  /\ (\E q \in Asked(rest) : q.what \in ApNames) => chip'["bss"] # 1
                 /\ ~wasUp' => \A what \in ApNames :
                                  Wants(what, chip'[what]) \/ Coming(what, Asked(rest))
      <4>1. failed = 0 /\ chip'["bss"] = chip["bss"]  BY <1>3, <1>4, <3>3, <3>6
      <4>2. (\E q \in Asked(rest) : q.what \in ApNames) => chip'["bss"] # 1
        BY <2>1, <3>1, <3>4, <4>1
      <4>3. ASSUME NEW what \in ApNames, ~wasUp
            PROVE  Wants(what, chip'[what]) \/ Coming(what, Asked(rest))
        <5>1. CASE r.what = what
          <6>1. chip'[what] = r.value
            BY <1>3, <3>3, <3>6, <5>1 DEF Good, Store, TypesInv, TypeOK
          <6>2. QED  BY <3>3, <5>1, <6>1
        <5>2. CASE r.what # what
          <6>1. chip'[what] = chip[what]  BY <1>3, <1>4, <3>6, <5>2
          <6>2. Coming(what, Asked(mid)) => Coming(what, Asked(rest))
            BY <3>1, <3>4, <5>2 DEF Coming
          <6>3. QED  BY <2>1, <4>1, <4>3, <6>1, <6>2
        <5>3. QED  BY <5>1, <5>2
      <4>4. QED  BY <1>1, <4>2, <4>3
    <3>7. QED
      BY <1>1, <1>2, <1>6, <3>2, <3>5, <3>6 DEF ApInv, BeingConfigured, Configures, last
  <2>4. CASE mid = <<>>
    <3>1. todo = <<Set("bss", 1)>>  BY <2>1, <2>2, <2>4, EndsIn
    <3>2. r = Set("bss", 1) /\ Tail(todo) = <<>>  BY <3>1
    <3>3. r.op = "set" /\ r.what = "bss" /\ r.value = 1  BY <3>2 DEF Set
    <3>4. Added(r, value) = <<>>  BY <3>3, AskedAdded
    <3>5. todo' = <<>>
      <4>1. todo' = <<>> \o <<>>  BY <3>2, <3>4, NextAdds DEF Go
      <4>2. QED  BY <4>1
    <3>6. Quiet(Asked(todo'))  BY <3>5, AskedNone DEF Quiet
    <3>7. ASSUME failed' = 0
          PROVE  chip'["bss"] = 1 /\ (~wasUp' => \A what \in ApNames : Wants(what, chip'[what]))
      <4>1. chip'["bss"] = 1
        BY <1>3, <3>3, <3>7 DEF Good, Store, TypesInv, TypeOK
      <4>2. failed = 0 /\ \A what \in ApNames : chip'[what] = chip[what]
        <5>1. failed = 0  BY <3>7 DEF Good
        <5>2. ASSUME NEW what \in ApNames
              PROVE  chip'[what] = chip[what]
          <6>1. what \in Names /\ ~(r.op = "set" /\ r.what = what)  BY <1>3, <3>3
          <6>2. QED  BY <1>4, <3>7, <6>1
        <5>3. QED  BY <5>1, <5>2
      <4>3. \A what : ~Coming(what, Asked(mid))  BY <2>4, AskedNone DEF Coming
      <4>4. QED  BY <1>1, <2>1, <4>1, <4>2, <4>3
    <3>8. QED  BY <1>2, <3>6, <3>7 DEF ApInv, Settled, Quiet, Asked
  <2>5. QED  BY <2>3, <2>4
<1>7. CASE BeingClosed
  <2>1. PICK mid : IsSeries(mid) /\ Quiet(Asked(mid)) /\ todo = mid \o <<Set("bss", 0)>>
    BY <1>7 DEF BeingClosed
  <2> DEFINE last == <<Set("bss", 0)>>
  <2>2. IsSeries(last)  BY AskedOne
  <2>3. CASE mid # <<>>
    <3> HIDE DEF last
    <3>0. todo = mid \o last  BY <2>1 DEF last
    <3>1. Head(todo) = Head(mid) /\ Asked(mid) = {r} \cup Asked(Tail(mid))
      BY <2>1, <2>2, <2>3, <3>0, GoEnds
    <3>2. PICK rest : /\ IsSeries(rest) /\ todo' = rest \o last
                      /\ Asked(rest) = Asked(Added(r, value)) \cup Asked(Tail(mid))
      BY <2>1, <2>2, <2>3, <3>0, GoEnds
    <3>3. Quiet(Asked(rest))  BY <2>1, <3>1, <3>2, AddedQuiet DEF Quiet
    <3>4. QED  BY <1>1, <1>7, <3>2, <3>3 DEF ApInv, BeingClosed, last
  <2>4. CASE mid = <<>>
    <3>1. todo = <<Set("bss", 0)>>  BY <2>1, <2>2, <2>4, EndsIn
    <3>2. r = Set("bss", 0) /\ Tail(todo) = <<>>  BY <3>1
    <3>3. r.op = "set" /\ r.what = "bss"  BY <3>2 DEF Set
    <3>4. Added(r, value) = <<>>  BY <3>3, AskedAdded
    <3>5. todo' = <<>>
      <4>1. todo' = <<>> \o <<>>  BY <3>2, <3>4, NextAdds DEF Go
      <4>2. QED  BY <4>1
    <3>6. Quiet(Asked(todo'))  BY <3>5, AskedNone DEF Quiet
    <3>7. QED  BY <1>1, <1>7, <3>6 DEF ApInv, BeingClosed, Settled, Quiet, Asked
  <2>5. QED  BY <2>3, <2>4
<1>8. CASE Settled
  <2>1. /\ r \in Asked(todo) /\ Asked(todo) = {r} \cup Asked(Tail(todo))
        /\ Asked(todo') = Asked(Added(r, value)) \cup Asked(Tail(todo))
    BY GoAsks DEF TypesInv
  <2>2. r.what # "bss" /\ ~(r.op = "set" /\ r.what \in ApNames)  BY <1>8, <2>1 DEF Settled, Quiet
  <2>3. Quiet(Asked(todo'))  BY <1>8, <2>1, <2>2, AddedQuiet DEF Settled, Quiet
  <2>4. failed' = 0 => failed = 0 /\ chip'["bss"] = chip["bss"]
                       /\ \A what \in ApNames : chip'[what] = chip[what]
    BY <1>3, <1>4, <2>2
  <2>5. QED  BY <1>1, <1>2, <1>8, <2>3, <2>4 DEF ApInv, Settled, Quiet, Asked
<1>9. QED  BY <1>5, <1>6, <1>7, <1>8 DEF ApInv

LEMMA ApDone ==
    ASSUME TypesInv, ApInv, Done
    PROVE  ApInv'
<1>1. /\ todo # <<>> /\ Go(Head(todo), Answer(Head(todo))) /\ wasUp' = wasUp
      /\ failed' = failed
      /\ IF Head(todo).op = "set" THEN Store(Head(todo)) ELSE UNCHANGED chipVars
  BY DEF Done
<1>2. failed' = 0 => Good(Head(todo), Answer(Head(todo)))  BY <1>1 DEF Good
<1>3. QED  BY <1>1, <1>2, ApIoctl

LEMMA ApFail ==
    ASSUME TypesInv, ApInv, Fail
    PROVE  ApInv'
<1>2. PICK value : Go(Head(todo), value)  BY FailSays, Zenon
<1>3. todo # <<>> /\ wasUp' = wasUp /\ failed' = failed + 1  BY FailSays
<1>4. failed' # 0  BY <1>3, SettingsAssumption DEF TypesInv, TypeOK, SettingsAssumption
<1>5. QED  BY <1>2, <1>3, <1>4, ApIoctl

\* Between calls there is nothing to come.
LEMMA IdleSettled ==
    ASSUME ApInv, todo = <<>>
    PROVE  Settled
<1>1. ASSUME NEW pre, IsSeries(pre)
      PROVE  /\ pre \o ApSeries # <<>> /\ pre \o <<Set("bss", 1)>> # <<>>
             /\ pre \o <<Set("bss", 0)>> # <<>>
  <2>1. IsSeries(ApSeries) /\ ApSeries # <<>>  BY AskedTwo DEF ApSeries
  <2>2. \A v : IsSeries(<<Set("bss", v)>>) /\ <<Set("bss", v)>> # <<>>  BY AskedOne
  <2>3. QED  BY <1>1, <2>1, <2>2, EndsIn
<1>2. QED  BY <1>1 DEF ApInv, ToBeRead, BeingConfigured, BeingClosed

LEMMA ApRest ==
    ASSUME TypesInv, ApInv,
           ApNoted \/ Deinit \/ Return \/ UNCHANGED vars
    PROVE  ApInv'
<1>1. CASE ApNoted \/ Deinit
  <2>1. ~busy /\ UNCHANGED todo  BY <1>1 DEF ApNoted, SetAp, Deinit
  <2>2. todo = <<>>  BY <2>1 DEF TypesInv, TypeOK
  <2>3. Quiet(Asked(todo'))  BY <2>1, <2>2, AskedNone DEF Quiet
  <2>4. ~OpensAp'  BY <1>1 DEF ApNoted, SetAp, Deinit, OpensAp
  <2>5. QED  BY <2>3, <2>4 DEF ApInv, Settled, Quiet, Asked
<1>2. CASE Return
  <2>1. todo = <<>> /\ UNCHANGED <<todo, ap, call, chip, failed, wasUp>>
    BY <1>2 DEF Return, chipVars, history
  <2>2. Settled  BY <2>1, IdleSettled
  <2>3. QED  BY <2>1, <2>2 DEF ApInv, Settled, Quiet, Asked, OpensAp, Wants
<1>3. CASE UNCHANGED vars
  <2>1. UNCHANGED <<todo, ap, call, chip, failed, wasUp>>
    BY <1>3 DEF vars, driver, chipVars, history
  <2>2. UNCHANGED OpensAp /\ \A what, value : Wants(what, value)' <=> Wants(what, value)
    BY <2>1 DEF OpensAp, Wants
  <2>3. ToBeRead => ToBeRead'
    BY <2>1, <2>2 DEF ToBeRead, IsSeries, Quiet, Asked, ApSeries, Get, Set
  <2>4. BeingConfigured => BeingConfigured'
    <3> SUFFICES ASSUME BeingConfigured PROVE BeingConfigured'  OBVIOUS
    <3> DEFINE Due(mid) ==
                 failed = 0 =>
                    /\ (\E r \in Asked(mid) : r.what \in ApNames) => chip["bss"] # 1
                    /\ ~wasUp => \A what \in ApNames :
                                    Wants(what, chip[what]) \/ Coming(what, Asked(mid))
    <3>1. PICK mid : /\ IsSeries(mid) /\ Configures(Asked(mid)) /\ todo = mid \o <<Set("bss", 1)>>
                     /\ Due(mid)
      BY DEF BeingConfigured
    <3>2. \A asked : Configures(asked)' <=> Configures(asked)  BY <2>2 DEF Configures
    <3>3. Due(mid)' <=> Due(mid)  BY <2>1, <2>2 DEF Asked, Coming
    <3> HIDE DEF Due
    <3>4. \E m : /\ IsSeries(m) /\ Configures(Asked(m))' /\ todo' = m \o <<Set("bss", 1)>>
                 /\ Due(m)'
      BY <2>1, <3>1, <3>2, <3>3
    <3>5. OpensAp'  BY <2>2 DEF BeingConfigured
    <3>6. QED  BY <3>4, <3>5 DEF BeingConfigured, Due
  <2>5. BeingClosed => BeingClosed'
    BY <2>1, <2>2 DEF BeingClosed, IsSeries, Quiet, Asked, Set
  <2>6. Settled => Settled'
    BY <2>1, <2>2 DEF Settled, Quiet, Asked
  <2>7. QED  BY <2>3, <2>4, <2>5, <2>6 DEF ApInv
<1>4. QED  BY <1>1, <1>2, <1>3

LEMMA ApNext == TypesInv /\ ApInv /\ [Next]_vars => ApInv'
BY ApCall, ApDone, ApFail, ApRest DEF Next, ApNoted

LEMMA ApInit == Init => ApInv
BY AskedNone DEF Init, ApInv, Settled, Quiet, OpensAp

\* Opening the AP, if nothing goes wrong, brings it up; and if it was down it comes up as
\* the driver has it noted now: with what was set since cyw43_init or the last
\* cyw43_deinit, and the defaults otherwise, except that the security outlives a deinit.
THEOREM OpenedAsConfigured == Spec => []ApAsConfigured
<1>1. TypesInv /\ ApInv => ApAsConfigured
  <2> SUFFICES ASSUME TypesInv, ApInv, ~busy, OpensAp, failed = 0
               PROVE  chip["bss"] = 1 /\ (~wasUp => ApIs(ap))
    BY DEF ApAsConfigured, OpensAp
  <2>1. Settled  BY IdleSettled DEF TypesInv, TypeOK
  <2>2. QED  BY <2>1, WantsIs DEF Settled
<1>2. QED  BY <1>1, TypesInit, TypesNext, ApInit, ApNext, PTL DEF Spec

\* While nothing has gone wrong in the call, a request that configures the AP is only to
\* come while the AP is down.
LEMMA ConfiguredDown ==
    ASSUME TypesInv, ApInv, failed = 0, chip["bss"] = 1, todo # <<>>,
           Head(todo).op = "set", Head(todo).what \in ApNames
    PROVE  FALSE
<1> DEFINE r == Head(todo)
<1>1. r.what # "bss"  BY DEF ApNames
<1>2. ASSUME NEW pre, NEW last, IsSeries(pre), IsSeries(last), todo = pre \o last,
             Head(last).what = "bss" \/ Head(last).op # "set"
      PROVE  r \in Asked(pre)
  <2>1. pre # <<>>
    <3>1. pre = <<>> => todo = last  BY <1>2, EndsIn
    <3>2. QED  BY <1>1, <1>2, <3>1
  <2>2. Head(todo) = Head(pre)  BY <1>2, <2>1, EndsIn
  <2>3. QED  BY <1>2, <2>1, <2>2, AskedRest
<1>3. CASE ToBeRead
  <2>1. PICK pre : IsSeries(pre) /\ Quiet(Asked(pre)) /\ todo = pre \o ApSeries
    BY <1>3 DEF ToBeRead
  <2>2. IsSeries(ApSeries) /\ Head(ApSeries).what = "bss"  BY AskedTwo DEF ApSeries, Get
  <2>3. r \in Asked(pre)  BY <1>2, <2>1, <2>2
  <2>4. QED  BY <2>1, <2>3 DEF Quiet
<1>4. CASE BeingConfigured
  <2>1. PICK mid : /\ IsSeries(mid) /\ todo = mid \o <<Set("bss", 1)>>
                   /\ (\E q \in Asked(mid) : q.what \in ApNames) => chip["bss"] # 1
    BY <1>4 DEF BeingConfigured
  <2> DEFINE last == <<Set("bss", 1)>>
  <2>2. IsSeries(last) /\ Head(last).what = "bss"  BY AskedOne DEF Set
  <2>3. todo = mid \o last  BY <2>1
  <2> HIDE DEF last
  <2>4. r \in Asked(mid)  BY <1>2, <2>1, <2>2, <2>3
  <2>5. QED  BY <2>1, <2>4
<1>5. CASE BeingClosed
  <2>1. PICK mid : IsSeries(mid) /\ Quiet(Asked(mid)) /\ todo = mid \o <<Set("bss", 0)>>
    BY <1>5 DEF BeingClosed
  <2> DEFINE last == <<Set("bss", 0)>>
  <2>2. IsSeries(last) /\ Head(last).what = "bss"  BY AskedOne DEF Set
  <2>3. todo = mid \o last  BY <2>1
  <2> HIDE DEF last
  <2>4. r \in Asked(mid)  BY <1>2, <2>1, <2>2, <2>3
  <2>5. QED  BY <2>1, <2>4 DEF Quiet
<1>6. CASE Settled
  <2>1. r \in Asked(todo)  BY AskedRest DEF TypesInv
  <2>2. QED  BY <1>6, <2>1 DEF Settled, Quiet
<1>7. QED  BY <1>3, <1>4, <1>5, <1>6 DEF ApInv

LEMMA IoctlLeavesAp ==
    ASSUME TypesInv, ApInv, Done \/ Fail, chip["bss"] = 1, failed = 0, NEW what \in ApNames
    PROVE  chip'[what] = chip[what]
<1> DEFINE r == Head(todo)
<1>1. todo # <<>> /\ (UNCHANGED chip \/ (r.op = "set" /\ Store(r)))
  BY FailSays DEF Done, chipVars
<1>2. ~(r.op = "set" /\ r.what \in ApNames)  BY <1>1, ConfiguredDown
<1>3. what \in Names  BY DEF Names
<1> HIDE DEF r
<1>4. QED  BY <1>1, <1>2, <1>3 DEF Store, TypesInv, TypeOK

\* A running AP is not reconfigured, except by a call that was misled about its state.
THEOREM RunningApKept == Spec => ApLeftAlone
<1> DEFINE Left == chip["bss"] = 1 /\ chip'["bss"] = 1 /\ failed = 0 =>
                      \A what \in ApNames : chip'[what] = chip[what]
<1>1. ASSUME TypesInv, ApInv, [Next]_vars
      PROVE  Left \/ UNCHANGED vars
  <2>1. CASE Done \/ Fail  BY <1>1, <2>1, IoctlLeavesAp
  <2>2. CASE Deinit
    <3>1. chip'["bss"] = 0  BY <2>2 DEF Deinit, Off, Names
    <3>2. QED  BY <3>1
  <2>3. CASE UNCHANGED chip  BY <2>3
  <2>4. QED
    BY <1>1, <2>1, <2>2, <2>3 DEF Next, Call, SetAp, Return, chipVars, vars
<1>2. TypesInv /\ ApInv /\ [Next]_vars => [Left]_vars  BY <1>1
<1>3. Spec => [][Left]_vars  BY <1>2, TypesInit, TypesNext, ApInit, ApNext, PTL DEF Spec
<1>4. QED  BY <1>3 DEF ApLeftAlone

-----------------------------------------------------------------------------
(* What cyw43_wifi_pm was given stays in the chip until it is read.         *)

\* The settings that a word stands for.
PmSetting(v, what) ==
    CASE what = "pm2_sleep_ret" -> 10 * Limit(SleepRetOf(v))
      [] what = "bcn_li_bcn" -> BcnOf(v)
      [] what = "bcn_li_dtim" -> DtimOf(v)
      [] what = "assoc_listen" -> AssocOf(v)
      [] what = "pm" -> ModeOf(v)

NoPm(asked) == \A r \in asked : r.op = "set" => r.what \notin PmNames

SetsPm(v, asked) ==
    \A r \in asked : r.op = "set" /\ r.what \in PmNames => r.value = PmSetting(v, r.what)

\* The settings are those of the last word, or are still to come.
PmKeptInv ==
    pmSent # Nothing =>
        /\ SetsPm(pmSent, Asked(todo))
        /\ \A what \in PmNames :
              chip[what] = PmSetting(pmSent, what) \/ Coming(what, Asked(todo))

\* cyw43_wifi_get_pm has read a setting as it is, or is still to read it.
PmReadInv ==
    busy /\ call.name = "get_pm" =>
        /\ NoPm(Asked(todo))
        /\ failed = 0 => \A what \in PmNames :
              Get(what) \in Asked(todo) \/ (what \in DOMAIN told /\ told[what] = chip[what])

PmInv == PmKeptInv /\ PmReadInv

LEMMA WifiPmSets ==
    ASSUME NEW v
    PROVE  /\ SetsPm(v, Asked(WifiPm(v)))
           /\ \A what \in PmNames : Coming(what, Asked(WifiPm(v)))
<1>1. SetsPm(v, Asked(WifiPm(v)))
  BY AskedWifiPm DEF SetsPm, PmSetting, Set, PmNames
<1>2. ASSUME NEW what \in PmNames
      PROVE  Set(what, PmSetting(v, what)) \in Asked(WifiPm(v))
  BY AskedWifiPm DEF PmSetting, PmNames
<1>3. \A what, value : Set(what, value).op = "set" /\ Set(what, value).what = what  BY DEF Set
<1>4. ASSUME NEW what \in PmNames
      PROVE  Coming(what, Asked(WifiPm(v)))
  BY <1>2, <1>3 DEF Coming
<1>5. QED  BY <1>1, <1>4

LEMMA NoPmSets ==
    ASSUME NEW asked, NoPm(asked), NEW v
    PROVE  SetsPm(v, asked)
BY DEF NoPm, SetsPm

LEMMA WifiOnNoPm == NoPm(Asked(WifiOn))
BY AskedWifiOn DEF NoPm, PmNames, Set

LEMMA BringUpNoPm == NoPm(Asked(BringUp))
BY AskedBringUp DEF NoPm, PmNames, AfterDownload, Set, Get

LEMMA ApConfigurationNoPm ==
    ASSUME NEW config
    PROVE  NoPm(Asked(ApConfiguration(config)))
<1>1. NoPm(Asked(ApSecurity(config)))
  BY AskedApSecurity DEF NoPm, PmNames, Set
<1>2. NoPm({Set("ampdu_ba_wsize", 2), Set("ap_ssid", config.ssid),
            Set("channel", config.channel)})
  BY DEF NoPm, PmNames, Set
<1>3. NoPm({Set("ap_gmode", "auto"), Set("2g_mrate", 22), Set("dtimprd", 1)})
  BY DEF NoPm, PmNames, Set
<1>4. QED  BY <1>1, <1>2, <1>3, AskedApConfiguration DEF NoPm

LEMMA AddedNoPm ==
    ASSUME NEW r, NEW value
    PROVE  NoPm(Asked(Added(r, value)))
<1>1. CASE r.what = "clmload"
  BY <1>1, AskedAdded DEF NoPm, Set, PmNames
<1>2. CASE r.what # "clmload"
  <2>1. Added(r, value) \in {ApConfiguration(ap), <<>>}  BY <1>2 DEF Added
  <2>2. QED  BY <2>1, AskedNone, ApConfigurationNoPm DEF NoPm
<1>3. QED  BY <1>1, <1>2

\* Only cyw43_wifi_pm and the first interface set them.
LEMMA AskedForNoPm ==
    ASSUME NEW c \in Calls, c.name # "pm"
    PROVE  NoPm(AskedFor(c))
<1>1. CASE c.name = "set_up"  BY <1>1 DEF AskedFor, NoPm, Set, Get, PmNames
<1>3. CASE c.name \in {"get_pm", "get_stas", "get_max_stas"}
  <2>1. \A r \in AskedFor(c) : \E what : r = Get(what)  BY <1>3 DEF AskedFor
  <2>2. QED  BY <2>1 DEF NoPm, Get
<1>4. QED  BY <1>1, <1>3 DEF Calls

LEMMA PmCall ==
    ASSUME TypesInv, PmInv, NEW c \in Calls, Call(c)
    PROVE  PmInv'
<1> DEFINE begun == IF ~on /\ ~(c.name = "set_up" /\ ~c.up /\ c.itf = "STA")
                    THEN Asked(BringUp) ELSE {}
<1>1. /\ call' = c /\ busy' = TRUE /\ failed' = 0 /\ chip' = chip
      /\ pmSent' = IF c.name = "pm" THEN c.word ELSE IF Opens(c) THEN DefaultPm ELSE pmSent
  BY DEF Call, chipVars, Opens
<1>2. todo = <<>> /\ Asked(todo') = begun \cup Asked(Requests(c))  BY CallAsks
<1>3. NoPm(begun)  BY BringUpNoPm DEF NoPm
<1>4. Asked(Requests(c)) =
        AskedFor(c) \cup (IF Opens(c) THEN Asked(WifiOn) \cup Asked(WifiPm(DefaultPm)) ELSE {})
  BY AskedRequests
<1> HIDE DEF begun
<1>5. CASE c.name = "pm"
  <2>1. Asked(todo') = begun \cup Asked(WifiPm(c.word)) /\ pmSent' = c.word
    BY <1>1, <1>2, <1>4, <1>5 DEF Opens, AskedFor
  <2>2. SetsPm(pmSent', Asked(todo'))
    BY <1>3, <2>1, NoPmSets, WifiPmSets DEF SetsPm
  <2>3. \A what \in PmNames : Coming(what, Asked(todo'))  BY <2>1, WifiPmSets DEF Coming
  <2>4. PmKeptInv'  BY <2>2, <2>3 DEF PmKeptInv, SetsPm, Coming, Asked
  <2>5. PmReadInv'  BY <1>1, <1>5 DEF PmReadInv
  <2>6. QED  BY <2>4, <2>5 DEF PmInv
<1>6. CASE c.name # "pm" /\ Opens(c)
  <2>1. /\ Asked(todo') = begun \cup AskedFor(c) \cup Asked(WifiOn) \cup Asked(WifiPm(DefaultPm))
        /\ pmSent' = DefaultPm
    BY <1>1, <1>2, <1>4, <1>6
  <2>2. SetsPm(pmSent', Asked(todo'))
    <3>1. SetsPm(pmSent', begun) /\ SetsPm(pmSent', AskedFor(c)) /\ SetsPm(pmSent', Asked(WifiOn))
      BY <1>3, <1>6, NoPmSets, AskedForNoPm, WifiOnNoPm
    <3>2. SetsPm(pmSent', Asked(WifiPm(DefaultPm)))  BY <2>1, WifiPmSets
    <3>3. QED  BY <2>1, <3>1, <3>2 DEF SetsPm
  <2>3. \A what \in PmNames : Coming(what, Asked(todo'))  BY <2>1, WifiPmSets DEF Coming
  <2>4. PmKeptInv'  BY <2>2, <2>3 DEF PmKeptInv, SetsPm, Coming, Asked
  <2>5. PmReadInv'  BY <1>1, <1>6 DEF PmReadInv, Opens
  <2>6. QED  BY <2>4, <2>5 DEF PmInv
<1>7. CASE c.name # "pm" /\ ~Opens(c)
  <2>1. Asked(todo') = begun \cup AskedFor(c) /\ pmSent' = pmSent  BY <1>1, <1>2, <1>4, <1>7
  <2>2. NoPm(Asked(todo'))  BY <1>3, <1>7, <2>1, AskedForNoPm DEF NoPm
  <2>3. \A what : ~Coming(what, Asked(todo))  BY <1>2, AskedNone DEF Coming
  <2>4. pmSent # Nothing => \A what \in PmNames : chip[what] = PmSetting(pmSent, what)
    BY <2>3 DEF PmInv, PmKeptInv
  <2>5. PmKeptInv'
    <3>1. SetsPm(pmSent', Asked(todo'))  BY <2>2, NoPmSets
    <3>2. QED  BY <1>1, <2>1, <2>4, <3>1 DEF PmKeptInv, SetsPm, Asked
  <2>6. PmReadInv'
    <3>1. c.name = "get_pm" => \A what \in PmNames : Get(what) \in Asked(todo')
      BY <2>1 DEF AskedFor
    <3>2. QED  BY <1>1, <2>2, <3>1 DEF PmReadInv, NoPm, Asked, Get
  <2>7. QED  BY <2>5, <2>6 DEF PmInv
<1>8. QED  BY <1>5, <1>6, <1>7

LEMMA PmDone ==
    ASSUME TypesInv, PmInv, Done
    PROVE  PmInv'
<1> DEFINE r == Head(todo)
           value == Answer(r)
<1>1. /\ todo # <<>> /\ Go(r, value) /\ UNCHANGED <<call, busy, failed, pmSent>>
      /\ IF r.op = "set" THEN Store(r) ELSE UNCHANGED chipVars
  BY DEF Done, Go
<1>2. r \in Asked(todo) /\ Asked(todo) = {r} \cup Asked(Tail(todo))
      /\ Asked(todo') = Asked(Added(r, value)) \cup Asked(Tail(todo))
  BY <1>1, GoAsks DEF TypesInv
<1>3. /\ told' = IF r.op = "get"
                 THEN [what \in DOMAIN told \cup {r.what} |-> IF what = r.what THEN value ELSE told[what]]
                 ELSE told
  BY <1>1 DEF Go
<1>4. PmNames \subseteq Names /\ "clmload" \notin PmNames
      /\ PmNames \cap {"maxassoc", "assoclist", "clmload_status", "bss"} = {}
  BY DEF Names, PmNames
<1>5. r.op = "get" /\ r.what \in PmNames => value = chip[r.what]
  BY <1>4 DEF Answer
<1>6. r.op \in {"set", "get"}  BY <1>2, KnownOp DEF TypesInv
<1>7. NoPm(Asked(Added(r, value)))  BY AddedNoPm
<1> HIDE DEF r, value
<1>8. ASSUME NEW what \in PmNames
      PROVE  chip'[what] = IF r.op = "set" /\ r.what = what THEN r.value ELSE chip[what]
  BY <1>1, <1>4, <1>8 DEF Store, chipVars, TypesInv, TypeOK
<1>9. PmKeptInv'
  <2> SUFFICES ASSUME pmSent # Nothing
               PROVE  /\ SetsPm(pmSent, Asked(todo'))
                      /\ \A what \in PmNames :
                            chip'[what] = PmSetting(pmSent, what) \/ Coming(what, Asked(todo'))
    BY <1>1 DEF PmKeptInv, SetsPm, Coming, Asked
  <2>1. SetsPm(pmSent, Asked(todo'))
    BY <1>2, <1>7, NoPmSets DEF PmInv, PmKeptInv, SetsPm
  <2>2. ASSUME NEW what \in PmNames
        PROVE  chip'[what] = PmSetting(pmSent, what) \/ Coming(what, Asked(todo'))
    <3>1. CASE r.op = "set" /\ r.what = what
      <4>1. r.value = PmSetting(pmSent, what)
        BY <1>2, <3>1 DEF PmInv, PmKeptInv, SetsPm
      <4>2. QED  BY <1>8, <3>1, <4>1
    <3>2. CASE ~(r.op = "set" /\ r.what = what)
      <4>1. Coming(what, Asked(todo)) => Coming(what, Asked(todo'))  BY <1>2, <3>2 DEF Coming
      <4>2. QED  BY <1>8, <3>2, <4>1 DEF PmInv, PmKeptInv
    <3>3. QED  BY <3>1, <3>2
  <2>3. QED  BY <2>1, <2>2
<1>10. PmReadInv'
  <2> SUFFICES ASSUME busy, call.name = "get_pm"
               PROVE  /\ NoPm(Asked(todo'))
                      /\ failed = 0 => \A what \in PmNames :
                            \/ Get(what) \in Asked(todo')
                            \/ what \in DOMAIN told' /\ told'[what] = chip'[what]
    BY <1>1 DEF PmReadInv, NoPm, Asked, Get
  <2>1. NoPm(Asked(todo)) /\ NoPm(Asked(todo'))
    BY <1>2, <1>7 DEF PmInv, PmReadInv, NoPm
  <2>2. ASSUME failed = 0, NEW what \in PmNames
        PROVE  Get(what) \in Asked(todo') \/ (what \in DOMAIN told' /\ told'[what] = chip'[what])
    <3>1. chip'[what] = chip[what]  BY <1>2, <1>8, <2>1 DEF NoPm
    <3>2. CASE r.op = "get" /\ r.what = what
      BY <1>3, <1>5, <3>1, <3>2
    <3>3. CASE ~(r.op = "get" /\ r.what = what)
      <4>1. r # Get(what)  BY <3>3 DEF Get
      <4>2. Get(what) \in Asked(todo) => Get(what) \in Asked(todo')  BY <1>2, <4>1
      <4>3. what \in DOMAIN told => what \in DOMAIN told' /\ told'[what] = told[what]
        BY <1>3, <1>6, <3>3
      <4>4. QED  BY <2>2, <3>1, <4>2, <4>3 DEF PmInv, PmReadInv
    <3>4. QED  BY <3>2, <3>3
  <2>3. QED  BY <2>1, <2>2
<1>11. QED  BY <1>9, <1>10 DEF PmInv

LEMMA PmFail ==
    ASSUME TypesInv, PmInv, Fail
    PROVE  PmInv'
<1> DEFINE r == Head(todo)
<1>2. PICK value : Go(r, value)  BY FailSays, Zenon
<1>3. /\ todo # <<>>
      /\ UNCHANGED chipVars \/ (r.op = "set" /\ Store(r))
      /\ pmSent' = IF r.op = "set" /\ r.what \in PmNames THEN Nothing ELSE pmSent
      /\ failed' = failed + 1
  BY FailSays
<1>4. r \in Asked(todo) /\ Asked(todo) = {r} \cup Asked(Tail(todo))
      /\ Asked(todo') = Asked(Added(r, value)) \cup Asked(Tail(todo))
  BY <1>2, <1>3, GoAsks DEF TypesInv
<1>5. NoPm(Asked(Added(r, value)))  BY AddedNoPm
<1>6. failed' # 0  BY <1>3, SettingsAssumption DEF TypesInv, TypeOK, SettingsAssumption
<1>7. UNCHANGED <<call, busy>>  BY <1>2 DEF Go
<1> HIDE DEF r
<1>8. PmKeptInv'
  <2> SUFFICES ASSUME pmSent' # Nothing
               PROVE  /\ SetsPm(pmSent', Asked(todo'))
                      /\ \A what \in PmNames :
                            chip'[what] = PmSetting(pmSent', what) \/ Coming(what, Asked(todo'))
    BY DEF PmKeptInv, SetsPm, Coming, Asked
  <2>1. ~(r.op = "set" /\ r.what \in PmNames) /\ pmSent' = pmSent  BY <1>3
  <2>2. SetsPm(pmSent', Asked(todo'))
    BY <1>4, <1>5, <2>1, NoPmSets DEF PmInv, PmKeptInv, SetsPm
  <2>3. ASSUME NEW what \in PmNames
        PROVE  chip'[what] = PmSetting(pmSent, what) \/ Coming(what, Asked(todo'))
    <3>1. what \in Names  BY DEF Names
    <3>2. chip'[what] = chip[what]
      BY <1>3, <2>1, <3>1 DEF Store, chipVars, TypesInv, TypeOK
    <3>3. Coming(what, Asked(todo)) => Coming(what, Asked(todo'))  BY <1>4, <2>1 DEF Coming
    <3>4. QED  BY <2>1, <3>2, <3>3 DEF PmInv, PmKeptInv
  <2>4. QED  BY <2>1, <2>2, <2>3
<1>9. PmReadInv'
  <2>1. busy /\ call.name = "get_pm" => NoPm(Asked(todo'))
    BY <1>4, <1>5 DEF PmInv, PmReadInv, NoPm
  <2>2. QED  BY <1>6, <1>7, <2>1 DEF PmReadInv, NoPm, Asked
<1>10. QED  BY <1>8, <1>9 DEF PmInv

LEMMA PmRest ==
    ASSUME TypesInv, PmInv,
           ApNoted \/ Deinit \/ Return \/ UNCHANGED vars
    PROVE  PmInv'
<1>1. CASE ApNoted \/ Return \/ UNCHANGED vars
  <2>1. UNCHANGED <<todo, chip, failed, pmSent>> /\ (busy' => UNCHANGED <<call, busy, told>>)
    <3>1. CASE ApNoted
      BY <3>1 DEF ApNoted, SetAp, chipVars, history
    <3>2. CASE Return  BY <3>2 DEF Return, chipVars, history
    <3>3. CASE UNCHANGED vars  BY <3>3 DEF vars, driver, chipVars, history
    <3>4. QED  BY <1>1, <3>1, <3>2, <3>3
  <2>2. PmKeptInv'  BY <2>1 DEF PmInv, PmKeptInv, SetsPm, Coming, Asked
  <2>3. PmReadInv'  BY <2>1 DEF PmInv, PmReadInv, NoPm, Asked, Get
  <2>4. QED  BY <2>2, <2>3 DEF PmInv
<1>2. CASE Deinit
  BY <1>2 DEF Deinit, PmInv, PmKeptInv, PmReadInv
<1>3. QED  BY <1>1, <1>2

LEMMA PmNext == TypesInv /\ PmInv /\ [Next]_vars => PmInv'
BY PmCall, PmDone, PmFail, PmRest DEF Next, ApNoted

LEMMA PmInit == Init => PmInv
BY DEF Init, PmInv, PmKeptInv, PmReadInv

LEMMA SentIsWord ==
    ASSUME TypesInv, pmSent # Nothing
    PROVE  pmSent \in Nat
<1>1. DefaultPm \in Nat
  <2>1. 200 \div 10 \in Nat  OBVIOUS
  <2>2. QED  BY <2>1 DEF DefaultPm, PmWord
<1>2. QED  BY <1>1, SettingsAssumption DEF TypesInv, TypeOK, SettingsAssumption

\* What was read is the word that a working chip gives back.
LEMMA ReadIsEffective ==
    ASSUME TypesInv, PmInv, busy, todo = <<>>, call.name = "get_pm", failed = 0,
           pmSent # Nothing
    PROVE  PmRead = Effective(pmSent)
<1>1. Asked(todo) = {}  BY AskedNone
<1>2. \A what \in PmNames : told[what] = PmSetting(pmSent, what)
  BY <1>1 DEF PmInv, PmKeptInv, PmReadInv, Coming
<1>3. \A what \in PmNames : PmSetting(pmSent, what) \in Nat
  <2>1. /\ ModeOf(pmSent) \in Mode /\ SleepRetOf(pmSent) \in Nat
        /\ BcnOf(pmSent) \in Period /\ DtimOf(pmSent) \in Period /\ AssocOf(pmSent) \in Period
    BY SentIsWord, FieldRanges
  <2>2. 10 * Limit(SleepRetOf(pmSent)) \in Nat
    <3> DEFINE limited == Limit(SleepRetOf(pmSent))
    <3>1. limited \in 1 .. 200  BY <2>1, LimitRange
    <3> HIDE DEF limited
    <3>2. 10 * limited \in Nat  BY <3>1
    <3>3. QED  BY <3>2 DEF limited
  <2>3. /\ ModeOf(pmSent) \in Nat /\ BcnOf(pmSent) \in Nat /\ DtimOf(pmSent) \in Nat
        /\ AssocOf(pmSent) \in Nat
    BY <2>1 DEF Mode, Period
  <2>4. QED  BY <2>2, <2>3 DEF PmSetting, PmNames
<1>4. ~\E what \in PmNames : told[what] \in {Junk, Unset}
  BY <1>2, <1>3, SettingsAssumption DEF SettingsAssumption
<1>5. PmRead = PmWord(told["pm"], told["pm2_sleep_ret"], told["bcn_li_bcn"], told["bcn_li_dtim"],
                      told["assoc_listen"])
  BY <1>4 DEF PmRead
<1>6. /\ told["pm"] = ModeOf(pmSent) /\ told["pm2_sleep_ret"] = 10 * Limit(SleepRetOf(pmSent))
      /\ told["bcn_li_bcn"] = BcnOf(pmSent) /\ told["bcn_li_dtim"] = DtimOf(pmSent)
      /\ told["assoc_listen"] = AssocOf(pmSent)
  BY <1>2 DEF PmNames, PmSetting
<1>7. QED  BY <1>5, <1>6 DEF Effective

-----------------------------------------------------------------------------
(* The calls that tell their caller one value.                             *)

Tells == call.name \in {"get_stas", "get_max_stas"}

\* What such a call reads last.
Last ==
    CASE call.name = "get_stas" -> "assoclist"
      [] call.name = "get_max_stas" -> "maxassoc"

\* What it should read.
Right ==
    CASE call.name = "get_stas" -> Stations
      [] call.name = "get_max_stas" -> MaxStations

\* It has read it, if nothing went wrong.
ReadRight == failed = 0 => told[Last] = Right

ReadInv ==
    busy /\ Tells =>
        \/ \E pre : IsSeries(pre) /\ todo = pre \o <<Get(Last)>>
        \/ todo = <<>> /\ ReadRight

StasSeries == <<Get("maxassoc"), Get("assoclist")>>

\* The list of the stations is read once their greatest number is known.
CountInv ==
    busy /\ call.name = "get_stas" /\ failed = 0 =>
        \/ \E pre : IsSeries(pre) /\ todo = pre \o StasSeries
        \/ todo = <<Get("assoclist")>> /\ told["maxassoc"] = MaxStations
        \/ todo = <<>>

LEMMA ReadCall ==
    ASSUME TypesInv, NEW c \in Calls, Call(c)
    PROVE  ReadInv' /\ CountInv'
<1> DEFINE first == IF ~on /\ ~(c.name = "set_up" /\ ~c.up /\ c.itf = "STA") THEN BringUp ELSE <<>>
<1>1. call' = c /\ todo' = first \o Requests(c)  BY DEF Call
<1>2. IsSeries(first)  BY AskedBringUp, AskedNone
<1> HIDE DEF first
<1>3. CASE c.name = "get_stas"
  <2> DEFINE m == Get("maxassoc")  a == Get("assoclist")
             one == <<m>>  two == <<a>>  pre == first \o one
  <2>1. Requests(c) = one \o two /\ StasSeries = one \o two
    BY <1>3 DEF Requests, StasSeries
  <2>2. IsSeries(one) /\ IsSeries(two)  BY AskedOne
  <2>3. Last' = "assoclist"  BY <1>1, <1>3 DEF Last
  <2> HIDE DEF one
  <2>4. todo' = first \o StasSeries  BY <1>1, <2>1
  <2>5. IsSeries(pre) /\ todo' = pre \o two
    <3> HIDE DEF two
    <3>1. first \o (one \o two) = (first \o one) \o two  BY <1>2, <2>2, Joined
    <3>2. IsSeries(first \o one)  BY <1>2, <2>2, AskedBoth
    <3>3. QED  BY <2>1, <2>4, <3>1, <3>2
  <2> HIDE DEF pre
  <2>6. ReadInv'  BY <2>3, <2>5 DEF ReadInv, IsSeries, Get
  <2>7. CountInv'  BY <1>2, <2>4 DEF CountInv, IsSeries, StasSeries, Get
  <2>8. QED  BY <2>6, <2>7
<1>4. CASE c.name # "get_stas"
  <2>1. CountInv'  BY <1>1, <1>4 DEF CountInv
  <2>2. ASSUME Tells'
        PROVE  \E pre : IsSeries(pre) /\ todo' = pre \o <<Get(Last')>>
    <3>1. Requests(c) = <<Get(Last')>>
      BY <1>1, <1>4, <2>2 DEF Tells, Last, Requests
    <3>2. QED  BY <1>1, <1>2, <3>1
  <2>3. ReadInv'  BY <2>2 DEF ReadInv, IsSeries, Get
  <2>4. QED  BY <2>1, <2>3
<1>5. QED  BY <1>3, <1>4

LEMMA PairNotOne ==
    ASSUME NEW pre, IsSeries(pre), NEW a, NEW b, NEW c, b # a
    PROVE  pre \o <<b, c>> # <<a>>
<1> DEFINE pair == <<b, c>>
           one == <<a>>
<1>1. IsSeries(pair) /\ pair # <<>> /\ Head(pair) = b  BY AskedTwo
<1>2. Head(one) = a /\ Tail(one) = <<>>  OBVIOUS
<1> HIDE DEF pair, one
<1>3. SUFFICES ASSUME pre \o pair = one PROVE FALSE  BY DEF pair, one
<1>4. CASE pre = <<>>  BY <1>1, <1>2, <1>3, <1>4, EndsIn
<1>5. CASE pre # <<>>
  <2> DEFINE rest == Tail(pre)
  <2>1. Tail(one) = rest \o pair  BY <1>1, <1>3, <1>5, EndsIn
  <2>2. IsSeries(rest)  BY <1>5, AskedRest
  <2> HIDE DEF rest
  <2>3. rest \o pair # <<>>  BY <1>1, <2>2, EndsIn
  <2>4. QED  BY <1>2, <2>1, <2>3
<1>6. QED  BY <1>4, <1>5

\* The list can only be read last when the number was read.
LEMMA NumberKnown ==
    ASSUME CountInv, busy, call.name = "get_stas", failed = 0, todo = <<Get("assoclist")>>
    PROVE  told["maxassoc"] = MaxStations
<1>1. Get("maxassoc") # Get("assoclist")  BY DEF Get
<1>2. ASSUME NEW pre, IsSeries(pre)
      PROVE  todo # pre \o StasSeries
  <2>1. pre \o StasSeries # <<Get("assoclist")>>  BY <1>1, <1>2, PairNotOne DEF StasSeries
  <2>2. QED  BY <2>1
<1>3. todo # <<>>  OBVIOUS
<1>4. QED  BY <1>2, <1>3 DEF CountInv

\* A request that the chip carried out.
WentWell(r, value) ==
    /\ failed' = failed /\ value = Answer(r)
    /\ r.op = "get" => UNCHANGED chipVars

LEMMA ReadIoctl ==
    ASSUME TypesInv, ReadInv, CountInv, todo # <<>>, NEW value, Go(Head(todo), value),
           failed' # 0 \/ WentWell(Head(todo), value)
    PROVE  ReadInv'
<1> DEFINE r == Head(todo)
<1>1. UNCHANGED <<busy, call>>  BY DEF Go
<1>2. UNCHANGED <<Tells, Last>>  BY <1>1 DEF Tells, Last
<1> SUFFICES ASSUME busy, Tells
             PROVE  \/ \E pre : IsSeries(pre) /\ todo' = pre \o <<Get(Last)>>
                    \/ todo' = <<>> /\ ReadRight'
  BY <1>1, <1>2 DEF ReadInv, IsSeries, Get
<1> DEFINE last == <<Get(Last)>>
<1>3. PICK pre : IsSeries(pre) /\ todo = pre \o last  BY DEF ReadInv
<1>4. IsSeries(last)  BY AskedOne
<1>5. CASE pre # <<>>
  <2> HIDE DEF last
  <2>1. \E mid : IsSeries(mid) /\ todo' = mid \o last  BY <1>3, <1>4, <1>5, GoEnds
  <2>2. QED  BY <2>1 DEF last
<1>6. CASE pre = <<>>
  <2>1. todo = last  BY <1>3, <1>4, <1>6, EndsIn
  <2>2. r = Get(Last) /\ Tail(todo) = <<>>  BY <2>1
  <2>3. r.op = "get" /\ r.what = Last  BY <2>2 DEF Get
  <2>4. Last \in {"assoclist", "maxassoc"}  BY DEF Tells, Last
  <2>5. Added(r, value) = <<>>  BY <2>3, <2>4, AskedAdded
  <2>6. todo' = <<>>
    <3>1. todo' = <<>> \o <<>>  BY <2>2, <2>5, NextAdds DEF Go
    <3>2. QED  BY <3>1
  <2>7. ReadRight'
    <3>1. CASE failed' # 0  BY <3>1 DEF ReadRight
    <3>2. CASE WentWell(r, value) /\ (call.name = "get_stas" => failed = 0)
      <4>1. told'[Last] = value  BY <2>3 DEF Go
      <4>2. UNCHANGED chip /\ value = Answer(r)  BY <2>3, <3>2 DEF WentWell, chipVars
      <4>3. value = Right
        <5>1. CASE call.name = "get_stas"
          <6>1. Last = "assoclist" /\ failed = 0  BY <3>2, <5>1 DEF Last
          <6>2. told["maxassoc"] = MaxStations  BY <2>1, <5>1, <6>1, NumberKnown
          <6>3. MaxStations # Junk /\ Stations <= MaxStations
            BY SettingsAssumption DEF SettingsAssumption
          <6>4. QED  BY <2>3, <4>2, <5>1, <6>1, <6>2, <6>3 DEF Answer, Right
        <5>2. CASE call.name = "get_max_stas"
          BY <2>3, <4>2, <5>2 DEF Answer, Right, Last
        <5>3. QED  BY <5>1, <5>2 DEF Tells
      <4>4. Right' = Right  BY <1>1, <4>2 DEF Right
      <4>5. QED  BY <1>2, <4>1, <4>3, <4>4 DEF ReadRight
    <3>3. CASE WentWell(r, value) /\ call.name = "get_stas" /\ failed # 0
      BY <1>1, <3>3 DEF WentWell, ReadRight
    <3>4. QED  BY <3>1, <3>2, <3>3
  <2>8. QED  BY <2>6, <2>7
<1>7. QED  BY <1>5, <1>6

LEMMA CountIoctl ==
    ASSUME TypesInv, CountInv, todo # <<>>, NEW value, Go(Head(todo), value),
           failed' # 0 \/ WentWell(Head(todo), value)
    PROVE  CountInv'
<1> DEFINE r == Head(todo)
<1>1. UNCHANGED <<busy, call>>  BY DEF Go
<1> SUFFICES ASSUME busy, call.name = "get_stas", failed' = 0
             PROVE  \/ \E pre : IsSeries(pre) /\ todo' = pre \o StasSeries
                    \/ todo' = <<Get("assoclist")>> /\ told'["maxassoc"] = MaxStations
                    \/ todo' = <<>>
  BY <1>1 DEF CountInv, IsSeries, StasSeries, Get
<1>2. failed = 0 /\ value = Answer(r)  BY DEF WentWell
<1>3. ASSUME NEW pre, IsSeries(pre), todo = pre \o StasSeries
      PROVE  \/ \E mid : IsSeries(mid) /\ todo' = mid \o StasSeries
             \/ todo' = <<Get("assoclist")>> /\ told'["maxassoc"] = MaxStations
  <2>1. IsSeries(StasSeries)  BY AskedTwo DEF StasSeries
  <2>2. CASE pre # <<>>  BY <1>3, <2>1, <2>2, GoEnds
  <2>3. CASE pre = <<>>
    <3>1. todo = StasSeries  BY <1>3, <2>1, <2>3, EndsIn
    <3>2. r = Get("maxassoc") /\ Tail(todo) = <<Get("assoclist")>>  BY <3>1 DEF StasSeries
    <3>3. r.op = "get" /\ r.what = "maxassoc"  BY <3>2 DEF Get
    <3>4. Added(r, value) = <<>>  BY <3>3, AskedAdded
    <3>5. todo' = <<Get("assoclist")>>
      <4> DEFINE last == <<Get("assoclist")>>
      <4>1. todo' = <<>> \o last /\ IsSeries(last)  BY <3>2, <3>4, NextAdds, AskedOne DEF Go
      <4> HIDE DEF last
      <4>2. todo' = last  BY <4>1, AskedNone, EndsIn
      <4>3. QED  BY <4>2 DEF last
    <3>6. told'["maxassoc"] = MaxStations  BY <1>2, <3>3 DEF Go, Answer
    <3>7. QED  BY <3>5, <3>6
  <2>4. QED  BY <2>2, <2>3
<1>4. ASSUME todo = <<Get("assoclist")>>
      PROVE  todo' = <<>>
  <2>1. r = Get("assoclist") /\ Tail(todo) = <<>>  BY <1>4
  <2>2. r.what = "assoclist"  BY <2>1 DEF Get
  <2>3. Added(r, value) = <<>>  BY <2>2, AskedAdded
  <2>4. todo' = <<>> \o <<>>  BY <2>1, <2>3, NextAdds DEF Go
  <2>5. QED  BY <2>4
<1>5. QED  BY <1>2, <1>3, <1>4 DEF CountInv

LEMMA ReadDone ==
    ASSUME TypesInv, ReadInv, CountInv, Done
    PROVE  ReadInv' /\ CountInv'
<1>1. /\ todo # <<>> /\ Go(Head(todo), Answer(Head(todo))) /\ failed' = failed
      /\ IF Head(todo).op = "set" THEN Store(Head(todo)) ELSE UNCHANGED chipVars
  BY DEF Done
<1>2. WentWell(Head(todo), Answer(Head(todo)))  BY <1>1 DEF WentWell
<1>3. QED  BY <1>1, <1>2, ReadIoctl, CountIoctl

LEMMA ReadFail ==
    ASSUME TypesInv, ReadInv, CountInv, Fail
    PROVE  ReadInv' /\ CountInv'
<1>1. PICK value : Go(Head(todo), value)  BY FailSays, Zenon
<1>2. todo # <<>> /\ failed' = failed + 1  BY FailSays
<1>3. failed' # 0  BY <1>2, SettingsAssumption DEF TypesInv, TypeOK, SettingsAssumption
<1>4. QED  BY <1>1, <1>2, <1>3, ReadIoctl, CountIoctl

LEMMA ReadRest ==
    ASSUME TypesInv, ReadInv, CountInv,
           ApNoted \/ Deinit \/ Return \/ UNCHANGED vars
    PROVE  ReadInv' /\ CountInv'
<1>1. CASE ApNoted \/ Deinit \/ Return
  <2>1. busy' = FALSE  BY <1>1 DEF ApNoted, SetAp, Deinit, Return, TypesInv, TypeOK
  <2>2. QED  BY <2>1 DEF ReadInv, CountInv
<1>2. CASE UNCHANGED vars
  <2>1. UNCHANGED <<todo, call, busy, told, chip, failed>>
    BY <1>2 DEF vars, driver, chipVars, history
  <2>2. UNCHANGED <<Tells, Last, ReadRight>>  BY <2>1 DEF Tells, Last, ReadRight, Right
  <2>3. ReadInv'  BY <2>1, <2>2 DEF ReadInv, IsSeries, Get
  <2>4. CountInv'  BY <2>1 DEF CountInv, IsSeries, StasSeries, Get
  <2>5. QED  BY <2>3, <2>4
<1>3. QED  BY <1>1, <1>2

LEMMA ReadNext == TypesInv /\ ReadInv /\ CountInv /\ [Next]_vars => ReadInv' /\ CountInv'
BY ReadCall, ReadDone, ReadFail, ReadRest DEF Next, ApNoted

LEMMA ReadInit == Init => ReadInv /\ CountInv
BY DEF Init, ReadInv, CountInv

\* What a call gives its caller when it returns.
LEMMA ReturnRight ==
    ASSUME TypesInv, PmInv, ReadInv, Return
    PROVE  AnswersRight'
<1>1. /\ busy /\ todo = <<>> /\ out' = Out
      /\ UNCHANGED <<call, chip, failed, pmSent>>
  BY DEF Return, chipVars, history
<1>2. Tells => ReadRight
  <2>1. ASSUME NEW pre, IsSeries(pre)
        PROVE  todo # pre \o <<Get(Last)>>
    <3> DEFINE last == <<Get(Last)>>
    <3>1. IsSeries(last) /\ last # <<>>  BY AskedOne
    <3> HIDE DEF last
    <3>2. pre \o last # <<>>  BY <2>1, <3>1, EndsIn
    <3>3. QED  BY <1>1, <3>2 DEF last
  <2>2. QED  BY <1>1, <2>1 DEF ReadInv
<1>3. PmGivenBack'
  <2> SUFFICES ASSUME call.name = "get_pm", failed = 0, pmSent # Nothing
               PROVE  out' = Effective(pmSent)
    BY <1>1 DEF PmGivenBack
  <2>1. PmRead = Effective(pmSent)  BY <1>1, ReadIsEffective
  <2>2. QED  BY <1>1, <2>1 DEF Out
<1>6. call.name = "get_stas" /\ failed = 0 => out' = Stations
  BY <1>1, <1>2 DEF Out, Tells, ReadRight, Last, Right
<1>7. call.name = "get_max_stas" /\ failed = 0 => out' = MaxStations
  BY <1>1, <1>2 DEF Out, Tells, ReadRight, Last, Right
<1>8. QED  BY <1>1, <1>3, <1>6, <1>7 DEF AnswersRight

LEMMA RightNext ==
    ASSUME TypesInv, PmInv, ReadInv, AnswersRight, [Next]_vars
    PROVE  AnswersRight'
<1>1. CASE Return  BY <1>1, ReturnRight
<1>2. CASE busy'  BY <1>2 DEF AnswersRight
<1>3. CASE ApNoted \/ Deinit
  BY <1>3 DEF ApNoted, SetAp, Deinit, AnswersRight, PmGivenBack
<1>4. CASE UNCHANGED vars
  BY <1>4 DEF AnswersRight, PmGivenBack, vars, driver, chipVars, history
<1>5. CASE \E c \in Calls : Call(c)  BY <1>2, <1>5 DEF Call
<1>6. CASE Done \/ Fail
  <2>1. busy /\ busy' = busy
    <3>1. todo # <<>>  BY <1>6 DEF Done, Fail
    <3>2. \A r, value : Go(r, value) => busy' = busy  BY DEF Go
    <3>3. Done => busy' = busy  BY <3>2 DEF Done
    <3>4. Fail => busy' = busy  BY <3>2, FailSays
    <3>5. QED  BY <1>6, <3>1, <3>3, <3>4 DEF TypesInv, TypeOK
  <2>2. QED  BY <1>2, <2>1
<1>7. QED  BY <1>1, <1>3, <1>4, <1>5, <1>6 DEF Next, ApNoted

\* The calls that tell a value tell what the chip has, if no ioctl of theirs went wrong;
\* and what cyw43_wifi_pm was given is given back whatever was called in between.
THEOREM AnswersAreRight == Spec => []AnswersRight
<1>1. Init => AnswersRight  BY DEF Init, AnswersRight, PmGivenBack
<1>2. TypesInv /\ PmInv /\ ReadInv /\ AnswersRight /\ [Next]_vars => AnswersRight'
  BY RightNext
<1>3. QED
  BY <1>1, <1>2, TypesInit, TypesNext, PmInit, PmNext, ReadInit, ReadNext, PTL DEF Spec

=============================================================================
