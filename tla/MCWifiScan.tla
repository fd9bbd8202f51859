----------------------------- MODULE MCWifiScan -----------------------------
(* Small instances of WifiScan.                                            *)
EXTENDS WifiScan

rsn == <<48, 2, 1, 0>>
wpa == <<221, 5, 0, 80, 242, 1, 9>>

\* The start of what says WPA, and what may make up the rest of it.
short == <<221, 2, 0, 80>>
rest == <<242, 1, 7>>

\* Also a vendor specific element that is not WPA, an element of another type,
\* and one without data.
Elements ==
    {rsn, wpa, short, rest, <<221, 4, 0, 80, 242, 4>>, <<0, 1, 48>>, <<48, 0>>}

\* What may lie behind the elements.
Zeros == <<0, 0, 0, 0>>
Behinds == {Zeros, <<242, 1, 0, 0>>}

Network(elements, cut, privacy, fits, behind) ==
    [elements |-> elements, cut |-> cut, privacy |-> privacy, fits |-> fits,
     behind |-> behind]

\* One whose short element is misread, one whose last element is cut off, and
\* a result whose lengths disagree.
SomeNetworks ==
    {Network(<<rsn, short, rest>>, 0, TRUE, TRUE, Zeros),
     Network(<<wpa, rsn>>, 1, FALSE, TRUE, Zeros),
     Network(<<rsn>>, 0, TRUE, FALSE, Zeros)}

\* Every list of up to three elements, cut anywhere in the last one.
AllNetworks ==
    {Network(<<>>, 0, privacy, TRUE, Zeros) : privacy \in BOOLEAN}
    \cup UNION {{Network(list, cut, privacy, TRUE, behind) :
                    cut \in 0 .. Len(list[Len(list)]) - 1, privacy \in BOOLEAN,
                    behind \in Behinds} :
                list \in UNION {[1 .. k -> Elements] : k \in 1 .. 3}}

\* The loop of cyw43_ll_wifi_parse_scan_result finds the security of a network
\* from its bytes, whatever elements there are and wherever they are cut off,
\* but for a WPA that it misreads; and this happens.
ASSUME SecurityIsTold ==
    /\ \A network \in AllNetworks : IsNetwork(network) /\ Found(network) = Told(network)
    /\ \E network \in AllNetworks : Misread(network) /\ Found(network) # Truth(network)
=============================================================================
