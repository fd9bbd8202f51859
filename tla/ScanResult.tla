----------------------------- MODULE ScanResult -----------------------------
(***************************************************************************)
(* How the driver works out the security of a network from the information  *)
(* elements in a scan result (cyw43_ll_wifi_parse_scan_result).  An element *)
(* is a byte of type, a byte of length and the data; the last one may be    *)
(* cut off.  What the buffer holds behind the elements matters too: an      *)
(* element of a vendor is compared without a look at its length.            *)
(***************************************************************************)
EXTENDS Naturals, Sequences

Rsn == 48               \* DOT11_IE_ID_RSN
VendorSpecific == 221   \* DOT11_IE_ID_VENDOR_SPECIFIC
WpaOui == <<0, 80, 242, 1>>

Wep == 1    Wpa == 2    Wpa2 == 4    \* bits of auth_mode

-----------------------------------------------------------------------------
(* Positions of ies count from 1, as ie_ptr does from ie_offset; ie_top is  *)
(* the position after the last byte, where the bytes of behind begin.       *)

\* ie_ptr + 2 + ie_len <= ie_top.
Whole(ies, p) == p + 1 <= Len(ies) /\ p + 1 + ies[p + 1] <= Len(ies)

IsRsn(ies, p) == ies[p] = Rsn

\* memcmp takes four bytes, whether the element has them or not.
IsWpa(ies, behind, p) ==
    ies[p] = VendorSpecific /\ SubSeq(ies \o behind, p + 2, p + 5) = WpaOui

\* The length byte of a header that is cut off lies behind the elements; with
\* any value the walk is over.
Step(ies, p) == IF p = Len(ies) THEN p + 2 ELSE p + 2 + ies[p + 1]

\* The elements that the loop looks at, by their positions, from p on.
Walk(ies) ==
    LET from[p \in Nat] ==
            IF p > Len(ies) THEN {} ELSE {p} \cup from[Step(ies, p)]
    IN  from[1]

\* The bits of auth_mode.
Bits(rsn, wpa, privacy) ==
      (IF rsn THEN Wpa2 ELSE 0) + (IF wpa THEN Wpa ELSE 0) + (IF privacy THEN Wep ELSE 0)

\* auth_mode.
Security(ies, behind, privacy) ==
    LET seen == {p \in Walk(ies) : Whole(ies, p)} IN
    Bits(\E p \in seen : IsRsn(ies, p), \E p \in seen : IsWpa(ies, behind, p), privacy)

-----------------------------------------------------------------------------
(* What a network sends: a list of elements, cut after some bytes, and its  *)
(* privacy bit.  fits says that the lengths of the result agree with each   *)
(* other, and behind is what the buffer holds behind the elements.          *)

Byte == 0 .. 255

IsElement(element) ==
    /\ element \in Seq(Byte) /\ Len(element) >= 2
    /\ element[2] = Len(element) - 2

IsNetwork(network) ==
    LET last == Len(network.elements) IN
    /\ network.elements \in Seq(Seq(Byte)) /\ network.cut \in Nat
    /\ network.behind \in Seq(Byte) /\ Len(network.behind) >= 4
    /\ \A i \in 1 .. last : IsElement(network.elements[i])
    /\ network.cut # 0 => last > 0 /\ network.cut < Len(network.elements[last])

\* Its elements, one after another, up to each of them.
Joined(network) ==
    LET upTo[i \in 0 .. Len(network.elements)] ==
            IF i = 0 THEN <<>> ELSE upTo[i - 1] \o network.elements[i]
    IN  upTo

\* The bytes of the elements of a network.
Bytes(network) ==
    LET all == Joined(network)[Len(network.elements)]
    IN  SubSeq(all, 1, Len(all) - network.cut)

\* How many elements are there as a whole: a cut leaves out the last one.
WholeCount(network) ==
    LET last == Len(network.elements) IN IF network.cut = 0 THEN last ELSE last - 1

Present(network) == {network.elements[i] : i \in 1 .. WholeCount(network)}

SaysRsn(element) == element[1] = Rsn
SaysWpa(element) ==
    element[1] = VendorSpecific /\ Len(element) >= 6 /\ SubSeq(element, 3, 6) = WpaOui

\* The security a network has.
Truth(network) ==
    Bits(\E element \in Present(network) : SaysRsn(element),
         \E element \in Present(network) : SaysWpa(element), network.privacy)

\* An element of a vendor is too short for the four bytes, and the next ones
\* of the buffer, which are not its own, make them up.
Misread(network) ==
    \E i \in 1 .. WholeCount(network) :
        LET element == network.elements[i]
            before == Len(Joined(network)[i - 1])
        IN  /\ element[1] = VendorSpecific /\ Len(element) < 6
            /\ SubSeq(Bytes(network) \o network.behind, before + 3, before + 6) = WpaOui

\* The security the driver tells: the true one, but for a WPA that it misread.
Told(network) ==
    Bits(\E element \in Present(network) : SaysRsn(element),
         Misread(network) \/ \E element \in Present(network) : SaysWpa(element),
         network.privacy)

=============================================================================
