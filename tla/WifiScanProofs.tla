--------------------------- MODULE WifiScanProofs ---------------------------
(***************************************************************************)
(* Proofs about ScanResult and WifiScan, for every network and every number *)
(* of scans, results and damaged events: the parser tells the security of a *)
(* network, a scan gives its own results and no other, and wifi_scan_state  *)
(* tells the truth to an application that waits for it.                     *)
(***************************************************************************)
EXTENDS WifiScan, Integers, SequenceTheorems, FiniteSetTheorems, WellFoundedInduction, TLAPS

-----------------------------------------------------------------------------
(* Induction, for sets of numbers.                                         *)

LEMMA SetInduction ==
    ASSUME NEW S, 0 \in S, \A n \in Nat : n \in S => n + 1 \in S
    PROVE  \A n \in Nat : n \in S
<1> DEFINE T == {n \in Nat : n \notin S}
           R == OpToRel(<, Nat)
<1>1. SUFFICES ASSUME T # {}
               PROVE  FALSE
  OBVIOUS
<1>2. PICK x \in T : \A y \in T : <<y, x>> \notin R
  <2>1. T \subseteq Nat  OBVIOUS
  <2> HIDE DEF T, R
  <2>2. IsWellFoundedOn(R, Nat)  BY NatLessThanWellFounded DEF R
  <2>3. QED  BY <1>1, <2>1, <2>2, WFMin
<1>3. x \in Nat /\ x # 0 /\ x - 1 \in Nat /\ (x - 1) + 1 = x /\ x - 1 < x  OBVIOUS
<1>4. x - 1 \in T  BY <1>3
<1>5. <<x - 1, x>> \in R  BY <1>3 DEF OpToRel
<1>6. QED  BY <1>2, <1>4, <1>5

-----------------------------------------------------------------------------
(* The walk over the elements.  Its recursive function exists: it gives the *)
(* positions that a path of steps reaches.                                  *)

WalkOf(ies, f) ==
    f = [p \in Nat |-> IF p > Len(ies) THEN {} ELSE {p} \cup f[Step(ies, p)]]

\* s is a path of n steps within ies.
IsPath(ies, s, n) ==
    /\ s \in [0 .. n -> Nat]
    /\ \A i \in 0 .. n : s[i] <= Len(ies)
    /\ \A i \in 0 .. n - 1 : s[i + 1] = Step(ies, s[i])

Reached(ies, p) ==
    {q \in Nat : \E n \in Nat : \E s \in [0 .. n -> Nat] :
                    IsPath(ies, s, n) /\ s[0] = p /\ s[n] = q}

LEMMA StepType ==
    ASSUME NEW ies \in Seq(Byte), NEW p \in Nat, p <= Len(ies)
    PROVE  Step(ies, p) \in Nat
<1>1. Len(ies) \in Nat /\ \A i \in 1 .. Len(ies) : ies[i] \in Byte
  BY ElementOfSeq, LenProperties
<1>2. p # Len(ies) => p + 1 \in 1 .. Len(ies)  BY <1>1
<1>3. \A b \in Byte : b \in Nat  BY DEF Byte
<1>4. p # Len(ies) => ies[p + 1] \in Nat  BY <1>1, <1>2, <1>3
<1>5. QED  BY <1>4 DEF Step

LEMMA ReachedStep ==
    ASSUME NEW ies \in Seq(Byte), NEW p \in Nat, p <= Len(ies)
    PROVE  Reached(ies, p) = {p} \cup Reached(ies, Step(ies, p))
<1>1. Step(ies, p) \in Nat  BY StepType
<1>2. ASSUME NEW q \in Reached(ies, p), q # p
      PROVE  q \in Reached(ies, Step(ies, p))
  <2>1. PICK n \in Nat : \E s \in [0 .. n -> Nat] :
                IsPath(ies, s, n) /\ s[0] = p /\ s[n] = q
    BY <1>2 DEF Reached
  <2>2. PICK s \in [0 .. n -> Nat] : IsPath(ies, s, n) /\ s[0] = p /\ s[n] = q
    BY <2>1
  <2>3. n # 0 /\ n - 1 \in Nat  BY <1>2, <2>2
  <2> DEFINE t == [i \in 0 .. n - 1 |-> s[i + 1]]
  <2>4. t \in [0 .. n - 1 -> Nat] /\ t[0] = s[1] /\ t[n - 1] = s[n]  BY <2>3
  <2>5. IsPath(ies, t, n - 1)  BY <2>2, <2>3, <2>4 DEF IsPath
  <2>6. s[1] = Step(ies, p)  BY <2>2, <2>3 DEF IsPath
  <2> HIDE DEF t
  <2>7. QED  BY <1>2, <2>2, <2>3, <2>4, <2>5, <2>6 DEF Reached
<1>3. p \in Reached(ies, p)
  <2> DEFINE s == [i \in 0 .. 0 |-> p]
  <2>1. s \in [0 .. 0 -> Nat] /\ s[0] = p  OBVIOUS
  <2>2. IsPath(ies, s, 0)  BY <2>1 DEF IsPath
  <2> HIDE DEF s
  <2>3. QED  BY <2>1, <2>2 DEF Reached
<1>4. ASSUME NEW q \in Reached(ies, Step(ies, p))
      PROVE  q \in Reached(ies, p)
  <2>1. PICK n \in Nat : \E t \in [0 .. n -> Nat] :
                IsPath(ies, t, n) /\ t[0] = Step(ies, p) /\ t[n] = q
    BY <1>4 DEF Reached
  <2>2. PICK t \in [0 .. n -> Nat] : IsPath(ies, t, n) /\ t[0] = Step(ies, p) /\ t[n] = q
    BY <2>1
  <2> DEFINE s == [i \in 0 .. n + 1 |-> IF i = 0 THEN p ELSE t[i - 1]]
  <2>3. s \in [0 .. n + 1 -> Nat] /\ s[0] = p /\ s[n + 1] = q  BY <2>2
  <2>4. \A i \in 0 .. n + 1 : s[i] <= Len(ies)  BY <2>2 DEF IsPath
  <2>5. ASSUME NEW i \in 0 .. n
        PROVE  s[i + 1] = Step(ies, s[i])
    <3>1. s[i + 1] = t[i]  OBVIOUS
    <3>2. CASE i = 0
      BY <2>2, <2>3, <3>1, <3>2
    <3>3. CASE i # 0
      <4>1. i - 1 \in 0 .. n - 1 /\ s[i] = t[i - 1] /\ (i - 1) + 1 = i  BY <3>3
      <4>2. t[i] = Step(ies, t[i - 1])  BY <2>2, <4>1 DEF IsPath
      <4>3. QED  BY <3>1, <4>1, <4>2
    <3>4. QED  BY <3>2, <3>3
  <2> HIDE DEF s
  <2>6. IsPath(ies, s, n + 1)
    <3>1. (n + 1) - 1 = n  OBVIOUS
    <3>2. QED  BY <2>3, <2>4, <2>5, <3>1 DEF IsPath
  <2>7. n + 1 \in Nat /\ q \in Nat  BY <1>4 DEF Reached
  <2>8. QED  BY <2>3, <2>6, <2>7 DEF Reached
<1>5. QED  BY <1>2, <1>3, <1>4

LEMMA WalkIs ==
    ASSUME NEW ies \in Seq(Byte)
    PROVE  \E f : WalkOf(ies, f) /\ Walk(ies) = f[1]
<1> DEFINE g == [p \in Nat |-> Reached(ies, p)]
<1>1. \A p \in Nat : p > Len(ies) => Reached(ies, p) = {}
  BY DEF Reached, IsPath
<1>2. \A p \in Nat : p <= Len(ies) =>
        /\ Step(ies, p) \in Nat
        /\ Reached(ies, p) = {p} \cup Reached(ies, Step(ies, p))
  BY ReachedStep, StepType
<1>3. \A p \in Nat : g[p] = IF p > Len(ies) THEN {} ELSE {p} \cup g[Step(ies, p)]
  BY <1>1, <1>2
<1>4. WalkOf(ies, g)
  <2> DEFINE h == [p \in Nat |-> IF p > Len(ies) THEN {} ELSE {p} \cup g[Step(ies, p)]]
  <2>1. \A p \in Nat : g[p] = h[p]  BY <1>3
  <2>2. g = h  BY <2>1
  <2>3. QED  BY <2>2 DEF WalkOf
<1> DEFINE from == CHOOSE f : f = [p \in Nat |->
                        IF p > Len(ies) THEN {} ELSE {p} \cup f[Step(ies, p)]]
<1>5. Walk(ies) = from[1]  BY DEF Walk
<1> HIDE DEF g
<1>6. WalkOf(ies, from)  BY <1>4 DEF WalkOf
<1>7. QED  BY <1>5, <1>6
-----------------------------------------------------------------------------
(* The bytes of a network.                                                 *)

\* g[i] is the first i parts of list, one after another.
JoinedBy(list, g) ==
    g = [i \in 0 .. Len(list) |-> IF i = 0 THEN <<>> ELSE g[i - 1] \o list[i]]

LEMMA JoinedExists ==
    ASSUME NEW list, Len(list) \in Nat
    PROVE  \E g : JoinedBy(list, g)
<1> DEFINE upTo(n, g) == g = [i \in 0 .. n |-> IF i = 0 THEN <<>> ELSE g[i - 1] \o list[i]]
           S == {n \in Nat : \E g : upTo(n, g)}
<1>1. 0 \in S
  <2> DEFINE g == [i \in 0 .. 0 |-> <<>>]
  <2>1. g = [i \in 0 .. 0 |-> IF i = 0 THEN <<>> ELSE g[i - 1] \o list[i]]  OBVIOUS
  <2>2. QED  BY <2>1
<1>2. ASSUME NEW n \in Nat, n \in S
      PROVE  n + 1 \in S
  <2>1. PICK g : upTo(n, g)  BY <1>2
  <2> DEFINE h == [i \in 0 .. n + 1 |-> IF i = n + 1 THEN g[n] \o list[n + 1] ELSE g[i]]
             e == [i \in 0 .. n + 1 |-> IF i = 0 THEN <<>> ELSE h[i - 1] \o list[i]]
  <2>2. h[0] = <<>>  BY <2>1
  <2>3. ASSUME NEW i \in 1 .. n + 1
        PROVE  h[i] = h[i - 1] \o list[i]
    <3>1. i - 1 \in 0 .. n /\ h[i - 1] = g[i - 1]  OBVIOUS
    <3>2. CASE i = n + 1
      BY <3>1, <3>2
    <3>3. CASE i # n + 1
      <4>1. i \in 0 .. n /\ i # 0 /\ h[i] = g[i]  BY <3>3
      <4>2. g[i] = g[i - 1] \o list[i]  BY <2>1, <4>1
      <4>3. QED  BY <3>1, <4>1, <4>2
    <3>4. QED  BY <3>2, <3>3
  <2>4. \A i \in 0 .. n + 1 : h[i] = e[i]
    <3>1. \A i \in 0 .. n + 1 : i = 0 \/ i \in 1 .. n + 1  OBVIOUS
    <3> HIDE DEF h
    <3>2. QED  BY <2>2, <2>3, <3>1
  <2>5. h = e
    BY <2>4
  <2> HIDE DEF h
  <2>6. h = [i \in 0 .. n + 1 |-> IF i = 0 THEN <<>> ELSE h[i - 1] \o list[i]]  BY <2>5
  <2>7. n + 1 \in Nat  OBVIOUS
  <2>8. QED  BY <2>6, <2>7
<1> HIDE DEF S
<1>3. Len(list) \in S  BY <1>1, <1>2, SetInduction
<1>4. QED  BY <1>3 DEF S, JoinedBy

LEMMA BytesAre ==
    ASSUME NEW network, IsNetwork(network)
    PROVE  LET g == Joined(network)
               n == Len(network.elements)
           IN  /\ JoinedBy(network.elements, g)
               /\ Bytes(network) = SubSeq(g[n], 1, Len(g[n]) - network.cut)
<1> DEFINE list == network.elements
           from == CHOOSE g : g = [i \in 0 .. Len(list) |->
                        IF i = 0 THEN <<>> ELSE g[i - 1] \o list[i]]
<1>1. Len(list) \in Nat  BY DEF IsNetwork
<1>2. JoinedBy(list, from)  BY <1>1, JoinedExists, Zenon DEF JoinedBy
<1>3. Joined(network) = from  BY DEF Joined
<1>4. Bytes(network) = SubSeq(Joined(network)[Len(list)], 1,
                              Len(Joined(network)[Len(list)]) - network.cut)
  BY DEF Bytes
<1>5. QED  BY <1>2, <1>3, <1>4

\* Part i of list is where the parts before it end.
PartAt(list, g, j, i) ==
    /\ Len(g[i]) = Len(g[i - 1]) + Len(list[i])
    /\ \A y \in 1 .. Len(list[i]) : g[j][Len(g[i - 1]) + y] = list[i][y]

PartsTo(S, list, g, j) ==
    /\ g[j] \in Seq(S)
    /\ \A k \in 0 .. j : g[k] \in Seq(S) /\ Len(g[k]) <= Len(g[j])
    /\ \A i \in 1 .. j : PartAt(list, g, j, i)

LEMMA PartsOneMore ==
    ASSUME NEW S, NEW list \in Seq(Seq(S)), NEW g, NEW j \in Nat, j + 1 <= Len(list),
           g[j + 1] = g[j] \o list[j + 1], PartsTo(S, list, g, j)
    PROVE  PartsTo(S, list, g, j + 1)
<1>1. j + 1 \in 1 .. Len(list) /\ \A i \in 1 .. Len(list) : list[i] \in Seq(S)
  OBVIOUS
<1> DEFINE a == g[j]
           b == list[j + 1]
<1>2. g[j + 1] = a \o b /\ a \in Seq(S) /\ b \in Seq(S)
  BY <1>1 DEF PartsTo
<1>3. \A k \in 0 .. j : g[k] \in Seq(S) /\ Len(g[k]) <= Len(a)  BY DEF PartsTo
<1> HIDE DEF a, b
<1>4. /\ a \o b \in Seq(S) /\ Len(a \o b) = Len(a) + Len(b)
      /\ Len(a) \in Nat /\ Len(b) \in Nat
      /\ \A y \in 1 .. Len(a) : (a \o b)[y] = a[y]
      /\ \A y \in 1 .. Len(b) : (a \o b)[Len(a) + y] = b[y]
  BY <1>2
<1>5. ASSUME NEW k \in 0 .. j + 1
      PROVE  g[k] \in Seq(S) /\ Len(g[k]) <= Len(g[j + 1])
  <2>1. CASE k = j + 1
    <3>1. g[k] \in Seq(S)  BY <1>2, <1>4, <2>1
    <3>2. Len(a \o b) <= Len(a \o b)  BY <1>4
    <3>3. QED  BY <1>2, <2>1, <3>1, <3>2
  <2>2. CASE k # j + 1
    <3>1. k \in 0 .. j  BY <2>2
    <3>2. g[k] \in Seq(S) /\ Len(g[k]) <= Len(a)  BY <1>3, <3>1
    <3>3. Len(g[k]) \in Nat  BY <3>2
    <3>4. QED  BY <1>2, <1>4, <3>2, <3>3
  <2>3. QED  BY <2>1, <2>2
<1>6. ASSUME NEW i \in 1 .. j + 1
      PROVE  PartAt(list, g, j + 1, i)
  <2>1. CASE i = j + 1
    <3>1. i - 1 = j  BY <2>1
    <3>2. /\ Len(g[i]) = Len(a) + Len(b)
          /\ \A y \in 1 .. Len(b) : g[j + 1][Len(a) + y] = b[y]
      BY <1>2, <1>4, <2>1
    <3>3. g[i - 1] = a /\ list[i] = b  BY <2>1, <3>1 DEF a, b
    <3>4. QED  BY <3>2, <3>3 DEF PartAt
  <2>2. CASE i # j + 1
    <3>1. i \in 1 .. j /\ i - 1 \in 0 .. j /\ i \in 0 .. j /\ i \in 1 .. Len(list)
      BY <1>1, <2>2
    <3>2. PartAt(list, g, j, i)  BY <3>1 DEF PartsTo
    <3>3. Len(g[i]) <= Len(a) /\ Len(g[i]) \in Nat /\ Len(g[i - 1]) \in Nat
          /\ Len(list[i]) \in Nat
      <4>1. g[i] \in Seq(S) /\ g[i - 1] \in Seq(S) /\ list[i] \in Seq(S)
        BY <1>1, <1>3, <3>1
      <4>2. QED  BY <1>3, <3>1, <4>1
    <3>4. Len(g[i]) = Len(g[i - 1]) + Len(list[i])
          /\ \A y \in 1 .. Len(list[i]) : a[Len(g[i - 1]) + y] = list[i][y]
      BY <3>2 DEF PartAt, a
    <3>5. \A y \in 1 .. Len(list[i]) : Len(g[i - 1]) + y \in 1 .. Len(a)
      <4> DEFINE from == Len(g[i - 1])
                 size == Len(list[i])
                 to == Len(g[i])
      <4>1. from \in Nat /\ size \in Nat /\ to = from + size /\ to <= Len(a) /\ Len(a) \in Nat
        BY <1>4, <3>3, <3>4
      <4> HIDE DEF from, size, to
      <4>2. \A y \in 1 .. size : from + y \in 1 .. Len(a)  BY <4>1
      <4>3. QED  BY <4>2 DEF from, size
    <3>6. \A y \in 1 .. Len(list[i]) : g[j + 1][Len(g[i - 1]) + y] = list[i][y]
      BY <1>2, <1>4, <3>4, <3>5
    <3>7. QED  BY <3>4, <3>6 DEF PartAt
  <2>3. QED  BY <2>1, <2>2
<1>7. g[j + 1] \in Seq(S)  BY <1>2, <1>4
<1>8. QED  BY <1>5, <1>6, <1>7 DEF PartsTo

LEMMA JoinedParts ==
    ASSUME NEW S, NEW list \in Seq(Seq(S)), NEW g, JoinedBy(list, g)
    PROVE  g[0] = <<>> /\ \A j \in 0 .. Len(list) : PartsTo(S, list, g, j)
<1> DEFINE T == {j \in Nat : j <= Len(list) => PartsTo(S, list, g, j)}
<1>1. Len(list) \in Nat  OBVIOUS
<1>2. \A i \in 0 .. Len(list) : g[i] = IF i = 0 THEN <<>> ELSE g[i - 1] \o list[i]
  BY DEF JoinedBy
<1>3. g[0] = <<>>  BY <1>1, <1>2
<1>4. 0 \in T
  <2>1. g[0] \in Seq(S) /\ Len(g[0]) = 0  BY <1>3
  <2>2. \A k \in 0 .. 0 : k = 0  OBVIOUS
  <2>3. PartsTo(S, list, g, 0)  BY <2>1, <2>2 DEF PartsTo
  <2>4. QED  BY <2>3
<1>5. ASSUME NEW j \in Nat, j \in T
      PROVE  j + 1 \in T
  <2>1. ASSUME j + 1 <= Len(list)
        PROVE  PartsTo(S, list, g, j + 1)
    <3>1. j + 1 \in 0 .. Len(list) /\ j + 1 # 0 /\ (j + 1) - 1 = j  BY <1>1, <2>1
    <3>2. g[j + 1] = g[j] \o list[j + 1]  BY <1>2, <3>1
    <3>3. PartsTo(S, list, g, j)  BY <1>1, <1>5, <2>1
    <3>4. QED  BY <2>1, <3>2, <3>3, PartsOneMore
  <2>2. QED  BY <2>1
<1> HIDE DEF T
<1>6. \A j \in Nat : j \in T  BY <1>4, <1>5, SetInduction
<1>7. QED  BY <1>1, <1>3, <1>6 DEF T

-----------------------------------------------------------------------------
(* Where the elements of a network are in its bytes.                       *)

\* Element i follows position off[i - 1]; the one that is cut off, if any, has
\* a byte at least and lacks one at least.
Layout(network, ies, off) ==
    LET list == network.elements
        whole == WholeCount(network)
    IN
    /\ ies \in Seq(Byte)
    /\ off \in [0 .. whole -> Nat] /\ off[0] = 0
    /\ \A i \in 1 .. whole :
          /\ off[i] = off[i - 1] + Len(list[i]) /\ off[i] <= Len(ies)
          /\ \A y \in 1 .. Len(list[i]) : ies[off[i - 1] + y] = list[i][y]
    /\ network.cut = 0 => off[whole] = Len(ies)
    /\ network.cut # 0 =>
          /\ off[whole] < Len(ies) /\ Len(ies) < off[whole] + Len(list[whole + 1])
          /\ off[whole] + 2 <= Len(ies) => ies[off[whole] + 2] = list[whole + 1][2]

LEMMA ElementSizes ==
    ASSUME NEW network, IsNetwork(network)
    PROVE  /\ network.elements \in Seq(Seq(Byte)) /\ Len(network.elements) \in Nat
           /\ WholeCount(network) \in 0 .. Len(network.elements) /\ network.cut \in Nat
           /\ \A i \in 1 .. Len(network.elements) :
                 /\ network.elements[i] \in Seq(Byte) /\ Len(network.elements[i]) \in Nat
                 /\ Len(network.elements[i]) >= 2
                 /\ network.elements[i][2] = Len(network.elements[i]) - 2
<1>1. /\ network.elements \in Seq(Seq(Byte)) /\ Len(network.elements) \in Nat
      /\ network.cut \in Nat /\ (network.cut # 0 => Len(network.elements) > 0)
  BY DEF IsNetwork
<1>2. WholeCount(network) \in 0 .. Len(network.elements)  BY <1>1 DEF WholeCount
<1>3. ASSUME NEW i \in 1 .. Len(network.elements)
      PROVE  /\ network.elements[i] \in Seq(Byte) /\ Len(network.elements[i]) \in Nat
             /\ Len(network.elements[i]) >= 2
             /\ network.elements[i][2] = Len(network.elements[i]) - 2
  <2>1. IsElement(network.elements[i])  BY DEF IsNetwork
  <2>2. QED  BY <2>1 DEF IsElement
<1>4. QED  BY <1>1, <1>2, <1>3

LEMMA BytesLayout ==
    ASSUME NEW network, IsNetwork(network)
    PROVE  \E off : /\ Layout(network, Bytes(network), off)
                    /\ \A i \in 0 .. WholeCount(network) : off[i] = Len(Joined(network)[i])
<1> DEFINE list == network.elements
           n == Len(list)
           cut == network.cut
           ies == Bytes(network)
           m == WholeCount(network)
<1>1. /\ list \in Seq(Seq(Byte)) /\ n \in Nat /\ m \in 0 .. n /\ cut \in Nat
      /\ \A i \in 1 .. n : list[i] \in Seq(Byte) /\ Len(list[i]) \in Nat /\ Len(list[i]) >= 2
  BY ElementSizes
<1>2. cut # 0 => n > 0 /\ cut < Len(list[n])  BY DEF IsNetwork
<1>3. m = IF cut = 0 THEN n ELSE n - 1  BY DEF WholeCount
<1> DEFINE g == Joined(network)
<1>4. JoinedBy(list, g) /\ ies = SubSeq(g[n], 1, Len(g[n]) - cut)
  BY BytesAre
<1> HIDE DEF list, cut, ies, m, g
<1>5. g[0] = <<>> /\ \A j \in 0 .. n : PartsTo(Byte, list, g, j)
  BY <1>1, <1>4, JoinedParts
<1> DEFINE off(i) == Len(g[i])
           all == g[n]
<1>6. /\ off(0) = 0 /\ all \in Seq(Byte)
      /\ \A i \in 0 .. n : off(i) \in Nat /\ off(i) <= off(n)
  <2>0. n \in 0 .. n  BY <1>1
  <2> HIDE DEF n
  <2>1. \A k \in 0 .. n : g[k] \in Seq(Byte) /\ Len(g[k]) <= Len(g[n])
    BY <1>5, <2>0 DEF PartsTo
  <2>2. all \in Seq(Byte)  BY <1>1, <2>1
  <2>3. \A i \in 0 .. n : Len(g[i]) \in Nat  BY <2>1
  <2>4. Len(g[0]) = 0  BY <1>5
  <2>5. QED  BY <2>1, <2>2, <2>3, <2>4
<1>7. \A i \in 1 .. n : /\ off(i) = off(i - 1) + Len(list[i])
                        /\ \A y \in 1 .. Len(list[i]) : all[off(i - 1) + y] = list[i][y]
  <2>1. n \in 0 .. n  BY <1>1
  <2> HIDE DEF n
  <2>2. \A i \in 1 .. n : PartAt(list, g, n, i)  BY <1>5, <2>1 DEF PartsTo
  <2>3. QED  BY <2>2 DEF PartAt
<1>8. n > 0 => n - 1 \in 0 .. n /\ n \in 1 .. n  BY <1>1
<1> HIDE DEF off, all, n
<1>9. cut # 0 => off(n) = off(n - 1) + Len(list[n]) /\ Len(list[n]) \in Nat /\ off(n - 1) \in Nat
  BY <1>1, <1>2, <1>6, <1>7, <1>8
<1>10. cut <= off(n) /\ off(n) \in Nat /\ off(n) - cut \in Nat
  BY <1>1, <1>2, <1>6, <1>9
<1>11. /\ ies \in Seq(Byte) /\ Len(ies) = off(n) - cut
       /\ \A x \in 1 .. Len(ies) : ies[x] = all[x]
  <2>1. ies = SubSeq(all, 1, off(n) - cut) /\ off(n) = Len(all)  BY <1>4 DEF all, off, n
  <2>2. QED  BY <1>1, <1>6, <1>10, <2>1
<1>12. m \in Nat /\ \A i \in 1 .. m : i \in 1 .. n /\ i - 1 \in 0 .. m /\ i - 1 \in 0 .. n /\ i \in 0 .. n
  BY <1>1
<1>13. off(m) <= Len(ies) /\ off(m) \in Nat
  <2>1. CASE cut = 0
    BY <1>3, <1>10, <1>11, <2>1
  <2>2. CASE cut # 0
    BY <1>1, <1>2, <1>3, <1>9, <1>10, <1>11, <2>2
  <2>3. QED  BY <2>1, <2>2
<1>14. ASSUME NEW i \in 1 .. m
       PROVE  off(i) <= Len(ies)
  <2>1. PartsTo(Byte, list, g, m)  BY <1>1, <1>5
  <2>2. off(i) <= off(m)  BY <1>12, <2>1 DEF PartsTo, off
  <2>3. off(i) \in Nat  BY <1>6, <1>12
  <2>4. Len(ies) \in Nat  BY <1>10, <1>11
  <2>5. QED  BY <1>13, <2>2, <2>3, <2>4
<1>15. ASSUME NEW i \in 1 .. m, NEW y \in 1 .. Len(list[i])
       PROVE  ies[off(i - 1) + y] = list[i][y]
  <2>1. all[off(i - 1) + y] = list[i][y]  BY <1>7, <1>12
  <2>2. off(i) = off(i - 1) + Len(list[i]) /\ off(i - 1) \in Nat /\ Len(list[i]) \in Nat
    BY <1>1, <1>6, <1>7, <1>12
  <2>3. off(i) <= Len(ies) /\ Len(ies) \in Nat  BY <1>10, <1>11, <1>14
  <2>4. off(i - 1) + y \in 1 .. Len(ies)
    <3> DEFINE from == off(i - 1)
               size == Len(list[i])
    <3>1. from \in Nat /\ size \in Nat /\ from + size <= Len(ies) /\ Len(ies) \in Nat
          /\ y \in 1 .. size
      BY <2>2, <2>3
    <3> HIDE DEF from, size
    <3>2. from + y \in 1 .. Len(ies)  BY <3>1
    <3>3. QED  BY <3>2 DEF from
  <2>5. QED  BY <1>11, <2>1, <2>4
<1>16. cut = 0 => off(m) = Len(ies)  BY <1>3, <1>10, <1>11
<1>17. ASSUME cut # 0
       PROVE  /\ off(m) < Len(ies) /\ Len(ies) < off(m) + Len(list[m + 1])
              /\ off(m) + 2 <= Len(ies) => ies[off(m) + 2] = list[m + 1][2]
  <2>1. m = n - 1 /\ m + 1 = n  BY <1>1, <1>3, <1>17
  <2>2. off(m) < Len(ies) /\ Len(ies) < off(m) + Len(list[m + 1])
    BY <1>1, <1>2, <1>9, <1>10, <1>11, <1>17, <2>1
  <2>3. all[off(m) + 2] = list[n][2]
    <3>1. n \in 1 .. n  BY <1>2, <1>8, <1>17
    <3>2. Len(list[n]) \in Nat /\ Len(list[n]) >= 2  BY <1>1, <3>1
    <3>3. 2 \in 1 .. Len(list[n])  BY <3>2
    <3>4. QED  BY <1>7, <2>1, <3>1, <3>3
  <2>4. off(m) + 2 <= Len(ies) => off(m) + 2 \in 1 .. Len(ies)
    BY <1>10, <1>11, <1>13
  <2>5. QED  BY <1>11, <2>1, <2>2, <2>3, <2>4
<1> DEFINE f == [i \in 0 .. m |-> off(i)]
<1>18. f \in [0 .. m -> Nat] /\ f[0] = 0 /\ f[m] = off(m)
       /\ \A i \in 1 .. m : f[i] = off(i) /\ f[i - 1] = off(i - 1)
  BY <1>1, <1>6, <1>12
<1>21. \A i \in 0 .. m : f[i] = Len(Joined(network)[i])  BY DEF off, g
<1> HIDE DEF f
<1>19. \A i \in 1 .. m : off(i) = off(i - 1) + Len(list[i])  BY <1>7, <1>12
<1>20. Layout(network, ies, f)
  BY <1>11, <1>14, <1>15, <1>16, <1>17, <1>18, <1>19 DEF Layout, list, cut, m
<1>22. QED  BY <1>20, <1>21 DEF ies, m

\* Where the walk looks: at the start of every element, of the one cut off too.
LEMMA WalkLayout ==
    ASSUME NEW network, IsNetwork(network), NEW ies, NEW off, Layout(network, ies, off)
    PROVE  LET whole == WholeCount(network) IN
           Walk(ies) = {off[i - 1] + 1 : i \in 1 .. whole}
                         \cup (IF network.cut = 0 THEN {} ELSE {off[whole] + 1})
<1> DEFINE list == network.elements
           m == WholeCount(network)
           cut == network.cut
           Starts(k) == {off[i - 1] + 1 : i \in 1 .. k}
<1>1. /\ Len(list) \in Nat /\ m \in 0 .. Len(list) /\ cut \in Nat
      /\ \A i \in 1 .. Len(list) : Len(list[i]) \in Nat /\ Len(list[i]) >= 2
                                   /\ list[i][2] = Len(list[i]) - 2
  BY ElementSizes
<1>2. cut # 0 => m + 1 \in 1 .. Len(list)
  BY <1>1 DEF WholeCount, IsNetwork
<1>3. /\ ies \in Seq(Byte) /\ Len(ies) \in Nat
      /\ off \in [0 .. m -> Nat] /\ off[0] = 0
      /\ \A i \in 1 .. m :
            /\ off[i] = off[i - 1] + Len(list[i]) /\ off[i] <= Len(ies)
            /\ \A y \in 1 .. Len(list[i]) : ies[off[i - 1] + y] = list[i][y]
      /\ cut = 0 => off[m] = Len(ies)
      /\ cut # 0 =>
            /\ off[m] < Len(ies) /\ Len(ies) < off[m] + Len(list[m + 1])
            /\ off[m] + 2 <= Len(ies) => ies[off[m] + 2] = list[m + 1][2]
  BY DEF Layout
<1>4. PICK f : WalkOf(ies, f) /\ Walk(ies) = f[1]  BY <1>3, WalkIs
<1>5. \A p \in Nat : f[p] = IF p > Len(ies) THEN {} ELSE {p} \cup f[Step(ies, p)]
  <2> DEFINE h == [p \in Nat |-> IF p > Len(ies) THEN {} ELSE {p} \cup f[Step(ies, p)]]
  <2>1. f = h  BY <1>4 DEF WalkOf
  <2>2. \A p \in Nat : h[p] = IF p > Len(ies) THEN {} ELSE {p} \cup f[Step(ies, p)]
    OBVIOUS
  <2> HIDE DEF h
  <2>3. QED  BY <2>1, <2>2
<1> HIDE DEF list, m, cut
<1>6. m \in Nat /\ \A i \in 1 .. m : i \in 1 .. Len(list) /\ i - 1 \in 0 .. m /\ i \in 0 .. m
  BY <1>1
<1>7. ASSUME NEW i \in 1 .. m
      PROVE  f[off[i - 1] + 1] = {off[i - 1] + 1} \cup f[off[i] + 1]
  <2> DEFINE p == off[i - 1] + 1
             size == Len(list[i])
  <2>1. /\ off[i - 1] \in Nat /\ size \in Nat /\ size >= 2
        /\ off[i] = off[i - 1] + size /\ off[i] <= Len(ies)
        /\ ies[off[i - 1] + 2] = size - 2
    <3>1. off[i - 1] \in Nat /\ size \in Nat /\ size >= 2 /\ list[i][2] = size - 2
      BY <1>1, <1>3, <1>6
    <3>2. off[i] = off[i - 1] + size /\ off[i] <= Len(ies)  BY <1>3
    <3>3. 2 \in 1 .. size  BY <3>1
    <3>4. ies[off[i - 1] + 2] = list[i][2]  BY <1>3, <3>3
    <3>5. QED  BY <3>1, <3>2, <3>4
  <2> HIDE DEF size
  <2>2. p \in Nat /\ p < Len(ies) /\ p + 1 = off[i - 1] + 2  BY <1>3, <2>1
  <2> HIDE DEF p
  <2>3. ies[p + 1] = size - 2 /\ p # Len(ies) /\ ~(p > Len(ies))  BY <1>3, <2>1, <2>2
  <2>4. Step(ies, p) = p + 2 + (size - 2)  BY <2>3 DEF Step
  <2>5. p + 2 + (size - 2) = off[i] + 1  BY <2>1 DEF p
  <2>6. f[p] = {p} \cup f[Step(ies, p)]  BY <1>5, <2>2, <2>3, Zenon
  <2>7. f[p] = {p} \cup f[off[i] + 1]  BY <2>4, <2>5, <2>6
  <2>8. QED  BY <2>7 DEF p
<1> DEFINE T == {k \in Nat : k <= m => f[1] = Starts(k) \cup f[off[k] + 1]}
<1>8. 0 \in T
  <2>1. Starts(0) = {}  OBVIOUS
  <2>2. off[0] + 1 = 1  BY <1>3
  <2> HIDE DEF Starts
  <2>3. QED  BY <2>1, <2>2
<1>9. ASSUME NEW k \in Nat, k \in T
      PROVE  k + 1 \in T
  <2>1. ASSUME k + 1 <= m
        PROVE  f[1] = Starts(k + 1) \cup f[off[k + 1] + 1]
    <3>1. k + 1 \in 1 .. m /\ (k + 1) - 1 = k /\ k <= m  BY <1>6, <2>1
    <3>2. f[off[k] + 1] = {off[k] + 1} \cup f[off[k + 1] + 1]  BY <1>7, <3>1
    <3>3. Starts(k + 1) = Starts(k) \cup {off[k] + 1}
      <4>1. \A i \in 1 .. k + 1 : i \in 1 .. k \/ i = k + 1  OBVIOUS
      <4>2. \A i \in 1 .. k : i \in 1 .. k + 1  OBVIOUS
      <4>3. k + 1 \in 1 .. k + 1 /\ off[(k + 1) - 1] = off[k]  BY <3>1
      <4>4. QED  BY <4>1, <4>2, <4>3
    <3>4. f[1] = Starts(k) \cup f[off[k] + 1]  BY <1>9, <3>1
    <3> HIDE DEF Starts
    <3>5. QED  BY <3>2, <3>3, <3>4
  <2> HIDE DEF Starts
  <2>2. k + 1 \in Nat  OBVIOUS
  <2>3. QED  BY <2>1, <2>2
<1> HIDE DEF T
<1>10. m \in T  BY <1>6, <1>8, <1>9, SetInduction
<1>11. f[1] = Starts(m) \cup f[off[m] + 1]  BY <1>6, <1>10 DEF T
<1>12. off[m] \in Nat  BY <1>3, <1>6
<1>13. CASE cut = 0
  <2>1. off[m] + 1 \in Nat /\ off[m] + 1 > Len(ies)  BY <1>3, <1>12, <1>13
  <2>2. f[off[m] + 1] = {}  BY <1>5, <2>1
  <2>3. QED  BY <1>4, <1>11, <1>13, <2>2 DEF cut, m
<1>14. CASE cut # 0
  <2> DEFINE p == off[m] + 1
             size == Len(list[m + 1])
  <2>1. /\ size \in Nat /\ size >= 2 /\ list[m + 1][2] = size - 2
        /\ off[m] < Len(ies) /\ Len(ies) < off[m] + size
        /\ off[m] + 2 <= Len(ies) => ies[off[m] + 2] = size - 2
    BY <1>1, <1>2, <1>3, <1>14
  <2> HIDE DEF size
  <2>2. p \in Nat /\ p <= Len(ies) /\ p + 1 = off[m] + 2  BY <1>3, <1>12, <2>1
  <2>3. Step(ies, p) \in Nat /\ Step(ies, p) > Len(ies)
    <3>1. CASE p = Len(ies)
      BY <1>3, <2>2, <3>1 DEF Step
    <3>2. CASE p # Len(ies)
      <4>1. off[m] + 2 <= Len(ies)  BY <1>3, <1>12, <2>2, <3>2
      <4>2. Step(ies, p) = off[m] + size + 1  BY <1>12, <2>1, <2>2, <3>2, <4>1 DEF Step
      <4>3. QED  BY <1>3, <1>12, <2>1, <4>2
    <3>3. QED  BY <3>1, <3>2
  <2> HIDE DEF p
  <2>4. f[Step(ies, p)] = {}  BY <1>5, <2>3
  <2>5. f[p] = {p}
    <3>1. ~(p > Len(ies))  BY <1>3, <2>2
    <3>2. f[p] = {p} \cup f[Step(ies, p)]  BY <1>5, <2>2, <3>1, Zenon
    <3>3. QED  BY <2>4, <3>2
  <2>6. Walk(ies) = Starts(m) \cup {p}  BY <1>4, <1>11, <2>5 DEF p
  <2>7. QED  BY <1>14, <2>6 DEF cut, m, p
<1>15. QED  BY <1>13, <1>14

\* And which of them it takes to be whole.
LEMMA WholeLayout ==
    ASSUME NEW network, IsNetwork(network), NEW ies, NEW off, Layout(network, ies, off)
    PROVE  {p \in Walk(ies) : Whole(ies, p)}
             = {off[i - 1] + 1 : i \in 1 .. WholeCount(network)}
<1> DEFINE list == network.elements
           m == WholeCount(network)
           cut == network.cut
<1>1. /\ Len(list) \in Nat /\ m \in 0 .. Len(list) /\ cut \in Nat
      /\ \A i \in 1 .. Len(list) : Len(list[i]) \in Nat /\ Len(list[i]) >= 2
                                   /\ list[i][2] = Len(list[i]) - 2
  BY ElementSizes
<1>2. cut # 0 => m + 1 \in 1 .. Len(list)
  BY <1>1 DEF WholeCount, IsNetwork
<1>3. /\ Len(ies) \in Nat
      /\ off \in [0 .. m -> Nat]
      /\ \A i \in 1 .. m :
            /\ off[i] = off[i - 1] + Len(list[i]) /\ off[i] <= Len(ies)
            /\ \A y \in 1 .. Len(list[i]) : ies[off[i - 1] + y] = list[i][y]
      /\ cut # 0 =>
            /\ off[m] < Len(ies) /\ Len(ies) < off[m] + Len(list[m + 1])
            /\ off[m] + 2 <= Len(ies) => ies[off[m] + 2] = list[m + 1][2]
  BY DEF Layout
<1>4. Walk(ies) = {off[i - 1] + 1 : i \in 1 .. m} \cup (IF cut = 0 THEN {} ELSE {off[m] + 1})
  BY WalkLayout
<1> HIDE DEF list, m, cut
<1>5. ASSUME NEW i \in 1 .. m
      PROVE  Whole(ies, off[i - 1] + 1)
  <2> DEFINE size == Len(list[i])
  <2>1. i \in 1 .. Len(list) /\ i - 1 \in 0 .. m  BY <1>1
  <2>2. /\ off[i - 1] \in Nat /\ size \in Nat /\ size >= 2
        /\ off[i - 1] + size <= Len(ies) /\ ies[off[i - 1] + 2] = size - 2
    <3>1. off[i - 1] \in Nat /\ size \in Nat /\ size >= 2 /\ list[i][2] = size - 2
      BY <1>1, <1>3, <2>1
    <3>2. off[i - 1] + size <= Len(ies)  BY <1>3, <3>1
    <3>3. 2 \in 1 .. size  BY <3>1
    <3>4. ies[off[i - 1] + 2] = list[i][2]  BY <1>3, <3>3
    <3>5. QED  BY <3>1, <3>2, <3>4
  <2> HIDE DEF size
  <2>3. (off[i - 1] + 1) + 1 = off[i - 1] + 2  BY <2>2
  <2>4. QED  BY <1>3, <2>2, <2>3 DEF Whole
<1>6. ASSUME cut # 0
      PROVE  ~Whole(ies, off[m] + 1)
  <2> DEFINE size == Len(list[m + 1])
  <2>1. /\ size \in Nat /\ size >= 2 /\ Len(ies) < off[m] + size
        /\ off[m] + 2 <= Len(ies) => ies[off[m] + 2] = size - 2
    BY <1>1, <1>2, <1>3, <1>6
  <2> HIDE DEF size
  <2>2. off[m] \in Nat  BY <1>1, <1>3
  <2>3. (off[m] + 1) + 1 = off[m] + 2  BY <2>2
  <2>4. QED  BY <1>3, <2>1, <2>2, <2>3 DEF Whole
<1>7. QED  BY <1>4, <1>5, <1>6 DEF m

LEMMA SameFour ==
    ASSUME NEW S, NEW s \in Seq(S), NEW t \in Seq(S), NEW k \in Nat,
           k + 6 <= Len(s), 6 <= Len(t), \A j \in 3 .. 6 : s[k + j] = t[j]
    PROVE  SubSeq(s, k + 3, k + 6) = SubSeq(t, 3, 6)
<1> DEFINE a == SubSeq(s, k + 3, k + 6)
           b == SubSeq(t, 3, 6)
<1>1. Len(s) \in Nat /\ Len(t) \in Nat  OBVIOUS
<1>2. a \in Seq(S) /\ Len(a) = 4 /\ \A j \in 1 .. 4 : a[j] = s[k + 3 + j - 1]
  <2>1. \A i \in k + 3 .. k + 6 : s[i] \in S
    <3>1. \A i \in k + 3 .. k + 6 : i \in 1 .. Len(s)  BY <1>1
    <3>2. QED  BY <3>1, ElementOfSeq
  <2>2. k + 6 - (k + 3) + 1 = 4 /\ k + 3 <= k + 6 /\ k + 3 \in Int /\ k + 6 \in Int
    OBVIOUS
  <2>3. /\ a \in Seq(S)
        /\ Len(a) = IF k + 3 <= k + 6 THEN k + 6 - (k + 3) + 1 ELSE 0
        /\ \A j \in 1 .. k + 6 - (k + 3) + 1 : a[j] = s[k + 3 + j - 1]
    BY <2>1, <2>2, SubSeqProperties
  <2>4. QED  BY <2>2, <2>3
<1>3. b \in Seq(S) /\ Len(b) = 4 /\ \A j \in 1 .. 4 : b[j] = t[3 + j - 1]
  <2>1. \A i \in 3 .. 6 : t[i] \in S
    <3>1. \A i \in 3 .. 6 : i \in 1 .. Len(t)  BY <1>1
    <3>2. QED  BY <3>1, ElementOfSeq
  <2>2. /\ b \in Seq(S) /\ Len(b) = IF 3 <= 6 THEN 6 - 3 + 1 ELSE 0
        /\ \A j \in 1 .. 6 - 3 + 1 : b[j] = t[3 + j - 1]
    BY <2>1, SubSeqProperties
  <2>3. QED  BY <2>2
<1> HIDE DEF a, b
<1>4. ASSUME NEW j \in 1 .. 4
      PROVE  a[j] = b[j]
  <2>1. j + 2 \in 3 .. 6 /\ k + 3 + j - 1 = k + (j + 2) /\ 3 + j - 1 = j + 2  OBVIOUS
  <2>2. QED  BY <1>2, <1>3, <2>1
<1>5. a = b  BY <1>2, <1>3, <1>4, SeqEqual
<1>6. QED  BY <1>5 DEF a, b

LEMMA LongElement ==
    ASSUME NEW ies \in Seq(Byte), NEW behind \in Seq(Byte), NEW e \in Seq(Byte),
           NEW before \in Nat, before + Len(e) <= Len(ies), Len(e) >= 6,
           \A y \in 1 .. Len(e) : ies[before + y] = e[y]
    PROVE  SubSeq(ies \o behind, before + 3, before + 6) = SubSeq(e, 3, 6)
<1> DEFINE buffer == ies \o behind
<1>1. /\ buffer \in Seq(Byte) /\ Len(buffer) = Len(ies) + Len(behind)
      /\ Len(ies) \in Nat /\ Len(behind) \in Nat /\ Len(e) \in Nat
      /\ \A y \in 1 .. Len(ies) : buffer[y] = ies[y]
  OBVIOUS
<1> HIDE DEF buffer
<1>2. before + 6 <= Len(buffer)  BY <1>1
<1>3. ASSUME NEW j \in 3 .. 6
      PROVE  buffer[before + j] = e[j]
  <2>1. j \in 1 .. Len(e) /\ before + j \in 1 .. Len(ies)  BY <1>1
  <2>2. QED  BY <1>1, <2>1
<1>4. SubSeq(buffer, before + 3, before + 6) = SubSeq(e, 3, 6)
  BY <1>1, <1>2, <1>3, SameFour
<1>5. QED  BY <1>4 DEF buffer

\* The loop of cyw43_ll_wifi_parse_scan_result finds the security of every
\* network from its bytes, whatever elements there are, wherever they are cut
\* off and whatever lies behind them, with one exception that it names: it sees
\* a WPA that is not there exactly if it misreads a short element of a vendor.
THEOREM SecurityFound ==
    ASSUME NEW network, IsNetwork(network)
    PROVE  /\ Found(network) = Told(network)
           /\ ~Misread(network) => Found(network) = Truth(network)
<1> DEFINE ies == Bytes(network)
           list == network.elements
           behind == network.behind
           m == WholeCount(network)
           seen == {p \in Walk(ies) : Whole(ies, p)}
           before(i) == Len(Joined(network)[i])
           misread(i) ==
               /\ list[i][1] = VendorSpecific /\ Len(list[i]) < 6
               /\ SubSeq(ies \o behind, before(i - 1) + 3, before(i - 1) + 6) = WpaOui
<1>1. PICK off : Layout(network, ies, off) /\ \A i \in 0 .. m : off[i] = before(i)
  BY BytesLayout
<1>2. seen = {off[i - 1] + 1 : i \in 1 .. m}  BY <1>1, WholeLayout
<1>3. m \in 0 .. Len(list) /\ Len(list) \in Nat  BY ElementSizes
<1>4. Present(network) = {list[i] : i \in 1 .. m}  BY DEF Present
<1>5. ASSUME NEW i \in 1 .. m
      PROVE  /\ IsRsn(ies, off[i - 1] + 1) <=> SaysRsn(list[i])
             /\ IsWpa(ies, behind, off[i - 1] + 1) <=> SaysWpa(list[i]) \/ misread(i)
  <2> DEFINE p == off[i - 1] + 1
             e == list[i]
  <2>1. i \in 1 .. Len(list) /\ i - 1 \in 0 .. m  BY <1>3
  <2>2. /\ ies \in Seq(Byte) /\ off[i - 1] \in Nat
        /\ off[i - 1] + Len(e) <= Len(ies)
        /\ \A y \in 1 .. Len(e) : ies[off[i - 1] + y] = e[y]
    BY <1>1, <2>1 DEF Layout
  <2>3. e \in Seq(Byte) /\ Len(e) \in Nat /\ Len(e) >= 2 /\ behind \in Seq(Byte)
    BY <2>1 DEF IsNetwork, IsElement
  <2>4. off[i - 1] = before(i - 1)  BY <1>1, <2>1
  <2> HIDE DEF ies, e, behind, before
  <2>5. ies[p] = e[1]  BY <2>2, <2>3
  <2>6. p + 2 = off[i - 1] + 3 /\ p + 5 = off[i - 1] + 6  BY <2>2
  <2>7. Len(e) >= 6 => SubSeq(ies \o behind, off[i - 1] + 3, off[i - 1] + 6) = SubSeq(e, 3, 6)
    BY <2>2, <2>3, LongElement
  <2>8. Len(e) >= 6 \/ Len(e) < 6  BY <2>3
  <2>9. ~(Len(e) >= 6 /\ Len(e) < 6)  BY <2>3
  <2>10. IsRsn(ies, p) <=> SaysRsn(e)  BY <2>5 DEF IsRsn, SaysRsn
  <2>11. IsWpa(ies, behind, p) <=> SaysWpa(e) \/ misread(i)
    BY <2>4, <2>5, <2>6, <2>7, <2>8, <2>9, Zenon DEF IsWpa, SaysWpa, e
  <2>12. QED  BY <2>10, <2>11 DEF p, e
<1>6. Misread(network) <=> \E i \in 1 .. m : misread(i)  BY Zenon DEF Misread
<1> HIDE DEF misread
<1>7. (\E p \in seen : IsRsn(ies, p)) <=> \E e \in Present(network) : SaysRsn(e)
  <2> HIDE DEF seen, list, ies, m
  <2>1. QED  BY <1>2, <1>4, <1>5
<1>8. (\E p \in seen : IsWpa(ies, behind, p))
         <=> Misread(network) \/ \E e \in Present(network) : SaysWpa(e)
  <2> HIDE DEF seen, list, ies, m, behind
  <2>1. QED  BY <1>2, <1>4, <1>5, <1>6
<1>9. Found(network) = Bits(\E p \in seen : IsRsn(ies, p),
                            \E p \in seen : IsWpa(ies, behind, p), network.privacy)
  BY DEF Found, Security
<1> HIDE DEF seen, list, ies, m, behind
<1>10. Found(network) = Told(network)  BY <1>7, <1>8, <1>9 DEF Told, Bits
<1>11. ~Misread(network) => Told(network) = Truth(network)  BY DEF Told, Truth, Bits
<1>12. QED  BY <1>10, <1>11

-----------------------------------------------------------------------------
(* Types.                                                                  *)

Events == [scan : 1 .. MaxScans, status : Statuses, network : Networks \cup {NoNetwork}]

DriverType ==
    /\ up \in BOOLEAN /\ scanState \in 0 .. 2 /\ scan \in 0 .. MaxScans
    /\ pc \in {"idle", "ask", "answer", "other", "poll"}
    /\ scanState # 0 => up

Results == [scan : 1 .. MaxScans, auth : 0 .. 7]

GivenType == given \in Seq(Results)

ChipType ==
    /\ chipScan \in 0 .. MaxScans /\ queue \in Seq(Events)
    /\ damage \in 0 .. MaxDamage

HeardType == heard \in Seq(Networks) /\ Len(heard) <= MaxResults

HistoryType ==
    /\ fate \in {"off", "asked", "running", "lost", "refused", "aborted", "damaged"}
    /\ clean \in BOOLEAN /\ overlap \in BOOLEAN

LEMMA TypeParts ==
    TypeOK <=> DriverType /\ GivenType /\ ChipType /\ HeardType /\ HistoryType
BY DEF TypeOK, DriverType, GivenType, ChipType, HeardType, HistoryType, Events, Results

LEMMA TypePartsNext ==
    TypeOK' <=> DriverType' /\ GivenType' /\ ChipType' /\ HeardType' /\ HistoryType'
BY DEF TypeOK, DriverType, GivenType, ChipType, HeardType, HistoryType, Events, Results

\* auth_mode is three bits, whatever the elements are.
LEMMA SecurityBits ==
    ASSUME NEW ies, NEW behind, NEW privacy
    PROVE  Security(ies, behind, privacy) \in 0 .. 7
<1> DEFINE seen == {p \in Walk(ies) : Whole(ies, p)}
           rsn == \E p \in seen : IsRsn(ies, p)
           wpa == \E p \in seen : IsWpa(ies, behind, p)
<1>1. Security(ies, behind, privacy) =
          (IF rsn THEN 4 ELSE 0) + (IF wpa THEN 2 ELSE 0) + (IF privacy THEN 1 ELSE 0)
  BY DEF Security, Bits, Wep, Wpa, Wpa2
<1> HIDE DEF rsn, wpa
<1>2. QED  BY <1>1

LEMMA EventTypes ==
    ASSUME ChipType, chipScan # 0, NEW status \in Statuses,
           NEW network \in Networks \cup {NoNetwork}
    PROVE  /\ Event(chipScan, status, network) \in Events
           /\ Append(queue, Event(chipScan, status, network)) \in Seq(Events)
<1>1. chipScan \in 1 .. MaxScans  BY WifiScanAssumption DEF WifiScanAssumption, ChipType
<1>2. Event(chipScan, status, network) \in Events  BY <1>1 DEF Event, Events
<1>3. QED  BY <1>2 DEF ChipType

LEMMA HandleType ==
    ASSUME DriverType, GivenType, ChipType, Handle
    PROVE  DriverType' /\ GivenType' /\ ChipType'
<1> DEFINE event == Head(queue)
<1>1. event \in Events /\ Tail(queue) \in Seq(Events)  BY DEF Handle, ChipType
<1>2. ChipType'  BY <1>1 DEF Handle, ChipType
<1>3. DriverType'
  <2>1. scanState' \in 0 .. 2 /\ (scanState' # 0 => scanState # 0)
    BY DEF Handle, DriverType, AfterStatus
  <2>2. QED  BY <2>1 DEF Handle, DriverType
<1>4. GivenType'
  <2> DEFINE auth == Found(event.network)
  <2>1. auth \in 0 .. 7  BY SecurityBits DEF Found
  <2>2. event.scan \in 1 .. MaxScans  BY <1>1 DEF Events
  <2> DEFINE result == [scan |-> event.scan, auth |-> auth]
  <2>3. result \in Results  BY <2>1, <2>2 DEF Results
  <2>4. given' = Append(given, result) \/ given' = given  BY DEF Handle
  <2> HIDE DEF result
  <2>5. Append(given, result) \in Seq(Results)  BY <2>3 DEF GivenType
  <2>6. QED  BY <2>4, <2>5 DEF GivenType
<1>5. QED  BY <1>2, <1>3, <1>4

\* Every step keeps the types.
LEMMA NextTypes ==
    ASSUME TypeOK, [Next]_vars
    PROVE  TypeOK'
<1> USE DEF driver, chip, calls
<1>1. DriverType /\ GivenType /\ ChipType /\ HeardType /\ HistoryType  BY TypeParts
<1>2. CASE SetUp
  BY <1>1, <1>2, TypePartsNext DEF SetUp, DriverType, GivenType, ChipType, HeardType, HistoryType
<1>3. CASE Deinit
  <2>1. GivenType' /\ HeardType'
    BY <1>1, <1>3 DEF Deinit, GivenType, HeardType
  <2>2. DriverType'
    <3>1. 0 \in 0 .. 2  OBVIOUS
    <3>2. QED  BY <1>1, <1>3, <3>1, Zenon DEF Deinit, DriverType
  <2>3. HistoryType'  BY <1>3 DEF Deinit, HistoryType
  <2>4. ChipType'
    BY <1>1, <1>3, WifiScanAssumption DEF Deinit, ChipType, WifiScanAssumption
  <2>5. QED  BY <2>1, <2>2, <2>3, <2>4, TypePartsNext
<1>4. CASE Scan
  <2>1. DriverType'
    BY <1>1, <1>4, WifiScanAssumption DEF Scan, DriverType, WifiScanAssumption
  <2>2. GivenType' /\ ChipType' /\ HeardType'
    BY <1>1, <1>4 DEF Scan, Begun, GivenType, ChipType, HeardType
  <2>3. HistoryType'  BY <1>1, <1>4 DEF Scan, Begun, HistoryType
  <2>4. QED  BY <2>1, <2>2, <2>3, TypePartsNext
<1>5. CASE Asked
  BY <1>1, <1>5, TypePartsNext DEF Asked, DriverType, GivenType, ChipType, HeardType, HistoryType
<1>6. CASE OtherCall \/ Poll \/ Return
  BY <1>1, <1>6, TypePartsNext
  DEF OtherCall, Poll, Return, DriverType, GivenType, ChipType, HeardType, HistoryType
<1>7. CASE Handle
  <2>1. HeardType' /\ HistoryType'  BY <1>1, <1>7 DEF Handle, HeardType, HistoryType
  <2>2. QED  BY <1>1, <1>7, <2>1, HandleType, TypePartsNext
<1>8. CASE Drop
  <2>1. ChipType'
    BY <1>1, <1>8, WifiScanAssumption DEF Drop, ChipType, WifiScanAssumption
  <2>2. QED
    BY <1>1, <1>8, <2>1, TypePartsNext DEF Drop, DriverType, GivenType, HeardType, HistoryType
<1>9. CASE Accept
  <2>1. queue' = queue \/ (chipScan # 0 /\ queue' = Append(queue, Event(chipScan, "abort", NoNetwork)))
    BY <1>9 DEF Accept
  <2>2. queue' \in Seq(Events)  BY <1>1, <2>1, EventTypes DEF ChipType, Statuses
  <2>3. ChipType'  BY <1>1, <1>9, <2>2 DEF Accept, ChipType, DriverType
  <2>4. HeardType'
    <3>1. heard' = heard \/ heard' = <<>>  BY <1>9 DEF Accept
    <3>2. <<>> \in Seq(Networks) /\ Len(<<>>) = 0  OBVIOUS
    <3>3. 0 <= MaxResults  BY WifiScanAssumption DEF WifiScanAssumption
    <3>4. QED  BY <1>1, <3>1, <3>2, <3>3 DEF HeardType
  <2>5. QED
    BY <1>1, <1>9, <2>3, <2>4, TypePartsNext DEF Accept, DriverType, GivenType, HistoryType
<1>10. CASE End
  <2>1. queue' \in Seq(Events)  BY <1>1, <1>10, EventTypes DEF End, Statuses
  <2>2. ChipType'  BY <1>1, <1>10, <2>1, WifiScanAssumption DEF End, ChipType, WifiScanAssumption
  <2>3. HistoryType'  BY <1>1, <1>10 DEF End, HistoryType
  <2>4. QED
    BY <1>1, <1>10, <2>2, <2>3, TypePartsNext DEF End, DriverType, GivenType, HeardType
<1>11. ASSUME NEW network \in Networks, Report(network)
       PROVE  TypeOK'
  <2>1. queue' \in Seq(Events)  BY <1>1, <1>11, EventTypes DEF Report, Statuses
  <2>2. ChipType'  BY <1>1, <1>11, <2>1 DEF Report, ChipType
  <2>3. HeardType'
    BY <1>1, <1>11, WifiScanAssumption DEF Report, HeardType, WifiScanAssumption
  <2>4. QED
    BY <1>1, <1>11, <2>2, <2>3, TypePartsNext DEF Report, DriverType, GivenType, HistoryType
<1>12. CASE UNCHANGED vars
  BY <1>1, <1>12, TypePartsNext
  DEF vars, DriverType, GivenType, ChipType, HeardType, HistoryType
<1>13. QED
  BY <1>2, <1>3, <1>4, <1>5, <1>6, <1>7, <1>8, <1>9, <1>10, <1>11, <1>12 DEF Next

\* The variables of driver, chip and history keep their types, and no scan
\* reports more than it may, for every bound and every set of networks.
THEOREM ScanTypes == Spec => []TypeOK
<1>1. Init => TypeOK
  <2> SUFFICES ASSUME Init
               PROVE  TypeOK
    OBVIOUS
  <2>1. 0 \in 0 .. MaxScans /\ 0 \in 0 .. MaxDamage /\ 0 <= MaxResults
    BY WifiScanAssumption DEF WifiScanAssumption
  <2>2. /\ <<>> \in Seq(Results) /\ <<>> \in Seq(Events) /\ <<>> \in Seq(Networks)
        /\ Len(<<>>) = 0
    OBVIOUS
  <2>3. DriverType
    <3>1. 0 \in 0 .. 2  OBVIOUS
    <3>2. QED  BY <2>1, <3>1, Zenon DEF Init, DriverType
  <2>4. HistoryType  BY DEF Init, HistoryType
  <2>5. GivenType /\ ChipType /\ HeardType
    BY <2>1, <2>2 DEF Init, GivenType, ChipType, HeardType
  <2>6. QED  BY <2>3, <2>4, <2>5, TypeParts
<1>2. TypeOK /\ [Next]_vars => TypeOK'  BY NextTypes
<1>3. QED  BY <1>1, <1>2, PTL DEF Spec

-----------------------------------------------------------------------------
(* wifi_scan_state.  While the application never began a scan over another *)
(* one, a scan that is not active has left nothing on the way to the        *)
(* driver: the success that ends it is the last event of all.               *)

Success(i) == queue[i].status = "success"
Silent == chipScan = 0 /\ queue = <<>>

ScanInv ==
    ~overlap =>
        /\ clean
        /\ scanState # 1 => Silent
        /\ pc = "ask" => Silent /\ scanState = 1 /\ scan # 0
        /\ \A i \in DOMAIN queue : Success(i) => i = Len(queue) /\ chipScan = 0
        /\ fate = "running" /\ scanState = 1 /\ chipScan = 0 =>
              \E i \in DOMAIN queue : Success(i)

\* The first event is handled: the state is 2 after a success, 1 after another.
LEMMA HandleTruth ==
    ASSUME TypeOK, ScanInv, Handle
    PROVE  ScanInv'
<1> SUFFICES ASSUME ~overlap'
             PROVE  ScanInv'
  BY DEF ScanInv
<1>1. ~overlap /\ UNCHANGED <<overlap, clean, pc, scan, chipScan, fate>>
  BY DEF Handle, calls
<1>2. queue \in Seq(Events) /\ queue # <<>> /\ queue' = Tail(queue)
  BY DEF Handle, TypeOK, Events
<1>3. scanState = 1  BY <1>1, <1>2 DEF ScanInv, Silent
<1>4. Len(queue) \in Nat /\ Len(queue) >= 1 /\ Len(queue') = Len(queue) - 1
      /\ \A i \in 1 .. Len(queue') : queue'[i] = queue[i + 1]
  BY <1>2
<1>5. scanState' = IF Success(1) THEN 2 ELSE 1
  BY <1>2, <1>3 DEF Handle, AfterStatus, Parsed, Success
<1>6. pc # "ask"  BY <1>1, <1>2 DEF ScanInv, Silent
<1>7. \A i \in DOMAIN queue' : Success(i)' => i = Len(queue') /\ chipScan' = 0
  <2>1. SUFFICES ASSUME NEW i \in 1 .. Len(queue'), Success(i)'
                 PROVE  i = Len(queue') /\ chipScan' = 0
    BY <1>2
  <2>2. i + 1 \in DOMAIN queue  BY <1>2, <1>4
  <2>3. Success(i + 1)  BY <1>4, <2>1 DEF Success
  <2>4. i + 1 = Len(queue) /\ chipScan = 0  BY <1>1, <2>2, <2>3 DEF ScanInv
  <2>5. QED  BY <1>1, <1>4, <2>4
<1>8. CASE Success(1)
  <2>1. Len(queue) = 1 /\ chipScan = 0  BY <1>1, <1>2, <1>4, <1>8 DEF ScanInv
  <2>2. queue' = <<>>  BY <1>2, <2>1
  <2>3. Silent'  BY <1>1, <2>1, <2>2 DEF Silent
  <2>4. clean'  BY <1>1 DEF ScanInv
  <2>5. scanState' # 1  BY <1>5, <1>8
  <2>6. QED  BY <1>1, <1>6, <1>7, <2>3, <2>4, <2>5 DEF ScanInv
<1>9. CASE ~Success(1)
  <2>1. scanState' = 1  BY <1>5, <1>9
  <2>2. ASSUME fate = "running", chipScan = 0
        PROVE  \E i \in DOMAIN queue' : Success(i)'
    <3>1. PICK i \in DOMAIN queue : Success(i)  BY <1>1, <1>3, <2>2 DEF ScanInv
    <3>2. i \in 1 .. Len(queue) /\ i # 1  BY <1>2, <1>9, <3>1
    <3>3. i - 1 \in 1 .. Len(queue') /\ (i - 1) + 1 = i  BY <1>4, <3>2
    <3>4. i - 1 \in DOMAIN queue' /\ queue'[i - 1] = queue[i]  BY <1>2, <1>4, <3>3
    <3>5. QED  BY <3>1, <3>4 DEF Success
  <2>3. clean'  BY <1>1 DEF ScanInv
  <2>4. QED  BY <1>1, <1>6, <1>7, <2>1, <2>2, <2>3 DEF ScanInv
<1>10. QED  BY <1>8, <1>9

\* The chip adds an event.
LEMMA AppendTruth ==
    ASSUME TypeOK, ScanInv, chipScan # 0, NEW event \in Events, queue' = Append(queue, event),
           UNCHANGED <<driver, calls>>,
           \/ event.status # "success" /\ (chipScan' # 0 \/ fate' # "running")
           \/ event.status = "success" /\ chipScan' = 0
    PROVE  ScanInv'
<1> SUFFICES ASSUME ~overlap'
             PROVE  ScanInv'
  BY DEF ScanInv
<1>1. ~overlap /\ UNCHANGED <<overlap, clean, pc, scanState>>  BY DEF calls, driver
<1>2. clean /\ scanState = 1 /\ pc # "ask"  BY <1>1 DEF ScanInv, Silent
<1>3. queue \in Seq(Events)  BY DEF TypeOK, Events
<1>4. Len(queue) \in Nat /\ Len(queue') = Len(queue) + 1 /\ DOMAIN queue' = 1 .. Len(queue')
      /\ queue'[Len(queue')] = event
      /\ \A i \in 1 .. Len(queue) : queue'[i] = queue[i]
  BY <1>3
<1>5. \A i \in 1 .. Len(queue) : ~Success(i)'
  <2>1. \A i \in DOMAIN queue : ~Success(i)  BY <1>1 DEF ScanInv
  <2>2. QED  BY <1>3, <1>4, <2>1 DEF Success
<1>6. \A i \in DOMAIN queue' : Success(i)' => i = Len(queue')
  <2>1. \A i \in DOMAIN queue' : i \in 1 .. Len(queue) \/ i = Len(queue')  BY <1>4
  <2>2. QED  BY <1>5, <2>1
<1>7. Len(queue') \in DOMAIN queue'  BY <1>4
<1>8. ASSUME NEW i \in DOMAIN queue', Success(i)'
      PROVE  chipScan' = 0
  <2>1. event.status = "success"  BY <1>4, <1>6, <1>8 DEF Success
  <2>2. QED  BY <2>1
<1>9. ASSUME fate' = "running", chipScan' = 0
      PROVE  \E i \in DOMAIN queue' : Success(i)'
  <2>1. event.status = "success"  BY <1>9
  <2>2. QED  BY <1>4, <1>7, <2>1 DEF Success
<1>10. QED  BY <1>1, <1>2, <1>6, <1>8, <1>9 DEF ScanInv

\* Every step keeps ScanInv.
LEMMA NextTruth ==
    ASSUME TypeOK, ScanInv, [Next]_vars
    PROVE  ScanInv'
<1>1. CASE SetUp \/ OtherCall \/ Poll \/ Return
  BY <1>1 DEF SetUp, OtherCall, Poll, Return, chip, calls, ScanInv, Silent, Success
<1>2. CASE Deinit
  BY <1>2 DEF Deinit, ScanInv, Silent, Success
<1>3. CASE Scan
  <2>1. ~overlap' => ~overlap /\ scanState # 1  BY <1>3 DEF Scan, Begun
  <2>2. ~overlap' => Silent  BY <2>1 DEF ScanInv
  <2>3. UNCHANGED <<chipScan, queue>> /\ scanState' = 1 /\ fate' = "asked"
    BY <1>3 DEF Scan, Begun
  <2>4. clean' <=> Silent  BY <1>3 DEF Scan, Begun, Silent
  <2>5. scan' # 0  BY <1>3 DEF Scan, TypeOK
  <2>6. ~overlap' => queue' = <<>> /\ Silent' /\ clean'  BY <2>2, <2>3, <2>4 DEF Silent
  <2>7. QED  BY <2>3, <2>5, <2>6 DEF ScanInv
<1>4. CASE Asked
  BY <1>4 DEF Asked, calls, ScanInv, Silent, Success
<1>5. CASE Handle  BY <1>5, HandleTruth
<1>6. CASE Drop
  <2> SUFFICES ASSUME ~overlap'
               PROVE  ScanInv'
    BY DEF ScanInv
  <2>1. ~overlap /\ UNCHANGED <<overlap, clean, pc, scanState, chipScan>> /\ fate' = "damaged"
    BY <1>6 DEF Drop, calls, driver
  <2>2. queue \in Seq(Events) /\ queue # <<>> /\ queue' = Tail(queue)
    BY <1>6 DEF Drop, TypeOK, Events
  <2>3. clean /\ scanState = 1 /\ pc # "ask"  BY <2>1, <2>2 DEF ScanInv, Silent
  <2>4. ASSUME NEW i \in DOMAIN queue', Success(i)'
        PROVE  i = Len(queue') /\ chipScan' = 0
    <3>1. i \in 1 .. Len(queue') /\ Len(queue) \in Nat /\ Len(queue') = Len(queue) - 1
          /\ i + 1 \in DOMAIN queue /\ queue'[i] = queue[i + 1]
      BY <2>2, <2>4
    <3>2. Success(i + 1)  BY <2>4, <3>1 DEF Success
    <3>3. i + 1 = Len(queue) /\ chipScan = 0  BY <2>1, <3>1, <3>2 DEF ScanInv
    <3>4. QED  BY <2>1, <3>1, <3>3
  <2>5. QED  BY <2>1, <2>3, <2>4 DEF ScanInv
<1>7. CASE Accept
  <2> SUFFICES ASSUME ~overlap'
               PROVE  ScanInv'
    BY DEF ScanInv
  <2>1. ~overlap /\ UNCHANGED <<overlap, clean, scanState>> /\ pc = "ask" /\ pc' = "answer"
    BY <1>7 DEF Accept, calls
  <2>2. clean /\ scanState = 1 /\ Silent  BY <2>1 DEF ScanInv
  <2>3. chipScan = 0 /\ chipScan' = scan /\ queue' = <<>>  BY <1>7, <2>2 DEF Accept, Silent
  <2>4. scan # 0
    BY <2>1, <2>2 DEF ScanInv
  <2>5. QED  BY <2>1, <2>2, <2>3, <2>4 DEF ScanInv
<1>8. CASE End
  <2>0. PICK status \in {"success", "abort"} :
           /\ queue' = Append(queue, Event(chipScan, status, NoNetwork))
           /\ fate' = IF status = "abort" /\ fate = "running" THEN "aborted" ELSE fate
    BY <1>8 DEF End
  <2>2. chipScan # 0 /\ chipScan' = 0 /\ UNCHANGED <<driver, calls>>  BY <1>8 DEF End
  <2> DEFINE event == Event(chipScan, status, NoNetwork)
  <2>1. /\ queue' = Append(queue, event)
        /\ fate' = IF status = "abort" /\ fate = "running" THEN "aborted" ELSE fate
    BY <2>0
  <2>3. event \in Events /\ event.status = status
    BY <2>2, EventTypes, TypeParts DEF Event, Statuses
  <2>4. \/ event.status # "success" /\ fate' # "running"
        \/ event.status = "success"
    BY <2>1, <2>3
  <2> HIDE DEF event
  <2>5. QED  BY <2>1, <2>2, <2>3, <2>4, AppendTruth
<1>9. ASSUME NEW network \in Networks, Report(network)
      PROVE  ScanInv'
  <2> DEFINE event == Event(chipScan, "partial", network)
  <2>1. event \in Events /\ event.status = "partial"
    BY <1>9, EventTypes, TypeParts DEF Report, Event, Statuses
  <2>2. chipScan # 0 /\ UNCHANGED <<driver, calls, chipScan>> /\ queue' = Append(queue, event)
    BY <1>9 DEF Report
  <2> HIDE DEF event
  <2>3. QED  BY <2>1, <2>2, AppendTruth
<1>10. CASE UNCHANGED vars
  BY <1>10 DEF vars, driver, chip, calls, ScanInv, Silent, Success
<1>11. QED
  BY <1>1, <1>2, <1>3, <1>4, <1>5, <1>6, <1>7, <1>8, <1>9, <1>10 DEF Next

\* wifi_scan_state is 1 exactly while the chip scans or the end of its scan is
\* on its way, for an application that does not begin a scan over another, unless
\* the request or an event was lost or the chip aborted the scan.
THEOREM ActiveMeansScanning == Spec => []ActiveIsTrue
<1>1. Init => ScanInv  BY DEF Init, ScanInv, Silent, Success
<1>2. TypeOK /\ ScanInv /\ [Next]_vars => ScanInv'  BY NextTruth
<1>3. ScanInv => ActiveIsTrue
  <2> SUFFICES ASSUME ScanInv, ~overlap
               PROVE  ActiveIsTrue
    BY DEF ActiveIsTrue, ScanInv
  <2>1. clean  BY DEF ScanInv
  <2>2. ASSUME fate = "running", scanState = 1, chipScan = 0
        PROVE  \E i \in DOMAIN queue : queue[i].status = "success"
    BY <2>2 DEF ScanInv, Success
  <2>3. ASSUME scanState # 1
        PROVE  chipScan = 0 /\ DOMAIN queue = {}
    BY <2>3 DEF ScanInv, Silent
  <2>4. QED  BY <2>1, <2>2, <2>3 DEF ActiveIsTrue
<1>4. QED  BY <1>1, <1>2, <1>3, ScanTypes, PTL DEF Spec

-----------------------------------------------------------------------------
(* The results of a scan.  While a scan that began cleanly runs, its first  *)
(* n results have been handled and given as they should; the others are in  *)
(* the queue in their order, and then the success that ends it.             *)

GivenUpTo(n) ==
    /\ Len(given) = Valid(n)
    /\ \A i \in 1 .. n : heard[i].fits =>
          /\ Valid(i) \in 1 .. Len(given)
          /\ given[Valid(i)] = [scan |-> scan, auth |-> Told(heard[i])]

Coming(n) ==
    /\ \/ chipScan = scan /\ scanState = 1 /\ Len(queue) = Len(heard) - n
       \/ /\ chipScan = 0 /\ scanState = 1 /\ Len(queue) = Len(heard) - n + 1
          /\ queue[Len(queue)].status = "success"
       \/ chipScan = 0 /\ scanState = 2 /\ queue = <<>> /\ n = Len(heard)
    /\ \A j \in 1 .. Len(heard) - n : queue[j] = Event(scan, "partial", heard[n + j])

ResultsInv ==
    clean =>
        /\ pc = "ask" => /\ chipScan = 0 /\ queue = <<>> /\ given = <<>>
                         /\ scanState = 1 /\ scan # 0 /\ fate # "running"
        /\ fate = "running" => scan # 0 /\ \E n \in 0 .. Len(heard) : GivenUpTo(n) /\ Coming(n)

\* One result more counts if it is valid.
LEMMA ValidCounts ==
    ASSUME NEW n \in Nat
    PROVE  /\ Valid(n) \in Nat
           /\ Valid(n + 1) = Valid(n) + (IF heard[n + 1].fits THEN 1 ELSE 0)
<1> DEFINE A == {i \in 1 .. n : heard[i].fits}
           B == {i \in 1 .. n + 1 : heard[i].fits}
<1>1. IsFiniteSet(A)
  <2>1. IsFiniteSet(1 .. n)  BY FS_Interval
  <2>2. QED  BY <2>1, FS_Subset
<1>2. B = IF heard[n + 1].fits THEN A \cup {n + 1} ELSE A
  <2>1. \A i \in 1 .. n + 1 : i \in 1 .. n \/ i = n + 1  OBVIOUS
  <2>2. (\A i \in 1 .. n : i \in 1 .. n + 1) /\ n + 1 \in 1 .. n + 1  OBVIOUS
  <2>3. QED  BY <2>1, <2>2
<1>3. n + 1 \notin A  OBVIOUS
<1>4. Valid(n) = Cardinality(A) /\ Valid(n + 1) = Cardinality(B)  BY DEF Valid
<1> HIDE DEF A, B
<1>5. Cardinality(A) \in Nat  BY <1>1, FS_CardinalityType
<1>6. Cardinality(A \cup {n + 1}) = IF n + 1 \in A THEN Cardinality(A) ELSE Cardinality(A) + 1
  BY <1>1, FS_AddElement, Zenon
<1>7. QED  BY <1>2, <1>3, <1>4, <1>5, <1>6

LEMMA ValidSame ==
    ASSUME NEW n \in Nat, \A i \in 1 .. n : heard'[i] = heard[i]
    PROVE  \A i \in 0 .. n : Valid(i)' = Valid(i)
<1> SUFFICES ASSUME NEW i \in 0 .. n
             PROVE  Valid(i)' = Valid(i)
  OBVIOUS
<1>1. \A j \in 1 .. i : j \in 1 .. n  OBVIOUS
<1>2. {j \in 1 .. i : heard'[j].fits} = {j \in 1 .. i : heard[j].fits}  BY <1>1
<1>3. QED  BY <1>2 DEF Valid

LEMMA ValidNone == Valid(0) = 0
<1>1. {i \in 1 .. 0 : heard[i].fits} = {}  OBVIOUS
<1>2. QED  BY <1>1, FS_EmptySet DEF Valid

\* The next result is handled.
LEMMA HandleGiven ==
    ASSUME TypeOK, NEW n \in 0 .. Len(heard) - 1, GivenUpTo(n), scanState = 1,
           queue # <<>>, Head(queue) = Event(scan, "partial", heard[n + 1]), Handle
    PROVE  GivenUpTo(n + 1)' /\ scanState' = 1
<1> DEFINE net == heard[n + 1]
           event == Event(scan, "partial", net)
           result == [scan |-> scan, auth |-> Told(net)]
<1>1. /\ heard \in Seq(Networks) /\ Len(heard) \in Nat /\ n \in Nat /\ n + 1 \in 1 .. Len(heard)
      /\ given \in Seq(Results) /\ Len(given) \in Nat
  BY DEF TypeOK, Results
<1>2. net \in Networks  BY <1>1
<1>3. event.status = "partial" /\ event.network = net /\ event.scan = scan  BY DEF Event
<1>4. UNCHANGED <<scan, heard>>  BY DEF Handle
<1>5. \A i \in Nat : Valid(i)' = Valid(i)  BY <1>4 DEF Valid
<1>6. Found(net) = Told(net)
  BY <1>2, SecurityFound, WifiScanAssumption DEF WifiScanAssumption
<1> HIDE DEF net, event
<1>7. Parsed(event) = IF net.fits THEN "partial" ELSE "invalid"  BY <1>3 DEF Parsed
<1>8. /\ scanState' = AfterStatus(Parsed(event))
      /\ given' = IF Parsed(event) = "partial" THEN Append(given, result) ELSE given
  BY <1>3, <1>6 DEF Handle, event, net
<1>9. scanState' = 1  BY <1>7, <1>8 DEF AfterStatus
<1>10. given' = IF net.fits THEN Append(given, result) ELSE given  BY <1>7, <1>8
<1> HIDE DEF result
<1>11. /\ Len(given') = Len(given) + (IF net.fits THEN 1 ELSE 0)
       /\ \A k \in 1 .. Len(given) : given'[k] = given[k]
       /\ net.fits => given'[Len(given) + 1] = result
  BY <1>1, <1>10
<1>12. Valid(n) \in Nat /\ Valid(n + 1) = Valid(n) + (IF net.fits THEN 1 ELSE 0)
  BY <1>1, ValidCounts DEF net
<1>13. Len(given) = Valid(n) /\ Len(given') = Valid(n + 1)  BY <1>11, <1>12 DEF GivenUpTo
<1>14. ASSUME NEW i \in 1 .. n + 1, heard[i].fits
       PROVE  /\ Valid(i) \in 1 .. Len(given')
              /\ given'[Valid(i)] = [scan |-> scan, auth |-> Told(heard[i])]
  <2>1. CASE i = n + 1
    <3>1. net.fits  BY <1>14, <2>1 DEF net
    <3>2. Valid(i) = Len(given) + 1 /\ Len(given') = Len(given) + 1
      BY <1>11, <1>12, <1>13, <2>1, <3>1
    <3>3. QED  BY <1>1, <1>11, <2>1, <3>1, <3>2 DEF result, net
  <2>2. CASE i # n + 1
    <3>1. i \in 1 .. n  BY <1>1, <2>2
    <3>2. /\ Valid(i) \in 1 .. Len(given)
          /\ given[Valid(i)] = [scan |-> scan, auth |-> Told(heard[i])]
      BY <1>14, <3>1 DEF GivenUpTo
    <3>3. Len(given) <= Len(given')  BY <1>1, <1>11
    <3>4. QED  BY <1>1, <1>11, <3>2, <3>3
  <2>3. QED  BY <2>1, <2>2
<1>15. \A i \in 1 .. n + 1 : Valid(i)' = Valid(i)  BY <1>5
<1>16. Valid(n + 1)' = Valid(n + 1)  BY <1>1, <1>5
<1>17. GivenUpTo(n + 1)'  BY <1>4, <1>13, <1>14, <1>15, <1>16 DEF GivenUpTo
<1>18. QED  BY <1>9, <1>17

LEMMA HandleResults ==
    ASSUME TypeOK, ResultsInv, Handle
    PROVE  ResultsInv'
<1> SUFFICES ASSUME clean
             PROVE  ResultsInv'
  BY DEF ResultsInv, Handle, calls
<1>1. UNCHANGED <<clean, pc, scan, chipScan, fate, heard>> /\ queue # <<>> /\ queue' = Tail(queue)
  BY DEF Handle, calls
<1>2. pc # "ask"  BY <1>1 DEF ResultsInv
<1>3. CASE fate # "running"
  BY <1>1, <1>2, <1>3 DEF ResultsInv
<1>4. CASE fate = "running"
  <2>1. PICK n \in 0 .. Len(heard) : GivenUpTo(n) /\ Coming(n)  BY <1>4 DEF ResultsInv
  <2>2. scan # 0 /\ queue \in Seq(Events) /\ Len(heard) \in Nat
    BY <1>4 DEF ResultsInv, TypeOK, Events
  <2>3. /\ Len(queue) \in Nat \ {0} /\ Head(queue) = queue[1] /\ Len(queue') = Len(queue) - 1
        /\ \A j \in 1 .. Len(queue') : queue'[j] = queue[j + 1]
    BY <1>1, <2>2
  <2>4. scanState = 1  BY <1>1, <2>1 DEF Coming
  <2>5. CASE n < Len(heard)
    <3>1. n \in 0 .. Len(heard) - 1 /\ n + 1 \in 0 .. Len(heard) /\ 1 \in 1 .. Len(heard) - n
      BY <2>2, <2>5
    <3>2. Head(queue) = Event(scan, "partial", heard[n + 1])  BY <2>1, <2>3, <3>1 DEF Coming
    <3>3. GivenUpTo(n + 1)' /\ scanState' = 1  BY <1>1, <2>1, <2>4, <3>1, <3>2, HandleGiven
    <3>4. \/ chipScan = scan /\ Len(queue') = Len(heard) - (n + 1)
          \/ /\ chipScan = 0 /\ Len(queue') = Len(heard) - (n + 1) + 1
             /\ queue'[Len(queue')].status = "success"
      <4>1. CASE chipScan = scan /\ Len(queue) = Len(heard) - n
        BY <2>2, <2>3, <4>1
      <4>2. CASE /\ chipScan = 0 /\ Len(queue) = Len(heard) - n + 1
                 /\ queue[Len(queue)].status = "success"
        <5>1. Len(queue') = Len(heard) - (n + 1) + 1 /\ Len(queue') \in 1 .. Len(queue')
              /\ Len(queue') + 1 = Len(queue)
          BY <2>2, <2>3, <2>5, <4>2
        <5>2. QED  BY <2>3, <4>2, <5>1
      <4>3. QED  BY <2>1, <2>4, <4>1, <4>2 DEF Coming
    <3>5. ASSUME NEW j \in 1 .. Len(heard) - (n + 1)
          PROVE  queue'[j] = Event(scan, "partial", heard[(n + 1) + j])
      <4>1. j + 1 \in 1 .. Len(heard) - n /\ (n + 1) + j = n + (j + 1)  BY <2>2
      <4>2. j \in 1 .. Len(queue')  BY <2>2, <2>3, <3>4
      <4>3. QED  BY <2>1, <2>3, <4>1, <4>2 DEF Coming
    <3>6. Coming(n + 1)'  BY <1>1, <3>3, <3>4, <3>5 DEF Coming
    <3>7. QED  BY <1>1, <1>2, <2>2, <3>1, <3>3, <3>6 DEF ResultsInv
  <2>6. CASE n = Len(heard)
    <3>1. chipScan = 0 /\ Len(queue) = 1 /\ queue[1].status = "success"
      BY <2>1, <2>2, <2>3, <2>4, <2>6 DEF Coming
    <3>2. queue' = <<>>  BY <1>1, <2>2, <3>1
    <3>3. scanState' = 2 /\ given' = given
      BY <2>3, <2>4, <3>1 DEF Handle, Parsed, AfterStatus
    <3>4. GivenUpTo(n)'  BY <1>1, <2>1, <3>3 DEF GivenUpTo, Valid
    <3>5. Coming(n)'  BY <1>1, <2>2, <2>6, <3>1, <3>2, <3>3 DEF Coming
    <3>6. QED  BY <1>1, <1>2, <2>2, <3>4, <3>5 DEF ResultsInv
  <2>7. QED  BY <2>2, <2>5, <2>6
<1>5. QED  BY <1>3, <1>4

LEMMA ReportResults ==
    ASSUME TypeOK, ResultsInv, NEW network \in Networks, Report(network)
    PROVE  ResultsInv'
<1> SUFFICES ASSUME clean
             PROVE  ResultsInv'
  BY DEF ResultsInv, Report, calls
<1> DEFINE event == Event(chipScan, "partial", network)
<1>1. /\ UNCHANGED <<clean, pc, scan, scanState, given, chipScan, fate>> /\ chipScan # 0
      /\ heard' = Append(heard, network) /\ queue' = Append(queue, event)
  BY DEF Report, calls, driver
<1>2. pc # "ask"  BY <1>1 DEF ResultsInv
<1>3. CASE fate # "running"
  BY <1>1, <1>2, <1>3 DEF ResultsInv
<1>4. CASE fate = "running"
  <2>1. PICK n \in 0 .. Len(heard) : GivenUpTo(n) /\ Coming(n)  BY <1>4 DEF ResultsInv
  <2>2. scan # 0 /\ queue \in Seq(Events) /\ heard \in Seq(Networks) /\ Len(heard) \in Nat
        /\ event \in Events
    BY <1>1, <1>4, EventTypes, TypeParts DEF ResultsInv, TypeOK, Events, Statuses
  <2>3. chipScan = scan /\ scanState = 1 /\ Len(queue) = Len(heard) - n
    BY <1>1, <2>1 DEF Coming
  <2>4. event = Event(scan, "partial", network)  BY <2>3
  <2> HIDE DEF event
  <2>5. /\ Len(queue') = Len(queue) + 1 /\ queue'[Len(queue) + 1] = event
        /\ \A j \in 1 .. Len(queue) : queue'[j] = queue[j]
        /\ Len(heard') = Len(heard) + 1 /\ heard'[Len(heard) + 1] = network
        /\ \A i \in 1 .. Len(heard) : heard'[i] = heard[i]
    BY <1>1, <2>2
  <2>6. GivenUpTo(n)'
    <3>1. \A i \in 0 .. n : Valid(i)' = Valid(i)
      <4>1. n \in Nat /\ \A i \in 1 .. n : heard'[i] = heard[i]  BY <2>2, <2>5
      <4>2. QED  BY <4>1, ValidSame
    <3>2. \A i \in 1 .. n : heard'[i] = heard[i] /\ Valid(i)' = Valid(i)  BY <2>2, <2>5, <3>1
    <3>3. Valid(n)' = Valid(n)  BY <3>1
    <3>4. QED  BY <1>1, <2>1, <3>2, <3>3 DEF GivenUpTo
  <2>7. ASSUME NEW j \in 1 .. Len(heard') - n
        PROVE  queue'[j] = Event(scan, "partial", heard'[n + j])
    <3>1. CASE j \in 1 .. Len(heard) - n
      <4>1. j \in 1 .. Len(queue) /\ n + j \in 1 .. Len(heard)  BY <2>2, <2>3, <3>1
      <4>2. QED  BY <2>1, <2>5, <3>1, <4>1 DEF Coming
    <3>2. CASE j = Len(heard) - n + 1
      <4>1. j = Len(queue) + 1 /\ n + j = Len(heard) + 1  BY <2>2, <2>3, <3>2
      <4>2. QED  BY <2>4, <2>5, <4>1
    <3>3. QED  BY <2>2, <2>5, <3>1, <3>2
  <2>8. n \in 0 .. Len(heard') /\ Len(queue') = Len(heard') - n  BY <2>2, <2>3, <2>5
  <2>9. Coming(n)'  BY <1>1, <2>3, <2>7, <2>8 DEF Coming
  <2>10. QED  BY <1>1, <1>2, <2>2, <2>6, <2>8, <2>9 DEF ResultsInv
<1>5. QED  BY <1>3, <1>4

LEMMA EndResults ==
    ASSUME TypeOK, ResultsInv, End
    PROVE  ResultsInv'
<1> SUFFICES ASSUME clean
             PROVE  ResultsInv'
  BY DEF ResultsInv, End, calls
<1>1. PICK status \in {"success", "abort"} :
         /\ queue' = Append(queue, Event(chipScan, status, NoNetwork))
         /\ fate' = IF status = "abort" /\ fate = "running" THEN "aborted" ELSE fate
  BY DEF End
<1> DEFINE event == Event(chipScan, status, NoNetwork)
<1>2. /\ UNCHANGED <<clean, pc, scan, scanState, given, heard>> /\ chipScan # 0 /\ chipScan' = 0
      /\ queue' = Append(queue, event)
  BY <1>1 DEF End, calls, driver
<1>3. pc # "ask"  BY <1>2 DEF ResultsInv
<1>4. CASE fate' # "running"
  BY <1>2, <1>3, <1>4 DEF ResultsInv
<1>5. CASE fate' = "running"
  <2>1. fate = "running" /\ status = "success"  BY <1>1, <1>5
  <2>2. PICK n \in 0 .. Len(heard) : GivenUpTo(n) /\ Coming(n)  BY <2>1 DEF ResultsInv
  <2>3. scan # 0 /\ queue \in Seq(Events) /\ Len(heard) \in Nat /\ event \in Events
    BY <1>2, <2>1, EventTypes, TypeParts DEF ResultsInv, TypeOK, Events, Statuses
  <2>4. chipScan = scan /\ scanState = 1 /\ Len(queue) = Len(heard) - n
    BY <1>2, <2>2 DEF Coming
  <2>5. event.status = "success"  BY <2>1 DEF Event
  <2> HIDE DEF event
  <2>6. /\ Len(queue') = Len(queue) + 1 /\ queue'[Len(queue) + 1] = event
        /\ \A j \in 1 .. Len(queue) : queue'[j] = queue[j]
    BY <1>2, <2>3
  <2>7. GivenUpTo(n)'  BY <1>2, <2>2 DEF GivenUpTo, Valid
  <2>8. Coming(n)'  BY <1>2, <2>2, <2>3, <2>4, <2>5, <2>6 DEF Coming
  <2>9. QED  BY <1>2, <1>3, <2>3, <2>7, <2>8 DEF ResultsInv
<1>6. QED  BY <1>4, <1>5

LEMMA AcceptResults ==
    ASSUME TypeOK, ResultsInv, Accept
    PROVE  ResultsInv'
<1> SUFFICES ASSUME clean
             PROVE  ResultsInv'
  BY DEF ResultsInv, Accept, calls
<1>1. pc = "ask" /\ pc' = "answer" /\ UNCHANGED <<clean, scan, scanState, given>>
  BY DEF Accept, calls
<1>2. chipScan = 0 /\ queue = <<>> /\ given = <<>> /\ scanState = 1 /\ scan # 0
  BY <1>1 DEF ResultsInv
<1>3. chipScan' = scan /\ heard' = <<>> /\ queue' = <<>>  BY <1>2 DEF Accept
<1>4. Valid(0)' = 0
  <2>1. {i \in 1 .. 0 : heard'[i].fits} = {}  OBVIOUS
  <2>2. QED  BY <2>1, FS_EmptySet DEF Valid
<1>5. GivenUpTo(0)'  BY <1>1, <1>2, <1>4 DEF GivenUpTo
<1>6. Coming(0)'  BY <1>1, <1>2, <1>3 DEF Coming
<1>7. 0 \in 0 .. Len(heard')  BY <1>3
<1>8. QED  BY <1>1, <1>2, <1>5, <1>6, <1>7 DEF ResultsInv

LEMMA NextResults ==
    ASSUME TypeOK, ResultsInv, [Next]_vars
    PROVE  ResultsInv'
<1>1. CASE SetUp \/ OtherCall \/ Poll \/ Return \/ UNCHANGED vars
  <2>1. UNCHANGED <<chip, calls, scanState, scan, given>> /\ (pc' = pc \/ pc' # "ask")
    BY <1>1 DEF SetUp, OtherCall, Poll, Return, vars, driver
  <2>2. QED  BY <2>1 DEF chip, calls, ResultsInv, GivenUpTo, Coming, Valid
<1>2. CASE Deinit
  BY <1>2 DEF Deinit, ResultsInv
<1>3. CASE Scan
  <2>1. /\ pc' = "ask" /\ scanState' = 1 /\ given' = <<>> /\ fate' = "asked"
        /\ UNCHANGED <<chipScan, queue>> /\ clean' = (chipScan = 0 /\ queue = <<>>)
    BY <1>3 DEF Scan, Begun
  <2>2. scan' # 0  BY <1>3 DEF Scan, TypeOK
  <2>3. QED  BY <2>1, <2>2 DEF ResultsInv
<1>4. CASE Asked
  <2>1. /\ UNCHANGED <<scanState, scan, given, chipScan, queue, heard, clean>> /\ pc' = "idle"
        /\ fate' = "running" => fate = "running"
    BY <1>4 DEF Asked, calls
  <2>2. QED  BY <2>1 DEF ResultsInv, GivenUpTo, Coming, Valid
<1>5. CASE Handle  BY <1>5, HandleResults
<1>6. CASE Drop
  <2>1. queue # <<>> /\ fate' = "damaged" /\ pc' = pc /\ clean' = clean
    BY <1>6 DEF Drop, driver, calls
  <2>2. QED  BY <2>1 DEF ResultsInv
<1>7. CASE Accept  BY <1>7, AcceptResults
<1>8. CASE End  BY <1>8, EndResults
<1>9. ASSUME NEW network \in Networks, Report(network)
      PROVE  ResultsInv'
  BY <1>9, ReportResults
<1>10. QED  BY <1>1, <1>2, <1>3, <1>4, <1>5, <1>6, <1>7, <1>8, <1>9 DEF Next

\* A scan that began when nothing was outstanding gives exactly its own valid
\* results, once, in order and with the security that each network has.
THEOREM ResultsAreTrue == Spec => []ResultsTrue
<1>1. Init => ResultsInv  BY DEF Init, ResultsInv
<1>2. TypeOK /\ ResultsInv /\ [Next]_vars => ResultsInv'  BY NextResults
<1>3. ResultsInv => ResultsTrue
  <2> SUFFICES ASSUME ResultsInv, clean, scanState = 2, fate = "running"
               PROVE  ResultsTrue
    BY DEF ResultsTrue
  <2>1. PICK n \in 0 .. Len(heard) : GivenUpTo(n) /\ Coming(n)  BY DEF ResultsInv
  <2>2. n = Len(heard)  BY <2>1 DEF Coming
  <2>3. QED  BY <2>1, <2>2 DEF GivenUpTo, ResultsTrue
<1>4. QED  BY <1>1, <1>2, <1>3, ScanTypes, PTL DEF Spec
=============================================================================
