---------------------------- MODULE CreditWindow ----------------------------
(***************************************************************************)
(* What SDPCM bus credits promise, without sequence numbers that wrap: the *)
(* host owns some credits, the chip has announced more that the host has   *)
(* not read yet, and each transmitted frame costs one credit.  A host that  *)
(* is told a wrong number goes astray, and nothing is promised from there.  *)
(***************************************************************************)
EXTENDS Integers

CONSTANT Window   \* credits the chip has outstanding at the most

VARIABLES
    usable,       \* credits the host may spend
    promised,     \* credits announced by the chip and not yet read by the host
    astray        \* the host was told a wrong number

creditVars == <<usable, promised, astray>>

\* The host assumes one credit before it has read any header.
Init ==
    /\ usable = 1
    /\ promised \in 0 .. Window - 1
    /\ astray = FALSE

\* The chip announces n more credits.
Grant(n) ==
    /\ usable + promised + n <= Window
    /\ promised' = promised + n
    /\ UNCHANGED <<usable, astray>>

\* The host reads n of the announced credits.
Learn(n) ==
    /\ n <= promised
    /\ usable' = usable + n
    /\ promised' = promised - n
    /\ UNCHANGED astray

\* The host reads n of the announced credits and transmits one frame.
Send(n) ==
    /\ n <= promised
    /\ usable + n > 0
    /\ usable' = usable + n - 1
    /\ promised' = promised - n
    /\ UNCHANGED astray

Next ==
    \/ ~astray /\ \E n \in 0 .. Window : Grant(n) \/ Learn(n) \/ Send(n)
    \/ astray' = TRUE

Spec == Init /\ [][Next]_creditVars
=============================================================================
