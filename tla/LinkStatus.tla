----------------------------- MODULE LinkStatus -----------------------------
(***************************************************************************)
(* What an application sees of the STA interface of cyw43_ctrl.c: whether a *)
(* join is being sent, the value of cyw43_wifi_link_status, and whether the *)
(* network stack was told that the link is up.                              *)
(***************************************************************************)

Failures == {"FAIL", "NONET", "BADAUTH"}

VARIABLES
    asking,     \* an ioctl that starts a connection is in progress
    status,     \* cyw43_wifi_link_status, without its CYW43_LINK_ prefix
    staUp       \* set_link_up was called last, not set_link_down

linkVars == <<asking, status, staUp>>

Init == asking = FALSE /\ status = "DOWN" /\ staUp = FALSE

Ask == asking' = TRUE /\ UNCHANGED <<status, staUp>>

\* A join or a rejoin is sent: only this makes an attempt alive that failed
\* or was given up.
Asked == asking /\ asking' = FALSE /\ status' = "JOIN" /\ UNCHANGED staUp

\* The chip reports why it does not connect; the stack is not told.
Fail == status' \in Failures /\ UNCHANGED <<asking, staUp>>

\* A good authentication follows a bad one.
Recover == status = "BADAUTH" /\ status' = "JOIN" /\ UNCHANGED <<asking, staUp>>

\* The only way up: the attempt is alive, or has just recovered.
GoUp ==
    /\ status \in {"JOIN", "BADAUTH"}
    /\ status' = "JOIN" /\ staUp' = TRUE
    /\ UNCHANGED asking

LoseLink == staUp' = FALSE /\ UNCHANGED <<asking, status>>

Disassociate == status' = "DOWN" /\ staUp' = FALSE /\ UNCHANGED asking

Next == Ask \/ Asked \/ Fail \/ Recover \/ GoUp \/ LoseLink \/ Disassociate

Spec == Init /\ [][Next]_linkVars
=============================================================================
