----------------------------- MODULE MCSettings -----------------------------
(* A small instance of Settings.                                           *)
EXTENDS Settings

\* An open and a protected network.  The name, the key and the channel change from
\* the default to the configured ones, and a cyw43_deinit takes them back.
SomeConfigs ==
    {[ssid |-> "A", auth |-> "open", key |-> "k", channel |-> 1],
     [ssid |-> "A", auth |-> "tkip", key |-> "k", channel |-> 1]}

\* A word whose sleep time is out of range.
SomeWords == {PmWord(1, 2000, 2, 3, 4) + 16 * 55}
=============================================================================
