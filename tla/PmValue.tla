------------------------------ MODULE PmValue -------------------------------
(* The power management value of cyw43_wifi_pm: 0x00adbrrm, five fields in   *)
(* one word.  For fields that fit their place the ORs of the code are sums.  *)
EXTENDS Naturals

\* Modes and periods that fit the four bits they have in the word, and the sleep
\* times that the documentation of cyw43_pm_value allows.  It names no limit for
\* a period, which is a byte.
Mode == 0 .. 15
Period == 0 .. 15
Byte == 0 .. 255
Millis == 10 .. 2000

\* cyw43_pm_value.
PmWord(mode, ms, bcn, dtim, assoc) ==
    16 * (256 * (16 * (16 * assoc + dtim) + bcn) + ms \div 10) + mode

\* The fields that cyw43_wifi_pm takes out of a word.
ModeOf(v) == v % 16
SleepRetOf(v) == (v \div 16) % 256
BcnOf(v) == ((v \div 16) \div 256) % 16
DtimOf(v) == (((v \div 16) \div 256) \div 16) % 16
AssocOf(v) == ((((v \div 16) \div 256) \div 16) \div 16) % 16

\* The limits of cyw43_ll_wifi_pm.
Limit(r) == IF r < 1 THEN 1 ELSE IF r > 200 THEN 200 ELSE r

\* The word that a working chip gives back for v.
Effective(v) ==
    PmWord(ModeOf(v), 10 * Limit(SleepRetOf(v)), BcnOf(v), DtimOf(v), AssocOf(v))
=============================================================================
