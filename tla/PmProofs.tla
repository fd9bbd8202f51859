----------------------------- MODULE PmProofs ------------------------------
(* The packing of power management values, for all values.                  *)
EXTENDS PmValue, Integers, TLAPS

\* A listen interval is a uint8_t that cyw43_pm_value does not check.  Of one that
\* does not fit, cyw43_wifi_pm finds the remainder, while the other fields keep
\* their places.
THEOREM LongIntervalLost ==
    ASSUME NEW mode \in Mode, NEW ms \in Millis,
           NEW bcn \in Period, NEW dtim \in Period, NEW assoc \in Byte
    PROVE  LET v == PmWord(mode, ms, bcn, dtim, assoc) IN
           /\ ModeOf(v) = mode /\ SleepRetOf(v) = ms \div 10
           /\ BcnOf(v) = bcn /\ DtimOf(v) = dtim /\ AssocOf(v) = assoc % 16
<1> DEFINE r == ms \div 10
           w1 == 16 * assoc + dtim
           w2 == 16 * w1 + bcn
           w3 == 256 * w2 + r
           v == 16 * w3 + mode
<1>1. r \in 1 .. 200
  BY SMT DEF Millis
<1>2. w1 \in Nat /\ w1 \div 16 = assoc /\ w1 % 16 = dtim
  BY SMT DEF Period, Byte
<1> HIDE DEF r, w1
<1>3. w2 \in Nat /\ w2 \div 16 = w1 /\ w2 % 16 = bcn
  BY <1>2, SMT DEF Period
<1> HIDE DEF w2
<1>4. w3 \in Nat /\ w3 \div 256 = w2 /\ w3 % 256 = r
  BY <1>1, <1>3, SMT
<1> HIDE DEF w3
<1>5. v \in Nat /\ v \div 16 = w3 /\ v % 16 = mode
  BY <1>4, SMT DEF Mode
<1>6. PmWord(mode, ms, bcn, dtim, assoc) = v
  BY DEF PmWord, r, w1, w2, w3, v
<1> HIDE DEF v
<1> QED
  BY <1>2, <1>3, <1>4, <1>5, <1>6
  DEF ModeOf, SleepRetOf, BcnOf, DtimOf, AssocOf, r

\* A word made of a documented sleep time and of a mode and periods that fit
\* their four bits comes apart into them: each of its fields keeps its place
\* (cyw43_pm_value and cyw43_wifi_pm).
THEOREM FieldsKept ==
    ASSUME NEW mode \in Mode, NEW ms \in Millis,
           NEW bcn \in Period, NEW dtim \in Period, NEW assoc \in Period
    PROVE  LET v == PmWord(mode, ms, bcn, dtim, assoc) IN
           /\ ModeOf(v) = mode /\ SleepRetOf(v) = ms \div 10
           /\ BcnOf(v) = bcn /\ DtimOf(v) = dtim /\ AssocOf(v) = assoc
<1>1. assoc \in Byte
  BY SMT DEF Period, Byte
<1>2. assoc % 16 = assoc
  BY SMT DEF Period
<1> DEFINE v == PmWord(mode, ms, bcn, dtim, assoc)
<1>3. /\ ModeOf(v) = mode /\ SleepRetOf(v) = ms \div 10
      /\ BcnOf(v) = bcn /\ DtimOf(v) = dtim /\ AssocOf(v) = assoc % 16
  BY <1>1, LongIntervalLost
<1> HIDE DEF v
<1>4. AssocOf(v) = assoc
  BY <1>2, <1>3
<1> QED
  BY <1>3, <1>4 DEF v

LEMMA LimitRange == \A r \in Nat : Limit(r) \in 1 .. 200
BY SMT DEF Limit

LEMMA TenTimes == \A r \in 1 .. 200 : (10 * r) \div 10 = r /\ 10 * r \in Millis
BY SMT DEF Millis

\* Such a word is given back as it was: the limits of cyw43_ll_wifi_pm and the
\* conversion to milliseconds and back change nothing.
THEOREM FittingKept ==
    ASSUME NEW mode \in Mode, NEW ms \in Millis,
           NEW bcn \in Period, NEW dtim \in Period, NEW assoc \in Period
    PROVE  LET v == PmWord(mode, ms, bcn, dtim, assoc) IN Effective(v) = v
<1> DEFINE v == PmWord(mode, ms, bcn, dtim, assoc)
<1>1. /\ ModeOf(v) = mode /\ SleepRetOf(v) = ms \div 10
      /\ BcnOf(v) = bcn /\ DtimOf(v) = dtim /\ AssocOf(v) = assoc
  BY FieldsKept
<1>2. ms \div 10 \in 1 .. 200
  BY SMT DEF Millis
<1>3. Limit(ms \div 10) = ms \div 10
  BY <1>2, SMT DEF Limit
<1>4. (10 * Limit(SleepRetOf(v))) \div 10 = ms \div 10
  BY <1>1, <1>2, <1>3, TenTimes
<1> QED
  BY <1>1, <1>4 DEF Effective, PmWord

LEMMA FieldRanges ==
    ASSUME NEW v \in Nat
    PROVE  /\ ModeOf(v) \in Mode /\ SleepRetOf(v) \in Nat
           /\ BcnOf(v) \in Period /\ DtimOf(v) \in Period /\ AssocOf(v) \in Period
<1> DEFINE a == v \div 16
           b == a \div 256
           c == b \div 16
           d == c \div 16
<1>1. a \in Nat /\ v % 16 \in Mode
  BY SMT DEF Mode
<1> HIDE DEF a
<1>2. b \in Nat /\ a % 256 \in Nat
  BY <1>1, SMT
<1> HIDE DEF b
<1>3. c \in Nat /\ b % 16 \in Period
  BY <1>2, SMT DEF Period
<1> HIDE DEF c
<1>4. d \in Nat /\ c % 16 \in Period
  BY <1>3, SMT DEF Period
<1> HIDE DEF d
<1>5. d % 16 \in Period
  BY <1>4, SMT DEF Period
<1> QED
  BY <1>1, <1>2, <1>3, <1>4, <1>5
  DEF ModeOf, SleepRetOf, BcnOf, DtimOf, AssocOf, a, b, c, d

\* Whatever word cyw43_wifi_pm was called with, the word that
\* cyw43_wifi_get_pm gives back stands for the same settings: passing it to
\* cyw43_wifi_pm again, and reading again, changes nothing.
THEOREM GivenBackSettles ==
    ASSUME NEW v \in Nat
    PROVE  Effective(Effective(v)) = Effective(v)
<1>1. Limit(SleepRetOf(v)) \in 1 .. 200
  BY FieldRanges, LimitRange
<1>2. 10 * Limit(SleepRetOf(v)) \in Millis
  BY <1>1, TenTimes
<1> QED
  BY <1>2, FieldRanges, FittingKept DEF Effective
=============================================================================
