---------------------------- MODULE NumberProofs ----------------------------
(***************************************************************************)
(* What the operators of FixedPoint return, and what the frames of Wire do  *)
(* to the numbers in them, for any size of byte and any scale.              *)
(***************************************************************************)
EXTENDS Wire, TLAPS

(* Clamps, quotients and lags *)

\* std::clamp returns a value between its bounds.
LEMMA ClampBounds ==
    ASSUME NEW v \in Int, NEW lo \in Int, NEW hi \in Int, lo <= hi
    PROVE  /\ Clamp(v, lo, hi) \in Int
           /\ lo <= Clamp(v, lo, hi) /\ Clamp(v, lo, hi) <= hi
BY DEF Clamp

\* The integer quotient of a dividend of no sign.
LEMMA NaturalQuotient ==
    ASSUME NEW a \in Nat, NEW n \in Nat \ {0}, NEW b \in Nat, a <= b * n
    PROVE  a \div n \in Nat /\ a \div n <= b
<1> DEFINE q == a \div n
<1>1. q \in Nat /\ n * q <= a
  BY Z3
<1>2. CASE q > b
  <2>1. n * q >= n * (b + 1)
    BY <1>1, <1>2
  <2> QED
    BY <1>1, <2>1
<1> QED
  BY <1>1, <1>2

\* A quotient by a positive number is between the bounds of its dividend.
LEMMA QuotientBounds ==
    ASSUME NEW a \in Int, NEW n \in Nat \ {0}, NEW b \in Nat,
           -b * n <= a, a <= b * n
    PROVE  Quotient(a, n) \in Int /\ -b <= Quotient(a, n) /\ Quotient(a, n) <= b
<1>1. CASE a >= 0
  <2>1. a \in Nat
    BY <1>1
  <2>2. a \div n \in Nat /\ a \div n <= b
    BY <2>1, NaturalQuotient
  <2>3. Quotient(a, n) = a \div n
    BY <1>1 DEF Quotient
  <2> QED
    BY <2>2, <2>3
<1>2. CASE a < 0
  <2>1. -a \in Nat /\ -a <= b * n
    BY <1>2
  <2>2. (-a) \div n \in Nat /\ (-a) \div n <= b
    BY <2>1, NaturalQuotient
  <2>3. Quotient(a, n) = -((-a) \div n)
    BY <1>2 DEF Quotient
  <2> HIDE DEF Quotient
  <2> QED
    BY <2>2, <2>3
<1> QED
  BY <1>1, <1>2

\* Multiplying by a natural number keeps the order.
LEMMA ProductOrder ==
    ASSUME NEW a \in Int, NEW b \in Int, NEW n \in Nat, a <= b
    PROVE  n * a <= n * b
OBVIOUS

\* A lag moves towards its target and not beyond it.
LEMMA TowardsBetween ==
    ASSUME NEW v \in Int, NEW target \in Int,
           NEW part \in Nat, NEW whole \in Nat \ {0}, part <= whole
    PROVE  /\ Towards(v, target, part, whole) \in Int
           /\ v <= target => /\ v <= Towards(v, target, part, whole)
                             /\ Towards(v, target, part, whole) <= target
           /\ target <= v => /\ target <= Towards(v, target, part, whole)
                             /\ Towards(v, target, part, whole) <= v
<1> DEFINE d == target - v
           a == part * d
           q == Quotient(a, whole)
<1>1. d \in Int /\ a \in Int /\ 0 * whole = 0
  OBVIOUS
<1>2. Towards(v, target, part, whole) = v + q
  BY DEF Towards
<1>3. CASE d >= 0
  <2>1. 0 <= a /\ a <= d * whole
    <3>1. d * part <= d * whole
      BY <1>1, <1>3, ProductOrder
    <3>2. d * part = a
      BY <1>1
    <3>3. d * 0 <= d * part
      BY <1>1, <1>3, ProductOrder
    <3> QED
      BY <1>1, <3>1, <3>2, <3>3
  <2>2. q = a \div whole
    BY <2>1, <1>1 DEF Quotient
  <2> HIDE DEF q, a, d
  <2>3. a \div whole \in Nat /\ a \div whole <= d
    BY <1>1, <1>3, <2>1, NaturalQuotient
  <2>4. q \in Int /\ 0 <= q /\ q <= d
    BY <2>2, <2>3
  <2> QED
    BY <1>2, <1>3, <2>4 DEF d
<1>4. CASE d < 0
  <2>1. a <= 0 /\ -a <= (-d) * whole
    <3>1. (-d) * part <= (-d) * whole
      BY <1>1, <1>4, ProductOrder
    <3>2. (-d) * part = -a
      BY <1>1
    <3>3. (-d) * 0 <= (-d) * part
      BY <1>1, <1>4, ProductOrder
    <3> QED
      BY <1>1, <3>1, <3>2, <3>3
  <2> HIDE DEF a, d
  <2>2. (-a) \div whole \in Nat /\ (-a) \div whole <= -d
    BY <1>1, <1>4, <2>1, NaturalQuotient
  <2>3. q = -((-a) \div whole)
    <3>1. CASE a = 0
      <4>1. 0 \div whole = 0 /\ (-0) \div whole = 0
        BY NaturalQuotient, <1>1
      <4> QED
        BY <3>1, <4>1 DEF Quotient
    <3>2. CASE a < 0
      BY <3>2, <1>1 DEF Quotient
    <3> QED
      BY <2>1, <3>1, <3>2, <1>1
  <2> HIDE DEF q
  <2>4. q \in Int /\ d <= q /\ q <= 0
    BY <1>1, <2>2, <2>3
  <2> QED
    BY <1>2, <1>4, <2>4 DEF d
<1> QED
  BY <1>1, <1>3, <1>4

-----------------------------------------------------------------------------
(* Bytes *)

\* Half a word is a natural number, no more than half of all words.
LEMMA HalfWordType ==
    /\ Byte \div 2 \in Nat \ {0} /\ 2 * (Byte \div 2) <= Byte
    /\ HalfWord \in Nat \ {0} /\ 2 * HalfWord <= Byte * Byte
<1> DEFINE h == Byte \div 2
<1>1. h \in Nat \ {0} /\ 2 * h <= Byte /\ Byte \in Nat
  BY ByteAssumption
<1> HIDE DEF h
<1>2. Byte * h \in Nat /\ Byte * 1 <= Byte * h /\ Byte * (2 * h) <= Byte * Byte
  BY <1>1, ProductOrder
<1> QED
  BY <1>1, <1>2, ByteAssumption DEF HalfWord, h

\* A number is its low byte and Byte times the rest, which fits in half a byte
\* when the number fits in half a word.
LEMMA Halves ==
    ASSUME NEW v \in Int
    PROVE  /\ v % Byte \in Bytes /\ v \div Byte \in Int
           /\ v = (v % Byte) + Byte * (v \div Byte)
           /\ v \in Int16 => /\ -(Byte \div 2) <= v \div Byte
                             /\ v \div Byte < Byte \div 2
<1> DEFINE q == v \div Byte
           r == v % Byte
           h == Byte \div 2
<1>1. q \in Int /\ r \in Bytes /\ v = r + Byte * q
  BY ByteAssumption, Z3 DEF Bytes
<1>2. h \in Nat /\ HalfWord = Byte * h /\ Byte \in Nat \ {0}
  BY HalfWordType, ByteAssumption DEF HalfWord
<1> HIDE DEF q, r, h
<1>3. ASSUME v \in Int16 PROVE -h <= q /\ q < h
  <2>1. -(Byte * h) <= v /\ v < Byte * h
    BY <1>2, <1>3 DEF Int16
  <2>2. CASE q < -h
    <3>1. Byte * q <= Byte * (-h - 1)
      BY <1>1, <1>2, <2>2, ProductOrder
    <3> QED
      BY <1>1, <1>2, <2>1, <3>1 DEF Bytes
  <2>3. CASE q >= h
    <3>1. Byte * h <= Byte * q
      BY <1>1, <1>2, <2>3, ProductOrder
    <3> QED
      BY <1>1, <1>2, <2>1, <3>1 DEF Bytes
  <2> QED
    BY <1>1, <1>2, <2>2, <2>3
<1> QED
  BY <1>1, <1>3 DEF q, r, h

\* What one end packs the other end reads, of every int16
\* (joint_controller.cpp:13-24, can_protocol.py:95, 107).
THEOREM FrameKeepsNumber ==
    ASSUME NEW v \in Int16
    PROVE  PackI16(v) \in Bytes \X Bytes /\ UnpackI16(PackI16(v)) = v
<1> DEFINE q == v \div Byte
           r == v % Byte
           h == Byte \div 2
           top == q % Byte
<1>1. v \in Int /\ Byte \in Nat \ {0}
  BY HalfWordType, ByteAssumption DEF Int16
<1>2. /\ q \in Int /\ r \in Bytes /\ v = r + Byte * q
      /\ -h <= q /\ q < h
      /\ h \in Nat /\ 2 * h <= Byte
  BY <1>1, Halves, HalfWordType
<1>3. top \in Bytes /\ (q >= 0 => top = q) /\ (q < 0 => top = q + Byte)
  BY <1>1, <1>2, ByteAssumption, Z3 DEF Bytes
<1>4. PackI16(v) = <<r, top>>
  BY DEF PackI16
<1> HIDE DEF q, r, h, top
<1>5. HalfWord \in Nat /\ 2 * HalfWord <= Byte * Byte /\ Byte * Byte \in Nat
  BY HalfWordType, <1>1
<1> DEFINE word == PackI16(v)[1] + Byte * PackI16(v)[2]
<1>6. UnpackI16(PackI16(v)) = IF word < HalfWord THEN word ELSE word - Byte * Byte
  BY Zenon DEF UnpackI16
<1>7. word = r + Byte * top
  BY <1>4
<1> HIDE DEF word
<1>8. CASE q >= 0
  <2>1. word = v
    BY <1>2, <1>3, <1>8, <1>7
  <2> QED
    BY <1>1, <1>2, <1>3, <1>4, <1>5, <1>6, <2>1 DEF Int16
<1>9. CASE q < 0
  <2>1. Byte * top = Byte * q + Byte * Byte
    BY <1>1, <1>2, <1>3, <1>9
  <2>2. word = v + Byte * Byte
    BY <1>1, <1>2, <1>7, <2>1 DEF Bytes
  <2> QED
    BY <1>1, <1>5, <1>6, <2>2, <1>2, <1>3, <1>4 DEF Int16
<1> QED
  BY <1>2, <1>3, <1>4, <1>8, <1>9

-----------------------------------------------------------------------------
(* Rounding *)

\* A rounded quotient is at most half a step away from the exact one.
LEMMA RoundedBrackets ==
    ASSUME NEW a \in Int, NEW n \in Nat \ {0}
    PROVE  /\ Rounded(a, n) \in Int
           /\ 2 * n * Rounded(a, n) <= 2 * a + n
           /\ 2 * a <= 2 * n * Rounded(a, n) + n
<1> DEFINE low == a \div n
<1>1. low \in Int /\ n * low <= a /\ a < n * low + n
  BY Z3
<1>2. Rounded(a, n) =
        IF 2 * (a - n * low) < n \/ (2 * (a - n * low) = n /\ low % 2 = 0)
        THEN low ELSE low + 1
  BY DEF Rounded
<1> HIDE DEF low
<1>3. \/ Rounded(a, n) = low /\ 2 * (a - n * low) <= n
      \/ Rounded(a, n) = low + 1 /\ 2 * (a - n * low) >= n
  BY <1>1, <1>2
<1>4. n * (low + 1) = n * low + n /\ n * low \in Int
  BY <1>1
<1> QED
  BY <1>1, <1>3, <1>4

\* What is at most limit steps away from 0 is rounded to at most limit.
LEMMA RoundedBounds ==
    ASSUME NEW a \in Int, NEW n \in Nat \ {0}, NEW limit \in Nat,
           -(limit * n) <= a, a <= limit * n
    PROVE  Rounded(a, n) \in Int /\ -limit <= Rounded(a, n) /\ Rounded(a, n) <= limit
<1> DEFINE q == Rounded(a, n)
<1>1. q \in Int /\ 2 * n * q <= 2 * a + n /\ 2 * a <= 2 * n * q + n
  BY RoundedBrackets
<1> HIDE DEF q
<1>2. CASE q > limit
  <2>1. n * (limit + 1) <= n * q
    BY <1>1, <1>2, ProductOrder
  <2> QED
    BY <1>1, <2>1
<1>3. CASE q < -limit
  <2>1. n * q <= n * (-limit - 1)
    BY <1>1, <1>3, ProductOrder
  <2> QED
    BY <1>1, <2>1
<1> QED
  BY <1>1, <1>2, <1>3 DEF q

\* And what is rounded to at most limit is at most half a step further away.
LEMMA RoundedReports ==
    ASSUME NEW a \in Int, NEW n \in Nat \ {0}, NEW limit \in Nat,
           -limit <= Rounded(a, n), Rounded(a, n) <= limit
    PROVE  2 * a <= (2 * limit + 1) * n /\ -(2 * limit + 1) * n <= 2 * a
<1> DEFINE q == Rounded(a, n)
<1>1. q \in Int /\ 2 * n * q <= 2 * a + n /\ 2 * a <= 2 * n * q + n
  BY RoundedBrackets
<1>2. -limit <= q /\ q <= limit
  OBVIOUS
<1> HIDE DEF q
<1>3. n * q <= n * limit /\ n * (-limit) <= n * q
  BY <1>1, <1>2, ProductOrder
<1> QED
  BY <1>1, <1>3

-----------------------------------------------------------------------------
(* The two masters *)

\* The host's number always fits, and is the rounded one if that does.
LEMMA HostFits ==
    ASSUME NEW a \in Int, NEW n \in Nat \ {0}
    PROVE  /\ HostI16(a, n) \in Int16
           /\ Rounded(a, n) \in Int16 => HostI16(a, n) = Rounded(a, n)
<1>1. Rounded(a, n) \in Int /\ HalfWord \in Nat \ {0}
  BY RoundedBrackets, HalfWordType
<1> QED
  BY <1>1 DEF HostI16, Clamp, Int16

\* A limit the frame can hold is passed by what the other end reads exactly when
\* it was passed by what the host wrote.
LEMMA HostKeepsLimit ==
    ASSUME NEW a \in Int, NEW n \in Nat \ {0}, NEW limit \in Nat, limit < HalfWord - 1
    PROVE  LET read == UnpackI16(PackI16(HostI16(a, n)))
           IN read > limit \/ read < -limit <=> Rounded(a, n) > limit \/ Rounded(a, n) < -limit
<1>1. Rounded(a, n) \in Int /\ HalfWord \in Nat \ {0}
  BY RoundedBrackets, HalfWordType
<1>2. UnpackI16(PackI16(HostI16(a, n))) = HostI16(a, n)
  BY HostFits, FrameKeepsNumber
<1> QED
  BY <1>1, <1>2 DEF HostI16, Clamp

\* A truncated quotient is no further from 0 than the exact one, by less than a
\* step.
LEMMA QuotientBrackets ==
    ASSUME NEW a \in Int, NEW n \in Nat \ {0}
    PROVE  /\ Quotient(a, n) \in Int
           /\ a >= 0 => n * Quotient(a, n) <= a /\ a < n * Quotient(a, n) + n
           /\ a < 0 => a <= n * Quotient(a, n) /\ n * Quotient(a, n) < a + n
<1>1. CASE a >= 0
  <2> DEFINE q == a \div n
  <2>1. q \in Int /\ n * q <= a /\ a < n * q + n
    BY Z3
  <2>2. Quotient(a, n) = q
    BY <1>1 DEF Quotient
  <2> HIDE DEF q
  <2> QED
    BY <1>1, <2>1, <2>2
<1>2. CASE a < 0
  <2> DEFINE b == -a
             q == b \div n
  <2>1. b \in Int /\ q \in Int /\ n * q <= b /\ b < n * q + n
    BY Z3
  <2>2. Quotient(a, n) = -q
    BY <1>2 DEF Quotient
  <2>3. b = -a
    OBVIOUS
  <2> HIDE DEF q, b
  <2>4. n * (-q) = -(n * q) /\ n * q \in Int
    BY <2>1
  <2> QED
    BY <1>2, <2>1, <2>2, <2>3, <2>4
<1> QED
  BY <1>1, <1>2

\* Of a number that fits, the firmware's cast is defined, never further from 0
\* than the number, and at most one step away from what the host would send
\* (joint_controller.cpp:139-140, can_protocol.py:88-93).
THEOREM MastersAgree ==
    ASSUME NEW a \in Int, NEW n \in Nat \ {0}, Quotient(a, n) \in Int16
    PROVE  LET sent == Quotient(a, n)
               host == HostI16(a, n)
           IN /\ FirmwareI16(a, n) = {sent}
              /\ a >= 0 => n * sent <= a
              /\ a <= 0 => a <= n * sent
              /\ sent - 1 <= host /\ host <= sent + 1
<1> DEFINE s == Quotient(a, n)
           r == Rounded(a, n)
<1>1. /\ s \in Int
      /\ a >= 0 => n * s <= a /\ a < n * s + n
      /\ a < 0 => a <= n * s /\ n * s < a + n
  BY QuotientBrackets
<1>2. r \in Int /\ 2 * n * r <= 2 * a + n /\ 2 * a <= 2 * n * r + n
  BY RoundedBrackets
<1>3. HalfWord \in Nat \ {0} /\ s \in Int16
  BY HalfWordType
<1> HIDE DEF s, r
<1>4. CASE r > s + 1
  <2>1. n * (s + 2) <= n * r
    BY <1>1, <1>2, <1>4, ProductOrder
  <2>2. n * s + 2 * n <= n * r /\ n * s \in Int /\ n * r \in Int
    BY <1>1, <1>2, <2>1
  <2> QED
    BY <1>1, <1>2, <2>2
<1>5. CASE r < s - 1
  <2>1. n * r <= n * (s - 2)
    BY <1>1, <1>2, <1>5, ProductOrder
  <2>2. n * r <= n * s - 2 * n /\ n * s \in Int /\ n * r \in Int
    BY <1>1, <1>2, <2>1
  <2> QED
    BY <1>1, <1>2, <2>2
<1>6. s - 1 <= r /\ r <= s + 1
  BY <1>1, <1>2, <1>4, <1>5
<1>7. s - 1 <= HostI16(a, n) /\ HostI16(a, n) <= s + 1
  BY <1>1, <1>2, <1>3, <1>6 DEF HostI16, Clamp, Int16, r
<1>8. FirmwareI16(a, n) = {s}
  BY <1>3 DEF FirmwareI16, s
<1>9. a <= 0 => a <= n * s
  <2>1. CASE a = 0
    BY <2>1 DEF s, Quotient
  <2> QED
    BY <1>1, <2>1
<1> QED
  BY <1>1, <1>7, <1>8, <1>9 DEF s
=============================================================================
