-------------------------- MODULE HalfFloatsProofs --------------------------
(***************************************************************************)
(* The conversions of Float16_t and BFloat16_t, for every value, whatever  *)
(* the set of values to start from and however far a float is moved.  A    *)
(* float is taken octave by octave: between two powers of two its units    *)
(* are of one size, and rounding to a multiple of a larger unit is          *)
(* arithmetic on quotients and remainders.                                  *)
(***************************************************************************)
EXTENDS HalfFloats, TLAPS

-----------------------------------------------------------------------------
(* n has k + 1 bits. *)
InOctave(n, k) == n \in Nat /\ 2^k <= n /\ n < 2^(k + 1)

(* The powers of two up to 2^16. *)
IsPower(k, p) ==
  \/ k = 0 /\ p = 1
  \/ k = 1 /\ p = 2
  \/ k = 2 /\ p = 4
  \/ k = 3 /\ p = 8
  \/ k = 4 /\ p = 16
  \/ k = 5 /\ p = 32
  \/ k = 6 /\ p = 64
  \/ k = 7 /\ p = 128
  \/ k = 8 /\ p = 256
  \/ k = 9 /\ p = 512
  \/ k = 10 /\ p = 1024
  \/ k = 11 /\ p = 2048
  \/ k = 12 /\ p = 4096
  \/ k = 13 /\ p = 8192
  \/ k = 14 /\ p = 16384
  \/ k = 15 /\ p = 32768
  \/ k = 16 /\ p = 65536

(* What 2^k is. *)
LEMMA PowerTable ==
  ASSUME NEW k \in Nat, k <= 16
  PROVE  2^k \in Nat /\ IsPower(k, 2^k)
<1>all. k = 0 \/ k = 1 \/ k = 2 \/ k = 3 \/ k = 4 \/ k = 5 \/ k = 6 \/ k = 7 \/ k = 8
  \/ k = 9 \/ k = 10 \/ k = 11 \/ k = 12 \/ k = 13 \/ k = 14 \/ k = 15 \/ k = 16
  BY SMT
<1>0. CASE k = 0
  BY <1>0, SMT DEF IsPower
<1>1. CASE k = 1
  BY <1>1, SMT DEF IsPower
<1>2. CASE k = 2
  BY <1>2, SMT DEF IsPower
<1>3. CASE k = 3
  BY <1>3, SMT DEF IsPower
<1>4. CASE k = 4
  BY <1>4, SMT DEF IsPower
<1>5. CASE k = 5
  BY <1>5, SMT DEF IsPower
<1>6. CASE k = 6
  BY <1>6, SMT DEF IsPower
<1>7. CASE k = 7
  BY <1>7, SMT DEF IsPower
<1>8. CASE k = 8
  BY <1>8, SMT DEF IsPower
<1>9. CASE k = 9
  BY <1>9, SMT DEF IsPower
<1>10. CASE k = 10
  BY <1>10, SMT DEF IsPower
<1>11. CASE k = 11
  BY <1>11, SMT DEF IsPower
<1>12. CASE k = 12
  BY <1>12, SMT DEF IsPower
<1>13. CASE k = 13
  BY <1>13, SMT DEF IsPower
<1>14. CASE k = 14
  BY <1>14, SMT DEF IsPower
<1>15. CASE k = 15
  BY <1>15, SMT DEF IsPower
<1>16. CASE k = 16
  BY <1>16, SMT DEF IsPower
<1> QED
  BY <1>all, <1>0, <1>1, <1>2, <1>3, <1>4, <1>5, <1>6, <1>7, <1>8, <1>9,
     <1>10, <1>11, <1>12, <1>13, <1>14, <1>15, <1>16

(* Larger powers are larger. *)
LEMMA PowersGrow ==
  ASSUME NEW i \in Nat, NEW j \in Nat, i <= j, j <= 16
  PROVE  2^i \in Nat /\ 2^j \in Nat /\ 2^i <= 2^j
<1>1. i <= 16
  OBVIOUS
<1>2. PICK p \in Nat : p = 2^i /\ IsPower(i, p)
  BY <1>1, PowerTable
<1>3. PICK q \in Nat : q = 2^j /\ IsPower(j, q)
  BY PowerTable
<1>4. p <= q
  BY <1>2, <1>3 DEF IsPower
<1> QED
  BY <1>2, <1>3, <1>4

(* A number has one octave. *)
LEMMA OneOctave ==
  ASSUME NEW i \in Nat, NEW j \in Nat, i <= 15, j <= 15, NEW n,
         InOctave(n, i), InOctave(n, j)
  PROVE  i = j
<1>1. CASE i < j
  <2>1. i + 1 \in Nat /\ i + 1 <= j /\ j <= 16
    BY <1>1
  <2>2. 2^(i + 1) \in Nat /\ 2^j \in Nat /\ 2^(i + 1) <= 2^j
    BY <2>1, PowersGrow
  <2> QED
    BY <2>2 DEF InOctave
<1>2. CASE j < i
  <2>1. j + 1 \in Nat /\ j + 1 <= i /\ i <= 16
    BY <1>2
  <2>2. 2^(j + 1) \in Nat /\ 2^i \in Nat /\ 2^(j + 1) <= 2^i
    BY <2>1, PowersGrow
  <2> QED
    BY <2>2 DEF InOctave
<1> QED
  BY <1>1, <1>2

(* Log2 is the octave. *)
LEMMA Log2InOctave ==
  ASSUME NEW k \in Nat, k <= 15, NEW n, InOctave(n, k)
  PROVE  Log2(n) = k
<1>1. k \in 0..15 /\ 2^k <= n /\ n < 2^(k + 1)
  BY DEF InOctave
<1>2. ASSUME NEW j \in 0..15, 2^j <= n, n < 2^(j + 1)
      PROVE  j = k
  <2>1. j \in Nat /\ j <= 15
    BY SMT
  <2>2. InOctave(n, j)
    BY <1>2 DEF InOctave
  <2> QED
    BY <2>1, <2>2, OneOctave
<1> QED
  BY <1>1, <1>2 DEF Log2

(* The float that n units of 2^e are. *)
LEMMA ScaledInOctave ==
  ASSUME NEW k \in Nat, k <= 15, NEW n, InOctave(n, k), NEW e \in Int
  PROVE  Scaled(n, e) = (127 + k + e) * 2^23 + (n - 2^k) * 2^(23 - k)
<1>1. Log2(n) = k
  BY Log2InOctave
<1>2. n # 0
  <2>1. 0 \in Nat /\ 0 <= k /\ k <= 16
    BY SMT
  <2>2. 2^0 <= 2^k /\ 2^k \in Nat
    BY <2>1, PowersGrow
  <2> QED
    BY <2>2 DEF InOctave
<1> QED
  BY <1>1, <1>2 DEF Scaled

(* Every subnormal magnitude has its octave. *)
LEMMA OctaveOf ==
  ASSUME NEW a \in Nat, a > 0, a < 1024
  PROVE  \E k \in Nat : k <= 9 /\ InOctave(a, k)
<1>0. CASE 1 <= a /\ a < 2
  <2>1. 0 \in Nat /\ 0 <= 9 /\ InOctave(a, 0)
    BY <1>0 DEF InOctave
  <2> QED
    BY <2>1
<1>1. CASE 2 <= a /\ a < 4
  <2>1. 1 \in Nat /\ 1 <= 9 /\ InOctave(a, 1)
    BY <1>1 DEF InOctave
  <2> QED
    BY <2>1
<1>2. CASE 4 <= a /\ a < 8
  <2>1. 2 \in Nat /\ 2 <= 9 /\ InOctave(a, 2)
    BY <1>2 DEF InOctave
  <2> QED
    BY <2>1
<1>3. CASE 8 <= a /\ a < 16
  <2>1. 3 \in Nat /\ 3 <= 9 /\ InOctave(a, 3)
    BY <1>3 DEF InOctave
  <2> QED
    BY <2>1
<1>4. CASE 16 <= a /\ a < 32
  <2>1. 4 \in Nat /\ 4 <= 9 /\ InOctave(a, 4)
    BY <1>4 DEF InOctave
  <2> QED
    BY <2>1
<1>5. CASE 32 <= a /\ a < 64
  <2>1. 5 \in Nat /\ 5 <= 9 /\ InOctave(a, 5)
    BY <1>5 DEF InOctave
  <2> QED
    BY <2>1
<1>6. CASE 64 <= a /\ a < 128
  <2>1. 6 \in Nat /\ 6 <= 9 /\ InOctave(a, 6)
    BY <1>6 DEF InOctave
  <2> QED
    BY <2>1
<1>7. CASE 128 <= a /\ a < 256
  <2>1. 7 \in Nat /\ 7 <= 9 /\ InOctave(a, 7)
    BY <1>7 DEF InOctave
  <2> QED
    BY <2>1
<1>8. CASE 256 <= a /\ a < 512
  <2>1. 8 \in Nat /\ 8 <= 9 /\ InOctave(a, 8)
    BY <1>8 DEF InOctave
  <2> QED
    BY <2>1
<1>9. CASE 512 <= a /\ a < 1024
  <2>1. 9 \in Nat /\ 9 <= 9 /\ InOctave(a, 9)
    BY <1>9 DEF InOctave
  <2> QED
    BY <2>1
<1> QED
  BY <1>0, <1>1, <1>2, <1>3, <1>4, <1>5, <1>6, <1>7, <1>8, <1>9

(* An octave of subnormal values, in numbers. *)
LEMMA SubnormalOctave ==
  ASSUME NEW k \in Nat, k <= 9, NEW a, InOctave(a, k)
  PROVE  a \in Nat /\ a > 0 /\ a < 1024 /\ a >= 2^k /\ a < 2^(k + 1) /\ 2^k \in Nat
<1>all. k = 0 \/ k = 1 \/ k = 2 \/ k = 3 \/ k = 4 \/ k = 5 \/ k = 6 \/ k = 7 \/ k = 8
  \/ k = 9
  BY SMT
<1>0. CASE k = 0
  BY <1>0, SMT DEF InOctave
<1>1. CASE k = 1
  BY <1>1, SMT DEF InOctave
<1>2. CASE k = 2
  BY <1>2, SMT DEF InOctave
<1>3. CASE k = 3
  BY <1>3, SMT DEF InOctave
<1>4. CASE k = 4
  BY <1>4, SMT DEF InOctave
<1>5. CASE k = 5
  BY <1>5, SMT DEF InOctave
<1>6. CASE k = 6
  BY <1>6, SMT DEF InOctave
<1>7. CASE k = 7
  BY <1>7, SMT DEF InOctave
<1>8. CASE k = 8
  BY <1>8, SMT DEF InOctave
<1>9. CASE k = 9
  BY <1>9, SMT DEF InOctave
<1> QED
  BY <1>all, <1>0, <1>1, <1>2, <1>3, <1>4, <1>5, <1>6, <1>7, <1>8, <1>9

-----------------------------------------------------------------------------
(* The size of the float that a 16-bit magnitude goes to. *)
Magnitude16(a) ==
  IF a \div 2^10 = 31 THEN a * 2^13 + 224 * 2^23
  ELSE IF a \div 2^10 = 0 THEN Scaled(a, -24)
  ELSE a * 2^13 + 112 * 2^23

(* A subnormal value is normalised: its octave is the exponent. *)
LEMMA SubnormalMagnitude ==
  ASSUME NEW k \in Nat, k <= 9, NEW a, InOctave(a, k)
  PROVE  /\ Magnitude16(a) = (103 + k) * 2^23 + (a - 2^k) * 2^(23 - k)
         /\ Magnitude16(a) \in Nat
         /\ (103 + k) * 2^23 <= Magnitude16(a)
         /\ Magnitude16(a) < (104 + k) * 2^23
<1>1. a \in Nat /\ a > 0 /\ a < 1024 /\ a >= 2^k /\ a < 2^(k + 1) /\ 2^k \in Nat
  BY SubnormalOctave
<1>2. Magnitude16(a) = (103 + k) * 2^23 + (a - 2^k) * 2^(23 - k)
  <2>1. a \div 2^10 = 0
    BY <1>1, SMT
  <2>2. -24 \in Int /\ k <= 15
    BY SMT
  <2>3. Scaled(a, -24) = (127 + k + (-24)) * 2^23 + (a - 2^k) * 2^(23 - k)
    BY <2>2, ScaledInOctave
  <2>4. 127 + k + (-24) = 103 + k
    BY SMT
  <2> QED
    BY <2>1, <2>3, <2>4 DEF Magnitude16
<1>3. /\ Magnitude16(a) \in Nat
      /\ (103 + k) * 2^23 <= Magnitude16(a)
      /\ Magnitude16(a) < (104 + k) * 2^23
  <2>all. k = 0 \/ k = 1 \/ k = 2 \/ k = 3 \/ k = 4 \/ k = 5 \/ k = 6 \/ k = 7 \/ k = 8
    \/ k = 9
    BY SMT
  <2>0. CASE k = 0
    BY <1>1, <1>2, <2>0, SMT
  <2>1. CASE k = 1
    BY <1>1, <1>2, <2>1, SMT
  <2>2. CASE k = 2
    BY <1>1, <1>2, <2>2, SMT
  <2>3. CASE k = 3
    BY <1>1, <1>2, <2>3, SMT
  <2>4. CASE k = 4
    BY <1>1, <1>2, <2>4, SMT
  <2>5. CASE k = 5
    BY <1>1, <1>2, <2>5, SMT
  <2>6. CASE k = 6
    BY <1>1, <1>2, <2>6, SMT
  <2>7. CASE k = 7
    BY <1>1, <1>2, <2>7, SMT
  <2>8. CASE k = 8
    BY <1>1, <1>2, <2>8, SMT
  <2>9. CASE k = 9
    BY <1>1, <1>2, <2>9, SMT
  <2> QED
    BY <2>all, <2>0, <2>1, <2>2, <2>3, <2>4, <2>5, <2>6, <2>7, <2>8, <2>9
<1> QED
  BY <1>2, <1>3

(* The other values: zero, normal values, infinity and NaN. *)
LEMMA OtherMagnitudes ==
  ASSUME NEW a \in Nat, a < 32768
  PROVE  /\ a = 0 => Magnitude16(a) = 0
         /\ a >= 1024 /\ a < 31744 => Magnitude16(a) = a * 8192 + 112 * 2^23
         /\ a >= 31744 => Magnitude16(a) = a * 8192 + 224 * 2^23
<1>1. a = 0 => Magnitude16(a) = 0
  BY SMT DEF Magnitude16, Scaled
<1>2. a >= 1024 /\ a < 31744 => Magnitude16(a) = a * 8192 + 112 * 2^23
  BY SMT DEF Magnitude16
<1>3. a >= 31744 => Magnitude16(a) = a * 8192 + 224 * 2^23
  BY SMT DEF Magnitude16
<1> QED
  BY <1>1, <1>2, <1>3

(* The class of a value is the range of its float. *)
LEMMA MagnitudeRanges ==
  ASSUME NEW a \in Nat, a < 32768
  PROVE  /\ Magnitude16(a) \in Nat
         /\ a = 0 => Magnitude16(a) = 0
         /\ a > 0 /\ a < 1024 => 103 * 2^23 <= Magnitude16(a) /\ Magnitude16(a) < 113 * 2^23
         /\ a >= 1024 /\ a < 31744 =>
              113 * 2^23 <= Magnitude16(a) /\ Magnitude16(a) < 143 * 2^23
         /\ a = 31744 => Magnitude16(a) = 255 * 2^23
         /\ a > 31744 => 255 * 2^23 < Magnitude16(a) /\ Magnitude16(a) < 2^31
<1>1. CASE a > 0 /\ a < 1024
  <2>1. PICK k \in Nat : k <= 9 /\ InOctave(a, k)
    BY <1>1, OctaveOf
  <2>2. /\ Magnitude16(a) = (103 + k) * 2^23 + (a - 2^k) * 2^(23 - k)
        /\ Magnitude16(a) \in Nat
        /\ (103 + k) * 2^23 <= Magnitude16(a)
        /\ Magnitude16(a) < (104 + k) * 2^23
    BY <2>1, SubnormalMagnitude
  <2>3. 103 * 2^23 <= Magnitude16(a) /\ Magnitude16(a) < 113 * 2^23
    BY <2>1, <2>2, SMT
  <2> QED
    BY <1>1, <2>2, <2>3, SMT
<1>2. CASE a = 0 \/ a >= 1024
  BY <1>2, OtherMagnitudes, SMT
<1> QED
  BY <1>1, <1>2, SMT

(* A larger value has a larger float. *)
LEMMA MagnitudesGrow ==
  ASSUME NEW a \in Nat, NEW b \in Nat, a < b, b < 32768
  PROVE  Magnitude16(a) < Magnitude16(b)
<1>0. a < 32768
  OBVIOUS
<1>1. CASE a > 0 /\ b < 1024
  <2>1. PICK k \in Nat : k <= 9 /\ InOctave(a, k)
    BY <1>1, OctaveOf
  <2>2. PICK l \in Nat : l <= 9 /\ InOctave(b, l)
    BY <1>1, OctaveOf
  <2>3. /\ a >= 2^k /\ a < 2^(k + 1) /\ 2^k \in Nat
        /\ b >= 2^l /\ b < 2^(l + 1) /\ 2^l \in Nat
    BY <2>1, <2>2, SubnormalOctave
  <2>4. /\ Magnitude16(a) = (103 + k) * 2^23 + (a - 2^k) * 2^(23 - k)
        /\ Magnitude16(a) \in Nat
        /\ (103 + k) * 2^23 <= Magnitude16(a)
        /\ Magnitude16(a) < (104 + k) * 2^23
    BY <2>1, SubnormalMagnitude
  <2>5. /\ Magnitude16(b) = (103 + l) * 2^23 + (b - 2^l) * 2^(23 - l)
        /\ Magnitude16(b) \in Nat
        /\ (103 + l) * 2^23 <= Magnitude16(b)
        /\ Magnitude16(b) < (104 + l) * 2^23
    BY <2>2, SubnormalMagnitude
  <2>6. k <= l
    <3>1. SUFFICES ASSUME l < k
                   PROVE  FALSE
      BY SMT
    <3>2. l + 1 \in Nat /\ l + 1 <= k /\ k <= 16
      BY <2>1, <3>1, SMT
    <3>3. 2^(l + 1) \in Nat /\ 2^(l + 1) <= 2^k
      BY <3>2, PowersGrow
    <3> QED
      BY <2>3, <3>3, SMT
  <2>7. CASE k < l
    BY <2>4, <2>5, <2>7, SMT
  <2>8. CASE k = l
    <3>all. k = 0 \/ k = 1 \/ k = 2 \/ k = 3 \/ k = 4 \/ k = 5 \/ k = 6 \/ k = 7 \/ k = 8
      \/ k = 9
      BY <2>1, SMT
    <3>0. CASE k = 0
      BY <2>4, <2>5, <2>8, <3>0, SMT
    <3>1. CASE k = 1
      BY <2>4, <2>5, <2>8, <3>1, SMT
    <3>2. CASE k = 2
      BY <2>4, <2>5, <2>8, <3>2, SMT
    <3>3. CASE k = 3
      BY <2>4, <2>5, <2>8, <3>3, SMT
    <3>4. CASE k = 4
      BY <2>4, <2>5, <2>8, <3>4, SMT
    <3>5. CASE k = 5
      BY <2>4, <2>5, <2>8, <3>5, SMT
    <3>6. CASE k = 6
      BY <2>4, <2>5, <2>8, <3>6, SMT
    <3>7. CASE k = 7
      BY <2>4, <2>5, <2>8, <3>7, SMT
    <3>8. CASE k = 8
      BY <2>4, <2>5, <2>8, <3>8, SMT
    <3>9. CASE k = 9
      BY <2>4, <2>5, <2>8, <3>9, SMT
    <3> QED
      BY <3>all, <3>0, <3>1, <3>2, <3>3, <3>4, <3>5, <3>6, <3>7, <3>8, <3>9
  <2> QED
    BY <2>6, <2>7, <2>8, SMT
<1>2. CASE a = 0 /\ b < 1024
  BY <1>0, <1>2, MagnitudeRanges, SMT
<1>3. CASE a < 1024 /\ b >= 1024
  <2>1. Magnitude16(a) < 113 * 2^23 /\ Magnitude16(a) \in Nat
    BY <1>0, <1>3, MagnitudeRanges, SMT
  <2>2. Magnitude16(b) >= 113 * 2^23 /\ Magnitude16(b) \in Nat
    BY <1>3, MagnitudeRanges, SMT
  <2> QED
    BY <2>1, <2>2, SMT
<1>4. CASE a >= 1024
  <2>1. b >= 1024
    BY <1>4
  <2>2. Magnitude16(a) = a * 8192 + (IF a < 31744 THEN 112 * 2^23 ELSE 224 * 2^23)
    BY <1>0, <1>4, OtherMagnitudes, SMT
  <2>3. Magnitude16(b) = b * 8192 + (IF b < 31744 THEN 112 * 2^23 ELSE 224 * 2^23)
    BY <2>1, OtherMagnitudes, SMT
  <2> QED
    BY <2>2, <2>3, SMT
<1> QED
  BY <1>1, <1>2, <1>3, <1>4, SMT

-----------------------------------------------------------------------------
(* The midpoint after zero. *)
LEMMA MidpointAfterZero ==
  ASSUME kind = "float16"
  PROVE  Midpoint(0) = 102 * 2^23
<1>1. InOctave(1, 0)
  BY SMT DEF InOctave
<1>2. 0 \in Nat /\ 0 <= 15 /\ -25 \in Int
  BY SMT
<1>3. Scaled(1, -25) = (127 + 0 + (-25)) * 2^23 + (1 - 2^0) * 2^(23 - 0)
  BY <1>1, <1>2, ScaledInOctave
<1>4. Scaled(1, -25) = 102 * 2^23
  BY <1>3, SMT
<1>5. 0 \div 2^10 = 0 /\ 0 % 2^10 = 0
  BY SMT
<1>6. Midpoint(0) = Scaled(2 * 0 + 1, -25)
  BY <1>5 DEF Midpoint
<1>7. 2 * 0 + 1 = 1
  BY SMT
<1> QED
  BY <1>4, <1>6, <1>7

(* The midpoint after a subnormal value. *)
LEMMA SubnormalMidpoint ==
  ASSUME kind = "float16", NEW k \in Nat, k <= 9, NEW a, InOctave(a, k)
  PROVE  /\ Midpoint(a) = (103 + k) * 2^23 + (2 * a + 1 - 2^(k + 1)) * 2^(22 - k)
         /\ Midpoint(a) \in Nat
         /\ (103 + k) * 2^23 < Midpoint(a)
         /\ Midpoint(a) < (104 + k) * 2^23
<1>1. a \in Nat /\ a > 0 /\ a < 1024 /\ a >= 2^k /\ a < 2^(k + 1) /\ 2^k \in Nat
  BY SubnormalOctave
<1>2. InOctave(2 * a + 1, k + 1)
  <2>all. k = 0 \/ k = 1 \/ k = 2 \/ k = 3 \/ k = 4 \/ k = 5 \/ k = 6 \/ k = 7 \/ k = 8
    \/ k = 9
    BY SMT
  <2>0. CASE k = 0
    BY <1>1, <2>0, SMT DEF InOctave
  <2>1. CASE k = 1
    BY <1>1, <2>1, SMT DEF InOctave
  <2>2. CASE k = 2
    BY <1>1, <2>2, SMT DEF InOctave
  <2>3. CASE k = 3
    BY <1>1, <2>3, SMT DEF InOctave
  <2>4. CASE k = 4
    BY <1>1, <2>4, SMT DEF InOctave
  <2>5. CASE k = 5
    BY <1>1, <2>5, SMT DEF InOctave
  <2>6. CASE k = 6
    BY <1>1, <2>6, SMT DEF InOctave
  <2>7. CASE k = 7
    BY <1>1, <2>7, SMT DEF InOctave
  <2>8. CASE k = 8
    BY <1>1, <2>8, SMT DEF InOctave
  <2>9. CASE k = 9
    BY <1>1, <2>9, SMT DEF InOctave
  <2> QED
    BY <2>all, <2>0, <2>1, <2>2, <2>3, <2>4, <2>5, <2>6, <2>7, <2>8, <2>9
<1>3. Midpoint(a) = (103 + k) * 2^23 + (2 * a + 1 - 2^(k + 1)) * 2^(22 - k)
  <2>1. a \div 2^10 = 0 /\ a % 2^10 = a
    BY <1>1, SMT
  <2>2. Midpoint(a) = Scaled(2 * a + 1, -25)
    BY <2>1 DEF Midpoint
  <2>3. PICK l \in Nat : l = k + 1 /\ l <= 15
    BY SMT
  <2>4. PICK n \in Nat : n = 2 * a + 1
    BY <1>1
  <2>5. -25 \in Int /\ InOctave(n, l)
    BY <1>2, <2>3, <2>4
  <2>6. Scaled(n, -25) = (127 + l + (-25)) * 2^23 + (n - 2^l) * 2^(23 - l)
    BY <2>3, <2>5, ScaledInOctave
  <2>7. 127 + l + (-25) = 103 + k /\ 23 - l = 22 - k
    BY <2>3, SMT
  <2> QED
    BY <1>1, <2>2, <2>3, <2>4, <2>6, <2>7, SMT
<1>4. /\ Midpoint(a) \in Nat
      /\ (103 + k) * 2^23 < Midpoint(a)
      /\ Midpoint(a) < (104 + k) * 2^23
  <2>all. k = 0 \/ k = 1 \/ k = 2 \/ k = 3 \/ k = 4 \/ k = 5 \/ k = 6 \/ k = 7 \/ k = 8
    \/ k = 9
    BY SMT
  <2>0. CASE k = 0
    BY <1>1, <1>3, <2>0, SMT
  <2>1. CASE k = 1
    BY <1>1, <1>3, <2>1, SMT
  <2>2. CASE k = 2
    BY <1>1, <1>3, <2>2, SMT
  <2>3. CASE k = 3
    BY <1>1, <1>3, <2>3, SMT
  <2>4. CASE k = 4
    BY <1>1, <1>3, <2>4, SMT
  <2>5. CASE k = 5
    BY <1>1, <1>3, <2>5, SMT
  <2>6. CASE k = 6
    BY <1>1, <1>3, <2>6, SMT
  <2>7. CASE k = 7
    BY <1>1, <1>3, <2>7, SMT
  <2>8. CASE k = 8
    BY <1>1, <1>3, <2>8, SMT
  <2>9. CASE k = 9
    BY <1>1, <1>3, <2>9, SMT
  <2> QED
    BY <2>all, <2>0, <2>1, <2>2, <2>3, <2>4, <2>5, <2>6, <2>7, <2>8, <2>9
<1> QED
  BY <1>3, <1>4

(* The midpoint after a normal value. *)
LEMMA NormalMidpoint ==
  ASSUME kind = "float16", NEW a \in Nat, a >= 1024, a < 31744
  PROVE  Midpoint(a) = a * 8192 + 112 * 2^23 + 4096
<1>1. PICK e \in Nat, m \in Nat :
        e = a \div 2^10 /\ m = a % 2^10 /\ m < 1024 /\ a = 1024 * e + m /\ e >= 1
  BY SMT
<1>2. Midpoint(a) = Scaled(2 * (2^10 + m) + 1, e - 26)
  <2>1. e # 0
    BY <1>1
  <2> QED
    BY <1>1, <2>1 DEF Midpoint
<1>3. PICK n \in Nat, x \in Int : n = 2 * (2^10 + m) + 1 /\ x = e - 26
  BY <1>1
<1>4. n \in Nat /\ 2048 <= n /\ n < 4096
  BY <1>1, <1>3, SMT
<1>5. ASSUME NEW l \in Nat, l = 11
      PROVE  Midpoint(a) = a * 8192 + 112 * 2^23 + 4096
  <2>1. l <= 15 /\ InOctave(n, l)
    BY <1>4, <1>5, SMT DEF InOctave
  <2>2. Scaled(n, x) = (127 + l + x) * 2^23 + (n - 2^l) * 2^(23 - l)
    BY <2>1, ScaledInOctave
  <2>3. Scaled(n, x) = (138 + x) * 2^23 + (n - 2048) * 4096
    BY <1>5, <2>2, SMT
  <2> QED
    BY <1>1, <1>2, <1>3, <2>3, SMT
<1>6. \E l \in Nat : l = 11
  OBVIOUS
<1> QED
  BY <1>5, <1>6

(* The midpoints after smaller values are below an octave's floats. *)
LEMMA MidpointBelow ==
  ASSUME kind = "float16", NEW k \in Nat, k <= 9, NEW a \in Nat, a < 2^k
  PROVE  Midpoint(a) \in Nat /\ Midpoint(a) < (103 + k) * 2^23
<1>1. CASE a = 0
  BY <1>1, MidpointAfterZero, SMT
<1>2. CASE a > 0
  <2>1. 2^k \in Nat /\ 2^k <= 512
    <3>1. k <= 9 /\ 9 \in Nat /\ 9 <= 16
      BY SMT
    <3>2. 2^k \in Nat /\ 2^k <= 2^9
      BY <3>1, PowersGrow
    <3> QED
      BY <3>2, SMT
  <2>2. a < 1024
    BY <2>1
  <2>3. PICK l \in Nat : l <= 9 /\ InOctave(a, l)
    BY <1>2, <2>2, OctaveOf
  <2>4. a >= 2^l /\ 2^l \in Nat
    BY <2>3, SubnormalOctave
  <2>5. l < k
    <3>1. SUFFICES ASSUME k <= l
                   PROVE  FALSE
      BY SMT
    <3>2. l <= 16
      BY <2>3, SMT
    <3>3. 2^k <= 2^l
      BY <3>1, <3>2, PowersGrow
    <3> QED
      BY <2>1, <2>4, <3>3, SMT
  <2>6. /\ Midpoint(a) = (103 + l) * 2^23 + (2 * a + 1 - 2^(l + 1)) * 2^(22 - l)
        /\ Midpoint(a) \in Nat
        /\ (103 + l) * 2^23 < Midpoint(a)
        /\ Midpoint(a) < (104 + l) * 2^23
    BY <2>3, SubnormalMidpoint
  <2> QED
    BY <2>5, <2>6, SMT
<1> QED
  BY <1>1, <1>2

(* The midpoint after the first value above an octave is above its floats. *)
LEMMA MidpointAbove ==
  ASSUME kind = "float16", NEW k \in Nat, k <= 9
  PROVE  Midpoint(2^(k + 1)) \in Nat /\ Midpoint(2^(k + 1)) >= (104 + k) * 2^23
<1>1. CASE k = 9
  <2>1. 2^(k + 1) = 1024
    BY <1>1, SMT
  <2>2. 1024 \in Nat /\ 1024 >= 1024 /\ 1024 < 31744
    BY SMT
  <2>3. Midpoint(1024) = 1024 * 8192 + 112 * 2^23 + 4096
    BY <2>2, NormalMidpoint
  <2> QED
    BY <1>1, <2>1, <2>3, SMT
<1>2. CASE k <= 8
  <2>1. k + 1 \in Nat /\ k + 1 <= 9
    BY <1>2
  <2>2. InOctave(2^(k + 1), k + 1)
    <3>1. k + 1 \in Nat /\ (k + 1) + 1 \in Nat /\ k + 1 <= (k + 1) + 1 /\ (k + 1) + 1 <= 16
      BY <2>1
    <3>2. 2^(k + 1) \in Nat /\ 2^(k + 1) < 2^((k + 1) + 1)
      <4>all. k = 0 \/ k = 1 \/ k = 2 \/ k = 3 \/ k = 4 \/ k = 5 \/ k = 6 \/ k = 7 \/ k = 8
        BY <1>2, SMT
      <4>0. CASE k = 0
        BY <4>0, SMT
      <4>1. CASE k = 1
        BY <4>1, SMT
      <4>2. CASE k = 2
        BY <4>2, SMT
      <4>3. CASE k = 3
        BY <4>3, SMT
      <4>4. CASE k = 4
        BY <4>4, SMT
      <4>5. CASE k = 5
        BY <4>5, SMT
      <4>6. CASE k = 6
        BY <4>6, SMT
      <4>7. CASE k = 7
        BY <4>7, SMT
      <4>8. CASE k = 8
        BY <4>8, SMT
      <4> QED
        BY <4>all, <4>0, <4>1, <4>2, <4>3, <4>4, <4>5, <4>6, <4>7, <4>8
    <3> QED
      BY <3>2 DEF InOctave
  <2> DEFINE a == 2^(k + 1)
  <2>3. InOctave(a, k + 1)
    BY <2>2
  <2> HIDE DEF a
  <2>4. /\ Midpoint(a) = (103 + (k + 1)) * 2^23
                          + (2 * a + 1 - 2^((k + 1) + 1)) * 2^(22 - (k + 1))
        /\ Midpoint(a) \in Nat
        /\ (103 + (k + 1)) * 2^23 < Midpoint(a)
        /\ Midpoint(a) < (104 + (k + 1)) * 2^23
    BY <2>1, <2>3, SubnormalMidpoint
  <2>5. Midpoint(a) \in Nat /\ Midpoint(a) >= (104 + k) * 2^23
    BY <2>4, SMT
  <2> QED
    BY <2>5 DEF a
<1> QED
  BY <1>1, <1>2, SMT

-----------------------------------------------------------------------------
(* s in units of d, rounded to nearest, ties to even; h is half of d. *)
RoundAt(s, d, h) ==
  IF s % d > h \/ (s % d = h /\ (s \div d) % 2 = 1) THEN s \div d + 1 ELSE s \div d

(* What the addition of denorm_magic does to a float of the exponent e. *)
LEMMA RoundedUnitsAt ==
  ASSUME NEW u \in Nat, NEW e \in Nat, e >= 101, e <= 112,
         e * 2^23 <= u, u < (e + 1) * 2^23
  PROVE  RoundedUnits(u) = RoundAt(u - (e - 1) * 2^23, 2^(126 - e), 2^(125 - e))
<1>1. u \div 2^23 = e /\ (u % 2^23) + 2^23 = u - (e - 1) * 2^23
  BY SMT
<1>2. e # 0 /\ ~(126 - e > 25) /\ (126 - e) - 1 = 125 - e
  BY SMT
<1> QED
  BY <1>1, <1>2 DEF RoundedUnits, RoundAt

(* a is the 16-bit magnitude nearest to the float u. *)
NearestTo(u, a) ==
  /\ a > 0 => Midpoint(a - 1) < u \/ (Midpoint(a - 1) = u /\ a % 2 = 0)
  /\ a < 31744 => u < Midpoint(a) \/ (u = Midpoint(a) /\ a % 2 = 0)

(* Floats too small for the first octave round to zero or to the first value. *)
LEMMA TinyToNearest ==
  ASSUME kind = "float16", NEW u \in Nat, u < 103 * 2^23
  PROVE  /\ RoundedUnits(u) \in Nat /\ RoundedUnits(u) <= 1
         /\ NearestTo(u, RoundedUnits(u))
<1>1. CASE u <= 102 * 2^23
  <2>1. RoundedUnits(u) = 0
    <3>1. CASE u < 101 * 2^23
      <4>1. 126 - (IF u \div 2^23 = 0 THEN 1 ELSE u \div 2^23) > 25
        BY <3>1, SMT
      <4> QED
        BY <4>1 DEF RoundedUnits
    <3>2. CASE u >= 101 * 2^23
      <4>1. CASE u < 102 * 2^23
        <5>1. ASSUME NEW e \in Nat, e = 101
              PROVE  RoundedUnits(u) = 0
          <6>1. e >= 101 /\ e <= 112 /\ e * 2^23 <= u /\ u < (e + 1) * 2^23
            BY <3>2, <4>1, <5>1, SMT
          <6>2. RoundedUnits(u) = RoundAt(u - (e - 1) * 2^23, 2^(126 - e), 2^(125 - e))
            BY <6>1, RoundedUnitsAt
          <6> QED
            BY <3>2, <4>1, <5>1, <6>2, SMT DEF RoundAt
        <5>2. \E e \in Nat : e = 101
          OBVIOUS
        <5> QED
          BY <5>1, <5>2
      <4>2. CASE u = 102 * 2^23
        <5>1. ASSUME NEW e \in Nat, e = 102
              PROVE  RoundedUnits(u) = 0
          <6>1. e >= 101 /\ e <= 112 /\ e * 2^23 <= u /\ u < (e + 1) * 2^23
            BY <3>2, <4>2, <5>1, SMT
          <6>2. RoundedUnits(u) = RoundAt(u - (e - 1) * 2^23, 2^(126 - e), 2^(125 - e))
            BY <6>1, RoundedUnitsAt
          <6> QED
            BY <3>2, <4>2, <5>1, <6>2, SMT DEF RoundAt
        <5>2. \E e \in Nat : e = 102
          OBVIOUS
        <5> QED
          BY <5>1, <5>2
      <4> QED
        BY <1>1, <4>1, <4>2, SMT
    <3> QED
      BY <3>1, <3>2, SMT
  <2>2. Midpoint(0) = 102 * 2^23
    BY MidpointAfterZero
  <2>3. NearestTo(u, 0)
    BY <1>1, <2>2, SMT DEF NearestTo
  <2> QED
    BY <2>1, <2>3, SMT
<1>2. CASE u > 102 * 2^23
  <2>1. RoundedUnits(u) = 1
    <3>1. ASSUME NEW e \in Nat, e = 102
          PROVE  RoundedUnits(u) = 1
      <4>1. e >= 101 /\ e <= 112 /\ e * 2^23 <= u /\ u < (e + 1) * 2^23
        BY <1>2, <3>1, SMT
      <4>2. RoundedUnits(u) = RoundAt(u - (e - 1) * 2^23, 2^(126 - e), 2^(125 - e))
        BY <4>1, RoundedUnitsAt
      <4> QED
        BY <1>2, <3>1, <4>2, SMT DEF RoundAt
    <3>2. \E e \in Nat : e = 102
      OBVIOUS
    <3> QED
      BY <3>1, <3>2
  <2>2. Midpoint(0) = 102 * 2^23
    BY MidpointAfterZero
  <2>3. 103 * 2^23 < Midpoint(1) /\ Midpoint(1) \in Nat
    <3>1. ASSUME NEW k \in Nat, k = 0, NEW a \in Nat, a = 1
          PROVE  103 * 2^23 < Midpoint(a) /\ Midpoint(a) \in Nat
      <4>1. k <= 9 /\ InOctave(a, k)
        BY <3>1, SMT DEF InOctave
      <4>2. /\ Midpoint(a) = (103 + k) * 2^23 + (2 * a + 1 - 2^(k + 1)) * 2^(22 - k)
            /\ Midpoint(a) \in Nat
            /\ (103 + k) * 2^23 < Midpoint(a)
            /\ Midpoint(a) < (104 + k) * 2^23
        BY <4>1, SubnormalMidpoint
      <4> QED
        BY <3>1, <4>2, SMT
    <3>2. \E k \in Nat, a \in Nat : k = 0 /\ a = 1
      BY SMT
    <3> QED
      BY <3>1, <3>2
  <2>4. 1 - 1 = 0
    BY SMT
  <2>5. NearestTo(u, 1)
    BY <1>2, <2>2, <2>3, <2>4, SMT DEF NearestTo
  <2> QED
    BY <2>1, <2>5, SMT
<1> QED
  BY <1>1, <1>2, SMT

(* Floats of the size of subnormal values round to the nearest of them. *)
LEMMA SubnormalToNearest ==
  ASSUME kind = "float16", NEW k \in Nat, k <= 9,
         NEW u \in Nat, (103 + k) * 2^23 <= u, u < (104 + k) * 2^23
  PROVE  /\ RoundedUnits(u) \in Nat /\ RoundedUnits(u) <= 1024
         /\ NearestTo(u, RoundedUnits(u))
<1> DEFINE s == u - (102 + k) * 2^23
           d == 2^(23 - k)
           h == 2^(22 - k)
           q == s \div d
           r == s % d
<1>1. RoundedUnits(u) = RoundAt(s, d, h)
  <2>1. PICK e \in Nat : e = 103 + k
    BY SMT
  <2>2. e >= 101 /\ e <= 112 /\ e * 2^23 <= u /\ u < (e + 1) * 2^23
    BY <2>1, SMT
  <2>3. RoundedUnits(u) = RoundAt(u - (e - 1) * 2^23, 2^(126 - e), 2^(125 - e))
    BY <2>2, RoundedUnitsAt
  <2>4. e - 1 = 102 + k /\ 126 - e = 23 - k /\ 125 - e = 22 - k
    BY <2>1, SMT
  <2> QED
    BY <2>3, <2>4
<1>2. RoundedUnits(u) = IF r > h \/ (r = h /\ q % 2 = 1) THEN q + 1 ELSE q
  BY <1>1 DEF RoundAt
<1>3. /\ q \in Nat /\ r \in Nat /\ d \in Nat /\ h \in Nat /\ d = 2 * h /\ h > 0 /\ r < d
      /\ 2^k \in Nat /\ 2^(k + 1) = 2 * 2^k /\ 2^k > 0 /\ 2^k <= 512
      /\ 2^k <= q /\ q < 2^(k + 1)
      /\ u = (103 + k) * 2^23 + (q - 2^k) * d + r
  <2>all. k = 0 \/ k = 1 \/ k = 2 \/ k = 3 \/ k = 4 \/ k = 5 \/ k = 6 \/ k = 7 \/ k = 8
    \/ k = 9
    BY SMT
  <2>0. CASE k = 0
    BY <2>0, SMT
  <2>1. CASE k = 1
    BY <2>1, SMT
  <2>2. CASE k = 2
    BY <2>2, SMT
  <2>3. CASE k = 3
    BY <2>3, SMT
  <2>4. CASE k = 4
    BY <2>4, SMT
  <2>5. CASE k = 5
    BY <2>5, SMT
  <2>6. CASE k = 6
    BY <2>6, SMT
  <2>7. CASE k = 7
    BY <2>7, SMT
  <2>8. CASE k = 8
    BY <2>8, SMT
  <2>9. CASE k = 9
    BY <2>9, SMT
  <2> QED
    BY <2>all, <2>0, <2>1, <2>2, <2>3, <2>4, <2>5, <2>6, <2>7, <2>8, <2>9
<1> HIDE DEF s, d, h, q, r
<1>4. InOctave(q, k)
  BY <1>3 DEF InOctave
<1>5. /\ Midpoint(q) = (103 + k) * 2^23 + (2 * q + 1 - 2^(k + 1)) * 2^(22 - k)
      /\ Midpoint(q) \in Nat
      /\ (103 + k) * 2^23 < Midpoint(q)
      /\ Midpoint(q) < (104 + k) * 2^23
  BY <1>4, SubnormalMidpoint
<1>6. Midpoint(q) = (103 + k) * 2^23 + ((q - 2^k) * d + h)
  <2>1. Midpoint(q) = (103 + k) * 2^23 + (2 * q + 1 - 2^(k + 1)) * h
    BY <1>5 DEF h
  <2>2. (2 * q + 1 - 2^(k + 1)) * h = (q - 2^k) * d + h
    BY <1>3, SMT
  <2> QED
    BY <2>1, <2>2
<1>7. /\ (103 + k) * 2^23 \in Nat
      /\ (103 + k) * 2^23 <= u
      /\ u < (104 + k) * 2^23
      /\ (104 + k) * 2^23 \in Nat
  BY SMT
<1>8. Midpoint(q - 1) \in Int /\ Midpoint(q - 1) < u
  <2>1. CASE q = 2^k
    <3>1. PICK p \in Nat : p = q - 1
      BY <1>3
    <3>2. p < 2^k
      BY <1>3, <2>1, <3>1
    <3>3. Midpoint(p) \in Nat /\ Midpoint(p) < (103 + k) * 2^23
      BY <3>2, MidpointBelow
    <3> QED
      BY <1>7, <3>1, <3>3
  <2>2. CASE q > 2^k
    <3>1. PICK p \in Nat : p = q - 1
      BY <1>3
    <3>2. InOctave(p, k)
      BY <1>3, <2>2, <3>1 DEF InOctave
    <3>3. /\ Midpoint(p) = (103 + k) * 2^23 + (2 * p + 1 - 2^(k + 1)) * 2^(22 - k)
          /\ Midpoint(p) \in Nat
          /\ (103 + k) * 2^23 < Midpoint(p)
          /\ Midpoint(p) < (104 + k) * 2^23
      BY <3>2, SubnormalMidpoint
    <3>4. Midpoint(p) = (103 + k) * 2^23 + (2 * p + 1 - 2^(k + 1)) * h
      BY <3>3 DEF h
    <3>5. (2 * p + 1 - 2^(k + 1)) * h = (q - 2^k) * d - h
      BY <1>3, <3>1, SMT
    <3>6. Midpoint(p) = (103 + k) * 2^23 + (q - 2^k) * d - h
      BY <1>7, <3>4, <3>5, <1>3, SMT
    <3> QED
      BY <1>3, <3>1, <3>3, <3>6, SMT
  <2> QED
    BY <1>3, <2>1, <2>2
<1>9. Midpoint(q + 1) \in Int /\ Midpoint(q + 1) > u
  <2>1. CASE q + 1 = 2^(k + 1)
    <3>1. Midpoint(2^(k + 1)) \in Nat /\ Midpoint(2^(k + 1)) >= (104 + k) * 2^23
      BY MidpointAbove
    <3> QED
      BY <1>7, <2>1, <3>1
  <2>2. CASE q + 1 < 2^(k + 1)
    <3>1. PICK p \in Nat : p = q + 1
      BY <1>3
    <3>2. InOctave(p, k)
      BY <1>3, <2>2, <3>1 DEF InOctave
    <3>3. /\ Midpoint(p) = (103 + k) * 2^23 + (2 * p + 1 - 2^(k + 1)) * 2^(22 - k)
          /\ Midpoint(p) \in Nat
          /\ (103 + k) * 2^23 < Midpoint(p)
          /\ Midpoint(p) < (104 + k) * 2^23
      BY <3>2, SubnormalMidpoint
    <3>4. Midpoint(p) = (103 + k) * 2^23 + (2 * p + 1 - 2^(k + 1)) * h
      BY <3>3 DEF h
    <3>5. (2 * p + 1 - 2^(k + 1)) * h = (q - 2^k) * d + d + h
      BY <1>3, <3>1, SMT
    <3>6. Midpoint(p) = (103 + k) * 2^23 + ((q - 2^k) * d + d + h)
      BY <3>4, <3>5
    <3> QED
      BY <1>3, <3>1, <3>3, <3>6, SMT
  <2> QED
    BY <1>3, <2>1, <2>2
<1>10. q + 1 <= 1024 /\ q + 1 < 31744 /\ q < 31744
  BY <1>3
<1>11. CASE r > h \/ (r = h /\ q % 2 = 1)
  <2>1. RoundedUnits(u) = q + 1
    BY <1>2, <1>11
  <2>2. Midpoint(q) <= u /\ (Midpoint(q) = u => r = h)
    BY <1>3, <1>5, <1>6, <1>11, SMT
  <2>3. r = h => (q + 1) % 2 = 0
    BY <1>3, <1>11, SMT
  <2>4. (q + 1) - 1 = q
    BY <1>3
  <2>5. NearestTo(u, q + 1)
    BY <1>5, <1>9, <2>2, <2>3, <2>4 DEF NearestTo
  <2> QED
    BY <1>3, <1>10, <2>1, <2>5
<1>12. CASE ~(r > h \/ (r = h /\ q % 2 = 1))
  <2>1. RoundedUnits(u) = q
    BY <1>2, <1>12
  <2>2. u <= Midpoint(q) /\ (Midpoint(q) = u => r = h)
    BY <1>3, <1>5, <1>6, <1>12, SMT
  <2>3. r = h => q % 2 = 0
    BY <1>3, <1>12, SMT
  <2>4. NearestTo(u, q)
    BY <1>5, <1>8, <2>2, <2>3 DEF NearestTo
  <2> QED
    BY <1>3, <1>10, <2>1, <2>4
<1> QED
  BY <1>11, <1>12

-----------------------------------------------------------------------------
(* The bits of Float16ToUint16Impl, without the sign. *)
Bits16(u) ==
  LET mant_odd == (u \div 2^13) % 2
  IN IF u >= 143 * 2^23 THEN IF u > Infinity32 THEN 32256 ELSE 31744
     ELSE IF u < 113 * 2^23 THEN RoundedUnits(u)
     ELSE (u - 112 * 2^23 + 4095 + mant_odd) \div 2^13

(* Floats of the size of normal values: the added 4095 and the odd bit round. *)
LEMMA NormalToNearest ==
  ASSUME kind = "float16", NEW u \in Nat, 113 * 2^23 <= u, u < 143 * 2^23
  PROVE  Bits16(u) \in Nat /\ Bits16(u) <= 31744 /\ NearestTo(u, Bits16(u))
<1>1. PICK q \in Nat, r \in Nat :
        u = 112 * 2^23 + q * 8192 + r /\ r < 8192 /\ q >= 1024 /\ q < 31744
  <2>1. /\ (u - 112 * 2^23) \div 8192 \in Nat /\ (u - 112 * 2^23) % 8192 \in Nat
        /\ u = 112 * 2^23 + ((u - 112 * 2^23) \div 8192) * 8192 + ((u - 112 * 2^23) % 8192)
        /\ (u - 112 * 2^23) % 8192 < 8192
        /\ (u - 112 * 2^23) \div 8192 >= 1024 /\ (u - 112 * 2^23) \div 8192 < 31744
    BY SMT
  <2> QED
    BY <2>1
<1>2. (u \div 2^13) % 2 = q % 2
  BY <1>1, SMT
<1>3. Bits16(u) = (q * 8192 + r + 4095 + (q % 2)) \div 8192
  BY <1>1, <1>2, SMT DEF Bits16
<1>4. Midpoint(q) = q * 8192 + 112 * 2^23 + 4096
  BY <1>1, NormalMidpoint
<1>5. CASE r > 4096 \/ (r = 4096 /\ q % 2 = 1)
  <2>1. Bits16(u) = q + 1
    BY <1>1, <1>3, <1>5, SMT
  <2>2. Midpoint(q) < u \/ (Midpoint(q) = u /\ (q + 1) % 2 = 0)
    BY <1>1, <1>4, <1>5, SMT
  <2>3. q + 1 < 31744 => u < Midpoint(q + 1)
    <3>1. SUFFICES ASSUME q + 1 < 31744
                   PROVE  u < Midpoint(q + 1)
      OBVIOUS
    <3>2. PICK p \in Nat : p = q + 1
      BY <1>1
    <3>3. p >= 1024 /\ p < 31744
      BY <1>1, <3>1, <3>2
    <3>4. Midpoint(p) = p * 8192 + 112 * 2^23 + 4096
      BY <3>3, NormalMidpoint
    <3>5. u < Midpoint(p)
      BY <1>1, <3>2, <3>4, SMT
    <3> QED
      BY <3>2, <3>5
  <2>4. (q + 1) - 1 = q /\ q + 1 \in Nat /\ q + 1 <= 31744
    BY <1>1, SMT
  <2>5. NearestTo(u, q + 1)
    BY <2>2, <2>3, <2>4 DEF NearestTo
  <2> QED
    BY <2>1, <2>4, <2>5
<1>6. CASE ~(r > 4096 \/ (r = 4096 /\ q % 2 = 1))
  <2>1. Bits16(u) = q
    BY <1>1, <1>3, <1>6, SMT
  <2>2. u < Midpoint(q) \/ (u = Midpoint(q) /\ q % 2 = 0)
    BY <1>1, <1>4, <1>6, SMT
  <2>3. PICK p \in Nat : p = q - 1
    BY <1>1
  <2>4. Midpoint(p) < u
    <3>1. CASE q = 1024
      <4>1. ASSUME NEW k \in Nat, k = 9
            PROVE  Midpoint(p) < u
        <5>1. k <= 9 /\ InOctave(p, k)
          BY <2>3, <3>1, <4>1, SMT DEF InOctave
        <5>2. /\ Midpoint(p) = (103 + k) * 2^23 + (2 * p + 1 - 2^(k + 1)) * 2^(22 - k)
              /\ Midpoint(p) \in Nat
              /\ (103 + k) * 2^23 < Midpoint(p)
              /\ Midpoint(p) < (104 + k) * 2^23
          BY <5>1, SubnormalMidpoint
        <5> QED
          BY <4>1, <5>2, SMT
      <4>2. \E k \in Nat : k = 9
        OBVIOUS
      <4> QED
        BY <4>1, <4>2
    <3>2. CASE q > 1024
      <4>1. p >= 1024 /\ p < 31744
        BY <1>1, <2>3, <3>2
      <4>2. Midpoint(p) = p * 8192 + 112 * 2^23 + 4096
        BY <4>1, NormalMidpoint
      <4> QED
        BY <1>1, <2>3, <4>2, SMT
    <3> QED
      BY <1>1, <3>1, <3>2
  <2>5. NearestTo(u, q)
    BY <1>1, <2>2, <2>3, <2>4 DEF NearestTo
  <2> QED
    BY <1>1, <2>1, <2>5
<1> QED
  BY <1>5, <1>6

(* Every float that is not a NaN goes to the nearest float16. *)
LEMMA Bits16Nearest ==
  ASSUME kind = "float16", NEW u \in Nat, u <= Infinity32
  PROVE  Bits16(u) \in Nat /\ Bits16(u) <= 31744 /\ NearestTo(u, Bits16(u))
<1>1. CASE u < 103 * 2^23
  <2>1. Bits16(u) = RoundedUnits(u)
    BY <1>1, SMT DEF Bits16
  <2> QED
    BY <1>1, <2>1, TinyToNearest, SMT
<1>2. CASE 103 * 2^23 <= u /\ u < 113 * 2^23
  <2>1. Bits16(u) = RoundedUnits(u)
    BY <1>2, SMT DEF Bits16
  <2>2. PICK k \in Nat : k <= 9 /\ (103 + k) * 2^23 <= u /\ u < (104 + k) * 2^23
    <3>1. /\ u \div 2^23 - 103 \in Nat
          /\ u \div 2^23 - 103 <= 9
          /\ (103 + (u \div 2^23 - 103)) * 2^23 <= u
          /\ u < (104 + (u \div 2^23 - 103)) * 2^23
      BY <1>2, SMT
    <3> QED
      BY <3>1
  <2>3. RoundedUnits(u) \in Nat /\ RoundedUnits(u) <= 1024 /\ NearestTo(u, RoundedUnits(u))
    BY <2>2, SubnormalToNearest
  <2> QED
    BY <2>1, <2>3, SMT
<1>3. CASE 113 * 2^23 <= u /\ u < 143 * 2^23
  BY <1>3, NormalToNearest
<1>4. CASE 143 * 2^23 <= u
  <2>1. Bits16(u) = 31744
    BY <1>4, SMT DEF Bits16, Infinity32
  <2>2. PICK p \in Nat : p = 31743
    BY SMT
  <2>3. p >= 1024 /\ p < 31744
    BY <2>2
  <2>4. Midpoint(p) = p * 8192 + 112 * 2^23 + 4096
    BY <2>3, NormalMidpoint
  <2>5. Midpoint(31744 - 1) < u
    <3>1. Midpoint(p) < u
      BY <1>4, <2>2, <2>4, SMT
    <3>2. 31744 - 1 = p
      BY <2>2
    <3> QED
      BY <3>1, <3>2
  <2>6. NearestTo(u, 31744)
    BY <2>5 DEF NearestTo
  <2> QED
    BY <2>1, <2>6
<1> QED
  BY <1>1, <1>2, <1>3, <1>4, SMT

(* The bits of BFloat16ToUint16Impl, without the sign, of what is not a NaN. *)
BitsB16(u) == (u + ((u \div 2^16) % 2) + kRoundToNearest) \div 2^16

(* Every float that is not a NaN goes to the nearest bfloat16. *)
LEMMA BitsB16Nearest ==
  ASSUME kind = "bfloat16", NEW u \in Nat, u <= Infinity32
  PROVE  /\ BitsB16(u) \in Nat /\ BitsB16(u) <= 32640
         /\ BitsB16(u) > 0 => \/ (BitsB16(u) - 1) * 2^16 + 2^15 < u
                              \/ (BitsB16(u) - 1) * 2^16 + 2^15 = u /\ BitsB16(u) % 2 = 0
         /\ \/ u < BitsB16(u) * 2^16 + 2^15
            \/ u = BitsB16(u) * 2^16 + 2^15 /\ BitsB16(u) % 2 = 0
<1>1. PICK q \in Nat, r \in Nat : u = q * 65536 + r /\ r < 65536 /\ q <= 32640
  <2>1. /\ u \div 65536 \in Nat /\ u % 65536 \in Nat
        /\ u = (u \div 65536) * 65536 + (u % 65536)
        /\ u % 65536 < 65536 /\ u \div 65536 <= 32640
    BY SMT DEF Infinity32
  <2> QED
    BY <2>1
<1>2. u \div 2^16 = q
  BY <1>1, SMT
<1>3. BitsB16(u) = (q * 65536 + r + (q % 2) + 32767) \div 65536
  BY <1>1, <1>2, SMT DEF BitsB16, kRoundToNearest
<1>4. q = 32640 => r = 0
  BY <1>1, SMT DEF Infinity32
<1>5. CASE r > 32768 \/ (r = 32768 /\ q % 2 = 1)
  <2>1. BitsB16(u) = q + 1
    BY <1>1, <1>3, <1>5, SMT
  <2> QED
    BY <1>1, <1>4, <1>5, <2>1, SMT
<1>6. CASE ~(r > 32768 \/ (r = 32768 /\ q % 2 = 1))
  <2>1. BitsB16(u) = q
    BY <1>1, <1>3, <1>6, SMT
  <2> QED
    BY <1>1, <1>4, <1>6, <2>1, SMT
<1> QED
  BY <1>5, <1>6

-----------------------------------------------------------------------------
(* A value is its sign bit and its magnitude. *)
LEMMA SignAndMagnitude ==
  ASSUME NEW v \in Nat, v < 65536
  PROVE  /\ AbsImpl(v) \in Nat /\ AbsImpl(v) < 32768
         /\ IsNegative(v) \in BOOLEAN
         /\ IsNegative(v) => v = AbsImpl(v) + 32768
         /\ ~IsNegative(v) => v = AbsImpl(v)
<1>1. IsNegative(v) \in BOOLEAN
  BY DEF IsNegative
<1>2. /\ AbsImpl(v) \in Nat /\ AbsImpl(v) < 32768
      /\ v >= 32768 => v = AbsImpl(v) + 32768
      /\ ~(v >= 32768) => v = AbsImpl(v)
  BY SMT DEF AbsImpl
<1>3. IsNegative(v) <=> v >= 32768
  BY SMT DEF IsNegative
<1> QED
  BY <1>1, <1>2, <1>3

(* Bits with a sign added are a value of that magnitude and that sign. *)
LEMMA BitsWithSign ==
  ASSUME NEW a \in Nat, a < 32768, NEW x, x.neg \in BOOLEAN, NEW w, w = a + Sign16(x)
  PROVE  w \in Nat /\ w < 65536 /\ AbsImpl(w) = a /\ IsNegative(w) = x.neg
<1>1. ASSUME x.neg
     PROVE  w = a + 32768
  <2>1. Sign16(x) = 32768
    BY <1>1 DEF Sign16
  <2> QED
    BY <2>1
<1>2. ASSUME ~x.neg
     PROVE  w = a + 0
  <2>1. Sign16(x) = 0
    BY <1>2 DEF Sign16
  <2> QED
    BY <2>1
<1>3. w \in Nat /\ w < 65536
  BY <1>1, <1>2
<1>4. AbsImpl(w) = a
  BY <1>1, <1>2, <1>3, SMT DEF AbsImpl
<1>5. IsNegative(w) <=> x.neg
  BY <1>1, <1>2, <1>3, SMT DEF IsNegative
<1>6. IsNegative(w) \in BOOLEAN
  BY DEF IsNegative
<1>7. IsNegative(w) = x.neg
  BY <1>5, <1>6
<1> QED
  BY <1>3, <1>4, <1>7

(* The two conversions from float, in parts. *)
LEMMA ToUint16Parts ==
  ASSUME kind \in Kinds, NEW x, x.mag \in Nat
  PROVE  /\ kind = "float16" => ToUint16Impl(x) = Bits16(x.mag) + Sign16(x)
         /\ kind = "bfloat16" /\ ~IsNaN32(x) => ToUint16Impl(x) = BitsB16(x.mag) + Sign16(x)
         /\ kind = "bfloat16" /\ IsNaN32(x) => ToUint16Impl(x) = 32705
<1>1. kind = "float16" => ToUint16Impl(x) = Bits16(x.mag) + Sign16(x)
  BY DEF ToUint16Impl, Float16ToUint16Impl, Bits16
<1>2. kind = "bfloat16" => ToUint16Impl(x) = BFloat16ToUint16Impl(x)
  BY DEF ToUint16Impl
<1> QED
  BY <1>1, <1>2 DEF BFloat16ToUint16Impl, BitsB16, kPositiveQNaNBits

(* Conversion from float, of what is not a NaN. *)
LEMMA ConvertedNearest ==
  ASSUME kind \in Kinds, NEW x, x.neg \in BOOLEAN, x.mag \in Nat, ~IsNaN32(x)
  PROVE  /\ ToUint16Impl(x) \in Nat /\ ToUint16Impl(x) < 65536
         /\ Nearest(x, ToUint16Impl(x))
<1> DEFINE u == x.mag
<1>0. u \in Nat /\ u <= Infinity32
  BY SMT DEF IsNaN32, Infinity32
<1>1. CASE kind = "float16"
  <2>1. PICK a \in Nat : a = Bits16(u) /\ a <= 31744 /\ NearestTo(u, a)
    BY <1>0, <1>1, Bits16Nearest
  <2>2. PICK w : w = ToUint16Impl(x) /\ w = a + Sign16(x)
    BY <1>1, <2>1, ToUint16Parts
  <2>3. a < 32768
    BY <2>1
  <2>4. w \in Nat /\ w < 65536 /\ AbsImpl(w) = a /\ IsNegative(w) = x.neg
    BY <2>2, <2>3, BitsWithSign
  <2>5. kPositiveInfinityBits = 31744
    BY <1>1 DEF kPositiveInfinityBits
  <2>6. ~IsNaN(w)
    BY <2>1, <2>4, <2>5, SMT DEF IsNaN
  <2> QED
    BY <2>1, <2>2, <2>4, <2>5, <2>6 DEF Nearest, NearestTo
<1>2. CASE kind = "bfloat16"
  <2>1. PICK a \in Nat :
          /\ a = BitsB16(u) /\ a <= 32640
          /\ a > 0 => \/ (a - 1) * 2^16 + 2^15 < u
                      \/ (a - 1) * 2^16 + 2^15 = u /\ a % 2 = 0
          /\ u < a * 2^16 + 2^15 \/ (u = a * 2^16 + 2^15 /\ a % 2 = 0)
    BY <1>0, <1>2, BitsB16Nearest
  <2>2. PICK w : w = ToUint16Impl(x) /\ w = a + Sign16(x)
    BY <1>2, <2>1, ToUint16Parts
  <2>3. a < 32768
    BY <2>1
  <2>4. w \in Nat /\ w < 65536 /\ AbsImpl(w) = a /\ IsNegative(w) = x.neg
    BY <2>2, <2>3, BitsWithSign
  <2>5. kPositiveInfinityBits = 32640
    BY <1>2 DEF kPositiveInfinityBits
  <2>6. ~IsNaN(w)
    BY <2>1, <2>4, <2>5, SMT DEF IsNaN
  <2>7. /\ Midpoint(a) = a * 2^16 + 2^15
        /\ Midpoint(a - 1) = (a - 1) * 2^16 + 2^15
    BY <1>2 DEF Midpoint
  <2> QED
    BY <2>1, <2>2, <2>4, <2>5, <2>6, <2>7 DEF Nearest
<1> QED
  BY <1>1, <1>2 DEF Kinds

(* Conversion from float gives a 16-bit value. *)
LEMMA ConvertedInRange ==
  ASSUME kind \in Kinds, NEW x, x.neg \in BOOLEAN, x.mag \in Nat
  PROVE  ToUint16Impl(x) \in Nat /\ ToUint16Impl(x) < 65536
<1>1. CASE ~IsNaN32(x)
  BY <1>1, ConvertedNearest
<1>2. CASE IsNaN32(x) /\ kind = "float16"
  <2>1. Bits16(x.mag) = 32256
    BY <1>2, SMT DEF Bits16, IsNaN32, Infinity32
  <2>2. ToUint16Impl(x) = 32256 + Sign16(x)
    BY <1>2, <2>1, ToUint16Parts
  <2>3. Sign16(x) = 0 \/ Sign16(x) = 32768
    BY SMT DEF Sign16
  <2> QED
    BY <2>2, <2>3, SMT
<1>3. CASE IsNaN32(x) /\ kind = "bfloat16"
  <2>1. ToUint16Impl(x) = 32705
    BY <1>3, ToUint16Parts
  <2> QED
    BY <2>1, SMT
<1> QED
  BY <1>1, <1>2, <1>3 DEF Kinds

-----------------------------------------------------------------------------
(* The size of the float that a magnitude goes to, when it is not a NaN's. *)
Magnitude(a) == IF kind = "float16" THEN Magnitude16(a) ELSE a * 65536

(* The float that a float16 goes to. *)
LEMMA Float16Parts ==
  ASSUME kind = "float16", NEW v
  PROVE  ToFloatImpl(v) = Float(IsNegative(v), Magnitude16(AbsImpl(v)))
BY DEF ToFloatImpl, Float16ToFloatImpl, Magnitude16

(* The float that a bfloat16 goes to: its upper half is the value. *)
LEMMA BFloat16Parts ==
  ASSUME kind = "bfloat16", NEW v \in Nat, v < 65536, ~IsNaN(v)
  PROVE  ToFloatImpl(v) = Float(IsNegative(v), AbsImpl(v) * 65536)
<1>1. PICK a \in Nat : a = AbsImpl(v)
  BY SignAndMagnitude
<1>2. a * 2^16 = a * 65536
  BY SMT
<1>3. ToFloatImpl(v) = Float(IsNegative(v), a * 2^16)
  BY <1>1 DEF ToFloatImpl, BFloat16ToFloatImpl
<1> QED
  BY <1>1, <1>2, <1>3

(* Every NaN of bfloat16 goes to the same NaN. *)
LEMMA BFloat16NaNParts ==
  ASSUME kind = "bfloat16", NEW v, IsNaN(v)
  PROVE  ToFloatImpl(v) = Float(FALSE, Infinity32 + 2^22)
BY DEF ToFloatImpl, BFloat16ToFloatImpl

(* Sizes of floats, of either type: they keep the order and the classes. *)
LEMMA MagnitudeFacts ==
  ASSUME kind \in Kinds
  PROVE  /\ \A a \in Nat : a < 32768 => Magnitude(a) \in Nat
         /\ \A a, b \in Nat : a < b /\ b < 32768 => Magnitude(a) < Magnitude(b)
         /\ Magnitude(0) = 0
         /\ Magnitude(kPositiveInfinityBits) = Infinity32
         /\ kPositiveInfinityBits \in Nat /\ kPositiveInfinityBits > 0
         /\ kPositiveInfinityBits < 32768
<1>1. CASE kind = "float16"
  <2>1. kPositiveInfinityBits = 31744
    BY <1>1 DEF kPositiveInfinityBits
  <2>2. \A a : Magnitude(a) = Magnitude16(a)
    BY <1>1 DEF Magnitude
  <2>3. \A a \in Nat : a < 32768 => Magnitude16(a) \in Nat
    BY MagnitudeRanges
  <2>4. \A a, b \in Nat : a < b /\ b < 32768 => Magnitude16(a) < Magnitude16(b)
    BY MagnitudesGrow
  <2>5. Magnitude16(0) = 0 /\ Magnitude16(31744) = Infinity32
    <3>1. ASSUME NEW a \in Nat, a = 0 PROVE Magnitude16(a) = 0
      BY <3>1, OtherMagnitudes, SMT
    <3>2. ASSUME NEW a \in Nat, a = 31744 PROVE Magnitude16(a) = Infinity32
      BY <3>2, MagnitudeRanges, SMT DEF Infinity32
    <3> QED
      BY <3>1, <3>2
  <2> QED
    BY <2>1, <2>2, <2>3, <2>4, <2>5
<1>2. CASE kind = "bfloat16"
  <2>1. kPositiveInfinityBits = 32640
    BY <1>2 DEF kPositiveInfinityBits
  <2>2. \A a : Magnitude(a) = a * 65536
    BY <1>2 DEF Magnitude
  <2>3. 32640 * 65536 = Infinity32
    BY SMT DEF Infinity32
  <2> QED
    BY <2>1, <2>2, <2>3, SMT
<1> QED
  BY <1>1, <1>2 DEF Kinds

(* What is not a NaN goes to a float of its sign and its size; a NaN to a NaN. *)
LEMMA FloatOfValue ==
  ASSUME kind \in Kinds, NEW v \in Nat, v < 65536
  PROVE  /\ ToFloatImpl(v) \in [neg : BOOLEAN, mag : Nat]
         /\ ToFloatImpl(v).mag < 2^31
         /\ IsNaN32(ToFloatImpl(v)) <=> IsNaN(v)
         /\ ~IsNaN(v) => /\ ToFloatImpl(v).neg = IsNegative(v)
                         /\ ToFloatImpl(v).mag = Magnitude(AbsImpl(v))
<1>1. PICK a \in Nat : a = AbsImpl(v) /\ a < 32768
  BY SignAndMagnitude
<1>2. IsNegative(v) \in BOOLEAN
  BY SignAndMagnitude
<1>3. CASE kind = "float16"
  <2>1. ToFloatImpl(v) = [neg |-> IsNegative(v), mag |-> Magnitude16(a)]
    BY <1>1, <1>3, Float16Parts DEF Float
  <2>2. /\ Magnitude16(a) \in Nat
        /\ a = 0 => Magnitude16(a) = 0
        /\ a > 0 /\ a < 1024 => 103 * 2^23 <= Magnitude16(a) /\ Magnitude16(a) < 113 * 2^23
        /\ a >= 1024 /\ a < 31744 =>
             113 * 2^23 <= Magnitude16(a) /\ Magnitude16(a) < 143 * 2^23
        /\ a = 31744 => Magnitude16(a) = 255 * 2^23
        /\ a > 31744 => 255 * 2^23 < Magnitude16(a) /\ Magnitude16(a) < 2^31
    BY <1>1, MagnitudeRanges
  <2>3. Magnitude16(a) < 2^31
    BY <1>1, <2>2, SMT
  <2>4. IsNaN(v) <=> a > 31744
    BY <1>1, <1>3 DEF IsNaN, kPositiveInfinityBits
  <2>5. Magnitude16(a) > Infinity32 <=> a > 31744
    BY <1>1, <2>2, SMT DEF Infinity32
  <2>6. Magnitude(AbsImpl(v)) = Magnitude16(a)
    BY <1>1, <1>3 DEF Magnitude
  <2>7. PICK x : x = ToFloatImpl(v) /\ x = [neg |-> IsNegative(v), mag |-> Magnitude16(a)]
    BY <2>1
  <2>8. /\ x \in [neg : BOOLEAN, mag : Nat] /\ x.mag = Magnitude16(a) /\ x.neg = IsNegative(v)
    BY <1>2, <2>2, <2>7
  <2>9. IsNaN32(x) <=> IsNaN(v)
    BY <2>4, <2>5, <2>8 DEF IsNaN32
  <2> QED
    BY <2>3, <2>6, <2>7, <2>8, <2>9
<1>4. CASE kind = "bfloat16" /\ ~IsNaN(v)
  <2>1. PICK x : x = ToFloatImpl(v) /\ x = [neg |-> IsNegative(v), mag |-> a * 65536]
    BY <1>1, <1>4, BFloat16Parts DEF Float
  <2>2. /\ x \in [neg : BOOLEAN, mag : Nat] /\ x.mag = a * 65536 /\ x.neg = IsNegative(v)
    BY <1>1, <1>2, <2>1
  <2>3. a <= 32640
    BY <1>1, <1>4, SMT DEF IsNaN, kPositiveInfinityBits
  <2>4. a * 65536 <= Infinity32 /\ a * 65536 < 2^31
    BY <2>3, SMT DEF Infinity32
  <2>5. ~IsNaN32(x)
    BY <2>2, <2>4, SMT DEF IsNaN32, Infinity32
  <2>6. Magnitude(AbsImpl(v)) = a * 65536
    BY <1>1, <1>4 DEF Magnitude
  <2> QED
    BY <1>4, <2>1, <2>2, <2>4, <2>5, <2>6
<1>5. CASE kind = "bfloat16" /\ IsNaN(v)
  <2>1. PICK x : x = ToFloatImpl(v) /\ x = [neg |-> FALSE, mag |-> Infinity32 + 2^22]
    BY <1>5, BFloat16NaNParts DEF Float
  <2>2. Infinity32 + 2^22 \in Nat /\ Infinity32 + 2^22 < 2^31 /\ Infinity32 + 2^22 > Infinity32
    BY SMT DEF Infinity32
  <2>3. x \in [neg : BOOLEAN, mag : Nat] /\ x.mag = Infinity32 + 2^22
    BY <2>1, <2>2
  <2>4. IsNaN32(x)
    BY <2>2, <2>3 DEF IsNaN32
  <2> QED
    BY <1>5, <2>1, <2>2, <2>3, <2>4
<1> QED
  BY <1>3, <1>4, <1>5 DEF Kinds

(* A magnitude that goes to float and comes back is the same. *)
LEMMA Bits16Back ==
  ASSUME NEW a \in Nat, a < 32768
  PROVE  /\ a <= 31744 => Bits16(Magnitude16(a)) = a
         /\ a > 31744 => Bits16(Magnitude16(a)) = 32256
<1>1. CASE a = 0
  <2>1. Magnitude16(a) = 0
    BY <1>1, OtherMagnitudes
  <2>2. RoundedUnits(0) = 0
    BY SMT DEF RoundedUnits
  <2>3. Bits16(0) = RoundedUnits(0)
    BY SMT DEF Bits16
  <2> QED
    BY <1>1, <2>1, <2>2, <2>3
<1>2. CASE a > 0 /\ a < 1024
  <2>1. PICK k \in Nat : k <= 9 /\ InOctave(a, k)
    BY <1>2, OctaveOf
  <2>2. a >= 2^k /\ a < 2^(k + 1) /\ 2^k \in Nat
    BY <2>1, SubnormalOctave
  <2>3. PICK u \in Nat :
          /\ u = Magnitude16(a)
          /\ u = (103 + k) * 2^23 + (a - 2^k) * 2^(23 - k)
          /\ (103 + k) * 2^23 <= u /\ u < (104 + k) * 2^23
    BY <2>1, SubnormalMagnitude
  <2>4. Bits16(u) = RoundedUnits(u)
    BY <2>1, <2>3, SMT DEF Bits16
  <2>5. RoundedUnits(u) = RoundAt(u - (102 + k) * 2^23, 2^(23 - k), 2^(22 - k))
    <3>1. PICK e \in Nat : e = 103 + k
      BY SMT
    <3>2. e >= 101 /\ e <= 112 /\ e * 2^23 <= u /\ u < (e + 1) * 2^23
      BY <2>1, <2>3, <3>1, SMT
    <3>3. RoundedUnits(u) = RoundAt(u - (e - 1) * 2^23, 2^(126 - e), 2^(125 - e))
      BY <3>2, RoundedUnitsAt
    <3>4. e - 1 = 102 + k /\ 126 - e = 23 - k /\ 125 - e = 22 - k
      BY <3>1, SMT
    <3> QED
      BY <3>3, <3>4
  <2>6. RoundAt(u - (102 + k) * 2^23, 2^(23 - k), 2^(22 - k)) = a
    <3>all. k = 0 \/ k = 1 \/ k = 2 \/ k = 3 \/ k = 4 \/ k = 5 \/ k = 6 \/ k = 7 \/ k = 8
      \/ k = 9
      BY <2>1, SMT
    <3>0. CASE k = 0
      BY <1>2, <2>2, <2>3, <3>0, SMT DEF RoundAt
    <3>1. CASE k = 1
      BY <1>2, <2>2, <2>3, <3>1, SMT DEF RoundAt
    <3>2. CASE k = 2
      BY <1>2, <2>2, <2>3, <3>2, SMT DEF RoundAt
    <3>3. CASE k = 3
      BY <1>2, <2>2, <2>3, <3>3, SMT DEF RoundAt
    <3>4. CASE k = 4
      BY <1>2, <2>2, <2>3, <3>4, SMT DEF RoundAt
    <3>5. CASE k = 5
      BY <1>2, <2>2, <2>3, <3>5, SMT DEF RoundAt
    <3>6. CASE k = 6
      BY <1>2, <2>2, <2>3, <3>6, SMT DEF RoundAt
    <3>7. CASE k = 7
      BY <1>2, <2>2, <2>3, <3>7, SMT DEF RoundAt
    <3>8. CASE k = 8
      BY <1>2, <2>2, <2>3, <3>8, SMT DEF RoundAt
    <3>9. CASE k = 9
      BY <1>2, <2>2, <2>3, <3>9, SMT DEF RoundAt
    <3> QED
      BY <3>all, <3>0, <3>1, <3>2, <3>3, <3>4, <3>5, <3>6, <3>7, <3>8, <3>9
  <2> QED
    BY <1>2, <2>3, <2>4, <2>5, <2>6
<1>3. CASE a >= 1024 /\ a < 31744
  <2>1. PICK u \in Nat : u = Magnitude16(a) /\ u = a * 8192 + 112 * 2^23
    BY <1>3, OtherMagnitudes, SMT
  <2>2. (u \div 2^13) % 2 = a % 2
    BY <2>1, SMT
  <2>3. Bits16(u) = a
    BY <1>3, <2>1, <2>2, SMT DEF Bits16
  <2> QED
    BY <1>3, <2>1, <2>3
<1>4. CASE a >= 31744
  <2>1. PICK u \in Nat : u = Magnitude16(a) /\ u = a * 8192 + 224 * 2^23
    BY <1>4, OtherMagnitudes, SMT
  <2>2. Bits16(u) = IF a > 31744 THEN 32256 ELSE 31744
    BY <1>4, <2>1, SMT DEF Bits16, Infinity32
  <2> QED
    BY <1>4, <2>1, <2>2
<1> QED
  BY <1>1, <1>2, <1>3, <1>4


(* So a value that goes to float and comes back is the same, a NaN a NaN. *)
LEMMA BackAgain ==
  ASSUME kind \in Kinds, NEW v \in Nat, v < 65536
  PROVE  IF IsNaN(v) THEN IsNaN(ToUint16Impl(ToFloatImpl(v)))
                     ELSE ToUint16Impl(ToFloatImpl(v)) = v
<1>1. PICK x : x = ToFloatImpl(v)
  OBVIOUS
<1>2. /\ x \in [neg : BOOLEAN, mag : Nat]
      /\ IsNaN32(x) <=> IsNaN(v)
      /\ ~IsNaN(v) => x.neg = IsNegative(v) /\ x.mag = Magnitude(AbsImpl(v))
  BY <1>1, FloatOfValue
<1>3. x.neg \in BOOLEAN /\ x.mag \in Nat
  BY <1>2
<1>4. PICK a \in Nat : a = AbsImpl(v) /\ a < 32768
  BY SignAndMagnitude
<1>5. /\ IsNegative(v) => v = a + 32768
      /\ ~IsNegative(v) => v = a
  BY <1>4, SignAndMagnitude
<1>6. ~IsNaN(v) => v = a + Sign16(x)
  <2>1. SUFFICES ASSUME ~IsNaN(v)
                 PROVE  v = a + Sign16(x)
    OBVIOUS
  <2>2. x.neg <=> IsNegative(v)
    BY <1>2, <2>1
  <2>3. x.neg => Sign16(x) = 32768
    BY SMT DEF Sign16
  <2>4. ~x.neg => Sign16(x) = 0
    BY SMT DEF Sign16
  <2> QED
    BY <1>5, <2>2, <2>3, <2>4
<1>7. CASE kind = "float16"
  <2>1. ToUint16Impl(x) = Bits16(x.mag) + Sign16(x)
    BY <1>3, <1>7, ToUint16Parts
  <2>2. IsNaN(v) <=> a > 31744
    BY <1>4, <1>7 DEF IsNaN, kPositiveInfinityBits
  <2>3. CASE IsNaN(v)
    <3>1. Bits16(x.mag) = 32256
      BY <1>2, <1>3, <2>3, SMT DEF Bits16, IsNaN32, Infinity32
    <3>2. PICK b \in Nat : b = 32256 /\ b < 32768
      BY SMT
    <3>3. PICK w : w = ToUint16Impl(x) /\ w = b + Sign16(x)
      BY <2>1, <3>1, <3>2
    <3>4. AbsImpl(w) = b
      BY <1>3, <3>2, <3>3, BitsWithSign
    <3>5. IsNaN(w)
      BY <1>7, <3>2, <3>4 DEF IsNaN, kPositiveInfinityBits
    <3> QED
      BY <1>1, <2>3, <3>3, <3>5
  <2>4. CASE ~IsNaN(v)
    <3>1. x.mag = Magnitude16(a) /\ a <= 31744
      BY <1>2, <1>4, <1>7, <2>2, <2>4 DEF Magnitude
    <3>2. Bits16(x.mag) = a
      BY <1>4, <3>1, Bits16Back
    <3> QED
      BY <1>1, <1>6, <2>1, <2>4, <3>2
  <2> QED
    BY <2>3, <2>4
<1>8. CASE kind = "bfloat16"
  <2>1. CASE IsNaN(v)
    <3>1. PICK w \in Nat : w = ToUint16Impl(x) /\ w = 32705
      BY <1>2, <1>3, <1>8, <2>1, ToUint16Parts
    <3>2. IsNaN(w)
      BY <1>8, <3>1, SMT DEF IsNaN, AbsImpl, kPositiveInfinityBits
    <3> QED
      BY <1>1, <2>1, <3>1, <3>2
  <2>2. CASE ~IsNaN(v)
    <3>1. ToUint16Impl(x) = BitsB16(x.mag) + Sign16(x)
      BY <1>2, <1>3, <1>8, <2>2, ToUint16Parts
    <3>2. x.mag = a * 65536
      BY <1>2, <1>4, <1>8, <2>2 DEF Magnitude
    <3>3. BitsB16(x.mag) = a
      BY <3>2, SMT DEF BitsB16, kRoundToNearest
    <3> QED
      BY <1>1, <1>6, <2>2, <3>1, <3>3
  <2> QED
    BY <2>1, <2>2
<1> QED
  BY <1>7, <1>8 DEF Kinds

-----------------------------------------------------------------------------
(* operator< on the bits of two values is < on their floats. *)
LEMMA OrderKept ==
  ASSUME kind \in Kinds, NEW v \in Nat, v < 65536, NEW w \in Nat, w < 65536
  PROVE  LessThan(v, w) <=> Less32(ToFloatImpl(v), ToFloatImpl(w))
<1>1. PICK x : x = ToFloatImpl(v)
  OBVIOUS
<1>2. PICK y : y = ToFloatImpl(w)
  OBVIOUS
<1>3. /\ x.mag \in Nat /\ (IsNaN32(x) <=> IsNaN(v))
      /\ ~IsNaN(v) => x.neg = IsNegative(v) /\ x.mag = Magnitude(AbsImpl(v))
  BY <1>1, FloatOfValue
<1>4. /\ y.mag \in Nat /\ (IsNaN32(y) <=> IsNaN(w))
      /\ ~IsNaN(w) => y.neg = IsNegative(w) /\ y.mag = Magnitude(AbsImpl(w))
  BY <1>2, FloatOfValue
<1>5. CASE IsNaN(v) \/ IsNaN(w)
  BY <1>1, <1>2, <1>3, <1>4, <1>5 DEF LessThan, Less32
<1>6. CASE ~IsNaN(v) /\ ~IsNaN(w)
  <2>1. PICK a \in Nat : a = AbsImpl(v) /\ a < 32768
    BY SignAndMagnitude
  <2>2. PICK b \in Nat : b = AbsImpl(w) /\ b < 32768
    BY SignAndMagnitude
  <2>3. PICK ma \in Nat : ma = Magnitude(a)
    BY <2>1, MagnitudeFacts
  <2>4. PICK mb \in Nat : mb = Magnitude(b)
    BY <2>2, MagnitudeFacts
  <2>5. (a < b => ma < mb) /\ (b < a => mb < ma) /\ (a = b => ma = mb)
    BY <2>1, <2>2, <2>3, <2>4, MagnitudeFacts
  <2>6. (a = 0 => ma = 0) /\ (a > 0 => ma > 0) /\ (b = 0 => mb = 0) /\ (b > 0 => mb > 0)
    <3>1. \A c, d \in Nat : c < d /\ d < 32768 => Magnitude(c) < Magnitude(d)
      BY MagnitudeFacts
    <3>2. Magnitude(0) = 0
      BY MagnitudeFacts
    <3> QED
      BY <2>1, <2>2, <2>3, <2>4, <3>1, <3>2
  <2>7. /\ IsNegative(v) => v = a + 32768
        /\ ~IsNegative(v) => v = a
        /\ IsNegative(w) => w = b + 32768
        /\ ~IsNegative(w) => w = b
    BY <2>1, <2>2, SignAndMagnitude
  <2>8. /\ IsNegative(v) => Signed(x) = -ma
        /\ ~IsNegative(v) => Signed(x) = ma
    BY <1>3, <1>6, <2>1, <2>3 DEF Signed
  <2>9. /\ IsNegative(w) => Signed(y) = -mb
        /\ ~IsNegative(w) => Signed(y) = mb
    BY <1>4, <1>6, <2>2, <2>4 DEF Signed
  <2>10. Less32(x, y) <=> Signed(x) < Signed(y)
    BY <1>3, <1>4, <1>6 DEF Less32
  <2>11. CASE IsNegative(v) /\ ~IsNegative(w)
    <3>1. LessThan(v, w) <=> ~AreZero(v, w)
      BY <1>6, <2>11, SMT DEF LessThan, IsNegative
    <3>2. AreZero(v, w) <=> a = 0 /\ b = 0
      BY <2>1, <2>2 DEF AreZero
    <3> QED
      BY <1>1, <1>2, <2>6, <2>8, <2>9, <2>10, <2>11, <3>1, <3>2
  <2>12. CASE ~IsNegative(v) /\ IsNegative(w)
    <3>1. ~LessThan(v, w)
      BY <1>6, <2>12, SMT DEF LessThan, IsNegative
    <3> QED
      BY <1>1, <1>2, <2>6, <2>8, <2>9, <2>10, <2>12, <3>1
  <2>13. CASE ~IsNegative(v) /\ ~IsNegative(w)
    <3>1. LessThan(v, w) <=> v < w
      BY <1>6, <2>13, SMT DEF LessThan, IsNegative
    <3> QED
      BY <1>1, <1>2, <2>5, <2>7, <2>8, <2>9, <2>10, <2>13, <3>1
  <2>14. CASE IsNegative(v) /\ IsNegative(w)
    <3>1. LessThan(v, w) <=> w < v
      BY <1>6, <2>14, SMT DEF LessThan, IsNegative
    <3> QED
      BY <1>1, <1>2, <2>5, <2>7, <2>8, <2>9, <2>10, <2>14, <3>1
  <2> QED
    BY <2>11, <2>12, <2>13, <2>14
<1> QED
  BY <1>5, <1>6


(* The predicates on the bits of a value, in numbers. *)
LEMMA PredicatesInNumbers ==
  ASSUME kind \in Kinds, NEW v \in Nat, v < 65536, NEW a \in Nat, a = AbsImpl(v)
  PROVE  LET top == kPositiveInfinityBits
             least == IF kind = "float16" THEN 1024 ELSE 128
         IN  /\ IsNaN(v) <=> a > top
             /\ IsInfinity(v) <=> a = top
             /\ IsNormal(v) <=> a < top /\ a >= least
             /\ IsSubnormal(v) <=> a < top /\ a # 0 /\ a < least
             /\ IsNaNOrZero(v) <=> a = 0 \/ a > top
<1> DEFINE least == IF kind = "float16" THEN 1024 ELSE 128
<1>1. HasExponent(v) <=> a >= least
  <2>1. CASE kind = "float16"
    <3>1. MantissaBits = 10
      BY <2>1 DEF MantissaBits
    <3>2. HasExponent(v) <=> a \div 2^10 # 0
      BY <3>1 DEF HasExponent
    <3> QED
      BY <2>1, <3>2, SMT
  <2>2. CASE kind = "bfloat16"
    <3>1. MantissaBits = 7
      BY <2>2 DEF MantissaBits
    <3>2. HasExponent(v) <=> a \div 2^7 # 0
      BY <3>1 DEF HasExponent
    <3> QED
      BY <2>2, <3>2, SMT
  <2> QED
    BY <2>1, <2>2 DEF Kinds
<1>2. least > 0 /\ least \in Nat
  OBVIOUS
<1> HIDE DEF least
<1>3. IsNaN(v) <=> a > kPositiveInfinityBits
  BY DEF IsNaN
<1>4. IsInfinity(v) <=> a = kPositiveInfinityBits
  BY DEF IsInfinity
<1>5. IsNormal(v) <=> a < kPositiveInfinityBits /\ a >= least
  BY <1>1, <1>2 DEF IsNormal, IsFinite
<1>6. IsSubnormal(v) <=> a < kPositiveInfinityBits /\ a # 0 /\ a < least
  BY <1>1, <1>2 DEF IsSubnormal, IsFinite
<1>7. IsNaNOrZero(v) <=> a = 0 \/ a > kPositiveInfinityBits
  BY DEF IsNaNOrZero, IsNaN
<1> QED
  BY <1>3, <1>4, <1>5, <1>6, <1>7 DEF least

(* The predicates on the bits say what the float says. *)
LEMMA ClassesKept ==
  ASSUME kind \in Kinds, NEW v \in Nat, v < 65536, NEW m \in Nat, m = ToFloatImpl(v).mag
  PROVE  /\ IsNaN(v) <=> m > Infinity32
         /\ IsInfinity(v) <=> m = Infinity32
         /\ IsNormal(v) <=> SmallestNormal <= m /\ m < Infinity32
         /\ IsSubnormal(v) <=> 0 < m /\ m < SmallestNormal
         /\ IsNaNOrZero(v) <=> m = 0 \/ m > Infinity32
<1>1. PICK a \in Nat : a = AbsImpl(v) /\ a < 32768
  BY SignAndMagnitude
<1>2. /\ IsNaN32(ToFloatImpl(v)) <=> IsNaN(v)
      /\ ~IsNaN(v) => ToFloatImpl(v).mag = Magnitude(AbsImpl(v))
  BY FloatOfValue
<1>3. (m > Infinity32 <=> IsNaN(v)) /\ (~IsNaN(v) => m = Magnitude(a))
  BY <1>1, <1>2 DEF IsNaN32
<1>4. CASE kind = "float16"
  <2>1. kPositiveInfinityBits = 31744 /\ SmallestNormal = 113 * 2^23 /\ Infinity32 = 255 * 2^23
    BY <1>4 DEF kPositiveInfinityBits, SmallestNormal, Infinity32
  <2>2. /\ IsNaN(v) <=> a > 31744
        /\ IsInfinity(v) <=> a = 31744
        /\ IsNormal(v) <=> a < 31744 /\ a >= 1024
        /\ IsSubnormal(v) <=> a < 31744 /\ a # 0 /\ a < 1024
        /\ IsNaNOrZero(v) <=> a = 0 \/ a > 31744
    BY <1>1, <1>4, <2>1, PredicatesInNumbers
  <2>3. ~IsNaN(v) => m = Magnitude16(a)
    BY <1>3, <1>4 DEF Magnitude
  <2>4. /\ a = 0 => Magnitude16(a) = 0
        /\ a > 0 /\ a < 1024 => 103 * 2^23 <= Magnitude16(a) /\ Magnitude16(a) < 113 * 2^23
        /\ a >= 1024 /\ a < 31744 =>
             113 * 2^23 <= Magnitude16(a) /\ Magnitude16(a) < 143 * 2^23
        /\ a = 31744 => Magnitude16(a) = 255 * 2^23
    BY <1>1, MagnitudeRanges
  <2> QED
    BY <1>1, <1>3, <2>1, <2>2, <2>3, <2>4, SMT
<1>5. CASE kind = "bfloat16"
  <2>1. kPositiveInfinityBits = 32640 /\ SmallestNormal = 2^23 /\ Infinity32 = 255 * 2^23
    BY <1>5 DEF kPositiveInfinityBits, SmallestNormal, Infinity32
  <2>2. /\ IsNaN(v) <=> a > 32640
        /\ IsInfinity(v) <=> a = 32640
        /\ IsNormal(v) <=> a < 32640 /\ a >= 128
        /\ IsSubnormal(v) <=> a < 32640 /\ a # 0 /\ a < 128
        /\ IsNaNOrZero(v) <=> a = 0 \/ a > 32640
    BY <1>1, <1>5, <2>1, PredicatesInNumbers
  <2>3. ~IsNaN(v) => m = a * 65536
    BY <1>3, <1>5 DEF Magnitude
  <2> QED
    BY <1>1, <1>3, <2>1, <2>2, <2>3, SMT
<1> QED
  BY <1>4, <1>5 DEF Kinds

-----------------------------------------------------------------------------
(* What each step of the conversions keeps: 16-bit values, and what the float *)
(* and the value that came back were made from.                               *)
Word(v) == v \in Nat /\ v < 65536

(* The inductive invariant. *)
HalfInv ==
  /\ kind \in Kinds
  /\ Word(val) /\ Word(rhs) /\ Word(first)
  /\ f \in [neg : BOOLEAN, mag : Nat] /\ f.mag \div 2 < 2^30
  /\ step \in {"value", "float", "moved", "back", "rounded"}
  /\ step = "float" => f = ToFloatImpl(first)
  /\ step \in {"moved", "rounded"} => ~IsNaN32(f)
  /\ step = "back" => f = ToFloatImpl(first)
  /\ step \in {"back", "rounded"} => val = ToUint16Impl(f)

(* The parameters give 16-bit values to start from. *)
LEMMA InitHalf == Init => HalfInv
<1>1. SUFFICES ASSUME NEW s \in Starts, kind = s[1], val = s[2], rhs = s[3],
                      f = Float(FALSE, 0), first = val, step = "value"
               PROVE  HalfInv
  BY DEF Init
<1>2. s \in Kinds \X (0..(2^16 - 1)) \X (0..(2^16 - 1))
  BY HalfFloatConstants
<1>3. s[1] \in Kinds /\ s[2] \in 0..(2^16 - 1) /\ s[3] \in 0..(2^16 - 1)
  BY <1>2
<1>4. Word(s[2]) /\ Word(s[3])
  BY <1>3, SMT DEF Word
<1>5. f \in [neg : BOOLEAN, mag : Nat] /\ f.mag = 0
  BY <1>1 DEF Float
<1>6. f.mag \div 2 < 2^30
  BY <1>5, SMT
<1>7. kind \in Kinds /\ Word(val) /\ Word(rhs) /\ Word(first)
  BY <1>1, <1>3, <1>4
<1> QED
  BY <1>1, <1>5, <1>6, <1>7 DEF HalfInv

(* Conversions depend on the type only, and that does not change. *)
LEMMA FloatUnchanged ==
  ASSUME kind' = kind, first' = first
  PROVE  ToFloatImpl(first)' = ToFloatImpl(first)
BY DEF ToFloatImpl, BFloat16ToFloatImpl, IsNaN, kPositiveInfinityBits

(* Conversions keep the invariant. *)
LEMMA HalfStep ==
  ASSUME HalfInv, [Next]_vars
  PROVE  HalfInv'
<1> USE DEF HalfInv
<1>1. CASE Negate
  <2>1. Word(NegateImpl(val))
    BY SMT DEF Word, NegateImpl
  <2> QED
    BY <1>1, <2>1 DEF Negate
<1>2. CASE Abs
  <2>1. Word(AbsImpl(val))
    BY SMT DEF Word, AbsImpl
  <2> QED
    BY <1>2, <2>1 DEF Abs
<1>3. CASE ToFloat
  <2>1. ToFloatImpl(val) \in [neg : BOOLEAN, mag : Nat] /\ ToFloatImpl(val).mag < 2^31
    BY FloatOfValue DEF Word
  <2>2. ToFloatImpl(first)' = ToFloatImpl(val)
    BY <1>3 DEF ToFloat, ToFloatImpl, BFloat16ToFloatImpl, IsNaN, kPositiveInfinityBits
  <2> QED
    BY <1>3, <2>1, <2>2 DEF ToFloat, Word
<1>4. CASE \E d \in Deltas(<<kind, first, rhs>>) : Move(d)
  <2>1. PICK d : Move(d)
    BY <1>4
  <2>2. PICK m \in Nat : m = f.mag + d /\ m <= Infinity32
    BY <2>1, SMT DEF Move, Infinity32
  <2>3. f' = [f EXCEPT !.mag = m]
    BY <2>1, <2>2 DEF Move
  <2>4. f' \in [neg : BOOLEAN, mag : Nat] /\ f'.mag = m
    BY <2>3
  <2>5. m < 2^31 /\ ~(m > Infinity32)
    BY <2>2, SMT DEF Infinity32
  <2>6. ~IsNaN32(f')
    BY <2>4, <2>5 DEF IsNaN32
  <2> QED
    BY <2>1, <2>4, <2>5, <2>6 DEF Move, Word
<1>5. CASE FromFloat
  <2>1. Word(ToUint16Impl(f))
    BY ConvertedInRange DEF Word
  <2>2. ToUint16Impl(f)' = ToUint16Impl(f)
    BY <1>5 DEF FromFloat, ToUint16Impl
  <2>3. ToFloatImpl(first)' = ToFloatImpl(first)
    BY <1>5, FloatUnchanged DEF FromFloat
  <2> QED
    BY <1>5, <2>1, <2>2, <2>3 DEF FromFloat, Word
<1>6. CASE UNCHANGED vars
  <2>1. ToUint16Impl(f)' = ToUint16Impl(f)
    BY <1>6 DEF vars, ToUint16Impl
  <2>2. ToFloatImpl(first)' = ToFloatImpl(first)
    BY <1>6, FloatUnchanged DEF vars
  <2> QED
    BY <1>6, <2>1, <2>2 DEF vars, Word
<1> QED
  BY <1>1, <1>2, <1>3, <1>4, <1>5, <1>6 DEF Next, Done

(* The invariant holds in every state. *)
LEMMA HalfAlways == Spec => []HalfInv
BY InitHalf, HalfStep, PTL DEF Spec

(* Values stay 16-bit values, floats stay floats (Float16Impl, BFloat16Impl). *)
THEOREM FloatTypes == Spec => []TypeOK
<1>1. HalfInv => TypeOK
  <2>1. SUFFICES ASSUME HalfInv
                 PROVE  TypeOK
    OBVIOUS
  <2>2. val \in 0..(2^16 - 1) /\ rhs \in 0..(2^16 - 1) /\ first \in 0..(2^16 - 1)
    BY <2>1, SMT DEF HalfInv, Word
  <2>3. f.neg \in BOOLEAN /\ f.mag \in Nat
    BY <2>1 DEF HalfInv
  <2>4. f.mag >= 0 /\ f.mag \div 2 < 2^30
    BY <2>1, <2>3, SMT DEF HalfInv
  <2> QED
    BY <2>1, <2>2, <2>3, <2>4 DEF HalfInv, TypeOK
<1> QED
  BY <1>1, HalfAlways, PTL

(* A value that goes to float and comes back is the same, a NaN still a NaN  *)
(* (ToFloatImpl, ToUint16Impl).                                              *)
THEOREM ValuesComeBack == Spec => []RoundTrip
<1>1. HalfInv => RoundTrip
  <2>1. SUFFICES ASSUME HalfInv, step = "back"
                 PROVE  IF IsNaN(first) THEN IsNaN(val) ELSE val = first
    BY DEF RoundTrip
  <2>2. val = ToUint16Impl(ToFloatImpl(first)) /\ first \in Nat /\ first < 65536
    BY <2>1 DEF HalfInv, Word
  <2> QED
    BY <2>1, <2>2, BackAgain DEF HalfInv
<1> QED
  BY <1>1, HalfAlways, PTL

(* Conversion from float rounds to nearest, ties to even, whatever the float *)
(* (Float16Impl::ToUint16Impl, BFloat16Impl::ToUint16Impl).                  *)
THEOREM FloatsRoundToNearest == Spec => []RoundsToNearest
<1>1. HalfInv => RoundsToNearest
  <2>1. SUFFICES ASSUME HalfInv, step \in {"back", "rounded"}, ~IsNaN32(f)
                 PROVE  Nearest(f, val)
    BY DEF RoundsToNearest
  <2>2. f.neg \in BOOLEAN /\ f.mag \in Nat /\ val = ToUint16Impl(f)
    BY <2>1 DEF HalfInv
  <2> QED
    BY <2>1, <2>2, ConvertedNearest DEF HalfInv
<1> QED
  BY <1>1, HalfAlways, PTL

(* operator< on the bits is < on the floats (Float16_t, BFloat16_t). *)
THEOREM BitsOrderedLikeFloats == Spec => []LessLikeFloats
<1>1. HalfInv => LessLikeFloats
  BY OrderKept DEF HalfInv, Word, LessLikeFloats
<1> QED
  BY <1>1, HalfAlways, PTL

(* IsNaN, IsInfinity, IsNormal, IsSubnormal and IsNaNOrZero say of the bits   *)
(* what holds of the float.                                                   *)
THEOREM BitsClassifiedByValue == Spec => []ClassifiedByValue
<1>1. HalfInv => ClassifiedByValue
  <2>1. SUFFICES ASSUME HalfInv, step = "value"
                 PROVE  LET mag == ToFloatImpl(val).mag
                        IN /\ IsNaN(val) <=> mag > Infinity32
                           /\ IsInfinity(val) <=> mag = Infinity32
                           /\ IsNormal(val) <=> SmallestNormal <= mag /\ mag < Infinity32
                           /\ IsSubnormal(val) <=> 0 < mag /\ mag < SmallestNormal
                           /\ IsNaNOrZero(val) <=> mag = 0 \/ mag > Infinity32
    BY DEF ClassifiedByValue
  <2>2. val \in Nat /\ val < 65536 /\ kind \in Kinds
    BY <2>1 DEF HalfInv, Word
  <2>3. PICK x : x = ToFloatImpl(val)
    OBVIOUS
  <2>4. PICK m \in Nat : m = x.mag
    BY <2>2, <2>3, FloatOfValue
  <2>5. /\ IsNaN(val) <=> m > Infinity32
        /\ IsInfinity(val) <=> m = Infinity32
        /\ IsNormal(val) <=> SmallestNormal <= m /\ m < Infinity32
        /\ IsSubnormal(val) <=> 0 < m /\ m < SmallestNormal
        /\ IsNaNOrZero(val) <=> m = 0 \/ m > Infinity32
    BY <2>2, <2>3, <2>4, ClassesKept
  <2> QED
    BY <2>3, <2>4, <2>5
<1> QED
  BY <1>1, HalfAlways, PTL

=============================================================================
