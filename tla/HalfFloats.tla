----------------------------- MODULE HalfFloats -----------------------------
(***************************************************************************)
(* Ort::Float16_t and Ort::BFloat16_t (onnxruntime_float16.h): conversion  *)
(* to and from float, classification, sign operations and comparisons.     *)
(* A 16-bit value is the number its bits stand for; a float is its sign and *)
(* the number its other 31 bits stand for, which orders floats by size.     *)
(***************************************************************************)
EXTENDS Integers

CONSTANTS
  Starts,      \* the types and 16-bit patterns to start from: <<type, val, rhs>>
  Deltas(_)    \* how far to move the float that <<type, val, rhs>> went to, in
               \* units of its last place

Kinds == {"float16", "bfloat16"}

ASSUME HalfFloatConstants ==
  /\ Starts \subseteq Kinds \X (0..(2^16 - 1)) \X (0..(2^16 - 1))
  /\ \A s \in Starts : Deltas(s) \subseteq Int

VARIABLES
  kind,   \* "float16" or "bfloat16": the type; it does not change
  val,    \* the 16-bit value
  rhs,    \* another, for the comparisons
  f,      \* the float it was converted to, or that it is converted from
  first,  \* history: the value converted to float
  step    \* "value", "float", "moved", "back" or "rounded"

vars == <<kind, val, rhs, f, first, step>>

-----------------------------------------------------------------------------
(* Constants and predicates on the bits. *)
MantissaBits == IF kind = "float16" THEN 10 ELSE 7
kPositiveInfinityBits == IF kind = "float16" THEN 31744 ELSE 32640   \* 0x7C00, 0x7F80

AbsImpl(v) == v % 2^15
IsNegative(v) == v >= 2^15
IsNaN(v) == AbsImpl(v) > kPositiveInfinityBits
IsInfinity(v) == AbsImpl(v) = kPositiveInfinityBits
IsFinite(v) == AbsImpl(v) < kPositiveInfinityBits
IsNaNOrZero(v) == AbsImpl(v) = 0 \/ IsNaN(v)

HasExponent(v) == AbsImpl(v) \div 2^MantissaBits # 0
IsNormal(v) == IsFinite(v) /\ AbsImpl(v) # 0 /\ HasExponent(v)

(* Slip: zero is not looked at. *)
IsSubnormalOrZero(v) == IsFinite(v) /\ ~HasExponent(v)
IsSubnormal(v) == IsFinite(v) /\ AbsImpl(v) # 0 /\ ~HasExponent(v)

(* Slip: the sign bit is added. *)
NegateByAdding(v) == IF IsNaN(v) THEN v ELSE v + 2^15
NegateImpl(v) == IF IsNaN(v) THEN v ELSE (v + 2^15) % 2^16

AreZero(a, b) == AbsImpl(a) = 0 /\ AbsImpl(b) = 0

Equals(a, b) == IF IsNaN(a) \/ IsNaN(b) THEN FALSE ELSE a = b

(* Slip: patterns with the sign bit are compared like the others. *)
LessThanUnsigned(a, b) ==
  IF IsNaN(a) \/ IsNaN(b) THEN FALSE
  ELSE IF IsNegative(a) # IsNegative(b) THEN IsNegative(a) /\ ~AreZero(a, b)
  ELSE a < b

LessThan(a, b) ==
  IF IsNaN(a) \/ IsNaN(b) THEN FALSE
  ELSE IF IsNegative(a) # IsNegative(b) THEN IsNegative(a) /\ ~AreZero(a, b)
  ELSE a # b /\ ((a < b) # IsNegative(a))

-----------------------------------------------------------------------------
(* IEEE 754 single precision. *)
Infinity32 == 255 * 2^23
Float(neg, mag) == [neg |-> neg, mag |-> mag]
IsNaN32(x) == x.mag > Infinity32

Log2(n) == CHOOSE k \in 0..15 : 2^k <= n /\ n < 2^(k + 1)

(* The magnitude n * 2^e for a small n, when it is a normal float. *)
Scaled(n, e) ==
  IF n = 0 THEN 0
  ELSE (127 + Log2(n) + e) * 2^23 + (n - 2^Log2(n)) * 2^(23 - Log2(n))

(* The magnitude m in units of 2^-24, rounded to nearest, ties to even: what *)
(* the addition of denorm_magic, 0.5f, leaves in the low bits of the sum.    *)
RoundedUnits(m) ==
  LET e == m \div 2^23
      significand == IF e = 0 THEN m ELSE (m % 2^23) + 2^23
      shift == 126 - (IF e = 0 THEN 1 ELSE e)
      q == significand \div 2^shift
      r == significand % 2^shift
      half == 2^(shift - 1)
  IN IF shift > 25 THEN 0
     ELSE IF r > half \/ (r = half /\ q % 2 = 1) THEN q + 1 ELSE q

-----------------------------------------------------------------------------
(* Conversions of Float16Impl. *)
Sign16(x) == IF x.neg THEN 2^15 ELSE 0

Float16ToUint16Impl(x) ==
  LET u == x.mag
      mant_odd == (u \div 2^13) % 2
      bits == IF u >= 143 * 2^23 THEN IF u > Infinity32 THEN 32256 ELSE 31744
              ELSE IF u < 113 * 2^23 THEN RoundedUnits(u)
              ELSE (u - 112 * 2^23 + 4095 + mant_odd) \div 2^13
  IN bits + Sign16(x)

(* Slip: subnormal values are not normalised again. *)
Float16ToFloatDenormal(v) ==
  LET shifted == AbsImpl(v) * 2^13
      exp == AbsImpl(v) \div 2^10
  IN Float(IsNegative(v), IF exp = 31 THEN shifted + 224 * 2^23 ELSE shifted + 112 * 2^23)

(* Subtracting magic, 2^-14, from a subnormal's float leaves v * 2^-24. *)
Float16ToFloatImpl(v) ==
  LET shifted == AbsImpl(v) * 2^13
      exp == AbsImpl(v) \div 2^10
  IN Float(IsNegative(v),
           IF exp = 31 THEN shifted + 224 * 2^23
           ELSE IF exp = 0 THEN Scaled(AbsImpl(v), -24)
           ELSE shifted + 112 * 2^23)

(* Conversions of BFloat16Impl: the upper half of the float, rounded. *)
kPositiveQNaNBits == 32705   \* 0x7FC1
kRoundToNearest == 32767     \* 0x7FFF

(* Slip: rounding adds half a unit whatever the mantissa is. *)
BFloat16ToUint16Upward(x) ==
  IF IsNaN32(x) THEN kPositiveQNaNBits
  ELSE (x.mag + 1 + kRoundToNearest) \div 2^16 + Sign16(x)

BFloat16ToUint16Impl(x) ==
  LET upper_bits == x.mag \div 2^16
  IN IF IsNaN32(x) THEN kPositiveQNaNBits
     ELSE (x.mag + (upper_bits % 2) + kRoundToNearest) \div 2^16 + Sign16(x)

BFloat16ToFloatImpl(v) ==
  IF IsNaN(v) THEN Float(FALSE, Infinity32 + 2^22)
  ELSE Float(IsNegative(v), AbsImpl(v) * 2^16)

ToUint16Impl(x) == IF kind = "float16" THEN Float16ToUint16Impl(x) ELSE BFloat16ToUint16Impl(x)
ToFloatImpl(v) == IF kind = "float16" THEN Float16ToFloatImpl(v) ELSE BFloat16ToFloatImpl(v)

-----------------------------------------------------------------------------
Init ==
  /\ \E s \in Starts : kind = s[1] /\ val = s[2] /\ rhs = s[3]
  /\ f = Float(FALSE, 0) /\ first = val /\ step = "value"

Negate ==
  /\ step = "value"
  /\ val' = NegateImpl(val)
  /\ UNCHANGED <<kind, rhs, f, first, step>>

Abs ==
  /\ step = "value"
  /\ val' = AbsImpl(val)
  /\ UNCHANGED <<kind, rhs, f, first, step>>

ToFloat ==
  /\ step = "value"
  /\ f' = ToFloatImpl(val)
  /\ first' = val
  /\ step' = "float"
  /\ UNCHANGED <<kind, val, rhs>>

(* The application computes with the float. *)
Move(d) ==
  /\ step = "float" /\ ~IsNaN32(f) /\ f.mag + d \in 0..Infinity32
  /\ f' = [f EXCEPT !.mag = @ + d]
  /\ step' = "moved"
  /\ UNCHANGED <<kind, val, rhs, first>>

FromFloat ==
  /\ step \in {"float", "moved"}
  /\ val' = ToUint16Impl(f)
  /\ step' = IF step = "float" THEN "back" ELSE "rounded"
  /\ UNCHANGED <<kind, rhs, f, first>>

(* The value converted is where it ends. *)
Done == step \in {"back", "rounded"} /\ UNCHANGED vars

Next == Negate \/ Abs \/ ToFloat \/ (\E d \in Deltas(<<kind, first, rhs>>) : Move(d)) \/ FromFloat \/ Done

Spec == Init /\ [][Next]_vars

-----------------------------------------------------------------------------
TypeOK ==
  /\ kind \in Kinds
  /\ val \in 0..(2^16 - 1) /\ rhs \in 0..(2^16 - 1) /\ first \in 0..(2^16 - 1)
  /\ f.neg \in BOOLEAN /\ f.mag >= 0 /\ f.mag \div 2 < 2^30
  /\ step \in {"value", "float", "moved", "back", "rounded"}

(* A value that goes to float and comes back is the same, a NaN still a NaN. *)
RoundTrip ==
  step = "back" => IF IsNaN(first) THEN IsNaN(val) ELSE val = first

(* The midpoint between the magnitude a and the next, as a float.  The next  *)
(* after the largest is what it would be with a larger exponent.             *)
Midpoint(a) ==
  LET e == a \div 2^10
      m == a % 2^10
  IN IF kind = "bfloat16" THEN a * 2^16 + 2^15
     ELSE IF e = 0 THEN Scaled(2 * m + 1, -25) ELSE Scaled(2 * (2^10 + m) + 1, e - 26)

(* Whether v is nearest to x; of two it is the one with an even mantissa. *)
Nearest(x, v) ==
  LET a == AbsImpl(v)
  IN /\ IsNegative(v) = x.neg /\ ~IsNaN(v)
     /\ a > 0 => Midpoint(a - 1) < x.mag \/ (Midpoint(a - 1) = x.mag /\ a % 2 = 0)
     /\ a < kPositiveInfinityBits =>
          x.mag < Midpoint(a) \/ (x.mag = Midpoint(a) /\ a % 2 = 0)

(* Conversion from float rounds to nearest, ties to even, over normal and    *)
(* subnormal values, zeros, and the step from the largest to infinity.       *)
RoundsToNearest == step \in {"back", "rounded"} /\ ~IsNaN32(f) => Nearest(f, val)

(* The order of floats: that of the integers with their sign. *)
Signed(x) == IF x.neg THEN -x.mag ELSE x.mag
Less32(x, y) == ~IsNaN32(x) /\ ~IsNaN32(y) /\ Signed(x) < Signed(y)
Equal32(x, y) == ~IsNaN32(x) /\ ~IsNaN32(y) /\ Signed(x) = Signed(y)

(* operator< on the bits is < on the floats they stand for. *)
LessLikeFloats ==
  step = "value" => (LessThan(val, rhs) <=> Less32(ToFloatImpl(val), ToFloatImpl(rhs)))

(* operator== on the bits is == on the floats they stand for: "IEEE defines  *)
(* that positive and negative zero are equal" (AreZero), "NaN is not equal   *)
(* to anything" (operator==).                                                *)
EqualsLikeFloats ==
  step = "value" => (Equals(val, rhs) <=> Equal32(ToFloatImpl(val), ToFloatImpl(rhs)))

(* The smallest normal value of the type, as a float. *)
SmallestNormal == IF kind = "float16" THEN 113 * 2^23 ELSE 2^23

(* The predicates on the bits say what the float says: of any value exactly  *)
(* one of NaN, infinity, normal, subnormal and zero.                         *)
ClassifiedByValue ==
  step = "value" =>
    LET mag == ToFloatImpl(val).mag
    IN /\ IsNaN(val) <=> mag > Infinity32
       /\ IsInfinity(val) <=> mag = Infinity32
       /\ IsNormal(val) <=> SmallestNormal <= mag /\ mag < Infinity32
       /\ IsSubnormal(val) <=> 0 < mag /\ mag < SmallestNormal
       /\ IsNaNOrZero(val) <=> mag = 0 \/ mag > Infinity32
=============================================================================
