---------------------------- MODULE MCHalfFloats ----------------------------
(* Bit patterns and distances for model checking HalfFloats. *)
EXTENDS HalfFloats

AllPatterns == 0..(2^16 - 1)

(* Every exponent, with the mantissas where rounding can go wrong. *)
EdgePatterns(bits) ==
  LET ends == {0, 1, 2, 3, 2^(bits - 1) - 1, 2^(bits - 1), 2^(bits - 1) + 1,
               2^bits - 2, 2^bits - 1}
  IN {s * 2^15 + e * 2^bits + m : s \in {0, 1}, e \in 0..(2^(15 - bits) - 1), m \in ends}

Edges16 == EdgePatterns(10)
EdgesB16 == EdgePatterns(7)

(* Patterns to compare with: one of each class and sign. *)
Some16 == {0, 1, 1023, 1024, 15360, 31743, 31744, 31745, 32768, 32769, 33791, 33792,
           48128, 64511, 64512, 65535}
SomeB16 == {0, 1, 127, 128, 16256, 32639, 32640, 32641, 32768, 32769, 32895, 32896,
            49024, 65407, 65408, 65535}

(* Half a unit in the last place of a 16-bit value, for every size that it   *)
(* can have in a float, and one more or less.                                *)
AroundHalf(ks) == UNION {{2^k, -(2^k), 2^k + 1, 2^k - 1, 1 - 2^k} : k \in ks}

(* Every pattern goes to float and back, those at the edges are compared, *)
(* and the floats of those are moved.                                     *)
StartsOf(type, edges, some) == ({type} \X AllPatterns \X {0}) \cup ({type} \X edges \X some)
AllStarts == StartsOf("float16", Edges16, Some16) \cup StartsOf("bfloat16", EdgesB16, SomeB16)

EdgeDeltas(start) ==
  CASE start \in {"float16"} \X Edges16 \X {0} -> AroundHalf(9..22)
    [] start \in {"bfloat16"} \X EdgesB16 \X {0} -> AroundHalf(13..16)
    [] OTHER -> {}

(* For the comparison only. *)
EdgeStarts == {"float16"} \X Edges16 \X Some16
NoDeltas(start) == {}
=============================================================================
