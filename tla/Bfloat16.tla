------------------------------ MODULE Bfloat16 ------------------------------
(***************************************************************************)
(* The two value encodings of a corpus as words: a binary32 and the        *)
(* bfloat16 that keeps its upper half, rounded to nearest with ties to     *)
(* even.  Only the widths are parameters, so that TLC can try every word   *)
(* of a small format and the proofs cover them all.                        *)
(*                                                                         *)
(*   word:  sign | exponent | mantissa kept | mantissa dropped             *)
(*                                                                         *)
(* What the words stand for (Value, Rank) follows IEEE 754 and not the     *)
(* code: it is the reference the code's integer arithmetic is held to.     *)
(***************************************************************************)
EXTENDS Integers

CONSTANTS
  Unit,    \* words of the wide format to one of the narrow: 2^16
  Quiet,   \* the top bit of the kept mantissa, 0x0040
  Sign     \* the sign bit of the narrow format, 0x8000

ASSUME UnitAssumption  == Unit \in Nat \ {0} /\ Unit % 2 = 0
ASSUME QuietAssumption == Quiet \in Nat \ {0}
ASSUME SignAssumption  == Sign \in Nat /\ Sign > 2 * Quiet /\ Sign % (2 * Quiet) = 0

Half     == Unit \div 2
Infinity == Sign - 2 * Quiet     \* narrow words: exponent all ones, no mantissa
Words    == 0 .. 2 * Sign * Unit - 1
Narrow   == 0 .. 2 * Sign - 1

Magnitude(w) == w % (Sign * Unit)
IsNaN(w)     == Magnitude(w) > Infinity * Unit
IsFinite(w)  == Magnitude(w) < Infinity * Unit
IsNegative(w) == w >= Sign * Unit

(* k | bit, for a bit of the word                                          *)
WithBit(k, bit) == IF (k \div bit) % 2 = 1 THEN k ELSE k + bit

(* Faulty: the bits dropped are not rounded.                               *)
Truncate(w) == IF IsNaN(w) THEN WithBit(w \div Unit, Quiet) ELSE w \div Unit

(* Faulty: ties go away from zero.                                         *)
RoundHalfUp(w) ==
  IF IsNaN(w) THEN WithBit(w \div Unit, Quiet)
              ELSE ((w + Half) % (2 * Sign * Unit)) \div Unit

(* from_f32: half an interval less one is added, one more when the word    *)
(* kept is odd, and the carry runs into the exponent.                      *)
FromF32(w) ==
  IF IsNaN(w) THEN WithBit(w \div Unit, Quiet)
  ELSE LET ties_to_even == (w \div Unit) % 2
       IN  ((w + Half - 1 + ties_to_even) % (2 * Sign * Unit)) \div Unit

ToF32(k) == k * Unit

-----------------------------------------------------------------------------
(* What a word stands for, in units of the smallest subnormal; an infinity *)
(* stands where the next exponent would begin.                             *)
Value(w) ==
  LET significands == 2 * Quiet * Unit
      m == Magnitude(w) % significands
      e == Magnitude(w) \div significands
  IN  IF e = 0 THEN m ELSE (significands + m) * 2^(e - 1)

(* The words that are numbers, in the order of the numbers; -0 is 0.       *)
Rank(w) == IF IsNegative(w) THEN -Magnitude(w) ELSE Magnitude(w)

=============================================================================
