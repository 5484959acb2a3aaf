------------------------------- MODULE Words -------------------------------
(***************************************************************************)
(* The arithmetic of u64 and usize, and f64's rounding of an integer, for  *)
(* words of any width.                                                     *)
(***************************************************************************)
EXTENDS Integers, FiniteSetsExt

CONSTANTS
  WordBits,    \* 64
  Mantissa,    \* bits of a significand: 53
  TopExponent  \* of a float, the least being 0: 1074 + 64 is that of any word

ASSUME WordsAssumption ==
  WordBits \in Nat \ {0} /\ Mantissa \in 1 .. WordBits /\ TopExponent \in Nat /\ WordBits <= TopExponent

Word    == 0 .. 2 ^ WordBits - 1
MaxWord == 2 ^ WordBits - 1
NoWord  == -1    \* what a checked operation gives when it overflows

Wrap(n)             == n % 2 ^ WordBits
Checked(n)          == IF n \in Word THEN n ELSE NoWord
CheckedAdd(a, b)    == Checked(a + b)
CheckedMul(a, b)    == Checked(a * b)
SaturatingAdd(a, b) == Min({a + b, MaxWord})
SaturatingMul(a, b) == Min({a * b, MaxWord})
DivCeil(a, b)       == (a + b - 1) \div b

(* Exclusive or, from the highest bit on: top[n] is that of n bits.        *)
Xor(x, y) ==
  LET bit(w, n)  == w \div 2 ^ (WordBits - n)
      top[n \in 0 .. WordBits] ==
        IF n = 0 THEN 0 ELSE 2 * top[n - 1] + ((bit(x, n) + bit(y, n)) % 2)
  IN  top[WordBits]

XorShift(z, bits) == Xor(z, z \div 2 ^ bits)

(* To Mantissa significant bits, to nearest, ties to even.                 *)
ToFloat(n) ==
  LET above == {e \in 0 .. TopExponent : 2 ^ (e + Mantissa) > n}
      unit  == 2 ^ Min(above)
      down  == n \div unit
      odd   == down % 2
  IN  unit * (IF 2 * (n % unit) + odd > unit THEN down + 1 ELSE down)

=============================================================================
