------------------------------- MODULE Numbers ------------------------------
(***************************************************************************)
(* What words mean: the integers, relations, digits and bit positions that *)
(* the promises about the arithmetic of the emulator are stated in.  None  *)
(* of it is translated from the code, which is held to it.                 *)
(***************************************************************************)
EXTENDS Words

\* The words of w bits, and the integers they stand for with a sign.
WordOf(w)      == 0 .. 2 ^ w - 1
SignedRange(w) == -(2 ^ (w - 1)) .. 2 ^ (w - 1) - 1

\* The relation of the operands that each condition stands for after cmp.
Relation(cc, w, d, s) ==
  LET x == Signed(d, w)
      y == Signed(s, w)
      v == Trunc(d - s, w)
      rel == CASE cc \div 2 = 0 -> x - y \notin SignedRange(w)
               [] cc \div 2 = 1 -> d < s
               [] cc \div 2 = 2 -> d = s
               [] cc \div 2 = 3 -> d <= s
               [] cc \div 2 = 4 -> v >= 2 ^ (w - 1)
               [] cc \div 2 = 5 -> Cardinality({k \in 0 .. ByteBits - 1 : Bit(v, k)}) % 2 = 0
               [] cc \div 2 = 6 -> x < y
               [] cc \div 2 = 7 -> x <= y
  IN  IF cc % 2 = 1 THEN ~rel ELSE rel

\* The number that the two digits of a byte say.
Packed(x) == Ten * Shr(x, Nibble) + Trunc(x, Nibble)

\* Bit k of the operand, with the carry above it for a rotate through carry.
Ring(w, d, carry, k) == IF k = w THEN carry ELSE Bit(d, k)

\* What bit k of the result is after a shift of kind n by c; 8 and 9 are the
\* double shifts, which bring in the bits of fill.
ShiftedBit(n, w, d, fill, c, carry, k) ==
  CASE n = 0 -> Bit(d, (k - c) % w)
    [] n = 1 -> Bit(d, (k + c) % w)
    [] n = 2 -> Ring(w, d, carry, (k - c) % (w + 1))
    [] n = 3 -> Ring(w, d, carry, (k + c) % (w + 1))
    [] n \in {4, 6} -> k >= c /\ Bit(d, k - c)
    [] n = 5 -> k + c < w /\ Bit(d, k + c)
    [] n = 7 -> Bit(d, IF k + c < w THEN k + c ELSE w - 1)
    [] n = 8 -> IF k >= c THEN Bit(d, k - c) ELSE Bit(fill, w + k - c)
    [] n = 9 -> IF k + c < w THEN Bit(d, k + c) ELSE Bit(fill, k + c - w)

\* The carry after it, for a count that is not zero: the last bit that was
\* shifted out.
ShiftedCarry(n, w, d, c, carry) ==
  CASE n = 0 -> Bit(d, (-c) % w)
    [] n = 1 -> Bit(d, (w - 1 + c) % w)
    [] n = 2 -> Ring(w, d, carry, (w - c) % (w + 1))
    [] n = 3 -> Ring(w, d, carry, (w + c) % (w + 1))
    [] n \in {4, 6, 8} -> Bit(d, w - c)
    [] n \in {5, 7, 9} -> Bit(d, c - 1)
=============================================================================
