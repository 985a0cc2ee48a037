------------------------------- MODULE Words -------------------------------
(***************************************************************************)
(* Unsigned machine words of a given number of bits.  A word is a natural  *)
(* number; every operation of the emulator is written once with its width  *)
(* w as a parameter, where the source repeats it for u8, u16 and u32.      *)
(* ByteBits is 8 in the source; the model checker uses smaller bytes.      *)
(***************************************************************************)
EXTENDS Integers, FiniteSets

CONSTANTS
  ByteBits,   \* bits of a byte
  Ten         \* the base of the decimal adjust instructions, at most 2^(ByteBits \div 2)

ASSUME WordsAssumption ==
  /\ ByteBits \in {6, 8}
  /\ Ten \in 2 .. 2 ^ (ByteBits \div 2)

WordBits == 2 * ByteBits
LongBits == 4 * ByteBits
Nibble   == ByteBits \div 2

Trunc(x, w)  == x % 2 ^ w
Bit(x, k)    == (x \div 2 ^ k) % 2 = 1
Shr(x, k)    == x \div 2 ^ k
\* x shifted left by k in w bits; what is shifted out is never computed.
ShlTrunc(x, k, w) == IF k >= w THEN 0 ELSE Trunc(x, w - k) * 2 ^ k
Signed(x, w) == IF Bit(x, w - 1) THEN x - 2 ^ w ELSE x
SignExtend(x, from, to) == Trunc(Signed(x, from), to)

\* The halves of a value twice as wide as w, and their concatenation.
Low(x, w)      == Trunc(x, w)
High(x, w)     == Trunc(Shr(x, w), w)
Join(hi, lo, w) == hi * 2 ^ w + lo

Bytes(w) == w \div ByteBits

\* C's division: the quotient is rounded towards zero.
Magnitude(x)   == IF x < 0 THEN -x ELSE x
Quotient(a, b) == LET q == Magnitude(a) \div Magnitude(b)
                  IN  IF (a < 0) = (b < 0) THEN q ELSE -q
Remainder(a, b) == a - b * Quotient(a, b)
=============================================================================
