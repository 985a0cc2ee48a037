------------------------------ MODULE PrimOps ------------------------------
(***************************************************************************)
(* The arithmetic primitives of prim_ops.c.  A flag register is the set of *)
(* the flags that are on.  A primitive gives its result and the flags it   *)
(* leaves, [v |-> result, fl |-> flags]; w is the width, where the source  *)
(* has a _byte, a _word and a _long version of the same code.              *)
(***************************************************************************)
EXTENDS Words

Flags == {"CF", "PF", "AF", "ZF", "SF", "TF", "IF", "DF", "OF"}
Arithmetic == {"CF", "PF", "AF", "ZF", "SF", "OF"}

On(f, cond)  == IF cond THEN {f} ELSE {}
\* CONDITIONAL_SET_FLAG, SET_FLAG and CLEAR_FLAG of the flags in defined.
Update(fl, defined, on) == (fl \ defined) \cup on
Ans(v, fl)   == [v |-> v, fl |-> fl]

Parity(x) == Cardinality({k \in 0 .. ByteBits - 1 : Bit(x, k)}) % 2 = 0
Zsp(v, w) == On("ZF", v = 0) \cup On("SF", Bit(v, w - 1)) \cup On("PF", Parity(v))
ZSP       == {"ZF", "SF", "PF"}

\* The carry and the borrow chains: bit k says whether that bit carried.
CarryAt(d, s, v, k)  == (Bit(s, k) /\ Bit(d, k)) \/ (~Bit(v, k) /\ (Bit(s, k) \/ Bit(d, k)))
BorrowAt(d, s, v, k) == (Bit(v, k) /\ (~Bit(d, k) \/ Bit(s, k))) \/ (~Bit(d, k) /\ Bit(s, k))

Adc(w, d, s, fl) ==
  LET sum == d + s + (IF "CF" \in fl THEN 1 ELSE 0)
      v   == Trunc(sum, w)
      cc(k) == CarryAt(d, s, v, k)
  IN  Ans(v, Update(fl, Arithmetic,
        Zsp(v, w) \cup On("CF", Bit(sum, w)) \cup On("AF", cc(Nibble - 1))
                  \cup On("OF", cc(w - 2) # cc(w - 1))))

Add(w, d, s, fl) == Adc(w, d, s, fl \ {"CF"})

\* A mutant: the borrow is subtracted but does not show in the carry.
SbbDropsBorrow(w, d, s, fl) ==
  LET v == Trunc(d - s - (IF "CF" \in fl THEN 1 ELSE 0), w)
  IN  Ans(v, Update(fl, Arithmetic, Zsp(v, w) \cup On("CF", d < s)))

Sbb(w, d, s, fl) ==
  LET v == Trunc(d - s - (IF "CF" \in fl THEN 1 ELSE 0), w)
      bc(k) == BorrowAt(d, s, v, k)
  IN  Ans(v, Update(fl, Arithmetic,
        Zsp(v, w) \cup On("CF", bc(w - 1)) \cup On("AF", bc(Nibble - 1))
                  \cup On("OF", bc(w - 2) # bc(w - 1))))

Sub(w, d, s, fl) == Sbb(w, d, s, fl \ {"CF"})

\* cmp is sub without its result.
Cmp(w, d, s, fl) == Ans(d, Sub(w, d, s, fl).fl)

\* inc and dec are add and sub of one that leave the carry alone.
Inc(w, d, fl) == LET r == Add(w, d, 1, fl) IN Ans(r.v, Update(r.fl, {"CF"}, fl \cap {"CF"}))
Dec(w, d, fl) == LET r == Sub(w, d, 1, fl) IN Ans(r.v, Update(r.fl, {"CF"}, fl \cap {"CF"}))

Neg(w, s, fl) ==
  LET v == Trunc(-s, w)
      bc(k) == Bit(v, k) \/ Bit(s, k)
  IN  Ans(v, Update(fl, Arithmetic,
        Zsp(v, w) \cup On("CF", s # 0) \cup On("AF", bc(Nibble - 1))
                  \cup On("OF", bc(w - 2) # bc(w - 1))))

NotOp(w, s) == 2 ^ w - 1 - s

(***************************************************************************)
(* Rotates and shifts.  The handlers pass the count as it is, without      *)
(* reducing it to five bits.  Past the width a shift tests a bit with a    *)
(* shift of its own, whose count the host reduces modulo LongBits.         *)
(***************************************************************************)
Late(s) == (s - 1) % LongBits

Rol(w, d, s, fl) ==
  LET c == s % w
      v == IF c = 0 THEN d ELSE ShlTrunc(d, c, w) + Shr(d, w - c)
  IN  IF s = 0 THEN Ans(d, fl)
      ELSE Ans(v, Update(fl, {"CF"} \cup On("OF", s = 1),
             On("CF", Bit(v, 0)) \cup On("OF", s = 1 /\ Bit(v, 0) # Bit(v, w - 1))))

Ror(w, d, s, fl) ==
  LET c == s % w
      v == IF c = 0 THEN d ELSE ShlTrunc(d, w - c, w) + Shr(d, c)
  IN  IF s = 0 THEN Ans(d, fl)
      ELSE Ans(v, Update(fl, {"CF"} \cup On("OF", s = 1),
             On("CF", Bit(v, w - 1)) \cup On("OF", s = 1 /\ Bit(v, w - 2) # Bit(v, w - 1))))

Rcl(w, d, s, fl) ==
  LET c  == s % (w + 1)
      cf == Bit(d, w - c)
      v  == ShlTrunc(d, c, w) + Shr(d, w + 1 - c)
            + (IF "CF" \in fl THEN 2 ^ (c - 1) ELSE 0)
  IN  IF c = 0 THEN Ans(d, fl)
      ELSE Ans(v, Update(fl, {"CF", "OF"},
             On("CF", cf) \cup On("OF", c = 1 /\ cf # Bit(v, w - 1))))

\* A mutant: a rotate through carry over the width without the carry.
RcrByWidth(w, d, s, fl) ==
  LET c == s % w
  IN  IF c = 0 THEN Ans(d, fl)
      ELSE Ans(Shr(d, c) + ShlTrunc(d, w - c, w), Update(fl, {"CF"}, On("CF", Bit(d, c - 1))))

Rcr(w, d, s, fl) ==
  LET c  == s % (w + 1)
      cf == Bit(d, c - 1)
      v  == Shr(d, c) + ShlTrunc(d, w + 1 - c, w)
            + (IF "CF" \in fl THEN 2 ^ (w - c) ELSE 0)
  IN  IF c = 0 THEN Ans(d, fl)
      ELSE Ans(v, Update(fl, {"CF"} \cup On("OF", c = 1),
             On("CF", cf) \cup On("OF", c = 1 /\ ("CF" \in fl) # Bit(d, w - 1))))

\* The two double shifts: what is shifted out of fill comes into d.
ShiftLeft(w, d, fill, s, fl) ==
  LET v  == ShlTrunc(d, s, w) + Shr(fill, w - s)
      cf == On("CF", Bit(d, w - s))
  IN  CASE s = 0 -> Ans(d, fl \ {"OF"})
        [] s \in 1 .. w - 1 ->
             Ans(v, Update(fl, ZSP \cup {"CF", "OF"},
               Zsp(v, w) \cup cf \cup On("OF", s = 1 /\ Bit(v, w - 1) # (cf # {}))))
        [] s >= w ->
             Ans(0, Update(fl, ZSP \cup {"CF", "OF"},
               {"ZF", "PF"} \cup On("CF", Late(s) < w /\ Bit(d, w - 1 - Late(s)))))

ShiftRight(w, d, fill, s, fl) ==
  LET v == Shr(d, s) + ShlTrunc(fill, w - s, w)
  IN  CASE s = 0 -> Ans(d, fl \ {"OF"})
        [] s \in 1 .. w - 1 ->
             Ans(v, Update(fl, ZSP \cup {"CF", "OF"},
               Zsp(v, w) \cup On("CF", Bit(d, s - 1))
                 \cup On("OF", s = 1 /\ Bit(v, w - 2) # Bit(v, w - 1))))
        [] s >= w -> Ans(0, Update(fl, ZSP \cup {"CF", "OF"}, {"ZF"}))

Shl(w, d, s, fl) == ShiftLeft(w, d, 0, s, fl)
Shld(w, d, fill, s, fl) == ShiftLeft(w, d, fill, s, fl)
Shrd(w, d, fill, s, fl) == ShiftRight(w, d, fill, s, fl)

\* Past the width the byte version differs: it computes a carry and sets PF.
ShrOp(w, d, s, fl) ==
  IF w = ByteBits /\ s >= w
  THEN Ans(0, Update(fl, ZSP \cup {"CF", "OF"},
         {"ZF", "PF"} \cup On("CF", Bit(d, Late(s)))))
  ELSE ShiftRight(w, d, 0, s, fl)

\* The count of an arithmetic shift is taken modulo the width.
Sar(w, d, s, fl) ==
  LET c == s % w
      v == Trunc(Signed(d, w) \div 2 ^ c, w)
  IN  IF c = 0 THEN Ans(d, fl)
      ELSE Ans(v, Update(fl, ZSP \cup {"CF"}, Zsp(v, w) \cup On("CF", Bit(d, c - 1))))

(***************************************************************************)
(* Multiplication and division of the accumulator pair hi:lo.  A division  *)
(* may raise the divide error, or divide a number whose quotient the host  *)
(* cannot represent: what happens then depends on the build.               *)
(***************************************************************************)
MulFlags(zero, lo, w, fl) ==
  Update(fl, {"ZF", "SF", "PF", "AF"},
         On("ZF", zero) \cup On("SF", Bit(lo, w - 1)) \cup On("PF", Parity(lo)))

Overflow(fl, cond) ==
  Update(fl, {"CF", "OF"}, IF cond THEN {"CF", "OF"} ELSE {})

ImulDirect(w, d, s) ==
  LET p == Signed(d, w) * Signed(s, w)
  IN  [lo |-> Trunc(p, w), hi |-> Trunc(Shr(p, w), w),
       wide |-> p \notin -(2 ^ (w - 1)) .. 2 ^ (w - 1) - 1]

Imul(w, a, s, fl) ==
  LET p == ImulDirect(w, a, s)
  IN  [lo |-> p.lo, hi |-> p.hi, trap |-> "none",
       fl |-> MulFlags(p.lo = 0 /\ p.hi = 0, p.lo, w, Overflow(fl, p.wide))]

Mul(w, a, s, fl) ==
  LET lo == Low(a * s, w)
      hi == High(a * s, w)
  IN  [lo |-> lo, hi |-> hi, trap |-> "none",
       fl |-> MulFlags(a * s = 0, lo, w, Overflow(fl, hi # 0))]

DivideError(hi, lo, fl, kind) == [lo |-> lo, hi |-> hi, fl |-> fl, trap |-> kind]

Div(w, hi, lo, s, fl) ==
  LET dvd == Join(hi, lo, w)
  IN  IF s = 0 \/ dvd \div s > 2 ^ w - 1
      THEN DivideError(hi, lo, fl, "DIV0")
      ELSE [lo |-> dvd \div s, hi |-> dvd % s, fl |-> fl, trap |-> "none"]

\* The byte version divides in 32 bits, where its quotient always fits; the
\* word and the long version divide in just twice their own width.
Idiv(w, hi, lo, s, fl) ==
  LET dvd == Join(Signed(hi, w), lo, w)
      dsr == Signed(s, w)
      q   == Quotient(dvd, dsr)
      unrepresentable == w # ByteBits /\ hi = 2 ^ (w - 1) /\ lo = 0 /\ dsr = -1
  IN  CASE s = 0 -> DivideError(hi, lo, fl, "DIV0")
        [] s # 0 /\ unrepresentable -> DivideError(hi, lo, fl, "UNDEFINED")
        [] OTHER ->
             IF q \notin -(2 ^ (w - 1)) .. 2 ^ (w - 1) - 1
             THEN DivideError(hi, lo, fl, "DIV0")
             ELSE [lo |-> Trunc(q, w), hi |-> Trunc(Remainder(dvd, dsr), w),
                   fl |-> fl, trap |-> "none"]

(***************************************************************************)
(* Decimal adjust.  Fix is 6 in the source, Ten 10.                        *)
(***************************************************************************)
Fix == 2 ^ Nibble - Ten
LowNibble(x) == Trunc(x, Nibble)
Adjusts(d, fl) == LowNibble(d) > Ten - 1 \/ "AF" \in fl

\* Both halves: aaa adds, aas subtracts, carrying into the upper byte.
AsciiAdjust(d, sign, fl) ==
  LET t == Trunc(d + sign * (Fix + 2 ^ ByteBits), WordBits)
      u == IF Adjusts(d, fl) THEN t ELSE d
      v == Join(High(u, ByteBits), LowNibble(u), ByteBits)
  IN  Ans(v, Update(fl, {"AF", "CF", "ZF", "SF", "PF"},
        (IF Adjusts(d, fl) THEN {"AF", "CF"} ELSE {})
          \cup On("ZF", v = 0) \cup On("PF", Parity(v))))
Aaa(d, fl) == AsciiAdjust(d, 1, fl)
Aas(d, fl) == AsciiAdjust(d, -1, fl)

Aad(d, base, fl) ==
  LET l == Trunc(Low(d, ByteBits) + base * High(d, ByteBits), ByteBits)
  IN  Ans(l, Update(fl, Arithmetic, Zsp(l, ByteBits)))

\* The sign is that of the lower byte; zero looks at both.
Aam(d, base, fl) ==
  LET l == Join(d \div base, d % base, ByteBits)
  IN  Ans(l, Update(fl, Arithmetic,
        On("ZF", l = 0) \cup On("SF", Bit(l, ByteBits - 1)) \cup On("PF", Parity(l))))

\* The threshold is a tens digit past the last one, after the units were fixed.
TensLimit == Join(Ten - 1, 2 ^ Nibble - 1, Nibble)

Daa(d, fl) ==
  LET low  == Adjusts(d, fl)
      t    == IF low THEN d + Fix ELSE d
      high == t > TensLimit \/ "CF" \in fl
      v    == Trunc(IF high THEN t + Join(Fix, 0, Nibble) ELSE t, ByteBits)
  IN  Ans(v, Update(fl, ZSP, Zsp(v, ByteBits)) \cup On("AF", low) \cup On("CF", high))

\* A mutant: the tens are looked at before the units were adjusted.
DasForgetsBorrow(d, fl) ==
  LET v == Trunc(d - (IF Adjusts(d, fl) THEN Fix ELSE 0)
                   - (IF Shr(d, Nibble) > Ten - 1 THEN Join(Fix, 0, Nibble) ELSE 0), ByteBits)
  IN  Ans(v, Update(fl, ZSP, Zsp(v, ByteBits)) \cup On("AF", Adjusts(d, fl)))

Das(d, fl) ==
  LET low  == Adjusts(d, fl)
      t    == IF low THEN Trunc(d - Fix, ByteBits) ELSE d
      high == t > TensLimit \/ "CF" \in fl
      v    == Trunc(IF high THEN t - Join(Fix, 0, Nibble) ELSE t, ByteBits)
  IN  Ans(v, Update(fl, ZSP, Zsp(v, ByteBits)) \cup On("AF", low) \cup On("CF", high))

\* A mutant: the signed conditions look at the sign alone.
SignAlone(n, fl) ==
  LET cond == CASE n \div 2 = 0 -> "OF" \in fl
                [] n \div 2 = 1 -> "CF" \in fl
                [] n \div 2 = 2 -> "ZF" \in fl
                [] n \div 2 = 3 -> fl \cap {"CF", "ZF"} # {}
                [] n \div 2 \in {4, 6} -> "SF" \in fl
                [] n \div 2 = 5 -> "PF" \in fl
                [] n \div 2 = 7 -> fl \cap {"ZF", "SF"} # {}
  IN  IF n % 2 = 1 THEN ~cond ELSE cond

\* The sixteen conditions of the conditional instructions, by number.
EvalCondition(n, fl) ==
  LET less == ("SF" \in fl) # ("OF" \in fl)
      cond == CASE n \div 2 = 0 -> "OF" \in fl
                [] n \div 2 = 1 -> "CF" \in fl
                [] n \div 2 = 2 -> "ZF" \in fl
                [] n \div 2 = 3 -> fl \cap {"CF", "ZF"} # {}
                [] n \div 2 = 4 -> "SF" \in fl
                [] n \div 2 = 5 -> "PF" \in fl
                [] n \div 2 = 6 -> less
                [] n \div 2 = 7 -> "ZF" \in fl \/ less
  IN  IF n % 2 = 1 THEN ~cond ELSE cond
=============================================================================
