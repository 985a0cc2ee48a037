------------------------------ MODULE LogicOps ------------------------------
(***************************************************************************)
(* The logical primitives of prim_ops.c, which work bit by bit.            *)
(***************************************************************************)
EXTENDS PrimOps

\* The word of w bits, nibble by nibble, whose bit k is on when bits[k].
FromBits(w, bits) ==
  LET nibble(k) == CHOOSE v \in 0 .. 2 ^ Nibble - 1 : \A j \in 0 .. Nibble - 1 : Bit(v, j) <=> bits[k + j]
      byte(k) == Join(nibble(k + Nibble), nibble(k), Nibble)
      word(k) == Join(byte(k + ByteBits), byte(k), ByteBits)
  IN  CASE w = ByteBits -> byte(0)
        [] w = WordBits -> word(0)
        [] w = LongBits -> Join(word(WordBits), word(0), WordBits)

\* The operators &, | and ^ of C.
And(w, x, y) == FromBits(w, [k \in 0 .. w - 1 |-> Bit(x, k) /\ Bit(y, k)])
Or(w, x, y)  == FromBits(w, [k \in 0 .. w - 1 |-> Bit(x, k) \/ Bit(y, k)])
Xor(w, x, y) == FromBits(w, [k \in 0 .. w - 1 |-> Bit(x, k) # Bit(y, k)])

AndOp(w, d, s, fl) == LET v == And(w, d, s) IN Ans(v, Update(fl, Arithmetic, Zsp(v, w)))
OrOp(w, d, s, fl)  == LET v == Or(w, d, s)  IN Ans(v, Update(fl, Arithmetic, Zsp(v, w)))
XorOp(w, d, s, fl) == LET v == Xor(w, d, s) IN Ans(v, Update(fl, Arithmetic, Zsp(v, w)))
\* test leaves the auxiliary carry alone, which the other three clear.
TestOp(w, d, s, fl) == Ans(d, Update(fl, Arithmetic \ {"AF"}, Zsp(And(w, d, s), w)))
=============================================================================
