------------------------------- MODULE EmuOps2 ------------------------------
(***************************************************************************)
(* The handlers of the two-byte opcodes, ops2.c.                           *)
(***************************************************************************)
EXTENDS EmuOps

CONSTANTS
  MSRs,     \* the number of model specific registers
  TscMsr    \* the one that counts the instructions, 0x10 in the source

ASSUME MSRsAssumption == MSRs \in Nat /\ TscMsr \in 0 .. MSRs - 1

(***************************************************************************)
(* System registers.                                                       *)
(***************************************************************************)
\* Group 0f 00: sldt, str, lldt, ltr, verr, verw.  The last two only set ZF.
SetLdt(n, v) == LET l == LoadSeg(n, n.ldt, v)
                IN  IF l.err THEN GP([n EXCEPT !.ldt = l.seg], v) ELSE [n EXCEPT !.ldt = l.seg]
LoadTable(m, i) ==
  LET v == Rm(m, i, WordBits)
      n == AtRm(m, i, WordBits)
  IN  CASE i.reg = 0 -> SetRm(m, i, WordBits, m.ldt.sel)
        [] i.reg = 1 -> SetRm(m, i, WordBits, m.tr)
        [] i.reg = 2 -> SetLdt(n, v)
        [] i.reg = 3 -> [n EXCEPT !.tr = v]
        [] i.reg \in {4, 5} -> IF v # 0 THEN With(n, n.fl \cup {"ZF"}) ELSE n
        [] OTHER -> UD(m)

\* sgdt and sidt store the limit and the base, lgdt and lidt load them; the
\* base has three bytes when the data are words.
Base(m, b) == IF "DATA32" \in m.mode THEN b ELSE Trunc(b, 3 * ByteBits)
StoreTable(m, i, t) ==
  PokeData(SetRm(m, i, WordBits, Trunc(t.limit, WordBits)), Offset(m, 2), LongBits, Base(m, t.base))
TableIn(m, i) ==
  [limit |-> Rm(m, i, WordBits), base  |-> Base(m, PeekData(InSegment(m), Offset(m, 2), LongBits))]
AtTable(m, i) == TouchData(AtRm(m, i, WordBits), Offset(m, 2), LongBits)

SystemTable(m, i) ==
  CASE i.mod = 3 /\ i.reg \notin {4, 6} -> UD(m)
    [] i.mod # 3 /\ i.reg = 0 -> StoreTable(m, i, m.gdt)
    [] i.mod # 3 /\ i.reg = 1 -> StoreTable(m, i, m.idt)
    [] i.mod # 3 /\ i.reg = 2 -> [AtTable(m, i) EXCEPT !.gdt = TableIn(m, i)]
    [] i.mod # 3 /\ i.reg = 3 -> [AtTable(m, i) EXCEPT !.idt = TableIn(m, i)]
    [] i.reg = 4 -> SetRm(m, i, WordBits, Trunc(m.cr[0], WordBits))
    [] i.mod # 3 /\ i.reg = 5 -> UD(m)
    [] i.reg = 6 -> [AtRm(m, i, WordBits) EXCEPT !.cr[0] = @ - Trunc(@, WordBits) + Rm(m, i, WordBits)]
    [] i.mod # 3 /\ i.reg = 7 -> Located(m, i)

Clts(m, i) == [m EXCEPT !.cr[0] = @ - (IF Bit(@, 3) THEN 8 ELSE 0)]

\* Control and debug registers exchange with a register only.
Mov_RM_CRx(m, i) == IF i.mod = 3 THEN [m EXCEPT !.r[i.rm] = m.cr[i.reg]] ELSE UD(m)
Mov_RM_DRx(m, i) == IF i.mod = 3 THEN [m EXCEPT !.r[i.rm] = m.dr[i.reg]] ELSE UD(m)
Mov_CRx_RM(m, i) == IF i.mod = 3 THEN [m EXCEPT !.cr[i.reg] = m.r[i.rm]] ELSE UD(m)
Mov_DRx_RM(m, i) == IF i.mod = 3 THEN [m EXCEPT !.dr[i.reg] = m.r[i.rm]] ELSE UD(m)

\* A model specific register is a pair, written from EDX:EAX.
NoMsr == [hi |-> 0, lo |-> 0]
MsrOf(m, n) == CASE n = TscMsr -> [hi |-> High(m.tsc, LongBits), lo |-> Low(m.tsc, LongBits)]
                 [] n # TscMsr /\ n \in DOMAIN m.msr -> m.msr[n]
                 [] OTHER -> NoMsr
Wrmsr(m, i) ==
  CASE m.r[ECX] >= MSRs -> UD(m)
    [] m.r[ECX] = TscMsr -> [m EXCEPT !.tsc = Join(m.r[EDX], m.r[EAX], LongBits)]
    [] OTHER -> [m EXCEPT !.msr = (m.r[ECX] :> [hi |-> m.r[EDX], lo |-> m.r[EAX]]) @@ @]
Rdmsr(m, i) ==
  LET v == MsrOf(m, m.r[ECX])
  IN  IF m.r[ECX] >= MSRs THEN UD(m) ELSE [m EXCEPT !.r[EAX] = v.lo, !.r[EDX] = v.hi]
Rdtsc(m, i) == LET v == MsrOf(m, TscMsr) IN [m EXCEPT !.r[EAX] = v.lo, !.r[EDX] = v.hi]
Rdpmc(m, i) == [m EXCEPT !.r[EAX] = 0, !.r[EDX] = 0]

\* Nothing but the exceptions and the decoding of the operand.
Unimplemented(m, i) == UD(m)   \* sysenter, sysexit, cpuid without a handler
Hint(m, i) == IF i.mod = 3 THEN m ELSE Located(m, i)

(***************************************************************************)
(* 128-bit registers, sixteen bytes each.                                  *)
(***************************************************************************)
Lane   == 0 .. 15
Sse(m) == LET blocked == Bit(m.cr[0], 2) \/ ~Bit(m.cr[0], 1) \/ ~Bit(m.cr[4], 9)
          IN  IF blocked THEN UD(m) ELSE m

CellsAt(m)      == [k \in Lane |-> PeekData(InSegment(m), Offset(m, k), ByteBits)]
TouchCells(m, n) ==
  IF \A k \in 0 .. n - 1 : TouchData(m, Offset(m, k), ByteBits) = m
  THEN m ELSE GP(m, m.seg[DataSegment(m)].sel)

\* store_data_qlong puts all sixteen bytes, each as a word, in one place.
PokeQlong(m, v) == PokeData(m, m.ea.ofs, WordBits, v[15])

\* The store takes the address from the reg field and the value from rm.
SSEmovops(m, i) ==
  LET n       == Sse(m)
      aligned == i.op = "movups" \/ m.ea.ofs % 16 = 0
      t       == TouchCells(InSegment(n), 16)
  IN  CASE i.mod = 3 -> [n EXCEPT !.xmm[i.reg] = n.xmm[i.rm]]
        [] i.mod # 3 /\ ~i.store ->
             IF aligned THEN [t EXCEPT !.xmm[i.reg] = CellsAt(m)] ELSE GP(t, 0)
        [] i.mod # 3 /\ i.store ->
             IF aligned THEN PokeQlong(InSegment(n), n.xmm[i.rm]) ELSE GP(InSegment(n), 0)

\* Half a register: movlps the lower eight bytes, movhps the upper.
Half(i) == IF i.op = "movlps" THEN 0 ELSE 8
SSEmovpackedops(m, i) ==
  LET n  == Sse(m)
      at == InSegment(n)
      put[k \in 0 .. 8] ==
        IF k = 0 THEN at
        ELSE PokeData(put[k - 1], Offset(m, k - 1), ByteBits, n.xmm[i.reg][Half(i) + k - 1])
      upper == {k \in Lane : k >= Half(i) /\ k < Half(i) + 8}
  IN  CASE i.mod = 3 /\ i.store -> n
        [] i.mod = 3 /\ ~i.store ->
             [n EXCEPT !.xmm[i.reg] =
                [k \in Lane |-> IF k \notin upper THEN @[k]
                                ELSE n.xmm[i.rm][IF Half(i) = 0 THEN k + 8 ELSE k - 8]]]
        [] i.mod # 3 /\ i.store -> put[8]
        [] i.mod # 3 /\ ~i.store ->
             [TouchCells(at, 8) EXCEPT !.xmm[i.reg] =
                [k \in Lane |-> IF k \in upper THEN CellsAt(m)[k - Half(i)] ELSE @[k]]]

SseSource(m, i) == IF i.mod = 3 THEN m.xmm[i.rm] ELSE CellsAt(m)
AtSse(m, i)     == IF i.mod = 3 THEN m ELSE TouchCells(InSegment(m), 16)

\* unpcklps and unpckhps interleave single bytes, and only the first four.
SSEpackops(m, i) ==
  LET n == AtSse(Sse(m), i)
      s == SseSource(n, i)
      d == n.xmm[i.reg]
      from == IF i.op = "unpckl" THEN 0 ELSE 2
  IN  [n EXCEPT !.xmm[i.reg] =
         [k \in Lane |-> CASE k \in {0, 2} -> d[from + k \div 2]
                           [] k \in {1, 3} -> s[from + k \div 2]
                           [] OTHER -> d[k]]]

SSElogicalops(m, i) ==
  LET n == AtSse(Sse(m), i)
      s == SseSource(n, i)
      Of(a, b) == CASE i.op = "andps"  -> And(ByteBits, a, b)
                    [] i.op = "andnps" -> And(ByteBits, a, NotOp(ByteBits, b))
                    [] i.op = "orps"   -> Or(ByteBits, a, b)
                    [] i.op = "xorps"  -> Xor(ByteBits, a, b)
  IN  [n EXCEPT !.xmm[i.reg] = [k \in Lane |-> Of(@[k], s[k])]]

(***************************************************************************)
(* Conditional instructions.                                               *)
(***************************************************************************)
\* conditional_move has a condition of its own: when it does nothing.  It
\* compares the bits of SF and OF where they stand in the flags, so that the
\* two are the same only when both are clear.
Noop(n, fl) ==
  LET same   == fl \cap {"SF", "OF"} = {}
      Has(f) == f \in fl
  IN  CASE n = 0 -> ~Has("OF")  [] n = 1 -> Has("OF")
        [] n = 2 -> ~Has("CF")  [] n = 3 -> Has("CF")
        [] n = 4 -> ~Has("ZF")  [] n = 5 -> Has("ZF")
        [] n = 6 -> ~Has("CF") /\ ~Has("ZF")
        [] n = 7 -> Has("CF") \/ Has("ZF")
        [] n = 8 -> ~Has("SF")  [] n = 9 -> Has("SF")
        [] n = 10 -> ~Has("PF") [] n = 11 -> Has("PF")
        [] n = 12 -> same       [] n = 13 -> ~same
        [] n = 14 -> ~Has("ZF") /\ same
        [] n = 15 -> Has("ZF") \/ ~same

\* A move that is not done does not read its operand.
Conditional_move(m, i) ==
  LET w == DataWidth(m)
      at == IF i.mod = 3 THEN m ELSE Located(m, i)
  IN  IF Noop(i.cc, m.fl) THEN at ELSE Put(AtRm(m, i, w), w, i.reg, Rm(m, i, w))

Long_jump(m, i) == IF EvalCondition(i.cc, m.fl) THEN Goto(m, NearTarget(m, i)) ELSE m
Set_byte(m, i)  == SetRm(m, i, ByteBits, IF EvalCondition(i.cc, m.fl) THEN 1 ELSE 0)

(***************************************************************************)
(* Bits.  A bit of memory beyond the operand is looked up at a byte offset *)
(* of the word number; the word versions of bts, btr and btc divide the    *)
(* bit number by 32, bt divides it by 16.                                  *)
(***************************************************************************)
\* The operand with the bit k reset, set or complemented.
BitTo(op, v, k) ==
  LET on == Bit(v, k)
  IN  CASE op = "bt" -> v
        [] op = "bts" -> IF on THEN v ELSE v + 2 ^ k
        [] op = "btr" -> IF on THEN v - 2 ^ k ELSE v
        [] op = "btc" -> IF on THEN v - 2 ^ k ELSE v + 2 ^ k

BitAt(m, i, w, op, k, ofs) ==
  LET n == Located(m, i)
      a == Trunc(ofs, LongBits)
      v == IF i.mod = 3 THEN Get(m, w, i.rm) ELSE PeekData(n, a, w)
      c == (m.fl \ {"CF"}) \cup On("CF", Bit(v, k))
  IN  CASE i.mod = 3 -> Put(With(m, c), w, i.rm, Trunc(BitTo(op, v, k), w))
        [] i.mod # 3 /\ op = "bt" -> With(TouchData(n, a, w), c)
        [] i.mod # 3 /\ op # "bt" -> With(PokeData(TouchData(n, a, w), a, w, BitTo(op, v, k)), c)

Bt_R(m, i) ==
  LET w == DataWidth(m)
      d == Signed(Get(m, w, i.reg), w)
      per == IF w = LongBits \/ i.op # "bt" THEN LongBits ELSE WordBits
  IN  BitAt(m, i, w, i.op, d % w, m.ea.ofs + d \div per)

\* The number of an immediate is taken modulo 32 for a register of 16 bits.
BtX_I(m, i) ==
  LET w == DataWidth(m)
      op == CASE i.reg = 4 -> "bt" [] i.reg = 5 -> "bts" [] i.reg = 6 -> "btr" [] i.reg = 7 -> "btc"
      k == Trunc(i.imm, ByteBits) % (IF i.mod = 3 THEN LongBits ELSE w)
  IN  IF i.reg < 4 THEN UD(m) ELSE BitAt(m, i, w, op, k, m.ea.ofs)

\* Of zero, bsf gives the width and bsr zero.
BitScan(m, i, found(_), none) ==
  LET w  == DataWidth(m)
      v  == Rm(m, i, w)
      ks == {k \in 0 .. w - 1 : Bit(v, k)}
      n  == AtRm(m, i, w)
  IN  Put(With(n, (n.fl \ {"ZF"}) \cup On("ZF", v = 0)), w, i.reg,
          IF ks = {} THEN none ELSE found(ks))
Bsf(m, i) == LET First(ks) == CHOOSE k \in ks : \A j \in ks : k <= j
             IN  BitScan(m, i, First, DataWidth(m))
Bsr(m, i) == LET Last(ks) == CHOOSE k \in ks : \A j \in ks : k >= j
             IN  BitScan(m, i, Last, 0)

(***************************************************************************)
(* Double shifts, and the counterparts of handlers of ops.c.               *)
(***************************************************************************)
ShiftDouble(m, i, s, Of(_, _, _, _, _)) ==
  LET w == DataWidth(m)
      a == Of(w, Rm(m, i, w), Get(m, w, i.reg), s, m.fl)
  IN  SetRm(With(AtRm(m, i, w), a.fl), i, w, a.v)
Shld_IMM(m, i) == ShiftDouble(m, i, Trunc(i.imm, ByteBits), Shld)
Shld_CL(m, i)  == ShiftDouble(m, i, Get(m, ByteBits, ECX), Shld)
Shrd_IMM(m, i) == ShiftDouble(m, i, Trunc(i.imm, ByteBits), Shrd)
Shrd_CL(m, i)  == ShiftDouble(m, i, Get(m, ByteBits, ECX), Shrd)

Imul_R_RM(m, i) == LET w == DataWidth(m)
                   IN  ImulInto(AtRm(m, i, w), w, i.reg, Get(m, w, i.reg), Rm(m, i, w))
Lss(m, i) == LoadFar(m, i, SS)
Lfs(m, i) == LoadFar(m, i, FS)
Lgs(m, i) == LoadFar(m, i, GS)

\* from is the width of the operand that is extended.
Extended(m, i, from, signed) ==
  LET w == DataWidth(m)
      v == Rm(m, i, from)
  IN  Put(AtRm(m, i, from), w, i.reg, IF signed /\ w > from THEN SignExtend(v, from, w) ELSE v)
Movzx_byte_R_RM(m, i) == Extended(m, i, ByteBits, FALSE)
Movzx_word_R_RM(m, i) == Extended(m, i, WordBits, FALSE)
Movsx_byte_R_RM(m, i) == Extended(m, i, ByteBits, TRUE)
Movsx_word_R_RM(m, i) == Extended(m, i, WordBits, TRUE)

\* The bytes in reverse order; with word data nothing happens.
Bswap(m, i) ==
  LET v == m.r[i.reg]
      b(k) == Trunc(Shr(v, k * ByteBits), ByteBits)
  IN  IF "DATA32" \in m.mode
      THEN [m EXCEPT !.r[i.reg] = Join(Join(b(0), b(1), ByteBits), Join(b(2), b(3), ByteBits), WordBits)]
      ELSE m
=============================================================================
