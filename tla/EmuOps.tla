------------------------------- MODULE EmuOps -------------------------------
(***************************************************************************)
(* The handlers of the one-byte opcodes, ops.c.  A handler is an operator  *)
(* on the machine whose instruction was fetched; the handlers of the eight *)
(* registers, and the byte, word and long forms, are one operator each.    *)
(***************************************************************************)
EXTENDS EmuDecode

Width(m, i) == IF i.byte THEN ByteBits ELSE DataWidth(m)
\* The immediate of a byte is extended to the width of the operation.
Imm(i, w) == IF i.form = "b" /\ w # ByteBits
             THEN SignExtend(Trunc(i.imm, ByteBits), ByteBits, w) ELSE Trunc(i.imm, w)

With(m, fl)       == [m EXCEPT !.fl = fl]
PutAns(m, w, n, a) == Put(With(m, a.fl), w, n, a.v)

(***************************************************************************)
(* The eight two-operand operations.                                       *)
(***************************************************************************)
OpA(n, w, d, s, fl) ==
  CASE n = 0 -> Add(w, d, s, fl)   [] n = 1 -> OrOp(w, d, s, fl)
    [] n = 2 -> Adc(w, d, s, fl)   [] n = 3 -> Sbb(w, d, s, fl)
    [] n = 4 -> AndOp(w, d, s, fl) [] n = 5 -> Sub(w, d, s, fl)
    [] n = 6 -> XorOp(w, d, s, fl) [] n = 7 -> Cmp(w, d, s, fl)

\* With the operand of the modrm byte as the destination; cmp stores nothing.
OntoRm(m, i, w, s) ==
  LET a == OpA(i.alu, w, Rm(m, i, w), s, m.fl)
      n == With(AtRm(m, i, w), a.fl)
  IN  IF i.alu = 7 THEN n ELSE SetRm(n, i, w, a.v)

OpA_RM_R(m, i)   == LET w == Width(m, i) IN OntoRm(m, i, w, Get(m, w, i.reg))
OpA_R_RM(m, i)   == LET w == Width(m, i)
                    IN  PutAns(AtRm(m, i, w), w, i.reg,
                               OpA(i.alu, w, Get(m, w, i.reg), Rm(m, i, w), m.fl))
OpA_A_IMM(m, i)  == LET w == Width(m, i)
                    IN  PutAns(m, w, EAX, OpA(i.alu, w, Get(m, w, EAX), Imm(i, w), m.fl))
OpA_RM_IMM(m, i) == LET w == Width(m, i) IN OntoRm(m, i, w, Imm(i, w))

Test_RM(m, i, w, s) == With(AtRm(m, i, w), TestOp(w, Rm(m, i, w), s, m.fl).fl)
Test_RM_R(m, i)  == LET w == Width(m, i) IN Test_RM(m, i, w, Get(m, w, i.reg))
Test_A_IMM(m, i) == LET w == Width(m, i)
                    IN  With(m, TestOp(w, Get(m, w, EAX), Imm(i, w), m.fl).fl)

IncReg(m, i) == LET w == DataWidth(m) IN PutAns(m, w, i.reg, Inc(w, Get(m, w, i.reg), m.fl))
DecReg(m, i) == LET w == DataWidth(m) IN PutAns(m, w, i.reg, Dec(w, Get(m, w, i.reg), m.fl))

DaaAL(m, i) == PutAns(m, ByteBits, EAX, Daa(Get(m, ByteBits, EAX), m.fl))
DasAL(m, i) == PutAns(m, ByteBits, EAX, Das(Get(m, ByteBits, EAX), m.fl))
AaaAX(m, i) == PutAns(m, WordBits, EAX, Aaa(Get(m, WordBits, EAX), m.fl))
AasAX(m, i) == PutAns(m, WordBits, EAX, Aas(Get(m, WordBits, EAX), m.fl))

\* Multiplication by an immediate keeps the lower half of the product.
ImulInto(m, w, n, d, s) ==
  LET p == ImulDirect(w, d, s)
  IN  Put(With(m, MulFlags(p.lo = 0 /\ p.hi = 0, p.lo, w, Overflow(m.fl, p.wide))), w, n, p.lo)
Imul_word_IMM(m, i) == LET w == DataWidth(m)
                       IN  ImulInto(AtRm(m, i, w), w, i.reg, Rm(m, i, w), Imm(i, w))
Imul_byte_IMM(m, i) == LET w == DataWidth(m)
                       IN  ImulInto(AtRm(m, i, w), w, i.reg, Rm(m, i, w), Imm(i, w))

(***************************************************************************)
(* The stack.                                                              *)
(***************************************************************************)
PopSeg(m, s) == SetSeg(Pop(m, DataWidth(m)), s, Trunc(Top(m, DataWidth(m)), WordBits))
PushSeg(m, s) == Push(m, DataWidth(m), m.seg[s].sel)

PushReg(m, i) == LET w == DataWidth(m) IN Push(m, w, Get(m, w, i.reg))
PopReg(m, i)  == LET w == DataWidth(m) IN Put(Pop(m, w), w, i.reg, Top(m, w))
Push_word_IMM(m, i) == LET w == DataWidth(m) IN Push(m, w, Imm(i, w))
Push_byte_IMM(m, i) == LET w == DataWidth(m) IN Push(m, w, Imm(i, w))

\* All eight registers, with the stack pointer as it was before.
Push_all(m, i) ==
  LET w == DataWidth(m)
      p[k \in 0 .. 8] == IF k = 0 THEN m ELSE Push(p[k - 1], w, Get(m, w, k - 1))
  IN  p[8]

\* A mutant: the stack pointer on the stack is loaded.
PopsStackPointer(m, i) ==
  LET w == DataWidth(m)
      p[n \in 0 .. 8] == IF n = 8 THEN m ELSE Put(Pop(p[n + 1], w), w, n, Top(p[n + 1], w))
  IN  p[0]

\* The stack pointer on the stack is skipped, in the width of the data.
Pop_all(m, i) ==
  LET w == DataWidth(m)
      p[n \in 0 .. 8] ==
        IF n = 8 THEN m
        ELSE IF n = ESP THEN Put(p[n + 1], w, ESP, Trunc(Get(p[n + 1], w, ESP) + Bytes(w), w))
        ELSE Put(Pop(p[n + 1], w), w, n, Top(p[n + 1], w))
  IN  p[0]

\* The address is that before the pop.
Pop_RM(m, i) ==
  LET w == DataWidth(m)
  IN  IF i.reg # 0 THEN UD(m) ELSE SetRm(Pop(m, w), i, w, Top(m, w))

Pushf(m, i) == Push(m, DataWidth(m), FlagsWord(m.fl))
Popf(m, i)  == LET w == DataWidth(m) IN With(Pop(m, w), FlagsOf(Top(m, w)))

\* Only the flags of the lowest byte.
LowFlags == {f \in Flags : FlagBit[f] < ByteBits}
Sahf(m, i) == With(m, (m.fl \ LowFlags) \cup (FlagsOf(Get(m, ByteBits, 4)) \cap LowFlags))
Lahf(m, i) == Put(m, ByteBits, 4, FlagsWord(m.fl \cap LowFlags))

(***************************************************************************)
(* Moves.                                                                  *)
(***************************************************************************)
Xchg_RM_R(m, i) ==
  LET w == Width(m, i)
      n == SetRm(AtRm(m, i, w), i, w, Get(m, w, i.reg))
  IN  Put(n, w, i.reg, Rm(m, i, w))

Xchg_AX(m, i) ==
  LET w == DataWidth(m)
  IN  Put(Put(m, w, EAX, Get(m, w, i.reg)), w, i.reg, Get(m, w, EAX))

Mov_RM_R(m, i) == LET w == Width(m, i) IN SetRm(m, i, w, Get(m, w, i.reg))
Mov_R_RM(m, i) == LET w == Width(m, i) IN Put(AtRm(m, i, w), w, i.reg, Rm(m, i, w))

\* A register gets the selector in the width of the data, memory a word.
Mov_RM_SR(m, i) == LET w == IF i.mod = 3 THEN DataWidth(m) ELSE WordBits
                   IN  SetRm(AtSeg(m, i), i, w, m.seg[SegOf(i)].sel)
Mov_SR_RM(m, i) == SetSeg(AtRm(AtSeg(m, i), i, WordBits), SegOf(i), Rm(m, i, WordBits))

Lea(m, i) == IF i.mod = 3 THEN UD(m)
             ELSE LET w == DataWidth(m) IN Put(Located(m, i), w, i.reg, Trunc(m.ea.ofs, w))

Mov_A_M(m, i) == LET w == Width(m, i)
                     a == Trunc(i.imm, AddrWidth(m))
                 IN  Put(Touch(m, DataSegment(m), a, w), w, EAX, Peek(m, DataSegment(m), a, w))
Mov_M_A(m, i) == LET w == Width(m, i)
                 IN  Poke(m, DataSegment(m), Trunc(i.imm, AddrWidth(m)), w, Get(m, w, EAX))

Mov_byte_IMM(m, i) == Put(m, ByteBits, i.reg, Imm(i, ByteBits))
Mov_word_IMM(m, i) == Put(m, DataWidth(m), i.reg, Imm(i, DataWidth(m)))

Cbw(m, i) == LET w == DataWidth(m)
             IN  Put(m, w, EAX, SignExtend(Get(m, w \div 2, EAX), w \div 2, w))
Cwd(m, i) == LET w == DataWidth(m)
             IN  Put(m, w, EDX, IF Bit(Get(m, w, EAX), w - 1) THEN Ones(w) ELSE 0)

(***************************************************************************)
(* String instructions.  Step does one element.                            *)
(***************************************************************************)
Repeats(m) == m.mode \cap {"REPE", "REPNE"} # {}
\* A mutant: the direction flag is not looked at.
AlwaysUp(m, n) == n
Delta(m, n) == IF "DF" \in m.fl THEN -n ELSE n
Index(m, n) == Get(m, AddrWidth(m), n)
MoveIndex(m, n, d) == Put(m, AddrWidth(m), n, Trunc(Index(m, n) + d, AddrWidth(m)))

\* movs, stos, lods, ins and outs clear the count first and then loop.
Counted(m, Step(_)) ==
  LET n == IF Repeats(m) THEN Index(m, ECX) ELSE 1
      m0 == IF Repeats(m) THEN Put(m, AddrWidth(m), ECX, 0) ELSE m
      at[k \in 0 .. n] == IF k = 0 THEN m0 ELSE Step(at[k - 1])
  IN  at[n]

\* cmps and scas count down and stop when the condition 5 or 4 holds.
Compared(m, Step(_)) ==
  LET n == Index(m, ECX)
      cond == IF "REPE" \in m.mode THEN 5 ELSE 4
      at[k \in 0 .. n] == IF k = 0 THEN m
                          ELSE Put(Step(at[k - 1]), AddrWidth(m), ECX, n - k)
      ends == {k \in 1 .. n : EvalCondition(cond, at[k].fl)}
  IN  IF ~Repeats(m) THEN Step(m)
      ELSE IF ends = {} THEN at[n] ELSE at[CHOOSE k \in ends : \A j \in ends : k <= j]

MovsStep(m, w) ==
  LET s == DataSegment(m)
      n == Poke(Touch(m, s, Index(m, ESI), w), ES, Index(m, EDI), w, Peek(m, s, Index(m, ESI), w))
  IN  MoveIndex(MoveIndex(n, ESI, Delta(m, Bytes(w))), EDI, Delta(m, Bytes(w)))
CmpsStep(m, w) ==
  LET s == DataSegment(m)
      a == Cmp(w, Peek(m, s, Index(m, ESI), w), Peek(m, ES, Index(m, EDI), w), m.fl)
      n == With(Touch(Touch(m, s, Index(m, ESI), w), ES, Index(m, EDI), w), a.fl)
  IN  MoveIndex(MoveIndex(n, ESI, Delta(m, Bytes(w))), EDI, Delta(m, Bytes(w)))
StosStep(m, w) ==
  MoveIndex(Poke(m, ES, Index(m, EDI), w, Get(m, w, EAX)), EDI, Delta(m, Bytes(w)))
LodsStep(m, w) ==
  LET s == DataSegment(m)
  IN  MoveIndex(Put(Touch(m, s, Index(m, ESI), w), w, EAX, Peek(m, s, Index(m, ESI), w)),
                ESI, Delta(m, Bytes(w)))
ScasStep(m, w) ==
  LET a == Cmp(w, Get(m, w, EAX), Peek(m, ES, Index(m, EDI), w), m.fl)
  IN  MoveIndex(With(Touch(m, ES, Index(m, EDI), w), a.fl), EDI, Delta(m, Bytes(w)))

\* ins and outs move by one, whatever the width of the element is.
InsStep(m, w)  == MoveIndex(Poke(m, ES, Index(m, EDI), w, In(w)), EDI, Delta(m, 1))
OutsStep(m, w) ==
  LET n == Touch(m, ES, Index(m, ESI), w)
  IN  IF Repeats(m) THEN MoveIndex(n, ESI, Delta(m, 1))
      ELSE Put(n, WordBits, ESI, Trunc(Get(m, WordBits, ESI) + Delta(m, 1), WordBits))

Movs(m, i) == LET S(n) == MovsStep(n, Width(m, i)) IN Counted(m, S)
Stos(m, i) == LET S(n) == StosStep(n, Width(m, i)) IN Counted(m, S)
Lods(m, i) == LET S(n) == LodsStep(n, Width(m, i)) IN Counted(m, S)
Ins(m, i)  == LET S(n) == InsStep(n, Width(m, i))  IN Counted(m, S)
Outs(m, i) == LET S(n) == OutsStep(n, Width(m, i)) IN Counted(m, S)
Cmps(m, i) == LET S(n) == CmpsStep(n, Width(m, i)) IN Compared(m, S)
Scas(m, i) == LET S(n) == ScasStep(n, Width(m, i)) IN Compared(m, S)

(***************************************************************************)
(* Rotates and shifts, by an immediate, by one or by CL.                   *)
(***************************************************************************)
OpB(n, w, d, s, fl) ==
  CASE n = 0 -> Rol(w, d, s, fl) [] n = 1 -> Ror(w, d, s, fl)
    [] n = 2 -> Rcl(w, d, s, fl) [] n = 3 -> Rcr(w, d, s, fl)
    [] n \in {4, 6} -> Shl(w, d, s, fl)
    [] n = 5 -> ShrOp(w, d, s, fl) [] n = 7 -> Sar(w, d, s, fl)

ShiftRm(m, i, s) ==
  LET w == Width(m, i)
      a == OpB(i.alu, w, Rm(m, i, w), s, m.fl)
  IN  SetRm(With(AtRm(m, i, w), a.fl), i, w, a.v)

Shift_IMM(m, i) == ShiftRm(m, i, Trunc(i.imm, ByteBits))
Shift_1(m, i)   == ShiftRm(m, i, 1)
Shift_CL(m, i)  == ShiftRm(m, i, Get(m, ByteBits, ECX))

(***************************************************************************)
(* Control transfer.                                                       *)
(***************************************************************************)
\* A mutant: the target is relative to the start of the instruction.
FromStart(m, i) == Trunc(m.seip + SignExtend(Trunc(i.imm, ByteBits), ByteBits, LongBits), DataWidth(m))

\* A branch: the target is cut to 16 bits when the data are.
Target(m, i) ==
  LET d == SignExtend(Trunc(i.imm, ByteBits), ByteBits, LongBits)
  IN  Trunc(m.eip + d, DataWidth(m))

Jump_short_cc(m, i) == IF EvalCondition(i.cc, m.fl) THEN Goto(m, Target(m, i)) ELSE m

\* The loops count in the width of the data, not of the address.
CountDown(m) == Put(m, DataWidth(m), ECX, Trunc(Get(m, DataWidth(m), ECX) - 1, DataWidth(m)))
LoopIf(m, i, cond) ==
  LET n == CountDown(m)
  IN  IF Get(n, DataWidth(n), ECX) # 0 /\ cond THEN Goto(n, Target(m, i)) ELSE n
Loopne(m, i) == LoopIf(m, i, "ZF" \notin m.fl)
Loope(m, i)  == LoopIf(m, i, "ZF" \in m.fl)
Loop(m, i)   == LoopIf(m, i, TRUE)
Jcxz(m, i)   == IF Get(m, DataWidth(m), ECX) = 0 THEN Goto(m, Target(m, i)) ELSE m

\* The arguments are dropped in the width of the data, not of the stack.
Drop(m, n) == LET w == DataWidth(m) IN Put(m, w, ESP, Trunc(Get(m, w, ESP) + n, w))

Ret_near(m, i)     == LET w == DataWidth(m) IN Goto(Pop(m, w), Top(m, w))
Ret_near_IMM(m, i) == Drop(Ret_near(m, i), Trunc(i.imm, WordBits))

FarReturn(m, n) ==
  LET w  == DataWidth(m)
      m1 == Pop(m, w)
      m2 == Drop(Pop(m1, w), n)
  IN  Goto(SetSeg(m2, CS, Trunc(Top(m1, w), WordBits)), Top(m, w))
Ret_far(m, i)     == FarReturn(m, 0)
Ret_far_IMM(m, i) == FarReturn(m, Trunc(i.imm, WordBits))

\* Three elements of the width of the data, whatever the interrupt pushed.
Iret(m, i) ==
  LET w  == DataWidth(m)
      m1 == Pop(m, w)
      m2 == Pop(m1, w)
      m3 == With(Pop(m2, w), FlagsOf(Top(m2, w)))
  IN  Goto(SetSeg(m3, CS, Trunc(Top(m1, w), WordBits)), Top(m, w))

FarCall(m, cs, eip) ==
  LET w == DataWidth(m)
      n == Push(Push(m, w, m.seg[CS].sel), w, m.eip)
  IN  Goto(SetSeg(n, CS, cs), eip)
Call_far_IMM(m, i) == FarCall(m, Trunc(i.imm2, WordBits), Trunc(i.imm, DataWidth(m)))

Int3(m, i)    == Soft(m, 3)
Int_IMM(m, i) == Soft(m, Trunc(i.imm, ByteBits))
Into(m, i)    == IF "OF" \in m.fl THEN Soft(m, 4) ELSE m

(***************************************************************************)
(* Frames.  The frame is as wide as the stack, its display as the data.    *)
(***************************************************************************)
Enter(m, i) ==
  LET s  == StackWidth(m)
      w  == DataWidth(m)
      n  == Trunc(i.imm2, 5)
      m0 == Push(m, s, Get(m, s, EBP))
      fp == StackTop(m0)
      Level(p) == LET q == Put(p, s, EBP, Trunc(Get(p, s, EBP) - Bytes(w), s))
                      b == Get(q, s, EBP)
                  IN  Push(Touch(q, SS, b, w), w, Peek(q, SS, b, w))
      at[k \in 0 .. n] == IF k <= 1 THEN m0 ELSE Level(at[k - 1])
      m1 == IF n = 0 THEN m0 ELSE Push(at[n], w, fp)
  IN  MoveStack(Put(m1, s, EBP, fp), -Trunc(i.imm, WordBits))

Leave(m, i) ==
  LET s == StackWidth(m)
      w == DataWidth(m)
      n == Put(m, s, ESP, Get(m, s, EBP))
  IN  Put(Pop(n, w), w, EBP, Top(n, w))

(***************************************************************************)
(* Far pointers and immediates to memory.                                  *)
(***************************************************************************)
LoadFar(m, i, s) ==
  LET w == DataWidth(m)
      To(n) == SetSeg(TouchData(n, Offset(m, Bytes(w)), WordBits), s,
                      PeekData(n, Offset(m, Bytes(w)), WordBits))
  IN  IF i.mod = 3 THEN UD(m) ELSE To(Put(AtRm(m, i, w), w, i.reg, Rm(m, i, w)))
Les(m, i) == LoadFar(m, i, ES)
Lds(m, i) == LoadFar(m, i, DS)

\* A mutant: the operand is stored although the instruction is illegal.
StoresAnyway(m, i) == SetRm(IF i.reg # 0 THEN UD(m) ELSE m, i, ByteBits, Imm(i, ByteBits))

Mov_byte_RM_IMM(m, i) == IF i.reg # 0 THEN UD(m) ELSE SetRm(m, i, ByteBits, Imm(i, ByteBits))
\* The word version raises the exception and stores its operand.
Mov_word_RM_IMM(m, i) ==
  LET w == DataWidth(m) IN SetRm(IF i.reg # 0 THEN UD(m) ELSE m, i, w, Imm(i, w))

(***************************************************************************)
(* The rest of the accumulator's instructions.                             *)
(***************************************************************************)
\* A base of zero raises the divide error and then divides by it.
AamAX(m, i) ==
  LET base == Trunc(i.imm, ByteBits)
  IN  IF base = 0 THEN [DIV0(m) EXCEPT !.host = "dead"]
      ELSE PutAns(m, WordBits, EAX, Aam(Get(m, ByteBits, EAX), base, m.fl))
AadAX(m, i) == PutAns(m, WordBits, EAX, Aad(Get(m, WordBits, EAX), Trunc(i.imm, ByteBits), m.fl))
Setalc(m, i) == Put(m, ByteBits, EAX, IF "CF" \in m.fl THEN Ones(ByteBits) ELSE 0)

\* The width of the address is that of the data.
Xlat(m, i) ==
  LET a == Trunc(Get(m, DataWidth(m), EBX) + Get(m, ByteBits, EAX), DataWidth(m))
  IN  Put(Touch(m, DataSegment(m), a, ByteBits), ByteBits, EAX, Peek(m, DataSegment(m), a, ByteBits))

(***************************************************************************)
(* Ports: none may be accessed, a read gives ones, a write has no effect.  *)
(***************************************************************************)
In_A(m, i)  == LET w == Width(m, i) IN Put(m, w, EAX, In(w))
Out_A(m, i) == m

(***************************************************************************)
(* Near and far branches, and the flags that have an instruction each.     *)
(***************************************************************************)
NearTarget(m, i) == Trunc(m.eip + Signed(Imm(i, DataWidth(m)), DataWidth(m)), DataWidth(m))
Call_near_IMM(m, i)  == Goto(Push(m, DataWidth(m), m.eip), NearTarget(m, i))
Jump_near_IMM(m, i)  == Goto(m, NearTarget(m, i))
Jump_far_IMM(m, i)   == Goto(SetSeg(m, CS, Trunc(i.imm2, WordBits)), Trunc(i.imm, DataWidth(m)))
Jump_byte_IMM(m, i)  == Goto(m, Target(m, i))

Nop(m, i) == m
Hlt(m, i) == Stop(m)
Illegal_op(m, i) == UD(m)
Cmc(m, i) == With(m, (m.fl \ {"CF"}) \cup ({"CF"} \ m.fl))
Clc(m, i) == With(m, m.fl \ {"CF"})
Stc(m, i) == With(m, m.fl \cup {"CF"})
Cli(m, i) == With(m, m.fl \ {"IF"})
Sti(m, i) == With(m, m.fl \cup {"IF"})
Cld(m, i) == With(m, m.fl \ {"DF"})
Std(m, i) == With(m, m.fl \cup {"DF"})

(***************************************************************************)
(* The groups of one operand: opcodes f6 and f7, fe, ff.                   *)
(***************************************************************************)
\* The accumulator pair: AH:AL for bytes, else the two registers.
AccLow(m, w)  == Get(m, w, EAX)
AccHigh(m, w) == IF w = ByteBits THEN Get(m, w, 4) ELSE Get(m, w, EDX)
PutPair(m, w, hi, lo) == Put(Put(m, w, EAX, lo), w, IF w = ByteBits THEN 4 ELSE EDX, hi)

\* What a quotient that the host cannot represent leads to is the build's.
Divided(m, w, a) ==
  CASE a.trap = "none" -> PutPair(With(m, a.fl), w, a.hi, a.lo)
    [] a.trap = "DIV0" -> DIV0(m)
    [] a.trap = "UNDEFINED" -> IF m.wraps THEN DIV0(m) ELSE [m EXCEPT !.host = "dead"]

UnaryRm(m, i) ==
  LET w == Width(m, i)
      d == Rm(m, i, w)
      n == AtRm(m, i, w)
      Back(fl, v) == SetRm(With(n, fl), i, w, v)
  IN  CASE i.reg \in {0, 1} -> With(n, TestOp(w, d, Imm(i, w), m.fl).fl)
        [] i.reg = 2 -> Back(m.fl, NotOp(w, d))
        [] i.reg = 3 -> LET a == Neg(w, d, m.fl) IN Back(a.fl, a.v)
        [] i.reg = 4 -> Divided(n, w, Mul(w, AccLow(m, w), d, m.fl))
        [] i.reg = 5 -> Divided(n, w, Imul(w, AccLow(m, w), d, m.fl))
        [] i.reg = 6 -> Divided(n, w, Div(w, AccHigh(m, w), AccLow(m, w), d, m.fl))
        [] i.reg = 7 -> Divided(n, w, Idiv(w, AccHigh(m, w), AccLow(m, w), d, m.fl))
OpcF6_byte_RM(m, i) == UnaryRm(m, i)
OpcF7_word_RM(m, i) == UnaryRm(m, i)

StepRm(m, i, w) ==
  LET a == IF i.reg = 0 THEN Inc(w, Rm(m, i, w), m.fl) ELSE Dec(w, Rm(m, i, w), m.fl)
  IN  SetRm(With(AtRm(m, i, w), a.fl), i, w, a.v)
OpcFE_byte_RM(m, i) == IF i.reg \in {0, 1} THEN StepRm(m, i, ByteBits) ELSE UD(m)

\* A call through a register reads it after the push: call esp is to the
\* stack pointer that has moved.  Memory is read before the push.
CallRm(m, i, w) ==
  LET n == Push(AtRm(m, i, w), w, m.eip)
  IN  Goto(n, IF i.mod = 3 THEN Get(n, w, i.rm) ELSE Rm(m, i, w))

\* The far pointer in memory: offset, then selector.
FarOf(m, i, w) == PeekData(InSegment(m), Offset(m, Bytes(w)), WordBits)
AtFar(m, i, w) == TouchData(AtRm(m, i, w), Offset(m, Bytes(w)), WordBits)

OpcFF_word_RM(m, i) ==
  LET w == DataWidth(m)
  IN  CASE i.reg \in {0, 1} -> StepRm(m, i, w)
        [] i.reg = 2 -> CallRm(m, i, w)
        [] i.reg = 3 -> IF i.mod = 3 THEN UD(m)
                        ELSE FarCall(AtFar(m, i, w), FarOf(m, i, w), Rm(m, i, w))
        [] i.reg = 4 -> Goto(AtRm(m, i, w), Rm(m, i, w))
        [] i.reg = 5 -> IF i.mod = 3 THEN UD(m)
                        ELSE Goto(SetSeg(AtFar(m, i, w), CS, FarOf(m, i, w)), Rm(m, i, w))
        [] i.reg = 6 -> Push(AtRm(m, i, w), w, Rm(m, i, w))
        [] i.reg = 7 -> UD(m)
=============================================================================
