---------------------------- MODULE MCArithmetic ----------------------------
(***************************************************************************)
(* Programs for Emulator: how instructions and machines are put together,  *)
(* and arithmetic on the operands at the boundaries of each width.         *)
(* Bytes have 6 bits and decimal digits go to 4, so a decimal digit fits   *)
(* in half a byte as it does in the source; the flags keep their order.    *)
(***************************************************************************)
EXTENDS EmuProperties
LOCAL INSTANCE FiniteSetsExt

MCFlagBit == "CF" :> 0 @@ "PF" :> 2 @@ "AF" :> 3 @@ "ZF" :> 4 @@ "SF" :> 5
             @@ "TF" :> 6 @@ "IF" :> 7 @@ "DF" :> 8 @@ "OF" :> 9
Origin  == 1024   \* where the code starts
Data    == 2048
StackAt == 3072
Vector(nr) == 512 + 16 * nr
GdtAt   == 900
IdtAt   == 700

MCDescriptors == GdtAt + 8 :> [sel |-> 8, base |-> 0, limit |-> Ones(LongBits), big |-> TRUE]
                 @@ GdtAt + 16 :> [sel |-> 16, base |-> 64, limit |-> 1023, big |-> FALSE]
MCGates == [a \in {IdtAt + 8 * nr : nr \in {0, 3, 4, 6, 13}} |-> [cs |-> 8, eip |-> Vector((a - IdtAt) \div 8)]]

(***************************************************************************)
(* Machines.  The vectors of the real mode lead to Vector(nr).             *)
(***************************************************************************)
Cells2(a, v) == a :> Trunc(v, ByteBits) @@ a + 1 :> Shr(v, ByteBits)
Vectors == Cells2(0, Vector(0)) @@ Cells2(12, Vector(3)) @@ Cells2(16, Vector(4))
           @@ Cells2(24, Vector(6)) @@ Cells2(52, Vector(13)) @@ Cells2(20, Vector(5))

Machine(code32, stack32, r, fl, mem) ==
  [r |-> r @@ [n \in 0 .. 7 |-> IF n = ESP THEN StackAt ELSE 0],
   eip |-> Origin, fl |-> fl,
   seg |-> [s \in 0 .. 6 |-> [Null EXCEPT !.limit = Ones(LongBits),
                              !.big = (s = CS /\ code32) \/ (s = SS /\ stack32)]],
   mode |-> {}, dseg |-> NOSEG, seip |-> Origin, scs |-> 0, len |-> 0, ea |-> [ofs |-> 0, ss |-> FALSE], intr |-> NoIntr,
   mem |-> mem @@ Vectors,
   cr |-> [n \in 0 .. 7 |-> 0], dr |-> [n \in 0 .. 7 |-> 0],
   gdt |-> [base |-> GdtAt, limit |-> 31], idt |-> [base |-> 0, limit |-> Ones(WordBits)],
   ldt |-> Null, tr |-> 0, msr |-> <<>>, xmm |-> [x \in 0 .. 7 |-> [k \in Lane |-> x + k]],
   line |-> [Address |-> 0, NumBytes |-> 0, ESP |-> 0, TOS |-> 0], tsc |-> 0,
   wraps |-> FALSE, host |-> "alive"]

(***************************************************************************)
(* Instructions.                                                           *)
(***************************************************************************)
Plain == [op |-> "Nop", pfx |-> {}, seg |-> NOSEG, two |-> FALSE, byte |-> FALSE, modrm |-> FALSE,
          mod |-> 3, reg |-> 0, rm |-> 0, scale |-> 0, index |-> ESP, sbase |-> EAX, disp |-> 0,
          form |-> "none", imm |-> 0, imm2 |-> 0, alu |-> 0, cc |-> 0, store |-> FALSE]
I(op)           == [Plain EXCEPT !.op = op]
Group(op, reg, rm) == [I(op) EXCEPT !.modrm = TRUE, !.reg = reg, !.rm = rm]
Two(i)          == [i EXCEPT !.two = TRUE]
Byte(i, b)      == [i EXCEPT !.byte = b]
WithImm(i, form, v) == [i EXCEPT !.form = form, !.imm = v]
At(i, mod, disp) == [i EXCEPT !.mod = mod, !.disp = disp]
Alu(i, n)       == [i EXCEPT !.alu = n]
Cc(i, n)        == [i EXCEPT !.cc = n]
Reg(op, n)      == [I(op) EXCEPT !.reg = n]
Pfx(i, p)       == [i EXCEPT !.pfx = p]
Far(i, eip, cs) == [i EXCEPT !.form = "zw", !.imm = eip, !.imm2 = cs]

\* A program; d, s and w are the operands and the width that it works on, cr
\* and seg what differs in the control and segment registers, scratch the
\* cells it may leave changed, handler the instructions at the vectors.
\* Every program ends by halting the processor.
Prog(kind, code, code32, r, fl) ==
  [kind |-> kind, code |-> code, code32 |-> code32, stack32 |-> code32, r |-> r, fl |-> fl,
   mem |-> <<>>, d |-> 0, s |-> 0, w |-> LongBits, wraps |-> FALSE,
   cr |-> <<>>, seg |-> <<>>, scratch |-> {}, handler |-> <<>>]

\* 16-bit code for word operands, 32-bit code for the others.
Wide(w)   == w # WordBits
Widths    == {ByteBits, WordBits, LongBits}
Carry(cf) == On("CF", cf)
\* The values at the boundaries of a width, by number.
Edge(w, k) == <<0, 1, 2 ^ (w - 1) - 1, 2 ^ (w - 1), 2 ^ w - 1, 21>>[k]
\* The bits of a register above the operand are not all 0.
Above(w, v) == IF w = LongBits THEN v ELSE v + 2 ^ w

(***************************************************************************)
(* Arithmetic on edge values, each family by its parameters.               *)
(***************************************************************************)
Arith(code, w, d, s, cf, r) ==
  [Prog("arith", code, Wide(w), r, Carry(cf)) EXCEPT !.d = d, !.s = s, !.w = w]

AluIds == {"alu"} \X Widths \X (1 .. 6) \X (1 .. 6) \X BOOLEAN \X (0 .. 7)
AluProg(w, x, y, cf, n) ==
  Arith(<<Alu(Byte(Group("OpA_RM_R", EBX, EAX), w = ByteBits), n)>>, w, Edge(w, x), Edge(w, y), cf,
        (EAX :> Above(w, Edge(w, x))) @@ (EBX :> Above(w, Edge(w, y))))

\* The other forms have the operand 5.
FormIds == {"form"} \X (0 .. 7) \X {0, 5, 4095} \X (1 .. 4)
FormProg(n, d, k) ==
  Arith(<<Alu(<<Group("OpA_R_RM", EAX, EBX), WithImm(I("OpA_A_IMM"), "z", 5),
                WithImm(Group("OpA_RM_IMM", 0, EAX), "b", 5),
                WithImm(Group("OpA_RM_IMM", 0, EAX), "z", 5)>>[k], n)>>,
        WordBits, d, 5, TRUE, (EAX :> d) @@ (EBX :> 5))

TestIds == {"test"} \X {0, 2, 7, 4095} \X (1 .. 3)
TestProg(d, k) ==
  Arith(<<<<Group("Test_RM_R", EBX, EAX), WithImm(I("Test_A_IMM"), "z", 5),
            WithImm(Group("OpcF7_word_RM", 0, EAX), "z", 5)>>[k]>>,
        WordBits, d, 5, FALSE, (EAX :> d) @@ (EBX :> 5))

StepIds == {"step"} \X Widths \X (1 .. 6) \X BOOLEAN \X (0 .. 1) \X BOOLEAN
StepProg(w, x, cf, n, short) ==
  Arith(<<IF w = ByteBits THEN Byte(Group("OpcFE_byte_RM", n, EAX), TRUE)
          ELSE IF short THEN Reg(IF n = 0 THEN "IncReg" ELSE "DecReg", EAX)
          ELSE Group("OpcFF_word_RM", n, EAX)>>, w, Edge(w, x), 1, cf, EAX :> Edge(w, x))

Opc(w) == IF w = ByteBits THEN "OpcF6_byte_RM" ELSE "OpcF7_word_RM"
UnaryIds == {"unary"} \X Widths \X (1 .. 6) \X {2, 3}
UnaryProg(w, x, n) ==
  Arith(<<Byte(Group(Opc(w), n, EAX), w = ByteBits)>>, w, Edge(w, x), 0, FALSE, EAX :> Edge(w, x))

\* Multiplication keeps its product below what the model checker can count.
Factor(w, k) == IF w = LongBits THEN <<0, 1, 5, 60, 2 ^ 15, 70>>[k] ELSE Edge(w, k)
MulIds == {"mul"} \X Widths \X (1 .. 6) \X (1 .. 6) \X {4, 5} \X BOOLEAN
MulProg(w, x, y, n, minus) ==
  LET d == Factor(w, x)
      s == IF minus THEN Trunc(-Factor(w, y), w) ELSE Factor(w, y)
      k == IF w = LongBits THEN 5 ELSE n
  IN  Arith(<<Byte(Group(Opc(w), k, EBX), w = ByteBits)>>, w, d, s, FALSE, (EAX :> d) @@ (EBX :> s))

ImulIds == {"imul"} \X (1 .. 6) \X (1 .. 3)
ImulProg(x, k) ==
  Arith(<<<<Two(Group("Imul_R_RM", EAX, EBX)), WithImm(Group("Imul_word_IMM", EAX, EBX), "z", 4094),
            WithImm(Group("Imul_byte_IMM", EAX, EBX), "b", 62)>>[k]>>,
        WordBits, Edge(WordBits, x), 4094, FALSE,
        (EAX :> 4094) @@ (EBX :> Edge(WordBits, x)))

\* The dividend is AX for bytes, else in two registers.
Dividend(w, hi, lo) == IF w = ByteBits THEN EAX :> hi * 2 ^ w + lo ELSE (EDX :> hi) @@ (EAX :> lo)
DivIds == {"div"} \X {ByteBits, WordBits} \X (1 .. 6) \X (1 .. 6) \X (1 .. 6) \X {6, 7} \X BOOLEAN
DivProg(w, x, y, z, n, b) ==
  [Arith(<<Byte(Group(Opc(w), n, EBX), w = ByteBits)>>, w, Edge(w, y), Edge(w, z), FALSE,
         Dividend(w, Edge(w, x), Edge(w, y)) @@ (EBX :> Edge(w, z))) EXCEPT !.wraps = b]
LongDivIds == {"longdiv"} \X {0, 1} \X {0, 7, 2 ^ 24 - 1} \X {0, 2, 3, 60} \X {6, 7}
LongDivProg(hi, lo, s, n) ==
  Arith(<<Group(Opc(LongBits), n, EBX)>>, LongBits, lo, s, FALSE,
        Dividend(LongBits, hi, lo) @@ (EBX :> s))

\* Extensions and bit scans: d is the operand, s the width it has.
ExtendIds == {"extend"} \X {WordBits, LongBits} \X (1 .. 6) \X (1 .. 8)
ExtendProg(w, x, k) ==
  LET from == <<w \div 2, w, ByteBits, WordBits, ByteBits, WordBits, w, w>>[k]
      d    == Edge(from, x)
      i    == <<I("Cbw"), I("Cwd"), Two(Group("Movsx_byte_R_RM", EAX, EBX)),
                Two(Group("Movsx_word_R_RM", EAX, EBX)), Two(Group("Movzx_byte_R_RM", EAX, EBX)),
                Two(Group("Movzx_word_R_RM", EAX, EBX)), Two(Group("Bsf", EAX, EBX)),
                Two(Group("Bsr", EAX, EBX))>>[k]
  IN  Arith(<<i>>, w, d, from, FALSE, (EBX :> Above(from, d)) @@ (EAX :> Above(from, d)))

(***************************************************************************)
(* Comparisons, each with the four kinds of conditional instructions.  A   *)
(* jump that is taken leaves out an instruction that clears the mark.      *)
(***************************************************************************)
CompareIds == {"compare"} \X Widths \X (1 .. 6) \X (1 .. 6) \X (0 .. 15) \X (1 .. 4)
Unmark == WithImm(Reg("Mov_word_IMM", ESI), "z", 0)
Conditional(k, cc, w) ==
  LET skip == IF Wide(w) THEN 5 ELSE 3
  IN  CASE k = 1 -> <<Cc(WithImm(I("Jump_short_cc"), "b", skip), cc), Unmark>>
        [] k = 2 -> <<Two(Cc(WithImm(I("Long_jump"), "z", skip), cc)), Unmark>>
        [] k = 3 -> <<Two(Cc(Group("Conditional_move", ESI, EDI), cc))>>
        [] k = 4 -> <<Two(Cc(Group("Set_byte", 0, EDX), cc)), Two(Group("Movzx_byte_R_RM", ESI, EDX))>>
CompareProg(w, x, y, cc, k) ==
  [Prog("compare", <<Alu(Byte(Group("OpA_RM_R", EBX, EAX), w = ByteBits), 7)>> \o Conditional(k, cc, w),
        Wide(w), (EAX :> Edge(w, x)) @@ (EBX :> Edge(w, y)) @@ (EDI :> 1)
                 @@ (ESI :> IF k <= 2 THEN 1 ELSE 0), {})
   EXCEPT !.d = Edge(w, x), !.s = Edge(w, y), !.w = w]

(***************************************************************************)
(* Decimal arithmetic on all pairs of two-digit numbers.                   *)
(***************************************************************************)
Pack(n)  == (n \div Ten) * 2 ^ Nibble + (n % Ten)
Decimal(code, d, s, cf, ax, bl) ==
  [Prog("decimal", code, TRUE, (EAX :> ax) @@ (EBX :> bl), Carry(cf)) EXCEPT !.d = d, !.s = s]
AddTo(n) == Alu(Byte(Group("OpA_RM_R", EBX, EAX), TRUE), n)

PackedIds == {"packed"} \X (0 .. Ten * Ten - 1) \X (0 .. Ten * Ten - 1) \X BOOLEAN \X BOOLEAN
PackedProg(d, s, cf, minus) ==
  Decimal(IF minus THEN <<AddTo(3), I("DasAL")>> ELSE <<AddTo(2), I("DaaAL")>>, d, s, cf, Pack(d), Pack(s))
UnpackedIds == {"unpacked"} \X (0 .. Ten - 1) \X (0 .. Ten - 1) \X {0, 2} \X BOOLEAN \X BOOLEAN
UnpackedProg(d, s, ah, cf, minus) ==
  Decimal(IF minus THEN <<AddTo(3), I("AasAX")>> ELSE <<AddTo(2), I("AaaAX")>>, d, s, cf,
          ah * 2 ^ ByteBits + d, s)
DigitIds == {"digits"} \X (0 .. 2 ^ ByteBits - 1) \X {0, 3, Ten} \X BOOLEAN
DigitProg(d, b, back) ==
  Decimal(IF back THEN <<WithImm(I("AamAX"), "b", b), WithImm(I("AadAX"), "b", b)>>
          ELSE <<WithImm(I("AamAX"), "b", b)>>, d, 0, FALSE, d, 0)

ArithmeticProgram(q) ==
  CASE q[1] = "alu" -> AluProg(q[2], q[3], q[4], q[5], q[6])
    [] q[1] = "form" -> FormProg(q[2], q[3], q[4])
    [] q[1] = "test" -> TestProg(q[2], q[3])
    [] q[1] = "step" -> StepProg(q[2], q[3], q[4], q[5], q[6])
    [] q[1] = "unary" -> UnaryProg(q[2], q[3], q[4])
    [] q[1] = "mul" -> MulProg(q[2], q[3], q[4], q[5], q[6])
    [] q[1] = "imul" -> ImulProg(q[2], q[3])
    [] q[1] = "div" -> DivProg(q[2], q[3], q[4], q[5], q[6], q[7])
    [] q[1] = "extend" -> ExtendProg(q[2], q[3], q[4])
    [] q[1] = "longdiv" -> LongDivProg(q[2], q[3], q[4], q[5])
    [] q[1] = "compare" -> CompareProg(q[2], q[3], q[4], q[5], q[6])
    [] q[1] = "packed" -> PackedProg(q[2], q[3], q[4], q[5])
    [] q[1] = "unpacked" -> UnpackedProg(q[2], q[3], q[4], q[5], q[6])
    [] q[1] = "digits" -> DigitProg(q[2], q[3], q[4])

ArithmeticIds == AluIds \cup FormIds \cup TestIds \cup StepIds \cup UnaryIds \cup MulIds \cup ImulIds
  \cup DivIds \cup LongDivIds \cup ExtendIds \cup CompareIds \cup PackedIds \cup UnpackedIds \cup DigitIds
=============================================================================
