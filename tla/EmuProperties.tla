---------------------------- MODULE EmuProperties ---------------------------
(***************************************************************************)
(* What the emulator promises, against definitions of its own: arithmetic  *)
(* on integers, digits and bits, the state that a pair of instructions     *)
(* restores, and the control flow that the operating system decodes.       *)
(* What an input is about is its task: the kind of promise, the operands d *)
(* and s and their width w, and the code in sequence.                      *)
(***************************************************************************)
EXTENDS Emulator, Numbers

Task      == program
The(k)    == Task.code[k]
Ended     == run \notin {"running", "out of budget"}
\* The first and the last machine of a program that ran off its end.
Start     == Task.machine
CarryIn   == IF "CF" \in Start.fl THEN 1 ELSE 0
Has(f)    == f \in m.fl
Num(f)    == IF Has(f) THEN 1 ELSE 0
Result    == Get(m, Task.w, EAX)

(***************************************************************************)
(* The programs that the first four promises below are about.  A machine   *)
(* starts one with words in its registers and no interrupt pending; the    *)
(* instructions of code lie one after the other, at the addresses eips,    *)
(* and a hlt lies behind them.                                             *)
(***************************************************************************)
Fields == {"r", "eip", "fl", "seg", "mode", "dseg", "seip", "scs", "len", "ea", "intr", "mem", "cr",
           "dr", "gdt", "idt", "ldt", "tr", "msr", "xmm", "line", "tsc", "wraps", "host"}
Fresh(n) == /\ DOMAIN n = Fields /\ n.r \in [0 .. 7 -> WordOf(LongBits)]
            /\ n.intr = NoIntr /\ n.host = "alive"

After(p, eip, i) == Fetched(Goto(p.machine, eip), i)
CodeAt(p, eip)   == LET a == Addr(p.machine, CS, eip) IN {p.at[b] : b \in DOMAIN p.at \cap {a}}
InSequence(p) ==
  LET n == Len(p.code)
  IN  /\ p.eips[1] = p.machine.eip
      /\ \A k \in 1 .. n : /\ CodeAt(p, p.eips[k]) = {p.code[k]}
                           /\ p.eips[k + 1] = After(p, p.eips[k], p.code[k]).eip
      /\ \E i \in CodeAt(p, p.eips[n + 1]) : i.op = "Hlt" /\ i.pfx = {}

\* Operands in registers, and no prefixes.
InRegisters(i) == i.mod = 3 /\ i.pfx = {}
WidthOf(p, i)  == CASE i.byte -> ByteBits
                    [] ~i.byte /\ p.machine.seg[CS].big -> LongBits
                    [] OTHER -> WordBits
Onto(i, op, rm, reg) == i.op = op /\ InRegisters(i) /\ i.rm = rm /\ i.reg = reg

\* One shift of EAX, double shifts from EBX.  Shifts are held to what they
\* promise for counts below the width, past which the emulator does not do
\* what the processor does; a long is not rotated through carry by all of
\* its bits, which the host's shifts leave undefined.
CountOf(p, i) == CASE i.op = "Shift_1" -> 1
                   [] i.op \in {"Shift_IMM", "Shld_IMM", "Shrd_IMM"} -> Trunc(i.imm, ByteBits)
                   [] i.op \in {"Shift_CL", "Shld_CL", "Shrd_CL"} -> Get(p.machine, ByteBits, ECX)
ShiftTask(p) ==
  LET i == p.code[1]
  IN  /\ Len(p.code) = 1 /\ InRegisters(i) /\ i.rm = EAX
      /\ \/ i.op \in {"Shift_IMM", "Shift_1", "Shift_CL"} /\ i.alu \in 0 .. 7
         \/ i.op \in {"Shld_IMM", "Shld_CL"} /\ i.alu = 8 /\ i.reg = EBX /\ ~i.byte
         \/ i.op \in {"Shrd_IMM", "Shrd_CL"} /\ i.alu = 9 /\ i.reg = EBX /\ ~i.byte
      /\ p.w = WidthOf(p, i) /\ p.d = Get(p.machine, p.w, EAX)
      /\ p.s = CountOf(p, i) /\ p.s \in WordOf(ByteBits)
      /\ i.alu \in 4 .. 9 => p.s < p.w
      /\ i.alu \in {2, 3} /\ p.w = LongBits => p.s % (p.w + 1) # p.w

\* AL and BL are added or subtracted and the result is adjusted, or AL is
\* split into digits, which are perhaps joined again.
Digits(x) == Shr(x, Nibble) < Ten /\ Trunc(x, Nibble) < Ten
DecimalTask(p) ==
  LET i == p.code[1]
      j == p.code[2]
      al == Get(p.machine, ByteBits, EAX)
      bl == Get(p.machine, ByteBits, EBX)
      sum == Onto(i, "OpA_RM_R", EAX, EBX) /\ i.byte /\ Len(p.code) = 2
             /\ i.alu = IF j.op \in {"DaaAL", "AaaAX"} THEN 2 ELSE 3
      digits == i.op = "AamAX" /\ i.imm \in WordOf(ByteBits)
  IN  /\ \A k \in 1 .. Len(p.code) : p.code[k].pfx = {}
      /\ \/ /\ sum /\ j.op \in {"DaaAL", "DasAL"}
            /\ Digits(al) /\ Digits(bl) /\ p.d = Packed(al) /\ p.s = Packed(bl)
         \/ /\ sum /\ j.op \in {"AaaAX", "AasAX"}
            /\ al < Ten /\ bl < Ten /\ p.d = al /\ p.s = bl
         \/ digits /\ Len(p.code) = 1 /\ p.d = al
         \/ digits /\ Len(p.code) = 2 /\ j.op = "AadAX" /\ j.imm = i.imm /\ p.d = al

\* A comparison of EAX with EBX; then a jump over an instruction that takes
\* the mark from ESI, or a move of it from EDI, or DL set and moved to ESI.
JumpsTo(p, i) ==
  LET n == After(p, p.eips[2], i)
      w == DataWidth(n)
      distance == IF i.op = "Jump_short_cc" THEN SignExtend(Trunc(i.imm, ByteBits), ByteBits, LongBits)
                  ELSE Signed(Imm(i, w), w)
  IN  Trunc(n.eip + distance, w)
CompareTask(p) ==
  LET i == p.code[1]
      j == p.code[2]
      k == p.code[3]
      mark == p.machine.r[ESI]
  IN  /\ Onto(i, "OpA_RM_R", EAX, EBX) /\ i.alu = 7
      /\ p.w = WidthOf(p, i) /\ p.d = Get(p.machine, p.w, EAX) /\ p.s = Get(p.machine, p.w, EBX)
      /\ j.cc \in 0 .. 15 /\ j.pfx = {}
      /\ \/ /\ j.op \in {"Jump_short_cc", "Long_jump"} /\ Len(p.code) = 3
            /\ k.op = "Mov_word_IMM" /\ k.pfx = {} /\ k.reg = ESI /\ k.form = "z" /\ k.imm = 0
            /\ mark = 1 /\ JumpsTo(p, j) = p.eips[4]
         \/ /\ Onto(j, "Conditional_move", EDI, ESI) /\ Len(p.code) = 2
            /\ mark = 0 /\ p.machine.r[EDI] = 1
         \/ /\ Onto(j, "Set_byte", EDX, 0) /\ Onto(k, "Movzx_byte_R_RM", EDX, ESI) /\ Len(p.code) = 3
            /\ mark = 0

\* One arithmetic instruction whose operands are EAX, EBX or an immediate.
\* When a division may fail, the program is in the real mode and the vector
\* of the divide error leads out of it.
DivideErrorLeaves(p) ==
  LET to == IdtLookup(p.machine, 0, 0, 0)
  IN  /\ ~Protected(p.machine)
      /\ Addr(Enters(p.machine, to), CS, to.eip) \notin DOMAIN p.at
      /\ \A i \in CodeAt(p, p.eips[2]) : After(p, p.eips[2], i).eip # to.eip
ArithTask(p) ==
  LET i == p.code[1]
      a == Get(p.machine, p.w, EAX)
      b == Get(p.machine, p.w, EBX)
      changes(ops) == i.op \in ops /\ InRegisters(i) /\ i.rm = EAX
      takes(ops)   == i.op \in ops /\ InRegisters(i) /\ i.rm = EBX
      loads(ops)   == takes(ops) /\ i.reg = EAX /\ ~i.byte
      unary == {"OpcF6_byte_RM", "OpcF7_word_RM"}
      of(d, s) == p.d = d /\ p.s = s
      given(d) == i.imm \in WordOf(LongBits) /\ of(d, Imm(i, p.w))
  IN  /\ Len(p.code) = 1 /\ i.pfx = {} /\ p.w = WidthOf(p, i)
      /\ \/ i.alu \in 0 .. 7 /\ of(a, b)
               /\ \/ changes({"OpA_RM_R"}) /\ i.reg = EBX
                  \/ takes({"OpA_R_RM"}) /\ i.reg = EAX
         \/ i.alu \in 0 .. 7 /\ given(a) /\ (i.op = "OpA_A_IMM" \/ changes({"OpA_RM_IMM"}))
         \/ changes({"Test_RM_R"}) /\ i.reg = EBX /\ of(a, b)
         \/ given(a) /\ (i.op = "Test_A_IMM" \/ (changes(unary) /\ i.reg = 0))
         \/ i.op \in {"IncReg", "DecReg"} /\ i.reg = EAX /\ ~i.byte /\ p.d = a
         \/ changes({"OpcFE_byte_RM", "OpcFF_word_RM"}) /\ i.reg \in {0, 1} /\ p.d = a
               /\ i.byte = (i.op = "OpcFE_byte_RM")
         \/ changes(unary) /\ i.reg \in {2, 3} /\ p.d = a
         \/ takes(unary) /\ i.reg \in {4, 5} /\ of(a, b)
         \/ takes(unary) /\ i.reg \in {6, 7} /\ p.s = b /\ DivideErrorLeaves(p)
         \/ loads({"Imul_R_RM"}) /\ of(b, a)
         \/ loads({"Imul_word_IMM", "Imul_byte_IMM"}) /\ given(b)
         \/ i.op = "Cbw" /\ ~i.byte /\ p.d = Get(p.machine, p.w \div 2, EAX)
         \/ i.op = "Cwd" /\ ~i.byte /\ p.d = a
         \/ loads({"Movsx_byte_R_RM", "Movzx_byte_R_RM"}) /\ of(Get(p.machine, ByteBits, EBX), ByteBits)
         \/ loads({"Movsx_word_R_RM", "Movzx_word_R_RM"}) /\ of(Get(p.machine, WordBits, EBX), WordBits)
         \/ loads({"Bsf", "Bsr"}) /\ p.d = b

ASSUME TasksAssumption ==
  /\ ~Disassemble
  /\ \A p \in Programs : p.kind \in {"arith", "shift", "decimal", "compare"}
                           => Fresh(p.machine) /\ InSequence(p)
  /\ \A p \in Programs : /\ p.kind = "arith" => ArithTask(p)
                         /\ p.kind = "shift" => ShiftTask(p)
                         /\ p.kind = "decimal" => DecimalTask(p)
                         /\ p.kind = "compare" => CompareTask(p)

(***************************************************************************)
(* Integers.                                                               *)
(***************************************************************************)
\* The result and the flags of x + y + c (or x - y - c) of unsigned operands.
CarryOf(fl) == IF "CF" \in fl THEN 1 ELSE 0
SumIs(fl, v, w, x, y, c) ==
  /\ v + CarryOf(fl) * 2 ^ w = x + y + c
  /\ "OF" \in fl <=> Signed(x, w) + Signed(y, w) + c \notin SignedRange(w)
DifferenceIs(fl, v, w, x, y, c) ==
  /\ v - CarryOf(fl) * 2 ^ w = x - y - c
  /\ "OF" \in fl <=> Signed(x, w) - Signed(y, w) - c \notin SignedRange(w)
BitwiseIs(fl, n, v, w, x, y) ==
  /\ fl \cap {"CF", "OF"} = {}
  /\ \A k \in 0 .. w - 1 :
       Bit(v, k) <=> CASE n = 1 -> Bit(x, k) \/ Bit(y, k)
                       [] n = 4 -> Bit(x, k) /\ Bit(y, k)
                       [] n = 6 -> Bit(x, k) # Bit(y, k)
ResultFlags(fl, v, w) ==
  /\ "ZF" \in fl <=> v = 0
  /\ "SF" \in fl <=> v >= 2 ^ (w - 1)

\* What operation n of d and s leaves: r in the register, fl in the flags;
\* old are the flags before it.
TwoOperands(n, w, d, s, old, r, fl) ==
  LET v == IF n = 7 THEN Trunc(d - s, w) ELSE r
  IN  /\ n = 7 => r = d
      /\ ResultFlags(fl, v, w)
      /\ n \in {0, 2} => SumIs(fl, v, w, d, s, IF n = 2 THEN CarryOf(old) ELSE 0)
      /\ n \in {3, 5, 7} => DifferenceIs(fl, v, w, d, s, IF n = 3 THEN CarryOf(old) ELSE 0)
      /\ n \in {1, 4, 6} => BitwiseIs(fl, n, v, w, d, s)

TestIs(w, d, s, r, fl) ==
  /\ r = d /\ fl \cap {"CF", "OF"} = {}
  /\ "ZF" \in fl <=> \A k \in 0 .. w - 1 : ~(Bit(d, k) /\ Bit(s, k))

OneOperand(sign, w, d, old, r, fl) ==
  /\ r = Trunc(d + sign, w)
  /\ CarryOf(fl) = CarryOf(old)
  /\ ResultFlags(fl, r, w)
  /\ "OF" \in fl <=> Signed(d, w) + sign \notin SignedRange(w)

\* The product is whole; the carry says whether its upper half matters.
ProductIs(product, w, upper, lower, fl, range) ==
  /\ upper * 2 ^ w + lower = product
  /\ CarryOf(fl) = (IF "OF" \in fl THEN 1 ELSE 0)
  /\ "CF" \in fl <=> product \notin range
UnsignedProductIs(w, d, s, upper, lower, fl) == ProductIs(d * s, w, upper, lower, fl, WordOf(w))
SignedProductIs(w, d, s, upper, lower, fl) ==
  ProductIs(Signed(d, w) * Signed(s, w), w, Signed(upper, w), lower, fl, SignedRange(w))
LowerProductIs(w, d, s, r, fl) ==
  LET p == Signed(d, w) * Signed(s, w)
  IN  r = Trunc(p, w) /\ ("CF" \in fl <=> p \notin SignedRange(w))

\* Either quotient and remainder are exact, or the divide error was raised
\* because there is no such quotient; the one dividend that the host cannot
\* divide, the least one by -1, depends on the build.
Upper(n, w) == IF w = ByteBits THEN Get(n, ByteBits, 4) ELSE Get(n, w, EDX)
Value(signed, x, w) == IF signed THEN Signed(x, w) ELSE x
DividendOf(signed, p) == Value(signed, Upper(p.machine, p.w), p.w) * 2 ^ p.w + Get(p.machine, p.w, EAX)
Least(signed, p) ==
  /\ signed /\ p.w # ByteBits
  /\ Signed(Upper(p.machine, p.w), p.w) = -(2 ^ (p.w - 1)) /\ Get(p.machine, p.w, EAX) = 0
  /\ Signed(p.s, p.w) = -1
NoQuotient(signed, p) ==
  LET dsr == Value(signed, p.s, p.w)
      dvd == DividendOf(signed, p)
  IN  dsr # 0 => \A x \in (IF signed THEN SignedRange(p.w) ELSE WordOf(p.w)) :
                   Magnitude(dvd - x * dsr) >= Magnitude(dsr)
Divides(signed, p, upper, lower) ==
  LET dsr == Value(signed, p.s, p.w)
      rem == Value(signed, upper, p.w)
      dvd == DividendOf(signed, p)
  IN  /\ dsr # 0
      /\ Value(signed, lower, p.w) * dsr + rem = dvd
      /\ Magnitude(rem) < Magnitude(dsr)
      /\ rem # 0 => (rem < 0) = (dvd < 0)

Interrupted(p, n, nr) == n.eip = IdtLookup(p.machine, nr, 0, 0).eip
QuotientIs(signed, p, n, dead) ==
  CASE Least(signed, p) -> dead \/ Interrupted(p, n, 0)
    [] ~Least(signed, p) /\ Interrupted(p, n, 0) -> NoQuotient(signed, p)
    [] OTHER -> ~dead /\ Divides(signed, p, Upper(n, p.w), Get(n, p.w, EAX))

\* What the machine n holds when a program p of one arithmetic instruction
\* has ended.
Computes(p, n, dead) ==
  LET i == p.code[1]
      w == p.w
      d == p.d
      s == p.s
      r == Get(n, w, EAX)
      old == p.machine.fl
      unary == i.op \in {"OpcF6_byte_RM", "OpcF7_word_RM"}
  IN  CASE i.op \in {"OpA_RM_R", "OpA_R_RM", "OpA_A_IMM", "OpA_RM_IMM"} ->
             TwoOperands(i.alu, w, d, s, old, r, n.fl)
        [] i.op \in {"Test_RM_R", "Test_A_IMM"} \/ (unary /\ i.reg = 0) -> TestIs(w, d, s, r, n.fl)
        [] i.op = "IncReg" -> OneOperand(1, w, d, old, r, n.fl)
        [] i.op = "DecReg" -> OneOperand(-1, w, d, old, r, n.fl)
        [] i.op \in {"OpcFE_byte_RM", "OpcFF_word_RM"} ->
             OneOperand(IF i.reg = 0 THEN 1 ELSE -1, w, d, old, r, n.fl)
        [] unary /\ i.reg = 2 -> r + d = 2 ^ w - 1 /\ n.fl = old
        [] unary /\ i.reg = 3 -> DifferenceIs(n.fl, r, w, 0, d, 0) /\ ResultFlags(n.fl, r, w)
        [] unary /\ i.reg = 4 -> UnsignedProductIs(w, d, s, Upper(n, w), r, n.fl)
        [] unary /\ i.reg = 5 -> SignedProductIs(w, d, s, Upper(n, w), r, n.fl)
        [] unary /\ i.reg = 6 -> QuotientIs(FALSE, p, n, dead)
        [] unary /\ i.reg = 7 -> QuotientIs(TRUE, p, n, dead)
        [] i.op \in {"Imul_R_RM", "Imul_word_IMM", "Imul_byte_IMM"} -> LowerProductIs(w, d, s, r, n.fl)
        [] i.op = "Cbw" -> Signed(r, w) = Signed(d, w \div 2)
        [] i.op = "Cwd" -> Signed(Get(n, w, EDX), w) * 2 ^ w + r = Signed(d, w)
        [] i.op \in {"Movsx_byte_R_RM", "Movsx_word_R_RM"} -> Signed(r, w) = Signed(d, s)
        [] i.op \in {"Movzx_byte_R_RM", "Movzx_word_R_RM"} -> r = d
        [] i.op = "Bsf" -> d # 0 => Bit(d, r) /\ \A k \in 0 .. r - 1 : ~Bit(d, k)
        [] i.op = "Bsr" -> d # 0 => Bit(d, r) /\ Shr(d, r + 1) = 0

\* Every arithmetic instruction computes the integer it names, in the flags
\* what does not fit the width, and divides exactly or not at all.  Sign and
\* zero extension keep the integer, the bit scans find the outermost bit.
ArithmeticIsExact == (Task.kind = "arith" /\ Ended) => Computes(Task, m, run = "dead")

(***************************************************************************)
(* Comparisons.  The second instruction is a conditional one; it marks ESI *)
(* with 1 exactly when its condition was found to hold.                    *)
(***************************************************************************)
ConditionHolds(p) == Relation(p.code[2].cc, p.w, p.d, p.s)

\* The signed conditions of cmov are wrong when the difference is too large
\* for its width, which leaves both SF and OF on.
MovesWrongly(p) ==
  /\ p.code[2].op = "Conditional_move" /\ p.code[2].cc \in 12 .. 15
  /\ Signed(p.d, p.w) - Signed(p.s, p.w) >= 2 ^ (p.w - 1)

\* Conditional jumps, moves and sets all decide what the comparison before
\* them compared: signed, unsigned, equality, sign and parity, at any width.
\* Only where MovesWrongly, a move is done when the condition does not hold
\* and left out when it holds.
ComparisonsDecide ==
  (Task.kind = "compare" /\ Ended) =>
    (m.r[ESI] = 1 <=> IF MovesWrongly(Task) THEN ~ConditionHolds(Task) ELSE ConditionHolds(Task))

\* cmov moves exactly when the condition that it is named for holds, as the
\* jumps and sets of the same number do (OP_DECODE of conditional_move and
\* the comments of eval_condition).
MovesDecide ==
  (Task.kind = "compare" /\ The(2).op = "Conditional_move" /\ Ended) =>
    (m.r[ESI] = 1 <=> ConditionHolds(Task))

(***************************************************************************)
(* Decimal arithmetic.                                                     *)
(***************************************************************************)
\* Binary addition or subtraction followed by the decimal adjustment is
\* decimal addition or subtraction, with the carry of the tens; aaa and aas
\* carry into AH; aam splits a number into digits and aad joins them again.
DecimalIsExact ==
  (Task.kind = "decimal" /\ Ended) =>
    LET i   == The(Len(Task.code))
        al  == Get(m, ByteBits, EAX)
        ah  == Get(m, ByteBits, 4)
        ah0 == Get(Start, ByteBits, 4)
        sum == Task.d + Task.s + CarryIn
        dif == Task.d - Task.s - CarryIn
    IN  CASE i.op = "DaaAL" -> Packed(al) + Num("CF") * Ten * Ten = sum
          [] i.op = "DasAL" -> Packed(al) - Num("CF") * Ten * Ten = dif
          [] i.op = "AaaAX" -> Trunc(ah - ah0, ByteBits) * Ten + al = sum
          [] i.op = "AasAX" -> Trunc(ah0 - ah, ByteBits) * Ten = al - dif
          [] i.op = "AamAX" -> IF i.imm = 0 THEN run = "dead"
                               ELSE ah * i.imm + al = Task.d /\ al < i.imm
          [] i.op = "AadAX" -> al = Task.d

(***************************************************************************)
(* Rotates and shifts, bit by bit.  Count and operand are s and d.         *)
(***************************************************************************)
\* Every rotate and shift moves each bit by its count, rotates through the
\* carry as through one more bit, and leaves the last bit that went out in
\* the carry; a count of zero leaves the carry alone.  Shifts are held to it
\* for counts below the width: the emulator does not reduce a count to five
\* bits, and past the width it does not do what the processor does.
ShiftsMoveBits ==
  (Task.kind = "shift" /\ Ended) =>
    LET n     == The(1).alu
        fill  == Get(Start, Task.w, EBX)
        carry == CarryIn = 1
    IN  /\ \A k \in 0 .. Task.w - 1 :
             Bit(Result, k) <=> ShiftedBit(n, Task.w, Task.d, fill, Task.s, carry, k)
        /\ Task.s = 0 => Num("CF") = CarryIn
        /\ Task.s # 0 => (Has("CF") <=> ShiftedCarry(n, Task.w, Task.d, Task.s, carry))

(***************************************************************************)
(* Instructions that undo each other.                                      *)
(***************************************************************************)
\* Memory is the same where the program may not leave anything behind: the
\* stack below its top, and the scratch cells of those that store.
SameMemory(a, b) ==
  \A c \in DOMAIN a.mem \cup DOMAIN b.mem :
    c \in Task.scratch \/ ByteAt(a, c) = ByteAt(b, c)
SystemState(n) == <<[s \in 0 .. 5 |-> n.seg[s]], n.gdt, n.idt, n.ldt, n.tr, n.cr, n.xmm>>
ArithmeticFlagsChange ==
  \E k \in 1 .. Len(Task.code) :
    \/ The(k).op \in ArithmeticOps \cup ShiftOps \cup BitOps
    \/ The(k).op = "OpcFF_word_RM" /\ The(k).reg \in {0, 1}

\* Pairs that the emulator does not bring back to where they started.
NotUndone ==
  LET mode   == PrefixedMode(ModeOf(Start), The(1).pfx)
      all    == {The(k) : k \in 1 .. Len(Task.code)}
      memory == {i \in all : i.modrm /\ i.mod # 3 /\ "ADDR32" \in mode}
  IN  \* enter saves EBP in the width of the stack, leave restores the data's.
      \/ (\E i \in all : i.op = "Enter") /\ ("DATA32" \in mode) # ("STACK32" \in mode)
      \* The address [EBP + disp8] is in DS, [EBP + disp32] in SS.
      \/ (\E i \in memory : i.rm = EBP /\ i.mod = 1) /\ Start.seg[SS].base # Start.seg[DS].base
      \* pop takes an address relative to ESP before the stack pointer moves.
      \/ \E i \in memory : i.op = "Pop_RM" /\ i.rm = ESP /\ i.sbase = ESP
      \* A 128-bit store swaps its operands and stores one byte of sixteen.
      \/ \E i \in all : i.op = "movups" /\ i.store

\* Push and pop, call and return, an interrupt and iret, enter and leave,
\* the same exchange by two encodings of an address, rotating and rotating
\* back, storing and loading system registers: after both, every register,
\* segment, flag and byte of memory is what it was.
PairsUndo ==
  (Task.kind = "inverse" /\ Ended) =>
    \/ NotUndone
    \/ /\ run = "halted"
       /\ m.r = Start.r
       /\ ArithmeticFlagsChange \/ m.fl = Start.fl
       /\ SystemState(m) = SystemState(Start)
       /\ SameMemory(m, Start)

(***************************************************************************)
(* String instructions.                                                    *)
(***************************************************************************)
StringWidth == IF The(1).byte THEN ByteBits ELSE DataWidth(m)
Sign        == IF "DF" \in Start.fl THEN -1 ELSE 1
Stride      == IF The(1).op \in {"Ins", "Outs"} THEN 1 ELSE Bytes(StringWidth)
Source(k)   == PeekAt(Start, Start.r[ESI] + Sign * k * Stride, StringWidth)
Place(k)    == Start.r[EDI] + Sign * k * Stride
Before(k)   == PeekAt(Start, Place(k), StringWidth)
Asked       == IF The(1).pfx \cap {"REPE", "REPNE"} = {} THEN 1 ELSE Start.r[ECX]

\* Where cmps and scas stop: the first element that compares unequal under
\* REPE, equal under REPNE.
Compares(k) == IF The(1).op = "Cmps" THEN Source(k) = Before(k)
               ELSE Get(Start, StringWidth, EAX) = Before(k)
Finds(k)    == Compares(k) # ("REPE" \in The(1).pfx)
Hits        == {k \in 0 .. Asked - 1 : Finds(k)}
Done        == IF The(1).op \notin {"Cmps", "Scas"} \/ Hits = {} \/ The(1).pfx = {} THEN Asked
               ELSE 1 + CHOOSE k \in Hits : \A j \in Hits : k <= j

\* Element k as movs copies it: a source that an earlier element was copied
\* to has that element.
Lag == (Sign * (Start.r[EDI] - Start.r[ESI])) \div Stride
Moved[k \in Nat] == IF Lag > 0 /\ k >= Lag THEN Moved[k - Lag] ELSE Source(k)

Stored(k) == CASE The(1).op = "Movs" -> Moved[k]
               [] The(1).op = "Stos" -> Get(Start, StringWidth, EAX)
               [] The(1).op = "Ins"  -> Ones(StringWidth)
               [] OTHER -> Before(k)

\* The number of elements, the registers, the elements in memory and the
\* outcome of the search are those of the whole string, in either direction,
\* when source and destination overlap, and for an empty string.
StringsAreExact ==
  (Task.kind = "string" /\ Ended) =>
    LET op == The(1).op
        n  == Done
        moved == (IF op \in {"Movs", "Cmps", "Lods", "Outs"} THEN {ESI} ELSE {})
                 \cup (IF op \in {"Movs", "Cmps", "Stos", "Scas", "Ins"} THEN {EDI} ELSE {})
    IN  /\ \A r \in {ESI, EDI} :
             m.r[r] = Start.r[r] + (IF r \in moved THEN Sign * n * Stride ELSE 0)
        /\ m.r[ECX] = Start.r[ECX] - (IF The(1).pfx = {} THEN 0 ELSE n)
        /\ op # "Ins" => \A k \in 0 .. n - 1 : PeekAt(m, Place(k), StringWidth) = Stored(k)
        /\ (op = "Lods" /\ n > 0) => Get(m, StringWidth, EAX) = Source(n - 1)
        /\ (op \in {"Cmps", "Scas"} /\ n > 0) => (Has("ZF") <=> Compares(n - 1))
        /\ op \notin {"Cmps", "Scas"} => m.fl = Start.fl

(***************************************************************************)
(* The control flow that the operating system decodes from the bytes, in   *)
(* Decode_Control_Flow_Instruction, after the instruction was executed.    *)
(***************************************************************************)
Undecoded == -1
Flow(class, target) == [class |-> class, target |-> target]
Short(i, addr) == Trunc(addr + 2 + Signed(Trunc(i.imm, ByteBits), ByteBits), LongBits)
Near(i, addr, n) == Trunc(addr + n + Signed(Trunc(i.imm, LongBits), LongBits), LongBits)

\* Of the calls through memory only [ebp+disp8] and [disp32] are decoded,
\* with the registers and the memory after the call.
CallTarget(i, after) ==
  CASE i.mod = 1 /\ i.rm = EBP ->
         PeekAt(after, Trunc(after.r[EBP] + Signed(Trunc(i.disp, ByteBits), ByteBits), LongBits), LongBits)
    [] i.mod = 0 /\ i.rm = EBP -> PeekAt(after, i.disp, LongBits)
    [] OTHER -> Undecoded

\* A push in a form that is not known ends the program, and so does a call
\* of address zero through a pointer.
PushKnown(i) ==
  CASE i.op \in {"PushReg", "Push_word_IMM", "Push_byte_IMM"} -> TRUE
    [] i.op = "OpcFF_word_RM" -> \/ (i.mod \in {0, 1} /\ i.rm = EBP)
                                 \/ i.mod = 3 \/ (i.mod = 0 /\ i.rm \notin {ESP, EBP})
    [] OTHER -> FALSE

Decode_Control_Flow_Instruction(i, addr, after) ==
  LET group(n) == i.op = "OpcFF_word_RM" /\ i.reg = n
  IN  CASE i.op = "Jump_byte_IMM" -> Flow("JMP", Short(i, addr))
        [] i.op = "Jump_near_IMM" -> Flow("JMP", Near(i, addr, 5))
        [] i.op = "Jump_far_IMM" \/ group(4) \/ group(5) -> Flow("JMP", Undecoded)
        [] i.op = "Call_near_IMM" -> Flow("CALL", Near(i, addr, 5))
        [] group(2) -> Flow(IF CallTarget(i, after) = 0 THEN "EXIT" ELSE "CALL", CallTarget(i, after))
        [] i.op = "Call_far_IMM" \/ group(3) -> Flow("CALL", Undecoded)
        [] i.op \in {"PushReg", "Push_word_IMM", "Push_byte_IMM", "PushSeg"} \/ group(6) ->
             Flow(IF PushKnown(i) THEN "PUSH" ELSE "EXIT",
                  IF group(6) /\ i.mod = 0 /\ i.rm = EBP THEN i.disp ELSE after.line.TOS)
        [] i.op = "Jump_short_cc" /\ i.cc # 0 -> Flow("JCC", Short(i, addr))
        [] i.op = "Long_jump" -> Flow("JCC", Near(i, addr, 6))
        [] i.op \in {"Ret_near", "Ret_near_IMM"} -> Flow("RET", 0)
        [] i.op = "Hlt" -> Flow("HLT", 0)
        [] OTHER -> Flow("OTHER", 0)

\* Branches that are listed as OTHER: the short jump on overflow, whose
\* opcode 0x70 the comparison leaves out, the counting loops, and returns
\* that are not ret.
ListedAsOther(i) == \/ i.op = "Jump_short_cc" /\ i.cc = 0
                    \/ i.op \in {"Loop", "Loope", "Loopne", "Jcxz", "Ret_far", "Ret_far_IMM", "Iret"}

\* In the code of the guests, flat and 32 bits wide, without prefixes.
Flat(n, i) == i.pfx = {} /\ i.seg = NOSEG /\ n.seg[CS].big /\ n.seg[SS].big
              /\ \A s \in {CS, SS, DS} : n.seg[s].base = 0

Follows(n, i, after) ==
  LET addr == n.eip
      next == Trunc(addr + after.line.NumBytes, LongBits)
      f    == Decode_Control_Flow_Instruction(i, addr, after)
      \* The return address was pushed over the pointer that is called through.
      clobbered == i.op = "OpcFF_word_RM" /\ i.reg = 2 /\ i.mod # 3
                   /\ \E a \in 0 .. 3, b \in 0 .. 3 : Fetched(n, i).ea.ofs + a = after.r[ESP] + b
  IN  CASE f.class = "JMP" -> f.target # Undecoded => after.eip = f.target
        [] f.class = "CALL" ->
             /\ PeekAt(after, after.r[ESP], LongBits) = next \/ f.target = Undecoded
             /\ after.eip = f.target \/ f.target = Undecoded \/ clobbered
        [] f.class = "JCC" -> after.eip \in {f.target, next}
        [] f.class = "RET" -> after.eip = PeekAt(n, n.r[ESP], LongBits) /\ after.r[ESP] >= n.r[ESP] + 4
        [] f.class = "PUSH" -> after.eip = next /\ after.r[ESP] = n.r[ESP] - 4
        [] f.class = "EXIT" -> TRUE
        [] f.class \in {"HLT", "OTHER"} -> after.eip = next \/ ListedAsOther(i)

\* Where the deciders are told that an instruction goes is where it goes:
\* the class and the target that are decoded from the bytes and the state
\* after the instruction agree with the emulator's handler, for every
\* instruction of a guest but those that are listed as something else.
BranchesAsDecoded ==
  [][\A i \in Current :
       (Flat(m, i) /\ run' # "dead" /\ m' # m /\ left'.intr = NoIntr) => Follows(m, i, m')]_vars

(***************************************************************************)
(* Faults.                                                                 *)
(***************************************************************************)
\* Handlers that raise a restartable fault after they changed something:
\* pop and the far transfers move the stack before the selector is looked
\* at; a far pointer is loaded before its selector; the word form of mov and
\* the move of a segment register that there is not are done all the same,
\* and so are the SSE instructions when they are disabled and every access
\* past the limit of a segment.
ChangesAnyway(n, i) ==
  \/ i.op \in {"PopSeg", "Call_far_IMM", "Ret_far", "Ret_far_IMM", "Iret"}
  \/ i.op = "OpcFF_word_RM" /\ i.reg = 3
  \/ i.op \in {"Mov_word_RM_IMM", "Les", "Lds", "Lss", "Lfs", "Lgs"}
  \/ i.op = "Mov_RM_SR" /\ i.reg > 5
  \/ i.op \in SseOps
  \/ \E s \in {DS, ES, SS} : n.seg[s].limit < Ones(WordBits)

\* A fault after which the instruction is executed again finds the registers,
\* the flags and the memory that the instruction found the first time.
FaultsRestart ==
  [][\A i \in Current :
       ("RESTART" \in left'.intr.kind /\ left'.host = "alive" /\ ~ChangesAnyway(m, i)) =>
         /\ left'.r = m.r /\ left'.fl = m.fl
         /\ SystemState(left') = SystemState(m)
         /\ \A c \in DOMAIN left'.mem : ByteAt(left', c) = ByteAt(m, c)]_vars
=============================================================================
