----------------------------- MODULE MCEmulator -----------------------------
(***************************************************************************)
(* Programs for Emulator, continued: shifts, instructions that undo each   *)
(* other, strings, branches and faults, in code of both widths.            *)
(***************************************************************************)
EXTENDS MCArithmetic

(***************************************************************************)
(* Rotates and shifts of edge values; 8 and 9 are the double shifts.       *)
(***************************************************************************)
\* Counts up to past the width for rotates, below it for the others; the
\* host shifts by all of its bits when a long is rotated through carry by
\* as many, which is not defined and left out.
CountsOf(n, w) == (IF n \in 0 .. 3 THEN 0 .. w + 2 ELSE 0 .. w - 1)
                  \ (IF n \in {2, 3} /\ w = LongBits THEN {w} ELSE {})
ShiftIds == {<<"shift", n, w, x, c, cf>> : n \in 0 .. 9, w \in Widths, x \in {2, 3, 4, 6},
                                            c \in 0 .. LongBits + 2, cf \in BOOLEAN}
IsShift(q) == q[5] \in CountsOf(q[2], q[3]) /\ (q[2] \in {8, 9} => q[3] # ByteBits)
ShiftProg(n, w, x, c, cf) ==
  LET by1 == c = 1 /\ x = 2
      cl  == x \in {3, 6}
      one == Byte(IF by1 THEN Group("Shift_1", n, EAX)
                  ELSE IF cl THEN Group("Shift_CL", n, EAX)
                  ELSE WithImm(Group("Shift_IMM", n, EAX), "b", c), w = ByteBits)
      op2 == <<"Shld_IMM", "Shrd_IMM", "Shld_CL", "Shrd_CL">>[n - 7 + IF cl THEN 2 ELSE 0]
      two == Two(IF cl THEN Group(op2, EBX, EAX) ELSE WithImm(Group(op2, EBX, EAX), "b", c))
  IN  [Prog("shift", <<Alu(IF n < 8 THEN one ELSE two, n)>>, Wide(w),
            (EAX :> Above(w, Edge(w, x))) @@ (ECX :> c) @@ (EBX :> 2 ^ (w - 2) + 5), Carry(cf))
       EXCEPT !.d = Edge(w, x), !.s = c, !.w = w]

(***************************************************************************)
(* Instructions that undo each other, in code and stacks of both widths,   *)
(* with and without the prefix for the other width of the data.            *)
(***************************************************************************)
Mem(i, mod, rm, disp) == [i EXCEPT !.modrm = TRUE, !.mod = mod, !.rm = rm, !.disp = disp]
Sib(i, mod, base, index, disp) ==
  [Mem(i, mod, ESP, disp) EXCEPT !.sbase = base, !.index = index, !.scale = 1]
AtReg(op, reg)  == [I(op) EXCEPT !.modrm = TRUE, !.reg = reg]
InMem(op, reg)  == Mem(AtReg(op, reg), 1, 7, 4)   \* [EDI + 4], [BX + 4]
Store(i)        == [i EXCEPT !.store = TRUE]
PUSH(n) == Reg("PushReg", n)
POP(n)  == Reg("PopReg", n)
Imm8(i, v)  == WithImm(i, "b", v)
ImmZ(i, v)  == WithImm(i, "z", v)
ImmW(i, v)  == WithImm(i, "w", v)

\* Two encodings of one address: EBX and EDI hold Data, ESI 8, EBP Data + 8.
Places == <<
  <<Mem(Plain, 1, EBX, 8), Mem(Plain, 2, EBX, 8)>>,
  <<Mem(Plain, 1, EBP, 0), Mem(Plain, 2, EBP, 0)>>,
  <<Mem(Plain, 0, EBP, Data + 16), Sib(Plain, 1, EBX, ESI, 0)>>,
  <<Sib(Plain, 0, EBP, ESI, Data), Sib(Plain, 2, EDI, ESP, 16)>>,
  <<Mem(Plain, 1, EDI, 62), Sib(Plain, 1, EDI, ESP, 62)>>,
  <<Sib(Plain, 0, ESP, ESP, 0), Sib(Plain, 1, ESP, ESP, 0)>>,
  <<Mem(Plain, 0, 7, 0), Mem(Plain, 1, 7, 0)>>,
  <<Mem(Plain, 0, 6, Data + 8), Mem(Plain, 1, 7, 8)>>,
  <<Mem(Plain, 0, 2, 0), Mem(Plain, 1, 6, 8)>>,
  <<Mem(Plain, 0, 0, 0), Mem(Plain, 1, 7, 8)>>,
  <<Mem(Plain, 1, 3, 0), Mem(Plain, 2, 3, 0)>>,
  <<Mem(Plain, 2, 4, Data), Mem(Plain, 1, 5, 8)>> >>
Placed(op, reg, p) == [p EXCEPT !.op = op, !.reg = reg]
Swapped(b, k) == <<Byte(Placed("Xchg_RM_R", EDX, Places[k][1]), b),
                   Byte(Placed("Xchg_RM_R", EDX, Places[k][2]), b)>>

\* Programs that undo what they do, by number; n is the number of bytes of
\* the data, p that of the prefixes, cs the selector of the code.
Undoing(n, p, cs) ==
  [r \in 1 .. 8 |-> <<PUSH(r - 1), POP(r - 1)>>]
  \o [s \in 1 .. 5 |-> LET g == <<ES, SS, DS, FS, GS>>[s] IN <<Reg("PushSeg", g), Reg("PopSeg", g)>>]
  \o <<
  <<I("Push_all"), I("Pop_all")>>, <<I("Pushf"), I("Popf")>>,
  <<ImmZ(I("Push_word_IMM"), 77), Alu(Imm8(Group("OpA_RM_IMM", 0, ESP), n), 0)>>,
  <<Imm8(I("Push_byte_IMM"), 60), Alu(Imm8(Group("OpA_RM_IMM", 0, ESP), n), 0)>>,
  <<ImmZ(I("Call_near_IMM"), 2 + p), Imm8(I("Jump_byte_IMM"), 1 + p), I("Ret_near")>>,
  <<PUSH(EBX), ImmZ(I("Call_near_IMM"), 2 + p), Imm8(I("Jump_byte_IMM"), 3 + p), ImmW(I("Ret_near_IMM"), n)>>,
  <<Far(I("Call_far_IMM"), Origin + 1 + 2 + n + 2 + 2 * p, cs), Imm8(I("Jump_byte_IMM"), 1 + p), I("Ret_far")>>,
  <<PUSH(EBX), Far(I("Call_far_IMM"), Origin + 2 + 2 + n + 2 + 3 * p, cs), Imm8(I("Jump_byte_IMM"), 3 + p),
    ImmW(I("Ret_far_IMM"), n)>>,
  <<Group("OpcFF_word_RM", 2, EAX), Imm8(I("Jump_byte_IMM"), 1 + p), I("Ret_near")>>,
  <<InMem("OpcFF_word_RM", 2), Imm8(I("Jump_byte_IMM"), 1 + p), I("Ret_near")>>,
  <<InMem("OpcFF_word_RM", 3), Imm8(I("Jump_byte_IMM"), 1 + p), I("Ret_far")>>,
  <<Group("OpcFF_word_RM", 4, EAX), I("Stc"), I("Nop")>>,
  <<[Imm8(I("Enter"), 0) EXCEPT !.form = "wb"], I("Leave")>>,
  <<[I("Enter") EXCEPT !.form = "wb", !.imm = 8, !.imm2 = 1], I("Leave")>>,
  <<[I("Enter") EXCEPT !.form = "wb", !.imm = 4, !.imm2 = 3], I("Leave")>>,
  <<Imm8(I("Int_IMM"), 3)>>, <<I("Int3")>>, <<I("Into")>>,
  <<Group("Xchg_RM_R", EAX, EDX), Group("Xchg_RM_R", EDX, EAX)>>,
  <<Byte(Group("Xchg_RM_R", 4, EDX), TRUE), Byte(Group("Xchg_RM_R", EDX, 4), TRUE)>>,
  <<Reg("Xchg_AX", ESI), Reg("Xchg_AX", ESI)>>,
  <<WithImm(I("Mov_M_A"), "a", Data + 4), ImmZ(Reg("Mov_word_IMM", EAX), 9), WithImm(I("Mov_A_M"), "a", Data + 4)>>,
  <<InMem("Mov_RM_R", EDX), ImmZ(Reg("Mov_word_IMM", EDX), 9), InMem("Mov_R_RM", EDX)>>,
  <<Byte(InMem("Mov_RM_R", 6), TRUE), Imm8(Reg("Mov_byte_IMM", 6), 9), Byte(InMem("Mov_R_RM", 6), TRUE)>>,
  <<InMem("Mov_RM_SR", FS), Two(InMem("Mov_SR_RM", FS))>>,
  <<PUSH(EDX), Group("Mov_RM_SR", GS, EDX), Group("Mov_SR_RM", GS, EDX), POP(EDX)>>,
  <<InMem("Mov_RM_R", EDX), [InMem("Mov_RM_SR", FS) EXCEPT !.disp = 4 + n],
    ImmZ(Reg("Mov_word_IMM", EDX), 9), Two(InMem("Lfs", EDX))>>,
  <<InMem("Mov_RM_R", EDX), [InMem("Mov_RM_SR", GS) EXCEPT !.disp = 4 + n], Two(InMem("Lgs", EDX))>>,
  <<InMem("Mov_RM_R", EDX), [InMem("Mov_RM_SR", ES) EXCEPT !.disp = 4 + n], InMem("Les", EDX)>>,
  <<InMem("Mov_RM_R", EDX), [InMem("Mov_RM_SR", DS) EXCEPT !.disp = 4 + n], InMem("Lds", EDX)>>,
  <<InMem("Mov_RM_R", EDX), [InMem("Mov_RM_SR", SS) EXCEPT !.disp = 4 + n], Two(InMem("Lss", EDX))>>,
  <<Two(Group("Mov_CRx_RM", 2, EAX)), ImmZ(Reg("Mov_word_IMM", EAX), 9), Two(Group("Mov_RM_CRx", 2, EAX))>>,
  <<Two(Group("Mov_DRx_RM", 2, EAX)), ImmZ(Reg("Mov_word_IMM", EAX), 9), Two(Group("Mov_RM_DRx", 2, EAX))>>,
  <<PUSH(EAX), Two(Group("SystemTable", 4, EAX)), Two(Group("SystemTable", 6, EAX)), POP(EAX)>>,
  <<Two(InMem("SystemTable", 0)), Two(InMem("SystemTable", 2))>>,
  <<Two(InMem("SystemTable", 1)), Two(InMem("SystemTable", 3))>>,
  <<Two(InMem("LoadTable", 0)), Two(InMem("LoadTable", 2))>>,
  <<Two(InMem("LoadTable", 1)), Two(InMem("LoadTable", 3)), Two(InMem("LoadTable", 4))>>,
  <<Two(I("Wrmsr")), ImmZ(Reg("Mov_word_IMM", EAX), 9), ImmZ(Reg("Mov_word_IMM", EDX), 9), Two(I("Rdmsr"))>>,
  <<Two(Reg("Bswap", EDX)), Two(Reg("Bswap", EDX))>>,
  <<I("Cmc"), I("Cmc")>>, <<I("Stc"), I("Clc")>>, <<I("Std"), I("Cld")>>, <<I("Sti"), I("Cli")>>,
  <<PUSH(EAX), I("Lahf"), I("Stc"), I("Sahf"), POP(EAX)>>,
  <<Alu(Imm8(Group("Shift_IMM", 0, EDX), 5), 0), Alu(Imm8(Group("Shift_IMM", 1, EDX), 5), 1)>>,
  <<Alu(Imm8(Group("Shift_IMM", 2, EDX), 5), 2), Alu(Imm8(Group("Shift_IMM", 3, EDX), 5), 3)>>,
  <<Alu(InMem("Shift_1", 2), 2), Alu(InMem("Shift_1", 3), 3)>>,
  <<InMem("OpcF7_word_RM", 2), InMem("OpcF7_word_RM", 2)>>,
  <<Group("OpcF7_word_RM", 3, EDX), Group("OpcF7_word_RM", 3, EDX)>>,
  <<InMem("OpcFF_word_RM", 0), InMem("OpcFF_word_RM", 1)>>,
  <<Alu(InMem("OpA_RM_R", EDX), 0), Alu(InMem("OpA_RM_R", EDX), 5)>>,
  <<Alu(InMem("OpA_R_RM", EDX), 6), Alu(InMem("OpA_R_RM", EDX), 6)>>,
  <<Two(InMem("bts", ESI)), Two(InMem("bt", ESI)), Two(InMem("btr", ESI))>>,
  <<Two(InMem("btc", EDX)), Two(InMem("btc", EDX))>>,
  <<Two(Group("bts", ESI, EDX)), Two(Group("btr", ESI, EDX))>>,
  <<Two(Imm8(InMem("BtX_I", 5), 6)), Two(Imm8(InMem("BtX_I", 6), 6)), Two(Imm8(InMem("BtX_I", 4), 6))>>,
  <<Two(Store(InMem("movlps", 3))), Two(InMem("movlps", 3)), Two(Store(InMem("movhps", 3))), Two(InMem("movhps", 3))>>,
  <<Two(Store(InMem("movups", 5))), Two(InMem("movups", 5))>>,
  <<Two(Group("xorps", 1, 2)), Two(Group("xorps", 1, 2))>>,
  <<PUSH(EDX), InMem("Pop_RM", 0), InMem("OpcFF_word_RM", 6), POP(EDX)>>,
  <<Sib(AtReg("OpcFF_word_RM", 6), 1, ESP, ESP, 8), Sib(AtReg("Pop_RM", 0), 1, ESP, ESP, 8)>>
  >>

Undoings == [n \in {2, 4}, p \in {0, 1}, cs \in {0, 8} |-> Undoing(n, p, cs)]
Envs == {"flat", "based", "protected"}   \* "based": a stack segment of its own
InverseIds == {<<"inverse", k, c, s, p, env>> :
                 k \in 1 .. 24 + Len(Undoings[4, 0, 0]), c, s, p \in BOOLEAN, env \in Envs}
IsInverse(q) == q[6] = "protected" => q[3] /\ q[4]

SegAt(sel) == [sel |-> sel, base |-> 16 * sel, limit |-> Ones(LongBits), big |-> FALSE]
SegsOf(env, c, s) ==
  CASE env = "protected" -> [g \in 0 .. 5 |-> MCDescriptors[GdtAt + 8]]
    [] env = "based" -> (SS :> [SegAt(4) EXCEPT !.big = s]) @@ (FS :> SegAt(3))
    [] env = "flat" -> (FS :> SegAt(3)) @@ (GS :> SegAt(5))

InverseCode(k, n, p, cs) ==
  IF k <= 24 THEN Swapped(k > 12, 1 + ((k - 1) % 12)) ELSE Undoings[n, p, cs][k - 24]

InverseProg(k, c, s, p, env) ==
  LET n    == IF c # p THEN 4 ELSE 2
      one  == IF p THEN 1 ELSE 0
      cs   == IF env = "protected" THEN 8 ELSE 0
      base == IF env = "based" THEN 64 ELSE 0
      code == InverseCode(k, n, one, cs)
      through == code[1].op = "OpcFF_word_RM" /\ code[1].reg \in {2, 3, 4}
      \* Where the indirect calls and the jump lead.
      to   == Origin + 2 * one + (IF code[1].mod # 3 THEN 5 ELSE IF code[1].reg = 2 THEN 4 ELSE 3)
      stores == {"Mov_M_A", "Mov_RM_R", "Mov_RM_SR", "SystemTable", "LoadTable", "movlps", "movups"}
      pfx  == (IF p THEN {"DATA32"} ELSE {})
              \cup (IF k <= 24 /\ c # ((k - 1) % 12 < 6) THEN {"ADDR32"} ELSE {})
      iret == Pfx(I("Iret"), IF c /\ env # "protected" THEN {"DATA32"} ELSE {})
      word == [a \in Data .. Data + 80 |-> (a * 7 + 4) % 61]
      ptr  == [a \in Data + 4 .. Data + 9 + n |->
                 IF a >= Data + 4 + n THEN (IF a = Data + 4 + n THEN cs ELSE 0)
                 ELSE Trunc(Shr(to, ByteBits * (a - Data - 4)), ByteBits)]
  IN  [Prog("inverse", [j \in 1 .. Len(code) |-> Pfx(code[j], pfx)], c,
            (EAX :> IF through THEN to ELSE 9876543) @@ (ECX :> 3) @@ (EDX :> 1234567) @@ (EBX :> Data)
              @@ (EBP :> Data + 8) @@ (ESI :> 8) @@ (EDI :> Data),
            IF code[1].op \in {"Int_IMM", "Int3", "Into"} THEN {"IF", "OF"} ELSE {})
       EXCEPT !.stack32 = s, !.mem = (IF through THEN ptr ELSE word)
                     @@ [a \in StackAt + base .. StackAt + base + 20 |-> (a * 5) % 59],
              !.scratch = (StackAt + base - 80 .. StackAt + base - 1)
                          \cup (IF code[1].op \in stores \/ \E j \in 2 .. Len(code) : code[j].op = "Pop_RM"
                                THEN Data + 4 .. Data + 11 ELSE {}),
              !.handler = [nr \in {3, 4} |-> iret], !.seg = SegsOf(env, c, s),
              !.cr = (0 :> (IF env = "protected" THEN 3 ELSE 2)) @@ (2 :> 9876543) @@ (4 :> 512)]

(***************************************************************************)
(* Strings: every content, count and direction, and overlapping operands.  *)
(***************************************************************************)
StringIds == {"string"} \X (1 .. 7) \X {{}, {"REPE"}, {"REPNE"}} \X BOOLEAN \X (0 .. 3) \X (1 .. 3) \X Widths
StringProg(k, rep, df, n, content, w) ==
  LET op == <<"Movs", "Cmps", "Stos", "Lods", "Scas", "Ins", "Outs">>[k]
      at(a) == CASE content = 1 -> 5
                 [] content = 2 -> IF a % 5 = 0 THEN 6 ELSE 5
                 [] content = 3 -> a % 61
  IN  [Prog("string", <<Pfx(Byte(I(op), w = ByteBits), rep)>>, Wide(w),
            (EAX :> 5 * (1 + 2 ^ ByteBits) * (1 + 2 ^ WordBits)) @@ (ECX :> n) @@ (ESI :> Data + 32)
              @@ (EDI :> Data + 32 + <<20, Bytes(w), -Bytes(w)>>[content]), On("DF", df))
       EXCEPT !.mem = [a \in Data .. Data + 64 |-> at(a)]]

(***************************************************************************)
(* Branches of guests, and other instructions among them.                  *)
(***************************************************************************)
Abs(op, reg, disp) == Mem(AtReg(op, reg), 0, EBP, disp)
BranchCodes == <<
  <<Imm8(I("Jump_byte_IMM"), 1), I("Stc")>>, <<ImmZ(I("Jump_near_IMM"), 1), I("Stc")>>,
  <<Imm8(I("Jump_byte_IMM"), 2 ^ ByteBits - 2)>>,
  <<Imm8(I("Jump_byte_IMM"), 1), I("Hlt"), ImmZ(I("Jump_near_IMM"), 2 ^ LongBits - 6)>>,
  <<Group("OpcFF_word_RM", 4, EDX), I("Stc")>>, <<Abs("OpcFF_word_RM", 4, Data)>>,
  <<Mem(AtReg("OpcFF_word_RM", 2), 1, EBP, 0)>>, <<Abs("OpcFF_word_RM", 2, Data)>>,
  <<Abs("OpcFF_word_RM", 2, Data + 8)>>,
  <<Mem(AtReg("OpcFF_word_RM", 2), 0, EBX, 0)>>, <<Group("OpcFF_word_RM", 2, ESP)>>,
  <<Mem(AtReg("OpcFF_word_RM", 3), 0, EBX, 0)>>, <<Mem(AtReg("OpcFF_word_RM", 5), 0, EBX, 0)>>,
  <<ImmZ(I("Push_word_IMM"), Origin + 6), I("Ret_near")>>,
  <<PUSH(EDX), ImmW(I("Ret_near_IMM"), 8)>>, <<Far(I("Jump_far_IMM"), Origin + 7, 0)>>,
  <<Far(I("Call_far_IMM"), Origin + 7, 0)>>,
  <<Imm8(I("Loop"), 1), I("Stc")>>, <<Imm8(I("Loope"), 1), I("Stc")>>, <<Imm8(I("Loopne"), 1), I("Stc")>>,
  <<Imm8(I("Jcxz"), 1), I("Stc")>>, <<Cc(Imm8(I("Jump_short_cc"), 1), 0), I("Stc")>>,
  <<Two(Cc(ImmZ(I("Long_jump"), 1), 0)), I("Stc")>>,
  <<Abs("OpcFF_word_RM", 6, Data)>>, <<Mem(AtReg("OpcFF_word_RM", 6), 1, EBP, 4)>>,
  <<Group("OpcFF_word_RM", 6, ESP)>>, <<Mem(AtReg("OpcFF_word_RM", 6), 0, EBX, 0)>>,
  <<Mem(AtReg("OpcFF_word_RM", 6), 2, EBX, 4)>>, <<Reg("PushSeg", FS)>>,
  <<WithImm(I("Push_byte_IMM"), "b", 63), POP(EDX)>>, <<I("Iret")>>, <<I("Ret_far")>>,
  <<I("Setalc"), I("Xlat"), Byte(I("In_A"), FALSE), Byte(I("Out_A"), TRUE), Two(I("Rdtsc"))>>,
  <<Mem(AtReg("Lea", EAX), 1, EBX, 60), Two(Mem(I("Hint"), 0, EBX, 0)), Two(I("Clts")), Two(I("Rdpmc"))>>,
  <<Mem(ImmZ(AtReg("Mov_word_RM_IMM", 0), 7), 0, EBX, 0), Mem(Imm8(AtReg("Mov_byte_RM_IMM", 0), 7), 0, EBX, 0)>>,
  <<Two(Group("movaps", 1, 2)), Two(Group("unpckl", 1, 2)), Two(Group("unpckh", 3, 4)),
    Two(Group("andps", 1, 2)), Two(Group("andnps", 1, 2)), Two(Group("orps", 1, 2))>> >>
BranchIds == {"branch"} \X (1 .. Len(BranchCodes)) \X {{}, {"OF"}, {"ZF"}} \X {0, 1, 2}
\* Data holds a pointer; the stack pointer may be the address called through.
BranchProg(k, fl, n) ==
  LET ptr(a, v) == [b \in a .. a + 3 |-> Trunc(Shr(v, ByteBits * (b - a)), ByteBits)]
  IN  [Prog("branch", BranchCodes[k], TRUE,
            (EDX :> Origin + 3) @@ (ECX :> n) @@ (EBX :> Data) @@ (EBP :> Data)
              @@ (ESP :> IF n = 2 THEN Data + 4 ELSE Data + 40), fl)
       EXCEPT !.mem = ptr(Data, Origin + 3) @@ ptr(Data + 40, Origin + 3),
              !.cr = (0 :> 2) @@ (4 :> 512)]

(***************************************************************************)
(* Faults; but for the error code, their handlers return to the program.   *)
(***************************************************************************)
FaultCodes == <<
  I("Illegal_op"), Two(I("Unimplemented")), Group("Lea", EAX, EBX), Two(Mem(AtReg("Mov_RM_CRx", 2), 0, EBX, 0)),
  Two(Mem(AtReg("Mov_CRx_RM", 2), 0, EBX, 0)), Two(Mem(AtReg("Mov_RM_DRx", 2), 0, EBX, 0)),
  Two(Mem(AtReg("Mov_DRx_RM", 2), 0, EBX, 0)),
  Group("OpcFF_word_RM", 7, EBX), Group("OpcFF_word_RM", 3, EBX), Group("OpcFF_word_RM", 5, EBX),
  Byte(Group("OpcFE_byte_RM", 2, EBX), TRUE), Group("OpcF7_word_RM", 6, ESI), Byte(Group("OpcF6_byte_RM", 7, ESI), TRUE),
  Group("Pop_RM", 1, EBX), Two(Group("LoadTable", 6, EBX)), Two(Group("SystemTable", 0, EBX)),
  Two(Mem(AtReg("SystemTable", 5), 0, EBX, 0)), Two(I("Wrmsr")), Two(I("Rdmsr")),
  Two(Group("movups", 1, 2)), Two(Group("xorps", 1, 2)), Two(Store(Mem(AtReg("movaps", EBX), 0, EBX, 0))),
  Two(Mem(AtReg("movaps", 1), 1, EBX, 1)), Two(Store(Mem(AtReg("movhps", 1), 0, EBX, 0))), Two(Group("unpckl", 1, 2)),
  Group("Les", EAX, EBX), Mem(AtReg("Lds", EAX), 0, EBX, 0), Two(Mem(AtReg("Lss", EAX), 0, EBX, 0)),
  Group("Mov_SR_RM", 6, EBX), Group("Mov_RM_SR", 6, EDX), Group("Mov_SR_RM", ES, EDX), Reg("PopSeg", ES),
  Two(Imm8(Group("BtX_I", 1, EBX), 3)), Two(Group("LoadTable", 2, EDX)), Two(Group("LoadTable", 3, EDX)),
  Byte(Mem(Imm8(AtReg("Mov_byte_RM_IMM", 1), 5), 0, EBX, 0), TRUE),
  Mem(ImmZ(AtReg("Mov_word_RM_IMM", 1), 5), 0, EBX, 0), Far(I("Jump_far_IMM"), Origin, 40),
  Far(I("Call_far_IMM"), Origin, 40), I("Ret_far"), I("Iret"), Imm8(I("Int_IMM"), 6),
  Mem(AtReg("OpcFF_word_RM", 5), 0, EBX, 0), Mem(AtReg("OpcFF_word_RM", 3), 0, EBX, 0),
  Mem(AtReg("Mov_RM_R", EDX), 0, EBX, 0), Mem(AtReg("Mov_R_RM", EDX), 0, EBX, 0), PUSH(EDX), Imm8(I("AamAX"), 0) >>
FaultIds == {"fault"} \X (1 .. Len(FaultCodes)) \X {"flat", "protected", "limited"} \X {0, 2, 6}
FaultProg(k, env, cr0) ==
  LET iret == Pfx(I("Iret"), IF env = "protected" THEN {} ELSE {"DATA32"})
  IN  [Prog("fault", <<FaultCodes[k]>>, TRUE,
            (EAX :> 5) @@ (ECX :> 7) @@ (EDX :> 44) @@ (EBX :> Data), {"ZF"})
       EXCEPT !.mem = [a \in Data .. Data + 7 |-> 40] @@ [a \in StackAt .. StackAt + 11 |-> 41],
              !.handler = [nr \in {0, 6, 13} |-> IF nr = 13 THEN I("Hlt") ELSE iret],
              !.seg = (IF env # "limited" THEN SegsOf(env, TRUE, TRUE)
                       ELSE DS :> [SegAt(0) EXCEPT !.limit = Data - 1])
                      @@ (CS :> [MCDescriptors[GdtAt + 8] EXCEPT !.sel = IF env = "protected" THEN 8 ELSE 0]),
              !.cr = (0 :> cr0 + (IF env = "protected" THEN 1 ELSE 0)) @@ (4 :> 512)]

(***************************************************************************)
(* From programs to machines and code.                                     *)
(***************************************************************************)
MCInputs == ArithmeticIds \cup {q \in ShiftIds : IsShift(q)} \cup {q \in InverseIds : IsInverse(q)}
            \cup StringIds \cup BranchIds \cup FaultIds

ProgramOf(q) ==
  CASE q[1] = "shift" -> ShiftProg(q[2], q[3], q[4], q[5], q[6])
    [] q[1] = "inverse" -> InverseProg(q[2], q[3], q[4], q[5], q[6])
    [] q[1] = "string" -> StringProg(q[2], q[3], q[4], q[5], q[6], q[7])
    [] q[1] = "branch" -> BranchProg(q[2], q[3], q[4])
    [] q[1] = "fault" -> FaultProg(q[2], q[3], q[4])
    [] OTHER -> ArithmeticProgram(q)

MachineOf(p) ==
  LET n == [Machine(p.code32, p.stack32, p.r, p.fl, p.mem) EXCEPT !.wraps = p.wraps, !.cr = p.cr @@ @, !.seg = p.seg @@ @]
  IN  IF Protected(n) THEN [n EXCEPT !.idt.base = IdtAt] ELSE n

\* The instructions follow each other from Origin, a hlt behind them.
EipsOf(p) ==
  LET mode == IF p.code32 THEN {"DATA32", "ADDR32", "CODE32"} ELSE {}
      at[k \in 1 .. Len(p.code) + 1] ==
        IF k = 1 THEN Origin ELSE at[k - 1] + Length(PrefixedMode(mode, p.code[k - 1].pfx), p.code[k - 1])
  IN  [k \in 1 .. Len(p.code) + 1 |-> at[k]]
CodeOf(p, where) ==
  LET code == Append(p.code, I("Hlt"))
  IN  [a \in {where[k] : k \in 1 .. Len(code)} |-> code[CHOOSE k \in 1 .. Len(code) : where[k] = a]]
      @@ [a \in {Vector(nr) : nr \in DOMAIN p.handler} |->
            p.handler[CHOOSE nr \in DOMAIN p.handler : Vector(nr) = a]]

Loaded(p) ==
  LET eips == EipsOf(p)
  IN  ("machine" :> MachineOf(p)) @@ ("at" :> CodeOf(p, eips)) @@ ("eips" :> eips) @@ p

MCPrograms == {Loaded(ProgramOf(q)) : q \in MCInputs}

\* Comparisons followed by a conditional move.
MovePrograms == {Loaded(ProgramOf(q)) : q \in {c \in CompareIds : c[6] = 3}}
=============================================================================
