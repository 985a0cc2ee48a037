------------------------------ MODULE Emulator ------------------------------
(***************************************************************************)
(* x86emu_run: programs executed by the emulator, one instruction a step.  *)
(* The machine m is that of EmuDecode; an input names a machine to start   *)
(* from and the code it executes.  A guest that leaves the code it was     *)
(* given is not followed any further.                                      *)
(***************************************************************************)
EXTENDS EmuOps2

CONSTANTS
  Programs,       \* records with the machine in which a program starts
                  \* and, in at, its instructions by linear address
  Budget          \* max_instr, the instructions a run may execute

ASSUME BudgetAssumption == Budget \in Nat \ {0}

VARIABLES
  program,    \* the program that is executed
  m,          \* the machine
  left,       \* the machine as the last handler left it, its interrupt pending
  run         \* whether x86emu_run goes on, or how it ended

vars == <<program, m, left, run>>

Init ==
  /\ program \in Programs
  /\ m = program.machine
  /\ left = m
  /\ run = "running"

(***************************************************************************)
(* The tables of handlers, by group.                                       *)
(***************************************************************************)
Arithmetics(n, i) ==
  CASE i.op = "OpA_RM_R" -> OpA_RM_R(n, i)       [] i.op = "OpA_R_RM" -> OpA_R_RM(n, i)
    [] i.op = "OpA_A_IMM" -> OpA_A_IMM(n, i)     [] i.op = "OpA_RM_IMM" -> OpA_RM_IMM(n, i)
    [] i.op = "Test_RM_R" -> Test_RM_R(n, i)     [] i.op = "Test_A_IMM" -> Test_A_IMM(n, i)
    [] i.op = "IncReg" -> IncReg(n, i)           [] i.op = "DecReg" -> DecReg(n, i)
    [] i.op = "OpcF6_byte_RM" -> OpcF6_byte_RM(n, i)
    [] i.op = "OpcF7_word_RM" -> OpcF7_word_RM(n, i)
    [] i.op = "OpcFE_byte_RM" -> OpcFE_byte_RM(n, i)
    [] i.op = "Imul_word_IMM" -> Imul_word_IMM(n, i)
    [] i.op = "Imul_byte_IMM" -> Imul_byte_IMM(n, i)
    [] i.op = "Imul_R_RM" -> Imul_R_RM(n, i)
ArithmeticOps == {"OpA_RM_R", "OpA_R_RM", "OpA_A_IMM", "OpA_RM_IMM", "Test_RM_R", "Test_A_IMM",
  "IncReg", "DecReg", "OpcF6_byte_RM", "OpcF7_word_RM", "OpcFE_byte_RM", "Imul_word_IMM",
  "Imul_byte_IMM", "Imul_R_RM"}

Decimals(n, i) ==
  CASE i.op = "DaaAL" -> DaaAL(n, i) [] i.op = "DasAL" -> DasAL(n, i)
    [] i.op = "AaaAX" -> AaaAX(n, i) [] i.op = "AasAX" -> AasAX(n, i)
    [] i.op = "AamAX" -> AamAX(n, i) [] i.op = "AadAX" -> AadAX(n, i)
DecimalOps == {"DaaAL", "DasAL", "AaaAX", "AasAX", "AamAX", "AadAX"}

Shifts(n, i) ==
  CASE i.op = "Shift_IMM" -> Shift_IMM(n, i) [] i.op = "Shift_1" -> Shift_1(n, i)
    [] i.op = "Shift_CL" -> Shift_CL(n, i)
    [] i.op = "Shld_IMM" -> Shld_IMM(n, i)   [] i.op = "Shld_CL" -> Shld_CL(n, i)
    [] i.op = "Shrd_IMM" -> Shrd_IMM(n, i)   [] i.op = "Shrd_CL" -> Shrd_CL(n, i)
ShiftOps == {"Shift_IMM", "Shift_1", "Shift_CL", "Shld_IMM", "Shld_CL", "Shrd_IMM", "Shrd_CL"}

Bits(n, i) ==
  CASE i.op \in {"bt", "bts", "btr", "btc"} -> Bt_R(n, i) [] i.op = "BtX_I" -> BtX_I(n, i)
    [] i.op = "Bsf" -> Bsf(n, i) [] i.op = "Bsr" -> Bsr(n, i)
BitOps == {"bt", "bts", "btr", "btc", "BtX_I", "Bsf", "Bsr"}

Stacks(n, i) ==
  CASE i.op = "PushReg" -> PushReg(n, i)   [] i.op = "PopReg" -> PopReg(n, i)
    [] i.op = "PushSeg" -> PushSeg(n, i.reg) [] i.op = "PopSeg" -> PopSeg(n, i.reg)
    [] i.op = "Push_word_IMM" -> Push_word_IMM(n, i)
    [] i.op = "Push_byte_IMM" -> Push_byte_IMM(n, i)
    [] i.op = "Push_all" -> Push_all(n, i) [] i.op = "Pop_all" -> Pop_all(n, i)
    [] i.op = "Pop_RM" -> Pop_RM(n, i)
    [] i.op = "Pushf" -> Pushf(n, i)       [] i.op = "Popf" -> Popf(n, i)
    [] i.op = "Enter" -> Enter(n, i)       [] i.op = "Leave" -> Leave(n, i)
StackOps == {"PushReg", "PopReg", "PushSeg", "PopSeg", "Push_word_IMM", "Push_byte_IMM",
  "Push_all", "Pop_all", "Pop_RM", "Pushf", "Popf", "Enter", "Leave"}

Moves(n, i) ==
  CASE i.op = "Xchg_RM_R" -> Xchg_RM_R(n, i) [] i.op = "Xchg_AX" -> Xchg_AX(n, i)
    [] i.op = "Mov_RM_R" -> Mov_RM_R(n, i)   [] i.op = "Mov_R_RM" -> Mov_R_RM(n, i)
    [] i.op = "Mov_RM_SR" -> Mov_RM_SR(n, i) [] i.op = "Mov_SR_RM" -> Mov_SR_RM(n, i)
    [] i.op = "Mov_A_M" -> Mov_A_M(n, i)     [] i.op = "Mov_M_A" -> Mov_M_A(n, i)
    [] i.op = "Mov_byte_IMM" -> Mov_byte_IMM(n, i)
    [] i.op = "Mov_word_IMM" -> Mov_word_IMM(n, i)
    [] i.op = "Mov_byte_RM_IMM" -> Mov_byte_RM_IMM(n, i)
    [] i.op = "Mov_word_RM_IMM" -> Mov_word_RM_IMM(n, i)
    [] i.op = "Lea" -> Lea(n, i)   [] i.op = "Xlat" -> Xlat(n, i)
    [] i.op = "Les" -> Les(n, i)   [] i.op = "Lds" -> Lds(n, i)
    [] i.op = "Lss" -> Lss(n, i)   [] i.op = "Lfs" -> Lfs(n, i)  [] i.op = "Lgs" -> Lgs(n, i)
    [] i.op = "Cbw" -> Cbw(n, i)   [] i.op = "Cwd" -> Cwd(n, i)
    [] i.op = "Sahf" -> Sahf(n, i) [] i.op = "Lahf" -> Lahf(n, i)
    [] i.op = "Setalc" -> Setalc(n, i)
    [] i.op = "Movzx_byte_R_RM" -> Movzx_byte_R_RM(n, i)
    [] i.op = "Movzx_word_R_RM" -> Movzx_word_R_RM(n, i)
    [] i.op = "Movsx_byte_R_RM" -> Movsx_byte_R_RM(n, i)
    [] i.op = "Movsx_word_R_RM" -> Movsx_word_R_RM(n, i)
    [] i.op = "Bswap" -> Bswap(n, i)
    [] i.op = "Conditional_move" -> Conditional_move(n, i)
    [] i.op = "Set_byte" -> Set_byte(n, i)
MoveOps == {"Xchg_RM_R", "Xchg_AX", "Mov_RM_R", "Mov_R_RM", "Mov_RM_SR", "Mov_SR_RM", "Mov_A_M",
  "Mov_M_A", "Mov_byte_IMM", "Mov_word_IMM", "Mov_byte_RM_IMM", "Mov_word_RM_IMM", "Lea", "Xlat",
  "Les", "Lds", "Lss", "Lfs", "Lgs", "Cbw", "Cwd", "Sahf", "Lahf", "Setalc", "Movzx_byte_R_RM",
  "Movzx_word_R_RM", "Movsx_byte_R_RM", "Movsx_word_R_RM", "Bswap", "Conditional_move", "Set_byte"}

Strings(n, i) ==
  CASE i.op = "Movs" -> Movs(n, i) [] i.op = "Stos" -> Stos(n, i) [] i.op = "Lods" -> Lods(n, i)
    [] i.op = "Cmps" -> Cmps(n, i) [] i.op = "Scas" -> Scas(n, i)
    [] i.op = "Ins" -> Ins(n, i)   [] i.op = "Outs" -> Outs(n, i)
StringOps == {"Movs", "Stos", "Lods", "Cmps", "Scas", "Ins", "Outs"}

Branches(n, i) ==
  CASE i.op = "Jump_short_cc" -> Jump_short_cc(n, i) [] i.op = "Long_jump" -> Long_jump(n, i)
    [] i.op = "Jump_byte_IMM" -> Jump_byte_IMM(n, i) [] i.op = "Jump_near_IMM" -> Jump_near_IMM(n, i)
    [] i.op = "Jump_far_IMM" -> Jump_far_IMM(n, i)   [] i.op = "Call_near_IMM" -> Call_near_IMM(n, i)
    [] i.op = "Call_far_IMM" -> Call_far_IMM(n, i)   [] i.op = "OpcFF_word_RM" -> OpcFF_word_RM(n, i)
    [] i.op = "Ret_near" -> Ret_near(n, i) [] i.op = "Ret_near_IMM" -> Ret_near_IMM(n, i)
    [] i.op = "Ret_far" -> Ret_far(n, i)   [] i.op = "Ret_far_IMM" -> Ret_far_IMM(n, i)
    [] i.op = "Loopne" -> Loopne(n, i)     [] i.op = "Loope" -> Loope(n, i)
    [] i.op = "Loop" -> Loop(n, i)         [] i.op = "Jcxz" -> Jcxz(n, i)
BranchOps == {"Jump_short_cc", "Long_jump", "Jump_byte_IMM", "Jump_near_IMM", "Jump_far_IMM",
  "Call_near_IMM", "Call_far_IMM", "OpcFF_word_RM", "Ret_near", "Ret_near_IMM", "Ret_far",
  "Ret_far_IMM", "Loopne", "Loope", "Loop", "Jcxz"}

Interrupts(n, i) ==
  CASE i.op = "Int3" -> Int3(n, i) [] i.op = "Int_IMM" -> Int_IMM(n, i)
    [] i.op = "Into" -> Into(n, i) [] i.op = "Iret" -> Iret(n, i)
    [] i.op = "Hlt" -> Hlt(n, i)   [] i.op = "Illegal_op" -> Illegal_op(n, i)
    [] i.op = "Unimplemented" -> Unimplemented(n, i)
InterruptOps == {"Int3", "Int_IMM", "Into", "Iret", "Hlt", "Illegal_op", "Unimplemented"}

FlagsAndPorts(n, i) ==
  CASE i.op = "Nop" -> Nop(n, i) [] i.op = "Hint" -> Hint(n, i)
    [] i.op = "Cmc" -> Cmc(n, i) [] i.op = "Clc" -> Clc(n, i) [] i.op = "Stc" -> Stc(n, i)
    [] i.op = "Cli" -> Cli(n, i) [] i.op = "Sti" -> Sti(n, i)
    [] i.op = "Cld" -> Cld(n, i) [] i.op = "Std" -> Std(n, i)
    [] i.op = "In_A" -> In_A(n, i) [] i.op = "Out_A" -> Out_A(n, i)
FlagAndPortOps == {"Nop", "Hint", "Cmc", "Clc", "Stc", "Cli", "Sti", "Cld", "Std", "In_A", "Out_A"}

Systems(n, i) ==
  CASE i.op = "LoadTable" -> LoadTable(n, i)   [] i.op = "SystemTable" -> SystemTable(n, i)
    [] i.op = "Clts" -> Clts(n, i)
    [] i.op = "Mov_RM_CRx" -> Mov_RM_CRx(n, i) [] i.op = "Mov_RM_DRx" -> Mov_RM_DRx(n, i)
    [] i.op = "Mov_CRx_RM" -> Mov_CRx_RM(n, i) [] i.op = "Mov_DRx_RM" -> Mov_DRx_RM(n, i)
    [] i.op = "Wrmsr" -> Wrmsr(n, i) [] i.op = "Rdmsr" -> Rdmsr(n, i)
    [] i.op = "Rdtsc" -> Rdtsc(n, i) [] i.op = "Rdpmc" -> Rdpmc(n, i)
SystemOps == {"LoadTable", "SystemTable", "Clts", "Mov_RM_CRx", "Mov_RM_DRx", "Mov_CRx_RM",
  "Mov_DRx_RM", "Wrmsr", "Rdmsr", "Rdtsc", "Rdpmc"}

Sses(n, i) ==
  CASE i.op \in {"movups", "movaps"} -> SSEmovops(n, i)
    [] i.op \in {"movlps", "movhps"} -> SSEmovpackedops(n, i)
    [] i.op \in {"unpckl", "unpckh"} -> SSEpackops(n, i)
    [] i.op \in {"andps", "andnps", "orps", "xorps"} -> SSElogicalops(n, i)
SseOps == {"movups", "movaps", "movlps", "movhps", "unpckl", "unpckh", "andps", "andnps", "orps", "xorps"}

(***************************************************************************)
(* The loop.  A halted processor ends the run, and so does the budget; a   *)
(* host that divided by zero or overflowed is gone.                        *)
(***************************************************************************)
Here == Addr(m, CS, m.eip)

\* The instruction that the next pass executes, if there is one.
Current ==
  IF run = "running" /\ m.tsc < Budget
  THEN LET code == program.at IN {code[a] : a \in DOMAIN code \cap {Here}}
  ELSE {}

Outcome(n) == CASE n.host = "dead" -> "dead"
                [] n.host # "dead" /\ "HALTED" \in n.mode -> "halted"
                [] OTHER -> "running"

Execute(i, ops, Handler(_, _)) ==
  /\ i.op \in ops
  /\ left' = Handler(Fetched(m, i), i)
  /\ m' = IF left'.host = "dead" THEN left' ELSE Retired(left')
  /\ run' = Outcome(left')
  /\ UNCHANGED program

DoArithmetic(i) == Execute(i, ArithmeticOps, Arithmetics)
DoDecimal(i) == Execute(i, DecimalOps, Decimals)
DoShift(i) == Execute(i, ShiftOps, Shifts)
DoBits(i) == Execute(i, BitOps, Bits)
DoStack(i) == Execute(i, StackOps, Stacks)
DoMove(i) == Execute(i, MoveOps, Moves)
DoString(i) == Execute(i, StringOps, Strings)
DoBranch(i) == Execute(i, BranchOps, Branches)
DoInterrupt(i) == Execute(i, InterruptOps, Interrupts)
DoFlagOrPort(i) == Execute(i, FlagAndPortOps, FlagsAndPorts)
DoSystem(i) == Execute(i, SystemOps, Systems)
DoSse(i) == Execute(i, SseOps, Sses)

\* The budget is looked at before the next instruction is fetched.
OutOfBudget ==
  /\ run = "running" /\ m.tsc >= Budget
  /\ run' = "out of budget"
  /\ UNCHANGED <<program, m, left>>

Leaves ==
  /\ run = "running" /\ m.tsc < Budget /\ Current = {}
  /\ run' = "left"
  /\ UNCHANGED <<program, m, left>>

Next == \/ \E i \in Current :
             \/ DoArithmetic(i) \/ DoDecimal(i) \/ DoShift(i) \/ DoBits(i)
             \/ DoStack(i) \/ DoMove(i) \/ DoString(i) \/ DoBranch(i)
             \/ DoInterrupt(i) \/ DoFlagOrPort(i) \/ DoSystem(i) \/ DoSse(i)
        \/ OutOfBudget
        \/ Leaves

Spec == Init /\ [][Next]_vars
=============================================================================
