-------------------------- MODULE VirtualMachineProofs --------------------------
(***************************************************************************)
(* What the operating system promises holds for every depth of simulation  *)
(* and for every code of the guests: the machine implements the tower of   *)
(* processes, one instruction at a time.                                   *)
(*                                                                         *)
(* The argument: while the budget of the iteration is unspent, a process   *)
(* below the one on the processor has its registers in the block it saved  *)
(* them to, at a STEP.  The instruction that spends the budget ends all    *)
(* these STEPs at once in the tower; the host, which undoes its recursion  *)
(* level by level, only catches up with that.                              *)
(***************************************************************************)
EXTENDS VirtualMachine, TLAPS

\* The code is what the programs are promised to be.
SoundCode == code \in [Level -> [Addr -> Instruction]] /\ WellFormed(code)

\* The budget of an iteration is one instruction, spent or not.
Budget ==
  /\ R_TSC \in {max_instr - 1, max_instr}
  /\ pc \in {"loop", "execute"} => R_TSC = max_instr - 1
  /\ pc = "executed" => R_TSC = max_instr

\* Where the registers on the processor point: to an instruction, except at the
\* end of main, and to one of the processor when x86emu_run is to execute it.
Executable ==
  /\ emu.EIP \in 1..(CodeSize + 1)
  /\ level > 0 \/ pc = "execute" => emu.EIP \in Addr
  /\ pc = "run" /\ R_TSC < max_instr => emu.EIP \in Addr /\ ~IsVMI(Instr.op)
  /\ pc \in {"loop", "stopped"} => level = 0

\* A process in the blocks stands on an instruction, and the one that waits
\* for its slave on a STEP, as the block below it still says.
Waiting ==
  /\ \A k \in Level : slave[k].EIP \in Addr
  /\ \A k \in 0..(level - 1) : master[k].EIP \in Addr /\ code[k][master[k].EIP].op = "STEP"
  /\ \A k \in 1..(level - 1) : slave[k].EIP = master[k].EIP

\* The block of the process on the processor still tells the instruction it was
\* to execute: the one it is about to, or the one it has executed, unless that
\* was one of the virtual machine.
AsEntered ==
  /\ level > 0 /\ pc = "execute" => emu = slave[level]
  /\ level > 0 /\ ~IsVMI(code[level][slave[level].EIP].op) =>
       IF R_TSC < max_instr THEN emu = slave[level]
       ELSE line_of_code = <<level, slave[level].EIP>>

\* The mode is that of the process that has executed.
HaltIsOwn ==
  pc = "executed" /\ halted =>
    line_of_code[1] = level /\ code[level][line_of_code[2]].op = "HLT"

IInv ==
  /\ TypeOK /\ SoundCode /\ Budget /\ Executable /\ Waiting /\ AsEntered /\ HaltIsOwn
  /\ OnlyMainHalts

-----------------------------------------------------------------------------
(* Instructions and registers.                                             *)

\* What the constants promise of the instruction at an address of a process.
LEMMA CodeFacts ==
  ASSUME SoundCode, NEW k \in Level, NEW a \in Addr
  PROVE  /\ code[k][a].op \in Op
         /\ code[k][a].op = "JMP" => code[k][a].target \in Addr
         /\ code[k][a].op \in {"SAVE", "VMI"} => a + 1 \in Addr /\ ~IsVMI(code[k][a + 1].op)
         /\ code[k][a].op \in {"STEP", "SAVE", "ENTER"} => k + 1 \in Level
         /\ k > 0 /\ code[k][a].op # "JMP" => a + 1 \in Addr
<1>1. code[k][a] \in Instruction
  BY DEF SoundCode
<1>2. /\ code[k][a].op = "JMP" => code[k][a].target \in Addr
      /\ code[k][a].op = "SAVE" => a + 1 \in Addr /\ code[k][a + 1].op = "ENTER"
      /\ code[k][a].op = "VMI" => a + 1 \in Addr /\ ~IsVMI(code[k][a + 1].op)
      /\ k = Top => code[k][a].op \notin {"STEP", "SAVE", "ENTER"}
  BY DEF SoundCode, WellFormed
<1>3. k > 0 => code[k][CodeSize].op = "JMP"
  BY GuestAssumption DEF SoundCode, WellFormed, Level
<1> QED
  BY <1>1, <1>2, <1>3, GuestAssumption DEF Instruction, Level, Addr, IsVMI

\* An instruction of the processor leaves registers, which go on where it leads.
LEMMA ExecutedRegisters ==
  ASSUME NEW i \in Instruction, NEW r \in Registers
  PROVE  /\ Executed(i, r) \in Registers
         /\ Executed(i, r).EIP = IF i.op = "JMP" THEN i.target ELSE r.EIP + 1
<1>1. i.target \in Int
  BY GuestAssumption DEF Instruction, Addr
<1>2. Next_EIP(r) \in Registers /\ Next_EIP(r).EIP = r.EIP + 1
  BY DEF Next_EIP, Registers
<1>3. CASE i.op = "INC"
  <2>1. Executed(i, r) = [Next_EIP(r) EXCEPT !.ACC = (@ + 1) % (MaxACC + 1)]
    BY <1>3 DEF Executed
  <2>2. (Next_EIP(r).ACC + 1) % (MaxACC + 1) \in 0..MaxACC
    BY <1>2, GuestAssumption DEF Registers
  <2> QED
    BY <1>2, <1>3, <2>1, <2>2 DEF Registers
<1>4. CASE i.op = "JMP"
  BY <1>1, <1>4 DEF Executed, Registers
<1>5. CASE i.op \notin {"INC", "JMP"}
  <2>1. Executed(i, r) = Next_EIP(r)
    BY <1>5 DEF Executed
  <2> QED
    BY <1>2, <1>5, <2>1
<1> QED
  BY <1>3, <1>4, <1>5

\* The process on the processor is about to execute an instruction of its own.
LEMMA AtInstruction ==
  ASSUME IInv, pc = "execute" \/ (pc = "run" /\ R_TSC < max_instr)
  PROVE  /\ level \in Level /\ emu.EIP \in Addr
         /\ emu \in Registers
         /\ Instr \in Instruction
         /\ R_TSC = max_instr - 1 /\ R_TSC < max_instr
<1>1. level \in Level /\ emu.EIP \in Addr /\ emu \in Registers
  BY DEF IInv, TypeOK, Executable
<1>2. Instr \in Instruction
  BY <1>1 DEF Instr, IInv, SoundCode
<1> QED
  BY <1>1, <1>2 DEF IInv, Budget, TypeOK

-----------------------------------------------------------------------------
(* The invariant.                                                          *)

\* The invariant holds at the beginning.
LEMMA InvInit == Init => IInv
<1> SUFFICES ASSUME Init PROVE IInv
  OBVIOUS
<1> USE GuestAssumption DEF Init
<1>1. Start \in Registers /\ Start.EIP \in Addr /\ 0 \in Level
  BY DEF Start, Registers, Addr, Level
<1>2. TypeOK
  <2>1. <<0, 0>> \in Line
    BY <1>1 DEF Line
  <2>2. line_of_code \in Line /\ decoded \in [Level -> Line]
    BY <2>1
  <2>3. /\ emu \in Registers
        /\ master \in [Level -> Registers] /\ slave \in [Level -> Registers]
    BY <1>1
  <2>4. halted \in BOOLEAN /\ level \in Level
    BY <1>1
  <2>5. R_TSC \in Nat /\ max_instr \in Nat /\ Saved_EIP \in 0..CodeSize
    OBVIOUS
  <2>6. /\ pc \in {"loop", "execute", "run", "executed", "stopped"}
        /\ Halt_Status \in {EXECUTING, HALTED}
    OBVIOUS
  <2> QED
    BY ONLY <2>2, <2>3, <2>4, <2>5, <2>6 DEF TypeOK
<1>3. SoundCode
  BY DEF SoundCode
<1>4. Budget /\ Executable
  BY <1>1 DEF Budget, Executable, Addr
<1>5. Waiting /\ AsEntered /\ HaltIsOwn /\ OnlyMainHalts
  BY <1>1 DEF Waiting, AsEntered, HaltIsOwn, OnlyMainHalts, EXECUTING, HALTED
<1> QED
  BY <1>2, <1>3, <1>4, <1>5 DEF IInv

\* The loop of Halts keeps the invariant.
LEMMA LoopStep ==
  ASSUME IInv, Loop
  PROVE  IInv'
<1> USE DEF Loop, blocks
<1>1. TypeOK'
  BY DEF IInv, TypeOK, Executable, Level, code_end
<1>2. SoundCode' /\ Budget'
  BY DEF IInv, SoundCode, Budget
<1>3. Executable'
  BY DEF IInv, Executable, Budget, code_end, Addr
<1>4. Waiting' /\ AsEntered'
  BY DEF IInv, Waiting, AsEntered, Executable
<1>5. HaltIsOwn' /\ OnlyMainHalts'
  BY DEF IInv, HaltIsOwn, OnlyMainHalts
<1> QED
  BY <1>1, <1>2, <1>3, <1>4, <1>5 DEF IInv

\* The end of an iteration, and of main, keep the invariant.
LEMMA TestStep ==
  ASSUME IInv, Test_Halting
  PROVE  IInv'
<1> USE DEF Test_Halting, blocks
<1>1. TypeOK'
  BY DEF IInv, TypeOK, EXECUTING, HALTED
<1>2. SoundCode' /\ Budget'
  BY DEF IInv, TypeOK, SoundCode, Budget
<1>3. Executable'
  BY DEF IInv, Executable
<1>4. Waiting' /\ AsEntered'
  BY DEF IInv, Waiting, AsEntered
<1>5. HaltIsOwn' /\ OnlyMainHalts'
  BY MachineAssumption
  DEF IInv, TypeOK, HaltIsOwn, OnlyMainHalts, EXECUTING, HALTED
<1> QED
  BY <1>1, <1>2, <1>3, <1>4, <1>5 DEF IInv

\* A call of DebugStep keeps the invariant.
LEMMA BeginStep ==
  ASSUME IInv, BeginDebugStep
  PROVE  IInv'
<1> USE DEF BeginDebugStep
<1>1. level + 1 \in Level /\ level \in Level
  BY AtInstruction, CodeFacts DEF Instr, IInv
<1>2. TypeOK'
  BY <1>1 DEF IInv, TypeOK
<1>3. SoundCode' /\ Budget'
  BY DEF IInv, SoundCode, Budget
<1>4. Executable'
  <2>1. emu'.EIP \in Addr
    BY <1>1 DEF IInv, Waiting
  <2> QED
    BY <2>1, GuestAssumption DEF IInv, Executable, Addr
<1>5. Waiting'
  <2>1. \A k \in 0..(level' - 1) :
          master'[k].EIP \in Addr /\ code'[k][master'[k].EIP].op = "STEP"
    <3> SUFFICES ASSUME NEW k \in 0..level
                 PROVE  master'[k].EIP \in Addr /\ code[k][master'[k].EIP].op = "STEP"
      BY <1>1 DEF Level
    <3>1. CASE k = level
      BY <1>1, <3>1, AtInstruction DEF Instr, IInv, TypeOK
    <3>2. CASE k # level
      BY <1>1, <3>2 DEF IInv, TypeOK, Waiting, Level
    <3> QED
      BY <3>1, <3>2
  <2>2. \A k \in 1..(level' - 1) : slave'[k].EIP = master'[k].EIP
    <3> SUFFICES ASSUME NEW k \in 1..level
                 PROVE  slave[k].EIP = master'[k].EIP
      BY <1>1 DEF Level
    <3>1. CASE k = level
      BY <1>1, <3>1 DEF IInv, TypeOK, AsEntered
    <3>2. CASE k # level
      BY <1>1, <3>2 DEF IInv, TypeOK, Waiting, Level
    <3> QED
      BY <3>1, <3>2
  <2> QED
    BY <2>1, <2>2 DEF IInv, Waiting
<1>6. AsEntered'
  BY <1>1, AtInstruction DEF IInv, AsEntered
<1>7. HaltIsOwn' /\ OnlyMainHalts'
  BY DEF IInv, HaltIsOwn, OnlyMainHalts
<1> QED
  BY <1>2, <1>3, <1>4, <1>5, <1>6, <1>7 DEF IInv

\* A call of SaveState keeps the invariant.
LEMMA SaveStep ==
  ASSUME IInv, SaveState
  PROVE  IInv'
<1> USE DEF SaveState
<1>1. /\ level + 1 \in Level /\ level \in Level
      /\ emu.EIP + 1 \in Addr /\ ~IsVMI(code[level][emu.EIP + 1].op)
  BY AtInstruction, CodeFacts DEF Instr, IInv
<1>2. emu' \in Registers /\ emu'.EIP = emu.EIP + 1
  BY AtInstruction DEF Registers
<1>3. TypeOK'
  BY <1>1, <1>2 DEF IInv, TypeOK
<1>4. SoundCode' /\ Budget'
  BY DEF IInv, SoundCode, Budget
<1>5. Executable'
  BY <1>1, <1>2, GuestAssumption DEF IInv, Executable, Addr, Instr
<1>6. Waiting'
  BY <1>1, AtInstruction DEF IInv, TypeOK, Waiting, Level
<1>7. AsEntered'
  <2>1. level > 0 => IsVMI(code[level][slave[level].EIP].op)
    BY DEF IInv, AsEntered, Instr, IsVMI
  <2> QED
    BY <1>1, <2>1 DEF IInv, TypeOK, AsEntered, Level
<1>8. HaltIsOwn' /\ OnlyMainHalts'
  BY DEF IInv, HaltIsOwn, OnlyMainHalts
<1> QED
  BY <1>3, <1>4, <1>5, <1>6, <1>7, <1>8 DEF IInv

\* Any other instruction of the virtual machine keeps the invariant.
LEMMA VirtualStep ==
  ASSUME IInv, Virtual_Machine_Instruction
  PROVE  IInv'
<1> USE DEF Virtual_Machine_Instruction, blocks
<1>1. /\ level \in Level
      /\ emu.EIP + 1 \in Addr /\ ~IsVMI(code[level][emu.EIP + 1].op)
  BY AtInstruction, CodeFacts DEF Instr, IInv
<1>2. emu' \in Registers /\ emu'.EIP = emu.EIP + 1
  <2>1. emu \in Registers
    BY AtInstruction
  <2>2. emu' = [EIP |-> emu.EIP + 1, EAX |-> 1, ACC |-> emu.ACC]
    BY <2>1 DEF Registers
  <2>3. emu.EIP + 1 \in Int /\ emu.ACC \in 0..MaxACC
    BY <2>1 DEF Registers
  <2> QED
    BY ONLY <2>2, <2>3 DEF Registers
<1>3. TypeOK'
  BY <1>2 DEF IInv, TypeOK
<1>4. SoundCode' /\ Budget'
  BY DEF IInv, SoundCode, Budget
<1>5. Executable'
  BY <1>1, <1>2, GuestAssumption DEF IInv, Executable, Addr, Instr
<1>6. Waiting'
  BY DEF IInv, Waiting
<1>7. AsEntered'
  <2>1. level > 0 => IsVMI(code[level][slave[level].EIP].op)
    BY DEF IInv, AsEntered, Instr, IsVMI
  <2> QED
    BY <2>1 DEF IInv, AsEntered
<1>8. HaltIsOwn' /\ OnlyMainHalts'
  BY DEF IInv, HaltIsOwn, OnlyMainHalts
<1> QED
  BY <1>3, <1>4, <1>5, <1>6, <1>7, <1>8 DEF IInv

\* Leaving an instruction to the processor keeps the invariant.
LEMMA NotVirtualStep ==
  ASSUME IInv, NotVirtual
  PROVE  IInv'
<1> USE DEF NotVirtual, blocks
<1>1. TypeOK'
  BY DEF IInv, TypeOK
<1>2. SoundCode' /\ Budget'
  BY DEF IInv, SoundCode, Budget
<1>3. Executable'
  BY DEF IInv, Executable, Instr
<1>4. Waiting' /\ AsEntered'
  BY AtInstruction DEF IInv, Waiting, AsEntered
<1>5. HaltIsOwn' /\ OnlyMainHalts'
  BY DEF IInv, HaltIsOwn, OnlyMainHalts
<1> QED
  BY <1>1, <1>2, <1>3, <1>4, <1>5 DEF IInv

\* Its execution, within the budget, keeps the invariant.
LEMMA RunStep ==
  ASSUME IInv, RunInstruction
  PROVE  IInv'
<1> USE DEF RunInstruction
<1>1. /\ level \in Level /\ emu.EIP \in Addr
      /\ Instr \in Instruction /\ emu \in Registers
      /\ R_TSC = max_instr - 1 /\ R_TSC' = max_instr
  BY AtInstruction DEF IInv, TypeOK
<1>2. /\ emu' \in Registers
      /\ emu'.EIP = IF Instr.op = "JMP" THEN Instr.target ELSE emu.EIP + 1
  BY <1>1, ExecutedRegisters
<1>3. /\ slave' \in [Level -> Registers]
      /\ \A k \in Level : slave'[k].EIP \in Addr
      /\ \A k \in Level : k # level + 1 => slave'[k] = slave[k]
  <2>1. CASE Instr.op = "ENTER"
    <3>1. level + 1 \in Level
      BY <1>1, <2>1, CodeFacts DEF Instr, IInv
    <3>2. slave \in [Level -> Registers]
      BY DEF IInv, TypeOK
    <3>3. [slave[level + 1] EXCEPT !.EIP = 1] \in Registers
      BY <3>1, <3>2 DEF Registers
    <3>4. [slave[level + 1] EXCEPT !.EIP = 1].EIP = 1
      BY <3>1, <3>2 DEF Registers
    <3>5. slave' = [slave EXCEPT ![level + 1] = [slave[level + 1] EXCEPT !.EIP = 1]]
      BY <2>1
    <3>6. 1 \in Addr
      BY GuestAssumption DEF Addr
    <3> QED
      BY <3>1, <3>2, <3>3, <3>4, <3>5, <3>6 DEF IInv, Waiting
  <2>2. CASE Instr.op # "ENTER"
    BY <2>2 DEF IInv, TypeOK, Waiting
  <2> QED
    BY <2>1, <2>2
<1>4. TypeOK'
  <2>1. line_of_code' \in Line
    BY <1>1, GuestAssumption DEF Line, Addr
  <2> QED
    BY <1>1, <1>2, <1>3, <2>1 DEF IInv, TypeOK
<1>5. SoundCode' /\ Budget'
  BY <1>1 DEF IInv, TypeOK, SoundCode, Budget
<1>6. Executable'
  <2>1. Instr.op = "JMP" => Instr.target \in Addr
    BY <1>1, CodeFacts DEF Instr, IInv
  <2>2. level > 0 /\ Instr.op # "JMP" => emu.EIP + 1 \in Addr
    BY <1>1, CodeFacts DEF Instr, IInv
  <2> QED
    BY <1>1, <1>2, <2>1, <2>2, GuestAssumption, SMTT(30) DEF IInv, TypeOK, Executable, Addr
<1>7. Waiting'
  BY <1>1, <1>3 DEF IInv, Waiting, Level
<1>8. AsEntered'
  <2>1. slave'[level] = slave[level]
    BY <1>1, <1>3 DEF Level
  <2>2. level > 0 /\ ~IsVMI(code[level][slave[level].EIP].op) => emu = slave[level]
    BY <1>1 DEF IInv, AsEntered
  <2>3. /\ line_of_code' = <<level, emu.EIP>>
        /\ code' = code /\ level' = level /\ ~(R_TSC' < max_instr') /\ pc' # "execute"
    BY <1>1 DEF IInv, TypeOK
  <2> QED
    BY <2>1, <2>2, <2>3 DEF AsEntered
<1>9. HaltIsOwn' /\ OnlyMainHalts'
  BY <1>1 DEF IInv, HaltIsOwn, OnlyMainHalts, Instr
<1> QED
  BY <1>4, <1>5, <1>6, <1>7, <1>8, <1>9 DEF IInv

\* A budget that is used up keeps the invariant.
LEMMA RunOutStep ==
  ASSUME IInv, RunOut
  PROVE  IInv'
<1> USE DEF RunOut, blocks
<1>1. TypeOK'
  BY DEF IInv, TypeOK
<1>2. SoundCode' /\ Budget'
  BY DEF IInv, TypeOK, SoundCode, Budget
<1>3. Executable'
  BY DEF IInv, Executable
<1>4. Waiting' /\ AsEntered'
  BY DEF IInv, Waiting, AsEntered
<1>5. HaltIsOwn' /\ OnlyMainHalts'
  BY DEF IInv, HaltIsOwn, OnlyMainHalts
<1> QED
  BY <1>1, <1>2, <1>3, <1>4, <1>5 DEF IInv

\* The return of DebugStep to its caller keeps the invariant.
LEMMA EndStep ==
  ASSUME IInv, EndDebugStep
  PROVE  IInv'
<1> USE DEF EndDebugStep
<1>1. /\ level \in Level /\ level - 1 \in Level /\ level > 0
      /\ R_TSC = max_instr
  BY GuestAssumption DEF IInv, TypeOK, Budget, Level
<1>2. /\ master[level - 1] \in Registers
      /\ master[level - 1].EIP \in Addr
      /\ code[level - 1][master[level - 1].EIP].op = "STEP"
  BY <1>1 DEF IInv, TypeOK, Waiting, Level
<1>3. /\ emu' \in Registers
      /\ emu'.EIP = master[level - 1].EIP + 1
  <2>1. emu' = [EIP |-> master[level - 1].EIP + 1, EAX |-> 0, ACC |-> master[level - 1].ACC]
    BY <1>2 DEF Registers, EXECUTING
  <2>2. master[level - 1].EIP + 1 \in Int /\ master[level - 1].ACC \in 0..MaxACC
    BY <1>2 DEF Registers
  <2> QED
    BY ONLY <2>1, <2>2 DEF Registers
<1>4. TypeOK'
  BY <1>1, <1>3 DEF IInv, TypeOK
<1>5. SoundCode' /\ Budget'
  BY <1>1 DEF IInv, TypeOK, SoundCode, Budget
<1>6. Executable'
  <2>1. level - 1 > 0 => master[level - 1].EIP + 1 \in Addr
    BY <1>1, <1>2, CodeFacts DEF IInv
  <2> QED
    BY <1>1, <1>2, <1>3, <2>1, GuestAssumption DEF IInv, TypeOK, Executable, Addr
<1>7. Waiting'
  <2>1. emu.EIP \in Addr
    BY DEF IInv, Executable
  <2> QED
    BY <1>1, <2>1 DEF IInv, TypeOK, Waiting, Level
<1>8. AsEntered'
  <2>1. level' > 0 => slave'[level'].EIP = master[level'].EIP
    BY <1>1 DEF IInv, TypeOK, Waiting, Level
  <2> QED
    BY <1>1, <1>2, <2>1 DEF IInv, AsEntered, IsVMI
<1>9. HaltIsOwn' /\ OnlyMainHalts'
  BY DEF IInv, HaltIsOwn, OnlyMainHalts
<1> QED
  BY <1>4, <1>5, <1>6, <1>7, <1>8, <1>9 DEF IInv

\* Stuttering keeps the invariant.
LEMMA Unchanged ==
  ASSUME IInv, UNCHANGED vars
  PROVE  IInv'
BY DEF IInv, vars, TypeOK, SoundCode, Budget, Executable, Waiting, AsEntered, HaltIsOwn,
   OnlyMainHalts, Instr

\* Every step keeps the invariant.
LEMMA InvStep == IInv /\ [Next]_vars => IInv'
BY LoopStep, TestStep, BeginStep, SaveStep, VirtualStep, NotVirtualStep, RunStep, RunOutStep,
   EndStep, Unchanged DEF Next, Execute_Instruction

\* The invariant holds always.
LEMMA Invariant == Spec => []IInv
BY InvInit, InvStep, PTL DEF Spec

-----------------------------------------------------------------------------
(* The theorems.                                                           *)

\* The registers, blocks and locals of x86utm.cpp hold what they are meant to.
THEOREM TypeCorrect == Spec => []TypeOK
<1>1. IInv => TypeOK
  BY DEF IInv
<1> QED
  BY <1>1, Invariant, PTL

\* An iteration of Halts spends the budget of one instruction, however deep the
\* recursion of DebugStep and however many calls of x86emu_run it is made of.
THEOREM BudgetIsOneInstruction == Spec => []OneInstructionPerIteration
<1>1. IInv => OneInstructionPerIteration
  BY DEF IInv, Budget, OneInstructionPerIteration
<1> QED
  BY <1>1, Invariant, PTL

\* Halts is not stopped by the HLT of a simulated process.
THEOREM SlavesNeverHaltMachine == Spec => []OnlyMainHalts
<1>1. IInv => OnlyMainHalts
  BY DEF IInv
<1> QED
  BY <1>1, Invariant, PTL

\* A call of DebugStep reports the instruction its own slave has executed, not
\* one of a process further up.
THEOREM StepsAreReported == Spec => StepReportsInstruction
<1>1. ASSUME IInv, [Next]_vars,
             level > 0, level' = level - 1,
             slave[level].EIP \in Addr, ~IsVMI(code[level][slave[level].EIP].op)
      PROVE  decoded'[level'] = <<level, slave[level].EIP>>
  <2>1. level \in Nat /\ level' # level
    BY <1>1, GuestAssumption DEF IInv, TypeOK, Level
  <2>2. EndDebugStep
    BY <1>1, <2>1 DEF Next, Execute_Instruction, Loop, Test_Halting, BeginDebugStep, SaveState,
       Virtual_Machine_Instruction, NotVirtual, RunInstruction, RunOut, vars
  <2>3. line_of_code = <<level, slave[level].EIP>>
    BY <1>1, <2>2 DEF EndDebugStep, IInv, TypeOK, Budget, AsEntered
  <2>4. level - 1 \in Level
    BY <1>1, GuestAssumption DEF IInv, TypeOK, Level
  <2> QED
    BY <2>2, <2>3, <2>4, <1>1 DEF EndDebugStep, IInv, TypeOK
<1>2. IInv /\ [Next]_vars =>
        [(level > 0 /\ level' = level - 1
            /\ slave[level].EIP \in Addr /\ ~IsVMI(code[level][slave[level].EIP].op))
          => decoded'[level'] = <<level, slave[level].EIP>>]_vars
  BY <1>1
<1> QED
  BY <1>2, Invariant, PTL DEF Spec, StepReportsInstruction

-----------------------------------------------------------------------------
(* The tower of processes.                                                 *)

\* The tower speaks of the same code.
LEMMA SameCode ==
  /\ Guests!Level = Level /\ Guests!Addr = Addr /\ Guests!Instruction = Instruction
  /\ Guests!Start = Start
  /\ \A c : Guests!WellFormed(c) <=> WellFormed(c)
  /\ \A i, r : Guests!Executed(i, r) = Executed(i, r)
  /\ \A r : Guests!Stepped(r) = Stepped(r) /\ Guests!Next_EIP(r) = Next_EIP(r)
  /\ \A op : Guests!IsVMI(op) <=> IsVMI(op)
<1>1. /\ Guests!Level = Level /\ Guests!Addr = Addr
      /\ Guests!Start = Start
      /\ \A op : Guests!IsVMI(op) <=> IsVMI(op)
      /\ \A r : Guests!Next_EIP(r) = Next_EIP(r)
  BY DEF Guests!Level, Level, Guests!Addr, Addr, Guests!Start, Start,
     Guests!IsVMI, IsVMI, Guests!Next_EIP, Next_EIP
<1>2. Guests!Instruction = Instruction
  BY DEF Guests!Instruction, Instruction, Guests!Op, Op, Guests!Addr, Addr
<1>3. \A c : Guests!WellFormed(c) <=> WellFormed(c)
  BY <1>1 DEF Guests!WellFormed, WellFormed
<1>4. \A i, r : Guests!Executed(i, r) = Executed(i, r)
  BY <1>1 DEF Guests!Executed, Executed
<1>5. \A r : Guests!Stepped(r) = Stepped(r)
  BY <1>1 DEF Guests!Stepped, Stepped, Guests!EXECUTING, EXECUTING
<1> QED
  BY <1>1, <1>2, <1>3, <1>4, <1>5

\* The registers of the processes of the tower.
Tower == [k \in 0..Top |-> View(k)]

\* The tower of processes begins where the machine begins.
LEMMA ViewInit == Init => Guests!Init
<1> SUFFICES ASSUME Init PROVE Guests!Init
  OBVIOUS
<1>1. code \in [Level -> [Addr -> Instruction]] /\ WellFormed(code)
  BY GuestAssumption DEF Init
<1>2. Tower = [k \in Level |-> Start]
  BY GuestAssumption DEF Init, Tower, View, Level
<1> QED
  BY <1>1, <1>2, SameCode DEF Guests!Init, Tower

\* While the budget is unspent the processes below wait for their STEPs, and
\* the one on the processor is the one to go on.
LEMMA Unspent ==
  ASSUME IInv, pc = "execute" \/ (pc = "run" /\ R_TSC < max_instr)
  PROVE  /\ \A k \in Level : Tower[k] = IF k > level THEN slave[k]
                                        ELSE IF k = level THEN emu ELSE master[k]
         /\ Instr.op # "STEP" => Guests!Running(level)
         /\ Guests!Instr(level) = Instr
<1>1. level \in Level /\ emu.EIP \in Addr /\ R_TSC < max_instr
  BY AtInstruction
<1>2. \A k \in Level : Tower[k] = IF k > level THEN slave[k]
                                 ELSE IF k = level THEN emu ELSE master[k]
  BY <1>1 DEF Tower, View, Level
<1>3. \A k \in 0..level : k \in Level
  BY <1>1, GuestAssumption DEF Level
<1>4. \A k \in Level : Guests!Instr(k) = code[k][Tower[k].EIP]
  BY DEF Guests!Instr, Tower
<1>5. Guests!Instr(level) = Instr
  BY <1>1, <1>2, <1>4 DEF Instr, Level
<1>6. ASSUME Instr.op # "STEP" PROVE Guests!Running(level)
  <2>1. \A j \in 0..level : Tower[j].EIP \in Addr
    BY <1>1, <1>2, <1>3 DEF IInv, Waiting, Level
  <2>2. \A j \in 0..(level - 1) : Guests!Instr(j).op = "STEP"
    BY <1>1, <1>2, <1>3, <1>4 DEF IInv, Waiting, Level
  <2> QED
    BY <1>5, <1>6, <2>1, <2>2, SameCode DEF Guests!Running, Tower
<1> QED
  BY <1>2, <1>5, <1>6

\* A step that leaves what every process sees of its registers.
LEMMA Stutter ==
  ASSUME code' = code, \A k \in Level : View(k)' = View(k)
  PROVE  UNCHANGED Guests!vars
BY DEF Guests!vars, Level

\* The host switches the processor over: nothing has happened in the tower.
LEMMA SwitchStep ==
  ASSUME IInv, BeginDebugStep \/ EndDebugStep
  PROVE  UNCHANGED Guests!vars
<1>1. CASE BeginDebugStep
  <2>1. level + 1 \in Level /\ level \in Level /\ R_TSC < max_instr
    BY <1>1, AtInstruction, CodeFacts DEF BeginDebugStep, Instr, IInv
  <2>2. \A k \in Level : View(k)' = View(k)
    BY <1>1, <2>1 DEF BeginDebugStep, View, Level, IInv, TypeOK
  <2> QED
    BY <1>1, <2>2, Stutter DEF BeginDebugStep
<1>2. CASE EndDebugStep
  <2>1. level \in Level /\ level - 1 \in Level /\ R_TSC = max_instr
    BY <1>2, GuestAssumption DEF EndDebugStep, IInv, TypeOK, Budget, Level
  <2>2. ~(R_TSC < max_instr) /\ ~(R_TSC' < max_instr')
    BY <1>2, <2>1 DEF EndDebugStep, IInv, TypeOK
  <2>3. emu' = [master[level - 1] EXCEPT !.EIP = @ + 1, !.EAX = 0]
    <3>1. master[level - 1] \in Registers
      BY <2>1 DEF IInv, TypeOK
    <3> QED
      BY <1>2, <3>1 DEF EndDebugStep, EXECUTING, Registers
  <2>4. \A k \in Level : View(k)' = View(k)
    <3> SUFFICES ASSUME NEW k \in Level PROVE View(k)' = View(k)
      OBVIOUS
    <3>1. CASE k > level
      BY <1>2, <2>1, <3>1 DEF EndDebugStep, View, Level, IInv, TypeOK
    <3>2. CASE k = level
      BY <1>2, <2>1, <3>2 DEF EndDebugStep, View, Level, IInv, TypeOK
    <3>3. CASE k = level - 1
      BY <1>2, <2>1, <2>2, <2>3, <3>3 DEF EndDebugStep, View, Level
    <3>4. CASE k < level - 1
      BY <1>2, <2>1, <2>2, <3>4 DEF EndDebugStep, View, Level
    <3> QED
      BY <2>1, <3>1, <3>2, <3>3, <3>4 DEF Level
  <2> QED
    BY <1>2, <2>4, Stutter DEF EndDebugStep
<1> QED
  BY <1>1, <1>2

\* Neither do the steps of Halts itself, nor those of Execute_Instruction that
\* execute nothing.
LEMMA HostStep ==
  ASSUME IInv, Loop \/ Test_Halting \/ NotVirtual \/ RunOut \/ UNCHANGED vars
  PROVE  UNCHANGED Guests!vars
<1>1. code' = code /\ emu' = emu /\ level' = level /\ master' = master /\ slave' = slave
      /\ R_TSC' = R_TSC
  BY DEF Loop, Test_Halting, NotVirtual, RunOut, vars, blocks
<1>2. level = 0 \/ max_instr' = max_instr
  BY DEF Loop, Test_Halting, NotVirtual, RunOut, vars, blocks
<1>3. level \in Level
  BY DEF IInv, TypeOK
<1>4. \A k \in Level : View(k)' = View(k)
  BY <1>1, <1>2, <1>3 DEF View, Level
<1> QED
  BY <1>1, <1>4, Stutter

\* A call of the virtual machine is one of the process on the processor.
LEMMA CallStep ==
  ASSUME IInv, SaveState \/ Virtual_Machine_Instruction
  PROVE  Guests!Next
<1>1. /\ level \in Level /\ emu \in Registers
      /\ Guests!Running(level) /\ Guests!Instr(level) = Instr
      /\ \A k \in Level : Tower[k] = IF k > level THEN slave[k]
                                     ELSE IF k = level THEN emu ELSE master[k]
      /\ R_TSC < max_instr
  BY AtInstruction, Unspent DEF SaveState, Virtual_Machine_Instruction
<1>2. R_TSC' < max_instr' /\ level' = level /\ master' = master /\ code' = code
  BY <1>1 DEF SaveState, Virtual_Machine_Instruction, blocks
<1>3. CASE SaveState
  <2>1. level + 1 \in Level
    BY <1>1, <1>3, AtInstruction, CodeFacts DEF SaveState, Instr, IInv
  <2>2. emu' = Next_EIP(emu) /\ slave' = [slave EXCEPT ![level + 1] = emu]
    BY <1>3 DEF SaveState, Next_EIP
  <2>3. Tower' = [Tower EXCEPT ![level + 1] = Tower[level],
                               ![level] = Next_EIP(@)]
    <3>1. \A k \in Level : View(k)' = IF k = level THEN Next_EIP(Tower[level])
                                      ELSE IF k = level + 1 THEN Tower[level] ELSE Tower[k]
      BY <1>1, <1>2, <2>1, <2>2 DEF View, Level, IInv, TypeOK
    <3>2. level \in Int
      BY <1>1, GuestAssumption DEF Level
    <3>3. /\ Tower' = [k \in Level |-> View(k)']
          /\ Tower = [k \in Level |-> Tower[k]]
      BY DEF Tower, Level
    <3> QED
      BY ONLY <1>1, <2>1, <3>1, <3>2, <3>3
  <2>4. Guests!Save(level)
    BY <1>1, <1>2, <1>3, <2>3, SameCode DEF Guests!Save, Tower, SaveState
  <2> QED
    BY <1>1, <2>4, SameCode DEF Guests!Next
<1>4. CASE Virtual_Machine_Instruction
  <2>1. emu' = [Next_EIP(emu) EXCEPT !.EAX = 1] /\ slave' = slave
    BY <1>1, <1>4 DEF Virtual_Machine_Instruction, Next_EIP, blocks, Registers
  <2>2. Tower' = [Tower EXCEPT ![level] = [Next_EIP(@) EXCEPT !.EAX = 1]]
    <3> DEFINE r == [Next_EIP(Tower[level]) EXCEPT !.EAX = 1]
    <3>1. \A k \in Level : View(k)' = IF k = level THEN r ELSE Tower[k]
      BY <1>1, <1>2, <2>1 DEF View, Level
    <3>2. level \in Level
      BY <1>1
    <3> HIDE DEF r
    <3>3. /\ Tower' = [k \in Level |-> View(k)']
          /\ Tower = [k \in Level |-> Tower[k]]
      BY DEF Tower, Level
    <3>4. Tower' = [Tower EXCEPT ![level] = r]
      BY ONLY <3>1, <3>2, <3>3
    <3> QED
      BY <3>4 DEF r
  <2>3. Guests!VMI(level)
    BY <1>1, <1>2, <1>4, <2>2, SameCode DEF Guests!VMI, Tower, Virtual_Machine_Instruction
  <2> QED
    BY <1>1, <2>3, SameCode DEF Guests!Next
<1> QED
  BY <1>3, <1>4

\* The instruction of the processor is executed in its own process and ends the
\* STEPs of all those below.
LEMMA InstructionStep ==
  ASSUME IInv, RunInstruction
  PROVE  Guests!Next
<1>1. /\ level \in Level /\ emu \in Registers
      /\ ~IsVMI(Instr.op)
      /\ Guests!Running(level) /\ Guests!Instr(level) = Instr
      /\ \A k \in Level : Tower[k] = IF k > level THEN slave[k]
                                     ELSE IF k = level THEN emu ELSE master[k]
      /\ R_TSC < max_instr /\ R_TSC + 1 = max_instr
  BY AtInstruction, Unspent DEF RunInstruction, IInv, TypeOK, Executable, IsVMI
<1>2. /\ ~(R_TSC' < max_instr') /\ level' = level /\ master' = master /\ code' = code
      /\ emu' = Executed(Instr, emu)
  BY <1>1 DEF RunInstruction, IInv, TypeOK
<1>3. Tower' = [j \in Level |->
        IF j < level THEN Stepped(Tower[j])
        ELSE IF j = level THEN Executed(Instr, Tower[level])
        ELSE IF j = level + 1 /\ Instr.op = "ENTER" THEN [Tower[j] EXCEPT !.EIP = 1]
        ELSE Tower[j]]
  <2>1. ASSUME NEW j \in Level, j < level
        PROVE  View(j)' = Stepped(Tower[j])
    <3>1. Tower[j] = master[j] /\ master[j] \in Registers
      BY <1>1, <2>1 DEF Level, IInv, TypeOK
    <3>2. View(j)' = [master[j] EXCEPT !.EIP = @ + 1, !.EAX = 0]
      BY <1>1, <1>2, <2>1 DEF View, Level
    <3> QED
      BY <3>1, <3>2 DEF Stepped, Next_EIP, EXECUTING, Registers
  <2>2. ASSUME NEW j \in Level, j = level
        PROVE  View(j)' = Executed(Instr, Tower[level])
    BY <1>1, <1>2, <2>2 DEF View, Level
  <2>3. ASSUME NEW j \in Level, j > level
        PROVE  View(j)' = IF j = level + 1 /\ Instr.op = "ENTER"
                          THEN [Tower[j] EXCEPT !.EIP = 1] ELSE Tower[j]
    <3>1. Tower[j] = slave[j] /\ View(j)' = slave'[j]
      BY <1>1, <1>2, <2>3 DEF View, Level
    <3> QED
      BY <3>1, <2>3 DEF RunInstruction, IInv, TypeOK
  <2> DEFINE After(j) ==
        IF j < level THEN Stepped(Tower[j])
        ELSE IF j = level THEN Executed(Instr, Tower[level])
        ELSE IF j = level + 1 /\ Instr.op = "ENTER" THEN [Tower[j] EXCEPT !.EIP = 1]
        ELSE Tower[j]
  <2>4. \A j \in Level : View(j)' = After(j)
    BY <1>1, <2>1, <2>2, <2>3, GuestAssumption DEF Level
  <2>5. Tower' = [j \in Level |-> View(j)']
    BY DEF Tower, Level
  <2> HIDE DEF After
  <2>6. Tower' = [j \in Level |-> After(j)]
    BY ONLY <2>4, <2>5
  <2> QED
    BY <2>6 DEF After
<1>4. Guests!Execute(level)
  <2>1. Guests!Executed(Guests!Instr(level), Tower[level]) = Executed(Instr, Tower[level])
    BY <1>1, SameCode
  <2> QED
    BY <1>1, <1>2, <1>3, <2>1, SameCode DEF Guests!Execute, Tower
<1> QED
  BY <1>1, <1>4, SameCode DEF Guests!Next

\* However deep simulation is nested, every process executes its own code on
\* its own registers: the operating system implements the tower of processes.
THEOREM SimulationIsTransparent == Spec => Transparent
<1>1. IInv /\ [Next]_vars => [Guests!Next]_Guests!vars
  BY SwitchStep, HostStep, CallStep, InstructionStep DEF Next, Execute_Instruction
<1> QED
  BY ViewInit, <1>1, Invariant, PTL DEF Spec, Transparent, Guests!Spec
=============================================================================
