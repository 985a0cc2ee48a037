--------------------------- MODULE VirtualMachine ---------------------------
(***************************************************************************)
(* The operating system of x86utm.cpp: Halts executes one instruction of   *)
(* the guest after the other through Execute_Instruction, which performs   *)
(* calls of virtual machine instructions itself, and DebugStep, which      *)
(* switches the processor to a slave, executes one instruction through     *)
(* Execute_Instruction again, and switches back.  The processor is one     *)
(* x86emu_t; its budget of instructions is what keeps the nested calls of  *)
(* x86emu_run from executing more than one.                                *)
(*                                                                         *)
(* The process that called the DebugStep in progress is told by level, the *)
(* depth of the host's recursion.  Process k owns the blocks master[k] and *)
(* slave[k + 1], as each activation of a decider allocates its own.        *)
(***************************************************************************)
EXTENDS GuestCode

CONSTANT
  MAX_INSTRUCTIONS \* instructions after which Test_Halting stops the guest

VARIABLES
  code,         \* the code of every process (never changes)
  emu,          \* registers of the processor
  halted,       \* MODE_HALTED of the processor
  R_TSC,        \* instructions the processor has executed
  max_instr,    \* instructions it may have executed
  line_of_code, \* process and address of the last one
  master,       \* master_state of every process
  slave,        \* slave_state of every process, as kept by the one below
  decoded,      \* decoded of every process, what its last STEP reported
  level,        \* DebugSteps in progress
  pc,           \* where the host is
  Saved_EIP,    \* local of Halts
  Halt_Status   \* local of Halts

blocks == <<master, slave, decoded>>
host   == <<pc, level, Saved_EIP, Halt_Status>>
vars   == <<code, emu, halted, R_TSC, max_instr, line_of_code, master, slave, decoded,
            level, pc, Saved_EIP, Halt_Status>>

\* The registers a process has as its guest program sees them: on the
\* processor, in the block its stepper keeps, or in the block it was saved to
\* while its own STEP is in progress.  The STEP has taken place as soon as the
\* budget is used up.
View(k) ==
  IF k > level THEN slave[k]
  ELSE IF k = level THEN emu
  ELSE IF R_TSC < max_instr THEN master[k]
  ELSE [master[k] EXCEPT !.EIP = @ + 1, !.EAX = 0]

Guests == INSTANCE Processes WITH regs <- [k \in 0..Top |-> View(k)]

ASSUME MachineAssumption == MAX_INSTRUCTIONS \in Nat

\* x86utm.code_end and get_code_end(main).
code_end == CodeSize

Init ==
  /\ code \in Programs
  /\ emu = Start
  /\ halted = FALSE
  /\ R_TSC = 0
  /\ max_instr = 1
  /\ line_of_code = <<0, 0>>
  /\ master = [k \in Level |-> Start]
  /\ slave = [k \in Level |-> Start]
  /\ decoded = [k \in Level |-> <<0, 0>>]
  /\ level = 0
  /\ pc = "loop"
  /\ Saved_EIP = 0
  /\ Halt_Status = EXECUTING

Instr == code[level][emu.EIP]

-----------------------------------------------------------------------------
(* Halts.                                                                  *)

Loop ==
  /\ pc = "loop"
  /\ IF Halt_Status = EXECUTING /\ emu.EIP <= code_end
     THEN pc' = "execute" /\ Saved_EIP' = emu.EIP
     ELSE pc' = "stopped" /\ UNCHANGED Saved_EIP
  /\ UNCHANGED <<code, emu, halted, R_TSC, max_instr, line_of_code, blocks, level, Halt_Status>>

\* Mutant of Test_Halting: the budget is not raised.
TestWithoutBudget ==
  /\ pc = "executed"
  /\ level = 0
  /\ pc' = IF Saved_EIP >= code_end THEN "stopped" ELSE "loop"
  /\ Halt_Status' = IF halted \/ max_instr > MAX_INSTRUCTIONS \/ emu.EIP > code_end
                    THEN HALTED ELSE EXECUTING
  /\ UNCHANGED <<code, emu, halted, R_TSC, max_instr, line_of_code, blocks, level, Saved_EIP>>

\* Mutant of Test_Halting: at the cap the guest is reported aborted.
TestReturnsAborted ==
  /\ pc = "executed"
  /\ level = 0
  /\ IF Saved_EIP >= code_end
     THEN pc' = "stopped" /\ UNCHANGED <<max_instr, Halt_Status>>
     ELSE /\ pc' = "loop"
          /\ max_instr' = max_instr + 1
          /\ Halt_Status' = IF max_instr' > MAX_INSTRUCTIONS THEN 2
                            ELSE IF halted \/ emu.EIP > code_end THEN HALTED ELSE EXECUTING
  /\ UNCHANGED <<code, emu, halted, R_TSC, line_of_code, blocks, level, Saved_EIP>>

\* Main has executed its last instruction, or Test_Halting decides.
Test_Halting ==
  /\ pc = "executed"
  /\ level = 0
  /\ IF Saved_EIP >= code_end
     THEN pc' = "stopped" /\ UNCHANGED <<max_instr, Halt_Status>>
     ELSE /\ pc' = "loop"
          /\ max_instr' = max_instr + 1
          /\ Halt_Status' =
               IF halted \/ max_instr' > MAX_INSTRUCTIONS \/ emu.EIP > code_end
               THEN HALTED ELSE EXECUTING
  /\ UNCHANGED <<code, emu, halted, R_TSC, line_of_code, blocks, level, Saved_EIP>>

-----------------------------------------------------------------------------
(* Execute_Instruction.                                                    *)

\* A call of DebugStep: save the master, load the slave, execute for it.
BeginDebugStep ==
  /\ pc = "execute"
  /\ Instr.op = "STEP"
  /\ master' = [master EXCEPT ![level] = emu]
  /\ emu' = slave[level + 1]
  /\ level' = level + 1
  /\ UNCHANGED <<code, halted, R_TSC, max_instr, line_of_code, slave, decoded,
                 pc, Saved_EIP, Halt_Status>>

\* A call of SaveState on the state of a slave, past which EIP is moved.
SaveState ==
  /\ pc = "execute"
  /\ Instr.op = "SAVE"
  /\ slave' = [slave EXCEPT ![level + 1] = emu]
  /\ emu' = [emu EXCEPT !.EIP = @ + 1]
  /\ pc' = "run"
  /\ UNCHANGED <<code, halted, R_TSC, max_instr, line_of_code, master, decoded,
                 level, Saved_EIP, Halt_Status>>

\* Any other virtual machine instruction, with its result in EAX.
Virtual_Machine_Instruction ==
  /\ pc = "execute"
  /\ Instr.op = "VMI"
  /\ emu' = [emu EXCEPT !.EIP = @ + 1, !.EAX = 1]
  /\ pc' = "run"
  /\ UNCHANGED <<code, halted, R_TSC, max_instr, line_of_code, blocks,
                 level, Saved_EIP, Halt_Status>>

NotVirtual ==
  /\ pc = "execute"
  /\ ~IsVMI(Instr.op)
  /\ pc' = "run"
  /\ UNCHANGED <<code, emu, halted, R_TSC, max_instr, line_of_code, blocks,
                 level, Saved_EIP, Halt_Status>>

\* x86emu_run executes while the budget lasts and no HLT stops it.
RunInstruction ==
  /\ pc = "run"
  /\ R_TSC < max_instr
  /\ emu' = Executed(Instr, emu)
  /\ slave' = IF Instr.op = "ENTER" THEN [slave EXCEPT ![level + 1].EIP = 1] ELSE slave
  /\ R_TSC' = R_TSC + 1
  /\ line_of_code' = <<level, emu.EIP>>
  /\ halted' = (Instr.op = "HLT")
  /\ pc' = IF halted' THEN "executed" ELSE "run"
  /\ UNCHANGED <<code, max_instr, master, decoded, level, Saved_EIP, Halt_Status>>

\* Mutant of RunOut: the mode is reset only where an instruction is executed.
RunOutKeepsMode ==
  /\ pc = "run"
  /\ R_TSC >= max_instr
  /\ pc' = "executed"
  /\ UNCHANGED <<code, emu, halted, R_TSC, max_instr, line_of_code, blocks,
                 level, Saved_EIP, Halt_Status>>

\* x86emu_run resets the mode, then finds the budget used up.
RunOut ==
  /\ pc = "run"
  /\ R_TSC >= max_instr
  /\ halted' = FALSE
  /\ pc' = "executed"
  /\ UNCHANGED <<code, emu, R_TSC, max_instr, line_of_code, blocks,
                 level, Saved_EIP, Halt_Status>>

\* Mutant of EndDebugStep: the master is loaded before the slave is saved.
EndStepSwapped ==
  /\ pc = "executed"
  /\ level > 0
  /\ decoded' = [decoded EXCEPT ![level - 1] = line_of_code]
  /\ slave' = [slave EXCEPT ![level] = master[level - 1]]
  /\ emu' = [master[level - 1] EXCEPT !.EAX = EXECUTING, !.EIP = @ + 1]
  /\ level' = level - 1
  /\ pc' = "run"
  /\ UNCHANGED <<code, halted, R_TSC, max_instr, line_of_code, master, Saved_EIP, Halt_Status>>

\* Mutant of EndDebugStep: what was executed is not reported.
EndStepUnreported ==
  /\ pc = "executed"
  /\ level > 0
  /\ slave' = [slave EXCEPT ![level] = emu]
  /\ emu' = [master[level - 1] EXCEPT !.EAX = EXECUTING, !.EIP = @ + 1]
  /\ level' = level - 1
  /\ pc' = "run"
  /\ UNCHANGED <<code, halted, R_TSC, max_instr, line_of_code, master, decoded,
                 Saved_EIP, Halt_Status>>

\* The slave has executed: report what, save the slave, load the master,
\* return EXECUTING, move EIP past the call, go on in x86emu_run.
EndDebugStep ==
  /\ pc = "executed"
  /\ level > 0
  /\ decoded' = [decoded EXCEPT ![level - 1] = line_of_code]
  /\ slave' = [slave EXCEPT ![level] = emu]
  /\ emu' = [master[level - 1] EXCEPT !.EAX = EXECUTING, !.EIP = @ + 1]
  /\ level' = level - 1
  /\ pc' = "run"
  /\ UNCHANGED <<code, halted, R_TSC, max_instr, line_of_code, master, Saved_EIP, Halt_Status>>

Execute_Instruction ==
  \/ BeginDebugStep \/ SaveState \/ Virtual_Machine_Instruction \/ NotVirtual
  \/ RunInstruction \/ RunOut \/ EndDebugStep

Next == Loop \/ Test_Halting \/ Execute_Instruction

Spec == Init /\ [][Next]_vars

\* The host is one sequential program.
FairSpec == Spec /\ WF_vars(Next)

-----------------------------------------------------------------------------
(* Properties.                                                             *)

Line == Level \X (0..CodeSize)

TypeOK ==
  /\ emu \in Registers
  /\ halted \in BOOLEAN
  /\ R_TSC \in Nat
  /\ max_instr \in Nat
  /\ line_of_code \in Line
  /\ master \in [Level -> Registers]
  /\ slave \in [Level -> Registers]
  /\ decoded \in [Level -> Line]
  /\ level \in Level
  /\ pc \in {"loop", "execute", "run", "executed", "stopped"}
  /\ Saved_EIP \in 0..CodeSize
  /\ Halt_Status \in {EXECUTING, HALTED}

\* Simulation is transparent: however deep it is nested, each process executes
\* its own code on its own registers, as the abstract tower of processes does,
\* and a STEP is over exactly when one instruction has been executed above it.
Transparent == Guests!Spec

\* An iteration of Halts spends the budget of one instruction and no more,
\* whatever calls of x86emu_run it is made of.
OneInstructionPerIteration ==
  /\ pc \in {"loop", "execute"} /\ Halt_Status = EXECUTING => R_TSC = max_instr - 1
  /\ pc = "executed" => R_TSC = max_instr

\* What a STEP reports is what the slave has executed: an instruction of the
\* processor is reported with the slave's own EIP.
StepReportsInstruction ==
  [][(level > 0 /\ level' = level - 1
        /\ slave[level].EIP \in Addr /\ ~IsVMI(code[level][slave[level].EIP].op))
      => decoded'[level'] = <<level, slave[level].EIP>>]_vars

\* A HLT of a simulated process never stops the machine; main's own does.
OnlyMainHalts ==
  (pc = "loop" /\ Halt_Status = HALTED) =>
    \/ max_instr > MAX_INSTRUCTIONS
    \/ emu.EIP > code_end
    \/ line_of_code[1] = 0 /\ code[0][line_of_code[2]].op = "HLT"

\* Halts comes to an end, by the end of main or by the cap on instructions.
Stops == <>(pc = "stopped")
=============================================================================
