------------------------------ MODULE Processes ------------------------------
(***************************************************************************)
(* What the virtual machine promises its guests: a tower of processes, each*)
(* with registers of its own, executing the same instructions it would     *)
(* execute on a machine of its own.                                        *)
(*                                                                         *)
(* Process 0 is main; process k may set up process k + 1 (SAVE, ENTER) and *)
(* let it execute one instruction (STEP, a call of DebugStep).  A STEP is  *)
(* over when an instruction has been executed further up.                  *)
(***************************************************************************)
EXTENDS GuestCode

VARIABLES
  code,  \* the code of every process (never changes)
  regs   \* the registers of every process

vars == <<code, regs>>

Init ==
  /\ code \in [Level -> [Addr -> Instruction]]
  /\ WellFormed(code)
  /\ regs = [k \in Level |-> Start]

Instr(k) == code[k][regs[k].EIP]

\* Process k is the one to go on: those below it are in a STEP, it is not.
Running(k) ==
  /\ \A j \in 0..k : regs[j].EIP \in Addr
  /\ \A j \in 0..(k - 1) : Instr(j).op = "STEP"
  /\ Instr(k).op # "STEP"

\* Process k executes an instruction, which completes the STEPs below it.
Execute(k) ==
  /\ Running(k)
  /\ ~IsVMI(Instr(k).op)
  /\ regs' = [j \in Level |->
       IF j < k THEN Stepped(regs[j])
       ELSE IF j = k THEN Executed(Instr(k), regs[k])
       ELSE IF j = k + 1 /\ Instr(k).op = "ENTER" THEN [regs[j] EXCEPT !.EIP = 1]
       ELSE regs[j]]
  /\ UNCHANGED code

\* Process k calls the virtual machine for a result.
VMI(k) ==
  /\ Running(k)
  /\ Instr(k).op = "VMI"
  /\ regs' = [regs EXCEPT ![k] = [Next_EIP(@) EXCEPT !.EAX = 1]]
  /\ UNCHANGED code

\* Process k saves its registers as those of process k + 1.
Save(k) ==
  /\ Running(k)
  /\ Instr(k).op = "SAVE"
  /\ regs' = [regs EXCEPT ![k + 1] = regs[k], ![k] = Next_EIP(@)]
  /\ UNCHANGED code

Next == \E k \in Level : Execute(k) \/ VMI(k) \/ Save(k)

Spec == Init /\ [][Next]_vars
=============================================================================
