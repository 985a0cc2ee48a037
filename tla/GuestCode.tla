------------------------------ MODULE GuestCode ------------------------------
(***************************************************************************)
(* The code of the guests of the virtual machine and what its instructions *)
(* do to the registers of the process that executes them.  Data other than *)
(* the result of a call (EAX) and the instruction pointer is ACC.          *)
(***************************************************************************)
EXTENDS Integers

CONSTANTS
  Top,      \* the highest process
  CodeSize, \* instruction slots of each process
  MaxACC,   \* ACC counts modulo MaxACC + 1
  Programs  \* the codes the processes may have

Level == 0..Top
Addr  == 1..CodeSize

\* SAVE is the call of SaveState on the state of process k + 1, ENTER the
\* store that sets its EIP, VMI a call of the virtual machine that leaves its
\* result in EAX, INC an instruction that changes the other registers.
Op == {"STEP", "SAVE", "VMI", "ENTER", "INC", "JMP", "HLT"}

Instruction == [op : Op, target : Addr \cup {0}]

\* Virtual machine instructions, performed by Execute_Instruction.
IsVMI(op) == op \in {"STEP", "SAVE", "VMI"}

Registers == [EIP : Int, EAX : {0, 1}, ACC : 0..MaxACC]

EXECUTING == 0
HALTED    == 1

\* Jumps have targets, only main may come to an end, the highest process has
\* none to step, others enter theirs first, a saved state is entered at the
\* start, and a call of the virtual machine is followed by an instruction of the
\* processor.
WellFormed(c) ==
  /\ \A k \in Level, a \in Addr :
       /\ c[k][a].op = "JMP" => c[k][a].target \in Addr
       /\ c[k][a].op = "SAVE" => a + 1 \in Addr /\ c[k][a + 1].op = "ENTER"
       /\ c[k][a].op = "VMI" => a + 1 \in Addr /\ ~IsVMI(c[k][a + 1].op)
       /\ k = Top => c[k][a].op \notin {"STEP", "SAVE", "ENTER"}
       /\ c[k][a].op = "STEP" => a > 2 /\ c[k][1].op = "SAVE" /\ c[k][2].op = "ENTER"
  /\ \A k \in Level \ {0} : c[k][CodeSize].op = "JMP"

ASSUME GuestAssumption ==
  /\ Top \in Nat
  /\ CodeSize \in Nat \ {0}
  /\ MaxACC \in Nat
  /\ Programs \subseteq [Level -> [Addr -> Instruction]]
  /\ \A c \in Programs : WellFormed(c)

Start == [EIP |-> 1, EAX |-> 0, ACC |-> 0]

Next_EIP(r) == [r EXCEPT !.EIP = @ + 1]

\* The registers an instruction of the processor leaves in its own process.
Executed(i, r) ==
  CASE i.op = "INC" -> [Next_EIP(r) EXCEPT !.ACC = (@ + 1) % (MaxACC + 1)]
    [] i.op = "JMP" -> [r EXCEPT !.EIP = i.target]
    [] OTHER        -> Next_EIP(r)

\* What a STEP leaves in the process that has made it.
Stepped(r) == [Next_EIP(r) EXCEPT !.EAX = EXECUTING]
=============================================================================
