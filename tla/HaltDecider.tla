---------------------------- MODULE HaltDecider ----------------------------
(***************************************************************************)
(* One simulating halt decider of Halt7.c (H1, H_prior, Sipser_H, Kozen_K  *)
(* through Decide_Halting; H0 and T through Decide_Halting0) watching one  *)
(* input.                                                                  *)
(*                                                                         *)
(* The input is a machine program: an address is a slot of 1..CodeSize, an *)
(* instruction keeps only what the decider can see or what moves the       *)
(* instruction pointer.  Data is abstracted, so a conditional branch may   *)
(* go either way.  The stack holds words: return addresses and pushed      *)
(* arguments.                                                              *)
(*                                                                         *)
(* Once the decider has returned, RunDirectly lets the input go on from    *)
(* the very state in which its simulation was left.  That continuation is  *)
(* what the verdict is about.                                              *)
(***************************************************************************)
EXTENDS Integers, Sequences, FiniteSets

CONSTANTS
  CodeSize,       \* number of instruction slots of the input and its callees
  MaxWord,        \* words of the stack are 0..MaxWord
  Programs,       \* the programs an input may be
  P,              \* address of the input, where the slave starts
  code_end,       \* get_code_end(P): the last "ret" of the input
  Address_of_H,   \* address of the decider, as the input calls it
  Args,           \* <<P>> for Decide_Halting0, <<P, I>> for Decide_Halting
  Frame,          \* words Init_slave_state pushes before End_Of_Code
  TraceCapacity,  \* entries the execution trace was allocated for
  MaxStack        \* bound on the stack of the direct run

Addr == 1..CodeSize
Word == 0..MaxWord

\* The return address the slave starts with: a label of the decider itself,
\* outside the input.  An input whose outermost call returns gets there.
End_Of_Code == 0

\* Simplified opcodes of Decode_Control_Flow_Instruction that a trace holds.
Opcode == {"JMP", "CALL", "JCC", "RET", "PUSH", "OTHER"}

\* The machine instructions of an input.  CALLR is "call [ebp+n]", whose
\* target is data.  CALLX and JMPX are the indirect calls and jumps whose
\* target the decoder does not work out.  JO is the short jump on overflow
\* (0x70), and LOOP and JECXZ are like it: a conditional branch the decoder
\* classifies as OTHER.  POP
\* is any instruction that releases a word of the stack ("pop", "add esp,4").
Kind == Opcode \cup {"CALLR", "CALLX", "JMPX", "JO", "POP"}

\* The target reported for CALLX and JMPX (0x777 in the code): no address.
Undecoded == MaxWord

Instruction == [op : Kind, target : Word]

Transfer == {"JMP", "JCC", "JO", "CALL"}

\* The instruction may be followed by the next slot of the code.
Continues(op) == op \notin {"JMP", "JMPX", "RET"}

\* Transfers lead to instructions, the code is not run off, and code_end is
\* a "ret", which is how Disassembly_Listing finds it.
WellFormed(c) ==
  /\ c[code_end].op = "RET"
  /\ \A a \in Addr :
       /\ c[a].op \in Transfer => c[a].target \in Addr
       /\ Continues(c[a].op) => a + 1 \in Addr

ASSUME SizeAssumption ==
  /\ CodeSize \in Nat \ {0}
  /\ MaxWord \in Nat
  /\ CodeSize < MaxWord
  /\ TraceCapacity \in Nat
  /\ MaxStack \in Nat

ASSUME ProgramAssumption ==
  /\ P \in Addr
  /\ code_end \in Addr
  /\ P <= code_end
  /\ Address_of_H \in Word
  /\ Args \in Seq(Word)
  /\ Frame \in Seq(Word)
  /\ Programs \subseteq [Addr -> Instruction]
  /\ \A c \in Programs : WellFormed(c)

VARIABLES
  code,             \* the program of the input (never changes)
  eip,              \* slave_state->EIP
  stack,            \* the slave's stack, its top last
  pc,               \* where the decider's loop is
  EIP,              \* local EIP of Decide_Halting
  decoded,          \* *decoded, the instruction DebugStep has executed
  execution_trace,  \* the instructions executed so far
  Aborted,          \* local Aborted: 0, or the pattern that was found
  verdict           \* 1, 0, or -1 while the decider has not returned

guest   == <<eip, stack>>
decider == <<pc, EIP, decoded, execution_trace, Aborted, verdict>>
vars    == <<code, eip, stack, pc, EIP, decoded, execution_trace, Aborted, verdict>>

Entry == [Address : Addr, Simplified_Opcode : Opcode, Decode_Target : Word]

Control == {"simulate", "executed", "recorded", "returned", "exited"}

Init ==
  /\ code \in Programs
  /\ eip = P
  /\ stack = Append(Frame, End_Of_Code)
  /\ pc = "simulate"
  /\ EIP = P
  /\ decoded = [Address |-> P, Simplified_Opcode |-> "OTHER", Decode_Target |-> 0]
  /\ execution_trace = << >>
  /\ Aborted = 0
  /\ verdict = -1

-----------------------------------------------------------------------------
(* The input: what one machine instruction does to the slave's registers.  *)

Top     == stack[Len(stack)]
Popped  == SubSeq(stack, 1, Len(stack) - 1)

Branch ==
  /\ code[eip].op \in {"JCC", "JO"}
  /\ eip' \in {eip + 1, code[eip].target}
  /\ UNCHANGED stack

Jump ==
  /\ code[eip].op = "JMP"
  /\ eip' = code[eip].target
  /\ UNCHANGED stack

JumpThroughPointer ==
  /\ code[eip].op = "JMPX"
  /\ eip' \in Addr
  /\ UNCHANGED stack

Call ==
  /\ code[eip].op = "CALL"
  /\ eip' = code[eip].target
  /\ stack' = Append(stack, eip + 1)

CallThroughPointer ==
  /\ code[eip].op \in {"CALLR", "CALLX"}
  /\ eip' \in Addr
  /\ stack' = Append(stack, eip + 1)

Return ==
  /\ code[eip].op = "RET"
  /\ stack # << >>
  /\ eip' = Top
  /\ stack' = Popped

Push ==
  /\ code[eip].op = "PUSH"
  /\ eip' = eip + 1
  /\ stack' = Append(stack, code[eip].target)

Pop ==
  /\ code[eip].op = "POP"
  /\ stack # << >>
  /\ eip' = eip + 1
  /\ stack' = Popped

Other ==
  /\ code[eip].op = "OTHER"
  /\ eip' = eip + 1
  /\ UNCHANGED stack

Execute ==
  /\ eip \in Addr
  /\ \/ Branch \/ Jump \/ JumpThroughPointer \/ Call \/ CallThroughPointer
     \/ Return \/ Push \/ Pop \/ Other

\* Simplified_Opcode of an instruction.
Simplified(op) ==
  IF op \in {"CALLR", "CALLX"} THEN "CALL"
  ELSE IF op = "JMPX" THEN "JMP"
  ELSE IF op \in {"JO", "POP"} THEN "OTHER"
  ELSE op

\* What Decode_Control_Flow_Instruction reports of the instruction at a that
\* has taken the slave to next.  It decodes after the execution, so the
\* target of a PUSH is the pushed word and that of an indirect call is the
\* address called.
Decode(a, next) ==
  [Address           |-> a,
   Simplified_Opcode |-> Simplified(code[a].op),
   Decode_Target     |->
     CASE code[a].op \in {"JMP", "JCC", "CALL", "PUSH"} -> code[a].target
       [] code[a].op = "CALLR"                          -> next
       [] code[a].op \in {"CALLX", "JMPX"}              -> Undecoded
       [] OTHER                                         -> 0]

-----------------------------------------------------------------------------
(* The detectors.  current is the last entry of the trace; traced runs     *)
(* backwards over the entries before it.                                   *)

current == execution_trace[Len(execution_trace)]

Earlier == 1..(Len(execution_trace) - 1)

\* Mutant of NoConditionalBranch: the branch count is never looked at.
CountIgnored(n) == TRUE

\* No conditional branch was traced from entry n up to the current one.
NoConditionalBranch(n) ==
  \A k \in n..(Len(execution_trace) - 1) :
    execution_trace[k].Simplified_Opcode # "JCC"

\* Mutant of ClosesLoop: a jump to itself is not upward.
ClosesLongerLoop(n) ==
  /\ current.Simplified_Opcode = "JMP"
  /\ current.Decode_Target < current.Address
  /\ execution_trace[n].Address = current.Decode_Target

\* An upward jump to an address already executed, no JCC since.
ClosesLoop(n) ==
  /\ current.Simplified_Opcode = "JMP"
  /\ current.Decode_Target <= current.Address
  /\ execution_trace[n].Address = current.Decode_Target

Infinite_Loop == \E n \in Earlier : ClosesLoop(n) /\ NoConditionalBranch(n)

\* The same call instruction called the same function, no JCC since.
RepeatsCall(n) ==
  /\ current.Simplified_Opcode = "CALL"
  /\ execution_trace[n].Simplified_Opcode = "CALL"
  /\ execution_trace[n].Address = current.Address
  /\ execution_trace[n].Decode_Target = current.Decode_Target

Infinite_Recursion == \E n \in Earlier : RepeatsCall(n) /\ NoConditionalBranch(n)

IsPush(e) == e.Simplified_Opcode = "PUSH"

\* Mutant of Infinite_Simulation: any of the pushes may hold the arguments.
ArgumentsPushedSometime ==
  /\ \A k \in 1..Len(Args) :
       \E n \in Earlier : IsPush(execution_trace[n]) /\ execution_trace[n].Decode_Target = Args[k]
  /\ NoConditionalBranch(1)

\* Count_PUSH_Instructions when the backward loop has come to entry n.
PushesFrom(n) == Cardinality({m \in Earlier : m >= n /\ IsPush(execution_trace[m])})

\* The last words pushed are the arguments this decider was called with, and
\* no JCC was traced since the input began.
Infinite_Simulation ==
  /\ \A k \in 1..Len(Args) :
       \E n \in Earlier : /\ IsPush(execution_trace[n]) /\ PushesFrom(n) = k
                          /\ execution_trace[n].Decode_Target = Args[k]
  /\ NoConditionalBranch(1)

\* Needs_To_Be_Aborted: which detector looks at the current instruction.
Needs_To_Be_Aborted ==
  IF current.Simplified_Opcode = "CALL"
  THEN IF current.Decode_Target = Address_of_H
       THEN IF Infinite_Simulation THEN 3 ELSE 0
       ELSE IF Infinite_Recursion THEN 2 ELSE 0
  ELSE IF current.Simplified_Opcode = "JMP" /\ Infinite_Loop THEN 1 ELSE 0

-----------------------------------------------------------------------------
(* The loop of Decide_Halting.                                             *)

\* Save EIP and let DebugStep execute one instruction of the input.
DebugStep ==
  /\ pc = "simulate"
  /\ Execute
  /\ EIP' = eip
  /\ decoded' = Decode(eip, eip')
  /\ pc' = "executed"
  /\ UNCHANGED <<code, execution_trace, Aborted, verdict>>

\* Mutant of InputHalted: the slave is about to execute the last "ret".
InputAboutToHalt ==
  /\ pc = "executed"
  /\ eip = code_end
  /\ verdict' = 1
  /\ pc' = "returned"
  /\ UNCHANGED <<code, eip, stack, EIP, decoded, execution_trace, Aborted>>

\* The instruction executed was the last "ret" of the input.
InputHalted ==
  /\ pc = "executed"
  /\ EIP = code_end
  /\ verdict' = 1
  /\ pc' = "returned"
  /\ UNCHANGED <<code, eip, stack, EIP, decoded, execution_trace, Aborted>>

\* Mutant of PushBack: a later conditional branch is dropped from the trace.
PushBackNoBranches ==
  /\ pc = "executed"
  /\ EIP # code_end
  /\ Len(execution_trace) < TraceCapacity
  /\ execution_trace' = IF decoded.Simplified_Opcode = "JCC" /\ execution_trace # << >>
                        THEN execution_trace ELSE Append(execution_trace, decoded)
  /\ pc' = "recorded"
  /\ UNCHANGED <<code, eip, stack, EIP, decoded, Aborted, verdict>>

PushBack ==
  /\ pc = "executed"
  /\ EIP # code_end
  /\ Len(execution_trace) < TraceCapacity
  /\ execution_trace' = Append(execution_trace, decoded)
  /\ pc' = "recorded"
  /\ UNCHANGED <<code, eip, stack, EIP, decoded, Aborted, verdict>>

\* PushBack finds no room: the whole virtual machine exits.
OutOfMemory ==
  /\ pc = "executed"
  /\ EIP # code_end
  /\ Len(execution_trace) >= TraceCapacity
  /\ pc' = "exited"
  /\ UNCHANGED <<code, eip, stack, EIP, decoded, execution_trace, Aborted, verdict>>

\* Mutant of Examine: the pattern is returned in place of the verdict.
ExamineReturnsPattern ==
  /\ pc = "recorded"
  /\ Aborted' = Needs_To_Be_Aborted
  /\ IF Aborted' = 0
     THEN pc' = "simulate" /\ verdict' = verdict
     ELSE pc' = "returned" /\ verdict' = Aborted'
  /\ UNCHANGED <<code, eip, stack, EIP, decoded, execution_trace>>

Examine ==
  /\ pc = "recorded"
  /\ Aborted' = Needs_To_Be_Aborted
  /\ IF Aborted' = 0
     THEN pc' = "simulate" /\ verdict' = verdict
     ELSE pc' = "returned" /\ verdict' = 0
  /\ UNCHANGED <<code, eip, stack, EIP, decoded, execution_trace>>

Decide_Halting == DebugStep \/ InputHalted \/ PushBack \/ OutOfMemory \/ Examine

\* The input executed without a decider, from where the simulation left it.
RunDirectly ==
  /\ pc = "returned"
  /\ Len(stack) < MaxStack
  /\ Execute
  /\ UNCHANGED <<code, pc, EIP, decoded, execution_trace, Aborted, verdict>>

Next == Decide_Halting \/ RunDirectly

Spec == Init /\ [][Next]_vars

\* The decider is sequential code that the virtual machine keeps executing.
FairSpec == Spec /\ WF_vars(Decide_Halting)

-----------------------------------------------------------------------------
(* Properties.                                                             *)

TypeOK ==
  /\ code \in [Addr -> Instruction] /\ WellFormed(code)
  /\ eip \in Word
  /\ stack \in Seq(Word)
  /\ pc \in Control
  /\ EIP \in Addr
  /\ decoded \in Entry
  /\ execution_trace \in Seq(Entry)
  /\ Aborted \in 0..3
  /\ verdict \in {-1, 0, 1}

InputHasHalted == eip = End_Of_Code

\* Instructions after which the next one is not determined by the trace: the
\* detectors count JCC but neither a return, nor a transfer through a
\* pointer, nor the short jump on overflow.
BlindSpot == {"RET", "CALLR", "CALLX", "JMPX", "JO"}

\* The evidence from entry n up to the current one holds no blind spot.
Determined(n) ==
  \A k \in n..Len(execution_trace) :
    code[execution_trace[k].Address].op \notin BlindSpot

\* The entries the loop or the recursion detector has matched.
Evidence ==
  {n \in Earlier : (ClosesLoop(n) \/ RepeatsCall(n)) /\ NoConditionalBranch(n)}

\* A "does not halt" of the loop or recursion detector is right whenever the
\* instructions it rests on are direct jumps, direct calls and straight code:
\* however the input goes on, it never returns from its outermost call.
NonHaltingVerdictSound ==
  (Aborted \in {1, 2} /\ \E n \in Evidence : Determined(n)) => ~InputHasHalted

\* The same without the proviso, which is what "Does not halt" says.
NonHaltingVerdictAlwaysSound == verdict = 0 => ~InputHasHalted

Input == P..code_end

\* A program in which nothing enters the input a second time: no call leads
\* into it, no jump crosses its border, and the stack holds return addresses
\* only.
SelfContained ==
  \A a \in Addr :
    /\ code[a].op \notin {"CALLR", "CALLX", "JMPX", "PUSH", "POP"}
    /\ code[a].op = "CALL" => code[a].target \notin Input
    /\ code[a].op \in {"JMP", "JCC", "JO"} => (code[a].target \in Input <=> a \in Input)
    /\ Continues(code[a].op) => (a + 1 \in Input <=> a \in Input)

\* For a self-contained program "halts" is returned only when the input's
\* outermost call has returned: that the last "ret" was executed is enough.
HaltingVerdictSound == (SelfContained /\ verdict = 1) => InputHasHalted

\* The same for every program, as the comment "input has halted" has it.
HaltingVerdictAlwaysSound == verdict = 1 => InputHasHalted

\* The instruction at b may be executed right after the instruction at a.
Follows(a, b) ==
  LET i == code[a]
  IN  CASE i.op \in {"JCC", "JO"} -> b \in {a + 1, i.target}
        [] i.op \in {"JMP", "CALL"} -> b = i.target
        [] i.op \in {"RET", "CALLR", "CALLX", "JMPX"} -> TRUE
        [] OTHER -> b = a + 1

\* The trace is a path of the input: consecutive entries are consecutive
\* executions, none lost and none recorded twice, and the slave stands where
\* the last one has led.
TraceIsPath ==
  LET n == Len(execution_trace)
  IN  /\ \A k \in 1..(n - 1) :
           Follows(execution_trace[k].Address, execution_trace[k + 1].Address)
      /\ pc \in {"recorded", "simulate"} /\ n > 0 =>
           Follows(execution_trace[n].Address, eip)
      /\ pc = "executed" => /\ Follows(EIP, eip)
                            /\ n > 0 => Follows(execution_trace[n].Address, EIP)

\* Straight-line control only: no instruction whose outcome is data.
Deterministic == \A a \in Addr : code[a].op \notin {"JCC", "JO", "CALLR", "CALLX", "JMPX"}

\* An input without conditional branches and indirect calls is always
\* decided: its loop or recursion is noticed before the trace is full.  An
\* input that leaves its code (a "ret" before code_end, an unbalanced stack)
\* is not decided, whatever it does.
DeterministicInputsDecided ==
  Deterministic => <>(pc = "returned" \/ eip \notin Addr \/ stack = << >>)

\* The two words below the return address of the call are this decider's own
\* arguments: the input calls it as it was called itself.
SameArguments ==
  /\ Len(stack) > Len(Args)
  /\ \A k \in 1..Len(Args) : stack[Len(stack) - k] = Args[k]

\* Programs that call nothing but the decider, itself seen as one "ret", and
\* leave every argument they push on the stack: no other "ret" is there but
\* the last one of the input.  The arguments are no return addresses.
CallsOnlyDecider ==
  /\ Address_of_H \in Addr \ {P}
  /\ \A a \in Addr : /\ code[a].op \notin {"POP", "CALLR", "CALLX", "JMPX"}
                     /\ code[a].op = "CALL" => code[a].target = Address_of_H
                     /\ code[a].op \in {"JMP", "JCC", "JO"} => code[a].target # Address_of_H
                     /\ code[a].op = "RET" <=> a \in {code_end, Address_of_H}
  /\ Address_of_H - 1 \in Addr => ~Continues(code[Address_of_H - 1].op)
  /\ \A k \in 1..Len(Args) : Args[k] # End_Of_Code

\* For these the pushes found in the trace are the arguments on the stack: a
\* call of the decider is reported as recursive simulation exactly when it
\* has the decider's own arguments and no conditional branch came before.
SimulationVerdictExact ==
  [][(CallsOnlyDecider /\ pc = "recorded" /\ eip = Address_of_H)
       => (Aborted' = 3 <=> SameArguments /\ NoConditionalBranch(1))]_vars
=============================================================================
