------------------------- MODULE HaltDeciderProofs -------------------------
(***************************************************************************)
(* The verdict "does not halt" of the loop and recursion detectors is      *)
(* right, for every program and every size of trace, when the evidence     *)
(* holds no instruction whose outcome the trace does not determine.        *)
(*                                                                         *)
(* The argument: the trace is a path of the input, so the addresses        *)
(* between the matched entry and the current instruction are each followed *)
(* by one another and the last of them leads back among them.  None is a   *)
(* conditional branch or a blind spot, so an input that stands on one of   *)
(* them stays on them for ever, and none is the end of the code.           *)
(***************************************************************************)
EXTENDS HaltDecider, SequenceTheorems, FiniteSetTheorems, TLAPS

\* A trace line tells the truth about the instruction at its address.
Faithful(e) ==
  /\ e.Simplified_Opcode = Simplified(code[e.Address].op)
  /\ code[e.Address].op \in {"JMP", "CALL"} => e.Decode_Target = code[e.Address].target

FaithfulTrace ==
  /\ \A k \in 1..Len(execution_trace) : Faithful(execution_trace[k])
  /\ pc = "executed" => decoded.Address = EIP /\ Faithful(decoded)

LoopControl ==
  /\ pc = "recorded" => Len(execution_trace) > 0
  /\ pc # "returned" => Aborted = 0

\* The addresses the evidence goes through.
Visited(n) == {execution_trace[k].Address : k \in n..Len(execution_trace)}

Trapped ==
  Aborted \in {1, 2} =>
    \A n \in Evidence : Determined(n) => eip \in Visited(n)

IInv == TypeOK /\ TraceIsPath /\ FaithfulTrace /\ LoopControl /\ Trapped

-----------------------------------------------------------------------------
(* One instruction of the input.                                           *)

\* What the constants promise of the program being simulated.
LEMMA CodeFacts ==
  ASSUME code \in [Addr -> Instruction], WellFormed(code)
  PROVE  /\ code \in [Addr -> Instruction]
         /\ WellFormed(code)
         /\ Addr \subseteq Word
         /\ 0 \in Word /\ 0 \notin Addr
         /\ P \in Addr /\ code_end \in Addr
         /\ Undecoded \in Word
  BY SizeAssumption, ProgramAssumption DEF Addr, Word, Undecoded

\* An executed instruction leaves the slave in a state of the machine, where
\* the instruction may lead.
LEMMA ExecuteStep ==
  ASSUME TypeOK, Execute
  PROVE  /\ eip' \in Word
         /\ stack' \in Seq(Word)
         /\ Follows(eip, eip')
<1> USE DEF Execute, Follows, Instruction, Kind, Opcode
<1>1. /\ eip \in Addr /\ stack \in Seq(Word)
      /\ code \in [Addr -> Instruction] /\ WellFormed(code) /\ Addr \subseteq Word
  BY CodeFacts DEF TypeOK
<1>2. /\ Continues(code[eip].op) => eip + 1 \in Word
      /\ code[eip].op \in Transfer => code[eip].target \in Word
      /\ code[eip].target \in Word
  BY <1>1 DEF WellFormed
<1>3. CASE Branch
  BY <1>1, <1>2, <1>3 DEF Branch, Continues, Transfer
<1>4. CASE Jump
  BY <1>1, <1>2, <1>4 DEF Jump, Transfer
<1>5. CASE JumpThroughPointer
  BY <1>1, <1>5 DEF JumpThroughPointer
<1>6. CASE Call
  <2>1. eip + 1 \in Word
    BY <1>2, <1>6 DEF Call, Continues
  <2>2. QED
    BY <1>1, <1>2, <1>6, <2>1 DEF Call, Transfer
<1>7. CASE CallThroughPointer
  <2>1. eip + 1 \in Word
    BY <1>2, <1>7 DEF CallThroughPointer, Continues
  <2>2. QED
    BY <1>1, <1>7, <2>1 DEF CallThroughPointer
<1>8. CASE Return
  <2>1. Top \in Word /\ Popped \in Seq(Word)
    BY <1>1, <1>8 DEF Return, Top, Popped
  <2>2. QED
    BY <1>1, <1>8, <2>1 DEF Return
<1>9. CASE Push
  BY <1>1, <1>2, <1>9 DEF Push, Continues
<1>10. CASE Pop
  <2>1. Popped \in Seq(Word)
    BY <1>1, <1>10 DEF Pop, Popped
  <2>2. QED
    BY <1>1, <1>2, <1>10, <2>1 DEF Pop, Continues
<1>11. CASE Other
  BY <1>1, <1>2, <1>11 DEF Other, Continues
<1>12. QED
  BY <1>3, <1>4, <1>5, <1>6, <1>7, <1>8, <1>9, <1>10, <1>11

\* The line DebugStep writes is one a trace may hold, and it is truthful.
LEMMA DecodeFaithful ==
  ASSUME TypeOK, NEW a \in Addr, NEW next \in Word
  PROVE  Decode(a, next) \in Entry /\ Decode(a, next).Address = a /\ Faithful(Decode(a, next))
<1>1. code[a] \in Instruction /\ Undecoded \in Word /\ 0 \in Word
  BY CodeFacts DEF TypeOK
<1>2. Simplified(code[a].op) \in Opcode
  BY <1>1 DEF Simplified, Instruction, Kind, Opcode
<1>3. Decode(a, next).Decode_Target \in Word
  BY <1>1 DEF Decode, Instruction
<1>4. code[a].op \in {"JMP", "CALL"} => Decode(a, next).Decode_Target = code[a].target
  BY DEF Decode
<1>5. QED
  BY <1>2, <1>3, <1>4 DEF Decode, Entry, Faithful

-----------------------------------------------------------------------------
(* Type correctness.                                                       *)

\* The first state is well typed.
LEMMA TypeInit == Init => TypeOK
<1> SUFFICES ASSUME Init PROVE TypeOK
  OBVIOUS
<1>1. code \in [Addr -> Instruction] /\ WellFormed(code)
  BY ProgramAssumption DEF Init
<1>2. /\ P \in Addr /\ 0 \in Word /\ P \in Word
      /\ Frame \in Seq(Word)
  BY <1>1, CodeFacts, ProgramAssumption
<1>3. decoded \in Entry
  BY <1>2 DEF Init, Entry, Opcode
<1>4. stack \in Seq(Word)
  BY <1>2 DEF Init, End_Of_Code
<1>5. QED
  BY <1>1, <1>2, <1>3, <1>4 DEF Init, TypeOK, Control

\* Every step keeps the types.
LEMMA TypeStep == TypeOK /\ [Next]_vars => TypeOK'
<1> SUFFICES ASSUME TypeOK, [Next]_vars PROVE TypeOK'
  OBVIOUS
<1> USE DEF TypeOK, Control
<1>1. CASE DebugStep
  <2>1. eip \in Addr /\ eip' \in Word /\ stack' \in Seq(Word)
    BY <1>1, ExecuteStep DEF DebugStep, Execute
  <2>2. decoded' \in Entry
    BY <1>1, <2>1, DecodeFaithful DEF DebugStep
  <2>3. QED
    BY <1>1, <2>1, <2>2 DEF DebugStep
<1>2. CASE InputHalted
  BY <1>2 DEF InputHalted
<1>3. CASE PushBack
  <2>1. execution_trace' \in Seq(Entry)
    BY <1>3 DEF PushBack
  <2>2. QED
    BY <1>3, <2>1 DEF PushBack
<1>4. CASE OutOfMemory
  BY <1>4 DEF OutOfMemory
<1>5. CASE Examine
  <2>1. Needs_To_Be_Aborted \in 0..3
    BY DEF Needs_To_Be_Aborted
  <2>2. QED
    BY <1>5, <2>1 DEF Examine
<1>6. CASE RunDirectly
  BY <1>6, ExecuteStep DEF RunDirectly
<1>7. CASE UNCHANGED vars
  BY <1>7 DEF vars
<1>8. QED
  BY <1>1, <1>2, <1>3, <1>4, <1>5, <1>6, <1>7 DEF Next, Decide_Halting

\* The state of the machine and of the decider keeps its types whatever the
\* program: an input never makes the decider leave its loop's control points.
THEOREM TypeCorrect == Spec => []TypeOK
<1>1. Init => TypeOK
  BY TypeInit
<1>2. TypeOK /\ [Next]_vars => TypeOK'
  BY TypeStep
<1>3. QED
  BY <1>1, <1>2, PTL DEF Spec

-----------------------------------------------------------------------------
(* The trace is a truthful path of the input.                              *)

PathInv == TypeOK /\ TraceIsPath /\ FaithfulTrace /\ LoopControl

\* The program of the input never changes.
LEMMA CodeUnchanged == [Next]_vars => code' = code
  BY DEF Next, Decide_Halting, DebugStep, InputHalted, PushBack, OutOfMemory,
         Examine, RunDirectly, vars

\* The empty trace is a path.
LEMMA PathInit == Init => PathInv
<1> SUFFICES ASSUME Init PROVE PathInv
  OBVIOUS
<1>1. execution_trace = << >> /\ Len(execution_trace) = 0 /\ pc = "simulate" /\ Aborted = 0
  BY DEF Init
<1>2. QED
  BY <1>1, TypeInit DEF PathInv, TraceIsPath, FaithfulTrace, LoopControl

\* Every step extends the path or leaves it.
LEMMA PathStep == PathInv /\ [Next]_vars => PathInv'
<1> SUFFICES ASSUME PathInv, [Next]_vars PROVE PathInv'
  OBVIOUS
<1>1. TypeOK /\ TypeOK' /\ code' = code
  BY TypeStep, CodeUnchanged DEF PathInv
<1>2. CASE DebugStep
  <2>1. /\ eip \in Addr /\ eip' \in Word
        /\ Follows(eip, eip')
    BY <1>1, <1>2, ExecuteStep DEF DebugStep, Execute
  <2>2. /\ decoded'.Address = EIP'
        /\ Faithful(decoded)'
    <3>1. Decode(eip, eip').Address = eip /\ Faithful(Decode(eip, eip'))
      BY <1>1, <2>1, DecodeFaithful, SMTT(30)
    <3>2. QED
      BY <1>1, <1>2, <3>1 DEF DebugStep, Faithful
  <2>3. TraceIsPath'
    BY <1>1, <1>2, <2>1 DEF PathInv, TraceIsPath, DebugStep, Follows
  <2>4. FaithfulTrace'
    BY <1>1, <1>2, <2>2 DEF PathInv, FaithfulTrace, Faithful, DebugStep
  <2>5. LoopControl'
    BY <1>2 DEF PathInv, LoopControl, DebugStep
  <2>6. QED
    BY <1>1, <2>3, <2>4, <2>5 DEF PathInv
<1>3. CASE PushBack
  <2> DEFINE n == Len(execution_trace)
  <2>1. /\ n \in Nat
        /\ execution_trace' = Append(execution_trace, decoded)
        /\ Len(execution_trace') = n + 1
        /\ \A k \in 1..n : execution_trace'[k] = execution_trace[k]
        /\ execution_trace'[n + 1] = decoded
    BY <1>1, <1>3 DEF PushBack, TypeOK
  <2>2. /\ decoded.Address = EIP /\ Faithful(decoded)
        /\ Follows(EIP, eip)
        /\ n > 0 => Follows(execution_trace[n].Address, EIP)
        /\ pc' = "recorded" /\ eip' = eip
    BY <1>3 DEF PathInv, FaithfulTrace, TraceIsPath, PushBack
  <2>3. ASSUME NEW k \in 1..n
        PROVE  Follows(execution_trace'[k].Address, execution_trace'[k + 1].Address)
    <3>1. CASE k = n
      BY <2>1, <2>2, <3>1
    <3>2. CASE k < n
      BY <2>1, <3>2, SMTT(30) DEF PathInv, TraceIsPath
    <3>3. QED
      BY <2>1, <3>1, <3>2
  <2>4. TraceIsPath'
    BY <1>1, <2>1, <2>2, <2>3, SMTT(30) DEF TraceIsPath, Follows
  <2>5. FaithfulTrace'
    BY <1>1, <2>1, <2>2 DEF PathInv, FaithfulTrace, Faithful
  <2>6. LoopControl'
    BY <1>3, <2>1 DEF PathInv, LoopControl, PushBack
  <2>7. QED
    BY <1>1, <2>4, <2>5, <2>6 DEF PathInv
<1>4. CASE Examine
  <2>1. Len(execution_trace) > 0 /\ execution_trace' = execution_trace /\ eip' = eip
    BY <1>4, SMTT(30) DEF PathInv, LoopControl, Examine
  <2>2. TraceIsPath'
    BY <1>1, <1>4, <2>1 DEF PathInv, TraceIsPath, Follows, Examine
  <2>3. FaithfulTrace'
    BY <1>1, <1>4, <2>1 DEF PathInv, FaithfulTrace, Faithful, Examine
  <2>4. LoopControl'
    BY <1>4, SMTT(30) DEF LoopControl, Examine
  <2>5. QED
    BY <1>1, <2>2, <2>3, <2>4 DEF PathInv
<1>5. CASE InputHalted \/ OutOfMemory \/ RunDirectly \/ UNCHANGED vars
  <2>1. /\ execution_trace' = execution_trace /\ EIP' = EIP /\ decoded' = decoded
        /\ Aborted' = Aborted
        /\ \/ pc' = pc /\ eip' = eip
           \/ pc' \in {"returned", "exited"} /\ (pc = "executed" \/ pc' = pc)
    BY <1>5, SMTT(30) DEF InputHalted, OutOfMemory, RunDirectly, vars
  <2>2. TraceIsPath'
    BY <1>1, <2>1 DEF PathInv, TraceIsPath, Follows
  <2>3. FaithfulTrace'
    BY <1>1, <2>1 DEF PathInv, FaithfulTrace, Faithful
  <2>4. LoopControl'
    BY <2>1 DEF PathInv, LoopControl
  <2>5. QED
    BY <1>1, <2>2, <2>3, <2>4 DEF PathInv
<1>6. QED
  BY <1>2, <1>3, <1>4, <1>5 DEF Next, Decide_Halting

\* The execution trace is a path of the input: whatever the program, DebugStep
\* and PushBack lose no instruction between two recorded ones.
THEOREM TraceFollowsInput == Spec => []TraceIsPath
<1>1. PathInv => TraceIsPath
  BY DEF PathInv
<1>2. QED
  BY <1>1, PathInit, PathStep, PTL DEF Spec

-----------------------------------------------------------------------------
(* An input caught on its evidence stays on it.                            *)

\* The instructions the evidence goes through have one successor each, which
\* is the next one of the evidence, or for the last the one after its match.
LEMMA EvidenceIsCycle ==
  ASSUME PathInv, NEW n \in Evidence, Determined(n),
         NEW k \in n..Len(execution_trace),
         NEW b, Follows(execution_trace[k].Address, b)
  PROVE  b \in Visited(n)
<1> DEFINE last == Len(execution_trace)
           a    == execution_trace[k].Address
<1>1. /\ last \in Nat /\ n \in 1..(last - 1) /\ k \in 1..last
      /\ execution_trace \in Seq(Entry)
      /\ current = execution_trace[last]
  BY DEF PathInv, TypeOK, Evidence, Earlier, current
<1>2. /\ ClosesLoop(n) \/ RepeatsCall(n)
      /\ NoConditionalBranch(n)
  BY DEF Evidence
<1>3. /\ \A j \in 1..last : Faithful(execution_trace[j])
      /\ \A j \in 1..last - 1 :
           Follows(execution_trace[j].Address, execution_trace[j + 1].Address)
  BY <1>1 DEF PathInv, TraceIsPath, FaithfulTrace
<1>4. code[a].op \notin BlindSpot
  BY DEF Determined
<1>5. CASE k < last
  <2>1. code[a].op # "JCC"
    <3>1. execution_trace[k].Simplified_Opcode # "JCC"
      BY <1>1, <1>2, <1>5 DEF NoConditionalBranch
    <3>2. QED
      BY <1>1, <1>3, <3>1 DEF Faithful, Simplified
  <2>2. Follows(a, execution_trace[k + 1].Address)
    BY <1>1, <1>3, <1>5
  <2>3. b = execution_trace[k + 1].Address
    BY <1>4, <2>1, <2>2 DEF Follows, BlindSpot
  <2>4. k + 1 \in n..last
    BY <1>1, <1>5
  <2>5. QED
    BY <2>3, <2>4 DEF Visited
<1>6. CASE k = last
  <2>1. /\ current.Simplified_Opcode \in {"JMP", "CALL"}
        /\ Faithful(current)
    BY <1>1, <1>2, <1>3 DEF ClosesLoop, RepeatsCall
  <2>2. /\ code[a].op \in {"JMP", "CALL"}
        /\ current.Decode_Target = code[a].target
    BY <1>1, <1>4, <1>6, <2>1 DEF Faithful, Simplified, BlindSpot
  <2>3. b = current.Decode_Target
    BY <2>2 DEF Follows
  <2>4. CASE ClosesLoop(n)
    <3>1. b = execution_trace[n].Address /\ n \in n..last
      BY <1>1, <2>3, <2>4 DEF ClosesLoop
    <3>2. QED
      BY <3>1 DEF Visited
  <2>5. CASE RepeatsCall(n)
    <3> DEFINE c == execution_trace[n].Address
    <3>1. code[c].op = "CALL" /\ execution_trace[n].Decode_Target = code[c].target
      <4>1. /\ execution_trace[n].Simplified_Opcode = "CALL"
            /\ Faithful(execution_trace[n])
            /\ code[c].op \notin BlindSpot
        BY <1>1, <1>3, <2>5, SMTT(30) DEF RepeatsCall, Determined
      <4>2. QED
        BY <4>1 DEF Faithful, Simplified, BlindSpot
    <3>2. Follows(c, execution_trace[n + 1].Address) /\ n + 1 \in n..last
      BY <1>1, <1>3
    <3>3. execution_trace[n + 1].Address = b
      BY <2>3, <2>5, <3>1, <3>2 DEF Follows, RepeatsCall
    <3>4. QED
      BY <3>2, <3>3 DEF Visited
  <2>6. QED
    BY <1>2, <2>4, <2>5
<1>7. QED
  BY <1>1, <1>5, <1>6

\* Nothing is trapped at first.
LEMMA IInvInit == Init => IInv
  BY PathInit DEF IInv, PathInv, Trapped, Init

\* Once its evidence is found, the input stays on the cycle it describes.
LEMMA IInvStep == IInv /\ [Next]_vars => IInv'
<1> SUFFICES ASSUME IInv, [Next]_vars PROVE Trapped'
  BY PathStep DEF IInv, PathInv
<1>1. PathInv /\ PathInv' /\ code' = code
  BY PathStep, CodeUnchanged DEF IInv, PathInv
<1>2. CASE DebugStep \/ PushBack \/ InputHalted \/ OutOfMemory
  <2>1. Aborted = 0 /\ Aborted' = Aborted
    BY <1>1, <1>2 DEF PathInv, LoopControl, DebugStep, PushBack, InputHalted, OutOfMemory
  <2>2. QED
    BY <2>1 DEF Trapped
<1>3. CASE Examine
  <2> SUFFICES ASSUME NEW n \in Evidence, Determined(n)
               PROVE  eip \in Visited(n)
    BY <1>1, <1>3 DEF Examine, Trapped, Evidence, Earlier, ClosesLoop, RepeatsCall,
       NoConditionalBranch, current, Determined, Visited
  <2>1. /\ Len(execution_trace) > 0 /\ Len(execution_trace) \in Nat
        /\ Follows(execution_trace[Len(execution_trace)].Address, eip)
    BY <1>1, <1>3 DEF PathInv, TypeOK, LoopControl, TraceIsPath, Examine
  <2>2. Len(execution_trace) \in n..Len(execution_trace)
    BY <2>1 DEF Evidence, Earlier
  <2>3. QED
    BY <1>1, <2>1, <2>2, EvidenceIsCycle
<1>4. CASE RunDirectly
  <2> SUFFICES ASSUME Aborted \in {1, 2}, NEW n \in Evidence, Determined(n)
               PROVE  eip' \in Visited(n)
    BY <1>1, <1>4 DEF RunDirectly, Trapped, Evidence, Earlier, ClosesLoop, RepeatsCall,
       NoConditionalBranch, current, Determined, Visited
  <2>1. eip \in Visited(n)
    BY DEF IInv, Trapped
  <2>2. PICK k \in n..Len(execution_trace) : eip = execution_trace[k].Address
    BY <2>1 DEF Visited
  <2>3. Follows(eip, eip')
    BY <1>1, <1>4, ExecuteStep DEF RunDirectly, PathInv
  <2>4. QED
    BY <1>1, <2>2, <2>3, EvidenceIsCycle
<1>5. CASE UNCHANGED vars
  BY <1>5 DEF vars, IInv, Trapped, Evidence, Earlier, ClosesLoop, RepeatsCall,
     NoConditionalBranch, current, Determined, Visited
<1>6. QED
  BY <1>2, <1>3, <1>4, <1>5 DEF Next, Decide_Halting

\* An input on a cycle of its own code never gets to End_Of_Code.
LEMMA IInvSound == IInv => NonHaltingVerdictSound
<1> SUFFICES ASSUME IInv, Aborted \in {1, 2}, NEW n \in Evidence, Determined(n)
             PROVE  eip # End_Of_Code
  BY DEF NonHaltingVerdictSound, InputHasHalted
<1>1. PICK k \in n..Len(execution_trace) : eip = execution_trace[k].Address
  BY DEF IInv, Trapped, Visited
<1>2. n \in 1..(Len(execution_trace) - 1) /\ execution_trace \in Seq(Entry)
  BY DEF IInv, TypeOK, Evidence, Earlier
<1>3. execution_trace[k] \in Entry
  BY <1>1, <1>2
<1>4. QED
  BY <1>1, <1>3 DEF Entry, Addr, End_Of_Code

\* An input reported as an infinite loop or an infinite recursion, on evidence
\* without returns, transfers through pointers and jumps on overflow, never
\* returns from its outermost call: for every program, decider and trace size.
THEOREM NonHaltingVerdictIsSound == Spec => []NonHaltingVerdictSound
<1>1. QED
  BY IInvInit, IInvStep, IInvSound, PTL DEF Spec

-----------------------------------------------------------------------------
(* "Halts" for a self-contained program.                                   *)

Base == Len(Frame) + 1

\* The slave is done; or in the input with its return address on top; or in a
\* function the input has called, with the return addresses of the calls in
\* progress above it, the first into the input and the others outside.
Balanced ==
  \/ eip = End_Of_Code
  \/ /\ eip \in Input
     /\ Len(stack) = Base
     /\ stack[Base] = End_Of_Code
  \/ /\ eip \in Addr \ Input
     /\ Len(stack) > Base
     /\ stack[Base] = End_Of_Code
     /\ stack[Base + 1] \in Input
     /\ \A j \in (Base + 2)..Len(stack) : stack[j] \in Addr \ Input

HaltInv ==
  /\ TypeOK
  /\ SelfContained =>
       /\ Balanced
       /\ pc = "executed" /\ EIP = code_end => InputHasHalted
       /\ verdict = 1 => InputHasHalted

\* The input is a part of the code.
LEMMA InputFacts ==
  /\ Base \in Nat \ {0}
  /\ Input \subseteq Addr
  /\ P \in Input /\ code_end \in Input
  BY SizeAssumption, ProgramAssumption DEF Base, Input, Addr

\* What is left of a sequence without its last element.
LEMMA PoppedSeq ==
  ASSUME NEW S, NEW s \in Seq(S), s # << >>,
         NEW t, t = SubSeq(s, 1, Len(s) - 1)
  PROVE  /\ t \in Seq(S) /\ Len(t) = Len(s) - 1
         /\ \A j \in 1..Len(t) : t[j] = s[j]
<1> DEFINE m == Len(s) - 1
<1>1. m \in Nat /\ \A j \in 1..m : s[j] \in S
  OBVIOUS
<1>2. /\ SubSeq(s, 1, m) \in Seq(S)
      /\ Len(SubSeq(s, 1, m)) = IF 1 <= m THEN m - 1 + 1 ELSE 0
      /\ \A j \in 1..(m - 1 + 1) : SubSeq(s, 1, m)[j] = s[1 + j - 1]
  BY <1>1, SubSeqProperties
<1>3. t = SubSeq(s, 1, m) /\ m - 1 + 1 = m
  BY <1>1
<1>4. Len(t) = m
  BY <1>1, <1>2, <1>3
<1>5. \A j \in 1..m : t[j] = s[j]
  <2> SUFFICES ASSUME NEW j \in 1..m PROVE t[j] = s[j]
    OBVIOUS
  <2>1. 1 + j - 1 = j
    OBVIOUS
  <2>2. QED
    BY <1>2, <1>3, <2>1
<1>6. QED
  BY <1>2, <1>3, <1>4, <1>5

\* A step of a self-contained program keeps calls and returns balanced.
LEMMA BalancedStep ==
  ASSUME TypeOK, SelfContained, Balanced, Execute
  PROVE  Balanced' /\ (eip = code_end => eip' = End_Of_Code)
<1>1. /\ eip \in Addr /\ stack \in Seq(Word) /\ eip # End_Of_Code
      /\ Base \in Nat \ {0} /\ Input \subseteq Addr
      /\ code[eip] \in Instruction /\ WellFormed(code)
  BY CodeFacts, InputFacts DEF TypeOK, Execute, End_Of_Code
<1>2. /\ code[eip].op \notin {"CALLR", "CALLX", "JMPX", "PUSH", "POP"}
      /\ code[eip].op = "CALL" => code[eip].target \in Addr \ Input
      /\ code[eip].op \in {"JMP", "JCC", "JO"} =>
           code[eip].target \in Addr /\ (code[eip].target \in Input <=> eip \in Input)
      /\ Continues(code[eip].op) => eip + 1 \in Addr /\ (eip + 1 \in Input <=> eip \in Input)
  BY <1>1 DEF SelfContained, WellFormed, Transfer
<1>3. CASE Branch \/ Jump \/ Other
  <2>1. stack' = stack /\ eip' \in Addr /\ (eip' \in Input <=> eip \in Input)
    BY <1>2, <1>3 DEF Branch, Jump, Other, Continues
  <2>2. eip # code_end
    BY <1>1, <1>3 DEF Branch, Jump, Other, WellFormed
  <2>3. QED
    BY <1>1, <2>1, <2>2 DEF Balanced
<1>4. CASE Call
  <2>1. /\ eip' \in Addr \ Input
        /\ stack' = Append(stack, eip + 1)
        /\ eip + 1 \in Addr /\ (eip + 1 \in Input <=> eip \in Input)
        /\ eip # code_end
    BY <1>1, <1>2, <1>4 DEF Call, Continues, WellFormed
  <2>2. /\ Len(stack') = Len(stack) + 1
        /\ stack'[Len(stack) + 1] = eip + 1
        /\ \A j \in 1..Len(stack) : stack'[j] = stack[j]
        /\ Len(stack) \in Nat
    BY <1>1, <2>1
  <2>3. CASE eip \in Input
    BY <1>1, <2>1, <2>2, <2>3 DEF Balanced
  <2>4. CASE eip \notin Input
    <3>1. /\ Len(stack) > Base /\ stack[Base] = End_Of_Code /\ stack[Base + 1] \in Input
          /\ \A j \in (Base + 2)..Len(stack) : stack[j] \in Addr \ Input
      BY <1>1, <2>4 DEF Balanced
    <3>2. \A j \in (Base + 2)..Len(stack') : stack'[j] \in Addr \ Input
      <4> TAKE j \in (Base + 2)..Len(stack')
      <4>1. CASE j = Len(stack) + 1
        BY <2>1, <2>2, <2>4, <4>1
      <4>2. CASE j # Len(stack) + 1
        BY <1>1, <2>2, <3>1, <4>2
      <4>3. QED
        BY <4>1, <4>2
    <3>3. QED
      BY <1>1, <2>1, <2>2, <3>1, <3>2, SMTT(30) DEF Balanced
  <2>5. QED
    BY <2>3, <2>4
<1>5. CASE Return
  <2>1. /\ Len(stack) \in Nat \ {0}
        /\ eip' = stack[Len(stack)]
        /\ stack' \in Seq(Word) /\ Len(stack') = Len(stack) - 1
        /\ \A j \in 1..Len(stack') : stack'[j] = stack[j]
    <3>1. /\ stack # << >> /\ eip' = stack[Len(stack)]
          /\ stack' = SubSeq(stack, 1, Len(stack) - 1)
      BY <1>5 DEF Return, Top, Popped
    <3>2. Len(stack) \in Nat \ {0}
      BY <1>1, <3>1
    <3>3. Len(stack') = Len(stack) - 1 /\ stack' \in Seq(Word)
      BY <1>1, <3>1, PoppedSeq
    <3>4. \A j \in 1..Len(stack') : stack'[j] = stack[j]
      BY <1>1, <3>1, PoppedSeq
    <3>5. QED
      BY <3>1, <3>2, <3>3, <3>4
  <2>2. CASE eip \in Input
    <3>1. eip' = End_Of_Code
      BY <1>1, <2>1, <2>2 DEF Balanced
    <3>2. QED
      BY <3>1 DEF Balanced
  <2>3. CASE eip \notin Input
    <3>1. /\ Len(stack) > Base /\ stack[Base] = End_Of_Code /\ stack[Base + 1] \in Input
          /\ \A j \in (Base + 2)..Len(stack) : stack[j] \in Addr \ Input
          /\ eip # code_end
      BY <1>1, <2>3, InputFacts DEF Balanced
    <3>2. CASE Len(stack) = Base + 1
      BY <1>1, <2>1, <3>1, <3>2 DEF Balanced
    <3>3. CASE Len(stack) > Base + 1
      <4>1. eip' \in Addr \ Input
        BY <1>1, <2>1, <3>1, <3>3
      <4>2. QED
        BY <1>1, <2>1, <3>1, <3>3, <4>1, SMTT(30) DEF Balanced
    <3>4. QED
      BY <1>1, <2>1, <3>1, <3>2, <3>3
  <2>4. QED
    BY <2>2, <2>3
<1>6. QED
  BY <1>2, <1>3, <1>4, <1>5 DEF Execute, JumpThroughPointer, CallThroughPointer, Push, Pop

\* The stack of the first state is balanced.
LEMMA HaltInit == Init => HaltInv
<1> SUFFICES ASSUME Init PROVE HaltInv
  OBVIOUS
<1>1. /\ eip \in Input /\ Len(stack) = Base /\ stack[Base] = End_Of_Code
  BY InputFacts, ProgramAssumption DEF Init, Base
<1>2. QED
  BY <1>1, TypeInit DEF HaltInv, Balanced, Init

\* Every step keeps calls and returns balanced until the input halts.
LEMMA HaltStep == HaltInv /\ [Next]_vars => HaltInv'
<1> SUFFICES ASSUME HaltInv, [Next]_vars, SelfContained'
             PROVE  (/\ Balanced
                     /\ pc = "executed" /\ EIP = code_end => InputHasHalted
                     /\ verdict = 1 => InputHasHalted)'
  BY TypeStep DEF HaltInv
<1>1. /\ TypeOK /\ SelfContained
      /\ Balanced
      /\ pc = "executed" /\ EIP = code_end => InputHasHalted
      /\ verdict = 1 => InputHasHalted
  BY CodeUnchanged DEF HaltInv, SelfContained
<1>2. eip \in Addr => ~InputHasHalted
  BY DEF InputHasHalted, End_Of_Code, Addr
<1>3. CASE DebugStep
  <2>1. Execute /\ eip \in Addr
    BY <1>3 DEF DebugStep, Execute
  <2>2. QED
    BY <1>1, <1>2, <1>3, <2>1, BalancedStep DEF DebugStep, InputHasHalted
<1>4. CASE RunDirectly
  <2>1. Execute /\ eip \in Addr
    BY <1>4 DEF RunDirectly, Execute
  <2>2. QED
    BY <1>1, <1>2, <1>4, <2>1, BalancedStep DEF RunDirectly, InputHasHalted
<1>5. CASE InputHalted \/ PushBack \/ OutOfMemory \/ Examine \/ UNCHANGED vars
  <2>1. UNCHANGED <<eip, stack>>
    BY <1>5 DEF InputHalted, PushBack, OutOfMemory, Examine, vars
  <2>2. Balanced'
    BY <1>1, <2>1 DEF Balanced
  <2>3. QED
    BY <1>1, <1>5, <2>1, <2>2 DEF InputHalted, PushBack, OutOfMemory, Examine, vars,
       InputHasHalted
<1>6. QED
  BY <1>3, <1>4, <1>5 DEF Next, Decide_Halting

\* An input reported as halted has returned from its outermost call, for every
\* program in which nothing calls the input or jumps into it: executing the
\* "ret" at code_end then is the outermost return.
THEOREM HaltingVerdictIsSound == Spec => []HaltingVerdictSound
<1>1. HaltInv => HaltingVerdictSound
  BY DEF HaltInv, HaltingVerdictSound
<1>2. QED
  BY <1>1, HaltInit, HaltStep, PTL DEF Spec
-----------------------------------------------------------------------------
(* The verdict of the recursive simulation detector.                       *)

\* The instructions the slave has executed, as the decider reports them.
Seen == IF pc = "executed" THEN Append(execution_trace, decoded) ELSE execution_trace

\* The entries of a trace s that are pushes, how many there are, and how many
\* there are up to entry n.
PushAt(s)  == {m \in 1..Len(s) : IsPush(s[m])}
Pushed(s)  == Cardinality(PushAt(s))
Upto(s, n) == Cardinality({m \in PushAt(s) : m <= n})

\* Above its first return address the slave's stack w holds the words pushed in
\* the trace s, in their order, and in the decider (a is the slave's EIP) the
\* return address of the call that led there.
HoldsPushes(w, a, s) ==
  /\ Len(w) = Base + Pushed(s) + (IF a = Address_of_H THEN 1 ELSE 0)
  /\ w[Base] = End_Of_Code
  /\ \A n \in PushAt(s) : w[Base + Upto(s, n)] = s[n].Decode_Target
  /\ \A j \in 1..Pushed(s) : \E n \in PushAt(s) : Upto(s, n) = j
  /\ a = Address_of_H => /\ Len(s) > 0
                         /\ s[Len(s)].Simplified_Opcode = "CALL"
                         /\ w[Len(w)] = s[Len(s)].Address + 1

Simulating ==
  /\ pc \in {"simulate", "executed", "recorded"}
  /\ pc = "executed" => EIP # code_end

PushInv ==
  /\ PathInv
  /\ CallsOnlyDecider /\ Simulating => HoldsPushes(stack, eip, Seen)

\* The pushes of a trace are finitely many, and each has its number.
LEMMA PushCount ==
  ASSUME NEW s \in Seq(Entry)
  PROVE  /\ IsFiniteSet(PushAt(s)) /\ Pushed(s) \in Nat
         /\ \A n \in PushAt(s) : Upto(s, n) \in 1..Pushed(s)
<1>1. IsFiniteSet(1..Len(s))
  BY FS_Interval
<1>2. IsFiniteSet(PushAt(s)) /\ Pushed(s) \in Nat
  <2>1. PushAt(s) \in SUBSET (1..Len(s))
    BY DEF PushAt
  <2>2. IsFiniteSet(PushAt(s))
    BY <1>1, <2>1, FS_Subset
  <2>3. QED
    BY <2>2, FS_CardinalityType DEF Pushed
<1>3. ASSUME NEW n \in PushAt(s)
      PROVE  Upto(s, n) \in 1..Pushed(s)
  <2> DEFINE T == {m \in PushAt(s) : m <= n}
  <2>1. n \in 1..Len(s) /\ n \in T
    BY <1>3 DEF PushAt
  <2>2. T \in SUBSET PushAt(s)
    OBVIOUS
  <2>3. IsFiniteSet(T) /\ Cardinality(T) <= Cardinality(PushAt(s))
    BY <1>2, <2>2, FS_Subset
  <2>4. Cardinality(T) \in Nat
    BY <2>3, FS_CardinalityType
  <2>5. Cardinality(T) # 0
    BY <2>1, <2>3, FS_EmptySet
  <2>6. Upto(s, n) = Cardinality(T) /\ Pushed(s) = Cardinality(PushAt(s))
    BY DEF Upto, Pushed
  <2>7. QED
    BY <1>2, <2>3, <2>4, <2>5, <2>6
<1>4. QED
  BY <1>2, <1>3

\* A further instruction leaves the pushes before it as they were numbered.
LEMMA PushAppend ==
  ASSUME NEW s \in Seq(Entry), NEW e \in Entry
  PROVE  LET t == Append(s, e)
         IN  /\ t[Len(s) + 1] = e /\ Len(t) = Len(s) + 1
             /\ \A n \in PushAt(s) : t[n] = s[n] /\ Upto(t, n) = Upto(s, n)
             /\ IsPush(e) => /\ PushAt(t) = PushAt(s) \cup {Len(s) + 1}
                             /\ Pushed(t) = Pushed(s) + 1
                             /\ Upto(t, Len(s) + 1) = Pushed(s) + 1
             /\ ~IsPush(e) => PushAt(t) = PushAt(s) /\ Pushed(t) = Pushed(s)
<1> DEFINE t == Append(s, e)
           N == Len(s)
<1>1. /\ N \in Nat /\ Len(t) = N + 1 /\ t[N + 1] = e
      /\ \A n \in 1..N : t[n] = s[n]
  OBVIOUS
<1> HIDE DEF t
<1>2. /\ IsPush(e) => PushAt(t) = PushAt(s) \cup {N + 1}
      /\ ~IsPush(e) => PushAt(t) = PushAt(s)
  <2>1. ASSUME NEW m PROVE m \in PushAt(t) <=> m \in PushAt(s) \/ (IsPush(e) /\ m = N + 1)
    <3>1. m \in 1..(N + 1) <=> m \in 1..N \/ m = N + 1
      BY <1>1
    <3>2. CASE m \in 1..N
      BY <1>1, <3>1, <3>2 DEF PushAt
    <3>3. CASE m = N + 1
      BY <1>1, <3>1, <3>3 DEF PushAt
    <3>4. QED
      BY <1>1, <3>1, <3>2, <3>3 DEF PushAt
  <2>2. QED
    BY <2>1
<1>3. N + 1 \notin PushAt(s)
  BY <1>1 DEF PushAt
<1>4. IsFiniteSet(PushAt(s)) /\ Pushed(s) \in Nat
  BY PushCount
<1>5. /\ IsPush(e) => Pushed(t) = Pushed(s) + 1
      /\ ~IsPush(e) => Pushed(t) = Pushed(s)
  <2>1. CASE IsPush(e)
    <3>1. PushAt(t) = PushAt(s) \cup {N + 1}
      BY <1>2, <2>1
    <3>2. Cardinality(PushAt(s) \cup {N + 1}) = Cardinality(PushAt(s)) + 1
      BY <1>3, <1>4, FS_AddElement
    <3>3. QED
      BY <2>1, <3>1, <3>2 DEF Pushed
  <2>2. CASE ~IsPush(e)
    <3>1. PushAt(t) = PushAt(s)
      BY <1>2, <2>2
    <3>2. QED
      BY <1>4, <2>2, <3>1 DEF Pushed
  <2>3. QED
    BY <2>1, <2>2
<1>6. ASSUME NEW n \in PushAt(s)
      PROVE  t[n] = s[n] /\ Upto(t, n) = Upto(s, n)
  <2>1. n \in 1..N
    BY DEF PushAt
  <2>2. ~(N + 1 <= n)
    BY <1>1, <2>1
  <2>3. {m \in PushAt(t) : m <= n} = {m \in PushAt(s) : m <= n}
    BY <1>2, <2>2
  <2>4. QED
    BY <1>1, <2>1, <2>3 DEF Upto
<1>7. ASSUME IsPush(e) PROVE Upto(t, N + 1) = Pushed(s) + 1
  <2>1. \A m \in PushAt(t) : m <= N + 1
    BY <1>1 DEF PushAt
  <2>2. {m \in PushAt(t) : m <= N + 1} = PushAt(t)
    BY <2>1
  <2>3. QED
    BY <1>5, <1>7, <2>2 DEF Upto, Pushed
<1>8. QED
  BY <1>1, <1>2, <1>5, <1>6, <1>7 DEF t

\* What the constants promise of a program that calls only the decider.
LEMMA OnlyDeciderFacts ==
  ASSUME TypeOK, CallsOnlyDecider, NEW a \in Addr, NEW b, Follows(a, b), a # code_end
  PROVE  /\ code[a].op \in {"JMP", "CALL", "JCC", "RET", "PUSH", "OTHER", "JO"}
         /\ code[a].op = "RET" <=> a = Address_of_H
         /\ code[a].op = "CALL" => b = Address_of_H
         /\ code[a].op \notin {"CALL", "RET"} => b # Address_of_H
         /\ code[a].op = "CALL" => a + 1 # Address_of_H
<1>1. code[a] \in Instruction /\ WellFormed(code) /\ Address_of_H \in Addr
  BY CodeFacts DEF TypeOK, CallsOnlyDecider
<1>2. /\ code[a].op \notin {"POP", "CALLR", "CALLX", "JMPX"}
      /\ code[a].op = "CALL" => code[a].target = Address_of_H
      /\ code[a].op \in {"JMP", "JCC", "JO"} => code[a].target # Address_of_H
      /\ code[a].op = "RET" <=> a = Address_of_H
  BY DEF CallsOnlyDecider
<1>3. Continues(code[a].op) => a + 1 # Address_of_H
  <2> SUFFICES ASSUME a + 1 = Address_of_H PROVE ~Continues(code[a].op)
    OBVIOUS
  <2>1. a = Address_of_H - 1
    BY SizeAssumption DEF Addr
  <2>2. QED
    BY <2>1 DEF CallsOnlyDecider
<1>4. code[a].op \in {"JMP", "CALL", "JCC", "RET", "PUSH", "OTHER", "JO"}
  BY <1>1, <1>2 DEF Instruction, Kind, Opcode
<1>5. QED
  BY <1>2, <1>3, <1>4 DEF Follows, Continues

\* An instruction that neither pushes nor calls leaves the words pushed alone.
LEMMA PushKeep ==
  ASSUME NEW s \in Seq(Entry), NEW e \in Entry, ~IsPush(e),
         NEW w, NEW a, NEW b, b # Address_of_H, a # Address_of_H,
         HoldsPushes(w, a, s)
  PROVE  HoldsPushes(w, b, Append(s, e))
<1> DEFINE t == Append(s, e)
<1>1. /\ PushAt(t) = PushAt(s) /\ Pushed(t) = Pushed(s) /\ Pushed(s) \in Nat
      /\ \A n \in PushAt(s) : t[n] = s[n] /\ Upto(t, n) = Upto(s, n)
  <2>1. Pushed(s) \in Nat
    BY PushCount
  <2>2. QED
    BY <2>1, PushAppend
<1> HIDE DEF t
<1>2. QED
  <2>1. HoldsPushes(w, b, t)
    BY <1>1 DEF HoldsPushes
  <2>2. QED
    BY <2>1 DEF t

\* A call pushes its return address and leads to the decider.
LEMMA PushCall ==
  ASSUME NEW s \in Seq(Entry), NEW e \in Entry, e.Simplified_Opcode = "CALL",
         NEW w \in Seq(Word), NEW a, a # Address_of_H, e.Address + 1 \in Word,
         HoldsPushes(w, a, s)
  PROVE  HoldsPushes(Append(w, e.Address + 1), Address_of_H, Append(s, e))
<1> DEFINE t == Append(s, e)
           v == Append(w, e.Address + 1)
<1>1. /\ PushAt(t) = PushAt(s) /\ Pushed(t) = Pushed(s)
      /\ \A n \in PushAt(s) : t[n] = s[n] /\ Upto(t, n) = Upto(s, n)
      /\ t[Len(s) + 1] = e /\ Len(t) = Len(s) + 1
  <2>1. ~IsPush(e)
    BY DEF IsPush
  <2>2. Pushed(s) \in Nat
    BY PushCount
  <2>3. QED
    BY <2>1, <2>2, PushAppend
<1>2. /\ Len(v) = Len(w) + 1 /\ v[Len(w) + 1] = e.Address + 1
      /\ \A j \in 1..Len(w) : v[j] = w[j]
      /\ Len(w) \in Nat /\ Len(s) \in Nat
  OBVIOUS
<1>3. /\ Base \in Nat \ {0} /\ Pushed(s) \in Nat
      /\ \A n \in PushAt(s) : Upto(s, n) \in 1..Pushed(s)
      /\ Len(w) = Base + Pushed(s)
  BY InputFacts, PushCount DEF HoldsPushes
<1> HIDE DEF t, v
<1>4. /\ Base \in 1..Len(w)
      /\ \A n \in PushAt(s) : Base + Upto(s, n) \in 1..Len(w)
  BY <1>3
<1>5. HoldsPushes(v, Address_of_H, t)
  <2>1. Len(v) = Base + Pushed(t) + 1
    BY <1>1, <1>2, <1>3
  <2>2. v[Base] = End_Of_Code
    BY <1>2, <1>4 DEF HoldsPushes
  <2>3. \A n \in PushAt(t) : v[Base + Upto(t, n)] = t[n].Decode_Target
    BY <1>1, <1>2, <1>4 DEF HoldsPushes
  <2>4. \A j \in 1..Pushed(t) : \E n \in PushAt(t) : Upto(t, n) = j
    BY <1>1 DEF HoldsPushes
  <2>5. Len(t) > 0 /\ t[Len(t)].Simplified_Opcode = "CALL" /\ v[Len(v)] = t[Len(t)].Address + 1
    BY <1>1, <1>2
  <2>6. QED
    BY <2>1, <2>2, <2>3, <2>4, <2>5 DEF HoldsPushes
<1>6. QED
  BY <1>5 DEF t, v

\* The decider's "ret" takes its return address off the stack again.
LEMMA PushReturn ==
  ASSUME NEW s \in Seq(Entry), NEW e \in Entry, ~IsPush(e),
         NEW w \in Seq(Word), w # << >>, NEW v, v = SubSeq(w, 1, Len(w) - 1),
         NEW b, b # Address_of_H,
         HoldsPushes(w, Address_of_H, s)
  PROVE  HoldsPushes(v, b, Append(s, e))
<1> DEFINE t == Append(s, e)
<1>1. /\ PushAt(t) = PushAt(s) /\ Pushed(t) = Pushed(s)
      /\ \A n \in PushAt(s) : t[n] = s[n] /\ Upto(t, n) = Upto(s, n)
  <2>1. Pushed(s) \in Nat
    BY PushCount
  <2>2. QED
    BY <2>1, PushAppend
<1>2. /\ Len(v) = Len(w) - 1 /\ \A j \in 1..Len(v) : v[j] = w[j]
      /\ Len(w) \in Nat
  <2>1. Len(v) = Len(w) - 1
    BY PoppedSeq
  <2>2. \A j \in 1..Len(v) : v[j] = w[j]
    BY PoppedSeq
  <2>3. QED
    BY <2>1, <2>2
<1>3. /\ Base \in Nat \ {0} /\ Pushed(s) \in Nat
      /\ \A n \in PushAt(s) : Upto(s, n) \in 1..Pushed(s)
      /\ Len(w) = Base + Pushed(s) + 1
  BY InputFacts, PushCount DEF HoldsPushes
<1> HIDE DEF t
<1>4. /\ Base \in 1..Len(v) /\ Len(v) = Base + Pushed(s)
      /\ \A n \in PushAt(s) : Base + Upto(s, n) \in 1..Len(v)
  <2>1. Len(v) = Base + Pushed(s)
    BY <1>2, <1>3
  <2>2. QED
    BY <1>3, <2>1, SMTT(30)
<1>5. HoldsPushes(v, b, t)
  <2>1. Len(v) = Base + Pushed(t)
    BY <1>1, <1>4
  <2>2. v[Base] = End_Of_Code
    BY <1>2, <1>4 DEF HoldsPushes
  <2>3. \A n \in PushAt(t) : v[Base + Upto(t, n)] = t[n].Decode_Target
    BY <1>1, <1>2, <1>4, ZenonT(60) DEF HoldsPushes
  <2>4. \A j \in 1..Pushed(t) : \E n \in PushAt(t) : Upto(t, n) = j
    BY <1>1 DEF HoldsPushes
  <2>5. QED
    BY <1>1, <1>3, <2>1, <2>2, <2>3, <2>4, SMTT(30) DEF HoldsPushes
<1>6. QED
  BY <1>5 DEF t

\* A push gets the next number and its word the next place on the stack.
LEMMA PushPush ==
  ASSUME NEW s \in Seq(Entry), NEW e \in Entry, IsPush(e),
         NEW w \in Seq(Word), NEW a, NEW b, b # Address_of_H, a # Address_of_H,
         HoldsPushes(w, a, s)
  PROVE  HoldsPushes(Append(w, e.Decode_Target), b, Append(s, e))
<1> DEFINE t == Append(s, e)
           v == Append(w, e.Decode_Target)
           N == Pushed(s)
<1>1. /\ PushAt(t) = PushAt(s) \cup {Len(s) + 1} /\ Pushed(t) = N + 1
      /\ \A n \in PushAt(s) : t[n] = s[n] /\ Upto(t, n) = Upto(s, n)
      /\ t[Len(s) + 1] = e
      /\ Upto(t, Len(s) + 1) = N + 1
  BY PushAppend
<1>2. /\ Len(v) = Len(w) + 1 /\ v[Len(w) + 1] = e.Decode_Target
      /\ \A j \in 1..Len(w) : v[j] = w[j]
      /\ Len(w) \in Nat
  <2>1. e.Decode_Target \in Word
    BY DEF Entry
  <2>2. QED
    BY <2>1
<1>3. /\ Base \in Nat \ {0} /\ N \in Nat
      /\ \A n \in PushAt(s) : Upto(s, n) \in 1..N
      /\ Len(w) = Base + N
  BY InputFacts, PushCount DEF HoldsPushes
<1> HIDE DEF t, v, N
<1>4. /\ Base \in 1..Len(w)
      /\ \A n \in PushAt(s) : Base + Upto(s, n) \in 1..Len(w)
  BY <1>3
<1>5. HoldsPushes(v, b, t)
  <2>1. Len(v) = Base + Pushed(t)
    BY <1>1, <1>2, <1>3
  <2>2. v[Base] = End_Of_Code
    BY <1>2, <1>4 DEF HoldsPushes
  <2>3. ASSUME NEW n \in PushAt(t)
        PROVE  v[Base + Upto(t, n)] = t[n].Decode_Target
    <3>1. CASE n \in PushAt(s)
      BY <1>1, <1>2, <1>4, <3>1 DEF HoldsPushes
    <3>2. CASE n = Len(s) + 1
      <4>1. Base + Upto(t, n) = Len(w) + 1
        BY <1>1, <1>3, <3>2
      <4>2. QED
        BY <1>1, <1>2, <3>2, <4>1
    <3>3. QED
      BY <1>1, <3>1, <3>2
  <2>4. ASSUME NEW j \in 1..Pushed(t)
        PROVE  \E n \in PushAt(t) : Upto(t, n) = j
    <3>1. CASE j = N + 1
      BY <1>1, <3>1
    <3>2. CASE j # N + 1
      <4>1. j \in 1..N
        BY <1>1, <1>3, <3>2
      <4>2. PICK n \in PushAt(s) : Upto(s, n) = j
        BY <4>1 DEF HoldsPushes, N
      <4>3. QED
        BY <1>1, <4>2
    <3>3. QED
      BY <3>1, <3>2
  <2>5. QED
    BY <1>1, <1>3, <2>1, <2>2, <2>3, <2>4 DEF HoldsPushes
<1>6. QED
  BY <1>5 DEF t, v

\* One instruction of a program that calls only the decider, but the last.
LEMMA PushExecute ==
  ASSUME TypeOK, FaithfulTrace, CallsOnlyDecider, Execute, eip # code_end,
         HoldsPushes(stack, eip, execution_trace)
  PROVE  HoldsPushes(stack', eip', Append(execution_trace, Decode(eip, eip')))
<1> DEFINE e == Decode(eip, eip')
           s == execution_trace
<1>1. /\ eip \in Addr /\ eip' \in Word /\ Follows(eip, eip')
      /\ stack \in Seq(Word) /\ s \in Seq(Entry) /\ code[eip] \in Instruction
  BY ExecuteStep, CodeFacts DEF TypeOK, Execute
<1>2. e \in Entry /\ e.Address = eip /\ e.Simplified_Opcode = Simplified(code[eip].op)
  BY <1>1, DecodeFaithful DEF Faithful
<1>3. code[eip].op = "PUSH" => e.Decode_Target = code[eip].target
  BY DEF Decode
<1>4. /\ code[eip].op \in {"JMP", "CALL", "JCC", "RET", "PUSH", "OTHER", "JO"}
      /\ code[eip].op = "RET" <=> eip = Address_of_H
      /\ code[eip].op = "CALL" => eip' = Address_of_H
      /\ code[eip].op \notin {"CALL", "RET"} => eip' # Address_of_H
  BY <1>1, OnlyDeciderFacts
<1>5. IsPush(e) <=> code[eip].op = "PUSH"
  BY <1>2, <1>4 DEF IsPush, Simplified
<1> HIDE DEF e
<1>6. CASE code[eip].op \in {"JMP", "JCC", "OTHER", "JO"}
  <2>1. stack' = stack /\ eip # Address_of_H /\ eip' # Address_of_H /\ ~IsPush(e)
    BY <1>4, <1>5, <1>6 DEF Execute, Branch, Jump, JumpThroughPointer, Call,
       CallThroughPointer, Return, Push, Pop, Other
  <2>2. HoldsPushes(stack, eip', Append(s, e))
    BY <1>1, <1>2, <2>1, PushKeep
  <2>3. QED
    BY <2>1, <2>2 DEF e
<1>7. CASE code[eip].op = "PUSH"
  <2>1. /\ stack' = Append(stack, e.Decode_Target)
        /\ eip # Address_of_H /\ eip' # Address_of_H /\ IsPush(e)
    BY <1>3, <1>4, <1>5, <1>7 DEF Execute, Branch, Jump, JumpThroughPointer, Call,
       CallThroughPointer, Return, Push, Pop, Other
  <2>2. HoldsPushes(Append(stack, e.Decode_Target), eip', Append(s, e))
    BY <1>1, <1>2, <2>1, PushPush
  <2>3. QED
    BY <2>1, <2>2 DEF e
<1>8. CASE code[eip].op = "CALL"
  <2>1. /\ stack' = Append(stack, e.Address + 1)
        /\ eip # Address_of_H /\ eip' = Address_of_H
        /\ e.Simplified_Opcode = "CALL"
    BY <1>2, <1>4, <1>8 DEF Execute, Branch, Jump, JumpThroughPointer, Call,
       CallThroughPointer, Return, Push, Pop, Other, Simplified
  <2>2. e.Address + 1 \in Word
    BY <1>1, <1>2, <1>8, CodeFacts DEF TypeOK, WellFormed, Continues
  <2>3. HoldsPushes(Append(stack, e.Address + 1), Address_of_H, Append(s, e))
    BY <1>1, <1>2, <2>1, <2>2, PushCall
  <2>4. QED
    BY <2>1, <2>3 DEF e
<1>9. CASE code[eip].op = "RET"
  <2>1. /\ stack' = SubSeq(stack, 1, Len(stack) - 1) /\ stack # << >>
        /\ eip = Address_of_H /\ eip' = stack[Len(stack)] /\ ~IsPush(e)
    BY <1>4, <1>5, <1>9 DEF Execute, Branch, Jump, JumpThroughPointer, Call,
       CallThroughPointer, Return, Push, Pop, Other, Top, Popped
  <2>2. eip' # Address_of_H
    <3> DEFINE c == s[Len(s)]
    <3>1. /\ Len(s) > 0 /\ c.Simplified_Opcode = "CALL" /\ eip' = c.Address + 1
      BY <2>1 DEF HoldsPushes
    <3>2. c \in Entry /\ Faithful(c)
      BY <1>1, <3>1 DEF FaithfulTrace
    <3>3. c.Address \in Addr /\ c.Simplified_Opcode = Simplified(code[c.Address].op)
      BY <3>2 DEF Entry, Faithful
    <3>4. /\ code[c.Address].op \in {"CALL", "CALLR", "CALLX"}
      BY <3>1, <3>3 DEF Simplified
    <3>5. Continues(code[c.Address].op)
      BY <3>4 DEF Continues
    <3>6. Address_of_H \in Addr /\ c.Address \in Addr /\ CodeSize \in Nat
      BY <3>3, SizeAssumption DEF CallsOnlyDecider
    <3>7. QED
      <4> SUFFICES ASSUME c.Address + 1 = Address_of_H PROVE FALSE
        BY <3>1
      <4>1. c.Address = Address_of_H - 1
        BY <3>6 DEF Addr
      <4>2. ~Continues(code[c.Address].op)
        BY <3>6, <4>1 DEF CallsOnlyDecider
      <4>3. QED
        BY <3>5, <4>2
  <2>3. HoldsPushes(stack', eip', Append(s, e))
    BY <1>1, <1>2, <2>1, <2>2, PushReturn
  <2>4. QED
    BY <2>3 DEF e
<1>10. QED
  BY <1>4, <1>6, <1>7, <1>8, <1>9

\* Before the first instruction nothing is pushed.
LEMMA PushInit == Init => PushInv
<1> SUFFICES ASSUME Init, CallsOnlyDecider PROVE HoldsPushes(stack, eip, Seen)
  BY PathInit DEF PushInv
<1>1. /\ Seen = << >> /\ eip # Address_of_H
      /\ stack = Append(Frame, End_Of_Code)
  BY DEF Init, Seen, CallsOnlyDecider
<1>2. Base \in Nat \ {0} /\ Len(stack) = Base /\ stack[Base] = End_Of_Code
  BY <1>1, InputFacts, ProgramAssumption DEF Base
<1>3. PushAt(Seen) = {} /\ Pushed(Seen) = 0
  <2>1. PushAt(Seen) = {}
    BY <1>1 DEF PushAt
  <2>2. QED
    BY <2>1, FS_EmptySet DEF Pushed
<1>4. QED
  BY <1>1, <1>2, <1>3 DEF HoldsPushes

\* Every step of the simulation keeps the words pushed on the stack.
LEMMA PushStep == PushInv /\ [Next]_vars => PushInv'
<1> SUFFICES ASSUME PushInv, [Next]_vars, CallsOnlyDecider, Simulating'
             PROVE  HoldsPushes(stack, eip, Seen)'
  BY PathStep, CodeUnchanged DEF PushInv, CallsOnlyDecider
<1>1. /\ TypeOK /\ FaithfulTrace
      /\ Simulating => HoldsPushes(stack, eip, Seen)
  BY DEF PushInv, PathInv
<1>2. CASE DebugStep
  <2>1. /\ Execute /\ EIP' = eip /\ eip # code_end /\ pc = "simulate"
    BY <1>2 DEF DebugStep, Simulating
  <2>2. HoldsPushes(stack, eip, execution_trace)
    BY <1>1, <2>1 DEF Simulating, Seen
  <2>3. Seen' = Append(execution_trace, Decode(eip, eip'))
    BY <1>2 DEF DebugStep, Seen
  <2>4. HoldsPushes(stack', eip', Append(execution_trace, Decode(eip, eip')))
    BY <1>1, <2>1, <2>2, PushExecute
  <2>5. QED
    BY <2>3, <2>4
<1>3. CASE PushBack \/ Examine \/ UNCHANGED vars
  <2>1. /\ Simulating
        /\ UNCHANGED <<stack, eip>>
        /\ Seen' = Seen
    BY <1>3 DEF PushBack, Examine, vars, Simulating, Seen
  <2>2. QED
    BY <1>1, <2>1 DEF HoldsPushes
<1>4. CASE InputHalted \/ OutOfMemory \/ RunDirectly
  BY <1>4 DEF InputHalted, OutOfMemory, RunDirectly, Simulating
<1>5. QED
  BY <1>2, <1>3, <1>4 DEF Next, Decide_Halting

\* Counted from the end or from the beginning, a push has one place.
LEMMA CountedBothWays ==
  ASSUME execution_trace \in Seq(Entry), Len(execution_trace) > 0, ~IsPush(current),
         NEW n \in PushAt(execution_trace)
  PROVE  /\ n \in Earlier
         /\ PushesFrom(n) + Upto(execution_trace, n) = Pushed(execution_trace) + 1
<1> DEFINE s == execution_trace
           A == {m \in PushAt(s) : m >= n}
           B == {m \in PushAt(s) : m <= n}
<1>1. Len(s) \in Nat \ {0} /\ n \in 1..Len(s) /\ IsPush(s[n])
  BY DEF PushAt
<1>2. PushAt(s) = {m \in Earlier : IsPush(s[m])}
  <2>1. ASSUME NEW m PROVE m \in 1..Len(s) /\ IsPush(s[m]) <=> m \in Earlier /\ IsPush(s[m])
    BY <1>1 DEF Earlier, current
  <2>2. QED
    BY <2>1 DEF PushAt
<1>3. n \in Earlier
  BY <1>2
<1>4. A \cup B = PushAt(s) /\ A \cap B = {n}
  <2>1. \A m \in PushAt(s) : m \in Int
    BY <1>1 DEF PushAt
  <2>2. n \in Int
    BY <1>1
  <2>3. A \cup B = PushAt(s)
    <3>1. \A m \in PushAt(s) : m >= n \/ m <= n
      BY <2>1, <2>2
    <3>2. QED
      BY <3>1, Zenon
  <2>4. ASSUME NEW m \in A \cap B PROVE m = n
    BY <2>1, <2>2
  <2>5. n \in A \cap B
    BY <2>2
  <2>6. QED
    BY <2>3, <2>4, <2>5
<1>5. IsFiniteSet(A) /\ IsFiniteSet(B) /\ Cardinality(A) \in Nat /\ Cardinality(B) \in Nat
  <2>1. IsFiniteSet(PushAt(s))
    BY PushCount
  <2>2. IsFiniteSet(A) /\ IsFiniteSet(B)
    BY <2>1, FS_Subset
  <2>3. QED
    BY <2>2, FS_CardinalityType
<1>6. Cardinality(A \cup B) = Cardinality(A) + Cardinality(B) - Cardinality(A \cap B)
  BY <1>5, FS_Union
<1>7. Cardinality(A \cap B) = 1
  BY <1>4, FS_Singleton
<1>8. A = {m \in Earlier : m >= n /\ IsPush(s[m])}
  BY <1>2
<1>9. PushesFrom(n) = Cardinality(A)
  BY <1>8 DEF PushesFrom
<1>10. Upto(s, n) = Cardinality(B) /\ Pushed(s) = Cardinality(A \cup B)
  BY <1>4 DEF Upto, Pushed
<1>11. QED
  BY <1>3, <1>5, <1>6, <1>7, <1>9, <1>10

\* At a call of the decider, the detector finds what is on the stack.
LEMMA SimulationFound ==
  ASSUME PushInv, CallsOnlyDecider, pc = "recorded", eip = Address_of_H
  PROVE  Needs_To_Be_Aborted = 3 <=> SameArguments /\ NoConditionalBranch(1)
<1> DEFINE s == execution_trace
           N == Pushed(s)
           c == s[Len(s)]
<1>1. /\ s \in Seq(Entry) /\ Len(s) \in Nat /\ Args \in Seq(Word) /\ Len(Args) \in Nat
      /\ Base \in Nat \ {0} /\ N \in Nat
  <2>1. s \in Seq(Entry)
    BY DEF PushInv, PathInv, TypeOK
  <2>2. QED
    BY <2>1, InputFacts, ProgramAssumption, PushCount
<1>2. HoldsPushes(stack, Address_of_H, s)
  BY DEF PushInv, Simulating, Seen
<1>3. Len(s) > 0 /\ c.Simplified_Opcode = "CALL" /\ current = c
  BY <1>2 DEF HoldsPushes, current
<1>4. c.Decode_Target = Address_of_H
  <2>1. c \in Entry /\ Faithful(c)
    BY <1>1, <1>3 DEF PushInv, PathInv, FaithfulTrace
  <2>2. c.Address \in Addr /\ code[c.Address].op = "CALL"
    BY <1>3, <2>1 DEF Entry, Faithful, Simplified, CallsOnlyDecider
  <2>3. QED
    BY <2>1, <2>2 DEF Faithful, CallsOnlyDecider
<1>5. Needs_To_Be_Aborted = 3 <=> Infinite_Simulation
  BY <1>3, <1>4 DEF Needs_To_Be_Aborted
<1>6. /\ Len(stack) = Base + N + 1 /\ stack[Base] = End_Of_Code
      /\ \A n \in PushAt(s) : /\ stack[Base + Upto(s, n)] = s[n].Decode_Target
                              /\ Upto(s, n) \in 1..N
                              /\ n \in Earlier /\ IsPush(s[n])
                              /\ PushesFrom(n) + Upto(s, n) = N + 1
      /\ \A j \in 1..N : \E n \in PushAt(s) : Upto(s, n) = j
  <2>1. ~IsPush(current)
    BY <1>3 DEF IsPush
  <2>2. \A n \in PushAt(s) : n \in Earlier /\ PushesFrom(n) + Upto(s, n) = N + 1
    BY <1>1, <1>3, <2>1, CountedBothWays
  <2>3. \A n \in PushAt(s) : IsPush(s[n])
    BY DEF PushAt
  <2>4. QED
    BY <1>1, <1>2, <2>2, <2>3, PushCount DEF HoldsPushes
<1>7. \A n \in Earlier : PushesFrom(n) \in Nat
  <2> SUFFICES ASSUME NEW n \in Earlier PROVE PushesFrom(n) \in Nat
    OBVIOUS
  <2> DEFINE T == {m \in Earlier : m >= n /\ IsPush(execution_trace[m])}
  <2>1. IsFiniteSet(Earlier)
    BY <1>1, FS_Interval DEF Earlier
  <2>2. IsFiniteSet(T)
    BY <2>1, FS_Subset
  <2>3. QED
    BY <2>2, FS_CardinalityType DEF PushesFrom
<1>8. ASSUME NEW k \in 1..Len(Args), NEW n \in Earlier, IsPush(s[n]),
             PushesFrom(n) = k, s[n].Decode_Target = Args[k]
      PROVE  k <= N /\ stack[Len(stack) - k] = Args[k]
  <2>1. n \in PushAt(s)
    BY <1>1, <1>8 DEF PushAt, Earlier
  <2>2. Upto(s, n) \in 1..N /\ Upto(s, n) = N + 1 - k
    BY <1>1, <1>6, <1>8, <2>1, SMTT(30)
  <2>3. Len(stack) - k = Base + Upto(s, n)
    BY <1>1, <1>6, <2>2
  <2>4. QED
    BY <1>1, <1>6, <1>8, <2>1, <2>2, <2>3, SMTT(30)
<1>9. ASSUME Infinite_Simulation PROVE SameArguments
  <2>1. \A k \in 1..Len(Args) : k <= N /\ stack[Len(stack) - k] = Args[k]
    BY <1>8, <1>9 DEF Infinite_Simulation
  <2>2. Len(Args) <= N
    BY <1>1, <2>1
  <2>3. Len(stack) > Len(Args)
    BY <1>1, <1>6, <2>2
  <2>4. QED
    BY <2>1, <2>3 DEF SameArguments
<1>10. ASSUME SameArguments, NEW k \in 1..Len(Args)
       PROVE  \E n \in Earlier : /\ IsPush(s[n]) /\ PushesFrom(n) = k
                                 /\ s[n].Decode_Target = Args[k]
  <2>1. Len(Args) <= N
    <3> SUFFICES ASSUME Len(Args) > N PROVE FALSE
      BY <1>1
    <3>1. N + 1 \in 1..Len(Args)
      BY <1>1
    <3>2. Len(stack) - (N + 1) = Base
      BY <1>1, <1>6
    <3>3. Args[N + 1] = End_Of_Code
      BY <1>6, <1>10, <3>1, <3>2 DEF SameArguments
    <3>4. QED
      BY <3>1, <3>3 DEF CallsOnlyDecider
  <2>2. N + 1 - k \in 1..N
    BY <1>1, <2>1
  <2>3. PICK n \in PushAt(s) : Upto(s, n) = N + 1 - k
    BY <1>6, <2>2
  <2>4. n \in Earlier /\ IsPush(s[n]) /\ PushesFrom(n) = k
    BY <1>1, <1>6, <1>7, <2>3, SMTT(30)
  <2>5. Len(stack) - k = Base + Upto(s, n)
    BY <1>1, <1>6, <2>3, SMTT(30)
  <2>6. s[n].Decode_Target = Args[k]
    BY <1>6, <1>10, <2>3, <2>5 DEF SameArguments
  <2>7. QED
    BY <2>4, <2>6
<1>11. QED
  BY <1>5, <1>9, <1>10 DEF Infinite_Simulation

\* A call of the decider is reported as recursive simulation exactly when the
\* words on the slave's stack are the decider's own arguments and no
\* conditional branch came before: for every program that calls nothing but
\* the decider, every number of arguments and every size of trace.
THEOREM SimulationVerdictIsExact == Spec => SimulationVerdictExact
<1>1. PushInv /\ [Next]_vars =>
        [(CallsOnlyDecider /\ pc = "recorded" /\ eip = Address_of_H)
           => (Aborted' = 3 <=> SameArguments /\ NoConditionalBranch(1))]_vars
  <2> SUFFICES ASSUME PushInv, Next, CallsOnlyDecider, pc = "recorded", eip = Address_of_H
               PROVE  Aborted' = 3 <=> SameArguments /\ NoConditionalBranch(1)
    OBVIOUS
  <2>1. Aborted' = Needs_To_Be_Aborted
    BY DEF Next, Decide_Halting, DebugStep, InputHalted, PushBack, OutOfMemory, Examine,
       RunDirectly
  <2>2. QED
    BY <2>1, SimulationFound
<1>2. QED
  BY <1>1, PushInit, PushStep, PTL DEF Spec, SimulationVerdictExact
=============================================================================
