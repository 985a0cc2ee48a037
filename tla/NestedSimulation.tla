-------------------------- MODULE NestedSimulation --------------------------
(***************************************************************************)
(* HHH of Halt7.c deciding an input that may call HHH itself.              *)
(*                                                                         *)
(* main runs natively in process 1.  A call of HHH in process k starts an  *)
(* activation k, which simulates its input in process k + 1 by DebugStep;  *)
(* that process may call HHH again, and so on.  Only the innermost process *)
(* executes code of an input; every outer one stands in the loop of        *)
(* Decide_Halting_HH.  All activations share the two static cells of HHH:  *)
(* the one that finds execution_trace unset becomes the Root, allocates    *)
(* the trace and is the only one to examine it.                            *)
(*                                                                         *)
(* Inputs are deterministic: the only data is EAX, the result of the last  *)
(* call of HHH, and JZ, taken when it is 0, the only conditional branch.   *)
(* main is what a user of HHH writes; the one here asks about the same     *)
(* input twice and then calls the input itself.                            *)
(***************************************************************************)
EXTENDS Integers, Sequences

CONSTANTS
  CodeSize,       \* instruction slots of the functions inputs are made of
  Programs,       \* the programs checked
  Functions,      \* entry addresses
  CodeEnd,        \* get_code_end: the last "ret" of each function
  P,              \* the input main asks about
  Address_of_HHH, \* what a call of HHH has as Decode_Target
  TraceCapacity,  \* entries Init_Halts_HH allocates
  MaxStack        \* bound on the stack of the direct run

Addr == 1..CodeSize

\* A label of HHH, where a simulated input returns to; for the direct run,
\* the instruction of main after the call.
End_Of_Code == 0

Kind == {"JMP", "JZ", "CALL", "HHH", "RET", "OTHER"}

Instruction == [op : Kind, target : Addr \cup {0}]

Continues(op) == op \notin {"JMP", "RET"}

WellFormed(c) ==
  /\ \A f \in Functions : c[CodeEnd[f]].op = "RET"
  /\ \A a \in Addr :
       /\ c[a].op \in {"JMP", "JZ"} => c[a].target \in Addr
       /\ c[a].op \in {"CALL", "HHH"} => c[a].target \in Functions
       /\ Continues(c[a].op) => a + 1 \in Addr

ASSUME NestedAssumption ==
  /\ CodeSize \in Nat \ {0}
  /\ Functions \subseteq Addr
  /\ CodeEnd \in [Functions -> Addr]
  /\ P \in Functions
  /\ Address_of_HHH \notin Addr
  /\ TraceCapacity \in Nat
  /\ Programs \subseteq [Addr -> Instruction]
  /\ \A c \in Programs : WellFormed(c)

VARIABLES
  code,        \* the program of the inputs (never changes)
  processes,   \* the processes, main first, the innermost last
  activations, \* activation k of HHH runs in process k, simulates k + 1
  traceSet,    \* static cell execution_trace of HHH points to a trace
  trace,       \* the execution trace it points to
  todo,        \* what main still does: "decide" calls HHH(P), "run" calls P()
  verdicts,    \* what HHH(P) has returned to main, in order
  status,      \* "running", or "exited" once PushBack has ended the program
  history      \* history variable: the first TraceCapacity + 1 addresses simulated
               \* under this Root

vars == <<code, processes, activations, traceSet, trace, todo, verdicts, status, history>>

Idle == [eip |-> 0, stack |-> << >>, eax |-> 0, calling |-> 0]

Init ==
  /\ code \in Programs
  /\ processes = <<Idle>>
  /\ activations = << >>
  /\ traceSet = FALSE
  /\ trace = << >>
  /\ todo = <<"decide", "decide", "run">>
  /\ verdicts = << >>
  /\ status = "running"
  /\ history = << >>

Innermost == Len(processes)
Depth     == Len(activations)
Inner     == activations[Depth]

-----------------------------------------------------------------------------
(* The detector of the Root.                                               *)

Last == trace[Len(trace)]

\* No JCC was traced from entry n up to the last one.
NoConditionalBranch(n) ==
  \A k \in n..(Len(trace) - 1) : trace[k].Simplified_Opcode # "JCC"

\* Mutant of ClosesLoop: any upward jump is taken for a loop.
JumpsUp(n) ==
  /\ Last.Simplified_Opcode = "JMP"
  /\ Last.Decode_Target <= Last.Address

ClosesLoop(n) ==
  /\ Last.Simplified_Opcode = "JMP"
  /\ Last.Decode_Target <= Last.Address
  /\ trace[n].Address = Last.Decode_Target

RepeatsCall(n) ==
  /\ Last.Simplified_Opcode = "CALL"
  /\ trace[n].Simplified_Opcode = "CALL"
  /\ trace[n].Address = Last.Address
  /\ trace[n].Decode_Target = Last.Decode_Target

Needs_To_Be_Aborted_HH ==
  \E n \in 1..(Len(trace) - 1) :
    (ClosesLoop(n) \/ RepeatsCall(n)) /\ NoConditionalBranch(n)

-----------------------------------------------------------------------------
(* Instructions of an input, executed by the innermost process.            *)

\* What executing the instruction at p.eip makes of process p.  A call of HHH
\* leaves the return address in eip and the argument in calling.
Executed(p) ==
  LET i == code[p.eip]
      next == p.eip + 1
  IN  CASE i.op = "JMP"   -> [p EXCEPT !.eip = i.target]
        [] i.op = "JZ"    -> [p EXCEPT !.eip = IF p.eax = 0 THEN i.target ELSE next]
        [] i.op = "CALL"  -> [p EXCEPT !.eip = i.target, !.stack = Append(@, next)]
        [] i.op = "HHH"   -> [p EXCEPT !.eip = next, !.calling = i.target]
        [] i.op = "RET"   -> [p EXCEPT !.eip = p.stack[Len(p.stack)],
                                       !.stack = SubSeq(@, 1, Len(@) - 1)]
        [] i.op = "OTHER" -> [p EXCEPT !.eip = next]

Simplified(op) ==
  CASE op = "JZ" -> "JCC" [] op = "HHH" -> "CALL" [] OTHER -> op

Decode(a) ==
  [Address           |-> a,
   Simplified_Opcode |-> Simplified(code[a].op),
   Decode_Target     |-> IF code[a].op = "HHH" THEN Address_of_HHH ELSE code[a].target]

\* The innermost process is about to execute an instruction of an input.
AtInput == processes[Innermost].calling = 0 /\ processes[Innermost].eip \in Addr

-----------------------------------------------------------------------------
(* HHH.                                                                    *)

\* Mutant of HasHalted: whatever "ret" was executed ends the input.
AnyReturn == code[Inner.EIP].op = "RET"

\* EIP == code_end, of the innermost activation.
HasHalted == Inner.EIP = CodeEnd[Inner.input]

\* Between two steps of the simulated machine the Root looks at the trace, if
\* it has grown.  What it reads through an unset cell is not a trace and has
\* no effect.
RootMustLook ==
  /\ traceSet
  /\ \E k \in 1..Depth :
       /\ activations[k].Root
       /\ Len(trace) > activations[k].length
       /\ k = Depth => Inner.pc = "recorded" /\ ~HasHalted

\* Mutant of Init_Halts_HH: the Root goes on with the trace of the last one.
InitReusesTrace ==
  /\ status = "running"
  /\ processes[Innermost].calling # 0
  /\ Depth > 0 => Inner.pc = "simulate"
  /\ ~RootMustLook
  /\ LET input == processes[Innermost].calling
     IN  /\ activations' = Append(activations,
              [input |-> input, Root |-> ~traceSet, length |-> 0, pc |-> "simulate",
               EIP |-> input])
         /\ processes' = Append(processes,
              [eip |-> input, stack |-> <<End_Of_Code>>, eax |-> 0, calling |-> 0])
  /\ traceSet' = TRUE
  /\ history' = IF Depth = 0 THEN << >> ELSE history
  /\ UNCHANGED <<code, trace, todo, verdicts, status>>

\* Init_Halts_HH and Init_slave_state0 in the innermost process.
Init_Halts_HH ==
  /\ status = "running"
  /\ processes[Innermost].calling # 0
  /\ Depth > 0 => Inner.pc = "simulate"
  /\ ~RootMustLook
  /\ LET input == processes[Innermost].calling
     IN  /\ activations' = Append(activations,
              [input |-> input, Root |-> ~traceSet, length |-> 0, pc |-> "simulate",
               EIP |-> input])
         /\ processes' = Append(processes,
              [eip |-> input, stack |-> <<End_Of_Code>>, eax |-> 0, calling |-> 0])
  /\ traceSet' = TRUE
  /\ trace' = IF traceSet THEN trace ELSE << >>
  /\ history' = IF Depth = 0 THEN << >> ELSE history
  /\ UNCHANGED <<code, todo, verdicts, status>>

\* Save EIP, DebugStep: one instruction of the innermost input.
DebugStep ==
  /\ status = "running"
  /\ Depth > 0
  /\ Inner.pc = "simulate"
  /\ ~RootMustLook
  /\ AtInput
  /\ LET p == processes[Innermost]
     IN  /\ processes' = [processes EXCEPT ![Innermost] = Executed(p)]
         /\ activations' = [activations EXCEPT ![Depth].EIP = p.eip,
                                               ![Depth].pc = "executed"]
         /\ history' = IF Len(history) <= TraceCapacity THEN Append(history, p.eip) ELSE history
  /\ UNCHANGED <<code, traceSet, trace, todo, verdicts, status>>

\* Mutant of PushBack: only the Root records.
PushBackByRoot ==
  /\ status = "running"
  /\ Depth > 0
  /\ Inner.pc = "executed"
  /\ IF traceSet /\ Len(trace) < TraceCapacity
     THEN /\ trace' = IF Inner.Root THEN Append(trace, Decode(Inner.EIP)) ELSE trace
          /\ activations' = [activations EXCEPT ![Depth].pc = "recorded"]
          /\ UNCHANGED status
     ELSE /\ status' = "exited"
          /\ UNCHANGED <<trace, activations>>
  /\ UNCHANGED <<code, processes, traceSet, todo, verdicts, history>>

\* Mutant of PushBack: an entry that finds no room is dropped.
PushBackDrops ==
  /\ status = "running"
  /\ Depth > 0
  /\ Inner.pc = "executed"
  /\ trace' = IF traceSet /\ Len(trace) < TraceCapacity
              THEN Append(trace, Decode(Inner.EIP)) ELSE trace
  /\ activations' = [activations EXCEPT ![Depth].pc = "recorded"]
  /\ UNCHANGED <<code, processes, traceSet, todo, verdicts, status, history>>

\* Every activation records what its own input executes, in the shared trace.
\* Without a trace, or without room in it, PushBack ends the program.
PushBack ==
  /\ status = "running"
  /\ Depth > 0
  /\ Inner.pc = "executed"
  /\ IF traceSet /\ Len(trace) < TraceCapacity
     THEN /\ trace' = Append(trace, Decode(Inner.EIP))
          /\ activations' = [activations EXCEPT ![Depth].pc = "recorded"]
          /\ UNCHANGED status
     ELSE /\ status' = "exited"
          /\ UNCHANGED <<trace, activations>>
  /\ UNCHANGED <<code, processes, traceSet, todo, verdicts, history>>

\* main gets the answer it asked for.
Report(k, v) ==
  IF k = 1 /\ processes[1].eip = 0
  THEN verdicts' = Append(verdicts, v) /\ todo' = Tail(todo)
  ELSE UNCHANGED <<verdicts, todo>>

\* Mutant of Return: the abandoned process is not taken off.
ReturnKeepsProcess(k, v) ==
  /\ activations' = SubSeq(activations, 1, k - 1)
  /\ processes' = [processes EXCEPT ![k].eax = v, ![k].calling = 0]
  /\ traceSet' = FALSE
  /\ Report(k, v)
  /\ UNCHANGED <<code, trace, status, history>>

\* Mutant of Return: the static cells keep their contents.
ReturnKeepsCells(k, v) ==
  /\ activations' = SubSeq(activations, 1, k - 1)
  /\ processes' = [SubSeq(processes, 1, k) EXCEPT ![k].eax = v, ![k].calling = 0]
  /\ Report(k, v)
  /\ UNCHANGED <<code, traceSet, trace, status, history>>

\* HHH returns v from activation k; what was simulated below is abandoned and
\* the static cells are unset.
Return(k, v) ==
  /\ activations' = SubSeq(activations, 1, k - 1)
  /\ processes' = [SubSeq(processes, 1, k) EXCEPT ![k].eax = v, ![k].calling = 0]
  /\ traceSet' = FALSE
  /\ Report(k, v)
  /\ UNCHANGED <<code, trace, status, history>>

\* if (EIP == code_end) return 1;
InputHalted ==
  /\ status = "running"
  /\ Depth > 0
  /\ Inner.pc = "recorded"
  /\ ~RootMustLook
  /\ HasHalted
  /\ Return(Depth, 1)

\* An activation that has nothing to examine goes on with its loop.
Continue ==
  /\ status = "running"
  /\ Depth > 0
  /\ Inner.pc = "recorded"
  /\ ~RootMustLook
  /\ ~HasHalted
  /\ activations' = [activations EXCEPT ![Depth].pc = "simulate"]
  /\ UNCHANGED <<code, processes, traceSet, trace, todo, verdicts, status, history>>

\* The Root examines the trace some activation has appended to, and returns 0
\* or goes on.
RootExamines ==
  /\ status = "running"
  /\ RootMustLook
  /\ \E k \in 1..Depth :
       /\ activations[k].Root
       /\ Len(trace) > activations[k].length
       /\ IF Needs_To_Be_Aborted_HH
          THEN Return(k, 0)
          ELSE /\ activations' = [activations EXCEPT
                    ![k].length = Len(trace),
                    ![k].pc = "simulate"]
               /\ UNCHANGED <<code, processes, traceSet, trace, todo, verdicts, status, history>>

HHH == Init_Halts_HH \/ DebugStep \/ PushBack \/ InputHalted \/ Continue \/ RootExamines

-----------------------------------------------------------------------------
(* main.                                                                   *)

MainIdle ==
  /\ status = "running"
  /\ Depth = 0
  /\ processes[1].eip = 0
  /\ processes[1].calling = 0
  /\ todo # << >>

\* main calls HHH(P).
AskHHH ==
  /\ MainIdle
  /\ Head(todo) = "decide"
  /\ processes' = <<[Idle EXCEPT !.calling = P]>>
  /\ UNCHANGED <<code, activations, traceSet, trace, todo, verdicts, status, history>>

\* main calls P() itself.
CallInput ==
  /\ MainIdle
  /\ Head(todo) = "run"
  /\ processes' = <<[Idle EXCEPT !.eip = P, !.stack = <<End_Of_Code>>]>>
  /\ todo' = <<"return">>
  /\ UNCHANGED <<code, activations, traceSet, trace, verdicts, status, history>>

\* The processor executes an instruction of P(), without a decider.
RunInput ==
  /\ status = "running"
  /\ Depth = 0
  /\ AtInput
  /\ Len(processes[1].stack) < MaxStack
  /\ processes' = <<Executed(processes[1])>>
  /\ UNCHANGED <<code, activations, traceSet, trace, todo, verdicts, status, history>>

\* P() has returned to main.
InputReturns ==
  /\ MainIdle
  /\ Head(todo) = "return"
  /\ todo' = << >>
  /\ UNCHANGED <<code, processes, activations, traceSet, trace, verdicts, status, history>>

Next == HHH \/ AskHHH \/ CallInput \/ RunInput \/ InputReturns

Spec == Init /\ [][Next]_vars

\* One processor executes main, HHH and the inputs, and never pauses.
FairSpec == Spec /\ WF_vars(Next)

-----------------------------------------------------------------------------
(* Properties.                                                             *)

Entry == [Address : Addr, Simplified_Opcode : {"JMP", "JCC", "CALL", "RET", "OTHER"},
          Decode_Target : Addr \cup {0, Address_of_HHH}]

Activation == [input : Functions, Root : BOOLEAN, length : 0..TraceCapacity,
               pc : {"simulate", "executed", "recorded"}, EIP : Addr]

Process == [eip : Addr \cup {0}, stack : Seq(Addr \cup {0}), eax : {0, 1},
            calling : Functions \cup {0}]

TypeOK ==
  /\ code \in [Addr -> Instruction] /\ WellFormed(code)
  /\ processes \in Seq(Process)
  /\ activations \in Seq(Activation)
  /\ Innermost = Depth + 1
  /\ traceSet \in BOOLEAN
  /\ trace \in Seq(Entry)
  /\ verdicts \in Seq({0, 1})
  /\ status \in {"running", "exited"}
  /\ history \in Seq(Addr)

\* Whoever calls HHH first decides and nobody else ever does: the Root is the
\* outermost activation, the one main (or the input main calls) has started,
\* although the cell that makes a Root is unset by every activation returning.
OnlyOutermostIsRoot == \A k \in 1..Depth : activations[k].Root <=> k = 1

\* As long as the cell points to it, the shared trace holds every instruction
\* executed at any level since the Root began, in the order of execution.
TraceCoversAllLevels ==
  (Depth > 0 /\ traceSet) =>
    history = LET recorded == [k \in 1..Len(trace) |-> trace[k].Address]
              IN  IF Inner.pc = "executed" THEN Append(recorded, Inner.EIP) ELSE recorded

\* The trace stays available to the Root throughout the invocations it
\* watches.
RootKeepsTrace == Depth > 0 => traceSet

\* HHH is a function of its input: asked twice it answers the same.
AnswersAgree == Len(verdicts) = 2 => verdicts[1] = verdicts[2]

InputReturned == todo = << >>

\* Neither calls another function.
NoCalls == \A a \in Addr : code[a].op # "CALL"

\* For an input that calls no other function, "does not halt" is refuted by
\* the direct run only when the simulated input had itself called HHH: an
\* input without self-reference is judged as it behaves.
OnlyCallersOfHHHMisjudged ==
  (NoCalls /\ InputReturned /\ verdicts[2] = 0) =>
    \E a \in Addr : code[a].op = "HHH"

\* HHH comes back with an answer or the trace is exhausted and the program
\* exits: no nesting of simulations keeps the Root waiting for ever.
AnswerOrExit == <>(Len(verdicts) > 0 \/ status = "exited")

\* The input answered "halts" does return when main calls it, provided that it
\* never calls itself: under the Root and in the direct run it does the same.
NotRecursive == \A a \in Addr : code[a].op = "CALL" => code[a].target # P

HaltsMeansReturns ==
  (NotRecursive /\ Len(verdicts) = 2 /\ verdicts[2] = 1) ~> InputReturned
=============================================================================
