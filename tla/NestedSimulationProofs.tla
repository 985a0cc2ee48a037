----------------------- MODULE NestedSimulationProofs -----------------------
(***************************************************************************)
(* Proofs about HHH in recursive activations, for every program, size of   *)
(* trace and depth of nesting: the activation that main or its input has   *)
(* started is the only Root, the shared trace holds what is executed at    *)
(* every level, and an input that neither calls a function nor HHH is      *)
(* judged as it behaves.                                                   *)
(*                                                                         *)
(* The argument for the first two: an inner activation that returns unsets *)
(* the static cells, and the one below it goes on.  Before it can call HHH *)
(* again, which would make a second Root, it has to record an instruction, *)
(* and PushBack finds no trace and ends the program.                       *)
(*                                                                         *)
(* The argument for the third: the trace of such an input is the path of a *)
(* function of addresses.  When the detector finds that it closes a loop,  *)
(* the addresses of the trace are a set that the input cannot leave, and   *)
(* none of them is a "ret".                                                *)
(*                                                                         *)
(* The second half proves that HHH answers the same question in the same   *)
(* way.                                                                    *)
(***************************************************************************)
EXTENDS NestedSimulation, SequenceTheorems, TLAPS

\* What main has been told and what it still does.
Phase ==
  \/ todo = <<"decide", "decide", "run">> /\ Len(verdicts) = 0
  \/ todo = <<"decide", "run">> /\ Len(verdicts) = 1
  \/ todo \in {<<"run">>, <<"return">>, << >>} /\ Len(verdicts) = 2

Deciding == todo \in {<<"decide", "decide", "run">>, <<"decide", "run">>}

\* main stands in a call of HHH(P), in the input it has called, or in neither.
MainProcess ==
  /\ Deciding => processes[1].calling = 0 \/ processes[1] = [Idle EXCEPT !.calling = P]
  /\ Deciding => processes[1].eip = 0
  /\ todo \in {<<"run">>, << >>} =>
       Depth = 0 /\ processes[1].eip = 0 /\ processes[1].calling = 0
  /\ todo = <<"return">> /\ processes[1].calling # 0 => processes[1].eip # 0

\* Every activation simulates what its process has asked about, and waits in
\* DebugStep unless it is the innermost.
Levels ==
  \A k \in 1..Depth :
    /\ processes[k].calling = activations[k].input
    /\ k < Depth => activations[k].pc = "simulate"

\* A call of an input ends where it has begun: in a label of HHH or in main.
Stacks ==
  \A k \in 1..Innermost :
    processes[k].eip # 0 => Len(processes[k].stack) > 0 /\ processes[k].stack[1] = End_Of_Code

\* The cells are unset when nobody decides.  While somebody does they are only
\* after an inner activation has returned: the one below it is bound for a
\* PushBack without a trace.
Cells ==
  /\ Depth = 0 => ~traceSet
  /\ Depth > 0 /\ ~traceSet =>
       \/ Inner.pc = "executed"
       \/ Inner.pc = "simulate" /\ processes[Innermost].calling = 0

\* The inductive invariant.
IInv ==
  /\ TypeOK
  /\ Phase /\ MainProcess /\ Levels /\ Stacks /\ Cells
  /\ Len(trace) <= TraceCapacity
  /\ OnlyOutermostIsRoot
  /\ TraceCoversAllLevels

-----------------------------------------------------------------------------
(* Constants, instructions and processes.                                  *)

\* What the assumptions say of sizes and addresses.
LEMMA Constants ==
  /\ CodeSize \in Nat \ {0} /\ TraceCapacity \in Nat
  /\ Addr \subseteq Nat /\ 0 \notin Addr
  /\ P \in Functions /\ Functions \subseteq Addr
BY NestedAssumption DEF Addr

\* What the constants promise of the instruction at an address.
LEMMA CodeFacts ==
  ASSUME code \in [Addr -> Instruction], WellFormed(code), NEW a \in Addr
  PROVE  /\ code[a].op \in Kind /\ code[a].target \in Addr \cup {0}
         /\ code[a].op \in {"JMP", "JZ"} => code[a].target \in Addr
         /\ code[a].op \in {"CALL", "HHH"} => code[a].target \in Functions
         /\ code[a].op \notin {"JMP", "RET"} => a + 1 \in Addr
BY DEF Instruction, WellFormed, Continues

\* An executed instruction leaves a process, whose calls still end where the
\* call of the input has begun.
LEMMA ExecutedProcess ==
  ASSUME code \in [Addr -> Instruction], WellFormed(code), NEW p \in Process,
         p.eip \in Addr, Len(p.stack) > 0, p.stack[1] = End_Of_Code
  PROVE  /\ Executed(p) \in Process
         /\ Executed(p).eip # 0 =>
              Len(Executed(p).stack) > 0 /\ Executed(p).stack[1] = End_Of_Code
         /\ Executed(p).eax = p.eax
         /\ code[p.eip].op # "HHH" => Executed(p).calling = p.calling
         /\ code[p.eip].op = "HHH" => Executed(p).calling \in Functions /\ Executed(p).eip # 0
<1> DEFINE i    == code[p.eip]
           next == p.eip + 1
           S    == Addr \cup {0}
<1>1. /\ i.op \in Kind
      /\ i.op \in {"JMP", "JZ"} => i.target \in Addr
      /\ i.op \in {"CALL", "HHH"} => i.target \in Functions
      /\ i.op \notin {"JMP", "RET"} => next \in Addr
  BY CodeFacts
<1>2. p.stack \in Seq(S) /\ p.eip \in S /\ p.eax \in {0, 1} /\ p.calling \in Functions \cup {0}
  BY DEF Process
<1>3. Functions \subseteq Addr /\ 0 \notin Addr
  BY Constants
<1>4. CASE i.op = "JMP"
  <2>1. Executed(p) = [p EXCEPT !.eip = i.target]
    BY <1>4 DEF Executed
  <2> QED
    BY <1>1, <1>4, <2>1 DEF Process
<1>5. CASE i.op = "JZ"
  <2>1. Executed(p) = [p EXCEPT !.eip = IF p.eax = 0 THEN i.target ELSE next]
    BY <1>5 DEF Executed
  <2>2. (IF p.eax = 0 THEN i.target ELSE next) \in Addr
    BY <1>1, <1>5
  <2> QED
    BY <1>5, <2>1, <2>2 DEF Process
<1>6. CASE i.op = "CALL"
  <2>1. Executed(p) = [p EXCEPT !.eip = i.target, !.stack = Append(@, next)]
    BY <1>6 DEF Executed
  <2>2. /\ Append(p.stack, next) \in Seq(S) /\ Len(Append(p.stack, next)) > 0
        /\ Append(p.stack, next)[1] = End_Of_Code
    BY <1>1, <1>2, <1>6, AppendProperties
  <2>3. i.target \in S
    BY <1>1, <1>3, <1>6
  <2>4. Executed(p) = [eip |-> i.target, stack |-> Append(p.stack, next),
                       eax |-> p.eax, calling |-> p.calling]
    BY <2>1 DEF Process
  <2> HIDE DEF i, next
  <2> QED
    BY <1>2, <1>6, <2>2, <2>3, <2>4 DEF Process, i
<1>7. CASE i.op = "HHH"
  <2>1. Executed(p) = [p EXCEPT !.eip = next, !.calling = i.target]
    BY <1>7 DEF Executed
  <2>2. Executed(p) = [eip |-> next, stack |-> p.stack, eax |-> p.eax, calling |-> i.target]
    BY <2>1 DEF Process
  <2> QED
    BY <1>1, <1>2, <1>3, <1>7, <2>2 DEF Process
<1>8. CASE i.op = "RET"
  <2> DEFINE rest == SubSeq(p.stack, 1, Len(p.stack) - 1)
             back == p.stack[Len(p.stack)]
  <2>1. Executed(p) = [p EXCEPT !.eip = back, !.stack = rest]
    BY <1>8 DEF Executed
  <2>2. Len(p.stack) \in Nat /\ back \in S
    BY <1>2
  <2>3. /\ rest \in Seq(S) /\ Len(rest) = Len(p.stack) - 1
        /\ Len(p.stack) > 1 => rest[1] = End_Of_Code
    <3>1. \A j \in 1..(Len(p.stack) - 1) : p.stack[j] \in S
      BY <1>2, <2>2
    <3>2. /\ rest \in Seq(S)
          /\ Len(rest) = IF 1 <= Len(p.stack) - 1 THEN (Len(p.stack) - 1) - 1 + 1 ELSE 0
          /\ \A j \in 1..((Len(p.stack) - 1) - 1 + 1) : rest[j] = p.stack[1 + j - 1]
      BY <2>2, <3>1, SubSeqProperties
    <3> QED
      BY <2>2, <3>2
  <2>4. Len(p.stack) = 1 => back = 0
    BY DEF End_Of_Code
  <2>5. Executed(p) = [eip |-> back, stack |-> rest, eax |-> p.eax, calling |-> p.calling]
    BY <2>1 DEF Process
  <2> HIDE DEF rest, back
  <2>6. back # 0 => Len(rest) > 0 /\ rest[1] = End_Of_Code
    <3> DEFINE n == Len(p.stack)
               m == Len(rest)
    <3>1. n \in Nat /\ n > 0 /\ m = n - 1 /\ (n = 1 => back = 0)
          /\ (n > 1 => rest[1] = End_Of_Code)
      BY <2>2, <2>3, <2>4
    <3> HIDE DEF n, m
    <3>2. back # 0 => n > 1 /\ m > 0
      BY ONLY <3>1
    <3> QED
      BY <3>1, <3>2 DEF m
  <2>7. Executed(p) \in Process
    BY <1>2, <2>2, <2>3, <2>5 DEF Process
  <2> QED
    BY <1>8, <2>5, <2>6, <2>7
<1>9. CASE i.op = "OTHER"
  <2>1. Executed(p) = [p EXCEPT !.eip = next]
    BY <1>9 DEF Executed
  <2> QED
    BY <1>1, <1>9, <2>1 DEF Process
<1> QED
  BY <1>1, <1>4, <1>5, <1>6, <1>7, <1>8, <1>9 DEF Kind

\* A line of the trace.
LEMMA DecodedEntry ==
  ASSUME code \in [Addr -> Instruction], NEW a \in Addr
  PROVE  Decode(a) \in Entry /\ Decode(a).Address = a
<1>1. code[a].op \in Kind /\ code[a].target \in Addr \cup {0}
  BY DEF Instruction
<1> QED
  BY <1>1 DEF Decode, Entry, Simplified, Kind

-----------------------------------------------------------------------------
(* The stacks of processes and activations.                                *)

\* The types the invariant gives to the stacks and the trace.
LEMMA Shape ==
  ASSUME IInv
  PROVE  /\ code \in [Addr -> Instruction] /\ WellFormed(code)
         /\ processes \in Seq(Process) /\ activations \in Seq(Activation)
         /\ Depth \in Nat /\ Innermost = Depth + 1 /\ Innermost \in Nat
         /\ Len(processes) = Depth + 1 /\ Len(activations) = Depth
         /\ \A k \in 1..(Depth + 1) : processes[k] \in Process
         /\ \A k \in 1..Depth : activations[k] \in Activation
         /\ Depth > 0 => Inner \in Activation
         /\ trace \in Seq(Entry) /\ Len(trace) \in Nat /\ Len(trace) <= TraceCapacity
<1>1. /\ processes \in Seq(Process) /\ activations \in Seq(Activation)
      /\ Innermost = Depth + 1 /\ trace \in Seq(Entry)
  BY DEF IInv, TypeOK
<1>2. /\ Depth \in Nat /\ Depth = Len(activations)
      /\ Len(processes) = Depth + 1
  BY <1>1 DEF Depth, Innermost
<1>3. \A k \in 1..Depth : activations[k] \in Activation
  BY <1>1, <1>2
<1> QED
  BY <1>1, <1>2, <1>3 DEF IInv, TypeOK, Inner

\* Something replaced in the innermost process or activation, or pushed onto
\* both stacks.
LEMMA InnermostReplaced ==
  ASSUME IInv, NEW q \in Process, processes' = [processes EXCEPT ![Innermost] = q]
  PROVE  /\ processes' \in Seq(Process) /\ Len(processes') = Depth + 1
         /\ processes'[Depth + 1] = q
         /\ \A k \in 1..Depth : processes'[k] = processes[k]
<1>1. Innermost \in 1..Len(processes) /\ processes \in Seq(Process)
      /\ Len(processes) = Depth + 1 /\ Innermost = Depth + 1 /\ Depth \in Nat
  BY Shape
<1> QED
  BY <1>1, ExceptSeq

\* Replacing the innermost activation leaves the others as they were.
LEMMA InnerReplaced ==
  ASSUME IInv, Depth > 0, NEW a \in Activation, activations' = [activations EXCEPT ![Depth] = a]
  PROVE  /\ activations' \in Seq(Activation) /\ Len(activations') = Depth
         /\ activations'[Depth] = a
         /\ \A k \in 1..Depth : k # Depth => activations'[k] = activations[k]
<1>1. Depth \in 1..Len(activations) /\ activations \in Seq(Activation) /\ Len(activations) = Depth
  BY Shape
<1> QED
  BY <1>1, ExceptSeq

\* What main has to do, one after the other.
LEMMA ToDo ==
  /\ Head(<<"decide", "decide", "run">>) = "decide"
  /\ Tail(<<"decide", "decide", "run">>) = <<"decide", "run">>
  /\ Head(<<"decide", "run">>) = "decide" /\ Tail(<<"decide", "run">>) = <<"run">>
  /\ Head(<<"run">>) = "run" /\ Head(<<"return">>) = "return"
  /\ Len(<<"decide", "decide", "run">>) = 3 /\ Len(<<"decide", "run">>) = 2
  /\ Len(<<"run">>) = 1 /\ Len(<<"return">>) = 1 /\ Len(<< >>) = 0
OBVIOUS

\* What main does next tells how far it has come.
LEMMA ToDoDiffer ==
  /\ Phase /\ todo # << >> => Head(todo) \in {"decide", "run", "return"}
  /\ Phase /\ todo # << >> /\ Head(todo) = "decide" => Deciding
  /\ Phase /\ todo # << >> /\ Head(todo) = "run" => todo = <<"run">>
  /\ Phase /\ todo # << >> /\ Head(todo) = "return" => todo = <<"return">>
  /\ Deciding => todo \notin {<<"run">>, <<"return">>, << >>}
BY ToDo DEF Phase, Deciding

\* The addresses of a trace.
Recorded(t) == [k \in 1..Len(t) |-> t[k].Address]

\* An entry of the trace is about an address of the code.
LEMMA EntryAddress == \A e \in Entry : e.Address \in Addr
BY DEF Entry

\* What has been recorded are addresses of the code.
LEMMA RecordedAddresses ==
  ASSUME NEW t \in Seq(Entry)
  PROVE  /\ Recorded(t) \in Seq(Addr) /\ Len(Recorded(t)) = Len(t)
         /\ t = << >> => Recorded(t) = << >>
         /\ \A e \in Entry : Recorded(Append(t, e)) = Append(Recorded(t), e.Address)
<1>1. Len(t) \in Nat /\ \A k \in 1..Len(t) : t[k].Address \in Addr
  BY EntryAddress
<1>2. Recorded(t) \in Seq(Addr) /\ Len(Recorded(t)) = Len(t)
  BY <1>1 DEF Recorded
<1>3. t = << >> => Recorded(t) = << >>
  BY <1>2, EmptySeq
<1>4. ASSUME NEW e \in Entry
      PROVE  Recorded(Append(t, e)) = Append(Recorded(t), e.Address)
  <2> DEFINE u == Append(t, e)
             r == Append(Recorded(t), e.Address)
  <2>1. /\ u \in Seq(Entry) /\ Len(u) = Len(t) + 1
        /\ \A k \in 1..Len(t) : u[k] = t[k]
        /\ u[Len(t) + 1] = e
    BY AppendProperties
  <2>2. e.Address \in Addr
    BY DEF Entry
  <2>3. /\ r \in Seq(Addr) /\ Len(r) = Len(t) + 1
        /\ \A k \in 1..Len(t) : r[k] = Recorded(t)[k]
        /\ r[Len(t) + 1] = e.Address
    BY <1>2, <2>2, AppendProperties
  <2> HIDE DEF u, r
  <2>4. Recorded(u) \in Seq(Addr) /\ Len(Recorded(u)) = Len(t) + 1
    <3>1. Len(u) \in Nat /\ \A k \in 1..Len(u) : u[k].Address \in Addr
      BY <2>1, EntryAddress
    <3> QED
      BY <2>1, <3>1 DEF Recorded
  <2>5. \A k \in 1..(Len(t) + 1) : Recorded(u)[k] = r[k]
    <3> SUFFICES ASSUME NEW k \in 1..(Len(t) + 1)
                 PROVE  Recorded(u)[k] = r[k]
      OBVIOUS
    <3>1. Recorded(u)[k] = u[k].Address
      BY <2>1 DEF Recorded
    <3>2. CASE k \in 1..Len(t)
      <4>1. Recorded(t)[k] = t[k].Address
        BY <3>2 DEF Recorded
      <4> QED
        BY <2>1, <2>3, <3>1, <3>2, <4>1
    <3>3. CASE k = Len(t) + 1
      BY <2>1, <2>3, <3>1, <3>3
    <3> QED
      BY <1>1, <3>2, <3>3
  <2> QED
    BY <2>3, <2>4, <2>5, SeqEqual DEF u, r
<1> QED
  BY <1>2, <1>3, <1>4

\* TraceCoversAllLevels in these words, of this state and of the next.
LEMMA TraceCovers ==
  /\ TraceCoversAllLevels <=>
       (Depth > 0 /\ traceSet =>
          history = IF Inner.pc = "executed" THEN Append(Recorded(trace), Inner.EIP)
                    ELSE Recorded(trace))
  /\ TraceCoversAllLevels' <=>
       (Depth' > 0 /\ traceSet' =>
          history' = IF Inner'.pc = "executed" THEN Append(Recorded(trace'), Inner'.EIP)
                     ELSE Recorded(trace'))
BY DEF TraceCoversAllLevels, Recorded

\* While a process calls HHH, some activation of HHH or main has it decided by a
\* first activation or one that finds the trace.
LEMMA CallerFindsTrace ==
  ASSUME IInv, processes[Innermost].calling # 0, Depth > 0, Inner.pc = "simulate"
  PROVE  traceSet
BY DEF IInv, Cells

-----------------------------------------------------------------------------
(* The steps of HHH.                                                       *)

\* A call of HHH keeps the invariant.
LEMMA InitStep ==
  ASSUME IInv, Init_Halts_HH
  PROVE  IInv'
<1> DEFINE input == processes[Innermost].calling
           a == [input |-> input, Root |-> ~traceSet, length |-> 0, pc |-> "simulate",
                 EIP |-> input]
           q == [eip |-> input, stack |-> <<End_Of_Code>>, eax |-> 0, calling |-> 0]
<1>1. /\ activations' = Append(activations, a) /\ processes' = Append(processes, q)
      /\ traceSet' = TRUE
      /\ trace' = IF traceSet THEN trace ELSE << >>
      /\ history' = IF Depth = 0 THEN << >> ELSE history
      /\ UNCHANGED <<code, todo, verdicts, status>>
      /\ input # 0 /\ (Depth > 0 => Inner.pc = "simulate")
  BY DEF Init_Halts_HH
<1>2. /\ processes \in Seq(Process) /\ activations \in Seq(Activation)
      /\ Depth \in Nat /\ Innermost = Depth + 1
      /\ Len(processes) = Depth + 1 /\ Len(activations) = Depth
      /\ processes[Depth + 1] \in Process /\ trace \in Seq(Entry)
      /\ Len(trace) \in Nat /\ Len(trace) <= TraceCapacity
  BY Shape
<1>3. input \in Functions /\ input \in Addr /\ TraceCapacity \in Nat
  BY <1>1, <1>2, Constants DEF Process
<1>4. a \in Activation /\ a.input = input /\ a.pc = "simulate" /\ (a.Root <=> ~traceSet)
  <2>1. 0 \in 0..TraceCapacity /\ (~traceSet) \in BOOLEAN
    BY <1>3
  <2> HIDE DEF input
  <2> QED
    BY <1>3, <2>1 DEF Activation
<1>5. /\ q \in Process /\ q.calling = 0
      /\ Len(q.stack) > 0 /\ q.stack[1] = End_Of_Code
  BY <1>3, Constants DEF Process, End_Of_Code
<1> HIDE DEF a, q
<1>6. /\ activations' \in Seq(Activation) /\ Len(activations') = Depth + 1
      /\ \A k \in 1..Depth : activations'[k] = activations[k]
      /\ activations'[Depth + 1] = a
  BY <1>1, <1>2, <1>4, AppendProperties
<1>7. /\ processes' \in Seq(Process) /\ Len(processes') = Depth + 2
      /\ \A k \in 1..(Depth + 1) : processes'[k] = processes[k]
      /\ processes'[Depth + 2] = q
  BY <1>1, <1>2, <1>5, AppendProperties, SMTT(30)
<1>8. Depth' = Depth + 1 /\ Innermost' = Depth + 2 /\ Inner' = a
  BY <1>6, <1>7 DEF Depth, Innermost, Inner
<1>9. Depth > 0 => traceSet
  BY <1>1, CallerFindsTrace
<1>10. Depth = 0 => ~traceSet
  BY DEF IInv, Cells
<1>11. TypeOK'
  <2>1. << >> \in Seq(Addr) /\ << >> \in Seq(Entry)
    OBVIOUS
  <2> QED
    BY <1>1, <1>2, <1>6, <1>7, <1>8, <2>1 DEF IInv, TypeOK
<1>12. Phase'
  BY <1>1 DEF IInv, Phase
<1>13. MainProcess'
  <2>1. processes'[1] = processes[1]
    BY <1>2, <1>7
  <2>2. todo \notin {<<"run">>, << >>}
    BY <1>1, <1>2 DEF IInv, MainProcess
  <2> QED
    BY <1>1, <2>1, <2>2 DEF IInv, MainProcess, Deciding
<1>14. Levels'
  <2> SUFFICES ASSUME NEW k \in 1..(Depth + 1)
               PROVE  /\ processes'[k].calling = activations'[k].input
                      /\ k < Depth + 1 => activations'[k].pc = "simulate"
    BY <1>8 DEF Levels
  <2>1. CASE k = Depth + 1
    BY <1>2, <1>4, <1>6, <1>7, <2>1
  <2>2. CASE k \in 1..Depth
    <3>1. processes[k].calling = activations[k].input /\ activations[k].pc = "simulate"
      BY <1>1, <1>2, <2>2 DEF IInv, Levels, Inner
    <3> QED
      BY <1>2, <1>6, <1>7, <2>2, <3>1
  <2> QED
    BY <1>2, <2>1, <2>2
<1>15. Stacks'
  BY <1>2, <1>5, <1>7, <1>8, SMTT(30) DEF IInv, Stacks
<1>16. Cells'
  BY <1>1, <1>2, <1>8 DEF Cells
<1>17. Len(trace') <= TraceCapacity
  BY <1>1, <1>2, <1>3
<1>18. OnlyOutermostIsRoot'
  <2> SUFFICES ASSUME NEW k \in 1..(Depth + 1)
               PROVE  activations'[k].Root <=> k = 1
    BY <1>8 DEF OnlyOutermostIsRoot
  <2>1. CASE k = Depth + 1
    BY <1>2, <1>4, <1>6, <1>9, <1>10, <2>1
  <2>2. CASE k \in 1..Depth
    BY <1>6, <2>2 DEF IInv, OnlyOutermostIsRoot
  <2> QED
    BY <1>2, <2>1, <2>2
<1>19. TraceCoversAllLevels'
  <2>1. CASE Depth = 0
    <3>1. trace' = << >> /\ history' = << >>
      BY <1>1, <1>10, <2>1
    <3>2. << >> \in Seq(Entry)
      OBVIOUS
    <3>3. Recorded(trace') = << >>
      BY <3>1, <3>2, RecordedAddresses
    <3> QED
      BY <1>4, <1>8, <3>1, <3>3, TraceCovers
  <2>2. CASE Depth > 0
    <3>1. history = Recorded(trace) /\ trace' = trace /\ history' = history
      BY <1>1, <1>9, <2>2, TraceCovers DEF IInv
    <3> QED
      BY <1>4, <1>8, <3>1, TraceCovers
  <2> QED
    BY <1>2, <2>1, <2>2
<1> QED
  BY <1>11, <1>12, <1>13, <1>14, <1>15, <1>16, <1>17, <1>18, <1>19 DEF IInv

\* What an activation is after its DebugStep, and after the Root has looked.
LEMMA ExecutedActivation ==
  ASSUME IInv, Depth > 0, NEW e,
         activations' = [activations EXCEPT ![Depth].EIP = e, ![Depth].pc = "executed"]
  PROVE  activations' = [activations EXCEPT ![Depth] =
            [input |-> Inner.input, Root |-> Inner.Root, length |-> Inner.length,
             pc |-> "executed", EIP |-> e]]
<1> DEFINE a == [input |-> Inner.input, Root |-> Inner.Root, length |-> Inner.length,
                 pc |-> "executed", EIP |-> e]
           b == [activations EXCEPT ![Depth].EIP = e]
<1>1. activations' = [b EXCEPT ![Depth].pc = "executed"]
  OBVIOUS
<1>2. Depth \in DOMAIN activations /\ Inner \in Activation
  BY Shape
<1>3. b = [activations EXCEPT ![Depth] = [Inner EXCEPT !.EIP = e]]
  BY DEF Inner
<1> HIDE DEF b
<1>4. b[Depth] = [Inner EXCEPT !.EIP = e]
  BY <1>2, <1>3
<1>5. b[Depth] = [input |-> Inner.input, Root |-> Inner.Root, length |-> Inner.length,
                  pc |-> Inner.pc, EIP |-> e]
  BY <1>2, <1>4 DEF Activation
<1>6. [b[Depth] EXCEPT !.pc = "executed"] = a
  BY ONLY <1>5 DEF a
<1>7. activations' = [b EXCEPT ![Depth] = a]
  BY <1>1, <1>6
<1> QED
  BY <1>3, <1>7

\* The activation that has examined the trace.
LEMMA ExaminedActivation ==
  ASSUME IInv, NEW k \in 1..Depth,
         activations' = [activations EXCEPT ![k].length = Len(trace), ![k].pc = "simulate"]
  PROVE  activations' = [activations EXCEPT ![k] =
            [input |-> activations[k].input, Root |-> activations[k].Root,
             length |-> Len(trace), pc |-> "simulate", EIP |-> activations[k].EIP]]
<1> DEFINE a == [input |-> activations[k].input, Root |-> activations[k].Root,
                 length |-> Len(trace), pc |-> "simulate", EIP |-> activations[k].EIP]
           b == [activations EXCEPT ![k].length = Len(trace)]
<1>1. activations' = [b EXCEPT ![k].pc = "simulate"]
  OBVIOUS
<1>2. /\ b = [activations EXCEPT ![k] = [activations[k] EXCEPT !.length = Len(trace)]]
      /\ k \in DOMAIN activations /\ activations[k] \in Activation
  BY Shape
<1> HIDE DEF b
<1>3. b[k] = [input |-> activations[k].input, Root |-> activations[k].Root,
              length |-> Len(trace), pc |-> activations[k].pc, EIP |-> activations[k].EIP]
  BY <1>2 DEF Activation
<1>4. [b[k] EXCEPT !.pc = "simulate"] = a
  BY ONLY <1>3 DEF a
<1>5. activations' = [b EXCEPT ![k] = a]
  BY <1>1, <1>4
<1> QED
  BY <1>2, <1>5

\* DebugStep keeps the invariant.
LEMMA StepStep ==
  ASSUME IInv, DebugStep
  PROVE  IInv'
<1> DEFINE p == processes[Innermost]
           q == Executed(p)
           a == [input |-> Inner.input, Root |-> Inner.Root, length |-> Inner.length,
                 pc |-> "executed", EIP |-> p.eip]
<1>1. /\ processes' = [processes EXCEPT ![Innermost] = q]
      /\ activations' = [activations EXCEPT ![Depth].EIP = p.eip, ![Depth].pc = "executed"]
      /\ history' = IF Len(history) <= TraceCapacity THEN Append(history, p.eip) ELSE history
      /\ UNCHANGED <<code, traceSet, trace, todo, verdicts, status>>
      /\ Depth > 0 /\ Inner.pc = "simulate" /\ p.eip \in Addr /\ p.calling = 0
  BY DEF DebugStep, AtInput
<1>2. /\ code \in [Addr -> Instruction] /\ WellFormed(code)
      /\ activations \in Seq(Activation) /\ processes \in Seq(Process)
      /\ Depth \in Nat /\ Innermost = Depth + 1
      /\ p \in Process /\ Inner \in Activation
      /\ trace \in Seq(Entry) /\ Len(trace) \in Nat /\ Len(trace) <= TraceCapacity
      /\ Len(activations) = Depth
  BY <1>1, Shape
<1>3. p.eip # 0 /\ Len(p.stack) > 0 /\ p.stack[1] = End_Of_Code
  <2>1. p.eip # 0 /\ Innermost \in 1..Innermost
    BY <1>1, <1>2, Constants, SMTT(30)
  <2> QED
    BY <2>1 DEF IInv, Stacks
<1>4. /\ q \in Process
      /\ q.eip # 0 => Len(q.stack) > 0 /\ q.stack[1] = End_Of_Code
  BY <1>1, <1>2, <1>3, ExecutedProcess
<1>5. a \in Activation
  BY <1>1, <1>2 DEF Activation
<1>6. activations' = [activations EXCEPT ![Depth] = a]
  BY <1>1, ExecutedActivation
<1>7. a.input = Inner.input /\ a.Root = Inner.Root /\ a.pc = "executed" /\ a.EIP = p.eip
  OBVIOUS
<1> HIDE DEF p, q, a
<1>8. /\ processes' \in Seq(Process) /\ Len(processes') = Depth + 1
      /\ processes'[Depth + 1] = q
      /\ \A k \in 1..Depth : processes'[k] = processes[k]
  BY <1>1, <1>4, InnermostReplaced
<1>9. /\ activations' \in Seq(Activation) /\ Len(activations') = Depth
      /\ activations'[Depth] = a
      /\ \A k \in 1..Depth : k # Depth => activations'[k] = activations[k]
  BY <1>1, <1>5, <1>6, InnerReplaced
<1>10. Depth' = Depth /\ Innermost' = Depth + 1 /\ Inner' = a
  BY <1>8, <1>9 DEF Depth, Innermost, Inner
<1>11. TypeOK'
  <2>1. history \in Seq(Addr)
    BY DEF IInv, TypeOK
  <2>2. history' \in Seq(Addr)
    BY <1>1, <2>1, AppendProperties
  <2> QED
    BY <1>1, <1>8, <1>9, <1>10, <2>2 DEF IInv, TypeOK
<1>12. Phase' /\ Len(trace') <= TraceCapacity
  BY <1>1, <1>2 DEF IInv, Phase
<1>13. MainProcess'
  <2>1. processes'[1] = processes[1]
    BY <1>1, <1>2, <1>8
  <2> QED
    BY <1>1, <1>10, <2>1 DEF IInv, MainProcess, Deciding
<1>14. Levels'
  <2> SUFFICES ASSUME NEW k \in 1..Depth
               PROVE  /\ processes'[k].calling = activations'[k].input
                      /\ k < Depth => activations'[k].pc = "simulate"
    BY <1>10 DEF Levels
  <2>1. /\ processes[k].calling = activations[k].input
        /\ k < Depth => activations[k].pc = "simulate"
    BY DEF IInv, Levels
  <2> QED
    BY <1>2, <1>7, <1>8, <1>9, <2>1 DEF Inner
<1>15. Stacks'
  BY <1>2, <1>4, <1>8, <1>10, SMTT(30) DEF IInv, Stacks
<1>16. Cells'
  BY <1>1, <1>7, <1>10 DEF Cells
<1>17. OnlyOutermostIsRoot'
  BY <1>7, <1>9, <1>10 DEF IInv, OnlyOutermostIsRoot, Inner
<1>18. TraceCoversAllLevels'
  <2> SUFFICES ASSUME traceSet
               PROVE  history' = Append(Recorded(trace), p.eip)
    BY <1>1, <1>7, <1>10, TraceCovers
  <2>1. history = Recorded(trace)
    BY <1>1, TraceCovers DEF IInv
  <2>2. Len(history) <= TraceCapacity
    BY <1>2, <2>1, RecordedAddresses
  <2> QED
    BY <1>1, <2>1, <2>2
<1> QED
  BY <1>11, <1>12, <1>13, <1>14, <1>15, <1>16, <1>17, <1>18 DEF IInv

\* Only what the loop of an activation is to do next, or the length of trace it
\* has seen, is changed.
LEMMA LoopMoves ==
  ASSUME IInv, NEW k \in 1..Depth, NEW a \in Activation,
         a.input = activations[k].input, a.Root = activations[k].Root,
         k < Depth => a.pc = "simulate",
         activations' = [activations EXCEPT ![k] = a],
         UNCHANGED <<code, processes, traceSet, todo, verdicts, history>>,
         status' \in {"running", "exited"}, trace' \in Seq(Entry), Len(trace') <= TraceCapacity,
         traceSet,
         history = IF Inner'.pc = "executed" THEN Append(Recorded(trace'), Inner'.EIP)
                   ELSE Recorded(trace')
  PROVE  IInv'
<1>1. activations \in Seq(Activation) /\ Len(activations) = Depth /\ Depth \in Nat
  BY Shape
<1>2. /\ activations' \in Seq(Activation) /\ Len(activations') = Depth
      /\ activations'[k] = a
      /\ \A j \in 1..Depth : j # k => activations'[j] = activations[j]
  BY <1>1, ExceptSeq
<1>3. Depth' = Depth /\ Innermost' = Innermost
  BY <1>2 DEF Depth, Innermost
<1>4. TypeOK'
  BY <1>2, <1>3 DEF IInv, TypeOK
<1>5. Phase' /\ MainProcess'
  BY <1>3 DEF IInv, Phase, MainProcess, Deciding
<1>6. Levels'
  BY <1>2, <1>3 DEF IInv, Levels
<1>7. Stacks'
  BY <1>3 DEF IInv, Stacks
<1>8. Cells'
  BY <1>1, <1>3 DEF Cells
<1>9. OnlyOutermostIsRoot'
  BY <1>2, <1>3 DEF IInv, OnlyOutermostIsRoot
<1>10. TraceCoversAllLevels'
  BY TraceCovers
<1> QED
  BY <1>4, <1>5, <1>6, <1>7, <1>8, <1>9, <1>10 DEF IInv

\* A step that changes nothing but how the program goes on.
LEMMA NothingMoves ==
  ASSUME IInv, UNCHANGED <<code, processes, activations, traceSet, trace, todo, verdicts, history>>,
         status' \in {"running", "exited"}
  PROVE  IInv'
<1>1. Depth' = Depth /\ Innermost' = Innermost /\ Inner' = Inner
  BY DEF Depth, Innermost, Inner
<1>2. TypeOK' /\ Phase' /\ MainProcess'
  BY <1>1 DEF IInv, TypeOK, Phase, MainProcess, Deciding
<1>3. Levels' /\ Stacks' /\ Cells' /\ OnlyOutermostIsRoot' /\ Len(trace') <= TraceCapacity
  BY <1>1 DEF IInv, Levels, Stacks, Cells, OnlyOutermostIsRoot
<1>4. TraceCoversAllLevels'
  BY <1>1, TraceCovers DEF IInv
<1> QED
  BY <1>2, <1>3, <1>4 DEF IInv

\* Recording keeps the invariant.
LEMMA PushStep ==
  ASSUME IInv, PushBack
  PROVE  IInv'
<1>1. Depth > 0 /\ Inner.pc = "executed" /\ UNCHANGED <<code, processes, traceSet, todo, verdicts, history>>
  BY DEF PushBack
<1>2. /\ Depth \in Nat /\ Depth \in 1..Depth /\ Inner \in Activation
      /\ activations \in Seq(Activation) /\ Len(activations) = Depth
      /\ code \in [Addr -> Instruction]
      /\ trace \in Seq(Entry) /\ Len(trace) \in Nat
  BY <1>1, Shape
<1>3. CASE traceSet /\ Len(trace) < TraceCapacity
  <2> DEFINE e == Decode(Inner.EIP)
             a == [Inner EXCEPT !.pc = "recorded"]
  <2>1. /\ trace' = Append(trace, e) /\ status' = status
        /\ activations' = [activations EXCEPT ![Depth].pc = "recorded"]
    BY <1>3 DEF PushBack
  <2>2. e \in Entry /\ e.Address = Inner.EIP
    BY <1>2, DecodedEntry DEF Activation
  <2>3. a \in Activation /\ a.input = Inner.input /\ a.Root = Inner.Root /\ a.pc = "recorded"
    BY <1>2 DEF Activation
  <2>4. activations' = [activations EXCEPT ![Depth] = a]
    BY <2>1 DEF Inner
  <2> HIDE DEF e, a
  <2>5. trace' \in Seq(Entry) /\ Len(trace') = Len(trace) + 1
    BY <1>2, <2>1, <2>2, AppendProperties
  <2>6. Len(trace') <= TraceCapacity
    BY <1>2, <1>3, <2>5, Constants
  <2>7. history = Recorded(trace')
    BY <1>1, <1>2, <1>3, <2>1, <2>2, TraceCovers, RecordedAddresses DEF IInv
  <2>8. Inner'.pc = "recorded"
    <3>1. activations'[Depth] = a /\ Len(activations') = Depth
      BY <1>1, <2>3, <2>4, InnerReplaced
    <3> QED
      BY <2>3, <3>1 DEF Inner, Depth
  <2>9. status' \in {"running", "exited"}
    BY <2>1 DEF IInv, TypeOK
  <2>10. a.input = activations[Depth].input /\ a.Root = activations[Depth].Root
    BY <2>3 DEF Inner
  <2>11. history = IF Inner'.pc = "executed" THEN Append(Recorded(trace'), Inner'.EIP)
                   ELSE Recorded(trace')
    BY <2>7, <2>8
  <2>12. Depth \in 1..Depth /\ ~(Depth < Depth)
    BY <1>2
  <2>13. /\ traceSet /\ trace' \in Seq(Entry)
         /\ UNCHANGED <<code, processes, traceSet, todo, verdicts, history>>
    BY <1>1, <1>3, <2>5
  <2> QED
    BY <2>3, <2>4, <2>6, <2>9, <2>10, <2>11, <2>12, <2>13, LoopMoves
<1>4. CASE ~ (traceSet /\ Len(trace) < TraceCapacity)
  BY <1>1, <1>4, NothingMoves DEF PushBack
<1> QED
  BY <1>3, <1>4

\* Going on keeps the invariant.
LEMMA ContinueStep ==
  ASSUME IInv, Continue
  PROVE  IInv'
<1> DEFINE a == [Inner EXCEPT !.pc = "simulate"]
<1>1. /\ Depth > 0 /\ Inner.pc = "recorded"
      /\ activations' = [activations EXCEPT ![Depth].pc = "simulate"]
      /\ UNCHANGED <<code, processes, traceSet, trace, todo, verdicts, status, history>>
  BY DEF Continue
<1>2. /\ Depth \in Nat /\ Depth \in 1..Depth /\ Inner \in Activation
      /\ trace \in Seq(Entry) /\ Len(trace) <= TraceCapacity
      /\ activations \in Seq(Activation) /\ Len(activations) = Depth
  BY <1>1, Shape
<1>3. a \in Activation /\ a.input = Inner.input /\ a.Root = Inner.Root /\ a.pc = "simulate"
  BY <1>2 DEF Activation
<1>4. activations' = [activations EXCEPT ![Depth] = a]
  BY <1>1 DEF Inner
<1> HIDE DEF a
<1>5. traceSet
  BY <1>1 DEF IInv, Cells
<1>6. history = Recorded(trace')
  BY <1>1, <1>5, TraceCovers DEF IInv
<1>7. Inner'.pc = "simulate"
  <2>1. activations'[Depth] = a /\ Len(activations') = Depth
    BY <1>1, <1>3, <1>4, InnerReplaced
  <2> QED
    BY <1>3, <2>1 DEF Inner, Depth
<1>8. status' \in {"running", "exited"}
  BY <1>1 DEF IInv, TypeOK
<1> QED
  BY <1>1, <1>2, <1>3, <1>4, <1>5, <1>6, <1>7, <1>8, LoopMoves DEF Inner

\* An activation of HHH that has returned leaves its process and those below.
LEMMA Returned ==
  ASSUME IInv, NEW k \in 1..Depth, NEW v \in {0, 1}, Return(k, v)
  PROVE  /\ Depth' = k - 1 /\ Innermost' = k
         /\ activations' \in Seq(Activation) /\ processes' \in Seq(Process)
         /\ \A j \in 1..(k - 1) : activations'[j] = activations[j] /\ processes'[j] = processes[j]
         /\ processes'[k] \in Process
         /\ processes'[k].calling = 0 /\ processes'[k].eax = v
         /\ processes'[k].eip = processes[k].eip /\ processes'[k].stack = processes[k].stack
         /\ processes' = [SubSeq(processes, 1, k) EXCEPT ![k] =
                            [eip |-> processes[k].eip, stack |-> processes[k].stack,
                             eax |-> v, calling |-> 0]]
<1>1. /\ processes \in Seq(Process) /\ activations \in Seq(Activation)
      /\ Depth \in Nat /\ k \in Int /\ 1 <= k /\ k <= Depth
      /\ Len(processes) = Depth + 1 /\ Len(activations) = Depth
      /\ processes[k] \in Process
  BY Shape
<1> DEFINE s == SubSeq(processes, 1, k)
           q == [eip |-> processes[k].eip, stack |-> processes[k].stack,
                 eax |-> v, calling |-> 0]
<1>2. /\ s \in Seq(Process) /\ Len(s) = k
      /\ \A j \in 1..k : s[j] = processes[j]
  <2>1. \A j \in 1..k : processes[j] \in Process
    BY <1>1
  <2>2. /\ s \in Seq(Process)
        /\ Len(s) = IF 1 <= k THEN k - 1 + 1 ELSE 0
        /\ \A j \in 1..(k - 1 + 1) : s[j] = processes[1 + j - 1]
    BY <1>1, <2>1, SubSeqProperties
  <2> QED
    BY <1>1, <2>2
<1>3. /\ activations' \in Seq(Activation) /\ Len(activations') = k - 1
      /\ \A j \in 1..(k - 1) : activations'[j] = activations[j]
  <2>1. \A j \in 1..(k - 1) : activations[j] \in Activation
    BY <1>1
  <2>2. activations' = SubSeq(activations, 1, k - 1)
    BY DEF Return
  <2>3. k - 1 \in Int
    BY <1>1
  <2>4. /\ activations' \in Seq(Activation)
        /\ Len(activations') = IF 1 <= k - 1 THEN (k - 1) - 1 + 1 ELSE 0
        /\ \A j \in 1..((k - 1) - 1 + 1) : activations'[j] = activations[1 + j - 1]
    BY <2>1, <2>2, <2>3, SubSeqProperties
  <2> QED
    BY <1>1, <2>4
<1>4. q \in Process
  BY <1>1 DEF Process
<1>5. processes' = [s EXCEPT ![k] = q]
  <2> DEFINE b == [s EXCEPT ![k].eax = v]
  <2>1. processes' = [b EXCEPT ![k].calling = 0]
    BY DEF Return
  <2>2. b = [s EXCEPT ![k] = [s[k] EXCEPT !.eax = v]] /\ k \in DOMAIN s
    BY <1>1, <1>2
  <2> HIDE DEF b, s
  <2>3. b[k] = [eip |-> processes[k].eip, stack |-> processes[k].stack,
                eax |-> v, calling |-> processes[k].calling]
    <3>1. b[k] = [processes[k] EXCEPT !.eax = v]
      BY <1>1, <1>2, <2>2, SMTT(30)
    <3>2. processes[k] \in Process
      BY <1>1
    <3> QED
      BY ONLY <3>1, <3>2 DEF Process
  <2>4. [b[k] EXCEPT !.calling = 0] = q
    BY ONLY <2>3 DEF q
  <2>5. processes' = [b EXCEPT ![k] = q]
    BY <2>1, <2>4
  <2> QED
    BY <2>2, <2>5
<1>6. q.calling = 0 /\ q.eax = v /\ q.eip = processes[k].eip /\ q.stack = processes[k].stack
  OBVIOUS
<1>7. processes' = [SubSeq(processes, 1, k) EXCEPT ![k] = q]
  BY <1>5
<1> HIDE DEF s, q
<1>8. /\ processes' \in Seq(Process) /\ Len(processes') = k
      /\ processes'[k] = q
      /\ \A j \in 1..k : j # k => processes'[j] = processes[j]
  BY <1>1, <1>2, <1>4, <1>5, ExceptSeq
<1>9. Depth' = k - 1 /\ Innermost' = k
  BY <1>3, <1>8 DEF Depth, Innermost
<1> QED
  BY <1>1, <1>3, <1>4, <1>6, <1>7, <1>8, <1>9, SMTT(30) DEF q

\* When main's own activation returns, main has been deciding, or is in the
\* input it has called.
LEMMA WhoAsks ==
  ASSUME IInv, Depth > 0
  PROVE  /\ processes[1].calling \in Functions /\ processes[1].calling # 0
         /\ processes[1].eip = 0 => Deciding /\ processes[1] = [Idle EXCEPT !.calling = P]
         /\ processes[1].eip # 0 => todo = <<"return">>
<1>1. 1 \in 1..Depth /\ activations[1] \in Activation
  BY Shape
<1>2. processes[1].calling \in Functions
  BY <1>1 DEF IInv, Levels, Activation
<1>3. processes[1].calling # 0
  BY <1>2, Constants
<1>4. todo \notin {<<"run">>, << >>}
  BY Shape DEF IInv, MainProcess
<1> QED
  BY <1>2, <1>3, <1>4 DEF IInv, Phase, MainProcess, Deciding

\* The return of an activation keeps the invariant.
LEMMA ReturnStep ==
  ASSUME IInv, NEW k \in 1..Depth, NEW v \in {0, 1}, Return(k, v)
  PROVE  IInv'
<1>1. /\ Depth' = k - 1 /\ Innermost' = k
      /\ activations' \in Seq(Activation) /\ processes' \in Seq(Process)
      /\ \A j \in 1..(k - 1) : activations'[j] = activations[j] /\ processes'[j] = processes[j]
      /\ processes'[k] \in Process
      /\ processes'[k].calling = 0 /\ processes'[k].eax = v
      /\ processes'[k].eip = processes[k].eip /\ processes'[k].stack = processes[k].stack
  BY Returned
<1>2. /\ UNCHANGED <<code, trace, status, history>> /\ traceSet' = FALSE
      /\ Report(k, v)
  BY DEF Return
<1>3. Depth \in Nat /\ Depth > 0 /\ k \in Int /\ 1 <= k /\ k <= Depth
  BY Shape
<1>4. verdicts' \in Seq({0, 1}) /\ Phase' /\ MainProcess'
  <2>1. CASE k = 1 /\ processes[1].eip = 0
    <3>1. verdicts' = Append(verdicts, v) /\ todo' = Tail(todo)
      BY <1>2, <2>1 DEF Report
    <3>2. verdicts \in Seq({0, 1}) /\ Phase /\ Deciding
      BY <1>3, <2>1, WhoAsks DEF IInv, TypeOK
    <3>3. verdicts' \in Seq({0, 1}) /\ Len(verdicts') = Len(verdicts) + 1
      BY <3>1, <3>2, AppendProperties
    <3>4. \/ todo' = <<"decide", "run">> /\ Len(verdicts') = 1
          \/ todo' = <<"run">> /\ Len(verdicts') = 2
      <4>1. CASE todo = <<"decide", "decide", "run">>
        BY <3>1, <3>2, <3>3, <4>1, ToDo, ToDoDiffer DEF Phase
      <4>2. CASE todo = <<"decide", "run">>
        <5>1. Len(verdicts) = 1
          BY <3>2, <4>2, ToDo DEF Phase
        <5> QED
          BY <3>1, <3>3, <4>2, <5>1, ToDo
      <4> QED
        BY <3>2, <4>1, <4>2 DEF Deciding
    <3>5. Phase'
      BY <3>4 DEF Phase
    <3>6. MainProcess'
      BY <1>1, <2>1, <3>4, ToDo DEF MainProcess, Deciding
    <3> QED
      BY <3>3, <3>5, <3>6
  <2>2. CASE ~ (k = 1 /\ processes[1].eip = 0)
    <3>1. UNCHANGED <<verdicts, todo>>
      BY <1>2, <2>2 DEF Report
    <3>2. verdicts' \in Seq({0, 1}) /\ Phase'
      BY <3>1 DEF IInv, TypeOK, Phase
    <3>3. MainProcess'
      <4>1. CASE k = 1
        <5>1. todo = <<"return">>
          BY <1>3, <2>2, <4>1, WhoAsks
        <5> QED
          BY <1>1, <3>1, <4>1, <5>1, ToDo DEF MainProcess, Deciding
      <4>2. CASE k # 1
        <5>1. processes'[1] = processes[1] /\ todo \notin {<<"run">>, << >>}
          BY <1>1, <1>3, <4>2, SMTT(30) DEF IInv, MainProcess
        <5> QED
          BY <3>1, <5>1 DEF IInv, MainProcess, Deciding
      <4> QED
        BY <4>1, <4>2
    <3> QED
      BY <3>2, <3>3
  <2> QED
    BY <2>1, <2>2
<1>5. TypeOK'
  <2>1. /\ code \in [Addr -> Instruction] /\ WellFormed(code) /\ trace \in Seq(Entry)
        /\ status \in {"running", "exited"} /\ history \in Seq(Addr)
    BY DEF IInv, TypeOK
  <2>2. Innermost' = Depth' + 1
    BY <1>1, <1>3
  <2>3. UNCHANGED WellFormed(code)
    BY <1>2 DEF WellFormed
  <2> QED
    BY <1>1, <1>2, <1>4, <2>1, <2>2, <2>3 DEF TypeOK
<1>6. Levels'
  <2> SUFFICES ASSUME NEW j \in 1..(k - 1)
               PROVE  /\ processes'[j].calling = activations'[j].input
                      /\ j < k - 1 => activations'[j].pc = "simulate"
    BY <1>1 DEF Levels
  <2>1. j \in 1..Depth /\ j < Depth
    BY <1>3
  <2> QED
    BY <1>1, <2>1, SMTT(30) DEF IInv, Levels
<1>7. Stacks'
  <2> SUFFICES ASSUME NEW j \in 1..k, processes'[j].eip # 0
               PROVE  Len(processes'[j].stack) > 0 /\ processes'[j].stack[1] = End_Of_Code
    BY <1>1 DEF Stacks
  <2>1. j \in 1..Innermost
    BY <1>3, Shape
  <2>2. processes'[j].eip = processes[j].eip /\ processes'[j].stack = processes[j].stack
    BY <1>1, <1>3
  <2> QED
    BY <2>1, <2>2 DEF IInv, Stacks
<1>8. Cells'
  <2>1. ASSUME k - 1 > 0
        PROVE  activations'[k - 1].pc = "simulate"
    <3>1. k - 1 \in 1..Depth /\ k - 1 < Depth /\ k - 1 \in 1..(k - 1)
      BY <1>3, <2>1
    <3> QED
      BY <1>1, <3>1, SMTT(30) DEF IInv, Levels
  <2>2. k - 1 > 0 => Inner'.pc = "simulate"
    BY <1>1, <2>1 DEF Inner
  <2>3. processes'[Innermost'].calling = 0
    BY <1>1
  <2> QED
    BY <1>1, <1>2, <2>2, <2>3 DEF Cells
<1>9. OnlyOutermostIsRoot'
  <2>1. \A j \in 1..(k - 1) : j \in 1..Depth
    BY <1>3
  <2> QED
    BY <1>1, <2>1 DEF IInv, OnlyOutermostIsRoot
<1>10. TraceCoversAllLevels' /\ Len(trace') <= TraceCapacity
  BY <1>2, TraceCovers DEF IInv
<1> QED
  BY <1>4, <1>5, <1>6, <1>7, <1>8, <1>9, <1>10 DEF IInv

\* An input that has halted keeps the invariant.
LEMMA HaltedStep ==
  ASSUME IInv, InputHalted
  PROVE  IInv'
<1>1. Depth \in 1..Depth /\ Return(Depth, 1)
  BY Shape DEF InputHalted
<1> QED
  BY <1>1, ReturnStep

\* The activation that looks at the trace is the outermost one.
LEMMA RootIsFirst ==
  ASSUME IInv, NEW k \in 1..Depth, activations[k].Root
  PROVE  k = 1
BY DEF IInv, OnlyOutermostIsRoot

\* The examination by the Root keeps the invariant.
LEMMA ExamineStep ==
  ASSUME IInv, RootExamines
  PROVE  IInv'
<1>1. PICK k \in 1..Depth :
        /\ activations[k].Root
        /\ IF Needs_To_Be_Aborted_HH
           THEN Return(k, 0)
           ELSE /\ activations' = [activations EXCEPT ![k].length = Len(trace),
                                                      ![k].pc = "simulate"]
                /\ UNCHANGED <<code, processes, traceSet, trace, todo, verdicts, status, history>>
  BY DEF RootExamines
<1>2. CASE Needs_To_Be_Aborted_HH
  BY <1>1, <1>2, ReturnStep
<1>3. CASE ~Needs_To_Be_Aborted_HH
  <2> DEFINE a == [input |-> activations[k].input, Root |-> activations[k].Root,
                   length |-> Len(trace), pc |-> "simulate", EIP |-> activations[k].EIP]
  <2>1. /\ Depth \in Nat /\ Depth \in 1..Depth
        /\ activations[k] \in Activation /\ Inner \in Activation
        /\ activations \in Seq(Activation) /\ Len(activations) = Depth
        /\ trace \in Seq(Entry) /\ Len(trace) \in Nat /\ Len(trace) <= TraceCapacity
    BY Shape
  <2>2. a \in Activation /\ a.input = activations[k].input /\ a.Root = activations[k].Root
    <3>1. Len(trace) \in 0..TraceCapacity
      BY <2>1, Constants
    <3> QED
      BY <2>1, <3>1 DEF Activation
  <2>3. a.pc = "simulate"
    OBVIOUS
  <2>4. activations' = [activations EXCEPT ![k] = a]
    BY <1>1, <1>3, ExaminedActivation
  <2> HIDE DEF a
  <2>5. /\ UNCHANGED <<code, processes, traceSet, todo, verdicts, history>>
        /\ trace' = trace /\ traceSet
        /\ status' \in {"running", "exited"}
    BY <1>1, <1>3 DEF RootExamines, RootMustLook, IInv, TypeOK
  <2>6. /\ Depth' = Depth /\ Inner' = activations'[Depth]
        /\ activations'[k] = a
        /\ \A j \in 1..Depth : j # k => activations'[j] = activations[j]
    <3>1. /\ Len(activations') = Depth
          /\ activations'[k] = a
          /\ \A j \in 1..Depth : j # k => activations'[j] = activations[j]
      BY <2>1, <2>2, <2>4, ExceptSeq
    <3> QED
      BY <3>1 DEF Inner, Depth
  <2>7. ASSUME k = Depth
        PROVE  history = IF Inner'.pc = "executed" THEN Append(Recorded(trace'), Inner'.EIP)
                  ELSE Recorded(trace')
    <3>1. Inner.pc = "recorded"
      <4>1. k = 1
        BY <1>1, RootIsFirst
      <4>2. \A j \in 1..Depth : j = Depth
        BY <2>1, <2>7, <4>1
      <4> QED
        BY <4>2 DEF RootExamines, RootMustLook
    <3>2. history = Recorded(trace')
      BY <2>1, <2>5, <3>1, TraceCovers DEF IInv
    <3>3. Inner'.pc = "simulate"
      BY <2>3, <2>6, <2>7
    <3> QED
      BY <3>2, <3>3
  <2>8. ASSUME k # Depth
        PROVE  history = IF Inner'.pc = "executed" THEN Append(Recorded(trace'), Inner'.EIP)
                  ELSE Recorded(trace')
    <3>1. Inner' = Inner
      BY <2>1, <2>6, <2>8 DEF Inner
    <3> QED
      BY <2>1, <2>5, <3>1, TraceCovers DEF IInv
  <2>9. history = IF Inner'.pc = "executed" THEN Append(Recorded(trace'), Inner'.EIP)
                  ELSE Recorded(trace')
    BY <2>7, <2>8
  <2> QED
    BY <2>1, <2>2, <2>3, <2>4, <2>5, <2>9, LoopMoves
<1> QED
  BY <1>2, <1>3

-----------------------------------------------------------------------------
(* The steps of main.                                                      *)

\* While nobody decides, main changes its own process and what it still does.
LEMMA MainMoves ==
  ASSUME IInv, Depth = 0, NEW q \in Process, processes' = <<q>>,
         q.eip # 0 => Len(q.stack) > 0 /\ q.stack[1] = End_Of_Code,
         UNCHANGED <<code, activations, traceSet, trace, verdicts, status, history>>,
         Phase', MainProcess'
  PROVE  IInv'
<1>1. Depth' = 0 /\ Innermost' = 1 /\ processes' \in Seq(Process) /\ processes'[1] = q
  BY DEF Depth, Innermost
<1>2. TypeOK'
  BY <1>1 DEF IInv, TypeOK
<1>3. Levels' /\ OnlyOutermostIsRoot' /\ Stacks'
  BY <1>1 DEF Levels, OnlyOutermostIsRoot, Stacks
<1>4. Cells' /\ Len(trace') <= TraceCapacity
  BY <1>1 DEF IInv, Cells
<1>5. TraceCoversAllLevels'
  BY <1>1, TraceCovers
<1> QED
  BY <1>2, <1>3, <1>4, <1>5 DEF IInv

\* A process that has nothing to do.
LEMMA IdleFacts ==
  /\ Idle \in Process /\ Idle.calling = 0 /\ Idle.eip = 0
  /\ [Idle EXCEPT !.calling = P] \in Process
  /\ [Idle EXCEPT !.calling = P].calling = P /\ [Idle EXCEPT !.calling = P].eip = 0
  /\ [Idle EXCEPT !.calling = P] = [eip |-> 0, stack |-> << >>, eax |-> 0, calling |-> P]
<1> DEFINE c == [eip |-> 0, stack |-> << >>, eax |-> 0, calling |-> P]
<1>1. << >> \in Seq(Addr \cup {0})
  OBVIOUS
<1>2. Idle \in Process /\ Idle.calling = 0 /\ Idle.eip = 0
  BY <1>1 DEF Idle, Process
<1>3. [Idle EXCEPT !.calling = P] = c
  BY DEF Idle
<1>4. c \in Process /\ c.calling = P /\ c.eip = 0
  BY <1>1, Constants DEF Process
<1> QED
  BY <1>2, <1>3, <1>4

\* main asking HHH keeps the invariant.
LEMMA AskStep ==
  ASSUME IInv, AskHHH
  PROVE  IInv'
<1> DEFINE q == [Idle EXCEPT !.calling = P]
<1>1. /\ Depth = 0 /\ processes' = <<q>> /\ todo # << >> /\ Head(todo) = "decide"
      /\ UNCHANGED <<code, activations, traceSet, trace, todo, verdicts, status, history>>
  BY DEF AskHHH, MainIdle
<1>2. q \in Process /\ q.eip = 0
  BY IdleFacts
<1>3. Phase /\ Deciding
  BY <1>1, ToDoDiffer DEF IInv
<1>4. Phase'
  BY <1>1, <1>3 DEF Phase
<1>5. MainProcess'
  <2>1. processes'[1] = q /\ Deciding'
    BY <1>1, <1>3 DEF Deciding
  <2>2. todo' \notin {<<"run">>, <<"return">>, << >>}
    BY <1>1, <1>3, ToDoDiffer
  <2> QED
    BY <1>2, <2>1, <2>2 DEF MainProcess
<1> QED
  BY <1>1, <1>2, <1>4, <1>5, MainMoves

\* The process of main when it has called the input.
LEMMA CalledInput ==
  [Idle EXCEPT !.eip = P, !.stack = <<End_Of_Code>>] =
    [eip |-> P, stack |-> <<End_Of_Code>>, eax |-> 0, calling |-> 0]
<1>1. ASSUME NEW p \in Process, NEW r, r = [p EXCEPT !.eip = P, !.stack = <<End_Of_Code>>]
      PROVE  r = [eip |-> P, stack |-> <<End_Of_Code>>, eax |-> p.eax, calling |-> p.calling]
  BY <1>1 DEF Process
<1>2. Idle \in Process /\ Idle.eax = 0 /\ Idle.calling = 0
  BY IdleFacts DEF Idle
<1> QED
  BY <1>1, <1>2

\* main calling the input keeps the invariant.
LEMMA CallStep ==
  ASSUME IInv, CallInput
  PROVE  IInv'
<1> DEFINE q == [eip |-> P, stack |-> <<End_Of_Code>>, eax |-> 0, calling |-> 0]
<1>1. /\ Depth = 0 /\ processes' = <<q>> /\ todo # << >> /\ Head(todo) = "run"
      /\ todo' = <<"return">>
      /\ UNCHANGED <<code, activations, traceSet, trace, verdicts, status, history>>
  <2>1. [Idle EXCEPT !.eip = P, !.stack = <<End_Of_Code>>] = q
    BY CalledInput
  <2> HIDE DEF q
  <2> QED
    BY <2>1 DEF CallInput, MainIdle
<1>2. q \in Process /\ Len(q.stack) > 0 /\ q.stack[1] = End_Of_Code /\ q.calling = 0
  BY Constants DEF Process, End_Of_Code
<1>3. Phase /\ todo = <<"run">>
  BY <1>1, ToDoDiffer DEF IInv
<1>4. Phase'
  BY <1>1, <1>3, ToDo DEF Phase
<1>5. MainProcess'
  <2>1. processes'[1] = q /\ q.calling = 0
    BY <1>1
  <2>2. ~Deciding' /\ todo' \notin {<<"run">>, << >>}
    BY <1>1, ToDo DEF Deciding
  <2> QED
    BY <2>1, <2>2 DEF MainProcess
<1> HIDE DEF q
<1> QED
  BY <1>1, <1>2, <1>4, <1>5, MainMoves

\* The input running on its own keeps the invariant.
LEMMA RunStep ==
  ASSUME IInv, RunInput
  PROVE  IInv'
<1> DEFINE p == processes[1]
           q == Executed(p)
<1>1. /\ Depth = 0 /\ processes' = <<q>> /\ p.eip \in Addr /\ p.calling = 0
      /\ UNCHANGED <<code, activations, traceSet, trace, todo, verdicts, status, history>>
  <2>1. Depth = 0 => Innermost = 1
    BY Shape
  <2> QED
    BY <2>1 DEF RunInput, AtInput
<1>2. /\ p \in Process /\ code \in [Addr -> Instruction] /\ WellFormed(code)
      /\ p.eip # 0 /\ Len(p.stack) > 0 /\ p.stack[1] = End_Of_Code
  <2>1. p \in Process /\ Innermost = 1 /\ code \in [Addr -> Instruction] /\ WellFormed(code)
    BY <1>1, Shape
  <2>2. p.eip # 0
    BY <1>1, Constants
  <2> QED
    BY <2>1, <2>2 DEF IInv, Stacks
<1>3. /\ q \in Process
      /\ q.eip # 0 => Len(q.stack) > 0 /\ q.stack[1] = End_Of_Code
      /\ q.calling # 0 => q.eip # 0
  <2>1. code[p.eip].op # "HHH" => q.calling = 0
    BY <1>1, <1>2, ExecutedProcess
  <2> QED
    BY <1>1, <1>2, <2>1, ExecutedProcess
<1>4. todo = <<"return">>
  BY <1>1, <1>2 DEF IInv, Phase, MainProcess, Deciding
<1>5. Phase'
  BY <1>1 DEF IInv, Phase
<1> HIDE DEF q
<1>6. MainProcess'
  <2>1. ~Deciding' /\ todo' \notin {<<"run">>, << >>}
    BY <1>1, <1>4, ToDo DEF Deciding
  <2>2. processes'[1] = q
    BY <1>1
  <2> QED
    BY <1>3, <2>1, <2>2 DEF MainProcess
<1> QED
  BY <1>1, <1>3, <1>5, <1>6, MainMoves

\* The return of the input to main keeps the invariant.
LEMMA EndStep ==
  ASSUME IInv, InputReturns
  PROVE  IInv'
<1> DEFINE q == processes[1]
<1>1. /\ Depth = 0 /\ q.eip = 0 /\ q.calling = 0 /\ todo # << >> /\ Head(todo) = "return"
      /\ todo' = << >>
      /\ UNCHANGED <<code, processes, activations, traceSet, trace, verdicts, status, history>>
  BY DEF InputReturns, MainIdle
<1>2. q \in Process /\ processes = <<q>>
  <2>1. processes \in Seq(Process) /\ Len(processes) = 1 /\ q \in Process
    BY <1>1, Shape
  <2> QED
    BY <2>1
<1>3. Phase /\ todo = <<"return">>
  BY <1>1, ToDoDiffer DEF IInv
<1>4. Phase'
  BY <1>1, <1>3, ToDo DEF Phase
<1>5. MainProcess'
  <2>1. Depth' = 0 /\ processes'[1] = q
    BY <1>1 DEF Depth
  <2>2. ~Deciding' /\ todo' # <<"return">>
    BY <1>1, ToDo DEF Deciding
  <2> QED
    BY <1>1, <2>1, <2>2 DEF MainProcess
<1>6. processes' = <<q>>
  BY <1>1, <1>2
<1> HIDE DEF q
<1> QED
  BY <1>1, <1>2, <1>4, <1>5, <1>6, MainMoves

-----------------------------------------------------------------------------
(* The invariant.                                                          *)

\* The invariant holds at the beginning.
LEMMA InvInit == Init => IInv
<1> SUFFICES ASSUME Init
             PROVE  IInv
  OBVIOUS
<1>1. /\ processes = <<Idle>> /\ activations = << >> /\ traceSet = FALSE /\ trace = << >>
      /\ todo = <<"decide", "decide", "run">> /\ verdicts = << >> /\ history = << >>
      /\ status = "running"
  BY DEF Init
<1>2. Depth = 0 /\ Innermost = 1 /\ processes[1] = Idle /\ processes \in Seq(Process)
  BY <1>1, IdleFacts DEF Depth, Innermost
<1>3. code \in [Addr -> Instruction] /\ WellFormed(code)
  BY NestedAssumption DEF Init
<1>4. TypeOK
  <2>1. /\ << >> \in Seq(Activation) /\ << >> \in Seq(Entry)
        /\ << >> \in Seq({0, 1}) /\ << >> \in Seq(Addr)
    OBVIOUS
  <2>2. Innermost = Depth + 1
    BY <1>2
  <2> QED
    BY <1>1, <1>2, <1>3, <2>1, <2>2 DEF TypeOK
<1>5. Phase /\ Deciding
  BY <1>1 DEF Phase, Deciding
<1>6. MainProcess
  BY <1>2, <1>5, IdleFacts, ToDoDiffer DEF MainProcess
<1>7. Levels /\ Stacks /\ Cells /\ OnlyOutermostIsRoot
  BY <1>1, <1>2, IdleFacts DEF Levels, Stacks, Cells, OnlyOutermostIsRoot
<1>8. TraceCoversAllLevels /\ Len(trace) <= TraceCapacity
  BY <1>1, <1>2, Constants, TraceCovers
<1> QED
  BY <1>4, <1>5, <1>6, <1>7, <1>8 DEF IInv

\* Every step keeps the invariant.
LEMMA InvStep == IInv /\ [Next]_vars => IInv'
<1> SUFFICES ASSUME IInv, [Next]_vars
             PROVE  IInv'
  OBVIOUS
<1>1. CASE HHH
  BY <1>1, InitStep, StepStep, PushStep, HaltedStep, ContinueStep, ExamineStep DEF HHH
<1>2. CASE AskHHH \/ CallInput \/ RunInput \/ InputReturns
  BY <1>2, AskStep, CallStep, RunStep, EndStep
<1>3. CASE UNCHANGED vars
  <2>1. status' \in {"running", "exited"}
    BY <1>3 DEF vars, IInv, TypeOK
  <2> QED
    BY <1>3, <2>1, NothingMoves DEF vars
<1> QED
  BY <1>1, <1>2, <1>3 DEF Next

\* The invariant holds always.
LEMMA Invariant == Spec => []IInv
<1> QED
  BY InvInit, InvStep, PTL DEF Spec

\* The state variables keep their types, the stacks of processes and of
\* activations of HHH fit together, and the program is never changed.
THEOREM TypeCorrect == Spec => []TypeOK
<1>1. IInv => TypeOK
  BY DEF IInv
<1> QED
  BY <1>1, Invariant, PTL

\* However deep the input nests calls of HHH, and although every activation
\* that returns unsets the static cell that makes a Root (Halt7.c,
\* Init_Halts_HH), only the outermost activation ever is the Root.
THEOREM OnlyOneRoot == Spec => []OnlyOutermostIsRoot
<1>1. IInv => OnlyOutermostIsRoot
  BY DEF IInv
<1> QED
  BY <1>1, Invariant, PTL

\* While the static cell points to it, the shared trace holds, in order, all
\* that the inputs of all levels have executed (PushBack in Decide_Halting_HH).
THEOREM TraceIsComplete == Spec => []TraceCoversAllLevels
<1>1. IInv => TraceCoversAllLevels
  BY DEF IInv
<1> QED
  BY <1>1, Invariant, PTL

-----------------------------------------------------------------------------
(* Inputs that call nothing.                                               *)

\* The input calls nothing.
Plain == NoCalls /\ \A a \in Addr : code[a].op # "HHH"

\* Where an instruction of such an input leads, with EAX as it starts.
Leads(a) ==
  CASE code[a].op \in {"JMP", "JZ"} -> code[a].target
    [] code[a].op = "RET"           -> End_Of_Code
    [] OTHER                        -> a + 1

\* Addresses an input that starts at P never leaves.
Trap(S) == P \in S /\ \A a \in S : Leads(a) \in S

Trapped == \E S \in SUBSET Addr : Trap(S)

\* The process has neither data nor a call of its own in progress.
PlainProcess(p) ==
  /\ p.eax = 0 /\ p.calling = 0
  /\ p.eip # 0 => p.stack = <<End_Of_Code>>

\* Where the simulated input stands before the instruction after the last
\* traced one.
Reached == IF trace = << >> THEN P ELSE Leads(Last.Address)

\* The trace is the path of the input, and the input goes on along it.
PlainTrace ==
  /\ traceSet /\ PlainProcess(processes[2])
  /\ \A k \in 1..Len(trace) : trace[k] = Decode(trace[k].Address)
  /\ trace # << >> => trace[1].Address = P
  /\ \A k \in 1..(Len(trace) - 1) : trace[k + 1].Address = Leads(trace[k].Address)
  /\ IF Inner.pc = "executed"
     THEN Inner.EIP = Reached /\ processes[2].eip = Leads(Inner.EIP)
     ELSE processes[2].eip = Reached

PlainInv ==
  Plain =>
    /\ Depth <= 1
    /\ Depth = 1 => Deciding /\ PlainTrace
    /\ (\E i \in 1..Len(verdicts) : verdicts[i] = 0) => Trapped
    /\ todo = <<"return">> =>
         /\ PlainProcess(processes[1])
         /\ \A S \in SUBSET Addr : Trap(S) => processes[1].eip \in S
    /\ todo = << >> => ~Trapped

\* The instructions of a plain input.
LEMMA PlainOps ==
  ASSUME IInv, Plain, NEW a \in Addr
  PROVE  /\ code[a].op \in {"JMP", "JZ", "RET", "OTHER"}
         /\ Decode(a).Simplified_Opcode # "CALL"
         /\ Decode(a).Simplified_Opcode = "JMP" =>
              Leads(a) = code[a].target /\ Decode(a).Decode_Target = code[a].target
<1>1. code[a].op \in Kind
  BY Shape, CodeFacts
<1>2. code[a].op \in {"JMP", "JZ", "RET", "OTHER"}
  BY <1>1 DEF Plain, NoCalls, Kind
<1> QED
  BY <1>2 DEF Decode, Simplified, Leads

\* Where a plain input goes is a function of where it is.
LEMMA PlainExecuted ==
  ASSUME IInv, Plain, NEW p \in Process, PlainProcess(p), p.eip \in Addr
  PROVE  PlainProcess(Executed(p)) /\ Executed(p).eip = Leads(p.eip)
<1>1. /\ code[p.eip].op \in {"JMP", "JZ", "RET", "OTHER"}
      /\ code \in [Addr -> Instruction] /\ WellFormed(code)
  BY PlainOps, Shape
<1>2. p.eax = 0 /\ p.calling = 0 /\ p.stack = <<End_Of_Code>> /\ p.eip # 0
  BY Constants DEF PlainProcess
<1>3. Executed(p).eax = 0 /\ Executed(p).calling = 0
  <2>1. Len(p.stack) > 0 /\ p.stack[1] = End_Of_Code
    BY <1>2
  <2> QED
    BY <1>1, <1>2, <2>1, ExecutedProcess
<1>4. CASE code[p.eip].op \in {"JMP", "JZ", "OTHER"}
  <2>1. Executed(p).eip = Leads(p.eip)
    <3>1. CASE code[p.eip].op = "JMP"
      BY <3>1 DEF Executed, Leads, Process
    <3>2. CASE code[p.eip].op = "JZ"
      BY <1>2, <3>2 DEF Executed, Leads, Process
    <3>3. CASE code[p.eip].op = "OTHER"
      BY <3>3 DEF Executed, Leads, Process
    <3> QED
      BY <1>4, <3>1, <3>2, <3>3
  <2>2. Executed(p).stack = p.stack
    <3>1. CASE code[p.eip].op = "JMP"
      BY <3>1 DEF Executed, Process
    <3>2. CASE code[p.eip].op = "JZ"
      BY <3>2 DEF Executed, Process
    <3>3. CASE code[p.eip].op = "OTHER"
      BY <3>3 DEF Executed, Process
    <3> QED
      BY <1>4, <3>1, <3>2, <3>3
  <2> QED
    BY <1>2, <1>3, <2>1, <2>2 DEF PlainProcess
<1>5. CASE code[p.eip].op = "RET"
  <2>1. Executed(p).eip = p.stack[Len(p.stack)]
    BY <1>5 DEF Executed, Process
  <2>2. Executed(p).eip = End_Of_Code /\ Leads(p.eip) = End_Of_Code
    BY <1>2, <1>5, <2>1 DEF Leads
  <2> QED
    BY <1>3, <2>2 DEF PlainProcess, End_Of_Code
<1> QED
  BY <1>1, <1>4, <1>5

\* A loop that the detector finds in the trace of a plain input is a trap.
LEMMA LoopIsTrap ==
  ASSUME IInv, Plain, PlainTrace, Needs_To_Be_Aborted_HH
  PROVE  Trapped
<1> DEFINE N == Len(trace)
           A(k) == trace[k].Address
           S == {A(k) : k \in 1..N}
<1>1. PICK n \in 1..(N - 1) : ClosesLoop(n) \/ RepeatsCall(n)
  BY DEF Needs_To_Be_Aborted_HH
<1>2. N \in Nat /\ trace \in Seq(Entry) /\ N \in 1..N /\ n \in 1..N /\ 1 \in 1..N
  <2>1. N \in Nat /\ trace \in Seq(Entry)
    BY Shape
  <2> QED
    BY <1>1, <2>1
<1>3. /\ \A k \in 1..N : trace[k] = Decode(A(k))
      /\ A(1) = P
      /\ \A k \in 1..(N - 1) : A(k + 1) = Leads(A(k))
  BY <1>2 DEF PlainTrace
<1>4. \A k \in 1..N : A(k) \in Addr
  BY <1>2, EntryAddress
<1>5. Last = Decode(A(N)) /\ A(N) \in Addr
  BY <1>2, <1>3, <1>4 DEF Last
<1>6. ~RepeatsCall(n)
  BY <1>5, PlainOps DEF RepeatsCall
<1>7. Last.Simplified_Opcode = "JMP" /\ A(n) = Last.Decode_Target
  BY <1>1, <1>6 DEF ClosesLoop
<1>8. Leads(A(N)) = A(n)
  BY <1>5, <1>7, PlainOps
<1>9. \A k \in 1..N : Leads(A(k)) \in S
  <2> SUFFICES ASSUME NEW k \in 1..N
               PROVE  Leads(A(k)) \in S
    OBVIOUS
  <2>1. CASE k = N
    BY <1>2, <1>8, <2>1
  <2>2. CASE k # N
    <3>1. k \in 1..(N - 1) /\ k + 1 \in 1..N
      BY <1>2, <2>2
    <3> QED
      BY <1>3, <3>1
  <2> QED
    BY <2>1, <2>2
<1>10. P \in S
  BY <1>2, <1>3
<1>11. S \subseteq Addr /\ \A a \in S : Leads(a) \in S
  BY <1>4, <1>9
<1> HIDE DEF S
<1> QED
  BY <1>10, <1>11 DEF Trapped, Trap

\* The program does not change, nor does what follows from it.
LEMMA SameProgram ==
  ASSUME code' = code
  PROVE  /\ Plain' <=> Plain
         /\ Trapped' <=> Trapped
         /\ \A S \in SUBSET Addr : Trap(S)' <=> Trap(S)
<1>1. Plain' <=> Plain
  BY DEF Plain, NoCalls
<1>2. \A S \in SUBSET Addr : Trap(S)' <=> Trap(S)
  BY DEF Trap, Leads
<1>3. Trapped' <=> Trapped
  BY DEF Trapped, Trap, Leads
<1> QED
  BY <1>1, <1>2, <1>3

\* HHH decides such an input only in an activation that main has started.
LEMMA PlainDepth ==
  ASSUME IInv, PlainInv, Plain, Depth > 0
  PROVE  Depth = 1 /\ Innermost = 2 /\ Deciding /\ PlainTrace
<1>1. Depth \in Nat /\ Innermost = Depth + 1
  BY Shape
<1> QED
  BY <1>1 DEF PlainInv

\* A step within the simulation keeps what PlainInv says of main.
LEMMA PlainMoves ==
  ASSUME IInv, PlainInv, Deciding, code' = code, todo' = todo, verdicts' = verdicts,
         Plain => Depth' = 1 /\ PlainTrace'
  PROVE  PlainInv'
<1>1. todo' \notin {<<"return">>, << >>} /\ Deciding'
  BY ToDoDiffer DEF Deciding
<1> QED
  BY <1>1, SameProgram DEF PlainInv

\* A call of HHH about a plain input begins with an empty trace of it.
LEMMA PlainInit_Halts_HH ==
  ASSUME IInv, IInv', PlainInv, Init_Halts_HH
  PROVE  PlainInv'
<1> DEFINE input == processes[Innermost].calling
           a == [input |-> input, Root |-> ~traceSet, length |-> 0, pc |-> "simulate",
                 EIP |-> input]
           q == [eip |-> input, stack |-> <<End_Of_Code>>, eax |-> 0, calling |-> 0]
<1>1. /\ activations' = Append(activations, a) /\ processes' = Append(processes, q)
      /\ traceSet' = TRUE
      /\ trace' = IF traceSet THEN trace ELSE << >>
      /\ UNCHANGED <<code, todo, verdicts>>
      /\ input # 0
  BY DEF Init_Halts_HH
<1>2. /\ processes \in Seq(Process) /\ activations \in Seq(Activation)
      /\ Depth \in Nat /\ Innermost = Depth + 1
      /\ Len(processes) = Depth + 1 /\ Len(activations) = Depth
  BY Shape
<1>3. a.pc = "simulate" /\ q.eip = input /\ q.eax = 0 /\ q.calling = 0 /\ q.stack = <<End_Of_Code>>
  OBVIOUS
<1>4. CASE Plain
  <2>1. Depth = 0
    BY <1>1, <1>2, <1>4, PlainDepth DEF PlainTrace, PlainProcess
  <2>2. todo # <<"return">>
    BY <1>1, <1>2, <1>4, <2>1 DEF PlainInv, PlainProcess
  <2>3. Deciding
    BY <1>1, <1>2, <2>1, <2>2 DEF IInv, Phase, MainProcess, Deciding
  <2>4. input = P
    BY <1>1, <1>2, <2>1, <2>3, IdleFacts DEF IInv, MainProcess
  <2>5. Depth' = 1 /\ Inner' = a /\ processes'[2] = q
    <3>1. a \in Activation
      <4>1. 0 \in 0..TraceCapacity /\ (~traceSet) \in BOOLEAN /\ P \in Functions /\ P \in Addr
        BY Constants
      <4> HIDE DEF input
      <4> QED
        BY <2>4, <4>1 DEF Activation
    <3>2. q \in Process
      <4> HIDE DEF input
      <4> QED
        BY <2>4, Constants DEF Process, End_Of_Code
    <3> HIDE DEF a, q
    <3>3. Len(activations') = 1 /\ activations'[1] = a
      <4>1. Len(activations) = 0 /\ activations \in Seq(Activation)
        BY <1>2, <2>1
      <4>2. /\ Len(activations') = Len(activations) + 1
            /\ activations'[Len(activations) + 1] = a
        BY <1>1, <3>1, <4>1, AppendProperties
      <4> QED
        BY <4>1, <4>2
    <3>4. processes'[2] = q
      <4>1. Len(processes) = 1 /\ processes \in Seq(Process)
        BY <1>2, <2>1
      <4>2. processes'[Len(processes) + 1] = q
        BY <1>1, <3>2, <4>1, AppendProperties, ZenonT(60)
      <4> QED
        BY <4>1, <4>2
    <3> QED
      BY <3>3, <3>4 DEF Depth, Inner
  <2> HIDE DEF a, q, input
  <2>6. trace' = << >>
    BY <1>1, <2>1 DEF IInv, Cells
  <2>7. PlainTrace'
    <3>1. Reached' = P
      BY <2>6 DEF Reached
    <3>2. Len(trace') = 0
      BY <2>6
    <3> QED
      BY <1>1, <1>3, <2>4, <2>5, <2>6, <3>1, <3>2 DEF PlainTrace, PlainProcess
  <2> QED
    BY <1>1, <2>3, <2>5, <2>7, PlainMoves
<1>5. CASE ~Plain
  BY <1>1, <1>5, SameProgram DEF PlainInv
<1> QED
  BY <1>4, <1>5

\* DebugStep of a plain input follows its path.
LEMMA PlainDebugStep ==
  ASSUME IInv, IInv', PlainInv, DebugStep
  PROVE  PlainInv'
<1> DEFINE p == processes[2]
           q == Executed(p)
<1>1. UNCHANGED <<code, traceSet, trace, todo, verdicts>> /\ Depth > 0 /\ Inner.pc = "simulate"
  BY DEF DebugStep
<1>2. CASE Plain
  <2>1. Depth = 1 /\ Innermost = 2 /\ Deciding /\ PlainTrace
    BY <1>1, <1>2, PlainDepth
  <2>2. /\ processes' = [processes EXCEPT ![2] = q]
        /\ activations' = [activations EXCEPT ![1].EIP = p.eip, ![1].pc = "executed"]
        /\ p.eip \in Addr
    BY <2>1 DEF DebugStep, AtInput
  <2>3. /\ activations \in Seq(Activation) /\ processes \in Seq(Process)
        /\ Len(activations) = 1 /\ Len(processes) = 2 /\ p \in Process
        /\ Inner = activations[1] /\ Inner \in Activation
    BY <2>1, Shape DEF Inner
  <2>4. PlainProcess(q) /\ q.eip = Leads(p.eip)
    BY <1>2, <2>1, <2>2, <2>3, PlainExecuted DEF PlainTrace
  <2>5. processes'[2] = q
    BY <2>2, <2>3
  <2>6. Depth' = 1 /\ Inner'.EIP = p.eip /\ Inner'.pc = "executed"
    <3> DEFINE a == [input |-> Inner.input, Root |-> Inner.Root, length |-> Inner.length,
                     pc |-> "executed", EIP |-> p.eip]
    <3>1. activations' = [activations EXCEPT ![1] = a]
      <4>1. activations' = [activations EXCEPT ![Depth].EIP = processes[Innermost].eip,
                                               ![Depth].pc = "executed"]
        BY DEF DebugStep
      <4>2. activations' = [activations EXCEPT ![Depth] =
              [input |-> Inner.input, Root |-> Inner.Root, length |-> Inner.length,
               pc |-> "executed", EIP |-> processes[Innermost].eip]]
        BY <1>1, <4>1, ExecutedActivation
      <4> QED
        BY <2>1, <4>2
    <3>2. Len(activations') = 1 /\ activations'[1] = a
      BY <2>3, <3>1
    <3>3. Inner' = activations'[1]
      BY <3>2 DEF Depth, Inner
    <3> QED
      BY <3>2, <3>3 DEF Depth
  <2> HIDE DEF p, q
  <2>7. PlainTrace'
    <3>1. p.eip = Reached
      BY <1>1, <2>1 DEF PlainTrace, p
    <3>2. Reached' = Reached
      BY <1>1 DEF Reached, Last, Leads
    <3>3. \A k : Decode(trace[k].Address)' = Decode(trace[k].Address)
      BY <1>1 DEF Decode
    <3>4. \A k : Leads(trace[k].Address)' = Leads(trace[k].Address)
      BY <1>1 DEF Leads
    <3>5. Leads(Inner.EIP)' = Leads(p.eip)
      BY <1>1, <2>6 DEF Leads
    <3>6. PlainProcess(processes[2])'
      BY <2>4, <2>5 DEF PlainProcess
    <3> QED
      BY <1>1, <2>1, <2>4, <2>5, <2>6, <3>1, <3>2, <3>3, <3>4, <3>5, <3>6 DEF PlainTrace
  <2> QED
    BY <1>1, <2>1, <2>6, <2>7, PlainMoves
<1>3. CASE ~Plain
  BY <1>1, <1>3, SameProgram DEF PlainInv
<1> QED
  BY <1>2, <1>3

\* The loop of the activation goes on, with the trace as it is.
LEMMA PlainLoop ==
  ASSUME IInv, IInv', PlainInv, Depth = 1, Plain => PlainTrace, Inner.pc = "recorded",
         UNCHANGED <<code, processes, traceSet, trace, todo, verdicts>>,
         Len(activations') = 1, activations'[1].pc = "simulate", Plain => Deciding
  PROVE  PlainInv'
<1>1. CASE Plain
  <2>1. Depth' = 1 /\ Inner'.pc = "simulate"
    BY DEF Depth, Inner
  <2>2. PlainTrace'
    <3>1. Reached' = Reached
      BY DEF Reached, Last, Leads
    <3>2. \A k : Decode(trace[k].Address)' = Decode(trace[k].Address)
      BY DEF Decode
    <3>3. \A k : Leads(trace[k].Address)' = Leads(trace[k].Address)
      BY DEF Leads
    <3>4. PlainProcess(processes[2])' <=> PlainProcess(processes[2])
      BY DEF PlainProcess
    <3> QED
      BY <1>1, <2>1, <3>1, <3>2, <3>3, <3>4 DEF PlainTrace
  <2> QED
    BY <1>1, <2>1, <2>2, PlainMoves
<1>2. CASE ~Plain
  BY <1>2, SameProgram DEF PlainInv
<1> QED
  BY <1>1, <1>2

\* Going on after a recorded instruction of a plain input.
LEMMA PlainContinue ==
  ASSUME IInv, IInv', PlainInv, Continue
  PROVE  PlainInv'
<1>1. /\ Depth > 0 /\ Inner.pc = "recorded"
      /\ activations' = [activations EXCEPT ![Depth].pc = "simulate"]
      /\ UNCHANGED <<code, processes, traceSet, trace, todo, verdicts>>
  BY DEF Continue
<1>2. CASE Plain
  <2>1. Depth = 1 /\ Deciding /\ PlainTrace
    BY <1>1, <1>2, PlainDepth
  <2>2. activations \in Seq(Activation) /\ Len(activations) = 1 /\ activations[1] \in Activation
    BY <2>1, Shape
  <2>3. Len(activations') = 1 /\ activations'[1].pc = "simulate"
    BY <1>1, <2>1, <2>2 DEF Activation
  <2> QED
    BY <1>1, <2>1, <2>3, PlainLoop
<1>3. CASE ~Plain
  BY <1>1, <1>3, SameProgram DEF PlainInv
<1> QED
  BY <1>2, <1>3

\* The trace of a plain input is its path.
LEMMA PlainPush ==
  ASSUME IInv, IInv', PlainInv, PushBack
  PROVE  PlainInv'
<1>1. Depth > 0 /\ Inner.pc = "executed" /\ UNCHANGED <<code, processes, traceSet, todo, verdicts>>
  BY DEF PushBack
<1>2. CASE ~Plain
  BY <1>1, <1>2, SameProgram DEF PlainInv
<1>3. CASE Plain /\ traceSet /\ Len(trace) < TraceCapacity
  <2> DEFINE e == Decode(Inner.EIP)
             N == Len(trace)
  <2>1. Depth = 1 /\ Innermost = 2 /\ Deciding /\ PlainTrace
    BY <1>1, <1>3, PlainDepth
  <2>2. /\ trace' = Append(trace, e)
        /\ activations' = [activations EXCEPT ![1].pc = "recorded"]
    BY <1>3, <2>1 DEF PushBack
  <2>3. /\ trace \in Seq(Entry) /\ N \in Nat /\ code \in [Addr -> Instruction]
        /\ activations \in Seq(Activation) /\ Len(activations) = 1
        /\ Inner = activations[1] /\ Inner \in Activation /\ Inner.EIP \in Addr
    BY <2>1, Shape DEF Inner, Activation
  <2>4. e \in Entry /\ e.Address = Inner.EIP
    BY <2>3, DecodedEntry
  <2>5. /\ Inner.EIP = Reached /\ processes[2].eip = Leads(Inner.EIP)
        /\ \A k \in 1..N : trace[k] = Decode(trace[k].Address)
        /\ N > 0 => trace[1].Address = P
        /\ \A k \in 1..(N - 1) : trace[k + 1].Address = Leads(trace[k].Address)
        /\ traceSet /\ PlainProcess(processes[2])
    BY <1>1, <2>1, <2>3 DEF PlainTrace
  <2>6. Depth' = 1 /\ Inner'.pc = "recorded"
    <3>1. Len(activations') = 1 /\ activations'[1].pc = "recorded"
      BY <2>2, <2>3 DEF Activation
    <3> QED
      BY <3>1 DEF Depth, Inner
  <2> HIDE DEF e, N
  <2>7. /\ Len(trace') = N + 1 /\ trace'[N + 1] = e
        /\ \A k \in 1..N : trace'[k] = trace[k]
    BY <2>2, <2>3, <2>4, AppendProperties DEF N
  <2>8. \A k \in 1..(N + 1) : trace'[k] = Decode(trace'[k].Address)
    <3> SUFFICES ASSUME NEW k \in 1..(N + 1)
                 PROVE  trace'[k] = Decode(trace'[k].Address)
      OBVIOUS
    <3>1. CASE k = N + 1
      BY <2>4, <2>7, <3>1 DEF e
    <3>2. CASE k # N + 1
      <4>1. k \in 1..N
        BY <2>3, <3>2
      <4> QED
        BY <2>5, <2>7, <4>1
    <3> QED
      BY <3>1, <3>2
  <2>9. trace'[1].Address = P /\ trace' # << >>
    <3>1. CASE N = 0
      <4>1. trace = << >>
        BY <2>3, <3>1 DEF N
      <4>2. Reached = P
        BY <4>1 DEF Reached
      <4>3. e.Address = P
        <5>1. Inner.EIP = Reached
          BY <2>5
        <5> QED
          BY <2>4, <4>2, <5>1
      <4>4. trace'[1] = e /\ Len(trace') = 1
        BY <2>7, <3>1
      <4>5. trace' # << >>
        BY <4>4
      <4> QED
        BY <4>3, <4>4, <4>5
    <3>2. CASE N # 0
      <4>1. 1 \in 1..N
        BY <2>3, <3>2
      <4> QED
        BY <2>3, <2>5, <2>7, <3>2, <4>1
    <3> QED
      BY <3>1, <3>2
  <2>10. \A k \in 1..N : trace'[k + 1].Address = Leads(trace'[k].Address)
    <3> SUFFICES ASSUME NEW k \in 1..N
                 PROVE  trace'[k + 1].Address = Leads(trace'[k].Address)
      OBVIOUS
    <3>1. CASE k = N
      <4>1. Reached = Leads(trace[N].Address)
        <5>1. trace # << >>
          BY <2>3, <3>1 DEF N
        <5> QED
          BY <5>1 DEF Reached, Last, N
      <4> QED
        BY <2>4, <2>5, <2>7, <3>1, <4>1
    <3>2. CASE k # N
      <4>1. k \in 1..(N - 1) /\ k + 1 \in 1..N
        BY <2>3, <3>2
      <4> QED
        BY <2>5, <2>7, <4>1
    <3> QED
      BY <3>1, <3>2
  <2>11. PlainTrace'
    <3>1. Reached' = Leads(Inner.EIP)
      <4>1. Last' = e
        BY <2>7 DEF Last
      <4>2. Reached' = Leads(Last.Address)'
        BY <2>9 DEF Reached
      <4> QED
        BY <1>1, <2>4, <4>1, <4>2 DEF Leads
    <3>2. \A k : Decode(trace[k].Address)' = Decode(trace'[k].Address)
      BY <1>1 DEF Decode
    <3>3. \A k : Leads(trace[k].Address)' = Leads(trace'[k].Address)
      BY <1>1 DEF Leads
    <3>4. PlainProcess(processes[2])' <=> PlainProcess(processes[2])
      BY <1>1 DEF PlainProcess
    <3>5. Len(trace') - 1 = N
      BY <2>3, <2>7
    <3>6. \A k \in 1..Len(trace') : trace'[k] = Decode(trace[k].Address)'
      BY <2>7, <2>8, <3>2
    <3>7. \A k \in 1..(Len(trace') - 1) : trace'[k + 1].Address = Leads(trace[k].Address)'
      BY <2>10, <3>3, <3>5
    <3>8. processes'[2].eip = Reached' /\ Inner'.pc # "executed" /\ traceSet'
      BY <1>1, <2>5, <2>6, <3>1
    <3> QED
      BY <2>5, <2>9, <3>4, <3>6, <3>7, <3>8 DEF PlainTrace
  <2> QED
    BY <1>1, <2>1, <2>6, <2>11, PlainMoves
<1>4. CASE Plain /\ ~ (traceSet /\ Len(trace) < TraceCapacity)
  <2>1. Depth = 1 /\ Deciding /\ PlainTrace
    BY <1>1, <1>4, PlainDepth
  <2>2. UNCHANGED <<trace, activations>>
    BY <1>4 DEF PushBack
  <2>3. Depth' = 1 /\ Inner' = Inner
    BY <2>1, <2>2 DEF Depth, Inner
  <2>4. PlainTrace'
    <3>1. Reached' = Reached
      BY <1>1, <2>2 DEF Reached, Last, Leads
    <3>2. \A k : Decode(trace[k].Address)' = Decode(trace[k].Address)
      BY <1>1, <2>2 DEF Decode
    <3>3. \A k : Leads(trace[k].Address)' = Leads(trace[k].Address)
      BY <1>1, <2>2 DEF Leads
    <3>4. PlainProcess(processes[2])' <=> PlainProcess(processes[2])
      BY <1>1 DEF PlainProcess
    <3>5. Leads(Inner.EIP)' = Leads(Inner.EIP)
      BY <1>1, <2>3 DEF Leads
    <3> QED
      BY <1>1, <2>1, <2>2, <2>3, <3>1, <3>2, <3>3, <3>4, <3>5 DEF PlainTrace
  <2> QED
    BY <1>1, <2>1, <2>3, <2>4, PlainMoves
<1> QED
  BY <1>2, <1>3, <1>4

\* HHH returns 0 only if the trace of the plain input is a trap.
LEMMA PlainReturn ==
  ASSUME IInv, IInv', PlainInv, Depth = 1, NEW v \in {0, 1}, Return(1, v),
         Plain => Deciding, Plain /\ v = 0 => Trapped
  PROVE  PlainInv'
<1>1. /\ code' = code /\ Depth' = 0 /\ Report(1, v)
  <2>1. 1 \in 1..Depth
    OBVIOUS
  <2>2. Depth' = 1 - 1
    BY <2>1, Returned
  <2> QED
    BY <2>2 DEF Return
<1>2. CASE Plain
  <2>1. Deciding /\ processes[1].eip = 0
    BY <1>2 DEF IInv, MainProcess
  <2>2. verdicts' = Append(verdicts, v) /\ todo' = Tail(todo)
    BY <1>1, <2>1 DEF Report
  <2>3. todo' \in {<<"decide", "run">>, <<"run">>}
    BY <2>1, <2>2, ToDo DEF Deciding
  <2>4. todo' # <<"return">> /\ todo' # << >>
    BY <2>3, ToDo, SMTT(30)
  <2>5. ASSUME NEW i \in 1..Len(verdicts'), verdicts'[i] = 0
        PROVE  Trapped
    <3>1. /\ Len(verdicts) \in Nat /\ Len(verdicts') = Len(verdicts) + 1
          /\ verdicts'[Len(verdicts) + 1] = v
          /\ \A j \in 1..Len(verdicts) : verdicts'[j] = verdicts[j]
      <4>1. verdicts \in Seq({0, 1})
        BY DEF IInv, TypeOK
      <4> QED
        BY <2>2, <4>1, AppendProperties
    <3>2. CASE i = Len(verdicts) + 1
      BY <1>2, <2>5, <3>1, <3>2
    <3>3. CASE i # Len(verdicts) + 1
      <4>1. i \in 1..Len(verdicts)
        BY <3>1, <3>3
      <4> QED
        BY <1>2, <2>5, <3>1, <4>1 DEF PlainInv
    <3> QED
      BY <3>2, <3>3
  <2> QED
    BY <1>1, <1>2, <2>4, <2>5, SameProgram DEF PlainInv
<1>3. CASE ~Plain
  BY <1>1, <1>3, SameProgram DEF PlainInv
<1> QED
  BY <1>2, <1>3

\* A plain input that has halted.
LEMMA PlainHalted ==
  ASSUME IInv, IInv', PlainInv, InputHalted
  PROVE  PlainInv'
<1>1. Depth > 0 /\ Return(Depth, 1) /\ code' = code
  BY DEF InputHalted, Return
<1>2. CASE Plain
  <2>1. Depth = 1 /\ Deciding
    BY <1>1, <1>2, PlainDepth
  <2> QED
    BY <1>1, <2>1, PlainReturn
<1>3. CASE ~Plain
  BY <1>1, <1>3, SameProgram DEF PlainInv
<1> QED
  BY <1>2, <1>3

\* When the detector fires on a plain input the trace is a trap.
LEMMA PlainExamines ==
  ASSUME IInv, IInv', PlainInv, RootExamines
  PROVE  PlainInv'
<1>1. PICK k \in 1..Depth :
        /\ activations[k].Root
        /\ IF Needs_To_Be_Aborted_HH
           THEN Return(k, 0)
           ELSE /\ activations' = [activations EXCEPT ![k].length = Len(trace),
                                                      ![k].pc = "simulate"]
                /\ UNCHANGED <<code, processes, traceSet, trace, todo, verdicts, status, history>>
  BY DEF RootExamines
<1>2. k = 1 /\ Depth \in Nat /\ Depth > 0
  BY <1>1, RootIsFirst, Shape
<1>3. CASE ~Plain
  <2>1. code' = code
    BY <1>1 DEF Return
  <2> QED
    BY <1>3, <2>1, SameProgram DEF PlainInv
<1>4. CASE Plain
  <2>1. Depth = 1 /\ Deciding /\ PlainTrace
    BY <1>2, <1>4, PlainDepth
  <2>2. CASE Needs_To_Be_Aborted_HH
    <3>1. Trapped
      BY <1>4, <2>1, <2>2, LoopIsTrap
    <3> QED
      BY <1>1, <1>2, <2>1, <2>2, <3>1, PlainReturn
  <2>3. CASE ~Needs_To_Be_Aborted_HH
    <3> DEFINE a == [input |-> activations[1].input, Root |-> activations[1].Root,
                     length |-> Len(trace), pc |-> "simulate", EIP |-> activations[1].EIP]
    <3>1. /\ activations' = [activations EXCEPT ![1] = a]
          /\ UNCHANGED <<code, processes, traceSet, trace, todo, verdicts>>
      BY <1>1, <1>2, <2>1, <2>3, ExaminedActivation
    <3>2. Inner.pc = "recorded"
      <4>1. \A j \in 1..Depth : j = Depth
        BY <2>1
      <4> QED
        BY <4>1 DEF RootExamines, RootMustLook
    <3>3. activations \in Seq(Activation) /\ Len(activations) = 1 /\ activations[1] \in Activation
      BY <2>1, Shape
    <3>4. Len(activations') = 1 /\ activations'[1].pc = "simulate"
      BY <3>1, <3>3
    <3> QED
      BY <2>1, <3>1, <3>2, <3>4, PlainLoop
  <2> QED
    BY <2>2, <2>3
<1> QED
  BY <1>3, <1>4

\* What main does with a plain input.
LEMMA PlainMain ==
  ASSUME IInv, IInv', PlainInv, AskHHH \/ CallInput \/ RunInput \/ InputReturns
  PROVE  PlainInv'
<1>1. Depth = 0 /\ UNCHANGED <<code, activations, verdicts>>
  BY DEF AskHHH, CallInput, RunInput, InputReturns, MainIdle
<1>2. Depth' = 0
  BY <1>1 DEF Depth
<1>3. CASE ~Plain
  BY <1>1, <1>3, SameProgram DEF PlainInv
<1>4. CASE Plain
  <2>1. Phase
    BY DEF IInv
  <2>2. (\E i \in 1..Len(verdicts') : verdicts'[i] = 0) => Trapped
    BY <1>1, <1>4 DEF PlainInv
  <2>3. todo' = <<"return">> =>
          PlainProcess(processes'[1]) /\ \A S \in SUBSET Addr : Trap(S) => processes'[1].eip \in S
    <3>1. CASE AskHHH
      <4>1. todo' # <<"return">>
        BY <2>1, <3>1, ToDoDiffer DEF AskHHH, MainIdle
      <4> QED
        BY <4>1
    <3>2. CASE CallInput
      <4> DEFINE q == [eip |-> P, stack |-> <<End_Of_Code>>, eax |-> 0, calling |-> 0]
      <4>1. [Idle EXCEPT !.eip = P, !.stack = <<End_Of_Code>>] = q
        BY CalledInput
      <4> HIDE DEF q
      <4>2. processes'[1] = q
        BY <3>2, <4>1 DEF CallInput
      <4> QED
        BY <4>2 DEF q, PlainProcess, Trap
    <3>3. CASE RunInput
      <4> DEFINE p == processes[1]
      <4>1. Innermost = 1 /\ p \in Process
        BY <1>1, Shape
      <4>2. todo' = todo /\ p.eip \in Addr /\ processes'[1] = Executed(p)
        BY <3>3, <4>1 DEF RunInput, AtInput
      <4>3. ASSUME todo = <<"return">>
            PROVE  /\ PlainProcess(Executed(p)) /\ Executed(p).eip = Leads(p.eip)
                   /\ \A S \in SUBSET Addr : Trap(S) => p.eip \in S
        <5>1. PlainProcess(p) /\ \A S \in SUBSET Addr : Trap(S) => p.eip \in S
          BY <1>4, <4>3 DEF PlainInv
        <5> QED
          BY <1>4, <4>1, <4>2, <5>1, PlainExecuted
      <4> HIDE DEF p
      <4> QED
        BY <4>2, <4>3 DEF Trap
    <3>4. CASE InputReturns
      BY <3>4, ToDo DEF InputReturns
    <3> QED
      BY <3>1, <3>2, <3>3, <3>4
  <2>4. todo' = << >> => ~Trapped
    <3>1. CASE InputReturns
      <4>1. todo = <<"return">> /\ processes[1].eip = 0
        BY <2>1, <3>1, ToDoDiffer DEF InputReturns, MainIdle
      <4>2. \A S \in SUBSET Addr : Trap(S) => 0 \in S
        BY <1>4, <4>1 DEF PlainInv
      <4> QED
        BY <4>2, Constants DEF Trapped
    <3>2. CASE AskHHH \/ CallInput
      BY <3>2, ToDo DEF AskHHH, CallInput, MainIdle
    <3>3. CASE RunInput
      BY <1>4, <3>3 DEF RunInput, PlainInv
    <3> QED
      BY <3>1, <3>2, <3>3
  <2>5. PlainProcess(processes[1])' <=> PlainProcess(processes'[1])
    BY DEF PlainProcess
  <2> QED
    BY <1>1, <1>2, <1>4, <2>2, <2>3, <2>4, <2>5, SameProgram DEF PlainInv
<1> QED
  BY <1>3, <1>4

\* A plain input has not begun at the beginning.
LEMMA PlainStart == Init => PlainInv
<1> SUFFICES ASSUME Init
             PROVE  PlainInv
  OBVIOUS
<1>1. Depth = 0 /\ Len(verdicts) = 0 /\ todo = <<"decide", "decide", "run">>
  BY DEF Init, Depth
<1>2. todo # <<"return">> /\ todo # << >>
  BY <1>1, ToDo
<1> QED
  BY <1>1, <1>2 DEF PlainInv

\* Every step keeps what is known of a plain input.
LEMMA PlainStep == IInv /\ IInv' /\ PlainInv /\ [Next]_vars => PlainInv'
<1> SUFFICES ASSUME IInv, IInv', PlainInv, [Next]_vars
             PROVE  PlainInv'
  OBVIOUS
<1>1. CASE HHH
  BY <1>1, PlainInit_Halts_HH, PlainDebugStep, PlainPush, PlainHalted, PlainContinue,
     PlainExamines DEF HHH
<1>2. CASE AskHHH \/ CallInput \/ RunInput \/ InputReturns
  BY <1>2, PlainMain
<1>3. CASE UNCHANGED vars
  <2>1. Depth' = Depth /\ Inner' = Inner /\ Last' = Last /\ UNCHANGED vars
    BY <1>3 DEF vars, Depth, Inner, Last
  <2>2. Reached' = Reached
    BY <2>1 DEF vars, Reached, Leads
  <2>3. PlainTrace' <=> PlainTrace
    BY <2>1, <2>2 DEF vars, PlainTrace, PlainProcess, Decode, Leads
  <2>4. Deciding' <=> Deciding
    BY <2>1 DEF vars, Deciding
  <2>5. PlainProcess(processes[1])' <=> PlainProcess(processes[1])
    BY <2>1 DEF vars, PlainProcess
  <2> QED
    BY <2>1, <2>3, <2>4, <2>5, SameProgram DEF vars, PlainInv
<1> QED
  BY <1>1, <1>2, <1>3 DEF Next

\* An input that calls neither a function nor HHH is judged as it behaves: what
\* Halt7.c answers with 0 does not return when main calls it, because the
\* addresses of the trace in which Needs_To_Be_Aborted_HH finds a closed loop
\* are a set that the input cannot leave.
THEOREM PlainInputsAreJudgedRight == Spec => []OnlyCallersOfHHHMisjudged
<1>1. Spec => []PlainInv
  BY InvInit, InvStep, PlainStart, PlainStep, PTL DEF Spec
<1>2. IInv /\ PlainInv => OnlyCallersOfHHHMisjudged
  <2> SUFFICES ASSUME IInv, PlainInv, NoCalls, InputReturned, verdicts[2] = 0,
                      \A a \in Addr : code[a].op # "HHH"
               PROVE  FALSE
    BY DEF OnlyCallersOfHHHMisjudged
  <2>1. Plain /\ todo = << >>
    BY DEF Plain, InputReturned
  <2>2. Len(verdicts) = 2
    BY <2>1, ToDoDiffer DEF IInv, Phase, Deciding
  <2>3. 2 \in 1..Len(verdicts)
    BY <2>2
  <2> QED
    BY <2>1, <2>3 DEF PlainInv
<1> QED
  BY <1>1, <1>2, Invariant, PTL

-----------------------------------------------------------------------------
(***************************************************************************)
(* HHH answers the same question twice in the same way, for every program, *)
(* size of trace and depth of nesting, although its cells are static and   *)
(* the trace of the first decision is still in memory.                     *)
(*                                                                         *)
(* The argument: what the stack of processes, the activations of HHH and   *)
(* the trace become is a function of what they are (Move), and so is what  *)
(* HHH answers (Answer).  Both decisions start from the same machine       *)
(* (First), because the activation that returns unsets the cells.  So the  *)
(* machines of the second decision are, one after the other, those of the  *)
(* first: the invariant keeps the path of the first decision, and where    *)
(* the second one is on it.                                                *)
(***************************************************************************)

\* What HHH and the processes it simulates have in common: all that decides how
\* a decision goes on, besides the program.
Machine(ps, as, set, t) ==
  [processes |-> ps, activations |-> as, traceSet |-> set, trace |-> t]

Here == Machine(processes, activations, traceSet, trace)

\* The first machine of every decision main asks for.
First ==
  Machine(<<[Idle EXCEPT !.calling = P],
            [eip |-> P, stack |-> <<End_Of_Code>>, eax |-> 0, calling |-> 0]>>,
          <<[input |-> P, Root |-> TRUE, length |-> 0, pc |-> "simulate", EIP |-> P]>>,
          TRUE, << >>)

Top(x)       == x.activations[Len(x.activations)]
Running(x)   == x.processes[Len(x.processes)]
TopHalted(x) == Top(x).EIP = CodeEnd[Top(x).input]

\* The Root, which is the outermost activation, has something to look at.
MustLook(x) ==
  /\ x.traceSet
  /\ Len(x.trace) > x.activations[1].length
  /\ Len(x.activations) = 1 => Top(x).pc = "recorded" /\ ~TopHalted(x)

Aborts(t) ==
  \E n \in 1..(Len(t) - 1) :
    /\ \/ /\ t[Len(t)].Simplified_Opcode = "JMP"
          /\ t[Len(t)].Decode_Target <= t[Len(t)].Address
          /\ t[n].Address = t[Len(t)].Decode_Target
       \/ /\ t[Len(t)].Simplified_Opcode = "CALL"
          /\ t[n].Simplified_Opcode = "CALL"
          /\ t[n].Address = t[Len(t)].Address
          /\ t[n].Decode_Target = t[Len(t)].Decode_Target
    /\ \A k \in n..(Len(t) - 1) : t[k].Simplified_Opcode # "JCC"

\* main gets an answer, and which one.
Answers(x) ==
  IF MustLook(x) THEN Aborts(x.trace)
  ELSE Len(x.activations) = 1 /\ Top(x).pc = "recorded" /\ TopHalted(x)

Answer(x) == IF MustLook(x) THEN 0 ELSE 1

-----------------------------------------------------------------------------
(* What becomes of a machine that does not answer.                         *)

Examined(x) ==
  LET a == x.activations[1]
  IN  Machine(x.processes,
              [x.activations EXCEPT ![1] =
                 [input |-> a.input, Root |-> a.Root, length |-> Len(x.trace),
                  pc |-> "simulate", EIP |-> a.EIP]],
              x.traceSet, x.trace)

Called(x) ==
  LET input == Running(x).calling
  IN  Machine(Append(x.processes, [eip |-> input, stack |-> <<End_Of_Code>>, eax |-> 0,
                                   calling |-> 0]),
              Append(x.activations, [input |-> input, Root |-> ~x.traceSet, length |-> 0,
                                     pc |-> "simulate", EIP |-> input]),
              TRUE, IF x.traceSet THEN x.trace ELSE << >>)

Stepped(x) ==
  Machine([x.processes EXCEPT ![Len(x.processes)] = Executed(Running(x))],
          [x.activations EXCEPT ![Len(x.activations)] =
             [input |-> Top(x).input, Root |-> Top(x).Root, length |-> Top(x).length,
              pc |-> "executed", EIP |-> Running(x).eip]],
          x.traceSet, x.trace)

Pushed(x) ==
  Machine(x.processes, [x.activations EXCEPT ![Len(x.activations)].pc = "recorded"],
          x.traceSet, Append(x.trace, Decode(Top(x).EIP)))

\* The innermost activation, which is not main's, returns 1.
Returned1(x) ==
  LET d == Len(x.activations)
      p == x.processes[d]
  IN  Machine([SubSeq(x.processes, 1, d) EXCEPT ![d] =
                 [eip |-> p.eip, stack |-> p.stack, eax |-> 1, calling |-> 0]],
              SubSeq(x.activations, 1, d - 1), FALSE, x.trace)

Continued(x) ==
  Machine(x.processes, [x.activations EXCEPT ![Len(x.activations)].pc = "simulate"],
          x.traceSet, x.trace)

Move(x) ==
  CASE MustLook(x) -> Examined(x)
    [] ~MustLook(x) /\ Top(x).pc = "simulate" ->
         IF Running(x).calling # 0 THEN Called(x) ELSE Stepped(x)
    [] ~MustLook(x) /\ Top(x).pc = "executed" -> Pushed(x)
    [] ~MustLook(x) /\ Top(x).pc = "recorded" ->
         IF TopHalted(x) THEN Returned1(x) ELSE Continued(x)

\* An instruction is only executed when the Root has seen the trace.
Looked ==
  Depth > 1 /\ Inner.pc = "executed" /\ traceSet => Len(trace) <= activations[1].length

\* s is how the machine goes on from the first one, for n machines.
Path(s, n) ==
  /\ n \in Nat \ {0} /\ s[1] = First
  /\ \A i \in 1..(n - 1) : ~Answers(s[i]) /\ s[i + 1] = Move(s[i])

\* The first decision comes by a path; the second one follows the path the
\* first has come by, up to the same answer.
SamePath ==
  /\ Len(verdicts) = 0 /\ Depth > 0 => \E n, s : Path(s, n) /\ s[n] = Here
  /\ Len(verdicts) = 1 =>
       \E n, s : /\ Path(s, n) /\ Answers(s[n]) /\ verdicts[1] = Answer(s[n])
                 /\ Depth > 0 => \E i \in 1..n : s[i] = Here
  /\ AnswersAgree

-----------------------------------------------------------------------------
(* The steps of HHH are moves of the machine.                              *)

\* The parts of the machine are the variables.
LEMMA HereIs ==
  /\ Here.processes = processes /\ Here.activations = activations
  /\ Here.traceSet = traceSet /\ Here.trace = trace
  /\ Top(Here) = Inner /\ Running(Here) = processes[Innermost]
  /\ TopHalted(Here) <=> HasHalted
  /\ Aborts(Here.trace) <=> Needs_To_Be_Aborted_HH
<1>1. /\ Here.processes = processes /\ Here.activations = activations
      /\ Here.traceSet = traceSet /\ Here.trace = trace
  BY DEF Here, Machine
<1>2. Top(Here) = Inner /\ Running(Here) = processes[Innermost]
  BY <1>1 DEF Top, Running, Inner, Innermost, Depth
<1>3. TopHalted(Here) <=> HasHalted
  BY <1>2 DEF TopHalted, HasHalted
<1>4. Aborts(Here.trace) <=> Needs_To_Be_Aborted_HH
  BY <1>1 DEF Aborts, Needs_To_Be_Aborted_HH, ClosesLoop, RepeatsCall, NoConditionalBranch, Last
<1> QED
  BY <1>1, <1>2, <1>3, <1>4

\* The outermost activation is the Root, and no other.
LEMMA LookIs ==
  ASSUME IInv, Depth > 0
  PROVE  /\ RootMustLook <=> MustLook(Here)
         /\ activations[1].Root
<1>1. Depth \in Nat /\ 1 \in 1..Depth
  BY Shape
<1>2. \A k \in 1..Depth : activations[k].Root <=> k = 1
  BY DEF IInv, OnlyOutermostIsRoot
<1>3. /\ Len(Here.activations) = 1 <=> 1 = Depth
      /\ Here.activations = activations
  BY HereIs DEF Depth
<1> QED
  BY <1>1, <1>2, <1>3, HereIs DEF RootMustLook, MustLook

\* What Here is after a step that is known part by part.
LEMMA NextHere ==
  ASSUME NEW ps, NEW as, NEW set, NEW t,
         processes' = ps, activations' = as, traceSet' = set, trace' = t
  PROVE  Here' = Machine(ps, as, set, t)
BY DEF Here, Machine

\* A step of the innermost process is a move of the machine.
LEMMA DebugStepMoves ==
  ASSUME IInv, DebugStep
  PROVE  ~Answers(Here) /\ Here' = Move(Here) /\ Depth' > 0
<1> DEFINE p == processes[Innermost]
           a == [input |-> Inner.input, Root |-> Inner.Root, length |-> Inner.length,
                 pc |-> "executed", EIP |-> p.eip]
<1>1. /\ processes' = [processes EXCEPT ![Innermost] = Executed(p)]
      /\ activations' = [activations EXCEPT ![Depth].EIP = p.eip, ![Depth].pc = "executed"]
      /\ UNCHANGED <<traceSet, trace>> /\ ~RootMustLook
      /\ Depth > 0 /\ Inner.pc = "simulate" /\ p.calling = 0
  BY DEF DebugStep, AtInput
<1>2. activations' = [activations EXCEPT ![Depth] = a]
  BY <1>1, ExecutedActivation
<1>3. ~MustLook(Here) /\ Top(Here).pc = "simulate" /\ Running(Here).calling = 0
  BY <1>1, LookIs, HereIs
<1>4. Move(Here) = Stepped(Here) /\ ~Answers(Here)
  BY <1>3 DEF Move, Answers
<1>5. Stepped(Here) = Machine([processes EXCEPT ![Innermost] = Executed(p)],
                              [activations EXCEPT ![Depth] = a], traceSet, trace)
  BY HereIs DEF Stepped, Innermost, Depth
<1>6. Here' = Stepped(Here)
  <2> DEFINE ps == [processes EXCEPT ![Innermost] = Executed(p)]
             as == [activations EXCEPT ![Depth] = a]
  <2>1. processes' = ps /\ activations' = as /\ traceSet' = traceSet /\ trace' = trace
    BY <1>1, <1>2
  <2>2. Stepped(Here) = Machine(ps, as, traceSet, trace)
    BY <1>5
  <2> HIDE DEF ps, as
  <2> QED
    BY ONLY <2>1, <2>2 DEF Here, Machine
<1>7. Depth' = Depth
  <2>1. Depth \in DOMAIN activations /\ activations \in Seq(Activation)
    BY <1>1, Shape
  <2> HIDE DEF a
  <2> QED
    BY <1>2, <2>1 DEF Depth
<1> QED
  BY <1>1, <1>4, <1>6, <1>7

\* The activation that a call of HHH makes.
LEMMA CalledActivation ==
  ASSUME IInv, Init_Halts_HH
  PROVE  Depth' = Depth + 1 /\ Inner'.pc = "simulate"
<1> DEFINE input == processes[Innermost].calling
           a == [input |-> input, Root |-> ~traceSet, length |-> 0, pc |-> "simulate",
                 EIP |-> input]
<1>1. activations' = Append(activations, a) /\ input # 0
  BY DEF Init_Halts_HH
<1>2. /\ activations \in Seq(Activation) /\ Len(activations) = Depth /\ Depth \in Nat
      /\ processes[Innermost] \in Process
  BY Shape
<1>3. input \in Functions /\ input \in Addr
  BY <1>1, <1>2, Constants DEF Process
<1>4. a \in Activation /\ a.pc = "simulate"
  <2>1. 0 \in 0..TraceCapacity /\ (~traceSet) \in BOOLEAN
    BY Constants
  <2> HIDE DEF input
  <2> QED
    BY <1>3, <2>1 DEF Activation
<1> HIDE DEF a
<1>5. Len(activations') = Depth + 1 /\ activations'[Depth + 1] = a
  BY <1>1, <1>2, <1>4, AppendProperties
<1> QED
  BY <1>4, <1>5 DEF Depth, Inner

\* A call of HHH by a simulated process is a move.
LEMMA CallMoves ==
  ASSUME IInv, Init_Halts_HH, Depth > 0
  PROVE  ~Answers(Here) /\ Here' = Move(Here) /\ Depth' > 0
<1> DEFINE input == processes[Innermost].calling
           a == [input |-> input, Root |-> ~traceSet, length |-> 0, pc |-> "simulate",
                 EIP |-> input]
           q == [eip |-> input, stack |-> <<End_Of_Code>>, eax |-> 0, calling |-> 0]
<1>1. /\ activations' = Append(activations, a) /\ processes' = Append(processes, q)
      /\ traceSet' = TRUE
      /\ trace' = IF traceSet THEN trace ELSE << >>
      /\ input # 0 /\ Inner.pc = "simulate" /\ ~RootMustLook
  BY DEF Init_Halts_HH
<1>2. ~MustLook(Here) /\ Top(Here).pc = "simulate" /\ Running(Here).calling # 0
  BY <1>1, LookIs, HereIs
<1>3. Move(Here) = Called(Here) /\ ~Answers(Here)
  BY <1>2 DEF Move, Answers
<1>4. Called(Here) = Machine(Append(processes, q), Append(activations, a), TRUE,
                             IF traceSet THEN trace ELSE << >>)
  BY HereIs DEF Called
<1>5. Here' = Called(Here)
  BY <1>1, <1>4, NextHere
<1>6. Depth' > 0
  BY CalledActivation, Shape
<1> QED
  BY <1>3, <1>5, <1>6

\* Recording an instruction is a move.
LEMMA PushMoves ==
  ASSUME IInv, Looked, PushBack
  PROVE  \/ ~Answers(Here) /\ Here' = Move(Here) /\ Depth' > 0
         \/ Here' = Here /\ Depth' = Depth
<1>1. Depth > 0 /\ Inner.pc = "executed" /\ UNCHANGED <<processes, traceSet>>
  BY DEF PushBack
<1>2. CASE traceSet /\ Len(trace) < TraceCapacity
  <2>1. /\ trace' = Append(trace, Decode(Inner.EIP))
        /\ activations' = [activations EXCEPT ![Depth].pc = "recorded"]
    BY <1>2 DEF PushBack
  <2>2. Top(Here).pc = "executed"
    BY <1>1, HereIs
  <2>3. ~MustLook(Here) => Move(Here) = Pushed(Here) /\ ~Answers(Here)
    BY <2>2 DEF Move, Answers
  <2>4. Pushed(Here) = Machine(processes, [activations EXCEPT ![Depth].pc = "recorded"],
                               traceSet, Append(trace, Decode(Inner.EIP)))
    BY HereIs DEF Pushed, Depth
  <2>5. Here' = Pushed(Here)
    BY <1>1, <2>1, <2>4, NextHere
  <2>6. Depth' = Depth
    BY <2>1, Shape DEF Depth
  <2>7. ~MustLook(Here)
    <3>1. /\ Len(Here.activations) = Depth /\ Depth \in Nat
          /\ Len(trace) \in Nat /\ activations[1].length \in Nat
      <4>1. activations[1] \in Activation /\ TraceCapacity \in Nat
        BY <1>1, Shape, Constants
      <4> QED
        BY <4>1, Shape, HereIs DEF Activation
    <3> QED
      BY <1>1, <3>1, HereIs DEF Looked, MustLook
  <2> QED
    BY <1>1, <2>3, <2>5, <2>6, <2>7
<1>3. CASE ~ (traceSet /\ Len(trace) < TraceCapacity)
  <2>1. UNCHANGED <<trace, activations>>
    BY <1>3 DEF PushBack
  <2> QED
    BY <1>1, <2>1 DEF Here, Machine, Depth
<1> QED
  BY <1>2, <1>3

\* Going on after an instruction that was recorded is a move.
LEMMA ContinueMoves ==
  ASSUME IInv, Continue
  PROVE  ~Answers(Here) /\ Here' = Move(Here) /\ Depth' > 0
<1>1. /\ Depth > 0 /\ Inner.pc = "recorded" /\ ~HasHalted /\ ~RootMustLook
      /\ activations' = [activations EXCEPT ![Depth].pc = "simulate"]
      /\ UNCHANGED <<processes, traceSet, trace>>
  BY DEF Continue
<1>2. ~MustLook(Here) /\ Top(Here).pc = "recorded" /\ ~TopHalted(Here)
  BY <1>1, LookIs, HereIs
<1>3. Move(Here) = Continued(Here) /\ ~Answers(Here)
  BY <1>2 DEF Move, Answers
<1>4. Continued(Here) = Machine(processes, [activations EXCEPT ![Depth].pc = "simulate"],
                                traceSet, trace)
  BY HereIs DEF Continued, Depth
<1>5. Here' = Continued(Here)
  BY <1>1, <1>4, NextHere
<1>6. Depth' = Depth
  BY <1>1, Shape DEF Depth
<1> QED
  BY <1>1, <1>3, <1>5, <1>6

\* The outermost activation returns to main while main decides.
LEMMA MainIsTold ==
  ASSUME IInv, Deciding, Depth > 0, NEW v \in {0, 1}, Return(1, v)
  PROVE  Depth' = 0 /\ verdicts' = Append(verdicts, v)
<1>1. 1 \in 1..Depth /\ processes[1].eip = 0
  BY Shape DEF IInv, MainProcess
<1>2. Depth' = 1 - 1
  BY <1>1, Returned
<1> QED
  BY <1>1, <1>2 DEF Return, Report

\* An activation that sees its input halted moves, or answers 1.
LEMMA HaltedMoves ==
  ASSUME IInv, Deciding, InputHalted
  PROVE  \/ ~Answers(Here) /\ Here' = Move(Here) /\ Depth' > 0 /\ UNCHANGED verdicts
         \/ Answers(Here) /\ Depth' = 0 /\ verdicts' = Append(verdicts, Answer(Here))
<1>1. /\ Depth > 0 /\ Inner.pc = "recorded" /\ HasHalted /\ ~RootMustLook
      /\ Return(Depth, 1)
  BY DEF InputHalted
<1>2. ~MustLook(Here) /\ Top(Here).pc = "recorded" /\ TopHalted(Here)
  BY <1>1, LookIs, HereIs
<1>3. Depth \in Nat /\ Depth \in 1..Depth
  BY <1>1, Shape
<1>4. CASE Depth = 1
  <2>1. Answers(Here) /\ Answer(Here) = 1
    BY <1>2, <1>4, HereIs DEF Answers, Answer, Depth
  <2> QED
    BY <1>1, <1>4, <2>1, MainIsTold
<1>5. CASE Depth # 1
  <2> DEFINE d == Depth
             p == processes[d]
  <2>1. ~Answers(Here) /\ Move(Here) = Returned1(Here)
    BY <1>2, <1>5, HereIs DEF Answers, Move, Depth
  <2>2. /\ processes' = [SubSeq(processes, 1, d) EXCEPT ![d] =
                           [eip |-> p.eip, stack |-> p.stack, eax |-> 1, calling |-> 0]]
        /\ Depth' = d - 1
    BY <1>1, <1>3, Returned
  <2>3. /\ activations' = SubSeq(activations, 1, d - 1) /\ traceSet' = FALSE /\ trace' = trace
        /\ UNCHANGED verdicts
    BY <1>1, <1>5 DEF Return, Report
  <2>4. Returned1(Here) =
          Machine([SubSeq(processes, 1, d) EXCEPT ![d] =
                     [eip |-> p.eip, stack |-> p.stack, eax |-> 1, calling |-> 0]],
                  SubSeq(activations, 1, d - 1), FALSE, trace)
    BY HereIs DEF Returned1, Depth
  <2>5. Here' = Returned1(Here)
    BY <2>2, <2>3, <2>4, NextHere
  <2>6. Depth' > 0
    BY <1>3, <1>5, <2>2
  <2> QED
    BY <2>1, <2>3, <2>5, <2>6
<1> QED
  BY <1>4, <1>5

\* The Root that examines the trace moves, or answers 0.
LEMMA ExamineMoves ==
  ASSUME IInv, Deciding, RootExamines
  PROVE  \/ ~Answers(Here) /\ Here' = Move(Here) /\ Depth' > 0 /\ UNCHANGED verdicts
         \/ Answers(Here) /\ Depth' = 0 /\ verdicts' = Append(verdicts, Answer(Here))
<1>1. PICK k \in 1..Depth :
        /\ activations[k].Root
        /\ IF Needs_To_Be_Aborted_HH
           THEN Return(k, 0)
           ELSE /\ activations' = [activations EXCEPT ![k].length = Len(trace),
                                                      ![k].pc = "simulate"]
                /\ UNCHANGED <<code, processes, traceSet, trace, todo, verdicts, status, history>>
  BY DEF RootExamines
<1>2. k = 1 /\ Depth \in Nat /\ Depth > 0
  BY <1>1, RootIsFirst, Shape
<1>3. RootMustLook
  BY DEF RootExamines
<1>4. MustLook(Here)
  BY <1>2, <1>3, LookIs
<1>5. CASE Needs_To_Be_Aborted_HH
  <2>1. Answers(Here) /\ Answer(Here) = 0
    BY <1>4, <1>5, HereIs DEF Answers, Answer
  <2>2. Return(1, 0)
    BY <1>1, <1>2, <1>5
  <2> QED
    BY <1>2, <2>1, <2>2, MainIsTold
<1>6. CASE ~Needs_To_Be_Aborted_HH
  <2> DEFINE r == activations[1]
             a == [input |-> r.input, Root |-> r.Root, length |-> Len(trace),
                   pc |-> "simulate", EIP |-> r.EIP]
  <2>1. ~Answers(Here)
    BY <1>4, <1>6, HereIs DEF Answers
  <2>2. Move(Here) = Examined(Here)
    BY <1>4 DEF Move
  <2>3. /\ activations' = [activations EXCEPT ![1].length = Len(trace), ![1].pc = "simulate"]
        /\ UNCHANGED <<processes, traceSet, trace, verdicts>>
    BY <1>1, <1>2, <1>6
  <2>4. activations' = [activations EXCEPT ![1] = a]
    BY <1>2, <2>3, ExaminedActivation
  <2>5. Examined(Here) = Machine(processes, [activations EXCEPT ![1] = a], traceSet, trace)
    BY HereIs DEF Examined
  <2>6. Here' = Examined(Here)
    BY <2>3, <2>4, <2>5, NextHere
  <2>7. Depth' = Depth
    <3> HIDE DEF a
    <3> QED
      BY <2>4, Shape DEF Depth
  <2> QED
    BY <1>2, <2>1, <2>2, <2>3, <2>6, <2>7
<1> QED
  BY <1>5, <1>6

\* A stack of two processes.
LEMMA TwoProcesses ==
  ASSUME NEW m \in Process, NEW q \in Process
  PROVE  Append(<<m>>, q) = <<m, q>>
<1>1. /\ <<m>> \in Seq(Process) /\ Len(<<m>>) = 1 /\ <<m>>[1] = m
      /\ <<m, q>> \in Seq(Process) /\ Len(<<m, q>>) = 2
      /\ <<m, q>>[1] = m /\ <<m, q>>[2] = q
  OBVIOUS
<1>2. /\ Append(<<m>>, q) \in Seq(Process) /\ Len(Append(<<m>>, q)) = 2
      /\ Append(<<m>>, q)[1] = m /\ Append(<<m>>, q)[2] = q
  BY <1>1, AppendProperties
<1>3. \A i \in 1..2 : Append(<<m>>, q)[i] = <<m, q>>[i]
  BY <1>1, <1>2
<1> QED
  BY <1>1, <1>2, <1>3, SeqEqual

\* A decision begins with the first machine.
LEMMA DecisionBegins ==
  ASSUME IInv, Deciding, Init_Halts_HH, Depth = 0
  PROVE  Here' = First
<1> DEFINE q == [eip |-> P, stack |-> <<End_Of_Code>>, eax |-> 0, calling |-> 0]
           a == [input |-> P, Root |-> TRUE, length |-> 0, pc |-> "simulate", EIP |-> P]
           m == [Idle EXCEPT !.calling = P]
<1>0. m \in Process /\ q \in Process
  BY IdleFacts, Constants DEF Process, End_Of_Code
<1>1. Innermost = 1 /\ processes \in Seq(Process) /\ Len(processes) = 1
      /\ activations \in Seq(Activation) /\ Len(activations) = 0
  BY Shape
<1>2. ~traceSet /\ processes[1] = m
  <2>1. processes[1].calling # 0
    BY <1>1 DEF Init_Halts_HH
  <2> QED
    BY <2>1 DEF IInv, Cells, MainProcess
<1>3. processes[1].calling = P
  BY <1>2, IdleFacts
<1>4. /\ activations' = Append(activations, [input |-> P, Root |-> ~traceSet, length |-> 0,
                                             pc |-> "simulate", EIP |-> P])
      /\ processes' = Append(processes, q)
      /\ traceSet' = TRUE
      /\ trace' = << >>
  BY <1>1, <1>2, <1>3 DEF Init_Halts_HH
<1>5. (~traceSet) = TRUE
  BY <1>2
<1>6. activations' = Append(activations, a)
  BY <1>4, <1>5
<1> HIDE DEF a, q, m
<1>7. activations' = <<a>>
  <2>1. activations = << >>
    BY <1>1, EmptySeq
  <2> QED
    BY <1>6, <2>1
<1>8. processes' = <<m, q>>
  <2>1. processes = <<m>>
    BY <1>1, <1>2
  <2>2. Append(<<m>>, q) = <<m, q>>
    BY <1>0, TwoProcesses
  <2> QED
    BY <1>4, <2>1, <2>2
<1>9. First = Machine(<<m, q>>, <<a>>, TRUE, << >>)
  BY DEF First, a, q, m
<1> QED
  BY <1>4, <1>7, <1>8, <1>9, NextHere

-----------------------------------------------------------------------------
(* The second decision follows the first.                                  *)

\* At the beginning no instruction has been executed.
LEMMA LookedInit == Init => Looked
BY DEF Init, Looked, Depth

\* Every step keeps it that the Root has seen the trace.
LEMMA LookedStep == IInv /\ Looked /\ [Next]_vars => Looked'
<1> SUFFICES ASSUME IInv, Looked, [Next]_vars, Depth' > 1, Inner'.pc = "executed", traceSet'
             PROVE  Len(trace') <= activations'[1].length
  BY DEF Looked
<1>1. /\ Depth \in Nat /\ Len(activations) = Depth /\ activations \in Seq(Activation)
      /\ Len(trace) \in Nat
      /\ \A k \in 1..Depth : activations[k] \in Activation
      /\ Depth > 0 => Depth \in 1..Depth /\ Inner = activations[Depth]
  BY Shape DEF Inner
<1>2. CASE UNCHANGED <<activations, traceSet, trace>>
  BY <1>2 DEF Looked, Depth, Inner
<1>3. CASE Init_Halts_HH
  BY <1>3, CalledActivation
<1>4. CASE DebugStep
  <2> DEFINE a == [input |-> Inner.input, Root |-> Inner.Root, length |-> Inner.length,
                   pc |-> "executed", EIP |-> processes[Innermost].eip]
  <2>1. /\ activations' = [activations EXCEPT ![Depth].EIP = processes[Innermost].eip,
                                              ![Depth].pc = "executed"]
        /\ UNCHANGED <<traceSet, trace>> /\ ~RootMustLook /\ Depth > 0
    BY <1>4 DEF DebugStep
  <2>2. activations' = [activations EXCEPT ![Depth] = a]
    BY <2>1, ExecutedActivation
  <2> HIDE DEF a
  <2>3. Depth' = Depth
    BY <1>1, <2>2 DEF Depth
  <2>4. activations'[1] = activations[1] /\ 1 \in 1..Depth /\ 1 # Depth
    BY <1>1, <2>2, <2>3
  <2>5. activations[1].Root /\ activations[1] \in Activation
    BY <1>1, <2>1, <2>4, LookIs
  <2>6. ~(Len(trace) > activations[1].length)
    BY <2>1, <2>4, <2>5 DEF RootMustLook
  <2>7. activations[1].length \in Nat
    BY <2>5, Constants DEF Activation
  <2> QED
    BY <1>1, <2>1, <2>4, <2>6, <2>7
<1>5. CASE PushBack
  <2>1. CASE traceSet /\ Len(trace) < TraceCapacity
    <3>1. activations' = [activations EXCEPT ![Depth].pc = "recorded"] /\ Depth > 0
      BY <1>5, <2>1 DEF PushBack
    <3>2. Depth' = Depth /\ activations'[Depth].pc = "recorded"
      BY <1>1, <3>1 DEF Depth, Activation
    <3> QED
      BY <3>2 DEF Inner
  <2>2. CASE ~ (traceSet /\ Len(trace) < TraceCapacity)
    BY <1>2, <1>5, <2>2 DEF PushBack
  <2> QED
    BY <2>1, <2>2
<1>6. CASE InputHalted
  <2>1. Depth > 0 /\ Return(Depth, 1)
    BY <1>6 DEF InputHalted
  <2>2. traceSet' = FALSE
    BY <2>1 DEF Return
  <2> QED
    BY <2>2
<1>7. CASE Continue
  <2>1. activations' = [activations EXCEPT ![Depth].pc = "simulate"] /\ Depth > 0
    BY <1>7 DEF Continue
  <2>2. Depth' = Depth /\ activations'[Depth].pc = "simulate"
    BY <1>1, <2>1 DEF Depth, Activation
  <2> QED
    BY <2>2 DEF Inner
<1>8. CASE RootExamines
  <2>1. PICK k \in 1..Depth :
          /\ activations[k].Root
          /\ IF Needs_To_Be_Aborted_HH
             THEN Return(k, 0)
             ELSE /\ activations' = [activations EXCEPT ![k].length = Len(trace),
                                                        ![k].pc = "simulate"]
                  /\ UNCHANGED <<code, processes, traceSet, trace, todo, verdicts, status, history>>
    BY <1>8 DEF RootExamines
  <2>2. k = 1
    BY <2>1, RootIsFirst
  <2>3. ~Needs_To_Be_Aborted_HH
    <3>1. Return(k, 0) => traceSet' = FALSE
      BY DEF Return
    <3> QED
      BY <2>1, <3>1
  <2> DEFINE a == [input |-> activations[k].input, Root |-> activations[k].Root,
                   length |-> Len(trace), pc |-> "simulate", EIP |-> activations[k].EIP]
  <2>4. activations' = [activations EXCEPT ![k] = a] /\ trace' = trace
    BY <2>1, <2>3, ExaminedActivation
  <2>5. a.length = Len(trace)
    OBVIOUS
  <2> HIDE DEF a
  <2>6. activations'[1] = a
    BY <1>1, <2>1, <2>2, <2>4
  <2> QED
    BY <1>1, <2>4, <2>5, <2>6
<1>9. CASE AskHHH \/ CallInput \/ RunInput \/ InputReturns
  <2>1. UNCHANGED <<activations, traceSet, trace>>
    BY <1>9 DEF AskHHH, CallInput, RunInput, InputReturns
  <2> QED
    BY <1>2, <2>1
<1> QED
  BY <1>2, <1>3, <1>4, <1>5, <1>6, <1>7, <1>8, <1>9 DEF Next, HHH, vars

\* A step within a decision moves the machine or ends the decision with its
\* answer.
LEMMA OneMove ==
  ASSUME IInv, Looked, Deciding, Depth > 0, HHH
  PROVE  \/ ~Answers(Here) /\ Here' = Move(Here) /\ Depth' > 0 /\ UNCHANGED verdicts
         \/ Answers(Here) /\ Depth' = 0 /\ verdicts' = Append(verdicts, Answer(Here))
         \/ Here' = Here /\ Depth' = Depth /\ UNCHANGED verdicts
<1>1. CASE DebugStep
  BY <1>1, DebugStepMoves DEF DebugStep
<1>2. CASE Init_Halts_HH
  BY <1>2, CallMoves DEF Init_Halts_HH
<1>3. CASE PushBack
  BY <1>3, PushMoves DEF PushBack
<1>4. CASE Continue
  BY <1>4, ContinueMoves DEF Continue
<1>5. CASE InputHalted
  BY <1>5, HaltedMoves
<1>6. CASE RootExamines
  BY <1>6, ExamineMoves
<1> QED
  BY <1>1, <1>2, <1>3, <1>4, <1>5, <1>6 DEF HHH

\* HHH reports to main only what main has asked.
LEMMA NotAsked ==
  ASSUME IInv, ~Deciding, HHH
  PROVE  UNCHANGED verdicts
<1>1. ASSUME Depth > 0, NEW k \in 1..Depth, NEW v \in {0, 1}, Return(k, v)
      PROVE  UNCHANGED verdicts
  <2>1. processes[1].eip # 0
    BY <1>1, WhoAsks
  <2> QED
    BY <1>1, <2>1 DEF Return, Report
<1>2. CASE InputHalted
  <2>1. Depth > 0 /\ Return(Depth, 1) /\ Depth \in 1..Depth
    BY <1>2, Shape DEF InputHalted
  <2> QED
    BY <1>1, <2>1
<1>3. CASE RootExamines
  <2>1. PICK k \in 1..Depth :
          IF Needs_To_Be_Aborted_HH THEN Return(k, 0) ELSE UNCHANGED verdicts
    BY <1>3 DEF RootExamines
  <2>2. Depth > 0
    BY <2>1, Shape
  <2> QED
    BY <1>1, <2>1, <2>2
<1>4. CASE Init_Halts_HH \/ DebugStep \/ PushBack \/ Continue
  BY <1>4 DEF Init_Halts_HH, DebugStep, PushBack, Continue
<1> QED
  BY <1>2, <1>3, <1>4 DEF HHH

\* The program and where its functions end never change.
LEMMA ProgramStays ==
  ASSUME [Next]_vars
  PROVE  code' = code
<1>1. \A k, v : Return(k, v) => code' = code
  BY DEF Return
<1>2. InputHalted \/ RootExamines => code' = code
  BY <1>1 DEF InputHalted, RootExamines
<1> QED
  BY <1>2 DEF Next, HHH, Init_Halts_HH, DebugStep, PushBack, Continue, AskHHH, CallInput,
     RunInput, InputReturns, vars

\* Paths depend on nothing that changes.
LEMMA SamePaths ==
  ASSUME code' = code
  PROVE  \A s, n : Path(s, n)' <=> Path(s, n)
<1>1. \A p : Executed(p)' = Executed(p)
  BY DEF Executed
<1>2. \A a : Decode(a)' = Decode(a)
  BY DEF Decode
<1>3. \A x : Move(x)' = Move(x)
  BY <1>1, <1>2 DEF Move, Stepped, Pushed
<1> QED
  BY <1>3 DEF Path

\* A path goes on, or is entered.
LEMMA PathGrows ==
  ASSUME NEW s, NEW n, Path(s, n), ~Answers(s[n])
  PROVE  \E t : Path(t, n + 1) /\ t[n + 1] = Move(s[n])
<1> DEFINE t == [i \in 1..(n + 1) |-> IF i = n + 1 THEN Move(s[n]) ELSE s[i]]
<1>1. n \in Nat \ {0} /\ n + 1 \in Nat \ {0}
  BY DEF Path
<1>2. /\ t[n + 1] = Move(s[n])
      /\ \A i \in 1..n : t[i] = s[i]
  BY <1>1
<1> HIDE DEF t
<1>3. t[1] = First
  BY <1>1, <1>2 DEF Path
<1>4. ASSUME NEW i \in 1..((n + 1) - 1)
      PROVE  ~Answers(t[i]) /\ t[i + 1] = Move(t[i])
  <2>1. CASE i = n
    BY <1>1, <1>2, <2>1
  <2>2. CASE i # n
    <3>1. i \in 1..(n - 1) /\ i + 1 \in 1..n /\ i \in 1..n
      BY <1>1, <2>2
    <3> QED
      BY <1>2, <3>1 DEF Path
  <2> QED
    BY <2>1, <2>2
<1>5. Path(t, n + 1)
  BY <1>1, <1>3, <1>4 DEF Path
<1> QED
  BY <1>2, <1>5

\* The path of a decision that has just begun.
LEMMA FirstPath == \E s : Path(s, 1) /\ s[1] = First
<1> DEFINE s == [i \in {1} |-> First]
<1>1. s[1] = First
  OBVIOUS
<1> HIDE DEF s
<1>2. Path(s, 1)
  BY <1>1 DEF Path
<1> QED
  BY <1>1, <1>2

\* No decision has been made at the beginning.
LEMMA SamePathInit == Init => SamePath
<1> SUFFICES ASSUME Init
             PROVE  SamePath
  OBVIOUS
<1>1. Depth = 0 /\ Len(verdicts) = 0
  BY DEF Init, Depth
<1> QED
  BY <1>1 DEF SamePath, AnswersAgree

\* The second decision stays on the path of the first.
LEMMA SamePathStep ==
  IInv /\ IInv' /\ Looked /\ SamePath /\ [Next]_vars => SamePath'
<1> SUFFICES ASSUME IInv, IInv', Looked, SamePath, [Next]_vars
             PROVE  SamePath'
  OBVIOUS
<1>1. \A s, n : Path(s, n)' <=> Path(s, n)
  BY ProgramStays, SamePaths
<1>2. \A x : Answers(x)' <=> Answers(x)
  BY DEF Answers, MustLook, Aborts, Top, TopHalted
<1>3. \A x : Answer(x)' = Answer(x)
  BY DEF Answer, MustLook, Top, TopHalted
<1>4. SamePath' <=>
        /\ Len(verdicts') = 0 /\ Depth' > 0 => \E n, s : Path(s, n) /\ s[n] = Here'
        /\ Len(verdicts') = 1 =>
             \E n, s : /\ Path(s, n) /\ Answers(s[n]) /\ verdicts'[1] = Answer(s[n])
                       /\ Depth' > 0 => \E i \in 1..n : s[i] = Here'
        /\ AnswersAgree'
  BY <1>1, <1>2, <1>3 DEF SamePath
<1>5. verdicts \in Seq({0, 1}) /\ Depth \in Nat
  BY Shape DEF IInv, TypeOK
<1>6. ASSUME verdicts' = verdicts, Depth' = 0
      PROVE  SamePath'
  BY <1>4, <1>6 DEF SamePath, AnswersAgree
<1>7. ASSUME verdicts' = verdicts, Depth' = Depth, Here' = Here
      PROVE  SamePath'
  BY <1>4, <1>7 DEF SamePath, AnswersAgree
<1>8. ASSUME verdicts' = verdicts, ~Deciding
      PROVE  SamePath'
  <2>1. Len(verdicts') = 2
    BY <1>8 DEF IInv, Phase, Deciding
  <2> QED
    BY <1>4, <1>8, <2>1 DEF SamePath, AnswersAgree
<1>9. Deciding => Len(verdicts) \in {0, 1}
  <2>1. Deciding => todo \notin {<<"run">>, <<"return">>, << >>}
    BY ToDoDiffer
  <2> QED
    BY <2>1 DEF IInv, Phase
<1>10. CASE HHH /\ Deciding /\ Depth > 0
  <2>1. CASE ~Answers(Here) /\ Here' = Move(Here) /\ Depth' > 0 /\ UNCHANGED verdicts
    <3>1. CASE Len(verdicts) = 0
      <4>1. PICK n, s : Path(s, n) /\ s[n] = Here
        BY <1>10, <3>1 DEF SamePath
      <4>2. PICK t : Path(t, n + 1) /\ t[n + 1] = Here'
        BY <2>1, <4>1, PathGrows
      <4>3. \E m, u : Path(u, m) /\ u[m] = Here'
        BY <4>2
      <4> QED
        BY <1>4, <2>1, <3>1, <4>3 DEF AnswersAgree
    <3>2. CASE Len(verdicts) = 1
      <4>1. PICK n, s : /\ Path(s, n) /\ Answers(s[n]) /\ verdicts[1] = Answer(s[n])
                        /\ \E i \in 1..n : s[i] = Here
        BY <1>10, <3>2 DEF SamePath
      <4>2. PICK i \in 1..n : s[i] = Here
        BY <4>1
      <4>3. i # n /\ n \in Nat \ {0}
        BY <2>1, <4>1, <4>2 DEF Path
      <4>4. i \in 1..(n - 1) /\ i + 1 \in 1..n
        BY <4>3
      <4>5. s[i + 1] = Here'
        BY <2>1, <4>1, <4>2, <4>4 DEF Path
      <4>6. \E j \in 1..n : s[j] = Here'
        BY <4>4, <4>5
      <4> QED
        BY <1>4, <2>1, <3>2, <4>1, <4>6 DEF AnswersAgree
    <3> QED
      BY <1>9, <1>10, <3>1, <3>2
  <2>2. CASE Answers(Here) /\ Depth' = 0 /\ verdicts' = Append(verdicts, Answer(Here))
    <3>1. /\ Len(verdicts') = Len(verdicts) + 1
          /\ verdicts'[Len(verdicts) + 1] = Answer(Here)
          /\ \A j \in 1..Len(verdicts) : verdicts'[j] = verdicts[j]
      <4>1. Answer(Here) \in {0, 1}
        BY DEF Answer
      <4> QED
        BY <1>5, <2>2, <4>1, AppendProperties
    <3>2. CASE Len(verdicts) = 0
      <4>1. PICK n, s : Path(s, n) /\ s[n] = Here
        BY <1>10, <3>2 DEF SamePath
      <4>2. Len(verdicts') = 1 /\ verdicts'[1] = Answer(s[n]) /\ Answers(s[n])
        BY <2>2, <3>1, <3>2, <4>1
      <4> QED
        BY <1>4, <2>2, <4>1, <4>2 DEF AnswersAgree
    <3>3. CASE Len(verdicts) = 1
      <4>1. PICK n, s : /\ Path(s, n) /\ Answers(s[n]) /\ verdicts[1] = Answer(s[n])
                        /\ \E i \in 1..n : s[i] = Here
        BY <1>10, <3>3 DEF SamePath
      <4>2. PICK i \in 1..n : s[i] = Here
        BY <4>1
      <4>3. i = n
        <5>1. n \in Nat \ {0} /\ i \notin 1..(n - 1)
          BY <2>2, <4>1, <4>2 DEF Path
        <5> QED
          BY <5>1
      <4>4. Len(verdicts') = 2 /\ verdicts'[2] = verdicts[1] /\ verdicts'[1] = verdicts[1]
        BY <3>1, <3>3, <4>1, <4>2, <4>3
      <4> QED
        BY <1>4, <4>4 DEF AnswersAgree
    <3> QED
      BY <1>9, <1>10, <3>2, <3>3
  <2>3. CASE Here' = Here /\ Depth' = Depth /\ UNCHANGED verdicts
    BY <1>7, <2>3
  <2> QED
    BY <1>10, <2>1, <2>2, <2>3, OneMove
<1>11. CASE HHH /\ Deciding /\ ~(Depth > 0)
  <2>1. Depth = 0 /\ Init_Halts_HH
    <3>1. Depth = 0 /\ 1..Depth = {}
      BY <1>5, <1>11
    <3>2. ~RootExamines
      BY <3>1 DEF RootExamines
    <3>3. ~DebugStep /\ ~PushBack /\ ~InputHalted /\ ~Continue
      BY <1>11 DEF DebugStep, PushBack, InputHalted, Continue
    <3> QED
      BY <1>11, <3>1, <3>2, <3>3 DEF HHH
  <2>2. Here' = First /\ Depth' = 1 /\ verdicts' = verdicts
    BY <1>11, <2>1, DecisionBegins, CalledActivation DEF Init_Halts_HH
  <2>3. CASE Len(verdicts) = 0
    <3>1. \E n, s : Path(s, n) /\ s[n] = Here'
      BY <2>2, FirstPath
    <3> QED
      BY <1>4, <2>2, <2>3, <3>1 DEF AnswersAgree
  <2>4. CASE Len(verdicts) = 1
    <3>1. PICK n, s : Path(s, n) /\ Answers(s[n]) /\ verdicts[1] = Answer(s[n])
      BY <2>4 DEF SamePath
    <3>2. 1 \in 1..n /\ s[1] = Here'
      BY <2>2, <3>1 DEF Path
    <3> QED
      BY <1>4, <2>2, <2>4, <3>1, <3>2 DEF AnswersAgree
  <2> QED
    BY <1>9, <1>11, <2>3, <2>4
<1>12. CASE HHH /\ ~Deciding
  BY <1>8, <1>12, NotAsked
<1>13. CASE AskHHH \/ CallInput \/ RunInput \/ InputReturns
  <2>1. UNCHANGED <<activations, verdicts>> /\ Depth = 0
    BY <1>13 DEF AskHHH, CallInput, RunInput, InputReturns, MainIdle
  <2>2. Depth' = 0
    BY <2>1 DEF Depth
  <2> QED
    BY <1>6, <2>1, <2>2
<1>14. CASE UNCHANGED vars
  BY <1>7, <1>14 DEF vars, Here, Machine, Depth
<1> QED
  BY <1>10, <1>11, <1>12, <1>13, <1>14 DEF Next

\* HHH is a function of its input: although Init_Halts_HH decides by the static
\* cells who is the Root, and a trace of an earlier decision is still in memory,
\* main gets the same answer when it asks twice.
THEOREM SameQuestionSameAnswer == Spec => []AnswersAgree
<1>1. Init => IInv /\ Looked /\ SamePath
  BY InvInit, LookedInit, SamePathInit
<1>2. IInv /\ Looked /\ SamePath /\ [Next]_vars => (IInv /\ Looked /\ SamePath)'
  BY InvStep, LookedStep, SamePathStep
<1>3. SamePath => AnswersAgree
  BY DEF SamePath
<1> QED
  BY <1>1, <1>2, <1>3, PTL DEF Spec
=============================================================================
