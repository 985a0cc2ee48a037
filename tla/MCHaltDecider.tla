--------------------------- MODULE MCHaltDecider ---------------------------
(***************************************************************************)
(* Instances of HaltDecider: every program over a few instruction kinds    *)
(* that fits a handful of slots.                                           *)
(***************************************************************************)
EXTENDS HaltDecider

CONSTANTS
  FreeKinds,  \* kinds a free slot may hold
  Entries,    \* addresses of functions, where the direct calls lead
  Labels      \* addresses jumps lead to

Op(k)        == [op |-> k, target |-> 0]
To(k, a)     == [op |-> k, target |-> a]

OneArg  == <<P>>
TwoArgs == <<P, MaxWord>>
NoFrame == << >>
OneWord == <<MaxWord>>

\* Every instruction of a kind, with the targets it may have.
Instances(k, entries) ==
  CASE k = "CALL"     -> {To(k, a) : a \in entries}
    [] k \in {"JMP", "JCC", "JO"} -> {To(k, a) : a \in Labels}
    [] k = "PUSH"     -> {To(k, w) : w \in {P, MaxWord}}
    [] OTHER          -> {Op(k)}

AnyOf(kinds, entries) == UNION {Instances(k, entries) : k \in kinds}

\* The programs whose input ends with the "ret" at code_end, and whose last
\* slot does not run off the code.
MCPrograms ==
  {c \in [Addr -> AnyOf(FreeKinds \cup {"RET"}, Entries)] :
     /\ c[CodeSize].op \in {"RET", "JMP"}
     /\ \A a \in Addr \ {code_end, CodeSize} : c[a].op \in FreeKinds
     /\ WellFormed(c)}

\* The input in slots 1..5, a function in slots 6..7 and the decider, seen as
\* one "ret", in slot 8.
Layout(a, b, c, d, f) == <<a, b, c, d, Op("RET"), f, Op("RET"), Op("RET")>>

\* Loops with every way out of them.
LoopPrograms ==
  LET I == AnyOf({"JMP", "JCC", "JO", "JMPX", "OTHER", "RET"}, {})
  IN  {Layout(a, b, c, Op("OTHER"), Op("OTHER")) : a \in I, b \in I, c \in I}

\* Calls, callbacks and early returns.
CallPrograms ==
  LET I == AnyOf({"CALL", "CALLR", "CALLX", "JCC", "RET", "POP"}, {1, 6, 7})
  IN  {Layout(a, b, Op("OTHER"), Op("OTHER"), f) : a \in I, b \in I, f \in I}

\* Calls of the decider with pushed arguments; nothing else is a "ret".
SelfCallPrograms ==
  LET I == AnyOf({"PUSH", "CALL", "JCC"}, {8})
  IN  {<<a, b, c, d, Op("RET"), Op("OTHER"), To("JMP", 5), Op("RET")>> :
         a \in I, b \in I, c \in I, d \in I}

FamilyPrograms == LoopPrograms \cup CallPrograms \cup SelfCallPrograms
=============================================================================
