------------------------- MODULE MCNestedSimulation -------------------------
(***************************************************************************)
(* Two functions: P in slots 1..4, Q in slots 5..6.  Every program whose   *)
(* functions end in their only "ret" and whose jumps stay in their         *)
(* function.                                                               *)
(***************************************************************************)
EXTENDS NestedSimulation, TLC

CONSTANT Kinds  \* kinds a slot other than a "ret" may hold

FunctionOf(a) == IF a <= 4 THEN 1..4 ELSE 5..6

Ends == 1 :> 4 @@ 5 :> 6

\* The instructions slot a may hold.
Choices(a) ==
  IF a \in {4, 6} THEN {[op |-> "RET", target |-> 0]}
  ELSE {[op |-> k, target |-> t] : k \in Kinds \cap {"JMP", "JZ"}, t \in FunctionOf(a)}
       \cup {[op |-> k, target |-> t] : k \in Kinds \cap {"CALL", "HHH"}, t \in {1, 5}}
       \cup {[op |-> k, target |-> 0] : k \in Kinds \cap {"OTHER"}}

MCPrograms ==
  {<<a, b, c, [op |-> "RET", target |-> 0], d, [op |-> "RET", target |-> 0]>> :
     a \in Choices(1), b \in Choices(2), c \in Choices(3), d \in Choices(5)}
=============================================================================
