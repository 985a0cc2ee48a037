-------------------------- MODULE MCVirtualMachine --------------------------
(***************************************************************************)
(* Three processes of five instructions: main and process 1 enter a slave  *)
(* and step it, with two free slots; process 2 has one instruction of each *)
(* kind it may have.                                                       *)
(***************************************************************************)
EXTENDS VirtualMachine

I(o)    == [op |-> o, target |-> 0]
J(a)    == [op |-> "JMP", target |-> a]

Free == {I("STEP"), I("VMI"), I("INC"), I("HLT"), I("SAVE"), I("ENTER")}
Leaf == {I("VMI"), I("INC"), I("HLT")}

Mains  == {<<I("SAVE"), I("ENTER"), x, y, z>> : x \in {I("STEP")}, y \in Free, z \in {J(3), I("INC")}}
Firsts == {<<I("SAVE"), I("ENTER"), x, y, J(t)>> : x \in Free, y \in Free, t \in {1, 3, 4}}
Leaves == {<<w, x, y, I("INC"), J(t)>> : w \in Leaf, x \in Leaf, y \in {I("INC"), J(1)}, t \in {1, 4}}

MCPrograms ==
  {c \in {[k \in 0..2 |-> CASE k = 0 -> m [] k = 1 -> f [] k = 2 -> l] :
            m \in Mains, f \in Firsts, l \in Leaves} : WellFormed(c)}
=============================================================================
