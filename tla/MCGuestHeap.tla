----------------------------- MODULE MCGuestHeap -----------------------------
(***************************************************************************)
(* An object file of three words with two functions, and a heap in which a *)
(* structure, a stack and a trace just fit, or copies take their place.    *)
(***************************************************************************)
EXTENDS GuestHeap, TLC

MCImage   == 0 :> 5 @@ 1 :> 6 @@ 2 :> 7
MCCodeEnd == 0 :> 0 @@ 1 :> 2

Struct == [size |-> 2, use |-> "struct"]
Stack  == [size |-> 2, use |-> "stack"]
Trace  == [size |-> 5, use |-> "trace"]

AllRequests  == {Struct, Stack, Trace}
CodeRequests == {Struct}
=============================================================================
