------------------------------ MODULE MCMemory ------------------------------
(***************************************************************************)
(* Instances of EmuMemory and CoffLoader for TLC.  A behaviour either      *)
(* makes up to MaxCalls calls of the memory, or loads one of the files.    *)
(***************************************************************************)
EXTENDS CoffLoader

CONSTANTS e1, e2, screen, MaxCalls, MaxPortCalls

VARIABLE calls          \* calls made so far

MCMem    == {e1, e2}
MCBuffer == {screen}
MCDevice == [p \in 0 .. Ports - 1 |-> p + 1]
MCPerms  == {{"R", "W", "X"}, {"R"}, {"W"}}
\* Within a page, over the border between two, round the end; and their ends.
MCCalls      == {<<0, 4>>, <<1, 2>>, <<2, 4>>, <<Size - 1, 2>>}
MCPortCalls  == {<<0, 4>>, <<2, 2>>, <<Ports - 1, 2>>, <<1, 1>>}
MCRanges     == {<<0, Size - 1>>, <<2, 9>>, <<PageSize + 3, Size - 1>>, <<0, 1>>}
MCPortRanges == {<<0, Ports - 1>>, <<1, Ports + 3>>, <<2, 2>>}
MCValues     == {<<1, 2, 3, 4>>}
MCHosts      == {[l \in Buffer |-> [i \in Index |-> i + 2]]}

(***************************************************************************)
(* Object files.  A header of one byte, the code of main and of Halts from *)
(* address 1 on, each an opcode, a field and a ret, with padding in        *)
(* between, and the two variables of the heap.                             *)
(***************************************************************************)
Reloc(o, s, t) == [offset |-> o, symbol |-> s, type |-> t]
Sym(name, value, sect, fn) ==
  [name |-> name, value |-> value, section |-> sect, function |-> fn, external |-> FALSE]
Extern == [Sym("printf", 0, 0, FALSE) EXCEPT !.external = TRUE]
Aux    == Sym("aux", 0, 0, FALSE)

Symbols ==
  <<Sym(".text", 0, 1, FALSE), Aux, Sym(".data", 0, 2, FALSE), Sym("main", 0, 1, TRUE),
    Sym("Halts", 7, 1, TRUE), Sym("Heap_PTR", 0, 2, FALSE), Sym("Heap_END", 4, 2, FALSE)>>

Bytes(add1, add2) ==
  <<6, 1>> \o add1 \o <<RET, INT_3, 2>> \o add2 \o <<RET, 0, 0, 0, 0, 0, 0, 0, 0>>

File(relocs, add1, add2, starts, symbols) ==
  [i386 |-> TRUE, symbols |-> symbols, bytes |-> Bytes(add1, add2), starts |-> starts,
   sections |-> <<[offset |-> 1, size |-> 13, relocs |-> relocs],
                  [offset |-> 14, size |-> 8, relocs |-> <<>>]>>]

Zero   == <<0, 0, 0, 0>>
Usual  == {1, 6, 7, 8, 13}
MCFiles ==
  {File(<<Reloc(1, 5, t1), Reloc(8, s2, t2)>>, a1, a2, Usual, Symbols) :
          t1 \in {"REL32", "ADDR32"}, t2 \in {"REL32", "ADDR32", "SECREL"}, s2 \in {4, 6, 7},
          a1 \in {Zero, <<3, 0, 0, 0>>}, a2 \in {Zero, <<0, 1, 0, 0>>}}
  \cup {File(<<>>, <<RET, 0, 0, 0>>, Zero, {1, 2, 3, 6, 7, 8, 13}, Symbols),
        File(<<>>, Zero, Zero, {1, 8, 13}, Symbols),
        File(<<>>, Zero, Zero, Usual, Append(Symbols, Extern)),
        File(<<>>, Zero, Zero, Usual, SubSeq(Symbols, 1, 4)),
        File(<<>>, Zero, Zero, Usual, SubSeq(Symbols, 1, 5)),
        [File(<<>>, Zero, Zero, Usual, Symbols) EXCEPT !.i386 = FALSE]}

MCInit ==
  /\ calls = 0
  /\ \/ LoaderInit
     \/ /\ Init /\ file = None /\ linux = TRUE /\ stage \in {"memory", "ports"}
        /\ code = <<>> /\ functions = <<>> /\ done = 0 /\ function_address = 0 /\ esp = 0

Create == \E m \in Mem : \E perm \in Perms : New(m, perm)

Called(A, max) == calls < max /\ calls' = calls + 1 /\ A /\ UNCHANGED loader

MCNext ==
  \/ stage = "memory" /\ Called(Create \/ Accesses \/ Management, MaxCalls)
  \/ stage = "ports" /\ Called(Create \/ PortAccesses, MaxPortCalls)
  \/ LoaderNext /\ UNCHANGED calls

\* What has been called and returned does not matter for what comes.
MCView == <<alive, page, flags, cell, invalid, io, loader, calls>>

MCSpec == MCInit /\ [][MCNext]_<<vars, loader, calls>>
=============================================================================
