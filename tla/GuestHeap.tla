------------------------------ MODULE GuestHeap ------------------------------
(***************************************************************************)
(* The heap of the virtual machine: Allocate, StackPush, PushBack,         *)
(* Copy_Code and Identical_Code of x86utm.cpp on the emulated memory.      *)
(*                                                                         *)
(* Memory is counted in words of 4 bytes; addresses and sizes are unsigned *)
(* words, computed modulo Modulus.  The object file lies below HeapBase.   *)
(* A block is preceded by two words, its capacity and what is used of it.  *)
(* The guest uses a block in one way: as a structure or as the stack of a  *)
(* slave, where it stores what it likes, or as an execution trace, which it*)
(* only extends by PushBack.                                               *)
(***************************************************************************)
EXTENDS Integers, Sequences

CONSTANTS
  Modulus,   \* 2^32 in the code
  HeapBase,  \* BytesRead
  Heap_END,  \* HeapBase + HEAP_SIZE
  EntrySize, \* sizeof(Decoded_Line_Of_Code)
  Requests,  \* the blocks guests ask for
  Data,      \* words guests store
  Image,     \* the object file
  code_end   \* the end of every function of the object file

Header == 2

Address == 0..(Modulus - 1)
Word    == 0..(Modulus - 1)
Function == DOMAIN code_end

CodeSize(f) == code_end[f] - f + 1

Use == {"struct", "stack", "trace", "code"}

Block == [addr : Address, size : Word, use : Use]

\* The heap begins where the object file ends, and is 16 MB of the 4 GB that a
\* word can address.
ASSUME SizeAssumption ==
  /\ Modulus \in Nat
  /\ HeapBase \in Nat
  /\ Heap_END \in Nat
  /\ HeapBase <= Heap_END
  /\ Heap_END + Header < Modulus
  /\ EntrySize \in Nat \ {0}

\* No request is so large that its end is past the last address: Halt7.c asks
\* for 240,000 bytes at most.
ASSUME RequestAssumption ==
  /\ Requests \subseteq [size : Word, use : {"struct", "stack", "trace"}]
  /\ \A r \in Requests : Heap_END + r.size + Header < Modulus
  /\ Data \subseteq Word

\* Functions lie in the object file.
ASSUME CodeAssumption ==
  /\ Image \in [0..(HeapBase - 1) -> Word]
  /\ Function \subseteq 0..(HeapBase - 1)
  /\ \A f \in Function : /\ code_end[f] \in f..(HeapBase - 1)
                         /\ Heap_END + CodeSize(f) + Header < Modulus

\* What emu_init fills the heap with (NOP_OPCODE in every byte).
CONSTANT FILL_VALUE
ASSUME FillAssumption == FILL_VALUE \in Word

VARIABLES
  memory,   \* the emulated memory
  Heap_PTR, \* the guest's variable: the first word not allocated
  EAX,      \* what the last call has returned
  status,   \* "running", or why a call has ended the program
  blocks,   \* history variable: the blocks handed out
  pushed,   \* history variable: what was pushed onto each trace
  copies    \* history variable: the function each copy was made of

vars == <<memory, Heap_PTR, EAX, status, blocks, pushed, copies>>

Init ==
  /\ memory = [a \in Address |-> IF a < HeapBase THEN Image[a] ELSE FILL_VALUE]
  /\ Heap_PTR = HeapBase
  /\ EAX = 0
  /\ status = "running"
  /\ blocks = {}
  /\ pushed = << >>
  /\ copies = << >>

\* The two words before a block.
Capacity(b) == memory[b - 2]
Size(b)     == memory[b - 1]

-----------------------------------------------------------------------------
(* Allocate.                                                               *)

\* Mutant of Fits: the header is forgotten.
FitsWithoutHeader(size) == (Heap_PTR + size) % Modulus <= Heap_END

\* Mutant of Fits: the end of the heap is not looked at.
FitsAlways(size) == TRUE

Fits(size) == (Heap_PTR + size + Header) % Modulus <= Heap_END

\* The address the next block will have.
NextBlock == Heap_PTR + Header

\* Heap_PTR after the next block.
NextFree(size) == (Heap_PTR + size + Header) % Modulus

\* Memory after the header of the next block has been written.
WithHeader(size) == [memory EXCEPT ![Heap_PTR] = size, ![Heap_PTR + 1] = 0]

Hand_out(size, use) ==
  /\ Heap_PTR' = NextFree(size)
  /\ blocks' = blocks \cup {[addr |-> NextBlock, size |-> size, use |-> use]}
  /\ EAX' = NextBlock

Allocate(size, use) ==
  /\ status = "running"
  /\ IF Fits(size)
     THEN /\ memory' = WithHeader(size)
          /\ Hand_out(size, use)
          /\ pushed' = IF use = "trace"
                       THEN [a \in DOMAIN pushed \cup {NextBlock} |->
                              IF a = NextBlock THEN << >> ELSE pushed[a]]
                       ELSE pushed
     ELSE EAX' = 0 /\ UNCHANGED <<memory, Heap_PTR, blocks, pushed>>
  /\ UNCHANGED <<status, copies>>

-----------------------------------------------------------------------------
(* Stacks and traces.                                                      *)

Exit(why) ==
  /\ status' = why
  /\ UNCHANGED <<memory, Heap_PTR, EAX, blocks, pushed, copies>>

\* Mutant of StackPush: one word too high.
StackPushAbove(b, w) ==
  /\ status = "running"
  /\ IF Size(b) <= Capacity(b) - 1
     THEN LET Top_of_Stack == b + (Capacity(b) - Size(b))
          IN  /\ memory' = [memory EXCEPT ![Top_of_Stack] = w, ![b - 1] = @ + 1]
              /\ EAX' = Top_of_Stack
              /\ UNCHANGED <<Heap_PTR, status, blocks, pushed, copies>>
     ELSE Exit("out of memory")

\* A word is pushed onto the stack of a slave, which grows downwards.
StackPush(b, w) ==
  /\ status = "running"
  /\ IF Size(b) <= Capacity(b) - 1
     THEN LET Top_of_Stack == b + (Capacity(b) - Size(b)) - 1
          IN  /\ memory' = [memory EXCEPT ![Top_of_Stack] = w, ![b - 1] = @ + 1]
              /\ EAX' = Top_of_Stack
              /\ UNCHANGED <<Heap_PTR, status, blocks, pushed, copies>>
     ELSE Exit("out of memory")

\* Mutant of HasRoom: room for one word is taken for room for the entry.
HasRoomForWord(b, n) == Size(b) < Capacity(b)

\* Size <= Capacity - size_in_bytes, in signed arithmetic.
HasRoom(b, n) == Size(b) <= Capacity(b) - n

\* The structure at d is appended to the trace at b.
PushBack(b, d) ==
  /\ status = "running"
  /\ IF HasRoom(b, EntrySize)
     THEN /\ memory' = [a \in Address |->
               IF a \in (b + Size(b))..(b + Size(b) + EntrySize - 1)
               THEN memory[d + (a - b - Size(b))]
               ELSE IF a = b - 1 THEN Size(b) + EntrySize
               ELSE memory[a]]
          /\ pushed' = [pushed EXCEPT ![b] = @ \o [k \in 1..EntrySize |-> memory[d + k - 1]]]
          /\ UNCHANGED <<Heap_PTR, EAX, status, blocks, copies>>
     ELSE Exit("out of memory")

\* The guest stores into a structure, or a slave into its stack.
Store(a, w) ==
  /\ status = "running"
  /\ memory' = [memory EXCEPT ![a] = w]
  /\ UNCHANGED <<Heap_PTR, EAX, status, blocks, pushed, copies>>

-----------------------------------------------------------------------------
(* Copies of functions.                                                    *)

\* Mutant of Copied: the last word is not copied.
CopiedShort(m, f, d, n) ==
  [a \in Address |->
     IF a = (d - 1) % Modulus THEN n
     ELSE IF a \in d..(d + n - 2) THEN m[f + (a - d)]
     ELSE m[a]]

\* Memory m after n words from f on have been copied to d and their number
\* written before them.
Copied(m, f, d, n) ==
  [a \in Address |->
     IF a = (d - 1) % Modulus THEN n
     ELSE IF a \in d..(d + n - 1) THEN m[f + (a - d)]
     ELSE m[a]]

\* Copy_Code does not look at whether Allocate has failed and then copies to
\* address 0, over the object file.
CopyFunction(f) ==
  /\ LET n == CodeSize(f)
     IN  IF Fits(n)
         THEN /\ memory' = Copied(WithHeader(n), f, NextBlock, n)
              /\ Hand_out(n, "code")
              /\ copies' = [a \in DOMAIN copies \cup {NextBlock} |->
                             IF a = NextBlock THEN f ELSE copies[a]]
         ELSE /\ memory' = Copied(memory, f, 0, n)
              /\ EAX' = 0
              /\ UNCHANGED <<Heap_PTR, blocks, copies>>
  /\ UNCHANGED <<status, pushed>>

\* Reader.get_code_end knows the functions of the object file; for any other
\* address it ends the program.
Copy_Code(source) ==
  /\ status = "running"
  /\ IF source \in Function THEN CopyFunction(source) ELSE Exit("not found")

\* The virtual machine instruction get_code_end.
get_code_end(address) ==
  /\ status = "running"
  /\ IF address \in Function
     THEN /\ EAX' = code_end[address]
          /\ UNCHANGED <<memory, Heap_PTR, status, blocks, pushed, copies>>
     ELSE Exit("not found")

Identical_Code(source, destination) ==
  /\ status = "running"
  /\ IF {source, destination} \subseteq Function
     THEN /\ EAX' = IF /\ CodeSize(source) = CodeSize(destination)
                       /\ \A n \in 0..(CodeSize(source) - 1) :
                            memory[source + n] = memory[destination + n]
                    THEN 1 ELSE 0
          /\ UNCHANGED <<memory, Heap_PTR, status, blocks, pushed, copies>>
     ELSE Exit("not found")

Next ==
  \/ \E r \in Requests : Allocate(r.size, r.use)
  \/ \E b \in blocks, w \in Data :
       \/ b.use = "stack" /\ StackPush(b.addr, w)
       \/ b.use \in {"struct", "stack"} /\ \E n \in 0..(b.size - 1) : Store(b.addr + n, w)
  \/ \E b, d \in blocks :
       b.use = "trace" /\ d.use = "struct" /\ d.size = EntrySize /\ PushBack(b.addr, d.addr)
  \/ \E f \in Function \cup DOMAIN copies : Copy_Code(f) \/ get_code_end(f)
  \/ \E f, g \in Function \cup DOMAIN copies : Identical_Code(f, g)

Spec == Init /\ [][Next]_vars

-----------------------------------------------------------------------------
(* Properties.                                                             *)

TypeOK ==
  /\ memory \in [Address -> Word]
  /\ Heap_PTR \in Address
  /\ EAX \in Word
  /\ status \in {"running", "out of memory", "not found"}
  /\ blocks \subseteq Block

\* Blocks and their headers lie between the object file and Heap_PTR, and no
\* two of them overlap.
BlocksDisjoint ==
  /\ Heap_PTR <= Heap_END
  /\ \A b \in blocks : HeapBase <= b.addr - Header /\ b.addr + b.size <= Heap_PTR
  /\ \A b, c \in blocks :
       b = c \/ b.addr + b.size <= c.addr - Header \/ c.addr + c.size <= b.addr - Header

\* Whatever is pushed and stored anywhere, the header of every block goes on
\* telling its capacity, and no more is used of it than that.
HeadersIntact ==
  \A b \in blocks : Capacity(b.addr) = b.size /\ Size(b.addr) <= b.size

\* A trace holds what was pushed onto it, in this order, and nothing else.
TracesIntact ==
  \A b \in DOMAIN pushed :
    /\ Size(b) = Len(pushed[b])
    /\ \A k \in 1..Len(pushed[b]) : memory[b + k - 1] = pushed[b][k]

\* As long as a copy of every function would fit, the object file in memory is
\* as it was read, and every copy equals its function.
CodeIntact ==
  (\A f \in Function : Fits(CodeSize(f))) =>
    /\ \A a \in 0..(HeapBase - 1) : memory[a] = Image[a]
    /\ \A d \in DOMAIN copies :
         /\ Size(d) = CodeSize(copies[d])
         /\ \A n \in 0..(CodeSize(copies[d]) - 1) : memory[d + n] = Image[copies[d] + n]

\* get_code_end works with dynamic memory: asking for the end of a copy, or
\* comparing or copying one, does not end the program.
DynamicCodeFound == status # "not found"
=============================================================================
