--------------------------- MODULE GuestHeapProofs ---------------------------
(***************************************************************************)
(* Proofs about GuestHeap: whatever guests allocate, push, store and copy, *)
(* blocks never overlap, their headers stay true, traces keep what was     *)
(* pushed onto them, and copied code stays what it was.                    *)
(***************************************************************************)
EXTENDS GuestHeap, SequenceTheorems, TLAPS

\* Arithmetic modulo Modulus on numbers that need none, and just below zero.
LEMMA Modulo ==
  /\ \A x \in Address : x % Modulus = x
  /\ Modulus > 0 => (0 - 1) % Modulus = Modulus - 1
BY SizeAssumption DEF Address

\* The pushed traces are the trace blocks.
PushedAreBlocks ==
  \A a \in DOMAIN pushed :
    /\ pushed[a] \in Seq(Word)
    /\ \E b \in blocks : b.use = "trace" /\ b.addr = a

TracesArePushed == \A b \in blocks : b.use = "trace" => b.addr \in DOMAIN pushed

\* The inductive invariant.
IInv ==
  /\ TypeOK
  /\ HeapBase <= Heap_PTR
  /\ BlocksDisjoint
  /\ HeadersIntact
  /\ PushedAreBlocks
  /\ TracesArePushed
  /\ TracesIntact

\* A block that memory m and what has been pushed agree about.
Sound(b, m, p) ==
  /\ m[b.addr - 2] = b.size
  /\ m[b.addr - 1] <= b.size
  /\ b.use = "trace" => /\ m[b.addr - 1] = Len(p[b.addr])
                        /\ \A k \in 1..Len(p[b.addr]) : m[b.addr + k - 1] = p[b.addr][k]

\* Under the invariant every block is sound, and it is if every block is.
LEMMA SoundBlocks ==
  /\ IInv => \A b \in blocks : Sound(b, memory, pushed)
  /\ PushedAreBlocks /\ (\A b \in blocks : Sound(b, memory, pushed))
       => HeadersIntact /\ TracesIntact
BY DEF IInv, Sound, HeadersIntact, TracesIntact, TracesArePushed, PushedAreBlocks, Capacity, Size

\* The same of the next state.
LEMMA SoundBlocksNext ==
  PushedAreBlocks' /\ (\A b \in blocks' : Sound(b, memory', pushed'))
    => HeadersIntact' /\ TracesIntact'
BY DEF Sound, HeadersIntact, TracesIntact, PushedAreBlocks, Capacity, Size

\* What the invariant says of the types.
LEMMA InvTypes ==
  ASSUME IInv
  PROVE  /\ memory \in [Address -> Word]
         /\ Heap_PTR \in Address /\ Heap_PTR \in Nat /\ Heap_PTR \in Int /\ HeapBase <= Heap_PTR
         /\ Heap_PTR <= Heap_END
         /\ EAX \in Word
         /\ status \in {"running", "out of memory", "not found"}
         /\ 0 \in Word /\ Address \subseteq Nat /\ Word \subseteq Nat
<1>1. TypeOK /\ HeapBase <= Heap_PTR /\ Heap_PTR <= Heap_END
  BY DEF IInv, BlocksDisjoint
<1>2. Modulus \in Nat /\ HeapBase \in Nat /\ Heap_END \in Nat /\ Heap_END < Modulus
  BY SizeAssumption DEF Header
<1>3. HeapBase <= Heap_END
  BY SizeAssumption
<1>4. 0 \in Word /\ Address \subseteq Nat /\ Word \subseteq Nat
  BY <1>2, <1>3 DEF Address, Word
<1>5. Heap_PTR \in Nat /\ Heap_PTR \in Int
  <2>1. Heap_PTR \in Address
    BY <1>1 DEF TypeOK
  <2> QED
    BY <1>2, <2>1 DEF Address
<1> QED
  BY <1>1, <1>4, <1>5 DEF TypeOK

\* Where a block lies.
LEMMA BlockBounds ==
  ASSUME IInv, NEW b \in blocks
  PROVE  /\ b.addr \in Int /\ b.size \in Nat /\ b.use \in Use
         /\ HeapBase <= b.addr - 2 /\ b.addr + b.size <= Heap_PTR
         /\ Heap_PTR <= Heap_END /\ Heap_END < Modulus
         /\ \A a \in (b.addr - 2)..(b.addr + b.size - 1) : a \in Address
<1>1. b \in Block
  BY DEF IInv, TypeOK
<1>2. b.addr \in Nat /\ b.size \in Nat /\ b.use \in Use
  BY <1>1, SizeAssumption DEF Block, Address, Word
<1>3. HeapBase <= b.addr - 2 /\ b.addr + b.size <= Heap_PTR /\ Heap_PTR <= Heap_END
  BY DEF IInv, BlocksDisjoint, Header
<1>4. Heap_END < Modulus /\ Heap_PTR \in Nat /\ Modulus \in Nat /\ HeapBase \in Nat /\ Heap_END \in Nat
  <2>1. Heap_END < Modulus /\ Modulus \in Nat /\ HeapBase \in Nat /\ Heap_END \in Nat
    BY SizeAssumption DEF Header
  <2>2. Heap_PTR \in Address
    BY DEF IInv, TypeOK
  <2> QED
    BY <2>1, <2>2 DEF Address
<1>5. \A a \in (b.addr - 2)..(b.addr + b.size - 1) : a \in Address
  BY <1>2, <1>3, <1>4 DEF Address
<1> QED
  BY <1>2, <1>3, <1>4, <1>5

\* A block stays sound when nothing is written to it or its header.
LEMMA Frame ==
  ASSUME IInv, NEW b \in blocks, NEW m, NEW p,
         \A a \in (b.addr - 2)..(b.addr + b.size - 1) : m[a] = memory[a],
         b.use = "trace" => p[b.addr] = pushed[b.addr]
  PROVE  Sound(b, m, p)
<1>1. Sound(b, memory, pushed)
  BY SoundBlocks
<1>2. b.addr \in Int /\ b.size \in Nat
  BY BlockBounds
<1>3. m[b.addr - 2] = memory[b.addr - 2] /\ m[b.addr - 1] = memory[b.addr - 1]
  BY <1>2
<1>4. ASSUME b.use = "trace", NEW k \in 1..Len(pushed[b.addr])
      PROVE  m[b.addr + k - 1] = memory[b.addr + k - 1]
  <2>1. Len(pushed[b.addr]) <= b.size
    BY <1>1, <1>4 DEF Sound
  <2>2. Len(pushed[b.addr]) \in Nat
    BY <1>4 DEF IInv, TracesArePushed, PushedAreBlocks
  <2> QED
    BY <1>2, <2>1, <2>2, SMTT(30)
<1> QED
  BY <1>1, <1>3, <1>4 DEF Sound

\* A write to one block, or to its header, leaves every other one sound.
LEMMA OthersSound ==
  ASSUME IInv, NEW w \in blocks, NEW m, NEW p,
         \A a \in Address : a \notin (w.addr - 2)..(w.addr + w.size - 1) => m[a] = memory[a],
         \A c \in blocks : c # w /\ c.use = "trace" => p[c.addr] = pushed[c.addr]
  PROVE  \A c \in blocks : c # w => Sound(c, m, p)
<1> SUFFICES ASSUME NEW c \in blocks, c # w
             PROVE  Sound(c, m, p)
  OBVIOUS
<1>1. w.addr + w.size <= c.addr - 2 \/ c.addr + c.size <= w.addr - 2
  BY DEF IInv, BlocksDisjoint, Header
<1>2. /\ w.addr \in Int /\ w.size \in Nat
      /\ c.addr \in Int /\ c.size \in Nat
      /\ \A a \in (c.addr - 2)..(c.addr + c.size - 1) : a \in Address
  BY BlockBounds
<1>3. \A a \in (c.addr - 2)..(c.addr + c.size - 1) : m[a] = memory[a]
  BY <1>1, <1>2
<1> QED
  BY <1>3, Frame

\* What Allocate and Copy_Code do to the heap: the new block lies above all
\* the others.
LEMMA HandOutStep ==
  ASSUME IInv, NEW size \in Word, NEW use \in Use,
         Heap_END + size + Header < Modulus,
         Fits(size), Hand_out(size, use)
  PROVE  /\ Heap_PTR' = Heap_PTR + size + 2
         /\ Heap_PTR' \in Address
         /\ HeapBase <= Heap_PTR'
         /\ Heap_PTR + 1 \in Address
         /\ NextBlock = Heap_PTR + 2 /\ NextBlock \in Address
         /\ EAX' \in Word
         /\ blocks' = blocks \cup {[addr |-> NextBlock, size |-> size, use |-> use]}
         /\ blocks' \subseteq Block
         /\ BlocksDisjoint'
<1>1. /\ Modulus \in Nat /\ HeapBase \in Nat /\ Heap_END \in Nat
      /\ Heap_END + size + 2 < Modulus
  BY SizeAssumption DEF Header
<1>2. Heap_PTR \in Nat /\ size \in Nat /\ HeapBase <= Heap_PTR /\ Heap_PTR <= Heap_END
  <2>1. Heap_PTR \in Address /\ Heap_PTR <= Heap_END /\ HeapBase <= Heap_PTR
    BY DEF IInv, TypeOK, BlocksDisjoint
  <2> QED
    BY <1>1, <2>1 DEF Address, Word
<1>3. Heap_PTR + size + 2 \in Address
  BY <1>1, <1>2 DEF Address
<1>4. (Heap_PTR + size + Header) % Modulus = Heap_PTR + size + 2
  BY <1>3, Modulo DEF Header
<1>5. /\ Heap_PTR' = Heap_PTR + size + 2
      /\ Heap_PTR + size + 2 <= Heap_END
      /\ NextBlock = Heap_PTR + 2
      /\ EAX' = NextBlock
      /\ blocks' = blocks \cup {[addr |-> NextBlock, size |-> size, use |-> use]}
  BY <1>4 DEF Fits, Hand_out, NextFree, NextBlock, Header
<1>6. Heap_PTR + 1 \in Address /\ NextBlock \in Address /\ NextBlock \in Word
  BY <1>1, <1>2, <1>5 DEF Address, Word
<1>7. blocks' \subseteq Block
  <2>1. [addr |-> NextBlock, size |-> size, use |-> use] \in Block
    BY <1>6 DEF Block
  <2>2. blocks \subseteq Block
    BY DEF IInv, TypeOK
  <2> QED
    BY <1>5, <2>1, <2>2
<1>8. BlocksDisjoint'
  <2> DEFINE n == [addr |-> NextBlock, size |-> size, use |-> use]
  <2>1. n.addr = Heap_PTR + 2 /\ n.size = size
    BY <1>5
  <2> HIDE DEF n
  <2>2. \A b \in blocks : /\ b.addr \in Int /\ b.size \in Nat
                          /\ HeapBase <= b.addr - 2 /\ b.addr + b.size <= Heap_PTR
    BY BlockBounds
  <2>3. \A b \in blocks' : HeapBase <= b.addr - 2 /\ b.addr + b.size <= Heap_PTR'
    BY <1>1, <1>2, <1>5, <2>1, <2>2 DEF n
  <2>4. ASSUME NEW b \in blocks', NEW c \in blocks'
        PROVE  b = c \/ b.addr + b.size <= c.addr - 2 \/ c.addr + c.size <= b.addr - 2
    <3>1. CASE b \in blocks /\ c \in blocks
      BY <3>1 DEF IInv, BlocksDisjoint, Header
    <3>2. CASE b = n /\ c = n
      BY <3>2
    <3>3. CASE b \in blocks /\ c = n
      BY <1>2, <2>1, <2>2, <3>3
    <3>4. CASE c \in blocks /\ b = n
      BY <1>2, <2>1, <2>2, <3>4
    <3> QED
      BY <1>5, <3>1, <3>2, <3>3, <3>4 DEF n
  <2>5. Heap_PTR' <= Heap_END
    BY <1>5
  <2> QED
    BY <2>3, <2>4, <2>5 DEF BlocksDisjoint, Header
<1>9. HeapBase <= Heap_PTR'
  BY <1>1, <1>2, <1>5
<1> QED
  BY <1>3, <1>5, <1>6, <1>7, <1>8, <1>9

\* The invariant holds of the empty heap.
LEMMA InvInit == Init => IInv
<1> SUFFICES ASSUME Init
             PROVE  IInv
  OBVIOUS
<1> USE DEF Init
<1>1. \A a \in 0..(HeapBase - 1) : Image[a] \in Word
  BY CodeAssumption
<1>2. TypeOK
  <2>1. Modulus \in Nat /\ HeapBase \in Nat /\ HeapBase < Modulus
    BY SizeAssumption DEF Header
  <2>2. \A a \in Address : (IF a < HeapBase THEN Image[a] ELSE FILL_VALUE) \in Word
    BY <1>1, <2>1, FillAssumption DEF Address
  <2>3. memory \in [Address -> Word]
    BY <2>2
  <2>4. Heap_PTR \in Address /\ EAX \in Word
    BY <2>1 DEF Address, Word
  <2> QED
    BY <2>3, <2>4 DEF TypeOK
<1>3. BlocksDisjoint /\ HeapBase <= Heap_PTR
  BY SizeAssumption DEF BlocksDisjoint
<1>4. HeadersIntact /\ TracesArePushed
  BY DEF HeadersIntact, TracesArePushed
<1>5. DOMAIN pushed = {}
  OBVIOUS
<1>6. PushedAreBlocks /\ TracesIntact
  BY <1>5 DEF PushedAreBlocks, TracesIntact
<1> QED
  BY <1>2, <1>3, <1>4, <1>6 DEF IInv

\* A call that leaves the heap alone.
LEMMA HeapUnchanged ==
  ASSUME IInv, UNCHANGED <<memory, Heap_PTR, blocks, pushed>>,
         EAX' \in Word, status' \in {"running", "out of memory", "not found"}
  PROVE  IInv'
BY DEF IInv, TypeOK, BlocksDisjoint, HeadersIntact, PushedAreBlocks, TracesArePushed,
       TracesIntact, Capacity, Size

\* A call that ends the program.
LEMMA ExitStep ==
  ASSUME IInv, NEW why \in {"out of memory", "not found"}, Exit(why)
  PROVE  IInv'
BY HeapUnchanged DEF Exit, IInv, TypeOK

\* A write to one block that leaves it sound.
LEMMA WriteStep ==
  ASSUME IInv, NEW w \in blocks,
         memory' \in [Address -> Word], EAX' \in Word,
         UNCHANGED <<Heap_PTR, status, blocks>>,
         \A a \in Address : a \notin (w.addr - 2)..(w.addr + w.size - 1) => memory'[a] = memory[a],
         \A c \in blocks : c # w /\ c.use = "trace" => pushed'[c.addr] = pushed[c.addr],
         PushedAreBlocks', DOMAIN pushed' = DOMAIN pushed,
         Sound(w, memory', pushed')
  PROVE  IInv'
<1>1. \A c \in blocks' : Sound(c, memory', pushed')
  BY OthersSound
<1>2. HeadersIntact' /\ TracesIntact'
  BY <1>1, SoundBlocksNext
<1>3. TypeOK' /\ (HeapBase <= Heap_PTR)' /\ BlocksDisjoint' /\ TracesArePushed'
  BY DEF IInv, TypeOK, BlocksDisjoint, TracesArePushed
<1> QED
  BY <1>2, <1>3 DEF IInv

\* Store keeps the invariant.
LEMMA StoreStep ==
  ASSUME IInv, NEW b \in blocks, NEW v \in Data, b.use \in {"struct", "stack"},
         NEW n \in 0..(b.size - 1), Store(b.addr + n, v)
  PROVE  IInv'
<1>1. /\ b.addr \in Int /\ b.size \in Nat
      /\ \A a \in (b.addr - 2)..(b.addr + b.size - 1) : a \in Address
  BY BlockBounds
<1>2. memory \in [Address -> Word] /\ v \in Word /\ EAX \in Word
  BY RequestAssumption DEF IInv, TypeOK
<1>3. b.addr + n \in Address /\ b.addr - 2 \in Address /\ b.addr - 1 \in Address
  BY <1>1
<1>4. memory' = [memory EXCEPT ![b.addr + n] = v] /\ UNCHANGED <<Heap_PTR, EAX, status, blocks, pushed>>
  BY DEF Store
<1>5. memory' \in [Address -> Word]
  BY <1>2, <1>3, <1>4
<1>6. memory'[b.addr - 2] = memory[b.addr - 2] /\ memory'[b.addr - 1] = memory[b.addr - 1]
  BY <1>1, <1>2, <1>3, <1>4
<1>7. Sound(b, memory', pushed')
  <2>1. Sound(b, memory, pushed)
    BY SoundBlocks
  <2> QED
    BY <1>6, <2>1 DEF Sound
<1>8. \A a \in Address : a \notin (b.addr - 2)..(b.addr + b.size - 1) => memory'[a] = memory[a]
  BY <1>1, <1>2, <1>4
<1>9. PushedAreBlocks'
  BY <1>4 DEF IInv, PushedAreBlocks
<1> QED
  BY <1>2, <1>4, <1>5, <1>7, <1>8, <1>9, WriteStep

\* StackPush keeps the invariant: its word goes into the stack it is given.
LEMMA StackPushStep ==
  ASSUME IInv, NEW b \in blocks, NEW v \in Data, b.use = "stack", StackPush(b.addr, v)
  PROVE  IInv'
<1>1. /\ b.addr \in Int /\ b.size \in Nat /\ Heap_PTR <= Heap_END /\ Heap_END < Modulus
      /\ b.addr + b.size <= Heap_PTR
      /\ \A a \in (b.addr - 2)..(b.addr + b.size - 1) : a \in Address
  BY BlockBounds
<1>2. memory \in [Address -> Word] /\ v \in Word
  BY RequestAssumption DEF IInv, TypeOK
<1>3. b.addr - 2 \in Address /\ b.addr - 1 \in Address
  BY <1>1
<1>4. Capacity(b.addr) = b.size /\ Size(b.addr) <= b.size /\ Size(b.addr) \in Nat
  <2>1. memory[b.addr - 1] \in Word
    BY <1>2, <1>3
  <2>2. Size(b.addr) \in Nat
    BY <2>1, SizeAssumption DEF Size, Word
  <2> QED
    BY <2>2 DEF IInv, HeadersIntact
<1>5. CASE Size(b.addr) <= Capacity(b.addr) - 1
  <2> DEFINE top == b.addr + (b.size - Size(b.addr)) - 1
  <2>1. /\ memory' = [memory EXCEPT ![top] = v, ![b.addr - 1] = @ + 1]
        /\ EAX' = top
        /\ UNCHANGED <<Heap_PTR, status, blocks, pushed>>
    BY <1>4, <1>5 DEF StackPush
  <2>2. top \in b.addr..(b.addr + b.size - 1) /\ top \in Address
    BY <1>1, <1>4, <1>5
  <2>3. Size(b.addr) + 1 \in Word /\ top \in Word
    BY <1>1, <1>3, <1>4, <1>5, <2>2, SizeAssumption DEF Address, Word
  <2> HIDE DEF top
  <2>4. /\ memory'[b.addr - 2] = b.size
        /\ memory'[b.addr - 1] = Size(b.addr) + 1
    BY <1>1, <1>2, <1>3, <1>4, <2>1, <2>2 DEF Capacity, Size
  <2>5. memory' \in [Address -> Word]
    BY <1>2, <2>1, <2>3 DEF Size
  <2>6. Sound(b, memory', pushed')
    BY <1>1, <1>4, <1>5, <2>4 DEF Sound
  <2>7. \A a \in Address : a \notin (b.addr - 2)..(b.addr + b.size - 1) => memory'[a] = memory[a]
    BY <1>1, <1>2, <2>1, <2>2
  <2>8. PushedAreBlocks'
    BY <2>1 DEF IInv, PushedAreBlocks
  <2> QED
    BY <2>1, <2>3, <2>5, <2>6, <2>7, <2>8, WriteStep
<1>6. CASE ~ (Size(b.addr) <= Capacity(b.addr) - 1)
  BY <1>6, ExitStep DEF StackPush
<1> QED
  BY <1>5, <1>6

\* PushBack keeps the invariant: the entry goes behind what the trace holds.
LEMMA PushBackStep ==
  ASSUME IInv, NEW b \in blocks, NEW d \in blocks, b.use = "trace",
         d.use = "struct", d.size = EntrySize, PushBack(b.addr, d.addr)
  PROVE  IInv'
<1>1. /\ b.addr \in Int /\ b.size \in Nat /\ Heap_PTR <= Heap_END /\ Heap_END < Modulus
      /\ b.addr + b.size <= Heap_PTR
      /\ \A a \in (b.addr - 2)..(b.addr + b.size - 1) : a \in Address
  BY BlockBounds
<1>2. memory \in [Address -> Word]
  BY DEF IInv, TypeOK
<1>3. b.addr - 2 \in Address /\ b.addr - 1 \in Address
  BY <1>1
<1>4. Capacity(b.addr) = b.size /\ Size(b.addr) <= b.size /\ Size(b.addr) \in Nat
  <2>1. memory[b.addr - 1] \in Word
    BY <1>2, <1>3
  <2>2. Size(b.addr) \in Nat
    BY <2>1, SizeAssumption DEF Size, Word
  <2> QED
    BY <2>2 DEF IInv, HeadersIntact
<1>5. EntrySize \in Nat \ {0}
  BY SizeAssumption
<1>6. \A k \in 0..(EntrySize - 1) : memory[d.addr + k] \in Word
  <2>1. /\ d.addr \in Int
        /\ \A a \in (d.addr - 2)..(d.addr + d.size - 1) : a \in Address
    BY BlockBounds
  <2>2. \A k \in 0..(EntrySize - 1) : d.addr + k \in Address
    BY <1>5, <2>1
  <2> QED
    BY <1>2, <2>2
<1>7. CASE HasRoom(b.addr, EntrySize)
  <2> DEFINE s     == Size(b.addr)
             entry == [k \in 1..EntrySize |-> memory[d.addr + k - 1]]
  <2>1. /\ memory' = [a \in Address |->
               IF a \in (b.addr + s)..(b.addr + s + EntrySize - 1)
               THEN memory[d.addr + (a - b.addr - s)]
               ELSE IF a = b.addr - 1 THEN s + EntrySize
               ELSE memory[a]]
        /\ pushed' = [pushed EXCEPT ![b.addr] = @ \o entry]
        /\ UNCHANGED <<Heap_PTR, EAX, status, blocks>>
    BY <1>7 DEF PushBack
  <2>16. \A a \in Address :
           memory'[a] = IF a \in (b.addr + s)..(b.addr + s + EntrySize - 1)
                        THEN memory[d.addr + (a - b.addr - s)]
                        ELSE IF a = b.addr - 1 THEN s + EntrySize
                        ELSE memory[a]
    BY <2>1
  <2>2. s \in Nat /\ s + EntrySize <= b.size
    BY <1>1, <1>4, <1>5, <1>7 DEF HasRoom
  <2>3. s + EntrySize \in Word
    BY <1>1, <1>3, <1>5, <2>2, SizeAssumption DEF Address, Word
  <2>4. \A k \in 1..EntrySize : entry[k] \in Word
    <3> SUFFICES ASSUME NEW k \in 1..EntrySize
                 PROVE  memory[d.addr + k - 1] \in Word
      OBVIOUS
    <3>1. k - 1 \in 0..(EntrySize - 1)
      BY <1>5
    <3>2. memory[d.addr + (k - 1)] \in Word
      BY <1>6, <3>1
    <3>3. d.addr \in Int
      BY BlockBounds
    <3>4. d.addr + (k - 1) = d.addr + k - 1
      BY <3>1, <3>3
    <3> QED
      BY <3>2, <3>4
  <2>5. entry \in Seq(Word) /\ Len(entry) = EntrySize
    BY <1>5, <2>4
  <2>6. b.addr \in DOMAIN pushed /\ pushed[b.addr] \in Seq(Word) /\ Len(pushed[b.addr]) = s
    BY DEF IInv, TracesArePushed, PushedAreBlocks, TracesIntact
  <2> HIDE DEF s, entry
  <2>7. /\ pushed'[b.addr] = pushed[b.addr] \o entry
        /\ DOMAIN pushed' = DOMAIN pushed
        /\ \A a \in DOMAIN pushed : a # b.addr => pushed'[a] = pushed[a]
    BY <2>1, <2>6
  <2>8. pushed'[b.addr] \in Seq(Word) /\ Len(pushed'[b.addr]) = s + EntrySize
    <3> DEFINE old == pushed[b.addr]
    <3>1. old \in Seq(Word) /\ entry \in Seq(Word) /\ Len(old) = s /\ Len(entry) = EntrySize
      BY <2>5, <2>6
    <3> HIDE DEF old
    <3>2. old \o entry \in Seq(Word) /\ Len(old \o entry) = Len(old) + Len(entry)
      BY <3>1, ConcatProperties
    <3>3. pushed'[b.addr] = old \o entry
      BY <2>7 DEF old
    <3> QED
      BY <3>1, <3>2, <3>3
  <2>9. PushedAreBlocks'
    BY <2>1, <2>7, <2>8 DEF IInv, PushedAreBlocks
  <2>10. memory' \in [Address -> Word]
    <3> SUFFICES ASSUME NEW a \in Address,
                        a \in (b.addr + s)..(b.addr + s + EntrySize - 1)
                 PROVE  memory[d.addr + (a - b.addr - s)] \in Word
      BY <1>2, <2>1, <2>3
    <3>1. a - b.addr - s \in 0..(EntrySize - 1)
      BY <1>1, <1>5, <2>2
    <3> QED
      BY <1>6, <3>1
  <2>11. /\ memory'[b.addr - 2] = b.size
         /\ memory'[b.addr - 1] = s + EntrySize
    BY <1>1, <1>3, <1>4, <1>5, <2>1, <2>2, SMTT(30) DEF Capacity
  <2>12. ASSUME NEW k \in 1..(s + EntrySize)
         PROVE  memory'[b.addr + k - 1] = pushed'[b.addr][k]
    <3>1. b.addr + k - 1 \in Address /\ b.addr + k - 1 # b.addr - 1
      BY <1>1, <1>5, <2>2
    <3>2. CASE k <= s
      <4>1. memory'[b.addr + k - 1] = memory[b.addr + k - 1]
        BY <1>1, <1>5, <2>1, <2>2, <3>1, <3>2
      <4>2. memory[b.addr + k - 1] = pushed[b.addr][k]
        BY <2>2, <2>6, <3>2 DEF IInv, TracesIntact
      <4>3. pushed'[b.addr][k] = pushed[b.addr][k]
        BY <2>2, <2>5, <2>6, <2>7, <3>2
      <4> QED
        BY <4>1, <4>2, <4>3
    <3>3. CASE k > s
      <4>1. k - s \in 1..EntrySize
        BY <1>5, <2>2, <3>3
      <4>2. pushed'[b.addr][k] = entry[k - s]
        <5> DEFINE old == pushed[b.addr]
        <5>1. old \in Seq(Word) /\ entry \in Seq(Word) /\ Len(old) = s /\ Len(entry) = EntrySize
          BY <2>5, <2>6
        <5> HIDE DEF old
        <5>2. \A i \in 1..(Len(old) + Len(entry)) :
                (old \o entry)[i] = IF i <= Len(old) THEN old[i] ELSE entry[i - Len(old)]
          BY <5>1, ConcatProperties, SMTT(30)
        <5>3. (old \o entry)[k] = entry[k - s]
          BY <1>5, <2>2, <3>3, <5>1, <5>2
        <5> QED
          BY <2>7, <5>3 DEF old
      <4>3. entry[k - s] = memory[d.addr + (k - s) - 1]
        BY <4>1 DEF entry
      <4>4. memory'[b.addr + k - 1] = memory[d.addr + ((b.addr + k - 1) - b.addr - s)]
        <5>1. b.addr + k - 1 \in (b.addr + s)..(b.addr + s + EntrySize - 1)
          BY <1>1, <1>5, <2>2, <3>3
        <5> QED
          BY <2>16, <3>1, <5>1
      <4>5. d.addr \in Int
        BY BlockBounds
      <4>6. d.addr + ((b.addr + k - 1) - b.addr - s) = d.addr + (k - s) - 1
        BY <1>1, <2>2, <4>5
      <4> QED
        BY <4>2, <4>3, <4>4, <4>6
    <3> QED
      BY <2>2, <3>2, <3>3
  <2>13. Sound(b, memory', pushed')
    BY <2>2, <2>8, <2>11, <2>12 DEF Sound
  <2>14. \A a \in Address : a \notin (b.addr - 2)..(b.addr + b.size - 1) => memory'[a] = memory[a]
    <3> SUFFICES ASSUME NEW a \in Address, a \notin (b.addr - 2)..(b.addr + b.size - 1)
                 PROVE  memory'[a] = memory[a]
      OBVIOUS
    <3>1. a # b.addr - 1 /\ a \notin (b.addr + s)..(b.addr + s + EntrySize - 1)
      <4>1. \A x : x \in (b.addr + s)..(b.addr + s + EntrySize - 1)
                    => x \in (b.addr - 2)..(b.addr + b.size - 1)
        BY <1>1, <1>5, <2>2
      <4>2. b.addr - 1 \in (b.addr - 2)..(b.addr + b.size - 1)
        BY <1>1
      <4> QED
        BY <4>1, <4>2
    <3> QED
      BY <2>16, <3>1
  <2>15. \A c \in blocks : c # b /\ c.use = "trace" => pushed'[c.addr] = pushed[c.addr]
    <3> SUFFICES ASSUME NEW c \in blocks, c # b, c.use = "trace"
                 PROVE  pushed'[c.addr] = pushed[c.addr]
      OBVIOUS
    <3>1. c.addr \in DOMAIN pushed
      BY DEF IInv, TracesArePushed
    <3>2. c.addr # b.addr
      <4>1. c.addr \in Int /\ c.size \in Nat
        BY BlockBounds
      <4>2. c.addr + c.size <= b.addr - 2 \/ b.addr + b.size <= c.addr - 2
        BY DEF IInv, BlocksDisjoint, Header
      <4> QED
        BY <1>1, <4>1, <4>2
    <3> QED
      BY <2>7, <3>1, <3>2
  <2>17. EAX \in Word
    BY DEF IInv, TypeOK
  <2> QED
    BY <2>1, <2>7, <2>9, <2>10, <2>13, <2>14, <2>15, <2>17, WriteStep
<1>8. CASE ~ HasRoom(b.addr, EntrySize)
  BY <1>8, ExitStep DEF PushBack
<1> QED
  BY <1>7, <1>8
\* A new block that is sound and leaves what lies below Heap_PTR alone.
LEMMA NewBlockStep ==
  ASSUME IInv, NEW size \in Word, NEW use \in Use,
         Heap_END + size + Header < Modulus,
         Fits(size), Hand_out(size, use),
         memory' \in [Address -> Word], status' = status,
         \A a \in Address : a < Heap_PTR => memory'[a] = memory[a],
         \A a \in DOMAIN pushed : pushed'[a] = pushed[a],
         PushedAreBlocks', TracesArePushed',
         Sound([addr |-> NextBlock, size |-> size, use |-> use], memory', pushed')
  PROVE  IInv'
<1>1. /\ Heap_PTR' \in Address /\ EAX' \in Word
      /\ HeapBase <= Heap_PTR'
      /\ blocks' = blocks \cup {[addr |-> NextBlock, size |-> size, use |-> use]}
      /\ blocks' \subseteq Block
      /\ BlocksDisjoint'
  BY HandOutStep
<1>2. ASSUME NEW b \in blocks
      PROVE  Sound(b, memory', pushed')
  <2>1. /\ b.addr \in Int /\ b.size \in Nat /\ b.addr + b.size <= Heap_PTR
        /\ \A a \in (b.addr - 2)..(b.addr + b.size - 1) : a \in Address
    BY BlockBounds
  <2>2. Heap_PTR \in Int
    BY InvTypes
  <2>3. \A a \in (b.addr - 2)..(b.addr + b.size - 1) : memory'[a] = memory[a]
    BY <2>1, <2>2
  <2>4. b.use = "trace" => pushed'[b.addr] = pushed[b.addr]
    BY DEF IInv, TracesArePushed
  <2> QED
    BY <2>3, <2>4, Frame
<1>3. \A b \in blocks' : Sound(b, memory', pushed')
  BY <1>1, <1>2
<1>4. HeadersIntact' /\ TracesIntact'
  BY <1>3, SoundBlocksNext
<1>5. TypeOK'
  BY <1>1 DEF IInv, TypeOK
<1> QED
  BY <1>1, <1>4, <1>5 DEF IInv

\* Memory with the header of the next block written.
LEMMA HeaderWritten ==
  ASSUME IInv, NEW size \in Word, Heap_PTR \in Address, Heap_PTR + 1 \in Address
  PROVE  /\ WithHeader(size) \in [Address -> Word]
         /\ WithHeader(size)[Heap_PTR] = size
         /\ WithHeader(size)[Heap_PTR + 1] = 0
         /\ \A a \in Address : a < Heap_PTR => WithHeader(size)[a] = memory[a]
<1>1. memory \in [Address -> Word] /\ Heap_PTR \in Int /\ 0 \in Word
  BY InvTypes
<1> QED
  BY <1>1, SizeAssumption DEF WithHeader, Address

\* Allocate keeps the invariant.
LEMMA AllocateStep ==
  ASSUME IInv, NEW r \in Requests, Allocate(r.size, r.use)
  PROVE  IInv'
<1>1. /\ r.size \in Word /\ r.use \in {"struct", "stack", "trace"}
      /\ Heap_END + r.size + Header < Modulus
  BY RequestAssumption
<1>2. CASE Fits(r.size)
  <2> DEFINE size == r.size
             use  == r.use
             n    == [addr |-> NextBlock, size |-> size, use |-> use]
  <2>1. size \in Word /\ use \in Use /\ Heap_END + size + Header < Modulus
    BY <1>1 DEF Use
  <2>2. /\ memory' = WithHeader(size) /\ Hand_out(size, use) /\ status' = status
        /\ pushed' = IF use = "trace"
                     THEN [a \in DOMAIN pushed \cup {NextBlock} |->
                            IF a = NextBlock THEN << >> ELSE pushed[a]]
                     ELSE pushed
    BY <1>2 DEF Allocate
  <2> HIDE DEF size, use
  <2>3. Fits(size)
    BY <1>2 DEF size
  <2>4. /\ Heap_PTR + 1 \in Address /\ NextBlock = Heap_PTR + 2
        /\ blocks' = blocks \cup {n}
    BY <2>1, <2>2, <2>3, HandOutStep
  <2>5. Heap_PTR \in Address /\ Heap_PTR \in Nat /\ size \in Nat
    BY <2>1, InvTypes
  <2>6. /\ memory' \in [Address -> Word]
        /\ memory'[Heap_PTR] = size /\ memory'[Heap_PTR + 1] = 0
        /\ \A a \in Address : a < Heap_PTR => memory'[a] = memory[a]
    BY <2>1, <2>2, <2>4, <2>5, HeaderWritten
  <2>7. NextBlock \notin DOMAIN pushed
    <3>1. ASSUME NEW b \in blocks
          PROVE  b.addr # NextBlock
      <4>1. b.addr \in Int /\ b.size \in Nat /\ b.addr + b.size <= Heap_PTR
        BY BlockBounds
      <4> QED
        BY <2>4, <2>5, <4>1
    <3> QED
      BY <3>1 DEF IInv, PushedAreBlocks
  <2>8. /\ \A a \in DOMAIN pushed : pushed'[a] = pushed[a]
        /\ use = "trace" => /\ DOMAIN pushed' = DOMAIN pushed \cup {NextBlock}
                            /\ pushed'[NextBlock] = << >>
        /\ use # "trace" => pushed' = pushed
    BY <2>2, <2>7
  <2>9. n.addr = NextBlock /\ n.size = size /\ n.use = use
    OBVIOUS
  <2> HIDE DEF n
  <2>10. PushedAreBlocks'
    <3>1. << >> \in Seq(Word)
      OBVIOUS
    <3> SUFFICES ASSUME NEW a \in DOMAIN pushed'
                 PROVE  /\ pushed'[a] \in Seq(Word)
                        /\ \E b \in blocks' : b.use = "trace" /\ b.addr = a
      BY DEF PushedAreBlocks
    <3>2. CASE a \in DOMAIN pushed
      BY <2>4, <2>8, <3>2 DEF IInv, PushedAreBlocks
    <3>3. CASE a \notin DOMAIN pushed
      <4>1. use = "trace" /\ a = NextBlock /\ pushed'[a] = << >>
        BY <2>8, <3>3
      <4>2. n \in blocks' /\ n.use = "trace" /\ n.addr = a
        BY <2>4, <2>9, <4>1
      <4> QED
        BY <3>1, <4>1, <4>2
    <3> QED
      BY <3>2, <3>3
  <2>11. TracesArePushed'
    BY <2>4, <2>8, <2>9 DEF IInv, TracesArePushed
  <2>12. Sound(n, memory', pushed')
    <3>1. n.addr - 2 = Heap_PTR /\ n.addr - 1 = Heap_PTR + 1
      BY <2>4, <2>5, <2>9
    <3>2. use = "trace" => Len(pushed'[n.addr]) = 0
      BY <2>8, <2>9
    <3> QED
      BY <2>5, <2>6, <2>9, <3>1, <3>2 DEF Sound
  <2> QED
    BY <2>1, <2>2, <2>3, <2>6, <2>8, <2>10, <2>11, <2>12, NewBlockStep DEF n
<1>3. CASE ~ Fits(r.size)
  <2>1. EAX' = 0 /\ UNCHANGED <<memory, Heap_PTR, blocks, pushed, status>>
    BY <1>3 DEF Allocate
  <2>2. EAX' \in Word /\ status \in {"running", "out of memory", "not found"}
    BY <2>1, InvTypes
  <2> QED
    BY <2>1, <2>2, HeapUnchanged
<1> QED
  BY <1>2, <1>3

\* Functions lie in the object file, and their sizes are words.
LEMMA FunctionBounds ==
  ASSUME NEW f \in Function
  PROVE  /\ f \in Nat /\ CodeSize(f) \in Nat /\ f + CodeSize(f) <= HeapBase
         /\ CodeSize(f) <= HeapBase /\ CodeSize(f) \in Word
         /\ Heap_END + CodeSize(f) + Header < Modulus
<1>1. f \in Nat /\ HeapBase \in Nat /\ Modulus \in Nat /\ HeapBase < Modulus
  BY CodeAssumption, SizeAssumption DEF Header
<1>2. code_end[f] \in f..(HeapBase - 1) /\ Heap_END + CodeSize(f) + Header < Modulus
  BY CodeAssumption
<1>3. CodeSize(f) = code_end[f] - f + 1
  BY DEF CodeSize
<1>4. CodeSize(f) \in Nat /\ f + CodeSize(f) <= HeapBase /\ CodeSize(f) <= HeapBase
  BY <1>1, <1>2, <1>3
<1> QED
  BY <1>1, <1>2, <1>4 DEF Word

\* What Copied makes of memory.
LEMMA CopiedMemory ==
  ASSUME NEW m \in [Address -> Word], NEW f \in Function, NEW d \in Nat,
         NEW n, n = CodeSize(f)
  PROVE  /\ Copied(m, f, d, n) \in [Address -> Word]
         /\ (d - 1) % Modulus \in Address => Copied(m, f, d, n)[(d - 1) % Modulus] = n
         /\ \A a \in Address : a # (d - 1) % Modulus /\ a \notin d..(d + n - 1)
                              => Copied(m, f, d, n)[a] = m[a]
<1>1. HeapBase \in Nat /\ Modulus \in Nat /\ HeapBase < Modulus
  BY SizeAssumption DEF Header
<1>2. f \in Nat /\ n \in Nat /\ n \in Word /\ f + n <= HeapBase
  BY FunctionBounds
<1>3. ASSUME NEW a \in d..(d + n - 1)
      PROVE  m[f + (a - d)] \in Word
  <2>1. a - d \in 0..(n - 1)
    BY <1>2
  <2>2. f + (a - d) \in 0..(Modulus - 1)
    BY <1>1, <1>2, <2>1
  <2> QED
    BY <2>2 DEF Address
<1>4. Copied(m, f, d, n) =
        [a \in Address |-> IF a = (d - 1) % Modulus THEN n
                           ELSE IF a \in d..(d + n - 1) THEN m[f + (a - d)] ELSE m[a]]
  BY DEF Copied
<1> QED
  BY <1>2, <1>3, <1>4

\* Copying a function keeps the invariant, even when it copies to address 0.
LEMMA CopyFunctionStep ==
  ASSUME IInv, NEW f \in Function, CopyFunction(f)
  PROVE  IInv'
<1> DEFINE n == CodeSize(f)
<1>1. UNCHANGED <<status, pushed>>
  BY DEF CopyFunction
<1>2. /\ memory \in [Address -> Word] /\ Heap_PTR \in Address /\ 0 \in Word
      /\ status \in {"running", "out of memory", "not found"}
  BY InvTypes
<1>3. /\ Modulus \in Nat /\ HeapBase \in Nat /\ Heap_END \in Nat
      /\ Heap_END + 2 < Modulus
  BY SizeAssumption DEF Header
<1>8. Heap_PTR \in Nat /\ HeapBase <= Heap_PTR /\ Heap_PTR <= Heap_END
  BY InvTypes
<1>4. Modulus - 1 \in Address /\ (0 - 1) % Modulus = Modulus - 1
  BY <1>3, Modulo DEF Address
<1>5. n \in Nat /\ n \in Word /\ n <= HeapBase /\ Heap_END + n + Header < Modulus
  BY FunctionBounds
<1>9. n \in Nat /\ n <= HeapBase
  BY <1>5
<1>6. CASE Fits(n)
  <2> DEFINE new == [addr |-> NextBlock, size |-> n, use |-> "code"]
  <2>1. memory' = Copied(WithHeader(n), f, NextBlock, n) /\ Hand_out(n, "code")
    BY <1>6 DEF CopyFunction
  <2>2. "code" \in Use
    BY DEF Use
  <2> HIDE DEF n
  <2>3. /\ Heap_PTR + 1 \in Address /\ NextBlock = Heap_PTR + 2
        /\ blocks' = blocks \cup {new}
    BY <1>5, <1>6, <2>1, <2>2, HandOutStep
  <2>4. /\ WithHeader(n) \in [Address -> Word]
        /\ WithHeader(n)[Heap_PTR] = n
        /\ \A a \in Address : a < Heap_PTR => WithHeader(n)[a] = memory[a]
    BY <1>2, <1>5, <2>3, HeaderWritten
  <2>5. (NextBlock - 1) % Modulus = Heap_PTR + 1 /\ NextBlock \in Nat
    <3>1. NextBlock - 1 = Heap_PTR + 1 /\ NextBlock \in Nat
      BY <1>8, <2>3
    <3> QED
      BY <2>3, <3>1, Modulo
  <2>6. /\ memory' \in [Address -> Word]
        /\ memory'[Heap_PTR + 1] = n
        /\ \A a \in Address : a # Heap_PTR + 1 /\ a \notin NextBlock..(NextBlock + n - 1)
                             => memory'[a] = WithHeader(n)[a]
    BY <2>1, <2>3, <2>4, <2>5, CopiedMemory DEF n
  <2>7. \A a \in Address : a < Heap_PTR => memory'[a] = memory[a]
    <3> SUFFICES ASSUME NEW a \in Address, a < Heap_PTR
                 PROVE  memory'[a] = memory[a]
      OBVIOUS
    <3>1. a \in Nat
      BY InvTypes
    <3>2. a # Heap_PTR + 1 /\ a \notin NextBlock..(NextBlock + n - 1)
      BY <1>8, <1>9, <2>3, <3>1
    <3> QED
      BY <2>4, <2>6, <3>2
  <2>8. memory'[Heap_PTR] = n
    <3>1. Heap_PTR # Heap_PTR + 1 /\ Heap_PTR \notin NextBlock..(NextBlock + n - 1)
      BY <1>8, <1>9, <2>3
    <3> QED
      BY <1>2, <2>4, <2>6, <3>1
  <2>9. Sound(new, memory', pushed')
    <3>1. new.addr - 2 = Heap_PTR /\ new.addr - 1 = Heap_PTR + 1 /\ new.size = n /\ new.use # "trace"
      BY <1>8, <2>3
    <3> QED
      BY <1>5, <2>6, <2>8, <3>1 DEF Sound
  <2>10. PushedAreBlocks'
    BY <1>1, <2>3 DEF IInv, PushedAreBlocks
  <2>11. TracesArePushed'
    BY <1>1, <2>3 DEF IInv, TracesArePushed
  <2>12. \A a \in DOMAIN pushed : pushed'[a] = pushed[a]
    BY <1>1
  <2> QED
    BY <1>1, <1>5, <1>6, <2>1, <2>2, <2>6, <2>7, <2>9, <2>10, <2>11, <2>12, NewBlockStep
<1>7. CASE ~ Fits(n)
  <2>1. /\ memory' = Copied(memory, f, 0, n) /\ EAX' = 0
        /\ UNCHANGED <<Heap_PTR, blocks>>
    BY <1>7 DEF CopyFunction
  <2> HIDE DEF n
  <2>2. /\ memory' \in [Address -> Word]
        /\ \A a \in Address : a # Modulus - 1 /\ a \notin 0..(0 + n - 1)
                             => memory'[a] = memory[a]
    <3>1. 0 \in Nat /\ (0 - 1) % Modulus = Modulus - 1 /\ n = CodeSize(f)
      BY <1>4 DEF n
    <3>2. ASSUME NEW z \in Nat, z = 0
          PROVE  /\ Copied(memory, f, z, n) \in [Address -> Word]
                 /\ \A a \in Address : a # Modulus - 1 /\ a \notin z..(z + n - 1)
                                      => Copied(memory, f, z, n)[a] = memory[a]
      <4>1. /\ Copied(memory, f, z, n) \in [Address -> Word]
            /\ \A a \in Address : a # (z - 1) % Modulus /\ a \notin z..(z + n - 1)
                                 => Copied(memory, f, z, n)[a] = memory[a]
        <5>1. memory \in [Address -> Word] /\ n = CodeSize(f)
          BY <1>2, <3>1
        <5> QED
          BY <5>1, CopiedMemory
      <4>2. (z - 1) % Modulus = Modulus - 1
        BY <3>1, <3>2
      <4> QED
        BY <4>1, <4>2
    <3> QED
      BY <2>1, <3>1, <3>2
  <2>3. ASSUME NEW b \in blocks
        PROVE  Sound(b, memory', pushed')
    <3>1. /\ b.addr \in Int /\ b.size \in Nat
          /\ HeapBase <= b.addr - 2 /\ b.addr + b.size <= Heap_PTR
          /\ \A a \in (b.addr - 2)..(b.addr + b.size - 1) : a \in Address
      BY BlockBounds
    <3>2. ASSUME NEW a \in (b.addr - 2)..(b.addr + b.size - 1)
          PROVE  memory'[a] = memory[a]
      <4>1. a # Modulus - 1 /\ a \notin 0..(0 + n - 1)
        BY <1>3, <1>8, <1>9, <3>1
      <4> QED
        BY <2>2, <3>1, <4>1
    <3> QED
      BY <1>1, <3>2, Frame
  <2>4. HeadersIntact' /\ TracesIntact'
    <3>1. PushedAreBlocks'
      BY <1>1, <2>1 DEF IInv, PushedAreBlocks
    <3> QED
      BY <2>1, <2>3, <3>1, SoundBlocksNext
  <2>5. TypeOK' /\ (HeapBase <= Heap_PTR)' /\ BlocksDisjoint'
    BY <1>1, <1>2, <2>1, <2>2 DEF IInv, TypeOK, BlocksDisjoint
  <2>6. PushedAreBlocks' /\ TracesArePushed'
    BY <1>1, <2>1 DEF IInv, PushedAreBlocks, TracesArePushed
  <2> QED
    BY <2>4, <2>5, <2>6 DEF IInv
<1> QED
  BY <1>6, <1>7

\* Copy_Code keeps the invariant.
LEMMA CopyCodeStep ==
  ASSUME IInv, NEW f, Copy_Code(f)
  PROVE  IInv'
<1>1. CASE f \in Function
  BY <1>1, CopyFunctionStep DEF Copy_Code
<1>2. CASE f \notin Function
  BY <1>2, ExitStep DEF Copy_Code
<1> QED
  BY <1>1, <1>2

\* get_code_end keeps the invariant.
LEMMA GetCodeEndStep ==
  ASSUME IInv, NEW f, get_code_end(f)
  PROVE  IInv'
<1>1. CASE f \in Function
  <2>1. UNCHANGED <<memory, Heap_PTR, blocks, pushed, status>> /\ EAX' = code_end[f]
    BY <1>1 DEF get_code_end
  <2>2. HeapBase \in Nat /\ Modulus \in Nat /\ HeapBase < Modulus
    BY SizeAssumption DEF Header
  <2>3. f \in 0..(HeapBase - 1) /\ code_end[f] \in f..(HeapBase - 1)
    BY <1>1, CodeAssumption
  <2>4. code_end[f] \in Word
    BY <2>2, <2>3 DEF Word
  <2>5. status \in {"running", "out of memory", "not found"}
    BY InvTypes
  <2> QED
    BY <2>1, <2>4, <2>5, HeapUnchanged
<1>2. CASE f \notin Function
  BY <1>2, ExitStep DEF get_code_end
<1> QED
  BY <1>1, <1>2

\* Identical_Code keeps the invariant.
LEMMA IdenticalCodeStep ==
  ASSUME IInv, NEW f, NEW g, Identical_Code(f, g)
  PROVE  IInv'
<1>1. CASE {f, g} \subseteq Function
  <2>1. UNCHANGED <<memory, Heap_PTR, blocks, pushed, status>> /\ EAX' \in {0, 1}
    BY <1>1 DEF Identical_Code
  <2>2. {0, 1} \subseteq Word
    BY SizeAssumption DEF Word, Header
  <2>3. status \in {"running", "out of memory", "not found"}
    BY InvTypes
  <2> QED
    BY <2>1, <2>2, <2>3, HeapUnchanged
<1>2. CASE ~ ({f, g} \subseteq Function)
  BY <1>2, ExitStep DEF Identical_Code
<1> QED
  BY <1>1, <1>2

\* Every step keeps the invariant.
LEMMA InvStep == IInv /\ [Next]_vars => IInv'
<1> SUFFICES ASSUME IInv, [Next]_vars
             PROVE  IInv'
  OBVIOUS
<1>1. ASSUME NEW r \in Requests, Allocate(r.size, r.use)
      PROVE  IInv'
  BY <1>1, AllocateStep
<1>2. ASSUME NEW b \in blocks, NEW w \in Data, b.use = "stack", StackPush(b.addr, w)
      PROVE  IInv'
  BY <1>2, StackPushStep
<1>3. ASSUME NEW b \in blocks, NEW w \in Data, b.use \in {"struct", "stack"},
             NEW n \in 0..(b.size - 1), Store(b.addr + n, w)
      PROVE  IInv'
  BY <1>3, StoreStep
<1>4. ASSUME NEW b \in blocks, NEW d \in blocks, b.use = "trace", d.use = "struct",
             d.size = EntrySize, PushBack(b.addr, d.addr)
      PROVE  IInv'
  BY <1>4, PushBackStep
<1>5. ASSUME NEW f, Copy_Code(f) \/ get_code_end(f)
      PROVE  IInv'
  BY <1>5, CopyCodeStep, GetCodeEndStep
<1>6. ASSUME NEW f, NEW g, Identical_Code(f, g)
      PROVE  IInv'
  BY <1>6, IdenticalCodeStep
<1>7. CASE UNCHANGED vars
  <2>1. UNCHANGED <<memory, Heap_PTR, EAX, status, blocks, pushed>>
    BY <1>7 DEF vars
  <2> QED
    BY <2>1, HeapUnchanged, InvTypes
<1> QED
  BY <1>1, <1>2, <1>3, <1>4, <1>5, <1>6, <1>7 DEF Next

\* The invariant holds always.
LEMMA Invariant == Spec => []IInv
  BY InvInit, InvStep, PTL DEF Spec

\* Memory, Heap_PTR and what calls return are words, whatever guests ask for.
THEOREM TypeCorrect == Spec => []TypeOK
<1>1. IInv => TypeOK
  BY DEF IInv
<1> QED
  BY <1>1, Invariant, PTL

\* Allocate and Copy_Code never hand out overlapping blocks, nor one outside
\* the heap.
THEOREM BlocksNeverOverlap == Spec => []BlocksDisjoint
<1>1. IInv => BlocksDisjoint
  BY DEF IInv
<1> QED
  BY <1>1, Invariant, PTL

\* Neither StackPush, PushBack, Copy_Code nor a store into a block destroys
\* the header of any.
THEOREM HeadersStayIntact == Spec => []HeadersIntact
<1>1. IInv => HeadersIntact
  BY DEF IInv
<1> QED
  BY <1>1, Invariant, PTL

\* Every execution trace holds what PushBack has put into it, in its order.
THEOREM TracesStayIntact == Spec => []TracesIntact
<1>1. IInv => TracesIntact
  BY DEF IInv
<1> QED
  BY <1>1, Invariant, PTL

(***************************************************************************)
(* Copied code: as long as a copy of every function would fit, the object  *)
(* file is as it was read and every copy equals its function.              *)
(* What fits does so because Heap_PTR is low, and Heap_PTR only rises; a   *)
(* heap in which everything fits is therefore one in which no Copy_Code    *)
(* has failed yet, and the failing ones are the only writes outside of     *)
(* blocks.  All others go to the new block or to one the guest may write   *)
(* to, and no block of code is.                                            *)
(***************************************************************************)
AllFit == \A f \in Function : Fits(CodeSize(f))

\* Every copy is a block of the size of its function.
CopiesAreBlocks ==
  \A d \in DOMAIN copies :
    /\ copies[d] \in Function
    /\ \E b \in blocks : b.use = "code" /\ b.addr = d /\ b.size = CodeSize(copies[d])

\* Memory m has function f at address d, and its size before it.
IsCopy(m, d, f) ==
  /\ m[d - 1] = CodeSize(f)
  /\ \A n \in 0..(CodeSize(f) - 1) : m[d + n] = Image[f + n]

\* The inductive invariant, beside that of the heap.
CodeInv == CopiesAreBlocks /\ CodeIntact

\* CodeIntact in these words.
LEMMA CodeIntactSays ==
  /\ CodeIntact <=>
       (AllFit => /\ \A a \in 0..(HeapBase - 1) : memory[a] = Image[a]
                  /\ \A d \in DOMAIN copies : IsCopy(memory, d, copies[d]))
  /\ CodeIntact' <=>
       (AllFit' => /\ \A a \in 0..(HeapBase - 1) : memory'[a] = Image[a]
                   /\ \A d \in DOMAIN copies' : IsCopy(memory', d, copies'[d]))
BY DEF CodeIntact, AllFit, IsCopy, Size

\* The object file ends below the last address.
LEMMA ObjectFile == HeapBase \in Nat /\ Modulus \in Nat /\ HeapBase < Modulus
BY SizeAssumption DEF Header

\* A copy fits when it ends within the heap: addresses are not so large that
\* the sum wraps around.
LEMMA FitsPlain ==
  ASSUME NEW f \in Function, NEW p \in Nat, p <= Heap_END
  PROVE  (p + CodeSize(f) + Header) % Modulus = p + CodeSize(f) + 2
<1>1. CodeSize(f) \in Nat /\ Heap_END + CodeSize(f) + 2 < Modulus
  BY FunctionBounds DEF Header
<1>2. Modulus \in Nat /\ Heap_END \in Nat
  BY SizeAssumption
<1>3. p + CodeSize(f) + 2 \in Address
  BY <1>1, <1>2 DEF Address
<1> QED
  BY <1>3, Modulo DEF Header

\* When everything fits it has done so before.
LEMMA FitsBefore ==
  ASSUME IInv, IInv', Heap_PTR <= Heap_PTR', AllFit'
  PROVE  AllFit
<1> SUFFICES ASSUME NEW f \in Function
             PROVE  Fits(CodeSize(f))
  BY DEF AllFit
<1>1. Heap_PTR \in Nat /\ Heap_PTR <= Heap_END
  BY InvTypes
<1>2. Heap_PTR' \in Nat /\ Heap_PTR' <= Heap_END
  <2>1. Heap_PTR' \in Address /\ Heap_PTR' <= Heap_END
    BY DEF IInv, TypeOK, BlocksDisjoint
  <2> QED
    BY <2>1, SizeAssumption DEF Address
<1>3. (Heap_PTR' + CodeSize(f) + Header) % Modulus <= Heap_END
  BY DEF AllFit, Fits
<1>4. Heap_PTR' + CodeSize(f) + 2 <= Heap_END
  BY <1>2, <1>3, FitsPlain
<1>5. CodeSize(f) \in Nat /\ Heap_END \in Nat
  BY FunctionBounds, SizeAssumption
<1>6. Heap_PTR + CodeSize(f) + 2 <= Heap_END
  BY <1>1, <1>2, <1>4, <1>5
<1> QED
  BY <1>1, <1>6, FitsPlain DEF Fits

\* A step that makes no copy and writes neither to the object file nor to a
\* block of code.
LEMMA CodeUntouched ==
  ASSUME IInv, CodeInv, IInv', Heap_PTR <= Heap_PTR', blocks \subseteq blocks', copies' = copies,
         \A a \in 0..(HeapBase - 1) : memory'[a] = memory[a],
         \A b \in blocks : b.use = "code" =>
           \A a \in (b.addr - 1)..(b.addr + b.size - 1) : memory'[a] = memory[a]
  PROVE  CodeInv'
<1>1. CopiesAreBlocks'
  BY DEF CodeInv, CopiesAreBlocks
<1>2. ASSUME AllFit'
      PROVE  /\ \A a \in 0..(HeapBase - 1) : memory'[a] = Image[a]
             /\ \A d \in DOMAIN copies : IsCopy(memory', d, copies[d])
  <2>1. /\ \A a \in 0..(HeapBase - 1) : memory[a] = Image[a]
        /\ \A d \in DOMAIN copies : IsCopy(memory, d, copies[d])
    BY <1>2, FitsBefore, CodeIntactSays DEF CodeInv
  <2>2. ASSUME NEW d \in DOMAIN copies
        PROVE  IsCopy(memory', d, copies[d])
    <3>1. PICK b \in blocks : b.use = "code" /\ b.addr = d /\ b.size = CodeSize(copies[d])
      BY DEF CodeInv, CopiesAreBlocks
    <3>2. b.addr \in Int /\ b.size \in Nat
      BY BlockBounds
    <3>3. \A a \in (d - 1)..(d + CodeSize(copies[d]) - 1) : memory'[a] = memory[a]
      BY <3>1
    <3>4. IsCopy(memory, d, copies[d])
      BY <2>1
    <3>5. d \in Int /\ CodeSize(copies[d]) \in Nat
      BY <3>1, <3>2
    <3>6. memory'[d - 1] = memory[d - 1]
      BY <3>3, <3>5
    <3>7. \A n \in 0..(CodeSize(copies[d]) - 1) : memory'[d + n] = memory[d + n]
      BY <3>3, <3>5
    <3> QED
      BY <3>4, <3>6, <3>7 DEF IsCopy
  <2> QED
    BY <2>1, <2>2
<1> QED
  BY <1>1, <1>2, CodeIntactSays DEF CodeInv

\* A write to a block the guest may write to, or to its header.
LEMMA WriteKeepsCode ==
  ASSUME IInv, CodeInv, IInv', NEW w \in blocks, w.use # "code",
         UNCHANGED <<Heap_PTR, blocks, copies>>,
         \A a \in Address : a \notin (w.addr - 2)..(w.addr + w.size - 1) => memory'[a] = memory[a]
  PROVE  CodeInv'
<1>1. /\ w.addr \in Int /\ w.size \in Nat /\ HeapBase <= w.addr - 2
      /\ HeapBase \in Nat /\ Modulus \in Nat /\ HeapBase < Modulus
      /\ Heap_PTR \in Nat
  BY BlockBounds, InvTypes, ObjectFile
<1>2. \A a \in 0..(HeapBase - 1) : memory'[a] = memory[a]
  BY <1>1 DEF Address
<1>3. ASSUME NEW b \in blocks, b.use = "code", NEW a \in (b.addr - 1)..(b.addr + b.size - 1)
      PROVE  memory'[a] = memory[a]
  <2>1. w.addr + w.size <= b.addr - 2 \/ b.addr + b.size <= w.addr - 2
    BY <1>3 DEF IInv, BlocksDisjoint, Header
  <2>2. /\ b.addr \in Int /\ b.size \in Nat
        /\ \A x \in (b.addr - 2)..(b.addr + b.size - 1) : x \in Address
    BY BlockBounds
  <2>3. a \in Address
    BY <2>2
  <2>4. a \notin (w.addr - 2)..(w.addr + w.size - 1)
    BY <1>1, <2>1, <2>2
  <2> QED
    BY <2>3, <2>4
<1> QED
  BY <1>1, <1>2, <1>3, CodeUntouched

\* A call that leaves the heap alone.
LEMMA CodeUnchanged ==
  ASSUME IInv, CodeInv, IInv', UNCHANGED <<memory, Heap_PTR, blocks, copies>>
  PROVE  CodeInv'
<1>1. Heap_PTR \in Nat
  BY InvTypes
<1> QED
  BY <1>1, CodeUntouched

\* A new block: what lies below Heap_PTR stays as it is.
LEMMA NewBlockKeepsCode ==
  ASSUME IInv, CodeInv, IInv', NEW size \in Word, NEW use \in Use,
         Heap_END + size + Header < Modulus,
         Fits(size), Hand_out(size, use), copies' = copies,
         \A a \in Address : a < Heap_PTR => memory'[a] = memory[a]
  PROVE  CodeInv'
<1>1. /\ HeapBase \in Nat /\ Modulus \in Nat /\ HeapBase < Modulus
      /\ Heap_PTR \in Nat /\ HeapBase <= Heap_PTR
  BY InvTypes, ObjectFile
<1>2. \A a \in 0..(HeapBase - 1) : memory'[a] = memory[a]
  BY <1>1 DEF Address
<1>3. ASSUME NEW b \in blocks, NEW a \in (b.addr - 1)..(b.addr + b.size - 1)
      PROVE  memory'[a] = memory[a]
  <2>1. /\ b.addr \in Int /\ b.size \in Nat /\ b.addr + b.size <= Heap_PTR
        /\ \A x \in (b.addr - 2)..(b.addr + b.size - 1) : x \in Address
    BY BlockBounds
  <2>2. a \in Address /\ a < Heap_PTR
    BY <1>1, <2>1
  <2> QED
    BY <2>2
<1>4. Heap_PTR' = Heap_PTR + size + 2 /\ blocks \subseteq blocks'
  BY HandOutStep
<1>5. size \in Nat
  BY InvTypes
<1> QED
  BY <1>1, <1>2, <1>3, <1>4, <1>5, CodeUntouched

-----------------------------------------------------------------------------
(* The calls.                                                              *)

\* Allocate writes a header only, above what is allocated.
LEMMA AllocateKeepsCode ==
  ASSUME IInv, CodeInv, IInv', NEW r \in Requests, Allocate(r.size, r.use)
  PROVE  CodeInv'
<1>1. /\ r.size \in Word /\ r.use \in {"struct", "stack", "trace"} /\ r.use \in Use
      /\ Heap_END + r.size + Header < Modulus
  BY RequestAssumption DEF Use
<1>2. CASE Fits(r.size)
  <2>1. memory' = WithHeader(r.size) /\ Hand_out(r.size, r.use) /\ copies' = copies
    BY <1>2 DEF Allocate
  <2>2. Heap_PTR \in Address /\ Heap_PTR + 1 \in Address
    BY <1>1, <1>2, <2>1, InvTypes, HandOutStep
  <2>3. \A a \in Address : a < Heap_PTR => memory'[a] = memory[a]
    BY <1>1, <2>1, <2>2, HeaderWritten
  <2> QED
    BY <1>1, <1>2, <2>1, <2>3, NewBlockKeepsCode
<1>3. CASE ~ Fits(r.size)
  BY <1>3, CodeUnchanged DEF Allocate
<1> QED
  BY <1>2, <1>3

\* A guest stores into its own structures and stacks, which are no code.
LEMMA StoreKeepsCode ==
  ASSUME IInv, CodeInv, IInv', NEW b \in blocks, NEW v \in Data, b.use \in {"struct", "stack"},
         NEW n \in 0..(b.size - 1), Store(b.addr + n, v)
  PROVE  CodeInv'
<1>1. b.addr \in Int /\ b.size \in Nat /\ memory \in [Address -> Word]
  BY BlockBounds, InvTypes
<1>2. memory' = [memory EXCEPT ![b.addr + n] = v] /\ UNCHANGED <<Heap_PTR, blocks, copies>>
  BY DEF Store
<1>3. \A a \in Address : a \notin (b.addr - 2)..(b.addr + b.size - 1) => memory'[a] = memory[a]
  BY <1>1, <1>2
<1> QED
  BY <1>2, <1>3, WriteKeepsCode

\* What is used of a block is a number within its size.
LEMMA UsedSize ==
  ASSUME IInv, NEW b \in blocks
  PROVE  Capacity(b.addr) = b.size /\ Size(b.addr) <= b.size /\ Size(b.addr) \in Nat
<1>1. /\ b.addr \in Int /\ b.size \in Nat
      /\ \A a \in (b.addr - 2)..(b.addr + b.size - 1) : a \in Address
  BY BlockBounds
<1>2. b.addr - 1 \in Address
  BY <1>1
<1>3. memory[b.addr - 1] \in Nat
  BY <1>2, InvTypes
<1> QED
  BY <1>3 DEF Size, IInv, HeadersIntact

\* StackPush writes into a stack.
LEMMA StackPushKeepsCode ==
  ASSUME IInv, CodeInv, IInv', NEW b \in blocks, NEW v \in Data, b.use = "stack",
         StackPush(b.addr, v)
  PROVE  CodeInv'
<1>1. /\ b.addr \in Int /\ b.size \in Nat /\ memory \in [Address -> Word]
      /\ Capacity(b.addr) = b.size /\ Size(b.addr) <= b.size /\ Size(b.addr) \in Nat
  BY BlockBounds, InvTypes, UsedSize
<1>2. CASE Size(b.addr) <= Capacity(b.addr) - 1
  <2> DEFINE top == b.addr + (Capacity(b.addr) - Size(b.addr)) - 1
  <2>1. /\ memory' = [memory EXCEPT ![top] = v, ![b.addr - 1] = @ + 1]
        /\ UNCHANGED <<Heap_PTR, blocks, copies>>
    BY <1>2 DEF StackPush
  <2>2. top \in b.addr..(b.addr + b.size - 1)
    BY <1>1, <1>2
  <2> HIDE DEF top
  <2>3. \A a \in Address : a \notin (b.addr - 2)..(b.addr + b.size - 1) => memory'[a] = memory[a]
    BY <1>1, <2>1, <2>2
  <2> QED
    BY <2>1, <2>3, WriteKeepsCode
<1>3. CASE ~ (Size(b.addr) <= Capacity(b.addr) - 1)
  BY <1>3, CodeUnchanged DEF StackPush, Exit
<1> QED
  BY <1>2, <1>3

\* PushBack writes into a trace and its header.
LEMMA PushBackKeepsCode ==
  ASSUME IInv, CodeInv, IInv', NEW b \in blocks, NEW d, b.use = "trace", PushBack(b.addr, d)
  PROVE  CodeInv'
<1>1. /\ b.addr \in Int /\ b.size \in Nat
      /\ Capacity(b.addr) = b.size /\ Size(b.addr) <= b.size /\ Size(b.addr) \in Nat
      /\ EntrySize \in Nat
  BY BlockBounds, UsedSize, SizeAssumption
<1>2. CASE HasRoom(b.addr, EntrySize)
  <2>1. /\ \A a \in Address :
             a \notin (b.addr + Size(b.addr))..(b.addr + Size(b.addr) + EntrySize - 1)
             /\ a # b.addr - 1 => memory'[a] = memory[a]
        /\ UNCHANGED <<Heap_PTR, blocks, copies>>
    BY <1>2 DEF PushBack
  <2>2. Size(b.addr) + EntrySize <= b.size
    BY <1>1, <1>2 DEF HasRoom
  <2>3. \A a \in Address : a \notin (b.addr - 2)..(b.addr + b.size - 1) => memory'[a] = memory[a]
    BY <1>1, <2>1, <2>2
  <2> QED
    BY <2>1, <2>3, WriteKeepsCode
<1>3. CASE ~ HasRoom(b.addr, EntrySize)
  BY <1>3, CodeUnchanged DEF PushBack, Exit
<1> QED
  BY <1>2, <1>3

\* What Copied puts in the place of the copy.
LEMMA CopiedCode ==
  ASSUME NEW m \in [Address -> Word], NEW f \in Function, NEW d \in Nat, d > 0,
         \A a \in (d - 1)..(d + CodeSize(f) - 1) : a \in Address
  PROVE  /\ Copied(m, f, d, CodeSize(f))[d - 1] = CodeSize(f)
         /\ \A k \in 0..(CodeSize(f) - 1) : Copied(m, f, d, CodeSize(f))[d + k] = m[f + k]
<1> DEFINE n == CodeSize(f)
<1>1. f \in Nat /\ n \in Nat
  BY FunctionBounds
<1>2. d - 1 \in Address
  BY <1>1
<1>3. (d - 1) % Modulus = d - 1
  BY <1>2, Modulo
<1>4. Copied(m, f, d, n) =
        [a \in Address |-> IF a = d - 1 THEN n
                           ELSE IF a \in d..(d + n - 1) THEN m[f + (a - d)] ELSE m[a]]
  BY <1>3 DEF Copied
<1> HIDE DEF n
<1>5. ASSUME NEW k \in 0..(n - 1)
      PROVE  Copied(m, f, d, n)[d + k] = m[f + k]
  <2>1. d + k \in d..(d + n - 1) /\ d + k \in (d - 1)..(d + n - 1) /\ d + k # d - 1
    BY <1>1
  <2>2. d + k \in Address
    BY <2>1 DEF n
  <2>3. Copied(m, f, d, n)[d + k] = m[f + ((d + k) - d)]
    BY <1>4, <2>1, <2>2
  <2>4. (d + k) - d = k
    BY <1>1
  <2> QED
    BY <2>3, <2>4
<1> QED
  BY <1>2, <1>4, <1>5 DEF n

\* Copy_Code writes into the new block when there is one; when there is none,
\* not everything fits.
LEMMA CopyKeepsCode ==
  ASSUME IInv, CodeInv, IInv', NEW f \in Function, CopyFunction(f)
  PROVE  CodeInv'
<1> DEFINE n == CodeSize(f)
<1>1. /\ f \in Nat /\ n \in Nat /\ n \in Word /\ f + n <= HeapBase
      /\ Heap_END + n + Header < Modulus
  BY FunctionBounds
<1>2. /\ HeapBase \in Nat /\ Modulus \in Nat /\ HeapBase < Modulus
      /\ Heap_PTR \in Nat /\ Heap_PTR \in Address /\ HeapBase <= Heap_PTR
      /\ memory \in [Address -> Word]
  BY InvTypes, ObjectFile
<1>3. CASE Fits(n)
  <2> DEFINE new == [addr |-> NextBlock, size |-> n, use |-> "code"]
  <2>1. /\ memory' = Copied(WithHeader(n), f, NextBlock, n) /\ Hand_out(n, "code")
        /\ copies' = [a \in DOMAIN copies \cup {NextBlock} |->
                        IF a = NextBlock THEN f ELSE copies[a]]
    BY <1>3 DEF CopyFunction
  <2>2. "code" \in Use
    BY DEF Use
  <2> HIDE DEF n
  <2>3. /\ Heap_PTR + 1 \in Address /\ NextBlock = Heap_PTR + 2 /\ NextBlock \in Address
        /\ Heap_PTR' = Heap_PTR + n + 2 /\ Heap_PTR' \in Address
        /\ blocks' = blocks \cup {new}
    BY <1>1, <1>3, <2>1, <2>2, HandOutStep
  <2>4. /\ WithHeader(n) \in [Address -> Word]
        /\ \A a \in Address : a < Heap_PTR => WithHeader(n)[a] = memory[a]
    BY <1>1, <1>2, <2>3, HeaderWritten
  <2>5. NextBlock \in Nat /\ NextBlock > 0 /\ Heap_PTR <= Heap_PTR'
    BY <1>1, <1>2, <2>3
  <2>6. \A a \in (NextBlock - 1)..(NextBlock + n - 1) : a \in Address
    BY <1>1, <1>2, <2>3 DEF Address
  <2>7. /\ memory'[NextBlock - 1] = n
        /\ \A k \in 0..(n - 1) : memory'[NextBlock + k] = WithHeader(n)[f + k]
    BY <2>1, <2>4, <2>5, <2>6, CopiedCode DEF n
  <2>8. \A a \in Address : a < Heap_PTR => memory'[a] = memory[a]
    <3> SUFFICES ASSUME NEW a \in Address, a < Heap_PTR
                 PROVE  memory'[a] = memory[a]
      OBVIOUS
    <3>1. a \in Nat
      BY InvTypes
    <3>2. (NextBlock - 1) % Modulus = Heap_PTR + 1
      <4>1. NextBlock - 1 = Heap_PTR + 1
        BY <1>2, <2>3
      <4> QED
        BY <2>3, <4>1, Modulo
    <3>3. a # (NextBlock - 1) % Modulus /\ a \notin NextBlock..(NextBlock + n - 1)
      BY <1>1, <1>2, <2>3, <3>1, <3>2
    <3>4. memory'[a] = WithHeader(n)[a]
      BY <2>1, <2>4, <2>5, <3>3, CopiedMemory DEF n
    <3> QED
      BY <2>4, <3>4
  <2>9. CopiesAreBlocks'
    <3> SUFFICES ASSUME NEW d \in DOMAIN copies'
                 PROVE  /\ copies'[d] \in Function
                        /\ \E b \in blocks' : /\ b.use = "code" /\ b.addr = d
                                              /\ b.size = CodeSize(copies'[d])
      BY DEF CopiesAreBlocks
    <3>1. CASE d = NextBlock
      <4>1. copies'[d] = f
        BY <2>1, <3>1
      <4>2. new \in blocks' /\ new.use = "code" /\ new.addr = d /\ new.size = CodeSize(f)
        BY <2>3, <3>1 DEF n
      <4> QED
        BY <4>1, <4>2
    <3>2. CASE d # NextBlock
      <4>1. d \in DOMAIN copies /\ copies'[d] = copies[d]
        BY <2>1, <3>2
      <4> QED
        BY <2>3, <4>1 DEF CodeInv, CopiesAreBlocks
    <3> QED
      BY <3>1, <3>2
  <2>10. ASSUME AllFit'
         PROVE  /\ \A a \in 0..(HeapBase - 1) : memory'[a] = Image[a]
                /\ \A d \in DOMAIN copies' : IsCopy(memory', d, copies'[d])
    <3>1. /\ \A a \in 0..(HeapBase - 1) : memory[a] = Image[a]
          /\ \A d \in DOMAIN copies : IsCopy(memory, d, copies[d])
      BY <2>5, <2>10, FitsBefore, CodeIntactSays DEF CodeInv
    <3>2. \A a \in 0..(HeapBase - 1) : a \in Address /\ a < Heap_PTR
      BY <1>2 DEF Address
    <3>3. \A a \in 0..(HeapBase - 1) : memory'[a] = Image[a]
      BY <2>8, <3>1, <3>2
    <3>4. IsCopy(memory', NextBlock, f)
      <4>1. ASSUME NEW k \in 0..(n - 1)
            PROVE  memory'[NextBlock + k] = Image[f + k]
        <5>1. f + k \in 0..(HeapBase - 1)
          BY <1>1, <1>2
        <5> QED
          BY <2>4, <2>7, <3>1, <3>2, <5>1
      <4> QED
        BY <2>7, <4>1 DEF IsCopy, n
    <3>5. ASSUME NEW d \in DOMAIN copies
          PROVE  IsCopy(memory', d, copies[d])
      <4>1. PICK b \in blocks : b.use = "code" /\ b.addr = d /\ b.size = CodeSize(copies[d])
        BY DEF CodeInv, CopiesAreBlocks
      <4>2. /\ b.addr \in Int /\ b.size \in Nat /\ b.addr + b.size <= Heap_PTR
            /\ \A x \in (b.addr - 2)..(b.addr + b.size - 1) : x \in Address
        BY BlockBounds
      <4>3. \A a \in (b.addr - 1)..(b.addr + b.size - 1) : memory'[a] = memory[a]
        BY <1>2, <2>8, <4>2
      <4>4. d \in Int /\ CodeSize(copies[d]) \in Nat /\ IsCopy(memory, d, copies[d])
        BY <3>1, <4>1, <4>2
      <4>5. memory'[d - 1] = memory[d - 1]
        BY <4>1, <4>2, <4>3
      <4>6. \A k \in 0..(CodeSize(copies[d]) - 1) : memory'[d + k] = memory[d + k]
        BY <4>1, <4>2, <4>3
      <4> QED
        BY <4>4, <4>5, <4>6 DEF IsCopy
    <3> QED
      BY <2>1, <3>3, <3>4, <3>5
  <2> QED
    BY <2>9, <2>10, CodeIntactSays DEF CodeInv
<1>4. CASE ~ Fits(n)
  <2>1. UNCHANGED <<Heap_PTR, blocks, copies>>
    BY <1>4 DEF CopyFunction
  <2>2. ~ AllFit'
    BY <1>4, <2>1 DEF AllFit, Fits
  <2>3. CopiesAreBlocks'
    BY <2>1 DEF CodeInv, CopiesAreBlocks
  <2> QED
    BY <2>2, <2>3, CodeIntactSays DEF CodeInv
<1> QED
  BY <1>3, <1>4

-----------------------------------------------------------------------------
(* The theorem.                                                            *)

\* Nothing is copied at the beginning.
LEMMA CodeInit == Init => CodeInv
<1> SUFFICES ASSUME Init
             PROVE  CodeInv
  OBVIOUS
<1>1. DOMAIN copies = {}
  BY DEF Init
<1>2. \A a \in 0..(HeapBase - 1) : a \in Address
  BY SizeAssumption DEF Address, Header
<1>3. \A a \in 0..(HeapBase - 1) : memory[a] = Image[a]
  BY <1>2, SizeAssumption DEF Init
<1> QED
  BY <1>1, <1>3, CodeIntactSays DEF CodeInv, CopiesAreBlocks

\* The invariant is inductive beside that of the heap.
LEMMA CodeStep == IInv /\ CodeInv /\ [Next]_vars /\ IInv' => CodeInv'
<1> SUFFICES ASSUME IInv, CodeInv, [Next]_vars, IInv'
             PROVE  CodeInv'
  OBVIOUS
<1>1. ASSUME NEW f, Copy_Code(f)
      PROVE  CodeInv'
  <2>1. CASE f \in Function
    BY <1>1, <2>1, CopyKeepsCode DEF Copy_Code
  <2>2. CASE f \notin Function
    BY <1>1, <2>2, CodeUnchanged DEF Copy_Code, Exit
  <2> QED
    BY <2>1, <2>2
<1>2. ASSUME NEW f, get_code_end(f)
      PROVE  CodeInv'
  BY <1>2, CodeUnchanged DEF get_code_end, Exit
<1>3. ASSUME NEW f, NEW g, Identical_Code(f, g)
      PROVE  CodeInv'
  BY <1>3, CodeUnchanged DEF Identical_Code, Exit
<1>4. CASE UNCHANGED vars
  BY <1>4, CodeUnchanged DEF vars
<1> QED
  BY <1>1, <1>2, <1>3, <1>4, AllocateKeepsCode, StackPushKeepsCode, StoreKeepsCode,
     PushBackKeepsCode DEF Next

\* Until the heap is too full for a copy of some function, neither the object
\* file nor any copy made by Copy_Code is ever damaged.
THEOREM CodeStaysIntact == Spec => []CodeIntact
<1>1. CodeInv => CodeIntact
  BY DEF CodeInv
<1> QED
  BY <1>1, CodeInit, CodeStep, Invariant, PTL DEF Spec
=============================================================================
