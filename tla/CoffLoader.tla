----------------------------- MODULE CoffLoader -----------------------------
(***************************************************************************)
(* From an object file to a machine ready to run (Read_COFF_Object.h and   *)
(* emu_run, emu_init, get_disassembly_listing of x86utm.cpp): the symbol   *)
(* table is searched, the fields of the code that refer to symbols are     *)
(* patched in place, and the whole file, its headers included, becomes the *)
(* memory of the emulator from address 0 on, followed by the heap.         *)
(* A file is a record: what the header says, sections [offset, size,       *)
(* relocs], symbols [name, value, section, function, external], its bytes, *)
(* and the addresses at which the disassembler finds instructions.         *)
(***************************************************************************)
EXTENDS EmuMemory

CONSTANTS Files, Unset, Emu,
          HEAP_SIZE, STACK_SIZE,
          NOP, RET, INT_3               \* opcodes

\* Words of four bytes, the lowest first.
WordSize == ByteSize * ByteSize * ByteSize * ByteSize
WordBytes(x) ==
  LET q1 == (x % WordSize) \div ByteSize
      q2 == q1 \div ByteSize
      q3 == q2 \div ByteSize
  IN  <<(x % WordSize) % ByteSize, q1 % ByteSize, q2 % ByteSize, q3 % ByteSize>>
WordOf(b)    == b[1] + ByteSize * (b[2] + ByteSize * (b[3] + ByteSize * b[4]))
WordIn(c, a) == WordOf([k \in 1 .. 4 |-> c[a + k]])     \* the word at address a of c

Relocation == [offset : Nat, symbol : Nat, type : STRING]
Section    == [offset : Nat, size : Nat, relocs : Seq(Relocation)]
Symbol     == [name : STRING, value : Nat, section : Int, function : BOOLEAN, external : BOOLEAN]
ObjectFile == [i386 : BOOLEAN, sections : Seq(Section), symbols : Seq(Symbol),
               bytes : Seq(Byte), starts : SUBSET Nat]

ASSUME HeapAssumption ==
  HEAP_SIZE \in Nat /\ STACK_SIZE \in Nat /\ STACK_SIZE + 8 <= HEAP_SIZE

\* A file and its heap fit into the memory, the end of them into a word, and
\* relocations refer to symbols.
ASSUME FilesAssumption ==
  /\ Emu \in Mem /\ {NOP, RET, INT_3} \subseteq Byte /\ Size <= WordSize
  /\ Files \subseteq ObjectFile
  /\ \A f \in Files :
       /\ Len(f.bytes) + HEAP_SIZE <= Size /\ Len(f.bytes) + HEAP_SIZE < WordSize
       /\ \A s \in DOMAIN f.sections : \A n \in DOMAIN f.sections[s].relocs :
            f.sections[s].relocs[n].symbol \in DOMAIN f.symbols

VARIABLES file,         \* the object file
          linux,        \* the build: __linux__ or Windows
          stage,        \* how far emu_run has come
          code,         \* ObjectCode
          functions,    \* FunctionNames: address -> code_end
          done,         \* how far the loop of this stage has come
          function_address,     \* of Disassembly_Listing
          esp           \* R_ESP, the top of the stack

loader == <<file, linux, stage, code, functions, done, function_address, esp>>

(***************************************************************************)
(* Symbols.  What is no section counts as the dummy, section 0.            *)
(***************************************************************************)
DataOffset(s) == IF s \in DOMAIN file.sections THEN file.sections[s].offset ELSE 0

First(N) == IF N = {} THEN 0 ELSE CHOOSE n \in N : \A k \in N : n <= k
Named(name) == {n \in DOMAIN file.symbols : file.symbols[n].name = name}

Get_Symbol_Section(name) ==
  LET n == First(Named(name)) IN IF n = 0 THEN 0 ELSE file.symbols[n].section

Get_Symbol_Offset(name, sect) ==
  LET n == First({k \in Named(name) : file.symbols[k].section = sect})
  IN  IF n = 0 THEN 0 ELSE file.symbols[n].value + DataOffset(sect)

CODE_SECTION_INDEX == Get_Symbol_Section(".text")
DATA_SECTION_INDEX == Get_Symbol_Section(".data")
GetCodeEntryPoint  == Get_Symbol_Offset("main", Get_Symbol_Section("main"))
Heap_PTR_variable  == Get_Symbol_Offset("Heap_PTR", DATA_SECTION_INDEX)
Heap_END_variable  == Get_Symbol_Offset("Heap_END", DATA_SECTION_INDEX)

\* The functions of the section of main, and those at address a.
InCode ==
  {n \in DOMAIN file.symbols :
     file.symbols[n].section = Get_Symbol_Section("main") /\ file.symbols[n].function}
AddressOf(n)   == file.symbols[n].value + DataOffset(file.symbols[n].section)
FunctionsAt(a) == {n \in InCode : AddressOf(n) = a}

\* A symbol that lies in no section ends the program.
Unresolved == \E n \in DOMAIN file.symbols : file.symbols[n].section = 0 /\ file.symbols[n].external

(***************************************************************************)
(* PatchAddress_Targets.                                                   *)
(***************************************************************************)
Relocs == IF CODE_SECTION_INDEX \in DOMAIN file.sections
          THEN file.sections[CODE_SECTION_INDEX].relocs ELSE <<>>

FieldOf(r) == DataOffset(CODE_SECTION_INDEX) + r.offset

SymbolAddress(r) == AddressOf(r.symbol)

\* What is in the field is one byte of it, and only the one build adds it.
Addend(c, r) == IF linux THEN c[FieldOf(r) + 1] ELSE 0

\* Mutant: relative to the field in place of the next instruction.
FromField(c, r) ==
  SymbolAddress(r) + Addend(c, r) - (IF r.type = "REL32" THEN FieldOf(r) ELSE 0)

PatchTarget(c, r) ==
  SymbolAddress(r) + Addend(c, r) - (IF r.type = "REL32" THEN FieldOf(r) + 4 ELSE 0)

Patched(c, r) ==
  LET w == WordBytes(PatchTarget(c, r))
  IN  [a \in DOMAIN c |-> IF a - FieldOf(r) \in 1 .. 4 THEN w[a - FieldOf(r)] ELSE c[a]]

Known(n) == n \in DOMAIN Relocs /\ Relocs[n].type \in {"ADDR32", "REL32"}

(***************************************************************************)
(* The steps of emu_run.                                                   *)
(***************************************************************************)
Initialize ==
  /\ stage = "file"
  /\ stage' = CASE ~file.i386 -> "no object file"
                [] file.i386 /\ Unresolved -> "exit"
                [] OTHER -> "patching"
  /\ UNCHANGED <<file, linux, code, functions, done, function_address, esp>>
  /\ UNCHANGED vars

PatchAddress_Targets ==
  /\ stage = "patching" /\ Known(done + 1)
  /\ code' = Patched(code, Relocs[done + 1])
  /\ done' = done + 1
  /\ UNCHANGED <<file, linux, stage, functions, function_address, esp>>
  /\ UNCHANGED vars

\* An entry of unknown type ends the patching.  The ends of the functions are
\* not known yet.
Get_Function_Names ==
  /\ stage = "patching" /\ ~Known(done + 1)
  /\ stage' = "linked"
  /\ functions' = [a \in {AddressOf(n) : n \in InCode} |-> Unset]
  /\ UNCHANGED <<file, linux, code, done, function_address, esp>>
  /\ UNCHANGED vars

Emu_new ==
  /\ stage = "linked"
  /\ New(Emu, {"R", "W", "X"})
  /\ stage' = "writing" /\ done' = 0
  /\ UNCHANGED <<file, linux, code, functions, function_address, esp>>

\* The file and then the heap, byte by byte; then the heap variables.
HeapEnd == Len(code) + HEAP_SIZE

Emu_init ==
  /\ stage = "writing" /\ done < HeapEnd
  /\ Write(Emu, done, 1, WordBytes(IF done < Len(code) THEN code[done + 1] ELSE NOP))
  /\ done' = done + 1
  /\ UNCHANGED <<file, linux, stage, code, functions, function_address, esp>>

WriteHeapVariable ==
  /\ stage = "writing"
  /\ \/ done = HeapEnd     /\ Write(Emu, Heap_PTR_variable, 4, WordBytes(Len(code)))
     \/ done = HeapEnd + 1 /\ Write(Emu, Heap_END_variable, 4, WordBytes(HeapEnd))
  /\ done' = done + 1
  /\ UNCHANGED <<file, linux, stage, code, functions, function_address, esp>>

\* Allocate of the stack, if it fits; the marks its reads leave are cleared
\* below before anyone looks at them.
WordAt(a) == WordOf([k \in 1 .. 4 |-> OwnOf[Emu][a + k - 1]])

AllocateStack ==
  LET top == WordAt(Heap_PTR_variable)
      ok  == top + STACK_SIZE + 8 <= WordAt(Heap_END_variable)
  IN  /\ stage = "writing" /\ done = HeapEnd + 2
      /\ stage' = "stack" /\ done' = 0
      /\ esp' = STACK_SIZE + IF ok THEN top + 8 ELSE 0
      /\ UNCHANGED <<file, linux, code, functions, function_address>>
      /\ UNCHANGED vars

Allocated == esp # STACK_SIZE

WriteBlock ==
  LET top == esp - STACK_SIZE - 8
  IN  /\ stage = "stack" /\ Allocated
      /\ \/ done = 0 /\ Write(Emu, Heap_PTR_variable, 4, WordBytes(esp))
         \/ done = 1 /\ Write(Emu, top, 4, WordBytes(STACK_SIZE))
         \/ done = 2 /\ Write(Emu, top + 4, 4, WordBytes(0))
      /\ done' = done + 1
      /\ UNCHANGED <<file, linux, stage, code, functions, function_address, esp>>

\* Disassembly_Listing_Find_Function: without a function Halts, and a ret at
\* or after it, the program ends.  The marks of accesses are cleared before
\* the listing reads each opcode.
Opcode(a) == OwnOf[Emu][a]

NamedHalts(a) ==
  LET n == First(FunctionsAt(a)) IN n # 0 /\ file.symbols[n].name = "Halts"

HaltsListed ==
  \E a, r \in file.starts : NamedHalts(a) /\ Opcode(a) # INT_3 /\ a <= r /\ Opcode(r) = RET

Find_Function ==
  /\ stage = "stack" /\ (Allocated => done = 3)
  /\ IF HaltsListed THEN stage' = "listing" /\ ResetStats(Emu)
                     ELSE stage' = "exit" /\ UNCHANGED vars
  /\ done' = 0
  /\ UNCHANGED <<file, linux, code, functions, function_address, esp>>

\* The next instruction: every ret ends the function named last, until a
\* later ret of it does.
Disassembly_Listing ==
  /\ stage = "listing"
  /\ \E a \in file.starts :
       /\ a >= done /\ \A b \in file.starts : b >= done => a <= b
       /\ Read(Emu, a, 1)
       /\ done' = a + 1
       /\ function_address' = IF Opcode(a) # INT_3 /\ a \in DOMAIN functions
                              THEN a ELSE function_address
       /\ functions' = IF Opcode(a) = RET /\ function_address' \in DOMAIN functions
                       THEN [functions EXCEPT ![function_address'] = a] ELSE functions
  /\ UNCHANGED <<file, linux, stage, code, esp>>

Listed ==
  /\ stage = "listing" /\ \A a \in file.starts : a < done
  /\ stage' = "ready"
  /\ UNCHANGED <<file, linux, code, functions, done, function_address, esp>>
  /\ UNCHANGED vars

LoaderInit ==
  /\ Init
  /\ file \in Files /\ linux \in BOOLEAN
  /\ stage = "file" /\ code = file.bytes /\ functions = <<>> /\ done = 0
  /\ function_address = 0 /\ esp = 0

LoaderNext == \/ Initialize \/ PatchAddress_Targets \/ Get_Function_Names \/ Emu_new \/ Emu_init
              \/ WriteHeapVariable \/ AllocateStack \/ WriteBlock \/ Find_Function
              \/ Disassembly_Listing \/ Listed

LoaderSpec == LoaderInit /\ [][LoaderNext]_<<vars, loader>>

(***************************************************************************)
(* Properties.                                                             *)
(***************************************************************************)
\* The entries that are patched: those before the first of unknown type.
Reached == {n \in DOMAIN Relocs : \A k \in 1 .. n : Known(k)}

\* What an instruction that uses the field of r means by it.
Meant(r) ==
  WordAt(FieldOf(r)) + (IF r.type = "REL32" THEN FieldOf(r) + 4 ELSE 0)

\* The field of the file holds more than the build's loader looks at.
LostAddend(r) == WordIn(file.bytes, FieldOf(r)) # Addend(file.bytes, r)

Linked(r) ==
  \/ LostAddend(r)
  \/ (Meant(r) - SymbolAddress(r) - WordIn(file.bytes, FieldOf(r))) % WordSize = 0

\* The words that the loader changes: the heap variables and the fields.
ChangedWords == Reached \cup {0, -1}
ChangedAt(n) == CASE n = 0  -> Heap_PTR_variable
                  [] n = -1 -> Heap_END_variable
                  [] OTHER  -> FieldOf(Relocs[n])
Word(n)      == ChangedAt(n) .. ChangedAt(n) + 3
ChangedBytes == {a \in 0 .. Len(file.bytes) - 1 : \E n \in ChangedWords : a \in Word(n)}

\* The file is laid out as compilers do: the words lie in it, apart from each
\* other, and no opcode in one; main is a function, and every function of its
\* section begins with an instruction that is not padding.
Apart ==
  \A n \in ChangedWords :
    /\ ChangedAt(n) \in 0 .. Len(file.bytes) - 4
    /\ \A k \in ChangedWords \ {n} : ChangedAt(k) \notin ChangedAt(n) - 3 .. ChangedAt(n) + 3

LaidOut ==
  /\ Apart
  /\ file.starts \subseteq (0 .. Len(file.bytes) - 1) \ ChangedBytes
  /\ \A n \in InCode : AddressOf(n) \in file.starts /\ file.bytes[AddressOf(n) + 1] # INT_3
  /\ \E n \in Named("main") : file.symbols[n].function /\ \A k \in Named("main") : n <= k

\* The bytes between a function and the next one, or the end of the code.
BodyOf(f) ==
  {a \in file.starts : a >= f /\ \A g \in DOMAIN functions : g > f => a < g}

EndsRight(f) ==
  LET R == {a \in BodyOf(f) : file.bytes[a + 1] = RET}
  IN  IF R = {} THEN functions[f] = Unset
      ELSE functions[f] \in R /\ \A a \in R : a <= functions[f]

\* A machine that is ready runs the program the object file describes: each
\* reference of the code leads to its symbol, nothing else of the file has
\* changed, main is the entry, the end of each function is its last ret, and
\* the stack lies between the file and the rest of the heap, its header below
\* it (PatchAddress_Targets, emu_init, Disassembly_Listing, emu_run).  What an
\* entry of unknown type leaves unpatched, and addends the build loses, are
\* excluded, and so is a file that is not laid out as one is, such as one
\* without the variables of the heap, of which the loader then writes both
\* over the header.
LoadedAsLinked ==
  stage = "ready" /\ LaidOut =>
    /\ \A n \in Reached : Linked(Relocs[n])
    /\ \A a \in 0 .. Len(file.bytes) - 1 : a \in ChangedBytes \/ OwnOf[Emu][a] = file.bytes[a + 1]
    /\ GetCodeEntryPoint \in DOMAIN functions
    /\ \A f \in DOMAIN functions : EndsRight(f)
    /\ LET bottom == Len(file.bytes)
           stack  == bottom + 8
       IN  /\ esp = stack + STACK_SIZE
           /\ WordAt(bottom) = STACK_SIZE /\ WordAt(bottom + 4) = 0
           /\ WordAt(Heap_PTR_variable) = esp
           /\ WordAt(Heap_END_variable) = bottom + HEAP_SIZE
    /\ \A b \in 0 .. Len(file.bytes) + HEAP_SIZE - 1 :
         AttrOf[Emu][b] = {"R", "W", "X", "VALID"} \cup (IF b \in file.starts THEN {"ACC_R"} ELSE {})
=============================================================================
