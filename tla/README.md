# x86utm: a verification development

x86utm executes the machine code of a COFF object file (`Halt7.obj`, compiled
from `src/Halt7.c`) in an emulated 32 bit processor. The object file contains
*simulating halt deciders*: functions that are given the address of another
function, let it execute one instruction at a time by a call of the operating
system (`DebugStep`), record what it did, and stop it when they recognise a
pattern they take for non-termination. This directory models the deciders, the
operating system they run on, the heap they share, the emulated processor with its
instructions and its memory, and the loader of the object file. It checks the
models with TLC, and proves, for every value of the constants, the safety
properties of the deciders, of nested `HHH` and of the heap with its copies of
functions; that the operating system implements a tower of independent processes
and the memory a plain array of bytes; and that the primitive operations of the
processor compute what their instructions name.

## 1. Inventory

| Component | Source | State it keeps | Operations | What makes it correct |
|---|---|---|---|---|
| Deciders with a trace of their own: `H1`, `H_prior`, `Sipser_H`, `Kozen_K` (`Decide_Halting`), `H0`, `T` (`Decide_Halting0`) | `Halt7.c` 135-411, 759-915 | local `EIP`, `Aborted`; `decoded`, `execution_trace`, `master_state`, `slave_state`, `slave_stack` on the heap | step, test for the last `ret`, record, examine (loop, recursion and simulation detectors) | "does not halt" only of inputs that never return; "halts" only of inputs that did; a verdict before the trace is full |
| `HHH` (and `H`, `HH1`, `HHH1`, which differ in name and in the argument they pass on) | `Halt7.c` 428-665, 918-1156 | two static cells in the function body; the shared trace; per activation `Root`, `code_end`, the length of trace seen | `Init_Halts_HH`, step, record, examine if Root, return and unset the cells | one activation decides; the trace is complete; the same question gets the same answer; nesting does not go on for ever |
| Operating system, execution | `x86utm.cpp` 1445-1491, 1644-1708, 1852-2152 | the processor `emu`, `max_instr`, recursion of the host | `Halts`, `Execute_Instruction`, `DebugStep`, `SaveState`, `LoadState`, `Test_Halting` | a simulated process behaves as it would on its own; one instruction per step; one process's HLT is not another's |
| Operating system, heap | `x86utm.cpp` 1127-1148, 1255-1285, 1361-1441, 1495-1544, 1833-1849 | `Heap_PTR`, `Heap_END` and block headers, all in emulated memory | `Allocate`, `StackPush`, `PushBack`, `Copy_Code`, `Identical_Code`, `get_code_end` | blocks disjoint, headers and traces intact, copies equal their originals |
| Decoding of control flow | `x86utm.cpp` 544-716 | none | `Decode_Control_Flow_Instruction` | class and target agree with what the processor does |
| Emulator: instruction loop | `decode.c` | registers, segments, `mode`, `R_TSC`, `line_of_code`, the pending interrupt | `x86emu_run`, prefixes, operand fetch, effective addresses, interrupts | respects its budget; reports the instruction executed; a fault can be restarted |
| Emulator: instructions | `ops.c`, `ops2.c` | the same | one handler per opcode, 256 with one byte and 256 with two | what one instruction does another undoes; strings are processed whole; branches go where the decoder of the operating system says |
| Emulator: arithmetic | `prim_ops.c` | flags | `add`, `sub`, shifts, decimal adjustment, multiplication, division... | results and flags are those of integers, digits and bits |
| Emulator: memory and ports | `mem.c`, parts of `api.c` | page table, permissions and access marks, lent pages, `invalid` | read and write 1, 2 or 4 bytes, permissions, lending, cloning, freeing, port access | as a plain array of bytes for each emulator; clones independent of the original |
| COFF reader, start of a machine | `include/Read_COFF_Object.h`, `x86utm.cpp` 393-424, 2154-2337 | object file image, symbol table, function names | search, relocate, find functions and their ends, fill memory, allocate the stack | the machine runs the program the file describes; every function found with its own end |
| ELF reader | `include/Read_ELF_Object.h`, `Test_ELF.cpp` | object file image | print sections and symbols | not part of x86utm yet |
| Output, options, historic deciders | `x86utm.cpp` (listings), `Halt7_*.c` | none | | |

**How they interact.** Everything is one sequential host program. `emu_run`
reads the object file, sets up the heap in the emulated memory and calls `Halts`,
which executes the guest's `main` one instruction at a time through
`Execute_Instruction`. A call of one of the empty stubs of `Halt7.c` is caught
there and performed by the host. `DebugStep` is such a stub, and the only one that
recurses: it saves the caller's registers, loads those of the slave, calls
`Execute_Instruction` again (where the slave may itself be calling `DebugStep`),
and switches back. Guests share one emulated memory; so do the static cells of
`HHH` and the trace they point to.

**What is hard.** There are no threads, but there is interleaving: a tower of
simulated processes shares one processor, one budget of instructions and one
pair of static cells, and what happens between two steps of an outer process is
any number of steps of inner ones. Failure is partial: a full trace ends the
program in the middle of a decision, a failed allocation is not always noticed.
And the deciders draw conclusions about the whole future of an input from a
finite trace. `PROJECT.json` lists the hazards at their lines, and for each what no
property covers: what an assumption, a proviso or a named exception leaves out.

## 2. Plan

The modules are written in this order, the deciders first because they are what
the program is for.

| | Module | Content | State |
|---|---|---|---|
| A | `HaltDecider`, `MCHaltDecider`, `HaltDeciderProofs` | one decider, one input, and how the input goes on afterwards | written, checked, five theorems proved |
| B | `NestedSimulation`, `MCNestedSimulation`, `NestedSimulationProofs` | `HHH` in recursive activations | written, checked, five theorems proved |
| C | `GuestCode`, `Processes`, `VirtualMachine`, `MCVirtualMachine`, `VirtualMachineProofs` | the operating system, and the tower of processes it implements (refinement) | written, checked, four theorems and the refinement proved |
| D | `GuestHeap`, `MCGuestHeap`, `GuestHeapProofs` | the heap | written, checked, five theorems proved |
| E | `Words`, `PrimOps`, `LogicOps` | the primitives of `prim_ops.c`, each once for all widths | written, checked |
| F | `EmuDecode`, `EmuOps`, `EmuOps2` | the machine of `decode.c` and the handlers of both opcode tables | written, checked |
| G | `Emulator`, `Numbers`, `EmuProperties`, `MCArithmetic`, `MCEmulator` | the loop of `x86emu_run`, what it promises, and the programs for TLC; `Decode_Control_Flow_Instruction` against the handlers | written, checked |
| H | `FlatMemory`, `EmuMemory`, `MCMemory` | the memory as its users take it, and as `mem.c` has it (refinement) | written, checked |
| I | `MemoryProofs` | type invariant, ownership of blocks, and the refinement of H | proved |
| J | `CoffLoader` (in the run of H), `LoaderProofs` | from an object file to a machine ready to run, over `EmuMemory` | written, checked, proved |
| K | `ArithmeticProofs` | the primitives of E against the definitions of `Numbers`, for every width | nineteen theorems proved |
| L | `EmuProofs` | four promises of G for whole programs, over K: binary arithmetic, shifts, comparisons, decimal arithmetic | four theorems proved |

Left for later: the heap and the activations of `HHH` could be composed, for failed
allocations in `Init_Halts_HH`. `EmuDecode` has a memory
of its own, an array of bytes; that `mem.c` is such an array is what
`ImplementsFlat` says, so the two need no composition of their own.

## 3. The modules

### HaltDecider

An input is a program over addresses `1..CodeSize`. Of an instruction only what
moves the instruction pointer or the stack, or what the decider is told about it,
is kept: `JMP`, `JCC`, `CALL`, `RET`, `PUSH`, the transfers through pointers
(`CALLR` = `call [ebp+n]`, `CALLX`, `JMPX`), `JO`, `POP`, and `OTHER`. Data is
abstracted, so a conditional branch goes either way and a transfer through a
pointer goes anywhere.

| Model | Code |
|---|---|
| `eip`, `stack` | `slave_state->EIP`; the words at and above the slave's `ESP` |
| `DebugStep` | `EIP = slave_state->EIP; DebugStep(...)`: `Execute` is the instruction, `Decode` what `decoded` then holds |
| `InputHalted` | `if (EIP == code_end) return 1;` |
| `PushBack`, `OutOfMemory` | `PushBack`, with its `exit(0)` when the trace is full |
| `Examine` | `Needs_To_Be_Aborted` and the loop condition; returns 0 when a detector fires |
| `Infinite_Loop`, `Infinite_Recursion`, `Infinite_Simulation` | the three detectors: their backward loop with a branch counter is "no `JCC` from entry n on"; the third counts the `PUSH` entries, backward too, and compares the last with the first argument and the one before with the second (`PushesFrom`) |
| `Args`, `Frame` | the only difference between `Decide_Halting` (two arguments, one of them on the slave's stack) and `Decide_Halting0` |
| `RunDirectly` | no code: what the input would do had it not been stopped |

`RunDirectly` is what gives the verdict a meaning. The code never runs the input
again; the model lets it go on from the very state the simulation was left in, so
"does not halt" can be compared with what happens.

### NestedSimulation

`processes` is the stack of processes, `main` first; `activations[k]` is the
activation of `HHH` that runs in process k and simulates process k + 1. All
share `traceSet` (is the static cell `execution_trace` different from
0x90909090) and `trace`. One step of the model is one handler step of the
innermost process, except that the Root, whose own `DebugStep` is then over,
examines a trace that has grown before anything else happens (`RootMustLook`).
`Return` is the epilogue of `HHH`, which unsets the cells in every activation.
When a Root aborts, everything it simulates is dropped with it. A `PushBack`
through an unset cell reads a capacity from unmapped memory and ends the
program, as a full trace does.
`main` is written by the user of `HHH`: in `Halt7.c` it asks once; the one
modelled asks twice, then calls the input, which is what the answers are about.

### GuestCode, Processes, VirtualMachine

`Processes` is the promise: a tower of processes, each with registers of its
own; the running one executes an instruction, and this completes the steps of all
those below it. `VirtualMachine` is the code: one processor `emu`, the blocks
`master`, `slave` and `decoded` of each process in memory, the recursion of the
host (`level`, `pc`), and the budget `R_TSC < max_instr` that makes the nested
calls of `x86emu_run` return without executing anything more. `View(k)` is the
refinement mapping: the registers of process k are on the processor, in the block
its stepper keeps, or in the block it was saved to, and a step that has used up
the budget has already happened.

### GuestHeap

Memory is one array of words (4 bytes), with addresses modulo `Modulus`.
`Allocate` writes capacity and size in front of the block; `StackPush` fills a
block from its top, `PushBack` from its beginning. `Copy_Code` allocates and
copies a function, and when the allocation fails it copies to address 0 all the
same, over the object file. `blocks`, `pushed` and `copies` are history
variables. Guests store only inside their own structures and stacks.

### Words, PrimOps, LogicOps

The source repeats each primitive for `u8`, `u16` and `u32`; here the width is a
parameter and `ByteBits` the size of a byte. A flag register is the set of flags
that are on; `Update(fl, defined, on)` stands for the sequences of
`CONDITIONAL_SET_FLAG`. What C leaves undefined is left to the host: a quotient
that overflows in the host ends it ("dead") or not, a rotate through the carry by
all 32 bits is not asked. `LogicOps` holds the four bitwise primitives (`and`, `or`, `xor`,
`test`) and the operators of C that they use, put together half byte by half byte
(`FromBits`) and not by recursion, so that handlers can be proved about.

### EmuDecode, EmuOps, EmuOps2, Emulator

`m` is one record: registers, segments with their cached descriptors, mode, table
registers, memory (a function of the bytes that differ from the initial 0), the
model-specific registers, a pending interrupt, and `line`, the `line_of_code` that
`x86utm.cpp` reads. An instruction is a record of what its bytes say; the bytes are
abstracted to their number. `Fetched` is the part of `x86emu_run` before
the handler (prefixes, mode, address of the operand), `Retired` the part after it
(interrupts through the vectors of the real mode or the gates of the protected
one, the restart of a fault, `R_TSC`). The actions of `Emulator` are the handlers
by group; `left` is the machine between handler and interrupt, which is what
`FaultsRestart` is about.

| Model | Code |
|---|---|
| `Rm`, `SetRm`, `AtRm` | `decode_rm_*_address` and the fetch or store that follows, or the register of `mod = 3` |
| `Push`, `Pop`, `Peek`, `Poke` | `push_word`, `pop_long`, `fetch_data_*`, `store_data_*`, with the check of the limit |
| `LoadSeg` | `x86emu_set_seg_register`: real mode, or the descriptor at its address |
| `UD`, `GP`, `Raise` | `INTR_RAISE_UD`, `INTR_RAISE_GP`, `x86emu_intr_raise` |
| `Execute`, `Outcome`, `OutOfBudget` | the passes and the ends of the loop |

### Numbers, EmuProperties

What the emulator promises, stated without the primitives: integers, digits, bits,
relations of operands, whole strings. `Numbers` has the definitions of these that
the runs and the proofs share: what a condition says of two integers, where each
bit goes in a shift, the number that two digits stand for. `Decode_Control_Flow_Instruction` is here
too: it is applied to each instruction and the machine after it, as
`Execute_Instruction` does. Where the emulator does not keep the promise, the exception has a
name, so that it can be read and not only missed: `NotUndone` (four pairs that
do not cancel), `ListedAsOther` (0x70, the counting loops, far returns),
`ChangesAnyway` (handlers that go on after they refused), `MovesWrongly` (the signed
conditions of `cmov`).

`conditional_move` has a table of conditions of its own (`Noop`). It compares
`ACCESS_FLAG(F_SF)` with `ACCESS_FLAG(F_OF)`, that is bit 7 of the flags with bit 11,
which are equal only when both are clear; `eval_condition`, which jumps and sets
use, reduces both to 0 or 1 first. So after a comparison that leaves both on -
the difference is at least half of the range - `cmovl` and `cmovle` move and
`cmovnl` and `cmovnle` do not, although the greater operand was compared with the
lesser. `ComparisonsDecide` says what a move then does; `MovesDecide` says what its name
promises, and `Emulator_moves` shows that it does not hold.

`TasksAssumption` says what a program of the kinds "arith", "shift", "decimal" and
"compare" is: the machine it starts in (`Fresh`), how its instructions lie behind each
other with a `hlt` at the end (`InSequence`), and which instructions and operands it
has (`ArithTask`, `ShiftTask`, `DecimalTask`, `CompareTask`). It fixes neither the width
of a byte nor the values of registers, flags, segments and tables, and the programs
that TLC runs meet it. An "arith" program is one instruction on EAX, EBX or an
immediate. Where it divides, it is in the real mode and the vector of the divide error
leads out of its code (`DivideErrorLeaves`): the machine at the end is then either the
one after the division or the one at the vector, never one that a handler of the
guest has worked on.

### FlatMemory, EmuMemory

`FlatMemory` is the promise: an array of bytes with attributes for each emulator, in
which a word is its bytes wherever they lie. `EmuMemory` is `mem.c`: pages with
default permissions that get a block on their first use, content that may be
lent by the host, the short cut for words within one allowed page, copies of
pages when an emulator is cloned. A block is named by the page it was made for,
so that a pointer copied carelessly points to another page's block. The state
functions `AttrOf`, `OwnOf`, `LentOf`, `HostOf` are the refinement mapping. What
the code does and a plain array would not is part of the promise under a name:
`Reached` (permissions from address 0 end with the first page), `LowByteOnly` (a port
write that is refused somewhere sends the lowest byte to the rest). The tables
of a memory are made at once: the default permissions never change, so that a
table made later is the same.

### CoffLoader

A file is a record of what the reader finds at its offsets. `stage` is how far
`emu_run` has come and `done` how far the loop of this stage has; every loop makes
one round per step, and every access is a call of `EmuMemory`.

| Model | Code |
|---|---|
| `Initialize`, `PatchAddress_Targets` | `COFF_Reader::Initialize`, and an entry of the relocations per step |
| `Get_Function_Names` | the entry of unknown type or the end of the entries, and the functions of the section of `main` |
| `Emu_new`, `Emu_init` | the machine, and a byte of the file or of the heap per step |
| `WriteHeapVariable`, `AllocateStack`, `WriteBlock` | `Heap_PTR` and `Heap_END`, and `Allocate` of the stack |
| `Find_Function` | the search for `Halts` and its `ret`, which may `exit(0)`, and `x86emu_reset_access_stats` |
| `Disassembly_Listing`, `Listed` | an instruction of the listing per step, and its end |

`LoadedAsLinked` is about files that are laid out as compilers lay them out
(`LaidOut`): the words the loader changes lie in the file and apart, no instruction
begins in one, `main` is a function, and every function begins with an instruction
that is not padding. Named exceptions are entries behind one of unknown type
(`Reached`) and `LostAddend` (of the addend one byte is looked at, in one build).
What the constants have to satisfy is `FilesAssumption`: the file and its heap fit
into the memory, their end into a word, and relocations refer to symbols of the table.

## 4. The runs

Deadlock is not checked because each of these systems really stops: a decider
has returned, a program has exited, `Halts` has ended, a program of the emulator
has run off its end, a machine is loaded. Only the number of calls of the memory
and of the heap is a bound of the model.

| Run | What it asks | Bounds |
|---|---|---|
| `HaltDecider_verdicts` | Are verdicts right for loops with branches, blind spots and early returns; for calls, callbacks and recursion; is a call of the own decider recognised exactly by its arguments; is the trace a path? | three families of programs (below), trace of 8, stack of 5 |
| `HaltDecider_decided` | Is every input without data-dependent control decided? | 5 slots, trace of 30, which no such input fills |
| `HaltDecider_falserecursion` | Is "does not halt" always right? No. | 6 slots, calls and returns |
| `HaltDecider_innerreturn` | Is "halts" always right? No. | 3 slots |
| `Nested_simulation` | Root, shared trace, agreement, who is misjudged; does `HHH` come back? | every program of two functions of 4 and 2 slots, trace of 9 |
| `Nested_losttrace` | Does the Root keep its trace? No. | the same, fewer kinds |
| `VirtualMachine_guests` | Transparency, budget, reports, halting; does `Halts` end? | 3 processes of 5 instructions, cap of 24 instructions |
| `GuestHeap_blocks` | Blocks, headers, traces and copies | heap of 15 words in 32, entries of 2 words |
| `GuestHeap_copies` | Are copied functions found? No. | heap of 9 words |
| `Emulator_moves` | Does `cmov` decide what it names? Not the signed conditions. | the comparisons of `Emulator_programs` with a move behind them |
| `Emulator_programs` | Do instructions compute what they name, undo each other, restart after a fault, and branch where they are decoded to? | programs of one to five instructions, bytes of 6 bits, budget of 12 instructions |
| `Memory_calls` | Is the memory a plain array, are blocks owned, is a loaded file the program it describes? | two emulators, 8 pages of 4 bytes, one buffer, 5 ports, 4 calls; 30 files of 22 bytes |

*The families of `HaltDecider_verdicts`.* The input lies in slots 1 to 5 and ends
with the `ret` in slot 5, a function it may call in slots 6 and 7; slot 8 stands
for the decider, whose call returns. Each family is every program its kinds make
of its free slots (`LoopPrograms`, `CallPrograms`, `SelfCallPrograms` in
`MCHaltDecider`); they share one state graph and so one run.

*Why the bounds are enough.* A loop needs a jump, its target and an instruction
between them; a false recursion needs two callers, a helper and its callee, which
is six slots. The sets of programs are complete for their free slots, so every
arrangement of these instructions is there. Traces are long enough for each
pattern to occur twice and, except in `HaltDecider_decided`, short enough to be
exhausted. Three processes are the fewest in which a slave is itself a master
that has a slave. The heap of `GuestHeap_blocks` holds a structure, a stack and a
trace exactly, or copies in their place, so every block is once the last that
fits and once the first that does not.

*The programs of `Emulator_programs`.* Each is an initial state: arithmetic of all
forms over six operands at the boundaries of each width (0, 1, the largest and
least signed ones, all ones); comparisons followed by every condition of jumps, moves and sets;
all pairs of decimal numbers of one byte; shifts by every count up to past the
width; about a hundred short programs that should cancel, with both widths of
code and stack, with and without the prefix for the other width; string instructions with every prefix,
direction, overlap and count; branches; faults in flat, protected and limited
segments. Every opcode of the tables occurs, which is why the disjuncts of `Next`
all fire. Bytes of 6 bits keep the double word at 24 bits, within TLC's
integers with room for products of half words, and still have a half byte in which a decimal
digit (`Ten` = 5, four digits) fits with room above it, as in the source; `ByteBits`
8 is allowed by the assumptions and is what the source has. Four model-specific
registers, of which one counts instructions (`TscMsr`), stand for 256.

*The calls of `Memory_calls`.* Ranges lie within a page, over the border of two,
and round the end of the address space; permissions are full, read-only and
write-only. Four calls are enough to make a page, change it, clone and free it, and
look; more add nothing that a fifth call would see, since what has been called and
returned does not matter for what comes next (`MCView` leaves it out of the
state's identity). Files have each type of reference, from both functions, forward and
back, with and without an addend, unknown types, missing symbols, unresolved
symbols, and a function without `ret`; both builds load each.

*What the passing runs show.* The verdicts of the detectors are right as far as
the trace determines what comes next, and no further (`BlindSpot`); "halts" is
right for inputs whose last `ret` only their outermost call executes
(`SelfContained`). In `HHH`, the Root is always the outermost activation and
nothing executed at any level escapes its trace while the cell points to it; it
answers the same twice; an input that never calls `HHH` and calls nothing else is
never judged "does not halt" and then seen to return; an input judged "halts" does return,
unless it calls itself. The operating system is transparent: simulation at any depth
refines the tower of processes.

Of the emulator: every arithmetic instruction computes the integer it names
(`ArithmeticIsExact`), conditions decide the relation that was compared
(`ComparisonsDecide`, with the opposite for a `cmov` that `MovesWrongly`), the adjustments give decimal sums and differences
(`DecimalIsExact`), rotates and shifts move each bit by the count, for counts
below the width (`ShiftsMoveBits`), pairs restore everything (`PairsUndo`), strings
are processed whole in either direction (`StringsAreExact`), what the deciders
are told of control flow is where the processor goes (`BranchesAsDecoded`), and a
refused instruction finds everything as it was when it is executed again
(`FaultsRestart`) - each with the exceptions named in `EmuProperties`. Of the
memory: pages, short cuts, lent pages and clones never show (`ImplementsFlat`),
clones own what they point to (`BlocksOwned`), and a machine that is ready has
every reference patched, nothing else changed, the right ends of functions and
its stack in the heap (`LoadedAsLinked`).

*What the violations show.* `PROJECT.json` "findings" quotes for each the
sentence of the repository it contradicts: two wrong verdicts (returns are not
counted as escapes; an inner return is taken for the end), a trace the Root
loses, copies of functions that nothing but `Copy_Code` itself can handle, and
signed conditional moves that do the opposite of what they name.

One divergence has no run, because a look at the code settles it: the comment at
`x86utm.cpp:1638` says that `DebugStep` returns `HALTED` for a slave that
terminates normally, but its `Halt_Status` is `EXECUTING` from line 1648 on and is
assigned nowhere (the assignment at 1668 is commented out). `EndDebugStep` returns the
constant, as the code does.

## 5. Fairness

Host and guests are one sequential program on one processor that never waits for
anything: whenever a next step exists it is taken. `WF_vars(Next)` in
`NestedSimulation` and `VirtualMachine`, and `WF_vars(Decide_Halting)` in
`HaltDecider`, say no more than this. `RunDirectly` is not fair: no code does it.
No property relies on a choice between enabled alternatives being fair:
conditional branches may always go the same way. The emulator and the memory are
asked for safety only and have no fairness.

## 6. What is proved

The modules whose names end in `Proofs` are checked by TLAPS for every value of the
constants that meets the assumptions named in the modules they are about:
`SizeAssumption` and `ProgramAssumption` (`HaltDecider`), `NestedAssumption`,
`GuestAssumption` and `MachineAssumption` (the operating system), `SizeAssumption`,
`RequestAssumption`, `CodeAssumption` and `FillAssumption` (`GuestHeap`),
`SizesAssumption` and `CallsAssumption` (memory), `HeapAssumption` and `FilesAssumption`
(loader), `WordsAssumption` (arithmetic), `DecodeAssumption`, `MSRsAssumption`, `BudgetAssumption`
and `TasksAssumption` (emulator).

**HaltDecider.**
- `TypeCorrect`.
- `TraceFollowsInput`: `TraceIsPath` is inductive together with `FaithfulTrace`
  (each entry describes the instruction at its address) and `LoopControl`.
- `NonHaltingVerdictIsSound`: the invariant adds `Trapped`. Between the matched
  entry and the current one the trace is a path without an instruction whose
  outcome it does not determine, and its last instruction leads back to
  the entry (`EvidenceIsCycle`). So an input that stands on one of these addresses
  stays on them, whatever it does, and none of them is the end of code. The
  soundness property alone is not inductive: it says nothing of where the input
  is.
- `HaltingVerdictIsSound`: `Balanced` says that in a self-contained program the
  input's frame is the lowest on the stack exactly while it is executing, so its
  last `ret` pops the return address it started with.
- `SimulationVerdictIsExact` (an action property): for inputs whose only calls
  are those of the decider (`CallsOnlyDecider`), a call of the decider is
  reported as recursive simulation exactly when it has the decider's own arguments
  and no conditional branch came before. The detector never sees the stack; it
  counts the `PUSH` entries of the trace. `PushInv` ties the two together: the words
  on the slave's stack above its first return address are the words pushed in the
  trace, one for one (`HoldsPushes`).

**NestedSimulation.** The invariant `IInv` ties the stack of processes to that of
activations (`Levels`, `Stacks`), says how far `main` has come (`Phase`,
`MainProcess`) and what the two static cells may be at which point (`Cells`).
- `OnlyOneRoot`: an inner activation that returns unsets the cells, after which
  an activation that starts would be a second Root. It never comes to that: the
  innermost process that goes on has first to record its instruction, and
  `PushBack` finds no trace and ends the program. `Cells` is what says so.
- `TraceIsComplete`: `TraceCoversAllLevels` is inductive with the same facts.
- `PlainInputsAreJudgedRight` (`OnlyCallersOfHHHMisjudged`): the trace of an input
  that calls nothing is the path of a function of addresses (`Leads`); when the
  detector fires, its addresses are a set that `Leads` does not leave
  (`Trap`), and no member of it is the `ret`. `PlainInv` keeps this through
  both decisions until the input runs on its own.
- `SameQuestionSameAnswer`: what a decision does next is a function
  `Move` of the stack of processes, the activations, the cell and the trace, and
  so is its answer. The invariant `SamePath` names the path of machines of
  the first decision and says where on it the second one is.

**VirtualMachine.** The invariant `IInv` says where the registers of each process
are while the host is in a nested `DebugStep` (`Waiting`, `AsEntered`), that the
budget of an iteration is one instruction (`Budget`), and whose HLT the mode
tells of (`HaltIsOwn`). `BudgetIsOneInstruction`, `SlavesNeverHaltMachine` and
`StepsAreReported` follow. `SimulationIsTransparent` is the refinement: under
`View`, the execution within the budget is the one step of the tower, a call of
`SaveState` or of another service is a step of its own, and all else is a stutter -
the switches of `DebugStep` on the way in, because no process has moved yet, and on the way
out, because in the tower all the STEPs have ended already.

**GuestHeap.** The invariant `IInv` is the conjunction of the checked properties
`TypeOK`, `BlocksDisjoint`, `HeadersIntact` and `TracesIntact` with three facts: the
heap begins at or after the object file, and the traces pushed to are exactly
the trace blocks. Each operation writes only within one block and its header
(`WriteStep`), so every other block stays as it was (`OthersSound`). The
theorems are `TypeCorrect`, `BlocksNeverOverlap`, `HeadersStayIntact` and
`TracesStayIntact`. That a request never reaches past the last address
(`RequestAssumption`) is needed: the check in `Allocate` wraps around without
it. `CodeStaysIntact` adds that each copy is a block of its own
(`CopiesAreBlocks`). A `Copy_Code` whose allocation fails writes over the object
file; the property is therefore about heaps in which a copy of every function
would still fit, and it is inductive because `Heap_PTR` never falls: where everything
fits now, no copy has failed before.

**Memory.** The invariant `IInv` says of every page that it either has no block
and no content of its own, or belongs to a living emulator, points to the block named after
it, and has its content there or in a lent buffer (`Good`); the rest is typing.
`BlocksOwned` follows from it, and it is what makes the refinement mapping
change at the bytes an action is about and nowhere else: two pages that shared
a block would both show a write to one. The short cut and the loop over bytes
are each brought to one form (`ReadDone`, `WriteDone`: which flags and cells the
access leaves, as a function of the address), and from this form on there is one
proof that the access is one of `FlatMemory` (`ReadShape`, `WriteShape`). So the
case that the page decides which way an access takes is settled once, and what is
left to each way is arithmetic of page and index (`PageIndex`, `InPageFacts`).
Every other action has a lemma of its own (`NewSim` ... `SetIoPermSim`): it keeps
`IInv` and is the action of `FlatMemory` with its name. The theorems are
`Invariance`, `TypeCorrect`, `BlocksAlwaysOwned` and `BehavesAsArray` (the
refinement: `Begins` for the initial states, `Steps`, and `Stutters`). The
assumptions ask for at least two pages of at least four bytes, so that a double
word touches at most two, and for calls whose addresses and ranges are in the address space.

**CoffLoader.** `LoadsAsLinked` is `LoadedAsLinked` for every file, every number of
relocations, sections and symbols, both builds and all sizes. The invariant `Sane`
has a part for each stage: the entries before `done` are patched and nothing else is
(`PatchedTo`), the bytes before `done` are written and may be accessed (`Written`),
the words of the heap and of the block of the stack hold what has been written so far
(`AtWriting`, `AtStack`), and the functions named so far have as their end the
last `ret` the listing has come across (`NamedLast`, `Ends`). The fields are apart
from each other and from the variables of the heap, so a later write leaves an
earlier one (`PatchStep`, `WordStep`); the addend is read from a field nobody has
patched yet (`TargetIsInt`); and the next instruction belongs to the function named
last and to no other (`NextBelongs`). What a call of the memory does to its bytes
is taken from the refinement of the memory (`WriteEffect`, `ReadEffect`,
`ResetEffect`, `NewEffect`), so the theorem goes through pages, blocks and short cuts
as the code does. The bytes of a word and the number they stand for are one lemma
(`WordRoundTrip`).

**Arithmetic.** `ArithmeticProofs` is about the operators of `PrimOps`, which every
handler calls, and states what they compute in the definitions of `Numbers`, for
every width, all operands of that width, every value of the flags and every
count: `AdcIsExact`, `SbbIsExact`, `IncDecAreExact`, `NegIsSubtraction`, `MulIsExact`,
`ImulIsExact`, `DivIsExact`, `IdivIsExact`, `ConditionsDecide`, `RotatesMoveBits`,
`CarryRotatesMoveBits`, `ShiftsMoveEveryBit` (counts below the width), `RotatesUndo`,
`DaaIsExact`, `DasIsExact`, `AaaIsExact`, `AasIsExact`, `AamIsExact`, `LogicIsBitwise`. The runs ask the same of whole instructions, with
decoding, operands and writing back, for bytes of six bits and operands at the
boundaries. The lemmas are about powers of two (counted as sets of subsets,
since induction is out of reach), quotients and remainders, the bits of sums of parts
(`BitOfJoin`, `BitOfTrunc`, `Funnel`), and the chain of carries through which
the source finds carry, overflow and auxiliary carry from three words
(`CarryChain`). That a half byte put together from bits has those bits (`FromBitsHolds`)
and that a word other than 0 has a highest one (`TopOne`, for `bsr`) need a least
member of a set of numbers, which is taken from the well-foundedness of finite
sets (`LeastOf`).

**Emulator.** `EmuProofs` carries this from the primitives to programs:
`ArithmeticAlwaysExact`, `ShiftsAlwaysMoveBits`, `ComparisonsAlwaysDecide` and
`DecimalAlwaysExact` are `ArithmeticIsExact`, `ShiftsMoveBits`, `ComparisonsDecide` and
`DecimalIsExact` for every program that `TasksAssumption` allows, whatever its
registers, flags, segments, width and place in memory. What lies in between is what could go wrong there: which width an instruction
works in (`WidthOfTask`), that fetching and retiring leave registers and
flags alone (`FetchedFacts`, `Quiet`), that a write to a part of a register keeps the
rest, AH and AL apart (`PutFacts`, `PutAL`, `AccumulatorBytes`), that the budget may end
the run anywhere and no other handler can take the instruction (`Dispatch`,
`Groups`), that the table of conditions of `cmov`, which says when to do nothing, is the
opposite of `EvalCondition` except for signed conditions with both SF and OF on, where it
is the same (`NoopIsNot`), and that a comparison leaves both on exactly when the difference
is at least half of the range (`BothOn`); so a move does what `Found` says, which for
all other instructions is the relation (`OthersRight`). `Keeps` says which fields of a machine a part of a step
may change, and `Advances` that a handler that keeps to registers, flags and
instruction pointer leads to the next instruction. On these the invariants
`ArithInv`, `ShiftInv`, `DecimalInv` and `CompareInv` say for each instruction of a program what
the machine holds when it is about to be executed: after a comparison that its flags
decide the relation (`Known`), after the set that DL is the answer (`Between`), after
the sum that AL and the flags are those of the binary sum (`Mid`). In `ArithInv` the
machine is the first one, the one after the instruction, which holds what `Computes`
says, or the one that the divide error has led to its vector; the last is not at an
address of the code, so the program ends there with `Interrupted`, and the primitives
say that there was no quotient.

**Only model-checked.**
- All liveness (`DeterministicInputsDecided`, `AnswerOrExit`, `HaltsMeansReturns`,
  `Stops`), which is out of the prover's reach.
- `StringsAreExact`, `PairsUndo`, `BranchesAsDecoded` and `FaultsRestart`. Their
  programs reach through memory, segments, gates and repeated instructions, of every
  form, and have no assumption that says what they are. What a repeated string
  instruction has done after n repetitions is moreover an induction over its count.

## 7. What is not modelled

- Of the emulator: the text of the disassembly, logging and statistics of MSR
  accesses, the counters of port accesses and the host's own I/O privilege, the
  trace, breakpoint and time limit flags of `x86emu_run` (`X86EMU_RUN_LOOP`,
  `X86EMU_RUN_TIMEOUT`), and handlers set by a caller, which x86utm does not set. The
  descriptors and gates in memory are constants; a port may not be accessed (it
  reads as ones) and `cpuid` has no handler, as in x86utm. Of the bytes of an
  instruction only their number is kept.
- Of the loader: reading the file, printing it, and the second pass of the
  emulator over the code that makes the listing, of which only the addresses it
  finds are kept (`starts`). A file that is not an object file ends the model;
  the code goes on with heap variables that were never set. References in sections other than the code are not
  patched by the code either.
- `LoadState` called by a guest: no guest does.
- The stack of a slave growing down into its own header: nothing in the code
  bounds it, and inputs of the model do not overflow it; and that an activation
  of `HHH` does not look at failed allocations (`Halt7.c:931`).
- What becomes of a program after a failed `Copy_Code` has overwritten its code
  (`CodeIntact` is stated for heaps in which every copy fits), requests that wrap round
  32 bits (`RequestAssumption`), and verdicts that rest on calls whose target the
  deciders do not know (`BlindSpot`).
- The ELF reader (not linked into x86utm), earlier versions of the deciders
  (`Halt7_Commented_Out.c`, `Halt7_Temp.c`, `Halt7_Strachey.c`), options and
  vendored headers.
