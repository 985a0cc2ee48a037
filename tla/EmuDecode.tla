----------------------------- MODULE EmuDecode -----------------------------
(***************************************************************************)
(* The machine that decode.c drives: registers, segments, mode, emulated   *)
(* memory and a pending interrupt, in one record m.  An operator takes the *)
(* machine and gives the machine it leaves, or a value it reads.           *)
(*                                                                         *)
(* An instruction i is a record of what its bytes say: op, the prefixes,   *)
(* whether it is the byte form, the fields of the modrm and sib bytes, the *)
(* displacement and the immediates.  Its bytes themselves are abstracted   *)
(* to their number, which is what moves the instruction pointer.           *)
(***************************************************************************)
EXTENDS LogicOps, Sequences, TLC
LOCAL INSTANCE FiniteSetsExt

CONSTANTS
  FlagBit,      \* the position of each flag in the flags register
  Descriptors,  \* the segment descriptors that are present, by address
  Gates,        \* the interrupt gates of the protected mode, by address
  Disassemble   \* the emulator only lists the code

ASSUME DecodeAssumption ==
  /\ DOMAIN FlagBit = Flags
  /\ \A f, g \in Flags : f # g => FlagBit[f] # FlagBit[g]
  /\ Disassemble \in BOOLEAN

EAX == 0  ECX == 1  EDX == 2  EBX == 3  ESP == 4  EBP == 5  ESI == 6  EDI == 7
ES  == 0  CS  == 1  SS  == 2  DS  == 3  FS  == 4  GS  == 5  NOSEG == 6

Ones(w) == 2 ^ w - 1
Goto(m, eip) == [m EXCEPT !.eip = eip]
NoIntr  == [nr |-> 0, kind |-> {}, err |-> 0]

(***************************************************************************)
(* Registers.  A byte register 4 .. 7 is the second byte of 0 .. 3.        *)
(***************************************************************************)
High8(w, n) == w = ByteBits /\ n >= 4
Get(m, w, n) == IF High8(w, n) THEN High(Trunc(m.r[n - 4], WordBits), ByteBits)
                ELSE Trunc(m.r[n], w)
\* Only the named part of the register changes.
Put(m, w, n, v) ==
  IF High8(w, n)
  THEN [m EXCEPT !.r[n - 4] = @ - Get(m, w, n) * 2 ^ ByteBits + v * 2 ^ ByteBits]
  ELSE [m EXCEPT !.r[n] = @ - Trunc(@, w) + v]

FlagsWord(fl) == 2 + MapThenSumSet(LAMBDA f : 2 ^ FlagBit[f], fl)
FlagsOf(x)    == {f \in Flags : Bit(x, FlagBit[f])}

(***************************************************************************)
(* Interrupts are raised by a handler and taken after it; the first wins.  *)
(***************************************************************************)
Raise(m, nr, kind, err) ==
  IF m.intr = NoIntr THEN [m EXCEPT !.intr = [nr |-> nr, kind |-> kind, err |-> err]] ELSE m
DIV0(m)     == Raise(m, 0, {"SOFT", "RESTART"}, 0)
Soft(m, n)  == Raise(m, n, {"SOFT"}, 0)
GP(m, err)  == Raise(m, 13, {"FAULT", "RESTART", "ERRCODE"}, err)
UD(m)       == Raise(m, 6, {"FAULT", "RESTART"}, 0)

Stop(m) == [m EXCEPT !.mode = @ \cup {"HALTED"}]

(***************************************************************************)
(* Memory, as the processor sees it: all of it may be accessed, and what   *)
(* was never written is zero.                                              *)
(***************************************************************************)
Addr(m, seg, ofs) == Trunc(m.seg[seg].base + ofs, LongBits)
ByteAt(m, a)      == IF a \in DOMAIN m.mem THEN m.mem[a] ELSE 0
Cell(a, k)        == Trunc(a + k, LongBits)

PeekAt(m, a, w) ==
  CASE Bytes(w) = 1 -> ByteAt(m, a)
    [] Bytes(w) = 2 -> Join(ByteAt(m, Cell(a, 1)), ByteAt(m, a), ByteBits)
    [] Bytes(w) = 4 -> Join(Join(ByteAt(m, Cell(a, 3)), ByteAt(m, Cell(a, 2)), ByteBits),
                            Join(ByteAt(m, Cell(a, 1)), ByteAt(m, a), ByteBits), WordBits)

PokeAt(m, a, w, v) ==
  LET cells == {Cell(a, k) : k \in 0 .. Bytes(w) - 1}
      new   == [c \in cells |-> Trunc(Shr(v, ByteBits * Trunc(c - a, LongBits)), ByteBits)]
  IN  [m EXCEPT !.mem = new @@ @]

\* The limit check raises the fault and the access is done all the same.
CheckAccess(m, seg, ofs, size) ==
  IF Trunc(ofs + size - 1, LongBits) > m.seg[seg].limit THEN GP(m, m.seg[seg].sel) ELSE m

Peek(m, seg, ofs, w)    == PeekAt(m, Addr(m, seg, ofs), w)
Touch(m, seg, ofs, w)   == CheckAccess(m, seg, ofs, Bytes(w))
Poke(m, seg, ofs, w, v) == PokeAt(Touch(m, seg, ofs, w), Addr(m, seg, ofs), w, v)

DataSegment(m) == IF m.dseg # NOSEG THEN m.dseg
                  ELSE IF "SEG_DS_SS" \in m.mode THEN SS ELSE DS

\* The guests' emulator has no permission for any port: a read gives ones.
In(w) == Ones(w)

(***************************************************************************)
(* The stack.                                                              *)
(***************************************************************************)
StackWidth(m) == IF "STACK32" \in m.mode THEN LongBits ELSE WordBits
DataWidth(m)  == IF "DATA32" \in m.mode THEN LongBits ELSE WordBits
AddrWidth(m)  == IF "ADDR32" \in m.mode THEN LongBits ELSE WordBits
StackTop(m)   == Get(m, StackWidth(m), ESP)
MoveStack(m, n) == Put(m, StackWidth(m), ESP, Trunc(StackTop(m) + n, StackWidth(m)))

Push(m, w, v) == LET m1 == MoveStack(m, -Bytes(w)) IN Poke(m1, SS, StackTop(m1), w, Trunc(v, w))
Top(m, w)     == Peek(m, SS, StackTop(m), w)
Pop(m, w)     == MoveStack(Touch(m, SS, StackTop(m), w), Bytes(w))

(***************************************************************************)
(* Effective addresses: the offset, and whether SS takes the place of DS.  *)
(***************************************************************************)
Displacement(m, i) ==
  CASE i.mod = 1 -> SignExtend(Trunc(i.disp, ByteBits), ByteBits, LongBits)
    [] i.mod = 2 -> Trunc(i.disp, AddrWidth(m))
    [] OTHER     -> 0

SibBase(m, i) ==
  CASE i.sbase = ESP -> [ofs |-> m.r[ESP], ss |-> TRUE]
    [] i.sbase = EBP -> IF i.mod = 0 THEN [ofs |-> i.disp, ss |-> FALSE]
                        ELSE [ofs |-> m.r[EBP], ss |-> TRUE]
    [] OTHER -> [ofs |-> m.r[i.sbase], ss |-> FALSE]

SibAddress(m, i) ==
  LET b == SibBase(m, i)
      x == IF i.index = ESP THEN 0 ELSE m.r[i.index]
  IN  [b EXCEPT !.ofs = @ + x * 2 ^ i.scale]

\* With a one-byte displacement EBP is relative to DS, with four to SS.
Address32(m, i) ==
  CASE i.rm = ESP -> SibAddress(m, i)
    [] i.rm = EBP -> IF i.mod = 0 THEN [ofs |-> i.disp, ss |-> FALSE]
                     ELSE [ofs |-> m.r[EBP], ss |-> i.mod = 2]
    [] OTHER -> [ofs |-> m.r[i.rm], ss |-> FALSE]

Address16(m, i) ==
  LET x(n) == Trunc(m.r[n], WordBits)
  IN  CASE i.rm = 0 -> [ofs |-> x(EBX) + x(ESI), ss |-> FALSE]
        [] i.rm = 1 -> [ofs |-> x(EBX) + x(EDI), ss |-> FALSE]
        [] i.rm = 2 -> [ofs |-> x(EBP) + x(ESI), ss |-> TRUE]
        [] i.rm = 3 -> [ofs |-> x(EBP) + x(EDI), ss |-> TRUE]
        [] i.rm = 4 -> [ofs |-> x(ESI), ss |-> FALSE]
        [] i.rm = 5 -> [ofs |-> x(EDI), ss |-> FALSE]
        [] i.rm = 6 -> IF i.mod = 0 THEN [ofs |-> Trunc(i.disp, WordBits), ss |-> FALSE]
                       ELSE [ofs |-> x(EBP), ss |-> TRUE]
        [] i.rm = 7 -> [ofs |-> x(EBX), ss |-> FALSE]

EffectiveAddress(m, i) ==
  LET a == IF "ADDR32" \in m.mode THEN Address32(m, i) ELSE Address16(m, i)
  IN  IF i.mod = 3 THEN [ofs |-> 0, ss |-> FALSE]
      ELSE [a EXCEPT !.ofs = Trunc(@ + Displacement(m, i), AddrWidth(m))]

\* The address is computed when the instruction is fetched, in m.ea.  A
\* register where an address is needed is an illegal instruction.
InSegment(m)  == IF m.ea.ss THEN [m EXCEPT !.mode = @ \cup {"SEG_DS_SS"}] ELSE m
Located(m, i) == IF i.mod = 3 THEN UD(InSegment(m)) ELSE InSegment(m)
Offset(m, n)  == Trunc(m.ea.ofs + n, LongBits)

(***************************************************************************)
(* The operand that the modrm byte names, a register or memory.            *)
(***************************************************************************)
Rm(m, i, w) == IF i.mod = 3 THEN Get(m, w, i.rm)
               ELSE Peek(m, DataSegment(InSegment(m)), m.ea.ofs, w)
\* The machine once the operand was decoded and read.
TouchData(m, ofs, w)   == Touch(m, DataSegment(m), ofs, w)
PeekData(m, ofs, w)    == Peek(m, DataSegment(m), ofs, w)
PokeData(m, ofs, w, v) == Poke(m, DataSegment(m), ofs, w, v)
AtRm(m, i, w) == IF i.mod = 3 THEN m ELSE TouchData(InSegment(m), m.ea.ofs, w)
SetRm(m, i, w, v) == IF i.mod = 3 THEN Put(m, w, i.rm, v)
                     ELSE PokeData(InSegment(m), m.ea.ofs, w, v)

SegOf(i) == IF i.reg <= 5 THEN i.reg ELSE NOSEG
AtSeg(m, i) == IF i.reg <= 5 THEN m ELSE UD(m)

(***************************************************************************)
(* Loading a segment register.  The descriptors and the gates that are     *)
(* present in memory are the constants Descriptors and Gates, by address.  *)
(***************************************************************************)
Protected(m) == Bit(m.cr[0], 0)
Null == [sel |-> 0, base |-> 0, limit |-> 0, big |-> FALSE]

\* The register seg after the load, or the same when the load fails.
LoadSeg(m, seg, val) ==
  LET table == IF Bit(val, 2) THEN m.ldt ELSE m.gdt
      index == val - (val % 8)
      at    == table.base + index
      ok    == index + 7 <= table.limit /\ at \in DOMAIN Descriptors
  IN  CASE ~Protected(m) -> [err |-> FALSE, seg |-> [seg EXCEPT !.sel = val, !.base = val * 16]]
        [] Protected(m) /\ index = 0 -> [err |-> FALSE, seg |-> Null]
        [] OTHER -> [err |-> ~ok, seg |-> IF ok THEN [Descriptors[at] EXCEPT !.sel = val] ELSE seg]

SetSeg(m, s, val) ==
  LET l == LoadSeg(m, m.seg[s], val)
      n == [m EXCEPT !.seg[s] = l.seg]
  IN  IF l.err THEN GP(n, val) ELSE n

\* A vector of the real mode is read from memory; a gate that is missing in
\* the protected mode leaves the interrupted address in its place.
IdtLookup(m, nr, cs, eip) ==
  LET gate == m.idt.base + nr * 8
  IN  IF ~Protected(m)
      THEN [cs  |-> PeekAt(m, m.idt.base + nr * 4 + 2, WordBits),
            eip |-> PeekAt(m, m.idt.base + nr * 4, WordBits)]
      ELSE IF nr * 8 + 7 <= m.idt.limit /\ gate \in DOMAIN Gates THEN Gates[gate]
           ELSE [cs |-> cs, eip |-> eip]

\* The flags, the selector and the address that the interrupt returns to.
PushFrame(m, w, cs, eip) == Push(Push(Push(m, w, FlagsWord(m.fl)), w, cs), w, eip)
PushError(m, intr) == IF "ERRCODE" \in intr.kind THEN Push(m, LongBits, intr.err) ELSE m
Enters(m, to) == Goto(SetSeg([m EXCEPT !.fl = @ \ {"IF", "TF"}], CS, to.cs), to.eip)

GenerateInt(m, intr) ==
  LET restart == "RESTART" \in intr.kind
      eip == IF restart THEN m.seip ELSE m.eip
      cs  == IF restart THEN m.scs ELSE m.seg[CS].sel
      w   == IF Protected(m) /\ "CODE32" \in m.mode THEN LongBits ELSE WordBits
  IN  Enters(PushError(PushFrame(m, w, cs, eip), intr), IdtLookup(m, intr.nr, cs, eip))

HandleInterrupt(m) ==
  IF m.intr = NoIntr THEN m ELSE [GenerateInt(m, m.intr) EXCEPT !.intr = NoIntr]

(***************************************************************************)
(* One pass of the loop of x86emu_run around a handler.                    *)
(***************************************************************************)
ModeOf(m) == (IF m.seg[CS].big THEN {"DATA32", "ADDR32", "CODE32"} ELSE {})
             \cup (IF m.seg[SS].big THEN {"STACK32"} ELSE {})

Toggled(mode, flag, pfx) == IF flag \in pfx THEN (mode \ {flag}) \cup ({flag} \ mode) ELSE mode
PrefixedMode(mode, pfx) ==
  Toggled(Toggled(mode, "DATA32", pfx), "ADDR32", pfx) \cup (pfx \cap {"REPE", "REPNE"})

\* The number of bytes of the fields of an instruction in a mode.
DispBytes(mode, i) ==
  LET wide == IF "ADDR32" \in mode THEN 4 ELSE 2
      sib  == i.rm = ESP /\ "ADDR32" \in mode
      absolute == i.mod = 0 /\ ((sib /\ i.sbase = EBP)
                    \/ i.rm = (IF "ADDR32" \in mode THEN 5 ELSE 6))
  IN  CASE i.mod = 1 -> 1
        [] i.mod = 2 \/ absolute -> wide
        [] OTHER -> 0
ModrmBytes(mode, i) ==
  IF ~i.modrm THEN 0
  ELSE 1 + (IF i.mod # 3 /\ i.rm = ESP /\ "ADDR32" \in mode THEN 1 ELSE 0) + DispBytes(mode, i)
ImmBytes(mode, i) ==
  CASE i.form = "none" -> 0
    [] i.form = "b"  -> 1
    [] i.form = "w"  -> 2
    [] i.form = "wb" -> 3
    [] i.form = "z"  -> IF "DATA32" \in mode THEN 4 ELSE 2
    [] i.form = "zw" -> IF "DATA32" \in mode THEN 6 ELSE 4
    [] i.form = "a"  -> IF "ADDR32" \in mode THEN 4 ELSE 2
Length(mode, i) ==
  Cardinality(i.pfx) + (IF i.seg # NOSEG THEN 1 ELSE 0) + (IF i.two THEN 2 ELSE 1)
    + ModrmBytes(mode, i) + ImmBytes(mode, i)

\* In 16-bit code only the lower half of the instruction pointer moves.
Advance(m, n) ==
  IF "CODE32" \in m.mode THEN Trunc(m.eip + n, LongBits)
  ELSE m.eip - Trunc(m.eip, WordBits) + Trunc(m.eip + n, WordBits)

\* A 128-bit store decodes an address of its reg field, whose displacement
\* need not be as long as that of the rm field which is encoded.
Addressed(i) == IF i.op \in {"movups", "movaps"} /\ i.store THEN [i EXCEPT !.rm = i.reg] ELSE i

\* The machine when the handler has fetched all of its instruction.
Advanced(m) == [m EXCEPT !.eip = Advance(m, m.len)]
Decoded(m, i) == [m EXCEPT !.ea = EffectiveAddress(m, i), !.len = Length(m.mode, i)]
Fetched(m, i) ==
  Advanced(Decoded([m EXCEPT !.mode = PrefixedMode(ModeOf(m), i.pfx), !.dseg = i.seg,
                             !.seip = m.eip, !.scs = m.seg[CS].sel], Addressed(i)))

\* After the handler: the interrupt, the line of code, the clock.
Listed(m) ==
  [m EXCEPT !.eip = IF Disassemble THEN Trunc(m.seip + m.len, LongBits) ELSE @,
            !.line = [Address |-> m.seip, NumBytes |-> m.len,
                      ESP |-> IF Disassemble THEN 0 ELSE m.r[ESP],
                      TOS |-> PeekAt(m, m.r[ESP], LongBits)],
            !.tsc = @ + 1]
Retired(m) == Listed(HandleInterrupt(m))
=============================================================================
