----------------------------- MODULE EmuProofs -----------------------------
(***************************************************************************)
(* Proofs about the emulator running a program: what ArithmeticProofs      *)
(* proves of the primitives reaches the registers and the flags at the end *)
(* of every program that shifts, compares, or calculates in binary or in   *)
(* decimal digits, through fetching, prefixes, operand widths, the         *)
(* handlers, the divide error, the retirement of the instruction and the   *)
(* jump over code.  A program's first machine is arbitrary but for Fresh,  *)
(* and so are its operands, width and segments.                            *)
(***************************************************************************)
EXTENDS EmuProperties, ArithmeticProofs

-----------------------------------------------------------------------------
(* Machines: what an operator of EmuDecode leaves alone.                   *)

\* Machine e is n but for the fields in S.
Keeps(e, n, S) == DOMAIN e = Fields /\ DOMAIN n = Fields /\ \A f \in Fields \ S : e[f] = n[f]

\* A machine between two instructions, or with an instruction fetched: numbers
\* in its registers, the segments of seg, no interrupt pending.
Calm(n, seg) == /\ DOMAIN n = Fields /\ n.r \in [0..7 -> Int] /\ n.seg = seg
                /\ n.intr = NoIntr /\ n.host = "alive"

\* The mode of code and stack in the segments seg.
ModeIn(seg) == (IF seg[CS].big THEN {"DATA32", "ADDR32", "CODE32"} ELSE {})
               \cup (IF seg[SS].big THEN {"STACK32"} ELSE {})

LEMMA GotoFacts ==
  ASSUME NEW n, DOMAIN n = Fields, NEW v
  PROVE  Keeps(Goto(n, v), n, {"eip"}) /\ Goto(n, v).eip = v
<1>1. "eip" \in Fields
  BY DEF Fields
<1>2. QED
  BY <1>1 DEF Goto, Keeps

LEMMA WithFacts ==
  ASSUME NEW n, DOMAIN n = Fields, NEW v
  PROVE  Keeps(With(n, v), n, {"fl"}) /\ With(n, v).fl = v
<1>1. "fl" \in Fields
  BY DEF Fields
<1>2. QED
  BY <1>1 DEF With, Keeps

\* The value goes to the part of register k that has the width w.
LEMMA PutFacts ==
  ASSUME NEW n, DOMAIN n = Fields, n.r \in [0..7 -> Int], NEW w \in Nat, NEW k \in 0..7, NEW v \in Int,
         ~High8(w, k)
  PROVE  /\ Keeps(Put(n, w, k, v), n, {"r"})
         /\ Put(n, w, k, v).r \in [0..7 -> Int]
         /\ Put(n, w, k, v).r[k] = n.r[k] - Trunc(n.r[k], w) + v
         /\ \A j \in 0..7 : j # k => Put(n, w, k, v).r[j] = n.r[j]
<1> DEFINE e == Put(n, w, k, v)
<1>1. "r" \in Fields
  BY DEF Fields
<1>3. e = [n EXCEPT !.r[k] = @ - Trunc(@, w) + v]
  BY DEF Put
<1>4. n.r[k] \in Int /\ Trunc(n.r[k], w) \in Int
  <2>1. n.r[k] \in Int
    OBVIOUS
  <2>2. Trunc(n.r[k], w) \in WordOf(w) /\ 2 ^ w \in Nat
    BY <2>1, TruncFacts
  <2>3. QED
    BY <2>1, <2>2 DEF WordOf
<1>5. Keeps(e, n, {"r"}) /\ e.r = [n.r EXCEPT ![k] = n.r[k] - Trunc(n.r[k], w) + v]
  BY <1>1, <1>3 DEF Keeps
<1> HIDE DEF e
<1>6. QED
  BY <1>4, <1>5 DEF e

\* Fetching an instruction without prefixes.
LEMMA FetchFacts ==
  ASSUME NEW n, DOMAIN n = Fields, NEW i, i.pfx = {}
  PROVE  /\ Keeps(Fetched(n, i), n, {"mode", "dseg", "seip", "scs", "ea", "len", "eip"})
         /\ Fetched(n, i).mode = ModeIn(n.seg)
         /\ \A s : DOMAIN s = Fields /\ s.seg = n.seg /\ s.eip = n.eip
                     => Fetched(s, i).eip = Fetched(n, i).eip
<1> DEFINE j == Addressed(i)
           a(s) == [s EXCEPT !.mode = PrefixedMode(ModeOf(s), i.pfx), !.dseg = i.seg,
                             !.seip = s.eip, !.scs = s.seg[CS].sel]
           b(s) == Decoded(a(s), j)
           mode == ModeIn(n.seg)
           len  == Length(mode, j)
           next == IF "CODE32" \in mode THEN Trunc(n.eip + len, LongBits)
                   ELSE n.eip - Trunc(n.eip, WordBits) + Trunc(n.eip + len, WordBits)
<1>1. {"mode", "dseg", "seip", "scs", "ea", "len", "eip", "seg"} \subseteq Fields
  BY DEF Fields
<1>2. \A x : PrefixedMode(x, {}) = x
  BY DEF PrefixedMode, Toggled
<1>3. ASSUME NEW s, DOMAIN s = Fields, s.seg = n.seg, s.eip = n.eip
      PROVE  /\ Keeps(Fetched(s, i), s, {"mode", "dseg", "seip", "scs", "ea", "len", "eip"})
             /\ Fetched(s, i).mode = mode /\ Fetched(s, i).eip = next
  <2>1. Keeps(a(s), s, {"mode", "dseg", "seip", "scs"}) /\ a(s).mode = mode
    <3>1. Keeps(a(s), s, {"mode", "dseg", "seip", "scs"}) /\ a(s).mode = PrefixedMode(ModeOf(s), i.pfx)
      BY <1>1, <1>3 DEF Keeps
    <3>2. ModeOf(s) = mode
      BY <1>3 DEF ModeOf, ModeIn
    <3>3. QED
      BY <1>2, <3>1, <3>2
  <2> DEFINE as == a(s)
  <2> HIDE DEF as
  <2>2. Fetched(s, i) = Advanced(Decoded(as, j))
    BY DEF Fetched, as
  <2>3. Keeps(as, s, {"mode", "dseg", "seip", "scs"}) /\ as.mode = mode
    BY <2>1 DEF as
  <2> DEFINE bs == Decoded(as, j)
  <2>4. Keeps(bs, as, {"ea", "len"}) /\ bs.len = Length(as.mode, j)
    BY <1>1, <2>3 DEF Decoded, Keeps
  <2> HIDE DEF bs, j
  <2>5. Keeps(Advanced(bs), bs, {"eip"}) /\ Advanced(bs).eip = Advance(bs, bs.len)
    BY <1>1, <2>4 DEF Advanced, Keeps
  <2>6. bs.mode = mode /\ bs.eip = n.eip /\ bs.len = len
    BY <1>1, <1>3, <2>3, <2>4 DEF Keeps
  <2>7. Advance(bs, bs.len) = next
    BY <2>6 DEF Advance
  <2>8. Keeps(bs, s, {"mode", "dseg", "seip", "scs", "ea", "len"})
    BY <2>3, <2>4 DEF Keeps
  <2>9. Keeps(Advanced(bs), s, {"mode", "dseg", "seip", "scs", "ea", "len", "eip"})
    BY <2>5, <2>8 DEF Keeps
  <2>10. Advanced(bs).mode = mode
    BY <1>1, <2>5, <2>6 DEF Keeps
  <2>11. QED
    BY <2>2, <2>5, <2>7, <2>9, <2>10 DEF bs
<1>4. QED
  BY <1>3

\* After a handler that raised no interrupt only the clock, the list of lines
\* and, when the code is only listed, the instruction pointer change.
LEMMA RetireFacts ==
  ASSUME NEW n, DOMAIN n = Fields, n.intr = NoIntr
  PROVE  Keeps(Retired(n), n, {"line", "tsc"})
<1>1. {"eip", "line", "tsc"} \subseteq Fields
  BY DEF Fields
<1>2. HandleInterrupt(n) = n
  BY DEF HandleInterrupt
<1>3. ~Disassemble
  BY TasksAssumption
<1>4. Retired(n) = [n EXCEPT !.eip = n.eip,
            !.line = [Address |-> n.seip, NumBytes |-> n.len, ESP |-> n.r[ESP],
                      TOS |-> PeekAt(n, n.r[ESP], LongBits)],
            !.tsc = n.tsc + 1]
  BY <1>2, <1>3, Zenon DEF Retired, Listed
<1>5. QED
  BY <1>1, <1>4 DEF Keeps

-----------------------------------------------------------------------------
(* Registers.                                                              *)

Widths == {ByteBits, WordBits, LongBits}

LEMMA WidthFacts ==
  /\ ByteBits \in Nat \ {0} /\ WordBits \in Nat \ {0} /\ LongBits \in Nat \ {0}
  /\ ByteBits >= 6 /\ WordBits > ByteBits /\ LongBits > ByteBits /\ WordBits = ByteBits + ByteBits
  /\ \A w \in Widths : w \in Nat /\ w >= ByteBits /\ w >= 2
  BY WordsAssumption DEF WordBits, LongBits, Widths

\* A register read in a width is a word of that width.
LEMMA GetWord ==
  ASSUME NEW n, n.r \in [0..7 -> Int], NEW w \in Widths, NEW k \in 0..7
  PROVE  Get(n, w, k) \in WordOf(w)
<1>1. CASE High8(w, k)
  <2>1. k - 4 \in 0..7 /\ w = ByteBits
    BY <1>1 DEF High8
  <2> DEFINE x == Shr(Trunc(n.r[k - 4], WordBits), ByteBits)
  <2>2. Trunc(n.r[k - 4], WordBits) \in WordOf(WordBits)
    <3>1. n.r[k - 4] \in Int
      BY <2>1
    <3>2. QED
      BY <3>1, WidthFacts, TruncFacts
  <2>3. x \in Int
    <3>1. Trunc(n.r[k - 4], WordBits) \in Int /\ 2 ^ ByteBits \in Nat \ {0}
      BY <2>2, WidthFacts, PowerFacts DEF WordOf
    <3>2. QED
      BY <3>1, DivFacts DEF Shr
  <2>4. Get(n, w, k) = Trunc(x, ByteBits)
    BY <1>1 DEF Get, High
  <2> HIDE DEF x
  <2>5. QED
    BY <2>1, <2>3, <2>4, WidthFacts, TruncFacts
<1>2. CASE ~High8(w, k)
  <2> DEFINE x == n.r[k]
  <2>1. x \in Int /\ w \in Nat /\ Get(n, w, k) = Trunc(x, w)
    BY <1>2, WidthFacts DEF Get
  <2> HIDE DEF x
  <2>2. QED
    BY <2>1, TruncFacts
<1>3. QED
  BY <1>1, <1>2

\* What was put into a register is read back.
LEMMA GetPut ==
  ASSUME NEW n, DOMAIN n = Fields, n.r \in [0..7 -> Int], NEW w \in Widths, NEW k \in 0..7,
         ~High8(w, k), NEW v \in WordOf(w)
  PROVE  Get(Put(n, w, k, v), w, k) = v
<1> DEFINE x == n.r[k]
           e == Put(n, w, k, v)
<1>1. w \in Nat /\ x \in Int /\ v \in Int /\ 2 ^ w \in Nat
  BY WidthFacts, PowerFacts DEF WordOf
<1>2. e.r[k] = x - Trunc(x, w) + v
  <2>1. /\ DOMAIN n = Fields /\ n.r \in [0..7 -> Int] /\ w \in Nat /\ k \in 0..7 /\ v \in Int
        /\ ~High8(w, k)
    BY <1>1
  <2>2. Put(n, w, k, v).r[k] = n.r[k] - Trunc(n.r[k], w) + v
    <3> HIDE DEF e, x
    <3>1. QED
      BY ONLY <2>1, PutFacts
  <2>3. QED
    BY <2>2
<1>3. PICK q \in Int : x = q * 2 ^ w + Trunc(x, w)
  BY <1>1, TruncFacts
<1>4. x - Trunc(x, w) + v = q * 2 ^ w + v
  <2> DEFINE N == 2 ^ w
             t == Trunc(x, w)
  <2> HIDE DEF N, t
  <2>1. N \in Nat /\ t \in Int
    <3> HIDE DEF x
    <3>1. Trunc(x, w) \in WordOf(w)
      BY <1>1, TruncFacts
    <3>2. QED
      BY <1>1, <3>1 DEF WordOf, N, t
  <2>2. q * N \in Int
    BY <2>1
  <2>3. x = q * N + t => x - t + v = q * N + v
    BY <1>1, <2>1, <2>2
  <2>4. QED
    BY <1>3, <2>3 DEF N, t
<1>5. Get(e, w, k) = Trunc(e.r[k], w)
  BY DEF Get
<1> HIDE DEF e, x
<1>6. Trunc(q * 2 ^ w + v, w) = v
  BY <1>1, TruncUnique
<1>7. QED
  BY <1>2, <1>4, <1>5, <1>6 DEF e

\* AX is AH and AL.
LEMMA AccumulatorBytes ==
  ASSUME NEW n, n.r \in [0..7 -> Int]
  PROVE  /\ Get(n, ByteBits, EAX) = Low(Get(n, WordBits, EAX), ByteBits)
         /\ Get(n, ByteBits, 4) = High(Get(n, WordBits, EAX), ByteBits)
         /\ Get(n, WordBits, EAX) = Join(Get(n, ByteBits, 4), Get(n, ByteBits, EAX), ByteBits)
<1> DEFINE x == n.r[0]
           ax == Trunc(x, WordBits)
<1>1. x \in Int /\ ax \in WordOf(WordBits)
  <2>1. x \in Int
    OBVIOUS
  <2>2. QED
    BY <2>1, WidthFacts, TruncFacts
<1>2. Get(n, WordBits, EAX) = ax /\ Get(n, ByteBits, EAX) = Trunc(x, ByteBits)
      /\ Get(n, ByteBits, 4) = High(ax, ByteBits)
  BY WidthFacts DEF Get, High8, EAX
<1>3. Trunc(ax, ByteBits) = Trunc(x, ByteBits)
  <2> HIDE DEF x
  <2>1. QED
    BY <1>1, WidthFacts, TruncShorter
<1>4. 2 ^ WordBits = 2 ^ ByteBits * 2 ^ ByteBits
  BY WidthFacts, PowerSum
<1> HIDE DEF ax
<1>5. ax \in 0..2 ^ ByteBits * 2 ^ ByteBits - 1
  BY <1>1, <1>4 DEF WordOf
<1>6. High(ax, ByteBits) * 2 ^ ByteBits + Low(ax, ByteBits) = ax
  BY <1>5, WidthFacts, Halves
<1>7. QED
  BY <1>2, <1>3, <1>6 DEF Low, Join

\* A byte put into AL leaves AH alone.
LEMMA PutAL ==
  ASSUME NEW n, DOMAIN n = Fields, n.r \in [0..7 -> Int], NEW v \in WordOf(ByteBits)
  PROVE  /\ Get(Put(n, ByteBits, EAX, v), ByteBits, EAX) = v
         /\ Get(Put(n, ByteBits, EAX, v), ByteBits, 4) = Get(n, ByteBits, 4)
         /\ Get(Put(n, ByteBits, EAX, v), WordBits, EAX)
              = Trunc(Join(Get(n, ByteBits, 4), v, ByteBits), WordBits)
<1> DEFINE x == n.r[0]
           e == Put(n, ByteBits, EAX, v)
<1>1. x \in Int /\ v \in Int /\ 2 ^ ByteBits \in Nat /\ EAX \in 0..7 /\ EAX < 4 /\ ByteBits \in Widths
  BY WidthFacts, PowerFacts DEF WordOf, EAX, Widths
<1>0. ~High8(ByteBits, EAX)
  BY DEF High8, EAX
<1>2. Get(e, ByteBits, EAX) = v
  BY <1>0, <1>1, GetPut
<1>3. e.r \in [0..7 -> Int] /\ e.r[0] = x - Trunc(x, ByteBits) + v
  BY <1>0, <1>1, WidthFacts, PutFacts DEF EAX
<1>4. PICK q \in Int : x = q * 2 ^ ByteBits + Trunc(x, ByteBits)
  BY <1>1, WidthFacts, TruncFacts
<1>5. Trunc(x, ByteBits) \in WordOf(ByteBits) /\ Trunc(x, ByteBits) \in Int
  <2> HIDE DEF x
  <2>1. Trunc(x, ByteBits) \in WordOf(ByteBits)
    BY <1>1, WidthFacts, TruncFacts
  <2>2. QED
    BY <1>1, <2>1 DEF WordOf
<1>6. x = Join(q, Trunc(x, ByteBits), ByteBits) /\ e.r[0] = Join(q, v, ByteBits)
  BY <1>1, <1>3, <1>4, <1>5 DEF Join
<1> HIDE DEF x, e
<1>7. /\ High(Trunc(Join(q, Trunc(x, ByteBits), ByteBits), WordBits), ByteBits) = Trunc(q, ByteBits)
      /\ High(Trunc(Join(q, v, ByteBits), WordBits), ByteBits) = Trunc(q, ByteBits)
  BY <1>5, WordBytes
<1>8. Get(n, ByteBits, 4) = Trunc(q, ByteBits) /\ Get(e, ByteBits, 4) = Trunc(q, ByteBits)
  BY <1>6, <1>7 DEF Get, High8, x
<1>9. Get(e, WordBits, EAX) = Join(Get(e, ByteBits, 4), v, ByteBits)
  BY <1>2, <1>3, AccumulatorBytes
<1>10. Get(e, WordBits, EAX) \in WordOf(WordBits)
  BY <1>1, <1>3, GetWord DEF Widths
<1>11. Trunc(Get(e, WordBits, EAX), WordBits) = Get(e, WordBits, EAX)
  BY <1>10, WidthFacts, TruncFacts, PowerFacts DEF WordOf
<1>12. QED
  BY <1>2, <1>8, <1>9, <1>11 DEF e

-----------------------------------------------------------------------------
(* One pass of the loop of x86emu_run.                                     *)

\* The instruction at eip, in the segments in which the program started.
LEMMA FetchedFacts ==
  ASSUME NEW seg, NEW n, Calm(n, seg), NEW i, i.pfx = {}
  PROVE  /\ Calm(Fetched(n, i), seg)
         /\ Fetched(n, i).r = n.r /\ Fetched(n, i).fl = n.fl /\ Fetched(n, i).mode = ModeIn(seg)
<1>1. DOMAIN n = Fields /\ n.seg = seg
  BY DEF Calm
<1>2. /\ Keeps(Fetched(n, i), n, {"mode", "dseg", "seip", "scs", "ea", "len", "eip"})
      /\ Fetched(n, i).mode = ModeIn(n.seg)
  BY <1>1, FetchFacts
<1> DEFINE f == Fetched(n, i)
<1> HIDE DEF f
<1>3. DOMAIN f = Fields /\ \A x \in {"r", "fl", "seg", "intr", "host"} : f[x] = n[x]
  BY <1>2 DEF Keeps, Fields, f
<1>4. QED
  BY <1>1, <1>2, <1>3 DEF Calm, f

\* The address behind it is the one that the program was laid out for.
LEMMA AfterFacts ==
  ASSUME NEW p, NEW n, Calm(n, p.machine.seg), DOMAIN p.machine = Fields, NEW i, i.pfx = {}
  PROVE  /\ Fetched(n, i).eip = After(p, n.eip, i).eip
         /\ After(p, n.eip, i).mode = ModeIn(p.machine.seg)
<1> DEFINE g == Goto(p.machine, n.eip)
<1>1. Keeps(g, p.machine, {"eip"}) /\ g.eip = n.eip
  BY GotoFacts
<1>2. DOMAIN g = Fields /\ g.seg = p.machine.seg
  BY <1>1 DEF Keeps, Fields
<1>3. DOMAIN n = Fields /\ n.seg = p.machine.seg
  BY DEF Calm
<1> HIDE DEF g
<1>4. /\ Fetched(g, i).mode = ModeIn(g.seg)
      /\ \A s : DOMAIN s = Fields /\ s.seg = g.seg /\ s.eip = g.eip
                  => Fetched(s, i).eip = Fetched(g, i).eip
  BY <1>2, FetchFacts
<1>5. Fetched(n, i).eip = Fetched(g, i).eip
  BY <1>1, <1>2, <1>3, <1>4
<1>6. QED
  BY <1>2, <1>4, <1>5 DEF After, g

\* The width of an operation.
LEMMA WidthOfTask ==
  ASSUME NEW p, NEW n, n.mode = ModeIn(p.machine.seg), NEW i
  PROVE  /\ Width(n, i) = WidthOf(p, i) /\ Width(n, i) \in Widths
         /\ ~i.byte => DataWidth(n) = WidthOf(p, i)
         /\ DataWidth(n) \in {WordBits, LongBits}
<1>1. DataWidth(n) = IF p.machine.seg[CS].big THEN LongBits ELSE WordBits
  BY DEF DataWidth, ModeIn
<1>2. QED
  BY <1>1 DEF Width, WidthOf, Widths

\* A handler that changes registers, flags and the instruction pointer only.
LEMMA Quiet ==
  ASSUME NEW seg, NEW f, Calm(f, seg), f.mode = ModeIn(seg),
         NEW e, Keeps(e, f, {"r", "fl", "eip"}), e.r \in [0..7 -> Int]
  PROVE  /\ e.host # "dead" /\ Outcome(e) = "running"
         /\ Calm(Retired(e), seg)
         /\ Retired(e).r = e.r /\ Retired(e).fl = e.fl /\ Retired(e).eip = e.eip
<1>1. /\ DOMAIN e = Fields /\ e.seg = seg /\ e.intr = NoIntr /\ e.host = "alive" /\ e.mode = ModeIn(seg)
  BY DEF Keeps, Calm, Fields
<1>2. Keeps(Retired(e), e, {"line", "tsc"})
  BY <1>1, RetireFacts
<1> DEFINE t == Retired(e)
<1> HIDE DEF t
<1>3. DOMAIN t = Fields /\ \A x \in {"r", "fl", "eip", "seg", "intr", "host"} : t[x] = e[x]
  BY <1>2 DEF Keeps, Fields, t
<1>4. Calm(t, seg) /\ t.r = e.r /\ t.fl = e.fl /\ t.eip = e.eip
  BY <1>1, <1>3 DEF Calm
<1>5. "HALTED" \notin e.mode
  BY <1>1 DEF ModeIn
<1>6. QED
  BY <1>1, <1>4, <1>5 DEF Outcome, t

\* hlt ends the run with the registers and the flags as they are.
LEMMA Halts ==
  ASSUME NEW seg, NEW f, Calm(f, seg), NEW i
  PROVE  /\ Hlt(f, i).host # "dead" /\ Outcome(Hlt(f, i)) = "halted"
         /\ Retired(Hlt(f, i)).r = f.r /\ Retired(Hlt(f, i)).fl = f.fl
         /\ Retired(Hlt(f, i)).eip = f.eip
<1> DEFINE e == Hlt(f, i)
<1>1. "mode" \in Fields /\ DOMAIN f = Fields
  BY DEF Fields, Calm
<1>2. Keeps(e, f, {"mode"}) /\ "HALTED" \in e.mode
  BY <1>1 DEF Hlt, Stop, Keeps
<1> HIDE DEF e
<1>3. DOMAIN e = Fields /\ \A x \in {"r", "fl", "eip", "intr", "host"} : e[x] = f[x]
  BY <1>2 DEF Keeps, Fields
<1>4. e.intr = NoIntr /\ e.host = "alive"
  BY <1>3 DEF Calm
<1>5. Keeps(Retired(e), e, {"line", "tsc"})
  BY <1>3, <1>4, RetireFacts
<1>6. Retired(e).r = e.r /\ Retired(e).fl = e.fl /\ Retired(e).eip = e.eip
  BY <1>5 DEF Keeps, Fields
<1>7. QED
  BY <1>2, <1>3, <1>4, <1>6 DEF Outcome, e

\* The step left the machine e behind.
Ran(e) == /\ left' = e
          /\ m' = IF left'.host = "dead" THEN left' ELSE Retired(left')
          /\ run' = Outcome(left')
          /\ program' = program

\* The groups of handlers that the programs below use.
UsedMoves    == {"Mov_word_IMM", "Conditional_move", "Set_byte", "Cbw", "Cwd", "Movsx_byte_R_RM",
                 "Movsx_word_R_RM", "Movzx_byte_R_RM", "Movzx_word_R_RM"}
UsedBranches == {"Jump_short_cc", "Long_jump"}
Scans        == {"Bsf", "Bsr"}

LEMMA Groups ==
  ASSUME NEW op
  PROVE  /\ op \in ShiftOps => op \notin (ArithmeticOps \cup DecimalOps \cup BitOps \cup StackOps
                \cup MoveOps \cup StringOps \cup BranchOps \cup InterruptOps \cup FlagAndPortOps
                \cup SystemOps \cup SseOps)
         /\ op \in DecimalOps => op \notin (ArithmeticOps \cup ShiftOps \cup BitOps \cup StackOps
                \cup MoveOps \cup StringOps \cup BranchOps \cup InterruptOps \cup FlagAndPortOps
                \cup SystemOps \cup SseOps)
         /\ op \in ArithmeticOps => op \notin (DecimalOps \cup ShiftOps \cup BitOps \cup StackOps
                \cup MoveOps \cup StringOps \cup BranchOps \cup InterruptOps \cup FlagAndPortOps
                \cup SystemOps \cup SseOps)
         /\ op \in UsedMoves => op \notin (ArithmeticOps \cup DecimalOps \cup ShiftOps \cup BitOps
                \cup StackOps \cup StringOps \cup BranchOps \cup InterruptOps \cup FlagAndPortOps
                \cup SystemOps \cup SseOps)
         /\ op \in UsedBranches => op \notin (ArithmeticOps \cup DecimalOps \cup ShiftOps \cup BitOps
                \cup StackOps \cup MoveOps \cup StringOps \cup InterruptOps \cup FlagAndPortOps
                \cup SystemOps \cup SseOps)
         /\ op = "OpcFF_word_RM" => op \notin (ArithmeticOps \cup DecimalOps \cup ShiftOps \cup BitOps
                \cup StackOps \cup MoveOps \cup StringOps \cup InterruptOps \cup FlagAndPortOps
                \cup SystemOps \cup SseOps)
         /\ op \in Scans => op \notin (ArithmeticOps \cup DecimalOps \cup ShiftOps
                \cup StackOps \cup MoveOps \cup StringOps \cup BranchOps \cup InterruptOps
                \cup FlagAndPortOps \cup SystemOps \cup SseOps)
         /\ op = "Hlt" => op \notin (ArithmeticOps \cup DecimalOps \cup ShiftOps \cup BitOps
                \cup StackOps \cup MoveOps \cup StringOps \cup BranchOps \cup FlagAndPortOps
                \cup SystemOps \cup SseOps)
  BY DEF ArithmeticOps, DecimalOps, ShiftOps, BitOps, StackOps, MoveOps, StringOps, BranchOps,
         InterruptOps, FlagAndPortOps, SystemOps, SseOps, UsedMoves, UsedBranches, Scans

\* Unless the budget is used up, the instruction at the instruction pointer
\* is executed by its handler.
LEMMA Dispatch ==
  ASSUME Next, run = "running", m.seg = Start.seg, NEW i, CodeAt(program, m.eip) = {i}
  PROVE  \/ run' = "out of budget" /\ program' = program
         \/ /\ i.op \in ShiftOps => Ran(Shifts(Fetched(m, i), i))
            /\ i.op \in DecimalOps => Ran(Decimals(Fetched(m, i), i))
            /\ i.op \in ArithmeticOps => Ran(Arithmetics(Fetched(m, i), i))
            /\ i.op \in UsedMoves => Ran(Moves(Fetched(m, i), i))
            /\ i.op \in UsedBranches => Ran(Branches(Fetched(m, i), i))
            /\ i.op = "OpcFF_word_RM" => Ran(Branches(Fetched(m, i), i))
            /\ i.op \in Scans => Ran(Bits(Fetched(m, i), i))
            /\ i.op = "Hlt" => Ran(Interrupts(Fetched(m, i), i))
<1>1. Current = IF m.tsc < Budget THEN {i} ELSE {}
  BY DEF Current, CodeAt, Here, Addr, Start, Task
<1>2. ~Leaves
  BY <1>1 DEF Leaves
<1>3. CASE OutOfBudget
  BY <1>3 DEF OutOfBudget
<1>4. CASE \/ DoArithmetic(i) \/ DoDecimal(i) \/ DoShift(i) \/ DoBits(i)
           \/ DoStack(i) \/ DoMove(i) \/ DoString(i) \/ DoBranch(i)
           \/ DoInterrupt(i) \/ DoFlagOrPort(i) \/ DoSystem(i) \/ DoSse(i)
  <2> DEFINE Made(ops, e) == i.op \in ops /\ Ran(e)
             f == Fetched(m, i)
  <2>1. \/ Made(ArithmeticOps, Arithmetics(f, i)) \/ Made(DecimalOps, Decimals(f, i))
        \/ Made(ShiftOps, Shifts(f, i)) \/ Made(MoveOps, Moves(f, i))
        \/ Made(BranchOps, Branches(f, i)) \/ Made(InterruptOps, Interrupts(f, i))
        \/ Made(BitOps, Bits(f, i))
        \/ i.op \in StackOps \cup StringOps \cup FlagAndPortOps \cup SystemOps \cup SseOps
    BY <1>4 DEF DoArithmetic, DoDecimal, DoShift, DoBits, DoStack, DoMove, DoString, DoBranch,
                DoInterrupt, DoFlagOrPort, DoSystem, DoSse, Execute, Ran
  <2> HIDE DEF f
  <2>2. QED
    BY <2>1, Groups DEF f
<1>5. QED
  BY <1>1, <1>2, <1>3, <1>4 DEF Next

\* The machine e has the registers of n but for v in register k, and the
\* flags g.
StoredIn(e, n, w, k, v, g) ==
  /\ e.fl = g /\ e.r \in [0..7 -> Int] /\ Get(e, w, k) = v
  /\ e.r[k] = n.r[k] - Trunc(n.r[k], w) + v
  /\ \A j \in 0..7 : j # k => e.r[j] = n.r[j]

\* A result stored in a register; the flags stay.
LEMMA PutStored ==
  ASSUME NEW f, DOMAIN f = Fields, f.r \in [0..7 -> Int], NEW w \in Widths, NEW k \in 0..7,
         ~High8(w, k), NEW v \in WordOf(w)
  PROVE  /\ Keeps(Put(f, w, k, v), f, {"r", "fl"})
         /\ StoredIn(Put(f, w, k, v), f, w, k, v, f.fl)
<1> DEFINE e == Put(f, w, k, v)
<1>1. w \in Nat /\ v \in Int
  BY WidthFacts, PowerFacts DEF WordOf
<1>2. /\ Keeps(e, f, {"r"}) /\ e.r \in [0..7 -> Int]
      /\ e.r[k] = f.r[k] - Trunc(f.r[k], w) + v
      /\ \A j \in 0..7 : j # k => e.r[j] = f.r[j]
  <2>1. ~High8(w, k) /\ k \in 0..7 /\ DOMAIN f = Fields /\ f.r \in [0..7 -> Int]
    OBVIOUS
  <2>2. /\ Keeps(Put(f, w, k, v), f, {"r"}) /\ Put(f, w, k, v).r \in [0..7 -> Int]
        /\ Put(f, w, k, v).r[k] = f.r[k] - Trunc(f.r[k], w) + v
    BY ONLY <1>1, <2>1, PutFacts, SMTT(60)
  <2>3. \A j \in 0..7 : j # k => Put(f, w, k, v).r[j] = f.r[j]
    BY ONLY <1>1, <2>1, PutFacts, ZenonT(60)
  <2>4. QED
    BY <2>2, <2>3
<1>3. Get(e, w, k) = v
  BY GetPut
<1> HIDE DEF e
<1>4. Keeps(e, f, {"r", "fl"}) /\ e.fl = f.fl
  BY <1>2 DEF Keeps, Fields
<1>5. QED
  BY <1>2, <1>3, <1>4 DEF e, StoredIn

\* A result stored in a register, with the flags it leaves.
LEMMA PutWithFacts ==
  ASSUME NEW f, DOMAIN f = Fields, f.r \in [0..7 -> Int], NEW w \in Widths, NEW k \in 0..7,
         ~High8(w, k), NEW v \in WordOf(w), NEW g
  PROVE  /\ Keeps(Put(With(f, g), w, k, v), f, {"r", "fl"})
         /\ StoredIn(Put(With(f, g), w, k, v), f, w, k, v, g)
<1> DEFINE h == With(f, g)
           e == Put(h, w, k, v)
<1>1. Keeps(h, f, {"fl"}) /\ h.fl = g
  BY WithFacts
<1>2. DOMAIN h = Fields /\ h.r = f.r /\ h.r \in [0..7 -> Int]
  BY <1>1 DEF Keeps, Fields
<1> HIDE DEF h
<1>3. Keeps(e, h, {"r", "fl"}) /\ StoredIn(e, h, w, k, v, h.fl)
  BY <1>2, PutStored
<1> HIDE DEF e
<1>4. Keeps(e, f, {"r", "fl"})
  BY <1>1, <1>3 DEF Keeps, Fields
<1>5. StoredIn(e, f, w, k, v, g)
  BY <1>1, <1>2, <1>3 DEF StoredIn
<1>6. QED
  BY <1>4, <1>5 DEF e, h

-----------------------------------------------------------------------------
(* The programs.                                                           *)

Checked == {"arith", "shift", "decimal", "compare"}

LEMMA Layout ==
  ASSUME NEW p \in Programs, p.kind \in Checked
  PROVE  /\ Calm(p.machine, p.machine.seg) /\ p.machine.eip = p.eips[1]
         /\ p.machine.r \in [0..7 -> WordOf(LongBits)]
         /\ \A k \in 1..Len(p.code) : /\ CodeAt(p, p.eips[k]) = {p.code[k]}
                                      /\ p.eips[k + 1] = After(p, p.eips[k], p.code[k]).eip
         /\ \E i : CodeAt(p, p.eips[Len(p.code) + 1]) = {i} /\ i.op = "Hlt" /\ i.pfx = {}
<1>1. Fresh(p.machine) /\ InSequence(p)
  BY TasksAssumption DEF Checked
<1>2. WordOf(LongBits) \subseteq Int
  BY WidthFacts, PowerFacts DEF WordOf
<1>3. Calm(p.machine, p.machine.seg)
  <2>1. p.machine.r \in [0..7 -> Int]
    BY <1>1, <1>2 DEF Fresh
  <2>2. QED
    BY <1>1, <2>1 DEF Fresh, Calm
<1>4. \E i : CodeAt(p, p.eips[Len(p.code) + 1]) = {i} /\ i.op = "Hlt" /\ i.pfx = {}
  <2>1. PICK i \in CodeAt(p, p.eips[Len(p.code) + 1]) : i.op = "Hlt" /\ i.pfx = {}
    BY <1>1 DEF InSequence
  <2>2. CodeAt(p, p.eips[Len(p.code) + 1]) = {i}
    BY <2>1 DEF CodeAt
  <2>3. QED
    BY <2>1, <2>2
<1>5. QED
  BY <1>1, <1>3, <1>4 DEF InSequence, Fresh

\* The machine n is about to execute instruction k of the program p.
At(p, n, k) == Calm(n, p.machine.seg) /\ n.eip = p.eips[k]

\* At the end the program halts.
LEMMA Ends ==
  ASSUME Next, run = "running", program \in Programs, Task.kind \in Checked,
         At(Task, m, Len(Task.code) + 1)
  PROVE  /\ program' = program
         /\ \/ run' = "out of budget"
            \/ /\ run' = "halted" /\ m'.r = m.r /\ m'.fl = m.fl
               /\ \E i \in CodeAt(Task, m.eip) : m'.eip = After(Task, m.eip, i).eip
<1>1. PICK i : CodeAt(program, m.eip) = {i} /\ i.op = "Hlt" /\ i.pfx = {}
  BY Layout DEF At, Task
<1>2. Calm(m, Start.seg) /\ m.seg = Start.seg
  BY DEF At, Calm, Start
<1>3. \/ run' = "out of budget" /\ program' = program
      \/ Ran(Interrupts(Fetched(m, i), i))
  BY <1>1, <1>2, Dispatch
<1>4. Interrupts(Fetched(m, i), i) = Hlt(Fetched(m, i), i)
  BY <1>1 DEF Interrupts
<1>5. Calm(Fetched(m, i), Start.seg) /\ Fetched(m, i).r = m.r /\ Fetched(m, i).fl = m.fl
      /\ Fetched(m, i).eip = After(Task, m.eip, i).eip
  <2>1. DOMAIN Start = Fields /\ Calm(m, Task.machine.seg)
    BY <1>2, Layout DEF Calm, Start, Task
  <2>2. Fetched(m, i).eip = After(Task, m.eip, i).eip
    BY <1>1, <2>1, AfterFacts DEF Start
  <2>3. QED
    BY <1>1, <1>2, <2>2, FetchedFacts
<1>6. /\ Hlt(Fetched(m, i), i).host # "dead" /\ Outcome(Hlt(Fetched(m, i), i)) = "halted"
      /\ Retired(Hlt(Fetched(m, i), i)).r = m.r /\ Retired(Hlt(Fetched(m, i), i)).fl = m.fl
      /\ Retired(Hlt(Fetched(m, i), i)).eip = After(Task, m.eip, i).eip
  BY <1>5, Halts
<1>7. i \in CodeAt(Task, m.eip)
  BY <1>1 DEF Task
<1>8. QED
  BY <1>3, <1>4, <1>6, <1>7 DEF Ran

\* Instruction k, when its handler changes only registers, flags and the
\* instruction pointer.
LEMMA Advances ==
  ASSUME NEW p \in Programs, p.kind \in Checked, NEW k \in 1..Len(p.code), NEW n, At(p, n, k),
         p.code[k].pfx = {}
  PROVE  LET f == Fetched(n, p.code[k])
         IN  /\ Calm(f, p.machine.seg) /\ f.mode = ModeIn(p.machine.seg)
             /\ f.r = n.r /\ f.fl = n.fl /\ f.eip = p.eips[k + 1]
             /\ \A e : Keeps(e, f, {"r", "fl", "eip"}) /\ e.r \in [0..7 -> Int] =>
                  /\ e.host # "dead" /\ Outcome(e) = "running" /\ Calm(Retired(e), p.machine.seg)
                  /\ Retired(e).r = e.r /\ Retired(e).fl = e.fl /\ Retired(e).eip = e.eip
<1> DEFINE i == p.code[k]
           f == Fetched(n, i)
<1>1. Calm(n, p.machine.seg) /\ n.eip = p.eips[k]
  BY DEF At
<1>2. Calm(f, p.machine.seg) /\ f.mode = ModeIn(p.machine.seg) /\ f.r = n.r /\ f.fl = n.fl
  BY <1>1, FetchedFacts
<1>3. DOMAIN p.machine = Fields
  BY Layout DEF Calm
<1>4. f.eip = p.eips[k + 1]
  <2>1. f.eip = After(p, n.eip, i).eip
    BY <1>1, <1>3, AfterFacts
  <2>2. p.eips[k + 1] = After(p, p.eips[k], i).eip
    BY Layout
  <2>3. QED
    BY <1>1, <2>1, <2>2
<1> HIDE DEF f
<1>5. ASSUME NEW e, Keeps(e, f, {"r", "fl", "eip"}), e.r \in [0..7 -> Int]
      PROVE  /\ e.host # "dead" /\ Outcome(e) = "running" /\ Calm(Retired(e), p.machine.seg)
             /\ Retired(e).r = e.r /\ Retired(e).fl = e.fl /\ Retired(e).eip = e.eip
  BY <1>2, <1>5, Quiet, SMTT(60)
<1>6. QED
  BY <1>2, <1>4, <1>5 DEF f

\* The step to the machine e leads to the next instruction.
Goes(p, k, e) == /\ e.host # "dead" /\ Outcome(e) = "running" /\ At(p, Retired(e), k + 1)
                 /\ Retired(e).r = e.r /\ Retired(e).fl = e.fl

\* Instruction k stores a result in a register and leaves the flags g.
LEMMA Stores ==
  ASSUME NEW p \in Programs, p.kind \in Checked, NEW k \in 1..Len(p.code), NEW n, At(p, n, k),
         p.code[k].pfx = {}, NEW w \in Widths, NEW j \in 0..7, ~High8(w, j), NEW v \in WordOf(w), NEW g
  PROVE  /\ Goes(p, k, Put(With(Fetched(n, p.code[k]), g), w, j, v))
         /\ StoredIn(Put(With(Fetched(n, p.code[k]), g), w, j, v), n, w, j, v, g)
<1> DEFINE f == Fetched(n, p.code[k])
           e == Put(With(f, g), w, j, v)
           t == Retired(e)
<1>1. /\ Calm(f, p.machine.seg) /\ f.mode = ModeIn(p.machine.seg)
      /\ f.r = n.r /\ f.fl = n.fl /\ f.eip = p.eips[k + 1]
      /\ \A x : Keeps(x, f, {"r", "fl", "eip"}) /\ x.r \in [0..7 -> Int] =>
           /\ x.host # "dead" /\ Outcome(x) = "running" /\ Calm(Retired(x), p.machine.seg)
           /\ Retired(x).r = x.r /\ Retired(x).fl = x.fl /\ Retired(x).eip = x.eip
  BY Advances, SMTT(60)
<1>2. DOMAIN f = Fields /\ f.r \in [0..7 -> Int]
  BY <1>1 DEF Calm
<1> HIDE DEF f
<1>3. Keeps(e, f, {"r", "fl"}) /\ StoredIn(e, f, w, j, v, g)
  BY <1>2, PutWithFacts
<1> HIDE DEF e
<1>4. StoredIn(e, n, w, j, v, g) /\ e.r \in [0..7 -> Int]
  BY <1>1, <1>3 DEF StoredIn
<1>5. Keeps(e, f, {"r", "fl", "eip"}) /\ e.eip = p.eips[k + 1]
  BY <1>1, <1>3 DEF Keeps, Fields
<1> HIDE DEF t
<1>6. /\ e.host # "dead" /\ Outcome(e) = "running" /\ Calm(t, p.machine.seg)
      /\ t.r = e.r /\ t.fl = e.fl /\ t.eip = e.eip
  BY <1>1, <1>4, <1>5 DEF t
<1>7. QED
  BY <1>4, <1>5, <1>6 DEF t, e, f, Goes, At

\* What is about to be executed is the instruction k of the code.
LEMMA Executes ==
  ASSUME Next, run = "running", program \in Programs, Task.kind \in Checked,
         NEW k \in 1..Len(Task.code), At(Task, m, k)
  PROVE  LET i == The(k)
             f == Fetched(m, i)
         IN  \/ run' = "out of budget" /\ program' = program
             \/ /\ i.op \in ShiftOps => Ran(Shifts(f, i))
                /\ i.op \in DecimalOps => Ran(Decimals(f, i))
                /\ i.op \in ArithmeticOps => Ran(Arithmetics(f, i))
                /\ i.op \in UsedMoves => Ran(Moves(f, i))
                /\ i.op \in UsedBranches => Ran(Branches(f, i))
                /\ i.op = "OpcFF_word_RM" => Ran(Branches(f, i))
                /\ i.op \in Scans => Ran(Bits(f, i))
<1>1. CodeAt(program, m.eip) = {The(k)}
  BY Layout DEF At, Task, The
<1>2. m.seg = Start.seg
  BY DEF At, Calm, Start
<1>3. QED
  BY <1>1, <1>2, Dispatch

\* No step changes the program.
LEMMA SameProgram == Next => program' = program
  BY DEF Next, OutOfBudget, Leaves, DoArithmetic, DoDecimal, DoShift, DoBits, DoStack, DoMove,
         DoString, DoBranch, DoInterrupt, DoFlagOrPort, DoSystem, DoSse, Execute

\* A run that has ended stays as it is.
LEMMA Rests ==
  ASSUME Next
  PROVE  run = "running"
<1>1. run # "running" => Current = {}
  BY DEF Current
<1>2. QED
  BY <1>1 DEF Next, OutOfBudget, Leaves

-----------------------------------------------------------------------------
(* Rotates and shifts.                                                     *)

\* The operations of the two groups of handlers.
Shifted(n, w, d, fill, s, fl) ==
  CASE n = 8 -> Shld(w, d, fill, s, fl) [] n = 9 -> Shrd(w, d, fill, s, fl)
    [] OTHER -> OpB(n, w, d, s, fl)

\* Each moves every bit.
LEMMA ShiftedMoves ==
  ASSUME NEW n \in 0..9, NEW w \in Widths, NEW d \in WordOf(w), NEW fill \in WordOf(w), NEW s \in Nat,
         n \in 4..9 => s < w, NEW fl
  PROVE  MovedBits(n, w, d, fill, s, fl, Shifted(n, w, d, fill, s, fl))
<1>1. w \in Nat /\ w >= 2 /\ w \in Nat \ {0}
  BY WidthFacts
<1>2. CASE n \in 0..1
  <2>1. n = 0 \/ n = 1
    BY <1>2
  <2>2. MovedBits(0, w, d, fill, s, fl, Rol(w, d, s, fl)) /\ MovedBits(1, w, d, fill, s, fl, Ror(w, d, s, fl))
    BY <1>1, RotatesMoveBits
  <2>3. QED
    BY <2>1, <2>2 DEF Shifted, OpB
<1>3. CASE n \in 2..3
  <2>1. n = 2 \/ n = 3
    BY <1>3
  <2>2. MovedBits(2, w, d, fill, s, fl, Rcl(w, d, s, fl)) /\ MovedBits(3, w, d, fill, s, fl, Rcr(w, d, s, fl))
    BY <1>1, CarryRotatesMoveBits
  <2>3. QED
    BY <2>1, <2>2 DEF Shifted, OpB
<1>4. CASE n \in 4..9
  <2>1. s \in 0..w - 1
    BY <1>1, <1>4
  <2>2. /\ MovedBits(4, w, d, fill, s, fl, Shl(w, d, s, fl))
        /\ MovedBits(5, w, d, fill, s, fl, ShrOp(w, d, s, fl))
        /\ MovedBits(7, w, d, fill, s, fl, Sar(w, d, s, fl))
        /\ MovedBits(8, w, d, fill, s, fl, Shld(w, d, fill, s, fl))
        /\ MovedBits(9, w, d, fill, s, fl, Shrd(w, d, fill, s, fl))
    BY <1>1, <2>1, ShiftsMoveEveryBit
  <2> DEFINE x == Shl(w, d, s, fl)
  <2>3. MovedBits(6, w, d, fill, s, fl, x)
    <3> HIDE DEF x
    <3>1. MovedBits(4, w, d, fill, s, fl, x)
      BY <2>2 DEF x
    <3>2. QED
      BY <3>1 DEF MovedBits, ShiftedBit, ShiftedCarry
  <2>4. n = 4 \/ n = 5 \/ n = 6 \/ n = 7 \/ n = 8 \/ n = 9
    BY <1>4
  <2>5. QED
    BY <2>2, <2>3, <2>4 DEF Shifted, OpB
<1>5. QED
  BY <1>2, <1>3, <1>4

\* The handlers store it in EAX, with the operands of the task.
LEMMA ShiftHandlers ==
  ASSUME NEW p, ShiftTask(p), NEW f, f.mode = ModeIn(p.machine.seg), f.r = p.machine.r
  PROVE  LET i == p.code[1]
         IN  /\ i.op \in ShiftOps /\ i.pfx = {} /\ i.alu \in 0..9
             /\ p.w \in Widths
             /\ Shifts(f, i) =
                  LET a == Shifted(i.alu, p.w, p.d, Get(p.machine, p.w, EBX), p.s, f.fl)
                  IN  Put(With(f, a.fl), p.w, EAX, a.v)
<1> DEFINE i == p.code[1]
           w == p.w
           a(n, s) == Shifted(n, w, Get(f, w, EAX), Get(f, w, EBX), s, f.fl)
           e(n, s) == Put(With(f, a(n, s).fl), w, EAX, a(n, s).v)
<1>1. /\ i.mod = 3 /\ i.pfx = {} /\ i.rm = EAX
      /\ \/ i.op \in {"Shift_IMM", "Shift_1", "Shift_CL"} /\ i.alu \in 0..7
         \/ i.op \in {"Shld_IMM", "Shld_CL"} /\ i.alu = 8 /\ i.reg = EBX /\ ~i.byte
         \/ i.op \in {"Shrd_IMM", "Shrd_CL"} /\ i.alu = 9 /\ i.reg = EBX /\ ~i.byte
      /\ w = WidthOf(p, i) /\ p.d = Get(p.machine, w, EAX) /\ p.s = CountOf(p, i)
  BY DEF ShiftTask, InRegisters
<1>2. w = Width(f, i) /\ w \in Widths /\ (~i.byte => w = DataWidth(f))
  BY <1>1, WidthOfTask
<1>3. \A v, k : Get(f, v, k) = Get(p.machine, v, k)
  BY DEF Get
<1> HIDE DEF i, w
<1>4. i.op \in {"Shift_IMM", "Shift_1", "Shift_CL"} /\ i.alu \in 0..7 => Shifts(f, i) = e(i.alu, p.s)
  <2> SUFFICES ASSUME i.op \in {"Shift_IMM", "Shift_1", "Shift_CL"}, i.alu \in 0..7
               PROVE  Shifts(f, i) = e(i.alu, p.s)
    OBVIOUS
  <2>1. ShiftRm(f, i, p.s) = e(i.alu, p.s)
    <3>1. i.alu # 8 /\ i.alu # 9
      OBVIOUS
    <3>2. QED
      BY <1>1, <1>2, <3>1 DEF ShiftRm, Rm, AtRm, SetRm, Shifted
  <2>2. Shifts(f, i) = ShiftRm(f, i, p.s)
    BY <1>1, <1>3 DEF Shifts, Shift_IMM, Shift_1, Shift_CL, CountOf
  <2>3. QED
    BY <2>1, <2>2
<1>5. i.op \in {"Shld_IMM", "Shld_CL"} /\ i.alu = 8 /\ i.reg = EBX /\ ~i.byte => Shifts(f, i) = e(i.alu, p.s)
  <2> SUFFICES ASSUME i.op \in {"Shld_IMM", "Shld_CL"}, i.alu = 8, i.reg = EBX, ~i.byte
               PROVE  Shifts(f, i) = e(i.alu, p.s)
    OBVIOUS
  <2>1. ShiftDouble(f, i, p.s, Shld) = e(i.alu, p.s)
    BY <1>1, <1>2 DEF ShiftDouble, Rm, AtRm, SetRm, Shifted
  <2>2. Shifts(f, i) = ShiftDouble(f, i, p.s, Shld)
    BY <1>1, <1>3 DEF Shifts, Shld_IMM, Shld_CL, CountOf
  <2>3. QED
    BY <2>1, <2>2
<1>6. i.op \in {"Shrd_IMM", "Shrd_CL"} /\ i.alu = 9 /\ i.reg = EBX /\ ~i.byte => Shifts(f, i) = e(i.alu, p.s)
  <2> SUFFICES ASSUME i.op \in {"Shrd_IMM", "Shrd_CL"}, i.alu = 9, i.reg = EBX, ~i.byte
               PROVE  Shifts(f, i) = e(i.alu, p.s)
    OBVIOUS
  <2>1. ShiftDouble(f, i, p.s, Shrd) = e(i.alu, p.s)
    BY <1>1, <1>2 DEF ShiftDouble, Rm, AtRm, SetRm, Shifted
  <2>2. Shifts(f, i) = ShiftDouble(f, i, p.s, Shrd)
    BY <1>1, <1>3 DEF Shifts, Shrd_IMM, Shrd_CL, CountOf
  <2>3. QED
    BY <2>1, <2>2
<1>7. Shifts(f, i) = e(i.alu, p.s) /\ i.op \in ShiftOps /\ i.alu \in 0..9
  BY <1>1, <1>4, <1>5, <1>6 DEF ShiftOps
<1>8. QED
  BY <1>1, <1>2, <1>3, <1>7 DEF i, w

\* The machine n holds the result.
ShiftDone(p, n) ==
  MovedBits(p.code[1].alu, p.w, p.d, Get(p.machine, p.w, EBX), p.s, p.machine.fl,
            [v |-> Get(n, p.w, EAX), fl |-> n.fl])

ShiftInv ==
  /\ program \in Programs
  /\ Task.kind = "shift" =>
       \/ run = "out of budget"
       \/ run = "running" /\ m = Start
       \/ run = "running" /\ At(Task, m, 2) /\ ShiftDone(Task, m)
       \/ run = "halted" /\ ShiftDone(Task, m)

\* The shift itself.
LEMMA ShiftStep ==
  ASSUME NEW p \in Programs, p.kind = "shift"
  PROVE  LET i == p.code[1]
             e == Shifts(Fetched(p.machine, i), i)
         IN  /\ At(p, p.machine, 1) /\ 1 \in 1..Len(p.code) /\ Len(p.code) = 1 /\ i.op \in ShiftOps
             /\ Goes(p, 1, e) /\ ShiftDone(p, Retired(e))
<1> DEFINE i == p.code[1]
           f == Fetched(p.machine, i)
           d == p.d
           fill == Get(p.machine, p.w, EBX)
           a == Shifted(i.alu, p.w, d, fill, p.s, f.fl)
           e == Put(With(f, a.fl), p.w, EAX, a.v)
<1>1. ShiftTask(p) /\ p.kind \in Checked /\ Len(p.code) = 1 /\ 1 \in 1..Len(p.code)
  <2>1. ShiftTask(p)
    BY TasksAssumption
  <2>2. QED
    BY <2>1 DEF ShiftTask, Checked
<1>2. At(p, p.machine, 1)
  BY <1>1, Layout DEF At
<1>3. i.op \in ShiftOps /\ i.pfx = {}
  <2>1. /\ i.pfx = {}
        /\ \/ i.op \in {"Shift_IMM", "Shift_1", "Shift_CL"}
           \/ i.op \in {"Shld_IMM", "Shld_CL"}
           \/ i.op \in {"Shrd_IMM", "Shrd_CL"}
    BY <1>1 DEF ShiftTask, InRegisters
  <2>2. QED
    BY <2>1 DEF ShiftOps
<1>4. /\ Calm(f, p.machine.seg) /\ f.mode = ModeIn(p.machine.seg)
      /\ f.r = p.machine.r /\ f.fl = p.machine.fl /\ f.eip = p.eips[1 + 1]
      /\ \A x : Keeps(x, f, {"r", "fl", "eip"}) /\ x.r \in [0..7 -> Int] =>
           /\ x.host # "dead" /\ Outcome(x) = "running" /\ Calm(Retired(x), p.machine.seg)
           /\ Retired(x).r = x.r /\ Retired(x).fl = x.fl /\ Retired(x).eip = x.eip
  BY <1>1, <1>2, <1>3, Advances, SMTT(60)
<1> HIDE DEF f
<1>5. /\ i.alu \in 0..9 /\ p.w \in Widths /\ Shifts(f, i) = e
  BY <1>1, <1>4, ShiftHandlers
<1>6. d \in WordOf(p.w) /\ fill \in WordOf(p.w)
  <2>1. p.machine.r \in [0..7 -> Int] /\ EAX \in 0..7 /\ EBX \in 0..7
    BY <1>1, Layout DEF Calm, EAX, EBX
  <2>2. d = Get(p.machine, p.w, EAX)
    BY <1>1 DEF ShiftTask
  <2>3. QED
    BY <1>5, <2>1, <2>2, GetWord
<1>7. p.s \in Nat /\ (i.alu \in 4..9 => p.s < p.w)
  BY <1>1, WidthFacts, PowerFacts DEF ShiftTask, WordOf
<1> HIDE DEF i, d, fill
<1>8. MovedBits(i.alu, p.w, d, fill, p.s, f.fl, a)
  BY <1>5, <1>6, <1>7, ShiftedMoves
<1>9. a.v \in WordOf(p.w)
  BY <1>8 DEF MovedBits
<1>10. Goes(p, 1, e) /\ StoredIn(e, p.machine, p.w, EAX, a.v, a.fl)
  <2> DEFINE g == a.fl
             v == a.v
             w == p.w
  <2>1. ~High8(w, EAX) /\ EAX \in 0..7 /\ w \in Widths /\ v \in WordOf(w) /\ p.code[1].pfx = {}
    BY <1>3, <1>5, <1>9 DEF High8, i, EAX
  <2> HIDE DEF g, v, w
  <2>2. LET h == Put(With(Fetched(p.machine, p.code[1]), g), w, EAX, v)
        IN  Goes(p, 1, h) /\ StoredIn(h, p.machine, w, EAX, v, g)
    BY <1>1, <1>2, <2>1, Stores
  <2>3. QED
    BY <2>2 DEF g, v, w, f, i
<1> DEFINE t == Retired(e)
<1> HIDE DEF e, a
<1>11. ShiftDone(p, t)
  <2>1. t.fl = a.fl /\ t.r = e.r /\ Get(e, p.w, EAX) = a.v
    BY <1>10 DEF Goes, StoredIn
  <2>2. Get(t, p.w, EAX) = a.v
    BY <2>1 DEF Get
  <2> HIDE DEF t
  <2>3. QED
    BY <1>4, <1>8, <2>1, <2>2 DEF ShiftDone, MovedBits, fill, d, i
<1>12. QED
  BY <1>1, <1>2, <1>3, <1>5, <1>10, <1>11 DEF t, f, i

LEMMA ShiftInit == Init => ShiftInv
  BY DEF Init, ShiftInv, Start, Task

LEMMA ShiftNext == ShiftInv /\ [Next]_vars => ShiftInv'
<1> SUFFICES ASSUME ShiftInv, [Next]_vars PROVE ShiftInv'
  OBVIOUS
<1>1. CASE UNCHANGED vars
  BY <1>1 DEF ShiftInv, vars, Task, Start, At, ShiftDone, Get
<1>2. CASE Next
  <2>1. run = "running" /\ program \in Programs
    BY <1>2, Rests DEF ShiftInv
  <2>2. CASE Task.kind # "shift"
    <3>1. program' = program
      BY <1>2, SameProgram
    <3>2. QED
      BY <2>1, <2>2, <3>1 DEF ShiftInv, Task
  <2>3. CASE Task.kind = "shift" /\ m = Start
    <3> DEFINE i == The(1)
               e == Shifts(Fetched(m, i), i)
    <3>1. /\ At(Task, m, 1) /\ 1 \in 1..Len(Task.code) /\ i.op \in ShiftOps
          /\ Goes(Task, 1, e) /\ ShiftDone(Task, Retired(e))
      BY <2>1, <2>3, ShiftStep DEF Task, Start, The
    <3>2. Task.kind \in Checked
      BY <2>3 DEF Checked
    <3>3. \/ run' = "out of budget" /\ program' = program
          \/ Ran(e)
      BY <1>2, <2>1, <3>1, <3>2, Executes
    <3> HIDE DEF e
    <3>4. ASSUME Ran(e) PROVE program' = program /\ run' = "running" /\ m' = Retired(e)
      BY <3>1, <3>4 DEF Ran, Goes
    <3>5. At(Task, Retired(e), 2)
      BY <3>1 DEF Goes
    <3>6. QED
      BY <2>1, <2>3, <3>1, <3>3, <3>4, <3>5 DEF ShiftInv, Task, At, ShiftDone
  <2>4. CASE Task.kind = "shift" /\ At(Task, m, 2) /\ ShiftDone(Task, m)
    <3>1. Task.kind \in Checked /\ Len(Task.code) + 1 = 2
      <4>1. program.kind = "shift"
        BY <2>4 DEF Task
      <4>2. Len(program.code) = 1
        BY <2>1, <4>1, ShiftStep
      <4>3. QED
        BY <4>1, <4>2 DEF Checked, Task
    <3>2. /\ program' = program
          /\ \/ run' = "out of budget"
             \/ run' = "halted" /\ m'.r = m.r /\ m'.fl = m.fl
      BY <1>2, <2>1, <2>4, <3>1, Ends
    <3>3. QED
      BY <2>1, <2>4, <3>2 DEF ShiftInv, Task, ShiftDone, Get
  <2>5. QED
    BY <2>1, <2>2, <2>3, <2>4 DEF ShiftInv
<1>3. QED
  BY <1>1, <1>2

LEMMA ShiftMeans == ShiftInv => ShiftsMoveBits
<1> SUFFICES ASSUME ShiftInv, Task.kind = "shift", Ended
             PROVE  LET n     == The(1).alu
                        fill  == Get(Start, Task.w, EBX)
                        carry == CarryIn = 1
                    IN  /\ \A k \in 0 .. Task.w - 1 :
                             Bit(Result, k) <=> ShiftedBit(n, Task.w, Task.d, fill, Task.s, carry, k)
                        /\ Task.s = 0 => Num("CF") = CarryIn
                        /\ Task.s # 0 => (Has("CF") <=> ShiftedCarry(n, Task.w, Task.d, Task.s, carry))
  BY DEF ShiftsMoveBits
<1>1. ShiftDone(Task, m)
  BY DEF ShiftInv, Ended
<1>2. (CarryIn = 1) = ("CF" \in Task.machine.fl)
  BY DEF CarryIn, Start
<1>3. QED
  BY <1>1, <1>2 DEF ShiftDone, MovedBits, Result, Num, Has, CarryIn, Start, The, ShiftedBit, ShiftedCarry, Ring

\* Every rotate, shift and double shift that a guest executes, at any width
\* and by immediate, one or CL, moves each bit of EAX by its count and leaves
\* in the carry the last bit that went out (the handlers of the opcodes C0, C1,
\* D0 to D3, 0F A4, 0F A5, 0F AC and 0F AD).
THEOREM ShiftsAlwaysMoveBits == Spec => []ShiftsMoveBits
  BY ShiftInit, ShiftNext, ShiftMeans, PTL DEF Spec

-----------------------------------------------------------------------------
(* Decimal arithmetic.                                                     *)

\* A byte with two digits.
LEMMA PackedByte ==
  ASSUME NEW x \in WordOf(ByteBits), Digits(x)
  PROVE  x \in PackedBytes
<1>1. Halved \in Nat \ {0} /\ 2 ^ ByteBits = Halved * Halved /\ Halved = 2 ^ Nibble
  BY NibbleValues DEF Halved
<1>2. x \in 0..Halved * Halved - 1 /\ x \in Int
  BY <1>1, PowerFacts, WidthFacts DEF WordOf
<1>3. x \div Halved < Ten /\ x % Halved < Ten
  BY <1>1 DEF Digits, Shr, Trunc
<1>4. x % Halved \in 0..Halved - 1 /\ x \div Halved \in Int /\ x \div Halved >= 0
  <2>1. x \in Nat
    BY <1>1, <1>2
  <2>2. CASE Halved = 8
    BY <2>1, <2>2
  <2>3. CASE Halved = 16
    BY <2>1, <2>3
  <2>4. QED
    BY <2>2, <2>3, NibbleValues
<1>5. Ten \in Nat
  BY WordsAssumption, PowerFacts
<1>6. QED
  BY <1>1, <1>2, <1>3, <1>4, <1>5 DEF PackedBytes

\* The first of two instructions: a byte is added or subtracted.
FirstSum(p) == LET al == Get(p.machine, ByteBits, EAX)
                   bl == Get(p.machine, ByteBits, EBX)
               IN  IF p.code[1].alu = 2 THEN Adc(ByteBits, al, bl, p.machine.fl)
                   ELSE Sbb(ByteBits, al, bl, p.machine.fl)

\* What a result in AL is in the registers of n.
HasAL(n, h, v) == /\ Get(n, ByteBits, EAX) = v /\ Get(n, ByteBits, 4) = h
                  /\ Get(n, WordBits, EAX) = Trunc(Join(h, v, ByteBits), WordBits)
HasAX(n, v) == /\ Get(n, WordBits, EAX) = v
               /\ Get(n, ByteBits, EAX) = Low(v, ByteBits) /\ Get(n, ByteBits, 4) = High(v, ByteBits)

\* Results of an instruction in the accumulator.
LEMMA StoresAL ==
  ASSUME NEW p \in Programs, p.kind \in Checked, NEW k \in 1..Len(p.code), NEW n, At(p, n, k),
         p.code[k].pfx = {}, NEW v \in WordOf(ByteBits), NEW g
  PROVE  LET e == Put(With(Fetched(n, p.code[k]), g), ByteBits, EAX, v)
         IN  Goes(p, k, e) /\ e.fl = g /\ HasAL(e, Get(n, ByteBits, 4), v)
<1> DEFINE f == Fetched(n, p.code[k])
           h == With(f, g)
           e == Put(h, ByteBits, EAX, v)
<1>1. ByteBits \in Widths /\ EAX \in 0..7 /\ ~High8(ByteBits, EAX)
  BY DEF Widths, EAX, High8
<1>2. Goes(p, k, e) /\ StoredIn(e, n, ByteBits, EAX, v, g)
  BY <1>1, Stores
<1>3. Calm(f, p.machine.seg) /\ f.r = n.r
  BY Advances
<1>4. DOMAIN f = Fields /\ f.r \in [0..7 -> Int]
  BY <1>3 DEF Calm
<1> HIDE DEF f
<1>5. Keeps(h, f, {"fl"})
  BY <1>4, WithFacts
<1>6. DOMAIN h = Fields /\ h.r = f.r
  BY <1>5 DEF Keeps, Fields
<1> HIDE DEF h
<1>7. HasAL(e, Get(h, ByteBits, 4), v)
  BY <1>4, <1>6, PutAL DEF HasAL
<1>8. Get(h, ByteBits, 4) = Get(n, ByteBits, 4)
  BY <1>3, <1>6 DEF Get
<1>9. QED
  BY <1>2, <1>7, <1>8 DEF StoredIn, e, h, f

LEMMA StoresAX ==
  ASSUME NEW p \in Programs, p.kind \in Checked, NEW k \in 1..Len(p.code), NEW n, At(p, n, k),
         p.code[k].pfx = {}, NEW v \in WordOf(WordBits), NEW g
  PROVE  LET e == Put(With(Fetched(n, p.code[k]), g), WordBits, EAX, v)
         IN  Goes(p, k, e) /\ e.fl = g /\ HasAX(e, v)
<1> DEFINE e == Put(With(Fetched(n, p.code[k]), g), WordBits, EAX, v)
<1>1. WordBits \in Widths /\ EAX \in 0..7 /\ ~High8(WordBits, EAX)
  BY WidthFacts DEF Widths, EAX, High8
<1>2. Goes(p, k, e) /\ StoredIn(e, n, WordBits, EAX, v, g)
  BY <1>1, Stores
<1> HIDE DEF e
<1>3. e.r \in [0..7 -> Int] /\ Get(e, WordBits, EAX) = v /\ e.fl = g
  BY <1>2 DEF StoredIn
<1>4. QED
  BY <1>2, <1>3, AccumulatorBytes DEF HasAX, e

\* The machine that executes the instruction reads the registers before it.
LEMMA ReadsBefore ==
  ASSUME NEW p \in Programs, p.kind \in Checked, NEW k \in 1..Len(p.code), NEW n, At(p, n, k),
         p.code[k].pfx = {}
  PROVE  /\ \A w, j : Get(Fetched(n, p.code[k]), w, j) = Get(n, w, j)
         /\ Fetched(n, p.code[k]).fl = n.fl
<1> DEFINE f == Fetched(n, p.code[k])
<1>1. f.r = n.r /\ f.fl = n.fl
  BY Advances
<1> HIDE DEF f
<1>2. QED
  BY <1>1 DEF Get, f

\* The two kinds of decimal programs.
SumTask(p) ==
  LET i == p.code[1]
      j == p.code[2]
  IN  /\ Onto(i, "OpA_RM_R", EAX, EBX) /\ i.byte /\ Len(p.code) = 2
      /\ j.op \in {"DaaAL", "DasAL", "AaaAX", "AasAX"} /\ j.pfx = {}
      /\ i.alu = IF j.op \in {"DaaAL", "AaaAX"} THEN 2 ELSE 3
DigitTask(p) ==
  LET i == p.code[1]
      j == p.code[2]
  IN  /\ i.op = "AamAX" /\ i.imm \in WordOf(ByteBits) /\ i.pfx = {}
      /\ p.d = Get(p.machine, ByteBits, EAX)
      /\ Len(p.code) = 1 \/ (Len(p.code) = 2 /\ j.op = "AadAX" /\ j.imm = i.imm /\ j.pfx = {})

LEMMA DecimalKinds ==
  ASSUME NEW p \in Programs, p.kind = "decimal"
  PROVE  /\ DecimalTask(p) /\ p.kind \in Checked /\ At(p, p.machine, 1)
         /\ SumTask(p) \/ DigitTask(p)
         /\ p.machine.r \in [0..7 -> Int]
<1>1. DecimalTask(p) /\ p.kind \in Checked
  BY TasksAssumption DEF Checked
<1>2. SumTask(p) \/ DigitTask(p)
  <2>1. \A k \in 1..Len(p.code) : p.code[k].pfx = {}
    BY <1>1 DEF DecimalTask
  <2>2. Len(p.code) = 1 => 1 \in 1..Len(p.code)
    OBVIOUS
  <2>3. Len(p.code) = 2 => 1 \in 1..Len(p.code) /\ 2 \in 1..Len(p.code)
    OBVIOUS
  <2>4. QED
    BY <1>1, <2>1, <2>2, <2>3 DEF DecimalTask, SumTask, DigitTask
<1>3. At(p, p.machine, 1) /\ p.machine.r \in [0..7 -> Int]
  BY <1>1, Layout DEF At, Calm
<1>4. QED
  BY <1>1, <1>2, <1>3

\* The sum or the difference is in AL.
LEMMA SumFirst ==
  ASSUME NEW p \in Programs, p.kind = "decimal", SumTask(p)
  PROVE  LET i == p.code[1]
             e == Arithmetics(Fetched(p.machine, i), i)
         IN  /\ i.op \in ArithmeticOps /\ 1 \in 1..Len(p.code) /\ Goes(p, 1, e)
             /\ e.fl = FirstSum(p).fl /\ HasAL(e, Get(p.machine, ByteBits, 4), FirstSum(p).v)
<1> DEFINE i == p.code[1]
           f == Fetched(p.machine, i)
           al == Get(p.machine, ByteBits, EAX)
           bl == Get(p.machine, ByteBits, EBX)
           v == FirstSum(p).v
           g == FirstSum(p).fl
<1>1. /\ i.op = "OpA_RM_R" /\ i.mod = 3 /\ i.pfx = {} /\ i.rm = EAX /\ i.reg = EBX /\ i.byte
      /\ i.alu \in {2, 3} /\ 1 \in 1..Len(p.code)
  BY DEF SumTask, Onto, InRegisters
<1>2. p.kind \in Checked /\ At(p, p.machine, 1) /\ p.machine.r \in [0..7 -> Int]
  BY DecimalKinds
<1>3. (\A w, k : Get(f, w, k) = Get(p.machine, w, k)) /\ f.fl = p.machine.fl
  BY <1>1, <1>2, ReadsBefore
<1>4. v \in WordOf(ByteBits)
  <2>1. ByteBits \in Widths /\ EAX \in 0..7 /\ EBX \in 0..7 /\ ByteBits \in Nat /\ ByteBits >= ByteBits
    BY WidthFacts DEF Widths, EAX, EBX
  <2>2. al \in WordOf(ByteBits) /\ bl \in WordOf(ByteBits)
    BY <1>2, <2>1, GetWord
  <2> DEFINE fl == p.machine.fl
  <2> HIDE DEF al, bl, fl
  <2>3. Adc(ByteBits, al, bl, fl).v \in WordOf(ByteBits)
    BY <2>1, <2>2, AdcIsExact
  <2>4. Sbb(ByteBits, al, bl, fl).v \in WordOf(ByteBits)
    BY <2>1, <2>2, SbbIsExact
  <2>5. QED
    BY <2>3, <2>4 DEF FirstSum, al, bl, fl
<1>5. Arithmetics(f, i) = Put(With(f, g), ByteBits, EAX, v)
  <2>1. OpA(i.alu, ByteBits, Get(f, ByteBits, EAX), Get(f, ByteBits, EBX), f.fl) = FirstSum(p)
    <3> DEFINE fl == p.machine.fl
    <3> HIDE DEF al, bl, f, i, fl
    <3>1. Get(f, ByteBits, EAX) = al /\ Get(f, ByteBits, EBX) = bl /\ f.fl = fl
      BY <1>3 DEF al, bl, fl
    <3>2. i.alu = 2 \/ i.alu = 3
      BY <1>1
    <3>3. FirstSum(p) = IF i.alu = 2 THEN Adc(ByteBits, al, bl, fl) ELSE Sbb(ByteBits, al, bl, fl)
      BY DEF FirstSum, al, bl, fl, i
    <3>4. QED
      BY <3>1, <3>2, <3>3 DEF OpA
  <2> HIDE DEF f, i, v, g
  <2>2. Arithmetics(f, i) = OntoRm(f, i, ByteBits, Get(f, ByteBits, EBX))
    BY <1>1 DEF Arithmetics, OpA_RM_R, Width
  <2>3. i.alu # 7
    BY <1>1
  <2>4. QED
    BY <1>1, <2>1, <2>2, <2>3 DEF OntoRm, Rm, AtRm, SetRm, v, g
<1> HIDE DEF v, g, f
<1>6. LET e == Put(With(f, g), ByteBits, EAX, v)
      IN  Goes(p, 1, e) /\ e.fl = g /\ HasAL(e, Get(p.machine, ByteBits, 4), v)
  <2> HIDE DEF al, bl
  <2>1. QED
    BY <1>1, <1>2, <1>4, StoresAL DEF f
<1>7. i.op \in ArithmeticOps
  BY <1>1 DEF ArithmeticOps
<1>8. QED
  BY <1>1, <1>5, <1>6, <1>7 DEF v, g, f

\* The digits are in AH and AL; a base of zero is the end of the program.
LEMMA DigitsFirst ==
  ASSUME NEW p \in Programs, p.kind = "decimal", DigitTask(p)
  PROVE  LET i == p.code[1]
             e == Decimals(Fetched(p.machine, i), i)
         IN  /\ i.op \in DecimalOps /\ 1 \in 1..Len(p.code)
             /\ p.d \in WordOf(ByteBits) /\ i.imm \in WordOf(ByteBits)
             /\ i.imm = 0 => e.host = "dead" /\ Get(e, ByteBits, EAX) = p.d
             /\ i.imm # 0 => Goes(p, 1, e) /\ HasAX(e, Aam(p.d, i.imm, p.machine.fl).v)
<1> DEFINE i == p.code[1]
           f == Fetched(p.machine, i)
           x == Aam(p.d, i.imm, p.machine.fl)
           v == x.v
           g == x.fl
<1>1. /\ i.op = "AamAX" /\ i.imm \in WordOf(ByteBits) /\ i.pfx = {} /\ 1 \in 1..Len(p.code)
      /\ p.d = Get(p.machine, ByteBits, EAX)
  BY DEF DigitTask
<1>2. p.kind \in Checked /\ At(p, p.machine, 1) /\ p.machine.r \in [0..7 -> Int]
  BY DecimalKinds
<1>3. (\A w, k : Get(f, w, k) = Get(p.machine, w, k)) /\ f.fl = p.machine.fl
  BY <1>1, <1>2, ReadsBefore
<1>4. p.d \in WordOf(ByteBits)
  <2>1. ByteBits \in Widths /\ EAX \in 0..7
    BY DEF Widths, EAX
  <2>2. QED
    BY <1>1, <1>2, <2>1, GetWord, ZenonT(60)
<1>5. Trunc(i.imm, ByteBits) = i.imm
  <2> DEFINE y == i.imm
  <2> HIDE DEF i
  <2>1. y \in WordOf(ByteBits) /\ y \in Int /\ ByteBits \in Nat
    BY <1>1, WidthFacts, PowerFacts DEF WordOf
  <2> HIDE DEF y
  <2>2. Trunc(y, ByteBits) = y
    BY <2>1, TruncFacts
  <2>3. QED
    BY <2>2 DEF y
<1>6. Decimals(f, i) = AamAX(f, i)
  BY <1>1 DEF Decimals
<1>7. ASSUME i.imm = 0
      PROVE  Decimals(f, i).host = "dead" /\ Get(Decimals(f, i), ByteBits, EAX) = p.d
  <2> DEFINE e == Decimals(f, i)
             h == DIV0(f)
  <2>0. DOMAIN f = Fields
    BY <1>1, <1>2, Advances DEF Calm
  <2> HIDE DEF f
  <2>1. e = [h EXCEPT !.host = "dead"]
    BY <1>5, <1>6, <1>7 DEF AamAX
  <2>2. DOMAIN h = Fields /\ h.r = f.r
    BY <2>0 DEF DIV0, Raise, Fields
  <2> HIDE DEF h
  <2>3. e.host = "dead" /\ e.r = f.r
    BY <2>1, <2>2 DEF Fields
  <2> HIDE DEF e
  <2>4. Get(e, ByteBits, EAX) = Get(f, ByteBits, EAX)
    BY <2>3 DEF Get
  <2>5. QED
    BY <1>1, <1>3, <2>3, <2>4 DEF e
<1>8. ASSUME i.imm # 0
      PROVE  Goes(p, 1, Decimals(f, i)) /\ HasAX(Decimals(f, i), v)
  <2>1. v \in WordOf(WordBits)
    BY <1>1, <1>4, <1>8, AamIsExact
  <2>2. Decimals(f, i) = Put(With(f, g), WordBits, EAX, v)
    <3>1. Aam(Get(f, ByteBits, EAX), i.imm, f.fl) = x
      BY <1>1, <1>3
    <3> HIDE DEF f, x
    <3>2. QED
      BY <1>5, <1>6, <1>8, <3>1 DEF AamAX, PutAns
  <2> HIDE DEF v, g
  <2>3. LET e == Put(With(f, g), WordBits, EAX, v)
        IN  Goes(p, 1, e) /\ e.fl = g /\ HasAX(e, v)
    BY <1>1, <1>2, <2>1, StoresAX
  <2>4. QED
    BY <2>2, <2>3
<1>9. i.op \in DecimalOps
  BY <1>1 DEF DecimalOps
<1>10. QED
  BY <1>1, <1>4, <1>7, <1>8, <1>9

\* After the first of two instructions, and at the end.
Mid(p, n) ==
  IF SumTask(p)
  THEN n.fl = FirstSum(p).fl /\ HasAL(n, Get(p.machine, ByteBits, 4), FirstSum(p).v)
  ELSE p.code[1].imm # 0 /\ HasAX(n, Aam(p.d, p.code[1].imm, p.machine.fl).v)

DecimalDone(p, n) ==
  LET i   == p.code[Len(p.code)]
      al  == Get(n, ByteBits, EAX)
      ah  == Get(n, ByteBits, 4)
      ah0 == Get(p.machine, ByteBits, 4)
      sum == p.d + p.s + Carry(p.machine.fl)
      dif == p.d - p.s - Carry(p.machine.fl)
  IN  CASE i.op = "DaaAL" -> Packed(al) + Carry(n.fl) * Ten * Ten = sum
        [] i.op = "DasAL" -> Packed(al) - Carry(n.fl) * Ten * Ten = dif
        [] i.op = "AaaAX" -> Trunc(ah - ah0, ByteBits) * Ten + al = sum
        [] i.op = "AasAX" -> Trunc(ah0 - ah, ByteBits) * Ten = al - dif
        [] i.op = "AamAX" -> i.imm # 0 /\ ah * i.imm + al = p.d /\ al < i.imm
        [] i.op = "AadAX" -> al = p.d

\* The decimal adjustment of the sum.
LEMMA SumSecond ==
  ASSUME NEW p \in Programs, p.kind = "decimal", SumTask(p), NEW n, At(p, n, 2), Mid(p, n)
  PROVE  LET j == p.code[2]
             e == Decimals(Fetched(n, j), j)
         IN  /\ j.op \in DecimalOps /\ 2 \in 1..Len(p.code) /\ Goes(p, 2, e) /\ DecimalDone(p, e)
<1> DEFINE j == p.code[2]
           f == Fetched(n, j)
           al == Get(p.machine, ByteBits, EAX)
           bl == Get(p.machine, ByteBits, EBX)
           ah == Get(p.machine, ByteBits, 4)
           fl == p.machine.fl
           v == FirstSum(p).v
           g == FirstSum(p).fl
           e == Decimals(f, j)
<1>1. /\ p.kind \in Checked /\ 2 \in 1..Len(p.code) /\ Len(p.code) = 2 /\ j.pfx = {}
      /\ j.op \in {"DaaAL", "DasAL", "AaaAX", "AasAX"} /\ j.op \in DecimalOps
      /\ p.code[1].alu = IF j.op \in {"DaaAL", "AaaAX"} THEN 2 ELSE 3
  <2>1. p.kind \in Checked
    BY DecimalKinds
  <2>2. QED
    BY <2>1 DEF SumTask, DecimalOps
<1>2. (\A w, k : Get(f, w, k) = Get(n, w, k)) /\ f.fl = n.fl
  BY <1>1, ReadsBefore
<1>3. /\ Get(f, ByteBits, EAX) = v /\ f.fl = g
      /\ Get(f, WordBits, EAX) = Trunc(Join(ah, v, ByteBits), WordBits)
  BY <1>2 DEF Mid, HasAL
<1>4. al \in WordOf(ByteBits) /\ bl \in WordOf(ByteBits) /\ ah \in WordOf(ByteBits)
  <2>1. ByteBits \in Widths /\ EAX \in 0..7 /\ EBX \in 0..7 /\ 4 \in 0..7 /\ p.machine.r \in [0..7 -> Int]
    BY DecimalKinds DEF Widths, EAX, EBX
  <2>2. QED
    BY <2>1, GetWord
<1>5. /\ j.op \in {"DaaAL", "DasAL"} =>
           al \in PackedBytes /\ bl \in PackedBytes /\ p.d = Packed(al) /\ p.s = Packed(bl)
      /\ j.op \in {"AaaAX", "AasAX"} =>
           al \in 0..Ten - 1 /\ bl \in 0..Ten - 1 /\ p.d = al /\ p.s = bl
  <2>1. /\ j.op \in {"DaaAL", "DasAL"} => Digits(al) /\ Digits(bl) /\ p.d = Packed(al) /\ p.s = Packed(bl)
        /\ j.op \in {"AaaAX", "AasAX"} => al < Ten /\ bl < Ten /\ p.d = al /\ p.s = bl
    <3>1. p.code[1].op # "AamAX"
      BY DEF SumTask, Onto
    <3>2. DecimalTask(p)
      BY DecimalKinds
    <3>3. QED
      BY <1>1, <3>1, <3>2 DEF DecimalTask
  <2>2. Ten \in Nat /\ \A x \in WordOf(ByteBits) : x \in Nat
    BY NibbleValues, PowerFacts, WidthFacts DEF WordOf
  <2> HIDE DEF al, bl, j
  <2>3. (Digits(al) => al \in PackedBytes) /\ (Digits(bl) => bl \in PackedBytes)
    BY <1>4, PackedByte
  <2>4. QED
    BY <1>4, <2>1, <2>2, <2>3
<1>6. FirstSum(p) = IF j.op \in {"DaaAL", "AaaAX"} THEN Adc(ByteBits, al, bl, fl) ELSE Sbb(ByteBits, al, bl, fl)
  BY <1>1 DEF FirstSum
<1> HIDE DEF al, bl, ah, fl, j, f
<1>7. CASE j.op = "DaaAL"
  <2> DEFINE x == Daa(v, g)
             xv == x.v
             xg == x.fl
  <2>1. al \in PackedBytes /\ bl \in PackedBytes /\ FirstSum(p) = Adc(ByteBits, al, bl, fl)
    BY <1>5, <1>6, <1>7
  <2>2. xv \in PackedBytes /\ Packed(xv) + Carry(xg) * Ten * Ten = Packed(al) + Packed(bl) + Carry(fl)
    <3> DEFINE r == Adc(ByteBits, al, bl, fl)
               y == Daa(r.v, r.fl)
    <3>1. y.v \in PackedBytes /\ Packed(y.v) + Carry(y.fl) * Ten * Ten = Packed(al) + Packed(bl) + Carry(fl)
      BY <2>1, DaaIsExact
    <3> HIDE DEF r
    <3>2. r.v = v /\ r.fl = g
      BY <2>1 DEF r
    <3>3. QED
      BY <3>1, <3>2
  <2>3. xv \in WordOf(ByteBits)
    BY <2>2, NibbleValues DEF PackedBytes, WordOf
  <2>4. e = Put(With(f, xg), ByteBits, EAX, xv)
    BY <1>3, <1>7 DEF Decimals, DaaAL, PutAns
  <2> HIDE DEF x, xv, xg
  <2>5. LET h == Put(With(f, xg), ByteBits, EAX, xv)
        IN  Goes(p, 2, h) /\ h.fl = xg /\ HasAL(h, Get(n, ByteBits, 4), xv)
    BY <1>1, <2>3, StoresAL DEF f, j
  <2> HIDE DEF e
  <2>6. Goes(p, 2, e) /\ e.fl = xg /\ Get(e, ByteBits, EAX) = xv
    BY <2>4, <2>5 DEF HasAL
  <2>7. DecimalDone(p, e)
    BY <1>1, <1>5, <1>7, <2>2, <2>6 DEF DecimalDone, fl, j
  <2>8. QED
    BY <1>1, <2>6, <2>7 DEF e, f, j
<1>8. CASE j.op = "DasAL"
  <2> DEFINE x == Das(v, g)
             xv == x.v
             xg == x.fl
  <2>1. al \in PackedBytes /\ bl \in PackedBytes /\ FirstSum(p) = Sbb(ByteBits, al, bl, fl)
    BY <1>5, <1>6, <1>8
  <2>2. xv \in PackedBytes /\ Packed(xv) - Carry(xg) * Ten * Ten = Packed(al) - Packed(bl) - Carry(fl)
    <3> DEFINE r == Sbb(ByteBits, al, bl, fl)
               y == Das(r.v, r.fl)
    <3>1. y.v \in PackedBytes /\ Packed(y.v) - Carry(y.fl) * Ten * Ten = Packed(al) - Packed(bl) - Carry(fl)
      BY <2>1, DasIsExact
    <3> HIDE DEF r
    <3>2. r.v = v /\ r.fl = g
      BY <2>1 DEF r
    <3>3. QED
      BY <3>1, <3>2
  <2>3. xv \in WordOf(ByteBits)
    BY <2>2, NibbleValues DEF PackedBytes, WordOf
  <2>4. e = Put(With(f, xg), ByteBits, EAX, xv)
    BY <1>3, <1>8 DEF Decimals, DasAL, PutAns
  <2> HIDE DEF x, xv, xg
  <2>5. LET h == Put(With(f, xg), ByteBits, EAX, xv)
        IN  Goes(p, 2, h) /\ h.fl = xg /\ HasAL(h, Get(n, ByteBits, 4), xv)
    BY <1>1, <2>3, StoresAL DEF f, j
  <2> HIDE DEF e
  <2>6. Goes(p, 2, e) /\ e.fl = xg /\ Get(e, ByteBits, EAX) = xv
    BY <2>4, <2>5 DEF HasAL
  <2>7. DecimalDone(p, e)
    BY <1>1, <1>5, <1>8, <2>2, <2>6 DEF DecimalDone, fl, j
  <2>8. QED
    BY <1>1, <2>6, <2>7 DEF e, f, j
<1>9. CASE j.op = "AaaAX"
  <2> DEFINE x == Aaa(Trunc(Join(ah, v, ByteBits), WordBits), g)
             xv == x.v
             xg == x.fl
  <2>1. al \in 0..Ten - 1 /\ bl \in 0..Ten - 1 /\ FirstSum(p) = Adc(ByteBits, al, bl, fl)
    BY <1>5, <1>6, <1>9
  <2>2. /\ xv \in WordOf(WordBits)
        /\ Trunc(High(xv, ByteBits) - ah, ByteBits) * Ten + Low(xv, ByteBits) = al + bl + Carry(fl)
    <3> DEFINE r == Adc(ByteBits, al, bl, fl)
               y == Aaa(Trunc(Join(ah, r.v, ByteBits), WordBits), r.fl)
    <3>1. /\ y.v \in WordOf(WordBits)
          /\ Trunc(High(y.v, ByteBits) - ah, ByteBits) * Ten + Low(y.v, ByteBits) = al + bl + Carry(fl)
      BY <1>4, <2>1, AaaIsExact
    <3> HIDE DEF r
    <3>2. r.v = v /\ r.fl = g
      BY <2>1 DEF r
    <3>3. QED
      BY <3>1, <3>2
  <2>4. e = Put(With(f, xg), WordBits, EAX, xv)
    BY <1>3, <1>9 DEF Decimals, AaaAX, PutAns
  <2> HIDE DEF x, xv, xg
  <2>5. LET h == Put(With(f, xg), WordBits, EAX, xv)
        IN  Goes(p, 2, h) /\ h.fl = xg /\ HasAX(h, xv)
    BY <1>1, <2>2, StoresAX DEF f, j
  <2> HIDE DEF e
  <2>6. Goes(p, 2, e) /\ Get(e, ByteBits, EAX) = Low(xv, ByteBits) /\ Get(e, ByteBits, 4) = High(xv, ByteBits)
    BY <2>4, <2>5 DEF HasAX
  <2>7. DecimalDone(p, e)
    BY <1>1, <1>5, <1>9, <2>2, <2>6 DEF DecimalDone, fl, j, ah
  <2>8. QED
    BY <1>1, <2>6, <2>7 DEF e, f, j
<1>10. CASE j.op = "AasAX"
  <2> DEFINE x == Aas(Trunc(Join(ah, v, ByteBits), WordBits), g)
             xv == x.v
             xg == x.fl
  <2>1. al \in 0..Ten - 1 /\ bl \in 0..Ten - 1 /\ FirstSum(p) = Sbb(ByteBits, al, bl, fl)
    BY <1>5, <1>6, <1>10
  <2>2. /\ xv \in WordOf(WordBits)
        /\ Trunc(ah - High(xv, ByteBits), ByteBits) * Ten = Low(xv, ByteBits) - (al - bl - Carry(fl))
    <3> DEFINE r == Sbb(ByteBits, al, bl, fl)
               y == Aas(Trunc(Join(ah, r.v, ByteBits), WordBits), r.fl)
    <3>1. /\ y.v \in WordOf(WordBits)
          /\ Trunc(ah - High(y.v, ByteBits), ByteBits) * Ten = Low(y.v, ByteBits) - (al - bl - Carry(fl))
      BY <1>4, <2>1, AasIsExact
    <3> HIDE DEF r
    <3>2. r.v = v /\ r.fl = g
      BY <2>1 DEF r
    <3>3. QED
      BY <3>1, <3>2
  <2>4. e = Put(With(f, xg), WordBits, EAX, xv)
    BY <1>3, <1>10 DEF Decimals, AasAX, PutAns
  <2> HIDE DEF x, xv, xg
  <2>5. LET h == Put(With(f, xg), WordBits, EAX, xv)
        IN  Goes(p, 2, h) /\ h.fl = xg /\ HasAX(h, xv)
    BY <1>1, <2>2, StoresAX DEF f, j
  <2> HIDE DEF e
  <2>6. Goes(p, 2, e) /\ Get(e, ByteBits, EAX) = Low(xv, ByteBits) /\ Get(e, ByteBits, 4) = High(xv, ByteBits)
    BY <2>4, <2>5 DEF HasAX
  <2>7. DecimalDone(p, e)
    BY <1>1, <1>5, <1>10, <2>2, <2>6 DEF DecimalDone, fl, j, ah
  <2>8. QED
    BY <1>1, <2>6, <2>7 DEF e, f, j
<1>11. QED
  BY <1>1, <1>7, <1>8, <1>9, <1>10 DEF e, f, j

\* The digits alone, or joined again by aad.
LEMMA DigitsDone ==
  ASSUME NEW p \in Programs, p.kind = "decimal", DigitTask(p), Len(p.code) = 1, p.code[1].imm # 0,
         NEW n, HasAX(n, Aam(p.d, p.code[1].imm, p.machine.fl).v)
  PROVE  DecimalDone(p, n)
<1> DEFINE imm == p.code[1].imm
           d == p.d
           fl == p.machine.fl
           v == Aam(d, imm, fl).v
<1>1. d \in WordOf(ByteBits) /\ imm \in WordOf(ByteBits) \ {0} /\ p.code[1].op = "AamAX"
  BY DigitsFirst DEF DigitTask
<1>2. Get(n, ByteBits, EAX) = Low(v, ByteBits) /\ Get(n, ByteBits, 4) = High(v, ByteBits)
  BY DEF HasAX
<1> HIDE DEF imm, d, fl
<1>3. High(v, ByteBits) * imm + Low(v, ByteBits) = d /\ Low(v, ByteBits) < imm
  BY <1>1, AamIsExact
<1> HIDE DEF v
<1>4. QED
  BY <1>1, <1>2, <1>3 DEF DecimalDone, imm, d

LEMMA DigitsSecond ==
  ASSUME NEW p \in Programs, p.kind = "decimal", DigitTask(p), ~SumTask(p), Len(p.code) = 2,
         NEW n, At(p, n, 2), Mid(p, n)
  PROVE  LET j == p.code[2]
             e == Decimals(Fetched(n, j), j)
         IN  /\ j.op \in DecimalOps /\ 2 \in 1..Len(p.code) /\ Goes(p, 2, e) /\ DecimalDone(p, e)
<1> DEFINE j == p.code[2]
           f == Fetched(n, j)
           imm == p.code[1].imm
           d == p.d
           fl == p.machine.fl
           v == Aam(d, imm, fl).v
           e == Decimals(f, j)
<1>1. /\ p.kind \in Checked /\ 2 \in 1..Len(p.code) /\ j.pfx = {}
      /\ j.op = "AadAX" /\ j.op \in DecimalOps /\ j.imm = imm
      /\ d \in WordOf(ByteBits) /\ imm \in WordOf(ByteBits) \ {0}
  <2>1. p.kind \in Checked /\ d \in WordOf(ByteBits)
    BY DecimalKinds, DigitsFirst
  <2>2. QED
    BY <2>1 DEF DigitTask, Mid, DecimalOps
<1>2. (\A w, k : Get(f, w, k) = Get(n, w, k)) /\ f.fl = n.fl
  BY <1>1, ReadsBefore
<1>3. Get(f, WordBits, EAX) = v
  BY <1>2 DEF Mid, HasAX
<1> HIDE DEF imm, d, fl, j, f
<1> DEFINE g == f.fl
           x == Aad(v, imm, g)
           xg == x.fl
<1>4. Trunc(imm, ByteBits) = imm /\ Trunc(d, ByteBits) = d /\ d \in WordOf(WordBits)
  <2>1. ByteBits \in Nat /\ imm \in Int /\ d \in Int /\ 2 ^ WordBits = 2 ^ ByteBits * 2 ^ ByteBits
    BY <1>1, WidthFacts, PowerFacts, PowerSum DEF WordOf
  <2>2. Trunc(imm, ByteBits) = imm /\ Trunc(d, ByteBits) = d
    BY <1>1, <2>1, TruncFacts
  <2> DEFINE z == 0
  <2>3. z \in WordOf(ByteBits)
    BY WidthFacts, PowerFacts DEF WordOf
  <2>4. Join(z, d, ByteBits) = d
    BY <2>1, PowerFacts DEF Join
  <2> HIDE DEF z
  <2>5. Join(z, d, ByteBits) \in WordOf(WordBits)
    BY <1>1, <2>3, TwoBytes
  <2>6. QED
    BY <2>2, <2>4, <2>5
<1>5. x.v = d
  BY <1>1, AamIsExact
<1>6. e = Put(With(f, xg), WordBits, EAX, d)
  <2>1. e = PutAns(f, WordBits, EAX, x)
    BY <1>1, <1>3, <1>4 DEF Decimals, AadAX
  <2> HIDE DEF x
  <2>2. QED
    BY <1>5, <2>1 DEF PutAns
<1> HIDE DEF x, xg, e
<1>7. LET h == Put(With(f, xg), WordBits, EAX, d)
      IN  Goes(p, 2, h) /\ h.fl = xg /\ HasAX(h, d)
  BY <1>1, <1>4, StoresAX DEF f, j
<1>8. Goes(p, 2, e) /\ Get(e, ByteBits, EAX) = d
  BY <1>4, <1>6, <1>7 DEF HasAX, Low
<1>9. DecimalDone(p, e)
  BY <1>1, <1>8 DEF DecimalDone, d, j
<1>10. QED
  BY <1>1, <1>8, <1>9 DEF e, f, j

\* Both depend on the registers and the flags alone.
LEMMA SameDone ==
  ASSUME NEW p, NEW n, NEW t, n.r = t.r, n.fl = t.fl
  PROVE  /\ DecimalDone(p, n) => DecimalDone(p, t)
         /\ Mid(p, n) => Mid(p, t)
<1>1. \A w, k : Get(n, w, k) = Get(t, w, k)
  BY DEF Get
<1>2. DecimalDone(p, n) => DecimalDone(p, t)
  BY <1>1, ZenonT(60) DEF DecimalDone
<1>3. Mid(p, n) => Mid(p, t)
  BY <1>1 DEF Mid, HasAL, HasAX
<1>4. QED
  BY <1>2, <1>3

DecimalInv ==
  /\ program \in Programs
  /\ Task.kind = "decimal" =>
       \/ run = "out of budget"
       \/ run = "running" /\ m = Start
       \/ run = "running" /\ Len(Task.code) = 2 /\ At(Task, m, 2) /\ Mid(Task, m)
       \/ run = "running" /\ At(Task, m, Len(Task.code) + 1) /\ DecimalDone(Task, m)
       \/ run = "halted" /\ DecimalDone(Task, m)
       \/ run = "dead" /\ DigitTask(Task) /\ The(1).imm = 0 /\ Get(m, ByteBits, EAX) = Task.d

LEMMA DecimalInit == Init => DecimalInv
  BY DEF Init, DecimalInv, Start, Task

\* The first instruction.
LEMMA DecimalFirst ==
  ASSUME Next, run = "running", program \in Programs, Task.kind = "decimal", m = Start
  PROVE  DecimalInv'
<1>1. Task.kind \in Checked /\ At(Task, m, 1)
  BY DecimalKinds DEF Task, Start
<1>2. CASE SumTask(Task)
  <2> DEFINE e == Arithmetics(Fetched(m, The(1)), The(1))
  <2>1. /\ The(1).op \in ArithmeticOps /\ 1 \in 1..Len(Task.code) /\ Goes(Task, 1, e)
        /\ e.fl = FirstSum(Task).fl
        /\ HasAL(e, Get(Task.machine, ByteBits, 4), FirstSum(Task).v)
    BY <1>2, SumFirst DEF Task, Start, The
  <2>2. (run' = "out of budget" /\ program' = program) \/ Ran(e)
    BY <1>1, <2>1, Executes
  <2> HIDE DEF e
  <2>3. CASE Ran(e)
    <3>1. run' = "running" /\ m' = Retired(e) /\ program' = program
      BY <2>1, <2>3 DEF Ran, Goes
    <3>2. At(Task, m', 1 + 1) /\ m'.r = e.r /\ m'.fl = e.fl
      BY <2>1, <3>1 DEF Goes
    <3>3. Mid(Task, e)
      BY <1>2, <2>1 DEF Mid
    <3>4. Mid(Task, m')
      BY <3>2, <3>3, SameDone
    <3>5. Len(Task.code) = 2
      BY <1>2 DEF SumTask
    <3>6. QED
      BY <3>1, <3>2, <3>4, <3>5 DEF DecimalInv, Task
  <2>4. QED
    BY <2>2, <2>3 DEF DecimalInv
<1>3. CASE DigitTask(Task) /\ ~SumTask(Task)
  <2> DEFINE e == Decimals(Fetched(m, The(1)), The(1))
  <2>1. /\ The(1).op \in DecimalOps /\ 1 \in 1..Len(Task.code)
        /\ The(1).imm = 0 => e.host = "dead" /\ Get(e, ByteBits, EAX) = Task.d
        /\ The(1).imm # 0 => Goes(Task, 1, e) /\ HasAX(e, Aam(Task.d, The(1).imm, Task.machine.fl).v)
    BY <1>3, DigitsFirst DEF Task, Start, The
  <2>2. (run' = "out of budget" /\ program' = program) \/ Ran(e)
    BY <1>1, <2>1, Executes
  <2> HIDE DEF e
  <2>3. CASE Ran(e) /\ The(1).imm = 0
    <3>1. run' = "dead" /\ m' = e /\ program' = program
      BY <2>1, <2>3 DEF Ran, Outcome
    <3>2. Get(m', ByteBits, EAX) = Task.d
      BY <2>1, <2>3, <3>1
    <3>3. QED
      BY <1>3, <2>3, <3>1, <3>2 DEF DecimalInv, Task, The
  <2>4. CASE Ran(e) /\ The(1).imm # 0
    <3>1. run' = "running" /\ m' = Retired(e) /\ program' = program
      BY <2>1, <2>4 DEF Ran, Goes
    <3>2. At(Task, m', 1 + 1) /\ m'.r = e.r /\ m'.fl = e.fl
      BY <2>1, <2>4, <3>1 DEF Goes
    <3>3. CASE Len(Task.code) = 1
      <4>1. DecimalDone(Task, e)
        BY <1>3, <2>1, <2>4, <3>3, DigitsDone DEF Task, The
      <4>2. DecimalDone(Task, m')
        BY <3>2, <4>1, SameDone
      <4>3. QED
        BY <3>1, <3>2, <3>3, <4>2 DEF DecimalInv, Task
    <3>4. CASE Len(Task.code) = 2
      <4>1. Mid(Task, e)
        BY <1>3, <2>1, <2>4 DEF Mid, The
      <4>2. Mid(Task, m')
        BY <3>2, <4>1, SameDone
      <4>3. QED
        BY <3>1, <3>2, <3>4, <4>2 DEF DecimalInv, Task
    <3>5. QED
      BY <1>3, <3>3, <3>4 DEF DigitTask
  <2>5. QED
    BY <2>2, <2>3, <2>4 DEF DecimalInv
<1>4. QED
  BY <1>2, <1>3, DecimalKinds DEF Task

\* The second one.
LEMMA DecimalSecond ==
  ASSUME Next, run = "running", program \in Programs, Task.kind = "decimal",
         Len(Task.code) = 2, At(Task, m, 2), Mid(Task, m)
  PROVE  DecimalInv'
<1>1. Task.kind \in Checked
  BY DEF Checked
<1> DEFINE e == Decimals(Fetched(m, The(2)), The(2))
<1>2. The(2).op \in DecimalOps /\ 2 \in 1..Len(Task.code) /\ Goes(Task, 2, e) /\ DecimalDone(Task, e)
  <2>1. SumTask(Task) \/ (DigitTask(Task) /\ ~SumTask(Task))
    BY DecimalKinds DEF Task
  <2>2. QED
    BY <2>1, SumSecond, DigitsSecond DEF Task, The
<1>3. (run' = "out of budget" /\ program' = program) \/ Ran(e)
  BY <1>1, <1>2, Executes
<1> HIDE DEF e
<1>4. CASE Ran(e)
  <2>1. run' = "running" /\ m' = Retired(e) /\ program' = program
    BY <1>2, <1>4 DEF Ran, Goes
  <2>2. At(Task, m', 2 + 1) /\ m'.r = e.r /\ m'.fl = e.fl
    BY <1>2, <2>1 DEF Goes
  <2>3. DecimalDone(Task, m')
    BY <1>2, <2>2, SameDone
  <2>4. QED
    BY <2>1, <2>2, <2>3 DEF DecimalInv, Task
<1>5. QED
  BY <1>3, <1>4 DEF DecimalInv

LEMMA DecimalNext == DecimalInv /\ [Next]_vars => DecimalInv'
<1> SUFFICES ASSUME DecimalInv, [Next]_vars PROVE DecimalInv'
  OBVIOUS
<1>1. CASE UNCHANGED vars
  BY <1>1 DEF DecimalInv, vars, Task, Start, The
<1>2. CASE Next
  <2>1. run = "running" /\ program \in Programs
    BY <1>2, Rests DEF DecimalInv
  <2>2. CASE Task.kind # "decimal"
    <3>1. program' = program
      BY <1>2, SameProgram
    <3>2. QED
      BY <2>1, <2>2, <3>1 DEF DecimalInv, Task
  <2>3. CASE Task.kind = "decimal" /\ m = Start
    BY <1>2, <2>1, <2>3, DecimalFirst
  <2>4. CASE Task.kind = "decimal" /\ Len(Task.code) = 2 /\ At(Task, m, 2) /\ Mid(Task, m)
    BY <1>2, <2>1, <2>4, DecimalSecond
  <2>5. CASE Task.kind = "decimal" /\ At(Task, m, Len(Task.code) + 1) /\ DecimalDone(Task, m)
    <3>1. Task.kind \in Checked
      BY <2>5 DEF Checked
    <3>2. /\ program' = program
          /\ \/ run' = "out of budget"
             \/ run' = "halted" /\ m'.r = m.r /\ m'.fl = m.fl
      BY <1>2, <2>1, <2>5, <3>1, Ends
    <3>3. CASE run' = "halted" /\ m'.r = m.r /\ m'.fl = m.fl
      <4>1. DecimalDone(Task, m')
        BY <2>5, <3>3, SameDone
      <4>2. QED
        BY <2>1, <3>2, <3>3, <4>1 DEF DecimalInv, Task
    <3>4. QED
      BY <2>1, <3>2, <3>3 DEF DecimalInv
  <2>6. QED
    BY <2>1, <2>2, <2>3, <2>4, <2>5 DEF DecimalInv
<1>3. QED
  BY <1>1, <1>2

LEMMA DecimalMeans == DecimalInv => DecimalIsExact
<1> SUFFICES ASSUME DecimalInv, Task.kind = "decimal", Ended
             PROVE  DecimalIsExact
  BY DEF DecimalIsExact
<1>1. CASE run = "halted" /\ DecimalDone(Task, m)
  <2>1. Num("CF") = Carry(m.fl) /\ CarryIn = Carry(Task.machine.fl)
    BY DEF Num, Has, Carry, CarryIn, Start
  <2>2. QED
    BY <1>1, <2>1 DEF DecimalIsExact, DecimalDone, The, Start
<1>2. CASE run = "dead" /\ DigitTask(Task) /\ The(1).imm = 0 /\ Get(m, ByteBits, EAX) = Task.d
  <2>1. CASE Len(Task.code) = 1
    BY <1>2, <2>1 DEF DecimalIsExact, DigitTask, The
  <2>2. CASE Len(Task.code) = 2
    BY <1>2, <2>2 DEF DecimalIsExact, DigitTask, The
  <2>3. QED
    BY <1>2, <2>1, <2>2 DEF DigitTask
<1>3. QED
  BY <1>1, <1>2 DEF DecimalInv, Ended

\* A sum or a difference followed by its decimal adjustment is decimal
\* arithmetic, aam splits into digits unless the divisor is zero, and aad
\* joins them again (daa_byte, das_byte, aaa_word, aas_word, aam_word,
\* aad_word and their handlers).
THEOREM DecimalAlwaysExact == Spec => []DecimalIsExact
  BY DecimalInit, DecimalNext, DecimalMeans, PTL DEF Spec

-----------------------------------------------------------------------------
(* Comparisons.                                                            *)

\* After a comparison, cmov moves nothing when its condition does not hold;
\* but where sign and overflow are both on, a signed condition of cmov is the
\* opposite of the one that the other instructions find.
LEMMA NoopIsNot ==
  ASSUME NEW n \in 0..15, NEW fl, NEW both, both <=> "SF" \in fl /\ "OF" \in fl,
         both => "ZF" \notin fl
  PROVE  Noop(n, fl) <=> IF n \in 12..15 /\ both THEN EvalCondition(n, fl) ELSE ~EvalCondition(n, fl)
<1> DEFINE differ == ("SF" \in fl) # ("OF" \in fl)
           same == fl \cap {"SF", "OF"} = {}
<1>1. (fl \cap {"CF", "ZF"} # {} <=> "CF" \in fl \/ "ZF" \in fl) /\ differ \in BOOLEAN
  OBVIOUS
<1> DEFINE below == fl \cap {"CF", "ZF"} # {}
           h == n \div 2
           cond == CASE h = 0 -> "OF" \in fl
                     [] h = 1 -> "CF" \in fl
                     [] h = 2 -> "ZF" \in fl
                     [] h = 3 -> below
                     [] h = 4 -> "SF" \in fl
                     [] h = 5 -> "PF" \in fl
                     [] h = 6 -> differ
                     [] h = 7 -> "ZF" \in fl \/ differ
           noop == CASE n = 0 -> ~("OF" \in fl)  [] n = 1 -> "OF" \in fl
                     [] n = 2 -> ~("CF" \in fl)  [] n = 3 -> "CF" \in fl
                     [] n = 4 -> ~("ZF" \in fl)  [] n = 5 -> "ZF" \in fl
                     [] n = 6 -> ~("CF" \in fl) /\ ~("ZF" \in fl)
                     [] n = 7 -> "CF" \in fl \/ "ZF" \in fl
                     [] n = 8 -> ~("SF" \in fl)  [] n = 9 -> "SF" \in fl
                     [] n = 10 -> ~("PF" \in fl) [] n = 11 -> "PF" \in fl
                     [] n = 12 -> same           [] n = 13 -> ~same
                     [] n = 14 -> ~("ZF" \in fl) /\ same
                     [] n = 15 -> "ZF" \in fl \/ ~same
<1>2. EvalCondition(n, fl) <=> IF n % 2 = 1 THEN ~cond ELSE cond
  BY DEF EvalCondition
<1>3. Noop(n, fl) <=> noop
  BY DEF Noop
<1>4. (below <=> "CF" \in fl \/ "ZF" \in fl) /\ below \in BOOLEAN /\ differ \in BOOLEAN
  BY <1>1 DEF below
<1>5. /\ both => ~same /\ ~differ /\ "ZF" \notin fl
      /\ ~both => (same <=> ~differ)
      /\ same \in BOOLEAN
  BY DEF differ, same
<1> HIDE DEF differ, below, h, same
<1>6. n \in 0..11 => (noop <=> ~(IF n % 2 = 1 THEN ~cond ELSE cond))
  <2>1. CASE n \in {0, 1}
    <3>1. h = 0
      BY <2>1 DEF h
    <3>2. cond <=> "OF" \in fl
      BY <1>4, <3>1
    <3>3. CASE n = 0
      <4>1. noop <=> ~("OF" \in fl)
        BY <1>4, <3>3
      <4>2. n % 2 = 0
        BY <3>3
      <4> HIDE DEF cond, noop
      <4>3. QED
        BY <3>2, <4>1, <4>2
    <3>4. CASE n = 1
      <4>1. noop <=> "OF" \in fl
        BY <1>4, <3>4
      <4>2. n % 2 = 1
        BY <3>4
      <4> HIDE DEF cond, noop
      <4>3. QED
        BY <3>2, <4>1, <4>2
    <3>5. QED
      BY <2>1, <3>3, <3>4
  <2>2. CASE n \in {2, 3}
    <3>1. h = 1
      BY <2>2 DEF h
    <3>2. cond <=> "CF" \in fl
      BY <1>4, <3>1
    <3>3. CASE n = 2
      <4>1. noop <=> ~("CF" \in fl)
        BY <1>4, <3>3
      <4>2. n % 2 = 0
        BY <3>3
      <4> HIDE DEF cond, noop
      <4>3. QED
        BY <3>2, <4>1, <4>2
    <3>4. CASE n = 3
      <4>1. noop <=> "CF" \in fl
        BY <1>4, <3>4
      <4>2. n % 2 = 1
        BY <3>4
      <4> HIDE DEF cond, noop
      <4>3. QED
        BY <3>2, <4>1, <4>2
    <3>5. QED
      BY <2>2, <3>3, <3>4
  <2>3. CASE n \in {4, 5}
    <3>1. h = 2
      BY <2>3 DEF h
    <3>2. cond <=> "ZF" \in fl
      BY <1>4, <3>1
    <3>3. CASE n = 4
      <4>1. noop <=> ~("ZF" \in fl)
        BY <1>4, <3>3
      <4>2. n % 2 = 0
        BY <3>3
      <4> HIDE DEF cond, noop
      <4>3. QED
        BY <3>2, <4>1, <4>2
    <3>4. CASE n = 5
      <4>1. noop <=> "ZF" \in fl
        BY <1>4, <3>4
      <4>2. n % 2 = 1
        BY <3>4
      <4> HIDE DEF cond, noop
      <4>3. QED
        BY <3>2, <4>1, <4>2
    <3>5. QED
      BY <2>3, <3>3, <3>4
  <2>4. CASE n \in {6, 7}
    <3>1. h = 3
      BY <2>4 DEF h
    <3>2. cond <=> "CF" \in fl \/ "ZF" \in fl
      BY <1>4, <3>1
    <3>3. CASE n = 6
      <4>1. noop <=> ~("CF" \in fl \/ "ZF" \in fl)
        BY <1>4, <3>3
      <4>2. n % 2 = 0
        BY <3>3
      <4> HIDE DEF cond, noop
      <4>3. QED
        BY <3>2, <4>1, <4>2
    <3>4. CASE n = 7
      <4>1. noop <=> "CF" \in fl \/ "ZF" \in fl
        BY <1>4, <3>4
      <4>2. n % 2 = 1
        BY <3>4
      <4> HIDE DEF cond, noop
      <4>3. QED
        BY <3>2, <4>1, <4>2
    <3>5. QED
      BY <2>4, <3>3, <3>4
  <2>5. CASE n \in {8, 9}
    <3>1. h = 4
      BY <2>5 DEF h
    <3>2. cond <=> "SF" \in fl
      BY <1>4, <3>1
    <3>3. CASE n = 8
      <4>1. noop <=> ~("SF" \in fl)
        BY <1>4, <3>3
      <4>2. n % 2 = 0
        BY <3>3
      <4> HIDE DEF cond, noop
      <4>3. QED
        BY <3>2, <4>1, <4>2
    <3>4. CASE n = 9
      <4>1. noop <=> "SF" \in fl
        BY <1>4, <3>4
      <4>2. n % 2 = 1
        BY <3>4
      <4> HIDE DEF cond, noop
      <4>3. QED
        BY <3>2, <4>1, <4>2
    <3>5. QED
      BY <2>5, <3>3, <3>4
  <2>6. CASE n \in {10, 11}
    <3>1. h = 5
      BY <2>6 DEF h
    <3>2. cond <=> "PF" \in fl
      BY <1>4, <3>1
    <3>3. CASE n = 10
      <4>1. noop <=> ~("PF" \in fl)
        BY <1>4, <3>3
      <4>2. n % 2 = 0
        BY <3>3
      <4> HIDE DEF cond, noop
      <4>3. QED
        BY <3>2, <4>1, <4>2
    <3>4. CASE n = 11
      <4>1. noop <=> "PF" \in fl
        BY <1>4, <3>4
      <4>2. n % 2 = 1
        BY <3>4
      <4> HIDE DEF cond, noop
      <4>3. QED
        BY <3>2, <4>1, <4>2
    <3>5. QED
      BY <2>6, <3>3, <3>4
  <2> HIDE DEF cond, noop, h
  <2>7. QED
    BY <2>1, <2>2, <2>3, <2>4, <2>5, <2>6
<1>7. CASE n \in {12, 13}
  <2>1. h = 6
    BY <1>7 DEF h
  <2>2. cond <=> differ
    BY <1>4, <2>1
  <2>3. (n = 12 => (noop <=> same)) /\ (n = 13 => (noop <=> ~same))
    <3>1. CASE n = 12
      BY <1>5, <3>1
    <3>2. CASE n = 13
      BY <1>5, <3>2
    <3>3. QED
      BY <1>7, <3>1, <3>2
  <2>4. (n = 12 => n % 2 = 0) /\ (n = 13 => n % 2 = 1)
    OBVIOUS
  <2> HIDE DEF cond, noop
  <2>5. noop <=> IF both THEN (IF n % 2 = 1 THEN ~cond ELSE cond) ELSE ~(IF n % 2 = 1 THEN ~cond ELSE cond)
    BY <1>5, <1>7, <2>2, <2>3, <2>4
  <2>6. QED
    BY <1>2, <1>3, <1>7, <2>5
<1>8. CASE n \in {14, 15}
  <2>1. h = 7
    BY <1>8 DEF h
  <2>2. cond <=> "ZF" \in fl \/ differ
    BY <1>4, <2>1
  <2>3. /\ n = 14 => (noop <=> "ZF" \notin fl /\ same)
        /\ n = 15 => (noop <=> "ZF" \in fl \/ ~same)
    <3>1. CASE n = 14
      BY <1>5, <3>1
    <3>2. CASE n = 15
      BY <1>5, <3>2
    <3>3. QED
      BY <1>8, <3>1, <3>2
  <2>4. (n = 14 => n % 2 = 0) /\ (n = 15 => n % 2 = 1)
    OBVIOUS
  <2> HIDE DEF cond, noop
  <2>5. noop <=> IF both THEN (IF n % 2 = 1 THEN ~cond ELSE cond) ELSE ~(IF n % 2 = 1 THEN ~cond ELSE cond)
    BY <1>5, <1>8, <2>2, <2>3, <2>4
  <2>6. QED
    BY <1>2, <1>3, <1>8, <2>5
<1> HIDE DEF cond, noop
<1>9. QED
  BY <1>2, <1>3, <1>6, <1>7, <1>8

\* Sign and overflow are both on after a comparison exactly when the
\* difference is too large, and the operands are then not the same.
LEMMA BothOn ==
  ASSUME NEW w \in Nat, w >= ByteBits, NEW d \in WordOf(w), NEW s \in WordOf(w), NEW fl
  PROVE  LET g == Cmp(w, d, s, fl).fl
         IN  /\ "SF" \in g /\ "OF" \in g <=> Signed(d, w) - Signed(s, w) >= 2 ^ (w - 1)
             /\ "SF" \in g /\ "OF" \in g => "ZF" \notin g
<1> DEFINE g == Cmp(w, d, s, fl).fl
           N == 2 ^ w
           M == 2 ^ (w - 1)
           x == Signed(d, w)
           y == Signed(s, w)
           v == Trunc(d - s, w)
<1>1. \A n \in 0..15 : EvalCondition(n, g) <=> Relation(n, w, d, s)
  BY ConditionsDecide
<1>2. /\ EvalCondition(0, g) <=> "OF" \in g
      /\ EvalCondition(4, g) <=> "ZF" \in g
      /\ EvalCondition(8, g) <=> "SF" \in g
  BY DEF EvalCondition
<1>3. /\ Relation(0, w, d, s) <=> x - y \notin SignedRange(w)
      /\ Relation(4, w, d, s) <=> d = s
      /\ Relation(8, w, d, s) <=> v >= M
  BY DEF Relation
<1>4. /\ "OF" \in g <=> x - y \notin SignedRange(w)
      /\ "ZF" \in g <=> d = s
      /\ "SF" \in g <=> v >= M
  BY <1>1, <1>2, <1>3
<1>5. M \in Nat \ {0} /\ N = 2 * M /\ w \in Nat \ {0}
  <2>1. w \in Nat \ {0}
    BY WordsAssumption
  <2>2. w - 1 \in Nat /\ (w - 1) + 1 = w
    BY <2>1
  <2>3. QED
    BY <2>1, <2>2, PowerFacts
<1>6. /\ d \in 0..N - 1 /\ s \in 0..N - 1
      /\ x = IF d >= M THEN d - N ELSE d
      /\ y = IF s >= M THEN s - N ELSE s
      /\ \A z \in Int : z \in SignedRange(w) <=> -M <= z /\ z < M
  <2>1. (Bit(d, w - 1) <=> d >= M) /\ (Bit(s, w - 1) <=> s >= M)
    BY <1>5, TopBit
  <2>2. x = (IF d >= M THEN d - N ELSE d) /\ y = (IF s >= M THEN s - N ELSE s)
    BY <2>1 DEF Signed
  <2>3. d \in 0..N - 1 /\ s \in 0..N - 1
    BY DEF WordOf
  <2>4. \A z \in Int : z \in SignedRange(w) <=> -M <= z /\ z < M
    <3>1. SignedRange(w) = -M..M - 1
      BY DEF SignedRange
    <3> HIDE DEF M
    <3>2. QED
      BY <1>5, <3>1
  <2>5. QED
    BY <2>2, <2>3, <2>4
<1>7. v \in 0..N - 1 /\ \E q \in Int : d - s = q * N + v
  <2>1. d - s \in Int
    BY <1>5, <1>6
  <2>2. v \in WordOf(w) /\ \E q \in Int : d - s = q * N + v
    <3> HIDE DEF v
    <3>1. Trunc(d - s, w) \in WordOf(w) /\ \E q \in Int : d - s = q * 2 ^ w + Trunc(d - s, w)
      BY <2>1, TruncFacts
    <3>2. QED
      BY <3>1 DEF v
  <2>3. QED
    BY <2>2 DEF WordOf
<1> HIDE DEF g, N, M, x, y, v
<1>8. PICK q \in Int : d - s = q * N + v
  BY <1>7
<1>9. q \in {-1, 0}
  <2>1. CASE q >= 1
    <3>1. q * N >= N
      BY <1>5, <2>1
    <3>2. QED
      BY <1>5, <1>6, <1>7, <1>8, <3>1
  <2>2. CASE q <= -2
    <3>1. q * N <= -2 * N
      BY <1>5, <2>2
    <3>2. QED
      BY <1>5, <1>6, <1>7, <1>8, <3>1
  <2>3. QED
    BY <2>1, <2>2
<1>10. x \in Int /\ y \in Int /\ v \in Int
  BY <1>5, <1>6, <1>7
<1>11. (x - y < -M \/ x - y >= M) /\ v >= M <=> x - y >= M
  BY <1>5, <1>6, <1>7, <1>8, <1>9, <1>10
<1>12. d = s => x - y < M
  BY <1>5, <1>6, <1>10
<1>13. "OF" \in g <=> x - y < -M \/ x - y >= M
  BY <1>4, <1>5, <1>6, <1>10
<1>14. /\ "SF" \in g /\ "OF" \in g <=> x - y >= M
       /\ "SF" \in g /\ "OF" \in g => "ZF" \notin g
  <2>1. "SF" \in g /\ "OF" \in g <=> x - y >= M
    BY <1>4, <1>5, <1>7, <1>10, <1>11, <1>13
  <2>2. "SF" \in g /\ "OF" \in g => "ZF" \notin g
    BY <1>4, <1>5, <1>10, <1>12, <2>1
  <2>3. QED
    BY <2>1, <2>2
<1>15. QED
  BY <1>14 DEF g, M, x, y

\* Instruction k changes nothing, only the flags, or only a register.
LEMMA Passes ==
  ASSUME NEW p \in Programs, p.kind \in Checked, NEW k \in 1..Len(p.code), NEW n, At(p, n, k),
         p.code[k].pfx = {}
  PROVE  LET f == Fetched(n, p.code[k])
         IN  /\ Goes(p, k, f) /\ f.r = n.r /\ f.fl = n.fl
             /\ \A g : Goes(p, k, With(f, g)) /\ With(f, g).r = n.r /\ With(f, g).fl = g
<1> DEFINE f == Fetched(n, p.code[k])
<1>1. /\ Calm(f, p.machine.seg) /\ f.r = n.r /\ f.fl = n.fl /\ f.eip = p.eips[k + 1]
      /\ \A x : Keeps(x, f, {"r", "fl", "eip"}) /\ x.r \in [0..7 -> Int] =>
           /\ x.host # "dead" /\ Outcome(x) = "running" /\ Calm(Retired(x), p.machine.seg)
           /\ Retired(x).r = x.r /\ Retired(x).fl = x.fl /\ Retired(x).eip = x.eip
  BY Advances, SMTT(60)
<1> HIDE DEF f
<1>2. DOMAIN f = Fields /\ f.r \in [0..7 -> Int]
  BY <1>1 DEF Calm
<1>3. ASSUME NEW e, Keeps(e, f, {"r", "fl"}), e.r \in [0..7 -> Int]
      PROVE  Goes(p, k, e)
  <2>1. Keeps(e, f, {"r", "fl", "eip"}) /\ e.eip = f.eip
    BY <1>3 DEF Keeps, Fields
  <2>2. /\ e.host # "dead" /\ Outcome(e) = "running" /\ Calm(Retired(e), p.machine.seg)
        /\ Retired(e).r = e.r /\ Retired(e).fl = e.fl /\ Retired(e).eip = e.eip
    BY <1>1, <1>3, <2>1
  <2>3. QED
    BY <1>1, <2>1, <2>2 DEF Goes, At
<1>4. Goes(p, k, f)
  BY <1>2, <1>3 DEF Keeps
<1>5. ASSUME NEW g
      PROVE  Goes(p, k, With(f, g)) /\ With(f, g).r = n.r /\ With(f, g).fl = g
  <2> DEFINE e == With(f, g)
  <2>1. Keeps(e, f, {"fl"}) /\ e.fl = g
    BY <1>2, WithFacts
  <2> HIDE DEF e
  <2>2. Keeps(e, f, {"r", "fl"}) /\ e.r = f.r
    BY <2>1 DEF Keeps, Fields
  <2>3. QED
    BY <1>1, <1>2, <1>3, <2>1, <2>2 DEF e
<1>6. QED
  BY <1>1, <1>4, <1>5 DEF f

\* Instruction k stores a result in a register and leaves the flags.
LEMMA Puts ==
  ASSUME NEW p \in Programs, p.kind \in Checked, NEW k \in 1..Len(p.code), NEW n, At(p, n, k),
         p.code[k].pfx = {}, NEW w \in Widths, NEW j \in 0..7, ~High8(w, j), NEW v \in WordOf(w)
  PROVE  /\ Goes(p, k, Put(Fetched(n, p.code[k]), w, j, v))
         /\ StoredIn(Put(Fetched(n, p.code[k]), w, j, v), n, w, j, v, n.fl)
<1> DEFINE f == Fetched(n, p.code[k])
           e == Put(f, w, j, v)
           t == Retired(e)
<1>1. /\ Calm(f, p.machine.seg) /\ f.mode = ModeIn(p.machine.seg)
      /\ f.r = n.r /\ f.fl = n.fl /\ f.eip = p.eips[k + 1]
      /\ \A x : Keeps(x, f, {"r", "fl", "eip"}) /\ x.r \in [0..7 -> Int] =>
           /\ x.host # "dead" /\ Outcome(x) = "running" /\ Calm(Retired(x), p.machine.seg)
           /\ Retired(x).r = x.r /\ Retired(x).fl = x.fl /\ Retired(x).eip = x.eip
  BY Advances, SMTT(60)
<1>2. DOMAIN f = Fields /\ f.r \in [0..7 -> Int]
  BY <1>1 DEF Calm
<1> HIDE DEF f
<1>3. Keeps(e, f, {"r", "fl"}) /\ StoredIn(e, f, w, j, v, f.fl)
  BY <1>2, PutStored
<1> HIDE DEF e
<1>4. StoredIn(e, n, w, j, v, n.fl) /\ e.r \in [0..7 -> Int]
  BY <1>1, <1>3 DEF StoredIn
<1>5. Keeps(e, f, {"r", "fl", "eip"}) /\ e.eip = p.eips[k + 1]
  BY <1>1, <1>3 DEF Keeps, Fields
<1> HIDE DEF t
<1>6. /\ e.host # "dead" /\ Outcome(e) = "running" /\ Calm(t, p.machine.seg)
      /\ t.r = e.r /\ t.fl = e.fl /\ t.eip = e.eip
  BY <1>1, <1>4, <1>5 DEF t
<1>7. QED
  BY <1>4, <1>5, <1>6 DEF t, e, f, Goes, At

\* Zero and one are words of every width.
LEMMA Small ==
  ASSUME NEW w \in Widths
  PROVE  /\ 0 \in WordOf(w) /\ 1 \in WordOf(w) /\ Trunc(0, w) = 0 /\ Trunc(1, w) = 1
<1>1. w \in Nat /\ w >= ByteBits
  BY WidthFacts
<1>2. 0 \in WordOf(w) /\ 1 \in WordOf(w)
  BY <1>1, One
<1> DEFINE z == 0
           o == 1
<1>3. z \in WordOf(w) /\ o \in WordOf(w) /\ z \in Int /\ o \in Int
  BY <1>2
<1> HIDE DEF z, o
<1>4. Trunc(z, w) = z /\ Trunc(o, w) = o
  BY <1>1, <1>3, TruncFacts
<1>5. QED
  BY <1>2, <1>4 DEF z, o

\* The relation that the second instruction asks about, and what it finds.
Rel(p)   == ConditionHolds(p)
Found(p) == IF MovesWrongly(p) THEN ~Rel(p) ELSE Rel(p)
Marked(p, n) == n.r[ESI] = 1 <=> Found(p)

\* What is known when it is asked: sign and overflow are both on after a
\* difference too large, and never with zero.
BothOf(fl) == "SF" \in fl /\ "OF" \in fl
TooLarge(p) == Signed(p.d, p.w) - Signed(p.s, p.w) >= 2 ^ (p.w - 1)
Known(p, n) ==
  /\ n.r = p.machine.r
  /\ EvalCondition(p.code[2].cc, n.fl) <=> Rel(p)
  /\ BothOf(n.fl) <=> TooLarge(p)
  /\ BothOf(n.fl) => "ZF" \notin n.fl

\* Only moves are wrong.
LEMMA OthersRight ==
  ASSUME NEW p, p.code[2].op # "Conditional_move"
  PROVE  Found(p) <=> Rel(p)
  BY DEF Found, MovesWrongly

\* The comparison.
LEMMA CompareFirst ==
  ASSUME NEW p \in Programs, p.kind = "compare"
  PROVE  LET i == p.code[1]
             e == Arithmetics(Fetched(p.machine, i), i)
         IN  /\ CompareTask(p) /\ p.kind \in Checked /\ At(p, p.machine, 1) /\ 1 \in 1..Len(p.code)
             /\ i.op \in ArithmeticOps /\ Goes(p, 1, e) /\ Known(p, e)
<1> DEFINE i == p.code[1]
           f == Fetched(p.machine, i)
           w == p.w
           d == p.d
           s == p.s
           fl == p.machine.fl
           cc == p.code[2].cc
           g == Cmp(w, d, s, fl).fl
<1>1. CompareTask(p) /\ p.kind \in Checked
  BY TasksAssumption DEF Checked
<1>2. /\ i.op = "OpA_RM_R" /\ i.mod = 3 /\ i.pfx = {} /\ i.rm = EAX /\ i.reg = EBX /\ i.alu = 7
      /\ w = WidthOf(p, i) /\ d = Get(p.machine, w, EAX) /\ s = Get(p.machine, w, EBX)
      /\ cc \in 0..15 /\ 1 \in 1..Len(p.code)
  BY <1>1 DEF CompareTask, Onto, InRegisters
<1>3. At(p, p.machine, 1) /\ p.machine.r \in [0..7 -> Int]
  BY <1>1, Layout DEF At, Calm
<1>4. /\ (\A v, k : Get(f, v, k) = Get(p.machine, v, k)) /\ f.fl = fl
      /\ f.mode = ModeIn(p.machine.seg)
  BY <1>1, <1>2, <1>3, ReadsBefore, Advances, SMTT(60)
<1>5. Width(f, i) = w /\ w \in Widths
  BY <1>2, <1>4, WidthOfTask
<1>6. d \in WordOf(w) /\ s \in WordOf(w) /\ w \in Nat /\ w >= ByteBits
  <2>1. EAX \in 0..7 /\ EBX \in 0..7
    BY DEF EAX, EBX
  <2>2. w \in Nat /\ w >= ByteBits
    BY <1>5, WidthFacts
  <2> HIDE DEF w, d, s
  <2>3. d \in WordOf(w) /\ s \in WordOf(w)
    BY <1>2, <1>3, <1>5, <2>1, GetWord
  <2>4. QED
    BY <2>2, <2>3
<1>7. Arithmetics(f, i) = With(f, g)
  <2>1. Arithmetics(f, i) = OntoRm(f, i, w, s)
    <3> HIDE DEF f, i, w, s
    <3>1. QED
      BY <1>2, <1>4, <1>5 DEF Arithmetics, OpA_RM_R
  <2>2. Rm(f, i, w) = d /\ AtRm(f, i, w) = f
    BY <1>2, <1>4 DEF Rm, AtRm
  <2> HIDE DEF f, i, w, d, s, fl
  <2>3. OpA(i.alu, w, d, s, fl) = Cmp(w, d, s, fl)
    BY <1>2 DEF OpA
  <2>4. QED
    BY <1>2, <1>4, <2>1, <2>2, <2>3 DEF OntoRm
<1> HIDE DEF w, d, s, fl, cc
<1>8. EvalCondition(cc, g) <=> Relation(cc, w, d, s)
  BY <1>2, <1>6, ConditionsDecide
<1>13. /\ "SF" \in g /\ "OF" \in g <=> Signed(d, w) - Signed(s, w) >= 2 ^ (w - 1)
       /\ "SF" \in g /\ "OF" \in g => "ZF" \notin g
  BY <1>6, BothOn
<1> HIDE DEF g
<1>9. Goes(p, 1, With(f, g)) /\ With(f, g).r = p.machine.r /\ With(f, g).fl = g
  <2>1. /\ p \in Programs /\ p.kind \in Checked /\ 1 \in 1..Len(p.code)
        /\ At(p, p.machine, 1) /\ p.code[1].pfx = {}
    BY <1>1, <1>2, <1>3
  <2> DEFINE n == p.machine
             k == 1
  <2> HIDE DEF n, k
  <2>2. LET h == Fetched(n, p.code[k])
        IN  /\ Goes(p, k, h) /\ h.r = n.r /\ h.fl = n.fl
            /\ \A x : Goes(p, k, With(h, x)) /\ With(h, x).r = n.r /\ With(h, x).fl = x
    <3>1. /\ p \in Programs /\ p.kind \in Checked /\ k \in 1..Len(p.code)
          /\ At(p, n, k) /\ p.code[k].pfx = {}
      BY <2>1 DEF n, k
    <3>2. QED
      BY ONLY <3>1, Passes
  <2>3. QED
    BY <2>2 DEF n, k
<1>10. Known(p, With(f, g))
  <2> HIDE DEF f
  <2>1. QED
    BY <1>8, <1>9, <1>13 DEF Known, Rel, ConditionHolds, BothOf, TooLarge, cc, w, d, s
<1>11. i.op \in ArithmeticOps
  BY <1>2 DEF ArithmeticOps
<1>12. QED
  BY <1>1, <1>2, <1>3, <1>7, <1>9, <1>10, <1>11

\* The three kinds of comparing programs.
JumpTask(p) ==
  LET j == p.code[2]
      k == p.code[3]
  IN  /\ j.op \in UsedBranches /\ Len(p.code) = 3
      /\ k.op = "Mov_word_IMM" /\ k.pfx = {} /\ k.reg = ESI /\ k.form = "z" /\ k.imm = 0
      /\ p.machine.r[ESI] = 1 /\ JumpsTo(p, j) = p.eips[4]
MoveTask(p) == /\ Onto(p.code[2], "Conditional_move", EDI, ESI) /\ Len(p.code) = 2
               /\ p.machine.r[ESI] = 0 /\ p.machine.r[EDI] = 1
SetTask(p) == /\ Onto(p.code[2], "Set_byte", EDX, 0) /\ Onto(p.code[3], "Movzx_byte_R_RM", EDX, ESI)
              /\ Len(p.code) = 3 /\ p.machine.r[ESI] = 0

LEMMA CompareKinds ==
  ASSUME NEW p \in Programs, p.kind = "compare"
  PROVE  /\ JumpTask(p) \/ MoveTask(p) \/ SetTask(p)
         /\ p.code[2].cc \in 0..15 /\ p.code[2].pfx = {} /\ 2 \in 1..Len(p.code)
         /\ p.kind \in Checked /\ DOMAIN p.machine = Fields
<1>1. CompareTask(p) /\ p.kind \in Checked
  BY TasksAssumption DEF Checked
<1>2. DOMAIN p.machine = Fields
  BY <1>1, Layout DEF Calm
<1>3. p.code[2].cc \in 0..15 /\ p.code[2].pfx = {}
  BY <1>1 DEF CompareTask
<1>4. JumpTask(p) \/ MoveTask(p) \/ SetTask(p)
  BY <1>1 DEF CompareTask, JumpTask, MoveTask, SetTask, UsedBranches
<1>5. Len(p.code) = 2 \/ Len(p.code) = 3
  BY <1>4 DEF JumpTask, MoveTask, SetTask
<1>6. QED
  BY <1>1, <1>2, <1>3, <1>4, <1>5

\* What is known between the second instruction and the third.
Between(p, n) ==
  \/ JumpTask(p) /\ n.r = p.machine.r /\ ~Rel(p)
  \/ SetTask(p) /\ n.r[ESI] = 0 /\ Get(n, ByteBits, EDX) = IF Rel(p) THEN 1 ELSE 0

\* The jump skips the third instruction exactly when the relation holds.
LEMMA JumpSecond ==
  ASSUME NEW p \in Programs, p.kind = "compare", JumpTask(p), NEW n, At(p, n, 2), Known(p, n)
  PROVE  LET j == p.code[2]
             e == Branches(Fetched(n, j), j)
         IN  /\ j.op \in UsedBranches /\ e.r = n.r
             /\ \/ Rel(p) /\ Goes(p, 3, e)
                \/ ~Rel(p) /\ Goes(p, 2, e)
<1> DEFINE j == p.code[2]
           f == Fetched(n, j)
           e == Branches(f, j)
           a == After(p, p.eips[2], j)
           target == JumpsTo(p, j)
<1>1. /\ p.kind \in Checked /\ 2 \in 1..Len(p.code) /\ j.pfx = {} /\ DOMAIN p.machine = Fields
      /\ j.op \in UsedBranches /\ target = p.eips[4]
  BY CompareKinds DEF JumpTask
<1>2. /\ Calm(f, p.machine.seg) /\ f.mode = ModeIn(p.machine.seg)
      /\ f.r = n.r /\ f.fl = n.fl /\ f.eip = p.eips[2 + 1]
      /\ \A x : Keeps(x, f, {"r", "fl", "eip"}) /\ x.r \in [0..7 -> Int] =>
           /\ x.host # "dead" /\ Outcome(x) = "running" /\ Calm(Retired(x), p.machine.seg)
           /\ Retired(x).r = x.r /\ Retired(x).fl = x.fl /\ Retired(x).eip = x.eip
  BY <1>1, Advances, SMTT(60)
<1>3. f.eip = a.eip /\ f.mode = a.mode
  <2>1. Calm(n, p.machine.seg) /\ n.eip = p.eips[2]
    BY DEF At
  <2>2. Fetched(n, j).eip = After(p, n.eip, j).eip /\ After(p, n.eip, j).mode = ModeIn(p.machine.seg)
    BY <1>1, <2>1, AfterFacts
  <2>3. QED
    BY <1>2, <2>1, <2>2
<1> HIDE DEF f
<1>4. EvalCondition(j.cc, f.fl) <=> Rel(p)
  BY <1>2 DEF Known
<1>5. e = IF EvalCondition(j.cc, f.fl) THEN Goto(f, target) ELSE f
  <2> HIDE DEF a
  <2>1. DataWidth(f) = DataWidth(a)
    BY <1>3 DEF DataWidth
  <2>2. CASE j.op = "Jump_short_cc"
    <3>1. target = Target(f, j)
      BY <1>3, <2>1, <2>2 DEF JumpsTo, Target, a
    <3>2. QED
      BY <2>2, <3>1 DEF Branches, Jump_short_cc
  <2>3. CASE j.op = "Long_jump"
    <3>1. target = NearTarget(f, j)
      BY <1>3, <2>1, <2>3 DEF JumpsTo, NearTarget, a
    <3>2. QED
      BY <2>3, <3>1 DEF Branches, Long_jump
  <2>4. QED
    BY <1>1, <2>2, <2>3 DEF UsedBranches
<1>6. DOMAIN f = Fields /\ f.r \in [0..7 -> Int]
  BY <1>2 DEF Calm
<1> HIDE DEF e, target
<1>7. CASE Rel(p)
  <2>1. e = Goto(f, target)
    BY <1>4, <1>5, <1>7
  <2>2. Keeps(e, f, {"eip"}) /\ e.eip = target
    BY <1>6, <2>1, GotoFacts
  <2>3. Keeps(e, f, {"r", "fl", "eip"}) /\ e.r = f.r
    BY <2>2 DEF Keeps, Fields
  <2>4. /\ e.host # "dead" /\ Outcome(e) = "running" /\ Calm(Retired(e), p.machine.seg)
        /\ Retired(e).r = e.r /\ Retired(e).fl = e.fl /\ Retired(e).eip = e.eip
    BY <1>2, <1>6, <2>3
  <2>5. Goes(p, 3, e)
    BY <1>1, <2>2, <2>4 DEF Goes, At
  <2>6. QED
    BY <1>1, <1>2, <1>7, <2>3, <2>5 DEF e, f
<1>8. CASE ~Rel(p)
  <2>1. e = f
    BY <1>4, <1>5, <1>8
  <2>2. Keeps(e, f, {"r", "fl", "eip"}) /\ e.r = f.r /\ e.eip = f.eip
    BY <1>6, <2>1 DEF Keeps
  <2>3. /\ e.host # "dead" /\ Outcome(e) = "running" /\ Calm(Retired(e), p.machine.seg)
        /\ Retired(e).r = e.r /\ Retired(e).fl = e.fl /\ Retired(e).eip = e.eip
    BY <1>2, <1>6, <2>2
  <2>4. Goes(p, 2, e)
    BY <1>2, <2>2, <2>3 DEF Goes, At
  <2>5. QED
    BY <1>1, <1>2, <1>8, <2>2, <2>4 DEF e, f
<1>9. QED
  BY <1>7, <1>8

\* Without prefixes data are a word or a long wide.
LEMMA DataWidths ==
  ASSUME NEW p, NEW n, n.mode = ModeIn(p.machine.seg)
  PROVE  /\ DataWidth(n) \in Widths /\ \A k : ~High8(DataWidth(n), k)
         /\ \A i : i.form = "z" => Imm(i, DataWidth(n)) = Trunc(i.imm, DataWidth(n))
<1>1. DataWidth(n) \in {WordBits, LongBits}
  BY DEF DataWidth
<1>2. WordBits # ByteBits /\ LongBits # ByteBits
  BY WidthFacts
<1> DEFINE w == DataWidth(n)
<1> HIDE DEF w
<1>3. w \in Widths /\ w # ByteBits
  BY <1>1, <1>2 DEF w, Widths
<1>4. \A k : ~High8(w, k)
  BY <1>3 DEF High8
<1>5. \A i : i.form = "z" => Imm(i, w) = Trunc(i.imm, w)
  BY DEF Imm
<1>6. QED
  BY <1>3, <1>4, <1>5 DEF w

\* A bit moved to ESI in the width of the data replaces the bit that it held.
LEMMA Marks ==
  ASSUME NEW p \in Programs, p.kind \in Checked, NEW k \in 1..Len(p.code), NEW n, At(p, n, k),
         p.code[k].pfx = {}, NEW b \in {0, 1}, n.r[ESI] \in {0, 1}
  PROVE  LET f == Fetched(n, p.code[k])
             e == Put(f, DataWidth(f), ESI, b)
         IN  Goes(p, k, e) /\ e.r[ESI] = b
<1> DEFINE f == Fetched(n, p.code[k])
           w == DataWidth(f)
           j == ESI
           e == Put(f, w, j, b)
<1>1. f.mode = ModeIn(p.machine.seg)
  BY Advances
<1>2. w \in Widths /\ ~High8(w, j)
  <2> HIDE DEF f, j
  <2>1. QED
    BY <1>1, DataWidths
<1>3. j \in 0..7
  BY DEF ESI
<1> HIDE DEF w, j
<1>4. b \in WordOf(w) /\ Trunc(0, w) = 0 /\ Trunc(1, w) = 1
  BY <1>2, Small
<1>5. Goes(p, k, e) /\ StoredIn(e, n, w, j, b, n.fl)
  BY <1>2, <1>3, <1>4, Puts
<1>6. e.r[j] = n.r[j] - Trunc(n.r[j], w) + b /\ n.r[j] \in {0, 1}
  BY <1>5 DEF StoredIn, j
<1> HIDE DEF e, f
<1>7. e.r[j] = b
  BY <1>4, <1>6
<1>8. QED
  BY <1>5, <1>7 DEF e, j, w, f

\* The move marks ESI exactly when it finds that the relation holds.
LEMMA MoveSecond ==
  ASSUME NEW p \in Programs, p.kind = "compare", MoveTask(p), NEW n, At(p, n, 2), Known(p, n)
  PROVE  LET j == p.code[2]
             e == Moves(Fetched(n, j), j)
         IN  j.op \in UsedMoves /\ Goes(p, 2, e) /\ Marked(p, e)
<1> DEFINE j == p.code[2]
           f == Fetched(n, j)
           w == DataWidth(f)
           e == Moves(f, j)
<1>1. /\ p.kind \in Checked /\ 2 \in 1..Len(p.code) /\ j.pfx = {} /\ j.cc \in 0..15
      /\ j.op = "Conditional_move" /\ j.mod = 3 /\ j.rm = EDI /\ j.reg = ESI
      /\ p.machine.r[ESI] = 0 /\ p.machine.r[EDI] = 1
  BY CompareKinds DEF MoveTask, Onto, InRegisters
<1>2. n.r = p.machine.r /\ (Noop(j.cc, n.fl) <=> ~Found(p))
  <2> DEFINE fl == n.fl
             cc == j.cc
  <2>1. (EvalCondition(cc, fl) <=> Rel(p)) /\ n.r = p.machine.r
    BY DEF Known
  <2>2. PICK both \in BOOLEAN : /\ both <=> TooLarge(p)
                                /\ both <=> "SF" \in fl /\ "OF" \in fl
                                /\ both => "ZF" \notin fl
    BY DEF Known, BothOf
  <2>3. MovesWrongly(p) <=> cc \in 12..15 /\ both
    BY <1>1, <2>2 DEF MovesWrongly, TooLarge
  <2>4. cc \in 0..15
    BY <1>1
  <2> HIDE DEF fl, cc
  <2>5. Noop(cc, fl) <=> IF cc \in 12..15 /\ both THEN EvalCondition(cc, fl) ELSE ~EvalCondition(cc, fl)
    BY <2>2, <2>4, NoopIsNot
  <2>6. Noop(cc, fl) <=> ~Found(p)
    BY <2>1, <2>3, <2>5 DEF Found
  <2>7. QED
    BY <2>1, <2>6 DEF fl, cc
<1>3. Goes(p, 2, f) /\ f.r = n.r /\ f.fl = n.fl
  BY <1>1, Passes
<1>4. f.mode = ModeIn(p.machine.seg)
  BY <1>1, Advances
<1>5. w \in Widths /\ ~High8(w, EDI)
  <2> HIDE DEF f
  <2>1. QED
    BY <1>4, DataWidths
<1>6. Goes(p, 2, Put(f, w, ESI, 1)) /\ Put(f, w, ESI, 1).r[ESI] = 1
  <2> DEFINE b == 1
  <2>1. b \in {0, 1} /\ n.r[ESI] \in {0, 1}
    BY <1>1, <1>2
  <2> HIDE DEF b
  <2>2. Goes(p, 2, Put(f, w, ESI, b)) /\ Put(f, w, ESI, b).r[ESI] = b
    BY <1>1, <2>1, Marks
  <2>3. QED
    BY <2>2 DEF b
<1> HIDE DEF f, j, w
<1>7. Get(f, w, EDI) = 1
  <2>1. Get(f, w, EDI) = Trunc(f.r[EDI], w)
    BY <1>5 DEF Get
  <2>2. QED
    BY <1>1, <1>2, <1>3, <1>5, <2>1, Small
<1>8. e = IF Found(p) THEN Put(f, w, ESI, 1) ELSE f
  <2>1. e = Conditional_move(f, j)
    BY <1>1 DEF Moves
  <2>2. Rm(f, j, w) = 1 /\ AtRm(f, j, w) = f
    BY <1>1, <1>7 DEF Rm, AtRm
  <2>3. QED
    BY <1>1, <1>2, <1>3, <2>1, <2>2 DEF Conditional_move, w
<1> HIDE DEF e
<1>9. CASE Found(p)
  <2>1. e = Put(f, w, ESI, 1)
    BY <1>8, <1>9
  <2>2. QED
    BY <1>1, <1>6, <1>9, <2>1 DEF Marked, UsedMoves, e, f, j
<1>10. CASE ~Found(p)
  <2>1. e = f
    BY <1>8, <1>10
  <2>2. e.r[ESI] = 0
    BY <1>1, <1>2, <1>3, <2>1
  <2>3. QED
    BY <1>1, <1>3, <1>10, <2>1, <2>2 DEF Marked, UsedMoves, e, f, j
<1>11. QED
  BY <1>9, <1>10

\* The set leaves its condition in DL.
LEMMA SetSecond ==
  ASSUME NEW p \in Programs, p.kind = "compare", SetTask(p), NEW n, At(p, n, 2), Known(p, n)
  PROVE  LET j == p.code[2]
             e == Moves(Fetched(n, j), j)
         IN  j.op \in UsedMoves /\ Goes(p, 2, e) /\ Between(p, e)
<1> DEFINE j == p.code[2]
           f == Fetched(n, j)
           b == IF EvalCondition(j.cc, f.fl) THEN 1 ELSE 0
           w == ByteBits
           k == EDX
           e == Put(f, w, k, b)
<1>1. /\ p.kind \in Checked /\ 2 \in 1..Len(p.code) /\ j.pfx = {}
      /\ j.op = "Set_byte" /\ j.mod = 3 /\ j.rm = EDX /\ p.machine.r[ESI] = 0
  BY CompareKinds DEF SetTask, Onto, InRegisters
<1>2. /\ n.r = p.machine.r /\ (EvalCondition(j.cc, n.fl) <=> Rel(p))
  BY DEF Known
<1>3. f.fl = n.fl
  BY <1>1, Passes
<1>4. w \in Widths /\ k \in 0..7 /\ ~High8(w, k) /\ ESI \in 0..7 /\ ESI # k
  BY DEF Widths, EDX, ESI, High8
<1>5. Moves(f, j) = e
  <2> HIDE DEF f, j
  <2>1. Moves(f, j) = Set_byte(f, j)
    BY <1>1 DEF Moves
  <2>2. QED
    BY <1>1, <2>1 DEF Set_byte, SetRm
<1>6. b = IF Rel(p) THEN 1 ELSE 0
  BY <1>2, <1>3
<1> HIDE DEF b, k
<1>7. b \in WordOf(w)
  <2>1. b = 0 \/ b = 1
    BY <1>6
  <2>2. 0 \in WordOf(w) /\ 1 \in WordOf(w)
    BY <1>4, Small
  <2>3. QED
    BY <2>1, <2>2
<1> HIDE DEF w
<1>8. Goes(p, 2, e) /\ StoredIn(e, n, w, k, b, n.fl)
  BY <1>1, <1>4, <1>7, Puts
<1> HIDE DEF e
<1>9. Get(e, w, k) = b /\ e.r[ESI] = 0
  BY <1>1, <1>2, <1>4, <1>8 DEF StoredIn
<1>10. Between(p, e)
  BY <1>6, <1>9 DEF Between, w, k
<1>11. QED
  BY <1>1, <1>5, <1>8, <1>10 DEF UsedMoves, f, j

\* The third instruction takes the mark away, or moves DL to it.
LEMMA MarkThird ==
  ASSUME NEW p \in Programs, p.kind = "compare", Len(p.code) = 3, NEW n, At(p, n, 3), Between(p, n)
  PROVE  LET k == p.code[3]
             e == Moves(Fetched(n, k), k)
         IN  k.op \in UsedMoves /\ 3 \in 1..Len(p.code) /\ Goes(p, 3, e) /\ Marked(p, e)
<1> DEFINE k == p.code[3]
           f == Fetched(n, k)
           w == DataWidth(f)
           b == IF Rel(p) THEN 1 ELSE 0
           e == Put(f, w, ESI, b)
<1>1. p.kind \in Checked /\ 3 \in 1..Len(p.code)
  BY CompareKinds
<1>2. b \in {0, 1}
  OBVIOUS
<1>3. k.pfx = {} /\ k.reg = ESI /\ n.r[ESI] \in {0, 1} /\ k.op \in UsedMoves
  BY DEF Between, JumpTask, SetTask, Onto, InRegisters, UsedMoves
<1>4. f.mode = ModeIn(p.machine.seg) /\ \A v, x : Get(f, v, x) = Get(n, v, x)
  BY <1>1, <1>3, Advances, ReadsBefore
<1> HIDE DEF b
<1>5. Goes(p, 3, e) /\ e.r[ESI] = b
  BY <1>1, <1>2, <1>3, Marks
<1> HIDE DEF f
<1>6. w \in Widths /\ (k.form = "z" => Imm(k, w) = Trunc(k.imm, w)) /\ Trunc(0, w) = 0
  <2>1. w \in Widths /\ (k.form = "z" => Imm(k, w) = Trunc(k.imm, w))
    BY <1>4, DataWidths
  <2>2. QED
    BY <2>1, Small
<1>7. Moves(f, k) = e
  <2>1. CASE JumpTask(p) /\ ~Rel(p)
    <3>1. k.op = "Mov_word_IMM" /\ k.form = "z" /\ k.imm = 0 /\ b = 0
      BY <2>1 DEF JumpTask, b
    <3>2. Moves(f, k) = Mov_word_IMM(f, k)
      BY <3>1 DEF Moves
    <3>3. Mov_word_IMM(f, k) = Put(f, w, k.reg, Imm(k, w))
      BY DEF Mov_word_IMM
    <3> HIDE DEF w, k
    <3>4. QED
      BY <1>3, <1>6, <3>1, <3>2, <3>3
  <2>2. CASE SetTask(p) /\ Get(n, ByteBits, EDX) = b
    <3>1. k.op = "Movzx_byte_R_RM" /\ k.mod = 3 /\ k.rm = EDX
      BY <2>2 DEF SetTask, Onto, InRegisters
    <3>2. Moves(f, k) = Extended(f, k, ByteBits, FALSE)
      BY <3>1 DEF Moves, Movzx_byte_R_RM
    <3>3. Rm(f, k, ByteBits) = b /\ AtRm(f, k, ByteBits) = f
      BY <1>4, <2>2, <3>1 DEF Rm, AtRm
    <3> HIDE DEF k
    <3>4. QED
      BY <1>3, <3>2, <3>3 DEF Extended
  <2>3. QED
    BY <2>1, <2>2 DEF Between, b
<1> HIDE DEF e
<1>8. p.code[2].op # "Conditional_move"
  BY DEF Between, JumpTask, SetTask, Onto, UsedBranches
<1>9. Marked(p, e)
  BY <1>5, <1>8, OthersRight DEF Marked, b
<1>10. QED
  BY <1>1, <1>3, <1>5, <1>7, <1>9 DEF f

-----------------------------------------------------------------------------
\* What is known depends on the registers and the flags alone.
LEMMA SameMarks ==
  ASSUME NEW p, NEW n, NEW t, n.r = t.r, n.fl = t.fl
  PROVE  /\ Known(p, n) => Known(p, t)
         /\ Between(p, n) => Between(p, t)
<1>1. \A w, k : Get(n, w, k) = Get(t, w, k)
  BY DEF Get
<1>2. QED
  BY <1>1 DEF Known, Between

LEMMA SameMark ==
  ASSUME NEW p, NEW n, NEW t, n.r = t.r
  PROVE  Marked(p, n) => Marked(p, t)
  BY DEF Marked

CompareInv ==
  /\ program \in Programs
  /\ Task.kind = "compare" =>
       \/ run = "out of budget"
       \/ run = "running" /\ m = Start
       \/ run = "running" /\ At(Task, m, 2) /\ Known(Task, m)
       \/ run = "running" /\ Len(Task.code) = 3 /\ At(Task, m, 3) /\ Between(Task, m)
       \/ run = "running" /\ At(Task, m, Len(Task.code) + 1) /\ Marked(Task, m)
       \/ run = "halted" /\ Marked(Task, m)

LEMMA CompareInit == Init => CompareInv
  BY DEF Init, CompareInv, Start, Task

\* The comparison.
LEMMA CompareStep ==
  ASSUME Next, run = "running", program \in Programs, Task.kind = "compare", m = Start
  PROVE  CompareInv'
<1> DEFINE e == Arithmetics(Fetched(m, The(1)), The(1))
<1>1. /\ Task.kind \in Checked /\ At(Task, m, 1) /\ 1 \in 1..Len(Task.code)
      /\ The(1).op \in ArithmeticOps /\ Goes(Task, 1, e) /\ Known(Task, e)
  BY CompareFirst DEF Task, Start, The
<1>2. (run' = "out of budget" /\ program' = program) \/ Ran(e)
  BY <1>1, Executes
<1> HIDE DEF e
<1>3. CASE Ran(e)
  <2>1. run' = "running" /\ m' = Retired(e) /\ program' = program
    BY <1>1, <1>3 DEF Ran, Goes
  <2>2. At(Task, m', 1 + 1) /\ m'.r = e.r /\ m'.fl = e.fl
    BY <1>1, <2>1 DEF Goes
  <2>3. Known(Task, m')
    BY <1>1, <2>2, SameMarks
  <2>4. QED
    BY <2>1, <2>2, <2>3 DEF CompareInv, Task
<1>4. QED
  BY <1>2, <1>3 DEF CompareInv

\* The instruction that asks for the relation.
LEMMA AskStep ==
  ASSUME Next, run = "running", program \in Programs, Task.kind = "compare",
         At(Task, m, 2), Known(Task, m)
  PROVE  CompareInv'
<1> DEFINE a == Branches(Fetched(m, The(2)), The(2))
           b == Moves(Fetched(m, The(2)), The(2))
<1>1. /\ Task.kind \in Checked /\ 2 \in 1..Len(Task.code)
      /\ JumpTask(Task) \/ MoveTask(Task) \/ SetTask(Task)
  BY CompareKinds DEF Task
<1>2. JumpTask(Task) =>
        /\ The(2).op \in UsedBranches /\ a.r = m.r
        /\ \/ Rel(Task) /\ Goes(Task, 3, a)
           \/ ~Rel(Task) /\ Goes(Task, 2, a)
  BY JumpSecond DEF Task, The
<1>3. MoveTask(Task) => The(2).op \in UsedMoves /\ Goes(Task, 2, b) /\ Marked(Task, b)
  BY MoveSecond DEF Task, The
<1>4. SetTask(Task) => The(2).op \in UsedMoves /\ Goes(Task, 2, b) /\ Between(Task, b)
  BY SetSecond DEF Task, The
<1>5. \/ run' = "out of budget" /\ program' = program
      \/ /\ The(2).op \in UsedBranches => Ran(a)
         /\ The(2).op \in UsedMoves => Ran(b)
  BY <1>1, Executes
<1>6. m.r = Task.machine.r
  BY DEF Known
<1> HIDE DEF a, b
<1>7. CASE JumpTask(Task) /\ Ran(a)
  <2>1. run' = "running" /\ m' = Retired(a) /\ program' = program /\ m'.r = m.r
    BY <1>2, <1>7 DEF Ran, Goes
  <2>2. Len(Task.code) = 3 /\ Task.machine.r[ESI] = 1 /\ (Found(Task) <=> Rel(Task))
    <3>1. Task.code[2].op # "Conditional_move" /\ Len(Task.code) = 3 /\ Task.machine.r[ESI] = 1
      BY <1>7 DEF JumpTask, UsedBranches
    <3>2. QED
      BY <3>1, OthersRight
  <2>3. CASE Rel(Task) /\ Goes(Task, 3, a)
    <3>1. At(Task, m', 3 + 1)
      BY <2>1, <2>3 DEF Goes
    <3>2. Marked(Task, m')
      BY <1>6, <2>1, <2>2, <2>3 DEF Marked
    <3>3. QED
      BY <2>1, <2>2, <3>1, <3>2 DEF CompareInv, Task
  <2>4. CASE ~Rel(Task) /\ Goes(Task, 2, a)
    <3>1. At(Task, m', 2 + 1)
      BY <2>1, <2>4 DEF Goes
    <3>2. Between(Task, m')
      BY <1>6, <1>7, <2>1, <2>4 DEF Between
    <3>3. QED
      BY <2>1, <2>2, <3>1, <3>2 DEF CompareInv, Task
  <2>5. QED
    BY <1>2, <1>7, <2>3, <2>4
<1>8. CASE MoveTask(Task) /\ Ran(b)
  <2>1. run' = "running" /\ m' = Retired(b) /\ program' = program
    BY <1>3, <1>8 DEF Ran, Goes
  <2>2. At(Task, m', 2 + 1) /\ m'.r = b.r
    BY <1>3, <1>8, <2>1 DEF Goes
  <2>3. Marked(Task, m')
    BY <1>3, <1>8, <2>2, SameMark
  <2>4. Len(Task.code) = 2
    BY <1>8 DEF MoveTask
  <2>5. QED
    BY <2>1, <2>2, <2>3, <2>4 DEF CompareInv, Task
<1>9. CASE SetTask(Task) /\ Ran(b)
  <2>1. run' = "running" /\ m' = Retired(b) /\ program' = program
    BY <1>4, <1>9 DEF Ran, Goes
  <2>2. At(Task, m', 2 + 1) /\ m'.r = b.r /\ m'.fl = b.fl
    BY <1>4, <1>9, <2>1 DEF Goes
  <2>3. Between(Task, m')
    BY <1>4, <1>9, <2>2, SameMarks
  <2>4. Len(Task.code) = 3
    BY <1>9 DEF SetTask
  <2>5. QED
    BY <2>1, <2>2, <2>3, <2>4 DEF CompareInv, Task
<1>10. QED
  BY <1>1, <1>2, <1>3, <1>4, <1>5, <1>7, <1>8, <1>9 DEF CompareInv

\* The instruction that moves the mark.
LEMMA MarkStep ==
  ASSUME Next, run = "running", program \in Programs, Task.kind = "compare",
         Len(Task.code) = 3, At(Task, m, 3), Between(Task, m)
  PROVE  CompareInv'
<1> DEFINE e == Moves(Fetched(m, The(3)), The(3))
<1>1. Task.kind \in Checked
  BY DEF Checked
<1>2. The(3).op \in UsedMoves /\ 3 \in 1..Len(Task.code) /\ Goes(Task, 3, e) /\ Marked(Task, e)
  BY MarkThird DEF Task, The
<1>3. (run' = "out of budget" /\ program' = program) \/ Ran(e)
  BY <1>1, <1>2, Executes
<1> HIDE DEF e
<1>4. CASE Ran(e)
  <2>1. run' = "running" /\ m' = Retired(e) /\ program' = program
    BY <1>2, <1>4 DEF Ran, Goes
  <2>2. At(Task, m', 3 + 1) /\ m'.r = e.r
    BY <1>2, <2>1 DEF Goes
  <2>3. Marked(Task, m')
    BY <1>2, <2>2, SameMark
  <2>4. QED
    BY <2>1, <2>2, <2>3 DEF CompareInv, Task
<1>5. QED
  BY <1>3, <1>4 DEF CompareInv

LEMMA CompareNext == CompareInv /\ [Next]_vars => CompareInv'
<1> SUFFICES ASSUME CompareInv, [Next]_vars PROVE CompareInv'
  OBVIOUS
<1>1. CASE UNCHANGED vars
  BY <1>1 DEF CompareInv, vars, Task, Start
<1>2. CASE Next
  <2>1. run = "running" /\ program \in Programs
    BY <1>2, Rests DEF CompareInv
  <2>2. CASE Task.kind # "compare"
    <3>1. program' = program
      BY <1>2, SameProgram
    <3>2. QED
      BY <2>1, <2>2, <3>1 DEF CompareInv, Task
  <2>3. CASE Task.kind = "compare" /\ m = Start
    BY <1>2, <2>1, <2>3, CompareStep
  <2>4. CASE Task.kind = "compare" /\ At(Task, m, 2) /\ Known(Task, m)
    BY <1>2, <2>1, <2>4, AskStep
  <2>5. CASE Task.kind = "compare" /\ Len(Task.code) = 3 /\ At(Task, m, 3) /\ Between(Task, m)
    BY <1>2, <2>1, <2>5, MarkStep
  <2>6. CASE Task.kind = "compare" /\ At(Task, m, Len(Task.code) + 1) /\ Marked(Task, m)
    <3>1. Task.kind \in Checked
      BY <2>6 DEF Checked
    <3>2. /\ program' = program
          /\ \/ run' = "out of budget"
             \/ run' = "halted" /\ m'.r = m.r /\ m'.fl = m.fl
      BY <1>2, <2>1, <2>6, <3>1, Ends
    <3>3. CASE run' = "halted" /\ m'.r = m.r
      <4>1. Marked(Task, m')
        BY <2>6, <3>3, SameMark
      <4>2. QED
        BY <2>1, <3>2, <3>3, <4>1 DEF CompareInv, Task
    <3>4. QED
      BY <2>1, <3>2, <3>3 DEF CompareInv
  <2>7. QED
    BY <2>1, <2>2, <2>3, <2>4, <2>5, <2>6 DEF CompareInv
<1>3. QED
  BY <1>1, <1>2

LEMMA CompareMeans == CompareInv => ComparisonsDecide
  BY DEF CompareInv, ComparisonsDecide, Marked, Found, Rel, Ended

\* A conditional jump or set after a comparison acts exactly when the operands
\* are related as its condition says, for all sixteen conditions and every
\* width, and so does a conditional move but for the four signed conditions
\* after a difference too large for its width, where it does the opposite
\* (cmp_byte .. cmp_long, eval_condition, jump_short_cc, long_jump, set_byte,
\* and conditional_move with conditions of its own).
THEOREM ComparisonsAlwaysDecide == Spec => []ComparisonsDecide
  BY CompareInit, CompareNext, CompareMeans, PTL DEF Spec

-----------------------------------------------------------------------------
(* Arithmetic: what each operation leaves in the register and the flags.   *)

\* A word, and what is known of the width.
LEMMA WidthsAre ==
  ASSUME NEW w \in Widths
  PROVE  /\ w \in Nat /\ w >= ByteBits /\ w >= 2 /\ w \in Nat \ {0}
         /\ WordOf(w) \subseteq Int /\ w \in {ByteBits, WordBits, LongBits}
<1>1. w \in Nat /\ w >= ByteBits /\ w >= 2 /\ w \in Nat \ {0}
  BY WidthFacts
<1>2. WordOf(w) \subseteq Int
  BY <1>1, PowerFacts DEF WordOf
<1>3. QED
  BY <1>1, <1>2 DEF Widths

LEMMA DescribesResult ==
  ASSUME NEW fl, NEW v, NEW w, Describe(fl, v, w)
  PROVE  ResultFlags(fl, v, w)
  BY DEF Describe, ResultFlags

\* The sum, with the carry before it.
LEMMA SumExact ==
  ASSUME NEW w \in Widths, NEW d \in WordOf(w), NEW s \in WordOf(w), NEW fl
  PROVE  LET a == Adc(w, d, s, fl)
         IN  a.v \in WordOf(w) /\ SumIs(a.fl, a.v, w, d, s, CarryOf(fl)) /\ ResultFlags(a.fl, a.v, w)
<1> DEFINE a == Adc(w, d, s, fl)
<1>1. w \in Nat /\ w >= ByteBits
  BY WidthsAre
<1>2. /\ a.v \in WordOf(w)
      /\ a.v + Carry(a.fl) * 2 ^ w = d + s + Carry(fl)
      /\ "OF" \in a.fl <=> Signed(d, w) + Signed(s, w) + Carry(fl) \notin SignedRange(w)
      /\ Describe(a.fl, a.v, w)
  BY <1>1, AdcIsExact
<1> HIDE DEF a
<1>3. \A x : Carry(x) = CarryOf(x)
  BY DEF Carry, CarryOf
<1>4. SumIs(a.fl, a.v, w, d, s, CarryOf(fl))
  BY <1>2, <1>3 DEF SumIs
<1>5. QED
  BY <1>2, <1>4, DescribesResult DEF a

\* The difference, with the borrow before it.
LEMMA DifferenceExact ==
  ASSUME NEW w \in Widths, NEW d \in WordOf(w), NEW s \in WordOf(w), NEW fl
  PROVE  LET a == Sbb(w, d, s, fl)
         IN  a.v \in WordOf(w) /\ DifferenceIs(a.fl, a.v, w, d, s, CarryOf(fl)) /\ ResultFlags(a.fl, a.v, w)
<1> DEFINE a == Sbb(w, d, s, fl)
<1>1. w \in Nat /\ w >= ByteBits
  BY WidthsAre
<1>2. /\ a.v \in WordOf(w)
      /\ a.v - Carry(a.fl) * 2 ^ w = d - s - Carry(fl)
      /\ "OF" \in a.fl <=> Signed(d, w) - Signed(s, w) - Carry(fl) \notin SignedRange(w)
      /\ Describe(a.fl, a.v, w)
  BY <1>1, SbbIsExact
<1> HIDE DEF a
<1>3. \A x : Carry(x) = CarryOf(x)
  BY DEF Carry, CarryOf
<1>4. DifferenceIs(a.fl, a.v, w, d, s, CarryOf(fl))
  BY <1>2, <1>3 DEF DifferenceIs
<1>5. QED
  BY <1>2, <1>4, DescribesResult DEF a

\* The two-operand operations that work bit by bit.
LEMMA BitwiseExact ==
  ASSUME NEW w \in Widths, NEW d \in WordOf(w), NEW s \in WordOf(w), NEW fl, NEW n \in {1, 4, 6}
  PROVE  LET a == OpA(n, w, d, s, fl)
         IN  a.v \in WordOf(w) /\ BitwiseIs(a.fl, n, a.v, w, d, s) /\ ResultFlags(a.fl, a.v, w)
<1>0. w \in {ByteBits, WordBits, LongBits}
  BY DEF Widths
<1>1. CASE n = 1
  <2> DEFINE a == OrOp(w, d, s, fl)
  <2>1. /\ a.v \in WordOf(w) /\ \A k \in 0..w - 1 : Bit(a.v, k) <=> Bit(d, k) \/ Bit(s, k)
        /\ Describe(a.fl, a.v, w) /\ a.fl \cap {"CF", "OF"} = {}
    BY <1>0, LogicIsBitwise
  <2>2. OpA(n, w, d, s, fl) = a
    BY <1>1 DEF OpA
  <2> HIDE DEF a
  <2>3. BitwiseIs(a.fl, n, a.v, w, d, s)
    BY <1>1, <2>1 DEF BitwiseIs
  <2>4. QED
    BY <2>1, <2>2, <2>3, DescribesResult
<1>2. CASE n = 4
  <2> DEFINE a == AndOp(w, d, s, fl)
  <2>1. /\ a.v \in WordOf(w) /\ \A k \in 0..w - 1 : Bit(a.v, k) <=> Bit(d, k) /\ Bit(s, k)
        /\ Describe(a.fl, a.v, w) /\ a.fl \cap {"CF", "OF"} = {}
    BY <1>0, LogicIsBitwise
  <2>2. OpA(n, w, d, s, fl) = a
    BY <1>2 DEF OpA
  <2> HIDE DEF a
  <2>3. BitwiseIs(a.fl, n, a.v, w, d, s)
    BY <1>2, <2>1 DEF BitwiseIs
  <2>4. QED
    BY <2>1, <2>2, <2>3, DescribesResult
<1>3. CASE n = 6
  <2> DEFINE a == XorOp(w, d, s, fl)
  <2>1. /\ a.v \in WordOf(w) /\ \A k \in 0..w - 1 : Bit(a.v, k) <=> Bit(d, k) # Bit(s, k)
        /\ Describe(a.fl, a.v, w) /\ a.fl \cap {"CF", "OF"} = {}
    BY <1>0, LogicIsBitwise
  <2>2. OpA(n, w, d, s, fl) = a
    BY <1>3 DEF OpA
  <2> HIDE DEF a
  <2>3. BitwiseIs(a.fl, n, a.v, w, d, s)
    BY <1>3, <2>1 DEF BitwiseIs
  <2>4. QED
    BY <2>1, <2>2, <2>3, DescribesResult
<1>4. QED
  BY <1>1, <1>2, <1>3

\* All eight of them.
LEMMA TwoOperandsExact ==
  ASSUME NEW w \in Widths, NEW d \in WordOf(w), NEW s \in WordOf(w), NEW fl, NEW n \in 0..7
  PROVE  LET a == OpA(n, w, d, s, fl)
         IN  a.v \in WordOf(w) /\ TwoOperands(n, w, d, s, fl, a.v, a.fl)
<1> DEFINE a == OpA(n, w, d, s, fl)
           zero == 0
<1>0. CarryOf(fl \ {"CF"}) = zero
  BY DEF CarryOf
<1>1. CASE n \in {0, 2}
  <2> DEFINE g == IF n = 2 THEN fl ELSE fl \ {"CF"}
  <2>1. a = Adc(w, d, s, g)
    BY <1>1 DEF OpA, Add
  <2> DEFINE b == Adc(w, d, s, g)
  <2>2. b.v \in WordOf(w) /\ SumIs(b.fl, b.v, w, d, s, CarryOf(g)) /\ ResultFlags(b.fl, b.v, w)
    <3> HIDE DEF g
    <3>1. QED
      BY SumExact
  <2>3. CarryOf(g) = IF n = 2 THEN CarryOf(fl) ELSE 0
    BY <1>0
  <2> HIDE DEF b, a, g
  <2>4. a = b
    BY <2>1 DEF b
  <2>5. n # 7 /\ n \notin {3, 5, 7} /\ n \notin {1, 4, 6}
    BY <1>1
  <2>6. QED
    BY <2>2, <2>3, <2>4, <2>5 DEF TwoOperands, a
<1>2. CASE n \in {3, 5}
  <2> DEFINE g == IF n = 3 THEN fl ELSE fl \ {"CF"}
  <2>1. a = Sbb(w, d, s, g)
    BY <1>2 DEF OpA, Sub
  <2> DEFINE b == Sbb(w, d, s, g)
  <2>2. b.v \in WordOf(w) /\ DifferenceIs(b.fl, b.v, w, d, s, CarryOf(g)) /\ ResultFlags(b.fl, b.v, w)
    <3> HIDE DEF g
    <3>1. QED
      BY DifferenceExact
  <2>3. CarryOf(g) = IF n = 3 THEN CarryOf(fl) ELSE 0
    BY <1>0
  <2> HIDE DEF b, a, g
  <2>4. a = b
    BY <2>1 DEF b
  <2>5. n # 7 /\ n \notin {0, 2} /\ n \notin {1, 4, 6}
    BY <1>2
  <2>6. QED
    BY <2>2, <2>3, <2>4, <2>5 DEF TwoOperands, a
<1>3. CASE n = 7
  <2> DEFINE g == fl \ {"CF"}
             b == Sbb(w, d, s, g)
  <2>1. a.v = d /\ a.fl = b.fl
    BY <1>3 DEF OpA, Cmp, Sub, Ans
  <2>2. b.v \in WordOf(w) /\ DifferenceIs(b.fl, b.v, w, d, s, CarryOf(g)) /\ ResultFlags(b.fl, b.v, w)
    <3> HIDE DEF g
    <3>1. QED
      BY DifferenceExact
  <2>3. b.v = Trunc(d - s, w)
    <3>1. b.v = Trunc(d - s - 0, w)
      BY DEF Sbb, Ans
    <3>2. d - s - 0 = d - s
      BY WidthsAre
    <3>3. QED
      BY <3>1, <3>2
  <2> HIDE DEF b, a
  <2>4. QED
    BY <1>0, <1>3, <2>1, <2>2, <2>3 DEF TwoOperands, a
<1>4. CASE n \in {1, 4, 6}
  <2>1. a.v \in WordOf(w) /\ BitwiseIs(a.fl, n, a.v, w, d, s) /\ ResultFlags(a.fl, a.v, w)
    BY <1>4, BitwiseExact
  <2>2. n # 7 /\ n \notin {0, 2} /\ n \notin {3, 5, 7}
    BY <1>4
  <2> HIDE DEF a
  <2>3. QED
    BY <2>1, <2>2 DEF TwoOperands, a
<1>5. QED
  BY <1>1, <1>2, <1>3, <1>4

\* test
LEMMA TestExact ==
  ASSUME NEW w \in Widths, NEW d, NEW s, NEW fl
  PROVE  TestIs(w, d, s, d, TestOp(w, d, s, fl).fl)
<1>1. w \in {ByteBits, WordBits, LongBits}
  BY DEF Widths
<1> DEFINE g == TestOp(w, d, s, fl).fl
<1>2. g \cap {"CF", "OF"} = {} /\ ("ZF" \in g <=> \A k \in 0..w - 1 : ~(Bit(d, k) /\ Bit(s, k)))
  BY <1>1, LogicIsBitwise
<1> HIDE DEF g
<1>3. QED
  BY <1>2 DEF TestIs, g

\* inc and dec
LEMMA StepExact ==
  ASSUME NEW w \in Widths, NEW d \in WordOf(w), NEW fl
  PROVE  /\ LET a == Inc(w, d, fl) IN a.v \in WordOf(w) /\ OneOperand(1, w, d, fl, a.v, a.fl)
         /\ LET a == Dec(w, d, fl) IN a.v \in WordOf(w) /\ OneOperand(-1, w, d, fl, a.v, a.fl)
<1>1. w \in Nat /\ w >= ByteBits /\ d \in Int /\ w \in Nat \ {0}
  BY WidthsAre
<1> DEFINE a == Inc(w, d, fl)
           b == Dec(w, d, fl)
<1>2. /\ a.v = Trunc(d + 1, w) /\ Describe(a.fl, a.v, w)
      /\ "OF" \in a.fl <=> Signed(d, w) + 1 \notin SignedRange(w)
      /\ "CF" \in a.fl <=> "CF" \in fl
  BY <1>1, IncDecAreExact
<1>3. /\ b.v = Trunc(d - 1, w) /\ Describe(b.fl, b.v, w)
      /\ "OF" \in b.fl <=> Signed(d, w) - 1 \notin SignedRange(w)
      /\ "CF" \in b.fl <=> "CF" \in fl
  BY <1>1, IncDecAreExact
<1> HIDE DEF a, b
<1>4. Trunc(d + 1, w) \in WordOf(w) /\ Trunc(d - 1, w) \in WordOf(w)
  <2> DEFINE x == d + 1
             y == d - 1
  <2>1. x \in Int /\ y \in Int
    BY <1>1
  <2> HIDE DEF x, y
  <2>2. Trunc(x, w) \in WordOf(w) /\ Trunc(y, w) \in WordOf(w)
    BY <1>1, <2>1, TruncFacts
  <2>3. QED
    BY <2>2 DEF x, y
<1>5. Signed(d, w) \in Int
  BY <1>1, PowerFacts DEF Signed
<1>6. OneOperand(1, w, d, fl, a.v, a.fl)
  BY <1>2, DescribesResult DEF OneOperand, CarryOf
<1>7. OneOperand(-1, w, d, fl, b.v, b.fl)
  <2>1. d + (-1) = d - 1 /\ Signed(d, w) + (-1) = Signed(d, w) - 1
    BY <1>1, <1>5
  <2>2. QED
    BY <1>3, <2>1, DescribesResult DEF OneOperand, CarryOf
<1>8. QED
  BY <1>2, <1>3, <1>4, <1>6, <1>7 DEF a, b

\* not and neg
LEMMA NotExact ==
  ASSUME NEW w \in Widths, NEW d \in WordOf(w)
  PROVE  NotOp(w, d) \in WordOf(w) /\ NotOp(w, d) + d = 2 ^ w - 1
<1>1. w \in Nat /\ 2 ^ w \in Nat
  BY WidthsAre, PowerFacts
<1>2. QED
  BY <1>1 DEF NotOp, WordOf

LEMMA NegExact ==
  ASSUME NEW w \in Widths, NEW d \in WordOf(w), NEW fl
  PROVE  LET a == Neg(w, d, fl)
         IN  a.v \in WordOf(w) /\ DifferenceIs(a.fl, a.v, w, 0, d, 0) /\ ResultFlags(a.fl, a.v, w)
<1> DEFINE g == fl \ {"CF"}
           zero == 0
<1>1. w \in Nat /\ w >= ByteBits /\ zero \in WordOf(w)
  <2>1. w \in Nat /\ w >= ByteBits /\ 2 ^ w \in Nat \ {0}
    BY WidthsAre, PowerFacts
  <2>2. QED
    BY <2>1 DEF WordOf
<1>2. Neg(w, d, fl) = Sbb(w, zero, d, g)
  BY <1>1, NegIsSubtraction DEF Sub
<1>3. CarryOf(g) = zero
  BY DEF CarryOf
<1> DEFINE a == Sbb(w, zero, d, g)
<1>4. a.v \in WordOf(w) /\ DifferenceIs(a.fl, a.v, w, zero, d, CarryOf(g)) /\ ResultFlags(a.fl, a.v, w)
  <2> HIDE DEF g, zero
  <2>1. QED
    BY <1>1, DifferenceExact
<1> HIDE DEF a
<1>5. QED
  BY <1>2, <1>3, <1>4 DEF a

\* The product is in two registers.
LEMMA ProductExact ==
  ASSUME NEW w \in Widths, NEW d \in WordOf(w), NEW s \in WordOf(w), NEW fl
  PROVE  /\ LET a == Mul(w, d, s, fl)
            IN  /\ a.hi \in WordOf(w) /\ a.lo \in WordOf(w) /\ a.trap = "none"
                /\ UnsignedProductIs(w, d, s, a.hi, a.lo, a.fl)
         /\ LET a == Imul(w, d, s, fl)
            IN  /\ a.hi \in WordOf(w) /\ a.lo \in WordOf(w) /\ a.trap = "none"
                /\ SignedProductIs(w, d, s, a.hi, a.lo, a.fl)
<1>1. w \in Nat /\ w \in Nat \ {0}
  BY WidthsAre
<1> DEFINE a == Mul(w, d, s, fl)
           b == Imul(w, d, s, fl)
<1>2. /\ a.hi \in WordOf(w) /\ a.lo \in WordOf(w) /\ a.hi * 2 ^ w + a.lo = d * s
      /\ "CF" \in a.fl <=> d * s \notin WordOf(w)
      /\ "OF" \in a.fl <=> d * s \notin WordOf(w)
  BY <1>1, MulIsExact
<1>3. /\ b.hi \in WordOf(w) /\ b.lo \in WordOf(w)
      /\ Signed(b.hi, w) * 2 ^ w + b.lo = Signed(d, w) * Signed(s, w)
      /\ "CF" \in b.fl <=> Signed(d, w) * Signed(s, w) \notin SignedRange(w)
      /\ "OF" \in b.fl <=> Signed(d, w) * Signed(s, w) \notin SignedRange(w)
  BY <1>1, ImulIsExact
<1>4. a.trap = "none" /\ b.trap = "none"
  BY DEF Mul, Imul
<1> HIDE DEF a, b
<1>5. UnsignedProductIs(w, d, s, a.hi, a.lo, a.fl)
  BY <1>2, Zenon DEF UnsignedProductIs, ProductIs, CarryOf
<1>6. SignedProductIs(w, d, s, b.hi, b.lo, b.fl)
  BY <1>3, Zenon DEF SignedProductIs, ProductIs, CarryOf
<1>7. QED
  BY <1>2, <1>3, <1>4, <1>5, <1>6 DEF a, b

\* Only its lower half is kept.
LEMMA LowerProductExact ==
  ASSUME NEW w \in Widths, NEW d \in WordOf(w), NEW s \in WordOf(w), NEW f
  PROVE  LET p == ImulDirect(w, d, s)
             g == MulFlags(p.lo = 0 /\ p.hi = 0, p.lo, w, Overflow(f.fl, p.wide))
         IN  p.lo \in WordOf(w) /\ LowerProductIs(w, d, s, p.lo, g)
<1> DEFINE fl == f.fl
           a == Imul(w, d, s, fl)
           p == ImulDirect(w, d, s)
           g == MulFlags(p.lo = 0 /\ p.hi = 0, p.lo, w, Overflow(fl, p.wide))
<1>1. w \in Nat \ {0}
  BY WidthsAre
<1>2. a.lo \in WordOf(w) /\ ("CF" \in a.fl <=> Signed(d, w) * Signed(s, w) \notin SignedRange(w))
  <2> HIDE DEF fl
  <2>1. QED
    BY <1>1, ImulIsExact
<1>3. a.lo = p.lo /\ a.fl = g
  BY DEF Imul
<1>4. p.lo = Trunc(Signed(d, w) * Signed(s, w), w)
  BY DEF ImulDirect
<1> HIDE DEF a, p, g
<1>5. LowerProductIs(w, d, s, p.lo, g)
  BY <1>2, <1>3, <1>4 DEF LowerProductIs
<1>6. QED
  BY <1>2, <1>3, <1>5 DEF p, g

\* The sign reaches as far as the wider word does.
LEMMA SignReaches ==
  ASSUME NEW from \in Widths, NEW w \in Widths, from < w, NEW d \in WordOf(from)
  PROVE  SignExtend(d, from, w) \in WordOf(w) /\ Signed(SignExtend(d, from, w), w) = Signed(d, from)
<1>1. from \in Nat \ {0} /\ w \in Nat \ {0}
  BY WidthsAre
<1> DEFINE x == Signed(d, from)
<1>2. x \in SignedRange(from)
  BY <1>1, TopBit
<1>3. SignedRange(from) \subseteq SignedRange(w)
  <2> DEFINE a == from - 1
             b == w - from
             A == 2 ^ a
             B == 2 ^ b
  <2>1. a \in Nat /\ b \in Nat /\ a + b = w - 1
    BY <1>1
  <2>2. 2 ^ (w - 1) = A * B
    <3> HIDE DEF a, b
    <3>1. 2 ^ (a + b) = 2 ^ a * 2 ^ b
      BY <2>1, PowerSum
    <3>2. QED
      BY <2>1, <3>1
  <2>3. A \in Nat \ {0} /\ B \in Nat \ {0}
    <3> HIDE DEF a, b
    <3>1. QED
      BY <2>1, PowerFacts
  <2> HIDE DEF A, B
  <2>4. A <= A * B /\ A * B \in Nat
    BY <2>3
  <2>5. SignedRange(from) = -A..A - 1 /\ SignedRange(w) = -(A * B)..A * B - 1
    BY <2>2 DEF SignedRange, A
  <2> DEFINE C == A * B
  <2> HIDE DEF C
  <2>6. QED
    BY <2>3, <2>4, <2>5 DEF C
<1> HIDE DEF x
<1>4. Trunc(x, w) \in WordOf(w) /\ Signed(Trunc(x, w), w) = x
  BY <1>1, <1>2, <1>3, SignedTrunc
<1>5. QED
  BY <1>4 DEF SignExtend, x

\* A shorter word is a word.
LEMMA ShorterWord ==
  ASSUME NEW from \in Widths, NEW w \in Widths, from <= w
  PROVE  WordOf(from) \subseteq WordOf(w)
<1>1. from \in Nat /\ w \in Nat /\ w - from \in Nat
  BY WidthsAre
<1> DEFINE b == w - from
           A == 2 ^ from
           B == 2 ^ b
<1>2. 2 ^ w = A * B
  <2>1. 2 ^ (from + b) = 2 ^ from * 2 ^ b
    <3> HIDE DEF b
    <3>1. QED
      BY <1>1, PowerSum DEF b
  <2>2. from + b = w
    BY <1>1
  <2>3. QED
    BY <2>1, <2>2
<1>3. A \in Nat \ {0} /\ B \in Nat \ {0}
  <2> HIDE DEF b
  <2>1. QED
    BY <1>1, PowerFacts DEF b
<1> HIDE DEF A, B
<1>4. A <= A * B /\ A * B \in Nat
  BY <1>3
<1> DEFINE C == A * B
<1> HIDE DEF C
<1>5. WordOf(from) = 0..A - 1 /\ WordOf(w) = 0..C - 1
  BY <1>2 DEF WordOf, A, C
<1>6. QED
  BY <1>3, <1>4, <1>5 DEF C

\* An immediate is a word of the width that it is used in.
LEMMA ImmWord ==
  ASSUME NEW i, i.imm \in WordOf(LongBits), NEW w \in Widths
  PROVE  Imm(i, w) \in WordOf(w)
<1> DEFINE x == i.imm
<1>0. ByteBits \in Widths /\ LongBits \in Widths
  BY DEF Widths
<1>1. x \in Int /\ w \in Nat /\ ByteBits \in Nat
  BY <1>0, WidthsAre
<1> DEFINE b == Trunc(x, ByteBits)
<1> HIDE DEF x
<1>2. Trunc(x, w) \in WordOf(w) /\ b \in WordOf(ByteBits)
  BY <1>1, TruncFacts
<1> HIDE DEF b
<1>3. CASE w # ByteBits
  <2>1. ByteBits < w
    BY <1>3, WidthFacts DEF Widths
  <2>2. SignExtend(b, ByteBits, w) \in WordOf(w)
    BY <1>0, <1>2, <2>1, SignReaches
  <2>3. QED
    BY <1>2, <2>2 DEF Imm, x, b
<1>4. CASE w = ByteBits
  BY <1>2, <1>4 DEF Imm, x
<1>5. QED
  BY <1>3, <1>4

\* A bit number is a word.
LEMMA BitNumbers ==
  ASSUME NEW w \in Widths
  PROVE  0..w \subseteq WordOf(w)
<1>1. ByteBits \in Widths /\ ByteBits <= w /\ w \in Nat /\ w <= 4 * ByteBits
  BY WordsAssumption DEF Widths, WordBits, LongBits
<1>2. WordOf(ByteBits) \subseteq WordOf(w)
  BY <1>1, ShorterWord
<1>3. 4 * ByteBits < 2 ^ ByteBits /\ 2 ^ ByteBits \in Nat
  <2>1. ByteBits = 6 \/ ByteBits = 8
    BY WordsAssumption
  <2>2. Nibble = IF ByteBits = 6 THEN 3 ELSE 4
    BY <2>1 DEF Nibble
  <2>3. 2 ^ 3 = 8 /\ 2 ^ 4 = 16
    <3>1. 2 ^ (0 + 1) = 2 * 2 ^ 0 /\ 2 ^ (1 + 1) = 2 * 2 ^ 1 /\ 2 ^ (2 + 1) = 2 * 2 ^ 2
          /\ 2 ^ (3 + 1) = 2 * 2 ^ 3 /\ 2 ^ 0 = 1
      BY PowerFacts
    <3>2. 0 + 1 = 1 /\ 1 + 1 = 2 /\ 2 + 1 = 3 /\ 3 + 1 = 4
      OBVIOUS
    <3>3. QED
      BY <3>1, <3>2
  <2>4. Halved = IF ByteBits = 6 THEN 8 ELSE 16
    BY <2>1, <2>2, <2>3 DEF Halved
  <2>5. QED
    BY <2>1, <2>4, NibbleValues
<1>4. 0..w \subseteq WordOf(ByteBits)
  BY <1>1, <1>3 DEF WordOf
<1>5. QED
  BY <1>2, <1>4

\* The scans for the first and the last one.
LEMMA FirstOne ==
  ASSUME NEW w \in Widths, NEW d \in WordOf(w)
  PROVE  LET ks == {k \in 0..w - 1 : Bit(d, k)}
             v  == IF ks = {} THEN w ELSE CHOOSE k \in ks : \A j \in ks : k <= j
         IN  v \in WordOf(w) /\ (d # 0 => Bit(d, v) /\ \A k \in 0..v - 1 : ~Bit(d, k))
<1> DEFINE ks == {k \in 0..w - 1 : Bit(d, k)}
           v  == IF ks = {} THEN w ELSE CHOOSE k \in ks : \A j \in ks : k <= j
<1>1. w \in Nat
  BY WidthsAre
<1>2. d # 0 => ks # {}
  <2>1. d = 0 <=> \A k \in 0..w - 1 : ~Bit(d, k)
    BY <1>1, NoOnes
  <2>2. QED
    BY <2>1
<1>3. CASE ks # {}
  <2>1. ks \subseteq Nat
    BY <1>1
  <2> HIDE DEF ks
  <2>2. \E k \in ks : \A j \in ks : k <= j
    BY <1>3, <2>1, LeastOf
  <2>3. v \in ks /\ \A j \in ks : v <= j
    BY <1>3, <2>2
  <2> HIDE DEF v
  <2>4. v \in 0..w - 1 /\ Bit(d, v)
    BY <2>3 DEF ks
  <2>5. \A k \in 0..v - 1 : ~Bit(d, k)
    <3> SUFFICES ASSUME NEW k \in 0..v - 1, Bit(d, k) PROVE FALSE
      OBVIOUS
    <3>1. k \in 0..w - 1 /\ ~(v <= k)
      BY <1>1, <2>4
    <3>2. QED
      BY <2>3, <3>1 DEF ks
  <2>6. v \in 0..w
    BY <1>1, <2>4
  <2>7. v \in WordOf(w)
    BY <2>6, BitNumbers
  <2>8. QED
    BY <2>4, <2>5, <2>7 DEF v, ks
<1>4. CASE ks = {}
  <2>1. w \in 0..w
    BY <1>1
  <2>2. w \in WordOf(w)
    BY <2>1, BitNumbers
  <2>3. QED
    BY <1>2, <1>4, <2>2
<1>5. QED
  BY <1>3, <1>4

LEMMA LastOne ==
  ASSUME NEW w \in Widths, NEW d \in WordOf(w)
  PROVE  LET ks == {k \in 0..w - 1 : Bit(d, k)}
             v  == IF ks = {} THEN 0 ELSE CHOOSE k \in ks : \A j \in ks : k >= j
         IN  v \in WordOf(w) /\ (d # 0 => Bit(d, v) /\ Shr(d, v + 1) = 0)
<1> DEFINE ks == {k \in 0..w - 1 : Bit(d, k)}
           v  == IF ks = {} THEN 0 ELSE CHOOSE k \in ks : \A j \in ks : k >= j
<1>1. w \in Nat
  BY WidthsAre
<1>2. CASE d # 0
  <2>1. PICK t \in 0..w - 1 : /\ Bit(d, t) /\ Shr(d, t + 1) = 0
                              /\ \A j \in Nat : j > t => ~Bit(d, j)
    BY <1>1, <1>2, TopOne
  <2>2. t \in ks
    BY <2>1
  <2>3. \A k \in ks : k \in 0..w - 1 /\ k <= t
    BY <1>1, <2>1
  <2> HIDE DEF ks
  <2>4. t \in ks /\ \A j \in ks : t >= j
    BY <1>1, <2>2, <2>3
  <2>5. v \in ks /\ \A j \in ks : v >= j
    BY <2>4
  <2> HIDE DEF v
  <2>6. v = t
    BY <1>1, <2>3, <2>4, <2>5
  <2>7. v \in 0..w
    BY <1>1, <2>6
  <2>8. v \in WordOf(w)
    BY <2>7, BitNumbers
  <2>9. QED
    BY <2>1, <2>6, <2>8 DEF v, ks
<1>3. CASE d = 0
  <2>1. d = 0 <=> \A k \in 0..w - 1 : ~Bit(d, k)
    BY <1>1, NoOnes
  <2>2. v = 0
    BY <1>3, <2>1
  <2>3. 0 \in 0..w
    BY <1>1
  <2>4. 0 \in WordOf(w)
    BY <2>3, BitNumbers
  <2>5. QED
    BY <1>3, <2>2, <2>4
<1>4. QED
  BY <1>2, <1>3

\* The word of signs.
LEMMA SignsExact ==
  ASSUME NEW w \in Widths, NEW d \in WordOf(w)
  PROVE  LET v == IF Bit(d, w - 1) THEN Ones(w) ELSE 0
         IN  v \in WordOf(w) /\ Signed(v, w) * 2 ^ w + d = Signed(d, w)
<1> DEFINE M == 2 ^ (w - 1)
           N == 2 ^ w
           ones == Ones(w)
           zero == 0
<1>1. w \in Nat \ {0}
  BY WidthsAre
<1>2. M \in Nat \ {0} /\ N = 2 * M /\ (Bit(d, w - 1) <=> d >= M) /\ Signed(d, w) = IF d >= M THEN d - N ELSE d
  BY <1>1, TopBit
<1> HIDE DEF M, N, ones, zero
<1>3. ones = N - 1 /\ zero = 0 /\ WordOf(w) = 0..N - 1
  BY DEF Ones, WordOf, ones, N, zero
<1>4. ones \in WordOf(w) /\ zero \in WordOf(w)
  BY <1>2, <1>3
<1>5. Signed(ones, w) = -1 /\ Signed(zero, w) = 0
  <2>1. /\ Signed(ones, w) = IF ones >= M THEN ones - N ELSE ones
        /\ Signed(zero, w) = IF zero >= M THEN zero - N ELSE zero
    BY <1>1, <1>4, TopBit DEF M, N
  <2>2. QED
    BY <1>2, <1>3, <2>1
<1>6. CASE Bit(d, w - 1)
  <2>1. d \in Int /\ N \in Int /\ Signed(d, w) = d - N
    BY <1>2, <1>3, <1>6
  <2>2. -1 * N + d = d - N
    BY <2>1
  <2>3. QED
    BY <1>4, <1>5, <1>6, <2>1, <2>2 DEF ones, N
<1>7. CASE ~Bit(d, w - 1)
  <2>1. d \in Int /\ N \in Int /\ Signed(d, w) = d
    BY <1>2, <1>3, <1>7
  <2>2. 0 * N + d = d
    BY <2>1
  <2>3. QED
    BY <1>4, <1>5, <1>7, <2>1, <2>2 DEF zero, N
<1>8. QED
  BY <1>6, <1>7

\* The dividend in the accumulator is hi:lo.
Dividend(p, hi, lo) == Upper(p.machine, p.w) = hi /\ Get(p.machine, p.w, EAX) = lo

\* Either there is a quotient or there is a divide error.
LEMMA DivExact ==
  ASSUME NEW p, p.w \in Widths, NEW hi \in WordOf(p.w), NEW lo \in WordOf(p.w), p.s \in WordOf(p.w),
         Dividend(p, hi, lo), NEW fl
  PROVE  LET a == Div(p.w, hi, lo, p.s, fl)
         IN  /\ a.fl = fl /\ ~Least(FALSE, p)
             /\ \/ /\ a.trap = "none" /\ a.hi \in WordOf(p.w) /\ a.lo \in WordOf(p.w)
                   /\ Divides(FALSE, p, a.hi, a.lo)
                \/ a.trap = "DIV0" /\ NoQuotient(FALSE, p)
<1> DEFINE w == p.w
           s == p.s
           a == Div(w, hi, lo, s, fl)
           N == 2 ^ w
           dvd == hi * N + lo
<1>1. w \in Nat /\ w \in Nat \ {0} /\ hi \in WordOf(w) /\ lo \in WordOf(w) /\ s \in WordOf(w)
  BY WidthsAre
<1>2. N \in Nat \ {0} /\ WordOf(w) = 0..N - 1
  <2> HIDE DEF w
  <2>1. QED
    BY <1>1, PowerFacts DEF WordOf
<1>3. DividendOf(FALSE, p) = dvd /\ Value(FALSE, s, w) = s
  BY DEF DividendOf, Dividend, Value
<1>4. /\ a.fl = fl
      /\ \/ /\ a.trap = "none" /\ s # 0 /\ a.lo \in WordOf(w) /\ a.hi \in 0..s - 1
            /\ a.lo * s + a.hi = dvd
         \/ /\ a.trap = "DIV0"
            /\ \A q \in WordOf(w) : s # 0 => dvd - q * s \notin 0..s - 1
  <2> HIDE DEF w, s
  <2>1. QED
    BY <1>1, DivIsExact
<1>5. dvd \in Int /\ s \in Nat /\ s < N /\ dvd >= 0
  <2>1. hi * N \in Int /\ hi * N >= 0 /\ lo \in Nat
    <3> DEFINE x == hi
    <3>1. x \in Nat
      BY <1>1, <1>2
    <3> HIDE DEF x, N
    <3>2. x * N \in Int /\ x * N >= 0
      BY <1>2, <3>1
    <3>3. QED
      BY <1>1, <1>2, <3>2 DEF x
  <2>2. QED
    BY <1>1, <1>2, <2>1, SMTT(60)
<1>6. ~Least(FALSE, p)
  BY DEF Least
<1> HIDE DEF a, dvd, N
<1>7. CASE a.trap = "none"
  <2>1. s # 0 /\ a.lo \in WordOf(w) /\ a.hi \in 0..s - 1 /\ a.lo * s + a.hi = dvd
    BY <1>4, <1>7
  <2>2. a.hi \in WordOf(w) /\ Magnitude(a.hi) < Magnitude(s) /\ ~(a.hi < 0) /\ ~(dvd < 0)
    BY <1>2, <1>5, <2>1 DEF Magnitude
  <2>3. Divides(FALSE, p, a.hi, a.lo)
    <3>1. Value(FALSE, a.hi, w) = a.hi /\ Value(FALSE, a.lo, w) = a.lo
      BY DEF Value
    <3>2. (a.hi < 0) = (dvd < 0)
      BY <2>2
    <3>3. QED
      BY <1>3, <2>1, <2>2, <3>1, <3>2, Zenon DEF Divides
  <2>4. QED
    BY <1>4, <1>6, <1>7, <2>1, <2>2, <2>3 DEF a
<1>8. CASE a.trap = "DIV0"
  <2>1. \A q \in WordOf(w) : s # 0 => dvd - q * s \notin 0..s - 1
    BY <1>4, <1>8
  <2>2. ASSUME s # 0, NEW x \in WordOf(w) PROVE Magnitude(dvd - x * s) >= Magnitude(s)
    <3> DEFINE e == dvd - x * s
               y == x - 1
               e2 == dvd - y * s
    <3>1. x \in Nat /\ x < N
      BY <1>2
    <3>2. e \in Int /\ e \notin 0..s - 1
      <4>1. e \notin 0..s - 1
        BY <2>1, <2>2
      <4>2. QED
        BY <1>5, <3>1, <4>1
    <3>3. CASE e >= 0
      <4> HIDE DEF e
      <4>1. e >= s /\ Magnitude(e) = e /\ Magnitude(s) = s
        BY <1>5, <3>2, <3>3 DEF Magnitude
      <4>2. QED
        BY <4>1 DEF e
    <3>4. CASE e < 0
      <4>1. x # 0
        <5>1. ASSUME x = 0 PROVE FALSE
          <6>1. x * s = 0
            BY <1>5, <5>1
          <6>2. QED
            BY <1>5, <3>4, <6>1
        <5>2. QED
          BY <5>1
      <4>2. y \in WordOf(w)
        BY <1>2, <3>1, <4>1
      <4>3. e2 = e + s
        <5>1. (x - 1) * s = x * s - s /\ x * s \in Int
          BY <1>5, <3>1
        <5>2. QED
          BY <1>5, <5>1
      <4>4. e2 \notin 0..s - 1
        <5> HIDE DEF y
        <5>1. QED
          BY <2>1, <2>2, <4>2
      <4> HIDE DEF e, e2
      <4>5. Magnitude(e) = -e /\ Magnitude(s) = s /\ -e >= s
        BY <1>5, <3>2, <3>4, <4>3, <4>4 DEF Magnitude
      <4>6. QED
        BY <4>5 DEF e
    <3>5. QED
      BY <3>2, <3>3, <3>4
  <2>3. NoQuotient(FALSE, p)
    BY <1>3, <2>2 DEF NoQuotient
  <2>4. QED
    BY <1>4, <1>6, <1>8, <2>3 DEF a
<1>9. QED
  BY <1>4, <1>7, <1>8

LEMMA IdivExact ==
  ASSUME NEW p, p.w \in Widths, NEW hi \in WordOf(p.w), NEW lo \in WordOf(p.w), p.s \in WordOf(p.w),
         Dividend(p, hi, lo), NEW fl
  PROVE  LET a == Idiv(p.w, hi, lo, p.s, fl)
         IN  /\ a.fl = fl
             /\ \/ /\ a.trap = "none" /\ a.hi \in WordOf(p.w) /\ a.lo \in WordOf(p.w)
                   /\ ~Least(TRUE, p) /\ Divides(TRUE, p, a.hi, a.lo)
                \/ a.trap = "DIV0" /\ ~Least(TRUE, p) /\ NoQuotient(TRUE, p)
                \/ a.trap = "UNDEFINED" /\ Least(TRUE, p)
<1> DEFINE w == p.w
           s == p.s
           a == Idiv(w, hi, lo, s, fl)
           dvd == Signed(hi, w) * 2 ^ w + lo
           dsr == Signed(s, w)
           rem == Signed(a.hi, w)
<1>1. w \in Nat \ {0} /\ hi \in WordOf(w) /\ lo \in WordOf(w) /\ s \in WordOf(w)
  BY WidthsAre
<1>2. DividendOf(TRUE, p) = dvd /\ (\A x : Value(TRUE, x, w) = Signed(x, w))
  BY DEF DividendOf, Dividend, Value
<1>3. Least(TRUE, p) <=> w # ByteBits /\ Signed(hi, w) = -(2 ^ (w - 1)) /\ lo = 0 /\ dsr = -1
  BY DEF Least, Dividend
<1>4. /\ a.fl = fl
      /\ \/ /\ a.trap = "none" /\ s # 0
            /\ a.lo \in WordOf(w) /\ a.hi \in WordOf(w)
            /\ Signed(a.lo, w) * dsr + rem = dvd
            /\ Magnitude(rem) < Magnitude(dsr)
            /\ rem # 0 => (rem < 0) = (dvd < 0)
         \/ /\ a.trap = "DIV0" /\ a.hi = hi /\ a.lo = lo
            /\ \A q \in SignedRange(w) :
                 s # 0 => Magnitude(dvd - q * dsr) >= Magnitude(dsr)
         \/ /\ a.trap = "UNDEFINED" /\ a.hi = hi /\ a.lo = lo
            /\ w # ByteBits /\ dsr = -1
            /\ Signed(hi, w) = -(2 ^ (w - 1)) /\ lo = 0
  <2> HIDE DEF w, s
  <2>1. QED
    BY <1>1, IdivIsExact
<1>5. s # 0 <=> dsr # 0
  <2> DEFINE M == 2 ^ (w - 1)
             N == 2 ^ w
  <2> HIDE DEF w, s
  <2>1. /\ M \in Nat \ {0} /\ N = 2 * M /\ dsr = (IF s >= M THEN s - N ELSE s)
        /\ WordOf(w) = 0..N - 1
    BY <1>1, TopBit DEF WordOf
  <2> HIDE DEF M, N, dsr
  <2>2. QED
    BY <1>1, <2>1
<1>6. Least(TRUE, p) => a.trap = "UNDEFINED"
  <2> SUFFICES ASSUME Least(TRUE, p) PROVE a.trap = "UNDEFINED"
    OBVIOUS
  <2> DEFINE M == 2 ^ (w - 1)
             N == 2 ^ w
  <2>1. w # ByteBits /\ Signed(hi, w) = -M /\ lo = 0 /\ dsr = -1
    BY <1>3
  <2>2. hi = M
    <3> HIDE DEF w, s
    <3>1. /\ M \in Nat \ {0} /\ N = 2 * M /\ Signed(hi, w) = (IF hi >= M THEN hi - N ELSE hi)
          /\ WordOf(w) = 0..N - 1
      BY <1>1, TopBit DEF WordOf
    <3> HIDE DEF M, N
    <3>2. QED
      BY <1>1, <2>1, <3>1
  <2>3. s # 0
    BY <1>5, <2>1
  <2> HIDE DEF w, s
  <2>4. QED
    BY <2>1, <2>2, <2>3 DEF Idiv, DivideError
<1> HIDE DEF a, dvd, dsr, rem
<1>7. CASE a.trap = "none"
  <2>1. ~Least(TRUE, p)
    BY <1>6, <1>7
  <2>2. Divides(TRUE, p, a.hi, a.lo)
    <3>1. /\ dsr # 0 /\ Signed(a.lo, w) * dsr + rem = dvd
          /\ Magnitude(rem) < Magnitude(dsr)
          /\ rem # 0 => (rem < 0) = (dvd < 0)
      BY <1>4, <1>5, <1>7
    <3>2. /\ Value(TRUE, p.s, p.w) = dsr /\ Value(TRUE, a.hi, p.w) = rem
          /\ Value(TRUE, a.lo, p.w) = Signed(a.lo, w) /\ DividendOf(TRUE, p) = dvd
      BY <1>2 DEF dsr, rem
    <3>3. QED
      BY <3>1, <3>2, Zenon DEF Divides
  <2>3. QED
    BY <1>4, <1>7, <2>1, <2>2 DEF a
<1>8. CASE a.trap = "DIV0"
  <2>1. ~Least(TRUE, p)
    BY <1>6, <1>8
  <2>2. \A q \in SignedRange(w) : s # 0 => Magnitude(dvd - q * dsr) >= Magnitude(dsr)
    BY <1>4, <1>8
  <2>3. NoQuotient(TRUE, p)
    BY <1>2, <1>5, <2>2, Zenon DEF NoQuotient, dvd, dsr
  <2>4. QED
    BY <1>4, <1>8, <2>1, <2>3 DEF a
<1>9. CASE a.trap = "UNDEFINED"
  BY <1>3, <1>4, <1>9 DEF a, dsr
<1>10. QED
  BY <1>4, <1>7, <1>8, <1>9

-----------------------------------------------------------------------------
(* Arithmetic: one instruction.                                            *)

\* A byte put into AH leaves AL alone.
LEMMA PutAH ==
  ASSUME NEW n, DOMAIN n = Fields, n.r \in [0..7 -> Int], NEW v \in WordOf(ByteBits)
  PROVE  /\ Keeps(Put(n, ByteBits, 4, v), n, {"r", "fl"})
         /\ Put(n, ByteBits, 4, v).fl = n.fl /\ Put(n, ByteBits, 4, v).r \in [0..7 -> Int]
         /\ Get(Put(n, ByteBits, 4, v), ByteBits, 4) = v
         /\ Get(Put(n, ByteBits, 4, v), ByteBits, EAX) = Get(n, ByteBits, EAX)
<1> DEFINE x == n.r[0]
           h == Get(n, ByteBits, 4)
           N == 2 ^ ByteBits
           y == Trunc(x, ByteBits)
           e == Put(n, ByteBits, 4, v)
<1>1. x \in Int /\ v \in Int /\ N \in Nat \ {0} /\ ByteBits \in Nat /\ ByteBits \in Widths
      /\ WordOf(ByteBits) \subseteq Int
  BY WidthFacts, PowerFacts DEF WordOf, Widths
<1>2. h \in WordOf(ByteBits) /\ h \in Int
  <2>1. h \in WordOf(ByteBits)
    BY <1>1, GetWord
  <2>2. QED
    BY <1>1, <2>1
<1>3. e = [n EXCEPT !.r[0] = x - h * N + v * N]
  BY DEF Put, High8
<1> DEFINE z == x - h * N + v * N
<1>4. z \in Int
  BY <1>1, <1>2
<1>5. /\ Keeps(e, n, {"r", "fl"}) /\ e.fl = n.fl /\ e.r = [n.r EXCEPT ![0] = z]
  <2>1. {"r", "fl"} \subseteq Fields
    BY DEF Fields
  <2> HIDE DEF z
  <2>2. QED
    BY <1>3, <2>1 DEF Keeps, z
<1>6. e.r \in [0..7 -> Int] /\ e.r[0] = z
  <2> HIDE DEF e, z
  <2>1. QED
    BY <1>4, <1>5
<1>7. PICK q \in Int : x = q * N + y
  BY <1>1, TruncFacts
<1>8. y \in WordOf(ByteBits) /\ y \in Int
  <2> HIDE DEF x
  <2>1. y \in WordOf(ByteBits)
    BY <1>1, TruncFacts
  <2>2. QED
    BY <1>1, <2>1
<1> HIDE DEF x, e, y
<1>9. h = Trunc(q, ByteBits)
  <2>1. x = Join(q, y, ByteBits)
    BY <1>7 DEF Join, N
  <2>2. High(Trunc(Join(q, y, ByteBits), WordBits), ByteBits) = Trunc(q, ByteBits)
    BY <1>8, WordBytes
  <2>3. h = High(Trunc(x, WordBits), ByteBits)
    BY DEF Get, High8, x
  <2>4. QED
    BY <2>1, <2>2, <2>3
<1> HIDE DEF h, N, z
<1> DEFINE q2 == q - h + v
<1>10. q2 \in Int /\ z = q2 * N + y
  BY <1>1, <1>2, <1>7, <1>8 DEF z
<1>11. Trunc(q2, ByteBits) = v
  <2>1. PICK t \in Int : q = t * N + h
    BY <1>1, <1>9, TruncFacts, ZenonT(60) DEF N
  <2>2. q2 = t * N + v
    <3> DEFINE u == t * N
    <3>1. u \in Int /\ q = u + h
      BY <1>1, <2>1
    <3> HIDE DEF u
    <3>2. q2 = u + v
      BY <1>1, <1>2, <3>1
    <3>3. QED
      BY <3>2 DEF u
  <2>3. QED
    BY <1>1, <2>2, TruncUnique DEF N
<1> HIDE DEF q2
<1>12. /\ High(Trunc(Join(q2, y, ByteBits), WordBits), ByteBits) = Trunc(q2, ByteBits)
       /\ Trunc(q2 * N + y, ByteBits) = y
  BY <1>1, <1>8, <1>10, WordBytes, TruncUnique DEF N
<1>13. Get(e, ByteBits, 4) = v /\ Get(e, ByteBits, EAX) = y /\ Get(n, ByteBits, EAX) = y
  <2>1. Get(e, ByteBits, 4) = High(Trunc(z, WordBits), ByteBits) /\ Get(e, ByteBits, EAX) = Trunc(z, ByteBits)
    BY <1>6 DEF Get, High8, EAX
  <2>2. Get(n, ByteBits, EAX) = y
    BY DEF Get, High8, EAX, y, x
  <2>3. Join(q2, y, ByteBits) = z
    BY <1>10 DEF Join, N
  <2>4. QED
    BY <1>10, <1>11, <1>12, <2>1, <2>2, <2>3
<1>14. QED
  BY <1>5, <1>6, <1>13 DEF e

\* The accumulator in two registers: AH and AL, or EDX and EAX.
LEMMA PairStored ==
  ASSUME NEW f, DOMAIN f = Fields, f.r \in [0..7 -> Int], NEW w \in Widths, NEW hi \in WordOf(w),
         NEW lo \in WordOf(w)
  PROVE  LET e == PutPair(f, w, hi, lo)
         IN  /\ Keeps(e, f, {"r", "fl"}) /\ e.fl = f.fl /\ e.r \in [0..7 -> Int]
             /\ Upper(e, w) = hi /\ Get(e, w, EAX) = lo
<1> DEFINE n == Put(f, w, EAX, lo)
           e == PutPair(f, w, hi, lo)
<1>1. EAX \in 0..7 /\ EDX \in 0..7 /\ EAX # EDX /\ ~High8(w, EAX) /\ ~High8(w, EDX)
  BY DEF EAX, EDX, High8
<1>2. Keeps(n, f, {"r", "fl"}) /\ n.fl = f.fl /\ n.r \in [0..7 -> Int] /\ Get(n, w, EAX) = lo
  BY <1>1, PutStored DEF StoredIn
<1>3. DOMAIN n = Fields
  BY <1>2 DEF Keeps
<1> HIDE DEF n
<1>4. CASE w = ByteBits
  <2> DEFINE h == Put(n, ByteBits, 4, hi)
  <2>1. e = h
    BY <1>4 DEF PutPair, n
  <2>2. /\ Keeps(h, n, {"r", "fl"}) /\ h.fl = n.fl /\ h.r \in [0..7 -> Int]
        /\ Get(h, ByteBits, 4) = hi /\ Get(h, ByteBits, EAX) = Get(n, ByteBits, EAX)
    BY <1>2, <1>3, <1>4, PutAH
  <2> HIDE DEF h, e
  <2>3. Keeps(h, f, {"r", "fl"})
    BY <1>2, <2>2 DEF Keeps
  <2>4. QED
    BY <1>2, <1>4, <2>1, <2>2, <2>3 DEF Upper, e
<1>5. CASE w # ByteBits
  <2> DEFINE h == Put(n, w, EDX, hi)
  <2>1. e = h
    BY <1>5 DEF PutPair, n
  <2>2. /\ Keeps(h, n, {"r", "fl"}) /\ h.fl = n.fl /\ h.r \in [0..7 -> Int]
        /\ Get(h, w, EDX) = hi /\ \A j \in 0..7 : j # EDX => h.r[j] = n.r[j]
    BY <1>1, <1>2, <1>3, PutStored DEF StoredIn
  <2> HIDE DEF h, e
  <2>3. Keeps(h, f, {"r", "fl"})
    BY <1>2, <2>2 DEF Keeps
  <2>4. Get(h, w, EAX) = lo
    BY <1>1, <1>2, <2>2 DEF Get
  <2>5. QED
    BY <1>2, <1>5, <2>1, <2>2, <2>3, <2>4 DEF Upper, e
<1>6. QED
  BY <1>4, <1>5

\* What is common to all of them: p is the program, f the machine that
\* executes its instruction.
Executing(p, f) == p \in Programs /\ p.kind = "arith" /\ f = Fetched(p.machine, p.code[1])

LEMMA ArithFacts ==
  ASSUME NEW p, NEW f, Executing(p, f)
  PROVE  LET i == p.code[1]
             w == p.w
         IN  /\ ArithTask(p) /\ p.kind \in Checked /\ Len(p.code) = 1 /\ 1 \in 1..Len(p.code)
             /\ i.pfx = {} /\ At(p, p.machine, 1) /\ p.machine.r \in [0..7 -> Int]
             /\ w \in Widths /\ Width(f, i) = w /\ (~i.byte => DataWidth(f) = w /\ w # ByteBits)
             /\ (i.byte => w = ByteBits)
             /\ f.r = p.machine.r /\ f.fl = p.machine.fl
             /\ (\A v, k : Get(f, v, k) = Get(p.machine, v, k))
             /\ (\A v \in Widths, k \in 0..7 : Get(p.machine, v, k) \in WordOf(v))
             /\ (i.imm \in WordOf(LongBits) => Imm(i, w) \in WordOf(w))
<1> DEFINE i == p.code[1]
           w == p.w
<1>1. /\ p \in Programs /\ p.kind = "arith" /\ f = Fetched(p.machine, i)
  BY DEF Executing
<1>2. ArithTask(p) /\ p.kind \in Checked
  BY <1>1, TasksAssumption DEF Checked
<1>3. Len(p.code) = 1 /\ 1 \in 1..Len(p.code) /\ i.pfx = {} /\ w = WidthOf(p, i)
  BY <1>2 DEF ArithTask
<1>4. At(p, p.machine, 1) /\ p.machine.r \in [0..7 -> Int]
  BY <1>1, <1>2, Layout DEF At, Calm
<1>5. f.r = p.machine.r /\ f.fl = p.machine.fl /\ f.mode = ModeIn(p.machine.seg)
  BY <1>1, <1>3, <1>4, FetchedFacts DEF At
<1>6. Width(f, i) = w /\ w \in Widths /\ (~i.byte => DataWidth(f) = w)
  BY <1>3, <1>5, WidthOfTask
<1>7. (~i.byte => w # ByteBits) /\ (i.byte => w = ByteBits)
  <2>1. ~i.byte => w \in {WordBits, LongBits}
    BY <1>5, <1>6, WidthOfTask
  <2>2. i.byte => w = ByteBits
    BY <1>3 DEF WidthOf
  <2>3. QED
    BY <2>1, <2>2, WidthFacts
<1>8. \A v, k : Get(f, v, k) = Get(p.machine, v, k)
  BY <1>5 DEF Get
<1>9. \A v \in Widths, k \in 0..7 : Get(p.machine, v, k) \in WordOf(v)
  BY <1>4, GetWord
<1>10. i.imm \in WordOf(LongBits) => Imm(i, w) \in WordOf(w)
  <2> HIDE DEF i, w
  <2>1. QED
    BY <1>6, ImmWord
<1>11. QED
  BY <1>2, <1>3, <1>4, <1>5, <1>6, <1>7, <1>8, <1>9, <1>10

\* What the handlers leave: a result in a register, with flags or without,
\* flags alone, or two registers.
LEMMA ArithStores ==
  ASSUME NEW p, NEW f, Executing(p, f), NEW j \in {EAX, EDX}, NEW v \in WordOf(p.w), NEW g
  PROVE  /\ LET e == Put(With(f, g), p.w, j, v)
            IN  /\ Goes(p, 1, e) /\ Get(e, p.w, j) = v /\ e.fl = g
                /\ \A k \in {EAX, EDX} : k # j => Get(e, p.w, k) = Get(p.machine, p.w, k)
         /\ LET e == Put(f, p.w, j, v)
            IN  /\ Goes(p, 1, e) /\ Get(e, p.w, j) = v /\ e.fl = p.machine.fl
                /\ \A k \in {EAX, EDX} : k # j => Get(e, p.w, k) = Get(p.machine, p.w, k)
<1> DEFINE one == 1
           n == p.machine
           w == p.w
           x == Put(With(f, g), w, j, v)
           y == Put(f, w, j, v)
<1>1. /\ p \in Programs /\ p.kind \in Checked /\ one \in 1..Len(p.code) /\ At(p, n, one)
      /\ p.code[one].pfx = {} /\ w \in Widths /\ v \in WordOf(w) /\ f = Fetched(n, p.code[one])
  BY ArithFacts DEF Executing
<1>2. j \in 0..7 /\ ~High8(w, j) /\ \A k \in {EAX, EDX} : k \in 0..7 /\ ~High8(w, k)
  BY DEF EAX, EDX, High8
<1> HIDE DEF one, n, w
<1>3. Goes(p, one, x) /\ StoredIn(x, n, w, j, v, g)
  BY <1>1, <1>2, Stores
<1>4. Goes(p, one, y) /\ StoredIn(y, n, w, j, v, n.fl)
  BY <1>1, <1>2, Puts
<1> HIDE DEF x, y
<1>5. ASSUME NEW e, NEW h, StoredIn(e, n, w, j, v, h)
      PROVE  /\ Get(e, w, j) = v /\ e.fl = h
             /\ \A k \in {EAX, EDX} : k # j => Get(e, w, k) = Get(n, w, k)
  BY <1>2, <1>5 DEF StoredIn, Get
<1>6. /\ Get(x, w, j) = v /\ x.fl = g
      /\ \A k \in {EAX, EDX} : k # j => Get(x, w, k) = Get(n, w, k)
  BY <1>3, <1>5
<1>7. /\ Get(y, w, j) = v /\ y.fl = n.fl
      /\ \A k \in {EAX, EDX} : k # j => Get(y, w, k) = Get(n, w, k)
  BY <1>4, <1>5
<1>8. QED
  BY <1>3, <1>4, <1>6, <1>7 DEF x, y, one, n, w

LEMMA ArithPasses ==
  ASSUME NEW p, NEW f, Executing(p, f), NEW g
  PROVE  LET e == With(f, g)
         IN  Goes(p, 1, e) /\ e.fl = g /\ \A w, k : Get(e, w, k) = Get(p.machine, w, k)
<1> DEFINE one == 1
           n == p.machine
           e == With(f, g)
<1>1. /\ p \in Programs /\ p.kind \in Checked /\ one \in 1..Len(p.code) /\ At(p, n, one)
      /\ p.code[one].pfx = {} /\ f = Fetched(n, p.code[one])
  BY ArithFacts DEF Executing
<1> HIDE DEF one, n
<1>2. Goes(p, one, e) /\ e.r = n.r /\ e.fl = g
  <2>1. LET h == Fetched(n, p.code[one])
        IN  /\ Goes(p, one, h) /\ h.r = n.r /\ h.fl = n.fl
            /\ \A x : Goes(p, one, With(h, x)) /\ With(h, x).r = n.r /\ With(h, x).fl = x
    <3>1. /\ p \in Programs /\ p.kind \in Checked /\ one \in 1..Len(p.code)
          /\ At(p, n, one) /\ p.code[one].pfx = {}
      BY <1>1
    <3> HIDE DEF e
    <3>2. QED
      BY ONLY <3>1, Passes
  <2>2. QED
    BY <1>1, <2>1
<1> HIDE DEF e
<1>3. \A w, k : Get(e, w, k) = Get(n, w, k)
  BY <1>2 DEF Get
<1>4. QED
  BY <1>2, <1>3 DEF e, one, n

LEMMA ArithPair ==
  ASSUME NEW p, NEW f, Executing(p, f), NEW hi \in WordOf(p.w), NEW lo \in WordOf(p.w), NEW g
  PROVE  LET e == PutPair(With(f, g), p.w, hi, lo)
         IN  Goes(p, 1, e) /\ e.fl = g /\ Upper(e, p.w) = hi /\ Get(e, p.w, EAX) = lo
<1> DEFINE one == 1
           n == p.machine
           h == With(f, g)
           w == p.w
           e == PutPair(h, w, hi, lo)
           t == Retired(e)
<1>1. /\ p \in Programs /\ p.kind \in Checked /\ one \in 1..Len(p.code) /\ At(p, n, one)
      /\ p.code[one].pfx = {} /\ f = Fetched(n, p.code[one]) /\ w \in Widths
      /\ hi \in WordOf(w) /\ lo \in WordOf(w)
  BY ArithFacts DEF Executing
<1> HIDE DEF one, n, w
<1>2. /\ Calm(f, p.machine.seg) /\ f.eip = p.eips[one + 1]
      /\ \A x : Keeps(x, f, {"r", "fl", "eip"}) /\ x.r \in [0..7 -> Int] =>
           /\ x.host # "dead" /\ Outcome(x) = "running" /\ Calm(Retired(x), p.machine.seg)
           /\ Retired(x).r = x.r /\ Retired(x).fl = x.fl /\ Retired(x).eip = x.eip
  BY <1>1, Advances, SMTT(60)
<1>3. DOMAIN f = Fields /\ f.r \in [0..7 -> Int]
  BY <1>2 DEF Calm
<1>4. Keeps(h, f, {"fl"}) /\ h.fl = g
  BY <1>3, WithFacts
<1>5. DOMAIN h = Fields /\ h.r = f.r
  BY <1>4 DEF Keeps, Fields
<1> HIDE DEF h
<1>6. /\ Keeps(e, h, {"r", "fl"}) /\ e.fl = h.fl /\ e.r \in [0..7 -> Int]
      /\ Upper(e, w) = hi /\ Get(e, w, EAX) = lo
  BY <1>1, <1>3, <1>5, PairStored
<1> HIDE DEF e
<1>7. Keeps(e, f, {"r", "fl", "eip"}) /\ e.eip = p.eips[one + 1]
  BY <1>2, <1>4, <1>6 DEF Keeps, Fields
<1> HIDE DEF t
<1>8. /\ e.host # "dead" /\ Outcome(e) = "running" /\ Calm(t, p.machine.seg)
      /\ t.r = e.r /\ t.fl = e.fl /\ t.eip = e.eip
  BY <1>2, <1>6, <1>7 DEF t
<1>9. Goes(p, one, e)
  BY <1>7, <1>8 DEF Goes, At, t
<1>10. QED
  BY <1>4, <1>6, <1>9 DEF e, h, one, w

\* A division is held to what it promises unless it raised the divide error.
DivTask(p) == p.code[1].op \in {"OpcF6_byte_RM", "OpcF7_word_RM"} /\ p.code[1].reg \in {6, 7}
Signs(p)   == p.code[1].reg = 7
Calculated(p, n) ==
  IF DivTask(p)
  THEN ~Least(Signs(p), p) /\ Divides(Signs(p), p, Upper(n, p.w), Get(n, p.w, EAX))
  ELSE Computes(p, n, FALSE)

LEMMA SameCalculated ==
  ASSUME NEW p, NEW n, NEW e, e.r = n.r, e.fl = n.fl
  PROVE  Calculated(p, e) <=> Calculated(p, n)
<1>1. \A w, k : Get(e, w, k) = Get(n, w, k)
  BY DEF Get
<1>2. \A w : Upper(e, w) = Upper(n, w)
  BY <1>1 DEF Upper
<1>3. ASSUME ~DivTask(p) PROVE Computes(p, e, FALSE) <=> Computes(p, n, FALSE)
  <2> DEFINE i == p.code[1]
             r(x) == Get(x, p.w, EAX)
  <2>1. r(e) = r(n) /\ Get(e, p.w, EDX) = Get(n, p.w, EDX) /\ Upper(e, p.w) = Upper(n, p.w)
    BY <1>1, <1>2
  <2>2. CASE i.op = "Bsf"
    <3> DEFINE found(x) == p.d # 0 => Bit(p.d, r(x)) /\ \A k \in 0 .. r(x) - 1 : ~Bit(p.d, k)
    <3>1. \A x : Computes(p, x, FALSE) <=> found(x)
      BY <2>2 DEF Computes
    <3>2. found(e) <=> found(n)
      BY <2>1
    <3>3. QED
      BY <3>1, <3>2
  <2>3. CASE i.op # "Bsf"
    <3> HIDE DEF r
    <3>1. QED
      BY <1>3, <2>1, <2>3 DEF Computes, DivTask, r
  <2>4. QED
    BY <2>2, <2>3
<1>4. CASE DivTask(p)
  BY <1>1, <1>2, <1>4 DEF Calculated
<1>5. QED
  BY <1>3, <1>4 DEF Calculated

\* The two-operand operations.
LEMMA TwoOperandsStep ==
  ASSUME NEW p, NEW f, Executing(p, f),
         p.code[1].op \in {"OpA_RM_R", "OpA_R_RM", "OpA_A_IMM", "OpA_RM_IMM"}
  PROVE  LET e == Arithmetics(f, p.code[1]) IN Goes(p, 1, e) /\ Calculated(p, e)
<1> DEFINE i == p.code[1]
           w == p.w
           d == p.d
           s == p.s
           e == Arithmetics(f, i)
           a == OpA(i.alu, w, d, s, f.fl)
<1>1. /\ ArithTask(p) /\ w \in Widths /\ Width(f, i) = w /\ f.fl = p.machine.fl
      /\ (\A v, k : Get(f, v, k) = Get(p.machine, v, k))
      /\ (\A v \in Widths, k \in 0..7 : Get(p.machine, v, k) \in WordOf(v))
      /\ (i.imm \in WordOf(LongBits) => Imm(i, w) \in WordOf(w))
  BY ArithFacts
<1>2. /\ i.alu \in 0..7 /\ d = Get(p.machine, w, EAX)
      /\ \/ i.op = "OpA_RM_R" /\ i.mod = 3 /\ i.rm = EAX /\ i.reg = EBX /\ s = Get(p.machine, w, EBX)
         \/ i.op = "OpA_R_RM" /\ i.mod = 3 /\ i.rm = EBX /\ i.reg = EAX /\ s = Get(p.machine, w, EBX)
         \/ i.op = "OpA_A_IMM" /\ s = Imm(i, w) /\ i.imm \in WordOf(LongBits)
         \/ i.op = "OpA_RM_IMM" /\ i.mod = 3 /\ i.rm = EAX /\ s = Imm(i, w) /\ i.imm \in WordOf(LongBits)
  BY <1>1 DEF ArithTask, InRegisters
<1>3. d \in WordOf(w) /\ s \in WordOf(w)
  BY <1>1, <1>2 DEF EAX, EBX
<1> DEFINE computed(n) == TwoOperands(i.alu, w, d, s, p.machine.fl, Get(n, w, EAX), n.fl)
<1>4. ASSUME NEW n, computed(n) PROVE Calculated(p, n)
  <2>1. CASE i.op = "OpA_RM_R"
    BY <1>2, <1>4, <2>1 DEF Calculated, Computes, DivTask
  <2>2. CASE i.op = "OpA_R_RM"
    BY <1>2, <1>4, <2>2 DEF Calculated, Computes, DivTask
  <2>3. CASE i.op = "OpA_A_IMM"
    BY <1>2, <1>4, <2>3 DEF Calculated, Computes, DivTask
  <2>4. CASE i.op = "OpA_RM_IMM"
    BY <1>2, <1>4, <2>4 DEF Calculated, Computes, DivTask
  <2>5. QED
    BY <1>2, <2>1, <2>2, <2>3, <2>4
<1>5. e = IF i.op # "OpA_R_RM" /\ i.op # "OpA_A_IMM" /\ i.alu = 7 THEN With(f, a.fl)
          ELSE Put(With(f, a.fl), w, EAX, a.v)
  <2> HIDE DEF i, w, d, s
  <2>1. CASE i.op = "OpA_RM_R"
    BY <1>1, <1>2, <2>1 DEF Arithmetics, OpA_RM_R, OntoRm, Rm, AtRm, SetRm
  <2>2. CASE i.op = "OpA_R_RM"
    BY <1>1, <1>2, <2>2 DEF Arithmetics, OpA_R_RM, PutAns, Rm, AtRm
  <2>3. CASE i.op = "OpA_A_IMM"
    BY <1>1, <1>2, <2>3 DEF Arithmetics, OpA_A_IMM, PutAns
  <2>4. CASE i.op = "OpA_RM_IMM"
    BY <1>1, <1>2, <2>4 DEF Arithmetics, OpA_RM_IMM, OntoRm, Rm, AtRm, SetRm
  <2>5. QED
    BY <1>2, <2>1, <2>2, <2>3, <2>4
<1> HIDE DEF i, w, d, s, e
<1>6. a.v \in WordOf(w) /\ TwoOperands(i.alu, w, d, s, f.fl, a.v, a.fl)
  BY <1>1, <1>2, <1>3, TwoOperandsExact
<1> DEFINE v == a.v
           g == a.fl
           x == Put(With(f, g), w, EAX, v)
           y == With(f, g)
<1>7. Goes(p, 1, x) /\ Get(x, w, EAX) = v /\ x.fl = g
  <2>1. v \in WordOf(p.w) /\ EAX \in {EAX, EDX}
    BY <1>6 DEF w
  <2> HIDE DEF v, g
  <2>2. QED
    BY <2>1, ArithStores DEF w
<1>8. Goes(p, 1, y) /\ Get(y, w, EAX) = d /\ y.fl = g
  <2> HIDE DEF g
  <2>1. QED
    BY <1>2, ArithPasses
<1>9. i.alu = 7 => v = d
  BY <1>6 DEF TwoOperands
<1>10. computed(x) /\ (i.alu = 7 => computed(y))
  <2>1. TwoOperands(i.alu, w, d, s, p.machine.fl, v, g)
    BY <1>1, <1>6
  <2> HIDE DEF v, g, x, y
  <2>2. QED
    BY <1>7, <1>8, <1>9, <2>1
<1>11. e = x \/ (i.alu = 7 /\ e = y)
  BY <1>5
<1> HIDE DEF x, y, computed
<1>12. QED
  BY <1>4, <1>7, <1>8, <1>10, <1>11 DEF e, i

\* test
LEMMA TestStep ==
  ASSUME NEW p, NEW f, Executing(p, f),
         LET i == p.code[1]
         IN  i.op \in {"Test_RM_R", "Test_A_IMM"}
               \/ (i.op \in {"OpcF6_byte_RM", "OpcF7_word_RM"} /\ i.reg = 0)
  PROVE  LET e == Arithmetics(f, p.code[1]) IN Goes(p, 1, e) /\ Calculated(p, e)
<1> DEFINE i == p.code[1]
           w == p.w
           d == p.d
           s == p.s
           e == Arithmetics(f, i)
           g == TestOp(w, d, s, f.fl).fl
           y == With(f, g)
<1>1. /\ ArithTask(p) /\ w \in Widths /\ Width(f, i) = w
      /\ (\A v, k : Get(f, v, k) = Get(p.machine, v, k))
  BY ArithFacts
<1>2. /\ d = Get(p.machine, w, EAX)
      /\ \/ i.op = "Test_RM_R" /\ i.mod = 3 /\ i.rm = EAX /\ i.reg = EBX /\ s = Get(p.machine, w, EBX)
         \/ i.op = "Test_A_IMM" /\ s = Imm(i, w)
         \/ /\ i.op \in {"OpcF6_byte_RM", "OpcF7_word_RM"} /\ i.reg = 0
            /\ i.mod = 3 /\ i.rm = EAX /\ s = Imm(i, w)
  BY <1>1 DEF ArithTask, InRegisters
<1> DEFINE computed(n) == TestIs(w, d, s, Get(n, w, EAX), n.fl)
<1>3. ASSUME NEW n, computed(n) PROVE Calculated(p, n)
  <2>1. CASE i.op = "Test_RM_R"
    BY <1>2, <1>3, <2>1 DEF Calculated, Computes, DivTask
  <2>2. CASE i.op = "Test_A_IMM"
    BY <1>2, <1>3, <2>2 DEF Calculated, Computes, DivTask
  <2>3. CASE i.op = "OpcF6_byte_RM"
    <3>1. i.reg = 0
      BY <1>2, <2>3
    <3>2. QED
      BY <1>3, <2>3, <3>1 DEF Calculated, Computes, DivTask
  <2>4. CASE i.op = "OpcF7_word_RM"
    <3>1. i.reg = 0
      BY <1>2, <2>4
    <3>2. QED
      BY <1>3, <2>4, <3>1 DEF Calculated, Computes, DivTask
  <2>5. QED
    BY <1>2, <2>1, <2>2, <2>3, <2>4
<1>4. e = y
  <2> HIDE DEF i, w, d, s
  <2>1. CASE i.op = "Test_RM_R"
    BY <1>1, <1>2, <2>1 DEF Arithmetics, Test_RM_R, Test_RM, Rm, AtRm
  <2>2. CASE i.op = "Test_A_IMM"
    BY <1>1, <1>2, <2>2 DEF Arithmetics, Test_A_IMM
  <2>3. CASE i.op = "OpcF6_byte_RM"
    BY <1>1, <1>2, <2>3 DEF Arithmetics, OpcF6_byte_RM, UnaryRm, Rm, AtRm
  <2>4. CASE i.op = "OpcF7_word_RM"
    BY <1>1, <1>2, <2>4 DEF Arithmetics, OpcF7_word_RM, UnaryRm, Rm, AtRm
  <2>5. QED
    BY <1>2, <2>1, <2>2, <2>3, <2>4
<1> HIDE DEF i, w, d, s, e
<1>5. TestIs(w, d, s, d, g)
  BY <1>1, TestExact
<1> HIDE DEF g
<1>6. Goes(p, 1, y) /\ Get(y, w, EAX) = d /\ y.fl = g
  BY <1>2, ArithPasses
<1> HIDE DEF y
<1>7. computed(y)
  BY <1>5, <1>6
<1> HIDE DEF computed
<1>8. QED
  BY <1>3, <1>4, <1>6, <1>7 DEF e, i

\* A handler that puts v in EAX and leaves the flags g.
LEMMA ResultStored ==
  ASSUME NEW p, NEW f, Executing(p, f), NEW v \in WordOf(p.w), NEW g
  PROVE  LET e == Put(With(f, g), p.w, EAX, v)
         IN  Goes(p, 1, e) /\ Get(e, p.w, EAX) = v /\ e.fl = g
<1>1. EAX \in {EAX, EDX}
  OBVIOUS
<1>2. QED
  BY <1>1, ArithStores

\* inc and dec
LEMMA StepStep ==
  ASSUME NEW p, NEW f, Executing(p, f),
         LET i == p.code[1]
         IN  i.op \in {"IncReg", "DecReg", "OpcFE_byte_RM", "OpcFF_word_RM"}
  PROVE  LET i == p.code[1]
             e == IF i.op = "OpcFF_word_RM" THEN Branches(f, i) ELSE Arithmetics(f, i)
         IN  Goes(p, 1, e) /\ Calculated(p, e)
<1> DEFINE i == p.code[1]
           w == p.w
           d == p.d
           e == IF i.op = "OpcFF_word_RM" THEN Branches(f, i) ELSE Arithmetics(f, i)
           up == i.op = "IncReg" \/ (i.op \in {"OpcFE_byte_RM", "OpcFF_word_RM"} /\ i.reg = 0)
           a == IF up THEN Inc(w, d, f.fl) ELSE Dec(w, d, f.fl)
<1>1. /\ ArithTask(p) /\ w \in Widths /\ Width(f, i) = w /\ f.fl = p.machine.fl
      /\ (\A v, k : Get(f, v, k) = Get(p.machine, v, k))
      /\ (\A v \in Widths, k \in 0..7 : Get(p.machine, v, k) \in WordOf(v))
      /\ (~i.byte => DataWidth(f) = w) /\ (i.byte => w = ByteBits)
  BY ArithFacts
<1>2. /\ d = Get(p.machine, w, EAX)
      /\ \/ i.op \in {"IncReg", "DecReg"} /\ i.reg = EAX /\ ~i.byte
         \/ /\ i.op \in {"OpcFE_byte_RM", "OpcFF_word_RM"} /\ i.mod = 3 /\ i.rm = EAX
            /\ i.reg \in {0, 1} /\ i.byte = (i.op = "OpcFE_byte_RM")
  BY <1>1 DEF ArithTask, InRegisters
<1>3. d \in WordOf(w)
  BY <1>1, <1>2 DEF EAX
<1> DEFINE sign == IF up THEN 1 ELSE -1
           computed(n) == OneOperand(sign, w, d, p.machine.fl, Get(n, w, EAX), n.fl)
<1>4. ASSUME NEW n, computed(n) PROVE Calculated(p, n)
  <2>1. CASE i.op = "IncReg"
    BY <1>2, <1>4, <2>1 DEF Calculated, Computes, DivTask
  <2>2. CASE i.op = "DecReg"
    BY <1>2, <1>4, <2>2 DEF Calculated, Computes, DivTask
  <2>3. CASE i.op = "OpcFE_byte_RM"
    BY <1>2, <1>4, <2>3 DEF Calculated, Computes, DivTask
  <2>4. CASE i.op = "OpcFF_word_RM"
    BY <1>2, <1>4, <2>4 DEF Calculated, Computes, DivTask
  <2>5. QED
    BY <1>2, <2>1, <2>2, <2>3, <2>4
<1>5. e = Put(With(f, a.fl), w, EAX, a.v)
  <2> HIDE DEF i, w, d
  <2>1. CASE i.op = "IncReg"
    BY <1>1, <1>2, <2>1 DEF Arithmetics, IncReg, PutAns
  <2>2. CASE i.op = "DecReg"
    BY <1>1, <1>2, <2>2 DEF Arithmetics, DecReg, PutAns
  <2>3. CASE i.op = "OpcFE_byte_RM"
    <3>1. e = StepRm(f, i, w)
      BY <1>1, <1>2, <2>3 DEF Arithmetics, OpcFE_byte_RM
    <3>2. Rm(f, i, w) = d /\ AtRm(f, i, w) = f
      BY <1>1, <1>2, <2>3 DEF Rm, AtRm
    <3>3. a = IF i.reg = 0 THEN Inc(w, d, f.fl) ELSE Dec(w, d, f.fl)
      BY <2>3
    <3>4. QED
      BY <1>2, <2>3, <3>1, <3>2, <3>3 DEF StepRm, SetRm
  <2>4. CASE i.op = "OpcFF_word_RM"
    <3>1. e = StepRm(f, i, w)
      <4>1. i.reg \in {0, 1} /\ DataWidth(f) = w
        BY <1>1, <1>2, <2>4
      <4>2. e = OpcFF_word_RM(f, i)
        BY <2>4 DEF Branches
      <4> HIDE DEF e
      <4>3. QED
        BY <4>1, <4>2 DEF OpcFF_word_RM
    <3>2. Rm(f, i, w) = d /\ AtRm(f, i, w) = f
      BY <1>1, <1>2, <2>4 DEF Rm, AtRm
    <3>3. a = IF i.reg = 0 THEN Inc(w, d, f.fl) ELSE Dec(w, d, f.fl)
      BY <2>4
    <3>4. QED
      BY <1>2, <2>4, <3>1, <3>2, <3>3 DEF StepRm, SetRm
  <2>5. QED
    BY <1>2, <2>1, <2>2, <2>3, <2>4
<1> HIDE DEF i, w, d, e
<1>6. a.v \in WordOf(w) /\ OneOperand(sign, w, d, p.machine.fl, a.v, a.fl)
  <2> HIDE DEF up
  <2>1. QED
    BY <1>1, <1>3, StepExact
<1> HIDE DEF up, sign
<1> DEFINE v == a.v
           g == a.fl
           x == Put(With(f, g), w, EAX, v)
<1>7. Goes(p, 1, x) /\ Get(x, w, EAX) = v /\ x.fl = g
  <2>1. v \in WordOf(p.w)
    BY <1>6 DEF w
  <2> HIDE DEF v, g
  <2>2. QED
    BY <2>1, ResultStored DEF w
<1>8. computed(x)
  <2>1. OneOperand(sign, w, d, p.machine.fl, v, g)
    BY <1>6
  <2> HIDE DEF v, g, x
  <2>2. QED
    BY <1>7, <2>1
<1>9. e = x
  BY <1>5
<1> HIDE DEF x, computed
<1>10. QED
  BY <1>4, <1>7, <1>8, <1>9 DEF e, i

\* not and neg
LEMMA ComplementStep ==
  ASSUME NEW p, NEW f, Executing(p, f),
         p.code[1].op \in {"OpcF6_byte_RM", "OpcF7_word_RM"}, p.code[1].reg \in {2, 3}
  PROVE  LET e == Arithmetics(f, p.code[1]) IN Goes(p, 1, e) /\ Calculated(p, e)
<1> DEFINE i == p.code[1]
           w == p.w
           d == p.d
           e == Arithmetics(f, i)
           a == IF i.reg = 2 THEN [v |-> NotOp(w, d), fl |-> f.fl] ELSE Neg(w, d, f.fl)
<1>1. /\ ArithTask(p) /\ w \in Widths /\ Width(f, i) = w /\ f.fl = p.machine.fl
      /\ (\A v, k : Get(f, v, k) = Get(p.machine, v, k))
      /\ (\A v \in Widths, k \in 0..7 : Get(p.machine, v, k) \in WordOf(v))
  BY ArithFacts
<1>2. /\ d = Get(p.machine, w, EAX)
      /\ i.op \in {"OpcF6_byte_RM", "OpcF7_word_RM"} /\ i.reg \in {2, 3} /\ i.mod = 3 /\ i.rm = EAX
  BY <1>1 DEF ArithTask, InRegisters
<1>3. d \in WordOf(w)
  BY <1>1, <1>2 DEF EAX
<1> DEFINE is(r, fl) == IF i.reg = 2 THEN r + d = 2 ^ w - 1 /\ fl = p.machine.fl
                        ELSE DifferenceIs(fl, r, w, 0, d, 0) /\ ResultFlags(fl, r, w)
           computed(n) == is(Get(n, w, EAX), n.fl)
<1>4. ASSUME NEW n, computed(n) PROVE Calculated(p, n)
  <2>1. CASE i.reg = 2
    <3>1. CASE i.op = "OpcF6_byte_RM"
      BY <1>4, <2>1, <3>1 DEF Calculated, Computes, DivTask
    <3>2. CASE i.op = "OpcF7_word_RM"
      BY <1>4, <2>1, <3>2 DEF Calculated, Computes, DivTask
    <3>3. QED
      BY <1>2, <3>1, <3>2
  <2>2. CASE i.reg = 3
    <3>1. CASE i.op = "OpcF6_byte_RM"
      BY <1>4, <2>2, <3>1 DEF Calculated, Computes, DivTask
    <3>2. CASE i.op = "OpcF7_word_RM"
      BY <1>4, <2>2, <3>2 DEF Calculated, Computes, DivTask
    <3>3. QED
      BY <1>2, <3>1, <3>2
  <2>3. QED
    BY <1>2, <2>1, <2>2
<1>5. e = Put(With(f, a.fl), w, EAX, a.v)
  <2> HIDE DEF i, w, d
  <2>1. e = UnaryRm(f, i)
    BY <1>2 DEF Arithmetics, OpcF6_byte_RM, OpcF7_word_RM
  <2>2. Rm(f, i, w) = d /\ AtRm(f, i, w) = f
    BY <1>1, <1>2 DEF Rm, AtRm
  <2>3. CASE i.reg = 2
    BY <1>1, <1>2, <2>1, <2>2, <2>3 DEF UnaryRm, SetRm
  <2>4. CASE i.reg = 3
    BY <1>1, <1>2, <2>1, <2>2, <2>4 DEF UnaryRm, SetRm
  <2>5. QED
    BY <1>2, <2>3, <2>4
<1> HIDE DEF i, w, d, e
<1>6. a.v \in WordOf(w) /\ is(a.v, a.fl)
  <2>1. NotOp(w, d) \in WordOf(w) /\ NotOp(w, d) + d = 2 ^ w - 1
    BY <1>1, <1>3, NotExact
  <2> DEFINE b == Neg(w, d, f.fl)
  <2>2. b.v \in WordOf(w) /\ DifferenceIs(b.fl, b.v, w, 0, d, 0) /\ ResultFlags(b.fl, b.v, w)
    BY <1>1, <1>3, NegExact
  <2> HIDE DEF b
  <2>3. a = IF i.reg = 2 THEN [v |-> NotOp(w, d), fl |-> f.fl] ELSE b
    BY DEF b
  <2>4. QED
    BY <1>1, <2>1, <2>2, <2>3
<1> HIDE DEF is
<1> DEFINE v == a.v
           g == a.fl
           x == Put(With(f, g), w, EAX, v)
<1>7. Goes(p, 1, x) /\ Get(x, w, EAX) = v /\ x.fl = g
  <2>1. v \in WordOf(p.w)
    BY <1>6 DEF w
  <2> HIDE DEF v, g
  <2>2. QED
    BY <2>1, ResultStored DEF w
<1>8. computed(x)
  <2>1. is(v, g)
    BY <1>6
  <2> HIDE DEF v, g, x
  <2>2. QED
    BY <1>7, <2>1
<1>9. e = x
  BY <1>5
<1> HIDE DEF x, computed
<1>10. QED
  BY <1>4, <1>7, <1>8, <1>9 DEF e, i

\* mul and imul, with a product of two registers
LEMMA ProductStep ==
  ASSUME NEW p, NEW f, Executing(p, f),
         p.code[1].op \in {"OpcF6_byte_RM", "OpcF7_word_RM"}, p.code[1].reg \in {4, 5}
  PROVE  LET e == Arithmetics(f, p.code[1]) IN Goes(p, 1, e) /\ Calculated(p, e)
<1> DEFINE i == p.code[1]
           w == p.w
           d == p.d
           s == p.s
           e == Arithmetics(f, i)
           signed == i.reg = 5
           a == IF signed THEN Imul(w, d, s, f.fl) ELSE Mul(w, d, s, f.fl)
<1>1. /\ ArithTask(p) /\ w \in Widths /\ Width(f, i) = w /\ f.fl = p.machine.fl
      /\ (\A v, k : Get(f, v, k) = Get(p.machine, v, k))
      /\ (\A v \in Widths, k \in 0..7 : Get(p.machine, v, k) \in WordOf(v))
  BY ArithFacts
<1>2. /\ d = Get(p.machine, w, EAX) /\ s = Get(p.machine, w, EBX)
      /\ i.op \in {"OpcF6_byte_RM", "OpcF7_word_RM"} /\ i.reg \in {4, 5} /\ i.mod = 3 /\ i.rm = EBX
  BY <1>1 DEF ArithTask, InRegisters
<1>3. d \in WordOf(w) /\ s \in WordOf(w)
  BY <1>1, <1>2 DEF EAX, EBX
<1> DEFINE computed(n) ==
             IF signed THEN SignedProductIs(w, d, s, Upper(n, w), Get(n, w, EAX), n.fl)
             ELSE UnsignedProductIs(w, d, s, Upper(n, w), Get(n, w, EAX), n.fl)
<1>4. ASSUME NEW n, computed(n) PROVE Calculated(p, n)
  <2>1. CASE i.reg = 4
    <3>1. signed = FALSE
      BY <2>1
    <3> HIDE DEF signed
    <3>2. UnsignedProductIs(w, d, s, Upper(n, w), Get(n, w, EAX), n.fl)
      BY <1>4, <3>1
    <3>3. CASE i.op = "OpcF6_byte_RM"
      BY <2>1, <3>2, <3>3 DEF Calculated, Computes, DivTask
    <3>4. CASE i.op = "OpcF7_word_RM"
      BY <2>1, <3>2, <3>4 DEF Calculated, Computes, DivTask
    <3>5. QED
      BY <1>2, <3>3, <3>4
  <2>2. CASE i.reg = 5
    <3>1. signed = TRUE
      BY <2>2
    <3> HIDE DEF signed
    <3>2. SignedProductIs(w, d, s, Upper(n, w), Get(n, w, EAX), n.fl)
      BY <1>4, <3>1
    <3>3. CASE i.op = "OpcF6_byte_RM"
      BY <2>2, <3>2, <3>3 DEF Calculated, Computes, DivTask
    <3>4. CASE i.op = "OpcF7_word_RM"
      BY <2>2, <3>2, <3>4 DEF Calculated, Computes, DivTask
    <3>5. QED
      BY <1>2, <3>3, <3>4
  <2>3. QED
    BY <1>2, <2>1, <2>2
<1>5. e = Divided(f, w, a)
  <2> HIDE DEF i, w, d, s
  <2>1. e = UnaryRm(f, i)
    BY <1>2 DEF Arithmetics, OpcF6_byte_RM, OpcF7_word_RM
  <2>2. Rm(f, i, w) = s /\ AtRm(f, i, w) = f /\ AccLow(f, w) = d
    BY <1>1, <1>2 DEF Rm, AtRm, AccLow
  <2>3. CASE i.reg = 4
    BY <1>1, <1>2, <2>1, <2>2, <2>3 DEF UnaryRm
  <2>4. CASE i.reg = 5
    BY <1>1, <1>2, <2>1, <2>2, <2>4 DEF UnaryRm
  <2>5. QED
    BY <1>2, <2>3, <2>4
<1> HIDE DEF i, w, d, s, e
<1>6. /\ a.hi \in WordOf(w) /\ a.lo \in WordOf(w) /\ a.trap = "none"
      /\ IF signed THEN SignedProductIs(w, d, s, a.hi, a.lo, a.fl) ELSE UnsignedProductIs(w, d, s, a.hi, a.lo, a.fl)
  <2> DEFINE b == Mul(w, d, s, f.fl)
             c == Imul(w, d, s, f.fl)
  <2>1. /\ b.hi \in WordOf(w) /\ b.lo \in WordOf(w) /\ b.trap = "none"
        /\ UnsignedProductIs(w, d, s, b.hi, b.lo, b.fl)
        /\ c.hi \in WordOf(w) /\ c.lo \in WordOf(w) /\ c.trap = "none"
        /\ SignedProductIs(w, d, s, c.hi, c.lo, c.fl)
    <3> DEFINE fl == f.fl
    <3> HIDE DEF a, fl
    <3>1. /\ LET x == Mul(w, d, s, fl)
             IN  /\ x.hi \in WordOf(w) /\ x.lo \in WordOf(w) /\ x.trap = "none"
                 /\ UnsignedProductIs(w, d, s, x.hi, x.lo, x.fl)
          /\ LET x == Imul(w, d, s, fl)
             IN  /\ x.hi \in WordOf(w) /\ x.lo \in WordOf(w) /\ x.trap = "none"
                 /\ SignedProductIs(w, d, s, x.hi, x.lo, x.fl)
      <4>1. w \in Widths /\ d \in WordOf(w) /\ s \in WordOf(w)
        BY <1>1, <1>3
      <4> HIDE DEF computed, b, c
      <4>2. QED
        BY ONLY <4>1, ProductExact
    <3>2. QED
      BY <3>1 DEF fl
  <2> HIDE DEF b, c
  <2>2. CASE signed
    <3>1. a = c /\ signed = TRUE
      BY <2>2 DEF c
    <3>2. QED
      BY <2>1, <3>1
  <2>3. CASE ~signed
    <3>1. a = b /\ signed = FALSE
      BY <2>3 DEF b
    <3>2. QED
      BY <2>1, <3>1
  <2>4. QED
    BY <2>2, <2>3
<1> HIDE DEF signed
<1> DEFINE hi == a.hi
           lo == a.lo
           g == a.fl
           x == PutPair(With(f, g), w, hi, lo)
<1>7. Goes(p, 1, x) /\ x.fl = g /\ Upper(x, w) = hi /\ Get(x, w, EAX) = lo
  <2>1. hi \in WordOf(p.w) /\ lo \in WordOf(p.w)
    BY <1>6 DEF w
  <2> HIDE DEF hi, lo, g
  <2>2. QED
    BY <2>1, ArithPair DEF w
<1>8. computed(x)
  <2>1. IF signed THEN SignedProductIs(w, d, s, hi, lo, g) ELSE UnsignedProductIs(w, d, s, hi, lo, g)
    BY <1>6
  <2> HIDE DEF hi, lo, g, x
  <2>2. QED
    BY <1>7, <2>1
<1>9. e = x
  <2> HIDE DEF a
  <2>1. QED
    BY <1>5, <1>6 DEF Divided
<1> HIDE DEF x, computed
<1>10. QED
  BY <1>4, <1>7, <1>8, <1>9 DEF e, i

\* imul that keeps the lower half of the product
LEMMA LowerProductStep ==
  ASSUME NEW p, NEW f, Executing(p, f),
         p.code[1].op \in {"Imul_R_RM", "Imul_word_IMM", "Imul_byte_IMM"}
  PROVE  LET e == Arithmetics(f, p.code[1]) IN Goes(p, 1, e) /\ Calculated(p, e)
<1> DEFINE i == p.code[1]
           w == p.w
           d == p.d
           s == p.s
           x == IF i.op = "Imul_R_RM" THEN s ELSE d
           y == IF i.op = "Imul_R_RM" THEN d ELSE s
           e == Arithmetics(f, i)
<1>1. /\ ArithTask(p) /\ w \in Widths /\ DataWidth(f) = w
      /\ (\A v, k : Get(f, v, k) = Get(p.machine, v, k))
      /\ (\A v \in Widths, k \in 0..7 : Get(p.machine, v, k) \in WordOf(v))
      /\ (i.imm \in WordOf(LongBits) => Imm(i, w) \in WordOf(w))
  <2>1. ~i.byte
    BY ArithFacts DEF ArithTask
  <2>2. QED
    BY <2>1, ArithFacts
<1>2. /\ i.mod = 3 /\ i.rm = EBX /\ i.reg = EAX /\ d = Get(p.machine, w, EBX)
      /\ \/ i.op = "Imul_R_RM" /\ s = Get(p.machine, w, EAX)
         \/ /\ i.op \in {"Imul_word_IMM", "Imul_byte_IMM"} /\ s = Imm(i, w)
            /\ i.imm \in WordOf(LongBits)
  BY <1>1 DEF ArithTask, InRegisters
<1>3. d \in WordOf(w) /\ s \in WordOf(w)
  BY <1>1, <1>2 DEF EAX, EBX
<1> DEFINE computed(n) == LowerProductIs(w, d, s, Get(n, w, EAX), n.fl)
<1>4. ASSUME NEW n, computed(n) PROVE Calculated(p, n)
  <2>1. CASE i.op = "Imul_R_RM"
    BY <1>4, <2>1 DEF Calculated, Computes, DivTask
  <2>2. CASE i.op = "Imul_word_IMM"
    BY <1>4, <2>2 DEF Calculated, Computes, DivTask
  <2>3. CASE i.op = "Imul_byte_IMM"
    BY <1>4, <2>3 DEF Calculated, Computes, DivTask
  <2>4. QED
    BY <1>2, <2>1, <2>2, <2>3
<1>5. e = ImulInto(f, w, EAX, x, y)
  <2> HIDE DEF i, w, d, s
  <2>1. Rm(f, i, w) = d /\ AtRm(f, i, w) = f
    BY <1>1, <1>2 DEF Rm, AtRm
  <2>2. CASE i.op = "Imul_R_RM"
    BY <1>1, <1>2, <2>1, <2>2 DEF Arithmetics, Imul_R_RM
  <2>3. CASE i.op = "Imul_word_IMM"
    BY <1>1, <1>2, <2>1, <2>3 DEF Arithmetics, Imul_word_IMM
  <2>4. CASE i.op = "Imul_byte_IMM"
    BY <1>1, <1>2, <2>1, <2>4 DEF Arithmetics, Imul_byte_IMM
  <2>5. QED
    BY <1>2, <2>2, <2>3, <2>4
<1> DEFINE a == ImulDirect(w, x, y)
           v == a.lo
           g == MulFlags(a.lo = 0 /\ a.hi = 0, a.lo, w, Overflow(f.fl, a.wide))
           h == Put(With(f, g), w, EAX, v)
<1>6. v \in WordOf(w) /\ LowerProductIs(w, x, y, v, g)
  <2>1. x \in WordOf(w) /\ y \in WordOf(w) /\ w \in Widths
    BY <1>1, <1>3
  <2> HIDE DEF x, y, w, computed
  <2>2. LET b == ImulDirect(w, x, y)
            c == MulFlags(b.lo = 0 /\ b.hi = 0, b.lo, w, Overflow(f.fl, b.wide))
        IN  b.lo \in WordOf(w) /\ LowerProductIs(w, x, y, b.lo, c)
    <3> HIDE DEF a, g, v, h
    <3>1. QED
      BY ONLY <2>1, LowerProductExact
  <2>3. QED
    BY <2>2
<1>7. e = h
  <2> HIDE DEF i, w, d, s, x, y, e
  <2>1. QED
    BY <1>5 DEF ImulInto
<1> HIDE DEF i, d, s, e, a, v, g
<1>8. Goes(p, 1, h) /\ Get(h, w, EAX) = v /\ h.fl = g
  BY <1>6, ResultStored
<1> HIDE DEF w, h
<1>9. computed(h)
  <2>1. LowerProductIs(w, d, s, v, g)
    <3>1. CASE i.op = "Imul_R_RM"
      <4>1. Signed(d, w) \in Int /\ Signed(s, w) \in Int
        <5>1. w \in Nat /\ 2 ^ w \in Nat /\ WordOf(w) \subseteq Int
          BY <1>1, WidthsAre, PowerFacts
        <5>2. QED
          BY <1>3, <5>1 DEF Signed
      <4>2. Signed(d, w) * Signed(s, w) = Signed(s, w) * Signed(d, w)
        BY <4>1
      <4>3. LowerProductIs(w, s, d, v, g)
        BY <1>6, <3>1 DEF x, y
      <4>4. QED
        BY <4>2, <4>3 DEF LowerProductIs
    <3>2. CASE i.op # "Imul_R_RM"
      BY <1>6, <3>2 DEF x, y
    <3>3. QED
      BY <3>1, <3>2
  <2>2. QED
    BY <1>8, <2>1
<1> HIDE DEF computed
<1>10. QED
  BY <1>4, <1>7, <1>8, <1>9 DEF e, i

\* cbw and cwd
LEMMA SignStep ==
  ASSUME NEW p, NEW f, Executing(p, f), p.code[1].op \in {"Cbw", "Cwd"}
  PROVE  LET e == Moves(f, p.code[1]) IN Goes(p, 1, e) /\ Calculated(p, e)
<1> DEFINE i == p.code[1]
           w == p.w
           d == p.d
           e == Moves(f, i)
<1>1. /\ ArithTask(p) /\ w \in Widths /\ DataWidth(f) = w /\ w # ByteBits
      /\ (\A v, k : Get(f, v, k) = Get(p.machine, v, k))
      /\ (\A v \in Widths, k \in 0..7 : Get(p.machine, v, k) \in WordOf(v))
  <2>1. ~i.byte
    BY ArithFacts DEF ArithTask
  <2>2. QED
    BY <2>1, ArithFacts
<1>2. CASE i.op = "Cbw"
  <2> DEFINE from == w \div 2
             v == SignExtend(d, from, w)
             x == Put(f, w, EAX, v)
  <2>1. from \in Widths /\ from < w
    <3> HIDE DEF w
    <3>1. \A k \in Nat : (2 * k) \div 2 = k
      OBVIOUS
    <3>2. ByteBits \in Nat \ {0} /\ w \in {WordBits, LongBits}
      BY <1>1, WidthFacts, WidthsAre
    <3>3. CASE w = WordBits
      <4>1. from = ByteBits
        BY <3>1, <3>2, <3>3 DEF WordBits
      <4>2. QED
        BY <3>2, <3>3, <4>1 DEF WordBits, Widths
    <3>4. CASE w = LongBits
      <4>1. LongBits = 2 * WordBits /\ WordBits \in Nat
        BY <3>2 DEF LongBits, WordBits
      <4>2. from = WordBits
        BY <3>1, <3>4, <4>1
      <4>3. QED
        BY <3>2, <3>4, <4>1, <4>2 DEF LongBits, WordBits, Widths
    <3>5. QED
      BY <3>2, <3>3, <3>4
  <2>2. d = Get(p.machine, from, EAX) /\ e = x
    <3>1. d = Get(p.machine, from, EAX)
      BY <1>1, <1>2 DEF ArithTask, InRegisters
    <3>2. e = Cbw(f, i)
      BY <1>2 DEF Moves
    <3> HIDE DEF w, d, e, i
    <3>3. QED
      BY <1>1, <3>1, <3>2 DEF Cbw
  <2>3. d \in WordOf(from)
    BY <1>1, <2>1, <2>2 DEF EAX
  <2>4. v \in WordOf(w) /\ Signed(v, w) = Signed(d, from)
    <3> HIDE DEF from, w, d
    <3>1. QED
      BY <1>1, <2>1, <2>3, SignReaches
  <2> DEFINE value == Signed(v, w)
  <2> HIDE DEF v
  <2>5. Goes(p, 1, x) /\ Get(x, w, EAX) = v
    <3>1. EAX \in {EAX, EDX} /\ v \in WordOf(p.w)
      BY <2>4
    <3>2. QED
      BY <3>1, ArithStores
  <2>6. Calculated(p, x)
    <3> HIDE DEF x
    <3>1. QED
      BY <1>2, <2>4, <2>5 DEF Calculated, Computes, DivTask
  <2> HIDE DEF x
  <2>7. QED
    BY <2>2, <2>5, <2>6
<1>3. CASE i.op = "Cwd"
  <2> DEFINE v == IF Bit(d, w - 1) THEN Ones(w) ELSE 0
             x == Put(f, w, EDX, v)
  <2>2. d = Get(p.machine, w, EAX) /\ e = x
    <3>1. d = Get(p.machine, w, EAX)
      BY <1>1, <1>3 DEF ArithTask, InRegisters
    <3>2. e = Cwd(f, i)
      BY <1>3 DEF Moves
    <3> HIDE DEF w, d, e, i
    <3>3. QED
      BY <1>1, <3>1, <3>2 DEF Cwd
  <2>3. d \in WordOf(w)
    BY <1>1, <2>2 DEF EAX
  <2>4. v \in WordOf(w) /\ Signed(v, w) * 2 ^ w + d = Signed(d, w)
    <3> HIDE DEF w, d
    <3>1. QED
      BY <1>1, <2>3, SignsExact
  <2> HIDE DEF v
  <2>5. Goes(p, 1, x) /\ Get(x, w, EDX) = v /\ Get(x, w, EAX) = d
    <3>1. EDX \in {EAX, EDX} /\ EAX \in {EAX, EDX} /\ EAX # EDX /\ v \in WordOf(p.w)
      BY <2>4 DEF EAX, EDX
    <3>2. Goes(p, 1, x) /\ Get(x, w, EDX) = v /\ Get(x, w, EAX) = Get(p.machine, w, EAX)
      BY <3>1, ArithStores
    <3>3. QED
      BY <2>2, <3>2
  <2>6. Calculated(p, x)
    <3> HIDE DEF x
    <3>1. QED
      BY <1>3, <2>4, <2>5 DEF Calculated, Computes, DivTask
  <2> HIDE DEF x
  <2>7. QED
    BY <2>2, <2>5, <2>6
<1>4. QED
  BY <1>2, <1>3

\* movsx and movzx
LEMMA ExtendStep ==
  ASSUME NEW p, NEW f, Executing(p, f),
         p.code[1].op \in {"Movsx_byte_R_RM", "Movzx_byte_R_RM", "Movsx_word_R_RM", "Movzx_word_R_RM"}
  PROVE  LET e == Moves(f, p.code[1]) IN Goes(p, 1, e) /\ Calculated(p, e)
<1> DEFINE i == p.code[1]
           w == p.w
           d == p.d
           from == p.s
           signed == i.op \in {"Movsx_byte_R_RM", "Movsx_word_R_RM"}
           e == Moves(f, i)
           v == IF signed /\ w > from THEN SignExtend(d, from, w) ELSE d
           x == Put(f, w, EAX, v)
<1>1. /\ ArithTask(p) /\ w \in Widths /\ DataWidth(f) = w /\ w # ByteBits
      /\ (\A u, k : Get(f, u, k) = Get(p.machine, u, k))
      /\ (\A u \in Widths, k \in 0..7 : Get(p.machine, u, k) \in WordOf(u))
  <2>1. ~i.byte
    BY ArithFacts DEF ArithTask
  <2>2. QED
    BY <2>1, ArithFacts
<1>2. /\ i.mod = 3 /\ i.rm = EBX /\ i.reg = EAX
      /\ d = Get(p.machine, from, EBX)
      /\ \/ i.op \in {"Movsx_byte_R_RM", "Movzx_byte_R_RM"} /\ from = ByteBits
         \/ i.op \in {"Movsx_word_R_RM", "Movzx_word_R_RM"} /\ from = WordBits
  BY <1>1 DEF ArithTask, InRegisters
<1>3. from \in Widths /\ from <= w /\ from \in Nat /\ w \in Nat
  <2>1. w \in {WordBits, LongBits}
    BY <1>1, WidthsAre
  <2>2. from \in {ByteBits, WordBits}
    BY <1>2
  <2> HIDE DEF w, from
  <2>3. WordBits <= LongBits /\ ByteBits <= WordBits /\ ByteBits \in Nat /\ WordBits \in Nat /\ LongBits \in Nat
    BY WidthFacts DEF LongBits, WordBits
  <2>4. QED
    BY <2>1, <2>2, <2>3 DEF Widths
<1>4. d \in WordOf(from)
  BY <1>1, <1>2, <1>3 DEF EBX
<1>5. v \in WordOf(w) /\ (signed => Signed(v, w) = Signed(d, from)) /\ (~signed => v = d)
  <2> HIDE DEF d, w, from, signed
  <2>1. CASE signed /\ w > from
    <3>1. SignExtend(d, from, w) \in WordOf(w) /\ Signed(SignExtend(d, from, w), w) = Signed(d, from)
      BY <1>1, <1>3, <1>4, <2>1, SignReaches
    <3>2. QED
      BY <2>1, <3>1
  <2>2. CASE ~(signed /\ w > from)
    <3>1. v = d
      BY <2>2
    <3>2. d \in WordOf(w)
      BY <1>1, <1>3, <1>4, ShorterWord
    <3>3. signed => w = from
      BY <1>3, <2>2
    <3>4. QED
      BY <3>1, <3>2, <3>3
  <2>3. QED
    BY <2>1, <2>2
<1>6. e = x
  <2> HIDE DEF d, w, from, e, i, signed
  <2>1. e = Extended(f, i, from, signed)
    <3>1. CASE i.op = "Movsx_byte_R_RM"
      <4>1. signed = TRUE
        BY <3>1 DEF signed
      <4>2. QED
        BY <1>2, <3>1, <4>1 DEF e, Moves, Movsx_byte_R_RM
    <3>2. CASE i.op = "Movzx_byte_R_RM"
      <4>1. signed = FALSE
        BY <3>2 DEF signed
      <4>2. QED
        BY <1>2, <3>2, <4>1 DEF e, Moves, Movzx_byte_R_RM
    <3>3. CASE i.op = "Movsx_word_R_RM"
      <4>1. signed = TRUE
        BY <3>3 DEF signed
      <4>2. QED
        BY <1>2, <3>3, <4>1 DEF e, Moves, Movsx_word_R_RM
    <3>4. CASE i.op = "Movzx_word_R_RM"
      <4>1. signed = FALSE
        BY <3>4 DEF signed
      <4>2. QED
        BY <1>2, <3>4, <4>1 DEF e, Moves, Movzx_word_R_RM
    <3>5. QED
      BY <1>2, <3>1, <3>2, <3>3, <3>4
  <2>2. Rm(f, i, from) = d /\ AtRm(f, i, from) = f
    BY <1>1, <1>2 DEF Rm, AtRm
  <2>3. QED
    BY <1>1, <1>2, <2>1, <2>2 DEF Extended
<1> HIDE DEF v
<1>7. Goes(p, 1, x) /\ Get(x, w, EAX) = v
  <2>1. EAX \in {EAX, EDX} /\ v \in WordOf(p.w)
    BY <1>5
  <2>2. QED
    BY <2>1, ArithStores
<1> HIDE DEF x
<1>8. Calculated(p, x)
  <2>1. CASE signed
    <3>1. Signed(Get(x, w, EAX), w) = Signed(d, from)
      BY <1>5, <1>7, <2>1
    <3>2. CASE i.op = "Movsx_byte_R_RM"
      BY <3>1, <3>2 DEF Calculated, Computes, DivTask
    <3>3. CASE i.op = "Movsx_word_R_RM"
      BY <3>1, <3>3 DEF Calculated, Computes, DivTask
    <3>4. QED
      BY <2>1, <3>2, <3>3
  <2>2. CASE ~signed
    <3>1. Get(x, w, EAX) = d
      BY <1>5, <1>7, <2>2
    <3>2. CASE i.op = "Movzx_byte_R_RM"
      BY <3>1, <3>2 DEF Calculated, Computes, DivTask
    <3>3. CASE i.op = "Movzx_word_R_RM"
      BY <3>1, <3>3 DEF Calculated, Computes, DivTask
    <3>4. QED
      BY <1>2, <2>2, <3>2, <3>3
  <2>3. QED
    BY <2>1, <2>2
<1>9. QED
  BY <1>6, <1>7, <1>8

\* bsf and bsr
LEMMA ScanStep ==
  ASSUME NEW p, NEW f, Executing(p, f), p.code[1].op \in Scans
  PROVE  LET e == Bits(f, p.code[1]) IN Goes(p, 1, e) /\ Calculated(p, e)
<1> DEFINE i == p.code[1]
           w == p.w
           d == p.d
           e == Bits(f, i)
           ks == {k \in 0 .. w - 1 : Bit(d, k)}
           first == IF ks = {} THEN w ELSE CHOOSE k \in ks : \A j \in ks : k <= j
           last == IF ks = {} THEN 0 ELSE CHOOSE k \in ks : \A j \in ks : k >= j
           v == IF i.op = "Bsf" THEN first ELSE last
           g == (f.fl \ {"ZF"}) \cup On("ZF", d = 0)
           x == Put(With(f, g), w, EAX, v)
<1>1. /\ ArithTask(p) /\ w \in Widths /\ DataWidth(f) = w
      /\ (\A u, k : Get(f, u, k) = Get(p.machine, u, k))
      /\ (\A u \in Widths, k \in 0..7 : Get(p.machine, u, k) \in WordOf(u))
  <2>1. ~i.byte
    BY ArithFacts DEF ArithTask, Scans
  <2>2. QED
    BY <2>1, ArithFacts
<1>2. i.op \in {"Bsf", "Bsr"} /\ i.mod = 3 /\ i.rm = EBX /\ i.reg = EAX /\ d = Get(p.machine, w, EBX)
  BY <1>1 DEF ArithTask, InRegisters, Scans
<1>3. d \in WordOf(w)
  BY <1>1, <1>2 DEF EBX
<1>4. /\ first \in WordOf(w) /\ (d # 0 => Bit(d, first) /\ \A k \in 0..first - 1 : ~Bit(d, k))
      /\ last \in WordOf(w) /\ (d # 0 => Bit(d, last) /\ Shr(d, last + 1) = 0)
  <2> HIDE DEF w, d
  <2>1. w \in Widths /\ d \in WordOf(w)
    BY <1>1, <1>3
  <2>2. first \in WordOf(w) /\ (d # 0 => Bit(d, first) /\ \A k \in 0..first - 1 : ~Bit(d, k))
    BY <2>1, FirstOne
  <2>3. last \in WordOf(w) /\ (d # 0 => Bit(d, last) /\ Shr(d, last + 1) = 0)
    BY <2>1, LastOne
  <2>4. QED
    BY <2>2, <2>3
<1>5. e = x
  <2> HIDE DEF w, d, e, i, g
  <2>1. Rm(f, i, w) = d /\ AtRm(f, i, w) = f
    BY <1>1, <1>2 DEF Rm, AtRm
  <2>2. CASE i.op = "Bsf"
    <3>1. e = Bsf(f, i)
      BY <2>2 DEF e, Bits
    <3>2. Bsf(f, i) = Put(With(f, g), w, EAX, first)
      BY <1>1, <1>2, <2>1 DEF Bsf, BitScan, g
    <3>3. QED
      BY <2>2, <3>1, <3>2
  <2>3. CASE i.op = "Bsr"
    <3>1. e = Bsr(f, i)
      BY <2>3 DEF e, Bits
    <3>2. Bsr(f, i) = Put(With(f, g), w, EAX, last)
      BY <1>1, <1>2, <2>1 DEF Bsr, BitScan, g
    <3>3. QED
      BY <2>3, <3>1, <3>2
  <2>4. QED
    BY <1>2, <2>2, <2>3
<1> HIDE DEF first, last, ks, g
<1>6. v \in WordOf(w)
  BY <1>4
<1>7. Goes(p, 1, x) /\ Get(x, w, EAX) = v
  <2> HIDE DEF v
  <2>1. QED
    BY <1>6, ResultStored
<1> HIDE DEF x
<1>8. Calculated(p, x)
  <2>1. CASE i.op = "Bsf"
    <3>1. Get(x, w, EAX) = first
      BY <1>7, <2>1
    <3>2. d # 0 => Bit(d, Get(x, w, EAX)) /\ \A k \in 0..Get(x, w, EAX) - 1 : ~Bit(d, k)
      BY <1>4, <3>1
    <3>3. QED
      BY <2>1, <3>2 DEF Calculated, Computes, DivTask
  <2>2. CASE i.op = "Bsr"
    <3>1. Get(x, w, EAX) = last
      BY <1>7, <2>2
    <3>2. d # 0 => Bit(d, Get(x, w, EAX)) /\ Shr(d, Get(x, w, EAX) + 1) = 0
      BY <1>4, <3>1
    <3>3. QED
      BY <2>2, <3>2 DEF Calculated, Computes, DivTask
  <2>3. QED
    BY <1>2, <2>1, <2>2
<1>9. QED
  BY <1>5, <1>7, <1>8

-----------------------------------------------------------------------------
(* Division: the quotient, or the divide error that leads out of the code. *)

\* With an interrupt pending a push raises no other one.
LEMMA PushKeeps ==
  ASSUME NEW n, DOMAIN n = Fields, n.intr # NoIntr, NEW w, NEW v
  PROVE  Keeps(Push(n, w, v), n, {"r", "mem"})
<1> DEFINE x == MoveStack(n, -Bytes(w))
           ofs == StackTop(x)
           y == Touch(x, SS, ofs, w)
           z == Push(n, w, v)
<1>1. {"r", "mem", "intr"} \subseteq Fields
  BY DEF Fields
<1>2. Keeps(x, n, {"r"})
  <2>1. ~High8(StackWidth(n), ESP)
    BY WidthFacts DEF High8, StackWidth
  <2>2. QED
    BY <1>1, <2>1 DEF MoveStack, Put, Keeps
<1>3. x.intr # NoIntr /\ DOMAIN x = Fields
  BY <1>1, <1>2 DEF Keeps
<1> DEFINE t == Trunc(v, w)
<1>4. z = PokeAt(y, Addr(x, SS, ofs), w, t)
  BY DEF Push, Poke
<1> HIDE DEF x, ofs, t
<1>5. y = x
  BY <1>3 DEF Touch, CheckAccess, GP, Raise
<1> HIDE DEF y
<1> DEFINE a == Addr(x, SS, ofs)
<1> HIDE DEF a
<1>6. Keeps(PokeAt(y, a, w, t), y, {"mem"})
  BY <1>1, <1>3, <1>5 DEF PokeAt, Keeps
<1> HIDE DEF z
<1>7. QED
  BY <1>2, <1>4, <1>5, <1>6 DEF Keeps, z, a

\* In the real mode a segment register takes any selector.
LEMMA EntersFacts ==
  ASSUME NEW n, DOMAIN n = Fields, ~Protected(n), NEW to
  PROVE  /\ Keeps(Enters(n, to), n, {"fl", "seg", "eip"}) /\ Enters(n, to).eip = to.eip
         /\ Enters(n, to).seg = [n.seg EXCEPT ![CS] = [n.seg[CS] EXCEPT !.sel = to.cs, !.base = to.cs * 16]]
<1> DEFINE x == [n EXCEPT !.fl = @ \ {"IF", "TF"}]
           y == SetSeg(x, CS, to.cs)
           segment == [n.seg[CS] EXCEPT !.sel = to.cs, !.base = to.cs * 16]
<1>1. {"fl", "seg", "eip", "cr"} \subseteq Fields
  BY DEF Fields
<1>2. Keeps(x, n, {"fl"}) /\ DOMAIN x = Fields /\ x.seg = n.seg /\ x.cr = n.cr
  BY <1>1 DEF Keeps
<1>3. Enters(n, to) = Goto(y, to.eip)
  BY DEF Enters
<1> HIDE DEF x, segment
<1>4. ~Protected(x)
  BY <1>2 DEF Protected
<1>5. LoadSeg(x, x.seg[CS], to.cs) = [err |-> FALSE, seg |-> segment]
  BY <1>2, <1>4 DEF LoadSeg, segment
<1>6. y = [x EXCEPT !.seg[CS] = segment]
  BY <1>5 DEF SetSeg
<1>7. Keeps(y, x, {"seg"}) /\ DOMAIN y = Fields /\ y.seg = [n.seg EXCEPT ![CS] = segment]
  BY <1>1, <1>2, <1>6 DEF Keeps
<1> HIDE DEF y
<1>8. Keeps(Goto(y, to.eip), y, {"eip"}) /\ Goto(y, to.eip).eip = to.eip
  BY <1>7, GotoFacts
<1> DEFINE z == Goto(y, to.eip)
<1> HIDE DEF z
<1>9. Keeps(z, n, {"fl", "seg", "eip"}) /\ z.seg = y.seg
  BY <1>1, <1>2, <1>7, <1>8 DEF Keeps, z
<1>10. QED
  BY <1>3, <1>7, <1>8, <1>9 DEF z, segment

\* The machine is at the vector of the divide error, outside of the code.
Vectored(p, n) == Interrupted(p, n, 0) /\ Addr(n, CS, n.eip) \notin DOMAIN p.at

LEMMA DivideErrorTaken ==
  ASSUME NEW p, NEW f, Executing(p, f), DivideErrorLeaves(p)
  PROVE  LET e == DIV0(f)
         IN  e.host # "dead" /\ Outcome(e) = "running" /\ Vectored(p, Retired(e))
<1> DEFINE n == p.machine
           i == p.code[1]
           e == DIV0(f)
           intr == [nr |-> 0, kind |-> {"SOFT", "RESTART"}, err |-> 0]
           to == IdtLookup(n, 0, 0, 0)
<1>0. {"r", "mem", "intr", "cr", "idt", "seg", "mode", "host", "eip", "line", "tsc"} \subseteq Fields
  BY DEF Fields
<1>1. i.pfx = {} /\ Calm(n, n.seg) /\ DOMAIN n = Fields /\ n.intr = NoIntr /\ n.host = "alive"
  <2>1. i.pfx = {} /\ At(p, n, 1)
    BY ArithFacts
  <2>2. QED
    BY <2>1 DEF At, Calm
<1>2. Keeps(f, n, {"mode", "dseg", "seip", "scs", "ea", "len", "eip"}) /\ f.mode = ModeIn(n.seg)
  <2>1. f = Fetched(n, i)
    BY DEF Executing
  <2>2. QED
    BY <1>1, <2>1, FetchFacts
<1>3. DOMAIN f = Fields /\ f.intr = NoIntr /\ f.host = "alive"
      /\ f.mem = n.mem /\ f.cr = n.cr /\ f.idt = n.idt /\ f.seg = n.seg
  BY <1>1, <1>2 DEF Keeps, Fields
<1>4. Keeps(e, f, {"intr"}) /\ e.intr = intr
  BY <1>0, <1>3 DEF DIV0, Raise, Keeps
<1>5. DOMAIN e = Fields /\ e.host = "alive" /\ e.mode = ModeIn(n.seg)
      /\ e.mem = n.mem /\ e.cr = n.cr /\ e.idt = n.idt /\ e.seg = n.seg
  BY <1>2, <1>3, <1>4 DEF Keeps, Fields
<1>6. intr # NoIntr
  BY DEF NoIntr
<1>7. e.host # "dead" /\ Outcome(e) = "running"
  BY <1>5 DEF Outcome, ModeIn
<1>8. ~Protected(n) /\ ~Protected(e)
  BY <1>5 DEF DivideErrorLeaves, Protected
<1> DEFINE w == WordBits
           a == FlagsWord(e.fl)
           x == Push(e, w, a)
           y == Push(x, w, e.scs)
           z == Push(y, w, e.seip)
<1>9. GenerateInt(e, e.intr) = Enters(z, IdtLookup(e, 0, e.scs, e.seip))
  <2>1. "RESTART" \in e.intr.kind /\ "ERRCODE" \notin e.intr.kind /\ e.intr.nr = 0
    BY <1>4
  <2>2. PushFrame(e, w, e.scs, e.seip) = z
    BY DEF PushFrame
  <2>3. PushError(z, e.intr) = z
    BY <2>1 DEF PushError
  <2> HIDE DEF e, z, intr
  <2>4. QED
    BY <1>8, <2>1, <2>2, <2>3 DEF GenerateInt
<1>10. IdtLookup(e, 0, e.scs, e.seip) = to
  <2> HIDE DEF e
  <2>1. IdtLookup(e, 0, e.scs, e.seip) =
          [cs  |-> PeekAt(e, e.idt.base + 0 * 4 + 2, WordBits), eip |-> PeekAt(e, e.idt.base + 0 * 4, WordBits)]
    BY <1>8 DEF IdtLookup
  <2>2. to = [cs  |-> PeekAt(n, n.idt.base + 0 * 4 + 2, WordBits), eip |-> PeekAt(n, n.idt.base + 0 * 4, WordBits)]
    BY <1>8 DEF IdtLookup
  <2>3. \A b, v : PeekAt(e, b, v) = PeekAt(n, b, v)
    BY <1>5 DEF PeekAt, ByteAt
  <2>4. QED
    BY <1>5, <2>1, <2>2, <2>3
<1> HIDE DEF e, to, intr, a, w
<1>11. Keeps(x, e, {"r", "mem"})
  BY <1>4, <1>5, <1>6, PushKeeps
<1>12. Keeps(y, x, {"r", "mem"})
  <2>1. DOMAIN x = Fields /\ x.intr # NoIntr
    BY <1>4, <1>6, <1>11 DEF Keeps, Fields
  <2> HIDE DEF x
  <2>2. QED
    BY <2>1, PushKeeps
<1>13. Keeps(z, y, {"r", "mem"})
  <2>1. DOMAIN y = Fields /\ y.intr # NoIntr
    BY <1>4, <1>6, <1>11, <1>12 DEF Keeps, Fields
  <2> HIDE DEF y
  <2>2. QED
    BY <2>1, PushKeeps
<1> HIDE DEF x, y, z
<1>14. DOMAIN z = Fields /\ z.cr = n.cr /\ z.seg = n.seg
  BY <1>5, <1>11, <1>12, <1>13 DEF Keeps, Fields
<1> DEFINE g == Enters(z, to)
           h == Enters(n, to)
<1>15. Keeps(g, z, {"fl", "seg", "eip"}) /\ g.eip = to.eip /\ g.seg = h.seg
  <2>1. ~Protected(z)
    BY <1>8, <1>14 DEF Protected
  <2>2. DOMAIN z = Fields /\ DOMAIN n = Fields /\ ~Protected(n)
    BY <1>1, <1>8, <1>14
  <2>3. /\ Keeps(g, z, {"fl", "seg", "eip"}) /\ g.eip = to.eip
        /\ g.seg = [z.seg EXCEPT ![CS] = [z.seg[CS] EXCEPT !.sel = to.cs, !.base = to.cs * 16]]
    BY <2>1, <2>2, EntersFacts
  <2>4. h.seg = [n.seg EXCEPT ![CS] = [n.seg[CS] EXCEPT !.sel = to.cs, !.base = to.cs * 16]]
    <3> HIDE DEF n
    <3>1. QED
      BY <2>2, EntersFacts
  <2> HIDE DEF g, h
  <2>5. QED
    BY <1>14, <2>3, <2>4
<1> HIDE DEF g, h
<1> DEFINE k == [g EXCEPT !.intr = NoIntr]
           t == Listed(k)
<1>16. DOMAIN k = Fields /\ k.eip = g.eip /\ k.seg = g.seg
  BY <1>0, <1>15 DEF Keeps
<1>17. Retired(e) = t
  BY <1>4, <1>6, <1>9, <1>10 DEF Retired, HandleInterrupt, g
<1> HIDE DEF k
<1>18. t.eip = k.eip /\ t.seg = k.seg
  <2>1. ~Disassemble
    BY TasksAssumption
  <2>2. t = [k EXCEPT !.eip = k.eip,
                      !.line = [Address |-> k.seip, NumBytes |-> k.len, ESP |-> k.r[ESP],
                                TOS |-> PeekAt(k, k.r[ESP], LongBits)],
                      !.tsc = k.tsc + 1]
    BY <2>1, Zenon DEF Listed
  <2>3. QED
    BY <1>0, <1>16, <2>2
<1> HIDE DEF t
<1>19. Addr(h, CS, to.eip) \notin DOMAIN p.at
  BY DEF DivideErrorLeaves, h, to
<1>20. Vectored(p, t)
  <2>1. t.eip = to.eip /\ t.seg = h.seg
    BY <1>15, <1>16, <1>18
  <2>2. QED
    BY <1>19, <2>1 DEF Vectored, Interrupted, Addr, to
<1>21. QED
  BY <1>7, <1>17, <1>20 DEF e

\* Opcode extension 6 divides without a sign.
LEMMA DivHasNoSign ==
  ASSUME NEW p, p.code[1].reg = 6
  PROVE  /\ (Least(Signs(p), p) <=> Least(FALSE, p))
         /\ (NoQuotient(Signs(p), p) <=> NoQuotient(FALSE, p))
         /\ \A u, l : Divides(Signs(p), p, u, l) <=> Divides(FALSE, p, u, l)
<1>1. Signs(p) = FALSE
  BY DEF Signs
<1>2. Least(Signs(p), p) <=> Least(FALSE, p)
  BY <1>1, Zenon
<1>3. NoQuotient(Signs(p), p) <=> NoQuotient(FALSE, p)
  BY <1>1, Zenon
<1>4. \A u, l : Divides(Signs(p), p, u, l) <=> Divides(FALSE, p, u, l)
  BY <1>1, Zenon
<1>5. QED
  BY <1>2, <1>3, <1>4, Zenon

\* Opcode extension 7 divides with a sign.
LEMMA IdivHasSign ==
  ASSUME NEW p, p.code[1].reg = 7
  PROVE  /\ (Least(Signs(p), p) <=> Least(TRUE, p))
         /\ (NoQuotient(Signs(p), p) <=> NoQuotient(TRUE, p))
         /\ \A u, l : Divides(Signs(p), p, u, l) <=> Divides(TRUE, p, u, l)
<1>1. Signs(p) = TRUE
  BY DEF Signs
<1>2. Least(Signs(p), p) <=> Least(TRUE, p)
  BY <1>1, Zenon
<1>3. NoQuotient(Signs(p), p) <=> NoQuotient(TRUE, p)
  BY <1>1, Zenon
<1>4. \A u, l : Divides(Signs(p), p, u, l) <=> Divides(TRUE, p, u, l)
  BY <1>1, Zenon
<1>5. QED
  BY <1>2, <1>3, <1>4, Zenon

\* A divide error is raised where there is no quotient to store.
Raised(p) == ~Least(Signs(p), p) => NoQuotient(Signs(p), p)

\* div and idiv
LEMMA DivideStep ==
  ASSUME NEW p, NEW f, Executing(p, f), DivTask(p)
  PROVE  LET e == Arithmetics(f, p.code[1])
         IN  /\ DivideErrorLeaves(p)
             /\ \/ Goes(p, 1, e) /\ Calculated(p, e)
                \/ Raised(p) /\ e.host # "dead" /\ Outcome(e) = "running" /\ Vectored(p, Retired(e))
                \/ Least(Signs(p), p) /\ e.host = "dead"
<1> DEFINE i == p.code[1]
           w == p.w
           s == p.s
           e == Arithmetics(f, i)
           hi == Upper(p.machine, w)
           lo == Get(p.machine, w, EAX)
           signed == i.reg = 7
           a == IF signed THEN Idiv(w, hi, lo, s, f.fl) ELSE Div(w, hi, lo, s, f.fl)
<1>1. /\ ArithTask(p) /\ w \in Widths /\ Width(f, i) = w /\ f.fl = p.machine.fl
      /\ (\A v, k : Get(f, v, k) = Get(p.machine, v, k))
      /\ (\A v \in Widths, k \in 0..7 : Get(p.machine, v, k) \in WordOf(v))
  BY ArithFacts
<1>2. /\ s = Get(p.machine, w, EBX) /\ DivideErrorLeaves(p)
      /\ i.op \in {"OpcF6_byte_RM", "OpcF7_word_RM"} /\ i.reg \in {6, 7} /\ i.mod = 3 /\ i.rm = EBX
  BY <1>1 DEF ArithTask, InRegisters, DivTask
<1>3. hi \in WordOf(w) /\ lo \in WordOf(w) /\ s \in WordOf(w)
  BY <1>1, <1>2 DEF EAX, EBX, EDX, Upper
<1>4. e = Divided(f, w, a)
  <2> HIDE DEF i, w, s
  <2>1. e = UnaryRm(f, i)
    BY <1>2 DEF Arithmetics, OpcF6_byte_RM, OpcF7_word_RM
  <2>2. Rm(f, i, w) = s /\ AtRm(f, i, w) = f /\ AccLow(f, w) = lo /\ AccHigh(f, w) = hi
    BY <1>1, <1>2 DEF Rm, AtRm, AccLow, AccHigh, Upper
  <2> HIDE DEF hi, lo
  <2>3. CASE i.reg = 6
    BY <1>1, <1>2, <2>1, <2>2, <2>3 DEF UnaryRm
  <2>4. CASE i.reg = 7
    BY <1>1, <1>2, <2>1, <2>2, <2>4 DEF UnaryRm
  <2>5. QED
    BY <1>2, <2>3, <2>4
<1>5. /\ a.fl = f.fl
      /\ \/ /\ a.trap = "none" /\ a.hi \in WordOf(w) /\ a.lo \in WordOf(w)
            /\ ~Least(Signs(p), p) /\ Divides(Signs(p), p, a.hi, a.lo)
         \/ a.trap = "DIV0" /\ Raised(p)
         \/ a.trap = "UNDEFINED" /\ Least(Signs(p), p)
  <2> DEFINE fl == f.fl
  <2>0. p.w \in Widths /\ hi \in WordOf(p.w) /\ lo \in WordOf(p.w) /\ p.s \in WordOf(p.w) /\ Dividend(p, hi, lo)
    BY <1>1, <1>3 DEF Dividend
  <2> HIDE DEF hi, lo, fl
  <2>1. CASE i.reg = 6
    <3> DEFINE b == Div(w, hi, lo, s, fl)
    <3>1. /\ b.fl = fl /\ ~Least(FALSE, p)
          /\ \/ /\ b.trap = "none" /\ b.hi \in WordOf(w) /\ b.lo \in WordOf(w)
                /\ Divides(FALSE, p, b.hi, b.lo)
             \/ b.trap = "DIV0" /\ NoQuotient(FALSE, p)
      BY ONLY <2>0, DivExact
    <3>2. a = b
      BY <2>1 DEF fl
    <3> HIDE DEF a, b
    <3>3. /\ (Least(Signs(p), p) <=> Least(FALSE, p))
          /\ (NoQuotient(Signs(p), p) <=> NoQuotient(FALSE, p))
          /\ \A u, l : Divides(Signs(p), p, u, l) <=> Divides(FALSE, p, u, l)
      BY <2>1, DivHasNoSign, Zenon DEF i
    <3>4. QED
      BY <3>1, <3>2, <3>3 DEF Raised, fl
  <2>2. CASE i.reg = 7
    <3> DEFINE b == Idiv(w, hi, lo, s, fl)
    <3>1. /\ b.fl = fl
          /\ \/ /\ b.trap = "none" /\ b.hi \in WordOf(w) /\ b.lo \in WordOf(w)
                /\ ~Least(TRUE, p) /\ Divides(TRUE, p, b.hi, b.lo)
             \/ b.trap = "DIV0" /\ ~Least(TRUE, p) /\ NoQuotient(TRUE, p)
             \/ b.trap = "UNDEFINED" /\ Least(TRUE, p)
      BY ONLY <2>0, IdivExact
    <3>2. a = b
      BY <2>2 DEF fl
    <3> HIDE DEF a, b
    <3>3. /\ (Least(Signs(p), p) <=> Least(TRUE, p))
          /\ (NoQuotient(Signs(p), p) <=> NoQuotient(TRUE, p))
          /\ \A u, l : Divides(Signs(p), p, u, l) <=> Divides(TRUE, p, u, l)
      BY <2>2, IdivHasSign, Zenon DEF i
    <3>4. QED
      BY <3>1, <3>2, <3>3 DEF Raised, fl
  <2>3. QED
    BY <1>2, <2>1, <2>2
<1> HIDE DEF i, w, s, e, a, hi, lo, signed
<1>6. CASE a.trap = "none"
  <2> DEFINE u == a.hi
             l == a.lo
             g == a.fl
             x == PutPair(With(f, g), w, u, l)
  <2>1. e = x
    BY <1>4, <1>6 DEF Divided
  <2>2. Goes(p, 1, x) /\ Upper(x, w) = u /\ Get(x, w, EAX) = l
    <3>1. u \in WordOf(p.w) /\ l \in WordOf(p.w)
      BY <1>5, <1>6 DEF w
    <3> HIDE DEF u, l, g
    <3>2. QED
      BY <3>1, ArithPair DEF w
  <2>3. ~Least(Signs(p), p) /\ Divides(Signs(p), p, u, l)
    BY <1>5, <1>6
  <2> HIDE DEF x, u, l
  <2>4. Calculated(p, x)
    BY <2>2, <2>3 DEF Calculated, w
  <2>5. QED
    BY <1>2, <2>1, <2>2, <2>4 DEF e, i
<1>7. ASSUME e = DIV0(f), Raised(p)
      PROVE  Raised(p) /\ e.host # "dead" /\ Outcome(e) = "running" /\ Vectored(p, Retired(e))
  <2> DEFINE x == DIV0(f)
  <2>1. x.host # "dead" /\ Outcome(x) = "running" /\ Vectored(p, Retired(x))
    BY <1>2, DivideErrorTaken
  <2> HIDE DEF x
  <2>2. QED
    BY <1>7, <2>1 DEF x
<1>8. CASE a.trap = "DIV0"
  <2>1. e = DIV0(f) /\ Raised(p)
    BY <1>4, <1>5, <1>8 DEF Divided
  <2>2. QED
    BY <1>2, <1>7, <2>1 DEF e, i
<1>9. CASE a.trap = "UNDEFINED"
  <2>1. Least(Signs(p), p)
    BY <1>5, <1>9
  <2>2. CASE f.wraps
    <3>1. e = DIV0(f)
      BY <1>4, <1>9, <2>2 DEF Divided
    <3>2. Raised(p)
      BY <2>1 DEF Raised
    <3>3. QED
      BY <1>2, <1>7, <3>1, <3>2 DEF e, i
  <2>3. CASE ~f.wraps
    <3> DEFINE x == [f EXCEPT !.host = "dead"]
    <3>1. e = x
      BY <1>4, <1>9, <2>3 DEF Divided
    <3>2. x.host = "dead"
      <4>1. "host" \in DOMAIN f
        <5>1. i.pfx = {} /\ At(p, p.machine, 1) /\ f = Fetched(p.machine, i)
          BY ArithFacts DEF Executing, i
        <5>2. DOMAIN p.machine = Fields
          BY <5>1 DEF At, Calm
        <5>3. QED
          BY <5>1, <5>2, FetchFacts DEF Keeps, Fields
      <4>2. QED
        BY <4>1
    <3> HIDE DEF x
    <3>3. QED
      BY <1>2, <2>1, <3>1, <3>2 DEF e, i
  <2>4. QED
    BY <2>2, <2>3
<1>10. QED
  BY <1>5, <1>6, <1>8, <1>9

-----------------------------------------------------------------------------
(* Arithmetic: the whole program.                                          *)

\* What the instruction leads to.
ArithOutcome(p, e) ==
  \/ Goes(p, 1, e) /\ Calculated(p, e)
  \/ /\ DivTask(p) /\ Raised(p)
     /\ e.host # "dead" /\ Outcome(e) = "running" /\ Vectored(p, Retired(e))
  \/ DivTask(p) /\ Least(Signs(p), p) /\ e.host = "dead"

LEMMA ArithStep ==
  ASSUME NEW p \in Programs, p.kind = "arith"
  PROVE  LET i == p.code[1]
             f == Fetched(p.machine, i)
         IN  \E e : /\ \/ i.op \in ArithmeticOps /\ e = Arithmetics(f, i)
                       \/ i.op \in UsedMoves /\ e = Moves(f, i)
                       \/ i.op = "OpcFF_word_RM" /\ e = Branches(f, i)
                       \/ i.op \in Scans /\ e = Bits(f, i)
                    /\ ArithOutcome(p, e)
<1> DEFINE i == p.code[1]
           f == Fetched(p.machine, i)
           ends(e) == /\ \/ i.op \in ArithmeticOps /\ e = Arithmetics(f, i)
                         \/ i.op \in UsedMoves /\ e = Moves(f, i)
                         \/ i.op = "OpcFF_word_RM" /\ e = Branches(f, i)
                         \/ i.op \in Scans /\ e = Bits(f, i)
                      /\ ArithOutcome(p, e)
           found == \E e : ends(e)
           one == Arithmetics(f, i)
           two == Moves(f, i)
           three == Branches(f, i)
           four == Bits(f, i)
           unary == {"OpcF6_byte_RM", "OpcF7_word_RM"}
<1>0. SUFFICES found
  OBVIOUS
<1>1. Executing(p, f) /\ ArithTask(p)
  BY TasksAssumption DEF Executing
<1>2. \/ i.op \in {"OpA_RM_R", "OpA_R_RM", "OpA_A_IMM", "OpA_RM_IMM"}
      \/ i.op \in {"Test_RM_R", "Test_A_IMM"} \/ (i.op \in unary /\ i.reg = 0)
      \/ i.op \in {"IncReg", "DecReg", "OpcFE_byte_RM"} \/ i.op = "OpcFF_word_RM"
      \/ i.op \in unary /\ i.reg \in {2, 3}
      \/ i.op \in unary /\ i.reg \in {4, 5}
      \/ i.op \in unary /\ i.reg \in {6, 7}
      \/ i.op \in {"Imul_R_RM", "Imul_word_IMM", "Imul_byte_IMM"}
      \/ i.op \in {"Cbw", "Cwd"}
      \/ i.op \in {"Movsx_byte_R_RM", "Movzx_byte_R_RM", "Movsx_word_R_RM", "Movzx_word_R_RM"}
      \/ i.op \in Scans
  <2> HIDE DEF i
  <2>1. ArithTask(p) /\ i = p.code[1]
    BY <1>1 DEF i
  <2>2. QED
    BY <2>1, Zenon DEF ArithTask, Scans
<1> HIDE DEF f
<1>3. ASSUME i.op \in ArithmeticOps, ArithOutcome(p, one) PROVE found
  <2> HIDE DEF i
  <2>1. ends(one)
    BY <1>3
  <2> HIDE DEF ends
  <2>2. QED
    BY <2>1
<1>4. ASSUME i.op \in ArithmeticOps, Goes(p, 1, one) /\ Calculated(p, one) PROVE found
  <2>1. ArithOutcome(p, one)
    BY <1>4 DEF ArithOutcome
  <2> HIDE DEF found, one, i
  <2>2. QED
    BY <1>3, <1>4, <2>1
<1>5. ASSUME i.op \in UsedMoves, Goes(p, 1, two) /\ Calculated(p, two) PROVE found
  <2> HIDE DEF i
  <2>1. ends(two)
    BY <1>5 DEF ArithOutcome
  <2> HIDE DEF ends
  <2>2. QED
    BY <2>1
<1> HIDE DEF ends, one, two, found
<1>6. CASE i.op \in {"OpA_RM_R", "OpA_R_RM", "OpA_A_IMM", "OpA_RM_IMM"}
  <2>1. i.op \in ArithmeticOps
    BY <1>6 DEF ArithmeticOps
  <2>2. Goes(p, 1, one) /\ Calculated(p, one)
    BY <1>1, <1>6, TwoOperandsStep DEF one
  <2>3. QED
    BY <1>4, <2>1, <2>2
<1>7. CASE i.op \in {"Test_RM_R", "Test_A_IMM"} \/ (i.op \in unary /\ i.reg = 0)
  <2>1. i.op \in ArithmeticOps
    BY <1>7 DEF ArithmeticOps
  <2>2. Goes(p, 1, one) /\ Calculated(p, one)
    BY <1>1, <1>7, TestStep DEF one
  <2>3. QED
    BY <1>4, <2>1, <2>2
<1>8. CASE i.op \in {"IncReg", "DecReg", "OpcFE_byte_RM"}
  <2>1. i.op \in ArithmeticOps /\ i.op # "OpcFF_word_RM"
    BY <1>8 DEF ArithmeticOps
  <2>2. Goes(p, 1, one) /\ Calculated(p, one)
    BY <1>1, <1>8, <2>1, StepStep DEF one
  <2>3. QED
    BY <1>4, <2>1, <2>2
<1>9. CASE i.op = "OpcFF_word_RM"
  <2>1. Goes(p, 1, three) /\ Calculated(p, three)
    BY <1>1, <1>9, StepStep
  <2>2. ends(three)
    <3> HIDE DEF i, three
    <3>1. QED
      BY <1>9, <2>1 DEF ends, ArithOutcome, three
  <2>3. QED
    BY <2>2 DEF found
<1>10. CASE i.op \in unary /\ i.reg \in {2, 3}
  <2>1. i.op \in ArithmeticOps
    BY <1>10 DEF ArithmeticOps
  <2>2. Goes(p, 1, one) /\ Calculated(p, one)
    BY <1>1, <1>10, ComplementStep DEF one
  <2>3. QED
    BY <1>4, <2>1, <2>2
<1>11. CASE i.op \in unary /\ i.reg \in {4, 5}
  <2>1. i.op \in ArithmeticOps
    BY <1>11 DEF ArithmeticOps
  <2>2. Goes(p, 1, one) /\ Calculated(p, one)
    BY <1>1, <1>11, ProductStep DEF one
  <2>3. QED
    BY <1>4, <2>1, <2>2
<1>12. CASE i.op \in unary /\ i.reg \in {6, 7}
  <2>1. i.op \in ArithmeticOps /\ DivTask(p)
    BY <1>12 DEF ArithmeticOps, DivTask
  <2>2. \/ Goes(p, 1, one) /\ Calculated(p, one)
        \/ Raised(p) /\ one.host # "dead" /\ Outcome(one) = "running" /\ Vectored(p, Retired(one))
        \/ Least(Signs(p), p) /\ one.host = "dead"
    BY <1>1, <2>1, DivideStep DEF one
  <2>3. ArithOutcome(p, one)
    BY <2>1, <2>2, Zenon DEF ArithOutcome
  <2>4. QED
    BY <1>3, <2>1, <2>3
<1>13. CASE i.op \in {"Imul_R_RM", "Imul_word_IMM", "Imul_byte_IMM"}
  <2>1. i.op \in ArithmeticOps
    BY <1>13 DEF ArithmeticOps
  <2>2. Goes(p, 1, one) /\ Calculated(p, one)
    BY <1>1, <1>13, LowerProductStep DEF one
  <2>3. QED
    BY <1>4, <2>1, <2>2
<1>14. CASE i.op \in {"Cbw", "Cwd"}
  <2>1. i.op \in UsedMoves
    BY <1>14 DEF UsedMoves
  <2>2. Goes(p, 1, two) /\ Calculated(p, two)
    BY <1>1, <1>14, SignStep DEF two
  <2>3. QED
    BY <1>5, <2>1, <2>2
<1>15. CASE i.op \in {"Movsx_byte_R_RM", "Movzx_byte_R_RM", "Movsx_word_R_RM", "Movzx_word_R_RM"}
  <2>1. i.op \in UsedMoves
    BY <1>15 DEF UsedMoves
  <2>2. Goes(p, 1, two) /\ Calculated(p, two)
    BY <1>1, <1>15, ExtendStep DEF two
  <2>3. QED
    BY <1>5, <2>1, <2>2
<1>16. CASE i.op \in Scans
  <2>1. Goes(p, 1, four) /\ Calculated(p, four)
    BY <1>1, <1>16, ScanStep
  <2>2. ends(four)
    <3> HIDE DEF i, four
    <3>1. QED
      BY <1>16, <2>1 DEF ends, ArithOutcome, four
  <2>3. QED
    BY <2>2 DEF found
<1>17. QED
  <2> HIDE DEF i, unary
  <2>1. QED
    BY <1>2, <1>6, <1>7, <1>8, <1>9, <1>10, <1>11, <1>12, <1>13, <1>14, <1>15, <1>16

ArithInv ==
  /\ program \in Programs
  /\ Task.kind = "arith" =>
       \/ run = "out of budget"
       \/ run = "running" /\ m = Start
       \/ run = "running" /\ At(Task, m, 2) /\ Calculated(Task, m)
       \/ run = "halted" /\ Calculated(Task, m) /\ (DivTask(Task) => ~Interrupted(Task, m, 0))
       \/ run \in {"running", "left"} /\ DivTask(Task) /\ Raised(Task) /\ Vectored(Task, m)
       \/ run = "dead" /\ DivTask(Task) /\ Least(Signs(Task), Task)

LEMMA ArithInit == Init => ArithInv
  BY DEF Init, ArithInv, Start, Task

\* The first step.
LEMMA ArithFirst ==
  ASSUME Next, run = "running", program \in Programs, Task.kind = "arith", m = Start
  PROVE  ArithInv'
<1> DEFINE i == The(1)
           f == Fetched(m, i)
<1>1. PICK e : /\ \/ i.op \in ArithmeticOps /\ e = Arithmetics(f, i)
                  \/ i.op \in UsedMoves /\ e = Moves(f, i)
                  \/ i.op = "OpcFF_word_RM" /\ e = Branches(f, i)
                  \/ i.op \in Scans /\ e = Bits(f, i)
               /\ ArithOutcome(Task, e)
  <2> DEFINE p == Task
  <2>1. p \in Programs /\ p.kind = "arith" /\ p.machine = m /\ p.code[1] = The(1)
    BY DEF Task, Start, The
  <2> HIDE DEF p
  <2>2. QED
    BY <2>1, ArithStep DEF p
<1>2. At(Task, m, 1) /\ 1 \in 1..Len(Task.code) /\ Task.kind \in Checked
  <2> DEFINE p == Task
  <2>1. p \in Programs /\ p.kind = "arith" /\ p.machine = m
    BY DEF Task, Start
  <2> HIDE DEF p
  <2>2. Executing(p, Fetched(p.machine, p.code[1]))
    BY <2>1 DEF Executing
  <2>3. QED
    BY <2>1, <2>2, ArithFacts DEF p
<1>3. \/ run' = "out of budget" /\ program' = program
      \/ Ran(e)
  <2>1. \/ run' = "out of budget" /\ program' = program
        \/ /\ i.op \in ArithmeticOps => Ran(Arithmetics(f, i))
           /\ i.op \in UsedMoves => Ran(Moves(f, i))
           /\ i.op = "OpcFF_word_RM" => Ran(Branches(f, i))
           /\ i.op \in Scans => Ran(Bits(f, i))
    BY <1>2, Executes
  <2> HIDE DEF i, f
  <2>2. QED
    BY <1>1, <2>1
<1>4. CASE run' = "out of budget" /\ program' = program
  BY <1>4 DEF ArithInv, Task
<1>5. CASE Ran(e)
  <2>1. program' = program /\ Task' = Task
    BY <1>5 DEF Ran, Task
  <2>2. CASE Goes(Task, 1, e) /\ Calculated(Task, e)
    <3> DEFINE t == Retired(e)
    <3>1. run' = "running" /\ m' = t
      BY <1>5, <2>2 DEF Ran, Goes
    <3>2. At(Task, t, 2) /\ t.r = e.r /\ t.fl = e.fl
      BY <2>2 DEF Goes
    <3> DEFINE p == Task
    <3> HIDE DEF t, p
    <3>3. Calculated(p, t)
      BY <2>2, <3>2, SameCalculated DEF p
    <3>4. run' = "running" /\ At(Task, m, 2)' /\ Calculated(Task, m)'
      BY <2>1, <3>1, <3>2, <3>3 DEF p
    <3>5. QED
      BY <2>1, <3>4 DEF ArithInv
  <2>3. CASE /\ DivTask(Task) /\ Raised(Task)
             /\ e.host # "dead" /\ Outcome(e) = "running" /\ Vectored(Task, Retired(e))
    <3>1. run' = "running" /\ m' = Retired(e)
      BY <1>5, <2>3 DEF Ran
    <3>2. DivTask(Task)' /\ Raised(Task)' /\ Vectored(Task, m)'
      BY <2>1, <2>3, <3>1
    <3>3. QED
      BY <2>1, <3>1, <3>2 DEF ArithInv
  <2>4. CASE DivTask(Task) /\ Least(Signs(Task), Task) /\ e.host = "dead"
    <3>1. run' = "dead"
      BY <1>5, <2>4 DEF Ran, Outcome
    <3>2. DivTask(Task)' /\ Least(Signs(Task), Task)'
      BY <2>1, <2>4
    <3>3. QED
      BY <2>1, <3>1, <3>2 DEF ArithInv
  <2>5. QED
    BY <1>1, <2>2, <2>3, <2>4 DEF ArithOutcome
<1>6. QED
  BY <1>3, <1>4, <1>5

\* The hlt behind it.
LEMMA ArithLast ==
  ASSUME Next, run = "running", program \in Programs, Task.kind = "arith",
         At(Task, m, 2), Calculated(Task, m)
  PROVE  ArithInv'
<1> DEFINE p == Task
           f == Fetched(p.machine, p.code[1])
<1>1. p \in Programs /\ p.kind = "arith" /\ Executing(p, f)
  BY DEF Task, Executing
<1>2. Task.kind \in Checked /\ Len(Task.code) + 1 = 2
  <2> HIDE DEF p, f
  <2>1. p.kind \in Checked /\ Len(p.code) = 1
    BY <1>1, ArithFacts
  <2>2. QED
    BY <2>1 DEF p
<1>3. /\ program' = program
      /\ \/ run' = "out of budget"
         \/ /\ run' = "halted" /\ m'.r = m.r /\ m'.fl = m.fl
            /\ \E i \in CodeAt(Task, m.eip) : m'.eip = After(Task, m.eip, i).eip
  BY <1>2, Ends
<1>4. CASE run' = "out of budget"
  BY <1>3, <1>4 DEF ArithInv, Task
<1>5. CASE /\ run' = "halted" /\ m'.r = m.r /\ m'.fl = m.fl
           /\ \E i \in CodeAt(Task, m.eip) : m'.eip = After(Task, m.eip, i).eip
  <2>1. Calculated(p, m')
    <3> DEFINE t == m'
    <3>1. t.r = m.r /\ t.fl = m.fl
      BY <1>5
    <3> HIDE DEF t, p
    <3>2. QED
      BY <3>1, SameCalculated DEF p, t
  <2>2. DivTask(p) => ~Interrupted(p, m', 0)
    <3> SUFFICES ASSUME DivTask(p) PROVE ~Interrupted(p, m', 0)
      OBVIOUS
    <3>1. DivideErrorLeaves(p)
      <4> HIDE DEF p, f
      <4>1. QED
        BY <1>1, DivideStep
    <3>2. PICK i \in CodeAt(p, m.eip) : m'.eip = After(p, m.eip, i).eip
      BY <1>5
    <3>3. m.eip = p.eips[2]
      BY DEF At
    <3> HIDE DEF p
    <3>4. QED
      BY <3>1, <3>2, <3>3 DEF DivideErrorLeaves, Interrupted
  <2>3. Task' = Task
    BY <1>3 DEF Task
  <2>4. Calculated(Task, m)' /\ (DivTask(Task) => ~Interrupted(Task, m, 0))'
    BY <2>1, <2>2, <2>3
  <2>5. QED
    BY <1>3, <1>5, <2>4 DEF ArithInv
<1>6. QED
  BY <1>3, <1>4, <1>5

\* Where the vector of the divide error leads nothing is executed.
LEMMA ArithVectored ==
  ASSUME Next, run = "running", program \in Programs, Task.kind = "arith",
         DivTask(Task), Raised(Task), Vectored(Task, m)
  PROVE  ArithInv'
<1>1. Current = {}
  BY DEF Current, Vectored, Here, Task
<1>2. OutOfBudget \/ Leaves
  BY <1>1 DEF Next
<1>3. run' \in {"out of budget", "left"} /\ program' = program /\ m' = m
  BY <1>2 DEF OutOfBudget, Leaves
<1>4. Task' = Task
  BY <1>3 DEF Task
<1>5. DivTask(Task)' /\ Raised(Task)' /\ Vectored(Task, m)'
  BY <1>3, <1>4
<1>6. QED
  BY <1>3, <1>5 DEF ArithInv

LEMMA ArithNext == ArithInv /\ [Next]_vars => ArithInv'
<1> SUFFICES ASSUME ArithInv, [Next]_vars PROVE ArithInv'
  OBVIOUS
<1>1. CASE UNCHANGED vars
  <2>1. program' = program /\ m' = m /\ run' = run /\ Task' = Task /\ Start' = Start
    BY <1>1 DEF vars, Task, Start
  <2>2. QED
    BY <2>1 DEF ArithInv
<1>2. CASE Next
  <2>1. run = "running" /\ program \in Programs
    BY <1>2, Rests DEF ArithInv
  <2>2. CASE Task.kind # "arith"
    <3>1. program' = program
      BY <1>2, SameProgram
    <3>2. QED
      BY <2>1, <2>2, <3>1 DEF ArithInv, Task
  <2>3. CASE Task.kind = "arith"
    <3>1. \/ m = Start
          \/ At(Task, m, 2) /\ Calculated(Task, m)
          \/ DivTask(Task) /\ Raised(Task) /\ Vectored(Task, m)
      BY <2>1, <2>3 DEF ArithInv
    <3>2. QED
      BY <1>2, <2>1, <2>3, <3>1, ArithFirst, ArithLast, ArithVectored
  <2>4. QED
    BY <2>2, <2>3
<1>3. QED
  BY <1>1, <1>2

\* A quotient, no quotient, or none that the host can divide.
LEMMA QuotientCases ==
  ASSUME NEW signed, NEW p, NEW n, NEW dead
  PROVE  /\ Least(signed, p) /\ (dead \/ Interrupted(p, n, 0)) => QuotientIs(signed, p, n, dead)
         /\ ~Least(signed, p) /\ Interrupted(p, n, 0) /\ NoQuotient(signed, p)
              => QuotientIs(signed, p, n, dead)
         /\ (/\ ~Least(signed, p) /\ ~Interrupted(p, n, 0) /\ ~dead
             /\ Divides(signed, p, Upper(n, p.w), Get(n, p.w, EAX)))
              => QuotientIs(signed, p, n, dead)
<1> DEFINE least == Least(signed, p)
           interrupted == Interrupted(p, n, 0)
           quotient == Divides(signed, p, Upper(n, p.w), Get(n, p.w, EAX))
           exact == QuotientIs(signed, p, n, dead)
<1>1. exact = CASE least -> dead \/ interrupted
                [] ~least /\ interrupted -> NoQuotient(signed, p)
                [] OTHER -> ~dead /\ quotient
  BY Zenon DEF QuotientIs
<1> HIDE DEF least, interrupted, quotient, exact
<1>2. ASSUME least, dead \/ interrupted PROVE exact
  BY <1>1, <1>2
<1>3. ASSUME ~least, interrupted, NoQuotient(signed, p) PROVE exact
  BY <1>1, <1>3
<1>4. ASSUME ~least, ~interrupted, ~dead, quotient PROVE exact
  BY <1>1, <1>4
<1>5. QED
  BY <1>2, <1>3, <1>4, Zenon DEF least, interrupted, quotient, exact

LEMMA DivisionMeans ==
  ASSUME NEW p, DivTask(p), NEW n, NEW dead, QuotientIs(Signs(p), p, n, dead)
  PROVE  Computes(p, n, dead)
<1>1. CASE p.code[1].reg = 6
  <2>1. Signs(p) = FALSE
    BY <1>1 DEF Signs
  <2>2. QuotientIs(FALSE, p, n, dead)
    BY <2>1, Zenon
  <2>3. CASE p.code[1].op = "OpcF6_byte_RM"
    BY <1>1, <2>2, <2>3 DEF Computes, QuotientIs, Least, NoQuotient, Divides, Value, DividendOf
  <2>4. CASE p.code[1].op = "OpcF7_word_RM"
    BY <1>1, <2>2, <2>4 DEF Computes, QuotientIs, Least, NoQuotient, Divides, Value, DividendOf
  <2>5. QED
    BY <2>3, <2>4 DEF DivTask
<1>2. CASE p.code[1].reg = 7
  <2>1. Signs(p) = TRUE
    BY <1>2 DEF Signs
  <2>2. QuotientIs(TRUE, p, n, dead)
    BY <2>1, Zenon
  <2>3. CASE p.code[1].op = "OpcF6_byte_RM"
    BY <1>2, <2>2, <2>3 DEF Computes, QuotientIs, Least, NoQuotient, Divides, Value, DividendOf
  <2>4. CASE p.code[1].op = "OpcF7_word_RM"
    BY <1>2, <2>2, <2>4 DEF Computes, QuotientIs, Least, NoQuotient, Divides, Value, DividendOf
  <2>5. QED
    BY <2>3, <2>4 DEF DivTask
<1>3. QED
  BY <1>1, <1>2 DEF DivTask

LEMMA ArithMeans == ArithInv => ArithmeticIsExact
<1> SUFFICES ASSUME ArithInv, Task.kind = "arith", Ended PROVE Computes(Task, m, run = "dead")
  BY DEF ArithmeticIsExact
<1> DEFINE p == Task
           dead == run = "dead"
<1>1. \/ run = "halted" /\ Calculated(p, m) /\ (DivTask(p) => ~Interrupted(p, m, 0))
      \/ run = "left" /\ DivTask(p) /\ Raised(p) /\ Vectored(p, m)
      \/ run = "dead" /\ DivTask(p) /\ Least(Signs(p), p)
  BY DEF ArithInv, Ended
<1>2. CASE ~DivTask(p)
  <2>1. run = "halted" /\ Computes(p, m, FALSE)
    BY <1>1, <1>2 DEF Calculated
  <2>2. dead = FALSE
    BY <2>1
  <2> HIDE DEF dead, p
  <2>3. Computes(p, m, dead)
    BY <2>1, <2>2, Zenon
  <2>4. QED
    BY <2>3 DEF dead, p
<1>3. CASE DivTask(p)
  <2> DEFINE signed == Signs(p)
             least == Least(signed, p)
             quotient == Divides(signed, p, Upper(m, p.w), Get(m, p.w, EAX))
             interrupted == Interrupted(p, m, 0)
  <2>1. \/ ~dead /\ ~least /\ quotient /\ ~interrupted
        \/ ~dead /\ (~least => NoQuotient(signed, p)) /\ interrupted
        \/ dead /\ least
    BY <1>1, <1>3, Zenon DEF Calculated, Raised, Vectored
  <2> HIDE DEF dead, p, signed
  <2>2. QuotientIs(signed, p, m, dead)
    BY <2>1, QuotientCases
  <2>3. Computes(p, m, dead)
    BY <1>3, <2>2, DivisionMeans DEF signed
  <2>4. QED
    BY <2>3 DEF dead, p
<1>4. QED
  BY <1>2, <1>3

\* Every arithmetic instruction that a guest executes computes the integer it
\* names, at any width, and leaves in the flags what does not fit: the eight
\* operations of two operands, test, inc, dec, not, neg, mul, imul, div, idiv,
\* sign and zero extension and the bit scans.  A division is exact, or the
\* divide error is taken because there is no quotient.
THEOREM ArithmeticAlwaysExact == Spec => []ArithmeticIsExact
  BY ArithInit, ArithNext, ArithMeans, PTL DEF Spec
=============================================================================
