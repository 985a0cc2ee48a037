----------------------------- MODULE EmuMemory -----------------------------
(***************************************************************************)
(* The memory and the ports of the emulators (mem.c).  A page has default  *)
(* permissions until its first use makes a block for it, half attributes,  *)
(* half content; its content may be lent by the host instead.  Words that  *)
(* lie in one page and are allowed as a whole take a short cut.            *)
(* A block is named by the memory and the page it was made for, so that    *)
(* two pages can point to one block if a pointer is copied carelessly.     *)
(* The tables of a memory are made at once: its default permissions never  *)
(* change, so that a table made later is the same.                         *)
(***************************************************************************)
EXTENDS Integers, Sequences

CONSTANTS Mem, PageSize, Pages, Ports, Buffer, None, ByteSize, Device,
          Perms, Calls, PortCalls, Ranges, PortRanges, Values,
          Lent,         \* the pages callers lend
          Hosts         \* what the buffers can hold in the beginning

VARIABLES alive,        \* the emulators that exist
          page,         \* page[m][p]: default permissions, pointers to attributes and content
          flags,        \* the attribute half of every block
          cell,         \* the content half of every block, and of every buffer
          invalid,      \* mem->invalid
          io,           \* io.map
          call,         \* the last call: the operation, the emulator, the arguments
          result        \* what it returned and sent to ports

vars == <<alive, page, flags, cell, invalid, io, call, result>>

Size    == PageSize * Pages
Address == 0 .. Size - 1
Page    == 0 .. Pages - 1
Index   == 0 .. PageSize - 1
Port    == 0 .. Ports - 1
FF      == ByteSize - 1
Byte    == 0 .. FF
Block   == Mem \X Page
Attr    == {"R", "W", "X", "VALID", "ACC_R", "ACC_W", "ACC_X", "ACC_INVALID"}

\* Addresses and ports wrap; a page and an index in it are parts of an address.
At(a, k)    == (a + k) % Size
Span(a, n)  == {At(a, k) : k \in 0 .. n - 1}
PageOf(a)   == a \div PageSize
IndexOf(a)  == a % PageSize
PortAt(p, k)   == (p + k) % Ports
PortSpan(p, n) == {PortAt(p, k) : k \in 0 .. n - 1}
Offset(a, b)   == (b - a) % Size

ASSUME SizesAssumption ==
  /\ PageSize \in Nat /\ PageSize >= 4
  /\ Pages \in Nat /\ Pages >= 2
  /\ Ports \in Nat /\ Ports >= 4
  /\ ByteSize \in Nat /\ ByteSize >= 2

ASSUME CallsAssumption ==
  /\ None \notin Buffer
  /\ Buffer \cap Block = {}
  /\ None \notin Block
  /\ Device \in [Port -> Byte]
  /\ Perms \subseteq SUBSET {"R", "W", "X", "VALID"}
  /\ Calls \subseteq Address \X {1, 2, 4}
  /\ PortCalls \subseteq Port \X {1, 2, 4}
  /\ Ranges \subseteq Address \X Address
  /\ PortRanges \subseteq Port \X Nat
  /\ Values \subseteq [1 .. 4 -> Byte]
  /\ Lent \subseteq Page
  /\ Hosts \subseteq [Buffer -> [Index -> Byte]]

Nothing         == [val |-> <<>>, invalid |-> FALSE, sent |-> <<>>]
Returns(v, bad) == [Nothing EXCEPT !.val = v, !.invalid = bad]
Unmade(perm)    == [def |-> perm, attr |-> None, data |-> None]

Init ==
  /\ alive = {}
  /\ page  = [m \in Mem |-> [p \in Page |-> Unmade({})]]
  /\ flags = [k \in Block |-> [i \in Index |-> {}]]
  /\ \E h \in Hosts :
       cell = [k \in Block \cup Buffer |-> IF k \in Buffer THEN h[k] ELSE [i \in Index |-> 0]]
  /\ invalid = [m \in Mem |-> FALSE]
  /\ io    = [m \in Mem |-> [p \in Port |-> {}]]
  /\ call = <<"none", None>> /\ result = Nothing

(***************************************************************************)
(* Pages.                                                                  *)
(***************************************************************************)
\* vm_get_page(.., 1) for each page of P: the memory with these pages made.
Fresh(m, P) == {p \in P : page[m][p].attr = None}

Got(m, P) ==
  LET F == Fresh(m, P)
  IN  [page  |-> [page EXCEPT ![m] = [p \in Page |->
                    IF p \in F THEN [page[m][p] EXCEPT !.attr = <<m, p>>, !.data = <<m, p>>]
                               ELSE page[m][p]]],
       flags |-> [k \in Block |-> IF k[1] = m /\ k[2] \in F
                                  THEN [i \in Index |-> page[m][k[2]].def] ELSE flags[k]],
       cell  |-> [k \in Block \cup Buffer |-> IF k \in {m} \X F
                                              THEN [i \in Index |-> 0] ELSE cell[k]]]

GotFor(m, S) == Got(m, {PageOf(b) : b \in S})

Becomes(st) == page' = st.page /\ flags' = st.flags /\ cell' = st.cell

\* The bytes of S that lie at index i of block or buffer k.
AttrHere(st, m, S, k, i) == {b \in S : st.page[m][PageOf(b)].attr = k /\ IndexOf(b) = i}
DataHere(st, m, S, k, i) == {b \in S : st.page[m][PageOf(b)].data = k /\ IndexOf(b) = i}
Attribute(st, m, b) == st.flags[st.page[m][PageOf(b)].attr][IndexOf(b)]
Content(st, m, b)   == st.cell[st.page[m][PageOf(b)].data][IndexOf(b)]

\* x86emu_new, as far as memory and ports are concerned.
New(m, perm) ==
  /\ call' = <<"new", m, perm>>
  /\ m \notin alive
  /\ alive' = alive \cup {m}
  /\ page' = [page EXCEPT ![m] = [p \in Page |-> Unmade(perm)]]
  /\ invalid' = [invalid EXCEPT ![m] = FALSE]
  /\ io' = [io EXCEPT ![m] = [p \in Port |-> {}]]
  /\ result' = Nothing
  /\ UNCHANGED <<flags, cell>>

(***************************************************************************)
(* Accesses.  vm_memio clears mem->invalid first and returns it; the bytes *)
(* of an access are different, so that their order does not matter.        *)
(***************************************************************************)
Memio(m, v, bad) ==
  /\ invalid' = [invalid EXCEPT ![m] = bad]
  /\ result'  = Returns(v, bad)
  /\ UNCHANGED <<alive, io>>

\* The n bytes at a lie in one page, and each has the attributes in need.
InOnePage(a, n) == n > 1 /\ IndexOf(a) <= PageSize - n
AllHave(st, m, a, n, need) ==
  \A k \in 0 .. n - 1 : need \subseteq st.flags[st.page[m][PageOf(a)].attr][IndexOf(a) + k]

\* Mutant: the short cut asks for the permission, not for valid content.
ShortcutUnchecked(st, m, a, n, need) ==
  InOnePage(a, n) /\ AllHave(st, m, a, n, need \ {"VALID"})

Shortcut(st, m, a, n, need) == InOnePage(a, n) /\ AllHave(st, m, a, n, need)

\* The run of n bytes from a in its page gets the attributes in acc.
RunMarked(st, m, a, n, acc) ==
  LET k == st.page[m][PageOf(a)].attr
  IN  [st EXCEPT !.flags[k] = [i \in Index |->
         IF i \in IndexOf(a) .. IndexOf(a) + n - 1
         THEN st.flags[k][i] \cup acc ELSE st.flags[k][i]]]

ReadRun(st, m, a, n) ==
  /\ Becomes(RunMarked(st, m, a, n, {"ACC_R"}))
  /\ Memio(m, [j \in 1 .. n |-> st.cell[st.page[m][PageOf(a)].data][IndexOf(a) + j - 1]], FALSE)

\* vm_r_byte and vm_x_byte for each byte.
ReadBytes(st, m, a, n, need, acc) ==
  LET S == {b \in Span(a, n) : need \in Attribute(st, m, b)}
      I == {b \in S : "VALID" \notin Attribute(st, m, b)}
  IN  /\ Becomes([st EXCEPT !.flags = [k \in Block |-> [i \in Index |->
                    st.flags[k][i]
                    \cup (IF AttrHere(st, m, S, k, i) # {} THEN {acc} ELSE {})
                    \cup (IF AttrHere(st, m, I, k, i) # {} THEN {"ACC_INVALID"} ELSE {})]]])
      /\ Memio(m, [j \in 1 .. n |-> IF At(a, j - 1) \in S THEN Content(st, m, At(a, j - 1)) ELSE FF],
                  S # Span(a, n) \/ I # {})

Read(m, a, n) ==
  /\ call' = <<"read", m, a, n>>
  /\ LET st == GotFor(m, Span(a, n))
     IN  IF Shortcut(st, m, a, n, {"R", "VALID"}) THEN ReadRun(st, m, a, n)
                                                  ELSE ReadBytes(st, m, a, n, "R", "ACC_R")

Fetch(m, a, n) ==
  /\ call' = <<"fetch", m, a, n>>
  /\ ReadBytes(GotFor(m, Span(a, n)), m, a, n, "X", "ACC_X")

WriteRun(st, m, a, n, v) ==
  LET mk == RunMarked(st, m, a, n, {"VALID", "ACC_W"})
      d  == st.page[m][PageOf(a)].data
  IN  /\ Becomes([mk EXCEPT !.cell = [st.cell EXCEPT ![d] = [i \in Index |->
                    IF i \in IndexOf(a) .. IndexOf(a) + n - 1
                    THEN v[i - IndexOf(a) + 1] ELSE st.cell[d][i]]]])
      /\ Memio(m, <<>>, FALSE)

\* The bytes S of a write of v to a are stored.
BytesStored(st, m, a, v, S) ==
  [st EXCEPT
     !.flags = [k \in Block |-> [i \in Index |->
        st.flags[k][i] \cup (IF AttrHere(st, m, S, k, i) # {} THEN {"VALID", "ACC_W"} ELSE {})]],
     !.cell = [k \in Block \cup Buffer |-> [i \in Index |->
        LET D == DataHere(st, m, S, k, i)
        IN  IF D = {} THEN st.cell[k][i] ELSE v[Offset(a, CHOOSE b \in D : TRUE) + 1]]]]

\* vm_w_byte for each byte.
WriteBytes(st, m, a, n, v) ==
  LET S  == {b \in Span(a, n) : "W" \in Attribute(st, m, b)}
      R  == Span(a, n) \ S
      ws == BytesStored(st, m, a, v, S)
  IN  /\ Becomes([ws EXCEPT !.flags = [k \in Block |-> [i \in Index |->
                    ws.flags[k][i]
                    \cup (IF AttrHere(st, m, R, k, i) # {} THEN {"ACC_INVALID"} ELSE {})]]])
      /\ Memio(m, <<>>, R # {})

Write(m, a, n, v) ==
  /\ call' = <<"write", m, a, n, v>>
  /\ LET st == GotFor(m, Span(a, n))
     IN  IF Shortcut(st, m, a, n, {"W"}) THEN WriteRun(st, m, a, n, v)
                                         ELSE WriteBytes(st, m, a, n, v)

\* vm_r_byte_noperm and vm_w_byte_noperm.
Peek(m, a) ==
  /\ call' = <<"peek", m, a>>
  /\ LET st == GotFor(m, {a})
     IN  Becomes(st) /\ Memio(m, <<Content(st, m, a)>>, FALSE)

Poke(m, a, v) ==
  /\ call' = <<"poke", m, a, v>>
  /\ Becomes(BytesStored(GotFor(m, {a}), m, a, v, {a}))
  /\ Memio(m, <<>>, FALSE)

(***************************************************************************)
(* Management.                                                             *)
(***************************************************************************)
\* The page of the first address, if the range begins inside it, is made and
\* gets perm byte by byte; whole pages get it as their default, and byte by
\* byte if they are made; what is left is a beginning of a page that is made.
\* A range that begins at address 0 ends with the first whole page; one that
\* ends with the address space goes round to page 0, of which it sets nothing.
HeadOf(first, last) ==
  {b \in first .. last : IndexOf(first) # 0 /\ PageOf(b) = PageOf(first)}

WholePages(first, last) ==
  LET inside == {p \in Page : first <= p * PageSize /\ p * PageSize + PageSize - 1 <= last}
  IN  IF first = 0 THEN inside \cap {0} ELSE inside

TailOf(first, last) ==
  IF first = 0 /\ WholePages(first, last) # {} THEN {}
  ELSE {b \in first .. last : b \notin HeadOf(first, last) /\ PageOf(b) \notin WholePages(first, last)}

GoesRound(first, last) == last = Size - 1 /\ WholePages(first, last) # {} /\ first # 0

PermSet(st, m, first, last, perm) ==
  LET B == HeadOf(first, last) \cup TailOf(first, last)
      W == WholePages(first, last)
  IN  [st EXCEPT
         !.page = [st.page EXCEPT ![m] = [p \in Page |->
            IF p \in W THEN [st.page[m][p] EXCEPT !.def = perm] ELSE st.page[m][p]]],
         !.flags = [k \in Block |-> [i \in Index |->
            IF AttrHere(st, m, B, k, i) # {} \/ \E p \in W : st.page[m][p].attr = k
            THEN perm ELSE st.flags[k][i]]]]

SetPerm(m, first, last, perm) ==
  LET B == HeadOf(first, last) \cup TailOf(first, last)
      Made == {PageOf(b) : b \in B} \cup (IF GoesRound(first, last) THEN {0} ELSE {})
  IN  /\ first <= last
      /\ call' = <<"set_perm", m, first, last, perm>>
      /\ Becomes(PermSet(Got(m, Made), m, first, last, perm))
      /\ result' = Nothing
      /\ UNCHANGED <<alive, invalid, io>>

\* l is a buffer of the host, or None for the block the page began with.
SetPage(m, p, l) ==
  LET st == Got(m, {p})
      k  == st.page[m][p].attr
  IN  /\ call' = <<"set_page", m, p, l>>
      /\ Becomes(IF l # None
                 THEN [st EXCEPT
                         !.page  = [st.page EXCEPT ![m][p].data = l],
                         !.flags = [st.flags EXCEPT
                                      ![k] = [i \in Index |-> st.flags[k][i] \cup {"VALID"}]]]
                 ELSE [st EXCEPT !.page = [st.page EXCEPT ![m][p].data = k]])
      /\ result' = Nothing
      /\ UNCHANGED <<alive, invalid, io>>

ResetStats(m) ==
  /\ call' = <<"reset_access_stats", m>>
  /\ flags' = [k \in Block |-> IF \E p \in Page : page[m][p].attr = k
                               THEN [i \in Index |-> flags[k][i] \cap {"R", "W", "X", "VALID"}]
                               ELSE flags[k]]
  /\ result' = Nothing
  /\ UNCHANGED <<alive, page, cell, invalid, io>>

\* Mutant: the content of the copy is that of the original.
CopySharesContent(c, p, pg) ==
  IF pg.attr = None THEN pg ELSE [pg EXCEPT !.attr = <<c, p>>]

\* emu_mem_clone: the copy of a page of which the content is its own points
\* to its own content; lent pages stay shared.
CopiedPage(c, p, pg) ==
  IF pg.attr = None THEN pg
  ELSE [pg EXCEPT !.attr = <<c, p>>, !.data = IF pg.data = pg.attr THEN <<c, p>> ELSE pg.data]

Clone(m, c) ==
  LET dup(k) == k[1] = c /\ page[m][k[2]].attr # None
  IN  /\ c \notin alive
      /\ call' = <<"clone", m, c>>
      /\ alive' = alive \cup {c}
      /\ page'  = [page EXCEPT ![c] = [p \in Page |-> CopiedPage(c, p, page[m][p])]]
      /\ flags' = [k \in Block |-> IF dup(k) THEN flags[page[m][k[2]].attr] ELSE flags[k]]
      /\ cell'  = [k \in Block \cup Buffer |->
                     IF k \in Block /\ dup(k) THEN cell[page[m][k[2]].attr] ELSE cell[k]]
      /\ invalid' = [invalid EXCEPT ![c] = invalid[m]]
      /\ io' = [io EXCEPT ![c] = io[m]]
      /\ result' = Nothing

\* x86emu_done: tables and blocks of the memory are freed.
Done(m) ==
  /\ call' = <<"done", m>>
  /\ alive' = alive \ {m}
  /\ page'  = [page EXCEPT ![m] = [p \in Page |-> Unmade({})]]
  /\ io'    = [io EXCEPT ![m] = [p \in Port |-> {}]]
  /\ result' = Nothing
  /\ UNCHANGED <<flags, cell, invalid>>

(***************************************************************************)
(* Ports.  Their attributes are a table of the emulator; an access of      *)
(* which every port is allowed is one access of the host, any other one    *)
(* an access per port.                                                     *)
(***************************************************************************)
AllPorts(m, a, n, need) ==
  n > 1 /\ a <= Ports - n /\ \A k \in 0 .. n - 1 : need \in io[m][a + k]

PortsMarked(m, P, acc) == [p \in Port |-> IF p \in P THEN io[m][p] \cup {acc} ELSE io[m][p]]

PortIo(m, map, v, bad, sent) ==
  /\ io' = [io EXCEPT ![m] = map]
  /\ invalid' = [invalid EXCEPT ![m] = bad]
  /\ result' = [val |-> v, invalid |-> bad, sent |-> sent]
  /\ UNCHANGED <<alive, page, flags, cell>>

\* The map after vm_i_byte or vm_o_byte for each port of S, P those allowed.
EachMarked(m, S, P, acc) ==
  [p \in Port |-> CASE p \in P     -> io[m][p] \cup {acc}
                    [] p \in S \ P -> io[m][p] \cup {"ACC_INVALID"}
                    [] OTHER       -> io[m][p]]

In(m, a, n) ==
  LET S == PortSpan(a, n)
      P == {p \in S : "R" \in io[m][p]}
  IN  /\ call' = <<"in", m, a, n>>
      /\ IF AllPorts(m, a, n, "R")
         THEN PortIo(m, PortsMarked(m, a .. a + n - 1, "ACC_R"),
                     [j \in 1 .. n |-> Device[a + j - 1]], FALSE, <<>>)
         ELSE PortIo(m, EachMarked(m, S, P, "ACC_R"),
                     [j \in 1 .. n |-> IF PortAt(a, j - 1) \in P THEN Device[PortAt(a, j - 1)] ELSE FF],
                     P # S, <<>>)

\* vm_o_byte gets the whole value for each port: all get its lowest byte.
Out(m, a, n, v) ==
  LET S == PortSpan(a, n)
      P == {p \in S : "W" \in io[m][p]}
  IN  /\ call' = <<"out", m, a, n, v>>
      /\ IF AllPorts(m, a, n, "W")
         THEN PortIo(m, PortsMarked(m, a .. a + n - 1, "ACC_W"), <<>>, FALSE,
                     [p \in a .. a + n - 1 |-> v[p - a + 1]])
         ELSE PortIo(m, EachMarked(m, S, P, "ACC_W"), <<>>, P # S, [p \in P |-> v[1]])

SetIoPerm(m, first, last, perm) ==
  /\ call' = <<"set_io_perm", m, first, last, perm>>
  /\ io' = [io EXCEPT ![m] = [p \in Port |-> IF first <= p /\ p <= last THEN perm ELSE io[m][p]]]
  /\ result' = Nothing
  /\ UNCHANGED <<alive, page, flags, cell, invalid>>

Accesses ==
  \E m \in alive : \E x \in Calls :
    \/ Read(m, x[1], x[2])
    \/ Fetch(m, x[1], x[2])
    \/ \E v \in Values : Write(m, x[1], x[2], v)
    \/ Peek(m, x[1])
    \/ \E v \in Values : Poke(m, x[1], v)

Management ==
  \E m \in alive :
    \/ \E r \in Ranges : \E perm \in Perms : SetPerm(m, r[1], r[2], perm)
    \/ \E p \in Lent : \E l \in Buffer \cup {None} : SetPage(m, p, l)
    \/ ResetStats(m)
    \/ \E c \in Mem : Clone(m, c)
    \/ Done(m)

PortAccesses ==
  \E m \in alive :
    \/ \E x \in PortCalls : In(m, x[1], x[2])
    \/ \E x \in PortCalls : \E v \in Values : Out(m, x[1], x[2], v)
    \/ \E r \in PortRanges : \E perm \in Perms : SetIoPerm(m, r[1], r[2], perm)

Next ==
  \/ \E m \in Mem : \E perm \in Perms : New(m, perm)
  \/ Accesses
  \/ Management
  \/ PortAccesses

Spec == Init /\ [][Next]_vars

(***************************************************************************)
(* Properties.                                                             *)
(***************************************************************************)
TypeOK ==
  /\ alive \subseteq Mem
  /\ page \in [Mem -> [Page -> [def : SUBSET Attr, attr : Block \cup {None},
                                data : Block \cup Buffer \cup {None}]]]
  /\ flags \in [Block -> [Index -> SUBSET Attr]]
  /\ cell \in [Block \cup Buffer -> [Index -> Byte]]
  /\ invalid \in [Mem -> BOOLEAN]
  /\ io \in [Mem -> [Port -> SUBSET Attr]]

\* No block belongs to two pages, of one emulator or of two, and the content
\* of a page is the other half of its own block or lent by the host: so a
\* clone and its original can go on, and be freed, independently (the copies
\* and pointers of vm_get_page, set_page and emu_mem_clone).
BlocksOwned ==
  \A m \in Mem : \A p \in Page :
    LET pg == page[m][p]
    IN  \/ pg.attr = None /\ pg.data = None
        \/ pg.attr = <<m, p>> /\ m \in alive /\ pg.data \in Buffer \cup {pg.attr}

\* The memories as arrays of bytes.
AttrOf == [m \in Mem |-> [b \in Address |->
  LET pg == page[m][PageOf(b)]
  IN  IF pg.attr = None THEN pg.def ELSE flags[pg.attr][IndexOf(b)]]]
OwnOf == [m \in Mem |-> [b \in Address |->
  LET pg == page[m][PageOf(b)]
  IN  IF pg.attr = None THEN 0 ELSE cell[pg.attr][IndexOf(b)]]]
LentOf == [m \in Mem |-> [p \in Page |->
  IF page[m][p].data \in Buffer THEN page[m][p].data ELSE None]]
HostOf == [l \in Buffer |-> cell[l]]

Flat == INSTANCE FlatMemory WITH attr <- AttrOf, own <- OwnOf, lent <- LentOf, host <- HostOf

\* Pages, blocks, short cuts and copies never show: whatever callers do, each
\* access gives and leaves what it would byte by byte in a plain array (all
\* of mem.c).
ImplementsFlat == Flat!Spec
=============================================================================
