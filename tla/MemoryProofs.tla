---------------------------- MODULE MemoryProofs ----------------------------
(***************************************************************************)
(* Proofs about the memory of the emulators, for all sizes and calls: the  *)
(* blocks of mem.c are owned by one page each, and whatever the pages are  *)
(* made of, every emulator has a plain array of bytes and ports.           *)
(* Each action of EmuMemory is shown to keep the invariant and to be the   *)
(* action of FlatMemory with its name; the accesses by the short cut and   *)
(* byte by byte are first brought to one form (ReadDone, WriteDone).       *)
(***************************************************************************)
EXTENDS EmuMemory, TLAPS

\* Division and remainder.
LEMMA DivMod ==
  ASSUME NEW x \in Nat, NEW d \in Nat, d > 0
  PROVE  /\ x \div d \in Nat /\ x % d \in 0 .. d - 1
         /\ x = (x \div d) * d + (x % d)
  OBVIOUS

\* Quotient and remainder are the only ones.
LEMMA ModUnique ==
  ASSUME NEW d \in Nat, d > 0, NEW q \in Int, NEW r \in 0 .. d - 1
  PROVE  (q * d + r) % d = r /\ (q * d + r) \div d = q
  OBVIOUS

\* The sizes of an address space.
LEMMA SizeFacts ==
  /\ Size \in Nat /\ Size >= 8 /\ PageSize \in Nat /\ PageSize >= 4 /\ Pages \in Nat /\ Pages >= 2
  BY SizesAssumption DEF Size

\* An address is a page and an index in it (the table of tables of mem.c).
LEMMA PageIndex ==
  ASSUME NEW b \in Address
  PROVE  /\ PageOf(b) \in Page /\ IndexOf(b) \in Index
         /\ b = PageOf(b) * PageSize + IndexOf(b)
<1>1. b \in Nat /\ b < Pages * PageSize
  BY SizesAssumption DEF Address, Size
<1>2. /\ PageOf(b) \in Nat /\ IndexOf(b) \in Index /\ b = PageOf(b) * PageSize + IndexOf(b)
  BY <1>1, SizesAssumption, DivMod DEF PageOf, IndexOf, Index
<1>3. PageOf(b) < Pages
  <2>1. SUFFICES ASSUME PageOf(b) >= Pages PROVE FALSE
    BY <1>2, SizesAssumption
  <2>2. PageOf(b) * PageSize >= Pages * PageSize
    BY <2>1, <1>2, SizesAssumption
  <2>. QED  BY <2>2, <1>1, <1>2, SizesAssumption DEF Index
<1>. QED  BY <1>2, <1>3, SizesAssumption DEF Page

\* A page and an index in it make an address, and only one.
LEMMA PageIndexUnique ==
  ASSUME NEW p \in Page, NEW i \in Index
  PROVE  /\ p * PageSize + i \in Address
         /\ PageOf(p * PageSize + i) = p /\ IndexOf(p * PageSize + i) = i
<1>1. p \in Nat /\ p <= Pages - 1 /\ i \in 0 .. PageSize - 1
  BY SizesAssumption DEF Page, Index
<1>2. PageOf(p * PageSize + i) = p /\ IndexOf(p * PageSize + i) = i
  BY <1>1, SizesAssumption, ModUnique DEF PageOf, IndexOf
<1>3. p * PageSize <= (Pages - 1) * PageSize
  BY <1>1, SizesAssumption
<1>4. (Pages - 1) * PageSize = PageSize * Pages - PageSize /\ p * PageSize \in Nat
  BY <1>1, SizesAssumption
<1>. QED  BY <1>1, <1>2, <1>3, <1>4, SizesAssumption DEF Address, Size

\* The bytes of an access: they are addresses, one for each offset.
LEMMA SpanFacts ==
  ASSUME NEW a \in Address, NEW n \in {1, 2, 4}
  PROVE  /\ Span(a, n) \subseteq Address
         /\ \A k \in 0 .. n - 1 : At(a, k) \in Span(a, n) /\ Offset(a, At(a, k)) = k
         /\ \A b \in Span(a, n) : Offset(a, b) \in 0 .. n - 1 /\ b = At(a, Offset(a, b))
<1>1. ASSUME NEW k \in 0 .. n - 1
      PROVE  At(a, k) \in Address /\ Offset(a, At(a, k)) = k
  <2>1. a \in Nat /\ a < Size /\ k < Size /\ k \in Nat /\ Size \in Nat /\ Size >= 8
    BY SizeFacts DEF Address
  <2>2. CASE a + k < Size
    <3>1. At(a, k) = a + k
      BY <2>1, <2>2, ModUnique DEF At
    <3>. QED  BY <2>1, <2>2, <3>1, ModUnique DEF Offset, Address
  <2>3. CASE a + k >= Size
    <3>1. (1 * Size + (a + k - Size)) % Size = a + k - Size
      BY <2>1, <2>3, ModUnique
    <3>2. At(a, k) = a + k - Size
      BY <2>1, <2>3, <3>1 DEF At
    <3>3. ((-1) * Size + k) % Size = k
      BY <2>1, ModUnique
    <3>. QED  BY <2>1, <2>3, <3>2, <3>3 DEF Offset, Address
  <2>. QED  BY <2>1, <2>2, <2>3
<1>. QED  BY <1>1 DEF Span

\* An access that lies in one page does not wrap, and its bytes follow each
\* other there.
LEMMA InPageFacts ==
  ASSUME NEW a \in Address, NEW n \in {1, 2, 4}, IndexOf(a) <= PageSize - n
  PROVE  /\ \A k \in 0 .. n - 1 :
              At(a, k) = a + k /\ PageOf(a + k) = PageOf(a) /\ IndexOf(a + k) = IndexOf(a) + k
         /\ \A b \in Address : b \in Span(a, n)
              <=> PageOf(b) = PageOf(a) /\ IndexOf(b) \in IndexOf(a) .. IndexOf(a) + n - 1
         /\ \A b \in Span(a, n) : Offset(a, b) = IndexOf(b) - IndexOf(a)
<1>1. ASSUME NEW k \in 0 .. n - 1
      PROVE  At(a, k) = a + k /\ PageOf(a + k) = PageOf(a) /\ IndexOf(a + k) = IndexOf(a) + k
  <2>1. PageOf(a) \in Page /\ IndexOf(a) \in Index /\ a = PageOf(a) * PageSize + IndexOf(a)
    BY PageIndex
  <2>2. IndexOf(a) + k \in Index
    BY <2>1, SizesAssumption DEF Index
  <2>3. PageOf(a) \in Nat /\ a + k = PageOf(a) * PageSize + (IndexOf(a) + k)
    BY <2>1, SizesAssumption DEF Page, Index
  <2>4. PageOf(a + k) = PageOf(a) /\ IndexOf(a + k) = IndexOf(a) + k /\ a + k \in Address
    BY <2>1, <2>2, <2>3, PageIndexUnique
  <2>5. (0 * Size + (a + k)) % Size = a + k
    BY <2>4, SizeFacts, ModUnique DEF Address
  <2>6. 0 * Size + (a + k) = a + k
    BY <2>4, SizeFacts DEF Address
  <2>. QED  BY <2>4, <2>5, <2>6 DEF At
<1>2. ASSUME NEW b \in Address, PageOf(b) = PageOf(a),
             IndexOf(b) \in IndexOf(a) .. IndexOf(a) + n - 1
      PROVE  b \in Span(a, n)
  <2>1. /\ PageOf(a) \in Page /\ IndexOf(a) \in Index /\ a = PageOf(a) * PageSize + IndexOf(a)
        /\ IndexOf(b) \in Index /\ b = PageOf(b) * PageSize + IndexOf(b)
    BY PageIndex
  <2>2. IndexOf(b) - IndexOf(a) \in 0 .. n - 1 /\ b = a + (IndexOf(b) - IndexOf(a))
    BY <2>1, <1>2, SizesAssumption DEF Index, Page, Address
  <2>3. At(a, IndexOf(b) - IndexOf(a)) = b
    BY <1>1, <2>2
  <2>. QED  BY <2>2, <2>3 DEF Span
<1>3. ASSUME NEW b \in Span(a, n)
      PROVE  /\ PageOf(b) = PageOf(a) /\ IndexOf(b) \in IndexOf(a) .. IndexOf(a) + n - 1
             /\ Offset(a, b) = IndexOf(b) - IndexOf(a)
  <2>1. Offset(a, b) \in 0 .. n - 1 /\ b = At(a, Offset(a, b))
    BY SpanFacts
  <2>2. PageOf(b) = PageOf(a) /\ IndexOf(b) = IndexOf(a) + Offset(a, b)
    BY <1>1, <2>1
  <2>3. IndexOf(a) \in Int
    BY PageIndex DEF Index
  <2>. QED  BY <2>1, <2>2, <2>3
<1>. QED  BY <1>1, <1>2, <1>3, SpanFacts

(***************************************************************************)
(* States of the memories, as the operators of EmuMemory pass them on.     *)
(***************************************************************************)
PageEntry == [def : SUBSET {"R", "W", "X", "VALID"}, attr : Block \cup {None},
              data : Block \cup Buffer \cup {None}]
Flags  == [Index -> SUBSET Attr]
Cells  == [Index -> Byte]
FlagTable == [Block -> Flags]
CellTable == [Block \cup Buffer -> Cells]
Memory == [page : [Mem -> [Page -> PageEntry]], flags : FlagTable, cell : CellTable]

Now == [page |-> page, flags |-> flags, cell |-> cell]

UnmadeIn(st, m, p) == st.page[m][p].attr = None /\ st.page[m][p].data = None
MadeIn(st, m, p) ==
  st.page[m][p].attr = <<m, p>> /\ st.page[m][p].data \in Buffer \cup {<<m, p>>}

\* Blocks are owned, and only living emulators have any.
Good(st, A) ==
  /\ st \in Memory
  /\ \A m \in Mem, p \in Page : UnmadeIn(st, m, p) \/ (m \in A /\ MadeIn(st, m, p))

\* What a byte, a page and a buffer look like from outside.
AttrIn(st, m, b) == IF st.page[m][PageOf(b)].attr = None THEN st.page[m][PageOf(b)].def
                    ELSE st.flags[st.page[m][PageOf(b)].attr][IndexOf(b)]
OwnIn(st, m, b)  == IF st.page[m][PageOf(b)].attr = None THEN 0
                    ELSE st.cell[st.page[m][PageOf(b)].attr][IndexOf(b)]
LentIn(st, m, p) == IF st.page[m][p].data \in Buffer THEN st.page[m][p].data ELSE None

Same(st, new) ==
  /\ \A m \in Mem, b \in Address : AttrIn(new, m, b) = AttrIn(st, m, b)
                                   /\ OwnIn(new, m, b) = OwnIn(st, m, b)
  /\ \A m \in Mem, p \in Page : LentIn(new, m, p) = LentIn(st, m, p)
  /\ \A l \in Buffer : new.cell[l] = st.cell[l]

\* The block of a page is told from every other one, from buffers and from None.
LEMMA OwnBlock ==
  ASSUME NEW m \in Mem, NEW p \in Page
  PROVE  <<m, p>> \in Block /\ <<m, p>> # None /\ <<m, p>> \notin Buffer
  BY CallsAssumption DEF Block

\* Blocks, buffers and the null pointer are told from each other.
LEMMA NotBlocks == None \notin Block /\ None \notin Buffer /\ Block \cap Buffer = {}
  BY CallsAssumption

\* Fresh content and what a refused read returns are bytes.
LEMMA ByteFacts == 0 \in Byte /\ FF \in Byte /\ {"R", "W", "X", "VALID"} \subseteq Attr
  BY SizesAssumption DEF Byte, FF, Attr

\* Making pages changes nothing that can be seen, and these pages are made.
LEMMA GotFacts ==
  ASSUME NEW m \in alive, alive \subseteq Mem, Good(Now, alive), NEW P \in SUBSET Page
  PROVE  /\ Good(Got(m, P), alive) /\ Same(Now, Got(m, P))
         /\ \A p \in P : MadeIn(Got(m, P), m, p)
<1>. DEFINE F == Fresh(m, P)
            made(p) == [page[m][p] EXCEPT !.attr = <<m, p>>, !.data = <<m, p>>]
            row == [p \in Page |-> IF p \in F THEN made(p) ELSE page[m][p]]
            pg == [page EXCEPT ![m] = row]
            fl == [k \in Block |-> IF k[1] = m /\ k[2] \in F
                                   THEN [i \in Index |-> page[m][k[2]].def] ELSE flags[k]]
            ce == [k \in Block \cup Buffer |-> IF k \in {m} \X F
                                               THEN [i \in Index |-> 0] ELSE cell[k]]
<1>1. Got(m, P) = [page |-> pg, flags |-> fl, cell |-> ce]
  BY DEF Got
<1>2. /\ page \in [Mem -> [Page -> PageEntry]] /\ flags \in [Block -> Flags]
      /\ cell \in [Block \cup Buffer -> Cells] /\ m \in Mem
  BY DEF Good, Memory, Now, FlagTable, CellTable
<1>3. \A m2 \in Mem, p \in Page :
        \/ page[m2][p].attr = None /\ page[m2][p].data = None
        \/ /\ m2 \in alive /\ page[m2][p].attr = <<m2, p>>
           /\ page[m2][p].data \in Buffer \cup {<<m2, p>>}
  BY DEF Good, Now, UnmadeIn, MadeIn
<1>4. F \subseteq Page /\ \A p \in F : page[m][p].attr = None /\ page[m][p].data = None
  BY <1>2, <1>3, OwnBlock DEF Fresh
<1>5. \A k \in Block : fl[k] = IF k[1] = m /\ k[2] \in F
                               THEN [i \in Index |-> page[m][k[2]].def] ELSE flags[k]
  OBVIOUS
<1>6. \A k \in Block \cup Buffer : ce[k] = IF k \in {m} \X F THEN [i \in Index |-> 0] ELSE cell[k]
  OBVIOUS
<1>7. ASSUME NEW p \in Page
      PROVE  /\ made(p) \in PageEntry /\ made(p).def = page[m][p].def
             /\ made(p).attr = <<m, p>> /\ made(p).data = <<m, p>>
  <2>1. page[m][p] \in PageEntry
    BY <1>2
  <2>. HIDE DEF pg, fl, ce, row, F
  <2>. QED  BY <1>2, <2>1, OwnBlock DEF PageEntry
<1>. HIDE DEF made
<1>8. row \in [Page -> PageEntry] /\ \A p \in Page : row[p] = IF p \in F THEN made(p) ELSE page[m][p]
  BY <1>2, <1>7
<1>. HIDE DEF row
<1>9. /\ pg \in [Mem -> [Page -> PageEntry]]
      /\ \A m2 \in Mem : pg[m2] = IF m2 = m THEN row ELSE page[m2]
  BY <1>2, <1>8
<1>10. fl \in [Block -> Flags] /\ ce \in [Block \cup Buffer -> Cells]
  <2>1. ASSUME NEW k \in Block PROVE fl[k] \in Flags
    <3>1. CASE k[1] = m /\ k[2] \in F
      <4>1. page[m][k[2]] \in PageEntry
        BY <1>2, <1>4, <3>1
      <4>2. page[m][k[2]].def \in SUBSET Attr
        BY <4>1, ByteFacts DEF PageEntry
      <4>. QED  BY <1>5, <3>1, <4>2 DEF Flags
    <3>. QED  BY <3>1, <1>2, <1>5
  <2>2. ASSUME NEW k \in Block \cup Buffer PROVE ce[k] \in Cells
    BY <1>2, <1>6, ByteFacts DEF Cells
  <2>. QED  BY <2>1, <2>2
<1>. HIDE DEF F, pg, fl, ce
<1>11. Got(m, P) \in Memory
  BY <1>1, <1>9, <1>10 DEF Memory, FlagTable, CellTable
<1>15. Got(m, P).page = pg /\ Got(m, P).flags = fl /\ Got(m, P).cell = ce
  BY <1>1
<1>12. ASSUME NEW m2 \in Mem, NEW p \in Page
       PROVE  UnmadeIn(Got(m, P), m2, p) \/ (m2 \in alive /\ MadeIn(Got(m, P), m2, p))
  <2>1. CASE m2 = m /\ p \in F
    <3>1. pg[m2][p] = made(p)
      BY <1>8, <1>9, <2>1
    <3>2. pg[m2][p].attr = <<m2, p>> /\ pg[m2][p].data = <<m2, p>>
      BY <1>7, <2>1, <3>1
    <3>3. MadeIn(Got(m, P), m2, p)
      BY <1>15, <3>2 DEF MadeIn
    <3>. QED  BY <2>1, <3>3
  <2>2. CASE ~(m2 = m /\ p \in F)
    <3>1. pg[m2][p] = page[m2][p]
      BY <1>8, <1>9, <2>2
    <3>. QED  BY <1>3, <1>15, <3>1 DEF UnmadeIn, MadeIn
  <2>. QED  BY <2>1, <2>2
<1>13. ASSUME NEW p \in P PROVE MadeIn(Got(m, P), m, p)
  <2>1. CASE p \in F
    <3>1. pg[m][p] = made(p) /\ p \in Page
      BY <1>2, <1>4, <1>8, <1>9, <2>1
    <3>2. pg[m][p].attr = <<m, p>> /\ pg[m][p].data = <<m, p>>
      BY <1>7, <3>1
    <3>. QED  BY <1>15, <3>2 DEF MadeIn
  <2>2. CASE p \notin F
    <3>1. pg[m][p] = page[m][p] /\ page[m][p].attr # None
      BY <1>2, <1>8, <1>9, <2>2 DEF F, Fresh
    <3>. QED  BY <1>2, <1>3, <1>15, <3>1 DEF MadeIn
  <2>. QED  BY <2>1, <2>2
<1>14. Same(Now, Got(m, P))
  <2>1. ASSUME NEW m2 \in Mem, NEW b \in Address
        PROVE  /\ AttrIn(Got(m, P), m2, b) = AttrIn(Now, m2, b)
               /\ OwnIn(Got(m, P), m2, b) = OwnIn(Now, m2, b)
    <3>1. PageOf(b) \in Page /\ IndexOf(b) \in Index
      BY PageIndex
    <3>4. <<m2, PageOf(b)>> \in Block /\ <<m2, PageOf(b)>> # None
      BY <3>1, OwnBlock
    <3>2. CASE m2 = m /\ PageOf(b) \in F
      <4>1. pg[m2][PageOf(b)].attr = <<m2, PageOf(b)>> /\ page[m2][PageOf(b)].attr = None
        BY <1>4, <1>7, <1>8, <1>9, <3>1, <3>2
      <4>2. fl[<<m2, PageOf(b)>>][IndexOf(b)] = page[m2][PageOf(b)].def
        BY <1>5, <3>1, <3>2, <3>4
      <4>3. ce[<<m2, PageOf(b)>>][IndexOf(b)] = 0
        BY <1>6, <3>1, <3>2, <3>4
      <4>. QED  BY <1>15, <3>4, <4>1, <4>2, <4>3 DEF AttrIn, OwnIn, Now
    <3>3. CASE ~(m2 = m /\ PageOf(b) \in F)
      <4>1. pg[m2][PageOf(b)] = page[m2][PageOf(b)]
        BY <1>8, <1>9, <3>1, <3>3
      <4>2. fl[<<m2, PageOf(b)>>] = flags[<<m2, PageOf(b)>>]
        BY <1>5, <3>4, <3>3
      <4>3. ce[<<m2, PageOf(b)>>] = cell[<<m2, PageOf(b)>>]
        BY <1>6, <3>4, <3>3
      <4>4. page[m2][PageOf(b)].attr \in {None, <<m2, PageOf(b)>>}
        BY <1>3, <3>1
      <4>. QED  BY <1>15, <4>1, <4>2, <4>3, <4>4 DEF AttrIn, OwnIn, Now
    <3>. QED  BY <3>2, <3>3
  <2>2. ASSUME NEW m2 \in Mem, NEW p \in Page
        PROVE  LentIn(Got(m, P), m2, p) = LentIn(Now, m2, p)
    <3>1. CASE m2 = m /\ p \in F
      <4>1. pg[m2][p].data = <<m2, p>> /\ page[m2][p].data = None
        BY <1>4, <1>7, <1>8, <1>9, <3>1
      <4>2. <<m2, p>> \notin Buffer /\ None \notin Buffer
        BY OwnBlock, NotBlocks
      <4>. QED  BY <1>15, <4>1, <4>2 DEF LentIn, Now
    <3>2. CASE ~(m2 = m /\ p \in F)
      <4>1. pg[m2][p] = page[m2][p]
        BY <1>8, <1>9, <3>2
      <4>. QED  BY <1>15, <4>1 DEF LentIn, Now
    <3>. QED  BY <3>1, <3>2
  <2>3. ASSUME NEW l \in Buffer PROVE Got(m, P).cell[l] = Now.cell[l]
    <3>1. l \notin {m} \X F
      BY <1>2, <1>4, OwnBlock, SMTT(30)
    <3>. QED  BY <1>6, <1>15, <3>1 DEF Now
  <2>. QED  BY <2>1, <2>2, <2>3 DEF Same
<1>. QED  BY <1>11, <1>12, <1>13, <1>14 DEF Good

\* A page is its own block, or none, wherever it is looked at.
LEMMA OwnFacts ==
  ASSUME NEW A, NEW st, Good(st, A), NEW m \in Mem, NEW b \in Address
  PROVE  /\ PageOf(b) \in Page /\ IndexOf(b) \in Index
         /\ <<m, PageOf(b)>> \in Block /\ <<m, PageOf(b)>> # None
         /\ st.page[m][PageOf(b)].attr \in {None, <<m, PageOf(b)>>}
         /\ UnmadeIn(st, m, PageOf(b)) <=> st.page[m][PageOf(b)].attr = None
         /\ st.page[m][PageOf(b)].attr # None => MadeIn(st, m, PageOf(b))
         /\ AttrIn(st, m, b) = IF st.page[m][PageOf(b)].attr = None THEN st.page[m][PageOf(b)].def
                               ELSE st.flags[<<m, PageOf(b)>>][IndexOf(b)]
         /\ OwnIn(st, m, b) = IF st.page[m][PageOf(b)].attr = None THEN 0
                              ELSE st.cell[<<m, PageOf(b)>>][IndexOf(b)]
<1>1. PageOf(b) \in Page /\ IndexOf(b) \in Index
  BY PageIndex
<1>2. <<m, PageOf(b)>> \in Block /\ <<m, PageOf(b)>> # None
  BY <1>1, OwnBlock
<1>3. \/ st.page[m][PageOf(b)].attr = None /\ st.page[m][PageOf(b)].data = None
      \/ st.page[m][PageOf(b)].attr = <<m, PageOf(b)>> /\ MadeIn(st, m, PageOf(b))
  BY <1>1, SMTT(30) DEF Good, UnmadeIn, MadeIn
<1>. QED  BY <1>1, <1>2, <1>3 DEF UnmadeIn, AttrIn, OwnIn

\* What a made page holds is its own or the buffer's.
LEMMA ContentFacts ==
  ASSUME NEW A, NEW st, Good(st, A), NEW m \in Mem, NEW b \in Address, MadeIn(st, m, PageOf(b))
  PROVE  /\ Attribute(st, m, b) = AttrIn(st, m, b)
         /\ Attribute(st, m, b) = st.flags[<<m, PageOf(b)>>][IndexOf(b)]
         /\ AttrIn(st, m, b) \in SUBSET Attr
         /\ Content(st, m, b) = IF LentIn(st, m, PageOf(b)) = None THEN OwnIn(st, m, b)
                                ELSE st.cell[LentIn(st, m, PageOf(b))][IndexOf(b)]
         /\ LentIn(st, m, PageOf(b)) = None <=> st.page[m][PageOf(b)].data = <<m, PageOf(b)>>
         /\ LentIn(st, m, PageOf(b)) \in Buffer \cup {None}
<1>. DEFINE pg == st.page[m][PageOf(b)]
<1>1. pg.attr = <<m, PageOf(b)>> /\ pg.data \in Buffer \cup {<<m, PageOf(b)>>}
  BY DEF MadeIn
<1>2. /\ <<m, PageOf(b)>> \in Block /\ <<m, PageOf(b)>> # None /\ <<m, PageOf(b)>> \notin Buffer
      /\ IndexOf(b) \in Index
  BY PageIndex, OwnBlock
<1>3. st.flags \in [Block -> [Index -> SUBSET Attr]]
  BY DEF Good, Memory, Flags, FlagTable
<1>4. Attribute(st, m, b) = AttrIn(st, m, b)
  BY <1>1, <1>2 DEF Attribute, AttrIn
<1>5. Attribute(st, m, b) = st.flags[<<m, PageOf(b)>>][IndexOf(b)]
  BY <1>1 DEF Attribute
<1>6. st.flags[<<m, PageOf(b)>>][IndexOf(b)] \in SUBSET Attr
  BY <1>2, <1>3
<1>7. /\ LentIn(st, m, PageOf(b)) = None <=> pg.data = <<m, PageOf(b)>>
      /\ LentIn(st, m, PageOf(b)) \in Buffer \cup {None}
      /\ LentIn(st, m, PageOf(b)) # None => LentIn(st, m, PageOf(b)) = pg.data
  BY <1>1, <1>2, NotBlocks DEF LentIn
<1>8. OwnIn(st, m, b) = st.cell[<<m, PageOf(b)>>][IndexOf(b)]
  BY <1>1, <1>2 DEF OwnIn
<1>9. Content(st, m, b) = st.cell[pg.data][IndexOf(b)]
  BY DEF Content
<1>. QED  BY <1>4, <1>5, <1>6, <1>7, <1>8, <1>9

\* The bytes of S lie in pages that are made.
AllMade(st, m, S) == S \in SUBSET Address /\ \A c \in S : MadeIn(st, m, PageOf(c))

\* Of the bytes of made pages, no two are at one place of a block.
LEMMA HereFacts ==
  ASSUME NEW A, NEW st, Good(st, A), NEW m \in Mem, NEW S, AllMade(st, m, S)
  PROVE  /\ \A m2 \in Mem, b \in Address :
              /\ AttrHere(st, m, S, <<m2, PageOf(b)>>, IndexOf(b)) =
                   IF m2 = m /\ b \in S THEN {b} ELSE {}
              /\ DataHere(st, m, S, <<m2, PageOf(b)>>, IndexOf(b)) =
                   IF m2 = m /\ b \in S /\ LentIn(st, m, PageOf(b)) = None THEN {b} ELSE {}
         /\ \A l \in Buffer, i \in Index :
              DataHere(st, m, S, l, i) = {b \in S : LentIn(st, m, PageOf(b)) = l /\ IndexOf(b) = i}
<1>1. ASSUME NEW c \in S
      PROVE  /\ st.page[m][PageOf(c)].attr = <<m, PageOf(c)>>
             /\ st.page[m][PageOf(c)].data \in Buffer \cup {<<m, PageOf(c)>>}
             /\ LentIn(st, m, PageOf(c)) = None <=> st.page[m][PageOf(c)].data = <<m, PageOf(c)>>
             /\ <<m, PageOf(c)>> \notin Buffer
  BY ContentFacts, PageIndex, OwnBlock DEF MadeIn, AllMade
<1>2. ASSUME NEW b \in Address, NEW c \in S, PageOf(c) = PageOf(b), IndexOf(c) = IndexOf(b)
      PROVE  c = b
  <2>1. b = PageOf(b) * PageSize + IndexOf(b) /\ c = PageOf(c) * PageSize + IndexOf(c)
    BY PageIndex DEF AllMade
  <2>. QED  BY <1>2, <2>1
<1>3. ASSUME NEW m2 \in Mem, NEW b \in Address
      PROVE  /\ AttrHere(st, m, S, <<m2, PageOf(b)>>, IndexOf(b)) =
                  IF m2 = m /\ b \in S THEN {b} ELSE {}
             /\ DataHere(st, m, S, <<m2, PageOf(b)>>, IndexOf(b)) =
                  IF m2 = m /\ b \in S /\ LentIn(st, m, PageOf(b)) = None THEN {b} ELSE {}
  <2>1. <<m2, PageOf(b)>> \notin Buffer
    BY PageIndex, OwnBlock
  <2>2. \A c \in S : /\ (st.page[m][PageOf(c)].attr = <<m2, PageOf(b)>> /\ IndexOf(c) = IndexOf(b))
                         <=> m2 = m /\ c = b
                     /\ (st.page[m][PageOf(c)].data = <<m2, PageOf(b)>> /\ IndexOf(c) = IndexOf(b))
                         <=> m2 = m /\ c = b /\ LentIn(st, m, PageOf(c)) = None
    <3>1. TAKE c \in S
    <3>2. <<m, PageOf(c)>> = <<m2, PageOf(b)>> <=> m2 = m /\ PageOf(c) = PageOf(b)
      OBVIOUS
    <3>3. PageOf(c) = PageOf(b) /\ IndexOf(c) = IndexOf(b) <=> c = b
      BY <1>2
    <3>4. st.page[m][PageOf(c)].attr = <<m, PageOf(c)>>
      BY <1>1
    <3>5. st.page[m][PageOf(c)].data = <<m2, PageOf(b)>>
            <=> <<m, PageOf(c)>> = <<m2, PageOf(b)>> /\ LentIn(st, m, PageOf(c)) = None
      BY <1>1, <2>1
    <3>6. (st.page[m][PageOf(c)].attr = <<m2, PageOf(b)>> /\ IndexOf(c) = IndexOf(b))
            <=> m2 = m /\ c = b
      BY <3>2, <3>3, <3>4
    <3>. QED  BY <3>2, <3>3, <3>5, <3>6
  <2>3. AttrHere(st, m, S, <<m2, PageOf(b)>>, IndexOf(b)) = IF m2 = m /\ b \in S THEN {b} ELSE {}
    BY <2>2 DEF AttrHere
  <2>4. DataHere(st, m, S, <<m2, PageOf(b)>>, IndexOf(b)) =
          IF m2 = m /\ b \in S /\ LentIn(st, m, PageOf(b)) = None THEN {b} ELSE {}
    BY <2>2 DEF DataHere
  <2>. QED  BY <2>3, <2>4
<1>4. ASSUME NEW l \in Buffer, NEW i \in Index
      PROVE  DataHere(st, m, S, l, i) = {b \in S : LentIn(st, m, PageOf(b)) = l /\ IndexOf(b) = i}
  <2>1. \A c \in S : st.page[m][PageOf(c)].data = l <=> LentIn(st, m, PageOf(c)) = l
    BY <1>1, NotBlocks DEF LentIn
  <2>. QED  BY <2>1 DEF DataHere
<1>. QED  BY <1>3, <1>4, SMTT(30)

\* The same for one byte and its attributes.
LEMMA AttrHereAt ==
  ASSUME NEW A, NEW st, Good(st, A), NEW m \in Mem, NEW S, AllMade(st, m, S),
         NEW m2 \in Mem, NEW b \in Address
  PROVE  AttrHere(st, m, S, <<m2, PageOf(b)>>, IndexOf(b)) = IF m2 = m /\ b \in S THEN {b} ELSE {}
  BY HereFacts, ZenonT(60)

\* A change of attributes and content alone.
Changed(st, fl, ce) == [page |-> st.page, flags |-> fl, cell |-> ce]

\* It keeps blocks owned, and pages lent that are.
LEMMA ChangeGood ==
  ASSUME NEW A, NEW st, Good(st, A), NEW fl \in FlagTable,
         NEW ce \in CellTable
  PROVE  /\ Good(Changed(st, fl, ce), A)
         /\ Changed(st, fl, ce).cell = ce
         /\ \A m \in Mem, p \in Page : LentIn(Changed(st, fl, ce), m, p) = LentIn(st, m, p)
<1>. DEFINE new == Changed(st, fl, ce)
<1>1. new \in Memory
  BY DEF Good, Memory, Changed
<1>2. new.page = st.page /\ new.cell = ce
  BY DEF Changed
<1>. HIDE DEF new
<1>3. Good(new, A)
  BY <1>1, <1>2 DEF Good, UnmadeIn, MadeIn
<1>. QED  BY <1>2, <1>3 DEF LentIn, new

\* It does not show where no page is made.
LEMMA ChangeUnmade ==
  ASSUME NEW A, NEW st, Good(st, A), NEW fl, NEW ce, NEW m \in Mem, NEW b \in Address,
         st.page[m][PageOf(b)].attr = None
  PROVE  /\ AttrIn(Changed(st, fl, ce), m, b) = AttrIn(st, m, b)
         /\ OwnIn(Changed(st, fl, ce), m, b) = OwnIn(st, m, b)
  BY DEF Changed, AttrIn, OwnIn

\* Elsewhere it shows as what the blocks hold then.
LEMMA ChangeMade ==
  ASSUME NEW A, NEW st, Good(st, A), NEW fl, NEW ce, NEW m \in Mem, NEW b \in Address,
         st.page[m][PageOf(b)].attr # None
  PROVE  /\ AttrIn(Changed(st, fl, ce), m, b) = fl[<<m, PageOf(b)>>][IndexOf(b)]
         /\ OwnIn(Changed(st, fl, ce), m, b) = ce[<<m, PageOf(b)>>][IndexOf(b)]
         /\ OwnIn(st, m, b) = st.cell[<<m, PageOf(b)>>][IndexOf(b)]
<1>1. st.page[m][PageOf(b)].attr = <<m, PageOf(b)>> /\ <<m, PageOf(b)>> # None
  BY OwnFacts, ZenonT(60)
<1>. QED  BY <1>1 DEF Changed, AttrIn, OwnIn

(***************************************************************************)
(* The invariant, and the view of the memories as arrays.                  *)
(***************************************************************************)
IInv ==
  /\ alive \subseteq Mem /\ Good(Now, alive)
  /\ invalid \in [Mem -> BOOLEAN]
  /\ io \in [Mem -> [Port -> SUBSET Attr]]

\* The arrays, seen through the blocks as they are.
LEMMA ViewNow ==
  /\ AttrOf = [m \in Mem |-> [b \in Address |-> AttrIn(Now, m, b)]]
  /\ OwnOf  = [m \in Mem |-> [b \in Address |-> OwnIn(Now, m, b)]]
  /\ LentOf = [m \in Mem |-> [p \in Page |-> LentIn(Now, m, p)]]
  /\ HostOf = [l \in Buffer |-> Now.cell[l]]
  BY DEF AttrOf, OwnOf, LentOf, HostOf, AttrIn, OwnIn, LentIn, Now

\* And as a step leaves them.
LEMMA ViewNext ==
  ASSUME NEW new, Becomes(new), NEW A, Good(new, A)
  PROVE  /\ AttrOf' = [m \in Mem |-> [b \in Address |-> AttrIn(new, m, b)]]
         /\ OwnOf'  = [m \in Mem |-> [b \in Address |-> OwnIn(new, m, b)]]
         /\ LentOf' = [m \in Mem |-> [p \in Page |-> LentIn(new, m, p)]]
         /\ HostOf' = [l \in Buffer |-> new.cell[l]]
         /\ Good(Now', A)
<1>1. page' = new.page /\ flags' = new.flags /\ cell' = new.cell
  BY DEF Becomes
<1>2. AttrOf' = [m \in Mem |-> [b \in Address |-> AttrIn(new, m, b)]]
  BY <1>1 DEF AttrOf, AttrIn
<1>3. OwnOf' = [m \in Mem |-> [b \in Address |-> OwnIn(new, m, b)]]
  BY <1>1 DEF OwnOf, OwnIn
<1>4. LentOf' = [m \in Mem |-> [p \in Page |-> LentIn(new, m, p)]]
  BY <1>1 DEF LentOf, LentIn
<1>5. HostOf' = [l \in Buffer |-> new.cell[l]]
  BY <1>1 DEF HostOf
<1>6. new = [page |-> new.page, flags |-> new.flags, cell |-> new.cell]
  BY DEF Good, Memory
<1>7. Now' = new
  BY <1>1, <1>6 DEF Now
<1>. QED  BY <1>2, <1>3, <1>4, <1>5, <1>7

\* FlatMemory computes with addresses as EmuMemory does.
LEMMA FlatSame ==
  /\ Flat!Address = Address /\ Flat!Page = Page /\ Flat!Port = Port /\ Flat!FF = FF
  /\ Flat!Size = Size /\ Flat!Nothing = Nothing
  /\ \A a, k : Flat!At(a, k) = At(a, k) /\ Flat!PortAt(a, k) = PortAt(a, k)
  /\ \A a, n : Flat!Span(a, n) = Span(a, n) /\ Flat!PortSpan(a, n) = PortSpan(a, n)
  /\ \A a : Flat!PageOf(a) = PageOf(a)
  /\ \A a, b : Flat!Offset(a, b) = Offset(a, b)
  /\ \A v, bad : Flat!Returns(v, bad) = Returns(v, bad)
  BY DEF Flat!Address, Address, Flat!Page, Page, Flat!Port, Port, Flat!FF, FF, Flat!Size, Size,
         Flat!Nothing, Nothing, Flat!At, At, Flat!PortAt, PortAt, Flat!Span, Span, Flat!PortSpan,
         PortSpan, Flat!PageOf, PageOf, Flat!Offset, Offset, Flat!Returns, Returns

\* Of the pages of an access, made for it, the bytes are as they were.
LEMMA AccessFacts ==
  ASSUME IInv, NEW m \in alive, NEW S \in SUBSET Address
  PROVE  /\ m \in Mem /\ Good(GotFor(m, S), alive) /\ Same(Now, GotFor(m, S))
         /\ \A b \in S : MadeIn(GotFor(m, S), m, PageOf(b))
         /\ GotFor(m, S) = [page |-> GotFor(m, S).page, flags |-> GotFor(m, S).flags,
                            cell |-> GotFor(m, S).cell]
<1>1. {PageOf(b) : b \in S} \in SUBSET Page
  BY PageIndex
<1>2. /\ m \in Mem /\ Good(GotFor(m, S), alive) /\ Same(Now, GotFor(m, S))
      /\ \A p \in {PageOf(b) : b \in S} : MadeIn(GotFor(m, S), m, p)
  BY <1>1, GotFacts DEF IInv, GotFor
<1>. QED  BY <1>2 DEF Good, Memory

(***************************************************************************)
(* Reads.                                                                  *)
(***************************************************************************)
\* What a read leaves and returns, however it goes about it.
ReadAttr(at, hit, need, acc) ==
  IF hit /\ need \in at
  THEN at \cup {acc} \cup (IF "VALID" \in at THEN {} ELSE {"ACC_INVALID"}) ELSE at

\* A read from made pages leaves the table fl and returns v and bad.
ReadDone(st, m, a, n, need, acc, fl, v, bad) ==
  /\ fl \in FlagTable /\ bad \in BOOLEAN
  /\ Becomes(Changed(st, fl, st.cell)) /\ Memio(m, v, bad)
  /\ \A m2 \in Mem, b \in Address : st.page[m2][PageOf(b)].attr # None =>
       fl[<<m2, PageOf(b)>>][IndexOf(b)]
         = ReadAttr(AttrIn(st, m2, b), m2 = m /\ b \in Span(a, n), need, acc)
  /\ v = [j \in 1 .. n |-> IF need \in AttrIn(st, m, At(a, j - 1))
                            THEN Content(st, m, At(a, j - 1)) ELSE FF]
  /\ bad = (\E b \in Span(a, n) : ~({need, "VALID"} \subseteq AttrIn(st, m, b)))

\* A read that is done as above is a read of a plain array.
LEMMA ReadShape ==
  ASSUME IInv, NEW m \in alive, NEW a \in Address, NEW n \in {1, 2, 4}, NEW need, NEW acc,
         NEW fl, NEW v, NEW bad, ReadDone(GotFor(m, Span(a, n)), m, a, n, need, acc, fl, v, bad)
  PROVE  IInv' /\ Flat!Read(m, a, n, need, acc)
<1>. DEFINE st == GotFor(m, Span(a, n))
            S == Span(a, n)
            new == Changed(st, fl, st.cell)
<1>. HIDE DEF st
<1>15. /\ fl \in FlagTable /\ bad \in BOOLEAN
      /\ Becomes(Changed(st, fl, st.cell)) /\ Memio(m, v, bad)
  BY DEF ReadDone, st
<1>16. \A m2 \in Mem, b \in Address : st.page[m2][PageOf(b)].attr # None =>
        fl[<<m2, PageOf(b)>>][IndexOf(b)]
          = ReadAttr(AttrIn(st, m2, b), m2 = m /\ b \in Span(a, n), need, acc)
  BY DEF ReadDone, st
<1>17. /\ v = [j \in 1 .. n |-> IF need \in AttrIn(st, m, At(a, j - 1))
                                THEN Content(st, m, At(a, j - 1)) ELSE FF]
      /\ bad = (\E b \in Span(a, n) : ~({need, "VALID"} \subseteq AttrIn(st, m, b)))
  BY DEF ReadDone, st
<1>1. S \in SUBSET Address /\ \A k \in 0 .. n - 1 : At(a, k) \in S
  BY SpanFacts
<1>2. m \in Mem /\ Good(st, alive) /\ Same(Now, st) /\ \A b \in S : MadeIn(st, m, PageOf(b))
  BY <1>1, AccessFacts DEF st
<1>3. st.cell \in CellTable
  BY <1>2 DEF Good, Memory
<1>4. /\ Good(new, alive) /\ new.cell = st.cell
      /\ \A m2 \in Mem, p \in Page : LentIn(new, m2, p) = LentIn(st, m2, p)
  BY <1>2, <1>3, <1>15, ChangeGood
<1>5. ASSUME NEW m2 \in Mem, NEW b \in Address
      PROVE  /\ AttrIn(new, m2, b) = ReadAttr(AttrIn(Now, m2, b), m2 = m /\ b \in S, need, acc)
             /\ OwnIn(new, m2, b) = OwnIn(Now, m2, b)
  <2>1. AttrIn(st, m2, b) = AttrIn(Now, m2, b) /\ OwnIn(st, m2, b) = OwnIn(Now, m2, b)
    BY <1>2 DEF Same
  <2>2. CASE st.page[m2][PageOf(b)].attr = None
    <3>1. ~(m2 = m /\ b \in S)
      BY <1>1, <1>2, <2>2, PageIndex, OwnBlock DEF MadeIn
    <3>2. AttrIn(new, m2, b) = AttrIn(st, m2, b) /\ OwnIn(new, m2, b) = OwnIn(st, m2, b)
      BY <1>2, <2>2, ChangeUnmade
    <3>. QED  BY <2>1, <3>1, <3>2 DEF ReadAttr
  <2>3. CASE st.page[m2][PageOf(b)].attr # None
    <3>1. /\ AttrIn(new, m2, b) = fl[<<m2, PageOf(b)>>][IndexOf(b)]
          /\ OwnIn(new, m2, b) = OwnIn(st, m2, b)
      BY <1>2, <2>3, ChangeMade
    <3>. QED  BY <1>16, <2>1, <2>3, <3>1
  <2>. QED  BY <2>2, <2>3
<1>. HIDE DEF new
<1>6. /\ AttrOf' = [m2 \in Mem |-> [b \in Address |->
                      ReadAttr(AttrIn(Now, m2, b), m2 = m /\ b \in S, need, acc)]]
      /\ OwnOf' = OwnOf /\ LentOf' = LentOf /\ HostOf' = HostOf /\ Good(Now', alive)
  <2>1. Becomes(new)
    BY <1>15 DEF new
  <2>2. \A m2 \in Mem, p \in Page : LentIn(new, m2, p) = LentIn(Now, m2, p)
    BY <1>2, <1>4 DEF Same
  <2>3. \A l \in Buffer : new.cell[l] = Now.cell[l]
    BY <1>2, <1>4 DEF Same
  <2>4. /\ AttrOf' = [m2 \in Mem |-> [b \in Address |-> AttrIn(new, m2, b)]]
        /\ OwnOf'  = [m2 \in Mem |-> [b \in Address |-> OwnIn(new, m2, b)]]
        /\ LentOf' = [m2 \in Mem |-> [p \in Page |-> LentIn(new, m2, p)]]
        /\ HostOf' = [l \in Buffer |-> new.cell[l]]
        /\ Good(Now', alive)
    BY <1>4, <2>1, ViewNext
  <2>5. AttrOf' = [m2 \in Mem |-> [b \in Address |->
                      ReadAttr(AttrIn(Now, m2, b), m2 = m /\ b \in S, need, acc)]]
    BY <1>5, <2>4
  <2>6. OwnOf' = OwnOf
    BY <1>5, <2>4, ViewNow
  <2>7. LentOf' = LentOf /\ HostOf' = HostOf
    BY <2>2, <2>3, <2>4, ViewNow
  <2>. QED  BY <2>4, <2>5, <2>6, <2>7
<1>7. AttrOf' = [AttrOf EXCEPT ![m] = [b \in Address |->
                   ReadAttr(AttrOf[m][b], b \in S, need, acc)]]
  BY <1>2, <1>6, ViewNow, ZenonT(60) DEF ReadAttr
<1>8. \A b \in S : AttrIn(st, m, b) = AttrOf[m][b]
  BY <1>1, <1>2, ViewNow DEF Same
<1>9. ASSUME NEW b \in S PROVE Content(st, m, b) = Flat!Value(m, b)
  <2>1. /\ LentIn(st, m, PageOf(b)) = LentOf[m][PageOf(b)]
        /\ OwnIn(st, m, b) = OwnOf[m][b] /\ PageOf(b) \in Page /\ b \in Address
    BY <1>1, <1>2, PageIndex, ViewNow DEF Same
  <2>2. \A l \in Buffer : st.cell[l] = HostOf[l]
    BY <1>2, ViewNow DEF Same
  <2>3. /\ LentIn(st, m, PageOf(b)) \in Buffer \cup {None}
        /\ Content(st, m, b) = IF LentIn(st, m, PageOf(b)) = None THEN OwnIn(st, m, b)
                               ELSE st.cell[LentIn(st, m, PageOf(b))][IndexOf(b)]
    BY <1>2, <2>1, ContentFacts
  <2>. QED  BY <2>1, <2>2, <2>3, FlatSame DEF Flat!Value, IndexOf
<1>10. v = [j \in 1 .. n |-> IF need \in AttrOf[m][At(a, j - 1)] THEN Flat!Value(m, At(a, j - 1)) ELSE FF]
  <2>1. \A j \in 1 .. n : At(a, j - 1) \in S
    BY <1>1
  <2>. QED  BY <1>8, <1>9, <1>17, <2>1
<1>11. bad = (\E b \in S : ~({need, "VALID"} \subseteq AttrOf[m][b]))
  BY <1>8, <1>17
<1>12. /\ result' = Returns(v, bad) /\ alive' = alive /\ io' = io
       /\ invalid' = [invalid EXCEPT ![m] = bad]
  BY <1>15 DEF Memio
<1>13. Flat!Read(m, a, n, need, acc)
  BY <1>6, <1>7, <1>10, <1>11, <1>12, FlatSame DEF Flat!Read, ReadAttr
<1>14. IInv'
  BY <1>6, <1>12, <1>15 DEF IInv
<1>. QED  BY <1>13, <1>14

\* New attributes with the pages and the content as they are.
LEMMA ExceptBecomes ==
  ASSUME NEW st \in Memory, NEW fl
  PROVE  Becomes([st EXCEPT !.flags = fl]) <=> Becomes(Changed(st, fl, st.cell))
  BY DEF Memory, Becomes, Changed

\* The tables of a good state.
LEMMA TableFacts ==
  ASSUME NEW A, NEW st, Good(st, A)
  PROVE  /\ st \in Memory /\ st.flags \in FlagTable /\ st.cell \in CellTable
         /\ \A k \in Block, i \in Index : st.flags[k][i] \in SUBSET Attr
         /\ \A k \in Block \cup Buffer, i \in Index : st.cell[k][i] \in Byte
  BY DEF Good, Memory, FlagTable, CellTable, Flags, Cells

\* Attributes x of the bytes of S and y of those of I are added where they lie.
Marked(st, m, S, x, I, y) ==
  [k \in Block |-> [i \in Index |->
     st.flags[k][i] \cup (IF AttrHere(st, m, S, k, i) # {} THEN x ELSE {})
                    \cup (IF AttrHere(st, m, I, k, i) # {} THEN y ELSE {})]]

\* Marks are attributes, so that the table stays one.
LEMMA MarkedTable ==
  ASSUME NEW A, NEW st, Good(st, A), NEW m, NEW S, NEW I, NEW x \in SUBSET Attr, NEW y \in SUBSET Attr
  PROVE  Marked(st, m, S, x, I, y) \in FlagTable
<1>1. ASSUME NEW k \in Block, NEW i \in Index
      PROVE  st.flags[k][i] \cup (IF AttrHere(st, m, S, k, i) # {} THEN x ELSE {})
                  \cup (IF AttrHere(st, m, I, k, i) # {} THEN y ELSE {}) \in SUBSET Attr
  <2>1. st.flags[k][i] \in SUBSET Attr
    BY TableFacts
  <2>. QED  BY <2>1
<1>. QED  BY <1>1 DEF Marked, FlagTable, Flags

\* What a marked table holds for a byte.
LEMMA MarkedAt ==
  ASSUME NEW A, NEW st, Good(st, A), NEW m \in Mem, NEW S, NEW I, AllMade(st, m, S), AllMade(st, m, I),
         NEW x, NEW y,
         NEW m2 \in Mem, NEW b \in Address, st.page[m2][PageOf(b)].attr # None
  PROVE  Marked(st, m, S, x, I, y)[<<m2, PageOf(b)>>][IndexOf(b)]
           = AttrIn(st, m2, b) \cup (IF m2 = m /\ b \in S THEN x ELSE {})
                               \cup (IF m2 = m /\ b \in I THEN y ELSE {})
<1>1. /\ <<m2, PageOf(b)>> \in Block /\ IndexOf(b) \in Index
      /\ AttrIn(st, m2, b) = st.flags[<<m2, PageOf(b)>>][IndexOf(b)]
  BY OwnFacts
<1>2. AttrHere(st, m, S, <<m2, PageOf(b)>>, IndexOf(b)) = IF m2 = m /\ b \in S THEN {b} ELSE {}
  BY HereFacts, SMTT(30)
<1>3. AttrHere(st, m, I, <<m2, PageOf(b)>>, IndexOf(b)) = IF m2 = m /\ b \in I THEN {b} ELSE {}
  BY HereFacts, SMTT(30)
<1>. QED  BY <1>1, <1>2, <1>3 DEF Marked

\* vm_r_byte or vm_x_byte for each byte reads the plain array.
LEMMA ReadBytesSim ==
  ASSUME IInv, NEW m \in alive, NEW a \in Address, NEW n \in {1, 2, 4}, NEW need, NEW acc \in Attr,
         ReadBytes(GotFor(m, Span(a, n)), m, a, n, need, acc)
  PROVE  IInv' /\ Flat!Read(m, a, n, need, acc)
<1>. DEFINE st == GotFor(m, Span(a, n))
            S  == {b \in Span(a, n) : need \in Attribute(st, m, b)}
            I  == {b \in S : "VALID" \notin Attribute(st, m, b)}
            fl == Marked(st, m, S, {acc}, I, {"ACC_INVALID"})
            v  == [j \in 1 .. n |-> IF At(a, j - 1) \in S THEN Content(st, m, At(a, j - 1)) ELSE FF]
            bad == S # Span(a, n) \/ I # {}
<1>1. Span(a, n) \in SUBSET Address /\ \A k \in 0 .. n - 1 : At(a, k) \in Span(a, n)
  BY SpanFacts
<1>2. m \in Mem /\ Good(st, alive) /\ \A b \in Span(a, n) : MadeIn(st, m, PageOf(b))
  BY <1>1, AccessFacts
<1>3. Becomes([st EXCEPT !.flags = fl]) /\ Memio(m, v, bad)
  BY DEF ReadBytes, Marked
<1>. HIDE DEF st
<1>4. \A b \in Span(a, n) : Attribute(st, m, b) = AttrIn(st, m, b)
  BY <1>1, <1>2, ContentFacts
<1>15. S \in SUBSET Address /\ I \in SUBSET Address
  BY <1>1
<1>5. /\ \A b \in Address : b \in S <=> b \in Span(a, n) /\ need \in AttrIn(st, m, b)
      /\ \A b \in Address : b \in I <=> b \in S /\ "VALID" \notin AttrIn(st, m, b)
  BY <1>1, <1>4
<1>6. {acc} \in SUBSET Attr /\ {"ACC_INVALID"} \in SUBSET Attr
  BY DEF Attr
<1>7. AllMade(st, m, S) /\ AllMade(st, m, I)
  BY <1>15, <1>2 DEF AllMade
<1>8. v = [j \in 1 .. n |-> IF need \in AttrIn(st, m, At(a, j - 1))
                            THEN Content(st, m, At(a, j - 1)) ELSE FF]
  BY <1>1, <1>4
<1>9. bad = (\E b \in Span(a, n) : ~({need, "VALID"} \subseteq AttrIn(st, m, b)))
  BY <1>4
<1>10. bad \in BOOLEAN
  OBVIOUS
<1>. HIDE DEF v, bad, S, I
<1>11. fl \in FlagTable
  BY <1>2, <1>6, MarkedTable
<1>12. ASSUME NEW m2 \in Mem, NEW b \in Address, st.page[m2][PageOf(b)].attr # None
       PROVE  fl[<<m2, PageOf(b)>>][IndexOf(b)]
                = ReadAttr(AttrIn(st, m2, b), m2 = m /\ b \in Span(a, n), need, acc)
  <2>1. fl[<<m2, PageOf(b)>>][IndexOf(b)]
          = AttrIn(st, m2, b) \cup (IF m2 = m /\ b \in S THEN {acc} ELSE {})
                              \cup (IF m2 = m /\ b \in I THEN {"ACC_INVALID"} ELSE {})
    BY <1>2, <1>7, <1>12, MarkedAt
  <2>. HIDE DEF fl
  <2>. QED  BY <1>5, <2>1 DEF ReadAttr
<1>. HIDE DEF fl
<1>13. Becomes(Changed(st, fl, st.cell))
  BY <1>2, <1>3, TableFacts, ExceptBecomes
<1>14. ReadDone(st, m, a, n, need, acc, fl, v, bad)
  BY <1>3, <1>8, <1>9, <1>10, <1>11, <1>12, <1>13 DEF ReadDone
<1>. QED  BY <1>14, ReadShape DEF st

\* The short cut: its bytes all have what it asks for, and it marks these.
RunTable(st, m, a, n, x) ==
  [st.flags EXCEPT ![<<m, PageOf(a)>>] =
     [i \in Index |-> IF i \in IndexOf(a) .. IndexOf(a) + n - 1
                      THEN st.flags[<<m, PageOf(a)>>][i] \cup x ELSE st.flags[<<m, PageOf(a)>>][i]]]

\* The marks of a run, as RunMarked makes them.
LEMMA RunFacts ==
  ASSUME NEW A, NEW st, Good(st, A), NEW m \in Mem, NEW a \in Address, NEW n \in {1, 2, 4},
         IndexOf(a) <= PageSize - n, MadeIn(st, m, PageOf(a)), NEW x \in SUBSET Attr
  PROVE  /\ RunTable(st, m, a, n, x) \in FlagTable
         /\ RunMarked(st, m, a, n, x) = [st EXCEPT !.flags = RunTable(st, m, a, n, x)]
<1>1. st.page[m][PageOf(a)].attr = <<m, PageOf(a)>> /\ <<m, PageOf(a)>> \in Block
  BY OwnBlock, PageIndex DEF MadeIn
<1>2. RunMarked(st, m, a, n, x) = [st EXCEPT !.flags = RunTable(st, m, a, n, x)]
  BY <1>1 DEF RunMarked, RunTable
<1>3. st.flags \in [Block -> [Index -> SUBSET Attr]]
  BY TableFacts DEF FlagTable, Flags
<1>4. RunTable(st, m, a, n, x) \in FlagTable
  BY <1>1, <1>3, SMTT(30) DEF RunTable, FlagTable, Flags
<1>. QED  BY <1>2, <1>4

\* What the table holds for a byte then.
LEMMA RunAt ==
  ASSUME NEW A, NEW st, Good(st, A), NEW m \in Mem, NEW a \in Address, NEW n \in {1, 2, 4},
         IndexOf(a) <= PageSize - n, NEW x,
         NEW m2 \in Mem, NEW b \in Address, st.page[m2][PageOf(b)].attr # None
  PROVE  RunTable(st, m, a, n, x)[<<m2, PageOf(b)>>][IndexOf(b)]
           = AttrIn(st, m2, b) \cup (IF m2 = m /\ b \in Span(a, n) THEN x ELSE {})
<1>1. /\ <<m2, PageOf(b)>> \in Block /\ IndexOf(b) \in Index
      /\ AttrIn(st, m2, b) = st.flags[<<m2, PageOf(b)>>][IndexOf(b)]
  BY OwnFacts
<1>2. b \in Span(a, n) <=> PageOf(b) = PageOf(a) /\ IndexOf(b) \in IndexOf(a) .. IndexOf(a) + n - 1
  BY InPageFacts
<1>3. st.flags \in [Block -> [Index -> SUBSET Attr]]
  BY TableFacts DEF FlagTable, Flags
<1>4. CASE m2 = m /\ PageOf(b) = PageOf(a)
  BY <1>1, <1>2, <1>3, <1>4 DEF RunTable
<1>5. CASE ~(m2 = m /\ PageOf(b) = PageOf(a))
  <2>1. <<m2, PageOf(b)>> # <<m, PageOf(a)>>
    BY <1>5
  <2>. QED  BY <1>1, <1>2, <1>3, <1>5, <2>1 DEF RunTable
<1>. QED  BY <1>4, <1>5

\* The short cut is taken only if every byte has what is needed.
LEMMA ShortcutFacts ==
  ASSUME NEW A, NEW st, Good(st, A), NEW m \in Mem, NEW a \in Address, NEW n \in {1, 2, 4},
         NEW need, AllMade(st, m, Span(a, n)), Shortcut(st, m, a, n, need)
  PROVE  /\ IndexOf(a) <= PageSize - n
         /\ MadeIn(st, m, PageOf(a))
         /\ \A b \in Span(a, n) : need \subseteq AttrIn(st, m, b)
<1>1. IndexOf(a) <= PageSize - n
  BY DEF Shortcut, InOnePage
<1>2. a \in Span(a, n)
  <2>1. 0 \in 0 .. n - 1
    OBVIOUS
  <2>2. At(a, 0) = a + 0 /\ At(a, 0) \in Span(a, n)
    BY <1>1, <2>1, InPageFacts, SpanFacts, ZenonT(60)
  <2>. QED  BY <2>2 DEF Address
<1>3. MadeIn(st, m, PageOf(a))
  BY <1>2 DEF AllMade
<1>4. ASSUME NEW b \in Span(a, n) PROVE need \subseteq AttrIn(st, m, b)
  <2>1. /\ PageOf(b) = PageOf(a) /\ IndexOf(b) \in IndexOf(a) .. IndexOf(a) + n - 1
        /\ b \in Address /\ IndexOf(a) \in Nat
    BY <1>1, InPageFacts, SpanFacts, PageIndex, SMTT(30) DEF Index
  <2>2. IndexOf(b) - IndexOf(a) \in 0 .. n - 1 /\ IndexOf(a) + (IndexOf(b) - IndexOf(a)) = IndexOf(b)
    BY <2>1
  <2>3. need \subseteq st.flags[st.page[m][PageOf(a)].attr][IndexOf(b)]
    BY <2>2 DEF Shortcut, AllHave
  <2>4. AttrIn(st, m, b) = st.flags[<<m, PageOf(b)>>][IndexOf(b)]
    BY <1>3, <2>1, ContentFacts
  <2>. QED  BY <1>3, <2>1, <2>3, <2>4 DEF MadeIn
<1>. QED  BY <1>1, <1>3, <1>4

\* The short cut of vm_r_word and vm_r_dword reads the plain array.
LEMMA ReadRunSim ==
  ASSUME IInv, NEW m \in alive, NEW a \in Address, NEW n \in {1, 2, 4},
         Shortcut(GotFor(m, Span(a, n)), m, a, n, {"R", "VALID"}),
         ReadRun(GotFor(m, Span(a, n)), m, a, n)
  PROVE  IInv' /\ Flat!Read(m, a, n, "R", "ACC_R")
<1>. DEFINE st == GotFor(m, Span(a, n))
            fl == RunTable(st, m, a, n, {"ACC_R"})
            v  == [j \in 1 .. n |-> st.cell[st.page[m][PageOf(a)].data][IndexOf(a) + j - 1]]
<1>1. Span(a, n) \in SUBSET Address /\ \A k \in 0 .. n - 1 : At(a, k) \in Span(a, n)
  BY SpanFacts
<1>2. m \in Mem /\ Good(st, alive) /\ AllMade(st, m, Span(a, n))
  <2>1. m \in Mem /\ Good(st, alive) /\ \A b \in Span(a, n) : MadeIn(st, m, PageOf(b))
    BY <1>1, AccessFacts, SMTT(30)
  <2>. HIDE DEF st
  <2>. QED  BY <1>1, <2>1 DEF AllMade
<1>3. Becomes(RunMarked(st, m, a, n, {"ACC_R"})) /\ Memio(m, v, FALSE)
  BY Zenon DEF ReadRun
<1>4. Shortcut(st, m, a, n, {"R", "VALID"})
  OBVIOUS
<1>. HIDE DEF st
<1>5. /\ IndexOf(a) <= PageSize - n /\ MadeIn(st, m, PageOf(a))
      /\ \A b \in Span(a, n) : {"R", "VALID"} \subseteq AttrIn(st, m, b)
  BY <1>2, <1>4, ShortcutFacts
<1>6. {"ACC_R"} \in SUBSET Attr
  BY DEF Attr
<1>7. fl \in FlagTable /\ Becomes([st EXCEPT !.flags = fl])
  BY <1>2, <1>3, <1>5, <1>6, RunFacts
<1>8. v = [j \in 1 .. n |-> IF "R" \in AttrIn(st, m, At(a, j - 1))
                            THEN Content(st, m, At(a, j - 1)) ELSE FF]
  <2>1. ASSUME NEW j \in 1 .. n
        PROVE  /\ "R" \in AttrIn(st, m, At(a, j - 1))
               /\ Content(st, m, At(a, j - 1)) = st.cell[st.page[m][PageOf(a)].data][IndexOf(a) + j - 1]
    <3>1. j - 1 \in 0 .. n - 1 /\ IndexOf(a) \in Nat
      BY PageIndex DEF Index
    <3>2. /\ PageOf(At(a, j - 1)) = PageOf(a) /\ IndexOf(At(a, j - 1)) = IndexOf(a) + (j - 1)
          /\ At(a, j - 1) \in Span(a, n)
      BY <1>1, <1>5, <3>1, InPageFacts
    <3>3. IndexOf(a) + (j - 1) = IndexOf(a) + j - 1
      BY <3>1
    <3>. QED  BY <1>5, <3>2, <3>3 DEF Content
  <2>. QED  BY <2>1
<1>9. FALSE = (\E b \in Span(a, n) : ~({"R", "VALID"} \subseteq AttrIn(st, m, b)))
  BY <1>5
<1>10. ASSUME NEW m2 \in Mem, NEW b \in Address, st.page[m2][PageOf(b)].attr # None
       PROVE  fl[<<m2, PageOf(b)>>][IndexOf(b)]
                = ReadAttr(AttrIn(st, m2, b), m2 = m /\ b \in Span(a, n), "R", "ACC_R")
  <2>1. fl[<<m2, PageOf(b)>>][IndexOf(b)]
          = AttrIn(st, m2, b) \cup (IF m2 = m /\ b \in Span(a, n) THEN {"ACC_R"} ELSE {})
    BY <1>2, <1>5, <1>10, RunAt
  <2>. HIDE DEF fl
  <2>. QED  BY <1>5, <2>1 DEF ReadAttr
<1>. HIDE DEF fl, v
<1>11. Becomes(Changed(st, fl, st.cell))
  BY <1>2, <1>7, TableFacts, ExceptBecomes
<1>12. ReadDone(st, m, a, n, "R", "ACC_R", fl, v, FALSE)
  BY <1>3, <1>7, <1>8, <1>9, <1>10, <1>11 DEF ReadDone
<1>. QED  BY <1>12, ReadShape DEF st

(***************************************************************************)
(* Writes.                                                                 *)
(***************************************************************************)
\* The attributes a write leaves at a byte it is meant for, and those it stores.
WriteAttr(at, hit, stored) ==
  IF stored THEN at \cup {"VALID", "ACC_W"} ELSE IF hit THEN at \cup {"ACC_INVALID"} ELSE at

\* The byte of v that gets to index i of the buffer l, if any does.
Lands(st, m, B, l, i) == {b \in B : LentIn(st, m, PageOf(b)) = l /\ IndexOf(b) = i}

\* A write to the made pages of S stores the bytes B of v.
WriteDone(st, m, a, v, S, B, fl, ce, bad) ==
  /\ fl \in FlagTable /\ ce \in CellTable /\ bad \in BOOLEAN
  /\ Becomes(Changed(st, fl, ce)) /\ Memio(m, <<>>, bad)
  /\ \A m2 \in Mem, b \in Address : st.page[m2][PageOf(b)].attr # None =>
       /\ fl[<<m2, PageOf(b)>>][IndexOf(b)]
            = WriteAttr(AttrIn(st, m2, b), m2 = m /\ b \in S, m2 = m /\ b \in B)
       /\ ce[<<m2, PageOf(b)>>][IndexOf(b)]
            = IF m2 = m /\ b \in B /\ LentIn(st, m, PageOf(b)) = None
              THEN v[Offset(a, b) + 1] ELSE st.cell[<<m2, PageOf(b)>>][IndexOf(b)]
  /\ \A l \in Buffer, i \in Index :
       ce[l][i] = IF Lands(st, m, B, l, i) = {} THEN st.cell[l][i]
                  ELSE v[Offset(a, CHOOSE b \in Lands(st, m, B, l, i) : TRUE) + 1]

\* A write that is done as above is a write to a plain array.
LEMMA WriteShape ==
  ASSUME IInv, NEW m \in alive, NEW a \in Address, NEW S \in SUBSET Address, NEW B \in SUBSET S,
         NEW v, NEW fl, NEW ce, NEW bad,
         WriteDone(GotFor(m, S), m, a, v, S, B, fl, ce, bad)
  PROVE  /\ IInv' /\ Flat!Stored(m, a, v, B)
         /\ AttrOf' = [AttrOf EXCEPT ![m] = [b \in Address |->
                         WriteAttr(AttrOf[m][b], b \in S, b \in B)]]
         /\ result' = Returns(<<>>, bad) /\ alive' = alive /\ io' = io /\ LentOf' = LentOf
         /\ \A b \in S : AttrIn(GotFor(m, S), m, b) = AttrOf[m][b]
<1>. DEFINE st == GotFor(m, S)
            new == Changed(st, fl, ce)
<1>1. m \in Mem /\ Good(st, alive) /\ Same(Now, st) /\ \A b \in S : MadeIn(st, m, PageOf(b))
  BY AccessFacts
<1>. HIDE DEF st
<1>2. /\ fl \in FlagTable /\ ce \in CellTable /\ bad \in BOOLEAN
      /\ Becomes(Changed(st, fl, ce)) /\ Memio(m, <<>>, bad)
  BY DEF WriteDone, st
<1>3. \A m2 \in Mem, b \in Address : st.page[m2][PageOf(b)].attr # None =>
        /\ fl[<<m2, PageOf(b)>>][IndexOf(b)]
             = WriteAttr(AttrIn(st, m2, b), m2 = m /\ b \in S, m2 = m /\ b \in B)
        /\ ce[<<m2, PageOf(b)>>][IndexOf(b)]
             = IF m2 = m /\ b \in B /\ LentIn(st, m, PageOf(b)) = None
               THEN v[Offset(a, b) + 1] ELSE st.cell[<<m2, PageOf(b)>>][IndexOf(b)]
  BY DEF WriteDone, st
<1>4. \A l \in Buffer, i \in Index :
        ce[l][i] = IF Lands(st, m, B, l, i) = {} THEN st.cell[l][i]
                   ELSE v[Offset(a, CHOOSE b \in Lands(st, m, B, l, i) : TRUE) + 1]
  BY DEF WriteDone, st
<1>5. /\ Good(new, alive) /\ new.cell = ce
      /\ \A m2 \in Mem, p \in Page : LentIn(new, m2, p) = LentIn(st, m2, p)
  BY <1>1, <1>2, ChangeGood
<1>6. ASSUME NEW m2 \in Mem, NEW b \in Address
      PROVE  /\ AttrIn(new, m2, b)
                  = WriteAttr(AttrIn(Now, m2, b), m2 = m /\ b \in S, m2 = m /\ b \in B)
             /\ OwnIn(new, m2, b)
                  = IF m2 = m /\ b \in B /\ LentIn(Now, m, PageOf(b)) = None
                    THEN v[Offset(a, b) + 1] ELSE OwnIn(Now, m2, b)
  <2>1. AttrIn(st, m2, b) = AttrIn(Now, m2, b) /\ OwnIn(st, m2, b) = OwnIn(Now, m2, b)
    BY <1>1 DEF Same
  <2>2. LentIn(st, m, PageOf(b)) = LentIn(Now, m, PageOf(b))
    BY <1>1, PageIndex DEF Same
  <2>3. CASE st.page[m2][PageOf(b)].attr = None
    <3>1. ~(m2 = m /\ b \in S)
      BY <1>1, <2>3, PageIndex, OwnBlock DEF MadeIn
    <3>2. AttrIn(new, m2, b) = AttrIn(st, m2, b) /\ OwnIn(new, m2, b) = OwnIn(st, m2, b)
      BY <1>1, <2>3, ChangeUnmade
    <3>. QED  BY <2>1, <3>1, <3>2 DEF WriteAttr
  <2>4. CASE st.page[m2][PageOf(b)].attr # None
    <3>1. /\ AttrIn(new, m2, b) = fl[<<m2, PageOf(b)>>][IndexOf(b)]
          /\ OwnIn(new, m2, b) = ce[<<m2, PageOf(b)>>][IndexOf(b)]
          /\ OwnIn(st, m2, b) = st.cell[<<m2, PageOf(b)>>][IndexOf(b)]
      BY <1>1, <2>4, ChangeMade
    <3>. QED  BY <1>3, <2>1, <2>2, <2>4, <3>1
  <2>. QED  BY <2>3, <2>4
<1>. HIDE DEF new
<1>7. /\ AttrOf' = [m2 \in Mem |-> [b \in Address |-> AttrIn(new, m2, b)]]
      /\ OwnOf'  = [m2 \in Mem |-> [b \in Address |-> OwnIn(new, m2, b)]]
      /\ LentOf' = [m2 \in Mem |-> [p \in Page |-> LentIn(new, m2, p)]]
      /\ HostOf' = [l \in Buffer |-> new.cell[l]]
      /\ Good(Now', alive)
  <2>1. Becomes(new)
    BY <1>2 DEF new
  <2>. QED  BY <1>5, <2>1, ViewNext
<1>8. AttrOf' = [AttrOf EXCEPT ![m] = [b \in Address |->
                   WriteAttr(AttrOf[m][b], b \in S, b \in B)]]
  <2>1. \A m2 \in Mem, b \in Address :
          AttrIn(new, m2, b) = IF m2 = m THEN WriteAttr(AttrOf[m][b], b \in S, b \in B)
                               ELSE AttrOf[m2][b]
    BY <1>1, <1>6, ViewNow DEF WriteAttr
  <2>. QED  BY <1>1, <1>7, <2>1, ViewNow
<1>9. OwnOf' = [OwnOf EXCEPT ![m] = [b \in Address |->
                  IF b \in B /\ LentOf[m][PageOf(b)] = None THEN v[Offset(a, b) + 1]
                  ELSE OwnOf[m][b]]]
  <2>1. \A m2 \in Mem, b \in Address :
          OwnIn(new, m2, b) = IF m2 = m /\ b \in B /\ LentOf[m][PageOf(b)] = None
                              THEN v[Offset(a, b) + 1] ELSE OwnOf[m2][b]
    BY <1>1, <1>6, ViewNow, PageIndex
  <2>. DEFINE row == [b \in Address |->
                        IF b \in B /\ LentOf[m][PageOf(b)] = None THEN v[Offset(a, b) + 1]
                        ELSE OwnOf[m][b]]
  <2>2. ASSUME NEW m2 \in Mem
        PROVE  [b \in Address |-> OwnIn(new, m2, b)] = IF m2 = m THEN row ELSE OwnOf[m2]
    BY <2>1, ViewNow, ZenonT(60)
  <2>3. DOMAIN OwnOf = Mem
    BY ViewNow
  <2>. HIDE DEF row
  <2>4. OwnOf' = [m2 \in Mem |-> IF m2 = m THEN row ELSE OwnOf[m2]]
    BY <1>7, <2>2
  <2>5. OwnOf' = [OwnOf EXCEPT ![m] = row]
    BY <1>1, <2>3, <2>4
  <2>. QED  BY <2>5 DEF row
<1>10. LentOf' = LentOf
  BY <1>1, <1>5, <1>7, ViewNow DEF Same
<1>11. HostOf' = [l \in Buffer |-> [i \in Index |->
                    LET J == {b \in B : LentOf[m][PageOf(b)] = l /\ IndexOf(b) = i}
                    IN  IF J = {} THEN HostOf[l][i] ELSE v[Offset(a, CHOOSE b \in J : TRUE) + 1]]]
  <2>1. ASSUME NEW l \in Buffer, NEW i \in Index
        PROVE  Lands(st, m, B, l, i) = {b \in B : LentOf[m][PageOf(b)] = l /\ IndexOf(b) = i}
    <3>1. \A b \in B : LentIn(st, m, PageOf(b)) = LentOf[m][PageOf(b)]
      BY <1>1, PageIndex, ViewNow DEF Same
    <3>. QED  BY <3>1 DEF Lands
  <2>2. \A l \in Buffer : st.cell[l] = HostOf[l]
    BY <1>1, ViewNow DEF Same
  <2>3. \A l \in Buffer : ce[l] \in [Index -> Byte]
    BY <1>2 DEF CellTable, Cells
  <2>4. ASSUME NEW l \in Buffer
        PROVE  ce[l] = [i \in Index |->
                 LET J == {b \in B : LentOf[m][PageOf(b)] = l /\ IndexOf(b) = i}
                 IN  IF J = {} THEN HostOf[l][i] ELSE v[Offset(a, CHOOSE b \in J : TRUE) + 1]]
    <3>1. \A i \in Index :
            ce[l][i] = LET J == {b \in B : LentOf[m][PageOf(b)] = l /\ IndexOf(b) = i}
                       IN  IF J = {} THEN HostOf[l][i] ELSE v[Offset(a, CHOOSE b \in J : TRUE) + 1]
      <4>1. TAKE i \in Index
      <4>. DEFINE J == {b \in B : LentOf[m][PageOf(b)] = l /\ IndexOf(b) = i}
      <4>2. Lands(st, m, B, l, i) = J
        BY <2>1
      <4>. HIDE DEF J
      <4>3. ce[l][i] = IF J = {} THEN HostOf[l][i] ELSE v[Offset(a, CHOOSE b \in J : TRUE) + 1]
        BY <1>4, <2>2, <4>2
      <4>. QED  BY <4>3 DEF J
    <3>. QED  BY <2>3, <3>1
  <2>. QED  BY <1>5, <1>7, <2>4
<1>12. Flat!Stored(m, a, v, B)
  BY <1>9, <1>11 DEF Flat!Stored, Index, IndexOf, Flat!Address, Address, Flat!Size, Size,
                     Flat!PageOf, PageOf, Flat!Offset, Offset
<1>13. /\ result' = Returns(<<>>, bad) /\ alive' = alive /\ io' = io
       /\ invalid' = [invalid EXCEPT ![m] = bad]
  BY <1>2 DEF Memio
<1>14. IInv'
  BY <1>2, <1>7, <1>13 DEF IInv
<1>15. \A b \in S : AttrIn(st, m, b) = AttrOf[m][b]
  BY <1>1, ViewNow DEF Same
<1>. QED  BY <1>8, <1>10, <1>12, <1>13, <1>14, <1>15 DEF st

\* The content of all blocks and buffers when the bytes S of v have been stored.
StoredCells(st, m, a, v, S) ==
  [k \in Block \cup Buffer |-> [i \in Index |->
     LET D == DataHere(st, m, S, k, i)
     IN  IF D = {} THEN st.cell[k][i] ELSE v[Offset(a, CHOOSE b \in D : TRUE) + 1]]]

\* Stored bytes are bytes, so that the content stays one.
LEMMA StoredTable ==
  ASSUME NEW A, NEW st, Good(st, A), NEW m, NEW a, NEW v, NEW S,
         \A b \in S : v[Offset(a, b) + 1] \in Byte
  PROVE  StoredCells(st, m, a, v, S) \in CellTable
<1>1. ASSUME NEW k \in Block \cup Buffer, NEW i \in Index
      PROVE  (LET D == DataHere(st, m, S, k, i)
              IN  IF D = {} THEN st.cell[k][i] ELSE v[Offset(a, CHOOSE b \in D : TRUE) + 1]) \in Byte
  <2>. DEFINE D == DataHere(st, m, S, k, i)
  <2>1. D \subseteq S
    BY DEF DataHere
  <2>2. st.cell[k][i] \in Byte
    BY TableFacts
  <2>. HIDE DEF D
  <2>3. CASE D # {}
    <3>1. (CHOOSE b \in D : TRUE) \in S
      BY <2>1, <2>3
    <3>. QED  BY <2>3, <3>1 DEF D
  <2>4. CASE D = {}
    BY <2>2, <2>4 DEF D
  <2>. QED  BY <2>3, <2>4
<1>. QED  BY <1>1 DEF StoredCells, CellTable, Cells

\* What it holds for a byte that is not lent.
LEMMA StoredAt ==
  ASSUME NEW A, NEW st, Good(st, A), NEW m \in Mem, NEW a, NEW v, NEW S, AllMade(st, m, S),
         NEW m2 \in Mem, NEW b \in Address
  PROVE  StoredCells(st, m, a, v, S)[<<m2, PageOf(b)>>][IndexOf(b)]
           = IF m2 = m /\ b \in S /\ LentIn(st, m, PageOf(b)) = None
             THEN v[Offset(a, b) + 1] ELSE st.cell[<<m2, PageOf(b)>>][IndexOf(b)]
<1>. DEFINE D == DataHere(st, m, S, <<m2, PageOf(b)>>, IndexOf(b))
<1>1. <<m2, PageOf(b)>> \in Block /\ IndexOf(b) \in Index
  BY OwnFacts
<1>2. D = IF m2 = m /\ b \in S /\ LentIn(st, m, PageOf(b)) = None THEN {b} ELSE {}
  BY HereFacts, ZenonT(60)
<1>3. StoredCells(st, m, a, v, S)[<<m2, PageOf(b)>>][IndexOf(b)]
        = IF D = {} THEN st.cell[<<m2, PageOf(b)>>][IndexOf(b)]
          ELSE v[Offset(a, CHOOSE c \in D : TRUE) + 1]
  BY <1>1 DEF StoredCells
<1>. HIDE DEF D
<1>4. CASE m2 = m /\ b \in S /\ LentIn(st, m, PageOf(b)) = None
  <2>1. D = {b} /\ (CHOOSE c \in D : TRUE) = b
    BY <1>2, <1>4
  <2>. QED  BY <1>3, <1>4, <2>1
<1>5. CASE ~(m2 = m /\ b \in S /\ LentIn(st, m, PageOf(b)) = None)
  BY <1>2, <1>3, <1>5
<1>. QED  BY <1>4, <1>5

\* What it holds in a buffer.
LEMMA StoredIn ==
  ASSUME NEW A, NEW st, Good(st, A), NEW m \in Mem, NEW a, NEW v, NEW S, AllMade(st, m, S),
         NEW l \in Buffer, NEW i \in Index
  PROVE  StoredCells(st, m, a, v, S)[l][i]
           = IF Lands(st, m, S, l, i) = {} THEN st.cell[l][i]
             ELSE v[Offset(a, CHOOSE b \in Lands(st, m, S, l, i) : TRUE) + 1]
<1>1. DataHere(st, m, S, l, i) = Lands(st, m, S, l, i)
  BY HereFacts DEF Lands
<1>2. StoredCells(st, m, a, v, S)[l][i]
        = IF DataHere(st, m, S, l, i) = {} THEN st.cell[l][i]
          ELSE v[Offset(a, CHOOSE b \in DataHere(st, m, S, l, i) : TRUE) + 1]
  BY DEF StoredCells
<1>. QED  BY <1>1, <1>2

\* The values of an access fit it.
LEMMA ValueFacts ==
  ASSUME NEW a \in Address, NEW n \in {1, 2, 4}, NEW v \in [1 .. 4 -> Byte], NEW b \in Span(a, n)
  PROVE  v[Offset(a, b) + 1] \in Byte
<1>1. Offset(a, b) \in 0 .. n - 1
  BY SpanFacts
<1>. QED  BY <1>1

\* States of which parts are replaced, one after the other.
LEMMA ReplacedFlags ==
  ASSUME NEW st, NEW p, NEW f, NEW c, NEW g, st = [page |-> p, flags |-> f, cell |-> c]
  PROVE  [st EXCEPT !.flags = g] = [page |-> p, flags |-> g, cell |-> c]
  OBVIOUS

\* Content alone.
LEMMA ReplacedCell ==
  ASSUME NEW st, NEW p, NEW f, NEW c, NEW g, st = [page |-> p, flags |-> f, cell |-> c]
  PROVE  [st EXCEPT !.cell = g] = [page |-> p, flags |-> f, cell |-> g]
  OBVIOUS

\* Attributes and content at once.
LEMMA ReplacedBoth ==
  ASSUME NEW st \in Memory, NEW f, NEW c
  PROVE  [st EXCEPT !.flags = f, !.cell = c] = Changed(st, f, c)
<1>1. [st EXCEPT !.flags = f, !.cell = c] \in [page : {st.page}, flags : {f}, cell : {c}]
  BY DEF Memory
<1>. DEFINE w == [st EXCEPT !.flags = f, !.cell = c]
<1>. HIDE DEF w
<1>2. w \in [page : {st.page}, flags : {f}, cell : {c}]
  BY <1>1 DEF w
<1>3. w = [page |-> st.page, flags |-> f, cell |-> c]
  BY <1>2
<1>. QED  BY <1>3 DEF Changed, w

\* Attributes, once more.
LEMMA ReplacedAgain ==
  ASSUME NEW st, NEW f, NEW c, NEW g
  PROVE  [Changed(st, f, c) EXCEPT !.flags = g] = Changed(st, g, c)
  BY ReplacedFlags DEF Changed

\* Attributes alone, of a state.
LEMMA ReplacedOnce ==
  ASSUME NEW st \in Memory, NEW f
  PROVE  [st EXCEPT !.flags = f] = Changed(st, f, st.cell)
<1>1. st = [page |-> st.page, flags |-> st.flags, cell |-> st.cell]
  BY DEF Memory
<1>. QED  BY <1>1, ReplacedFlags DEF Changed

\* And then its content.
LEMMA ReplacedContent ==
  ASSUME NEW st, NEW f, NEW c, NEW e
  PROVE  [Changed(st, f, c) EXCEPT !.cell = e] = Changed(st, f, e)
  BY ReplacedCell DEF Changed

\* vm_w_byte for each byte writes the plain array.
LEMMA WriteBytesSim ==
  ASSUME IInv, NEW m \in alive, NEW a \in Address, NEW n \in {1, 2, 4}, NEW v \in [1 .. 4 -> Byte],
         WriteBytes(GotFor(m, Span(a, n)), m, a, n, v)
  PROVE  IInv' /\ Flat!Write(m, a, n, v)
<1>. DEFINE st == GotFor(m, Span(a, n))
            S  == Span(a, n)
            B  == {b \in S : "W" \in Attribute(st, m, b)}
            R  == S \ B
            ws == BytesStored(st, m, a, v, B)
            fl == Marked(st, m, B, {"VALID", "ACC_W"}, R, {"ACC_INVALID"})
            ce == StoredCells(st, m, a, v, B)
            bad == R # {}
<1>1. S \in SUBSET Address
  BY SpanFacts
<1>2. m \in Mem /\ Good(st, alive) /\ AllMade(st, m, S)
  BY <1>1, AccessFacts DEF AllMade
<1>3. /\ Becomes([ws EXCEPT !.flags = [k \in Block |-> [i \in Index |->
             ws.flags[k][i] \cup (IF AttrHere(st, m, R, k, i) # {} THEN {"ACC_INVALID"} ELSE {})]]])
      /\ Memio(m, <<>>, bad)
  BY DEF WriteBytes
<1>. HIDE DEF st
<1>4. \A b \in S : Attribute(st, m, b) = AttrIn(st, m, b)
  BY <1>1, <1>2, ContentFacts DEF AllMade
<1>5. AllMade(st, m, B) /\ AllMade(st, m, R) /\ B \in SUBSET S
  BY <1>2 DEF AllMade
<1>6. B = {b \in S : "W" \in AttrIn(st, m, b)}
  BY <1>4
<1>7. bad \in BOOLEAN /\ bad = (B # S)
  BY <1>5
<1>8. \A b \in B : v[Offset(a, b) + 1] \in Byte
  BY <1>5, ValueFacts
<1>. HIDE DEF S
<1>. HIDE DEF B
<1>9. Becomes(Changed(st, fl, ce))
  <2>. DEFINE f == [k \in Block |-> [i \in Index |->
                      st.flags[k][i] \cup (IF AttrHere(st, m, B, k, i) # {} THEN {"VALID", "ACC_W"}
                                           ELSE {})]]
              g == [k \in Block |-> [i \in Index |->
                      ws.flags[k][i] \cup (IF AttrHere(st, m, R, k, i) # {} THEN {"ACC_INVALID"}
                                           ELSE {})]]
  <2>1. st \in Memory
    BY <1>2, TableFacts
  <2>2. ws = [st EXCEPT !.flags = f, !.cell = ce]
    BY DEF BytesStored, StoredCells
  <2>3. Becomes([ws EXCEPT !.flags = g])
    BY <1>3
  <2>. HIDE DEF ws, ce
  <2>4. ws = Changed(st, f, ce) /\ ws.flags = f
    <3>. HIDE DEF f
    <3>1. ws = Changed(st, f, ce)
      BY <2>1, <2>2, ReplacedBoth
    <3>. QED  BY <3>1 DEF Changed
  <2>5. g = fl
    <3>1. \A k \in Block, i \in Index :
            ws.flags[k][i] = st.flags[k][i]
              \cup (IF AttrHere(st, m, B, k, i) # {} THEN {"VALID", "ACC_W"} ELSE {})
      <4>1. \A k \in Block, i \in Index :
              f[k][i] = st.flags[k][i]
                \cup (IF AttrHere(st, m, B, k, i) # {} THEN {"VALID", "ACC_W"} ELSE {})
        OBVIOUS
      <4>. HIDE DEF ws, f
      <4>. QED  BY <2>4, <4>1
    <3>. QED  BY <3>1, ZenonT(60) DEF Marked
  <2>. HIDE DEF f, g, fl
  <2>6. [ws EXCEPT !.flags = fl] = Changed(st, fl, ce)
    BY <2>4, ReplacedAgain
  <2>. QED  BY <2>3, <2>5, <2>6
<1>10. fl \in FlagTable /\ ce \in CellTable
  <2>1. {"VALID", "ACC_W"} \in SUBSET Attr /\ {"ACC_INVALID"} \in SUBSET Attr
    BY DEF Attr
  <2>. QED  BY <1>2, <1>8, <2>1, MarkedTable, StoredTable
<1>11. ASSUME NEW m2 \in Mem, NEW b \in Address, st.page[m2][PageOf(b)].attr # None
       PROVE  /\ fl[<<m2, PageOf(b)>>][IndexOf(b)]
                   = WriteAttr(AttrIn(st, m2, b), m2 = m /\ b \in S, m2 = m /\ b \in B)
              /\ ce[<<m2, PageOf(b)>>][IndexOf(b)]
                   = IF m2 = m /\ b \in B /\ LentIn(st, m, PageOf(b)) = None
                     THEN v[Offset(a, b) + 1] ELSE st.cell[<<m2, PageOf(b)>>][IndexOf(b)]
  <2>1. fl[<<m2, PageOf(b)>>][IndexOf(b)]
          = AttrIn(st, m2, b) \cup (IF m2 = m /\ b \in B THEN {"VALID", "ACC_W"} ELSE {})
                              \cup (IF m2 = m /\ b \in R THEN {"ACC_INVALID"} ELSE {})
    BY <1>2, <1>5, <1>11, MarkedAt
  <2>2. ce[<<m2, PageOf(b)>>][IndexOf(b)]
          = IF m2 = m /\ b \in B /\ LentIn(st, m, PageOf(b)) = None
            THEN v[Offset(a, b) + 1] ELSE st.cell[<<m2, PageOf(b)>>][IndexOf(b)]
    BY <1>2, <1>5, StoredAt
  <2>. HIDE DEF fl, ce
  <2>. QED  BY <1>5, <2>1, <2>2 DEF WriteAttr
<1>12. \A l \in Buffer, i \in Index :
         ce[l][i] = IF Lands(st, m, B, l, i) = {} THEN st.cell[l][i]
                    ELSE v[Offset(a, CHOOSE b \in Lands(st, m, B, l, i) : TRUE) + 1]
  BY <1>2, <1>5, StoredIn
<1>. HIDE DEF fl, ce, bad
<1>13. WriteDone(st, m, a, v, S, B, fl, ce, bad)
  BY <1>3, <1>7, <1>9, <1>10, <1>11, <1>12 DEF WriteDone
<1>14. /\ IInv' /\ Flat!Stored(m, a, v, B)
       /\ AttrOf' = [AttrOf EXCEPT ![m] = [b \in Address |->
                       WriteAttr(AttrOf[m][b], b \in S, b \in B)]]
       /\ result' = Returns(<<>>, bad) /\ alive' = alive /\ io' = io /\ LentOf' = LentOf
       /\ \A b \in S : AttrIn(st, m, b) = AttrOf[m][b]
  BY <1>1, <1>5, <1>13, WriteShape DEF st, S
<1>15. B = {b \in S : "W" \in AttrOf[m][b]}
  BY <1>6, <1>14
<1>16. \A b \in Address : WriteAttr(AttrOf[m][b], b \in S, b \in B) =
         CASE b \in B -> AttrOf[m][b] \cup {"VALID", "ACC_W"}
           [] b \in S \ B -> AttrOf[m][b] \cup {"ACC_INVALID"}
           [] OTHER -> AttrOf[m][b]
  BY DEF WriteAttr
<1>17. Flat!Write(m, a, n, v)
  BY <1>7, <1>14, <1>15, <1>16, FlatSame, ZenonT(60) DEF Flat!Write, S
<1>. QED  BY <1>14, <1>17

\* The content when the short cut has stored v.
RunCells(st, m, a, n, v) ==
  [st.cell EXCEPT ![st.page[m][PageOf(a)].data] =
     [i \in Index |-> IF i \in IndexOf(a) .. IndexOf(a) + n - 1 THEN v[i - IndexOf(a) + 1]
                      ELSE st.cell[st.page[m][PageOf(a)].data][i]]]

\* It is the content of the run that changes, and nothing else.
LEMMA RunCellsFacts ==
  ASSUME NEW A, NEW st, Good(st, A), NEW m \in Mem, NEW a \in Address, NEW n \in {1, 2, 4},
         IndexOf(a) <= PageSize - n, MadeIn(st, m, PageOf(a)), NEW v \in [1 .. 4 -> Byte]
  PROVE  /\ RunCells(st, m, a, n, v) \in CellTable
         /\ \A k \in Block \cup Buffer, i \in Index :
              RunCells(st, m, a, n, v)[k][i] =
                IF k = st.page[m][PageOf(a)].data /\ i \in IndexOf(a) .. IndexOf(a) + n - 1
                THEN v[i - IndexOf(a) + 1] ELSE st.cell[k][i]
<1>. DEFINE d == st.page[m][PageOf(a)].data
            g == [i \in Index |-> IF i \in IndexOf(a) .. IndexOf(a) + n - 1
                                  THEN v[i - IndexOf(a) + 1] ELSE st.cell[d][i]]
<1>1. d \in Block \cup Buffer
  BY PageIndex, OwnBlock DEF MadeIn
<1>2. /\ st.cell \in [Block \cup Buffer -> [Index -> Byte]]
      /\ \A k \in Block \cup Buffer, i \in Index : st.cell[k][i] \in Byte
  BY TableFacts DEF CellTable, Cells
<1>3. RunCells(st, m, a, n, v) = [st.cell EXCEPT ![d] = g]
  BY DEF RunCells
<1>. HIDE DEF d
<1>4. ASSUME NEW i \in Index, i \in IndexOf(a) .. IndexOf(a) + n - 1
      PROVE  v[i - IndexOf(a) + 1] \in Byte
  <2>1. IndexOf(a) \in Nat
    BY PageIndex DEF Index
  <2>2. i - IndexOf(a) + 1 \in 1 .. 4
    BY <1>4, <2>1
  <2>. QED  BY <2>2
<1>5. g \in [Index -> Byte]
  BY <1>1, <1>2, <1>4
<1>6. \A i \in Index : g[i] = IF i \in IndexOf(a) .. IndexOf(a) + n - 1
                              THEN v[i - IndexOf(a) + 1] ELSE st.cell[d][i]
  OBVIOUS
<1>. HIDE DEF g
<1>7. RunCells(st, m, a, n, v) \in CellTable
  BY <1>1, <1>2, <1>3, <1>5 DEF CellTable, Cells
<1>8. \A k \in Block \cup Buffer : RunCells(st, m, a, n, v)[k] = IF k = d THEN g ELSE st.cell[k]
  BY <1>1, <1>2, <1>3
<1>. QED  BY <1>6, <1>7, <1>8 DEF d

\* The short cut of vm_w_word and vm_w_dword writes the plain array.
LEMMA WriteRunSim ==
  ASSUME IInv, NEW m \in alive, NEW a \in Address, NEW n \in {1, 2, 4}, NEW v \in [1 .. 4 -> Byte],
         Shortcut(GotFor(m, Span(a, n)), m, a, n, {"W"}),
         WriteRun(GotFor(m, Span(a, n)), m, a, n, v)
  PROVE  IInv' /\ Flat!Write(m, a, n, v)
<1>. DEFINE st == GotFor(m, Span(a, n))
            S  == Span(a, n)
            x  == {"VALID", "ACC_W"}
            fl == RunTable(st, m, a, n, x)
            ce == RunCells(st, m, a, n, v)
            d  == st.page[m][PageOf(a)].data
<1>1. S \in SUBSET Address
  <2>1. Span(a, n) \subseteq Address
    BY SpanFacts
  <2>. QED  BY <2>1
<1>2. m \in Mem /\ Good(st, alive) /\ AllMade(st, m, S)
  <2>1. m \in Mem /\ Good(st, alive) /\ \A b \in S : MadeIn(st, m, PageOf(b))
    BY <1>1, AccessFacts
  <2>. HIDE DEF st, S
  <2>. QED  BY <1>1, <2>1 DEF AllMade
<1>3. /\ Becomes([RunMarked(st, m, a, n, x) EXCEPT !.cell = ce])
      /\ Memio(m, <<>>, FALSE)
  BY Zenon DEF WriteRun, RunCells
<1>4. Shortcut(st, m, a, n, {"W"})
  OBVIOUS
<1>. HIDE DEF st
<1>5. /\ IndexOf(a) <= PageSize - n /\ MadeIn(st, m, PageOf(a))
      /\ \A b \in S : {"W"} \subseteq AttrIn(st, m, b)
  BY <1>2, <1>4, ShortcutFacts
<1>6. x \in SUBSET Attr
  BY DEF Attr
<1>7. fl \in FlagTable /\ RunMarked(st, m, a, n, x) = [st EXCEPT !.flags = fl]
  BY <1>2, <1>5, <1>6, RunFacts
<1>8. ce \in CellTable
  BY <1>2, <1>5, RunCellsFacts
<1>9. Becomes(Changed(st, fl, ce))
  <2>1. st \in Memory
    BY <1>2, TableFacts
  <2>. HIDE DEF fl, ce
  <2>2. [RunMarked(st, m, a, n, x) EXCEPT !.cell = ce] = Changed(st, fl, ce)
    <3>1. RunMarked(st, m, a, n, x) = Changed(st, fl, st.cell)
      BY <1>7, <2>1, ReplacedOnce
    <3>. QED  BY <3>1, ReplacedContent
  <2>. QED  BY <1>3, <2>2
<1>10. ASSUME NEW m2 \in Mem, NEW b \in Address, st.page[m2][PageOf(b)].attr # None
       PROVE  /\ fl[<<m2, PageOf(b)>>][IndexOf(b)]
                   = WriteAttr(AttrIn(st, m2, b), m2 = m /\ b \in S, m2 = m /\ b \in S)
              /\ ce[<<m2, PageOf(b)>>][IndexOf(b)]
                   = IF m2 = m /\ b \in S /\ LentIn(st, m, PageOf(b)) = None
                     THEN v[Offset(a, b) + 1] ELSE st.cell[<<m2, PageOf(b)>>][IndexOf(b)]
  <2>1. fl[<<m2, PageOf(b)>>][IndexOf(b)]
          = AttrIn(st, m2, b) \cup (IF m2 = m /\ b \in S THEN x ELSE {})
    BY <1>2, <1>5, <1>10, RunAt
  <2>2. /\ <<m2, PageOf(b)>> \in Block /\ <<m2, PageOf(b)>> \notin Buffer /\ IndexOf(b) \in Index
        /\ PageOf(b) \in Page
    BY PageIndex, OwnBlock
  <2>3. ce[<<m2, PageOf(b)>>][IndexOf(b)]
          = IF <<m2, PageOf(b)>> = d /\ IndexOf(b) \in IndexOf(a) .. IndexOf(a) + n - 1
            THEN v[IndexOf(b) - IndexOf(a) + 1] ELSE st.cell[<<m2, PageOf(b)>>][IndexOf(b)]
    BY <1>2, <1>5, <2>2, RunCellsFacts
  <2>4. /\ b \in S <=> PageOf(b) = PageOf(a) /\ IndexOf(b) \in IndexOf(a) .. IndexOf(a) + n - 1
        /\ b \in S => Offset(a, b) = IndexOf(b) - IndexOf(a)
    BY <1>5, InPageFacts
  <2>5. d \in Buffer \cup {<<m, PageOf(a)>>}
    BY <1>5 DEF MadeIn
  <2>8. LentIn(st, m, PageOf(a)) = None <=> d = <<m, PageOf(a)>>
    BY <1>2, <1>5, ContentFacts, ZenonT(60)
  <2>6. <<m2, PageOf(b)>> = d <=> m2 = m /\ PageOf(b) = PageOf(a) /\ LentIn(st, m, PageOf(b)) = None
    BY <2>2, <2>5, <2>8
  <2>. HIDE DEF fl, ce, S, d
  <2>7. ce[<<m2, PageOf(b)>>][IndexOf(b)]
          = IF m2 = m /\ b \in S /\ LentIn(st, m, PageOf(b)) = None
            THEN v[Offset(a, b) + 1] ELSE st.cell[<<m2, PageOf(b)>>][IndexOf(b)]
    BY <2>3, <2>4, <2>6
  <2>. QED  BY <2>1, <2>7 DEF WriteAttr
<1>11. ASSUME NEW l \in Buffer, NEW i \in Index
       PROVE  ce[l][i] = IF Lands(st, m, S, l, i) = {} THEN st.cell[l][i]
                         ELSE v[Offset(a, CHOOSE b \in Lands(st, m, S, l, i) : TRUE) + 1]
  <2>1. ce[l][i] = IF l = d /\ i \in IndexOf(a) .. IndexOf(a) + n - 1
                   THEN v[i - IndexOf(a) + 1] ELSE st.cell[l][i]
    BY <1>2, <1>5, RunCellsFacts
  <2>2. /\ PageOf(a) \in Page /\ <<m, PageOf(a)>> \notin Buffer
        /\ d \in Buffer \cup {<<m, PageOf(a)>>}
    BY <1>2, <1>5, PageIndex, OwnBlock DEF MadeIn
  <2>3. LentIn(st, m, PageOf(a)) = l <=> d = l
    BY <2>2, NotBlocks DEF LentIn
  <2>4. \A b \in S : /\ PageOf(b) = PageOf(a) /\ IndexOf(b) \in IndexOf(a) .. IndexOf(a) + n - 1
                     /\ Offset(a, b) = IndexOf(b) - IndexOf(a)
    BY <1>1, <1>5, InPageFacts, SMTT(30)
  <2>5. CASE l = d /\ i \in IndexOf(a) .. IndexOf(a) + n - 1
    <3>1. PageOf(a) * PageSize + i \in S
      BY <1>5, <2>2, <2>5, InPageFacts, PageIndexUnique
    <3>2. PageOf(a) * PageSize + i \in Lands(st, m, S, l, i)
      BY <2>2, <2>3, <2>5, <3>1, PageIndexUnique DEF Lands
    <3>3. \A b \in Lands(st, m, S, l, i) : Offset(a, b) = i - IndexOf(a)
      BY <2>4 DEF Lands
    <3>4. (CHOOSE b \in Lands(st, m, S, l, i) : TRUE) \in Lands(st, m, S, l, i)
      BY <3>2
    <3>5. Offset(a, CHOOSE b \in Lands(st, m, S, l, i) : TRUE) = i - IndexOf(a)
      BY <3>3, <3>4
    <3>. QED  BY <2>1, <2>5, <3>2, <3>5
  <2>6. CASE ~(l = d /\ i \in IndexOf(a) .. IndexOf(a) + n - 1)
    <3>1. Lands(st, m, S, l, i) = {}
      BY <2>3, <2>4, <2>6 DEF Lands
    <3>. QED  BY <2>1, <2>6, <3>1
  <2>. QED  BY <2>5, <2>6
<1>. HIDE DEF fl, ce
<1>12. WriteDone(st, m, a, v, S, S, fl, ce, FALSE)
  BY <1>3, <1>7, <1>8, <1>9, <1>10, <1>11 DEF WriteDone
<1>13. /\ IInv' /\ Flat!Stored(m, a, v, S)
       /\ AttrOf' = [AttrOf EXCEPT ![m] = [b \in Address |->
                       WriteAttr(AttrOf[m][b], b \in S, b \in S)]]
       /\ result' = Returns(<<>>, FALSE) /\ alive' = alive /\ io' = io /\ LentOf' = LentOf
       /\ \A b \in S : AttrIn(st, m, b) = AttrOf[m][b]
  BY <1>1, <1>12, WriteShape, ZenonT(60) DEF st
<1>14. S = {b \in S : "W" \in AttrOf[m][b]}
  BY <1>5, <1>13
<1>15. \A b \in Address : WriteAttr(AttrOf[m][b], b \in S, b \in S) =
         CASE b \in S -> AttrOf[m][b] \cup {"VALID", "ACC_W"}
           [] b \in S \ S -> AttrOf[m][b] \cup {"ACC_INVALID"}
           [] OTHER -> AttrOf[m][b]
  BY DEF WriteAttr
<1>. HIDE DEF S
<1>16. Flat!Write(m, a, n, v)
  BY <1>13, <1>14, <1>15, FlatSame, ZenonT(60) DEF Flat!Write, S
<1>. QED  BY <1>13, <1>16

\* vm_w_byte_noperm writes the plain array.
LEMMA PokeSim ==
  ASSUME IInv, NEW m \in alive, NEW a \in Address, NEW v \in [1 .. 4 -> Byte], Poke(m, a, v)
  PROVE  IInv' /\ Flat!Poke(m, a, v)
<1>. DEFINE S  == {a}
            st == GotFor(m, S)
            x  == {"VALID", "ACC_W"}
            fl == Marked(st, m, S, x, {}, {})
            ce == StoredCells(st, m, a, v, S)
<1>1. S \in SUBSET Address
  OBVIOUS
<1>13. S = {a}
  OBVIOUS
<1>2. m \in Mem /\ Good(st, alive) /\ AllMade(st, m, S) /\ AllMade(st, m, {})
  BY <1>1, AccessFacts DEF AllMade
<1>3. Becomes(BytesStored(st, m, a, v, S)) /\ Memio(m, <<>>, FALSE)
  BY DEF Poke
<1>. HIDE DEF st, S
<1>4. \A b \in S : v[Offset(a, b) + 1] \in Byte
  <2>1. Size \in Nat /\ Size > 0 /\ a \in Int
    BY SizeFacts DEF Address
  <2>2. Offset(a, a) = 0
    BY <2>1 DEF Offset
  <2>. QED  BY <1>13, <2>2
<1>5. Becomes(Changed(st, fl, ce))
  <2>. DEFINE f == [k \in Block |-> [i \in Index |->
                      st.flags[k][i] \cup (IF AttrHere(st, m, S, k, i) # {} THEN {"VALID", "ACC_W"}
                                           ELSE {})]]
  <2>1. st \in Memory
    BY <1>2, TableFacts
  <2>2. BytesStored(st, m, a, v, S) = [st EXCEPT !.flags = f, !.cell = ce]
    BY DEF BytesStored, StoredCells
  <2>3. fl = f
    BY DEF Marked, AttrHere
  <2>. HIDE DEF f, fl, ce
  <2>. QED  BY <1>3, <2>1, <2>2, <2>3, ReplacedBoth
<1>6. fl \in FlagTable /\ ce \in CellTable
  <2>1. x \in SUBSET Attr /\ {} \in SUBSET Attr
    BY DEF Attr
  <2>. QED  BY <1>2, <1>4, <2>1, MarkedTable, StoredTable
<1>7. ASSUME NEW m2 \in Mem, NEW b \in Address, st.page[m2][PageOf(b)].attr # None
      PROVE  /\ fl[<<m2, PageOf(b)>>][IndexOf(b)]
                  = WriteAttr(AttrIn(st, m2, b), m2 = m /\ b \in S, m2 = m /\ b \in S)
             /\ ce[<<m2, PageOf(b)>>][IndexOf(b)]
                  = IF m2 = m /\ b \in S /\ LentIn(st, m, PageOf(b)) = None
                    THEN v[Offset(a, b) + 1] ELSE st.cell[<<m2, PageOf(b)>>][IndexOf(b)]
  <2>1. fl[<<m2, PageOf(b)>>][IndexOf(b)]
          = AttrIn(st, m2, b) \cup (IF m2 = m /\ b \in S THEN x ELSE {})
                              \cup (IF m2 = m /\ b \in {} THEN {} ELSE {})
    BY <1>2, <1>7, MarkedAt
  <2>2. ce[<<m2, PageOf(b)>>][IndexOf(b)]
          = IF m2 = m /\ b \in S /\ LentIn(st, m, PageOf(b)) = None
            THEN v[Offset(a, b) + 1] ELSE st.cell[<<m2, PageOf(b)>>][IndexOf(b)]
    BY <1>2, StoredAt
  <2>. HIDE DEF fl, ce
  <2>. QED  BY <2>1, <2>2 DEF WriteAttr
<1>8. \A l \in Buffer, i \in Index :
        ce[l][i] = IF Lands(st, m, S, l, i) = {} THEN st.cell[l][i]
                   ELSE v[Offset(a, CHOOSE b \in Lands(st, m, S, l, i) : TRUE) + 1]
  BY <1>2, StoredIn
<1>. HIDE DEF fl, ce
<1>9. WriteDone(st, m, a, v, S, S, fl, ce, FALSE)
  BY <1>3, <1>5, <1>6, <1>7, <1>8 DEF WriteDone
<1>10. /\ IInv' /\ Flat!Stored(m, a, v, S)
       /\ AttrOf' = [AttrOf EXCEPT ![m] = [b \in Address |->
                       WriteAttr(AttrOf[m][b], b \in S, b \in S)]]
       /\ result' = Returns(<<>>, FALSE) /\ alive' = alive /\ io' = io /\ LentOf' = LentOf
       /\ \A b \in S : AttrIn(st, m, b) = AttrOf[m][b]
  BY <1>1, <1>9, WriteShape DEF st
<1>11. AttrOf' = [AttrOf EXCEPT ![m][a] = @ \cup {"VALID", "ACC_W"}]
  <2>1. m \in DOMAIN AttrOf /\ AttrOf[m] = [b \in Address |-> AttrOf[m][b]]
    BY <1>2 DEF AttrOf
  <2>2. [b \in Address |-> WriteAttr(AttrOf[m][b], b \in S, b \in S)]
          = [AttrOf[m] EXCEPT ![a] = AttrOf[m][a] \cup {"VALID", "ACC_W"}]
    BY <1>13, <2>1 DEF WriteAttr
  <2>. QED  BY <1>10, <2>1, <2>2
<1>12. result' = Flat!Nothing
  BY <1>10 DEF Returns, Nothing, Flat!Nothing
<1>. QED  BY <1>13, <1>10, <1>11, <1>12 DEF Flat!Poke

\* A step of the pages that cannot be seen.
LEMMA UnseenSim ==
  ASSUME NEW new, Becomes(new), NEW A, Good(new, A), Same(Now, new)
  PROVE  AttrOf' = AttrOf /\ OwnOf' = OwnOf /\ LentOf' = LentOf /\ HostOf' = HostOf /\ Good(Now', A)
<1>1. /\ AttrOf' = [m \in Mem |-> [b \in Address |-> AttrIn(new, m, b)]]
      /\ OwnOf'  = [m \in Mem |-> [b \in Address |-> OwnIn(new, m, b)]]
      /\ LentOf' = [m \in Mem |-> [p \in Page |-> LentIn(new, m, p)]]
      /\ HostOf' = [l \in Buffer |-> new.cell[l]]
      /\ Good(Now', A)
  BY ViewNext
<1>2. /\ \A m \in Mem, b \in Address : AttrIn(new, m, b) = AttrIn(Now, m, b)
                                       /\ OwnIn(new, m, b) = OwnIn(Now, m, b)
      /\ \A m \in Mem, p \in Page : LentIn(new, m, p) = LentIn(Now, m, p)
      /\ \A l \in Buffer : new.cell[l] = Now.cell[l]
  BY DEF Same
<1>3. AttrOf' = AttrOf
  BY <1>1, <1>2, ViewNow
<1>4. OwnOf' = OwnOf
  BY <1>1, <1>2, ViewNow
<1>5. LentOf' = LentOf /\ HostOf' = HostOf
  BY <1>1, <1>2, ViewNow
<1>. QED  BY <1>1, <1>3, <1>4, <1>5

\* vm_r_byte_noperm reads it.
LEMMA PeekSim ==
  ASSUME IInv, NEW m \in alive, NEW a \in Address, Peek(m, a)
  PROVE  IInv' /\ Flat!Peek(m, a)
<1>. DEFINE st == GotFor(m, {a})
<1>1. /\ m \in Mem /\ Good(st, alive) /\ Same(Now, st) /\ MadeIn(st, m, PageOf(a))
  BY AccessFacts
<1>2. Becomes(st) /\ Memio(m, <<Content(st, m, a)>>, FALSE)
  BY DEF Peek
<1>. HIDE DEF st
<1>3. AttrOf' = AttrOf /\ OwnOf' = OwnOf /\ LentOf' = LentOf /\ HostOf' = HostOf /\ Good(Now', alive)
  BY <1>1, <1>2, UnseenSim
<1>4. Content(st, m, a) = Flat!Value(m, a)
  <2>1. /\ LentIn(st, m, PageOf(a)) = LentOf[m][PageOf(a)]
        /\ OwnIn(st, m, a) = OwnOf[m][a]
    BY <1>1, PageIndex, ViewNow DEF Same
  <2>2. \A l \in Buffer : st.cell[l] = HostOf[l]
    BY <1>1, ViewNow DEF Same
  <2>3. /\ LentIn(st, m, PageOf(a)) \in Buffer \cup {None}
        /\ Content(st, m, a) = IF LentIn(st, m, PageOf(a)) = None THEN OwnIn(st, m, a)
                               ELSE st.cell[LentIn(st, m, PageOf(a))][IndexOf(a)]
    BY <1>1, ContentFacts
  <2>. QED  BY <2>1, <2>2, <2>3, FlatSame DEF Flat!Value, IndexOf
<1>5. /\ result' = Returns(<<Content(st, m, a)>>, FALSE) /\ alive' = alive /\ io' = io
      /\ invalid' = [invalid EXCEPT ![m] = FALSE]
  BY <1>2 DEF Memio
<1>6. IInv'
  BY <1>3, <1>5 DEF IInv
<1>. QED  BY <1>3, <1>4, <1>5, <1>6, FlatSame DEF Flat!Peek

(***************************************************************************)
(* Management.                                                             *)
(***************************************************************************)
\* x86emu_new makes a plain array.
LEMMA NewSim ==
  ASSUME IInv, NEW m \in Mem, NEW perm \in SUBSET {"R", "W", "X", "VALID"}, New(m, perm)
  PROVE  IInv' /\ Flat!New(m, perm)
<1>. DEFINE pg  == [page EXCEPT ![m] = [p \in Page |-> Unmade(perm)]]
            new == [page |-> pg, flags |-> flags, cell |-> cell]
<1>1. /\ page \in [Mem -> [Page -> PageEntry]] /\ flags \in FlagTable /\ cell \in CellTable
      /\ alive \subseteq Mem
      /\ \A m2 \in Mem, p \in Page : UnmadeIn(Now, m2, p) \/ (m2 \in alive /\ MadeIn(Now, m2, p))
  BY DEF IInv, Good, Memory, Now
<1>2. Unmade(perm) \in PageEntry
  BY DEF Unmade, PageEntry
<1>3. pg \in [Mem -> [Page -> PageEntry]] /\ \A m2 \in Mem, p \in Page :
        pg[m2][p] = IF m2 = m THEN Unmade(perm) ELSE page[m2][p]
  BY <1>1, <1>2
<1>4. Becomes(new) /\ m \notin alive /\ alive' = alive \cup {m}
  BY DEF New, Becomes
<1>. HIDE DEF pg
<1>5. Good(new, alive')
  <2>1. new \in Memory
    BY <1>1, <1>3 DEF Memory
  <2>2. \A m2 \in Mem, p \in Page : UnmadeIn(new, m2, p) \/ (m2 \in alive' /\ MadeIn(new, m2, p))
    BY <1>1, <1>3, <1>4 DEF UnmadeIn, MadeIn, Unmade, Now
  <2>. QED  BY <2>1, <2>2 DEF Good
<1>6. /\ \A m2 \in Mem, b \in Address :
           /\ AttrIn(new, m2, b) = IF m2 = m THEN perm ELSE AttrIn(Now, m2, b)
           /\ OwnIn(new, m2, b) = IF m2 = m THEN 0 ELSE OwnIn(Now, m2, b)
      /\ \A m2 \in Mem, p \in Page : LentIn(new, m2, p) = IF m2 = m THEN None ELSE LentIn(Now, m2, p)
      /\ new.cell = cell
  <2>1. /\ Unmade(perm).attr = None /\ Unmade(perm).data = None /\ Unmade(perm).def = perm
        /\ None \notin Buffer
    BY NotBlocks DEF Unmade
  <2>. QED  BY <1>3, <2>1, PageIndex DEF AttrIn, OwnIn, LentIn, Now
<1>. HIDE DEF new
<1>7. /\ AttrOf' = [m2 \in Mem |-> [b \in Address |-> AttrIn(new, m2, b)]]
      /\ OwnOf'  = [m2 \in Mem |-> [b \in Address |-> OwnIn(new, m2, b)]]
      /\ LentOf' = [m2 \in Mem |-> [p \in Page |-> LentIn(new, m2, p)]]
      /\ HostOf' = [l \in Buffer |-> new.cell[l]]
      /\ Good(Now', alive')
  BY <1>4, <1>5, ViewNext
<1>8. AttrOf' = [AttrOf EXCEPT ![m] = [b \in Address |-> perm]]
  BY <1>6, <1>7, ViewNow
<1>9. OwnOf' = [OwnOf EXCEPT ![m] = [b \in Address |-> 0]]
  BY <1>6, <1>7, ViewNow
<1>10. LentOf' = [LentOf EXCEPT ![m] = [p \in Page |-> None]] /\ HostOf' = HostOf
  BY <1>6, <1>7, ViewNow DEF Now
<1>11. IInv'
  BY <1>1, <1>4, <1>7 DEF IInv, New
<1>12. Flat!Address = Address /\ Flat!Page = Page /\ Flat!Port = Port /\ Flat!Nothing = Nothing
  BY FlatSame
<1>. QED  BY <1>8, <1>9, <1>10, <1>11, <1>12 DEF New, Flat!New

\* x86emu_done forgets one.
LEMMA DoneSim ==
  ASSUME IInv, NEW m \in alive, Done(m)
  PROVE  IInv' /\ Flat!Done(m)
<1>. DEFINE pg  == [page EXCEPT ![m] = [p \in Page |-> Unmade({})]]
            new == [page |-> pg, flags |-> flags, cell |-> cell]
<1>1. /\ page \in [Mem -> [Page -> PageEntry]] /\ flags \in FlagTable /\ cell \in CellTable
      /\ alive \subseteq Mem /\ m \in Mem
      /\ \A m2 \in Mem, p \in Page : UnmadeIn(Now, m2, p) \/ (m2 \in alive /\ MadeIn(Now, m2, p))
  BY DEF IInv, Good, Memory, Now
<1>2. Unmade({}) \in PageEntry
  BY DEF Unmade, PageEntry
<1>3. pg \in [Mem -> [Page -> PageEntry]] /\ \A m2 \in Mem, p \in Page :
        pg[m2][p] = IF m2 = m THEN Unmade({}) ELSE page[m2][p]
  BY <1>1, <1>2
<1>4. Becomes(new) /\ alive' = alive \ {m}
  BY DEF Done, Becomes
<1>. HIDE DEF pg
<1>5. Good(new, alive')
  <2>1. new \in Memory
    BY <1>1, <1>3 DEF Memory
  <2>2. \A m2 \in Mem, p \in Page : UnmadeIn(new, m2, p) \/ (m2 \in alive' /\ MadeIn(new, m2, p))
    BY <1>1, <1>3, <1>4 DEF UnmadeIn, MadeIn, Unmade, Now
  <2>. QED  BY <2>1, <2>2 DEF Good
<1>6. /\ \A m2 \in Mem, b \in Address :
           /\ AttrIn(new, m2, b) = IF m2 = m THEN {} ELSE AttrIn(Now, m2, b)
           /\ OwnIn(new, m2, b) = IF m2 = m THEN 0 ELSE OwnIn(Now, m2, b)
      /\ \A m2 \in Mem, p \in Page : LentIn(new, m2, p) = IF m2 = m THEN None ELSE LentIn(Now, m2, p)
      /\ new.cell = cell
  <2>1. /\ Unmade({}).attr = None /\ Unmade({}).data = None /\ Unmade({}).def = {}
        /\ None \notin Buffer
    BY NotBlocks DEF Unmade
  <2>. QED  BY <1>3, <2>1, PageIndex, ZenonT(60) DEF AttrIn, OwnIn, LentIn, Now
<1>. HIDE DEF new
<1>7. /\ AttrOf' = [m2 \in Mem |-> [b \in Address |-> AttrIn(new, m2, b)]]
      /\ OwnOf'  = [m2 \in Mem |-> [b \in Address |-> OwnIn(new, m2, b)]]
      /\ LentOf' = [m2 \in Mem |-> [p \in Page |-> LentIn(new, m2, p)]]
      /\ HostOf' = [l \in Buffer |-> new.cell[l]]
      /\ Good(Now', alive')
  BY <1>4, <1>5, ViewNext
<1>8. AttrOf' = [AttrOf EXCEPT ![m] = [b \in Address |-> {}]]
  BY <1>1, <1>6, <1>7, ViewNow
<1>9. OwnOf' = [OwnOf EXCEPT ![m] = [b \in Address |-> 0]]
  BY <1>1, <1>6, <1>7, ViewNow
<1>10. LentOf' = [LentOf EXCEPT ![m] = [p \in Page |-> None]] /\ HostOf' = HostOf
  BY <1>1, <1>6, <1>7, ViewNow DEF Now
<1>11. IInv'
  BY <1>1, <1>4, <1>7 DEF IInv, Done
<1>12. Flat!Address = Address /\ Flat!Page = Page /\ Flat!Port = Port /\ Flat!Nothing = Nothing
  BY FlatSame
<1>. QED  BY <1>8, <1>9, <1>10, <1>11, <1>12 DEF Done, Flat!Done

\* The entry of a page, with another content or other permissions.
LEMMA EntryFacts ==
  ASSUME NEW e \in PageEntry
  PROVE  /\ \A d \in Block \cup Buffer \cup {None} :
              /\ [e EXCEPT !.data = d] \in PageEntry
              /\ [e EXCEPT !.data = d].def = e.def
              /\ [e EXCEPT !.data = d].attr = e.attr
              /\ [e EXCEPT !.data = d].data = d
         /\ \A perm \in SUBSET {"R", "W", "X", "VALID"} :
              /\ [e EXCEPT !.def = perm] \in PageEntry
              /\ [e EXCEPT !.def = perm].def = perm
              /\ [e EXCEPT !.def = perm].attr = e.attr
              /\ [e EXCEPT !.def = perm].data = e.data
         /\ e.def \in SUBSET {"R", "W", "X", "VALID"}
  BY DEF PageEntry

\* x86emu_reset_access_stats forgets the marks of all bytes.
LEMMA ResetStatsSim ==
  ASSUME IInv, NEW m \in alive, ResetStats(m)
  PROVE  IInv' /\ Flat!ResetStats(m)
<1>. DEFINE N  == {"R", "W", "X", "VALID"}
            fl == [k \in Block |-> IF \E p \in Page : page[m][p].attr = k
                                   THEN [i \in Index |-> flags[k][i] \cap N] ELSE flags[k]]
            new == Changed(Now, fl, cell)
<1>1. m \in Mem /\ alive \subseteq Mem /\ Good(Now, alive)
  BY DEF IInv
<1>2. /\ \A k \in Block, i \in Index : flags[k][i] \in SUBSET Attr
      /\ flags \in FlagTable /\ cell \in CellTable
  BY <1>1, TableFacts DEF Now
<1>3. fl \in FlagTable
  BY <1>2 DEF FlagTable, Flags
<1>4. page' = page /\ flags' = fl /\ cell' = cell
  BY DEF ResetStats
<1>5. ASSUME NEW m2 \in Mem, NEW b \in Address, page[m2][PageOf(b)].attr # None
      PROVE  fl[<<m2, PageOf(b)>>][IndexOf(b)]
               = IF m2 = m THEN AttrIn(Now, m2, b) \cap N ELSE AttrIn(Now, m2, b)
  <2>1. /\ <<m2, PageOf(b)>> \in Block /\ IndexOf(b) \in Index /\ PageOf(b) \in Page
        /\ page[m2][PageOf(b)].attr = <<m2, PageOf(b)>>
        /\ AttrIn(Now, m2, b) = flags[<<m2, PageOf(b)>>][IndexOf(b)]
    BY <1>1, <1>5, OwnFacts DEF Now
  <2>2. \A p \in Page : page[m][p].attr \in {None, <<m, p>>}
    BY <1>1 DEF Good, UnmadeIn, MadeIn, Now
  <2>3. (\E p \in Page : page[m][p].attr = <<m2, PageOf(b)>>) <=> m2 = m
    BY <2>1, <2>2, NotBlocks
  <2>4. fl[<<m2, PageOf(b)>>] = IF \E p \in Page : page[m][p].attr = <<m2, PageOf(b)>>
                                THEN [i \in Index |-> flags[<<m2, PageOf(b)>>][i] \cap N]
                                ELSE flags[<<m2, PageOf(b)>>]
    BY <2>1
  <2>. HIDE DEF fl
  <2>. QED  BY <2>1, <2>3, <2>4
<1>. HIDE DEF fl
<1>6. /\ Good(new, alive) /\ new.cell = cell
      /\ \A m2 \in Mem, p \in Page : LentIn(new, m2, p) = LentIn(Now, m2, p)
  BY <1>1, <1>2, <1>3, ChangeGood
<1>7. ASSUME NEW m2 \in Mem, NEW b \in Address
      PROVE  /\ AttrIn(new, m2, b)
                  = IF m2 = m THEN AttrIn(Now, m2, b) \cap N ELSE AttrIn(Now, m2, b)
             /\ OwnIn(new, m2, b) = OwnIn(Now, m2, b)
  <2>1. CASE page[m2][PageOf(b)].attr = None
    <3>1. Now.page[m2][PageOf(b)].attr = None
      BY <2>1 DEF Now
    <3>2. AttrIn(new, m2, b) = AttrIn(Now, m2, b) /\ OwnIn(new, m2, b) = OwnIn(Now, m2, b)
      BY <1>1, <3>1, ChangeUnmade
    <3>3. AttrIn(Now, m2, b) = page[m2][PageOf(b)].def
      BY <2>1 DEF AttrIn, Now
    <3>4. page[m2][PageOf(b)] \in PageEntry
      BY <1>1, PageIndex DEF Good, Memory, Now
    <3>5. page[m2][PageOf(b)].def \in SUBSET N
      BY <3>4, EntryFacts
    <3>. QED  BY <3>2, <3>3, <3>5
  <2>2. CASE page[m2][PageOf(b)].attr # None
    <3>1. Now.page[m2][PageOf(b)].attr # None /\ Now.cell = cell
      BY <2>2 DEF Now
    <3>2. /\ AttrIn(new, m2, b) = fl[<<m2, PageOf(b)>>][IndexOf(b)]
          /\ OwnIn(new, m2, b) = OwnIn(Now, m2, b)
      BY <1>1, <3>1, ChangeMade
    <3>. QED  BY <1>5, <2>2, <3>2
  <2>. QED  BY <2>1, <2>2
<1>8. Becomes(new)
  BY <1>4 DEF Becomes, Changed, Now
<1>. HIDE DEF new, N
<1>9. /\ AttrOf' = [m2 \in Mem |-> [b \in Address |-> AttrIn(new, m2, b)]]
      /\ OwnOf'  = [m2 \in Mem |-> [b \in Address |-> OwnIn(new, m2, b)]]
      /\ LentOf' = [m2 \in Mem |-> [p \in Page |-> LentIn(new, m2, p)]]
      /\ HostOf' = [l \in Buffer |-> new.cell[l]]
      /\ Good(Now', alive)
  BY <1>6, <1>8, ViewNext
<1>10. AttrOf' = [AttrOf EXCEPT ![m] = [b \in Address |-> AttrOf[m][b] \cap N]]
  BY <1>1, <1>7, <1>9, ViewNow, ZenonT(60)
<1>11. OwnOf' = OwnOf
  BY <1>7, <1>9, ViewNow
<1>12. LentOf' = LentOf /\ HostOf' = HostOf
  BY <1>6, <1>9, ViewNow DEF Now
<1>13. IInv'
  BY <1>1, <1>9, SMTT(30) DEF IInv, ResetStats
<1>. QED  BY <1>10, <1>11, <1>12, <1>13, FlatSame DEF ResetStats, Flat!ResetStats, N

\* x86emu_set_page lends the content of a page, or takes it back.
LEMMA SetPageSim ==
  ASSUME IInv, NEW m \in alive, NEW p \in Page, NEW l \in Buffer \cup {None}, SetPage(m, p, l)
  PROVE  IInv' /\ Flat!SetPage(m, p, l)
<1>. DEFINE st == Got(m, {p})
            d  == IF l # None THEN l ELSE <<m, p>>
            x  == IF l # None THEN {"VALID"} ELSE {}
            pg == [st.page EXCEPT ![m][p].data = d]
            fl == [st.flags EXCEPT ![<<m, p>>] = [i \in Index |-> st.flags[<<m, p>>][i] \cup x]]
            new == [page |-> pg, flags |-> fl, cell |-> st.cell]
<1>1. /\ m \in Mem /\ alive \subseteq Mem /\ Good(st, alive) /\ Same(Now, st) /\ MadeIn(st, m, p)
  <2>1. {p} \in SUBSET Page /\ p \in {p} /\ m \in Mem /\ alive \subseteq Mem /\ Good(Now, alive)
    BY DEF IInv
  <2>. QED  BY <2>1, GotFacts
<1>2. /\ st.page \in [Mem -> [Page -> PageEntry]]
      /\ st.flags \in [Block -> [Index -> SUBSET Attr]] /\ st.cell \in CellTable
      /\ st.page[m][p].attr = <<m, p>> /\ <<m, p>> \in Block /\ <<m, p>> \notin Buffer
      /\ st.page[m][p].data \in Buffer \cup {<<m, p>>}
  BY <1>1, TableFacts, OwnBlock DEF Good, Memory, FlagTable, Flags, MadeIn
<1>3. page' = pg /\ flags' = fl /\ cell' = st.cell
  <2>. DEFINE f == [st.flags EXCEPT ![<<m, p>>] =
                     [i \in Index |-> st.flags[<<m, p>>][i] \cup {"VALID"}]]
  <2>1. st \in Memory
    BY <1>1, TableFacts
  <2>2. CASE l # None
    <3>1. Becomes([st EXCEPT !.page = pg, !.flags = f])
      BY <1>2, <2>2 DEF SetPage
    <3>2. f = fl
      BY <2>2
    <3>. HIDE DEF st, pg, fl, f
    <3>. QED  BY <2>1, <3>1, <3>2, SMTT(30) DEF Becomes, Memory
  <2>3. CASE l = None
    <3>1. Becomes([st EXCEPT !.page = pg])
      BY <1>2, <2>3 DEF SetPage
    <3>2. fl = st.flags
      <4>. HIDE DEF st
      <4>1. \A i \in Index : st.flags[<<m, p>>][i] \cup x = st.flags[<<m, p>>][i]
        BY <2>3
      <4>. QED  BY <1>2, <4>1, ZenonT(60)
    <3>. HIDE DEF st, pg, fl
    <3>. QED  BY <2>1, <3>1, <3>2 DEF Becomes, Memory
  <2>. QED  BY <2>2, <2>3
<1>. HIDE DEF st
<1>4. d \in Block \cup Buffer \cup {None} /\ d \in Buffer \cup {<<m, p>>} /\ x \in SUBSET Attr
  BY <1>2 DEF Attr
<1>5. /\ pg \in [Mem -> [Page -> PageEntry]]
      /\ pg[m][p].attr = <<m, p>> /\ pg[m][p].data = d
      /\ \A m2 \in Mem, q \in Page : ~(m2 = m /\ q = p) => pg[m2][q] = st.page[m2][q]
  <2>. DEFINE e == [st.page[m][p] EXCEPT !.data = d]
  <2>1. e \in PageEntry /\ e.attr = <<m, p>> /\ e.data = d
    <3>1. st.page[m][p] \in PageEntry
      BY <1>1, <1>2
    <3>. HIDE DEF d
    <3>. QED  BY <1>2, <1>4, <3>1, EntryFacts, ZenonT(60)
  <2>2. pg = [st.page EXCEPT ![m] = [st.page[m] EXCEPT ![p] = e]]
    BY <1>1, <1>2
  <2>. HIDE DEF e, pg
  <2>. QED  BY <1>1, <1>2, <2>1, <2>2
<1>6. /\ fl \in FlagTable
      /\ \A k \in Block, i \in Index : fl[k][i] = st.flags[k][i] \cup (IF k = <<m, p>> THEN x ELSE {})
  BY <1>2, <1>4 DEF FlagTable, Flags
<1>. HIDE DEF pg, fl
<1>7. Good(new, alive)
  <2>1. new \in Memory
    BY <1>2, <1>5, <1>6 DEF Memory
  <2>2. \A m2 \in Mem, q \in Page : UnmadeIn(new, m2, q) \/ (m2 \in alive /\ MadeIn(new, m2, q))
    BY <1>1, <1>4, <1>5 DEF Good, UnmadeIn, MadeIn
  <2>. QED  BY <2>1, <2>2 DEF Good
<1>8. ASSUME NEW m2 \in Mem, NEW b \in Address
      PROVE  /\ AttrIn(new, m2, b)
                  = AttrIn(Now, m2, b) \cup (IF m2 = m /\ PageOf(b) = p THEN x ELSE {})
             /\ OwnIn(new, m2, b) = OwnIn(Now, m2, b)
  <2>6. new.page = pg /\ new.flags = fl /\ new.cell = st.cell
    OBVIOUS
  <2>. HIDE DEF new, x
  <2>1. AttrIn(st, m2, b) = AttrIn(Now, m2, b) /\ OwnIn(st, m2, b) = OwnIn(Now, m2, b)
    BY <1>1 DEF Same
  <2>2. /\ PageOf(b) \in Page /\ IndexOf(b) \in Index
        /\ <<m2, PageOf(b)>> \in Block /\ <<m2, PageOf(b)>> # None
        /\ st.page[m2][PageOf(b)].attr \in {None, <<m2, PageOf(b)>>}
    BY <1>1, OwnFacts
  <2>3. fl[<<m2, PageOf(b)>>][IndexOf(b)] = st.flags[<<m2, PageOf(b)>>][IndexOf(b)]
          \cup (IF m2 = m /\ PageOf(b) = p THEN x ELSE {})
    BY <1>6, <2>2
  <2>4. CASE m2 = m /\ PageOf(b) = p
    <3>1. new.page[m2][PageOf(b)].attr = <<m2, PageOf(b)>>
      BY <1>5, <2>4, <2>6
    <3>2. st.page[m2][PageOf(b)].attr = <<m2, PageOf(b)>>
      BY <1>2, <2>4
    <3>3. /\ AttrIn(new, m2, b) = fl[<<m2, PageOf(b)>>][IndexOf(b)]
          /\ OwnIn(new, m2, b) = st.cell[<<m2, PageOf(b)>>][IndexOf(b)]
      BY <2>2, <2>6, <3>1 DEF AttrIn, OwnIn
    <3>4. /\ AttrIn(st, m2, b) = st.flags[<<m2, PageOf(b)>>][IndexOf(b)]
          /\ OwnIn(st, m2, b) = st.cell[<<m2, PageOf(b)>>][IndexOf(b)]
      BY <2>2, <3>2 DEF AttrIn, OwnIn
    <3>. QED  BY <2>1, <2>3, <3>3, <3>4
  <2>5. CASE ~(m2 = m /\ PageOf(b) = p)
    <3>1. new.page[m2][PageOf(b)] = st.page[m2][PageOf(b)]
      BY <1>5, <2>2, <2>5, <2>6
    <3>2. fl[<<m2, PageOf(b)>>][IndexOf(b)] = st.flags[<<m2, PageOf(b)>>][IndexOf(b)]
      BY <2>3, <2>5
    <3>3. AttrIn(new, m2, b) = AttrIn(st, m2, b)
      BY <2>2, <2>6, <3>1, <3>2 DEF AttrIn
    <3>4. OwnIn(new, m2, b) = OwnIn(st, m2, b)
      BY <2>6, <3>1 DEF OwnIn
    <3>. QED  BY <2>1, <2>5, <3>3, <3>4
  <2>. QED  BY <2>4, <2>5
<1>9. ASSUME NEW m2 \in Mem, NEW q \in Page
      PROVE  LentIn(new, m2, q) = IF m2 = m /\ q = p THEN l ELSE LentIn(Now, m2, q)
  <2>1. LentIn(st, m2, q) = LentIn(Now, m2, q)
    BY <1>1 DEF Same
  <2>2. CASE m2 = m /\ q = p
    BY <1>2, <1>5, <2>2, NotBlocks DEF LentIn
  <2>3. CASE ~(m2 = m /\ q = p)
    BY <1>5, <2>1, <2>3 DEF LentIn
  <2>. QED  BY <2>2, <2>3
<1>10. \A k \in Buffer : new.cell[k] = Now.cell[k]
  BY <1>1 DEF Same
<1>11. Becomes(new)
  BY <1>3 DEF Becomes
<1>. HIDE DEF new
<1>12. /\ AttrOf' = [m2 \in Mem |-> [b \in Address |-> AttrIn(new, m2, b)]]
       /\ OwnOf'  = [m2 \in Mem |-> [b \in Address |-> OwnIn(new, m2, b)]]
       /\ LentOf' = [m2 \in Mem |-> [q \in Page |-> LentIn(new, m2, q)]]
       /\ HostOf' = [k \in Buffer |-> new.cell[k]]
       /\ Good(Now', alive)
  BY <1>7, <1>11, ViewNext
<1>13. AttrOf' = [AttrOf EXCEPT ![m] = [b \in Address |->
         IF l # None /\ PageOf(b) = p THEN AttrOf[m][b] \cup {"VALID"} ELSE AttrOf[m][b]]]
  <2>1. \A m2 \in Mem, b \in Address :
          AttrIn(new, m2, b) = IF m2 = m /\ l # None /\ PageOf(b) = p
                               THEN AttrOf[m2][b] \cup {"VALID"} ELSE AttrOf[m2][b]
    BY <1>8, ViewNow, ZenonT(60)
  <2>. DEFINE row == [b \in Address |->
                        IF l # None /\ PageOf(b) = p THEN AttrOf[m][b] \cup {"VALID"}
                        ELSE AttrOf[m][b]]
  <2>2. ASSUME NEW m2 \in Mem
        PROVE  [b \in Address |-> AttrIn(new, m2, b)] = IF m2 = m THEN row ELSE AttrOf[m2]
    BY <2>1, ViewNow, ZenonT(60)
  <2>3. DOMAIN AttrOf = Mem
    BY ViewNow
  <2>. HIDE DEF row
  <2>4. AttrOf' = [m2 \in Mem |-> IF m2 = m THEN row ELSE AttrOf[m2]]
    BY <1>12, <2>2
  <2>5. AttrOf' = [AttrOf EXCEPT ![m] = row]
    BY <1>1, <2>3, <2>4
  <2>. QED  BY <2>5 DEF row
<1>14. OwnOf' = OwnOf
  BY <1>8, <1>12, ViewNow
<1>15. LentOf' = [LentOf EXCEPT ![m][p] = l]
  <2>1. \A m2 \in Mem : LentOf[m2] = [q \in Page |-> LentIn(Now, m2, q)]
    BY ViewNow
  <2>2. DOMAIN LentOf = Mem /\ DOMAIN LentOf[m] = Page
    BY <1>1, ViewNow
  <2>. DEFINE row == [LentOf[m] EXCEPT ![p] = l]
  <2>3. ASSUME NEW m2 \in Mem
        PROVE  [q \in Page |-> LentIn(new, m2, q)] = IF m2 = m THEN row ELSE LentOf[m2]
    <3>1. CASE m2 = m
      <4>1. row = [q \in Page |-> IF q = p THEN l ELSE LentOf[m][q]]
        BY <2>2
      <4>2. \A q \in Page : LentIn(new, m, q) = IF q = p THEN l ELSE LentOf[m][q]
        BY <1>1, <1>9, <2>1, ZenonT(60)
      <4>. HIDE DEF row
      <4>. QED  BY <3>1, <4>1, <4>2
    <3>2. CASE m2 # m
      BY <1>9, <2>1, <3>2
    <3>. QED  BY <3>1, <3>2
  <2>. HIDE DEF row
  <2>4. LentOf' = [m2 \in Mem |-> IF m2 = m THEN row ELSE LentOf[m2]]
    BY <1>12, <2>3
  <2>5. LentOf' = [LentOf EXCEPT ![m] = row]
    BY <1>1, <2>2, <2>4
  <2>. QED  BY <2>5 DEF row
<1>16. HostOf' = HostOf
  BY <1>10, <1>12, ViewNow
<1>17. IInv'
  BY <1>1, <1>12 DEF IInv, SetPage
<1>. QED  BY <1>13, <1>14, <1>15, <1>16, <1>17, FlatSame, ZenonT(60) DEF SetPage, Flat!SetPage

\* The parts of a range and the bytes they hold are those a plain array has,
\* but for a range that begins at address 0.
LEMMA PermParts ==
  ASSUME NEW first \in Address, NEW last \in Address, first <= last
  PROVE  /\ HeadOf(first, last) \cup TailOf(first, last) \in SUBSET Address
         /\ WholePages(first, last) \subseteq Page
         /\ \A b \in Address :
              b \in HeadOf(first, last) \cup TailOf(first, last) \/ PageOf(b) \in WholePages(first, last)
                <=> b \in Flat!Reached(first, last)
<1>. DEFINE W == WholePages(first, last)
            B == HeadOf(first, last) \cup TailOf(first, last)
            inside == {p \in Page : first <= p * PageSize /\ p * PageSize + PageSize - 1 <= last}
<1>1. first \in Nat /\ last \in Nat /\ last < Size /\ Size \in Nat /\ PageSize \in Nat /\ PageSize >= 4
  BY SizeFacts DEF Address
<1>2. first .. last \subseteq Address
  BY <1>1 DEF Address
<1>3. HeadOf(first, last) \subseteq first .. last /\ TailOf(first, last) \subseteq first .. last
  BY DEF HeadOf, TailOf
<1>4. W \subseteq inside
  BY DEF WholePages
<1>5. ASSUME NEW b \in Address, PageOf(b) \in inside PROVE b \in first .. last
  <2>1. /\ b = PageOf(b) * PageSize + IndexOf(b) /\ IndexOf(b) \in 0 .. PageSize - 1
        /\ PageOf(b) \in Nat /\ b \in Nat
    BY PageIndex, <1>1 DEF Index, Page, Address
  <2>2. PageOf(b) * PageSize \in Nat
    BY <1>1, <2>1
  <2>3. first <= PageOf(b) * PageSize /\ PageOf(b) * PageSize + PageSize - 1 <= last
    BY <1>5
  <2>. QED  BY <1>1, <2>1, <2>2, <2>3
<1>6. ASSUME NEW b \in Address
      PROVE  PageOf(b) = 0 <=> b \in 0 .. PageSize - 1
  <2>1. /\ b = PageOf(b) * PageSize + IndexOf(b) /\ IndexOf(b) \in 0 .. PageSize - 1
        /\ PageOf(b) \in Nat
    BY PageIndex, <1>1 DEF Index, Page
  <2>2. CASE PageOf(b) = 0
    BY <1>1, <2>1, <2>2
  <2>3. CASE PageOf(b) >= 1
    <3>1. PageOf(b) * PageSize >= 1 * PageSize
      BY <1>1, <2>1, <2>3
    <3>. QED  BY <1>1, <2>1, <2>3, <3>1
  <2>. QED  BY <2>1, <2>2, <2>3
<1>7. IndexOf(0) = 0 /\ 0 \in Page /\ 0 * PageSize = 0
  BY <1>1, SizeFacts DEF IndexOf, Page
<1>8. CASE first # 0
  <2>1. W = inside
    BY <1>8 DEF WholePages
  <2>2. \A b \in first .. last : b \in B \/ PageOf(b) \in W
    BY <1>8 DEF TailOf
  <2>3. Flat!Reached(first, last) = first .. last
    BY <1>8 DEF Flat!Reached
  <2>. QED  BY <1>2, <1>3, <1>4, <1>5, <2>2, <2>3
<1>9. CASE first = 0 /\ last >= PageSize - 1
  <2>1. 0 \in inside
    BY <1>1, <1>7, <1>9
  <2>2. W = {0}
    BY <1>9, <2>1 DEF WholePages
  <2>3. HeadOf(first, last) = {} /\ TailOf(first, last) = {}
    BY <1>7, <1>9, <2>2 DEF HeadOf, TailOf
  <2>4. Flat!Reached(first, last) = 0 .. PageSize - 1
    BY <1>9 DEF Flat!Reached
  <2>. QED  BY <1>6, <1>7, <2>2, <2>3, <2>4
<1>10. CASE first = 0 /\ last < PageSize - 1
  <2>1. 0 \notin inside
    BY <1>1, <1>7, <1>10
  <2>2. W = {}
    BY <1>10, <2>1 DEF WholePages
  <2>3. HeadOf(first, last) = {} /\ TailOf(first, last) = first .. last
    BY <1>7, <1>10, <2>2 DEF HeadOf, TailOf
  <2>4. Flat!Reached(first, last) = first .. last
    BY <1>1, <1>10 DEF Flat!Reached
  <2>. QED  BY <1>2, <2>2, <2>3, <2>4
<1>. QED  BY <1>1, <1>8, <1>9, <1>10

\* x86emu_set_perm sets the bytes of its range one by one.
LEMMA SetPermSim ==
  ASSUME IInv, NEW m \in alive, NEW first \in Address, NEW last \in Address,
         NEW perm \in SUBSET {"R", "W", "X", "VALID"}, SetPerm(m, first, last, perm)
  PROVE  IInv' /\ Flat!SetPerm(m, first, last, perm)
<1>. DEFINE B == HeadOf(first, last) \cup TailOf(first, last)
            W == WholePages(first, last)
            made == {PageOf(b) : b \in B} \cup (IF GoesRound(first, last) THEN {0} ELSE {})
            st == Got(m, made)
            row == [p \in Page |-> IF p \in W THEN [st.page[m][p] EXCEPT !.def = perm]
                                   ELSE st.page[m][p]]
            pg == [st.page EXCEPT ![m] = row]
            set(k, i) == AttrHere(st, m, B, k, i) # {} \/ \E p \in W : st.page[m][p].attr = k
            fl == [k \in Block |-> [i \in Index |-> IF set(k, i) THEN perm ELSE st.flags[k][i]]]
            new == [page |-> pg, flags |-> fl, cell |-> st.cell]
<1>25. first <= last
  BY DEF SetPerm
<1>1. B \in SUBSET Address /\ W \subseteq Page /\ made \in SUBSET Page
  <2>1. B \in SUBSET Address /\ W \subseteq Page
    BY <1>25, PermParts
  <2>2. 0 \in Page
    BY SizeFacts DEF Page
  <2>. QED  BY <2>1, <2>2, PageIndex
<1>2. \A b \in Address : b \in B \/ PageOf(b) \in W <=> b \in Flat!Reached(first, last)
  BY <1>25, PermParts
<1>3. \A b \in B : PageOf(b) \in made
  OBVIOUS
<1>4. Becomes([st EXCEPT !.page = pg, !.flags = fl])
  BY DEF SetPerm, PermSet
<1>. HIDE DEF B, W, made
<1>5. /\ m \in Mem /\ alive \subseteq Mem /\ Good(st, alive) /\ Same(Now, st) /\ AllMade(st, m, B)
  <2>1. m \in Mem /\ alive \subseteq Mem /\ Good(Now, alive)
    BY DEF IInv
  <2>2. Good(st, alive) /\ Same(Now, st) /\ \A p \in made : MadeIn(st, m, p)
    BY <1>1, <2>1, GotFacts
  <2>. QED  BY <1>1, <1>3, <2>1, <2>2 DEF AllMade
<1>. HIDE DEF st
<1>6. /\ st \in Memory /\ st.page \in [Mem -> [Page -> PageEntry]] /\ st.cell \in CellTable
      /\ \A k \in Block, i \in Index : st.flags[k][i] \in SUBSET Attr
  BY <1>5, TableFacts DEF Memory
<1>7. page' = pg /\ flags' = fl /\ cell' = st.cell
  <2>. HIDE DEF pg, fl
  <2>. QED  BY <1>4, <1>6 DEF Becomes, Memory
<1>8. ASSUME NEW p \in Page
      PROVE  /\ row[p] \in PageEntry /\ row[p].attr = st.page[m][p].attr
             /\ row[p].data = st.page[m][p].data
             /\ row[p].def = IF p \in W THEN perm ELSE st.page[m][p].def
  <2>1. st.page[m][p] \in PageEntry
    BY <1>5, <1>6
  <2>2. row[p] = IF p \in W THEN [st.page[m][p] EXCEPT !.def = perm] ELSE st.page[m][p]
    OBVIOUS
  <2>. HIDE DEF row
  <2>. QED  BY <2>1, <2>2, EntryFacts, SMTT(30)
<1>9. row \in [Page -> PageEntry]
  <2>1. row = [p \in Page |-> row[p]]
    OBVIOUS
  <2>. HIDE DEF row
  <2>. QED  BY <1>8, <2>1
<1>. HIDE DEF row
<1>10. /\ pg \in [Mem -> [Page -> PageEntry]]
       /\ \A m2 \in Mem, p \in Page :
            /\ pg[m2][p].attr = st.page[m2][p].attr /\ pg[m2][p].data = st.page[m2][p].data
            /\ pg[m2][p].def = IF m2 = m /\ p \in W THEN perm ELSE st.page[m2][p].def
  <2>1. pg \in [Mem -> [Page -> PageEntry]]
    BY <1>5, <1>6, <1>9
  <2>2. \A m2 \in Mem : pg[m2] = IF m2 = m THEN row ELSE st.page[m2]
    BY <1>6
  <2>. HIDE DEF pg
  <2>. QED  BY <1>8, <2>1, <2>2
<1>11. perm \in SUBSET Attr
  BY ByteFacts
<1>12. fl \in FlagTable
  BY <1>6, <1>11 DEF FlagTable, Flags
<1>13. \A k \in Block, i \in Index : fl[k][i] = IF set(k, i) THEN perm ELSE st.flags[k][i]
  OBVIOUS
<1>14. ASSUME NEW m2 \in Mem, NEW b \in Address, st.page[m2][PageOf(b)].attr # None
       PROVE  /\ st.page[m2][PageOf(b)].attr = <<m2, PageOf(b)>>
              /\ AttrIn(st, m2, b) = st.flags[<<m2, PageOf(b)>>][IndexOf(b)]
              /\ fl[<<m2, PageOf(b)>>][IndexOf(b)]
                   = IF m2 = m /\ (b \in B \/ PageOf(b) \in W) THEN perm ELSE AttrIn(st, m2, b)
  <2>1. /\ <<m2, PageOf(b)>> \in Block /\ IndexOf(b) \in Index /\ PageOf(b) \in Page
        /\ st.page[m2][PageOf(b)].attr = <<m2, PageOf(b)>>
        /\ AttrIn(st, m2, b) = st.flags[<<m2, PageOf(b)>>][IndexOf(b)]
    BY <1>5, <1>14, OwnFacts
  <2>2. AttrHere(st, m, B, <<m2, PageOf(b)>>, IndexOf(b)) = IF m2 = m /\ b \in B THEN {b} ELSE {}
    <3>1. m \in Mem /\ Good(st, alive) /\ AllMade(st, m, B)
      BY <1>5
    <3>. QED  BY <3>1, AttrHereAt, SMTT(30)
  <2>3. \A p \in W : st.page[m][p].attr \in {None, <<m, p>>}
    BY <1>1, <1>5 DEF Good, UnmadeIn, MadeIn
  <2>4. (\E p \in W : st.page[m][p].attr = <<m2, PageOf(b)>>) <=> m2 = m /\ PageOf(b) \in W
    BY <2>1, <2>3, NotBlocks
  <2>5. set(<<m2, PageOf(b)>>, IndexOf(b)) <=> m2 = m /\ (b \in B \/ PageOf(b) \in W)
    BY <2>2, <2>4
  <2>6. fl[<<m2, PageOf(b)>>][IndexOf(b)] = IF set(<<m2, PageOf(b)>>, IndexOf(b)) THEN perm
                                            ELSE st.flags[<<m2, PageOf(b)>>][IndexOf(b)]
    BY <1>13, <2>1
  <2>. HIDE DEF fl, set
  <2>. QED  BY <2>1, <2>5, <2>6
<1>. HIDE DEF fl, pg, set
<1>15. new.page = pg /\ new.flags = fl /\ new.cell = st.cell /\ Becomes(new)
  BY <1>7 DEF Becomes
<1>16. Good(new, alive)
  <2>1. new \in Memory
    BY <1>6, <1>10, <1>12 DEF Memory
  <2>. HIDE DEF new
  <2>2. \A m2 \in Mem, p \in Page : UnmadeIn(new, m2, p) \/ (m2 \in alive /\ MadeIn(new, m2, p))
    BY <1>5, <1>10, <1>15 DEF Good, UnmadeIn, MadeIn
  <2>. QED  BY <2>1, <2>2 DEF Good
<1>. HIDE DEF new
<1>17. ASSUME NEW m2 \in Mem, NEW b \in Address
       PROVE  /\ AttrIn(new, m2, b)
                   = IF m2 = m /\ (b \in B \/ PageOf(b) \in W) THEN perm ELSE AttrIn(Now, m2, b)
              /\ OwnIn(new, m2, b) = OwnIn(Now, m2, b)
  <2>1. AttrIn(st, m2, b) = AttrIn(Now, m2, b) /\ OwnIn(st, m2, b) = OwnIn(Now, m2, b)
    BY <1>5 DEF Same
  <2>2. /\ PageOf(b) \in Page
        /\ new.page[m2][PageOf(b)].attr = st.page[m2][PageOf(b)].attr
        /\ new.page[m2][PageOf(b)].def
             = IF m2 = m /\ PageOf(b) \in W THEN perm ELSE st.page[m2][PageOf(b)].def
    BY <1>10, <1>15, PageIndex
  <2>3. OwnIn(new, m2, b) = OwnIn(st, m2, b)
    BY <1>15, <2>2 DEF OwnIn
  <2>4. CASE st.page[m2][PageOf(b)].attr = None
    <3>1. ~(m2 = m /\ b \in B)
      BY <1>5, <2>2, <2>4, OwnBlock DEF AllMade, MadeIn
    <3>. QED  BY <2>1, <2>2, <2>3, <2>4, <3>1 DEF AttrIn
  <2>5. CASE st.page[m2][PageOf(b)].attr # None
    <3>1. AttrIn(new, m2, b) = fl[<<m2, PageOf(b)>>][IndexOf(b)]
      BY <1>14, <1>15, <2>2, <2>5 DEF AttrIn
    <3>. QED  BY <1>14, <2>1, <2>3, <2>5, <3>1, SMTT(30)
  <2>. QED  BY <2>4, <2>5
<1>18. \A m2 \in Mem, p \in Page : LentIn(new, m2, p) = LentIn(Now, m2, p)
  BY <1>5, <1>10, <1>15 DEF LentIn, Same
<1>19. \A l \in Buffer : new.cell[l] = Now.cell[l]
  BY <1>5, <1>15 DEF Same
<1>20. /\ AttrOf' = [m2 \in Mem |-> [b \in Address |-> AttrIn(new, m2, b)]]
       /\ OwnOf'  = [m2 \in Mem |-> [b \in Address |-> OwnIn(new, m2, b)]]
       /\ LentOf' = [m2 \in Mem |-> [p \in Page |-> LentIn(new, m2, p)]]
       /\ HostOf' = [l \in Buffer |-> new.cell[l]]
       /\ Good(Now', alive)
  BY <1>15, <1>16, ViewNext
<1>21. AttrOf' = [AttrOf EXCEPT ![m] = [b \in Address |->
         IF b \in Flat!Reached(first, last) THEN perm ELSE AttrOf[m][b]]]
  <2>. DEFINE new2 == [b \in Address |->
                 IF b \in Flat!Reached(first, last) THEN perm ELSE AttrOf[m][b]]
  <2>1. \A m2 \in Mem, b \in Address :
          AttrIn(new, m2, b) = IF m2 = m /\ b \in Flat!Reached(first, last)
                               THEN perm ELSE AttrOf[m2][b]
    BY <1>2, <1>17, ViewNow
  <2>2. ASSUME NEW m2 \in Mem
        PROVE  [b \in Address |-> AttrIn(new, m2, b)] = IF m2 = m THEN new2 ELSE AttrOf[m2]
    BY <2>1, ViewNow, ZenonT(60)
  <2>3. DOMAIN AttrOf = Mem
    BY ViewNow
  <2>. HIDE DEF new2
  <2>4. AttrOf' = [m2 \in Mem |-> IF m2 = m THEN new2 ELSE AttrOf[m2]]
    BY <1>20, <2>2
  <2>5. AttrOf' = [AttrOf EXCEPT ![m] = new2]
    BY <1>5, <2>3, <2>4
  <2>. QED  BY <2>5 DEF new2
<1>22. OwnOf' = OwnOf
  BY <1>17, <1>20, ViewNow
<1>23. LentOf' = LentOf /\ HostOf' = HostOf
  BY <1>18, <1>19, <1>20, ViewNow
<1>24. IInv'
  BY <1>5, <1>20 DEF IInv, SetPerm
<1>. QED  BY <1>21, <1>22, <1>23, <1>24, FlatSame DEF SetPerm, Flat!SetPerm

\* The entry of a copied page points to blocks of the copy, or to the lent buffer.
LEMMA CopiedFacts ==
  ASSUME NEW c \in Mem, NEW m \in Mem, NEW p \in Page, NEW e \in PageEntry,
         \/ e.attr = None /\ e.data = None
         \/ e.attr = <<m, p>> /\ e.data \in Buffer \cup {<<m, p>>}
  PROVE  /\ CopiedPage(c, p, e) \in PageEntry
         /\ CopiedPage(c, p, e).def = e.def
         /\ e.attr = None => CopiedPage(c, p, e).attr = None /\ CopiedPage(c, p, e).data = None
         /\ e.attr # None =>
              /\ CopiedPage(c, p, e).attr = <<c, p>>
              /\ CopiedPage(c, p, e).data = IF e.data \in Buffer THEN e.data ELSE <<c, p>>
<1>1. <<c, p>> \in Block /\ <<m, p>> \notin Buffer /\ <<c, p>> # None /\ <<m, p>> # None
  BY OwnBlock
<1>2. CASE e.attr = None
  BY <1>2, <1>1 DEF CopiedPage
<1>3. CASE e.attr # None /\ e.data = e.attr
  BY <1>3, <1>1 DEF CopiedPage, PageEntry
<1>4. CASE e.attr # None /\ e.data # e.attr
  BY <1>4, <1>1 DEF CopiedPage, PageEntry
<1>. QED  BY <1>2, <1>3, <1>4

\* emu_mem_clone copies a plain array.
LEMMA CloneSim ==
  ASSUME IInv, NEW m \in alive, NEW c \in Mem, Clone(m, c)
  PROVE  IInv' /\ Flat!Clone(m, c)
<1>. DEFINE dup(k) == k[1] = c /\ page[m][k[2]].attr # None
            row == [p \in Page |-> CopiedPage(c, p, page[m][p])]
            pg == [page EXCEPT ![c] = row]
            fl == [k \in Block |-> IF dup(k) THEN flags[page[m][k[2]].attr] ELSE flags[k]]
            ce == [k \in Block \cup Buffer |->
                     IF k \in Block /\ dup(k) THEN cell[page[m][k[2]].attr] ELSE cell[k]]
            new == [page |-> pg, flags |-> fl, cell |-> ce]
<1>1. /\ page \in [Mem -> [Page -> PageEntry]] /\ flags \in [Block -> Flags]
      /\ cell \in [Block \cup Buffer -> Cells] /\ alive \subseteq Mem /\ m \in Mem
      /\ \A m2 \in Mem, p \in Page :
           \/ page[m2][p].attr = None /\ page[m2][p].data = None
           \/ m2 \in alive /\ page[m2][p].attr = <<m2, p>> /\ page[m2][p].data \in Buffer \cup {<<m2, p>>}
  BY DEF IInv, Good, Memory, Now, FlagTable, CellTable, UnmadeIn, MadeIn
<1>2. /\ c \notin alive /\ c # m /\ alive' = alive \cup {c}
      /\ page' = pg /\ flags' = fl /\ cell' = ce
  BY DEF Clone
<1>3. ASSUME NEW p \in Page
      PROVE  /\ row[p] \in PageEntry /\ row[p].def = page[m][p].def
             /\ page[m][p].attr = None => row[p].attr = None /\ row[p].data = None
             /\ page[m][p].attr # None =>
                  /\ page[m][p].attr = <<m, p>> /\ row[p].attr = <<c, p>>
                  /\ row[p].data = IF page[m][p].data \in Buffer THEN page[m][p].data ELSE <<c, p>>
  <2>1. page[m][p] \in PageEntry
    BY <1>1
  <2>2. row[p] = CopiedPage(c, p, page[m][p])
    OBVIOUS
  <2>3. \/ page[m][p].attr = None /\ page[m][p].data = None
        \/ page[m][p].attr = <<m, p>> /\ page[m][p].data \in Buffer \cup {<<m, p>>}
    BY <1>1
  <2>. HIDE DEF row
  <2>. QED  BY <1>1, <2>1, <2>2, <2>3, CopiedFacts
<1>4. row \in [Page -> PageEntry]
  <2>1. row = [p \in Page |-> row[p]]
    OBVIOUS
  <2>. HIDE DEF row
  <2>. QED  BY <1>3, <2>1
<1>. HIDE DEF row
<1>5. /\ pg \in [Mem -> [Page -> PageEntry]]
      /\ \A m2 \in Mem : pg[m2] = IF m2 = c THEN row ELSE page[m2]
  BY <1>1, <1>4
<1>6. \A p \in Page : page[m][p].attr # None => page[m][p].attr = <<m, p>> /\ <<m, p>> \in Block
  BY <1>3, <1>1, OwnBlock
<1>7. fl \in [Block -> Flags]
  <2>1. ASSUME NEW k \in Block PROVE (IF dup(k) THEN flags[page[m][k[2]].attr] ELSE flags[k]) \in Flags
    <3>1. k[2] \in Page
      BY DEF Block
    <3>. QED  BY <1>1, <1>6, <3>1
  <2>. QED  BY <2>1
<1>8. ce \in [Block \cup Buffer -> Cells]
  <2>1. ASSUME NEW k \in Block \cup Buffer
        PROVE  (IF k \in Block /\ dup(k) THEN cell[page[m][k[2]].attr] ELSE cell[k]) \in Cells
    <3>1. k \in Block => k[2] \in Page
      BY DEF Block
    <3>. QED  BY <1>1, <1>6, <3>1
  <2>. QED  BY <2>1
<1>9. ASSUME NEW m2 \in Mem, NEW p \in Page
      PROVE  /\ fl[<<m2, p>>] = IF m2 = c /\ page[m][p].attr # None THEN flags[<<m, p>>]
                                ELSE flags[<<m2, p>>]
             /\ ce[<<m2, p>>] = IF m2 = c /\ page[m][p].attr # None THEN cell[<<m, p>>]
                                ELSE cell[<<m2, p>>]
  <2>1. <<m2, p>> \in Block
    BY OwnBlock
  <2>2. dup(<<m2, p>>) <=> m2 = c /\ page[m][p].attr # None
    OBVIOUS
  <2>3. fl[<<m2, p>>] = IF dup(<<m2, p>>) THEN flags[page[m][p].attr] ELSE flags[<<m2, p>>]
    BY <2>1
  <2>4. ce[<<m2, p>>] = IF dup(<<m2, p>>) THEN cell[page[m][p].attr] ELSE cell[<<m2, p>>]
    BY <2>1
  <2>. HIDE DEF fl, ce, dup
  <2>. QED  BY <1>6, <2>2, <2>3, <2>4
<1>10. \A l \in Buffer : ce[l] = cell[l]
  BY NotBlocks
<1>. HIDE DEF fl, ce, pg, dup
<1>11. new.page = pg /\ new.flags = fl /\ new.cell = ce /\ Becomes(new)
  BY <1>2 DEF Becomes
<1>12. Good(new, alive')
  <2>1. new \in Memory
    BY <1>5, <1>7, <1>8 DEF Memory, FlagTable, CellTable
  <2>. HIDE DEF new
  <2>2. ASSUME NEW m2 \in Mem, NEW p \in Page
        PROVE  UnmadeIn(new, m2, p) \/ (m2 \in alive' /\ MadeIn(new, m2, p))
    <3>1. CASE m2 = c
      BY <1>2, <1>3, <1>5, <1>11, <3>1 DEF UnmadeIn, MadeIn
    <3>2. CASE m2 # c
      BY <1>1, <1>2, <1>5, <1>11, <3>2 DEF UnmadeIn, MadeIn
    <3>. QED  BY <3>1, <3>2
  <2>. QED  BY <2>1, <2>2 DEF Good
<1>. HIDE DEF new
<1>13. ASSUME NEW m2 \in Mem, NEW b \in Address
       PROVE  /\ AttrIn(new, m2, b) = IF m2 = c THEN AttrIn(Now, m, b) ELSE AttrIn(Now, m2, b)
              /\ OwnIn(new, m2, b) = IF m2 = c THEN OwnIn(Now, m, b) ELSE OwnIn(Now, m2, b)
  <2>1. PageOf(b) \in Page /\ <<m2, PageOf(b)>> # None /\ <<m, PageOf(b)>> # None
    BY <1>1, PageIndex, OwnBlock
  <2>. DEFINE p == PageOf(b)
              i == IndexOf(b)
  <2>4. /\ AttrIn(Now, m2, b) = IF page[m2][p].attr = None THEN page[m2][p].def
                                ELSE flags[page[m2][p].attr][i]
        /\ OwnIn(Now, m2, b) = IF page[m2][p].attr = None THEN 0 ELSE cell[page[m2][p].attr][i]
        /\ AttrIn(Now, m, b) = IF page[m][p].attr = None THEN page[m][p].def
                               ELSE flags[page[m][p].attr][i]
        /\ OwnIn(Now, m, b) = IF page[m][p].attr = None THEN 0 ELSE cell[page[m][p].attr][i]
    BY DEF AttrIn, OwnIn, Now
  <2>5. /\ AttrIn(new, m2, b) = IF pg[m2][p].attr = None THEN pg[m2][p].def
                                ELSE fl[pg[m2][p].attr][i]
        /\ OwnIn(new, m2, b) = IF pg[m2][p].attr = None THEN 0 ELSE ce[pg[m2][p].attr][i]
    BY <1>11 DEF AttrIn, OwnIn
  <2>. HIDE DEF p, i
  <2>6. p \in Page /\ <<m2, p>> # None /\ <<m, p>> # None
    BY <2>1 DEF p
  <2>2. CASE m2 = c
    <3>1. pg[m2][p] = row[p]
      BY <1>5, <2>2
    <3>2. CASE page[m][p].attr = None
      BY <1>3, <2>2, <2>4, <2>5, <2>6, <3>1, <3>2
    <3>3. CASE page[m][p].attr # None
      <4>1. row[p].attr = <<m2, p>> /\ page[m][p].attr = <<m, p>>
        BY <1>3, <2>2, <2>6, <3>3
      <4>2. fl[<<m2, p>>] = flags[<<m, p>>] /\ ce[<<m2, p>>] = cell[<<m, p>>]
        BY <1>9, <2>2, <2>6, <3>3
      <4>. QED  BY <2>2, <2>4, <2>5, <2>6, <3>1, <4>1, <4>2
    <3>. QED  BY <3>2, <3>3
  <2>3. CASE m2 # c
    <3>1. pg[m2][p] = page[m2][p]
      BY <1>5, <2>3
    <3>2. page[m2][p].attr \in {None, <<m2, p>>}
      BY <1>1, <2>6
    <3>3. fl[<<m2, p>>] = flags[<<m2, p>>] /\ ce[<<m2, p>>] = cell[<<m2, p>>]
      BY <1>9, <2>3, <2>6
    <3>. QED  BY <2>3, <2>4, <2>5, <2>6, <3>1, <3>2, <3>3
  <2>. QED  BY <2>2, <2>3
<1>14. ASSUME NEW m2 \in Mem, NEW p \in Page
       PROVE  LentIn(new, m2, p) = IF m2 = c THEN LentIn(Now, m, p) ELSE LentIn(Now, m2, p)
  <2>1. <<c, p>> \notin Buffer /\ None \notin Buffer
    BY OwnBlock, NotBlocks
  <2>2. CASE m2 = c
    <3>1. new.page[m2][p] = row[p]
      BY <1>5, <1>11, <2>2
    <3>2. \/ page[m][p].attr = None /\ page[m][p].data = None
          \/ page[m][p].attr # None /\ page[m][p].data \in Buffer \cup {<<m, p>>}
      BY <1>1, OwnBlock, ZenonT(60)
    <3>3. <<m, p>> \notin Buffer
      BY <1>1, OwnBlock
    <3>. QED  BY <1>3, <2>1, <2>2, <3>1, <3>2, <3>3 DEF LentIn, Now
  <2>3. CASE m2 # c
    BY <1>5, <1>11, <2>3 DEF LentIn, Now
  <2>. QED  BY <2>2, <2>3
<1>15. /\ AttrOf' = [m2 \in Mem |-> [b \in Address |-> AttrIn(new, m2, b)]]
       /\ OwnOf'  = [m2 \in Mem |-> [b \in Address |-> OwnIn(new, m2, b)]]
       /\ LentOf' = [m2 \in Mem |-> [p \in Page |-> LentIn(new, m2, p)]]
       /\ HostOf' = [l \in Buffer |-> new.cell[l]]
       /\ Good(Now', alive')
  BY <1>11, <1>12, ViewNext
<1>16. AttrOf' = [AttrOf EXCEPT ![c] = AttrOf[m]]
  BY <1>1, <1>13, <1>15, ViewNow
<1>17. OwnOf' = [OwnOf EXCEPT ![c] = OwnOf[m]]
  BY <1>1, <1>13, <1>15, ViewNow
<1>18. LentOf' = [LentOf EXCEPT ![c] = LentOf[m]]
  BY <1>1, <1>14, <1>15, ViewNow
<1>19. HostOf' = HostOf
  BY <1>10, <1>11, <1>15, ViewNow DEF Now
<1>20. IInv'
  BY <1>1, <1>2, <1>15 DEF IInv, Clone
<1>. QED  BY <1>16, <1>17, <1>18, <1>19, <1>20, FlatSame DEF Clone, Flat!Clone

(***************************************************************************)
(* Ports.                                                                  *)
(***************************************************************************)
\* A step of the ports leaves the memories alone.
LEMMA PortsAlone ==
  ASSUME UNCHANGED <<page, flags, cell>>
  PROVE  AttrOf' = AttrOf /\ OwnOf' = OwnOf /\ LentOf' = LentOf /\ HostOf' = HostOf /\ Now' = Now
<1>1. AttrOf' = AttrOf
  BY DEF AttrOf
<1>2. OwnOf' = OwnOf
  BY DEF OwnOf
<1>3. LentOf' = LentOf /\ HostOf' = HostOf
  BY DEF LentOf, HostOf
<1>. QED  BY <1>1, <1>2, <1>3 DEF Now

\* The ports of an access: they are ports, and follow each other unless it
\* runs over the last one.
LEMMA PortFacts ==
  ASSUME NEW a \in Port, NEW n \in {1, 2, 4}
  PROVE  /\ PortSpan(a, n) \subseteq Port
         /\ \A k \in 0 .. n - 1 : PortAt(a, k) \in PortSpan(a, n)
         /\ a <= Ports - n => /\ PortSpan(a, n) = a .. a + n - 1
                              /\ \A k \in 0 .. n - 1 : PortAt(a, k) = a + k
<1>1. Ports \in Nat /\ Ports >= 4 /\ a \in Nat /\ a < Ports
  BY SizesAssumption DEF Port
<1>2. ASSUME NEW k \in 0 .. n - 1 PROVE PortAt(a, k) \in Port
  BY <1>1 DEF PortAt, Port
<1>3. ASSUME NEW k \in 0 .. n - 1, a <= Ports - n PROVE PortAt(a, k) = a + k
  <2>1. (0 * Ports + (a + k)) % Ports = a + k
    BY <1>1, <1>3, ModUnique
  <2>. QED  BY <1>1, <2>1 DEF PortAt
<1>4. ASSUME a <= Ports - n PROVE PortSpan(a, n) = a .. a + n - 1
  <2>1. PortSpan(a, n) = {a + k : k \in 0 .. n - 1}
    BY <1>3, <1>4 DEF PortSpan
  <2>2. ASSUME NEW p \in a .. a + n - 1 PROVE p \in {a + k : k \in 0 .. n - 1}
    <3>1. p - a \in 0 .. n - 1 /\ p = a + (p - a)
      BY <1>1
    <3>. QED  BY <3>1
  <2>3. ASSUME NEW k \in 0 .. n - 1 PROVE a + k \in a .. a + n - 1
    BY <1>1
  <2>. QED  BY <2>1, <2>2, <2>3
<1>. QED  BY <1>2, <1>3, <1>4 DEF PortSpan

\* An access that is one of the host: every port of it is allowed.
LEMMA AllPortsFacts ==
  ASSUME NEW m, NEW a \in Port, NEW n \in {1, 2, 4}, NEW need, AllPorts(m, a, n, need)
  PROVE  /\ a <= Ports - n /\ PortSpan(a, n) = a .. a + n - 1
         /\ \A p \in PortSpan(a, n) : need \in io[m][p]
<1>1. /\ a <= Ports - n /\ \A k \in 0 .. n - 1 : need \in io[m][a + k]
  BY DEF AllPorts
<1>2. PortSpan(a, n) = a .. a + n - 1
  BY <1>1, PortFacts
<1>3. ASSUME NEW p \in a .. a + n - 1 PROVE need \in io[m][p]
  <2>1. p - a \in 0 .. n - 1 /\ a + (p - a) = p
    BY SizesAssumption DEF Port
  <2>. QED  BY <1>1, <2>1
<1>. QED  BY <1>1, <1>2, <1>3

\* Marking ports keeps the type of the table, and is what a table does that
\* treats each port on its own.
LEMMA PortIoSim ==
  ASSUME IInv, NEW m \in alive, NEW S \in SUBSET Port, NEW P \in SUBSET S, NEW acc \in Attr,
         NEW v, NEW bad \in BOOLEAN, NEW sent, PortIo(m, EachMarked(m, S, P, acc), v, bad, sent)
  PROVE  /\ IInv' /\ Flat!Marked(m, S, P, acc)
         /\ result' = [val |-> v, invalid |-> bad, sent |-> sent]
         /\ UNCHANGED <<alive, AttrOf, OwnOf, LentOf, HostOf>>
<1>1. /\ AttrOf' = AttrOf /\ OwnOf' = OwnOf /\ LentOf' = LentOf /\ HostOf' = HostOf /\ Now' = Now
      /\ alive' = alive /\ invalid' = [invalid EXCEPT ![m] = bad]
      /\ io' = [io EXCEPT ![m] = EachMarked(m, S, P, acc)]
      /\ result' = [val |-> v, invalid |-> bad, sent |-> sent]
  BY PortsAlone DEF PortIo
<1>2. m \in Mem /\ io[m] \in [Port -> SUBSET Attr] /\ "ACC_INVALID" \in Attr
  BY DEF IInv, Attr
<1>3. EachMarked(m, S, P, acc) \in [Port -> SUBSET Attr]
  BY <1>2 DEF EachMarked
<1>4. IInv'
  BY <1>1, <1>2, <1>3 DEF IInv
<1>5. Flat!Marked(m, S, P, acc)
  BY <1>1, FlatSame DEF Flat!Marked, EachMarked
<1>. QED  BY <1>1, <1>4, <1>5

\* If all ports are allowed, marking them at once is marking each.
LEMMA AllMarked ==
  ASSUME NEW m, NEW S, NEW acc
  PROVE  PortsMarked(m, S, acc) = EachMarked(m, S, S, acc)
  BY DEF PortsMarked, EachMarked

\* What calls return, field by field.
LEMMA ReturnsNothingSent ==
  ASSUME NEW v, NEW bad
  PROVE  Returns(v, bad) = [val |-> v, invalid |-> bad, sent |-> <<>>]
<1>1. Nothing \in [val : {<<>>}, invalid : {FALSE}, sent : {<<>>}]
  BY DEF Nothing
<1>2. Returns(v, bad) \in [val : {v}, invalid : {bad}, sent : {<<>>}]
  BY <1>1 DEF Returns
<1>. QED  BY <1>2

\* The same for what was sent.
LEMMA ReturnsSent ==
  ASSUME NEW v, NEW bad, NEW sent
  PROVE  [Returns(v, bad) EXCEPT !.sent = sent] = [val |-> v, invalid |-> bad, sent |-> sent]
<1>1. Returns(v, bad) \in [val : {v}, invalid : {bad}, sent : {<<>>}]
  BY ReturnsNothingSent
<1>. DEFINE r == Returns(v, bad)
            new == [r EXCEPT !.sent = sent]
<1>. HIDE DEF r
<1>2. new \in [val : {v}, invalid : {bad}, sent : {sent}]
  BY <1>1 DEF r
<1>. HIDE DEF new
<1>3. new = [val |-> v, invalid |-> bad, sent |-> sent]
  BY <1>2
<1>. QED  BY <1>3 DEF r, new

\* Port reads, at once or one by one.
LEMMA InSim ==
  ASSUME IInv, NEW m \in alive, NEW a \in Port, NEW n \in {1, 2, 4}, In(m, a, n)
  PROVE  IInv' /\ Flat!In(m, a, n)
<1>. DEFINE S == PortSpan(a, n)
            P == {p \in S : "R" \in io[m][p]}
            v == [j \in 1 .. n |-> IF PortAt(a, j - 1) \in P THEN Device[PortAt(a, j - 1)] ELSE FF]
<1>1. S \in SUBSET Port /\ P \in SUBSET S /\ "ACC_R" \in Attr /\ (P # S) \in BOOLEAN
  BY PortFacts DEF Attr
<1>2. PortIo(m, EachMarked(m, S, P, "ACC_R"), v, P # S, <<>>)
  <2>1. CASE AllPorts(m, a, n, "R")
    <3>7. a <= Ports - n /\ S = a .. a + n - 1 /\ \A p \in S : "R" \in io[m][p]
      BY <2>1, AllPortsFacts
    <3>1. a <= Ports - n /\ S = a .. a + n - 1 /\ P = S
      BY <3>7
    <3>2. \A k \in 0 .. n - 1 : PortAt(a, k) = a + k /\ PortAt(a, k) \in P
      BY <3>1, PortFacts
    <3>3. ASSUME NEW j \in 1 .. n
          PROVE  PortAt(a, j - 1) = a + j - 1 /\ PortAt(a, j - 1) \in P
      <4>1. j - 1 \in 0 .. n - 1 /\ a + (j - 1) = a + j - 1
        BY SizesAssumption DEF Port
      <4>. QED  BY <3>2, <4>1
    <3>4. v = [j \in 1 .. n |-> Device[a + j - 1]]
      BY <3>3
    <3>5. PortIo(m, PortsMarked(m, a .. a + n - 1, "ACC_R"),
                 [j \in 1 .. n |-> Device[a + j - 1]], FALSE, <<>>)
      BY <2>1 DEF In
    <3>6. PortsMarked(m, a .. a + n - 1, "ACC_R") = EachMarked(m, S, P, "ACC_R") /\ (P # S) = FALSE
      <4>. HIDE DEF S, P
      <4>. QED  BY <3>1, AllMarked
    <3>. HIDE DEF S, P, v
    <3>. QED  BY <3>4, <3>5, <3>6
  <2>2. CASE ~AllPorts(m, a, n, "R")
    BY <2>2 DEF In
  <2>. QED  BY <2>1, <2>2
<1>. HIDE DEF S, P, v
<1>3. /\ IInv' /\ Flat!Marked(m, S, P, "ACC_R")
      /\ result' = [val |-> v, invalid |-> P # S, sent |-> <<>>]
      /\ UNCHANGED <<alive, AttrOf, OwnOf, LentOf, HostOf>>
  BY <1>1, <1>2, PortIoSim, ZenonT(60)
<1>4. result' = Returns(v, P # S)
  BY <1>3, ReturnsNothingSent
<1>. QED  BY <1>3, <1>4, FlatSame DEF Flat!In, S, P, v

\* Port writes, at once or one by one.
LEMMA OutSim ==
  ASSUME IInv, NEW m \in alive, NEW a \in Port, NEW n \in {1, 2, 4}, NEW v, Out(m, a, n, v)
  PROVE  IInv' /\ Flat!Out(m, a, n, v)
<1>. DEFINE S == PortSpan(a, n)
            P == {p \in S : "W" \in io[m][p]}
            sent == [p \in P |-> IF Flat!LowByteOnly(S, P, a, n) THEN v[1] ELSE v[p - a + 1]]
<1>1. S \in SUBSET Port /\ P \in SUBSET S /\ "ACC_W" \in Attr /\ (P # S) \in BOOLEAN
  BY PortFacts DEF Attr
<1>2. Ports \in Nat /\ a \in Nat /\ a < Ports
  BY SizesAssumption DEF Port
<1>3. PortIo(m, EachMarked(m, S, P, "ACC_W"), <<>>, P # S, sent)
  <2>1. CASE AllPorts(m, a, n, "W")
    <3>6. a <= Ports - n /\ S = a .. a + n - 1 /\ \A p \in S : "W" \in io[m][p]
      BY <2>1, AllPortsFacts
    <3>1. a <= Ports - n /\ S = a .. a + n - 1 /\ P = S
      BY <3>6
    <3>2. ~Flat!LowByteOnly(S, P, a, n)
      BY <1>2, <3>1 DEF Flat!LowByteOnly
    <3>3. sent = [p \in a .. a + n - 1 |-> v[p - a + 1]]
      BY <3>1, <3>2
    <3>4. PortIo(m, PortsMarked(m, a .. a + n - 1, "ACC_W"), <<>>, FALSE,
                 [p \in a .. a + n - 1 |-> v[p - a + 1]])
      BY <2>1 DEF Out
    <3>5. PortsMarked(m, a .. a + n - 1, "ACC_W") = EachMarked(m, S, P, "ACC_W") /\ (P # S) = FALSE
      <4>. HIDE DEF S, P
      <4>. QED  BY <3>1, AllMarked
    <3>. HIDE DEF S, P, sent
    <3>. QED  BY <3>3, <3>4, <3>5
  <2>2. CASE ~AllPorts(m, a, n, "W")
    <3>1. PortIo(m, EachMarked(m, S, P, "ACC_W"), <<>>, P # S, [p \in P |-> v[1]])
      BY <2>2 DEF Out
    <3>2. ASSUME NEW p \in P, ~Flat!LowByteOnly(S, P, a, n) PROVE v[p - a + 1] = v[1]
      <4>1. P = S /\ a + n <= Ports
        BY <1>2, <3>2 DEF Flat!LowByteOnly
      <4>2. S = a .. a + n - 1
        <5>1. a <= Ports - n
          BY <1>2, <4>1
        <5>. QED  BY <5>1, PortFacts
      <4>3. \A k \in 0 .. n - 1 : a + k \in a .. a + n - 1
        BY <1>2
      <4>4. \A k \in 0 .. n - 1 : "W" \in io[m][a + k]
        BY <4>1, <4>2, <4>3
      <4>5. n = 1
        BY <1>2, <2>2, <4>1, <4>4 DEF AllPorts
      <4>6. p = a
        BY <1>2, <4>1, <4>2, <4>5
      <4>. QED  BY <1>2, <4>6
    <3>3. sent = [p \in P |-> v[1]]
      <4>1. \A p \in P : (IF Flat!LowByteOnly(S, P, a, n) THEN v[1] ELSE v[p - a + 1]) = v[1]
        BY <3>2
      <4>. QED  BY <4>1
    <3>. HIDE DEF sent
    <3>. QED  BY <3>1, <3>3
  <2>. QED  BY <2>1, <2>2
<1>. HIDE DEF S, P, sent
<1>4. /\ IInv' /\ Flat!Marked(m, S, P, "ACC_W")
      /\ result' = [val |-> <<>>, invalid |-> P # S, sent |-> sent]
      /\ UNCHANGED <<alive, AttrOf, OwnOf, LentOf, HostOf>>
  BY <1>1, <1>3, PortIoSim, ZenonT(60)
<1>5. result' = [Returns(<<>>, P # S) EXCEPT !.sent = sent]
  BY <1>4, ReturnsSent
<1>. QED  BY <1>4, <1>5, FlatSame DEF Flat!Out, S, P, sent

\* x86emu_set_io_perm sets ports one by one.
LEMMA SetIoPermSim ==
  ASSUME IInv, NEW m \in alive, NEW first \in Port, NEW last \in Nat,
         NEW perm \in SUBSET {"R", "W", "X", "VALID"}, SetIoPerm(m, first, last, perm)
  PROVE  IInv' /\ Flat!SetIoPerm(m, first, last, perm)
<1>. DEFINE row == [p \in Port |-> IF first <= p /\ p <= last THEN perm ELSE io[m][p]]
<1>1. /\ AttrOf' = AttrOf /\ OwnOf' = OwnOf /\ LentOf' = LentOf /\ HostOf' = HostOf /\ Now' = Now
      /\ alive' = alive /\ invalid' = invalid /\ io' = [io EXCEPT ![m] = row]
      /\ result' = Nothing
  BY PortsAlone DEF SetIoPerm
<1>2. m \in Mem /\ io[m] \in [Port -> SUBSET Attr] /\ perm \in SUBSET Attr
  BY ByteFacts DEF IInv
<1>3. row \in [Port -> SUBSET Attr]
  BY <1>2
<1>4. row = [p \in Port |-> IF p \in first .. last THEN perm ELSE io[m][p]]
  BY SizesAssumption DEF Port
<1>. HIDE DEF row
<1>5. IInv'
  BY <1>1, <1>2, <1>3 DEF IInv
<1>. QED  BY <1>1, <1>4, <1>5, FlatSame DEF Flat!SetIoPerm

(***************************************************************************)
(* The theorems.                                                           *)
(***************************************************************************)
\* In the beginning no page is made, and the memories are arrays of nothing.
LEMMA Begins ==
  ASSUME Init
  PROVE  IInv /\ Flat!Init
<1>1. /\ Unmade({}) \in PageEntry /\ Unmade({}).def = {}
      /\ Unmade({}).attr = None /\ Unmade({}).data = None
  BY DEF Unmade, PageEntry
<1>2. /\ page = [m \in Mem |-> [p \in Page |-> Unmade({})]]
      /\ flags = [k \in Block |-> [i \in Index |-> {}]]
      /\ alive = {} /\ invalid = [m \in Mem |-> FALSE]
      /\ io = [m \in Mem |-> [p \in Port |-> {}]]
      /\ call = <<"none", None>> /\ result = Nothing
  BY DEF Init
<1>3. PICK h \in Hosts :
        cell = [k \in Block \cup Buffer |-> IF k \in Buffer THEN h[k] ELSE [i \in Index |-> 0]]
  BY DEF Init
<1>4. h \in [Buffer -> Cells] /\ DOMAIN h = Buffer
  BY CallsAssumption DEF Cells
<1>5. flags \in FlagTable
  BY <1>2 DEF FlagTable, Flags
<1>6. cell \in CellTable
  BY <1>3, <1>4, ByteFacts DEF CellTable, Cells
<1>7. page \in [Mem -> [Page -> PageEntry]] /\ \A m \in Mem, p \in Page : page[m][p] = Unmade({})
  BY <1>1, <1>2
<1>8. Good(Now, alive)
  <2>1. Now \in Memory
    BY <1>5, <1>6, <1>7 DEF Now, Memory
  <2>. QED  BY <1>1, <1>7, <2>1 DEF Good, UnmadeIn, Now
<1>9. IInv
  BY <1>2, <1>8 DEF IInv
<1>10. AttrOf = [m \in Mem |-> [b \in Address |-> {}]]
  BY <1>1, <1>7, PageIndex DEF AttrOf
<1>11. OwnOf = [m \in Mem |-> [b \in Address |-> 0]]
  BY <1>1, <1>7, PageIndex DEF OwnOf
<1>12. LentOf = [m \in Mem |-> [p \in Page |-> None]]
  BY <1>1, <1>7, NotBlocks DEF LentOf
<1>13. HostOf \in Hosts
  <2>1. HostOf = h
    BY <1>3, <1>4 DEF HostOf
  <2>. QED  BY <2>1
<1>. QED  BY <1>2, <1>9, <1>10, <1>11, <1>12, <1>13, FlatSame DEF Flat!Init

\* Every call keeps the invariant and is the same call of a plain array.
LEMMA Steps ==
  ASSUME IInv, Next
  PROVE  IInv' /\ Flat!Next
<1>1. ASSUME NEW m \in Mem, NEW perm \in Perms, New(m, perm)
      PROVE  IInv' /\ Flat!Next
  <2>1. perm \in SUBSET {"R", "W", "X", "VALID"}
    BY CallsAssumption
  <2>2. IInv' /\ Flat!New(m, perm)
    BY <1>1, <2>1, NewSim
  <2>3. call'[1] = "new" /\ call'[2] = m /\ call'[3] = perm
    BY <1>1 DEF New
  <2>. QED  BY <2>2, <2>3 DEF Flat!Next
<1>2. ASSUME NEW m \in alive, NEW x \in Calls, Read(m, x[1], x[2])
      PROVE  IInv' /\ Flat!Next
  <2>1. x[1] \in Address /\ x[2] \in {1, 2, 4}
    BY CallsAssumption
  <2>2. IInv' /\ Flat!Read(m, x[1], x[2], "R", "ACC_R")
    <3>1. "ACC_R" \in Attr
      BY DEF Attr
    <3>. QED  BY <1>2, <2>1, <3>1, ReadRunSim, ReadBytesSim DEF Read
  <2>3. call'[1] = "read" /\ call'[2] = m /\ call'[3] = x[1] /\ call'[4] = x[2]
    BY <1>2 DEF Read
  <2>. QED  BY <2>2, <2>3 DEF Flat!Next
<1>3. ASSUME NEW m \in alive, NEW x \in Calls, Fetch(m, x[1], x[2])
      PROVE  IInv' /\ Flat!Next
  <2>1. x[1] \in Address /\ x[2] \in {1, 2, 4}
    BY CallsAssumption
  <2>2. IInv' /\ Flat!Read(m, x[1], x[2], "X", "ACC_X")
    <3>1. "ACC_X" \in Attr
      BY DEF Attr
    <3>. QED  BY <1>3, <2>1, <3>1, ReadBytesSim DEF Fetch
  <2>3. call'[1] = "fetch" /\ call'[2] = m /\ call'[3] = x[1] /\ call'[4] = x[2]
    BY <1>3 DEF Fetch
  <2>. QED  BY <2>2, <2>3 DEF Flat!Next
<1>4. ASSUME NEW m \in alive, NEW x \in Calls, NEW v \in Values, Write(m, x[1], x[2], v)
      PROVE  IInv' /\ Flat!Next
  <2>1. x[1] \in Address /\ x[2] \in {1, 2, 4} /\ v \in [1 .. 4 -> Byte]
    BY CallsAssumption
  <2>2. IInv' /\ Flat!Write(m, x[1], x[2], v)
    BY <1>4, <2>1, WriteRunSim, WriteBytesSim DEF Write
  <2>3. call'[1] = "write" /\ call'[2] = m /\ call'[3] = x[1] /\ call'[4] = x[2] /\ call'[5] = v
    BY <1>4 DEF Write
  <2>. QED  BY <2>2, <2>3 DEF Flat!Next
<1>5. ASSUME NEW m \in alive, NEW x \in Calls, Peek(m, x[1])
      PROVE  IInv' /\ Flat!Next
  <2>1. x[1] \in Address
    BY CallsAssumption
  <2>2. IInv' /\ Flat!Peek(m, x[1])
    BY <1>5, <2>1, PeekSim
  <2>3. call'[1] = "peek" /\ call'[2] = m /\ call'[3] = x[1]
    BY <1>5 DEF Peek
  <2>. QED  BY <2>2, <2>3 DEF Flat!Next
<1>6. ASSUME NEW m \in alive, NEW x \in Calls, NEW v \in Values, Poke(m, x[1], v)
      PROVE  IInv' /\ Flat!Next
  <2>1. x[1] \in Address /\ v \in [1 .. 4 -> Byte]
    BY CallsAssumption
  <2>2. IInv' /\ Flat!Poke(m, x[1], v)
    BY <1>6, <2>1, PokeSim
  <2>3. call'[1] = "poke" /\ call'[2] = m /\ call'[3] = x[1] /\ call'[4] = v
    BY <1>6 DEF Poke
  <2>. QED  BY <2>2, <2>3 DEF Flat!Next
<1>7. ASSUME NEW m \in alive, NEW r \in Ranges, NEW perm \in Perms, SetPerm(m, r[1], r[2], perm)
      PROVE  IInv' /\ Flat!Next
  <2>1. r[1] \in Address /\ r[2] \in Address /\ perm \in SUBSET {"R", "W", "X", "VALID"}
    BY CallsAssumption
  <2>2. IInv' /\ Flat!SetPerm(m, r[1], r[2], perm)
    BY <1>7, <2>1, SetPermSim
  <2>3. /\ call'[1] = "set_perm" /\ call'[2] = m /\ call'[3] = r[1] /\ call'[4] = r[2]
        /\ call'[5] = perm
    BY <1>7 DEF SetPerm
  <2>. QED  BY <2>2, <2>3 DEF Flat!Next
<1>8. ASSUME NEW m \in alive, NEW p \in Lent, NEW l \in Buffer \cup {None}, SetPage(m, p, l)
      PROVE  IInv' /\ Flat!Next
  <2>1. p \in Page
    BY CallsAssumption
  <2>2. IInv' /\ Flat!SetPage(m, p, l)
    BY <1>8, <2>1, SetPageSim, SMTT(30)
  <2>3. call'[1] = "set_page" /\ call'[2] = m /\ call'[3] = p /\ call'[4] = l
    BY <1>8 DEF SetPage
  <2>. QED  BY <2>2, <2>3 DEF Flat!Next
<1>9. ASSUME NEW m \in alive, ResetStats(m)
      PROVE  IInv' /\ Flat!Next
  <2>1. IInv' /\ Flat!ResetStats(m)
    BY <1>9, ResetStatsSim
  <2>2. call'[1] = "reset_access_stats" /\ call'[2] = m
    BY <1>9 DEF ResetStats
  <2>. QED  BY <2>1, <2>2 DEF Flat!Next
<1>10. ASSUME NEW m \in alive, NEW c \in Mem, Clone(m, c)
       PROVE  IInv' /\ Flat!Next
  <2>1. IInv' /\ Flat!Clone(m, c)
    BY <1>10, CloneSim
  <2>2. call'[1] = "clone" /\ call'[2] = m /\ call'[3] = c
    BY <1>10 DEF Clone
  <2>. QED  BY <2>1, <2>2 DEF Flat!Next
<1>11. ASSUME NEW m \in alive, Done(m)
       PROVE  IInv' /\ Flat!Next
  <2>1. IInv' /\ Flat!Done(m)
    BY <1>11, DoneSim
  <2>2. call'[1] = "done" /\ call'[2] = m
    BY <1>11 DEF Done
  <2>. QED  BY <2>1, <2>2 DEF Flat!Next
<1>12. ASSUME NEW m \in alive, NEW x \in PortCalls, In(m, x[1], x[2])
       PROVE  IInv' /\ Flat!Next
  <2>1. x[1] \in Port /\ x[2] \in {1, 2, 4}
    BY CallsAssumption
  <2>2. IInv' /\ Flat!In(m, x[1], x[2])
    BY <1>12, <2>1, InSim
  <2>3. call'[1] = "in" /\ call'[2] = m /\ call'[3] = x[1] /\ call'[4] = x[2]
    BY <1>12 DEF In
  <2>. QED  BY <2>2, <2>3 DEF Flat!Next
<1>13. ASSUME NEW m \in alive, NEW x \in PortCalls, NEW v \in Values, Out(m, x[1], x[2], v)
       PROVE  IInv' /\ Flat!Next
  <2>1. x[1] \in Port /\ x[2] \in {1, 2, 4}
    BY CallsAssumption
  <2>2. IInv' /\ Flat!Out(m, x[1], x[2], v)
    BY <1>13, <2>1, OutSim
  <2>3. call'[1] = "out" /\ call'[2] = m /\ call'[3] = x[1] /\ call'[4] = x[2] /\ call'[5] = v
    BY <1>13 DEF Out
  <2>. QED  BY <2>2, <2>3 DEF Flat!Next
<1>14. ASSUME NEW m \in alive, NEW r \in PortRanges, NEW perm \in Perms,
              SetIoPerm(m, r[1], r[2], perm)
       PROVE  IInv' /\ Flat!Next
  <2>1. r[1] \in Port /\ r[2] \in Nat /\ perm \in SUBSET {"R", "W", "X", "VALID"}
    BY CallsAssumption
  <2>2. IInv' /\ Flat!SetIoPerm(m, r[1], r[2], perm)
    BY <1>14, <2>1, SetIoPermSim
  <2>3. /\ call'[1] = "set_io_perm" /\ call'[2] = m /\ call'[3] = r[1] /\ call'[4] = r[2]
        /\ call'[5] = perm
    BY <1>14 DEF SetIoPerm
  <2>. QED  BY <2>2, <2>3 DEF Flat!Next
<1>. QED  BY <1>1, <1>2, <1>3, <1>4, <1>5, <1>6, <1>7, <1>8, <1>9, <1>10, <1>11, <1>12, <1>13, <1>14
          DEF Next, Accesses, Management, PortAccesses

\* Where nothing happens, nothing is seen to happen.
LEMMA Stutters ==
  ASSUME IInv, UNCHANGED vars
  PROVE  IInv' /\ UNCHANGED Flat!vars
<1>1. UNCHANGED <<alive, page, flags, cell, invalid, io, call, result>>
  BY DEF vars
<1>2. UNCHANGED <<AttrOf, OwnOf, LentOf, HostOf>> /\ Now' = Now
  BY <1>1, PortsAlone
<1>3. IInv'
  BY <1>1, <1>2 DEF IInv
<1>. QED  BY <1>1, <1>2, <1>3 DEF Flat!vars

\* Blocks are owned and everything has its type, whatever callers do (the
\* invariant the other theorems rest on).
THEOREM Invariance == Spec => []IInv
<1>1. Init => IInv
  BY Begins
<1>2. IInv /\ [Next]_vars => IInv'
  BY Steps, Stutters
<1>. QED  BY <1>1, <1>2, PTL DEF Spec

\* Attributes, content, pages and ports always have their types (the tables
\* and blocks of mem.c).
THEOREM TypeCorrect == Spec => []TypeOK
<1>1. ASSUME IInv PROVE TypeOK
  <2>1. Now \in Memory /\ PageEntry \subseteq [def : SUBSET Attr, attr : Block \cup {None},
                                               data : Block \cup Buffer \cup {None}]
    BY <1>1, ByteFacts DEF IInv, Good, PageEntry
  <2>2. /\ page \in [Mem -> [Page -> PageEntry]]
        /\ flags \in [Block -> [Index -> SUBSET Attr]]
        /\ cell \in [Block \cup Buffer -> [Index -> Byte]]
    BY <2>1 DEF Memory, Now, FlagTable, CellTable, Flags, Cells
  <2>3. page \in [Mem -> [Page -> [def : SUBSET Attr, attr : Block \cup {None},
                                   data : Block \cup Buffer \cup {None}]]]
    BY <2>1, <2>2
  <2>. QED  BY <1>1, <2>2, <2>3 DEF IInv, TypeOK
<1>. QED  BY <1>1, Invariance, PTL

\* No block ever belongs to two pages (the copies and pointers of
\* vm_get_page, set_page and emu_mem_clone).
THEOREM BlocksAlwaysOwned == Spec => []BlocksOwned
<1>1. ASSUME IInv PROVE BlocksOwned
  BY <1>1 DEF IInv, Good, UnmadeIn, MadeIn, Now, BlocksOwned
<1>. QED  BY <1>1, Invariance, PTL

\* Pages, short cuts, lent buffers and copies never show: the memory of every
\* emulator behaves as a plain array of bytes does (all of mem.c).
THEOREM BehavesAsArray == Spec => ImplementsFlat
<1>1. Init => Flat!Init
  BY Begins
<1>2. IInv /\ [Next]_vars => [Flat!Next]_(Flat!vars)
  BY Steps, Stutters
<1>. QED  BY <1>1, <1>2, Invariance, PTL DEF Spec, ImplementsFlat, Flat!Spec
=============================================================================
