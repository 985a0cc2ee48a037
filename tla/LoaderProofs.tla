---------------------------- MODULE LoaderProofs ----------------------------
(***************************************************************************)
(* Proofs about CoffLoader: whatever the file, a machine that is ready     *)
(* runs the program that the file describes.  The invariant says, stage by *)
(* stage, how far the code is patched, how far the memory is written and   *)
(* may be accessed, what the words of the heap and of the block of the     *)
(* stack hold, and which ends of functions the listing has found.  Every   *)
(* access goes through the pages and blocks of EmuMemory; what it does to  *)
(* the array of bytes that they stand for is taken from MemoryProofs.      *)
(***************************************************************************)
EXTENDS CoffLoader, MemoryProofs

\* What is written to a word of four bytes is read from it.
LEMMA WordRoundTrip ==
  ASSUME NEW x \in Int
  PROVE  /\ WordSize \in Nat \ {0}
         /\ WordBytes(x) \in [1 .. 4 -> Byte]
         /\ WordOf(WordBytes(x)) = x % WordSize
         /\ x \in Byte => WordBytes(x)[1] = x
<1>. DEFINE B  == ByteSize
            y  == x % WordSize
            q1 == y \div B
            q2 == q1 \div B
            q3 == q2 \div B
<1>1. B \in Nat /\ B >= 2
  BY SizesAssumption
<1>2. B * B \in Nat /\ B * B * B \in Nat /\ B * B * B * B \in Nat /\ WordSize = B * B * B * B
      /\ B * B * B * B = B * (B * (B * B)) /\ B * (B * B) \in Nat
  BY <1>1 DEF WordSize
<1>3. B * B >= B /\ B * (B * B) >= B * B /\ B * (B * (B * B)) >= B * (B * B)
  <2>1. \A u, v \in Nat : u >= 1 => u * v >= v
    OBVIOUS
  <2>. QED BY <1>1, <1>2, <2>1
<1>4. WordSize \in Nat \ {0}
  BY <1>1, <1>2, <1>3
<1>5. y \in 0 .. WordSize - 1 /\ (x \in Byte => y = x)
  <2>1. y \in 0 .. WordSize - 1
    BY <1>4
  <2>2. ASSUME x \in Byte PROVE y = x
    <3>1. x \in 0 .. WordSize - 1
      BY <1>1, <1>2, <1>3, <2>2 DEF Byte, FF
    <3>2. (0 * WordSize + x) % WordSize = x /\ 0 * WordSize + x = x
      BY <1>4, <3>1, ModUnique
    <3>. QED BY <3>2
  <2>. QED BY <2>1, <2>2
<1>. HIDE DEF y
<1>6. y \in Nat /\ y = q1 * B + (y % B) /\ y % B \in 0 .. B - 1 /\ q1 \in Nat
  BY <1>1, <1>4, <1>5, DivMod
<1>. HIDE DEF q1
<1>7. q1 = q2 * B + (q1 % B) /\ q1 % B \in 0 .. B - 1 /\ q2 \in Nat
  BY <1>1, <1>6, DivMod
<1>. HIDE DEF q2
<1>8. q2 = q3 * B + (q2 % B) /\ q2 % B \in 0 .. B - 1 /\ q3 \in Nat
  BY <1>1, <1>7, DivMod
<1>. HIDE DEF q3
<1>9. q3 < B
  <2>1. \A u, v \in Nat : u >= v => B * u >= B * v
    BY <1>1
  <2>2. SUFFICES ASSUME q3 >= B PROVE FALSE
    BY <1>1, <1>8
  <2>3. B * q3 >= B * B /\ q2 >= B * q3
    BY <1>1, <1>8, <2>1, <2>2
  <2>4. q2 >= B * B /\ q1 >= B * q2
    BY <1>1, <1>2, <1>7, <1>8, <2>3
  <2>5. B * q2 >= B * (B * B) /\ q1 \in Nat
    BY <1>2, <1>6, <1>8, <1>7, <2>1, <2>4
  <2>6. q1 >= B * (B * B) /\ y >= B * q1
    BY <1>1, <1>2, <1>6, <1>7, <2>4, <2>5
  <2>7. B * q1 >= B * (B * (B * B))
    BY <1>2, <1>6, <2>1, <2>6
  <2>8. B * q1 >= WordSize /\ B * q1 \in Nat
    BY <1>1, <1>2, <1>6, <2>7
  <2>9. \A u \in Nat, s \in Nat \ {0} : y >= u /\ u >= s => y \notin 0 .. s - 1
    BY <1>6
  <2>. QED BY <1>4, <1>5, <2>6, <2>8, <2>9
<1>10. q3 % B = q3
  <2>1. q3 \in 0 .. B - 1
    BY <1>1, <1>8, <1>9
  <2>2. (0 * B + q3) % B = q3 /\ 0 * B + q3 = q3
    BY <1>1, <2>1, ModUnique
  <2>. QED BY <2>2
<1>11. WordBytes(x) = <<y % B, q1 % B, q2 % B, q3 % B>>
  BY DEF WordBytes, y, q1, q2, q3
<1>12. WordBytes(x) \in [1 .. 4 -> Byte]
  BY <1>1, <1>6, <1>7, <1>8, <1>9, <1>10, <1>11 DEF Byte, FF
<1>13. WordOf(WordBytes(x)) = y
  <2>1. WordOf(WordBytes(x)) = (y % B) + B * ((q1 % B) + B * ((q2 % B) + B * (q3 % B)))
    BY <1>11 DEF WordOf
  <2>2. (q2 % B) + B * (q3 % B) = q2
    BY <1>1, <1>8, <1>10
  <2>3. (q1 % B) + B * q2 = q1
    BY <1>1, <1>7, <1>8
  <2>4. (y % B) + B * q1 = y
    BY <1>1, <1>6, <1>7
  <2>. QED BY <2>1, <2>2, <2>3, <2>4
<1>14. x \in Byte => WordBytes(x)[1] = x
  <2>1. ASSUME x \in Byte PROVE y % B = x
    <3>1. y = x /\ x \in 0 .. B - 1
      BY <1>1, <1>5, <2>1 DEF Byte, FF
    <3>2. (0 * B + x) % B = x /\ 0 * B + x = x
      BY <1>1, <3>1, ModUnique
    <3>. QED BY <3>1, <3>2
  <2>. QED BY <1>11, <2>1
<1>. QED BY <1>4, <1>12, <1>13, <1>14 DEF y

(***************************************************************************)
(* What the loader's calls of the memory do to the array that it is.       *)
(***************************************************************************)
\* No page of the machine is lent, so that what is written is its own.
Plain == \A p \in Page : LentOf[Emu][p] = None

\* The bytes of an access that does not wrap.
LEMMA Straight ==
  ASSUME NEW a \in Address, NEW n \in {1, 2, 4}, a + n <= Size
  PROVE  /\ Span(a, n) = a .. a + n - 1 /\ a .. a + n - 1 \subseteq Address
         /\ \A b \in a .. a + n - 1 : Offset(a, b) = b - a
<1>1. a \in Nat /\ Size \in Nat /\ Size >= 8
  BY SizeFacts DEF Address
<1>2. \A x \in 0 .. Size - 1 : x % Size = x
  <2>1. \A x \in 0 .. Size - 1 : (0 * Size + x) % Size = x /\ 0 * Size + x = x
    BY <1>1, ModUnique
  <2>. QED BY <2>1
<1>3. \A k \in 0 .. n - 1 : At(a, k) = a + k
  BY <1>1, <1>2 DEF At
<1>4. \A b \in a .. a + n - 1 : Offset(a, b) = b - a
  BY <1>1, <1>2 DEF Offset
<1>5. Span(a, n) = {a + k : k \in 0 .. n - 1}
  BY <1>3 DEF Span
<1>6. {a + k : k \in 0 .. n - 1} = a .. a + n - 1
  <2>1. ASSUME NEW b \in a .. a + n - 1 PROVE \E k \in 0 .. n - 1 : b = a + k
    <3>1. b - a \in 0 .. n - 1 /\ b = a + (b - a)
      BY <1>1
    <3>. QED BY <3>1
  <2>. QED BY <1>1, <2>1
<1>7. a .. a + n - 1 \subseteq Address
  BY <1>1 DEF Address
<1>. QED BY <1>4, <1>5, <1>6, <1>7

\* A write that is allowed stores its bytes and marks them, no others.
LEMMA WriteEffect ==
  ASSUME IInv, Emu \in alive, Plain, NEW a \in Address, NEW n \in {1, 4}, a + n <= Size,
         NEW v \in [1 .. 4 -> Byte], \A b \in a .. a + n - 1 : "W" \in AttrOf[Emu][b],
         Write(Emu, a, n, v)
  PROVE  /\ IInv' /\ alive' = alive /\ Plain'
         /\ \A b \in Address : OwnOf'[Emu][b] = IF b \in a .. a + n - 1 THEN v[b - a + 1]
                                                ELSE OwnOf[Emu][b]
         /\ \A b \in Address : AttrOf'[Emu][b] = IF b \in a .. a + n - 1
                                                 THEN AttrOf[Emu][b] \cup {"VALID", "ACC_W"}
                                                 ELSE AttrOf[Emu][b]
<1>. DEFINE S == a .. a + n - 1
<1>1. IInv' /\ Flat!Write(Emu, a, n, v)
  BY WriteRunSim, WriteBytesSim DEF Write
<1>2. /\ Flat!Span(a, n) = S /\ S \subseteq Address /\ Flat!Address = Address
      /\ \A b \in S : Flat!Offset(a, b) = b - a
      /\ \A b : Flat!PageOf(b) = PageOf(b)
  BY Straight, FlatSame
<1>3. {b \in S : "W" \in AttrOf[Emu][b]} = S
  OBVIOUS
<1>. HIDE DEF S
<1>4. /\ Flat!Stored(Emu, a, v, S)
      /\ AttrOf' = [AttrOf EXCEPT ![Emu] = [b \in Address |->
           CASE b \in S -> AttrOf[Emu][b] \cup {"VALID", "ACC_W"}
             [] b \in S \ S -> AttrOf[Emu][b] \cup {"ACC_INVALID"}
             [] OTHER -> AttrOf[Emu][b]]]
      /\ alive' = alive /\ LentOf' = LentOf
  BY <1>1, <1>2, <1>3 DEF Flat!Write
<1>5. OwnOf' = [OwnOf EXCEPT ![Emu] = [b \in Address |->
        IF b \in S /\ LentOf[Emu][PageOf(b)] = None THEN v[Flat!Offset(a, b) + 1] ELSE OwnOf[Emu][b]]]
  BY <1>2, <1>4 DEF Flat!Stored
<1>6. /\ Emu \in DOMAIN OwnOf /\ Emu \in DOMAIN AttrOf
  BY FilesAssumption DEF OwnOf, AttrOf
<1>7. \A b \in Address : OwnOf'[Emu][b] = IF b \in S THEN v[b - a + 1] ELSE OwnOf[Emu][b]
  BY <1>2, <1>5, <1>6, PageIndex DEF Plain
<1>8. \A b \in Address : AttrOf'[Emu][b] = IF b \in S THEN AttrOf[Emu][b] \cup {"VALID", "ACC_W"}
                                           ELSE AttrOf[Emu][b]
  BY <1>4, <1>6
<1>9. Plain'
  BY <1>4 DEF Plain
<1>. QED BY <1>1, <1>4, <1>7, <1>8, <1>9 DEF S

\* A read of a byte that is valid marks it.
LEMMA ReadEffect ==
  ASSUME IInv, Emu \in alive, NEW a \in Address, {"R", "VALID"} \subseteq AttrOf[Emu][a],
         Read(Emu, a, 1)
  PROVE  /\ IInv' /\ alive' = alive /\ OwnOf' = OwnOf /\ LentOf' = LentOf
         /\ \A b \in Address : AttrOf'[Emu][b] = AttrOf[Emu][b] \cup (IF b = a THEN {"ACC_R"} ELSE {})
<1>1. "ACC_R" \in Attr
  BY DEF Attr
<1>2. IInv' /\ Flat!Read(Emu, a, 1, "R", "ACC_R")
  BY <1>1, ReadRunSim, ReadBytesSim DEF Read
<1>3. a \in Nat /\ Size \in Nat /\ a + 1 <= Size /\ a .. a + 1 - 1 = {a}
  BY SizeFacts DEF Address
<1>4. Flat!Span(a, 1) = {a} /\ Flat!Address = Address
  BY <1>3, Straight, FlatSame
<1>5. /\ AttrOf' = [AttrOf EXCEPT ![Emu] = [b \in Address |->
           IF b \in {a} /\ "R" \in AttrOf[Emu][b]
           THEN AttrOf[Emu][b] \cup {"ACC_R"}
                  \cup (IF "VALID" \in AttrOf[Emu][b] THEN {} ELSE {"ACC_INVALID"})
           ELSE AttrOf[Emu][b]]]
      /\ alive' = alive /\ OwnOf' = OwnOf /\ LentOf' = LentOf
  BY <1>2, <1>4 DEF Flat!Read
<1>6. Emu \in DOMAIN AttrOf
  BY FilesAssumption DEF AttrOf
<1>7. \A b \in Address : AttrOf'[Emu][b] = AttrOf[Emu][b] \cup (IF b = a THEN {"ACC_R"} ELSE {})
  BY <1>5, <1>6
<1>. QED BY <1>2, <1>5, <1>7

\* Clearing the statistics leaves permissions and validity.
LEMMA ResetEffect ==
  ASSUME IInv, Emu \in alive, ResetStats(Emu)
  PROVE  /\ IInv' /\ alive' = alive /\ OwnOf' = OwnOf /\ LentOf' = LentOf
         /\ \A b \in Address : AttrOf'[Emu][b] = AttrOf[Emu][b] \cap {"R", "W", "X", "VALID"}
<1>1. IInv' /\ Flat!ResetStats(Emu) /\ Flat!Address = Address
  BY ResetStatsSim, FlatSame
<1>2. Emu \in DOMAIN AttrOf
  BY FilesAssumption DEF AttrOf
<1>. QED BY <1>1, <1>2 DEF Flat!ResetStats

\* The memory of a new machine may be accessed as asked.
LEMMA NewEffect ==
  ASSUME IInv, New(Emu, {"R", "W", "X"})
  PROVE  /\ IInv' /\ Emu \in alive' /\ Plain'
         /\ \A b \in Address : AttrOf'[Emu][b] = {"R", "W", "X"}
<1>1. IInv' /\ Flat!New(Emu, {"R", "W", "X"}) /\ Flat!Address = Address /\ Flat!Page = Page
  <2>1. {"R", "W", "X"} \in SUBSET {"R", "W", "X", "VALID"} /\ Emu \in Mem
    BY FilesAssumption
  <2>. QED BY <2>1, NewSim, FlatSame
<1>2. Emu \in DOMAIN AttrOf /\ Emu \in DOMAIN LentOf
  BY FilesAssumption DEF AttrOf, LentOf
<1>3. Plain' <=> \A p \in Page : LentOf'[Emu][p] = None
  BY DEF Plain
<1>. QED BY <1>1, <1>2, <1>3 DEF Flat!New

\* Where the memory is left alone, all of it is.
LEMMA NoEffect ==
  ASSUME IInv, UNCHANGED vars
  PROVE  /\ IInv' /\ alive' = alive /\ OwnOf' = OwnOf /\ LentOf' = LentOf /\ AttrOf' = AttrOf
BY Stutters DEF Flat!vars

(***************************************************************************)
(* What the file says never changes.                                       *)
(***************************************************************************)
Bottom    == Len(file.bytes)
End       == Bottom + HEAP_SIZE
Addresses == {AddressOf(n) : n \in InCode}
Target(n) == PatchTarget(file.bytes, Relocs[n])

\* What is said of the file alone stays true.
LEMMA FileFixed ==
  ASSUME file' = file, linux' = linux
  PROVE  /\ LaidOut' = LaidOut /\ Bottom' = Bottom /\ End' = End
         /\ Reached' = Reached /\ Relocs' = Relocs /\ Addresses' = Addresses
         /\ \A n : ChangedAt(n)' = ChangedAt(n) /\ Word(n)' = Word(n) /\ Known(n)' = Known(n)
         /\ \A n : Target(n)' = Target(n)
         /\ \A r : FieldOf(r)' = FieldOf(r)
         /\ Heap_PTR_variable' = Heap_PTR_variable /\ Heap_END_variable' = Heap_END_variable
         /\ ChangedBytes' = ChangedBytes
<1>1. \A s : DataOffset(s)' = DataOffset(s)
  BY DEF DataOffset
<1>2. \A x : Named(x)' = Named(x)
  BY DEF Named
<1>3. \A x : Get_Symbol_Section(x)' = Get_Symbol_Section(x)
  BY <1>2 DEF Get_Symbol_Section
<1>4. \A x, s : Get_Symbol_Offset(x, s)' = Get_Symbol_Offset(x, s)
  BY <1>1, <1>2 DEF Get_Symbol_Offset
<1>5. /\ CODE_SECTION_INDEX' = CODE_SECTION_INDEX
      /\ Heap_PTR_variable' = Heap_PTR_variable /\ Heap_END_variable' = Heap_END_variable
  BY <1>3, <1>4 DEF CODE_SECTION_INDEX, DATA_SECTION_INDEX, Heap_PTR_variable, Heap_END_variable
<1>6. Relocs' = Relocs
  BY <1>5 DEF Relocs
<1>7. \A n : Known(n)' = Known(n)
  BY <1>6 DEF Known
<1>8. \A r : FieldOf(r)' = FieldOf(r)
  BY <1>1, <1>5 DEF FieldOf
<1>9. Reached' = Reached
  BY <1>6, <1>7 DEF Reached
<1>10. \A n : ChangedAt(n)' = ChangedAt(n) /\ Word(n)' = Word(n)
  BY <1>5, <1>6, <1>8 DEF ChangedAt, Word
<1>11. ChangedWords' = ChangedWords
  BY <1>9 DEF ChangedWords
<1>17. ChangedBytes' = ChangedBytes
  BY <1>10, <1>11 DEF ChangedBytes
<1>12. InCode' = InCode /\ \A n : AddressOf(n)' = AddressOf(n)
  BY <1>1, <1>3 DEF InCode, AddressOf
<1>13. Addresses' = Addresses
  BY <1>12 DEF Addresses
<1>14. Bottom' = Bottom /\ End' = End
  BY DEF Bottom, End
<1>15. \A n : Target(n)' = Target(n)
  <2>1. \A r : SymbolAddress(r)' = SymbolAddress(r)
    BY <1>12 DEF SymbolAddress
  <2>2. \A r : Addend(file.bytes, r)' = Addend(file.bytes, r)
    BY <1>8 DEF Addend
  <2>. QED BY <1>6, <1>8, <2>1, <2>2 DEF Target, PatchTarget
<1>16. LaidOut' = LaidOut
  <2>1. Apart' = Apart
    BY <1>10, <1>11 DEF Apart
  <2>2. \A n : (file.symbols[n].function /\ \A k \in Named("main") : n <= k)'
                = (file.symbols[n].function /\ \A k \in Named("main") : n <= k)
    BY <1>2
  <2>3. (\E n \in Named("main") : file.symbols[n].function /\ \A k \in Named("main") : n <= k)'
          = (\E n \in Named("main") : file.symbols[n].function /\ \A k \in Named("main") : n <= k)
    BY <1>2, <2>2
  <2>. QED BY <1>12, <1>17, <2>1, <2>3 DEF LaidOut
<1>. QED
  BY <1>5, <1>6, <1>7, <1>8, <1>9, <1>10, <1>11, <1>13, <1>14, <1>15, <1>16, <1>17

\* The numbers of a file.
LEMMA FileTypes ==
  ASSUME file \in Files
  PROVE  /\ file \in ObjectFile /\ Bottom \in Nat /\ End \in Nat /\ End <= Size
         /\ Size \in Nat /\ Size <= WordSize /\ WordSize \in Nat \ {0}
         /\ file.bytes \in Seq(Byte) /\ DOMAIN file.bytes = 1 .. Bottom
         /\ Reached \subseteq DOMAIN Relocs /\ Reached \subseteq Nat \ {0}
         /\ Relocs \in Seq(Relocation)
         /\ \A n \in DOMAIN Relocs : Relocs[n] \in Relocation /\ SymbolAddress(Relocs[n]) \in Nat
                                     /\ FieldOf(Relocs[n]) \in Nat
         /\ \A n \in DOMAIN file.symbols : AddressOf(n) \in Nat
<1>1. file \in ObjectFile /\ Len(file.bytes) + HEAP_SIZE <= Size
  BY FilesAssumption
<1>2. /\ file.bytes \in Seq(Byte) /\ file.sections \in Seq(Section) /\ file.symbols \in Seq(Symbol)
      /\ file.starts \in SUBSET Nat
  BY <1>1 DEF ObjectFile
<1>3. Bottom \in Nat /\ DOMAIN file.bytes = 1 .. Bottom /\ End \in Nat /\ End <= Size
  BY <1>1, <1>2, HeapAssumption DEF Bottom, End
<1>4. Size \in Nat /\ Size <= WordSize /\ WordSize \in Nat \ {0}
  <2>1. WordSize \in Nat \ {0}
    BY WordRoundTrip, 0 \in Int
  <2>. QED BY <2>1, SizeFacts, FilesAssumption
<1>5. \A s : DataOffset(s) \in Nat
  <2>1. \A s \in DOMAIN file.sections : file.sections[s] \in Section
    BY <1>2
  <2>. QED BY <2>1 DEF DataOffset, Section
<1>6. Relocs \in Seq(Relocation) /\ \A n \in DOMAIN Relocs : Relocs[n].symbol \in DOMAIN file.symbols
  <2>1. CASE CODE_SECTION_INDEX \in DOMAIN file.sections
    <3>1. file.sections[CODE_SECTION_INDEX] \in Section
      BY <1>2, <2>1
    <3>2. Relocs = file.sections[CODE_SECTION_INDEX].relocs
      BY <2>1 DEF Relocs
    <3>3. \A n \in DOMAIN file.sections[CODE_SECTION_INDEX].relocs :
            file.sections[CODE_SECTION_INDEX].relocs[n].symbol \in DOMAIN file.symbols
      BY <2>1, FilesAssumption
    <3>. QED BY <3>1, <3>2, <3>3 DEF Section
  <2>2. CASE CODE_SECTION_INDEX \notin DOMAIN file.sections
    BY <2>2 DEF Relocs
  <2>. QED BY <2>1, <2>2
<1>7. \A n \in DOMAIN file.symbols : AddressOf(n) \in Nat
  <2>1. \A n \in DOMAIN file.symbols : file.symbols[n] \in Symbol
    BY <1>2
  <2>. QED BY <1>5, <2>1 DEF AddressOf, Symbol
<1>8. \A n \in DOMAIN Relocs : Relocs[n] \in Relocation
  BY <1>6
<1>9. \A n \in DOMAIN Relocs : SymbolAddress(Relocs[n]) \in Nat
  BY <1>6, <1>7 DEF SymbolAddress
<1>10. \A n \in DOMAIN Relocs : FieldOf(Relocs[n]) \in Nat
  BY <1>5, <1>8 DEF FieldOf, Relocation
<1>11. Reached \subseteq DOMAIN Relocs /\ DOMAIN Relocs \subseteq Nat \ {0}
  BY <1>6 DEF Reached
<1>. QED BY <1>1, <1>2, <1>3, <1>4, <1>6, <1>7, <1>8, <1>9, <1>10, <1>11

\* The words that the loader changes lie in the file and apart.
LEMMA WordsApart ==
  ASSUME file \in Files, LaidOut
  PROVE  /\ 0 \in ChangedWords /\ -1 \in ChangedWords /\ Reached \subseteq ChangedWords
         /\ ChangedAt(0) = Heap_PTR_variable /\ ChangedAt(-1) = Heap_END_variable
         /\ \A n \in Reached : ChangedAt(n) = FieldOf(Relocs[n])
         /\ \A n \in ChangedWords : ChangedAt(n) \in 0 .. Bottom - 4
         /\ \A n, k \in ChangedWords : n # k => Word(n) \cap Word(k) = {}
         /\ Heap_PTR_variable \in 0 .. Bottom - 4 /\ Heap_END_variable \in 0 .. Bottom - 4
<1>1. Reached \subseteq Nat \ {0} /\ Bottom \in Nat
  BY FileTypes
<1>2. 0 \in ChangedWords /\ -1 \in ChangedWords /\ Reached \subseteq ChangedWords
  BY DEF ChangedWords
<1>3. ChangedAt(0) = Heap_PTR_variable /\ ChangedAt(-1) = Heap_END_variable
  BY DEF ChangedAt
<1>4. \A n \in Reached : ChangedAt(n) = FieldOf(Relocs[n])
  BY <1>1 DEF ChangedAt
<1>5. \A n \in ChangedWords : ChangedAt(n) \in 0 .. Bottom - 4
  BY DEF LaidOut, Apart, Bottom
<1>6. ASSUME NEW n \in ChangedWords, NEW k \in ChangedWords, n # k
      PROVE  Word(n) \cap Word(k) = {}
  <2>1. ChangedAt(k) \notin ChangedAt(n) - 3 .. ChangedAt(n) + 3
    BY <1>6 DEF LaidOut, Apart
  <2>2. ChangedAt(n) \in Nat /\ ChangedAt(k) \in Nat
    BY <1>1, <1>5
  <2>. QED BY <2>1, <2>2 DEF Word
<1>. QED BY <1>2, <1>3, <1>4, <1>5, <1>6

\* Functions are where instructions begin, and those lie in the file.
LEMMA StartsInside ==
  ASSUME file \in Files, LaidOut
  PROVE  /\ file.starts \subseteq 0 .. Bottom - 1 /\ file.starts \cap ChangedBytes = {}
         /\ Addresses \subseteq file.starts
         /\ \A f \in Addresses : file.bytes[f + 1] # INT_3
         /\ \A n \in ChangedWords, a \in file.starts : a \notin Word(n)
<1>1. /\ file.starts \subseteq 0 .. Bottom - 1 /\ file.starts \cap ChangedBytes = {}
      /\ Addresses \subseteq file.starts /\ \A f \in Addresses : file.bytes[f + 1] # INT_3
  BY DEF LaidOut, Bottom, Addresses
<1>2. \A n \in ChangedWords, a \in file.starts : a \notin Word(n)
  BY <1>1 DEF ChangedBytes, Bottom
<1>. QED BY <1>1, <1>2

(***************************************************************************)
(* Words.                                                                  *)
(***************************************************************************)
\* A word depends on its four bytes only.
LEMMA WordOfFour ==
  ASSUME NEW b, NEW c, \A k \in 1 .. 4 : b[k] = c[k]
  PROVE  WordOf(b) = WordOf(c)
BY DEF WordOf

\* What a write leaves of the words: its own holds what was written.
LEMMA WordWritten ==
  ASSUME NEW a \in Nat, a + 4 <= Size, NEW x \in Int,
         \A b \in Address : OwnOf'[Emu][b] = IF b \in a .. a + 4 - 1 THEN WordBytes(x)[b - a + 1]
                                             ELSE OwnOf[Emu][b]
  PROVE  WordAt(a)' = x % WordSize
<1>1. \A k \in 1 .. 4 : OwnOf'[Emu][a + k - 1] = WordBytes(x)[k]
  <2>1. SUFFICES ASSUME NEW k \in 1 .. 4 PROVE OwnOf'[Emu][a + k - 1] = WordBytes(x)[k]
    OBVIOUS
  <2>2. a + k - 1 \in Address /\ a + k - 1 \in a .. a + 4 - 1 /\ (a + k - 1) - a + 1 = k
    BY SizeFacts DEF Address
  <2>. QED BY <2>2
<1>2. WordOf([k \in 1 .. 4 |-> OwnOf'[Emu][a + k - 1]]) = WordOf(WordBytes(x))
  BY <1>1, WordOfFour
<1>3. WordAt(a)' = WordOf([k \in 1 .. 4 |-> OwnOf'[Emu][a + k - 1]])
  BY DEF WordAt
<1>. QED BY <1>2, <1>3, WordRoundTrip

\* Words that a write does not meet stay.
LEMMA WordKept ==
  ASSUME NEW c \in Nat, c + 4 <= Size,
         \A b \in c .. c + 3 : OwnOf'[Emu][b] = OwnOf[Emu][b]
  PROVE  WordAt(c)' = WordAt(c)
<1>1. \A k \in 1 .. 4 : OwnOf'[Emu][c + k - 1] = OwnOf[Emu][c + k - 1]
  <2>1. \A k \in 1 .. 4 : c + k - 1 \in c .. c + 3
    OBVIOUS
  <2>. QED BY <2>1
<1>2. WordAt(c)' = WordOf([k \in 1 .. 4 |-> OwnOf'[Emu][c + k - 1]])
  BY DEF WordAt
<1>3. [k \in 1 .. 4 |-> OwnOf'[Emu][c + k - 1]] = [k \in 1 .. 4 |-> OwnOf[Emu][c + k - 1]]
  BY <1>1
<1>. QED BY <1>2, <1>3 DEF WordAt

(***************************************************************************)
(* Patching.                                                               *)
(***************************************************************************)
\* In the code c the fields of the entries S, and nothing else, are patched.
PatchedTo(c, S) ==
  /\ \A n \in S : WordIn(c, ChangedAt(n)) = Target(n) % WordSize
  /\ \A a \in 0 .. Bottom - 1 : (\E n \in S : a \in Word(n)) \/ c[a + 1] = file.bytes[a + 1]

\* What an entry is patched with is a number, and read from its own field.
LEMMA TargetIsInt ==
  ASSUME file \in Files, LaidOut, linux \in BOOLEAN, NEW n \in Reached
  PROVE  /\ Target(n) \in Int
         /\ \A c : c[FieldOf(Relocs[n]) + 1] = file.bytes[FieldOf(Relocs[n]) + 1]
                   => PatchTarget(c, Relocs[n]) = Target(n)
<1>1. n \in DOMAIN Relocs /\ SymbolAddress(Relocs[n]) \in Nat /\ FieldOf(Relocs[n]) \in Nat
  BY FileTypes
<1>2. FieldOf(Relocs[n]) + 1 \in 1 .. Bottom
  BY WordsApart, FileTypes, SMTT(30)
<1>3. file.bytes[FieldOf(Relocs[n]) + 1] \in Nat
  <2>1. file.bytes[FieldOf(Relocs[n]) + 1] \in Byte
    BY <1>2, FileTypes, SMTT(30)
  <2>. QED BY <2>1, SizesAssumption DEF Byte, FF
<1>4. Addend(file.bytes, Relocs[n]) \in Nat
  BY <1>3 DEF Addend
<1>5. Target(n) \in Int
  BY <1>1, <1>4 DEF Target, PatchTarget
<1>6. ASSUME NEW c, c[FieldOf(Relocs[n]) + 1] = file.bytes[FieldOf(Relocs[n]) + 1]
      PROVE  PatchTarget(c, Relocs[n]) = Target(n)
  <2>1. Addend(c, Relocs[n]) = Addend(file.bytes, Relocs[n])
    BY <1>6 DEF Addend
  <2>. QED BY <2>1 DEF Target, PatchTarget
<1>. QED BY <1>5, <1>6

\* Patching one more field keeps what has been patched.
LEMMA PatchStep ==
  ASSUME file \in Files, LaidOut, linux \in BOOLEAN, code \in Seq(Byte), Len(code) = Bottom,
         NEW S \in SUBSET Reached, NEW n \in Reached \ S, PatchedTo(code, S)
  PROVE  /\ Patched(code, Relocs[n]) \in Seq(Byte) /\ Len(Patched(code, Relocs[n])) = Bottom
         /\ PatchedTo(Patched(code, Relocs[n]), S \cup {n})
<1>. DEFINE f == FieldOf(Relocs[n])
            w == WordBytes(Target(n))
            c == Patched(code, Relocs[n])
<1>1. f \in 0 .. Bottom - 4 /\ ChangedAt(n) = f /\ n \in ChangedWords /\ S \subseteq ChangedWords
  BY WordsApart
<1>2. Bottom \in Nat /\ DOMAIN code = 1 .. Bottom /\ \A a \in 1 .. Bottom : code[a] \in Byte
  BY FileTypes
<1>3. Target(n) \in Int /\ PatchTarget(code, Relocs[n]) = Target(n)
  <2>1. \A k \in S : f \notin Word(k)
    <3>1. f \in Word(n)
      BY <1>1 DEF Word
    <3>. QED BY <1>1, <3>1, WordsApart
  <2>2. code[f + 1] = file.bytes[f + 1]
    BY <1>1, <1>2, <2>1 DEF PatchedTo
  <2>. QED BY <2>2, TargetIsInt
<1>4. w \in [1 .. 4 -> Byte] /\ WordOf(w) = Target(n) % WordSize
  BY <1>3, WordRoundTrip
<1>5. c = [a \in 1 .. Bottom |-> IF a - f \in 1 .. 4 THEN w[a - f] ELSE code[a]]
  BY <1>2, <1>3 DEF Patched
<1>. HIDE DEF w, f, c
<1>6. c \in [1 .. Bottom -> Byte]
  BY <1>1, <1>2, <1>4, <1>5
<1>7. c \in Seq(Byte) /\ Len(c) = Bottom
  BY <1>2, <1>6
<1>8. ASSUME NEW k \in S \cup {n} PROVE WordIn(c, ChangedAt(k)) = Target(k) % WordSize
  <2>1. CASE k = n
    <3>1. \A j \in 1 .. 4 : c[f + j] = w[j]
      <4>1. \A j \in 1 .. 4 : f + j \in 1 .. Bottom /\ (f + j) - f = j
        BY <1>1, <1>2
      <4>. QED BY <1>5, <4>1
    <3>2. WordIn(c, f) = WordOf(w)
      BY <3>1 DEF WordIn, WordOf
    <3>. QED BY <1>1, <1>4, <2>1, <3>2
  <2>2. CASE k \in S
    <3>1. Word(k) \cap Word(n) = {} /\ ChangedAt(k) \in 0 .. Bottom - 4
      BY <1>1, <2>2, WordsApart
    <3>. DEFINE g == ChangedAt(k)
    <3>2. \A j \in 1 .. 4 : g + j \in 1 .. Bottom /\ (g + j) - f \notin 1 .. 4
      <4>3. /\ Word(k) = g .. g + 3 /\ Word(n) = f .. f + 3 /\ f \in Nat /\ g \in Nat
            /\ g \in 0 .. Bottom - 4 /\ Bottom \in Nat
        BY <1>1, <1>2, <3>1 DEF Word
      <4>. HIDE DEF g
      <4>4. \A j \in 1 .. 4 : g + j \in 1 .. Bottom
        BY <4>3
      <4>1. SUFFICES ASSUME NEW j \in 1 .. 4, (g + j) - f \in 1 .. 4 PROVE FALSE
        BY <4>4
      <4>2. g + j - 1 \in Word(k) /\ g + j - 1 \in Word(n)
        BY <4>1, <4>3
      <4>. QED BY <3>1, <4>2
    <3>3. \A j \in 1 .. 4 : c[g + j] = code[g + j]
      BY <1>5, <3>2
    <3>4. WordIn(c, g) = WordIn(code, g)
      BY <3>3 DEF WordIn, WordOf
    <3>. QED BY <2>2, <3>4 DEF PatchedTo
  <2>. QED BY <2>1, <2>2
<1>9. ASSUME NEW a \in 0 .. Bottom - 1, \A k \in S \cup {n} : a \notin Word(k)
      PROVE  c[a + 1] = file.bytes[a + 1]
  <2>1. a + 1 \in 1 .. Bottom /\ (a + 1) - f \notin 1 .. 4
    BY <1>1, <1>2, <1>9 DEF Word
  <2>2. c[a + 1] = code[a + 1]
    BY <1>5, <2>1
  <2>. QED BY <1>9, <2>2 DEF PatchedTo
<1>10. PatchedTo(c, S \cup {n})
  BY <1>8, <1>9 DEF PatchedTo
<1>. QED BY <1>7, <1>10 DEF c

(***************************************************************************)
(* The inductive invariant: what holds in each stage of a file that is     *)
(* laid out as one is.                                                     *)
(***************************************************************************)
Basics ==
  /\ IInv /\ linux \in BOOLEAN
  /\ code \in Seq(Byte) /\ Len(code) = Bottom /\ done \in Nat
  /\ stage \in {"file", "no object file", "exit", "patching", "linked", "writing", "stack",
                "listing", "ready"}

AtFile     == code = file.bytes /\ done = 0 /\ function_address = 0
AtPatching == 1 .. done \subseteq Reached /\ PatchedTo(code, 1 .. done) /\ function_address = 0
AtLinked   == /\ PatchedTo(code, Reached) /\ function_address = 0
              /\ functions = [a \in Addresses |-> Unset]

\* The memory below d is written, but for the variables of the heap.
Holds(d) ==
  \A b \in 0 .. Bottom - 1 : b < d => b \in Word(0) \/ b \in Word(-1) \/ OwnOf[Emu][b] = code[b + 1]

Allows(d) ==
  \A b \in 0 .. End - 1 : /\ {"R", "W", "X"} \subseteq AttrOf[Emu][b]
                          /\ b < d => "VALID" \in AttrOf[Emu][b]

Written(d) == Emu \in alive /\ Plain /\ Holds(d) /\ Allows(d)

AtWriting ==
  /\ AtLinked /\ Written(done) /\ done <= End + 2
  /\ done >= End + 1 => WordAt(Heap_PTR_variable) = Bottom
  /\ done = End + 2  => WordAt(Heap_END_variable) = End

AtStack ==
  /\ AtLinked /\ Written(End)
  /\ esp = Bottom + 8 + STACK_SIZE /\ WordAt(Heap_END_variable) = End
  /\ done >= 1 => WordAt(Heap_PTR_variable) = esp
  /\ done >= 2 => WordAt(Bottom) = STACK_SIZE
  /\ done >= 3 => WordAt(Bottom + 4) = 0

Stacked ==
  /\ esp = Bottom + 8 + STACK_SIZE /\ WordAt(Heap_END_variable) = End
  /\ WordAt(Heap_PTR_variable) = esp
  /\ WordAt(Bottom) = STACK_SIZE /\ WordAt(Bottom + 4) = 0

\* The function named last is the last before done, and the ends of the
\* functions are right as far as the listing has come.
NamedLast ==
  /\ \A f \in Addresses : f < done => f <= function_address
  /\ \/ function_address \in Addresses /\ function_address < done
     \/ function_address = 0 /\ (0 \in Addresses => done = 0)

Ret(a)    == file.bytes[a + 1] = RET
RetsOf(f) == {a \in file.starts : /\ a >= f /\ a < done /\ Ret(a)
                                  /\ \A g \in Addresses : g > f => a < g}

Ends(f) == IF RetsOf(f) = {} THEN functions[f] = Unset
           ELSE functions[f] \in RetsOf(f) /\ \A a \in RetsOf(f) : a <= functions[f]

ListingMarks ==
  \A b \in 0 .. End - 1 :
    AttrOf[Emu][b] = {"R", "W", "X", "VALID"}
                       \cup (IF b \in file.starts /\ b < done THEN {"ACC_R"} ELSE {})

AtListing ==
  /\ PatchedTo(code, Reached) /\ Emu \in alive /\ Holds(End) /\ Stacked /\ ListingMarks
  /\ DOMAIN functions = Addresses /\ functions = [f \in Addresses |-> functions[f]]
  /\ NamedLast /\ \A f \in Addresses : Ends(f)

AtReady == AtListing /\ \A a \in file.starts : a < done

Sane ==
  /\ Basics
  /\ stage = "file"     => AtFile
  /\ stage = "patching" => AtPatching
  /\ stage = "linked"   => AtLinked
  /\ stage = "writing"  => AtWriting
  /\ stage = "stack"    => AtStack
  /\ stage = "listing"  => AtListing
  /\ stage = "ready"    => AtReady

LInv == file \in Files /\ (LaidOut => Sane)

(***************************************************************************)
(* One lemma for each action.                                              *)
(***************************************************************************)
\* Before the first entry nothing is patched.
LEMMA InitializeSane ==
  ASSUME file \in Files, LaidOut, Sane, Initialize
  PROVE  Sane'
<1>1. /\ file' = file /\ linux' = linux /\ code' = code /\ done' = done /\ stage = "file"
      /\ function_address' = function_address /\ UNCHANGED vars
      /\ stage' \in {"no object file", "exit", "patching"}
  BY DEF Initialize
<1>2. Bottom' = Bottom /\ Reached' = Reached /\ \A n : Word(n)' = Word(n)
  BY <1>1, FileFixed
<1>3. Basics'
  BY <1>1, <1>2, NoEffect DEF Sane, Basics
<1>4. code = file.bytes /\ done = 0 /\ function_address = 0
  BY <1>1 DEF Sane, AtFile
<1>5. 1 .. done' = {}
  <2>1. done' = 0
    BY <1>1, <1>4
  <2>2. \A n : n \notin 1 .. 0
    OBVIOUS
  <2>. QED BY <2>1, <2>2
<1>6. PatchedTo(code, 1 .. done)'
  <2>1. (\A n \in 1 .. done : WordIn(code, ChangedAt(n)) = Target(n) % WordSize)'
    BY <1>5
  <2>2. (\A a \in 0 .. Bottom - 1 : code[a + 1] = file.bytes[a + 1])'
    BY <1>1, <1>4
  <2>. QED BY <2>1, <2>2 DEF PatchedTo
<1>7. AtPatching'
  BY <1>1, <1>4, <1>5, <1>6 DEF AtPatching
<1>. QED BY <1>1, <1>3, <1>7 DEF Sane

\* The next entry is reached, and its field is apart from those before it.
LEMMA PatchAddress_TargetsSane ==
  ASSUME file \in Files, LaidOut, Sane, PatchAddress_Targets
  PROVE  Sane'
<1>. DEFINE n == done + 1
<1>1. /\ file' = file /\ linux' = linux /\ done' = n /\ stage = "patching" /\ stage' = stage
      /\ function_address' = function_address /\ UNCHANGED vars
      /\ code' = Patched(code, Relocs[n]) /\ Known(n)
  BY DEF PatchAddress_Targets
<1>2. Basics /\ 1 .. done \subseteq Reached /\ PatchedTo(code, 1 .. done) /\ function_address = 0
  BY <1>1 DEF Sane, AtPatching
<1>3. n \in Reached \ 1 .. done /\ (1 .. done) \cup {n} = 1 .. n /\ done \in Nat
  <2>1. n \in DOMAIN Relocs /\ done \in Nat
    BY <1>1, <1>2 DEF Known, Basics
  <2>2. \A k \in 1 .. n : Known(k)
    <3>1. SUFFICES ASSUME NEW k \in 1 .. n, k # n PROVE Known(k)
      BY <1>1
    <3>2. k \in 1 .. done /\ k \in 1 .. k
      BY <2>1, <3>1
    <3>. QED BY <1>2, <3>2 DEF Reached
  <2>3. n \in Reached
    BY <2>1, <2>2 DEF Reached
  <2>4. n \notin 1 .. done /\ (1 .. done) \cup {n} = 1 .. n
    BY <2>1
  <2>. QED BY <2>1, <2>3, <2>4
<1>. HIDE DEF n
<1>4. code' \in Seq(Byte) /\ Len(code') = Bottom /\ PatchedTo(code', 1 .. n)
  BY <1>1, <1>2, <1>3, PatchStep, ZenonT(60) DEF Basics
<1>5. /\ Bottom' = Bottom /\ Reached' = Reached
      /\ \A k : Word(k)' = Word(k) /\ ChangedAt(k)' = ChangedAt(k) /\ Target(k)' = Target(k)
  BY <1>1, FileFixed
<1>6. Basics'
  BY <1>1, <1>2, <1>3, <1>4, <1>5, NoEffect DEF Basics, n
<1>7. PatchedTo(code, 1 .. done)'
  BY <1>1, <1>4, <1>5 DEF PatchedTo
<1>8. AtPatching'
  BY <1>1, <1>2, <1>3, <1>5, <1>7 DEF AtPatching
<1>. QED BY <1>1, <1>6, <1>8 DEF Sane

\* Where the patching ends, all entries that are reached are patched.
LEMMA Get_Function_NamesSane ==
  ASSUME file \in Files, LaidOut, Sane, Get_Function_Names
  PROVE  Sane'
<1>1. /\ file' = file /\ linux' = linux /\ done' = done /\ stage = "patching" /\ stage' = "linked"
      /\ function_address' = function_address /\ UNCHANGED vars /\ code' = code
      /\ ~Known(done + 1) /\ functions' = [a \in Addresses |-> Unset]
  BY DEF Get_Function_Names, Addresses
<1>2. Basics /\ 1 .. done \subseteq Reached /\ PatchedTo(code, 1 .. done) /\ function_address = 0
  BY <1>1 DEF Sane, AtPatching
<1>3. 1 .. done = Reached
  <2>1. SUFFICES ASSUME NEW k \in Reached, k \notin 1 .. done PROVE FALSE
    BY <1>2
  <2>2. k \in Nat \ {0} /\ done \in Nat
    BY <1>2, <2>1, FileTypes DEF Basics
  <2>3. done + 1 \in 1 .. k
    BY <2>1, <2>2
  <2>. QED BY <1>1, <2>1, <2>3 DEF Reached
<1>4. /\ Bottom' = Bottom /\ Reached' = Reached /\ Addresses' = Addresses
      /\ \A k : Word(k)' = Word(k) /\ ChangedAt(k)' = ChangedAt(k) /\ Target(k)' = Target(k)
  BY <1>1, FileFixed
<1>5. Basics'
  BY <1>1, <1>2, <1>4, NoEffect DEF Basics
<1>6. PatchedTo(code, Reached)'
  BY <1>1, <1>2, <1>3, <1>4 DEF PatchedTo
<1>7. AtLinked'
  BY <1>1, <1>2, <1>4, <1>6 DEF AtLinked
<1>. QED BY <1>1, <1>5, <1>7 DEF Sane

\* A new machine is empty, and may be written.
LEMMA Emu_newSane ==
  ASSUME file \in Files, LaidOut, Sane, Emu_new
  PROVE  Sane'
<1>1. /\ file' = file /\ linux' = linux /\ done' = 0 /\ stage = "linked" /\ stage' = "writing"
      /\ function_address' = function_address /\ code' = code /\ functions' = functions
      /\ New(Emu, {"R", "W", "X"})
  BY DEF Emu_new
<1>2. Basics /\ AtLinked
  BY <1>1 DEF Sane
<1>3. IInv' /\ Emu \in alive' /\ Plain' /\ \A b \in Address : AttrOf'[Emu][b] = {"R", "W", "X"}
  BY <1>1, <1>2, NewEffect DEF Basics
<1>4. /\ Bottom' = Bottom /\ End' = End /\ Reached' = Reached /\ Addresses' = Addresses
      /\ \A k : Word(k)' = Word(k) /\ ChangedAt(k)' = ChangedAt(k) /\ Target(k)' = Target(k)
  BY <1>1, FileFixed
<1>5. Basics'
  BY <1>1, <1>2, <1>3, <1>4 DEF Basics
<1>6. PatchedTo(code, Reached)'
  BY <1>1, <1>2, <1>4 DEF PatchedTo, AtLinked
<1>7. AtLinked'
  BY <1>1, <1>2, <1>4, <1>6 DEF AtLinked
<1>8. End \in Nat /\ Bottom \in Nat /\ End <= Size /\ Size \in Nat
  BY FileTypes
<1>9. 0 .. End - 1 \subseteq Address
  BY <1>8 DEF Address
<1>10. Holds(done)'
  BY <1>1, <1>4, <1>8 DEF Holds
<1>11. Allows(done)'
  BY <1>1, <1>3, <1>4, <1>8, <1>9 DEF Allows
<1>12. AtWriting'
  BY <1>1, <1>3, <1>4, <1>7, <1>8, <1>10, <1>11 DEF AtWriting, Written
<1>. QED BY <1>1, <1>5, <1>12 DEF Sane

\* What a write of n bytes to a does to what the memory below d holds.
LEMMA WrittenStep ==
  ASSUME file \in Files, file' = file, linux' = linux, code' = code,
         IInv, NEW d \in Nat, Written(d), NEW a \in Nat, NEW n \in {1, 4}, a + n <= End,
         NEW v \in [1 .. 4 -> Byte], Write(Emu, a, n, v),
         \A b \in a .. a + n - 1 : b < Bottom =>
           b \in Word(0) \/ b \in Word(-1) \/ v[b - a + 1] = code[b + 1]
  PROVE  /\ IInv' /\ Written(d)' /\ (n = 1 /\ a = d => Written(d + 1)')
         /\ a \in Address /\ a + n <= Size
         /\ \A b \in Address : OwnOf'[Emu][b] = IF b \in a .. a + n - 1 THEN v[b - a + 1]
                                                ELSE OwnOf[Emu][b]
<1>1. End \in Nat /\ Bottom \in Nat /\ Bottom <= End /\ End <= Size /\ Size \in Nat
  BY FileTypes, HeapAssumption, SMTT(30) DEF End
<1>2. a \in Address /\ a + n <= Size /\ a .. a + n - 1 \subseteq 0 .. End - 1 /\ 0 .. End - 1 \subseteq Address
  BY <1>1 DEF Address
<1>3. Emu \in alive /\ Plain /\ \A b \in a .. a + n - 1 : "W" \in AttrOf[Emu][b]
  BY <1>2 DEF Written, Allows
<1>4. /\ IInv' /\ alive' = alive /\ Plain'
      /\ \A b \in Address : OwnOf'[Emu][b] = IF b \in a .. a + n - 1 THEN v[b - a + 1]
                                             ELSE OwnOf[Emu][b]
      /\ \A b \in Address : AttrOf'[Emu][b] = IF b \in a .. a + n - 1
                                              THEN AttrOf[Emu][b] \cup {"VALID", "ACC_W"}
                                              ELSE AttrOf[Emu][b]
  BY <1>2, <1>3, WriteEffect, ZenonT(60)
<1>5. /\ Bottom' = Bottom /\ End' = End /\ \A k : Word(k)' = Word(k)
  BY FileFixed
<1>6. ASSUME NEW e \in Nat, e = d \/ (e = d + 1 /\ a = d /\ n = 1)
      PROVE  Holds(e)'
  <2>1. SUFFICES ASSUME NEW b \in 0 .. Bottom - 1, b < e, b \notin Word(0), b \notin Word(-1)
                 PROVE  OwnOf'[Emu][b] = code[b + 1]
    BY <1>5 DEF Holds
  <2>2. b \in Address
    BY <1>1, <2>1 DEF Address
  <2>3. CASE b \in a .. a + n - 1
    BY <1>1, <1>4, <2>1, <2>2, <2>3
  <2>4. CASE b \notin a .. a + n - 1
    <3>1. b < d
      BY <1>1, <1>6, <2>1, <2>4
    <3>2. OwnOf[Emu][b] = code[b + 1]
      BY <2>1, <3>1 DEF Written, Holds
    <3>. QED BY <1>4, <2>2, <2>4, <3>2
  <2>. QED BY <2>3, <2>4
<1>7. ASSUME NEW e \in Nat, e = d \/ (e = d + 1 /\ a = d /\ n = 1)
      PROVE  Allows(e)'
  <2>1. SUFFICES ASSUME NEW b \in 0 .. End - 1
                 PROVE  /\ {"R", "W", "X"} \subseteq AttrOf'[Emu][b]
                        /\ b < e => "VALID" \in AttrOf'[Emu][b]
    BY <1>5 DEF Allows
  <2>2. b \in Address /\ {"R", "W", "X"} \subseteq AttrOf[Emu][b]
        /\ (b < d => "VALID" \in AttrOf[Emu][b])
    BY <1>2 DEF Written, Allows
  <2>3. CASE b \in a .. a + n - 1
    <3>1. AttrOf'[Emu][b] = AttrOf[Emu][b] \cup {"VALID", "ACC_W"}
      BY <1>4, <2>2, <2>3
    <3>. QED BY <2>2, <3>1
  <2>4. CASE b \notin a .. a + n - 1
    <3>1. AttrOf'[Emu][b] = AttrOf[Emu][b]
      BY <1>4, <2>2, <2>4
    <3>2. b < e => b < d
      <4>1. b \in Nat
        BY <1>1, <2>1
      <4>. QED BY <1>7, <2>4, <4>1
    <3>. QED BY <2>2, <3>1, <3>2
  <2>. QED BY <2>3, <2>4
<1>8. Holds(d)' /\ Allows(d)'
  BY <1>6, <1>7
<1>9. ASSUME n = 1, a = d PROVE Holds(d + 1)' /\ Allows(d + 1)'
  BY <1>6, <1>7, <1>9
<1>. QED BY <1>2, <1>3, <1>4, <1>8, <1>9 DEF Written

\* The next byte of the file, or of the heap.
LEMMA Emu_initSane ==
  ASSUME file \in Files, LaidOut, Sane, Emu_init
  PROVE  Sane'
<1>. DEFINE x == IF done < Len(code) THEN code[done + 1] ELSE NOP
<1>1. /\ file' = file /\ linux' = linux /\ stage = "writing" /\ stage' = stage
      /\ function_address' = function_address /\ code' = code /\ functions' = functions
      /\ done < HeapEnd /\ done' = done + 1 /\ Write(Emu, done, 1, WordBytes(x))
  BY DEF Emu_init
<1>2. Basics /\ AtLinked /\ Written(done)
  BY <1>1 DEF Sane, AtWriting
<1>3. /\ End \in Nat /\ Bottom \in Nat /\ End <= Size /\ Size \in Nat /\ done \in Nat
      /\ HeapEnd = End /\ Len(code) = Bottom /\ code \in Seq(Byte)
  BY <1>2, FileTypes DEF HeapEnd, End, Basics
<1>4. x \in Byte /\ x \in Int /\ (done < Bottom => x = code[done + 1])
  <2>1. x \in Byte
    BY <1>3, FilesAssumption
  <2>2. \A u \in Byte : u \in Int
    BY SizesAssumption DEF Byte, FF
  <2>. QED BY <1>3, <2>1, <2>2
<1>. HIDE DEF x
<1>5. WordBytes(x) \in [1 .. 4 -> Byte] /\ WordBytes(x)[1] = x
  BY <1>4, WordRoundTrip
<1>6. \A b \in done .. done + 1 - 1 : b < Bottom => WordBytes(x)[b - done + 1] = code[b + 1]
  <2>1. \A b \in done .. done + 1 - 1 : b = done /\ b - done + 1 = 1
    BY <1>3
  <2>. QED BY <1>4, <1>5, <2>1
<1>15. PICK d \in Nat : d = done
  BY <1>3
<1>7. IInv' /\ Written(d + 1)'
  <2>1. d + 1 <= End /\ Written(d)
    BY <1>1, <1>2, <1>3, <1>15
  <2>. DEFINE one == 1
  <2>2. one = 1 /\ one \in {1, 4}
    OBVIOUS
  <2>. HIDE DEF one
  <2>. QED BY <1>1, <1>2, <1>3, <1>5, <1>6, <1>15, <2>1, <2>2, WrittenStep DEF Basics
<1>8. /\ Bottom' = Bottom /\ End' = End /\ Reached' = Reached /\ Addresses' = Addresses
      /\ \A k : Word(k)' = Word(k) /\ ChangedAt(k)' = ChangedAt(k) /\ Target(k)' = Target(k)
  BY <1>1, FileFixed
<1>9. Basics'
  BY <1>1, <1>2, <1>3, <1>7, <1>8 DEF Basics
<1>10. PatchedTo(code, Reached)'
  BY <1>1, <1>2, <1>8 DEF PatchedTo, AtLinked
<1>11. AtLinked'
  BY <1>1, <1>2, <1>8, <1>10 DEF AtLinked
<1>12. Written(done)'
  BY <1>1, <1>7, <1>15
<1>13. done' <= End
  BY <1>1, <1>3
<1>14. AtWriting'
  BY <1>1, <1>3, <1>8, <1>11, <1>12, <1>13 DEF AtWriting
<1>. QED BY <1>1, <1>9, <1>14 DEF Sane

\* Numbers below WordSize fit into a word.
LEMMA FitsWord ==
  ASSUME file \in Files, NEW x \in 0 .. End
  PROVE  x \in Int /\ x % WordSize = x
<1>1. End \in Nat /\ End < WordSize /\ WordSize \in Nat \ {0}
  BY FileTypes, FilesAssumption DEF End, Bottom
<1>2. x \in 0 .. WordSize - 1 /\ x \in Int
  BY <1>1
<1>3. (0 * WordSize + x) % WordSize = x /\ 0 * WordSize + x = x
  BY <1>1, <1>2, ModUnique
<1>. QED BY <1>2, <1>3

\* What a write of the number x to the word at a does, if the word is not of
\* the file or is a variable of the heap.
LEMMA WordStep ==
  ASSUME file \in Files, file' = file, linux' = linux, code' = code,
         IInv, NEW d \in Nat, Written(d), NEW a \in Nat, a + 4 <= End, NEW x \in 0 .. End,
         Write(Emu, a, 4, WordBytes(x)),
         a >= Bottom \/ a .. a + 3 \subseteq Word(0) \/ a .. a + 3 \subseteq Word(-1)
  PROVE  /\ IInv' /\ Written(d)' /\ WordAt(a)' = x
         /\ \A c \in Nat : c + 4 <= End /\ (c + 4 <= a \/ a + 4 <= c) => WordAt(c)' = WordAt(c)
<1>. DEFINE v == WordBytes(x)
<1>1. End \in Nat /\ Bottom \in Nat /\ End <= Size /\ Size \in Nat /\ Bottom <= End
  BY FileTypes, HeapAssumption, SMTT(30) DEF End
<1>2. x \in Int /\ x % WordSize = x
  BY FitsWord
<1>3. v \in [1 .. 4 -> Byte]
  BY <1>2, WordRoundTrip
<1>. HIDE DEF v
<1>4. \A b \in a .. a + 4 - 1 : b < Bottom => b \in Word(0) \/ b \in Word(-1)
  <2>1. a .. a + 4 - 1 = a .. a + 3
    OBVIOUS
  <2>2. CASE a >= Bottom
    BY <1>1, <2>1, <2>2
  <2>3. CASE a .. a + 3 \subseteq Word(0) \/ a .. a + 3 \subseteq Word(-1)
    BY <2>1, <2>3
  <2>. QED BY <2>2, <2>3
<1>5. Write(Emu, a, 4, v)
  BY DEF v
<1>. DEFINE n == 4
<1>6. n = 4 /\ n \in {1, 4}
  OBVIOUS
<1>. HIDE DEF n
<1>7. IInv' /\ Written(d)' /\ a + n <= Size
      /\ \A b \in Address : OwnOf'[Emu][b] = IF b \in a .. a + n - 1 THEN v[b - a + 1]
                                             ELSE OwnOf[Emu][b]
  BY <1>3, <1>4, <1>5, <1>6, WrittenStep
<1>8. \A b \in Address : OwnOf'[Emu][b] = IF b \in a .. a + 4 - 1 THEN v[b - a + 1]
                                          ELSE OwnOf[Emu][b]
  BY <1>6, <1>7
<1>9. WordAt(a)' = x
  <2>1. a + 4 <= Size
    BY <1>1
  <2>2. WordAt(a)' = x % WordSize
    BY <1>2, <1>8, <2>1, WordWritten DEF v
  <2>. QED BY <1>2, <2>2
<1>10. ASSUME NEW c \in Nat, c + 4 <= End, c + 4 <= a \/ a + 4 <= c
       PROVE  WordAt(c)' = WordAt(c)
  <2>1. c + 4 <= Size
    BY <1>1, <1>10
  <2>2. \A b \in c .. c + 3 : b \in Address /\ b \notin a .. a + 4 - 1
    BY <1>1, <1>10, <2>1 DEF Address
  <2>3. \A b \in c .. c + 3 : OwnOf'[Emu][b] = OwnOf[Emu][b]
    BY <1>8, <2>2
  <2>. QED BY <2>1, <2>3, WordKept
<1>. QED BY <1>7, <1>9, <1>10

\* Where the words are.
LEMMA HeapVariables ==
  ASSUME file \in Files, LaidOut
  PROVE  /\ Bottom \in Nat /\ End \in Nat /\ Bottom + 8 + STACK_SIZE <= End /\ STACK_SIZE \in Nat
         /\ Heap_PTR_variable \in Nat /\ Heap_PTR_variable + 4 <= Bottom
         /\ Heap_END_variable \in Nat /\ Heap_END_variable + 4 <= Bottom
         /\ \/ Heap_PTR_variable + 4 <= Heap_END_variable
            \/ Heap_END_variable + 4 <= Heap_PTR_variable
         /\ Heap_PTR_variable .. Heap_PTR_variable + 3 = Word(0)
         /\ Heap_END_variable .. Heap_END_variable + 3 = Word(-1)
<1>. DEFINE p == Heap_PTR_variable
            e == Heap_END_variable
<1>1. Bottom \in Nat /\ End \in Nat /\ Bottom + 8 + STACK_SIZE <= End /\ STACK_SIZE \in Nat
  BY FileTypes, HeapAssumption DEF End
<1>2. p \in 0 .. Bottom - 4 /\ e \in 0 .. Bottom - 4 /\ Word(0) \cap Word(-1) = {}
  BY WordsApart
<1>3. p .. p + 3 = Word(0) /\ e .. e + 3 = Word(-1)
  BY WordsApart DEF Word
<1>. HIDE DEF p, e
<1>4. p + 4 <= e \/ e + 4 <= p
  <2>1. SUFFICES ASSUME ~(p + 4 <= e), ~(e + 4 <= p) PROVE FALSE
    OBVIOUS
  <2>2. CASE p <= e
    <3>1. e \in p .. p + 3 /\ e \in e .. e + 3
      BY <1>1, <1>2, <2>1, <2>2
    <3>. QED BY <1>2, <1>3, <3>1
  <2>3. CASE e <= p
    <3>1. p \in p .. p + 3 /\ p \in e .. e + 3
      BY <1>1, <1>2, <2>1, <2>3
    <3>. QED BY <1>2, <1>3, <3>1
  <2>. QED BY <1>1, <1>2, <2>2, <2>3
<1>. QED BY <1>1, <1>2, <1>3, <1>4 DEF p, e

\* The variables of the heap, which are apart.
LEMMA WriteHeapVariableSane ==
  ASSUME file \in Files, LaidOut, Sane, WriteHeapVariable
  PROVE  Sane'
<1>12. PICK p \in Nat, e \in Nat, bot \in Nat, top \in Nat, d \in Nat :
         /\ p = Heap_PTR_variable /\ e = Heap_END_variable /\ bot = Bottom /\ top = End /\ d = done
  BY HeapVariables DEF Sane, Basics
<1>1. /\ file' = file /\ linux' = linux /\ stage = "writing" /\ stage' = stage
      /\ function_address' = function_address /\ code' = code /\ functions' = functions
      /\ done' = done + 1
      /\ \/ done = HeapEnd     /\ Write(Emu, p, 4, WordBytes(Len(code)))
         \/ done = HeapEnd + 1 /\ Write(Emu, e, 4, WordBytes(HeapEnd))
  BY <1>12 DEF WriteHeapVariable
<1>2. Basics /\ AtLinked /\ Written(done) /\ (done >= End + 1 => WordAt(p) = Bottom)
  BY <1>1, <1>12 DEF Sane, AtWriting
<1>3. HeapEnd = End /\ Len(code) = Bottom /\ done \in Nat
  BY <1>2 DEF HeapEnd, End, Basics
<1>4. /\ Bottom' = Bottom /\ End' = End /\ Reached' = Reached /\ Addresses' = Addresses
      /\ \A k : Word(k)' = Word(k) /\ ChangedAt(k)' = ChangedAt(k) /\ Target(k)' = Target(k)
      /\ Heap_PTR_variable' = p /\ Heap_END_variable' = e
  BY <1>1, <1>12, FileFixed
<1>5. PatchedTo(code, Reached)'
  BY <1>1, <1>2, <1>4 DEF PatchedTo, AtLinked
<1>6. AtLinked'
  BY <1>1, <1>2, <1>4, <1>5 DEF AtLinked
<1>7. /\ top \in 0 .. End /\ bot \in 0 .. End
      /\ p + 4 <= End /\ e + 4 <= End
      /\ p + 4 <= e \/ e + 4 <= p
      /\ p .. p + 3 = Word(0) /\ e .. e + 3 = Word(-1)
  BY <1>12, HeapVariables
<1>9. IInv /\ Written(d)
  BY <1>2, <1>12 DEF Basics
<1>13. End \in Nat
  BY FileTypes
<1>10. CASE done = End /\ Write(Emu, p, 4, WordBytes(bot))
  <2>1. IInv' /\ Written(d)' /\ WordAt(p)' = bot
    BY <1>1, <1>7, <1>9, <1>10, WordStep
  <2>2. Written(done)'
      BY <1>1, <1>4, <1>7, <1>12, <1>10, <2>1 DEF Written, Holds, Allows
  <2>. HIDE DEF AtLinked
  <2>3. WordAt(Heap_PTR_variable)' = bot
    BY <1>4, <2>1
  <2>4. Basics'
    BY <1>1, <1>2, <1>3, <1>4, <2>1 DEF Basics
  <2>5. AtWriting'
    BY <1>1, <1>3, <1>4, <1>6, <1>10, <1>12, <1>13, <2>2, <2>3 DEF AtWriting
  <2>. QED BY <1>1, <2>4, <2>5 DEF Sane
<1>11. CASE done = End + 1 /\ Write(Emu, e, 4, WordBytes(top))
  <2>1. IInv' /\ Written(d)' /\ WordAt(e)' = top /\ WordAt(p)' = WordAt(p)
    BY <1>1, <1>7, <1>9, <1>11, WordStep
  <2>2. Written(done)'
    BY <1>1, <1>4, <1>7, <1>12, <1>11, <2>1 DEF Written, Holds, Allows
  <2>3. WordAt(p) = bot
    BY <1>2, <1>3, <1>11, <1>12
  <2>4. WordAt(Heap_PTR_variable)' = bot /\ WordAt(Heap_END_variable)' = top
    BY <1>4, <2>1, <2>3
  <2>5. Basics'
    BY <1>1, <1>2, <1>3, <1>4, <2>1 DEF Basics
  <2>6. AtWriting'
    BY <1>1, <1>3, <1>4, <1>6, <1>11, <1>12, <1>13, <2>2, <2>4 DEF AtWriting
  <2>. QED BY <1>1, <2>5, <2>6 DEF Sane
<1>. QED BY <1>1, <1>3, <1>10, <1>11, <1>12

\* The heap is big enough for the stack, so that it is allocated at its bottom.
LEMMA AllocateStackSane ==
  ASSUME file \in Files, LaidOut, Sane, AllocateStack
  PROVE  Sane'
<1>1. /\ file' = file /\ linux' = linux /\ stage = "writing" /\ stage' = "stack"
      /\ function_address' = function_address /\ code' = code /\ functions' = functions
      /\ done = HeapEnd + 2 /\ done' = 0 /\ UNCHANGED vars
      /\ esp' = STACK_SIZE + IF WordAt(Heap_PTR_variable) + STACK_SIZE + 8 <= WordAt(Heap_END_variable)
                             THEN WordAt(Heap_PTR_variable) + 8 ELSE 0
  BY DEF AllocateStack
<1>2. Basics /\ AtWriting
  BY <1>1 DEF Sane
<1>3. /\ Bottom \in Nat /\ End \in Nat /\ Bottom + 8 + STACK_SIZE <= End /\ STACK_SIZE \in Nat
      /\ HeapEnd = End
  BY <1>2, HeapVariables DEF HeapEnd, End, Basics
<1>4. WordAt(Heap_PTR_variable) = Bottom /\ WordAt(Heap_END_variable) = End
  BY <1>1, <1>2, <1>3 DEF AtWriting
<1>5. esp' = Bottom + 8 + STACK_SIZE
  BY <1>1, <1>3, <1>4
<1>6. /\ Bottom' = Bottom /\ End' = End /\ Reached' = Reached /\ Addresses' = Addresses
      /\ \A k : Word(k)' = Word(k) /\ ChangedAt(k)' = ChangedAt(k) /\ Target(k)' = Target(k)
      /\ Heap_END_variable' = Heap_END_variable
  BY <1>1, FileFixed
<1>7. IInv' /\ alive' = alive /\ OwnOf' = OwnOf /\ LentOf' = LentOf /\ AttrOf' = AttrOf
  BY <1>1, <1>2, NoEffect DEF Basics
<1>8. PatchedTo(code, Reached)'
  BY <1>1, <1>2, <1>6 DEF PatchedTo, AtLinked, AtWriting
<1>9. AtLinked'
  BY <1>1, <1>2, <1>6, <1>8 DEF AtLinked, AtWriting
<1>10. Written(End)
  <2>1. Written(done) /\ done = End + 2
    BY <1>1, <1>2, <1>3 DEF AtWriting
  <2>2. Holds(End)
    BY <1>3, <2>1 DEF Written, Holds
  <2>3. Allows(End)
    BY <1>3, <2>1 DEF Written, Allows
  <2>. QED BY <2>1, <2>2, <2>3 DEF Written
<1>11. Written(End)'
  <2>1. Plain'
    BY <1>7, <1>10 DEF Written, Plain
  <2>2. Holds(End)'
    BY <1>1, <1>6, <1>7, <1>10 DEF Written, Holds
  <2>3. Allows(End)'
    BY <1>6, <1>7, <1>10 DEF Written, Allows
  <2>. QED BY <1>7, <1>10, <2>1, <2>2, <2>3 DEF Written
<1>12. WordAt(Heap_END_variable)' = End
  BY <1>4, <1>6, <1>7 DEF WordAt
<1>13. Basics'
  BY <1>1, <1>2, <1>6, <1>7 DEF Basics
<1>14. AtStack'
  BY <1>1, <1>5, <1>6, <1>9, <1>11, <1>12 DEF AtStack
<1>. QED BY <1>1, <1>13, <1>14 DEF Sane

\* The block of the stack: the end of the allocated heap, the size and the
\* link of the block, which lie behind the file.
LEMMA WriteBlockSane ==
  ASSUME file \in Files, LaidOut, Sane, WriteBlock
  PROVE  Sane'
<1>1. PICK p \in Nat, e \in Nat, bot \in Nat, top \in Nat, d \in Nat :
        /\ p = Heap_PTR_variable /\ e = Heap_END_variable /\ bot = Bottom /\ top = End /\ d = done
  BY HeapVariables DEF Sane, Basics
<1>2. /\ file' = file /\ linux' = linux /\ stage = "stack" /\ stage' = stage
      /\ function_address' = function_address /\ code' = code /\ functions' = functions
      /\ done' = done + 1 /\ esp' = esp
  BY DEF WriteBlock
<1>3. Basics /\ AtStack
  BY <1>2 DEF Sane
<1>4. /\ bot + 8 + STACK_SIZE <= top /\ STACK_SIZE \in Nat
      /\ p + 4 <= bot /\ e + 4 <= bot /\ (p + 4 <= e \/ e + 4 <= p)
      /\ p .. p + 3 = Word(0) /\ e .. e + 3 = Word(-1)
  BY <1>1, HeapVariables
<1>5. PICK s \in Nat : s = esp /\ s = bot + 8 + STACK_SIZE
  BY <1>1, <1>3, <1>4 DEF AtStack
<1>6. \/ d = 0 /\ Write(Emu, p, 4, WordBytes(s))
      \/ d = 1 /\ Write(Emu, bot, 4, WordBytes(STACK_SIZE))
      \/ d = 2 /\ Write(Emu, bot + 4, 4, WordBytes(0))
  <2>1. esp - STACK_SIZE - 8 = bot
    BY <1>4, <1>5
  <2>. QED BY <1>1, <1>5, <2>1 DEF WriteBlock
<1>7. IInv /\ Written(top)
  BY <1>1, <1>3 DEF Basics, AtStack
<1>8. /\ Bottom' = bot /\ End' = top /\ Reached' = Reached /\ Addresses' = Addresses
      /\ \A k : Word(k)' = Word(k) /\ ChangedAt(k)' = ChangedAt(k) /\ Target(k)' = Target(k)
      /\ Heap_PTR_variable' = p /\ Heap_END_variable' = e
  BY <1>1, <1>2, FileFixed
<1>9. PatchedTo(code, Reached)'
  BY <1>1, <1>2, <1>3, <1>8 DEF PatchedTo, AtLinked, AtStack
<1>10. AtLinked'
  BY <1>2, <1>3, <1>8, <1>9 DEF AtLinked, AtStack
<1>11. /\ WordAt(e) = top
       /\ d >= 1 => WordAt(p) = s
       /\ d >= 2 => WordAt(bot) = STACK_SIZE
  BY <1>1, <1>3, <1>5 DEF AtStack
\* What has to be shown of the memory, with names that do not change.
<1>. DEFINE q == bot + 4
<1>12. ASSUME /\ IInv' /\ Written(top)' /\ WordAt(e)' = top
              /\ WordAt(p)' = s
              /\ d >= 1 => WordAt(bot)' = STACK_SIZE
              /\ d >= 2 => WordAt(q)' = 0
              /\ d <= 2
       PROVE  Sane'
  <2>1. Basics'
    BY <1>1, <1>2, <1>3, <1>8, <1>12 DEF Basics
  <2>2. /\ Written(End)' /\ WordAt(Heap_END_variable)' = End' /\ WordAt(Heap_PTR_variable)' = s
    BY <1>8, <1>12
  <2>3. /\ done' >= 2 => WordAt(Bottom)' = STACK_SIZE
        /\ done' >= 3 => WordAt(Bottom + 4)' = 0
    BY <1>1, <1>2, <1>8, <1>12
  <2>4. esp' = Bottom' + 8 + STACK_SIZE /\ esp' = s
    BY <1>2, <1>5, <1>8
  <2>5. AtStack'
    BY <1>10, <2>2, <2>3, <2>4 DEF AtStack
  <2>. QED BY <1>2, <2>1, <2>5 DEF Sane
<1>13. s \in 0 .. End /\ STACK_SIZE \in 0 .. End /\ 0 \in 0 .. End
  BY <1>1, <1>4, <1>5
<1>14. CASE d = 0 /\ Write(Emu, p, 4, WordBytes(s))
  <2>1. /\ IInv' /\ Written(top)' /\ WordAt(p)' = s
        /\ \A c \in Nat : c + 4 <= End /\ (c + 4 <= p \/ p + 4 <= c) => WordAt(c)' = WordAt(c)
    <3>1. p + 4 <= End
      BY <1>1, <1>4
    <3>. QED BY <1>2, <1>4, <1>7, <1>13, <1>14, <3>1, WordStep
  <2>2. WordAt(e)' = WordAt(e)
    <3>1. e + 4 <= End
      BY <1>1, <1>4
    <3>. QED BY <1>4, <2>1, <3>1
  <2>. QED BY <1>11, <1>12, <1>14, <2>1, <2>2
<1>15. CASE d = 1 /\ Write(Emu, bot, 4, WordBytes(STACK_SIZE))
  <2>1. /\ IInv' /\ Written(top)' /\ WordAt(bot)' = STACK_SIZE
        /\ \A c \in Nat : c + 4 <= End /\ (c + 4 <= bot \/ bot + 4 <= c) => WordAt(c)' = WordAt(c)
    <3>1. bot + 4 <= End /\ bot >= Bottom
      BY <1>1, <1>4
    <3>. QED BY <1>2, <1>7, <1>13, <1>15, <3>1, WordStep
  <2>2. WordAt(e)' = WordAt(e) /\ WordAt(p)' = WordAt(p)
    <3>1. e + 4 <= End /\ p + 4 <= End
      BY <1>1, <1>4
    <3>. QED BY <1>4, <2>1, <3>1
  <2>. QED BY <1>11, <1>12, <1>15, <2>1, <2>2
<1>16. CASE d = 2 /\ Write(Emu, q, 4, WordBytes(0))
  <2>0. q \in Nat /\ q = bot + 4 /\ q + 4 <= End /\ q >= Bottom
    BY <1>1, <1>4
  <2>. HIDE DEF q
  <2>1. /\ IInv' /\ Written(top)' /\ WordAt(q)' = 0
        /\ \A c \in Nat : c + 4 <= End /\ (c + 4 <= q \/ q + 4 <= c) => WordAt(c)' = WordAt(c)
    BY <1>2, <1>7, <1>13, <1>16, <2>0, WordStep
  <2>2. WordAt(e)' = WordAt(e) /\ WordAt(p)' = WordAt(p) /\ WordAt(bot)' = WordAt(bot)
    <3>1. /\ e + 4 <= End /\ p + 4 <= End /\ bot + 4 <= End
          /\ e + 4 <= q /\ p + 4 <= q /\ bot + 4 <= q
      BY <1>1, <1>4, <2>0
    <3>. QED BY <2>1, <3>1
  <2>. QED BY <1>11, <1>12, <1>16, <2>1, <2>2
<1>. QED BY <1>6, <1>14, <1>15, <1>16

\* The listing begins with the marks cleared.
LEMMA Find_FunctionSane ==
  ASSUME file \in Files, LaidOut, Sane, Find_Function
  PROVE  Sane'
<1>1. /\ file' = file /\ linux' = linux /\ stage = "stack" /\ (Allocated => done = 3)
      /\ function_address' = function_address /\ code' = code /\ functions' = functions
      /\ done' = 0 /\ esp' = esp
      /\ \/ stage' = "listing" /\ ResetStats(Emu)
         \/ stage' = "exit" /\ UNCHANGED vars
  BY DEF Find_Function
<1>2. Basics /\ AtStack
  BY <1>1 DEF Sane
<1>3. /\ Bottom' = Bottom /\ End' = End /\ Reached' = Reached /\ Addresses' = Addresses
      /\ \A k : Word(k)' = Word(k) /\ ChangedAt(k)' = ChangedAt(k) /\ Target(k)' = Target(k)
      /\ Heap_PTR_variable' = Heap_PTR_variable /\ Heap_END_variable' = Heap_END_variable
  BY <1>1, FileFixed
<1>4. CASE stage' = "exit" /\ UNCHANGED vars
  <2>1. Basics'
    BY <1>1, <1>2, <1>3, <1>4, NoEffect DEF Basics
  <2>. QED BY <1>4, <2>1 DEF Sane
<1>5. CASE stage' = "listing" /\ ResetStats(Emu)
  <2>1. Emu \in alive /\ IInv
    BY <1>2 DEF AtStack, Written, Basics
  <2>2. /\ IInv' /\ alive' = alive /\ OwnOf' = OwnOf
        /\ \A b \in Address : AttrOf'[Emu][b] = AttrOf[Emu][b] \cap {"R", "W", "X", "VALID"}
    BY <1>5, <2>1, ResetEffect
  <2>3. Basics'
    BY <1>1, <1>2, <1>3, <1>5, <2>2 DEF Basics
  <2>4. PatchedTo(code, Reached)'
    BY <1>1, <1>2, <1>3 DEF PatchedTo, AtLinked, AtStack
  <2>5. Holds(End)'
    BY <1>1, <1>2, <1>3, <2>2 DEF Holds, AtStack, Written
  <2>6. Stacked'
    <3>1. Bottom \in Nat /\ STACK_SIZE \in Nat
      BY HeapVariables
    <3>2. done = 3
      BY <1>1, <1>2, <3>1 DEF AtStack, Allocated
    <3>3. Stacked
      BY <1>2, <3>2 DEF AtStack, Stacked
    <3>4. \A c : WordAt(c)' = WordAt(c)
      BY <2>2 DEF WordAt
    <3>. QED BY <1>1, <1>3, <3>3, <3>4 DEF Stacked
  <2>7. ListingMarks'
    <3>1. SUFFICES ASSUME NEW b \in 0 .. End - 1
                   PROVE  AttrOf'[Emu][b] = {"R", "W", "X", "VALID"}
                                              \cup (IF b \in file.starts /\ b < 0 THEN {"ACC_R"} ELSE {})
      BY <1>1, <1>3 DEF ListingMarks
    <3>2. b \in Address /\ ~(b < 0)
      BY FileTypes DEF Address
    <3>3. {"R", "W", "X", "VALID"} \subseteq AttrOf[Emu][b]
      <4>1. b < End
        BY FileTypes
      <4>. QED BY <1>2, <4>1 DEF AtStack, Written, Allows
    <3>. QED BY <2>2, <3>2, <3>3
  <2>8. functions = [a \in Addresses |-> Unset] /\ function_address = 0
    BY <1>2 DEF AtStack, AtLinked
  <2>9. Addresses \subseteq Nat
    BY StartsInside
  <2>10. NamedLast'
    BY <1>1, <1>3, <2>8, <2>9 DEF NamedLast
  <2>11. \A f : RetsOf(f)' = {}
    BY <1>1, FilesAssumption DEF RetsOf, ObjectFile
  <2>12. (\A f \in Addresses : Ends(f))'
    BY <1>1, <1>3, <2>8, <2>11 DEF Ends
  <2>13. DOMAIN functions' = Addresses' /\ functions' = [f \in Addresses' |-> functions'[f]]
    BY <1>1, <1>3, <2>8
  <2>14. AtListing'
    BY <1>1, <2>1, <2>2, <2>4, <2>5, <2>6, <2>7, <2>10, <2>12, <2>13 DEF AtListing
  <2>. QED BY <1>5, <2>3, <2>14 DEF Sane
<1>. QED BY <1>1, <1>4, <1>5

\* The next instruction belongs to the function named last, and to no other.
LEMMA NextBelongs ==
  ASSUME file \in Files, LaidOut, NamedLast, done \in Nat, NEW a \in file.starts, a >= done,
         \A b \in file.starts : b >= done => a <= b,
         NEW fa, fa = IF a \in Addresses THEN a ELSE function_address
  PROVE  /\ \A f \in Addresses : (a >= f /\ \A g \in Addresses : g > f => a < g) <=> f = fa
         /\ \A f \in Addresses : f < a + 1 => f <= fa
         /\ \/ fa \in Addresses /\ fa < a + 1
            \/ fa = 0 /\ 0 \notin Addresses
<1>1. file.starts \subseteq Nat /\ Addresses \subseteq file.starts
  BY StartsInside, FileTypes
<1>2. a \in Nat /\ Addresses \subseteq Nat
  BY <1>1
<1>3. \A g \in Addresses : g < done \/ a <= g
  BY <1>1, <1>2
<1>4. CASE a \in Addresses
  <2>1. fa = a
    BY <1>4
  <2>2. ASSUME NEW f \in Addresses
        PROVE  (a >= f /\ \A g \in Addresses : g > f => a < g) <=> f = fa
    BY <1>2, <1>4, <2>1, <2>2
  <2>. QED BY <1>2, <1>4, <2>1, <2>2
<1>5. CASE a \notin Addresses
  <2>1. fa = function_address
    BY <1>5
  <2>2. /\ \A f \in Addresses : f < done => f <= fa
        /\ \/ fa \in Addresses /\ fa < done
           \/ fa = 0 /\ (0 \in Addresses => done = 0)
    BY <2>1 DEF NamedLast
  <2>3. \A f \in Addresses : f < a + 1 => f < done
    BY <1>2, <1>3, <1>5
  <2>4. 0 \in Addresses => done # 0
    <3>1. SUFFICES ASSUME 0 \in Addresses, done = 0 PROVE FALSE
      OBVIOUS
    <3>2. a <= 0
      BY <1>1, <3>1
    <3>. QED BY <1>2, <1>5, <3>1, <3>2
  <2>5. \/ fa \in Addresses /\ fa < done
        \/ fa = 0 /\ 0 \notin Addresses
    BY <2>2, <2>4
  <2>6. ASSUME NEW f \in Addresses, a >= f, \A g \in Addresses : g > f => a < g
        PROVE  f = fa
    <3>1. f < done /\ f <= fa /\ f \in Nat
      BY <1>2, <2>2, <2>3, <2>6
    <3>2. fa \in Addresses /\ fa < done
      BY <1>2, <2>5, <2>6, <3>1
    <3>3. ~(fa > f)
      BY <1>2, <2>6, <3>2
    <3>. QED BY <1>2, <3>1, <3>2, <3>3
  <2>7. ASSUME NEW f \in Addresses, f = fa
        PROVE  a >= f /\ \A g \in Addresses : g > f => a < g
    <3>1. f < done
      BY <2>5, <2>7
    <3>2. ASSUME NEW g \in Addresses, g > f PROVE a < g
      <4>1. ~(g < done)
        BY <1>2, <2>2, <2>7, <3>2
      <4>2. a <= g /\ a # g
        BY <1>3, <1>5, <4>1
      <4>. QED BY <1>2, <4>2
    <3>. QED BY <1>2, <3>1, <3>2
  <2>8. fa \in Addresses /\ fa < done => fa < a + 1
    <3>1. \A u, d, b \in Nat : u < d /\ b >= d => u < b + 1
      OBVIOUS
    <3>. QED BY <1>2, <3>1
  <2>. QED BY <2>2, <2>3, <2>5, <2>6, <2>7, <2>8
<1>. QED BY <1>4, <1>5

\* An instruction leaves the ends of the functions right.
LEMMA Disassembly_ListingSane ==
  ASSUME file \in Files, LaidOut, Sane, Disassembly_Listing
  PROVE  Sane'
<1>1. PICK a \in file.starts :
        /\ a >= done /\ \A b \in file.starts : b >= done => a <= b
        /\ Read(Emu, a, 1)
        /\ done' = a + 1
        /\ function_address' = IF Opcode(a) # INT_3 /\ a \in DOMAIN functions
                               THEN a ELSE function_address
        /\ functions' = IF Opcode(a) = RET /\ function_address' \in DOMAIN functions
                        THEN [functions EXCEPT ![function_address'] = a] ELSE functions
  BY DEF Disassembly_Listing
<1>2. /\ file' = file /\ linux' = linux /\ stage = "listing" /\ stage' = stage
      /\ code' = code /\ esp' = esp
  BY DEF Disassembly_Listing
<1>3. Basics /\ AtListing
  BY <1>2 DEF Sane
<1>4. /\ Bottom' = Bottom /\ End' = End /\ Reached' = Reached /\ Addresses' = Addresses
      /\ \A k : Word(k)' = Word(k) /\ ChangedAt(k)' = ChangedAt(k) /\ Target(k)' = Target(k)
      /\ Heap_PTR_variable' = Heap_PTR_variable /\ Heap_END_variable' = Heap_END_variable
  BY <1>2, FileFixed
<1>5. /\ Bottom \in Nat /\ End \in Nat /\ Bottom <= End /\ End <= Size /\ Size \in Nat
      /\ file.starts \subseteq 0 .. Bottom - 1 /\ Addresses \subseteq file.starts
  <2>1. Bottom \in Nat /\ End \in Nat /\ End <= Size /\ Size \in Nat
    BY FileTypes
  <2>2. Bottom + 8 + STACK_SIZE <= End /\ STACK_SIZE \in Nat
    BY HeapVariables
  <2>3. file.starts \subseteq 0 .. Bottom - 1 /\ Addresses \subseteq file.starts
    BY StartsInside
  <2>. QED BY <2>1, <2>2, <2>3
<1>6. a \in 0 .. End - 1 /\ a \in Address /\ a \in Nat /\ done \in Nat
  <2>1. a \in 0 .. Bottom - 1
    BY <1>5
  <2>2. 0 .. Bottom - 1 \subseteq 0 .. End - 1 /\ 0 .. Bottom - 1 \subseteq Address
        /\ 0 .. Bottom - 1 \subseteq Nat
    BY <1>5 DEF Address
  <2>. QED BY <1>3, <2>1, <2>2 DEF Basics
<1>7. {"R", "VALID"} \subseteq AttrOf[Emu][a]
  BY <1>3, <1>6 DEF AtListing, ListingMarks
<1>8. /\ IInv' /\ alive' = alive /\ OwnOf' = OwnOf
      /\ \A b \in Address : AttrOf'[Emu][b] = AttrOf[Emu][b] \cup (IF b = a THEN {"ACC_R"} ELSE {})
  BY <1>1, <1>3, <1>6, <1>7, ReadEffect DEF Basics, AtListing
<1>9. Opcode(a) = file.bytes[a + 1]
  <2>1. \A n \in ChangedWords : a \notin Word(n)
    BY StartsInside
  <2>2. a \in 0 .. Bottom - 1 /\ a < End
    BY <1>5, <1>6
  <2>3. OwnOf[Emu][a] = code[a + 1]
    BY <1>3, <2>1, <2>2, WordsApart DEF AtListing, Holds
  <2>4. code[a + 1] = file.bytes[a + 1]
    BY <1>3, <2>1, <2>2, WordsApart DEF AtListing, PatchedTo
  <2>. QED BY <2>3, <2>4 DEF Opcode
<1>10. function_address' = IF a \in Addresses THEN a ELSE function_address
  <2>1. a \in Addresses => file.bytes[a + 1] # INT_3
    BY StartsInside
  <2>. QED BY <1>1, <1>3, <1>9, <2>1 DEF AtListing
<1>11. PICK fa : fa = function_address'
  OBVIOUS
<1>12. /\ \A f \in Addresses : (a >= f /\ \A g \in Addresses : g > f => a < g) <=> f = fa
       /\ \A f \in Addresses : f < a + 1 => f <= fa
       /\ \/ fa \in Addresses /\ fa < a + 1
          \/ fa = 0 /\ 0 \notin Addresses
  BY <1>1, <1>3, <1>6, <1>10, <1>11, NextBelongs DEF AtListing
<1>13. functions' = IF Ret(a) /\ fa \in Addresses THEN [functions EXCEPT ![fa] = a] ELSE functions
  BY <1>1, <1>3, <1>9, <1>11 DEF AtListing, Ret
<1>14. Basics'
  BY <1>2, <1>3, <1>4, <1>1, <1>6, <1>8 DEF Basics
<1>15. NamedLast'
  BY <1>1, <1>4, <1>11, <1>12 DEF NamedLast
<1>16. \A b \in file.starts : b < a + 1 <=> (b < done \/ b = a)
  BY <1>1, <1>5, <1>6
<1>17. ListingMarks'
  <2>1. SUFFICES ASSUME NEW b \in 0 .. End - 1
                 PROVE  AttrOf'[Emu][b] = {"R", "W", "X", "VALID"}
                                            \cup (IF b \in file.starts /\ b < a + 1 THEN {"ACC_R"} ELSE {})
    BY <1>1, <1>2, <1>4 DEF ListingMarks
  <2>2. b \in Address
    BY <1>5 DEF Address
  <2>3. AttrOf[Emu][b] = {"R", "W", "X", "VALID"}
                           \cup (IF b \in file.starts /\ b < done THEN {"ACC_R"} ELSE {})
    BY <1>3 DEF AtListing, ListingMarks
  <2>. QED BY <1>8, <1>16, <2>2, <2>3
<1>18. DOMAIN functions' = Addresses' /\ functions' = [f \in Addresses' |-> functions'[f]]
  BY <1>3, <1>4, <1>13 DEF AtListing
<1>19. ASSUME NEW f \in Addresses PROVE Ends(f)'
  <2>1. RetsOf(f)' = RetsOf(f) \cup (IF f = fa /\ Ret(a) THEN {a} ELSE {})
    <3>1. RetsOf(f)' = {b \in file.starts : /\ b >= f /\ b < a + 1 /\ Ret(b)
                                            /\ \A g \in Addresses : g > f => b < g}
      BY <1>1, <1>2, <1>4 DEF RetsOf, Ret
    <3>2. ASSUME NEW b \in file.starts
          PROVE  b \in RetsOf(f)' <=> b \in RetsOf(f) \/ (b = a /\ f = fa /\ Ret(a))
      <4>1. CASE b = a
        <5>1. a \notin RetsOf(f)
          BY <1>1, <1>6 DEF RetsOf
        <5>2. a \in RetsOf(f)' <=> f = fa /\ Ret(a)
          BY <1>12, <1>16, <3>1
        <5>. QED BY <4>1, <5>1, <5>2
      <4>2. CASE b # a
        BY <1>16, <3>1, <4>2 DEF RetsOf
      <4>. QED BY <4>1, <4>2
    <3>3. RetsOf(f) \subseteq file.starts /\ RetsOf(f)' \subseteq file.starts
      BY <3>1 DEF RetsOf
    <3>. QED BY <3>2, <3>3
  <2>2. Ends(f)
    BY <1>3 DEF AtListing
  <2>3. CASE f = fa /\ Ret(a)
    <3>1. functions'[f] = a
      BY <1>3, <1>13, <2>3 DEF AtListing
    <3>2. a \in RetsOf(f)' /\ \A b \in RetsOf(f)' : b <= a
      <4>1. \A b \in RetsOf(f) : b < done /\ b \in Nat
        BY <1>5 DEF RetsOf
      <4>. QED BY <1>1, <1>6, <2>1, <2>3, <4>1
    <3>. QED BY <3>1, <3>2 DEF Ends
  <2>4. CASE ~(f = fa /\ Ret(a))
    <3>1. functions'[f] = functions[f]
      BY <1>3, <1>13, <2>4 DEF AtListing
    <3>2. RetsOf(f)' = RetsOf(f)
      BY <2>1, <2>4
    <3>. QED BY <2>2, <3>1, <3>2 DEF Ends
  <2>. QED BY <2>3, <2>4
<1>20. PatchedTo(code, Reached)'
  BY <1>2, <1>3, <1>4 DEF PatchedTo, AtListing
<1>21. Holds(End)'
  BY <1>2, <1>3, <1>4, <1>8 DEF Holds, AtListing
<1>22. Stacked'
  <2>1. \A c : WordAt(c)' = WordAt(c)
    BY <1>8 DEF WordAt
  <2>. QED BY <1>2, <1>3, <1>4, <2>1 DEF Stacked, AtListing
<1>23. (\A f \in Addresses : Ends(f))'
  BY <1>4, <1>19
<1>24. AtListing'
  BY <1>3, <1>8, <1>15, <1>17, <1>18, <1>20, <1>21, <1>22, <1>23 DEF AtListing
<1>. QED BY <1>2, <1>14, <1>24 DEF Sane

\* The listing is complete.
LEMMA ListedSane ==
  ASSUME file \in Files, LaidOut, Sane, Listed
  PROVE  Sane'
<1>1. /\ file' = file /\ linux' = linux /\ stage = "listing" /\ stage' = "ready"
      /\ code' = code /\ esp' = esp /\ done' = done /\ functions' = functions
      /\ function_address' = function_address /\ UNCHANGED vars
      /\ \A a \in file.starts : a < done
  BY DEF Listed
<1>2. Basics /\ AtListing
  BY <1>1 DEF Sane
<1>3. /\ Bottom' = Bottom /\ End' = End /\ Reached' = Reached /\ Addresses' = Addresses
      /\ \A k : Word(k)' = Word(k) /\ ChangedAt(k)' = ChangedAt(k) /\ Target(k)' = Target(k)
      /\ Heap_PTR_variable' = Heap_PTR_variable /\ Heap_END_variable' = Heap_END_variable
  BY <1>1, FileFixed
<1>4. IInv' /\ alive' = alive /\ OwnOf' = OwnOf /\ AttrOf' = AttrOf
  BY <1>1, <1>2, NoEffect DEF Basics
<1>5. Basics'
  BY <1>1, <1>2, <1>3, <1>4 DEF Basics
<1>6. PatchedTo(code, Reached)'
  BY <1>1, <1>2, <1>3 DEF PatchedTo, AtListing
<1>7. Holds(End)' /\ ListingMarks'
  BY <1>1, <1>2, <1>3, <1>4 DEF Holds, ListingMarks, AtListing
<1>8. Stacked'
  <2>1. \A c : WordAt(c)' = WordAt(c)
    BY <1>4 DEF WordAt
  <2>. QED BY <1>1, <1>2, <1>3, <2>1 DEF Stacked, AtListing
<1>9. NamedLast'
  BY <1>1, <1>2, <1>3 DEF NamedLast, AtListing
<1>10. (\A f \in Addresses : Ends(f))'
  <2>1. \A f : RetsOf(f)' = RetsOf(f)
    BY <1>1, <1>3 DEF RetsOf, Ret
  <2>. QED BY <1>1, <1>2, <1>3, <2>1 DEF Ends, AtListing
<1>11. DOMAIN functions' = Addresses' /\ functions' = [f \in Addresses' |-> functions'[f]]
  BY <1>1, <1>2, <1>3 DEF AtListing
<1>12. AtListing'
  BY <1>2, <1>4, <1>6, <1>7, <1>8, <1>9, <1>10, <1>11 DEF AtListing
<1>13. AtReady'
  BY <1>1, <1>12 DEF AtReady
<1>. QED BY <1>1, <1>5, <1>13 DEF Sane

\* A step that changes nothing.
LEMMA StutterSane ==
  ASSUME file \in Files, LaidOut, Sane, file' = file, linux' = linux, UNCHANGED vars,
         code' = code, done' = done, stage' = stage, esp' = esp, functions' = functions,
         function_address' = function_address
  PROVE  Sane'
<1>1. /\ Bottom' = Bottom /\ End' = End /\ Reached' = Reached /\ Addresses' = Addresses
      /\ \A k : Word(k)' = Word(k) /\ ChangedAt(k)' = ChangedAt(k) /\ Target(k)' = Target(k)
      /\ Heap_PTR_variable' = Heap_PTR_variable /\ Heap_END_variable' = Heap_END_variable
  BY FileFixed
<1>2. IInv
  BY DEF Sane, Basics
<1>3. IInv' /\ alive' = alive /\ OwnOf' = OwnOf /\ AttrOf' = AttrOf /\ LentOf' = LentOf
  BY <1>2, NoEffect
<1>4. Basics' = Basics
  BY <1>1, <1>2, <1>3 DEF Basics
<1>5. \A S : PatchedTo(code, S)' = PatchedTo(code, S)
  BY <1>1 DEF PatchedTo
<1>6. \A d : Holds(d)' = Holds(d) /\ Allows(d)' = Allows(d)
  BY <1>1, <1>3 DEF Holds, Allows
<1>7. \A d : Written(d)' = Written(d)
  BY <1>3, <1>6 DEF Written, Plain
<1>8. AtFile' = AtFile /\ AtPatching' = AtPatching /\ AtLinked' = AtLinked
  BY <1>1, <1>5 DEF AtFile, AtPatching, AtLinked
<1>9. \A c : WordAt(c)' = WordAt(c)
  BY <1>3 DEF WordAt
<1>10. AtWriting' = AtWriting /\ AtStack' = AtStack /\ Stacked' = Stacked
  BY <1>1, <1>7, <1>8, <1>9 DEF AtWriting, AtStack, Stacked
<1>11. ListingMarks' = ListingMarks /\ NamedLast' = NamedLast
  BY <1>1, <1>3 DEF ListingMarks, NamedLast
<1>12. \A f : Ends(f)' = Ends(f)
  <2>1. \A f : RetsOf(f)' = RetsOf(f)
    BY <1>1 DEF RetsOf, Ret
  <2>. QED BY <2>1 DEF Ends
<1>13. AtListing' = AtListing /\ AtReady' = AtReady
  BY <1>1, <1>3, <1>5, <1>6, <1>10, <1>11, <1>12 DEF AtListing, AtReady
<1>. QED BY <1>4, <1>8, <1>10, <1>13 DEF Sane

(***************************************************************************)
(* What the invariant says of a machine that is ready.                     *)
(***************************************************************************)
\* main is one of the functions.
LEMMA MainIsEntry ==
  ASSUME file \in Files, LaidOut
  PROVE  GetCodeEntryPoint \in Addresses
<1>1. PICK n \in Named("main") : file.symbols[n].function /\ \A k \in Named("main") : n <= k
  BY DEF LaidOut
<1>. DEFINE M == Named("main")
            s == file.symbols[n].section
            N == {k \in M : file.symbols[k].section = s}
<1>2. M \subseteq Nat \ {0} /\ n \in DOMAIN file.symbols /\ n \in M
  <2>1. file.symbols \in Seq(Symbol)
    BY FilesAssumption DEF ObjectFile
  <2>. QED BY <1>1, <2>1 DEF Named
<1>3. \A k \in M : n <= k
  BY <1>1
<1>. HIDE DEF M
<1>4. ASSUME NEW K \in SUBSET M, n \in K PROVE First(K) = n
  <2>1. ASSUME NEW k \in K PROVE (\A j \in K : k <= j) <=> k = n
    <3>1. n <= k /\ k \in Nat /\ n \in Nat
      BY <1>2, <1>3, <1>4, <2>1
    <3>2. ASSUME \A j \in K : k <= j PROVE k = n
      <4>1. k <= n
        BY <1>4, <3>2
      <4>. QED BY <3>1, <4>1
    <3>3. ASSUME k = n PROVE \A j \in K : k <= j
      BY <1>3, <1>4, <3>3
    <3>. QED BY <3>2, <3>3
  <2>2. K # {}
    BY <1>4
  <2>. QED BY <1>4, <2>1, <2>2 DEF First
<1>5. First(M) = n /\ First(N) = n
  <2>1. N \in SUBSET M /\ n \in N
    BY <1>2
  <2>. HIDE DEF N
  <2>. QED BY <1>2, <1>4, <2>1
<1>6. Get_Symbol_Section("main") = s
  BY <1>2, <1>5 DEF Get_Symbol_Section, M
<1>7. Get_Symbol_Offset("main", s) = file.symbols[n].value + DataOffset(s)
  BY <1>2, <1>5 DEF Get_Symbol_Offset, M
<1>8. GetCodeEntryPoint = AddressOf(n)
  BY <1>6, <1>7 DEF GetCodeEntryPoint, AddressOf
<1>9. n \in InCode
  BY <1>1, <1>2, <1>6 DEF InCode
<1>. QED BY <1>8, <1>9 DEF Addresses

\* The fields hold what the code means by them.
LEMMA FieldsAreLinked ==
  ASSUME file \in Files, LaidOut, linux \in BOOLEAN, PatchedTo(code, Reached), Holds(End),
         NEW n \in Reached
  PROVE  Linked(Relocs[n])
<1>. DEFINE r == Relocs[n]
            f == FieldOf(r)
            S == SymbolAddress(r)
            A == Addend(file.bytes, r)
            O == IF r.type = "REL32" THEN f + 4 ELSE 0
            T == Target(n)
            W == WordSize
<1>1. SUFFICES ASSUME ~LostAddend(r)
               PROVE  (Meant(r) - S - WordIn(file.bytes, f)) % W = 0
  BY DEF Linked
<1>2. f \in Nat /\ f + 4 <= Bottom /\ ChangedAt(n) = f /\ n \in ChangedWords /\ n \in Nat \ {0}
      /\ Bottom \in Nat /\ End \in Nat /\ Bottom <= End
  <2>1. f \in 0 .. Bottom - 4 /\ Bottom \in Nat
    BY WordsApart, FileTypes
  <2>. QED BY <2>1, WordsApart, FileTypes, HeapAssumption, SMTT(30) DEF End
<1>3. WordAt(f) = T % W
  <2>1. \A k \in 1 .. 4 : OwnOf[Emu][f + k - 1] = code[f + k]
    <3>1. SUFFICES ASSUME NEW k \in 1 .. 4 PROVE OwnOf[Emu][f + k - 1] = code[f + k]
      OBVIOUS
    <3>. DEFINE b == f + k - 1
    <3>2. b \in 0 .. Bottom - 1 /\ b < End /\ b \in f .. f + 3 /\ b + 1 = f + k
      BY <1>2
    <3>3. b \in Word(n)
      BY <1>2, <3>2 DEF Word
    <3>4. b \notin Word(0) /\ b \notin Word(-1)
      <4>1. n # 0 /\ n # -1
        BY <1>2
      <4>. QED BY <1>2, <3>3, <4>1, WordsApart
    <3>. HIDE DEF b
    <3>5. OwnOf[Emu][b] = code[b + 1]
      BY <3>2, <3>4 DEF Holds
    <3>. QED BY <3>2, <3>5 DEF b
  <2>2. WordAt(f) = WordIn(code, f)
    BY <2>1 DEF WordAt, WordIn, WordOf
  <2>3. WordIn(code, f) = T % W
    BY <1>2 DEF PatchedTo
  <2>. QED BY <2>2, <2>3
<1>4. S \in Nat /\ T \in Int /\ O \in Nat /\ W \in Nat \ {0}
  BY <1>2, TargetIsInt, FileTypes, SMTT(30)
<1>5. WordIn(file.bytes, f) = A /\ A \in Nat
  <2>1. WordIn(file.bytes, f) = A
    BY <1>1 DEF LostAddend
  <2>2. f + 1 \in 1 .. Bottom
    BY <1>2
  <2>3. file.bytes[f + 1] \in Byte
    BY <2>2, FileTypes, SMTT(30)
  <2>4. A \in Nat
    BY <2>3, SizesAssumption DEF Addend, Byte, FF
  <2>. QED BY <2>1, <2>4
<1>6. T = (S + A) - O
  BY <1>2, <1>4, <1>5 DEF Target, PatchTarget
<1>7. Meant(r) = (T % W) + O
  BY <1>3 DEF Meant
<1>. HIDE DEF S, A, O, T, W
<1>8. T = (T \div W) * W + (T % W) /\ T \div W \in Int /\ T % W \in 0 .. W - 1
  BY <1>4, DivMod
<1>. DEFINE q == T \div W
            m == T % W
            u == -q
<1>9. q \in Int /\ u \in Int /\ m \in Int /\ T = q * W + m /\ u * W = -(q * W) /\ q * W \in Int
  <2>1. \A i \in Int, w \in Nat : (-i) * w = -(i * w) /\ i * w \in Int
    OBVIOUS
  <2>. QED BY <1>4, <1>8, <2>1
<1>10. (Meant(r) - S - WordIn(file.bytes, f)) = u * W + 0
  <2>. DEFINE p == q * W
              k == u * W
  <2>1. p \in Int /\ k = -p /\ T = p + m
    BY <1>9
  <2>. HIDE DEF p, k, m
  <2>. QED BY <1>4, <1>5, <1>6, <1>7, <1>9, <2>1 DEF m, k
<1>11. (u * W + 0) % W = 0
  <2>1. 0 \in 0 .. W - 1
    BY <1>4
  <2>. HIDE DEF u
  <2>. DEFINE zero == 0
  <2>2. zero = 0
    OBVIOUS
  <2>4. u \in Int /\ W \in Nat \ {0} /\ zero \in 0 .. W - 1
    BY <1>4, <1>9, <2>1
  <2>. HIDE DEF zero
  <2>3. (u * W + zero) % W = zero
    BY <2>4, ModUnique
  <2>. QED BY <2>2, <2>3
<1>. QED BY <1>10, <1>11 DEF W, S

\* What has to hold of a machine that is ready follows from the invariant.
LEMMA ReadyIsLinked ==
  ASSUME LInv
  PROVE  LoadedAsLinked
<1>1. SUFFICES ASSUME stage = "ready", LaidOut
               PROVE  LoadedAsLinked
  BY DEF LoadedAsLinked
<1>2. file \in Files /\ Basics /\ AtListing /\ \A a \in file.starts : a < done
  BY <1>1 DEF LInv, Sane, AtReady
<1>3. \A n \in Reached : Linked(Relocs[n])
  BY <1>1, <1>2, FieldsAreLinked DEF Basics, AtListing
<1>4. /\ Bottom \in Nat /\ End \in Nat /\ Bottom <= End /\ file.starts \subseteq 0 .. Bottom - 1
      /\ Addresses \subseteq file.starts /\ DOMAIN functions = Addresses
  BY <1>1, <1>2, HeapVariables, StartsInside, SMTT(30) DEF AtListing
<1>5. \A a \in 0 .. Bottom - 1 : a \in ChangedBytes \/ OwnOf[Emu][a] = file.bytes[a + 1]
  <2>1. SUFFICES ASSUME NEW a \in 0 .. Bottom - 1, \A n \in ChangedWords : a \notin Word(n)
                 PROVE  OwnOf[Emu][a] = file.bytes[a + 1]
    BY DEF ChangedBytes, Bottom
  <2>2. OwnOf[Emu][a] = code[a + 1]
    <3>1. a < End
      BY <1>4
    <3>. QED BY <1>1, <1>2, <2>1, <3>1, WordsApart DEF AtListing, Holds
  <2>3. code[a + 1] = file.bytes[a + 1]
    BY <1>1, <1>2, <2>1, WordsApart DEF AtListing, PatchedTo
  <2>. QED BY <2>2, <2>3
<1>6. GetCodeEntryPoint \in DOMAIN functions
  BY <1>1, <1>2, <1>4, MainIsEntry
<1>7. ASSUME NEW f \in DOMAIN functions PROVE EndsRight(f)
  <2>1. RetsOf(f) = {a \in BodyOf(f) : file.bytes[a + 1] = RET}
    BY <1>2, <1>4 DEF RetsOf, BodyOf, Ret
  <2>2. Ends(f)
    BY <1>2, <1>4, <1>7 DEF AtListing
  <2>. QED BY <2>1, <2>2 DEF Ends, EndsRight
<1>8. \A b \in 0 .. End - 1 :
        AttrOf[Emu][b] = {"R", "W", "X", "VALID"} \cup (IF b \in file.starts THEN {"ACC_R"} ELSE {})
  BY <1>2 DEF AtListing, ListingMarks
<1>9. Stacked
  BY <1>2 DEF AtListing
<1>10. STACK_SIZE \in Nat
  BY HeapAssumption
<1>11. LET bottom == Len(file.bytes)
           stack  == bottom + 8
       IN  /\ esp = stack + STACK_SIZE
           /\ WordAt(bottom) = STACK_SIZE /\ WordAt(bottom + 4) = 0
           /\ WordAt(Heap_PTR_variable) = esp
           /\ WordAt(Heap_END_variable) = bottom + HEAP_SIZE
  BY <1>4, <1>9, <1>10 DEF Stacked, Bottom, End
<1>12. \A a \in 0 .. Len(file.bytes) - 1 : a \in ChangedBytes \/ OwnOf[Emu][a] = file.bytes[a + 1]
  BY <1>5 DEF Bottom
<1>13. \A b \in 0 .. Len(file.bytes) + HEAP_SIZE - 1 :
         AttrOf[Emu][b] = {"R", "W", "X", "VALID"} \cup (IF b \in file.starts THEN {"ACC_R"} ELSE {})
  <2>1. Len(file.bytes) + HEAP_SIZE = End
    BY DEF Bottom, End
  <2>2. 0 .. Len(file.bytes) + HEAP_SIZE - 1 = 0 .. End - 1
    BY <1>4, <2>1, HeapAssumption, FileTypes DEF Bottom
  <2>. QED BY <1>8, <2>2
<1>14. \A f \in DOMAIN functions : EndsRight(f)
  BY <1>7
<1>. QED BY <1>3, <1>6, <1>11, <1>12, <1>13, <1>14, Zenon DEF LoadedAsLinked

(***************************************************************************)
(* The theorem.                                                            *)
(***************************************************************************)
\* Before the first step nothing is patched or written.
LEMMA LoaderStarts == LoaderInit => LInv
<1>1. SUFFICES ASSUME LoaderInit, LaidOut PROVE Sane
  BY DEF LInv, LoaderInit
<1>2. IInv
  BY <1>1, Begins DEF LoaderInit
<1>3. file \in Files /\ linux \in BOOLEAN /\ stage = "file" /\ code = file.bytes /\ done = 0
      /\ function_address = 0
  BY <1>1 DEF LoaderInit
<1>4. Basics
  BY <1>2, <1>3, FileTypes DEF Basics, Bottom
<1>. QED BY <1>3, <1>4 DEF Sane, AtFile

\* No step of emu_run breaks the invariant.
LEMMA LoaderGoesOn == LInv /\ [LoaderNext]_<<vars, loader>> => LInv'
<1>1. SUFFICES ASSUME LInv, [LoaderNext]_<<vars, loader>> PROVE LInv'
  OBVIOUS
<1>2. file' = file /\ linux' = linux
  <2>1. CASE LoaderNext
    BY <2>1 DEF LoaderNext, Initialize, PatchAddress_Targets, Get_Function_Names, Emu_new,
                Emu_init, WriteHeapVariable, AllocateStack, WriteBlock, Find_Function,
                Disassembly_Listing, Listed
  <2>2. CASE UNCHANGED <<vars, loader>>
    BY <2>2 DEF loader
  <2>. QED BY <1>1, <2>1, <2>2
<1>3. LaidOut' = LaidOut /\ file \in Files
  BY <1>1, <1>2, FileFixed DEF LInv
<1>4. SUFFICES ASSUME LaidOut, Sane PROVE Sane'
  BY <1>1, <1>2, <1>3 DEF LInv
<1>5. CASE Initialize             BY <1>3, <1>4, <1>5, InitializeSane
<1>6. CASE PatchAddress_Targets   BY <1>3, <1>4, <1>6, PatchAddress_TargetsSane
<1>7. CASE Get_Function_Names     BY <1>3, <1>4, <1>7, Get_Function_NamesSane
<1>8. CASE Emu_new                BY <1>3, <1>4, <1>8, Emu_newSane
<1>9. CASE Emu_init               BY <1>3, <1>4, <1>9, Emu_initSane
<1>10. CASE WriteHeapVariable     BY <1>3, <1>4, <1>10, WriteHeapVariableSane
<1>11. CASE AllocateStack         BY <1>3, <1>4, <1>11, AllocateStackSane
<1>12. CASE WriteBlock            BY <1>3, <1>4, <1>12, WriteBlockSane
<1>13. CASE Find_Function         BY <1>3, <1>4, <1>13, Find_FunctionSane
<1>14. CASE Disassembly_Listing   BY <1>3, <1>4, <1>14, Disassembly_ListingSane
<1>15. CASE Listed                BY <1>3, <1>4, <1>15, ListedSane
<1>16. CASE UNCHANGED <<vars, loader>>
  <2>1. UNCHANGED vars /\ code' = code /\ done' = done /\ stage' = stage /\ esp' = esp
        /\ functions' = functions /\ function_address' = function_address
    BY <1>16 DEF loader
  <2>. QED BY <1>2, <1>3, <1>4, <2>1, StutterSane
<1>. QED
  BY <1>1, <1>5, <1>6, <1>7, <1>8, <1>9, <1>10, <1>11, <1>12, <1>13, <1>14, <1>15, <1>16
  DEF LoaderNext

\* However the loader is built and whatever the file, a machine that is ready
\* runs the program the file describes (emu_run).
THEOREM LoadsAsLinked == LoaderSpec => []LoadedAsLinked
<1>1. LoaderInit => LInv
  BY LoaderStarts
<1>2. LInv /\ [LoaderNext]_<<vars, loader>> => LInv'
  BY LoaderGoesOn
<1>3. LInv => LoadedAsLinked
  BY ReadyIsLinked
<1>. QED BY <1>1, <1>2, <1>3, PTL DEF LoaderSpec
=============================================================================
