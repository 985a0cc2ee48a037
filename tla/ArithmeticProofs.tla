--------------------------- MODULE ArithmeticProofs --------------------------
(***************************************************************************)
(* The primitive operations of the emulator (PrimOps and LogicOps, which   *)
(* model prim_ops.c) compute what their instructions promise, stated in    *)
(* the integers, relations and bit positions of Numbers: for every width,  *)
(* every operand of that width, every count and every value of the flags,  *)
(* where the runs take all operands of two small widths.                   *)
(*                                                                         *)
(* The only assumption is WordsAssumption: bytes of six or of eight bits   *)
(* (six are what the runs check, eight are what the program has). Facts    *)
(* about powers of two need no induction here: 2 ^ n counts the subsets of *)
(* a set of n members, so 2 ^ (m + n) is a product because a subset of a   *)
(* disjoint union is a pair of subsets. Everything about bits, halves and  *)
(* carries rests on that and on the uniqueness of quotient and remainder.  *)
(* That a word other than 0 has a highest bit (TopOne) needs a least       *)
(* member of a set of numbers (LeastOf): finite sets are well founded.     *)
(***************************************************************************)
EXTENDS LogicOps, Numbers, FiniteSetTheorems, WellFoundedInduction, TLAPS

-----------------------------------------------------------------------------
(* Powers of two, by counting subsets.                                     *)

\* An interval of n numbers has 2^n subsets.
LEMMA CountSubsets ==
  ASSUME NEW a \in Nat, NEW n \in Nat
  PROVE  /\ IsFiniteSet((a + 1)..(a + n)) /\ IsFiniteSet(SUBSET ((a + 1)..(a + n)))
         /\ Cardinality(SUBSET ((a + 1)..(a + n))) = 2 ^ n
         /\ 2 ^ n \in Nat
<1> DEFINE S == (a + 1)..(a + n)
<1>1. IsFiniteSet(S) /\ Cardinality(S) = n
  BY FS_Interval
<1>2. IsFiniteSet(SUBSET S) /\ Cardinality(SUBSET S) = 2 ^ n
  <2>1. IsFiniteSet(SUBSET S) /\ Cardinality(SUBSET S) = 2 ^ Cardinality(S)
    BY <1>1, FS_SUBSET
  <2>2. QED
    BY <1>1, <2>1
<1>3. 2 ^ n \in Nat
  BY <1>2, FS_CardinalityType
<1>4. QED
  BY <1>1, <1>2, <1>3

\* A subset of 1..(m + n) is a subset of each of its two parts.
LEMMA PowerSum ==
  ASSUME NEW m \in Nat, NEW n \in Nat
  PROVE  2 ^ (m + n) = 2 ^ m * 2 ^ n
<1> DEFINE A == 1..m
           B == (m + 1)..(m + n)
           C == 1..(m + n)
           f == [p \in (SUBSET A) \X (SUBSET B) |-> p[1] \cup p[2]]
<1>1. /\ IsFiniteSet(SUBSET A) /\ Cardinality(SUBSET A) = 2 ^ m
      /\ IsFiniteSet(SUBSET B) /\ Cardinality(SUBSET B) = 2 ^ n
      /\ IsFiniteSet(SUBSET C) /\ Cardinality(SUBSET C) = 2 ^ (m + n)
  <2>1. 0 + 1 = 1 /\ 0 + m = m /\ 0 + (m + n) = m + n /\ m + n \in Nat
    OBVIOUS
  <2>2. IsFiniteSet(SUBSET A) /\ Cardinality(SUBSET A) = 2 ^ m
    <3>1. IsFiniteSet(SUBSET ((0 + 1)..(0 + m))) /\ Cardinality(SUBSET ((0 + 1)..(0 + m))) = 2 ^ m
      BY CountSubsets
    <3>2. QED
      BY <2>1, <3>1
  <2>3. IsFiniteSet(SUBSET B) /\ Cardinality(SUBSET B) = 2 ^ n
    BY CountSubsets
  <2>4. IsFiniteSet(SUBSET C) /\ Cardinality(SUBSET C) = 2 ^ (m + n)
    <3>1. /\ IsFiniteSet(SUBSET ((0 + 1)..(0 + (m + n))))
          /\ Cardinality(SUBSET ((0 + 1)..(0 + (m + n)))) = 2 ^ (m + n)
      BY <2>1, CountSubsets
    <3>2. QED
      BY <2>1, <3>1
  <2>5. QED
    BY <2>2, <2>3, <2>4
<1>2. A \cup B = C /\ A \cap B = {}
  OBVIOUS
<1>3. f \in [(SUBSET A) \X (SUBSET B) -> SUBSET C]
  BY <1>2
<1> HIDE DEF A, B, C
<1>4. \A x \in SUBSET A, y \in SUBSET B : f[<<x, y>>] = x \cup y
  OBVIOUS
<1> HIDE DEF f
<1>5. ASSUME NEW p \in (SUBSET A) \X (SUBSET B), NEW q \in (SUBSET A) \X (SUBSET B), f[p] = f[q]
      PROVE  p = q
  <2>1. PICK x \in SUBSET A, y \in SUBSET B : p = <<x, y>>
    OBVIOUS
  <2>2. PICK u \in SUBSET A, v \in SUBSET B : q = <<u, v>>
    OBVIOUS
  <2>3. x \cup y = u \cup v
    BY <1>4, <1>5, <2>1, <2>2
  <2>4. x = u /\ y = v
    BY <1>2, <2>3
  <2>5. QED
    BY <2>1, <2>2, <2>4
<1>6. ASSUME NEW z \in SUBSET C
      PROVE  \E p \in (SUBSET A) \X (SUBSET B) : f[p] = z
  <2>1. z \cap A \in SUBSET A /\ z \cap B \in SUBSET B
    OBVIOUS
  <2>2. (z \cap A) \cup (z \cap B) = z
    BY <1>2
  <2>3. f[<<z \cap A, z \cap B>>] = z
    BY <1>4, <2>1, <2>2
  <2>4. QED
    BY <2>1, <2>3
<1>7. f \in Bijection((SUBSET A) \X (SUBSET B), SUBSET C)
  BY <1>3, <1>5, <1>6, ZenonT(60) DEF Bijection, Injection, Surjection, IsInjective
<1>8. ExistsBijection((SUBSET A) \X (SUBSET B), SUBSET C)
  BY <1>7 DEF ExistsBijection
<1>9. /\ IsFiniteSet((SUBSET A) \X (SUBSET B))
      /\ Cardinality((SUBSET A) \X (SUBSET B)) = 2 ^ m * 2 ^ n
  BY <1>1, FS_Product, ZenonT(60)
<1>10. Cardinality(SUBSET C) = Cardinality((SUBSET A) \X (SUBSET B))
  BY <1>8, <1>9, FS_Bijection
<1>11. QED
  BY <1>1, <1>9, <1>10

\* The powers of two are positive.
LEMMA PowerFacts ==
  /\ 2 ^ 0 = 1 /\ 2 ^ 1 = 2
  /\ \A n \in Nat : 2 ^ n \in Nat \ {0}
  /\ \A n \in Nat : 2 ^ (n + 1) = 2 * 2 ^ n
<1>1. 2 ^ 0 = 1 /\ 2 ^ 1 = 2
  OBVIOUS
<1>2. ASSUME NEW n \in Nat PROVE 2 ^ n \in Nat \ {0}
  <2> DEFINE S == (0 + 1)..(0 + n)
  <2>1. IsFiniteSet(SUBSET S) /\ Cardinality(SUBSET S) = 2 ^ n /\ 2 ^ n \in Nat
    BY CountSubsets
  <2>2. SUBSET S # {}
    OBVIOUS
  <2>3. QED
    BY <2>1, <2>2, FS_EmptySet
<1>3. ASSUME NEW n \in Nat PROVE 2 ^ (n + 1) = 2 * 2 ^ n
  <2>1. 2 ^ (n + 1) = 2 ^ n * 2 ^ 1
    BY PowerSum
  <2>2. QED
    BY <1>1, <1>2, <2>1
<1>4. QED
  BY <1>1, <1>2, <1>3

-----------------------------------------------------------------------------
(* Division and single bits.                                               *)

\* Quotient and remainder of a positive divisor.
LEMMA DivFacts ==
  ASSUME NEW n \in Nat \ {0}, NEW x \in Int
  PROVE  x = n * (x \div n) + (x % n) /\ x % n \in 0..n - 1 /\ x \div n \in Int
  OBVIOUS

\* They are the only ones.
LEMMA DivUnique ==
  ASSUME NEW n \in Nat \ {0}, NEW q \in Int, NEW r \in 0..n - 1
  PROVE  (q * n + r) \div n = q /\ (q * n + r) % n = r
  OBVIOUS

\* A product of naturals is one; it is positive if they are.
LEMMA ProductFacts ==
  ASSUME NEW a \in Nat \ {0}, NEW b \in Nat \ {0}
  PROVE  a * b \in Nat \ {0} /\ a * b >= a /\ a * b >= b
  OBVIOUS

\* A number below a * b is one below b of the size a, and a rest.
LEMMA TwoParts ==
  ASSUME NEW a \in Nat \ {0}, NEW b \in Nat \ {0}, NEW t \in 0..b - 1, NEW r \in 0..a - 1
  PROVE  t * a + r \in 0..a * b - 1
<1>1. t * a >= 0 /\ t * a <= (b - 1) * a
  OBVIOUS
<1>2. (b - 1) * a = a * b - a
  OBVIOUS
<1>3. QED
  BY <1>1, <1>2

\* Dividing twice is dividing by the product.
LEMMA DivDiv ==
  ASSUME NEW a \in Nat \ {0}, NEW b \in Nat \ {0}, NEW x \in Int
  PROVE  (x \div a) \div b = x \div (a * b)
<1> DEFINE q == x \div a
           r == x % a
           p == q \div b
           t == q % b
<1>1. x = a * q + r /\ r \in 0..a - 1 /\ q \in Int
  BY DivFacts
<1>2. q = b * p + t /\ t \in 0..b - 1 /\ p \in Int
  BY <1>1, DivFacts
<1> HIDE DEF q, r, p, t
<1>3. x = p * (a * b) + (t * a + r)
  <2>1. a * q = a * (b * p) + a * t
    BY <1>1, <1>2
  <2>2. a * (b * p) = p * (a * b) /\ a * t = t * a
    BY <1>2
  <2>3. p * (a * b) \in Int /\ t * a \in Int /\ a * q = p * (a * b) + t * a
    BY <1>1, <1>2, <2>1, <2>2
  <2>4. QED
    BY <1>1, <2>3
<1>4. t * a + r \in 0..a * b - 1
  BY <1>1, <1>2, TwoParts
<1>5. a * b \in Nat \ {0}
  BY ProductFacts
<1>6. x \div (a * b) = p
  BY <1>2, <1>3, <1>4, <1>5, DivUnique
<1>7. QED
  BY <1>6 DEF p, q

\* A bit of a shifted number is a bit of the number.
LEMMA BitOfShr ==
  ASSUME NEW x \in Int, NEW m \in Nat, NEW k \in Nat
  PROVE  Bit(Shr(x, m), k) <=> Bit(x, m + k)
<1>1. 2 ^ m \in Nat \ {0} /\ 2 ^ k \in Nat \ {0} /\ 2 ^ (m + k) = 2 ^ m * 2 ^ k
  BY PowerFacts, PowerSum
<1>2. (x \div 2 ^ m) \div 2 ^ k = x \div 2 ^ (m + k)
  <2>1. (x \div 2 ^ m) \div 2 ^ k = x \div (2 ^ m * 2 ^ k)
    BY <1>1, DivDiv
  <2>2. QED
    BY <1>1, <2>1
<1>3. QED
  BY <1>2 DEF Bit, Shr

\* The bits of a number that is put together.
LEMMA BitOfJoin ==
  ASSUME NEW x \in Int, NEW c \in Nat, NEW y \in 0..2 ^ c - 1, NEW k \in Nat
  PROVE  /\ k >= c => (Bit(x * 2 ^ c + y, k) <=> Bit(x, k - c))
         /\ k < c => (Bit(x * 2 ^ c + y, k) <=> Bit(y, k))
<1>1. 2 ^ c \in Nat \ {0} /\ 2 ^ k \in Nat \ {0}
  BY PowerFacts
<1>2. ASSUME k >= c PROVE Bit(x * 2 ^ c + y, k) <=> Bit(x, k - c)
  <2>1. Shr(x * 2 ^ c + y, c) = x
    BY <1>1, DivUnique DEF Shr
  <2>2. k - c \in Nat /\ c + (k - c) = k /\ x * 2 ^ c + y \in Int
    BY <1>1, <1>2
  <2>3. Bit(Shr(x * 2 ^ c + y, c), k - c) <=> Bit(x * 2 ^ c + y, c + (k - c))
    BY <2>2, BitOfShr
  <2>4. QED
    BY <2>1, <2>2, <2>3
<1>3. ASSUME k < c PROVE Bit(x * 2 ^ c + y, k) <=> Bit(y, k)
  <2> DEFINE n == c - k - 1
             N == 2 ^ n
             K == 2 ^ k
             q == y \div K
             r == y % K
  <2>1. n \in Nat /\ c = n + 1 + k /\ n + 1 \in Nat
    BY <1>3
  <2>2. N \in Nat \ {0} /\ K \in Nat \ {0} /\ 2 ^ c = (2 * N) * K
    <3>1. 2 ^ c = 2 ^ (n + 1) * 2 ^ k
      BY <2>1, PowerSum
    <3>2. 2 ^ (n + 1) = 2 * 2 ^ n
      BY <2>1, PowerFacts
    <3>3. QED
      BY <2>1, <3>1, <3>2, PowerFacts
  <2>3. y = K * q + r /\ r \in 0..K - 1 /\ q \in Int
    <3>1. y \in Int
      BY <1>1
    <3> HIDE DEF K
    <3>2. QED
      BY <2>2, <3>1, DivFacts
  <2> HIDE DEF N, K, q, r, n
  <2>4. x * 2 ^ c + y = (2 * (x * N) + q) * K + r
    <3>1. x * ((2 * N) * K) = (2 * (x * N)) * K
      BY <2>2
    <3>2. QED
      BY <2>2, <2>3, <3>1
  <2>5. (x * 2 ^ c + y) \div K = 2 * (x * N) + q
    <3>1. 2 * (x * N) + q \in Int
      BY <2>2, <2>3
    <3>2. QED
      BY <2>2, <2>3, <2>4, <3>1, DivUnique
  <2>6. (2 * (x * N) + q) % 2 = q % 2
    <3>1. x * N \in Int
      BY <2>2
    <3>2. QED
      BY <2>3, <3>1
  <2>7. QED
    BY <2>5, <2>6 DEF Bit, K, q
<1>4. QED
  BY <1>2, <1>3

\* Truncation keeps the lower bits.
LEMMA BitOfTrunc ==
  ASSUME NEW x \in Int, NEW n \in Nat, NEW k \in Nat, k < n
  PROVE  Bit(Trunc(x, n), k) <=> Bit(x, k)
<1> DEFINE N == 2 ^ n
           q == x \div N
           r == x % N
<1>1. N \in Nat \ {0}
  BY PowerFacts
<1> HIDE DEF N
<1>2. x = q * N + r /\ r \in 0..N - 1 /\ q \in Int
  <2>1. x = N * (x \div N) + (x % N) /\ x % N \in 0..N - 1 /\ x \div N \in Int
    BY <1>1, DivFacts
  <2>2. QED
    BY <1>1, <2>1
<1> HIDE DEF q, r
<1>3. Bit(q * 2 ^ n + r, k) <=> Bit(r, k)
  BY <1>2, BitOfJoin DEF N
<1>4. QED
  BY <1>2, <1>3 DEF Trunc, r, N

-----------------------------------------------------------------------------
(* Words and the carry chain.                                              *)

\* What is left of an integer is a word.
LEMMA TruncFacts ==
  ASSUME NEW w \in Nat, NEW x \in Int
  PROVE  /\ 2 ^ w \in Nat \ {0}
         /\ Trunc(x, w) \in WordOf(w)
         /\ \E q \in Int : x = q * 2 ^ w + Trunc(x, w)
         /\ x \in WordOf(w) => Trunc(x, w) = x
<1> DEFINE N == 2 ^ w
<1>1. N \in Nat \ {0}
  BY PowerFacts
<1>2. /\ x % N \in 0..N - 1 /\ x \div N \in Int
      /\ x = (x \div N) * N + (x % N)
      /\ x \in 0..N - 1 => x % N = x
  <2> HIDE DEF N
  <2>1. x = N * (x \div N) + (x % N) /\ x % N \in 0..N - 1 /\ x \div N \in Int
    BY <1>1, DivFacts
  <2>2. x \in 0..N - 1 => x % N = x
    BY <1>1
  <2>3. QED
    BY <1>1, <2>1, <2>2
<1>3. QED
  BY <1>1, <1>2 DEF Trunc, WordOf

\* A word reached by adding a multiple of 2^w is what truncation leaves.
LEMMA TruncUnique ==
  ASSUME NEW w \in Nat, NEW q \in Int, NEW r \in WordOf(w)
  PROVE  Trunc(q * 2 ^ w + r, w) = r
<1>1. 2 ^ w \in Nat \ {0}
  BY PowerFacts
<1>2. QED
  BY <1>1, DivUnique DEF Trunc, WordOf

\* The last bit of a word is set in the upper half of the words.
LEMMA TopBit ==
  ASSUME NEW w \in Nat \ {0}, NEW x \in WordOf(w)
  PROVE  /\ 2 ^ (w - 1) \in Nat \ {0} /\ 2 ^ w = 2 * 2 ^ (w - 1)
         /\ Bit(x, w - 1) <=> x >= 2 ^ (w - 1)
         /\ Signed(x, w) = IF x >= 2 ^ (w - 1) THEN x - 2 ^ w ELSE x
         /\ Signed(x, w) \in SignedRange(w)
<1> DEFINE M == 2 ^ (w - 1)
<1>1. M \in Nat \ {0} /\ 2 ^ w = 2 * M
  <2>1. w - 1 \in Nat /\ (w - 1) + 1 = w
    OBVIOUS
  <2>2. QED
    BY <2>1, PowerFacts
<1>2. x \in 0..2 * M - 1
  BY <1>1 DEF WordOf
<1>3. Bit(x, w - 1) <=> (x \div M) % 2 = 1
  BY DEF Bit
<1> HIDE DEF M
<1>4. CASE x >= M
  <2>1. x = 1 * M + (x - M) /\ x - M \in 0..M - 1
    BY <1>1, <1>2, <1>4
  <2>2. x \div M = 1
    BY <1>1, <2>1, DivUnique, SMTT(30)
  <2>3. QED
    BY <1>1, <1>2, <1>3, <1>4, <2>2 DEF Signed, SignedRange, M
<1>5. CASE x < M
  <2>1. x = 0 * M + x /\ x \in 0..M - 1
    BY <1>1, <1>2, <1>5
  <2>2. x \div M = 0
    BY <1>1, <2>1, DivUnique
  <2>3. QED
    BY <1>1, <1>2, <1>3, <1>5, <2>2 DEF Signed, SignedRange, M
<1>6. QED
  BY <1>1, <1>2, <1>4, <1>5

\* A bit of an integer, by what is left of the integer up to this bit.
LEMMA BitOfLow ==
  ASSUME NEW x \in Int, NEW k \in Nat
  PROVE  /\ 2 ^ k \in Nat \ {0} /\ 2 ^ (k + 1) = 2 * 2 ^ k
         /\ Trunc(x, k + 1) \in 0..2 * 2 ^ k - 1
         /\ Bit(x, k) <=> Trunc(x, k + 1) >= 2 ^ k
<1>1. k + 1 \in Nat \ {0} /\ (k + 1) - 1 = k /\ k + 1 \in Nat
  OBVIOUS
<1>2. Trunc(x, k + 1) \in WordOf(k + 1)
  BY <1>1, TruncFacts
<1>3. Bit(Trunc(x, k + 1), (k + 1) - 1) <=> Trunc(x, k + 1) >= 2 ^ ((k + 1) - 1)
  BY <1>1, <1>2, TopBit
<1>4. Bit(Trunc(x, k + 1), k) <=> Bit(x, k)
  BY <1>1, BitOfTrunc
<1>5. 2 ^ k \in Nat \ {0} /\ 2 ^ (k + 1) = 2 * 2 ^ k
  BY PowerFacts
<1>6. QED
  BY <1>1, <1>2, <1>3, <1>4, <1>5 DEF WordOf

\* The truncation of a sum or a difference depends on the truncations.
LEMMA TruncSum ==
  ASSUME NEW n \in Nat \ {0}, NEW x \in Int, NEW y \in Int, NEW c \in Int
  PROVE  /\ (x + y + c) % n = ((x % n) + (y % n) + c) % n
         /\ (x - y - c) % n = ((x % n) - (y % n) - c) % n
<1> DEFINE q == x \div n
           r == x % n
           p == y \div n
           t == y % n
<1>1. x = n * q + r /\ r \in 0..n - 1 /\ q \in Int
  BY DivFacts
<1>2. y = n * p + t /\ t \in 0..n - 1 /\ p \in Int
  BY DivFacts
<1> HIDE DEF q, r, p, t
<1>3. ASSUME NEW z \in Int, NEW e \in Int PROVE (z + e * n) % n = z % n
  <2> DEFINE a == z \div n
             b == z % n
  <2>1. z = n * a + b /\ b \in 0..n - 1 /\ a \in Int
    BY DivFacts
  <2> HIDE DEF a, b
  <2>2. z + e * n = (a + e) * n + b /\ a + e \in Int
    BY <2>1
  <2>3. (z + e * n) % n = b
    BY <2>1, <2>2, DivUnique
  <2>4. QED
    BY <2>3 DEF b
<1>4. (x + y + c) % n = (r + t + c) % n
  <2>1. x + y + c = (r + t + c) + (q + p) * n /\ r + t + c \in Int /\ q + p \in Int
    BY <1>1, <1>2
  <2>2. QED
    BY <1>3, <2>1, ZenonT(60)
<1>5. (x - y - c) % n = (r - t - c) % n
  <2>1. x - y - c = (r - t - c) + (q - p) * n /\ r - t - c \in Int /\ q - p \in Int
    BY <1>1, <1>2
  <2>2. QED
    BY <1>3, <2>1, ZenonT(60)
<1>6. QED
  BY <1>4, <1>5 DEF r, t

\* The same of words.
LEMMA TruncTrunc ==
  ASSUME NEW w \in Nat, NEW x \in Int, NEW y \in Int, NEW c \in Int
  PROVE  /\ Trunc(x + y + c, w) = Trunc(Trunc(x, w) + Trunc(y, w) + c, w)
         /\ Trunc(x - y - c, w) = Trunc(Trunc(x, w) - Trunc(y, w) - c, w)
<1> DEFINE N == 2 ^ w
<1>1. N \in Nat \ {0}
  BY PowerFacts
<1> HIDE DEF N
<1>2. /\ (x + y + c) % N = ((x % N) + (y % N) + c) % N
      /\ (x - y - c) % N = ((x % N) - (y % N) - c) % N
  BY <1>1, TruncSum, ZenonT(60)
<1>3. QED
  BY <1>2 DEF Trunc, N

\* Bit k of the carry chain is the carry out of the lowest k + 1 bits.
LEMMA CarryOut ==
  ASSUME NEW d \in Int, NEW s \in Int, NEW v \in Int, NEW c \in {0, 1}, NEW k \in Nat,
         Trunc(v, k + 1) = Trunc(d + s + c, k + 1)
  PROVE  CarryAt(d, s, v, k) <=> Trunc(d, k + 1) + Trunc(s, k + 1) + c >= 2 ^ (k + 1)
<1> DEFINE K == 2 ^ k
           a == Trunc(d, k + 1)
           b == Trunc(s, k + 1)
           u == Trunc(v, k + 1)
<1>1. /\ K \in Nat \ {0} /\ 2 ^ (k + 1) = 2 * K
      /\ a \in 0..2 * K - 1 /\ b \in 0..2 * K - 1 /\ u \in 0..2 * K - 1
      /\ Bit(d, k) <=> a >= K
      /\ Bit(s, k) <=> b >= K
      /\ Bit(v, k) <=> u >= K
  BY BitOfLow
<1>2. u = (a + b + c) % (2 * K)
  <2>1. k + 1 \in Nat /\ c \in Int
    OBVIOUS
  <2>2. Trunc(d + s + c, k + 1) = Trunc(Trunc(d, k + 1) + Trunc(s, k + 1) + c, k + 1)
    BY <2>1, TruncTrunc, ZenonT(60)
  <2>3. QED
    BY <1>1, <2>2 DEF Trunc
<1> HIDE DEF K, a, b, u
<1>3. u = IF a + b + c >= 2 * K THEN a + b + c - 2 * K ELSE a + b + c
  <2>1. CASE a + b + c >= 2 * K
    <3>1. a + b + c = 1 * (2 * K) + (a + b + c - 2 * K) /\ a + b + c - 2 * K \in 0..2 * K - 1
      BY <1>1, <2>1
    <3>2. 2 * K \in Nat \ {0}
      BY <1>1
    <3>3. QED
      BY <1>2, <2>1, <3>1, <3>2, DivUnique, SMTT(30)
  <2>2. CASE a + b + c < 2 * K
    <3>1. a + b + c = 0 * (2 * K) + (a + b + c) /\ a + b + c \in 0..2 * K - 1
      BY <1>1, <2>2
    <3>2. 2 * K \in Nat \ {0}
      BY <1>1
    <3>3. QED
      BY <1>2, <2>2, <3>1, <3>2, DivUnique
  <2>3. QED
    BY <1>1, <2>1, <2>2
<1>4. CarryAt(d, s, v, k) <=> (b >= K /\ a >= K) \/ (u < K /\ (b >= K \/ a >= K))
  BY <1>1 DEF CarryAt
<1>5. CarryAt(d, s, v, k) <=> a + b + c >= 2 * K
  BY <1>1, <1>3, <1>4
<1>6. QED
  BY <1>1, <1>5 DEF a, b

\* Bit k of the borrow chain is the borrow of the lowest k + 1 bits.
LEMMA BorrowOut ==
  ASSUME NEW d \in Int, NEW s \in Int, NEW v \in Int, NEW c \in {0, 1}, NEW k \in Nat,
         Trunc(v, k + 1) = Trunc(d - s - c, k + 1)
  PROVE  BorrowAt(d, s, v, k) <=> Trunc(d, k + 1) < Trunc(s, k + 1) + c
<1> DEFINE K == 2 ^ k
           a == Trunc(d, k + 1)
           b == Trunc(s, k + 1)
           u == Trunc(v, k + 1)
<1>1. /\ K \in Nat \ {0} /\ 2 ^ (k + 1) = 2 * K
      /\ a \in 0..2 * K - 1 /\ b \in 0..2 * K - 1 /\ u \in 0..2 * K - 1
      /\ Bit(d, k) <=> a >= K
      /\ Bit(s, k) <=> b >= K
      /\ Bit(v, k) <=> u >= K
  BY BitOfLow
<1>2. u = (a - b - c) % (2 * K)
  <2>1. k + 1 \in Nat /\ c \in Int
    OBVIOUS
  <2>2. Trunc(d - s - c, k + 1) = Trunc(Trunc(d, k + 1) - Trunc(s, k + 1) - c, k + 1)
    BY <2>1, TruncTrunc, ZenonT(60)
  <2>3. QED
    BY <1>1, <2>2 DEF Trunc
<1> HIDE DEF K, a, b, u
<1>3. u = IF a < b + c THEN a - b - c + 2 * K ELSE a - b - c
  <2>1. CASE a < b + c
    <3> DEFINE e == a - b - c + 2 * K
               m == -1
    <3>1. a - b - c = m * (2 * K) + e /\ e \in 0..2 * K - 1 /\ m \in Int
      BY <1>1, <2>1
    <3>2. 2 * K \in Nat \ {0}
      BY <1>1
    <3> HIDE DEF e, m
    <3>3. (m * (2 * K) + e) % (2 * K) = e
      BY <3>1, <3>2, DivUnique
    <3>4. (a - b - c) % (2 * K) = e
      <4>1. (m * (2 * K) + e) = a - b - c
        BY <3>1
      <4>2. QED
        BY <3>3, <4>1
    <3>5. u = e
      BY <1>2, <3>4
    <3>6. QED
      BY <2>1, <3>5 DEF e
  <2>2. CASE a >= b + c
    <3> DEFINE e == a - b - c
    <3>1. e \in 0..2 * K - 1 /\ 2 * K \in Nat \ {0} /\ 0 * (2 * K) + e = e
      BY <1>1, <2>2
    <3> HIDE DEF e
    <3>2. e % (2 * K) = e
      BY <3>1, DivUnique, SMTT(30)
    <3>3. u = e
      BY <1>2, <3>2 DEF e
    <3>4. QED
      BY <1>1, <2>2, <3>3 DEF e
  <2>3. QED
    BY <1>1, <2>1, <2>2
<1>4. BorrowAt(d, s, v, k) <=> (u >= K /\ (a < K \/ b >= K)) \/ (a < K /\ b >= K)
  BY <1>1 DEF BorrowAt
<1>5. BorrowAt(d, s, v, k) <=> a < b + c
  BY <1>1, <1>3, <1>4
<1>6. QED
  BY <1>5 DEF a, b

\* Truncating to fewer bits later.
LEMMA TruncShorter ==
  ASSUME NEW w \in Nat, NEW x \in Int, NEW n \in Nat, n <= w
  PROVE  Trunc(Trunc(x, w), n) = Trunc(x, n)
<1> DEFINE N == 2 ^ n
           K == 2 ^ (w - n)
           r == Trunc(x, w)
<1>1. N \in Nat \ {0} /\ K \in Nat \ {0} /\ 2 ^ w = K * N
  <2>1. w - n \in Nat /\ (w - n) + n = w
    OBVIOUS
  <2>2. QED
    BY <2>1, PowerSum, PowerFacts
<1>2. PICK q \in Int : x = q * 2 ^ w + r
  BY TruncFacts
<1>3. r \in Int
  BY TruncFacts DEF WordOf
<1> DEFINE p == r \div N
           t == r % N
<1> HIDE DEF N, K, r
<1>4. r = N * p + t /\ t \in 0..N - 1 /\ p \in Int
  BY <1>1, <1>3, DivFacts
<1> HIDE DEF p, t
<1>5. x = (q * K + p) * N + t
  <2>1. q * (K * N) = (q * K) * N
    BY <1>1
  <2>2. q * K \in Int
    BY <1>1
  <2>3. QED
    BY <1>1, <1>2, <1>4, <2>1, <2>2
<1>6. x % N = t
  <2>1. q * K + p \in Int
    BY <1>1, <1>4
  <2>2. QED
    BY <1>1, <1>4, <1>5, <2>1, DivUnique
<1>7. QED
  BY <1>6 DEF Trunc, N, r, t

\* Each carry and each borrow of a sum or a difference of w bits.
LEMMA CarryChain ==
  ASSUME NEW w \in Nat, NEW d \in Int, NEW s \in Int, NEW c \in {0, 1}, NEW k \in Nat, k < w
  PROVE  /\ CarryAt(d, s, Trunc(d + s + c, w), k)
              <=> Trunc(d, k + 1) + Trunc(s, k + 1) + c >= 2 ^ (k + 1)
         /\ BorrowAt(d, s, Trunc(d - s - c, w), k)
              <=> Trunc(d, k + 1) < Trunc(s, k + 1) + c
<1>1. k + 1 \in Nat /\ k + 1 <= w /\ d + s + c \in Int /\ d - s - c \in Int
  OBVIOUS
<1>2. /\ Trunc(Trunc(d + s + c, w), k + 1) = Trunc(d + s + c, k + 1)
      /\ Trunc(Trunc(d - s - c, w), k + 1) = Trunc(d - s - c, k + 1)
  BY <1>1, TruncShorter
<1>3. Trunc(d + s + c, w) \in Int /\ Trunc(d - s - c, w) \in Int
  BY <1>1, TruncFacts DEF WordOf
<1>4. QED
  BY <1>2, <1>3, CarryOut, BorrowOut, ZenonT(60)

-----------------------------------------------------------------------------
(* Addition, subtraction and comparison.                                   *)

\* The flag as a digit.
Carry(fl) == IF "CF" \in fl THEN 1 ELSE 0

\* The flags that describe a result.
Describe(fl, v, w) ==
  /\ "ZF" \in fl <=> v = 0
  /\ "SF" \in fl <=> v >= 2 ^ (w - 1)
  /\ "PF" \in fl <=> Parity(v)

\* Every bit of the two chains is true or false.
LEMMA ChainTypes ==
  ASSUME NEW d, NEW s, NEW v, NEW k
  PROVE  CarryAt(d, s, v, k) \in BOOLEAN /\ BorrowAt(d, s, v, k) \in BOOLEAN
  BY DEF CarryAt, BorrowAt

\* The half of a byte that the auxiliary carry is about.
LEMMA NibbleFacts ==
  /\ ByteBits \in Nat /\ ByteBits >= 2 /\ Nibble < ByteBits
  /\ Nibble \in Nat \ {0} /\ Nibble - 1 \in Nat /\ (Nibble - 1) + 1 = Nibble
  BY WordsAssumption DEF Nibble

\* A word and its lower w - 1 bits.
LEMMA LowPart ==
  ASSUME NEW w \in Nat, w >= 2, NEW x \in WordOf(w)
  PROVE  Trunc(x, w - 1) = IF x >= 2 ^ (w - 1) THEN x - 2 ^ (w - 1) ELSE x
<1> DEFINE M == 2 ^ (w - 1)
<1>1. M \in Nat \ {0} /\ 2 ^ w = 2 * M
  BY TopBit
<1>2. x \in 0..2 * M - 1
  BY <1>1 DEF WordOf
<1> HIDE DEF M
<1>3. CASE x >= M
  <2> DEFINE r == x - M
  <2>1. r \in 0..M - 1 /\ x = 1 * M + r
    BY <1>1, <1>2, <1>3
  <2> HIDE DEF r
  <2>2. x % M = r
    BY <1>1, <2>1, DivUnique
  <2>3. QED
    BY <1>3, <2>2 DEF Trunc, M, r
<1>4. CASE x < M
  <2>1. x \in 0..M - 1 /\ x = 0 * M + x
    BY <1>1, <1>2, <1>4
  <2>2. x % M = x
    BY <1>1, <2>1, DivUnique
  <2>3. QED
    BY <1>1, <1>2, <1>4, <2>2 DEF Trunc, M
<1>5. QED
  BY <1>1, <1>2, <1>3, <1>4 DEF M

\* The word that is left of a sum, and the bit above it.
LEMMA SumWord ==
  ASSUME NEW w \in Nat, NEW x \in 0..2 * 2 ^ w - 1
  PROVE  /\ Trunc(x, w) \in WordOf(w)
         /\ Bit(x, w) <=> x >= 2 ^ w
         /\ Trunc(x, w) = IF x >= 2 ^ w THEN x - 2 ^ w ELSE x
<1>1. 2 ^ w \in Nat \ {0} /\ 2 ^ (w + 1) = 2 * 2 ^ w
  BY PowerFacts
<1>3. x \in Int
  BY <1>1
<1>4. Trunc(x, w) \in WordOf(w)
  BY <1>3, TruncFacts
<1>5. Bit(x, w) <=> x >= 2 ^ w
  <2>1. x \in WordOf(w + 1) /\ w + 1 \in Nat \ {0} /\ (w + 1) - 1 = w
    BY <1>1 DEF WordOf
  <2>2. Bit(x, (w + 1) - 1) <=> x >= 2 ^ ((w + 1) - 1)
    BY <2>1, TopBit
  <2>3. QED
    BY <2>1, <2>2
<1>6. CASE x >= 2 ^ w
  <2> DEFINE e == x - 2 ^ w
             q == 1
  <2>1. e \in WordOf(w) /\ x = q * 2 ^ w + e /\ q \in Int
    BY <1>1, <1>3, <1>6 DEF WordOf
  <2> HIDE DEF e, q
  <2>2. Trunc(q * 2 ^ w + e, w) = e
    BY <2>1, TruncUnique
  <2>3. QED
    BY <1>4, <1>5, <1>6, <2>1, <2>2 DEF e
<1>7. CASE x < 2 ^ w
  <2>1. x \in WordOf(w)
    BY <1>1, <1>3, <1>7 DEF WordOf
  <2>2. Trunc(x, w) = x
    BY <1>3, <2>1, TruncFacts
  <2>3. QED
    BY <1>1, <1>3, <1>4, <1>5, <1>7, <2>2
<1>8. QED
  BY <1>1, <1>3, <1>6, <1>7

\* adc and add: the result and the carry are the unsigned sum, the overflow
\* says that the signed sum is no integer of this width, the auxiliary carry
\* is that of the lower half of the byte (adc_byte, adc_word, adc_long).
THEOREM AdcIsExact ==
  ASSUME NEW w \in Nat, w >= ByteBits, NEW d \in WordOf(w), NEW s \in WordOf(w), NEW fl
  PROVE  LET r == Adc(w, d, s, fl)
             c == Carry(fl)
         IN  /\ r.v \in WordOf(w)
             /\ r.v + Carry(r.fl) * 2 ^ w = d + s + c
             /\ "OF" \in r.fl <=> Signed(d, w) + Signed(s, w) + c \notin SignedRange(w)
             /\ "AF" \in r.fl <=> Trunc(d, Nibble) + Trunc(s, Nibble) + c >= 2 ^ Nibble
             /\ Describe(r.fl, r.v, w)
             /\ r.fl \ Arithmetic = fl \ Arithmetic
<1> DEFINE c   == Carry(fl)
           sum == d + s + c
           v   == Trunc(sum, w)
           M   == 2 ^ (w - 1)
           g   == Adc(w, d, s, fl).fl
<1>1. /\ w \in Nat \ {0} /\ w - 1 \in Nat \ {0} /\ w - 2 \in Nat /\ w - 2 < w /\ w - 1 < w
      /\ (w - 1) + 1 = w /\ (w - 2) + 1 = w - 1 /\ w >= 2 /\ Nibble < w
      /\ M \in Nat \ {0} /\ 2 ^ w = 2 * M
      /\ d \in 0..2 * M - 1 /\ s \in 0..2 * M - 1 /\ c \in {0, 1} /\ sum \in Int
  <2>1. w \in Nat \ {0} /\ w >= 2 /\ Nibble < w
    BY NibbleFacts
  <2>2. M \in Nat \ {0} /\ 2 ^ w = 2 * M
    BY <2>1, TopBit
  <2>3. QED
    BY <2>1, <2>2 DEF WordOf, Carry
<1>2. /\ CarryAt(d, s, v, w - 1) <=> d + s + c >= 2 * M
      /\ CarryAt(d, s, v, w - 2) <=> Trunc(d, w - 1) + Trunc(s, w - 1) + c >= M
  <2> HIDE DEF c
  <2>1. Trunc(d, w) = d /\ Trunc(s, w) = s
    BY <1>1, TruncFacts
  <2>2. d \in Int /\ s \in Int
    BY <1>1
  <2>3. CarryAt(d, s, v, w - 1) <=> Trunc(d, (w - 1) + 1) + Trunc(s, (w - 1) + 1) + c >= 2 ^ ((w - 1) + 1)
    BY <1>1, <2>2, CarryChain
  <2>4. CarryAt(d, s, v, w - 2) <=> Trunc(d, (w - 2) + 1) + Trunc(s, (w - 2) + 1) + c >= 2 ^ ((w - 2) + 1)
    BY <1>1, <2>2, CarryChain
  <2>5. QED
    BY <1>1, <2>1, <2>3, <2>4
<1>3. CarryAt(d, s, v, Nibble - 1) <=> Trunc(d, Nibble) + Trunc(s, Nibble) + c >= 2 ^ Nibble
  <2> HIDE DEF c
  <2>1. d \in Int /\ s \in Int /\ Nibble - 1 < w
    BY <1>1, NibbleFacts
  <2>2. CarryAt(d, s, v, Nibble - 1) <=>
          Trunc(d, (Nibble - 1) + 1) + Trunc(s, (Nibble - 1) + 1) + c >= 2 ^ ((Nibble - 1) + 1)
    BY <1>1, <2>1, NibbleFacts, CarryChain
  <2>3. QED
    BY <2>2, NibbleFacts
<1>4. /\ v \in WordOf(w)
      /\ Bit(sum, w) <=> sum >= 2 * M
      /\ v = IF sum >= 2 * M THEN sum - 2 * M ELSE sum
  BY <1>1, SumWord
<1>5. /\ Adc(w, d, s, fl).v = v
      /\ Describe(g, v, w)
      /\ "CF" \in g <=> Bit(sum, w)
      /\ "AF" \in g <=> CarryAt(d, s, v, Nibble - 1)
      /\ "OF" \in g <=> ~(CarryAt(d, s, v, w - 2) <=> CarryAt(d, s, v, w - 1))
      /\ g \ Arithmetic = fl \ Arithmetic
  <2> DEFINE cf == Bit(sum, w)
             af == CarryAt(d, s, v, Nibble - 1)
             of == CarryAt(d, s, v, w - 2) # CarryAt(d, s, v, w - 1)
  <2>1. /\ Adc(w, d, s, fl).v = v
        /\ g = Update(fl, Arithmetic, Zsp(v, w) \cup On("CF", cf) \cup On("AF", af) \cup On("OF", of))
    BY DEF Adc, Ans, Carry
  <2>2. of <=> ~(CarryAt(d, s, v, w - 2) <=> CarryAt(d, s, v, w - 1))
    BY ChainTypes
  <2>3. Bit(v, w - 1) <=> v >= M
    BY <1>1, <1>4, TopBit
  <2> HIDE DEF cf, af, of, v, g, sum
  <2>4. /\ Describe(g, v, w)
        /\ "CF" \in g <=> cf
        /\ "AF" \in g <=> af
        /\ "OF" \in g <=> of
        /\ g \ Arithmetic = fl \ Arithmetic
    BY <2>1, <2>3 DEF Describe, Update, Arithmetic, Zsp, On
  <2>5. QED
    BY <2>1, <2>2, <2>4 DEF cf, af
<1> HIDE DEF c, v, M, g, sum
<1>6. v + Carry(g) * 2 ^ w = d + s + c
  BY <1>1, <1>4, <1>5 DEF Carry, sum
<1>7. "OF" \in g <=> Signed(d, w) + Signed(s, w) + c \notin SignedRange(w)
  <2>1. /\ Trunc(d, w - 1) = IF d >= M THEN d - M ELSE d
        /\ Trunc(s, w - 1) = IF s >= M THEN s - M ELSE s
    BY <1>1, LowPart DEF M
  <2>2. /\ Signed(d, w) = IF d >= M THEN d - 2 * M ELSE d
        /\ Signed(s, w) = IF s >= M THEN s - 2 * M ELSE s
    BY <1>1, TopBit DEF M
  <2>3. SignedRange(w) = -M..M - 1
    BY DEF SignedRange, M
  <2>4. "OF" \in g <=> ~((d + s + c >= 2 * M) <=> (Trunc(d, w - 1) + Trunc(s, w - 1) + c >= M))
    BY <1>2, <1>5
  <2>5. QED
    BY <1>1, <2>1, <2>2, <2>3, <2>4, SMTT(30)
<1>8. QED
  BY <1>3, <1>4, <1>5, <1>6, <1>7 DEF c, v, g, sum

\* The word that is left of a difference.
LEMMA DifferenceWord ==
  ASSUME NEW w \in Nat, NEW x \in -(2 ^ w)..2 ^ w - 1
  PROVE  /\ Trunc(x, w) \in WordOf(w)
         /\ Trunc(x, w) = IF x < 0 THEN x + 2 ^ w ELSE x
<1>1. 2 ^ w \in Nat \ {0}
  BY PowerFacts
<1>2. x \in Int
  BY <1>1
<1>3. Trunc(x, w) \in WordOf(w)
  BY <1>2, TruncFacts
<1>4. CASE x < 0
  <2> DEFINE e == x + 2 ^ w
             q == -1
  <2>1. e \in WordOf(w) /\ x = q * 2 ^ w + e /\ q \in Int
    BY <1>1, <1>2, <1>4 DEF WordOf
  <2> HIDE DEF e, q
  <2>2. Trunc(q * 2 ^ w + e, w) = e
    BY <2>1, TruncUnique
  <2>3. QED
    BY <1>3, <1>4, <2>1, <2>2 DEF e
<1>5. CASE x >= 0
  <2>1. x \in WordOf(w)
    BY <1>1, <1>2, <1>5 DEF WordOf
  <2>2. Trunc(x, w) = x
    BY <1>2, <2>1, TruncFacts
  <2>3. QED
    BY <1>1, <1>2, <1>3, <1>5, <2>2
<1>6. QED
  BY <1>1, <1>2, <1>4, <1>5

\* sbb, sub and cmp: the result and the carry are the unsigned difference and
\* its borrow, the overflow says that the signed difference is no integer of
\* this width, the auxiliary carry is the borrow of the lower half of the byte
\* (sbb_byte, sbb_word, sbb_long).
THEOREM SbbIsExact ==
  ASSUME NEW w \in Nat, w >= ByteBits, NEW d \in WordOf(w), NEW s \in WordOf(w), NEW fl
  PROVE  LET r == Sbb(w, d, s, fl)
             c == Carry(fl)
         IN  /\ r.v \in WordOf(w)
             /\ r.v - Carry(r.fl) * 2 ^ w = d - s - c
             /\ "OF" \in r.fl <=> Signed(d, w) - Signed(s, w) - c \notin SignedRange(w)
             /\ "AF" \in r.fl <=> Trunc(d, Nibble) < Trunc(s, Nibble) + c
             /\ Describe(r.fl, r.v, w)
             /\ r.fl \ Arithmetic = fl \ Arithmetic
<1> DEFINE c   == Carry(fl)
           dif == d - s - c
           v   == Trunc(dif, w)
           M   == 2 ^ (w - 1)
           g   == Sbb(w, d, s, fl).fl
<1>1. /\ w \in Nat \ {0} /\ w - 1 \in Nat \ {0} /\ w - 2 \in Nat /\ w - 2 < w /\ w - 1 < w
      /\ (w - 1) + 1 = w /\ (w - 2) + 1 = w - 1 /\ w >= 2 /\ Nibble < w
      /\ M \in Nat \ {0} /\ 2 ^ w = 2 * M
      /\ d \in 0..2 * M - 1 /\ s \in 0..2 * M - 1 /\ c \in {0, 1} /\ dif \in Int
  <2>1. w \in Nat \ {0} /\ w >= 2 /\ Nibble < w
    BY NibbleFacts
  <2>2. M \in Nat \ {0} /\ 2 ^ w = 2 * M
    BY <2>1, TopBit
  <2>3. QED
    BY <2>1, <2>2 DEF WordOf, Carry
<1>2. /\ BorrowAt(d, s, v, w - 1) <=> d < s + c
      /\ BorrowAt(d, s, v, w - 2) <=> Trunc(d, w - 1) < Trunc(s, w - 1) + c
  <2> HIDE DEF c
  <2>1. Trunc(d, w) = d /\ Trunc(s, w) = s
    BY <1>1, TruncFacts
  <2>2. d \in Int /\ s \in Int
    BY <1>1
  <2>3. BorrowAt(d, s, v, w - 1) <=> Trunc(d, (w - 1) + 1) < Trunc(s, (w - 1) + 1) + c
    BY <1>1, <2>2, CarryChain
  <2>4. BorrowAt(d, s, v, w - 2) <=> Trunc(d, (w - 2) + 1) < Trunc(s, (w - 2) + 1) + c
    BY <1>1, <2>2, CarryChain
  <2>5. QED
    BY <1>1, <2>1, <2>3, <2>4
<1>3. BorrowAt(d, s, v, Nibble - 1) <=> Trunc(d, Nibble) < Trunc(s, Nibble) + c
  <2> HIDE DEF c
  <2>1. d \in Int /\ s \in Int /\ Nibble - 1 < w
    BY <1>1, NibbleFacts
  <2>2. BorrowAt(d, s, v, Nibble - 1) <=>
          Trunc(d, (Nibble - 1) + 1) < Trunc(s, (Nibble - 1) + 1) + c
    BY <1>1, <2>1, NibbleFacts, CarryChain
  <2>3. QED
    BY <2>2, NibbleFacts
<1>4. /\ v \in WordOf(w)
      /\ v = IF dif < 0 THEN dif + 2 * M ELSE dif
  BY <1>1, DifferenceWord
<1>5. /\ Sbb(w, d, s, fl).v = v
      /\ Describe(g, v, w)
      /\ "CF" \in g <=> BorrowAt(d, s, v, w - 1)
      /\ "AF" \in g <=> BorrowAt(d, s, v, Nibble - 1)
      /\ "OF" \in g <=> ~(BorrowAt(d, s, v, w - 2) <=> BorrowAt(d, s, v, w - 1))
      /\ g \ Arithmetic = fl \ Arithmetic
  <2> DEFINE cf == BorrowAt(d, s, v, w - 1)
             af == BorrowAt(d, s, v, Nibble - 1)
             of == BorrowAt(d, s, v, w - 2) # BorrowAt(d, s, v, w - 1)
  <2>1. /\ Sbb(w, d, s, fl).v = v
        /\ g = Update(fl, Arithmetic, Zsp(v, w) \cup On("CF", cf) \cup On("AF", af) \cup On("OF", of))
    BY DEF Sbb, Ans, Carry
  <2>2. of <=> ~(BorrowAt(d, s, v, w - 2) <=> BorrowAt(d, s, v, w - 1))
    BY ChainTypes
  <2>3. Bit(v, w - 1) <=> v >= M
    BY <1>1, <1>4, TopBit
  <2> HIDE DEF cf, af, of, v, g, dif
  <2>4. /\ Describe(g, v, w)
        /\ "CF" \in g <=> cf
        /\ "AF" \in g <=> af
        /\ "OF" \in g <=> of
        /\ g \ Arithmetic = fl \ Arithmetic
    BY <2>1, <2>3 DEF Describe, Update, Arithmetic, Zsp, On
  <2>5. QED
    BY <2>1, <2>2, <2>4 DEF cf, af
<1> HIDE DEF c, v, M, g, dif
<1>6. v - Carry(g) * 2 ^ w = d - s - c
  BY <1>1, <1>2, <1>4, <1>5 DEF Carry, dif
<1>7. "OF" \in g <=> Signed(d, w) - Signed(s, w) - c \notin SignedRange(w)
  <2>1. /\ Trunc(d, w - 1) = IF d >= M THEN d - M ELSE d
        /\ Trunc(s, w - 1) = IF s >= M THEN s - M ELSE s
    BY <1>1, LowPart DEF M
  <2>2. /\ Signed(d, w) = IF d >= M THEN d - 2 * M ELSE d
        /\ Signed(s, w) = IF s >= M THEN s - 2 * M ELSE s
    BY <1>1, TopBit DEF M
  <2>3. SignedRange(w) = -M..M - 1
    BY DEF SignedRange, M
  <2>4. "OF" \in g <=> ~((d < s + c) <=> (Trunc(d, w - 1) < Trunc(s, w - 1) + c))
    BY <1>2, <1>5
  <2>5. QED
    BY <1>1, <2>1, <2>2, <2>3, <2>4, SMTT(30)
<1>8. QED
  BY <1>3, <1>4, <1>5, <1>6, <1>7 DEF c, v, g, dif

\* Every condition decides, from the flags alone, what cmp compared: unsigned,
\* signed, equality, sign, parity and overflow (cmp_byte .. cmp_long,
\* eval_condition).
THEOREM ConditionsDecide ==
  ASSUME NEW w \in Nat, w >= ByteBits, NEW d \in WordOf(w), NEW s \in WordOf(w), NEW fl,
         NEW n \in 0..15
  PROVE  /\ Cmp(w, d, s, fl).v = d
         /\ EvalCondition(n, Cmp(w, d, s, fl).fl) <=> Relation(n, w, d, s)
<1> DEFINE h == fl \ {"CF"}
           g == Cmp(w, d, s, fl).fl
           v == Sbb(w, d, s, h).v
           M == 2 ^ (w - 1)
           x == Signed(d, w)
           y == Signed(s, w)
<1>1. Cmp(w, d, s, fl).v = d /\ g = Sbb(w, d, s, h).fl /\ Carry(h) = 0
  BY DEF Cmp, Sub, Ans, Carry
<1>2. /\ v \in WordOf(w)
      /\ v - Carry(g) * 2 ^ w = d - s - Carry(h)
      /\ "OF" \in g <=> x - y - Carry(h) \notin SignedRange(w)
      /\ Describe(g, v, w)
  <2> HIDE DEF h
  <2>1. /\ Sbb(w, d, s, h).v \in WordOf(w)
        /\ Sbb(w, d, s, h).v - Carry(Sbb(w, d, s, h).fl) * 2 ^ w = d - s - Carry(h)
        /\ "OF" \in Sbb(w, d, s, h).fl <=> Signed(d, w) - Signed(s, w) - Carry(h) \notin SignedRange(w)
        /\ Describe(Sbb(w, d, s, h).fl, Sbb(w, d, s, h).v, w)
    BY SbbIsExact
  <2> HIDE DEF g
  <2>2. QED
    BY <1>1, <2>1
<1>3. w \in Nat \ {0} /\ w >= 2
  BY NibbleFacts
<1>4. /\ M \in Nat \ {0} /\ 2 ^ w = 2 * M
      /\ d \in 0..2 * M - 1 /\ s \in 0..2 * M - 1 /\ v \in 0..2 * M - 1
      /\ x = IF d >= M THEN d - 2 * M ELSE d
      /\ y = IF s >= M THEN s - 2 * M ELSE s
  <2>1. M \in Nat \ {0} /\ 2 ^ w = 2 * M
    BY <1>3, TopBit
  <2>2. /\ x = IF d >= M THEN d - 2 * M ELSE d
        /\ y = IF s >= M THEN s - 2 * M ELSE s
    BY <1>3, <2>1, TopBit
  <2>3. QED
    BY <1>2, <2>1, <2>2 DEF WordOf
<1>5. Trunc(d - s, w) = v
  <2>1. Trunc(d - s - Carry(h), w) = v
    BY DEF Sbb, Ans, Carry
  <2>2. d - s - Carry(h) = d - s
    BY <1>1, <1>4
  <2>3. QED
    BY <2>1, <2>2
<1>6. SignedRange(w) = -M..M - 1
  BY DEF SignedRange
<1> HIDE DEF g, v, x, y, M, h
<1>7. v = IF d < s THEN d - s + 2 * M ELSE d - s
  BY <1>1, <1>2, <1>4 DEF Carry
<1>8. "CF" \in g <=> d < s
  BY <1>1, <1>2, <1>4 DEF Carry
<1>9. "ZF" \in g <=> d = s
  BY <1>2, <1>4, <1>7 DEF Describe
<1>10. "SF" \in g <=> v >= M
  BY <1>2 DEF Describe, M
<1>11. "OF" \in g <=> x - y \notin -M..M - 1
  BY <1>1, <1>2, <1>4, <1>6, SMTT(30)
<1>12. ~("SF" \in g <=> "OF" \in g) <=> x < y
  BY <1>4, <1>7, <1>10, <1>11
<1>13. ("ZF" \in g \/ ~("SF" \in g <=> "OF" \in g)) <=> x <= y
  BY <1>4, <1>9, <1>12
<1>14. g \cap {"CF", "ZF"} # {} <=> d <= s
  BY <1>4, <1>8, <1>9
<1>15. "PF" \in g <=> Cardinality({k \in 0..ByteBits - 1 : Bit(Trunc(d - s, w), k)}) % 2 = 0
  <2>1. "PF" \in g <=> Parity(Trunc(d - s, w))
    BY <1>2, <1>5 DEF Describe
  <2>2. QED
    BY <2>1 DEF Parity
<1> DEFINE less == ("SF" \in g) # ("OF" \in g)
<1>16. (less <=> x < y) /\ ("ZF" \in g \/ less <=> x <= y)
  BY <1>12, <1>13
<1>17. n \div 2 \in 0..7
  OBVIOUS
<1>18. EvalCondition(n, g) <=> Relation(n, w, d, s)
  <2> HIDE DEF less
  <2> DEFINE cond == CASE n \div 2 = 0 -> "OF" \in g
                       [] n \div 2 = 1 -> "CF" \in g
                       [] n \div 2 = 2 -> "ZF" \in g
                       [] n \div 2 = 3 -> g \cap {"CF", "ZF"} # {}
                       [] n \div 2 = 4 -> "SF" \in g
                       [] n \div 2 = 5 -> "PF" \in g
                       [] n \div 2 = 6 -> less
                       [] n \div 2 = 7 -> "ZF" \in g \/ less
             rel  == CASE n \div 2 = 0 -> x - y \notin SignedRange(w)
                       [] n \div 2 = 1 -> d < s
                       [] n \div 2 = 2 -> d = s
                       [] n \div 2 = 3 -> d <= s
                       [] n \div 2 = 4 -> Trunc(d - s, w) >= 2 ^ (w - 1)
                       [] n \div 2 = 5 -> Cardinality({k \in 0..ByteBits - 1 : Bit(Trunc(d - s, w), k)}) % 2 = 0
                       [] n \div 2 = 6 -> x < y
                       [] n \div 2 = 7 -> x <= y
  <2>1. cond <=> rel
    BY <1>5, <1>6, <1>8, <1>9, <1>10, <1>11, <1>14, <1>15, <1>16, <1>17, SMTT(30) DEF M
  <2>2. EvalCondition(n, g) <=> IF n % 2 = 1 THEN ~cond ELSE cond
    BY DEF EvalCondition, less
  <2>3. Relation(n, w, d, s) <=> IF n % 2 = 1 THEN ~rel ELSE rel
    BY DEF Relation, x, y
  <2> HIDE DEF cond, rel
  <2>4. QED
    BY <2>1, <2>2, <2>3
<1>19. QED
  BY <1>1, <1>18 DEF g


\* One is a word and stands for itself.
LEMMA One ==
  ASSUME NEW w \in Nat, w >= ByteBits
  PROVE  1 \in WordOf(w) /\ Signed(1, w) = 1 /\ w \in Nat \ {0} /\ 0 \in WordOf(w) /\ Signed(0, w) = 0
<1> DEFINE M == 2 ^ (w - 1)
           H == 2 ^ (w - 2)
<1>1. w >= 2 /\ w \in Nat \ {0} /\ w - 2 \in Nat /\ w - 1 \in Nat /\ (w - 2) + 1 = w - 1
      /\ (w - 1) + 1 = w
  BY NibbleFacts
<1>2. H \in Nat \ {0} /\ M = 2 * H /\ 2 ^ w = 2 * M
  <2>1. 2 ^ ((w - 2) + 1) = 2 * 2 ^ (w - 2) /\ 2 ^ ((w - 1) + 1) = 2 * 2 ^ (w - 1)
    BY <1>1, PowerFacts
  <2>2. QED
    BY <1>1, <2>1, PowerFacts
<1> DEFINE one  == 1
           zero == 0
<1>3. one \in WordOf(w) /\ zero \in WordOf(w)
  BY <1>2 DEF WordOf
<1> HIDE DEF M, H, one, zero
<1>4. /\ Signed(one, w) = IF one >= M THEN one - 2 ^ w ELSE one
      /\ Signed(zero, w) = IF zero >= M THEN zero - 2 ^ w ELSE zero
  BY <1>1, <1>3, TopBit DEF M
<1>5. QED
  BY <1>1, <1>2, <1>3, <1>4 DEF one, zero

\* inc and dec are exact and never touch the carry (inc_byte, dec_byte and
\* their wider versions).
THEOREM IncDecAreExact ==
  ASSUME NEW w \in Nat, w >= ByteBits, NEW d \in WordOf(w), NEW fl
  PROVE  /\ LET r == Inc(w, d, fl)
            IN  /\ r.v = Trunc(d + 1, w) /\ Describe(r.fl, r.v, w)
                /\ "OF" \in r.fl <=> Signed(d, w) + 1 \notin SignedRange(w)
                /\ "CF" \in r.fl <=> "CF" \in fl
                /\ r.fl \ Arithmetic = fl \ Arithmetic
         /\ LET r == Dec(w, d, fl)
            IN  /\ r.v = Trunc(d - 1, w) /\ Describe(r.fl, r.v, w)
                /\ "OF" \in r.fl <=> Signed(d, w) - 1 \notin SignedRange(w)
                /\ "CF" \in r.fl <=> "CF" \in fl
                /\ r.fl \ Arithmetic = fl \ Arithmetic
<1> DEFINE h   == fl \ {"CF"}
           one == 1
           add == Adc(w, d, one, h)
           sub == Sbb(w, d, one, h)
           sg  == Signed(d, w)
<1>1. w \in Nat \ {0} /\ one \in WordOf(w) /\ Signed(one, w) = 1 /\ d \in Int /\ sg \in Int
  <2>1. w \in Nat \ {0} /\ one \in WordOf(w) /\ Signed(one, w) = 1
    BY One
  <2>2. 2 ^ w \in Nat \ {0} /\ 2 ^ (w - 1) \in Nat \ {0} /\ sg \in SignedRange(w)
    BY <2>1, TopBit, PowerFacts
  <2>3. QED
    BY <2>1, <2>2 DEF WordOf, SignedRange
<1>2. Carry(h) = 0 /\ h \ Arithmetic = fl \ Arithmetic
  BY DEF Carry, Arithmetic
<1> HIDE DEF one, h, sg
<1>3. add.v = Trunc(d + 1, w) /\ sub.v = Trunc(d - 1, w)
  <2>1. add.v = Trunc(d + one + Carry(h), w) /\ sub.v = Trunc(d - one - Carry(h), w)
    BY DEF Adc, Sbb, Ans, Carry
  <2>2. d + one + Carry(h) = d + 1 /\ d - one - Carry(h) = d - 1
    BY <1>1, <1>2 DEF one
  <2>3. QED
    BY <2>1, <2>2
<1>4. /\ "OF" \in add.fl <=> sg + 1 \notin SignedRange(w)
      /\ Describe(add.fl, add.v, w)
      /\ add.fl \ Arithmetic = fl \ Arithmetic
  <2>0. one \in WordOf(w)
    BY <1>1
  <2>1. /\ "OF" \in Adc(w, d, one, h).fl <=> Signed(d, w) + Signed(one, w) + Carry(h) \notin SignedRange(w)
        /\ Describe(Adc(w, d, one, h).fl, Adc(w, d, one, h).v, w)
        /\ Adc(w, d, one, h).fl \ Arithmetic = h \ Arithmetic
    BY <2>0, AdcIsExact
  <2>2. Signed(d, w) + Signed(one, w) + Carry(h) = sg + 1
    BY <1>1, <1>2 DEF sg
  <2>3. QED
    BY <1>2, <2>1, <2>2
<1>5. /\ "OF" \in sub.fl <=> sg - 1 \notin SignedRange(w)
      /\ Describe(sub.fl, sub.v, w)
      /\ sub.fl \ Arithmetic = fl \ Arithmetic
  <2>0. one \in WordOf(w)
    BY <1>1
  <2>1. /\ "OF" \in Sbb(w, d, one, h).fl <=> Signed(d, w) - Signed(one, w) - Carry(h) \notin SignedRange(w)
        /\ Describe(Sbb(w, d, one, h).fl, Sbb(w, d, one, h).v, w)
        /\ Sbb(w, d, one, h).fl \ Arithmetic = h \ Arithmetic
    BY <2>0, SbbIsExact
  <2>2. Signed(d, w) - Signed(one, w) - Carry(h) = sg - 1
    BY <1>1, <1>2 DEF sg
  <2>3. QED
    BY <1>2, <2>1, <2>2
<1>6. /\ Inc(w, d, fl) = Ans(add.v, Update(add.fl, {"CF"}, fl \cap {"CF"}))
      /\ Dec(w, d, fl) = Ans(sub.v, Update(sub.fl, {"CF"}, fl \cap {"CF"}))
  BY DEF Inc, Dec, Add, Sub, one, h
<1> HIDE DEF add, sub
<1>7. /\ Inc(w, d, fl).v = add.v /\ Inc(w, d, fl).fl = (add.fl \ {"CF"}) \cup (fl \cap {"CF"})
      /\ Dec(w, d, fl).v = sub.v /\ Dec(w, d, fl).fl = (sub.fl \ {"CF"}) \cup (fl \cap {"CF"})
  BY <1>6 DEF Ans, Update
<1> DEFINE g == Inc(w, d, fl).fl
           e == Dec(w, d, fl).fl
<1> HIDE DEF g, e
<1>8. /\ \A f \in {"ZF", "SF", "PF", "OF"} : f \in g <=> f \in add.fl
      /\ "CF" \in g <=> "CF" \in fl
      /\ g \ Arithmetic = add.fl \ Arithmetic
  BY <1>7 DEF g, Arithmetic
<1>9. /\ \A f \in {"ZF", "SF", "PF", "OF"} : f \in e <=> f \in sub.fl
      /\ "CF" \in e <=> "CF" \in fl
      /\ e \ Arithmetic = sub.fl \ Arithmetic
  BY <1>7 DEF e, Arithmetic
<1>10. Describe(g, add.v, w) /\ Describe(e, sub.v, w)
  BY <1>4, <1>5, <1>8, <1>9 DEF Describe
<1>11. QED
  BY <1>3, <1>4, <1>5, <1>7, <1>8, <1>9, <1>10 DEF g, e, sg

\* neg is the subtraction from zero (neg_byte, neg_word, neg_long), which
\* SbbIsExact is about.
THEOREM NegIsSubtraction ==
  ASSUME NEW w \in Nat, w >= ByteBits, NEW s \in WordOf(w), NEW fl
  PROVE  Neg(w, s, fl) = Sub(w, 0, s, fl)
<1> DEFINE z == 0
           h == fl \ {"CF"}
           v == Trunc(-s, w)
<1>1. w \in Nat \ {0} /\ z \in WordOf(w) /\ s \in Int /\ s >= 0
  <2>1. 2 ^ w \in Nat
    BY PowerFacts
  <2>2. QED
    BY <2>1, One DEF WordOf
<1>2. \A k \in Nat : ~Bit(z, k)
  <2>1. SUFFICES ASSUME NEW k \in Nat PROVE ~Bit(z, k)
    OBVIOUS
  <2>2. 2 ^ k \in Nat \ {0}
    BY PowerFacts
  <2>3. 0 \div 2 ^ k = 0
    BY <2>2, DivUnique
  <2>4. 0 % 2 # 1
    OBVIOUS
  <2>5. QED
    BY <2>3, <2>4 DEF Bit
<1>3. \A k \in Nat : BorrowAt(z, s, v, k) = (Bit(v, k) \/ Bit(s, k))
  BY <1>2 DEF BorrowAt
<1>4. Carry(h) = 0 /\ Trunc(z - s - Carry(h), w) = v
  <2>1. Carry(h) = 0
    BY DEF Carry
  <2>2. z - s - Carry(h) = -s
    BY <1>1, <2>1
  <2>3. QED
    BY <2>1, <2>2
<1>5. BorrowAt(z, s, v, w - 1) = (s # 0)
  <2>1. w - 1 \in Nat /\ w - 1 < w /\ (w - 1) + 1 = w /\ z \in Int
    BY <1>1
  <2>2. Carry(h) \in {0, 1}
    BY <1>4
  <2> HIDE DEF z, h, v
  <2>3. BorrowAt(z, s, Trunc(z - s - Carry(h), w), w - 1)
          <=> Trunc(z, (w - 1) + 1) < Trunc(s, (w - 1) + 1) + Carry(h)
    BY <1>1, <2>1, <2>2, CarryChain
  <2>4. Trunc(z, w) = z /\ Trunc(s, w) = s
    BY <1>1, <2>1, TruncFacts
  <2>5. BorrowAt(z, s, v, w - 1) <=> z < s
    BY <1>1, <1>4, <2>1, <2>3, <2>4
  <2>6. BorrowAt(z, s, v, w - 1) \in BOOLEAN
    BY ChainTypes
  <2>7. QED
    BY <1>1, <2>5, <2>6 DEF z
<1>6. Nibble - 1 \in Nat /\ w - 2 \in Nat /\ w - 1 \in Nat
  BY NibbleFacts
<1>7. Sub(w, z, s, fl) = Ans(v, Update(h, Arithmetic, Zsp(v, w)
            \cup On("CF", BorrowAt(z, s, v, w - 1)) \cup On("AF", BorrowAt(z, s, v, Nibble - 1))
            \cup On("OF", BorrowAt(z, s, v, w - 2) # BorrowAt(z, s, v, w - 1))))
  <2>1. Sub(w, z, s, fl) = LET u == Trunc(z - s - Carry(h), w)
                           IN  Ans(u, Update(h, Arithmetic, Zsp(u, w)
            \cup On("CF", BorrowAt(z, s, u, w - 1)) \cup On("AF", BorrowAt(z, s, u, Nibble - 1))
            \cup On("OF", BorrowAt(z, s, u, w - 2) # BorrowAt(z, s, u, w - 1))))
    BY DEF Sub, Sbb, Carry
  <2> HIDE DEF z, h, v
  <2>2. QED
    BY <1>4, <2>1
<1>8. Neg(w, s, fl) = Ans(v, Update(fl, Arithmetic, Zsp(v, w)
            \cup On("CF", s # 0) \cup On("AF", Bit(v, Nibble - 1) \/ Bit(s, Nibble - 1))
            \cup On("OF", (Bit(v, w - 2) \/ Bit(s, w - 2)) # (Bit(v, w - 1) \/ Bit(s, w - 1)))))
  BY DEF Neg
<1>9. \A on : Update(h, Arithmetic, on) = Update(fl, Arithmetic, on)
  BY DEF Update, Arithmetic
<1> HIDE DEF z, h, v
<1> DEFINE b(k) == Bit(v, k) \/ Bit(s, k)
<1>10. /\ BorrowAt(z, s, v, w - 1) = (s # 0) /\ BorrowAt(z, s, v, w - 1) = b(w - 1)
       /\ BorrowAt(z, s, v, w - 2) = b(w - 2) /\ BorrowAt(z, s, v, Nibble - 1) = b(Nibble - 1)
  BY <1>3, <1>5, <1>6
<1> HIDE DEF b
<1>11. Neg(w, s, fl) = Ans(v, Update(fl, Arithmetic, Zsp(v, w)
            \cup On("CF", s # 0) \cup On("AF", b(Nibble - 1))
            \cup On("OF", b(w - 2) # b(w - 1))))
  BY <1>8 DEF b
<1>12. Sub(w, z, s, fl) = Neg(w, s, fl)
  BY <1>7, <1>9, <1>10, <1>11
<1>13. QED
  BY <1>12 DEF z

-----------------------------------------------------------------------------
(* Multiplication and division.                                            *)

\* The word of an integer in the range stands for that integer.
LEMMA SignedTrunc ==
  ASSUME NEW w \in Nat \ {0}, NEW x \in SignedRange(w)
  PROVE  Trunc(x, w) \in WordOf(w) /\ Signed(Trunc(x, w), w) = x
<1> DEFINE M == 2 ^ (w - 1)
           z == 0
<1>1. M \in Nat \ {0} /\ 2 ^ w = 2 * M
  <2>1. w - 1 \in Nat /\ (w - 1) + 1 = w
    OBVIOUS
  <2>2. QED
    BY <2>1, PowerFacts
<1>2. x \in -M..M - 1 /\ x \in -(2 ^ w)..2 ^ w - 1
  BY <1>1 DEF SignedRange
<1>3. Trunc(x, w) \in WordOf(w) /\ Trunc(x, w) = IF x < 0 THEN x + 2 ^ w ELSE x
  BY <1>2, DifferenceWord
<1> DEFINE t == Trunc(x, w)
<1> HIDE DEF M, t
<1>4. Signed(t, w) = IF t >= M THEN t - 2 ^ w ELSE t
  BY <1>3, TopBit DEF M, t
<1>5. QED
  BY <1>1, <1>2, <1>3, <1>4 DEF t

\* A number twice as wide is its two halves.
LEMMA Halves ==
  ASSUME NEW w \in Nat, NEW x \in 0..2 ^ w * 2 ^ w - 1
  PROVE  /\ Low(x, w) \in WordOf(w) /\ High(x, w) \in WordOf(w)
         /\ High(x, w) * 2 ^ w + Low(x, w) = x
         /\ High(x, w) = 0 <=> x \in WordOf(w)
<1> DEFINE N == 2 ^ w
           q == x \div N
           r == x % N
<1>1. N \in Nat \ {0}
  BY PowerFacts
<1> HIDE DEF N
<1>2. x \in 0..N * N - 1 /\ N * N \in Nat
  BY <1>1 DEF N
<1>3. x \in Int /\ x = N * q + r /\ r \in 0..N - 1 /\ q \in Int
  BY <1>1, <1>2, DivFacts
<1> HIDE DEF q, r
<1>4. q >= 0
  <2>1. q <= -1 => N * q <= -N
    BY <1>1, <1>3
  <2>2. QED
    BY <1>1, <1>2, <1>3, <2>1
<1>5. q <= N - 1
  <2>1. q >= N => N * q >= N * N
    BY <1>1, <1>3
  <2>2. QED
    BY <1>1, <1>2, <1>3, <2>1
<1>6. q \in WordOf(w) /\ r \in WordOf(w)
  BY <1>1, <1>3, <1>4, <1>5 DEF WordOf, N
<1>7. High(x, w) = q /\ Low(x, w) = r
  <2>1. Trunc(q, w) = q
    BY <1>3, <1>6, TruncFacts
  <2>2. QED
    BY <2>1 DEF High, Low, Trunc, Shr, q, r, N
<1>8. q = 0 <=> x <= N - 1
  <2>1. q >= 1 => N * q >= N
    BY <1>1, <1>3
  <2>2. q = 0 => N * q = 0
    BY <1>1
  <2>3. QED
    BY <1>1, <1>3, <1>4, <2>1, <2>2
<1>9. N * q = q * 2 ^ w
  BY <1>1, <1>3 DEF N
<1>10. x \in WordOf(w) <=> x <= N - 1
  BY <1>2, <1>3 DEF WordOf, N
<1>11. QED
  BY <1>3, <1>6, <1>7, <1>8, <1>9, <1>10

\* So is one with a sign: the sign is in the upper half.
LEMMA SignedHalves ==
  ASSUME NEW w \in Nat \ {0}, NEW x \in -(2 ^ (w - 1) * 2 ^ w)..2 ^ (w - 1) * 2 ^ w - 1
  PROVE  /\ Trunc(x, w) \in WordOf(w) /\ Trunc(Shr(x, w), w) \in WordOf(w)
         /\ Signed(Trunc(Shr(x, w), w), w) * 2 ^ w + Trunc(x, w) = x
<1> DEFINE N == 2 ^ w
           M == 2 ^ (w - 1)
           q == x \div N
           r == x % N
<1>1. N \in Nat \ {0} /\ M \in Nat \ {0}
  <2>1. w - 1 \in Nat
    OBVIOUS
  <2>2. QED
    BY <2>1, PowerFacts
<1> HIDE DEF N, M
<1>2. x \in -(M * N)..M * N - 1 /\ M * N \in Nat
  BY <1>1 DEF N, M
<1>3. x \in Int /\ x = N * q + r /\ r \in 0..N - 1 /\ q \in Int
  BY <1>1, <1>2, DivFacts
<1> HIDE DEF q, r
<1>4. q >= -M
  <2>1. q <= -M - 1 => N * q <= N * (-M - 1)
    BY <1>1, <1>3
  <2>2. N * (-M - 1) = -(M * N) - N
    BY <1>1
  <2>3. QED
    BY <1>1, <1>2, <1>3, <2>1, <2>2
<1>5. q <= M - 1
  <2>1. q >= M => N * q >= N * M
    BY <1>1, <1>3
  <2>2. N * M = M * N
    BY <1>1
  <2>3. QED
    BY <1>1, <1>2, <1>3, <2>1, <2>2
<1>6. q \in SignedRange(w) /\ r \in WordOf(w)
  BY <1>1, <1>3, <1>4, <1>5 DEF WordOf, SignedRange, N, M
<1>7. Trunc(x, w) = r /\ Shr(x, w) = q
  BY DEF Trunc, Shr, q, r, N
<1>8. N * q = q * 2 ^ w
  BY <1>1, <1>3 DEF N
<1>9. Trunc(q, w) \in WordOf(w) /\ Signed(Trunc(q, w), w) = q
  BY <1>6, SignedTrunc
<1>10. QED
  BY <1>3, <1>6, <1>7, <1>8, <1>9

\* Products of bounded factors.
LEMMA ProductBound ==
  ASSUME NEW m \in Nat, NEW a \in -m..m, NEW b \in -m..m
  PROVE  a * b \in -(m * m)..m * m
<1>1. (m - a) * (m + b) >= 0 /\ (m + a) * (m - b) >= 0 /\ (m - a) * (m - b) >= 0 /\ (m + a) * (m + b) >= 0
  <2>1. \A x \in Nat, y \in Nat : x * y >= 0
    OBVIOUS
  <2>2. m - a \in Nat /\ m + a \in Nat /\ m - b \in Nat /\ m + b \in Nat
    OBVIOUS
  <2>3. QED
    BY <2>1, <2>2
<1>2. /\ (m - a) * (m + b) = m * m + m * b - a * m - a * b
      /\ (m + a) * (m - b) = m * m - m * b + a * m - a * b
      /\ (m - a) * (m - b) = m * m - m * b - a * m + a * b
      /\ (m + a) * (m + b) = m * m + m * b + a * m + a * b
  OBVIOUS
<1>3. m * m \in Int /\ m * b \in Int /\ a * m \in Int /\ a * b \in Int
  OBVIOUS
<1>4. QED
  BY <1>1, <1>2, <1>3

\* mul gives the whole product; the carry and the overflow say that it needs
\* the upper half (mul_byte, mul_word, mul_long).
THEOREM MulIsExact ==
  ASSUME NEW w \in Nat, NEW a \in WordOf(w), NEW s \in WordOf(w), NEW fl
  PROVE  LET r == Mul(w, a, s, fl)
         IN  /\ r.hi \in WordOf(w) /\ r.lo \in WordOf(w)
             /\ r.hi * 2 ^ w + r.lo = a * s
             /\ "CF" \in r.fl <=> a * s \notin WordOf(w)
             /\ "OF" \in r.fl <=> a * s \notin WordOf(w)
             /\ r.fl \ Arithmetic = fl \ Arithmetic
<1> DEFINE N == 2 ^ w
           p == a * s
           g == Mul(w, a, s, fl).fl
<1>1. p \in 0..2 ^ w * 2 ^ w - 1
  <2>1. N \in Nat \ {0}
    BY PowerFacts
  <2>2. a \in 0..N - 1 /\ s \in 0..N - 1
    BY DEF WordOf
  <2> HIDE DEF N
  <2>3. N - 1 \in Nat /\ a \in -(N - 1)..N - 1 /\ s \in -(N - 1)..N - 1
    BY <2>1, <2>2
  <2> DEFINE m == N - 1
  <2>4. p \in -(m * m)..m * m
    <3> HIDE DEF m
    <3>1. m \in Nat /\ a \in -m..m /\ s \in -m..m
      BY <2>3 DEF m
    <3>2. QED
      BY <3>1, ProductBound
  <2>5. p >= 0
    BY <2>1, <2>2
  <2>6. m * m = N * N - 2 * N + 1 /\ N * N \in Int
    BY <2>1
  <2>7. QED
    BY <2>1, <2>4, <2>5, <2>6 DEF N
<1>2. /\ Low(p, w) \in WordOf(w) /\ High(p, w) \in WordOf(w)
      /\ High(p, w) * 2 ^ w + Low(p, w) = p
      /\ High(p, w) = 0 <=> p \in WordOf(w)
  <2> HIDE DEF p
  <2>1. QED
    BY <1>1, Halves
<1>3. /\ Mul(w, a, s, fl).hi = High(p, w) /\ Mul(w, a, s, fl).lo = Low(p, w)
      /\ g = MulFlags(p = 0, Low(p, w), w, Overflow(fl, High(p, w) # 0))
  BY DEF Mul
<1> HIDE DEF p, g
<1>4. /\ "CF" \in g <=> High(p, w) # 0
      /\ "OF" \in g <=> High(p, w) # 0
      /\ g \ Arithmetic = fl \ Arithmetic
  <2> DEFINE wide == High(p, w) # 0
  <2>1. g = MulFlags(p = 0, Low(p, w), w, Overflow(fl, wide))
    BY <1>3
  <2> HIDE DEF wide
  <2>2. /\ "CF" \in g <=> wide
        /\ "OF" \in g <=> wide
        /\ g \ Arithmetic = fl \ Arithmetic
    BY <2>1 DEF MulFlags, Overflow, Update, On, Arithmetic
  <2>3. QED
    BY <2>2 DEF wide
<1>5. QED
  BY <1>2, <1>3, <1>4 DEF p, g

\* imul gives the whole signed product; the carry and the overflow say that
\* the lower half alone does not stand for it (imul_byte, imul_word,
\* imul_long, and imul_long_direct of the forms with two operands).
THEOREM ImulIsExact ==
  ASSUME NEW w \in Nat \ {0}, NEW a \in WordOf(w), NEW s \in WordOf(w), NEW fl
  PROVE  LET r == Imul(w, a, s, fl)
             p == Signed(a, w) * Signed(s, w)
         IN  /\ r.hi \in WordOf(w) /\ r.lo \in WordOf(w)
             /\ Signed(r.hi, w) * 2 ^ w + r.lo = p
             /\ "CF" \in r.fl <=> p \notin SignedRange(w)
             /\ "OF" \in r.fl <=> p \notin SignedRange(w)
             /\ r.fl \ Arithmetic = fl \ Arithmetic
<1> DEFINE M == 2 ^ (w - 1)
           x == Signed(a, w)
           y == Signed(s, w)
           p == x * y
           g == Imul(w, a, s, fl).fl
           wide == p \notin SignedRange(w)
<1>1. M \in Nat \ {0} /\ 2 ^ w = 2 * M /\ x \in -M..M - 1 /\ y \in -M..M - 1
  BY TopBit DEF SignedRange
<1>2. p \in -(2 ^ (w - 1) * 2 ^ w)..2 ^ (w - 1) * 2 ^ w - 1
  <2> HIDE DEF M, x, y
  <2>1. x \in -M..M /\ y \in -M..M
    BY <1>1
  <2>2. p \in -(M * M)..M * M
    <3>1. M \in Nat
      BY <1>1
    <3>2. x * y \in -(M * M)..M * M
      BY <2>1, <3>1, ProductBound
    <3>3. QED
      BY <3>2
  <2>3. M * M \in Nat /\ M * M >= 1 /\ M * (2 * M) = 2 * (M * M)
    BY <1>1
  <2>4. p \in -(M * (2 * M))..M * (2 * M) - 1
    <3> HIDE DEF p
    <3>1. QED
      BY <2>2, <2>3
  <2>5. QED
    BY <1>1, <2>4 DEF M
<1>3. /\ Imul(w, a, s, fl).hi = Trunc(Shr(p, w), w) /\ Imul(w, a, s, fl).lo = Trunc(p, w)
      /\ \E zero : g = MulFlags(zero, Trunc(p, w), w, Overflow(fl, wide))
  BY DEF Imul, ImulDirect, SignedRange
<1> HIDE DEF p, g, wide
<1>4. /\ Trunc(p, w) \in WordOf(w) /\ Trunc(Shr(p, w), w) \in WordOf(w)
      /\ Signed(Trunc(Shr(p, w), w), w) * 2 ^ w + Trunc(p, w) = p
  BY <1>2, SignedHalves
<1>5. /\ "CF" \in g <=> wide
      /\ "OF" \in g <=> wide
      /\ g \ Arithmetic = fl \ Arithmetic
  BY <1>3 DEF MulFlags, Overflow, Update, On, Arithmetic
<1>6. QED
  BY <1>3, <1>4, <1>5 DEF p, g, wide, x, y

\* div divides exactly, or raises the divide error because there is no
\* quotient of this width (div_byte, div_word, div_long).
THEOREM DivIsExact ==
  ASSUME NEW w \in Nat, NEW hi \in WordOf(w), NEW lo \in WordOf(w), NEW s \in WordOf(w), NEW fl
  PROVE  LET r   == Div(w, hi, lo, s, fl)
             dvd == hi * 2 ^ w + lo
         IN  /\ r.fl = fl
             /\ \/ /\ r.trap = "none" /\ s # 0
                   /\ r.lo \in WordOf(w) /\ r.hi \in 0..s - 1
                   /\ r.lo * s + r.hi = dvd
                \/ /\ r.trap = "DIV0" /\ r.hi = hi /\ r.lo = lo
                   /\ \A q \in WordOf(w) : s # 0 => dvd - q * s \notin 0..s - 1
<1> DEFINE N   == 2 ^ w
           dvd == hi * N + lo
           q   == dvd \div s
           t   == dvd % s
           r   == Div(w, hi, lo, s, fl)
<1>1. N \in Nat \ {0}
  BY PowerFacts
<1> HIDE DEF N
<1>2. hi \in 0..N - 1 /\ lo \in 0..N - 1 /\ s \in 0..N - 1
  BY DEF WordOf, N
<1>3. dvd \in Nat
  <2>1. hi * N \in Nat
    BY <1>1, <1>2
  <2>2. QED
    BY <1>1, <1>2, <2>1
<1>4. /\ Div(w, hi, lo, s, fl) = IF s = 0 \/ q > N - 1 THEN DivideError(hi, lo, fl, "DIV0")
                                 ELSE [lo |-> q, hi |-> t, fl |-> fl, trap |-> "none"]
  BY DEF Div, Join, N
<1>5. dvd = hi * 2 ^ w + lo
  BY DEF N
<1> HIDE DEF dvd
<1>6. CASE s = 0
  BY <1>4, <1>6 DEF DivideError
<1>7. CASE s # 0
  <2>1. s \in Nat \ {0}
    BY <1>1, <1>2, <1>7
  <2>2. dvd = s * q + t /\ t \in 0..s - 1 /\ q \in Int
    BY <1>3, <2>1, DivFacts
  <2>3. q >= 0
    <3> HIDE DEF q, t
    <3>1. q <= -1 => s * q <= -s
      BY <2>1, <2>2
    <3>2. QED
      BY <1>3, <2>1, <2>2, <3>1
  <2>4. CASE q > N - 1
    <3>1. ASSUME NEW x \in WordOf(w), dvd - x * s \in 0..s - 1 PROVE FALSE
      <4> DEFINE e == dvd - x * s
      <4>1. x \in 0..N - 1 /\ x \in Int
        BY <1>1 DEF WordOf, N
      <4>2. e \in 0..s - 1 /\ dvd = x * s + e
        <5>1. x * s \in Int
          BY <1>2, <4>1
        <5>2. QED
          BY <1>3, <3>1, <5>1
      <4> HIDE DEF e
      <4>3. (x * s + e) \div s = x
        BY <2>1, <4>1, <4>2, DivUnique
      <4>4. q = x
        BY <4>2, <4>3
      <4>5. QED
        BY <1>1, <2>4, <4>1, <4>4
    <3> HIDE DEF q
    <3>2. r = DivideError(hi, lo, fl, "DIV0")
      BY <1>4, <2>4
    <3>3. r.fl = fl /\ r.trap = "DIV0" /\ r.hi = hi /\ r.lo = lo
      BY <3>2 DEF DivideError
    <3>4. QED
      BY <1>5, <3>1, <3>3
  <2>5. CASE q <= N - 1
    <3> HIDE DEF q, t
    <3>1. q \in WordOf(w) /\ ~(q > N - 1)
      BY <1>1, <2>2, <2>3, <2>5 DEF WordOf, N
    <3>2. Div(w, hi, lo, s, fl) = [lo |-> q, hi |-> t, fl |-> fl, trap |-> "none"]
      BY <1>4, <1>7, <3>1
    <3>3. q * s + t = dvd
      BY <2>1, <2>2
    <3>4. QED
      BY <1>5, <1>7, <2>2, <3>1, <3>2, <3>3
  <2>6. QED
    BY <1>1, <2>2, <2>4, <2>5
<1>8. QED
  BY <1>6, <1>7

\* C's division: the remainder has the sign of the dividend, and any other
\* quotient that leaves less than the divisor is further from zero.
LEMMA QuotientFacts ==
  ASSUME NEW a \in Int, NEW b \in Int \ {0}
  PROVE  /\ Quotient(a, b) \in Int /\ Remainder(a, b) \in Int
         /\ a = Quotient(a, b) * b + Remainder(a, b)
         /\ Magnitude(Remainder(a, b)) < Magnitude(b)
         /\ Remainder(a, b) # 0 => (Remainder(a, b) < 0) = (a < 0)
         /\ \A x \in Int : Magnitude(a - x * b) < Magnitude(b) =>
              \/ 0 <= Quotient(a, b) /\ Quotient(a, b) <= x
              \/ x <= Quotient(a, b) /\ Quotient(a, b) <= 0
<1> DEFINE A == Magnitude(a)
           B == Magnitude(b)
           n == A \div B
           t == A % B
           q == Quotient(a, b)
           r == Remainder(a, b)
<1>1. /\ A \in Nat /\ (a < 0 => A = -a) /\ (a >= 0 => A = a)
      /\ B \in Nat \ {0} /\ (b < 0 => B = -b) /\ (b > 0 => B = b)
  BY DEF Magnitude
<1>2. q = IF (a < 0) = (b < 0) THEN n ELSE -n
  BY DEF Quotient
<1>3. r = a - b * q
  BY DEF Remainder
<1> HIDE DEF A, B, q, r
<1>4. A = B * n + t /\ t \in 0..B - 1 /\ n \in Int
  BY <1>1, DivFacts
<1> HIDE DEF n, t
<1>5. n >= 0
  <2>1. n <= -1 => B * n <= -B
    BY <1>1, <1>4
  <2>2. QED
    BY <1>1, <1>4, <2>1
<1>6. q \in Int
  BY <1>2, <1>4
<1>7. /\ a >= 0 => b * q = B * n
      /\ a < 0 => b * q = -(B * n)
  <2>1. CASE a >= 0 /\ b > 0
    <3>1. q = n /\ b = B
      BY <1>1, <1>2, <2>1
    <3>2. QED
      BY <2>1, <3>1
  <2>2. CASE a >= 0 /\ b < 0
    <3>1. q = -n /\ b = -B
      BY <1>1, <1>2, <1>4, <2>2
    <3>2. (-B) * (-n) = B * n
      BY <1>1, <1>4
    <3>3. QED
      BY <2>2, <3>1, <3>2
  <2>3. CASE a < 0 /\ b > 0
    <3>1. q = -n /\ b = B
      BY <1>1, <1>2, <1>4, <2>3
    <3>2. B * (-n) = -(B * n)
      BY <1>1, <1>4
    <3>3. QED
      BY <2>3, <3>1, <3>2
  <2>4. CASE a < 0 /\ b < 0
    <3>1. q = n /\ b = -B
      BY <1>1, <1>2, <2>4
    <3>2. (-B) * n = -(B * n)
      BY <1>1, <1>4
    <3>3. QED
      BY <2>4, <3>1, <3>2
  <2>5. QED
    BY <2>1, <2>2, <2>3, <2>4
<1>8. B * n \in Int /\ b * q \in Int /\ b * q = q * b
  BY <1>1, <1>4, <1>6
<1>9. (a >= 0 => r = t) /\ (a < 0 => r = -t) /\ r \in Int
  BY <1>1, <1>3, <1>4, <1>7, <1>8
<1>10. a = q * b + r
  BY <1>3, <1>8
<1>11. Magnitude(r) < B
  BY <1>1, <1>4, <1>9 DEF Magnitude
<1>12. r # 0 => (r < 0) = (a < 0)
  BY <1>1, <1>4, <1>9
<1>13. ASSUME NEW x \in Int, Magnitude(a - x * b) < B
       PROVE  (0 <= q /\ q <= x) \/ (x <= q /\ q <= 0)
  <2> DEFINE y == IF (a < 0) = (b < 0) THEN x ELSE -x
  <2>1. y \in Int
    OBVIOUS
  <2>2. /\ a >= 0 => x * b = y * B
        /\ a < 0 => x * b = -(y * B)
    <3>1. CASE a >= 0 /\ b > 0
      <4>1. y = x /\ b = B
        BY <1>1, <3>1
      <4>2. QED
        BY <3>1, <4>1
    <3>2. CASE a >= 0 /\ b < 0
      <4>1. y = -x /\ b = -B
        BY <1>1, <3>2
      <4>2. x * (-B) = (-x) * B
        BY <1>1
      <4>3. QED
        BY <3>2, <4>1, <4>2
    <3>3. CASE a < 0 /\ b > 0
      <4>1. y = -x /\ b = B
        BY <1>1, <3>3
      <4>2. x * B = -((-x) * B)
        BY <1>1
      <4>3. QED
        BY <3>3, <4>1, <4>2
    <3>4. CASE a < 0 /\ b < 0
      <4>1. y = x /\ b = -B
        BY <1>1, <3>4
      <4>2. x * (-B) = -(x * B)
        BY <1>1
      <4>3. QED
        BY <3>4, <4>1, <4>2
    <3>5. QED
      BY <3>1, <3>2, <3>3, <3>4
  <2>3. q = (IF (a < 0) = (b < 0) THEN n ELSE -n) /\ x = IF (a < 0) = (b < 0) THEN y ELSE -y
    BY <1>2
  <2> HIDE DEF y
  <2>4. x * b \in Int /\ y * B \in Int
    BY <1>1, <2>1
  <2>5. A - y * B < B
    BY <1>1, <1>13, <2>2, <2>4 DEF Magnitude
  <2>6. y >= n
    <3>1. y <= n - 1 => y * B <= (n - 1) * B
      BY <1>1, <1>4, <2>1
    <3>2. (n - 1) * B = B * n - B
      BY <1>1, <1>4
    <3>3. QED
      BY <1>1, <1>4, <1>8, <2>1, <2>4, <2>5, <3>1, <3>2
  <2>7. QED
    BY <1>4, <1>5, <2>1, <2>3, <2>6
<1>14. QED
  BY <1>6, <1>9, <1>10, <1>11, <1>12, <1>13 DEF q, r, B

\* idiv divides exactly with the remainder's sign that of the dividend, or
\* raises the divide error because there is no quotient of this width; only
\* the least dividend over -1, beyond a byte, is left to the host (idiv_byte,
\* idiv_word, idiv_long).
THEOREM IdivIsExact ==
  ASSUME NEW w \in Nat \ {0}, NEW hi \in WordOf(w), NEW lo \in WordOf(w), NEW s \in WordOf(w), NEW fl
  PROVE  LET r   == Idiv(w, hi, lo, s, fl)
             dvd == Signed(hi, w) * 2 ^ w + lo
             dsr == Signed(s, w)
             rem == Signed(r.hi, w)
         IN  /\ r.fl = fl
             /\ \/ /\ r.trap = "none" /\ s # 0
                   /\ r.lo \in WordOf(w) /\ r.hi \in WordOf(w)
                   /\ Signed(r.lo, w) * dsr + rem = dvd
                   /\ Magnitude(rem) < Magnitude(dsr)
                   /\ rem # 0 => (rem < 0) = (dvd < 0)
                \/ /\ r.trap = "DIV0" /\ r.hi = hi /\ r.lo = lo
                   /\ \A q \in SignedRange(w) :
                        s # 0 => Magnitude(dvd - q * dsr) >= Magnitude(dsr)
                \/ /\ r.trap = "UNDEFINED" /\ r.hi = hi /\ r.lo = lo
                   /\ w # ByteBits /\ dsr = -1
                   /\ Signed(hi, w) = -(2 ^ (w - 1)) /\ lo = 0
<1> DEFINE N   == 2 ^ w
           M   == 2 ^ (w - 1)
           x   == Signed(hi, w)
           dvd == x * N + lo
           dsr == Signed(s, w)
           q   == Quotient(dvd, dsr)
           t   == Remainder(dvd, dsr)
           r   == Idiv(w, hi, lo, s, fl)
           unrepresentable == w # ByteBits /\ hi = M /\ lo = 0 /\ dsr = -1
<1>1. /\ M \in Nat \ {0} /\ N = 2 * M
      /\ hi \in 0..2 * M - 1 /\ lo \in 0..2 * M - 1 /\ s \in 0..2 * M - 1
      /\ x = IF hi >= M THEN hi - N ELSE hi
      /\ dsr = IF s >= M THEN s - N ELSE s
      /\ x \in -M..M - 1 /\ dsr \in -M..M - 1
  <2>1. M \in Nat \ {0} /\ N = 2 * M
    BY TopBit
  <2>2. hi \in 0..N - 1 /\ lo \in 0..N - 1 /\ s \in 0..N - 1
    BY DEF WordOf
  <2>3. /\ x = IF hi >= M THEN hi - N ELSE hi
        /\ x \in -M..M - 1
    BY TopBit DEF SignedRange
  <2>4. /\ dsr = IF s >= M THEN s - N ELSE s
        /\ dsr \in -M..M - 1
    BY TopBit DEF SignedRange
  <2>5. QED
    BY <2>1, <2>2, <2>3, <2>4
<1>2. Idiv(w, hi, lo, s, fl) =
        CASE s = 0 -> DivideError(hi, lo, fl, "DIV0")
          [] s # 0 /\ unrepresentable -> DivideError(hi, lo, fl, "UNDEFINED")
          [] OTHER -> IF q \notin SignedRange(w) THEN DivideError(hi, lo, fl, "DIV0")
                      ELSE [lo |-> Trunc(q, w), hi |-> Trunc(t, w), fl |-> fl, trap |-> "none"]
  BY DEF Idiv, Join, SignedRange
<1>3. dvd = x * 2 ^ w + lo
  OBVIOUS
<1> HIDE DEF N, M, x, dvd, dsr, q, t
<1>4. dvd \in Int
  <2>1. x * N \in Int
    BY <1>1
  <2>2. QED
    BY <1>1, <2>1 DEF dvd
<1>5. dsr = 0 <=> s = 0
  BY <1>1
<1>6. CASE s = 0
  <2>1. r = DivideError(hi, lo, fl, "DIV0")
    BY <1>2, <1>6
  <2>2. r.fl = fl /\ r.trap = "DIV0" /\ r.hi = hi /\ r.lo = lo
    BY <2>1 DEF DivideError
  <2>3. QED
    BY <1>6, <2>2
<1>7. CASE s # 0 /\ unrepresentable
  <2>1. r = DivideError(hi, lo, fl, "UNDEFINED")
    BY <1>2, <1>7
  <2>2. r.fl = fl /\ r.trap = "UNDEFINED" /\ r.hi = hi /\ r.lo = lo
    BY <2>1 DEF DivideError
  <2>3. x = -M
    BY <1>1, <1>7
  <2>4. QED
    BY <1>7, <2>2, <2>3 DEF x, M, dsr
<1>8. CASE s # 0 /\ ~unrepresentable
  <2>1. /\ q \in Int /\ t \in Int /\ dvd = q * dsr + t
        /\ Magnitude(t) < Magnitude(dsr)
        /\ t # 0 => (t < 0) = (dvd < 0)
        /\ \A y \in Int : Magnitude(dvd - y * dsr) < Magnitude(dsr) =>
             (0 <= q /\ q <= y) \/ (y <= q /\ q <= 0)
    <3>1. dsr \in Int \ {0}
      BY <1>1, <1>5, <1>8
    <3>2. QED
      BY <1>4, <3>1, QuotientFacts DEF q, t
  <2>2. CASE q \in SignedRange(w)
    <3>1. Idiv(w, hi, lo, s, fl) = [lo |-> Trunc(q, w), hi |-> Trunc(t, w), fl |-> fl, trap |-> "none"]
      BY <1>2, <1>8, <2>2
    <3>2. Trunc(q, w) \in WordOf(w) /\ Signed(Trunc(q, w), w) = q
      BY <2>2, SignedTrunc
    <3>3. t \in SignedRange(w)
      <4>1. t \in -(M - 1)..M - 1
        BY <1>1, <2>1 DEF Magnitude
      <4>2. QED
        BY <1>1, <4>1 DEF SignedRange, M
    <3>4. Trunc(t, w) \in WordOf(w) /\ Signed(Trunc(t, w), w) = t
      BY <3>3, SignedTrunc
    <3> DEFINE lo1 == Trunc(q, w)
               hi1 == Trunc(t, w)
    <3> HIDE DEF lo1, hi1
    <3>5. r.lo = lo1 /\ r.hi = hi1 /\ r.fl = fl /\ r.trap = "none"
      BY <3>1 DEF lo1, hi1
    <3>6. QED
      BY <1>3, <1>8, <2>1, <3>2, <3>4, <3>5 DEF lo1, hi1, x, dsr
  <2>3. CASE q \notin SignedRange(w)
    <3>1. r = DivideError(hi, lo, fl, "DIV0")
      BY <1>2, <1>8, <2>3
    <3>2. r.fl = fl /\ r.trap = "DIV0" /\ r.hi = hi /\ r.lo = lo
      BY <3>1 DEF DivideError
    <3>3. ASSUME NEW y \in SignedRange(w) PROVE Magnitude(dvd - y * dsr) >= Magnitude(dsr)
      <4>1. SignedRange(w) = -M..M - 1
        BY DEF SignedRange, M
      <4>2. y \in Int /\ y \in -M..M - 1
        BY <1>1, <4>1
      <4>3. ~((0 <= q /\ q <= y) \/ (y <= q /\ q <= 0))
        BY <1>1, <2>1, <2>3, <4>1, <4>2
      <4>4. ~(Magnitude(dvd - y * dsr) < Magnitude(dsr))
        BY <2>1, <4>2, <4>3
      <4>5. Magnitude(dvd - y * dsr) \in Int /\ Magnitude(dsr) \in Int
        <5>1. y * dsr \in Int /\ dsr \in Int
          BY <1>1, <4>2
        <5>2. dvd - y * dsr \in Int
          BY <1>4, <5>1
        <5>3. \A e \in Int : Magnitude(e) \in Int
          BY DEF Magnitude
        <5>4. QED
          BY <5>1, <5>2, <5>3
      <4>6. QED
        BY <4>4, <4>5
    <3>4. QED
      BY <1>3, <3>2, <3>3 DEF x, dsr
  <2>4. QED
    BY <2>2, <2>3
<1>9. QED
  BY <1>6, <1>7, <1>8

-----------------------------------------------------------------------------
(* Rotates and shifts.                                                     *)

\* A position that goes round a ring of n.
LEMMA Wrap ==
  ASSUME NEW n \in Nat \ {0}, NEW k \in 0..n - 1, NEW s \in Int
  PROVE  /\ s % n \in 0..n - 1
         /\ (k - s) % n = IF k >= (s % n) THEN k - (s % n) ELSE k - (s % n) + n
         /\ (k + s) % n = IF k + (s % n) < n THEN k + (s % n) ELSE k + (s % n) - n
<1> DEFINE q == s \div n
           c == s % n
           a == IF k >= c THEN k - c ELSE k - c + n
           x == IF k >= c THEN -q ELSE -q - 1
           b == IF k + c < n THEN k + c ELSE k + c - n
           y == IF k + c < n THEN q ELSE q + 1
<1>1. s = n * q + c /\ c \in 0..n - 1 /\ q \in Int
  BY DivFacts
<1> HIDE DEF q, c
<1>2. a \in 0..n - 1 /\ x \in Int /\ b \in 0..n - 1 /\ y \in Int
  BY <1>1
<1>3. k - s = x * n + a
  <2>1. (-q) * n = -(n * q) /\ (-q - 1) * n = -(n * q) - n /\ n * q \in Int
    BY <1>1
  <2>2. QED
    BY <1>1, <2>1
<1>4. k + s = y * n + b
  <2>1. q * n = n * q /\ (q + 1) * n = n * q + n /\ n * q \in Int
    BY <1>1
  <2>2. QED
    BY <1>1, <2>1
<1> DEFINE a0 == a
           b0 == b
           x0 == x
           y0 == y
<1> HIDE DEF a0, b0, x0, y0
<1>5. (x0 * n + a0) % n = a0 /\ (y0 * n + b0) % n = b0
  <2>1. a0 \in 0..n - 1 /\ x0 \in Int /\ b0 \in 0..n - 1 /\ y0 \in Int
    BY <1>2 DEF a0, b0, x0, y0
  <2>2. QED
    BY <2>1, DivUnique
<1>6. k - s = x0 * n + a0 /\ k + s = y0 * n + b0
  BY <1>3, <1>4 DEF a0, b0, x0, y0
<1>7. (k - s) % n = a0 /\ (k + s) % n = b0
  BY <1>5, <1>6
<1>8. /\ (k - s) % n = IF k >= c THEN k - c ELSE k - c + n
      /\ (k + s) % n = IF k + c < n THEN k + c ELSE k + c - n
  BY <1>7, Zenon DEF a0, b0
<1>9. QED
  BY <1>1, <1>8, Zenon DEF c

\* The bits of zero and of minus one.
LEMMA BitOfSign ==
  ASSUME NEW k \in Nat
  PROVE  ~Bit(0, k) /\ Bit(-1, k)
<1> DEFINE K == 2 ^ k
<1>1. K \in Nat \ {0}
  BY PowerFacts
<1> HIDE DEF K
<1>2. 0 \div K = 0
  BY <1>1
<1>3. (-1) \div K = -1
  <2> DEFINE q == -1
             r == K - 1
  <2>1. q \in Int /\ r \in 0..K - 1 /\ q * K + r = -1
    BY <1>1
  <2> HIDE DEF q, r
  <2>2. (q * K + r) \div K = q
    BY <1>1, <2>1, DivUnique
  <2>3. QED
    BY <2>1, <2>2 DEF q
<1>4. 0 % 2 # 1 /\ (-1) % 2 = 1
  <2> DEFINE q   == -1
             one == 1
             two == 2
  <2>1. q \in Int /\ one \in 0..two - 1 /\ q * two + one = q /\ two \in Nat \ {0}
    OBVIOUS
  <2> HIDE DEF q, one, two
  <2>2. (q * two + one) % two = one
    BY <2>1, DivUnique
  <2>3. q % two = one
    BY <2>1, <2>2
  <2>4. QED
    BY <2>3 DEF q, one, two
<1>5. QED
  BY <1>2, <1>3, <1>4 DEF Bit, K

\* The upper c bits of a word, as a number.
LEMMA UpperBits ==
  ASSUME NEW w \in Nat, NEW c \in 0..w, NEW d \in WordOf(w)
  PROVE  /\ Shr(d, w - c) \in 0..2 ^ c - 1
         /\ \A k \in Nat : Bit(Shr(d, w - c), k) <=> Bit(d, w - c + k)
<1> DEFINE N == 2 ^ (w - c)
           C == 2 ^ c
           q == d \div N
           r == d % N
<1>1. N \in Nat \ {0} /\ C \in Nat \ {0} /\ 2 ^ w = N * C /\ w - c \in Nat
  <2>1. w - c \in Nat /\ c \in Nat /\ (w - c) + c = w
    OBVIOUS
  <2>2. QED
    BY <2>1, PowerSum, PowerFacts
<1>2. d \in Int /\ d >= 0 /\ d < 2 ^ w
  BY <1>1 DEF WordOf
<1>3. Shr(d, w - c) = q
  BY DEF Shr
<1>4. \A k \in Nat : Bit(Shr(d, w - c), k) <=> Bit(d, w - c + k)
  BY <1>1, <1>2, BitOfShr
<1> HIDE DEF N, C
<1>5. d = N * q + r /\ r \in 0..N - 1 /\ q \in Int
  BY <1>1, <1>2, DivFacts
<1> HIDE DEF q, r
<1>6. q >= 0
  <2>1. q <= -1 => N * q <= -N
    BY <1>1, <1>5
  <2>2. QED
    BY <1>1, <1>2, <1>5, <2>1
<1>7. q <= C - 1
  <2>1. q >= C => N * q >= N * C
    BY <1>1, <1>5
  <2>2. N * q \in Int /\ N * C \in Int
    BY <1>1, <1>5
  <2>3. QED
    BY <1>1, <1>2, <1>5, <2>1, <2>2
<1>8. QED
  BY <1>1, <1>3, <1>4, <1>5, <1>6, <1>7 DEF C

\* A word moved up by c, with y below it.
LEMMA Funnel ==
  ASSUME NEW w \in Nat, NEW c \in 0..w, NEW d \in Int, NEW y \in 0..2 ^ c - 1
  PROVE  /\ ShlTrunc(d, c, w) + y \in WordOf(w)
         /\ \A k \in 0..w - 1 : Bit(ShlTrunc(d, c, w) + y, k) <=>
              IF k >= c THEN Bit(d, k - c) ELSE Bit(y, k)
<1> DEFINE C == 2 ^ c
           N == 2 ^ (w - c)
           t == Trunc(d, w - c)
<1>1. N \in Nat \ {0} /\ C \in Nat \ {0} /\ 2 ^ w = C * N /\ w - c \in Nat /\ c \in Nat
  <2>1. w - c \in Nat /\ c \in Nat /\ c + (w - c) = w
    OBVIOUS
  <2>2. QED
    BY <2>1, PowerSum, PowerFacts, ZenonT(60)
<1>2. y \in 0..C - 1
  OBVIOUS
<1>3. CASE c = w
  <2>1. ShlTrunc(d, c, w) = 0
    BY <1>3 DEF ShlTrunc
  <2>2. ShlTrunc(d, c, w) + y = y /\ y \in WordOf(w)
    BY <1>1, <1>2, <1>3, <2>1 DEF WordOf
  <2>3. QED
    BY <1>3, <2>2
<1>4. CASE c < w
  <2>1. ShlTrunc(d, c, w) = t * C
    BY <1>4 DEF ShlTrunc
  <2>2. t \in 0..N - 1
    BY <1>1, TruncFacts DEF WordOf
  <2> HIDE DEF C, N, t
  <2>3. t * C + y \in WordOf(w)
    <3>1. t * C + y \in 0..C * N - 1
      BY <1>1, <1>2, <2>2, TwoParts
    <3>2. QED
      BY <1>1, <3>1 DEF WordOf
  <2>4. ASSUME NEW k \in 0..w - 1
        PROVE  Bit(t * C + y, k) <=> IF k >= c THEN Bit(d, k - c) ELSE Bit(y, k)
    <3>1. k \in Nat /\ t \in Int
      BY <1>1, <2>2
    <3>2. /\ k >= c => (Bit(t * 2 ^ c + y, k) <=> Bit(t, k - c))
          /\ k < c => (Bit(t * 2 ^ c + y, k) <=> Bit(y, k))
      BY <1>1, <1>2, <3>1, BitOfJoin DEF C
    <3>3. k >= c => (Bit(Trunc(d, w - c), k - c) <=> Bit(d, k - c))
      <4>1. ASSUME k >= c PROVE k - c \in Nat /\ k - c < w - c
        BY <1>1, <3>1, <4>1
      <4>2. QED
        BY <1>1, <4>1, BitOfTrunc
    <3>4. k >= c \/ k < c
      BY <1>1, <3>1
    <3>5. QED
      BY <1>1, <3>1, <3>2, <3>3, <3>4 DEF t, C
  <2>5. QED
    BY <2>1, <2>3, <2>4
<1>5. QED
  BY <1>1, <1>3, <1>4

\* What a rotate or a shift of kind n by s owes: the bits of the result, and
\* the carry.
MovedBits(n, w, d, fill, s, fl, r) ==
  /\ r.v \in WordOf(w)
  /\ \A k \in 0..w - 1 : Bit(r.v, k) <=> ShiftedBit(n, w, d, fill, s, "CF" \in fl, k)
  /\ s = 0 => ("CF" \in r.fl <=> "CF" \in fl)
  /\ s # 0 => ("CF" \in r.fl <=> ShiftedCarry(n, w, d, s, "CF" \in fl))

\* The word of a rotate to the left by c.
LEMMA RotatedWord ==
  ASSUME NEW w \in Nat \ {0}, NEW d \in WordOf(w), NEW c \in 0..w - 1
  PROVE  LET v == IF c = 0 THEN d ELSE ShlTrunc(d, c, w) + Shr(d, w - c)
         IN  /\ v \in WordOf(w)
             /\ \A k \in 0..w - 1 : Bit(v, k) <=> Bit(d, IF k >= c THEN k - c ELSE k - c + w)
<1>1. c \in 0..w /\ w \in Nat /\ d \in Int
  <2>1. 2 ^ w \in Nat
    BY PowerFacts
  <2>2. QED
    BY <2>1 DEF WordOf
<1> DEFINE y == Shr(d, w - c)
<1>2. y \in 0..2 ^ c - 1 /\ \A k \in Nat : Bit(y, k) <=> Bit(d, w - c + k)
  BY <1>1, UpperBits
<1> HIDE DEF y
<1>3. /\ ShlTrunc(d, c, w) + y \in WordOf(w)
      /\ \A k \in 0..w - 1 : Bit(ShlTrunc(d, c, w) + y, k) <=>
           IF k >= c THEN Bit(d, k - c) ELSE Bit(y, k)
  BY <1>1, <1>2, Funnel
<1>4. \A k \in 0..w - 1 : k \in Nat /\ w - c + k = k - c + w
  BY <1>1
<1>5. \A k \in 0..w - 1 : Bit(ShlTrunc(d, c, w) + y, k) <=> Bit(d, IF k >= c THEN k - c ELSE k - c + w)
  BY <1>2, <1>3, <1>4
<1>6. CASE c = 0
  <2>1. \A k \in 0..w - 1 : k >= c /\ k - c = k
    BY <1>6
  <2>2. QED
    BY <1>6, <2>1
<1>7. CASE c # 0
  BY <1>3, <1>5, <1>7 DEF y
<1>8. QED
  BY <1>6, <1>7

\* rol and ror move every bit round the word and leave the last one that went
\* round in the carry, for every count (rol_byte .. ror_long).
THEOREM RotatesMoveBits ==
  ASSUME NEW w \in Nat, w >= 2, NEW d \in WordOf(w), NEW s \in Nat, NEW fill, NEW fl
  PROVE  /\ MovedBits(0, w, d, fill, s, fl, Rol(w, d, s, fl))
         /\ MovedBits(1, w, d, fill, s, fl, Ror(w, d, s, fl))
<1> DEFINE c == s % w
           e == IF c = 0 THEN 0 ELSE w - c
           v == IF c = 0 THEN d ELSE ShlTrunc(d, c, w) + Shr(d, w - c)
           u == IF e = 0 THEN d ELSE ShlTrunc(d, e, w) + Shr(d, w - e)
           g == Rol(w, d, s, fl).fl
           h == Ror(w, d, s, fl).fl
<1>1. /\ w \in Nat \ {0} /\ s \in Int /\ c \in 0..w - 1 /\ e \in 0..w - 1
      /\ e = 0 <=> c = 0
      /\ c # 0 => e = w - c /\ w - e = c
      /\ \A k \in 0..w - 1 : /\ (k - s) % w = IF k >= c THEN k - c ELSE k - c + w
                             /\ (k + s) % w = IF k + c < w THEN k + c ELSE k + c - w
  <2>1. w \in Nat \ {0} /\ s \in Int
    OBVIOUS
  <2>2. \A k \in 0..w - 1 : /\ s % w \in 0..w - 1
                            /\ (k - s) % w = IF k >= s % w THEN k - (s % w) ELSE k - (s % w) + w
                            /\ (k + s) % w = IF k + (s % w) < w THEN k + (s % w) ELSE k + (s % w) - w
    BY <2>1, Wrap
  <2>3. c \in 0..w - 1
    BY <2>1, DivFacts
  <2> HIDE DEF c
  <2>4. e \in 0..w - 1 /\ (e = 0 <=> c = 0) /\ (c # 0 => e = w - c /\ w - e = c)
    BY <2>1, <2>3
  <2>5. QED
    BY <2>1, <2>2, <2>3, <2>4 DEF c
<1>2. /\ s = 0 => Rol(w, d, s, fl) = Ans(d, fl) /\ Ror(w, d, s, fl) = Ans(d, fl)
      /\ s # 0 => Rol(w, d, s, fl) = Ans(v, Update(fl, {"CF"} \cup On("OF", s = 1),
                    On("CF", Bit(v, 0)) \cup On("OF", s = 1 /\ Bit(v, 0) # Bit(v, w - 1))))
  BY DEF Rol, Ror
<1>3. s # 0 => Ror(w, d, s, fl) = Ans(u, Update(fl, {"CF"} \cup On("OF", s = 1),
                 On("CF", Bit(u, w - 1)) \cup On("OF", s = 1 /\ Bit(u, w - 2) # Bit(u, w - 1))))
  <2> DEFINE z == IF c = 0 THEN d ELSE ShlTrunc(d, w - c, w) + Shr(d, c)
  <2>1. u = z
    <3> HIDE DEF e, c
    <3>1. QED
      BY <1>1
  <2>2. s # 0 => Ror(w, d, s, fl) = Ans(z, Update(fl, {"CF"} \cup On("OF", s = 1),
                 On("CF", Bit(z, w - 1)) \cup On("OF", s = 1 /\ Bit(z, w - 2) # Bit(z, w - 1))))
    BY DEF Ror
  <2> HIDE DEF u, z
  <2>3. QED
    BY <2>1, <2>2
<1> HIDE DEF c, e
<1>4. /\ v \in WordOf(w) /\ \A k \in 0..w - 1 : Bit(v, k) <=> Bit(d, (k - s) % w)
  <2>1. v \in WordOf(w) /\ \A k \in 0..w - 1 : Bit(v, k) <=> Bit(d, IF k >= c THEN k - c ELSE k - c + w)
    BY <1>1, RotatedWord
  <2>2. \A k \in 0..w - 1 : (IF k >= c THEN k - c ELSE k - c + w) = (k - s) % w
    BY <1>1
  <2>3. QED
    BY <2>1, <2>2
<1>5. /\ u \in WordOf(w) /\ \A k \in 0..w - 1 : Bit(u, k) <=> Bit(d, (k + s) % w)
  <2>1. u \in WordOf(w) /\ \A k \in 0..w - 1 : Bit(u, k) <=> Bit(d, IF k >= e THEN k - e ELSE k - e + w)
    BY <1>1, RotatedWord
  <2>2. \A k \in 0..w - 1 : (IF k >= e THEN k - e ELSE k - e + w) = (k + s) % w
    BY <1>1
  <2>3. QED
    BY <2>1, <2>2
<1> HIDE DEF u, v
<1>6. s = 0 => /\ v = d /\ u = d
               /\ Rol(w, d, s, fl).v = d /\ g = fl /\ Ror(w, d, s, fl).v = d /\ h = fl
  <2>1. s = 0 => c = 0
    <3>1. 0 % w = 0
      <4>1. (0 * w + 0) % w = 0
        BY <1>1, DivUnique
      <4>2. QED
        BY <4>1
    <3>2. QED
      BY <3>1 DEF c
  <2>2. QED
    BY <1>1, <1>2, <2>1 DEF v, u, Ans
<1>7. s # 0 => /\ Rol(w, d, s, fl).v = v
               /\ "CF" \in g <=> Bit(v, 0)
               /\ Ror(w, d, s, fl).v = u
               /\ "CF" \in h <=> Bit(u, w - 1)
  BY <1>2, <1>3 DEF Ans, Update, On
<1>8. Rol(w, d, s, fl).v = v /\ Ror(w, d, s, fl).v = u
  BY <1>6, <1>7
<1>9. /\ Bit(v, 0) <=> Bit(d, (-s) % w)
      /\ Bit(u, w - 1) <=> Bit(d, (w - 1 + s) % w)
  <2>1. 0 \in 0..w - 1 /\ w - 1 \in 0..w - 1 /\ 0 - s = -s
    BY <1>1
  <2>2. QED
    BY <1>4, <1>5, <2>1
<1>10. MovedBits(0, w, d, fill, s, fl, Rol(w, d, s, fl))
  BY <1>4, <1>6, <1>7, <1>8, <1>9 DEF MovedBits, ShiftedBit, ShiftedCarry, g
<1>11. MovedBits(1, w, d, fill, s, fl, Ror(w, d, s, fl))
  BY <1>5, <1>6, <1>7, <1>8, <1>9 DEF MovedBits, ShiftedBit, ShiftedCarry, h
<1>12. QED
  BY <1>10, <1>11

\* The word of a rotate to the left by c through a carry.
LEMMA RingWord ==
  ASSUME NEW w \in Nat \ {0}, NEW d \in WordOf(w), NEW c \in 1..w, NEW carry \in BOOLEAN
  PROVE  LET v == ShlTrunc(d, c, w) + Shr(d, w + 1 - c) + (IF carry THEN 2 ^ (c - 1) ELSE 0)
         IN  /\ v \in WordOf(w)
             /\ \A k \in 0..w - 1 : Bit(v, k) <=>
                  Ring(w, d, carry, IF k >= c THEN k - c ELSE k - c + w + 1)
<1> DEFINE b == c - 1
           x == IF carry THEN 1 ELSE 0
           y == Shr(d, w - b)
           z == x * 2 ^ b + y
           v == ShlTrunc(d, c, w) + Shr(d, w + 1 - c) + (IF carry THEN 2 ^ (c - 1) ELSE 0)
<1>1. /\ w \in Nat /\ d \in Int /\ d \in WordOf(w) /\ b \in Nat /\ b \in 0..w /\ c \in 0..w
      /\ w - b = w + 1 - c /\ b + 1 = c /\ x \in {0, 1}
      /\ 2 ^ b \in Nat \ {0} /\ 2 ^ c = 2 * 2 ^ b
  <2>1. w \in Nat /\ b \in Nat /\ b \in 0..w /\ c \in 0..w /\ w - b = w + 1 - c /\ b + 1 = c /\ x \in {0, 1}
    OBVIOUS
  <2>2. 2 ^ w \in Nat /\ 2 ^ b \in Nat \ {0} /\ 2 ^ (b + 1) = 2 * 2 ^ b
    BY <2>1, PowerFacts
  <2>3. QED
    BY <2>1, <2>2 DEF WordOf
<1> HIDE DEF b, x
<1>2. y \in 0..2 ^ b - 1 /\ \A k \in Nat : Bit(y, k) <=> Bit(d, w - b + k)
  BY <1>1, UpperBits
<1> HIDE DEF y
<1>3. z \in 0..2 ^ c - 1
  <2> DEFINE B == 2 ^ b
  <2>1. y \in 0..B - 1 /\ B \in Nat \ {0} /\ 2 ^ c = 2 * B /\ z = x * B + y
    BY <1>1, <1>2
  <2> HIDE DEF B, z
  <2>2. x * B = 0 \/ x * B = B
    BY <1>1, <2>1
  <2>3. QED
    BY <2>1, <2>2
<1>4. \A k \in 0..c - 1 : Bit(z, k) <=> IF k = b THEN carry ELSE Bit(d, w - b + k)
  <2>1. SUFFICES ASSUME NEW k \in 0..c - 1
                 PROVE  Bit(z, k) <=> IF k = b THEN carry ELSE Bit(d, w - b + k)
    OBVIOUS
  <2>2. k \in Nat /\ x \in Int
    BY <1>1
  <2>3. /\ k >= b => (Bit(x * 2 ^ b + y, k) <=> Bit(x, k - b))
        /\ k < b => (Bit(x * 2 ^ b + y, k) <=> Bit(y, k))
    BY <1>1, <1>2, <2>2, BitOfJoin
  <2>4. CASE k < b
    BY <1>1, <1>2, <2>2, <2>3, <2>4
  <2>5. CASE k >= b
    <3>1. k = b /\ k - b = 0
      BY <1>1, <2>2, <2>5
    <3>2. Bit(x, 0) <=> carry
      <4>1. 2 ^ 0 = 1 /\ 1 \div 1 = 1 /\ 0 \div 1 = 0 /\ 1 % 2 = 1 /\ 0 % 2 = 0
        OBVIOUS
      <4>2. QED
        BY <4>1 DEF Bit, x
    <3>3. QED
      BY <2>3, <2>5, <3>1, <3>2
  <2>6. QED
    BY <1>1, <2>2, <2>4, <2>5
<1>5. v = ShlTrunc(d, c, w) + z
  <2>1. Shr(d, w + 1 - c) = y
    BY <1>1 DEF y
  <2>2. (IF carry THEN 2 ^ (c - 1) ELSE 0) = x * 2 ^ b
    BY <1>1 DEF x, b
  <2> DEFINE B  == 2 ^ b
             s0 == ShlTrunc(d, c, w)
  <2>3. v = s0 + y + x * B /\ z = x * B + y
    BY <2>1, <2>2
  <2>4. s0 \in Int
    <3>1. s0 = 0 \/ s0 = Trunc(d, w - c) * 2 ^ c
      BY DEF ShlTrunc
    <3>2. w - c \in Nat /\ c \in Nat
      BY <1>1
    <3>3. Trunc(d, w - c) \in Int /\ 2 ^ c \in Int /\ 2 ^ (w - c) \in Nat
      BY <1>1, <3>2, PowerFacts, TruncFacts DEF WordOf
    <3> HIDE DEF s0
    <3>4. QED
      BY <3>1, <3>3
  <2>5. x * B \in Int /\ y \in Int
    BY <1>1, <1>2
  <2> HIDE DEF v, z, s0, B
  <2>6. QED
    BY <2>3, <2>4, <2>5 DEF s0
<1> HIDE DEF z, v
<1>6. /\ ShlTrunc(d, c, w) + z \in WordOf(w)
      /\ \A k \in 0..w - 1 : Bit(ShlTrunc(d, c, w) + z, k) <=>
           IF k >= c THEN Bit(d, k - c) ELSE Bit(z, k)
  BY <1>1, <1>3, Funnel
<1>7. ASSUME NEW k \in 0..w - 1
      PROVE  Bit(v, k) <=> Ring(w, d, carry, IF k >= c THEN k - c ELSE k - c + w + 1)
  <2>1. CASE k >= c
    <3>1. Bit(v, k) <=> Bit(d, k - c)
      BY <1>5, <1>6, <2>1
    <3>2. k - c # w
      BY <1>1, <2>1
    <3>3. QED
      BY <2>1, <3>1, <3>2 DEF Ring
  <2>2. CASE ~(k >= c)
    <3>1. k \in 0..c - 1
      BY <1>1, <2>2
    <3>2. Bit(v, k) <=> IF k = b THEN carry ELSE Bit(d, w - b + k)
      BY <1>4, <1>5, <1>6, <2>2, <3>1
    <3>3. w - b + k = k - c + w + 1 /\ (k = b <=> k - c + w + 1 = w)
      BY <1>1, <3>1
    <3>4. QED
      BY <2>2, <3>2, <3>3 DEF Ring
  <2>3. QED
    BY <2>1, <2>2
<1>8. QED
  BY <1>5, <1>6, <1>7 DEF v

\* rcl and rcr move every bit round a ring of the word and the carry, for
\* every count (rcl_byte .. rcr_long).
THEOREM CarryRotatesMoveBits ==
  ASSUME NEW w \in Nat, w >= 2, NEW d \in WordOf(w), NEW s \in Nat, NEW fill, NEW fl
  PROVE  /\ MovedBits(2, w, d, fill, s, fl, Rcl(w, d, s, fl))
         /\ MovedBits(3, w, d, fill, s, fl, Rcr(w, d, s, fl))
<1> DEFINE c     == s % (w + 1)
           e     == w + 1 - c
           carry == "CF" \in fl
           v == ShlTrunc(d, c, w) + Shr(d, w + 1 - c) + (IF carry THEN 2 ^ (c - 1) ELSE 0)
           u == ShlTrunc(d, e, w) + Shr(d, w + 1 - e) + (IF carry THEN 2 ^ (e - 1) ELSE 0)
           g == Rcl(w, d, s, fl).fl
           h == Rcr(w, d, s, fl).fl
<1>1. /\ w \in Nat \ {0} /\ s \in Int /\ c \in 0..w
      /\ c # 0 => c \in 1..w /\ e \in 1..w
      /\ \A k \in 0..w : /\ (k - s) % (w + 1) = IF k >= c THEN k - c ELSE k - c + w + 1
                         /\ (k + s) % (w + 1) = IF k + c < w + 1 THEN k + c ELSE k + c - (w + 1)
  <2> DEFINE n == w + 1
  <2>1. n \in Nat \ {0} /\ s \in Int /\ n - 1 = w /\ w \in Nat \ {0}
    OBVIOUS
  <2> HIDE DEF n
  <2>2. \A k \in 0..n - 1 : /\ s % n \in 0..n - 1
                            /\ (k - s) % n = IF k >= s % n THEN k - (s % n) ELSE k - (s % n) + n
                            /\ (k + s) % n = IF k + (s % n) < n THEN k + (s % n) ELSE k + (s % n) - n
    BY <2>1, Wrap, ZenonT(60)
  <2> DEFINE r == s % n
  <2>3. r \in 0..n - 1
    BY <2>1, DivFacts
  <2>4. r = c
    BY DEF n
  <2> HIDE DEF r, c
  <2>5. c \in 0..w /\ (c # 0 => c \in 1..w /\ e \in 1..w)
    BY <2>1, <2>3, <2>4
  <2>6. \A k \in 0..w : /\ (k - s) % n = IF k >= c THEN k - c ELSE k - c + n
                        /\ (k + s) % n = IF k + c < n THEN k + c ELSE k + c - n
    BY <2>1, <2>2, <2>4 DEF r
  <2>7. \A k \in 0..w : k - c + n = k - c + w + 1
    BY <2>1, <2>5 DEF n
  <2>8. \A k \in 0..w : /\ (k - s) % n = IF k >= c THEN k - c ELSE k - c + w + 1
                        /\ (k + s) % n = IF k + c < n THEN k + c ELSE k + c - n
    BY <2>6, <2>7
  <2>9. QED
    BY <2>1, <2>5, <2>8 DEF n
<1>2. /\ c = 0 => Rcl(w, d, s, fl) = Ans(d, fl) /\ Rcr(w, d, s, fl) = Ans(d, fl)
      /\ c # 0 => Rcl(w, d, s, fl) = Ans(v, Update(fl, {"CF", "OF"},
                    On("CF", Bit(d, w - c)) \cup On("OF", c = 1 /\ Bit(d, w - c) # Bit(v, w - 1))))
  BY DEF Rcl, Rcr
<1>3. c # 0 => Rcr(w, d, s, fl) = Ans(u, Update(fl, {"CF"} \cup On("OF", c = 1),
                 On("CF", Bit(d, c - 1)) \cup On("OF", c = 1 /\ ("CF" \in fl) # Bit(d, w - 1))))
  <2> DEFINE z == Shr(d, c) + ShlTrunc(d, w + 1 - c, w) + (IF carry THEN 2 ^ (w - c) ELSE 0)
  <2>1. c # 0 => u = z
    <3>1. e = w + 1 - c /\ e - 1 = w - c /\ w + 1 - e = c
      <4> HIDE DEF c
      <4>1. QED
        BY <1>1
    <3> HIDE DEF c, carry
    <3>2. \A i \in Int, j \in Int : i + j = j + i
      OBVIOUS
    <3>3. ASSUME c # 0 PROVE Shr(d, c) \in Int /\ ShlTrunc(d, e, w) \in Int
      <4>1. d \in Int /\ 2 ^ c \in Nat \ {0}
        <5>1. 2 ^ w \in Nat /\ 2 ^ c \in Nat \ {0}
          BY <1>1, PowerFacts
        <5>2. QED
          BY <5>1 DEF WordOf
      <4>2. Shr(d, c) \in Int
        BY <4>1, DivFacts DEF Shr
      <4>3. e \in Nat /\ (e < w => w - e \in Nat)
        BY <1>1, <3>3
      <4>4. ASSUME e < w PROVE Trunc(d, w - e) \in Int /\ 2 ^ e \in Int
        <5>1. Trunc(d, w - e) \in WordOf(w - e) /\ 2 ^ (w - e) \in Nat /\ 2 ^ e \in Nat
          BY <4>1, <4>3, <4>4, TruncFacts, PowerFacts
        <5>2. QED
          BY <5>1 DEF WordOf
      <4>5. ShlTrunc(d, e, w) = IF e >= w THEN 0 ELSE Trunc(d, w - e) * 2 ^ e
        BY DEF ShlTrunc
      <4> HIDE DEF e
      <4>6. QED
        BY <1>1, <4>2, <4>3, <4>4, <4>5
    <3> HIDE DEF e
    <3>4. QED
      BY <3>1, <3>2, <3>3
  <2>2. c # 0 => Rcr(w, d, s, fl) = Ans(z, Update(fl, {"CF"} \cup On("OF", c = 1),
                 On("CF", Bit(d, c - 1)) \cup On("OF", c = 1 /\ ("CF" \in fl) # Bit(d, w - 1))))
    BY DEF Rcr
  <2> HIDE DEF u, z, c
  <2>3. QED
    BY <2>1, <2>2
<1> HIDE DEF c
<1>4. c # 0 => /\ v \in WordOf(w)
               /\ \A k \in 0..w - 1 : Bit(v, k) <=> Ring(w, d, carry, (k - s) % (w + 1))
  <2> SUFFICES ASSUME c # 0
               PROVE  /\ v \in WordOf(w)
                      /\ \A k \in 0..w - 1 : Bit(v, k) <=> Ring(w, d, carry, (k - s) % (w + 1))
    OBVIOUS
  <2>1. c \in 1..w /\ carry \in BOOLEAN
    BY <1>1
  <2> HIDE DEF carry
  <2>2. /\ v \in WordOf(w)
        /\ \A k \in 0..w - 1 : Bit(v, k) <=> Ring(w, d, carry, IF k >= c THEN k - c ELSE k - c + w + 1)
    BY <1>1, <2>1, RingWord
  <2>3. \A k \in 0..w - 1 : (IF k >= c THEN k - c ELSE k - c + w + 1) = (k - s) % (w + 1)
    BY <1>1
  <2> HIDE DEF v
  <2>4. QED
    BY <2>2, <2>3
<1>5. c # 0 => /\ u \in WordOf(w)
               /\ \A k \in 0..w - 1 : Bit(u, k) <=> Ring(w, d, carry, (k + s) % (w + 1))
  <2> SUFFICES ASSUME c # 0
               PROVE  /\ u \in WordOf(w)
                      /\ \A k \in 0..w - 1 : Bit(u, k) <=> Ring(w, d, carry, (k + s) % (w + 1))
    OBVIOUS
  <2>1. e \in 1..w /\ carry \in BOOLEAN
    BY <1>1
  <2>2. \A k \in 0..w - 1 : (IF k >= e THEN k - e ELSE k - e + w + 1) = (k + s) % (w + 1)
    BY <1>1
  <2> HIDE DEF carry, e
  <2>3. /\ u \in WordOf(w)
        /\ \A k \in 0..w - 1 : Bit(u, k) <=> Ring(w, d, carry, IF k >= e THEN k - e ELSE k - e + w + 1)
    BY <1>1, <2>1, RingWord
  <2> HIDE DEF u
  <2>4. QED
    BY <2>2, <2>3
<1>6. c = 0 => \A k \in 0..w : (k - s) % (w + 1) = k /\ (k + s) % (w + 1) = k
  <2> DEFINE left(k)  == (k - s) % (w + 1)
             right(k) == (k + s) % (w + 1)
  <2>1. \A k \in 0..w : /\ left(k) = IF k >= c THEN k - c ELSE k - c + w + 1
                        /\ right(k) = IF k + c < w + 1 THEN k + c ELSE k + c - (w + 1)
    BY <1>1
  <2> HIDE DEF left, right
  <2>2. c = 0 => \A k \in 0..w : left(k) = k /\ right(k) = k
    BY <1>1, <2>1
  <2>3. QED
    BY <2>2 DEF left, right
<1>7. \A k \in 0..w - 1 : k \in 0..w /\ (Ring(w, d, carry, k) <=> Bit(d, k))
  BY <1>1 DEF Ring
<1>8. /\ (w - s) % (w + 1) = IF c = 0 THEN w ELSE w - c
      /\ (w + s) % (w + 1) = IF c = 0 THEN w ELSE c - 1
  BY <1>1
<1>9. s = 0 => c = 0
  <2> DEFINE n == w + 1
  <2>1. n \in Nat \ {0}
    BY <1>1
  <2> HIDE DEF n
  <2>2. (0 * n + 0) % n = 0
    BY <2>1, DivUnique
  <2>3. 0 % n = 0
    BY <2>1, <2>2
  <2>4. QED
    BY <2>3 DEF c, n
<1>10. /\ c # 0 => /\ (Ring(w, d, carry, (w - s) % (w + 1)) <=> Bit(d, w - c))
                   /\ (Ring(w, d, carry, (w + s) % (w + 1)) <=> Bit(d, c - 1))
       /\ c = 0 => /\ (Ring(w, d, carry, (w - s) % (w + 1)) <=> carry)
                   /\ (Ring(w, d, carry, (w + s) % (w + 1)) <=> carry)
  BY <1>1, <1>8 DEF Ring
<1> HIDE DEF v, u, e, carry
<1>11. /\ c # 0 => /\ Rcl(w, d, s, fl).v = v /\ Rcr(w, d, s, fl).v = u
                   /\ ("CF" \in g <=> Bit(d, w - c))
                   /\ ("CF" \in h <=> Bit(d, c - 1))
       /\ c = 0 => /\ Rcl(w, d, s, fl).v = d /\ Rcr(w, d, s, fl).v = d /\ g = fl /\ h = fl
  BY <1>2, <1>3 DEF Ans, Update, On
<1> HIDE DEF g, h
<1>12. /\ Rcl(w, d, s, fl).v \in WordOf(w)
       /\ \A k \in 0..w - 1 : Bit(Rcl(w, d, s, fl).v, k) <=> Ring(w, d, carry, (k - s) % (w + 1))
  BY <1>4, <1>6, <1>7, <1>11
<1>13. /\ Rcr(w, d, s, fl).v \in WordOf(w)
       /\ \A k \in 0..w - 1 : Bit(Rcr(w, d, s, fl).v, k) <=> Ring(w, d, carry, (k + s) % (w + 1))
  BY <1>5, <1>6, <1>7, <1>11
<1>14. /\ "CF" \in g <=> Ring(w, d, carry, (w - s) % (w + 1))
       /\ "CF" \in h <=> Ring(w, d, carry, (w + s) % (w + 1))
  BY <1>10, <1>11 DEF carry
<1>15. s = 0 => ("CF" \in g <=> "CF" \in fl) /\ ("CF" \in h <=> "CF" \in fl)
  BY <1>9, <1>11
<1>16. MovedBits(2, w, d, fill, s, fl, Rcl(w, d, s, fl))
  BY <1>12, <1>14, <1>15 DEF MovedBits, ShiftedBit, ShiftedCarry, g, carry
<1>17. MovedBits(3, w, d, fill, s, fl, Rcr(w, d, s, fl))
  BY <1>13, <1>14, <1>15 DEF MovedBits, ShiftedBit, ShiftedCarry, h, carry
<1>18. QED
  BY <1>16, <1>17

\* The double shift to the left, which the simple one is without a fill.
LEMMA LeftMoves ==
  ASSUME NEW w \in Nat \ {0}, NEW d \in WordOf(w), NEW fill \in WordOf(w),
         NEW s \in 0..w - 1, NEW fl
  PROVE  LET r == ShiftLeft(w, d, fill, s, fl)
         IN  /\ r.v \in WordOf(w)
             /\ \A k \in 0..w - 1 :
                  Bit(r.v, k) <=> IF k >= s THEN Bit(d, k - s) ELSE Bit(fill, w + k - s)
             /\ s = 0 => ("CF" \in r.fl <=> "CF" \in fl)
             /\ s # 0 => ("CF" \in r.fl <=> Bit(d, w - s))
<1> DEFINE y == Shr(fill, w - s)
           v == ShlTrunc(d, s, w) + y
           r == ShiftLeft(w, d, fill, s, fl)
<1>1. w \in Nat /\ s \in 0..w /\ d \in Int /\ s \in Nat
  <2>1. 2 ^ w \in Nat
    BY PowerFacts
  <2>2. QED
    BY <2>1 DEF WordOf
<1>2. CASE s = 0
  <2>1. ShiftLeft(w, d, fill, s, fl) = Ans(d, fl \ {"OF"})
    BY <1>2 DEF ShiftLeft
  <2>2. ShiftLeft(w, d, fill, s, fl).v = d /\ ("CF" \in ShiftLeft(w, d, fill, s, fl).fl <=> "CF" \in fl)
    BY <2>1 DEF Ans
  <2>3. \A k \in 0..w - 1 : k >= s /\ k - s = k
    BY <1>2
  <2>4. QED
    BY <1>2, <2>2, <2>3
<1>3. CASE s # 0
  <2>1. y \in 0..2 ^ s - 1 /\ \A k \in Nat : Bit(y, k) <=> Bit(fill, w - s + k)
    BY <1>1, UpperBits
  <2> HIDE DEF y
  <2>2. /\ v \in WordOf(w)
        /\ \A k \in 0..w - 1 : Bit(v, k) <=> IF k >= s THEN Bit(d, k - s) ELSE Bit(y, k)
    BY <1>1, <2>1, Funnel
  <2>3. \A k \in 0..w - 1 : k \in Nat /\ w - s + k = w + k - s
    BY <1>1
  <2>4. \E on : /\ ShiftLeft(w, d, fill, s, fl) = Ans(v, Update(fl, ZSP \cup {"CF", "OF"}, on))
                /\ "CF" \in on <=> Bit(d, w - s)
    <3> DEFINE of == s = 1 /\ Bit(v, w - 1) # (On("CF", Bit(d, w - s)) # {})
               on == Zsp(v, w) \cup On("CF", Bit(d, w - s)) \cup On("OF", of)
    <3>1. s \in 1..w - 1 /\ s # 0 /\ ~(s >= w)
      BY <1>1, <1>3
    <3>2. ShiftLeft(w, d, fill, s, fl) = Ans(v, Update(fl, ZSP \cup {"CF", "OF"}, on))
      <4> HIDE DEF v
      <4>1. ShlTrunc(d, s, w) + Shr(fill, w - s) = v
        BY DEF v, y
      <4>2. QED
        BY <3>1, <4>1 DEF ShiftLeft
    <3> HIDE DEF of, v
    <3>3. "CF" \in on <=> Bit(d, w - s)
      BY DEF Zsp, On
    <3> HIDE DEF on
    <3>4. QED
      BY <3>2, <3>3
  <2> HIDE DEF v
  <2>5. ShiftLeft(w, d, fill, s, fl).v = v /\ ("CF" \in ShiftLeft(w, d, fill, s, fl).fl <=> Bit(d, w - s))
    BY <2>4 DEF Ans, Update, ZSP
  <2>6. QED
    BY <1>3, <2>1, <2>2, <2>3, <2>5
<1>4. QED
  BY <1>2, <1>3

\* And to the right.
LEMMA RightMoves ==
  ASSUME NEW w \in Nat \ {0}, NEW d \in WordOf(w), NEW fill \in WordOf(w),
         NEW s \in 0..w - 1, NEW fl
  PROVE  LET r == ShiftRight(w, d, fill, s, fl)
         IN  /\ r.v \in WordOf(w)
             /\ \A k \in 0..w - 1 :
                  Bit(r.v, k) <=> IF k + s < w THEN Bit(d, k + s) ELSE Bit(fill, k + s - w)
             /\ s = 0 => ("CF" \in r.fl <=> "CF" \in fl)
             /\ s # 0 => ("CF" \in r.fl <=> Bit(d, s - 1))
<1> DEFINE c == w - s
           y == Shr(d, s)
           v == ShlTrunc(fill, c, w) + y
<1>1. /\ w \in Nat /\ s \in 0..w /\ d \in Int /\ fill \in Int /\ s \in Nat
      /\ c \in 0..w /\ c \in Nat /\ w - c = s
  <2>1. 2 ^ w \in Nat
    BY PowerFacts
  <2>2. QED
    BY <2>1 DEF WordOf
<1>2. CASE s = 0
  <2>1. ShiftRight(w, d, fill, s, fl) = Ans(d, fl \ {"OF"})
    BY <1>2 DEF ShiftRight
  <2>2. ShiftRight(w, d, fill, s, fl).v = d /\ ("CF" \in ShiftRight(w, d, fill, s, fl).fl <=> "CF" \in fl)
    BY <2>1 DEF Ans
  <2>3. \A k \in 0..w - 1 : k + s < w /\ k + s = k
    BY <1>2
  <2>4. QED
    BY <1>2, <2>2, <2>3
<1>3. CASE s # 0
  <2> HIDE DEF c
  <2>1. y \in 0..2 ^ c - 1 /\ \A k \in Nat : Bit(y, k) <=> Bit(d, s + k)
    <3>1. Shr(d, w - c) \in 0..2 ^ c - 1 /\ \A k \in Nat : Bit(Shr(d, w - c), k) <=> Bit(d, w - c + k)
      BY <1>1, UpperBits
    <3>2. QED
      BY <1>1, <3>1
  <2> HIDE DEF y
  <2>2. /\ v \in WordOf(w)
        /\ \A k \in 0..w - 1 : Bit(v, k) <=> IF k >= c THEN Bit(fill, k - c) ELSE Bit(y, k)
    BY <1>1, <2>1, Funnel
  <2>3. \A k \in 0..w - 1 : /\ k \in Nat /\ s + k = k + s /\ k - c = k + s - w
                            /\ k >= c <=> ~(k + s < w)
    BY <1>1 DEF c
  <2>4. \E on : /\ ShiftRight(w, d, fill, s, fl) = Ans(v, Update(fl, ZSP \cup {"CF", "OF"}, on))
                /\ "CF" \in on <=> Bit(d, s - 1)
    <3> DEFINE of == s = 1 /\ Bit(v, w - 2) # Bit(v, w - 1)
               on == Zsp(v, w) \cup On("CF", Bit(d, s - 1)) \cup On("OF", of)
    <3>1. s \in 1..w - 1 /\ s # 0 /\ ~(s >= w)
      BY <1>1, <1>3
    <3>2. ShiftRight(w, d, fill, s, fl) = Ans(v, Update(fl, ZSP \cup {"CF", "OF"}, on))
      <4>1. Shr(d, s) + ShlTrunc(fill, w - s, w) = v
        <5> DEFINE z == ShlTrunc(fill, c, w)
        <5>1. z + y \in Int /\ y \in Int
          <6>1. 2 ^ w \in Nat /\ 2 ^ c \in Nat
            BY <1>1, PowerFacts
          <6>2. QED
            BY <2>1, <2>2, <6>1 DEF WordOf
        <5>2. z \in Int
          <6>1. c < w => w - c \in Nat
            BY <1>1
          <6>2. ASSUME c < w PROVE Trunc(fill, w - c) \in Int /\ 2 ^ c \in Int
            <7>1. Trunc(fill, w - c) \in WordOf(w - c) /\ 2 ^ (w - c) \in Nat /\ 2 ^ c \in Nat
              BY <1>1, <6>1, <6>2, TruncFacts, PowerFacts
            <7>2. QED
              BY <7>1 DEF WordOf
          <6>3. z = IF c >= w THEN 0 ELSE Trunc(fill, w - c) * 2 ^ c
            BY DEF ShlTrunc
          <6> HIDE DEF z
          <6>4. QED
            BY <1>1, <6>2, <6>3
        <5>3. y + z = z + y
          <6> HIDE DEF z
          <6>1. QED
            BY <5>1, <5>2
        <5>4. QED
          BY <5>3 DEF c, y
      <4> HIDE DEF v
      <4>2. QED
        BY <3>1, <4>1 DEF ShiftRight
    <3> HIDE DEF of, v
    <3>3. "CF" \in on <=> Bit(d, s - 1)
      BY DEF Zsp, On
    <3> HIDE DEF on
    <3>4. QED
      BY <3>2, <3>3
  <2> HIDE DEF v
  <2>5. ShiftRight(w, d, fill, s, fl).v = v /\ ("CF" \in ShiftRight(w, d, fill, s, fl).fl <=> Bit(d, s - 1))
    BY <2>4 DEF Ans, Update, ZSP
  <2>6. QED
    BY <1>3, <2>1, <2>2, <2>3, <2>5
<1>4. QED
  BY <1>2, <1>3

\* Every bit of a number with a sign above the word is that sign.
LEMMA BitOfSigned ==
  ASSUME NEW w \in Nat \ {0}, NEW d \in WordOf(w), NEW k \in Nat
  PROVE  Signed(d, w) \in Int /\ (Bit(Signed(d, w), k) <=> Bit(d, IF k < w THEN k ELSE w - 1))
<1> DEFINE N   == 2 ^ w
           neg == Bit(d, w - 1)
           x   == IF neg THEN -1 ELSE 0
<1>1. N \in Nat \ {0} /\ d \in 0..N - 1 /\ x \in Int /\ w \in Nat
  BY PowerFacts DEF WordOf
<1>2. Signed(d, w) = x * 2 ^ w + d
  <2>1. Signed(d, w) = IF neg THEN d - N ELSE d
    BY DEF Signed
  <2> HIDE DEF neg
  <2>2. x * N = IF neg THEN -N ELSE 0
    BY <1>1
  <2> HIDE DEF N, x
  <2>3. Signed(d, w) = x * N + d
    BY <1>1, <2>1, <2>2
  <2>4. QED
    BY <2>3 DEF N
<1>3. /\ k >= w => (Bit(x * 2 ^ w + d, k) <=> Bit(x, k - w))
      /\ k < w => (Bit(x * 2 ^ w + d, k) <=> Bit(d, k))
  <2> HIDE DEF x
  <2>1. d \in 0..2 ^ w - 1
    BY <1>1
  <2>2. QED
    BY <1>1, <2>1, BitOfJoin
<1>4. k >= w => (Bit(x, k - w) <=> neg)
  <2>1. k >= w => k - w \in Nat
    BY <1>1
  <2>2. QED
    BY <2>1, BitOfSign
<1>5. x * 2 ^ w + d \in Int
  BY <1>1
<1> HIDE DEF x
<1>6. CASE k < w
  BY <1>2, <1>3, <1>5, <1>6
<1>7. CASE k >= w
  <2>1. ~(k < w)
    BY <1>1, <1>7
  <2>2. QED
    BY <1>2, <1>3, <1>4, <1>5, <1>7, <2>1
<1>8. QED
  BY <1>1, <1>6, <1>7

\* Below the width every shift moves each bit by the count, fills with zero,
\* with the sign or with the bits of the other operand, and leaves the last
\* bit that went out in the carry (shl_byte .. shrd_long).
THEOREM ShiftsMoveEveryBit ==
  ASSUME NEW w \in Nat \ {0}, NEW d \in WordOf(w), NEW fill \in WordOf(w),
         NEW s \in 0..w - 1, NEW fl
  PROVE  /\ MovedBits(4, w, d, fill, s, fl, Shl(w, d, s, fl))
         /\ MovedBits(5, w, d, fill, s, fl, ShrOp(w, d, s, fl))
         /\ MovedBits(7, w, d, fill, s, fl, Sar(w, d, s, fl))
         /\ MovedBits(8, w, d, fill, s, fl, Shld(w, d, fill, s, fl))
         /\ MovedBits(9, w, d, fill, s, fl, Shrd(w, d, fill, s, fl))
<1>1. w \in Nat /\ s \in Nat /\ s < w /\ ~(s >= w) /\ d \in Int
  <2>1. 2 ^ w \in Nat
    BY PowerFacts
  <2>2. QED
    BY <2>1 DEF WordOf
<1> DEFINE zero == 0
<1>2. zero \in WordOf(w) /\ \A k \in Nat : ~Bit(zero, k)
  <2>1. 2 ^ w \in Nat \ {0}
    BY PowerFacts
  <2>2. QED
    BY <2>1, BitOfSign DEF WordOf
<1>3. \A k \in 0..w - 1 : /\ k \in Nat
                          /\ ~(k >= s) => w + k - s \in Nat
                          /\ ~(k + s < w) => k + s - w \in Nat
  BY <1>1
<1> HIDE DEF zero
<1>4. MovedBits(4, w, d, fill, s, fl, Shl(w, d, s, fl))
  <2> DEFINE r == ShiftLeft(w, d, zero, s, fl)
  <2>1. /\ r.v \in WordOf(w)
        /\ \A k \in 0..w - 1 :
             Bit(r.v, k) <=> IF k >= s THEN Bit(d, k - s) ELSE Bit(zero, w + k - s)
        /\ s = 0 => ("CF" \in r.fl <=> "CF" \in fl)
        /\ s # 0 => ("CF" \in r.fl <=> Bit(d, w - s))
    BY <1>2, LeftMoves
  <2>2. Shl(w, d, s, fl) = r
    BY DEF Shl, zero
  <2> HIDE DEF r
  <2>3. \A k \in 0..w - 1 : Bit(r.v, k) <=> k >= s /\ Bit(d, k - s)
    BY <1>2, <1>3, <2>1
  <2>4. QED
    BY <2>1, <2>2, <2>3 DEF MovedBits, ShiftedBit, ShiftedCarry
<1>5. MovedBits(5, w, d, fill, s, fl, ShrOp(w, d, s, fl))
  <2> DEFINE r == ShiftRight(w, d, zero, s, fl)
  <2>1. /\ r.v \in WordOf(w)
        /\ \A k \in 0..w - 1 :
             Bit(r.v, k) <=> IF k + s < w THEN Bit(d, k + s) ELSE Bit(zero, k + s - w)
        /\ s = 0 => ("CF" \in r.fl <=> "CF" \in fl)
        /\ s # 0 => ("CF" \in r.fl <=> Bit(d, s - 1))
    BY <1>2, RightMoves
  <2>2. ShrOp(w, d, s, fl) = r
    BY <1>1 DEF ShrOp, zero
  <2> HIDE DEF r
  <2>3. \A k \in 0..w - 1 : Bit(r.v, k) <=> k + s < w /\ Bit(d, k + s)
    BY <1>2, <1>3, <2>1
  <2>4. QED
    BY <2>1, <2>2, <2>3 DEF MovedBits, ShiftedBit, ShiftedCarry
<1>6. MovedBits(7, w, d, fill, s, fl, Sar(w, d, s, fl))
  <2> DEFINE x == Signed(d, w)
             v == Trunc(x \div 2 ^ s, w)
             g == Sar(w, d, s, fl).fl
  <2>1. s % w = s
    BY <1>1
  <2>2. /\ s = 0 => Sar(w, d, s, fl) = Ans(d, fl)
        /\ s # 0 => Sar(w, d, s, fl)
                      = Ans(v, Update(fl, ZSP \cup {"CF"}, Zsp(v, w) \cup On("CF", Bit(d, s - 1))))
    <3> DEFINE c == s % w
    <3>1. /\ c = 0 => Sar(w, d, s, fl) = Ans(d, fl)
          /\ c # 0 => Sar(w, d, s, fl)
               = Ans(Trunc(Signed(d, w) \div 2 ^ c, w),
                     Update(fl, ZSP \cup {"CF"}, Zsp(Trunc(Signed(d, w) \div 2 ^ c, w), w)
                                                   \cup On("CF", Bit(d, c - 1))))
      BY DEF Sar
    <3>2. c = s
      BY <2>1
    <3> HIDE DEF c
    <3>3. QED
      BY <3>1, <3>2
  <2>3. x \in Int /\ 2 ^ s \in Nat \ {0}
    <3>1. s \in Nat
      BY <1>1
    <3>2. QED
      BY <3>1, BitOfSigned, PowerFacts
  <2> HIDE DEF x
  <2>4. x \div 2 ^ s \in Int
    BY <2>3, DivFacts
  <2>5. v \in WordOf(w)
    BY <1>1, <2>4, TruncFacts
  <2>6. \A k \in 0..w - 1 : Bit(v, k) <=> Bit(d, IF k + s < w THEN k + s ELSE w - 1)
    <3>1. SUFFICES ASSUME NEW k \in 0..w - 1
                   PROVE  Bit(v, k) <=> Bit(d, IF k + s < w THEN k + s ELSE w - 1)
      OBVIOUS
    <3>2. k \in Nat /\ k < w /\ s + k = k + s /\ k + s \in Nat
      BY <1>1
    <3>3. Bit(v, k) <=> Bit(Shr(x, s), k)
      BY <1>1, <2>4, <3>2, BitOfTrunc DEF Shr
    <3>4. Bit(Shr(x, s), k) <=> Bit(x, s + k)
      BY <1>1, <2>3, <3>2, BitOfShr
    <3>5. Bit(x, k + s) <=> Bit(d, IF k + s < w THEN k + s ELSE w - 1)
      BY <3>2, BitOfSigned DEF x
    <3>6. QED
      BY <3>2, <3>3, <3>4, <3>5
  <2> HIDE DEF v
  <2>7. CASE s = 0
    <3>1. Sar(w, d, s, fl).v = d /\ g = fl
      BY <2>2, <2>7 DEF Ans
    <3>2. \A k \in 0..w - 1 : k + s < w /\ k + s = k
      BY <1>1, <2>7
    <3> HIDE DEF g
    <3>3. QED
      BY <2>7, <3>1, <3>2 DEF MovedBits, ShiftedBit, ShiftedCarry, g
  <2>8. CASE s # 0
    <3>1. Sar(w, d, s, fl) = Ans(v, Update(fl, ZSP \cup {"CF"}, Zsp(v, w) \cup On("CF", Bit(d, s - 1))))
      BY <2>2, <2>8
    <3>2. Sar(w, d, s, fl).v = v /\ ("CF" \in g <=> Bit(d, s - 1))
      BY <3>1 DEF Ans, Update, ZSP, Zsp, On
    <3> HIDE DEF g
    <3>3. QED
      BY <2>5, <2>6, <2>8, <3>2 DEF MovedBits, ShiftedBit, ShiftedCarry, g
  <2>9. QED
    BY <2>7, <2>8
<1>7. MovedBits(8, w, d, fill, s, fl, Shld(w, d, fill, s, fl))
  <2> DEFINE r == ShiftLeft(w, d, fill, s, fl)
  <2>1. /\ r.v \in WordOf(w)
        /\ \A k \in 0..w - 1 :
             Bit(r.v, k) <=> IF k >= s THEN Bit(d, k - s) ELSE Bit(fill, w + k - s)
        /\ s = 0 => ("CF" \in r.fl <=> "CF" \in fl)
        /\ s # 0 => ("CF" \in r.fl <=> Bit(d, w - s))
    BY LeftMoves
  <2>2. Shld(w, d, fill, s, fl) = r
    BY DEF Shld
  <2> HIDE DEF r
  <2>3. QED
    BY <2>1, <2>2 DEF MovedBits, ShiftedBit, ShiftedCarry
<1>8. MovedBits(9, w, d, fill, s, fl, Shrd(w, d, fill, s, fl))
  <2> DEFINE r == ShiftRight(w, d, fill, s, fl)
  <2>1. /\ r.v \in WordOf(w)
        /\ \A k \in 0..w - 1 :
             Bit(r.v, k) <=> IF k + s < w THEN Bit(d, k + s) ELSE Bit(fill, k + s - w)
        /\ s = 0 => ("CF" \in r.fl <=> "CF" \in fl)
        /\ s # 0 => ("CF" \in r.fl <=> Bit(d, s - 1))
    BY RightMoves
  <2>2. Shrd(w, d, fill, s, fl) = r
    BY DEF Shrd
  <2> HIDE DEF r
  <2>3. QED
    BY <2>1, <2>2 DEF MovedBits, ShiftedBit, ShiftedCarry
<1>9. QED
  BY <1>4, <1>5, <1>6, <1>7, <1>8

\* The word after a rotate to the left by c.
TurnLeft(w, d, c) == IF c = 0 THEN d ELSE ShlTrunc(d, c, w) + Shr(d, w - c)

\* Both rotates are rotates to the left.
LEMMA RotateValues ==
  ASSUME NEW w \in Nat \ {0}, NEW d \in WordOf(w), NEW s \in Nat, NEW fl
  PROVE  /\ s % w \in 0..w - 1
         /\ Rol(w, d, s, fl).v = TurnLeft(w, d, s % w)
         /\ Ror(w, d, s, fl).v = TurnLeft(w, d, IF s % w = 0 THEN 0 ELSE w - (s % w))
<1> DEFINE c == s % w
           e == IF c = 0 THEN 0 ELSE w - c
           z == IF c = 0 THEN d ELSE ShlTrunc(d, w - c, w) + Shr(d, c)
<1>1. c \in 0..w - 1
  <2>1. s \in Int
    OBVIOUS
  <2>2. QED
    BY <2>1, DivFacts
<1>2. s = 0 => c = 0
  <2>1. (0 * w + 0) % w = 0
    BY DivUnique
  <2>2. 0 % w = 0
    BY <2>1
  <2>3. QED
    BY <2>2
<1>3. /\ s # 0 => Rol(w, d, s, fl).v = TurnLeft(w, d, c)
      /\ s = 0 => Rol(w, d, s, fl).v = d
      /\ s # 0 => Ror(w, d, s, fl).v = z
      /\ s = 0 => Ror(w, d, s, fl).v = d
  BY DEF Rol, Ror, Ans, TurnLeft
<1> HIDE DEF c
<1>4. z = TurnLeft(w, d, e)
  <2>1. c # 0 => e # 0 /\ e = w - c /\ w - e = c
    BY <1>1
  <2> HIDE DEF e
  <2>2. CASE c # 0
    BY <2>1, <2>2 DEF TurnLeft
  <2>3. CASE c = 0
    BY <2>3 DEF TurnLeft, e
  <2>4. QED
    BY <2>2, <2>3
<1>5. c = 0 => TurnLeft(w, d, c) = d /\ z = d
  BY DEF TurnLeft
<1> HIDE DEF z, e
<1>6. Rol(w, d, s, fl).v = TurnLeft(w, d, c) /\ Ror(w, d, s, fl).v = TurnLeft(w, d, e)
  BY <1>2, <1>3, <1>4, <1>5
<1>7. QED
  BY <1>1, <1>6 DEF c, e

\* Two rotates by w altogether bring a word back.
LEMMA TurnBack ==
  ASSUME NEW w \in Nat \ {0}, NEW d \in WordOf(w), NEW c \in 0..w - 1
  PROVE  /\ TurnLeft(w, d, c) \in WordOf(w)
         /\ TurnLeft(w, TurnLeft(w, d, c), IF c = 0 THEN 0 ELSE w - c) = d
<1> DEFINE v == TurnLeft(w, d, c)
<1>1. v \in WordOf(w)
  BY RotatedWord DEF TurnLeft
<1>2. CASE c = 0
  <2>1. TurnLeft(w, d, c) = d /\ TurnLeft(w, d, 0) = d
    BY <1>2 DEF TurnLeft
  <2>2. QED
    BY <1>1, <1>2, <2>1
<1>3. CASE c # 0
  <2> DEFINE e == w - c
             C == 2 ^ c
             E == 2 ^ e
             L == d % E
             H == d \div E
  <2>1. /\ c \in Nat /\ e \in 1..w - 1 /\ e \in Nat /\ w - e = c /\ c < w
        /\ C \in Nat \ {0} /\ E \in Nat \ {0} /\ d \in Int /\ w \in Nat /\ c \in 0..w
    <3>1. c \in Nat /\ e \in 1..w - 1 /\ e \in Nat /\ w - e = c /\ c < w /\ w \in Nat /\ c \in 0..w
      BY <1>3
    <3>2. C \in Nat \ {0} /\ E \in Nat \ {0} /\ 2 ^ w \in Nat
      BY <3>1, PowerFacts
    <3>3. QED
      BY <3>1, <3>2 DEF WordOf
  <2>2. H \in 0..C - 1
    BY <2>1, UpperBits DEF Shr
  <2> HIDE DEF C, E
  <2>3. d = E * H + L /\ L \in 0..E - 1 /\ H \in Int
    BY <2>1, DivFacts
  <2>4. v = L * C + H
    <3>1. ~(c >= w)
      BY <2>1
    <3>2. QED
      BY <1>3, <3>1 DEF TurnLeft, ShlTrunc, Trunc, Shr, L, H, C, E
  <2> HIDE DEF L, H, e
  <2>5. v \div C = L /\ v % C = H
    <3>1. L \in Int
      BY <2>1, <2>3
    <3>2. QED
      BY <2>1, <2>2, <2>4, <3>1, DivUnique, ZenonT(60)
  <2> HIDE DEF v
  <2>6. TurnLeft(w, v, e) = H * E + L
    <3>1. ~(e >= w) /\ e # 0
      BY <2>1
    <3>2. TurnLeft(w, v, e) = Trunc(v, w - e) * 2 ^ e + Shr(v, w - e)
      BY <3>1 DEF TurnLeft, ShlTrunc
    <3>3. QED
      BY <2>1, <2>5, <3>2 DEF Trunc, Shr, C, E
  <2>7. H * E + L = d
    BY <2>1, <2>3
  <2>8. QED
    BY <1>1, <1>3, <2>6, <2>7 DEF e, v
<1>4. QED
  BY <1>2, <1>3

\* The word after a rotate to the left by c through a carry.
TurnRing(w, d, carry, c) ==
  ShlTrunc(d, c, w) + Shr(d, w + 1 - c) + (IF carry THEN 2 ^ (c - 1) ELSE 0)

\* Both rotates through the carry are rotates of that kind to the left.
LEMMA RingValues ==
  ASSUME NEW w \in Nat \ {0}, NEW d \in WordOf(w), NEW s \in Nat, NEW fl
  PROVE  LET c == s % (w + 1)
             l == Rcl(w, d, s, fl)
             r == Rcr(w, d, s, fl)
         IN  /\ c \in 0..w
             /\ c = 0 => l.v = d /\ l.fl = fl /\ r.v = d /\ r.fl = fl
             /\ c # 0 => /\ l.v = TurnRing(w, d, "CF" \in fl, c)
                         /\ ("CF" \in l.fl <=> Bit(d, w - c))
                         /\ r.v = TurnRing(w, d, "CF" \in fl, w + 1 - c)
                         /\ ("CF" \in r.fl <=> Bit(d, w - (w + 1 - c)))
<1> DEFINE c == s % (w + 1)
           l == Rcl(w, d, s, fl)
           r == Rcr(w, d, s, fl)
           carry == "CF" \in fl
           z == Shr(d, c) + ShlTrunc(d, w + 1 - c, w) + (IF carry THEN 2 ^ (w - c) ELSE 0)
<1>1. c \in 0..w
  <2> DEFINE n == w + 1
  <2>1. n \in Nat \ {0} /\ s \in Int /\ n - 1 = w
    OBVIOUS
  <2> HIDE DEF n
  <2>2. s % n \in 0..n - 1
    BY <2>1, DivFacts
  <2>3. QED
    BY <2>1, <2>2 DEF n
<1>2. /\ c = 0 => l = Ans(d, fl) /\ r = Ans(d, fl)
      /\ c # 0 => \E on : /\ l = Ans(TurnRing(w, d, carry, c), Update(fl, {"CF", "OF"}, on))
                          /\ "CF" \in on <=> Bit(d, w - c)
      /\ c # 0 => \E on, df : /\ r = Ans(z, Update(fl, {"CF"} \cup df, on))
                              /\ "CF" \in on <=> Bit(d, c - 1)
  <2> DEFINE v  == TurnRing(w, d, carry, c)
             of == c = 1 /\ Bit(d, w - c) # Bit(v, w - 1)
             on == On("CF", Bit(d, w - c)) \cup On("OF", of)
             og == c = 1 /\ ("CF" \in fl) # Bit(d, w - 1)
             oo == On("CF", Bit(d, c - 1)) \cup On("OF", og)
  <2>1. c = 0 => l = Ans(d, fl) /\ r = Ans(d, fl)
    BY DEF Rcl, Rcr
  <2>2. c # 0 => l = Ans(v, Update(fl, {"CF", "OF"}, on))
    BY DEF Rcl, TurnRing
  <2>3. c # 0 => r = Ans(z, Update(fl, {"CF"} \cup On("OF", c = 1), oo))
    BY DEF Rcr
  <2> HIDE DEF v, of, og
  <2>4. ("CF" \in on <=> Bit(d, w - c)) /\ ("CF" \in oo <=> Bit(d, c - 1))
    BY DEF On
  <2> HIDE DEF on, oo, z, l, r, c
  <2>5. QED
    BY <2>1, <2>2, <2>3, <2>4 DEF v
<1>3. c # 0 => z = TurnRing(w, d, carry, w + 1 - c)
  <2> DEFINE e == w + 1 - c
             x == Shr(d, c)
             y == ShlTrunc(d, e, w)
  <2> HIDE DEF c
  <2>1. SUFFICES ASSUME c # 0 PROVE z = TurnRing(w, d, carry, e)
    OBVIOUS
  <2>2. e \in Nat /\ e - 1 = w - c /\ w + 1 - e = c /\ c \in Nat /\ (e < w => w - e \in Nat)
    BY <1>1, <2>1
  <2>3. d \in Int /\ 2 ^ c \in Nat \ {0} /\ 2 ^ e \in Nat
    <3> HIDE DEF e
    <3>1. 2 ^ w \in Nat /\ 2 ^ c \in Nat \ {0} /\ 2 ^ e \in Nat
      BY <2>2, PowerFacts
    <3>2. QED
      BY <3>1 DEF WordOf
  <2>4. x \in Int
    BY <2>3, DivFacts DEF Shr
  <2> HIDE DEF e
  <2>5. y \in Int
    <3>1. ASSUME e < w PROVE Trunc(d, w - e) \in Int
      <4>1. Trunc(d, w - e) \in WordOf(w - e) /\ 2 ^ (w - e) \in Nat
        BY <2>2, <2>3, <3>1, TruncFacts, PowerFacts
      <4>2. QED
        BY <4>1 DEF WordOf
    <3>2. y = IF e >= w THEN 0 ELSE Trunc(d, w - e) * 2 ^ e
      BY DEF ShlTrunc
    <3> HIDE DEF y
    <3>3. QED
      BY <2>2, <2>3, <3>1, <3>2
  <2>6. x + y = y + x
    <3> HIDE DEF x, y
    <3>1. QED
      BY <2>4, <2>5
  <2>7. z = x + y + (IF carry THEN 2 ^ (w - c) ELSE 0)
    BY DEF e
  <2>8. TurnRing(w, d, carry, e) = y + x + (IF carry THEN 2 ^ (w - c) ELSE 0)
    BY <2>2 DEF TurnRing
  <2> HIDE DEF x, y, z
  <2>9. QED
    BY <2>6, <2>7, <2>8
<1>4. c # 0 => w - (w + 1 - c) = c - 1
  <2> HIDE DEF c
  <2>1. QED
    BY <1>1
<1> HIDE DEF c, l, r, z
<1>5. c = 0 => l.v = d /\ l.fl = fl /\ r.v = d /\ r.fl = fl
  BY <1>2 DEF Ans
<1>6. c # 0 => /\ l.v = TurnRing(w, d, carry, c)
               /\ ("CF" \in l.fl <=> Bit(d, w - c))
               /\ r.v = TurnRing(w, d, carry, w + 1 - c)
               /\ ("CF" \in r.fl <=> Bit(d, w - (w + 1 - c)))
  <2> HIDE DEF carry
  <2>1. QED
    BY <1>2, <1>3, <1>4 DEF Ans, Update
<1>7. QED
  BY <1>1, <1>5, <1>6 DEF c, l, r

\* Two of them by w + 1 altogether bring word and carry back.
LEMMA RingBack ==
  ASSUME NEW w \in Nat \ {0}, NEW d \in WordOf(w), NEW c \in 1..w, NEW carry \in BOOLEAN
  PROVE  LET v == TurnRing(w, d, carry, c)
         IN  /\ v \in WordOf(w)
             /\ TurnRing(w, v, Bit(d, w - c), w + 1 - c) = d
             /\ Bit(v, c - 1) <=> carry
<1> DEFINE v  == TurnRing(w, d, carry, c)
           b  == c - 1
           e  == w - c
           B  == 2 ^ b
           E  == 2 ^ e
           L  == d % E
           h  == d \div E
           H  == h \div 2
           f  == h % 2
           x  == IF carry THEN 1 ELSE 0
<1>1. v \in WordOf(w)
  BY RingWord DEF TurnRing
<1>2. /\ b \in Nat /\ e \in Nat /\ c \in Nat /\ w \in Nat /\ b + 1 = c /\ c = 1 + b /\ w + 1 - c = e + 1
      /\ (e + 1) - 1 = e /\ w - (e + 1) = b /\ w + 1 - (e + 1) = c /\ w - b = e + 1
      /\ b \in 0..w /\ (c >= w <=> e = 0) /\ (e + 1 >= w <=> b = 0)
      /\ B \in Nat \ {0} /\ E \in Nat \ {0}
      /\ 2 ^ c = 2 * B /\ 2 ^ (e + 1) = 2 * E /\ d \in Int /\ x \in {0, 1}
  <2>1. /\ b \in Nat /\ e \in Nat /\ c \in Nat /\ w \in Nat /\ b + 1 = c /\ c = 1 + b /\ w + 1 - c = e + 1
        /\ (e + 1) - 1 = e /\ w - (e + 1) = b /\ w + 1 - (e + 1) = c /\ w - b = e + 1
        /\ b \in 0..w /\ (c >= w <=> e = 0) /\ (e + 1 >= w <=> b = 0) /\ x \in {0, 1}
    OBVIOUS
  <2>2. B \in Nat \ {0} /\ E \in Nat \ {0} /\ 2 ^ (b + 1) = 2 * B /\ 2 ^ (e + 1) = 2 * E /\ 2 ^ w \in Nat
    BY <2>1, PowerFacts
  <2>3. QED
    BY <2>1, <2>2 DEF WordOf
<1>3. Shr(d, e + 1) \in 0..B - 1
  <2>1. Shr(d, w - b) \in 0..2 ^ b - 1
    BY <1>2, UpperBits
  <2>2. QED
    BY <1>2, <2>1
<1> HIDE DEF B, E, b, e, x
<1>4. d = E * h + L /\ L \in 0..E - 1 /\ h \in Int
  BY <1>2, DivFacts
<1> HIDE DEF h, L
<1>5. h = 2 * H + f /\ f \in {0, 1} /\ H \in Int
  BY <1>4
<1>6. Shr(d, e + 1) = H
  <2> DEFINE two == 2
  <2>1. two \in Nat \ {0} /\ 2 ^ (e + 1) = E * two
    BY <1>2
  <2> HIDE DEF two
  <2>2. (d \div E) \div two = d \div (E * two)
    BY <1>2, <2>1, DivDiv
  <2>3. QED
    BY <2>1, <2>2 DEF Shr, H, h, two
<1>7. Bit(d, e) <=> f = 1
  BY DEF Bit, f, h, E
<1> HIDE DEF H, f
<1>8. H \in 0..B - 1
  BY <1>3, <1>6
<1>9. v = L * (2 * B) + H + x * B
  <2> DEFINE y == ShlTrunc(d, c, w)
  <2>1. y = L * (2 * B)
    <3>1. c >= w => L = 0
      <4>1. ASSUME c >= w PROVE E = 1
        <5>1. e = 0
          BY <1>2, <4>1
        <5>2. QED
          BY <5>1, PowerFacts DEF E
      <4>2. QED
        BY <1>4, <4>1
    <3>2. ~(c >= w) => y = L * (2 * B)
      <4>1. Trunc(d, w - c) = L
        BY DEF Trunc, L, E, e
      <4>2. QED
        BY <1>2, <4>1 DEF ShlTrunc
    <3>3. c >= w => y = 0
      BY DEF ShlTrunc
    <3>4. L = 0 => L * (2 * B) = 0
      BY <1>2
    <3> HIDE DEF y
    <3>5. QED
      BY <3>1, <3>2, <3>3, <3>4
  <2>2. (IF carry THEN 2 ^ (c - 1) ELSE 0) = x * B
    <3>1. x * B = IF carry THEN B ELSE 0
      BY <1>2 DEF x
    <3>2. QED
      BY <3>1 DEF B, b
  <2>3. v = y + Shr(d, w + 1 - c) + (IF carry THEN 2 ^ (c - 1) ELSE 0)
    BY DEF TurnRing
  <2>4. v = y + H + x * B
    BY <1>2, <1>6, <2>2, <2>3
  <2> HIDE DEF y, v
  <2>5. QED
    BY <2>1, <2>4
<1> HIDE DEF v
<1>10. v \div 2 ^ c = L
  <2> DEFINE D == 2 * B
             r == x * B + H
  <2>1. D \in Nat \ {0} /\ L \in Int
    BY <1>2, <1>4
  <2>2. r \in 0..D - 1
    <3>1. x * B = 0 \/ x * B = B
      BY <1>2
    <3>2. QED
      BY <1>2, <1>8, <3>1
  <2>3. v = L * D + r
    <3>1. x * B \in Int /\ L * D \in Int
      BY <1>2, <2>1
    <3>2. QED
      BY <1>8, <1>9, <3>1
  <2> HIDE DEF D, r
  <2>4. (L * D + r) \div D = L
    BY <2>1, <2>2, DivUnique
  <2>5. QED
    BY <1>2, <2>3, <2>4 DEF D
<1>11. v % B = H /\ v \div B = 2 * L + x
  <2> DEFINE q == 2 * L + x
  <2>1. q \in Int
    BY <1>2, <1>4
  <2>2. q * B = L * (2 * B) + x * B
    BY <1>2, <1>4
  <2>3. v = q * B + H
    <3>1. x * B \in Int /\ L * (2 * B) \in Int /\ q * B \in Int
      BY <1>2, <1>4, <2>1
    <3> HIDE DEF q
    <3>2. QED
      BY <1>8, <1>9, <2>2, <3>1
  <2> HIDE DEF q
  <2>4. (q * B + H) \div B = q /\ (q * B + H) % B = H
    BY <1>2, <1>8, <2>1, DivUnique
  <2>5. QED
    BY <2>3, <2>4 DEF q
<1>12. Bit(v, c - 1) <=> carry
  <2>1. (2 * L + x) % 2 = x
    BY <1>2, <1>4
  <2>2. Bit(v, b) <=> x = 1
    BY <1>11, <2>1 DEF Bit, B
  <2>3. QED
    BY <2>2 DEF b, x
<1>13. TurnRing(w, v, Bit(d, w - c), w + 1 - c) = d
  <2> DEFINE y == ShlTrunc(v, e + 1, w)
  <2>1. y = H * (2 * E)
    <3>1. e + 1 >= w => H = 0
      <4>1. ASSUME e + 1 >= w PROVE B = 1
        <5>1. b = 0
          BY <1>2, <4>1
        <5>2. QED
          BY <5>1, PowerFacts DEF B
      <4>2. QED
        BY <1>8, <4>1
    <3>2. ~(e + 1 >= w) => y = H * (2 * E)
      <4>1. Trunc(v, w - (e + 1)) = H
        BY <1>2, <1>11 DEF Trunc, B
      <4>2. QED
        BY <1>2, <4>1 DEF ShlTrunc
    <3>3. e + 1 >= w => y = 0
      BY DEF ShlTrunc
    <3>4. H = 0 => H * (2 * E) = 0
      BY <1>2
    <3> HIDE DEF y
    <3>5. QED
      BY <3>1, <3>2, <3>3, <3>4
  <2>2. (IF Bit(d, e) THEN 2 ^ e ELSE 0) = f * E
    <3>1. f * E = IF f = 1 THEN E ELSE 0
      BY <1>2, <1>5
    <3>2. QED
      BY <1>7, <3>1 DEF E
  <2>3. TurnRing(w, v, Bit(d, e), e + 1) = y + L + f * E
    <3>1. TurnRing(w, v, Bit(d, e), e + 1)
            = y + Shr(v, w + 1 - (e + 1)) + (IF Bit(d, e) THEN 2 ^ ((e + 1) - 1) ELSE 0)
      BY DEF TurnRing
    <3>2. Shr(v, w + 1 - (e + 1)) = L
      BY <1>2, <1>10 DEF Shr
    <3>3. QED
      BY <1>2, <2>2, <3>1, <3>2
  <2> HIDE DEF y
  <2>4. E * h = H * (2 * E) + f * E
    BY <1>2, <1>5
  <2>5. H * (2 * E) \in Int /\ f * E \in Int /\ L \in Int
    BY <1>2, <1>4, <1>5
  <2>6. y + L + f * E = d
    BY <1>4, <2>1, <2>4, <2>5
  <2>7. QED
    BY <1>2, <2>3, <2>6 DEF e
<1>14. QED
  BY <1>1, <1>12, <1>13 DEF v

\* A rotate and the rotate back by the same count restore the word, and the
\* carry where it takes part, for every count.
THEOREM RotatesUndo ==
  ASSUME NEW w \in Nat \ {0}, NEW d \in WordOf(w), NEW s \in Nat, NEW fl, NEW fl2
  PROVE  /\ Ror(w, Rol(w, d, s, fl).v, s, fl2).v = d
         /\ Rol(w, Ror(w, d, s, fl).v, s, fl2).v = d
         /\ LET l == Rcl(w, d, s, fl)
                r == Rcr(w, d, s, fl)
            IN  /\ Rcr(w, l.v, s, l.fl).v = d /\ Rcl(w, r.v, s, r.fl).v = d
                /\ "CF" \in Rcr(w, l.v, s, l.fl).fl <=> "CF" \in fl
                /\ "CF" \in Rcl(w, r.v, s, r.fl).fl <=> "CF" \in fl
<1>1. Ror(w, Rol(w, d, s, fl).v, s, fl2).v = d /\ Rol(w, Ror(w, d, s, fl).v, s, fl2).v = d
  <2> DEFINE c == s % w
             e == IF c = 0 THEN 0 ELSE w - c
             v == TurnLeft(w, d, c)
             u == TurnLeft(w, d, e)
  <2>1. c \in 0..w - 1 /\ Rol(w, d, s, fl).v = v /\ Ror(w, d, s, fl).v = u
    BY RotateValues
  <2> HIDE DEF c
  <2>2. e \in 0..w - 1 /\ c = IF e = 0 THEN 0 ELSE w - e
    BY <2>1
  <2>3. v \in WordOf(w) /\ TurnLeft(w, v, e) = d
    BY <2>1, TurnBack
  <2>4. u \in WordOf(w) /\ TurnLeft(w, u, c) = d
    <3> HIDE DEF e
    <3>1. u \in WordOf(w) /\ TurnLeft(w, u, IF e = 0 THEN 0 ELSE w - e) = d
      BY <2>2, TurnBack
    <3> HIDE DEF u
    <3>2. QED
      BY <2>2, <3>1
  <2> HIDE DEF u, v
  <2>5. Ror(w, v, s, fl2).v = TurnLeft(w, v, e) /\ Rol(w, u, s, fl2).v = TurnLeft(w, u, c)
    BY <2>3, <2>4, RotateValues DEF c
  <2>6. QED
    BY <2>1, <2>3, <2>4, <2>5
<1>2. /\ Rcr(w, Rcl(w, d, s, fl).v, s, Rcl(w, d, s, fl).fl).v = d
      /\ Rcl(w, Rcr(w, d, s, fl).v, s, Rcr(w, d, s, fl).fl).v = d
      /\ "CF" \in Rcr(w, Rcl(w, d, s, fl).v, s, Rcl(w, d, s, fl).fl).fl <=> "CF" \in fl
      /\ "CF" \in Rcl(w, Rcr(w, d, s, fl).v, s, Rcr(w, d, s, fl).fl).fl <=> "CF" \in fl
  <2> DEFINE c == s % (w + 1)
             e == w + 1 - c
             l == Rcl(w, d, s, fl)
             r == Rcr(w, d, s, fl)
             carry == "CF" \in fl
             v == TurnRing(w, d, carry, c)
             u == TurnRing(w, d, carry, e)
  <2>1. /\ c \in 0..w
        /\ c = 0 => l.v = d /\ l.fl = fl /\ r.v = d /\ r.fl = fl
        /\ c # 0 => /\ l.v = v /\ ("CF" \in l.fl <=> Bit(d, w - c))
                    /\ r.v = u /\ ("CF" \in r.fl <=> Bit(d, w - e))
    BY RingValues
  <2> HIDE DEF c, l, r
  <2>3. CASE c = 0
    BY <2>1, <2>3 DEF l, r
  <2>4. CASE c # 0
    <3>1. c \in 1..w /\ e \in 1..w /\ w + 1 - e = c /\ w - e = c - 1 /\ e - 1 = w - c /\ carry \in BOOLEAN
      BY <2>1, <2>4
    <3> HIDE DEF e, carry
    <3>2. /\ v \in WordOf(w)
          /\ TurnRing(w, v, Bit(d, w - c), w + 1 - c) = d
          /\ Bit(v, c - 1) <=> carry
      BY <3>1, RingBack
    <3>3. /\ u \in WordOf(w)
          /\ TurnRing(w, u, Bit(d, w - e), w + 1 - e) = d
          /\ Bit(u, e - 1) <=> carry
      BY <3>1, RingBack
    <3> HIDE DEF u, v
    <3>4. TurnRing(w, v, Bit(d, w - c), e) = d /\ TurnRing(w, u, Bit(d, w - e), c) = d
      BY <3>1, <3>2, <3>3 DEF e
    <3> DEFINE lf == "CF" \in l.fl
               rf == "CF" \in r.fl
    <3>5. /\ Rcr(w, v, s, l.fl).v = TurnRing(w, v, lf, e)
          /\ ("CF" \in Rcr(w, v, s, l.fl).fl <=> Bit(v, w - e))
          /\ Rcl(w, u, s, r.fl).v = TurnRing(w, u, rf, c)
          /\ ("CF" \in Rcl(w, u, s, r.fl).fl <=> Bit(u, w - c))
      <4> DEFINE lg == l.fl
                 rg == r.fl
      <4> HIDE DEF lg, rg
      <4>1. c # 0 => /\ Rcr(w, v, s, lg).v = TurnRing(w, v, "CF" \in lg, w + 1 - c)
                     /\ ("CF" \in Rcr(w, v, s, lg).fl <=> Bit(v, w - (w + 1 - c)))
        BY <3>2, RingValues, ZenonT(60) DEF c
      <4>2. c # 0 => /\ Rcl(w, u, s, rg).v = TurnRing(w, u, "CF" \in rg, c)
                     /\ ("CF" \in Rcl(w, u, s, rg).fl <=> Bit(u, w - c))
        BY <3>3, RingValues, ZenonT(60) DEF c
      <4>3. QED
        BY <2>4, <4>1, <4>2 DEF lg, rg, e
    <3>6. lf = Bit(d, w - c) /\ rf = Bit(d, w - e)
      <4>1. \A k : Bit(d, k) \in BOOLEAN
        BY DEF Bit
      <4>2. QED
        BY <2>1, <2>4, <4>1
    <3> HIDE DEF lf, rf
    <3>7. /\ Rcr(w, v, s, l.fl).v = d /\ Rcl(w, u, s, r.fl).v = d
          /\ ("CF" \in Rcr(w, v, s, l.fl).fl <=> carry)
          /\ ("CF" \in Rcl(w, u, s, r.fl).fl <=> carry)
      BY <3>1, <3>2, <3>3, <3>4, <3>5, <3>6
    <3>8. l.v = v /\ r.v = u
      BY <2>1, <2>4
    <3>9. QED
      BY <3>7, <3>8 DEF l, r, carry
  <2>5. QED
    BY <2>3, <2>4
<1>3. QED
  BY <1>1, <1>2

-----------------------------------------------------------------------------
(* Decimal adjust.                                                         *)

\* Two digits in a byte of n * n values, for nibbles of 3 bits and of 4.
Halved == 2 ^ Nibble

\* The values of a nibble and of a byte of two.
LEMMA NibbleValues ==
  /\ Halved \in {8, 16} /\ 2 ^ ByteBits = Halved * Halved /\ Ten \in 2..Halved
  /\ Nibble \in Nat /\ ByteBits \in Nat
<1>1. CASE ByteBits = 6
  <2>1. Nibble = 3 /\ 2 ^ 3 = 8 /\ 2 ^ 6 = 64
    BY <1>1 DEF Nibble
  <2>2. QED
    BY <1>1, <2>1, WordsAssumption DEF Halved, Nibble
<1>2. CASE ByteBits = 8
  <2>1. Nibble = 4 /\ 2 ^ 4 = 16 /\ 2 ^ 8 = 256
    BY <1>2 DEF Nibble
  <2>2. QED
    BY <1>2, <2>1, WordsAssumption DEF Halved, Nibble
<1>3. QED
  BY <1>1, <1>2, WordsAssumption

\* The adjustment of a sum, in integers: a1 a0 and b1 b0 are the digits, n
\* the values of half a byte.
AdjustedSum(n, r, af, cf) ==
  LET low  == r % n > Ten - 1 \/ af
      t    == IF low THEN r + (n - Ten) ELSE r
      high == t > (Ten - 1) * n + (n - 1) \/ cf
  IN  [v |-> (IF high THEN t + (n - Ten) * n ELSE t) % (n * n), high |-> high]

\* What is carried out of a digit, and borrowed into one.
Over(i)  == IF i >= Ten THEN 1 ELSE 0
Under(i) == IF i < 0 THEN 1 ELSE 0

\* Word, carry and auxiliary carry of digits a1 a0 and b1 b0, n values each.
SumOf(n, a1, a0, b1, b0, c, r, cf, af) ==
  /\ n \in {8, 16} /\ Ten \in 2..n
  /\ a1 \in 0..Ten - 1 /\ a0 \in 0..Ten - 1 /\ b1 \in 0..Ten - 1 /\ b0 \in 0..Ten - 1
  /\ c \in {0, 1} /\ r \in 0..n * n - 1 /\ cf \in BOOLEAN /\ af \in BOOLEAN
  /\ af <=> a0 + b0 + c >= n
  /\ r + (IF cf THEN n * n ELSE 0) = (a1 * n + a0) + (b1 * n + b0) + c

\* The adjusted sum has the digits of the decimal sum.
LEMMA DigitsOfSum ==
  ASSUME NEW n, NEW a1, NEW a0, NEW b1, NEW b0, NEW c, NEW r, NEW cf, NEW af,
         SumOf(n, a1, a0, b1, b0, c, r, cf, af)
  PROVE  /\ AdjustedSum(n, r, af, cf).high <=> Over(a1 + b1 + Over(a0 + b0 + c)) = 1
         /\ AdjustedSum(n, r, af, cf).v
              = (a1 + b1 + Over(a0 + b0 + c) - Over(a1 + b1 + Over(a0 + b0 + c)) * Ten) * n
                + (a0 + b0 + c - Over(a0 + b0 + c) * Ten)
<1> USE DEF SumOf
<1> DEFINE k    == IF a0 + b0 + c >= Ten THEN 1 ELSE 0
           o    == IF a0 + b0 + c >= Ten THEN a0 + b0 + c - Ten ELSE a0 + b0 + c
           g    == a1 + b1 + k
           k2   == IF g >= Ten THEN 1 ELSE 0
           u    == IF g >= Ten THEN g - Ten ELSE g
           low  == r % n > Ten - 1 \/ af
           t    == IF low THEN r + (n - Ten) ELSE r
           high == t > (Ten - 1) * n + (n - 1) \/ cf
           y    == IF high THEN t + (n - Ten) * n ELSE t
<1>1. Ten \in Int /\ k \in {0, 1} /\ o \in 0..Ten - 1 /\ g \in 0..2 * Ten - 1 /\ u \in 0..Ten - 1 /\ k2 \in {0, 1}
      /\ k * Ten = (IF k = 1 THEN Ten ELSE 0) /\ k2 * Ten = (IF k2 = 1 THEN Ten ELSE 0)
  OBVIOUS
<1>2. a0 + b0 + c - k * Ten = o /\ g - k2 * Ten = u
  BY <1>1
<1>3. ASSUME n = 8 PROVE (high <=> k2 = 1) /\ y % (n * n) = u * n + o
  <2>1. low <=> k = 1
    BY <1>1, <1>3
  <2>2. t = g * 8 + o - (IF cf THEN 64 ELSE 0) /\ t >= 0
    <3> HIDE DEF low, g
    <3>1. r = a1 * 8 + a0 + b1 * 8 + b0 + c - (IF cf THEN 64 ELSE 0)
      BY <1>1, <1>3
    <3>2. QED
      BY <1>1, <1>3, <2>1, <3>1 DEF g
  <2> HIDE DEF t, low, g, k, o
  <2> DEFINE limit == (Ten - 1) * n + (n - 1)
             fix   == (n - Ten) * n
  <2>8. limit = 8 * Ten - 1 /\ fix = 64 - 8 * Ten
    BY <1>1, <1>3
  <2> HIDE DEF limit, fix
  <2>9. high <=> t > limit \/ cf
    BY DEF limit
  <2>10. y = IF high THEN t + fix ELSE t
    BY DEF fix
  <2> HIDE DEF high, y
  <2>3. high <=> g >= Ten
    BY <1>1, <1>3, <2>1, <2>2, <2>8, <2>9
  <2>4. y = u * 8 + o + (IF high /\ ~cf THEN 64 ELSE 0)
    BY <1>1, <1>3, <2>2, <2>3, <2>8, <2>10
  <2> HIDE DEF y, u
  <2>5. u * 8 + o \in 0..63
    BY <1>1, <1>3
  <2>6. y % 64 = u * 8 + o
    BY <2>4, <2>5, <1>1
  <2>7. QED
    BY <1>3, <2>3, <2>6
<1>4. ASSUME n = 16 PROVE (high <=> k2 = 1) /\ y % (n * n) = u * n + o
  <2>1. low <=> k = 1
    BY <1>1, <1>4
  <2>2. t = g * 16 + o - (IF cf THEN 256 ELSE 0) /\ t >= 0
    <3> HIDE DEF low, g
    <3>1. r = a1 * 16 + a0 + b1 * 16 + b0 + c - (IF cf THEN 256 ELSE 0)
      BY <1>1, <1>4
    <3>2. QED
      BY <1>1, <1>4, <2>1, <3>1 DEF g
  <2> HIDE DEF t, low, g, k, o
  <2> DEFINE limit == (Ten - 1) * n + (n - 1)
             fix   == (n - Ten) * n
  <2>8. limit = 16 * Ten - 1 /\ fix = 256 - 16 * Ten
    BY <1>1, <1>4
  <2> HIDE DEF limit, fix
  <2>9. high <=> t > limit \/ cf
    BY DEF limit
  <2>10. y = IF high THEN t + fix ELSE t
    BY DEF fix
  <2> HIDE DEF high, y
  <2>3. high <=> g >= Ten
    BY <1>1, <1>4, <2>1, <2>2, <2>8, <2>9
  <2>4. y = u * 16 + o + (IF high /\ ~cf THEN 256 ELSE 0)
    BY <1>1, <1>4, <2>2, <2>3, <2>8, <2>10
  <2> HIDE DEF y, u
  <2>5. u * 16 + o \in 0..255
    BY <1>1, <1>4
  <2>6. y % 256 = u * 16 + o
    BY <2>4, <2>5, <1>1
  <2>7. QED
    BY <1>4, <2>3, <2>6
<1>5. AdjustedSum(n, r, af, cf).v = y % (n * n) /\ AdjustedSum(n, r, af, cf).high = high
  BY DEF AdjustedSum
<1>6. (high <=> k2 = 1) /\ y % (n * n) = u * n + o
  BY <1>3, <1>4
<1>7. k = Over(a0 + b0 + c) /\ k2 = Over(g)
  BY DEF Over
<1>8. a1 + b1 + k - k2 * Ten = u
  <2> DEFINE p == k2 * Ten
  <2>1. p \in Int /\ g - p = u
    BY <1>1, <1>2
  <2> HIDE DEF p, u
  <2>2. a1 + b1 + k - p = u
    BY <1>1, <2>1
  <2>3. QED
    BY <2>2 DEF p
<1> HIDE DEF high, y, k, o, u, k2
<1>9. QED
  BY <1>2, <1>5, <1>6, <1>7, <1>8

\* The same of a difference.
AdjustedDifference(n, r, af, cf) ==
  LET low  == r % n > Ten - 1 \/ af
      t    == IF low THEN (r - (n - Ten)) % (n * n) ELSE r
      high == t > (Ten - 1) * n + (n - 1) \/ cf
  IN  [v |-> (IF high THEN t - (n - Ten) * n ELSE t) % (n * n), high |-> high]

\* Word, carry and auxiliary carry of digits a1 a0 and b1 b0, n values each.
DifferenceOf(n, a1, a0, b1, b0, c, r, cf, af) ==
  /\ n \in {8, 16} /\ Ten \in 2..n
  /\ a1 \in 0..Ten - 1 /\ a0 \in 0..Ten - 1 /\ b1 \in 0..Ten - 1 /\ b0 \in 0..Ten - 1
  /\ c \in {0, 1} /\ r \in 0..n * n - 1 /\ cf \in BOOLEAN /\ af \in BOOLEAN
  /\ af <=> a0 < b0 + c
  /\ r - (IF cf THEN n * n ELSE 0) = (a1 * n + a0) - (b1 * n + b0) - c

\* The adjusted difference has the digits of the decimal difference.
LEMMA DigitsOfDifference ==
  ASSUME NEW n, NEW a1, NEW a0, NEW b1, NEW b0, NEW c, NEW r, NEW cf, NEW af,
         DifferenceOf(n, a1, a0, b1, b0, c, r, cf, af)
  PROVE  /\ AdjustedDifference(n, r, af, cf).high <=> Under(a1 - b1 - Under(a0 - b0 - c)) = 1
         /\ AdjustedDifference(n, r, af, cf).v
              = (a1 - b1 - Under(a0 - b0 - c) + Under(a1 - b1 - Under(a0 - b0 - c)) * Ten) * n
                + (a0 - b0 - c + Under(a0 - b0 - c) * Ten)
<1> USE DEF DifferenceOf
<1> DEFINE k    == IF a0 < b0 + c THEN 1 ELSE 0
           o    == IF a0 < b0 + c THEN a0 - b0 - c + Ten ELSE a0 - b0 - c
           g    == a1 - b1 - k
           k2   == IF a1 < b1 + k THEN 1 ELSE 0
           u    == IF g < 0 THEN g + Ten ELSE g
           low  == r % n > Ten - 1 \/ af
           z    == r - (n - Ten)
           t    == IF low THEN z % (n * n) ELSE r
           high == t > (Ten - 1) * n + (n - 1) \/ cf
           y    == IF high THEN t - (n - Ten) * n ELSE t
<1>1. /\ Ten \in Int /\ k \in {0, 1} /\ o \in 0..Ten - 1 /\ g \in -Ten..Ten - 1 /\ u \in 0..Ten - 1
      /\ k2 \in {0, 1} /\ (k2 = 1 <=> g < 0)
      /\ k * Ten = (IF k = 1 THEN Ten ELSE 0) /\ k2 * Ten = (IF k2 = 1 THEN Ten ELSE 0)
  OBVIOUS
<1>2. a0 - b0 - c + k * Ten = o /\ g + k2 * Ten = u
  BY <1>1
<1>3. ASSUME n = 8 PROVE (high <=> k2 = 1) /\ y % (n * n) = u * n + o
  <2> DEFINE borrow == IF cf THEN 64 ELSE 0
  <2>1. low <=> k = 1
    BY <1>1, <1>3
  <2>2. g * 8 + o + borrow \in 0..63
    <3> HIDE DEF low, g
    <3>1. r = a1 * 8 + a0 - b1 * 8 - b0 - c + borrow
      BY <1>1, <1>3
    <3>2. g * 8 + o + borrow = IF k = 1 THEN r - 8 + Ten ELSE r
      BY <1>1, <1>3, <3>1 DEF g
    <3>3. r \in 0..63
      BY <1>3
    <3>4. ASSUME k = 1 PROVE r - 8 + Ten \in 0..63
      <4>1. a0 - b0 - c < 0 /\ a0 - b0 - c >= -8
        BY <1>3, <3>4
      <4>2. r >= 8 - Ten
        BY <1>1, <1>3, <3>1, <3>3, <3>4, <4>1
      <4>3. QED
        BY <1>1, <1>3, <3>3, <4>2
    <3>5. QED
      BY <1>1, <3>2, <3>3, <3>4
  <2>3. t = g * 8 + o + borrow
    <3>1. k = 1 => z = g * 8 + o + borrow
      BY <1>1, <1>3
    <3>2. k = 0 => r = g * 8 + o + borrow
      BY <1>1, <1>3
    <3> HIDE DEF z, low, g, o, borrow
    <3>3. \A i \in 0..63 : i % 64 = i
      OBVIOUS
    <3>4. n * n = 64
      BY <1>3
    <3>5. QED
      BY <1>1, <2>1, <2>2, <3>1, <3>2, <3>3, <3>4
  <2> DEFINE limit == (Ten - 1) * n + (n - 1)
             fix   == (n - Ten) * n
  <2>4. limit = 8 * Ten - 1 /\ fix = 64 - 8 * Ten /\ Ten <= 8
    BY <1>1, <1>3
  <2> HIDE DEF t, low, g, k, o, k2, limit, fix
  <2>5. high <=> t > limit \/ cf
    BY DEF limit
  <2>6. y = IF high THEN t - fix ELSE t
    BY DEF fix
  <2> HIDE DEF high, y
  <2>7. high <=> g < 0
    BY <1>1, <2>2, <2>3, <2>4, <2>5
  <2>8. y = u * 8 + o + (IF cf /\ ~high THEN 64 ELSE IF high /\ ~cf THEN -64 ELSE 0)
    BY <1>1, <2>2, <2>3, <2>4, <2>6, <2>7
  <2> HIDE DEF u
  <2>9. u * 8 + o \in 0..63
    BY <1>1, <2>4
  <2> DEFINE p == u * 8 + o
  <2>10. /\ p \in 0..63 /\ y = p + (IF cf /\ ~high THEN 64 ELSE IF high /\ ~cf THEN -64 ELSE 0)
    BY <2>8, <2>9
  <2> HIDE DEF p
  <2>11. y % 64 = p
    BY <2>10
  <2>12. QED
    BY <1>1, <1>3, <2>7, <2>11 DEF p
<1>4. ASSUME n = 16 PROVE (high <=> k2 = 1) /\ y % (n * n) = u * n + o
  <2> DEFINE borrow == IF cf THEN 256 ELSE 0
  <2>1. low <=> k = 1
    BY <1>1, <1>4
  <2>2. g * 16 + o + borrow \in 0..255
    <3> HIDE DEF low, g
    <3>1. r = a1 * 16 + a0 - b1 * 16 - b0 - c + borrow
      BY <1>1, <1>4
    <3>2. g * 16 + o + borrow = IF k = 1 THEN r - 16 + Ten ELSE r
      BY <1>1, <1>4, <3>1 DEF g
    <3>3. r \in 0..255
      BY <1>4
    <3>4. ASSUME k = 1 PROVE r - 16 + Ten \in 0..255
      <4>1. a0 - b0 - c < 0 /\ a0 - b0 - c >= -16
        BY <1>4, <3>4
      <4>2. r >= 16 - Ten
        BY <1>1, <1>4, <3>1, <3>3, <3>4, <4>1
      <4>3. QED
        BY <1>1, <1>4, <3>3, <4>2
    <3>5. QED
      BY <1>1, <3>2, <3>3, <3>4
  <2>3. t = g * 16 + o + borrow
    <3>1. k = 1 => z = g * 16 + o + borrow
      BY <1>1, <1>4
    <3>2. k = 0 => r = g * 16 + o + borrow
      BY <1>1, <1>4
    <3> HIDE DEF z, low, g, o, borrow
    <3>3. \A i \in 0..255 : i % 256 = i
      OBVIOUS
    <3>4. n * n = 256
      BY <1>4
    <3>5. QED
      BY <1>1, <2>1, <2>2, <3>1, <3>2, <3>3, <3>4
  <2> DEFINE limit == (Ten - 1) * n + (n - 1)
             fix   == (n - Ten) * n
  <2>4. limit = 16 * Ten - 1 /\ fix = 256 - 16 * Ten /\ Ten <= 16
    BY <1>1, <1>4
  <2> HIDE DEF t, low, g, k, o, k2, limit, fix
  <2>5. high <=> t > limit \/ cf
    BY DEF limit
  <2>6. y = IF high THEN t - fix ELSE t
    BY DEF fix
  <2> HIDE DEF high, y
  <2>7. high <=> g < 0
    BY <1>1, <2>2, <2>3, <2>4, <2>5
  <2>16. y = u * 16 + o + (IF cf /\ ~high THEN 256 ELSE IF high /\ ~cf THEN -256 ELSE 0)
    BY <1>1, <2>2, <2>3, <2>4, <2>6, <2>7
  <2> HIDE DEF u
  <2>9. u * 16 + o \in 0..255
    BY <1>1, <2>4
  <2> DEFINE p == u * 16 + o
  <2>10. /\ p \in 0..255 /\ y = p + (IF cf /\ ~high THEN 256 ELSE IF high /\ ~cf THEN -256 ELSE 0)
    BY <2>16, <2>9
  <2> HIDE DEF p
  <2>11. y % 256 = p
    BY <2>10
  <2>12. QED
    BY <1>1, <1>4, <2>7, <2>11 DEF p
<1>5. AdjustedDifference(n, r, af, cf).v = y % (n * n) /\ AdjustedDifference(n, r, af, cf).high = high
  BY DEF AdjustedDifference
<1>6. (high <=> k2 = 1) /\ y % (n * n) = u * n + o
  BY <1>3, <1>4
<1>7. k = Under(a0 - b0 - c) /\ k2 = Under(g)
  <2>1. (a0 < b0 + c <=> a0 - b0 - c < 0) /\ (a1 < b1 + k <=> g < 0)
    BY <1>1
  <2>2. QED
    BY <2>1 DEF Under
<1> HIDE DEF high, y, k, o, u, k2
<1>8. QED
  BY <1>2, <1>5, <1>6, <1>7

\* The bytes of two digits.
PackedBytes == {x \in 0..Halved * Halved - 1 : x \div Halved \in 0..Ten - 1 /\ x % Halved \in 0..Ten - 1}

\* A byte of two digits, taken apart and put together.
LEMMA PackedFacts ==
  /\ \A x \in PackedBytes :
       /\ x \in WordOf(ByteBits) /\ x \div Halved \in 0..Ten - 1 /\ x % Halved \in 0..Ten - 1
       /\ x = (x \div Halved) * Halved + (x % Halved)
       /\ Trunc(x, Nibble) = x % Halved
       /\ Packed(x) = Ten * (x \div Halved) + (x % Halved)
  /\ \A i \in 0..Ten - 1, j \in 0..Ten - 1 :
       i * Halved + j \in PackedBytes /\ Packed(i * Halved + j) = Ten * i + j
<1>1. Halved \in Nat \ {0} /\ Ten \in 2..Halved /\ 2 ^ ByteBits = Halved * Halved /\ Halved * Halved \in Nat
  BY NibbleValues
<1>2. ASSUME NEW x \in PackedBytes
      PROVE  /\ x \in WordOf(ByteBits) /\ x \div Halved \in 0..Ten - 1 /\ x % Halved \in 0..Ten - 1
             /\ x = (x \div Halved) * Halved + (x % Halved)
             /\ Trunc(x, Nibble) = x % Halved
             /\ Packed(x) = Ten * (x \div Halved) + (x % Halved)
  <2>1. x \in Int /\ x \in 0..Halved * Halved - 1 /\ x \div Halved \in 0..Ten - 1 /\ x % Halved \in 0..Ten - 1
    BY <1>1 DEF PackedBytes
  <2>2. x = Halved * (x \div Halved) + (x % Halved)
    BY <1>1, <2>1, DivFacts
  <2>3. Halved * (x \div Halved) = (x \div Halved) * Halved
    BY <1>1, <2>1
  <2>4. Trunc(x, Nibble) = x % Halved /\ Shr(x, Nibble) = x \div Halved
    BY DEF Trunc, Shr, Halved
  <2>5. QED
    BY <1>1, <2>1, <2>2, <2>3, <2>4 DEF WordOf, Packed
<1>3. ASSUME NEW i \in 0..Ten - 1, NEW j \in 0..Ten - 1
      PROVE  i * Halved + j \in PackedBytes /\ Packed(i * Halved + j) = Ten * i + j
  <2>1. i \in 0..Halved - 1 /\ j \in 0..Halved - 1 /\ i \in Int
    BY <1>1
  <2>2. (i * Halved + j) \div Halved = i /\ (i * Halved + j) % Halved = j
    BY <1>1, <2>1, DivUnique
  <2>3. i * Halved + j \in 0..Halved * Halved - 1
    BY <1>1, <2>1, TwoParts
  <2>4. Trunc(i * Halved + j, Nibble) = j /\ Shr(i * Halved + j, Nibble) = i
    BY <2>2 DEF Trunc, Shr, Halved
  <2>5. QED
    BY <2>2, <2>3, <2>4 DEF PackedBytes, Packed
<1>4. QED
  BY <1>2, <1>3

\* add, or adc, followed by daa is decimal addition: the carry is that of the
\* tens (daa_byte).
THEOREM DaaIsExact ==
  ASSUME NEW d \in PackedBytes, NEW s \in PackedBytes, NEW fl
  PROVE  LET r == Adc(ByteBits, d, s, fl)
             x == Daa(r.v, r.fl)
         IN  /\ x.v \in PackedBytes
             /\ Packed(x.v) + Carry(x.fl) * Ten * Ten = Packed(d) + Packed(s) + Carry(fl)
<1> DEFINE n  == Halved
           c  == Carry(fl)
           r  == Adc(ByteBits, d, s, fl).v
           g  == Adc(ByteBits, d, s, fl).fl
           af == "AF" \in g
           cf == "CF" \in g
           a1 == d \div n
           a0 == d % n
           b1 == s \div n
           b0 == s % n
           x  == AdjustedSum(n, r, af, cf)
           k  == Over(a0 + b0 + c)
           k2 == Over(a1 + b1 + k)
<1>1. /\ d \in WordOf(ByteBits) /\ s \in WordOf(ByteBits)
      /\ a1 \in 0..Ten - 1 /\ a0 \in 0..Ten - 1 /\ b1 \in 0..Ten - 1 /\ b0 \in 0..Ten - 1
      /\ d = a1 * n + a0 /\ s = b1 * n + b0
      /\ Trunc(d, Nibble) = a0 /\ Trunc(s, Nibble) = b0
      /\ Packed(d) = Ten * a1 + a0 /\ Packed(s) = Ten * b1 + b0
  BY PackedFacts
<1>2. /\ n \in {8, 16} /\ 2 ^ ByteBits = n * n /\ Ten \in 2..n /\ 2 ^ Nibble = n
      /\ ByteBits \in Nat /\ ByteBits >= ByteBits
  BY NibbleValues DEF Halved
<1>3. c \in {0, 1} /\ cf \in BOOLEAN /\ af \in BOOLEAN
  BY DEF Carry
<1>4. /\ r \in WordOf(ByteBits)
      /\ r + Carry(g) * 2 ^ ByteBits = d + s + c
      /\ af <=> Trunc(d, Nibble) + Trunc(s, Nibble) + c >= 2 ^ Nibble
  <2>1. /\ Adc(ByteBits, d, s, fl).v \in WordOf(ByteBits)
        /\ Adc(ByteBits, d, s, fl).v + Carry(Adc(ByteBits, d, s, fl).fl) * 2 ^ ByteBits = d + s + Carry(fl)
        /\ "AF" \in Adc(ByteBits, d, s, fl).fl <=> Trunc(d, Nibble) + Trunc(s, Nibble) + Carry(fl) >= 2 ^ Nibble
    <3>1. ByteBits \in Nat /\ ByteBits >= ByteBits /\ d \in WordOf(ByteBits) /\ s \in WordOf(ByteBits)
      BY <1>1, <1>2
    <3>2. QED
      BY <3>1, AdcIsExact
  <2>2. QED
    BY <2>1
<1>5. /\ Daa(r, g).v = x.v
      /\ "CF" \in Daa(r, g).fl <=> x.high
  <2> DEFINE low  == Adjusts(r, g)
             t    == IF low THEN r + Fix ELSE r
             high == t > TensLimit \/ "CF" \in g
             v    == Trunc(IF high THEN t + Join(Fix, 0, Nibble) ELSE t, ByteBits)
  <2>1. Daa(r, g) = Ans(v, Update(g, ZSP, Zsp(v, ByteBits)) \cup On("AF", low) \cup On("CF", high))
    BY DEF Daa
  <2>2. Fix = n - Ten /\ TensLimit = (Ten - 1) * n + (n - 1)
    BY DEF Fix, TensLimit, Join, Halved
  <2>3. Join(Fix, 0, Nibble) = (n - Ten) * n
    <3> DEFINE p == (n - Ten) * n
    <3>1. Join(Fix, 0, Nibble) = p + 0
      BY <2>2 DEF Join, Halved
    <3>2. p \in Int
      BY <1>2
    <3> HIDE DEF p
    <3>3. QED
      BY <3>1, <3>2 DEF p
  <2>4. low <=> r % n > Ten - 1 \/ af
    BY DEF Adjusts, LowNibble, Trunc, Halved
  <2>5. v = (IF high THEN t + (n - Ten) * n ELSE t) % (n * n)
    BY <1>2, <2>3 DEF Trunc
  <2> HIDE DEF low, n, r, g
  <2>6. x.v = v /\ (x.high <=> high)
    BY <2>2, <2>4, <2>5 DEF AdjustedSum
  <2>7. "CF" \in g => high
    OBVIOUS
  <2> HIDE DEF high, v, x, t
  <2>8. Daa(r, g).v = v /\ ("CF" \in Daa(r, g).fl <=> high)
    BY <2>1, <2>7 DEF Ans, Update, ZSP, Zsp, On
  <2>9. QED
    BY <2>6, <2>8
<1> HIDE DEF n, c, r, g, af, cf, a1, a0, b1, b0
<1>6. /\ x.high <=> k2 = 1
      /\ x.v = (a1 + b1 + k - k2 * Ten) * n + (a0 + b0 + c - k * Ten)
  <2>1. r \in 0..n * n - 1
    BY <1>2, <1>4 DEF WordOf
  <2>2. r + (IF cf THEN n * n ELSE 0) = (a1 * n + a0) + (b1 * n + b0) + c
    <3>1. n * n \in Int
      BY <1>2
    <3>2. Carry(g) * (n * n) = IF cf THEN n * n ELSE 0
      BY <3>1 DEF Carry, cf
    <3>3. QED
      BY <1>1, <1>2, <1>4, <3>2
  <2>3. af <=> a0 + b0 + c >= n
    BY <1>1, <1>2, <1>4
  <2>4. /\ n \in {8, 16} /\ Ten \in 2..n /\ c \in {0, 1} /\ cf \in BOOLEAN /\ af \in BOOLEAN
        /\ a1 \in 0..Ten - 1 /\ a0 \in 0..Ten - 1 /\ b1 \in 0..Ten - 1 /\ b0 \in 0..Ten - 1
    BY <1>1, <1>2, <1>3
  <2>5. SumOf(n, a1, a0, b1, b0, c, r, cf, af)
    BY <2>1, <2>2, <2>3, <2>4 DEF SumOf
  <2>6. QED
    BY <2>5, DigitsOfSum
<1> DEFINE i == a1 + b1 + k - k2 * Ten
           j == a0 + b0 + c - k * Ten
<1>7. /\ i \in 0..Ten - 1 /\ j \in 0..Ten - 1 /\ Ten \in Int /\ k \in {0, 1} /\ k2 \in {0, 1}
  <2>1. Ten \in Int
    BY <1>2
  <2>2. QED
    BY <1>1, <1>3, <2>1 DEF Over
<1>8. x.v \in PackedBytes /\ Packed(x.v) = Ten * i + j
  <2> HIDE DEF i, j, x
  <2>1. x.v = i * n + j
    BY <1>6 DEF i, j
  <2>2. QED
    BY <1>7, <2>1, PackedFacts DEF n
<1>9. Carry(Daa(r, g).fl) = k2
  <2> HIDE DEF k2, x
  <2>1. QED
    BY <1>5, <1>6, <1>7 DEF Carry
<1>10. Ten * i + j + k2 * Ten * Ten = Packed(d) + Packed(s) + c
  <2>1. Ten * i = Ten * a1 + Ten * b1 + Ten * k - k2 * Ten * Ten
    BY <1>1, <1>7
  <2>2. Ten * k = k * Ten /\ Ten * a1 \in Int /\ Ten * b1 \in Int /\ k * Ten \in Int /\ k2 * Ten * Ten \in Int
    BY <1>1, <1>7, SMTT(30)
  <2>3. a0 \in Int /\ b0 \in Int /\ c \in Int
    BY <1>1, <1>3, <1>7
  <2>4. j = a0 + b0 + c - k * Ten
    OBVIOUS
  <2> HIDE DEF i, j, k, k2
  <2>5. QED
    BY <1>1, <1>7, <2>1, <2>2, <2>3, <2>4
<1> HIDE DEF i, j, k, k2, x
<1>11. Daa(r, g).v \in PackedBytes
       /\ Packed(Daa(r, g).v) + Carry(Daa(r, g).fl) * Ten * Ten = Packed(d) + Packed(s) + c
  BY <1>5, <1>8, <1>9, <1>10
<1>12. QED
  BY <1>11 DEF r, g, c

\* sub, or sbb, followed by das is decimal subtraction: the carry is what was
\* borrowed for the tens (das_byte).
THEOREM DasIsExact ==
  ASSUME NEW d \in PackedBytes, NEW s \in PackedBytes, NEW fl
  PROVE  LET r == Sbb(ByteBits, d, s, fl)
             x == Das(r.v, r.fl)
         IN  /\ x.v \in PackedBytes
             /\ Packed(x.v) - Carry(x.fl) * Ten * Ten = Packed(d) - Packed(s) - Carry(fl)
<1> DEFINE n  == Halved
           c  == Carry(fl)
           r  == Sbb(ByteBits, d, s, fl).v
           g  == Sbb(ByteBits, d, s, fl).fl
           af == "AF" \in g
           cf == "CF" \in g
           a1 == d \div n
           a0 == d % n
           b1 == s \div n
           b0 == s % n
           x  == AdjustedDifference(n, r, af, cf)
           k  == Under(a0 - b0 - c)
           k2 == Under(a1 - b1 - k)
<1>1. /\ d \in WordOf(ByteBits) /\ s \in WordOf(ByteBits)
      /\ a1 \in 0..Ten - 1 /\ a0 \in 0..Ten - 1 /\ b1 \in 0..Ten - 1 /\ b0 \in 0..Ten - 1
      /\ d = a1 * n + a0 /\ s = b1 * n + b0
      /\ Trunc(d, Nibble) = a0 /\ Trunc(s, Nibble) = b0
      /\ Packed(d) = Ten * a1 + a0 /\ Packed(s) = Ten * b1 + b0
  BY PackedFacts
<1>2. /\ n \in {8, 16} /\ 2 ^ ByteBits = n * n /\ Ten \in 2..n /\ 2 ^ Nibble = n
      /\ ByteBits \in Nat /\ ByteBits >= ByteBits
  BY NibbleValues DEF Halved
<1>3. c \in {0, 1} /\ cf \in BOOLEAN /\ af \in BOOLEAN
  BY DEF Carry
<1>4. /\ r \in WordOf(ByteBits)
      /\ r - Carry(g) * 2 ^ ByteBits = d - s - c
      /\ af <=> Trunc(d, Nibble) < Trunc(s, Nibble) + c
  <2>1. /\ Sbb(ByteBits, d, s, fl).v \in WordOf(ByteBits)
        /\ Sbb(ByteBits, d, s, fl).v - Carry(Sbb(ByteBits, d, s, fl).fl) * 2 ^ ByteBits = d - s - Carry(fl)
        /\ "AF" \in Sbb(ByteBits, d, s, fl).fl <=> Trunc(d, Nibble) < Trunc(s, Nibble) + Carry(fl)
    <3>1. ByteBits \in Nat /\ ByteBits >= ByteBits /\ d \in WordOf(ByteBits) /\ s \in WordOf(ByteBits)
      BY <1>1, <1>2
    <3>2. QED
      BY <3>1, SbbIsExact
  <2>2. QED
    BY <2>1
<1>5. /\ Das(r, g).v = x.v
      /\ "CF" \in Das(r, g).fl <=> x.high
  <2> DEFINE low  == Adjusts(r, g)
             t    == IF low THEN Trunc(r - Fix, ByteBits) ELSE r
             high == t > TensLimit \/ "CF" \in g
             v    == Trunc(IF high THEN t - Join(Fix, 0, Nibble) ELSE t, ByteBits)
  <2>1. Das(r, g) = Ans(v, Update(g, ZSP, Zsp(v, ByteBits)) \cup On("AF", low) \cup On("CF", high))
    BY DEF Das
  <2>2. Fix = n - Ten /\ TensLimit = (Ten - 1) * n + (n - 1)
    BY DEF Fix, TensLimit, Join, Halved
  <2>3. Join(Fix, 0, Nibble) = (n - Ten) * n
    <3> DEFINE p == (n - Ten) * n
    <3>1. Join(Fix, 0, Nibble) = p + 0
      BY <2>2 DEF Join, Halved
    <3>2. p \in Int
      BY <1>2
    <3> HIDE DEF p
    <3>3. QED
      BY <3>1, <3>2 DEF p
  <2>4. low <=> r % n > Ten - 1 \/ af
    BY DEF Adjusts, LowNibble, Trunc, Halved
  <2>5. v = (IF high THEN t - (n - Ten) * n ELSE t) % (n * n)
    BY <1>2, <2>3 DEF Trunc
  <2>6. t = IF low THEN (r - (n - Ten)) % (n * n) ELSE r
    BY <1>2, <2>2 DEF Trunc
  <2>7. "CF" \in g => high
    OBVIOUS
  <2> DEFINE u == t
  <2>8. /\ u = IF low THEN (r - (n - Ten)) % (n * n) ELSE r
        /\ high <=> (u > (Ten - 1) * n + (n - 1) \/ cf)
        /\ v = (IF high THEN u - (n - Ten) * n ELSE u) % (n * n)
    BY <2>2, <2>5, <2>6
  <2> HIDE DEF low, n, r, g, u, high, v, af, cf
  <2>9. x.v = v /\ (x.high <=> high)
    BY <2>4, <2>8 DEF AdjustedDifference
  <2> HIDE DEF x
  <2>10. Das(r, g).v = v /\ ("CF" \in Das(r, g).fl <=> high)
    BY <2>1, <2>7 DEF Ans, Update, ZSP, Zsp, On
  <2>11. QED
    BY <2>9, <2>10
<1> HIDE DEF n, c, r, g, af, cf, a1, a0, b1, b0
<1>6. /\ x.high <=> k2 = 1
      /\ x.v = (a1 - b1 - k + k2 * Ten) * n + (a0 - b0 - c + k * Ten)
  <2>1. r \in 0..n * n - 1
    BY <1>2, <1>4 DEF WordOf
  <2>2. r - (IF cf THEN n * n ELSE 0) = (a1 * n + a0) - (b1 * n + b0) - c
    <3>1. n * n \in Int
      BY <1>2
    <3>2. Carry(g) * (n * n) = IF cf THEN n * n ELSE 0
      BY <3>1 DEF Carry, cf
    <3>3. QED
      BY <1>1, <1>2, <1>4, <3>2
  <2>3. af <=> a0 < b0 + c
    BY <1>1, <1>2, <1>4
  <2>4. /\ n \in {8, 16} /\ Ten \in 2..n /\ c \in {0, 1} /\ cf \in BOOLEAN /\ af \in BOOLEAN
        /\ a1 \in 0..Ten - 1 /\ a0 \in 0..Ten - 1 /\ b1 \in 0..Ten - 1 /\ b0 \in 0..Ten - 1
    BY <1>1, <1>2, <1>3
  <2>5. DifferenceOf(n, a1, a0, b1, b0, c, r, cf, af)
    BY <2>1, <2>2, <2>3, <2>4 DEF DifferenceOf
  <2>6. QED
    BY <2>5, DigitsOfDifference
<1> DEFINE i == a1 - b1 - k + k2 * Ten
           j == a0 - b0 - c + k * Ten
<1>7. /\ i \in 0..Ten - 1 /\ j \in 0..Ten - 1 /\ Ten \in Int /\ k \in {0, 1} /\ k2 \in {0, 1}
  <2>1. Ten \in Int
    BY <1>2
  <2>2. QED
    BY <1>1, <1>3, <2>1 DEF Under
<1>8. x.v \in PackedBytes /\ Packed(x.v) = Ten * i + j
  <2> HIDE DEF i, j, x
  <2>1. x.v = i * n + j
    BY <1>6 DEF i, j
  <2>2. QED
    BY <1>7, <2>1, PackedFacts DEF n
<1>9. Carry(Das(r, g).fl) = k2
  <2> HIDE DEF k2, x
  <2>1. QED
    BY <1>5, <1>6, <1>7 DEF Carry
<1>10. (Ten * i + j) - k2 * Ten * Ten = Packed(d) - Packed(s) - c
  <2>1. Ten * i = Ten * a1 - Ten * b1 - Ten * k + k2 * Ten * Ten
    BY <1>1, <1>7
  <2>2. Ten * k = k * Ten /\ Ten * a1 \in Int /\ Ten * b1 \in Int /\ k * Ten \in Int /\ k2 * Ten * Ten \in Int
    BY <1>1, <1>7, SMTT(30)
  <2>3. a0 \in Int /\ b0 \in Int /\ c \in Int
    BY <1>1, <1>3, <1>7
  <2>4. j = a0 - b0 - c + k * Ten
    OBVIOUS
  <2> HIDE DEF i, j, k, k2
  <2>5. QED
    BY <1>1, <1>7, <2>1, <2>2, <2>3, <2>4
<1> HIDE DEF i, j, k, k2, x
<1>11. Das(r, g).v \in PackedBytes
       /\ Packed(Das(r, g).v) - Carry(Das(r, g).fl) * Ten * Ten = Packed(d) - Packed(s) - c
  BY <1>5, <1>8, <1>9, <1>10
<1>12. QED
  BY <1>11 DEF r, g, c

\* A word of two bytes, of which the upper one may be any number.
LEMMA WordBytes ==
  ASSUME NEW h \in Int, NEW y \in WordOf(ByteBits)
  PROVE  /\ Trunc(Join(h, y, ByteBits), WordBits) \in WordOf(WordBits)
         /\ High(Trunc(Join(h, y, ByteBits), WordBits), ByteBits) = Trunc(h, ByteBits)
         /\ Low(Trunc(Join(h, y, ByteBits), WordBits), ByteBits) = y
<1> DEFINE N == 2 ^ ByteBits
           q == h \div N
           e == h % N
           x == e * N + y
<1>1. N \in Nat \ {0} /\ ByteBits \in Nat /\ WordBits \in Nat
  BY WordsAssumption, PowerFacts DEF WordBits
<1>2. 2 ^ WordBits = N * N
  <2>1. WordBits = ByteBits + ByteBits
    BY <1>1 DEF WordBits
  <2>2. QED
    BY <1>1, <2>1, PowerSum
<1>3. y \in 0..N - 1 /\ y \in Int
  BY <1>1 DEF WordOf
<1> HIDE DEF N
<1>4. h = N * q + e /\ e \in 0..N - 1 /\ q \in Int
  BY <1>1, DivFacts
<1> HIDE DEF q, e
<1>5. x \in 0..N * N - 1 /\ N * N \in Nat \ {0}
  BY <1>1, <1>3, <1>4, TwoParts, ProductFacts
<1>6. h * N = q * (N * N) + e * N
  BY <1>1, <1>4
<1>7. h * N + y = q * (N * N) + x
  <2>1. e * N \in Int /\ q * (N * N) \in Int
    BY <1>1, <1>4
  <2>2. QED
    BY <1>3, <1>6, <2>1
<1>8. (h * N + y) % (N * N) = x
  BY <1>4, <1>5, <1>7, DivUnique
<1>9. Trunc(Join(h, y, ByteBits), WordBits) = x
  BY <1>2, <1>8 DEF Trunc, Join, N
<1>10. x \div N = e /\ x % N = y /\ e % N = e
  <2>1. x \div N = e /\ x % N = y
    BY <1>1, <1>3, <1>4, DivUnique
  <2>2. (0 * N + e) % N = e /\ 0 * N + e = e
    BY <1>1, <1>4, DivUnique
  <2>3. QED
    BY <2>1, <2>2
<1>11. x \in WordOf(WordBits)
  BY <1>2, <1>5 DEF WordOf
<1>12. High(x, ByteBits) = e /\ Low(x, ByteBits) = y
  BY <1>10 DEF High, Low, Trunc, Shr, N
<1>13. e = Trunc(h, ByteBits)
  BY DEF e, Trunc, N
<1> HIDE DEF x
<1>14. QED
  BY <1>9, <1>11, <1>12, <1>13

\* A word put together from two bytes.
LEMMA TwoBytes ==
  ASSUME NEW e \in WordOf(ByteBits), NEW u \in WordOf(ByteBits)
  PROVE  /\ Join(e, u, ByteBits) \in WordOf(WordBits)
         /\ High(Join(e, u, ByteBits), ByteBits) = e /\ Low(Join(e, u, ByteBits), ByteBits) = u
<1> DEFINE N == 2 ^ ByteBits
           v == Join(e, u, ByteBits)
<1>1. N \in Nat \ {0} /\ ByteBits \in Nat /\ WordBits \in Nat
  BY WordsAssumption, PowerFacts DEF WordBits
<1>2. e \in Int /\ Trunc(e, ByteBits) = e
  <2>1. e \in Int
    BY <1>1 DEF WordOf
  <2>2. QED
    BY <1>1, <2>1, TruncFacts
<1>3. v \in WordOf(WordBits)
  <2>1. WordBits = ByteBits + ByteBits
    BY <1>1 DEF WordBits
  <2>2. 2 ^ WordBits = N * N /\ N * N \in Int
    BY <1>1, <2>1, PowerSum
  <2>3. e \in 0..N - 1 /\ u \in 0..N - 1
    BY DEF WordOf
  <2>4. v = e * N + u
    BY DEF Join
  <2> HIDE DEF N, v
  <2>5. e * N + u \in 0..N * N - 1
    BY <1>1, <2>3, TwoParts
  <2>6. QED
    BY <2>2, <2>4, <2>5 DEF WordOf
<1>4. Trunc(Join(e, u, ByteBits), WordBits) = v
  <2>1. v \in Int
    <3>1. 2 ^ WordBits \in Nat
      BY <1>1, PowerFacts
    <3>2. QED
      BY <1>3, <3>1 DEF WordOf
  <2>2. QED
    BY <1>1, <1>3, <2>1, TruncFacts
<1>5. /\ High(Trunc(Join(e, u, ByteBits), WordBits), ByteBits) = Trunc(e, ByteBits)
      /\ Low(Trunc(Join(e, u, ByteBits), WordBits), ByteBits) = u
  BY <1>2, WordBytes
<1>6. QED
  BY <1>2, <1>3, <1>4, <1>5

\* What aaa and aas make of a word: one digit in the lower byte, and the upper
\* byte moved by one when the digit before it ran over.
LEMMA AsciiWord ==
  ASSUME NEW h \in Int, NEW r \in WordOf(ByteBits), NEW sign \in {-1, 1}, NEW fl,
         NEW a \in BOOLEAN, NEW j \in WordOf(ByteBits), NEW u \in 0..Halved - 1,
         a <=> (r % Halved > Ten - 1 \/ "AF" \in fl),
         a => r + sign * (Halved - Ten) = j /\ j % Halved = u,
         ~a => r % Halved = u
  PROVE  LET x == AsciiAdjust(Trunc(Join(h, r, ByteBits), WordBits), sign, fl).v
         IN  /\ x \in WordOf(WordBits)
             /\ High(x, ByteBits) = Trunc(h + (IF a THEN sign ELSE 0), ByteBits)
             /\ Low(x, ByteBits) = u
<1> DEFINE N == 2 ^ ByteBits
           d == Trunc(Join(h, r, ByteBits), WordBits)
           z == d + sign * (Fix + N)
           t == Trunc(z, WordBits)
           k == h + (IF a THEN sign ELSE 0)
           y == IF a THEN j ELSE r
           w == IF a THEN t ELSE d
<1>1. /\ N \in Nat \ {0} /\ ByteBits \in Nat /\ WordBits \in Nat /\ Nibble \in Nat /\ Nibble <= ByteBits
      /\ r \in Int /\ j \in Int /\ Halved \in Int /\ Ten \in Int /\ Fix = Halved - Ten
  <2>1. ByteBits \in {6, 8} /\ Nibble \in {3, 4}
    BY WordsAssumption DEF Nibble
  <2>2. N \in Nat \ {0}
    BY <2>1, PowerFacts
  <2>3. QED
    BY <2>1, <2>2, NibbleValues DEF WordBits, WordOf, Fix, Halved
<1>2. /\ d \in WordOf(WordBits) /\ High(d, ByteBits) = Trunc(h, ByteBits) /\ Low(d, ByteBits) = r
  BY WordBytes
<1>3. \A g \in Int : LowNibble(g) = Low(g, ByteBits) % Halved
  <2>1. ASSUME NEW g \in Int PROVE Trunc(Trunc(g, ByteBits), Nibble) = Trunc(g, Nibble)
    BY <1>1, TruncShorter
  <2>2. QED
    BY <2>1 DEF LowNibble, Low, Trunc, Halved
<1>4. d \in Int
  <2>1. 2 ^ WordBits \in Nat
    BY <1>1, PowerFacts
  <2>2. QED
    BY <1>2, <2>1 DEF WordOf
<1>5. Adjusts(d, fl) <=> a
  BY <1>2, <1>3, <1>4 DEF Adjusts
<1>6. ASSUME a PROVE t = Trunc(Join(h + sign, j, ByteBits), WordBits)
  <2> DEFINE W == 2 ^ WordBits
  <2>1. W \in Nat \ {0}
    BY <1>1, PowerFacts
  <2>2. PICK q \in Int : h * N + r = q * W + d
    <3>1. h * N + r \in Int
      BY <1>1
    <3>2. QED
      BY <1>1, <3>1, TruncFacts DEF Join
  <2>3. z \in Int
    BY <1>1, <1>4
  <2>4. PICK p \in Int : z = p * W + t
    BY <1>1, <2>3, TruncFacts
  <2>5. t \in WordOf(WordBits)
    BY <1>1, <2>3, TruncFacts
  <2>6. t \in Int
    BY <2>1, <2>5 DEF WordOf
  <2>7. (h + sign) * N + j = (h * N + r) + sign * (Fix + N)
    <3>1. r + sign * Fix = j
      BY <1>1, <1>6
    <3>2. (h + sign) * N = h * N + sign * N /\ sign * (Fix + N) = sign * Fix + sign * N
      BY <1>1
    <3>3. h * N \in Int /\ sign * N \in Int /\ sign * Fix \in Int
      BY <1>1
    <3>4. QED
      BY <1>1, <3>1, <3>2, <3>3
  <2>8. (h + sign) * N + j = (q + p) * W + t
    <3> DEFINE c == sign * (Fix + N)
    <3>1. c \in Int /\ q * W \in Int /\ p * W \in Int /\ (q + p) * W = q * W + p * W
      BY <1>1, <2>1, <2>2, <2>4
    <3>2. z = d + c
      OBVIOUS
    <3> HIDE DEF c, z
    <3>3. (h + sign) * N + j = q * W + d + c
      BY <2>2, <2>7 DEF c
    <3>4. QED
      BY <1>4, <2>4, <2>6, <3>1, <3>2, <3>3
  <2>9. Trunc((q + p) * W + t, WordBits) = t
    <3>1. q + p \in Int
      OBVIOUS
    <3> HIDE DEF t
    <3>2. QED
      BY <1>1, <2>5, <3>1, TruncUnique
  <2>10. QED
    BY <2>8, <2>9 DEF Join
<1> HIDE DEF d, t
<1>7. w = Trunc(Join(k, y, ByteBits), WordBits) /\ k \in Int /\ y \in WordOf(ByteBits) /\ y % Halved = u
  BY <1>6 DEF d
<1> HIDE DEF k, y
<1>8. w \in WordOf(WordBits) /\ High(w, ByteBits) = Trunc(k, ByteBits) /\ Low(w, ByteBits) = y
  BY <1>7, WordBytes
<1> HIDE DEF w
<1>9. w \in Int
  <2>1. 2 ^ WordBits \in Nat
    BY <1>1, PowerFacts
  <2>2. QED
    BY <1>8, <2>1 DEF WordOf
<1>10. LowNibble(w) = u
  BY <1>3, <1>7, <1>8, <1>9
<1> DEFINE v == Join(High(w, ByteBits), LowNibble(w), ByteBits)
<1>11. AsciiAdjust(d, sign, fl).v = v
  BY <1>5 DEF AsciiAdjust, Ans, w, t
<1>12. v = Join(Trunc(k, ByteBits), u, ByteBits) /\ Trunc(k, ByteBits) \in WordOf(ByteBits) /\ u \in WordOf(ByteBits)
  <2>1. u \in WordOf(ByteBits)
    <3>1. Halved <= Halved * Halved /\ 2 ^ ByteBits = Halved * Halved /\ Halved \in Nat
      BY NibbleValues
    <3>2. QED
      BY <3>1 DEF WordOf
  <2>2. QED
    BY <1>1, <1>7, <1>8, <1>10, <2>1, TruncFacts
<1> HIDE DEF v
<1>13. v \in WordOf(WordBits) /\ High(v, ByteBits) = Trunc(k, ByteBits) /\ Low(v, ByteBits) = u
  BY <1>12, TwoBytes
<1>14. QED
  BY <1>11, <1>13 DEF d, k

\* add, or adc, of two digits followed by aaa carries the tens into the upper
\* byte and leaves the units in the lower one (aaa_word).
THEOREM AaaIsExact ==
  ASSUME NEW h \in WordOf(ByteBits), NEW d \in 0..Ten - 1, NEW s \in 0..Ten - 1, NEW fl
  PROVE  LET r == Adc(ByteBits, d, s, fl)
             x == Aaa(Trunc(Join(h, r.v, ByteBits), WordBits), r.fl)
         IN  /\ x.v \in WordOf(WordBits)
             /\ Trunc(High(x.v, ByteBits) - h, ByteBits) * Ten + Low(x.v, ByteBits) = d + s + Carry(fl)
<1> DEFINE r == Adc(ByteBits, d, s, fl).v
           g == Adc(ByteBits, d, s, fl).fl
           S == d + s + Carry(fl)
           a == S >= Ten
           j == IF a THEN S + (Halved - Ten) ELSE 0
           u == IF a THEN S - Ten ELSE S
           one == 1
           up == IF a THEN one ELSE 0
           x == AsciiAdjust(Trunc(Join(h, r, ByteBits), WordBits), one, g).v
<1>1. /\ Halved \in {8, 16} /\ 2 ^ ByteBits = Halved * Halved /\ Ten \in 2..Halved /\ ByteBits \in Nat
      /\ 2 ^ Nibble = Halved /\ Nibble \in Nat
  BY NibbleValues DEF Halved
<1>2. d \in WordOf(ByteBits) /\ s \in WordOf(ByteBits) /\ Trunc(d, Nibble) = d /\ Trunc(s, Nibble) = s
  <2>1. d \in WordOf(ByteBits) /\ s \in WordOf(ByteBits) /\ d \in WordOf(Nibble) /\ s \in WordOf(Nibble)
    BY <1>1 DEF WordOf
  <2>2. QED
    BY <1>1, <2>1, TruncFacts
<1>3. Carry(fl) \in {0, 1} /\ Carry(g) \in {0, 1}
  BY DEF Carry
<1>4. /\ r \in WordOf(ByteBits)
      /\ r + Carry(g) * 2 ^ ByteBits = d + s + Carry(fl)
      /\ "AF" \in g <=> Trunc(d, Nibble) + Trunc(s, Nibble) + Carry(fl) >= 2 ^ Nibble
  <2>1. ASSUME NEW p \in WordOf(ByteBits), NEW q \in WordOf(ByteBits)
        PROVE  /\ Adc(ByteBits, p, q, fl).v \in WordOf(ByteBits)
               /\ Adc(ByteBits, p, q, fl).v + Carry(Adc(ByteBits, p, q, fl).fl) * 2 ^ ByteBits = p + q + Carry(fl)
               /\ "AF" \in Adc(ByteBits, p, q, fl).fl <=> Trunc(p, Nibble) + Trunc(q, Nibble) + Carry(fl) >= 2 ^ Nibble
    <3>1. ByteBits \in Nat /\ ByteBits >= ByteBits
      BY <1>1
    <3>2. QED
      BY <3>1, AdcIsExact
  <2>2. QED
    BY <1>2, <2>1
<1> HIDE DEF r, g
<1>5. r = S /\ S \in 0..2 * Ten - 1 /\ ("AF" \in g <=> S >= Halved) /\ r \in Int
  <2>1. S \in 0..2 * Ten - 1 /\ 2 * Ten - 1 < Halved * Halved
    BY <1>1, <1>3
  <2>2. r \in Int
    BY <1>1, <1>4 DEF WordOf
  <2>3. Carry(g) = 0
    BY <1>1, <1>3, <1>4, <2>1, <2>2 DEF WordOf
  <2>4. QED
    BY <1>1, <1>2, <1>3, <1>4, <2>1, <2>2, <2>3
<1>6. a \in BOOLEAN /\ j \in WordOf(ByteBits) /\ u \in 0..Halved - 1 /\ u \in 0..Ten - 1
  BY <1>1, <1>3, <1>5 DEF WordOf
<1>7. /\ a <=> (r % Halved > Ten - 1 \/ "AF" \in g)
      /\ a => r + one * (Halved - Ten) = j /\ j % Halved = u
      /\ ~a => r % Halved = u
  BY <1>1, <1>3, <1>5
<1>8. one \in {-1, 1} /\ up \in 0..1 /\ up * Ten + u = S
  BY <1>1, <1>5
<1>9. up = IF a THEN one ELSE 0
  OBVIOUS
<1> HIDE DEF a, j, u, one, up
<1>10. h \in Int
  BY <1>1 DEF WordOf
<1>11. /\ x \in WordOf(WordBits)
       /\ High(x, ByteBits) = Trunc(h + up, ByteBits)
       /\ Low(x, ByteBits) = u
  BY <1>4, <1>6, <1>7, <1>8, <1>9, <1>10, AsciiWord
<1>12. Trunc(High(x, ByteBits) - h, ByteBits) = up
  <2> HIDE DEF x
  <2>1. Trunc(Trunc(h + up, ByteBits) - h, ByteBits) = up
    BY <1>1, <1>8, <1>10 DEF Trunc, WordOf
  <2>2. QED
    BY <1>11, <2>1
<1>13. Aaa(Trunc(Join(h, r, ByteBits), WordBits), g).v = x
  BY DEF Aaa, one
<1> HIDE DEF x
<1>14. QED
  BY <1>8, <1>11, <1>12, <1>13 DEF r, g

\* sub, or sbb, of two digits followed by aas borrows the tens from the upper
\* byte and leaves the units in the lower one (aas_word).
THEOREM AasIsExact ==
  ASSUME NEW h \in WordOf(ByteBits), NEW d \in 0..Ten - 1, NEW s \in 0..Ten - 1, NEW fl
  PROVE  LET r == Sbb(ByteBits, d, s, fl)
             x == Aas(Trunc(Join(h, r.v, ByteBits), WordBits), r.fl)
         IN  /\ x.v \in WordOf(WordBits)
             /\ Trunc(h - High(x.v, ByteBits), ByteBits) * Ten = Low(x.v, ByteBits) - (d - s - Carry(fl))
<1> DEFINE r == Sbb(ByteBits, d, s, fl).v
           g == Sbb(ByteBits, d, s, fl).fl
           S == d - s - Carry(fl)
           a == S < 0
           j == IF a THEN S + Halved * Halved - (Halved - Ten) ELSE 0
           u == IF a THEN S + Ten ELSE S
           one == -1
           up == IF a THEN one ELSE 0
           x == AsciiAdjust(Trunc(Join(h, r, ByteBits), WordBits), one, g).v
<1>1. /\ Halved \in {8, 16} /\ 2 ^ ByteBits = Halved * Halved /\ Ten \in 2..Halved /\ ByteBits \in Nat
      /\ 2 ^ Nibble = Halved /\ Nibble \in Nat
  BY NibbleValues DEF Halved
<1>2. d \in WordOf(ByteBits) /\ s \in WordOf(ByteBits) /\ Trunc(d, Nibble) = d /\ Trunc(s, Nibble) = s
  <2>1. d \in WordOf(ByteBits) /\ s \in WordOf(ByteBits) /\ d \in WordOf(Nibble) /\ s \in WordOf(Nibble)
    BY <1>1 DEF WordOf
  <2>2. QED
    BY <1>1, <2>1, TruncFacts
<1>3. Carry(fl) \in {0, 1} /\ Carry(g) \in {0, 1}
  BY DEF Carry
<1>4. /\ r \in WordOf(ByteBits)
      /\ r - Carry(g) * 2 ^ ByteBits = d - s - Carry(fl)
      /\ "AF" \in g <=> Trunc(d, Nibble) < Trunc(s, Nibble) + Carry(fl)
  <2>1. ASSUME NEW p \in WordOf(ByteBits), NEW q \in WordOf(ByteBits)
        PROVE  /\ Sbb(ByteBits, p, q, fl).v \in WordOf(ByteBits)
               /\ Sbb(ByteBits, p, q, fl).v - Carry(Sbb(ByteBits, p, q, fl).fl) * 2 ^ ByteBits = p - q - Carry(fl)
               /\ "AF" \in Sbb(ByteBits, p, q, fl).fl <=> Trunc(p, Nibble) < Trunc(q, Nibble) + Carry(fl)
    <3>1. ByteBits \in Nat /\ ByteBits >= ByteBits
      BY <1>1
    <3>2. QED
      BY <3>1, SbbIsExact
  <2>2. QED
    BY <1>2, <2>1
<1> HIDE DEF r, g
<1>5. /\ S \in -Ten..Ten - 1 /\ ("AF" \in g <=> a) /\ r \in Int
      /\ r = IF a THEN S + Halved * Halved ELSE S
  <2>1. S \in -Ten..Ten - 1 /\ Ten < Halved * Halved
    BY <1>1, <1>3
  <2>2. r \in 0..Halved * Halved - 1
    BY <1>1, <1>4 DEF WordOf
  <2>3. Carry(g) * 2 ^ ByteBits = IF Carry(g) = 1 THEN Halved * Halved ELSE 0
    BY <1>1, <1>3
  <2>4. r - (IF Carry(g) = 1 THEN Halved * Halved ELSE 0) = S
    BY <1>4, <2>3
  <2>5. QED
    BY <1>1, <1>2, <1>3, <1>4, <2>1, <2>2, <2>4
<1>6. a \in BOOLEAN /\ j \in WordOf(ByteBits) /\ u \in 0..Halved - 1 /\ u \in 0..Ten - 1
  BY <1>1, <1>3, <1>5 DEF WordOf
<1>7. /\ a <=> (r % Halved > Ten - 1 \/ "AF" \in g)
      /\ a => r + one * (Halved - Ten) = j /\ j % Halved = u
      /\ ~a => r % Halved = u
  BY <1>1, <1>3, <1>5
<1>8. one \in {-1, 1} /\ up \in -1..0 /\ (-up) * Ten = u - S
  BY <1>1, <1>5
<1>9. up = IF a THEN one ELSE 0
  OBVIOUS
<1> HIDE DEF a, j, u, one, up
<1>10. h \in Int
  BY <1>1 DEF WordOf
<1>11. /\ x \in WordOf(WordBits)
       /\ High(x, ByteBits) = Trunc(h + up, ByteBits)
       /\ Low(x, ByteBits) = u
  BY <1>4, <1>6, <1>7, <1>8, <1>9, <1>10, AsciiWord
<1>12. Trunc(h - High(x, ByteBits), ByteBits) = -up
  <2> HIDE DEF x
  <2>1. Trunc(h - Trunc(h + up, ByteBits), ByteBits) = -up
    BY <1>1, <1>8, <1>10 DEF Trunc, WordOf
  <2>2. QED
    BY <1>11, <2>1
<1>13. Aas(Trunc(Join(h, r, ByteBits), WordBits), g).v = x
  BY DEF Aas, one
<1> HIDE DEF x
<1>14. QED
  BY <1>8, <1>11, <1>12, <1>13 DEF r, g

\* aam splits a byte into digits of its base, and aad joins them again
\* (aam_word, aad_word).
THEOREM AamIsExact ==
  ASSUME NEW d \in WordOf(ByteBits), NEW base \in WordOf(ByteBits) \ {0}, NEW fl
  PROVE  /\ Aam(d, base, fl).v \in WordOf(WordBits)
         /\ High(Aam(d, base, fl).v, ByteBits) * base + Low(Aam(d, base, fl).v, ByteBits) = d
         /\ Low(Aam(d, base, fl).v, ByteBits) < base
         /\ \A g : Aad(Aam(d, base, fl).v, base, g).v = d
<1> DEFINE q == d \div base
           r == d % base
           v == Join(q, r, ByteBits)
<1>1. d \in Nat /\ base \in Nat \ {0} /\ 2 ^ ByteBits \in Nat \ {0} /\ base <= 2 ^ ByteBits - 1 /\ ByteBits \in Nat
  BY WordsAssumption, PowerFacts DEF WordOf
<1>2. d = base * q + r /\ r \in 0..base - 1 /\ q \in Int
  BY <1>1, DivFacts
<1>3. q \in 0..d
  <2> HIDE DEF q, r
  <2>1. q <= -1 => base * q <= -base
    BY <1>1, <1>2
  <2>2. q >= 0
    BY <1>1, <1>2, <2>1
  <2>3. base * q >= q
    BY <1>1, <1>2, <2>2
  <2>4. QED
    BY <1>1, <1>2, <2>2, <2>3
<1>4. q \in WordOf(ByteBits) /\ r \in WordOf(ByteBits)
  BY <1>1, <1>2, <1>3 DEF WordOf
<1>5. Aam(d, base, fl).v = v
  BY DEF Aam, Ans
<1> HIDE DEF q, r
<1>6. v \in WordOf(WordBits) /\ High(v, ByteBits) = q /\ Low(v, ByteBits) = r
  BY <1>4, TwoBytes
<1> HIDE DEF v
<1>7. q * base + r = d /\ r < base
  BY <1>1, <1>2, <1>3
<1>8. \A g : Aad(v, base, g).v = d
  <2>1. r + base * q = d
    BY <1>1, <1>2, <1>3
  <2>2. Trunc(r + base * q, ByteBits) = d
    BY <1>1, <2>1, TruncFacts
  <2>3. QED
    BY <1>6, <2>2 DEF Aad, Ans
<1>9. QED
  BY <1>5, <1>6, <1>7, <1>8

-----------------------------------------------------------------------------
(* The outermost bits, and the operations that work bit by bit.            *)

\* A set of numbers has a least one: the intervals up to its members are well
\* founded under inclusion.
LEMMA LeastOf ==
  ASSUME NEW T, T \subseteq Nat, T # {}
  PROVE  \E k \in T : \A j \in T : k <= j
<1>1. PICK n \in T : TRUE
  OBVIOUS
<1> DEFINE S == 0..n
           upto(k) == 0..k
           U == {upto(k) : k \in T \cap S}
<1>2. n \in Nat /\ IsFiniteSet(S)
  BY <1>1, FS_Interval
<1>3. IsWellFoundedOn(StrictSubsetOrdering(S), FiniteSubsetsOf(S))
  BY <1>2, FS_StrictSubsetOrderingWellFounded
<1>4. U \subseteq FiniteSubsetsOf(S) /\ U # {}
  <2>1. \A k \in T \cap S : upto(k) \subseteq S /\ IsFiniteSet(upto(k))
    BY <1>2, FS_Interval
  <2>2. n \in T \cap S
    BY <1>1, <1>2
  <2>3. QED
    BY <2>1, <2>2 DEF FiniteSubsetsOf
<1>5. PICK u \in U : \A v \in U : <<v, u>> \notin StrictSubsetOrdering(S)
  BY <1>3, <1>4, WFMin
<1>6. PICK k \in T \cap S : u = upto(k)
  BY <1>5
<1>7. ASSUME NEW j \in T PROVE k <= j
  <2>1. CASE j \notin S
    BY <1>2, <1>6, <2>1
  <2>2. CASE j \in S /\ j < k
    <3>1. upto(j) \in U /\ upto(j) \subseteq upto(k) /\ upto(j) # upto(k)
      <4>1. k \in upto(k) /\ k \notin upto(j) /\ upto(j) \subseteq upto(k)
        BY <2>2, <1>6
      <4>2. QED
        BY <2>2, <1>7, <4>1
    <3>2. upto(j) \in SUBSET S /\ upto(k) \in SUBSET S
      BY <1>2, <1>6, <2>2
    <3> HIDE DEF upto, S
    <3>3. <<upto(j), upto(k)>> \in StrictSubsetOrdering(S)
      BY <3>1, <3>2 DEF StrictSubsetOrdering
    <3>4. QED
      BY <1>5, <1>6, <3>1, <3>3
  <2>3. k \in Nat /\ j \in Nat
    BY <1>6
  <2>4. QED
    BY <2>1, <2>2, <2>3
<1>8. QED
  BY <1>6, <1>7

\* The highest bit of a word that is not zero.
LEMMA TopOne ==
  ASSUME NEW w \in Nat, NEW x \in WordOf(w), x # 0
  PROVE  \E k \in 0..w - 1 : /\ Bit(x, k) /\ Shr(x, k + 1) = 0
                             /\ \A j \in Nat : j > k => ~Bit(x, j)
<1> DEFINE T == {k \in Nat : x < 2 ^ (k + 1)}
<1>1. x \in Nat /\ x < 2 ^ w
  BY PowerFacts DEF WordOf
<1>2. w # 0 /\ w - 1 \in T
  <2>1. w # 0
    <3>1. w = 0 => 2 ^ w = 1
      BY PowerFacts
    <3>2. QED
      BY <1>1, <3>1
  <2>2. (w - 1) + 1 = w /\ w - 1 \in Nat
    BY <2>1
  <2>3. QED
    BY <1>1, <2>1, <2>2
<1>3. PICK k \in T : \A j \in T : k <= j
  <2>1. T \subseteq Nat /\ T # {}
    BY <1>2
  <2> HIDE DEF T
  <2>2. QED
    BY <2>1, LeastOf
<1>4. k \in 0..w - 1 /\ k \in Nat /\ x < 2 ^ (k + 1)
  BY <1>2, <1>3
<1>5. x >= 2 ^ k
  <2>1. CASE k = 0
    BY <1>1, <2>1, PowerFacts
  <2>2. CASE k # 0
    <3>1. k - 1 \in Nat /\ (k - 1) + 1 = k /\ k - 1 \notin T
      BY <1>3, <1>4, <2>2
    <3>2. 2 ^ k \in Nat
      BY <1>4, PowerFacts
    <3>3. QED
      BY <1>1, <3>1, <3>2
  <2>3. QED
    BY <2>1, <2>2
<1>6. Bit(x, k)
  <2> DEFINE n == k + 1
  <2>1. n \in Nat \ {0} /\ n - 1 = k /\ x \in WordOf(n)
    <3>1. 2 ^ (k + 1) \in Nat
      BY <1>4, PowerFacts
    <3>2. QED
      BY <1>1, <1>4, <3>1 DEF WordOf
  <2> HIDE DEF n
  <2>2. Bit(x, n - 1) <=> x >= 2 ^ (n - 1)
    BY <2>1, TopBit
  <2>3. QED
    BY <1>5, <2>1, <2>2
<1>7. Shr(x, k + 1) = 0
  <2> DEFINE N == 2 ^ (k + 1)
  <2>1. N \in Nat \ {0} /\ x \in 0..N - 1
    BY <1>1, <1>4, PowerFacts
  <2> HIDE DEF N
  <2>2. (0 * N + x) \div N = 0 /\ 0 * N + x = x
    BY <2>1, DivUnique
  <2>3. QED
    BY <2>2 DEF Shr, N
<1>8. ASSUME NEW j \in Nat, j > k PROVE ~Bit(x, j)
  <2>1. k + 1 \in Nat /\ j - (k + 1) \in Nat /\ (k + 1) + (j - (k + 1)) = j
    BY <1>4, <1>8
  <2>2. Bit(Shr(x, k + 1), j - (k + 1)) <=> Bit(x, j)
    BY <1>1, <2>1, BitOfShr
  <2>3. ~Bit(0, j - (k + 1))
    BY <2>1, BitOfSign
  <2>4. QED
    BY <1>7, <2>2, <2>3
<1>9. QED
  BY <1>4, <1>6, <1>7, <1>8

\* A word without bits is zero.
LEMMA NoOnes ==
  ASSUME NEW w \in Nat, NEW x \in WordOf(w)
  PROVE  x = 0 <=> \A k \in 0..w - 1 : ~Bit(x, k)
<1>1. ASSUME x = 0, NEW k \in 0..w - 1 PROVE ~Bit(x, k)
  BY <1>1, BitOfSign
<1>2. QED
  BY <1>1, TopOne

\* The n bits of v are those of bits from k on.
Holds(v, n, bits, k) == v \in WordOf(n) /\ \A j \in 0..n - 1 : Bit(v, j) <=> bits[k + j]

\* One more bit, above the others.
LEMMA OneMoreBit ==
  ASSUME NEW n \in Nat, NEW bits, NEW k \in Nat, bits[k + n] \in BOOLEAN,
         \E v : Holds(v, n, bits, k)
  PROVE  \E v : Holds(v, n + 1, bits, k)
<1>1. PICK y : Holds(y, n, bits, k)
  OBVIOUS
<1> DEFINE b == IF bits[k + n] THEN 1 ELSE 0
           N == 2 ^ n
<1>2. y \in 0..N - 1 /\ N \in Nat \ {0} /\ 2 ^ (n + 1) = 2 * N
  BY <1>1, PowerFacts DEF Holds, WordOf
<1>3. b \in {0, 1} /\ (Bit(b, 0) <=> bits[k + n])
  <2>1. b = 0 \/ b = 1
    OBVIOUS
  <2>2. ~Bit(0, 0)
    BY BitOfSign
  <2>3. Bit(1, 0)
    BY PowerFacts DEF Bit
  <2>4. QED
    BY <2>1, <2>2, <2>3
<1> HIDE DEF b
<1>4. b * N + y \in WordOf(n + 1)
  <2> HIDE DEF N
  <2>1. b = 0 \/ b = 1
    BY <1>3
  <2>2. QED
    BY <1>2, <2>1 DEF WordOf
<1>5. \A j \in Nat : /\ j >= n => (Bit(b * N + y, j) <=> Bit(b, j - n))
                     /\ j < n => (Bit(b * N + y, j) <=> Bit(y, j))
  <2>1. b \in Int
    BY <1>3
  <2>2. QED
    BY <1>2, <2>1, BitOfJoin
<1>6. ASSUME NEW j \in 0..(n + 1) - 1
      PROVE  Bit(b * N + y, j) <=> bits[k + j]
  <2>1. CASE j = n
    <3>1. j - n = 0 /\ j \in Nat
      BY <2>1
    <3>2. QED
      BY <1>3, <1>5, <2>1, <3>1
  <2>2. CASE j # n
    <3>1. j \in Nat /\ j < n /\ j \in 0..n - 1
      BY <2>2
    <3>2. QED
      BY <1>1, <1>5, <3>1 DEF Holds
  <2>3. QED
    BY <2>1, <2>2
<1>7. Holds(b * N + y, n + 1, bits, k)
  BY <1>4, <1>6 DEF Holds
<1>8. QED
  BY <1>7

\* Two halves.
LEMMA TwoHalves ==
  ASSUME NEW n \in Nat, NEW bits, NEW k \in Nat, NEW hi, NEW lo,
         Holds(hi, n, bits, k + n), Holds(lo, n, bits, k)
  PROVE  Holds(Join(hi, lo, n), n + n, bits, k)
<1> DEFINE N == 2 ^ n
           x == hi * N + lo
<1>1. hi \in 0..N - 1 /\ lo \in 0..N - 1 /\ N \in Nat \ {0} /\ 2 ^ (n + n) = N * N
  BY PowerFacts, PowerSum DEF Holds, WordOf
<1>2. x \in WordOf(n + n)
  <2> HIDE DEF N
  <2>1. x \in 0..N * N - 1
    BY <1>1, TwoParts
  <2>2. QED
    BY <1>1, <2>1 DEF WordOf
<1>3. \A j \in Nat : /\ j >= n => (Bit(x, j) <=> Bit(hi, j - n))
                     /\ j < n => (Bit(x, j) <=> Bit(lo, j))
  <2>1. hi \in Int
    BY <1>1
  <2>2. QED
    BY <1>1, <2>1, BitOfJoin
<1> HIDE DEF x
<1>4. ASSUME NEW j \in 0..(n + n) - 1
      PROVE  Bit(x, j) <=> bits[k + j]
  <2>1. CASE j < n
    <3>1. j \in Nat /\ j \in 0..n - 1
      BY <2>1
    <3>2. QED
      BY <1>3, <2>1, <3>1 DEF Holds
  <2>2. CASE j >= n
    <3>1. j \in Nat /\ j - n \in 0..n - 1 /\ (k + n) + (j - n) = k + j
      BY <2>2
    <3>2. Bit(hi, j - n) <=> bits[(k + n) + (j - n)]
      BY <3>1 DEF Holds
    <3>3. QED
      BY <1>3, <2>2, <3>1, <3>2
  <2>3. QED
    BY <2>1, <2>2
<1>5. QED
  BY <1>2, <1>4 DEF Holds, Join, x

\* The word made of bits has those bits.
LEMMA FromBitsHolds ==
  ASSUME NEW w \in {ByteBits, WordBits, LongBits}, NEW bits \in [0..w - 1 -> BOOLEAN]
  PROVE  Holds(FromBits(w, bits), w, bits, 0)
<1> DEFINE nibble(k) == CHOOSE v \in 0..2 ^ Nibble - 1 : \A j \in 0..Nibble - 1 : Bit(v, j) <=> bits[k + j]
           byte(k) == Join(nibble(k + Nibble), nibble(k), Nibble)
           word(k) == Join(byte(k + ByteBits), byte(k), ByteBits)
<1>1. /\ Nibble \in {3, 4} /\ ByteBits = Nibble + Nibble /\ WordBits = ByteBits + ByteBits
      /\ LongBits = WordBits + WordBits
  BY WordsAssumption DEF Nibble, WordBits, LongBits
<1>2. ASSUME NEW k \in Nat, k + Nibble <= w
      PROVE  Holds(nibble(k), Nibble, bits, k)
  <2>1. \A j \in 0..Nibble - 1 : bits[k + j] \in BOOLEAN
    <3>1. ASSUME NEW j \in 0..Nibble - 1 PROVE k + j \in 0..w - 1
      BY <1>1, <1>2
    <3>2. QED
      BY <3>1
  <2>2. \E v : Holds(v, 0, bits, k)
    <3>1. 0 \in WordOf(0)
      BY PowerFacts DEF WordOf
    <3>2. Holds(0, 0, bits, k)
      BY <3>1 DEF Holds
    <3>3. QED
      BY <3>2
  <2>3. \A n \in Nat : n < Nibble /\ (\E v : Holds(v, n, bits, k)) => \E v : Holds(v, n + 1, bits, k)
    <3>1. \A n \in Nat : n < Nibble => n \in 0..Nibble - 1
      BY <1>1
    <3>2. QED
      BY <2>1, <3>1, OneMoreBit
  <2>4. \E v : Holds(v, Nibble, bits, k)
    <3>1. \E v : Holds(v, 1, bits, k)
      BY <1>1, <2>2, <2>3
    <3>2. \E v : Holds(v, 2, bits, k)
      BY <1>1, <2>3, <3>1
    <3>3. \E v : Holds(v, 3, bits, k)
      BY <1>1, <2>3, <3>2
    <3>4. CASE Nibble = 3
      BY <3>3, <3>4
    <3>5. CASE Nibble = 4
      <4>1. \E v : Holds(v, 4, bits, k)
        BY <2>3, <3>3, <3>5
      <4>2. QED
        BY <3>5, <4>1
    <3>6. QED
      BY <1>1, <3>4, <3>5
  <2>5. \E v \in 0..2 ^ Nibble - 1 : \A j \in 0..Nibble - 1 : Bit(v, j) <=> bits[k + j]
    BY <2>4 DEF Holds, WordOf
  <2>6. QED
    BY <2>5 DEF Holds, WordOf
<1> HIDE DEF nibble
<1>3. ASSUME NEW k \in Nat, k + ByteBits <= w
      PROVE  Holds(byte(k), ByteBits, bits, k)
  <2>1. k + Nibble \in Nat /\ (k + Nibble) + Nibble <= w /\ k + Nibble <= w /\ Nibble \in Nat
    BY <1>1, <1>3
  <2>2. Holds(nibble(k + Nibble), Nibble, bits, k + Nibble) /\ Holds(nibble(k), Nibble, bits, k)
    BY <1>2, <2>1
  <2>3. Holds(Join(nibble(k + Nibble), nibble(k), Nibble), Nibble + Nibble, bits, k)
    BY <2>1, <2>2, TwoHalves
  <2>4. QED
    BY <1>1, <2>3
<1> HIDE DEF byte
<1>4. ASSUME NEW k \in Nat, k + WordBits <= w
      PROVE  Holds(word(k), WordBits, bits, k)
  <2>1. k + ByteBits \in Nat /\ (k + ByteBits) + ByteBits <= w /\ k + ByteBits <= w /\ ByteBits \in Nat
    BY <1>1, <1>4
  <2>2. Holds(byte(k + ByteBits), ByteBits, bits, k + ByteBits) /\ Holds(byte(k), ByteBits, bits, k)
    BY <1>3, <2>1
  <2>3. Holds(Join(byte(k + ByteBits), byte(k), ByteBits), ByteBits + ByteBits, bits, k)
    BY <2>1, <2>2, TwoHalves
  <2>4. QED
    BY <1>1, <2>3
<1>5. FromBits(w, bits) = CASE w = ByteBits -> byte(0) [] w = WordBits -> word(0)
                            [] w = LongBits -> Join(word(WordBits), word(0), WordBits)
  BY DEF FromBits, byte, nibble
<1> HIDE DEF word
<1>6. ByteBits # WordBits /\ ByteBits # LongBits /\ WordBits # LongBits
  BY <1>1
<1>7. CASE w = ByteBits
  <2>1. FromBits(w, bits) = byte(0)
    BY <1>5, <1>6, <1>7
  <2>2. QED
    BY <1>1, <1>3, <1>7, <2>1
<1>8. CASE w = WordBits
  <2>1. FromBits(w, bits) = word(0)
    BY <1>5, <1>6, <1>8
  <2>2. QED
    BY <1>1, <1>4, <1>8, <2>1
<1>9. CASE w = LongBits
  <2>1. FromBits(w, bits) = Join(word(WordBits), word(0), WordBits)
    BY <1>5, <1>6, <1>9
  <2>2. WordBits \in Nat /\ 0 + WordBits = WordBits /\ WordBits + WordBits <= w /\ 0 + WordBits <= w
    BY <1>1, <1>9
  <2>3. Holds(word(WordBits), WordBits, bits, 0 + WordBits) /\ Holds(word(0), WordBits, bits, 0)
    BY <1>4, <2>2
  <2>4. Holds(Join(word(WordBits), word(0), WordBits), WordBits + WordBits, bits, 0)
    BY <2>2, <2>3, TwoHalves
  <2>5. QED
    BY <1>1, <1>9, <2>1, <2>4
<1>10. QED
  BY <1>7, <1>8, <1>9

\* The flags that a logical operation leaves.
LEMMA LogicFlags ==
  ASSUME NEW w \in Nat \ {0}, NEW v \in WordOf(w), NEW fl, NEW defined,
         {"CF", "OF"} \cup ZSP \subseteq defined, defined \subseteq Arithmetic
  PROVE  LET g == Update(fl, defined, Zsp(v, w))
         IN  Describe(g, v, w) /\ g \cap {"CF", "OF"} = {} /\ g \ Arithmetic = fl \ Arithmetic
<1> DEFINE g == Update(fl, defined, Zsp(v, w))
<1>1. Bit(v, w - 1) <=> v >= 2 ^ (w - 1)
  BY TopBit
<1>2. \A f : f \in g <=> \/ f \in fl /\ f \notin defined
                         \/ f = "ZF" /\ v = 0
                         \/ f = "SF" /\ Bit(v, w - 1)
                         \/ f = "PF" /\ Parity(v)
  BY DEF Update, Zsp, On
<1> HIDE DEF g
<1>3. "ZF" \in g <=> v = 0
  BY <1>2 DEF ZSP
<1>4. "SF" \in g <=> Bit(v, w - 1)
  BY <1>2 DEF ZSP
<1>5. "PF" \in g <=> Parity(v)
  BY <1>2 DEF ZSP
<1>6. "CF" \notin g /\ "OF" \notin g
  BY <1>2
<1>7. g \ Arithmetic = fl \ Arithmetic
  <2>1. \A f : f \notin Arithmetic => (f \in g <=> f \in fl)
    BY <1>2 DEF Arithmetic
  <2>2. QED
    BY <2>1
<1>8. QED
  BY <1>1, <1>3, <1>4, <1>5, <1>6, <1>7 DEF Describe, g

\* and, or and xor combine the bits of their operands one by one and describe
\* the result in the flags, without carry or overflow; test is and without its
\* result (and_byte .. test_long).
THEOREM LogicIsBitwise ==
  ASSUME NEW w \in {ByteBits, WordBits, LongBits}, NEW d, NEW s, NEW fl
  PROVE  /\ LET r == AndOp(w, d, s, fl)
            IN  /\ r.v \in WordOf(w) /\ \A k \in 0..w - 1 : Bit(r.v, k) <=> Bit(d, k) /\ Bit(s, k)
                /\ Describe(r.fl, r.v, w) /\ r.fl \cap {"CF", "OF"} = {}
                /\ r.fl \ Arithmetic = fl \ Arithmetic
         /\ LET r == OrOp(w, d, s, fl)
            IN  /\ r.v \in WordOf(w) /\ \A k \in 0..w - 1 : Bit(r.v, k) <=> Bit(d, k) \/ Bit(s, k)
                /\ Describe(r.fl, r.v, w) /\ r.fl \cap {"CF", "OF"} = {}
                /\ r.fl \ Arithmetic = fl \ Arithmetic
         /\ LET r == XorOp(w, d, s, fl)
            IN  /\ r.v \in WordOf(w) /\ \A k \in 0..w - 1 : Bit(r.v, k) <=> Bit(d, k) # Bit(s, k)
                /\ Describe(r.fl, r.v, w) /\ r.fl \cap {"CF", "OF"} = {}
                /\ r.fl \ Arithmetic = fl \ Arithmetic
         /\ LET r == TestOp(w, d, s, fl)
            IN  /\ r.v = d /\ r.fl \cap {"CF", "OF"} = {}
                /\ "ZF" \in r.fl <=> \A k \in 0..w - 1 : ~(Bit(d, k) /\ Bit(s, k))
                /\ r.fl \ Arithmetic = fl \ Arithmetic
<1>1. w \in Nat /\ w \in Nat \ {0} /\ \A k \in 0..w - 1 : 0 + k = k
  BY WordsAssumption DEF WordBits, LongBits
<1> DEFINE a == And(w, d, s)
           o == Or(w, d, s)
           x == Xor(w, d, s)
<1>2. a \in WordOf(w) /\ \A k \in 0..w - 1 : Bit(a, k) <=> Bit(d, k) /\ Bit(s, k)
  <2> DEFINE bits == [k \in 0..w - 1 |-> Bit(d, k) /\ Bit(s, k)]
  <2>1. bits \in [0..w - 1 -> BOOLEAN]
    BY DEF Bit
  <2>2. \A k \in 0..w - 1 : bits[k] <=> Bit(d, k) /\ Bit(s, k)
    OBVIOUS
  <2>3. a = FromBits(w, bits)
    BY DEF And
  <2> HIDE DEF bits, a
  <2>4. Holds(a, w, bits, 0)
    BY <2>1, <2>3, FromBitsHolds
  <2>5. QED
    BY <1>1, <2>2, <2>4 DEF Holds
<1>3. o \in WordOf(w) /\ \A k \in 0..w - 1 : Bit(o, k) <=> Bit(d, k) \/ Bit(s, k)
  <2> DEFINE bits == [k \in 0..w - 1 |-> Bit(d, k) \/ Bit(s, k)]
  <2>1. bits \in [0..w - 1 -> BOOLEAN]
    BY DEF Bit
  <2>2. \A k \in 0..w - 1 : bits[k] <=> Bit(d, k) \/ Bit(s, k)
    OBVIOUS
  <2>3. o = FromBits(w, bits)
    BY DEF Or
  <2> HIDE DEF bits, o
  <2>4. Holds(o, w, bits, 0)
    BY <2>1, <2>3, FromBitsHolds
  <2>5. QED
    BY <1>1, <2>2, <2>4 DEF Holds
<1>4. x \in WordOf(w) /\ \A k \in 0..w - 1 : Bit(x, k) <=> Bit(d, k) # Bit(s, k)
  <2> DEFINE bits == [k \in 0..w - 1 |-> Bit(d, k) # Bit(s, k)]
  <2>1. bits \in [0..w - 1 -> BOOLEAN]
    BY DEF Bit
  <2>2. \A k \in 0..w - 1 : bits[k] <=> (Bit(d, k) # Bit(s, k))
    OBVIOUS
  <2>3. x = FromBits(w, bits)
    BY DEF Xor
  <2> HIDE DEF bits, x
  <2>4. Holds(x, w, bits, 0)
    BY <2>1, <2>3, FromBitsHolds
  <2>5. QED
    BY <1>1, <2>2, <2>4 DEF Holds
<1> DEFINE g(v, defined) == Update(fl, defined, Zsp(v, w))
<1>5. \A v \in WordOf(w) : /\ Describe(g(v, Arithmetic), v, w) /\ g(v, Arithmetic) \cap {"CF", "OF"} = {}
                           /\ g(v, Arithmetic) \ Arithmetic = fl \ Arithmetic
  <2>1. {"CF", "OF"} \cup ZSP \subseteq Arithmetic
    BY DEF Arithmetic, ZSP
  <2>2. QED
    BY <1>1, <2>1, LogicFlags
<1>6. /\ Describe(g(a, Arithmetic \ {"AF"}), a, w) /\ g(a, Arithmetic \ {"AF"}) \cap {"CF", "OF"} = {}
      /\ g(a, Arithmetic \ {"AF"}) \ Arithmetic = fl \ Arithmetic
  <2> DEFINE defined == Arithmetic \ {"AF"}
  <2>1. {"CF", "OF"} \cup ZSP \subseteq defined /\ defined \subseteq Arithmetic
    BY DEF Arithmetic, ZSP
  <2> HIDE DEF defined
  <2>2. /\ Describe(g(a, defined), a, w) /\ g(a, defined) \cap {"CF", "OF"} = {}
        /\ g(a, defined) \ Arithmetic = fl \ Arithmetic
    BY <1>1, <1>2, <2>1, LogicFlags
  <2>3. QED
    BY <2>2 DEF defined
<1>7. a = 0 <=> \A k \in 0..w - 1 : ~(Bit(d, k) /\ Bit(s, k))
  <2>1. a = 0 <=> \A k \in 0..w - 1 : ~Bit(a, k)
    BY <1>1, <1>2, NoOnes
  <2>2. QED
    BY <1>2, <2>1
<1>8. AndOp(w, d, s, fl) = [v |-> a, fl |-> g(a, Arithmetic)]
  BY DEF AndOp, Ans
<1>9. OrOp(w, d, s, fl) = [v |-> o, fl |-> g(o, Arithmetic)]
  BY DEF OrOp, Ans
<1>10. XorOp(w, d, s, fl) = [v |-> x, fl |-> g(x, Arithmetic)]
  BY DEF XorOp, Ans
<1>11. TestOp(w, d, s, fl) = [v |-> d, fl |-> g(a, Arithmetic \ {"AF"})]
  BY DEF TestOp, Ans
<1> HIDE DEF a, o, x, g
<1>12. ASSUME NEW r, NEW v \in WordOf(w), r = [v |-> v, fl |-> g(v, Arithmetic)]
       PROVE  /\ r.v = v /\ Describe(r.fl, r.v, w) /\ r.fl \cap {"CF", "OF"} = {}
              /\ r.fl \ Arithmetic = fl \ Arithmetic
  <2>1. r.v = v /\ r.fl = g(v, Arithmetic)
    BY <1>12
  <2>2. QED
    BY <1>5, <2>1
<1> DEFINE ra == AndOp(w, d, s, fl)
           ro == OrOp(w, d, s, fl)
           rx == XorOp(w, d, s, fl)
           rt == TestOp(w, d, s, fl)
<1> HIDE DEF ra, ro, rx, rt
<1>13. /\ ra.v \in WordOf(w) /\ \A k \in 0..w - 1 : Bit(ra.v, k) <=> Bit(d, k) /\ Bit(s, k)
       /\ Describe(ra.fl, ra.v, w) /\ ra.fl \cap {"CF", "OF"} = {}
       /\ ra.fl \ Arithmetic = fl \ Arithmetic
  <2>1. /\ ra.v = a /\ Describe(ra.fl, ra.v, w) /\ ra.fl \cap {"CF", "OF"} = {}
        /\ ra.fl \ Arithmetic = fl \ Arithmetic
    BY <1>2, <1>8, <1>12 DEF ra
  <2>2. QED
    BY <1>2, <2>1
<1>14. /\ ro.v \in WordOf(w) /\ \A k \in 0..w - 1 : Bit(ro.v, k) <=> Bit(d, k) \/ Bit(s, k)
       /\ Describe(ro.fl, ro.v, w) /\ ro.fl \cap {"CF", "OF"} = {}
       /\ ro.fl \ Arithmetic = fl \ Arithmetic
  <2>1. /\ ro.v = o /\ Describe(ro.fl, ro.v, w) /\ ro.fl \cap {"CF", "OF"} = {}
        /\ ro.fl \ Arithmetic = fl \ Arithmetic
    BY <1>3, <1>9, <1>12 DEF ro
  <2>2. QED
    BY <1>3, <2>1
<1>15. /\ rx.v \in WordOf(w) /\ \A k \in 0..w - 1 : Bit(rx.v, k) <=> Bit(d, k) # Bit(s, k)
       /\ Describe(rx.fl, rx.v, w) /\ rx.fl \cap {"CF", "OF"} = {}
       /\ rx.fl \ Arithmetic = fl \ Arithmetic
  <2>1. /\ rx.v = x /\ Describe(rx.fl, rx.v, w) /\ rx.fl \cap {"CF", "OF"} = {}
        /\ rx.fl \ Arithmetic = fl \ Arithmetic
    BY <1>4, <1>10, <1>12 DEF rx
  <2>2. QED
    BY <1>4, <2>1
<1>16. /\ rt.v = d /\ rt.fl \cap {"CF", "OF"} = {}
       /\ "ZF" \in rt.fl <=> \A k \in 0..w - 1 : ~(Bit(d, k) /\ Bit(s, k))
       /\ rt.fl \ Arithmetic = fl \ Arithmetic
  <2>1. rt.v = d /\ rt.fl = g(a, Arithmetic \ {"AF"})
    BY <1>11 DEF rt
  <2>2. "ZF" \in rt.fl <=> a = 0
    BY <1>6, <2>1 DEF Describe
  <2>3. QED
    BY <1>6, <1>7, <2>1, <2>2
<1>17. QED
  BY <1>13, <1>14, <1>15, <1>16 DEF ra, ro, rx, rt
=============================================================================
