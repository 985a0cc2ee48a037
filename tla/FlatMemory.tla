----------------------------- MODULE FlatMemory -----------------------------
(***************************************************************************)
(* What the users of the emulator may take its memory for: an array of     *)
(* bytes for each emulator, each byte with its own permissions, and ports  *)
(* likewise.  A word or a double word is the bytes at its addresses, the   *)
(* lowest first, wherever they lie; no page is ever made, copied or        *)
(* pointed to.  EmuMemory implements this.                                 *)
(***************************************************************************)
EXTENDS Integers, Sequences

CONSTANTS Mem,          \* the emulators, each with a memory of its own
          PageSize,     \* bytes of a page
          Pages,        \* pages of an address space
          Ports,        \* I/O ports
          Buffer,       \* pages of the host that can be lent to emulators
          None,         \* no buffer
          ByteSize,     \* values of a byte
          Device,       \* what a port reads
          Hosts         \* what the buffers can hold in the beginning

VARIABLES alive,        \* the emulators that exist
          attr,         \* the attributes of every byte of every memory
          own,          \* its content, unless its page is lent
          lent,         \* the buffer lent as a page, or None
          host,         \* the content of the buffers
          io,           \* the attributes of every port of every emulator
          call,         \* the last call: the operation, the emulator, the arguments
          result        \* what it returned and sent to ports

vars == <<alive, attr, own, lent, host, io, call, result>>

Size    == PageSize * Pages
Address == 0 .. Size - 1
Page    == 0 .. Pages - 1
Port    == 0 .. Ports - 1
FF      == ByteSize - 1
At(a, k)     == (a + k) % Size
Span(a, n)   == {At(a, k) : k \in 0 .. n - 1}
PortAt(p, k) == (p + k) % Ports
PortSpan(p, n) == {PortAt(p, k) : k \in 0 .. n - 1}
PageOf(a)    == a \div PageSize
Offset(a, b) == (b - a) % Size

Nothing         == [val |-> <<>>, invalid |-> FALSE, sent |-> <<>>]
Returns(v, bad) == [Nothing EXCEPT !.val = v, !.invalid = bad]

Value(m, b) == LET l == lent[m][PageOf(b)]
               IN  IF l = None THEN own[m][b] ELSE host[l][b % PageSize]

New(m, perm) ==
  /\ m \notin alive
  /\ alive' = alive \cup {m}
  /\ attr' = [attr EXCEPT ![m] = [b \in Address |-> perm]]
  /\ own'  = [own EXCEPT ![m] = [b \in Address |-> 0]]
  /\ lent' = [lent EXCEPT ![m] = [p \in Page |-> None]]
  /\ io'   = [io EXCEPT ![m] = [p \in Port |-> {}]]
  /\ result' = Nothing
  /\ UNCHANGED host

Init ==
  /\ alive = {}
  /\ attr = [m \in Mem |-> [b \in Address |-> {}]]
  /\ own  = [m \in Mem |-> [b \in Address |-> 0]]
  /\ lent = [m \in Mem |-> [p \in Page |-> None]]
  /\ host \in Hosts
  /\ io   = [m \in Mem |-> [p \in Port |-> {}]]
  /\ call = <<"none", None>> /\ result = Nothing

\* A read or a fetch (need is R or X, acc its mark): what may not be read is
\* FF, what was never written is read and reported.
Read(m, a, n, need, acc) ==
  /\ attr' = [attr EXCEPT ![m] = [b \in Address |->
       LET at == attr[m][b]
       IN  IF b \in Span(a, n) /\ need \in at
           THEN at \cup {acc} \cup (IF "VALID" \in at THEN {} ELSE {"ACC_INVALID"})
           ELSE at]]
  /\ result' = Returns([k \in 1 .. n |-> LET b == At(a, k - 1)
                                         IN  IF need \in attr[m][b] THEN Value(m, b) ELSE FF],
                       \E b \in Span(a, n) : ~({need, "VALID"} \subseteq attr[m][b]))
  /\ UNCHANGED <<alive, own, lent, host, io>>

\* The bytes B of a write of v to a are stored and become valid.
Stored(m, a, v, B) ==
  /\ own'  = [own EXCEPT ![m] = [b \in Address |->
       IF b \in B /\ lent[m][PageOf(b)] = None THEN v[Offset(a, b) + 1] ELSE own[m][b]]]
  /\ host' = [l \in Buffer |-> [i \in 0 .. PageSize - 1 |->
       LET J == {b \in B : lent[m][PageOf(b)] = l /\ b % PageSize = i}
       IN  IF J = {} THEN host[l][i] ELSE v[Offset(a, CHOOSE b \in J : TRUE) + 1]]]

Write(m, a, n, v) ==
  LET B == {b \in Span(a, n) : "W" \in attr[m][b]}
  IN  /\ Stored(m, a, v, B)
      /\ attr' = [attr EXCEPT ![m] = [b \in Address |->
           CASE b \in B -> attr[m][b] \cup {"VALID", "ACC_W"}
             [] b \in Span(a, n) \ B -> attr[m][b] \cup {"ACC_INVALID"}
             [] OTHER -> attr[m][b]]]
      /\ result' = Returns(<<>>, B # Span(a, n))
      /\ UNCHANGED <<alive, lent, io>>

\* The accesses of the host, which need no permission.
Peek(m, a) ==
  /\ result' = Returns(<<Value(m, a)>>, FALSE)
  /\ UNCHANGED <<alive, attr, own, lent, host, io>>

Poke(m, a, v) ==
  /\ Stored(m, a, v, {a})
  /\ attr' = [attr EXCEPT ![m][a] = @ \cup {"VALID", "ACC_W"}]
  /\ result' = Nothing
  /\ UNCHANGED <<alive, lent, io>>

\* A range that begins at address 0 and holds the first page ends with it.
Reached(first, last) ==
  IF first = 0 /\ last >= PageSize - 1 THEN 0 .. PageSize - 1 ELSE first .. last

SetPerm(m, first, last, perm) ==
  /\ attr' = [attr EXCEPT ![m] = [b \in Address |->
       IF b \in Reached(first, last) THEN perm ELSE attr[m][b]]]
  /\ result' = Nothing
  /\ UNCHANGED <<alive, own, lent, host, io>>

SetPage(m, p, l) ==
  /\ lent' = [lent EXCEPT ![m][p] = l]
  /\ attr' = [attr EXCEPT ![m] = [b \in Address |->
       IF l # None /\ PageOf(b) = p THEN attr[m][b] \cup {"VALID"} ELSE attr[m][b]]]
  /\ result' = Nothing
  /\ UNCHANGED <<alive, own, host, io>>

ResetStats(m) ==
  /\ attr' = [attr EXCEPT ![m] = [b \in Address |->
                attr[m][b] \cap {"R", "W", "X", "VALID"}]]
  /\ result' = Nothing
  /\ UNCHANGED <<alive, own, lent, host, io>>

Clone(m, c) ==
  /\ c \notin alive
  /\ alive' = alive \cup {c}
  /\ attr' = [attr EXCEPT ![c] = attr[m]]
  /\ own'  = [own EXCEPT ![c] = own[m]]
  /\ lent' = [lent EXCEPT ![c] = lent[m]]
  /\ io'   = [io EXCEPT ![c] = io[m]]
  /\ result' = Nothing
  /\ UNCHANGED host

Done(m) ==
  /\ alive' = alive \ {m}
  /\ attr' = [attr EXCEPT ![m] = [b \in Address |-> {}]]
  /\ own'  = [own EXCEPT ![m] = [b \in Address |-> 0]]
  /\ lent' = [lent EXCEPT ![m] = [p \in Page |-> None]]
  /\ io'   = [io EXCEPT ![m] = [p \in Port |-> {}]]
  /\ result' = Nothing
  /\ UNCHANGED host

\* Ports: refused ones read FF; of a write that is refused somewhere, or runs
\* over the last port, the others all get the lowest byte.
Marked(m, S, P, acc) ==
  io' = [io EXCEPT ![m] = [p \in Port |->
          CASE p \in P -> io[m][p] \cup {acc}
            [] p \in S \ P -> io[m][p] \cup {"ACC_INVALID"}
            [] OTHER -> io[m][p]]]

In(m, a, n) ==
  LET S == PortSpan(a, n)
      P == {p \in S : "R" \in io[m][p]}
  IN  /\ Marked(m, S, P, "ACC_R")
      /\ result' = Returns([k \in 1 .. n |-> LET p == PortAt(a, k - 1)
                                             IN  IF p \in P THEN Device[p] ELSE FF], P # S)
      /\ UNCHANGED <<alive, attr, own, lent, host>>

LowByteOnly(S, P, a, n) == P # S \/ a + n > Ports

Out(m, a, n, v) ==
  LET S == PortSpan(a, n)
      P == {p \in S : "W" \in io[m][p]}
  IN  /\ Marked(m, S, P, "ACC_W")
      /\ result' = [Returns(<<>>, P # S) EXCEPT !.sent =
           [p \in P |-> IF LowByteOnly(S, P, a, n) THEN v[1] ELSE v[p - a + 1]]]
      /\ UNCHANGED <<alive, attr, own, lent, host>>

SetIoPerm(m, first, last, perm) ==
  /\ io' = [io EXCEPT ![m] = [p \in Port |-> IF p \in first .. last THEN perm ELSE io[m][p]]]
  /\ result' = Nothing
  /\ UNCHANGED <<alive, attr, own, lent, host>>

\* Every call does what its name says, and nothing else happens.
Next ==
  \/ call'[1] = "new" /\ New(call'[2], call'[3])
  \/ /\ call'[2] \in alive
     /\ LET m == call'[2]
        IN  \/ call'[1] = "read" /\ Read(m, call'[3], call'[4], "R", "ACC_R")
            \/ call'[1] = "fetch" /\ Read(m, call'[3], call'[4], "X", "ACC_X")
            \/ call'[1] = "write" /\ Write(m, call'[3], call'[4], call'[5])
            \/ call'[1] = "peek" /\ Peek(m, call'[3])
            \/ call'[1] = "poke" /\ Poke(m, call'[3], call'[4])
            \/ call'[1] = "set_perm" /\ SetPerm(m, call'[3], call'[4], call'[5])
            \/ call'[1] = "set_page" /\ SetPage(m, call'[3], call'[4])
            \/ call'[1] = "reset_access_stats" /\ ResetStats(m)
            \/ call'[1] = "clone" /\ Clone(m, call'[3])
            \/ call'[1] = "done" /\ Done(m)
            \/ call'[1] = "in" /\ In(m, call'[3], call'[4])
            \/ call'[1] = "out" /\ Out(m, call'[3], call'[4], call'[5])
            \/ call'[1] = "set_io_perm" /\ SetIoPerm(m, call'[3], call'[4], call'[5])

Spec == Init /\ [][Next]_vars
=============================================================================
