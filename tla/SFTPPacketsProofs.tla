------------------------- MODULE SFTPPacketsProofs -------------------------
(***************************************************************************)
(* For integers of any width, any strings and offsets that fit them and any *)
(* damage: what the client makes of the bytes of an SFTP session.           *)
(*                                                                         *)
(* Integers: big-endian writing and reading are inverse (UintRoundTrip).    *)
(* The parser: whatever the bytes, it ends where the lengths in them say or *)
(* in an error that stays (SevenAnswers).  Packets: the fields are read     *)
(* back as they were written (PacketRoundTrip), and fit their length field  *)
(* (Framed).  The session: between packets the pipe is empty, and within    *)
(* one it holds what is left of it (FramingInv).                            *)
(***************************************************************************)
EXTENDS SFTPPackets, Facts, SequenceTheorems

Byte == 0..255
Bytes == Seq(Byte)
-----------------------------------------------------------------------------
(* Integers. *)

\* The powers are what their definition says: a recursion over the naturals.
LEMMA PowerLaws ==
  /\ Pow256 \in [Nat -> Nat]
  /\ Pow256[0] = 1
  /\ \A k \in Nat : Pow256[k + 1] = 256 * Pow256[k]
<1> DEFINE Solves(p) == p = [k \in Nat |-> IF k = 0 THEN 1 ELSE 256 * p[k - 1]]
           step == [v \in Nat |-> 256 * v]
           one == 1
<1>1. PICK f \in [Nat -> Nat] : Continues(f, one, step)
  <2>1. step \in [Nat -> Nat] /\ one \in Nat
    OBVIOUS
  <2> HIDE DEF step, one
  <2> QED BY <2>1, RecursionExists
<1> USE DEF Continues
<1>2. \A k \in Nat : f[k] = IF k = 0 THEN 1 ELSE 256 * f[k - 1]
  <2> SUFFICES ASSUME NEW k \in Nat, k # 0 PROVE f[k] = 256 * f[k - 1]
    BY <1>1
  <2>1. k - 1 \in Nat /\ (k - 1) + 1 = k
    OBVIOUS
  <2>2. f[(k - 1) + 1] = step[f[k - 1]]
    BY <1>1, <2>1
  <2> QED BY <2>1, <2>2
<1>3. Solves(f)
  BY <1>2
<1>4. Solves(Pow256)
  <2>1. Pow256 = CHOOSE p : Solves(p)
    BY DEF Pow256
  <2> HIDE DEF Solves
  <2> QED BY <1>3, <2>1
<1>5. \A k \in Nat : Pow256[k + 1] = 256 * Pow256[k]
  <2> SUFFICES ASSUME NEW k \in Nat PROVE Pow256[k + 1] = 256 * Pow256[k]
    OBVIOUS
  <2>1. k + 1 \in Nat /\ k + 1 # 0 /\ (k + 1) - 1 = k
    OBVIOUS
  <2> QED BY <1>4, <2>1
<1>6. Pow256[0] = 1
  BY <1>4
<1>7. Pow256 \in [Nat -> Nat]
  <2> DEFINE T == {k \in Nat : Pow256[k] \in Nat}
  <2>1. 0 \in T /\ \A k \in Nat : k \in T => k + 1 \in T
    <3> HIDE DEF Solves
    <3> QED BY <1>5, <1>6
  <2>2. \A k \in Nat : k \in T
    <3> HIDE DEF T
    <3> QED BY <2>1, AllNaturals
  <2>3. Pow256 = [k \in Nat |-> Pow256[k]]
    BY <1>4
  <2> QED BY <2>2, <2>3
<1> QED BY <1>5, <1>6, <1>7

\* Every power is at least one, and some bytes count beyond one byte.
LEMMA PowerBounds ==
  /\ \A k \in Nat : Pow256[k] \in Nat \ {0}
  /\ \A k \in Nat \ {0} : Pow256[k] >= 256
<1> DEFINE T == {k \in Nat : Pow256[k] \in Nat \ {0}}
<1>1. 0 \in T
  BY PowerLaws
<1>2. \A k \in Nat : k \in T => k + 1 \in T
  <2> SUFFICES ASSUME NEW k \in Nat, k \in T PROVE Pow256[k + 1] \in Nat \ {0}
    OBVIOUS
  <2>1. Pow256[k + 1] = 256 * Pow256[k] /\ Pow256[k] \in Nat \ {0}
    BY PowerLaws
  <2> QED BY <2>1
<1>3. \A k \in Nat : k \in T
  <2> HIDE DEF T
  <2> QED BY <1>1, <1>2, AllNaturals
<1>4. ASSUME NEW k \in Nat \ {0} PROVE Pow256[k] >= 256
  <2>1. k - 1 \in Nat /\ (k - 1) + 1 = k
    OBVIOUS
  <2>2. Pow256[k] = 256 * Pow256[k - 1] /\ Pow256[k - 1] \in Nat \ {0}
    BY <1>3, <2>1, PowerLaws
  <2> QED BY <2>2
<1> QED BY <1>3, <1>4

\* The last place of a set, as Max of the community modules chooses it.
LastOf(n) == [s \in SUBSET (1..n) |-> Max(s)]

\* What FoldLeft takes from 1..n is its last element.
LEMMA LastIsPicked ==
  ASSUME NEW n \in Nat
  PROVE  PicksLast(LastOf(n), n)
<1> SUFFICES ASSUME NEW s \in SUBSET (1..n), s # {}
             PROVE  Max(s) \in s /\ \A i \in s : i <= Max(s)
  BY DEF PicksLast, LastOf
<1> DEFINE N == {n - i : i \in s}
<1>1. PICK d \in N : \A e \in N : ~(e < d)
  <2>1. \A i \in s : n - i \in Nat
    OBVIOUS
  <2>2. N \in SUBSET Nat /\ N # {}
    BY <2>1
  <2> HIDE DEF N
  <2> QED BY <2>2, LeastNatural
<1>2. PICK m \in s : d = n - m
  OBVIOUS
<1>3. \A i \in s : m >= i
  <2> SUFFICES ASSUME NEW i \in s PROVE m >= i
    OBVIOUS
  <2>1. ~(n - i < n - m)
    BY <1>1, <1>2
  <2> QED BY <2>1
<1>4. Max(s) \in s /\ \A i \in s : Max(s) >= i
  BY <1>3 DEF Max
<1> QED BY <1>4

\* A big endian integer is read byte by byte: each one multiplies by 256
\* what came before.
ReadsUint(u, b) ==
  /\ u \in [0..Len(b) -> Nat]
  /\ u[0] = 0
  /\ \A k \in 1..Len(b) : u[k] = 256 * u[k - 1] + b[k]
  /\ UnmarshalUint(b) = u[Len(b)]

\* The fold in UnmarshalUint, as a recursion over the bytes read so far.
LEMMA UnmarshalUintSteps ==
  ASSUME NEW b \in Seq(Nat)
  PROVE  \E u : ReadsUint(u, b)
<1> DEFINE n == Len(b)
           S == 1..n
           zero == 0
           pick == LastOf(n)
           step == [p \in S \X Nat |-> 256 * p[2] + b[p[1]]]
<1>1. n \in Nat /\ DOMAIN b = S /\ \A i \in S : b[i] \in Nat
  OBVIOUS
<1> HIDE DEF n
<1>2. step \in [S \X Nat -> Nat]
  BY <1>1
<1>3. PICK g \in [SUBSET S -> Nat] :
        IsTable(g, S, zero, step, pick) /\ GoesInOrder(g, step, n)
  <2>1. zero \in Nat /\ n \in Nat
    BY <1>1
  <2>2. PicksLast(pick, n)
    BY <1>1, LastIsPicked
  <2> HIDE DEF pick, step, zero
  <2> QED BY <1>2, <2>1, <2>2, FoldInOrder
<1> DEFINE Solves(h) == h = [s \in SUBSET S |->
                               IF s = {} THEN 0 ELSE 256 * h[s \ {Max(s)}] + b[Max(s)]]
           iter == CHOOSE h : Solves(h)
<1>4. ASSUME NEW s \in SUBSET S, s # {}
      PROVE  Max(s) \in s /\ pick[s] = Max(s) /\ g[s] = 256 * g[s \ {Max(s)}] + b[Max(s)]
  <2>1. pick[s] = Max(s)
    BY DEF LastOf
  <2>2. Max(s) \in s
    BY <1>1, <1>4, <2>1, LastIsPicked DEF PicksLast
  <2>3. g[s] = step[<<Max(s), g[s \ {Max(s)}]>>]
    <3> HIDE DEF pick, step, zero, S
    <3> QED BY <1>3, <1>4, <2>1 DEF IsTable
  <2>4. Max(s) \in S /\ g[s \ {Max(s)}] \in Nat
    BY <2>2
  <2>5. step[<<Max(s), g[s \ {Max(s)}]>>] = 256 * g[s \ {Max(s)}] + b[Max(s)]
    BY <2>4
  <2> HIDE DEF pick, step
  <2> QED BY <2>1, <2>2, <2>3, <2>5
<1>5. Solves(g)
  <2>1. ASSUME NEW s \in SUBSET S
        PROVE  g[s] = IF s = {} THEN 0 ELSE 256 * g[s \ {Max(s)}] + b[Max(s)]
    <3> HIDE DEF pick, step, S
    <3> QED BY <1>3, <1>4 DEF IsTable
  <2> QED BY <2>1
<1>6. Solves(iter)
  <2> HIDE DEF Solves
  <2> QED BY <1>5
<1>7. iter[S] = g[S]
  <2>1. IsFiniteSet(S)
    BY <1>1, FS_Interval
  <2>0. Picks(pick, S)
    <3> HIDE DEF pick, S
    <3> QED BY <1>4 DEF Picks
  <2>2. GoTogether(iter, g, S, pick)
    <3> HIDE DEF iter, pick, S
    <3>1. iter[{}] = g[{}]
      BY <1>3, <1>6 DEF IsTable
    <3>2. ASSUME NEW s \in SUBSET S, s # {}, iter[s \ {pick[s]}] = g[s \ {pick[s]}]
          PROVE  iter[s] = g[s]
      <4>1. iter[s] = 256 * iter[s \ {Max(s)}] + b[Max(s)]
        BY <1>6, <3>2
      <4> QED BY <1>4, <3>2, <4>1, ZenonT(30)
    <3> QED BY <3>1, <3>2 DEF GoTogether
  <2> HIDE DEF iter, pick, S
  <2>3. \A s \in SUBSET S : iter[s] = g[s]
    BY <2>0, <2>1, <2>2, SameTable
  <2> QED BY <2>3
<1>8. UnmarshalUint(b) = iter[S]
  BY <1>1 DEF UnmarshalUint, FoldLeft, MapThenFoldSet
<1> DEFINE u == [k \in 0..n |-> g[1..k]]
<1>9. u \in [0..n -> Nat] /\ u[0] = 0 /\ u[n] = g[S]
  BY <1>1, <1>3 DEF IsTable
<1>10. ASSUME NEW k \in 1..n PROVE u[k] = 256 * u[k - 1] + b[k]
  <2>1. g[1..k] = step[<<k, g[1..(k - 1)]>>]
    BY <1>3 DEF GoesInOrder
  <2>2. k \in S /\ g[1..(k - 1)] \in Nat
    BY <1>1
  <2>3. g[1..k] = 256 * g[1..(k - 1)] + b[k]
    BY <2>1, <2>2
  <2> QED BY <1>1, <2>3
<1>11. ReadsUint(u, b)
  <2> HIDE DEF u, iter
  <2> QED BY <1>7, <1>8, <1>9, <1>10 DEF n, ReadsUint
<1> QED BY <1>11

LEMMA UnmarshalUintType ==
  ASSUME NEW b \in Seq(Nat)
  PROVE  UnmarshalUint(b) \in Nat
<1>1. PICK u : ReadsUint(u, b)
  BY UnmarshalUintSteps
<1> QED BY <1>1 DEF ReadsUint

LEMMA MarshalUintType ==
  ASSUME NEW n \in Nat, NEW w \in Nat
  PROVE  /\ MarshalUint(n, w) \in Bytes
         /\ Len(MarshalUint(n, w)) = w
         /\ \A i \in 1..w : MarshalUint(n, w)[i] = (n \div Pow256[w - i]) % 256
<1>1. ASSUME NEW i \in 1..w PROVE (n \div Pow256[w - i]) % 256 \in Byte
  <2>1. w - i \in Nat
    OBVIOUS
  <2>2. n \div Pow256[w - i] \in Nat
    BY <2>1, PowerBounds, DivFacts
  <2> QED BY <2>2 DEF Byte
<1>2. MarshalUint(n, w) \in [1..w -> Byte]
  BY <1>1 DEF MarshalUint
<1>3. MarshalUint(n, w) \in Bytes /\ Len(MarshalUint(n, w)) = w
  BY <1>2 DEF Bytes
<1> QED BY <1>3 DEF MarshalUint

\* An integer that fits its bytes is read back as it was written.
LEMMA UintRoundTrip ==
  ASSUME NEW w \in Nat, NEW n \in Nat, n < Pow256[w]
  PROVE  UnmarshalUint(MarshalUint(n, w)) = n
<1> DEFINE b == MarshalUint(n, w)
<1>1. b \in Seq(Nat) /\ Len(b) = w
  <2>1. b \in Seq(Byte) /\ Len(b) = w
    BY MarshalUintType DEF Bytes
  <2>2. Byte \subseteq Nat
    BY DEF Byte
  <2> HIDE DEF b
  <2> QED BY <2>1, <2>2, SeqMonotonic
<1>2. \A i \in 1..w : b[i] = (n \div Pow256[w - i]) % 256
  BY MarshalUintType
<1> HIDE DEF b
<1>3. PICK u : ReadsUint(u, b)
  BY <1>1, UnmarshalUintSteps
<1> DEFINE T == {k \in Nat : k <= w => u[k] = n \div Pow256[w - k]}
<1>4. 0 \in T
  <2>1. Pow256[w] \in Nat \ {0} /\ w - 0 = w
    BY PowerBounds
  <2>2. n \div Pow256[w] = 0
    BY <2>1
  <2>3. u[0] = 0
    BY <1>3 DEF ReadsUint
  <2> QED BY <2>1, <2>2, <2>3
<1>5. ASSUME NEW k \in Nat, k \in T PROVE k + 1 \in T
  <2> SUFFICES ASSUME k + 1 <= w PROVE u[k + 1] = n \div Pow256[w - (k + 1)]
    OBVIOUS
  <2> DEFINE r == w - (k + 1)
             p == Pow256[r]
  <2>1. r \in Nat /\ r + 1 = w - k /\ k + 1 \in 1..w /\ (k + 1) - 1 = k
    OBVIOUS
  <2>2. u[k] = n \div Pow256[r + 1]
    BY <1>5, <2>1
  <2>3. Pow256[r + 1] = 256 * p /\ p \in Nat \ {0}
    <3> HIDE DEF r
    <3> QED BY <2>1, PowerLaws, PowerBounds
  <2>4. u[k + 1] = 256 * u[k] + b[k + 1]
    BY <1>1, <1>3, <2>1 DEF ReadsUint
  <2>5. b[k + 1] = (n \div p) % 256
    BY <1>2, <2>1
  <2> HIDE DEF p
  <2>6. n \div p = 256 * (n \div (256 * p)) + ((n \div p) % 256)
    <3> DEFINE q == n \div p
    <3>1. q \in Nat
      BY <2>3, DivFacts
    <3>2. n \div (256 * p) = q \div 256
      BY <2>3, SMTT(30)
    <3> HIDE DEF q
    <3>3. q = 256 * (q \div 256) + (q % 256)
      BY <3>1
    <3> QED BY <3>2, <3>3 DEF q
  <2> QED BY <2>2, <2>3, <2>4, <2>5, <2>6 DEF p
<1>6. w \in T
  <2> HIDE DEF T
  <2> QED BY <1>4, <1>5, AllNaturals
<1>7. u[w] = n \div Pow256[0]
  BY <1>6
<1>8. n \div Pow256[0] = n
  BY PowerLaws
<1> QED BY <1>1, <1>3, <1>7, <1>8 DEF ReadsUint, b
-----------------------------------------------------------------------------
(* Bytes and the parser. *)

\* Dropping n bytes.
LEMMA DropFacts ==
  ASSUME NEW S, NEW s \in Seq(S), NEW n \in 0..Len(s)
  PROVE  /\ Drop(s, n) \in Seq(S)
         /\ Len(Drop(s, n)) = Len(s) - n
         /\ \A i \in 1..(Len(s) - n) : Drop(s, n)[i] = s[n + i]
  BY DEF Drop

LEMMA DropNothing ==
  ASSUME NEW S, NEW s \in Seq(S)
  PROVE  Drop(s, 0) = s
  BY DEF Drop

\* Dropping twice is dropping once; so is reading after it.
LEMMA DropAgain ==
  ASSUME NEW S, NEW s \in Seq(S), NEW m \in Nat, NEW n \in Nat, m + n <= Len(s)
  PROVE  /\ Drop(Drop(s, m), n) = Drop(s, m + n)
         /\ SubSeq(Drop(s, m), 1, n) = SubSeq(s, m + 1, m + n)
<1>1. /\ Drop(s, m) \in Seq(S) /\ Len(Drop(s, m)) = Len(s) - m
      /\ \A i \in 1..(Len(s) - m) : Drop(s, m)[i] = s[m + i]
  BY DropFacts, SMTT(30)
<1>2. /\ Drop(s, m + n) \in Seq(S) /\ Len(Drop(s, m + n)) = Len(s) - (m + n)
      /\ \A i \in 1..(Len(s) - (m + n)) : Drop(s, m + n)[i] = s[(m + n) + i]
  BY DropFacts
<1> DEFINE d == Drop(s, m)
<1>3. /\ Drop(d, n) \in Seq(S) /\ Len(Drop(d, n)) = Len(d) - n
      /\ \A i \in 1..(Len(d) - n) : Drop(d, n)[i] = d[n + i]
  <2> HIDE DEF d
  <2>1. d \in Seq(S) /\ n \in 0..Len(d)
    BY <1>1 DEF d
  <2> QED BY <2>1, DropFacts
<1>4. Drop(d, n) = Drop(s, m + n)
  <2> HIDE DEF d
  <2>1. Len(Drop(d, n)) = Len(Drop(s, m + n))
    <3>1. Len(d) = Len(s) - m /\ Len(s) \in Nat
      BY <1>1 DEF d
    <3>2. Len(d) - n = Len(s) - (m + n)
      BY <3>1
    <3> QED BY <1>2, <1>3, <3>2
  <2>2. \A i \in 1..Len(Drop(d, n)) : Drop(d, n)[i] = Drop(s, m + n)[i]
    <3> SUFFICES ASSUME NEW i \in 1..(Len(s) - (m + n)) PROVE Drop(d, n)[i] = Drop(s, m + n)[i]
      BY <1>1, <1>2, <2>1
    <3>1. i \in 1..(Len(d) - n) /\ n + i \in 1..(Len(s) - m) /\ m + (n + i) = (m + n) + i
      BY <1>1 DEF d
    <3> QED BY <1>1, <1>2, <1>3, <3>1 DEF d
  <2> QED BY <1>2, <1>3, <2>1, <2>2, SeqEqual
<1>5. SubSeq(d, 1, n) = SubSeq(s, m + 1, m + n)
  <2> DEFINE a == SubSeq(d, 1, n)
             c == SubSeq(s, m + 1, m + n)
  <2>1. a \in Seq(S) /\ Len(a) = n /\ \A i \in 1..n : a[i] = d[i]
    <3> HIDE DEF d
    <3>1. d \in Seq(S) /\ n <= Len(d)
      BY <1>1 DEF d
    <3> QED BY <3>1
  <2>2. c \in Seq(S) /\ Len(c) = n /\ \A i \in 1..n : c[i] = s[m + i]
    OBVIOUS
  <2>3. \A i \in 1..n : a[i] = c[i]
    <3> SUFFICES ASSUME NEW i \in 1..n PROVE a[i] = c[i]
      OBVIOUS
    <3>1. i \in 1..(Len(s) - m)
      OBVIOUS
    <3> HIDE DEF a, c
    <3> QED BY <1>1, <2>1, <2>2, <3>1
  <2> HIDE DEF a, c
  <2>4. a = c
    BY <2>1, <2>2, <2>3, SeqEqual
  <2> QED BY <2>4 DEF a, c
<1> QED BY <1>4, <1>5

\* What is dropped from the front of a concatenation.
LEMMA DropFront ==
  ASSUME NEW S, NEW s \in Seq(S), NEW t \in Seq(S)
  PROVE  /\ Drop(s \o t, Len(s)) = t
         /\ SubSeq(s \o t, 1, Len(s)) = s
<1> DEFINE c == s \o t
<1>1. c \in Seq(S) /\ Len(c) = Len(s) + Len(t)
  OBVIOUS
<1>2. (\A i \in 1..Len(s) : c[i] = s[i]) /\ \A i \in 1..Len(t) : c[Len(s) + i] = t[i]
  OBVIOUS
<1> HIDE DEF c
<1>3. Drop(c, Len(s)) = t
  <2>1. /\ Drop(c, Len(s)) \in Seq(S) /\ Len(Drop(c, Len(s))) = Len(t)
        /\ \A i \in 1..Len(t) : Drop(c, Len(s))[i] = c[Len(s) + i]
    <3>1. Len(s) \in 0..Len(c) /\ Len(c) - Len(s) = Len(t)
      BY <1>1
    <3> QED BY <1>1, <3>1, DropFacts
  <2> QED BY <1>2, <2>1, SeqEqual
<1>4. SubSeq(c, 1, Len(s)) = s
  <2>1. SubSeq(c, 1, Len(s)) \in Seq(S) /\ Len(SubSeq(c, 1, Len(s))) = Len(s)
        /\ \A i \in 1..Len(s) : SubSeq(c, 1, Len(s))[i] = c[i]
    BY <1>1
  <2> QED BY <1>2, <2>1, SeqEqual
<1> QED BY <1>3, <1>4 DEF c

LEMMA BytesUintType ==
  ASSUME NEW b \in Bytes
  PROVE  UnmarshalUint(b) \in Nat
<1>1. Byte \subseteq Nat
  BY DEF Byte
<1>2. b \in Seq(Nat)
  BY <1>1, SeqMonotonic DEF Bytes
<1> QED BY <1>2, UnmarshalUintType

Values == Nat \cup Bytes

Parsers == [buffer : Bytes, err : BOOLEAN, values : Seq(Values)]

\* What taking n bytes for a value leaves of a parser.
LEMMA TookFacts ==
  ASSUME NEW p \in Parsers, NEW n \in 0..Len(p.buffer), NEW v \in Values
  PROVE  /\ Took(p, n, v) \in Parsers
         /\ Took(p, n, v).buffer = Drop(p.buffer, n)
         /\ Took(p, n, v).err = p.err
         /\ Took(p, n, v).values = Append(p.values, v)
<1>1. Drop(p.buffer, n) \in Bytes
  BY DropFacts DEF Parsers, Bytes
<1>2. Append(p.values, v) \in Seq(Values)
  BY DEF Parsers
<1> QED BY <1>1, <1>2, Zenon DEF Took, Parsers

\* A field that is cut short: an error, the buffer as it was.
LEMMA TooShortFacts ==
  ASSUME NEW p \in Parsers, NEW v \in Values
  PROVE  /\ TooShort(p, v) \in Parsers
         /\ TooShort(p, v).err = TRUE
<1>1. Append(p.values, v) \in Seq(Values)
  BY DEF Parsers
<1> QED BY <1>1, Zenon DEF TooShort, Parsers

\* ReadUint takes w bytes or fails.
LEMMA ReadUintFacts ==
  ASSUME NEW p \in Parsers, NEW w \in Nat
  PROVE  /\ ReadUint(p, w) \in Parsers
         /\ Len(p.buffer) < w => ReadUint(p, w).err
         /\ w <= Len(p.buffer) =>
              /\ ReadUint(p, w).buffer = Drop(p.buffer, w)
              /\ ReadUint(p, w).err = p.err
              /\ ReadUint(p, w).values = Append(p.values, UnmarshalUint(SubSeq(p.buffer, 1, w)))
<1>1. p.buffer \in Bytes /\ Len(p.buffer) \in Nat
  BY DEF Parsers, Bytes
<1>2. CASE Len(p.buffer) < w
  <2>1. 0 \in Values
    BY DEF Values
  <2>2. ReadUint(p, w) = TooShort(p, 0) /\ ~(w <= Len(p.buffer))
    BY <1>1, <1>2 DEF ReadUint
  <2> QED BY <2>1, <2>2, TooShortFacts
<1>3. CASE w <= Len(p.buffer)
  <2> DEFINE v == UnmarshalUint(SubSeq(p.buffer, 1, w))
  <2>1. v \in Values
    <3>1. SubSeq(p.buffer, 1, w) \in Bytes
      BY <1>1, <1>3 DEF Bytes
    <3> QED BY <3>1, BytesUintType DEF Values
  <2>2. ReadUint(p, w) = Took(p, w, v) /\ ~(Len(p.buffer) < w) /\ w \in 0..Len(p.buffer)
    BY <1>1, <1>3 DEF ReadUint
  <2> HIDE DEF v
  <2>3. /\ ReadUint(p, w) \in Parsers
        /\ ReadUint(p, w).buffer = Drop(p.buffer, w)
        /\ ReadUint(p, w).err = p.err
        /\ ReadUint(p, w).values = Append(p.values, v)
    BY <2>1, <2>2, TookFacts
  <2> QED BY <2>2, <2>3 DEF v
<1> QED BY <1>1, <1>2, <1>3

\* A string takes its length and as many bytes.
Announced(b) == UnmarshalUint(SubSeq(b, 1, Word32))

HoldsString(b) == Word32 <= Len(b) /\ Word32 + Announced(b) <= Len(b)

\* ReadString takes a length and as many bytes, or fails.
LEMMA ReadStringFacts ==
  ASSUME NEW p \in Parsers
  PROVE  /\ ReadString(p) \in Parsers
         /\ Word32 <= Len(p.buffer) => Announced(p.buffer) \in Nat
         /\ ~HoldsString(p.buffer) => ReadString(p).err
         /\ HoldsString(p.buffer) =>
              LET n == Announced(p.buffer)
              IN  /\ ReadString(p).buffer = Drop(p.buffer, Word32 + n)
                  /\ ReadString(p).err = p.err
                  /\ ReadString(p).values =
                       Append(p.values, SubSeq(p.buffer, Word32 + 1, Word32 + n))
<1> DEFINE b == p.buffer
           n == Announced(b)
<1>1. b \in Bytes /\ Len(b) \in Nat /\ Word32 \in Nat /\ <<>> \in Values
  BY PacketsAssumption DEF Parsers, Bytes, Values
<1>2. CASE Len(b) < Word32
  <2>1. ReadString(p) = TooShort(p, <<>>)
    BY <1>2 DEF ReadString
  <2>2. ~(Word32 <= Len(b))
    BY <1>1, <1>2
  <2> QED BY <1>1, <2>1, <2>2, TooShortFacts DEF HoldsString
<1>3. CASE ~(Len(b) < Word32)
  <2> DEFINE rest == Drop(b, Word32)
             q == [p EXCEPT !.buffer = rest]
  <2>1. Word32 \in 0..Len(b) /\ Word32 <= Len(b)
    BY <1>1, <1>3
  <2>2. n \in Nat
    <3>1. SubSeq(b, 1, Word32) \in Bytes
      BY <1>1, <2>1 DEF Bytes
    <3> QED BY <3>1, BytesUintType DEF Announced
  <2>3. rest \in Bytes /\ Len(rest) = Len(b) - Word32
    BY <1>1, <2>1, DropFacts DEF Bytes
  <2>4. q \in Parsers /\ q.buffer = rest /\ q.err = p.err /\ q.values = p.values
    BY <2>3 DEF Parsers
  <2>5. CASE Len(rest) < n
    <3>1. ReadString(p) = TooShort(q, <<>>)
      BY <1>3, <2>5 DEF ReadString, Announced
    <3>2. ~HoldsString(b)
      <4> HIDE DEF b, n, rest
      <4> QED BY <1>1, <2>2, <2>3, <2>5 DEF HoldsString, n
    <3> HIDE DEF b, q
    <3>3. ReadString(p) \in Parsers /\ ReadString(p).err = TRUE
      BY <1>1, <2>4, <3>1, TooShortFacts
    <3> QED BY <2>2, <3>2, <3>3 DEF b
  <2>6. CASE ~(Len(rest) < n)
    <3>1. ReadString(p) = Took(q, n, SubSeq(rest, 1, n))
      BY <1>3, <2>6 DEF ReadString, Announced
    <3>2. HoldsString(b) /\ Word32 + n <= Len(b) /\ n \in 0..Len(rest)
      <4> HIDE DEF b, rest
      <4>1. Word32 + n <= Len(b) /\ n \in 0..Len(rest)
        <5> HIDE DEF n
        <5> QED BY <1>1, <2>2, <2>3, <2>6
      <4> QED BY <2>1, <4>1 DEF HoldsString
    <3>3. SubSeq(rest, 1, n) = SubSeq(b, Word32 + 1, Word32 + n) /\ Drop(rest, n) = Drop(b, Word32 + n)
      <4> HIDE DEF n
      <4> QED BY <1>1, <2>2, <3>2, DropAgain DEF Bytes
    <3>4. SubSeq(rest, 1, n) \in Values
      <4> HIDE DEF rest, n
      <4> QED BY <2>2, <2>3, <3>2 DEF Values, Bytes
    <3> HIDE DEF q, rest, n
    <3>5. /\ ReadString(p) \in Parsers
          /\ ReadString(p).buffer = Drop(q.buffer, n)
          /\ ReadString(p).err = q.err
          /\ ReadString(p).values = Append(q.values, SubSeq(rest, 1, n))
      <4> DEFINE v == SubSeq(rest, 1, n)
      <4>1. v \in Values /\ n \in 0..Len(q.buffer) /\ q \in Parsers /\ ReadString(p) = Took(q, n, v)
        BY <2>4, <3>1, <3>2, <3>4
      <4> HIDE DEF v
      <4>2. /\ Took(q, n, v) \in Parsers
            /\ Took(q, n, v).buffer = Drop(q.buffer, n)
            /\ Took(q, n, v).err = q.err
            /\ Took(q, n, v).values = Append(q.values, v)
        BY <4>1, TookFacts
      <4> QED BY <4>1, <4>2 DEF v
    <3> QED BY <2>2, <2>4, <3>2, <3>3, <3>5 DEF n
  <2> QED BY <2>5, <2>6
<1> QED BY <1>2, <1>3

FieldTypes == {"uint32", "uint64", "string"}

\* Whatever the field, a parser stays a parser.
LEMMA ReadFieldType ==
  ASSUME NEW p \in Parsers, NEW type \in FieldTypes
  PROVE  ReadField(p, type) \in Parsers
<1>1. {Word32, Word64} \subseteq Nat
  BY PacketsAssumption
<1>2. CASE type = "uint32"
  BY <1>1, <1>2, ReadUintFacts DEF ReadField
<1>3. CASE type = "uint64"
  BY <1>1, <1>3, ReadUintFacts DEF ReadField
<1>4. CASE type = "string"
  BY <1>4, ReadStringFacts DEF ReadField
<1> QED BY <1>2, <1>3, <1>4 DEF FieldTypes

-----------------------------------------------------------------------------
(* Parsing a whole packet. *)

Kinds == {"init", "version", "handle", "close", "status", "open", "write"}

\* The fields of each kind of packet.
LEMMA LayoutOf ==
  ASSUME NEW kind
  PROVE  /\ kind \in {"init", "version"} => Layout(kind) = <<"uint32">>
         /\ kind \in {"handle", "close"} => Layout(kind) = <<"uint32", "string">>
         /\ kind = "status" => Layout(kind) = <<"uint32", "uint32", "string", "string">>
         /\ kind = "open" => Layout(kind) = <<"uint32", "string", "uint32">>
         /\ kind = "write" => Layout(kind) = <<"uint32", "string", "uint64", "string">>
  BY DEF Layout

LEMMA TupleType ==
  ASSUME NEW S, NEW a \in S, NEW b \in S, NEW c \in S, NEW d \in S
  PROVE  /\ <<a>> \in Seq(S) /\ Len(<<a>>) = 1
         /\ <<a, b>> \in Seq(S) /\ Len(<<a, b>>) = 2
         /\ <<a, b, c>> \in Seq(S) /\ Len(<<a, b, c>>) = 3
         /\ <<a, b, c, d>> \in Seq(S) /\ Len(<<a, b, c, d>>) = 4
  OBVIOUS

LEMMA LayoutType ==
  ASSUME NEW kind \in Kinds
  PROVE  /\ Layout(kind) \in Seq(FieldTypes)
         /\ Len(Layout(kind)) \in Nat
<1> DEFINE u == "uint32"
           l == "uint64"
           s == "string"
<1>0. u \in FieldTypes /\ l \in FieldTypes /\ s \in FieldTypes
  BY DEF FieldTypes
<1>1. Layout(kind) \in {<<u>>, <<u, s>>, <<u, u, s, s>>, <<u, s, u>>, <<u, s, l, s>>}
  BY LayoutOf DEF Kinds
<1> HIDE DEF u, l, s
<1>2. ASSUME NEW t \in {<<u>>, <<u, s>>, <<u, u, s, s>>, <<u, s, u>>, <<u, s, l, s>>}
      PROVE  t \in Seq(FieldTypes)
  BY <1>0, TupleType
<1>3. Layout(kind) \in Seq(FieldTypes)
  BY <1>1, <1>2
<1> QED BY <1>3

\* The parser reads one field after the other.
Parses(P, kind, data) ==
  LET n == Len(Layout(kind))
  IN  /\ P \in [0..n -> Parsers]
      /\ P[0] = NewFieldParser(data)
      /\ \A k \in 1..n : P[k] = ReadField(P[k - 1], Layout(kind)[k])
      /\ Unmarshal(kind, data) = P[n]

\* The fold in Unmarshal, one field after another.
LEMMA UnmarshalSteps ==
  ASSUME NEW kind \in Kinds, NEW data \in Bytes
  PROVE  \E P : Parses(P, kind, data)
<1> DEFINE L == Layout(kind)
           n == Len(L)
           S == 1..n
           base == NewFieldParser(data)
           pick == LastOf(n)
           step == [p \in S \X Parsers |-> ReadField(p[2], L[p[1]])]
<1>1. n \in Nat /\ DOMAIN L = S /\ \A i \in S : L[i] \in FieldTypes
  BY LayoutType
<1> HIDE DEF L, n
<1>2. step \in [S \X Parsers -> Parsers]
  BY <1>1, ReadFieldType
<1>3. base \in Parsers
  BY DEF NewFieldParser, Parsers
<1>4. PICK g \in [SUBSET S -> Parsers] : IsTable(g, S, base, step, pick) /\ GoesInOrder(g, step, n)
  <2>1. PicksLast(pick, n)
    BY <1>1, LastIsPicked
  <2> HIDE DEF pick, step, base
  <2> QED BY <1>1, <1>2, <1>3, <2>1, FoldInOrder
<1> DEFINE Solves(h) == h = [s \in SUBSET S |->
                               IF s = {} THEN base ELSE ReadField(h[s \ {Max(s)}], L[Max(s)])]
           iter == CHOOSE h : Solves(h)
<1>5. ASSUME NEW s \in SUBSET S, s # {}
      PROVE  Max(s) \in s /\ pick[s] = Max(s) /\ g[s] = ReadField(g[s \ {Max(s)}], L[Max(s)])
  <2>1. pick[s] = Max(s)
    BY DEF LastOf
  <2>2. Max(s) \in s
    BY <1>1, <1>5, <2>1, LastIsPicked DEF PicksLast
  <2>3. g[s] = step[<<Max(s), g[s \ {Max(s)}]>>]
    <3> HIDE DEF pick, step, base, S
    <3> QED BY <1>4, <1>5, <2>1 DEF IsTable
  <2>4. Max(s) \in S /\ g[s \ {Max(s)}] \in Parsers
    BY <2>2
  <2>5. step[<<Max(s), g[s \ {Max(s)}]>>] = ReadField(g[s \ {Max(s)}], L[Max(s)])
    BY <2>4
  <2> HIDE DEF pick, step
  <2> QED BY <2>1, <2>2, <2>3, <2>5
<1>6. Solves(g)
  <2>1. ASSUME NEW s \in SUBSET S
        PROVE  g[s] = IF s = {} THEN base ELSE ReadField(g[s \ {Max(s)}], L[Max(s)])
    <3> HIDE DEF pick, step, S, base
    <3> QED BY <1>4, <1>5 DEF IsTable
  <2> HIDE DEF base
  <2> QED BY <2>1
<1>7. Solves(iter)
  <2> HIDE DEF Solves
  <2> QED BY <1>6
<1>8. iter[S] = g[S]
  <2>1. IsFiniteSet(S)
    BY <1>1, FS_Interval
  <2>2. Picks(pick, S)
    <3> HIDE DEF pick, S
    <3> QED BY <1>5 DEF Picks
  <2>3. GoTogether(iter, g, S, pick)
    <3> HIDE DEF iter, pick, S, base
    <3>1. iter[{}] = g[{}]
      BY <1>4, <1>7 DEF IsTable
    <3>2. ASSUME NEW s \in SUBSET S, s # {}, iter[s \ {pick[s]}] = g[s \ {pick[s]}]
          PROVE  iter[s] = g[s]
      <4>1. iter[s] = ReadField(iter[s \ {Max(s)}], L[Max(s)])
        BY <1>7, <3>2
      <4> QED BY <1>5, <3>2, <4>1
    <3> QED BY <3>1, <3>2 DEF GoTogether
  <2> HIDE DEF iter, pick, S
  <2>4. \A s \in SUBSET S : iter[s] = g[s]
    BY <2>1, <2>2, <2>3, SameTable
  <2> QED BY <2>4
<1>9. Unmarshal(kind, data) = iter[S]
  BY <1>1 DEF Unmarshal, FoldLeft, MapThenFoldSet, L
<1> DEFINE P == [k \in 0..n |-> g[1..k]]
<1>10. P \in [0..n -> Parsers] /\ P[0] = base /\ P[n] = g[S]
  <2> HIDE DEF base, step, pick
  <2> QED BY <1>1, <1>4 DEF IsTable
<1>11. ASSUME NEW k \in 1..n PROVE P[k] = ReadField(P[k - 1], L[k])
  <2>1. g[1..k] = step[<<k, g[1..(k - 1)]>>]
    <3> HIDE DEF step, pick, base
    <3> QED BY <1>4 DEF GoesInOrder
  <2>2. k \in S /\ g[1..(k - 1)] \in Parsers
    BY <1>1
  <2>3. g[1..k] = ReadField(g[1..(k - 1)], L[k])
    BY <2>1, <2>2
  <2> QED BY <1>1, <2>3
<1>12. Parses(P, kind, data)
  <2> HIDE DEF P, iter
  <2> QED BY <1>8, <1>9, <1>10, <1>11 DEF L, n, Parses
<1> QED BY <1>12
-----------------------------------------------------------------------------
(* Every packet is one of the seven answers. *)

\* An error, once kept, stays.
LEMMA ErrorStays ==
  ASSUME NEW p \in Parsers, NEW type \in FieldTypes, p.err
  PROVE  ReadField(p, type).err
<1>1. {Word32, Word64} \subseteq Nat
  BY PacketsAssumption
<1>2. ASSUME NEW w \in Nat PROVE ReadUint(p, w).err
  <2>1. Len(p.buffer) \in Nat
    BY DEF Parsers, Bytes
  <2>2. CASE Len(p.buffer) < w
    BY <2>2, ReadUintFacts
  <2>3. CASE w <= Len(p.buffer)
    <3>1. ReadUint(p, w).err = p.err
      BY <2>3, ReadUintFacts
    <3> QED BY <3>1
  <2> QED BY <2>1, <2>2, <2>3
<1>3. ReadString(p).err
  BY ReadStringFacts
<1>4. CASE type = "uint32"
  BY <1>1, <1>2, <1>4 DEF ReadField
<1>5. CASE type = "uint64"
  BY <1>1, <1>2, <1>5 DEF ReadField
<1>6. CASE type = "string"
  BY <1>3, <1>6 DEF ReadField
<1> QED BY <1>4, <1>5, <1>6 DEF FieldTypes

\* A parser with no error, at place k of the bytes d.
Stands(p, d, k) == p \in Parsers /\ k \in 0..Len(d) /\ ~p.err /\ p.buffer = Drop(d, k)

\* Reading field by field, without an error.
LEMMA StartStands ==
  ASSUME NEW d \in Bytes
  PROVE  Stands(NewFieldParser(d), d, 0) /\ NewFieldParser(d).values = <<>>
<1>1. Drop(d, 0) = d /\ 0 \in 0..Len(d)
  BY DropNothing DEF Bytes
<1>2. NewFieldParser(d) \in Parsers
  BY DEF NewFieldParser, Parsers
<1> QED BY <1>1, <1>2 DEF Stands, NewFieldParser

LEMMA UintStep ==
  ASSUME NEW d \in Bytes, NEW k, NEW p, Stands(p, d, k)
  PROVE  /\ k + Word32 <= Len(d) =>
              /\ Stands(ReadUint(p, Word32), d, k + Word32)
              /\ ReadUint(p, Word32).values = Append(p.values, UintAt(d, k))
              /\ UintAt(d, k) \in Nat
         /\ ~(k + Word32 <= Len(d)) => ReadUint(p, Word32).err
<1>1. /\ Word32 \in Nat /\ Len(d) \in Nat /\ k \in 0..Len(d) /\ p \in Parsers /\ ~p.err
      /\ p.buffer = Drop(d, k) /\ Len(p.buffer) = Len(d) - k /\ p.buffer \in Bytes
  BY PacketsAssumption, DropFacts DEF Stands, Bytes
<1> DEFINE q == ReadUint(p, Word32)
<1>2. CASE k + Word32 <= Len(d)
  <2>1. /\ Drop(Drop(d, k), Word32) = Drop(d, k + Word32)
        /\ SubSeq(Drop(d, k), 1, Word32) = SubSeq(d, k + 1, k + Word32)
    BY <1>1, <1>2, DropAgain DEF Bytes
  <2>2. Word32 <= Len(p.buffer) /\ k + Word32 \in 0..Len(d)
    BY <1>1, <1>2
  <2>3. /\ q \in Parsers /\ q.buffer = Drop(p.buffer, Word32) /\ q.err = p.err
        /\ q.values = Append(p.values, UnmarshalUint(SubSeq(p.buffer, 1, Word32)))
    BY <1>1, <2>2, ReadUintFacts
  <2>4. UintAt(d, k) = UnmarshalUint(SubSeq(p.buffer, 1, Word32))
    BY <1>1, <2>1 DEF UintAt
  <2>5. UintAt(d, k) \in Nat
    <3>1. SubSeq(d, k + 1, k + Word32) \in Bytes
      BY <1>1, <1>2 DEF Bytes
    <3> QED BY <3>1, BytesUintType DEF UintAt
  <2>6. Stands(q, d, k + Word32) /\ q.values = Append(p.values, UintAt(d, k))
    <3> HIDE DEF q
    <3> QED BY <1>1, <2>1, <2>2, <2>3, <2>4 DEF Stands
  <2> QED BY <1>2, <2>5, <2>6
<1>3. CASE ~(k + Word32 <= Len(d))
  <2>1. Len(p.buffer) < Word32
    BY <1>1, <1>3
  <2> QED BY <1>1, <1>3, <2>1, ReadUintFacts
<1> QED BY <1>2, <1>3

LEMMA StringStep ==
  ASSUME NEW d \in Bytes, NEW k, NEW p, Stands(p, d, k)
  PROVE  /\ StringFits(d, k) =>
              LET n == UintAt(d, k)
              IN  /\ n \in Nat
                  /\ Stands(ReadString(p), d, k + Word32 + n)
                  /\ \E v \in Values : ReadString(p).values = Append(p.values, v)
         /\ ~StringFits(d, k) => ReadString(p).err
<1> DEFINE n == UintAt(d, k)
           q == ReadString(p)
<1>1. /\ Word32 \in Nat /\ Len(d) \in Nat /\ k \in 0..Len(d) /\ p \in Parsers /\ ~p.err
      /\ p.buffer = Drop(d, k) /\ Len(p.buffer) = Len(d) - k /\ p.buffer \in Bytes
  BY PacketsAssumption, DropFacts DEF Stands, Bytes
<1>2. CASE ~(k + Word32 <= Len(d))
  <2>1. ~StringFits(d, k)
    BY <1>2 DEF StringFits
  <2>2. ~HoldsString(p.buffer)
    BY <1>1, <1>2 DEF HoldsString
  <2> QED BY <1>1, <2>1, <2>2, ReadStringFacts
<1>3. CASE k + Word32 <= Len(d)
  <2>1. n = Announced(p.buffer) /\ n \in Nat
    <3>1. SubSeq(Drop(d, k), 1, Word32) = SubSeq(d, k + 1, k + Word32)
      <4>1. k \in Nat
        BY <1>1
      <4> QED BY <1>1, <1>3, <4>1, DropAgain DEF Bytes
    <3>2. SubSeq(d, k + 1, k + Word32) \in Bytes
      BY <1>1, <1>3 DEF Bytes
    <3> QED BY <1>1, <3>1, <3>2, BytesUintType DEF UintAt, Announced
  <2>2. StringFits(d, k) <=> k + Word32 + n <= Len(d)
    BY <1>3 DEF StringFits
  <2>3. HoldsString(p.buffer) <=> Word32 + n <= Len(p.buffer)
    <3>1. Word32 <= Len(p.buffer)
      BY <1>1, <1>3
    <3> QED BY <2>1, <3>1 DEF HoldsString
  <2> HIDE DEF n
  <2>4. StringFits(d, k) <=> HoldsString(p.buffer)
    BY <1>1, <2>1, <2>2, <2>3
  <2>5. CASE ~StringFits(d, k)
    BY <1>1, <2>4, <2>5, ReadStringFacts
  <2>6. CASE StringFits(d, k)
    <3>1. k + Word32 + n <= Len(d) /\ k + (Word32 + n) = k + Word32 + n /\ Word32 + n \in Nat
      BY <1>1, <2>1, <2>2, <2>6
    <3>2. /\ q \in Parsers /\ q.buffer = Drop(p.buffer, Word32 + n) /\ q.err = p.err
          /\ q.values = Append(p.values, SubSeq(p.buffer, Word32 + 1, Word32 + n))
      BY <1>1, <2>1, <2>4, <2>6, ReadStringFacts
    <3>3. Drop(Drop(d, k), Word32 + n) = Drop(d, k + Word32 + n)
      BY <1>1, <3>1, DropAgain DEF Bytes
    <3>4. SubSeq(p.buffer, Word32 + 1, Word32 + n) \in Values
      <4>1. Word32 + n <= Len(p.buffer)
        BY <2>3, <2>4, <2>6
      <4>2. SubSeq(p.buffer, Word32 + 1, Word32 + n) \in Bytes
        BY <1>1, <2>1, <4>1 DEF Bytes
      <4> QED BY <4>2 DEF Values
    <3>5. k + Word32 + n \in 0..Len(d)
      BY <1>1, <2>1, <3>1
    <3>6. Stands(q, d, k + Word32 + n)
      <4> HIDE DEF q
      <4> QED BY <1>1, <3>2, <3>3, <3>5 DEF Stands
    <3> QED BY <2>1, <2>6, <3>2, <3>4, <3>6 DEF n
  <2> QED BY <2>5, <2>6
<1> QED BY <1>2, <1>3

\* The three packets of a server, as far as the client looks at them.
LEMMA VersionParsed ==
  ASSUME NEW d \in Bytes
  PROVE  /\ Word32 <= Len(d) => /\ ~Unmarshal("version", d).err
                                /\ Unmarshal("version", d).values[1] = UintAt(d, 0)
         /\ ~(Word32 <= Len(d)) => Unmarshal("version", d).err
<1>1. PICK P : Parses(P, "version", d)
  BY UnmarshalSteps DEF Kinds
<1>2. Layout("version") = <<"uint32">>
  BY LayoutOf
<1>3. P[0] = NewFieldParser(d) /\ P[1] = ReadField(P[0], "uint32") /\ Unmarshal("version", d) = P[1]
  <2>1. Len(Layout("version")) = 1 /\ Layout("version")[1] = "uint32"
    BY <1>2
  <2> QED BY <1>1, <2>1 DEF Parses
<1>4. P[1] = ReadUint(P[0], Word32)
  BY <1>3 DEF ReadField
<1>5. Stands(P[0], d, 0) /\ P[0].values = <<>>
  BY <1>3, StartStands
<1>6. 0 + Word32 = Word32
  BY PacketsAssumption
<1>7. /\ Word32 <= Len(d) => ~P[1].err /\ P[1].values = Append(<<>>, UintAt(d, 0))
      /\ ~(Word32 <= Len(d)) => P[1].err
  BY <1>4, <1>5, <1>6, UintStep DEF Stands
<1> QED BY <1>3, <1>7

LEMMA HandleParsed ==
  ASSUME NEW d \in Bytes
  PROVE  Unmarshal("handle", d).err <=> ~StringFits(d, Word32)
<1>1. PICK P : Parses(P, "handle", d)
  BY UnmarshalSteps DEF Kinds
<1>2. Layout("handle") = <<"uint32", "string">>
  BY LayoutOf
<1>3. /\ P[0] = NewFieldParser(d) /\ P[1] = ReadField(P[0], "uint32")
      /\ P[2] = ReadField(P[1], "string") /\ Unmarshal("handle", d) = P[2]
      /\ P[1] \in Parsers
  BY <1>1, <1>2 DEF Parses
<1>4. P[1] = ReadUint(P[0], Word32) /\ P[2] = ReadString(P[1])
  BY <1>3 DEF ReadField
<1>5. Stands(P[0], d, 0)
  BY <1>3, StartStands
<1>6. 0 + Word32 = Word32 /\ Word32 \in Nat /\ Len(d) \in Nat
  BY PacketsAssumption DEF Bytes
<1>7. CASE Word32 <= Len(d)
  <2>1. Stands(P[1], d, Word32)
    BY <1>4, <1>5, <1>6, <1>7, UintStep
  <2> QED BY <1>3, <1>4, <2>1, StringStep DEF Stands
<1>8. CASE ~(Word32 <= Len(d))
  <2>1. P[1].err
    <3>1. ~(0 + Word32 <= Len(d))
      BY <1>6, <1>8
    <3>2. ReadUint(P[0], Word32).err
      BY <1>5, <3>1, UintStep
    <3> QED BY <1>4, <3>2
  <2>2. P[2].err
    BY <1>3, <2>1, ErrorStays DEF FieldTypes
  <2>3. ~StringFits(d, Word32)
    BY <1>6, <1>8 DEF StringFits
  <2> QED BY <1>3, <2>2, <2>3
<1> QED BY <1>7, <1>8

\* What a sequence holds stays when it grows.
LEMMA AppendTwoMore ==
  ASSUME NEW S, NEW t \in Seq(S), NEW v \in S, NEW x \in S, NEW i \in 1..Len(t)
  PROVE  Append(Append(t, v), x)[i] = t[i]
<1> DEFINE w == Append(t, v)
<1>1. w \in Seq(S) /\ Len(w) = Len(t) + 1 /\ w[i] = t[i]
  BY AppendProperties
<1> HIDE DEF w
<1>2. i \in 1..Len(w)
  BY <1>1
<1>3. Append(w, x)[i] = w[i]
  BY <1>1, <1>2, AppendProperties
<1> QED BY <1>1, <1>3 DEF w

LEMMA StatusParsed ==
  ASSUME NEW d \in Bytes
  PROVE  LET after == 3 * Word32 + UintAt(d, 2 * Word32)
             fits  == StringFits(d, 2 * Word32) /\ StringFits(d, after)
         IN  /\ Unmarshal("status", d).err <=> ~fits
             /\ fits => Unmarshal("status", d).values[2] = UintAt(d, Word32)
<1> DEFINE after == 3 * Word32 + UintAt(d, 2 * Word32)
           fits == StringFits(d, 2 * Word32) /\ StringFits(d, after)
<1>1. PICK P : Parses(P, "status", d)
  BY UnmarshalSteps DEF Kinds
<1>2. Len(Layout("status")) = 4 /\ Layout("status")[1] = "uint32" /\ Layout("status")[2] = "uint32"
      /\ Layout("status")[3] = "string" /\ Layout("status")[4] = "string"
  BY LayoutOf
<1>3. /\ P[0] = NewFieldParser(d) /\ P[1] = ReadField(P[0], "uint32")
      /\ P[2] = ReadField(P[1], "uint32") /\ P[3] = ReadField(P[2], "string")
      /\ P[4] = ReadField(P[3], "string") /\ Unmarshal("status", d) = P[4]
      /\ P[1] \in Parsers /\ P[2] \in Parsers /\ P[3] \in Parsers
  BY <1>1, <1>2 DEF Parses
<1>4. /\ P[1] = ReadUint(P[0], Word32) /\ P[2] = ReadUint(P[1], Word32)
      /\ P[3] = ReadString(P[2]) /\ P[4] = ReadString(P[3])
  BY <1>3 DEF ReadField
<1>5. Stands(P[0], d, 0) /\ P[0].values = <<>>
  BY <1>3, StartStands
<1>6. /\ 0 + Word32 = Word32 /\ Word32 + Word32 = 2 * Word32 /\ 2 * Word32 + Word32 = 3 * Word32
      /\ Word32 \in Nat /\ Len(d) \in Nat
  BY PacketsAssumption DEF Bytes
<1>7. (P[1].err => P[2].err) /\ (P[2].err => P[3].err) /\ (P[3].err => P[4].err)
  BY <1>3, ErrorStays DEF FieldTypes
<1>8. CASE ~(2 * Word32 <= Len(d))
  <2>1. ~StringFits(d, 2 * Word32)
    BY <1>6, <1>8 DEF StringFits
  <2>2. P[2].err
    <3>1. CASE Word32 <= Len(d)
      <4>1. Stands(P[1], d, Word32)
        BY <1>4, <1>5, <1>6, <3>1, UintStep
      <4>2. ~(Word32 + Word32 <= Len(d))
        BY <1>6, <1>8
      <4> QED BY <1>4, <4>1, <4>2, UintStep
    <3>2. CASE ~(Word32 <= Len(d))
      <4>1. ~(0 + Word32 <= Len(d))
        BY <1>6, <3>2
      <4> QED BY <1>4, <1>5, <1>7, <4>1, UintStep
    <3> QED BY <3>1, <3>2
  <2> QED BY <1>3, <1>7, <2>1, <2>2
<1>9. CASE 2 * Word32 <= Len(d)
  <2>1. Stands(P[1], d, Word32) /\ P[1].values = Append(<<>>, UintAt(d, 0)) /\ UintAt(d, 0) \in Nat
    <3>1. 0 + Word32 <= Len(d)
      BY <1>6, <1>9
    <3> QED BY <1>4, <1>5, <1>6, <3>1, UintStep, ZenonT(30)
  <2>2. /\ Stands(P[2], d, 2 * Word32) /\ P[2].values = Append(P[1].values, UintAt(d, Word32))
        /\ UintAt(d, Word32) \in Nat
    <3>1. Word32 + Word32 <= Len(d)
      BY <1>6, <1>9
    <3> QED BY <1>4, <1>6, <2>1, <3>1, UintStep, ZenonT(30)
  <2>3. CASE ~StringFits(d, 2 * Word32)
    <3>1. P[3].err
      BY <1>4, <2>2, <2>3, StringStep
    <3> QED BY <1>3, <1>7, <2>3, <3>1
  <2>4. CASE StringFits(d, 2 * Word32)
    <3>1. PICK v \in Values : P[3].values = Append(P[2].values, v)
      BY <1>4, <2>2, <2>4, StringStep
    <3>2. Stands(P[3], d, after)
      <4>1. Stands(P[3], d, 2 * Word32 + Word32 + UintAt(d, 2 * Word32))
        BY <1>4, <2>2, <2>4, StringStep
      <4> QED BY <1>6, <4>1
    <3> HIDE DEF after
    <3>3. CASE ~StringFits(d, after)
      <4>1. P[4].err
        BY <1>4, <3>2, <3>3, StringStep
      <4> QED BY <1>3, <3>3, <4>1 DEF after
    <3>4. CASE StringFits(d, after)
      <4>1. PICK x \in Values : P[4].values = Append(P[3].values, x)
        BY <1>4, <3>2, <3>4, StringStep
      <4>2. ~P[4].err
        BY <1>4, <3>2, <3>4, StringStep DEF Stands
      <4>3. P[4].values[2] = UintAt(d, Word32)
        <5> DEFINE a == UintAt(d, 0)
                   c == UintAt(d, Word32)
        <5>1. a \in Values /\ c \in Values
          BY <2>1, <2>2 DEF Values
        <5>2. P[4].values = Append(Append(Append(Append(<<>>, a), c), v), x)
          BY <2>1, <2>2, <3>1, <4>1
        <5> HIDE DEF a, c
        <5> DEFINE t == Append(Append(<<>>, a), c)
        <5>3. t \in Seq(Values) /\ Len(t) = 2 /\ t[2] = c
          BY <5>1
        <5> HIDE DEF t
        <5>4. 2 \in 1..Len(t)
          BY <5>3
        <5>5. Append(Append(t, v), x)[2] = c
          BY <5>3, <5>4, AppendTwoMore, SMTT(30)
        <5> QED BY <5>2, <5>5 DEF c, t
      <4> QED BY <1>3, <2>4, <3>4, <4>2, <4>3 DEF after
    <3> QED BY <3>3, <3>4
  <2> QED BY <2>3, <2>4
<1> QED BY <1>8, <1>9

\* ReadResp with its parser does to any bytes what SFTPAnswers says.
LEMMA SevenAnswers ==
  ASSUME NEW b \in Bytes, NEW expected \in {"version", "handle", "status"}
  PROVE  Verdict(ReadResp(expected, b)) = A!ReadResp(expected, AnswerOf(b))
<1> DEFINE d == Tail(b)
           r == Unmarshal(expected, d)
           code == TypeCode(expected)
<1>1. CASE b = <<>>
  <2>1. ReadResp(expected, b) = [kind |-> "panic", values |-> <<>>]
    BY <1>1 DEF ReadResp
  <2>2. AnswerOf(b) = "empty"
    BY <1>1 DEF AnswerOf
  <2>3. Verdict([kind |-> "panic", values |-> <<>>]) = "panic"
    BY DEF Verdict
  <2> QED BY <2>1, <2>2, <2>3 DEF A!ReadResp
<1>2. CASE b # <<>>
  <2>1. d \in Bytes /\ Head(b) = b[1]
    BY <1>2 DEF Bytes
  <2>2. /\ expected = "version" => code = 2
        /\ expected = "handle" => code = 102
        /\ expected = "status" => code = 101
    BY DEF TypeCode
  <2> HIDE DEF d
  <2>3. CASE b[1] # code
    <3>1. Verdict(ReadResp(expected, b)) = "error"
      <4>1. ReadResp(expected, b) = Error
        BY <1>2, <2>1, <2>3 DEF ReadResp
      <4> QED BY <4>1 DEF Error, Verdict
    <3>2. AnswerOf(b) # "empty" /\ A!TypeOf(AnswerOf(b)) # expected
      BY <1>2, <2>2, <2>3 DEF AnswerOf, A!TypeOf
    <3> QED BY <3>1, <3>2 DEF A!ReadResp
  <2>4. CASE b[1] = code
    <3> HIDE DEF r
    <3>1. ReadResp(expected, b) = IF r.err THEN Error ELSE [kind |-> expected, values |-> r.values]
      BY <1>2, <2>1, <2>4 DEF ReadResp, Packet, r, d
    <3>2. Verdict(Error) = "error"
      BY DEF Error, Verdict
    <3>3. CASE expected = "version"
      <4>1. b[1] = 2
        BY <2>2, <2>4, <3>3
      <4>2. AnswerOf(b) = IF Word32 <= Len(d)
                          THEN IF UintAt(d, 0) = ClientVer THEN "version" ELSE "oldversion"
                          ELSE "garbled"
        BY <1>2, <4>1 DEF AnswerOf, d
      <4>3. CASE Word32 <= Len(d)
        <5>1. ~r.err /\ r.values[1] = UintAt(d, 0)
          BY <2>1, <3>3, <4>3, VersionParsed DEF r
        <5>2. Verdict([kind |-> "version", values |-> r.values]) =
                IF UintAt(d, 0) = ClientVer THEN "version" ELSE "oldversion"
          BY <5>1 DEF Verdict
        <5> QED BY <3>1, <3>3, <4>2, <4>3, <5>1, <5>2 DEF A!ReadResp, A!TypeOf
      <4>4. CASE ~(Word32 <= Len(d))
        <5>1. r.err
          BY <2>1, <3>3, <4>4, VersionParsed DEF r
        <5> QED BY <3>1, <3>2, <3>3, <4>2, <4>4, <5>1 DEF A!ReadResp, A!TypeOf
      <4> QED BY <4>3, <4>4
    <3>4. CASE expected = "handle"
      <4>1. b[1] = 102
        BY <2>2, <2>4, <3>4
      <4>2. AnswerOf(b) = IF StringFits(d, Word32) THEN "handle" ELSE "garbled"
        BY <1>2, <4>1 DEF AnswerOf, d
      <4>3. r.err <=> ~StringFits(d, Word32)
        BY <2>1, <3>4, HandleParsed DEF r
      <4>4. Verdict([kind |-> "handle", values |-> r.values]) = "handle"
        BY DEF Verdict
      <4> QED BY <3>1, <3>2, <3>4, <4>2, <4>3, <4>4 DEF A!ReadResp, A!TypeOf
    <3>5. CASE expected = "status"
      <4> DEFINE after == 3 * Word32 + UintAt(d, 2 * Word32)
                 fits == StringFits(d, 2 * Word32) /\ StringFits(d, after)
      <4>1. b[1] = 101
        BY <2>2, <2>4, <3>5
      <4>2. AnswerOf(b) = IF fits THEN IF UintAt(d, Word32) = SSH_FX_OK THEN "ok" ELSE "denied"
                          ELSE "garbled"
        BY <1>2, <4>1 DEF AnswerOf, d
      <4>3. (r.err <=> ~fits) /\ (fits => r.values[2] = UintAt(d, Word32))
        BY <2>1, <3>5, StatusParsed DEF r
      <4> HIDE DEF fits
      <4>4. fits => Verdict([kind |-> "status", values |-> r.values]) =
                      IF UintAt(d, Word32) = SSH_FX_OK THEN "ok" ELSE "denied"
        BY <4>3 DEF Verdict
      <4> QED BY <3>1, <3>2, <3>5, <4>2, <4>3, <4>4 DEF A!ReadResp, A!TypeOf
    <3> QED BY <3>3, <3>4, <3>5
  <2> QED BY <2>3, <2>4
<1> QED BY <1>1, <1>2
-----------------------------------------------------------------------------
(* Marshalled packets. *)

\* Concatenation.
LEMMA ConcatBytes ==
  ASSUME NEW x \in Bytes, NEW y \in Bytes
  PROVE  x \o y \in Bytes /\ Len(x \o y) = Len(x) + Len(y) /\ Len(x) \in Nat /\ Len(y) \in Nat
  BY ConcatProperties DEF Bytes

LEMMA ConcatBytesAssociative ==
  ASSUME NEW x \in Bytes, NEW y \in Bytes, NEW z \in Bytes
  PROVE  (x \o y) \o z = x \o (y \o z)
<1>1. x \in Seq(Byte) /\ y \in Seq(Byte) /\ z \in Seq(Byte)
  BY DEF Bytes
<1> QED BY <1>1

\* A list of at most four sequences is flattened from left to right.
LEMMA FlattenOf ==
  ASSUME NEW L, NEW n \in {1, 2, 3, 4}, L \in [1..n -> Bytes]
  PROVE  /\ n = 1 => FlattenSeq(L) = L[1]
         /\ n = 2 => FlattenSeq(L) = L[1] \o L[2]
         /\ n = 3 => FlattenSeq(L) = L[1] \o L[2] \o L[3]
         /\ n = 4 => FlattenSeq(L) = L[1] \o L[2] \o L[3] \o L[4]
<1> DEFINE Solves(f) == f = [i \in 1..n |-> IF i = 1 THEN L[i] ELSE f[i - 1] \o L[i]]
           flatten == CHOOSE f : Solves(f)
           w == [i \in 1..n |-> IF i = 1 THEN L[1] ELSE IF i = 2 THEN L[1] \o L[2]
                                ELSE IF i = 3 THEN L[1] \o L[2] \o L[3]
                                ELSE L[1] \o L[2] \o L[3] \o L[4]]
<1>1. Len(L) = n /\ n # 0
  OBVIOUS
<1>2. Solves(w)
  <2>1. ASSUME NEW i \in 1..n
        PROVE  w[i] = IF i = 1 THEN L[i] ELSE w[i - 1] \o L[i]
    <3>1. i = 1 \/ i = 2 \/ i = 3 \/ i = 4
      OBVIOUS
    <3>2. i # 1 => i - 1 \in 1..n
      OBVIOUS
    <3> QED BY <3>1, <3>2
  <2> HIDE DEF w
  <2>2. w = [i \in 1..n |-> w[i]]
    BY DEF w
  <2> QED BY <2>1, <2>2
<1>3. Solves(flatten)
  <2> HIDE DEF Solves
  <2> QED BY <1>2
<1>4. FlattenSeq(L) = flatten[n]
  BY <1>1 DEF FlattenSeq
<1> HIDE DEF flatten
<1>5. \A i \in 1..n : flatten[i] = IF i = 1 THEN L[i] ELSE flatten[i - 1] \o L[i]
  BY <1>3
<1> HIDE DEF Solves
<1>6. flatten[1] = L[1] /\ 1 \in 1..n
  BY <1>5
<1>7. ASSUME n \in {2, 3, 4} PROVE flatten[2] = L[1] \o L[2]
  <2>1. 2 \in 1..n /\ 2 # 1 /\ 2 - 1 = 1
    BY <1>7
  <2> QED BY <1>5, <1>6, <2>1
<1>8. ASSUME n \in {3, 4} PROVE flatten[3] = L[1] \o L[2] \o L[3]
  <2>1. 3 \in 1..n /\ 3 # 1 /\ 3 - 1 = 2
    BY <1>8
  <2> QED BY <1>5, <1>7, <1>8, <2>1
<1>9. ASSUME n = 4 PROVE flatten[4] = L[1] \o L[2] \o L[3] \o L[4]
  <2>1. 4 \in 1..n /\ 4 # 1 /\ 4 - 1 = 3
    BY <1>9
  <2> QED BY <1>5, <1>8, <1>9, <2>1
<1> QED BY <1>4, <1>6, <1>7, <1>8, <1>9

\* Fields are marshalled to bytes.
LEMMA MarshalStringType ==
  ASSUME NEW s \in Bytes
  PROVE  MarshalString(s) \in Bytes /\ Len(MarshalString(s)) = Word32 + Len(s)
<1>1. Word32 \in Nat /\ Len(s) \in Nat
  BY PacketsAssumption DEF Bytes
<1>2. MarshalUint(Len(s), Word32) \in Bytes /\ Len(MarshalUint(Len(s), Word32)) = Word32
  BY <1>1, MarshalUintType
<1> QED BY <1>2, ConcatProperties DEF MarshalString, Bytes

\* A field of each type, and its bytes.
FieldOf(type) ==
  CASE type = "uint32" -> {n \in Nat : n < Pow256[Word32]}
    [] type = "uint64" -> {n \in Nat : n < Pow256[Word64]}
    [] type = "string" -> {s \in Bytes : Len(s) < Pow256[Word32]}

LEMMA MarshalFieldType ==
  ASSUME NEW type \in FieldTypes, NEW v \in FieldOf(type)
  PROVE  MarshalField(type, v) \in Bytes /\ v \in Values
<1>1. {Word32, Word64} \subseteq Nat
  BY PacketsAssumption
<1>2. CASE type = "uint32"
  BY <1>1, <1>2, MarshalUintType DEF MarshalField, FieldOf, Values
<1>3. CASE type = "uint64"
  BY <1>1, <1>3, MarshalUintType DEF MarshalField, FieldOf, Values
<1>4. CASE type = "string"
  BY <1>4, MarshalStringType DEF MarshalField, FieldOf, Values
<1> QED BY <1>2, <1>3, <1>4 DEF FieldTypes

\* Concatenation as a name, for reasoning by its laws alone.
Cat(x, y) == x \o y

LEMMA CatLaws ==
  /\ \A x, y \in Bytes : Cat(x, y) \in Bytes
  /\ \A x, y, z \in Bytes : Cat(Cat(x, y), z) = Cat(x, Cat(y, z))
  BY ConcatBytesAssociative, ConcatBytes DEF Cat

\* R[k] is what follows the k-th of the n sequences of L.
Tails(R, L, n, rest) ==
  /\ R \in [0..n -> Bytes]
  /\ R[n] = rest
  /\ \A k \in 1..n : R[k - 1] = L[k] \o R[k]
  /\ R[0] = FlattenSeq(L) \o rest

\* The bytes from each field on: a list is flattened to the same bytes when
\* each field is put before what follows it.
LEMMA FlattenTails ==
  ASSUME NEW L, NEW n \in {1, 2, 3, 4}, L \in [1..n -> Bytes], NEW rest \in Bytes
  PROVE  \E R : Tails(R, L, n, rest)
<1> DEFINE r1 == Cat(L[n], rest)
           r2 == Cat(L[n - 1], r1)
           r3 == Cat(L[n - 2], r2)
           r4 == Cat(L[n - 3], r3)
           R == [k \in 0..n |-> IF k = n THEN rest ELSE IF k = n - 1 THEN r1
                                ELSE IF k = n - 2 THEN r2 ELSE IF k = n - 3 THEN r3 ELSE r4]
<1>1. \A k \in 1..n : L[k] \in Bytes
  OBVIOUS
<1>2. r1 \in Bytes
  BY <1>1, CatLaws
<1>3. n > 1 => r2 \in Bytes
  <2> HIDE DEF r1
  <2>1. n > 1 => n - 1 \in 1..n
    OBVIOUS
  <2> QED BY <1>1, <1>2, <2>1, CatLaws
<1>4. n > 2 => r3 \in Bytes
  <2> HIDE DEF r2
  <2>1. n > 2 => n - 2 \in 1..n /\ n > 1
    OBVIOUS
  <2> QED BY <1>1, <1>3, <2>1, CatLaws
<1>5. n > 3 => r4 \in Bytes
  <2> HIDE DEF r3
  <2>1. n > 3 => n - 3 \in 1..n /\ n > 2
    OBVIOUS
  <2> QED BY <1>1, <1>4, <2>1, CatLaws
<1> HIDE DEF r1, r2, r3, r4
<1>6. R \in [0..n -> Bytes] /\ R[n] = rest
  BY <1>2, <1>3, <1>4, <1>5
<1>7. /\ R[n - 1] = r1
      /\ n > 1 => R[n - 2] = r2
      /\ n > 2 => R[n - 3] = r3
      /\ n > 3 => R[n - 4] = r4
  OBVIOUS
<1> HIDE DEF R
<1>8. ASSUME NEW k \in 1..n PROVE R[k - 1] = Cat(L[k], R[k])
  <2>1. CASE k = n
    BY <1>6, <1>7, <2>1 DEF r1
  <2>2. CASE k = n - 1
    <3>1. k - 1 = n - 2 /\ n > 1
      BY <2>2
    <3> QED BY <1>7, <2>2, <3>1 DEF r2
  <2>3. CASE k = n - 2
    <3>1. k - 1 = n - 3 /\ n > 2 /\ n > 1
      BY <2>3
    <3> QED BY <1>7, <2>3, <3>1 DEF r3
  <2>4. CASE k = n - 3
    <3>1. k - 1 = n - 4 /\ n > 3 /\ n > 2
      BY <2>4
    <3> QED BY <1>7, <2>4, <3>1 DEF r4
  <2>5. k = n \/ k = n - 1 \/ k = n - 2 \/ k = n - 3
    OBVIOUS
  <2> QED BY <2>1, <2>2, <2>3, <2>4, <2>5
<1>9. R[0] = Cat(FlattenSeq(L), rest)
  <2>1. /\ n = 1 => R[0] = r1
        /\ n = 2 => R[0] = r2
        /\ n = 3 => R[0] = r3
        /\ n = 4 => R[0] = r4
    BY <1>7
  <2> DEFINE a == L[1]
             b == L[2]
             c == L[3]
             e == L[4]
  <2>2. CASE n = 1
    <3>1. FlattenSeq(L) = a
      BY <2>2, FlattenOf
    <3> QED BY <2>1, <2>2, <3>1 DEF r1
  <2>3. CASE n = 2
    <3>1. FlattenSeq(L) = a \o b
      BY <2>3, FlattenOf
    <3>2. a \in Bytes /\ b \in Bytes
      BY <1>1, <2>3
    <3>3. FlattenSeq(L) = Cat(a, b) /\ a \in Bytes /\ b \in Bytes
      BY <3>1, <3>2, Zenon DEF Cat
    <3>4. R[0] = Cat(a, Cat(b, rest))
      BY <2>1, <2>3 DEF r1, r2
    <3> HIDE DEF a, b
    <3> QED BY <3>3, <3>4, CatLaws
  <2>4. CASE n = 3
    <3>1. FlattenSeq(L) = a \o b \o c
      BY <2>4, FlattenOf
    <3>2. a \in Bytes /\ b \in Bytes /\ c \in Bytes
      BY <1>1, <2>4
    <3>3. FlattenSeq(L) = Cat(Cat(a, b), c) /\ a \in Bytes /\ b \in Bytes /\ c \in Bytes
      BY <3>1, <3>2, Zenon DEF Cat
    <3>4. R[0] = Cat(a, Cat(b, Cat(c, rest)))
      BY <2>1, <2>4 DEF r1, r2, r3
    <3> HIDE DEF a, b, c
    <3> QED BY <3>3, <3>4, CatLaws
  <2>5. CASE n = 4
    <3>1. FlattenSeq(L) = a \o b \o c \o e
      BY <2>5, FlattenOf
    <3>2. a \in Bytes /\ b \in Bytes /\ c \in Bytes /\ e \in Bytes
      BY <1>1, <2>5
    <3>3. /\ FlattenSeq(L) = Cat(Cat(Cat(a, b), c), e)
          /\ a \in Bytes /\ b \in Bytes /\ c \in Bytes /\ e \in Bytes
      BY <3>1, <3>2, Zenon DEF Cat
    <3>4. R[0] = Cat(a, Cat(b, Cat(c, Cat(e, rest))))
      BY <2>1, <2>5 DEF r1, r2, r3, r4
    <3> DEFINE l == Cat(a, b)
               m == Cat(l, c)
               r == Cat(e, rest)
    <3> HIDE DEF a, b, c, e
    <3>5. l \in Bytes /\ m \in Bytes /\ r \in Bytes
      BY <3>3, CatLaws
    <3> HIDE DEF m
    <3>6. Cat(Cat(m, e), rest) = Cat(m, r)
      BY <3>3, <3>5, CatLaws
    <3> HIDE DEF l, r
    <3>7. Cat(m, r) = Cat(l, Cat(c, r))
      BY <3>3, <3>5, CatLaws DEF m
    <3>8. Cat(l, Cat(c, r)) = Cat(a, Cat(b, Cat(c, r)))
      BY <3>3, <3>5, CatLaws DEF l
    <3> QED BY <3>3, <3>4, <3>6, <3>7, <3>8 DEF l, m, r
  <2> QED BY <2>2, <2>3, <2>4, <2>5
<1>10. Tails(R, L, n, rest)
  BY <1>6, <1>8, <1>9, Zenon DEF Cat, Tails
<1> QED BY <1>10

\* A field that is read back leaves what follows it.
LEMMA FieldRoundTrip ==
  ASSUME NEW type \in FieldTypes, NEW v \in FieldOf(type), NEW rest \in Bytes,
         NEW p \in Parsers, p.buffer = MarshalField(type, v) \o rest
  PROVE  /\ ReadField(p, type).buffer = rest
         /\ ReadField(p, type).err = p.err
         /\ ReadField(p, type).values = Append(p.values, v)
<1>1. {Word32, Word64} \subseteq Nat
  BY PacketsAssumption
<1>2. ASSUME NEW w \in Nat, NEW n \in Nat, n < Pow256[w], p.buffer = MarshalUint(n, w) \o rest
      PROVE  /\ ReadUint(p, w).buffer = rest
             /\ ReadUint(p, w).err = p.err
             /\ ReadUint(p, w).values = Append(p.values, n)
  <2> DEFINE m == MarshalUint(n, w)
  <2>1. m \in Bytes /\ Len(m) = w /\ UnmarshalUint(m) = n
    BY <1>2, MarshalUintType, UintRoundTrip
  <2> HIDE DEF m
  <2>2. Drop(p.buffer, w) = rest /\ SubSeq(p.buffer, 1, w) = m
    BY <1>2, <2>1, DropFront DEF m, Bytes
  <2>3. w <= Len(p.buffer)
    <3>1. Len(p.buffer) = w + Len(rest) /\ Len(rest) \in Nat
      BY <1>2, <2>1, ConcatProperties DEF m, Bytes
    <3> QED BY <3>1
  <2> QED BY <2>1, <2>2, <2>3, ReadUintFacts, ZenonT(30)
<1>3. CASE type = "uint32"
  BY <1>1, <1>2, <1>3 DEF FieldOf, MarshalField, ReadField
<1>4. CASE type = "uint64"
  BY <1>1, <1>2, <1>4 DEF FieldOf, MarshalField, ReadField
<1>5. CASE type = "string"
  <2> DEFINE n == Len(v)
             m == MarshalUint(n, Word32)
             b == p.buffer
  <2>1. v \in Bytes /\ n \in Nat /\ n < Pow256[Word32] /\ b = (m \o v) \o rest
    BY <1>5 DEF FieldOf, MarshalField, MarshalString, Bytes
  <2>2. m \in Bytes /\ Len(m) = Word32 /\ UnmarshalUint(m) = n
    <3> HIDE DEF n
    <3> QED BY <1>1, <2>1, MarshalUintType, UintRoundTrip
  <2> HIDE DEF m, b
  <2>3. b = m \o (v \o rest) /\ v \o rest \in Bytes /\ m \o v \in Bytes /\ Len(m \o v) = Word32 + n
    BY <2>1, <2>2, ConcatBytesAssociative, ConcatBytes
  <2>4. SubSeq(b, 1, Word32) = m /\ Drop(b, Word32) = v \o rest
    BY <2>2, <2>3, DropFront DEF Bytes
  <2>5. Announced(b) = n
    BY <2>2, <2>4 DEF Announced
  <2>6. Drop(b, Word32 + n) = rest
    BY <2>1, <2>3, DropFront DEF Bytes
  <2>7. Len(b) = (Word32 + n) + Len(rest) /\ Len(rest) \in Nat /\ b \in Bytes
    BY <2>1, <2>3, ConcatProperties DEF Bytes
  <2>8. Word32 + n <= Len(b) /\ Word32 <= Len(b)
    BY <1>1, <2>1, <2>7
  <2>9. SubSeq(b, Word32 + 1, Word32 + n) = v
    <3>1. SubSeq(Drop(b, Word32), 1, n) = SubSeq(b, Word32 + 1, Word32 + n)
      <4> HIDE DEF n
      <4> QED BY <1>1, <2>1, <2>7, <2>8, DropAgain DEF Bytes
    <3>2. SubSeq(v \o rest, 1, n) = v
      BY <2>1, DropFront DEF Bytes
    <3> QED BY <2>4, <3>1, <3>2
  <2>10. HoldsString(b)
    BY <2>5, <2>8 DEF HoldsString
  <2>11. /\ ReadString(p).buffer = Drop(b, Word32 + n)
         /\ ReadString(p).err = p.err
         /\ ReadString(p).values = Append(p.values, SubSeq(b, Word32 + 1, Word32 + n))
    BY <2>5, <2>10, ReadStringFacts DEF b
  <2> QED BY <1>5, <2>6, <2>9, <2>11 DEF ReadField
<1> QED BY <1>3, <1>4, <1>5 DEF FieldTypes

\* The fields of a packet of some kind, each of its type.
Sound(kind, fields) ==
  /\ fields \in Seq(Values)
  /\ Len(fields) = Len(Layout(kind)) /\ Len(fields) \in {1, 2, 3, 4}
  /\ \A i \in 1..Len(fields) : fields[i] \in FieldOf(Layout(kind)[i])

FieldBytes(kind, fields) == [i \in DOMAIN fields |-> MarshalField(Layout(kind)[i], fields[i])]

LEMMA FieldBytesType ==
  ASSUME NEW kind \in Kinds, NEW fields, Sound(kind, fields)
  PROVE  /\ FieldBytes(kind, fields) \in [1..Len(fields) -> Bytes]
         /\ \A i \in 1..Len(fields) : Layout(kind)[i] \in FieldTypes
<1>1. DOMAIN fields = 1..Len(fields)
  BY DEF Sound
<1>2. ASSUME NEW i \in 1..Len(fields)
      PROVE  Layout(kind)[i] \in FieldTypes /\ MarshalField(Layout(kind)[i], fields[i]) \in Bytes
  <2>1. Layout(kind)[i] \in FieldTypes
    BY LayoutType DEF Sound
  <2> QED BY <2>1, MarshalFieldType DEF Sound
<1> QED BY <1>1, <1>2 DEF FieldBytes

\* Whatever follows them, the fields of a packet are read back as they were
\* written.
LEMMA PacketRoundTrip ==
  ASSUME NEW kind \in Kinds, NEW fields, Sound(kind, fields), NEW rest \in Bytes
  PROVE  LET p == Unmarshal(kind, FlattenSeq(FieldBytes(kind, fields)) \o rest)
         IN  ~p.err /\ p.values = fields
<1> DEFINE n == Len(fields)
           X == FieldBytes(kind, fields)
           data == FlattenSeq(X) \o rest
<1>1. X \in [1..n -> Bytes] /\ \A i \in 1..n : Layout(kind)[i] \in FieldTypes
  BY FieldBytesType
<1>2. /\ n \in {1, 2, 3, 4} /\ n \in Nat /\ n = Len(Layout(kind)) /\ fields \in Seq(Values)
      /\ \A i \in 1..n : fields[i] \in FieldOf(Layout(kind)[i])
      /\ \A i \in 1..n : fields[i] \in Values
  BY DEF Sound
<1>3. \A i \in 1..n : X[i] = MarshalField(Layout(kind)[i], fields[i])
  BY <1>2 DEF FieldBytes
<1> HIDE DEF X
<1>4. PICK R : Tails(R, X, n, rest)
  <2> HIDE DEF n
  <2> QED BY <1>1, <1>2, FlattenTails
<1> HIDE DEF n
<1>5. /\ R \in [0..n -> Bytes] /\ R[n] = rest /\ R[0] = data /\ data \in Bytes
      /\ \A k \in 1..n : R[k - 1] = X[k] \o R[k]
  <2>1. /\ R \in [0..n -> Bytes] /\ R[n] = rest /\ R[0] = data
        /\ \A k \in 1..n : R[k - 1] = X[k] \o R[k]
    BY <1>4, Zenon DEF Tails
  <2>2. R[0] \in Bytes
    <3>1. n \in Nat
      BY <1>2
    <3>2. 0 \in 0..n
      BY <3>1
    <3>3. R \in [0..n -> Bytes]
      BY <2>1
    <3> QED BY <3>2, <3>3
  <2> QED BY <2>1, <2>2
<1> HIDE DEF data
<1>6. PICK P : Parses(P, kind, data)
  BY <1>5, UnmarshalSteps
<1>7. /\ P \in [0..n -> Parsers] /\ P[0] = NewFieldParser(data)
      /\ \A k \in 1..n : P[k] = ReadField(P[k - 1], Layout(kind)[k])
      /\ Unmarshal(kind, data) = P[n]
  BY <1>2, <1>6 DEF Parses
<1> DEFINE Good(k) == P[k].buffer = R[k] /\ P[k].err = FALSE /\ Len(P[k].values) = k
                      /\ \A i \in 1..k : P[k].values[i] = fields[i]
           T == {k \in Nat : k <= n => Good(k)}
<1>8. 0 \in T
  BY <1>5, <1>7 DEF NewFieldParser
<1>9. ASSUME NEW k \in Nat, k \in T PROVE k + 1 \in T
  <2> HIDE DEF Good
  <2> SUFFICES ASSUME k + 1 <= n PROVE Good(k + 1)
    OBVIOUS
  <2> USE DEF Good
  <2> DEFINE j == k + 1
             type == Layout(kind)[j]
             v == fields[j]
             p == P[k]
             q == R[j]
  <2>1. j \in 1..n /\ j - 1 = k /\ k \in 0..n /\ Good(k)
    BY <1>2, <1>9
  <2>2. p \in Parsers /\ type \in FieldTypes /\ v \in FieldOf(type) /\ v \in Values /\ q \in Bytes
    <3>1. j \in 0..n
      BY <2>1
    <3>2. p \in Parsers /\ q \in Bytes
      BY <1>5, <1>7, <2>1, <3>1
    <3> HIDE DEF p, q, j
    <3> QED BY <1>1, <1>2, <2>1, <3>2
  <2>3. p.buffer = MarshalField(type, v) \o q
    BY <1>3, <1>5, <2>1
  <2>4. P[j] = ReadField(p, type)
    BY <1>7, <2>1
  <2> HIDE DEF type, v, p, q
  <2>5. P[j].buffer = q /\ P[j].err = p.err /\ P[j].values = Append(p.values, v)
    <3> HIDE DEF j
    <3> QED BY <2>2, <2>3, <2>4, FieldRoundTrip
  <2>6. p.values \in Seq(Values) /\ Len(p.values) = k /\ p.err = FALSE
        /\ \A i \in 1..k : p.values[i] = fields[i]
    BY <2>1, <2>2 DEF p, Parsers
  <2>7. /\ Len(Append(p.values, v)) = k + 1
        /\ Append(p.values, v)[k + 1] = v
        /\ \A i \in 1..k : Append(p.values, v)[i] = p.values[i]
    BY <2>2, <2>6, AppendProperties
  <2>8. \A i \in 1..j : Append(p.values, v)[i] = fields[i]
    <3> SUFFICES ASSUME NEW i \in 1..j PROVE Append(p.values, v)[i] = fields[i]
      OBVIOUS
    <3>1. CASE i = k + 1
      BY <2>7, <3>1 DEF v
    <3>2. CASE i # k + 1
      <4>1. i \in 1..k
        BY <3>2
      <4> QED BY <2>6, <2>7, <4>1
    <3> QED BY <3>1, <3>2
  <2> QED BY <2>5, <2>6, <2>7, <2>8 DEF q
<1>10. n \in T
  <2> HIDE DEF T
  <2> QED BY <1>2, <1>8, <1>9, AllNaturals
<1>11. Good(n)
  BY <1>2, <1>10
<1>12. P[n].values = fields
  <2>1. P[n].values \in Seq(Values)
    BY <1>2, <1>7 DEF Parsers
  <2> QED BY <1>2, <1>11, <2>1, SeqEqual DEF n
<1> QED BY <1>7, <1>11, <1>12 DEF data, X
-----------------------------------------------------------------------------
(* The packets of a session. *)

LEMMA PowerExceeds ==
  \A k \in Nat \ {0} : k + 1 < Pow256[k]
<1> DEFINE T == {k \in Nat : k # 0 => k + 1 < Pow256[k]}
<1>1. 0 \in T
  OBVIOUS
<1>2. \A k \in Nat : k \in T => k + 1 \in T
  <2> SUFFICES ASSUME NEW k \in Nat, k \in T PROVE (k + 1) + 1 < Pow256[k + 1]
    OBVIOUS
  <2>1. Pow256[k + 1] = 256 * Pow256[k] /\ Pow256[k] \in Nat \ {0}
    BY PowerLaws, PowerBounds
  <2>2. k = 0 \/ k + 1 < Pow256[k]
    OBVIOUS
  <2> QED BY <2>1, <2>2
<1>3. \A k \in Nat : k \in T
  <2> HIDE DEF T
  <2> QED BY <1>1, <1>2, AllNaturals
<1> QED BY <1>3

\* Lengths.
LEMMA FlattenLen ==
  ASSUME NEW L, NEW n \in {1, 2, 3, 4}, L \in [1..n -> Bytes]
  PROVE  /\ FlattenSeq(L) \in Bytes
         /\ n = 1 => Len(FlattenSeq(L)) = Len(L[1])
         /\ n = 2 => Len(FlattenSeq(L)) = Len(L[1]) + Len(L[2])
         /\ n = 3 => Len(FlattenSeq(L)) = Len(L[1]) + Len(L[2]) + Len(L[3])
         /\ n = 4 => Len(FlattenSeq(L)) = Len(L[1]) + Len(L[2]) + Len(L[3]) + Len(L[4])
<1>1. \A i \in 1..n : L[i] \in Bytes
  OBVIOUS
<1>2. CASE n = 1
  <2>1. FlattenSeq(L) = L[1]
    BY <1>2, FlattenOf
  <2> QED BY <1>1, <1>2, <2>1
<1>3. CASE n = 2
  <2>1. FlattenSeq(L) = L[1] \o L[2]
    BY <1>3, FlattenOf
  <2>2. L[1] \in Bytes /\ L[2] \in Bytes
    BY <1>1, <1>3
  <2> QED BY <1>3, <2>1, <2>2, ConcatBytes
<1>4. CASE n = 3
  <2> DEFINE x == L[1] \o L[2]
  <2>1. FlattenSeq(L) = x \o L[3]
    BY <1>4, FlattenOf
  <2>2. L[1] \in Bytes /\ L[2] \in Bytes /\ L[3] \in Bytes
    BY <1>1, <1>4
  <2>3. x \in Bytes /\ Len(x) = Len(L[1]) + Len(L[2])
    BY <2>2, ConcatBytes
  <2> HIDE DEF x
  <2>4. x \o L[3] \in Bytes /\ Len(x \o L[3]) = Len(x) + Len(L[3])
    BY <2>2, <2>3, ConcatBytes
  <2> QED BY <1>4, <2>1, <2>3, <2>4
<1>5. CASE n = 4
  <2> DEFINE x == L[1] \o L[2]
             y == x \o L[3]
  <2>1. FlattenSeq(L) = y \o L[4]
    BY <1>5, FlattenOf
  <2>2. L[1] \in Bytes /\ L[2] \in Bytes /\ L[3] \in Bytes /\ L[4] \in Bytes
    BY <1>1, <1>5
  <2>3. x \in Bytes /\ Len(x) = Len(L[1]) + Len(L[2])
    BY <2>2, ConcatBytes
  <2> HIDE DEF x
  <2>4. y \in Bytes /\ Len(y) = Len(x) + Len(L[3])
    BY <2>2, <2>3, ConcatBytes
  <2> HIDE DEF y
  <2>5. Len(y \o L[4]) = Len(y) + Len(L[4]) /\ y \o L[4] \in Bytes
    BY <2>2, <2>4, ConcatBytes
  <2> QED BY <1>5, <2>1, <2>3, <2>4, <2>5
<1> QED BY <1>2, <1>3, <1>4, <1>5

LEMMA FieldLen ==
  /\ \A v \in FieldOf("uint32") : Len(MarshalField("uint32", v)) = Word32
  /\ \A v \in FieldOf("uint64") : Len(MarshalField("uint64", v)) = Word64
  /\ \A v \in FieldOf("string") : Len(MarshalField("string", v)) = Word32 + Len(v) /\ Len(v) \in Nat
<1>1. Word32 \in Nat /\ Word64 \in Nat
  BY PacketsAssumption
<1>2. \A v \in FieldOf("uint32") : Len(MarshalField("uint32", v)) = Word32
  BY <1>1, MarshalUintType DEF FieldOf, MarshalField
<1>3. \A v \in FieldOf("uint64") : Len(MarshalField("uint64", v)) = Word64
  BY <1>1, MarshalUintType DEF FieldOf, MarshalField
<1>4. \A v \in FieldOf("string") : Len(MarshalField("string", v)) = Word32 + Len(v) /\ Len(v) \in Nat
  BY MarshalStringType DEF FieldOf, MarshalField, Bytes
<1> QED BY <1>2, <1>3, <1>4

\* The bytes that the fields of each packet take.
FieldsLen(kind, fields) ==
  CASE kind \in {"init", "version"} -> Word32
    [] kind \in {"handle", "close"} -> 2 * Word32 + Len(fields[2])
    [] kind = "status" -> 4 * Word32 + Len(fields[3]) + Len(fields[4])
    [] kind = "open" -> 3 * Word32 + Len(fields[2])
    [] kind = "write" -> 3 * Word32 + Word64 + Len(fields[2]) + Len(fields[4])

LEMMA FieldBytesLen ==
  ASSUME NEW kind \in Kinds, NEW fields, Sound(kind, fields)
  PROVE  /\ FlattenSeq(FieldBytes(kind, fields)) \in Bytes
         /\ Len(FlattenSeq(FieldBytes(kind, fields))) = FieldsLen(kind, fields)
<1> DEFINE X == FieldBytes(kind, fields)
           n == Len(fields)
           l2 == Len(fields[2])
           l3 == Len(fields[3])
           l4 == Len(fields[4])
           whole == Len(FlattenSeq(X))
           counted == FieldsLen(kind, fields)
<1>1. X \in [1..n -> Bytes] /\ n \in {1, 2, 3, 4} /\ n = Len(Layout(kind))
  BY FieldBytesType DEF Sound
<1>2. \A i \in 1..n : Len(X[i]) = Len(MarshalField(Layout(kind)[i], fields[i]))
                      /\ fields[i] \in FieldOf(Layout(kind)[i])
  BY DEF FieldBytes, Sound
<1>3. Word32 \in Nat /\ Word64 \in Nat
  BY PacketsAssumption
<1> HIDE DEF X, n
<1>4. X \in [1..n -> Bytes] /\ FlattenSeq(X) \in Bytes
  BY <1>1, FlattenLen
<1>5. CASE kind \in {"init", "version"}
  <2>1. Len(Layout(kind)) = 1 /\ Layout(kind)[1] = "uint32"
    BY <1>5, LayoutOf
  <2>2. n = 1 /\ Len(X[1]) = Word32
    BY <1>1, <1>2, <2>1, FieldLen
  <2>3. Len(FlattenSeq(X)) = Word32
    BY <1>1, <2>2, FlattenLen
  <2> QED BY <1>4, <1>5, <2>3 DEF X, FieldsLen
<1>6. CASE kind \in {"handle", "close"}
  <2>1. Len(Layout(kind)) = 2 /\ Layout(kind)[1] = "uint32" /\ Layout(kind)[2] = "string"
    BY <1>6, LayoutOf
  <2>2. n = 2 /\ Len(X[1]) = Word32 /\ Len(X[2]) = Word32 + l2 /\ l2 \in Nat
    BY <1>1, <1>2, <2>1, FieldLen
  <2>3. whole = Word32 + (Word32 + l2)
    BY <1>1, <2>2, FlattenLen
  <2>4. counted = 2 * Word32 + l2
    BY <1>6 DEF FieldsLen
  <2>5. whole = counted
    <3> HIDE DEF whole, counted, l2, l3, l4
    <3> QED BY <1>3, <2>2, <2>3, <2>4
  <2> QED BY <1>4, <2>5, Zenon DEF X, whole, counted
<1>7. CASE kind = "status"
  <2>1. /\ Len(Layout(kind)) = 4 /\ Layout(kind)[1] = "uint32" /\ Layout(kind)[2] = "uint32"
        /\ Layout(kind)[3] = "string" /\ Layout(kind)[4] = "string"
    BY <1>7, LayoutOf
  <2>2. /\ n = 4 /\ Len(X[1]) = Word32 /\ Len(X[2]) = Word32
        /\ Len(X[3]) = Word32 + l3 /\ l3 \in Nat
        /\ Len(X[4]) = Word32 + l4 /\ l4 \in Nat
    BY <1>1, <1>2, <2>1, FieldLen, SMTT(30)
  <2>3. whole = Word32 + Word32 + (Word32 + l3) + (Word32 + l4)
    BY <1>1, <2>2, FlattenLen
  <2>4. counted = 4 * Word32 + l3 + l4
    BY <1>7 DEF FieldsLen
  <2>5. whole = counted
    <3> HIDE DEF whole, counted, l2, l3, l4
    <3> QED BY <1>3, <2>2, <2>3, <2>4
  <2> QED BY <1>4, <2>5, Zenon DEF X, whole, counted
<1>8. CASE kind = "open"
  <2>1. /\ Len(Layout(kind)) = 3 /\ Layout(kind)[1] = "uint32" /\ Layout(kind)[2] = "string"
        /\ Layout(kind)[3] = "uint32"
    BY <1>8, LayoutOf
  <2>2. /\ n = 3 /\ Len(X[1]) = Word32 /\ Len(X[2]) = Word32 + l2
        /\ l2 \in Nat /\ Len(X[3]) = Word32
    BY <1>1, <1>2, <2>1, FieldLen
  <2>3. whole = Word32 + (Word32 + l2) + Word32
    BY <1>1, <2>2, FlattenLen
  <2>4. counted = 3 * Word32 + l2
    BY <1>8 DEF FieldsLen
  <2>5. whole = counted
    <3> HIDE DEF whole, counted, l2, l3, l4
    <3> QED BY <1>3, <2>2, <2>3, <2>4
  <2> QED BY <1>4, <2>5, Zenon DEF X, whole, counted
<1>9. CASE kind = "write"
  <2>1. /\ Len(Layout(kind)) = 4 /\ Layout(kind)[1] = "uint32" /\ Layout(kind)[2] = "string"
        /\ Layout(kind)[3] = "uint64" /\ Layout(kind)[4] = "string"
    BY <1>9, LayoutOf
  <2>2. /\ n = 4 /\ Len(X[1]) = Word32 /\ Len(X[3]) = Word64
        /\ Len(X[2]) = Word32 + l2 /\ l2 \in Nat
        /\ Len(X[4]) = Word32 + l4 /\ l4 \in Nat
    BY <1>1, <1>2, <2>1, FieldLen, SMTT(30)
  <2>3. whole = Word32 + (Word32 + l2) + Word64 + (Word32 + l4)
    BY <1>1, <2>2, FlattenLen
  <2>4. counted = 3 * Word32 + Word64 + l2 + l4
    BY <1>9 DEF FieldsLen
  <2>5. whole = counted
    <3> HIDE DEF whole, counted, l2, l3, l4
    <3> QED BY <1>3, <2>2, <2>3, <2>4
  <2> QED BY <1>4, <2>5, Zenon DEF X, whole, counted
<1> QED BY <1>5, <1>6, <1>7, <1>8, <1>9 DEF Kinds

\* The packets of the model have fields of the types of their layouts.
LEMMA StringsAreSound ==
  /\ \A s \in Strings : s \in FieldOf("string") /\ s \in Values
  /\ \A n \in {0, 1, 2, 3, 4, 64} : n \in FieldOf("uint32") /\ n \in Values
  /\ \A o \in Offsets : o \in FieldOf("uint64") /\ o \in Values
<1>1. Word32 \in Nat \ {0} /\ Word64 \in Nat
  BY PacketsAssumption
<1>2. Pow256[Word32] \in Nat /\ Pow256[Word32] >= 256
  BY <1>1, PowerBounds
<1>3. ASSUME NEW s \in Strings PROVE s \in FieldOf("string") /\ s \in Values
  <2>1. s \in Bytes /\ Len(s) \in Nat
    BY PacketsAssumption DEF Bytes, Byte
  <2>2. 1 + 4 * Word32 + Word64 + Len(s) + Len(s) < Pow256[Word32]
    BY PacketsAssumption
  <2>3. Len(s) < Pow256[Word32]
    BY <1>1, <1>2, <2>1, <2>2
  <2> QED BY <2>1, <2>3 DEF FieldOf, Values
<1>4. \A n \in {0, 1, 2, 3, 4, 64} : n \in FieldOf("uint32") /\ n \in Values
  BY <1>2 DEF FieldOf, Values
<1>5. \A o \in Offsets : o \in FieldOf("uint64") /\ o \in Values
  BY PacketsAssumption DEF FieldOf, Values
<1> QED BY <1>3, <1>4, <1>5

LEMMA SoundVersion ==
  ASSUME NEW kind \in {"init", "version"}, NEW v \in {2, 3}
  PROVE  Sound(kind, <<v>>)
<1>1. Layout(kind) = <<"uint32">>
  BY LayoutOf
<1>2. v \in FieldOf("uint32") /\ v \in Values
  BY StringsAreSound
<1> QED BY <1>1, <1>2, TupleType DEF Sound

LEMMA SoundHandle ==
  ASSUME NEW kind \in {"handle", "close"}, NEW s \in Strings
  PROVE  Sound(kind, <<reqID, s>>)
<1>1. Layout(kind) = <<"uint32", "string">>
  BY LayoutOf
<1>2. reqID \in FieldOf("uint32") /\ reqID \in Values /\ s \in FieldOf("string") /\ s \in Values
  BY StringsAreSound DEF reqID
<1>3. <<reqID, s>> \in Seq(Values) /\ Len(<<reqID, s>>) = 2
  BY <1>2, TupleType
<1> QED BY <1>1, <1>2, <1>3 DEF Sound

LEMMA SoundStatus ==
  ASSUME NEW c \in {SSH_FX_OK, 4}, NEW m \in Strings, NEW l \in Strings
  PROVE  Sound("status", <<reqID, c, m, l>>)
<1>1. Layout("status") = <<"uint32", "uint32", "string", "string">>
  BY LayoutOf
<1>2. /\ reqID \in FieldOf("uint32") /\ reqID \in Values /\ c \in FieldOf("uint32") /\ c \in Values
      /\ m \in FieldOf("string") /\ m \in Values /\ l \in FieldOf("string") /\ l \in Values
  BY StringsAreSound DEF reqID, SSH_FX_OK
<1> DEFINE f == <<reqID, c, m, l>>
<1>3. f \in Seq(Values) /\ Len(f) = 4
  BY <1>2, TupleType
<1>4. ASSUME NEW i \in 1..4 PROVE f[i] \in FieldOf(Layout("status")[i])
  <2>1. i = 1 \/ i = 2 \/ i = 3 \/ i = 4
    OBVIOUS
  <2> QED BY <1>1, <1>2, <2>1
<1>5. Len(Layout("status")) = 4
  BY <1>1
<1> HIDE DEF f
<1> QED BY <1>3, <1>4, <1>5 DEF Sound, f

LEMMA SoundOpen ==
  ASSUME NEW s \in Strings
  PROVE  Sound("open", <<reqID, s, 64>>)
<1>1. Layout("open") = <<"uint32", "string", "uint32">>
  BY LayoutOf
<1>2. /\ reqID \in FieldOf("uint32") /\ reqID \in Values /\ s \in FieldOf("string") /\ s \in Values
      /\ 64 \in FieldOf("uint32") /\ 64 \in Values
  BY StringsAreSound DEF reqID
<1> DEFINE f == <<reqID, s, 64>>
<1>3. f \in Seq(Values) /\ Len(f) = 3
  BY <1>2, TupleType
<1>4. ASSUME NEW i \in 1..3 PROVE f[i] \in FieldOf(Layout("open")[i])
  <2>1. i = 1 \/ i = 2 \/ i = 3
    OBVIOUS
  <2> QED BY <1>1, <1>2, <2>1
<1>5. Len(Layout("open")) = 3
  BY <1>1
<1> HIDE DEF f
<1> QED BY <1>3, <1>4, <1>5 DEF Sound, f

LEMMA SoundWrite ==
  ASSUME NEW h \in Strings, NEW o \in Offsets, NEW d \in Strings
  PROVE  Sound("write", <<reqID, h, o, d>>)
<1>1. Layout("write") = <<"uint32", "string", "uint64", "string">>
  BY LayoutOf
<1>2. /\ reqID \in FieldOf("uint32") /\ reqID \in Values /\ h \in FieldOf("string") /\ h \in Values
      /\ o \in FieldOf("uint64") /\ o \in Values /\ d \in FieldOf("string") /\ d \in Values
  BY StringsAreSound DEF reqID
<1> DEFINE f == <<reqID, h, o, d>>
<1>3. f \in Seq(Values) /\ Len(f) = 4
  BY <1>2, TupleType
<1>4. ASSUME NEW i \in 1..4 PROVE f[i] \in FieldOf(Layout("write")[i])
  <2>1. i = 1 \/ i = 2 \/ i = 3 \/ i = 4
    OBVIOUS
  <2> QED BY <1>1, <1>2, <2>1
<1>5. Len(Layout("write")) = 4
  BY <1>1
<1> HIDE DEF f
<1> QED BY <1>3, <1>4, <1>5 DEF Sound, f

\* A packet whose length a uint32 can say.
Framed(kind, fields) ==
  /\ kind \in Kinds /\ Sound(kind, fields)
  /\ Len(Body(kind, fields)) < Pow256[Word32]

\* What a packet is made of.
LEMMA PacketParts ==
  ASSUME NEW kind \in Kinds, NEW fields, Sound(kind, fields)
  PROVE  LET end == IF kind = "open" THEN MarshalUint(0, Word32) ELSE <<>>
             b   == Body(kind, fields)
         IN  /\ end \in Bytes /\ Len(end) = IF kind = "open" THEN Word32 ELSE 0
             /\ Marshal(kind, fields) = FlattenSeq(FieldBytes(kind, fields)) \o end
             /\ Marshal(kind, fields) \in Bytes
             /\ Len(Marshal(kind, fields)) = FieldsLen(kind, fields) + Len(end)
             /\ b \in Bytes /\ Len(b) = Len(Marshal(kind, fields)) + 1 /\ Len(b) \in Nat
             /\ b # <<>> /\ Head(b) = TypeCode(kind) /\ Tail(b) = Marshal(kind, fields)
             /\ MakeRawPacket(kind, fields) = MarshalUint(Len(b), Word32) \o b
             /\ MakeRawPacket(kind, fields) \in Bytes
             /\ Len(MakeRawPacket(kind, fields)) = Word32 + Len(b)
<1> DEFINE end == IF kind = "open" THEN MarshalUint(0, Word32) ELSE <<>>
           b == Body(kind, fields)
           m == Marshal(kind, fields)
           x == FlattenSeq(FieldBytes(kind, fields))
<1>1. Word32 \in Nat
  BY PacketsAssumption
<1>2. end \in Bytes /\ Len(end) = IF kind = "open" THEN Word32 ELSE 0
  <2>1. MarshalUint(0, Word32) \in Bytes /\ Len(MarshalUint(0, Word32)) = Word32
    BY <1>1, MarshalUintType
  <2>2. <<>> \in Bytes /\ Len(<<>>) = 0
    BY DEF Bytes
  <2> QED BY <2>1, <2>2
<1>3. m = x \o end
  BY Zenon DEF Marshal, FieldBytes
<1>4. x \in Bytes /\ Len(x) = FieldsLen(kind, fields)
  BY FieldBytesLen
<1> HIDE DEF end, x
<1>5. m \in Bytes /\ Len(m) = FieldsLen(kind, fields) + Len(end) /\ Len(m) \in Nat
  <2>1. x \o end \in Bytes /\ Len(x \o end) = Len(x) + Len(end)
    BY <1>2, <1>4, ConcatBytes
  <2> HIDE DEF m
  <2>2. Len(m) \in Nat
    BY <1>3, <2>1 DEF Bytes
  <2> QED BY <1>3, <1>4, <2>1, <2>2
<1>6. b = <<TypeCode(kind)>> \o m
  BY DEF Body
<1>7. <<TypeCode(kind)>> \in Bytes /\ TypeCode(kind) \in Byte
  <2>1. TypeCode(kind) \in {1, 2, 3, 4, 6, 101, 102}
    BY DEF TypeCode, Kinds
  <2>2. TypeCode(kind) \in Byte
    BY <2>1 DEF Byte
  <2> QED BY <2>2 DEF Bytes
<1> HIDE DEF m, b
<1>8. b \in Bytes /\ Len(b) = Len(m) + 1 /\ Len(b) \in Nat /\ b # <<>>
  <2> DEFINE t == <<TypeCode(kind)>>
  <2>1. t \in Bytes /\ Len(t) = 1
    BY <1>7
  <2> HIDE DEF t
  <2>2. t \o m \in Bytes /\ Len(t \o m) = Len(t) + Len(m)
    BY <1>5, <2>1, ConcatBytes
  <2>3. b \in Bytes /\ Len(b) = 1 + Len(m)
    BY <1>6, <2>1, <2>2 DEF t
  <2> QED BY <1>5, <2>3
<1>9. Head(b) = TypeCode(kind) /\ Tail(b) = m
  <2> DEFINE c == TypeCode(kind)
  <2>1. c \in Byte /\ m \in Seq(Byte) /\ b = <<c>> \o m
    BY <1>5, <1>6, <1>7 DEF Bytes
  <2> HIDE DEF c
  <2>2. Head(<<c>> \o m) = c
    BY <2>1
  <2>3. Tail(<<c>> \o m) = m
    BY <2>1
  <2> QED BY <2>1, <2>2, <2>3 DEF c
<1>10. MakeRawPacket(kind, fields) = MarshalUint(Len(b), Word32) \o b
  BY <1>8 DEF MakeRawPacket, b, m
<1>11. /\ MarshalUint(Len(b), Word32) \o b \in Bytes
       /\ Len(MarshalUint(Len(b), Word32) \o b) = Word32 + Len(b)
  <2>1. MarshalUint(Len(b), Word32) \in Bytes /\ Len(MarshalUint(Len(b), Word32)) = Word32
    BY <1>1, <1>8, MarshalUintType
  <2> QED BY <1>8, <2>1, ConcatBytes
<1> QED BY <1>2, <1>3, <1>5, <1>8, <1>9, <1>10, <1>11 DEF end, x, m, b

\* So they fit their length field.
LEMMA BodyLen ==
  ASSUME NEW kind \in Kinds, NEW fields, Sound(kind, fields)
  PROVE  Len(Body(kind, fields)) =
           FieldsLen(kind, fields) + (IF kind = "open" THEN Word32 ELSE 0) + 1
  BY PacketParts

LEMMA FramedVersion ==
  ASSUME NEW kind \in {"init", "version"}, NEW v \in {2, 3}
  PROVE  Framed(kind, <<v>>)
<1>1. kind \in Kinds /\ Sound(kind, <<v>>)
  BY SoundVersion DEF Kinds
<1>2. FieldsLen(kind, <<v>>) = Word32
  BY DEF FieldsLen
<1>3. Word32 \in Nat \ {0} /\ Word32 + 1 < Pow256[Word32]
  BY PacketsAssumption, PowerExceeds
<1>4. Len(Body(kind, <<v>>)) = Word32 + 1
  BY <1>1, <1>2, <1>3, BodyLen
<1> QED BY <1>1, <1>3, <1>4 DEF Framed

\* Strings of the model, and the longest packet of two of them.
LEMMA StringsFit ==
  ASSUME NEW s \in Strings, NEW t \in Strings
  PROVE  /\ Word32 \in Nat /\ Word64 \in Nat /\ Len(s) \in Nat /\ Len(t) \in Nat
         /\ 1 + 4 * Word32 + Word64 + Len(s) + Len(t) < Pow256[Word32]
         /\ Pow256[Word32] \in Nat
  BY PacketsAssumption, PowerBounds

LEMMA FramedHandle ==
  ASSUME NEW kind \in {"handle", "close"}, NEW s \in Strings
  PROVE  Framed(kind, <<reqID, s>>)
<1> DEFINE f == <<reqID, s>>
           l == Len(s)
           b == Len(Body(kind, f))
<1>1. kind \in Kinds /\ Sound(kind, f)
  BY SoundHandle DEF Kinds
<1>2. FieldsLen(kind, f) = 2 * Word32 + l
  BY DEF FieldsLen
<1> HIDE DEF f
<1>3. b = (2 * Word32 + l) + 0 + 1
  BY <1>1, <1>2, BodyLen
<1>4. /\ Word32 \in Nat /\ Word64 \in Nat /\ l \in Nat /\ Pow256[Word32] \in Nat
      /\ 1 + 4 * Word32 + Word64 + l + l < Pow256[Word32]
  BY StringsFit
<1>5. b < Pow256[Word32]
  <2> HIDE DEF b, l
  <2> QED BY <1>3, <1>4
<1> QED BY <1>1, <1>5 DEF Framed, f

LEMMA FramedStatus ==
  ASSUME NEW c \in {SSH_FX_OK, 4}, NEW m \in Strings, NEW l \in Strings
  PROVE  Framed("status", <<reqID, c, m, l>>)
<1> DEFINE f == <<reqID, c, m, l>>
           x == Len(m)
           y == Len(l)
           b == Len(Body("status", f))
<1>1. "status" \in Kinds /\ Sound("status", f)
  BY SoundStatus DEF Kinds
<1>2. FieldsLen("status", f) = 4 * Word32 + x + y
  BY DEF FieldsLen
<1> HIDE DEF f
<1>3. b = (4 * Word32 + x + y) + 0 + 1
  BY <1>1, <1>2, BodyLen
<1>4. /\ Word32 \in Nat /\ Word64 \in Nat /\ x \in Nat /\ y \in Nat /\ Pow256[Word32] \in Nat
      /\ 1 + 4 * Word32 + Word64 + x + y < Pow256[Word32]
  BY StringsFit
<1>5. b < Pow256[Word32]
  <2> HIDE DEF b, x, y
  <2> QED BY <1>3, <1>4
<1> QED BY <1>1, <1>5 DEF Framed, f

LEMMA FramedOpen ==
  ASSUME NEW s \in Strings
  PROVE  Framed("open", <<reqID, s, 64>>)
<1> DEFINE f == <<reqID, s, 64>>
           l == Len(s)
           b == Len(Body("open", f))
<1>1. "open" \in Kinds /\ Sound("open", f)
  BY SoundOpen DEF Kinds
<1>2. FieldsLen("open", f) = 3 * Word32 + l
  BY DEF FieldsLen
<1> HIDE DEF f
<1>3. b = (3 * Word32 + l) + Word32 + 1
  BY <1>1, <1>2, BodyLen
<1>4. /\ Word32 \in Nat /\ Word64 \in Nat /\ l \in Nat /\ Pow256[Word32] \in Nat
      /\ 1 + 4 * Word32 + Word64 + l + l < Pow256[Word32]
  BY StringsFit
<1>5. b < Pow256[Word32]
  <2> HIDE DEF b, l
  <2> QED BY <1>3, <1>4
<1> QED BY <1>1, <1>5 DEF Framed, f

\* A write is framed, and its bytes beside the data are as many whatever
\* the data are.
LEMMA FramedWrite ==
  ASSUME NEW h \in Strings, NEW o \in Offsets, NEW d \in Strings
  PROVE  /\ Framed("write", <<reqID, h, o, d>>)
         /\ Len(Body("write", <<reqID, h, o, d>>)) = 1 + 3 * Word32 + Word64 + Len(h) + Len(d)
<1> DEFINE f == <<reqID, h, o, d>>
           x == Len(h)
           y == Len(d)
           b == Len(Body("write", f))
<1>1. "write" \in Kinds /\ Sound("write", f)
  BY SoundWrite DEF Kinds
<1>2. FieldsLen("write", f) = 3 * Word32 + Word64 + x + y
  BY DEF FieldsLen
<1> HIDE DEF f
<1>3. b = (3 * Word32 + Word64 + x + y) + 0 + 1
  BY <1>1, <1>2, BodyLen
<1>4. /\ Word32 \in Nat /\ Word64 \in Nat /\ x \in Nat /\ y \in Nat /\ Pow256[Word32] \in Nat
      /\ 1 + 4 * Word32 + Word64 + x + y < Pow256[Word32]
  BY StringsFit
<1>5. b < Pow256[Word32] /\ b = 1 + 3 * Word32 + Word64 + x + y
  <2> HIDE DEF b, x, y
  <2> QED BY <1>3, <1>4
<1> QED BY <1>1, <1>5 DEF Framed, f

\* So do all that a server answers, and all that a client sends.
LEMMA GoodAnswers ==
  ASSUME NEW req \in A!Requests, NEW a \in Answers(req)
  PROVE  /\ a = [kind |-> a.kind, values |-> a.values]
         /\ a.kind \in {"version", "handle", "status"}
         /\ Framed(a.kind, a.values)
<1>1. CASE a \in {[kind |-> "status", values |-> s] : s \in Statuses}
  <2>1. PICK c \in {SSH_FX_OK, 4}, m \in Strings, l \in Strings :
          a = [kind |-> "status", values |-> <<reqID, c, m, l>>]
    BY <1>1 DEF Statuses
  <2> QED BY <2>1, FramedStatus
<1>2. CASE a \in {[kind |-> "version", values |-> <<v>>] : v \in {2, ClientVer}}
  <2>1. PICK v \in {2, 3} : a = [kind |-> "version", values |-> <<v>>]
    BY <1>2 DEF ClientVer
  <2> QED BY <2>1, FramedVersion
<1>3. CASE a \in {[kind |-> "handle", values |-> <<reqID, h>>] : h \in Strings}
  <2>1. PICK h \in Strings : a = [kind |-> "handle", values |-> <<reqID, h>>]
    BY <1>3
  <2> QED BY <2>1, FramedHandle
<1> QED BY <1>1, <1>2, <1>3 DEF Answers, A!Expected, A!Requests

LEMMA GoodRequests ==
  ASSUME NEW req \in A!Requests, NEW p \in RequestFields(req)
  PROVE  /\ Framed(req, p)
         /\ req = "write" => Len(Body(req, p)) = 1 + 3 * Word32 + Word64 + Len(p[2]) + Len(p[4])
<1>1. CASE req = "init"
  <2>1. p = <<3>>
    BY <1>1 DEF RequestFields, ClientVer
  <2> QED BY <1>1, <2>1, FramedVersion
<1>2. CASE req = "open"
  <2>1. PICK n \in Strings : p = <<reqID, n, 64>>
    BY <1>2 DEF RequestFields
  <2> QED BY <1>2, <2>1, FramedOpen
<1>3. CASE req = "write"
  <2>1. PICK h \in Strings, o \in Offsets, d \in Strings : p = <<reqID, h, o, d>>
    BY <1>3 DEF RequestFields
  <2>2. p[2] = h /\ p[4] = d
    BY <2>1
  <2> QED BY <1>3, <2>1, <2>2, FramedWrite
<1>4. CASE req = "close"
  <2>1. PICK h \in Strings : p = <<reqID, h>>
    BY <1>4 DEF RequestFields
  <2> QED BY <1>4, <2>1, FramedHandle
<1> QED BY <1>1, <1>2, <1>3, <1>4 DEF A!Requests

\* A packet is parsed to the fields it was made from.
LEMMA ReadBack ==
  ASSUME NEW kind, NEW fields, Framed(kind, fields)
  PROVE  LET p == Unmarshal(kind, Tail(Body(kind, fields)))
         IN  ~p.err /\ p.values = fields
<1>1. kind \in Kinds /\ Sound(kind, fields)
  BY DEF Framed
<1> DEFINE end == IF kind = "open" THEN MarshalUint(0, Word32) ELSE <<>>
<1>2. end \in Bytes /\ Tail(Body(kind, fields)) = FlattenSeq(FieldBytes(kind, fields)) \o end
  BY <1>1, PacketParts
<1> DEFINE x == FlattenSeq(FieldBytes(kind, fields)) \o end
<1> HIDE DEF end
<1>3. LET p == Unmarshal(kind, x) IN ~p.err /\ p.values = fields
  BY <1>1, <1>2, PacketRoundTrip, Zenon
<1>4. Tail(Body(kind, fields)) = x
  BY <1>2
<1> HIDE DEF x
<1> QED BY <1>3, <1>4

\* An answer is what it was when it is of the kind asked for, and else an error.
LEMMA AnswerRead ==
  ASSUME NEW expected \in {"version", "handle", "status"}, NEW a,
         a.kind \in {"version", "handle", "status"}, a = [kind |-> a.kind, values |-> a.values],
         Framed(a.kind, a.values)
  PROVE  ReadResp(expected, Body(a.kind, a.values)) = IF a.kind = expected THEN a ELSE Error
<1> DEFINE b == Body(a.kind, a.values)
<1>1. b # <<>> /\ Head(b) = TypeCode(a.kind)
  BY PacketParts DEF Framed
<1>2. ~Unmarshal(a.kind, Tail(b)).err /\ Unmarshal(a.kind, Tail(b)).values = a.values
  BY ReadBack
<1> HIDE DEF b
<1>3. TypeCode(a.kind) = TypeCode(expected) <=> a.kind = expected
  BY DEF TypeCode
<1>4. CASE a.kind = expected
  BY <1>1, <1>2, <1>4 DEF ReadResp, Packet, b
<1>5. CASE a.kind # expected
  BY <1>1, <1>3, <1>5 DEF ReadResp, b
<1> QED BY <1>4, <1>5
-----------------------------------------------------------------------------
(* The session. *)

\* Types, with the pipe and the packet read as sequences of bytes.
TypeInv ==
  /\ at \in Places
  /\ request \in A!Requests
  /\ answer.kind \in {"none", "version", "handle", "status"}
  /\ damaged \in BOOLEAN
  /\ pipe \in Bytes
  /\ want \in Nat
  /\ resp \in Bytes

\* What a parser sees of a stretch of bytes, and of the rest.
LEMMA Stretch ==
  ASSUME NEW b \in Bytes, NEW n \in 0..Len(b)
  PROVE  SubSeq(b, 1, n) \in Bytes /\ Drop(b, n) \in Bytes
<1>1. b \in Seq(Byte)
  BY DEF Bytes
<1>2. Drop(b, n) \in Seq(Byte)
  BY <1>1, DropFacts
<1>3. SubSeq(b, 1, n) \in Seq(Byte)
  BY <1>1, SubSeqProperties
<1> QED BY <1>2, <1>3 DEF Bytes

\* Damage leaves bytes.
LEMMA DamageType ==
  ASSUME NEW b \in Bytes, NEW d \in Damage(b)
  PROVE  d \in Bytes
<1>1. b \in Seq(Byte) /\ NoiseBytes \subseteq Byte
  BY PacketsAssumption DEF Bytes, Byte
<1>2. CASE \E n \in 0..Len(b) : d = SubSeq(b, 1, n)
  BY <1>2, Stretch
<1>3. CASE \E i \in DOMAIN b, x \in NoiseBytes : d = [b EXCEPT ![i] = x]
  <2>1. PICK i \in DOMAIN b, x \in NoiseBytes : d = [b EXCEPT ![i] = x]
    BY <1>3
  <2>2. i \in 1..Len(b) /\ x \in Byte
    BY <1>1, <2>1
  <2> QED BY <1>1, <2>1, <2>2, ExceptSeq DEF Bytes
<1>4. CASE \E x \in NoiseBytes : d = Append(b, x)
  <2>1. PICK x \in NoiseBytes : d = Append(b, x)
    BY <1>4
  <2>2. x \in Byte
    BY <1>1, <2>1
  <2> QED BY <1>1, <2>1, <2>2, AppendProperties DEF Bytes
<1> QED BY <1>2, <1>3, <1>4 DEF Damage

\* What a server answers is a packet of bytes.
LEMMA AnswerParts ==
  ASSUME NEW req \in A!Requests, NEW a \in Answers(req)
  PROVE  /\ a.kind \in {"version", "handle", "status"}
         /\ Body(a.kind, a.values) \in Bytes
         /\ MakeRawPacket(a.kind, a.values) \in Bytes
<1>1. a.kind \in {"version", "handle", "status"} /\ Framed(a.kind, a.values)
  BY GoodAnswers
<1>2. a.kind \in Kinds /\ Sound(a.kind, a.values)
  BY <1>1 DEF Framed
<1> QED BY <1>1, <1>2, PacketParts

\* The types are an invariant.
LEMMA TypeInit == Init => TypeInv
<1>1. <<>> \in Bytes
  BY DEF Bytes
<1> SUFFICES ASSUME Init PROVE TypeInv
  OBVIOUS
<1>2. at \in Places /\ request \in A!Requests
  BY DEF Init, Places, A!Requests
<1>3. answer.kind = "none" /\ damaged \in BOOLEAN /\ want \in Nat
  BY DEF Init
<1>4. pipe \in Bytes /\ resp \in Bytes
  BY <1>1 DEF Init
<1> QED BY <1>2, <1>3, <1>4 DEF TypeInv

LEMMA TypeStep ==
  ASSUME TypeInv, [Next]_vars
  PROVE  TypeInv'
<1> USE DEF TypeInv
<1>1. CASE SendRequest
  BY <1>1 DEF SendRequest, Places
<1>2. CASE Respond
  <2>1. answer' \in Answers(request) /\ pipe' = pipe \o MakeRawPacket(answer'.kind, answer'.values)
    BY <1>2 DEF Respond
  <2>2. answer'.kind \in {"version", "handle", "status"} /\ MakeRawPacket(answer'.kind, answer'.values) \in Bytes
    BY <2>1, AnswerParts
  <2>3. pipe' \in Bytes
    BY <2>1, <2>2, ConcatBytes
  <2> QED BY <1>2, <2>2, <2>3 DEF Respond, Places
<1>3. CASE RespondBadly
  <2>1. answer' \in Answers(request)
    BY <1>3 DEF RespondBadly
  <2>2. answer'.kind \in {"version", "handle", "status"} /\ Body(answer'.kind, answer'.values) \in Bytes
    BY <2>1, AnswerParts
  <2>3. PICK b \in Damage(Body(answer'.kind, answer'.values)), off \in {-1, 0, 1} :
          Len(b) + off >= 0 /\ pipe' = pipe \o MarshalUint(Len(b) + off, Word32) \o b
    BY <1>3 DEF RespondBadly
  <2>4. b \in Bytes
    BY <2>2, <2>3, DamageType
  <2>5. Len(b) + off \in Nat
    BY <2>3, <2>4 DEF Bytes
  <2>6. MarshalUint(Len(b) + off, Word32) \in Bytes
    BY <2>5, PacketsAssumption, MarshalUintType
  <2>7. pipe \o MarshalUint(Len(b) + off, Word32) \in Bytes
    BY <2>6, ConcatBytes
  <2>8. pipe' \in Bytes
    BY <2>3, <2>4, <2>7, ConcatBytes
  <2> QED BY <1>3, <2>2, <2>8 DEF RespondBadly, Places
<1>4. CASE HangUp
  BY <1>4 DEF HangUp, Places
<1>5. CASE ReadLength
  <2>1. /\ Word32 \in 0..Len(pipe) /\ want' = UnmarshalUint(SubSeq(pipe, 1, Word32))
        /\ pipe' = Drop(pipe, Word32)
    BY <1>5, PacketsAssumption DEF ReadLength, Bytes
  <2>2. SubSeq(pipe, 1, Word32) \in Bytes /\ pipe' \in Bytes
    BY <2>1, Stretch
  <2>3. want' \in Nat
    BY <2>1, <2>2, BytesUintType
  <2> QED BY <1>5, <2>2, <2>3 DEF ReadLength, Places
<1>6. CASE ReadBody
  <2>1. want \in 0..Len(pipe) /\ resp' = SubSeq(pipe, 1, want) /\ pipe' = Drop(pipe, want)
    BY <1>6 DEF ReadBody, Bytes
  <2>2. resp' \in Bytes /\ pipe' \in Bytes
    BY <2>1, Stretch
  <2> QED BY <1>6, <2>2 DEF ReadBody, Places
<1>7. CASE Judge
  <2>1. request' \in A!Requests /\ at' \in Places
    BY <1>7 DEF Judge, NextRequests, A!Requests, Places
  <2>2. resp' \in Bytes
    BY <1>7 DEF Judge, Bytes
  <2> QED BY <1>7, <2>1, <2>2 DEF Judge
<1>8. CASE UNCHANGED vars
  BY <1>8 DEF vars
<1> QED BY <1>1, <1>2, <1>3, <1>4, <1>5, <1>6, <1>7, <1>8 DEF Next, Terminated

LEMMA TypeInvariant == Spec => []TypeInv
<1>1. TypeInv /\ [Next]_vars => TypeInv'
  BY TypeStep
<1> QED BY TypeInit, <1>1, PTL DEF Spec

\* Every variable keeps to its range, and what is in the pipe and in the packet
\* read are bytes, whatever the strings, the widths and the damage.
THEOREM PacketsTypeOK == Spec => []TypeOK
<1>1. ASSUME NEW s \in Bytes PROVE \A i \in DOMAIN s : s[i] \in 0..255
  <2>1. \A i \in DOMAIN s : s[i] \in Byte
    BY DEF Bytes
  <2> QED BY <2>1 DEF Byte
<1>2. TypeInv => TypeOK
  BY <1>1 DEF TypeInv, TypeOK
<1> QED BY <1>2, TypeInvariant, PTL

\* Every packet that a server can send, damaged or not, is one of the seven
\* answers that SSHTransfer is built on, and ReadResp (ssh/packet.go) does to it
\* what SFTPAnswers says.
THEOREM PacketsAnswersAreSeven == Spec => []AnswersAreSeven
<1>1. TypeInv => AnswersAreSeven
  <2> SUFFICES ASSUME TypeInv PROVE Verdict(Result) = A!ReadResp(A!Expected(request), AnswerOf(resp))
    BY DEF AnswersAreSeven
  <2>1. A!Expected(request) \in {"version", "handle", "status"} /\ resp \in Bytes
    BY DEF TypeInv, A!Expected
  <2> QED BY <2>1, SevenAnswers DEF Result
<1> QED BY <1>1, TypeInvariant, PTL
-----------------------------------------------------------------------------
(* Where the client is in the stream. *)

Whole == Body(answer.kind, answer.values)

\* While nothing has been damaged: the pipe is empty between the packets, and
\* within one it holds what is left of the answer under way, no more; the
\* length read is that of the rest.
FramingInv ==
  /\ at = "answer" => packet \in RequestFields(request)
  /\ ~damaged /\ at \in {"send", "answer", "ended", "panic"} => pipe = <<>>
  /\ ~damaged /\ at \in {"length", "body", "judge"} => answer \in Answers(request)
  /\ ~damaged /\ at = "length" => pipe = MakeRawPacket(answer.kind, answer.values)
  /\ ~damaged /\ at = "body" => pipe = Whole /\ want = Len(Whole)
  /\ ~damaged /\ at = "judge" => pipe = <<>> /\ resp = Whole

\* A packet in the pipe is a length and as many bytes.
LEMMA PacketInPipe ==
  ASSUME NEW kind, NEW fields, Framed(kind, fields), NEW raw, raw = MakeRawPacket(kind, fields)
  PROVE  /\ Len(raw) >= Word32
         /\ UnmarshalUint(SubSeq(raw, 1, Word32)) = Len(Body(kind, fields))
         /\ Drop(raw, Word32) = Body(kind, fields)
         /\ Len(raw) = Word32 + Len(Body(kind, fields))
<1> DEFINE b == Body(kind, fields)
           l == MarshalUint(Len(b), Word32)
<1>1. /\ raw = l \o b /\ b \in Bytes /\ Len(b) \in Nat /\ Len(b) < Pow256[Word32]
      /\ Len(raw) = Word32 + Len(b)
  BY PacketParts DEF Framed
<1>2. Word32 \in Nat
  BY PacketsAssumption
<1> HIDE DEF b
<1>3. l \in Bytes /\ Len(l) = Word32 /\ UnmarshalUint(l) = Len(b)
  BY <1>1, <1>2, MarshalUintType, UintRoundTrip
<1> HIDE DEF l
<1>4. Drop(l \o b, Len(l)) = b /\ SubSeq(l \o b, 1, Len(l)) = l
  <2>1. l \in Seq(Byte) /\ b \in Seq(Byte)
    BY <1>1, <1>3 DEF Bytes
  <2> QED BY <2>1, DropFront
<1>5. Drop(raw, Word32) = b /\ SubSeq(raw, 1, Word32) = l
  BY <1>1, <1>3, <1>4, Zenon
<1>6. Len(raw) >= Word32
  BY <1>1, <1>2
<1> QED BY <1>1, <1>3, <1>5, <1>6 DEF b

\* Where the client is in the stream is an invariant too.
LEMMA AnswerFramed ==
  ASSUME NEW req \in A!Requests, NEW a \in Answers(req)
  PROVE  Framed(a.kind, a.values)
  BY GoodAnswers

LEMMA FramingInit == Init => FramingInv
  BY DEF Init, FramingInv

LEMMA FramingStep ==
  ASSUME TypeInv, FramingInv, [Next]_vars
  PROVE  FramingInv'
<1> USE DEF FramingInv
<1>1. CASE SendRequest
  BY <1>1 DEF SendRequest
<1>2. CASE Respond
  <2>1. /\ at = "answer" /\ at' = "length" /\ damaged' = damaged /\ request' = request
        /\ answer' \in Answers(request)
        /\ pipe' = pipe \o MakeRawPacket(answer'.kind, answer'.values)
    BY <1>2 DEF Respond
  <2>2. ASSUME ~damaged PROVE pipe' = MakeRawPacket(answer'.kind, answer'.values)
    <3>1. pipe = <<>> /\ MakeRawPacket(answer'.kind, answer'.values) \in Seq(Byte)
      BY <2>1, <2>2, AnswerParts DEF TypeInv, Bytes
    <3> DEFINE raw == MakeRawPacket(answer'.kind, answer'.values)
    <3>2. raw \in Seq(Byte) /\ pipe' = <<>> \o raw
      BY <2>1, <3>1
    <3> HIDE DEF raw
    <3>3. <<>> \o raw = raw
      BY <3>2, ConcatEmptySeq
    <3> QED BY <3>2, <3>3 DEF raw
  <2> QED BY <2>1, <2>2
<1>3. CASE RespondBadly
  BY <1>3 DEF RespondBadly
<1>4. CASE HangUp
  <2>1. ASSUME ~damaged PROVE FALSE
    <3>1. CASE at = "length" /\ Len(pipe) < Word32
      <4>1. answer \in Answers(request) /\ pipe = MakeRawPacket(answer.kind, answer.values)
        BY <2>1, <3>1
      <4>2. Framed(answer.kind, answer.values)
        BY <4>1, AnswerFramed DEF TypeInv
      <4>3. Len(pipe) >= Word32
        BY <4>1, <4>2, PacketInPipe
      <4>4. Len(pipe) \in Nat /\ Word32 \in Nat
        BY PacketsAssumption DEF TypeInv, Bytes
      <4> QED BY <3>1, <4>3, <4>4
    <3>2. CASE at = "body" /\ Len(pipe) < want
      <4>1. Len(pipe) = want /\ want \in Nat
        BY <2>1, <3>2 DEF TypeInv
      <4> QED BY <3>2, <4>1
    <3> QED BY <1>4, <3>1, <3>2 DEF HangUp
  <2> QED BY <1>4, <2>1 DEF HangUp
<1>5. CASE ReadLength
  <2>1. /\ at = "length" /\ at' = "body" /\ request' = request /\ answer' = answer
        /\ damaged' = damaged /\ pipe' = Drop(pipe, Word32)
        /\ want' = UnmarshalUint(SubSeq(pipe, 1, Word32))
    BY <1>5 DEF ReadLength
  <2>2. ASSUME ~damaged PROVE pipe' = Whole /\ want' = Len(Whole)
    <3>1. answer \in Answers(request) /\ pipe = MakeRawPacket(answer.kind, answer.values)
      BY <2>1, <2>2
    <3>2. Framed(answer.kind, answer.values)
      BY <3>1, AnswerFramed DEF TypeInv
    <3> QED BY <2>1, <3>1, <3>2, PacketInPipe DEF Whole
  <2>3. Whole' = Whole
    BY <2>1 DEF Whole
  <2> QED BY <2>1, <2>2, <2>3
<1>6. CASE ReadBody
  <2>1. /\ at = "body" /\ at' = "judge" /\ request' = request /\ answer' = answer
        /\ damaged' = damaged /\ pipe' = Drop(pipe, want) /\ resp' = SubSeq(pipe, 1, want)
    BY <1>6 DEF ReadBody
  <2>2. ASSUME ~damaged PROVE pipe' = <<>> /\ resp' = Whole
    <3>1. pipe = Whole /\ want = Len(pipe) /\ pipe \in Seq(Byte)
      BY <2>1, <2>2 DEF TypeInv, Bytes
    <3>2. Drop(pipe, Len(pipe)) = <<>> /\ SubSeq(pipe, 1, Len(pipe)) = pipe
      BY <3>1 DEF Drop
    <3> QED BY <2>1, <3>1, <3>2
  <2>3. Whole' = Whole
    BY <2>1 DEF Whole
  <2> QED BY <2>1, <2>2, <2>3
<1>7. CASE Judge
  <2>1. at = "judge" /\ at' \in {"send", "ended", "panic"} /\ damaged' = damaged /\ pipe' = pipe
    BY <1>7 DEF Judge
  <2> QED BY <2>1
<1>8. CASE UNCHANGED vars
  BY <1>8 DEF vars, Whole
<1> QED BY <1>1, <1>2, <1>3, <1>4, <1>5, <1>6, <1>7, <1>8 DEF Next, Terminated

LEMMA FramingInvariant == Spec => [](TypeInv /\ FramingInv)
<1>1. FramingInv /\ TypeInv /\ [Next]_vars => FramingInv'
  BY FramingStep
<1> QED BY FramingInit, <1>1, TypeInvariant, PTL DEF Spec

\* While no answer has been damaged, ReadPacket never loses its place in the
\* stream, and never waits for bytes that no server sends.
THEOREM PacketsInStep == Spec => []InStep
<1>1. FramingInv => InStep
  BY DEF FramingInv, InStep
<1> QED BY <1>1, FramingInvariant, PTL

\* ReadResp reads a sound answer of the kind asked for as the server wrote it,
\* and any other one as an error.
THEOREM PacketsAnswersAreUnderstood == Spec => []AnswersAreUnderstood
<1>1. TypeInv /\ FramingInv => AnswersAreUnderstood
  <2> SUFFICES ASSUME TypeInv, FramingInv, at = "judge", ~damaged
               PROVE  IF answer.kind = A!Expected(request) THEN Result = answer ELSE Result = Error
    BY DEF AnswersAreUnderstood
  <2>1. request \in A!Requests /\ answer \in Answers(request) /\ resp = Body(answer.kind, answer.values)
    BY DEF TypeInv, FramingInv, Whole
  <2>2. /\ answer = [kind |-> answer.kind, values |-> answer.values]
        /\ answer.kind \in {"version", "handle", "status"}
        /\ Framed(answer.kind, answer.values)
    BY <2>1, GoodAnswers
  <2>3. A!Expected(request) \in {"version", "handle", "status"}
    BY DEF A!Expected
  <2> QED BY <2>1, <2>2, <2>3, AnswerRead DEF Result
<1> QED BY <1>1, FramingInvariant, PTL

\* A server that parses by the layout of the protocol reads from every request
\* the fields that the client marshalled, and the overhead of a write is what
\* WriteRandom (ssh/packet.go) takes it to be.
THEOREM PacketsRequestsAreUnderstood == Spec => []RequestsAreUnderstood
<1>1. TypeInv /\ FramingInv => RequestsAreUnderstood
  <2> DEFINE raw == MakeRawPacket(request, packet)
             b == Body(request, packet)
  <2> SUFFICES ASSUME TypeInv, FramingInv, at = "answer"
               PROVE  /\ UintAt(raw, 0) = Len(raw) - Word32
                      /\ Unmarshal(request, Drop(raw, Word32 + 1)).values = packet
                      /\ request = "write" =>
                           Len(raw) - Len(packet[4]) = 1 + 4 * Word32 + Word64 + Len(packet[2])
    BY DEF RequestsAreUnderstood
  <2>1. request \in A!Requests /\ packet \in RequestFields(request)
    BY DEF TypeInv, FramingInv
  <2>2. Framed(request, packet)
    BY <2>1, GoodRequests
  <2>3. /\ UnmarshalUint(SubSeq(raw, 1, Word32)) = Len(b) /\ Drop(raw, Word32) = b
        /\ Len(raw) = Word32 + Len(b) /\ Len(raw) >= Word32
    BY <2>2, PacketInPipe
  <2>4. raw \in Bytes /\ b \in Bytes /\ b # <<>> /\ Word32 \in Nat /\ Word64 \in Nat /\ Len(b) \in Nat
    BY <2>2, PacketParts, PacketsAssumption DEF Framed
  <2>5. ~Unmarshal(request, Tail(b)).err /\ Unmarshal(request, Tail(b)).values = packet
    BY <2>2, ReadBack
  <2>6. request = "write" =>
          /\ Len(b) = 1 + 3 * Word32 + Word64 + Len(packet[2]) + Len(packet[4])
          /\ Len(packet[2]) \in Nat /\ Len(packet[4]) \in Nat
    <3> SUFFICES ASSUME request = "write"
                 PROVE  /\ Len(b) = 1 + 3 * Word32 + Word64 + Len(packet[2]) + Len(packet[4])
                        /\ Len(packet[2]) \in Nat /\ Len(packet[4]) \in Nat
      OBVIOUS
    <3>1. PICK h \in Strings, o \in Offsets, d \in Strings : packet = <<reqID, h, o, d>>
      BY <2>1 DEF RequestFields
    <3>2. packet[2] \in Strings /\ packet[4] \in Strings
      BY <3>1
    <3> QED BY <2>1, <3>2, GoodRequests, StringsFit
  <2> HIDE DEF raw, b
  <2>7. UintAt(raw, 0) = Len(raw) - Word32
    BY <2>3, <2>4 DEF UintAt
  <2>8. Drop(raw, Word32 + 1) = Tail(b)
    <3> DEFINE one == 1
    <3>1. raw \in Seq(Byte) /\ b \in Seq(Byte) /\ one \in Nat /\ Word32 + one <= Len(raw)
      BY <2>3, <2>4 DEF Bytes
    <3> HIDE DEF one
    <3>2. Drop(Drop(raw, Word32), one) = Drop(raw, Word32 + one)
      BY <2>4, <3>1, DropAgain
    <3>3. Drop(b, 1) = Tail(b)
      BY <2>4, <3>1 DEF Drop
    <3> QED BY <2>3, <3>2, <3>3 DEF one
  <2>9. request = "write" =>
          Len(raw) - Len(packet[4]) = 1 + 4 * Word32 + Word64 + Len(packet[2])
    <3> DEFINE x == Len(packet[2])
               y == Len(packet[4])
    <3> HIDE DEF x, y
    <3>1. request = "write" => Len(b) = 1 + 3 * Word32 + Word64 + x + y /\ x \in Nat /\ y \in Nat
      BY <2>6 DEF x, y
    <3>2. request = "write" => Len(raw) - y = 1 + 4 * Word32 + Word64 + x
      BY <2>3, <2>4, <3>1
    <3> QED BY <3>2 DEF x, y
  <2> QED BY <2>5, <2>7, <2>8, <2>9
<1> QED BY <1>1, FramingInvariant, PTL
=============================================================================
